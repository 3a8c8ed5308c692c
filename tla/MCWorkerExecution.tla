------------------------- MODULE MCWorkerExecution -------------------------
(***************************************************************************)
(* Small instances of WorkerExecution for TLC.                             *)
(***************************************************************************)
EXTENDS WorkerExecution, TLC

CONSTANTS a, b, c, r

\* All calls present one request.
OneRequest == [x \in {a, b, c} |-> r]
ExpiresLate == [x \in {r} |-> 4]
ExpiresSoon == [x \in {r} |-> 2]
ExpiresLater == [x \in {r} |-> 6]
NeverExpires == [x \in {r} |-> 99]

SameRequest == Permutations({a, b, c})
=============================================================================
