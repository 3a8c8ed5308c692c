------------------------ MODULE MCResultVerification ------------------------
(***************************************************************************)
(* Small instances of ResultVerification for TLC: three verifications of   *)
(* result r, two of them in process p1, and one each of s and d in p1.     *)
(***************************************************************************)
EXTENDS ResultVerification, TLC

CONSTANTS u, v, w, x, y, p1, p2, d, r, s

Results == (x :> s) @@ (y :> d) @@ [z \in {u, v, w} |-> r]
Homes == (w :> p2) @@ [z \in {u, v, x, y} |-> p1]
SignedFirst == (r :> 0) @@ [k \in {d, s} |-> 2]

\* The two verifications of r in p1 are alike, and so are s and d with the
\* verification of each.
Swapped == (d :> s) @@ (s :> d) @@ (x :> y) @@ (y :> x)
Same == [z \in {d, s, x, y} |-> z]
Alike == {f @@ g : f \in Permutations({u, v}), g \in {Same, Swapped}}
=============================================================================
