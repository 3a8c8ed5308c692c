--------------------------- MODULE MCAgentNetwork ---------------------------
(***************************************************************************)
(* A small instance of AgentNetwork for TLC: a coordinator and a worker,   *)
(* two delegations, which may use one receipt.                             *)
(***************************************************************************)
EXTENDS AgentNetwork, TLC

CONSTANTS c, w, act, p, q, d1, d2, w1, w2, key, new, old

Runs == [x \in {d1, d2} |-> c] @@ [x \in {w1, w2} |-> w]

Routed == {[id |-> 1, routed |-> w, build |-> new],
           [id |-> 2, routed |-> w, build |-> old]}

Live == [mode |-> "live", key |-> key, build |-> new, asked |-> FALSE]
Contexts == [x \in {c, w} |-> Live]

\* One task with its receipt, with the receipt for other parameters, with the
\* receipt of an earlier build.
Asks == {[to |-> w, action |-> act, params |-> p, receipt |-> x] :
           x \in {Receipt([id |-> 1, routed |-> w, build |-> new], act, p),
                  Receipt([id |-> 1, routed |-> w, build |-> new], act, q),
                  Receipt([id |-> 2, routed |-> w, build |-> old], act, p)}}

Permitted == {<<"rule", c, act>>, <<"trust", c, w>>, <<"rule", w, act>>}
Permits == [x \in {c, w} |-> Permitted]
Adjusts == c :> {<<"trust", c, w>>} @@
           w :> {<<"trust", c, w>>, <<"rule", w, act>>}

SameWork == Permutations({d1, d2}) \cup Permutations({w1, w2})
=============================================================================
