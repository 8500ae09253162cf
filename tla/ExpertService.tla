--------------------------- MODULE ExpertService ---------------------------
(***************************************************************************)
(* What the expert data plane promises to the model, without slots, reads   *)
(* or workers.  A MoE layer is asked for a set of experts; when its result  *)
(* is computed, the weights used for each of them are that expert's own;    *)
(* a layer is not asked again before that.  The service may go down at any  *)
(* time, and then computes nothing more.                                    *)
(***************************************************************************)
EXTENDS Integers

CONSTANTS Layers, Experts, Unread

VARIABLES
    demand,   \* experts each layer was asked for and has not yet computed with
    used,     \* whose weights the last result of each layer used, per expert
    up        \* the service still answers

vars == <<demand, used, up>>

Init ==
    /\ demand = [l \in Layers |-> {}]
    /\ used = [l \in Layers |-> [e \in Experts |-> Unread]]
    /\ up = TRUE

Ask(l, route) ==
    /\ up /\ demand[l] = {} /\ route # {}
    /\ demand' = [demand EXCEPT ![l] = route]
    /\ UNCHANGED <<used, up>>

\* Every outstanding demand is computed, with the weights of the right experts.
\* The computation that finds bad logits, or no room for the next route, is the
\* last one.
Compute ==
    /\ up
    /\ used' = [l \in Layers |->
                  IF demand[l] = {} THEN used[l]
                  ELSE [e \in Experts |-> IF e \in demand[l] THEN e ELSE Unread]]
    /\ demand' = [l \in Layers |-> {}]
    /\ up' \in BOOLEAN

Stop == up /\ up' = FALSE /\ UNCHANGED <<demand, used>>

Next ==
    \/ \E l \in Layers, route \in SUBSET Experts : Ask(l, route)
    \/ Compute
    \/ Stop

Spec == Init /\ [][Next]_vars

=============================================================================
