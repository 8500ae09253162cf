---------------------------- MODULE GreedyDecode ----------------------------
(***************************************************************************)
(* What generate promises: the answer is the one the target model gives     *)
(* token by token, whatever a drafter proposes on the way.  It ends with    *)
(* the first end-of-sequence token or with the budget, or it is cut short.  *)
(***************************************************************************)
EXTENDS Integers, Sequences

CONSTANTS Tokens, EOS, ContextLimit

VARIABLES
    greedy,   \* the target's token at every position, fixed: the first ones are given
    given,    \* tokens of the prompt
    budget,   \* tokens that may be generated, 0 until the request is accepted
    answer,   \* tokens generated so far
    status    \* "asked", "running", "finished" or "failed"

vars == <<greedy, given, budget, answer, status>>

Ended == answer # <<>> /\ (Len(answer) = budget \/ answer[Len(answer)] \in EOS)

Init ==
    /\ greedy \in [1..(ContextLimit + 1) -> Tokens]
    /\ given \in 0..(ContextLimit + 1)
    /\ budget = 0 /\ answer = <<>> /\ status = "asked"

Accept(b) ==
    /\ status = "asked"
    /\ given > 0 /\ b > 0 /\ given + b <= ContextLimit
    /\ budget' = b /\ status' = "running"
    /\ UNCHANGED <<greedy, given, answer>>

Emit ==
    /\ status = "running" /\ ~Ended
    /\ answer' = Append(answer, greedy[given + Len(answer) + 1])
    /\ status' \in {"running", "finished"}
    /\ (status' = "finished") => Ended'
    /\ UNCHANGED <<greedy, given, budget>>

Finish == status = "running" /\ Ended /\ status' = "finished"
          /\ UNCHANGED <<greedy, given, budget, answer>>

Fail == status \in {"asked", "running"} /\ status' = "failed"
        /\ UNCHANGED <<greedy, given, budget, answer>>

Next == (\E b \in 1..ContextLimit : Accept(b)) \/ Emit \/ Finish \/ Fail

Spec == Init /\ [][Next]_vars

=============================================================================
