---------------------------- MODULE MCAssembler ----------------------------
(* Instances of Assembler for TLC. *)
EXTENDS Assembler, TLC

CONSTANTS s1, s2

\* A shard of two operations, one of them longer than a chunk, and a short one.
TwoShards == (s1 :> <<2, 1>>) @@ (s2 :> <<1>>)

=============================================================================
