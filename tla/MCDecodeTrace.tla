--------------------------- MODULE MCDecodeTrace ---------------------------
(* Instances of DecodeTrace for TLC. *)
EXTENDS DecodeTrace, TLC

\* The workers of a pool are interchangeable.
WorkerSymmetry == Permutations(Workers)

=============================================================================
