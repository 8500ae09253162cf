------------------------- MODULE MCRuntimeLifecycle -------------------------
(* An instance of RuntimeLifecycle with the sizes of the program, in KiB.    *)
EXTENDS RuntimeLifecycle

GiB == 1048576

\* Two layers stand for 21 layers of the target each; 13,369,344 bytes per slot.
TwoLayers == [l \in 1..2 |-> 21 * 13056]

\* docs/mxfp8-performance.md:55-65 and tests/test_runtime_profile.py:36-68
ResidentSizes == [bf16 |-> 17424415, mxfp8 |-> 9746831, mxfp4 |-> 5784207]

AllBudgets == {8 * GiB, 11 * GiB, 12 * GiB, 17 * GiB, 24 * GiB, 30 * GiB, 200 * GiB}
AllMachines == {16 * GiB, 48 * GiB, 256 * GiB}

=============================================================================
