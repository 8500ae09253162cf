------------------------- MODULE LosslessCheckpoint -------------------------
(***************************************************************************)
(* What the converter promises about a checkpoint: each expert shard is at  *)
(* every moment a complete file, native or ScaleX, of the same contents; a  *)
(* conversion changes the format of one shard at a time, all at once.  Only *)
(* another download, by its owner, changes the contents.                    *)
(***************************************************************************)
CONSTANTS Layers, Contents

VARIABLE shard

Init == shard \in [Layers -> [format : {"native"}, of : Contents]]

Convert(l) ==
    shard' = [shard EXCEPT ![l].format = IF @ = "native" THEN "scalex" ELSE "native"]

Replace(l, c) ==
    shard[l].format = "native" /\ shard' = [shard EXCEPT ![l].of = c]

Next == \E l \in Layers : Convert(l) \/ \E c \in Contents : Replace(l, c)

Spec == Init /\ [][Next]_shard

=============================================================================
