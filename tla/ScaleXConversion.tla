-------------------------- MODULE ScaleXConversion --------------------------
(***************************************************************************)
(* The converter command over a checkpoint: one run at a time compresses    *)
(* the expert shards of a range of layers in place, or restores them.  Each *)
(* shard goes through two scratch files next to it: the inner one is being  *)
(* written, the outer one is complete and verified, and then replaces the   *)
(* shard.  A run may raise at any step, which deletes the inner file, or    *)
(* be killed, which leaves everything as it is; the command is run again,   *)
(* with the same arguments or with others.                                  *)
(*                                                                          *)
(* A file is abstracted to its format, the contents it stands for and       *)
(* whether all of it has been written; a whole file verifies, a torn one    *)
(* does not.  The calls that rename are atomic and the data is synced       *)
(* before they are made, so that a crash of the machine adds nothing.       *)
(***************************************************************************)
EXTENDS Integers, FiniteSets

CONSTANTS
    Layers,     \* layers with an expert shard (3..44 in the checkpoint)
    Contents,   \* original bytes a shard may stand for
    NoFile,
    NoLayer,
    MaxRuns     \* bound: runs of the command

ASSUME ConversionAssumption ==
    /\ Layers \subseteq Nat /\ IsFiniteSet(Layers) /\ Layers # {}
    /\ NoLayer \notin Layers
    /\ NoFile \notin [format : {"native", "scalex"}, of : Contents, whole : BOOLEAN]
    /\ MaxRuns \in Nat

Formats == {"native", "scalex"}
Files == [format : Formats, of : Contents, whole : BOOLEAN]

VARIABLES
    shard,    \* the expert shard of each layer
    inner,    \* the scratch file being written for a target format
    outer,    \* the scratch file that is complete
    pc,       \* step of the running command
    goal,     \* the format it converts to
    todo,     \* layers it has still to visit
    current,  \* layer it is at
    range,    \* layers it was given
    result,   \* how the last command ended
    runs,     \* commands started
    killed    \* some command has been killed

disk == <<shard, inner, outer>>
command == <<goal, range, runs, killed>>
vars == <<disk, pc, command, todo, current, result>>

NoFiles == [l \in Layers |-> [f \in Formats |-> NoFile]]

Init ==
    /\ shard \in [Layers -> [format : {"native"}, of : Contents, whole : {TRUE}]]
    /\ inner = NoFiles /\ outer = NoFiles
    /\ pc = "idle" /\ goal = "scalex" /\ range = {} /\ todo = {} /\ current = NoLayer
    /\ result = "none" /\ runs = 0 /\ killed = FALSE

\* The two formats of the same contents.
Image(l, format) == [format |-> format, of |-> shard[l].of, whole |-> TRUE]

-----------------------------------------------------------------------------
(* converter_cli.main: the layers of the range in turn                       *)

\* One layer with --layer, all of them otherwise.
Run(format, layers) ==
    /\ pc = "idle" /\ runs < MaxRuns
    /\ layers = Layers \/ Cardinality(layers) = 1
    /\ goal' = format /\ range' = layers /\ todo' = layers
    /\ pc' = "next" /\ result' = "running" /\ runs' = runs + 1
    /\ UNCHANGED <<disk, current, killed>>

\* A compressed shard is verified and left alone, a native one is skipped by
\* --native.  Otherwise an outer file of an earlier run is looked at first.
Visit(l) ==
    /\ pc = "next" /\ l \in todo
    /\ \A m \in todo : l <= m
    /\ todo' = todo \ {l}
    /\ IF shard[l].format = goal THEN pc' = "next" /\ current' = NoLayer
       ELSE /\ current' = l
            /\ pc' = IF outer[l][goal] # NoFile THEN "recover" ELSE "write"
    /\ UNCHANGED <<disk, command, result>>

\* Mutated: the run is over when a layer is done.
FinishEarly ==
    /\ pc = "next" /\ todo # range
    /\ pc' = "idle" /\ result' = "success"
    /\ UNCHANGED <<disk, command, todo, current>>

Finish ==
    /\ pc = "next" /\ todo = {}
    /\ pc' = "idle" /\ result' = "success"
    /\ UNCHANGED <<disk, command, todo, current>>

-----------------------------------------------------------------------------
(* compress_scalex_layer_in_place, restore_scalex_layer_in_place and what     *)
(* they call, for the current layer                                          *)

Put(files, file) == [files EXCEPT ![current][goal] = file]

\* os.replace(outer, shard)
Promote(file) ==
    /\ shard' = [shard EXCEPT ![current] = file]
    /\ outer' = Put(outer, NoFile)
    /\ pc' = "next" /\ current' = NoLayer

\* Mutated: any outer file that verifies is taken.
Verifies(file) == file.whole

\* verify_scalex_layer succeeds, and the file has the size and the hash of the
\* shard as it is now.
Recovers(file) == file.whole /\ file.of = shard[current].of

\* A left-over compressed file replaces the shard if it is the shard's own;
\* a left-over restored file is never used.
Recover ==
    /\ pc = "recover"
    /\ IF goal = "scalex" /\ Recovers(outer[current][goal])
       THEN Promote(outer[current][goal])
       ELSE /\ outer' = Put(outer, NoFile)
            /\ pc' = "write"
            /\ UNCHANGED <<shard, current>>
    /\ UNCHANGED <<inner, command, todo, result>>

\* Mutated: the shard itself is written.
BeginWriteInPlace ==
    /\ pc = "write"
    /\ shard' = [shard EXCEPT ![current] = [Image(current, goal) EXCEPT !.whole = FALSE]]
    /\ inner' = Put(inner, [Image(current, goal) EXCEPT !.whole = FALSE])
    /\ pc' = "writing"
    /\ UNCHANGED <<outer, command, todo, current, result>>

\* The inventory, the codec and the free space are checked before the inner
\* file of an earlier run is deleted and a new one begun.
BeginWrite ==
    /\ pc = "write"
    /\ inner' = Put(inner, [Image(current, goal) EXCEPT !.whole = FALSE])
    /\ pc' = "writing"
    /\ UNCHANGED <<shard, outer, command, todo, current, result>>

EndWrite ==
    /\ pc = "writing"
    /\ inner' = Put(inner, Image(current, goal))
    /\ pc' = "verify"
    /\ UNCHANGED <<shard, outer, command, todo, current, result>>

\* Mutated: the inner file is verified before it is flushed.
VerifyTorn ==
    /\ pc = "writing"
    /\ outer' = Put(outer, inner[current][goal])
    /\ inner' = Put(inner, NoFile)
    /\ pc' = "promote"
    /\ UNCHANGED <<shard, command, todo, current, result>>

\* The reconstruction has the hash of the original; os.replace(inner, outer).
Verify ==
    /\ pc = "verify"
    /\ inner[current][goal].whole
    /\ outer' = Put(outer, inner[current][goal])
    /\ inner' = Put(inner, NoFile)
    /\ pc' = "promote"
    /\ UNCHANGED <<shard, command, todo, current, result>>

Replace ==
    /\ pc = "promote"
    /\ Promote(outer[current][goal])
    /\ UNCHANGED <<inner, command, todo, result>>

-----------------------------------------------------------------------------
\* The finally clause of compress_scalex_layer and restore_scalex_layer.
CleanedUp ==
    inner' = IF pc \in {"writing", "verify"} THEN Put(inner, NoFile) ELSE inner

\* An exception of any step: the disk is full, a read fails, Ctrl-C.
Fail ==
    /\ pc # "idle"
    /\ CleanedUp
    /\ pc' = "idle" /\ result' = "error" /\ todo' = {} /\ current' = NoLayer
    /\ UNCHANGED <<shard, outer, command>>

\* The process is killed.
Crash ==
    /\ pc # "idle"
    /\ pc' = "idle" /\ result' = "error" /\ todo' = {} /\ current' = NoLayer
    /\ killed' = TRUE
    /\ UNCHANGED <<disk, goal, range, runs>>

\* External: the owner puts other bytes in place of a native shard, between runs.
Redownload(l, c) ==
    /\ pc = "idle" /\ shard[l].format = "native" /\ shard[l].of # c
    /\ shard' = [shard EXCEPT ![l].of = c]
    /\ result' = "none"
    /\ UNCHANGED <<inner, outer, pc, command, todo, current>>

Work ==
    \/ \E l \in Layers : Visit(l)
    \/ Finish
    \/ Recover \/ BeginWrite \/ EndWrite \/ Verify \/ Replace

Next ==
    \/ \E format \in Formats, layers \in SUBSET Layers : Run(format, layers)
    \/ Work
    \/ Fail
    \/ Crash
    \/ \E l \in Layers, c \in Contents : Redownload(l, c)

Spec == Init /\ [][Next]_vars

-----------------------------------------------------------------------------
(* Properties                                                                *)

\* Types of the variables.
TypeOK ==
    /\ shard \in [Layers -> Files]
    /\ inner \in [Layers -> [Formats -> Files \union {NoFile}]]
    /\ outer \in [Layers -> [Formats -> Files \union {NoFile}]]
    /\ pc \in {"idle", "next", "recover", "write", "writing", "verify", "promote"}
    /\ goal \in Formats
    /\ todo \subseteq Layers /\ range \subseteq Layers
    /\ current \in Layers \union {NoLayer}
    /\ pc \notin {"idle", "next"} => current \in range \ todo
    /\ result \in {"none", "running", "success", "error"}
    /\ runs \in Nat /\ killed \in BOOLEAN

\* Whatever the step at which a run fails or is killed, and however often, each
\* shard is a whole file (scalex-mode-b.md: written and reconstructed before the
\* original is replaced).
ShardsAreWhole == \A l \in Layers : shard[l].whole

\* An outer file that any run left is complete, in the format it is named for,
\* and lies next to a shard of the other format; it may stand for contents the
\* shard no longer has.
OuterFilesAreWhole ==
    \A l \in Layers, f \in Formats :
        outer[l][f] # NoFile =>
            outer[l][f].whole /\ outer[l][f].format = f /\ shard[l].format # f

\* A command that ends with success leaves every layer of its range in the
\* format asked for; over all layers, the set is then not mixed and the runtime
\* accepts it.  Nothing is left of earlier attempts at the same conversion that
\* were killed: scratch files of the size of a shard do not pile up.
SuccessIsUniform ==
    result = "success" => \A l \in range :
        /\ shard[l].format = goal
        /\ inner[l][goal] = NoFile /\ outer[l][goal] = NoFile

\* A conversion never changes the contents of a shard, and changes its format
\* all at once: the promise of LosslessCheckpoint.
Checkpoint == INSTANCE LosslessCheckpoint WITH
    shard <- [l \in Layers |-> [format |-> shard[l].format, of |-> shard[l].of]]

ImplementsLossless == Checkpoint!Spec

=============================================================================
