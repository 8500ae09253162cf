---------------------- MODULE ScaleXConversion_proofs ----------------------
(***************************************************************************)
(* Proofs about ScaleXConversion, for any layers, contents and number of    *)
(* runs, failed, killed or repeated: the checkpoint stays lossless.         *)
(***************************************************************************)
EXTENDS ScaleXConversion, TLAPS

-----------------------------------------------------------------------------
(* The inductive invariant                                                  *)

\* Scratch files of a conversion lie only next to a shard of the other format,
\* and never both of them: the outer file is gone before the inner one is begun.
ScratchFits ==
    \A l \in Layers, f \in Formats :
        /\ shard[l].format = f => inner[l][f] = NoFile
        /\ inner[l][f] = NoFile \/ outer[l][f] = NoFile

AtRest == pc \in {"idle", "next"} => current = NoLayer

AtWork == pc \notin {"idle", "next"} => shard[current].format # goal

AtRecover == pc = "recover" => outer[current][goal] # NoFile

AtWrite == pc \in {"write", "writing", "verify"} => outer[current][goal] = NoFile

AtVerify == pc = "verify" => inner[current][goal] = Image(current, goal)

AtPromote == pc = "promote" => outer[current][goal] = Image(current, goal)

\* The layers the command has been through have the format it asks for.
Visited ==
    /\ pc # "idle" => /\ result = "running" /\ todo \subseteq range
                      /\ \A l \in range \ (todo \union {current}) : shard[l].format = goal
    /\ result = "success" => \A l \in range : shard[l].format = goal

IInv ==
    /\ TypeOK
    /\ ShardsAreWhole
    /\ OuterFilesAreWhole
    /\ ScratchFits
    /\ AtRest /\ AtWork /\ AtRecover /\ AtWrite /\ AtVerify /\ AtPromote
    /\ Visited

-----------------------------------------------------------------------------
(* Lemmas                                                                   *)

\* Writing one scratch file leaves the others alone.
LEMMA PutOne ==
    ASSUME NEW files \in [Layers -> [Formats -> Files \union {NoFile}]],
           NEW file \in Files \union {NoFile}, current \in Layers, goal \in Formats
    PROVE  /\ Put(files, file) \in [Layers -> [Formats -> Files \union {NoFile}]]
           /\ \A l \in Layers, f \in Formats :
                 Put(files, file)[l][f] = IF l = current /\ f = goal THEN file ELSE files[l][f]
BY DEF Put

\* A complete copy of a shard is a file of the contents of the shard.
LEMMA ImageIsWhole ==
    ASSUME TypeOK, NEW l \in Layers, NEW f \in Formats
    PROVE  /\ Image(l, f) \in Files /\ Image(l, f) # NoFile
           /\ Image(l, f).format = f /\ Image(l, f).of = shard[l].of /\ Image(l, f).whole
           /\ [Image(l, f) EXCEPT !.whole = FALSE] \in Files
<1>1. shard[l] \in Files /\ shard[l].of \in Contents
  BY DEF TypeOK, Files
<1>2. Image(l, f) \in Files
  BY <1>1 DEF Image, Files
<1>3. [Image(l, f) EXCEPT !.whole = FALSE] \in Files
  BY <1>2 DEF Files
<1>4. NoFile \notin Files
  BY ConversionAssumption DEF Files, Formats
<1> QED
  BY <1>2, <1>3, <1>4 DEF Image

\* At work, the command is at a layer of its range.
LEMMA Working ==
    ASSUME TypeOK, pc \notin {"idle", "next"}
    PROVE  current \in Layers /\ goal \in Formats
BY DEF TypeOK

LEMMA InitIInv == Init => IInv
<1> SUFFICES ASSUME Init PROVE IInv
  OBVIOUS
<1> USE DEF Init, NoFiles
<1>1. \A l \in Layers : shard[l] \in Files /\ shard[l].whole
  BY DEF Files, Formats
<1>2. TypeOK /\ ShardsAreWhole /\ OuterFilesAreWhole
  BY <1>1 DEF TypeOK, ShardsAreWhole, OuterFilesAreWhole, Formats
<1>3. ScratchFits
  BY DEF ScratchFits
<1>4. AtRest /\ AtWork /\ AtRecover /\ AtWrite /\ AtVerify /\ AtPromote /\ Visited
  BY DEF AtRest, AtWork, AtRecover, AtWrite, AtVerify, AtPromote, Visited
<1> QED
  BY <1>2, <1>3, <1>4 DEF IInv

-----------------------------------------------------------------------------
(* Steps that leave the disk alone                                          *)

\* While the disk stays as it is, so do the facts about its files.
LEMMA SameDisk ==
    ASSUME IInv, UNCHANGED disk
    PROVE  ShardsAreWhole' /\ OuterFilesAreWhole' /\ ScratchFits'
BY DEF IInv, disk, ShardsAreWhole, OuterFilesAreWhole, ScratchFits

LEMMA RunStep ==
    ASSUME IInv, NEW format \in Formats, NEW layers \in SUBSET Layers, Run(format, layers)
    PROVE  IInv'
<1> USE DEF Run
<1>1. TypeOK'
  BY DEF IInv, TypeOK, disk
<1>2. AtRest' /\ AtWork' /\ AtRecover' /\ AtWrite' /\ AtVerify' /\ AtPromote'
  BY DEF IInv, AtRest, AtWork, AtRecover, AtWrite, AtVerify, AtPromote
<1>3. Visited'
  BY DEF Visited
<1> QED
  BY <1>1, <1>2, <1>3, SameDisk DEF IInv

LEMMA VisitStep == ASSUME IInv, NEW l \in Layers, Visit(l) PROVE IInv'
<1> USE DEF Visit, command
<1>1. TypeOK'
  <2>1. pc' \notin {"idle", "next"} => current' \in range' \ todo'
    BY DEF IInv, Visited
  <2>2. /\ pc' \in {"idle", "next", "recover", "write", "writing", "verify", "promote"}
        /\ todo' \subseteq Layers /\ current' \in Layers \union {NoLayer}
    BY DEF IInv, TypeOK
  <2> QED
    BY <2>1, <2>2 DEF IInv, TypeOK, disk
<1>2. AtRest' /\ AtWork' /\ AtRecover' /\ AtWrite' /\ AtVerify' /\ AtPromote'
  BY DEF IInv, AtRest, AtWork, AtRecover, AtWrite, AtVerify, AtPromote, disk
<1>3. Visited'
  <2>1. current = NoLayer /\ result = "running" /\ todo \subseteq range
        /\ \A m \in range \ todo : m # current => shard[m].format = goal
    BY DEF IInv, AtRest, Visited
  <2>2. \A m \in range \ todo : shard[m].format = goal
    BY <2>1, ConversionAssumption DEF IInv, TypeOK
  <2>3. shard[l].format = goal \/ current' = l
    OBVIOUS
  <2> QED
    BY <2>1, <2>2, <2>3 DEF Visited, disk
<1> QED
  BY <1>1, <1>2, <1>3, SameDisk DEF IInv

LEMMA FinishStep == ASSUME IInv, Finish PROVE IInv'
<1> USE DEF Finish, command
<1>1. TypeOK'
  BY DEF IInv, TypeOK, disk
<1>2. AtRest' /\ AtWork' /\ AtRecover' /\ AtWrite' /\ AtVerify' /\ AtPromote'
  BY DEF IInv, AtRest, AtWork, AtRecover, AtWrite, AtVerify, AtPromote
<1>3. Visited'
  BY ConversionAssumption DEF IInv, TypeOK, AtRest, Visited, disk
<1> QED
  BY <1>1, <1>2, <1>3, SameDisk DEF IInv

LEMMA CrashStep == ASSUME IInv, Crash PROVE IInv'
<1> USE DEF Crash
<1>1. TypeOK'
  BY DEF IInv, TypeOK, disk
<1>2. AtRest' /\ AtWork' /\ AtRecover' /\ AtWrite' /\ AtVerify' /\ AtPromote' /\ Visited'
  BY DEF AtRest, AtWork, AtRecover, AtWrite, AtVerify, AtPromote, Visited
<1> QED
  BY <1>1, <1>2, SameDisk DEF IInv

-----------------------------------------------------------------------------
(* Steps that change the disk                                               *)

\* Replacing the shard by the outer file next to it, a complete file of the same
\* contents, finishes the current layer.
LEMMA PromoteStep ==
    ASSUME IInv, pc \in {"recover", "promote"}, Promote(outer[current][goal]),
           outer[current][goal] = Image(current, goal),
           UNCHANGED <<inner, command, todo, result>>
    PROVE  IInv'
<1> USE DEF command
<1>1. TypeOK /\ current \in Layers /\ goal \in Formats /\ shard[current].format # goal
      /\ current \in range \ todo
  BY Working DEF IInv, TypeOK, AtWork
<1> DEFINE image == Image(current, goal)
<1>2. image \in Files /\ image # NoFile /\ image.format = goal /\ image.whole
  BY <1>1, ImageIsWhole
<1>3. /\ shard' \in [Layers -> Files]
      /\ \A l \in Layers : shard'[l] = IF l = current THEN image ELSE shard[l]
  BY <1>1, <1>2 DEF Promote, TypeOK
<1>4. /\ outer' \in [Layers -> [Formats -> Files \union {NoFile}]]
      /\ \A l \in Layers, f \in Formats :
            outer'[l][f] = IF l = current /\ f = goal THEN NoFile ELSE outer[l][f]
  <2>1. NoFile \in Files \union {NoFile} /\ outer' = Put(outer, NoFile)
        /\ outer \in [Layers -> [Formats -> Files \union {NoFile}]]
    BY <1>1 DEF Promote, TypeOK
  <2> QED
    BY <1>1, <2>1, PutOne
<1>5. TypeOK'
  BY <1>1, <1>3, <1>4 DEF TypeOK, Promote
<1>6. ShardsAreWhole'
  BY <1>2, <1>3 DEF IInv, ShardsAreWhole
<1>7. \A f \in Formats \ {goal} : shard[current].format = f
  BY <1>1 DEF TypeOK, Files, Formats
<1>8. OuterFilesAreWhole'
  <2> SUFFICES ASSUME NEW l \in Layers, NEW f \in Formats, outer'[l][f] # NoFile
               PROVE  outer'[l][f].whole /\ outer'[l][f].format = f /\ shard'[l].format # f
    BY DEF OuterFilesAreWhole
  <2>1. ~(l = current /\ f = goal) /\ outer'[l][f] = outer[l][f]
    BY <1>4
  <2>2. outer[l][f].whole /\ outer[l][f].format = f /\ shard[l].format # f
    BY <2>1 DEF IInv, OuterFilesAreWhole
  <2> QED
    BY <1>3, <1>7, <2>1, <2>2
<1>9. ScratchFits'
  <2> SUFFICES ASSUME NEW l \in Layers, NEW f \in Formats
               PROVE  /\ shard'[l].format = f => inner[l][f] = NoFile
                      /\ inner[l][f] = NoFile \/ outer'[l][f] = NoFile
    BY DEF ScratchFits
  <2>1. inner[current][goal] = NoFile
    BY <1>1, <1>2 DEF IInv, ScratchFits
  <2> QED
    BY <1>2, <1>3, <1>4, <2>1 DEF IInv, ScratchFits
<1>10. AtRest' /\ AtWork' /\ AtRecover' /\ AtWrite' /\ AtVerify' /\ AtPromote'
  BY DEF Promote, AtRest, AtWork, AtRecover, AtWrite, AtVerify, AtPromote
<1>11. Visited'
  BY <1>1, <1>2, <1>3 DEF IInv, TypeOK, Visited, Promote
<1> QED
  BY <1>5, <1>6, <1>8, <1>9, <1>10, <1>11 DEF IInv

LEMMA RecoverStep == ASSUME IInv, Recover PROVE IInv'
<1> USE DEF Recover, command
<1>1. TypeOK /\ current \in Layers /\ goal \in Formats /\ shard[current].format # goal
      /\ outer[current][goal] # NoFile
  BY Working DEF IInv, AtWork, AtRecover
<1>2. outer[current][goal] \in Files /\ outer[current][goal].whole
      /\ outer[current][goal].format = goal
  BY <1>1 DEF IInv, TypeOK, OuterFilesAreWhole
<1>3. CASE goal = "scalex" /\ Recovers(outer[current][goal])
  <2>1. outer[current][goal] = Image(current, goal)
    BY <1>2, <1>3 DEF Recovers, Image, Files
  <2> QED
    BY <1>3, <2>1, PromoteStep
<1>4. CASE ~(goal = "scalex" /\ Recovers(outer[current][goal]))
  <2>1. /\ outer' \in [Layers -> [Formats -> Files \union {NoFile}]]
        /\ \A l \in Layers, f \in Formats :
              outer'[l][f] = IF l = current /\ f = goal THEN NoFile ELSE outer[l][f]
    <3>1. NoFile \in Files \union {NoFile} /\ outer' = Put(outer, NoFile)
          /\ outer \in [Layers -> [Formats -> Files \union {NoFile}]]
      BY <1>1, <1>4 DEF TypeOK
    <3> QED
      BY <1>1, <3>1, PutOne
  <2>2. TypeOK'
    BY <1>1, <1>4, <2>1 DEF TypeOK
  <2>3. ShardsAreWhole' /\ OuterFilesAreWhole' /\ ScratchFits'
    BY <1>4, <2>1 DEF IInv, ShardsAreWhole, OuterFilesAreWhole, ScratchFits
  <2>4. AtRest' /\ AtWork' /\ AtRecover' /\ AtWrite' /\ AtVerify' /\ AtPromote'
    BY <1>1, <1>4, <2>1 DEF AtRest, AtWork, AtRecover, AtWrite, AtVerify, AtPromote
  <2>5. Visited'
    BY <1>4 DEF IInv, Visited
  <2> QED
    BY <2>2, <2>3, <2>4, <2>5 DEF IInv
<1> QED
  BY <1>3, <1>4

LEMMA ReplaceStep == ASSUME IInv, Replace PROVE IInv'
BY PromoteStep DEF Replace, IInv, AtPromote

\* An inner file may be begun or rewritten where no outer file lies.
LEMMA InnerFits ==
    ASSUME IInv, pc \in {"write", "writing"}, UNCHANGED <<shard, outer>>,
           NEW file \in Files \union {NoFile}, inner' = Put(inner, file)
    PROVE  /\ inner' \in [Layers -> [Formats -> Files \union {NoFile}]]
           /\ inner'[current][goal] = file
           /\ ShardsAreWhole' /\ OuterFilesAreWhole' /\ ScratchFits'
<1>1. TypeOK /\ current \in Layers /\ goal \in Formats /\ shard[current].format # goal
      /\ outer[current][goal] = NoFile
  BY Working DEF IInv, AtWork, AtWrite
<1>2. inner \in [Layers -> [Formats -> Files \union {NoFile}]]
  BY <1>1 DEF TypeOK
<1>3. /\ inner' \in [Layers -> [Formats -> Files \union {NoFile}]]
      /\ \A l \in Layers, f \in Formats :
            inner'[l][f] = IF l = current /\ f = goal THEN file ELSE inner[l][f]
  BY <1>1, <1>2, PutOne
<1> QED
  BY <1>1, <1>3 DEF IInv, ShardsAreWhole, OuterFilesAreWhole, ScratchFits

LEMMA BeginWriteStep == ASSUME IInv, BeginWrite PROVE IInv'
<1> USE DEF BeginWrite, command
<1> DEFINE torn == [Image(current, goal) EXCEPT !.whole = FALSE]
<1>1. torn \in Files /\ current \in range \ todo
  BY Working, ImageIsWhole DEF IInv, TypeOK
<1>2. inner' \in [Layers -> [Formats -> Files \union {NoFile}]]
      /\ ShardsAreWhole' /\ OuterFilesAreWhole' /\ ScratchFits'
  BY <1>1, InnerFits
<1>3. TypeOK'
  BY <1>1, <1>2 DEF IInv, TypeOK
<1>4. AtRest' /\ AtWork' /\ AtRecover' /\ AtWrite' /\ AtVerify' /\ AtPromote' /\ Visited'
  BY DEF IInv, AtRest, AtWork, AtRecover, AtWrite, AtVerify, AtPromote, Visited
<1> QED
  BY <1>2, <1>3, <1>4 DEF IInv

LEMMA EndWriteStep == ASSUME IInv, EndWrite PROVE IInv'
<1> USE DEF EndWrite, command
<1>1. Image(current, goal) \in Files /\ current \in range \ todo
  BY Working, ImageIsWhole DEF IInv, TypeOK
<1>2. inner' \in [Layers -> [Formats -> Files \union {NoFile}]]
      /\ inner'[current][goal] = Image(current, goal)
      /\ ShardsAreWhole' /\ OuterFilesAreWhole' /\ ScratchFits'
  BY <1>1, InnerFits
<1>3. TypeOK'
  BY <1>1, <1>2 DEF IInv, TypeOK
<1>4. AtRest' /\ AtWork' /\ AtRecover' /\ AtWrite' /\ AtPromote' /\ Visited'
  BY DEF IInv, AtRest, AtWork, AtRecover, AtWrite, AtPromote, Visited
<1>5. AtVerify'
  BY <1>2 DEF AtVerify, Image
<1> QED
  BY <1>2, <1>3, <1>4, <1>5 DEF IInv

LEMMA VerifyStep == ASSUME IInv, Verify PROVE IInv'
<1> USE DEF Verify, command
<1>1. TypeOK /\ current \in Layers /\ goal \in Formats /\ shard[current].format # goal
      /\ current \in range \ todo /\ inner[current][goal] = Image(current, goal)
  BY Working DEF IInv, TypeOK, AtWork, AtVerify
<1> DEFINE image == Image(current, goal)
<1>2. image \in Files /\ image.format = goal /\ image.whole
  BY <1>1, ImageIsWhole
<1>3. /\ inner \in [Layers -> [Formats -> Files \union {NoFile}]]
      /\ outer \in [Layers -> [Formats -> Files \union {NoFile}]]
      /\ inner' = Put(inner, NoFile) /\ outer' = Put(outer, image)
  BY <1>1 DEF TypeOK
<1>4. /\ inner' \in [Layers -> [Formats -> Files \union {NoFile}]]
      /\ \A l \in Layers, f \in Formats :
            inner'[l][f] = IF l = current /\ f = goal THEN NoFile ELSE inner[l][f]
  BY <1>1, <1>3, PutOne
<1>5. /\ outer' \in [Layers -> [Formats -> Files \union {NoFile}]]
      /\ \A l \in Layers, f \in Formats :
            outer'[l][f] = IF l = current /\ f = goal THEN image ELSE outer[l][f]
  BY <1>1, <1>2, <1>3, PutOne
<1>6. TypeOK'
  BY <1>1, <1>4, <1>5 DEF TypeOK
<1>7. ShardsAreWhole' /\ OuterFilesAreWhole' /\ ScratchFits'
  BY <1>1, <1>2, <1>4, <1>5 DEF IInv, ShardsAreWhole, OuterFilesAreWhole, ScratchFits
<1>8. AtRest' /\ AtWork' /\ AtRecover' /\ AtWrite' /\ AtVerify' /\ Visited'
  BY DEF IInv, AtRest, AtWork, AtRecover, AtWrite, AtVerify, Visited
<1>9. AtPromote'
  BY <1>1, <1>5 DEF AtPromote, Image
<1> QED
  BY <1>6, <1>7, <1>8, <1>9 DEF IInv

LEMMA FailStep == ASSUME IInv, Fail PROVE IInv'
<1> USE DEF Fail, command
<1>1. /\ inner' \in [Layers -> [Formats -> Files \union {NoFile}]]
      /\ \A l \in Layers, f \in Formats : inner'[l][f] \in {NoFile, inner[l][f]}
  <2>1. CASE pc \in {"writing", "verify"}
    <3>1. current \in Layers /\ goal \in Formats /\ inner' = Put(inner, NoFile)
          /\ inner \in [Layers -> [Formats -> Files \union {NoFile}]]
      BY <2>1, Working DEF IInv, TypeOK, CleanedUp
    <3> QED
      BY <3>1, PutOne
  <2>2. CASE pc \notin {"writing", "verify"}
    BY <2>2 DEF CleanedUp, IInv, TypeOK
  <2> QED
    BY <2>1, <2>2
<1>2. TypeOK'
  BY <1>1 DEF IInv, TypeOK
<1>3. ShardsAreWhole' /\ OuterFilesAreWhole' /\ ScratchFits'
  BY <1>1 DEF IInv, ShardsAreWhole, OuterFilesAreWhole, ScratchFits
<1>4. AtRest' /\ AtWork' /\ AtRecover' /\ AtWrite' /\ AtVerify' /\ AtPromote' /\ Visited'
  BY DEF AtRest, AtWork, AtRecover, AtWrite, AtVerify, AtPromote, Visited
<1> QED
  BY <1>2, <1>3, <1>4 DEF IInv

LEMMA RedownloadStep ==
    ASSUME IInv, NEW l \in Layers, NEW c \in Contents, Redownload(l, c)
    PROVE  IInv'
<1> USE DEF Redownload, command
<1>1. /\ shard' \in [Layers -> Files]
      /\ \A m \in Layers : /\ shard'[m].format = shard[m].format
                           /\ shard'[m].whole = shard[m].whole
  BY DEF IInv, TypeOK, Files
<1>2. TypeOK'
  BY <1>1 DEF IInv, TypeOK
<1>3. ShardsAreWhole' /\ OuterFilesAreWhole' /\ ScratchFits'
  BY <1>1 DEF IInv, ShardsAreWhole, OuterFilesAreWhole, ScratchFits
<1>4. AtRest' /\ AtWork' /\ AtRecover' /\ AtWrite' /\ AtVerify' /\ AtPromote' /\ Visited'
  BY DEF IInv, AtRest, AtWork, AtRecover, AtWrite, AtVerify, AtPromote, Visited
<1> QED
  BY <1>2, <1>3, <1>4 DEF IInv

-----------------------------------------------------------------------------
(* Theorems                                                                 *)

LEMMA NextIInv == IInv /\ [Next]_vars => IInv'
<1> SUFFICES ASSUME IInv, [Next]_vars PROVE IInv'
  OBVIOUS
<1>1. ASSUME NEW format \in Formats, NEW layers \in SUBSET Layers, Run(format, layers)
      PROVE  IInv'
  BY <1>1, RunStep
<1>2. CASE Work
  BY <1>2, VisitStep, FinishStep, RecoverStep, BeginWriteStep, EndWriteStep, VerifyStep,
     ReplaceStep DEF Work
<1>3. CASE Fail
  BY <1>3, FailStep
<1>4. CASE Crash
  BY <1>4, CrashStep
<1>5. ASSUME NEW l \in Layers, NEW c \in Contents, Redownload(l, c) PROVE IInv'
  BY <1>5, RedownloadStep
<1>6. CASE UNCHANGED vars
  BY <1>6, SameDisk DEF vars, command, disk, IInv, TypeOK, AtRest, AtWork, AtRecover, AtWrite,
     AtVerify, AtPromote, Image, Visited
<1> QED
  BY <1>1, <1>2, <1>3, <1>4, <1>5, <1>6 DEF Next

\* The inductive invariant: scratch files lie only next to shards they may
\* replace, and the layers gone through have the format asked for.
THEOREM Invariance == Spec => []IInv
BY InitIInv, NextIInv, PTL DEF Spec

\* The variables keep their types.
THEOREM TypeCorrect == Spec => []TypeOK
<1>1. IInv => TypeOK
  BY DEF IInv
<1> QED
  BY <1>1, Invariance, PTL

\* At every moment every shard is a whole file.
THEOREM ShardsCorrect == Spec => []ShardsAreWhole
<1>1. IInv => ShardsAreWhole
  BY DEF IInv
<1> QED
  BY <1>1, Invariance, PTL

\* An outer scratch file that any run left behind is complete.
THEOREM OuterFilesCorrect == Spec => []OuterFilesAreWhole
<1>1. IInv => OuterFilesAreWhole
  BY DEF IInv
<1> QED
  BY <1>1, Invariance, PTL

\* A successful command leaves its layers in the format asked for, and nothing
\* of the attempts before it.
THEOREM SuccessCorrect == Spec => []SuccessIsUniform
<1>1. IInv => SuccessIsUniform
  BY DEF IInv, TypeOK, Visited, ScratchFits, OuterFilesAreWhole, SuccessIsUniform
<1> QED
  BY <1>1, Invariance, PTL

-----------------------------------------------------------------------------
(* Refinement of LosslessCheckpoint                                         *)

Bytes == [l \in Layers |-> [format |-> shard[l].format, of |-> shard[l].of]]

\* Replacing a shard by a complete file of its own contents converts it.
LEMMA PromoteConverts ==
    ASSUME IInv, pc \in {"recover", "promote"}, Promote(outer[current][goal]),
           outer[current][goal] = Image(current, goal)
    PROVE  Checkpoint!Next
<1>1. TypeOK /\ current \in Layers /\ goal \in Formats /\ shard[current].format # goal
  BY Working DEF IInv, AtWork
<1> DEFINE other == IF shard[current].format = "native" THEN "scalex" ELSE "native"
<1>2. goal = other
  BY <1>1 DEF TypeOK, Files, Formats
<1>3. \A l \in Layers : shard'[l] = IF l = current THEN Image(current, goal) ELSE shard[l]
  BY <1>1 DEF Promote, TypeOK
<1>4. \A l \in Layers : Bytes'[l] = IF l = current THEN [Bytes[l] EXCEPT !.format = goal]
                                    ELSE Bytes[l]
  BY <1>3 DEF Bytes, Image
<1>5. Bytes' = [Bytes EXCEPT ![current].format = goal]
  BY <1>1, <1>4 DEF Bytes
<1>6. Bytes[current].format = shard[current].format
  BY <1>1 DEF Bytes
<1>7. PICK l \in Layers : l = current
  BY <1>1
<1>8. Checkpoint!Convert(l)
  BY <1>2, <1>5, <1>6, <1>7 DEF Checkpoint!Convert, Bytes
<1> QED
  BY <1>8 DEF Checkpoint!Next

LEMMA RedownloadReplaces ==
    ASSUME IInv, NEW l \in Layers, NEW c \in Contents, Redownload(l, c)
    PROVE  Checkpoint!Next
<1>1. \A m \in Layers : shard'[m] = IF m = l THEN [shard[m] EXCEPT !.of = c] ELSE shard[m]
  BY DEF Redownload, IInv, TypeOK
<1>2. /\ \A m \in Layers : shard[m] \in Files
      /\ shard[l].format = "native" /\ shard'[l].format = shard[l].format /\ shard'[l].of = c
  BY <1>1 DEF Redownload, IInv, TypeOK, Files
<1>3. \A m \in Layers : Bytes'[m] = IF m = l THEN [Bytes[m] EXCEPT !.of = c] ELSE Bytes[m]
  BY <1>1, <1>2 DEF Bytes
<1>4. Bytes' = [Bytes EXCEPT ![l].of = c] /\ Bytes[l].format = "native"
  BY <1>2, <1>3 DEF Bytes
<1>5. Checkpoint!Replace(l, c)
  BY <1>4 DEF Checkpoint!Replace, Bytes
<1> QED
  BY <1>5 DEF Checkpoint!Next

LEMMA CheckpointInit == Init => Checkpoint!Init
BY DEF Init, Checkpoint!Init

LEMMA CheckpointNext == IInv /\ [Next]_vars => [Checkpoint!Next]_Bytes
<1> SUFFICES ASSUME IInv, [Next]_vars PROVE Checkpoint!Next \/ UNCHANGED shard
  BY DEF Bytes
<1>1. ASSUME NEW format \in Formats, NEW layers \in SUBSET Layers, Run(format, layers)
      PROVE  UNCHANGED shard
  BY <1>1 DEF Run, disk
<1>2. CASE Work
  <2>1. CASE Recover
    <3>1. TypeOK /\ current \in Layers /\ goal \in Formats /\ outer[current][goal] # NoFile
      BY <2>1, Working DEF Recover, IInv, AtRecover
    <3>2. outer[current][goal] \in Files /\ outer[current][goal].whole
          /\ outer[current][goal].format = goal
      BY <3>1 DEF IInv, TypeOK, OuterFilesAreWhole
    <3>3. Recovers(outer[current][goal]) => outer[current][goal] = Image(current, goal)
      BY <3>2 DEF Recovers, Image, Files
    <3> QED
      BY <2>1, <3>3, PromoteConverts DEF Recover
  <2>2. CASE Replace
    BY <2>2, PromoteConverts DEF Replace, IInv, AtPromote
  <2> QED
    BY <1>2, <2>1, <2>2 DEF Work, Visit, Finish, BeginWrite, EndWrite, Verify, disk
<1>3. CASE Fail \/ Crash
  BY <1>3 DEF Fail, Crash, disk
<1>4. ASSUME NEW l \in Layers, NEW c \in Contents, Redownload(l, c)
      PROVE  Checkpoint!Next
  BY <1>4, RedownloadReplaces
<1>5. CASE UNCHANGED vars
  BY <1>5 DEF vars, disk
<1> QED
  BY <1>1, <1>2, <1>3, <1>4, <1>5 DEF Next

\* The converter, failing, killed and rerun in any way, changes the format of
\* one shard at a time, all at once, and never its contents.
THEOREM Refinement == Spec => ImplementsLossless
BY CheckpointInit, CheckpointNext, Invariance, PTL
DEF Spec, ImplementsLossless, Checkpoint!Spec, Bytes

=============================================================================
