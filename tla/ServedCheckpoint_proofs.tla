---------------------- MODULE ServedCheckpoint_proofs ----------------------
(***************************************************************************)
(* Proofs about ServedCheckpoint, for any number of layers and of scripts   *)
(* at work at the same time: what a runtime serves was audited, it is read  *)
(* the way it was planned, and no download undoes a conversion, although    *)
(* downloader and converter replace whatever they find when they are done.  *)
(***************************************************************************)
EXTENDS ServedCheckpoint, TLAPS

-----------------------------------------------------------------------------
(* The inductive invariant                                                  *)

Scalex == Complete("scalex")

FilesTyped ==
    /\ shard \in [Layers -> {Missing, Fetched, Scalex}]
    /\ index \in BOOLEAN /\ report \in {"none", "torn", "PASS"}
    /\ contract \in {"none", "torn", "assembled_unvalidated", "validated"}
    /\ support \in {"none", "torn", "whole"} /\ refused \subseteq Layers

DownloadTyped ==
    /\ download \in [pc : {"idle", "support", "writing", "shards", "contract"},
                     todo : SUBSET Layers, busy : SUBSET Layers]
    /\ download.pc = "contract" => index

ValidateTyped ==
    /\ validate \in [pc : {"idle", "audit", "report", "stamp"}, todo : SUBSET Layers]
    /\ validate.pc # "audit" => validate.todo = {}

ConvertTyped ==
    /\ convert \in [pc : {"idle", "visit", "work"}, goal : Formats \union {"none"},
                    todo : SUBSET Layers]
    /\ convert.pc # "idle" => convert.goal \in Formats

RuntimeTyped ==
    /\ pc \in {"off", "report", "contract", "headers", "plan", "report again",
               "contract again", "open", "up"}
    /\ header \in [Layers -> Formats \union {"none"}]
    /\ handle \in [Layers -> Formats \union {"none"}]
    /\ planned \in Formats \union {"none"}

HistoryTyped ==
    /\ calm \in BOOLEAN /\ discarded \in {"nothing", "shard", "source"}
    /\ touched \subseteq Layers /\ audited \subseteq Layers

Typed == /\ FilesTyped /\ DownloadTyped /\ ValidateTyped /\ ConvertTyped
         /\ RuntimeTyped /\ HistoryTyped

\* Places of load after the second look at the stamp is due.
Planned == {"report again", "contract again", "open", "up"}

\* The downloader and the converter are never at work on the same shard: what the
\* one fetches is not there, and what the other converts stays there, unless it
\* is deleted while the converter reads it.
Apart == discarded # "source" =>
    /\ \A l \in download.busy : shard[l] = Missing
    /\ \A l \in Layers : Works(l) => shard[l] # Missing

\* Once a shard that was audited can be missing only if it was deleted, an audit
\* is never undone: it reaches from the validator over the stamp to the runtime.
AuditInv == discarded = "nothing" =>
    /\ \A l \in audited : shard[l] # Missing
    /\ validate.pc = "audit" => Layers \ validate.todo \subseteq audited
    /\ validate.pc \in {"report", "stamp"} => audited = Layers
    /\ contract = "validated" => audited = Layers
    /\ pc \in {"headers", "plan"} \union Planned => audited = Layers

\* How far load has come with headers, plan and handles.
Progress ==
    /\ pc \in {"off", "report", "contract"} => header = Unread
    /\ pc = "plan" => \A l \in Layers : header[l] # "none"
    /\ pc \notin {"open", "up"} => handle = Unread
    /\ pc \in Planned => planned # "none"

\* What load has seen of the shard of a layer is still true of the file that it
\* has opened, or is going to open.
StillTrue(l) ==
    /\ pc \in {"headers", "plan"} => header[l] \in {"none", shard[l].format}
    /\ pc \in Planned \ {"up"} =>
           \/ handle[l] = "none" /\ shard[l].format = planned
           \/ handle[l] # "none" /\ handle[l] = planned
    /\ pc = "up" => handle[l] = planned

\* Only of the shards touched in between it is not.
Untouched == \A l \in Layers \ touched : StillTrue(l)

IInv == Typed /\ Apart /\ AuditInv /\ Progress /\ Untouched

-----------------------------------------------------------------------------
(* Lemmas                                                                   *)

\* A shard that is there has one of the two formats.
LEMMA ShardKinds ==
    /\ Missing.format = "none" /\ Fetched.format = "native" /\ Scalex.format = "scalex"
    /\ Fetched # Missing /\ Scalex # Missing /\ Fetched # Scalex
    /\ \A format \in Formats : Complete(format) \in {Fetched, Scalex}
BY DEF Missing, Fetched, Scalex, Complete, Formats

LEMMA PresentFormat ==
    ASSUME FilesTyped, NEW l \in Layers
    PROVE  /\ shard[l] \in {Missing, Fetched, Scalex}
           /\ shard[l] # Missing => shard[l].format \in Formats
           /\ shard[l].format = "native" => shard[l] = Fetched
           /\ shard[l].format = "scalex" => shard[l] = Scalex
BY ShardKinds DEF FilesTyped, Formats

\* The types of the module, and more.
LEMMA IInvTypes == IInv => TypeOK
<1> SUFFICES ASSUME IInv PROVE TypeOK
  OBVIOUS
<1>1. shard \in [Layers -> {Missing} \union {Complete(format) : format \in Formats}]
  BY DEF IInv, Typed, FilesTyped, Fetched, Scalex, Formats
<1>2. {header[l] : l \in Layers} \union {handle[l] : l \in Layers} \union {planned}
            \subseteq Formats \union {"none"}
  BY DEF IInv, Typed, RuntimeTyped
<1>3. pc \in {"open", "up"} => planned # "none"
  BY DEF IInv, Progress, Planned
<1> QED
  BY <1>1, <1>2, <1>3 DEF IInv, Typed, FilesTyped, DownloadTyped, ValidateTyped, ConvertTyped,
     RuntimeTyped, HistoryTyped, TypeOK

\* Whoever replaces a shard that a load relies on is noted; other steps of the
\* scripts mean nothing to it.
LEMMA LoadGoesOn ==
    ASSUME IInv, UNCHANGED runtime,
           \/ UNCHANGED <<shard, touched>>
           \/ \E l \in Layers : Touches(l) /\ \A m \in Layers \ {l} : shard'[m] = shard[m]
    PROVE  RuntimeTyped' /\ Progress' /\ Untouched'
<1> USE DEF runtime
<1>1. RuntimeTyped'
  BY DEF IInv, Typed, RuntimeTyped
<1>2. Progress'
  BY DEF IInv, Progress, Planned, Unread
<1>3. CASE UNCHANGED <<shard, touched>>
  <2>1. Untouched'
    BY <1>3 DEF IInv, Untouched, StillTrue, Planned
  <2> QED
    BY <1>1, <1>2, <2>1
<1>4. CASE \E l \in Layers : Touches(l) /\ \A m \in Layers \ {l} : shard'[m] = shard[m]
  <2>1. PICK l \in Layers : Touches(l) /\ \A m \in Layers \ {l} : shard'[m] = shard[m]
    BY <1>4
  <2>2. SUFFICES ASSUME NEW m \in Layers \ touched' PROVE StillTrue(m)'
    BY <1>1, <1>2 DEF Untouched
  <2>3. StillTrue(m) /\ m \notin touched /\ (m = l => ~Relied(l))
    BY <2>1, <2>2 DEF Touches, IInv, Untouched
  <2>4. CASE m # l
    BY <2>1, <2>3, <2>4 DEF StillTrue
  <2>5. CASE ~Relied(m)
    BY <2>3, <2>5 DEF StillTrue, Relied, Planned
  <2> QED
    BY <2>3, <2>4, <2>5
<1> QED
  BY <1>3, <1>4

\* Work that ends, or begins on nothing, keeps the two apart.
LEMMA ApartStands ==
    ASSUME IInv, UNCHANGED <<shard, discarded>>,
           download'.busy \subseteq download.busy,
           convert' = convert \/ convert'.pc # "work"
    PROVE  Apart'
BY DEF IInv, Apart, Works

\* What an audit is about stays as it is.
LEMMA AuditStands ==
    ASSUME IInv, UNCHANGED <<shard, validate, contract, pc, discarded, audited>>
    PROVE  AuditInv'
BY DEF IInv, AuditInv, Planned

LEMMA InitIInv == Init => IInv
<1> SUFFICES ASSUME Init PROVE IInv
  OBVIOUS
<1> USE DEF Init, NotAtWork, NotLoading, NotConverting, Unread, Formats
<1>1. Typed
  BY DEF Typed, FilesTyped, DownloadTyped, ValidateTyped, ConvertTyped, RuntimeTyped, HistoryTyped
<1>2. Apart /\ AuditInv
  BY DEF Apart, Works, AuditInv, Planned, NotLoading
<1>3. Progress /\ Untouched
  BY DEF Progress, Untouched, StillTrue, Planned
<1> QED
  BY <1>1, <1>2, <1>3 DEF IInv

-----------------------------------------------------------------------------
(* Steps of the downloader                                                  *)

\* What is neither a shard nor an audit is not missed by anyone.
LEMMA OtherFiles ==
    ASSUME IInv, UNCHANGED <<shard, validate, convert, runtime, owner, history>>,
           FilesTyped', DownloadTyped', download'.busy \subseteq download.busy,
           contract' \in {contract, "assembled_unvalidated"}
    PROVE  IInv'
<1> USE DEF runtime, owner, history
<1>1. ValidateTyped' /\ ConvertTyped' /\ HistoryTyped'
  BY DEF IInv, Typed, ValidateTyped, ConvertTyped, HistoryTyped
<1>2. RuntimeTyped' /\ Progress' /\ Untouched'
  BY LoadGoesOn
<1>3. Apart'
  BY ApartStands
<1>4. AuditInv'
  BY DEF IInv, AuditInv, Planned
<1> QED
  BY <1>1, <1>2, <1>3, <1>4 DEF IInv, Typed

LEMMA BeginFetchStep == ASSUME IInv, NEW l \in Layers, BeginFetch(l) PROVE IInv'
<1> USE DEF BeginFetch, files, runtime, owner, history
<1>1. FilesTyped' /\ ValidateTyped' /\ ConvertTyped' /\ HistoryTyped'
  BY DEF IInv, Typed, FilesTyped, ValidateTyped, ConvertTyped, HistoryTyped
<1>2. /\ DownloadTyped'
      /\ download'.busy = IF Wanted(l) THEN download.busy \union {l} ELSE download.busy
  BY DEF IInv, Typed, DownloadTyped
<1>3. Apart'
  BY <1>2 DEF IInv, Apart, Works, Wanted
<1>4. AuditInv' /\ RuntimeTyped' /\ Progress' /\ Untouched'
  BY AuditStands, LoadGoesOn
<1> QED
  BY <1>1, <1>2, <1>3, <1>4 DEF IInv, Typed

LEMMA EndFetchStep == ASSUME IInv, NEW l \in Layers, EndFetch(l) PROVE IInv'
<1> USE DEF EndFetch, runtime, owner
<1>1. /\ shard' \in [Layers -> {Missing, Fetched, Scalex}]
      /\ shard'[l] = Fetched /\ \A m \in Layers \ {l} : shard'[m] = shard[m]
  BY DEF IInv, Typed, FilesTyped
<1>2. FilesTyped' /\ ValidateTyped' /\ ConvertTyped'
  BY <1>1 DEF IInv, Typed, FilesTyped, ValidateTyped, ConvertTyped
<1>3. DownloadTyped' /\ download'.busy = download.busy \ {l}
  BY DEF IInv, Typed, DownloadTyped
<1>4. HistoryTyped'
  BY DEF IInv, Typed, HistoryTyped, Touches
<1>5. Apart'
  BY <1>1, <1>3, ShardKinds DEF IInv, Typed, DownloadTyped, Apart, Works
<1>6. AuditInv'
  <2> SUFFICES ASSUME discarded = "nothing" PROVE AuditInv'
    BY DEF AuditInv
  <2>1. audited' = audited
    BY DEF IInv, Apart, AuditInv
  <2> QED
    BY <1>1, <2>1, ShardKinds DEF IInv, Typed, HistoryTyped, AuditInv, Planned
<1>7. RuntimeTyped' /\ Progress' /\ Untouched'
  BY <1>1, LoadGoesOn
<1> QED
  BY <1>2, <1>3, <1>4, <1>5, <1>6, <1>7 DEF IInv, Typed

LEMMA DownloadStep == ASSUME IInv, Download PROVE IInv'
<1> USE DEF runtime, owner, history
<1>1. CASE BeginSupport \/ EndSupport
  <2>1. FilesTyped' /\ DownloadTyped' /\ download'.busy = download.busy
    BY <1>1 DEF BeginSupport, EndSupport, Step, IInv, Typed, FilesTyped, DownloadTyped
  <2> QED
    BY <1>1, <2>1, OtherFiles DEF BeginSupport, EndSupport
<1>2. CASE \E l \in Layers : BeginFetch(l) \/ EndFetch(l)
  BY <1>2, BeginFetchStep, EndFetchStep
<1>3. CASE FailDownload
  <2>1. FilesTyped' /\ DownloadTyped' /\ download'.busy = {}
    BY <1>3 DEF FailDownload, NotLoading, files, IInv, Typed, FilesTyped, DownloadTyped
  <2> QED
    BY <1>3, <2>1, OtherFiles DEF FailDownload, files
<1>4. CASE WriteIndex
  <2>1. FilesTyped' /\ DownloadTyped' /\ download'.busy = download.busy
    BY <1>4 DEF WriteIndex, Step, IInv, Typed, FilesTyped, DownloadTyped
  <2> QED
    BY <1>4, <2>1, OtherFiles DEF WriteIndex
<1>5. CASE WriteContract
  <2>1. FilesTyped' /\ DownloadTyped' /\ download'.busy = {}
    BY <1>5 DEF WriteContract, NotLoading, IInv, Typed, FilesTyped, DownloadTyped
  <2> QED
    BY <1>5, <2>1, OtherFiles DEF WriteContract
<1> QED
  BY <1>1, <1>2, <1>3, <1>4, <1>5 DEF Download

-----------------------------------------------------------------------------
(* Steps of the validator                                                   *)

LEMMA AuditStep == ASSUME IInv, NEW l \in Layers, Audit(l) PROVE IInv'
<1> USE DEF Audit, runtime, owner, files
<1>1. /\ FilesTyped' /\ DownloadTyped' /\ ConvertTyped'
      /\ Apart' /\ RuntimeTyped' /\ Progress' /\ Untouched'
  BY ApartStands, LoadGoesOn DEF IInv, Typed, FilesTyped, DownloadTyped, ConvertTyped
<1>2. audited' \subseteq Layers /\ HistoryTyped'
  BY DEF IInv, Typed, HistoryTyped
<1>3. CASE shard[l] = Missing
  <2>1. validate' = NotAtWork /\ audited' = audited
    BY <1>3
  <2>2. ValidateTyped' /\ AuditInv'
    BY <2>1 DEF ValidateTyped, NotAtWork, IInv, AuditInv, Planned
  <2> QED
    BY <1>1, <1>2, <2>2 DEF IInv, Typed
<1>4. CASE shard[l] # Missing
  <2>1. /\ validate' = [validate EXCEPT !.todo = @ \ {l}]
        /\ audited' = audited \union {l} /\ validate.pc = "audit"
    BY <1>4
  <2>2. /\ ValidateTyped' /\ validate'.pc = "audit"
        /\ validate'.todo = validate.todo \ {l}
    BY <2>1 DEF ValidateTyped, IInv, Typed
  <2>3. AuditInv'
    BY <1>2, <1>4, <2>1, <2>2 DEF IInv, AuditInv, Planned
  <2> QED
    BY <1>1, <1>2, <2>2, <2>3 DEF IInv, Typed
<1> QED
  BY <1>3, <1>4

LEMMA ValidateStep == ASSUME IInv, Validate PROVE IInv'
<1> USE DEF runtime, owner, history
<1>1. CASE \E l \in Layers : Audit(l)
  BY <1>1, AuditStep
<1>2. CASE BeginReport
  <2> USE <1>2 DEF BeginReport
  <2>1. FilesTyped' /\ DownloadTyped' /\ ConvertTyped' /\ HistoryTyped'
        /\ Apart' /\ RuntimeTyped' /\ Progress' /\ Untouched'
    BY ApartStands, LoadGoesOn DEF IInv, Typed, FilesTyped, DownloadTyped, ConvertTyped, HistoryTyped
  <2>2. ValidateTyped' /\ validate'.pc = "report"
    BY DEF IInv, Typed, ValidateTyped, Step, AuditedAll
  <2>3. AuditInv'
    BY <2>2 DEF IInv, Typed, HistoryTyped, AuditInv, Planned, AuditedAll
  <2> QED
    BY <2>1, <2>2, <2>3 DEF IInv, Typed
<1>3. CASE BeginStamp
  <2> USE <1>3 DEF BeginStamp
  <2>1. FilesTyped' /\ DownloadTyped' /\ ConvertTyped' /\ HistoryTyped'
        /\ Apart' /\ RuntimeTyped' /\ Progress' /\ Untouched'
    BY ApartStands, LoadGoesOn DEF IInv, Typed, FilesTyped, DownloadTyped, ConvertTyped, HistoryTyped
  <2>2. ValidateTyped' /\ validate'.pc \in {"idle", "stamp"}
    BY DEF IInv, Typed, ValidateTyped, Step, NotAtWork
  <2>3. AuditInv'
    BY <2>2 DEF IInv, AuditInv, Planned
  <2> QED
    BY <2>1, <2>2, <2>3 DEF IInv, Typed
<1>4. CASE Stamp
  <2> USE <1>4 DEF Stamp
  <2>1. FilesTyped' /\ DownloadTyped' /\ ConvertTyped' /\ HistoryTyped'
        /\ Apart' /\ RuntimeTyped' /\ Progress' /\ Untouched'
    BY ApartStands, LoadGoesOn DEF IInv, Typed, FilesTyped, DownloadTyped, ConvertTyped, HistoryTyped
  <2>2. ValidateTyped' /\ AuditInv'
    BY DEF IInv, ValidateTyped, AuditInv, Planned, NotAtWork
  <2> QED
    BY <2>1, <2>2 DEF IInv, Typed
<1> QED
  BY <1>1, <1>2, <1>3, <1>4 DEF Validate

-----------------------------------------------------------------------------
(* Steps of the converter                                                   *)

\* There is at most one least element.
LEMMA OneLeast ==
    ASSUME NEW S \in SUBSET Layers, NEW l \in Layers, NEW m \in Layers,
           IsLeast(l, S), IsLeast(m, S)
    PROVE  l = m
BY LayersAssumption DEF IsLeast, Layers

LEMMA VisitStep == ASSUME IInv, NEW l \in Layers, Visit(l) PROVE IInv'
<1> USE DEF Visit, files, runtime, owner, history
<1>1. FilesTyped' /\ DownloadTyped' /\ ValidateTyped' /\ HistoryTyped'
  BY DEF IInv, Typed, FilesTyped, DownloadTyped, ValidateTyped, HistoryTyped
<1>2. ConvertTyped'
  BY DEF IInv, Typed, ConvertTyped, NotConverting, Step
<1>3. Apart'
  <2>1. CASE convert'.pc # "work"
    BY <2>1, ApartStands
  <2>2. CASE convert'.pc = "work"
    <3>1. convert'.todo = convert.todo /\ shard[l] # Missing /\ convert.todo \subseteq Layers
      BY <2>2 DEF IInv, Typed, ConvertTyped, NotConverting, Step
    <3>2. \A m \in Layers : Works(m)' => m = l
      BY <3>1, OneLeast DEF Works, IsLeast
    <3> QED
      BY <3>1, <3>2 DEF IInv, Apart
  <2> QED
    BY <2>1, <2>2
<1>4. AuditInv' /\ RuntimeTyped' /\ Progress' /\ Untouched'
  BY AuditStands, LoadGoesOn
<1> QED
  BY <1>1, <1>2, <1>3, <1>4 DEF IInv, Typed

LEMMA FinishStep == ASSUME IInv, NEW l \in Layers, Finish(l) PROVE IInv'
<1> USE DEF Finish, Works, runtime, owner
<1>1. /\ shard' \in [Layers -> {Missing, Fetched, Scalex}]
      /\ shard'[l] # Missing /\ \A m \in Layers \ {l} : shard'[m] = shard[m]
  <2>1. Complete(convert.goal) \in {Fetched, Scalex}
    BY ShardKinds DEF IInv, Typed, ConvertTyped
  <2> QED
    BY <2>1, ShardKinds DEF IInv, Typed, FilesTyped
<1>2. FilesTyped' /\ DownloadTyped' /\ ValidateTyped'
  BY <1>1 DEF IInv, Typed, FilesTyped, DownloadTyped, ValidateTyped
<1>3. ConvertTyped' /\ convert'.pc = "visit"
  BY DEF IInv, Typed, ConvertTyped
<1>4. HistoryTyped'
  BY DEF IInv, Typed, HistoryTyped, Touches
<1>5. Apart'
  BY <1>1, <1>3 DEF IInv, Typed, DownloadTyped, Apart
<1>6. AuditInv'
  BY <1>1 DEF IInv, Typed, HistoryTyped, AuditInv, Planned
<1>7. RuntimeTyped' /\ Progress' /\ Untouched'
  BY <1>1, LoadGoesOn
<1> QED
  BY <1>2, <1>3, <1>4, <1>5, <1>6, <1>7 DEF IInv, Typed

LEMMA ConvertStep == ASSUME IInv, Convert PROVE IInv'
<1>1. CASE \E l \in Layers : Visit(l) \/ Finish(l)
  BY <1>1, VisitStep, FinishStep
<1>2. CASE EndConvert
  <2> USE <1>2 DEF EndConvert, files, runtime, owner, history
  <2>1. FilesTyped' /\ DownloadTyped' /\ ValidateTyped' /\ HistoryTyped'
    BY DEF IInv, Typed, FilesTyped, DownloadTyped, ValidateTyped, HistoryTyped
  <2>2. ConvertTyped' /\ convert'.pc = "idle"
    BY DEF ConvertTyped, NotConverting
  <2>3. Apart' /\ AuditInv' /\ RuntimeTyped' /\ Progress' /\ Untouched'
    BY <2>2, ApartStands, AuditStands, LoadGoesOn
  <2> QED
    BY <2>1, <2>2, <2>3 DEF IInv, Typed
<1> QED
  BY <1>1, <1>2 DEF Convert

-----------------------------------------------------------------------------
(* Steps of the runtime                                                     *)

\* load only reads the files.
LEMMA LoadOnlyReads ==
    ASSUME IInv, NEW from, NEW to, Moves(from, to)
    PROVE  /\ FilesTyped' /\ DownloadTyped' /\ ValidateTyped' /\ ConvertTyped'
           /\ touched' \subseteq Layers => HistoryTyped'
           /\ Apart'
           /\ (to \notin {"headers", "plan"} \union Planned
               \/ from \in {"headers", "plan"} \union Planned
               \/ contract = "validated") => AuditInv'
<1> USE DEF Moves, files, scripts, owner
<1>1. FilesTyped' /\ DownloadTyped' /\ ValidateTyped' /\ ConvertTyped'
  BY DEF IInv, Typed, FilesTyped, DownloadTyped, ValidateTyped, ConvertTyped
<1>2. (touched' \subseteq Layers => HistoryTyped') /\ Apart'
  BY ApartStands DEF IInv, Typed, HistoryTyped
<1>3. (to \notin {"headers", "plan"} \union Planned
       \/ from \in {"headers", "plan"} \union Planned
       \/ contract = "validated") => AuditInv'
  BY DEF IInv, AuditInv
<1> QED
  BY <1>1, <1>2, <1>3

\* A step that raises leaves nothing behind.
LEMMA RefusedStep == ASSUME IInv, NEW from, Refused(from) PROVE IInv'
<1> USE DEF Refused
<1>1. /\ FilesTyped' /\ DownloadTyped' /\ ValidateTyped' /\ ConvertTyped'
      /\ HistoryTyped' /\ Apart' /\ AuditInv'
  <2>1. "off" \notin {"headers", "plan"} \union Planned
    BY DEF Planned
  <2>2. Moves(from, "off") /\ touched' \subseteq Layers
    OBVIOUS
  <2> QED
    BY <2>1, <2>2, LoadOnlyReads
<1>2. RuntimeTyped' /\ Progress' /\ Untouched'
  BY DEF RuntimeTyped, Progress, Untouched, StillTrue, Planned, Moves, Unread, Formats
<1> QED
  BY <1>1, <1>2 DEF IInv, Typed

\* The layers before the first one not taken have all been taken.
LEMMA TakenInOrder ==
    ASSUME NEW f \in [Layers -> Formats \union {"none"}], NEW l \in Layers,
           IsLeast(l, {m \in Layers : f[m] = "none"}), l = Last, NEW format \in Formats
    PROVE  \A m \in Layers : [f EXCEPT ![l] = format][m] # "none"
BY LayersAssumption DEF IsLeast, Layers, Formats

LEMMA ReadHeaderStep == ASSUME IInv, NEW l \in Layers, ReadHeader(l) PROVE IInv'
<1>1. CASE Refused("headers")
  BY <1>1, RefusedStep
<1>2. CASE ~Refused("headers")
  <2> DEFINE to == IF l = Last THEN "plan" ELSE "headers"
  <2>1. /\ Moves("headers", to) /\ shard[l] # Missing
        /\ header' = [header EXCEPT ![l] = shard[l].format]
        /\ UNCHANGED <<planned, handle, touched>>
        /\ IsLeast(l, {m \in Layers : header[m] = "none"})
    BY <1>2 DEF ReadHeader
  <2>2. /\ FilesTyped' /\ DownloadTyped' /\ ValidateTyped' /\ ConvertTyped'
        /\ HistoryTyped' /\ Apart' /\ AuditInv'
    BY <2>1, LoadOnlyReads DEF IInv, Typed, HistoryTyped
  <2>3. pc = "headers" /\ pc' = to /\ UNCHANGED shard
    BY <2>1 DEF Moves, files
  <2>4. shard[l].format \in Formats
    BY <2>1, PresentFormat DEF IInv, Typed
  <2>5. RuntimeTyped'
    BY <2>1, <2>3, <2>4 DEF IInv, Typed, RuntimeTyped
  <2>6. l = Last => \A m \in Layers : header'[m] # "none"
    BY <2>1, <2>4, TakenInOrder DEF IInv, Typed, RuntimeTyped
  <2>7. Progress'
    BY <2>1, <2>3, <2>6 DEF IInv, Progress, Planned, Unread
  <2>8. Untouched'
    BY <2>1, <2>3 DEF IInv, Typed, RuntimeTyped, Untouched, StillTrue, Planned
  <2> QED
    BY <2>2, <2>5, <2>7, <2>8 DEF IInv, Typed
<1> QED
  BY <1>1, <1>2

LEMMA BuildPlanStep == ASSUME IInv, BuildPlan PROVE IInv'
<1>1. CASE Refused("plan")
  BY <1>1, RefusedStep
<1>2. CASE ~Refused("plan")
  <2>1. /\ Moves("plan", "report again") /\ Uniform
        /\ planned' = header[First] /\ header' = Unread
        /\ UNCHANGED <<handle, touched>>
    BY <1>2 DEF BuildPlan
  <2>2. /\ FilesTyped' /\ DownloadTyped' /\ ValidateTyped' /\ ConvertTyped'
        /\ HistoryTyped' /\ Apart' /\ AuditInv'
    BY <2>1, LoadOnlyReads DEF IInv, Typed, HistoryTyped
  <2>3. pc = "plan" /\ pc' = "report again" /\ UNCHANGED shard
    BY <2>1 DEF Moves, files
  <2>4. First \in Layers
    BY LayersAssumption DEF Layers
  <2>5. planned' \in Formats
    BY <2>1, <2>3, <2>4 DEF IInv, Typed, RuntimeTyped, Progress
  <2>6. RuntimeTyped'
    BY <2>1, <2>3, <2>5 DEF IInv, Typed, RuntimeTyped, Unread
  <2>7. Progress'
    BY <2>1, <2>3, <2>5 DEF IInv, Progress, Planned, Unread, Formats
  <2>8. \A l \in Layers : header[l] = planned' /\ header[l] # "none" /\ handle[l] = "none"
    BY <2>1, <2>3, <2>4 DEF Uniform, IInv, Progress, Unread
  <2>9. Untouched'
    BY <2>1, <2>3, <2>8 DEF IInv, Untouched, StillTrue, Planned
  <2> QED
    BY <2>2, <2>6, <2>7, <2>9 DEF IInv, Typed
<1> QED
  BY <1>1, <1>2

LEMMA OpenHandleStep == ASSUME IInv, NEW l \in Layers, OpenHandle(l) PROVE IInv'
<1>1. CASE Refused("open")
  BY <1>1, RefusedStep
<1>2. CASE ~Refused("open")
  <2> DEFINE to == IF l = Last THEN "up" ELSE "open"
  <2>1. /\ Moves("open", to) /\ shard[l] # Missing
        /\ handle' = [handle EXCEPT ![l] = shard[l].format]
        /\ UNCHANGED <<header, planned, touched>>
        /\ IsLeast(l, {m \in Layers : handle[m] = "none"})
    BY <1>2 DEF OpenHandle
  <2>2. /\ FilesTyped' /\ DownloadTyped' /\ ValidateTyped' /\ ConvertTyped'
        /\ HistoryTyped' /\ Apart' /\ AuditInv'
    <3>1. "open" \in {"headers", "plan"} \union Planned
      BY DEF Planned
    <3> QED
      BY <2>1, <3>1, LoadOnlyReads DEF IInv, Typed, HistoryTyped
  <2>3. pc = "open" /\ pc' = to /\ UNCHANGED shard
    BY <2>1 DEF Moves, files
  <2>4. shard[l].format \in Formats
    BY <2>1, PresentFormat DEF IInv, Typed
  <2>5. RuntimeTyped'
    BY <2>1, <2>3, <2>4 DEF IInv, Typed, RuntimeTyped
  <2>6. Progress'
    BY <2>1, <2>3 DEF IInv, Progress, Planned
  <2>7. l = Last => \A m \in Layers : handle'[m] # "none"
    BY <2>1, <2>4, TakenInOrder DEF IInv, Typed, RuntimeTyped
  <2>8. Untouched'
    <3> SUFFICES ASSUME NEW m \in Layers \ touched PROVE StillTrue(m)'
      BY <2>1 DEF Untouched
    <3>1. StillTrue(m) /\ handle'[m] = IF m = l THEN shard[l].format ELSE handle[m]
      BY <2>1 DEF IInv, Typed, RuntimeTyped, Untouched
    <3>2. handle[l] = "none"
      BY <2>1 DEF IsLeast
    <3> QED
      BY <2>1, <2>3, <2>4, <2>7, <3>1, <3>2 DEF StillTrue, Planned, Formats
  <2> QED
    BY <2>2, <2>5, <2>6, <2>8 DEF IInv, Typed
<1> QED
  BY <1>1, <1>2

LEMMA ReadReportStep ==
    ASSUME IInv,
           NEW from \in {"report", "report again"},
           ReadReport(from, IF from = "report" THEN "contract" ELSE "contract again")
    PROVE  IInv'
<1>1. CASE Refused(from)
  BY <1>1, RefusedStep
<1>2. CASE ~Refused(from)
  <2> DEFINE to == IF from = "report" THEN "contract" ELSE "contract again"
  <2>1. Moves(from, to) /\ UNCHANGED <<header, planned, handle, touched>>
    BY <1>2 DEF ReadReport
  <2>2. /\ FilesTyped' /\ DownloadTyped' /\ ValidateTyped' /\ ConvertTyped'
        /\ HistoryTyped' /\ Apart' /\ AuditInv'
    <3>1. \/ from \in {"headers", "plan"} \union Planned
          \/ to \notin {"headers", "plan"} \union Planned
      BY DEF Planned
    <3> QED
      BY <2>1, <3>1, LoadOnlyReads DEF IInv, Typed, HistoryTyped
  <2>3. pc = from /\ pc' = to /\ UNCHANGED shard
    BY <2>1 DEF Moves, files
  <2>4. RuntimeTyped'
    BY <2>1, <2>3 DEF IInv, Typed, RuntimeTyped
  <2>5. Progress' /\ Untouched'
    BY <2>1, <2>3 DEF IInv, Progress, Untouched, StillTrue, Planned, Unread
  <2> QED
    BY <2>2, <2>4, <2>5 DEF IInv, Typed
<1> QED
  BY <1>1, <1>2

LEMMA ReadContractStep ==
    ASSUME IInv,
           NEW from \in {"contract", "contract again"},
           ReadContract(from, IF from = "contract" THEN "headers" ELSE "open")
    PROVE  IInv'
<1>1. CASE Refused(from)
  BY <1>1, RefusedStep
<1>2. CASE ~Refused(from)
  <2> DEFINE to == IF from = "contract" THEN "headers" ELSE "open"
  <2>1. /\ Moves(from, to) /\ UNCHANGED <<header, planned, handle, touched>>
        /\ contract = "validated"
    BY <1>2 DEF ReadContract
  <2>2. /\ FilesTyped' /\ DownloadTyped' /\ ValidateTyped' /\ ConvertTyped'
        /\ HistoryTyped' /\ Apart' /\ AuditInv'
    BY <2>1, LoadOnlyReads DEF IInv, Typed, HistoryTyped
  <2>3. pc = from /\ pc' = to /\ UNCHANGED shard
    BY <2>1 DEF Moves, files
  <2>4. RuntimeTyped'
    BY <2>1, <2>3 DEF IInv, Typed, RuntimeTyped
  <2>5. Progress' /\ Untouched'
    BY <2>1, <2>3 DEF IInv, Progress, Untouched, StillTrue, Planned, Unread
  <2> QED
    BY <2>2, <2>4, <2>5 DEF IInv, Typed
<1> QED
  BY <1>1, <1>2

LEMMA LoadStep == ASSUME IInv, Load PROVE IInv'
<1>1. CASE ReadReport("report", "contract") \/ ReadReport("report again", "contract again")
  BY <1>1, ReadReportStep
<1>2. CASE ReadContract("contract", "headers") \/ ReadContract("contract again", "open")
  BY <1>2, ReadContractStep
<1>3. CASE \E l \in Layers : ReadHeader(l) \/ OpenHandle(l)
  BY <1>3, ReadHeaderStep, OpenHandleStep
<1>4. CASE BuildPlan
  BY <1>4, BuildPlanStep
<1> QED
  BY <1>1, <1>2, <1>3, <1>4 DEF Load

-----------------------------------------------------------------------------
(* Steps of the owner                                                       *)

LEMMA StartDownloadStep == ASSUME IInv, StartDownload PROVE IInv'
<1> USE DEF StartDownload, files, runtime, owner, history
<1>1. FilesTyped' /\ ValidateTyped' /\ ConvertTyped' /\ HistoryTyped'
  BY DEF IInv, Typed, FilesTyped, ValidateTyped, ConvertTyped, HistoryTyped
<1>2. DownloadTyped' /\ download'.busy = {}
  BY DEF DownloadTyped
<1>3. Apart' /\ AuditInv' /\ RuntimeTyped' /\ Progress' /\ Untouched'
  BY <1>2, ApartStands, AuditStands, LoadGoesOn
<1> QED
  BY <1>1, <1>2, <1>3 DEF IInv, Typed

LEMMA StartValidateStep == ASSUME IInv, StartValidate PROVE IInv'
<1> USE DEF StartValidate, files, runtime, owner, history
<1>1. FilesTyped' /\ DownloadTyped' /\ ConvertTyped' /\ HistoryTyped'
  BY DEF IInv, Typed, FilesTyped, DownloadTyped, ConvertTyped, HistoryTyped
<1>2. ValidateTyped' /\ AuditInv'
  BY DEF IInv, ValidateTyped, AuditInv, Planned
<1>3. Apart' /\ RuntimeTyped' /\ Progress' /\ Untouched'
  BY ApartStands, LoadGoesOn
<1> QED
  BY <1>1, <1>2, <1>3 DEF IInv, Typed

LEMMA StartConvertStep ==
    ASSUME IInv, NEW goal \in Formats, NEW layers \in SUBSET Layers, StartConvert(goal, layers)
    PROVE  IInv'
<1> USE DEF StartConvert, files, runtime, owner, history
<1>1. FilesTyped' /\ DownloadTyped' /\ ValidateTyped' /\ HistoryTyped'
  BY DEF IInv, Typed, FilesTyped, DownloadTyped, ValidateTyped, HistoryTyped
<1>2. ConvertTyped' /\ convert'.pc = "visit"
  BY DEF ConvertTyped
<1>3. Apart' /\ AuditInv' /\ RuntimeTyped' /\ Progress' /\ Untouched'
  BY <1>2, ApartStands, AuditStands, LoadGoesOn
<1> QED
  BY <1>1, <1>2, <1>3 DEF IInv, Typed

LEMMA StartLoadStep == ASSUME IInv, StartLoad PROVE IInv'
<1> USE DEF StartLoad
<1>1. /\ FilesTyped' /\ DownloadTyped' /\ ValidateTyped' /\ ConvertTyped'
      /\ HistoryTyped' /\ Apart' /\ AuditInv'
  <2>1. "report" \notin {"headers", "plan"} \union Planned
    BY DEF Planned
  <2> QED
    BY <2>1, LoadOnlyReads DEF IInv, Typed, HistoryTyped
<1>2. RuntimeTyped' /\ Progress' /\ Untouched'
  BY DEF Moves, IInv, Typed, RuntimeTyped, Progress, Untouched, StillTrue, Planned, Unread
<1> QED
  BY <1>1, <1>2 DEF IInv, Typed

LEMMA KillStep == ASSUME IInv, Kill PROVE IInv'
<1> USE DEF Kill, files, runtime, owner, history
<1>1. FilesTyped' /\ HistoryTyped'
  BY DEF IInv, Typed, FilesTyped, DownloadTyped, HistoryTyped
<1>2. /\ DownloadTyped' /\ ValidateTyped' /\ ConvertTyped'
      /\ download'.busy \subseteq download.busy
      /\ convert' = convert \/ convert'.pc = "idle"
  BY DEF IInv, Typed, DownloadTyped, ValidateTyped, ConvertTyped, NotAtWork, NotLoading,
     NotConverting
<1>3. Apart' /\ RuntimeTyped' /\ Progress' /\ Untouched'
  BY <1>2, ApartStands, LoadGoesOn
<1>4. AuditInv'
  <2>1. validate' = validate \/ validate'.pc = "idle"
    BY DEF NotAtWork
  <2> QED
    BY <2>1 DEF IInv, AuditInv
<1> QED
  BY <1>1, <1>2, <1>3, <1>4 DEF IInv, Typed

LEMMA DiscardStep == ASSUME IInv, NEW l \in Layers, Discard(l) PROVE IInv'
<1> USE DEF Discard, scripts, runtime
<1>1. FilesTyped' /\ DownloadTyped' /\ ValidateTyped' /\ ConvertTyped'
  BY DEF IInv, Typed, FilesTyped, DownloadTyped, ValidateTyped, ConvertTyped
<1>2. HistoryTyped' /\ AuditInv'
  BY DEF IInv, Typed, HistoryTyped, Touches, AuditInv
<1>3. shard'[l] = Missing /\ \A m \in Layers \ {l} : shard'[m] = shard[m]
  BY DEF IInv, Typed, FilesTyped
<1>4. Apart'
  BY <1>3 DEF IInv, Typed, DownloadTyped, Apart, Works
<1>5. RuntimeTyped' /\ Progress' /\ Untouched'
  BY <1>3, LoadGoesOn
<1> QED
  BY <1>1, <1>2, <1>4, <1>5 DEF IInv, Typed

LEMMA SettleStep == ASSUME IInv, Settle PROVE IInv'
<1> USE DEF Settle, files, scripts, runtime, history
<1>1. FilesTyped' /\ DownloadTyped' /\ ValidateTyped' /\ ConvertTyped' /\ HistoryTyped'
  BY DEF IInv, Typed, FilesTyped, DownloadTyped, ValidateTyped, ConvertTyped, HistoryTyped
<1>2. Apart' /\ AuditInv' /\ RuntimeTyped' /\ Progress' /\ Untouched'
  BY ApartStands, AuditStands, LoadGoesOn
<1> QED
  BY <1>1, <1>2 DEF IInv, Typed

-----------------------------------------------------------------------------
(* Theorems                                                                 *)

LEMMA NextIInv == IInv /\ [Next]_vars => IInv'
<1> SUFFICES ASSUME IInv, [Next]_vars PROVE IInv'
  OBVIOUS
<1>1. CASE Download
  BY <1>1, DownloadStep
<1>2. CASE Validate
  BY <1>2, ValidateStep
<1>3. CASE Convert
  BY <1>3, ConvertStep
<1>4. CASE Load
  BY <1>4, LoadStep
<1>5. CASE AnyCommand
  BY <1>5, StartDownloadStep, StartValidateStep, StartConvertStep, StartLoadStep, RefusedStep
  DEF AnyCommand, Close
<1>6. CASE Kill
  BY <1>6, KillStep
<1>7. ASSUME NEW l \in Layers, Discard(l) PROVE IInv'
  BY <1>7, DiscardStep
<1>8. CASE Settle
  BY <1>8, SettleStep
<1>9. CASE AdvisedCommand
  <2>1. CASE StartConvert("scalex", Layers) \/ StartConvert("native", Layers)
    BY <2>1, StartConvertStep DEF Formats
  <2> QED
    BY <1>9, <2>1, StartDownloadStep, StartValidateStep, StartLoadStep DEF AdvisedCommand
<1>10. CASE UNCHANGED vars
  <2> USE <1>10 DEF vars, files, scripts, runtime, owner, history
  <2>1. FilesTyped' /\ DownloadTyped' /\ ValidateTyped' /\ ConvertTyped' /\ HistoryTyped'
    BY DEF IInv, Typed, FilesTyped, DownloadTyped, ValidateTyped, ConvertTyped, HistoryTyped
  <2>2. Apart' /\ AuditInv' /\ RuntimeTyped' /\ Progress' /\ Untouched'
    BY ApartStands, AuditStands, LoadGoesOn
  <2> QED
    BY <2>1, <2>2 DEF IInv, Typed
<1> QED
  BY <1>1, <1>2, <1>3, <1>4, <1>5, <1>6, <1>7, <1>8, <1>9, <1>10 DEF Next

\* The inductive invariant: how audits reach from the validator over the stamp to
\* the runtime, and what a load still knows of the shards it has looked at.
THEOREM Invariance == Spec => []IInv
BY InitIInv, NextIInv, PTL DEF Spec

\* The variables keep their types.
THEOREM TypeCorrect == Spec => []TypeOK
BY IInvTypes, Invariance, PTL

\* A runtime that is up reads each layer the way it planned, unless a shard was
\* replaced while it was loading.
THEOREM PlanCorrect == Spec => []ServesWhatItPlanned
<1>1. IInv => ServesWhatItPlanned
  BY DEF IInv, Untouched, StillTrue, ServesWhatItPlanned
<1> QED
  BY <1>1, Invariance, PTL

\* What the runtime serves was audited since it was downloaded.
THEOREM AuditCorrect == Spec => []ServesOnlyAudited
<1>1. IInv => ServesOnlyAudited
  BY DEF IInv, AuditInv, ServesOnlyAudited, Planned
<1> QED
  BY <1>1, Invariance, PTL

\* A converted shard stays converted, unless the converter is told to restore it.
LEMMA StepKeepsConverted ==
    ASSUME IInv, [Next]_vars, NEW l \in Layers, discarded # "source",
           shard[l].format = "scalex", shard'[l].format = "native"
    PROVE  convert.goal = "native" /\ convert'.todo # convert.todo
<1>1. shard[l] = Scalex /\ shard[l] # Missing /\ shard'[l] # shard[l]
  BY PresentFormat, ShardKinds DEF IInv, Typed
<1>2. ASSUME NEW m \in Layers, EndFetch(m) PROVE FALSE
  <2>1. shard[m] = Missing
    BY <1>2 DEF EndFetch, IInv, Apart
  <2> QED
    BY <1>1, <1>2, <2>1 DEF EndFetch, IInv, Typed, FilesTyped
<1>3. ASSUME NEW m \in Layers, Discard(m) PROVE FALSE
  BY <1>1, <1>3, ShardKinds DEF Discard, IInv, Typed, FilesTyped
<1>4. ASSUME NEW m \in Layers, Finish(m)
      PROVE  convert.goal = "native" /\ convert'.todo # convert.todo
  <2>1. m = l /\ shard'[l] = Complete(convert.goal)
    BY <1>1, <1>4 DEF Finish, IInv, Typed, FilesTyped
  <2>2. convert.goal = "native"
    BY <2>1 DEF Complete
  <2>3. l \in convert.todo /\ l \notin convert'.todo
    BY <1>4, <2>1 DEF Finish, Works, IsLeast, IInv, Typed, ConvertTyped
  <2> QED
    BY <2>2, <2>3
<1>5. CASE \/ BeginSupport \/ EndSupport \/ FailDownload \/ WriteIndex \/ WriteContract
           \/ \E m \in Layers : BeginFetch(m) \/ Visit(m)
           \/ Validate \/ EndConvert \/ Load
  <2>1. UNCHANGED shard
    BY <1>5 DEF BeginSupport, EndSupport, FailDownload, WriteIndex, WriteContract, BeginFetch,
       Visit, Validate, Audit, BeginReport, BeginStamp, Stamp, EndConvert, Load, ReadReport,
       ReadContract, ReadHeader, BuildPlan, OpenHandle, Refused, Moves, files
  <2> QED
    BY <1>1, <2>1
<1>6. CASE AnyCommand \/ Kill \/ Settle \/ AdvisedCommand \/ UNCHANGED vars
  <2>1. UNCHANGED shard
    BY <1>6 DEF AnyCommand, AdvisedCommand, StartDownload, StartValidate, StartConvert, StartLoad,
       Close, Refused, Moves, Kill, Settle, files, vars
  <2> QED
    BY <1>1, <2>1
<1> QED
  BY <1>2, <1>3, <1>4, <1>5, <1>6 DEF Next, Download, Convert

\* No download replaces a converted shard, whenever the converter starts and ends,
\* unless it was deleted while the converter read it.
THEOREM DownloadCorrect == Spec => DownloadKeepsConverted
<1> DEFINE Keeps == discarded # "source" =>
         \A l \in Layers :
            shard[l].format = "scalex" /\ shard'[l].format = "native" =>
                convert.goal = "native" /\ convert'.todo # convert.todo
<1>1. IInv /\ [Next]_vars => [Keeps]_vars
  BY StepKeepsConverted
<1> QED
  BY <1>1, Invariance, PTL DEF Spec, DownloadKeepsConverted

=============================================================================
