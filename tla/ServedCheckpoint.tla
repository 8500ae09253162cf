--------------------------- MODULE ServedCheckpoint ---------------------------
(***************************************************************************)
(* One checkpoint directory and everything that works on it: download.sh,   *)
(* validate.sh, the converter and a runtime that loads it.  They are        *)
(* processes of their own, share nothing but the files and take no lock.    *)
(*                                                                          *)
(* Each script is reduced to what the others can see of it.  The downloader *)
(* looks whether a shard is there, and hours later the shard it has fetched *)
(* appears under the final name all at once, as Assembler shows; so does    *)
(* the other format of a shard the converter has read, as ScaleXConversion  *)
(* shows, and both replace whatever is there by then.  A file that is       *)
(* written in place is torn meanwhile.                                      *)
(*                                                                          *)
(* The owner starts the scripts, kills them, and may delete a shard to      *)
(* fetch it again.  At some moment he may settle down: from then on nothing *)
(* is killed and only the commands the documentation gives are given, each  *)
(* for the whole folder.                                                    *)
(***************************************************************************)
EXTENDS Integers, FiniteSets

CONSTANTS
    First, Last, \* main routed layers, FIRST_MOE_LAYER..LAST_MAIN_LAYER
    AtOnce       \* bound: scripts and loads at work at the same time

ASSUME LayersAssumption == First \in Nat /\ Last \in Nat /\ First <= Last
ASSUME BoundAssumption == AtOnce \in Nat \ {0}

\* The shards of the other layers, the drafter's among them, are never converted
\* and are left out.
Layers == First..Last

VARIABLES
    shard,     \* the expert shard of each layer
    index,     \* model.safetensors.index.json is there
    report,    \* VALIDATION.json
    contract,  \* the status in livseek-composite.json
    support,   \* the small files of the checkpoint, config.json among them
    refused,   \* shards whose .partial file has the wrong size
    download,  \* step of download.sh, the shards it has still to look for and those it fetches
    validate,  \* step of validate.sh, and the layers it has still to audit
    convert,   \* step of the converter, its goal and the layers it has still to finish
    pc,        \* the runtime: step of load, or "up"
    header,    \* format of each shard in its contract's cache of headers
    planned,   \* source_format of its plan of the main layers
    handle,    \* format of the file behind each layer's handle
    calm,      \* the owner has settled down
    discarded, \* he has deleted a shard, perhaps the one the converter was reading
    touched,   \* shards replaced or deleted between their header and their handle
    audited    \* shards audited by a validation since they were downloaded

files == <<shard, index, report, contract, support, refused>>
scripts == <<download, validate, convert>>
runtime == <<pc, header, planned, handle>>
owner == <<calm, discarded>>
history == <<touched, audited>>
vars == <<files, scripts, runtime, owner, history>>

Formats == {"native", "scalex"}
Missing == [format |-> "none", of |-> "nothing"]
Complete(format) == [format |-> format, of |-> "pinned"]
Fetched == Complete("native")

Present == {l \in Layers : shard[l] # Missing}
Converted == {l \in Layers : shard[l].format = "scalex"}

NotAtWork == [pc |-> "idle", todo |-> {}]
NotLoading == [pc |-> "idle", todo |-> {}, busy |-> {}]
NotConverting == [pc |-> "idle", goal |-> "none", todo |-> {}]
Unread == [l \in Layers |-> "none"]

Init ==
    /\ shard = [l \in Layers |-> Missing]
    /\ index = FALSE /\ report = "none" /\ contract = "none"
    /\ support = "none" /\ refused = {}
    /\ download = NotLoading
    /\ validate = NotAtWork
    /\ convert = NotConverting
    /\ pc = "off" /\ header = Unread /\ planned = "none" /\ handle = Unread
    /\ calm = FALSE /\ discarded = "nothing"
    /\ touched = {} /\ audited = {}

IsLeast(l, S) == l \in S /\ \A m \in S : l <= m

\* The load has read the header of the shard, and has yet to open its handle.
Relied(l) ==
    \/ header[l] # "none"
    \/ pc \in {"report again", "contract again", "open"} /\ handle[l] = "none"

\* A shard is replaced or deleted.
Touches(l) == touched' = IF Relied(l) THEN touched \union {l} ELSE touched

Step(script, to) == [script EXCEPT !.pc = to]

-----------------------------------------------------------------------------
(* download.sh: assemble                                                     *)

\* RuntimeError: download cannot run over a ScaleX checkpoint.
RefusesConverted == Converted # {}

StartDownload ==
    /\ download.pc = "idle" /\ ~RefusesConverted
    /\ download' = [pc |-> "support", todo |-> Layers, busy |-> {}]
    /\ UNCHANGED <<files, validate, convert, runtime, owner, history>>

\* A support file that is there is skipped, also one that is torn.
BeginSupport ==
    /\ download.pc = "support"
    /\ IF support = "none" THEN support' = "torn" /\ download' = Step(download, "writing")
       ELSE download' = Step(download, "shards") /\ UNCHANGED support
    /\ UNCHANGED <<shard, index, report, contract, refused, validate, convert, runtime, owner,
                   history>>

EndSupport ==
    /\ download.pc = "writing"
    /\ support' = "whole"
    /\ download' = Step(download, "shards")
    /\ UNCHANGED <<shard, index, report, contract, refused, validate, convert, runtime, owner,
                   history>>

\* Mutated: a shard that is there is fetched again.
WantedAgain(l) == l \in Layers

\* A shard with its final name is skipped.
Wanted(l) == shard[l] = Missing

\* ValueError: partial shard does not match cached plan.
RefusesPartial(l) == Wanted(l) /\ l \in refused

\* The workers take the shards in any order, several at a time.
BeginFetch(l) ==
    /\ download.pc = "shards" /\ l \in download.todo /\ ~RefusesPartial(l)
    /\ download' = [download EXCEPT !.todo = @ \ {l},
                                    !.busy = IF Wanted(l) THEN @ \union {l} ELSE @]
    /\ UNCHANGED <<files, validate, convert, runtime, owner, history>>

\* The rename does not look at what has its final name by now.
EndFetch(l) ==
    /\ download.pc = "shards" /\ l \in download.busy
    /\ download' = [download EXCEPT !.busy = @ \ {l}]
    /\ shard' = [shard EXCEPT ![l] = Fetched] /\ audited' = audited \ {l} /\ Touches(l)
    /\ UNCHANGED <<index, report, contract, support, refused, validate, convert, runtime, owner>>

\* A shard was refused: the others are fetched all the same before it is raised.
FailDownload ==
    /\ download.pc = "shards" /\ download.busy = {} /\ download.todo # {}
    /\ \A l \in download.todo : RefusesPartial(l)
    /\ download' = NotLoading
    /\ UNCHANGED <<files, validate, convert, runtime, owner, history>>

WriteIndex ==
    /\ download.pc = "shards" /\ download.todo = {} /\ download.busy = {}
    /\ index' = TRUE
    /\ download' = Step(download, "contract")
    /\ UNCHANGED <<shard, report, contract, support, refused, validate, convert, runtime, owner,
                   history>>

WriteContract ==
    /\ download.pc = "contract"
    /\ contract' = "assembled_unvalidated"
    /\ download' = NotLoading
    /\ UNCHANGED <<shard, index, report, support, refused, validate, convert, runtime, owner,
                   history>>

Download ==
    \/ BeginSupport \/ EndSupport
    \/ \E l \in Layers : BeginFetch(l) \/ EndFetch(l)
    \/ FailDownload \/ WriteIndex \/ WriteContract

-----------------------------------------------------------------------------
(* validate.sh: validate                                                     *)

StartValidate ==
    /\ validate.pc = "idle" /\ index
    /\ validate' = [pc |-> "audit", todo |-> Layers]
    /\ UNCHANGED <<files, download, convert, runtime, owner, history>>

\* A shard of either format passes: a ScaleX shard is reconstructed.
Audit(l) ==
    /\ validate.pc = "audit" /\ IsLeast(l, validate.todo)
    /\ IF shard[l] = Missing
       THEN validate' = NotAtWork /\ UNCHANGED audited
       ELSE validate' = [validate EXCEPT !.todo = @ \ {l}] /\ audited' = audited \union {l}
    /\ UNCHANGED <<files, download, convert, runtime, owner, touched>>

\* Mutated: the audit ends with the first shard.
AuditedOne == validate.todo # Layers

AuditedAll == validate.todo = {}

\* VALIDATION.json is written in place.
BeginReport ==
    /\ validate.pc = "audit" /\ AuditedAll
    /\ report' = "torn"
    /\ validate' = Step(validate, "report")
    /\ UNCHANGED <<shard, index, contract, support, refused, download, convert, runtime, owner,
                   history>>

\* Then the contract is read, which raises when it is torn, and rewritten in place.
BeginStamp ==
    /\ validate.pc = "report"
    /\ report' = "PASS"
    /\ IF contract \in {"none", "torn"} THEN validate' = NotAtWork /\ UNCHANGED contract
       ELSE validate' = Step(validate, "stamp") /\ contract' = "torn"
    /\ UNCHANGED <<shard, index, support, refused, download, convert, runtime, owner, history>>

Stamp ==
    /\ validate.pc = "stamp"
    /\ contract' = "validated"
    /\ validate' = NotAtWork
    /\ UNCHANGED <<shard, index, report, support, refused, download, convert, runtime, owner,
                   history>>

Validate == (\E l \in Layers : Audit(l)) \/ BeginReport \/ BeginStamp \/ Stamp

-----------------------------------------------------------------------------
(* converter_cli.main                                                        *)

\* Main layers only, one with --layer.
StartConvert(goal, layers) ==
    /\ convert.pc = "idle"
    /\ layers = Layers \/ \E l \in Layers : layers = {l}
    /\ convert' = [pc |-> "visit", goal |-> goal, todo |-> layers]
    /\ UNCHANGED <<files, download, validate, runtime, owner, history>>

\* Mutated: a layer that has the format already ends the command.
VisitOnce(l) ==
    /\ convert.pc = "visit" /\ IsLeast(l, convert.todo)
    /\ convert' = IF ~index \/ shard[l] = Missing \/ shard[l].format = convert.goal
                  THEN NotConverting ELSE Step(convert, "work")
    /\ UNCHANGED <<files, download, validate, runtime, owner, history>>

\* A layer without index or shard ends the command; one that has the format
\* already is left alone.
Visit(l) ==
    /\ convert.pc = "visit" /\ IsLeast(l, convert.todo)
    /\ convert' = IF ~index \/ shard[l] = Missing THEN NotConverting
                  ELSE IF shard[l].format = convert.goal THEN [convert EXCEPT !.todo = @ \ {l}]
                  ELSE Step(convert, "work")
    /\ UNCHANGED <<files, download, validate, runtime, owner, history>>

\* The converter is at work on this layer, from an open file.
Works(l) == convert.pc = "work" /\ IsLeast(l, convert.todo)

\* os.replace does not look at what is there by now either.
Finish(l) ==
    /\ Works(l)
    /\ convert' = [convert EXCEPT !.pc = "visit", !.todo = @ \ {l}]
    /\ shard' = [shard EXCEPT ![l] = Complete(convert.goal)] /\ Touches(l)
    /\ UNCHANGED <<index, report, contract, support, refused, download, validate, runtime, owner,
                   audited>>

EndConvert ==
    /\ convert.pc = "visit" /\ convert.todo = {}
    /\ convert' = NotConverting
    /\ UNCHANGED <<files, download, validate, runtime, owner, history>>

Convert == (\E l \in Layers : Visit(l) \/ Finish(l)) \/ EndConvert

-----------------------------------------------------------------------------
(* TargetRuntime.preflight and load                                          *)

Moves(from, to) ==
    /\ pc = from /\ pc' = to
    /\ UNCHANGED <<files, scripts, owner, audited>>

\* The step raises: load closes what it has opened.
Refused(from) ==
    /\ Moves(from, "off")
    /\ header' = Unread /\ planned' = "none" /\ handle' = Unread
    /\ touched' = {}

StartLoad ==
    /\ Moves("off", "report")
    /\ UNCHANGED <<header, planned, handle, touched>>

\* ModelContract.from_model_dir, called by preflight and again by load: the four
\* files exist, the report says PASS, ...  A support file that is torn may not parse.
Reported == index /\ contract # "none" /\ report = "PASS"

ReadReport(from, to) ==
    \/ Moves(from, to) /\ Reported /\ UNCHANGED <<header, planned, handle, touched>>
    \/ Refused(from) /\ (~Reported \/ support = "torn")

\* ... and the contract, which is read after it, says validated.
ReadContract(from, to) ==
    \/ Moves(from, to) /\ contract = "validated" /\ UNCHANGED <<header, planned, handle, touched>>
    \/ Refused(from) /\ contract # "validated"

\* validate_supported_profile resolves every tensor: the header of each shard is
\* read once, in the order of the index, and remembered.
ReadHeader(l) ==
    /\ IsLeast(l, {m \in Layers : header[m] = "none"})
    /\ \/ Moves("headers", IF l = Last THEN "plan" ELSE "headers")
          /\ shard[l] # Missing
          /\ header' = [header EXCEPT ![l] = shard[l].format]
          /\ UNCHANGED <<planned, handle, touched>>
       \/ Refused("headers") /\ shard[l] = Missing

\* Mutated: the set has the format of its first layer.
UniformByFirst == TRUE

\* build_native_expert_source_plan for the main layers refuses a mixed set.
Uniform == \A l, m \in Layers : header[l] = header[m]

BuildPlan ==
    \/ Moves("plan", "report again") /\ Uniform
       /\ planned' = header[First] /\ header' = Unread
       /\ UNCHANGED <<handle, touched>>
    \/ Refused("plan") /\ ~Uniform

\* activate opens the handle of each layer in order, by name and with the offsets
\* of the plan.  (External: what the handle checks of the file; nothing in this
\* repository relies on a check.)
OpenHandle(l) ==
    /\ IsLeast(l, {m \in Layers : handle[m] = "none"})
    /\ \/ Moves("open", IF l = Last THEN "up" ELSE "open") /\ shard[l] # Missing
          /\ handle' = [handle EXCEPT ![l] = shard[l].format]
          /\ UNCHANGED <<header, planned, touched>>
       \/ Refused("open") /\ shard[l] = Missing

Load ==
    \/ ReadReport("report", "contract")
    \/ ReadContract("contract", "headers")
    \/ \E l \in Layers : ReadHeader(l)
    \/ BuildPlan
    \/ ReadReport("report again", "contract again")
    \/ ReadContract("contract again", "open")
    \/ \E l \in Layers : OpenHandle(l)

Close == Refused("up")

-----------------------------------------------------------------------------
(* The owner                                                                 *)

\* A script is killed, or fails for reasons of its own: it leaves what it did.  A
\* partial file that was just created has not its size yet (Assembler).
Kill ==
    /\ ~calm
    /\ \/ /\ download.pc # "idle" /\ download' = NotLoading
          /\ \E partials \in SUBSET download.busy : refused' = refused \union partials
          /\ UNCHANGED <<validate, convert>>
       \/ validate.pc # "idle" /\ validate' = NotAtWork
          /\ UNCHANGED <<refused, download, convert>>
       \/ convert.pc # "idle" /\ convert' = NotConverting
          /\ UNCHANGED <<refused, download, validate>>
    /\ UNCHANGED <<shard, index, report, contract, support, runtime, owner, history>>

\* Bound: one shard is deleted.
Discard(l) ==
    /\ ~calm /\ discarded = "nothing" /\ shard[l] # Missing
    /\ shard' = [shard EXCEPT ![l] = Missing]
    /\ discarded' = (IF Works(l) THEN "source" ELSE "shard") /\ Touches(l)
    /\ UNCHANGED <<index, report, contract, support, refused, scripts, runtime, calm, audited>>

AtWork ==
    {p \in {"download", "validate", "convert", "load"} :
        CASE p = "download" -> download.pc # "idle"
          [] p = "validate" -> validate.pc # "idle"
          [] p = "convert" -> convert.pc # "idle"
          [] p = "load" -> pc \notin {"off", "up"}}

\* Any command, while the owner has not settled down.
AnyCommand ==
    /\ ~calm
    /\ Cardinality(AtWork) < AtOnce
    /\ \/ StartDownload
       \/ StartValidate
       \/ \E goal \in Formats, layers \in SUBSET Layers : StartConvert(goal, layers)
       \/ StartLoad
       \/ Close

Quiet == AtWork = {} /\ pc = "off"
Stamped == Present = Layers /\ index /\ report = "PASS" /\ contract = "validated"

\* The owner settles down when nothing runs: until then he may kill or wait.
Settle ==
    /\ ~calm /\ Quiet /\ calm' = TRUE
    /\ UNCHANGED <<files, scripts, runtime, discarded, history>>

\* The commands of the documentation, when nothing runs: a validated checkpoint is
\* served, after the converter was run again if it is mixed; any other is restored
\* to native shards, then downloaded and validated.
AdvisedCommand ==
    /\ calm /\ Quiet
    /\ \/ Stamped /\ Converted \in {{}, Layers} /\ StartLoad
       \/ Stamped /\ Converted \notin {{}, Layers} /\ StartConvert("scalex", Layers)
       \/ ~Stamped /\ Converted # {} /\ StartConvert("native", Layers)
       \/ ~Stamped /\ Converted = {} /\ StartDownload
          /\ (Present # Layers \/ ~index \/ contract \in {"none", "torn"})
       \/ ~Stamped /\ Converted = {} /\ StartValidate
          /\ Present = Layers /\ contract \notin {"none", "torn"}

Next ==
    \/ Download
    \/ Validate
    \/ Convert
    \/ Load
    \/ AnyCommand
    \/ Kill
    \/ \E l \in Layers : Discard(l)
    \/ Settle
    \/ AdvisedCommand

\* A script or a load that runs goes on; a settled owner acts.
Fairness ==
    /\ WF_vars(Download)
    /\ WF_vars(Validate)
    /\ WF_vars(Convert)
    /\ WF_vars(Load)
    /\ WF_vars(AdvisedCommand)

Spec == Init /\ [][Next]_vars
FairSpec == Spec /\ Fairness

-----------------------------------------------------------------------------
(* Properties                                                                *)

\* Types of the variables.
TypeOK ==
    /\ shard \in [Layers -> {Missing} \union {Complete(format) : format \in Formats}]
    /\ index \in BOOLEAN /\ report \in {"none", "torn", "PASS"}
    /\ contract \in {"none", "torn", "assembled_unvalidated", "validated"}
    /\ support \in {"none", "torn", "whole"} /\ refused \subseteq Layers
    /\ download \in [pc : {"idle", "support", "writing", "shards", "contract"},
                     todo : SUBSET Layers, busy : SUBSET Layers]
    /\ validate \in [pc : {"idle", "audit", "report", "stamp"}, todo : SUBSET Layers]
    /\ validate.pc # "audit" => validate.todo = {}
    /\ download.pc = "contract" => index
    /\ convert \in [pc : {"idle", "visit", "work"}, goal : Formats \union {"none"},
                    todo : SUBSET Layers]
    /\ pc \in {"open", "up"} => planned # "none"
    /\ pc \in {"off", "report", "contract", "headers", "plan", "report again",
               "contract again", "open", "up"}
    /\ {header[l] : l \in Layers} \union {handle[l] : l \in Layers} \union {planned}
            \subseteq Formats \union {"none"}
    /\ calm \in BOOLEAN /\ discarded \in {"nothing", "shard", "source"}
    /\ touched \subseteq Layers /\ audited \subseteq Layers

\* A runtime that is up reads each layer with the offsets of the format the file
\* behind its handle has, whatever the scripts did while it was loading: the one
\* exception is a shard that was replaced after its header was read and before
\* its handle was opened (build_native_expert_source_plan decides from headers
\* that are read once; the handles are opened by name much later).
ServesWhatItPlanned ==
    pc = "up" => \A l \in Layers \ touched : handle[l] = planned

\* What the runtime serves was audited since it was downloaded, whatever was
\* killed, torn or converted in between; deleting a shard of a validated
\* checkpoint and fetching it again is outside this promise (validate stamps
\* last, assemble withdraws the stamp only at its end).
ServesOnlyAudited ==
    pc = "up" /\ discarded = "nothing" => audited = Layers

\* A converted shard is never replaced by a downloaded one, also when the
\* converter starts after the downloader has looked for converted shards, or
\* finishes while the downloader is fetching (scalex-mode-b.md: so it cannot
\* silently replace ScaleX data), unless the owner deleted the very shard that
\* the converter was reading.
DownloadKeepsConverted ==
    [][discarded # "source" =>
         \A l \in Layers :
            shard[l].format = "scalex" /\ shard'[l].format = "native" =>
                convert.goal = "native" /\ convert'.todo # convert.todo]_vars

\* What no command of the documentation leads out of: a partial file of the wrong
\* size whose shard is still to be fetched, a torn support file, and a converted
\* shard behind one that is missing, at which the converter stops each time.
Stuck ==
    \/ \E l \in refused : shard[l] = Missing
    \/ support = "torn"
    \/ \E l \in Converted, m \in Layers \ Present : m < l

\* From every other state that kills, restarts, deletions and conversions have led
\* to, the commands of the documentation lead to a runtime that serves.
AdviceLeadsToService == calm /\ ~Stuck ~> pc = "up"

=============================================================================
