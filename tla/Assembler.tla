----------------------------- MODULE Assembler ------------------------------
(***************************************************************************)
(* assemble: the resumable download of a composite checkpoint.  A run       *)
(* fetches the assembly plan and the support files, downloads the shards    *)
(* with a pool of workers into .partial files, one range after another,     *)
(* and writes the index and the composite contract.  A run may raise, when  *)
(* a range fails too often, or be killed at any step; it is then started    *)
(* again, and everything it resumes from is on disk.                        *)
(*                                                                          *)
(* A shard is a sequence of operations (contiguous source ranges), each of  *)
(* a number of chunks of RANGE_CHUNK bytes.  The bytes of a chunk are       *)
(* abstracted to whether they are the source's.  A killed process loses     *)
(* its memory, not what it has written; what is written aside and renamed   *)
(* is one step here, what is written in place is two.  validate, run on a   *)
(* complete download, stamps it for the runtime.                            *)
(***************************************************************************)
EXTENDS Integers, Sequences, FiniteSets

CONSTANTS
    Shards,        \* shards of the plan
    Chunks,        \* the chunks of each operation of a shard
    SupportFiles,  \* configuration and tokenizer files of the official checkpoint
    Workers,       \* threads of the pool
    Retries,       \* attempts at a range before a shard fails
    NoProgress,    \* no progress file
    MaxCrashes,    \* bound: runs killed
    MaxFaults      \* bound: requests that fail

ASSUME AssemblerAssumption ==
    /\ IsFiniteSet(Shards) /\ Shards # {}
    /\ Chunks \in [Shards -> Seq(Nat \ {0})]
    /\ Workers \in Nat \ {0} /\ Retries \in Nat \ {0}
    /\ MaxCrashes \in Nat /\ MaxFaults \in Nat
    /\ NoProgress \notin [op : Nat, done : Nat]

\* Operation and index of each chunk of a shard.  Operations count from 1 here;
\* the first done chunks of the current operation are recorded.
ChunksOf(s) == UNION {{op} \X (1..Chunks[s][op]) : op \in DOMAIN Chunks[s]}
Filled(s, value) == [c \in ChunksOf(s) |-> value]

VARIABLES
    plan,      \* assembly-plan.json is cached
    support,   \* the support files
    partial,   \* the .partial file of each shard
    bytes,     \* the chunks of each shard, in its .partial or final file
    final,     \* shards under their final name
    progress,  \* the progress file of each shard
    index,     \* model.safetensors.index.json is written
    contract,  \* livseek-composite.json
    report,    \* VALIDATION.json
    stage,     \* where the run is
    worker,    \* what is being done about each shard
    crashes, faults

sources == <<plan, support>>
data == <<partial, bytes, final, progress>>
stamps == <<index, contract, report>>
bounds == <<crashes, faults>>
vars == <<sources, data, stamps, stage, worker, bounds>>

Queued == [s \in Shards |-> [pc |-> "queued", op |-> 1, done |-> 0, attempts |-> 0]]
Working == {s \in Shards : worker[s].pc \notin {"queued", "done", "failed", "refused"}}
Resting == {"stopped", "raised", "complete", "validated"}

Init ==
    /\ plan = FALSE /\ support = [f \in SupportFiles |-> "absent"]
    /\ partial = [s \in Shards |-> "absent"]
    /\ bytes = [s \in Shards |-> Filled(s, "zero")]
    /\ final = {}
    /\ progress = [s \in Shards |-> NoProgress]
    /\ index = FALSE /\ contract = "absent" /\ report = "absent"
    /\ stage = "stopped" /\ worker = Queued
    /\ crashes = 0 /\ faults = 0

-----------------------------------------------------------------------------
(* The main thread of assemble                                               *)

StartRun ==
    /\ stage \in Resting
    /\ stage' = "plan" /\ worker' = Queued
    /\ UNCHANGED <<sources, data, stamps, bounds>>

\* load_or_build_plan
LoadPlan ==
    /\ stage = "plan"
    /\ plan' = TRUE /\ stage' = "support"
    /\ UNCHANGED <<support, data, stamps, worker, bounds>>

\* A request for metadata fails, or the disk has not enough room for the rest.
MainRaises ==
    /\ stage = "support" \/ (stage = "plan" /\ ~plan)
    /\ \A f \in SupportFiles : support[f] # "writing"
    /\ faults < MaxFaults
    /\ faults' = faults + 1 /\ stage' = "raised"
    /\ UNCHANGED <<sources, data, stamps, worker, crashes>>

\* A support file that is there is not fetched again; write_bytes creates the
\* file before it has its bytes.
BeginSupport(f) ==
    /\ stage = "support"
    /\ support[f] = "absent" /\ \A g \in SupportFiles : support[g] # "writing"
    /\ support' = [support EXCEPT ![f] = "writing"]
    /\ UNCHANGED <<plan, data, stamps, stage, worker, bounds>>

EndSupport(f) ==
    /\ stage = "support" /\ support[f] = "writing"
    /\ support' = [support EXCEPT ![f] = "whole"]
    /\ UNCHANGED <<plan, data, stamps, stage, worker, bounds>>

BeginShards ==
    /\ stage = "support"
    /\ \A f \in SupportFiles : support[f] \notin {"absent", "writing"}
    /\ stage' = "shards"
    /\ UNCHANGED <<sources, data, stamps, worker, bounds>>

AllDone == \A s \in Shards : worker[s].pc = "done"

AllEnded == \A s \in Shards : worker[s].pc \in {"done", "failed", "refused"}

\* A failed shard is raised when every other one has ended: the pool is joined
\* on the way out.
EndShards ==
    /\ stage = "shards"
    /\ AllEnded
    /\ stage' = IF AllDone THEN "index" ELSE "raised"
    /\ UNCHANGED <<sources, data, stamps, worker, bounds>>

WriteIndex ==
    /\ stage = "index"
    /\ index' = TRUE /\ stage' = "contract"
    /\ UNCHANGED <<sources, data, contract, report, worker, bounds>>

WriteContract ==
    /\ stage = "contract"
    /\ contract' = "unvalidated" /\ stage' = "complete"
    /\ UNCHANGED <<sources, data, index, report, worker, bounds>>

-----------------------------------------------------------------------------
(* _download_shard                                                           *)

Set(s, pc) == worker' = [worker EXCEPT ![s].pc = pc]

\* Mutated: the recorded chunk counts as the index of the one to skip.
ResumedOneFurther(s) ==
    IF progress[s] = NoProgress
    THEN [pc |-> "fetch", op |-> 1, done |-> 0, attempts |-> 0]
    ELSE [pc |-> "fetch", op |-> progress[s].op, done |-> progress[s].done + 1, attempts |-> 0]

\* Where the progress file says to go on.
Resumed(s) ==
    IF progress[s] = NoProgress
    THEN [pc |-> "fetch", op |-> 1, done |-> 0, attempts |-> 0]
    ELSE [pc |-> "fetch", op |-> progress[s].op, done |-> progress[s].done, attempts |-> 0]

Take(s) ==
    /\ stage = "shards" /\ worker[s].pc = "queued"
    /\ Cardinality(Working) < Workers

Skip(s) ==
    /\ Take(s) /\ s \in final
    /\ Set(s, "done")
    /\ UNCHANGED <<sources, data, stamps, stage, bounds>>

\* _prepare_partial: a file of the right size is taken up again.
Resume(s) ==
    /\ Take(s) /\ s \notin final /\ partial[s] = "sized"
    /\ worker' = [worker EXCEPT ![s] = Resumed(s)]
    /\ UNCHANGED <<sources, data, stamps, stage, bounds>>

\* _prepare_partial: any other file does not match the plan.
Refuse(s) ==
    /\ Take(s) /\ s \notin final /\ partial[s] = "short"
    /\ Set(s, "refused")
    /\ UNCHANGED <<sources, data, stamps, stage, bounds>>

\* _prepare_partial: open "xb", and then write the header and truncate.
Create(s) ==
    /\ Take(s) /\ s \notin final /\ partial[s] = "absent"
    /\ partial' = [partial EXCEPT ![s] = "short"]
    /\ Set(s, "creating")
    /\ UNCHANGED <<sources, bytes, final, progress, stamps, stage, bounds>>

Truncate(s) ==
    /\ worker[s].pc = "creating"
    /\ partial' = [partial EXCEPT ![s] = "sized"]
    /\ bytes' = [bytes EXCEPT ![s] = Filled(s, "zero")]
    /\ worker' = [worker EXCEPT ![s] = Resumed(s)]
    /\ UNCHANGED <<sources, final, progress, stamps, stage, bounds>>

Here(s) == <<worker[s].op, worker[s].done + 1>>

BeginChunk(s) ==
    /\ worker[s].pc = "fetch" /\ Here(s) \in ChunksOf(s)
    /\ bytes' = [bytes EXCEPT ![s][Here(s)] = "torn"]
    /\ Set(s, "writing")
    /\ UNCHANGED <<sources, partial, final, progress, stamps, stage, bounds>>

\* The range is there, and synced.
EndChunk(s) ==
    /\ worker[s].pc = "writing"
    /\ bytes' = [bytes EXCEPT ![s][Here(s)] = "right"]
    /\ Set(s, "record")
    /\ UNCHANGED <<sources, partial, final, progress, stamps, stage, bounds>>

\* Mutated: an answer that is too short is taken.
ShortRangeTaken(s) ==
    /\ worker[s].pc = "writing" /\ faults < MaxFaults
    /\ faults' = faults + 1
    /\ Set(s, "record")
    /\ UNCHANGED <<sources, data, stamps, stage, crashes>>

\* An answer that is wrong, short or cut off: the range is asked for again.
FailChunk(s) ==
    /\ worker[s].pc = "writing" /\ faults < MaxFaults
    /\ faults' = faults + 1
    /\ LET attempts == worker[s].attempts + 1
       IN  worker' = [worker EXCEPT ![s].attempts = attempts,
                                    ![s].pc = IF attempts = Retries THEN "failed" ELSE "fetch"]
    /\ UNCHANGED <<sources, data, stamps, stage, crashes>>

Advanced(s, op, done) ==
    /\ progress' = [progress EXCEPT ![s] = [op |-> op, done |-> done]]
    /\ worker' = [worker EXCEPT ![s] = [pc |-> "fetch", op |-> op, done |-> done,
                                        attempts |-> 0]]

\* Mutated: the progress is written once per operation.
RecordNothing(s) ==
    /\ worker[s].pc = "record"
    /\ worker' = [worker EXCEPT ![s].pc = "fetch", ![s].done = @ + 1, ![s].attempts = 0]
    /\ UNCHANGED <<sources, data, stamps, stage, bounds>>

\* Mutated: the progress is written before it is advanced.
RecordSamePlace(s) ==
    /\ worker[s].pc = "record"
    /\ Advanced(s, worker[s].op, worker[s].done)
    /\ UNCHANGED <<sources, partial, bytes, final, stamps, stage, bounds>>

Record(s) ==
    /\ worker[s].pc = "record"
    /\ Advanced(s, worker[s].op, worker[s].done + 1)
    /\ UNCHANGED <<sources, partial, bytes, final, stamps, stage, bounds>>

\* Mutated: the chunks of the operation before are taken for this one's.
NextOperationKeepingDone(s) ==
    /\ worker[s].pc = "fetch" /\ worker[s].op \in DOMAIN Chunks[s]
    /\ worker[s].done >= Chunks[s][worker[s].op]
    /\ Advanced(s, worker[s].op + 1, worker[s].done)
    /\ UNCHANGED <<sources, partial, bytes, final, stamps, stage, bounds>>

NextOperation(s) ==
    /\ worker[s].pc = "fetch" /\ worker[s].op \in DOMAIN Chunks[s]
    /\ worker[s].done >= Chunks[s][worker[s].op]
    /\ Advanced(s, worker[s].op + 1, 0)
    /\ UNCHANGED <<sources, partial, bytes, final, stamps, stage, bounds>>

\* partial.replace(final)
Rename(s) ==
    /\ worker[s].pc = "fetch" /\ worker[s].op > Len(Chunks[s])
    /\ final' = final \union {s} /\ partial' = [partial EXCEPT ![s] = "absent"]
    /\ Set(s, "unlink")
    /\ UNCHANGED <<sources, bytes, progress, stamps, stage, bounds>>

Unlink(s) ==
    /\ worker[s].pc = "unlink"
    /\ progress' = [progress EXCEPT ![s] = NoProgress]
    /\ Set(s, "done")
    /\ UNCHANGED <<sources, partial, bytes, final, stamps, stage, bounds>>

\* A call on the local disk raises; only the copy of a range is tried again.
LocalFails(s) ==
    /\ worker[s].pc \in {"creating", "fetch", "record", "unlink"}
    /\ faults < MaxFaults
    /\ faults' = faults + 1
    /\ Set(s, "failed")
    /\ UNCHANGED <<sources, data, stamps, stage, crashes>>

-----------------------------------------------------------------------------
(* validate: the audit reads names, sizes, and three samples                 *)

Auditable == plan /\ index /\ final = Shards

BeginReport ==
    /\ stage \in Resting /\ Auditable
    /\ report' = "torn" /\ stage' = "reporting"
    /\ UNCHANGED <<sources, data, index, contract, worker, bounds>>

\* VALIDATION.json is there, but the contract cannot be read.
StampRaises ==
    /\ stage = "reporting" /\ contract \in {"absent", "torn"}
    /\ report' = "whole" /\ stage' = "raised"
    /\ UNCHANGED <<sources, data, index, contract, worker, bounds>>

\* VALIDATION.json is there; the contract is read and opened for writing.
BeginStamp ==
    /\ stage = "reporting" /\ contract \in {"unvalidated", "validated"}
    /\ report' = "whole" /\ contract' = "torn" /\ stage' = "stamping"
    /\ UNCHANGED <<sources, data, index, worker, bounds>>

Stamp ==
    /\ stage = "stamping"
    /\ contract' = "validated" /\ stage' = "validated"
    /\ UNCHANGED <<sources, data, index, report, worker, bounds>>

-----------------------------------------------------------------------------
\* The process is killed: what was being written in place stays torn.
Crash ==
    /\ stage \notin Resting /\ crashes < MaxCrashes
    /\ crashes' = crashes + 1
    /\ stage' = "stopped" /\ worker' = Queued
    /\ support' = [f \in SupportFiles |->
                      IF support[f] = "writing" THEN "torn" ELSE support[f]]
    /\ UNCHANGED <<plan, data, stamps, faults>>

Main ==
    \/ LoadPlan \/ BeginShards \/ EndShards \/ WriteIndex \/ WriteContract
    \/ \E f \in SupportFiles : BeginSupport(f) \/ EndSupport(f)

Validate == BeginReport \/ StampRaises \/ BeginStamp \/ Stamp

Download(s) ==
    \/ Skip(s) \/ Resume(s) \/ Refuse(s) \/ Create(s) \/ Truncate(s)
    \/ BeginChunk(s) \/ EndChunk(s) \/ Record(s) \/ NextOperation(s)
    \/ Rename(s) \/ Unlink(s)

Next ==
    \/ StartRun \/ Main \/ MainRaises
    \/ \E s \in Shards : Download(s) \/ FailChunk(s) \/ LocalFails(s)
    \/ Validate
    \/ Crash

Spec == Init /\ [][Next]_vars

\* The process runs on, its workers too, and the owner, who may validate as often
\* as he likes, in the end starts an unfinished download again.
Fairness ==
    /\ WF_vars(Main) /\ WF_vars(Validate /\ stage \notin Resting)
    /\ \A s \in Shards : WF_vars(Download(s))
    /\ SF_vars(stage \in {"stopped", "raised"} /\ StartRun)

FairSpec == Spec /\ Fairness

-----------------------------------------------------------------------------
(* Properties                                                                *)

Positions == [op : Nat \ {0}, done : Nat]

\* Types of the variables.
TypeOK ==
    /\ plan \in BOOLEAN /\ index \in BOOLEAN
    /\ support \in [SupportFiles -> {"absent", "writing", "torn", "whole"}]
    /\ partial \in [Shards -> {"absent", "short", "sized"}]
    /\ \A s \in Shards : bytes[s] \in [ChunksOf(s) -> {"zero", "torn", "right"}]
    /\ final \subseteq Shards
    /\ progress \in [Shards -> Positions \union {NoProgress}]
    /\ contract \in {"absent", "torn", "unvalidated", "validated"}
    /\ report \in {"absent", "torn", "whole"}
    /\ stage \in Resting \union {"plan", "support", "shards", "index", "contract",
                               "reporting", "stamping"}
    /\ \A s \in Shards :
          /\ worker[s].pc \in {"queued", "creating", "fetch", "writing", "record",
                               "unlink", "done", "failed", "refused"}
          /\ worker[s].op \in 1..(Len(Chunks[s]) + 1)
          /\ worker[s].done \in Nat /\ worker[s].attempts \in 0..Retries
    /\ crashes \in Nat /\ faults \in Nat

\* The chunks a progress file declares downloaded.
Recorded(s) ==
    IF progress[s] = NoProgress THEN {}
    ELSE {c \in ChunksOf(s) :
            c[1] < progress[s].op \/ (c[1] = progress[s].op /\ c[2] <= progress[s].done)}

\* What the progress file declares is in the file, through every retry, failure
\* and restart: a resumed shard never leaves a hole.
ProgressIsTrue == \A s \in Shards : \A c \in Recorded(s) : bytes[s][c] = "right"

\* At most one chunk of a shard is downloaded and not recorded: what a kill
\* loses is one RANGE_CHUNK per worker (README.md: resumable at 256 MiB).
LosesOneChunk ==
    \A s \in Shards : s \notin final =>
        Cardinality({c \in ChunksOf(s) : bytes[s][c] = "right"} \ Recorded(s)) <= 1

\* A shard under its final name has all its bytes, so that skipping it is right.
FinalIsRight ==
    \A s \in final : \A c \in ChunksOf(s) : bytes[s][c] = "right"

\* What the runtime accepts, a PASS report and a contract marked validated, is
\* complete, also after a killed validation or another run of the download, and
\* nothing of the download is left beside it.
AcceptedIsComplete ==
    report = "whole" /\ contract = "validated" =>
        /\ index /\ final = Shards /\ \A s \in Shards : partial[s] = "absent"
        /\ \A s \in Shards : \A c \in ChunksOf(s) : bytes[s][c] = "right"

\* Started again after every kill and failure, the download completes, with every
\* shard under its final name, unless a partial file is refused.
Refused == \E s \in Shards : worker[s].pc = "refused"
Completes == <>((stage = "complete" /\ final = Shards) \/ Refused)

\* The claim that the download may be run again after an interruption: no
\* partial file that an interrupted run left is refused.
PartialsResume == ~Refused

\* The same claim for the support files: a complete download has all of them.
SupportIsWhole ==
    stage = "complete" => \A f \in SupportFiles : support[f] = "whole"

=============================================================================
