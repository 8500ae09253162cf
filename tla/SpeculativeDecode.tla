-------------------------- MODULE SpeculativeDecode --------------------------
(***************************************************************************)
(* TargetRuntime.generate: prefill of the prompt, then either one forward   *)
(* per token or, with the MTP drafter, a draft, a two-row verification and  *)
(* an accept or a rollback per cycle.                                       *)
(*                                                                          *)
(* Data is abstracted to what it was computed from.  A cache is the         *)
(* sequence of tokens folded into it; a row of logits or of hidden states   *)
(* is the value the caches had when the row was computed (a view); an MTP   *)
(* entry is the pair of token and view it was projected from.  The target   *)
(* is deterministic: greedy is its choice at each position along its own    *)
(* path; off the path, or from caches that disagree, any token may come     *)
(* out.  What the drafter proposes is arbitrary.                            *)
(***************************************************************************)
EXTENDS Integers, Sequences

CONSTANTS
    Tokens,        \* the vocabulary
    EOS,           \* end-of-sequence tokens
    ContextLimit,  \* hard limit of the context window
    Unstaged       \* a cache without a _speculative_first

ASSUME DecodeAssumption ==
    /\ EOS \subseteq Tokens
    /\ ContextLimit \in Nat \ {0}
    /\ Unstaged \notin Seq(Tokens)

\* What a layer's cache consists of: KDA's convolution windows and recurrent
\* state, DSA's keys and values.
Parts == {"convs", "recurrent", "keysvalues"}

VARIABLES
    pc,         \* where generate is
    greedy,     \* the target's token at every position; the first ones are the prompt
    given,      \* len(prompt_ids)
    drafting,   \* self.mtp is not None
    limit,      \* tokens that may be generated
    position,   \* ModelCache.position
    caches,     \* each part of the layers' caches
    staged,     \* its _speculative_first
    snapshot,   \* position when the wide pass began
    logits,     \* view the next token is read from
    hidden,     \* view the drafter continues from
    mtpCache,   \* entries of the drafter's attention cache
    draft,      \* the proposed token, as a sequence of at most one
    rows,       \* the two views of a verification
    generated,  \* tokens handed to on_token
    stats       \* decode_forwards, speculative_cycles, drafts_accepted, drafts_rejected

request == <<greedy, given, drafting, limit>>
target == <<position, caches, staged>>
mtp == <<hidden, mtpCache, draft>>
vars == <<pc, request, target, snapshot, logits, mtp, rows, generated, stats>>

Empty == [c \in Parts |-> <<>>]
Extended(view, token) == [c \in Parts |-> Append(view[c], token)]

\* The first n tokens of the target's own path, and the view they give.
Path(n) == [i \in 1..n |-> greedy[i]]
OnPath(n) == [c \in Parts |-> Path(n)]

\* int(mx.argmax(logits[0, -1]))
Argmaxes(view) ==
    {t \in Tokens : \A n \in 1..ContextLimit : view = OnPath(n) => t = greedy[n + 1]}

Init ==
    /\ pc = "start"
    /\ greedy \in [1..(ContextLimit + 1) -> Tokens]
    /\ given \in 0..(ContextLimit + 1)
    /\ drafting \in BOOLEAN
    /\ limit = 0 /\ position = 0 /\ snapshot = 0
    /\ caches = Empty
    /\ staged = [c \in Parts |-> Unstaged]
    /\ logits = Empty /\ hidden = Empty
    /\ mtpCache = <<>> /\ draft = <<>> /\ rows = <<>> /\ generated = <<>>
    /\ stats = [forwards |-> 0, cycles |-> 0, accepted |-> 0, rejected |-> 0]

-----------------------------------------------------------------------------
(* The model                                                                 *)

\* Mutated: the staged state is the one after both rows.
FirstRowAfterBoth(part, view, tokens) == view[part] \o tokens

\* The state one row in, kept by KDA as first_convs and first_state and cut by
\* DSA from its keys and values at prefix_length + 1.
FirstRow(part, view, tokens) == Append(view[part], tokens[1])

\* GLMTextModel.__call__ raises ContractError otherwise.
WithinContext(tokens) == position + Len(tokens) <= ContextLimit

\* Every layer folds the rows into its cache, staging the first one when there
\* are several.
Forward(tokens) ==
    /\ WithinContext(tokens)
    /\ caches' = [c \in Parts |-> caches[c] \o tokens]
    /\ staged' = IF Len(tokens) = 1 THEN staged
                 ELSE [c \in Parts |-> FirstRow(c, caches, tokens)]
    /\ position' = position + Len(tokens)

\* Mutated: the kept row is added to the position of the wide pass.
CommitAddingOne ==
    /\ \A c \in Parts : staged[c] # Unstaged
    /\ caches' = staged
    /\ staged' = [c \in Parts |-> Unstaged]
    /\ position' = position + 1

\* ModelCache.commit_first_from_wide
CommitFirstFromWide ==
    /\ \A c \in Parts : staged[c] # Unstaged
    /\ caches' = staged
    /\ staged' = [c \in Parts |-> Unstaged]
    /\ position' = snapshot + 1

Entry(token, view) == [token |-> token, view |-> view]

-----------------------------------------------------------------------------
(* generate                                                                  *)

Raise ==
    /\ pc \notin {"done", "failed"}
    /\ pc' = "failed"
    /\ UNCHANGED <<request, target, snapshot, logits, mtp, rows, generated, stats>>

\* Mutated: the room left by the prompt is forgotten.
LimitOfRequest(maximum) == maximum

\* max_new_tokens is cut to the room the prompt leaves; no maximum is as good as
\* ContextLimit.
Limit(maximum) ==
    IF maximum < ContextLimit - given THEN maximum ELSE ContextLimit - given

\* An empty prompt, a prompt that fills the context and a maximum below one are
\* refused, as Raise.
Start(maximum) ==
    /\ pc = "start"
    /\ given > 0 /\ ContextLimit - given > 0 /\ Limit(maximum) >= 1
    /\ limit' = Limit(maximum)
    /\ pc' = "prefill"
    /\ UNCHANGED <<greedy, given, drafting, target, snapshot, logits, mtp, rows,
                   generated, stats>>

\* The drafter sees a token with the hidden state of the position before it.
Warmed(token) == Append(mtpCache, Entry(token, hidden))

\* One prompt token; from the second on, the drafter is warmed.
Prefill ==
    /\ pc = "prefill"
    /\ LET token == greedy[position + 1]
       IN  /\ Forward(<<token>>)
           /\ logits' = Extended(caches, token)
           /\ hidden' = IF drafting THEN Extended(caches, token) ELSE hidden
           /\ mtpCache' = IF drafting /\ position > 0 THEN Warmed(token) ELSE mtpCache
    /\ pc' = IF position' = given THEN "emit" ELSE "prefill"
    /\ UNCHANGED <<request, snapshot, draft, rows, generated, stats>>

MustStop(tokens) == Len(tokens) >= limit \/ tokens[Len(tokens)] \in EOS

\* Append the argmax of the logits.
Emit ==
    /\ pc = "emit"
    /\ \E token \in Argmaxes(logits) : generated' = Append(generated, token)
    /\ pc' = IF MustStop(generated') THEN "done"
             ELSE IF drafting THEN "draft" ELSE "forward"
    /\ UNCHANGED <<request, target, snapshot, logits, mtp, rows, stats>>

LastToken == generated[Len(generated)]

\* Without a drafter: one row, the new logits.
ForwardOne ==
    /\ pc = "forward"
    /\ Forward(<<LastToken>>)
    /\ logits' = Extended(caches, LastToken)
    /\ stats' = [stats EXCEPT !.forwards = @ + 1]
    /\ pc' = "emit"
    /\ UNCHANGED <<request, snapshot, mtp, rows, generated>>

\* The drafter folds the token in and proposes the next one.
Draft(proposed) ==
    /\ pc = "draft"
    /\ mtpCache' = Append(mtpCache, Entry(LastToken, hidden))
    /\ draft' = <<proposed>>
    /\ pc' = "verify"
    /\ UNCHANGED <<request, target, snapshot, logits, hidden, rows, generated, stats>>

\* The target runs over the token and the draft in one pass of two rows.
Verify ==
    /\ pc = "verify"
    /\ snapshot' = position
    /\ Forward(<<LastToken>> \o draft)
    /\ rows' = <<Extended(caches, LastToken), Extended(Extended(caches, LastToken), draft[1])>>
    /\ stats' = [stats EXCEPT !.forwards = @ + 1, !.cycles = @ + 1]
    /\ pc' = "judge"
    /\ UNCHANGED <<request, logits, mtp, generated>>

\* The target's own token after the last one.
Verified == Argmaxes(rows[1])

\* Mutated: an accepted draft that ends the sequence does not end the loop.
AfterAcceptedAlways == "catchup"

AfterAccepted == IF draft[1] \in EOS THEN "done" ELSE "catchup"

\* The draft is the target's token: it is emitted and the second row stands.
Accept ==
    /\ pc = "judge"
    /\ draft[1] \in Verified
    /\ generated' = generated \o draft
    /\ logits' = rows[2] /\ hidden' = rows[2]
    /\ stats' = [stats EXCEPT !.accepted = @ + 1]
    /\ pc' = AfterAccepted
    /\ UNCHANGED <<request, target, snapshot, mtpCache, draft, rows>>

\* Mutated: the catch-up uses the hidden state the next draft will use.
CaughtUpWithSecondRow == Append(mtpCache, Entry(draft[1], rows[2]))

\* advance_attention_cache(embedding of the draft, first verified row)
CaughtUp == Append(mtpCache, Entry(draft[1], rows[1]))

\* The drafter missed the accepted token: its cache gets the entry.
CatchUp ==
    /\ pc = "catchup"
    /\ mtpCache' = CaughtUp
    /\ pc' = IF Len(generated) < limit THEN "emit" ELSE "done"
    /\ UNCHANGED <<request, target, snapshot, logits, hidden, draft, rows, generated, stats>>

\* Mutated: a rejected draft is not counted.
CountedReject == stats

Rejected == [stats EXCEPT !.rejected = @ + 1]

\* The draft is not the target's token: the first row stands.
Reject ==
    /\ pc = "judge"
    /\ \E token \in Verified : token # draft[1]
    /\ CommitFirstFromWide
    /\ logits' = rows[1] /\ hidden' = rows[1]
    /\ stats' = Rejected
    /\ pc' = "emit"
    /\ UNCHANGED <<request, snapshot, mtpCache, draft, rows, generated>>

DecodeStep ==
    \/ \E maximum \in 0..ContextLimit : Start(maximum)
    \/ Prefill
    \/ Emit
    \/ ForwardOne
    \/ \E token \in Tokens : Draft(token)
    \/ Verify
    \/ Accept
    \/ CatchUp
    \/ Reject

Next == DecodeStep \/ Raise

Spec == Init /\ [][Next]_vars

-----------------------------------------------------------------------------
(* Properties                                                                *)

Views == [Parts -> Seq(Tokens)]

\* Types of the variables.
TypeOK ==
    /\ pc \in {"start", "prefill", "emit", "forward", "draft", "verify", "judge",
               "catchup", "done", "failed"}
    /\ greedy \in [1..(ContextLimit + 1) -> Tokens]
    /\ given \in 0..(ContextLimit + 1)
    /\ drafting \in BOOLEAN
    /\ limit \in 0..ContextLimit
    /\ position \in 0..ContextLimit /\ snapshot \in 0..ContextLimit
    /\ caches \in Views
    /\ staged \in [Parts -> Seq(Tokens) \union {Unstaged}]
    /\ logits \in Views /\ hidden \in Views
    /\ mtpCache \in Seq([token : Tokens, view : Views])
    /\ draft \in Seq(Tokens) /\ Len(draft) <= 1
    /\ rows \in Seq(Views) /\ Len(rows) \in {0, 2}
    /\ generated \in Seq(Tokens)
    /\ stats \in [forwards : Nat, cycles : Nat, accepted : Nat, rejected : Nat]

\* The text the caches should stand for: the prompt and what was generated.
Text == Path(given) \o generated

\* Whenever the next token is chosen, every cache holds exactly the prompt and
\* the generated tokens, the position counts them, and logits and hidden state
\* were computed from them: accept and rollback leave the same state a
\* token-at-a-time run would have.
CachesHoldTheText ==
    pc = "emit" =>
        /\ position = given + Len(generated)
        /\ \A c \in Parts : caches[c] = Text
        /\ logits = caches
        /\ drafting => hidden = caches

\* The drafter pairs every token of the text but the first with the hidden state
\* of the position before it, once each, when the next draft starts: neither a
\* rejected draft leaves an entry nor an accepted one misses its own.
DrafterPairsTheText ==
    drafting /\ pc = "emit" =>
        /\ Len(mtpCache) = position - 1
        /\ \A i \in DOMAIN mtpCache :
              mtpCache[i] = Entry(Text[i + 1],
                                  [c \in Parts |-> SubSeq(Text, 1, i)])

\* No pass that generate starts runs into the context guard of the model, the
\* two-row pass over a draft included, and a rollback always finds its row.
GuardsNeverRaise ==
    /\ pc = "forward" => position + 1 <= ContextLimit
    /\ pc = "verify" => position + 2 <= ContextLimit
    /\ pc = "judge" => \A c \in Parts : staged[c] # Unstaged

\* The statistics add up: every cycle ends as accepted or rejected and yields
\* one token more when accepted; a run without a drafter takes one pass per
\* token but the last.
StatisticsAddUp ==
    /\ pc \in {"emit", "done"} =>
        /\ stats.cycles = stats.accepted + stats.rejected
        /\ stats.forwards <= Len(generated)
    /\ pc = "done" /\ drafting =>
        Len(generated) - (stats.cycles + stats.accepted) \in {0, 1}
    /\ pc = "done" /\ ~drafting => stats.forwards = Len(generated) - 1

\* The promise of GreedyDecode, with and without a drafter.
Decode == INSTANCE GreedyDecode WITH
    budget <- limit,
    answer <- generated,
    status <- CASE pc = "start" -> "asked"
                [] pc = "done" -> "finished"
                [] pc = "failed" -> "failed"
                [] OTHER -> "running"

ImplementsGreedy == Decode!Spec

=============================================================================
