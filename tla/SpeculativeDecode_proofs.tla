---------------------- MODULE SpeculativeDecode_proofs ----------------------
(***************************************************************************)
(* Proofs about SpeculativeDecode, for every vocabulary, context, prompt,   *)
(* target and drafter: after an accept or a rollback the caches are those   *)
(* of a run that takes one token at a time, and the answer is the greedy    *)
(* one; and about ChatTurn, for every way to cut characters into tokens:    *)
(* what is shown is the answer.                                             *)
(*                                                                          *)
(* The first part rests on one observation: as long as the answer is        *)
(* greedy, the text is a prefix of the target's own path, and so is every   *)
(* view.  The second rests on another: bytes without a torn character can   *)
(* be decoded before the bytes that follow are known.                       *)
(***************************************************************************)
EXTENDS ChatTurn, SequenceTheorems, WellFoundedInduction, TLAPS

-----------------------------------------------------------------------------
(* The inductive invariant                                                  *)

\* Tokens of the text: the prompt and the answer so far.
TextLen == given + Len(generated)

AnswerIsGreedy == \A i \in 1..Len(generated) : generated[i] = greedy[given + i]

\* The request was accepted and its budget fits the context.
Budgeted == given >= 1 /\ limit >= 1 /\ given + limit <= ContextLimit

\* The answer has not ended: MustStop does not hold of it.
GoesOn == Len(generated) < limit /\ (generated # <<>> => LastToken \notin EOS)

\* The caches hold the first n tokens of the path.
Hold(n) == position = n /\ caches = OnPath(n)

\* The cache has n entries, each with the hidden state of the position before.
Pairs(cache, n) ==
    /\ Len(cache) = n
    /\ \A i \in 1..n : cache[i] = Entry(greedy[i + 1], OnPath(i))

Paired(n) == Pairs(mtpCache, n)

\* All passes and cycles are counted: each cycle adds a token, an accepted one two.
Counted(ahead) ==
    IF drafting
    THEN /\ stats.cycles = stats.accepted + stats.rejected
         /\ stats.forwards = stats.cycles
         /\ Len(generated) = stats.cycles + stats.accepted + ahead
    ELSE /\ stats.cycles = 0 /\ stats.accepted = 0 /\ stats.rejected = 0
         /\ Len(generated) = stats.forwards + ahead

AtStart == pc = "start" => Hold(0) /\ mtpCache = <<>> /\ generated = <<>> /\ Counted(0)

AtPrefill == pc = "prefill" =>
    /\ Budgeted /\ generated = <<>> /\ Counted(0)
    /\ position < given /\ Hold(position)
    /\ drafting => /\ Paired(IF position = 0 THEN 0 ELSE position - 1)
                   /\ position > 0 => hidden = OnPath(position)

AtEmit == pc = "emit" =>
    /\ Budgeted /\ GoesOn /\ Counted(0)
    /\ Hold(TextLen) /\ logits = OnPath(TextLen)
    /\ drafting => hidden = OnPath(TextLen) /\ Paired(TextLen - 1)

\* The last token is not in the caches yet.
Behind ==
    /\ Budgeted /\ GoesOn /\ generated # <<>> /\ Counted(1)
    /\ Hold(TextLen - 1)

AtForward == pc = "forward" => Behind /\ ~drafting

AtDraft == pc = "draft" =>
    Behind /\ drafting /\ hidden = OnPath(TextLen - 1) /\ Paired(TextLen - 2)

AtVerify == pc = "verify" =>
    Behind /\ drafting /\ Len(draft) = 1 /\ Paired(TextLen - 1)

\* Text and draft are in the caches, the text alone is staged.
AtJudge == pc = "judge" =>
    /\ Budgeted /\ GoesOn /\ generated # <<>> /\ drafting /\ Len(draft) = 1
    /\ snapshot = TextLen - 1 /\ position = TextLen + 1
    /\ caches = Extended(OnPath(TextLen), draft[1])
    /\ staged = OnPath(TextLen)
    /\ rows = <<OnPath(TextLen), Extended(OnPath(TextLen), draft[1])>>
    /\ Paired(TextLen - 1)
    /\ stats.cycles = stats.accepted + stats.rejected + 1
    /\ stats.forwards = stats.cycles
    /\ Len(generated) = stats.cycles + stats.accepted

\* The accepted draft is the last token of the text.
AtCatchUp == pc = "catchup" =>
    /\ Budgeted /\ Len(generated) \in 2..limit /\ LastToken \notin EOS
    /\ Counted(0) /\ drafting
    /\ Hold(TextLen) /\ logits = OnPath(TextLen) /\ hidden = OnPath(TextLen)
    /\ Len(draft) = 1 /\ draft[1] = LastToken
    /\ Len(rows) = 2 /\ rows[1] = OnPath(TextLen - 1)
    /\ Paired(TextLen - 2)

AtDone == pc = "done" =>
    /\ generated # <<>> /\ (Len(generated) = limit \/ LastToken \in EOS)
    /\ (Counted(0) /\ drafting) \/ Counted(1)

IInv ==
    /\ TypeOK
    /\ AnswerIsGreedy
    /\ TextLen <= ContextLimit \/ generated = <<>>
    /\ AtStart /\ AtPrefill /\ AtEmit /\ AtForward /\ AtDraft
    /\ AtVerify /\ AtJudge /\ AtCatchUp /\ AtDone

-----------------------------------------------------------------------------
(* Prefixes of the path                                                     *)

\* A prefix of the path is a sequence of tokens.
LEMMA PathIsSeq ==
    ASSUME greedy \in [1..(ContextLimit + 1) -> Tokens], NEW n \in 0..(ContextLimit + 1)
    PROVE  /\ Path(n) \in Seq(Tokens) /\ Len(Path(n)) = n
           /\ \A i \in 1..n : Path(n)[i] = greedy[i]
           /\ OnPath(n) \in Views
<1>1. Path(n) \in [1..n -> Tokens]
  BY DecodeAssumption DEF Path
<1>2. Path(n) \in Seq(Tokens) /\ Len(Path(n)) = n
  BY <1>1, IsASeq, LenProperties
<1> QED
  BY <1>1, <1>2 DEF Path, OnPath, Views

\* Appending the greedy token leads to the next prefix.
LEMMA PathNext ==
    ASSUME greedy \in [1..(ContextLimit + 1) -> Tokens], NEW n \in 0..ContextLimit
    PROVE  /\ Append(Path(n), greedy[n + 1]) = Path(n + 1)
           /\ Extended(OnPath(n), greedy[n + 1]) = OnPath(n + 1)
<1>1. Append(Path(n), greedy[n + 1]) = Path(n + 1)
  <2>1. n \in 0..(ContextLimit + 1) /\ n + 1 \in 0..(ContextLimit + 1) /\ n + 1 \in 1..(ContextLimit + 1)
    BY DecodeAssumption
  <2>2. Path(n) \in Seq(Tokens) /\ Len(Path(n)) = n /\ \A i \in 1..n : Path(n)[i] = greedy[i]
    BY <2>1, PathIsSeq
  <2>3. Path(n + 1) \in Seq(Tokens) /\ Len(Path(n + 1)) = n + 1
        /\ \A i \in 1..(n + 1) : Path(n + 1)[i] = greedy[i]
    BY <2>1, PathIsSeq
  <2>4. greedy[n + 1] \in Tokens
    BY <2>1
  <2>5. Append(Path(n), greedy[n + 1]) \in Seq(Tokens)
        /\ Len(Append(Path(n), greedy[n + 1])) = n + 1
        /\ \A i \in 1..(n + 1) : Append(Path(n), greedy[n + 1])[i] = greedy[i]
    BY <2>2, <2>4, AppendProperties
  <2> QED
    BY <2>3, <2>5, SeqEqual
<1> QED
  BY <1>1 DEF Extended, OnPath

\* From the view of a prefix the target's own next token comes out, and no other.
LEMMA ArgmaxOnPath ==
    ASSUME greedy \in [1..(ContextLimit + 1) -> Tokens], NEW n \in 1..ContextLimit
    PROVE  Argmaxes(OnPath(n)) \subseteq {greedy[n + 1]}
BY DEF Argmaxes

\* A greedy answer makes the text a prefix of the path.
LEMMA TextIsPath ==
    ASSUME TypeOK, AnswerIsGreedy, TextLen <= ContextLimit
    PROVE  Text = Path(TextLen)
<1>1. generated \in Seq(Tokens) /\ Len(generated) \in Nat
      /\ given \in 0..(ContextLimit + 1) /\ TextLen \in 0..(ContextLimit + 1)
  BY DecodeAssumption DEF TypeOK, TextLen
<1>2. Path(given) \in Seq(Tokens) /\ Len(Path(given)) = given
      /\ \A i \in 1..given : Path(given)[i] = greedy[i]
  BY <1>1, PathIsSeq DEF TypeOK
<1>3. Text \in Seq(Tokens) /\ Len(Text) = TextLen
  BY <1>1, <1>2, ConcatProperties DEF Text, TextLen
<1>4. \A i \in 1..TextLen : Text[i] = greedy[i]
  <2> SUFFICES ASSUME NEW i \in 1..TextLen PROVE Text[i] = greedy[i]
    OBVIOUS
  <2>1. CASE i <= given
    BY <1>1, <1>2, <2>1, ConcatProperties DEF Text
  <2>2. CASE i > given
    <3>1. i - given \in 1..Len(generated)
      BY <1>1, <2>2 DEF TextLen
    <3>2. Text[i] = generated[i - given]
      BY <1>1, <1>2, <2>2, ConcatProperties DEF Text, TextLen
    <3> QED
      BY <1>1, <3>1, <3>2 DEF AnswerIsGreedy
  <2> QED
    BY <1>1, <2>1, <2>2
<1>5. Path(TextLen) \in Seq(Tokens) /\ Len(Path(TextLen)) = TextLen
      /\ \A i \in 1..TextLen : Path(TextLen)[i] = greedy[i]
  BY <1>1, PathIsSeq DEF TypeOK
<1> QED
  BY <1>3, <1>4, <1>5, SeqEqual

-----------------------------------------------------------------------------
(* Steps of the invariant                                                   *)

LEMMA InitIInv == Init => IInv
<1> SUFFICES ASSUME Init PROVE IInv
  OBVIOUS
<1> USE DEF Init
<1>1. Empty = OnPath(0)
  BY DEF Empty, OnPath, Path
<1>2. Empty \in Views
  BY EmptySeq DEF Empty, Views
<1>3. TypeOK
  BY <1>2, EmptySeq, DecodeAssumption DEF TypeOK
<1>4. AnswerIsGreedy /\ (TextLen <= ContextLimit \/ generated = <<>>)
  BY DEF AnswerIsGreedy
<1>5. AtStart
  BY <1>1 DEF AtStart, Hold, Counted
<1>6. AtPrefill /\ AtEmit /\ AtForward /\ AtDraft /\ AtVerify /\ AtJudge /\ AtCatchUp /\ AtDone
  BY DEF AtPrefill, AtEmit, AtForward, AtDraft, AtVerify, AtJudge, AtCatchUp, AtDone
<1> QED
  BY <1>3, <1>4, <1>5, <1>6 DEF IInv

\* What the invariant says at the places where generate is not.
LEMMA OnlyOnePlace ==
    /\ pc' # "start" => AtStart'
    /\ pc' # "prefill" => AtPrefill'
    /\ pc' # "emit" => AtEmit'
    /\ pc' # "forward" => AtForward'
    /\ pc' # "draft" => AtDraft'
    /\ pc' # "verify" => AtVerify'
    /\ pc' # "judge" => AtJudge'
    /\ pc' # "catchup" => AtCatchUp'
    /\ pc' # "done" => AtDone'
BY DEF AtStart, AtPrefill, AtEmit, AtForward, AtDraft, AtVerify, AtJudge, AtCatchUp, AtDone

\* A fixed target has fixed prefixes.
LEMMA FixedPath == greedy' = greedy => \A n : Path(n)' = Path(n) /\ OnPath(n)' = OnPath(n)
BY DEF Path, OnPath

LEMMA RaiseStep == IInv /\ Raise => IInv'
<1> SUFFICES ASSUME IInv, Raise PROVE IInv'
  OBVIOUS
<1> USE DEF Raise, request, target, mtp
<1>1. TypeOK'
  BY DEF IInv, TypeOK
<1>2. (AnswerIsGreedy /\ (TextLen <= ContextLimit \/ generated = <<>>))'
  BY DEF IInv, AnswerIsGreedy, TextLen
<1> QED
  BY <1>1, <1>2, OnlyOnePlace DEF IInv

LEMMA StartStep == ASSUME IInv, NEW maximum \in 0..ContextLimit, Start(maximum) PROVE IInv'
<1> USE DEF Start, request, target, mtp
<1>1. limit' \in 1..ContextLimit /\ given \in 1..ContextLimit /\ given + limit' <= ContextLimit
      /\ ContextLimit \in Nat \ {0}
  BY DecodeAssumption DEF IInv, TypeOK, Limit
<1>2. TypeOK'
  <2>1. (limit \in 0..ContextLimit)'
    BY <1>1
  <2>2. UNCHANGED drafting /\ drafting \in BOOLEAN
    BY DEF IInv, TypeOK
  <2> QED
    BY <2>1, <2>2 DEF IInv, TypeOK
<1>3. AnswerIsGreedy' /\ generated' = <<>>
  BY DEF IInv, AtStart, AnswerIsGreedy
<1>4. AtPrefill'
  <2>1. Budgeted'
    BY <1>1 DEF Budgeted
  <2>2. Hold(0)'
    BY FixedPath DEF IInv, AtStart, Hold
  <2>3. Counted(0)'
    BY DEF IInv, AtStart, Counted
  <2>4. Paired(0)'
    BY DEF IInv, AtStart, Paired, Pairs
  <2> QED
    BY <1>1, <1>3, <2>1, <2>2, <2>3, <2>4 DEF AtPrefill, Hold
<1> QED
  BY <1>2, <1>3, <1>4, OnlyOnePlace DEF IInv

\* One row of the target's own token leads from a prefix to the next.
LEMMA ForwardGreedy ==
    ASSUME greedy \in [1..(ContextLimit + 1) -> Tokens], NEW n \in 0..ContextLimit, Hold(n),
           Forward(<<greedy[n + 1]>>)
    PROVE  /\ n + 1 \in 0..ContextLimit /\ position' = n + 1
           /\ caches' = OnPath(n + 1) /\ OnPath(n + 1) \in Views
           /\ Extended(caches, greedy[n + 1]) = OnPath(n + 1)
           /\ UNCHANGED staged
<1>1. n \in 0..(ContextLimit + 1) /\ n + 1 \in 0..(ContextLimit + 1) /\ greedy[n + 1] \in Tokens
  BY DecodeAssumption
<1>2. n + 1 <= ContextLimit /\ position' = n + 1 /\ UNCHANGED staged
  BY DecodeAssumption DEF Forward, WithinContext, Hold
<1>3. Path(n) \in Seq(Tokens) /\ Path(n) \o <<greedy[n + 1]>> = Append(Path(n), greedy[n + 1])
  BY <1>1, PathIsSeq, AppendIsConcat
<1>4. caches' = [c \in Parts |-> Path(n) \o <<greedy[n + 1]>>]
  BY DEF Forward, Hold, OnPath
<1>5. caches' = Extended(OnPath(n), greedy[n + 1])
  BY <1>3, <1>4 DEF Extended, OnPath
<1> QED
  BY <1>1, <1>2, <1>5, PathNext, PathIsSeq DEF Hold

\* A new entry keeps the drafter's pairing.
LEMMA PairedNext ==
    ASSUME NEW n \in Nat, NEW cache \in Seq([token : Tokens, view : Views]), Pairs(cache, n),
           greedy[n + 2] \in Tokens, OnPath(n + 1) \in Views
    PROVE  LET longer == Append(cache, Entry(greedy[n + 2], OnPath(n + 1)))
           IN  Pairs(longer, n + 1) /\ longer \in Seq([token : Tokens, view : Views])
<1> DEFINE E == [token : Tokens, view : Views]
           e == Entry(greedy[n + 2], OnPath(n + 1))
           longer == Append(cache, e)
<1>1. e \in E
  BY DEF Entry
<1>2. /\ longer \in Seq(E)
      /\ Len(longer) = n + 1
      /\ \A i \in 1..n : longer[i] = cache[i]
      /\ longer[n + 1] = e
  BY <1>1, AppendProperties DEF Pairs
<1>3. ASSUME NEW i \in 1..(n + 1)
      PROVE  longer[i] = Entry(greedy[i + 1], OnPath(i))
  BY <1>2 DEF Pairs
<1> QED
  BY <1>2, <1>3 DEF Pairs

\* What holds of the new cache under a fixed target.
LEMMA PairedPrimed ==
    ASSUME UNCHANGED greedy
    PROVE  \A n : Pairs(mtpCache', n) <=> Paired(n)'
BY FixedPath DEF Paired, Pairs, Entry

LEMMA PrefillStep == ASSUME IInv, Prefill PROVE IInv'
<1> USE DEF Prefill, request, mtp
<1> DEFINE token == greedy[position + 1]
           entries == [token : Tokens, view : Views]
<1>1. /\ Budgeted /\ position \in 0..(given - 1) /\ given \in 1..ContextLimit
      /\ Hold(position) /\ greedy \in [1..(ContextLimit + 1) -> Tokens]
      /\ mtpCache \in Seq(entries) /\ generated = <<>> /\ limit \in 1..ContextLimit
      /\ ContextLimit \in Nat
  BY DecodeAssumption DEF IInv, TypeOK, AtPrefill, Budgeted
<1>2. /\ position \in 0..ContextLimit /\ position' = position + 1 /\ position' <= ContextLimit
      /\ caches' = OnPath(position + 1) /\ OnPath(position + 1) \in Views
      /\ logits' = OnPath(position + 1)
      /\ hidden' = IF drafting THEN OnPath(position + 1) ELSE hidden
      /\ UNCHANGED staged
  BY <1>1, ForwardGreedy
<1>3. (drafting => Pairs(mtpCache', position)) /\ mtpCache' \in Seq(entries)
  <2>1. CASE ~drafting \/ position = 0
    BY <1>1, <2>1 DEF IInv, AtPrefill, Paired, Pairs
  <2>2. CASE drafting /\ position > 0
    <3>1. mtpCache' = Append(mtpCache, Entry(greedy[position + 1], OnPath(position)))
      BY <2>2 DEF IInv, AtPrefill, Warmed
    <3>2. position - 1 \in Nat /\ position - 1 + 1 = position /\ position - 1 + 2 = position + 1
      BY <1>1, <2>2
    <3>3. Pairs(mtpCache, position - 1)
      BY <2>2, <3>2 DEF IInv, AtPrefill, Paired
    <3>4. greedy[position + 1] \in Tokens /\ OnPath(position) \in Views
      BY <1>1, <1>2, PathIsSeq
    <3> QED
      BY <1>1, <3>1, <3>2, <3>3, <3>4, PairedNext
  <2> QED
    BY <1>1, <2>1, <2>2
<1>4. TypeOK'
  <2>1. (position \in 0..ContextLimit /\ caches \in Views /\ logits \in Views /\ hidden \in Views)'
    BY <1>1, <1>2 DEF IInv, TypeOK
  <2>2. pc' \in {"emit", "prefill"}
    OBVIOUS
  <2> QED
    BY <1>2, <1>3, <2>1, <2>2 DEF IInv, TypeOK
<1>5. (AnswerIsGreedy /\ generated = <<>>)'
  BY <1>1 DEF AnswerIsGreedy
<1>6. (Hold(position) /\ Budgeted /\ Counted(0) /\ logits = OnPath(position))'
  <2>1. Budgeted' /\ Counted(0)'
    BY <1>1 DEF IInv, AtPrefill, Budgeted, Counted
  <2> QED
    BY <1>2, <2>1, FixedPath DEF Hold
<1>7. drafting => (hidden = OnPath(position) /\ Paired(position - 1))'
  BY <1>1, <1>2, <1>3, FixedPath, PairedPrimed
<1>8. CASE position' = given
  <2>1. (TextLen = position /\ GoesOn)'
    BY <1>1, <1>2, <1>5, <1>8 DEF TextLen, GoesOn
  <2>2. AtEmit'
    BY <1>6, <1>7, <2>1 DEF AtEmit
  <2> QED
    BY <1>4, <1>5, <1>8, <2>2, OnlyOnePlace DEF IInv
<1>9. CASE position' # given
  <2>1. (0 < position /\ position < given)'
    BY <1>1, <1>2, <1>9
  <2>2. AtPrefill'
    BY <1>5, <1>6, <1>7, <2>1 DEF AtPrefill
  <2> QED
    BY <1>4, <1>5, <1>9, <2>2, OnlyOnePlace DEF IInv
<1> QED
  BY <1>8, <1>9

-----------------------------------------------------------------------------
(* Steps of the answer                                                      *)

\* What a greedy token makes of answer and text.
LEMMA AnswerNext ==
    ASSUME TypeOK, AnswerIsGreedy, UNCHANGED <<greedy, given>>, TextLen \in 1..ContextLimit,
           generated' = Append(generated, greedy[TextLen + 1])
    PROVE  /\ generated' \in Seq(Tokens) /\ Len(generated') = Len(generated) + 1
           /\ AnswerIsGreedy' /\ TextLen' = TextLen + 1
           /\ generated' # <<>> /\ LastToken' = greedy[TextLen + 1]
<1>1. greedy[TextLen + 1] \in Tokens /\ generated \in Seq(Tokens) /\ given \in Nat
  BY DecodeAssumption DEF TypeOK
<1>2. /\ generated' \in Seq(Tokens) /\ Len(generated') = Len(generated) + 1
      /\ \A i \in 1..Len(generated) : generated'[i] = generated[i]
      /\ generated'[Len(generated) + 1] = greedy[TextLen + 1]
  BY <1>1, AppendProperties
<1>3. AnswerIsGreedy'
  BY <1>1, <1>2 DEF AnswerIsGreedy, TextLen
<1>4. LastToken' = greedy[TextLen + 1] /\ generated' # <<>>
  BY <1>1, <1>2 DEF LastToken
<1> QED
  BY <1>1, <1>2, <1>3, <1>4 DEF TextLen

\* The last token of a greedy answer is the last one of the text.
LEMMA LastIsGreedy ==
    ASSUME TypeOK, AnswerIsGreedy, generated # <<>>
    PROVE  LastToken = greedy[TextLen] /\ Len(generated) \in Nat \ {0}
<1>1. generated \in Seq(Tokens) /\ Len(generated) \in Nat \ {0} /\ given \in Nat
  BY EmptySeq, DecodeAssumption DEF TypeOK
<1> QED
  BY <1>1 DEF AnswerIsGreedy, LastToken, TextLen

\* Where the answer goes on, the text leaves room in the context.
LEMMA RoomLeft ==
    ASSUME TypeOK, Budgeted, GoesOn
    PROVE  /\ TextLen \in 1..ContextLimit /\ TextLen + 1 \in 1..ContextLimit
           /\ Len(generated) \in Nat /\ limit \in Nat /\ given \in Nat /\ ContextLimit \in Nat
           /\ greedy \in [1..(ContextLimit + 1) -> Tokens]
BY DecodeAssumption, LenProperties DEF TypeOK, Budgeted, GoesOn, TextLen

LEMMA EmitStep == ASSUME IInv, Emit PROVE IInv'
<1> USE DEF Emit, request, target, mtp
<1>1. Budgeted /\ GoesOn /\ Counted(0) /\ Hold(TextLen) /\ logits = OnPath(TextLen)
      /\ (drafting => hidden = OnPath(TextLen) /\ Paired(TextLen - 1))
  BY DEF IInv, AtEmit
<1>2. /\ TextLen \in 1..ContextLimit /\ TextLen + 1 \in 1..ContextLimit
      /\ Len(generated) \in Nat /\ limit \in Nat /\ given \in Nat /\ ContextLimit \in Nat
      /\ greedy \in [1..(ContextLimit + 1) -> Tokens]
  BY <1>1, RoomLeft DEF IInv
<1>3. generated' = Append(generated, greedy[TextLen + 1])
  BY <1>1, <1>2, ArgmaxOnPath
<1>4. /\ generated' \in Seq(Tokens) /\ Len(generated') = Len(generated) + 1
      /\ AnswerIsGreedy' /\ TextLen' = TextLen + 1
      /\ generated' # <<>> /\ LastToken' = greedy[TextLen + 1]
  BY <1>2, <1>3, AnswerNext DEF IInv
<1>5. TypeOK'
  BY <1>4 DEF IInv, TypeOK
<1>6. Budgeted' /\ Counted(1)' /\ Hold(TextLen - 1)'
  <2>1. Budgeted'
    BY <1>1 DEF Budgeted
  <2>2. stats.forwards \in Nat /\ stats.cycles \in Nat /\ stats.accepted \in Nat /\ stats.rejected \in Nat
    BY DEF IInv, TypeOK
  <2>3. UNCHANGED <<stats, drafting>>
    OBVIOUS
  <2>4. Len(generated) = Len(generated) + 0 /\ Counted(0)
    BY <1>1, <1>2
  <2> HIDE DEF Emit
  <2>5. Counted(1)'
    <3>1. CASE drafting
      BY <1>2, <1>4, <2>2, <2>3, <2>4, <3>1 DEF Counted
    <3>2. CASE ~drafting
      <4>1. Len(generated) = stats.forwards
        BY <2>2, <2>4, <3>2 DEF Counted
      <4>2. Len(generated') = stats'.forwards + 1 /\ ~drafting'
        BY <1>2, <1>4, <2>2, <2>3, <3>2, <4>1
      <4> QED
        BY <2>3, <2>4, <3>2, <4>2 DEF Counted
    <3> QED
      BY <3>1, <3>2
  <2> QED
    BY <1>1, <1>2, <1>4, <2>1, <2>5, FixedPath DEF Hold, Emit
<1>7. drafting => (hidden = OnPath(TextLen - 1) /\ Paired(TextLen - 2))'
  <2>1. drafting => Pairs(mtpCache', TextLen - 1)
    BY <1>1 DEF Paired
  <2> QED
    BY <1>1, <1>2, <1>4, <2>1, FixedPath, PairedPrimed
<1>8. (TextLen <= ContextLimit)'
  BY <1>2, <1>4
<1>9. MustStop(generated') <=> Len(generated') >= limit \/ LastToken' \in EOS
  BY DEF MustStop, LastToken
<1>10. CASE MustStop(generated')
  <2>1. Len(generated') = limit' \/ LastToken' \in EOS
    BY <1>1, <1>2, <1>4, <1>9, <1>10 DEF GoesOn
  <2>2. AtDone'
    BY <1>4, <1>6, <2>1 DEF AtDone
  <2> QED
    BY <1>4, <1>5, <1>8, <1>10, <2>2, OnlyOnePlace DEF IInv
<1>11. CASE ~MustStop(generated')
  <2>1. GoesOn'
    BY <1>2, <1>4, <1>9, <1>11 DEF GoesOn
  <2>2. Behind'
    BY <1>4, <1>6, <2>1 DEF Behind
  <2>3. AtDraft' /\ AtForward'
    BY <1>7, <1>11, <2>2 DEF AtDraft, AtForward
  <2> QED
    BY <1>4, <1>5, <1>8, <1>11, <2>3, OnlyOnePlace DEF IInv
<1> QED
  BY <1>10, <1>11

LEMMA ForwardOneStep == ASSUME IInv, ForwardOne PROVE IInv'
<1> USE DEF ForwardOne, request, mtp
<1>1. Budgeted /\ GoesOn /\ generated # <<>> /\ Counted(1) /\ Hold(TextLen - 1) /\ ~drafting
  BY DEF IInv, AtForward, Behind
<1>2. /\ TextLen \in 1..ContextLimit /\ TextLen + 1 \in 1..ContextLimit
      /\ Len(generated) \in Nat \ {0} /\ limit \in Nat /\ given \in Nat /\ ContextLimit \in Nat
      /\ greedy \in [1..(ContextLimit + 1) -> Tokens]
  BY <1>1, RoomLeft, EmptySeq DEF IInv, TypeOK
<1>3. LastToken = greedy[TextLen] /\ TextLen - 1 + 1 = TextLen /\ TextLen - 1 \in 0..ContextLimit
  BY <1>1, LastIsGreedy, <1>2 DEF IInv
<1>4. /\ position' = TextLen /\ caches' = OnPath(TextLen) /\ OnPath(TextLen) \in Views
      /\ logits' = OnPath(TextLen) /\ UNCHANGED staged
  BY <1>1, <1>2, <1>3, ForwardGreedy
<1>5. TypeOK'
  <2> DEFINE counts == [forwards : Nat, cycles : Nat, accepted : Nat, rejected : Nat]
  <2>1. stats \in counts
    BY DEF IInv, TypeOK
  <2>2. stats' \in counts
    BY <2>1
  <2>3. (position \in 0..ContextLimit /\ caches \in Views /\ logits \in Views)'
    BY <1>2, <1>4
  <2> QED
    BY <1>4, <2>2, <2>3 DEF IInv, TypeOK
<1>6. AnswerIsGreedy' /\ (TextLen <= ContextLimit)' /\ TextLen' = TextLen
  BY <1>2 DEF IInv, AnswerIsGreedy, TextLen
<1>7. Budgeted' /\ GoesOn' /\ Counted(0)'
  <2>1. stats \in [forwards : Nat, cycles : Nat, accepted : Nat, rejected : Nat]
    BY DEF IInv, TypeOK
  <2>2. stats'.forwards = stats.forwards + 1 /\ stats'.cycles = stats.cycles
        /\ stats'.accepted = stats.accepted /\ stats'.rejected = stats.rejected
    BY <2>1
  <2>3. Counted(0)'
    BY <1>1, <1>2, <2>1, <2>2 DEF Counted
  <2> QED
    BY <1>1, <2>3 DEF Budgeted, GoesOn, LastToken
<1>8. (Hold(TextLen) /\ logits = OnPath(TextLen))'
  BY <1>4, <1>6, FixedPath DEF Hold
<1>9. AtEmit'
  BY <1>1, <1>7, <1>8 DEF AtEmit
<1> QED
  BY <1>5, <1>6, <1>9, OnlyOnePlace DEF IInv

-----------------------------------------------------------------------------
(* Steps of a cycle with the drafter                                        *)

\* Behind, the last token is the one that is not in the caches.
LEMMA BehindFacts ==
    ASSUME IInv, Behind
    PROVE  /\ TextLen \in 2..ContextLimit /\ TextLen + 1 \in 2..ContextLimit
           /\ Len(generated) \in Nat \ {0} /\ ContextLimit \in Nat
           /\ greedy \in [1..(ContextLimit + 1) -> Tokens]
           /\ LastToken = greedy[TextLen] /\ LastToken \in Tokens
           /\ TextLen - 1 \in 1..ContextLimit /\ TextLen - 1 + 1 = TextLen
           /\ position = TextLen - 1 /\ caches = OnPath(TextLen - 1)
<1>1. TypeOK /\ Budgeted /\ GoesOn /\ generated # <<>> /\ Hold(TextLen - 1) /\ AnswerIsGreedy
  BY DEF IInv, Behind
<1>2. /\ TextLen \in 1..ContextLimit /\ TextLen + 1 \in 1..ContextLimit
      /\ ContextLimit \in Nat /\ given \in Nat
      /\ greedy \in [1..(ContextLimit + 1) -> Tokens]
  BY <1>1, RoomLeft
<1>3. LastToken = greedy[TextLen] /\ Len(generated) \in Nat \ {0}
  BY <1>1, LastIsGreedy
<1>4. given >= 1 /\ TextLen >= 2
  BY <1>1, <1>2, <1>3 DEF Budgeted, TextLen
<1> QED
  BY <1>1, <1>2, <1>3, <1>4 DEF Hold

LEMMA DraftStep == ASSUME IInv, NEW proposed \in Tokens, Draft(proposed) PROVE IInv'
<1> USE DEF Draft, request, target
<1>1. Behind /\ drafting /\ hidden = OnPath(TextLen - 1) /\ Pairs(mtpCache, TextLen - 2)
  BY DEF IInv, AtDraft, Paired
<1>2. /\ TextLen \in 2..ContextLimit /\ TextLen + 1 \in 2..ContextLimit
      /\ ContextLimit \in Nat
      /\ greedy \in [1..(ContextLimit + 1) -> Tokens]
      /\ LastToken = greedy[TextLen] /\ LastToken \in Tokens
      /\ position = TextLen - 1 /\ caches = OnPath(TextLen - 1)
  BY <1>1, BehindFacts
<1>3. TextLen - 2 \in Nat /\ TextLen - 2 + 1 = TextLen - 1 /\ TextLen - 2 + 2 = TextLen
      /\ OnPath(TextLen - 1) \in Views
  BY <1>1, <1>2 DEF IInv, TypeOK
<1>4. mtpCache' = Append(mtpCache, Entry(greedy[TextLen], OnPath(TextLen - 1)))
  BY <1>1, <1>2
<1>5. mtpCache \in Seq([token : Tokens, view : Views])
  BY DEF IInv, TypeOK
<1>6. Pairs(mtpCache', TextLen - 1) /\ mtpCache' \in Seq([token : Tokens, view : Views])
  BY <1>2, <1>3, <1>1, <1>4, <1>5, PairedNext
<1>7. draft' \in Seq(Tokens) /\ Len(draft') = 1
  BY AppendProperties, EmptySeq
<1>8. TypeOK'
  BY <1>6, <1>7 DEF IInv, TypeOK
<1>9. AnswerIsGreedy' /\ (TextLen <= ContextLimit)' /\ TextLen' = TextLen
  BY <1>2 DEF IInv, AnswerIsGreedy, TextLen
<1>10. Behind' /\ drafting'
  BY <1>1, <1>9, FixedPath DEF Behind, Budgeted, GoesOn, Counted, Hold, LastToken
<1>11. Paired(TextLen - 1)'
  BY <1>6, <1>9, PairedPrimed
<1>12. AtVerify'
  BY <1>7, <1>10, <1>11 DEF AtVerify
<1> QED
  BY <1>8, <1>9, <1>12, OnlyOnePlace DEF IInv

LEMMA PairOfTokens ==
    ASSUME NEW a \in Tokens, NEW b \in Tokens
    PROVE  <<a>> \o <<b>> = <<a, b>>
<1>1. <<a>> \in Seq(Tokens) /\ <<b>> \in Seq(Tokens) /\ <<a, b>> \in Seq(Tokens)
      /\ Len(<<a>>) = 1 /\ Len(<<b>>) = 1 /\ Len(<<a, b>>) = 2
  OBVIOUS
<1>2. /\ <<a>> \o <<b>> \in Seq(Tokens) /\ Len(<<a>> \o <<b>>) = 2
      /\ \A i \in 1..2 : (<<a>> \o <<b>>)[i] = <<a, b>>[i]
  BY <1>1, ConcatProperties
<1> QED
  BY <1>1, <1>2, SeqEqual

\* Two rows over a sequence, one after the other.
LEMMA TwoRows ==
    ASSUME NEW s \in Seq(Tokens), NEW a \in Tokens, NEW b \in Tokens
    PROVE  s \o <<a, b>> = Append(Append(s, a), b)
<1>1. <<a>> \o <<b>> = <<a, b>>
  BY PairOfTokens
<1>2. <<a>> \in Seq(Tokens) /\ <<b>> \in Seq(Tokens)
  OBVIOUS
<1>3. s \o (<<a>> \o <<b>>) = (s \o <<a>>) \o <<b>>
  BY <1>2, ConcatAssociative
<1>4. s \o <<a>> = Append(s, a) /\ Append(s, a) \in Seq(Tokens)
  BY AppendIsConcat, AppendProperties
<1>5. Append(s, a) \o <<b>> = Append(Append(s, a), b)
  BY <1>4, AppendIsConcat
<1> QED
  BY <1>1, <1>3, <1>4, <1>5

LEMMA VerifyStep == ASSUME IInv, Verify PROVE IInv'
<1> USE DEF Verify, request, mtp
<1>1. Behind /\ drafting /\ Len(draft) = 1 /\ Paired(TextLen - 1)
  BY DEF IInv, AtVerify
<1>2. /\ TextLen \in 2..ContextLimit /\ TextLen + 1 \in 2..ContextLimit
      /\ ContextLimit \in Nat
      /\ greedy \in [1..(ContextLimit + 1) -> Tokens]
      /\ LastToken = greedy[TextLen] /\ LastToken \in Tokens
      /\ TextLen - 1 \in 1..ContextLimit /\ TextLen - 1 + 1 = TextLen
      /\ position = TextLen - 1 /\ caches = OnPath(TextLen - 1)
  BY <1>1, BehindFacts
<1>3. draft = <<draft[1]>> /\ draft[1] \in Tokens
  <2>1. draft \in Seq(Tokens)
    BY DEF IInv, TypeOK
  <2>2. draft[1] \in Tokens
    BY <1>1, <2>1
  <2>3. <<draft[1]>> \in Seq(Tokens) /\ Len(<<draft[1]>>) = 1 /\ <<draft[1]>>[1] = draft[1]
    BY <2>2
  <2> QED
    BY <1>1, <2>1, <2>2, <2>3, SeqEqual
<1>4. <<LastToken>> \o draft = <<LastToken, draft[1]>>
  <2>1. <<LastToken>> \o <<draft[1]>> = <<LastToken, draft[1]>>
    BY <1>2, <1>3, PairOfTokens
  <2> QED
    BY <1>3, <2>1
<1>5. Extended(caches, LastToken) = OnPath(TextLen)
  <2>1. TextLen - 1 \in 0..ContextLimit
    BY <1>2
  <2> QED
    BY <1>2, <2>1, PathNext
<1>6. Path(TextLen - 1) \in Seq(Tokens) /\ OnPath(TextLen) \in Views
  BY <1>2, PathIsSeq
<1>7. Append(Path(TextLen - 1), LastToken) = Path(TextLen)
  <2>1. TextLen - 1 \in 0..ContextLimit
    BY <1>2
  <2> QED
    BY <1>2, <2>1, PathNext
<1>8. Path(TextLen - 1) \o <<LastToken, draft[1]>> = Append(Path(TextLen), draft[1])
  BY <1>2, <1>3, <1>6, <1>7, TwoRows
<1>9. /\ position' = TextLen + 1 /\ snapshot' = TextLen - 1
      /\ caches' = Extended(OnPath(TextLen), draft[1])
      /\ staged' = OnPath(TextLen)
  <2>1. Forward(<<LastToken, draft[1]>>)
    BY <1>4
  <2>2. Len(<<LastToken, draft[1]>>) = 2 /\ <<LastToken, draft[1]>>[1] = LastToken
    OBVIOUS
  <2>3. position' = TextLen + 1
    BY <1>2, <2>1, <2>2 DEF Forward
  <2>4. caches' = [c \in Parts |-> Path(TextLen - 1) \o <<LastToken, draft[1]>>]
    BY <1>2, <2>1 DEF Forward, OnPath
  <2>5. caches' = Extended(OnPath(TextLen), draft[1])
    BY <1>8, <2>4 DEF Extended, OnPath
  <2>6. staged' = [c \in Parts |-> FirstRow(c, caches, <<LastToken, draft[1]>>)]
    <3> HIDE DEF Verify
    <3> QED
      BY <2>1, <2>2 DEF Forward
  <2>7. \A c \in Parts : FirstRow(c, caches, <<LastToken, draft[1]>>) = Path(TextLen)
    BY <1>2, <1>7, <2>2 DEF FirstRow, OnPath
  <2> QED
    BY <1>2, <2>3, <2>5, <2>6, <2>7 DEF OnPath
<1>10. rows' = <<OnPath(TextLen), Extended(OnPath(TextLen), draft[1])>>
  BY <1>5
<1>11. Extended(OnPath(TextLen), draft[1]) \in Views
  BY <1>3, <1>6, AppendProperties DEF Extended, Views
<1>12. stats.forwards \in Nat /\ stats.cycles \in Nat /\ stats.accepted \in Nat /\ stats.rejected \in Nat
  BY DEF IInv, TypeOK
<1>13. /\ stats' \in [forwards : Nat, cycles : Nat, accepted : Nat, rejected : Nat]
       /\ stats'.cycles = stats.cycles + 1 /\ stats'.forwards = stats.forwards + 1
       /\ stats'.accepted = stats.accepted /\ stats'.rejected = stats.rejected
  <2>1. stats \in [forwards : Nat, cycles : Nat, accepted : Nat, rejected : Nat]
    BY DEF IInv, TypeOK
  <2> DEFINE passed == [stats EXCEPT !.forwards = @ + 1]
  <2>2. passed \in [forwards : Nat, cycles : Nat, accepted : Nat, rejected : Nat]
        /\ passed.forwards = stats.forwards + 1 /\ passed.cycles = stats.cycles
        /\ passed.accepted = stats.accepted /\ passed.rejected = stats.rejected
    BY <2>1
  <2>3. stats' = [passed EXCEPT !.cycles = passed.cycles + 1]
    BY <2>2
  <2> HIDE DEF Verify, passed
  <2> QED
    BY <2>2, <2>3
<1>14. TypeOK'
  <2>1. (position \in 0..ContextLimit /\ snapshot \in 0..ContextLimit)'
    BY <1>2, <1>9
  <2>2. (rows \in Seq(Views) /\ Len(rows) = 2)'
    BY <1>6, <1>10, <1>11
  <2>3. staged' \in [Parts -> Seq(Tokens) \union {Unstaged}]
    BY <1>6, <1>9 DEF Views
  <2>4. caches' \in Views
    BY <1>9, <1>11
  <2> QED
    BY <1>13, <2>1, <2>2, <2>3, <2>4 DEF IInv, TypeOK
<1>15. AnswerIsGreedy' /\ (TextLen <= ContextLimit)' /\ TextLen' = TextLen
  BY <1>2 DEF IInv, AnswerIsGreedy, TextLen
<1>16. Budgeted' /\ GoesOn' /\ (generated # <<>>)' /\ drafting' /\ (Len(draft) = 1)'
  BY <1>1 DEF Behind, Budgeted, GoesOn, LastToken
<1>17. (/\ stats.cycles = stats.accepted + stats.rejected + 1
        /\ stats.forwards = stats.cycles
        /\ Len(generated) = stats.cycles + stats.accepted)'
  <2>1. stats.cycles = stats.accepted + stats.rejected /\ stats.forwards = stats.cycles
        /\ Len(generated) = stats.cycles + stats.accepted + 1
    BY <1>1 DEF Behind, Counted
  <2> QED
    BY <1>12, <1>13, <2>1
<1>18. (/\ snapshot = TextLen - 1 /\ position = TextLen + 1
        /\ caches = Extended(OnPath(TextLen), draft[1])
        /\ staged = OnPath(TextLen)
        /\ rows = <<OnPath(TextLen), Extended(OnPath(TextLen), draft[1])>>)'
  BY <1>9, <1>10, <1>15, FixedPath DEF Extended
<1>19. Paired(TextLen - 1)'
  BY <1>1, <1>15, PairedPrimed DEF Paired
<1>20. AtJudge'
  BY <1>16, <1>17, <1>18, <1>19 DEF AtJudge
<1> QED
  BY <1>14, <1>15, <1>20, OnlyOnePlace DEF IInv

\* What judge knows of the text, its room and the verified rows.
LEMMA JudgeFacts ==
    ASSUME IInv, pc = "judge"
    PROVE  /\ Budgeted /\ GoesOn /\ generated # <<>> /\ drafting
           /\ TextLen \in 1..ContextLimit /\ TextLen + 1 \in 1..ContextLimit
           /\ Len(generated) \in Nat /\ limit \in Nat /\ given \in Nat /\ ContextLimit \in Nat
           /\ greedy \in [1..(ContextLimit + 1) -> Tokens]
           /\ Len(draft) = 1 /\ draft = <<draft[1]>> /\ draft[1] \in Tokens
           /\ rows[1] = OnPath(TextLen) /\ rows[2] = Extended(OnPath(TextLen), draft[1])
           /\ Verified \subseteq {greedy[TextLen + 1]}
           /\ OnPath(TextLen) \in Views
<1>1. AtJudge /\ TypeOK
  BY DEF IInv
<1>2. /\ Budgeted /\ GoesOn /\ generated # <<>> /\ drafting /\ Len(draft) = 1
      /\ rows[1] = OnPath(TextLen) /\ rows[2] = Extended(OnPath(TextLen), draft[1])
  BY <1>1 DEF AtJudge
<1>3. /\ TextLen \in 1..ContextLimit /\ TextLen + 1 \in 1..ContextLimit
      /\ Len(generated) \in Nat /\ limit \in Nat /\ given \in Nat /\ ContextLimit \in Nat
      /\ greedy \in [1..(ContextLimit + 1) -> Tokens]
  BY <1>1, <1>2, RoomLeft
<1>4. draft = <<draft[1]>> /\ draft[1] \in Tokens
  <2>1. draft \in Seq(Tokens)
    BY <1>1 DEF TypeOK
  <2>2. draft[1] \in Tokens
    BY <1>2, <2>1
  <2>3. <<draft[1]>> \in Seq(Tokens) /\ Len(<<draft[1]>>) = 1 /\ <<draft[1]>>[1] = draft[1]
    BY <2>2
  <2> QED
    BY <1>2, <2>1, <2>2, <2>3, SeqEqual
<1>5. Verified \subseteq {greedy[TextLen + 1]}
  BY <1>2, <1>3, ArgmaxOnPath DEF Verified
<1>6. OnPath(TextLen) \in Views
  BY <1>3, PathIsSeq
<1> QED
  BY <1>2, <1>3, <1>4, <1>5, <1>6

LEMMA AcceptStep == ASSUME IInv, Accept PROVE IInv'
<1> USE DEF request, target
<1>1. /\ Budgeted /\ GoesOn /\ generated # <<>> /\ drafting
      /\ TextLen \in 1..ContextLimit /\ TextLen + 1 \in 1..ContextLimit
      /\ Len(generated) \in Nat /\ limit \in Nat /\ given \in Nat /\ ContextLimit \in Nat
      /\ greedy \in [1..(ContextLimit + 1) -> Tokens]
      /\ Len(draft) = 1 /\ draft = <<draft[1]>> /\ draft[1] \in Tokens
      /\ rows[1] = OnPath(TextLen) /\ rows[2] = Extended(OnPath(TextLen), draft[1])
      /\ Verified \subseteq {greedy[TextLen + 1]}
      /\ OnPath(TextLen) \in Views
  BY JudgeFacts DEF Accept
<1>2. draft[1] = greedy[TextLen + 1]
  BY <1>1 DEF Accept
<1>3. generated \in Seq(Tokens) /\ TypeOK /\ AnswerIsGreedy /\ Len(rows) \in {0, 2}
      /\ stats \in [forwards : Nat, cycles : Nat, accepted : Nat, rejected : Nat]
  BY DEF IInv, TypeOK
<1>4. generated' = Append(generated, greedy[TextLen + 1])
  <2>1. generated' = generated \o <<draft[1]>>
    BY <1>1 DEF Accept
  <2> QED
    BY <1>1, <1>2, <1>3, <2>1, AppendIsConcat
<1>5. UNCHANGED <<greedy, given, drafting, limit, position, caches, staged, snapshot, mtpCache, draft, rows>>
  BY DEF Accept
<1>6. /\ generated' \in Seq(Tokens) /\ Len(generated') = Len(generated) + 1
      /\ AnswerIsGreedy' /\ TextLen' = TextLen + 1
      /\ generated' # <<>> /\ LastToken' = greedy[TextLen + 1]
  BY <1>1, <1>3, <1>4, <1>5, AnswerNext
<1>7. Extended(OnPath(TextLen), draft[1]) = OnPath(TextLen + 1) /\ OnPath(TextLen + 1) \in Views
  <2>1. TextLen \in 0..ContextLimit /\ TextLen + 1 \in 0..(ContextLimit + 1)
    BY <1>1
  <2> QED
    BY <1>1, <1>2, <2>1, PathNext, PathIsSeq
<1>8. /\ logits' = OnPath(TextLen + 1) /\ hidden' = OnPath(TextLen + 1)
      /\ caches' = OnPath(TextLen + 1) /\ position' = TextLen + 1
  BY <1>1, <1>5, <1>7 DEF Accept, IInv, AtJudge
<1>9. /\ stats' \in [forwards : Nat, cycles : Nat, accepted : Nat, rejected : Nat]
      /\ stats'.accepted = stats.accepted + 1 /\ stats'.cycles = stats.cycles
      /\ stats'.forwards = stats.forwards /\ stats'.rejected = stats.rejected
  <2>1. stats' = [stats EXCEPT !.accepted = stats.accepted + 1]
    BY DEF Accept
  <2> QED
    BY <1>3, <2>1
<1>10. pc' = IF draft[1] \in EOS THEN "done" ELSE "catchup"
  BY DEF Accept, AfterAccepted
<1>11. TypeOK'
  <2>1. pc' \in {"done", "catchup"}
    BY <1>10
  <2> QED
    BY <1>3, <1>5, <1>6, <1>7, <1>8, <1>9, <2>1 DEF TypeOK
<1>12. Counted(0)' /\ drafting'
  <2>1. stats.cycles = stats.accepted + stats.rejected + 1 /\ stats.forwards = stats.cycles
        /\ Len(generated) = stats.cycles + stats.accepted
    BY DEF Accept, IInv, AtJudge
  <2>2. stats.forwards \in Nat /\ stats.cycles \in Nat /\ stats.accepted \in Nat /\ stats.rejected \in Nat
    BY <1>3
  <2>3. stats'.cycles = stats'.accepted + stats'.rejected /\ stats'.forwards = stats'.cycles
        /\ Len(generated') = stats'.cycles + stats'.accepted + 0
    <3>1. Len(generated) \in Nat /\ Len(generated') = Len(generated) + 1
      BY <1>1, <1>6
    <3> QED
      BY <1>9, <2>1, <2>2, <3>1
  <2> QED
    BY <1>1, <1>5, <2>3 DEF Counted
<1>13. (TextLen <= ContextLimit)'
  BY <1>1, <1>6
<1>14. CASE draft[1] \in EOS
  <2>1. AtDone'
    BY <1>2, <1>6, <1>12, <1>14 DEF AtDone
  <2> QED
    BY <1>6, <1>10, <1>11, <1>13, <1>14, <2>1, OnlyOnePlace DEF IInv
<1>15. CASE draft[1] \notin EOS
  <2>1. Budgeted' /\ Len(generated') \in 2..limit' /\ LastToken' \notin EOS
    <3>1. Len(generated) # 0 /\ Len(generated) < limit
      BY <1>1, <1>3, EmptySeq DEF GoesOn
    <3> QED
      BY <1>1, <1>2, <1>5, <1>6, <1>15, <3>1 DEF Budgeted
  <2>2. (Hold(TextLen) /\ logits = OnPath(TextLen) /\ hidden = OnPath(TextLen))'
    BY <1>5, <1>6, <1>8, FixedPath DEF Hold
  <2>3. (Len(draft) = 1 /\ draft[1] = LastToken)'
    BY <1>1, <1>2, <1>5, <1>6
  <2>4. (Len(rows) = 2 /\ rows[1] = OnPath(TextLen - 1))'
    <3>1. Len(rows) = 2
      BY DEF Accept, IInv, AtJudge
    <3>2. TextLen' - 1 = TextLen
      BY <1>1, <1>6
    <3> QED
      BY <1>1, <1>5, <3>1, <3>2, FixedPath
  <2>5. Paired(TextLen - 2)'
    <3>1. Pairs(mtpCache', TextLen - 1)
      BY <1>5 DEF Accept, IInv, AtJudge, Paired
    <3>2. TextLen' - 2 = TextLen - 1
      BY <1>1, <1>6
    <3> QED
      BY <1>5, <3>1, <3>2, PairedPrimed
  <2>6. AtCatchUp'
    BY <1>12, <2>1, <2>2, <2>3, <2>4, <2>5 DEF AtCatchUp
  <2> QED
    BY <1>6, <1>10, <1>11, <1>13, <1>15, <2>6, OnlyOnePlace DEF IInv
<1> QED
  BY <1>14, <1>15

LEMMA CatchUpStep == ASSUME IInv, CatchUp PROVE IInv'
<1> USE DEF request, target
<1>1. /\ Budgeted /\ Len(generated) \in 2..limit /\ LastToken \notin EOS
      /\ Counted(0) /\ drafting
      /\ Hold(TextLen) /\ logits = OnPath(TextLen) /\ hidden = OnPath(TextLen)
      /\ draft[1] = LastToken /\ rows[1] = OnPath(TextLen - 1) /\ Len(rows) = 2
      /\ Pairs(mtpCache, TextLen - 2)
  BY DEF CatchUp, IInv, AtCatchUp, Paired
<1>2. TypeOK /\ AnswerIsGreedy /\ generated \in Seq(Tokens) /\ limit \in Nat /\ given \in Nat
      /\ ContextLimit \in Nat /\ greedy \in [1..(ContextLimit + 1) -> Tokens]
      /\ rows \in Seq(Views) /\ mtpCache \in Seq([token : Tokens, view : Views])
  BY DecodeAssumption DEF IInv, TypeOK
<1>3. generated # <<>> /\ Len(generated) \in Nat
  BY <1>1, <1>2, EmptySeq
<1>4. LastToken = greedy[TextLen]
  BY <1>2, <1>3, LastIsGreedy
<1>5. TextLen \in 2..ContextLimit
  BY <1>1, <1>2, <1>3 DEF Budgeted, TextLen
<1>6. UNCHANGED <<greedy, given, drafting, limit, position, caches, staged, snapshot, logits,
                  hidden, draft, rows, generated, stats>>
  BY DEF CatchUp
<1>7. Pairs(mtpCache', TextLen - 1) /\ mtpCache' \in Seq([token : Tokens, view : Views])
  <2>1. mtpCache' = Append(mtpCache, Entry(greedy[TextLen], OnPath(TextLen - 1)))
    BY <1>1, <1>4 DEF CatchUp, CaughtUp
  <2>2. TextLen - 2 \in Nat /\ TextLen - 2 + 1 = TextLen - 1 /\ TextLen - 2 + 2 = TextLen
    BY <1>5
  <2>3. greedy[TextLen] \in Tokens /\ OnPath(TextLen - 1) \in Views
    <3>1. TextLen - 1 \in 0..(ContextLimit + 1) /\ TextLen \in 1..(ContextLimit + 1)
      BY <1>2, <1>5
    <3> QED
      BY <1>2, <3>1, PathIsSeq
  <2> QED
    BY <1>1, <1>2, <2>1, <2>2, <2>3, PairedNext
<1>8. pc' = IF Len(generated) < limit THEN "emit" ELSE "done"
  BY DEF CatchUp
<1>9. TypeOK'
  <2>1. pc' \in {"emit", "done"}
    BY <1>8
  <2> QED
    BY <1>2, <1>6, <1>7, <2>1 DEF TypeOK
<1>10. AnswerIsGreedy' /\ (TextLen <= ContextLimit)' /\ TextLen' = TextLen
       /\ (LastToken \notin EOS)'
  <2>1. TextLen' = TextLen /\ LastToken' = LastToken
    BY <1>6 DEF TextLen, LastToken
  <2>2. AnswerIsGreedy'
    BY <1>2, <1>6 DEF AnswerIsGreedy
  <2> QED
    BY <1>1, <1>2, <1>5, <1>6, <2>1, <2>2
<1>11. Budgeted' /\ Counted(0)' /\ drafting'
  BY <1>1, <1>6 DEF Budgeted, Counted
<1>12. (Hold(TextLen) /\ logits = OnPath(TextLen) /\ hidden = OnPath(TextLen) /\ Paired(TextLen - 1))'
  BY <1>1, <1>6, <1>7, <1>10, FixedPath, PairedPrimed DEF Hold
<1>13. CASE Len(generated) < limit
  <2>1. GoesOn'
    BY <1>6, <1>10, <1>13 DEF GoesOn
  <2>2. AtEmit'
    BY <1>11, <1>12, <2>1 DEF AtEmit
  <2> QED
    BY <1>8, <1>9, <1>10, <1>13, <2>2, OnlyOnePlace DEF IInv
<1>14. CASE ~(Len(generated) < limit)
  <2>1. Len(generated') = limit' /\ generated' # <<>>
    BY <1>1, <1>2, <1>3, <1>6, <1>14
  <2>2. AtDone'
    BY <1>11, <2>1 DEF AtDone
  <2> QED
    BY <1>8, <1>9, <1>10, <1>14, <2>2, OnlyOnePlace DEF IInv
<1> QED
  BY <1>13, <1>14

LEMMA RejectStep == ASSUME IInv, Reject PROVE IInv'
<1> USE DEF request
<1>1. /\ Budgeted /\ GoesOn /\ generated # <<>> /\ drafting
      /\ TextLen \in 1..ContextLimit /\ TextLen + 1 \in 1..ContextLimit
      /\ Len(generated) \in Nat /\ limit \in Nat /\ given \in Nat /\ ContextLimit \in Nat
      /\ rows[1] = OnPath(TextLen) /\ OnPath(TextLen) \in Views
  BY JudgeFacts DEF Reject
<1>2. TypeOK /\ AnswerIsGreedy /\ staged = OnPath(TextLen) /\ snapshot = TextLen - 1
      /\ Paired(TextLen - 1)
      /\ stats \in [forwards : Nat, cycles : Nat, accepted : Nat, rejected : Nat]
  BY DEF Reject, IInv, AtJudge, TypeOK
<1>3. UNCHANGED <<greedy, given, drafting, limit, snapshot, mtpCache, draft, rows, generated>>
      /\ pc' = "emit"
  BY DEF Reject
<1>4. /\ caches' = OnPath(TextLen) /\ position' = TextLen
      /\ logits' = OnPath(TextLen) /\ hidden' = OnPath(TextLen)
      /\ staged' \in [Parts -> Seq(Tokens) \union {Unstaged}]
  BY <1>1, <1>2 DEF Reject, CommitFirstFromWide
<1>5. /\ stats' \in [forwards : Nat, cycles : Nat, accepted : Nat, rejected : Nat]
      /\ stats'.rejected = stats.rejected + 1 /\ stats'.cycles = stats.cycles
      /\ stats'.forwards = stats.forwards /\ stats'.accepted = stats.accepted
  <2>1. stats' = [stats EXCEPT !.rejected = stats.rejected + 1]
    BY DEF Reject, Rejected
  <2> QED
    BY <1>2, <2>1
<1>6. TypeOK'
  <2>1. position' \in 0..ContextLimit
    BY <1>1, <1>4
  <2> QED
    BY <1>1, <1>2, <1>3, <1>4, <1>5, <2>1 DEF TypeOK
<1>7. AnswerIsGreedy' /\ (TextLen <= ContextLimit)' /\ TextLen' = TextLen
  BY <1>1, <1>2, <1>3 DEF AnswerIsGreedy, TextLen
<1>8. Counted(0)'
  <2>1. stats.cycles = stats.accepted + stats.rejected + 1 /\ stats.forwards = stats.cycles
        /\ Len(generated) = stats.cycles + stats.accepted
    BY DEF Reject, IInv, AtJudge
  <2>2. stats.forwards \in Nat /\ stats.cycles \in Nat /\ stats.accepted \in Nat /\ stats.rejected \in Nat
    BY <1>2
  <2>3. stats'.cycles = stats'.accepted + stats'.rejected /\ stats'.forwards = stats'.cycles
        /\ Len(generated') = stats'.cycles + stats'.accepted + 0
    BY <1>1, <1>3, <1>5, <2>1, <2>2
  <2> QED
    BY <1>1, <1>3, <2>3 DEF Counted
<1>9. (Budgeted /\ GoesOn /\ Hold(TextLen) /\ logits = OnPath(TextLen)
       /\ hidden = OnPath(TextLen) /\ Paired(TextLen - 1))'
  BY <1>1, <1>2, <1>3, <1>4, <1>7, FixedPath, PairedPrimed
     DEF Budgeted, GoesOn, Hold, LastToken, Paired
<1>10. AtEmit'
  BY <1>8, <1>9 DEF AtEmit
<1> QED
  BY <1>3, <1>6, <1>7, <1>10, OnlyOnePlace DEF IInv

-----------------------------------------------------------------------------
(* Theorems                                                                 *)

LEMMA NextIInv == IInv /\ [Next]_vars => IInv'
<1> SUFFICES ASSUME IInv, [Next]_vars PROVE IInv'
  OBVIOUS
<1>1. ASSUME NEW maximum \in 0..ContextLimit, Start(maximum) PROVE IInv'
  BY <1>1, StartStep
<1>2. CASE Prefill
  BY <1>2, PrefillStep
<1>3. CASE Emit
  BY <1>3, EmitStep
<1>4. CASE ForwardOne
  BY <1>4, ForwardOneStep
<1>5. ASSUME NEW token \in Tokens, Draft(token) PROVE IInv'
  BY <1>5, DraftStep
<1>6. CASE Verify
  BY <1>6, VerifyStep
<1>7. CASE Accept
  BY <1>7, AcceptStep
<1>8. CASE CatchUp
  BY <1>8, CatchUpStep
<1>9. CASE Reject
  BY <1>9, RejectStep
<1>10. CASE Raise
  BY <1>10, RaiseStep
<1>11. CASE UNCHANGED vars
  <2> USE <1>11 DEF vars, request, target, mtp
  <2>1. UNCHANGED <<pc, greedy, given, drafting, limit, position, caches, staged, snapshot,
                    logits, hidden, mtpCache, draft, rows, generated, stats>>
    OBVIOUS
  <2>2. TypeOK' /\ AnswerIsGreedy' /\ (TextLen <= ContextLimit \/ generated = <<>>)'
    BY <2>1 DEF IInv, TypeOK, AnswerIsGreedy, TextLen
  <2> USE DEF TextLen, Budgeted, GoesOn, LastToken, Counted, Hold, Paired, Pairs, Path, OnPath
  <2>3. AtStart' /\ AtPrefill' /\ AtEmit'
    BY <2>1 DEF IInv, AtStart, AtPrefill, AtEmit
  <2>4. AtForward' /\ AtDraft' /\ AtVerify'
    BY <2>1 DEF IInv, AtForward, AtDraft, AtVerify, Behind
  <2>5. AtJudge'
    <3>1. Extended(OnPath(TextLen), draft[1])' = Extended(OnPath(TextLen), draft[1])
          /\ OnPath(TextLen)' = OnPath(TextLen)
      BY <2>1 DEF Extended
    <3> HIDE DEF OnPath, Path
    <3>2. ASSUME pc = "judge"
          PROVE  /\ (caches = Extended(OnPath(TextLen), draft[1]))'
                 /\ (staged = OnPath(TextLen))'
                 /\ (rows = <<OnPath(TextLen), Extended(OnPath(TextLen), draft[1])>>)'
      BY <2>1, <3>1, <3>2 DEF IInv, AtJudge
    <3>3. ASSUME pc = "judge" PROVE Paired(TextLen - 1)'
      BY <2>1, <3>3 DEF IInv, AtJudge, OnPath, Path, Entry
    <3> QED
      BY <2>1, <3>2, <3>3 DEF IInv, AtJudge
  <2>6. AtCatchUp'
    BY <2>1 DEF IInv, AtCatchUp
  <2>7. AtDone'
    BY <2>1 DEF IInv, AtDone
  <2> QED
    BY <2>2, <2>3, <2>4, <2>5, <2>6, <2>7 DEF IInv
<1> QED
  BY <1>1, <1>2, <1>3, <1>4, <1>5, <1>6, <1>7, <1>8, <1>9, <1>10, <1>11 DEF Next, DecodeStep

\* The inductive invariant: at every place of generate, caches, rows, drafter and
\* counters are what the greedy text says.
THEOREM Invariance == Spec => []IInv
BY InitIInv, NextIInv, PTL DEF Spec

\* The variables keep their types.
THEOREM TypeCorrect == Spec => []TypeOK
<1>1. IInv => TypeOK
  BY DEF IInv
<1> QED
  BY <1>1, Invariance, PTL

\* Facts about the place where the next token is chosen.
LEMMA EmitFacts ==
    ASSUME IInv, pc = "emit"
    PROVE  /\ Text = Path(TextLen) /\ TextLen \in 1..ContextLimit
           /\ TextLen + 1 \in 1..ContextLimit
           /\ greedy \in [1..(ContextLimit + 1) -> Tokens] /\ ContextLimit \in Nat
<1>1. TypeOK /\ AnswerIsGreedy /\ Budgeted /\ GoesOn
  BY DEF IInv, AtEmit
<1>2. /\ TextLen \in 1..ContextLimit /\ TextLen + 1 \in 1..ContextLimit
      /\ greedy \in [1..(ContextLimit + 1) -> Tokens] /\ ContextLimit \in Nat
  BY <1>1, RoomLeft
<1>3. TextLen <= ContextLimit
  BY <1>2
<1> QED
  BY <1>1, <1>2, <1>3, TextIsPath

\* Accept and rollback leave the caches, the logits and the hidden state that a
\* run of one token at a time leaves.
THEOREM CachesCorrect == Spec => []CachesHoldTheText
<1>1. IInv => CachesHoldTheText
  <2> SUFFICES ASSUME IInv, pc = "emit"
               PROVE  /\ position = given + Len(generated)
                      /\ \A c \in Parts : caches[c] = Text
                      /\ logits = caches
                      /\ drafting => hidden = caches
    BY DEF CachesHoldTheText
  <2>1. /\ position = TextLen /\ caches = OnPath(TextLen) /\ logits = OnPath(TextLen)
        /\ drafting => hidden = OnPath(TextLen)
    BY DEF IInv, AtEmit, Hold
  <2>2. Text = Path(TextLen)
    BY EmitFacts
  <2>3. \A c \in Parts : caches[c] = Text
    BY <2>1, <2>2 DEF OnPath
  <2> QED
    BY <2>1, <2>3 DEF TextLen
<1> QED
  BY <1>1, Invariance, PTL

\* A prefix of a prefix of the path.
LEMMA PathOfPath ==
    ASSUME greedy \in [1..(ContextLimit + 1) -> Tokens], NEW n \in 1..ContextLimit,
           NEW i \in 1..(n - 1)
    PROVE  /\ SubSeq(Path(n), 1, i) = Path(i)
           /\ Path(n)[i + 1] = greedy[i + 1]
<1>1. n \in 0..(ContextLimit + 1) /\ i \in 0..(ContextLimit + 1) /\ i + 1 \in 1..n
      /\ n \in Nat /\ i \in 1..n
  BY DecodeAssumption
<1>2. Path(n) \in Seq(Tokens) /\ Len(Path(n)) = n /\ \A k \in 1..n : Path(n)[k] = greedy[k]
  BY <1>1, PathIsSeq
<1>3. Path(i) \in Seq(Tokens) /\ Len(Path(i)) = i /\ \A k \in 1..i : Path(i)[k] = greedy[k]
  BY <1>1, PathIsSeq
<1>4. /\ SubSeq(Path(n), 1, i) \in Seq(Tokens) /\ Len(SubSeq(Path(n), 1, i)) = i
      /\ \A k \in 1..i : SubSeq(Path(n), 1, i)[k] = Path(n)[k]
  BY <1>1, <1>2, SubSeqProperties
<1>5. \A k \in 1..i : SubSeq(Path(n), 1, i)[k] = Path(i)[k]
  BY <1>1, <1>2, <1>3, <1>4
<1>6. SubSeq(Path(n), 1, i) = Path(i)
  BY <1>3, <1>4, <1>5, SeqEqual
<1> QED
  BY <1>1, <1>2, <1>6

\* A rejected draft leaves no entry in the drafter's cache and an accepted one
\* does not miss its own.
THEOREM DrafterCorrect == Spec => []DrafterPairsTheText
<1>1. IInv => DrafterPairsTheText
  <2> SUFFICES ASSUME IInv, drafting, pc = "emit"
               PROVE  /\ Len(mtpCache) = position - 1
                      /\ \A i \in DOMAIN mtpCache :
                            mtpCache[i] = Entry(Text[i + 1],
                                                [c \in Parts |-> SubSeq(Text, 1, i)])
    BY DEF DrafterPairsTheText
  <2>1. position = TextLen /\ Pairs(mtpCache, TextLen - 1)
    BY DEF IInv, AtEmit, Hold, Paired
  <2>2. /\ Text = Path(TextLen) /\ TextLen \in 1..ContextLimit
        /\ greedy \in [1..(ContextLimit + 1) -> Tokens]
    BY EmitFacts
  <2>3. Len(mtpCache) = TextLen - 1
    BY <2>1 DEF Pairs
  <2>4. DOMAIN mtpCache = 1..(TextLen - 1)
    BY <2>3 DEF IInv, TypeOK
  <2>5. ASSUME NEW i \in 1..(TextLen - 1)
        PROVE  mtpCache[i] = Entry(Text[i + 1], [c \in Parts |-> SubSeq(Text, 1, i)])
    <3>1. mtpCache[i] = Entry(greedy[i + 1], OnPath(i))
      BY <2>1 DEF Pairs
    <3>2. SubSeq(Text, 1, i) = Path(i) /\ Text[i + 1] = greedy[i + 1]
      BY <2>2, PathOfPath
    <3> QED
      BY <3>1, <3>2 DEF OnPath
  <2> QED
    BY <2>1, <2>3, <2>4, <2>5
<1> QED
  BY <1>1, Invariance, PTL

\* No pass that generate starts exceeds the context, and a rollback finds its row.
THEOREM GuardsHold == Spec => []GuardsNeverRaise
<1>1. IInv => GuardsNeverRaise
  <2> SUFFICES ASSUME IInv PROVE GuardsNeverRaise
    OBVIOUS
  <2>1. ASSUME Behind PROVE position + 2 <= ContextLimit
    <3>1. position = TextLen - 1 /\ TextLen + 1 \in 2..ContextLimit
          /\ TextLen \in 2..ContextLimit
      BY <2>1, BehindFacts
    <3> QED
      BY <3>1
  <2>2. position \in Nat /\ ContextLimit \in Nat
    BY DecodeAssumption DEF IInv, TypeOK
  <2>3. pc = "forward" => position + 1 <= ContextLimit
    BY <2>1, <2>2 DEF IInv, AtForward
  <2>4. pc = "verify" => position + 2 <= ContextLimit
    BY <2>1 DEF IInv, AtVerify
  <2>5. ASSUME pc = "judge", NEW c \in Parts PROVE staged[c] # Unstaged
    <3>1. staged = OnPath(TextLen)
      BY <2>5 DEF IInv, AtJudge
    <3>2. TextLen \in 1..ContextLimit /\ greedy \in [1..(ContextLimit + 1) -> Tokens]
      BY <2>5, JudgeFacts
    <3>3. Path(TextLen) \in Seq(Tokens)
      BY <3>2, PathIsSeq, DecodeAssumption
    <3> QED
      BY <3>1, <3>3, DecodeAssumption DEF OnPath
  <2> QED
    BY <2>3, <2>4, <2>5 DEF GuardsNeverRaise
<1> QED
  BY <1>1, Invariance, PTL

\* Every cycle is accepted or rejected, and the tokens add up.
THEOREM StatisticsCorrect == Spec => []StatisticsAddUp
<1>1. IInv => StatisticsAddUp
  <2> SUFFICES ASSUME IInv PROVE StatisticsAddUp
    OBVIOUS
  <2>1. /\ stats.cycles \in Nat /\ stats.accepted \in Nat /\ stats.rejected \in Nat
        /\ stats.forwards \in Nat /\ Len(generated) \in Nat /\ drafting \in BOOLEAN
    BY DEF IInv, TypeOK
  <2>2. CASE pc = "emit"
    <3>1. Counted(0)
      BY <2>2 DEF IInv, AtEmit
    <3> QED
      BY <2>1, <2>2, <3>1 DEF Counted, StatisticsAddUp
  <2>3. CASE pc = "done"
    <3>1. (Counted(0) /\ drafting) \/ Counted(1)
      BY <2>3 DEF IInv, AtDone
    <3>2. CASE drafting
      <4>1. \/ Len(generated) = stats.cycles + stats.accepted
            \/ Len(generated) = stats.cycles + stats.accepted + 1
        BY <2>1, <3>1, <3>2 DEF Counted
      <4>2. stats.cycles = stats.accepted + stats.rejected /\ stats.forwards = stats.cycles
        BY <3>1, <3>2 DEF Counted
      <4>3. /\ stats.forwards <= Len(generated)
            /\ Len(generated) - (stats.cycles + stats.accepted) \in {0, 1}
        BY <2>1, <4>1, <4>2
      <4> QED
        BY <2>3, <3>2, <4>2, <4>3 DEF StatisticsAddUp
    <3>3. CASE ~drafting
      <4>1. /\ stats.cycles = 0 /\ stats.accepted = 0 /\ stats.rejected = 0
            /\ Len(generated) = stats.forwards + 1
        BY <3>1, <3>3 DEF Counted
      <4> QED
        BY <2>1, <2>3, <3>3, <4>1 DEF StatisticsAddUp
    <3> QED
      BY <3>2, <3>3
  <2> QED
    BY <2>2, <2>3 DEF StatisticsAddUp
<1> QED
  BY <1>1, Invariance, PTL

-----------------------------------------------------------------------------
(* Refinement of GreedyDecode                                               *)

\* The status of GreedyDecode at every place of generate.
Status == CASE pc = "start" -> "asked"
            [] pc = "done" -> "finished"
            [] pc = "failed" -> "failed"
            [] OTHER -> "running"

LEMMA StatusOfPlace ==
    /\ pc = "start" => Status = "asked"
    /\ pc = "done" => Status = "finished"
    /\ pc = "failed" => Status = "failed"
    /\ pc \notin {"start", "done", "failed"} => Status = "running"
    /\ pc' = "done" => Status' = "finished"
    /\ pc' = "failed" => Status' = "failed"
    /\ pc' \notin {"start", "done", "failed"} => Status' = "running"
BY DEF Status

\* A step that leaves answer, budget and status alone is a stutter.
LEMMA Unnoticed ==
    ASSUME UNCHANGED <<greedy, given, limit, generated>>, Status' = Status
    PROVE  UNCHANGED Decode!vars
BY DEF Decode!vars, Status

\* A token chosen by the target is the abstract one.
LEMMA AnswersGreedily ==
    ASSUME UNCHANGED <<greedy, given, limit>>, Status = "running",
           Status' \in {"running", "finished"}, GoesOn, TypeOK,
           generated' = Append(generated, greedy[given + Len(generated) + 1]),
           Status' = "finished" =>
               generated' # <<>> /\ (Len(generated') = limit' \/ LastToken' \in EOS)
    PROVE  Decode!Emit
<1>1. ~Decode!Ended
  BY DEF Decode!Ended, GoesOn, LastToken, TypeOK
<1>2. Status' = "finished" => Decode!Ended'
  BY DEF Decode!Ended, LastToken
<1> QED
  BY <1>1, <1>2 DEF Decode!Emit, Status

LEMMA StartAccepts ==
    ASSUME IInv, NEW maximum \in 0..ContextLimit, Start(maximum)
    PROVE  \E b \in 1..ContextLimit : Decode!Accept(b)
<1> USE DEF Start
<1>1. limit' \in 1..ContextLimit /\ given > 0 /\ given + limit' <= ContextLimit
  BY DecodeAssumption DEF IInv, TypeOK, Limit
<1>2. generated = <<>> /\ generated' = generated
  BY DEF IInv, AtStart
<1>3. Status = "asked" /\ Status' = "running"
  BY StatusOfPlace
<1>4. Decode!Accept(limit')
  BY <1>1, <1>2, <1>3 DEF Decode!Accept, Status
<1> QED
  BY <1>1, <1>4

LEMMA EmitEmits == ASSUME IInv, Emit PROVE Decode!Emit
<1> USE DEF Emit, request
<1>1. TypeOK /\ Budgeted /\ GoesOn /\ logits = OnPath(TextLen)
  BY DEF IInv, AtEmit
<1>2. /\ TextLen \in 1..ContextLimit /\ ContextLimit \in Nat
      /\ Len(generated) \in Nat /\ limit \in Nat
      /\ greedy \in [1..(ContextLimit + 1) -> Tokens]
  BY <1>1, RoomLeft
<1>3. generated' = Append(generated, greedy[TextLen + 1])
  BY <1>1, <1>2, ArgmaxOnPath
<1>4. generated' # <<>> /\ Len(generated') = Len(generated) + 1
  BY <1>1, <1>2, <1>3, AnswerNext DEF IInv
<1>5. pc' = "done" => Len(generated') = limit' \/ LastToken' \in EOS
  BY <1>1, <1>2, <1>4 DEF MustStop, LastToken, GoesOn
<1>6. Status = "running" /\ Status' \in {"running", "finished"}
      /\ (Status' = "finished" => pc' = "done")
  BY StatusOfPlace
<1> QED
  BY <1>1, <1>3, <1>4, <1>5, <1>6, AnswersGreedily DEF TextLen

LEMMA AcceptEmits == ASSUME IInv, Accept PROVE Decode!Emit
<1> USE DEF request
<1>1. /\ GoesOn /\ draft = <<draft[1]>> /\ draft[1] \in Tokens
      /\ Verified \subseteq {greedy[TextLen + 1]}
      /\ TextLen \in 1..ContextLimit
  BY JudgeFacts DEF Accept
<1>2. TypeOK /\ generated \in Seq(Tokens)
  BY DEF IInv, TypeOK
<1>3. generated' = Append(generated, greedy[TextLen + 1]) /\ draft[1] = greedy[TextLen + 1]
  <2>1. generated' = generated \o draft /\ draft[1] = greedy[TextLen + 1]
    BY <1>1 DEF Accept
  <2>2. generated \o <<draft[1]>> = Append(generated, draft[1])
    BY <1>1, <1>2, AppendIsConcat
  <2> QED
    BY <1>1, <2>1, <2>2
<1>4. generated' # <<>> /\ LastToken' = draft[1]
  BY <1>1, <1>2, <1>3, AnswerNext DEF IInv, Accept
<1>5. pc' = "done" => LastToken' \in EOS
  BY <1>4 DEF Accept, AfterAccepted
<1>6. Status = "running" /\ Status' \in {"running", "finished"}
      /\ (Status' = "finished" => pc' = "done")
  BY StatusOfPlace DEF Accept, AfterAccepted
<1> QED
  BY <1>1, <1>2, <1>3, <1>4, <1>5, <1>6, AnswersGreedily DEF TextLen, Accept

\* The answer ended with the accepted draft, unless generate goes on.
LEMMA CatchUpFinishes ==
    ASSUME IInv, CatchUp
    PROVE  Decode!Finish \/ UNCHANGED Decode!vars
<1> USE DEF CatchUp, request
<1>1. CASE pc' = "emit"
  BY <1>1, StatusOfPlace, Unnoticed
<1>2. CASE pc' = "done"
  <2>1. Len(generated) \in 2..limit /\ ~(Len(generated) < limit) /\ limit \in Nat
    BY <1>2, DecodeAssumption DEF IInv, TypeOK, AtCatchUp
  <2>2. generated # <<>> /\ Len(generated) = limit
    BY <2>1
  <2>3. Decode!Ended
    BY <2>2 DEF Decode!Ended
  <2>4. Status = "running" /\ Status' = "finished"
    BY <1>2, StatusOfPlace
  <2> QED
    BY <2>3, <2>4 DEF Decode!Finish, Status
<1> QED
  BY <1>1, <1>2

LEMMA DecodeInit == Init => Decode!Init
BY DEF Init, Decode!Init

LEMMA DecodeNext == IInv /\ [Next]_vars => [Decode!Next]_Decode!vars
<1> SUFFICES ASSUME IInv, [Next]_vars PROVE [Decode!Next]_Decode!vars
  OBVIOUS
<1>1. ASSUME NEW maximum \in 0..ContextLimit, Start(maximum) PROVE Decode!Next
  BY <1>1, StartAccepts DEF Decode!Next
<1>2. CASE Prefill
  BY <1>2, StatusOfPlace, Unnoticed DEF Prefill, request
<1>3. CASE Emit
  BY <1>3, EmitEmits DEF Decode!Next
<1>4. CASE ForwardOne
  BY <1>4, StatusOfPlace, Unnoticed DEF ForwardOne, request
<1>5. ASSUME NEW token \in Tokens, Draft(token) PROVE UNCHANGED Decode!vars
  BY <1>5, StatusOfPlace, Unnoticed DEF Draft, request
<1>6. CASE Verify
  BY <1>6, StatusOfPlace, Unnoticed DEF Verify, request
<1>7. CASE Accept
  BY <1>7, AcceptEmits DEF Decode!Next
<1>8. CASE CatchUp
  BY <1>8, CatchUpFinishes DEF Decode!Next
<1>9. CASE Reject
  BY <1>9, StatusOfPlace, Unnoticed DEF Reject, request
<1>10. CASE Raise
  <2>1. Status \in {"asked", "running"} /\ Status' = "failed"
    BY <1>10, StatusOfPlace DEF Raise
  <2>2. Decode!Fail
    BY <1>10, <2>1 DEF Raise, request, Decode!Fail, Status
  <2> QED
    BY <2>2 DEF Decode!Next
<1>11. CASE UNCHANGED vars
  <2>1. Status' = Status
    BY <1>11 DEF vars, Status
  <2> QED
    BY <1>11, <2>1, Unnoticed DEF vars, request
<1> QED
  BY <1>1, <1>2, <1>3, <1>4, <1>5, <1>6, <1>7, <1>8, <1>9, <1>10, <1>11 DEF Next, DecodeStep

\* generate answers, with and without a drafter and whatever it proposes, what the
\* target gives token by token, and stops where the target's answer ends.
THEOREM Refinement == Spec => ImplementsGreedy
BY DecodeInit, DecodeNext, Invariance, PTL DEF Spec, ImplementsGreedy, Decode!Spec

-----------------------------------------------------------------------------
(* Induction                                                                 *)

\* A set of numbers that holds 0 and the successor of each of its numbers holds
\* them all: otherwise there is a least one it does not hold.
LEMMA SetInduction ==
    ASSUME NEW S \in SUBSET Nat, 0 \in S, \A n \in S : n + 1 \in S
    PROVE  S = Nat
<1> DEFINE R == {ss \in Nat \X Nat : ss[1] < ss[2]}
           T == Nat \ S
<1>1. IsWellFoundedOn(R, Nat)
  BY NatLessThanWellFounded DEF OpToRel
<1>2. ASSUME T # {} PROVE FALSE
  <2>1. T \subseteq Nat
    OBVIOUS
  <2> HIDE DEF R, T
  <2>2. PICK m \in T : \A k \in T : <<k, m>> \notin R
    BY <1>1, <1>2, <2>1, WFMin
  <2> USE DEF T
  <2>3. m \in Nat \ {0} /\ m - 1 \in Nat /\ m - 1 + 1 = m
    BY <2>2
  <2>4. m - 1 \notin S
    BY <2>2, <2>3
  <2>5. <<m - 1, m>> \in R
    BY <2>3 DEF R
  <2> QED
    BY <2>2, <2>3, <2>4, <2>5
<1> QED
  BY <1>2

\* What holds of 0 and goes on from each number up to n holds of them all.
LEMMA HoldsUpTo ==
    ASSUME NEW n \in Nat, NEW S, 0 \in S, \A l \in 1..n : l - 1 \in S => l \in S
    PROVE  \A l \in 0..n : l \in S
<1> DEFINE T == {k \in Nat : k <= n => k \in S}
<1>1. 0 \in T
  OBVIOUS
<1>2. ASSUME NEW k \in T PROVE k + 1 \in T
  <2>1. k + 1 <= n => k + 1 \in 1..n /\ k + 1 - 1 = k /\ k <= n
    OBVIOUS
  <2> QED
    BY <2>1
<1>3. T \in SUBSET Nat
  OBVIOUS
<1> HIDE DEF T
<1>4. T = Nat
  BY <1>1, <1>2, <1>3, SetInduction
<1> QED
  BY <1>4 DEF T

\* Every step from a number to the next one is taken by a function.
FollowsUpTo(f, q, step, k) ==
    /\ f[0] = q
    /\ \A l \in 1..k : f[l] = step[l][f[l - 1]]

LEMMA RecursionExists ==
    ASSUME NEW n \in Nat, NEW Q, NEW q \in Q, NEW step \in [1..n -> [Q -> Q]]
    PROVE  \E f \in [0..n -> Q] : FollowsUpTo(f, q, step, n)
<1> DEFINE Exist(k) == \E f \in [0..k -> Q] : FollowsUpTo(f, q, step, k)
           T == {k \in Nat : k <= n => Exist(k)}
<1> HIDE DEF Exist
<1>1. 0 \in T
  <2> DEFINE f == [l \in 0..0 |-> q]
  <2>1. f \in [0..0 -> Q] /\ FollowsUpTo(f, q, step, 0)
    BY DEF FollowsUpTo
  <2> QED
    BY <2>1 DEF Exist
<1>2. ASSUME NEW k \in T PROVE k + 1 \in T
  <2> SUFFICES ASSUME k + 1 <= n PROVE Exist(k + 1)
    OBVIOUS
  <2>1. k \in Nat /\ k + 1 \in 1..n /\ Exist(k)
    OBVIOUS
  <2>2. PICK f \in [0..k -> Q] : FollowsUpTo(f, q, step, k)
    BY <2>1 DEF Exist
  <2> DEFINE g == [l \in 0..(k + 1) |-> IF l = k + 1 THEN step[k + 1][f[k]] ELSE f[l]]
  <2>3. g \in [0..(k + 1) -> Q]
    <3>1. step[k + 1] \in [Q -> Q] /\ f[k] \in Q
      BY <2>1
    <3> QED
      BY <2>1, <3>1
  <2>4. g[0] = q
    BY <2>1, <2>2 DEF FollowsUpTo
  <2>5. ASSUME NEW l \in 1..(k + 1) PROVE g[l] = step[l][g[l - 1]]
    <3>1. g[l - 1] = f[l - 1]
      BY <2>1
    <3>2. CASE l = k + 1
      BY <2>1, <3>1, <3>2
    <3>3. CASE l # k + 1
      <4>1. l \in 1..k /\ g[l] = f[l]
        BY <2>1, <3>3
      <4> QED
        BY <2>2, <3>1, <4>1 DEF FollowsUpTo
    <3> QED
      BY <3>2, <3>3
  <2> HIDE DEF g
  <2> QED
    BY <2>3, <2>4, <2>5 DEF Exist, FollowsUpTo
<1>3. T \in SUBSET Nat
  OBVIOUS
<1> HIDE DEF T
<1>4. T = Nat
  BY <1>1, <1>2, <1>3, SetInduction
<1> QED
  BY <1>4 DEF T, Exist

-----------------------------------------------------------------------------
(* Sequences one after the other                                             *)

FlatBy(h, u) == /\ h[0] = <<>>
                /\ \A i \in 1..Len(u) : h[i] = h[i - 1] \o u[i]

\* FlattenSeq is a recursion over the sequences, which exists.
LEMMA FlatExists ==
    ASSUME NEW C, NEW u \in Seq(Seq(C))
    PROVE  \E h \in [0..Len(u) -> Seq(C)] : FlatBy(h, u) /\ FlattenSeq(u) = h[Len(u)]
<1>1. PICK n \in Nat : n = Len(u)
  BY LenProperties
<1>2. \A i \in 1..n : u[i] \in Seq(C)
  BY <1>1, ElementOfSeq
<1> DEFINE Q == Seq(C)
           step == [l \in 1..n |-> [q \in Q |-> q \o u[l]]]
<1>3. <<>> \in Q /\ \A l \in 1..n : \A q \in Q : q \o u[l] \in Q
  BY <1>2, ConcatProperties, EmptySeq
<1> HIDE DEF Q
<1>4. step \in [1..n -> [Q -> Q]]
  BY <1>3
<1> HIDE DEF step
<1>5. PICK f \in [0..n -> Q] : FollowsUpTo(f, <<>>, step, n)
  BY <1>3, <1>4, RecursionExists
<1>6. ASSUME NEW l \in 1..n PROVE f[l - 1] \in Q /\ f[l] = f[l - 1] \o u[l]
  <2>1. l - 1 \in 0..n
    OBVIOUS
  <2>2. f[l - 1] \in Q
    BY <1>5, <2>1
  <2>3. f[l] = step[l][f[l - 1]]
    BY <1>5 DEF FollowsUpTo
  <2>4. step[l] = [q \in Q |-> q \o u[l]]
    BY DEF step
  <2> QED
    BY <2>2, <2>3, <2>4
<1>7. f[0] = <<>>
  BY <1>5 DEF FollowsUpTo
<1>8. FlatBy(f, u)
  BY <1>1, <1>6, <1>7 DEF FlatBy
<1>9. CASE n = 0
  <2>1. u = <<>> /\ FlattenSeq(u) = u
    BY <1>1, <1>9, EmptySeq DEF FlattenSeq
  <2> QED
    BY <1>1, <1>5, <1>7, <1>8, <1>9, <2>1 DEF Q
<1>10. CASE n # 0
  <2>0. f[1] = u[1] /\ 1 \in 1..n
    <3>1. 1 \in 1..n /\ 1 - 1 = 0
      BY <1>10
    <3>2. f[1] = f[0] \o u[1]
      BY <1>6, <3>1
    <3>3. <<>> \o u[1] = u[1]
      BY <1>2, <3>1, ConcatEmptySeq
    <3> QED
      BY <1>7, <3>1, <3>2, <3>3
  <2> DEFINE Follows(g) == g = [i \in 1..Len(u) |-> IF i = 1 THEN u[i] ELSE g[i - 1] \o u[i]]
             e == [i \in 1..n |-> f[i]]
  <2>1. Follows(e)
    <3>1. ASSUME NEW i \in 1..n PROVE e[i] = IF i = 1 THEN u[i] ELSE e[i - 1] \o u[i]
      <4>1. CASE i = 1
        BY <2>0, <4>1
      <4>2. CASE i # 1
        <5>1. i - 1 \in 1..n
          BY <4>2
        <5> QED
          BY <1>6, <4>2, <5>1
      <4> QED
        BY <4>1, <4>2
    <3>2. e = [i \in 1..n |-> e[i]]
      OBVIOUS
    <3> HIDE DEF e
    <3> QED
      BY <1>1, <3>1, <3>2
  <2> HIDE DEF e
  <2>2. PICK g : Follows(g) /\ FlattenSeq(u) = g[n]
    <3> DEFINE flatten[i \in 1..Len(u)] == IF i = 1 THEN u[i] ELSE flatten[i - 1] \o u[i]
    <3>1. FlattenSeq(u) = IF Len(u) = 0 THEN u ELSE flatten[Len(u)]
      BY DEF FlattenSeq
    <3>2. flatten = [i \in 1..Len(u) |-> IF i = 1 THEN u[i] ELSE flatten[i - 1] \o u[i]]
      BY <2>1
    <3> HIDE DEF flatten
    <3>3. Follows(flatten)
      BY <3>2
    <3> HIDE DEF Follows
    <3> QED
      BY <1>1, <1>10, <3>1, <3>3
  <2>3. \A i \in 1..n : g[i] = IF i = 1 THEN u[i] ELSE g[i - 1] \o u[i]
    BY <1>1, <2>2
  <2> HIDE DEF Follows
  <2> DEFINE S == {l \in 0..n : l = 0 \/ g[l] = f[l]}
  <2>4. ASSUME NEW l \in 1..n, l - 1 \in S PROVE l \in S
    <3>1. CASE l = 1
      BY <2>0, <2>3, <3>1
    <3>2. CASE l # 1
      <4>1. g[l - 1] = f[l - 1]
        BY <2>4, <3>2
      <4>2. g[l] = g[l - 1] \o u[l]
        BY <2>3, <3>2
      <4>3. f[l] = f[l - 1] \o u[l]
        BY <1>6
      <4>4. g[l] = f[l]
        BY ONLY <4>1, <4>2, <4>3
      <4> QED
        BY <4>4
    <3> QED
      BY <3>1, <3>2
  <2>5. 0 \in S
    OBVIOUS
  <2> HIDE DEF S
  <2>6. \A l \in 0..n : l \in S
    BY <2>4, <2>5, HoldsUpTo
  <2>8. g[n] = f[n]
    BY <1>10, <2>6 DEF S
  <2> QED
    BY <1>1, <1>5, <1>8, <2>2, <2>8 DEF Q
<1> QED
  BY <1>9, <1>10

Joined(x, y) == x \o y

LEMMA JoinedAssociate ==
    ASSUME NEW C, NEW x \in Seq(C), NEW y \in Seq(C), NEW z \in Seq(C)
    PROVE  Joined(Joined(x, y), z) = Joined(x, Joined(y, z))
BY ConcatAssociative DEF Joined

\* FlattenSeq of two sequences of sequences is that of the first and that of the second.
LEMMA FlatConcat ==
    ASSUME NEW C, NEW u \in Seq(Seq(C)), NEW v \in Seq(Seq(C))
    PROVE  FlattenSeq(u \o v) = FlattenSeq(u) \o FlattenSeq(v)
<1>1. PICK n \in Nat, m \in Nat : n = Len(u) /\ m = Len(v)
  BY LenProperties
<1>2. PICK w \in Seq(Seq(C)) :
         /\ w = u \o v /\ Len(w) = n + m
         /\ \A i \in 1..n : w[i] = u[i]
         /\ \A i \in 1..m : w[n + i] = v[i]
  <2>1. /\ u \o v \in Seq(Seq(C)) /\ Len(u \o v) = Len(u) + Len(v)
        /\ \A i \in 1..(Len(u) + Len(v)) :
              (u \o v)[i] = IF i <= Len(u) THEN u[i] ELSE v[i - Len(u)]
    BY ConcatProperties
  <2>2. PICK w \in Seq(Seq(C)) : w = u \o v
    BY <2>1
  <2>3. \A i \in 1..(n + m) : w[i] = IF i <= n THEN u[i] ELSE v[i - n]
    BY <1>1, <2>1, <2>2
  <2>4. \A i \in 1..n : w[i] = u[i]
    BY <2>3
  <2>5. ASSUME NEW i \in 1..m PROVE w[n + i] = v[i]
    <3>1. n + i \in 1..(n + m) /\ ~(n + i <= n) /\ n + i - n = i
      OBVIOUS
    <3> QED
      BY <2>3, <3>1
  <2> QED
    BY <1>1, <2>1, <2>2, <2>4, <2>5
<1>3. PICK f \in [0..n -> Seq(C)] : FlatBy(f, u) /\ FlattenSeq(u) = f[n]
  BY <1>1, FlatExists
<1>4. PICK g \in [0..m -> Seq(C)] : FlatBy(g, v) /\ FlattenSeq(v) = g[m]
  BY <1>1, FlatExists
<1>5. PICK h \in [0..(n + m) -> Seq(C)] : FlatBy(h, w) /\ FlattenSeq(w) = h[n + m]
  <2>1. PICK k \in Nat : k = n + m /\ k = Len(w)
    BY <1>2
  <2>2. \E h \in [0..Len(w) -> Seq(C)] : FlatBy(h, w) /\ FlattenSeq(w) = h[Len(w)]
    BY FlatExists
  <2> QED
    BY <2>1, <2>2
<1>6. /\ f[0] = <<>> /\ \A i \in 1..n : f[i] = f[i - 1] \o u[i]
      /\ g[0] = <<>> /\ \A i \in 1..m : g[i] = g[i - 1] \o v[i]
      /\ h[0] = <<>> /\ \A i \in 1..(n + m) : h[i] = h[i - 1] \o w[i]
  BY <1>1, <1>2, <1>3, <1>4, <1>5 DEF FlatBy
<1>7. h[n] = f[n]
  <2> DEFINE S == {l \in 0..n : h[l] = f[l]}
  <2>1. 0 \in S
    BY <1>6
  <2>2. ASSUME NEW l \in 1..n, l - 1 \in S PROVE l \in S
    <3>1. h[l - 1] = f[l - 1]
      BY <2>2
    <3>2. h[l] = h[l - 1] \o u[l] /\ f[l] = f[l - 1] \o u[l]
      <4>1. l \in 1..(n + m)
        OBVIOUS
      <4> QED
        BY <1>2, <1>6, <4>1
    <3>3. h[l] = f[l]
      BY ONLY <3>1, <3>2
    <3> QED
      BY <3>3
  <2> HIDE DEF S
  <2>3. \A l \in 0..n : l \in S
    BY <2>1, <2>2, HoldsUpTo
  <2> QED
    BY <2>3 DEF S
<1>8. h[n + m] = f[n] \o g[m]
  <2> DEFINE S == {l \in 0..m : h[n + l] = f[n] \o g[l]}
  <2>1. 0 \in S
    <3>1. f[n] \in Seq(C)
      BY <1>3
    <3>2. f[n] \o <<>> = f[n]
      BY <3>1, ConcatEmptySeq
    <3>3. h[n + 0] = h[n] /\ g[0] = <<>>
      BY <1>6
    <3>4. h[n + 0] = f[n] \o g[0]
      BY ONLY <1>7, <3>2, <3>3
    <3> QED
      BY <3>4
  <2>2. ASSUME NEW l \in 1..m, l - 1 \in S PROVE l \in S
    <3>1. n + l \in 1..(n + m) /\ n + l - 1 = n + (l - 1) /\ l - 1 \in 0..m
      OBVIOUS
    <3>2. h[n + (l - 1)] = f[n] \o g[l - 1]
      BY <2>2
    <3>3. h[n + l] = (f[n] \o g[l - 1]) \o v[l]
      <4>1. h[n + l] = h[n + (l - 1)] \o w[n + l]
        <5>1. PICK k \in 1..(n + m) : k = n + l
          BY <3>1
        <5>2. h[k] = h[k - 1] \o w[k]
          BY <1>6
        <5>3. k - 1 = n + (l - 1)
          BY <5>1
        <5> QED
          BY ONLY <5>1, <5>2, <5>3
      <4>2. w[n + l] = v[l]
        BY <1>2
      <4> QED
        BY ONLY <3>2, <4>1, <4>2
    <3>4. f[n] \in Seq(C) /\ g[l - 1] \in Seq(C) /\ v[l] \in Seq(C)
      <4>1. v[l] \in Seq(C)
        BY <1>1, ElementOfSeq
      <4> QED
        BY <1>3, <1>4, <3>1, <4>1
    <3>5. (f[n] \o g[l - 1]) \o v[l] = f[n] \o (g[l - 1] \o v[l])
      <4>1. PICK x \in Seq(C), y \in Seq(C), z \in Seq(C) : x = f[n] /\ y = g[l - 1] /\ z = v[l]
        BY <3>4
      <4>2. Joined(Joined(x, y), z) = Joined(x, Joined(y, z))
        BY JoinedAssociate
      <4>3. (x \o y) \o z = x \o (y \o z)
        BY ONLY <4>2 DEF Joined
      <4> QED
        BY ONLY <4>1, <4>3
    <3>7. g[l] = g[l - 1] \o v[l]
      BY <1>6
    <3>6. h[n + l] = f[n] \o g[l]
      BY ONLY <3>3, <3>5, <3>7
    <3>8. l \in 0..m
      OBVIOUS
    <3> QED
      BY ONLY <3>6, <3>8
  <2> HIDE DEF S
  <2>3. \A l \in 0..m : l \in S
    BY <2>1, <2>2, HoldsUpTo
  <2>4. m \in 0..m
    OBVIOUS
  <2> QED
    BY <2>3, <2>4 DEF S
<1> QED
  BY <1>2, <1>3, <1>4, <1>5, <1>8

\* Elements of a concatenation.
LEMMA ContainsConcat ==
    ASSUME NEW C, NEW a \in Seq(C), NEW b \in Seq(C), NEW c
    PROVE  Contains(a \o b, c) <=> Contains(a, c) \/ Contains(b, c)
<1>1. PICK n \in Nat, m \in Nat : n = Len(a) /\ m = Len(b)
  BY LenProperties
<1>2. PICK s \in Seq(C) : /\ s = a \o b /\ Len(s) = n + m
                          /\ \A i \in 1..(n + m) : s[i] = IF i <= n THEN a[i] ELSE b[i - n]
  <2>1. /\ a \o b \in Seq(C) /\ Len(a \o b) = Len(a) + Len(b)
        /\ \A i \in 1..(Len(a) + Len(b)) :
              (a \o b)[i] = IF i <= Len(a) THEN a[i] ELSE b[i - Len(a)]
    BY ConcatProperties
  <2>2. PICK s \in Seq(C) : s = a \o b
    BY <2>1
  <2>3. Len(s) = n + m /\ \A i \in 1..(n + m) : s[i] = IF i <= n THEN a[i] ELSE b[i - n]
    BY <1>1, <2>1, <2>2
  <2> QED
    BY <2>2, <2>3
<1>3. ASSUME Contains(s, c) PROVE Contains(a, c) \/ Contains(b, c)
  <2>1. PICK i \in 1..(n + m) : s[i] = c
    BY <1>2, <1>3 DEF Contains
  <2>2. CASE i <= n
    BY <1>1, <1>2, <2>1, <2>2 DEF Contains
  <2>3. CASE ~(i <= n)
    <3>1. i - n \in 1..m
      BY <2>3
    <3> QED
      BY <1>1, <1>2, <2>1, <2>3, <3>1 DEF Contains
  <2> QED
    BY <2>2, <2>3
<1>4. ASSUME Contains(a, c) PROVE Contains(s, c)
  <2>1. PICK i \in 1..n : a[i] = c
    BY <1>1, <1>4 DEF Contains
  <2>2. i \in 1..(n + m) /\ i <= n
    OBVIOUS
  <2> QED
    BY <1>2, <2>1, <2>2 DEF Contains
<1>5. ASSUME Contains(b, c) PROVE Contains(s, c)
  <2>1. PICK i \in 1..m : b[i] = c
    BY <1>1, <1>5 DEF Contains
  <2>2. n + i \in 1..(n + m) /\ ~(n + i <= n) /\ n + i - n = i
    OBVIOUS
  <2>3. s[n + i] = c
    BY <1>2, <2>1, <2>2
  <2> QED
    BY <1>2, <2>2, <2>3 DEF Contains
<1> QED
  BY <1>2, <1>3, <1>4, <1>5

\* What a sequence contains, FlattenSeq of the sequences it is one of contains.
LEMMA FlatContains ==
    ASSUME NEW C, NEW u \in Seq(Seq(C)), NEW i \in 1..Len(u), NEW c, Contains(u[i], c)
    PROVE  Contains(FlattenSeq(u), c)
<1>1. PICK n \in Nat : n = Len(u)
  BY LenProperties
<1>2. PICK f \in [0..n -> Seq(C)] : FlatBy(f, u) /\ FlattenSeq(u) = f[n]
  BY <1>1, FlatExists
<1>3. \A l \in 1..n : f[l] = f[l - 1] \o u[l] /\ f[l - 1] \in Seq(C) /\ u[l] \in Seq(C)
  <2>1. \A l \in 1..n : l - 1 \in 0..n
    OBVIOUS
  <2> QED
    BY <1>1, <1>2, <2>1, ElementOfSeq DEF FlatBy
<1> DEFINE S == {l \in 0..n : l >= i => Contains(f[l], c)}
<1>4. 0 \in S
  BY <1>1
<1>5. ASSUME NEW l \in 1..n, l - 1 \in S PROVE l \in S
  <2>1. l - 1 >= i => Contains(f[l - 1], c)
    BY <1>5
  <2>2. l >= i => Contains(f[l - 1], c) \/ Contains(u[l], c)
    <3>1. CASE l = i
      BY <3>1
    <3>2. CASE l # i
      <4>1. i \in Nat /\ (l >= i => l - 1 >= i)
        BY <1>1, <3>2
      <4> QED
        BY <2>1, <4>1
    <3> QED
      BY <3>1, <3>2
  <2>3. Contains(f[l], c) <=> Contains(f[l - 1], c) \/ Contains(u[l], c)
    <3>1. PICK x \in Seq(C), y \in Seq(C) : x = f[l - 1] /\ y = u[l] /\ f[l] = x \o y
      BY <1>3
    <3>2. Contains(x \o y, c) <=> Contains(x, c) \/ Contains(y, c)
      BY ContainsConcat
    <3> QED
      BY <3>1, <3>2
  <2> QED
    BY <2>2, <2>3
<1> HIDE DEF S
<1>6. \A l \in 0..n : l \in S
  BY <1>4, <1>5, HoldsUpTo
<1>7. n \in S /\ n >= i
  BY <1>1, <1>6
<1> QED
  BY <1>2, <1>7 DEF S

-----------------------------------------------------------------------------
(* The decoder                                                               *)

Kinds == {"ascii", "lead", "continuation"}
Shapes == {"ascii", "long", Replacement}

IsKind(bytes, i, kind) == i \in DOMAIN bytes /\ bytes[i] = kind

\* What a byte decodes to.
CharAt(bytes, i) ==
    CASE IsKind(bytes, i, "ascii") -> <<"ascii">>
      [] IsKind(bytes, i, "lead") /\ IsKind(bytes, i + 1, "continuation") -> <<"long">>
      [] IsKind(bytes, i, "continuation") /\ IsKind(bytes, i - 1, "lead") -> <<>>
      [] OTHER -> <<Replacement>>

CharsOf(bytes) == [i \in DOMAIN bytes |-> CharAt(bytes, i)]

LEMMA CharactersFlatten ==
    ASSUME NEW bytes
    PROVE  Characters(bytes) = FlattenSeq(CharsOf(bytes))
BY DEF Characters, CharsOf, CharAt, IsKind

LEMMA CharAtTyped == ASSUME NEW bytes, NEW i PROVE CharAt(bytes, i) \in Seq(Shapes)
<1>1. <<>> \in Seq(Shapes) /\ \A c \in Shapes : <<c>> \in Seq(Shapes)
  BY EmptySeq
<1>2. "ascii" \in Shapes /\ "long" \in Shapes /\ Replacement \in Shapes
  BY DEF Shapes
<1>3. <<"ascii">> \in Seq(Shapes) /\ <<"long">> \in Seq(Shapes) /\ <<Replacement>> \in Seq(Shapes)
  BY <1>1, <1>2
<1> HIDE DEF Shapes
<1> QED
  BY <1>1, <1>3 DEF CharAt

LEMMA CharsTyped ==
    ASSUME NEW bytes \in Seq(Kinds)
    PROVE  /\ CharsOf(bytes) \in Seq(Seq(Shapes)) /\ Len(CharsOf(bytes)) = Len(bytes)
           /\ \A i \in 1..Len(bytes) : CharsOf(bytes)[i] = CharAt(bytes, i)
<1>1. PICK n \in Nat : n = Len(bytes) /\ DOMAIN bytes = 1..n
  BY LenProperties
<1>2. CharsOf(bytes) = [i \in 1..n |-> CharAt(bytes, i)]
  BY <1>1 DEF CharsOf
<1>3. \A i \in 1..n : CharAt(bytes, i) \in Seq(Shapes)
  BY CharAtTyped
<1> QED
  BY <1>1, <1>2, <1>3

\* The bytes of a text without a torn character do not end in a beginning.
LEMMA NoLeadAtEnd ==
    ASSUME NEW a \in Seq(Kinds), ~Contains(Characters(a), Replacement), a # <<>>
    PROVE  a[Len(a)] # "lead"
<1>1. PICK n \in Nat \ {0} : n = Len(a) /\ DOMAIN a = 1..n
  BY LenProperties, EmptySeq
<1> SUFFICES ASSUME a[n] = "lead" PROVE FALSE
  BY <1>1
<1>2. CharAt(a, n) = <<Replacement>>
  <2>1. ~IsKind(a, n, "ascii") /\ ~IsKind(a, n, "continuation")
    BY DEF IsKind
  <2>2. ~IsKind(a, n + 1, "continuation")
    BY <1>1 DEF IsKind
  <2> QED
    BY <2>1, <2>2 DEF CharAt
<1>3. Contains(<<Replacement>>, Replacement)
  BY DEF Contains
<1>4. PICK u \in Seq(Seq(Shapes)) :
         /\ u = CharsOf(a) /\ Len(u) = n /\ \A i \in 1..n : u[i] = CharAt(a, i)
  BY <1>1, CharsTyped
<1>5. n \in 1..Len(u) /\ Contains(u[n], Replacement)
  BY <1>2, <1>3, <1>4
<1>6. Contains(FlattenSeq(u), Replacement)
  BY <1>5, FlatContains
<1> QED
  BY <1>4, <1>6, CharactersFlatten

\* What follows a text without a torn character is decoded as if it stood alone.
LEMMA CharactersSplit ==
    ASSUME NEW a \in Seq(Kinds), NEW b \in Seq(Kinds), ~Contains(Characters(a), Replacement)
    PROVE  Characters(a \o b) = Characters(a) \o Characters(b)
<1>1. PICK n \in Nat, m \in Nat :
        n = Len(a) /\ m = Len(b) /\ DOMAIN a = 1..n /\ DOMAIN b = 1..m
  BY LenProperties
<1>2. PICK s \in Seq(Kinds) :
         /\ s = a \o b /\ Len(s) = n + m /\ DOMAIN s = 1..(n + m)
         /\ \A i \in 1..n : s[i] = a[i]
         /\ \A i \in 1..m : s[n + i] = b[i]
  <2>1. /\ a \o b \in Seq(Kinds) /\ Len(a \o b) = Len(a) + Len(b)
        /\ \A i \in 1..(Len(a) + Len(b)) :
              (a \o b)[i] = IF i <= Len(a) THEN a[i] ELSE b[i - Len(a)]
    BY ConcatProperties
  <2>2. PICK s \in Seq(Kinds) : s = a \o b
    BY <2>1
  <2>3. \A i \in 1..(n + m) : s[i] = IF i <= n THEN a[i] ELSE b[i - n]
    BY <1>1, <2>1, <2>2
  <2>4. \A i \in 1..n : s[i] = a[i]
    BY <2>3
  <2>5. ASSUME NEW i \in 1..m PROVE s[n + i] = b[i]
    <3>1. n + i \in 1..(n + m) /\ ~(n + i <= n) /\ n + i - n = i
      OBVIOUS
    <3> QED
      BY <2>3, <3>1
  <2>6. DOMAIN s = 1..(n + m)
    BY <1>1, <2>1, <2>2, LenProperties
  <2> QED
    BY <1>1, <2>1, <2>2, <2>4, <2>5, <2>6
<1>3. n > 0 => a[n] # "lead"
  <2>1. n > 0 => a # <<>>
    BY <1>1
  <2> QED
    BY <1>1, <2>1, NoLeadAtEnd
<1>4. ASSUME NEW i \in 1..n PROVE CharAt(s, i) = CharAt(a, i)
  <2>1. \A kind : /\ IsKind(s, i, kind) <=> IsKind(a, i, kind)
                  /\ IsKind(s, i - 1, kind) <=> IsKind(a, i - 1, kind)
    <3>1. i \in 1..(n + m) /\ (i - 1 \in 1..(n + m) <=> i - 1 \in 1..n)
      OBVIOUS
    <3> QED
      BY <1>1, <1>2, <3>1 DEF IsKind
  <2>2. CASE i = n
    <3>1. ~IsKind(a, i, "lead")
      BY <1>3, <2>2 DEF IsKind
    <3> QED
      BY <2>1, <3>1 DEF CharAt
  <2>3. CASE i # n
    <3>1. i + 1 \in 1..n /\ i + 1 \in 1..(n + m)
      BY <2>3
    <3>2. IsKind(s, i + 1, "continuation") <=> IsKind(a, i + 1, "continuation")
      BY <1>1, <1>2, <3>1 DEF IsKind
    <3> QED
      BY <2>1, <3>2 DEF CharAt
  <2> QED
    BY <2>2, <2>3
<1>5. ASSUME NEW i \in 1..m PROVE CharAt(s, n + i) = CharAt(b, i)
  <2>1. PICK j \in 1..(n + m) : j = n + i
    OBVIOUS
  <2>2. s[j] = b[i]
    BY <1>2, <2>1
  <2>3. \A kind : IsKind(s, j, kind) <=> IsKind(b, i, kind)
    BY <1>1, <1>2, <2>2 DEF IsKind
  <2>4. \A kind : IsKind(s, j + 1, kind) <=> IsKind(b, i + 1, kind)
    <3>1. CASE i = m
      BY <1>1, <1>2, <2>1, <3>1 DEF IsKind
    <3>2. CASE i # m
      <4>1. i + 1 \in 1..m /\ j + 1 = n + (i + 1) /\ j + 1 \in 1..(n + m)
        BY <2>1, <3>2
      <4>2. s[j + 1] = b[i + 1]
        BY <1>2, <4>1
      <4> QED
        BY <1>1, <1>2, <4>1, <4>2 DEF IsKind
    <3> QED
      BY <3>1, <3>2
  <2>5. IsKind(s, j - 1, "lead") <=> IsKind(b, i - 1, "lead")
    <3>1. CASE i = 1
      <4>1. j - 1 = n /\ ~IsKind(b, i - 1, "lead")
        BY <1>1, <2>1, <3>1 DEF IsKind
      <4>2. ~IsKind(s, n, "lead")
        <5>1. CASE n = 0
          BY <1>2, <5>1 DEF IsKind
        <5>2. CASE n # 0
          BY <1>2, <1>3, <5>2 DEF IsKind
        <5> QED
          BY <5>1, <5>2
      <4> QED
        BY <4>1, <4>2
    <3>2. CASE i # 1
      <4>1. i - 1 \in 1..m /\ j - 1 = n + (i - 1) /\ j - 1 \in 1..(n + m)
        BY <2>1, <3>2
      <4>2. s[j - 1] = b[i - 1]
        BY <1>2, <4>1
      <4> QED
        BY <1>1, <1>2, <4>1, <4>2 DEF IsKind
    <3> QED
      BY <3>1, <3>2
  <2>6. CharAt(s, j) = CharAt(b, i)
    BY <2>3, <2>4, <2>5 DEF CharAt
  <2> QED
    BY <2>1, <2>6
<1>6. PICK u \in Seq(Seq(Shapes)), v \in Seq(Seq(Shapes)), w \in Seq(Seq(Shapes)) :
         /\ u = CharsOf(a) /\ v = CharsOf(b) /\ w = CharsOf(s)
         /\ Len(u) = n /\ Len(v) = m /\ Len(w) = n + m
         /\ \A i \in 1..n : u[i] = CharAt(a, i)
         /\ \A i \in 1..m : v[i] = CharAt(b, i)
         /\ \A i \in 1..(n + m) : w[i] = CharAt(s, i)
  <2>1. \A r \in Seq(Kinds) :
           /\ CharsOf(r) \in Seq(Seq(Shapes)) /\ Len(CharsOf(r)) = Len(r)
           /\ \A i \in 1..Len(r) : CharsOf(r)[i] = CharAt(r, i)
    BY CharsTyped
  <2>2. PICK u \in Seq(Seq(Shapes)) :
           u = CharsOf(a) /\ Len(u) = n /\ \A i \in 1..n : u[i] = CharAt(a, i)
    BY <1>1, <2>1
  <2>3. PICK v \in Seq(Seq(Shapes)) :
           v = CharsOf(b) /\ Len(v) = m /\ \A i \in 1..m : v[i] = CharAt(b, i)
    BY <1>1, <2>1
  <2>4. PICK k \in Nat : k = n + m /\ k = Len(s)
    BY <1>2
  <2>5. PICK w \in Seq(Seq(Shapes)) :
           w = CharsOf(s) /\ Len(w) = k /\ \A i \in 1..k : w[i] = CharAt(s, i)
    BY <2>1, <2>4
  <2> QED
    BY <2>2, <2>3, <2>4, <2>5
<1>7. w = u \o v
  <2>0. /\ u \o v \in Seq(Seq(Shapes)) /\ Len(u \o v) = Len(u) + Len(v)
        /\ \A i \in 1..(Len(u) + Len(v)) :
              (u \o v)[i] = IF i <= Len(u) THEN u[i] ELSE v[i - Len(u)]
    BY ConcatProperties
  <2>1. /\ u \o v \in Seq(Seq(Shapes)) /\ Len(u \o v) = n + m
        /\ \A i \in 1..(n + m) : (u \o v)[i] = IF i <= n THEN u[i] ELSE v[i - n]
    BY <1>6, <2>0
  <2>2. PICK x \in Seq(Seq(Shapes)) :
           /\ x = u \o v /\ Len(x) = n + m
           /\ \A i \in 1..(n + m) : x[i] = IF i <= n THEN u[i] ELSE v[i - n]
    BY <2>1
  <2>3. ASSUME NEW i \in 1..(n + m) PROVE w[i] = x[i]
    <3>1. CASE i <= n
      <4>1. i \in 1..n
        BY <3>1
      <4> QED
        BY <1>4, <1>6, <2>2, <3>1, <4>1
    <3>2. CASE ~(i <= n)
      <4>1. PICK k \in 1..m : k = i - n /\ i = n + k
        BY <3>2
      <4>2. w[i] = CharAt(b, k)
        BY <1>5, <1>6, <4>1
      <4> QED
        BY <1>6, <2>2, <3>2, <4>1, <4>2
    <3> QED
      BY <3>1, <3>2
  <2>4. PICK k \in Nat : k = n + m /\ Len(w) = k /\ Len(x) = k
    BY <1>6, <2>2
  <2>5. \A i \in 1..k : w[i] = x[i]
    BY <2>3, <2>4
  <2>6. w = x
    BY <2>4, <2>5, SeqEqual
  <2> QED
    BY <2>2, <2>6
<1>8. FlattenSeq(u \o v) = FlattenSeq(u) \o FlattenSeq(v)
  BY FlatConcat
<1> QED
  BY <1>2, <1>6, <1>7, <1>8, CharactersFlatten

-----------------------------------------------------------------------------
(* The streamer                                                              *)

BytesOfToken(token) == IF token \in Special THEN <<>> ELSE Piece[token]
PiecesOf(tokens) == [i \in DOMAIN tokens |-> BytesOfToken(tokens[i])]

LEMMA TokenTyped ==
    ASSUME NEW token \in Tokens
    PROVE  /\ BytesOfToken(token) \in Seq(Kinds)
           /\ token \notin Special => BytesOfToken(token) = Piece[token]
BY PieceAssumption, EmptySeq DEF BytesOfToken, Kinds

LEMMA PiecesTyped ==
    ASSUME NEW tokens \in Seq(Tokens)
    PROVE  /\ PiecesOf(tokens) \in Seq(Seq(Kinds)) /\ Len(PiecesOf(tokens)) = Len(tokens)
           /\ \A i \in 1..Len(tokens) : PiecesOf(tokens)[i] = BytesOfToken(tokens[i])
           /\ BytesOf(tokens) = FlattenSeq(PiecesOf(tokens))
<1>1. PICK n \in Nat : n = Len(tokens) /\ DOMAIN tokens = 1..n
  BY LenProperties
<1>2. PiecesOf(tokens) = [i \in 1..n |-> BytesOfToken(tokens[i])]
  BY <1>1 DEF PiecesOf
<1>3. \A i \in 1..n : BytesOfToken(tokens[i]) \in Seq(Kinds)
  BY <1>1, ElementOfSeq, TokenTyped
<1>4. BytesOf(tokens) = FlattenSeq(PiecesOf(tokens))
  BY DEF BytesOf, PiecesOf, BytesOfToken
<1> HIDE DEF PiecesOf
<1> QED
  BY <1>1, <1>2, <1>3, <1>4

LEMMA FlatTyped ==
    ASSUME NEW C, NEW u \in Seq(Seq(C))
    PROVE  FlattenSeq(u) \in Seq(C)
<1>1. PICK n \in Nat : n = Len(u)
  BY LenProperties
<1>2. PICK f \in [0..n -> Seq(C)] : FlattenSeq(u) = f[n]
  BY <1>1, FlatExists
<1> QED
  BY <1>2

LEMMA OneOf ==
    ASSUME NEW S, NEW x \in S
    PROVE  \E u \in Seq(S) : u = <<x>> /\ Len(u) = 1 /\ u[1] = x
<1>1. <<x>> \in Seq(S) /\ Len(<<x>>) = 1 /\ <<x>>[1] = x
  OBVIOUS
<1> QED
  BY <1>1

LEMMA FlatOne ==
    ASSUME NEW C, NEW x \in Seq(C)
    PROVE  FlattenSeq(<<x>>) = x
<1>1. PICK u \in Seq(Seq(C)) : u = <<x>> /\ Len(u) = 1 /\ u[1] = x
  BY OneOf
<1>2. PICK f \in [0..1 -> Seq(C)] : FlatBy(f, u) /\ FlattenSeq(u) = f[1]
  BY <1>1, FlatExists
<1>3. f[0] = <<>> /\ f[1] = f[0] \o x
  <2>1. 1 \in 1..Len(u) /\ 1 - 1 = 0
    BY <1>1
  <2> QED
    BY <1>1, <1>2, <2>1 DEF FlatBy
<1>4. <<>> \o x = x
  BY ConcatEmptySeq
<1> QED
  BY <1>1, <1>2, <1>3, <1>4

\* One token more, and its bytes.
LEMMA BytesNext ==
    ASSUME NEW tokens \in Seq(Tokens), NEW token \in Tokens
    PROVE  /\ BytesOf(tokens) \in Seq(Kinds)
           /\ BytesOf(Append(tokens, token)) = BytesOf(tokens) \o BytesOfToken(token)
<1>1. PICK n \in Nat : n = Len(tokens)
  BY LenProperties
<1>2. PICK x \in Seq(Kinds) : x = BytesOfToken(token)
  BY TokenTyped
<1>3. PICK u \in Seq(Seq(Kinds)) :
         /\ u = PiecesOf(tokens) /\ Len(u) = n
         /\ \A i \in 1..n : u[i] = BytesOfToken(tokens[i])
         /\ BytesOf(tokens) = FlattenSeq(u)
  BY <1>1, PiecesTyped
<1>4. PICK more \in Seq(Tokens) :
         /\ more = Append(tokens, token) /\ Len(more) = n + 1
         /\ \A i \in 1..n : more[i] = tokens[i]
         /\ more[n + 1] = token
  BY <1>1, AppendProperties
<1>5. PICK v \in Seq(Seq(Kinds)) :
         /\ v = PiecesOf(more) /\ Len(v) = n + 1
         /\ \A i \in 1..(n + 1) : v[i] = BytesOfToken(more[i])
         /\ BytesOf(more) = FlattenSeq(v)
  <2>1. /\ PiecesOf(more) \in Seq(Seq(Kinds)) /\ Len(PiecesOf(more)) = Len(more)
        /\ \A i \in 1..Len(more) : PiecesOf(more)[i] = BytesOfToken(more[i])
        /\ BytesOf(more) = FlattenSeq(PiecesOf(more))
    BY PiecesTyped
  <2> QED
    BY <1>4, <2>1
<1>6. PICK one \in Seq(Seq(Kinds)) : one = <<x>> /\ Len(one) = 1 /\ one[1] = x
  BY OneOf
<1>7. v = u \o one
  <2>1. /\ u \o one \in Seq(Seq(Kinds)) /\ Len(u \o one) = Len(u) + Len(one)
        /\ \A i \in 1..(Len(u) + Len(one)) :
              (u \o one)[i] = IF i <= Len(u) THEN u[i] ELSE one[i - Len(u)]
    BY ConcatProperties
  <2>2. PICK w \in Seq(Seq(Kinds)) : w = u \o one
    BY <2>1
  <2>3. Len(w) = n + 1 /\ \A i \in 1..(n + 1) : w[i] = IF i <= n THEN u[i] ELSE one[i - n]
    BY <1>3, <1>6, <2>1, <2>2
  <2>4. ASSUME NEW i \in 1..(n + 1) PROVE v[i] = w[i]
    <3>1. CASE i = n + 1
      <4>1. w[i] = x /\ v[i] = x
        <5>1. i - n = 1 /\ ~(i <= n)
          BY <3>1
        <5> QED
          BY <1>2, <1>4, <1>5, <1>6, <2>3, <3>1, <5>1
      <4> QED
        BY <4>1
    <3>2. CASE i # n + 1
      <4>1. i \in 1..n /\ i <= n
        BY <3>2
      <4> QED
        BY <1>3, <1>4, <1>5, <2>3, <4>1
    <3> QED
      BY <3>1, <3>2
  <2>5. PICK k \in Nat : k = n + 1 /\ Len(v) = k /\ Len(w) = k
    BY <1>5, <2>3
  <2>6. \A i \in 1..k : v[i] = w[i]
    BY <2>4, <2>5
  <2>7. v = w
    BY <2>5, <2>6, SeqEqual
  <2> QED
    BY <2>2, <2>7
<1>8. FlattenSeq(u \o one) = FlattenSeq(u) \o FlattenSeq(one)
  BY FlatConcat
<1>9. FlattenSeq(one) = x
  BY <1>6, FlatOne
<1>10. FlattenSeq(u) \in Seq(Kinds)
  BY FlatTyped
<1>11. BytesOf(more) = BytesOf(tokens) \o x
  BY ONLY <1>3, <1>5, <1>7, <1>8, <1>9
<1> QED
  BY ONLY <1>2, <1>3, <1>4, <1>10, <1>11

\* Of the bytes so far, those held back are the end, and the others are shown.
Held(p, s, b) ==
    /\ p \in Seq(Kinds)
    /\ \E a \in Seq(Kinds) :
          b = a \o p /\ s = Characters(a) /\ ~Contains(s, Replacement)

LEMMA CharactersTyped ==
    ASSUME NEW a \in Seq(Kinds)
    PROVE  Characters(a) \in Seq(Shapes)
BY CharsTyped, FlatTyped, CharactersFlatten

LEMMA StreamStep ==
    ASSUME NEW p, NEW s, NEW b, Held(p, s, b), NEW token \in Tokens,
           NEW after, after = Streamed([pending |-> p, shown |-> s], token)
    PROVE  Held(after.pending, after.shown, b \o BytesOfToken(token))
<1>1. PICK a \in Seq(Kinds) : b = a \o p /\ s = Characters(a) /\ ~Contains(s, Replacement)
  BY DEF Held
<1>2. p \in Seq(Kinds) /\ s \in Seq(Shapes) /\ b \in Seq(Kinds)
  <2>1. p \in Seq(Kinds)
    BY DEF Held
  <2>2. s \in Seq(Shapes)
    BY <1>1, CharactersTyped
  <2>3. a \o p \in Seq(Kinds)
    BY <2>1, ConcatProperties
  <2> QED
    BY <1>1, <2>1, <2>2, <2>3
<1>3. CASE token \in Special
  <2>1. after.pending = p /\ after.shown = s
    BY <1>3 DEF Streamed
  <2>2. b \o BytesOfToken(token) = b
    <3>1. BytesOfToken(token) = <<>>
      BY <1>3 DEF BytesOfToken
    <3> QED
      BY <1>2, <3>1, ConcatEmptySeq
  <2> QED
    BY <2>1, <2>2
<1>4. CASE token \notin Special
  <2>1. PICK x \in Seq(Kinds) : x = BytesOfToken(token) /\ x = Piece[token]
    BY <1>4, TokenTyped
  <2>2. PICK q \in Seq(Kinds) : q = p \o x
    BY <1>2, ConcatProperties
  <2>3. b \o x = a \o q
    <3>1. Joined(Joined(a, p), x) = Joined(a, Joined(p, x))
      BY <1>2, JoinedAssociate
    <3>2. (a \o p) \o x = a \o (p \o x)
      BY ONLY <3>1 DEF Joined
    <3> QED
      BY ONLY <1>1, <2>2, <3>2
  <2>4. CASE Contains(Characters(q), Replacement)
    <3>1. after.pending = q /\ after.shown = s
      BY <1>4, <2>1, <2>2, <2>4 DEF Streamed
    <3>2. Held(q, s, a \o q)
      BY <1>1 DEF Held
    <3> QED
      BY ONLY <2>1, <2>3, <3>1, <3>2
  <2>5. CASE ~Contains(Characters(q), Replacement)
    <3>1. after.pending = <<>> /\ after.shown = s \o Characters(q)
      BY <1>4, <2>1, <2>2, <2>5 DEF Streamed
    <3>2. PICK c \in Seq(Kinds) : c = a \o q
      BY ConcatProperties
    <3>3. Characters(c) = s \o Characters(q)
      <4>1. Characters(a \o q) = Characters(a) \o Characters(q)
        BY <1>1, CharactersSplit
      <4> QED
        BY ONLY <1>1, <3>2, <4>1
    <3>4. ~Contains(Characters(c), Replacement)
      <4>1. PICK d \in Seq(Shapes) : d = Characters(q)
        BY CharactersTyped
      <4>2. Contains(s \o d, Replacement) <=> Contains(s, Replacement) \/ Contains(d, Replacement)
        BY <1>2, ContainsConcat
      <4> QED
        BY <1>1, <2>5, <3>3, <4>1, <4>2
    <3>5. c \o <<>> = c /\ <<>> \in Seq(Kinds)
      BY ConcatEmptySeq, EmptySeq
    <3>6. Held(<<>>, Characters(c), c)
      <4>1. c = c \o <<>> /\ <<>> \in Seq(Kinds)
        BY ONLY <3>5
      <4> QED
        BY <3>4, <4>1 DEF Held
    <3> QED
      BY ONLY <2>1, <2>3, <3>1, <3>2, <3>3, <3>6
  <2> QED
    BY <2>4, <2>5
<1> QED
  BY <1>3, <1>4

-----------------------------------------------------------------------------
(* A turn                                                                    *)

\* The streamer is called once for each token, which is never more than one here.
LEMMA FoldNone ==
    ASSUME NEW state
    PROVE  FoldLeft(Streamed, state, <<>>) = state
<1> DEFINE iter[s \in SUBSET (DOMAIN <<>>)] ==
               IF s = {} THEN state
               ELSE LET x == Max(s) IN Streamed(iter[s \ {x}], <<>>[x])
<1>1. FoldLeft(Streamed, state, <<>>) = iter[DOMAIN <<>>]
  BY DEF FoldLeft, MapThenFoldSet
<1> DEFINE Follows(g) ==
               g = [s \in SUBSET (DOMAIN <<>>) |->
                       IF s = {} THEN state
                       ELSE LET x == Max(s) IN Streamed(g[s \ {x}], <<>>[x])]
<1>2. DOMAIN <<>> = {}
  OBVIOUS
<1>3. \E g : Follows(g)
  <2> DEFINE g == [s \in {{}} |-> state]
  <2>1. SUBSET (DOMAIN <<>>) = {{}}
    BY <1>2
  <2>2. Follows(g)
    BY <2>1
  <2> HIDE DEF g, Follows
  <2> QED
    BY <2>2
<1>4. Follows(iter)
  BY <1>3
<1>5. iter[{}] = state
  <2> HIDE DEF iter
  <2> QED
    BY <1>4, <1>2
<1> HIDE DEF iter
<1> QED
  BY <1>1, <1>2, <1>5

LEMMA FoldOne ==
    ASSUME NEW state, NEW token
    PROVE  FoldLeft(Streamed, state, <<token>>) = Streamed(state, token)
<1> DEFINE iter[s \in SUBSET (DOMAIN <<token>>)] ==
               IF s = {} THEN state
               ELSE LET x == Max(s) IN Streamed(iter[s \ {x}], <<token>>[x])
           Follows(g) ==
               g = [s \in SUBSET (DOMAIN <<token>>) |->
                       IF s = {} THEN state
                       ELSE LET x == Max(s) IN Streamed(g[s \ {x}], <<token>>[x])]
<1>1. FoldLeft(Streamed, state, <<token>>) = iter[DOMAIN <<token>>]
  BY DEF FoldLeft, MapThenFoldSet
<1>2. DOMAIN <<token>> = {1} /\ <<token>>[1] = token /\ SUBSET {1} = {{}, {1}}
  <2>1. DOMAIN <<token>> = {1} /\ <<token>>[1] = token
    OBVIOUS
  <2>2. SUBSET {1} = {{}, {1}}
    OBVIOUS
  <2> QED
    BY <2>1, <2>2
<1>3. Max({1}) = 1
  BY DEF Max
<1>4. \E g : Follows(g)
  <2> DEFINE g == [s \in SUBSET {1} |-> IF s = {} THEN state ELSE Streamed(state, token)]
  <2>1. ASSUME NEW s \in SUBSET {1}
        PROVE  g[s] = IF s = {} THEN state
                      ELSE LET x == Max(s) IN Streamed(g[s \ {x}], <<token>>[x])
    <3>1. CASE s = {}
      BY <3>1
    <3>2. CASE s # {}
      <4>1. s = {1} /\ s \ {1} = {} /\ Max(s) = 1
        BY <1>3, <3>2
      <4>2. g[s \ {1}] = state
        BY <4>1
      <4> QED
        BY <1>2, <3>2, <4>1, <4>2
    <3> QED
      BY <3>1, <3>2
  <2>2. g = [s \in SUBSET {1} |-> g[s]]
    OBVIOUS
  <2> HIDE DEF g
  <2>3. Follows(g)
    BY <1>2, <2>1, <2>2
  <2> HIDE DEF Follows
  <2> QED
    BY <2>3
<1>5. Follows(iter)
  BY <1>4
<1> HIDE DEF iter
<1>6. iter[{}] = state
  BY <1>2, <1>5
<1>7. iter[{1}] = Streamed(state, token)
  <2>1. iter[{1}] = Streamed(iter[{1} \ {1}], <<token>>[1])
    BY <1>2, <1>3, <1>5
  <2>2. {1} \ {1} = {}
    OBVIOUS
  <2> QED
    BY <1>2, <1>6, <2>1, <2>2
<1> QED
  BY <1>1, <1>2, <1>7

\* A part of one element.
LEMMA SingleOut ==
    ASSUME NEW S, NEW s \in Seq(S), NEW k \in Nat, k >= 1, k <= Len(s)
    PROVE  SubSeq(s, k, k) = <<s[k]>>
<1>1. PICK n \in Nat : n = Len(s)
  BY LenProperties
<1>2. PICK x \in S : x = s[k]
  <2>1. k \in 1..Len(s)
    BY <1>1
  <2> QED
    BY <2>1, ElementOfSeq
<1>3. k \in Int /\ \A i \in k..k : s[i] \in S
  BY <1>2
<1>4. /\ SubSeq(s, k, k) \in Seq(S)
      /\ Len(SubSeq(s, k, k)) = IF k <= k THEN k - k + 1 ELSE 0
      /\ \A i \in 1..(k - k + 1) : SubSeq(s, k, k)[i] = s[k + i - 1]
  BY <1>3, SubSeqProperties
<1>5. k <= k /\ k - k + 1 = 1 /\ 1 \in 1..1 /\ k + 1 - 1 = k
  OBVIOUS
<1>6. PICK w \in Seq(S) : w = SubSeq(s, k, k)
  BY <1>4
<1>7. Len(w) = 1 /\ w[1] = x
  BY <1>2, <1>4, <1>5, <1>6
<1>8. PICK u \in Seq(S) : u = <<x>> /\ Len(u) = 1 /\ u[1] = x
  BY OneOf
<1>9. \A i \in 1..1 : w[i] = u[i]
  BY <1>7, <1>8
<1>10. w = u
  BY <1>7, <1>8, <1>9, SeqEqual
<1> QED
  BY <1>2, <1>6, <1>8, <1>10

\* A step of generate hands over one token or none.
LEMMA TokenAtATime ==
    ASSUME TypeOK, Next
    PROVE  \/ generated' = generated
           \/ \E token \in Tokens : generated' = Append(generated, token)
<1>1. CASE Emit
  BY <1>1 DEF Emit, Argmaxes
<1>2. CASE Accept
  <2>1. generated' = generated \o draft
    BY <1>2 DEF Accept
  <2>2. draft \in Seq(Tokens) /\ Len(draft) \in {0, 1} /\ generated \in Seq(Tokens)
    <3>1. draft \in Seq(Tokens) /\ Len(draft) <= 1 /\ generated \in Seq(Tokens)
      BY DEF TypeOK
    <3>2. PICK k \in Nat : k = Len(draft)
      BY <3>1, LenProperties
    <3>3. k \in {0, 1}
      BY <3>1, <3>2
    <3> QED
      BY <3>1, <3>2, <3>3
  <2>3. CASE Len(draft) = 0
    <3>1. draft = <<>>
      BY <2>2, <2>3, EmptySeq
    <3> QED
      BY <2>1, <2>2, <3>1, ConcatEmptySeq
  <2>4. CASE Len(draft) = 1
    <3>1. draft[1] \in Tokens /\ draft = <<draft[1]>>
      BY <2>2, <2>4
    <3>2. generated \o <<draft[1]>> = Append(generated, draft[1])
      BY <2>2, <3>1, AppendIsConcat
    <3> QED
      BY <2>1, <3>1, <3>2
  <2> QED
    BY <2>2, <2>3, <2>4
<1>3. CASE ~Emit /\ ~Accept
  BY <1>3 DEF Next, DecodeStep, Start, Prefill, ForwardOne, Draft, Verify, CatchUp, Reject, Raise
<1> QED
  BY <1>1, <1>2, <1>3

\* Before the answer is decoded for the history, what is not shown is held back;
\* afterwards it is shown.
TurnInv ==
    /\ reply = <<>> => Held(pending, shown, BytesOf(generated))
    /\ reply # <<>> => pc = "done" /\ shown = reply[1]

LEMMA TurnInit == ChatInit => TurnInv
<1> SUFFICES ASSUME ChatInit PROVE TurnInv
  OBVIOUS
<1>1. PICK e \in Seq(Kinds) : e = <<>>
  BY EmptySeq
<1>2. Characters(e) = <<>>
  <2>1. CharsOf(e) = <<>>
    BY <1>1 DEF CharsOf
  <2>2. FlattenSeq(<<>>) = <<>>
    BY DEF FlattenSeq
  <2> QED
    BY <2>1, <2>2, CharactersFlatten
<1>3. BytesOf(<<>>) = <<>>
  <2>1. PiecesOf(<<>>) = <<>>
    BY DEF PiecesOf
  <2>2. FlattenSeq(<<>>) = <<>>
    BY DEF FlattenSeq
  <2>3. <<>> \in Seq(Tokens)
    BY EmptySeq
  <2>4. BytesOf(<<>>) = FlattenSeq(PiecesOf(<<>>))
    BY <2>3, PiecesTyped
  <2> QED
    BY ONLY <2>1, <2>2, <2>4
<1>4. e \o e = e
  <2>1. e \o <<>> = e
    BY ConcatEmptySeq
  <2> QED
    BY ONLY <1>1, <2>1
<1>5. ~Contains(<<>>, Replacement)
  BY DEF Contains
<1>6. Held(e, <<>>, e)
  BY <1>2, <1>4, <1>5 DEF Held
<1> QED
  BY <1>1, <1>3, <1>6 DEF ChatInit, Init, TurnInv

LEMMA GenerateStep == ASSUME TypeOK, TurnInv, Generate PROVE TurnInv'
<1>1. reply = <<>>
  <2>1. pc # "done"
    BY DEF Generate, Next, DecodeStep, Start, Prefill, Emit, ForwardOne, Draft, Verify, Accept,
           CatchUp, Reject, Raise
  <2> QED
    BY <2>1 DEF TurnInv
<1>2. Held(pending, shown, BytesOf(generated)) /\ reply' = <<>>
  BY <1>1 DEF TurnInv, Generate
<1>3. PICK n \in Nat : n = Len(generated) /\ generated \in Seq(Tokens)
  BY LenProperties DEF TypeOK
<1> DEFINE state == [pending |-> pending, shown |-> shown]
           tokens == SubSeq(generated', Len(generated) + 1, Len(generated'))
<1>4. /\ pending' = FoldLeft(Streamed, state, tokens).pending
      /\ shown' = FoldLeft(Streamed, state, tokens).shown
  BY DEF Generate
<1>5. Held(pending', shown', BytesOf(generated'))
  <2>1. CASE generated' = generated
    <3>1. tokens = <<>>
      <4>1. SubSeq(generated, n + 1, n) = <<>>
        BY <1>3
      <4> QED
        BY <1>3, <2>1, <4>1
    <3>2. FoldLeft(Streamed, state, tokens) = state
      BY <3>1, FoldNone
    <3>3. pending' = pending /\ shown' = shown
      BY <1>4, <3>2
    <3>4. BytesOf(generated') = BytesOf(generated)
      BY <2>1
    <3> QED
      BY ONLY <1>2, <3>3, <3>4
  <2>2. ASSUME NEW token \in Tokens, generated' = Append(generated, token)
        PROVE  Held(pending', shown', BytesOf(generated'))
    <3>1. tokens = <<token>>
      <4>1. PICK more \in Seq(Tokens) : more = Append(generated, token) /\ Len(more) = n + 1
                                        /\ more[n + 1] = token
        BY <1>3, AppendProperties
      <4>2. SubSeq(more, n + 1, n + 1) = <<token>>
        <5>1. PICK k \in Nat : k = n + 1 /\ k >= 1 /\ k <= Len(more) /\ more[k] = token
          BY <4>1
        <5>2. SubSeq(more, k, k) = <<more[k]>>
          BY <5>1, SingleOut
        <5> QED
          BY <5>1, <5>2
      <4> QED
        BY <1>3, <2>2, <4>1, <4>2
    <3>2. PICK after : after = Streamed(state, token)
      OBVIOUS
    <3>3. FoldLeft(Streamed, state, tokens) = after
      BY <3>1, <3>2, FoldOne
    <3>4. pending' = after.pending /\ shown' = after.shown
      BY <1>4, <3>3
    <3>5. Held(after.pending, after.shown, BytesOf(generated) \o BytesOfToken(token))
      BY <1>2, <3>2, StreamStep
    <3>6. BytesOf(generated') = BytesOf(generated) \o BytesOfToken(token)
      <4>1. BytesOf(Append(generated, token)) = BytesOf(generated) \o BytesOfToken(token)
        BY <1>3, BytesNext
      <4> QED
        BY <2>2, <4>1
    <3> QED
      BY ONLY <3>4, <3>5, <3>6
  <2>3. Next
    BY DEF Generate
  <2> QED
    BY <2>1, <2>2, <2>3, TokenAtATime
<1> QED
  BY <1>2, <1>5 DEF TurnInv

LEMMA ShownSplit ==
    ASSUME NEW p, NEW s, NEW b, Held(p, s, b)
    PROVE  s \o Characters(p) = Characters(b) /\ ~Contains(s, Replacement)
<1>1. PICK a \in Seq(Kinds) : b = a \o p /\ s = Characters(a) /\ ~Contains(s, Replacement)
  BY DEF Held
<1>2. p \in Seq(Kinds)
  BY DEF Held
<1>3. Characters(a \o p) = Characters(a) \o Characters(p)
  BY <1>1, <1>2, CharactersSplit
<1> QED
  BY ONLY <1>1, <1>3

LEMMA FinishStep == ASSUME TurnInv, Finish PROVE TurnInv'
<1>1. Held(pending, shown, BytesOf(generated))
  BY DEF TurnInv, Finish
<1>2. shown' = Characters(BytesOf(generated))
  BY <1>1, ShownSplit DEF Finish
<1>3. reply' = <<Characters(BytesOf(generated))>> /\ pc' = "done"
  BY DEF Finish, vars
<1>4. reply' # <<>> /\ reply'[1] = Characters(BytesOf(generated))
  BY <1>3
<1> QED
  BY <1>2, <1>3, <1>4 DEF TurnInv

LEMMA TurnNext == TypeOK /\ TurnInv /\ [ChatNext]_<<vars, chat>> => TurnInv'
<1> SUFFICES ASSUME TypeOK, TurnInv, [ChatNext]_<<vars, chat>> PROVE TurnInv'
  OBVIOUS
<1>1. CASE Generate
  BY <1>1, GenerateStep
<1>2. CASE Finish
  BY <1>2, FinishStep
<1>3. CASE UNCHANGED <<vars, chat>>
  <2>1. UNCHANGED <<pending, shown, reply, pc, generated>>
    BY <1>3 DEF vars, chat
  <2>2. BytesOf(generated') = BytesOf(generated)
    BY <2>1
  <2> QED
    BY <2>1, <2>2 DEF TurnInv
<1> QED
  BY <1>1, <1>2, <1>3 DEF ChatNext

\* A turn of the chat is a request of generate: what is proved of the one holds of
\* the other.
THEOREM TurnGenerates == ChatSpec => Spec
<1>1. ChatInit => Init
  BY DEF ChatInit
<1>2. [ChatNext]_<<vars, chat>> => [Next]_vars
  BY DEF ChatNext, Generate, Finish, chat
<1> QED
  BY <1>1, <1>2, PTL DEF ChatSpec, Spec

\* In a turn what is not shown yet is held back, until it is shown.
THEOREM TurnInvariance == ChatSpec => []TurnInv
<1>1. ChatSpec => []TypeOK
  BY TurnGenerates, TypeCorrect, PTL
<1> QED
  BY <1>1, TurnInit, TurnNext, PTL DEF ChatSpec

\* Wherever the tokens cut the characters, what the user has seen at the end of a
\* turn is the answer that goes into the history, and before that a beginning of it
\* without a torn character.
THEOREM ShownCorrect == ChatSpec => []ShownIsTheText
<1>1. TurnInv => ShownIsTheText
  <2> SUFFICES ASSUME TurnInv PROVE ShownIsTheText
    OBVIOUS
  <2>1. CASE reply = <<>>
    <3>1. Held(pending, shown, BytesOf(generated))
      BY <2>1 DEF TurnInv
    <3> QED
      BY <2>1, <3>1, ShownSplit DEF ShownIsTheText
  <2>2. CASE reply # <<>>
    BY <2>2 DEF TurnInv, ShownIsTheText
  <2> QED
    BY <2>1, <2>2
<1> QED
  BY <1>1, TurnInvariance, PTL

=============================================================================
