------------------------------ MODULE ChatTurn ------------------------------
(***************************************************************************)
(* One turn of livglm (_one_turn): generate hands every token to a streamer *)
(* as soon as it has it, two at a time after an accepted draft; when it     *)
(* returns, the streamer shows what it held back, and the answer for the    *)
(* history is decoded from all tokens at once.  A token is a piece of       *)
(* UTF-8, which may begin or end within a character.                        *)
(*                                                                          *)
(* Bytes are of three kinds: a character of its own, the first and the      *)
(* second byte of a longer one.                                             *)
(***************************************************************************)
EXTENDS SpeculativeDecode, SequencesExt

CONSTANTS
    Special, \* tokenizer.all_special_ids
    Piece    \* the bytes of each token

ASSUME PieceAssumption ==
    /\ Special \subseteq Tokens
    /\ Piece \in [Tokens -> Seq({"ascii", "lead", "continuation"})]

VARIABLES
    pending, \* bytes the streamer holds back
    shown,   \* characters printed
    reply    \* the answer for the history, as a sequence of at most one

chat == <<pending, shown, reply>>

\* U+FFFD, which the decoder returns for a byte out of place.
Replacement == "replacement"

\* The decoder of a byte-level tokenizer.
Characters(bytes) ==
    LET IsAt(i, kind) == i \in DOMAIN bytes /\ bytes[i] = kind
        At(i) == CASE IsAt(i, "ascii") -> <<"ascii">>
                   [] IsAt(i, "lead") /\ IsAt(i + 1, "continuation") -> <<"long">>
                   [] IsAt(i, "continuation") /\ IsAt(i - 1, "lead") -> <<>>
                   [] OTHER -> <<Replacement>>
    IN  FlattenSeq([i \in DOMAIN bytes |-> At(i)])

BytesOf(tokens) == FlattenSeq([i \in DOMAIN tokens |->
                       IF tokens[i] \in Special THEN <<>> ELSE Piece[tokens[i]]])

\* _IncrementalStreamer.__call__: a special token is not shown, and bytes that do
\* not decode yet wait for more.
Streamed(state, token) ==
    LET bytes == state.pending \o Piece[token]
        decoded == Characters(bytes)
    IN  IF token \in Special THEN state
        ELSE IF Contains(decoded, Replacement) THEN [state EXCEPT !.pending = bytes]
        ELSE [pending |-> <<>>, shown |-> state.shown \o decoded]

ChatInit == Init /\ pending = <<>> /\ shown = <<>> /\ reply = <<>>

\* A step of generate, which calls on_token for each token it appends.
Generate ==
    /\ Next
    /\ LET tokens == SubSeq(generated', Len(generated) + 1, Len(generated'))
           state == FoldLeft(Streamed, [pending |-> pending, shown |-> shown], tokens)
       IN  pending' = state.pending /\ shown' = state.shown
    /\ UNCHANGED reply

\* Mutated: what was held back is not shown.
FinishShowingNothing ==
    /\ pc = "done" /\ reply = <<>>
    /\ pending' = <<>>
    /\ reply' = <<Characters(BytesOf(generated))>>
    /\ UNCHANGED <<vars, shown>>

\* generate has returned: finish, and the text for the history.
Finish ==
    /\ pc = "done" /\ reply = <<>>
    /\ shown' = shown \o Characters(pending)
    /\ pending' = <<>>
    /\ reply' = <<Characters(BytesOf(generated))>>
    /\ UNCHANGED vars

ChatNext == Generate \/ Finish

ChatSpec == ChatInit /\ [][ChatNext]_<<vars, chat>>

-----------------------------------------------------------------------------
(* Properties                                                                *)

\* What the user has seen when the turn ends is the answer that goes into the
\* history, wherever the tokens cut the characters; before that it is a beginning
\* of the answer without a torn character, also when generate raises, and what is
\* not shown yet is held back (_IncrementalStreamer against tokenizer.decode).
ShownIsTheText ==
    /\ reply # <<>> => shown = reply[1]
    /\ reply = <<>> =>
        /\ ~Contains(shown, Replacement)
        /\ shown \o Characters(pending) = Characters(BytesOf(generated))

=============================================================================
