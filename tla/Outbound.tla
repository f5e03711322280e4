------------------------------ MODULE Outbound ------------------------------
(***************************************************************************)
(* internal/channel/chunking.go and the sending of an answer through       *)
(* modules/channel/telegram/convert_outbound.go.  The text is a sequence   *)
(* of lines; of a line only its bytes matter, as "begins a rune" or not,   *)
(* and whether it is a fence.  A piece is a part of a line, a part is a    *)
(* sequence of pieces joined by newlines, which becomes one message of     *)
(* Telegram's, and an outbound message is a sequence of parts.             *)
(***************************************************************************)
EXTENDS Naturals, Sequences, SequencesExt

CONSTANTS
    Texts,     \* answers: sequences of lines [bytes, fence]
    MaxLength  \* MaxMessageLength

\* A line is runes, none of them longer than MaxLength.
Runic(bytes) ==
    /\ bytes # <<>> => bytes[1]
    /\ \A from \in 0..(Len(bytes) - MaxLength) : \E k \in 1..MaxLength : bytes[from + k]

ASSUME OutboundAssumption ==
    /\ MaxLength \in Nat \ {0}
    /\ Texts \subseteq Seq([bytes : Seq(BOOLEAN), fence : BOOLEAN])
    /\ \A t \in Texts : \A i \in 1..Len(t) : Runic(t[i].bytes)

VARIABLES
    lines,  \* the answer's text
    out,    \* messages still to send
    chat,   \* the chat sendChunk sends to: the message's, or where it has moved
    got     \* parts the chat has received

outvars == <<lines, out, chat, got>>

Bytes(i) == lines[i].bytes
Piece(i) == [line |-> i, from |-> 0, to |-> Len(Bytes(i))]
Whole == [i \in DOMAIN lines |-> Piece(i)]

\* The bytes of a piece and of a part, each as its line and its place in it; and
\* len of the pieces joined by newlines.
Run(p) == [k \in 1..(p.to - p.from) |-> <<p.line, p.from + k>>]
AllBytes(part) == FlattenSeq([k \in DOMAIN part |-> Run(part[k])])
Size(part) == Len(AllBytes(part)) + (IF part = <<>> THEN 0 ELSE Len(part) - 1)

\* The cut walks back to the beginning of a rune.
CutAt(i, from) ==
    LET starts == {k \in 1..MaxLength : Bytes(i)[from + k + 1]}
    IN  from + (IF starts = {} THEN MaxLength ELSE Max(starts))

\* forceSplit.
ForceSplit(i) ==
    LET n == Len(Bytes(i))
        rest[from \in 0..n] ==
            IF n - from > MaxLength
              THEN << <<[line |-> i, from |-> from, to |-> CutAt(i, from)]>> >> \o rest[CutAt(i, from)]
              ELSE IF n > from THEN << <<[line |-> i, from |-> from, to |-> n]>> >> ELSE <<>>
    IN  rest[0]

\* flush of splitText, whose state is the chunks, the current one, and the next line.
Flushed(st) == IF st.cur = <<>> THEN st.chunks ELSE Append(st.chunks, st.cur)

\* Mutant: the newline that joins two lines is not counted.
AppendPieceUncounted(st, part) ==
    LET room == Size(st.cur) + Size(part) <= MaxLength
        cur  == IF room THEN st.cur ELSE <<>>
    IN  [st EXCEPT !.chunks = IF room THEN @ ELSE Flushed(st),
                   !.cur = IF cur = <<>> /\ Size(part) = 0 THEN <<>> ELSE cur \o part]

\* appendPiece, and appendLine of a line that fits.  A blank line that would
\* begin a chunk leaves no trace.
AppendPiece(st, part) ==
    LET room == Size(st.cur \o part) <= MaxLength
        cur  == IF room THEN st.cur ELSE <<>>
    IN  [st EXCEPT !.chunks = IF room THEN @ ELSE Flushed(st),
                   !.cur = IF cur = <<>> /\ Size(part) = 0 THEN <<>> ELSE cur \o part]

AppendLine(st, i) ==
    IF Len(Bytes(i)) > MaxLength
      THEN [st EXCEPT !.chunks = Flushed(st) \o ForceSplit(i), !.cur = <<>>]
      ELSE AppendPiece(st, <<Piece(i)>>)

\* findFenceEnd: the fences after line i; the first one closes the block.
FencesAfter(i) == {k \in DOMAIN lines : k > i /\ lines[k].fence}
Block(i, end) == SubSeq(Whole, i, end)

KeepsBlock(i) ==
    /\ lines[i].fence
    /\ FencesAfter(i) # {}
    /\ Size(Block(i, Min(FencesAfter(i)))) <= MaxLength

\* splitText takes line i, or a whole block; a line of a block it took is passed over.
SplitStep(st, i) ==
    IF i < st.next THEN st
    ELSE IF KeepsBlock(i)
      THEN [AppendPiece(st, Block(i, Min(FencesAfter(i)))) EXCEPT !.next = Min(FencesAfter(i)) + 1]
      ELSE AppendLine(st, i)

SplitText ==
    LET after[i \in 0..Len(lines)] ==
            IF i = 0 THEN [chunks |-> <<>>, cur |-> <<>>, next |-> 1]
            ELSE CHOOSE r \in {SplitStep(st, i) : st \in {after[i - 1]}} : TRUE
    IN  Flushed(after[Len(lines)])

\* SplitMessage: parts that fit together stay in one outbound message.
GroupStep(st, part) ==
    IF st.msg # <<>> /\ st.len + 1 + Size(part) > MaxLength
      THEN [done |-> Append(st.done, st.msg), msg |-> <<part>>, len |-> Size(part)]
      ELSE [st EXCEPT !.msg = Append(@, part),
                      !.len = IF st.msg = <<>> THEN Size(part) ELSE @ + 1 + Size(part)]

Grouped(parts) ==
    LET after[k \in 0..Len(parts)] ==
            IF k = 0 THEN [done |-> <<>>, msg |-> <<>>, len |-> 0]
            ELSE CHOOSE r \in {GroupStep(st, parts[k]) : st \in {after[k - 1]}} : TRUE
    IN  Append(after[Len(parts)].done, after[Len(parts)].msg)

SplitMessage ==
    IF Size(Whole) <= MaxLength THEN << <<Whole>> >>
    ELSE CHOOSE r \in {IF parts = <<>> THEN << <<Whole>> >> ELSE Grouped(parts) : parts \in {SplitText}} : TRUE

-----------------------------------------------------------------------------
OutInit(text) ==
    /\ lines = text
    /\ out = <<>>
    /\ chat = "old"
    /\ got = <<>>

\* sendOutbound.
Send ==
    /\ out' = SplitMessage
    /\ UNCHANGED <<lines, chat, got>>

\* sendChunk sends the next part of a message.  The next message begins with the
\* chat's old address again.
PartSent ==
    /\ out # <<>>
    /\ got' = Append(got, Head(Head(out)))
    /\ IF Len(Head(out)) > 1
         THEN out' = [out EXCEPT ![1] = Tail(@)] /\ UNCHANGED chat
         ELSE out' = Tail(out) /\ chat' = "old"
    /\ UNCHANGED lines

\* The group has become a supergroup: the part is sent again, to its new address.
ChatMoved ==
    /\ out # <<>> /\ chat = "old"
    /\ chat' = "new"
    /\ UNCHANGED <<lines, out, got>>

\* Any other error ends the delivery: what is left is not sent.
PartFails ==
    /\ out # <<>>
    /\ out' = <<>>
    /\ chat' = "old"
    /\ UNCHANGED <<lines, got>>

-----------------------------------------------------------------------------
\* The code blocks: every other fence opens one, which the next one closes.
Opens(i) == lines[i].fence /\ Cardinality({k \in 1..i : lines[k].fence}) % 2 = 1 /\ FencesAfter(i) # {}
Fits(i) == Size(Block(i, Min(FencesAfter(i)))) <= MaxLength

\* Delivered: the user has the text, every byte once and in order, in parts that
\* are not too long, no rune cut in two, and a code block that fits within one
\* part.  Two exceptions: after a block that does not fit, fences are paired the
\* wrong way round (splitText takes the fence that closes it for an opening one);
\* a text of blank lines only is sent as it is, however long.
Delivered ==
    /\ AllBytes(FlattenSeq(got)) = AllBytes(Whole)
    /\ AllBytes(Whole) # <<>> => \A k \in DOMAIN got : Size(got[k]) <= MaxLength
    /\ \A k \in DOMAIN got : \A p \in ToSet(got[k]) : p.from = p.to \/ Bytes(p.line)[p.from + 1]
    /\ \A i \in DOMAIN lines :
         Opens(i) /\ (\A k \in 1..i : Opens(k) => Fits(k)) =>
             \E k \in DOMAIN got : ToSet(Block(i, Min(FencesAfter(i)))) \subseteq ToSet(got[k])
=============================================================================
