----------------------------- MODULE MCStreaming -----------------------------
(***************************************************************************)
(* Streaming for TLC: both providers, the first also in a Chain; and       *)
(* answers of up to four lines, and longer ones with code blocks.          *)
(***************************************************************************)
EXTENDS Streaming

MCSetups ==
    {[ws |-> FALSE, chained |-> FALSE, streams |-> TRUE],
     [ws |-> TRUE,  chained |-> FALSE, streams |-> TRUE],
     [ws |-> FALSE, chained |-> TRUE,  streams |-> TRUE]}

\* A blank line, a short one, one of two-byte runes, one that is too long, a fence.
Line(bytes) == [bytes |-> bytes, fence |-> FALSE]
Blank == Line(<<>>)
Short == Line(<<TRUE>>)
Runes == Line(<<TRUE, FALSE, TRUE, FALSE>>)
Long == Line(<<TRUE, TRUE, FALSE, TRUE, FALSE, TRUE>>)
Fence == [bytes |-> <<TRUE>>, fence |-> TRUE]

MCTexts ==
    SeqOf({Blank, Short, Runes, Long, Fence}, 4) \cup
    {<<Short, Fence, Blank, Fence, Short, Fence, Fence>>,
     <<Fence, Runes, Fence, Fence, Blank, Fence>>,
     <<Blank, Blank, Blank, Blank, Blank, Blank>>}
=============================================================================
