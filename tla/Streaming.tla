------------------------------ MODULE Streaming ------------------------------
(***************************************************************************)
(* One streamed answer, from the provider's connection to the user's       *)
(* screen: parseSSEStream or readLoop, the goroutine that closes the       *)
(* connection, Chain.wrapStream, Loop.RunStream, Pipeline.executeStreaming,*)
(* Dispatcher.SendStream and Telegram.SendStream are goroutines joined by  *)
(* bounded channels.  Pieces of text are numbered as the model sends them. *)
(* An answer that was not streamed, or comes from the loop's Run, is sent  *)
(* as Outbound says.                                                       *)
(***************************************************************************)
EXTENDS Outbound

CONSTANTS
    Setups,        \* initial settings: records [ws, chained, streams]
    Cap,           \* capacity of the channels of chunks and of events
    TextCap,       \* capacity of textCh
    MaxIterations, \* LoopConfig.MaxIterations
    MaxPieces,     \* bound: pieces of text in all
    MaxShown,      \* MaxMessageLength, in pieces
    MaxFails       \* flush errors that disable streaming

ASSUME StreamingAssumption ==
    /\ Setups \subseteq [ws : BOOLEAN, chained : BOOLEAN, streams : BOOLEAN]
    /\ {Cap, TextCap, MaxIterations, MaxPieces, MaxShown, MaxFails} \subseteq Nat \ {0}

Stage == {"read", "body", "chain"}

VARIABLES
    setup,   \* the provider is a websocket; it is in a Chain; the channel streams
    outer,   \* the message's context
    inner,   \* the context of RunStream, with its timeout
    on,      \* stage -> its goroutine runs
    q,       \* stage -> the chunks in the channel it sends on
    sent,    \* pieces the model has sent, and those of the last completion
    lp,      \* where RunStream's goroutine is
    iter,    \* iterations begun
    content, \* content of the current completion
    tools,   \* the completion asks for tools
    ev,      \* the events channel
    pl,      \* where executeStreaming is
    built,   \* its builder
    final,   \* its final event, a response or none
    text,    \* textCh
    snd,     \* where SendStream is
    buf,     \* its buffer
    shown,   \* what the placeholder shows
    fails,   \* consecutiveFlushErrors
    sr,      \* sendResult: streamed, or not
    reply,   \* what was sent as a message of its own
    result,  \* how the turn ended
    ghost    \* history variable: why text may be missing

provider == <<on, q, sent>>
loop == <<lp, iter, content, tools>>
sender == <<snd, buf, shown, fails, sr>>
pipe == <<pl, built, final, reply, result, outvars>>
streamVars == <<setup, outer, inner, provider, loop, ev, pipe, text, sender, ghost>>

None == <<0>>  \* no final event; pieces are positive
Chunk(t, n) == [t |-> t, n |-> n]
Outlet == IF setup.chained THEN "chain" ELSE "body"
Room(c) == Len(q[c]) < Cap
Put(c, x) == [q EXCEPT ![c] = Append(@, x)]
Note(why) == ghost' = ghost \cup {why}

StartTurn(at, complete) ==
    /\ setup \in Setups
    /\ outer = "live"
    /\ inner = at.inner
    /\ on = [c \in Stage |-> FALSE]
    /\ q = [c \in Stage |-> <<>>]
    /\ sent = [all |-> 0, last |-> <<>>, ended |-> complete]
    /\ lp = at.lp
    /\ iter = 0
    /\ content = <<>>
    /\ tools = FALSE
    /\ ev = <<>>
    /\ pl = at.pl
    /\ built = <<>>
    /\ final = None
    /\ text = <<>>
    /\ snd = at.snd
    /\ buf = <<>>
    /\ shown = <<>>
    /\ fails = 0
    /\ sr = FALSE
    /\ reply = None
    /\ result = "none"
    /\ ghost = {}

\* executeStreaming begins, or Loop.Run has returned an answer of many lines.
StreamInit ==
    \/ /\ StartTurn([inner |-> "live", lp |-> "top", pl |-> "events", snd |-> "start"], FALSE)
       /\ OutInit(<<>>)
    \/ /\ StartTurn([inner |-> "ended", lp |-> "off", pl |-> "wait", snd |-> "done"], TRUE)
       /\ setup = CHOOSE x \in Setups : TRUE
       /\ \E t \in Texts : OutInit(t)

-----------------------------------------------------------------------------
\* Contexts.

OuterEnds ==
    /\ outer = "live" /\ pl # "ended"
    /\ outer' = "ended"
    /\ inner' = "ended"
    /\ UNCHANGED <<setup, provider, loop, ev, pipe, text, sender, ghost>>

Timeout ==
    /\ inner = "live"
    /\ inner' = "ended"
    /\ UNCHANGED <<setup, outer, provider, loop, ev, pipe, text, sender, ghost>>

-----------------------------------------------------------------------------
\* The provider's goroutines.

downstream == <<setup, outer, inner, loop, ev, pipe, text, sender>>

ReadPiece ==
    /\ on["read"] /\ Room("read")
    /\ sent.all < MaxPieces
    /\ sent' = [sent EXCEPT !.all = @ + 1, !.last = Append(@, sent.all + 1)]
    /\ q' = Put("read", Chunk("text", sent.all + 1))
    /\ UNCHANGED <<downstream, on, ghost>>

ReaderExits(queue) ==
    /\ on' = [on EXCEPT !["read"] = FALSE]
    /\ q' = queue
    /\ UNCHANGED downstream

\* The tool calls that were accumulated are sent last, unless the context ends.
ReadLast(calls) ==
    \/ /\ calls => Room("read")
       /\ ReaderExits(IF calls THEN Put("read", Chunk("tools", 0)) ELSE q)
       /\ UNCHANGED ghost
    \/ /\ calls /\ inner = "ended"
       /\ ReaderExits(q)
       /\ Note("cut")

\* [DONE] or response.completed.
ReadDone(calls) ==
    /\ on["read"]
    /\ sent' = [sent EXCEPT !.ended = TRUE]
    /\ ReadLast(calls)

\* A broken connection, a chunk that does not parse, an error event.
ReadError ==
    /\ on["read"] /\ Room("read")
    /\ ReaderExits(Put("read", Chunk("err", 0)))
    /\ UNCHANGED <<sent, ghost>>

\* The body of an SSE stream just ends: as good as [DONE].
ReadEOF(calls) ==
    /\ on["read"] /\ ~setup.ws
    /\ calls => Room("read")
    /\ ReaderExits(IF calls THEN Put("read", Chunk("tools", 0)) ELSE q)
    /\ UNCHANGED sent
    /\ Note("eof")

\* The context ends: parseSSEStream leaves its error or not, and so does
\* readLoop, whose emit may take ctx.Done() when the context ended after it
\* had looked.
ReadCancelled ==
    /\ on["read"] /\ inner = "ended"
    /\ \/ Room("read") /\ ReaderExits(Put("read", Chunk("err", 0))) /\ UNCHANGED ghost
       \/ ReaderExits(q) /\ Note("cut")
    /\ UNCHANGED sent

Up(c) == IF c = "body" THEN "read" ELSE "body"

\* A chunk goes from one channel to the next.
Relay(c) ==
    /\ on[c] /\ q[Up(c)] # <<>> /\ Room(c)
    /\ q' = [q EXCEPT ![Up(c)] = Tail(@), ![c] = Append(@, Head(q[Up(c)]))]
    /\ UNCHANGED <<downstream, on, sent, ghost>>

RelayEnds(c) ==
    /\ on[c] /\ q[Up(c)] = <<>> /\ ~on[Up(c)]
    /\ on' = [on EXCEPT ![c] = FALSE]
    /\ UNCHANGED <<downstream, q, sent, ghost>>

\* Mutant: the relay does not watch the context.
RelayNeverCancelled ==
    /\ on["body"] /\ inner = "ended" /\ q["read"] # <<>>
    /\ FALSE
    /\ UNCHANGED streamVars

\* The relay that closes the connection gives up with a chunk in its hand; the
\* one of the websocket leaves the error if it can.  wrapStream never does.
RelayCancelled ==
    /\ on["body"] /\ inner = "ended" /\ q["read"] # <<>>
    /\ on' = [on EXCEPT !["body"] = FALSE]
    /\ IF setup.ws /\ Room("body")
         THEN q' = [Put("body", Chunk("err", 0)) EXCEPT !["read"] = Tail(@)] /\ UNCHANGED ghost
         ELSE q' = [q EXCEPT !["read"] = Tail(@)] /\ Note("cut")
    /\ UNCHANGED <<downstream, sent>>

-----------------------------------------------------------------------------
\* RunStream.

upstream == <<setup, outer, sent, pipe, text, sender>>

\* The goroutine returns: its context is cancelled and the events are closed.
LoopReturns ==
    /\ lp' = "off"
    /\ inner' = "ended"
    /\ UNCHANGED <<iter, content, tools>>

\* emitStreamEvent gives up only when there is no room and the context ended.
\* Returning with chunks left abandons the goroutines above.
Emit(x) == Len(ev) < Cap /\ ev' = Append(ev, x)
Abandon == Len(ev) = Cap /\ inner = "ended" /\ LoopReturns /\ Note("cut") /\ UNCHANGED ev

EmitAndReturn(x) ==
    \/ Emit(x) /\ LoopReturns /\ UNCHANGED ghost
    \/ Abandon

LoopTop ==
    /\ lp = "top"
    /\ \/ /\ iter = MaxIterations
          /\ EmitAndReturn(Chunk("err", 0))
          /\ UNCHANGED on
       \/ /\ iter < MaxIterations /\ inner = "ended"
          /\ IF Len(ev) < Cap THEN ev' = Append(ev, Chunk("err", 0)) /\ UNCHANGED ghost
                              ELSE UNCHANGED ev /\ Note("cut")
          /\ LoopReturns
          /\ UNCHANGED on
       \/ /\ iter < MaxIterations /\ inner = "live"   \* provider.Stream fails
          /\ EmitAndReturn(Chunk("err", 0))
          /\ UNCHANGED on
    /\ UNCHANGED <<upstream, q>>

OpenStream ==
    /\ lp = "top" /\ iter < MaxIterations /\ inner = "live"
    /\ on' = [c \in Stage |-> c # "chain" \/ setup.chained]
    /\ sent' = [sent EXCEPT !.last = <<>>, !.ended = FALSE]
    /\ lp' = "read"
    /\ iter' = iter + 1
    /\ content' = <<>>
    /\ tools' = FALSE
    /\ UNCHANGED <<setup, outer, inner, q, ev, pipe, text, sender, ghost>>

First == Head(q[Outlet])
Take == q' = [q EXCEPT ![Outlet] = Tail(@)]

LoopText ==
    /\ lp = "read" /\ q[Outlet] # <<>> /\ First.t = "text"
    /\ Take
    /\ \/ /\ Emit(First)
          /\ content' = Append(content, First.n)
          /\ UNCHANGED <<lp, iter, tools, inner, ghost>>
       \/ Abandon
    /\ UNCHANGED <<upstream, on>>

LoopTools ==
    /\ lp = "read" /\ q[Outlet] # <<>> /\ First.t = "tools"
    /\ Take
    /\ tools' = TRUE
    /\ UNCHANGED <<upstream, inner, on, lp, iter, content, ev, ghost>>

\* Mutant: an error in the stream only ends it.
LoopErrorIgnored ==
    /\ lp = "read" /\ q[Outlet] # <<>> /\ First.t = "err"
    /\ Take
    /\ UNCHANGED <<upstream, inner, on, loop, ev, ghost>>

LoopError ==
    /\ lp = "read" /\ q[Outlet] # <<>> /\ First.t = "err"
    /\ Take
    /\ lp' = "drain"
    /\ UNCHANGED <<upstream, inner, on, iter, content, tools, ev, ghost>>

\* The rest of the stream is read, so that nobody is left blocked.
Drain ==
    /\ lp = "drain"
    /\ IF q[Outlet] # <<>> \/ on[Outlet]
         THEN q[Outlet] # <<>> /\ Take /\ UNCHANGED <<inner, loop, ev, ghost>>
         ELSE EmitAndReturn(Chunk("err", 0)) /\ UNCHANGED q
    /\ UNCHANGED <<upstream, on>>

\* The stream is closed: a guard refuses to go on, the answer is complete, or
\* the tools run and the model is asked again.
LoopClosed ==
    /\ lp = "read" /\ q[Outlet] = <<>> /\ ~on[Outlet]
    /\ \/ EmitAndReturn(Chunk("err", 0))   \* token budget, loop detection
       \/ /\ ~tools
          /\ \/ Emit([t |-> "done", n |-> content]) /\ LoopReturns /\ UNCHANGED ghost
             \/ Abandon
       \/ /\ tools
          /\ \/ /\ Emit(Chunk("tool", 0))
                /\ lp' = "top"
                /\ UNCHANGED <<iter, content, tools, inner, ghost>>
             \/ Abandon
    /\ UNCHANGED <<upstream, provider>>

-----------------------------------------------------------------------------
\* executeStreaming.

around == <<setup, outer, inner, provider, loop>>

PipeEvent ==
    /\ pl = "events" /\ ev # <<>>
    /\ ev' = Tail(ev)
    /\ LET x == Head(ev)
       IN  /\ built' = IF x.t = "text" THEN Append(built, x.n) ELSE built
           /\ text' = IF x.t = "text" /\ Len(text) < TextCap THEN Append(text, x.n) ELSE text
           /\ ghost' = IF x.t = "text" /\ Len(text) = TextCap THEN ghost \cup {"dropped"} ELSE ghost
           /\ final' = IF x.t = "done" THEN x.n ELSE final
           /\ result' = IF x.t = "err" THEN "error" ELSE result
    /\ UNCHANGED <<around, pl, reply, outvars, sender>>

PipeClose ==
    /\ pl = "events" /\ ev = <<>> /\ lp = "off"
    /\ pl' = "wait"
    /\ UNCHANGED <<around, ev, built, final, reply, result, outvars, text, sender, ghost>>

Response == IF final # None THEN final ELSE built

\* After SendStream has returned: an error message, the full text as a message
\* of its own when nothing was streamed, a corrective message when a hook
\* changed the text; each send may fail.
PipeEnds ==
    /\ pl = "wait" /\ snd = "done" /\ (sr \/ result = "error")
    /\ pl' = "ended"
    /\ \/ /\ result = "error"
          /\ UNCHANGED <<reply, result, ghost>>
       \/ /\ result = "none" /\ sr
          /\ result' = "ok"
          /\ \/ UNCHANGED <<reply, ghost>>
             \/ reply' = Response /\ Note("corrected")
             \/ UNCHANGED reply /\ Note("corrected")
    /\ UNCHANGED <<around, ev, built, final, outvars, text, sender>>

PipeSends ==
    /\ pl = "wait" /\ snd = "done" /\ result = "none" /\ ~sr
    /\ pl' = "send"
    /\ Send
    /\ UNCHANGED <<around, ev, built, final, reply, result, text, sender, ghost>>

PipeSending ==
    /\ pl = "send"
    /\ \/ /\ outer = "live" /\ PartSent
          /\ IF out' = <<>>
               THEN pl' = "ended" /\ reply' = Response /\ result' = "ok"
               ELSE UNCHANGED <<pl, reply, result>>
       \/ outer = "live" /\ ChatMoved /\ UNCHANGED <<pl, reply, result>>
       \/ PartFails /\ pl' = "ended" /\ result' = "undelivered" /\ UNCHANGED reply
    /\ UNCHANGED <<around, ev, built, final, text, sender, ghost>>

-----------------------------------------------------------------------------
\* Dispatcher.SendStream and Telegram.SendStream.

rest == <<outer, inner, provider, loop, ev, pipe>>

SendResult(streamed) == snd' = "done" /\ sr' = streamed

\* No such channel, no streaming, no placeholder: nothing is streamed.
SendRefused ==
    /\ snd = "start"
    /\ SendResult(FALSE)
    /\ UNCHANGED <<setup, rest, text, buf, shown, fails, ghost>>

SendPlaceholder ==
    /\ snd = "start" /\ setup.streams /\ outer = "live"
    /\ snd' = "loop"
    /\ UNCHANGED <<setup, rest, text, buf, shown, fails, sr, ghost>>

Cut(b) == SubSeq(b, 1, IF Len(b) > MaxShown THEN MaxShown ELSE Len(b))

\* flush: an edit that succeeds, at once or after the wait a rate limit asks
\* for; one that fails; or nothing, as the text is already shown.  A failure
\* counts unless it was a retry or the wait; enough in a row disable streaming.
FlushOK(b) ==
    /\ outer = "live"
    /\ shown' = Cut(b)
    /\ fails' = 0
    /\ UNCHANGED setup

FlushFails(b) ==
    /\ b # shown
    /\ \/ UNCHANGED <<setup, fails>>
       \/ /\ fails' = IF fails < MaxFails THEN fails + 1 ELSE fails
          /\ setup' = [setup EXCEPT !.streams = @ /\ fails' < MaxFails]
    /\ UNCHANGED shown

NoFlush == UNCHANGED <<setup, shown, fails>>

Flush(b) == FlushOK(b) \/ FlushFails(b) \/ (Cut(b) = shown /\ NoFlush)

\* A chunk past the limit is shown once, truncated; later ones are drained.
SendChunk ==
    /\ snd = "loop" /\ text # <<>>
    /\ text' = Tail(text)
    /\ IF Len(buf) > MaxShown
         THEN NoFlush /\ UNCHANGED <<buf, ghost>>
         ELSE LET b == Append(buf, Head(text))
              IN  /\ buf' = b
                  /\ IF Len(b) > MaxShown
                       THEN Flush(b) /\ Note("overflow")
                       ELSE (Flush(b) \/ NoFlush) /\ UNCHANGED ghost
    /\ UNCHANGED <<rest, snd, sr>>

SendTick ==
    /\ snd = "loop" /\ shown # Cut(buf)
    /\ Flush(buf)
    /\ UNCHANGED <<rest, text, snd, buf, sr, ghost>>

\* Mutant: what the last edit left out is not shown.
SendClosedNoFlush ==
    /\ snd = "loop" /\ text = <<>> /\ pl = "wait"
    /\ NoFlush
    /\ SendResult(TRUE)
    /\ UNCHANGED <<rest, text, buf, ghost>>

\* textCh is closed: a last flush, whose failure is not reported.
SendClosed ==
    /\ snd = "loop" /\ text = <<>> /\ pl = "wait"
    /\ Flush(buf)
    /\ ghost' = IF shown' = Cut(buf) THEN ghost ELSE ghost \cup {"edit"}
    /\ SendResult(TRUE)
    /\ UNCHANGED <<rest, text, buf>>

SendCancelled ==
    /\ snd = "loop" /\ outer = "ended"
    /\ Flush(buf)
    /\ SendResult(FALSE)
    /\ UNCHANGED <<rest, text, buf, ghost>>

-----------------------------------------------------------------------------
Reader ==
    \/ ReadPiece
    \/ \E calls \in BOOLEAN : ReadDone(calls) \/ ReadEOF(calls)
    \/ ReadError

LoopStep ==
    \/ LoopTop
    \/ OpenStream
    \/ LoopText
    \/ LoopTools
    \/ LoopError
    \/ Drain
    \/ LoopClosed

PipeStep == PipeEvent \/ PipeClose \/ PipeEnds \/ PipeSends \/ PipeSending
SendStep == SendRefused \/ SendPlaceholder \/ SendChunk \/ SendClosed \/ SendCancelled

StreamNext ==
    \/ OuterEnds
    \/ Timeout
    \/ Reader
    \/ ReadCancelled
    \/ \E c \in {"body", "chain"} : Relay(c) \/ RelayEnds(c)
    \/ RelayCancelled
    \/ LoopStep
    \/ PipeStep
    \/ SendStep
    \/ SendTick

\* The model may stay silent for ever; the timeout of RunStream comes, and
\* every goroutine that can go on does.
StreamFairness ==
    /\ WF_streamVars(Timeout)
    /\ WF_streamVars(ReadCancelled)
    /\ \A c \in {"body", "chain"} : WF_streamVars(Relay(c) \/ RelayEnds(c))
    /\ WF_streamVars(RelayCancelled)
    /\ WF_streamVars(LoopStep)
    /\ WF_streamVars(PipeStep)
    /\ WF_streamVars(SendStep)

StreamSpec == StreamInit /\ [][StreamNext]_streamVars /\ StreamFairness

-----------------------------------------------------------------------------
\* ShownWhole: when executeStreaming goes on to record an answer, the user has
\* it on the screen, at the end of the streamed text or in a message of its own.
\* Text may be missing only when textCh was full, the text too long, the last
\* edit failed, or a hook rewrote the answer.
ShownWhole ==
    result = "ok" =>
        \/ reply = Response
        \/ IsSuffix(Response, shown)
        \/ ghost \cap {"dropped", "overflow", "edit", "corrected"} # {}

\* DeliveredWhole: an answer that was recorded after it was sent in parts has
\* reached the user as Delivered says, also when the chat moved meanwhile.
DeliveredWhole == result = "ok" /\ ~sr => Delivered

\* RecordedWhole: an answer that is recorded is all the text of a completion
\* the model had finished, through four channels and three relays that errors
\* and cancellation cut anywhere.  The exceptions: a body that ended without
\* [DONE], and a goroutine that gave up without a word because the context ended.
RecordedWhole ==
    result = "ok" =>
        \/ sent.ended /\ IsSuffix(sent.last, Response)
        \/ ghost \cap {"eof", "cut"} # {}

\* AllReturned: no goroutine of the turn is left, but for wrapStream's, which
\* waits for ever for a reader that has given up.
AllReturned ==
    /\ ~on["read"] /\ ~on["body"]
    /\ on["chain"] => "cut" \in ghost

\* StreamEnds: a streamed turn comes to its end and leaves no goroutine behind,
\* even when the model falls silent, the user's channel fails or buffers fill.
StreamEnds == <>[](pl = "ended" /\ AllReturned)

=============================================================================
