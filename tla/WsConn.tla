------------------------------- MODULE WsConn -------------------------------
(***************************************************************************)
(* A WebSocket connection of crates/kamekichi-ws: the read loop, the send  *)
(* buffer and the close handshake (src/lib.rs, src/proto.rs, src/          *)
(* send_buf.rs), used by one thread.  The stream accepts any part of what  *)
(* it is given, blocks, or breaks for good; the server sends any frames.   *)
(*                                                                         *)
(* A frame the client sends is FrameSize units long, so that a write can   *)
(* end inside it; the payload is left out.  What the client receives are   *)
(* whole frames: their bytes are the subject of module ReadBuf, the text   *)
(* in them of module Utf8Tail.                                             *)
(***************************************************************************)
EXTENDS Integers, Sequences, SequencesExt, FiniteSets

CONSTANTS
  FrameSize,     \* units a frame takes in the send buffer
  MaxBufSize,    \* max_buf_size, in units
  FrameBudget,   \* frame_budget
  MaxFloodScore, \* max_flood_score
  MaxPayload,    \* max_payload, in payload units; each data frame carries one
  ServerFrames,  \* the frames the server may send
  MaxArrivals,   \* bound: frames the server sends on a connection
  MaxBuilt,      \* bound: frames the client builds on a connection
  MaxConnections \* bound: connections made with the same WebSocket

ASSUME WsAssumption ==
  /\ {FrameSize, MaxBufSize, FrameBudget, MaxPayload} \subseteq Nat \ {0}
  /\ {MaxFloodScore, MaxArrivals, MaxBuilt, MaxConnections} \subseteq Nat

VARIABLES
  pc,           \* "caller" between two calls, "reading" in read_message
  result,       \* what the last call returned
  message,      \* the parts of the message it returned: indices into arrived
  closeState,   \* sess.close_state
  fragmentOp,   \* sess.fragment_opcode
  fragments,    \* fragment_bin and fragment_text: indices into arrived
  floodScore,   \* sess.flood_score
  budget,       \* the local budget of read_message
  pingDeadline, \* sess.ping_deadline: "none", "armed" or "passed"
  lastActivity, \* sess.last_activity, as the number of frames read by then
  buf, pos,     \* SendBuf: its units and its cursor
  arrived,      \* the frames the server has sent on this connection
  got,          \* how many of them have been processed
  eof, broken,  \* the server closed the stream; writing fails from now on
  connections,  \* connections so far
  wire,         \* history: the units written to this stream
  built,        \* history: the frames built on this connection
  gotAtPing,    \* history: got when the deadline was set
  unrelieved,   \* history: frames since the last message that were no small reads
  bursts        \* history: frames on this connection that were no small reads

sessVars  == <<closeState, fragmentOp, fragments, floodScore, pingDeadline, lastActivity>>
callVars  == <<pc, result, message, budget>>
sendVars  == <<buf, pos, wire, built, broken>>
readVars  == <<arrived, got, eof>>
floodHist == <<unrelieved, bursts>>
vars == <<callVars, sessVars, sendVars, readVars, connections, gotAtPing, floodHist>>

Frame == [op : {"text", "binary", "cont", "close", "ping", "pong", "malformed"},
          fin : BOOLEAN, small : BOOLEAN]
DataOps == {"text", "binary"}

ASSUME ServerAssumption == ServerFrames \subseteq Frame

(* The units of the n-th frame built.                                      *)
Units(op, n) == [k \in 1..FrameSize |-> [op |-> op, frame |-> n, part |-> k]]

-----------------------------------------------------------------------------
(* SendBuf.                                                                *)
HasPending == pos < Len(buf)
PendingLen == Len(buf) - pos

(* flush writes k units of what is pending: all of it, or fewer because    *)
(* the stream blocks or breaks.                                            *)
Flushes(b, p, k, ending) ==
  /\ CASE ending = "ok"    -> ~broken /\ p + k = Len(b) /\ UNCHANGED broken
       [] ending = "block" -> ~broken /\ p + k < Len(b) /\ UNCHANGED broken
       [] ending = "fail"  -> p + k < Len(b) /\ (broken => k = 0) /\ broken' = TRUE
  /\ wire' = wire \o SubSeq(b, p + 1, p + k)

(* Mutant of MaybeShrink: the cursor is not reset.                         *)
MaybeShrinkKeepsPos(b, p) ==
  \/ buf' = b /\ pos' = p
  \/ p >= Len(b) /\ buf' = <<>> /\ pos' = p

(* maybe_shrink may drop the units already written, never a pending one.   *)
MaybeShrink(b, p) ==
  \/ buf' = b /\ pos' = p
  \/ p >= Len(b) /\ buf' = <<>> /\ pos' = 0

Endings == {"ok", "block", "fail"}

-----------------------------------------------------------------------------
(* Mutant of SendFrame: the buffer is reused without draining it.          *)
SendFrameOverwrites(op, out) ==
  /\ Len(built) < MaxBuilt
  /\ out \in {"done", "queued", "error"}
  /\ LET frame == Units(op, Len(built) + 1)
     IN \E k \in 0..FrameSize :
          /\ Flushes(frame, 0, k, CASE out = "done" -> "ok" [] out = "queued" -> "block"
                                    [] out = "error" -> "fail")
          /\ IF out = "done" THEN MaybeShrink(frame, k) ELSE buf' = frame /\ pos' = k
  /\ built' = Append(built, op)

(* send_frame: an earlier frame is drained first, or the new one is not    *)
(* built.  "out" is what it returns.                                       *)
SendFrame(op, out) ==
  /\ Len(built) < MaxBuilt
  /\ \/ /\ out \in {"retryLater", "error"}
        /\ HasPending
        /\ \E k \in 0..PendingLen :
             /\ Flushes(buf, pos, k, IF out = "error" THEN "fail" ELSE "block")
             /\ buf' = buf /\ pos' = pos + k
        /\ UNCHANGED built
     \/ /\ out \in {"done", "queued", "error"}
        /\ HasPending => ~broken
        /\ LET n     == Len(built) + 1
               frame == Units(op, n)
               rest  == SubSeq(buf, pos + 1, Len(buf))
           IN \E k \in 0..FrameSize :
                /\ Flushes(rest \o frame, 0, Len(rest) + k,
                           CASE out = "done" -> "ok" [] out = "queued" -> "block"
                             [] out = "error" -> "fail")
                /\ IF out = "done" THEN MaybeShrink(frame, k) ELSE buf' = frame /\ pos' = k
        /\ built' = Append(built, op)

AtCaller == pc = "caller"
Returns(r) == result' = r /\ message' = <<>>
MayAlwaysWrite == TRUE \* mutant: close_state is not looked at
MayWrite == closeState = "Open"

SendData ==
  /\ AtCaller /\ MayWrite
  /\ \E out \in {"done", "queued", "retryLater", "error"} :
       SendFrame("data", out) /\ Returns(out)
  /\ UNCHANGED <<pc, budget, sessVars, readVars, connections, gotAtPing, floodHist>>

Queued(out) == out \in {"done", "queued"}

(* send_ping: a new deadline, unless the ping was not built or it failed.  *)
SendPing ==
  /\ AtCaller /\ MayWrite
  /\ \E out \in {"done", "queued", "retryLater", "error"} :
       /\ SendFrame("ping", out) /\ Returns(out)
       /\ IF Queued(out)
          THEN pingDeadline' = "armed" /\ gotAtPing' = got
          ELSE UNCHANGED <<pingDeadline, gotAtPing>>
  /\ UNCHANGED <<pc, budget, closeState, fragmentOp, fragments, floodScore, lastActivity,
                 readVars, connections, floodHist>>

SendClose ==
  /\ AtCaller /\ MayWrite
  /\ \E out \in {"done", "queued", "retryLater", "error"} :
       /\ SendFrame("close", out) /\ Returns(out)
       /\ closeState' = IF Queued(out) THEN "CloseSent" ELSE closeState
  /\ UNCHANGED <<pc, budget, fragmentOp, fragments, floodScore, pingDeadline, lastActivity,
                 readVars, connections, gotAtPing, floodHist>>

\* Sending and reading are refused once the connection is closing or closed.
RefusedCall ==
  /\ AtCaller /\ ~MayWrite
  /\ Returns("closing")
  /\ UNCHANGED <<pc, budget, sessVars, sendVars, readVars, connections, gotAtPing, floodHist>>

\* Once the buffer is drained, the answer is that of the stream's own flush.
Flush ==
  /\ AtCaller
  /\ IF HasPending
     THEN \E k \in 0..PendingLen, ending \in Endings :
            /\ Flushes(buf, pos, k, ending)
            /\ IF ending = "ok" THEN MaybeShrink(buf, pos + k) ELSE buf' = buf /\ pos' = pos + k
            /\ \E r \in {"done", "queued", "error"} :
                 Returns(r) /\ (ending = "block" => r = "queued") /\ (ending = "fail" => r = "error")
     ELSE UNCHANGED <<buf, pos, wire, broken>> /\ \E r \in {"done", "queued", "error"} : Returns(r)
  /\ UNCHANGED <<pc, budget, sessVars, built, readVars, connections, gotAtPing, floodHist>>

-----------------------------------------------------------------------------
(* read_message: what an earlier send left behind is written first, as far *)
(* as the stream allows.                                                   *)
ReadCall ==
  /\ AtCaller /\ closeState # "Closed"
  /\ budget' = FrameBudget
  /\ IF HasPending
     THEN \E k \in 0..PendingLen, ending \in Endings :
            /\ Flushes(buf, pos, k, ending)
            /\ IF ending = "ok" THEN MaybeShrink(buf, pos + k) ELSE buf' = buf /\ pos' = pos + k
            /\ IF ending = "fail"
               THEN pc' = "caller" /\ Returns("error") /\ closeState' = "Closed"
               ELSE pc' = "reading" /\ UNCHANGED <<result, message, closeState>>
     ELSE /\ pc' = "reading"
          /\ UNCHANGED <<result, message, closeState, buf, pos, wire, broken>>
  /\ UNCHANGED <<fragmentOp, fragments, floodScore, pingDeadline, lastActivity, built,
                 readVars, connections, gotAtPing, floodHist>>

FrameReady == pc = "reading" /\ got < Len(arrived)
This       == arrived[got + 1]

SatSub(a, b) == IF a > b THEN a - b ELSE 0

(* A frame that came in a small read of its own adds no pressure.          *)
PressureOfAny(f) == floodScore + 1 \* mutant: small reads are not told apart
Pressure(f) == (IF f.small THEN SatSub(floodScore, 1) ELSE floodScore) + 1

Relief == 1 \* 1.max(len / SMALL_READ_THRESHOLD), for a short message

Counted(f) ==
  /\ got' = got + 1
  /\ bursts' = bursts + (IF f.small THEN 0 ELSE 1)

(* The wrapper of read_message: any error closes the connection; a message *)
(* or an exhausted budget counts as activity.                              *)
FailRead ==
  pc' = "caller" /\ Returns("error") /\ closeState' = "Closed"

Activity == lastActivity' = got' /\ pingDeadline' = "none"

Deliver(parts) ==
  /\ pc' = "caller" /\ result' = "message" /\ message' = parts
  /\ floodScore' = SatSub(Pressure(This), Relief)
  /\ unrelieved' = 0
  /\ Activity

ScoreRelieved == SatSub(Pressure(This), Relief) \* mutant: any frame relieves
Score == Pressure(This)

\* A frame without a message: the loop goes on while the budget lasts.
Continue ==
  /\ floodScore' = Score
  /\ unrelieved' = unrelieved + (IF This.small THEN 0 ELSE 1)
  /\ budget' = SatSub(budget, 1)
  /\ IF budget' = 0
     THEN pc' = "caller" /\ Returns("idle") /\ Activity
     ELSE UNCHANGED <<pc, result, message, lastActivity, pingDeadline>>

\* Mutant of InOrder: a data frame may interrupt a fragmented message.
InOrderOfAny(f) ==
  CASE f.op \in DataOps -> TRUE
    [] f.op = "cont"    -> fragmentOp # "none" /\ Len(fragments) + 1 <= MaxPayload
    [] f.op \in {"close", "ping", "pong"} -> f.fin
    [] OTHER            -> FALSE

InOrder(f) ==
  CASE f.op \in DataOps -> fragmentOp = "none"
    [] f.op = "cont"    -> fragmentOp # "none" /\ Len(fragments) + 1 <= MaxPayload
    [] f.op \in {"close", "ping", "pong"} -> f.fin
    [] OTHER            -> FALSE

\* A malformed frame, one out of place, or one too many in a burst.
ReadBadFrame ==
  /\ FrameReady
  /\ ~InOrder(This) \/ Pressure(This) > MaxFloodScore
  /\ FailRead /\ Counted(This)
  /\ floodScore' = IF This.op = "malformed" THEN floodScore ELSE Pressure(This)
  /\ UNCHANGED <<budget, fragmentOp, fragments, pingDeadline, lastActivity, sendVars, arrived,
                 eof, connections, gotAtPing, unrelieved>>

Accepted(op) ==
  FrameReady /\ This.op = op /\ InOrder(This) /\ Pressure(This) <= MaxFloodScore /\ Counted(This)

ReadData ==
  /\ \E op \in DataOps : Accepted(op)
  /\ IF This.fin
     THEN Deliver(<<got + 1>>) /\ UNCHANGED <<fragmentOp, fragments, budget>>
     ELSE Continue /\ fragmentOp' = This.op /\ fragments' = <<got + 1>>
  /\ UNCHANGED <<closeState, sendVars, arrived, eof, connections, gotAtPing>>

ReadContinuation ==
  /\ Accepted("cont")
  /\ fragments' = Append(fragments, got + 1)
  /\ IF This.fin
     THEN Deliver(fragments') /\ fragmentOp' = "none" /\ UNCHANGED budget
     ELSE Continue /\ UNCHANGED fragmentOp
  /\ UNCHANGED <<closeState, sendVars, arrived, eof, connections, gotAtPing>>

(* try_flush: errors are ignored here.                                     *)
BuildAndTryFlush(op) ==
  /\ buf' = buf \o Units(op, Len(built) + 1)
  /\ built' = Append(built, op)
  /\ \E k \in 0..(PendingLen + FrameSize), ending \in Endings :
       Flushes(buf', pos, k, ending) /\ pos' = pos + k

RoomAlways == TRUE \* mutant: every ping is answered
RoomForPong == PendingLen < MaxBufSize

ReadPing ==
  /\ Accepted("ping")
  /\ IF RoomForPong
     THEN BuildAndTryFlush("pong")
     ELSE /\ UNCHANGED <<buf, built>>
          /\ \E k \in 0..PendingLen, ending \in Endings :
               Flushes(buf, pos, k, ending) /\ pos' = pos + k
  /\ Continue
  /\ UNCHANGED <<closeState, fragmentOp, fragments, arrived, eof, connections, gotAtPing>>

ReadPong ==
  /\ Accepted("pong")
  /\ Continue
  /\ UNCHANGED <<closeState, fragmentOp, fragments, sendVars, arrived, eof, connections, gotAtPing>>

EchoAlways == TRUE \* mutant: our own Close frame is forgotten
Echoes == closeState = "Open"

(* handle_close: the code is echoed unless a Close frame was sent before.  *)
ReadClose ==
  /\ Accepted("close")
  /\ closeState' = "Closed"
  /\ IF Echoes THEN BuildAndTryFlush("close") ELSE UNCHANGED sendVars
  /\ pc' = "caller" /\ result' = "close" /\ message' = <<got + 1>>
  /\ floodScore' = Pressure(This)
  /\ unrelieved' = 0
  /\ Activity
  /\ UNCHANGED <<budget, fragmentOp, fragments, arrived, eof, connections, gotAtPing>>

\* Mutant of TimesOut: the deadline is never compared with the clock.
NeverTimesOut == FALSE
TimesOut == pingDeadline = "passed"

\* No whole frame within the read timeout: the only place a ping times out.
ReadBlocks ==
  /\ pc = "reading" /\ got = Len(arrived) /\ ~eof
  /\ pc' = "caller"
  /\ IF TimesOut
     THEN pingDeadline' = "none" /\ closeState' = "Closed" /\ Returns("pingTimeout")
     ELSE Returns("idle") /\ UNCHANGED <<pingDeadline, closeState>>
  /\ UNCHANGED <<budget, fragmentOp, fragments, floodScore, lastActivity, sendVars, readVars,
                 connections, gotAtPing, floodHist>>

ReadEof ==
  /\ pc = "reading" /\ got = Len(arrived) /\ eof
  /\ FailRead
  /\ UNCHANGED <<budget, fragmentOp, fragments, floodScore, pingDeadline, lastActivity, sendVars,
                 readVars, connections, gotAtPing, floodHist>>

-----------------------------------------------------------------------------
(* disconnect, and connect again with the same buffers: both are cleared.  *)
ClearBuffers == buf' = <<>> /\ pos' = 0 /\ fragments' = <<>>

ResetSession ==
  /\ fragmentOp' = "none" /\ closeState' = "Open" /\ floodScore' = 0
  /\ pingDeadline' = "none" /\ lastActivity' = 0

NewStream ==
  /\ arrived' = <<>> /\ got' = 0 /\ eof' = FALSE /\ broken' = FALSE
  /\ wire' = <<>> /\ built' = <<>> /\ gotAtPing' = 0 /\ unrelieved' = 0 /\ bursts' = 0

Reconnect ==
  /\ AtCaller /\ connections < MaxConnections
  /\ connections' = connections + 1
  /\ ClearBuffers /\ ResetSession /\ NewStream
  /\ Returns("none")
  /\ UNCHANGED <<pc, budget>>

(* The server, the network and the clock (external).                       *)
ServerSends(f) ==
  /\ Len(arrived) < MaxArrivals /\ ~eof
  /\ arrived' = Append(arrived, f)
  /\ UNCHANGED <<callVars, sessVars, sendVars, got, eof, connections, gotAtPing, floodHist>>

ServerCloses ==
  /\ ~eof /\ eof' = TRUE
  /\ UNCHANGED <<callVars, sessVars, sendVars, arrived, got, connections, gotAtPing, floodHist>>

DeadlinePasses ==
  /\ pingDeadline = "armed" /\ pingDeadline' = "passed"
  /\ UNCHANGED <<callVars, closeState, fragmentOp, fragments, floodScore, lastActivity, sendVars,
                 readVars, connections, gotAtPing, floodHist>>

-----------------------------------------------------------------------------
Init ==
  /\ pc = "caller" /\ result = "none" /\ message = <<>> /\ budget = FrameBudget
  /\ closeState = "Open" /\ fragmentOp = "none" /\ fragments = <<>> /\ floodScore = 0
  /\ pingDeadline = "none" /\ lastActivity = 0
  /\ buf = <<>> /\ pos = 0 /\ wire = <<>> /\ built = <<>> /\ broken = FALSE
  /\ arrived = <<>> /\ got = 0 /\ eof = FALSE
  /\ connections = 1 /\ gotAtPing = 0 /\ unrelieved = 0 /\ bursts = 0

ReadStep ==
  \/ ReadBadFrame \/ ReadData \/ ReadContinuation \/ ReadPing \/ ReadPong
  \/ ReadClose \/ ReadBlocks \/ ReadEof

CallerStep ==
  SendData \/ SendPing \/ SendClose \/ RefusedCall \/ Flush \/ ReadCall \/ Reconnect

Outside == (\E f \in ServerFrames : ServerSends(f)) \/ ServerCloses \/ DeadlinePasses

Next == ReadStep \/ CallerStep \/ Outside

(* The thread inside read_message runs on, its caller keeps calling it,    *)
(* and time passes; nobody has to send anything.                           *)
Spec ==
  /\ Init /\ [][Next]_vars
  /\ WF_vars(ReadStep) /\ SF_vars(ReadCall) /\ WF_vars(DeadlinePasses)

-----------------------------------------------------------------------------
Opcodes == {"data", "ping", "close", "pong"}
Unit == [op : Opcodes, frame : 1..(MaxBuilt + MaxArrivals), part : 1..FrameSize]

(* The connection's state stays in these domains, and the cursors inside   *)
(* what they point into.                                                   *)
TypeOK ==
  /\ pc \in {"caller", "reading"}
  /\ result \in {"none", "done", "queued", "retryLater", "error", "closing", "message",
                "idle", "close", "pingTimeout"}
  /\ budget \in 0..FrameBudget
  /\ closeState \in {"Open", "CloseSent", "Closed"}
  /\ fragmentOp \in DataOps \cup {"none"}
  /\ floodScore \in 0..(MaxFloodScore + 1)
  /\ pingDeadline \in {"none", "armed", "passed"}
  /\ arrived \in Seq(Frame) /\ got \in 0..Len(arrived) /\ lastActivity \in 0..got
  /\ {buf, wire} \subseteq Seq(Unit) /\ pos \in 0..Len(buf) /\ built \in Seq(Opcodes)
  /\ {message, fragments} \subseteq Seq(1..got)
  /\ Len(fragments) <= MaxPayload
  /\ {eof, broken} \subseteq BOOLEAN

\* The unit that comes behind a: the next of its frame, or the first of the next frame.
Follows(a, b) ==
  IF a.part < FrameSize THEN b.frame = a.frame /\ b.part = a.part + 1
                        ELSE b.frame = a.frame + 1 /\ b.part = 1

\* All units of the frames with these opcodes, each whole and in their order.
AreFrames(units, ops) ==
  /\ units = <<>> <=> ops = <<>>
  /\ units # <<>> => /\ units[1].frame = 1 /\ units[1].part = 1
                     /\ units[Len(units)].frame = Len(ops) /\ units[Len(units)].part = FrameSize
  /\ \A k \in 1..Len(units) : units[k].op = ops[units[k].frame]
  /\ \A k \in 1..(Len(units) - 1) : Follows(units[k], units[k + 1])

Rest == SubSeq(buf, pos + 1, Len(buf))

(* What the server has read and what is still pending are together the     *)
(* frames that were built, whole and in order: whatever the partial writes *)
(* and the retries, no byte is lost, repeated or put inside another frame  *)
(* (send_frame clears the buffer, pongs are appended behind a frame half   *)
(* written).                                                               *)
WireIsWholeFrames == AreFrames(wire \o Rest, built)

(* The server gets at most one Close frame, and behind it only pongs: the  *)
(* echo and send_close exclude each other (RFC 6455 5.5.1).                *)
NothingAfterClose ==
  \A i, j \in 1..Len(wire) :
    i < j /\ wire[i].op = "close" => wire[j].op = "pong" \/ wire[j].frame = wire[i].frame

(* A server that never reads cannot make the answers to its pings pile up. *)
PendingBounded == PendingLen < MaxBufSize + 2 * FrameSize

(* A message is one data frame and its continuations up to the final one,  *)
(* all of them, with nothing but control frames between them.              *)
MessageIsWhole ==
  result = "message" =>
    /\ arrived[Head(message)].op \in DataOps
    /\ \A k \in 1..Len(message) : arrived[message[k]].fin <=> k = Len(message)
    /\ \A k \in 2..Len(message) : arrived[message[k]].op = "cont" /\ message[k - 1] < message[k]
    /\ \A i \in Head(message)..Last(message) :
         arrived[i].op \in DataOps \cup {"cont"} => Contains(message, i)

(* A burst of more than max_flood_score frames without a message is cut.   *)
FloodIsCut == unrelieved <= MaxFloodScore

(* "Frames arriving one at a time keep it near zero" (lib.rs:514): only    *)
(* frames of a burst raise the score.                                      *)
TrickleIsNoFlood == floodScore <= bursts + 1

(* A connection never goes back in its close handshake, and once Closed it *)
(* builds no further frame, until it is connected anew.                    *)
ClosingIsFinal ==
  [][connections' = connections =>
       /\ closeState = "Closed" => closeState' = "Closed" /\ built' = built
       /\ closeState = "CloseSent" => closeState' # "Open"]_vars

(* A ping whose deadline has passed is settled: the caller, who goes on    *)
(* reading, gets a frame or a PingTimeout.                                 *)
PingIsSettled == pingDeadline = "passed" ~> pingDeadline = "none" \/ closeState = "Closed"

(* "Any received frame clears the deadline -- the connection is proven     *)
(* alive" (lib.rs:261): a ping times out only if nothing came after it.    *)
TimeoutMeansSilence == result = "pingTimeout" => got = gotAtPing
=============================================================================
