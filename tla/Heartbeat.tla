------------------------------ MODULE Heartbeat ------------------------------
(***************************************************************************)
(* The gateway heartbeat: HeartbeatState (crates/kamekichi-discord/src/    *)
(* heartbeat.rs) driven by the two loops that own it, the READY wait of    *)
(* Session::connect and Session::poll (gateway/mod.rs), by a caller that   *)
(* is away between two polls (the runner executes HTTP actions on the same *)
(* thread), and by a gateway server that may stop acknowledging.           *)
(*                                                                         *)
(* Time is discrete: one tick stands for the millisecond below which the   *)
(* code never waits.  The two Instants of HeartbeatState are kept relative *)
(* to now and saturate where the code stops telling values apart:          *)
(*   hbIn   = next_heartbeat - now, at least 0;                            *)
(*   ackAge = now - last_ack, at most one past the backstop window.        *)
(* Computation takes no time; waiting and the caller's work do. A write    *)
(* takes none either, although the stream may block it for up to an        *)
(* interval (gateway/mod.rs:347): such a time has to be part of MaxStretch. *)
(***************************************************************************)
EXTENDS Integers, Sequences

CONSTANTS
  MaxInterval,     \* MAX_HEARTBEAT_INTERVAL_MS
  HelloIntervals,  \* heartbeat_interval values a HELLO may carry
  MaxBusy,         \* longest the caller stays away between two polls
  AckDelay,        \* a healthy server's ACK is readable within this time
  MaxStretch,      \* longest bytes without a message keep one read going past its timeout
  Burst,           \* bound: messages the server sends in one tick
  MaxInbox         \* bound: unread messages in the socket

ASSUME HeartbeatAssumption ==
  /\ MaxInterval \in Nat \ {0}
  /\ HelloIntervals \subseteq Nat
  /\ MaxBusy \in Nat
  /\ AckDelay \in Nat
  /\ MaxStretch \in Nat
  /\ Burst \in Nat
  /\ MaxInbox \in Nat \ {0}

VARIABLES
  interval, hbIn, ackPending, ackAge,   \* HeartbeatState
  pc,        \* where the client thread is
  phase,     \* the loop it runs: the READY wait of connect, or poll
  deadline,  \* ticks left of the READY wait
  waitLeft,  \* ticks left of the socket read timeout
  armed,     \* the timeout as it was set on the socket
  stretched, \* ticks by which the present read has outlasted that timeout
  busyLeft,  \* ticks of work the caller has left
  server,    \* "healthy", "mute" (everything but ACKs) or "gone" (silent)
  inbox,     \* frames received and not yet read
  flight,    \* ages of the heartbeats a healthy server has yet to ACK
  burst,     \* messages sent in this tick
  readySent, \* the server has sent READY
  late,      \* history: how long the READY wait has outlasted its deadline
  unackedFor,\* history: how long the current ackPending has been TRUE
  muteFor    \* history: how long no ACK has been on its way

hbVars     == <<interval, hbIn, ackPending, ackAge>>
timerVars  == <<waitLeft, armed, stretched>>
clientVars == <<pc, phase, deadline, timerVars, busyLeft>>
serverVars == <<server, inbox, flight, burst, readySent>>
ghostVars  == <<late, unackedFor, muteFor>>
vars       == <<hbVars, clientVars, serverVars, ghostVars>>

Message == {"ack", "op1", "ready", "dispatch"}
Stopped == {"badInterval", "backstop", "overdue", "handshakeTimeout", "unexpected", "writeFailed"}
Zombied == {"backstop", "overdue"}

AtLeast(m, n) == IF m >= n THEN m ELSE n
AtMost(m, n)  == IF m <= n THEN m ELSE n
Countdown(n)  == AtLeast(n - 1, 0)

BackstopWindow == 2 * interval

\* ConnectionZombied from backstop_check
BackstopFires == ackPending /\ ackAge > BackstopWindow
\* the other zombie verdict, of heartbeat_check
OverdueFires == hbIn = 0 /\ ackPending
HeartbeatDue == hbIn = 0 /\ ~ackPending

\* Histories grow to one past the longest delay a property speaks of.
GhostLimit == 2 * interval + 2 * MaxBusy + 2 * MaxStretch + 3

-----------------------------------------------------------------------------
Init ==
  /\ interval = 0 /\ hbIn = 0 /\ ackPending = FALSE /\ ackAge = 0
  /\ pc = "hello" /\ phase = "handshake"
  /\ deadline = 0 /\ waitLeft = 0 /\ armed = 0 /\ stretched = 0 /\ busyLeft = 0
  /\ server = "healthy" /\ inbox = <<>> /\ flight = <<>> /\ burst = 0
  /\ readySent = FALSE
  /\ late = 0 /\ unackedFor = 0 /\ muteFor = 0

(* HELLO: HeartbeatState::new rejects a zero or oversized interval, else   *)
(* jitters the first heartbeat over one interval; connect arms the READY   *)
(* deadline.                                                               *)
OnlyZeroIsBad(i) == i = 0 \* mutant: no upper limit
BadInterval(i) == i = 0 \/ i > MaxInterval

Hello(i) ==
  /\ pc = "hello"
  /\ IF BadInterval(i)
     THEN /\ pc' = "badInterval"
          /\ UNCHANGED <<hbVars, deadline>>
     ELSE /\ interval' = i
          /\ hbIn' \in 0..i
          /\ ackPending' = FALSE
          /\ ackAge' = 0
          /\ deadline' = 2 * i
          /\ pc' = "check"
  /\ UNCHANGED <<phase, timerVars, busyLeft, serverVars, ghostVars>>

(* Mutant of Send: a heartbeat on its way counts as an ACK.                *)
SendRestartsBackstop ==
  /\ hbIn' = interval
  /\ ackPending' = TRUE
  /\ ackAge' = 0
  /\ flight' = IF server = "healthy" THEN Append(flight, 0) ELSE flight
  /\ unackedFor' = IF ackPending THEN unackedFor ELSE 0
  /\ UNCHANGED interval

(* HeartbeatState::send once the frame is written, at once: Ok also means  *)
(* queued or kept for later, which the flush of the next call makes good.  *)
Send ==
  /\ hbIn' = interval
  /\ ackPending' = TRUE
  /\ flight' = IF server = "healthy" THEN Append(flight, 0) ELSE flight
  /\ unackedFor' = IF ackPending THEN unackedFor ELSE 0
  /\ UNCHANGED <<interval, ackAge>>

(* HeartbeatState::poll_timeout on the values it is called with.           *)
PollTimeout(next, pending) ==
  LET untilNext     == AtLeast(next, 1)
      untilBackstop == AtLeast(BackstopWindow - ackAge, 1)
  IN  IF pending THEN AtMost(untilNext, untilBackstop) ELSE untilNext

(* The loops' head: zombie checks and the heartbeat if it is due, then the *)
(* read timeout.  The READY wait also gives up at its deadline and never   *)
(* waits past it.                                                          *)
CheckZombie ==
  /\ pc = "check"
  /\ \/ BackstopFires /\ pc' = "backstop"
     \/ ~BackstopFires /\ OverdueFires /\ pc' = "overdue"
  /\ UNCHANGED <<hbVars, phase, deadline, timerVars, busyLeft, serverVars, ghostVars>>

Arm(t) == pc' = "read" /\ waitLeft' = t /\ armed' = t /\ stretched' = 0

\* Mutant of ArmRead: the READY wait reads for as long as poll would.
ArmReadPastDeadline(next, pending) ==
  IF phase = "handshake" /\ deadline = 0
  THEN pc' = "handshakeTimeout" /\ UNCHANGED timerVars
  ELSE Arm(PollTimeout(next, pending))

ArmRead(next, pending) ==
  IF phase = "handshake"
  THEN IF deadline = 0
       THEN pc' = "handshakeTimeout" /\ UNCHANGED timerVars
       ELSE Arm(AtMost(PollTimeout(next, pending), deadline))
  ELSE Arm(PollTimeout(next, pending))

CheckSend ==
  /\ pc = "check" /\ ~BackstopFires /\ HeartbeatDue
  /\ Send
  /\ ArmRead(interval, TRUE)
  /\ UNCHANGED <<phase, deadline, busyLeft, server, inbox, burst, readySent, late, muteFor>>

CheckQuiet ==
  /\ pc = "check" /\ ~BackstopFires /\ hbIn > 0
  /\ ArmRead(hbIn, ackPending)
  /\ UNCHANGED <<hbVars, phase, deadline, busyLeft, serverVars, ghostVars>>

\* A write error is the ws error that send returns before it touches its state.
WriteFails ==
  /\ pc = "check" /\ ~BackstopFires /\ HeartbeatDue
  /\ server = "gone"
  /\ pc' = "writeFailed"
  /\ UNCHANGED <<hbVars, phase, deadline, timerVars, busyLeft, serverVars, ghostVars>>

-----------------------------------------------------------------------------
(* read_message returns a frame, or Idle when the timeout runs out.        *)
Disarm == waitLeft' = 0 /\ armed' = 0 /\ stretched' = 0

Reading(m) ==
  /\ pc = "read" /\ inbox # <<>> /\ Head(inbox) = m
  /\ inbox' = Tail(inbox)
  /\ Disarm

\* Between two polls: connect or poll has returned to the runner.
ReturnToCaller ==
  /\ pc' = "caller"
  /\ busyLeft' \in 0..MaxBusy

\* Mutant of AgeAfterAck: last_ack is not set.
AgeRunsOn == ackAge
\* HeartbeatState::receive_ack sets last_ack; a spurious ACK changes nothing.
AgeAfterAck == IF ackPending THEN 0 ELSE ackAge

ReadAck ==
  /\ Reading("ack")
  /\ ackPending' = FALSE
  /\ ackAge' = AgeAfterAck
  /\ pc' = "check"
  /\ UNCHANGED <<interval, hbIn, phase, deadline, busyLeft, server, flight,
                 burst, readySent, ghostVars>>

\* HeartbeatState::server_requested (OP 1).
ReadRequest ==
  /\ Reading("op1")
  /\ IF BackstopFires
     THEN /\ pc' = "backstop"
          /\ UNCHANGED <<hbVars, flight, unackedFor>>
     ELSE /\ Send
          /\ pc' = "check"
  /\ UNCHANGED <<phase, deadline, busyLeft, server, burst, readySent, late, muteFor>>

ReadReady ==
  /\ Reading("ready")
  /\ phase' = "session"
  /\ deadline' = 0 /\ late' = 0
  /\ ReturnToCaller
  /\ UNCHANGED <<hbVars, server, flight, burst, readySent, unackedFor, muteFor>>

\* An event for the caller of poll; the READY wait expects nothing but READY.
ReadDispatch ==
  /\ Reading("dispatch")
  /\ IF phase = "session"
     THEN ReturnToCaller
     ELSE pc' = "unexpected" /\ UNCHANGED busyLeft
  /\ UNCHANGED <<hbVars, phase, deadline, server, flight, burst, readySent, ghostVars>>

(* Idle: poll returns None to its caller; the READY wait goes round again  *)
(* (its own send_if_due here does what the loop head repeats at once).     *)
ReadIdle ==
  /\ pc = "read" /\ inbox = <<>> /\ waitLeft = 0
  /\ IF phase = "session"
     THEN ReturnToCaller
     ELSE pc' = "check" /\ UNCHANGED busyLeft
  /\ Disarm
  /\ UNCHANGED <<hbVars, phase, deadline, serverVars, ghostVars>>

CallerPolls ==
  /\ pc = "caller" /\ busyLeft = 0
  /\ pc' = "check"
  /\ UNCHANGED <<hbVars, phase, deadline, timerVars, busyLeft, serverVars, ghostVars>>

-----------------------------------------------------------------------------
(* The gateway server and the path to it.                                  *)
Deliver(m) == inbox' = Append(inbox, m)

ServerAcks ==
  /\ pc \notin Stopped
  /\ server = "healthy" /\ flight # <<>>
  /\ Deliver("ack")
  /\ flight' = Tail(flight)
  /\ UNCHANGED <<hbVars, clientVars, server, burst, readySent, ghostVars>>

ServerSends(m) ==
  /\ server # "gone"
  /\ pc \notin Stopped \cup {"hello"}
  /\ burst < Burst /\ Len(inbox) < MaxInbox
  /\ \/ m = "ready" /\ ~readySent
     \/ m = "dispatch" /\ readySent
     \/ m = "op1"
  /\ readySent' = (readySent \/ m = "ready")
  /\ burst' = burst + 1
  /\ Deliver(m)
  /\ UNCHANGED <<hbVars, clientVars, server, flight, ghostVars>>

(* Bytes that complete no message for the gateway: a part of a frame       *)
(* (fill_from reads again), a fragment, or a WebSocket ping or pong (the   *)
(* loop of read_message goes on, its frame budget is never set). The next  *)
(* read of the socket has the full timeout again, and nothing returns to   *)
(* the loops that look at the clock.                                       *)
ServerDrips ==
  /\ server # "gone" /\ pc = "read" /\ inbox = <<>>
  /\ waitLeft < armed /\ stretched + (armed - waitLeft) <= MaxStretch
  /\ waitLeft' = armed
  /\ stretched' = stretched + (armed - waitLeft)
  /\ UNCHANGED <<hbVars, pc, phase, deadline, armed, busyLeft, serverVars, ghostVars>>

\* The server stops acknowledging, or the path goes silent altogether.
ServerFails(s) ==
  /\ pc \notin Stopped \cup {"hello"}
  /\ server = "healthy" \/ (server = "mute" /\ s = "gone")
  /\ server' = s
  /\ flight' = <<>>
  /\ UNCHANGED <<hbVars, clientVars, inbox, burst, readySent, ghostVars>>

-----------------------------------------------------------------------------
NoAckComing == server # "healthy" /\ "ack" \notin {inbox[k] : k \in 1..Len(inbox)}

(* Time passes while the client is blocked in a read or away in the caller.*)
(* A healthy server answers each heartbeat within AckDelay.                *)
Tick ==
  /\ \/ pc = "caller" /\ busyLeft > 0
     \/ pc = "read" /\ inbox = <<>> /\ waitLeft > 0
  /\ \A k \in 1..Len(flight) : flight[k] < AckDelay
  /\ hbIn' = Countdown(hbIn)
  /\ ackAge' = AtMost(ackAge + 1, BackstopWindow + 1)
  /\ deadline' = Countdown(deadline)
  /\ waitLeft' = Countdown(waitLeft)
  /\ busyLeft' = Countdown(busyLeft)
  /\ flight' = [k \in 1..Len(flight) |-> flight[k] + 1]
  /\ burst' = 0
  /\ late' = IF phase = "handshake" /\ deadline = 0 THEN AtMost(late + 1, MaxStretch + 1)
                                                  ELSE late
  /\ unackedFor' = IF ackPending THEN AtMost(unackedFor + 1, GhostLimit) ELSE unackedFor
  /\ muteFor' = IF NoAckComing THEN AtMost(muteFor + 1, GhostLimit) ELSE 0
  /\ UNCHANGED <<interval, ackPending, pc, phase, armed, stretched, server, inbox, readySent>>

ClientStep ==
  \/ \E i \in HelloIntervals : Hello(i)
  \/ CheckZombie \/ CheckSend \/ CheckQuiet \/ WriteFails
  \/ ReadAck \/ ReadRequest \/ ReadReady \/ ReadDispatch \/ ReadIdle
  \/ CallerPolls

ServerStep ==
  \/ ServerAcks
  \/ \E m \in {"op1", "ready", "dispatch"} : ServerSends(m)
  \/ ServerDrips
  \/ \E s \in {"mute", "gone"} : ServerFails(s)

Done == pc \in Stopped /\ UNCHANGED vars

Next == ClientStep \/ ServerStep \/ Tick \/ Done

Spec == Init /\ [][Next]_vars

-----------------------------------------------------------------------------
(* The timers, counters and queues stay in these domains; the ages of the  *)
(* heartbeats in flight never exceed what a healthy server promises.       *)
TypeOK ==
  /\ interval \in 0..MaxInterval
  /\ hbIn \in 0..interval
  /\ ackPending \in BOOLEAN
  /\ ackAge \in 0..(2 * interval + 1)
  /\ pc \in {"hello", "check", "read", "caller"} \cup Stopped
  /\ phase \in {"handshake", "session"}
  /\ deadline \in 0..(2 * interval)
  /\ armed \in 0..AtLeast(interval, 1) /\ waitLeft \in 0..armed
  /\ stretched \in 0..MaxStretch /\ late \in 0..(MaxStretch + 1)
  /\ busyLeft \in 0..MaxBusy
  /\ server \in {"healthy", "mute", "gone"}
  /\ inbox \in Seq(Message)
  /\ flight \in Seq(0..AckDelay)
  /\ burst \in 0..Burst
  /\ readySent \in BOOLEAN
  /\ unackedFor \in 0..GhostLimit
  /\ muteFor \in 0..GhostLimit

(* A server that keeps acknowledging is never declared dead.  Not true of  *)
(* every caller: one that stays away lets the timers run on (see           *)
(* PromptCallerKeepsAlive in MCHeartbeat, BackstopAsDocumented below).     *)
NoFalseZombie == pc \in Zombied => server # "healthy"

(* The longest silence with which a read can begin, and what can come on   *)
(* top of it before the clock is looked at again.                          *)
Unwatched == MaxBusy + MaxStretch
DetectionBound == AtLeast(2 * interval, interval + Unwatched) + Unwatched + 1

(* Once no ACK is on its way any more the client notices within the        *)
(* backstop window, the caller's absences and the time that bytes without  *)
(* a message keep a read going, however many OP 1 requests and events      *)
(* arrive and push next_heartbeat back: the argument of the comment on     *)
(* ack_pending (heartbeat.rs:21-31).                                       *)
ZombieFoundInTime ==
  pc \in {"check", "read", "caller"} => muteFor <= DetectionBound

(* The READY wait outlasts its deadline, which is one for many reads       *)
(* (gateway/mod.rs:364-370), by no more than a single read can be          *)
(* stretched: whatever arrives, the deadline is not set anew.              *)
HandshakeBounded == late <= MaxStretch

(* "Maximum time we wait for a heartbeat ACK before declaring the          *)
(* connection dead" and the deadline of the READY wait (heartbeat.rs:      *)
(* 59-61), of a caller that comes straight back.                           *)
WindowIsKept == late = 0 /\ (pc \in {"check", "read"} => unackedFor <= 2 * interval + 1)

(* The documented meaning of the backstop (heartbeat.rs:67-68): it fires   *)
(* only if an ACK has been outstanding for more than the backstop window.  *)
BackstopAsDocumented == pc = "backstop" => unackedFor > 2 * interval
=============================================================================
