--------------------------- MODULE HeartbeatProofs ---------------------------
(* The heartbeat's type correctness and its zombie detection, proved for    *)
(* every interval, absence and delay.  The inductive strengthening of       *)
(* ZombieFoundInTime is MuteMeansSilent with Clocks: it relates the time    *)
(* since the server fell silent (muteFor) to the two clocks the client      *)
(* keeps, ackAge while an ACK is pending and hbIn while none is.            *)
EXTENDS MCHeartbeat, TLAPS

Live == {"check", "read", "caller"}

\* Before the HELLO nothing has been counted, after it the interval is legal.
HelloFirst ==
  /\ pc = "hello" => /\ unackedFor = 0 /\ muteFor = 0 /\ late = 0
                     /\ waitLeft = 0 /\ armed = 0 /\ stretched = 0
  /\ pc \in Live => interval > 0

\* TypeOK in two parts, so that no proof step reasons about queues and numbers at once.
QueueTypes == inbox \in Seq(Message) /\ flight \in Seq(0..AckDelay)

TimerTypes ==
  /\ armed \in 0..AtLeast(interval, 1)
  /\ waitLeft \in 0..armed
  /\ stretched \in 0..MaxStretch

NumberTypes ==
  /\ interval \in 0..MaxInterval
  /\ hbIn \in 0..interval
  /\ ackPending \in BOOLEAN
  /\ ackAge \in 0..(2 * interval + 1)
  /\ pc \in {"hello", "check", "read", "caller"} \cup Stopped
  /\ phase \in {"handshake", "session"}
  /\ deadline \in 0..(2 * interval)
  /\ TimerTypes
  /\ late \in 0..(MaxStretch + 1)
  /\ busyLeft \in 0..MaxBusy
  /\ server \in {"healthy", "mute", "gone"}
  /\ burst \in 0..Burst
  /\ readySent \in BOOLEAN
  /\ unackedFor \in 0..GhostLimit
  /\ muteFor \in 0..GhostLimit
  /\ HelloFirst

TypeInv == QueueTypes /\ NumberTypes

\* Longest silence a client can have seen when it starts a read with an ACK pending.
Armed == AtLeast(2 * interval, interval + Unwatched) + 1

\* muteFor counts from the moment no ACK can come any more.
MuteMeansSilent == muteFor > 0 => NoAckComing

\* last_ack is older than the silence (up to where ackAge saturates).
AckOlder == muteFor <= ackAge \/ ackAge > 2 * interval

\* While no ACK is pending the next heartbeat bounds the silence.
QuietSums ==
  /\ hbIn > 0 => muteFor + hbIn <= interval
  /\ pc = "read" => muteFor + waitLeft <= interval + stretched
  /\ pc = "caller" => muteFor + busyLeft <= interval + Unwatched
  /\ pc = "check" => muteFor <= interval + Unwatched

QuietBound == ~ackPending => QuietSums

\* While one is, the backstop does.
PendingSums ==
  /\ pc = "read" => muteFor + waitLeft <= Armed + stretched
  /\ pc = "caller" => muteFor + busyLeft <= Armed + Unwatched
  /\ pc = "check" => muteFor <= Armed + Unwatched

PendingBound == ackPending => PendingSums

-----------------------------------------------------------------------------
LEMMA SeqElement == ASSUME NEW S, NEW s \in Seq(S), NEW k \in 1..Len(s) PROVE s[k] \in S
OBVIOUS

LEMMA TypeInit == Init => TypeInv
<1> SUFFICES ASSUME Init PROVE TypeInv
  OBVIOUS
<1>1. QueueTypes
  BY DEF Init, QueueTypes
<1>2. /\ 0 \in 0..MaxInterval /\ 0 \in 0..MaxBusy /\ 0 \in 0..Burst
      /\ 0 \in 0..GhostLimit /\ 0 \in 0..AtLeast(interval, 1)
      /\ 0 \in 0..MaxStretch /\ 0 \in 0..(MaxStretch + 1)
  BY HeartbeatAssumption DEF HeartbeatAssumption, Init, GhostLimit, AtLeast
<1>3. /\ interval \in 0..MaxInterval /\ hbIn \in 0..interval
      /\ ackAge \in 0..(2 * interval + 1) /\ deadline \in 0..(2 * interval)
  BY <1>2 DEF Init
<1>4. pc \in {"hello", "check", "read", "caller"} \cup Stopped /\ HelloFirst
  BY DEF Init, HelloFirst, Live
<1>5. NumberTypes
  BY <1>2, <1>3, <1>4 DEF Init, NumberTypes, TimerTypes
<1> QED BY <1>1, <1>5 DEF TypeInv

\* A new heartbeat joins the ones in flight with age 0.
LEMMA SendQueue == ASSUME QueueTypes, Send PROVE flight' \in Seq(0..AckDelay)
<1>1. 0 \in 0..AckDelay
  BY HeartbeatAssumption DEF HeartbeatAssumption
<1>2. Append(flight, 0) \in Seq(0..AckDelay)
  BY <1>1 DEF QueueTypes
<1> QED BY <1>2 DEF QueueTypes, Send

LEMMA ReadQueue ==
  ASSUME QueueTypes, NEW m, Reading(m)
  PROVE  inbox' \in Seq(Message)
BY DEF QueueTypes, Reading

LEMMA QueueStep == ASSUME QueueTypes, [Next]_vars PROVE QueueTypes'
<1>1. ASSUME UNCHANGED <<inbox, flight>> PROVE QueueTypes'
  BY <1>1 DEF QueueTypes
<1>2. CASE \/ \E i \in HelloIntervals : Hello(i)
           \/ CheckZombie \/ CheckQuiet \/ WriteFails \/ ReadIdle \/ CallerPolls
           \/ ServerDrips \/ Done \/ UNCHANGED vars
  BY <1>1, <1>2
  DEF Hello, CheckZombie, CheckQuiet, WriteFails, ReadIdle, CallerPolls, ServerDrips, Done,
      vars, serverVars
<1>3. CASE CheckSend
  BY <1>3, SendQueue DEF CheckSend, QueueTypes
<1>4. CASE ReadAck
  BY <1>4, ReadQueue DEF ReadAck, AgeAfterAck, QueueTypes
<1>5. CASE ReadRequest
  <2>1. flight' \in Seq(0..AckDelay)
    <3>1. CASE BackstopFires
      BY <1>5, <3>1 DEF ReadRequest, QueueTypes
    <3>2. CASE ~BackstopFires
      BY <1>5, <3>2, SendQueue DEF ReadRequest
    <3> QED BY <3>1, <3>2
  <2> QED BY <1>5, <2>1, ReadQueue DEF ReadRequest, QueueTypes
<1>6. CASE ReadReady
  BY <1>6, ReadQueue DEF ReadReady, QueueTypes
<1>7. CASE ReadDispatch
  BY <1>7, ReadQueue DEF ReadDispatch, QueueTypes
<1>8. CASE ServerAcks
  BY <1>8 DEF ServerAcks, Deliver, QueueTypes, Message
<1>9. ASSUME NEW m \in {"op1", "ready", "dispatch"}, ServerSends(m) PROVE QueueTypes'
  BY <1>9 DEF ServerSends, Deliver, QueueTypes, Message
<1>10. ASSUME NEW s \in {"mute", "gone"}, ServerFails(s) PROVE QueueTypes'
  BY <1>10 DEF ServerFails, QueueTypes
<1>11. CASE Tick
  <2>1. \A k \in 1..Len(flight) : flight[k] \in 0..AckDelay
    BY SeqElement DEF QueueTypes
  <2>2. \A k \in 1..Len(flight) : flight[k] + 1 \in 0..AckDelay
    BY <1>11, <2>1, HeartbeatAssumption DEF Tick, HeartbeatAssumption
  <2>3. Len(flight) \in Nat
    BY DEF QueueTypes
  <2>4. flight' \in Seq(0..AckDelay)
    BY <1>11, <2>2, <2>3 DEF Tick
  <2> QED BY <1>11, <2>4 DEF Tick, QueueTypes
<1> QED
  BY <1>2, <1>3, <1>4, <1>5, <1>6, <1>7, <1>8, <1>9, <1>10, <1>11
  DEF Next, ClientStep, ServerStep

\* What the loops' head arms is a legal timeout.
LEMMA ArmTypes ==
  ASSUME NumberTypes, NEW next \in 0..interval, NEW pending \in BOOLEAN,
         ArmRead(next, pending), interval' = interval
  PROVE  TimerTypes' /\ pc' \in {"read", "handshakeTimeout"}
<1> USE HeartbeatAssumption DEF HeartbeatAssumption, NumberTypes, TimerTypes
<1>1. ASSUME NEW t \in 1..AtLeast(interval, 1), Arm(t)
      PROVE  /\ armed' \in 0..AtLeast(interval, 1) /\ waitLeft' \in 0..armed'
             /\ stretched' \in 0..MaxStretch /\ pc' = "read"
  BY <1>1 DEF Arm
<1>2. PollTimeout(next, pending) \in 1..AtLeast(interval, 1)
  BY DEF PollTimeout, BackstopWindow, AtLeast, AtMost
<1>3. deadline > 0 => AtMost(PollTimeout(next, pending), deadline) \in 1..AtLeast(interval, 1)
  BY <1>2 DEF AtMost, AtLeast
<1>4. CASE phase = "handshake" /\ deadline = 0
  BY <1>4 DEF ArmRead, timerVars
<1>5. CASE ~(phase = "handshake" /\ deadline = 0)
  BY <1>1, <1>2, <1>3, <1>5 DEF ArmRead
<1> QED BY <1>4, <1>5

LEMMA DisarmTypes ==
  ASSUME NumberTypes, Disarm, interval' = interval
  PROVE  TimerTypes'
BY HeartbeatAssumption DEF HeartbeatAssumption, NumberTypes, Disarm, TimerTypes, AtLeast

LEMMA TimersKept ==
  ASSUME NumberTypes, interval' = interval, UNCHANGED timerVars
  PROVE  TimerTypes'
BY DEF NumberTypes, TimerTypes, timerVars

\* Nothing but the queues changes.
LEMMA Unmoved ==
  ASSUME NumberTypes, UNCHANGED <<hbVars, clientVars, server, burst, readySent, ghostVars>>
  PROVE  NumberTypes'
<1>1. TimerTypes'
  BY TimersKept DEF hbVars, clientVars
<1> QED
  BY <1>1 DEF NumberTypes, HelloFirst, Live, GhostLimit, hbVars, clientVars, timerVars,
  ghostVars

LEMMA NumberStep == ASSUME NumberTypes, [Next]_vars PROVE NumberTypes'
<1> USE HeartbeatAssumption
    DEF HeartbeatAssumption, NumberTypes, HelloFirst, Live, Stopped, GhostLimit
<1>1. CASE \E i \in HelloIntervals : Hello(i)
  <2> PICK i \in HelloIntervals : Hello(i)
    BY <1>1
  <2>1. CASE BadInterval(i)
    BY <2>1, TimersKept DEF Hello, hbVars, serverVars, ghostVars
  <2>2. CASE ~BadInterval(i)
    <3>1. i \in 1..MaxInterval
      BY <2>2 DEF BadInterval
    <3>2. TimerTypes'
      <4>1. /\ armed \in 0..1 /\ waitLeft \in 0..armed /\ stretched \in 0..MaxStretch
            /\ UNCHANGED timerVars /\ interval' = i
        BY <2>2 DEF Hello, TimerTypes, AtLeast
      <4> QED BY ONLY <3>1, <4>1, HeartbeatAssumption
              DEF HeartbeatAssumption, timerVars, TimerTypes, AtLeast
    <3>3. /\ interval' = i /\ hbIn' \in 0..i /\ ackAge' \in 0..(2 * i + 1)
          /\ deadline' \in 0..(2 * i) /\ pc' = "check" /\ ackPending' = FALSE
      BY <2>2, <3>1 DEF Hello
    <3>4. unackedFor' \in 0..GhostLimit' /\ muteFor' \in 0..GhostLimit'
      BY <2>2, <3>1, <3>3 DEF Hello, ghostVars
    <3>5. UNCHANGED <<phase, busyLeft, server, burst, readySent, late>>
      BY <2>2 DEF Hello, serverVars, ghostVars
    <3>6. /\ interval' \in 0..MaxInterval /\ hbIn' \in 0..interval'
          /\ ackAge' \in 0..(2 * interval' + 1) /\ deadline' \in 0..(2 * interval')
          /\ interval' > 0
      BY <3>1, <3>3
    <3> HIDE DEF HeartbeatAssumption, GhostLimit
    <3> QED BY <3>2, <3>3, <3>4, <3>5, <3>6
  <2> QED BY <2>1, <2>2
<1>2. CASE CheckZombie
  BY <1>2, TimersKept DEF CheckZombie, hbVars, serverVars, ghostVars
<1>3. CASE CheckSend
  <2>1. interval \in 0..interval
    OBVIOUS
  <2>2. TimerTypes' /\ pc' \in {"read", "handshakeTimeout"}
    BY <1>3, <2>1, ArmTypes DEF CheckSend, Send
  <2> QED BY <1>3, <2>2 DEF CheckSend, Send
<1>4. CASE CheckQuiet
  <2>1. TimerTypes' /\ pc' \in {"read", "handshakeTimeout"}
    BY <1>4, ArmTypes DEF CheckQuiet, hbVars
  <2> QED BY <1>4, <2>1 DEF CheckQuiet, hbVars, serverVars, ghostVars
<1>5. CASE WriteFails
  BY <1>5, TimersKept DEF WriteFails, hbVars, serverVars, ghostVars
<1>6. CASE ReadAck
  <2>1. TimerTypes'
    BY <1>6, DisarmTypes DEF ReadAck, AgeAfterAck, Reading
  <2>2. /\ interval' = interval /\ ackAge' \in 0..(2 * interval + 1)
        /\ pc' = "check" /\ interval > 0 /\ ackPending' = FALSE
    BY <1>6 DEF ReadAck, AgeAfterAck, Reading
  <2> QED BY <1>6, <2>1, <2>2 DEF ReadAck, ghostVars
<1>7. CASE ReadRequest
  <2>1. TimerTypes'
    BY <1>7, DisarmTypes DEF ReadRequest, Reading, Send, hbVars
  <2>2. CASE BackstopFires
    BY <1>7, <2>1, <2>2 DEF ReadRequest, Reading, hbVars
  <2>3. CASE ~BackstopFires
    BY <1>7, <2>1, <2>3 DEF ReadRequest, Reading, Send
  <2> QED BY <2>2, <2>3
<1>8. CASE ReadReady
  BY <1>8, DisarmTypes DEF ReadReady, Reading, ReturnToCaller, hbVars
<1>9. CASE ReadDispatch
  BY <1>9, DisarmTypes DEF ReadDispatch, Reading, ReturnToCaller, hbVars, ghostVars
<1>10. CASE ReadIdle
  BY <1>10, DisarmTypes DEF ReadIdle, ReturnToCaller, hbVars, serverVars, ghostVars
<1>11. CASE CallerPolls
  BY <1>11, TimersKept DEF CallerPolls, hbVars, serverVars, ghostVars
<1>12. CASE ServerAcks
  <2>1. UNCHANGED <<hbVars, clientVars, server, burst, readySent, ghostVars>>
    BY <1>12 DEF ServerAcks
  <2> QED BY <2>1, Unmoved
<1>13. ASSUME NEW m \in {"op1", "ready", "dispatch"}, ServerSends(m) PROVE NumberTypes'
  BY <1>13, TimersKept DEF ServerSends, hbVars, clientVars, ghostVars
<1>14. ASSUME NEW s \in {"mute", "gone"}, ServerFails(s) PROVE NumberTypes'
  BY <1>14, TimersKept DEF ServerFails, hbVars, clientVars, ghostVars
<1>15. CASE Tick
  <2>1. unackedFor' \in 0..GhostLimit /\ muteFor' \in 0..GhostLimit
    BY <1>15 DEF Tick, AtMost
  <2>2. /\ hbIn' \in 0..interval /\ deadline' \in 0..(2 * interval)
        /\ busyLeft' \in 0..MaxBusy /\ ackAge' \in 0..(2 * interval + 1)
    BY <1>15 DEF Tick, Countdown, AtMost, AtLeast, BackstopWindow
  <2>3. TimerTypes'
    BY <1>15 DEF Tick, Countdown, AtLeast, TimerTypes
  <2>4. late' \in 0..(MaxStretch + 1)
    BY <1>15 DEF Tick, AtMost
  <2> QED BY <1>15, <2>1, <2>2, <2>3, <2>4 DEF Tick
<1>16. CASE Done \/ UNCHANGED vars
  <2>1. UNCHANGED <<hbVars, clientVars, server, burst, readySent, ghostVars>>
    BY <1>16 DEF Done, vars, serverVars
  <2> QED BY <2>1, Unmoved
<1>17. CASE ServerDrips
  <2>1. TimerTypes'
    BY <1>17 DEF ServerDrips, TimerTypes, hbVars
  <2> QED BY <1>17, <2>1 DEF ServerDrips, hbVars, serverVars, ghostVars
<1> QED
  BY <1>1, <1>2, <1>3, <1>4, <1>5, <1>6, <1>7, <1>8, <1>9, <1>10, <1>11, <1>12,
     <1>13, <1>14, <1>15, <1>16, <1>17
  DEF Next, ClientStep, ServerStep

LEMMA TypeInvariant == Spec => []TypeInv
<1>1. TypeInv /\ [Next]_vars => TypeInv'
  BY QueueStep, NumberStep DEF TypeInv
<1> QED BY TypeInit, <1>1, PTL DEF Spec

\* Every variable keeps its type: every counter and timer its range.
THEOREM TypeCorrect == Spec => []TypeOK
<1>1. TypeInv => TypeOK
  BY DEF TypeInv, QueueTypes, NumberTypes, TimerTypes, TypeOK
<1> QED BY <1>1, TypeInvariant, PTL

-----------------------------------------------------------------------------
\* Reading a frame and receiving one that is no ACK keep the silence.
LEMMA SilenceKept ==
  ASSUME QueueTypes, MuteMeansSilent, server' = server, muteFor' = muteFor,
         \/ \E m : Reading(m)
         \/ \E m \in {"op1", "ready", "dispatch"} : inbox' = Append(inbox, m)
  PROVE  MuteMeansSilent'
<1> SUFFICES ASSUME muteFor > 0, NoAckComing, NEW k \in 1..Len(inbox')
             PROVE  inbox'[k] # "ack"
  BY DEF MuteMeansSilent, NoAckComing
<1>1. CASE \E m : Reading(m)
  <2>1. inbox # <<>> /\ inbox' = Tail(inbox)
    BY <1>1 DEF Reading
  <2>2. k + 1 \in 1..Len(inbox) /\ inbox'[k] = inbox[k + 1]
    BY <2>1 DEF QueueTypes
  <2> QED BY <2>2 DEF NoAckComing
<1>2. ASSUME NEW m \in {"op1", "ready", "dispatch"}, inbox' = Append(inbox, m)
      PROVE  inbox'[k] # "ack"
  <2>1. CASE k \in 1..Len(inbox)
    <3>1. inbox'[k] = inbox[k]
      BY <1>2, <2>1 DEF QueueTypes
    <3> QED BY <2>1, <3>1 DEF NoAckComing
  <2>2. CASE k = Len(inbox) + 1
    <3>1. inbox'[k] = m
      BY <1>2, <2>2 DEF QueueTypes
    <3> QED BY <3>1
  <2> QED BY <1>2, <2>1, <2>2 DEF QueueTypes
<1> QED BY <1>1, <1>2

LEMMA MuteStep ==
  ASSUME TypeInv, MuteMeansSilent, [Next]_vars
  PROVE  MuteMeansSilent'
<1>1. ASSUME UNCHANGED <<inbox, server, muteFor>> PROVE MuteMeansSilent'
  BY <1>1 DEF MuteMeansSilent, NoAckComing
<1>2. CASE \/ \E i \in HelloIntervals : Hello(i)
           \/ CheckZombie \/ CheckSend \/ CheckQuiet \/ WriteFails \/ ReadIdle
           \/ CallerPolls \/ ServerDrips \/ Done \/ UNCHANGED vars
  BY <1>1, <1>2
  DEF Hello, CheckZombie, CheckSend, CheckQuiet, WriteFails, ReadIdle, CallerPolls,
      ServerDrips, Done, vars, serverVars, ghostVars
<1>3. CASE ReadAck \/ ReadRequest \/ ReadReady \/ ReadDispatch
  <2>1. (\E m : Reading(m)) /\ UNCHANGED <<server, muteFor>>
    BY <1>3 DEF ReadAck, ReadRequest, ReadReady, ReadDispatch, ghostVars
  <2> QED BY <2>1, SilenceKept DEF TypeInv
<1>4. CASE ServerAcks
  BY <1>4 DEF ServerAcks, MuteMeansSilent, NoAckComing, ghostVars
<1>5. ASSUME NEW m \in {"op1", "ready", "dispatch"}, ServerSends(m) PROVE MuteMeansSilent'
  <2>1. inbox' = Append(inbox, m) /\ UNCHANGED <<server, muteFor>>
    BY <1>5 DEF ServerSends, Deliver, ghostVars
  <2> QED BY <2>1, SilenceKept DEF TypeInv
<1>6. ASSUME NEW s \in {"mute", "gone"}, ServerFails(s) PROVE MuteMeansSilent'
  BY <1>6 DEF ServerFails, MuteMeansSilent, NoAckComing, ghostVars
<1>7. CASE Tick
  BY <1>7 DEF Tick, MuteMeansSilent, NoAckComing
<1> QED
  BY <1>2, <1>3, <1>4, <1>5, <1>6, <1>7 DEF Next, ClientStep, ServerStep

\* The conjuncts about the clocks, of which every step of the client keeps the sum bounded.
Clocks == pc \in Live => AckOlder /\ QuietBound /\ PendingBound

LEMMA ClocksInit == Init => Clocks
BY DEF Init, Clocks, Live

\* A step that ends the connection, or changes no clock and no place of the client.
LEMMA ClocksIdle ==
  ASSUME Clocks,
         \/ pc' \notin Live
         \/ UNCHANGED <<hbVars, pc, timerVars, busyLeft, muteFor>>
  PROVE  Clocks'
BY DEF Clocks, Live, AckOlder, QuietBound, QuietSums, PendingBound, PendingSums, Armed,
    AtLeast, hbVars, timerVars

\* The arithmetic of a read armed with an ACK pending: w is the timeout, m the silence.
LEMMA ArmedEnough ==
  ASSUME NEW i \in Nat, NEW b \in Nat, NEW age \in Nat, NEW m \in Nat, NEW w \in Nat,
         m <= age \/ age > 2 * i,
         m <= i + b \/ age <= 2 * i,
         w <= AtLeast(2 * i - age, 1)
  PROVE  m + w <= AtLeast(2 * i, i + b) + 1
BY DEF AtLeast

\* The arithmetic of a tick: one side of a bounded sum grows by at most what the other loses.
LEMMA SumKept ==
  ASSUME NEW m \in Nat, NEW n \in Nat, NEW c \in Nat, NEW m1 \in Nat, NEW n1 \in Nat,
         m + n <= c, m1 <= m + 1, n > 0, n1 = n - 1
  PROVE  m1 + n1 <= c
OBVIOUS

LEMMA SumBelow ==
  ASSUME NEW m \in Nat, NEW n \in Nat, NEW c \in Nat, NEW n1 \in Nat, m + n <= c, n1 <= n
  PROVE  m + n1 <= c
OBVIOUS

LEMMA PartBelow ==
  ASSUME NEW m \in Nat, NEW n \in Nat, NEW c \in Nat, NEW k \in Nat, m + n <= c, c <= k
  PROVE  m <= k
OBVIOUS

\* A read that has not been stretched yet.
LEMMA NotStretched ==
  ASSUME NEW m \in Nat, NEW w \in Nat, NEW c \in Nat, NEW s \in Nat, m + w <= c
  PROVE  m + w <= c + s
OBVIOUS

\* What a newly armed read has to satisfy.
LEMMA ClocksArmed ==
  ASSUME pc' = "read", AckOlder',
         ackPending' => muteFor' + waitLeft' <= Armed' + stretched',
         ~ackPending' => /\ hbIn' > 0 => muteFor' + hbIn' <= interval'
                         /\ muteFor' + waitLeft' <= interval' + stretched'
  PROVE  Clocks'
BY DEF Clocks, QuietBound, QuietSums, PendingBound, PendingSums

\* The loops' head: the read it arms ends before the bound.
LEMMA ClocksCheck ==
  ASSUME TypeInv, TypeInv', Clocks, CheckSend \/ CheckQuiet
  PROVE  Clocks'
<1> SUFFICES ASSUME pc' \in Live PROVE Clocks'
  BY ClocksIdle
<1> USE HeartbeatAssumption
    DEF HeartbeatAssumption, TypeInv, NumberTypes, TimerTypes, HelloFirst, Live, Clocks,
        AckOlder
<1>0. Unwatched \in Nat
  BY DEF Unwatched
<1>1. CASE CheckSend
  <2>1. /\ ackPending' = TRUE /\ muteFor' = muteFor /\ interval' = interval
        /\ ackAge' = ackAge /\ ~ackPending /\ pc = "check"
    BY <1>1 DEF CheckSend, Send, HeartbeatDue
  <2>2. /\ pc' = "read" /\ waitLeft' <= AtLeast(2 * interval - ackAge, 1)
        /\ stretched' = 0
    BY <1>1 DEF CheckSend, ArmRead, Arm, PollTimeout, BackstopWindow, AtLeast, AtMost
  <2>3. muteFor <= interval + Unwatched
    BY <2>1 DEF QuietBound, QuietSums
  <2>4. waitLeft' \in Nat
    OBVIOUS
  <2>5. /\ interval \in Nat /\ Unwatched \in Nat /\ ackAge \in Nat /\ muteFor \in Nat
        /\ muteFor <= ackAge \/ ackAge > 2 * interval
    BY <1>0, <2>1
  <2>6. muteFor' + waitLeft' <= Armed' + stretched'
    <3>1. muteFor + waitLeft' <= Armed
      BY ONLY <2>2, <2>3, <2>4, <2>5, ArmedEnough DEF Armed
    <3>2. Armed' = Armed /\ Armed \in Nat
      BY ONLY <2>1, <2>5 DEF Armed, AtLeast
    <3>3. muteFor' \in Nat /\ stretched' \in Nat /\ muteFor' + waitLeft' <= Armed'
      BY ONLY <2>1, <2>2, <2>5, <3>1, <3>2
    <3> QED BY ONLY <2>4, <3>2, <3>3, NotStretched
  <2>7. AckOlder'
    BY <2>1
  <2> QED BY ONLY <2>1, <2>2, <2>6, <2>7, ClocksArmed
<1>2. CASE CheckQuiet
  <2>1. /\ UNCHANGED <<interval, hbIn, ackPending, ackAge, muteFor>>
        /\ pc = "check" /\ hbIn > 0 /\ (ackPending => ackAge <= 2 * interval)
    BY <1>2 DEF CheckQuiet, BackstopFires, BackstopWindow, hbVars, ghostVars
  <2>2. waitLeft' \in Nat
    OBVIOUS
  <2>3. CASE ackPending
    <3>1. /\ pc' = "read" /\ waitLeft' <= AtLeast(2 * interval - ackAge, 1)
          /\ stretched' = 0
      BY <1>2, <2>3 DEF CheckQuiet, ArmRead, Arm, PollTimeout, BackstopWindow, AtLeast, AtMost
    <3>2. muteFor' + waitLeft' <= Armed' + stretched'
      <4>1. /\ interval \in Nat /\ Unwatched \in Nat /\ ackAge \in Nat /\ muteFor \in Nat
            /\ muteFor <= ackAge /\ ackAge <= 2 * interval
        BY <1>0, <2>1, <2>3
      <4>2. interval' = interval /\ muteFor' = muteFor
        BY <2>1
      <4>3. muteFor + waitLeft' <= Armed
        BY ONLY <2>2, <3>1, <4>1, ArmedEnough DEF Armed
      <4>4. Armed' = Armed /\ Armed \in Nat
        BY ONLY <4>1, <4>2 DEF Armed, AtLeast
      <4>5. muteFor' \in Nat /\ stretched' \in Nat /\ muteFor' + waitLeft' <= Armed'
        BY ONLY <3>1, <4>1, <4>2, <4>3, <4>4
      <4> QED BY ONLY <2>2, <4>4, <4>5, NotStretched
    <3>3. AckOlder' /\ ackPending' = TRUE
      BY <2>1, <2>3
    <3> QED BY ONLY <3>1, <3>2, <3>3, ClocksArmed
  <2>4. CASE ~ackPending
    <3>1. pc' = "read" /\ waitLeft' <= hbIn /\ stretched' = 0
      BY <1>2, <2>1, <2>4 DEF CheckQuiet, ArmRead, Arm, PollTimeout, AtLeast, AtMost
    <3>2. /\ interval' = interval /\ hbIn' = hbIn /\ muteFor' = muteFor
          /\ muteFor + hbIn <= interval
          /\ interval \in Nat /\ hbIn \in Nat /\ muteFor \in Nat
      BY <2>1, <2>4 DEF QuietBound, QuietSums
    <3>3. /\ muteFor' + hbIn' <= interval'
          /\ muteFor' + waitLeft' <= interval' + stretched'
      <4>1. muteFor + waitLeft' <= interval
        BY ONLY <2>2, <3>1, <3>2, SumBelow
      <4>2. muteFor + waitLeft' <= interval + stretched'
        BY ONLY <2>2, <3>1, <3>2, <4>1, NotStretched
      <4> QED BY ONLY <3>2, <4>2
    <3>4. AckOlder' /\ ackPending' = FALSE
      BY <2>1, <2>4
    <3> QED BY ONLY <3>1, <3>3, <3>4, ClocksArmed
  <2> QED BY <2>3, <2>4
<1> QED BY <1>1, <1>2

\* A frame is read, or the read times out; the caller returns.
LEMMA ClocksRead ==
  ASSUME TypeInv, MuteMeansSilent, Clocks,
         ReadAck \/ ReadRequest \/ ReadReady \/ ReadDispatch \/ ReadIdle \/ CallerPolls
  PROVE  Clocks'
<1> USE HeartbeatAssumption
    DEF HeartbeatAssumption, TypeInv, NumberTypes, TimerTypes, HelloFirst, Live, Clocks,
        AckOlder, Armed, AtLeast, Unwatched
<1>1. CASE ReadAck
  <2>1. muteFor = 0
    <3>1. Len(inbox) \in Nat /\ 1 \in 1..Len(inbox) /\ inbox[1] = "ack"
      BY <1>1 DEF ReadAck, AgeAfterAck, Reading, QueueTypes
    <3> QED BY <3>1 DEF MuteMeansSilent, NoAckComing
  <2>2. /\ UNCHANGED <<interval, hbIn, muteFor>> /\ ackPending' = FALSE
        /\ pc' = "check" /\ ackAge' \in Nat
    BY <1>1 DEF ReadAck, AgeAfterAck, ghostVars
  <2>3. interval \in Nat /\ hbIn \in 0..interval /\ Unwatched \in Nat
    OBVIOUS
  <2>4. QuietSums' /\ AckOlder'
    BY ONLY <2>1, <2>2, <2>3 DEF QuietSums, AckOlder
  <2> QED BY <2>2, <2>4 DEF QuietBound, PendingBound
<1>2. CASE ReadRequest
  <2>1. CASE BackstopFires
    BY <1>2, <2>1, ClocksIdle DEF ReadRequest
  <2>2. CASE ~BackstopFires
    <3>1. /\ UNCHANGED <<interval, ackAge, muteFor>> /\ ackPending' = TRUE
          /\ pc = "read" /\ pc' = "check"
      BY <1>2, <2>2 DEF ReadRequest, Reading, Send
    <3> QED BY <3>1 DEF QuietBound, QuietSums, PendingBound, PendingSums
  <2> QED BY <2>1, <2>2
<1>3. CASE ReadReady \/ ReadDispatch \/ ReadIdle
  <2>1. /\ UNCHANGED <<interval, hbIn, ackPending, ackAge, muteFor>> /\ pc = "read"
        /\ \/ pc' = "caller" /\ busyLeft' \in 0..MaxBusy
           \/ pc' = "check"
           \/ pc' = "unexpected"
    BY <1>3
    DEF ReadReady, ReadDispatch, ReadIdle, Reading, ReturnToCaller, hbVars, ghostVars
  <2> QED BY <2>1 DEF QuietBound, QuietSums, PendingBound, PendingSums
<1>4. CASE CallerPolls
  <2>1. /\ UNCHANGED <<interval, hbIn, ackPending, ackAge, muteFor>>
        /\ pc = "caller" /\ pc' = "check"
    BY <1>4 DEF CallerPolls, hbVars, ghostVars
  <2> QED BY <2>1 DEF QuietBound, QuietSums, PendingBound, PendingSums
<1> QED BY <1>1, <1>2, <1>3, <1>4

\* Time passes on both sides of every sum.
LEMMA ClocksTick == ASSUME TypeInv, Clocks, Tick PROVE Clocks'
<1> USE HeartbeatAssumption DEF HeartbeatAssumption, TypeInv, NumberTypes, TimerTypes, Live, Clocks
<1>1. /\ UNCHANGED <<interval, ackPending, pc, stretched>>
      /\ muteFor' \in Nat /\ muteFor' <= muteFor + 1
      /\ hbIn' = (IF hbIn > 0 THEN hbIn - 1 ELSE 0)
      /\ ackAge' = (IF ackAge <= 2 * interval THEN ackAge + 1 ELSE 2 * interval + 1)
      /\ \/ pc = "caller" /\ busyLeft > 0 /\ busyLeft' = busyLeft - 1
         \/ pc = "read" /\ waitLeft > 0 /\ waitLeft' = waitLeft - 1
  BY DEF Tick, Countdown, AtLeast, AtMost, BackstopWindow, GhostLimit
<1>2. AckOlder'
  BY <1>1 DEF AckOlder
<1>3. QuietSums => QuietSums'
  <2>1. /\ interval \in Nat /\ hbIn \in Nat /\ muteFor \in Nat /\ waitLeft \in Nat
        /\ busyLeft \in Nat /\ stretched \in Nat /\ Unwatched \in Nat
    BY DEF Unwatched
  <2>2. /\ interval' = interval /\ pc' = pc /\ muteFor' \in Nat /\ muteFor' <= muteFor + 1
        /\ stretched' = stretched /\ hbIn' \in Nat
        /\ hbIn' > 0 => hbIn > 0 /\ hbIn' = hbIn - 1
        /\ pc = "caller" => busyLeft > 0 /\ busyLeft' = busyLeft - 1 /\ busyLeft' \in Nat
        /\ pc = "read" => waitLeft > 0 /\ waitLeft' = waitLeft - 1 /\ waitLeft' \in Nat
        /\ pc \in {"caller", "read"}
    BY <1>1
  <2> SUFFICES ASSUME QuietSums PROVE QuietSums'
    OBVIOUS
  <2>3. interval + Unwatched \in Nat /\ interval + stretched \in Nat
    BY <2>1
  <2>4. hbIn' > 0 => muteFor' + hbIn' <= interval
    BY <2>1, <2>2, SumKept DEF QuietSums
  <2>5. pc = "read" => muteFor' + waitLeft' <= interval + stretched
    BY <2>1, <2>2, <2>3, SumKept DEF QuietSums
  <2>6. pc = "caller" => muteFor' + busyLeft' <= interval + Unwatched
    BY <2>1, <2>2, <2>3, SumKept DEF QuietSums
  <2> QED BY <2>2, <2>4, <2>5, <2>6 DEF QuietSums
<1>4. PendingSums => PendingSums'
  BY <1>1 DEF PendingSums, Armed, AtLeast, Unwatched
<1>5. QuietBound' /\ PendingBound'
  BY ONLY <1>1, <1>3, <1>4, Clocks, pc \in Live DEF Clocks, QuietBound, PendingBound
<1> QED BY <1>2, <1>5

LEMMA ZeroSum ==
  ASSUME NEW m \in Nat, NEW n \in Nat, NEW c \in Nat, m = 0, n <= c
  PROVE  m + n <= c
OBVIOUS

\* Bytes without a message: the read gets longer by what it has outlasted its timeout.
LEMMA ClocksDrip == ASSUME TypeInv, Clocks, ServerDrips PROVE Clocks'
<1> USE DEF TypeInv, NumberTypes, TimerTypes
<1>1. /\ UNCHANGED <<interval, hbIn, ackPending, ackAge, pc, muteFor, busyLeft>>
      /\ pc = "read"
      /\ waitLeft' = armed /\ stretched' = stretched + (armed - waitLeft)
  BY DEF ServerDrips, hbVars, ghostVars
<1>2. /\ interval \in Nat /\ hbIn \in Nat /\ muteFor \in Nat /\ waitLeft \in Nat
      /\ armed \in Nat /\ stretched \in Nat
  BY HeartbeatAssumption DEF HeartbeatAssumption, AtLeast
<1>3. QuietSums => QuietSums'
  BY ONLY <1>1, <1>2 DEF QuietSums
<1>4. Armed' = Armed /\ Armed \in Int
  BY <1>1, HeartbeatAssumption DEF Armed, HeartbeatAssumption, AtLeast, Unwatched
<1>5. PendingSums => PendingSums'
  BY ONLY <1>1, <1>2, <1>4 DEF PendingSums
<1>6. AckOlder'
  BY <1>1 DEF Clocks, Live, AckOlder
<1> QED BY <1>1, <1>3, <1>5, <1>6 DEF Clocks, Live, QuietBound, PendingBound

LEMMA ClocksStep ==
  ASSUME TypeInv, TypeInv', MuteMeansSilent, Clocks, [Next]_vars
  PROVE  Clocks'
<1>1. ASSUME NEW i \in HelloIntervals, Hello(i) PROVE Clocks'
  <2>1. CASE BadInterval(i)
    BY <1>1, <2>1, ClocksIdle DEF Hello, Live
  <2>2. CASE ~BadInterval(i)
    <3> Unwatched \in Nat
      BY HeartbeatAssumption DEF HeartbeatAssumption, Unwatched
    <3>1. /\ pc' = "check" /\ ackPending' = FALSE /\ ackAge' = 0 /\ muteFor' = 0
          /\ interval' = i /\ hbIn' <= i /\ hbIn' \in Nat /\ i \in Nat
      BY <1>1, <2>2, HeartbeatAssumption
      DEF Hello, HeartbeatAssumption, TypeInv, NumberTypes, HelloFirst, ghostVars
    <3>2. AckOlder' /\ QuietSums'
      <4>1. /\ pc' = "check" /\ ackAge' = 0 /\ muteFor' = 0 /\ interval' = i
            /\ hbIn' <= i /\ hbIn' \in Nat /\ i \in Nat
        BY <3>1
      <4>2. AckOlder' /\ muteFor' <= interval' + Unwatched
        BY ONLY <4>1, Unwatched \in Nat DEF AckOlder
      <4>3. muteFor' + hbIn' <= interval'
        BY <4>1, ZeroSum
      <4> QED BY ONLY <4>1, <4>2, <4>3 DEF QuietSums
    <3> QED BY <3>1, <3>2 DEF Clocks, QuietBound, PendingBound
  <2> QED BY <2>1, <2>2
<1>2. CASE CheckZombie \/ WriteFails
  BY <1>2, ClocksIdle DEF CheckZombie, WriteFails, Live
<1>3. CASE (ServerStep /\ ~ServerDrips) \/ Done \/ UNCHANGED vars
  BY <1>3, ClocksIdle
  DEF ServerStep, ServerAcks, ServerSends, ServerFails, Done, vars, clientVars, ghostVars
<1> QED
  BY <1>1, <1>2, <1>3, ClocksDrip, ClocksCheck, ClocksRead, ClocksTick DEF Next, ClientStep

\* A connection whose ACKs have stopped is declared dead within DetectionBound,
\* for every interval, caller's absence, stretched read and sequence of requests
\* and events.
THEOREM ZombieDetection == Spec => []ZombieFoundInTime
<1> DEFINE Inv == TypeInv /\ MuteMeansSilent /\ Clocks
<1>1. Init => Inv
  BY TypeInit, ClocksInit DEF Init, MuteMeansSilent
<1>2. Inv /\ [Next]_vars => Inv'
  <2> SUFFICES ASSUME Inv, [Next]_vars PROVE Inv'
    OBVIOUS
  <2>1. TypeInv'
    BY QueueStep, NumberStep DEF TypeInv
  <2> QED BY <2>1, MuteStep, ClocksStep
<1>3. Inv => ZombieFoundInTime
  BY HeartbeatAssumption
  DEF HeartbeatAssumption, TypeInv, NumberTypes, TimerTypes, HelloFirst, Live, Clocks,
      QuietBound, QuietSums, PendingBound, PendingSums, Armed, AtLeast, Unwatched,
      ZombieFoundInTime, DetectionBound
<1> QED BY <1>1, <1>2, <1>3, PTL DEF Spec

-----------------------------------------------------------------------------
(* The READY wait: late counts from the deadline on, so a read that began  *)
(* before it is as late as it was stretched, and no other begins.          *)
HandshakeClock ==
  /\ late <= MaxStretch
  /\ late > 0 => deadline = 0
  /\ phase = "session" => late = 0
  /\ pc = "caller" => phase = "session"
  /\ pc = "read" /\ phase = "handshake" => late + waitLeft <= deadline + stretched

\* The loops' head begins a read only before the deadline.
LEMMA HandshakeCheck ==
  ASSUME TypeInv, HandshakeClock, CheckSend \/ CheckQuiet
  PROVE  HandshakeClock'
<1> USE HeartbeatAssumption
    DEF HeartbeatAssumption, TypeInv, NumberTypes, TimerTypes, HandshakeClock
<1>1. PICK next \in 0..interval, pending \in BOOLEAN : ArmRead(next, pending)
  <2>1. interval \in 0..interval /\ hbIn \in 0..interval /\ ackPending \in BOOLEAN
    OBVIOUS
  <2>2. ArmRead(interval, TRUE) \/ ArmRead(hbIn, ackPending)
    BY DEF CheckSend, CheckQuiet
  <2> QED BY ONLY <2>1, <2>2
<1>0. PollTimeout(next, pending) \in Nat
  BY DEF PollTimeout, BackstopWindow, AtLeast, AtMost
<1>2. UNCHANGED <<phase, deadline, late>>
  BY DEF CheckSend, CheckQuiet, ghostVars
<1>3. CASE phase = "handshake" /\ deadline = 0
  BY <1>1, <1>2, <1>3 DEF ArmRead
<1>4. CASE phase = "handshake" /\ deadline > 0
  <2>1. /\ pc' = "read" /\ waitLeft' = AtMost(PollTimeout(next, pending), deadline)
        /\ stretched' = 0
    BY <1>1, <1>4 DEF ArmRead, Arm
  <2>2. waitLeft' <= deadline
    BY <2>1, <1>0 DEF AtMost
  <2>3. late = 0 /\ waitLeft' \in Nat /\ deadline \in Nat
    BY <1>0, <1>4, <2>1 DEF AtMost
  <2>4. late + waitLeft' <= deadline + stretched'
    BY ONLY <2>1, <2>2, <2>3
  <2>5. late' + waitLeft' <= deadline' + stretched'
    BY <1>2, <2>4
  <2> QED BY <1>2, <1>4, <2>1, <2>3, <2>5
<1>5. CASE phase = "session"
  BY <1>1, <1>2, <1>5 DEF ArmRead, Arm
<1> QED BY <1>3, <1>4, <1>5

\* A tick is taken off the read and the deadline, or counted as late.
LEMMA HandshakeTick ==
  ASSUME TypeInv, HandshakeClock, Tick
  PROVE  HandshakeClock'
<1> USE HeartbeatAssumption
    DEF HeartbeatAssumption, TypeInv, NumberTypes, TimerTypes, HandshakeClock
<1>1. /\ UNCHANGED <<pc, phase, stretched>>
      /\ pc = "caller" \/ (pc = "read" /\ waitLeft > 0 /\ waitLeft' = waitLeft - 1)
      /\ deadline' = IF deadline > 0 THEN deadline - 1 ELSE 0
  BY DEF Tick, Countdown, AtLeast
<1>2. CASE phase = "session"
  BY <1>1, <1>2 DEF Tick
<1>3. CASE phase = "handshake" /\ deadline > 0
  <2>1. late' = late /\ late = 0
    BY <1>3 DEF Tick
  <2> QED BY <1>1, <1>3, <2>1
<1>4. CASE phase = "handshake" /\ deadline = 0
  <2>1. late' <= late + 1 /\ late' \in Nat /\ pc = "read"
    BY <1>1, <1>4 DEF Tick, AtMost
  <2>2. /\ late \in Nat /\ waitLeft \in Nat /\ stretched \in Nat /\ stretched <= MaxStretch
        /\ late + waitLeft <= stretched /\ MaxStretch \in Nat
    BY <1>1, <1>4, <2>1 DEF AtLeast
  <2>3. /\ waitLeft > 0 /\ waitLeft' = waitLeft - 1 /\ waitLeft' \in Nat
        /\ stretched' = stretched /\ deadline' = 0
    BY <1>1, <1>4, <2>1, <2>2
  <2>4. late' + waitLeft' <= stretched
    BY ONLY <2>1, <2>2, <2>3, SumKept
  <2>5. late' <= MaxStretch
    BY ONLY <2>1, <2>2, <2>3, <2>4, PartBelow
  <2>6. late' + waitLeft' <= deadline' + stretched'
    <3>1. deadline' + stretched' = stretched
      BY ONLY <2>2, <2>3
    <3> QED BY <2>4, <3>1
  <2> QED BY <1>1, <1>4, <2>1, <2>3, <2>5, <2>6
<1> QED BY <1>2, <1>3, <1>4

LEMMA HandshakeStep ==
  ASSUME TypeInv, HandshakeClock, [Next]_vars
  PROVE  HandshakeClock'
<1> USE DEF HandshakeClock
<1>1. ASSUME NEW i \in HelloIntervals, Hello(i) PROVE HandshakeClock'
  BY <1>1, HeartbeatAssumption
  DEF Hello, HeartbeatAssumption, TypeInv, NumberTypes, HelloFirst, ghostVars
<1>2. CASE CheckZombie \/ WriteFails
  BY <1>2 DEF CheckZombie, WriteFails, Zombied, ghostVars
<1>3. CASE ReadAck \/ ReadRequest \/ ReadReady \/ ReadDispatch \/ ReadIdle
  BY <1>3, HeartbeatAssumption
  DEF HeartbeatAssumption, ReadAck, ReadRequest, ReadReady, ReadDispatch, ReadIdle,
      ReturnToCaller, TypeInv, NumberTypes, ghostVars
<1>4. CASE CallerPolls
  BY <1>4 DEF CallerPolls, ghostVars
<1>5. CASE ServerDrips
  BY <1>5, HeartbeatAssumption
  DEF HeartbeatAssumption, ServerDrips, TypeInv, NumberTypes, TimerTypes, AtLeast, ghostVars
<1>6. CASE (ServerStep /\ ~ServerDrips) \/ Done \/ UNCHANGED vars
  BY <1>6
  DEF ServerStep, ServerAcks, ServerSends, ServerFails, Done, vars, clientVars, timerVars,
      ghostVars
<1> QED
  BY <1>1, <1>2, <1>3, <1>4, <1>5, <1>6, HandshakeCheck, HandshakeTick DEF Next, ClientStep

\* Whatever arrives in the READY wait, its deadline is missed by no more than the
\* time that bytes without a message can keep one read going.
THEOREM HandshakeOnTime == Spec => []HandshakeBounded
<1>1. Init => HandshakeClock
  BY HeartbeatAssumption DEF HeartbeatAssumption, Init, HandshakeClock
<1>2. TypeInv /\ HandshakeClock /\ [Next]_vars => HandshakeClock'
  BY HandshakeStep
<1>3. HandshakeClock => HandshakeBounded
  BY DEF HandshakeClock, HandshakeBounded
<1> QED BY <1>1, <1>2, <1>3, TypeInvariant, PTL DEF Spec

-----------------------------------------------------------------------------
\* What the caller's absences and stretched reads may add up to while nobody says "away".
Brief(n) == n <= 0 \/ 2 * n + AckDelay <= interval

\* While no ACK is pending, last_ack and the next heartbeat are an interval apart, but for
\* what went unwatched since the last check.
AckedSums ==
  /\ hbIn > 0 => ackAge + hbIn <= interval
  /\ pc = "read" => ackAge + waitLeft <= interval + unwatched
  /\ pc = "caller" => ackAge <= interval + unwatched
  /\ pc = "check" => unwatched = 0 /\ Brief(ackAge - interval)

\* While one is, last_ack is older than the first heartbeat without ACK by as much.
AwaitedSums ==
  /\ Brief(ackAge - interval - unackedFor)
  /\ hbIn + unackedFor >= interval

\* A healthy server's ACK is on its way, or waits for the caller.
AckComes ==
  \/ \E k \in 1..Len(flight) : flight[k] >= unackedFor
  \/ /\ \E k \in 1..Len(inbox) : inbox[k] = "ack"
     /\ unackedFor <= AckDelay + unwatched

\* What holds as long as nobody was away.
PromptSums ==
  /\ unwatched > 0 => 2 * unwatched + AckDelay <= interval
  /\ pc \in Live /\ ~ackPending => AckedSums
  /\ pc \in Live /\ ackPending => AwaitedSums
  /\ pc \in Live /\ ackPending /\ server = "healthy" => AckComes
  /\ NoFalseZombie

PromptInv ==
  /\ unwatched \in 0..MaxInterval /\ wasAway \in BOOLEAN
  /\ pc = "hello" => unwatched = 0
  /\ pc \in Live => AckDelay < interval
  /\ ~wasAway => PromptSums

Numbers == /\ interval \in Nat /\ hbIn \in Nat /\ ackAge \in Nat /\ waitLeft \in Nat
           /\ unwatched \in Nat /\ unackedFor \in Nat /\ AckDelay \in Nat
           /\ ackPending \in BOOLEAN

LEMMA NumbersAre ==
  ASSUME TypeInv, PromptInv
  PROVE  Numbers
BY HeartbeatAssumption
DEF HeartbeatAssumption, TypeInv, NumberTypes, TimerTypes, PromptInv, Numbers, AtLeast, GhostLimit

\* Facts about numbers, stated apart from the state.
LEMMA NoLess == ASSUME NEW m \in Nat, NEW n \in Nat PROVE AtLeast(m - n, 0) \in Nat
BY DEF AtLeast

LEMMA NotAbove ==
  ASSUME NEW u \in Nat, NEW d \in Nat, NEW i \in Nat, ~(u > 0 /\ 2 * u + d > i)
  PROVE  u > 0 => 2 * u + d <= i
OBVIOUS

\* The time the caller has left goes down while it works.
LEMMA WorkGoesDown ==
  ASSUME TypeInv, Next
  PROVE  /\ pc = "caller" => busyLeft - busyLeft' \in Nat
         /\ AtLeast(stretched' - stretched, 0) \in Nat
<1>1. TypeInv'
  BY QueueStep, NumberStep DEF TypeInv
<1>2. AtLeast(stretched' - stretched, 0) \in Nat
  <2>1. stretched \in Nat /\ stretched' \in Nat
    BY <1>1, HeartbeatAssumption DEF HeartbeatAssumption, TypeInv, NumberTypes, TimerTypes
  <2> QED BY <2>1, NoLess
<1>3. ASSUME pc = "caller" PROVE busyLeft' = busyLeft \/ busyLeft' = Countdown(busyLeft)
  BY <1>3
  DEF Next, ClientStep, ServerStep, Hello, CheckZombie, CheckSend, CheckQuiet, WriteFails,
      Reading, ReadAck, ReadRequest, ReadReady, ReadDispatch, ReadIdle, CallerPolls,
      ServerAcks, ServerSends, ServerDrips, ServerFails, Tick, Done, vars, clientVars
<1>4. ASSUME pc = "caller" PROVE busyLeft - busyLeft' \in Nat
  BY <1>3, <1>4, HeartbeatAssumption
  DEF HeartbeatAssumption, Countdown, AtLeast, TypeInv, NumberTypes
<1> QED BY <1>2, <1>4

\* What goes unwatched is counted in full as long as the caller was never away.
LEMMA UnwatchedDoes ==
  ASSUME TypeInv, PromptInv, MCNext
  PROVE  /\ unwatched' \in 0..MaxInterval /\ wasAway' \in BOOLEAN
         /\ ~wasAway' =>
              /\ ~wasAway
              /\ unwatched' > 0 => 2 * unwatched' + AckDelay <= interval
              /\ unwatched' = IF pc' = "check" /\ ~ackPending' THEN 0
                              ELSE unwatched + (IF pc = "caller" THEN busyLeft - busyLeft' ELSE 0)
                                     + AtLeast(stretched' - stretched, 0)
<1> DEFINE worked == IF pc = "caller" THEN busyLeft - busyLeft' ELSE 0
           drawn  == AtLeast(stretched' - stretched, 0)
<1>1. worked \in Nat /\ drawn \in Nat
  BY WorkGoesDown DEF MCNext
<1>2. unwatched' = IF pc' = "check" /\ ~ackPending' THEN 0
                   ELSE AtMost(unwatched + worked + drawn, MaxInterval)
  BY DEF MCNext
<1>3. wasAway' = (wasAway \/ (unwatched' > 0 /\ 2 * unwatched' + AckDelay > interval))
  BY Zenon DEF MCNext
<1>4. MaxInterval \in Nat /\ MaxInterval > 0 /\ AckDelay \in Nat /\ interval \in 0..MaxInterval
      /\ unwatched \in 0..MaxInterval
  BY HeartbeatAssumption DEF HeartbeatAssumption, TypeInv, NumberTypes, PromptInv
<1> HIDE DEF worked, drawn
<1>5. unwatched' \in 0..MaxInterval
  BY <1>1, <1>2, <1>4 DEF AtMost
<1>6. wasAway' \in BOOLEAN
  BY <1>3, Zenon DEF PromptInv
<1>7. ASSUME ~wasAway'
      PROVE  ~wasAway /\ ~(unwatched' > 0 /\ 2 * unwatched' + AckDelay > interval)
  BY <1>3, <1>7, Zenon
<1>8. ASSUME ~wasAway'
      PROVE  unwatched' > 0 => 2 * unwatched' + AckDelay <= interval
  <2>1. unwatched' \in Nat /\ interval \in Nat /\ AckDelay \in Nat
    BY <1>4, <1>5
  <2>2. ~(unwatched' > 0 /\ 2 * unwatched' + AckDelay > interval)
    BY <1>7, <1>8, Zenon
  <2> QED BY ONLY <2>1, <2>2, NotAbove
<1>9. ASSUME ~wasAway', ~(pc' = "check" /\ ~ackPending')
      PROVE  unwatched' = unwatched + worked + drawn
  <2>1. unwatched' = AtMost(unwatched + worked + drawn, MaxInterval)
    BY <1>2, <1>9
  <2>2. unwatched' # MaxInterval
    BY <1>4, <1>8, <1>9
  <2> QED BY <1>1, <1>4, <2>1, <2>2 DEF AtMost
<1>10. ASSUME ~wasAway'
       PROVE  unwatched' = IF pc' = "check" /\ ~ackPending' THEN 0
                          ELSE unwatched + worked + drawn
  BY <1>2, <1>9, <1>10
<1> QED BY <1>5, <1>6, <1>7, <1>8, <1>10 DEF worked, drawn

LEMMA Zero == ASSUME NEW s \in Nat, NEW u \in Nat
              PROVE  /\ u + 0 + AtLeast(s - s, 0) = u
                     /\ u + 0 + AtLeast(0 - s, 0) = u
BY DEF AtLeast

LEMMA Watched ==
  ASSUME TypeInv, PromptInv, MCNext, ~wasAway', stretched' \in {stretched, 0},
         pc = "caller" => busyLeft' = busyLeft
  PROVE  unwatched' = IF pc' = "check" /\ ~ackPending' THEN 0 ELSE unwatched
<1>1. unwatched' = IF pc' = "check" /\ ~ackPending' THEN 0
                   ELSE unwatched + (IF pc = "caller" THEN busyLeft - busyLeft' ELSE 0)
                          + AtLeast(stretched' - stretched, 0)
  BY UnwatchedDoes
<1>2. stretched \in Nat /\ busyLeft \in Nat /\ unwatched \in Nat
  BY HeartbeatAssumption DEF HeartbeatAssumption, TypeInv, NumberTypes, TimerTypes, PromptInv
<1>3. (IF pc = "caller" THEN busyLeft - busyLeft' ELSE 0) = 0
  BY <1>2
<1>4. unwatched + 0 + AtLeast(stretched' - stretched, 0) = unwatched
  BY <1>2, Zero
<1> QED BY <1>1, <1>3, <1>4

\* With the ACK on its way and a caller that was not away neither verdict falls.
LEMMA NoVerdict ==
  ASSUME TypeInv, PromptInv, ~wasAway, pc \in Live, ackPending, server = "healthy"
  PROVE  ~BackstopFires /\ ~OverdueFires
<1>1. Numbers /\ AckDelay < interval
  BY NumbersAre DEF PromptInv
<1>2. unackedFor <= AckDelay + unwatched
  <2>1. AckComes
    BY DEF PromptInv, PromptSums
  <2>2. ASSUME NEW k \in 1..Len(flight), flight[k] >= unackedFor
        PROVE  unackedFor <= AckDelay
    <3>1. flight[k] \in 0..AckDelay
      BY SeqElement DEF TypeInv, QueueTypes
    <3> QED BY <1>1, <2>2, <3>1 DEF Numbers
  <2> QED BY <1>1, <2>1, <2>2 DEF AckComes, Numbers
<1>3. Brief(ackAge - interval - unackedFor) /\ hbIn + unackedFor >= interval
  BY DEF PromptInv, PromptSums, AwaitedSums
<1>4. unwatched > 0 => 2 * unwatched + AckDelay <= interval
  BY DEF PromptInv, PromptSums
<1>5. unackedFor < interval
  BY <1>1, <1>2, <1>4 DEF Numbers
<1>6. ackAge <= 2 * interval
  <2>1. CASE ackAge - interval - unackedFor <= 0
    BY <1>1, <1>5, <2>1 DEF Numbers
  <2>2. CASE 2 * (ackAge - interval - unackedFor) + AckDelay <= interval
    BY <1>1, <1>2, <1>4, <2>2 DEF Numbers
  <2> QED BY <1>3, <2>1, <2>2 DEF Brief
<1> QED BY <1>1, <1>3, <1>5, <1>6 DEF Numbers, BackstopFires, BackstopWindow, OverdueFires

LEMMA PromptHello ==
  ASSUME TypeInv, PromptInv, MCNext, ~wasAway', NEW i \in HelloIntervals, Hello(i)
  PROVE  PromptSums'
<1>1. unwatched = 0 /\ unwatched' = 0
  BY Watched DEF Hello, PromptInv, timerVars
<1>2. CASE BadInterval(i)
  BY <1>1, <1>2 DEF Hello, PromptSums, NoFalseZombie, Zombied, Live
<1>3. CASE ~BadInterval(i)
  <2>1. i \in Nat /\ i # 0 /\ AckDelay < i /\ AckDelay \in Nat
    BY <1>3, HeartbeatAssumption, PromptServer DEF HeartbeatAssumption, BadInterval, PromptServer
  <2>2. interval' = i /\ hbIn' \in 0..i /\ ackPending' = FALSE /\ ackAge' = 0 /\ pc' = "check"
    BY <1>3 DEF Hello
  <2>3. PICK h \in 0..i : hbIn' = h
    BY <2>2
  <2>4. AckedSums'
    BY <1>1, <2>1, <2>2, <2>3 DEF AckedSums, Brief
  <2> QED BY <1>1, <2>1, <2>2, <2>4 DEF PromptSums, NoFalseZombie, Zombied
<1> QED BY <1>2, <1>3

\* A stopped client stays stopped, and the server was not healthy.
LEMMA PromptStops ==
  ASSUME TypeInv, PromptInv, MCNext, ~wasAway', CheckZombie \/ WriteFails
  PROVE  PromptSums'
<1>1. ~wasAway /\ unwatched' = unwatched
  BY UnwatchedDoes, Watched DEF CheckZombie, WriteFails, timerVars
<1>2. UNCHANGED <<server, interval>> /\ pc' \notin Live /\ pc' \in Stopped
  BY DEF CheckZombie, WriteFails, serverVars, hbVars, Live, Stopped
<1>3. CheckZombie => server # "healthy"
  BY <1>1, NoVerdict DEF CheckZombie, BackstopFires, OverdueFires, Live
<1>4. WriteFails => pc' \notin Zombied
  BY DEF WriteFails, Zombied
<1> QED BY <1>1, <1>2, <1>3, <1>4 DEF PromptSums, PromptInv, NoFalseZombie

\* The read that follows a check ends with the interval that is left.
LEMMA ArmedShort ==
  ASSUME TypeInv, NEW next \in Nat, next > 0, NEW pending \in BOOLEAN, ArmRead(next, pending)
  PROVE  \/ pc' = "handshakeTimeout" /\ UNCHANGED timerVars
         \/ pc' = "read" /\ stretched' = 0 /\ \E t \in 0..next : waitLeft' = t
<1>1. deadline \in Nat /\ ackAge \in Nat /\ interval \in Nat
  BY HeartbeatAssumption DEF HeartbeatAssumption, TypeInv, NumberTypes
<1>2. PollTimeout(next, pending) \in 0..next
  BY <1>1 DEF PollTimeout, AtLeast, AtMost, BackstopWindow
<1>3. AtMost(PollTimeout(next, pending), deadline) \in 0..next
  BY <1>1, <1>2 DEF AtMost
<1> QED BY <1>2, <1>3 DEF ArmRead, Arm

LEMMA PromptQuiet ==
  ASSUME TypeInv, PromptInv, MCNext, ~wasAway', CheckQuiet
  PROVE  PromptSums'
<1>0. Numbers /\ ~wasAway /\ PromptSums
  BY NumbersAre, UnwatchedDoes DEF PromptInv
<1>1. /\ pc = "check" /\ hbIn > 0 /\ ArmRead(hbIn, ackPending)
      /\ UNCHANGED <<interval, hbIn, ackPending, ackAge, unackedFor, server, inbox, flight, busyLeft>>
  BY DEF CheckQuiet, hbVars, serverVars, ghostVars
<1>2. \/ pc' = "handshakeTimeout" /\ stretched' = stretched
      \/ pc' = "read" /\ stretched' = 0 /\ \E t \in 0..hbIn : waitLeft' = t
  BY <1>0, <1>1, ArmedShort DEF Numbers, timerVars
<1>3. unwatched' = unwatched
  BY <1>1, <1>2, Watched
<1>4. CASE pc' = "handshakeTimeout"
  BY <1>0, <1>1, <1>3, <1>4 DEF PromptSums, NoFalseZombie, Zombied, Live
<1>5. CASE pc' = "read"
  <2>1. PICK t \in 0..hbIn : waitLeft' = t
    BY <1>2, <1>5
  <2>2. ~ackPending => AckedSums'
    BY <1>0, <1>1, <1>3, <1>5, <2>1 DEF PromptSums, AckedSums, Numbers, Live
  <2>3. ackPending => AwaitedSums'
    BY <1>0, <1>1 DEF PromptSums, AwaitedSums, Brief, Live
  <2>4. ackPending /\ server = "healthy" => AckComes'
    BY <1>0, <1>1, <1>3 DEF PromptSums, AckComes, Live
  <2> QED BY <1>0, <1>1, <1>3, <1>5, <2>2, <2>3, <2>4 DEF PromptSums, NoFalseZombie, Zombied
<1> QED BY <1>2, <1>4, <1>5

\* What Send makes of the sums, sent at a check or on request.
LEMMA PromptSent ==
  ASSUME TypeInv, PromptInv, ~wasAway, Send, pc \in Live, unwatched' = unwatched,
         UNCHANGED server,
         \A k \in 1..Len(inbox) : inbox[k] = "ack" => \E j \in 1..Len(inbox') : inbox'[j] = "ack",
         ~ackPending => Brief(ackAge - interval)
  PROVE  AwaitedSums' /\ (server' = "healthy" => AckComes')
<1>0. Numbers /\ PromptSums
  BY NumbersAre DEF PromptInv
<1>1. interval' = interval /\ hbIn' = interval /\ ackPending' = TRUE /\ ackAge' = ackAge
      /\ unackedFor' = IF ackPending THEN unackedFor ELSE 0
  BY DEF Send
<1>2. AwaitedSums'
  <2>1. CASE ackPending
    BY <1>0, <1>1, <2>1 DEF PromptSums, AwaitedSums, Brief, Numbers
  <2>2. CASE ~ackPending
    <3>1. Brief(ackAge - interval - 0)
      BY <1>0, <2>2 DEF Brief, Numbers
    <3> QED BY <1>0, <1>1, <2>2, <3>1 DEF AwaitedSums, Brief, Numbers
  <2> QED BY <1>0, <2>1, <2>2 DEF Numbers
<1>3. ASSUME server = "healthy"
      PROVE  AckComes'
  <2>1. flight' = Append(flight, 0) /\ flight \in Seq(0..AckDelay)
    BY <1>3 DEF Send, TypeInv, QueueTypes
  <2>2. /\ Len(flight') = Len(flight) + 1 /\ Len(flight) \in Nat /\ flight'[Len(flight) + 1] = 0
        /\ \A k \in 1..Len(flight) : flight'[k] = flight[k]
    BY <2>1
  <2>3. CASE ~ackPending
    BY <1>1, <2>2, <2>3 DEF AckComes
  <2>4. CASE ackPending
    <3>1. AckComes
      BY <1>0, <1>3, <2>4 DEF PromptSums
    <3>2. unackedFor' = unackedFor
      BY <1>1, <2>4
    <3> QED BY <2>2, <3>1, <3>2 DEF AckComes
  <2> QED BY <1>0, <2>3, <2>4 DEF Numbers
<1> QED BY <1>2, <1>3

LEMMA PromptSend ==
  ASSUME TypeInv, PromptInv, MCNext, ~wasAway', CheckSend
  PROVE  PromptSums'
<1>0. Numbers /\ ~wasAway /\ PromptSums
  BY NumbersAre, UnwatchedDoes DEF PromptInv
<1>1. /\ pc = "check" /\ ~ackPending /\ Send /\ ArmRead(interval, TRUE)
      /\ UNCHANGED <<server, inbox, busyLeft>>
  BY DEF CheckSend, HeartbeatDue
<1>2. interval > 0
  BY <1>1 DEF TypeInv, NumberTypes, HelloFirst, Live
<1>3. \/ pc' = "handshakeTimeout" /\ stretched' = stretched
      \/ pc' = "read" /\ stretched' = 0
  BY <1>0, <1>1, <1>2, ArmedShort DEF Numbers, timerVars
<1>4. unwatched' = unwatched
  BY <1>1, <1>3, Watched
<1>5. AwaitedSums' /\ (server' = "healthy" => AckComes')
  BY <1>0, <1>1, <1>4, PromptSent DEF PromptSums, AckedSums, Live
<1>6. interval' = interval /\ ackPending' = TRUE /\ pc' \notin Zombied
  BY <1>1, <1>3 DEF Send, Zombied
<1> QED BY <1>0, <1>4, <1>5, <1>6 DEF PromptSums, NoFalseZombie

\* What is read is not an ACK: one that waits goes on waiting.
LEMMA AckStays ==
  ASSUME TypeInv, NEW m, Reading(m), m # "ack"
  PROVE  \A k \in 1..Len(inbox) : inbox[k] = "ack" => \E j \in 1..Len(inbox') : inbox'[j] = "ack"
<1>1. inbox \in Seq(Message) /\ inbox # <<>> /\ inbox[1] # "ack" /\ inbox' = Tail(inbox)
  BY DEF Reading, TypeInv, QueueTypes
<1>2. Len(inbox') = Len(inbox) - 1 /\ \A j \in 1..(Len(inbox) - 1) : inbox'[j] = inbox[j + 1]
  BY <1>1
<1> SUFFICES ASSUME NEW k \in 1..Len(inbox), inbox[k] = "ack"
             PROVE  \E j \in 1..Len(inbox') : inbox'[j] = "ack"
  OBVIOUS
<1>3. k - 1 \in 1..(Len(inbox) - 1) /\ (k - 1) + 1 = k
  BY <1>1
<1> QED BY <1>2, <1>3

LEMMA PromptAcked ==
  ASSUME TypeInv, PromptInv, MCNext, ~wasAway', ReadAck
  PROVE  PromptSums'
<1>0. Numbers /\ ~wasAway /\ PromptSums
  BY NumbersAre, UnwatchedDoes DEF PromptInv
<1>1. /\ pc' = "check" /\ ackPending' = FALSE /\ UNCHANGED <<interval, hbIn, server, busyLeft>>
      /\ ackAge' = IF ackPending THEN 0 ELSE ackAge
      /\ pc = "read" /\ stretched' = 0
  BY DEF ReadAck, AgeAfterAck, Reading, Disarm
<1>2. unwatched' = 0
  BY <1>1, Watched
<1>3. hbIn <= interval
  BY DEF TypeInv, NumberTypes
<1>4. AckedSums'
  <2>1. CASE ackPending
    BY <1>0, <1>1, <1>2, <1>3, <2>1 DEF AckedSums, Brief, Numbers
  <2>2. CASE ~ackPending
    BY <1>0, <1>1, <1>2, <2>2 DEF PromptSums, AckedSums, Brief, Numbers, Live
  <2> QED BY <1>0, <2>1, <2>2 DEF Numbers
<1> QED BY <1>0, <1>1, <1>2, <1>4 DEF PromptSums, NoFalseZombie, Zombied

LEMMA PromptRequested ==
  ASSUME TypeInv, PromptInv, MCNext, ~wasAway', ReadRequest
  PROVE  PromptSums'
<1>0. Numbers /\ ~wasAway /\ PromptSums
  BY NumbersAre, UnwatchedDoes DEF PromptInv
<1>1. pc = "read" /\ Reading("op1") /\ stretched' = 0 /\ UNCHANGED <<server, busyLeft>>
  BY DEF ReadRequest, Reading, Disarm
<1>2. CASE BackstopFires
  <2>1. server # "healthy"
    BY <1>0, <1>1, <1>2, NoVerdict DEF BackstopFires, Live
  <2>2. pc' = "backstop" /\ UNCHANGED hbVars
    BY <1>2 DEF ReadRequest
  <2>3. unwatched' = unwatched
    BY <1>1, <2>2, Watched
  <2> QED BY <1>0, <1>1, <2>1, <2>2, <2>3 DEF PromptSums, NoFalseZombie, Live, hbVars
<1>3. CASE ~BackstopFires
  <2>1. Send /\ pc' = "check"
    BY <1>3 DEF ReadRequest
  <2>2. interval' = interval /\ ackPending' = TRUE
    BY <2>1 DEF Send
  <2>3. unwatched' = unwatched
    BY <1>1, <2>1, <2>2, Watched
  <2>4. ~ackPending => Brief(ackAge - interval)
    BY <1>0, <1>1 DEF PromptSums, AckedSums, Brief, Numbers, Live
  <2>5. AwaitedSums' /\ (server' = "healthy" => AckComes')
    BY <1>0, <1>1, <2>1, <2>3, <2>4, PromptSent, AckStays DEF Live
  <2> QED BY <1>0, <2>1, <2>2, <2>3, <2>5 DEF PromptSums, NoFalseZombie, Zombied
<1> QED BY <1>2, <1>3

\* A read ends without a word on heartbeats: the caller's turn, or the next check.
LEMMA PromptReturns ==
  ASSUME TypeInv, PromptInv, MCNext, ~wasAway', ReadReady \/ ReadDispatch \/ ReadIdle
  PROVE  PromptSums'
<1>0. Numbers /\ ~wasAway /\ PromptSums
  BY NumbersAre, UnwatchedDoes DEF PromptInv
<1>1. /\ pc = "read" /\ stretched' = 0 /\ pc' \in {"caller", "check", "unexpected"}
      /\ UNCHANGED <<interval, hbIn, ackPending, ackAge, unackedFor, server, flight>>
  BY DEF ReadReady, ReadDispatch, ReadIdle, Reading, Disarm, ReturnToCaller, hbVars, serverVars,
         ghostVars
<1>2. \A k \in 1..Len(inbox) : inbox[k] = "ack" => \E j \in 1..Len(inbox') : inbox'[j] = "ack"
  <2>1. CASE ReadReady \/ ReadDispatch
    BY <2>1, AckStays DEF ReadReady, ReadDispatch
  <2>2. CASE ReadIdle
    BY <2>2 DEF ReadIdle, serverVars
  <2> QED BY <2>1, <2>2
<1>3. unwatched' = IF pc' = "check" /\ ~ackPending THEN 0 ELSE unwatched
  BY <1>1, Watched
<1>4. ~ackPending => AckedSums'
  BY <1>0, <1>1, <1>3 DEF PromptSums, AckedSums, Brief, Numbers, Live
<1>5. ackPending => AwaitedSums' /\ unwatched' = unwatched
  BY <1>0, <1>1, <1>3 DEF PromptSums, AwaitedSums, Brief, Live
<1>6. ackPending /\ server = "healthy" => AckComes'
  BY <1>0, <1>1, <1>2, <1>5 DEF PromptSums, AckComes, Live
<1>7. (unwatched > 0 => 2 * unwatched + AckDelay <= interval)'
  BY <1>0, <1>1, <1>3 DEF PromptSums
<1> QED BY <1>1, <1>4, <1>5, <1>6, <1>7 DEF PromptSums, NoFalseZombie, Zombied

LEMMA PromptPolls ==
  ASSUME TypeInv, PromptInv, MCNext, ~wasAway', CallerPolls
  PROVE  PromptSums'
<1>0. Numbers /\ ~wasAway /\ PromptSums
  BY NumbersAre, UnwatchedDoes DEF PromptInv
<1>1. /\ pc = "caller" /\ pc' = "check"
      /\ UNCHANGED <<interval, hbIn, ackPending, ackAge, unackedFor, server, flight, inbox, stretched,
                     busyLeft>>
  BY DEF CallerPolls, hbVars, serverVars, ghostVars, timerVars
<1>2. unwatched' = IF ~ackPending THEN 0 ELSE unwatched
  BY <1>1, Watched
<1>3. ~ackPending => AckedSums'
  BY <1>0, <1>1, <1>2 DEF PromptSums, AckedSums, Brief, Numbers, Live
<1>4. ackPending => AwaitedSums'
  BY <1>0, <1>1, <1>2 DEF PromptSums, AwaitedSums, Brief, Live
<1>5. ackPending /\ server = "healthy" => AckComes'
  BY <1>0, <1>1, <1>2 DEF PromptSums, AckComes, Live
<1> QED BY <1>0, <1>1, <1>2, <1>3, <1>4, <1>5 DEF PromptSums, NoFalseZombie, Zombied

\* Nothing the server does changes the client's clocks; what it sends stays.
LEMMA PromptServed ==
  ASSUME TypeInv, PromptInv, MCNext, ~wasAway',
         (ServerStep /\ ~ServerDrips) \/ Done \/ UNCHANGED vars
  PROVE  PromptSums'
<1>0. Numbers /\ ~wasAway /\ PromptSums
  BY NumbersAre, UnwatchedDoes DEF PromptInv
<1>1. UNCHANGED <<interval, hbIn, ackPending, ackAge, pc, waitLeft, stretched, busyLeft, unackedFor>>
  BY DEF ServerStep, ServerAcks, ServerSends, ServerFails, Done, vars, hbVars, clientVars,
         timerVars, ghostVars
<1>2. server' = server \/ (pc \notin Stopped /\ server' \in {"mute", "gone"})
  BY DEF ServerStep, ServerAcks, ServerSends, ServerFails, Done, vars, serverVars
<1>3. unwatched' = unwatched
  <2>1. pc = "check" /\ ~ackPending => unwatched = 0
    BY <1>0 DEF PromptSums, AckedSums, Live
  <2> QED BY <1>1, <2>1, Watched
<1>4. pc \in Live /\ ~ackPending => AckedSums'
  BY <1>0, <1>1, <1>3 DEF PromptSums, AckedSums, Brief
<1>5. pc \in Live /\ ackPending => AwaitedSums'
  BY <1>0, <1>1 DEF PromptSums, AwaitedSums, Brief
<1>6. ASSUME pc \in Live, ackPending, server' = "healthy"
      PROVE  AckComes'
  <2>0. AckComes /\ server = "healthy"
    BY <1>0, <1>2, <1>6 DEF PromptSums
  <2>1. CASE ServerAcks
    <3>1. /\ flight \in Seq(0..AckDelay) /\ flight # <<>> /\ flight' = Tail(flight)
          /\ inbox \in Seq(Message) /\ inbox' = Append(inbox, "ack")
      BY <2>1 DEF ServerAcks, Deliver, TypeInv, QueueTypes
    <3>2. /\ Len(inbox') = Len(inbox) + 1 /\ Len(inbox) \in Nat /\ inbox'[Len(inbox) + 1] = "ack"
          /\ \A k \in 1..Len(inbox) : inbox'[k] = inbox[k]
      BY <3>1
    <3>3. /\ Len(flight') = Len(flight) - 1 /\ Len(flight) \in Nat /\ flight[1] \in 0..AckDelay
          /\ \A k \in 1..(Len(flight) - 1) : flight'[k] = flight[k + 1]
      <4>1. Len(flight) \in Nat /\ Len(flight) # 0
        BY <3>1
      <4>2. 1 \in 1..Len(flight)
        BY <4>1
      <4>3. flight[1] \in 0..AckDelay
        BY <3>1, <4>2, SeqElement
      <4> QED BY <3>1, <4>1, <4>3
    <3>4. ASSUME NEW k \in 1..Len(flight), flight[k] >= unackedFor
          PROVE  AckComes'
      <4>1. CASE k = 1
        <5>1. unackedFor <= AckDelay + unwatched
          BY <1>0, <3>3, <3>4, <4>1 DEF Numbers
        <5> QED BY <1>1, <1>3, <3>2, <5>1 DEF AckComes
      <4>2. CASE k # 1
        <5>1. k - 1 \in 1..(Len(flight) - 1) /\ (k - 1) + 1 = k
          BY <3>3, <4>2
        <5>2. k - 1 \in 1..Len(flight') /\ flight'[k - 1] >= unackedFor
          BY <3>3, <3>4, <5>1
        <5> QED BY <1>1, <5>2 DEF AckComes
      <4> QED BY <4>1, <4>2
    <3>5. ASSUME unackedFor <= AckDelay + unwatched
          PROVE  AckComes'
      BY <1>1, <1>3, <3>2, <3>5 DEF AckComes
    <3> QED BY <2>0, <3>4, <3>5 DEF AckComes
  <2>2. ASSUME NEW m \in {"op1", "ready", "dispatch"}, ServerSends(m) PROVE AckComes'
    <3>1. inbox \in Seq(Message) /\ inbox' = Append(inbox, m) /\ flight' = flight
      BY <2>2 DEF ServerSends, Deliver, TypeInv, QueueTypes
    <3>2. /\ Len(inbox') = Len(inbox) + 1 /\ Len(inbox) \in Nat
          /\ \A k \in 1..Len(inbox) : inbox'[k] = inbox[k]
      BY <3>1
    <3> QED BY <1>1, <1>3, <2>0, <3>1, <3>2 DEF AckComes
  <2>3. ASSUME UNCHANGED <<inbox, flight>> PROVE AckComes'
    BY <1>1, <1>3, <2>0, <2>3 DEF AckComes
  <2>4. (\E s \in {"mute", "gone"} : ServerFails(s)) => server' # "healthy"
    BY DEF ServerFails
  <2> QED
    BY <1>6, <2>1, <2>2, <2>3, <2>4 DEF ServerStep, Done, vars, serverVars
<1>7. NoFalseZombie'
  BY <1>0, <1>1, <1>2 DEF PromptSums, NoFalseZombie, Zombied, Stopped
<1> QED BY <1>0, <1>1, <1>3, <1>4, <1>5, <1>6, <1>7 DEF PromptSums

\* Bytes without a message stretch the read by what is then counted as unwatched.
LEMMA PromptDrips ==
  ASSUME TypeInv, PromptInv, MCNext, ~wasAway', ServerDrips
  PROVE  PromptSums'
<1>0. Numbers /\ ~wasAway /\ PromptSums
  BY NumbersAre, UnwatchedDoes DEF PromptInv
<1>1. /\ pc = "read" /\ waitLeft' = armed /\ stretched' = stretched + (armed - waitLeft)
      /\ waitLeft < armed
      /\ UNCHANGED <<interval, hbIn, ackPending, ackAge, pc, unackedFor, server, flight, inbox>>
  BY DEF ServerDrips, hbVars, serverVars, ghostVars
<1>2. armed \in Nat /\ stretched \in Nat
  BY HeartbeatAssumption DEF HeartbeatAssumption, TypeInv, NumberTypes, TimerTypes, AtLeast
<1>3. unwatched' = unwatched + (armed - waitLeft)
  <2>1. unwatched' = unwatched + 0 + AtLeast(stretched' - stretched, 0)
    BY <1>1, UnwatchedDoes
  <2>2. AtLeast(stretched + (armed - waitLeft) - stretched, 0) = armed - waitLeft
    BY <1>0, <1>1, <1>2 DEF AtLeast, Numbers
  <2> QED BY <1>0, <1>1, <1>2, <2>1, <2>2 DEF Numbers
<1>4. ~ackPending => AckedSums'
  BY <1>0, <1>1, <1>2, <1>3 DEF PromptSums, AckedSums, Brief, Numbers, Live
<1>5. ackPending => AwaitedSums'
  BY <1>0, <1>1 DEF PromptSums, AwaitedSums, Brief, Live
<1>6. ackPending /\ server = "healthy" => AckComes'
  <2>1. unackedFor <= AckDelay + unwatched => unackedFor <= AckDelay + (unwatched + (armed - waitLeft))
    BY <1>0, <1>1, <1>2 DEF Numbers
  <2> QED BY <1>0, <1>1, <1>3, <2>1 DEF PromptSums, AckComes, Live
<1>7. (unwatched > 0 => 2 * unwatched + AckDelay <= interval)'
  BY <1>1, UnwatchedDoes
<1> QED BY <1>1, <1>4, <1>5, <1>6, <1>7 DEF PromptSums, NoFalseZombie, Zombied

LEMMA PromptTick ==
  ASSUME TypeInv, PromptInv, MCNext, ~wasAway', Tick
  PROVE  PromptSums'
<1>0. Numbers /\ ~wasAway /\ PromptSums /\ busyLeft \in Nat
  BY NumbersAre, UnwatchedDoes, HeartbeatAssumption
  DEF PromptInv, HeartbeatAssumption, TypeInv, NumberTypes
<1> DEFINE away == IF pc = "caller" THEN 1 ELSE 0
<1>1. /\ UNCHANGED <<interval, ackPending, pc, stretched, server, inbox>>
      /\ hbIn' = IF hbIn > 0 THEN hbIn - 1 ELSE 0
      /\ ackAge' = IF ackAge + 1 <= 2 * interval + 1 THEN ackAge + 1 ELSE 2 * interval + 1
      /\ \/ pc = "caller" /\ busyLeft > 0 /\ busyLeft' = busyLeft - 1
         \/ pc = "read" /\ waitLeft > 0 /\ waitLeft' = waitLeft - 1 /\ inbox = <<>>
      /\ flight' = [k \in 1..Len(flight) |-> flight[k] + 1]
  BY <1>0 DEF Tick, Countdown, AtLeast, AtMost, BackstopWindow, Numbers
<1>2. unwatched' = unwatched + away
  <2>1. stretched \in Nat /\ unwatched + 1 \in Nat
    BY <1>0, HeartbeatAssumption DEF HeartbeatAssumption, TypeInv, NumberTypes, TimerTypes, Numbers
  <2>2. unwatched' = unwatched + (IF pc = "caller" THEN busyLeft - busyLeft' ELSE 0)
                       + AtLeast(stretched' - stretched, 0)
    BY <1>1, UnwatchedDoes
  <2>3. unwatched + 0 + AtLeast(stretched - stretched, 0) = unwatched
        /\ (unwatched + 1) + 0 + AtLeast(stretched - stretched, 0) = unwatched + 1
    BY <1>0, <2>1, Zero DEF Numbers
  <2>4. CASE pc = "caller"
    <3>1. busyLeft - busyLeft' = 1
      BY <1>0, <1>1, <2>4
    <3> QED BY <1>0, <1>1, <2>1, <2>2, <2>3, <2>4, <3>1 DEF Numbers
  <2>5. CASE pc = "read"
    BY <1>0, <1>1, <2>2, <2>3, <2>5 DEF Numbers
  <2> QED BY <1>1, <2>4, <2>5
<1>3. ackPending => unackedFor' = IF unackedFor + 1 <= GhostLimit THEN unackedFor + 1 ELSE GhostLimit
  BY DEF Tick, AtMost
<1>4. ~ackPending => AckedSums'
  <2>1. CASE pc = "caller"
    BY <1>0, <1>1, <1>2, <2>1 DEF PromptSums, AckedSums, Brief, Numbers, Live
  <2>2. CASE pc = "read"
    BY <1>0, <1>1, <1>2, <2>2 DEF PromptSums, AckedSums, Brief, Numbers, Live
  <2> QED BY <1>1, <2>1, <2>2
<1>5. ackPending => AwaitedSums'
  <2> SUFFICES ASSUME ackPending PROVE AwaitedSums'
    OBVIOUS
  <2>1. Brief(ackAge - interval - unackedFor) /\ hbIn + unackedFor >= interval
    BY <1>0, <1>1 DEF PromptSums, AwaitedSums, Live
  <2>2. GhostLimit \in Nat /\ GhostLimit >= 2 * interval + 3
    BY <1>0, HeartbeatAssumption DEF HeartbeatAssumption, GhostLimit, Numbers
  <2>3. CASE unackedFor + 1 <= GhostLimit
    <3>1. unackedFor' = unackedFor + 1
      BY <1>3, <2>3
    <3>2. ackAge' \in Nat /\ ackAge' <= ackAge + 1
      BY <1>0, <1>1 DEF Numbers
    <3>3. PICK age \in Nat : ackAge' = age /\ age <= ackAge + 1
      BY <3>2
    <3>4. Brief(age - interval - (unackedFor + 1))
      BY <1>0, <2>1, <3>3 DEF Brief, Numbers
    <3> QED BY <1>0, <1>1, <2>1, <3>1, <3>3, <3>4 DEF AwaitedSums, Brief, Numbers
  <2>4. CASE unackedFor + 1 > GhostLimit
    <3>1. unackedFor' = GhostLimit
      BY <1>0, <1>3, <2>2, <2>4 DEF Numbers
    <3>2. PICK age \in Nat : ackAge' = age /\ age <= 2 * interval + 1
      BY <1>0, <1>1 DEF Numbers
    <3>3. Brief(age - interval - GhostLimit)
      BY <1>0, <2>2, <3>2 DEF Brief, Numbers
    <3> QED BY <1>0, <1>1, <2>2, <3>1, <3>2, <3>3 DEF AwaitedSums, Brief, Numbers
  <2> QED BY <1>0, <2>2, <2>3, <2>4 DEF Numbers
<1>6. ASSUME ackPending, server = "healthy"
      PROVE  AckComes'
  <2>1. AckComes
    BY <1>0, <1>1, <1>6 DEF PromptSums, Live
  <2>2. GhostLimit \in Nat
    BY <1>0, HeartbeatAssumption DEF HeartbeatAssumption, GhostLimit, Numbers
  <2>3. PICK u \in Nat : unackedFor' = u /\ u <= unackedFor + 1
    BY <1>0, <1>3, <1>6, <2>2 DEF Numbers
  <2>4. ASSUME NEW k \in 1..Len(flight), flight[k] >= unackedFor
        PROVE  AckComes'
    <3>1. flight[k] \in Nat /\ Len(flight) \in Nat
      BY <1>0, SeqElement DEF TypeInv, QueueTypes, Numbers
    <3>2. Len(flight') = Len(flight) /\ flight'[k] = flight[k] + 1
      BY <1>1, <3>1
    <3>3. flight[k] + 1 >= u
      BY <1>0, <2>3, <2>4, <3>1 DEF Numbers
    <3> QED BY <2>3, <3>2, <3>3 DEF AckComes
  <2>5. ASSUME NEW k \in 1..Len(inbox), inbox[k] = "ack", unackedFor <= AckDelay + unwatched
        PROVE  AckComes'
    <3>1. pc = "caller"
      BY <1>1, <2>5
    <3>2. u <= AckDelay + (unwatched + 1)
      BY <1>0, <2>3, <2>5 DEF Numbers
    <3> QED BY <1>1, <1>2, <2>3, <2>5, <3>1, <3>2 DEF AckComes
  <2> QED BY <2>1, <2>4, <2>5 DEF AckComes
<1>7. (unwatched > 0 => 2 * unwatched + AckDelay <= interval)'
  BY <1>1, UnwatchedDoes
<1> QED BY <1>1, <1>4, <1>5, <1>6, <1>7 DEF PromptSums, NoFalseZombie, Zombied

\* Only a legal interval starts the loops, and nothing goes unwatched before.
LEMMA PromptStarts ==
  ASSUME TypeInv, PromptInv, MCNext
  PROVE  /\ pc' \in Live => AckDelay < interval'
         /\ pc' = "hello" => unwatched' = 0
<1>1. ASSUME NEW i \in HelloIntervals, Hello(i), ~BadInterval(i)
      PROVE  AckDelay < interval' /\ pc' = "check"
  BY <1>1, HeartbeatAssumption, PromptServer DEF HeartbeatAssumption, Hello, BadInterval, PromptServer
<1>2. ASSUME NEW i \in HelloIntervals, Hello(i), BadInterval(i)
      PROVE  pc' = "badInterval"
  BY <1>2 DEF Hello
<1>3. CASE ~\E i \in HelloIntervals : Hello(i)
  <2>1. /\ interval' = interval
        /\ pc = "hello" => pc' = "hello" /\ UNCHANGED stretched
        /\ pc' \in Live => pc \in Live
        /\ pc' = "hello" => pc = "hello"
    <3>1. CASE CheckZombie \/ WriteFails
      BY <3>1 DEF CheckZombie, WriteFails, Live, hbVars
    <3>2. CASE CheckSend \/ CheckQuiet
      BY <3>2 DEF CheckSend, CheckQuiet, Send, ArmRead, Arm, Live, hbVars
    <3>3. CASE ReadAck \/ ReadReady \/ ReadDispatch \/ ReadIdle \/ CallerPolls
      BY <3>3
      DEF Reading, ReadAck, ReadReady, ReadDispatch, ReadIdle, ReturnToCaller, CallerPolls, Live, hbVars
    <3>4. CASE ReadRequest
      BY <3>4 DEF Reading, ReadRequest, Send, Live, hbVars
    <3>5. CASE ServerStep
      BY <3>5
      DEF ServerStep, ServerAcks, ServerSends, ServerDrips, ServerFails, clientVars, timerVars, hbVars
    <3>6. CASE Tick \/ Done
      BY <3>6 DEF Tick, Done, vars, clientVars, timerVars, hbVars
    <3> QED
      BY <1>3, <3>1, <3>2, <3>3, <3>4, <3>5, <3>6 DEF MCNext, Next, ClientStep
  <2>2. ASSUME pc = "hello"
        PROVE  unwatched' = 0
    <3>1. unwatched = 0 /\ stretched \in Nat /\ MaxInterval \in Nat
      BY <2>2, HeartbeatAssumption
      DEF HeartbeatAssumption, TypeInv, NumberTypes, TimerTypes, PromptInv
    <3>2. unwatched' = AtMost(0 + 0 + AtLeast(stretched - stretched, 0), MaxInterval)
      BY <2>1, <2>2, <3>1 DEF MCNext
    <3> QED BY <3>1, <3>2 DEF AtMost, AtLeast
  <2> QED BY <2>1, <2>2 DEF PromptInv, Live
<1> QED BY <1>1, <1>2, <1>3 DEF Live

LEMMA PromptStep ==
  ASSUME TypeInv, PromptInv, [MCNext]_<<vars, unwatched, wasAway>>
  PROVE  PromptInv'
<1>1. CASE MCNext
  <2>1. unwatched' \in 0..MaxInterval /\ wasAway' \in BOOLEAN
    BY <1>1, UnwatchedDoes
  <2>2. ASSUME ~wasAway' PROVE PromptSums'
    <3>1. CASE \E i \in HelloIntervals : Hello(i)
      BY <1>1, <2>2, <3>1, PromptHello
    <3>2. CASE CheckZombie \/ WriteFails
      BY <1>1, <2>2, <3>2, PromptStops
    <3>3. CASE CheckSend
      BY <1>1, <2>2, <3>3, PromptSend
    <3>4. CASE CheckQuiet
      BY <1>1, <2>2, <3>4, PromptQuiet
    <3>5. CASE ReadAck
      BY <1>1, <2>2, <3>5, PromptAcked
    <3>6. CASE ReadRequest
      BY <1>1, <2>2, <3>6, PromptRequested
    <3>7. CASE ReadReady \/ ReadDispatch \/ ReadIdle
      BY <1>1, <2>2, <3>7, PromptReturns
    <3>8. CASE CallerPolls
      BY <1>1, <2>2, <3>8, PromptPolls
    <3>9. CASE ServerDrips
      BY <1>1, <2>2, <3>9, PromptDrips
    <3>10. CASE (ServerStep /\ ~ServerDrips) \/ Done
      BY <1>1, <2>2, <3>10, PromptServed
    <3>11. CASE Tick
      BY <1>1, <2>2, <3>11, PromptTick
    <3> QED
      BY <1>1, <3>1, <3>2, <3>3, <3>4, <3>5, <3>6, <3>7, <3>8, <3>9, <3>10, <3>11
      DEF MCNext, Next, ClientStep
  <2> QED BY <1>1, <2>1, <2>2, PromptStarts DEF PromptInv
<1>2. CASE UNCHANGED <<vars, unwatched, wasAway>>
  <2>1. /\ UNCHANGED <<interval, hbIn, ackPending, ackAge, pc, waitLeft, unackedFor, server, inbox,
                       flight, unwatched, wasAway>>
    BY <1>2 DEF vars, hbVars, clientVars, timerVars, serverVars, ghostVars
  <2>2. PromptSums <=> PromptSums'
    BY <2>1 DEF PromptSums, AckedSums, AwaitedSums, AckComes, Brief, NoFalseZombie
  <2> QED BY <2>1, <2>2 DEF PromptInv
<1> QED BY <1>1, <1>2

\* PromptCallerKeepsAlive for every interval, delay and number of requests: a caller that
\* leaves an ACK its time, twice over, never loses the connection of a server that
\* acknowledges (backstop_check and heartbeat_check, heartbeat.rs).
THEOREM PromptCallersLive == MCSpec => []PromptCallerKeepsAlive
<1>1. MCInit => TypeInv /\ PromptInv
  <2>1. MCInit => TypeInv
    BY TypeInit DEF MCInit
  <2>2. 0 \in 0..MaxInterval
    BY HeartbeatAssumption DEF HeartbeatAssumption
  <2>3. MCInit => pc = "hello" /\ unwatched = 0 /\ wasAway = FALSE
    BY DEF MCInit, Init
  <2>4. pc = "hello" /\ unwatched = 0 => PromptSums
    BY DEF PromptSums, NoFalseZombie, Zombied, Live
  <2>5. MCInit => PromptInv
    BY <2>2, <2>3, <2>4 DEF PromptInv, Live
  <2> QED BY <2>1, <2>5
<1>2. TypeInv /\ PromptInv /\ [MCNext]_<<vars, unwatched, wasAway>> => (TypeInv /\ PromptInv)'
  <2>1. [MCNext]_<<vars, unwatched, wasAway>> => [Next]_vars
    BY DEF MCNext
  <2>2. TypeInv /\ [Next]_vars => TypeInv'
    BY QueueStep, NumberStep DEF TypeInv
  <2> QED BY <2>1, <2>2, PromptStep
<1>3. PromptInv => PromptCallerKeepsAlive
  BY DEF PromptInv, PromptSums, PromptCallerKeepsAlive
<1> QED BY <1>1, <1>2, <1>3, PTL DEF MCSpec
=============================================================================
