--------------------------- MODULE GatewaySession ---------------------------
(***************************************************************************)
(* The life of gateway sessions: Session::connect and Session::poll        *)
(* (crates/kamekichi-discord/src/gateway/mod.rs), the error classification *)
(* of Client::poll (src/lib.rs), and the loop of the runner that resumes,  *)
(* identifies again or gives up (crates/kamekichi/src/runner.rs), against  *)
(* the gateway: it numbers the dispatches of a session, keeps them, and    *)
(* replays on RESUME the ones after the sequence number it is given.       *)
(*                                                                         *)
(* Heartbeats are the subject of module Heartbeat; here a zombie is one of *)
(* the ways a connection ends.                                             *)
(***************************************************************************)
EXTENDS Integers, Sequences

CONSTANTS
  MaxSessions,  \* bound: sessions the gateway ever creates
  MaxEvents,    \* bound: events that happen in the guild
  MaxFaults     \* bound: failures of the network, the server or its payloads

ASSUME GatewayAssumption ==
  MaxSessions \in Nat /\ MaxEvents \in Nat /\ MaxFaults \in Nat

VARIABLES
  pc,         \* where the runner is
  resumeData, \* run_inner's resume_data: SessData or NoData
  session,    \* the data of Client::session, or NoData
  opening,    \* the SessionState given to Session::connect
  tracker,    \* the sessions whose GUILD_CREATE the ChannelRoleTracker holds
  delivered,  \* events the bot has handled, in order
  conn,       \* the gateway has an open connection and a session on it
  request,    \* RESUME or IDENTIFY on its way to the gateway
  wire,       \* frames on their way to the client
  log,        \* per session: the dispatches sent so far; log[s][n] has sequence n
  valid,      \* per session: it can still be resumed
  current,    \* the session that receives the guild's events
  happened,   \* events so far
  faults,     \* faults so far
  given,      \* history: the last session the gateway gave the client
  toldDead,   \* history: the gateway told the client that session is over
  fatalSeen   \* history: the client read a close frame with a fatal code

runnerVars == <<pc, resumeData, session, opening, tracker, delivered>>
wireVars   == <<conn, request, wire>>
gateVars   == <<log, valid, current, happened>>
ghostVars  == <<given, toldDead, fatalSeen>>
vars       == <<runnerVars, wireVars, gateVars, faults, ghostVars>>

NoData == [sid |-> 0, seq |-> 0, hasGuild |-> FALSE]
Identify == [op |-> "identify", sid |-> 0, seq |-> 0]
NoRequest == [op |-> "none", sid |-> 0, seq |-> 0]

Sids == 1..MaxSessions

(* A dispatch is well formed and known ("event" carries a guild event),    *)
(* well formed and unknown to the bot, or malformed.                       *)
Kinds == {"ready", "guild", "resumed", "event", "unknown", "malformed"}
Entry(kind, ev) == [kind |-> kind, ev |-> ev]

(* The other frames: OP 7, OP 9 with its two payloads, close frames with   *)
(* the codes classify_error groups together, and what poll cannot use.     *)
Unusable == {"binary", "garbage"}
Endings  == {"reconnect", "invalidTrue", "invalidFalse",
             "closeFatal", "closeNonResumable", "closeOther"}

\* With these the gateway says that the session is over.
Verdicts == {"invalidFalse", "closeFatal", "closeNonResumable"}

Dispatch(n, e) == [op |-> "dispatch", seq |-> n, kind |-> e.kind, ev |-> e.ev]
Control(op)    == [op |-> op, seq |-> 0, kind |-> "none", ev |-> 0]

(* Mutant of Classify: INVALID_SESSION is taken for resumable.             *)
ClassifyHopeful(op) ==
  CASE op = "closeFatal"        -> "Fatal"
    [] op = "closeNonResumable" -> "Reconnect"
    [] op \in Unusable          -> "Transient"
    [] OTHER                    -> "Resume"

(* classify_error, on what a frame or the end of the connection becomes.   *)
Classify(op) ==
  CASE op = "closeFatal"                         -> "Fatal"
    [] op \in {"closeNonResumable", "invalidFalse"} -> "Reconnect"
    [] op \in {"reconnect", "closed", "zombied", "closeOther", "invalidTrue"} -> "Resume"
    [] op \in Unusable                            -> "Transient"

Fault == faults < MaxFaults /\ faults' = faults + 1

-----------------------------------------------------------------------------
Init ==
  /\ pc = "start" /\ resumeData = NoData /\ session = NoData /\ opening = NoData
  /\ tracker = {} /\ delivered = <<>>
  /\ conn = FALSE /\ request = NoRequest /\ wire = <<>>
  /\ log = [s \in Sids |-> <<>>] /\ valid = [s \in Sids |-> FALSE]
  /\ current = 0 /\ happened = 0 /\ faults = 0
  /\ given = 0 /\ toldDead = FALSE /\ fatalSeen = FALSE

Hangup == conn' = FALSE /\ request' = NoRequest /\ wire' = <<>>

-----------------------------------------------------------------------------
(* run_session's first call: resume_data.take() chooses the handshake.     *)
StartSession ==
  /\ pc = "start"
  /\ opening' = resumeData
  /\ resumeData' = NoData
  /\ pc' = "handshake"
  /\ UNCHANGED <<session, tracker, delivered, wireVars, gateVars, faults, ghostVars>>

(* An error of Session::connect before RESUME or IDENTIFY is sent, or of   *)
(* get_gateway_url: From<Error> for SessionExit makes it a Retry.          *)
HandshakeFails ==
  /\ pc = "handshake"
  /\ Fault
  /\ pc' = "retry"
  /\ opening' = NoData
  /\ Hangup
  /\ UNCHANGED <<resumeData, session, tracker, delivered, gateVars, ghostVars>>

ResumeFromNext == opening.seq + 1 \* mutant: the next number, not the last
\* The sequence number a RESUME carries.
ResumeFrom == opening.seq

(* RESUME is sent and connect returns at once; the guild check that        *)
(* follows in run_session reads the guild list saved from READY.           *)
SendResume ==
  /\ pc = "handshake" /\ opening # NoData
  /\ request' = [op |-> "resume", sid |-> opening.sid, seq |-> ResumeFrom]
  /\ session' = opening
  /\ opening' = NoData
  /\ pc' = IF opening.hasGuild THEN "poll" ELSE "fatal"
  /\ UNCHANGED <<resumeData, tracker, delivered, conn, wire, gateVars, faults, ghostVars>>

SendIdentify ==
  /\ pc = "handshake" /\ opening = NoData
  /\ request' = Identify
  /\ pc' = "awaitReady"
  /\ UNCHANGED <<resumeData, session, opening, tracker, delivered, conn, wire,
                 gateVars, faults, ghostVars>>

-----------------------------------------------------------------------------
(* The READY wait of Session::connect.                                     *)
Receives == wire # <<>>
First    == Head(wire)

ReadyArrives ==
  /\ pc = "awaitReady" /\ Receives
  /\ First.op = "dispatch" /\ First.kind = "ready"
  /\ \E g \in BOOLEAN :
       /\ g \/ faults < MaxFaults
       /\ faults' = IF g THEN faults ELSE faults + 1
       /\ session' = [sid |-> current, seq |-> First.seq, hasGuild |-> g]
       /\ pc' = IF g THEN "poll" ELSE "fatal"
  /\ wire' = Tail(wire)
  /\ given' = current /\ toldDead' = FALSE /\ UNCHANGED fatalSeen
  /\ UNCHANGED <<resumeData, opening, tracker, delivered, conn, request, gateVars>>

\* Anything else ends the handshake, and no error of connect is ever fatal.
HandshakeRejected ==
  /\ pc = "awaitReady" /\ Receives
  /\ First.op # "dispatch" \/ First.kind # "ready"
  /\ pc' = "retry"
  /\ Hangup
  /\ fatalSeen' = (fatalSeen \/ First.op = "closeFatal")
  /\ UNCHANGED <<resumeData, session, opening, tracker, delivered, gateVars, faults,
                 given, toldDead>>

HandshakeTimeout ==
  /\ pc = "awaitReady" /\ Fault
  /\ pc' = "retry"
  /\ Hangup
  /\ UNCHANGED <<resumeData, session, opening, tracker, delivered, gateVars, ghostVars>>

-----------------------------------------------------------------------------
NotAdvanced == session \* mutant: the cursor stays where READY put it
\* Mutant: the payload is parsed first.
AdvancedIfKnown == IF First.kind = "malformed" THEN session ELSE [session EXCEPT !.seq = First.seq]
\* The cursor advances before anything else is looked at.
Advanced == [session EXCEPT !.seq = First.seq]

AnyForBot == TRUE \* mutant: events the bot does not know are not left out
ForBot == First.kind = "event"

(* Session::poll on a dispatch: a malformed one is skipped and never       *)
(* replayed.                                                               *)
PollDispatch ==
  /\ pc = "poll" /\ Receives /\ First.op = "dispatch"
  /\ session' = Advanced
  /\ delivered' = IF ForBot THEN Append(delivered, First.ev) ELSE delivered
  /\ tracker' = IF First.kind = "guild" THEN tracker \cup {session.sid} ELSE tracker
  /\ wire' = Tail(wire)
  /\ UNCHANGED <<pc, resumeData, opening, conn, request, gateVars, faults, ghostVars>>

\* No frame within the read timeout: poll returns None and is called again.
PollIdle ==
  /\ pc = "poll" /\ ~Receives
  /\ UNCHANGED vars

\* A frame that poll cannot use: Client::poll puts the session back.
PollTransient ==
  /\ pc = "poll" /\ Receives
  /\ First.op # "dispatch" /\ Classify(First.op) = "Transient"
  /\ wire' = Tail(wire)
  /\ UNCHANGED <<runnerVars, conn, request, gateVars, faults, ghostVars>>

\* Mutant of Saved: the session is kept whatever the error.
SavedAlways(class) == session
\* What Client::poll, which takes the session out, hands over for the next one.
Saved(class) == IF class = "Resume" THEN session ELSE NoData

LoseSession(op) ==
  /\ session' = NoData
  /\ resumeData' = Saved(Classify(op))
  /\ pc' = IF Classify(op) = "Fatal" THEN "fatal" ELSE "retry"
  /\ toldDead' = (toldDead \/ op \in Verdicts)
  /\ fatalSeen' = (fatalSeen \/ op = "closeFatal")
  /\ Hangup

PollDisconnect ==
  /\ pc = "poll" /\ Receives
  /\ First.op # "dispatch" /\ Classify(First.op) # "Transient"
  /\ LoseSession(First.op)
  /\ UNCHANGED <<opening, tracker, delivered, gateVars, faults, given>>

PollZombied ==
  /\ pc = "poll" /\ Fault
  /\ LoseSession("zombied")
  /\ UNCHANGED <<opening, tracker, delivered, gateVars, given>>

TrackerStays == tracker \* mutant: the tables are not cleared
TrackerForNext == IF resumeData = NoData THEN {} ELSE tracker

(* run_inner backs off (1 s with resume data, 5 s and a cleared tracker    *)
(* without) and calls run_session again.                                   *)
Retry ==
  /\ pc = "retry"
  /\ pc' = "start"
  /\ tracker' = TrackerForNext
  /\ UNCHANGED <<resumeData, session, opening, delivered, wireVars, gateVars, faults, ghostVars>>

-----------------------------------------------------------------------------
(* The gateway (external): numbers, keeps and replays dispatches.          *)
Replay(s, from) ==
  [k \in 1..(Len(log[s]) - from) |-> Dispatch(from + k, log[s][from + k])]

GatewayIdentifies ==
  /\ request.op = "identify" /\ current < MaxSessions
  /\ current' = current + 1
  /\ log' = [log EXCEPT ![current + 1] = <<Entry("ready", 0), Entry("guild", 0)>>]
  /\ valid' = [s \in Sids |-> s = current + 1]
  /\ wire' = wire \o <<Dispatch(1, Entry("ready", 0)), Dispatch(2, Entry("guild", 0))>>
  /\ conn' = TRUE /\ request' = NoRequest
  /\ UNCHANGED <<runnerVars, happened, faults, ghostVars>>

GatewayResumes ==
  /\ request.op = "resume" /\ valid[request.sid]
  /\ LET n == Len(log[request.sid]) + 1
     IN  /\ log' = [log EXCEPT ![request.sid] = Append(@, Entry("resumed", 0))]
         /\ wire' = wire \o Replay(request.sid, request.seq)
                         \o <<Dispatch(n, Entry("resumed", 0))>>
  /\ conn' = TRUE /\ request' = NoRequest
  /\ UNCHANGED <<runnerVars, valid, current, happened, faults, ghostVars>>

GatewayRefusesResume ==
  /\ request.op = "resume" /\ ~valid[request.sid]
  /\ wire' = Append(wire, Control("invalidFalse"))
  /\ request' = NoRequest
  /\ UNCHANGED <<runnerVars, conn, gateVars, faults, ghostVars>>

\* Instead of a session: an invalid token or intents, a rate limit, a restart.
GatewayRejects(op) ==
  /\ request.op \in {"identify", "resume"} /\ Fault
  /\ wire' = Append(wire, Control(op))
  /\ request' = NoRequest
  /\ UNCHANGED <<runnerVars, conn, gateVars, ghostVars>>

\* Something happens in the guild; it is kept for the session while that can be resumed.
GuildEvent(kind) ==
  /\ happened < MaxEvents
  /\ kind = "event" \/ faults < MaxFaults
  /\ faults' = IF kind = "event" THEN faults ELSE faults + 1
  /\ happened' = happened + 1
  /\ IF current # 0 /\ valid[current]
     THEN LET e == Entry(kind, happened + 1)
          IN  /\ log' = [log EXCEPT ![current] = Append(@, e)]
              /\ wire' = IF conn THEN Append(wire, Dispatch(Len(log[current]) + 1, e)) ELSE wire
     ELSE UNCHANGED <<log, wire>>
  /\ UNCHANGED <<runnerVars, conn, request, valid, current, ghostVars>>

\* The gateway ends the connection, or sends something the client cannot use.
GatewaySends(op) ==
  /\ conn /\ Fault
  /\ wire' = Append(wire, Control(op))
  /\ conn' = (op \in Unusable)
  /\ valid' = IF op \in Verdicts
              THEN [valid EXCEPT ![current] = FALSE] ELSE valid
  /\ UNCHANGED <<runnerVars, request, log, current, happened, ghostVars>>

\* The connection breaks: what was on its way is cut at any point.
ConnectionBreaks ==
  /\ conn \/ request # NoRequest
  /\ Fault
  /\ \E k \in 0..Len(wire) : wire' = Append(SubSeq(wire, 1, k), Control("closed"))
  /\ conn' = FALSE /\ request' = NoRequest
  /\ UNCHANGED <<runnerVars, gateVars, ghostVars>>

\* A session nobody is connected to is given up.
SessionExpires ==
  /\ ~conn /\ current # 0 /\ valid[current] /\ Fault
  /\ valid' = [valid EXCEPT ![current] = FALSE]
  /\ UNCHANGED <<runnerVars, wireVars, log, current, happened, ghostVars>>

-----------------------------------------------------------------------------
RunnerStep ==
  \/ StartSession \/ SendResume \/ SendIdentify
  \/ ReadyArrives \/ HandshakeRejected
  \/ PollDispatch \/ PollIdle \/ PollTransient \/ PollDisconnect
  \/ Retry

GatewayAnswers == GatewayIdentifies \/ GatewayResumes \/ GatewayRefusesResume

Disturbance ==
  \/ HandshakeFails \/ HandshakeTimeout \/ PollZombied
  \/ \E op \in Endings : GatewayRejects(op)
  \/ \E kind \in {"event", "unknown", "malformed"} : GuildEvent(kind)
  \/ \E op \in Endings \cup Unusable : GatewaySends(op)
  \/ ConnectionBreaks \/ SessionExpires

Stopped == pc = "fatal" /\ UNCHANGED vars

Next == RunnerStep \/ GatewayAnswers \/ Disturbance \/ Stopped

(* The runner's thread runs and the gateway answers requests; nothing else *)
(* has to happen.                                                          *)
Spec == Init /\ [][Next]_vars /\ WF_vars(RunnerStep) /\ WF_vars(GatewayAnswers)

-----------------------------------------------------------------------------
Entries == [kind : Kinds, ev : 0..MaxEvents]
Data == [sid : 0..MaxSessions, seq : Nat, hasGuild : BOOLEAN]
Frame == [op : {"dispatch", "closed"} \cup Endings \cup Unusable, seq : Nat,
          kind : Kinds \cup {"none"}, ev : Nat]

RunnerTypeOK ==
  /\ pc \in {"start", "handshake", "awaitReady", "poll", "retry", "fatal"}
  /\ resumeData \in Data /\ session \in Data /\ opening \in Data
  /\ tracker \subseteq Sids
  /\ delivered \in Seq(1..MaxEvents)

WireTypeOK ==
  /\ conn \in BOOLEAN
  /\ request \in [op : {"none", "identify", "resume"}, sid : 0..MaxSessions, seq : Nat]
  /\ wire \in Seq(Frame)

GateTypeOK ==
  /\ log \in [Sids -> Seq(Entries)]
  /\ valid \in [Sids -> BOOLEAN]
  /\ current \in 0..MaxSessions
  /\ happened \in 0..MaxEvents

GhostTypeOK == given \in 0..MaxSessions /\ toldDead \in BOOLEAN /\ fatalSeen \in BOOLEAN

(* The runner, the gateway and the wire between them stay in these domains. *)
TypeOK == RunnerTypeOK /\ WireTypeOK /\ GateTypeOK /\ GhostTypeOK /\ faults \in 0..MaxFaults

\* The SessData the client holds, wherever it is; at most one place has it.
Held == IF session # NoData THEN session
        ELSE IF resumeData # NoData THEN resumeData ELSE opening

Holds(s) == Held.sid = s

WasDelivered(e) == \E k \in 1..Len(delivered) : delivered[k] = e

(* What the gateway has sent in a session, as the bot may see it.          *)
StreamOf(s) == [n \in 1..Len(log[s]) |-> IF log[s][n].kind = "event" THEN log[s][n].ev ELSE 0]
FeedOf == INSTANCE EventFeed WITH
            streams <- [s \in Sids |-> StreamOf(s)],
            follows <- [sid |-> Held.sid, seq |-> Held.seq],
            newest  <- given,
            handled <- delivered

(* The cursor and the replay implement the feed: across disconnections,    *)
(* resumes, replays and lost sessions the bot handles every event of the   *)
(* session it holds in order, none twice and none left out; only a         *)
(* malformed dispatch is passed over (gateway/mod.rs:458-463).             *)
ImplementsFeed == FeedOf!Spec

Dispatches(w) == {k \in 1..Len(w) : w[k].op = "dispatch"}

\* The dispatches on w are those of the log l from the one after base on.
Continues(w, base, l) ==
  \A k \in Dispatches(w) :
    /\ w[k].seq \in (base + 1)..Len(l)
    /\ w[k].kind = l[w[k].seq].kind /\ w[k].ev = l[w[k].seq].ev
    /\ \A j \in Dispatches(w) : j < k => w[j].seq < w[k].seq
    /\ w[k].seq = base + 1 \/ \E j \in Dispatches(w) : j < k /\ w[j].seq = w[k].seq - 1

CaughtUp(w, base, l) == Len(l) = base \/ \E k \in Dispatches(w) : w[k].seq = Len(l)

(* The dispatches on their way continue the cursor without gap, repetition *)
(* or change of place, and an open connection brings all the gateway has   *)
(* sent in the session so far.                                             *)
WireContinuesCursor ==
  pc = "poll" => /\ Continues(wire, session.seq, log[session.sid])
                 /\ conn => CaughtUp(wire, session.seq, log[session.sid])

(* Channel and role names are resolved from the guild of the session the   *)
(* bot is in: a fresh session never sees the tables of the one before      *)
(* (runner.rs:77).                                                         *)
TrackerIsCurrent == pc = "poll" => tracker \subseteq {session.sid}

(* A session the gateway declared over is never resumed (gateway/mod.rs:   *)
(* 140-144, 163-166, 179-180).                                             *)
DeadSessionNotResumed == toldDead => request.op # "resume" /\ resumeData = NoData

(* The client is polling or has stopped for good once faults stop.         *)
Recovers == <>[](pc \in {"poll", "fatal"})

Kept(s, e) == \E n \in 1..Len(log[s]) : log[s][n] = Entry("event", e)

(* An event the gateway keeps for the session the client holds reaches the *)
(* bot, unless the session is lost or the runner stops first.              *)
EventsArrive ==
  \A s \in Sids, e \in 1..MaxEvents :
    (Holds(s) /\ Kept(s, e)) ~> (WasDelivered(e) \/ ~Holds(s) \/ pc = "fatal")

(* "Configuration error (bad token, invalid intents, etc.). Do not retry." *)
(* (gateway/mod.rs:101): a fatal close code stops the bot.                 *)
FatalCodeStops == fatalSeen => pc = "fatal"

(* SessData is "carried across resume attempts" (gateway/mod.rs:60-61): a  *)
(* session the gateway can still resume and has not declared over is not   *)
(* given up.                                                               *)
SessDataSurvives ==
  pc = "retry" /\ given # 0 /\ valid[given] /\ ~toldDead => resumeData.sid = given
=============================================================================
