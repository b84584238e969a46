# kamekichi-bot: a TLA+ model of the Discord bot and its libraries

The repository is a Discord bot (`crates/kippe`) on a small synchronous platform
(`crates/kamekichi`), over its own Discord client (`crates/kamekichi-discord`) and
its own WebSocket library (`crates/kamekichi-ws`). Everything runs on one thread:
the gateway poll, the heartbeats, the bot's handler, the REST requests and the
reload of the configuration. What makes it hard is therefore not locking but
*time* (a call that blocks delays everything else), *order* (frames, replays and
answers that cross), *failure* (of the network, the gateway, a request, a save or
the process between any two steps) and *buffers* reused across calls.

This directory holds one module per component, the TLC instances that check them
and the proofs that hold for every value of the constants. Source paths below are
relative to `src/crates/`.

## 1. Inventory

| Component | State it keeps | Operations | Hard part | Module |
|---|---|---|---|---|
| Heartbeat (`kamekichi-discord/src/heartbeat.rs` and the two loops that use it) | interval, next heartbeat, last ACK, pending flag, READY deadline | HELLO, check, send, ACK, OP 1 request, read timeout | late ACKs, OP 1 requests that push the timer back, a caller that stays away | `Heartbeat`, `HeartbeatProofs` |
| Gateway session and the runner's loop (`gateway/mod.rs`, `lib.rs`, `kamekichi/src/runner.rs`) | session id, sequence cursor, resume data, guild tables | connect with IDENTIFY or RESUME, poll, classify an error, resume, identify again, stop | replays, malformed dispatches, sessions that are over, the same error in two phases | `GatewaySession`, `GatewaySessionProofs`; `EventFeed` |
| WebSocket connection (`kamekichi-ws/src/lib.rs`, `proto.rs`, `send_buf.rs`) | send buffer and cursor, close state, fragments, flood score, budget, ping deadline | send, ping, close, flush, read, reconnect | partial writes, pongs behind half a frame, two close handshakes at once, fragments with control frames between them | `WsConn`, `WsConnProofs` |
| Read buffer (`read_buf.rs`) | initialised memory, two cursors | fill, consume, compact, grow, shrink, clear | deferred compaction, growth policy, reads into a full buffer | `ReadBuf`, `ByteQueue`, `ReadBufProofs` |
| Incremental UTF-8 (`proto.rs`) | text, tail of up to three bytes | first fragment, continuation, final fragment | characters cut anywhere | `Utf8Tail`, `Utf8TailProofs` |
| Managed messages (`kippe/src/main.rs`, `kamekichi/src/host.rs`, `runner.rs`, `state.rs`, `config.rs`, `refs.rs`) | remembered ids and hashes, the state file, the action queue, the configuration and its modification time | Started, upsert, react, save, reload, restart | a crash, a lost answer or a failed save between the request and the record of it | `ManagedMessages`, `ManagedMessagesProofs` |
| REST client (`kamekichi-discord/src/http_api`) | one cached connection, rate-limit buckets | request, retry, preemptive wait, record limits | idle connections closed by the server, lost and late answers, what may be sent twice | `HttpClient`, `HttpClientProofs` |
| Reaction roles (`kippe/src/main.rs:22-62`, `host.rs`, `runner.rs`) | the mappings as references, the action queue, the roles people hold | Started, Reaction, execution of role requests, reload | all mappings are decided by each reaction; requests fail, come late or are never made; the references change under the bot | `ReactionRoles`, `ReactionRolesProofs` |
| References, registry (`refs.rs`) | tables of names and of their ids, places the bot holds in them | push, normalize, resolve | one registry per reload, which may fail half way | `ReactionRoles`; as names in `ManagedMessages` |
| Tracker (`runner.rs`) | ids and names of the guild's roles and channels | clear, insert, look up on Started | several lists per session, names that are or become ambiguous | `ReactionRoles`; its life span in `GatewaySession` |
| WebSocket opening handshake (`proto.rs`, `lib.rs`) | none | format, validate | pure function of the bytes | not modelled (its use of the buffer is in `ReadBuf`) |
| Event types, logger, error types, random numbers, testbed bots | none that matters to the others | conversion, output | - | not modelled |

How they interact. `runner::run_inner` opens a session (`GatewaySession`), which
arms a heartbeat (`Heartbeat`) and then alternates `Session::poll` with the bot's
handler. `poll` reads the WebSocket (`WsConn`), which assembles frames in the read
buffer (`ReadBuf`) and text in the UTF-8 tail (`Utf8Tail`). A handler queues
actions, which the runner executes at once through the REST client (`HttpClient`)
on the same thread, and records in the state file (`ManagedMessages` for messages,
`ReactionRoles` for roles and for the references both need). Time spent
there is the time the heartbeat is *away* from its timers; that is the constant
`MaxBusy` of `Heartbeat`, to which `SleepIsBounded` of `HttpClient` contributes.

What makes each of them correct is stated by its properties, in section 3; what
could go wrong, line by line, is the list `hazards` of `PROJECT.json`.

## 2. The modules and the code

All models follow the same conventions. A variable named after a field is that
field; `pc` says where the thread is. An action is a whole handler up to the point
where it blocks or returns; helpers are operators named after the functions.
Failures consume `MaxFaults`, the environment's inputs their own bounds. History
variables (named so at their declaration) are read by properties only. An operator
whose comment says *mutant* is used by nothing: it is a plausible bug of the
operator after it, and substituting it must break the property named in
`PROJECT.json`.

**Heartbeat.** `Hello` is `HeartbeatState::new`; `CheckZombie`, `CheckSend` and
`CheckQuiet` are the three outcomes of the loop head shared by the READY wait of
`Session::connect` and `Session::poll` (`backstop_check`, `heartbeat_check`,
`send_if_due`, then the read timeout: `ArmRead`, `PollTimeout`); `ReadAck`,
`ReadRequest`, `ReadReady`, `ReadDispatch`, `ReadIdle` are what a read returns;
`CallerPolls` is the next call. Time is discrete (`Tick`) and passes while the
client blocks in a read or is away in its caller; the server acknowledges within
`AckDelay` while healthy, and may fall mute or away. `PollTimeout` keeps the
code's minimum of one tick. That timeout is armed anew for each read of the
stream, and `read_message` returns only with a whole message: `ServerDrips` brings
bytes that complete none (parts of a frame, fragments, control frames) and arms the
timer again. A peer could do so until the read loop's own limits end it;
`MaxStretch` bounds how long one read is prolonged beyond its timeout. Writes take no time
in the model. In the code a write may block for up to an interval (the write timeout,
`gateway/mod.rs:347`), in `send_if_due`, `server_requested` and the flushes of a read, and
delays the next look at the timers and at the READY deadline as a prolonged read does; an
`Ok` may also mean that the frame was queued or left for a retry. The properties hold of
such delays only as far as they are counted in `MaxStretch`.

**GatewaySession.** `StartSession` to `SendIdentify` are the parts of
`Session::connect`, `ReadyArrives` and `HandshakeRejected` its READY wait,
`PollDispatch`, `PollIdle`, `PollTransient`, `PollDisconnect` the outcomes of
`Client::poll` with `classify_error`, `Retry` the pause of the runner. The gateway
numbers the dispatches of each session, keeps them and replays what follows the
number in the RESUME. A dispatch is an event, the guild, READY, RESUMED, unknown
or malformed. The wire is cut at any point when a connection breaks. What this machinery is for
is `EventFeed`: one stream of dispatches per session, a place in the stream the bot
follows, and the events it has handled. `ImplementsFeed` maps the feed's streams to
the gateway's logs and its place to the session data (`Held`), wherever the runner
keeps it at that moment.

**WsConn.** One action per public call (`SendData`, `SendPing`, `SendClose`,
`Flush`, `ReadCall`, `Reconnect`, and `RefusedCall` for calls the state forbids)
and one per kind of frame `read_message` handles. The send buffer is a sequence of
units; `Flushes` takes any number of them per call, which is the partial
write. Frames are numbered, so a property can tell the bytes of one from those of
another. The deadline of a ping is none, armed or passed. Masking, header encoding
and payload contents are left out.

**ReadBuf.** The memory holds the position in the stream of each byte, so
"the right bytes" is an equation. `EnsureInitialized`, `CompactFrom`, `FillFrom` with
`FillRead`, `TopOfLoopShrinks` and `ConsumeFrame` are the functions of `read_buf.rs`,
in the order in which the handshake (`Connect` to `RefuseUpgrade`) and `read_message`
call them; a second stream reuses the buffer after `Disconnect`. Its specification is
`ByteQueue`: bytes arrive at the back and are taken at the front (`ImplementsFifo`).

**Utf8Tail.** Bytes are their role in UTF-8 (`a` ASCII, `2`, `3`, `4` the first of
that many bytes, `c` continuation, `x` never valid). `Take` is
`push_text_payload`. The leads that restrict their second byte (E0, ED, F0, F4)
are left out: the code gives them to `str::from_utf8` like the others.

**ManagedMessages.** `HandleStarted` is the handler with the queue's limit
(`MAX_ACTIONS`); `PostMessage`, `EditMessage`, `AddReaction` and `AnswerArrives` (with
`Remember` and `SaveState`) are the executor of `runner.rs`, `Reload` the watcher. Discord is the sequence of messages
posted. The process can crash at any step, an answer can get lost after the
request was carried out, a save can fail, a message can be deleted.

**ReactionRoles.** `Start`, `Reload`, `ReloadFails` make a bot and a registry from a
version of the configuration (`BotOf`); `OpenSession` connects, with a fresh tracker
or a resumed one; `HandleGuild`, `HandleResumed` and `HandleReaction` are `Started` and
`Reaction` of kippe with what the runner does before them (`FromTracker`,
`Normalize`); `PostMessage`, `EditMessage`, `AddReaction`, `ChangeRole`, `SkipUnresolved` and
the failures are `execute_actions`. References are places in tables, as in the code, so that a
registry and a bot of different versions would show. A configuration may list a message
twice, which is then edited where it was to be posted, or by its id, which cannot be posted. People react, an admin changes
the roles, the process crashes, the session is lost, a save fails, a request is given
up and carried out later. One person is enough for the properties, which speak of
each person alone.

**HttpClient.** `Call`, `PreemptiveWait`, `TakeCached`/`TakeConn`, `Write`,
`ReadHead`, `ReadBody`, `Respond`, `SendFails` are `request`, `request_once` and
`send_and_read`. A response is its status class, how its body ends (framed, none,
with the connection), whether the connection will close, whether the body is
usable, and its rate headers. The server counts requests per window and bucket,
may answer 4xx, 5xx (carried out or not) or 429 (also a global one without bucket
headers), and may carry out a request after its connection was dropped
(`StrayArrives`). Timers hold the ticks they have left. A request is an endpoint at a
channel or server. What limit it counts in (`LimitOf`) and what name the server has for
that limit (`BucketOf`) are the server's business; the client has only `RouteKey`, which
drops the ids, and the two maps `RecordRateLimit` overwrites. `told` and `named` are
histories: which limits the client has read the present numbers of, and the bucket it read
last for a route key. An I/O error in a body that ends with the connection is an unusable
body; a plain end of the connection there is a short body without an error, as in the code.

## 3. What the runs check

| Run | Properties | Shows |
|---|---|---|
| `heartbeat` | `TypeOK`. `PromptCallerKeepsAlive`: a caller that polls at once never loses a live connection. `ZombieFoundInTime`: once no ACK can come any more the client notices within `DetectionBound`. `HandshakeBounded`: the READY wait keeps its deadline but for one prolonged read. | the two timers, the pending flag, OP 1 requests and bytes that make no message do not defeat each other |
| `gateway_session` | `TypeOK`. `ImplementsFeed`: the runner implements `EventFeed`, each event once, in order, none lost. `WireContinuesCursor`: what is on its way continues the cursor. `TrackerIsCurrent`: names come from the present session. `DeadSessionNotResumed`. `Recovers`, `EventsArrive` (liveness). | resume and replay work across every sequence of three failures |
| `ws_send` | `TypeOK`, `WireIsWholeFrames`, `NothingAfterClose`, `PendingBounded`, `ClosingIsFinal` (action), `PingIsSettled` (liveness) | partial writes and answers never corrupt the stream, the close state only advances, and the deadline of a ping ends with a pong or a timeout (that the timeout is deserved is `TimeoutMeansSilence`, section 6) |
| `ws_read` | `MessageIsWhole`, `FloodIsCut`, `TrickleIsNoFlood` | reassembly is right under interleaved control frames; the flood score separates bursts from trickles |
| `read_buf` | `TypeOK`, `BytesInPlace`, `ReadHasRoom`, `MemoryBounded`, `ImplementsFifo` (refinement) | to its users the buffer is a queue of bytes; compaction and growth never lead to a read into an empty slice and stay bounded |
| `utf8_tail` | `TextIsAccepted`, `TextIsKept` | the cut into fragments does not matter to valid text |
| `managed_messages` | `TypeOK`. `CopiesCostFaults`: a message is posted again only after an earlier post of it of which the file was not told (answer lost, save failed, or a crash in between); restarts, reconnections, refused requests and deletions pay for nothing. `RememberedIsPosted`, `CleanIsInSync`, `EditIsNoticed` (liveness; of edits during a session) | copies and stale messages come from the faults that explain them only |
| `reaction_roles` | `LastReactionDecides`: once a person's last act is handled, they hold of the mapped roles what that act asks for, over resumes, outages, restarts and rejected configurations. `RefsMeanNames`: the places the bot holds mean the names of its configuration. `NobodyElseBroughtIt` (action): a name is bound only to the one role that all lists of the session together brought under it (`BroughtAs`: what a later list only renames is not brought again). | failures, replays and late requests heal with the next act; bot and registry never come apart |
| `http_client` | `AtMostOnce`, `SuccessIsReal`, `ErrorsCostFaults`, `SleepIsBounded`, `LimitIsKept` (action) | no duplicate POST, no foreign response, no error or sleep without its cause; no request into a limit known to be empty, while what was read last for its route key and bucket is about that limit. `SleepIsBounded` is about the sleeps; time blocked in connect, read and write has its own timeouts and is not counted |
| `gateway_fatal`, `gateway_resume`, `utf8_dropped` | one each | the findings of section 6; each of these runs ends in a counterexample |

`Utf8Tail`, `HttpClient` and `ReactionRoles` state no type invariant of their own; the
domains of their variables show in their properties, which compare them with the
server's or the configuration's side.

### Bounds, and why they are enough

- `heartbeat`: interval 2 or 4 ticks (and two HELLO values that must be refused),
  absence up to 5 (more than the backstop window of 4, less than that of 8), one tick of
  ACK delay; with an interval of 4, an absence before a heartbeat and one before its ACK is
  read can add up, which is what `PromptCallerKeepsAlive` is about; bursts of two messages in an inbox of two: two ACKs in
  flight, one of them late, is the smallest case in which the flag and the timer
  disagree. A read is prolonged by up to two ticks, about an interval.
  All its properties hold for all values by proof.
- `gateway_session`: four sessions, two events, three faults: a resume that fails
  inside another resume, and a fresh session after it, with events before and
  after. Lost and replayed dispatches need one event, order needs two. The safety
  properties and the refinement hold for all values by proof.
- `ws_send`: two-unit frames, so that each can be cut; a threshold of one unit for
  further pongs, so that behind half a frame only the echo of a Close frame can wait here
  (that pongs do is covered by `PendingStaysBounded`, for every threshold); three frames of
  the caller's and two of the server's; two connections, for what must not survive a reconnect. `ws_read`: four frames of
  nine kinds, a score limit of two, fragments of up to two payloads, a budget of
  three frames per call: a message of three frames with a control frame inside, or
  a burst past the limit.
- `read_buf`: header 2, frame up to 3, slices of 2, nine bytes in two streams:
  every growth, both kinds of compaction and the shrink happen. The proofs remove
  these bounds.
- `utf8_tail`: five bytes: a four-byte character with one byte before or behind it,
  cut everywhere. The proofs remove the bound.
- `managed_messages`: two messages, five versions of the configuration (new
  content, a move, an unreadable file, one that is refused, an ambiguous channel),
  a queue of two actions so that it overflows, five posts, three faults. The safety
  properties hold for all values by proof.
- `reaction_roles`: one person and the bot itself, three versions of the
  configuration of which the second is rejected (one mapping by name and one by id,
  then other mappings, with a message that has changed its place, a role named that had an id,
  a message listed twice and one by id), two lists of roles, in the second of which one role is
  gone, another has its name, and one is renamed to the name of a new one, so that "green" is ambiguous
  over both lists of a session and "blue" in the second alone; two acts, two faults, a queue of two so that
  it overflows. Two acts are what can overtake each other; the second fault is what
  hits the recovery from the first. The proofs remove all of these bounds.
- `http_client`: three calls in three orders (`Plans`): to a channel, to another one with the
  same route key and a limit of its own, and to the first again; the same with a PUT that counts
  in the first one's limit between them; and a PUT first. Two attempts, two faults (what an idempotent request
  survives is one), windows of three ticks, which begin beyond the cap and the clamp (both one) and
  come within them as they run out. Each limit has a bucket of its own; `HttpNames.cfg` is the same
  instance with one bucket name for both. `MAX_ATTEMPTS`, `MAX_PREEMPTIVE_WAIT` and the clamp keep their
  order but not their size; the proofs are about any size. Deadlock is not checked here and in `read_buf`, where
  the instance runs out of calls or streams.

### Fairness

Liveness assumes weak fairness of the bot's own thread (`RunnerStep`,
`ReadStep`: the code is a loop that does not wait for anything but the reads the
models show) and of time (`DeadlinePasses`). `GatewaySession` also assumes
that the gateway answers a request it received: a request that is never answered
ends by the read timeout, which is one of its faults, and faults are finite.
`WsConn` assumes that the caller goes on reading (strong fairness of `ReadCall`,
since other calls of the caller may come between): that is the documented use of
the library, and `Session::poll` is such a caller. Nothing is assumed of servers
otherwise; events, frames and ACKs need not come. `Heartbeat`, `HttpClient`,
`ReactionRoles` and `ReadBuf` have safety properties only: that a silent connection is given up and that a
call returns are stated as bounds (`ZombieFoundInTime`, `SleepIsBounded`).

## 4. What is proved

`tlapm` checks these for every value of the constants that satisfies the named
assumption of the module.

- `HeartbeatProofs!TypeCorrect`, `ZombieDetection`, `HandshakeOnTime` and `PromptCallersLive`,
  from `HeartbeatAssumption` (the delays and bounds are natural numbers).
  `ZombieFoundInTime` is not inductive: that `muteFor` is small says nothing about
  the next tick. The strengthening is `TypeInv /\ MuteMeansSilent /\ Clocks`.
  `MuteMeansSilent`: while the silence is counted there is no ACK in the inbox.
  `Clocks` splits on the pending flag. With an ACK pending, `last_ack` is at least
  as old as the silence (`AckOlder`), so the backstop bounds it; the sum of the
  silence and the rest of the armed read stays below what the read can be prolonged to.
  Without one, the next heartbeat is due before the silence exceeds the interval
  (`QuietSums`), and sending it sets the flag. `OP 1` requests move `next_heartbeat` but
  never `last_ack`, which is why they cannot extend the bound. Each step either keeps
  the sums or (`ClocksTick`) moves one tick from the timer to the silence.
  `HandshakeClock` says the same of the READY deadline: the time past it and the rest of
  the read are no more than what is left of the deadline and what the read has been
  prolonged by. `PromptCallersLive` is proved of `MCSpec`, which counts what went unwatched, and
  also needs `PromptServer`: an ACK takes less than any interval the server names, without which no
  caller is prompt enough. `PromptInv` has two sums, one while no ACK is pending
  (`AckedSums`: the time since the last ACK and the time to the next heartbeat make an interval,
  but for what went unwatched) and one while one is (`AwaitedSums`: the last ACK is older than
  the heartbeat by an interval at most, but for what is `Brief`), and `AckComes`: the ACK of a
  healthy server is in flight, or in the inbox for no longer than the caller was away.
- `ReadBufProofs!TypeCorrect`, `BytesStay`, `RoomToRead`, `MemoryStaysBounded` and
  `QueueOfBytes`, from `ReadBufAssumption`. The buffer proper is the predicate `Sound` on memory and
  cursors, with one lemma per operation (`CompactKeeps`, `EnsureKeeps`,
  `ReadKeeps`, `ConsumeKeeps`, `ClearKeeps`, ...). The invariant `IInv` adds
  `Cursors` (where `target` lies at each `pc`) and `Window`: pending bytes either
  start within a header of the front or fill half of the buffer, because
  compaction is put off only so long. That is what bounds the memory. `QueueOfBytes` is
  the refinement of `ByteQueue`: what is pending is decided by the two counts of bytes
  received and consumed (`CountsDecide`), so every operation that keeps them stutters.
- `GatewaySessionProofs!TypeCorrect`, `CursorIsContinued`, `TablesAreCurrent` and
  `DeadStaysDead`, from `GatewayAssumption` (the bounds are natural numbers). The heart
  of the invariant is `Wired`: the dispatches on the wire are those of the gateway's log
  from `Base` on, without gap, where `Base` is the cursor, or 0 before READY. For this to
  survive a reconnection it must be known that nothing of an earlier connection is left
  on the wire when a request goes out, and that a RESUME names the very cursor it is
  compared with (`Requests`); that what the client holds is the newest session and its
  cursor lies in the log (`HeldIsCurrent`), in one place at a time (`DataPlaced`); that the
  READY on its way is that of a session not held before (`Awaiting`); and that logs are
  begun in order (`Logged`). `Tracked` and `ToldDead` follow the tables and the gateway's
  verdict through the `pc`s between two sessions. One lemma per action.
- `WsConnProofs`: every safety property of `WsConn` that a run checks (`TypeCorrect`,
  `WholeFrames`, `NothingBehindClose`, `PendingStaysBounded`, `MessagesAreWhole`, `FloodCut`,
  `TrickleSafe`, `ClosingStaysFinal`), from `WsAssumption` and `ServerAssumption` (what the
  server sends are frames). The send side is reduced to what a step may do to `Stream`, which
  is what was written followed by what is pending: nothing (`Rests`), move its middle
  (`Drains`), or one frame more at its end (`Calls`, `Pongs`, `AnswersClose`).
  `SendFrameDoes`, `BuildAdds` and `FlushKeeps` show that the functions of `send_buf.rs` do no
  more; `OneMoreFrame` keeps the stream whole. That nothing follows a Close frame needs
  more than one knows from the stream (`Closings`): `send_close` may fail after its frame
  was built and the connection then stays Open, so more frames can be built behind it, but the
  stream is broken for good and none of them gets onto the wire. `Pending` is tighter
  while the connection is not Closed, because only the echo of a Close frame is built without
  looking at the limit. `Flood` bounds the messageless frames by the score. `Parts` says of
  the collected fragments what `MessageIsWhole` says of a message, but for its last part.
- `Utf8TailProofs!TextAccepted` and `TextKept`, from `Utf8Assumption`: for messages of
  any length and every way to cut them. Three facts carry them. Well-formed text can be cut off the front of
  well-formed text, or put there, without anything changing for the rest (`FormedJoins`). What
  utf8_chunks leaves of text that was cut anywhere is the beginning of the one character that was cut,
  and nothing stands behind it (`RestWaits`). And once three bytes have been borrowed, the first
  chunk reaches past the tail (`ValidPastTail`): that is why the length by which
  `push_text_payload` advances in the data never underflows, for input that is no text
  either. `IInv` says that text and tail are what was sent, while this can be text, and that
  the tail then `Waits` for the rest of a character; `PushRight` that one call keeps it so.
- `HttpClientProofs`: every property of `HttpClient` that a run checks (`CarriedOutOnce`,
  `SuccessIsEarned`, `ErrorsArePaid`, `SleepEnds`, `LimitsAreKept`), from `HttpAssumption`. `PipeInv` is what a cached connection rests on: between two exchanges no
  request is on its way and no part of a response is left, and in an exchange there is one
  request or the response to it. `OnceInv`: what must not be repeated was either carried
  out, or is under way, held up in a dropped connection, or still to be sent (`Pending`), never
  two of these; only a 429 leads back from an answer to `Pending`. `CostInv` keeps the accounts
  of the failures: a first exchange that failed (`Failed`) and a connection on which something was
  lost (`Trouble`) each have one that no returned error has used up. For `SleepIsBounded`,
  `SleepInv` gives each attempt that was answered an `Allowance` of one wait before it and one
  after it; behind the last attempt there is none, so that the sum stays at `SleepLimit`. The
  doubling is bounded because `Doubled` is monotonic (`DoubledGrows`).
  `LimitIsKept` rests on `LimitInv`: what the client was told of a limit, and has not
  overwritten since, is what the server counts, and the client's window ends no earlier than the server's,
  from the moment the headers are read, also while the answer that tells it is on its way
  (`"coming"`). The history `named` is the client's `route_buckets`. Nothing is assumed of `LimitOf` and `BucketOf`: requests
  with one route key may count in different limits, and different limits may share a name.
- `ManagedMessagesProofs`: every safety property of `ManagedMessages` that a run checks
  (`TypeCorrect`, `MemoryIsTrue`, `CopiesArePaid`, `SyncIsKept`), from `ManagedAssumption` (names
  and configurations are lists, version 1 can be loaded). For `RememberedIsPosted` and
  `CopiesCostFaults` not even the order or content of the queue matters. `CopiesCostFaults` is not inductive, for between a
  request and the save the last copy is on Discord only. `lost` counts, for each
  name, the posts of which the file was not told, and grows only where an answer to a post is
  lost, its save fails or the process crashes before it (`Lose`). `CopiesInv` counts one copy less
  for a message the file does not know, unless its answer is still to come (`Unrecorded`): a
  message is posted only if it is not remembered, what is not remembered is not in the file
  (`FileIsNotAhead`), and so all its copies were paid for. A restart that forgot the file
  (`StartForgets`) would break it. `AnswerInv` says which message
  the answer under way is about, `MemoryInv` that the file is never ahead of the runner,
  which a restart relies on. One lemma per action that matters, `NoAnswerKeeps` for the rest.
  `SyncIsKept` needs the queue (`QueueInv`: reactions come behind the messages, so that a reaction
  finds its message posted), what an answer says of the message it is about (`DoneInv`), and
  that the remembered hash is that of a version the bot had while the message shows that version
  or a later one (`HashInv`); with no content that returns, the hash then tells every
  stale message. `SyncInv` is the claim itself, said of every state: what is not in sync
  has its action in the queue.
- `ReactionRolesProofs!RefsKeepMeaning` and `LastReactionCounts`, from `ReactionAssumption`
  (the configurations and role lists are well formed). `RegistryInv`: the registry is the one made
  of the bot's version, and normalized once a session has begun. That the places of a table mean
  its names follows from what `FirstUses` and `InOrder` compute, by induction over the list.
  `LastReactionDecides` is not inductive, for what is decided is carried out one
  request at a time. `Decided` says of a calm person that each mapping is right already
  or has its request in the queue, and that a queued request asks for what the
  person's last act asks for. `InboxInv` says that a person of whom something has still to be handled
  is not calm, and that the last of it is the last thing that person did: so it holds over replays.
  `OneMappingPerRole` is what makes the requests of different mappings independent.
- `ReactionRolesProofs!NameIsTakenOnce`: `NobodyElseBroughtIt`, from the same assumption and for every
  history of the roles, renamed ones included. `ListsInv` says that the lists still to be handled and those seen
  come in the order in which they were sent, `KnownInv` that the tracker knows exactly the roles of
  the lists it has seen, each under the name of the first list it was in (`KnownAre`). That nobody bears the name in
  any list (`NobodyElseBearsIt`) is more than the code gives: `RoleRenamed.cfg` is
  the counterexample (section 6, no. 12).
- `GatewaySessionProofs!FeedIsImplemented`: `Spec => ImplementsFeed`. `StepImplements` shows that
  under the invariant each action is a step of the feed (`Follow` at READY, `HandleNext` at
  a dispatch, `GiveUp` where the session data is dropped, `Send` and `Begin` at the gateway)
  or stutters. `EventsOnceInOrder` puts it together with `FeedIsOrdered`: the bot handles
  the events in the order in which they happened, none twice, and leaves none out of the
  session it holds.
- `GatewaySessionProofs!FeedIsOrdered`, from the steps of the feed alone: the bot handles events in
  increasing order and of the session it follows every one up to its place. It needs
  that whatever was handled lies in a part of a stream that was passed
  (`HandledWasPassed`) and that events of later sessions and places are later (`Ordered`).

Induction over lists is done with sets: a claim about all prefixes of a list fails, if it does, for
a shortest one (`SmallestOf`, `InductionOf` in `ReactionRolesProofs`, from the well-founded order of
the natural numbers), and a recursive function on the prefixes is opened one element at a
time. `MaxIs` in `Utf8TailProofs` has the greatest number of a finite range from the same order.

Only model-checked: all liveness (`EditIsNoticed`, `Recovers`, `EventsArrive`, `PingIsSettled`:
fairness and ENABLED are outside the prover's reach).

## 5. What is not modelled, and why

TLS, DNS, JSON and header parsing, percent encoding, masking and frame headers:
conversions without state; their failures appear as faults or as useless input.
The opening handshake's validation is a pure function of the response. The event
log and the TSV escaping are output. Random values (nonces, jitter) are
nondeterministic or absent. The testbed's bots hold no state. `Duration::from_secs_f64` panics on values no REST server of Discord
sends; `HttpClient` takes the headers for numbers in range.

## 6. Divergences

Findings with a run of their own in `PROJECT.json`:

1. `gateway_fatal` (`FatalCodeStops`): a fatal close code read in the READY wait
   becomes a retry. Discord rejects a bad token exactly there.
2. `gateway_resume` (`SessDataSurvives`): `run_session` moves the resume data into
   the attempt; if the attempt fails before RESUME is sent, the session is lost.
3. `utf8_dropped` (`OnlyTextIsDelivered`): a short continuation that does not
   continue the pending character is dropped in part, without an error.

Stated in the modules and refuted by the configuration named, but not part of the
listed runs:

4. `NoEditIsMissed` (`ManagedReload.cfg`): each gateway session makes a new watcher,
   whose baseline is the file as it is then: an edit made between two sessions is
   never loaded.
5. `BackstopAsDocumented` (`HeartbeatAway.cfg`): the backstop measures the time
   since the last ACK, not how long one has been outstanding (`heartbeat.rs:67`):
   after an absence of the caller a heartbeat sent on request dies at the next check.
6. `TimeoutMeansSilence` (`WsPingTimeout.cfg`): a pong processed in the read call
   that then blocks does not clear the deadline (`kamekichi-ws/src/lib.rs:261`).
7. `StaysInSync` (`ManagedReverted.cfg`): an edit whose answer is lost, then a
   change back to the old content: the remembered hash matches and the message on
   Discord stays as it was edited. `CleanIsInSync` is the claim without such a return.
8. `WaitIsCapped` (`HttpWait.cfg`): a known limit longer than the cap is not waited
   for at all, while `client.rs:110-112` speaks of a capped wait.
9. `WindowIsKept` (`HeartbeatDrip.cfg`): with bytes that complete no message, a live
   connection's window and the READY deadline are overrun by what one read can be
   prolonged (`kamekichi-ws/src/proto.rs:229`): the timeout is per read of the stream.
10. `LastReactionDecidesAlways` (`ReactionShared.cfg`): when one role is mapped twice, a
    reaction with one emoji adds the role for its mapping and removes it for the other,
    in the order of the configuration (`kippe/src/main.rs:54-60`).
11. `StandingReactionsCount` (`ReactionStands.cfg`): a second reaction takes away what the
    first gave although both still stand, while the repository's `README.md:88` speaks of
    mappings from emojis to roles.
12. `NobodyElseBearsIt` (`RoleRenamed.cfg`): the tracker keeps a role under the name it had,
    so a name that moves from one role to another between two role lists of a session is
    bound to a role that lost it, or looks ambiguous, where `runner.rs:324` warns of a name that
    several roles match. `NobodyElseBroughtIt` is what holds nevertheless.
13. `MajorParametersStay` (`LimitForgotten.cfg`): `client.rs:89-92` says that the route key keeps the
    major parameters "intact through the bucket ID Discord returns", but the key has one bucket
    for all channels. Channel A's limit is told empty, the answer for channel B overwrites the
    bucket of the key, and the next request to A goes out into a 429 (and the other way round,
    a request to B waits for A's window).

## 7. Plan

What is done: one module for every component that keeps state; the abstract
specifications `ByteQueue` and `EventFeed` with their refinements, checked and
proved; the proofs of section 4, which state every safety property of the passing runs.
What is left:

1. The composition of the watcher of `ManagedMessages` with the clock of `Heartbeat`
   (changes within five seconds), and of the sleeps of `HttpClient` with `MaxBusy`.

## 8. Running

    tlc -workers 2 -config Heartbeat.cfg MCHeartbeat
    tlapm HeartbeatProofs.tla

Each `.cfg` belongs to the `MC` module whose constants it names. The longest runs are
`ws_send` (two to three minutes), `http_client` (under two minutes, 4.9 million states) and
`reaction_roles` (a minute and a half).
