-------------------------- MODULE ManagedMessages ---------------------------
(***************************************************************************)
(* The managed messages of the bot kippe: what Event::Started makes of the *)
(* configuration (crates/kippe/src/main.rs, crates/kamekichi/src/host.rs), *)
(* how the runner executes the queued actions and keeps track of the       *)
(* messages it posted (src/runner.rs), the state file (src/state.rs) and   *)
(* the reload of the configuration (src/config.rs); against Discord, the   *)
(* editor of config.json, and crashes.                                     *)
(*                                                                         *)
(* The registry holds, after every change, what the state holds (RefTable, *)
(* normalize), so names are looked up in the state directly.               *)
(***************************************************************************)
EXTENDS Integers, Sequences, FiniteSets, Functions

CONSTANTS
  Names,         \* the stable names of the managed messages, in config order
  Seeded,        \* those that get a reaction
  Configs,       \* the versions of config.json, each with a message for each name
  Unreadable,    \* the versions load cannot parse
  Rejected,      \* the versions it parses and Bot::new refuses
  GuildChannels, \* the channel names of the guild that belong to one channel only
  MaxActions,    \* MAX_ACTIONS of the queue
  MaxPosts,      \* bound: messages ever posted
  MaxFaults      \* bound: crashes, failed requests, saves and deletions

ASSUME ManagedAssumption ==
  /\ Names \in Seq(STRING) /\ Seeded \subseteq Range(Names)
  /\ Configs \in Seq([Range(Names) -> [channel : STRING \ {"none"}, content : Nat]])
  /\ 1 \in DOMAIN Configs \ (Unreadable \cup Rejected)
  /\ MaxActions \in Nat /\ MaxPosts \in Nat /\ MaxFaults \in Nat

VARIABLES
  pc,       \* "down", "connect", "retry" (after a lost session), "poll", "execute", "answer"
  bot,      \* the version of the configuration the bot was made from
  mtime,    \* Watcher::mtime, as the version it belongs to
  file,     \* the version in config.json
  greeting, \* GUILD_CREATE or RESUMED on its way
  known,    \* the channel names in the ChannelRoleTracker
  managed,  \* State::managed
  channels, \* State::channels, as the names that have an id
  disk,     \* state.tsv
  queue,    \* the actions left to execute
  answer,   \* what came of the request under way
  posts,    \* the messages on Discord, by id
  faults,
  clean,    \* history: nothing failed and no action was dropped since the last Started
  lost      \* history, per name: posts of it of which the file was not told

runVars   == <<pc, bot, mtime, greeting>>
stateVars == <<known, managed, channels, disk>>
workVars  == <<queue, answer, posts, clean, lost>>
vars      == <<runVars, stateVars, workVars, file, faults>>

NameSet == Range(Names)
Good == DOMAIN Configs \ (Unreadable \cup Rejected)
Entry(v, name) == Configs[v][name]

Fault == faults < MaxFaults /\ faults' = faults + 1

NoEntry == [id |-> 0, channel |-> "none", hash |-> 0]
Tracked(m, name) == m[name] # NoEntry

(* save writes a temporary file and renames it, or leaves the old one.     *)
SaveState(m, c) ==
  \/ disk' = [managed |-> m, channels |-> c] /\ UNCHANGED <<faults, clean>>
  \/ Fault /\ UNCHANGED disk /\ clean' = FALSE

Init ==
  /\ pc = "down" /\ bot = 1 /\ mtime = 1 /\ file = 1 /\ greeting = "none"
  /\ known = {} /\ managed = [n \in NameSet |-> NoEntry] /\ channels = {}
  /\ disk = [managed |-> managed, channels |-> channels]
  /\ queue = <<>> /\ answer = "none" /\ posts = <<>> /\ faults = 0 /\ clean = FALSE
  /\ lost = [n \in NameSet |-> 0]

-----------------------------------------------------------------------------
\* Mutant of Start: what state.tsv says of the messages is not taken over.
StartForgets ==
  /\ pc = "down" /\ file \in Good
  /\ bot' = file
  /\ managed' = [n \in NameSet |-> NoEntry] /\ channels' = disk.channels /\ known' = {}
  /\ pc' = "connect"
  /\ UNCHANGED <<mtime, greeting, disk, workVars, file, faults>>

\* run: config.json and state.tsv are read.
Start ==
  /\ pc = "down" /\ file \in Good
  /\ bot' = file
  /\ managed' = disk.managed /\ channels' = disk.channels /\ known' = {}
  /\ pc' = "connect"
  /\ UNCHANGED <<mtime, greeting, disk, workVars, file, faults>>

(* run_session: a new watcher looks at the file once the gateway session   *)
(* is there. Only a session that is not resumed clears the tracker.        *)
OpenSession(resumed) ==
  /\ pc = "retry" \/ (pc = "connect" /\ ~resumed)
  /\ mtime' = file
  /\ IF resumed THEN greeting' = "RESUMED" /\ UNCHANGED known
                ELSE greeting' = "GUILD_CREATE" /\ known' = {}
  /\ pc' = "poll"
  /\ UNCHANGED <<bot, managed, channels, disk, workVars, file, faults>>

-----------------------------------------------------------------------------
(* What kippe queues for Started: an upsert for each message that is not   *)
(* as the state remembers it, then a reaction for each one with roles.     *)
Upsert(v, n)   == [kind |-> "upsert", name |-> n, channel |-> Entry(v, n).channel,
                   content |-> Entry(v, n).content]
Reaction(v, n) == [kind |-> "react", name |-> n, channel |-> Entry(v, n).channel, content |-> 0]

AsRemembered(v, n, chans) ==
  /\ managed[n].hash = Entry(v, n).content
  /\ Entry(v, n).channel \in chans /\ managed[n].channel = Entry(v, n).channel

\* The names in a set, in the order of the configuration.
InOrder(set) ==
  LET upTo[k \in 0..Len(Names)] ==
        IF k = 0 THEN <<>>
        ELSE IF Names[k] \in set THEN Append(upTo[k - 1], Names[k]) ELSE upTo[k - 1]
  IN  upTo[Len(Names)]

Upserts(v, chans) ==
  LET changed == InOrder({n \in NameSet : ~AsRemembered(v, n, chans)})
  IN  [k \in 1..Len(changed) |-> Upsert(v, changed[k])]

Reactions(v) == [k \in 1..Len(InOrder(Seeded)) |-> Reaction(v, InOrder(Seeded)[k])]

HandleStartedReactFirst(v, chans) == Reactions(v) \o Upserts(v, chans) \* mutant
HandleStarted(v, chans) == Upserts(v, chans) \o Reactions(v)

(* Started: names not in the state are looked up in the tracker, the state *)
(* is saved if that found any, and the bot handles the event.              *)
Started(v) ==
  LET wanted == {Entry(v, n).channel : n \in NameSet}
      chans  == channels \cup (wanted \cap known')
  IN  /\ channels' = chans
      /\ IF chans # channels
         THEN \/ disk' = [managed |-> managed, channels |-> chans] /\ UNCHANGED faults
              \/ Fault /\ UNCHANGED disk
         ELSE UNCHANGED <<disk, faults>>
      /\ LET actions == HandleStarted(v, chans)
         IN  /\ queue' = SubSeq(actions, 1, IF Len(actions) > MaxActions THEN MaxActions
                                            ELSE Len(actions))
             /\ clean' = (faults' = faults /\ Len(actions) <= MaxActions)
      /\ pc' = IF queue' = <<>> THEN "poll" ELSE "execute"
      /\ UNCHANGED <<managed, answer, posts, lost>>

\* Mutant of Reload: the time is noted, the file forgotten.
ReloadForgets ==
  /\ pc = "poll" /\ file # mtime /\ file \in Good
  /\ mtime' = file
  /\ UNCHANGED <<pc, bot, greeting, stateVars, workVars, file, faults>>

\* The watcher finds another modification time and a file it can load.
Reload ==
  /\ pc = "poll" /\ file # mtime /\ file \in Good
  /\ bot' = file /\ mtime' = file
  /\ UNCHANGED known
  /\ Started(file)
  /\ UNCHANGED <<greeting, file>>

\* The new bot cannot be made: the old one stays, the file is not looked at again.
ReloadFails ==
  /\ pc = "poll" /\ file # mtime /\ file \in Rejected
  /\ mtime' = file
  /\ UNCHANGED <<pc, bot, greeting, stateVars, workVars, file, faults>>

GuildCreate ==
  /\ pc = "poll" /\ greeting = "GUILD_CREATE"
  /\ greeting' = "none"
  /\ known' = known \cup GuildChannels
  /\ Started(bot)
  /\ UNCHANGED <<bot, mtime, file>>

Resumed ==
  /\ pc = "poll" /\ greeting = "RESUMED"
  /\ greeting' = "none"
  /\ UNCHANGED known
  /\ Started(bot)
  /\ UNCHANGED <<bot, mtime, file>>

-----------------------------------------------------------------------------
(* execute_actions, one action after the other; the gateway is not read    *)
(* meanwhile.                                                              *)
This == Head(queue)
\* Mutant of NextAction: the queue is abandoned after its first action.
NextActionLast == queue' = Tail(queue) /\ pc' = "poll"
NextAction == queue' = Tail(queue) /\ pc' = IF Tail(queue) = <<>> THEN "poll" ELSE "execute"

Live(id) == posts[id].live

\* The guards before the request, each with its message on stderr.
Refused(a) ==
  \/ a.channel \notin channels
  \/ a.kind = "upsert" /\ Tracked(managed, a.name) /\ managed[a.name].channel # a.channel
  \/ a.kind = "react" /\ ~Tracked(managed, a.name)

RefuseAction ==
  /\ pc = "execute" /\ Refused(This)
  /\ NextAction
  /\ UNCHANGED <<bot, mtime, greeting, stateVars, answer, posts, clean, lost, file, faults>>

Await(r) == answer' = r /\ pc' = "answer"

(* A request reaches Discord and is carried out; its answer may get lost.  *)
CarriedOut(r) ==
  \/ Await(r) /\ UNCHANGED faults
  \/ Await("failed") /\ Fault

\* History: what fails in this step, if anything, is the record of a post.
Lose(name) == lost' = IF faults' = faults THEN lost ELSE [lost EXCEPT ![name] = @ + 1]

PostMessage ==
  /\ pc = "execute" /\ This.kind = "upsert" /\ ~Refused(This) /\ ~Tracked(managed, This.name)
  /\ Len(posts) < MaxPosts
  /\ posts' = Append(posts, [name |-> This.name, channel |-> This.channel,
                             content |-> This.content, live |-> TRUE, seeded |-> FALSE])
  /\ CarriedOut("posted")
  /\ Lose(This.name)
  /\ UNCHANGED <<bot, mtime, greeting, stateVars, queue, clean, file>>

EditMessage ==
  /\ pc = "execute" /\ This.kind = "upsert" /\ ~Refused(This) /\ Tracked(managed, This.name)
  /\ LET id == managed[This.name].id
     IN  IF Live(id)
         THEN posts' = [posts EXCEPT ![id].content = This.content] /\ CarriedOut("edited")
         ELSE Await("failed") /\ UNCHANGED <<posts, faults>>
  /\ UNCHANGED <<bot, mtime, greeting, stateVars, queue, clean, lost, file>>

AddReaction ==
  /\ pc = "execute" /\ This.kind = "react" /\ ~Refused(This)
  /\ LET id == managed[This.name].id
     IN  IF Live(id) /\ posts[id].channel = This.channel
         THEN posts' = [posts EXCEPT ![id].seeded = TRUE] /\ CarriedOut("reacted")
         ELSE Await("failed") /\ UNCHANGED <<posts, faults>>
  /\ UNCHANGED <<bot, mtime, greeting, stateVars, queue, clean, lost, file>>

\* The request never gets there, or Discord refuses it.
RequestFails ==
  /\ pc = "execute" /\ ~Refused(This)
  /\ Fault
  /\ Await("failed")
  /\ UNCHANGED <<bot, mtime, greeting, stateVars, queue, posts, clean, lost, file>>

\* Mutant of Remember: the id is that of the last post.
RememberLast(id) ==
  /\ managed' = [managed EXCEPT ![This.name] =
                   [id |-> Len(posts), channel |-> This.channel, hash |-> This.content]]
  /\ SaveState(managed', channels)

(* A success is remembered and saved before the next action.               *)
Remember(id) ==
  /\ managed' = [managed EXCEPT ![This.name] =
                   [id |-> id, channel |-> This.channel, hash |-> This.content]]
  /\ SaveState(managed', channels)

AnswerArrives ==
  /\ pc = "answer"
  /\ NextAction
  /\ answer' = "none"
  /\ CASE answer = "posted"  -> Remember(Len(posts))
       [] answer = "edited"  -> Remember(managed[This.name].id)
       [] answer = "reacted" -> UNCHANGED <<managed, disk, faults, clean>>
       [] answer = "failed"  -> clean' = FALSE /\ UNCHANGED <<managed, disk, faults>>
  /\ IF answer = "posted" THEN Lose(This.name) ELSE UNCHANGED lost
  /\ UNCHANGED <<bot, mtime, greeting, known, channels, posts, file>>

-----------------------------------------------------------------------------
(* The connection ends (the runner tries again), the process ends, the     *)
(* file is edited, a moderator deletes a message.                          *)
LoseSession ==
  /\ pc = "poll" /\ Fault
  /\ pc' = "retry" /\ greeting' = "none"
  /\ UNCHANGED <<bot, mtime, stateVars, workVars, file>>

Crash ==
  /\ pc # "down" /\ Fault
  /\ pc' = "down" /\ greeting' = "none" /\ queue' = <<>> /\ answer' = "none" /\ clean' = FALSE
  /\ IF answer = "posted" THEN Lose(This.name) ELSE UNCHANGED lost
  /\ UNCHANGED <<bot, mtime, stateVars, posts, file>>

EditConfig ==
  /\ file < Len(Configs)
  /\ file' = file + 1
  /\ UNCHANGED <<runVars, stateVars, workVars, faults>>

DeletePost(id) ==
  /\ Live(id) /\ Fault
  /\ posts' = [posts EXCEPT ![id].live = FALSE]
  /\ UNCHANGED <<runVars, stateVars, queue, answer, clean, lost, file>>

\* Nothing to do: the runner goes on polling; a process that is down may stay down.
Idle == pc \in {"poll", "down"} /\ UNCHANGED vars

RunnerStep ==
  \/ Reload \/ ReloadFails \/ GuildCreate \/ Resumed
  \/ RefuseAction \/ PostMessage \/ EditMessage \/ AddReaction \/ AnswerArrives

Outside ==
  \/ \E resumed \in BOOLEAN : OpenSession(resumed)
  \/ Start \/ RequestFails \/ LoseSession \/ Crash \/ EditConfig
  \/ \E id \in 1..Len(posts) : DeletePost(id)

Next == RunnerStep \/ Outside \/ Idle

(* The runner's thread runs on.                                            *)
Spec == Init /\ [][Next]_vars /\ WF_vars(RunnerStep)

-----------------------------------------------------------------------------
Versions == DOMAIN Configs
AllChannels == {Entry(v, n).channel : v \in Versions, n \in NameSet}
Ids == 0..MaxPosts

(* The runner's memory, its file and Discord stay in these domains.        *)
TypeOK ==
  /\ pc \in {"down", "connect", "retry", "poll", "execute", "answer"}
  /\ {mtime, file} \subseteq Versions /\ bot \in Good
  /\ greeting \in {"none", "GUILD_CREATE", "RESUMED"}
  /\ known \subseteq GuildChannels /\ channels \subseteq AllChannels
  /\ {managed, disk.managed} \subseteq
       [NameSet -> [id : Ids, channel : AllChannels \cup {"none"}, hash : Nat]]
  /\ disk.channels \subseteq AllChannels
  /\ pc \in {"execute", "answer"} <=> queue # <<>>
  /\ answer \in {"none", "posted", "edited", "reacted", "failed"}
  /\ answer # "none" <=> pc = "answer"
  /\ Len(posts) <= MaxPosts /\ faults \in 0..MaxFaults /\ clean \in BOOLEAN
  /\ lost \in [NameSet -> Nat]

PostsOf(name) == {id \in DOMAIN posts : posts[id].name = name}

(* A managed message is posted once: every further copy is paid for by an  *)
(* earlier post of that message of which the file was not told (its answer *)
(* was lost, the save failed, or the process crashed between the request   *)
(* and the save). Nothing else pays: not a restart, a new session, a new   *)
(* configuration, a refused request, a deleted message, nor what was lost  *)
(* of other messages or of edits.                                          *)
CopiesCostFaults == \A n \in NameSet : Cardinality(PostsOf(n)) <= 1 + lost[n]

(* The ids the runner and its file remember are those of messages posted   *)
(* under that name and in that channel, and the file is never ahead of the *)
(* runner that writes it.                                                  *)
RememberedIsPosted ==
  \A n \in NameSet :
    /\ \A m \in {managed, disk.managed} :
         Tracked(m, n) =>
           m[n].id \in PostsOf(n) /\ posts[m[n].id].channel = m[n].channel
    /\ disk.managed[n].id <= managed[n].id

(* The message is remembered, and if it is still there and in the channel  *)
(* the configuration wants, shows what it says and has its reaction.       *)
InSync(n) ==
  /\ Tracked(managed, n)
  /\ LET m == managed[n]
     IN  Live(m.id) /\ m.channel = Entry(bot, n).channel =>
           /\ posts[m.id].content = Entry(bot, n).content
           /\ n \in Seeded => posts[m.id].seeded

(* "Messages the bot posts and keeps in sync with config" (README.md:87):  *)
(* when nothing Started queued has failed, every message whose channel is  *)
(* known is in sync.                                                       *)
StaysInSync ==
  clean /\ pc = "poll" => \A n \in NameSet : Entry(bot, n).channel \in channels => InSync(n)

NoContentReturns ==
  \A n \in NameSet, u, v, w \in Versions :
    u < v /\ v < w /\ Entry(u, n).content = Entry(w, n).content
      => Entry(v, n).content = Entry(u, n).content

(* The same, while config.json never goes back to an earlier content: the  *)
(* hash in the state then tells every stale message, also after answers    *)
(* that were lost, saves that failed and crashes between the request and   *)
(* the save; and the reaction finds the id of the message that was posted  *)
(* by an action queued before it.                                          *)
CleanIsInSync == NoContentReturns => StaysInSync

(* An edit of the file the watcher can see is taken over before long, or   *)
(* the session ends first.                                                 *)
EditIsNoticed ==
  (pc = "poll" /\ file # mtime)
    ~> (bot = file \/ file \notin Good \/ pc \in {"connect", "retry", "down"})

(* "Edit config.json while the bot is running; changes apply within 5      *)
(* seconds" (README.md:16): when the watcher sees nothing to reload, the   *)
(* bot is the one the file describes, unless the file cannot be used.      *)
NoEditIsMissed == pc = "poll" /\ mtime = file /\ file \in Good => bot = file
=============================================================================
