--------------------------- MODULE ReactionRoles ---------------------------
(***************************************************************************)
(* Roles given and taken by reactions: kippe's handler                     *)
(* (crates/kippe/src/main.rs), the references it holds instead of names    *)
(* (crates/kamekichi/src/refs.rs), the tracker that finds the roles' ids   *)
(* in GUILD_CREATE and the execution of what the handler queues            *)
(* (crates/kamekichi/src/runner.rs).                                       *)
(*                                                                         *)
(* Module GatewaySession has the sessions in detail, ManagedMessages the   *)
(* contents, channels and the watcher of config.json, HttpClient the       *)
(* requests. Here an event that was not handled when the session ended is  *)
(* replayed if the session is resumed and lost otherwise, an edit of       *)
(* config.json and its discovery are one step, a request and its answer    *)
(* too, and the content of a message never changes.                        *)
(***************************************************************************)
EXTENDS Integers, Sequences, Functions

CONSTANTS
  Users,         \* the people who react
  Bot,           \* the bot's own user
  Configs,       \* the versions of config.json: managed messages and mappings
  Rejected,      \* the versions Bot::new fails on
  Guilds,        \* the guild's roles over time: from ids to names
  Others,        \* ids of messages the bot did not post, below 0
  Emojis,
  MaxActions,    \* MAX_ACTIONS of the queue
  MaxReactions,  \* bound: reactions made and withdrawn
  MaxFaults      \* bound: crashes, lost sessions, failed requests and saves, outages

VARIABLES
  pc,        \* "down", "connect", "retry" (after a lost session), "poll", "execute"
  file,      \* the version in config.json
  bot,       \* the version of the configuration the bot was made from
  registry,  \* the RefRegistry: tables of names, and their ids
  known,     \* ChannelRoleTracker::role_ids: roles by id and name
  roles,     \* State::roles, 0 for a name that is not there
  managed,   \* State::managed, as the id of the message or 0
  disk,      \* state.tsv
  queue,     \* the actions left to execute
  inbox,     \* the dispatches the runner has still to handle
  guild,     \* the roles the guild has now, as their place in Guilds
  posts,     \* messages posted by the bot; their ids are 1, 2, ...
  reactions, \* the reactions that stand
  held,      \* the roles people hold
  strays,    \* role requests given up by the client that may still be carried out
  made, faults,
  seen,      \* history: the role lists this session has brought
  last,      \* history: what each person did last
  calm       \* history: that was handled and nothing went wrong since

botVars   == <<bot, registry>>
stateVars == <<roles, managed, disk>>
trackVars == <<known, seen>>
worldVars == <<posts, reactions, held, strays>>
userVars  == <<made, last>>
vars == <<pc, file, botVars, trackVars, stateVars, queue, inbox, guild, worldVars,
          userVars, faults, calm>>

-----------------------------------------------------------------------------
(* A reference in config.json is "id:..." or "stablename:...".             *)
Direct(id)  == [direct |-> TRUE, is |-> id]
Named(name) == [direct |-> FALSE, is |-> name]

IsRef(r) == IF r.direct THEN r = Direct(r.is) /\ r.is \in Int \ {0}
                        ELSE r = Named(r.is) /\ r.is \in STRING

Mappings(v) == Configs[v].mappings
RoleRefs(v) == [k \in DOMAIN Mappings(v) |-> Mappings(v)[k].role]
MessageRefs(v) ==
  Configs[v].managed \o [k \in DOMAIN Mappings(v) |-> Mappings(v)[k].message]

NamesIn(refs) == {refs[k].is : k \in {j \in DOMAIN refs : ~refs[j].direct}}
Versions     == DOMAIN Configs
Good         == Versions \ Rejected
RoleNames    == UNION {NamesIn(RoleRefs(v)) : v \in Versions}
MessageNames == UNION {NamesIn(MessageRefs(v)) : v \in Versions}

IsMapping(m) ==
  /\ m = [message |-> m.message, emoji |-> m.emoji, role |-> m.role, seed |-> m.seed]
  /\ IsRef(m.message) /\ IsRef(m.role) /\ m.seed \in BOOLEAN

IsList(s) == Len(s) \in Nat /\ s = [k \in 1..Len(s) |-> s[k]]

ASSUME ReactionAssumption ==
  /\ Bot \notin Users /\ 1 \in Good
  /\ IsList(Configs) /\ IsList(Guilds)
  /\ \A v \in Versions :
       /\ IsList(Configs[v].managed) /\ \A k \in DOMAIN Configs[v].managed : IsRef(Configs[v].managed[k])
       /\ IsList(Mappings(v)) /\ \A k \in DOMAIN Mappings(v) : IsMapping(Mappings(v)[k])
  /\ 1 \in DOMAIN Guilds /\ \A g \in DOMAIN Guilds : 0 \notin DOMAIN Guilds[g]
  /\ \A id \in Others : id \in Int /\ id < 0
  /\ MaxActions \in Nat /\ MaxReactions \in Nat /\ MaxFaults \in Nat

\* Those of a list at the given places, in their order.
InOrder(s, places) ==
  LET upTo[k \in 0..Len(s)] ==
        IF k = 0 THEN <<>>
        ELSE IF k \in places THEN Append(upTo[k - 1], s[k]) ELSE upTo[k - 1]
  IN  upTo[Len(s)]

(* RefTable::push: a name seen before keeps its place.                     *)
FirstUses(refs) ==
  {k \in DOMAIN refs : ~refs[k].direct /\ \A j \in 1..(k - 1) : refs[j].direct \/ refs[j].is # refs[k].is}

Table(refs) ==
  LET first == InOrder(refs, FirstUses(refs)) IN [i \in DOMAIN first |-> first[i].is]

\* The registry as Bot::new leaves it: no name has an id yet.
Install(v) == [roles |-> Table(RoleRefs(v)), roleIds |-> <<>>,
               messages |-> Table(MessageRefs(v)), messageIds |-> <<>>]

\* The bot keeps the place of a name in the table, not the name.
Compile(names, ref) ==
  IF ref.direct THEN ref ELSE [direct |-> FALSE, is |-> CHOOSE i \in DOMAIN names : names[i] = ref.is]

BotOf(v) ==
  LET names == Install(v)
      compiled(m) == [m EXCEPT !.message = Compile(names.messages, @), !.role = Compile(names.roles, @)]
  IN  [managed  |-> [k \in DOMAIN Configs[v].managed |-> Compile(names.messages, Configs[v].managed[k])],
       mappings |-> [k \in DOMAIN Mappings(v) |-> compiled(Mappings(v)[k])]]

Normalize(reg, rs, ms) ==
  [roles    |-> reg.roles,    roleIds    |-> [i \in DOMAIN reg.roles |-> rs[reg.roles[i]]],
   messages |-> reg.messages, messageIds |-> [i \in DOMAIN reg.messages |-> ms[reg.messages[i]]]]

\* Ref::resolve, 0 for None.
Resolve(ids, ref) ==
  IF ref.direct THEN ref.is ELSE IF ref.is \in DOMAIN ids THEN ids[ref.is] ELSE 0

\* Host::eq on two message references.
SameMessage(reg, a, b) ==
  LET x == Resolve(reg.messageIds, a)
      y == Resolve(reg.messageIds, b)
  IN  IF x = 0 /\ y = 0 THEN a = b ELSE x = y

-----------------------------------------------------------------------------
Fault == faults < MaxFaults /\ faults' = faults + 1

SaveState(rs, ms) ==
  \/ disk' = [roles |-> rs, managed |-> ms] /\ UNCHANGED faults
  \/ Fault /\ UNCHANGED disk

\* What a reference of config.json means by the entries of the state.
RoleOf(ref)    == IF ref.direct THEN ref.is ELSE roles[ref.is]
MessageOf(ref) == IF ref.direct THEN ref.is ELSE managed[ref.is]

StaysCalm(p) == calm' = [u \in Users |-> calm[u] /\ p]

GuildCreated(g) == [kind |-> "guild", guild |-> g]
SessionResumed  == [kind |-> "resumed"]
Reaction(u, m, e, a) == [kind |-> "reaction", user |-> u, message |-> m, emoji |-> e, added |-> a]
NothingDone == [message |-> 0, emoji |-> "", added |-> FALSE]

Init ==
  /\ pc = "down" /\ file = 1 /\ bot = 1 /\ registry = Install(1)
  /\ known = {} /\ seen = {}
  /\ roles = [n \in RoleNames |-> 0] /\ managed = [n \in MessageNames |-> 0]
  /\ disk = [roles |-> roles, managed |-> managed]
  /\ queue = <<>> /\ inbox = <<>> /\ guild = 1
  /\ posts = 0 /\ reactions = {} /\ held = {} /\ strays = {}
  /\ made = 0 /\ faults = 0
  /\ last = [u \in Users |-> NothingDone] /\ calm = [u \in Users |-> FALSE]

-----------------------------------------------------------------------------
\* run: config.json and state.tsv are read, the bot and its registry made.
Start ==
  /\ pc = "down" /\ file \in Good
  /\ bot' = file /\ registry' = Install(file)
  /\ roles' = disk.roles /\ managed' = disk.managed
  /\ known' = {} /\ seen' = {}
  /\ pc' = "connect"
  /\ StaysCalm(file = bot /\ disk = [roles |-> roles, managed |-> managed])
  /\ UNCHANGED <<file, disk, queue, inbox, guild, worldVars, userVars, faults>>

(* A session that is resumed replays what was not handled and ends with    *)
(* RESUMED; a new one begins with GUILD_CREATE, what happened before it is *)
(* lost and the tracker is empty.                                          *)
OpenSession(resumed) ==
  /\ pc = "retry" \/ (pc = "connect" /\ ~resumed)
  /\ IF resumed THEN inbox' = Append(inbox, SessionResumed) /\ UNCHANGED trackVars
                ELSE inbox' = <<GuildCreated(guild)>> /\ known' = {} /\ seen' = {}
  /\ pc' = "poll"
  /\ UNCHANGED <<file, botVars, stateVars, queue, guild, worldVars, userVars, faults, calm>>

-----------------------------------------------------------------------------
\* ChannelRoleTracker::load_guild: a role that is known is not entered again.
LoadGuild(g) ==
  known \cup {[id |-> i, name |-> Guilds[g][i]] :
               i \in {j \in DOMAIN Guilds[g] : \A r \in known : r.id # j}}

\* Mutant of FromTracker: a name of several roles is taken for the first of them.
FromTrackerFirst(tracked, n) ==
  IF \E r \in tracked : r.name = n THEN (CHOOSE r \in tracked : r.name = n).id ELSE 0

\* The role of that name, 0 if there is none or more than one.
FromTracker(tracked, n) ==
  LET bearers == {r.id : r \in {s \in tracked : s.name = n}}
  IN  IF \E i \in bearers : bearers = {i} THEN CHOOSE i \in bearers : TRUE ELSE 0

Post(m)    == [kind |-> "post", message |-> m]
Seed(m, e) == [kind |-> "seed", message |-> m, emoji |-> e]
RoleAction(kind, u, r) == [kind |-> kind, user |-> u, role |-> r]

\* kippe on Started: post what is not posted, then seed the reactions.
OnStarted(v, reg) ==
  LET b     == BotOf(v)
      fresh == InOrder(b.managed, {k \in DOMAIN b.managed :
                 b.managed[k].direct \/ managed[reg.messages[b.managed[k].is]] = 0})
      seeds == InOrder(b.mappings, {k \in DOMAIN b.mappings :
                 /\ b.mappings[k].seed
                 /\ \E m \in Range(b.managed) : SameMessage(reg, m, b.mappings[k].message)})
  IN  [k \in DOMAIN fresh |-> Post(fresh[k])] \o
      [k \in DOMAIN seeds |-> Seed(seeds[k].message, seeds[k].emoji)]

Matches(reg, m, e) == SameMessage(reg, m.message, Direct(e.message)) /\ m.emoji = e.emoji

\* Mutant of OnReaction: only the mappings that match do anything.
OnReactionLocal(e) ==
  IF e.user = Bot THEN <<>>
  ELSE LET hit == SelectSeq(BotOf(bot).mappings, LAMBDA m : Matches(registry, m, e))
       IN  [k \in DOMAIN hit |-> RoleAction(IF e.added THEN "add" ELSE "remove", e.user, hit[k].role)]

(* kippe on a reaction: every mapping gives its role or takes it away.     *)
OnReaction(e) ==
  IF e.user = Bot THEN <<>>
  ELSE LET ms == BotOf(bot).mappings
       IN  [k \in DOMAIN ms |->
             RoleAction(IF Matches(registry, ms[k], e) /\ e.added THEN "add" ELSE "remove",
                        e.user, ms[k].role)]

Capped(actions) == Len(actions) > MaxActions
Enqueue(actions) ==
  /\ queue' = SubSeq(actions, 1, IF Capped(actions) THEN MaxActions ELSE Len(actions))
  /\ pc' = IF queue' = <<>> THEN "poll" ELSE "execute"

(* Started, in run_session: names that are not in the state are looked up  *)
(* in the tracker, the registry gets its ids, and the bot handles it.      *)
Started(v, reg) ==
  LET found == [n \in RoleNames |->
                 IF roles[n] = 0 /\ n \in Range(reg.roles) THEN FromTracker(known', n) ELSE roles[n]]
  IN  /\ roles' = found
      /\ registry' = Normalize(reg, found, managed)
      /\ IF found # roles THEN SaveState(found, managed) ELSE UNCHANGED <<disk, faults>>
      /\ Enqueue(OnStarted(v, registry'))
      /\ StaysCalm(found = roles /\ v = bot)
      /\ bot' = v
      /\ UNCHANGED <<managed, guild, worldVars, userVars>>

\* The edit of config.json is noticed: a new bot with a new registry.
Reload ==
  /\ pc = "poll" /\ file < Len(Configs) /\ file + 1 \in Good
  /\ file' = file + 1
  /\ UNCHANGED <<trackVars, inbox>>
  /\ Started(file', Install(file'))

\* Mutant of ReloadFails: the registry is taken over although there is no new bot.
ReloadFailsHalfway ==
  /\ pc = "poll" /\ file < Len(Configs) /\ file + 1 \in Rejected
  /\ file' = file + 1
  /\ registry' = Normalize(Install(file'), roles, managed)
  /\ UNCHANGED <<pc, bot, trackVars, stateVars, queue, inbox, guild, worldVars, userVars, faults, calm>>

\* No new bot can be made of it: bot and registry stay.
ReloadFails ==
  /\ pc = "poll" /\ file < Len(Configs) /\ file + 1 \in Rejected
  /\ file' = file + 1
  /\ UNCHANGED <<pc, botVars, trackVars, stateVars, queue, inbox, guild, worldVars, userVars, faults, calm>>

HandleGuild ==
  /\ pc = "poll" /\ inbox # <<>> /\ Head(inbox).kind = "guild"
  /\ inbox' = Tail(inbox)
  /\ known' = LoadGuild(Head(inbox).guild)
  /\ seen' = seen \cup {Head(inbox).guild}
  /\ Started(bot, registry)
  /\ UNCHANGED file

HandleResumed ==
  /\ pc = "poll" /\ inbox # <<>> /\ Head(inbox).kind = "resumed"
  /\ inbox' = Tail(inbox)
  /\ UNCHANGED trackVars
  /\ Started(bot, registry)
  /\ UNCHANGED file

\* u has done something the runner has still to handle.
Pending(u, events) == \E e \in Range(events) : e.kind = "reaction" /\ e.user = u

HandleReaction ==
  /\ pc = "poll" /\ inbox # <<>> /\ Head(inbox).kind = "reaction"
  /\ inbox' = Tail(inbox)
  /\ LET actions == OnReaction(Head(inbox))
     IN  /\ Enqueue(actions)
         /\ calm' = [u \in Users |-> IF u = Head(inbox).user
                                     THEN ~Pending(u, Tail(inbox)) /\ ~Capped(actions)
                                     ELSE calm[u]]
  /\ UNCHANGED <<file, botVars, trackVars, stateVars, guild, worldVars, userVars, faults>>

-----------------------------------------------------------------------------
This == Head(queue)
NextAction == queue' = Tail(queue) /\ pc' = IF Tail(queue) = <<>> THEN "poll" ELSE "execute"

\* The id an action needs, as the registry has it now; a message is posted under a name.
Target(a) == IF a.kind = "seed" THEN Resolve(registry.messageIds, a.message)
                                ELSE Resolve(registry.roleIds, a.role)
Resolved  == IF This.kind = "post" THEN ~This.message.direct ELSE Target(This) # 0
Name      == registry.messages[This.message.is]

SkipUnresolved ==
  /\ pc = "execute" /\ ~Resolved
  /\ NextAction
  /\ UNCHANGED <<file, botVars, trackVars, stateVars, inbox, guild, worldVars, userVars, faults, calm>>

(* The message is posted; unless the answer is lost its id is remembered,  *)
(* the registry normalized and the state saved.                            *)
PostMessage ==
  /\ pc = "execute" /\ This.kind = "post" /\ Resolved /\ managed[Name] = 0
  /\ posts' = posts + 1
  /\ \/ /\ managed' = [managed EXCEPT ![Name] = posts + 1]
        /\ registry' = Normalize(registry, roles, managed')
        /\ SaveState(roles, managed')
     \/ Fault /\ UNCHANGED <<managed, registry, disk>>
  /\ NextAction
  /\ UNCHANGED <<file, bot, trackVars, roles, inbox, guild, reactions, held, strays, userVars, calm>>

\* It was posted under this name meanwhile, and is edited.
EditMessage ==
  /\ pc = "execute" /\ This.kind = "post" /\ Resolved /\ managed[Name] # 0
  /\ registry' = Normalize(registry, roles, managed)
  /\ SaveState(roles, managed)
  /\ NextAction
  /\ UNCHANGED <<file, bot, trackVars, roles, managed, inbox, guild, worldVars, userVars, calm>>

\* Discord reports the reaction to the bot that made it, if it is a new one.
AddReaction ==
  /\ pc = "execute" /\ This.kind = "seed" /\ Resolved
  /\ LET r == <<Bot, Target(This), This.emoji>>
     IN  /\ reactions' = reactions \cup {r}
         /\ inbox' = IF r \in reactions THEN inbox
                     ELSE Append(inbox, Reaction(Bot, Target(This), This.emoji, TRUE))
  /\ NextAction
  /\ UNCHANGED <<file, botVars, trackVars, stateVars, guild, posts, held, strays, userVars, faults, calm>>

\* What Discord does with a request for a role; a role that is gone is nobody's.
CarryOut(a) ==
  held' = IF a.kind = "remove" THEN held \ {<<a.user, a.role>>}
          ELSE IF a.role \in DOMAIN Guilds[guild] THEN held \cup {<<a.user, a.role>>} ELSE held

Request == [This EXCEPT !.role = Target(This)]

(* A request for a role is carried out, whether or not the client learns   *)
(* of it: execute_actions goes on in either case.                          *)
ChangeRole ==
  /\ pc = "execute" /\ This.kind \in {"add", "remove"} /\ Resolved
  /\ CarryOut(Request)
  /\ NextAction
  /\ UNCHANGED <<file, botVars, trackVars, stateVars, inbox, guild, posts, reactions, strays,
                 userVars, faults, calm>>

(* It is given up after the last attempt, and may be carried out later.    *)
ChangeRoleFails ==
  /\ pc = "execute" /\ This.kind \in {"add", "remove"} /\ Resolved
  /\ Fault
  /\ strays' \in {strays, strays \cup {Request}}
  /\ calm' = [calm EXCEPT ![This.user] = FALSE]
  /\ NextAction
  /\ UNCHANGED <<file, botVars, trackVars, stateVars, inbox, guild, posts, reactions, held, userVars>>

\* The message is not posted or edited, or the reaction not made.
MessageRequestFails ==
  /\ pc = "execute" /\ This.kind \in {"post", "seed"} /\ Resolved /\ Fault
  /\ NextAction
  /\ UNCHANGED <<file, botVars, trackVars, stateVars, inbox, guild, worldVars, userVars, calm>>

StrayArrives(a) ==
  /\ CarryOut(a)
  /\ strays' = strays \ {a}
  /\ calm' = [calm EXCEPT ![a.user] = FALSE]
  /\ UNCHANGED <<pc, file, botVars, trackVars, stateVars, queue, inbox, guild, posts, reactions,
                 userVars, faults>>

-----------------------------------------------------------------------------
(* People react and withdraw reactions. Discord tells the session there is *)
(* or, if it can still be resumed, the next one.                           *)
React(u, m, e, added) ==
  /\ made < MaxReactions /\ made' = made + 1
  /\ m \in Others \/ m <= posts
  /\ added <=> <<u, m, e>> \notin reactions
  /\ reactions' = IF added THEN reactions \cup {<<u, m, e>>} ELSE reactions \ {<<u, m, e>>}
  /\ inbox' = Append(inbox, Reaction(u, m, e, added))
  /\ last' = [last EXCEPT ![u] = [message |-> m, emoji |-> e, added |-> added]]
  /\ calm' = [calm EXCEPT ![u] = FALSE]
  /\ UNCHANGED <<pc, file, botVars, trackVars, stateVars, queue, guild, posts, held, strays, faults>>

\* An admin creates, renames or deletes roles. (The id of a new role is in no configuration yet,
\* or what people did before does not count for it.)
ChangeGuild ==
  /\ guild < Len(Guilds)
  /\ guild' = guild + 1
  /\ held' = {h \in held : h[2] \in DOMAIN Guilds[guild']}
  /\ StaysCalm(\A m \in Range(Mappings(bot)) :
                 RoleOf(m.role) \in DOMAIN Guilds[guild'] => RoleOf(m.role) \in DOMAIN Guilds[guild])
  /\ UNCHANGED <<pc, file, botVars, trackVars, stateVars, queue, inbox, posts, reactions, strays,
                 userVars, faults>>

\* The guild comes back after an outage, in the same session.
GuildReturns ==
  /\ pc \in {"poll", "execute"} /\ Fault
  /\ inbox' = Append(inbox, GuildCreated(guild))
  /\ UNCHANGED <<pc, file, botVars, trackVars, stateVars, queue, guild, worldVars, userVars, calm>>

LoseSession ==
  /\ pc = "poll" /\ Fault
  /\ pc' = "retry"
  /\ UNCHANGED <<file, botVars, trackVars, stateVars, queue, inbox, guild, worldVars, userVars, calm>>

Crash ==
  /\ pc # "down" /\ Fault
  /\ pc' = "down" /\ queue' = <<>>
  /\ StaysCalm(pc # "execute")
  /\ UNCHANGED <<file, botVars, trackVars, stateVars, inbox, guild, worldVars, userVars>>

\* config.json is edited while nobody watches it.
EditConfig ==
  /\ pc = "down" /\ file < Len(Configs)
  /\ file' = file + 1
  /\ UNCHANGED <<pc, botVars, trackVars, stateVars, queue, inbox, guild, worldVars, userVars, faults, calm>>

\* The runner waits for the next event; a process that is down may stay down.
Idle == pc \in {"poll", "down"} /\ UNCHANGED vars

Next ==
  \/ Start \/ Reload \/ ReloadFails
  \/ \E resumed \in BOOLEAN : OpenSession(resumed)
  \/ HandleGuild \/ HandleResumed \/ HandleReaction
  \/ SkipUnresolved \/ PostMessage \/ EditMessage \/ AddReaction \/ ChangeRole
  \/ ChangeRoleFails \/ MessageRequestFails
  \/ \E a \in strays : StrayArrives(a)
  \/ \E u \in Users, m \in 1..posts \cup Others, e \in Emojis, added \in BOOLEAN : React(u, m, e, added)
  \/ ChangeGuild \/ GuildReturns \/ LoseSession \/ Crash \/ EditConfig
  \/ Idle

Spec == Init /\ [][Next]_vars

-----------------------------------------------------------------------------
Mapped == {RoleOf(m.role) : m \in Range(Mappings(bot))} \cap DOMAIN Guilds[guild]
RolesOf(u) == {h[2] : h \in {g \in held : g[1] = u}}

\* The roles of the mappings that the person's last act asks for.
Earned(u) ==
  {RoleOf(m.role) : m \in {n \in Range(Mappings(bot)) :
     /\ last[u].added /\ n.emoji = last[u].emoji
     /\ MessageOf(n.message) = last[u].message}}

(* The last thing a person did decides about all roles the configuration   *)
(* maps: whatever failed, was lost or came late before, once that act is   *)
(* handled without a failure the person holds what it asks for and nothing *)
(* else; and this outlasts resumes, new sessions, outages, restarts and    *)
(* rejected configurations, until something new happens to that person.    *)
(* The bot's own reactions come back to it and give it nothing.            *)
LastReactionDecidesAlways ==
  /\ pc = "poll" => \A u \in Users : calm[u] => RolesOf(u) \cap Mapped = Earned(u) \cap Mapped
  /\ RolesOf(Bot) = {}

OneMappingPerRole ==
  \A j, k \in DOMAIN Mappings(bot) :
    RoleOf(Mappings(bot)[j].role) = RoleOf(Mappings(bot)[k].role) =>
      j = k \/ RoleOf(Mappings(bot)[j].role) = 0

(* The same, while no role is mapped twice (kippe/src/main.rs:54-60).      *)
LastReactionDecides == OneMappingPerRole => LastReactionDecidesAlways

(* "Emoji -> role mappings on specific messages" (README.md:88): who has a *)
(* mapped reaction standing on a message holds its role.                   *)
StandingReactionsCount ==
  pc = "poll" => \A u \in Users, m \in Range(Mappings(bot)) :
    calm[u] /\ <<u, MessageOf(m.message), m.emoji>> \in reactions /\ RoleOf(m.role) \in Mapped =>
      RoleOf(m.role) \in RolesOf(u)

(* The bot's references mean what the names in its configuration mean: the *)
(* places it holds are places in the registry that was made with it, also  *)
(* after a configuration that was rejected, and the ids in the registry    *)
(* are those of the state, once the first Started has filled it in         *)
(* (refs.rs:116-131, runner.rs:249-264).                                   *)
RefsMeanNames ==
  pc \in {"poll", "execute"} /\ seen # {} =>
    \A k \in DOMAIN Mappings(bot) :
      LET ours == BotOf(bot).mappings[k] IN
      /\ Resolve(registry.roleIds, ours.role) = RoleOf(Mappings(bot)[k].role)
      /\ Resolve(registry.messageIds, ours.message) = MessageOf(Mappings(bot)[k].message)

Bearers(g, n) == {i \in DOMAIN Guilds[g] : Guilds[g][i] = n}

(* The roles the lists bring under a name, but for those they showed under *)
(* another name before: what a later list renames is not brought again.    *)
BroughtAs(n, lists) ==
  UNION {{i \in Bearers(g, n) :
            \A e \in lists : e < g /\ i \in DOMAIN Guilds[e] => i \in Bearers(e, n)} : g \in lists}

(* A name is only taken for the one role that this session's lists brought *)
(* under it, however many lists there were and whatever was made, deleted  *)
(* or renamed between them (a role that is gone still makes its name       *)
(* ambiguous); what the state says is not overwritten (runner.rs:303-332). *)
NobodyElseBroughtIt ==
  [][pc = "poll" =>
       \A n \in RoleNames :
         IF roles[n] = 0
         THEN roles'[n] # 0 => BroughtAs(n, seen') = {roles'[n]}
         ELSE roles'[n] = roles[n]]_vars

(* "stable name matches multiple roles; add it to state.tsv to             *)
(* disambiguate" (runner.rs:324): a name that several roles bear, in any   *)
(* list of the session, is not taken. A role that is renamed refutes it    *)
(* (RoleRenamed.cfg).                                                      *)
NobodyElseBearsIt ==
  [][pc = "poll" =>
       \A n \in RoleNames :
         roles[n] = 0 /\ roles'[n] # 0 => \A g \in seen' : Bearers(g, n) \subseteq {roles'[n]}]_vars
=============================================================================
