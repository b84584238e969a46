------------------------ MODULE ReactionRolesProofs -------------------------
(***************************************************************************)
(* What ReactionRoles promises for any people, configurations, roles and   *)
(* faults: references keep their meaning, the last reaction that was       *)
(* handled decides, and a name is only taken for the one role that has it. *)
(***************************************************************************)
EXTENDS ReactionRoles, SequenceTheorems, WellFoundedInduction, TLAPS

Normalized(v) == Normalize(Install(v), roles, managed)

\* The registry is the one made with the bot, and up to date as soon as a session has begun and
\* while actions are executed.
RegistryInv ==
  /\ bot \in Versions /\ file \in Versions
  /\ DOMAIN managed = MessageNames /\ DOMAIN disk.managed = MessageNames
  /\ registry \in {Install(bot), Normalized(bot)}
  /\ seen # {} \/ pc = "execute" => registry = Normalized(bot)

\* Of what has still to be handled, a person's last act is the last one it did; until then nobody
\* is calm.
Later(q, u, n) == \E k \in (n + 1)..Len(q) : q[k].kind = "reaction" /\ q[k].user = u
Did(l, u) == Reaction(u, l[u].message, l[u].emoji, l[u].added)
Follows(q, l, c) ==
  /\ IsList(q)
  /\ \A n \in 1..Len(q) : q[n].kind = "reaction" =>
       \/ q[n].user = Bot
       \/ /\ q[n].user \in Users /\ ~c[q[n].user]
          /\ Later(q, q[n].user, n) \/ q[n] = Did(l, q[n].user)

\* A session begins with its guild.
InboxInv ==
  /\ Follows(inbox, last, calm)
  /\ pc \in {"poll", "execute", "retry"} /\ seen = {} => inbox # <<>> /\ inbox[1].kind = "guild"

\* People react to what is there.
UsersInv ==
  /\ posts \in Nat /\ DOMAIN last = Users /\ calm \in [Users -> BOOLEAN]
  /\ \A u \in Users : last[u].added =>
       last[u].message \in Int /\ last[u].message <= posts /\ last[u].message # 0

\* What is queued: managed messages to post, reactions, and roles of people.
IsPost(a, v) == \E k \in DOMAIN Configs[v].managed : a = Post(BotOf(v).managed[k])
IsRole(a) ==
  a = RoleAction(a.kind, a.user, a.role) /\ a.kind \in {"add", "remove"} /\ a.user \in Users
Queues(q, v) == IsList(q) /\ \A n \in 1..Len(q) : IsPost(q[n], v) \/ q[n].kind = "seed" \/ IsRole(q[n])

QueueInv ==
  /\ pc \in {"down", "connect", "retry", "poll", "execute"}
  /\ queue = <<>> <=> pc # "execute"
  /\ Queues(queue, bot)

\* The bot has no part in it.
BotInv ==
  /\ guild \in DOMAIN Guilds
  /\ \A a \in strays : a.user \in Users
  /\ \A h \in held : h = <<h[1], h[2]>> /\ h[1] # Bot

\* What a mapping gives a person who did last what it did, and what is queued for it.
RoleBy(k) == RoleOf(Mappings(bot)[k].role)
WantedBy(u, k) ==
  LET m == Mappings(bot)[k]
  IN  last[u].added /\ m.emoji = last[u].emoji /\ MessageOf(m.message) = last[u].message
QueuedFor(a, u) == a.kind \in {"add", "remove"} /\ a.user = u
IsFor(a, v, k) == a.role = BotOf(v).mappings[k].role

Decided(u) ==
  /\ \A n \in 1..Len(queue) : QueuedFor(queue[n], u) =>
       \E k \in DOMAIN Mappings(bot) :
         IsFor(queue[n], bot, k) /\ (queue[n].kind = "add" <=> WantedBy(u, k))
  /\ \A k \in DOMAIN Mappings(bot) : RoleBy(k) \in DOMAIN Guilds[guild] =>
       \/ \E n \in 1..Len(queue) : QueuedFor(queue[n], u) /\ IsFor(queue[n], bot, k)
       \/ <<u, RoleBy(k)>> \in held <=> WantedBy(u, k)

DecidedInv == OneMappingPerRole => \A u \in Users : calm[u] => Decided(u)

IInv == RegistryInv /\ InboxInv /\ UsersInv /\ QueueInv /\ BotInv /\ DecidedInv

-----------------------------------------------------------------------------
(* Lists.                                                                  *)
LEMMA ListIsSeq ==
  ASSUME NEW s, IsList(s)
  PROVE  s \in Seq(Range(s)) /\ DOMAIN s = 1..Len(s) /\ Len(s) \in Nat
<1>1. Len(s) \in Nat /\ s = [k \in 1..Len(s) |-> s[k]]
  BY DEF IsList
<1>2. PICK n : n = Len(s)
  OBVIOUS
<1>3. DOMAIN s = 1..n /\ s \in [1..n -> Range(s)]
  BY <1>1, <1>2 DEF Range
<1>4. s \in Seq(Range(s))
  BY <1>1, <1>2, <1>3, SeqDef
<1> QED  BY <1>1, <1>2, <1>3, <1>4

LEMMA SeqIsList ==
  ASSUME NEW S, NEW s \in Seq(S)
  PROVE  IsList(s)
<1>1. Len(s) \in Nat /\ s \in [1..Len(s) -> S]
  BY LenProperties
<1> QED  BY <1>1 DEF IsList

LEMMA AppendList ==
  ASSUME NEW s, IsList(s), NEW e
  PROVE  /\ IsList(Append(s, e)) /\ Len(Append(s, e)) = Len(s) + 1 /\ Len(s) \in Nat
         /\ \A i \in 1..Len(s) : Append(s, e)[i] = s[i]
         /\ Append(s, e)[Len(s) + 1] = e
<1> DEFINE S == Range(s) \cup {e}
<1>1. s \in Seq(S) /\ e \in S /\ Len(s) \in Nat
  BY ListIsSeq, SeqMonotonic
<1> HIDE DEF S
<1>2. /\ Append(s, e) \in Seq(S) /\ Len(Append(s, e)) = Len(s) + 1
      /\ \A i \in 1..Len(s) : Append(s, e)[i] = s[i]
      /\ Append(s, e)[Len(s) + 1] = e
  BY <1>1, AppendProperties
<1> QED  BY <1>1, <1>2, SeqIsList

LEMMA TailList ==
  ASSUME NEW s, IsList(s), s # <<>>
  PROVE  /\ IsList(Tail(s)) /\ Len(s) \in Nat \ {0} /\ Len(Tail(s)) = Len(s) - 1
         /\ Head(s) = s[1]
         /\ \A i \in 1..Len(Tail(s)) : Tail(s)[i] = s[i + 1]
<1>1. s \in Seq(Range(s))
  BY ListIsSeq
<1>2. /\ Tail(s) \in Seq(Range(s)) /\ Len(Tail(s)) = Len(s) - 1 /\ Len(s) \in Nat \ {0}
      /\ \A i \in 1..Len(Tail(s)) : Tail(s)[i] = s[i + 1]
  BY <1>1, HeadTailProperties, EmptySeq
<1>3. Head(s) = s[1]
  BY <1>1
<1> QED  BY <1>2, <1>3, SeqIsList

\* A list that is made entry by entry.
LEMMA MadeList ==
  ASSUME NEW n \in Nat, NEW s, DOMAIN s = 1..n, s = [k \in 1..n |-> s[k]]
  PROVE  IsList(s) /\ Len(s) = n
<1>1. s \in [1..n -> Range(s)]
  BY DEF Range
<1>2. s \in Seq(Range(s))
  BY <1>1, SeqDef
<1>3. Len(s) = n
  BY <1>1, <1>2
<1> QED  BY <1>2, <1>3, SeqIsList

(* Induction on the naturals, for sets: the smallest element there is.     *)
LEMMA SmallestOf ==
  ASSUME NEW T \in SUBSET Nat, T # {}
  PROVE  \E x \in T : \A y \in T : x <= y
<1> DEFINE R == {ss \in Nat \X Nat : ss[1] < ss[2]}
<1>1. IsWellFoundedOn(R, Nat)
  BY NatLessThanWellFounded, Zenon DEF OpToRel
<1>2. \A x, y \in Nat : <<y, x>> \in R <=> y < x
  OBVIOUS
<1> HIDE DEF R
<1>3. PICK x \in T : \A y \in T : <<y, x>> \notin R
  BY <1>1, WFMin, Zenon
<1>4. \A y \in T : ~(y < x)
  BY <1>2, <1>3
<1> QED  BY <1>4

LEMMA InductionOf ==
  ASSUME NEW S, 0 \in S, \A n \in Nat : n \in S => n + 1 \in S
  PROVE  Nat \subseteq S
<1> SUFFICES ASSUME NEW k \in Nat, k \notin S
             PROVE  FALSE
  OBVIOUS
<1> DEFINE T == {n \in Nat : n \notin S}
<1>1. PICK x \in T : \A y \in T : x <= y
  BY SmallestOf
<1>2. x # 0 /\ x - 1 \in Nat /\ x - 1 \in S
  BY <1>1
<1> QED  BY <1>2

\* One entry more, if it is at one of the places.
Extended(f, k, s, places) == IF k \in places THEN Append(f, s[k]) ELSE f

LEMMA PrefixesExist ==
  ASSUME NEW s, NEW places, NEW m \in Nat
  PROVE  \E f : f = [k \in 0..m |-> IF k = 0 THEN <<>> ELSE Extended(f[k - 1], k, s, places)]
<1> DEFINE P(n) == \E f : f = [k \in 0..n |-> IF k = 0 THEN <<>> ELSE Extended(f[k - 1], k, s, places)]
           S == {n \in Nat : P(n)}
<1>1. 0 \in S
  <2>1. [k \in 0..0 |-> <<>>] =
          [k \in 0..0 |-> IF k = 0 THEN <<>> ELSE Extended([j \in 0..0 |-> <<>>][k - 1], k, s, places)]
    OBVIOUS
  <2> QED  BY <2>1
<1>2. ASSUME NEW n \in Nat, P(n)
      PROVE  P(n + 1)
  <2>1. PICK f : f = [k \in 0..n |-> IF k = 0 THEN <<>> ELSE Extended(f[k - 1], k, s, places)]
    BY <1>2
  <2> DEFINE g == [k \in 0..(n + 1) |-> IF k = n + 1 THEN Extended(f[n], n + 1, s, places) ELSE f[k]]
  <2>2. \A k \in 0..(n + 1) : g[k] = IF k = 0 THEN <<>> ELSE Extended(g[k - 1], k, s, places)
    BY <2>1
  <2>3. g = [k \in 0..(n + 1) |-> IF k = 0 THEN <<>> ELSE Extended(g[k - 1], k, s, places)]
    BY <2>2
  <2> QED  BY <2>3
<1> HIDE DEF P
<1>3. Nat \subseteq S
  <2>1. \A n \in Nat : n \in S => n + 1 \in S
    BY <1>2
  <2> QED  BY <1>1, <2>1, InductionOf
<1> USE DEF P
<1> QED  BY <1>3

\* What a selection of a list holds: the entries at these places.
Selects(q, s, places, n) ==
  /\ IsList(q)
  /\ \A i \in 1..Len(q) : \E k \in places : k \in 1..n /\ q[i] = s[k]
  /\ \A k \in places : k \in 1..n => \E i \in 1..Len(q) : q[i] = s[k]

LEMMA InOrderHas ==
  ASSUME NEW s, IsList(s), NEW places
  PROVE  Selects(InOrder(s, places), s, places, Len(s))
<1> DEFINE N == Len(s)
           B(f, k) == IF k = 0 THEN <<>> ELSE Extended(f[k - 1], k, s, places)
           upTo == CHOOSE f : f = [k \in 0..N |-> B(f, k)]
<1>1. N \in Nat /\ DOMAIN s = 1..N
  BY ListIsSeq
<1>2. InOrder(s, places) = upTo[N]
  BY DEF InOrder, Extended
<1>3. upTo = [k \in 0..N |-> B(upTo, k)]
  BY <1>1, PrefixesExist
<1> HIDE DEF upTo
<1>4. upTo[0] = <<>> /\ \A k \in 1..N : upTo[k] = Extended(upTo[k - 1], k, s, places)
  BY <1>1, <1>3
<1> DEFINE P(k) == Selects(upTo[k], s, places, k)
           S == {k \in Nat : k <= N => P(k)}
<1>5. 0 \in S
  <2>1. IsList(<<>>) /\ Len(<<>>) = 0 /\ 1..0 = {}
    <3>1. <<>> \in Seq({}) /\ Len(<<>>) = 0
      BY EmptySeq
    <3>2. 1..0 = {}
      OBVIOUS
    <3>3. IsList(<<>>)
      BY <3>1, SeqIsList
    <3> QED  BY <3>1, <3>2, <3>3
  <2>2. P(0)
    BY <1>4, <2>1 DEF Selects
  <2> QED  BY <2>2
<1>6. ASSUME NEW k \in Nat, k \in S
      PROVE  k + 1 \in S
  <2> SUFFICES ASSUME k + 1 <= N
               PROVE  P(k + 1)
    OBVIOUS
  <2> HIDE DEF N
  <2>1. P(k) /\ upTo[k + 1] = Extended(upTo[k], k + 1, s, places)
    BY <1>1, <1>4, <1>6
  <2>2. \A j : j \in 1..(k + 1) <=> j \in 1..k \/ j = k + 1
    OBVIOUS
  <2>3. CASE k + 1 \in places
    <3> DEFINE q == upTo[k]
               r == Append(q, s[k + 1])
    <3>1. upTo[k + 1] = r
      BY <2>1, <2>3 DEF Extended
    <3>2. Selects(q, s, places, k)
      BY <2>1
    <3> HIDE DEF q, P
    <3>3. /\ IsList(r) /\ Len(r) = Len(q) + 1 /\ Len(q) \in Nat
          /\ \A i \in 1..Len(q) : r[i] = q[i]
          /\ r[Len(q) + 1] = s[k + 1]
      BY <3>2, AppendList DEF Selects
    <3> HIDE DEF r
    <3>4. \A i : i \in 1..Len(r) <=> i \in 1..Len(q) \/ i = Len(q) + 1
      BY <3>3
    <3>8. /\ \A i \in 1..Len(q) : \E j \in places : j \in 1..k /\ q[i] = s[j]
          /\ \A j \in places : j \in 1..k => \E i \in 1..Len(q) : q[i] = s[j]
      BY <3>2 DEF Selects
    <3>5. ASSUME NEW i \in 1..Len(r)
          PROVE  \E j \in places : j \in 1..(k + 1) /\ r[i] = s[j]
      <4>1. CASE i \in 1..Len(q)
        <5>1. PICK j \in places : j \in 1..k /\ q[i] = s[j]
          BY <3>8, <4>1
        <5> QED  BY <2>2, <3>3, <4>1, <5>1
      <4>2. CASE i = Len(q) + 1
        BY <2>2, <2>3, <3>3, <4>2
      <4> QED  BY <3>4, <4>1, <4>2
    <3>6. ASSUME NEW j \in places, j \in 1..(k + 1)
          PROVE  \E i \in 1..Len(r) : r[i] = s[j]
      <4>1. CASE j \in 1..k
        <5>1. PICK i \in 1..Len(q) : q[i] = s[j]
          BY <3>8, <4>1
        <5> QED  BY <3>3, <3>4, <5>1
      <4>2. CASE j = k + 1
        BY <3>3, <3>4, <4>2
      <4> QED  BY <2>2, <3>6, <4>1, <4>2
    <3>7. Selects(r, s, places, k + 1)
      BY <3>3, <3>5, <3>6 DEF Selects
    <3> QED  BY <3>1, <3>7 DEF P
  <2>4. CASE k + 1 \notin places
    <3>1. upTo[k + 1] = upTo[k]
      BY <2>1, <2>4 DEF Extended
    <3> DEFINE q == upTo[k]
    <3>2. Selects(q, s, places, k)
      BY <2>1
    <3> HIDE DEF q, P
    <3>3. \A j \in places : j \in 1..(k + 1) <=> j \in 1..k
      BY <2>2, <2>4
    <3>4. Selects(q, s, places, k + 1)
      BY <3>2, <3>3 DEF Selects
    <3> QED  BY <3>1, <3>4 DEF P, q
  <2> QED  BY <2>3, <2>4
<1>7. N \in S
  BY <1>1, <1>5, <1>6, InductionOf
<1> QED  BY <1>1, <1>2, <1>7

-----------------------------------------------------------------------------
(* The registry.                                                           *)

\* A list of references as config.json may have it.
AreRefs(refs) == IsList(refs) /\ \A k \in 1..Len(refs) : IsRef(refs[k])

\* Every name that is used has a place in the table.
LEMMA TableHas ==
  ASSUME NEW refs, AreRefs(refs), NEW k \in 1..Len(refs), ~refs[k].direct
  PROVE  \E i \in DOMAIN Table(refs) : Table(refs)[i] = refs[k].is
<1> DEFINE T == {j \in 1..Len(refs) : ~refs[j].direct /\ refs[j].is = refs[k].is}
           first == InOrder(refs, FirstUses(refs))
<1>1. Len(refs) \in Nat /\ DOMAIN refs = 1..Len(refs)
  BY ListIsSeq DEF AreRefs
<1>2. T \in SUBSET Nat /\ T # {}
  BY <1>1
<1>3. PICK j \in T : \A l \in T : j <= l
  BY <1>2, SmallestOf
<1>4. j \in FirstUses(refs)
  <2>1. \A l \in 1..(j - 1) : l \in 1..Len(refs) /\ l < j
    BY <1>1
  <2>2. \A l \in 1..(j - 1) : l \notin T
    BY <1>1, <1>3, <2>1
  <2>3. \A l \in 1..(j - 1) : refs[l].direct \/ refs[l].is # refs[j].is
    BY <2>1, <2>2
  <2> QED  BY <1>1, <2>3 DEF FirstUses
<1>5. Selects(first, refs, FirstUses(refs), Len(refs))
  BY InOrderHas DEF AreRefs
<1> HIDE DEF first
<1>6. PICK i \in 1..Len(first) : first[i] = refs[j]
  BY <1>4, <1>5 DEF Selects
<1>7. DOMAIN first = 1..Len(first)
  BY <1>5, ListIsSeq DEF Selects
<1> QED  BY <1>6, <1>7 DEF Table, first

\* A reference is resolved to what its name, or its id, stands for.
LEMMA CompiledMeans ==
  ASSUME NEW refs, AreRefs(refs), NEW k \in 1..Len(refs), NEW f
  PROVE  LET names == Table(refs)
             ids   == [i \in DOMAIN names |-> f[names[i]]]
         IN  /\ Resolve(ids, Compile(names, refs[k])) = IF refs[k].direct THEN refs[k].is ELSE f[refs[k].is]
             /\ ~refs[k].direct => /\ Compile(names, refs[k]).is \in DOMAIN names
                                   /\ names[Compile(names, refs[k]).is] = refs[k].is
<1> DEFINE names == Table(refs)
           ids   == [i \in DOMAIN names |-> f[names[i]]]
<1>1. IsRef(refs[k])
  BY DEF AreRefs
<1>2. CASE refs[k].direct
  BY <1>2 DEF Compile, Resolve
<1>3. CASE ~refs[k].direct
  <2> DEFINE c == CHOOSE i \in DOMAIN names : names[i] = refs[k].is
  <2>1. c \in DOMAIN names /\ names[c] = refs[k].is
    BY <1>3, TableHas
  <2>2. Compile(names, refs[k]) = [direct |-> FALSE, is |-> c]
    BY <1>3 DEF Compile
  <2> HIDE DEF c, names
  <2>3. c \in DOMAIN ids /\ ids[c] = f[refs[k].is]
    BY <2>1
  <2> HIDE DEF ids
  <2>4. Resolve(ids, Compile(names, refs[k])) = ids[c]
    BY <2>2, <2>3 DEF Resolve
  <2>5. Compile(names, refs[k]).is = c
    BY <2>2
  <2> QED  BY <1>3, <2>1, <2>3, <2>4, <2>5 DEF names, ids
<1> QED  BY <1>2, <1>3

\* The lists of a configuration.
LEMMA ConfigHas ==
  ASSUME NEW v \in Versions
  PROVE  /\ IsList(Configs[v].managed) /\ DOMAIN Configs[v].managed = 1..Len(Configs[v].managed)
         /\ Len(Configs[v].managed) \in Nat
         /\ IsList(Mappings(v)) /\ DOMAIN Mappings(v) = 1..Len(Mappings(v)) /\ Len(Mappings(v)) \in Nat
         /\ AreRefs(RoleRefs(v)) /\ Len(RoleRefs(v)) = Len(Mappings(v))
         /\ \A k \in DOMAIN Mappings(v) : IsMapping(Mappings(v)[k]) /\ RoleRefs(v)[k] = Mappings(v)[k].role
         /\ AreRefs(MessageRefs(v)) /\ Len(MessageRefs(v)) = Len(Configs[v].managed) + Len(Mappings(v))
         /\ \A k \in 1..Len(Configs[v].managed) : MessageRefs(v)[k] = Configs[v].managed[k]
         /\ \A k \in DOMAIN Mappings(v) :
              MessageRefs(v)[Len(Configs[v].managed) + k] = Mappings(v)[k].message
<1> DEFINE c == Configs[v].managed
           m == Mappings(v)
           n == [k \in DOMAIN m |-> m[k].message]
<1>1. /\ IsList(c) /\ IsList(m)
      /\ \A k \in DOMAIN c : IsRef(c[k])
      /\ \A k \in DOMAIN m : IsMapping(m[k])
  BY ReactionAssumption DEF ReactionAssumption
<1> HIDE DEF c, m
<1>2. DOMAIN c = 1..Len(c) /\ Len(c) \in Nat /\ DOMAIN m = 1..Len(m) /\ Len(m) \in Nat
  BY <1>1, ListIsSeq
<1>3. IsList(RoleRefs(v)) /\ Len(RoleRefs(v)) = Len(m)
      /\ \A k \in DOMAIN m : RoleRefs(v)[k] = m[k].role
  <2>1. RoleRefs(v) = [k \in 1..Len(m) |-> m[k].role]
    BY <1>2 DEF RoleRefs, m
  <2> QED  BY <1>2, <2>1, MadeList
<1>4. AreRefs(RoleRefs(v))
  BY <1>1, <1>2, <1>3 DEF AreRefs, IsMapping
<1>5. IsList(n) /\ Len(n) = Len(m) /\ \A k \in DOMAIN m : n[k] = m[k].message
  <2>1. n = [k \in 1..Len(m) |-> m[k].message]
    BY <1>2
  <2> QED  BY <1>2, <2>1, MadeList
<1>6. MessageRefs(v) = c \o n
  BY DEF MessageRefs, c, m
<1> HIDE DEF n
<1>7. /\ IsList(c \o n) /\ Len(c \o n) = Len(c) + Len(n)
      /\ \A i \in 1..(Len(c) + Len(n)) : (c \o n)[i] = IF i <= Len(c) THEN c[i] ELSE n[i - Len(c)]
  <2> DEFINE S == Range(c) \cup Range(n)
  <2>1. c \in Seq(S) /\ n \in Seq(S)
    BY <1>1, <1>5, ListIsSeq, SeqMonotonic
  <2> HIDE DEF S
  <2>2. c \o n \in Seq(S)
    BY <2>1, ConcatProperties
  <2> QED  BY <2>1, <2>2, ConcatProperties, SeqIsList
<1>8. \A k \in 1..Len(c) : (c \o n)[k] = c[k]
  BY <1>2, <1>5, <1>7
<1>9. \A k \in DOMAIN m : (c \o n)[Len(c) + k] = m[k].message
  <2> SUFFICES ASSUME NEW k \in DOMAIN m
               PROVE  (c \o n)[Len(c) + k] = n[k]
    BY <1>5
  <2>1. PICK i \in Nat : i = Len(c) + k
    BY <1>2
  <2>2. i \in 1..(Len(c) + Len(n)) /\ ~(i <= Len(c)) /\ i - Len(c) = k
    BY <1>2, <1>5, <2>1
  <2>3. (c \o n)[i] = n[i - Len(c)]
    BY <1>7, <2>2
  <2> QED  BY <2>1, <2>2, <2>3
<1>10. AreRefs(c \o n)
  <2> SUFFICES ASSUME NEW i \in 1..Len(c \o n)
               PROVE  IsRef((c \o n)[i])
    BY <1>7 DEF AreRefs
  <2>1. CASE i <= Len(c)
    BY <1>1, <1>2, <1>7, <1>8, <2>1
  <2>2. CASE ~(i <= Len(c))
    <3>1. i - Len(c) \in DOMAIN m /\ Len(c) + (i - Len(c)) = i
      BY <1>2, <1>5, <1>7, <2>2
    <3>2. (c \o n)[i] = m[i - Len(c)].message
      BY <1>9, <3>1
    <3> QED  BY <1>1, <3>1, <3>2 DEF IsMapping
  <2> QED  BY <2>1, <2>2
<1> QED  BY <1>1, <1>2, <1>3, <1>4, <1>5, <1>6, <1>7, <1>8, <1>9, <1>10 DEF c, m

\* The bot holds its configuration with the names replaced.
LEMMA BotHas ==
  ASSUME NEW v \in Versions
  PROVE  /\ DOMAIN BotOf(v).mappings = DOMAIN Mappings(v) /\ DOMAIN BotOf(v).managed = DOMAIN Configs[v].managed
         /\ \A k \in DOMAIN Mappings(v) :
              BotOf(v).mappings[k] = [message |-> Compile(Table(MessageRefs(v)), Mappings(v)[k].message),
                                      emoji   |-> Mappings(v)[k].emoji,
                                      role    |-> Compile(Table(RoleRefs(v)), Mappings(v)[k].role),
                                      seed    |-> Mappings(v)[k].seed]
         /\ \A k \in DOMAIN Configs[v].managed :
              BotOf(v).managed[k] = Compile(Table(MessageRefs(v)), Configs[v].managed[k])
<1>1. Install(v).roles = Table(RoleRefs(v)) /\ Install(v).messages = Table(MessageRefs(v))
  BY DEF Install
<1>2. \A m, c, e : IsMapping(m) =>
        [m EXCEPT !.message = c, !.role = e] = [message |-> c, emoji |-> m.emoji, role |-> e, seed |-> m.seed]
  <2> SUFFICES ASSUME NEW m, NEW c, NEW e, IsMapping(m)
               PROVE  [m EXCEPT !.message = c, !.role = e]
                        = [message |-> c, emoji |-> m.emoji, role |-> e, seed |-> m.seed]
    OBVIOUS
  <2>2. m = [message |-> m.message, emoji |-> m.emoji, role |-> m.role, seed |-> m.seed]
    BY DEF IsMapping
  <2> DEFINE m1 == [m EXCEPT !.message = c]
  <2>3. [m EXCEPT !.message = c, !.role = e] = [m1 EXCEPT !.role = e]
    BY <2>2
  <2>4. m1 = [message |-> c, emoji |-> m.emoji, role |-> m.role, seed |-> m.seed]
    BY <2>2
  <2> HIDE DEF m1
  <2>5. [m1 EXCEPT !.role = e] = [message |-> c, emoji |-> m.emoji, role |-> e, seed |-> m.seed]
    BY <2>4
  <2> QED  BY <2>3, <2>5
<1> DEFINE compiled(m) == [m EXCEPT !.message = Compile(Table(MessageRefs(v)), @),
                                    !.role = Compile(Table(RoleRefs(v)), @)]
<1>3. BotOf(v) = [managed |-> [k \in DOMAIN Configs[v].managed |->
                                 Compile(Table(MessageRefs(v)), Configs[v].managed[k])],
                  mappings |-> [k \in DOMAIN Mappings(v) |-> compiled(Mappings(v)[k])]]
  BY <1>1 DEF BotOf
<1> HIDE DEF compiled
<1>4. \A k \in DOMAIN Mappings(v) : IsMapping(Mappings(v)[k])
  BY ConfigHas
<1>5. ASSUME NEW k \in DOMAIN Mappings(v)
      PROVE  BotOf(v).mappings[k] = [message |-> Compile(Table(MessageRefs(v)), Mappings(v)[k].message),
                                     emoji   |-> Mappings(v)[k].emoji,
                                     role    |-> Compile(Table(RoleRefs(v)), Mappings(v)[k].role),
                                     seed    |-> Mappings(v)[k].seed]
  <2>1. BotOf(v).mappings[k] = compiled(Mappings(v)[k])
    BY <1>3
  <2>2. compiled(Mappings(v)[k]) =
          [Mappings(v)[k] EXCEPT !.message = Compile(Table(MessageRefs(v)), Mappings(v)[k].message),
                                 !.role = Compile(Table(RoleRefs(v)), Mappings(v)[k].role)]
    BY DEF compiled
  <2> QED  BY <1>2, <1>4, <2>1, <2>2
<1> QED  BY <1>3, <1>5

\* What Normalize makes of the registry of a version, whatever it held before.
LEMMA NormalizedIs ==
  ASSUME NEW v, NEW rs, NEW ms
  PROVE  LET n == Normalize(Install(v), rs, ms)
         IN  /\ n = [roles |-> Table(RoleRefs(v)),
                     roleIds |-> [i \in DOMAIN Table(RoleRefs(v)) |-> rs[Table(RoleRefs(v))[i]]],
                     messages |-> Table(MessageRefs(v)),
                     messageIds |-> [i \in DOMAIN Table(MessageRefs(v)) |-> ms[Table(MessageRefs(v))[i]]]]
             /\ \A r2, m2 : Normalize(n, r2, m2) = Normalize(Install(v), r2, m2)
<1> DEFINE R == Table(RoleRefs(v))
           M == Table(MessageRefs(v))
           Made(a, b) == [roles |-> R, roleIds |-> a, messages |-> M, messageIds |-> b]
           Ids(t, f) == [i \in DOMAIN t |-> f[t[i]]]
<1>1. Install(v) = Made(<<>>, <<>>)
  BY DEF Install
<1>2. \A a, b, f, g : Normalize(Made(a, b), f, g) = Made(Ids(R, f), Ids(M, g))
  <2> HIDE DEF R, M
  <2>1. \A a, b : Made(a, b).roles = R /\ Made(a, b).messages = M
    OBVIOUS
  <2> QED  BY <2>1 DEF Normalize
<1> HIDE DEF Made, Ids
<1>3. Normalize(Install(v), rs, ms) = Made(Ids(R, rs), Ids(M, ms))
  BY <1>1, <1>2
<1>4. \A r2, m2 : Normalize(Made(Ids(R, rs), Ids(M, ms)), r2, m2) = Normalize(Install(v), r2, m2)
  BY <1>1, <1>2
<1> USE DEF Made, Ids
<1> QED  BY <1>3, <1>4

\* In a session, references are resolved to what the names stand for in the state.
LEMMA RefsMean ==
  ASSUME RegistryInv, registry = Normalized(bot), NEW k \in DOMAIN Mappings(bot)
  PROVE  /\ Resolve(registry.roleIds, BotOf(bot).mappings[k].role) = RoleBy(k)
         /\ Resolve(registry.messageIds, BotOf(bot).mappings[k].message) = MessageOf(Mappings(bot)[k].message)
         /\ BotOf(bot).mappings[k].emoji = Mappings(bot)[k].emoji
<1>1. bot \in Versions
  BY DEF RegistryInv
<1> DEFINE R == RoleRefs(bot)
           M == MessageRefs(bot)
           n == Len(Configs[bot].managed)
<1>2. /\ k \in 1..Len(R) /\ AreRefs(R) /\ R[k] = Mappings(bot)[k].role
      /\ n + k \in 1..Len(M) /\ AreRefs(M) /\ M[n + k] = Mappings(bot)[k].message
  <2>1. /\ AreRefs(R) /\ R[k] = Mappings(bot)[k].role /\ Len(R) = Len(Mappings(bot))
        /\ AreRefs(M) /\ M[n + k] = Mappings(bot)[k].message /\ Len(M) = n + Len(Mappings(bot))
        /\ k \in 1..Len(Mappings(bot)) /\ Len(Mappings(bot)) \in Nat /\ n \in Nat
    BY <1>1, ConfigHas
  <2> HIDE DEF R, M, n
  <2> QED  BY <2>1
<1>3. /\ registry.roleIds = [i \in DOMAIN Table(R) |-> roles[Table(R)[i]]]
      /\ registry.messageIds = [i \in DOMAIN Table(M) |-> managed[Table(M)[i]]]
  BY NormalizedIs DEF Normalized
<1>4. /\ BotOf(bot).mappings[k].role = Compile(Table(R), R[k])
      /\ BotOf(bot).mappings[k].message = Compile(Table(M), M[n + k])
      /\ BotOf(bot).mappings[k].emoji = Mappings(bot)[k].emoji
  <2>1. BotOf(bot).mappings[k] = [message |-> Compile(Table(M), Mappings(bot)[k].message),
                                  emoji   |-> Mappings(bot)[k].emoji,
                                  role    |-> Compile(Table(R), Mappings(bot)[k].role),
                                  seed    |-> Mappings(bot)[k].seed]
    BY <1>1, BotHas
  <2> HIDE DEF R, M, n
  <2> QED  BY <1>2, <2>1
<1> HIDE DEF R, M, n
<1>5. Resolve(registry.roleIds, BotOf(bot).mappings[k].role) = IF R[k].direct THEN R[k].is ELSE roles[R[k].is]
  BY <1>2, <1>3, <1>4, CompiledMeans
<1>6. Resolve(registry.messageIds, BotOf(bot).mappings[k].message)
        = IF M[n + k].direct THEN M[n + k].is ELSE managed[M[n + k].is]
  BY <1>2, <1>3, <1>4, CompiledMeans
<1> QED  BY <1>2, <1>4, <1>5, <1>6 DEF RoleBy, RoleOf, MessageOf

\* Normalizing a registry again depends on the state only.
LEMMA NormalizeAgain ==
  ASSUME NEW v, NEW r1, NEW m1, NEW reg \in {Install(v), Normalize(Install(v), r1, m1)}, NEW rs, NEW ms
  PROVE  Normalize(reg, rs, ms) = Normalize(Install(v), rs, ms)
BY NormalizedIs

\* The names of a registry are those of its version.
LEMMA RegistryNames ==
  ASSUME NEW v, NEW r1, NEW m1, NEW reg \in {Install(v), Normalize(Install(v), r1, m1)}
  PROVE  reg.messages = Table(MessageRefs(v))
<1>1. Install(v).messages = Table(MessageRefs(v))
  BY DEF Install
<1>2. \A r, i, m, j : [roles |-> r, roleIds |-> i, messages |-> m, messageIds |-> j].messages = m
  OBVIOUS
<1>3. Normalize(Install(v), r1, m1).messages = Table(MessageRefs(v))
  BY <1>2, NormalizedIs
<1> QED  BY <1>1, <1>3

\* The names of messages are among those the state has an entry for.
LEMMA ManagedNames ==
  ASSUME NEW v \in Versions, NEW k \in DOMAIN Configs[v].managed, ~BotOf(v).managed[k].direct
  PROVE  Table(MessageRefs(v))[BotOf(v).managed[k].is] \in MessageNames
<1> DEFINE M == MessageRefs(v)
           n == Len(Configs[v].managed)
           m == Len(Mappings(v))
<1>1. /\ AreRefs(M) /\ Len(M) = n + m /\ n \in Nat /\ m \in Nat /\ k \in 1..n
      /\ M[k] = Configs[v].managed[k]
  BY ConfigHas
<1>2. BotOf(v).managed[k] = Compile(Table(M), M[k])
  BY <1>1, BotHas
<1> HIDE DEF M, n, m
<1>3. k \in 1..Len(M)
  BY <1>1
<1>4. ~M[k].direct
  BY <1>2 DEF Compile
<1>5. Table(M)[BotOf(v).managed[k].is] = M[k].is
  BY <1>1, <1>2, <1>3, <1>4, CompiledMeans
<1>6. k \in DOMAIN M
  BY <1>1, <1>3, ListIsSeq DEF AreRefs
<1>7. M[k].is \in NamesIn(M)
  BY <1>4, <1>6 DEF NamesIn
<1> QED  BY <1>5, <1>7 DEF MessageNames, M

LEMMA MessageNameOf ==
  ASSUME NEW v \in Versions, NEW k \in DOMAIN Mappings(v), ~Mappings(v)[k].message.direct
  PROVE  Mappings(v)[k].message.is \in MessageNames
<1> DEFINE M == MessageRefs(v)
           n == Len(Configs[v].managed)
           m == Len(Mappings(v))
<1>1. /\ AreRefs(M) /\ Len(M) = n + m /\ n \in Nat /\ m \in Nat /\ k \in 1..m
      /\ M[n + k] = Mappings(v)[k].message
  BY ConfigHas
<1> HIDE DEF M, n, m
<1>2. n + k \in DOMAIN M
  <2>1. DOMAIN M = 1..Len(M)
    BY <1>1, ListIsSeq DEF AreRefs
  <2> QED  BY <1>1, <2>1
<1>3. Mappings(v)[k].message.is \in NamesIn(M)
  BY <1>1, <1>2 DEF NamesIn
<1> QED  BY <1>3 DEF MessageNames, M

-----------------------------------------------------------------------------
(* What is still to be handled.                                            *)
LEMMA FollowsTail ==
  ASSUME NEW q, NEW l, NEW c, NEW d, Follows(q, l, c), q # <<>>,
         \A u \in Users : d[u] => c[u] \/ ~Pending(u, Tail(q))
  PROVE  Follows(Tail(q), l, d)
<1>1. /\ IsList(Tail(q)) /\ Len(q) \in Nat \ {0} /\ Len(Tail(q)) = Len(q) - 1
      /\ \A i \in 1..Len(Tail(q)) : Tail(q)[i] = q[i + 1]
  BY TailList DEF Follows
<1> DEFINE t == Tail(q)
<1>2. \A i \in 1..Len(t) : t[i] \in Range(t)
  BY <1>1, ListIsSeq DEF Range
<1> HIDE DEF t
<1>3. ASSUME NEW n \in 1..Len(t), t[n].kind = "reaction", t[n].user # Bot
      PROVE  /\ t[n].user \in Users /\ ~d[t[n].user]
             /\ Later(t, t[n].user, n) \/ t[n] = Did(l, t[n].user)
  <2>1. PICK m \in 1..Len(q) : m = n + 1
    BY <1>1 DEF t
  <2>2. t[n] = q[m]
    BY <1>1, <2>1 DEF t
  <2>3. /\ q[m].user \in Users /\ ~c[q[m].user]
        /\ Later(q, q[m].user, m) \/ q[m] = Did(l, q[m].user)
    BY <1>3, <2>2 DEF Follows
  <2>4. Pending(t[n].user, t)
    BY <1>2, <1>3 DEF Pending
  <2>5. ASSUME Later(q, q[m].user, m)
        PROVE  Later(t, t[n].user, n)
    <3>1. PICK k \in (m + 1)..Len(q) : q[k].kind = "reaction" /\ q[k].user = q[m].user
      BY <2>5 DEF Later
    <3>2. k - 1 \in (n + 1)..Len(t) /\ k - 1 \in 1..Len(t) /\ (k - 1) + 1 = k
      BY <1>1, <2>1 DEF t
    <3>3. t[k - 1] = q[k]
      BY <1>1, <3>2 DEF t
    <3> QED  BY <2>2, <3>1, <3>2, <3>3 DEF Later
  <2> QED  BY <2>2, <2>3, <2>4, <2>5 DEF t
<1> QED  BY <1>1, <1>3 DEF Follows, t

LEMMA FollowsLess ==
  ASSUME NEW q, NEW l, NEW c, NEW d, Follows(q, l, c), \A u \in Users : d[u] => c[u]
  PROVE  Follows(q, l, d)
BY DEF Follows

\* An event that is nobody's act.
LEMMA FollowsNews ==
  ASSUME NEW q, NEW l, NEW c, NEW e, Follows(q, l, c), e.kind # "reaction" \/ e.user = Bot
  PROVE  Follows(Append(q, e), l, c)
<1> DEFINE a == Append(q, e)
<1>1. /\ IsList(a) /\ Len(a) = Len(q) + 1 /\ Len(q) \in Nat
      /\ \A i \in 1..Len(q) : a[i] = q[i]
      /\ a[Len(q) + 1] = e
  BY AppendList DEF Follows
<1> HIDE DEF a
<1>2. ASSUME NEW n \in 1..Len(q), Later(q, q[n].user, n)
      PROVE  Later(a, a[n].user, n)
  <2>1. PICK k \in (n + 1)..Len(q) : q[k].kind = "reaction" /\ q[k].user = q[n].user
    BY <1>2 DEF Later
  <2>2. k \in 1..Len(q) /\ k \in (n + 1)..Len(a)
    BY <1>1
  <2> QED  BY <1>1, <2>1, <2>2 DEF Later
<1>3. \A n \in 1..Len(a) : n \in 1..Len(q) \/ n = Len(q) + 1
  BY <1>1
<1> QED  BY <1>1, <1>2, <1>3 DEF Follows, a

LEMMA FollowsOne ==
  ASSUME NEW g, NEW l, NEW c
  PROVE  Follows(<<GuildCreated(g)>>, l, c)
<1> DEFINE q == <<GuildCreated(g)>>
<1>1. q \in Seq({GuildCreated(g)}) /\ Len(q) = 1 /\ q[1] = GuildCreated(g)
  OBVIOUS
<1>2. IsList(q)
  BY <1>1, SeqIsList
<1>3. q[1].kind # "reaction"
  BY <1>1 DEF GuildCreated
<1> HIDE DEF q
<1>4. \A n \in 1..Len(q) : n = 1
  BY <1>1
<1> QED  BY <1>2, <1>3, <1>4 DEF Follows, q

\* What a person does now is its last act.
LEMMA FollowsAct ==
  ASSUME NEW q, NEW l, NEW c, Follows(q, l, c), DOMAIN l = Users, c \in [Users -> BOOLEAN],
         NEW u \in Users, NEW m, NEW e, NEW a
  PROVE  Follows(Append(q, Reaction(u, m, e, a)),
                 [l EXCEPT ![u] = [message |-> m, emoji |-> e, added |-> a]], [c EXCEPT ![u] = FALSE])
<1> DEFINE l2 == [l EXCEPT ![u] = [message |-> m, emoji |-> e, added |-> a]]
           c2 == [c EXCEPT ![u] = FALSE]
           r  == Reaction(u, m, e, a)
           p  == Append(q, r)
<1>1. /\ IsList(p) /\ Len(p) = Len(q) + 1 /\ Len(q) \in Nat
      /\ \A i \in 1..Len(q) : p[i] = q[i]
      /\ p[Len(q) + 1] = r
  BY AppendList DEF Follows
<1>2. r.kind = "reaction" /\ r.user = u /\ r = Did(l2, u)
  BY DEF Reaction, Did
<1>3. /\ ~c2[u] /\ \A w \in Users : w # u => l2[w] = l[w] /\ c2[w] = c[w]
  OBVIOUS
<1> HIDE DEF l2, c2, r, p
<1>4. ASSUME NEW n \in 1..Len(q), p[n].kind = "reaction", p[n].user # Bot
      PROVE  /\ p[n].user \in Users /\ ~c2[p[n].user]
             /\ Later(p, p[n].user, n) \/ p[n] = Did(l2, p[n].user)
  <2>1. p[n] = q[n]
    BY <1>1
  <2>2. /\ p[n].user \in Users /\ ~c[p[n].user]
        /\ Later(q, p[n].user, n) \/ p[n] = Did(l, p[n].user)
    BY <1>4, <2>1 DEF Follows
  <2>3. CASE p[n].user = u
    <3>1. Len(q) + 1 \in (n + 1)..Len(p)
      BY <1>1
    <3> QED  BY <1>1, <1>2, <1>3, <2>3, <3>1 DEF Later
  <2>4. CASE p[n].user # u
    <3>1. ASSUME Later(q, p[n].user, n)
          PROVE  Later(p, p[n].user, n)
      <4>1. PICK k \in (n + 1)..Len(q) : q[k].kind = "reaction" /\ q[k].user = p[n].user
        BY <3>1 DEF Later
      <4>2. k \in 1..Len(q) /\ k \in (n + 1)..Len(p)
        BY <1>1
      <4> QED  BY <1>1, <4>1, <4>2 DEF Later
    <3>2. Did(l2, p[n].user) = Did(l, p[n].user)
      BY <1>3, <2>2, <2>4 DEF Did
    <3> QED  BY <1>3, <2>2, <2>4, <3>1, <3>2
  <2> QED  BY <2>3, <2>4
<1>5. \A n \in 1..Len(p) : n \in 1..Len(q) \/ n = Len(q) + 1
  BY <1>1
<1>6. ASSUME NEW n \in 1..Len(p), p[n].kind = "reaction"
      PROVE  \/ p[n].user = Bot
             \/ /\ p[n].user \in Users /\ ~c2[p[n].user]
                /\ Later(p, p[n].user, n) \/ p[n] = Did(l2, p[n].user)
  <2>1. CASE n \in 1..Len(q)
    BY <1>4, <1>6, <2>1
  <2>2. CASE n = Len(q) + 1
    BY <1>1, <1>2, <1>3, <2>2
  <2> QED  BY <1>5, <2>1, <2>2
<1>7. Follows(p, l2, c2)
  BY <1>1, <1>6 DEF Follows
<1> QED  BY <1>7 DEF l2, c2, r, p

-----------------------------------------------------------------------------
(* What is queued.                                                         *)
LEMMA NothingIsQueued ==
  ASSUME NEW v
  PROVE  Queues(<<>>, v) /\ Len(<<>>) = 0
<1>1. <<>> \in Seq({}) /\ Len(<<>>) = 0
  BY EmptySeq
<1>2. IsList(<<>>)
  BY <1>1, SeqIsList
<1>3. 1..0 = {}
  OBVIOUS
<1> QED  BY <1>1, <1>2, <1>3 DEF Queues

LEMMA TailIsQueued ==
  ASSUME NEW q, NEW v, Queues(q, v), q # <<>>
  PROVE  Queues(Tail(q), v)
<1> DEFINE t == Tail(q)
<1>1. /\ IsList(t) /\ Len(q) \in Nat \ {0} /\ Len(t) = Len(q) - 1
      /\ \A i \in 1..Len(t) : t[i] = q[i + 1]
  BY TailList DEF Queues
<1> HIDE DEF t
<1>2. \A n \in 1..Len(t) : n + 1 \in 1..Len(q) /\ t[n] = q[n + 1]
  BY <1>1
<1> QED  BY <1>1, <1>2 DEF Queues, t

\* What the queue has room for.
LEMMA RestIsQueued ==
  ASSUME NEW q, NEW v, Queues(q, v)
  PROVE  LET s == SubSeq(q, 1, IF Capped(q) THEN MaxActions ELSE Len(q))
         IN  /\ Queues(s, v) /\ Len(s) <= Len(q) /\ Len(s) \in Nat
             /\ \A n \in 1..Len(s) : s[n] = q[n]
             /\ ~Capped(q) => s = q
<1> DEFINE m == IF Capped(q) THEN MaxActions ELSE Len(q)
           s == SubSeq(q, 1, m)
<1>1. Len(q) \in Nat /\ q \in Seq(Range(q)) /\ DOMAIN q = 1..Len(q) /\ IsList(q)
  BY ListIsSeq DEF Queues
<1>2. m \in Nat /\ m <= Len(q)
  BY <1>1, ReactionAssumption DEF ReactionAssumption, Capped
<1>3. \A i \in 1..m : q[i] \in Range(q)
  BY <1>1, <1>2 DEF Range
<1>4. ~Capped(q) => m = Len(q)
  OBVIOUS
<1> HIDE DEF m
<1>5. /\ s \in Seq(Range(q)) /\ Len(s) = IF 1 <= m THEN m - 1 + 1 ELSE 0
      /\ \A i \in 1..(m - 1 + 1) : s[i] = q[1 + i - 1]
  BY <1>2, <1>3, SubSeqProperties
<1>6. Len(s) = m /\ \A i \in 1..m : s[i] = q[i]
  BY <1>2, <1>5
<1>7. IsList(s)
  BY <1>5, SeqIsList
<1> HIDE DEF s
<1>8. \A n \in 1..Len(s) : n \in 1..Len(q) /\ s[n] = q[n]
  BY <1>1, <1>2, <1>6
<1>9. Queues(s, v)
  BY <1>7, <1>8 DEF Queues
<1>10. ~Capped(q) => s = q
  BY <1>1, <1>4, <1>6, <1>7 DEF IsList
<1> QED  BY <1>1, <1>2, <1>6, <1>9, <1>10 DEF s, m

\* On Started: messages, then seeds.
LEMMA StartedQueues ==
  ASSUME NEW v \in Versions, NEW reg
  PROVE  /\ Queues(OnStarted(v, reg), v)
         /\ \A n \in 1..Len(OnStarted(v, reg)) : OnStarted(v, reg)[n].kind \in {"post", "seed"}
<1> DEFINE b      == BotOf(v)
           P      == {k \in DOMAIN b.managed :
                       b.managed[k].direct \/ managed[reg.messages[b.managed[k].is]] = 0}
           S      == {k \in DOMAIN b.mappings :
                       /\ b.mappings[k].seed
                       /\ \E m \in Range(b.managed) : SameMessage(reg, m, b.mappings[k].message)}
           fresh  == InOrder(b.managed, P)
           seeds  == InOrder(b.mappings, S)
           posts1 == [k \in DOMAIN fresh |-> Post(fresh[k])]
           seeds1 == [k \in DOMAIN seeds |-> Seed(seeds[k].message, seeds[k].emoji)]
<1>1. OnStarted(v, reg) = posts1 \o seeds1
  BY DEF OnStarted
<1>2. IsList(b.managed) /\ IsList(b.mappings)
  <2>1. /\ DOMAIN b.managed = 1..Len(Configs[v].managed) /\ Len(Configs[v].managed) \in Nat
        /\ DOMAIN b.mappings = 1..Len(Mappings(v)) /\ Len(Mappings(v)) \in Nat
    BY BotHas, ConfigHas
  <2>2. b.managed = [k \in DOMAIN b.managed |-> b.managed[k]] /\ b.mappings = [k \in DOMAIN b.mappings |-> b.mappings[k]]
    <3>1. \E f, g : b = [managed |-> [k \in DOMAIN Configs[v].managed |-> f[k]],
                         mappings |-> [k \in DOMAIN Mappings(v) |-> g[k]]]
      <4> DEFINE compiled(m) == [m EXCEPT !.message = Compile(Install(v).messages, @),
                                          !.role = Compile(Install(v).roles, @)]
                 f == [k \in DOMAIN Configs[v].managed |-> Compile(Install(v).messages, Configs[v].managed[k])]
                 g == [k \in DOMAIN Mappings(v) |-> compiled(Mappings(v)[k])]
      <4>1. b = [managed |-> f, mappings |-> g]
        BY DEF BotOf
      <4>2. f = [k \in DOMAIN Configs[v].managed |-> f[k]] /\ g = [k \in DOMAIN Mappings(v) |-> g[k]]
        OBVIOUS
      <4> HIDE DEF f, g, b
      <4> QED  BY <4>1, <4>2, Zenon
    <3> HIDE DEF b
    <3> QED  BY <3>1
  <2> QED  BY <2>1, <2>2, MadeList
<1>3. Selects(fresh, b.managed, P, Len(b.managed)) /\ IsList(seeds)
  <2> HIDE DEF b, P, S
  <2>1. Selects(fresh, b.managed, P, Len(b.managed)) /\ Selects(seeds, b.mappings, S, Len(b.mappings))
    BY <1>2, InOrderHas, Zenon
  <2> QED  BY <2>1 DEF Selects
<1>4. \A i \in 1..Len(fresh) : \E k \in DOMAIN Configs[v].managed : fresh[i] = b.managed[k]
  <2>1. \A k \in P : k \in DOMAIN Configs[v].managed
    BY BotHas
  <2> HIDE DEF b, P, fresh
  <2> QED  BY <1>3, <2>1 DEF Selects
<1>5. /\ IsList(posts1) /\ Len(posts1) = Len(fresh) /\ Len(fresh) \in Nat
      /\ \A i \in 1..Len(fresh) : posts1[i] = Post(fresh[i])
  <2> HIDE DEF b, P, fresh
  <2>1. Len(fresh) \in Nat /\ DOMAIN fresh = 1..Len(fresh)
    BY <1>3, ListIsSeq DEF Selects
  <2>2. posts1 = [k \in 1..Len(fresh) |-> Post(fresh[k])]
    BY <2>1
  <2> QED  BY <2>1, <2>2, MadeList
<1>6. /\ IsList(seeds1) /\ Len(seeds1) = Len(seeds) /\ Len(seeds) \in Nat
      /\ \A i \in 1..Len(seeds) : seeds1[i].kind = "seed"
  <2> HIDE DEF b, S, seeds
  <2>1. Len(seeds) \in Nat /\ DOMAIN seeds = 1..Len(seeds)
    BY <1>3, ListIsSeq
  <2>2. seeds1 = [k \in 1..Len(seeds) |-> Seed(seeds[k].message, seeds[k].emoji)]
    BY <2>1
  <2> QED  BY <2>1, <2>2, MadeList DEF Seed
<1> DEFINE Q == posts1 \o seeds1
<1> HIDE DEF posts1, seeds1, fresh, seeds, P, S
<1>7. /\ IsList(Q) /\ Len(Q) = Len(fresh) + Len(seeds)
      /\ \A i \in 1..(Len(fresh) + Len(seeds)) : Q[i] = IF i <= Len(fresh) THEN posts1[i] ELSE seeds1[i - Len(fresh)]
  <2> DEFINE T == Range(posts1) \cup Range(seeds1)
  <2>1. posts1 \in Seq(T) /\ seeds1 \in Seq(T)
    BY <1>5, <1>6, ListIsSeq, SeqMonotonic
  <2> HIDE DEF T
  <2>2. /\ Q \in Seq(T) /\ Len(Q) = Len(posts1) + Len(seeds1)
        /\ \A i \in 1..(Len(posts1) + Len(seeds1)) :
             Q[i] = IF i <= Len(posts1) THEN posts1[i] ELSE seeds1[i - Len(posts1)]
    BY <2>1, ConcatProperties, Zenon
  <2>3. IsList(Q)
    BY <2>2, SeqIsList, Zenon
  <2> QED  BY <1>5, <1>6, <2>2, <2>3
<1> HIDE DEF Q, b
<1>8. \A i \in 1..Len(Q) : \/ i \in 1..Len(fresh) /\ Q[i] = Post(fresh[i])
                           \/ i > Len(fresh) /\ Q[i].kind = "seed"
  <2> SUFFICES ASSUME NEW i \in 1..Len(Q), ~(i \in 1..Len(fresh) /\ Q[i] = Post(fresh[i]))
               PROVE  i > Len(fresh) /\ Q[i].kind = "seed"
    OBVIOUS
  <2>1. i > Len(fresh) /\ Q[i] = seeds1[i - Len(fresh)] /\ i - Len(fresh) \in 1..Len(seeds)
    BY <1>5, <1>6, <1>7
  <2> QED  BY <1>6, <2>1
<1>9. \A i \in 1..Len(fresh) : IsPost(Post(fresh[i]), v) /\ Post(fresh[i]).kind = "post"
  BY <1>4 DEF IsPost, Post, b
<1>10. Queues(Q, v) /\ \A n \in 1..Len(Q) : Q[n].kind \in {"post", "seed"}
  BY <1>7, <1>8, <1>9 DEF Queues
<1> QED  BY <1>1, <1>10 DEF Q

\* On a reaction: one action for each mapping, for the one who reacted.
LEMMA ReactionQueues ==
  ASSUME bot \in Versions, NEW e, e.user # Bot => e.user \in Users
  PROVE  /\ Queues(OnReaction(e), bot)
         /\ \A n \in 1..Len(OnReaction(e)) : OnReaction(e)[n].user = e.user
         /\ e.user = Bot => OnReaction(e) = <<>>
         /\ e.user # Bot => /\ Len(OnReaction(e)) = Len(Mappings(bot))
                            /\ \A k \in DOMAIN Mappings(bot) :
                                 OnReaction(e)[k] =
                                   RoleAction(IF Matches(registry, BotOf(bot).mappings[k], e) /\ e.added
                                              THEN "add" ELSE "remove", e.user, BotOf(bot).mappings[k].role)
<1>1. CASE e.user = Bot
  <2>1. OnReaction(e) = <<>>
    BY <1>1 DEF OnReaction
  <2>2. 1..0 = {}
    OBVIOUS
  <2> QED  BY <1>1, <2>1, <2>2, NothingIsQueued
<1>2. CASE e.user # Bot
  <2> DEFINE ms2 == BotOf(bot).mappings
             A(k) == RoleAction(IF Matches(registry, ms2[k], e) /\ e.added THEN "add" ELSE "remove",
                                e.user, ms2[k].role)
             Q == OnReaction(e)
  <2>1. DOMAIN ms2 = 1..Len(Mappings(bot)) /\ Len(Mappings(bot)) \in Nat /\ DOMAIN Mappings(bot) = 1..Len(Mappings(bot))
    BY BotHas, ConfigHas
  <2>2. Q = [k \in 1..Len(Mappings(bot)) |-> A(k)]
    BY <1>2, <2>1 DEF OnReaction
  <2>3. \A k : IsRole(A(k)) /\ A(k).user = e.user
    BY <1>2 DEF IsRole, RoleAction
  <2> HIDE DEF A, Q
  <2>4. IsList(Q) /\ Len(Q) = Len(Mappings(bot))
    BY <2>1, <2>2, MadeList
  <2>5. \A k \in 1..Len(Q) : Q[k] = A(k)
    BY <2>1, <2>2, <2>4
  <2>6. Queues(Q, bot)
    BY <2>3, <2>4, <2>5 DEF Queues
  <2> QED  BY <1>2, <2>1, <2>3, <2>4, <2>5, <2>6 DEF Q, A
<1> QED  BY <1>1, <1>2

LEMMA RoleIsQueued ==
  ASSUME NEW q, NEW v, Queues(q, v), NEW n \in 1..Len(q), q[n].kind \in {"add", "remove"}
  PROVE  IsRole(q[n])
<1>1. IsPost(q[n], v) \/ q[n].kind = "seed" \/ IsRole(q[n])
  BY DEF Queues
<1>2. IsPost(q[n], v) => q[n].kind = "post"
  BY DEF IsPost, Post
<1> QED  BY <1>1, <1>2

-----------------------------------------------------------------------------
(* The actions, as far as the invariant sees them.                         *)
LEMMA Enqueued ==
  ASSUME NEW q, NEW v, Queues(q, v), Enqueue(q)
  PROVE  /\ Queues(queue', v) /\ pc' \in {"poll", "execute"} /\ (queue' = <<>> <=> pc' # "execute")
         /\ \A n \in 1..Len(queue') : n \in 1..Len(q) /\ queue'[n] = q[n]
         /\ ~Capped(q) => queue' = q
<1> DEFINE s == SubSeq(q, 1, IF Capped(q) THEN MaxActions ELSE Len(q))
<1>1. queue' = s /\ pc' = IF queue' = <<>> THEN "poll" ELSE "execute"
  BY DEF Enqueue
<1>2. /\ Queues(s, v) /\ Len(s) <= Len(q) /\ Len(s) \in Nat
      /\ \A n \in 1..Len(s) : s[n] = q[n]
      /\ ~Capped(q) => s = q
  BY RestIsQueued
<1>3. Len(q) \in Nat
  BY DEF Queues, IsList
<1> HIDE DEF s
<1>4. \A n \in 1..Len(s) : n \in 1..Len(q)
  BY <1>2, <1>3
<1> QED  BY <1>1, <1>2, <1>4

LEMMA StartedMeans ==
  ASSUME NEW v \in Versions, NEW r1, NEW m1, NEW reg \in {Install(v), Normalize(Install(v), r1, m1)},
         Started(v, reg), RegistryInv, UsersInv
  PROVE  /\ bot' = v /\ registry' = Normalize(Install(v), roles', managed) /\ managed' = managed
         /\ DOMAIN disk'.managed = MessageNames
         /\ Queues(queue', v) /\ pc' \in {"poll", "execute"} /\ (queue' = <<>> <=> pc' # "execute")
         /\ \A n \in 1..Len(queue') : queue'[n].kind \in {"post", "seed"}
         /\ calm' \in [Users -> BOOLEAN]
         /\ \A u \in Users : calm'[u] => calm[u] /\ v = bot /\ roles' = roles
         /\ UNCHANGED <<guild, posts, reactions, held, strays, made, last>>
<1> DEFINE found == [n \in RoleNames |->
                      IF roles[n] = 0 /\ n \in Range(reg.roles) THEN FromTracker(known', n) ELSE roles[n]]
<1>1. /\ roles' = found /\ registry' = Normalize(reg, found, managed)
      /\ IF found # roles THEN SaveState(found, managed) ELSE UNCHANGED <<disk, faults>>
      /\ Enqueue(OnStarted(v, registry'))
      /\ StaysCalm(found = roles /\ v = bot) /\ bot' = v
      /\ UNCHANGED <<managed, guild, worldVars, userVars>>
  BY DEF Started
<1> HIDE DEF found
<1>2. registry' = Normalize(Install(v), roles', managed)
  BY <1>1, NormalizeAgain
<1> DEFINE Q == OnStarted(v, registry')
<1>3. Queues(Q, v) /\ \A n \in 1..Len(Q) : Q[n].kind \in {"post", "seed"}
  BY StartedQueues
<1> HIDE DEF Q
<1>4. Enqueue(Q)
  BY <1>1 DEF Q
<1>5. DOMAIN disk'.managed = MessageNames
  <2>1. disk' = disk \/ disk' = [roles |-> found, managed |-> managed]
    BY <1>1 DEF SaveState
  <2> QED  BY <2>1 DEF RegistryInv
<1>6. /\ calm' \in [Users -> BOOLEAN]
      /\ \A u \in Users : calm'[u] => calm[u] /\ v = bot /\ roles' = roles
  BY <1>1, Zenon DEF StaysCalm, UsersInv
<1> QED  BY <1>1, <1>2, <1>3, <1>4, <1>5, <1>6, Enqueued DEF worldVars, userVars

\* The steps that end in Started.
Begins == Reload \/ HandleGuild \/ HandleResumed

LEMMA BeginsMeans ==
  ASSUME Begins, IInv
  PROVE  /\ bot' \in Versions /\ registry' = Normalize(Install(bot'), roles', managed) /\ managed' = managed
         /\ DOMAIN disk'.managed = MessageNames /\ file' \in Versions
         /\ Queues(queue', bot') /\ pc' \in {"poll", "execute"} /\ (queue' = <<>> <=> pc' # "execute")
         /\ \A n \in 1..Len(queue') : queue'[n].kind \in {"post", "seed"}
         /\ calm' \in [Users -> BOOLEAN]
         /\ \A u \in Users : calm'[u] => calm[u] /\ bot' = bot /\ roles' = roles
         /\ UNCHANGED <<guild, posts, reactions, held, strays, made, last>>
         /\ pc = "poll" /\ queue = <<>>
         /\ \/ inbox' = inbox /\ seen' = seen
            \/ inbox # <<>> /\ inbox' = Tail(inbox) /\ seen' # {}
<1>1. RegistryInv /\ UsersInv /\ pc = "poll" /\ queue = <<>>
  BY DEF IInv, QueueInv, Begins, Reload, HandleGuild, HandleResumed
<1>2. CASE Reload
  <2>1. file' \in Versions
    BY <1>2 DEF Reload, Good
  <2>2. Started(file', Install(file')) /\ inbox' = inbox /\ seen' = seen
    BY <1>2 DEF Reload, trackVars
  <2> QED  BY <1>1, <2>1, <2>2, StartedMeans
<1>3. CASE HandleGuild \/ HandleResumed
  <2>1. Started(bot, registry) /\ file' = file /\ inbox # <<>> /\ inbox' = Tail(inbox)
    BY <1>3 DEF HandleGuild, HandleResumed
  <2>2. bot \in Versions /\ file \in Versions /\ registry \in {Install(bot), Normalize(Install(bot), roles, managed)}
    BY <1>1 DEF RegistryInv, Normalized
  <2>3. seen' # {}
    <3>1. CASE HandleGuild
      BY <3>1 DEF HandleGuild
    <3>2. CASE HandleResumed
      <4>1. Head(inbox) = inbox[1]
        BY <2>1, TailList DEF IInv, InboxInv, Follows
      <4> QED  BY <3>2, <4>1, <1>1 DEF HandleResumed, IInv, InboxInv, trackVars
    <3> QED  BY <1>3, <3>1, <3>2
  <2> QED  BY <1>1, <2>1, <2>2, <2>3, StartedMeans
<1> QED  BY <1>2, <1>3 DEF Begins

\* What is done with an entry of the queue.
Executes ==
  SkipUnresolved \/ EditMessage \/ AddReaction \/ ChangeRole \/ ChangeRoleFails \/ MessageRequestFails

LEMMA ThisIs ==
  ASSUME queue # <<>>, Queues(queue, bot)
  PROVE  This = queue[1] /\ 1 \in 1..Len(queue)
<1>1. Head(queue) = queue[1] /\ Len(queue) \in Nat \ {0}
  BY TailList DEF Queues
<1> QED  BY <1>1 DEF This

LEMMA ExecutesMeans ==
  ASSUME Executes, IInv
  PROVE  /\ UNCHANGED <<file, bot, registry, roles, managed, trackVars, guild, posts, userVars>>
         /\ DOMAIN disk'.managed = MessageNames
         /\ pc = "execute" /\ queue # <<>> /\ NextAction
         /\ This = queue[1] /\ 1 \in 1..Len(queue)
         /\ \/ inbox' = inbox
            \/ \E e : inbox' = Append(inbox, e) /\ e.kind = "reaction" /\ e.user = Bot
         /\ calm' \in [Users -> BOOLEAN] /\ \A u \in Users : calm'[u] => calm[u]
<1>1. pc = "execute" /\ queue # <<>> /\ NextAction
  BY DEF Executes, SkipUnresolved, EditMessage, AddReaction, ChangeRole, ChangeRoleFails, MessageRequestFails,
         IInv, QueueInv
<1>2. This = queue[1] /\ 1 \in 1..Len(queue)
  BY <1>1, ThisIs DEF IInv, QueueInv
<1>3. UNCHANGED <<file, bot, roles, managed, trackVars, guild, posts, userVars>>
  BY DEF Executes, SkipUnresolved, EditMessage, AddReaction, ChangeRole, ChangeRoleFails, MessageRequestFails,
         worldVars, botVars, stateVars
<1>4. registry' = registry /\ DOMAIN disk'.managed = MessageNames
  <2>1. registry = Normalize(Install(bot), roles, managed) /\ DOMAIN disk.managed = MessageNames
        /\ DOMAIN managed = MessageNames
    BY <1>1 DEF IInv, RegistryInv, Normalized
  <2>2. CASE EditMessage
    <3>1. registry' = Normalize(registry, roles, managed)
          /\ (disk' = [roles |-> roles, managed |-> managed] \/ disk' = disk)
      BY <2>2 DEF EditMessage, SaveState
    <3>2. Normalize(registry, roles, managed) = Normalize(Install(bot), roles, managed)
      BY <2>1, NormalizeAgain
    <3> QED  BY <2>1, <3>1, <3>2
  <2>3. CASE SkipUnresolved \/ AddReaction \/ ChangeRole \/ ChangeRoleFails \/ MessageRequestFails
    BY <2>1, <2>3 DEF SkipUnresolved, AddReaction, ChangeRole, ChangeRoleFails, MessageRequestFails,
                      botVars, stateVars
  <2> QED  BY <2>2, <2>3 DEF Executes
<1>5. \/ inbox' = inbox
      \/ \E e : inbox' = Append(inbox, e) /\ e.kind = "reaction" /\ e.user = Bot
  BY DEF Executes, SkipUnresolved, EditMessage, AddReaction, ChangeRole, ChangeRoleFails, MessageRequestFails,
         Reaction
<1>6. calm \in [Users -> BOOLEAN]
  BY DEF IInv, UsersInv
<1>7. calm' = calm \/ calm' = [calm EXCEPT ![This.user] = FALSE]
  BY DEF Executes, SkipUnresolved, EditMessage, AddReaction, ChangeRole, ChangeRoleFails, MessageRequestFails
<1>8. calm' \in [Users -> BOOLEAN] /\ \A u \in Users : calm'[u] => calm[u]
  BY <1>6, <1>7, Zenon
<1> QED  BY <1>1, <1>2, <1>3, <1>4, <1>5, <1>8

LEMMA PostMessageMeans ==
  ASSUME PostMessage, IInv
  PROVE  /\ pc = "execute" /\ queue # <<>> /\ NextAction /\ posts' = posts + 1 /\ queue[1].kind = "post"
         /\ Name \in MessageNames /\ managed[Name] = 0
         /\ \/ /\ managed' = [managed EXCEPT ![Name] = posts + 1]
               /\ registry' = Normalize(Install(bot), roles, managed')
               /\ DOMAIN disk'.managed = MessageNames
            \/ UNCHANGED <<managed, registry, disk>>
         /\ UNCHANGED <<file, bot, trackVars, roles, inbox, guild, reactions, held, strays, userVars, calm>>
<1>1. /\ pc = "execute" /\ queue # <<>> /\ NextAction /\ posts' = posts + 1 /\ managed[Name] = 0
      /\ UNCHANGED <<file, bot, trackVars, roles, inbox, guild, reactions, held, strays, userVars, calm>>
  BY DEF PostMessage, IInv, QueueInv
<1>2. /\ bot \in Versions /\ DOMAIN managed = MessageNames /\ DOMAIN disk.managed = MessageNames
      /\ registry = Normalize(Install(bot), roles, managed)
  BY <1>1 DEF IInv, RegistryInv, Normalized
<1>3. Queues(queue, bot) /\ This = queue[1] /\ 1 \in 1..Len(queue)
  BY <1>1, ThisIs DEF IInv, QueueInv
<1>4. This.kind = "post" /\ ~This.message.direct
  BY DEF PostMessage, Resolved
<1>5. IsPost(This, bot)
  BY <1>3, <1>4 DEF Queues, IsRole
<1>6. PICK k \in DOMAIN Configs[bot].managed : This.message = BotOf(bot).managed[k]
  BY <1>5 DEF IsPost, Post
<1>7. Name \in MessageNames
  <2>1. registry.messages = Table(MessageRefs(bot))
    BY <1>2, RegistryNames
  <2> QED  BY <1>2, <1>4, <1>6, <2>1, ManagedNames DEF Name
<1>8. CASE /\ managed' = [managed EXCEPT ![Name] = posts + 1]
           /\ registry' = Normalize(registry, roles, managed')
           /\ SaveState(roles, managed')
  <2>1. registry' = Normalize(Install(bot), roles, managed')
    BY <1>2, <1>8, NormalizeAgain
  <2>2. DOMAIN managed' = MessageNames
    BY <1>2, <1>8
  <2>3. disk' = [roles |-> roles, managed |-> managed'] \/ disk' = disk
    BY <1>8 DEF SaveState
  <2>4. DOMAIN disk'.managed = MessageNames
    BY <1>2, <2>2, <2>3
  <2> QED  BY <1>1, <1>3, <1>4, <1>7, <1>8, <2>1, <2>4
<1>9. CASE UNCHANGED <<managed, registry, disk>>
  BY <1>1, <1>3, <1>4, <1>7, <1>9
<1> QED  BY <1>8, <1>9 DEF PostMessage

\* The steps that leave the bot, the state and the queue alone, but for a crash.
Leaves ==
  \/ \E resumed \in BOOLEAN : OpenSession(resumed)
  \/ ReloadFails \/ ChangeGuild \/ GuildReturns \/ LoseSession \/ Crash \/ EditConfig
  \/ \E a \in strays : StrayArrives(a)
  \/ \E u \in Users, m \in 1..posts \cup Others, e \in Emojis, added \in BOOLEAN : React(u, m, e, added)
  \/ UNCHANGED vars

LEMMA LeavesMeans ==
  ASSUME Leaves, IInv
  PROVE  /\ UNCHANGED <<botVars, stateVars, posts>> /\ file' \in Versions
         /\ \/ queue' = queue /\ ((pc' = "execute" /\ pc = "execute") \/ (pc' # "execute" /\ pc # "execute"))
            \/ queue' = <<>> /\ pc' = "down"
         /\ pc' \in {"down", "connect", "retry", "poll", "execute"}
         /\ calm' \in [Users -> BOOLEAN] /\ \A u \in Users : calm'[u] => calm[u]
<1>1. calm \in [Users -> BOOLEAN] /\ file \in Versions /\ pc \in {"down", "connect", "retry", "poll", "execute"}
  BY DEF IInv, UsersInv, RegistryInv, QueueInv
<1>2. \A p : StaysCalm(p) => calm' \in [Users -> BOOLEAN] /\ \A u \in Users : calm'[u] => calm[u]
  BY <1>1, Zenon DEF StaysCalm
<1>3. \A u : calm' = [calm EXCEPT ![u] = FALSE] =>
         calm' \in [Users -> BOOLEAN] /\ \A w \in Users : calm'[w] => calm[w]
  BY <1>1, Zenon
<1>31. calm' = calm => calm' \in [Users -> BOOLEAN] /\ \A u \in Users : calm'[u] => calm[u]
  BY <1>1
<1>4. CASE \E resumed \in BOOLEAN : OpenSession(resumed)
  BY <1>1, <1>31, <1>4 DEF OpenSession, worldVars
<1>5. CASE ReloadFails \/ GuildReturns \/ LoseSession \/ EditConfig
  <2>1. file < Len(Configs) /\ file \in Versions => file + 1 \in Versions
    <3>1. IsList(Configs)
      BY ReactionAssumption DEF ReactionAssumption
    <3>2. DOMAIN Configs = 1..Len(Configs) /\ Len(Configs) \in Nat
      BY <3>1, ListIsSeq
    <3> QED  BY <3>2 DEF Versions
  <2> QED  BY <1>1, <1>31, <1>5, <2>1 DEF ReloadFails, GuildReturns, LoseSession, EditConfig, worldVars
<1>6. CASE ChangeGuild \/ Crash
  <2>1. \E p : StaysCalm(p)
    <3>1. CASE ChangeGuild
      BY <3>1 DEF ChangeGuild
    <3>2. CASE Crash
      BY <3>2 DEF Crash
    <3> QED  BY <1>6, <3>1, <3>2
  <2> QED  BY <1>1, <1>2, <1>6, <2>1 DEF ChangeGuild, Crash, worldVars
<1>7. CASE \E a \in strays : StrayArrives(a)
  <2>1. \E u : calm' = [calm EXCEPT ![u] = FALSE]
    BY <1>7 DEF StrayArrives
  <2> QED  BY <1>1, <1>3, <1>7, <2>1 DEF StrayArrives
<1>8. CASE \E u \in Users, m \in 1..posts \cup Others, e \in Emojis, added \in BOOLEAN : React(u, m, e, added)
  <2>1. \E u : calm' = [calm EXCEPT ![u] = FALSE]
    BY <1>8 DEF React
  <2> QED  BY <1>1, <1>3, <1>8, <2>1 DEF React
<1>9. CASE UNCHANGED vars
  BY <1>1, <1>31, <1>9 DEF vars, worldVars
<1> QED  BY <1>4, <1>5, <1>6, <1>7, <1>8, <1>9 DEF Leaves

LEMMA NextSteps ==
  ASSUME [Next]_vars
  PROVE  Leaves \/ Start \/ Begins \/ HandleReaction \/ PostMessage \/ Executes
BY DEF Next, Leaves, Begins, Executes, Idle

LEMMA StartMeans ==
  ASSUME Start, IInv
  PROVE  /\ bot' \in Versions /\ registry' = Install(bot') /\ seen' = {} /\ file' = file
         /\ managed' = disk.managed /\ disk' = disk /\ roles' = disk.roles
         /\ pc = "down" /\ pc' = "connect" /\ queue = <<>> /\ queue' = <<>>
         /\ UNCHANGED <<inbox, guild, posts, reactions, held, strays, made, last>>
         /\ calm' \in [Users -> BOOLEAN]
         /\ \A u \in Users : calm'[u] => calm[u] /\ bot' = bot /\ roles' = roles /\ managed' = managed
<1> DEFINE P == file = bot /\ disk = [roles |-> roles, managed |-> managed]
<1>1. /\ pc = "down" /\ file \in Good /\ bot' = file /\ registry' = Install(file)
      /\ roles' = disk.roles /\ managed' = disk.managed /\ seen' = {} /\ pc' = "connect"
      /\ StaysCalm(P)
      /\ UNCHANGED <<file, disk, queue, inbox, guild, worldVars, userVars, faults>>
  BY DEF Start
<1>2. queue = <<>> /\ calm \in [Users -> BOOLEAN]
  BY <1>1 DEF IInv, QueueInv, UsersInv
<1>3. P => bot' = bot /\ roles' = roles /\ managed' = managed
  BY <1>1
<1> HIDE DEF P
<1>4. calm' \in [Users -> BOOLEAN] /\ \A u \in Users : calm'[u] => calm[u] /\ P
  BY <1>1, <1>2, Zenon DEF StaysCalm
<1> QED  BY <1>1, <1>2, <1>3, <1>4 DEF Good, worldVars, userVars

LEMMA HandleReactionMeans ==
  ASSUME HandleReaction, IInv
  PROVE  /\ UNCHANGED <<file, botVars, trackVars, stateVars, guild, worldVars, userVars, faults>>
         /\ pc = "poll" /\ queue = <<>> /\ inbox # <<>> /\ inbox' = Tail(inbox) /\ seen # {}
         /\ inbox[1].kind = "reaction" /\ Head(inbox) = inbox[1] /\ 1 \in 1..Len(inbox)
         /\ inbox[1].user # Bot => inbox[1].user \in Users
         /\ Enqueue(OnReaction(inbox[1]))
         /\ calm' = [u \in Users |-> IF u = inbox[1].user
                                     THEN ~Pending(u, Tail(inbox)) /\ ~Capped(OnReaction(inbox[1]))
                                     ELSE calm[u]]
         /\ calm' \in [Users -> BOOLEAN]
<1>1. pc = "poll" /\ queue = <<>> /\ inbox # <<>> /\ Head(inbox).kind = "reaction" /\ inbox' = Tail(inbox)
  BY DEF HandleReaction, IInv, QueueInv
<1>2. Head(inbox) = inbox[1] /\ Len(inbox) \in Nat \ {0}
  BY <1>1, TailList DEF IInv, InboxInv, Follows
<1>3. 1 \in 1..Len(inbox) /\ inbox[1].kind = "reaction"
  BY <1>1, <1>2
<1>4. inbox[1].user # Bot => inbox[1].user \in Users
  BY <1>3 DEF IInv, InboxInv, Follows
<1>5. seen # {}
  BY <1>1, <1>3 DEF IInv, InboxInv
<1>6. UNCHANGED <<file, botVars, trackVars, stateVars, guild, worldVars, userVars, faults>>
  BY DEF HandleReaction
<1>7. /\ Enqueue(OnReaction(inbox[1]))
      /\ calm' = [u \in Users |-> IF u = inbox[1].user
                                  THEN ~Pending(u, Tail(inbox)) /\ ~Capped(OnReaction(inbox[1]))
                                  ELSE calm[u]]
  BY <1>2, Zenon DEF HandleReaction
<1>8. calm \in [Users -> BOOLEAN]
  BY DEF IInv, UsersInv
<1>9. calm' \in [Users -> BOOLEAN]
  <2> DEFINE p(u) == ~Pending(u, Tail(inbox)) /\ ~Capped(OnReaction(inbox[1]))
  <2>1. \A u : p(u) \in BOOLEAN
    BY Zenon
  <2>2. calm' = [u \in Users |-> IF u = inbox[1].user THEN p(u) ELSE calm[u]]
    BY <1>7, Zenon
  <2> HIDE DEF p
  <2> QED  BY <1>8, <2>1, <2>2
<1> QED  BY <1>1, <1>2, <1>3, <1>4, <1>5, <1>6, <1>7, <1>9

-----------------------------------------------------------------------------
(* The parts of the invariant.                                             *)
LEMMA RegistryStep ==
  ASSUME IInv, [Next]_vars
  PROVE  RegistryInv'
<1> USE DEF IInv
<1>1. CASE Leaves
  <2>1. /\ UNCHANGED <<bot, registry, roles, managed, disk>> /\ file' \in Versions
        /\ pc' = "execute" => pc = "execute"
    BY <1>1, LeavesMeans DEF botVars, stateVars
  <2>2. seen' # {} => seen # {}
    BY <1>1 DEF Leaves, OpenSession, ReloadFails, ChangeGuild, GuildReturns, LoseSession, Crash, EditConfig,
                StrayArrives, React, vars, trackVars
  <2>3. Normalized(bot)' = Normalized(bot) /\ Install(bot)' = Install(bot)
    BY <2>1 DEF Normalized, Normalize, Install, Table, RoleRefs, MessageRefs, Mappings, FirstUses, InOrder
  <2> QED  BY <2>1, <2>2, <2>3 DEF RegistryInv
<1>2. CASE Start
  <2>1. /\ bot' \in Versions /\ registry' = Install(bot') /\ seen' = {} /\ file' = file
        /\ managed' = disk.managed /\ disk' = disk /\ pc' = "connect"
    BY <1>2, StartMeans
  <2> QED  BY <2>1 DEF RegistryInv
<1>3. CASE Begins
  <2>1. /\ bot' \in Versions /\ registry' = Normalize(Install(bot'), roles', managed) /\ managed' = managed
        /\ DOMAIN disk'.managed = MessageNames /\ file' \in Versions
    BY <1>3, BeginsMeans
  <2>2. registry' = Normalized(bot)'
    BY <2>1 DEF Normalized
  <2> QED  BY <2>1, <2>2 DEF RegistryInv
<1>4. CASE HandleReaction
  <2>1. UNCHANGED <<file, bot, registry, roles, managed, disk, seen>> /\ seen # {}
    BY <1>4, HandleReactionMeans DEF botVars, stateVars, trackVars
  <2>2. Normalized(bot)' = Normalized(bot)
    BY <2>1 DEF Normalized
  <2> QED  BY <2>1, <2>2 DEF RegistryInv
<1>5. CASE PostMessage
  <2> DEFINE N == Name
  <2>1. /\ pc = "execute" /\ N \in MessageNames /\ UNCHANGED <<bot, file, roles, seen>>
        /\ \/ /\ managed' = [managed EXCEPT ![N] = posts + 1]
              /\ registry' = Normalize(Install(bot), roles, managed')
              /\ DOMAIN disk'.managed = MessageNames
           \/ UNCHANGED <<managed, registry, disk>>
    BY <1>5, PostMessageMeans DEF trackVars
  <2> HIDE DEF N
  <2>2. DOMAIN managed' = MessageNames /\ DOMAIN disk'.managed = MessageNames
    BY <2>1 DEF RegistryInv
  <2>3. registry' = Normalized(bot)'
    BY <2>1 DEF RegistryInv, Normalized
  <2> QED  BY <2>1, <2>2, <2>3 DEF RegistryInv
<1>6. CASE Executes
  <2>1. UNCHANGED <<file, bot, registry, roles, managed, seen>> /\ pc = "execute"
        /\ DOMAIN disk'.managed = MessageNames
    BY <1>6, ExecutesMeans DEF trackVars
  <2>2. Normalized(bot)' = Normalized(bot)
    BY <2>1 DEF Normalized
  <2> QED  BY <2>1, <2>2 DEF RegistryInv
<1> QED  BY <1>1, <1>2, <1>3, <1>4, <1>5, <1>6, NextSteps

LEMMA QueueStep ==
  ASSUME IInv, [Next]_vars
  PROVE  QueueInv'
<1>0. QueueInv /\ RegistryInv
  BY DEF IInv
<1>1. CASE Leaves
  <2>1. /\ UNCHANGED <<bot, managed>> /\ pc' \in {"down", "connect", "retry", "poll", "execute"}
        /\ \/ queue' = queue /\ ((pc' = "execute" /\ pc = "execute") \/ (pc' # "execute" /\ pc # "execute"))
           \/ queue' = <<>> /\ pc' = "down"
    BY <1>1, LeavesMeans DEF botVars, stateVars
  <2>2. Queues(queue', bot)
    BY <1>0, <2>1, NothingIsQueued DEF QueueInv
  <2>3. Queues(queue, bot)'
    BY <2>1, <2>2
  <2>4. queue' = <<>> <=> pc' # "execute"
    BY <1>0, <2>1 DEF QueueInv
  <2> QED  BY <2>1, <2>3, <2>4 DEF QueueInv
<1>2. CASE Start
  <2>1. pc' = "connect" /\ queue' = <<>>
    BY <1>2, StartMeans
  <2>2. Queues(queue', bot')
    BY <2>1, NothingIsQueued
  <2> QED  BY <2>1, <2>2 DEF QueueInv
<1>3. CASE Begins
  <2>1. /\ managed' = managed /\ Queues(queue', bot')
        /\ pc' \in {"poll", "execute"} /\ (queue' = <<>> <=> pc' # "execute")
    BY <1>3, BeginsMeans
  <2> QED  BY <2>1 DEF QueueInv
<1>4. CASE HandleReaction
  <2>1. /\ Enqueue(OnReaction(inbox[1])) /\ bot' = bot /\ managed' = managed
        /\ inbox[1].user # Bot => inbox[1].user \in Users
    BY <1>4, HandleReactionMeans DEF botVars, stateVars
  <2> DEFINE Q == OnReaction(inbox[1])
  <2>2. bot \in Versions
    BY <1>0 DEF RegistryInv
  <2>3. Queues(Q, bot)
    BY <2>1, <2>2, ReactionQueues
  <2> HIDE DEF Q
  <2>4. Queues(queue', bot) /\ pc' \in {"poll", "execute"} /\ (queue' = <<>> <=> pc' # "execute")
    BY <2>1, <2>3, Enqueued DEF Q
  <2> QED  BY <2>1, <2>4 DEF QueueInv
<1>5. CASE PostMessage
  <2>1. bot' = bot /\ NextAction /\ queue # <<>>
    BY <1>5, PostMessageMeans
  <2>2. Queues(queue', bot')
    BY <1>0, <2>1, TailIsQueued DEF QueueInv, NextAction
  <2> QED  BY <2>1, <2>2 DEF QueueInv, NextAction
<1>6. CASE Executes
  <2>1. bot' = bot /\ NextAction /\ queue # <<>>
    BY <1>6, ExecutesMeans
  <2>2. Queues(queue', bot')
    BY <1>0, <2>1, TailIsQueued DEF QueueInv, NextAction
  <2> QED  BY <2>1, <2>2 DEF QueueInv, NextAction
<1> QED  BY <1>1, <1>2, <1>3, <1>4, <1>5, <1>6, NextSteps

LEMMA UsersStep ==
  ASSUME IInv, [Next]_vars
  PROVE  UsersInv'
<1>0. UsersInv
  BY DEF IInv
<1>1. CASE Leaves
  <2>1. posts' = posts /\ calm' \in [Users -> BOOLEAN]
    BY <1>1, LeavesMeans
  <2>2. CASE \E u \in Users, m \in 1..posts \cup Others, e \in Emojis, added \in BOOLEAN : React(u, m, e, added)
    <3>1. PICK u \in Users, m \in 1..posts \cup Others, e \in Emojis, added \in BOOLEAN : React(u, m, e, added)
      BY <2>2
    <3> DEFINE act == [message |-> m, emoji |-> e, added |-> added]
    <3>2. last' = [last EXCEPT ![u] = act]
      BY <3>1 DEF React
    <3>3. act.message \in Int /\ act.message <= posts /\ act.message # 0
      BY <1>0, ReactionAssumption DEF ReactionAssumption, UsersInv
    <3> HIDE DEF act
    <3>4. DOMAIN last' = Users /\ \A w \in Users : last'[w] = last[w] \/ last'[w] = act
      BY <1>0, <3>2 DEF UsersInv
    <3> QED  BY <1>0, <2>1, <3>3, <3>4 DEF UsersInv
  <2>3. CASE UNCHANGED last
    BY <1>0, <2>1, <2>3 DEF UsersInv
  <2>4. UNCHANGED last \/ \E u \in Users, m \in 1..posts \cup Others, e \in Emojis, added \in BOOLEAN : React(u, m, e, added)
    BY <1>1 DEF Leaves, OpenSession, ReloadFails, ChangeGuild, GuildReturns, LoseSession, Crash, EditConfig,
                StrayArrives, vars, userVars
  <2> QED  BY <2>2, <2>3, <2>4
<1>2. CASE Start
  <2>1. posts' = posts /\ last' = last /\ calm' \in [Users -> BOOLEAN]
    BY <1>2, StartMeans
  <2> QED  BY <1>0, <2>1 DEF UsersInv
<1>3. CASE Begins
  <2>1. posts' = posts /\ last' = last /\ calm' \in [Users -> BOOLEAN]
    BY <1>3, BeginsMeans
  <2> QED  BY <1>0, <2>1 DEF UsersInv
<1>4. CASE HandleReaction
  <2>1. posts' = posts /\ last' = last /\ calm' \in [Users -> BOOLEAN]
    BY <1>4, HandleReactionMeans DEF worldVars, userVars
  <2> QED  BY <1>0, <2>1 DEF UsersInv
<1>5. CASE PostMessage
  <2>1. posts' = posts + 1 /\ last' = last /\ calm' = calm
    BY <1>5, PostMessageMeans DEF userVars
  <2>2. \A m \in Int : m <= posts => m <= posts + 1
    BY <1>0 DEF UsersInv
  <2> QED  BY <1>0, <2>1, <2>2 DEF UsersInv
<1>6. CASE Executes
  <2>1. posts' = posts /\ last' = last /\ calm' \in [Users -> BOOLEAN]
    BY <1>6, ExecutesMeans DEF userVars
  <2> QED  BY <1>0, <2>1 DEF UsersInv
<1> QED  BY <1>1, <1>2, <1>3, <1>4, <1>5, <1>6, NextSteps

\* A list that begins with the guild still does with an event more.
LEMMA GuildStays ==
  ASSUME NEW q, IsList(q), NEW e, q # <<>>
  PROVE  Append(q, e) # <<>> /\ Append(q, e)[1] = q[1]
<1>1. Len(q) \in Nat \ {0}
  BY TailList
<1>2. Len(Append(q, e)) = Len(q) + 1 /\ \A i \in 1..Len(q) : Append(q, e)[i] = q[i]
  BY AppendList
<1>3. 1 \in 1..Len(q) /\ Len(Append(q, e)) # 0
  BY <1>1, <1>2
<1>4. Len(<<>>) = 0
  OBVIOUS
<1> QED  BY <1>2, <1>3, <1>4

LEMMA InboxStep ==
  ASSUME IInv, [Next]_vars
  PROVE  InboxInv'
<1>0. InboxInv /\ Follows(inbox, last, calm) /\ IsList(inbox) /\ UsersInv
  BY DEF IInv, InboxInv, Follows
<1>1. CASE Leaves
  <2>0. calm' \in [Users -> BOOLEAN] /\ \A u \in Users : calm'[u] => calm[u]
    BY <1>1, LeavesMeans
  <2>1. CASE \E resumed \in BOOLEAN : OpenSession(resumed)
    <3>1. PICK resumed \in BOOLEAN : OpenSession(resumed)
      BY <2>1
    <3>2. CASE resumed
      <4>1. inbox' = Append(inbox, SessionResumed) /\ seen' = seen /\ pc = "retry" /\ UNCHANGED <<last, calm>>
        BY <3>1, <3>2 DEF OpenSession, trackVars, userVars
      <4>2. SessionResumed.kind # "reaction"
        BY DEF SessionResumed
      <4>3. Follows(inbox', last, calm)
        BY <1>0, <4>1, <4>2, FollowsNews
      <4>4. seen = {} => inbox' # <<>> /\ inbox'[1].kind = "guild"
        BY <1>0, <4>1, GuildStays DEF InboxInv
      <4> QED  BY <4>1, <4>3, <4>4 DEF InboxInv
    <3>3. CASE ~resumed
      <4>1. inbox' = <<GuildCreated(guild)>> /\ UNCHANGED <<last, calm>>
        BY <3>1, <3>3 DEF OpenSession, userVars
      <4>2. Follows(inbox', last, calm)
        BY <4>1, FollowsOne
      <4>3. inbox' # <<>> /\ inbox'[1].kind = "guild"
        BY <4>1 DEF GuildCreated
      <4> QED  BY <4>1, <4>2, <4>3 DEF InboxInv
    <3> QED  BY <3>2, <3>3
  <2>2. CASE \E u \in Users, m \in 1..posts \cup Others, e \in Emojis, added \in BOOLEAN : React(u, m, e, added)
    <3>1. PICK u \in Users, m \in 1..posts \cup Others, e \in Emojis, added \in BOOLEAN : React(u, m, e, added)
      BY <2>2
    <3>2. /\ inbox' = Append(inbox, Reaction(u, m, e, added))
          /\ last' = [last EXCEPT ![u] = [message |-> m, emoji |-> e, added |-> added]]
          /\ calm' = [calm EXCEPT ![u] = FALSE]
          /\ pc' = pc /\ seen' = seen
      BY <3>1 DEF React, trackVars
    <3>3. Follows(inbox', last', calm')
      BY <1>0, <3>2, FollowsAct DEF UsersInv
    <3>4. inbox # <<>> => inbox' # <<>> /\ inbox'[1] = inbox[1]
      BY <1>0, <3>2, GuildStays
    <3> QED  BY <1>0, <3>2, <3>3, <3>4 DEF InboxInv
  <2>3. CASE GuildReturns
    <3>1. inbox' = Append(inbox, GuildCreated(guild)) /\ UNCHANGED <<pc, seen, last, calm>>
      BY <2>3 DEF GuildReturns, trackVars, userVars
    <3>2. GuildCreated(guild).kind # "reaction"
      BY DEF GuildCreated
    <3>3. Follows(inbox', last, calm)
      BY <1>0, <3>1, <3>2, FollowsNews
    <3>4. inbox # <<>> => inbox' # <<>> /\ inbox'[1] = inbox[1]
      BY <1>0, <3>1, GuildStays
    <3> QED  BY <1>0, <3>1, <3>3, <3>4 DEF InboxInv
  <2>4. CASE /\ UNCHANGED <<inbox, last, seen>>
             /\ pc' \in {"poll", "execute", "retry"} => pc \in {"poll", "execute", "retry"}
    <3>1. Follows(inbox, last, calm')
      BY <1>0, <2>0, FollowsLess
    <3> QED  BY <1>0, <2>4, <3>1 DEF InboxInv
  <2>5. ASSUME ReloadFails \/ ChangeGuild \/ LoseSession \/ Crash \/ EditConfig \/ UNCHANGED vars
               \/ \E a \in strays : StrayArrives(a)
        PROVE  /\ UNCHANGED <<inbox, last, seen>>
               /\ pc' \in {"poll", "execute", "retry"} => pc \in {"poll", "execute", "retry"}
    BY <2>5 DEF ReloadFails, ChangeGuild, LoseSession, Crash, EditConfig, StrayArrives, vars, userVars, trackVars
  <2> QED  BY <1>1, <2>1, <2>2, <2>3, <2>4, <2>5 DEF Leaves
<1>2. CASE Start
  <2>1. pc' = "connect" /\ UNCHANGED <<inbox, last>> /\ \A u \in Users : calm'[u] => calm[u]
    BY <1>2, StartMeans
  <2>2. Follows(inbox, last, calm')
    BY <1>0, <2>1, FollowsLess
  <2> QED  BY <2>1, <2>2 DEF InboxInv
<1>3. CASE Begins
  <2>1. /\ last' = last /\ pc = "poll" /\ \A u \in Users : calm'[u] => calm[u]
        /\ \/ inbox' = inbox /\ seen' = seen
           \/ inbox # <<>> /\ inbox' = Tail(inbox) /\ seen' # {}
    BY <1>3, BeginsMeans
  <2>2. CASE inbox' = inbox /\ seen' = seen
    <3>1. Follows(inbox, last, calm')
      BY <1>0, <2>1, FollowsLess
    <3> QED  BY <1>0, <2>1, <2>2, <3>1 DEF InboxInv
  <2>3. CASE inbox # <<>> /\ inbox' = Tail(inbox) /\ seen' # {}
    <3>1. Follows(Tail(inbox), last, calm')
      BY <1>0, <2>1, <2>3, FollowsTail
    <3> QED  BY <2>1, <2>3, <3>1 DEF InboxInv
  <2> QED  BY <2>1, <2>2, <2>3
<1>4. CASE HandleReaction
  <2>1. /\ last' = last /\ seen' = seen /\ seen # {} /\ inbox # <<>> /\ inbox' = Tail(inbox)
        /\ calm' = [u \in Users |-> IF u = inbox[1].user
                                    THEN ~Pending(u, Tail(inbox)) /\ ~Capped(OnReaction(inbox[1]))
                                    ELSE calm[u]]
    BY <1>4, HandleReactionMeans DEF userVars, trackVars
  <2>2. \A u \in Users : calm'[u] => calm[u] \/ ~Pending(u, Tail(inbox))
    BY <2>1, Zenon
  <2>3. Follows(Tail(inbox), last, calm')
    BY <1>0, <2>1, <2>2, FollowsTail
  <2> QED  BY <2>1, <2>3 DEF InboxInv
<1>5. CASE PostMessage
  <2>1. UNCHANGED <<inbox, last, calm, seen>> /\ pc = "execute"
    BY <1>5, PostMessageMeans DEF userVars, trackVars
  <2> QED  BY <1>0, <2>1 DEF InboxInv
<1>6. CASE Executes
  <2>1. /\ last' = last /\ seen' = seen /\ pc = "execute" /\ \A u \in Users : calm'[u] => calm[u]
        /\ \/ inbox' = inbox
           \/ \E e : inbox' = Append(inbox, e) /\ e.kind = "reaction" /\ e.user = Bot
    BY <1>6, ExecutesMeans DEF userVars, trackVars
  <2>2. Follows(inbox', last, calm)
    BY <1>0, <2>1, FollowsNews
  <2>3. Follows(inbox', last, calm')
    BY <2>1, <2>2, FollowsLess
  <2>4. inbox # <<>> => inbox' # <<>> /\ inbox'[1] = inbox[1]
    BY <1>0, <2>1, GuildStays
  <2> QED  BY <1>0, <2>1, <2>3, <2>4 DEF InboxInv
<1> QED  BY <1>1, <1>2, <1>3, <1>4, <1>5, <1>6, NextSteps

LEMMA BotStep ==
  ASSUME IInv, [Next]_vars
  PROVE  BotInv'
<1>0. BotInv /\ Bot \notin Users
  BY ReactionAssumption DEF IInv, ReactionAssumption
<1>1. CASE Leaves
  <2>1. CASE ChangeGuild
    <3>1. guild < Len(Guilds) /\ guild' = guild + 1 /\ held' \subseteq held /\ strays' = strays
      BY <2>1 DEF ChangeGuild
    <3>2. DOMAIN Guilds = 1..Len(Guilds) /\ Len(Guilds) \in Nat
      BY ReactionAssumption, ListIsSeq DEF ReactionAssumption
    <3>3. guild' \in DOMAIN Guilds
      BY <1>0, <3>1, <3>2 DEF BotInv
    <3> QED  BY <1>0, <3>1, <3>3 DEF BotInv
  <2>2. CASE \E a \in strays : StrayArrives(a)
    <3>1. PICK a \in strays : StrayArrives(a)
      BY <2>2
    <3>2. guild' = guild /\ strays' \subseteq strays /\ (held' \subseteq held \/ held' = held \cup {<<a.user, a.role>>})
      BY <3>1 DEF StrayArrives, CarryOut
    <3>3. a.user \in Users
      BY <1>0 DEF BotInv
    <3> QED  BY <1>0, <3>2, <3>3 DEF BotInv
  <2>3. CASE UNCHANGED <<guild, held, strays>>
    BY <1>0, <2>3 DEF BotInv
  <2>4. ChangeGuild \/ (\E a \in strays : StrayArrives(a)) \/ UNCHANGED <<guild, held, strays>>
    <3>1. ASSUME NEW resumed \in BOOLEAN, OpenSession(resumed)
          PROVE  UNCHANGED <<guild, held, strays>>
      BY <3>1 DEF OpenSession, worldVars
    <3>2. ASSUME NEW u \in Users, NEW m \in 1..posts \cup Others, NEW e \in Emojis, NEW added \in BOOLEAN,
                 React(u, m, e, added)
          PROVE  UNCHANGED <<guild, held, strays>>
      BY <3>2 DEF React
    <3>3. CASE ReloadFails \/ GuildReturns \/ LoseSession \/ Crash \/ EditConfig \/ UNCHANGED vars
      BY <3>3 DEF ReloadFails, GuildReturns, LoseSession, Crash, EditConfig, vars, worldVars
    <3> QED  BY <1>1, <3>1, <3>2, <3>3, Zenon DEF Leaves
  <2> QED  BY <2>1, <2>2, <2>3, <2>4
<1>2. CASE Start \/ Begins \/ HandleReaction \/ PostMessage
  <2>1. UNCHANGED <<guild, held, strays>>
    BY <1>2, StartMeans, BeginsMeans, HandleReactionMeans, PostMessageMeans DEF worldVars
  <2> QED  BY <1>0, <2>1 DEF BotInv
<1>3. CASE Executes
  <2>1. guild' = guild /\ This = queue[1] /\ 1 \in 1..Len(queue)
    BY <1>3, ExecutesMeans
  <2>2. CASE ChangeRole \/ ChangeRoleFails
    <3>1. This.kind \in {"add", "remove"}
      BY <2>2 DEF ChangeRole, ChangeRoleFails
    <3>2. IsRole(This)
      BY <2>1, <3>1, RoleIsQueued DEF IInv, QueueInv
    <3>3. This.user \in Users /\ Request = RoleAction(This.kind, This.user, Target(This))
      <4>1. This = [kind |-> This.kind, user |-> This.user, role |-> This.role] /\ This.user \in Users
        BY <3>2 DEF IsRole, RoleAction
      <4> DEFINE t == This
                 g == Target(t)
      <4>2. Request = [t EXCEPT !.role = g]
        BY DEF Request
      <4>3. t = [kind |-> t.kind, user |-> t.user, role |-> t.role]
        BY <4>1
      <4> HIDE DEF t, g
      <4>4. [t EXCEPT !.role = g] = [kind |-> t.kind, user |-> t.user, role |-> g]
        BY <4>3
      <4> QED  BY <4>1, <4>2, <4>4 DEF t, g, RoleAction
    <3>4. Request.user = This.user
      BY <3>3 DEF RoleAction
    <3>5. /\ held' \subseteq held \/ held' = held \cup {<<Request.user, Request.role>>}
          /\ strays' = strays \/ strays' = strays \cup {Request}
      BY <2>2 DEF ChangeRole, ChangeRoleFails, CarryOut
    <3> QED  BY <1>0, <2>1, <3>3, <3>4, <3>5 DEF BotInv
  <2>3. CASE SkipUnresolved \/ EditMessage \/ AddReaction \/ MessageRequestFails
    <3>1. UNCHANGED <<held, strays>>
      BY <2>3 DEF SkipUnresolved, EditMessage, AddReaction, MessageRequestFails, worldVars
    <3> QED  BY <1>0, <2>1, <3>1 DEF BotInv
  <2> QED  BY <1>3, <2>2, <2>3 DEF Executes
<1> QED  BY <1>1, <1>2, <1>3, NextSteps

-----------------------------------------------------------------------------
(* What people did last decides.                                           *)
LEMMA DecidedSame ==
  ASSUME NEW u \in Users, Decided(u), UNCHANGED <<bot, roles, managed, guild, queue, held>>, last'[u] = last[u]
  PROVE  Decided(u)'
<1>1. \A k : RoleBy(k)' = RoleBy(k) /\ WantedBy(u, k)' = WantedBy(u, k)
  BY DEF RoleBy, RoleOf, WantedBy, MessageOf
<1> QED  BY <1>1 DEF Decided

LEMMA OneMappingSame ==
  ASSUME UNCHANGED <<bot, roles>>, OneMappingPerRole'
  PROVE  OneMappingPerRole
BY DEF OneMappingPerRole, RoleOf

\* Nothing is left to do for this person; of the roles only what is not mapped may have changed.
LEMMA DecidedDone ==
  ASSUME NEW u \in Users, Decided(u), queue = <<>>, UNCHANGED <<bot, roles, managed, last>>,
         \A n \in 1..Len(queue') : ~QueuedFor(queue'[n], u),
         \A k \in DOMAIN Mappings(bot) : RoleBy(k) \in DOMAIN Guilds[guild'] =>
           /\ RoleBy(k) \in DOMAIN Guilds[guild]
           /\ <<u, RoleBy(k)>> \in held' <=> <<u, RoleBy(k)>> \in held
  PROVE  Decided(u)'
<1>1. \A k : RoleBy(k)' = RoleBy(k) /\ WantedBy(u, k)' = WantedBy(u, k)
  BY DEF RoleBy, RoleOf, WantedBy, MessageOf
<1>2. Len(queue) = 0 /\ 1..0 = {}
  OBVIOUS
<1>3. \A k \in DOMAIN Mappings(bot) : RoleBy(k) \in DOMAIN Guilds[guild] =>
        (<<u, RoleBy(k)>> \in held <=> WantedBy(u, k))
  BY <1>2 DEF Decided
<1> QED  BY <1>1, <1>3 DEF Decided

\* An action that is for the role of a mapping is for that of no other one.
LEMMA OnlyOneIsFor ==
  ASSUME RegistryInv, registry = Normalized(bot), OneMappingPerRole, BotInv, NEW r,
         NEW j \in DOMAIN Mappings(bot), NEW k \in DOMAIN Mappings(bot),
         r = BotOf(bot).mappings[j].role, RoleBy(k) \in DOMAIN Guilds[guild]
  PROVE  /\ Resolve(registry.roleIds, r) = RoleBy(j)
         /\ RoleBy(j) = RoleBy(k) <=> j = k
         /\ r = BotOf(bot).mappings[k].role <=> j = k
<1>1. /\ Resolve(registry.roleIds, BotOf(bot).mappings[j].role) = RoleBy(j)
      /\ Resolve(registry.roleIds, BotOf(bot).mappings[k].role) = RoleBy(k)
  BY RefsMean
<1>2. RoleBy(k) # 0
  BY ReactionAssumption DEF ReactionAssumption, BotInv
<1>3. RoleBy(j) = RoleBy(k) => j = k
  BY <1>2 DEF OneMappingPerRole, RoleBy
<1> QED  BY <1>1, <1>3

\* Whether a person has the role of a mapping, as long as the mapping is no business of this action.
Effect(a, u, k) ==
  IF QueuedFor(a, u) /\ IsFor(a, bot, k)
  THEN <<u, RoleBy(k)>> \in held' <=> a.kind = "add"
  ELSE <<u, RoleBy(k)>> \in held' <=> <<u, RoleBy(k)>> \in held

LEMMA TailDecides ==
  ASSUME NEW u \in Users, IInv, Decided(u), OneMappingPerRole, pc = "execute", queue # <<>>, NextAction,
         UNCHANGED <<bot, roles, guild>>,
         \A k \in DOMAIN Mappings(bot) : WantedBy(u, k)' = WantedBy(u, k),
         \A k \in DOMAIN Mappings(bot) : RoleBy(k) \in DOMAIN Guilds[guild] => Effect(queue[1], u, k)
  PROVE  Decided(u)'
<1>0. RegistryInv /\ registry = Normalized(bot) /\ BotInv
  BY DEF IInv, RegistryInv
<1>1. /\ IsList(queue') /\ Len(queue) \in Nat \ {0} /\ Len(queue') = Len(queue) - 1
      /\ \A i \in 1..Len(queue') : queue'[i] = queue[i + 1]
  BY TailList DEF NextAction, IInv, QueueInv, Queues
<1>2. \A k \in DOMAIN Mappings(bot) : RoleBy(k)' = RoleBy(k)
  BY DEF RoleBy, RoleOf
<1>3. ASSUME NEW n \in 1..Len(queue'), QueuedFor(queue'[n], u)
      PROVE  \E k \in DOMAIN Mappings(bot) :
               IsFor(queue'[n], bot, k) /\ (queue'[n].kind = "add" <=> WantedBy(u, k))
  <2>1. n + 1 \in 1..Len(queue) /\ queue'[n] = queue[n + 1]
    BY <1>1
  <2> QED  BY <1>3, <2>1 DEF Decided
<1>4. ASSUME NEW k \in DOMAIN Mappings(bot), RoleBy(k) \in DOMAIN Guilds[guild],
             ~\E n \in 1..Len(queue') : QueuedFor(queue'[n], u) /\ IsFor(queue'[n], bot, k)
      PROVE  <<u, RoleBy(k)>> \in held' <=> WantedBy(u, k)
  <2>1. ASSUME NEW n \in 1..Len(queue), n # 1
        PROVE  ~(QueuedFor(queue[n], u) /\ IsFor(queue[n], bot, k))
    <3>1. n - 1 \in 1..Len(queue') /\ (n - 1) + 1 = n
      BY <1>1, <2>1
    <3>2. queue'[n - 1] = queue[n]
      BY <1>1, <3>1
    <3> QED  BY <1>4, <3>1, <3>2
  <2>2. 1 \in 1..Len(queue)
    BY <1>1
  <2>3. CASE QueuedFor(queue[1], u) /\ IsFor(queue[1], bot, k)
    <3>1. PICK j \in DOMAIN Mappings(bot) :
            IsFor(queue[1], bot, j) /\ (queue[1].kind = "add" <=> WantedBy(u, j))
      BY <2>2, <2>3 DEF Decided
    <3> DEFINE r == queue[1].role
    <3>0. r = BotOf(bot).mappings[j].role /\ r = BotOf(bot).mappings[k].role
      BY <2>3, <3>1 DEF IsFor
    <3> HIDE DEF r
    <3>2. j = k
      BY <1>0, <1>4, <3>0, OnlyOneIsFor
    <3> QED  BY <1>4, <2>3, <3>1, <3>2 DEF Effect
  <2>4. CASE ~(QueuedFor(queue[1], u) /\ IsFor(queue[1], bot, k))
    <3>1. <<u, RoleBy(k)>> \in held <=> WantedBy(u, k)
      BY <1>4, <2>1, <2>4 DEF Decided
    <3> QED  BY <1>4, <2>4, <3>1 DEF Effect
  <2> QED  BY <2>3, <2>4
<1>5. \A k \in DOMAIN Mappings(bot) : WantedBy(u, k)' = WantedBy(u, k)
  OBVIOUS
<1>6. Mappings(bot)' = Mappings(bot) /\ Guilds[guild'] = Guilds[guild] /\ bot' = bot
  OBVIOUS
<1>7. \A n \in 1..Len(queue') : QueuedFor(queue'[n], u) =>
        \E k \in DOMAIN Mappings(bot') : IsFor(queue'[n], bot', k) /\ (queue'[n].kind = "add" <=> WantedBy(u, k)')
  BY ONLY <1>3, <1>5, <1>6 DEF Mappings
<1>8. \A k \in DOMAIN Mappings(bot') : RoleBy(k)' \in DOMAIN Guilds[guild'] =>
        \/ \E n \in 1..Len(queue') : QueuedFor(queue'[n], u) /\ IsFor(queue'[n], bot', k)
        \/ <<u, RoleBy(k)'>> \in held' <=> WantedBy(u, k)'
  BY ONLY <1>2, <1>4, <1>5, <1>6 DEF Mappings
<1> QED  BY <1>7, <1>8 DEF Decided, Mappings, IsFor, QueuedFor

\* A message that is posted now is none that people have reacted to.
LEMMA PostWantsNothing ==
  ASSUME PostMessage, IInv, NEW u \in Users, NEW k \in DOMAIN Mappings(bot)
  PROVE  WantedBy(u, k)' = WantedBy(u, k)
<1> DEFINE N == Name
           r == Mappings(bot)[k].message
<1>1. /\ N \in MessageNames /\ managed[N] = 0 /\ bot' = bot /\ last' = last
      /\ managed' = [managed EXCEPT ![N] = posts + 1] \/ managed' = managed
  BY PostMessageMeans DEF userVars
<1> HIDE DEF N
<1>2. DOMAIN managed = MessageNames /\ posts \in Nat
  BY DEF IInv, RegistryInv, UsersInv
<1>3. MessageOf(r)' = MessageOf(r) \/ (MessageOf(r)' = posts + 1 /\ MessageOf(r) = 0)
  <2>1. ~r.direct => r.is \in MessageNames
    BY MessageNameOf DEF IInv, RegistryInv
  <2> DEFINE i == r.is
  <2>2. i \in MessageNames => managed'[i] = managed[i] \/ (managed'[i] = posts + 1 /\ managed[i] = 0)
    <3> HIDE DEF i
    <3> QED  BY <1>1, <1>2
  <2>3. r' = r
    BY <1>1 DEF Mappings
  <2> QED  BY <2>1, <2>2, <2>3 DEF MessageOf
<1>4. last[u].added => last[u].message \in Int /\ last[u].message <= posts /\ last[u].message # 0
  BY DEF IInv, UsersInv
<1>5. \A m \in Int : m <= posts => m # posts + 1
  BY <1>2
<1>6. last[u].added => (MessageOf(r)' = last[u].message <=> MessageOf(r) = last[u].message)
  BY <1>3, <1>4, <1>5
<1>7. Mappings(bot)' = Mappings(bot)
  BY <1>1 DEF Mappings
<1>8. WantedBy(u, k)' = (last[u].added /\ Mappings(bot)[k].emoji = last[u].emoji /\ MessageOf(r)' = last[u].message)
  BY <1>1, <1>7 DEF WantedBy
<1>9. WantedBy(u, k) = (last[u].added /\ Mappings(bot)[k].emoji = last[u].emoji /\ MessageOf(r) = last[u].message)
  BY DEF WantedBy
<1> HIDE DEF r
<1> QED  BY <1>6, <1>8, <1>9

LEMMA ExecutesDecides ==
  ASSUME IInv, Executes, NEW u \in Users, calm'[u], Decided(u), OneMappingPerRole
  PROVE  Decided(u)'
<1>0. RegistryInv /\ registry = Normalized(bot) /\ BotInv /\ 0 \notin DOMAIN Guilds[guild]
  <2>1. pc = "execute"
    BY ExecutesMeans
  <2> QED  BY <2>1, ReactionAssumption DEF IInv, RegistryInv, BotInv, ReactionAssumption
<1>1. /\ UNCHANGED <<bot, roles, managed, guild, last>> /\ pc = "execute" /\ queue # <<>> /\ NextAction
      /\ This = queue[1] /\ 1 \in 1..Len(queue)
  BY ExecutesMeans DEF userVars
<1>2. \A k \in DOMAIN Mappings(bot) : WantedBy(u, k)' = WantedBy(u, k)
  BY <1>1 DEF WantedBy, MessageOf
<1> DEFINE a == queue[1]
<1>3. ASSUME NEW k \in DOMAIN Mappings(bot), RoleBy(k) \in DOMAIN Guilds[guild]
      PROVE  Effect(a, u, k)
  <2>1. CASE ChangeRole
    <3>1. IsRole(a) /\ a.kind \in {"add", "remove"} /\ Target(a) = Resolve(registry.roleIds, a.role)
      BY <1>1, <2>1, RoleIsQueued DEF IInv, QueueInv, ChangeRole, Target
    <3>2. Request.kind = a.kind /\ Request.user = a.user /\ Request.role = Target(a)
      <4> DEFINE t == Target(a)
      <4>1. a = [kind |-> a.kind, user |-> a.user, role |-> a.role] /\ Request = [a EXCEPT !.role = t]
        BY <1>1, <3>1 DEF IsRole, RoleAction, Request
      <4> HIDE DEF a, t
      <4>2. [a EXCEPT !.role = t] = [kind |-> a.kind, user |-> a.user, role |-> t]
        BY <4>1
      <4> QED  BY <4>1, <4>2 DEF t
    <3>3. held' = IF a.kind = "remove" THEN held \ {<<a.user, Target(a)>>}
                  ELSE IF Target(a) \in DOMAIN Guilds[guild] THEN held \cup {<<a.user, Target(a)>>} ELSE held
      BY <2>1, <3>2 DEF ChangeRole, CarryOut
    <3>4. CASE a.user # u
      BY <3>3, <3>4 DEF Effect, QueuedFor
    <3>5. CASE a.user = u
      <4>1. QueuedFor(a, u)
        BY <3>1, <3>5 DEF QueuedFor
      <4>2. PICK j \in DOMAIN Mappings(bot) : IsFor(a, bot, j)
        BY <1>1, <4>1 DEF Decided
      <4>3. Target(a) = RoleBy(j) /\ (RoleBy(j) = RoleBy(k) <=> j = k) /\ (IsFor(a, bot, k) <=> j = k)
        BY <1>0, <1>3, <3>1, <4>2, OnlyOneIsFor DEF IsFor
      <4>4. CASE j = k
        <5>1. <<u, RoleBy(k)>> \in held' <=> a.kind = "add"
          BY <1>3, <3>1, <3>3, <3>5, <4>3, <4>4
        <5> QED  BY <4>1, <4>3, <4>4, <5>1 DEF Effect
      <4>5. CASE j # k
        <5>1. <<u, RoleBy(k)>> \in held' <=> <<u, RoleBy(k)>> \in held
          BY <3>3, <4>3, <4>5
        <5> QED  BY <4>3, <4>5, <5>1 DEF Effect
      <4> QED  BY <4>4, <4>5
    <3> QED  BY <3>4, <3>5
  <2>2. CASE SkipUnresolved
    <3>1. held' = held
      BY <2>2 DEF SkipUnresolved, worldVars
    <3>2. ASSUME QueuedFor(a, u), IsFor(a, bot, k)
          PROVE  FALSE
      <4>1. Target(a) = Resolve(registry.roleIds, a.role) /\ Target(a) = 0
        BY <1>1, <2>2, <3>2 DEF QueuedFor, SkipUnresolved, Resolved, Target
      <4>2. Resolve(registry.roleIds, a.role) = RoleBy(k)
        BY <1>0, <1>3, <3>2, OnlyOneIsFor DEF IsFor
      <4> QED  BY <1>0, <1>3, <4>1, <4>2
    <3> QED  BY <3>1, <3>2 DEF Effect
  <2>3. CASE ChangeRoleFails
    <3>1. held' = held /\ calm' = [calm EXCEPT ![a.user] = FALSE]
      BY <1>1, <2>3 DEF ChangeRoleFails
    <3>2. a.user # u
      <4>1. calm \in [Users -> BOOLEAN]
        BY DEF IInv, UsersInv
      <4> QED  BY <3>1, <4>1
    <3> QED  BY <3>1, <3>2 DEF Effect, QueuedFor
  <2>4. CASE EditMessage \/ AddReaction \/ MessageRequestFails
    <3>1. held' = held /\ a.kind \in {"post", "seed"}
      BY <1>1, <2>4 DEF EditMessage, AddReaction, MessageRequestFails, worldVars
    <3> QED  BY <3>1 DEF Effect, QueuedFor
  <2> QED  BY <2>1, <2>2, <2>3, <2>4 DEF Executes
<1> HIDE DEF a
<1>4. \A k \in DOMAIN Mappings(bot) : RoleBy(k) \in DOMAIN Guilds[guild] => Effect(queue[1], u, k)
  BY <1>3 DEF a
<1> QED  BY <1>1, <1>2, <1>4, TailDecides

\* Roles that are mapped and exist have existed before, and people have those they had.
LEMMA DecidedKept ==
  ASSUME NEW u \in Users, Decided(u), UNCHANGED <<bot, roles, managed, last, queue>>,
         \A k \in DOMAIN Mappings(bot) : RoleBy(k) \in DOMAIN Guilds[guild'] =>
           /\ RoleBy(k) \in DOMAIN Guilds[guild]
           /\ <<u, RoleBy(k)>> \in held' <=> <<u, RoleBy(k)>> \in held
  PROVE  Decided(u)'
<1>1. \A k : RoleBy(k)' = RoleBy(k) /\ WantedBy(u, k)' = WantedBy(u, k)
  BY DEF RoleBy, RoleOf, WantedBy, MessageOf
<1> QED  BY <1>1 DEF Decided

LEMMA LeavesDecides ==
  ASSUME IInv, Leaves, NEW u \in Users, calm'[u], Decided(u)
  PROVE  Decided(u)'
<1>1. UNCHANGED <<bot, roles, managed>>
  BY LeavesMeans DEF botVars, stateVars
<1>0. calm \in [Users -> BOOLEAN]
  BY DEF IInv, UsersInv
<1>2. CASE ChangeGuild
  <2> DEFINE P == \A m \in Range(Mappings(bot)) :
                    RoleOf(m.role) \in DOMAIN Guilds[guild'] => RoleOf(m.role) \in DOMAIN Guilds[guild]
  <2>1. /\ StaysCalm(P) /\ queue' = queue /\ last' = last
        /\ held' = {h \in held : h[2] \in DOMAIN Guilds[guild']}
    BY <1>2 DEF ChangeGuild, userVars
  <2>2. P
    <3> HIDE DEF P
    <3> QED  BY <1>0, <2>1, Zenon DEF StaysCalm
  <2>3. \A k \in DOMAIN Mappings(bot) : RoleBy(k) \in DOMAIN Guilds[guild'] => RoleBy(k) \in DOMAIN Guilds[guild]
    BY <2>2 DEF RoleBy, Range
  <2>4. \A r \in DOMAIN Guilds[guild'] : <<u, r>> \in held' <=> <<u, r>> \in held
    BY <2>1
  <2> QED  BY <1>1, <2>1, <2>3, <2>4, DecidedKept
<1>3. CASE \E a \in strays : StrayArrives(a)
  <2>1. PICK a \in strays : StrayArrives(a)
    BY <1>3
  <2>2. /\ calm' = [calm EXCEPT ![a.user] = FALSE] /\ UNCHANGED <<queue, last, guild>>
        /\ held' = held \ {<<a.user, a.role>>} \/ held' = held \cup {<<a.user, a.role>>} \/ held' = held
    BY <2>1 DEF StrayArrives, CarryOut, userVars
  <2>3. a.user # u
    BY <1>0, <2>2
  <2>4. \A r : <<u, r>> \in held' <=> <<u, r>> \in held
    BY <2>2, <2>3
  <2> QED  BY <1>1, <2>2, <2>4, DecidedKept
<1>4. CASE UNCHANGED <<guild, held>> /\ last'[u] = last[u] /\ queue' = queue
  BY <1>1, <1>4, DecidedSame
<1>5. CASE \E v \in Users, m \in 1..posts \cup Others, e \in Emojis, added \in BOOLEAN : React(v, m, e, added)
  <2>1. PICK v \in Users, m \in 1..posts \cup Others, e \in Emojis, added \in BOOLEAN : React(v, m, e, added)
    BY <1>5
  <2>2. /\ UNCHANGED <<guild, held, queue>> /\ calm' = [calm EXCEPT ![v] = FALSE]
        /\ last' = [last EXCEPT ![v] = [message |-> m, emoji |-> e, added |-> added]]
    BY <2>1 DEF React
  <2>3. v # u
    BY <1>0, <2>2
  <2>4. last'[u] = last[u]
    <3> DEFINE act == [message |-> m, emoji |-> e, added |-> added]
    <3>1. last' = [last EXCEPT ![v] = act] /\ DOMAIN last = Users
      BY <2>2 DEF IInv, UsersInv
    <3> HIDE DEF act
    <3> QED  BY <2>3, <3>1
  <2> QED  BY <1>4, <2>2, <2>4
<1>6. CASE Crash
  <2>1. UNCHANGED <<guild, held, last>> /\ queue' = <<>> /\ StaysCalm(pc # "execute")
    BY <1>6 DEF Crash, worldVars, userVars
  <2>2. pc # "execute"
    BY <1>0, <2>1, Zenon DEF StaysCalm
  <2>3. queue = <<>>
    BY <2>2 DEF IInv, QueueInv
  <2> QED  BY <1>4, <2>1, <2>3
<1>7. CASE \/ \E resumed \in BOOLEAN : OpenSession(resumed)
           \/ ReloadFails \/ GuildReturns \/ LoseSession \/ EditConfig
           \/ UNCHANGED vars
  BY <1>4, <1>7 DEF OpenSession, ReloadFails, GuildReturns, LoseSession, EditConfig, vars, worldVars, userVars
<1> QED  BY <1>2, <1>3, <1>5, <1>6, <1>7 DEF Leaves

LEMMA BeginsDecides ==
  ASSUME IInv, Begins, NEW u \in Users, Decided(u), UNCHANGED <<bot, roles>>
  PROVE  Decided(u)'
<1>1. /\ UNCHANGED <<managed, guild, held, last>> /\ queue = <<>>
      /\ \A n \in 1..Len(queue') : queue'[n].kind \in {"post", "seed"}
  BY BeginsMeans
<1>2. \A n \in 1..Len(queue') : ~QueuedFor(queue'[n], u)
  BY <1>1 DEF QueuedFor
<1> QED  BY <1>1, <1>2, DecidedDone

\* A mapping matches the reaction exactly if its role is wanted.
LEMMA MatchesWanted ==
  ASSUME RegistryInv, registry = Normalized(bot), UsersInv, NEW u \in Users, NEW k \in DOMAIN Mappings(bot),
         NEW e, e = Did(last, u)
  PROVE  (Matches(registry, BotOf(bot).mappings[k], e) /\ e.added) <=> WantedBy(u, k)
<1> DEFINE m == BotOf(bot).mappings[k]
           x == MessageOf(Mappings(bot)[k].message)
<1>1. Resolve(registry.messageIds, m.message) = x /\ m.emoji = Mappings(bot)[k].emoji
  BY RefsMean
<1>2. e.message = last[u].message /\ e.emoji = last[u].emoji /\ e.added = last[u].added
  BY DEF Did, Reaction
<1>3. Resolve(registry.messageIds, Direct(e.message)) = e.message
  BY DEF Resolve, Direct
<1>4. last[u].added => e.message # 0
  BY <1>2 DEF UsersInv
<1>5. e.message # 0 => (SameMessage(registry, m.message, Direct(e.message)) <=> x = e.message)
  BY <1>1, <1>3 DEF SameMessage
<1>6. Matches(registry, m, e) <=> SameMessage(registry, m.message, Direct(e.message)) /\ m.emoji = e.emoji
  BY DEF Matches
<1>7. WantedBy(u, k) <=> last[u].added /\ Mappings(bot)[k].emoji = last[u].emoji /\ x = last[u].message
  BY DEF WantedBy
<1> HIDE DEF m, x
<1> QED  BY <1>1, <1>2, <1>4, <1>5, <1>6, <1>7 DEF m

LEMMA ReactionDecides ==
  ASSUME IInv, HandleReaction, NEW u \in Users, calm'[u], calm[u] => Decided(u)
  PROVE  Decided(u)'
<1> DEFINE e == inbox[1]
           Q == OnReaction(e)
<1>1. /\ UNCHANGED <<bot, registry, roles, managed, guild, held, last>> /\ queue = <<>> /\ seen # {}
      /\ inbox # <<>> /\ e.kind = "reaction" /\ 1 \in 1..Len(inbox) /\ Enqueue(Q)
      /\ e.user # Bot => e.user \in Users
      /\ calm' = [w \in Users |-> IF w = e.user THEN ~Pending(w, Tail(inbox)) /\ ~Capped(Q) ELSE calm[w]]
  BY HandleReactionMeans DEF botVars, stateVars, worldVars, userVars
<1>2. RegistryInv /\ bot \in Versions /\ registry = Normalized(bot) /\ UsersInv /\ Bot \notin Users
  BY <1>1, ReactionAssumption DEF IInv, RegistryInv, ReactionAssumption
<1>3. /\ Queues(Q, bot) /\ \A n \in 1..Len(Q) : Q[n].user = e.user
      /\ e.user # Bot =>
           /\ Len(Q) = Len(Mappings(bot))
           /\ \A k \in DOMAIN Mappings(bot) :
                Q[k] = RoleAction(IF Matches(registry, BotOf(bot).mappings[k], e) /\ e.added
                                  THEN "add" ELSE "remove", e.user, BotOf(bot).mappings[k].role)
  BY <1>1, <1>2, ReactionQueues
<1>4. /\ \A n \in 1..Len(queue') : n \in 1..Len(Q) /\ queue'[n] = Q[n]
      /\ ~Capped(Q) => queue' = Q
  BY <1>1, <1>3, Enqueued
<1> HIDE DEF Q
<1>5. CASE e.user # u
  <2>1. calm[u]
    BY <1>1, <1>5, Zenon
  <2>2. \A n \in 1..Len(queue') : ~QueuedFor(queue'[n], u)
    BY <1>3, <1>4, <1>5 DEF QueuedFor
  <2> QED  BY <1>1, <2>1, <2>2, DecidedDone
<1>6. CASE e.user = u
  <2>1. ~Pending(u, Tail(inbox)) /\ ~Capped(Q)
    BY <1>1, <1>6, Zenon
  <2>2. e = Did(last, u)
    <3>0. IsList(inbox)
      BY DEF IInv, InboxInv, Follows
    <3>1. Later(inbox, u, 1) \/ e = Did(last, u)
      BY <1>1, <1>2, <1>6 DEF IInv, InboxInv, Follows
    <3>2. ASSUME Later(inbox, u, 1)
          PROVE  Pending(u, Tail(inbox))
      <4> DEFINE t == Tail(inbox)
      <4>1. PICK k \in (1 + 1)..Len(inbox) : inbox[k].kind = "reaction" /\ inbox[k].user = u
        BY <3>2 DEF Later
      <4>2. /\ IsList(t) /\ Len(inbox) \in Nat \ {0} /\ Len(t) = Len(inbox) - 1
            /\ \A i \in 1..Len(t) : t[i] = inbox[i + 1]
        BY <1>1, <3>0, TailList
      <4>3. DOMAIN t = 1..Len(t)
        BY <4>2, ListIsSeq
      <4> HIDE DEF t
      <4>4. k - 1 \in 1..Len(t) /\ (k - 1) + 1 = k
        BY <4>2
      <4>5. t[k - 1] = inbox[k] /\ k - 1 \in DOMAIN t
        BY <4>2, <4>3, <4>4
      <4>6. inbox[k] \in Range(t)
        BY <4>5 DEF Range
      <4> QED  BY <4>1, <4>6 DEF Pending, t
    <3> QED  BY <2>1, <3>1, <3>2
  <2> HIDE DEF e
  <2>3. \A k \in DOMAIN Mappings(bot) :
          (Matches(registry, BotOf(bot).mappings[k], e) /\ e.added) <=> WantedBy(u, k)
    BY <1>2, <2>2, MatchesWanted
  <2>4. u # Bot /\ queue' = Q /\ DOMAIN Mappings(bot) = 1..Len(Q)
    BY <1>2, <1>3, <1>4, <1>6, <2>1, ConfigHas
  <2>5. \A k \in DOMAIN Mappings(bot) :
          /\ QueuedFor(Q[k], u) /\ IsFor(Q[k], bot, k) /\ (Q[k].kind = "add" <=> WantedBy(u, k))
    <3> SUFFICES ASSUME NEW k \in DOMAIN Mappings(bot)
                 PROVE  QueuedFor(Q[k], u) /\ IsFor(Q[k], bot, k) /\ (Q[k].kind = "add" <=> WantedBy(u, k))
      OBVIOUS
    <3> DEFINE kind == IF WantedBy(u, k) THEN "add" ELSE "remove"
    <3>1. Q[k] = RoleAction(kind, u, BotOf(bot).mappings[k].role)
      BY <1>3, <1>6, <2>3, <2>4
    <3>2. kind \in {"add", "remove"} /\ (kind = "add" <=> WantedBy(u, k))
      OBVIOUS
    <3> HIDE DEF kind
    <3>3. Q[k].kind = kind /\ Q[k].user = u /\ Q[k].role = BotOf(bot).mappings[k].role
      BY <3>1 DEF RoleAction
    <3> QED  BY <3>2, <3>3 DEF QueuedFor, IsFor
  <2>6. \A k : RoleBy(k)' = RoleBy(k) /\ WantedBy(u, k)' = WantedBy(u, k)
    BY <1>1 DEF RoleBy, RoleOf, WantedBy, MessageOf
  <2> QED  BY <1>1, <2>4, <2>5, <2>6 DEF Decided
<1> QED  BY <1>5, <1>6

LEMMA DecidedStep ==
  ASSUME IInv, [Next]_vars
  PROVE  DecidedInv'
<1> SUFFICES ASSUME OneMappingPerRole', NEW u \in Users, calm'[u]
             PROVE  Decided(u)'
  BY DEF DecidedInv
<1>1. UNCHANGED <<bot, roles>> /\ calm[u] => OneMappingPerRole /\ Decided(u)
  BY OneMappingSame DEF IInv, DecidedInv
<1>2. CASE Leaves
  BY <1>1, <1>2, LeavesMeans, LeavesDecides DEF botVars, stateVars
<1>3. CASE Start
  <2>1. UNCHANGED <<bot, roles, managed, guild, held, last>> /\ queue' = queue /\ calm[u]
    BY <1>3, StartMeans
  <2> QED  BY <1>1, <2>1, DecidedSame
<1>4. CASE Begins
  <2>1. UNCHANGED <<bot, roles>> /\ calm[u]
    BY <1>4, BeginsMeans
  <2> QED  BY <1>1, <1>4, <2>1, BeginsDecides
<1>5. CASE HandleReaction
  <2>1. UNCHANGED <<bot, roles>>
    BY <1>5, HandleReactionMeans DEF botVars, stateVars
  <2> QED  BY <1>1, <1>5, <2>1, ReactionDecides
<1>6. CASE PostMessage
  <2>1. /\ UNCHANGED <<bot, roles, guild, held>> /\ calm' = calm /\ pc = "execute" /\ queue # <<>> /\ NextAction
        /\ queue[1].kind = "post"
    BY <1>6, PostMessageMeans
  <2>2. Decided(u) /\ OneMappingPerRole
    BY <1>1, <2>1
  <2>3. \A k \in DOMAIN Mappings(bot) : Effect(queue[1], u, k)
    BY <2>1 DEF Effect, QueuedFor
  <2>4. \A k \in DOMAIN Mappings(bot) : WantedBy(u, k)' = WantedBy(u, k)
    BY <1>6, PostWantsNothing
  <2> QED  BY <2>1, <2>2, <2>3, <2>4, TailDecides
<1>7. CASE Executes
  <2>1. UNCHANGED <<bot, roles>> /\ calm[u]
    BY <1>7, ExecutesMeans
  <2> QED  BY <1>1, <1>7, <2>1, ExecutesDecides
<1> QED  BY <1>2, <1>3, <1>4, <1>5, <1>6, <1>7, NextSteps

-----------------------------------------------------------------------------
LEMMA InitHolds ==
  ASSUME Init
  PROVE  IInv
<1>1. /\ pc = "down" /\ file = 1 /\ bot = 1 /\ registry = Install(1) /\ seen = {}
      /\ managed = [n \in MessageNames |-> 0] /\ disk = [roles |-> roles, managed |-> managed]
      /\ queue = <<>> /\ inbox = <<>> /\ guild = 1 /\ posts = 0 /\ held = {} /\ strays = {}
      /\ last = [u \in Users |-> NothingDone] /\ calm = [u \in Users |-> FALSE]
  BY DEF Init
<1>2. 1 \in Versions /\ 1 \in DOMAIN Guilds
  BY ReactionAssumption DEF ReactionAssumption, Good
<1>3. Len(<<>>) = 0 /\ 1..0 = {} /\ IsList(<<>>) /\ Queues(<<>>, bot)
  BY NothingIsQueued DEF Queues
<1>4. RegistryInv
  BY <1>1, <1>2 DEF RegistryInv
<1>5. InboxInv
  BY <1>1, <1>3 DEF InboxInv, Follows
<1>6. UsersInv
  <2>1. DOMAIN last = Users /\ calm \in [Users -> BOOLEAN] /\ \A u \in Users : last[u].added = FALSE
    BY <1>1 DEF NothingDone
  <2> QED  BY <1>1, <2>1 DEF UsersInv
<1>7. QueueInv
  BY <1>1, <1>3 DEF QueueInv
<1>8. BotInv
  BY <1>1, <1>2 DEF BotInv
<1>9. DecidedInv
  BY <1>1 DEF DecidedInv
<1> QED  BY <1>4, <1>5, <1>6, <1>7, <1>8, <1>9 DEF IInv

LEMMA IInvHolds == Spec => []IInv
<1>1. Init => IInv
  BY InitHolds
<1>2. IInv /\ [Next]_vars => IInv'
  <2> SUFFICES ASSUME IInv, [Next]_vars
               PROVE  IInv'
    OBVIOUS
  <2>1. RegistryInv' /\ InboxInv' /\ UsersInv' /\ QueueInv' /\ BotInv' /\ DecidedInv'
    BY RegistryStep, InboxStep, UsersStep, QueueStep, BotStep, DecidedStep
  <2> QED  BY <2>1 DEF IInv
<1> QED  BY <1>1, <1>2, PTL DEF Spec

(* The bot's references mean what the names of its configuration mean, in  *)
(* every session, whatever was reloaded, rejected, posted or lost          *)
(* (refs.rs:116-131, runner.rs:249-264).                                   *)
THEOREM RefsKeepMeaning == Spec => []RefsMeanNames
<1>1. IInv => RefsMeanNames
  <2> SUFFICES ASSUME IInv, seen # {}, NEW k \in DOMAIN Mappings(bot)
               PROVE  /\ Resolve(registry.roleIds, BotOf(bot).mappings[k].role) = RoleOf(Mappings(bot)[k].role)
                      /\ Resolve(registry.messageIds, BotOf(bot).mappings[k].message)
                           = MessageOf(Mappings(bot)[k].message)
    BY DEF RefsMeanNames
  <2>1. RegistryInv /\ registry = Normalized(bot)
    BY DEF IInv, RegistryInv
  <2> QED  BY <2>1, RefsMean DEF RoleBy
<1> QED  BY <1>1, IInvHolds, PTL

(* While no role is mapped twice, the last reaction a person made or       *)
(* withdrew decides which of the mapped roles it holds once it is handled, *)
(* whatever failed, came late or was restarted before; the bot never gets  *)
(* a role (kippe/src/main.rs:54-60, runner.rs:366-425).                    *)
THEOREM LastReactionCounts == Spec => []LastReactionDecides
<1>1. IInv => LastReactionDecides
  <2> SUFFICES ASSUME IInv, OneMappingPerRole
               PROVE  LastReactionDecidesAlways
    BY DEF LastReactionDecides
  <2>1. RolesOf(Bot) = {}
    BY DEF IInv, BotInv, RolesOf
  <2>2. ASSUME pc = "poll", NEW u \in Users, calm[u]
        PROVE  RolesOf(u) \cap Mapped = Earned(u) \cap Mapped
    <3>1. Decided(u)
      BY <2>2 DEF IInv, DecidedInv
    <3>2. Len(queue) = 0 /\ 1..0 = {} /\ 0 \notin DOMAIN Guilds[guild]
      BY <2>2, ReactionAssumption DEF IInv, QueueInv, BotInv, ReactionAssumption
    <3>3. \A k \in DOMAIN Mappings(bot) : RoleBy(k) \in DOMAIN Guilds[guild] =>
            (<<u, RoleBy(k)>> \in held <=> WantedBy(u, k))
      BY <3>1, <3>2 DEF Decided
    <3>4. \A x : x \in Mapped <=> x \in DOMAIN Guilds[guild] /\ \E k \in DOMAIN Mappings(bot) : x = RoleBy(k)
      BY DEF Mapped, Range, RoleBy
    <3>5. \A x : x \in RolesOf(u) <=> <<u, x>> \in held
      BY DEF RolesOf, IInv, BotInv
    <3>6. \A x : x \in Earned(u) <=> \E k \in DOMAIN Mappings(bot) : x = RoleBy(k) /\ WantedBy(u, k)
      BY DEF Earned, Range, RoleBy, WantedBy
    <3>7. \A j, k \in DOMAIN Mappings(bot) : RoleBy(j) = RoleBy(k) /\ RoleBy(j) # 0 => j = k
      BY DEF OneMappingPerRole, RoleBy
    <3>8. ASSUME NEW x \in Mapped
          PROVE  x \in RolesOf(u) <=> x \in Earned(u)
      <4>1. PICK k \in DOMAIN Mappings(bot) : x = RoleBy(k) /\ x \in DOMAIN Guilds[guild] /\ x # 0
        BY <3>2, <3>4, <3>8
      <4>2. x \in Earned(u) <=> WantedBy(u, k)
        BY <3>6, <3>7, <4>1
      <4> QED  BY <3>3, <3>5, <4>1, <4>2
    <3> QED  BY <3>8
  <2> QED  BY <2>1, <2>2 DEF LastReactionDecidesAlways
<1> QED  BY <1>1, IInvHolds, PTL

-----------------------------------------------------------------------------
(* The tracker.                                                            *)

\* The lists are seen in the order in which they were made.
ListsInv ==
  /\ \A g \in seen : g \in 1..guild
  /\ \A n \in 1..Len(inbox) : inbox[n].kind = "guild" =>
       /\ inbox[n].guild \in 1..guild
       /\ \A g \in seen : g <= inbox[n].guild
       /\ \A m \in 1..n : inbox[m].kind = "guild" => inbox[m].guild <= inbox[n].guild

\* A role is known by the name it had in the first list that showed it.
ShownFirst(r, lists) ==
  \E g \in lists : /\ r.id \in DOMAIN Guilds[g] /\ r.name = Guilds[g][r.id]
                   /\ \A e \in lists : r.id \in DOMAIN Guilds[e] => g <= e

\* The tracker knows the roles of the lists it has seen, and no others.
KnownInv ==
  /\ \A r \in known : ShownFirst(r, seen)
  /\ \A g \in seen : \A i \in DOMAIN Guilds[g] : \E r \in known : r.id = i

TrackInv == ListsInv /\ KnownInv

LEMMA KnownStays ==
  ASSUME KnownInv, UNCHANGED <<known, seen>>
  PROVE  KnownInv'
BY DEF KnownInv, ShownFirst

\* A dispatch that is handled, and is no list or is the one that is added to those seen.
LEMMA ListsTail ==
  ASSUME IInv, ListsInv, inbox # <<>>, inbox' = Tail(inbox), guild' = guild,
         IF inbox[1].kind = "guild" THEN seen' = seen \cup {inbox[1].guild} ELSE seen' = seen
  PROVE  ListsInv'
<1>1. /\ Len(inbox) \in Nat \ {0} /\ Len(inbox') = Len(inbox) - 1
      /\ \A i \in 1..Len(inbox') : inbox'[i] = inbox[i + 1]
  BY TailList DEF IInv, InboxInv, Follows
<1>2. /\ 1 \in 1..Len(inbox)
      /\ \A n \in 1..Len(inbox') : n + 1 \in 1..Len(inbox) /\ 1 \in 1..(n + 1)
                                   /\ \A m \in 1..n : m + 1 \in 1..(n + 1) /\ m \in 1..Len(inbox')
  BY <1>1
<1>3. \A g \in seen' : g \in 1..guild
  BY <1>2 DEF ListsInv
<1>4. ASSUME NEW n \in 1..Len(inbox'), inbox'[n].kind = "guild"
      PROVE  /\ inbox'[n].guild \in 1..guild
             /\ \A g \in seen' : g <= inbox'[n].guild
             /\ \A m \in 1..n : inbox'[m].kind = "guild" => inbox'[m].guild <= inbox'[n].guild
  <2>1. inbox'[n] = inbox[n + 1] /\ n + 1 \in 1..Len(inbox) /\ inbox[n + 1].kind = "guild"
    BY <1>1, <1>2, <1>4
  <2>2. /\ inbox[n + 1].guild \in 1..guild
        /\ \A g \in seen : g <= inbox[n + 1].guild
        /\ \A m \in 1..(n + 1) : inbox[m].kind = "guild" => inbox[m].guild <= inbox[n + 1].guild
    BY <2>1 DEF ListsInv
  <2>3. \A g \in seen' : g <= inbox[n + 1].guild
    BY <1>2, <2>2
  <2>4. \A m \in 1..n : inbox'[m] = inbox[m + 1] /\ m + 1 \in 1..(n + 1)
    BY <1>1, <1>2
  <2> QED  BY <2>1, <2>2, <2>3, <2>4
<1> QED  BY <1>3, <1>4 DEF ListsInv

\* A dispatch that is none of a list, or of the present one.
LEMMA ListsAppend ==
  ASSUME IInv, ListsInv, NEW e, inbox' = Append(inbox, e), UNCHANGED <<seen, guild>>,
         e.kind = "guild" => e.guild = guild
  PROVE  ListsInv'
<1>1. /\ Len(inbox) \in Nat /\ Len(inbox') = Len(inbox) + 1
      /\ \A i \in 1..Len(inbox) : inbox'[i] = inbox[i]
      /\ inbox'[Len(inbox) + 1] = e
  BY AppendList DEF IInv, InboxInv, Follows
<1>2. guild \in Nat \ {0}
  BY ReactionAssumption DEF IInv, BotInv, ReactionAssumption, IsList
<1>3. ASSUME NEW n \in 1..Len(inbox')
      PROVE  /\ n \in 1..Len(inbox) \/ n = Len(inbox) + 1
             /\ \A m \in 1..n : m \in 1..Len(inbox) \/ m = Len(inbox) + 1
             /\ n \in 1..Len(inbox) => \A m \in 1..n : m \in 1..Len(inbox)
  BY <1>1
<1>4. ASSUME NEW n \in 1..Len(inbox'), inbox'[n].kind = "guild"
      PROVE  /\ inbox'[n].guild \in 1..guild
             /\ \A g \in seen : g <= inbox'[n].guild
             /\ \A m \in 1..n : inbox'[m].kind = "guild" => inbox'[m].guild <= inbox'[n].guild
  <2>1. CASE n \in 1..Len(inbox)
    BY <1>1, <1>3, <1>4, <2>1 DEF ListsInv
  <2>2. CASE n = Len(inbox) + 1
    <3>1. inbox'[n].guild = guild
      BY <1>1, <1>4, <2>2
    <3>2. \A m \in 1..Len(inbox) : inbox[m].kind = "guild" => inbox[m].guild \in 1..guild
      BY DEF ListsInv
    <3>3. \A m \in 1..n : inbox'[m].kind = "guild" => inbox'[m].guild \in 1..guild
      BY <1>1, <1>2, <1>3, <2>2, <3>1, <3>2
    <3> QED  BY <1>2, <3>1, <3>3 DEF ListsInv
  <2> QED  BY <1>3, <2>1, <2>2
<1> QED  BY <1>4 DEF ListsInv

\* A list that is handled adds to the tracker what it shows for the first time.
LEMMA KnownGrows ==
  ASSUME KnownInv, NEW g \in Nat, \A e \in seen : e \in Nat /\ e <= g,
         known' = LoadGuild(g), seen' = seen \cup {g}
  PROVE  KnownInv'
<1>1. known' = known \cup {[id |-> i, name |-> Guilds[g][i]] :
                           i \in {j \in DOMAIN Guilds[g] : \A r \in known : r.id # j}}
  BY DEF LoadGuild
<1>2. \A i : [id |-> i, name |-> Guilds[g][i]].id = i /\ [id |-> i, name |-> Guilds[g][i]].name = Guilds[g][i]
  OBVIOUS
<1>3. ASSUME NEW r \in known
      PROVE  ShownFirst(r, seen')
  <2>1. PICK h \in seen : /\ r.id \in DOMAIN Guilds[h] /\ r.name = Guilds[h][r.id]
                          /\ \A e \in seen : r.id \in DOMAIN Guilds[e] => h <= e
    BY DEF KnownInv, ShownFirst
  <2> QED  BY <2>1 DEF ShownFirst
<1>4. ASSUME NEW i \in DOMAIN Guilds[g], \A r \in known : r.id # i
      PROVE  ShownFirst([id |-> i, name |-> Guilds[g][i]], seen')
  <2>1. \A e \in seen : i \notin DOMAIN Guilds[e]
    BY <1>4 DEF KnownInv
  <2>2. \A e \in seen' : i \in DOMAIN Guilds[e] => g <= e
    BY <2>1
  <2> QED  BY <1>2, <2>2 DEF ShownFirst
<1>5. \A r \in known' : ShownFirst(r, seen')
  BY <1>1, <1>3, <1>4
<1>6. ASSUME NEW i \in DOMAIN Guilds[g]
      PROVE  \E r \in known' : r.id = i
  <2>1. CASE \A r \in known : r.id # i
    <3>1. [id |-> i, name |-> Guilds[g][i]] \in known'
      BY <1>1, <2>1
    <3> QED  BY <1>2, <3>1
  <2>2. CASE \E r \in known : r.id = i
    BY <1>1, <2>2
  <2> QED  BY <2>1, <2>2
<1>7. known \subseteq known'
  BY <1>1
<1> QED  BY <1>5, <1>6, <1>7 DEF KnownInv

LEMMA TrackStep ==
  ASSUME IInv, TrackInv, [Next]_vars
  PROVE  TrackInv'
<1>0. IsList(inbox) /\ guild \in DOMAIN Guilds /\ guild \in Nat \ {0}
  BY ReactionAssumption DEF IInv, InboxInv, Follows, BotInv, ReactionAssumption, IsList
<1>1. CASE UNCHANGED <<known, seen, inbox>> /\ guild' \in {guild, guild + 1}
  <2>1. 1..guild \subseteq 1..guild'
    BY <1>0, <1>1
  <2>2. ListsInv'
    BY <1>1, <2>1 DEF TrackInv, ListsInv
  <2> QED  BY <1>1, <2>2, KnownStays DEF TrackInv
<1>2. ASSUME NEW e, inbox' = Append(inbox, e), UNCHANGED <<known, seen, guild>>,
             e.kind = "guild" => e.guild = guild
      PROVE  TrackInv'
  BY <1>2, ListsAppend, KnownStays DEF TrackInv
<1>3. ASSUME inbox # <<>>, inbox' = Tail(inbox), inbox[1].kind # "guild", UNCHANGED <<known, seen, guild>>
      PROVE  TrackInv'
  BY <1>3, ListsTail, KnownStays DEF TrackInv
<1>30. inbox # <<>> => Head(inbox) = inbox[1]
  BY <1>0, TailList
<1>31. ASSUME known' = {}, seen' = {}, guild' = guild,
              inbox' = inbox \/ inbox' = <<GuildCreated(guild)>>
       PROVE  TrackInv'
  <2>1. KnownInv'
    BY <1>31 DEF KnownInv
  <2>2. CASE inbox' = inbox
    BY <1>31, <2>1, <2>2 DEF TrackInv, ListsInv
  <2>3. CASE inbox' = <<GuildCreated(guild)>>
    <3>1. Len(inbox') = 1 /\ inbox'[1].guild = guild
      BY <2>3 DEF GuildCreated
    <3>2. \A n \in 1..Len(inbox') : n = 1 /\ \A m \in 1..n : m = 1
      BY <3>1
    <3> QED  BY <1>0, <1>31, <2>1, <3>1, <3>2 DEF TrackInv, ListsInv
  <2> QED  BY <1>31, <2>2, <2>3
<1>4. CASE Leaves
  <2>1. CASE \E resumed \in BOOLEAN : OpenSession(resumed)
    <3>1. PICK resumed \in BOOLEAN : OpenSession(resumed)
      BY <2>1
    <3>2. CASE resumed
      BY <1>2, <3>1, <3>2 DEF OpenSession, trackVars, SessionResumed
    <3>3. CASE ~resumed
      <4>1. inbox' = <<GuildCreated(guild)>> /\ known' = {} /\ seen' = {} /\ guild' = guild
        BY <3>1, <3>3 DEF OpenSession
      <4> QED  BY <1>31, <4>1
    <3> QED  BY <3>2, <3>3
  <2>2. CASE \E u \in Users, m \in 1..posts \cup Others, e \in Emojis, added \in BOOLEAN : React(u, m, e, added)
    <3>1. PICK u \in Users, m \in 1..posts \cup Others, e \in Emojis, added \in BOOLEAN : React(u, m, e, added)
      BY <2>2
    <3>2. inbox' = Append(inbox, Reaction(u, m, e, added)) /\ UNCHANGED <<known, seen, guild>>
      BY <3>1 DEF React, trackVars
    <3>3. Reaction(u, m, e, added).kind # "guild"
      BY DEF Reaction
    <3> QED  BY <1>2, <3>2, <3>3
  <2>3. CASE GuildReturns
    BY <1>0, <1>2, <2>3 DEF GuildReturns, trackVars, GuildCreated
  <2>4. CASE ReloadFails \/ ChangeGuild \/ LoseSession \/ Crash \/ EditConfig \/ UNCHANGED vars
             \/ \E a \in strays : StrayArrives(a)
    BY <1>1, <2>4 DEF ReloadFails, ChangeGuild, LoseSession, Crash, EditConfig, StrayArrives, vars, trackVars
  <2> QED  BY <1>4, <2>1, <2>2, <2>3, <2>4 DEF Leaves
<1>5. CASE Start
  <2>1. known' = {} /\ seen' = {} /\ inbox' = inbox /\ guild' = guild
    BY <1>5 DEF Start
  <2> QED  BY <1>31, <2>1
<1>6. CASE Begins
  <2>1. guild' = guild
    BY <1>6 DEF Begins, Reload, HandleGuild, HandleResumed, Started
  <2>2. CASE Reload
    BY <1>1, <2>1, <2>2 DEF Reload, trackVars
  <2>3. CASE HandleResumed
    BY <1>3, <1>30, <2>1, <2>3 DEF HandleResumed, trackVars
  <2>4. CASE HandleGuild
    <3>1. inbox # <<>> /\ inbox[1].kind = "guild" /\ inbox' = Tail(inbox)
          /\ known' = LoadGuild(inbox[1].guild) /\ seen' = seen \cup {inbox[1].guild}
      BY <1>30, <2>4 DEF HandleGuild
    <3>2. ListsInv'
      BY <2>1, <3>1, ListsTail DEF TrackInv
    <3>3. Len(inbox) \in Nat \ {0}
      BY <1>0, <3>1, TailList
    <3>4. inbox[1].guild \in Nat /\ \A e \in seen : e \in Nat /\ e <= inbox[1].guild
      BY <3>1, <3>3 DEF TrackInv, ListsInv
    <3>5. KnownInv'
      BY <3>1, <3>4, KnownGrows DEF TrackInv
    <3> QED  BY <3>2, <3>5 DEF TrackInv
  <2> QED  BY <1>6, <2>2, <2>3, <2>4 DEF Begins
<1>7. CASE HandleReaction
  <2>1. /\ inbox # <<>> /\ inbox[1].kind # "guild" /\ inbox' = Tail(inbox) /\ UNCHANGED <<known, seen, guild>>
    BY <1>7, <1>30 DEF HandleReaction, trackVars
  <2> QED  BY <1>3, <2>1
<1>8. CASE PostMessage
  <2>1. UNCHANGED <<known, seen, inbox, guild>>
    BY <1>8 DEF PostMessage, trackVars
  <2> QED  BY <1>1, <2>1
<1>9. CASE Executes
  <2>1. UNCHANGED <<known, seen, guild>> /\ (inbox' = inbox \/ \E e : inbox' = Append(inbox, e) /\ e.kind = "reaction")
    BY <1>9, ExecutesMeans DEF trackVars
  <2> QED  BY <1>1, <1>2, <2>1
<1> QED  BY <1>4, <1>5, <1>6, <1>7, <1>8, <1>9, NextSteps

\* What the tracker has under a name are the roles that were brought under it.
LEMMA KnownAre ==
  ASSUME NEW tracked, NEW lists, lists \subseteq Nat, NEW n,
         \A r \in tracked : ShownFirst(r, lists),
         \A g \in lists : \A i \in DOMAIN Guilds[g] : \E r \in tracked : r.id = i
  PROVE  {r.id : r \in {s \in tracked : s.name = n}} = BroughtAs(n, lists)
<1> DEFINE bearers == {r.id : r \in {s \in tracked : s.name = n}}
<1>0. \A e \in lists : e \in Nat
  OBVIOUS
<1>1. ASSUME NEW r \in tracked, r.name = n
      PROVE  r.id \in BroughtAs(n, lists)
  <2>1. PICK g \in lists : /\ r.id \in DOMAIN Guilds[g] /\ r.name = Guilds[g][r.id]
                          /\ \A e \in lists : r.id \in DOMAIN Guilds[e] => g <= e
    BY DEF ShownFirst
  <2>2. r.id \in Bearers(g, n)
    BY <1>1, <2>1 DEF Bearers
  <2>3. \A e \in lists : ~(e < g /\ r.id \in DOMAIN Guilds[e])
    BY <1>0, <2>1
  <2> QED  BY <2>2, <2>3 DEF BroughtAs
<1>2. ASSUME NEW j \in BroughtAs(n, lists)
      PROVE  j \in bearers
  <2>1. PICK g \in lists : /\ j \in Bearers(g, n)
                          /\ \A e \in lists : e < g /\ j \in DOMAIN Guilds[e] => j \in Bearers(e, n)
    BY DEF BroughtAs
  <2>2. j \in DOMAIN Guilds[g]
    BY <2>1 DEF Bearers
  <2>3. PICK r \in tracked : r.id = j
    BY <2>2
  <2>4. PICK h \in lists : /\ j \in DOMAIN Guilds[h] /\ r.name = Guilds[h][j]
                          /\ \A e \in lists : j \in DOMAIN Guilds[e] => h <= e
    BY <2>3 DEF ShownFirst
  <2>5. h = g \/ h < g
    BY <1>0, <2>2, <2>4
  <2>6. j \in Bearers(h, n)
    BY <2>1, <2>4, <2>5
  <2>7. r.name = n
    BY <2>4, <2>6 DEF Bearers
  <2> QED  BY <2>3, <2>7
<1> QED  BY <1>1, <1>2

\* The only steps of a running bot that take an id for a name are those that end in Started.
LEMMA FoundAlone ==
  ASSUME Begins, TrackInv', NEW n \in RoleNames
  PROVE  IF roles[n] = 0
         THEN roles'[n] # 0 => BroughtAs(n, seen') = {roles'[n]}
         ELSE roles'[n] = roles[n]
<1>1. PICK reg : roles' = [m \in RoleNames |->
                            IF roles[m] = 0 /\ m \in Range(reg.roles) THEN FromTracker(known', m) ELSE roles[m]]
  <2>1. \E v, reg : Started(v, reg)
    BY DEF Begins, Reload, HandleGuild, HandleResumed
  <2> QED  BY <2>1 DEF Started
<1>2. CASE roles[n] # 0
  BY <1>1, <1>2
<1>3. CASE roles[n] = 0
  <2> SUFFICES ASSUME roles'[n] # 0
               PROVE  BroughtAs(n, seen') = {roles'[n]}
    BY <1>3
  <2>1. roles'[n] = FromTracker(known', n)
    BY <1>1, <1>3
  <2> DEFINE bearers == {r.id : r \in {s \in known' : s.name = n}}
  <2>2. PICK i \in bearers : bearers = {i} /\ roles'[n] = i
    BY <2>1 DEF FromTracker
  <2>3. bearers = BroughtAs(n, seen')
    <3>1. \A g \in seen' : g \in Nat
      BY DEF TrackInv, ListsInv
    <3> QED  BY <3>1, KnownAre DEF TrackInv, KnownInv
  <2> QED  BY <2>2, <2>3
<1> QED  BY <1>2, <1>3

(* A name is only taken for the one role that this session's lists brought *)
(* under it, for every history of the guild, with roles made, deleted and  *)
(* renamed, and never taken anew (runner.rs:303-332).                      *)
THEOREM NameIsTakenOnce == Spec => NobodyElseBroughtIt
<1>1. Init => TrackInv
  <2>1. Len(<<>>) = 0 /\ 1..0 = {}
    OBVIOUS
  <2> QED  BY <2>1 DEF Init, TrackInv, ListsInv, KnownInv
<1>2. IInv /\ TrackInv /\ [Next]_vars => TrackInv'
  BY TrackStep
<1>3. IInv /\ TrackInv' /\ [Next]_vars =>
        [pc = "poll" => \A n \in RoleNames :
           IF roles[n] = 0
           THEN roles'[n] # 0 => BroughtAs(n, seen') = {roles'[n]}
           ELSE roles'[n] = roles[n]]_vars
  <2> SUFFICES ASSUME IInv, TrackInv', [Next]_vars, pc = "poll", NEW n \in RoleNames
               PROVE  IF roles[n] = 0
                      THEN roles'[n] # 0 => BroughtAs(n, seen') = {roles'[n]}
                      ELSE roles'[n] = roles[n]
    OBVIOUS
  <2>1. CASE Begins
    BY <2>1, FoundAlone
  <2>2. CASE Leaves \/ HandleReaction
    <3>1. roles' = roles
      BY <2>2, LeavesMeans, HandleReactionMeans DEF stateVars
    <3> QED  BY <3>1
  <2>3. ~Start /\ ~PostMessage /\ ~Executes
    BY StartMeans, PostMessageMeans, ExecutesMeans
  <2> QED  BY <2>1, <2>2, <2>3, NextSteps
<1> QED  BY <1>1, <1>2, <1>3, IInvHolds, PTL DEF Spec, NobodyElseBroughtIt
=============================================================================
