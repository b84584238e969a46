----------------------- MODULE ManagedMessagesProofs ------------------------
(***************************************************************************)
(* What ManagedMessages promises, for any names, histories of config.json  *)
(* and numbers of posts and faults: what is remembered was posted, further *)
(* copies are paid for, the queue and the memory keep their shape, and,    *)
(* while nothing fails, the messages are in sync with the configuration.   *)
(*                                                                         *)
(* IInv (what was posted) does not depend on what Started queues; TypeInv  *)
(* adds the queue, and WholeInv what the messages show.                    *)
(***************************************************************************)
EXTENDS ManagedMessages, FiniteSetTheorems, SequenceTheorems, WellFoundedInduction, TLAPS

IsPost(p) == p = [name |-> p.name, channel |-> p.channel, content |-> p.content,
                  live |-> p.live, seeded |-> p.seeded]

\* posts is a sequence, of posts.
PostsInv ==
  /\ Len(posts) \in Nat /\ posts = [id \in 1..Len(posts) |-> posts[id]]
  /\ \A id \in 1..Len(posts) : IsPost(posts[id])

\* What an answer under way is about; there is none when nothing is awaited.
AnswerInv ==
  /\ answer \in {"none", "posted", "edited", "reacted", "failed"}
  /\ answer # "none" <=> pc = "answer"
  /\ answer = "posted" => /\ Len(posts) > 0
                          /\ posts[Len(posts)].name = This.name
                          /\ posts[Len(posts)].channel = This.channel
  /\ answer = "edited" => \A n \in NameSet : This.name = n =>
                             Tracked(managed, n) /\ managed[n].channel = This.channel

MemoryInv == DOMAIN managed = NameSet /\ DOMAIN disk.managed = NameSet /\ RememberedIsPosted

\* A post whose answer is still to come.
Unrecorded(n) == answer = "posted" /\ This.name = n

Copies(n) == Cardinality(PostsOf(n))

\* What the file does not know, and no answer will tell, was paid for.
CopiesInv ==
  /\ faults \in Nat /\ lost \in [NameSet -> Nat]
  /\ \A n \in NameSet :
       /\ Copies(n) <= 1 + lost[n]
       /\ ~Tracked(disk.managed, n) /\ ~Unrecorded(n) => Copies(n) <= lost[n]

IInv == PostsInv /\ AnswerInv /\ MemoryInv /\ CopiesInv

-----------------------------------------------------------------------------
\* The messages, where they are and under which name, are as before.
SamePosts ==
  /\ Len(posts') = Len(posts)
  /\ \A id \in 1..Len(posts) : posts'[id].name = posts[id].name /\ posts'[id].channel = posts[id].channel

LEMMA PostsDomain == PostsInv => DOMAIN posts = 1..Len(posts)
  BY DEF PostsInv

LEMMA CopiesAreCounted ==
  ASSUME PostsInv, NEW n
  PROVE  IsFiniteSet(PostsOf(n)) /\ Copies(n) \in Nat
<1>1. PostsOf(n) \in SUBSET (1..Len(posts))
  BY PostsDomain DEF PostsOf
<1>2. IsFiniteSet(1..Len(posts))
  BY FS_Interval DEF PostsInv
<1> QED
  BY <1>1, <1>2, FS_Subset, FS_CardinalityType DEF Copies

LEMMA SameCopies ==
  ASSUME PostsInv, PostsInv', SamePosts, NEW n
  PROVE  PostsOf(n)' = PostsOf(n) /\ Copies(n)' = Copies(n)
<1>1. DOMAIN posts = 1..Len(posts) /\ DOMAIN posts' = 1..Len(posts)
  BY PostsDomain DEF SamePosts, PostsInv
<1>2. PostsOf(n)' = PostsOf(n)
  BY <1>1 DEF PostsOf, SamePosts
<1> QED
  BY <1>2 DEF Copies

(* A step that alters at most what a message shows.                        *)
LEMMA EditKeepsPosts ==
  ASSUME PostsInv, NEW id, NEW value,
         \/ posts' = [posts EXCEPT ![id].content = value]
         \/ posts' = [posts EXCEPT ![id].seeded = value]
         \/ posts' = [posts EXCEPT ![id].live = value]
         \/ posts' = posts
  PROVE  PostsInv' /\ SamePosts
<1> DEFINE S == {posts[k] : k \in 1..Len(posts)} \cup {posts'[k] : k \in 1..Len(posts)}
<1>1. DOMAIN posts' = DOMAIN posts /\ posts' = [k \in DOMAIN posts |-> posts'[k]]
  BY PostsDomain DEF PostsInv
<1>2. posts \in Seq(S) /\ posts' \in Seq(S)
  BY <1>1, PostsDomain, SeqDef DEF PostsInv
<1>3. Len(posts') = Len(posts)
  BY <1>1, <1>2, LenProperties DEF PostsInv
<1>4. \A k \in 1..Len(posts) :
        /\ posts'[k].name = posts[k].name /\ posts'[k].channel = posts[k].channel
        /\ IsPost(posts'[k])
  BY PostsDomain DEF PostsInv, IsPost
<1> QED
  BY <1>1, <1>3, <1>4, PostsDomain DEF PostsInv, SamePosts

\* One more post is lost, of this message and no other.
LEMMA LoseCounts ==
  ASSUME CopiesInv, NEW name, Lose(name), faults' \in {faults, faults + 1}
  PROVE  /\ lost' \in [NameSet -> Nat]
         /\ \A n \in NameSet : lost'[n] = IF faults' # faults /\ n = name THEN lost[n] + 1 ELSE lost[n]
<1>1. CASE faults' = faults
  BY <1>1 DEF Lose, CopiesInv
<1>2. CASE faults' # faults
  <2>1. lost' = [lost EXCEPT ![name] = lost[name] + 1]
    BY <1>2 DEF Lose
  <2>2. lost \in [NameSet -> Nat]
    BY DEF CopiesInv
  <2>3. \A n \in NameSet : lost'[n] = IF n = name THEN lost[n] + 1 ELSE lost[n]
    BY <2>1, <2>2
  <2>4. \A n \in NameSet : lost'[n] \in Nat
    BY <2>2, <2>3
  <2> QED
    BY <1>2, <2>1, <2>2, <2>3, <2>4
<1> QED
  BY <1>1, <1>2

-----------------------------------------------------------------------------
(* A step that leaves the memory, the file and the places of the messages  *)
(* alone, and forgets the answer to a post only if it counts it as lost.   *)
LEMMA QuietKeeps ==
  ASSUME IInv, PostsInv', AnswerInv', SamePosts,
         UNCHANGED <<managed, disk>>, faults' \in {faults, faults + 1},
         \/ faults' = faults + 1 /\ Lose(This.name)
         \/ lost' = lost /\ (answer # "posted" \/ UNCHANGED <<answer, queue>>)
  PROVE  IInv'
<1>1. \A n \in NameSet : PostsOf(n)' = PostsOf(n) /\ Copies(n)' = Copies(n)
  BY SameCopies DEF IInv
<1>2. MemoryInv'
  <2>1. \A n \in NameSet : \A id \in PostsOf(n) : posts'[id].channel = posts[id].channel
    BY PostsDomain DEF SamePosts, PostsOf, IInv
  <2> QED
    BY <1>1, <2>1 DEF IInv, MemoryInv, RememberedIsPosted, Tracked
<1>3. CopiesInv'
  <2>1. faults' \in Nat /\ faults + 1 # faults
    BY DEF CopiesInv, IInv
  <2>2. /\ lost' \in [NameSet -> Nat]
        /\ \A n \in NameSet : /\ lost[n] \in Nat /\ lost'[n] \in {lost[n], lost[n] + 1}
                              /\ lost'[n] = lost[n] => (Unrecorded(n) => Unrecorded(n)')
    <3>1. CASE faults' = faults + 1 /\ Lose(This.name)
      <4>1. /\ lost' \in [NameSet -> Nat]
            /\ \A n \in NameSet : lost'[n] = IF n = This.name THEN lost[n] + 1 ELSE lost[n]
        BY <2>1, <3>1, LoseCounts DEF IInv
      <4> QED
        BY <4>1 DEF CopiesInv, IInv, Unrecorded
    <3>2. CASE lost' = lost /\ (answer # "posted" \/ UNCHANGED <<answer, queue>>)
      BY <3>2 DEF CopiesInv, IInv, Unrecorded, This
    <3> QED
      BY <3>1, <3>2
  <2> SUFFICES ASSUME NEW n \in NameSet
               PROVE  /\ Copies(n)' <= 1 + lost'[n]
                      /\ ~Tracked(disk.managed, n) /\ ~Unrecorded(n)' => Copies(n)' <= lost'[n]
    BY <2>1, <2>2 DEF CopiesInv, Tracked
  <2>3. Copies(n) \in Nat
    BY CopiesAreCounted DEF IInv
  <2> QED
    BY <1>1, <2>2, <2>3 DEF CopiesInv, IInv
<1> QED
  BY <1>2, <1>3 DEF IInv

LEMMA NoPostsKept ==
  ASSUME PostsInv, posts' = posts
  PROVE  PostsInv' /\ SamePosts
  BY DEF PostsInv, SamePosts, IsPost

(* A step that makes no request and awaits no answer afterwards.           *)
LEMMA NoAnswerKeeps ==
  ASSUME IInv, answer' = "none", pc' # "answer", UNCHANGED <<managed, disk, posts>>,
         \/ faults' = faults + 1 /\ Lose(This.name)
         \/ faults' \in {faults, faults + 1} /\ lost' = lost /\ answer # "posted"
  PROVE  IInv'
<1>1. AnswerInv'
  BY DEF AnswerInv, IInv
<1> QED
  BY <1>1, QuietKeeps, NoPostsKept DEF IInv

\* No answer is under way except in "answer".
LEMMA NothingAwaited ==
  ASSUME IInv, pc # "answer"
  PROVE  answer = "none"
  BY DEF IInv, AnswerInv

\* What is not remembered is not in the file either.
LEMMA FileIsNotAhead ==
  ASSUME IInv, NEW n \in NameSet, ~Tracked(managed, n)
  PROVE  ~Tracked(disk.managed, n)
<1>1. managed[n].id = 0
  BY DEF Tracked, NoEntry
<1>2. ASSUME Tracked(disk.managed, n)
      PROVE  disk.managed[n].id \in 1..Len(posts)
  BY <1>2, PostsDomain DEF IInv, MemoryInv, RememberedIsPosted, PostsOf
<1> QED
  BY <1>1, <1>2 DEF IInv, MemoryInv, RememberedIsPosted, PostsInv

(* Writing the memory to the file.                                         *)
LEMMA SavedKeeps ==
  ASSUME IInv, answer = "none", answer' = "none", pc' # "answer", UNCHANGED <<managed, posts, faults, lost>>,
         disk'.managed = managed
  PROVE  IInv'
<1>1. PostsInv' /\ SamePosts
  BY NoPostsKept DEF IInv
<1>2. AnswerInv'
  BY DEF AnswerInv, IInv
<1>3. \A n \in NameSet : PostsOf(n)' = PostsOf(n) /\ Copies(n)' = Copies(n)
  BY DEF PostsOf, Copies
<1>4. \A n \in NameSet : managed[n].id \in Nat
  BY PostsDomain DEF IInv, MemoryInv, RememberedIsPosted, PostsOf, Tracked, NoEntry
<1>5. MemoryInv'
  BY <1>3, <1>4 DEF IInv, MemoryInv, RememberedIsPosted, Tracked
<1>6. CopiesInv'
  BY <1>3, FileIsNotAhead DEF CopiesInv, IInv, Tracked, Unrecorded
<1> QED
  BY <1>1, <1>2, <1>5, <1>6 DEF IInv

LEMMA StartedKeeps ==
  ASSUME IInv, NEW v, Started(v), pc = "poll"
  PROVE  IInv'
<1>1. answer = "none" /\ answer' = "none" /\ pc' # "answer" /\ UNCHANGED <<managed, posts, lost>>
  BY NothingAwaited DEF Started
<1>2. \/ disk'.managed = managed /\ UNCHANGED faults
      \/ faults' = faults + 1 /\ UNCHANGED disk
      \/ UNCHANGED <<disk, faults>>
  BY DEF Started, Fault
<1> QED
  BY <1>1, <1>2, SavedKeeps, NoAnswerKeeps

LEMMA StartKeeps ==
  ASSUME IInv, Start
  PROVE  IInv'
<1>1. answer = "none" /\ pc' = "connect" /\ managed' = disk.managed
      /\ UNCHANGED <<disk, posts, answer, queue, faults, lost>>
  BY NothingAwaited DEF Start, workVars
<1>2. PostsInv' /\ SamePosts
  BY <1>1, NoPostsKept DEF IInv
<1>3. AnswerInv'
  BY <1>1 DEF AnswerInv, IInv
<1>4. \A n \in NameSet : PostsOf(n)' = PostsOf(n) /\ Copies(n)' = Copies(n)
  BY <1>1 DEF PostsOf, Copies
<1>5. \A n \in NameSet : disk.managed[n].id \in Nat
  BY PostsDomain DEF IInv, MemoryInv, RememberedIsPosted, PostsOf, Tracked, NoEntry
<1>6. MemoryInv'
  BY <1>1, <1>4, <1>5 DEF IInv, MemoryInv, RememberedIsPosted, Tracked
<1>7. CopiesInv'
  BY <1>1, <1>4 DEF CopiesInv, IInv, Tracked, Unrecorded
<1> QED
  BY <1>2, <1>3, <1>6, <1>7 DEF IInv

-----------------------------------------------------------------------------
LEMMA PostKeeps ==
  ASSUME IInv, PostMessage
  PROVE  IInv'
<1> DEFINE p == [name |-> This.name, channel |-> This.channel, content |-> This.content,
                 live |-> TRUE, seeded |-> FALSE]
           S == {posts[k] : k \in 1..Len(posts)} \cup {p}
           last == Len(posts) + 1
<1>1. /\ posts' = Append(posts, p) /\ UNCHANGED <<managed, disk, queue>>
      /\ answer = "none" /\ pc' = "answer" /\ ~Tracked(managed, This.name)
      /\ \/ answer' = "posted" /\ faults' = faults
         \/ answer' = "failed" /\ faults' = faults + 1
      /\ Lose(This.name)
  BY NothingAwaited DEF PostMessage, CarriedOut, Await, Fault, stateVars
<1>2. posts \in Seq(S) /\ p \in S /\ last \in Nat
  BY PostsDomain, SeqDef DEF IInv, PostsInv
<1>3. /\ Len(posts') = last /\ posts'[last] = p /\ posts' = [k \in 1..last |-> posts'[k]]
      /\ \A k \in 1..Len(posts) : posts'[k] = posts[k]
  BY <1>1, <1>2, AppendProperties, LenProperties DEF IInv, PostsInv
<1>4. PostsInv'
  <2>1. \A k \in 1..last : IsPost(posts'[k])
    BY <1>2, <1>3 DEF IsPost, IInv, PostsInv
  <2> QED
    BY <1>2, <1>3, <2>1 DEF PostsInv
<1>5. AnswerInv'
  BY <1>1, <1>2, <1>3 DEF AnswerInv, This, IInv, PostsInv
<1>6. \A n : PostsOf(n)' = IF This.name = n THEN PostsOf(n) \cup {last} ELSE PostsOf(n)
  <2>1. DOMAIN posts = 1..Len(posts) /\ DOMAIN posts' = 1..last
    BY <1>3, PostsDomain DEF IInv
  <2> QED
    BY <1>2, <1>3, <2>1 DEF PostsOf, IInv, PostsInv
<1>7. MemoryInv'
  <2>1. \A n \in NameSet : \A id \in PostsOf(n) : id \in PostsOf(n)' /\ posts'[id].channel = posts[id].channel
    BY <1>3, <1>6, PostsDomain DEF PostsOf, IInv
  <2> QED
    BY <1>1, <2>1 DEF IInv, MemoryInv, RememberedIsPosted, Tracked
<1>8. CopiesInv'
  <2>0. /\ lost' \in [NameSet -> Nat] /\ faults' \in Nat /\ faults + 1 # faults
        /\ \A n \in NameSet : lost[n] \in Nat
        /\ \A n \in NameSet : lost'[n] = IF faults' # faults /\ n = This.name THEN lost[n] + 1 ELSE lost[n]
    BY <1>1, LoseCounts DEF IInv, CopiesInv
  <2> SUFFICES ASSUME NEW n \in NameSet
               PROVE  /\ Copies(n)' <= 1 + lost'[n]
                      /\ ~Tracked(disk.managed, n) /\ ~Unrecorded(n)' => Copies(n)' <= lost'[n]
    BY <1>1, <2>0 DEF CopiesInv, Tracked
  <2>1. IsFiniteSet(PostsOf(n)) /\ Copies(n) \in Nat
    BY CopiesAreCounted DEF IInv
  <2>2. ~Unrecorded(n)
    BY <1>1 DEF Unrecorded
  <2>3. CASE This.name = n
    <3>1. last \notin PostsOf(n)
      BY PostsDomain DEF PostsOf, IInv, PostsInv
    <3>2. Copies(n)' = Copies(n) + 1
      BY <1>6, <2>1, <2>3, <3>1, FS_AddElement DEF Copies
    <3>3. Copies(n) <= lost[n]
      BY <1>1, <2>2, <2>3, FileIsNotAhead DEF IInv, CopiesInv
    <3>4. faults' = faults => Unrecorded(n)'
      BY <1>1, <2>0, <2>3 DEF Unrecorded, This
    <3> QED
      BY <2>0, <2>1, <2>3, <3>2, <3>3, <3>4
  <2>4. CASE This.name # n
    <3>1. Copies(n)' = Copies(n)
      BY <1>6, <2>4 DEF Copies
    <3> QED
      BY <1>1, <2>0, <2>1, <2>2, <2>4, <3>1 DEF IInv, CopiesInv
  <2> QED
    BY <2>3, <2>4
<1> QED
  BY <1>4, <1>5, <1>7, <1>8 DEF IInv

LEMMA EditKeeps ==
  ASSUME IInv, EditMessage
  PROVE  IInv'
<1>1. /\ answer = "none" /\ pc' = "answer" /\ UNCHANGED <<managed, disk, queue>>
      /\ answer' \in {"edited", "failed"} /\ faults' \in {faults, faults + 1}
      /\ lost' = lost
  BY NothingAwaited DEF EditMessage, CarriedOut, Await, Fault, stateVars
<1>2. PostsInv' /\ SamePosts
  <2>1. \/ posts' = [posts EXCEPT ![managed[This.name].id].content = This.content]
        \/ posts' = posts
    BY DEF EditMessage
  <2> QED
    BY <2>1, EditKeepsPosts DEF IInv
<1>3. Tracked(managed, This.name) /\ managed[This.name].channel = This.channel
  BY DEF EditMessage, Refused
<1>4. AnswerInv'
  BY <1>1, <1>3 DEF AnswerInv, This, Tracked
<1> QED
  BY <1>1, <1>2, <1>4, QuietKeeps

LEMMA ReactKeeps ==
  ASSUME IInv, AddReaction
  PROVE  IInv'
<1>1. /\ answer = "none" /\ pc' = "answer" /\ UNCHANGED <<managed, disk, queue>>
      /\ answer' \in {"reacted", "failed"} /\ faults' \in {faults, faults + 1}
      /\ lost' = lost
  BY NothingAwaited DEF AddReaction, CarriedOut, Await, Fault, stateVars
<1>2. PostsInv' /\ SamePosts
  <2>1. \/ posts' = [posts EXCEPT ![managed[This.name].id].seeded = TRUE]
        \/ posts' = posts
    BY DEF AddReaction
  <2> QED
    BY <2>1, EditKeepsPosts DEF IInv
<1>3. AnswerInv'
  BY <1>1 DEF AnswerInv
<1> QED
  BY <1>1, <1>2, <1>3, QuietKeeps

LEMMA RequestFailsKeeps ==
  ASSUME IInv, RequestFails
  PROVE  IInv'
<1>1. /\ pc' = "answer" /\ UNCHANGED <<managed, disk, posts, lost>>
      /\ answer = "none" /\ answer' = "failed" /\ faults' = faults + 1
  BY NothingAwaited DEF RequestFails, Await, Fault, stateVars
<1>2. AnswerInv'
  BY <1>1 DEF AnswerInv
<1> QED
  BY <1>1, <1>2, QuietKeeps, NoPostsKept DEF IInv

LEMMA DeleteKeeps ==
  ASSUME IInv, NEW id, DeletePost(id)
  PROVE  IInv'
<1>1. UNCHANGED <<managed, disk, queue, answer, pc, lost>> /\ faults' = faults + 1
      /\ posts' = [posts EXCEPT ![id].live = FALSE]
  BY DEF DeletePost, Fault, stateVars, runVars
<1>2. PostsInv' /\ SamePosts
  BY <1>1, EditKeepsPosts DEF IInv
<1>3. AnswerInv'
  BY <1>1, <1>2 DEF AnswerInv, This, SamePosts, Tracked, IInv, PostsInv
<1> QED
  BY <1>1, <1>2, <1>3, QuietKeeps

-----------------------------------------------------------------------------
(* A success is remembered with the id the answer is about, then saved.    *)
LEMMA RememberKeeps ==
  ASSUME IInv, NEW id, Remember(id), answer' = "none", pc' # "answer", posts' = posts,
         \/ answer = "posted" /\ id = Len(posts) /\ Lose(This.name)
         \/ answer = "edited" /\ id = managed[This.name].id /\ lost' = lost
  PROVE  IInv'
<1> DEFINE entry == [id |-> id, channel |-> This.channel, hash |-> This.content]
<1>1. PostsInv' /\ SamePosts
  BY NoPostsKept DEF IInv
<1>2. AnswerInv'
  BY DEF AnswerInv
<1>3. \A n \in NameSet : PostsOf(n)' = PostsOf(n) /\ Copies(n)' = Copies(n)
  BY DEF PostsOf, Copies
<1>4. /\ managed' = [managed EXCEPT ![This.name] = entry]
      /\ \/ disk'.managed = managed' /\ faults' = faults
         \/ disk' = disk /\ faults' = faults + 1
  <2>1. managed' = [managed EXCEPT ![This.name] = entry] /\ SaveState(managed', channels)
    BY Zenon DEF Remember
  <2>2. \/ disk' = [managed |-> managed', channels |-> channels] /\ faults' = faults
        \/ disk' = disk /\ faults' = faults + 1
    BY <2>1, Zenon DEF SaveState, Fault
  <2>3. [managed |-> managed', channels |-> channels].managed = managed'
    OBVIOUS
  <2> HIDE DEF entry
  <2> QED
    BY <2>1, <2>2, <2>3
<1>5. ASSUME NEW n \in NameSet, This.name = n
      PROVE  /\ managed'[n] = entry
             /\ id \in PostsOf(n) /\ id \in Nat \ {0} /\ managed[n].id <= id
             /\ posts[id].channel = This.channel
  <2>0. managed'[n] = entry
    BY <1>4, <1>5 DEF IInv, MemoryInv
  <2>1. /\ Tracked(managed, n) => managed[n].id \in 1..Len(posts)
        /\ ~Tracked(managed, n) => managed[n].id = 0
    BY PostsDomain DEF IInv, MemoryInv, RememberedIsPosted, PostsOf, Tracked, NoEntry
  <2>2. CASE answer = "posted"
    <3>1. id \in 1..Len(posts) /\ posts[id].name = n /\ posts[id].channel = This.channel
      BY <1>5, <2>2 DEF IInv, AnswerInv, PostsInv
    <3> QED
      BY <2>0, <2>1, <2>2, <3>1, PostsDomain DEF PostsOf, IInv, PostsInv
  <2>3. CASE answer = "edited"
    <3>1. Tracked(managed, n) /\ managed[n].channel = This.channel /\ id = managed[n].id
      BY <1>5, <2>3 DEF IInv, AnswerInv
    <3> QED
      BY <2>0, <2>1, <3>1 DEF IInv, MemoryInv, RememberedIsPosted, PostsInv
  <2> QED
    BY <2>2, <2>3
<1>6. ASSUME NEW n \in NameSet, This.name # n
      PROVE  managed'[n] = managed[n] /\ managed[n].id \in Nat
  BY <1>4, <1>6, PostsDomain DEF IInv, MemoryInv, RememberedIsPosted, PostsOf, Tracked, NoEntry
<1>7. MemoryInv'
  <2>1. DOMAIN managed' = NameSet /\ DOMAIN disk'.managed = NameSet
    BY <1>4 DEF IInv, MemoryInv
  <2>2. ASSUME NEW n \in NameSet
        PROVE  /\ Tracked(managed', n) =>
                    managed'[n].id \in PostsOf(n) /\ posts[managed'[n].id].channel = managed'[n].channel
               /\ managed'[n].id \in Nat /\ disk.managed[n].id <= managed'[n].id
    <3>1. CASE This.name = n
      <4>1. disk.managed[n].id \in Nat /\ managed[n].id \in Nat /\ disk.managed[n].id <= managed[n].id
        BY PostsDomain DEF IInv, MemoryInv, RememberedIsPosted, PostsOf, Tracked, NoEntry
      <4> QED
        BY <1>5, <3>1, <4>1
    <3>2. CASE This.name # n
      BY <1>6, <3>2 DEF IInv, MemoryInv, RememberedIsPosted, Tracked
    <3> QED
      BY <3>1, <3>2
  <2> QED
    BY <1>3, <1>4, <2>1, <2>2 DEF IInv, MemoryInv, RememberedIsPosted, Tracked
<1>8. CopiesInv'
  <2>0. /\ lost' \in [NameSet -> Nat] /\ faults' \in Nat /\ faults + 1 # faults
        /\ \A n \in NameSet : lost[n] \in Nat
        /\ \A n \in NameSet : lost'[n] = IF answer = "posted" /\ faults' # faults /\ n = This.name
                                         THEN lost[n] + 1 ELSE lost[n]
    <3>1. faults' \in {faults, faults + 1} /\ faults \in Nat /\ lost \in [NameSet -> Nat]
      BY <1>4 DEF IInv, CopiesInv
    <3>2. CASE answer = "posted" /\ Lose(This.name)
      BY <3>1, <3>2, LoseCounts DEF IInv
    <3>3. CASE answer = "edited" /\ lost' = lost
      BY <3>1, <3>3
    <3> QED
      BY <3>2, <3>3
  <2> SUFFICES ASSUME NEW n \in NameSet
               PROVE  /\ Copies(n)' <= 1 + lost'[n]
                      /\ ~Tracked(disk'.managed, n) => Copies(n)' <= lost'[n]
    BY <1>4, <2>0 DEF CopiesInv, Tracked
  <2>1. /\ Copies(n) \in Nat /\ Copies(n)' = Copies(n) /\ Copies(n) <= 1 + lost[n]
        /\ ~Tracked(disk.managed, n) /\ ~Unrecorded(n) => Copies(n) <= lost[n]
    BY <1>3, CopiesAreCounted DEF IInv, CopiesInv
  <2>2. CASE This.name = n
    <3>1. Tracked(managed', n)
      BY <1>5, <2>2 DEF Tracked, NoEntry
    <3>2. ~Tracked(disk'.managed, n) => disk' = disk /\ faults' # faults
      BY <1>4, <2>0, <3>1
    <3>3. answer # "posted" => ~Unrecorded(n)
      BY DEF Unrecorded
    <3> QED
      BY <2>0, <2>1, <2>2, <3>2, <3>3
  <2>3. CASE This.name # n
    <3>1. ~Tracked(disk'.managed, n) => ~Tracked(disk.managed, n) /\ ~Unrecorded(n)
      BY <1>4, <1>6, <2>3, FileIsNotAhead DEF Tracked, Unrecorded
    <3> QED
      BY <2>0, <2>1, <2>3, <3>1
  <2> QED
    BY <2>2, <2>3
<1> QED
  BY <1>1, <1>2, <1>7, <1>8 DEF IInv

LEMMA AnswerKeeps ==
  ASSUME IInv, AnswerArrives
  PROVE  IInv'
<1>1. pc = "answer" /\ pc' # "answer" /\ answer' = "none" /\ posts' = posts
  BY DEF AnswerArrives, NextAction
<1>2. answer \in {"posted", "edited", "reacted", "failed"}
  BY <1>1 DEF IInv, AnswerInv
<1>3. CASE answer = "posted"
  <2>1. Remember(Len(posts)) /\ Lose(This.name)
    BY <1>3 DEF AnswerArrives
  <2> QED
    BY <1>1, <1>3, <2>1, RememberKeeps
<1>4. CASE answer = "edited"
  <2>1. Remember(managed[This.name].id) /\ lost' = lost
    BY <1>4 DEF AnswerArrives
  <2> QED
    BY <1>1, <1>4, <2>1, RememberKeeps
<1>5. CASE answer \in {"reacted", "failed"}
  <2>1. UNCHANGED <<managed, disk, faults, lost>>
    BY <1>5 DEF AnswerArrives
  <2> QED
    BY <1>1, <1>5, <2>1, NoAnswerKeeps
<1> QED
  BY <1>2, <1>3, <1>4, <1>5

-----------------------------------------------------------------------------
LEMMA InitEstablishes == Init => IInv
<1> SUFFICES ASSUME Init
             PROVE  IInv
  OBVIOUS
<1>1. posts = <<>> /\ Len(posts) = 0 /\ faults = 0 /\ answer = "none" /\ pc = "down"
      /\ lost = [n \in NameSet |-> 0]
  BY DEF Init
<1>2. managed = [n \in NameSet |-> NoEntry] /\ disk.managed = managed
  BY DEF Init
<1>3. PostsInv
  BY <1>1, EmptySeq DEF PostsInv
<1>4. AnswerInv
  BY <1>1 DEF AnswerInv
<1>5. MemoryInv
  BY <1>2 DEF MemoryInv, RememberedIsPosted, Tracked, NoEntry
<1>6. CopiesInv
  <2>1. \A n : PostsOf(n) = {}
    BY <1>1 DEF PostsOf
  <2>2. \A n : Copies(n) = 0
    BY <2>1, FS_EmptySet DEF Copies
  <2> QED
    BY <1>1, <2>2 DEF CopiesInv
<1> QED
  BY <1>3, <1>4, <1>5, <1>6 DEF IInv

(* One step per action.                                                    *)
LEMMA Invariance == IInv /\ [Next]_vars => IInv'
<1> SUFFICES ASSUME IInv, [Next]_vars
             PROVE  IInv'
  OBVIOUS
<1>1. CASE Reload
  BY <1>1, StartedKeeps DEF Reload
<1>2. CASE ReloadFails
  BY <1>2, NoAnswerKeeps, NothingAwaited DEF ReloadFails, stateVars, workVars
<1>3. CASE GuildCreate
  BY <1>3, StartedKeeps DEF GuildCreate
<1>4. CASE Resumed
  BY <1>4, StartedKeeps DEF Resumed
<1>5. CASE RefuseAction
  BY <1>5, NoAnswerKeeps, NothingAwaited DEF RefuseAction, NextAction, stateVars
<1>6. CASE PostMessage
  BY <1>6, PostKeeps
<1>7. CASE EditMessage
  BY <1>7, EditKeeps
<1>8. CASE AddReaction
  BY <1>8, ReactKeeps
<1>9. CASE AnswerArrives
  BY <1>9, AnswerKeeps
<1>10. CASE \E resumed \in BOOLEAN : OpenSession(resumed)
  BY <1>10, NoAnswerKeeps, NothingAwaited DEF OpenSession, workVars
<1>11. CASE Start
  BY <1>11, StartKeeps
<1>12. CASE RequestFails
  BY <1>12, RequestFailsKeeps
<1>13. CASE LoseSession
  BY <1>13, NoAnswerKeeps, NothingAwaited DEF LoseSession, Fault, stateVars, workVars
<1>14. CASE Crash
  BY <1>14, NoAnswerKeeps DEF Crash, Fault, stateVars
<1>15. CASE \E id \in 1..Len(posts) : DeletePost(id)
  BY <1>15, DeleteKeeps
<1>16. CASE EditConfig \/ Idle \/ UNCHANGED vars
  <2>1. UNCHANGED <<pc, managed, disk, queue, answer, posts, faults, lost>>
    BY <1>16 DEF EditConfig, Idle, vars, runVars, stateVars, workVars
  <2>2. AnswerInv'
    BY <2>1 DEF IInv, AnswerInv, This, Tracked
  <2> QED
    BY <2>1, <2>2, QuietKeeps, NoPostsKept DEF IInv
<1> QED
  BY <1>1, <1>2, <1>3, <1>4, <1>5, <1>6, <1>7, <1>8, <1>9, <1>10, <1>11, <1>12, <1>13,
     <1>14, <1>15, <1>16 DEF Next, RunnerStep, Outside

LEMMA IInvHolds == Spec => []IInv
  BY InitEstablishes, Invariance, PTL DEF Spec

(* RememberedIsPosted for every history: what insert and save_state record *)
(* under a name is always a message posted under it, in the channel noted  *)
(* with it, and state.tsv is never ahead of the runner (runner.rs:465,     *)
(* state.rs).                                                              *)
THEOREM MemoryIsTrue == Spec => []RememberedIsPosted
<1>1. IInv => RememberedIsPosted
  BY DEF IInv, MemoryInv
<1> QED
  BY <1>1, IInvHolds, PTL

(* CopiesCostFaults for every history: the guard on state.managed, the     *)
(* save after each request and the load at the start let a message be      *)
(* posted again only after a post of it whose answer, save or process was  *)
(* lost before the file had the record (runner.rs:465-507, state.rs).      *)
THEOREM CopiesArePaid == Spec => []CopiesCostFaults
<1>1. IInv => CopiesCostFaults
  BY DEF IInv, CopiesInv, CopiesCostFaults, Copies
<1> QED
  BY <1>1, IInvHolds, PTL

-----------------------------------------------------------------------------
(* Induction on the naturals, for sets: the smallest element there is.     *)
LEMMA SmallestOf ==
  ASSUME NEW T \in SUBSET Nat, T # {}
  PROVE  \E x \in T : \A y \in T : x <= y
<1> DEFINE R == {ss \in Nat \X Nat : ss[1] < ss[2]}
<1>1. IsWellFoundedOn(R, Nat)
  BY NatLessThanWellFounded, Zenon DEF OpToRel
<1>2. \A x, y \in Nat : <<y, x>> \in R <=> y < x
  OBVIOUS
<1> HIDE DEF R
<1>3. PICK x \in T : \A y \in T : <<y, x>> \notin R
  BY <1>1, WFMin, Zenon
<1>4. \A y \in T : ~(y < x)
  BY <1>2, <1>3
<1> QED
  BY <1>4

LEMMA InductionOf ==
  ASSUME NEW S, 0 \in S, \A n \in Nat : n \in S => n + 1 \in S
  PROVE  Nat \subseteq S
<1> SUFFICES ASSUME NEW k \in Nat, k \notin S
             PROVE  FALSE
  OBVIOUS
<1> DEFINE T == {n \in Nat : n \notin S}
<1>1. PICK x \in T : \A y \in T : x <= y
  BY SmallestOf
<1>2. x # 0 /\ x - 1 \in Nat /\ x - 1 \in S
  BY <1>1
<1> QED
  BY <1>2

\* A name more, if it is wanted.
Extended(s, k, set) == IF Names[k] \in set THEN Append(s, Names[k]) ELSE s

LEMMA PrefixesExist ==
  ASSUME NEW set
  PROVE  \E f : f = [k \in 0..Len(Names) |-> IF k = 0 THEN <<>> ELSE Extended(f[k - 1], k, set)]
<1> DEFINE P(n) == \E f : f = [k \in 0..n |-> IF k = 0 THEN <<>> ELSE Extended(f[k - 1], k, set)]
           S == {n \in Nat : P(n)}
<1>1. 0 \in S
  <2>1. [k \in 0..0 |-> <<>>] = [k \in 0..0 |-> IF k = 0 THEN <<>> ELSE Extended([j \in 0..0 |-> <<>>][k - 1], k, set)]
    OBVIOUS
  <2> QED
    BY <2>1
<1>2. ASSUME NEW n \in Nat, P(n)
      PROVE  P(n + 1)
  <2>1. PICK f : f = [k \in 0..n |-> IF k = 0 THEN <<>> ELSE Extended(f[k - 1], k, set)]
    BY <1>2
  <2> DEFINE g == [k \in 0..(n + 1) |-> IF k = n + 1 THEN Extended(f[n], n + 1, set) ELSE f[k]]
  <2>2. \A k \in 0..(n + 1) : g[k] = IF k = 0 THEN <<>> ELSE Extended(g[k - 1], k, set)
    BY <2>1
  <2>3. g = [k \in 0..(n + 1) |-> IF k = 0 THEN <<>> ELSE Extended(g[k - 1], k, set)]
    BY <2>2
  <2> QED
    BY <2>3
<1> HIDE DEF P
<1>3. Nat \subseteq S
  <2>1. \A n \in Nat : n \in S => n + 1 \in S
    BY <1>2
  <2> QED
    BY <1>1, <2>1, InductionOf
<1> USE DEF P
<1> QED
  BY <1>3, LenProperties, ManagedAssumption

LEMMA InOrderHas ==
  ASSUME NEW set
  PROVE  InOrder(set) \in Seq(NameSet) /\ Range(InOrder(set)) = set \cap NameSet
<1> DEFINE N == Len(Names)
           B(f, k) == IF k = 0 THEN <<>> ELSE Extended(f[k - 1], k, set)
           upTo == CHOOSE f : f = [k \in 0..N |-> B(f, k)]
<1>1. N \in Nat /\ DOMAIN Names = 1..N /\ NameSet = {Names[k] : k \in 1..N}
  BY LenProperties, ManagedAssumption DEF NameSet, Range
<1>2. InOrder(set) = upTo[N]
  BY DEF InOrder, Extended
<1>3. upTo = [k \in 0..N |-> B(upTo, k)]
  BY PrefixesExist
<1> HIDE DEF upTo
<1>4. upTo[0] = <<>> /\ \A k \in 1..N : upTo[k] = Extended(upTo[k - 1], k, set)
  BY <1>1, <1>3
<1> DEFINE P(k) == upTo[k] \in Seq(NameSet) /\ Range(upTo[k]) = set \cap {Names[j] : j \in 1..k}
           S == {k \in Nat : k <= N => P(k)}
<1>5. 0 \in S
  <2>1. <<>> \in Seq(NameSet) /\ Range(<<>>) = {} /\ 1..0 = {}
    BY EmptySeq DEF Range
  <2> QED
    BY <1>4, <2>1
<1>6. ASSUME NEW k \in Nat, k \in S
      PROVE  k + 1 \in S
  <2> SUFFICES ASSUME k + 1 <= N
               PROVE  P(k + 1)
    OBVIOUS
  <2> HIDE DEF N
  <2>1. P(k) /\ upTo[k + 1] = Extended(upTo[k], k + 1, set) /\ Names[k + 1] \in NameSet
    BY <1>1, <1>4, <1>6
  <2>2. {Names[j] : j \in 1..(k + 1)} = {Names[j] : j \in 1..k} \cup {Names[k + 1]}
    OBVIOUS
  <2>3. CASE Names[k + 1] \in set
    <3>1. upTo[k + 1] = Append(upTo[k], Names[k + 1])
      BY <2>1, <2>3 DEF Extended
    <3> DEFINE s == upTo[k]
    <3>2. s \in Seq(NameSet) /\ Range(s) = set \cap {Names[j] : j \in 1..k}
      BY <2>1
    <3> HIDE DEF s
    <3>3. Append(s, Names[k + 1]) \in Seq(NameSet)
          /\ Range(Append(s, Names[k + 1])) = Range(s) \cup {Names[k + 1]}
      <4>1. /\ Append(s, Names[k + 1]) \in Seq(NameSet)
            /\ Len(Append(s, Names[k + 1])) = Len(s) + 1
            /\ \A i \in 1..Len(s) : Append(s, Names[k + 1])[i] = s[i]
            /\ Append(s, Names[k + 1])[Len(s) + 1] = Names[k + 1]
        BY <2>1, <3>2, AppendProperties
      <4> HIDE DEF P
      <4>2. DOMAIN s = 1..Len(s) /\ Len(s) \in Nat
            /\ DOMAIN Append(s, Names[k + 1]) = 1..(Len(s) + 1)
        BY <3>2, <4>1, LenProperties
      <4> QED
        BY <4>1, <4>2 DEF Range
    <3> QED
      BY <2>2, <2>3, <3>1, <3>2, <3>3 DEF s
  <2>4. CASE Names[k + 1] \notin set
    BY <2>1, <2>2, <2>4 DEF Extended
  <2> QED
    BY <2>3, <2>4
<1>7. N \in S
  BY <1>1, <1>5, <1>6, InductionOf
<1> QED
  BY <1>1, <1>2, <1>7

-----------------------------------------------------------------------------
Actions(v) == {Upsert(v, n) : n \in NameSet} \cup {Reaction(v, n) : n \in NameSet}

\* What a bot of this version queues: the reactions last.
IsQueue(q, v) ==
  /\ q \in Seq(Actions(v))
  /\ \A i, j \in 1..Len(q) : i < j /\ q[i].kind = "react" => q[j].kind = "react"

QueueInv == IsQueue(queue, bot) /\ bot <= file

\* What an answer under way says of the message it is about.
DoneInv ==
  /\ answer = "posted" => This.kind = "upsert" /\ posts[Len(posts)].content = This.content
  /\ answer = "edited" => This.kind = "upsert" /\ posts[managed[This.name].id].content = This.content
  /\ answer = "reacted" => /\ This.kind = "react" /\ Tracked(managed, This.name)
                           /\ posts[managed[This.name].id].seeded

(* The hash is of a version the bot had; the message shows that version or *)
(* a later one, whose answer or whose save was lost.                       *)
ShowsVersion(m, n) ==
  \E u, w \in 1..bot : u <= w /\ m[n].hash = Entry(u, n).content
                              /\ posts[m[n].id].content = Entry(w, n).content

HashInv ==
  \A n \in NameSet : \A m \in {managed, disk.managed} : Tracked(m, n) => ShowsVersion(m, n)

Queued(a) == \E i \in 1..Len(queue) : queue[i] = a

InPlace(n) == managed[n].channel = Entry(bot, n).channel
Shown(n) ==
  /\ Tracked(managed, n)
  /\ InPlace(n) => posts[managed[n].id].content = Entry(bot, n).content
Reacted(n) ==
  /\ Tracked(managed, n)
  /\ Live(managed[n].id) /\ InPlace(n) => posts[managed[n].id].seeded

(* While nothing fails: what is not in sync has its action in the queue,   *)
(* and the reactions wait until the last message is there.                 *)
SyncInv ==
  clean =>
    /\ pc \notin {"down", "connect"}
    /\ \A n \in NameSet : Entry(bot, n).channel \in channels =>
         /\ Shown(n) \/ Queued(Upsert(bot, n))
         /\ n \in Seeded => Reacted(n) \/ Queued(Reaction(bot, n))
    /\ (\E i \in 1..Len(queue) : queue[i].kind = "upsert") =>
         \A n \in Seeded : Queued(Reaction(bot, n))

-----------------------------------------------------------------------------
(* One action for each name in a list.                                     *)
LEMMA ListOf ==
  ASSUME NEW set, NEW F, NEW v, F = [n \in NameSet |-> Upsert(v, n)] \/ F = [n \in NameSet |-> Reaction(v, n)],
         NEW q, q = [k \in 1..Len(InOrder(set)) |-> F[InOrder(set)[k]]]
  PROVE  /\ q \in Seq(Actions(v)) /\ Len(q) = Len(InOrder(set))
         /\ \A k \in 1..Len(q) : \E n \in NameSet : q[k] = F[n]
         /\ \A n \in set \cap NameSet : \E k \in 1..Len(q) : q[k] = F[n]
<1> DEFINE names == InOrder(set)
<1>1. names \in Seq(NameSet) /\ Range(names) = set \cap NameSet
  BY InOrderHas
<1> HIDE DEF names
<1>2. /\ Len(names) \in Nat /\ DOMAIN names = 1..Len(names)
      /\ \A k \in 1..Len(names) : names[k] \in NameSet
      /\ \A n \in set \cap NameSet : \E k \in 1..Len(names) : names[k] = n
  BY <1>1, LenProperties, ElementOfSeq DEF Range
<1>3. q = [k \in 1..Len(names) |-> F[names[k]]]
  BY DEF names
<1>4. \A n \in NameSet : F[n] \in Actions(v)
  BY DEF Actions
<1>5. q \in Seq(Actions(v))
  BY <1>2, <1>3, <1>4, SeqDef
<1>6. Len(q) = Len(names)
  BY <1>2, <1>3, <1>5, LenProperties
<1> QED
  BY <1>2, <1>3, <1>5, <1>6 DEF names

LEMMA StartedQueues ==
  ASSUME NEW v, NEW chans, NEW q, q = HandleStarted(v, chans)
  PROVE  /\ IsQueue(q, v)
         /\ \A n \in NameSet : AsRemembered(v, n, chans) \/ \E i \in 1..Len(q) : q[i] = Upsert(v, n)
         /\ \A n \in Seeded : \E i \in 1..Len(q) : q[i] = Reaction(v, n)
<1> DEFINE changed == {n \in NameSet : ~AsRemembered(v, n, chans)}
           a == Upserts(v, chans)
           b == Reactions(v)
           FA == [n \in NameSet |-> Upsert(v, n)]
           FB == [n \in NameSet |-> Reaction(v, n)]
<1>1. /\ a \in Seq(Actions(v))
      /\ \A k \in 1..Len(a) : \E n \in NameSet : a[k] = Upsert(v, n)
      /\ \A n \in changed : \E k \in 1..Len(a) : a[k] = Upsert(v, n)
  <2>1. Len(InOrder(changed)) \in Nat /\ \A k \in 1..Len(InOrder(changed)) : InOrder(changed)[k] \in NameSet
    BY InOrderHas, LenProperties, ElementOfSeq
  <2>2. a = [k \in 1..Len(InOrder(changed)) |-> FA[InOrder(changed)[k]]]
    BY <2>1 DEF Upserts
  <2>3. FA = [n \in NameSet |-> Upsert(v, n)]
    OBVIOUS
  <2> HIDE DEF a, changed, FA
  <2>4. /\ a \in Seq(Actions(v)) /\ Len(a) = Len(InOrder(changed))
        /\ \A k \in 1..Len(a) : \E n \in NameSet : a[k] = FA[n]
        /\ \A n \in changed \cap NameSet : \E k \in 1..Len(a) : a[k] = FA[n]
    BY <2>2, <2>3, ListOf
  <2> QED
    BY <2>3, <2>4 DEF changed
<1>2. /\ b \in Seq(Actions(v))
      /\ \A k \in 1..Len(b) : \E n \in NameSet : b[k] = Reaction(v, n)
      /\ \A n \in Seeded : \E k \in 1..Len(b) : b[k] = Reaction(v, n)
  <2>1. Len(InOrder(Seeded)) \in Nat /\ \A k \in 1..Len(InOrder(Seeded)) : InOrder(Seeded)[k] \in NameSet
    BY InOrderHas, LenProperties, ElementOfSeq
  <2>2. b = [k \in 1..Len(InOrder(Seeded)) |-> FB[InOrder(Seeded)[k]]]
    BY <2>1 DEF Reactions
  <2>3. FB = [n \in NameSet |-> Reaction(v, n)]
    OBVIOUS
  <2> HIDE DEF b, FB
  <2>4. /\ b \in Seq(Actions(v)) /\ Len(b) = Len(InOrder(Seeded))
        /\ \A k \in 1..Len(b) : \E n \in NameSet : b[k] = FB[n]
        /\ \A n \in Seeded \cap NameSet : \E k \in 1..Len(b) : b[k] = FB[n]
    BY <2>2, <2>3, ListOf
  <2> QED
    BY <2>3, <2>4, ManagedAssumption DEF NameSet
<1>3. q = a \o b
  BY DEF HandleStarted
<1> HIDE DEF a, b, FA, FB
<1>4. /\ q \in Seq(Actions(v)) /\ Len(q) = Len(a) + Len(b)
      /\ Len(a) \in Nat /\ Len(b) \in Nat
      /\ \A k \in 1..Len(a) : q[k] = a[k]
      /\ \A k \in 1..Len(b) : q[Len(a) + k] = b[k]
  <2>1. Len(a) \in Nat /\ Len(b) \in Nat
    BY <1>1, <1>2, LenProperties
  <2>2. /\ q \in Seq(Actions(v)) /\ Len(q) = Len(a) + Len(b)
        /\ \A k \in 1..Len(a) + Len(b) : q[k] = IF k <= Len(a) THEN a[k] ELSE b[k - Len(a)]
    BY <1>1, <1>2, <1>3, ConcatProperties
  <2>3. ASSUME NEW k \in 1..Len(a)
        PROVE  q[k] = a[k]
    <3>1. k \in 1..Len(a) + Len(b) /\ k <= Len(a)
      BY <2>1
    <3> QED
      BY <2>2, <3>1
  <2>4. ASSUME NEW k \in 1..Len(b)
        PROVE  q[Len(a) + k] = b[k]
    <3>1. Len(a) + k \in 1..Len(a) + Len(b) /\ ~(Len(a) + k <= Len(a)) /\ Len(a) + k - Len(a) = k
      BY <2>1
    <3> QED
      BY <2>2, <3>1
  <2> QED
    BY <2>1, <2>2, <2>3, <2>4
<1>5. \A k \in 1..Len(q) : k <= Len(a) <=> q[k].kind = "upsert"
  <2> SUFFICES ASSUME NEW k \in 1..Len(q)
               PROVE  k <= Len(a) <=> q[k].kind = "upsert"
    OBVIOUS
  <2>1. CASE k <= Len(a)
    <3>1. k \in 1..Len(a) /\ q[k] = a[k]
      BY <1>4, <2>1
    <3>2. PICK n \in NameSet : a[k] = Upsert(v, n)
      BY <1>1, <3>1
    <3> QED
      BY <2>1, <3>1, <3>2 DEF Upsert
  <2>2. CASE ~(k <= Len(a))
    <3>1. k - Len(a) \in 1..Len(b) /\ q[k] = b[k - Len(a)]
      BY <1>4, <2>2
    <3>2. PICK n \in NameSet : b[k - Len(a)] = Reaction(v, n)
      BY <1>2, <3>1
    <3> QED
      BY <2>2, <3>1, <3>2 DEF Reaction
  <2> QED
    BY <2>1, <2>2
<1>6. \A k \in 1..Len(q) : q[k].kind \in {"upsert", "react"}
  <2>1. \A x \in Actions(v) : x.kind \in {"upsert", "react"}
    BY DEF Actions, Upsert, Reaction
  <2> QED
    BY <1>4, <2>1, ElementOfSeq
<1>7. IsQueue(q, v)
  <2>1. ASSUME NEW i \in 1..Len(q), NEW j \in 1..Len(q), i < j, q[i].kind = "react"
        PROVE  q[j].kind = "react"
    BY <1>4, <1>5, <1>6, <2>1
  <2> QED
    BY <1>4, <2>1 DEF IsQueue
<1>8. \A n \in changed : \E i \in 1..Len(q) : q[i] = Upsert(v, n)
  BY <1>1, <1>4
<1>9. \A n \in Seeded : \E i \in 1..Len(q) : q[i] = Reaction(v, n)
  <2> SUFFICES ASSUME NEW n \in Seeded
               PROVE  \E i \in 1..Len(q) : q[i] = Reaction(v, n)
    OBVIOUS
  <2>1. PICK k \in 1..Len(b) : b[k] = Reaction(v, n)
    BY <1>2
  <2>2. Len(a) + k \in 1..Len(q)
    BY <1>4
  <2> QED
    BY <1>4, <2>1, <2>2
<1> QED
  BY <1>7, <1>8, <1>9

LEMMA TailOf ==
  ASSUME NEW v, NEW q, IsQueue(q, v), q # <<>>
  PROVE  /\ IsQueue(Tail(q), v) /\ Len(q) \in Nat \ {0}
         /\ Head(q) = q[1] /\ Head(q) \in Actions(v)
         /\ Len(Tail(q)) = Len(q) - 1
         /\ \A i \in 1..Len(Tail(q)) : Tail(q)[i] = q[i + 1]
<1>1. /\ Tail(q) \in Seq(Actions(v)) /\ Head(q) \in Actions(v) /\ Len(q) \in Nat \ {0}
      /\ Len(Tail(q)) = Len(q) - 1
      /\ \A i \in 1..Len(Tail(q)) : Tail(q)[i] = q[i + 1]
  BY HeadTailProperties, EmptySeq DEF IsQueue
<1>2. ASSUME NEW i \in 1..Len(Tail(q)), NEW j \in 1..Len(Tail(q)), i < j, Tail(q)[i].kind = "react"
      PROVE  Tail(q)[j].kind = "react"
  <2>1. i + 1 \in 1..Len(q) /\ j + 1 \in 1..Len(q) /\ i + 1 < j + 1
    BY <1>1, <1>2
  <2> QED
    BY <1>1, <1>2, <2>1 DEF IsQueue
<1>3. Head(q) = q[1]
  BY DEF IsQueue
<1> QED
  BY <1>1, <1>2, <1>3 DEF IsQueue

LEMMA ActionShape ==
  ASSUME NEW v \in Versions, NEW a \in Actions(v)
  PROVE  /\ a.name \in NameSet /\ a.content \in Nat /\ a.channel \in AllChannels \ {"none"}
         /\ a.channel = Entry(v, a.name).channel
         /\ \/ a.kind = "upsert" /\ a = Upsert(v, a.name) /\ a.content = Entry(v, a.name).content
            \/ a.kind = "react" /\ a = Reaction(v, a.name)
<1>1. Configs \in Seq([NameSet -> [channel : STRING \ {"none"}, content : Nat]])
  BY ManagedAssumption DEF NameSet
<1>2. \A n \in NameSet : Entry(v, n) \in [channel : STRING \ {"none"}, content : Nat]
  BY <1>1, LenProperties, ElementOfSeq DEF Versions, Entry
<1>3. \A n \in NameSet : Entry(v, n).channel \in AllChannels \ {"none"} /\ Entry(v, n).content \in Nat
  BY <1>2 DEF AllChannels
<1>4. PICK n \in NameSet : a = Upsert(v, n) \/ a = Reaction(v, n)
  BY DEF Actions
<1> QED
  BY <1>3, <1>4 DEF Upsert, Reaction

LEMMA VersionsAre == Versions = 1..Len(Configs) /\ Len(Configs) \in Nat /\ Good \subseteq Versions
  BY LenProperties, ManagedAssumption DEF Versions, Good

(* What Started leaves of the queue, whole when nothing was dropped.       *)
LEMMA StartedQueue ==
  ASSUME NEW v, Started(v)
  PROVE  /\ IsQueue(queue', v)
         /\ clean' => queue' = HandleStarted(v, channels')
<1> DEFINE q == HandleStarted(v, channels')
           n == IF Len(q) > MaxActions THEN MaxActions ELSE Len(q)
<1>1. queue' = SubSeq(q, 1, n) /\ (clean' => Len(q) <= MaxActions)
  BY DEF Started
<1>2. IsQueue(q, v)
  BY StartedQueues
<1> HIDE DEF q
<1>3. Len(q) \in Nat /\ n \in Nat /\ n <= Len(q) /\ \A i \in 1..Len(q) : q[i] \in Actions(v)
  BY <1>2, LenProperties, ElementOfSeq, ManagedAssumption DEF IsQueue
<1>4. (Len(q) <= MaxActions) => n = Len(q)
  BY <1>3, ManagedAssumption
<1> HIDE DEF n
<1>5. /\ SubSeq(q, 1, n) \in Seq(Actions(v)) /\ Len(SubSeq(q, 1, n)) = n
      /\ \A i \in 1..n : SubSeq(q, 1, n)[i] = q[i]
  <2>1. \A i \in 1..n : q[i] \in Actions(v)
    BY <1>3
  <2>2. /\ SubSeq(q, 1, n) \in Seq(Actions(v))
        /\ Len(SubSeq(q, 1, n)) = IF 1 <= n THEN n - 1 + 1 ELSE 0
        /\ \A i \in 1..(n - 1 + 1) : SubSeq(q, 1, n)[i] = q[1 + i - 1]
    BY <1>3, <2>1, SubSeqProperties
  <2> QED
    BY <1>3, <2>2
<1>6. IsQueue(queue', v)
  BY <1>1, <1>2, <1>3, <1>5 DEF IsQueue
<1>7. clean' => queue' = q
  BY <1>1, <1>2, <1>4, SubSeqFull DEF IsQueue
<1> QED
  BY <1>6, <1>7 DEF q

-----------------------------------------------------------------------------
(* The domains, and the queue.                                             *)
TypeInv == IInv /\ TypeOK /\ QueueInv

Memories == [NameSet -> [id : Ids, channel : AllChannels \cup {"none"}, hash : Nat]]

\* The first action of a queue that is being worked on.
LEMMA ThisIs ==
  ASSUME TypeInv, pc \in {"execute", "answer"}
  PROVE  /\ queue # <<>> /\ Len(queue) \in Nat \ {0} /\ This = queue[1] /\ This \in Actions(bot)
         /\ bot \in Versions /\ This.name \in NameSet
  BY TailOf, ActionShape, VersionsAre DEF TypeInv, TypeOK, QueueInv, This

LEMMA StartedTypes ==
  ASSUME TypeInv, pc = "poll", NEW v \in Good, Started(v),
         bot' = v, file' = file, v <= file, mtime' \in Versions,
         greeting' \in {"none", "GUILD_CREATE", "RESUMED"}, known' \subseteq GuildChannels,
         lost' \in [NameSet -> Nat]
  PROVE  TypeOK' /\ QueueInv'
<1>1. QueueInv'
  BY StartedQueue DEF QueueInv
<1>2. channels' \subseteq AllChannels
  BY VersionsAre DEF Started, TypeInv, TypeOK, AllChannels
<1>3. /\ UNCHANGED <<managed, answer, posts>> /\ faults' \in 0..MaxFaults
      /\ \/ disk' = [managed |-> managed, channels |-> channels']
         \/ disk' = disk
  BY ManagedAssumption DEF Started, Fault, TypeInv, TypeOK
<1>4. disk'.managed \in Memories /\ disk'.channels \subseteq AllChannels /\ managed' \in Memories
  BY <1>2, <1>3 DEF TypeInv, TypeOK, Memories
<1>5. clean' \in BOOLEAN
  BY DEF Started
<1>6. pc' \in {"poll", "execute"} /\ (pc' = "execute" <=> queue' # <<>>)
  BY DEF Started
<1>7. answer' = "none"
  BY <1>3, NothingAwaited DEF TypeInv
<1> QED
  BY <1>1, <1>2, <1>3, <1>4, <1>5, <1>6, <1>7 DEF TypeInv, TypeOK, Memories

(* A request: the queue waits for its answer.                              *)
LEMMA RequestTypes ==
  ASSUME TypeInv, pc = "execute", pc' = "answer",
         answer' \in {"posted", "edited", "reacted", "failed"},
         faults' = faults \/ Fault, Len(posts') <= MaxPosts, lost' \in [NameSet -> Nat],
         UNCHANGED <<bot, mtime, greeting, stateVars, queue, clean, file>>
  PROVE  TypeOK' /\ QueueInv'
<1>1. faults' \in 0..MaxFaults
  BY ManagedAssumption DEF Fault, TypeInv, TypeOK
<1>2. UNCHANGED <<bot, mtime, greeting, known, managed, channels, disk, queue, clean, file>>
  BY DEF stateVars
<1> QED
  BY <1>1, <1>2 DEF TypeInv, TypeOK, QueueInv

(* The next action, after something was remembered and saved or nothing.   *)
LEMMA NextActionTypes ==
  ASSUME TypeInv, pc \in {"execute", "answer"}, NextAction, answer' = "none",
         UNCHANGED <<bot, mtime, greeting, known, channels, posts, file>>,
         managed' \in Memories, clean' \in BOOLEAN, faults' = faults \/ Fault,
         lost' \in [NameSet -> Nat],
         \/ disk' = [managed |-> managed', channels |-> channels]
         \/ disk' = disk
  PROVE  TypeOK' /\ QueueInv'
<1>1. faults' \in 0..MaxFaults
  BY ManagedAssumption DEF Fault, TypeInv, TypeOK
<1>2. QueueInv'
  BY TailOf, ThisIs DEF NextAction, QueueInv, TypeInv
<1>3. disk'.managed \in Memories /\ disk'.channels \subseteq AllChannels
  BY DEF TypeInv, TypeOK, Memories
<1>4. pc' \in {"poll", "execute"} /\ (pc' = "execute" <=> queue' # <<>>)
  BY DEF NextAction
<1> QED
  BY <1>1, <1>2, <1>3, <1>4 DEF TypeInv, TypeOK, Memories

LEMMA RememberTypes ==
  ASSUME TypeInv, pc = "answer", NEW id \in Ids, Remember(id)
  PROVE  /\ managed' \in Memories /\ clean' \in {clean, FALSE} /\ (faults' = faults \/ Fault)
         /\ \/ disk' = [managed |-> managed', channels |-> channels]
            \/ disk' = disk
<1> DEFINE entry == [id |-> id, channel |-> This.channel, hash |-> This.content]
<1>1. managed' = [managed EXCEPT ![This.name] = entry] /\ SaveState(managed', channels)
  BY Zenon DEF Remember
<1>2. entry \in [id : Ids, channel : AllChannels \cup {"none"}, hash : Nat]
  BY ThisIs, ActionShape
<1>3. managed \in Memories
  BY DEF TypeInv, TypeOK, Memories
<1> HIDE DEF entry
<1>4. managed' \in Memories
  BY <1>1, <1>2, <1>3 DEF Memories
<1>5. \/ disk' = [managed |-> managed', channels |-> channels] /\ faults' = faults /\ clean' = clean
      \/ disk' = disk /\ Fault /\ clean' = FALSE
  BY <1>1, Zenon DEF SaveState
<1> QED
  BY <1>4, <1>5

LEMMA AnswerTypes ==
  ASSUME TypeInv, AnswerArrives, lost' \in [NameSet -> Nat]
  PROVE  TypeOK' /\ QueueInv'
<1>1. /\ pc = "answer" /\ NextAction /\ answer' = "none"
      /\ UNCHANGED <<bot, mtime, greeting, known, channels, posts, file>>
  BY DEF AnswerArrives
<1>2. answer \in {"posted", "edited", "reacted", "failed"} /\ managed \in Memories /\ clean \in BOOLEAN
  BY <1>1 DEF TypeInv, TypeOK, Memories
<1>3. ASSUME NEW id \in Ids, Remember(id)
      PROVE  TypeOK' /\ QueueInv'
  BY <1>1, <1>2, <1>3, RememberTypes, NextActionTypes
<1>4. CASE answer = "posted"
  <2>1. Len(posts) \in Ids /\ Remember(Len(posts))
    BY <1>4, ManagedAssumption DEF AnswerArrives, TypeInv, TypeOK, IInv, PostsInv, Ids
  <2> QED
    BY <1>3, <2>1
<1>5. CASE answer = "edited"
  <2>1. managed[This.name].id \in Ids /\ Remember(managed[This.name].id)
    BY <1>1, <1>2, <1>5, ThisIs DEF AnswerArrives, Memories
  <2> QED
    BY <1>3, <2>1
<1>6. CASE answer \in {"reacted", "failed"}
  <2>1. UNCHANGED <<managed, disk, faults>> /\ clean' \in BOOLEAN
    BY <1>2, <1>6 DEF AnswerArrives
  <2> QED
    BY <1>1, <1>2, <2>1, NextActionTypes
<1> QED
  BY <1>2, <1>4, <1>5, <1>6

LEMMA InitTypes == Init => TypeInv
<1> SUFFICES ASSUME Init
             PROVE  TypeOK /\ QueueInv
  BY InitEstablishes DEF TypeInv
<1>1. 1 \in Good /\ 1 \in Versions
  BY ManagedAssumption, VersionsAre DEF Good
<1>2. QueueInv
  BY EmptySeq DEF QueueInv, IsQueue, Init
<1>3. managed \in Memories /\ disk.managed \in Memories /\ disk.channels \subseteq AllChannels
  BY ManagedAssumption DEF Init, Memories, NoEntry, Ids
<1>4. Len(posts) <= MaxPosts
  BY ManagedAssumption, EmptySeq DEF Init
<1>5. pc = "down" /\ bot \in Good /\ {mtime, file} \subseteq Versions /\ greeting = "none"
      /\ answer = "none" /\ queue = <<>> /\ clean \in BOOLEAN
  BY <1>1 DEF Init
<1>6. known \subseteq GuildChannels /\ channels \subseteq AllChannels /\ faults \in 0..MaxFaults
  BY ManagedAssumption DEF Init
<1>7. lost \in [NameSet -> Nat]
  BY DEF Init
<1> QED
  BY <1>2, <1>3, <1>4, <1>5, <1>6, <1>7 DEF TypeOK, Memories

(* One step per action.                                                    *)
LEMMA TypeInvariance == TypeInv /\ [Next]_vars => TypeInv'
<1> SUFFICES ASSUME TypeInv, [Next]_vars
             PROVE  TypeOK' /\ QueueInv'
  BY Invariance DEF TypeInv
<1>0. lost' \in [NameSet -> Nat]
  BY Invariance DEF TypeInv, IInv, CopiesInv
<1>1. CASE Reload
  <2>1. file \in Good /\ file \in Versions /\ file <= file
    BY <1>1, VersionsAre DEF Reload
  <2> QED
    BY <1>1, <2>1, <1>0, StartedTypes DEF Reload, TypeInv, TypeOK
<1>2. CASE ReloadFails
  BY <1>2 DEF ReloadFails, stateVars, workVars, TypeInv, TypeOK, QueueInv
<1>3. CASE GuildCreate
  BY <1>3, <1>0, StartedTypes DEF GuildCreate, TypeInv, TypeOK, QueueInv
<1>4. CASE Resumed
  BY <1>4, <1>0, StartedTypes DEF Resumed, TypeInv, TypeOK, QueueInv
<1>5. CASE RefuseAction
  <2>1. pc = "execute" /\ NextAction /\ UNCHANGED <<bot, mtime, greeting, known, managed, channels, disk,
                                                    answer, posts, clean, file, faults>>
    BY <1>5 DEF RefuseAction, stateVars
  <2>2. answer = "none"
    BY <2>1, NothingAwaited DEF TypeInv
  <2> QED
    BY <2>1, <2>2, <1>0, NextActionTypes DEF TypeInv, TypeOK, Memories
<1>6. CASE PostMessage
  <2> DEFINE p == [name |-> This.name, channel |-> This.channel, content |-> This.content,
                   live |-> TRUE, seeded |-> FALSE]
             S == {posts[k] : k \in 1..Len(posts)} \cup {p}
  <2>1. posts \in Seq(S) /\ p \in S
    BY PostsDomain, SeqDef DEF TypeInv, IInv, PostsInv
  <2>2. posts' = Append(posts, p) /\ Len(posts) < MaxPosts
    BY <1>6 DEF PostMessage
  <2>3. Len(posts') <= MaxPosts
    BY <2>1, <2>2, AppendProperties, LenProperties, ManagedAssumption
  <2> QED
    BY <1>6, <2>3, <1>0, RequestTypes DEF PostMessage, CarriedOut, Await
<1>7. CASE EditMessage
  <2>1. \/ posts' = [posts EXCEPT ![managed[This.name].id].content = This.content]
        \/ posts' = posts
    BY <1>7 DEF EditMessage
  <2>2. Len(posts') = Len(posts)
    BY <2>1, EditKeepsPosts DEF TypeInv, IInv, SamePosts
  <2> QED
    BY <1>7, <2>2, <1>0, RequestTypes DEF EditMessage, CarriedOut, Await, TypeInv, TypeOK
<1>8. CASE AddReaction
  <2>1. \/ posts' = [posts EXCEPT ![managed[This.name].id].seeded = TRUE]
        \/ posts' = posts
    BY <1>8 DEF AddReaction
  <2>2. Len(posts') = Len(posts)
    BY <2>1, EditKeepsPosts DEF TypeInv, IInv, SamePosts
  <2> QED
    BY <1>8, <2>2, <1>0, RequestTypes DEF AddReaction, CarriedOut, Await, TypeInv, TypeOK
<1>9. CASE AnswerArrives
  BY <1>9, <1>0, AnswerTypes
<1>10. CASE \E resumed \in BOOLEAN : OpenSession(resumed)
  BY <1>10 DEF OpenSession, workVars, TypeInv, TypeOK, QueueInv
<1>11. CASE Start
  <2>1. queue = <<>> /\ answer = "none"
    BY <1>11 DEF Start, TypeInv, TypeOK
  <2>2. QueueInv'
    BY <1>11, <2>1, EmptySeq, VersionsAre DEF Start, workVars, QueueInv, IsQueue
  <2> QED
    BY <1>11, <2>1, <2>2 DEF Start, workVars, TypeInv, TypeOK
<1>12. CASE RequestFails
  BY <1>12, <1>0, RequestTypes DEF RequestFails, Await, TypeInv, TypeOK
<1>13. CASE LoseSession
  <2>1. faults' \in 0..MaxFaults
    BY <1>13, ManagedAssumption DEF LoseSession, Fault, TypeInv, TypeOK
  <2> QED
    BY <1>13, <2>1 DEF LoseSession, stateVars, workVars, TypeInv, TypeOK, QueueInv
<1>14. CASE Crash
  <2>1. faults' \in 0..MaxFaults
    BY <1>14, ManagedAssumption DEF Crash, Fault, TypeInv, TypeOK
  <2>2. QueueInv'
    BY <1>14, EmptySeq DEF Crash, QueueInv, IsQueue, TypeInv
  <2> QED
    BY <1>14, <1>0, <2>1, <2>2 DEF Crash, stateVars, TypeInv, TypeOK
<1>15. CASE \E id \in 1..Len(posts) : DeletePost(id)
  <2>1. PICK id \in 1..Len(posts) : DeletePost(id)
    BY <1>15
  <2>2. faults' \in 0..MaxFaults /\ Len(posts') = Len(posts)
    BY <2>1, EditKeepsPosts, ManagedAssumption DEF DeletePost, Fault, TypeInv, TypeOK, IInv, SamePosts
  <2> QED
    BY <2>1, <2>2 DEF DeletePost, runVars, stateVars, TypeInv, TypeOK, QueueInv
<1>16. CASE EditConfig
  <2>1. file' \in Versions /\ (bot <= file => bot <= file')
    BY <1>16, VersionsAre DEF EditConfig, TypeInv, TypeOK
  <2> QED
    BY <1>16, <2>1 DEF EditConfig, runVars, stateVars, workVars, TypeInv, TypeOK, QueueInv
<1>17. CASE Idle \/ UNCHANGED vars
  BY <1>17 DEF Idle, vars, runVars, stateVars, workVars, TypeInv, TypeOK, QueueInv
<1> QED
  BY <1>1, <1>2, <1>3, <1>4, <1>5, <1>6, <1>7, <1>8, <1>9, <1>10, <1>11, <1>12, <1>13,
     <1>14, <1>15, <1>16, <1>17 DEF Next, RunnerStep, Outside

(* TypeOK for every history: the queue, the memory and the file hold what  *)
(* the configurations read so far can have put there, and an answer is     *)
(* awaited exactly while a request is under way (runner.rs, state.rs).     *)
THEOREM TypeCorrect == Spec => []TypeOK
<1>1. TypeInv => TypeOK
  BY DEF TypeInv
<1> QED
  BY <1>1, InitTypes, TypeInvariance, PTL DEF Spec

-----------------------------------------------------------------------------
(* Config and messages in sync.                                            *)
Covered(n) == Entry(bot, n).channel \in channels

LEMMA PlaceOf ==
  ASSUME IInv, NEW n \in NameSet, NEW m \in {managed, disk.managed}, Tracked(m, n)
  PROVE  m[n].id \in 1..Len(posts) /\ posts[m[n].id].name = n /\ posts[m[n].id].channel = m[n].channel
  BY PostsDomain DEF IInv, MemoryInv, RememberedIsPosted, PostsOf

\* The messages show what they showed.
SameContents == \A id \in 1..Len(posts) : posts'[id].content = posts[id].content

LEMMA HashKept ==
  ASSUME TypeInv, HashInv, SameContents, bot' \in Nat, bot <= bot',
         managed' \in {managed, disk.managed}, disk'.managed \in {managed, disk.managed}
  PROVE  HashInv'
<1>1. bot \in Nat
  BY VersionsAre DEF TypeInv, TypeOK
<1>2. ASSUME NEW n \in NameSet, NEW m \in {managed, disk.managed}, Tracked(m, n)
      PROVE  ShowsVersion(m, n)'
  <2>1. PICK u \in 1..bot, w \in 1..bot : /\ u <= w /\ m[n].hash = Entry(u, n).content
                                         /\ posts[m[n].id].content = Entry(w, n).content
    BY <1>2 DEF HashInv, ShowsVersion
  <2>2. m[n].id \in 1..Len(posts)
    BY <1>2, PlaceOf DEF TypeInv
  <2>3. u \in 1..bot' /\ w \in 1..bot'
    BY <1>1
  <2> QED
    BY <2>1, <2>2, <2>3 DEF ShowsVersion, SameContents, Entry
<1> QED
  BY <1>2 DEF HashInv, Tracked, ShowsVersion

LEMMA HashEdited ==
  ASSUME TypeInv, HashInv, pc = "execute", This.kind = "upsert", UNCHANGED <<managed, disk, bot>>,
         Tracked(managed, This.name),
         posts' = [posts EXCEPT ![managed[This.name].id].content = This.content]
  PROVE  HashInv'
<1>1. bot \in Nat /\ bot \in 1..bot /\ This.name \in NameSet /\ This.content = Entry(bot, This.name).content
  BY ThisIs, ActionShape, VersionsAre DEF TypeInv, TypeOK
<1>2. ASSUME NEW n \in NameSet, NEW m \in {managed, disk.managed}, Tracked(m, n)
      PROVE  ShowsVersion(m, n)'
  <2>1. PICK u \in 1..bot, w \in 1..bot : /\ u <= w /\ m[n].hash = Entry(u, n).content
                                         /\ posts[m[n].id].content = Entry(w, n).content
    BY <1>2 DEF HashInv, ShowsVersion
  <2>2. m[n].id \in DOMAIN posts /\ posts[m[n].id].name = n
    BY <1>2, PlaceOf, PostsDomain DEF TypeInv, IInv
  <2>3. posts[managed[This.name].id].name = This.name
    BY <1>1, PlaceOf DEF TypeInv
  <2>4. CASE m[n].id = managed[This.name].id
    <3>1. n = This.name /\ posts'[m[n].id].content = Entry(bot, n).content
      BY <1>1, <2>2, <2>3, <2>4 DEF TypeInv, IInv, PostsInv, IsPost
    <3>2. u <= bot /\ bot' = bot
      BY <1>1
    <3>3. m[n].hash = Entry(u, n).content
      BY <2>1
    <3> QED
      BY <1>1, <3>1, <3>2, <3>3, Zenon DEF ShowsVersion, Entry
  <2>5. CASE m[n].id # managed[This.name].id
    BY <2>1, <2>2, <2>5 DEF ShowsVersion, Entry
  <2> QED
    BY <2>4, <2>5
<1> QED
  BY <1>2 DEF HashInv, Tracked, ShowsVersion

LEMMA HashRemembered ==
  ASSUME TypeInv, HashInv, pc = "answer", This.kind = "upsert", UNCHANGED <<bot, posts>>,
         NEW id \in Ids, Remember(id), posts[id].content = This.content
  PROVE  HashInv'
<1> DEFINE entry == [id |-> id, channel |-> This.channel, hash |-> This.content]
<1>1. bot \in Nat /\ bot \in 1..bot /\ This.name \in NameSet /\ This.content = Entry(bot, This.name).content
  BY ThisIs, ActionShape, VersionsAre DEF TypeInv, TypeOK
<1>2. managed' = [managed EXCEPT ![This.name] = entry]
  BY Zenon DEF Remember
<1>3. entry.id = id /\ entry.hash = This.content
  OBVIOUS
<1> HIDE DEF entry
<1>4. disk'.managed \in {managed', disk.managed}
  <2>1. \/ disk' = [managed |-> managed', channels |-> channels]
        \/ disk' = disk
    BY RememberTypes
  <2>2. \A m : [managed |-> m, channels |-> channels].managed = m
    OBVIOUS
  <2> QED
    BY <2>1, <2>2
<1>5. ASSUME NEW n \in NameSet, Tracked(managed', n)
      PROVE  ShowsVersion(managed', n)
  <2>1. CASE n = This.name
    <3>1. managed'[n] = entry
      BY <1>2, <2>1 DEF TypeInv, IInv, MemoryInv
    <3> QED
      BY <1>1, <1>3, <2>1, <3>1 DEF ShowsVersion
  <2>2. CASE n # This.name
    <3>1. managed'[n] = managed[n]
      BY <1>2, <2>2 DEF TypeInv, IInv, MemoryInv
    <3> QED
      BY <1>5, <3>1 DEF HashInv, ShowsVersion, Tracked
  <2> QED
    BY <2>1, <2>2
<1>6. \A n \in NameSet : Tracked(disk.managed, n) => ShowsVersion(disk.managed, n)
  BY DEF HashInv
<1> QED
  BY <1>4, <1>5, <1>6 DEF HashInv, Tracked, ShowsVersion, Entry

-----------------------------------------------------------------------------
(* A step that leaves the memory and the queue alone, and of the messages  *)
(* what they show: one may be deleted, or get its reaction.                *)
LEMMA SyncKept ==
  ASSUME TypeInv, SyncInv, SameContents, UNCHANGED <<bot, managed, channels, queue>>,
         clean' => clean, pc' \notin {"down", "connect"},
         \A id \in 1..Len(posts) : /\ posts'[id].live => posts[id].live
                                   /\ posts[id].seeded => posts'[id].seeded
  PROVE  SyncInv'
<1>1. \A n \in NameSet : Tracked(managed, n) => managed[n].id \in 1..Len(posts)
  BY PlaceOf DEF TypeInv
<1>2. \A n \in NameSet : Shown(n) => Shown(n)'
  BY <1>1 DEF Shown, InPlace, Tracked, SameContents, Entry
<1>3. \A n \in NameSet : Reacted(n) => Reacted(n)'
  BY <1>1 DEF Reacted, InPlace, Tracked, Live, Entry
<1> QED
  BY <1>2, <1>3 DEF SyncInv, Queued, Upsert, Reaction, Entry

LEMMA SyncEdited ==
  ASSUME TypeInv, SyncInv, pc = "execute", This.kind = "upsert", UNCHANGED <<bot, managed, channels, queue>>,
         clean' => clean, pc' \notin {"down", "connect"}, Tracked(managed, This.name),
         posts' = [posts EXCEPT ![managed[This.name].id].content = This.content]
  PROVE  SyncInv'
<1>1. This.name \in NameSet /\ This.content = Entry(bot, This.name).content
  BY ThisIs, ActionShape
<1>2. posts[managed[This.name].id].name = This.name
  BY <1>1, PlaceOf DEF TypeInv
<1>3. \A n \in NameSet : Tracked(managed, n) =>
         managed[n].id \in DOMAIN posts /\ posts[managed[n].id].name = n /\ IsPost(posts[managed[n].id])
  BY PlaceOf, PostsDomain DEF TypeInv, IInv, PostsInv
<1>4. ASSUME NEW n \in NameSet, Shown(n)
      PROVE  Shown(n)'
  <2>1. CASE managed[n].id = managed[This.name].id
    <3>1. Tracked(managed, n) /\ n = This.name
      BY <1>2, <1>3, <1>4, <2>1 DEF Shown
    <3>2. posts'[managed[n].id].content = Entry(bot, n).content
      <4>1. managed[n].id \in DOMAIN posts /\ IsPost(posts[managed[n].id])
        BY <1>3, <3>1
      <4>2. posts' = [posts EXCEPT ![managed[n].id].content = Entry(bot, n).content]
        BY <1>1, <3>1
      <4> QED
        BY <4>1, <4>2 DEF IsPost
    <3> QED
      BY <3>1, <3>2 DEF Shown, Tracked, Entry
  <2>2. CASE managed[n].id # managed[This.name].id
    BY <1>3, <1>4, <2>2 DEF Shown, InPlace, Tracked, Entry
  <2> QED
    BY <2>1, <2>2
<1>5. ASSUME NEW n \in NameSet, Reacted(n)
      PROVE  Reacted(n)'
  <2>1. /\ posts'[managed[n].id].live = posts[managed[n].id].live
        /\ posts'[managed[n].id].seeded = posts[managed[n].id].seeded
    BY <1>3, <1>5 DEF Reacted, IsPost
  <2> QED
    BY <1>5, <2>1 DEF Reacted, InPlace, Tracked, Live, Entry
<1> QED
  BY <1>4, <1>5 DEF SyncInv, Queued, Upsert, Reaction, Entry

(* The first action is done with: what it was for holds now, and every     *)
(* other action is still in the queue.                                     *)
LEMMA SyncNext ==
  ASSUME TypeInv, SyncInv, clean, pc \in {"execute", "answer"}, NextAction,
         UNCHANGED <<bot, channels, posts>>,
         \A n \in NameSet : This # Upsert(bot, n) => managed'[n] = managed[n],
         \A n \in NameSet : Covered(n) /\ This = Upsert(bot, n) => Shown(n)',
         \A n \in NameSet : Covered(n) /\ This = Reaction(bot, n) /\ Shown(n) => Reacted(n)
  PROVE  SyncInv'
<1>1. /\ queue' = Tail(queue) /\ Len(queue) \in Nat \ {0} /\ This = queue[1]
      /\ Len(queue') = Len(queue) - 1 /\ \A i \in 1..Len(queue') : queue'[i] = queue[i + 1]
      /\ \A i, j \in 1..Len(queue) : i < j /\ queue[i].kind = "react" => queue[j].kind = "react"
      /\ pc' \notin {"down", "connect"}
  BY TailOf, ThisIs DEF NextAction, TypeInv, QueueInv, IsQueue
<1>2. ASSUME NEW a, Queued(a), a # This
      PROVE  Queued(a)'
  <2>1. PICK i \in 1..Len(queue) : queue[i] = a
    BY <1>2 DEF Queued
  <2>2. i - 1 \in 1..(Len(queue) - 1) /\ (i - 1) + 1 = i
    BY <1>1, <1>2, <2>1
  <2>3. i - 1 \in 1..Len(queue') /\ queue'[i - 1] = a
    BY <1>1, <2>1, <2>2
  <2> QED
    BY <2>3 DEF Queued
<1>3. \A i \in 1..Len(queue) : This.kind = "react" => queue[i].kind = "react"
  <2> SUFFICES ASSUME NEW i \in 1..Len(queue), This.kind = "react"
               PROVE  queue[i].kind = "react"
    OBVIOUS
  <2>1. CASE i = 1
    BY <1>1, <2>1
  <2>2. CASE i # 1
    <3>1. 1 \in 1..Len(queue) /\ 1 < i
      BY <1>1, <2>2
    <3> QED
      BY <1>1, <3>1
  <2> QED
    BY <2>1, <2>2
<1>4. \A n : Upsert(bot, n).kind = "upsert" /\ Reaction(bot, n).kind = "react"
  BY DEF Upsert, Reaction
<1>5. ASSUME NEW n \in NameSet, Covered(n)
      PROVE  /\ Shown(n)' \/ Queued(Upsert(bot, n))'
             /\ n \in Seeded => Reacted(n)' \/ Queued(Reaction(bot, n))'
  <2>1. /\ Shown(n) \/ Queued(Upsert(bot, n))
        /\ n \in Seeded => Reacted(n) \/ Queued(Reaction(bot, n))
    BY <1>5 DEF SyncInv, Covered
  <2>2. This # Upsert(bot, n) => (Shown(n) => Shown(n)') /\ (Reacted(n) => Reacted(n)')
    BY DEF Shown, Reacted, InPlace, Tracked, Live, Entry
  <2>3. CASE This = Upsert(bot, n)
    <3>1. Shown(n)'
      BY <1>5, <2>3
    <3>2. This # Reaction(bot, n)
      BY <1>4, <2>3
    <3>3. n \in Seeded => Queued(Reaction(bot, n))
      <4>1. 1 \in 1..Len(queue) /\ queue[1].kind = "upsert"
        BY <1>1, <1>4, <2>3
      <4> QED
        BY <4>1 DEF SyncInv
    <3> QED
      BY <1>2, <3>1, <3>2, <3>3
  <2>4. CASE This = Reaction(bot, n)
    <3>1. Shown(n)
      BY <1>3, <1>4, <2>1, <2>4 DEF Queued
    <3>2. This # Upsert(bot, n)
      BY <1>4, <2>4
    <3> QED
      BY <1>5, <2>2, <2>4, <3>1, <3>2
  <2>5. CASE This # Upsert(bot, n) /\ This # Reaction(bot, n)
    BY <1>2, <2>1, <2>2, <2>5
  <2> QED
    BY <2>3, <2>4, <2>5
<1>6. ASSUME NEW i \in 1..Len(queue'), queue'[i].kind = "upsert", NEW n \in Seeded
      PROVE  Queued(Reaction(bot, n))'
  <2>1. i + 1 \in 1..Len(queue) /\ queue[i + 1].kind = "upsert"
    BY <1>1, <1>6
  <2>2. This.kind # "react" /\ Queued(Reaction(bot, n))
    BY <1>3, <2>1 DEF SyncInv
  <2> QED
    BY <1>2, <1>4, <2>2
<1> QED
  BY <1>1, <1>5, <1>6 DEF SyncInv, Covered, Upsert, Reaction, Entry, Queued

(* Started, with nothing dropped: a message that is as the state remembers *)
(* it shows what it should, and every other has its action in the queue.   *)
LEMMA SyncStarted ==
  ASSUME TypeInv, HashInv, NoContentReturns, NEW v \in Good, bot <= v, bot' = v, Started(v)
  PROVE  SyncInv'
<1>1. UNCHANGED <<managed, posts>> /\ pc' \in {"poll", "execute"}
  BY DEF Started
<1> SUFFICES ASSUME clean'
             PROVE  /\ \A n \in NameSet : Entry(v, n).channel \in channels' =>
                          /\ Shown(n)' \/ \E i \in 1..Len(queue') : queue'[i] = Upsert(v, n)
                          /\ n \in Seeded => \E i \in 1..Len(queue') : queue'[i] = Reaction(v, n)
                    /\ \A n \in Seeded : \E i \in 1..Len(queue') : queue'[i] = Reaction(v, n)
  BY <1>1 DEF SyncInv, Queued, Upsert, Reaction, Entry
<1>2. /\ \A n \in NameSet : AsRemembered(v, n, channels')
                              \/ \E i \in 1..Len(queue') : queue'[i] = Upsert(v, n)
      /\ \A n \in Seeded : \E i \in 1..Len(queue') : queue'[i] = Reaction(v, n)
  BY StartedQueue, StartedQueues
<1>3. ASSUME NEW n \in NameSet, AsRemembered(v, n, channels')
      PROVE  Shown(n)'
  <2>1. v \in Versions /\ bot \in Versions /\ bot \in Nat /\ v \in Nat /\ 1..bot \subseteq Versions
    BY VersionsAre DEF TypeInv, TypeOK
  <2>2. managed[n].hash = Entry(v, n).content /\ managed[n].channel = Entry(v, n).channel
    BY <1>3 DEF AsRemembered
  <2>3. Tracked(managed, n)
    <3>1. Upsert(v, n) \in Actions(v) /\ Upsert(v, n).channel = Entry(v, n).channel
      BY DEF Actions, Upsert
    <3>2. Entry(v, n).channel # "none"
      BY <2>1, <3>1, ActionShape
    <3> QED
      BY <2>2, <3>2 DEF Tracked, NoEntry
  <2>4. PICK u \in 1..bot, w \in 1..bot : /\ u <= w /\ managed[n].hash = Entry(u, n).content
                                         /\ posts[managed[n].id].content = Entry(w, n).content
    BY <2>3 DEF HashInv, ShowsVersion
  <2>5. Entry(w, n).content = Entry(v, n).content
    <3>1. CASE w = v \/ u = w
      BY <2>2, <2>4, <3>1
    <3>2. CASE u # w /\ w # v
      <4>1. u < w /\ w < v /\ u \in Versions /\ w \in Versions
        BY <2>1, <2>4, <3>2
      <4> QED
        BY <2>1, <2>2, <2>4, <4>1 DEF NoContentReturns
    <3> QED
      BY <3>1, <3>2
  <2> QED
    BY <1>1, <2>3, <2>4, <2>5 DEF Shown, Tracked, Entry
<1> QED
  BY <1>2, <1>3

-----------------------------------------------------------------------------
WholeInv == TypeInv /\ DoneInv /\ HashInv /\ (NoContentReturns => SyncInv)

\* Where posts are added, or change at most in being live or in their reaction.
LEMMA OtherContents ==
  ASSUME PostsInv, NEW id, NEW value,
         \/ posts' = [posts EXCEPT ![id].seeded = value]
         \/ posts' = [posts EXCEPT ![id].live = value]
         \/ posts' = posts
  PROVE  /\ SameContents
         /\ \A k \in 1..Len(posts) :
              /\ (posts' = [posts EXCEPT ![id].seeded = value]) => posts'[k].live = posts[k].live
              /\ (posts' = [posts EXCEPT ![id].live = value]) => posts'[k].seeded = posts[k].seeded
  BY PostsDomain DEF PostsInv, IsPost, SameContents

LEMMA StartedSync ==
  ASSUME WholeInv, pc = "poll", NEW v \in Good, bot <= v, bot' = v, Started(v)
  PROVE  DoneInv' /\ HashInv' /\ (NoContentReturns => SyncInv')
<1>1. answer' = "none" /\ UNCHANGED <<managed, posts>>
  BY NothingAwaited DEF Started, WholeInv, TypeInv
<1>2. disk'.managed \in {managed, disk.managed}
  <2>1. \A m, c : [managed |-> m, channels |-> c].managed = m
    OBVIOUS
  <2>2. (\E c : disk' = [managed |-> managed, channels |-> c]) \/ disk' = disk
    BY DEF Started
  <2> QED
    BY <2>1, <2>2
<1>3. v \in Nat
  BY VersionsAre
<1> QED
  BY <1>1, <1>2, <1>3, HashKept, SyncStarted DEF WholeInv, DoneInv, SameContents

LEMMA PostSync ==
  ASSUME WholeInv, PostMessage
  PROVE  DoneInv' /\ HashInv' /\ (NoContentReturns => SyncInv')
<1> DEFINE p == [name |-> This.name, channel |-> This.channel, content |-> This.content,
                 live |-> TRUE, seeded |-> FALSE]
           S == {posts[k] : k \in 1..Len(posts)} \cup {p}
<1>1. /\ posts' = Append(posts, p) /\ UNCHANGED <<bot, managed, channels, disk, queue, clean>>
      /\ pc' = "answer" /\ answer' \in {"posted", "failed"} /\ This.kind = "upsert"
  BY DEF PostMessage, CarriedOut, Await, stateVars
<1>2. posts \in Seq(S) /\ p \in S
  BY PostsDomain, SeqDef DEF WholeInv, TypeInv, IInv, PostsInv
<1>3. /\ posts'[Len(posts')] = p /\ \A k \in 1..Len(posts) : posts'[k] = posts[k]
  <2>1. /\ Len(posts') = Len(posts) + 1 /\ posts'[Len(posts) + 1] = p
        /\ \A k \in 1..Len(posts) : posts'[k] = posts[k]
    BY <1>1, <1>2, AppendProperties
  <2> QED
    BY <2>1
<1>4. DoneInv'
  BY <1>1, <1>3 DEF DoneInv, This
<1>5. bot \in Nat
  BY VersionsAre DEF WholeInv, TypeInv, TypeOK
<1> QED
  BY <1>1, <1>3, <1>4, <1>5, HashKept, SyncKept DEF WholeInv, SameContents

LEMMA EditSync ==
  ASSUME WholeInv, EditMessage
  PROVE  DoneInv' /\ HashInv' /\ (NoContentReturns => SyncInv')
<1>1. /\ UNCHANGED <<bot, managed, channels, disk, queue, clean>> /\ pc = "execute" /\ pc' = "answer"
      /\ answer' \in {"edited", "failed"} /\ This.kind = "upsert" /\ Tracked(managed, This.name)
      /\ \/ posts' = [posts EXCEPT ![managed[This.name].id].content = This.content]
         \/ posts' = posts /\ answer' = "failed"
  BY DEF EditMessage, CarriedOut, Await, stateVars
<1>2. bot \in Nat
  BY VersionsAre DEF WholeInv, TypeInv, TypeOK
<1>3. CASE posts' = posts /\ answer' = "failed"
  BY <1>1, <1>2, <1>3, HashKept, SyncKept DEF WholeInv, SameContents, DoneInv
<1>4. CASE posts' = [posts EXCEPT ![managed[This.name].id].content = This.content]
  <2>1. managed[This.name].id \in DOMAIN posts /\ IsPost(posts[managed[This.name].id])
    <3>1. This.name \in NameSet
      BY <1>1, ThisIs DEF WholeInv
    <3> QED
      BY <1>1, <3>1, PlaceOf, PostsDomain DEF WholeInv, TypeInv, IInv, PostsInv
  <2>2. posts'[managed[This.name].id].content = This.content
    BY <1>4, <2>1 DEF IsPost
  <2>3. DoneInv'
    BY <1>1, <2>2 DEF DoneInv, This
  <2>4. HashInv' /\ (NoContentReturns => SyncInv')
    BY <1>1, <1>4, HashEdited, SyncEdited DEF WholeInv
  <2> QED
    BY <2>3, <2>4
<1> QED
  BY <1>1, <1>3, <1>4

LEMMA ReactSync ==
  ASSUME WholeInv, AddReaction
  PROVE  DoneInv' /\ HashInv' /\ (NoContentReturns => SyncInv')
<1> DEFINE id == managed[This.name].id
<1>1. /\ UNCHANGED <<bot, managed, channels, disk, queue, clean>> /\ pc = "execute" /\ pc' = "answer"
      /\ answer' \in {"reacted", "failed"} /\ This.kind = "react" /\ Tracked(managed, This.name)
      /\ \/ posts' = [posts EXCEPT ![id].seeded = TRUE]
         \/ posts' = posts /\ answer' = "failed"
  BY DEF AddReaction, CarriedOut, Await, stateVars, Refused
<1>2. id \in DOMAIN posts /\ IsPost(posts[id])
  <2>1. This.name \in NameSet
    BY <1>1, ThisIs DEF WholeInv
  <2> QED
    BY <1>1, <2>1, PlaceOf, PostsDomain DEF WholeInv, TypeInv, IInv, PostsInv
<1>3. bot \in Nat
  BY VersionsAre DEF WholeInv, TypeInv, TypeOK
<1> HIDE DEF id
<1>4. SameContents /\ \A k \in 1..Len(posts) : posts'[k].live = posts[k].live
                                             /\ (posts[k].seeded => posts'[k].seeded)
  BY <1>1, <1>2, PostsDomain DEF WholeInv, TypeInv, IInv, PostsInv, IsPost, SameContents
<1>5. answer' = "reacted" => posts'[id].seeded
  BY <1>1, <1>2 DEF IsPost
<1>6. DoneInv'
  BY <1>1, <1>5 DEF DoneInv, This, id
<1> QED
  BY <1>1, <1>3, <1>4, <1>6, HashKept, SyncKept DEF WholeInv

(* A success is remembered: the hash and the message are of this version.  *)
LEMMA RememberSync ==
  ASSUME WholeInv, pc = "answer", NextAction, answer' = "none", This.kind = "upsert",
         UNCHANGED <<bot, channels, posts>>,
         NEW id \in Ids, Remember(id), posts[id].content = This.content
  PROVE  DoneInv' /\ HashInv' /\ (NoContentReturns => SyncInv')
<1> DEFINE entry == [id |-> id, channel |-> This.channel, hash |-> This.content]
<1>1. DoneInv' /\ HashInv'
  BY HashRemembered DEF DoneInv, WholeInv
<1>2. managed' = [managed EXCEPT ![This.name] = entry] /\ DOMAIN managed = NameSet
  BY Zenon DEF Remember, WholeInv, TypeInv, IInv, MemoryInv
<1>3. clean' => clean
  BY RememberTypes DEF WholeInv
<1>4. /\ bot \in Versions /\ This \in Actions(bot) /\ This.name \in NameSet
      /\ This.content = Entry(bot, This.name).content /\ This = Upsert(bot, This.name)
      /\ This.channel # "none"
  BY ThisIs, ActionShape DEF WholeInv
<1>5. entry.id = id /\ entry.channel = This.channel
  OBVIOUS
<1> HIDE DEF entry
<1>6. ASSUME NEW n \in NameSet, This = Upsert(bot, n)
      PROVE  Shown(n)'
  <2>1. n = This.name /\ managed'[n] = entry
    BY <1>2, <1>6 DEF Upsert
  <2> QED
    BY <1>4, <1>5, <2>1 DEF Shown, Tracked, NoEntry, Entry
<1>7. \A n \in NameSet : This # Upsert(bot, n) => managed'[n] = managed[n]
  BY <1>2, <1>4
<1>8. \A n : This # Reaction(bot, n)
  BY DEF Reaction
<1>9. ASSUME NoContentReturns, clean'
      PROVE  SyncInv'
  BY <1>3, <1>6, <1>7, <1>8, <1>9, SyncNext DEF WholeInv
<1> QED
  BY <1>1, <1>9 DEF SyncInv

LEMMA AnswerSync ==
  ASSUME WholeInv, AnswerArrives
  PROVE  DoneInv' /\ HashInv' /\ (NoContentReturns => SyncInv')
<1>1. /\ pc = "answer" /\ NextAction /\ answer' = "none" /\ UNCHANGED <<bot, channels, posts>>
  BY DEF AnswerArrives
<1>2. answer \in {"posted", "edited", "reacted", "failed"}
  BY <1>1 DEF WholeInv, TypeInv, TypeOK
<1>3. bot \in Nat
  BY VersionsAre DEF WholeInv, TypeInv, TypeOK
<1>4. CASE answer = "posted"
  <2>1. Len(posts) \in Ids /\ Remember(Len(posts))
    BY <1>4, ManagedAssumption DEF AnswerArrives, WholeInv, TypeInv, TypeOK, IInv, PostsInv, Ids
  <2> QED
    BY <1>1, <1>4, <2>1, RememberSync DEF WholeInv, DoneInv
<1>5. CASE answer = "edited"
  <2>1. managed[This.name].id \in Ids /\ Remember(managed[This.name].id)
    BY <1>1, <1>5, ThisIs DEF AnswerArrives, WholeInv, TypeInv, TypeOK
  <2> QED
    BY <1>1, <1>5, <2>1, RememberSync DEF WholeInv, DoneInv
<1>6. CASE answer \in {"reacted", "failed"}
  <2>1. /\ UNCHANGED <<managed, disk>> /\ (answer = "failed" => ~clean') /\ (clean' => clean)
        /\ (clean' => answer = "reacted")
    BY <1>6 DEF AnswerArrives
  <2>2. DoneInv' /\ HashInv'
    BY <1>1, <1>3, <2>1, HashKept DEF WholeInv, DoneInv, SameContents
  <2>3. ASSUME NoContentReturns, clean'
        PROVE  SyncInv'
    <3>1. This.kind = "react" /\ posts[managed[This.name].id].seeded
      BY <2>1, <2>3 DEF WholeInv, DoneInv
    <3>2. \A n : This # Upsert(bot, n)
      BY <3>1 DEF Upsert
    <3>3. \A n \in NameSet : This = Reaction(bot, n) /\ Shown(n) => Reacted(n)
      BY <3>1 DEF Reaction, Shown, Reacted
    <3> QED
      BY <1>1, <2>1, <2>3, <3>2, <3>3, SyncNext DEF WholeInv
  <2> QED
    BY <2>2, <2>3 DEF SyncInv
<1> QED
  BY <1>2, <1>4, <1>5, <1>6

(* An action is refused for want of its channel, or because the message is *)
(* remembered elsewhere; a reaction never for want of its message.         *)
LEMMA RefuseSync ==
  ASSUME WholeInv, RefuseAction
  PROVE  DoneInv' /\ HashInv' /\ (NoContentReturns => SyncInv')
<1>1. /\ pc = "execute" /\ NextAction /\ Refused(This)
      /\ UNCHANGED <<bot, managed, channels, disk, answer, posts, clean>>
  BY DEF RefuseAction, stateVars
<1>2. bot \in Nat /\ answer = "none"
  BY <1>1, VersionsAre, NothingAwaited DEF WholeInv, TypeInv, TypeOK
<1>3. DoneInv' /\ HashInv'
  BY <1>1, <1>2, HashKept DEF WholeInv, DoneInv, SameContents
<1>4. ASSUME NEW n \in NameSet, Covered(n), This = Upsert(bot, n)
      PROVE  Shown(n)'
  BY <1>1, <1>4 DEF Refused, Covered, Upsert, Shown, InPlace, Tracked, Entry
<1>5. ASSUME NEW n \in NameSet, Covered(n), This = Reaction(bot, n), Shown(n)
      PROVE  Reacted(n)
  BY <1>1, <1>5 DEF Refused, Covered, Reaction, Shown
<1>6. ASSUME NoContentReturns, clean'
      PROVE  SyncInv'
  BY <1>1, <1>4, <1>5, <1>6, SyncNext DEF WholeInv
<1> QED
  BY <1>3, <1>6 DEF SyncInv

(* Steps that leave what the messages show and what the runner remembers.  *)
LEMMA QuietSync ==
  ASSUME WholeInv, DoneInv', SameContents, bot' = bot, disk' = disk, managed' = managed,
         \/ clean' = FALSE
         \/ /\ UNCHANGED <<channels, queue, clean>> /\ pc' \notin {"down", "connect"}
            /\ \A id \in 1..Len(posts) : /\ posts'[id].live => posts[id].live
                                         /\ posts[id].seeded => posts'[id].seeded
         \/ UNCHANGED clean /\ pc \in {"down", "connect"}
  PROVE  DoneInv' /\ HashInv' /\ (NoContentReturns => SyncInv')
<1>1. bot \in Nat
  BY VersionsAre DEF WholeInv, TypeInv, TypeOK
<1>2. HashInv'
  BY <1>1, HashKept DEF WholeInv
<1>3. ASSUME NoContentReturns, clean'
      PROVE  SyncInv'
  BY <1>3, SyncKept DEF WholeInv, SyncInv
<1> QED
  BY <1>2, <1>3 DEF SyncInv

LEMMA StartSync ==
  ASSUME WholeInv, Start
  PROVE  DoneInv' /\ HashInv' /\ (NoContentReturns => SyncInv')
<1>1. /\ pc = "down" /\ bot' = file /\ managed' = disk.managed /\ UNCHANGED <<disk, answer, posts, clean>>
  BY DEF Start, workVars
<1>2. answer = "none" /\ file \in Nat /\ bot <= file
  BY <1>1, NothingAwaited, VersionsAre DEF WholeInv, TypeInv, TypeOK, QueueInv
<1>3. HashInv'
  BY <1>1, <1>2, HashKept DEF WholeInv, SameContents
<1> QED
  BY <1>1, <1>2, <1>3 DEF WholeInv, DoneInv, SyncInv

LEMMA InitSync == Init => WholeInv
<1> SUFFICES ASSUME Init
             PROVE  DoneInv /\ HashInv /\ SyncInv
  BY InitTypes DEF WholeInv
<1>1. answer = "none" /\ ~clean /\ \A n \in NameSet : ~Tracked(managed, n) /\ ~Tracked(disk.managed, n)
  BY DEF Init, Tracked
<1> QED
  BY <1>1 DEF DoneInv, HashInv, SyncInv

(* One step per action.                                                    *)
LEMMA SyncInvariance == WholeInv /\ [Next]_vars => WholeInv'
<1> SUFFICES ASSUME WholeInv, [Next]_vars
             PROVE  DoneInv' /\ HashInv' /\ (NoContentReturns => SyncInv')
  BY TypeInvariance DEF WholeInv
<1>1. CASE Reload
  BY <1>1, StartedSync DEF Reload, WholeInv, TypeInv, QueueInv
<1>2. CASE ReloadFails
  BY <1>2, QuietSync DEF ReloadFails, stateVars, workVars, WholeInv, DoneInv, This, SameContents
<1>3. CASE GuildCreate \/ Resumed
  <2>1. bot \in Good /\ bot <= bot
    BY VersionsAre DEF WholeInv, TypeInv, TypeOK
  <2> QED
    BY <1>3, <2>1, StartedSync DEF GuildCreate, Resumed
<1>4. CASE RefuseAction
  BY <1>4, RefuseSync
<1>5. CASE PostMessage
  BY <1>5, PostSync
<1>6. CASE EditMessage
  BY <1>6, EditSync
<1>7. CASE AddReaction
  BY <1>7, ReactSync
<1>8. CASE AnswerArrives
  BY <1>8, AnswerSync
<1>9. CASE \E resumed \in BOOLEAN : OpenSession(resumed)
  BY <1>9, QuietSync DEF OpenSession, workVars, WholeInv, DoneInv, This, SameContents
<1>10. CASE Start
  BY <1>10, StartSync
<1>11. CASE RequestFails
  BY <1>11, QuietSync DEF RequestFails, Await, stateVars, DoneInv, SameContents
<1>12. CASE LoseSession
  BY <1>12, QuietSync DEF LoseSession, stateVars, workVars, WholeInv, DoneInv, This, SameContents
<1>13. CASE Crash
  BY <1>13, QuietSync DEF Crash, stateVars, DoneInv, SameContents
<1>14. CASE \E id \in 1..Len(posts) : DeletePost(id)
  <2>1. PICK id \in 1..Len(posts) : DeletePost(id)
    BY <1>14
  <2>2. /\ UNCHANGED <<pc, bot, managed, channels, disk, queue, answer, clean>>
        /\ posts' = [posts EXCEPT ![id].live = FALSE]
    BY <2>1 DEF DeletePost, runVars, stateVars
  <2>3. SameContents /\ \A k \in 1..Len(posts) : /\ posts'[k].live => posts[k].live
                                                /\ posts'[k].seeded = posts[k].seeded
    BY <2>2, PostsDomain DEF WholeInv, TypeInv, IInv, PostsInv, IsPost, SameContents
  <2>4. Len(posts') = Len(posts)
    BY <2>2, EditKeepsPosts DEF WholeInv, TypeInv, IInv, SamePosts
  <2>5. /\ answer = "posted" => Len(posts) \in 1..Len(posts)
        /\ answer \in {"edited", "reacted"} => managed[This.name].id \in 1..Len(posts)
    <3>1. answer = "posted" => Len(posts) \in 1..Len(posts)
      BY DEF WholeInv, TypeInv, IInv, AnswerInv, PostsInv
    <3>2. answer \in {"edited", "reacted"} => This.name \in NameSet /\ Tracked(managed, This.name)
      BY ThisIs DEF WholeInv, TypeInv, TypeOK, IInv, AnswerInv, DoneInv
    <3> QED
      BY <3>1, <3>2, PlaceOf DEF WholeInv, TypeInv
  <2>6. DoneInv'
    BY <2>2, <2>3, <2>4, <2>5 DEF WholeInv, DoneInv, This, SameContents
  <2> QED
    BY <2>2, <2>3, <2>6, QuietSync DEF WholeInv, SyncInv
<1>15. CASE EditConfig \/ Idle \/ UNCHANGED vars
  <2>1. UNCHANGED <<pc, bot, managed, channels, disk, queue, answer, posts, clean>>
    BY <1>15 DEF EditConfig, Idle, vars, runVars, stateVars, workVars
  <2>2. DoneInv'
    BY <2>1 DEF WholeInv, DoneInv, This
  <2> QED
    BY <2>1, <2>2, QuietSync DEF WholeInv, SyncInv, SameContents
<1> QED
  BY <1>1, <1>2, <1>3, <1>4, <1>5, <1>6, <1>7, <1>8, <1>9, <1>10, <1>11, <1>12, <1>13,
     <1>14, <1>15 DEF Next, RunnerStep, Outside

(* CleanIsInSync for every history: while config.json never goes back to   *)
(* an earlier content, the comparison with the hash in state.tsv           *)
(* (host.rs:106) and the order of the queue (kippe/src/main.rs:29) leave   *)
(* every message whose channel is known in sync, unless an action failed   *)
(* or was dropped since the last Started; lost answers, failed saves and   *)
(* crashes before that do not matter.                                      *)
THEOREM SyncIsKept == Spec => []CleanIsInSync
<1>1. WholeInv => CleanIsInSync
  <2> SUFFICES ASSUME WholeInv, NoContentReturns, clean, pc = "poll",
                      NEW n \in NameSet, Entry(bot, n).channel \in channels
               PROVE  InSync(n)
    BY DEF CleanIsInSync, StaysInSync
  <2>1. queue = <<>> /\ Len(queue) = 0
    BY EmptySeq DEF WholeInv, TypeInv, TypeOK
  <2>2. Shown(n) /\ (n \in Seeded => Reacted(n))
    BY <2>1 DEF WholeInv, SyncInv, Queued
  <2> QED
    BY <2>2 DEF InSync, Shown, Reacted, InPlace
<1> QED
  BY <1>1, InitSync, SyncInvariance, PTL DEF Spec
=============================================================================
