----------------------------- MODULE EventFeed ------------------------------
(***************************************************************************)
(* What gateway/mod.rs promises the bot (its cursor and SessData, carried  *)
(* across resumes): the gateway keeps one stream of dispatches per         *)
(* session, and the bot handles the events of the stream it follows in     *)
(* their order, none twice and none left out, until it follows a later     *)
(* one; what was left is lost, and never comes back out of order.          *)
(***************************************************************************)
EXTENDS Integers, Sequences

CONSTANTS
  MaxSessions, \* bound: sessions the gateway ever creates
  MaxEvents    \* bound: events that happen in the guild

VARIABLES
  streams, \* per session: the events sent, 0 for a dispatch that is none
  follows, \* the session the bot follows, 0 for none, and its place in the stream
  newest,  \* the last session it followed
  handled  \* the events the bot has handled, in order

vars == <<streams, follows, newest, handled>>

Streams == 1..MaxSessions
Nowhere == [sid |-> 0, seq |-> 0]

Init ==
  /\ streams = [s \in Streams |-> <<>>]
  /\ follows = Nowhere /\ newest = 0 /\ handled = <<>>

Event(s, i) == streams[s][i]

\* Nothing like it has been sent before, and no later session has begun.
IsNew(s, e) ==
  /\ \A t \in Streams : t > s => streams[t] = <<>>
  /\ \A t \in Streams : \A i \in 1..Len(streams[t]) : Event(t, i) < e

Send(s, e) ==
  /\ streams[s] # <<>> /\ (e = 0 \/ IsNew(s, e))
  /\ streams' = [streams EXCEPT ![s] = Append(@, e)]
  /\ UNCHANGED <<follows, newest, handled>>

\* A session begins with READY and GUILD_CREATE.
Begin(s) ==
  /\ streams[s] = <<>>
  /\ streams' = [streams EXCEPT ![s] = <<0, 0>>]
  /\ UNCHANGED <<follows, newest, handled>>

\* The bot is given a session it has not followed before, at its READY.
Follow(s) ==
  /\ s > newest /\ streams[s] # <<>>
  /\ newest' = s
  /\ follows' = [sid |-> s, seq |-> 1]
  /\ UNCHANGED <<streams, handled>>

HandleNext ==
  /\ follows.sid # 0 /\ follows.seq < Len(streams[follows.sid])
  /\ follows' = [follows EXCEPT !.seq = @ + 1]
  /\ LET e == Event(follows.sid, follows.seq + 1)
     IN  handled' = IF e = 0 THEN handled ELSE Append(handled, e)
  /\ UNCHANGED <<streams, newest>>

GiveUp ==
  /\ follows' = Nowhere
  /\ UNCHANGED <<streams, newest, handled>>

Next ==
  \/ \E s \in Streams : \/ \E e \in 0..MaxEvents : Send(s, e)
                        \/ Begin(s) \/ Follow(s)
  \/ HandleNext \/ GiveUp

Spec == Init /\ [][Next]_vars
=============================================================================
