------------------------ MODULE GatewaySessionProofs ------------------------
(***************************************************************************)
(* The safety of GatewaySession for every number of sessions, events and   *)
(* faults: one invariant, of which each property is a consequence; that    *)
(* GatewaySession implements EventFeed; and what the feed means for the    *)
(* bot.                                                                    *)
(***************************************************************************)
EXTENDS GatewaySession, SequenceTheorems, TLAPS

\* Which place holds the session data; everywhere else there is none.
DataPlaced ==
  /\ session # NoData => pc \in {"poll", "fatal"}
  /\ opening # NoData => pc = "handshake"
  /\ resumeData # NoData => pc \in {"retry", "start"}
  /\ pc = "poll" => session # NoData

\* What the client holds is the newest session, and its cursor is in its log.
HeldIsCurrent ==
  Held # NoData => /\ Held.sid = current /\ current = given /\ current # 0
                   /\ Held.seq \in 1..Len(log[current])

\* Between two connections nothing is on its way, and a request is the first thing on one.
Requests ==
  /\ pc \in {"start", "handshake", "retry"} \/ (pc = "fatal" /\ session = NoData) =>
       request = NoRequest /\ wire = <<>> /\ ~conn
  /\ request # NoRequest => wire = <<>> /\ ~conn
  /\ request.op = "identify" => pc = "awaitReady"
  /\ request.op = "resume" =>
       session # NoData /\ request.sid = session.sid /\ request.seq = session.seq

\* The number of the last dispatch the client has taken off this connection's stream.
Base == IF pc = "awaitReady" THEN 0 ELSE session.seq

Wired ==
  current # 0 =>
    /\ Continues(wire, Base, log[current])
    /\ conn => CaughtUp(wire, Base, log[current])

\* READY, when it comes, is that of a session the client has not had.
Awaiting == pc = "awaitReady" /\ (conn \/ Dispatches(wire) # {}) => given < current

Logged ==
  /\ \A s \in Sids : s > current <=> log[s] = <<>>
  /\ \A s \in Sids : \A n \in 1..Len(log[s]) :
       /\ log[s][n].ev <= happened
       /\ log[s][n].kind = "event" => log[s][n].ev # 0
  /\ given <= current
  /\ current = 0 => ~conn /\ Dispatches(wire) = {}

\* The tables are those of the session held, except until Retry clears them.
Tracked == IF pc \in {"retry", "fatal"} /\ Held = NoData THEN tracker \subseteq Sids
           ELSE tracker \subseteq {Held.sid}

ToldDead == toldDead => Held = NoData

IInv == /\ TypeOK /\ DataPlaced /\ HeldIsCurrent /\ Requests /\ Wired
        /\ Awaiting /\ Logged /\ Tracked /\ ToldDead

-----------------------------------------------------------------------------
(* The frames on the wire, for any sequence of frames.                     *)

\* What appending one element to a sequence gives.
LEMMA AppendOne ==
  ASSUME NEW S, NEW q \in Seq(S), NEW e \in S
  PROVE  /\ Append(q, e) \in Seq(S) /\ Len(Append(q, e)) = Len(q) + 1 /\ Len(q) \in Nat
         /\ \A i \in 1..Len(q) : Append(q, e)[i] = q[i]
         /\ Append(q, e)[Len(q) + 1] = e
BY AppendProperties

\* Frames beside the dispatches do not disturb them.
LEMMA AppendControl ==
  ASSUME NEW w \in Seq(Frame), NEW f \in Frame, f.op # "dispatch",
         NEW base \in Nat, NEW l
  PROVE  /\ Dispatches(Append(w, f)) = Dispatches(w)
         /\ Continues(w, base, l) => Continues(Append(w, f), base, l)
         /\ CaughtUp(w, base, l) => CaughtUp(Append(w, f), base, l)
<1> DEFINE x == Append(w, f)
<1>1. Len(w) \in Nat /\ Len(x) = Len(w) + 1 /\ x[Len(w) + 1] = f
      /\ \A i \in 1..Len(w) : x[i] = w[i]
  BY AppendOne
<1> HIDE DEF x
<1>2. Dispatches(x) = Dispatches(w)
  BY <1>1 DEF Dispatches
<1>3. \A k \in Dispatches(w) : x[k] = w[k]
  BY <1>1 DEF Dispatches
<1>4. Continues(w, base, l) => Continues(x, base, l)
  <2> SUFFICES ASSUME Continues(w, base, l), NEW k \in Dispatches(w)
               PROVE  /\ w[k].seq \in (base + 1)..Len(l)
                      /\ w[k].kind = l[w[k].seq].kind /\ w[k].ev = l[w[k].seq].ev
                      /\ \A j \in Dispatches(w) : j < k => w[j].seq < w[k].seq
                      /\ w[k].seq = base + 1
                         \/ \E j \in Dispatches(w) : j < k /\ w[j].seq = w[k].seq - 1
    BY <1>2, <1>3 DEF Continues
  <2> QED  BY DEF Continues
<1>5. CaughtUp(w, base, l) => CaughtUp(x, base, l)
  BY <1>2, <1>3 DEF CaughtUp
<1> QED  BY <1>2, <1>4, <1>5 DEF x

\* A dispatch that is logged and sent is the next one.
LEMMA AppendDispatch ==
  ASSUME NEW w \in Seq(Frame), NEW S, NEW l \in Seq(S), NEW e \in S, NEW f \in Frame,
         f.op = "dispatch", f.seq = Len(l) + 1, f.kind = e.kind, f.ev = e.ev,
         NEW base \in 0..Len(l), Continues(w, base, l), CaughtUp(w, base, l)
  PROVE  /\ Continues(Append(w, f), base, Append(l, e))
         /\ CaughtUp(Append(w, f), base, Append(l, e))
<1> DEFINE x == Append(w, f)
           m == Append(l, e)
<1>1. Len(w) \in Nat /\ Len(x) = Len(w) + 1 /\ x[Len(w) + 1] = f
      /\ \A i \in 1..Len(w) : x[i] = w[i]
  BY AppendOne
<1>2. Len(l) \in Nat /\ Len(m) = Len(l) + 1 /\ m[Len(l) + 1] = e
      /\ \A i \in 1..Len(l) : m[i] = l[i]
  BY AppendOne
<1> HIDE DEF x, m
<1>3. /\ Dispatches(x) = Dispatches(w) \cup {Len(w) + 1}
      /\ \A k \in Dispatches(w) : x[k] = w[k] /\ k \in Nat /\ k < Len(w) + 1
  BY <1>1 DEF Dispatches
<1>4. \A k \in Dispatches(w) : w[k].seq \in (base + 1)..Len(l)
  BY DEF Continues
<1>5. Continues(x, base, m)
  <2> SUFFICES ASSUME NEW k \in Dispatches(x)
               PROVE  /\ x[k].seq \in (base + 1)..Len(m)
                      /\ x[k].kind = m[x[k].seq].kind /\ x[k].ev = m[x[k].seq].ev
                      /\ \A j \in Dispatches(x) : j < k => x[j].seq < x[k].seq
                      /\ x[k].seq = base + 1
                         \/ \E j \in Dispatches(x) : j < k /\ x[j].seq = x[k].seq - 1
    BY DEF Continues
  <2>1. CASE k \in Dispatches(w)
    <3>1. /\ x[k] = w[k] /\ w[k].seq \in (base + 1)..Len(l) /\ m[w[k].seq] = l[w[k].seq]
          /\ w[k].kind = l[w[k].seq].kind /\ w[k].ev = l[w[k].seq].ev
      BY <2>1, <1>2, <1>3 DEF Continues
    <3>2. \A j \in Dispatches(x) : j < k => j \in Dispatches(w)
      BY <2>1, <1>3, <1>1
    <3>3. \A j \in Dispatches(x) : j < k => x[j].seq < x[k].seq
      BY <3>1, <3>2, <2>1, <1>3 DEF Continues
    <3>4. x[k].seq = base + 1 \/ \E j \in Dispatches(x) : j < k /\ x[j].seq = x[k].seq - 1
      BY <3>1, <2>1, <1>3 DEF Continues
    <3> QED  BY <3>1, <3>3, <3>4, <1>2
  <2>2. CASE k = Len(w) + 1
    <3>1. x[k] = f /\ f.seq = Len(l) + 1
      BY <2>2, <1>1
    <3>2. \A j \in Dispatches(x) : j < k => j \in Dispatches(w)
      BY <2>2, <1>3
    <3>3. \A j \in Dispatches(x) : j < k => x[j].seq < x[k].seq
      BY <3>1, <3>2, <1>3, <1>4, <1>2
    <3>4. x[k].seq = base + 1 \/ \E j \in Dispatches(x) : j < k /\ x[j].seq = x[k].seq - 1
      <4>1. CASE Len(l) = base
        BY <4>1, <3>1
      <4>2. CASE \E j \in Dispatches(w) : w[j].seq = Len(l)
        BY <4>2, <3>1, <1>2, <1>3, <2>2
      <4> QED  BY <4>1, <4>2 DEF CaughtUp
    <3> QED  BY <3>1, <3>3, <3>4, <1>2
  <2> QED  BY <2>1, <2>2, <1>3
<1>6. CaughtUp(x, base, m)
  BY <1>1, <1>2, <1>3 DEF CaughtUp
<1> QED  BY <1>5, <1>6 DEF x, m

\* What is logged and not sent leaves the wire as it was.
LEMMA LogGrows ==
  ASSUME NEW w, NEW S, NEW l \in Seq(S), NEW e \in S, NEW base \in Nat, Continues(w, base, l)
  PROVE  Continues(w, base, Append(l, e))
<1>1. Len(Append(l, e)) = Len(l) + 1 /\ Len(l) \in Nat
      /\ \A i \in 1..Len(l) : Append(l, e)[i] = l[i]
  BY AppendOne
<1>2. \A k \in Dispatches(w) : w[k].seq \in (base + 1)..Len(l)
  BY DEF Continues
<1>3. \A k \in Dispatches(w) : w[k].seq \in (base + 1)..Len(Append(l, e))
                               /\ Append(l, e)[w[k].seq] = l[w[k].seq]
  BY <1>1, <1>2
<1> QED  BY <1>3 DEF Continues

\* What the tail of a sequence is.
LEMMA TailIs ==
  ASSUME NEW S, NEW w \in Seq(S), w # <<>>
  PROVE  /\ Tail(w) \in Seq(S) /\ Len(w) \in Nat \ {0} /\ Len(Tail(w)) = Len(w) - 1
         /\ \A i \in 1..Len(Tail(w)) : Tail(w)[i] = w[i + 1]
         /\ Head(w) = w[1] /\ Head(w) \in S
BY HeadTailProperties, EmptySeq

\* Taking the first frame off the wire moves the cursor if it is a dispatch.
LEMMA TakeFirst ==
  ASSUME NEW w \in Seq(Frame), w # <<>>, NEW base \in Nat, NEW next \in Nat, NEW S, NEW l \in Seq(S),
         Continues(w, base, l),
         IF Head(w).op = "dispatch" THEN next = Head(w).seq ELSE next = base
  PROVE  /\ Head(w).op = "dispatch" =>
              /\ Head(w).seq = base + 1 /\ Head(w).seq \in 1..Len(l)
              /\ Head(w).kind = l[Head(w).seq].kind /\ Head(w).ev = l[Head(w).seq].ev
         /\ Continues(Tail(w), next, l)
         /\ CaughtUp(w, base, l) => CaughtUp(Tail(w), next, l)
<1> DEFINE x == Tail(w)
<1>1. /\ Len(w) \in Nat \ {0} /\ Len(x) = Len(w) - 1 /\ Head(w) = w[1]
      /\ \A i \in 1..Len(x) : x[i] = w[i + 1]
  BY TailIs
<1>2. Len(l) \in Nat
  OBVIOUS
<1> HIDE DEF x
<1>3. \A i \in Dispatches(x) : i \in Nat \ {0} /\ i + 1 \in Dispatches(w) /\ x[i] = w[i + 1]
  BY <1>1 DEF Dispatches
<1>4. \A k \in Dispatches(w) : k \in Nat \ {0} /\ (k = 1 \/ (k - 1 \in Dispatches(x) /\ x[k - 1] = w[k]))
  BY <1>1 DEF Dispatches
<1>5. Head(w).op = "dispatch" => 1 \in Dispatches(w)
  BY <1>1 DEF Dispatches
<1>6. Head(w).op # "dispatch" => 1 \notin Dispatches(w)
  BY <1>1 DEF Dispatches
<1>7. Head(w).op = "dispatch" =>
         /\ w[1].seq = base + 1 /\ w[1].seq \in 1..Len(l)
         /\ w[1].kind = l[w[1].seq].kind /\ w[1].ev = l[w[1].seq].ev
  BY <1>4, <1>5, <1>2 DEF Continues
<1>8. next = IF Head(w).op = "dispatch" THEN base + 1 ELSE base
  BY <1>1, <1>7
<1>9. Continues(x, next, l)
  <2> SUFFICES ASSUME NEW k \in Dispatches(x)
               PROVE  /\ x[k].seq \in (next + 1)..Len(l)
                      /\ x[k].kind = l[x[k].seq].kind /\ x[k].ev = l[x[k].seq].ev
                      /\ \A j \in Dispatches(x) : j < k => x[j].seq < x[k].seq
                      /\ x[k].seq = next + 1
                         \/ \E j \in Dispatches(x) : j < k /\ x[j].seq = x[k].seq - 1
    BY DEF Continues
  <2>1. k + 1 \in Dispatches(w) /\ x[k] = w[k + 1] /\ k \in Nat \ {0}
    BY <1>3
  <2>2. /\ w[k + 1].seq \in (base + 1)..Len(l)
        /\ w[k + 1].kind = l[w[k + 1].seq].kind /\ w[k + 1].ev = l[w[k + 1].seq].ev
        /\ \A j \in Dispatches(w) : j < k + 1 => w[j].seq < w[k + 1].seq
        /\ w[k + 1].seq = base + 1
           \/ \E j \in Dispatches(w) : j < k + 1 /\ w[j].seq = w[k + 1].seq - 1
    BY <2>1 DEF Continues
  <2>3. \A j \in Dispatches(x) : j < k => x[j].seq < x[k].seq
    BY <2>1, <2>2, <1>3
  <2>4. x[k].seq \in (next + 1)..Len(l)
    BY <2>1, <2>2, <1>5, <1>7, <1>8
  <2>5. ASSUME x[k].seq # next + 1
        PROVE  \E j \in Dispatches(x) : j < k /\ x[j].seq = x[k].seq - 1
    <3>1. w[k + 1].seq # base + 1
      BY <2>5, <2>1, <2>4, <1>8
    <3>2. PICK j \in Dispatches(w) : j < k + 1 /\ w[j].seq = w[k + 1].seq - 1
      BY <3>1, <2>2
    <3>3. j # 1
      BY <3>2, <2>5, <2>1, <2>2, <1>5, <1>6, <1>7, <1>8
    <3>4. j - 1 \in Dispatches(x) /\ x[j - 1] = w[j] /\ j \in Nat \ {0}
      BY <3>3, <1>4
    <3> QED  BY <3>2, <3>4, <2>1
  <2> QED  BY <2>1, <2>2, <2>3, <2>4, <2>5
<1>10. ASSUME CaughtUp(w, base, l) PROVE CaughtUp(x, next, l)
  <2>1. CASE Len(l) = base
    BY <2>1, <1>5, <1>7, <1>8, <1>2 DEF CaughtUp
  <2>2. CASE \E k \in Dispatches(w) : w[k].seq = Len(l)
    <3>1. PICK k \in Dispatches(w) : w[k].seq = Len(l)
      BY <2>2
    <3>2. CASE k = 1
      BY <3>1, <3>2, <1>6, <1>7, <1>8 DEF CaughtUp
    <3>3. CASE k # 1
      BY <3>1, <3>3, <1>4 DEF CaughtUp
    <3> QED  BY <3>2, <3>3
  <2> QED  BY <2>1, <2>2, <1>10 DEF CaughtUp
<1> QED  BY <1>1, <1>7, <1>9, <1>10 DEF x

\* A connection that breaks keeps the beginning of what was on it.
LEMMA CutWire ==
  ASSUME NEW w \in Seq(Frame), NEW n \in 0..Len(w), NEW base \in Nat, NEW l, Continues(w, base, l)
  PROVE  /\ SubSeq(w, 1, n) \in Seq(Frame) /\ Continues(SubSeq(w, 1, n), base, l)
         /\ Dispatches(SubSeq(w, 1, n)) \subseteq Dispatches(w)
<1> DEFINE x == SubSeq(w, 1, n)
<1>1. x \in Seq(Frame) /\ Len(x) = n /\ \A i \in 1..n : x[i] = w[i]
  BY SubSeqProperties
<1> HIDE DEF x
<1>2. \A k \in Dispatches(x) : k \in Dispatches(w) /\ x[k] = w[k] /\ k \in 1..n
  BY <1>1 DEF Dispatches
<1>3. \A k \in Dispatches(w) : k \in 1..n => k \in Dispatches(x)
  BY <1>1 DEF Dispatches
<1>4. Continues(x, base, l)
  <2> SUFFICES ASSUME NEW k \in Dispatches(x)
               PROVE  /\ x[k].seq \in (base + 1)..Len(l)
                      /\ x[k].kind = l[x[k].seq].kind /\ x[k].ev = l[x[k].seq].ev
                      /\ \A j \in Dispatches(x) : j < k => x[j].seq < x[k].seq
                      /\ x[k].seq = base + 1
                         \/ \E j \in Dispatches(x) : j < k /\ x[j].seq = x[k].seq - 1
    BY DEF Continues
  <2>1. /\ w[k].seq \in (base + 1)..Len(l)
        /\ w[k].kind = l[w[k].seq].kind /\ w[k].ev = l[w[k].seq].ev
        /\ \A j \in Dispatches(w) : j < k => w[j].seq < w[k].seq
        /\ w[k].seq = base + 1
           \/ \E j \in Dispatches(w) : j < k /\ w[j].seq = w[k].seq - 1
    BY <1>2 DEF Continues
  <2>2. \A j \in Dispatches(w) : j < k => j \in Dispatches(x) /\ x[j] = w[j]
    BY <1>1, <1>2, <1>3 DEF Dispatches
  <2> QED  BY <2>1, <2>2, <1>2
<1> QED  BY <1>1, <1>2, <1>4 DEF x

\* A function on the first numbers is a sequence.
LEMMA FunctionIsSeq ==
  ASSUME NEW n \in Nat, NEW S, NEW f \in [1..n -> S]
  PROVE  f \in Seq(S) /\ Len(f) = n
OBVIOUS

\* A replay is what the log holds after the cursor.
LEMMA ReplayContinues ==
  ASSUME NEW l \in Seq(Entries), NEW base \in 0..Len(l), NEW r,
         r = [k \in 1..(Len(l) - base) |-> Dispatch(base + k, l[base + k])]
  PROVE  r \in Seq(Frame) /\ Continues(r, base, l) /\ CaughtUp(r, base, l)
<1>1. PICK n \in Nat : n = Len(l) - base /\ Len(l) = base + n /\ base \in Nat
  <2>1. Len(l) \in Nat
    OBVIOUS
  <2>2. Len(l) - base \in Nat /\ Len(l) = base + (Len(l) - base) /\ base \in Nat
    BY <2>1
  <2> QED  BY <2>2
<1>2. ASSUME NEW k \in 1..n
      PROVE  /\ base + k \in 1..Len(l) /\ l[base + k] \in Entries
             /\ r[k] = Dispatch(base + k, l[base + k])
  BY <1>1
<1>3. ASSUME NEW k \in 1..n
      PROVE  /\ r[k] \in Frame /\ r[k].op = "dispatch" /\ r[k].seq = base + k
             /\ r[k].kind = l[base + k].kind /\ r[k].ev = l[base + k].ev
  <2>1. PICK e \in Entries, m \in Nat : e = l[base + k] /\ m = base + k /\ r[k] = Dispatch(m, e)
    BY <1>1, <1>2
  <2> QED  BY <2>1 DEF Dispatch, Frame, Entries
<1>4. r \in Seq(Frame) /\ Len(r) = n
  <2>1. r \in [1..n -> Frame]
    BY <1>1, <1>3
  <2> QED  BY <2>1, FunctionIsSeq
<1>5. Dispatches(r) = 1..n
  BY <1>3, <1>4 DEF Dispatches
<1>6. Continues(r, base, l)
  <2> SUFFICES ASSUME NEW k \in Dispatches(r)
               PROVE  /\ r[k].seq \in (base + 1)..Len(l)
                      /\ r[k].kind = l[r[k].seq].kind /\ r[k].ev = l[r[k].seq].ev
                      /\ \A j \in Dispatches(r) : j < k => r[j].seq < r[k].seq
                      /\ r[k].seq = base + 1
                         \/ \E j \in Dispatches(r) : j < k /\ r[j].seq = r[k].seq - 1
    BY DEF Continues
  <2>1. k \in 1..n /\ r[k].seq = base + k
    BY <1>3, <1>5
  <2>2. \A j \in Dispatches(r) : j < k => r[j].seq < r[k].seq
    <3> SUFFICES ASSUME NEW j \in Dispatches(r), j < k PROVE r[j].seq < r[k].seq
      OBVIOUS
    <3>1. j \in 1..n /\ r[j].seq = base + j
      BY <1>3, <1>5
    <3> QED  BY <2>1, <3>1, <1>1
  <2>3. r[k].seq # base + 1 => \E j \in Dispatches(r) : j < k /\ r[j].seq = r[k].seq - 1
    <3> SUFFICES ASSUME r[k].seq # base + 1
                 PROVE  \E j \in Dispatches(r) : j < k /\ r[j].seq = r[k].seq - 1
      OBVIOUS
    <3>1. PICK j \in 1..n : j = k - 1
      BY <2>1, <1>1
    <3>2. j \in Dispatches(r) /\ r[j].seq = base + j
      BY <1>3, <1>5
    <3>3. j < k /\ r[j].seq = r[k].seq - 1
      BY <2>1, <3>1, <3>2, <1>1
    <3> QED  BY <3>2, <3>3
  <2>4. r[k].seq \in (base + 1)..Len(l)
    BY <2>1, <1>1
  <2>5. r[k].kind = l[r[k].seq].kind /\ r[k].ev = l[r[k].seq].ev
    BY <2>1, <1>3
  <2> QED  BY <2>2, <2>3, <2>4, <2>5
<1>7. CaughtUp(r, base, l)
  <2>1. CASE n = 0
    BY <2>1, <1>1 DEF CaughtUp
  <2>2. CASE n # 0
    <3>1. n \in 1..n /\ r[n].seq = Len(l)
      BY <2>2, <1>1, <1>3
    <3> QED  BY <3>1, <1>5 DEF CaughtUp
  <2> QED  BY <2>1, <2>2
<1> QED  BY <1>4, <1>6, <1>7

\* The first two dispatches of a session are the first two of its log.
LEMMA FreshContinues ==
  ASSUME NEW a \in Entries, NEW b \in Entries, NEW w, w = <<Dispatch(1, a), Dispatch(2, b)>>
  PROVE  w \in Seq(Frame) /\ Continues(w, 0, <<a, b>>) /\ CaughtUp(w, 0, <<a, b>>)
<1>1. Dispatch(1, a) \in Frame /\ Dispatch(2, b) \in Frame
  BY DEF Dispatch, Frame, Entries
<1>2. w \in Seq(Frame)
  BY <1>1
<1>3. Len(w) = 2 /\ Len(<<a, b>>) = 2
  OBVIOUS
<1>4. /\ w[1].op = "dispatch" /\ w[1].seq = 1 /\ w[1].kind = a.kind /\ w[1].ev = a.ev
      /\ w[2].op = "dispatch" /\ w[2].seq = 2 /\ w[2].kind = b.kind /\ w[2].ev = b.ev
  BY DEF Dispatch
<1>5. Dispatches(w) = {1, 2}
  BY <1>3, <1>4 DEF Dispatches
<1>6. Continues(w, 0, <<a, b>>)
  BY <1>3, <1>4, <1>5 DEF Continues
<1>7. CaughtUp(w, 0, <<a, b>>)
  BY <1>3, <1>4, <1>5 DEF CaughtUp
<1> QED  BY <1>2, <1>6, <1>7

-----------------------------------------------------------------------------
(* The invariant, step by step.                                            *)

\* Holding nothing is typed, too.
LEMMA NoDataIsData == NoData \in Data
BY GatewayAssumption DEF GatewayAssumption, NoData, Data

\* The values that stand for nothing are in the domains.
LEMMA NothingIsTyped ==
  /\ NoRequest \in [op : {"none", "identify", "resume"}, sid : 0..MaxSessions, seq : Nat]
  /\ <<>> \in Seq(Frame) /\ FALSE \in BOOLEAN
<1>1. NoRequest \in [op : {"none", "identify", "resume"}, sid : 0..MaxSessions, seq : Nat]
  BY GatewayAssumption DEF GatewayAssumption, NoRequest
<1>2. <<>> \in Seq(Frame)
  BY EmptySeq
<1> QED  BY <1>1, <1>2

\* The initial state satisfies the invariant.
LEMMA InitEstablishes == Init => IInv
<1> SUFFICES ASSUME Init PROVE IInv
  OBVIOUS
<1> USE DEF Init
<1>1. TypeOK
  <2>1. RunnerTypeOK
    <3>1. NoData \in Data /\ <<>> \in Seq(1..MaxEvents)
      BY NoDataIsData, EmptySeq
    <3> QED  BY <3>1 DEF RunnerTypeOK
  <2>2. WireTypeOK
    BY NothingIsTyped DEF WireTypeOK
  <2>3. GateTypeOK
    BY GatewayAssumption DEF GateTypeOK, GatewayAssumption
  <2>4. 0 \in 0..MaxSessions /\ 0 \in 0..MaxFaults
    BY GatewayAssumption DEF GatewayAssumption
  <2>5. GhostTypeOK /\ faults \in 0..MaxFaults
    BY <2>4, Zenon DEF GhostTypeOK
  <2> QED  BY <2>1, <2>2, <2>3, <2>5 DEF TypeOK
<1>2. Held = NoData /\ Dispatches(wire) = {}
  BY DEF Held, Dispatches
<1>3. DataPlaced /\ HeldIsCurrent /\ ToldDead /\ Awaiting /\ Tracked
  BY <1>2 DEF DataPlaced, HeldIsCurrent, ToldDead, Awaiting, Tracked
<1>4. Requests /\ Wired
  BY DEF Requests, Wired, NoRequest
<1>5. Logged
  BY <1>2 DEF Logged, Sids
<1> QED  BY <1>1, <1>3, <1>4, <1>5 DEF IInv

\* resume_data.take(): the data moves on, nothing else does.
LEMMA StartKeeps ==
  ASSUME IInv, StartSession
  PROVE  IInv'
<1>1. /\ pc = "start" /\ pc' = "handshake" /\ opening' = resumeData /\ resumeData' = NoData
      /\ UNCHANGED <<session, tracker, delivered, wireVars, gateVars, faults, ghostVars>>
  BY DEF StartSession
<1>2. TypeOK'
  <2>1. RunnerTypeOK'
    BY <1>1, NoDataIsData DEF IInv, TypeOK, RunnerTypeOK
  <2>2. WireTypeOK' /\ GateTypeOK' /\ GhostTypeOK'
    BY <1>1 DEF IInv, TypeOK, WireTypeOK, wireVars, GateTypeOK, gateVars, GhostTypeOK, ghostVars
  <2> QED  BY <1>1, <2>1, <2>2 DEF IInv, TypeOK
<1>3. session = NoData /\ opening = NoData
  BY <1>1 DEF IInv, DataPlaced
<1>4. Held' = Held
  BY <1>1, <1>3 DEF Held
<1>5. DataPlaced' /\ HeldIsCurrent' /\ ToldDead'
  BY <1>1, <1>3, <1>4 DEF IInv, DataPlaced, HeldIsCurrent, ToldDead, gateVars, ghostVars
<1>6. Requests'
  BY <1>1, <1>3 DEF IInv, Requests, wireVars
<1>7. Wired' /\ Logged' /\ Awaiting'
  BY <1>1, <1>3 DEF IInv, Wired, Base, Logged, Awaiting, wireVars, gateVars, ghostVars
<1>8. Tracked'
  BY <1>1, <1>4 DEF IInv, Tracked
<1> QED  BY <1>2, <1>5, <1>6, <1>7, <1>8 DEF IInv

\* A hangup leaves nothing on its way and no request.
LEMMA HangupTypes == Hangup => WireTypeOK'
BY NothingIsTyped DEF Hangup, WireTypeOK

\* A connection that ends with nothing to resume: an attempt that fails, a session that is lost.
LEMMA NothingHeldKeeps ==
  ASSUME IInv, pc' \in {"retry", "fatal"},
         session' = NoData, resumeData' = NoData, opening' = NoData, Hangup,
         faults' \in 0..MaxFaults, toldDead' \in BOOLEAN, fatalSeen' \in BOOLEAN,
         UNCHANGED <<tracker, delivered, gateVars, given>>
  PROVE  IInv'
<1>1. TypeOK'
  <2>1. RunnerTypeOK'
    BY NoDataIsData DEF IInv, TypeOK, RunnerTypeOK
  <2>2. GateTypeOK'
    BY DEF IInv, TypeOK, GateTypeOK, gateVars
  <2>3. GhostTypeOK'
    BY DEF IInv, TypeOK, GhostTypeOK
  <2> QED  BY <2>1, <2>2, <2>3, HangupTypes DEF TypeOK
<1>2. Held' = NoData /\ Dispatches(wire') = {}
  BY DEF Held, Hangup, Dispatches
<1>3. DataPlaced' /\ HeldIsCurrent' /\ ToldDead'
  BY <1>2 DEF DataPlaced, HeldIsCurrent, ToldDead
<1>4. Requests'
  BY DEF Requests, Hangup, NoRequest
<1>5. Wired' /\ Logged' /\ Awaiting'
  BY <1>2 DEF IInv, Wired, Continues, Logged, Awaiting, gateVars, Hangup
<1>6. Tracked'
  BY <1>2 DEF IInv, TypeOK, RunnerTypeOK, Tracked
<1> QED  BY <1>1, <1>3, <1>4, <1>5, <1>6 DEF IInv

\* From awaitReady and from a handshake nothing is held but the data it opens with.
LEMMA HandshakeEndsKeeps ==
  ASSUME IInv, HandshakeFails \/ HandshakeRejected \/ HandshakeTimeout
  PROVE  IInv'
<1>1. /\ pc \in {"handshake", "awaitReady"} /\ pc' = "retry" /\ Hangup
      /\ opening' \in {NoData, opening} /\ (pc = "handshake" => opening' = NoData)
      /\ UNCHANGED <<resumeData, session, tracker, delivered, gateVars, given, toldDead>>
      /\ fatalSeen' \in {fatalSeen, First.op = "closeFatal"}
  BY DEF HandshakeFails, HandshakeRejected, HandshakeTimeout, ghostVars
<1>2. faults' \in 0..MaxFaults
  BY GatewayAssumption
  DEF HandshakeFails, HandshakeRejected, HandshakeTimeout, Fault, IInv, TypeOK, GatewayAssumption
<1>3. toldDead' \in BOOLEAN /\ fatalSeen' \in BOOLEAN
  BY <1>1 DEF IInv, TypeOK, GhostTypeOK
<1>4. session = NoData /\ resumeData = NoData /\ (pc = "awaitReady" => opening = NoData)
  BY <1>1 DEF IInv, DataPlaced
<1>5. session' = NoData /\ resumeData' = NoData /\ opening' = NoData
  BY <1>1, <1>4
<1> QED  BY <1>1, <1>2, <1>3, <1>5, NothingHeldKeeps

\* RESUME carries the cursor of the session it gives to Client::session.
LEMMA SendResumeKeeps ==
  ASSUME IInv, SendResume
  PROVE  IInv'
<1>1. /\ pc = "handshake" /\ opening # NoData /\ opening' = NoData /\ session' = opening
      /\ request' = [op |-> "resume", sid |-> opening.sid, seq |-> opening.seq]
      /\ pc' \in {"poll", "fatal"}
      /\ UNCHANGED <<resumeData, tracker, delivered, conn, wire, gateVars, faults, ghostVars>>
  BY DEF SendResume, ResumeFrom
<1>2. TypeOK'
  <2>1. RunnerTypeOK'
    BY <1>1, NoDataIsData DEF IInv, TypeOK, RunnerTypeOK
  <2>2. WireTypeOK'
    BY <1>1 DEF IInv, TypeOK, WireTypeOK, RunnerTypeOK, Data
  <2>3. GateTypeOK' /\ GhostTypeOK'
    BY <1>1 DEF IInv, TypeOK, GateTypeOK, gateVars, GhostTypeOK, ghostVars
  <2> QED  BY <1>1, <2>1, <2>2, <2>3 DEF IInv, TypeOK
<1>3. session = NoData /\ resumeData = NoData
  BY <1>1 DEF IInv, DataPlaced
<1>4. Held' = Held /\ Held = opening
  BY <1>1, <1>3 DEF Held
<1>5. wire = <<>> /\ ~conn /\ Dispatches(wire) = {}
  BY <1>1 DEF IInv, Requests, Dispatches
<1>6. DataPlaced' /\ HeldIsCurrent' /\ ToldDead'
  BY <1>1, <1>3, <1>4 DEF IInv, DataPlaced, HeldIsCurrent, ToldDead, gateVars, ghostVars
<1>7. Requests'
  BY <1>1, <1>5 DEF Requests
<1>8. Wired' /\ Logged' /\ Awaiting'
  BY <1>1, <1>5 DEF IInv, Wired, Continues, Logged, Awaiting, gateVars, ghostVars
<1>9. Tracked'
  BY <1>1, <1>4 DEF IInv, Tracked
<1> QED  BY <1>2, <1>6, <1>7, <1>8, <1>9 DEF IInv

\* IDENTIFY is sent when nothing is held.
LEMMA SendIdentifyKeeps ==
  ASSUME IInv, SendIdentify
  PROVE  IInv'
<1>1. /\ pc = "handshake" /\ opening = NoData /\ request' = Identify /\ pc' = "awaitReady"
      /\ UNCHANGED <<resumeData, session, opening, tracker, delivered, conn, wire,
                     gateVars, faults, ghostVars>>
  BY DEF SendIdentify
<1>2. TypeOK'
  <2>1. RunnerTypeOK'
    BY <1>1 DEF IInv, TypeOK, RunnerTypeOK
  <2>2. WireTypeOK'
    BY <1>1, GatewayAssumption DEF IInv, TypeOK, WireTypeOK, Identify, GatewayAssumption
  <2>3. GateTypeOK' /\ GhostTypeOK'
    BY <1>1 DEF IInv, TypeOK, GateTypeOK, gateVars, GhostTypeOK, ghostVars
  <2> QED  BY <1>1, <2>1, <2>2, <2>3 DEF IInv, TypeOK
<1>3. session = NoData /\ resumeData = NoData
  BY <1>1 DEF IInv, DataPlaced
<1>4. Held' = Held /\ Held = NoData
  BY <1>1, <1>3 DEF Held
<1>5. wire = <<>> /\ ~conn /\ Dispatches(wire) = {}
  BY <1>1 DEF IInv, Requests, Dispatches
<1>6. DataPlaced' /\ HeldIsCurrent' /\ ToldDead'
  BY <1>1, <1>3, <1>4 DEF IInv, DataPlaced, HeldIsCurrent, ToldDead
<1>7. Requests'
  BY <1>1, <1>5 DEF Requests, Identify
<1>8. Wired' /\ Logged' /\ Awaiting'
  BY <1>1, <1>5 DEF IInv, Wired, Continues, Logged, Awaiting, gateVars, ghostVars
<1>9. Tracked'
  BY <1>1, <1>4 DEF IInv, Tracked
<1> QED  BY <1>2, <1>6, <1>7, <1>8, <1>9 DEF IInv

\* READY starts the session the gateway is at, at its first dispatch.
LEMMA ReadyKeeps ==
  ASSUME IInv, ReadyArrives
  PROVE  IInv' /\ First.seq = 1 /\ given < current
<1>1. /\ pc = "awaitReady" /\ wire # <<>> /\ First.op = "dispatch" /\ First.kind = "ready"
      /\ pc' \in {"poll", "fatal"} /\ wire' = Tail(wire)
      /\ given' = current /\ toldDead' = FALSE /\ UNCHANGED fatalSeen
      /\ UNCHANGED <<resumeData, opening, tracker, delivered, conn, request, gateVars>>
  BY DEF ReadyArrives, Receives
<1>2. PICK g \in BOOLEAN : session' = [sid |-> current, seq |-> First.seq, hasGuild |-> g]
  BY DEF ReadyArrives
<1>3. faults' \in 0..MaxFaults
  BY GatewayAssumption DEF ReadyArrives, IInv, TypeOK, GatewayAssumption
<1>4. session = NoData /\ resumeData = NoData /\ opening = NoData
  BY <1>1 DEF IInv, DataPlaced
<1>5. Held = NoData
  BY <1>4 DEF Held
<1>6. wire \in Seq(Frame)
  BY DEF IInv, TypeOK, WireTypeOK
<1>7. 1 \in Dispatches(wire)
  BY <1>1, <1>6, TailIs DEF Dispatches, First
<1>8. given < current /\ current \in Sids /\ current # 0
  BY <1>1, <1>7, GatewayAssumption
  DEF IInv, Awaiting, Logged, TypeOK, GateTypeOK, GhostTypeOK, Sids, GatewayAssumption
<1>9. log[current] \in Seq(Entries) /\ Continues(wire, 0, log[current])
      /\ (conn => CaughtUp(wire, 0, log[current]))
  BY <1>1, <1>8 DEF IInv, Wired, Base, TypeOK, GateTypeOK
<1>10. /\ First.seq = 1 /\ First.seq \in 1..Len(log[current])
       /\ Continues(Tail(wire), First.seq, log[current])
       /\ CaughtUp(wire, 0, log[current]) => CaughtUp(Tail(wire), First.seq, log[current])
       /\ First \in Frame /\ Tail(wire) \in Seq(Frame)
  <2>1. First \in Frame /\ Tail(wire) \in Seq(Frame) /\ First.seq \in Nat
    <3>1. First \in Frame /\ Tail(wire) \in Seq(Frame)
      BY <1>1, <1>6, TailIs DEF First
    <3> QED  BY <3>1 DEF Frame
  <2> QED  BY <2>1, <1>1, <1>6, <1>9, TakeFirst DEF First
<1>11. session' \in Data /\ session' # NoData /\ session'.seq = First.seq /\ session'.sid = current
  BY <1>2, <1>8, <1>10 DEF Data, NoData, IInv, TypeOK, GateTypeOK
<1>12. TypeOK'
  <2>1. RunnerTypeOK'
    BY <1>1, <1>11 DEF IInv, TypeOK, RunnerTypeOK
  <2>2. WireTypeOK'
    BY <1>1, <1>10 DEF IInv, TypeOK, WireTypeOK
  <2>3. GateTypeOK'
    BY <1>1 DEF IInv, TypeOK, GateTypeOK, gateVars
  <2>4. GhostTypeOK'
    BY <1>1 DEF IInv, TypeOK, GhostTypeOK, GateTypeOK
  <2> QED  BY <2>1, <2>2, <2>3, <2>4, <1>3 DEF TypeOK
<1>13. Held' = session'
  BY <1>11 DEF Held
<1>14. DataPlaced' /\ HeldIsCurrent' /\ ToldDead'
  BY <1>1, <1>4, <1>8, <1>10, <1>11, <1>13 DEF DataPlaced, HeldIsCurrent, ToldDead, gateVars
<1>15. Requests'
  <2>1. request = NoRequest
    BY <1>1, <1>7 DEF IInv, Requests, Dispatches
  <2> QED  BY <2>1, <1>1, <1>11 DEF Requests, NoRequest
<1>16. Wired' /\ Awaiting'
  BY <1>1, <1>9, <1>10, <1>11 DEF Wired, Base, Awaiting, gateVars
<1>17. Logged'
  BY <1>1, <1>8 DEF IInv, Logged, gateVars, TypeOK, GateTypeOK
<1>18. Tracked'
  BY <1>1, <1>5, <1>13, <1>11 DEF IInv, Tracked, TypeOK, RunnerTypeOK, NoData, Sids
<1> QED  BY <1>8, <1>10, <1>12, <1>14, <1>15, <1>16, <1>17, <1>18 DEF IInv

\* While the bot polls, the first dispatch is the next entry of the log of its session.
LEMMA NextDispatch ==
  ASSUME IInv, pc = "poll", wire # <<>>
  PROVE  /\ session # NoData /\ session \in Data /\ resumeData = NoData /\ opening = NoData
         /\ Held = session /\ session.sid = current /\ current = given /\ current \in Sids
         /\ log[current] \in Seq(Entries) /\ session.seq \in 1..Len(log[current])
         /\ First \in Frame /\ First.seq \in Nat /\ Tail(wire) \in Seq(Frame)
         /\ First.op = "dispatch" =>
              /\ First.seq = session.seq + 1 /\ First.seq \in 1..Len(log[current])
              /\ First.kind = log[current][First.seq].kind
              /\ First.ev = log[current][First.seq].ev
              /\ Continues(Tail(wire), First.seq, log[current])
              /\ conn => CaughtUp(Tail(wire), First.seq, log[current])
         /\ First.op # "dispatch" =>
              /\ Continues(Tail(wire), session.seq, log[current])
              /\ conn => CaughtUp(Tail(wire), session.seq, log[current])
<1>1. session # NoData /\ session \in Data /\ resumeData = NoData /\ opening = NoData
  BY DEF IInv, DataPlaced, TypeOK, RunnerTypeOK
<1>2. Held = session
  BY <1>1 DEF Held
<1>3. session.sid = current /\ current = given /\ session.seq \in 1..Len(log[current]) /\ current # 0
  BY <1>1, <1>2 DEF IInv, HeldIsCurrent
<1>4. current \in Sids /\ log[current] \in Seq(Entries)
  BY <1>3, GatewayAssumption DEF IInv, TypeOK, GateTypeOK, Sids, GatewayAssumption
<1>5. First \in Frame /\ Tail(wire) \in Seq(Frame) /\ wire \in Seq(Frame)
  BY TailIs DEF First, IInv, TypeOK, WireTypeOK
<1>6. First.seq \in Nat
  BY <1>5 DEF Frame
<1>7. Continues(wire, session.seq, log[current]) /\ (conn => CaughtUp(wire, session.seq, log[current]))
  BY <1>3 DEF IInv, Wired, Base
<1>8. session.seq \in Nat
  BY <1>1 DEF Data
<1>9. CASE First.op = "dispatch"
  BY <1>1, <1>2, <1>3, <1>4, <1>5, <1>6, <1>7, <1>8, <1>9, TakeFirst DEF First
<1>10. CASE First.op # "dispatch"
  BY <1>1, <1>2, <1>3, <1>4, <1>5, <1>6, <1>7, <1>8, <1>10, TakeFirst DEF First
<1> QED  BY <1>9, <1>10

\* An event is a number the guild has reached.
LEMMA EventsAreNumbers ==
  ASSUME IInv, NEW s \in Sids, NEW n \in 1..Len(log[s]), log[s][n].kind = "event"
  PROVE  log[s][n].ev \in 1..MaxEvents /\ log[s][n].ev # 0
<1>1. log[s] \in Seq(Entries)
  BY DEF IInv, TypeOK, GateTypeOK
<1>2. log[s][n] \in Entries /\ log[s][n].ev # 0
  BY <1>1 DEF IInv, Logged
<1> QED  BY <1>2, GatewayAssumption DEF Entries, GatewayAssumption

\* poll takes the next dispatch and moves the cursor to it.
LEMMA PollDispatchKeeps ==
  ASSUME IInv, PollDispatch
  PROVE  IInv'
<1>1. /\ pc = "poll" /\ wire # <<>> /\ First.op = "dispatch"
      /\ session' = [session EXCEPT !.seq = First.seq]
      /\ delivered' = IF First.kind = "event" THEN Append(delivered, First.ev) ELSE delivered
      /\ tracker' = IF First.kind = "guild" THEN tracker \cup {session.sid} ELSE tracker
      /\ wire' = Tail(wire)
      /\ UNCHANGED <<pc, resumeData, opening, conn, request, gateVars, faults, ghostVars>>
  BY DEF PollDispatch, Receives, Advanced, ForBot
<1>2. /\ session # NoData /\ session \in Data /\ resumeData = NoData /\ opening = NoData
      /\ Held = session /\ session.sid = current /\ current = given /\ current \in Sids
      /\ log[current] \in Seq(Entries)
      /\ First \in Frame /\ First.seq \in Nat /\ Tail(wire) \in Seq(Frame)
      /\ First.seq = session.seq + 1 /\ First.seq \in 1..Len(log[current])
      /\ First.kind = log[current][First.seq].kind /\ First.ev = log[current][First.seq].ev
      /\ Continues(Tail(wire), First.seq, log[current])
      /\ conn => CaughtUp(Tail(wire), First.seq, log[current])
  BY <1>1, NextDispatch
<1>3. session' \in Data /\ session'.seq = First.seq /\ session'.sid = session.sid
  BY <1>1, <1>2 DEF Data
<1>4. session' # NoData /\ current # 0
  BY <1>2, <1>3 DEF NoData, Sids
<1>5. Held' = session'
  BY <1>4 DEF Held
<1>6. delivered' \in Seq(1..MaxEvents)
  <2>1. delivered \in Seq(1..MaxEvents)
    BY DEF IInv, TypeOK, RunnerTypeOK
  <2>2. CASE First.kind = "event"
    <3>1. First.ev \in 1..MaxEvents
      BY <2>2, <1>2, EventsAreNumbers
    <3> QED  BY <2>1, <2>2, <3>1, <1>1, AppendProperties
  <2>3. CASE First.kind # "event"
    BY <2>1, <2>3, <1>1
  <2> QED  BY <2>2, <2>3
<1>7. TypeOK'
  <2>1. tracker' \subseteq Sids
    BY <1>1, <1>2 DEF IInv, TypeOK, RunnerTypeOK
  <2>2. RunnerTypeOK'
    BY <1>1, <1>2, <1>3, <1>6, <2>1, NoDataIsData DEF RunnerTypeOK
  <2>3. WireTypeOK'
    BY <1>1, <1>2 DEF IInv, TypeOK, WireTypeOK
  <2>4. GateTypeOK' /\ GhostTypeOK'
    BY <1>1 DEF IInv, TypeOK, GateTypeOK, gateVars, GhostTypeOK, ghostVars
  <2> QED  BY <1>1, <2>2, <2>3, <2>4 DEF IInv, TypeOK
<1>8. DataPlaced'
  BY <1>1, <1>2, <1>4 DEF DataPlaced
<1>9. HeldIsCurrent'
  BY <1>1, <1>2, <1>3, <1>4, <1>5 DEF HeldIsCurrent, gateVars, ghostVars
<1>10. ToldDead'
  BY <1>1, <1>2 DEF IInv, ToldDead, ghostVars
<1>11. Requests'
  <2>1. request = NoRequest
    BY <1>1 DEF IInv, Requests
  <2> QED  BY <2>1, <1>1, <1>4 DEF Requests, NoRequest
<1>12. Wired' /\ Awaiting'
  BY <1>1, <1>2, <1>3 DEF Wired, Base, Awaiting, gateVars
<1>13. Logged'
  BY <1>1, <1>4 DEF IInv, Logged, gateVars, ghostVars
<1>14. Tracked'
  BY <1>1, <1>2, <1>3, <1>5 DEF IInv, Tracked
<1> QED  BY <1>7, <1>8, <1>9, <1>10, <1>11, <1>12, <1>13, <1>14 DEF IInv

\* A frame poll cannot use leaves the cursor where it is.
LEMMA PollTransientKeeps ==
  ASSUME IInv, PollTransient
  PROVE  IInv'
<1>1. /\ pc = "poll" /\ wire # <<>> /\ First.op # "dispatch" /\ wire' = Tail(wire)
      /\ UNCHANGED <<runnerVars, conn, request, gateVars, faults, ghostVars>>
  BY DEF PollTransient, Receives
<1>2. /\ session # NoData /\ Tail(wire) \in Seq(Frame) /\ current \in Sids
      /\ Continues(Tail(wire), session.seq, log[current])
      /\ conn => CaughtUp(Tail(wire), session.seq, log[current])
  BY <1>1, NextDispatch
<1>3. TypeOK'
  <2>1. RunnerTypeOK'
    BY <1>1 DEF IInv, TypeOK, RunnerTypeOK, runnerVars
  <2>2. WireTypeOK'
    BY <1>1, <1>2 DEF IInv, TypeOK, WireTypeOK
  <2>3. GateTypeOK' /\ GhostTypeOK'
    BY <1>1 DEF IInv, TypeOK, GateTypeOK, gateVars, GhostTypeOK, ghostVars
  <2> QED  BY <1>1, <2>1, <2>2, <2>3 DEF IInv, TypeOK
<1>4. Held' = Held
  BY <1>1 DEF Held, runnerVars
<1>5. DataPlaced' /\ HeldIsCurrent' /\ ToldDead' /\ Tracked'
  BY <1>1, <1>4 DEF IInv, DataPlaced, HeldIsCurrent, ToldDead, Tracked, runnerVars, gateVars, ghostVars
<1>6. Requests'
  <2>1. request = NoRequest
    BY <1>1 DEF IInv, Requests
  <2> QED  BY <2>1, <1>1, <1>2 DEF Requests, NoRequest, runnerVars
<1>7. Wired' /\ Awaiting'
  BY <1>1, <1>2 DEF Wired, Base, Awaiting, runnerVars, gateVars
<1>8. Logged'
  BY <1>1, <1>2 DEF IInv, Logged, gateVars, ghostVars, Sids
<1> QED  BY <1>3, <1>5, <1>6, <1>7, <1>8 DEF IInv

\* A connection that ends keeps the session only for a resume.
LEMMA LoseSessionKeeps ==
  ASSUME IInv, pc = "poll", NEW op, LoseSession(op), op \notin Verdicts \/ Classify(op) # "Resume",
         faults' \in 0..MaxFaults, UNCHANGED <<opening, tracker, delivered, gateVars, given>>
  PROVE  IInv'
<1>1. /\ session' = NoData /\ resumeData' = Saved(Classify(op))
      /\ pc' = IF Classify(op) = "Fatal" THEN "fatal" ELSE "retry"
      /\ toldDead' = (toldDead \/ op \in Verdicts)
      /\ fatalSeen' = (fatalSeen \/ op = "closeFatal") /\ Hangup
  BY DEF LoseSession
<1>2. /\ session # NoData /\ session \in Data /\ resumeData = NoData /\ opening = NoData
      /\ Held = session /\ toldDead = FALSE
  <2>1. session # NoData /\ session \in Data /\ resumeData = NoData /\ opening = NoData
    BY DEF IInv, DataPlaced, TypeOK, RunnerTypeOK
  <2>2. Held = session
    BY <2>1 DEF Held
  <2>3. ~toldDead
    BY <2>1, <2>2 DEF IInv, ToldDead
  <2>4. toldDead \in BOOLEAN
    BY DEF IInv, TypeOK, GhostTypeOK
  <2> QED  BY <2>1, <2>2, <2>3, <2>4
<1>3. toldDead' \in BOOLEAN /\ fatalSeen' \in BOOLEAN
  BY <1>1 DEF IInv, TypeOK, GhostTypeOK
<1>4. CASE Classify(op) # "Resume"
  <2>1. resumeData' = NoData /\ opening' = NoData /\ pc' \in {"retry", "fatal"}
    BY <1>1, <1>2, <1>4 DEF Saved
  <2> QED  BY <2>1, <1>1, <1>3, NothingHeldKeeps
<1>5. CASE Classify(op) = "Resume"
  <2>1. resumeData' = session /\ opening' = NoData /\ pc' = "retry" /\ op \notin Verdicts
    BY <1>1, <1>2, <1>5 DEF Saved
  <2>2. Held' = session
    BY <2>1, <1>1, <1>2 DEF Held
  <2>3. TypeOK'
    <3>1. RunnerTypeOK'
      BY <1>1, <1>2, <2>1, NoDataIsData DEF IInv, TypeOK, RunnerTypeOK
    <3>2. GateTypeOK' /\ GhostTypeOK'
      BY <1>3 DEF IInv, TypeOK, GateTypeOK, gateVars, GhostTypeOK
    <3> QED  BY <1>1, <3>1, <3>2, HangupTypes DEF TypeOK
  <2>4. DataPlaced'
    BY <1>1, <2>1 DEF DataPlaced
  <2>5. HeldIsCurrent'
    BY <1>2, <2>2 DEF IInv, HeldIsCurrent, gateVars
  <2>6. ToldDead'
    BY <1>1, <1>2, <2>1 DEF ToldDead
  <2>7. Requests' /\ Dispatches(wire') = {} /\ ~conn'
    BY <1>1 DEF Requests, Hangup, NoRequest, Dispatches
  <2>8. Wired' /\ Logged' /\ Awaiting'
    BY <2>7, <2>1 DEF IInv, Wired, Continues, Logged, Awaiting, gateVars
  <2>9. Tracked'
    BY <1>2, <2>2 DEF IInv, Tracked
  <2> QED  BY <2>3, <2>4, <2>5, <2>6, <2>7, <2>8, <2>9 DEF IInv
<1> QED  BY <1>4, <1>5

\* A frame that is no dispatch, or a zombie, ends the connection.
LEMMA DisconnectKeeps ==
  ASSUME IInv, PollDisconnect \/ PollZombied
  PROVE  IInv'
<1>1. CASE PollDisconnect
  <2>1. /\ pc = "poll" /\ LoseSession(First.op)
        /\ UNCHANGED <<opening, tracker, delivered, gateVars, faults, given>>
    BY <1>1 DEF PollDisconnect
  <2>2. First.op \notin Verdicts \/ Classify(First.op) # "Resume"
    BY DEF Verdicts, Classify
  <2>3. faults' \in 0..MaxFaults
    BY <2>1 DEF IInv, TypeOK
  <2> QED  BY <2>1, <2>2, <2>3, LoseSessionKeeps
<1>2. CASE PollZombied
  <2>1. /\ pc = "poll" /\ LoseSession("zombied")
        /\ UNCHANGED <<opening, tracker, delivered, gateVars, given>>
    BY <1>2 DEF PollZombied
  <2>2. "zombied" \notin Verdicts
    BY DEF Verdicts
  <2>3. faults' \in 0..MaxFaults
    BY <1>2, GatewayAssumption DEF PollZombied, Fault, IInv, TypeOK, GatewayAssumption
  <2> QED  BY <2>1, <2>2, <2>3, LoseSessionKeeps
<1> QED  BY <1>1, <1>2

\* Without data to resume, the tables go before the next session.
LEMMA RetryKeeps ==
  ASSUME IInv, Retry
  PROVE  IInv'
<1>1. /\ pc = "retry" /\ pc' = "start"
      /\ tracker' = IF resumeData = NoData THEN {} ELSE tracker
      /\ UNCHANGED <<resumeData, session, opening, delivered, wireVars, gateVars, faults, ghostVars>>
  BY DEF Retry, TrackerForNext
<1>2. session = NoData /\ opening = NoData
  BY <1>1 DEF IInv, DataPlaced
<1>3. Held' = Held /\ Held = resumeData
  BY <1>1, <1>2 DEF Held
<1>4. TypeOK'
  <2>1. RunnerTypeOK'
    BY <1>1 DEF IInv, TypeOK, RunnerTypeOK
  <2>2. WireTypeOK' /\ GateTypeOK' /\ GhostTypeOK'
    BY <1>1 DEF IInv, TypeOK, WireTypeOK, wireVars, GateTypeOK, gateVars, GhostTypeOK, ghostVars
  <2> QED  BY <1>1, <2>1, <2>2 DEF IInv, TypeOK
<1>5. DataPlaced' /\ HeldIsCurrent' /\ ToldDead'
  BY <1>1, <1>2, <1>3 DEF IInv, DataPlaced, HeldIsCurrent, ToldDead, gateVars, ghostVars
<1>6. Requests'
  BY <1>1, <1>2 DEF IInv, Requests, wireVars
<1>7. Wired' /\ Logged' /\ Awaiting'
  BY <1>1, <1>2 DEF IInv, Wired, Base, Logged, Awaiting, wireVars, gateVars, ghostVars
<1>8. Tracked'
  BY <1>1, <1>3 DEF IInv, Tracked
<1> QED  BY <1>4, <1>5, <1>6, <1>7, <1>8 DEF IInv

\* With a request or a connection the bot waits, polls or has stopped on a session.
LEMMA Connected ==
  ASSUME IInv, conn \/ request # NoRequest
  PROVE  /\ pc = "awaitReady" \/ (pc \in {"poll", "fatal"} /\ session # NoData)
         /\ Base \in Nat /\ wire \in Seq(Frame)
<1>1. pc = "awaitReady" \/ (pc \in {"poll", "fatal"} /\ session # NoData)
  BY DEF IInv, Requests, TypeOK, RunnerTypeOK, DataPlaced
<1>2. session.seq \in Nat
  BY DEF IInv, TypeOK, RunnerTypeOK, Data
<1> QED  BY <1>1, <1>2 DEF Base, IInv, TypeOK, WireTypeOK

\* The gateway, or the end of the connection, adds a frame that is no dispatch.
LEMMA ControlKeeps ==
  ASSUME IInv, conn \/ request # NoRequest, NEW f \in Frame, f.op # "dispatch",
         NEW n \in 0..Len(wire), wire' = Append(SubSeq(wire, 1, n), f) \/ wire' = Append(wire, f),
         conn' \in BOOLEAN, conn' => conn /\ wire' = Append(wire, f),
         request' = NoRequest, valid' \in [Sids -> BOOLEAN], faults' \in 0..MaxFaults,
         UNCHANGED <<runnerVars, log, current, happened, ghostVars>>
  PROVE  IInv'
<1>1. /\ pc = "awaitReady" \/ (pc \in {"poll", "fatal"} /\ session # NoData)
      /\ Base \in Nat /\ wire \in Seq(Frame)
  BY Connected
<1>2. Dispatches(wire') \subseteq Dispatches(wire) /\ wire' \in Seq(Frame)
  <2>1. CASE wire' = Append(wire, f)
    BY <2>1, <1>1, AppendControl, AppendOne
  <2>2. CASE wire' = Append(SubSeq(wire, 1, n), f)
    <3>1. SubSeq(wire, 1, n) \in Seq(Frame)
      BY <1>1, SubSeqProperties
    <3>2. Dispatches(SubSeq(wire, 1, n)) \subseteq Dispatches(wire)
      BY <1>1, SubSeqProperties DEF Dispatches
    <3> QED  BY <2>2, <3>1, <3>2, <1>1, AppendControl, AppendOne
  <2> QED  BY <2>1, <2>2
<1>3. Continues(wire, Base, log[current]) => Continues(wire', Base, log[current])
  <2> SUFFICES ASSUME Continues(wire, Base, log[current])
               PROVE  Continues(wire', Base, log[current])
    OBVIOUS
  <2>1. CASE wire' = Append(wire, f)
    BY <2>1, <1>1, AppendControl
  <2>2. CASE wire' = Append(SubSeq(wire, 1, n), f)
    <3>1. SubSeq(wire, 1, n) \in Seq(Frame) /\ Continues(SubSeq(wire, 1, n), Base, log[current])
      BY <1>1, CutWire
    <3> QED  BY <2>2, <3>1, <1>1, AppendControl
  <2> QED  BY <2>1, <2>2
<1>4. conn' /\ CaughtUp(wire, Base, log[current]) => CaughtUp(wire', Base, log[current])
  BY <1>1, AppendControl
<1>5. Base' = Base /\ Held' = Held
  BY DEF Base, Held, runnerVars
<1>6. Wired'
  BY <1>3, <1>4, <1>5 DEF IInv, Wired
<1>7. TypeOK'
  <2>1. RunnerTypeOK'
    BY DEF IInv, TypeOK, RunnerTypeOK, runnerVars
  <2>2. WireTypeOK'
    BY <1>2, NothingIsTyped DEF WireTypeOK
  <2>3. GateTypeOK'
    BY DEF IInv, TypeOK, GateTypeOK
  <2>4. GhostTypeOK'
    BY DEF IInv, TypeOK, GhostTypeOK, ghostVars
  <2> QED  BY <2>1, <2>2, <2>3, <2>4 DEF TypeOK
<1>8. DataPlaced' /\ HeldIsCurrent' /\ ToldDead' /\ Tracked'
  BY <1>5 DEF IInv, DataPlaced, HeldIsCurrent, ToldDead, Tracked, runnerVars, ghostVars
<1>9. Requests'
  BY <1>1 DEF Requests, NoRequest, runnerVars
<1>10. Awaiting'
  BY <1>2 DEF IInv, Awaiting, runnerVars, ghostVars
<1>11. Logged'
  BY <1>2 DEF IInv, Logged, ghostVars
<1> QED  BY <1>6, <1>7, <1>8, <1>9, <1>10, <1>11 DEF IInv

\* What the gateway sends that is no dispatch is a frame.
LEMMA ControlIsFrame ==
  ASSUME NEW op \in {"closed"} \cup Endings \cup Unusable
  PROVE  Control(op) \in Frame /\ Control(op).op # "dispatch"
BY DEF Control, Frame, Endings, Unusable

\* The gateway refuses a resume or a session, ends the connection, or it breaks.
LEMMA EndingsKeep ==
  ASSUME IInv,
         \/ GatewayRefusesResume
         \/ \E op \in Endings : GatewayRejects(op)
         \/ \E op \in Endings \cup Unusable : GatewaySends(op)
         \/ ConnectionBreaks
  PROVE  IInv'
<1>1. wire \in Seq(Frame) /\ Len(wire) \in 0..Len(wire)
  <2>1. wire \in Seq(Frame)
    BY DEF IInv, TypeOK, WireTypeOK
  <2>2. Len(wire) \in Nat
    BY <2>1
  <2> QED  BY <2>1, <2>2
<1>2. valid \in [Sids -> BOOLEAN] /\ faults \in 0..MaxFaults /\ conn \in BOOLEAN
  BY DEF IInv, TypeOK, GateTypeOK, WireTypeOK
<1>3. Fault => faults' \in 0..MaxFaults
  BY <1>2, GatewayAssumption DEF Fault, GatewayAssumption
<1>4. CASE GatewayRefusesResume
  <2>1. /\ request # NoRequest /\ wire' = Append(wire, Control("invalidFalse")) /\ request' = NoRequest
        /\ UNCHANGED <<runnerVars, conn, gateVars, faults, ghostVars>>
    BY <1>4 DEF GatewayRefusesResume, NoRequest
  <2>2. ~conn
    BY <2>1 DEF IInv, Requests
  <2>3. Control("invalidFalse") \in Frame /\ Control("invalidFalse").op # "dispatch"
    BY ControlIsFrame DEF Endings
  <2> QED  BY <2>1, <2>2, <2>3, <1>1, <1>2, ControlKeeps DEF gateVars
<1>5. ASSUME NEW op \in Endings, GatewayRejects(op)
      PROVE  IInv'
  <2>1. /\ request # NoRequest /\ wire' = Append(wire, Control(op)) /\ request' = NoRequest /\ Fault
        /\ UNCHANGED <<runnerVars, conn, gateVars, ghostVars>>
    BY <1>5 DEF GatewayRejects, NoRequest
  <2>2. ~conn
    BY <2>1 DEF IInv, Requests
  <2>3. Control(op) \in Frame /\ Control(op).op # "dispatch"
    BY ControlIsFrame
  <2> QED  BY <2>1, <2>2, <2>3, <1>1, <1>2, <1>3, ControlKeeps DEF gateVars
<1>6. ASSUME NEW op \in Endings \cup Unusable, GatewaySends(op)
      PROVE  IInv'
  <2>1. /\ conn /\ wire' = Append(wire, Control(op)) /\ Fault /\ conn' = (op \in Unusable)
        /\ UNCHANGED <<runnerVars, request, log, current, happened, ghostVars>>
    BY <1>6 DEF GatewaySends
  <2>2. request' = NoRequest
    BY <2>1 DEF IInv, Requests
  <2>3. Control(op) \in Frame /\ Control(op).op # "dispatch"
    BY ControlIsFrame
  <2>4. valid' \in [Sids -> BOOLEAN]
    BY <1>2, <1>6 DEF GatewaySends
  <2> QED  BY <2>1, <2>2, <2>3, <2>4, <1>1, <1>2, <1>3, ControlKeeps
<1>7. CASE ConnectionBreaks
  <2>1. /\ conn \/ request # NoRequest
        /\ conn' = FALSE /\ request' = NoRequest /\ Fault
        /\ UNCHANGED <<runnerVars, gateVars, ghostVars>>
    BY <1>7 DEF ConnectionBreaks
  <2>2. PICK n \in 0..Len(wire) : wire' = Append(SubSeq(wire, 1, n), Control("closed"))
    BY <1>7 DEF ConnectionBreaks
  <2>3. Control("closed") \in Frame /\ Control("closed").op # "dispatch"
    BY ControlIsFrame
  <2> QED  BY <2>1, <2>2, <2>3, <1>2, <1>3, ControlKeeps DEF gateVars
<1> QED  BY <1>4, <1>5, <1>6, <1>7

\* A session that is given up stays in the log.
LEMMA ExpiryKeeps ==
  ASSUME IInv, SessionExpires
  PROVE  IInv'
<1>1. /\ valid' = [valid EXCEPT ![current] = FALSE] /\ Fault
      /\ UNCHANGED <<runnerVars, wireVars, log, current, happened, ghostVars>>
  BY DEF SessionExpires
<1>2. TypeOK'
  <2>1. RunnerTypeOK'
    BY <1>1 DEF IInv, TypeOK, RunnerTypeOK, runnerVars
  <2>2. WireTypeOK' /\ GhostTypeOK'
    BY <1>1 DEF IInv, TypeOK, WireTypeOK, wireVars, GhostTypeOK, ghostVars
  <2>3. GateTypeOK'
    BY <1>1 DEF IInv, TypeOK, GateTypeOK
  <2>4. faults' \in 0..MaxFaults
    BY <1>1, GatewayAssumption DEF Fault, IInv, TypeOK, GatewayAssumption
  <2> QED  BY <2>1, <2>2, <2>3, <2>4 DEF TypeOK
<1>3. DataPlaced' /\ HeldIsCurrent' /\ ToldDead' /\ Tracked'
  BY <1>1 DEF IInv, DataPlaced, HeldIsCurrent, ToldDead, Tracked, Held, runnerVars, ghostVars
<1>4. Requests' /\ Wired' /\ Awaiting' /\ Logged'
  BY <1>1 DEF IInv, Requests, Wired, Base, Awaiting, Logged, runnerVars, wireVars, ghostVars
<1> QED  BY <1>2, <1>3, <1>4 DEF IInv

\* A new session: its log and its connection start together.
LEMMA IdentifiesKeeps ==
  ASSUME IInv, GatewayIdentifies
  PROVE  IInv'
<1> DEFINE a == Entry("ready", 0)
           b == Entry("guild", 0)
<1>1. /\ request.op = "identify" /\ current < MaxSessions /\ current' = current + 1
      /\ log' = [log EXCEPT ![current + 1] = <<a, b>>]
      /\ valid' = [s \in Sids |-> s = current + 1]
      /\ wire' = wire \o <<Dispatch(1, a), Dispatch(2, b)>>
      /\ conn' = TRUE /\ request' = NoRequest
      /\ UNCHANGED <<runnerVars, happened, faults, ghostVars>>
  BY DEF GatewayIdentifies
<1>2. pc = "awaitReady" /\ wire = <<>> /\ ~conn
  BY <1>1 DEF IInv, Requests, NoRequest
<1>3. current' \in Sids /\ current' # 0 /\ current' > current /\ current \in Nat
  BY <1>1, GatewayAssumption DEF IInv, TypeOK, GateTypeOK, Sids, GatewayAssumption
<1>4. a \in Entries /\ b \in Entries
  BY GatewayAssumption DEF Entries, Entry, Kinds, GatewayAssumption
<1>5. wire' = <<Dispatch(1, a), Dispatch(2, b)>> /\ wire' \in Seq(Frame)
      /\ Continues(wire', 0, <<a, b>>) /\ CaughtUp(wire', 0, <<a, b>>)
  <2>1. /\ <<Dispatch(1, a), Dispatch(2, b)>> \in Seq(Frame)
        /\ Continues(<<Dispatch(1, a), Dispatch(2, b)>>, 0, <<a, b>>)
        /\ CaughtUp(<<Dispatch(1, a), Dispatch(2, b)>>, 0, <<a, b>>)
    BY <1>4, FreshContinues
  <2> HIDE DEF a, b
  <2>2. wire' = <<Dispatch(1, a), Dispatch(2, b)>>
    BY <2>1, <1>1, <1>2, ConcatEmptySeq
  <2> QED  BY <2>1, <2>2
<1>6. log'[current'] = <<a, b>> /\ \A s \in Sids : s # current' => log'[s] = log[s]
  BY <1>1, <1>3 DEF IInv, TypeOK, GateTypeOK
<1>7. <<a, b>> # <<>> /\ Len(<<a, b>>) = 2 /\ <<a, b>> \in Seq(Entries)
      /\ <<a, b>>[1] = a /\ <<a, b>>[2] = b
  BY <1>4
<1>8. a.ev = 0 /\ b.ev = 0 /\ a.kind # "event" /\ b.kind # "event"
  BY DEF Entry
<1> HIDE DEF a, b
<1>9. TypeOK'
  <2>1. RunnerTypeOK'
    BY <1>1 DEF IInv, TypeOK, RunnerTypeOK, runnerVars
  <2>2. WireTypeOK'
    BY <1>1, <1>5, NothingIsTyped DEF WireTypeOK
  <2>3. log' \in [Sids -> Seq(Entries)]
    BY <1>1, <1>3, <1>7 DEF IInv, TypeOK, GateTypeOK
  <2>4. GateTypeOK'
    BY <1>1, <1>3, <2>3 DEF IInv, TypeOK, GateTypeOK, Sids
  <2>5. GhostTypeOK'
    BY <1>1 DEF IInv, TypeOK, GhostTypeOK, ghostVars
  <2> QED  BY <1>1, <2>1, <2>2, <2>4, <2>5 DEF IInv, TypeOK
<1>10. session = NoData /\ resumeData = NoData /\ opening = NoData
  BY <1>2 DEF IInv, DataPlaced
<1>11. Held = NoData /\ Held' = NoData
  BY <1>1, <1>10 DEF Held, runnerVars
<1>12. DataPlaced' /\ HeldIsCurrent' /\ ToldDead' /\ Tracked'
  BY <1>1, <1>11 DEF IInv, DataPlaced, HeldIsCurrent, ToldDead, Tracked, runnerVars, ghostVars
<1>13. Requests'
  BY <1>1, <1>2 DEF Requests, NoRequest, runnerVars
<1>14. Wired'
  BY <1>1, <1>2, <1>5, <1>6 DEF Wired, Base, runnerVars
<1>15. given <= current /\ given \in Nat
  BY DEF IInv, Logged, TypeOK, GhostTypeOK
<1>16. Awaiting'
  BY <1>1, <1>3, <1>15 DEF Awaiting, ghostVars
<1>17. Logged'
  <2>1. \A s \in Sids : s > current' <=> log'[s] = <<>>
    <3> SUFFICES ASSUME NEW s \in Sids PROVE s > current' <=> log'[s] = <<>>
      OBVIOUS
    <3>1. s > current <=> log[s] = <<>>
      BY DEF IInv, Logged
    <3>2. CASE s = current'
      <4>1. ~(s > current')
        BY <3>2, <1>3 DEF Sids
      <4>2. log'[s] # <<>>
        BY <3>2, <1>6, <1>7
      <4> QED  BY <4>1, <4>2
    <3>3. CASE s # current'
      <4>1. s > current' <=> s > current
        BY <3>3, <1>1, <1>3 DEF Sids
      <4> QED  BY <3>1, <3>3, <4>1, <1>6
    <3> QED  BY <3>2, <3>3
  <2>2. \A s \in Sids : \A n \in 1..Len(log'[s]) :
          /\ log'[s][n].ev <= happened
          /\ log'[s][n].kind = "event" => log'[s][n].ev # 0
    <3> SUFFICES ASSUME NEW s \in Sids, NEW n \in 1..Len(log'[s])
                 PROVE  /\ log'[s][n].ev <= happened
                        /\ log'[s][n].kind = "event" => log'[s][n].ev # 0
      OBVIOUS
    <3>1. CASE s = current'
      <4>1. log'[s][n] \in {a, b}
        BY <3>1, <1>6, <1>7
      <4>2. 0 <= happened
        BY DEF IInv, TypeOK, GateTypeOK
      <4> QED  BY <4>1, <4>2, <1>8
    <3>2. CASE s # current'
      BY <3>2, <1>6 DEF IInv, Logged
    <3> QED  BY <3>1, <3>2
  <2>3. given' <= current' /\ current' # 0
    BY <1>1, <1>3, <1>15 DEF ghostVars
  <2> QED  BY <2>1, <2>2, <2>3, <1>1 DEF Logged
<1> QED  BY <1>9, <1>12, <1>13, <1>14, <1>16, <1>17 DEF IInv

\* One more dispatch in the log of a session that has begun leaves the log in order.
LEMMA LoggedKeeps ==
  ASSUME IInv, current \in Sids, NEW e \in Entries, e.ev <= happened', e.kind = "event" => e.ev # 0,
         log' = [log EXCEPT ![current] = Append(@, e)],
         current' = current, given' = given, happened' \in 0..MaxEvents, happened <= happened'
  PROVE  /\ Logged' /\ log' \in [Sids -> Seq(Entries)]
         /\ log'[current] = Append(log[current], e) /\ log[current] \in Seq(Entries)
<1>1. /\ log \in [Sids -> Seq(Entries)] /\ log[current] \in Seq(Entries)
      /\ current \in Nat /\ current # 0
  BY DEF IInv, TypeOK, GateTypeOK, Sids
<1>2. log'[current] = Append(log[current], e) /\ \A s \in Sids : s # current => log'[s] = log[s]
  BY <1>1
<1>3. /\ Append(log[current], e) \in Seq(Entries) /\ Append(log[current], e) # <<>>
      /\ Len(Append(log[current], e)) = Len(log[current]) + 1 /\ Len(log[current]) \in Nat
      /\ \A i \in 1..Len(log[current]) : Append(log[current], e)[i] = log[current][i]
      /\ Append(log[current], e)[Len(log[current]) + 1] = e
  BY <1>1, AppendOne
<1>4. log' \in [Sids -> Seq(Entries)]
  BY <1>1, <1>3
<1>5. \A s \in Sids : s > current' <=> log'[s] = <<>>
  <2> SUFFICES ASSUME NEW s \in Sids PROVE s > current <=> log'[s] = <<>>
    OBVIOUS
  <2>1. CASE s = current
    <3>1. ~(s > current)
      BY <2>1, <1>1
    <3>2. log'[s] # <<>>
      BY <2>1, <1>2, <1>3
    <3> QED  BY <3>1, <3>2
  <2>2. CASE s # current
    BY <2>2, <1>2 DEF IInv, Logged
  <2> QED  BY <2>1, <2>2
<1>6. \A s \in Sids : \A n \in 1..Len(log'[s]) :
        /\ log'[s][n].ev <= happened'
        /\ log'[s][n].kind = "event" => log'[s][n].ev # 0
  <2> SUFFICES ASSUME NEW s \in Sids, NEW n \in 1..Len(log'[s])
               PROVE  /\ log'[s][n].ev <= happened'
                      /\ log'[s][n].kind = "event" => log'[s][n].ev # 0
    OBVIOUS
  <2>1. CASE log'[s][n] = e
    BY <2>1
  <2>2. CASE n \in 1..Len(log[s]) /\ log'[s][n] = log[s][n]
    <3>1. /\ log[s][n].ev <= happened /\ (log[s][n].kind = "event" => log[s][n].ev # 0)
          /\ log[s][n] \in Entries
      BY <2>2, <1>1 DEF IInv, Logged
    <3>2. log[s][n].ev \in Nat /\ happened \in Nat
      BY <3>1 DEF Entries, IInv, TypeOK, GateTypeOK
    <3> QED  BY <2>2, <3>1, <3>2
  <2>3. log'[s][n] = e \/ (n \in 1..Len(log[s]) /\ log'[s][n] = log[s][n])
    <3>1. CASE s = current
      BY <3>1, <1>2, <1>3
    <3>2. CASE s # current
      BY <3>2, <1>2
    <3> QED  BY <3>1, <3>2
  <2> QED  BY <2>1, <2>2, <2>3
<1>7. given' <= current' /\ current' # 0
  BY <1>1 DEF IInv, Logged
<1> QED  BY <1>1, <1>2, <1>4, <1>5, <1>6, <1>7 DEF Logged

\* A resume is for the session the gateway is at; the replay starts behind the cursor.
LEMMA ResumesKeeps ==
  ASSUME IInv, GatewayResumes
  PROVE  IInv'
<1> DEFINE e == Entry("resumed", 0)
           l == log[current]
           r == [k \in 1..(Len(l) - session.seq) |-> Dispatch(session.seq + k, l[session.seq + k])]
           f == Dispatch(Len(l) + 1, e)
<1>1. /\ pc \in {"poll", "fatal"} /\ session # NoData /\ wire = <<>> /\ ~conn
      /\ request.sid = session.sid /\ request.seq = session.seq
  BY DEF GatewayResumes, IInv, Requests, DataPlaced, NoRequest
<1>2. resumeData = NoData /\ opening = NoData /\ Held = session
  BY <1>1 DEF IInv, DataPlaced, Held
<1>3. session.sid = current /\ current \in Sids /\ session.seq \in 1..Len(l)
      /\ session.seq \in Nat /\ l \in Seq(Entries) /\ Len(l) \in Nat
  <2>1. session.sid = current /\ current # 0 /\ session.seq \in 1..Len(l)
    BY <1>1, <1>2 DEF IInv, HeldIsCurrent
  <2>2. current \in Sids /\ l \in Seq(Entries)
    BY <2>1, GatewayAssumption DEF IInv, TypeOK, GateTypeOK, Sids, GatewayAssumption
  <2>3. session.seq \in Nat
    BY DEF IInv, TypeOK, RunnerTypeOK, Data
  <2>4. Len(l) \in Nat
    BY <2>2
  <2> QED  BY <2>1, <2>2, <2>3, <2>4
<1>4. /\ log' = [log EXCEPT ![current] = Append(@, e)]
      /\ wire' = wire \o r \o <<f>>
      /\ conn' = TRUE /\ request' = NoRequest
      /\ UNCHANGED <<runnerVars, valid, current, happened, faults, ghostVars>>
  BY <1>1, <1>3 DEF GatewayResumes, Replay
<1>5. e \in Entries /\ e.ev = 0 /\ e.kind = "resumed"
  BY GatewayAssumption DEF Entries, Entry, Kinds, GatewayAssumption
<1>6. f \in Frame /\ f.op = "dispatch" /\ f.seq = Len(l) + 1 /\ f.kind = e.kind /\ f.ev = e.ev
  BY <1>3, GatewayAssumption DEF Dispatch, Frame, Entry, Kinds, GatewayAssumption
<1>7. r \in Seq(Frame) /\ Continues(r, session.seq, l) /\ CaughtUp(r, session.seq, l)
  <2>1. session.seq \in 0..Len(l)
    BY <1>3
  <2> QED  BY <2>1, <1>3, ReplayContinues
<1> HIDE DEF r, e, f
<1>8. wire' = Append(r, f)
  <2>1. <<>> \o r = r
    BY <1>7, ConcatEmptySeq
  <2>2. r \o <<f>> = Append(r, f)
    BY <1>6, <1>7, AppendIsConcat
  <2> QED  BY <2>1, <2>2, <1>1, <1>4
<1>9. wire' \in Seq(Frame) /\ Continues(wire', session.seq, Append(l, e))
      /\ CaughtUp(wire', session.seq, Append(l, e))
  <2>1. session.seq \in 0..Len(l)
    BY <1>3
  <2> QED  BY <2>1, <1>3, <1>5, <1>6, <1>7, <1>8, AppendDispatch, AppendOne
<1>10. happened' \in 0..MaxEvents /\ e.ev <= happened' /\ happened <= happened'
  BY <1>4, <1>5 DEF IInv, TypeOK, GateTypeOK
<1>11. /\ Logged' /\ log' \in [Sids -> Seq(Entries)]
       /\ log'[current] = Append(log[current], e) /\ log[current] \in Seq(Entries)
  BY <1>3, <1>4, <1>5, <1>10, LoggedKeeps DEF ghostVars
<1>12. TypeOK'
  <2>1. RunnerTypeOK'
    BY <1>4 DEF IInv, TypeOK, RunnerTypeOK, runnerVars
  <2>2. WireTypeOK'
    BY <1>4, <1>9, NothingIsTyped DEF WireTypeOK
  <2>3. GateTypeOK'
    BY <1>4, <1>11 DEF IInv, TypeOK, GateTypeOK
  <2>4. GhostTypeOK'
    BY <1>4 DEF IInv, TypeOK, GhostTypeOK, ghostVars
  <2> QED  BY <1>4, <2>1, <2>2, <2>3, <2>4 DEF IInv, TypeOK
<1>13. Held' = Held
  BY <1>4 DEF Held, runnerVars
<1>14. DataPlaced' /\ ToldDead' /\ Tracked' /\ Requests' /\ Awaiting'
  <2>1. DataPlaced' /\ ToldDead' /\ Tracked'
    BY <1>4, <1>13 DEF IInv, DataPlaced, ToldDead, Tracked, runnerVars, ghostVars
  <2>2. Requests' /\ Awaiting'
    BY <1>1, <1>4 DEF Requests, NoRequest, Awaiting, runnerVars
  <2> QED  BY <2>1, <2>2
<1>15. HeldIsCurrent'
  <2>1. Held.seq \in 1..Len(log'[current]) /\ current' = current /\ current # 0 /\ current = given
    BY <1>1, <1>2, <1>3, <1>4, <1>11, AppendOne, <1>5 DEF IInv, HeldIsCurrent
  <2> QED  BY <2>1, <1>2, <1>3, <1>4, <1>13 DEF HeldIsCurrent, ghostVars
<1>16. Wired'
  BY <1>1, <1>4, <1>9, <1>11 DEF Wired, Base, runnerVars
<1> QED  BY <1>11, <1>12, <1>14, <1>15, <1>16 DEF IInv

\* What happens in the guild is logged for the session the gateway is at, and sent if it is open.
LEMMA GuildEventKeeps ==
  ASSUME IInv, NEW kind \in {"event", "unknown", "malformed"}, GuildEvent(kind)
  PROVE  IInv'
<1> DEFINE e == Entry(kind, happened + 1)
           l == log[current]
           f == Dispatch(Len(l) + 1, e)
<1>1. /\ happened < MaxEvents /\ happened' = happened + 1
      /\ UNCHANGED <<runnerVars, conn, request, valid, current, ghostVars>>
  BY DEF GuildEvent
<1>2. happened \in Nat /\ happened' \in 0..MaxEvents /\ happened <= happened' /\ happened' # 0
  BY <1>1, GatewayAssumption DEF IInv, TypeOK, GateTypeOK, GatewayAssumption
<1>3. faults' \in 0..MaxFaults
  BY GatewayAssumption DEF GuildEvent, IInv, TypeOK, GatewayAssumption
<1>4. RunnerTypeOK' /\ GhostTypeOK'
  <2>1. RunnerTypeOK'
    BY <1>1 DEF IInv, TypeOK, RunnerTypeOK, runnerVars
  <2>2. GhostTypeOK'
    BY <1>1 DEF IInv, TypeOK, GhostTypeOK, ghostVars
  <2> QED  BY <2>1, <2>2
<1>5. Held' = Held /\ Base' = Base
  BY <1>1 DEF Held, Base, runnerVars
<1>6. DataPlaced' /\ ToldDead' /\ Tracked'
  BY <1>1, <1>5 DEF IInv, DataPlaced, ToldDead, Tracked, runnerVars, ghostVars
<1>7. Base \in Nat
  BY DEF Base, IInv, TypeOK, RunnerTypeOK, Data
<1>8. CASE current # 0 /\ valid[current]
  <2>1. /\ log' = [log EXCEPT ![current] = Append(@, e)]
        /\ wire' = IF conn THEN Append(wire, f) ELSE wire
    BY <1>8 DEF GuildEvent
  <2>2. current \in Sids /\ l \in Seq(Entries) /\ wire \in Seq(Frame) /\ Len(l) \in Nat
    <3>1. current \in Sids /\ l \in Seq(Entries) /\ wire \in Seq(Frame)
      BY <1>8, GatewayAssumption DEF IInv, TypeOK, GateTypeOK, WireTypeOK, Sids, GatewayAssumption
    <3> QED  BY <3>1
  <2>3. e \in Entries /\ e.ev = happened' /\ e.ev # 0
    BY <1>1, <1>2 DEF Entry, Entries, Kinds
  <2>4. f \in Frame /\ f.op = "dispatch" /\ f.seq = Len(l) + 1 /\ f.kind = e.kind /\ f.ev = e.ev
    <3>1. kind \in Kinds \cup {"none"} /\ happened + 1 \in Nat /\ Len(l) + 1 \in Nat
      BY <1>2, <2>2 DEF Kinds
    <3> QED  BY <3>1 DEF Dispatch, Frame, Entry
  <2> HIDE DEF e, f
  <2>5. e.ev <= happened'
    BY <1>2, <2>3
  <2>6. /\ Logged' /\ log' \in [Sids -> Seq(Entries)]
        /\ log'[current] = Append(log[current], e) /\ log[current] \in Seq(Entries)
    BY <1>1, <1>2, <2>1, <2>2, <2>3, <2>5, LoggedKeeps DEF ghostVars
  <2>7. Continues(wire, Base, l) /\ (conn => CaughtUp(wire, Base, l))
    BY <1>8 DEF IInv, Wired
  <2>8. ASSUME conn PROVE wire' \in Seq(Frame) /\ Wired' /\ Requests' /\ Awaiting'
    <3>1. wire' = Append(wire, f) /\ wire' \in Seq(Frame)
      BY <2>8, <2>1, <2>2, <2>4, AppendOne
    <3>2. pc = "awaitReady" \/ (pc \in {"poll", "fatal"} /\ session # NoData)
      BY <2>8, Connected
    <3>3. Base \in 0..Len(l)
      <4>1. CASE pc = "awaitReady"
        BY <4>1, <2>2 DEF Base
      <4>2. CASE pc \in {"poll", "fatal"} /\ session # NoData
        <5>1. Held = session
          BY <4>2 DEF Held
        <5>2. session.seq \in 1..Len(l)
          BY <5>1, <4>2 DEF IInv, HeldIsCurrent
        <5> QED  BY <5>2, <4>2 DEF Base
      <4> QED  BY <3>2, <4>1, <4>2
    <3>4. Continues(wire', Base, Append(l, e)) /\ CaughtUp(wire', Base, Append(l, e))
      BY <3>1, <3>3, <2>2, <2>3, <2>4, <2>7, <2>8, AppendDispatch
    <3>5. request = NoRequest
      BY <2>8 DEF IInv, Requests
    <3>6. Requests'
      BY <1>1, <2>8, <3>2, <3>5 DEF Requests, NoRequest, runnerVars
    <3>7. Awaiting'
      BY <1>1, <2>8 DEF IInv, Awaiting, runnerVars, ghostVars
    <3>8. Wired'
      BY <1>1, <1>5, <2>6, <3>4 DEF Wired
    <3> QED  BY <3>1, <3>6, <3>7, <3>8
  <2>9. ASSUME ~conn PROVE wire' \in Seq(Frame) /\ Wired' /\ Requests' /\ Awaiting'
    <3>1. wire' = wire
      BY <2>9, <2>1
    <3>2. Continues(wire, Base, Append(l, e))
      BY <2>2, <2>3, <2>7, <1>7, LogGrows
    <3>3. Requests'
      BY <1>1, <3>1 DEF IInv, Requests, runnerVars
    <3>4. Awaiting'
      BY <1>1, <3>1 DEF IInv, Awaiting, runnerVars, ghostVars
    <3>5. Wired'
      BY <1>1, <1>5, <2>6, <2>9, <3>1, <3>2 DEF Wired
    <3> QED  BY <2>2, <3>1, <3>3, <3>4, <3>5
  <2>10. HeldIsCurrent'
    <3>1. Len(log'[current]) = Len(log[current]) + 1 /\ Len(log[current]) \in Nat
      BY <2>3, <2>6, AppendOne
    <3> QED  BY <3>1, <1>1, <1>5 DEF IInv, HeldIsCurrent, ghostVars
  <2>11. GateTypeOK'
    BY <1>1, <1>2, <2>6 DEF IInv, TypeOK, GateTypeOK
  <2>12. WireTypeOK'
    BY <1>1, <2>8, <2>9 DEF IInv, TypeOK, WireTypeOK
  <2> QED  BY <1>3, <1>4, <1>6, <2>6, <2>8, <2>9, <2>10, <2>11, <2>12 DEF IInv, TypeOK
<1>9. CASE ~(current # 0 /\ valid[current])
  <2>1. UNCHANGED <<log, wire>>
    BY <1>9 DEF GuildEvent
  <2>2. WireTypeOK' /\ GateTypeOK'
    <3>1. WireTypeOK'
      BY <1>1, <2>1 DEF IInv, TypeOK, WireTypeOK
    <3> QED  BY <1>1, <1>2, <2>1, <3>1 DEF IInv, TypeOK, GateTypeOK
  <2>3. HeldIsCurrent' /\ Requests' /\ Wired' /\ Awaiting'
    <3>1. HeldIsCurrent' /\ Wired'
      BY <1>1, <1>5, <2>1 DEF IInv, HeldIsCurrent, Wired, ghostVars
    <3>2. Requests' /\ Awaiting'
      BY <1>1, <2>1 DEF IInv, Requests, Awaiting, runnerVars, ghostVars
    <3> QED  BY <3>1, <3>2
  <2>4. Logged'
    <3> SUFFICES ASSUME NEW s \in Sids, NEW n \in 1..Len(log[s])
                 PROVE  log[s][n].ev <= happened'
      BY <1>1, <2>1 DEF IInv, Logged, ghostVars
    <3>1. log[s][n].ev <= happened /\ log[s][n] \in Entries
      BY DEF IInv, Logged, TypeOK, GateTypeOK
    <3> QED  BY <3>1, <1>2 DEF Entries
  <2> QED  BY <1>3, <1>4, <1>6, <2>2, <2>3, <2>4 DEF IInv, TypeOK
<1> QED  BY <1>8, <1>9

\* Nothing but a step changes the state.
LEMMA StutterKeeps == IInv /\ UNCHANGED vars => IInv'
<1> SUFFICES ASSUME IInv, UNCHANGED vars PROVE IInv'
  OBVIOUS
<1> USE DEF vars, runnerVars, wireVars, gateVars, ghostVars
<1>1. TypeOK'
  <2>1. RunnerTypeOK'
    BY DEF IInv, TypeOK, RunnerTypeOK
  <2>2. WireTypeOK' /\ GateTypeOK' /\ GhostTypeOK'
    BY DEF IInv, TypeOK, WireTypeOK, GateTypeOK, GhostTypeOK
  <2> QED  BY <2>1, <2>2 DEF IInv, TypeOK
<1>2. Held' = Held /\ Base' = Base
  BY DEF Held, Base
<1>3. DataPlaced' /\ HeldIsCurrent' /\ ToldDead' /\ Tracked'
  BY <1>2 DEF IInv, DataPlaced, HeldIsCurrent, ToldDead, Tracked
<1>4. Requests' /\ Wired' /\ Awaiting' /\ Logged'
  BY <1>2 DEF IInv, Requests, Wired, Awaiting, Logged
<1> QED  BY <1>1, <1>3, <1>4 DEF IInv

\* Every step keeps the invariant.
LEMMA Invariance == IInv /\ [Next]_vars => IInv'
<1> SUFFICES ASSUME IInv, [Next]_vars PROVE IInv'
  OBVIOUS
<1>1. CASE RunnerStep
  BY <1>1, StartKeeps, SendResumeKeeps, SendIdentifyKeeps, ReadyKeeps, HandshakeEndsKeeps,
     PollDispatchKeeps, PollTransientKeeps, DisconnectKeeps, RetryKeeps, StutterKeeps
  DEF RunnerStep, PollIdle
<1>2. CASE GatewayAnswers
  BY <1>2, IdentifiesKeeps, ResumesKeeps, EndingsKeep DEF GatewayAnswers
<1>3. CASE Disturbance
  BY <1>3, HandshakeEndsKeeps, DisconnectKeeps, EndingsKeep, GuildEventKeeps, ExpiryKeeps
  DEF Disturbance
<1>4. CASE Stopped \/ UNCHANGED vars
  BY <1>4, StutterKeeps DEF Stopped
<1> QED  BY <1>1, <1>2, <1>3, <1>4 DEF Next

-----------------------------------------------------------------------------
(* What the invariant means for the bot.                                   *)

\* The runner, the gateway and the wire stay in their domains.
THEOREM TypeCorrect == Spec => []TypeOK
<1>1. IInv => TypeOK
  BY DEF IInv
<1> QED  BY InitEstablishes, Invariance, <1>1, PTL DEF Spec

\* The dispatches on their way continue the cursor of gateway/mod.rs (seq), whatever was
\* disconnected, resumed, replayed or begun again before.
THEOREM CursorIsContinued == Spec => []WireContinuesCursor
<1>1. IInv => WireContinuesCursor
  <2> SUFFICES ASSUME IInv, pc = "poll" PROVE WireContinuesCursor
    BY DEF WireContinuesCursor
  <2>1. session # NoData /\ Held = session
    BY DEF IInv, DataPlaced, Held
  <2>2. session.sid = current /\ current # 0
    BY <2>1 DEF IInv, HeldIsCurrent
  <2> QED  BY <2>2 DEF IInv, Wired, Base, WireContinuesCursor
<1> QED  BY InitEstablishes, Invariance, <1>1, PTL DEF Spec

\* Names are resolved from the guild of the session the bot is in (runner.rs:77).
THEOREM TablesAreCurrent == Spec => []TrackerIsCurrent
<1>1. IInv => TrackerIsCurrent
  BY DEF IInv, DataPlaced, Held, Tracked, TrackerIsCurrent
<1> QED  BY InitEstablishes, Invariance, <1>1, PTL DEF Spec

\* A session the gateway declared over is never resumed (classify_error).
THEOREM DeadStaysDead == Spec => []DeadSessionNotResumed
<1>1. IInv => DeadSessionNotResumed
  <2> SUFFICES ASSUME IInv, toldDead PROVE request.op # "resume" /\ resumeData = NoData
    BY DEF DeadSessionNotResumed
  <2>1. Held = NoData
    BY DEF IInv, ToldDead
  <2>2. session = NoData /\ resumeData = NoData
    BY <2>1 DEF Held
  <2> QED  BY <2>2 DEF IInv, Requests
<1> QED  BY InitEstablishes, Invariance, <1>1, PTL DEF Spec

-----------------------------------------------------------------------------
(* GatewaySession implements EventFeed, for every number of sessions,      *)
(* events and faults: each of its steps is a step of the feed or none.     *)
Stream(l) == [n \in 1..Len(l) |-> IF l[n].kind = "event" THEN l[n].ev ELSE 0]
Streamed == [s \in Sids |-> StreamOf(s)]
Place == [sid |-> Held.sid, seq |-> Held.seq]
Shown(e) == IF e.kind = "event" THEN e.ev ELSE 0

\* A log is shown entry by entry.
LEMMA StreamShape ==
  ASSUME NEW l \in Seq(Entries)
  PROVE  /\ Stream(l) \in Seq(0..MaxEvents) /\ Len(Stream(l)) = Len(l) /\ Len(l) \in Nat
         /\ \A n \in 1..Len(l) : Stream(l)[n] = Shown(l[n])
         /\ l = <<>> <=> Stream(l) = <<>>
<1>1. PICK n \in Nat : n = Len(l)
  BY LenProperties
<1>2. ASSUME NEW e \in Entries PROVE Shown(e) \in 0..MaxEvents
  BY GatewayAssumption DEF Shown, Entries, GatewayAssumption
<1>3. \A i \in 1..n : l[i] \in Entries /\ Stream(l)[i] = Shown(l[i])
  BY <1>1 DEF Stream, Shown
<1>4. Stream(l) \in [1..n -> 0..MaxEvents]
  <2>1. Stream(l) = [i \in 1..n |-> Shown(l[i])]
    BY <1>1 DEF Stream, Shown
  <2> QED  BY <2>1, <1>2, <1>3
<1>5. Stream(l) \in Seq(0..MaxEvents) /\ Len(Stream(l)) = n
  BY <1>1, <1>4, FunctionIsSeq
<1>6. l = <<>> <=> Stream(l) = <<>>
  BY <1>1, <1>5, EmptySeq
<1> QED  BY <1>1, <1>3, <1>5, <1>6

\* One more entry shows as one more.
LEMMA StreamAppend ==
  ASSUME NEW l \in Seq(Entries), NEW e \in Entries
  PROVE  Stream(Append(l, e)) = Append(Stream(l), Shown(e))
<1> DEFINE x == Stream(Append(l, e))
           y == Append(Stream(l), Shown(e))
<1>1. Append(l, e) \in Seq(Entries) /\ Len(Append(l, e)) = Len(l) + 1 /\ Len(l) \in Nat
      /\ Append(l, e)[Len(l) + 1] = e /\ \A i \in 1..Len(l) : Append(l, e)[i] = l[i]
  BY AppendOne
<1>2. x \in Seq(0..MaxEvents) /\ Len(x) = Len(l) + 1
      /\ \A n \in 1..(Len(l) + 1) : x[n] = Shown(Append(l, e)[n])
  BY <1>1, StreamShape
<1>3. Stream(l) \in Seq(0..MaxEvents) /\ Len(Stream(l)) = Len(l)
      /\ \A n \in 1..Len(l) : Stream(l)[n] = Shown(l[n])
  BY StreamShape
<1>4. Shown(e) \in 0..MaxEvents
  BY GatewayAssumption DEF Shown, Entries, GatewayAssumption
<1>5. y \in Seq(0..MaxEvents) /\ Len(y) = Len(l) + 1
      /\ y[Len(l) + 1] = Shown(e) /\ \A i \in 1..Len(l) : y[i] = Stream(l)[i]
  BY <1>3, <1>4, AppendOne
<1> HIDE DEF x, y
<1>6. ASSUME NEW i \in 1..Len(x) PROVE x[i] = y[i]
  <2>1. i \in 1..Len(l) \/ i = Len(l) + 1
    BY <1>1, <1>2
  <2>2. CASE i \in 1..Len(l)
    BY <2>2, <1>1, <1>2, <1>3, <1>5
  <2>3. CASE i = Len(l) + 1
    BY <2>3, <1>1, <1>2, <1>5
  <2> QED  BY <2>1, <2>2, <2>3
<1>7. x = y
  BY <1>2, <1>5, <1>6, SeqEqual
<1> QED  BY <1>7 DEF x, y

\* A session begins with two dispatches that are no events.
LEMMA StreamFresh ==
  ASSUME NEW a \in Entries, NEW b \in Entries, a.kind # "event", b.kind # "event"
  PROVE  Stream(<<a, b>>) = <<0, 0>>
<1>1. <<a, b>> \in Seq(Entries) /\ Len(<<a, b>>) = 2 /\ <<a, b>>[1] = a /\ <<a, b>>[2] = b
  OBVIOUS
<1>2. Stream(<<a, b>>) \in Seq(0..MaxEvents) /\ Len(Stream(<<a, b>>)) = 2
      /\ \A n \in 1..2 : Stream(<<a, b>>)[n] = Shown(<<a, b>>[n])
  BY <1>1, StreamShape
<1>3. Stream(<<a, b>>)[1] = 0 /\ Stream(<<a, b>>)[2] = 0
  BY <1>1, <1>2 DEF Shown
<1>4. <<0, 0>> \in Seq(0..MaxEvents) /\ Len(<<0, 0>>) = 2 /\ <<0, 0>>[1] = 0 /\ <<0, 0>>[2] = 0
  BY GatewayAssumption DEF GatewayAssumption
<1>5. \A i \in 1..2 : Stream(<<a, b>>)[i] = <<0, 0>>[i]
  BY <1>3, <1>4
<1> QED  BY <1>2, <1>4, <1>5, SeqEqual

\* What the streams of the feed are.
LEMMA StreamedIs ==
  ASSUME IInv, NEW s \in Sids
  PROVE  /\ log[s] \in Seq(Entries) /\ Streamed[s] = Stream(log[s]) /\ StreamOf(s) = Stream(log[s])
BY DEF IInv, TypeOK, GateTypeOK, Streamed, StreamOf, Stream

-----------------------------------------------------------------------------
\* The runner starts where the feed starts.
LEMMA InitImplements == Init => FeedOf!Init
<1> SUFFICES ASSUME Init PROVE FeedOf!Init
  OBVIOUS
<1>1. ASSUME NEW s \in Sids PROVE StreamOf(s) = <<>>
  <2>1. log[s] = <<>> /\ <<>> \in Seq(Entries)
    BY DEF Init
  <2> QED  BY <2>1, StreamShape DEF StreamOf, Stream
<1>2. Held = NoData
  BY DEF Held, Init
<1>3. [s \in Sids |-> StreamOf(s)] = [s \in Sids |-> <<>>]
  BY <1>1
<1> QED  BY <1>2, <1>3 DEF Init, FeedOf!Init, FeedOf!Streams, FeedOf!Nowhere, NoData, Sids

\* Steps that change nothing of what the feed shows.
LEMMA Stutters ==
  ASSUME log' = log, Held' = Held, given' = given, delivered' = delivered
  PROVE  UNCHANGED FeedOf!vars
BY DEF FeedOf!vars, StreamOf

\* A step that only drops the session is the feed's GiveUp.
LEMMA ToNowhere ==
  ASSUME log' = log, Held' = NoData, given' = given, delivered' = delivered
  PROVE  FeedOf!GiveUp
BY DEF FeedOf!GiveUp, FeedOf!Nowhere, StreamOf, NoData

\* READY of a new session: the feed follows it.
LEMMA ReadyFollows ==
  ASSUME IInv, ReadyArrives
  PROVE  \E s \in FeedOf!Streams : FeedOf!Follow(s)
<1>1. First.seq = 1 /\ given < current /\ IInv'
  BY ReadyKeeps
<1>2. /\ given' = current /\ log' = log /\ delivered' = delivered /\ current' = current
      /\ session'.sid = current /\ session'.seq = First.seq
  BY DEF ReadyArrives, gateVars
<1>3. Held'.sid = current /\ Held'.seq = 1 /\ current \in Sids
  <2>1. current \in Sids
    BY <1>1, GatewayAssumption DEF IInv, TypeOK, GateTypeOK, GhostTypeOK, Sids, GatewayAssumption
  <2>2. session' # NoData
    BY <1>2, <2>1 DEF NoData, Sids
  <2>3. Held' = session'
    BY <2>2 DEF Held
  <2> QED  BY <2>1, <2>3, <1>1, <1>2
<1>4. log[current] # <<>>
  BY <1>3 DEF IInv, Logged, Sids
<1>5. StreamOf(current) # <<>>
  BY <1>3, <1>4, StreamedIs, StreamShape
<1>6. FeedOf!Follow(current)
  BY <1>1, <1>2, <1>3, <1>5 DEF FeedOf!Follow, StreamOf
<1> QED  BY <1>3, <1>6 DEF FeedOf!Streams, Sids

\* poll on a dispatch: the bot is shown the next entry of the stream.
LEMMA PollHandlesNext ==
  ASSUME IInv, PollDispatch
  PROVE  FeedOf!HandleNext
<1>1. /\ pc = "poll" /\ wire # <<>> /\ First.op = "dispatch"
      /\ session' = [session EXCEPT !.seq = First.seq]
      /\ delivered' = IF First.kind = "event" THEN Append(delivered, First.ev) ELSE delivered
      /\ log' = log /\ given' = given
  BY DEF PollDispatch, Receives, Advanced, ForBot, gateVars, ghostVars
<1>2. /\ session # NoData /\ session \in Data /\ Held = session /\ session.sid = current
      /\ current \in Sids /\ log[current] \in Seq(Entries)
      /\ First.seq = session.seq + 1 /\ First.seq \in 1..Len(log[current])
      /\ First.kind = log[current][First.seq].kind /\ First.ev = log[current][First.seq].ev
  BY <1>1, NextDispatch
<1>3. Held'.sid = session.sid /\ Held'.seq = session.seq + 1
  <2>1. session'.sid = session.sid /\ session'.seq = session.seq + 1
    BY <1>1, <1>2 DEF Data
  <2>2. session' # NoData
    BY <2>1, <1>2 DEF NoData, Sids
  <2>3. Held' = session'
    BY <2>2 DEF Held
  <2> QED  BY <2>1, <2>3
<1>4. /\ Len(StreamOf(current)) = Len(log[current]) /\ Len(log[current]) \in Nat
      /\ StreamOf(current)[First.seq] = Shown(log[current][First.seq])
  BY <1>2, StreamedIs, StreamShape
<1>5. Shown(log[current][First.seq]) = 0 \/ First.kind = "event"
  BY <1>2 DEF Shown
<1>6. First.kind = "event" => /\ Shown(log[current][First.seq]) = First.ev /\ First.ev # 0
  BY <1>2, EventsAreNumbers DEF Shown
<1>7. delivered' = IF StreamOf(current)[session.seq + 1] = 0 THEN delivered
                   ELSE Append(delivered, StreamOf(current)[session.seq + 1])
  BY <1>1, <1>2, <1>4, <1>5, <1>6
<1>8. Held.sid = current /\ Held.seq = session.seq /\ current # 0
      /\ session.seq \in Nat /\ session.seq < Len(StreamOf(current))
  BY <1>2, <1>4 DEF Data, Sids
<1>9. [sid |-> Held.sid, seq |-> Held.seq]'
         = [[sid |-> Held.sid, seq |-> Held.seq] EXCEPT !.seq = @ + 1]
  BY <1>3, <1>8, <1>2
<1>10. [s \in Sids |-> StreamOf(s)]' = [s \in Sids |-> StreamOf(s)]
  BY <1>1 DEF StreamOf
<1> QED  BY <1>1, <1>2, <1>7, <1>8, <1>9, <1>10 DEF FeedOf!HandleNext, FeedOf!Event

\* One stream becomes longer: what the gateway logs.
LEMMA LogSends ==
  ASSUME IInv, current \in Sids, NEW e \in Entries, log' = [log EXCEPT ![current] = Append(@, e)],
         current' = current, Held' = Held, given' = given, delivered' = delivered,
         Shown(e) = 0 \/ Shown(e) = happened + 1
  PROVE  FeedOf!Send(current, Shown(e))
<1>1. log \in [Sids -> Seq(Entries)] /\ log[current] \in Seq(Entries) /\ log[current] # <<>>
  BY DEF IInv, Logged, TypeOK, GateTypeOK, Sids
<1>2. StreamOf(current) # <<>>
  BY <1>1, StreamedIs, StreamShape
<1>3. \A s \in Sids : s # current => StreamOf(s)' = StreamOf(s)
  BY <1>1 DEF StreamOf
<1>4. StreamOf(current)' = Append(StreamOf(current), Shown(e))
  <2>1. log'[current] = Append(log[current], e)
    BY <1>1
  <2>2. StreamOf(current)' = Stream(Append(log[current], e))
    BY <2>1 DEF StreamOf, Stream
  <2> QED  BY <2>2, <1>1, StreamAppend, StreamedIs
<1>5. [s \in Sids |-> StreamOf(s)]'
         = [[s \in Sids |-> StreamOf(s)] EXCEPT ![current] = Append(@, Shown(e))]
  BY <1>3, <1>4
<1>6. Shown(e) = happened + 1 =>
        /\ \A t \in Sids : t > current => StreamOf(t) = <<>>
        /\ \A t \in Sids : \A i \in 1..Len(StreamOf(t)) : StreamOf(t)[i] < Shown(e)
  <2> SUFFICES ASSUME Shown(e) = happened + 1, NEW t \in Sids
               PROVE  /\ t > current => StreamOf(t) = <<>>
                      /\ \A i \in 1..Len(StreamOf(t)) : StreamOf(t)[i] < happened + 1
    OBVIOUS
  <2>1. log[t] \in Seq(Entries) /\ StreamOf(t) = Stream(log[t])
    BY StreamedIs
  <2>2. Len(StreamOf(t)) = Len(log[t]) /\ (log[t] = <<>> <=> StreamOf(t) = <<>>)
        /\ \A n \in 1..Len(log[t]) : StreamOf(t)[n] = Shown(log[t][n])
    BY <2>1, StreamShape
  <2>3. happened \in Nat
    BY DEF IInv, TypeOK, GateTypeOK
  <2>4. \A n \in 1..Len(log[t]) : log[t][n] \in Entries /\ log[t][n].ev <= happened
    BY <2>1 DEF IInv, Logged
  <2>5. ASSUME NEW i \in 1..Len(StreamOf(t)) PROVE StreamOf(t)[i] < happened + 1
    <3>1. i \in 1..Len(log[t])
      BY <2>2
    <3>2. log[t][i].ev \in Nat /\ log[t][i].ev <= happened
      BY <3>1, <2>4 DEF Entries
    <3>3. StreamOf(t)[i] = Shown(log[t][i])
      BY <3>1, <2>2
    <3> QED  BY <3>2, <3>3, <2>3 DEF Shown
  <2>6. t > current => StreamOf(t) = <<>>
    BY <2>2 DEF IInv, Logged
  <2> QED  BY <2>5, <2>6
<1>7. [s \in Sids |-> StreamOf(s)][current] # <<>>
  BY <1>2
<1>8. Shown(e) # 0 => FeedOf!IsNew(current, Shown(e))
  BY <1>6 DEF FeedOf!IsNew, FeedOf!Streams, FeedOf!Event, Sids
<1> QED  BY <1>5, <1>7, <1>8 DEF FeedOf!Send

\* IDENTIFY is answered: a stream begins.
LEMMA IdentifiesBegins ==
  ASSUME IInv, GatewayIdentifies
  PROVE  \E s \in FeedOf!Streams : FeedOf!Begin(s)
<1> DEFINE a == Entry("ready", 0)
           b == Entry("guild", 0)
<1>1. /\ current < MaxSessions /\ log' = [log EXCEPT ![current + 1] = <<a, b>>]
      /\ Held' = Held /\ given' = given /\ delivered' = delivered
  BY DEF GatewayIdentifies, Held, runnerVars, ghostVars
<1>2. PICK s \in Sids : s = current + 1 /\ s > current
  BY <1>1, GatewayAssumption DEF IInv, TypeOK, GateTypeOK, Sids, GatewayAssumption
<1>3. a \in Entries /\ b \in Entries /\ a.kind # "event" /\ b.kind # "event"
  BY GatewayAssumption DEF Entries, Entry, Kinds, GatewayAssumption
<1> HIDE DEF a, b
<1>4. log[s] = <<>> /\ log[s] \in Seq(Entries) /\ log \in [Sids -> Seq(Entries)]
  BY <1>2 DEF IInv, Logged, TypeOK, GateTypeOK
<1>5. StreamOf(s) = <<>>
  BY <1>4, StreamedIs, StreamShape
<1>6. \A t \in Sids : t # s => StreamOf(t)' = StreamOf(t)
  BY <1>1, <1>2, <1>4 DEF StreamOf
<1>7. StreamOf(s)' = <<0, 0>>
  <2>1. log'[s] = <<a, b>>
    BY <1>1, <1>2, <1>4
  <2>2. StreamOf(s)' = Stream(<<a, b>>)
    BY <2>1 DEF StreamOf, Stream
  <2> QED  BY <2>2, <1>3, StreamFresh
<1>8. [t \in Sids |-> StreamOf(t)]' = [[t \in Sids |-> StreamOf(t)] EXCEPT ![s] = <<0, 0>>]
  BY <1>6, <1>7
<1>9. FeedOf!Begin(s)
  BY <1>1, <1>5, <1>8 DEF FeedOf!Begin
<1> QED  BY <1>9 DEF FeedOf!Streams, Sids

\* A resume is logged in the stream of the session it is for; it is no event.
LEMMA ResumesSends ==
  ASSUME IInv, GatewayResumes
  PROVE  FeedOf!Send(current, 0) /\ current \in Sids
<1> DEFINE e == Entry("resumed", 0)
<1>1. /\ pc \in {"poll", "fatal"} /\ session # NoData /\ request.sid = session.sid
  BY DEF GatewayResumes, IInv, Requests, DataPlaced, NoRequest
<1>2. Held = session /\ session.sid = current /\ current # 0
  BY <1>1 DEF IInv, Held, HeldIsCurrent
<1>3. current \in Sids
  BY <1>2, GatewayAssumption DEF IInv, TypeOK, GateTypeOK, Sids, GatewayAssumption
<1>4. /\ log' = [log EXCEPT ![current] = Append(@, e)]
      /\ current' = current /\ Held' = Held /\ given' = given /\ delivered' = delivered
  BY <1>1, <1>2 DEF GatewayResumes, Held, runnerVars, ghostVars
<1>5. e \in Entries /\ Shown(e) = 0
  BY GatewayAssumption DEF Entries, Entry, Kinds, Shown, GatewayAssumption
<1> HIDE DEF e
<1>6. FeedOf!Send(current, Shown(e))
  BY <1>3, <1>4, <1>5, LogSends
<1> QED  BY <1>3, <1>5, <1>6

\* What happens in the guild is sent in the newest stream, or in none.
LEMMA GuildEventSends ==
  ASSUME IInv, NEW kind \in {"event", "unknown", "malformed"}, GuildEvent(kind)
  PROVE  FeedOf!Next \/ UNCHANGED FeedOf!vars
<1> DEFINE e == Entry(kind, happened + 1)
<1>1. /\ happened < MaxEvents /\ current' = current
      /\ Held' = Held /\ given' = given /\ delivered' = delivered
  BY DEF GuildEvent, Held, runnerVars, ghostVars
<1>2. happened + 1 \in 0..MaxEvents
  BY <1>1, GatewayAssumption DEF IInv, TypeOK, GateTypeOK, GatewayAssumption
<1>3. CASE current # 0 /\ valid[current]
  <2>1. log' = [log EXCEPT ![current] = Append(@, e)]
    BY <1>3 DEF GuildEvent
  <2>2. current \in Sids
    BY <1>3, GatewayAssumption DEF IInv, TypeOK, GateTypeOK, Sids, GatewayAssumption
  <2>3. e \in Entries /\ Shown(e) \in {0, happened + 1}
    BY <1>2 DEF Entries, Entry, Kinds, Shown
  <2> HIDE DEF e
  <2>4. FeedOf!Send(current, Shown(e))
    BY <1>1, <2>1, <2>2, <2>3, LogSends
  <2>5. Shown(e) \in 0..MaxEvents
    BY <1>2, <2>3, GatewayAssumption DEF GatewayAssumption
  <2> QED  BY <2>2, <2>4, <2>5 DEF FeedOf!Next, FeedOf!Streams, Sids
<1>4. CASE ~(current # 0 /\ valid[current])
  <2>1. log' = log
    BY <1>4 DEF GuildEvent
  <2> QED  BY <1>1, <2>1, Stutters
<1> QED  BY <1>3, <1>4

\* While the session changes hands, or nothing is taken or logged, the feed stands still.
LEMMA QuietSteps ==
  ASSUME IInv,
         \/ StartSession \/ SendResume \/ SendIdentify \/ PollTransient \/ Retry
         \/ GatewayRefusesResume \/ (\E op \in Endings : GatewayRejects(op))
         \/ (\E op \in Endings \cup Unusable : GatewaySends(op))
         \/ ConnectionBreaks \/ SessionExpires \/ UNCHANGED vars
  PROVE  UNCHANGED FeedOf!vars
<1>1. CASE StartSession
  <2>1. session = NoData /\ opening = NoData
    BY <1>1 DEF StartSession, IInv, DataPlaced
  <2>2. Held' = Held
    BY <1>1, <2>1 DEF StartSession, Held
  <2> QED  BY <1>1, <2>2, Stutters DEF StartSession, gateVars, ghostVars
<1>2. CASE SendResume
  <2>1. session = NoData /\ resumeData = NoData
    BY <1>2 DEF SendResume, IInv, DataPlaced
  <2>2. Held' = Held
    BY <1>2, <2>1 DEF SendResume, Held
  <2> QED  BY <1>2, <2>2, Stutters DEF SendResume, gateVars, ghostVars
<1>3. CASE SendIdentify \/ Retry
  <2>1. Held' = Held
    BY <1>3 DEF SendIdentify, Retry, Held
  <2> QED  BY <1>3, <2>1, Stutters DEF SendIdentify, Retry, gateVars, ghostVars
<1>4. CASE PollTransient \/ GatewayRefusesResume \/ ConnectionBreaks \/ SessionExpires \/ UNCHANGED vars
  <2>1. UNCHANGED <<runnerVars, log, ghostVars>>
    BY <1>4 DEF PollTransient, GatewayRefusesResume, ConnectionBreaks, SessionExpires, vars, gateVars
  <2>2. Held' = Held
    BY <2>1 DEF Held, runnerVars
  <2> QED  BY <2>1, <2>2, Stutters DEF runnerVars, ghostVars
<1>5. CASE (\E op \in Endings : GatewayRejects(op)) \/ (\E op \in Endings \cup Unusable : GatewaySends(op))
  <2>1. UNCHANGED <<runnerVars, log, ghostVars>>
    BY <1>5 DEF GatewayRejects, GatewaySends, gateVars
  <2>2. Held' = Held
    BY <2>1 DEF Held, runnerVars
  <2> QED  BY <2>1, <2>2, Stutters DEF runnerVars, ghostVars
<1> QED  BY <1>1, <1>2, <1>3, <1>4, <1>5

\* The end of a connection keeps the bot's place, or gives it up.
LEMMA EndsGiveUp ==
  ASSUME IInv, \/ HandshakeFails \/ HandshakeRejected \/ HandshakeTimeout
               \/ PollDisconnect \/ PollZombied
  PROVE  FeedOf!GiveUp \/ UNCHANGED FeedOf!vars
<1>1. log' = log /\ given' = given /\ delivered' = delivered
  BY DEF HandshakeFails, HandshakeRejected, HandshakeTimeout, PollDisconnect, PollZombied,
         gateVars, ghostVars
<1>2. CASE HandshakeFails \/ HandshakeRejected \/ HandshakeTimeout
  <2>1. session' = NoData /\ resumeData' = NoData /\ opening' = NoData
    BY <1>2 DEF HandshakeFails, HandshakeRejected, HandshakeTimeout, IInv, DataPlaced
  <2>2. Held' = NoData
    BY <2>1 DEF Held
  <2> QED  BY <1>1, <2>2, ToNowhere
<1>3. CASE PollDisconnect \/ PollZombied
  <2>1. /\ session' = NoData /\ resumeData' \in {session, NoData} /\ opening' = opening
        /\ pc = "poll"
    BY <1>3 DEF PollDisconnect, PollZombied, LoseSession, Saved
  <2>2. session # NoData /\ opening = NoData /\ Held = session
    BY <2>1 DEF IInv, DataPlaced, Held
  <2>3. Held' \in {Held, NoData}
    BY <2>1, <2>2 DEF Held
  <2> QED  BY <1>1, <2>3, ToNowhere, Stutters
<1> QED  BY <1>2, <1>3

\* Every step is one of the feed, or none.
LEMMA StepImplements ==
  ASSUME IInv, [Next]_vars
  PROVE  [FeedOf!Next]_(FeedOf!vars)
<1>1. CASE RunnerStep
  <2>1. CASE PollDispatch
    BY <2>1, PollHandlesNext DEF FeedOf!Next
  <2>2. CASE ReadyArrives
    BY <2>2, ReadyFollows DEF FeedOf!Next
  <2>3. CASE PollDisconnect \/ HandshakeRejected
    BY <2>3, EndsGiveUp DEF FeedOf!Next
  <2> QED  BY <1>1, <2>1, <2>2, <2>3, QuietSteps DEF RunnerStep, PollIdle
<1>2. CASE GatewayAnswers
  <2>1. CASE GatewayIdentifies
    BY <2>1, IdentifiesBegins DEF FeedOf!Next
  <2>2. CASE GatewayResumes
    <3>1. FeedOf!Send(current, 0) /\ current \in Sids /\ 0 \in 0..MaxEvents
      BY <2>2, ResumesSends, GatewayAssumption DEF GatewayAssumption
    <3> QED  BY <3>1 DEF FeedOf!Next, FeedOf!Streams, Sids
  <2> QED  BY <1>2, <2>1, <2>2, QuietSteps DEF GatewayAnswers
<1>3. CASE Disturbance
  <2>1. CASE HandshakeFails \/ HandshakeTimeout \/ PollZombied
    BY <2>1, EndsGiveUp DEF FeedOf!Next
  <2>2. CASE \E kind \in {"event", "unknown", "malformed"} : GuildEvent(kind)
    BY <2>2, GuildEventSends
  <2> QED  BY <1>3, <2>1, <2>2, QuietSteps DEF Disturbance
<1>4. CASE Stopped \/ UNCHANGED vars
  BY <1>4, QuietSteps DEF Stopped
<1> QED  BY <1>1, <1>2, <1>3, <1>4 DEF Next

\* Across disconnections, resumes, replays and lost sessions the runner implements the feed.
THEOREM FeedIsImplemented == Spec => ImplementsFeed
<1>1. Init => FeedOf!Init
  BY InitImplements
<1>2. IInv /\ [Next]_vars => [FeedOf!Next]_(FeedOf!vars)
  BY StepImplements
<1> QED  BY <1>1, <1>2, InitEstablishes, Invariance, PTL DEF Spec, ImplementsFeed, FeedOf!Spec

-----------------------------------------------------------------------------
(* What the feed means for the bot: it handles events in the order in      *)
(* which they happened, and of the session it follows all of those it has  *)
(* passed.  Only the steps of the feed are used for this, whatever its     *)
(* variables stand for.                                                    *)
streams == [s \in Sids |-> StreamOf(s)]
follows == [sid |-> Held.sid, seq |-> Held.seq]
newest  == given
handled == delivered

Feed == INSTANCE EventFeed

InOrder == \A j, k \in 1..Len(handled) : j < k => handled[j] < handled[k]

Handled(e) == \E k \in 1..Len(handled) : handled[k] = e

NothingLeftOut ==
  follows.sid # 0 =>
    \A i \in 1..follows.seq : Feed!Event(follows.sid, i) # 0 => Handled(Feed!Event(follows.sid, i))

\* A session starts with READY.
ReadyFirst == \A s \in Feed!Streams : streams[s] # <<>> => Feed!Event(s, 1) = 0

FeedType ==
  /\ streams \in [Feed!Streams -> Seq(Nat)]
  /\ follows \in [sid : {0} \cup Feed!Streams, seq : Nat]
  /\ newest \in {0} \cup Feed!Streams
  /\ handled \in Seq(Nat \ {0})
  /\ follows.sid # 0 => follows.sid = newest /\ follows.seq \in 1..Len(streams[newest])

\* Entry i of session s happened before entry j of session t.
Before(s, i, t, j) == s < t \/ (s = t /\ i < j)

Ordered ==
  \A s, t \in Feed!Streams : \A i \in 1..Len(streams[s]), j \in 1..Len(streams[t]) :
    Before(s, i, t, j) /\ Feed!Event(s, i) # 0 /\ Feed!Event(t, j) # 0 => Feed!Event(s, i) < Feed!Event(t, j)

\* The bot has come this far in session s.
Passed(s, i) == s < newest \/ (s = newest /\ (follows.sid # 0 => i <= follows.seq))

HandledWasPassed ==
  \A k \in 1..Len(handled) :
    \E s \in Feed!Streams : \E i \in 1..Len(streams[s]) :
      Passed(s, i) /\ Feed!Event(s, i) = handled[k]

FeedInv == FeedType /\ ReadyFirst /\ Ordered /\ HandledWasPassed /\ InOrder /\ NothingLeftOut

\* The initial state satisfies the invariant.
LEMMA FeedInitially == Feed!Init => FeedInv
<1> SUFFICES ASSUME Feed!Init PROVE FeedInv
  OBVIOUS
<1>1. streams = [s \in Feed!Streams |-> <<>>] /\ follows = [sid |-> 0, seq |-> 0] /\ newest = 0 /\ handled = <<>>
  BY DEF Feed!Init, Feed!Nowhere
<1>2. FeedType
  BY <1>1 DEF FeedType
<1>3. Ordered
  BY <1>1 DEF Ordered
<1> QED  BY <1>1, <1>2, <1>3 DEF FeedInv, ReadyFirst, HandledWasPassed, InOrder, NothingLeftOut

\* Sending an event keeps the invariant: what is new comes after all that was sent.
LEMMA SendKeeps ==
  ASSUME FeedInv, NEW s \in Feed!Streams, NEW e \in 0..MaxEvents, Feed!Send(s, e)
  PROVE  FeedInv'
<1> USE DEF Feed!Streams, Feed!Event
<1>1. FeedType' /\ handled' = handled /\ follows' = follows /\ newest' = newest
  BY DEF FeedInv, FeedType, Feed!Send
<1>2. ASSUME NEW t \in Feed!Streams
      PROVE  /\ Len(streams'[t]) = IF t = s THEN Len(streams[t]) + 1 ELSE Len(streams[t])
             /\ \A i \in 1..Len(streams[t]) : streams'[t][i] = streams[t][i]
             /\ t = s => streams'[t][Len(streams[t]) + 1] = e
  <2>1. streams[t] \in Seq(Nat)
    BY DEF FeedInv, FeedType
  <2>2. CASE t = s
    <3>1. streams'[t] = Append(streams[t], e)
      BY <2>2 DEF FeedInv, FeedType, Feed!Send
    <3> QED  BY <2>1, <2>2, <3>1, AppendOne
  <2>3. CASE t # s
    <3>1. streams'[t] = streams[t]
      BY <2>3 DEF FeedInv, FeedType, Feed!Send
    <3> QED  BY <2>3, <3>1
  <2> QED  BY <2>2, <2>3
<1>3. ASSUME NEW t \in Feed!Streams, NEW u \in Feed!Streams,
             NEW i \in 1..Len(streams'[t]), NEW j \in 1..Len(streams'[u]),
             Before(t, i, u, j), streams'[t][i] # 0, streams'[u][j] # 0
      PROVE  streams'[t][i] < streams'[u][j]
  <2> /\ Len(streams[t]) \in Nat /\ Len(streams[u]) \in Nat
    BY DEF FeedInv, FeedType
  <2>1. CASE i \in 1..Len(streams[t]) /\ j \in 1..Len(streams[u])
    <3>1. streams'[t][i] = streams[t][i] /\ streams'[u][j] = streams[u][j]
      BY <2>1, <1>2
    <3>2. Ordered
      BY DEF FeedInv
    <3> QED  BY <3>1, <3>2, <2>1, <1>3 DEF Ordered
  <2>2. CASE j \notin 1..Len(streams[u])
    <3>1. u = s /\ j = Len(streams[u]) + 1 /\ streams'[u][j] = e
      <4>1. Len(streams'[u]) # Len(streams[u])
        BY <2>2
      <4>2. u = s /\ Len(streams'[u]) = Len(streams[u]) + 1 /\ streams'[u][Len(streams[u]) + 1] = e
        BY <4>1, <1>2
      <4>3. j = Len(streams[u]) + 1
        BY <4>2, <2>2
      <4> QED  BY <4>2, <4>3
    <3>2. i \in 1..Len(streams[t])
      BY <3>1, <1>2, <1>3 DEF Before
    <3>3. streams[t][i] < e
      BY <3>1, <3>2, <1>3 DEF Feed!Send, Feed!IsNew
    <3> QED  BY <3>1, <3>2, <3>3, <1>2
  <2>3. CASE i \notin 1..Len(streams[t]) /\ j \in 1..Len(streams[u])
    <3>1. t = s /\ i = Len(streams[t]) + 1 /\ streams'[t][i] = e
      <4>1. Len(streams'[t]) # Len(streams[t])
        BY <2>3
      <4>2. t = s /\ Len(streams'[t]) = Len(streams[t]) + 1 /\ streams'[t][Len(streams[t]) + 1] = e
        BY <4>1, <1>2
      <4>3. i = Len(streams[t]) + 1
        BY <4>2, <2>3
      <4> QED  BY <4>2, <4>3
    <3>2. u > s
      BY <3>1, <2>3, <1>3 DEF Before
    <3>3. streams[u] = <<>>
      BY <3>1, <3>2, <1>3 DEF Feed!Send, Feed!IsNew
    <3> QED  BY <3>3, <2>3
  <2> QED  BY <2>1, <2>2, <2>3
<1>4. Ordered'
  BY <1>3 DEF Ordered, Before
<1>5. HandledWasPassed'
  <2> SUFFICES ASSUME NEW k \in 1..Len(handled)
               PROVE  \E t \in Feed!Streams : \E i \in 1..Len(streams'[t]) :
                        Passed(t, i)' /\ streams'[t][i] = handled[k]
    BY <1>1 DEF HandledWasPassed
  <2>1. PICK t \in Feed!Streams : \E i \in 1..Len(streams[t]) : Passed(t, i) /\ streams[t][i] = handled[k]
    BY DEF FeedInv, HandledWasPassed
  <2>2. PICK i \in 1..Len(streams[t]) : Passed(t, i) /\ streams[t][i] = handled[k]
    BY <2>1
  <2> Len(streams[t]) \in Nat
    BY DEF FeedInv, FeedType
  <2>3. i \in 1..Len(streams'[t]) /\ streams'[t][i] = handled[k]
    BY <2>2, <1>2
  <2>4. Passed(t, i)'
    BY <2>2, <1>1 DEF Passed
  <2> QED  BY <2>3, <2>4
<1>6. InOrder'
  BY <1>1 DEF FeedInv, InOrder
<1>7. NothingLeftOut'
  <2> SUFFICES ASSUME follows.sid # 0, NEW i \in 1..follows.seq, streams'[follows.sid][i] # 0
               PROVE  Handled(streams'[follows.sid][i])
    BY <1>1 DEF NothingLeftOut, Handled
  <2>1. follows.sid \in Feed!Streams /\ i \in 1..Len(streams[follows.sid])
    BY DEF FeedInv, FeedType
  <2>2. streams'[follows.sid][i] = streams[follows.sid][i]
    BY <2>1, <1>2, <1>1
  <2>3. Handled(streams[follows.sid][i])
    BY <2>2 DEF FeedInv, NothingLeftOut
  <2> QED  BY <2>2, <2>3
<1>8. ReadyFirst'
  <2> SUFFICES ASSUME NEW t \in Feed!Streams, streams'[t] # <<>>
               PROVE  streams'[t][1] = 0
    BY DEF ReadyFirst
  <2>1. streams[t] \in Seq(Nat) /\ streams[t] # <<>>
    BY DEF FeedInv, FeedType, Feed!Send
  <2>2. 1 \in 1..Len(streams[t])
    BY <2>1, EmptySeq
  <2> QED  BY <2>1, <2>2, <1>2 DEF FeedInv, ReadyFirst
<1> QED  BY <1>1, <1>4, <1>5, <1>6, <1>7, <1>8 DEF FeedInv

\* A session that begins holds no event yet.
LEMMA BeginKeeps ==
  ASSUME FeedInv, NEW s \in Feed!Streams, Feed!Begin(s)
  PROVE  FeedInv'
<1> USE DEF Feed!Streams, Feed!Event
<1>1. handled' = handled /\ follows' = follows /\ newest' = newest
  BY DEF Feed!Begin
<1>2. streams[s] = <<>> /\ streams' = [streams EXCEPT ![s] = <<0, 0>>]
  BY DEF Feed!Begin
<1>3. FeedType'
  BY <1>1, <1>2 DEF FeedInv, FeedType
<1>4. Ordered'
  <2> SUFFICES ASSUME NEW t \in Feed!Streams, NEW u \in Feed!Streams,
                      NEW i \in 1..Len(streams'[t]), NEW j \in 1..Len(streams'[u]),
                      Before(t, i, u, j), streams'[t][i] # 0, streams'[u][j] # 0
               PROVE  streams'[t][i] < streams'[u][j]
    BY DEF Ordered, Before
  <2>1. streams'[s] = <<0, 0>> /\ \A v \in Feed!Streams : v # s => streams'[v] = streams[v]
    BY <1>2 DEF FeedInv, FeedType
  <2>2. t # s /\ u # s
    BY <2>1
  <2> QED  BY <2>1, <2>2 DEF FeedInv, Ordered
<1>5. HandledWasPassed'
  <2> SUFFICES ASSUME NEW k \in 1..Len(handled)
               PROVE  \E t \in Feed!Streams : \E i \in 1..Len(streams'[t]) :
                        Passed(t, i)' /\ streams'[t][i] = handled[k]
    BY <1>1 DEF HandledWasPassed
  <2>1. PICK t \in Feed!Streams : \E i \in 1..Len(streams[t]) : Passed(t, i) /\ streams[t][i] = handled[k]
    BY DEF FeedInv, HandledWasPassed
  <2>2. streams'[t] = streams[t]
    BY <2>1, <1>2 DEF FeedInv, FeedType
  <2> QED  BY <2>1, <2>2, <1>1 DEF Passed
<1>6. InOrder'
  BY <1>1 DEF FeedInv, InOrder
<1>7. NothingLeftOut'
  <2>1. follows.sid # 0 => follows.sid \in Feed!Streams /\ streams'[follows.sid] = streams[follows.sid]
    BY <1>2 DEF FeedInv, FeedType
  <2> QED  BY <2>1, <1>1 DEF FeedInv, NothingLeftOut, Handled
<1>8. ReadyFirst'
  BY <1>2 DEF FeedInv, FeedType, ReadyFirst
<1> QED  BY <1>3, <1>4, <1>5, <1>6, <1>7, <1>8 DEF FeedInv

\* A session the bot has not followed yet starts with READY, which is no event.
LEMMA FollowKeeps ==
  ASSUME FeedInv, NEW s \in Feed!Streams, Feed!Follow(s)
  PROVE  FeedInv'
<1> USE DEF Feed!Streams, Feed!Event
<1>1. /\ streams' = streams /\ handled' = handled
      /\ newest' = s /\ follows' = [sid |-> s, seq |-> 1] /\ s > newest /\ streams[s] # <<>>
  BY DEF Feed!Follow
<1>2. FeedType'
  BY <1>1, EmptySeq DEF FeedInv, FeedType
<1>3. Ordered' /\ ReadyFirst'
  BY <1>1 DEF FeedInv, Ordered, ReadyFirst
<1>4. HandledWasPassed'
  BY <1>1 DEF FeedInv, HandledWasPassed, Passed, FeedType
<1>5. InOrder'
  BY <1>1 DEF FeedInv, InOrder
<1>6. NothingLeftOut'
  BY <1>1 DEF FeedInv, ReadyFirst, NothingLeftOut
<1> QED  BY <1>2, <1>3, <1>4, <1>5, <1>6 DEF FeedInv

\* The next event of the stream comes after all that was handled.
LEMMA HandleNextKeeps ==
  ASSUME FeedInv, Feed!HandleNext
  PROVE  FeedInv'
<1> USE DEF Feed!Streams, Feed!Event
<1>a. follows.sid \in Feed!Streams /\ follows.sid = newest /\ follows.seq + 1 \in 1..Len(streams[newest])
  BY DEF FeedInv, FeedType, Feed!HandleNext
<1>b. PICK s \in Feed!Streams, n \in 1..Len(streams[newest]), e \in Nat :
        s = follows.sid /\ n = follows.seq + 1 /\ e = streams[s][n]
  BY <1>a DEF FeedInv, FeedType
<1>1. /\ streams' = streams /\ newest' = newest /\ s = newest /\ n \in 1..Len(streams[s])
      /\ follows.seq \in Nat /\ follows' = [sid |-> s, seq |-> n]
  BY <1>a, <1>b DEF FeedInv, FeedType, Feed!HandleNext
<1>2. handled \in Seq(Nat \ {0}) /\ e \in Nat
  BY DEF FeedInv, FeedType
<1>3. e = 0 => handled' = handled
  BY <1>b DEF Feed!HandleNext
<1>4. e # 0 => handled' = Append(handled, e)
  BY <1>b DEF Feed!HandleNext
<1>5. e # 0 => /\ handled' \in Seq(Nat \ {0}) /\ Len(handled') = Len(handled) + 1
               /\ \A k \in 1..Len(handled) : handled'[k] = handled[k]
               /\ handled'[Len(handled) + 1] = e
  <2> SUFFICES ASSUME e # 0
               PROVE  /\ handled' \in Seq(Nat \ {0}) /\ Len(handled') = Len(handled) + 1
                      /\ \A k \in 1..Len(handled) : handled'[k] = handled[k]
                      /\ handled'[Len(handled) + 1] = e
    OBVIOUS
  <2>1. e \in Nat \ {0} /\ handled' = Append(handled, e)
    BY <1>4
  <2> QED  BY <2>1, <1>2, AppendOne
<1>6. Len(handled) \in Nat
  BY <1>2
<1>7. FeedType'
  BY <1>1, <1>2, <1>3, <1>5 DEF FeedInv, FeedType
<1>8. Ordered' /\ ReadyFirst'
  BY <1>1 DEF FeedInv, Ordered, ReadyFirst
<1>9. ASSUME NEW t \in Feed!Streams, NEW i \in 1..Len(streams[t]), Passed(t, i)
      PROVE  Passed(t, i)'
  BY <1>1, <1>9, <1>b DEF Passed
<1>10. HandledWasPassed'
  <2> SUFFICES ASSUME NEW k \in 1..Len(handled')
               PROVE  \E t \in Feed!Streams : \E i \in 1..Len(streams[t]) :
                        Passed(t, i)' /\ streams[t][i] = handled'[k]
    BY <1>1 DEF HandledWasPassed
  <2>1. CASE k \in 1..Len(handled)
    <3>1. PICK t \in Feed!Streams : \E i \in 1..Len(streams[t]) : Passed(t, i) /\ streams[t][i] = handled[k]
      BY <2>1 DEF FeedInv, HandledWasPassed
    <3>2. handled'[k] = handled[k]
      BY <2>1, <1>2, <1>3, <1>5
    <3> QED  BY <3>1, <3>2, <1>9
  <2>2. CASE k \notin 1..Len(handled)
    <3>1. handled'[k] = e
      BY <2>2, <1>2, <1>3, <1>5, <1>6
    <3>2. Passed(s, n)'
      BY <1>1 DEF Passed
    <3> QED  BY <3>1, <3>2, <1>1, <1>b
  <2> QED  BY <2>1, <2>2
<1>11. ASSUME NEW k \in 1..Len(handled), e # 0
       PROVE  handled[k] < e
  <2>1. PICK t \in Feed!Streams : \E i \in 1..Len(streams[t]) : Passed(t, i) /\ streams[t][i] = handled[k]
    BY DEF FeedInv, HandledWasPassed
  <2>2. PICK i \in 1..Len(streams[t]) : Passed(t, i) /\ streams[t][i] = handled[k]
    BY <2>1
  <2>3. handled[k] # 0
    BY <1>2
  <2>4. Before(t, i, s, n)
    BY <2>2, <1>1, <1>b DEF Passed, Before
  <2> QED  BY <2>2, <2>3, <2>4, <1>1, <1>11, <1>b DEF FeedInv, Ordered
<1>12. InOrder'
  <2> SUFFICES ASSUME NEW j \in 1..Len(handled'), NEW k \in 1..Len(handled'), j < k
               PROVE  handled'[j] < handled'[k]
    BY DEF InOrder
  <2>1. CASE k \in 1..Len(handled)
    <3>1. j \in 1..Len(handled) /\ handled'[j] = handled[j] /\ handled'[k] = handled[k]
      BY <2>1, <1>2, <1>3, <1>5
    <3> QED  BY <3>1, <2>1 DEF FeedInv, InOrder
  <2>2. CASE k \notin 1..Len(handled)
    <3>1. e # 0 /\ handled'[k] = e /\ j \in 1..Len(handled) /\ handled'[j] = handled[j]
      BY <2>2, <1>2, <1>3, <1>5, <1>6
    <3> QED  BY <3>1, <1>11
  <2> QED  BY <2>1, <2>2
<1>13. NothingLeftOut'
  <2> SUFFICES ASSUME NEW i \in 1..n, streams[s][i] # 0
               PROVE  \E k \in 1..Len(handled') : handled'[k] = streams[s][i]
    BY <1>1 DEF NothingLeftOut, Handled
  <2>1. CASE i = n
    <3>1. e # 0 /\ streams[s][i] = e
      BY <2>1, <1>b
    <3> QED  BY <3>1, <1>5, <1>6
  <2>2. CASE i # n
    <3>1. i \in 1..follows.seq
      BY <2>2, <1>1, <1>b
    <3>2. PICK k \in 1..Len(handled) : handled[k] = streams[s][i]
      BY <3>1, <1>1, <1>b DEF FeedInv, NothingLeftOut, Handled
    <3> QED  BY <3>2, <1>2, <1>3, <1>5, <1>6
  <2> QED  BY <2>1, <2>2
<1> QED  BY <1>7, <1>8, <1>10, <1>12, <1>13 DEF FeedInv

\* Giving up forgets where the bot was; it follows only later sessions from then on.
LEMMA GiveUpKeeps ==
  ASSUME FeedInv, Feed!GiveUp
  PROVE  FeedInv'
<1>1. streams' = streams /\ handled' = handled /\ newest' = newest /\ follows' = [sid |-> 0, seq |-> 0]
  BY DEF Feed!GiveUp, Feed!Nowhere
<1>2. FeedType' /\ NothingLeftOut'
  BY <1>1 DEF FeedInv, FeedType, NothingLeftOut
<1>3. Ordered' /\ InOrder' /\ ReadyFirst'
  BY <1>1 DEF FeedInv, Ordered, InOrder, ReadyFirst, Feed!Event
<1>4. HandledWasPassed'
  BY <1>1 DEF FeedInv, HandledWasPassed, Passed, Feed!Event
<1> QED  BY <1>2, <1>3, <1>4 DEF FeedInv

\* Every step of the feed keeps the invariant.
LEMMA FeedStays == FeedInv /\ [Feed!Next]_(Feed!vars) => FeedInv'
<1> SUFFICES ASSUME FeedInv, [Feed!Next]_(Feed!vars) PROVE FeedInv'
  OBVIOUS
<1>1. CASE Feed!Next
  BY <1>1, SendKeeps, BeginKeeps, FollowKeeps, HandleNextKeeps, GiveUpKeeps DEF Feed!Next
<1>2. CASE UNCHANGED Feed!vars
  BY <1>2 DEF Feed!vars, FeedInv, FeedType, ReadyFirst, Ordered, HandledWasPassed, InOrder,
              NothingLeftOut, Handled, Passed, Feed!Event
<1> QED  BY <1>1, <1>2

\* The bot handles events in the order in which they happened, none twice, and of the
\* session it follows every one up to its place in it (gateway/mod.rs seq and SessData).
THEOREM FeedIsOrdered == Feed!Spec => [](InOrder /\ NothingLeftOut)
<1>1. FeedInv => InOrder /\ NothingLeftOut
  BY DEF FeedInv
<1> QED  BY FeedInitially, FeedStays, <1>1, PTL DEF Feed!Spec

-----------------------------------------------------------------------------
\* Events reach the bot in the order in which they happened, none of them twice.
EventsInOrder == \A j, k \in 1..Len(delivered) : j < k => delivered[j] < delivered[k]

\* Of the session it holds, the bot has handled every event up to its cursor.
NoneSkipped ==
  Held.sid # 0 =>
    \A n \in 1..Held.seq : log[Held.sid][n].kind = "event" => WasDelivered(log[Held.sid][n].ev)

\* What the feed promises, told of the bot (gateway/mod.rs: the cursor and the replay).
THEOREM EventsOnceInOrder == Spec => [](EventsInOrder /\ NoneSkipped)
<1>1. Feed!Spec => [](InOrder /\ NothingLeftOut)
  BY FeedIsOrdered
<1>2. FeedOf!Init => Feed!Init
  BY DEF FeedOf!Init, Feed!Init, FeedOf!Streams, Feed!Streams, FeedOf!Nowhere, Feed!Nowhere,
         streams, follows, newest, handled
<1>3. [FeedOf!Next]_(FeedOf!vars) => [Feed!Next]_(Feed!vars)
  <2> USE DEF FeedOf!Streams, Feed!Streams, FeedOf!Nowhere, Feed!Nowhere,
              FeedOf!Event, Feed!Event, streams, follows, newest, handled
  <2>1. FeedOf!vars = Feed!vars /\ (UNCHANGED FeedOf!vars => UNCHANGED Feed!vars)
    BY DEF FeedOf!vars, Feed!vars
  <2>2. ASSUME NEW s \in Sids, NEW e \in 0..MaxEvents, FeedOf!Send(s, e) PROVE Feed!Send(s, e)
    BY <2>2 DEF FeedOf!Send, Feed!Send, FeedOf!IsNew, Feed!IsNew
  <2>3. ASSUME NEW s \in Sids PROVE /\ FeedOf!Begin(s) => Feed!Begin(s)
                                    /\ FeedOf!Follow(s) => Feed!Follow(s)
    BY DEF FeedOf!Begin, Feed!Begin, FeedOf!Follow, Feed!Follow
  <2>4. /\ FeedOf!HandleNext => Feed!HandleNext
        /\ FeedOf!GiveUp => Feed!GiveUp
    BY DEF FeedOf!HandleNext, Feed!HandleNext, FeedOf!GiveUp, Feed!GiveUp
  <2>5. FeedOf!Next => Feed!Next
    BY <2>2, <2>3, <2>4 DEF FeedOf!Next, Feed!Next, Sids
  <2> QED  BY <2>1, <2>5
<1>4. FeedOf!Spec => Feed!Spec
  BY <1>2, <1>3, PTL DEF FeedOf!Spec, Feed!Spec
<1>5. Spec => FeedOf!Spec
  BY FeedIsImplemented, PTL DEF ImplementsFeed
<1>6. IInv /\ InOrder /\ NothingLeftOut => EventsInOrder /\ NoneSkipped
  <2> SUFFICES ASSUME IInv, InOrder, NothingLeftOut
               PROVE  EventsInOrder /\ NoneSkipped
    OBVIOUS
  <2>1. EventsInOrder
    BY DEF InOrder, EventsInOrder, handled
  <2>2. ASSUME Held.sid # 0, NEW n \in 1..Held.seq, log[Held.sid][n].kind = "event"
        PROVE  WasDelivered(log[Held.sid][n].ev)
    <3>1. Held.sid = current /\ Held.seq \in 1..Len(log[current]) /\ current # 0
      BY <2>2 DEF IInv, HeldIsCurrent, NoData
    <3>2. current \in Sids /\ log[current] \in Seq(Entries) /\ Len(log[current]) \in Nat
      <4>1. current \in Sids /\ log[current] \in Seq(Entries)
        BY <3>1, GatewayAssumption DEF IInv, TypeOK, GateTypeOK, Sids, GatewayAssumption
      <4> QED  BY <4>1
    <3>3. n \in 1..Len(log[current])
      BY <3>1, <3>2
    <3>4. StreamOf(current)[n] = log[current][n].ev /\ log[current][n].ev # 0
      BY <2>2, <3>1, <3>2, <3>3, StreamedIs, StreamShape, EventsAreNumbers DEF Shown
    <3>5. [s \in Sids |-> StreamOf(s)][Held.sid][n] = log[current][n].ev
      BY <3>1, <3>2, <3>4
    <3> QED  BY <2>2, <3>1, <3>4, <3>5
             DEF NothingLeftOut, Handled, Feed!Event, WasDelivered,
                 streams, follows, handled
  <2> QED  BY <2>1, <2>2 DEF NoneSkipped
<1> QED  BY <1>1, <1>4, <1>5, <1>6, InitEstablishes, Invariance, PTL DEF Spec
=============================================================================
