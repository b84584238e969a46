-------------------------- MODULE HttpClientProofs --------------------------
(***************************************************************************)
(* What HttpClient promises of every call, for any number of calls,        *)
(* attempts, limits and faults: how often the server carries it out, that *)
(* success is its own, that I/O errors have failures behind them, how long *)
(* it may sleep, and that no limit known to be exhausted is used.             *)
(***************************************************************************)
EXTENDS HttpClient, SequenceTheorems, TLAPS

IsHead(h) ==
  /\ h.part = "head" /\ h.status \in {"ok", "refused", "error", "limited"}
  /\ h.framing \in {"framed", "none", "eof"} /\ h.close \in BOOLEAN
  /\ h.framing = "eof" => h.close

IsBody(b) == b.part = "body" /\ b.sane \in BOOLEAN

\* The calls so far, and which of them may still reach the server or has.
CallsInv ==
  /\ pc \in {"idle", "wait", "hold", "take", "write", "head", "body", "again", "backoff"}
  /\ ops \in Seq(Ops) /\ calls <= MaxCalls /\ (pc # "idle" => calls >= 1)
  /\ done \in [1..MaxCalls -> Nat] /\ \A c \in 1..MaxCalls : c > calls => done[c] = 0
  /\ \A c \in stray : c \in 1..calls

\* One exchange at a time: nothing of it is left when it is over.
PipeInv ==
  /\ pc \notin {"head", "body"} => up = 0 /\ down = <<>>
  /\ pc = "head" => \/ down = <<>> /\ up \in {0, calls}
                    \/ up = 0 /\ down = <<down[1]>> /\ IsHead(down[1])
                    \/ /\ up = 0 /\ down = <<down[1], down[2]>> /\ IsHead(down[1])
                       /\ IsBody(down[2]) /\ down[1].framing # "none"
  /\ pc = "body" => /\ up = 0 /\ IsHead(resp)
                    /\ \/ down = <<>>
                       \/ down = <<down[1]>> /\ IsBody(down[1]) /\ resp.framing # "none"
  /\ pc \in {"write", "head", "body", "again"} => ~cached
  /\ pc = "again" => IsIdempotent(op) /\ second
  /\ pc \in {"hold", "take"} => ~second
  /\ cached \in BOOLEAN /\ second \in BOOLEAN

\* The response that is being read, and what of its body has come.
Answered == pc = "body" \/ (pc = "head" /\ down # <<>>)
Heading   == IF pc = "body" THEN resp ELSE down[1]
Following   == IF pc = "body" THEN down ELSE Tail(down)

\* The call's next request is still to come, or under way.
Pending == \/ pc \in {"wait", "hold", "take", "write", "backoff"} \/ up # 0
           \/ (Answered /\ Heading.status = "limited")

\* What must not be repeated was carried out once, or will be, never both.
OnceInv ==
  /\ \A c \in 1..calls : ~IsIdempotent(ops[c]) => done[c] <= 1 /\ (c \in stray => done[c] = 0)
  /\ Pending /\ ~IsIdempotent(op) => done[calls] = 0 /\ calls \notin stray

RealInv ==
  /\ Answered /\ Heading.status = "ok" => done[calls] >= 1
  /\ pc = "idle" /\ result = "ok" => calls >= 1 /\ done[calls] >= 1

\* The exchange under way will fail, or the next on the cached connection.
Trouble ==
  \/ /\ Answered
     /\ \/ link = "dead" /\ ~Heading.close
        \/ Heading.framing # "none" /\ (Following = <<>> \/ ~Following[1].sane)
  \/ pc \in {"write", "head"} /\ ~Answered /\ link = "dead"
  \/ cached /\ link = "dead"

\* What the errors returned cost, and the failures that are not yet paid for.
Failed == second /\ pc \in {"again", "write", "head", "body"}
CostInv ==
  /\ faults \in Nat /\ cost \in Nat
  /\ cost <= faults
  /\ Failed \/ Trouble => cost + 1 <= faults
  /\ Failed /\ Trouble => cost + 2 <= faults

IInv == CallsInv /\ PipeInv /\ OnceInv /\ RealInv /\ CostInv

-----------------------------------------------------------------------------
(* What steps that change little keep.                                     *)
Pcs == {"idle", "wait", "hold", "take", "write", "head", "body", "again", "backoff"}

LEMMA CallsKept ==
  ASSUME CallsInv, UNCHANGED <<ops, done, stray>>, pc' \in Pcs, pc' # "idle" => pc # "idle"
  PROVE  CallsInv'
BY DEF CallsInv, Pcs, calls

LEMMA OnceKept ==
  ASSUME OnceInv, UNCHANGED <<ops, done, stray>>, Pending' => Pending
  PROVE  OnceInv'
BY DEF OnceInv, calls, op

LEMMA RealKept ==
  ASSUME CallsInv, RealInv, UNCHANGED <<ops, done>>,
         Answered' /\ Heading'.status = "ok" => Answered /\ Heading.status = "ok",
         pc' = "idle" /\ result' = "ok" =>
           (pc = "idle" /\ result = "ok") \/ (Answered /\ Heading.status = "ok")
  PROVE  RealInv'
<1>1. Answered => calls >= 1
  BY DEF CallsInv, Answered
<1> QED  BY <1>1 DEF RealInv, calls

LEMMA CostKept ==
  ASSUME CostInv, UNCHANGED <<faults, cost>>, Failed' => Failed, Trouble' => Trouble
  PROVE  CostInv'
BY DEF CostInv

\* Between two exchanges.
LEMMA Between ==
  ASSUME PipeInv, pc \notin {"head", "body"}
  PROVE  up = 0 /\ down = <<>> /\ ~Answered
BY DEF PipeInv, Answered

\* A new call.
LEMMA CallKeeps ==
  ASSUME HttpAssumption, IInv, Call
  PROVE  IInv'
<1> USE DEF IInv
<1>1. PICK o \in Ops : ops' = Append(ops, o)
  <2>1. PICK plan \in Plans : calls < Len(plan) /\ ops' = Append(ops, plan[calls + 1])
    BY DEF Call
  <2>2. plan \in Seq(Ops) /\ calls \in Nat
    BY <2>1, LenProperties DEF HttpAssumption, CallsInv, calls
  <2>3. calls + 1 \in 1..Len(plan)
    BY <2>1, <2>2, LenProperties
  <2> QED  BY <2>1, <2>2, <2>3, ElementOfSeq
<1>2. /\ pc = "idle" /\ calls < MaxCalls /\ pc' = "wait" /\ result' = "none"
      /\ UNCHANGED <<second, cached, resp, link, up, down, stray, done, cost, faults>>
  BY DEF Call, linkVars, serverVars
<1>3. /\ ops' \in Seq(Ops) /\ calls' = calls + 1 /\ calls \in Nat /\ op' = o
      /\ \A c \in 1..calls : ops'[c] = ops[c]
  BY <1>1, LenProperties, AppendProperties DEF CallsInv, calls, op
<1>4. up' = 0 /\ down' = <<>> /\ ~Answered'
  BY <1>2, Between DEF Answered
<1>5. CallsInv'
  <2>1. \A c \in 1..MaxCalls : c > calls' => c > calls
    BY <1>3
  <2>2. \A c \in stray : c \in 1..calls'
    BY <1>3 DEF CallsInv
  <2> QED  BY <1>2, <1>3, <2>1, <2>2 DEF CallsInv
<1>6. PipeInv'
  BY <1>2, <1>4 DEF PipeInv
<1>7. OnceInv'
  <2>1. calls' \in 1..MaxCalls /\ calls' > calls /\ MaxCalls \in Nat
    BY <1>2, <1>3 DEF HttpAssumption
  <2>2. done[calls'] = 0 /\ calls' \notin stray
    BY <1>3, <2>1 DEF CallsInv
  <2>3. \A c \in 1..calls' : c \in 1..calls \/ c = calls'
    BY <1>3
  <2>4. \A c \in 1..calls' : ~IsIdempotent(ops'[c]) => done[c] <= 1 /\ (c \in stray => done[c] = 0)
    BY <1>3, <2>2, <2>3 DEF OnceInv
  <2> QED  BY <1>2, <2>2, <2>4 DEF OnceInv
<1>8. RealInv'
  BY <1>2, <1>4 DEF RealInv
<1>9. CostInv'
  <2>1. ~Failed' /\ (Trouble' => Trouble)
    BY <1>2, <1>4 DEF Failed, Trouble
  <2> QED  BY <1>2, <2>1, CostKept
<1> QED  BY <1>5, <1>6, <1>7, <1>8, <1>9

\* What a call does between two exchanges.
LEMMA PausesKeep ==
  ASSUME IInv, PreemptiveWait \/ WakeUp \/ TakeCached
  PROVE  IInv'
<1> USE DEF IInv
<1>1. /\ pc \in {"wait", "hold", "take", "backoff"} /\ pc' \in {"wait", "hold", "take", "write"}
      /\ UNCHANGED <<ops, resp, link, up, down, stray, done, cost, faults>>
      /\ cached' \in {cached, FALSE} /\ (pc' = "write" => cached /\ ~cached')
      /\ second' \in {second, FALSE} /\ (pc' \in {"hold", "take", "write"} => ~second')
  <2>1. CASE PreemptiveWait
    BY <2>1 DEF PreemptiveWait, linkVars, serverVars, endVars
  <2>2. CASE WakeUp
    BY <2>2 DEF WakeUp, callVars, linkVars, serverVars, endVars, PipeInv
  <2>3. CASE TakeCached
    BY <2>3 DEF TakeCached, callVars, linkVars, serverVars, endVars, PipeInv
  <2> QED  BY <2>1, <2>2, <2>3
<1>2. up = 0 /\ down = <<>> /\ ~Answered /\ ~Answered'
  BY <1>1, Between DEF Answered
<1>3. CallsInv'
  BY <1>1, CallsKept DEF Pcs
<1>4. PipeInv'
  BY <1>1, <1>2 DEF PipeInv
<1>5. OnceInv'
  BY <1>1, <1>2, OnceKept DEF Pending
<1>6. RealInv'
  BY <1>1, <1>2, RealKept
<1>7. CostInv'
  <2>1. ~Failed'
    BY <1>1 DEF Failed
  <2>2. Trouble' => Trouble
    BY <1>1, <1>2 DEF Trouble
  <2> QED  BY <1>1, <2>1, <2>2, CostKept
<1> QED  BY <1>3, <1>4, <1>5, <1>6, <1>7

\* A fresh connection.
LEMMA ConnectKeeps ==
  ASSUME IInv, TakeConn
  PROVE  IInv'
<1> USE DEF IInv
<1>1. /\ pc = "again" \/ (pc = "take" /\ ~cached)
      /\ pc' = "write" /\ link' = "open" /\ up' = 0 /\ down' = <<>>
      /\ UNCHANGED <<ops, second, cached, resp, stray, done, cost, faults>>
  BY DEF TakeConn, callVars, serverVars, endVars
<1>2. ~Answered' /\ ~cached
  BY <1>1 DEF Answered, PipeInv
<1>3. CallsInv'
  BY <1>1, CallsKept DEF Pcs
<1>4. PipeInv'
  BY <1>1, <1>2 DEF PipeInv
<1>5. OnceInv'
  <2>1. IsIdempotent(op) \/ Pending
    BY <1>1 DEF PipeInv, Pending
  <2> QED  BY <1>1, <2>1 DEF OnceInv, calls, op
<1>6. RealInv'
  BY <1>1, <1>2, RealKept
<1>7. CostInv'
  <2>1. Failed' => Failed
    BY <1>1 DEF Failed, PipeInv
  <2>2. ~Trouble'
    BY <1>1, <1>2 DEF Trouble
  <2> QED  BY <1>1, <2>1, <2>2, CostKept
<1> QED  BY <1>3, <1>4, <1>5, <1>6, <1>7

\* No connection.
LEMMA ConnectFailsKeeps ==
  ASSUME HttpAssumption, IInv, ConnectFails
  PROVE  IInv'
<1> USE DEF IInv
<1>1. /\ pc = "again" \/ (pc = "take" /\ ~cached)
      /\ pc' = "idle" /\ result' = "io_error" /\ cost' = cost + IF second THEN 2 ELSE 1
      /\ faults' = faults + 1
      /\ UNCHANGED <<ops, second, cached, resp, link, up, down, stray, done>>
  BY DEF ConnectFails, Fault, ReturnError, callVars, linkVars, serverVars
<1>2. ~Answered' /\ ~cached /\ up = 0 /\ down = <<>>
  BY <1>1, Between DEF Answered, PipeInv
<1>3. CallsInv'
  BY <1>1, CallsKept DEF Pcs
<1>4. PipeInv'
  BY <1>1, <1>2 DEF PipeInv
<1>5. OnceInv'
  BY <1>1, <1>2, OnceKept DEF Pending
<1>6. RealInv'
  BY <1>1, <1>2, RealKept
<1>7. CostInv'
  <2>1. ~Failed' /\ ~Trouble'
    BY <1>1, <1>2 DEF Failed, Trouble
  <2>2. second => Failed
    BY <1>1 DEF Failed, PipeInv
  <2>3. faults' \in Nat /\ cost' \in Nat /\ cost' <= faults'
    BY <1>1, <2>2 DEF CostInv
  <2> QED  BY <2>1, <2>3 DEF CostInv
<1> QED  BY <1>3, <1>4, <1>5, <1>6, <1>7

\* The request goes out, or into a connection that is dead.
LEMMA WriteKeeps ==
  ASSUME IInv, Write
  PROVE  IInv'
<1> USE DEF IInv
<1>1. /\ pc = "write" /\ pc' = "head" /\ up' \in {0, calls}
      /\ UNCHANGED <<ops, second, cached, resp, link, down, stray, done, cost, faults>>
  BY DEF Write, callVars, serverVars, endVars
<1>2. ~Answered /\ ~Answered' /\ ~cached /\ down = <<>>
  BY <1>1, Between DEF Answered, PipeInv
<1>3. CallsInv'
  BY <1>1, CallsKept DEF Pcs
<1>4. PipeInv'
  BY <1>1, <1>2 DEF PipeInv, calls
<1>5. OnceInv'
  BY <1>1, OnceKept DEF Pending
<1>6. RealInv'
  BY <1>1, <1>2, RealKept
<1>7. CostInv'
  <2>1. Failed' => Failed
    BY <1>1 DEF Failed
  <2>2. Trouble' => Trouble
    BY <1>1, <1>2 DEF Trouble
  <2> QED  BY <1>1, <2>1, <2>2, CostKept
<1> QED  BY <1>3, <1>4, <1>5, <1>6, <1>7

\* An exchange that fails: it is repeated, or the call returns an error.
LEMMA SendFailsKeeps ==
  ASSUME HttpAssumption, IInv, pc \in {"head", "body"}, SendFails,
         \/ Trouble /\ faults' = faults
         \/ faults' = faults + 1
  PROVE  IInv'
<1> USE DEF IInv
<1>1. /\ link' = "none" /\ up' = 0 /\ down' = <<>>
      /\ stray' = IF up = 0 THEN stray ELSE stray \cup {up}
      /\ UNCHANGED <<ops, cached, done>>
      /\ \/ pc' = "again" /\ IsIdempotent(op) /\ ~second /\ second' = TRUE /\ cost' = cost
         \/ /\ pc' = "idle" /\ second' = second /\ result' = "io_error"
            /\ cost' = cost + IF second THEN 2 ELSE 1
  BY DEF SendFails, LoseStream, ReturnError, serverVars, endVars
<1>2. /\ ~Answered' /\ ~cached /\ up \in {0, calls} /\ (up # 0 => Pending) /\ ~Pending'
      /\ cached \in BOOLEAN /\ second \in BOOLEAN
  BY <1>1 DEF Answered, PipeInv, Pending
<1>3. calls' = calls /\ op' = op /\ calls \in Nat /\ calls >= 1
  BY <1>1, LenProperties DEF calls, op, CallsInv
<1>4. CallsInv'
  <2>1. \A c \in stray' : c \in 1..calls
    BY <1>1, <1>2, <1>3 DEF CallsInv
  <2>2. pc' \in {"again", "idle"}
    BY <1>1
  <2> QED  BY <1>1, <1>3, <2>1, <2>2 DEF CallsInv
<1>5. PipeInv'
  BY <1>1, <1>2, <1>3 DEF PipeInv
<1>6. OnceInv'
  <2>1. ASSUME NEW c \in 1..calls, ~IsIdempotent(ops[c])
        PROVE  done[c] <= 1 /\ (c \in stray' => done[c] = 0)
    <3>1. c \in stray' => c \in stray \/ (c = calls /\ up # 0)
      BY <1>1, <1>2
    <3> QED  BY <1>2, <2>1, <3>1 DEF OnceInv, op
  <2> QED  BY <1>1, <1>2, <1>3, <2>1 DEF OnceInv
<1>7. RealInv'
  BY <1>1, <1>2 DEF RealInv
<1>8. CostInv'
  <2>1. ~Trouble' /\ (second => Failed)
    BY <1>1, <1>2 DEF Trouble, Failed
  <2>2. faults \in Nat /\ cost \in Nat
    BY DEF CostInv
  <2>3. cost + 1 <= faults' /\ (second => cost + 2 <= faults') /\ faults' \in Nat
    <3>1. CASE Trouble /\ faults' = faults
      BY <2>1, <2>2, <3>1 DEF CostInv
    <3>2. CASE faults' = faults + 1
      BY <2>1, <2>2, <3>2 DEF CostInv
    <3> QED  BY <3>1, <3>2
  <2>4. CASE pc' = "again" /\ cost' = cost
    BY <2>1, <2>2, <2>3, <2>4 DEF CostInv
  <2>5. CASE pc' = "idle" /\ cost' = cost + IF second THEN 2 ELSE 1
    <3>1. ~Failed' /\ cost' \in Nat /\ cost' <= faults'
      BY <2>2, <2>3, <2>5 DEF Failed
    <3> QED  BY <2>1, <2>3, <3>1 DEF CostInv
  <2> QED  BY <1>1, <2>4, <2>5
<1> QED  BY <1>4, <1>5, <1>6, <1>7, <1>8

\* What fails without a new failure had one before.
LEMMA ReadFailsKeeps ==
  ASSUME HttpAssumption, IInv, ReadFails
  PROVE  IInv'
<1>1. pc \in {"head", "body"} /\ SendFails /\ faults' = faults
  BY DEF ReadFails
<1>2. Trouble
  <2>1. CASE pc = "head" /\ down # <<>> /\ Head(down).part = "body"
    <3>1. Head(down) = down[1]
      BY <2>1
    <3> QED  BY <2>1, <3>1 DEF IInv, PipeInv, IsHead
  <2>2. CASE /\ pc \in {"head", "body"} /\ down = <<>> /\ link = "dead"
             /\ pc = "body" => resp.framing # "none"
    BY <2>2 DEF Trouble, Answered, Heading, Following
  <2>3. CASE pc = "body" /\ down # <<>> /\ resp.framing # "none" /\ ~Head(down).sane
    <3>1. Head(down) = down[1]
      BY <2>3
    <3> QED  BY <2>3, <3>1 DEF Trouble, Answered, Heading, Following
  <2> QED  BY <2>1, <2>2, <2>3 DEF ReadFails
<1> QED  BY <1>1, <1>2, SendFailsKeeps

LEMMA TimeoutKeeps ==
  ASSUME HttpAssumption, IInv, Timeout
  PROVE  IInv'
BY SendFailsKeeps DEF Timeout, Fault

\* The head of the response is read.
LEMMA ReadHeadKeeps ==
  ASSUME IInv, ReadHead
  PROVE  IInv'
<1> USE DEF IInv
<1>1. /\ pc = "head" /\ down # <<>> /\ pc' = "body" /\ resp' = Head(down) /\ down' = Tail(down)
      /\ UNCHANGED <<ops, second, cached, link, up, stray, done, cost, faults>>
  BY DEF ReadHead, callVars, serverVars, endVars
<1>2. Head(down) = down[1]
  BY <1>1
<1>3. Answered /\ Answered' /\ Heading' = Heading /\ Following' = Following /\ IsHead(down[1]) /\ up = 0
  BY <1>1, <1>2 DEF Answered, Heading, Following, PipeInv
<1>4. CallsInv'
  BY <1>1, CallsKept DEF Pcs
<1>5. PipeInv'
  <2>1. \/ Tail(down) = <<>>
        \/ Tail(down) = <<down[2]>> /\ IsBody(down[2]) /\ down[1].framing # "none"
    <3>1. \A h, b : Tail(<<h>>) = <<>> /\ Tail(<<h, b>>) = <<b>>
      OBVIOUS
    <3>2. CASE down = <<down[1]>>
      <4>1. Tail(down) = Tail(<<down[1]>>)
        BY <3>2
      <4> QED  BY <3>1, <4>1
    <3>3. CASE down = <<down[1], down[2]>> /\ IsBody(down[2]) /\ down[1].framing # "none"
      <4>1. Tail(down) = Tail(<<down[1], down[2]>>)
        BY <3>3
      <4> QED  BY <3>1, <3>3, <4>1
    <3> QED  BY <1>1, <3>2, <3>3 DEF PipeInv
  <2>2. down' = <<>> \/ (down' = <<down'[1]>> /\ IsBody(down'[1]) /\ resp'.framing # "none")
    BY <1>1, <1>2, <2>1
  <2>3. IsHead(resp')
    BY <1>1, <1>2, <1>3
  <2> QED  BY <1>1, <1>3, <2>2, <2>3 DEF PipeInv
<1>6. OnceInv'
  BY <1>1, <1>3, OnceKept DEF Pending
<1>7. RealInv'
  BY <1>1, <1>3, RealKept
<1>8. CostInv'
  <2>1. (Failed' => Failed) /\ (Trouble' => Trouble)
    BY <1>1, <1>3 DEF Failed, Trouble
  <2> QED  BY <1>1, <2>1, CostKept
<1> QED  BY <1>4, <1>5, <1>6, <1>7, <1>8

\* The response was read: the call returns, or goes on to its next attempt.
LEMMA ReadBodyKeeps ==
  ASSUME IInv, ReadBody
  PROVE  IInv'
<1> USE DEF IInv
<1>1. pc = "body" /\ up = 0 /\ IsHead(resp) /\ ~cached /\ calls >= 1 /\ second \in BOOLEAN
  BY DEF ReadBody, PipeInv, CallsInv
<1>2. PICK whole \in BOOLEAN, rest \in {<<>>} :
        Respond(whole, rest) /\ (~whole => resp.framing = "eof" /\ down = <<>>)
  <2>1. CASE resp.framing = "none" /\ Respond(TRUE, down)
    BY <1>1, <2>1 DEF PipeInv
  <2>2. CASE down # <<>> /\ Respond(TRUE, Tail(down))
    <3>1. \A b : Tail(<<b>>) = <<>>
      OBVIOUS
    <3>2. Tail(down) = Tail(<<down[1]>>)
      BY <1>1, <2>2 DEF PipeInv
    <3> QED  BY <2>2, <3>1, <3>2
  <2>3. CASE resp.framing = "eof" /\ down = <<>> /\ Respond(FALSE, <<>>)
    BY <2>3
  <2> QED  BY <2>1, <2>2, <2>3 DEF ReadBody
<1>3. /\ cached' = KeepAlive(resp) /\ (KeepAlive(resp) => link' = link) /\ (~KeepAlive(resp) => link' = "none")
      /\ down' = <<>> /\ UNCHANGED <<ops, second, up, stray, done, faults>>
  BY <1>2 DEF Respond, serverVars
<1>4. /\ pc' \in {"idle", "backoff"}
      /\ pc' = "backoff" => MayRetry(resp)
      /\ pc' = "idle" => result' \in {"exhausted", "bad_body", resp.status}
      /\ \/ cost' = cost
         \/ cost' = cost + 1 /\ ~whole /\ pc' = "idle"
  BY <1>2 DEF Respond, endVars
<1>5. Answered /\ Heading = resp /\ Following = down /\ ~Answered'
  BY <1>1, <1>4 DEF Answered, Heading, Following
<1>6. CallsInv'
  BY <1>1, <1>3, <1>4, CallsKept DEF Pcs
<1>7. PipeInv'
  <2>1. cached' \in BOOLEAN
    BY <1>3 DEF KeepAlive
  <2> QED  BY <1>1, <1>3, <1>4, <2>1 DEF PipeInv
<1>8. OnceInv'
  <2>1. Pending' => Pending \/ IsIdempotent(op)
    BY <1>1, <1>3, <1>4, <1>5 DEF Pending, MayRetry
  <2> QED  BY <1>3, <2>1 DEF OnceInv, calls, op
<1>9. RealInv'
  <2>1. pc' = "idle" /\ result' = "ok" => resp.status = "ok"
    BY <1>4
  <2> QED  BY <1>3, <1>5, <2>1, RealKept
<1>10. CostInv'
  <2>1. ~Failed' /\ (Trouble' => cached' /\ link' = "dead")
    BY <1>4, <1>5 DEF Failed, Trouble
  <2>2. Trouble' => Trouble
    BY <1>3, <1>5, <2>1 DEF Trouble, KeepAlive
  <2>3. CASE cost' = cost
    BY <1>3, <2>1, <2>2, <2>3, CostKept
  <2>4. CASE cost' = cost + 1 /\ ~whole /\ pc' = "idle"
    <3>1. Trouble /\ ~Trouble'
      BY <1>2, <1>3, <1>5, <2>1, <2>4 DEF Trouble, KeepAlive
    <3> QED  BY <1>3, <2>1, <2>4, <3>1 DEF CostInv
  <2> QED  BY <1>4, <2>3, <2>4
<1> QED  BY <1>6, <1>7, <1>8, <1>9, <1>10

\* One and one behind it.
LEMMA TwoInOne ==
  ASSUME NEW x, NEW y
  PROVE  <<>> \o <<x>> = <<x>> /\ <<x>> \o <<>> = <<x>> /\ <<x>> \o <<y>> = <<x, y>>
<1>1. <<x>> \in Seq({x, y}) /\ <<y>> \in Seq({x, y}) /\ <<x, y>> \in Seq({x, y})
  OBVIOUS
<1>2. <<x>> \o <<y>> \in Seq({x, y}) /\ Len(<<x>> \o <<y>>) = 2
  BY <1>1
<1>3. (<<x>> \o <<y>>)[1] = x /\ (<<x>> \o <<y>>)[2] = y
  BY <1>1
<1>4. \A i \in 1..2 : (<<x>> \o <<y>>)[i] = <<x, y>>[i]
  BY <1>3
<1>5. <<x>> \o <<y>> = <<x, y>>
  BY <1>1, <1>2, <1>4, SeqEqual
<1> QED  BY <1>1, <1>5, ConcatEmptySeq

\* What the server puts on the connection.
LEMMA ReplyDoes ==
  ASSUME IInv, up # 0, NEW status \in {"ok", "refused", "error", "limited"}, NEW after, NEW headers,
         Reply(status, after, headers), pc' = pc, resp' = resp
  PROVE  /\ pc = "head" /\ down = <<>> /\ up = calls /\ up' = 0
         /\ Answered' /\ Heading'.status = status
         /\ Heading'.retryAfter = after /\ Heading'.headers = headers
         /\ headers = "all" => /\ Heading'.remaining = left'[LimitOf[op]]
                               /\ Heading'.resetAfter = reset'[LimitOf[op]]
         /\ headers # "all" => Heading'.resetAfter = 0
         /\ headers # "none" => Heading'.bucket = BucketOf[LimitOf[op]]
         /\ down' = <<down'[1]>> \/ (/\ down' = <<down'[1], down'[2]>> /\ IsBody(down'[2])
                                     /\ down'[1].framing # "none")
         /\ IsHead(down'[1])
         /\ \/ faults' = faults /\ ((cached' = cached) => (Trouble' => Trouble))
            \/ faults' = faults + 1
<1>1. pc = "head" /\ down = <<>> /\ up = calls /\ up' = 0 /\ ~cached
  <2>1. pc \in {"head", "body"} /\ pc # "body"
    BY DEF IInv, PipeInv
  <2> QED  BY <2>1 DEF IInv, PipeInv, Reply
<1>2. PICK close \in BOOLEAN, framing \in {"framed", "none", "eof"}, sane \in BOOLEAN :
        /\ framing = "eof" => close
        /\ IF sane THEN UNCHANGED faults ELSE Fault
        /\ down' = down \o <<HeadOf(status, after, headers, framing, close)>>
                        \o (IF framing = "none" THEN <<>> ELSE <<BodyOf(sane)>>)
        /\ link' = IF close THEN "dead" ELSE link
  BY DEF Reply
<1>3. PICK h, b : /\ h = HeadOf(status, after, headers, framing, close) /\ b = BodyOf(sane)
                  /\ h.part = "head" /\ h.status = status /\ h.framing = framing /\ h.close = close
                  /\ h.retryAfter = after /\ h.headers = headers
                  /\ headers = "all" => /\ h.remaining = left'[LimitOf[op]]
                                        /\ h.resetAfter = reset'[LimitOf[op]]
                  /\ headers # "all" => h.resetAfter = 0
                  /\ headers # "none" => h.bucket = BucketOf[LimitOf[op]]
                  /\ b.part = "body" /\ b.sane = sane
  <2>1. /\ HeadOf(status, after, headers, framing, close).part = "head"
        /\ HeadOf(status, after, headers, framing, close).status = status
        /\ HeadOf(status, after, headers, framing, close).framing = framing
        /\ HeadOf(status, after, headers, framing, close).close = close
        /\ HeadOf(status, after, headers, framing, close).retryAfter = after
        /\ HeadOf(status, after, headers, framing, close).headers = headers
        /\ HeadOf(status, after, headers, framing, close).remaining
             = IF headers = "all" THEN left'[LimitOf[op]] ELSE 0
        /\ HeadOf(status, after, headers, framing, close).resetAfter
             = IF headers = "all" THEN reset'[LimitOf[op]] ELSE 0
        /\ HeadOf(status, after, headers, framing, close).bucket
             = IF headers = "none" THEN NoBucket ELSE BucketOf[LimitOf[op]]
    BY DEF HeadOf
  <2>2. BodyOf(sane).part = "body" /\ BodyOf(sane).sane = sane
    BY DEF BodyOf, NoResp
  <2> QED  BY <2>1, <2>2
<1>4. down' = (IF framing = "none" THEN <<h>> ELSE <<h, b>>) /\ IsHead(h) /\ IsBody(b)
  <2>1. <<>> \o <<h>> = <<h>> /\ <<h>> \o <<>> = <<h>> /\ <<h>> \o <<b>> = <<h, b>>
    BY TwoInOne
  <2>2. IsHead(h) /\ IsBody(b)
    BY <1>2, <1>3 DEF IsHead, IsBody
  <2> QED  BY <1>1, <1>2, <1>3, <2>1, <2>2
<1>5. /\ \A x, y : <<x>>[1] = x /\ <<x, y>>[1] = x /\ <<x, y>>[2] = y /\ <<x>> # <<>> /\ <<x, y>> # <<>>
      /\ \A x, y : Tail(<<x>>) = <<>> /\ Tail(<<x, y>>) = <<y>>
  OBVIOUS
<1>6. /\ Answered' /\ Heading' = h /\ down'[1] = h
      /\ framing # "none" => down'[2] = b /\ Following' = <<b>>
  BY <1>1, <1>4, <1>5 DEF Answered, Heading, Following
<1>7. sane /\ cached' = cached => (Trouble' => Trouble)
  <2> SUFFICES ASSUME sane, cached' = cached, Trouble' PROVE Trouble
    OBVIOUS
  <2>1. Following' = <<b>> => Following' # <<>> /\ Following'[1] = b
    BY <1>5
  <2>2. link' = "dead" /\ ~close
    BY <1>1, <1>3, <1>6, <2>1 DEF Trouble
  <2>3. link = "dead"
    BY <1>2, <2>2
  <2> QED  BY <1>1, <2>3 DEF Trouble, Answered
<1>8. down' = <<down'[1]>> \/ (/\ down' = <<down'[1], down'[2]>> /\ IsBody(down'[2])
                               /\ down'[1].framing # "none")
  BY <1>3, <1>4, <1>6
<1> QED  BY <1>1, <1>2, <1>3, <1>4, <1>6, <1>7, <1>8 DEF Fault

\* What every answer keeps.
LEMMA ReplyKeeps ==
  ASSUME IInv, up # 0, NEW status \in {"ok", "refused", "error", "limited"}, NEW after, NEW headers,
         Reply(status, after, headers),
         UNCHANGED <<pc, ops, second, cached, resp, stray, cost>>
  PROVE  PipeInv' /\ CostInv'
<1> USE DEF IInv
<1>1. /\ pc = "head" /\ up' = 0 /\ Answered' /\ IsHead(down'[1])
      /\ down' = <<down'[1]>> \/ (/\ down' = <<down'[1], down'[2]>> /\ IsBody(down'[2])
                                  /\ down'[1].framing # "none")
      /\ \/ faults' = faults /\ (Trouble' => Trouble)
         \/ faults' = faults + 1
  BY ReplyDoes
<1>2. PipeInv'
  BY <1>1 DEF PipeInv
<1>3. CostInv'
  <2>1. Failed' = Failed
    BY DEF Failed
  <2>2. CASE faults' = faults /\ (Trouble' => Trouble)
    BY <2>1, <2>2, CostKept
  <2>3. CASE faults' = faults + 1
    BY <2>1, <2>3 DEF CostInv
  <2> QED  BY <1>1, <2>2, <2>3
<1> QED  BY <1>2, <1>3

\* The server answers a request, carried out or not.
LEMMA AnswerKeeps ==
  ASSUME HttpAssumption, IInv, Answer
  PROVE  IInv'
<1> USE DEF IInv
<1>1. /\ up # 0
      /\ UNCHANGED <<pc, ops, second, cached, resp, stray, result, cost>>
  BY DEF Answer, callVars, endVars
<1>2. PICK status \in {"ok", "refused", "error"}, carriedOut \in BOOLEAN,
             headers \in {"none", "bucket", "all"} :
        /\ status = "ok" => carriedOut
        /\ done' = IF carriedOut THEN [done EXCEPT ![up] = @ + 1] ELSE done
        /\ Reply(status, 0, headers)
  BY DEF Answer
<1>3. /\ pc = "head" /\ up = calls /\ up' = 0 /\ Answered' /\ Heading'.status = status
      /\ PipeInv' /\ CostInv'
  BY <1>1, <1>2, ReplyDoes, ReplyKeeps
<1>4. /\ calls \in 1..MaxCalls /\ calls' = calls /\ op' = op /\ MaxCalls \in Nat
      /\ done \in [1..MaxCalls -> Nat]
  BY <1>1, <1>3, LenProperties DEF CallsInv, calls, op, HttpAssumption
<1>5. /\ done' \in [1..MaxCalls -> Nat]
      /\ \A c \in 1..MaxCalls : c # calls => done'[c] = done[c]
      /\ done'[calls] \in {done[calls], done[calls] + 1}
      /\ status = "ok" => done'[calls] = done[calls] + 1
  BY <1>2, <1>3, <1>4
<1>6. CallsInv'
  BY <1>1, <1>3, <1>4, <1>5 DEF CallsInv
<1>7. OnceInv'
  <2>1. Pending /\ ~Pending'
    BY <1>1, <1>2, <1>3 DEF Pending
  <2>2. ASSUME NEW c \in 1..calls, ~IsIdempotent(ops[c])
        PROVE  done'[c] <= 1 /\ (c \in stray => done'[c] = 0)
    <3>1. CASE c = calls
      BY <1>5, <2>1, <2>2, <3>1 DEF OnceInv, op
    <3>2. CASE c # calls
      BY <1>4, <1>5, <2>2, <3>2 DEF OnceInv
    <3> QED  BY <3>1, <3>2
  <2> QED  BY <1>1, <1>4, <2>1, <2>2 DEF OnceInv
<1>8. RealInv'
  BY <1>1, <1>3, <1>4, <1>5 DEF RealInv
<1> QED  BY <1>3, <1>6, <1>7, <1>8

\* 429: not carried out.
LEMMA TooManyKeeps ==
  ASSUME IInv, TooMany
  PROVE  IInv'
<1> USE DEF IInv
<1>1. /\ up # 0
      /\ UNCHANGED <<pc, ops, second, cached, resp, stray, done, result, cost>>
  BY DEF TooMany, callVars, endVars
<1>2. PICK after, headers : Reply("limited", after, headers)
  BY DEF TooMany
<1>3. pc = "head" /\ up' = 0 /\ Answered' /\ Heading'.status = "limited" /\ PipeInv' /\ CostInv'
  BY <1>1, <1>2, ReplyDoes, ReplyKeeps
<1>4. CallsInv'
  BY <1>1, <1>3, CallsKept DEF Pcs
<1>5. OnceInv'
  BY <1>1, OnceKept DEF Pending
<1>6. RealInv'
  BY <1>1, <1>3, RealKept
<1> QED  BY <1>3, <1>4, <1>5, <1>6

\* A prefix of what is on its way.
LEMMA CutDown ==
  ASSUME NEW x, NEW y
  PROVE  /\ \A n \in 0..1 : SubSeq(<<x>>, 1, n) \in {<<>>, <<x>>}
         /\ \A n \in 0..2 : SubSeq(<<x, y>>, 1, n) \in {<<>>, <<x>>, <<x, y>>}
<1>1. <<x>> \in Seq({x, y}) /\ <<x, y>> \in Seq({x, y}) /\ Len(<<x>>) = 1 /\ Len(<<x, y>>) = 2
  OBVIOUS
<1>2. /\ SubSeq(<<x>>, 1, 0) = <<>> /\ SubSeq(<<x>>, 1, 1) = <<x>>
      /\ SubSeq(<<x, y>>, 1, 0) = <<>> /\ SubSeq(<<x, y>>, 1, 2) = <<x, y>>
  <2>1. SubSeq(<<x>>, 1, Len(<<x>>)) = <<x>> /\ SubSeq(<<x, y>>, 1, Len(<<x, y>>)) = <<x, y>>
    BY <1>1, SubSeqFull
  <2>2. SubSeq(<<x>>, 1, 0) = <<>> /\ SubSeq(<<x, y>>, 1, 0) = <<>>
    BY SubSeqEmpty
  <2> QED  BY <1>1, <2>1, <2>2
<1>3. SubSeq(<<x, y>>, 1, 1) = <<x>>
  <2>1. /\ SubSeq(<<x, y>>, 1, 1) \in Seq({x, y}) /\ Len(SubSeq(<<x, y>>, 1, 1)) = 1
        /\ SubSeq(<<x, y>>, 1, 1)[1] = x
    BY <1>1
  <2>2. \A i \in 1..1 : SubSeq(<<x, y>>, 1, 1)[i] = <<x>>[i]
    BY <2>1
  <2> QED  BY <1>1, <2>1, <2>2, SeqEqual
<1>4. \A n \in 0..1 : n = 0 \/ n = 1
  OBVIOUS
<1>5. \A n \in 0..2 : n = 0 \/ n = 1 \/ n = 2
  OBVIOUS
<1> QED  BY <1>2, <1>3, <1>4, <1>5

\* The connection breaks.
LEMMA BreakKeeps ==
  ASSUME HttpAssumption, IInv, Break
  PROVE  IInv'
<1> USE DEF IInv
<1>1. /\ faults' = faults + 1 /\ up' = 0 /\ stray' \in {stray, IF up = 0 THEN stray ELSE stray \cup {up}}
      /\ \E n \in 0..Len(down) : down' = SubSeq(down, 1, n)
      /\ UNCHANGED <<pc, ops, second, cached, resp, done, result, cost>>
  BY DEF Break, Fault, callVars, serverVars, endVars
<1>2. /\ \A x, y : Len(<<>>) = 0 /\ Len(<<x>>) = 1 /\ Len(<<x, y>>) = 2
      /\ \A x, y : <<x>>[1] = x /\ <<x, y>>[1] = x /\ <<x, y>>[2] = y /\ <<x>> # <<>> /\ <<x, y>> # <<>>
  OBVIOUS
<1>3. PICK n \in 0..Len(down) : down' = SubSeq(down, 1, n)
  BY <1>1
<1>4. down = <<>> => down' = <<>>
  <2>1. \A k \in 0..0 : SubSeq(<<>>, 1, k) = <<>>
    BY SubSeqEmpty
  <2> QED  BY <1>2, <1>3, <2>1
<1>5. down = <<down[1]>> => down' \in {<<>>, <<down[1]>>}
  <2> SUFFICES ASSUME down = <<down[1]>> PROVE down' \in {<<>>, <<down[1]>>}
    OBVIOUS
  <2>1. PICK x : x = down[1] /\ down = <<x>>
    OBVIOUS
  <2>2. n \in 0..1
    BY <1>2, <2>1
  <2> QED  BY <1>3, <2>1, <2>2, CutDown
<1>6. down = <<down[1], down[2]>> => down' \in {<<>>, <<down[1]>>, <<down[1], down[2]>>}
  <2> SUFFICES ASSUME down = <<down[1], down[2]>>
               PROVE  down' \in {<<>>, <<down[1]>>, <<down[1], down[2]>>}
    OBVIOUS
  <2>1. PICK x, y : x = down[1] /\ y = down[2] /\ down = <<x, y>>
    OBVIOUS
  <2>2. n \in 0..2
    BY <1>2, <2>1
  <2> QED  BY <1>3, <2>1, <2>2, CutDown
<1>7. PipeInv'
  <2>1. CASE pc \notin {"head", "body"}
    BY <1>1, <1>4, <2>1 DEF PipeInv, op, calls
  <2>2. CASE pc = "head"
    <3>1. \/ down' = <<>>
          \/ down' = <<down'[1]>> /\ IsHead(down'[1])
          \/ /\ down' = <<down'[1], down'[2]>> /\ IsHead(down'[1])
             /\ IsBody(down'[2]) /\ down'[1].framing # "none"
      <4>1. CASE down = <<>>
        BY <1>4, <4>1
      <4>2. CASE down = <<down[1]>> /\ IsHead(down[1])
        BY <1>2, <1>5, <4>2
      <4>3. CASE down = <<down[1], down[2]>> /\ IsHead(down[1]) /\ IsBody(down[2]) /\ down[1].framing # "none"
        BY <1>2, <1>6, <4>3
      <4> QED  BY <2>2, <4>1, <4>2, <4>3 DEF PipeInv
    <3> QED  BY <1>1, <2>2, <3>1 DEF PipeInv
  <2>3. CASE pc = "body"
    <3>1. \/ down' = <<>>
          \/ down' = <<down'[1]>> /\ IsBody(down'[1]) /\ resp.framing # "none"
      BY <1>2, <1>4, <1>5, <2>3 DEF PipeInv
    <3> QED  BY <1>1, <2>3, <3>1 DEF PipeInv
  <2> QED  BY <2>1, <2>2, <2>3
<1>8. Answered' => Answered /\ Heading' = Heading
  <2>1. CASE pc = "body"
    BY <1>1, <2>1 DEF Answered, Heading
  <2>2. CASE pc = "head" /\ down' # <<>>
    <3>1. down # <<>> /\ down'[1] = down[1]
      BY <1>2, <1>4, <1>5, <1>6, <2>2 DEF PipeInv
    <3> QED  BY <1>1, <2>2, <3>1 DEF Answered, Heading
  <2> QED  BY <1>1, <2>1, <2>2 DEF Answered
<1>9. up # 0 => up = calls /\ Pending /\ ~Answered
  BY DEF PipeInv, Pending, Answered
<1>10. calls' = calls /\ op' = op /\ calls \in Nat /\ (up # 0 => calls >= 1)
  BY <1>1, LenProperties DEF calls, op, CallsInv, PipeInv
<1>11. CallsInv'
  <2>1. \A c \in stray' : c \in 1..calls
    BY <1>1, <1>9, <1>10 DEF CallsInv
  <2> QED  BY <1>1, <1>10, <2>1 DEF CallsInv
<1>12. OnceInv'
  <2>1. ASSUME NEW c \in 1..calls, ~IsIdempotent(ops[c])
        PROVE  done[c] <= 1 /\ (c \in stray' => done[c] = 0)
    <3>1. c \in stray' => c \in stray \/ (c = calls /\ up # 0)
      BY <1>1, <1>9
    <3> QED  BY <1>9, <2>1, <3>1 DEF OnceInv, op
  <2>2. Pending' => Pending /\ (up # 0 => ~Answered /\ FALSE)
    BY <1>1, <1>8, <1>9 DEF Pending, PipeInv
  <2>3. Pending' => stray' = stray
    BY <1>1, <2>2
  <2> QED  BY <1>1, <1>10, <2>1, <2>2, <2>3 DEF OnceInv
<1>13. RealInv'
  BY <1>1, <1>8, RealKept
<1>14. CostInv'
  <2>1. Failed' = Failed
    BY <1>1 DEF Failed
  <2> QED  BY <1>1, <2>1 DEF CostInv
<1> QED  BY <1>7, <1>11, <1>12, <1>13, <1>14

\* A request of a connection that was dropped arrives after all.
LEMMA StrayKeeps ==
  ASSUME HttpAssumption, IInv, StrayArrives
  PROVE  IInv'
<1> USE DEF IInv
<1>1. PICK c \in stray :
        /\ stray' = stray \ {c}
        /\ done' = done \/ done' = [done EXCEPT ![c] = @ + 1]
        /\ UNCHANGED <<pc, ops, second, cached, resp, link, up, down, result, cost, faults>>
  BY DEF StrayArrives, callVars, linkVars, endVars
<1>2. /\ calls' = calls /\ op' = op /\ calls \in Nat /\ c \in 1..calls /\ MaxCalls \in Nat
      /\ calls <= MaxCalls /\ c \in 1..MaxCalls /\ done \in [1..MaxCalls -> Nat]
  BY <1>1, LenProperties DEF calls, op, CallsInv, HttpAssumption
<1>3. /\ done' \in [1..MaxCalls -> Nat] /\ \A d \in 1..MaxCalls : d # c => done'[d] = done[d]
      /\ done'[c] \in {done[c], done[c] + 1}
  <2>1. CASE done' = done
    BY <1>2, <2>1
  <2>2. CASE done' = [done EXCEPT ![c] = @ + 1]
    <3>1. done[c] + 1 \in Nat
      BY <1>2
    <3> QED  BY <1>2, <2>2, <3>1
  <2> QED  BY <1>1, <2>1, <2>2, Zenon
<1>4. Answered' = Answered /\ Heading' = Heading /\ Pending' = Pending /\ Failed' = Failed /\ Trouble' = Trouble
  BY <1>1 DEF Answered, Heading, Following, Pending, Failed, Trouble
<1>5. CallsInv'
  <2>1. \A d \in stray' : d \in 1..calls
    BY <1>1 DEF CallsInv
  <2>2. \A d \in 1..MaxCalls : d > calls => done'[d] = 0
    BY <1>2, <1>3 DEF CallsInv
  <2> QED  BY <1>1, <1>2, <1>3, <2>1, <2>2 DEF CallsInv
<1>6. PipeInv'
  BY <1>1, <1>2 DEF PipeInv
<1>7. OnceInv'
  <2>1. ASSUME NEW d \in 1..calls, ~IsIdempotent(ops[d])
        PROVE  done'[d] <= 1 /\ (d \in stray' => done'[d] = 0)
    <3>1. CASE d = c
      <4>1. done[c] = 0
        BY <1>1, <2>1, <3>1 DEF OnceInv
      <4> QED  BY <1>1, <1>3, <3>1, <4>1
    <3>2. CASE d # c
      BY <1>1, <1>2, <1>3, <2>1, <3>2 DEF OnceInv
    <3> QED  BY <3>1, <3>2
  <2>2. ASSUME Pending, ~IsIdempotent(op)
        PROVE  done'[calls] = 0 /\ calls \notin stray'
    <3>1. done[calls] = 0 /\ calls \notin stray /\ calls # c
      BY <1>1, <2>2 DEF OnceInv
    <3> QED  BY <1>1, <1>2, <1>3, <3>1
  <2> QED  BY <1>1, <1>2, <1>4, <2>1, <2>2 DEF OnceInv
<1>8. RealInv'
  <2>1. Answered => calls \in 1..MaxCalls
    BY <1>2
  <2>2. calls \in 1..MaxCalls => done'[calls] >= done[calls] /\ done[calls] \in Nat
    BY <1>2, <1>3
  <2> QED  BY <1>1, <1>2, <1>3, <1>4, <2>1, <2>2 DEF RealInv
<1>9. CostInv'
  BY <1>1, <1>4, CostKept
<1> QED  BY <1>5, <1>6, <1>7, <1>8, <1>9

\* Time passes, or nothing.
LEMMA TickKeeps ==
  ASSUME IInv, Tick \/ UNCHANGED vars
  PROVE  IInv'
<1> USE DEF IInv
<1>1. UNCHANGED <<pc, ops, second, cached, resp, link, up, down, stray, done, result, cost, faults>>
  BY DEF Tick, vars, callVars, linkVars, serverVars, endVars
<1>2. Answered' = Answered /\ Heading' = Heading /\ Pending' = Pending /\ Failed' = Failed /\ Trouble' = Trouble
  BY <1>1 DEF Answered, Heading, Following, Pending, Failed, Trouble
<1>3. CallsInv'
  BY <1>1 DEF CallsInv, calls
<1>4. PipeInv'
  BY <1>1 DEF PipeInv, calls, op
<1>5. OnceInv'
  BY <1>1, <1>2, OnceKept
<1>6. RealInv'
  BY <1>1, <1>2, RealKept
<1>7. CostInv'
  BY <1>1, <1>2, CostKept
<1> QED  BY <1>3, <1>4, <1>5, <1>6, <1>7

-----------------------------------------------------------------------------
(* The invariant holds at first, and every step keeps it.                  *)
LEMMA InitEstablishes == Init => IInv
<1> SUFFICES ASSUME Init PROVE IInv
  OBVIOUS
<1> USE DEF Init
<1>1. ops \in Seq(Ops) /\ calls = 0 /\ MaxCalls \in Nat
  BY HttpAssumption DEF calls, HttpAssumption
<1>2. ~Answered /\ ~Pending /\ ~Failed /\ ~Trouble
  BY DEF Answered, Pending, Failed, Trouble
<1>3. CallsInv
  BY <1>1 DEF CallsInv
<1>4. PipeInv
  BY DEF PipeInv
<1>5. OnceInv
  BY <1>1, <1>2 DEF OnceInv
<1>6. RealInv
  BY <1>2 DEF RealInv
<1>7. CostInv
  BY <1>2 DEF CostInv
<1> QED  BY <1>3, <1>4, <1>5, <1>6, <1>7 DEF IInv

LEMMA Invariance == IInv /\ [Next]_vars => IInv'
<1> SUFFICES ASSUME IInv, [Next]_vars PROVE IInv'
  OBVIOUS
<1>1. HttpAssumption
  BY HttpAssumption
<1>2. CASE Call \/ PreemptiveWait \/ WakeUp \/ TakeCached
  BY <1>1, <1>2, CallKeeps, PausesKeep
<1>3. CASE TakeConn \/ ConnectFails \/ Write
  BY <1>1, <1>3, ConnectKeeps, ConnectFailsKeeps, WriteKeeps
<1>4. CASE ReadHead \/ ReadFails \/ ReadBody \/ Timeout
  BY <1>1, <1>4, ReadHeadKeeps, ReadFailsKeeps, ReadBodyKeeps, TimeoutKeeps
<1>5. CASE Answer \/ TooMany \/ Break \/ StrayArrives
  BY <1>1, <1>5, AnswerKeeps, TooManyKeeps, BreakKeeps, StrayKeeps
<1>6. CASE Tick \/ UNCHANGED vars
  BY <1>6, TickKeeps
<1> QED  BY <1>2, <1>3, <1>4, <1>5, <1>6 DEF Next, Client, Outside

LEMMA IInvHolds == Spec => []IInv
BY InitEstablishes, Invariance, PTL DEF Spec

-----------------------------------------------------------------------------
(* What follows from it.                                                   *)

\* A POST or PATCH is carried out once at most, whatever breaks, answers late or is retried, for
\* every number of calls, attempts and faults.
THEOREM CarriedOutOnce == Spec => []AtMostOnce
<1>1. IInv => AtMostOnce
  <2>1. \A o : Method[o.endpoint] \in {"POST", "PATCH"} => ~IsIdempotent(o)
    BY DEF IsIdempotent
  <2> QED  BY <2>1 DEF IInv, OnceInv, AtMostOnce
<1> QED  BY <1>1, IInvHolds, PTL

\* Success is never reported for a call the server has not carried out.
THEOREM SuccessIsEarned == Spec => []SuccessIsReal
<1>1. IInv => SuccessIsReal
  BY DEF IInv, RealInv, SuccessIsReal
<1> QED  BY <1>1, IInvHolds, PTL

\* No I/O error is returned for less than its own failures: one retry hides every single one.
THEOREM ErrorsArePaid == Spec => []ErrorsCostFaults
<1>1. IInv => ErrorsCostFaults
  BY DEF IInv, CostInv, ErrorsCostFaults
<1> QED  BY <1>1, IInvHolds, PTL

-----------------------------------------------------------------------------
\* What a call may sleep for each attempt.
RetryLimit == AtLeast(MaxRetryWait, Doubled(MaxAttempts - 2))
Allowance(a) == a * (MaxPreemptiveWait + RetryLimit)

\* Times are numbers; a route key has the bucket that was read last for it.
TimesInv ==
  /\ attempt \in Nat /\ sleep \in Nat /\ slept \in Nat
  /\ reset \in [Limits -> Nat]
  /\ DOMAIN buckets = Buckets
  /\ \A b \in Buckets : buckets[b] = [remaining |-> buckets[b].remaining, resetsIn |-> buckets[b].resetsIn]
                        /\ buckets[b].resetsIn \in Nat
  /\ DOMAIN routeBuckets = Keys /\ \A k \in Keys : routeBuckets[k] \in Buckets \cup {NoBucket}
  /\ named = routeBuckets
  /\ Answered => /\ Heading.retryAfter \in Nat /\ Heading.resetAfter \in Nat
                 /\ Heading.headers # "none" => Heading.bucket = BucketOf[LimitOf[op]]

\* What is kept per limit is kept for all of them.
TableInv == DOMAIN left = Limits /\ DOMAIN told = Limits

\* What the call has slept, and will before it goes on.
SleepInv ==
  /\ pc # "idle" => attempt < MaxAttempts
  /\ pc = "idle" => slept <= SleepLimit
  /\ pc = "wait" => slept <= Allowance(attempt)
  /\ pc = "hold" => slept + sleep <= Allowance(attempt) + MaxPreemptiveWait
  /\ pc \in {"take", "write", "head", "body", "again"} =>
       slept <= Allowance(attempt) + MaxPreemptiveWait
  /\ pc = "backoff" => slept + sleep <= Allowance(attempt)

\* The client can tell that the limit of its request is exhausted.
Empty ==
  LET l == LimitOf[op]
  IN  told[l] = "yes" /\ named[RouteKey(op)] = BucketOf[l] /\ left[l] = 0 /\ reset[l] > 0

\* What must not be sent.
Spent == Empty /\ buckets[BucketOf[LimitOf[op]]].resetsIn <= MaxPreemptiveWait

\* What the client has of the limits it can tell, or is being told, is what the server counts.
LimitInv ==
  /\ \A l \in Limits : told[l] = "yes" =>
       buckets[BucketOf[l]].remaining = left[l] /\ reset[l] <= buckets[BucketOf[l]].resetsIn
  /\ \A l \in Limits : told[l] = "coming" =>
       /\ l = LimitOf[op]
       /\ \/ /\ Answered /\ Heading.headers = "all" /\ Heading.remaining = left[l]
             /\ reset[l] <= Heading.resetAfter
          \/ pc = "head" /\ up = 0 /\ down = <<>>
  /\ Answered /\ Heading.headers = "all" => told[LimitOf[op]] # "yes"
  /\ pc = "hold" /\ Empty => reset[LimitOf[op]] <= sleep
  /\ pc = "take" => ~Spent

\* What holds in every state, with the pauses and the limits.
SInv == IInv /\ TableInv /\ TimesInv /\ SleepInv /\ LimitInv

-----------------------------------------------------------------------------
(* The arithmetic of the pauses.                                           *)
LEMMA DoubledGrows ==
  ASSUME NEW a \in Nat, NEW b \in Nat, a <= b
  PROVE  Doubled(a) \in Nat /\ Doubled(a) <= Doubled(b)
<1>1. Doubled(0) = 1 /\ Doubled(1) = 2 /\ Doubled(2) = 4
  BY DEF Doubled
<1>2. \A c \in Nat : c >= 3 => Doubled(c) = 8
  BY DEF Doubled
<1>3. \A c \in Nat : c < 3 => c = 0 \/ c = 1 \/ c = 2
  OBVIOUS
<1>4. CASE b < 3
  BY <1>1, <1>3, <1>4
<1>5. CASE ~(b < 3)
  BY <1>1, <1>2, <1>3, <1>5
<1> QED  BY <1>4, <1>5

LEMMA Products ==
  ASSUME NEW a \in Nat, NEW A \in Nat, NEW w \in Nat, NEW r \in Nat
  PROVE  /\ a * (w + r) \in Nat /\ (a + 1) * (w + r) = a * (w + r) + w + r
         /\ a < A => a * (w + r) + w <= A * w + (A - 1) * r
<1>1. a * (w + r) \in Nat /\ (a + 1) * (w + r) = a * (w + r) + w + r
  OBVIOUS
<1>2. ASSUME a < A
      PROVE  a * (w + r) + w <= A * w + (A - 1) * r
  <2>1. PICK d \in Nat : A = a + 1 + d
    <3>1. A - a - 1 \in Nat /\ A = a + 1 + (A - a - 1)
      BY <1>2
    <3> QED  BY <3>1
  <2>2. (a + 1 + d) * w = a * w + w + d * w /\ (a + 1 + d - 1) * r = a * r + d * r
    OBVIOUS
  <2>3. a * (w + r) = a * w + a * r /\ d * w \in Nat /\ d * r \in Nat /\ a * w \in Nat /\ a * r \in Nat
    OBVIOUS
  <2> QED  BY <2>1, <2>2, <2>3
<1> QED  BY <1>1, <1>2

\* The allowance of the attempts, up to the bound of the whole call.
LEMMA Allowances ==
  /\ RetryLimit \in Nat /\ MaxPreemptiveWait \in Nat /\ MaxAttempts \in Nat /\ MaxAttempts >= 2
  /\ SleepLimit \in Nat /\ Allowance(0) = 0
  /\ \A a \in Nat : /\ Allowance(a) \in Nat
                    /\ Allowance(a + 1) = Allowance(a) + MaxPreemptiveWait + RetryLimit
                    /\ a < MaxAttempts => Allowance(a) + MaxPreemptiveWait <= SleepLimit
<1>1. MaxPreemptiveWait \in Nat /\ MaxAttempts \in Nat /\ MaxAttempts >= 2 /\ MaxRetryWait \in Nat
  BY HttpAssumption DEF HttpAssumption
<1>2. RetryLimit \in Nat
  BY <1>1, DoubledGrows DEF RetryLimit, AtLeast
<1>3. SleepLimit = MaxAttempts * MaxPreemptiveWait + (MaxAttempts - 1) * RetryLimit
  BY DEF SleepLimit, RetryLimit
<1>4. Allowance(0) = 0
  BY <1>1, <1>2 DEF Allowance
<1>5. SleepLimit \in Nat
  <2>1. \A x, y \in Nat : x * y \in Nat
    OBVIOUS
  <2>2. MaxAttempts - 1 \in Nat
    BY <1>1
  <2>3. MaxAttempts * MaxPreemptiveWait \in Nat /\ (MaxAttempts - 1) * RetryLimit \in Nat
    BY <1>1, <1>2, <2>1, <2>2
  <2> QED  BY <1>3, <2>3
<1>6. ASSUME NEW a \in Nat
      PROVE  /\ Allowance(a) \in Nat
             /\ Allowance(a + 1) = Allowance(a) + MaxPreemptiveWait + RetryLimit
             /\ a < MaxAttempts => Allowance(a) + MaxPreemptiveWait <= SleepLimit
  BY <1>1, <1>2, <1>3, Products DEF Allowance
<1> QED  BY <1>1, <1>2, <1>4, <1>5, <1>6

\* The clamps.
LEMMA RetryWaits ==
  ASSUME NEW r, r.retryAfter \in Nat, NEW a \in Nat, a + 1 < MaxAttempts
  PROVE  RetryWait(r, a) \in Nat /\ RetryWait(r, a) <= RetryLimit
<1>1. MaxAttempts - 2 \in Nat /\ a <= MaxAttempts - 2 /\ MaxRetryWait \in Nat
  BY HttpAssumption DEF HttpAssumption
<1>2. Doubled(a) \in Nat /\ Doubled(MaxAttempts - 2) \in Nat /\ Doubled(a) <= Doubled(MaxAttempts - 2)
  BY <1>1, DoubledGrows
<1>3. RetryWait(r, a) \in {Doubled(a), AtMost(1, MaxRetryWait), AtMost(r.retryAfter, MaxRetryWait)}
  <2>1. CASE r.status = "error"
    BY <2>1 DEF RetryWait
  <2>2. CASE r.status # "error" /\ r.retryAfter = 0
    BY <2>2 DEF RetryWait
  <2>3. CASE r.status # "error" /\ r.retryAfter # 0
    BY <2>3 DEF RetryWait
  <2> QED  BY <2>1, <2>2, <2>3
<1> QED  BY <1>1, <1>2, <1>3 DEF RetryLimit, AtMost, AtLeast

\* Each action replaces the tables entry by entry.
LEMMA Tables == TableInv /\ [Next]_vars => TableInv'
<1> SUFFICES ASSUME TableInv, [Next]_vars
             PROVE  TableInv'
  OBVIOUS
<1>1. CASE Call \/ PreemptiveWait \/ WakeUp \/ TakeConn \/ TakeCached \/ ConnectFails \/ Write \/ ReadHead
  BY <1>1 DEF TableInv, Call, PreemptiveWait, WakeUp, TakeConn, TakeCached, ConnectFails, Write,
              ReadHead, serverVars, historyVars
<1>2. CASE ReadFails \/ Timeout
  BY <1>2 DEF TableInv, ReadFails, Timeout, SendFails, LoseStream, serverVars
<1>3. CASE ReadBody
  BY <1>3 DEF TableInv, ReadBody, Respond, Learn, serverVars
<1>4. CASE Answer \/ TooMany
  BY <1>4 DEF TableInv, Answer, TooMany, Spend, Reply
<1>5. CASE Break \/ StrayArrives \/ Tick
  BY <1>5 DEF TableInv, Break, StrayArrives, Spend, Tick, serverVars, historyVars
<1>6. CASE UNCHANGED vars
  BY <1>6 DEF TableInv, vars, serverVars, historyVars
<1> QED  BY <1>1, <1>2, <1>3, <1>4, <1>5, <1>6 DEF Next, Client, Outside

\* The states with nothing of an exchange.
LEMMA Quiet ==
  ASSUME SInv, pc \notin {"head", "body"}
  PROVE  ~Answered /\ \A l \in Limits : told[l] # "coming"
  BY DEF SInv, LimitInv, Answered

\* The request of a call that is under way, with its limit, bucket and route key.
LEMMA OpIs ==
  ASSUME IInv, pc # "idle"
  PROVE  /\ op \in Ops /\ LimitOf[op] \in Limits /\ BucketOf[LimitOf[op]] \in Buckets
         /\ RouteKey(op) \in Keys /\ calls \in Nat
<1>1. ops \in Seq(Ops) /\ calls >= 1
  BY DEF IInv, CallsInv
<1>2. calls \in 1..Len(ops) /\ calls \in Nat
  BY <1>1, LenProperties DEF calls
<1>3. op \in Ops
  BY <1>1, <1>2, ElementOfSeq DEF op
<1>4. LimitOf[op] \in Limits /\ BucketOf[LimitOf[op]] \in Buckets
  BY <1>3, HttpAssumption DEF HttpAssumption
<1>5. RouteKey(op) \in Keys
  BY <1>3 DEF Keys
<1> QED  BY <1>2, <1>3, <1>4, <1>5

(* Steps that touch neither the timers nor what is known of the limits.    *)
LEMMA TimesKept ==
  ASSUME TimesInv, UNCHANGED <<ops, attempt, sleep, slept, reset, buckets, routeBuckets, named>>,
         Answered' => Answered /\ Heading' = Heading
  PROVE  TimesInv'
<1>1. op' = op
  BY DEF op, calls
<1> QED  BY <1>1 DEF TimesInv

LEMMA LimitsKept ==
  ASSUME SInv, UNCHANGED <<ops, left, reset, buckets, told, named>>,
         Answered' => Answered /\ Heading' = Heading,
         \/ Answered' /\ Answered
         \/ pc' = "head" /\ up' = 0 /\ down' = <<>>
         \/ \A l \in Limits : told[l] # "coming",
         pc' # "hold" \/ UNCHANGED <<pc, sleep>>,
         pc' # "take" \/ pc = "take"
  PROVE  LimitInv'
<1>1. op' = op /\ calls' = calls
  BY DEF op, calls
<1>2. Empty' = Empty /\ Spent' = Spent
  BY <1>1 DEF Empty, Spent
<1>3. \A l \in Limits : told[l] = "coming" =>
        /\ l = LimitOf[op']
        /\ \/ /\ Answered' /\ Heading'.headers = "all" /\ Heading'.remaining = left[l]
              /\ reset[l] <= Heading'.resetAfter
           \/ pc' = "head" /\ up' = 0 /\ down' = <<>>
  <2> SUFFICES ASSUME NEW l \in Limits, told[l] = "coming"
               PROVE  /\ l = LimitOf[op]
                      /\ \/ /\ Answered' /\ Heading'.headers = "all" /\ Heading'.remaining = left[l]
                            /\ reset[l] <= Heading'.resetAfter
                         \/ pc' = "head" /\ up' = 0 /\ down' = <<>>
    BY <1>1
  <2>1. \/ Answered' /\ Answered /\ Heading' = Heading
        \/ pc' = "head" /\ up' = 0 /\ down' = <<>>
    OBVIOUS
  <2>2. Answered => ~(pc = "head" /\ up = 0 /\ down = <<>>)
    BY DEF Answered
  <2> QED  BY <2>1, <2>2 DEF SInv, LimitInv
<1>4. Answered' /\ Heading'.headers = "all" => told'[LimitOf[op']] # "yes"
  BY <1>1 DEF SInv, LimitInv
<1>5. pc' = "hold" /\ Empty' => reset'[LimitOf[op']] <= sleep'
  BY <1>1, <1>2 DEF SInv, LimitInv
<1>6. pc' = "take" => ~Spent'
  BY <1>2 DEF SInv, LimitInv
<1> QED  BY <1>3, <1>4, <1>5, <1>6 DEF SInv, LimitInv

-----------------------------------------------------------------------------
LEMMA CallTimes ==
  ASSUME SInv, Call
  PROVE  TimesInv' /\ SleepInv' /\ LimitInv'
<1>1. /\ pc = "idle" /\ pc' = "wait" /\ attempt' = 0 /\ slept' = 0
      /\ UNCHANGED <<sleep, left, reset, buckets, routeBuckets, told, named>>
  BY DEF Call, limitVars, serverVars, historyVars
<1>2. ~Answered' /\ \A l \in Limits : told[l] # "coming"
  BY <1>1, Quiet DEF Answered
<1>3. TimesInv'
  BY <1>1, <1>2 DEF SInv, TimesInv
<1>4. SleepInv'
  BY <1>1, Allowances DEF SleepInv
<1>5. LimitInv'
  BY <1>1, <1>2 DEF SInv, LimitInv
<1> QED  BY <1>3, <1>4, <1>5

LEMMA WaitTimes ==
  ASSUME SInv, PreemptiveWait
  PROVE  TimesInv' /\ SleepInv' /\ LimitInv'
<1> DEFINE l == LimitOf[op]
           b == BucketOf[l]
           k == RouteKey(op)
<1>1. /\ pc = "wait" /\ pc' \in {"hold", "take"}
      /\ UNCHANGED <<ops, attempt, slept, left, reset, buckets, routeBuckets, told, named>>
      /\ pc' = "hold" => Exhausted /\ sleep' = Known.resetsIn /\ Known.resetsIn <= MaxPreemptiveWait
      /\ pc' = "take" => sleep' = sleep /\ ~(Exhausted /\ Known.resetsIn <= MaxPreemptiveWait)
  BY DEF PreemptiveWait, limitVars, serverVars, historyVars
<1>2. ~Answered /\ ~Answered' /\ \A m \in Limits : told[m] # "coming"
  BY <1>1, Quiet DEF Answered
<1>3. /\ op \in Ops /\ l \in Limits /\ b \in Buckets /\ op' = op /\ b # NoBucket
      /\ k \in Keys /\ routeBuckets[k] \in Buckets \cup {NoBucket} /\ NoBucket \notin Buckets
  BY <1>1, OpIs, HttpAssumption DEF SInv, TimesInv, op, calls, HttpAssumption, NoBucket
<1>4. Exhausted => Known.resetsIn \in Nat
  BY <1>3 DEF Exhausted, Known, SInv, TimesInv
<1>5. sleep' \in Nat /\ (pc' = "hold" => sleep' <= MaxPreemptiveWait)
  BY <1>1, <1>4 DEF SInv, TimesInv
<1>6. TimesInv'
  BY <1>1, <1>2, <1>5 DEF SInv, TimesInv
<1>7. SleepInv'
  BY <1>1, <1>5, Allowances DEF SInv, SleepInv, TimesInv
<1>8. Empty' = Empty /\ Spent' = Spent
  BY <1>1, <1>3 DEF Empty, Spent
<1>9. Empty => Exhausted /\ Known.resetsIn = buckets[b].resetsIn /\ reset[l] <= Known.resetsIn
  <2> SUFFICES ASSUME Empty
               PROVE  Exhausted /\ Known.resetsIn = buckets[b].resetsIn /\ reset[l] <= Known.resetsIn
    OBVIOUS
  <2>1. told[l] = "yes" /\ routeBuckets[k] = b /\ left[l] = 0 /\ reset[l] > 0
    BY DEF Empty, SInv, TimesInv
  <2>2. Known = buckets[b]
    BY <2>1 DEF Known
  <2>3. buckets[b].remaining = 0 /\ reset[l] <= buckets[b].resetsIn
    BY <1>3, <2>1 DEF SInv, LimitInv
  <2>4. reset[l] \in Nat /\ buckets[b].resetsIn \in Nat
    BY <1>3 DEF SInv, TimesInv
  <2>5. buckets[b].resetsIn > 0
    BY <2>1, <2>3, <2>4
  <2> QED  BY <1>3, <2>1, <2>2, <2>3, <2>5 DEF Exhausted
<1>10. LimitInv'
  <2>1. pc' = "hold" /\ Empty' => reset'[LimitOf[op']] <= sleep'
    BY <1>1, <1>3, <1>8, <1>9
  <2>2. pc' = "take" => ~Spent'
    BY <1>1, <1>8, <1>9 DEF Spent
  <2> QED  BY <1>1, <1>2, <2>1, <2>2 DEF SInv, LimitInv
<1> QED  BY <1>6, <1>7, <1>10

LEMMA WakeTimes ==
  ASSUME SInv, WakeUp
  PROVE  TimesInv' /\ SleepInv' /\ LimitInv'
<1>1. /\ pc \in {"hold", "backoff"} /\ sleep = 0 /\ pc' = IF pc = "hold" THEN "take" ELSE "wait"
      /\ UNCHANGED <<ops, attempt, sleep, slept, left, reset, buckets, routeBuckets, told, named>>
  BY DEF WakeUp, callVars, limitVars, serverVars, historyVars
<1>2. ~Answered /\ ~Answered' /\ \A l \in Limits : told[l] # "coming"
  BY <1>1, Quiet DEF Answered
<1>3. op \in Ops /\ LimitOf[op] \in Limits /\ op' = op
  BY <1>1, OpIs DEF SInv, op, calls
<1>4. pc = "hold" => ~Spent
  <2>1. reset[LimitOf[op]] \in Nat
    BY <1>3 DEF SInv, TimesInv
  <2>2. pc = "hold" /\ Empty => reset[LimitOf[op]] <= 0 /\ reset[LimitOf[op]] > 0
    BY <1>1 DEF SInv, LimitInv, Empty
  <2> QED  BY <2>1, <2>2 DEF Spent
<1>5. Spent' = Spent
  BY <1>1, <1>3 DEF Spent, Empty
<1>6. SleepInv'
  BY <1>1, Allowances DEF SInv, SleepInv, TimesInv
<1>7. LimitInv'
  BY <1>1, <1>2, <1>3, <1>4, <1>5 DEF SInv, LimitInv
<1> QED  BY <1>1, <1>2, <1>6, <1>7, TimesKept DEF SInv

\* From taking a connection to the head of a response.
LEMMA SendTimes ==
  ASSUME SInv, TakeConn \/ TakeCached \/ Write
  PROVE  TimesInv' /\ SleepInv' /\ LimitInv'
<1>1. /\ pc \in {"take", "again", "write"} /\ pc' \in {"write", "head"}
      /\ UNCHANGED <<ops, attempt, sleep, slept, left, reset, buckets, routeBuckets, told, named>>
      /\ pc' = "head" => down' = down /\ pc = "write"
  BY DEF TakeConn, TakeCached, Write, callVars, limitVars, serverVars, historyVars
<1>2. ~Answered /\ ~Answered' /\ \A l \in Limits : told[l] # "coming"
  BY <1>1, Quiet DEF Answered, SInv, IInv, PipeInv
<1>3. SleepInv'
  BY <1>1 DEF SInv, SleepInv
<1>4. LimitInv'
  <2>1. /\ Answered' => Answered /\ Heading' = Heading
        /\ \A l \in Limits : told[l] # "coming"
        /\ pc' # "hold" /\ pc' # "take"
        /\ UNCHANGED <<ops, left, reset, buckets, told, named>>
    BY <1>1, <1>2
  <2> QED  BY <2>1, LimitsKept
<1> QED  BY <1>1, <1>2, <1>3, <1>4, TimesKept DEF SInv

LEMMA ConnectFailsTimes ==
  ASSUME SInv, ConnectFails
  PROVE  TimesInv' /\ SleepInv' /\ LimitInv'
<1>1. /\ pc \in {"take", "again"} /\ pc' = "idle"
      /\ UNCHANGED <<ops, attempt, sleep, slept, left, reset, buckets, routeBuckets, told, named>>
  BY DEF ConnectFails, ReturnError, callVars, limitVars, serverVars, historyVars
<1>2. ~Answered /\ ~Answered' /\ \A l \in Limits : told[l] # "coming"
  BY <1>1, Quiet DEF Answered
<1>3. SleepInv'
  BY <1>1, Allowances DEF SInv, SleepInv, TimesInv
<1>4. LimitInv'
  BY <1>1, <1>2, LimitsKept
<1> QED  BY <1>1, <1>2, <1>3, <1>4, TimesKept DEF SInv

\* An exchange that fails: what was on its way is not heard.
LEMMA SendFailsTimes ==
  ASSUME SInv, ReadFails \/ Timeout
  PROVE  TimesInv' /\ SleepInv' /\ LimitInv'
<1>1. /\ pc \in {"head", "body"} /\ pc' \in {"again", "idle"}
      /\ told' = [l \in Limits |-> IF told[l] = "coming" THEN "no" ELSE told[l]]
      /\ UNCHANGED <<ops, attempt, sleep, slept, left, reset, buckets, routeBuckets, named>>
  BY DEF ReadFails, Timeout, SendFails, LoseStream, ReturnError, limitVars, serverVars
<1>2. ~Answered'
  BY <1>1 DEF Answered
<1>3. SleepInv'
  BY <1>1, Allowances DEF SInv, SleepInv, TimesInv
<1>4. LimitInv'
  BY <1>1, <1>2 DEF SInv, LimitInv
<1>5. TimesInv'
  BY <1>1, <1>2, TimesKept DEF SInv
<1> QED  BY <1>3, <1>4, <1>5

LEMMA HeadTimes ==
  ASSUME SInv, ReadHead
  PROVE  TimesInv' /\ SleepInv' /\ LimitInv'
<1>1. /\ pc = "head" /\ pc' = "body" /\ down # <<>> /\ resp' = Head(down)
      /\ UNCHANGED <<ops, attempt, sleep, slept, left, reset, buckets, routeBuckets, told, named>>
  BY DEF ReadHead, callVars, limitVars, serverVars, historyVars
<1>2. Answered /\ Answered' /\ Heading' = Heading
  BY <1>1 DEF Answered, Heading
<1>3. SleepInv'
  BY <1>1 DEF SInv, SleepInv
<1>4. LimitInv'
  BY <1>1, <1>2, LimitsKept
<1> QED  BY <1>1, <1>2, <1>3, <1>4, TimesKept DEF SInv

(* A response was read: its limits are recorded, and the call sleeps or    *)
(* returns.                                                                *)
LEMMA BodyTimes ==
  ASSUME SInv, ReadBody
  PROVE  TimesInv' /\ SleepInv' /\ LimitInv'
<1> DEFINE o == LimitOf[op]
           n == BucketOf[o]
           k == RouteKey(op)
<1>1. pc = "body" /\ Answered /\ Heading = resp /\ \E whole, rest : Respond(whole, rest)
  BY DEF ReadBody, Answered, Heading
<1>2. /\ RecordRateLimit /\ Learn /\ UNCHANGED <<ops, slept, left, reset>>
      /\ \/ pc' = "backoff" /\ attempt' = attempt + 1 /\ attempt + 1 < MaxAttempts
            /\ sleep' = RetryWait(resp, attempt)
         \/ pc' = "idle" /\ attempt' \in {attempt, attempt + 1} /\ sleep' = sleep
  BY <1>1 DEF Respond, serverVars
<1>3. ~Answered'
  BY <1>2 DEF Answered
<1>4. /\ op \in Ops /\ o \in Limits /\ n \in Buckets /\ k \in Keys /\ op' = op
      /\ attempt \in Nat /\ slept \in Nat /\ sleep \in Nat
      /\ resp.retryAfter \in Nat /\ resp.resetAfter \in Nat
      /\ resp.headers # "none" => resp.bucket = n
  BY <1>1, <1>2, OpIs DEF SInv, TimesInv, op, calls
<1>5. sleep' \in Nat /\ attempt' \in Nat /\ (pc' = "backoff" => sleep' <= RetryLimit)
  BY <1>2, <1>4, RetryWaits
<1>6. /\ routeBuckets' = IF resp.headers = "none" THEN routeBuckets ELSE [routeBuckets EXCEPT ![k] = n]
      /\ named' = IF resp.headers = "none" THEN named ELSE [named EXCEPT ![k] = n]
      /\ buckets' = IF resp.headers # "all" THEN buckets
                    ELSE [buckets EXCEPT ![n] = [remaining |-> resp.remaining, resetsIn |-> resp.resetAfter]]
  BY <1>2, <1>4 DEF RecordRateLimit, Learn
<1>7. TimesInv'
  <2>1. DOMAIN buckets' = Buckets /\ \A b \in Buckets :
           /\ buckets'[b] = [remaining |-> buckets'[b].remaining, resetsIn |-> buckets'[b].resetsIn]
           /\ buckets'[b].resetsIn \in Nat
    BY <1>4, <1>6 DEF SInv, TimesInv
  <2>2. DOMAIN routeBuckets' = Keys /\ \A p \in Keys : routeBuckets'[p] \in Buckets \cup {NoBucket}
    BY <1>4, <1>6 DEF SInv, TimesInv
  <2>3. named' = routeBuckets'
    BY <1>6 DEF SInv, TimesInv
  <2> QED  BY <1>2, <1>3, <1>4, <1>5, <2>1, <2>2, <2>3 DEF SInv, TimesInv
<1>8. SleepInv'
  <2>1. /\ slept <= Allowance(attempt) + MaxPreemptiveWait /\ attempt < MaxAttempts
        /\ Allowance(attempt) + MaxPreemptiveWait <= SleepLimit
        /\ Allowance(attempt + 1) = Allowance(attempt) + MaxPreemptiveWait + RetryLimit
        /\ Allowance(attempt) \in Nat /\ MaxPreemptiveWait \in Nat /\ RetryLimit \in Nat /\ SleepLimit \in Nat
    BY <1>1, <1>4, Allowances DEF SInv, SleepInv
  <2>2. CASE pc' = "backoff"
    <3>1. slept' + sleep' <= Allowance(attempt') /\ attempt' < MaxAttempts
      BY <1>2, <1>4, <1>5, <2>1, <2>2
    <3> QED  BY <2>2, <3>1 DEF SleepInv
  <2>3. CASE pc' = "idle"
    BY <1>2, <1>4, <2>1, <2>3 DEF SleepInv
  <2> QED  BY <1>2, <2>2, <2>3
<1>9. LimitInv'
  <2>1. \A l \in Limits : told[l] = "coming" =>
           l = o /\ resp.headers = "all" /\ resp.remaining = left[l] /\ reset[l] <= resp.resetAfter
    BY <1>1 DEF SInv, LimitInv
  <2>2. ASSUME NEW l \in Limits
        PROVE  /\ told'[l] # "coming"
               /\ told'[l] = "yes" => buckets'[BucketOf[l]].remaining = left[l]
                                      /\ reset[l] <= buckets'[BucketOf[l]].resetsIn
    <3>1. told'[l] = CASE resp.headers = "all" /\ told[l] = "coming" -> "yes"
                       [] resp.headers = "all" /\ told[l] = "yes" /\ BucketOf[l] = resp.bucket -> "hidden"
                       [] OTHER -> told[l]
      BY <1>2 DEF Learn
    <3>2. CASE told[l] = "coming"
      <4>1. buckets'[BucketOf[l]] = [remaining |-> resp.remaining, resetsIn |-> resp.resetAfter]
        BY <1>4, <1>6, <2>1, <3>2 DEF SInv, TimesInv
      <4>2. told'[l] = "yes"
        BY <2>1, <3>1, <3>2
      <4> QED  BY <2>1, <3>2, <4>1, <4>2
    <3>3. CASE told[l] # "coming"
      <4>1. told'[l] # "coming" /\ (told'[l] = "yes" => told[l] = "yes")
        BY <3>1, <3>3
      <4>2. told'[l] = "yes" => resp.headers # "all" \/ BucketOf[l] # n
        BY <1>4, <3>1, <3>3, <4>1
      <4>3. BucketOf[l] \in Buckets
        BY HttpAssumption DEF HttpAssumption
      <4>4. told'[l] = "yes" => buckets'[BucketOf[l]] = buckets[BucketOf[l]]
        BY <1>6, <4>2, <4>3 DEF SInv, TimesInv
      <4> QED  BY <4>1, <4>4 DEF SInv, LimitInv
    <3> QED  BY <3>2, <3>3
  <2> QED  BY <1>2, <1>3, <2>2 DEF LimitInv
<1> QED  BY <1>7, <1>8, <1>9

-----------------------------------------------------------------------------
(* The server answers: what it counts, it tells.                           *)
LEMMA ReplyTimes ==
  ASSUME SInv, up # 0, NEW status \in {"ok", "refused", "error", "limited"}, NEW after \in Nat, NEW headers,
         Reply(status, after, headers), reset' \in [Limits -> Nat],
         \A l \in Limits : l # LimitOf[op] => left'[l] = left[l] /\ reset'[l] = reset[l],
         UNCHANGED <<pc, ops, attempt, sleep, slept, buckets, routeBuckets, resp, named>>
  PROVE  TimesInv' /\ SleepInv' /\ LimitInv'
<1> DEFINE o == LimitOf[op]
<1>1. /\ pc = "head" /\ down = <<>> /\ up' = 0 /\ Answered' /\ ~Answered
      /\ Heading'.retryAfter = after /\ Heading'.headers = headers
      /\ headers = "all" => Heading'.remaining = left'[o] /\ Heading'.resetAfter = reset'[o]
      /\ headers # "all" => Heading'.resetAfter = 0
      /\ headers # "none" => Heading'.bucket = BucketOf[o]
  BY ReplyDoes DEF SInv, Answered
<1>2. op \in Ops /\ o \in Limits /\ op' = op
  BY <1>1, OpIs DEF SInv, op, calls
<1>3. told' = [told EXCEPT ![o] = IF headers = "all" THEN "coming" ELSE "no"]
  BY DEF Reply
<1>4. \A l \in Limits : told[l] # "coming"
  BY <1>1 DEF SInv, LimitInv
<1>5. TimesInv'
  BY <1>1, <1>2 DEF SInv, TimesInv
<1>6. SleepInv'
  BY DEF SInv, SleepInv
<1>7. LimitInv'
  <2>1. ASSUME NEW l \in Limits, told'[l] = "yes"
        PROVE  l # o /\ told[l] = "yes"
    BY <1>3, <2>1 DEF SInv, TableInv
  <2>2. ASSUME NEW l \in Limits, told'[l] = "coming"
        PROVE  l = o /\ headers = "all"
    BY <1>3, <1>4, <2>2 DEF SInv, TableInv
  <2>3. told'[o] # "yes"
    BY <2>1, <1>2
  <2>4. \A l \in Limits : told'[l] = "yes" =>
          buckets'[BucketOf[l]].remaining = left'[l] /\ reset'[l] <= buckets'[BucketOf[l]].resetsIn
    BY <2>1 DEF SInv, LimitInv
  <2>5. \A l \in Limits : told'[l] = "coming" =>
          /\ l = LimitOf[op']
          /\ Answered' /\ Heading'.headers = "all" /\ Heading'.remaining = left'[l]
          /\ reset'[l] <= Heading'.resetAfter
    BY <1>1, <1>2, <2>2
  <2> QED  BY <1>1, <1>2, <2>3, <2>4, <2>5 DEF LimitInv
<1> QED  BY <1>5, <1>6, <1>7

LEMMA AnswerTimes ==
  ASSUME SInv, Answer
  PROVE  TimesInv' /\ SleepInv' /\ LimitInv'
<1> DEFINE o == LimitOf[op]
<1>1. up # 0 /\ UNCHANGED <<pc, ops, attempt, sleep, slept, buckets, routeBuckets, resp, named>>
  BY DEF Answer, callVars, limitVars
<1>2. PICK status \in {"ok", "refused", "error"}, headers \in {"none", "bucket", "all"} : Reply(status, 0, headers)
  BY DEF Answer
<1>3. PICK window \in Nat : Spend(o, window)
  BY HttpAssumption DEF Answer, HttpAssumption
<1>4. /\ reset' \in [Limits -> Nat]
      /\ \A l \in Limits : l # o => reset'[l] = reset[l]
  <2>1. reset \in [Limits -> Nat]
    BY DEF SInv, TimesInv
  <2>2. reset' = [reset EXCEPT ![o] = IF reset[o] = 0 THEN window ELSE reset[o]]
    BY <1>3 DEF Spend
  <2> QED  BY <2>1, <2>2
<1>5. \A l \in Limits : l # o => left'[l] = left[l]
  BY <1>3 DEF Spend, SInv, TableInv
<1> QED  BY <1>1, <1>2, <1>4, <1>5, ReplyTimes

LEMMA TooManyTimes ==
  ASSUME SInv, TooMany
  PROVE  TimesInv' /\ SleepInv' /\ LimitInv'
<1>1. /\ up # 0
      /\ UNCHANGED <<pc, ops, attempt, sleep, slept, buckets, routeBuckets, resp, left, reset, named>>
      /\ \E after, headers : /\ after \in {0, reset[LimitOf[op]]} \/ after \in Windows
                             /\ Reply("limited", after, headers)
  BY DEF TooMany, callVars, limitVars
<1>2. pc # "idle"
  BY <1>1 DEF SInv, IInv, PipeInv
<1>3. reset \in [Limits -> Nat] /\ Windows \subseteq Nat /\ LimitOf[op] \in Limits
  BY <1>2, OpIs, HttpAssumption DEF SInv, TimesInv, HttpAssumption
<1>4. PICK after \in Nat, headers \in {"all", "none", "bucket"} : Reply("limited", after, headers)
  BY <1>3 DEF TooMany
<1> QED  BY <1>1, <1>3, <1>4, ReplyTimes

\* A break loses the end of what is on its way, not the beginning.
LEMMA FirstKept ==
  ASSUME NEW S, NEW s \in Seq(S), NEW n \in 0..Len(s), SubSeq(s, 1, n) # <<>>
  PROVE  s # <<>> /\ SubSeq(s, 1, n)[1] = s[1]
<1>1. Len(s) \in Nat /\ n # 0
  BY LenProperties, SubSeqEmpty
<1>2. \A i \in 1..n : s[i] \in S
  BY <1>1, ElementOfSeq
<1>3. SubSeq(s, 1, n)[1] = s[1]
  <2>1. \A i \in 1..(n - 1 + 1) : SubSeq(s, 1, n)[i] = s[1 + i - 1]
    BY <1>1, <1>2, SubSeqProperties
  <2> QED  BY <1>1, <2>1
<1>4. s # <<>>
  BY <1>1
<1> QED  BY <1>3, <1>4

LEMMA BreakTimes ==
  ASSUME SInv, Break
  PROVE  TimesInv' /\ SleepInv' /\ LimitInv'
<1>1. /\ UNCHANGED <<pc, ops, attempt, sleep, slept, buckets, routeBuckets, resp, left, reset, told, named>>
      /\ up' = 0 /\ \E n \in 0..Len(down) : down' = SubSeq(down, 1, n)
  BY DEF Break, callVars, limitVars, serverVars, historyVars
<1>2. pc = "head" => down \in Seq({down[1], down[2]})
  <2>1. \A x, y : <<>> \in Seq({x, y}) /\ <<x>> \in Seq({x, y}) /\ <<x, y>> \in Seq({x, y})
    OBVIOUS
  <2> QED  BY <2>1 DEF SInv, IInv, PipeInv
<1>3. Answered' => Answered /\ Heading' = Heading
  <2>1. CASE pc = "head"
    <3>1. down' # <<>> => down # <<>> /\ down'[1] = down[1]
      BY <1>1, <1>2, <2>1, FirstKept
    <3> QED  BY <1>1, <2>1, <3>1 DEF Answered, Heading
  <2>2. CASE pc # "head"
    BY <1>1, <2>2 DEF Answered, Heading
  <2> QED  BY <2>1, <2>2
<1>4. SleepInv'
  BY <1>1 DEF SInv, SleepInv
<1>5. LimitInv'
  <2>1. CASE Answered'
    BY <1>1, <1>3, <2>1, LimitsKept
  <2>2. CASE ~Answered' /\ pc = "head"
    <3>1. pc' = "head" /\ up' = 0 /\ down' = <<>>
      BY <1>1, <2>2 DEF Answered
    <3> QED  BY <1>1, <1>3, <3>1, LimitsKept
  <2>3. CASE ~Answered' /\ pc # "head"
    <3>1. pc \notin {"head", "body"}
      BY <1>1, <2>3 DEF Answered
    <3>2. \A l \in Limits : told[l] # "coming"
      BY <3>1, Quiet
    <3> QED  BY <1>1, <1>3, <3>2, LimitsKept
  <2> QED  BY <2>1, <2>2, <2>3
<1> QED  BY <1>1, <1>3, <1>4, <1>5, TimesKept DEF SInv

LEMMA StrayTimes ==
  ASSUME SInv, StrayArrives
  PROVE  TimesInv' /\ SleepInv' /\ LimitInv'
<1>1. /\ UNCHANGED <<pc, ops, attempt, sleep, slept, buckets, routeBuckets, resp, up, down, named>>
  BY DEF StrayArrives, callVars, limitVars, linkVars
<1>2. Answered' = Answered /\ Heading' = Heading
  BY <1>1 DEF Answered, Heading
<1>3. SleepInv'
  BY <1>1 DEF SInv, SleepInv
<1>4. CASE UNCHANGED <<left, reset, told>>
  <2>1. TimesInv'
    BY <1>1, <1>2, <1>4, TimesKept DEF SInv
  <2>2. \/ Answered' /\ Answered
        \/ pc' = "head" /\ up' = 0 /\ down' = <<>>
        \/ \A l \in Limits : told[l] # "coming"
    BY <1>1, <1>2 DEF SInv, LimitInv
  <2>3. LimitInv'
    BY <1>1, <1>2, <1>4, <2>2, LimitsKept
  <2> QED  BY <1>3, <2>1, <2>3
<1>5. CASE \E c \in stray, window \in Windows : /\ Spend(LimitOf[ops[c]], window)
                                               /\ told' = [told EXCEPT ![LimitOf[ops[c]]] = "no"]
  <2>1. PICK c \in stray, window \in Windows : /\ Spend(LimitOf[ops[c]], window)
                                               /\ told' = [told EXCEPT ![LimitOf[ops[c]]] = "no"]
    BY <1>5
  <2> DEFINE o == LimitOf[ops[c]]
  <2>2. reset' \in [Limits -> Nat] /\ \A l \in Limits : l # o => reset'[l] = reset[l]
    BY <2>1, HttpAssumption DEF Spend, SInv, TimesInv, HttpAssumption
  <2>3. \A l \in Limits : l # o => left'[l] = left[l] /\ told'[l] = told[l]
    BY <2>1 DEF Spend, SInv, TableInv
  <2>4. \A l \in Limits : l = o => told'[l] = "no"
    BY <2>1 DEF SInv, TableInv
  <2>5. op' = op /\ calls' = calls
    BY <1>1 DEF op, calls
  <2>6. TimesInv'
    BY <1>1, <1>2, <2>2, <2>5 DEF SInv, TimesInv
  <2>7. LimitInv'
    <3>1. pc # "idle" /\ Empty' => Empty /\ reset'[LimitOf[op]] = reset[LimitOf[op]]
      <4> SUFFICES ASSUME pc # "idle", Empty'
                   PROVE  Empty /\ reset'[LimitOf[op]] = reset[LimitOf[op]]
        OBVIOUS
      <4>1. LimitOf[op] \in Limits /\ LimitOf[op] # o
        BY <2>4, <2>5, OpIs DEF Empty, SInv
      <4> QED  BY <1>1, <2>2, <2>3, <2>5, <4>1 DEF Empty
    <3>2. \A l \in Limits : told'[l] \in {"yes", "coming"} =>
             told'[l] = told[l] /\ left'[l] = left[l] /\ reset'[l] = reset[l]
      BY <2>2, <2>3, <2>4
    <3>3. Answered' /\ Heading'.headers = "all" => told'[LimitOf[op']] # "yes"
      <4> SUFFICES ASSUME Answered', Heading'.headers = "all", told'[LimitOf[op]] = "yes"
                   PROVE  FALSE
        BY <2>5
      <4>1. LimitOf[op] \in Limits /\ told[LimitOf[op]] # "yes"
        BY <1>2, OpIs DEF Answered, SInv, LimitInv
      <4> QED  BY <3>2, <4>1
    <3>4. \A l \in Limits : told'[l] = "yes" =>
            buckets'[BucketOf[l]].remaining = left'[l] /\ reset'[l] <= buckets'[BucketOf[l]].resetsIn
      BY <1>1, <3>2 DEF SInv, LimitInv
    <3>5. \A l \in Limits : told'[l] = "coming" =>
            /\ l = LimitOf[op']
            /\ \/ /\ Answered' /\ Heading'.headers = "all" /\ Heading'.remaining = left'[l]
                  /\ reset'[l] <= Heading'.resetAfter
               \/ pc' = "head" /\ up' = 0 /\ down' = <<>>
      BY <1>1, <1>2, <2>5, <3>2 DEF SInv, LimitInv
    <3>6. pc' = "hold" /\ Empty' => reset'[LimitOf[op']] <= sleep'
      BY <1>1, <2>5, <3>1 DEF SInv, LimitInv
    <3>7. pc' = "take" => ~Spent'
      BY <1>1, <2>5, <3>1 DEF SInv, LimitInv, Spent
    <3> QED  BY <3>3, <3>4, <3>5, <3>6, <3>7 DEF LimitInv
  <2> QED  BY <1>3, <2>6, <2>7
<1> QED  BY <1>4, <1>5 DEF StrayArrives

(* Time passes for all timers alike.                                       *)
LEMMA TickTimes ==
  ASSUME SInv, Tick
  PROVE  TimesInv' /\ SleepInv' /\ LimitInv'
<1>1. /\ UNCHANGED <<pc, ops, attempt, resp, routeBuckets, up, down, named>>
      /\ sleep' = Less(sleep)
      /\ slept' = IF pc \in {"hold", "backoff"} THEN AtMost(slept + 1, SleepLimit + 1) ELSE slept
      /\ reset' = [l \in Limits |-> Less(reset[l])]
      /\ buckets' = [b \in Buckets |-> [buckets[b] EXCEPT !.resetsIn = Less(@)]]
      /\ left' = [l \in Limits |-> IF reset'[l] = 0 THEN Limit ELSE left[l]]
      /\ told' = [l \in Limits |-> IF reset'[l] = 0 THEN "no" ELSE told[l]]
      /\ pc \in {"idle", "head", "body"} \/ (pc \in {"hold", "backoff"} /\ sleep > 0)
  BY DEF Tick, linkVars
<1>2. Answered' = Answered /\ Heading' = Heading /\ op' = op
  BY <1>1 DEF Answered, Heading, op, calls
<1>3. \A n \in Nat : Less(n) \in Nat /\ Less(n) <= n /\ (n > 0 => Less(n) = n - 1)
  BY DEF Less, AtLeast
<1>4. \A m, n \in Nat : m <= n => Less(m) <= Less(n)
  BY DEF Less, AtLeast
<1>5. sleep \in Nat /\ slept \in Nat /\ attempt \in Nat /\ SleepLimit \in Nat
  BY Allowances DEF SInv, TimesInv
<1>6. ASSUME NEW b \in Buckets
      PROVE  /\ buckets[b].resetsIn \in Nat
             /\ buckets'[b] = [remaining |-> buckets[b].remaining, resetsIn |-> Less(buckets[b].resetsIn)]
  <2>1. /\ buckets[b].resetsIn \in Nat
        /\ buckets[b] = [remaining |-> buckets[b].remaining, resetsIn |-> buckets[b].resetsIn]
    BY DEF SInv, TimesInv
  <2>2. buckets'[b] = [buckets[b] EXCEPT !.resetsIn = Less(buckets[b].resetsIn)]
    BY <1>1
  <2>3. \A r, s, t : [[remaining |-> r, resetsIn |-> s] EXCEPT !.resetsIn = t] = [remaining |-> r, resetsIn |-> t]
    OBVIOUS
  <2>4. buckets'[b] = [remaining |-> buckets[b].remaining, resetsIn |-> Less(buckets[b].resetsIn)]
    BY <2>1, <2>2, <2>3
  <2> QED  BY <2>1, <2>4
<1>62. ASSUME NEW l \in Limits
       PROVE  reset[l] \in Nat /\ reset'[l] = Less(reset[l]) /\ BucketOf[l] \in Buckets
  BY <1>1, HttpAssumption DEF SInv, TimesInv, HttpAssumption
<1> DEFINE IsState(x, m, n) == x = [remaining |-> m, resetsIn |-> n]
<1>60. \A x, m, n : IsState(x, m, n) => x.remaining = m /\ x.resetsIn = n /\ IsState(x, x.remaining, x.resetsIn)
  OBVIOUS
<1>61. ASSUME NEW b \in Buckets
       PROVE  /\ IsState(buckets'[b], buckets'[b].remaining, buckets'[b].resetsIn)
              /\ buckets'[b].remaining = buckets[b].remaining
              /\ buckets'[b].resetsIn = Less(buckets[b].resetsIn)
  <2>1. IsState(buckets'[b], buckets[b].remaining, Less(buckets[b].resetsIn))
    BY <1>6
  <2> HIDE DEF IsState
  <2> QED  BY <2>1, <1>60
<1>7. sleep' \in Nat /\ slept' \in Nat
  BY <1>1, <1>3, <1>5 DEF AtMost
<1>8. TimesInv'
  <2>1. reset' \in [Limits -> Nat]
    BY <1>1, <1>3, <1>62
  <2>2. \A b \in Buckets : /\ buckets'[b] = [remaining |-> buckets'[b].remaining, resetsIn |-> buckets'[b].resetsIn]
                           /\ buckets'[b].resetsIn \in Nat
    BY <1>3, <1>6, <1>61
  <2> QED  BY <1>1, <1>2, <1>7, <2>1, <2>2 DEF SInv, TimesInv
<1>9. SleepInv'
  <2>1. CASE pc \in {"hold", "backoff"}
    <3>1. sleep' = sleep - 1 /\ slept' <= slept + 1
      BY <1>1, <1>3, <1>5, <2>1 DEF AtMost
    <3>2. slept' + sleep' <= slept + sleep
      <4>1. \A x, y, z \in Nat : x <= y + 1 => x + (z - 1) <= y + z
        OBVIOUS
      <4> QED  BY <1>5, <1>7, <3>1, <4>1
    <3>3. Allowance(attempt) \in Nat /\ MaxPreemptiveWait \in Nat
      BY <1>5, Allowances
    <3> QED  BY <1>1, <1>5, <1>7, <2>1, <3>2, <3>3 DEF SInv, SleepInv
  <2>2. CASE pc \notin {"hold", "backoff"}
    BY <1>1, <2>2 DEF SInv, SleepInv
  <2> QED  BY <2>1, <2>2
<1>10. LimitInv'
  <2>1. \A l \in Limits : told'[l] # "no" => told'[l] = told[l] /\ left'[l] = left[l]
    BY <1>1
  <2>2. ASSUME NEW l \in Limits, told'[l] = "yes"
        PROVE  buckets'[BucketOf[l]].remaining = left'[l] /\ reset'[l] <= buckets'[BucketOf[l]].resetsIn
    <3> DEFINE b == BucketOf[l]
    <3>1. buckets[b].remaining = left[l] /\ reset[l] <= buckets[b].resetsIn /\ left'[l] = left[l]
      BY <2>1, <2>2 DEF SInv, LimitInv
    <3>2. b \in Buckets
      BY <1>62
    <3>3. buckets'[b].remaining = buckets[b].remaining /\ buckets'[b].resetsIn = Less(buckets[b].resetsIn)
          /\ buckets[b].resetsIn \in Nat
      BY <1>6, <1>61, <3>2
    <3>4. Less(reset[l]) <= Less(buckets[b].resetsIn)
      BY <1>4, <1>62, <3>1, <3>3
    <3> QED  BY <1>62, <3>1, <3>3, <3>4
  <2>3. ASSUME NEW l \in Limits, told'[l] = "coming"
        PROVE  /\ l = LimitOf[op']
               /\ \/ /\ Answered' /\ Heading'.headers = "all" /\ Heading'.remaining = left'[l]
                     /\ reset'[l] <= Heading'.resetAfter
                  \/ pc' = "head" /\ up' = 0 /\ down' = <<>>
    <3>1. told[l] = "coming" /\ left'[l] = left[l]
      BY <2>1, <2>3
    <3>2. reset'[l] <= reset[l] /\ reset[l] \in Nat /\ reset'[l] \in Nat
      BY <1>3, <1>62
    <3>3. Answered => Heading.resetAfter \in Nat
      BY DEF SInv, TimesInv
    <3> QED  BY <1>1, <1>2, <3>1, <3>2, <3>3 DEF SInv, LimitInv
  <2>4. ASSUME pc # "idle"
        PROVE  LimitOf[op] \in Limits
    BY <2>4, OpIs DEF SInv
  <2>5. Answered' /\ Heading'.headers = "all" => told'[LimitOf[op']] # "yes"
    <3>1. Answered => pc # "idle"
      BY DEF Answered
    <3> QED  BY <1>1, <1>2, <2>4, <3>1 DEF SInv, LimitInv
  <2>6. pc = "hold" /\ Empty' => reset'[LimitOf[op]] <= sleep'
    <3> SUFFICES ASSUME pc = "hold", Empty'
                 PROVE  reset'[LimitOf[op]] <= sleep'
      OBVIOUS
    <3> DEFINE l == LimitOf[op]
    <3>1. l \in Limits
      BY <2>4
    <3>2. reset'[l] > 0 /\ told'[l] = "yes" /\ left'[l] = 0 /\ named[RouteKey(op)] = BucketOf[l]
      BY <1>1, <1>2 DEF Empty
    <3>3. told[l] = "yes" /\ left[l] = 0 /\ reset[l] > 0
      <4>1. reset'[l] <= reset[l] /\ reset[l] \in Nat /\ reset'[l] \in Nat
        BY <1>3, <1>62, <3>1
      <4>2. told[l] = "yes" /\ left[l] = 0
        BY <2>1, <3>1, <3>2
      <4> QED  BY <3>2, <4>1, <4>2
    <3>4. reset[l] <= sleep
      BY <3>2, <3>3 DEF Empty, SInv, LimitInv
    <3> QED  BY <1>1, <1>4, <1>5, <1>62, <3>1, <3>4
  <2>7. pc # "take"
    BY <1>1
  <2> QED  BY <1>1, <1>2, <2>2, <2>3, <2>5, <2>6, <2>7 DEF LimitInv
<1> QED  BY <1>8, <1>9, <1>10

LEMMA InitTimes == Init => SInv
<1> SUFFICES ASSUME Init
             PROVE  TimesInv /\ SleepInv /\ LimitInv
  BY InitEstablishes DEF SInv, Init, TableInv
<1>1. ~Answered /\ pc = "idle"
  BY DEF Init, Answered
<1>2. TimesInv
  BY <1>1 DEF Init, TimesInv
<1> QED  BY <1>1, <1>2, Allowances DEF Init, SleepInv, LimitInv

LEMMA TimesInvariance == SInv /\ [Next]_vars => SInv'
<1> SUFFICES ASSUME SInv, [Next]_vars
             PROVE  TimesInv' /\ SleepInv' /\ LimitInv'
  BY Invariance, Tables DEF SInv
<1>1. CASE Call \/ PreemptiveWait \/ WakeUp
  BY <1>1, CallTimes, WaitTimes, WakeTimes
<1>2. CASE TakeConn \/ TakeCached \/ Write \/ ConnectFails
  BY <1>2, SendTimes, ConnectFailsTimes
<1>3. CASE ReadHead \/ ReadBody \/ ReadFails \/ Timeout
  BY <1>3, HeadTimes, BodyTimes, SendFailsTimes
<1>4. CASE Answer \/ TooMany \/ Break \/ StrayArrives \/ Tick
  BY <1>4, AnswerTimes, TooManyTimes, BreakTimes, StrayTimes, TickTimes
<1>5. CASE UNCHANGED vars
  <2>1. /\ UNCHANGED <<pc, ops, attempt, sleep, slept, buckets, routeBuckets, resp, up, down, left, reset, told, named>>
    BY <1>5 DEF vars, callVars, limitVars, linkVars, serverVars, historyVars
  <2>2. Answered' = Answered /\ Heading' = Heading /\ op' = op /\ Spent' = Spent /\ Empty' = Empty
    BY <2>1 DEF Answered, Heading, Spent, Empty, op, calls
  <2> QED  BY <2>1, <2>2 DEF SInv, TimesInv, SleepInv, LimitInv
<1> QED  BY <1>1, <1>2, <1>3, <1>4, <1>5 DEF Next, Client, Outside

\* No call sleeps longer than its attempts allow, whatever the server asks for: the cap of
\* preemptive_wait and the clamp of Retry-After, for every number of attempts and every bound.
THEOREM SleepEnds == Spec => []SleepIsBounded
<1>1. SInv => SleepIsBounded
  <2> SUFFICES ASSUME SInv
               PROVE  slept <= SleepLimit
    BY DEF SleepIsBounded
  <2>1. pc \in Pcs
    BY DEF SInv, IInv, CallsInv, Pcs
  <2>2. slept \in Nat /\ sleep \in Nat /\ attempt \in Nat
    BY DEF SInv, TimesInv
  <2>3. pc # "idle" => /\ slept <= Allowance(attempt) + MaxPreemptiveWait
                       /\ Allowance(attempt) + MaxPreemptiveWait <= SleepLimit
                       /\ Allowance(attempt) \in Nat
    <3>1. pc # "idle" => attempt < MaxAttempts
      BY DEF SInv, SleepInv
    <3>2. Allowance(attempt) \in Nat /\ MaxPreemptiveWait \in Nat
      BY <2>2, Allowances
    <3>3. pc # "idle" => slept <= Allowance(attempt) + MaxPreemptiveWait
      BY <2>1, <2>2, <3>2 DEF SInv, SleepInv, Pcs
    <3> QED  BY <2>2, <3>1, <3>2, <3>3, Allowances
  <2> QED  BY <2>2, <2>3, Allowances DEF SInv, SleepInv
<1> QED  BY <1>1, InitTimes, TimesInvariance, PTL DEF Spec

\* No request goes into a limit the client was told is exhausted, if the end of its window is near
\* enough to wait for, as long as the client can tell: whatever the limits are, whatever the server
\* calls them, and whatever requests of other channels and endpoints came between.
THEOREM LimitsAreKept == Spec => LimitIsKept
<1>1. SInv /\ [Next]_vars => [pc = "take" /\ pc' = "write" =>
                               LET l == LimitOf[op]
                               IN ~ (/\ told[l] = "yes" /\ named[RouteKey(op)] = BucketOf[l]
                                     /\ left[l] = 0 /\ reset[l] > 0
                                     /\ buckets[BucketOf[l]].resetsIn <= MaxPreemptiveWait)]_vars
  BY DEF SInv, LimitInv, Spent, Empty
<1> QED  BY <1>1, InitTimes, TimesInvariance, PTL DEF Spec, LimitIsKept
=============================================================================
