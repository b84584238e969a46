----------------------------- MODULE HttpClient -----------------------------
(***************************************************************************)
(* The REST client (crates/kamekichi-discord/src/http_api): one cached     *)
(* keep-alive connection, one fresh connection after an I/O error,         *)
(* retries, and the rate-limit buckets learned from the responses; against *)
(* a server that counts requests per bucket, closes connections, answers   *)
(* late or uselessly, and may carry out a request whose connection is gone.*)
(*                                                                         *)
(* Calls come one after the other from the bot's only thread. Time is      *)
(* counted in ticks; timers hold the ticks they have left.                 *)
(***************************************************************************)
EXTENDS Integers, Sequences

CONSTANTS
  Ops,               \* the requests: an endpoint of HttpApi, at a channel or a server
  Limits, LimitOf,   \* the server's rate limits, and the one a request counts in
  Buckets, BucketOf, \* X-RateLimit-Bucket: what the server calls each of them
  Limit, Windows,    \* requests per window, and how long a window may last
  MaxAttempts,       \* MAX_ATTEMPTS
  MaxPreemptiveWait, \* MAX_PREEMPTIVE_WAIT
  MaxRetryWait,      \* the clamp of Retry-After
  MaxCalls, Plans,   \* bounds: how many calls, and in which orders
  MaxFaults          \* bound: failures of the network or the server

Method == [send_message |-> "POST", edit_message |-> "PATCH", add_reaction |-> "PUT",
           add_role |-> "PUT", remove_role |-> "DELETE", get_gateway_url |-> "GET"]

ASSUME HttpAssumption ==
  /\ \A o \in Ops : o.endpoint \in DOMAIN Method
  /\ LimitOf \in [Ops -> Limits]
  /\ "none" \notin Buckets /\ BucketOf \in [Limits -> Buckets]
  /\ Limit \in Nat \ {0} /\ Windows \subseteq Nat \ {0} /\ MaxAttempts \in Nat \ {0, 1}
  /\ MaxPreemptiveWait \in Nat /\ MaxRetryWait \in Nat
  /\ MaxCalls \in Nat /\ Plans \subseteq Seq(Ops) /\ MaxFaults \in Nat

VARIABLES
  pc,       \* "idle", "wait", "hold", "take", "write", "head", "body", "again", "backoff"
  ops,      \* the request of each call so far
  attempt,  \* request: attempts that were answered
  second,   \* request_once: on its fresh connection
  sleep,    \* ticks left in "hold" (preemptive_wait) and "backoff"
  cached,   \* Client::conn is Some
  resp,     \* the head of the response being read, else NoResp
  result,   \* what the last call returned
  routeBuckets, \* Client::route_buckets: the bucket of a route key, NoBucket if unknown
  buckets,  \* Client::buckets: [remaining, resetsIn]
  link,     \* the only connection there is: "none", "open", or "dead" at the server's end
  up,       \* the call whose request is on its way, 0 for none
  down,     \* heads and bodies on their way to the client
  stray,    \* calls whose request a connection the client dropped may still deliver
  left, reset, \* per limit: requests left in the window, ticks until it ends
  faults,
  done,     \* history: how often the server carried out each call
  slept,    \* history: ticks this call has slept
  cost,     \* history: the faults it takes to explain the I/O errors returned
  told,     \* history, per limit: "yes" when the client has read its present numbers,
            \* "hidden" when it has read those of another limit of the same bucket since
  named     \* history: the bucket that was read last for a route key

callVars   == <<ops, attempt, second, sleep, slept>>
limitVars  == <<routeBuckets, buckets>>
linkVars   == <<link, up, down>>
serverVars == <<left, reset, done>>
endVars    == <<result, cost>>
historyVars == <<told, named>>
vars == <<pc, callVars, cached, resp, limitVars, linkVars, stray, serverVars, endVars, faults, historyVars>>

calls == Len(ops)
op    == ops[calls]
NoBucket == "none"

(* route_key: the method and the path with ":id" for every id in it.       *)
RouteKey(o) == o.endpoint
Keys == {RouteKey(o) : o \in Ops}

NoResp == [part |-> "none", status |-> "ok", framing |-> "framed", close |-> FALSE, sane |-> TRUE,
           headers |-> "none", bucket |-> NoBucket, remaining |-> 0, resetAfter |-> 0, retryAfter |-> 0]

AtMost(a, b) == IF a < b THEN a ELSE b
AtLeast(a, b) == IF a > b THEN a ELSE b
Less(n) == AtLeast(n - 1, 0)
Fault == faults < MaxFaults /\ faults' = faults + 1

(* Mutant of IsIdempotent: PATCH and POST are taken for harmless.          *)
AllIdempotent(o) == Method[o.endpoint] # "none"
IsIdempotent(o) == Method[o.endpoint] \in {"GET", "PUT", "DELETE"}

\* These two parse the body; the others look at the status only.
ReadsBody(o) == o.endpoint \in {"send_message", "get_gateway_url"}

\* (1u64 << attempt).min(8)
Doubled(a) == IF a < 3 THEN 2^a ELSE 8

\* The longest a call may sleep: before every attempt and between them.
SleepLimit == MaxAttempts * MaxPreemptiveWait
              + (MaxAttempts - 1) * AtLeast(MaxRetryWait, Doubled(MaxAttempts - 2))

Init ==
  /\ pc = "idle" /\ ops = <<>> /\ attempt = 0 /\ second = FALSE /\ sleep = 0
  /\ cached = FALSE /\ resp = NoResp /\ result = "none"
  /\ routeBuckets = [k \in Keys |-> NoBucket]
  /\ buckets = [b \in Buckets |-> [remaining |-> Limit, resetsIn |-> 0]]
  /\ link = "none" /\ up = 0 /\ down = <<>> /\ stray = {}
  /\ left = [l \in Limits |-> Limit] /\ reset = [l \in Limits |-> 0]
  /\ faults = 0 /\ done = [c \in 1..MaxCalls |-> 0]
  /\ slept = 0 /\ cost = 0
  /\ told = [l \in Limits |-> "no"] /\ named = [k \in Keys |-> NoBucket]

-----------------------------------------------------------------------------
(* The calling thread: Client::request.                                    *)
Call ==
  /\ pc = "idle" /\ calls < MaxCalls
  /\ \E plan \in Plans : /\ calls < Len(plan) /\ ops = SubSeq(plan, 1, calls)
                         /\ ops' = Append(ops, plan[calls + 1])
  /\ attempt' = 0 /\ slept' = 0 /\ result' = "none"
  /\ pc' = "wait"
  /\ UNCHANGED <<second, sleep, cached, resp, limitVars, linkVars, stray, serverVars, cost, faults, historyVars>>

Known == buckets[routeBuckets[RouteKey(op)]]

(* The bucket that the route key is known to belong to has 0 left.         *)
Exhausted ==
  /\ routeBuckets[RouteKey(op)] # NoBucket
  /\ Known.remaining = 0 /\ Known.resetsIn > 0

PreemptiveWait ==
  /\ pc = "wait"
  /\ second' = FALSE
  /\ IF Exhausted /\ Known.resetsIn <= MaxPreemptiveWait
       THEN pc' = "hold" /\ sleep' = Known.resetsIn
       ELSE pc' = "take" /\ UNCHANGED sleep
  /\ UNCHANGED <<ops, attempt, slept, cached, resp, limitVars, linkVars, stray, serverVars,
                 endVars, faults, historyVars>>

WakeUp ==
  /\ pc \in {"hold", "backoff"} /\ sleep = 0
  /\ pc' = IF pc = "hold" THEN "take" ELSE "wait"
  /\ UNCHANGED <<callVars, cached, resp, limitVars, linkVars, stray, serverVars, endVars, faults, historyVars>>

(* An I/O error is returned; with second set, it is not the first.         *)
ReturnError ==
  /\ pc' = "idle" /\ result' = "io_error"
  /\ cost' = cost + IF second THEN 2 ELSE 1

(* request_once: self.conn.take(), or connect(), or connect() once more.   *)
TakeConn ==
  /\ pc = "again" \/ (pc = "take" /\ ~cached)
  /\ link' = "open" /\ up' = 0 /\ down' = <<>>
  /\ pc' = "write"
  /\ UNCHANGED <<callVars, cached, resp, limitVars, stray, serverVars, endVars, faults, historyVars>>

TakeCached ==
  /\ pc = "take" /\ cached
  /\ cached' = FALSE
  /\ pc' = "write"
  /\ UNCHANGED <<callVars, resp, limitVars, linkVars, stray, serverVars, endVars, faults, historyVars>>

ConnectFails ==
  /\ pc = "again" \/ (pc = "take" /\ ~cached)
  /\ Fault
  /\ ReturnError
  /\ UNCHANGED <<callVars, cached, resp, limitVars, linkVars, stray, serverVars, historyVars>>

(* Writing to a dead connection goes unnoticed until the client reads.     *)
Write ==
  /\ pc = "write"
  /\ up' = IF link = "open" THEN calls ELSE 0
  /\ pc' = "head"
  /\ UNCHANGED <<callVars, cached, resp, limitVars, link, down, stray, serverVars, endVars, faults, historyVars>>

(* Mutant of LoseStream: the stream goes back into the cache.              *)
LoseStreamKept ==
  /\ cached' = TRUE
  /\ UNCHANGED <<linkVars, stray, historyVars>>

(* drop(stream): what it carried is lost to the client, but a request under *)
(* way may still reach the server.                                          *)
LoseStream ==
  /\ link' = "none" /\ up' = 0 /\ down' = <<>>
  /\ stray' = IF up = 0 THEN stray ELSE stray \cup {up}
  /\ told' = [l \in Limits |-> IF told[l] = "coming" THEN "no" ELSE told[l]]
  /\ UNCHANGED <<cached, named>>

(* An error of send_and_read: idempotent requests are sent once more.      *)
SendFails ==
  /\ LoseStream
  /\ IF IsIdempotent(op) /\ ~second
       THEN pc' = "again" /\ second' = TRUE /\ UNCHANGED endVars
       ELSE ReturnError /\ UNCHANGED second
  /\ resp' = NoResp
  /\ UNCHANGED <<ops, attempt, sleep, slept, limitVars, serverVars>>

Timeout ==
  /\ pc \in {"head", "body"} /\ link = "open" /\ down = <<>>
  /\ pc = "body" => resp.framing # "none"
  /\ Fault
  /\ SendFails

ReadHead ==
  /\ pc = "head" /\ down # <<>> /\ Head(down).part = "head"
  /\ resp' = Head(down) /\ down' = Tail(down)
  /\ pc' = "body"
  /\ UNCHANGED <<callVars, cached, limitVars, link, up, stray, serverVars, endVars, faults, historyVars>>

(* What cannot be used: the end of the connection before the end of a head *)
(* or a body (of one that ends with the connection, if the end is an I/O   *)
(* error: at a plain end of file ReadBody takes it), BadStatus and         *)
(* HeadersTooLarge, ResponseTooLarge, MalformedChunk and InvalidUtf8.      *)
ReadFails ==
  /\ \/ pc = "head" /\ down # <<>> /\ Head(down).part = "body"
     \/ pc \in {"head", "body"} /\ down = <<>> /\ link = "dead"
        /\ (pc = "body" => resp.framing # "none")
     \/ pc = "body" /\ down # <<>> /\ resp.framing # "none" /\ ~Head(down).sane
  /\ SendFails
  /\ UNCHANGED faults

(* Mutant of KeepAlive: "Connection: close" is overlooked.                 *)
KeepAliveAlways(r) == r.framing # "eof"
KeepAlive(r) == r.framing # "eof" /\ ~r.close

(* Mutant of RecordRateLimit: a bucket's state is recorded only once.      *)
RecordRateLimitOnce ==
  /\ routeBuckets' = IF resp.headers = "none" THEN routeBuckets
                     ELSE [routeBuckets EXCEPT ![RouteKey(op)] = resp.bucket]
  /\ buckets' = IF resp.headers # "all" \/ routeBuckets[RouteKey(op)] # NoBucket THEN buckets
                ELSE [buckets EXCEPT ![resp.bucket] =
                        [remaining |-> resp.remaining, resetsIn |-> resp.resetAfter]]

(* record_rate_limit: the bucket of the route key, and the state of the    *)
(* bucket if the headers give all of it; those of another channel with the *)
(* same key, or with a bucket of the same name, are overwritten.           *)
RecordRateLimit ==
  /\ routeBuckets' = IF resp.headers = "none" THEN routeBuckets
                     ELSE [routeBuckets EXCEPT ![RouteKey(op)] = resp.bucket]
  /\ buckets' = IF resp.headers # "all" THEN buckets
                ELSE [buckets EXCEPT ![resp.bucket] =
                        [remaining |-> resp.remaining, resetsIn |-> resp.resetAfter]]

(* History: what the response has told of the limit it is about.           *)
Learn ==
  /\ named' = IF resp.headers = "none" THEN named ELSE [named EXCEPT ![RouteKey(op)] = resp.bucket]
  /\ told' = [l \in Limits |->
               CASE resp.headers = "all" /\ told[l] = "coming" -> "yes"
                 [] resp.headers = "all" /\ told[l] = "yes" /\ BucketOf[l] = resp.bucket -> "hidden"
                 [] OTHER -> told[l]]

(* Mutant of RetryWait: Retry-After without its clamp.                     *)
RetryWaitFull(r, a) == IF r.status = "limited" THEN r.retryAfter ELSE Doubled(a)
RetryWait(r, a) ==
  CASE r.status = "error" -> Doubled(a)
    [] r.retryAfter = 0   -> AtMost(1, MaxRetryWait)
    [] OTHER              -> AtMost(r.retryAfter, MaxRetryWait)

MayRetry(r) == r.status = "limited" \/ (r.status = "error" /\ IsIdempotent(op))

(* A response was read: the connection is kept or dropped, the limits are  *)
(* recorded, and the call goes on to its next attempt or returns.          *)
Respond(whole, rest) ==
  /\ cached' = KeepAlive(resp)
  /\ link' = IF KeepAlive(resp) THEN link ELSE "none"
  /\ down' = IF KeepAlive(resp) THEN rest ELSE <<>>
  /\ RecordRateLimit
  /\ Learn
  /\ IF MayRetry(resp)
       THEN /\ attempt' = attempt + 1
            /\ IF attempt + 1 < MaxAttempts
                 THEN pc' = "backoff" /\ sleep' = RetryWait(resp, attempt) /\ UNCHANGED endVars
                 ELSE pc' = "idle" /\ result' = "exhausted" /\ UNCHANGED <<sleep, cost>>
       ELSE /\ pc' = "idle"
            /\ IF resp.status = "ok" /\ ReadsBody(op) /\ ~whole
                 THEN result' = "bad_body" /\ cost' = cost + 1
                 ELSE result' = resp.status /\ UNCHANGED cost
            /\ UNCHANGED <<attempt, sleep>>
  /\ resp' = NoResp
  /\ UNCHANGED <<ops, second, slept, up, stray, serverVars, faults>>

(* No body; one framed by its length or in chunks; one that ends with the  *)
(* connection, which looks the same when the connection broke before it.   *)
ReadBody ==
  /\ pc = "body"
  /\ \/ resp.framing = "none" /\ Respond(TRUE, down)
     \/ resp.framing # "none" /\ down # <<>> /\ Head(down).sane /\ Respond(TRUE, Tail(down))
     \/ resp.framing = "eof" /\ down = <<>> /\ link = "dead" /\ Respond(FALSE, <<>>)

-----------------------------------------------------------------------------
(* The server and the network.                                             *)
Room(l) == left[l] > 0

(* A request counts in its limit; the first after a window opens another.  *)
Spend(l, window) ==
  /\ left' = [left EXCEPT ![l] = @ - 1]
  /\ reset' = [reset EXCEPT ![l] = IF reset[l] = 0 THEN window ELSE reset[l]]

(* The head of a response, with the rate-limit headers it carries.         *)
HeadOf(status, retryAfter, headers, framing, close) ==
  LET l == LimitOf[op]
  IN [part |-> "head", status |-> status, framing |-> framing, close |-> close, sane |-> TRUE,
      headers |-> headers, retryAfter |-> retryAfter,
      bucket |-> IF headers = "none" THEN NoBucket ELSE BucketOf[l],
      remaining |-> IF headers = "all" THEN left'[l] ELSE 0,
      resetAfter |-> IF headers = "all" THEN reset'[l] ELSE 0]

BodyOf(sane) == [NoResp EXCEPT !.part = "body", !.sane = sane]

(* The response to the request under way, after which a connection that    *)
(* is not kept is closed.                                                  *)
Reply(status, retryAfter, headers) ==
  /\ \E close \in BOOLEAN, framing \in {"framed", "none", "eof"}, sane \in BOOLEAN :
       /\ framing = "none" => status = "ok" /\ ~ReadsBody(op)
       /\ framing = "eof" => close
       /\ IF sane THEN UNCHANGED faults ELSE Fault
       /\ down' = down \o <<HeadOf(status, retryAfter, headers, framing, close)>>
                       \o (IF framing = "none" THEN <<>> ELSE <<BodyOf(sane)>>)
       /\ link' = IF close THEN "dead" ELSE link
  /\ up' = 0
  /\ told' = [told EXCEPT ![LimitOf[op]] = IF headers = "all" THEN "coming" ELSE "no"]

(* A request within its limit is carried out, refused (4xx), or ends in a  *)
(* server error (5xx) before or after it was carried out.                  *)
Answer ==
  LET l == LimitOf[op]
  IN /\ up # 0 /\ Room(l)
     /\ \E window \in IF reset[l] = 0 THEN Windows ELSE {0} : Spend(l, window)
     /\ \E status \in {"ok", "refused", "error"}, carriedOut \in BOOLEAN,
           headers \in {"none", "bucket", "all"} :
          /\ status = "ok" => carriedOut
          /\ status = "refused" => ~carriedOut
          /\ done' = IF carriedOut THEN [done EXCEPT ![up] = @ + 1] ELSE done
          /\ Reply(status, 0, headers)
     /\ UNCHANGED <<pc, callVars, cached, resp, limitVars, stray, endVars, named>>

(* 429, for the bucket, or for a limit that no bucket header is about.     *)
TooMany ==
  LET l == LimitOf[op]
  IN /\ up # 0
     /\ UNCHANGED <<left, reset, done>>
     /\ \/ ~Room(l) /\ \E after \in {0, reset[l]} : Reply("limited", after, "all")
        \/ \E after \in Windows : Reply("limited", after, "none")
     /\ UNCHANGED <<pc, callVars, cached, resp, limitVars, stray, endVars, named>>

(* The connection breaks, or the server closes it while it idles: a        *)
(* request and the end of a response may be lost with it.                  *)
Break ==
  /\ link = "open" \/ down # <<>>
  /\ Fault
  /\ link' = "dead"
  /\ \E n \in 0..Len(down) : down' = SubSeq(down, 1, n)
  /\ up' = 0
  /\ stray' \in {stray, IF up = 0 THEN stray ELSE stray \cup {up}}
  /\ UNCHANGED <<pc, callVars, cached, resp, limitVars, serverVars, endVars, historyVars>>

(* A request of a dropped connection is carried out after all, or not.     *)
StrayArrives ==
  /\ \E c \in stray :
       LET l == LimitOf[ops[c]]
       IN /\ stray' = stray \ {c}
          /\ \/ /\ Room(l)
                /\ \E window \in Windows : Spend(l, window)
                /\ done' = [done EXCEPT ![c] = @ + 1]
                /\ told' = [told EXCEPT ![l] = "no"]
             \/ UNCHANGED <<left, reset, done, told>>
  /\ UNCHANGED <<pc, callVars, cached, resp, limitVars, linkVars, endVars, faults, named>>

(* Time passes while the client sleeps, reads or is not in use.            *)
Tick ==
  /\ pc \in {"idle", "head", "body"} \/ (pc \in {"hold", "backoff"} /\ sleep > 0)
  /\ \/ sleep > 0
     \/ \E l \in Limits : reset[l] > 0
     \/ \E b \in Buckets : buckets[b].resetsIn > 0
  /\ sleep' = Less(sleep)
  /\ slept' = IF pc \in {"hold", "backoff"} THEN AtMost(slept + 1, SleepLimit + 1) ELSE slept
  /\ reset' = [l \in Limits |-> Less(reset[l])]
  /\ buckets' = [b \in Buckets |-> [buckets[b] EXCEPT !.resetsIn = Less(@)]]
  /\ left' = [l \in Limits |-> IF reset'[l] = 0 THEN Limit ELSE left[l]]
  /\ told' = [l \in Limits |-> IF reset'[l] = 0 THEN "no" ELSE told[l]]
  /\ UNCHANGED <<pc, ops, attempt, second, cached, resp, routeBuckets, linkVars, stray, done,
                 endVars, faults, named>>

-----------------------------------------------------------------------------
Client == \/ Call \/ PreemptiveWait \/ WakeUp \/ TakeConn \/ TakeCached \/ ConnectFails \/ Write
          \/ ReadHead \/ ReadFails \/ ReadBody
Outside == Timeout \/ Answer \/ TooMany \/ Break \/ StrayArrives \/ Tick

Next == Client \/ Outside

Spec == Init /\ [][Next]_vars

-----------------------------------------------------------------------------
(* A POST or PATCH is carried out once at most, whatever breaks, answers   *)
(* late or is retried: request_once does not send it twice, and request    *)
(* repeats it after a 429 only ("retrying could create duplicates").       *)
AtMostOnce == \A c \in 1..calls : Method[ops[c].endpoint] \in {"POST", "PATCH"} => done[c] <= 1

(* Success is never reported for a call the server has not carried out:    *)
(* no response to an earlier request is taken for the one to this call.    *)
SuccessIsReal == pc = "idle" /\ result = "ok" => done[calls] >= 1

(* Every I/O error returned has its own failures behind it: one for a POST *)
(* or PATCH or a failed first connect, two for what is sent once more. A   *)
(* connection the server announced to close is not used again.             *)
ErrorsCostFaults == cost <= faults

(* The thread, which also sends the heartbeats, sleeps no longer than      *)
(* MAX_PREEMPTIVE_WAIT before each attempt and the clamp between attempts. *)
SleepIsBounded == slept <= SleepLimit

(* No request goes into a limit that the client was told is empty, before  *)
(* its window ends, when the end is near enough to wait for: not after a   *)
(* 429, not after answers to other endpoints and channels, not after       *)
(* errors; as long as the last bucket read for the route key is that of    *)
(* the limit, and the last numbers read for this bucket are the limit's.   *)
LimitIsKept ==
  [][pc = "take" /\ pc' = "write" =>
       LET l == LimitOf[op]
       IN ~ (/\ told[l] = "yes" /\ named[RouteKey(op)] = BucketOf[l]
             /\ left[l] = 0 /\ reset[l] > 0
             /\ buckets[BucketOf[l]].resetsIn <= MaxPreemptiveWait)]_vars

(* "[...] keeping [...] major parameters intact through the bucket ID      *)
(* Discord returns" (route_key): a limit the client was told is empty is   *)
(* not forgotten by what another channel is answered. It does not hold:    *)
(* the route key has one bucket, and a bucket one state, for all channels  *)
(* (LimitForgotten.cfg, all requests to one endpoint).                     *)
Overwritten(l) == told[l] = "hidden" \/ (told[l] = "yes" /\ named[RouteKey(op)] # BucketOf[l])
MajorParametersStay ==
  [][pc = "take" /\ pc' = "write" =>
       LET l == LimitOf[op]
       IN ~ (Overwritten(l) /\ left[l] = 0 /\ reset[l] \in 1..MaxPreemptiveWait)]_vars

(* "Sleep until the known rate-limit bucket resets, if remaining is 0.     *)
(* Caps the wait at MAX_PREEMPTIVE_WAIT": with a bucket known to be empty, *)
(* preemptive_wait sleeps, though not longer than the cap.                 *)
WaitIsCapped == [][pc = "wait" /\ pc' = "take" => ~Exhausted]_vars
=============================================================================
