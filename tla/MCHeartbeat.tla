----------------------------- MODULE MCHeartbeat -----------------------------
(* Heartbeat with small numbers: a zero interval, two legal ones and one    *)
(* beyond MaxInterval; and how long the clock was not looked at.            *)
EXTENDS Heartbeat

MCHelloIntervals == {0, 2, 4, 5}

\* A server that acknowledges within any interval it names.
ASSUME PromptServer == \A i \in HelloIntervals \ {0} : AckDelay < i

VARIABLES
  unwatched, \* ticks of the caller's work and of stretched reads since no ACK was pending
  wasAway    \* twice as many have once left no room for an ACK within the interval

MCInit == Init /\ unwatched = 0 /\ wasAway = FALSE

MCNext ==
  /\ Next
  /\ unwatched' = IF pc' = "check" /\ ~ackPending' THEN 0
                  ELSE AtMost(unwatched + (IF pc = "caller" THEN busyLeft - busyLeft' ELSE 0)
                                        + AtLeast(stretched' - stretched, 0), MaxInterval)
  /\ wasAway' = (wasAway \/ (unwatched' > 0 /\ 2 * unwatched' + AckDelay > interval))

MCSpec == MCInit /\ [][MCNext]_<<vars, unwatched, wasAway>>

(* As long as the caller comes back, and reads return, soon enough, no     *)
(* OP 1 request and no burst of events gets a connection whose server      *)
(* acknowledges declared dead (backstop_check and heartbeat_check,         *)
(* heartbeat.rs:67-95). Soon enough is when the interval has room for an   *)
(* ACK and two such absences: the backstop counts from the last ACK, so    *)
(* one before the heartbeat is sent and one before its ACK is read add up. *)
PromptCallerKeepsAlive == ~wasAway => NoFalseZombie
=============================================================================
