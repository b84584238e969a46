---------------------------- MODULE MCHttpClient ----------------------------
(* A POST to each of two channels, which have a limit each, and a PUT that  *)
(* shares the limit of the first.                                           *)
EXTENDS HttpClient

SendA == [endpoint |-> "send_message", at |-> "a"]
SendB == [endpoint |-> "send_message", at |-> "b"]
RoleA == [endpoint |-> "add_role", at |-> "a"]
MCOps == {SendA, SendB, RoleA}
MCSends == {SendA, SendB}
MCLimits == {"a", "b"}
MCLimitOf == [o \in MCOps |-> o.at]
MCLimitOfSends == [o \in MCSends |-> o.at]
MCPlans == {<<SendA, SendB, SendA>>, <<SendA, RoleA, SendA>>, <<RoleA, SendA>>}
MCTwoChannels == {<<SendA, SendB, SendA>>}

\* Every limit has a bucket of its own, or the name says only which endpoint it is of.
OwnName == [l \in MCLimits |-> l]
OneName == [l \in MCLimits |-> "a"]
=============================================================================
