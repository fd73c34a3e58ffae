----------------------------- MODULE MCAgentTurn -----------------------------
(* Instances of AgentTurn for TLC. *)
EXTENDS AgentTurn, TLC

CONSTANTS u1, u2, i1, r1, r2, t1, t2

OneUser == {u1}
TwoUsers == {u1, u2}
OneInter == {i1}
OneResult == {r1}
TwoResults == {r1, r2}
OneTurn == {t1}
TwoTurns == {t1, t2}

Failures == {"hardFailure", "softFailure", "tokenLimit", "timeout", "stall", "loop"}
ChatEvents == Failures \cup {"stop", "jobDone", "manage", "pause", "ask", "report"}
AgentEvents == ChatEvents \cup {"noRequest"}
RareEvents == AllEvents \ {"softFailure", "tokenLimit", "timeout", "stall", "loop"}
=============================================================================
