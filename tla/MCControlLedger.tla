--------------------------- MODULE MCControlLedger ---------------------------
(* What sessions note in the control ledger, in three scenarios that share *)
(* nothing but its code: a dispatch whose session is killed and started    *)
(* again, child processes, and subagent runs.                              *)
EXTENDS SendRecovery, PeerProcesses, Subruns

CONSTANTS lead, w1, k1, d1, x1, p1, p2, child1, child2, c1, c2
VARIABLE scenario

-----------------------------------------------------------------------------
(* The dispatch. *)

MCPaths == {<<"src">>}

Alone == d1 :> [requester |-> lead, target |-> w1, mode |-> "write", paths |-> MCPaths,
                workKey |-> k1, policy |-> "reuse", staleAfter |-> 1]
OneSession == [s \in Dispatches |-> x1]

Nobody   == {}
MCInputs == DispatchInputs

MCBudget == [t \in EventTypes |->
  CASE t \in {"claim", "task", "release", "heartbeat", "objection"} -> 1
    [] t = "handoff" -> 2
    [] OTHER -> 0]

-----------------------------------------------------------------------------
(* The processes and the subagent runs. *)

MCRequests == [c \in {c1, c2} |-> IF c = c1 THEN {p1, p2} ELSE {p1}]
MCCounts == {<<>>, [blocked |-> 1], [done |-> 1, blocked |-> 0]}

-----------------------------------------------------------------------------
mcVars == <<recoveryVars, processVars, subrunVars, scenario>>

MCInit == /\ scenario \in {"dispatch", "processes", "subruns"}
          /\ RecoveryInit /\ ProcessInit /\ SubrunInit

Dispatched == scenario = "dispatch" /\ UNCHANGED <<processVars, subrunVars, scenario>>

MCNext ==
  \/ Dispatched /\ RecoveryNext
  \/ /\ scenario = "processes" /\ ProcessNext
     /\ UNCHANGED <<sendVars, noted, starts, subrunVars, scenario>>
  \/ /\ scenario = "subruns" /\ SubrunNext
     /\ UNCHANGED <<sendVars, noted, starts, processVars, scenario>>

(* The fairness of FairRecoverySpec. *)
MCSpec ==
  /\ MCInit /\ [][MCNext]_mcVars
  /\ \A s \in Dispatches : WF_mcVars(Dispatched /\ Advance(s))
  /\ \A x \in Sessions : WF_mcVars(Dispatched /\ SessionStep(x))
  /\ WF_mcVars(Dispatched /\ Clock /\ SessionsUnmoved)
=============================================================================
