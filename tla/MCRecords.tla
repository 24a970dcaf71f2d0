------------------------------ MODULE MCRecords ------------------------------
(* What sessions share in files, in five scenarios: the records of a run,  *)
(* the commands of a mission, the records of pull requests, the message    *)
(* store of two sessions, and the descriptors by which sessions find each  *)
(* other.                                                                  *)
EXTENDS Missions, PrShepherd, MessageStore, Presence
CONSTANTS t, o, g1, r1, r2, u1, u2, s1, s2, e1, e2, mail, research, review
CONSTANT MissionRecords      \* bound: records of a mission
VARIABLE scenario

MCLanes == <<research, review>>
MCSteps == <<"fix-directly">>
MCSiteOf == (e1 :> s2) @@ (e2 :> s2)

MCInit == /\ scenario \in {"runs", "mission", "prs", "messages", "presence"}
          /\ MissionInit /\ PrInit /\ StoreInit /\ PresenceInit

(* Of the gates of a mission's run only a failure, which ends the run.      *)
MissionGate(s) == CallGate(s) /\ cmd'[s].record.status = "fail" /\ cmd'[s].record.gate = t

(* Runs, endpoints and refreshes are alike: each is used after the one      *)
(* before it.                                                               *)
InTurn ==
  /\ scenario = "runs" =>
       \A s \in Sessions : cmd'[s].record.run = r2 => r1 \in StartedRuns
  /\ scenario = "presence" =>
       /\ stage'[e2] # "unused" => stage'[e1] # "unused"
       /\ stage'[e2] \notin {"unused", "listening"} => stage'[e1] \notin {"unused", "listening"}
       /\ \A s \in Watchers : ~look[s][2].on /\ look'[s][2].on => look[s][1].on

MCNext ==
  /\ UNCHANGED scenario
  /\ IF scenario \in {"runs", "mission"} THEN TRUE ELSE UNCHANGED missionVars
  /\ IF scenario = "prs" THEN TRUE ELSE UNCHANGED prFile
  /\ IF scenario = "messages" THEN TRUE ELSE UNCHANGED storeVars
  /\ IF scenario = "presence" THEN TRUE ELSE UNCHANGED presenceVars
  /\ \/ scenario = "runs" /\ \E s \in Sessions : RunStep(s)
     \/ scenario = "mission" /\ (MissionNext \/ \E s \in Sessions : MissionGate(s)) /\ Len(file'.lines) <= MissionRecords
     \/ scenario = "prs" /\ PrNext
     \/ scenario = "messages" /\ StoreNext
     \/ scenario = "presence" /\ PresenceNext
  /\ InTurn
MCSpec == MCInit /\ [][MCNext]_<<missionVars, prFile, storeVars, presenceVars, scenario>>
=============================================================================
