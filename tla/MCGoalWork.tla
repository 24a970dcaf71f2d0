----------------------------- MODULE MCGoalWork -----------------------------
(* The work on one goal, in four scenarios: claims, heartbeats and          *)
(* releases over a ticking clock; a plan of work items with dependencies;   *)
(* a piece of work from its proposal to its review and the closing of the   *)
(* goal; and commands that put plans, lanes and fan-outs on the board.  A   *)
(* closure policy asks two peers for a contribution.                        *)
EXTENDS GoalCommands

CONSTANTS p1, p2, k1, k2, m1
VARIABLE scenario

root == <<>>
src  == <<"src">>
api  == <<"src", "api">>
docs == <<"docs">>

MCPaths == {root, src, api, docs}

Blank == EventOf("note", p1)
Claim == [Blank EXCEPT !.type = "claim"]

ClaimInputs ==
  { [Claim EXCEPT !.mode = "write", !.paths = {api}, !.workKey = k1],
    [Claim EXCEPT !.mode = "write", !.paths = {src, docs}, !.workKey = k2,
                  !.duplicatePolicy = "allow-parallel"],
    [Claim EXCEPT !.peerId = p2, !.workKey = k1, !.ttl = 1],
    [Claim EXCEPT !.peerId = p2, !.workKey = k1, !.duplicatePolicy = "allow-parallel"],
    [Blank EXCEPT !.type = "heartbeat"],
    [Blank EXCEPT !.type = "heartbeat", !.ttl = 3, !.staleAfter = 1],
    [Blank EXCEPT !.type = "release"] }

Item(key, state, deps) ==
  [Blank EXCEPT !.type = "work-item", !.workKey = key, !.status = state, !.dependsOn = deps]
Vote(peer, verdict) == [Blank EXCEPT !.type = "vote", !.peerId = peer, !.verdict = verdict]
Finding(peer) == [Blank EXCEPT !.type = "finding", !.peerId = peer]
Resolve == [Blank EXCEPT !.type = "resolve"]

PlanInputs ==
  { Item(k1, "open", {{k2}}), Item(k1, "done", {}), Item(k1, "done", {{}}),
    Item(k2, "open", {}), Item(k2, "done", {{k1}}),
    Vote(p2, "pass"), Finding(p1), Finding(p2) }

ClosureInputs ==
  { [Claim EXCEPT !.mode = "write", !.paths = {src}, !.workKey = k1, !.staleAfter = 1],
    [Blank EXCEPT !.type = "release"],
    [Blank EXCEPT !.type = "task", !.taskId = m1, !.workKey = k1, !.status = "running"],
    [Blank EXCEPT !.type = "handoff", !.taskId = m1, !.workKey = k1, !.status = "done"],
    [Blank EXCEPT !.type = "handoff", !.taskId = m1, !.workKey = k1, !.status = "blocked"],
    [Finding(p1) EXCEPT !.workKey = k1],
    [Blank EXCEPT !.type = "proposal", !.workKey = k1],
    EventOf("objection", p1), [EventOf("objection", p1) EXCEPT !.severity = "minor"],
    Resolve, Vote(p2, "pass"), Vote(p2, "fail") }

CommandInputs ==
  { [Claim EXCEPT !.peerId = p2, !.workKey = k1], Item(k1, "done", {}), Resolve,
    Finding(p2), Vote(p2, "pass") }

(* What the commands below put on the board.                                *)
GivenInputs ==
  UNION {ToSet(PlanEvents(peer, lanes)) : peer \in Peers, lanes \in PlanLanes}
  \cup UNION {ToSet(SeedEvents(peer, lanes)) : peer \in Peers, lanes \in SeedLanes}
  \cup UNION {ToSet(FanoutEvents(peer, targets)) : peer \in Peers, targets \in FanoutPeers}

MCInputs == ClaimInputs \cup PlanInputs \cup ClosureInputs \cup CommandInputs \cup GivenInputs

InputsOf == [claims |-> ClaimInputs, plan |-> PlanInputs, closure |-> ClosureInputs,
             commands |-> CommandInputs]

(* Bounds: events of each type in each scenario, and in all; the clock.     *)
LimitOf(scene, type) ==
  CASE type = "note" -> IF scene = "plan" THEN 1 ELSE 0
    [] scene = "claims" -> IF type = "claim" THEN 3 ELSE 1
    [] scene = "plan" -> IF type = "work-item" THEN 3 ELSE 2
    [] scene = "closure" -> IF type \in {"handoff", "vote"} THEN 2 ELSE 1
    [] scene = "commands" -> IF type \in {"work-item", "proposal"} THEN 3
                             ELSE IF type = "task" THEN 2 ELSE 1
EventsIn == [claims |-> 5, plan |-> 6, closure |-> 5, commands |-> 6]
LastTime == [claims |-> 3, plan |-> 0, closure |-> 1, commands |-> 0]

MCBudget == [t \in EventTypes |-> 3]

MCRequirements ==
  { [types |-> {"finding", "claim", "vote"}, verdicts |-> Verdicts, min |-> 1, minDistinctPeers |-> 2] }

MCScoutKey(kind, about) == NoKey
MCLaneKey == [research |-> k1, implementation |-> k2]
MCPlans == {<<"research", "implementation">>}
MCSeeds == {<<"research">>}
MCFanouts == {<<p2>>}

MCInit == CommandInit /\ scenario \in DOMAIN InputsOf
MCNext ==
  /\ CommandNext /\ UNCHANGED scenario
  /\ status = "closed" => scenario = "closure"     \* bound: only there the goal goes on
  /\ scenario = "claims" => status' = "open"
  /\ scenario # "commands" => commands' = 0
  /\ now' <= LastTime[scenario]
  /\ scenario = "closure" /\ now' # now => ActiveClaims # {}     \* bound: time for claims to lapse
  /\ events' # events =>
       /\ Len(events') <= EventsIn[scenario]
       /\ \/ [Last(events') EXCEPT !.at = 0, !.expiresAt = 0, !.ref = NoEvent] \in InputsOf[scenario]
          \/ Last(events').type = "note"
          \/ command' # command
       /\ \A type \in EventTypes :
            Cardinality({i \in DOMAIN events' : events'[i].type = type}) <= LimitOf(scenario, type)
MCSpec == MCInit /\ [][MCNext]_<<commandVars, scenario>>
=============================================================================
