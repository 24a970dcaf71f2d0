------------------------------- MODULE Missions -------------------------------
(***************************************************************************)
(* The commands that drive the factory: /peer do, which creates a goal or  *)
(* takes up an open one and links a run to it, and /peer factory run,      *)
(* gate, attempt, rework and plan-review (src/extensions/pi-peer/index.ts, *)
(* src/src/peers/command-center.mjs, plan-adversary.mjs).  A command of a  *)
(* session is a sequence of updates of the goal board and appends to the   *)
(* file of runs; each may fail, and the session may be killed between any  *)
(* two, or while it writes.  Meanwhile peers close goals and resolve       *)
(* objections.                                                             *)
(*                                                                         *)
(* Of the board are kept the goals of one objective, the lanes seeded, and *)
(* the unresolved objections of plan reviews, which find one fault or none.*)
(***************************************************************************)
EXTENDS FactoryRuns

CONSTANTS
  Sessions,
  Goals,         \* a plan review has the id of its goal for a run id
  LaneOrder,     \* the lanes seeded, a sequence
  MissionGates,  \* the gates a mission asks for: inferMissionGates, never none
  AttemptNumbers,    \* what the user numbers an attempt, 0 for nothing
  FailureTypes,  \* of the failures the user names
  MaxRecords     \* bound: lines in the file

ASSUME MissionConstants == Goals \subseteq Runs /\ MissionGates \subseteq Gates

VARIABLES
  goal,    \* of each: [st, lanes, items, objections]
  cmd      \* of each session its command: [op, pc, goal, created, auto, record, separator, object]

missionVars == <<file, goal, cmd>>

NoCommand == [op |-> "none", pc |-> "idle", goal |-> NoGoal, created |-> FALSE, auto |-> FALSE,
              record |-> RunRecord("none", NoGoal), separator |-> FALSE, object |-> FALSE]

At(s, pc)   == cmd[s].pc = pc
Go(s, new)  == cmd' = [cmd EXCEPT ![s] = new]
To(s, pc)   == Go(s, [cmd[s] EXCEPT !.pc = pc])
Over(s)     == Go(s, NoCommand)
Room        == Len(file.lines) < MaxRecords
FreshRuns   == {r \in Runs \ Goals : /\ RecordsOf(r) = {}
                                     /\ \A s \in Sessions : cmd[s].record.run # r}
OnlyCmd == UNCHANGED <<file, goal>>

(* Where a command goes on once its run is linked, or could not be. *)
AfterLink(s) ==
  IF cmd[s].op = "mission" /\ cmd[s].created /\ cmd[s].auto THEN To(s, "plan") ELSE Over(s)

-----------------------------------------------------------------------------
(* routePeerMission *)

CallMission(s) ==
  /\ At(s, "idle") /\ Room /\ FreshRuns # {}
  /\ \E auto \in BOOLEAN :
       LET new == [NoCommand EXCEPT !.op = "mission", !.auto = auto]
           open == {g \in Goals : goal[g].st = "open"}
       IN \/ \E g \in open : Go(s, [new EXCEPT !.pc = "lookup", !.goal = g])
          \/ open = {} /\ Go(s, [new EXCEPT !.pc = "create", !.created = TRUE])
  /\ OnlyCmd

CreateGoal(s) ==
  /\ At(s, "create")
  /\ \E g \in Goals :
       /\ goal[g].st = "none"
       /\ goal' = [goal EXCEPT ![g].st = "open"]
       /\ Go(s, [cmd[s] EXCEPT !.pc = "seed", !.goal = g])
  /\ UNCHANGED file

(* seedPeerGoalProposals, and seedAutonomousMissionPlan. *)
SeedNext(s, pc, seeded, then) ==
  /\ At(s, pc)
  /\ LET g == cmd[s].goal
         n == Cardinality(goal[g][seeded]) + 1
     IN /\ goal' = [goal EXCEPT ![g][seeded] = @ \cup {LaneOrder[n]}]
        /\ IF n = Len(LaneOrder) THEN then ELSE UNCHANGED cmd
  /\ UNCHANGED file

SeedProposal(s) == SeedNext(s, "seed", "lanes", To(s, "lookup"))
SeedWorkItem(s) == SeedNext(s, "plan", "items", Over(s))

(* startLinkedFactoryRun: an error of it does not end a mission. *)
LookUpRun(s) ==
  /\ At(s, "lookup")
  /\ LET linked == LinkedRuns("peer-mission", cmd[s].goal) IN
       IF ~Loads \/ linked # {} THEN AfterLink(s)
       ELSE \E r \in FreshRuns, gates \in {MissionGates} \cup (IF cmd[s].op = "run" THEN {{}} ELSE {}) :
              Go(s, [cmd[s] EXCEPT !.pc = "init",
                       !.record = [RunRecord("run-started", r) EXCEPT
                                     !.goal = cmd[s].goal, !.source = "peer-mission", !.gates = gates]])
  /\ OnlyCmd

-----------------------------------------------------------------------------
(* startFactoryRun, of initFactory and an append. *)

Emptied == [there |-> TRUE, lines |-> <<>>, ended |-> TRUE]

StatRuns(s) ==
  /\ At(s, "init")
  /\ To(s, IF file.there THEN "check" ELSE "touch") /\ OnlyCmd

TouchRuns(s) ==
  /\ At(s, "touch")
  /\ file' = Emptied
  /\ To(s, "check") /\ UNCHANGED goal

(* appendFactoryRunRecord: load and refuse, read the end, write. *)
CheckThenSeparate(s) ==      \* as if half a record at the end were no reason to refuse
  /\ At(s, "check")
  /\ IF Loads THEN To(s, "separator") ELSE AfterLink(s)
  /\ OnlyCmd

CheckLedger(s) ==
  /\ At(s, "check")
  /\ IF Loads /\ ~TrailingPartial THEN To(s, "separator") ELSE AfterLink(s)
  /\ OnlyCmd

ReadEnd(s) ==
  /\ At(s, "separator")
  /\ Go(s, [cmd[s] EXCEPT !.pc = "write", !.separator = NeedsSeparator])
  /\ OnlyCmd

WriteRecord(s) ==
  /\ At(s, "write")
  /\ file' = Written(cmd[s].record, cmd[s].separator, "whole")
  /\ IF cmd[s].object THEN To(s, "object") ELSE AfterLink(s)
  /\ UNCHANGED goal

-----------------------------------------------------------------------------
(* handlePeerFactoryCommand: a run of its own or linked like a mission's,  *)
(* the result of a gate, an attempt, a rework.                             *)

CallRun(s) ==
  /\ At(s, "idle") /\ Room
  /\ \E r \in FreshRuns, gates \in {{}, MissionGates} :
       \/ Go(s, [NoCommand EXCEPT !.op = "run", !.pc = "init",
                   !.record = [RunRecord("run-started", r) EXCEPT !.gates = gates]])
       \/ \E g \in Goals : /\ goal[g].st # "none"
                           /\ Go(s, [NoCommand EXCEPT !.op = "run", !.pc = "lookup", !.goal = g])
  /\ OnlyCmd

Noting(s, op, record) ==
  /\ At(s, "idle") /\ Room
  /\ Go(s, [NoCommand EXCEPT !.op = op, !.pc = "check", !.record = record])
  /\ OnlyCmd

StartedRuns == {r \in Runs \ Goals : RecordsOf(r) # {}}

CallGate(s) ==
  \E r \in StartedRuns, g \in Gates, st \in {"pass", "fail", "skip"}, ft \in FailureTypes :
    /\ st # "fail" => ft = "unknown"      \* of a failure only the type counts
    /\ Noting(s, "gate", [RunRecord("gate-result", r) EXCEPT !.gate = g, !.status = st, !.failure = ft])

CallAttempt(s) ==
  \E r \in StartedRuns, n \in AttemptNumbers :
    \/ Noting(s, "attempt", [RunRecord("attempt-started", r) EXCEPT !.attempt = n])
    \/ \E st \in {"completed", "failed"} :
         Noting(s, "attempt", [RunRecord("attempt-completed", r) EXCEPT !.attempt = n, !.status = st])

CallRework(s) ==
  \E r \in StartedRuns, given \in {<<>>} \cup {<<ft>> : ft \in FailureTypes} :
    /\ Loads
    /\ Noting(s, "rework", RunRecord(RecordTypeFor(ReworkDecision(RunOf(r), given)), r))

(* plan-review: an objection for a plan that blocks, unless the goal it    *)
(* loaded has an unresolved one like it.                                   *)
ShouldObject(g, verdict) == verdict = "block" /\ goal[g].objections = 0

PlanStatus(verdict) ==
  CASE verdict = "block" -> "blocked"
    [] verdict = "pass" -> "verified"
    [] verdict = "pass-with-risks" -> "verified-with-risks"

CallPlanReview(s) ==
  /\ At(s, "idle") /\ Room
  /\ \E g \in Goals, verdict \in {"pass", "pass-with-risks", "block"} :
       /\ goal[g].st # "none"
       /\ Go(s, [NoCommand EXCEPT !.op = "plan-review", !.pc = "check", !.goal = g,
                   !.object = ShouldObject(g, verdict),
                   !.record = [RunRecord("plan-review", g) EXCEPT !.goal = g, !.status = PlanStatus(verdict)]])
  /\ OnlyCmd

Object(s) ==
  /\ At(s, "object")
  /\ goal' = [goal EXCEPT ![cmd[s].goal].objections = @ + 1]
  /\ Over(s) /\ UNCHANGED file

-----------------------------------------------------------------------------
(* What a write that does not succeed, or is cut, leaves.                  *)
PartlyWritten(s) ==
  \/ UNCHANGED file
  \/ /\ At(s, "write")
     /\ \E how \in {"half", "unended"} : file' = Written(cmd[s].record, cmd[s].separator, how)

(* A step of startLinkedFactoryRun fails ... *)
RunFails(s) ==
  /\ cmd[s].pc \in {"lookup", "init", "touch", "check", "separator", "write"}
  /\ cmd[s].op = "mission" /\ AfterLink(s)
  /\ PartlyWritten(s) /\ UNCHANGED goal

(* ... another one does, or the session is killed and started again.       *)
CommandEnds(s) ==
  /\ ~At(s, "idle") /\ Over(s)
  /\ PartlyWritten(s) /\ UNCHANGED goal

CloseGoal ==
  /\ \E g \in Goals : goal[g].st = "open" /\ goal' = [goal EXCEPT ![g].st = "closed"]
  /\ UNCHANGED <<file, cmd>>

ResolveObjection ==
  /\ \E g \in Goals : goal[g].objections > 0 /\ goal' = [goal EXCEPT ![g].objections = @ - 1]
  /\ UNCHANGED <<file, cmd>>

-----------------------------------------------------------------------------
MissionInit ==
  /\ file = [there |-> FALSE, lines |-> <<>>, ended |-> TRUE]
  /\ goal = [g \in Goals |-> [st |-> "none", lanes |-> {}, items |-> {}, objections |-> 0]]
  /\ cmd = [s \in Sessions |-> NoCommand]

AppendStep(s) == CheckLedger(s) \/ ReadEnd(s) \/ WriteRecord(s)

MissionStep(s) ==
  \/ CallMission(s) \/ CreateGoal(s) \/ SeedProposal(s) \/ SeedWorkItem(s) \/ LookUpRun(s)
  \/ StatRuns(s) \/ TouchRuns(s) \/ CallPlanReview(s) \/ Object(s) \/ AppendStep(s)
  \/ RunFails(s) \/ CommandEnds(s)

MissionNext == (\E s \in Sessions : MissionStep(s)) \/ CloseGoal \/ ResolveObjection

RunStep(s) ==
  \/ CallRun(s) \/ LookUpRun(s) \/ StatRuns(s) \/ TouchRuns(s)
  \/ CallGate(s) \/ CallAttempt(s) \/ CallRework(s) \/ AppendStep(s)

FactoryNext == MissionNext \/ \E s \in Sessions : RunStep(s)
FactorySpec == MissionInit /\ [][FactoryNext]_missionVars

-----------------------------------------------------------------------------
(* As long as one session at a time appends, then whatever it is killed at  *)
(* the file of runs can be read again: no half record ends up in front of   *)
(* another.  (Nothing but the sessions' number sees to that: the check and  *)
(* the write are not under a lock.)                                         *)
RunsCanBeRead == Loads

MissionStarts(g) ==
  {i \in DOMAIN file.lines : /\ IsRecord(i) /\ file.lines[i].type = "run-started"
                             /\ file.lines[i].source = "peer-mission" /\ file.lines[i].goal = g}

(* However often a mission is interrupted and called again, and whatever     *)
(* has become of its run, a goal has one run from it.                        *)
OneRunPerLink == \A g \in Goals : Cardinality(MissionStarts(g)) <= 1

=============================================================================
