---------------------------- MODULE RecordsProofs ---------------------------
(***************************************************************************)
(* Theorems about the records sessions share in files: the runs of the     *)
(* factory (Missions), the message store (MessageStore), the descriptors   *)
(* by which they find each other (Presence) and the pull requests          *)
(* (PrShepherd), for any number of sessions, runs, messages, endpoints and *)
(* refreshes at a time.  Of the runs: whether their file can be read, what *)
(* a verified run has to show for itself, and how many runs a goal gets.   *)
(***************************************************************************)
EXTENDS Missions, MessageStore, Presence, PrShepherd, SequenceTheorems, FiniteSetTheorems,
        WellFoundedInduction, TLAPS

-----------------------------------------------------------------------------
(***************************************************************************)
(* The file of runs, and the commands that append to it.                   *)
(***************************************************************************)
RecordTypes == {"run-started", "gate-result", "attempt-started", "attempt-completed",
                "plan-review", "human-escalation"} \cup ReworkTypes

(* What commands append. *)
RunRecords ==
  { rec \in [ type : RecordTypes, run : Runs, goal : Goals \cup {NoGoal},
              source : {"", "peer-mission"}, gates : {{}, MissionGates}, gate : Gates \cup {""},
              status : {"", "pass", "fail", "skip", "completed", "failed",
                        "blocked", "verified", "verified-with-risks"},
              attempt : AttemptNumbers \cup {0}, failure : FailureTypes \cup {"unknown"} ] :
    /\ rec.type = "plan-review" <=> rec.run \in Goals
    /\ rec.type = "attempt-completed" => rec.status \in {"completed", "failed"} }

Blank == RunRecord("none", NoGoal)

(* The stages at which a command has a record to append. *)
Carrying == {"init", "touch", "check", "separator", "write"}
Carries(s) == cmd[s].pc \in Carrying
Appending(s) == cmd[s].pc \in {"separator", "write"}

FactoryCommands ==
  [ op : {"none", "mission", "run", "gate", "attempt", "rework", "plan-review"},
    pc : {"idle", "lookup", "create", "seed", "plan", "object"} \cup Carrying,
    goal : Goals \cup {NoGoal}, created : BOOLEAN, auto : BOOLEAN, record : RunRecords \cup {Blank},
    separator : BOOLEAN, object : BOOLEAN ]

FactoryShape ==
  /\ file \in [there : BOOLEAN, lines : Seq(RunRecords \cup {Torn}), ended : BOOLEAN]
  /\ cmd \in [Sessions -> FactoryCommands]
  /\ \A s \in Sessions : Carries(s) => cmd[s].record \in RunRecords

(* A record a command may set out to append. *)
Fresh(rec) ==
  /\ RecordsOf(rec.run) = {}
  /\ \A s \in Sessions : cmd[s].record.run # rec.run
  /\ rec.source = "peer-mission" => LinkedRuns("peer-mission", rec.goal) = {}

MayBegin(rec) ==
  IF rec.type = "run-started" THEN Fresh(rec) ELSE rec.run \in Goals \/ RecordsOf(rec.run) # {}

(* What a step of a session does to its command and the file. *)
Begins(s, new) ==
  /\ new.pc \in {"init", "check"} /\ new.record \in RunRecords /\ MayBegin(new.record) /\ UNCHANGED file

GoesOn(s, new) ==
  /\ Carries(s) /\ new.pc \in Carrying /\ new.record = cmd[s].record /\ UNCHANGED file
  /\ new.pc = "separator" => ~TrailingPartial
  /\ new.pc = "write" => At(s, "separator") /\ new.separator = NeedsSeparator

Empties(s, new) ==
  At(s, "touch") /\ new.pc = "check" /\ new.record = cmd[s].record /\ file' = Emptied

Writes(s, new) ==
  /\ At(s, "write") /\ new.pc \notin Carrying
  /\ \E how \in {"whole", "unended", "half"} : file' = Written(cmd[s].record, cmd[s].separator, how)

Moves(s, new) ==
  /\ new \in FactoryCommands /\ Go(s, new)
  /\ new.pc \notin Carrying => new.record \in {Blank, cmd[s].record}
  /\ \/ new.pc \notin Carrying /\ UNCHANGED file
     \/ Begins(s, new) \/ GoesOn(s, new) \/ Empties(s, new) \/ Writes(s, new)

LEMMA BlankIsNoRecord == Blank.run = NoGoal /\ Blank.type = "none"
BY DEF Blank, RunRecord

LEMMA RecordFields ==
  ASSUME NEW rec \in RunRecords
  PROVE  /\ rec.type \in RecordTypes /\ rec.run \in Runs /\ rec.gates \subseteq Gates
         /\ rec.type = "plan-review" <=> rec.run \in Goals
         /\ rec.type = "attempt-completed" => rec.status \in {"completed", "failed"}
         /\ rec # Torn
<1>1. /\ rec.type \in RecordTypes /\ rec.run \in Runs /\ rec.gates \in {{}, MissionGates}
      /\ rec.type = "plan-review" <=> rec.run \in Goals
      /\ rec.type = "attempt-completed" => rec.status \in {"completed", "failed"}
  BY Zenon DEF RunRecords
<1>2. Torn.type \notin RecordTypes
  BY DEF Torn, RecordTypes, ReworkTypes
<1>3. QED
  BY <1>1, <1>2, MissionConstants

LEMMA NoCommandYet == NoCommand \in FactoryCommands /\ NoCommand.pc = "idle" /\ NoCommand.record = Blank
<1>1. NoCommand = [op |-> "none", pc |-> "idle", goal |-> NoGoal, created |-> FALSE, auto |-> FALSE,
                   record |-> Blank, separator |-> FALSE, object |-> FALSE]
  BY DEF NoCommand, Blank
<1>2. QED
  BY <1>1 DEF FactoryCommands

(* A command that is over, or goes on with the same record. *)
LEMMA NextStage ==
  ASSUME FactoryShape, NEW s \in Sessions
  PROVE  /\ cmd[s] \in FactoryCommands
         /\ \A pc \in {"idle", "lookup", "create", "seed", "plan", "object"} \cup Carrying :
              /\ [cmd[s] EXCEPT !.pc = pc] \in FactoryCommands
              /\ [cmd[s] EXCEPT !.pc = pc].pc = pc
              /\ [cmd[s] EXCEPT !.pc = pc].record = cmd[s].record
         /\ Over(s) \/ AfterLink(s) =>
              \E new \in FactoryCommands : /\ Go(s, new) /\ new.pc \in {"idle", "plan"}
                                           /\ new.record \in {Blank, cmd[s].record}
<1>1. cmd[s] \in FactoryCommands
  BY DEF FactoryShape
<1>2. \A pc \in {"idle", "lookup", "create", "seed", "plan", "object"} \cup Carrying :
        /\ [cmd[s] EXCEPT !.pc = pc] \in FactoryCommands
        /\ [cmd[s] EXCEPT !.pc = pc].pc = pc
        /\ [cmd[s] EXCEPT !.pc = pc].record = cmd[s].record
  BY <1>1 DEF FactoryCommands
<1>3. Over(s) \/ AfterLink(s) =>
        \E new \in FactoryCommands : /\ Go(s, new) /\ new.pc \in {"idle", "plan"}
                                     /\ new.record \in {Blank, cmd[s].record}
  BY <1>2, NoCommandYet DEF Over, AfterLink, To
<1>4. QED
  BY <1>1, <1>2, <1>3

(* Commands that begin. *)
LEMMA NotedMoves ==
  ASSUME NEW s \in Sessions, NEW op, op \in {"gate", "attempt", "rework"},
         NEW r \in StartedRuns, NEW rec \in RunRecords, rec.run = r, rec.type # "run-started",
         Noting(s, op, rec)
  PROVE  \E new : Moves(s, new)
<1> DEFINE new == [NoCommand EXCEPT !.op = op, !.pc = "check", !.record = rec]
<1>1. new \in FactoryCommands /\ new.pc = "check" /\ new.record = rec
  BY NoCommandYet DEF FactoryCommands, Carrying
<1>2. Go(s, new) /\ UNCHANGED file
  BY DEF Noting, OnlyCmd
<1>3. MayBegin(rec)
  BY DEF MayBegin, StartedRuns
<1> HIDE DEF new
<1>4. QED
  BY <1>1, <1>2, <1>3 DEF Moves, Begins, Carrying

LEMMA StartRecord ==
  ASSUME NEW r \in Runs \ Goals, NEW gates \in {{}, MissionGates},
         NEW g \in Goals \cup {NoGoal}, NEW source \in {"", "peer-mission"}
  PROVE  LET rec == [RunRecord("run-started", r) EXCEPT !.goal = g, !.source = source, !.gates = gates]
         IN  /\ rec \in RunRecords /\ rec.type = "run-started" /\ rec.run = r
             /\ rec.source = source /\ rec.goal = g
BY DEF RunRecord, RunRecords, RecordTypes

LEMMA FreeRun ==
  ASSUME NEW s \in Sessions, FactoryShape, CallRun(s)
  PROVE  \E new : Moves(s, new)
<1>1. UNCHANGED file
  BY DEF CallRun, OnlyCmd
<1>2. PICK r \in FreshRuns, gates \in {{}, MissionGates} :
        \/ Go(s, [NoCommand EXCEPT !.op = "run", !.pc = "init",
                    !.record = [RunRecord("run-started", r) EXCEPT !.gates = gates]])
        \/ \E g \in Goals : Go(s, [NoCommand EXCEPT !.op = "run", !.pc = "lookup", !.goal = g])
  BY DEF CallRun
<1> DEFINE rec == [RunRecord("run-started", r) EXCEPT !.gates = gates]
           free == [NoCommand EXCEPT !.op = "run", !.pc = "init", !.record = rec]
           linked(g) == [NoCommand EXCEPT !.op = "run", !.pc = "lookup", !.goal = g]
<1>3. Go(s, free) \/ \E g \in Goals : Go(s, linked(g))
  BY <1>2
<1>4. rec \in RunRecords /\ rec.type = "run-started" /\ rec.run = r /\ rec.source = ""
  BY DEF RunRecord, RunRecords, RecordTypes, FreshRuns
<1>5. MayBegin(rec)
  <2> HIDE DEF rec
  <2>1. QED
    BY <1>4 DEF MayBegin, Fresh, FreshRuns
<1> HIDE DEF rec
<1>6. free \in FactoryCommands /\ free.pc = "init" /\ free.record = rec
  BY <1>4, NoCommandYet DEF FactoryCommands, Carrying
<1>7. \A g \in Goals : linked(g) \in FactoryCommands /\ linked(g).pc = "lookup" /\ linked(g).record = Blank
  BY NoCommandYet DEF FactoryCommands
<1> HIDE DEF free, linked
<1>8. QED
  BY <1>1, <1>3, <1>4, <1>5, <1>6, <1>7 DEF Moves, Begins, Carrying

LEMMA CallsMove ==
  ASSUME FactoryShape, NEW s \in Sessions,
         CallMission(s) \/ CallGate(s) \/ CallAttempt(s) \/ CallRework(s) \/ CallPlanReview(s)
  PROVE  \E new : Moves(s, new)
<1>1. CASE CallMission(s)
  <2> DEFINE looking(auto, g) == [NoCommand EXCEPT !.op = "mission", !.auto = auto, !.pc = "lookup", !.goal = g]
             creating(auto) ==
               [NoCommand EXCEPT !.op = "mission", !.auto = auto, !.pc = "create", !.created = TRUE]
  <2>1. PICK auto \in BOOLEAN : Go(s, creating(auto)) \/ \E g \in Goals : Go(s, looking(auto, g))
    BY <1>1 DEF CallMission
  <2>2. creating(auto) \in FactoryCommands /\ creating(auto).pc = "create" /\ creating(auto).record = Blank
    BY NoCommandYet DEF FactoryCommands
  <2>3. \A g \in Goals : /\ looking(auto, g) \in FactoryCommands
                         /\ looking(auto, g).pc = "lookup" /\ looking(auto, g).record = Blank
    BY NoCommandYet DEF FactoryCommands
  <2>4. UNCHANGED file
    BY <1>1 DEF CallMission, OnlyCmd
  <2> HIDE DEF looking, creating
  <2>5. QED
    BY <2>1, <2>2, <2>3, <2>4 DEF Moves, Carrying
<1>2. CASE CallGate(s)
  <2>1. PICK r \in StartedRuns, g \in Gates, st \in {"pass", "fail", "skip"}, ft \in FailureTypes :
          Noting(s, "gate", [RunRecord("gate-result", r) EXCEPT !.gate = g, !.status = st, !.failure = ft])
    BY <1>2 DEF CallGate
  <2> DEFINE rec == [RunRecord("gate-result", r) EXCEPT !.gate = g, !.status = st, !.failure = ft]
  <2>2. rec \in RunRecords /\ rec.run = r /\ rec.type # "run-started"
    BY DEF RunRecord, RunRecords, RecordTypes, StartedRuns
  <2> HIDE DEF rec
  <2>3. QED
    BY <2>1, <2>2, NotedMoves DEF rec
<1>3. CASE CallAttempt(s)
  <2>1. PICK r \in StartedRuns, n \in AttemptNumbers :
          \/ Noting(s, "attempt", [RunRecord("attempt-started", r) EXCEPT !.attempt = n])
          \/ \E st \in {"completed", "failed"} :
               Noting(s, "attempt", [RunRecord("attempt-completed", r) EXCEPT !.attempt = n, !.status = st])
    BY <1>3 DEF CallAttempt
  <2> DEFINE started == [RunRecord("attempt-started", r) EXCEPT !.attempt = n]
             completed(st) == [RunRecord("attempt-completed", r) EXCEPT !.attempt = n, !.status = st]
  <2>2. started \in RunRecords /\ started.run = r /\ started.type # "run-started"
    BY DEF RunRecord, RunRecords, RecordTypes, StartedRuns
  <2>3. \A st \in {"completed", "failed"} :
          completed(st) \in RunRecords /\ completed(st).run = r /\ completed(st).type # "run-started"
    BY DEF RunRecord, RunRecords, RecordTypes, StartedRuns
  <2>4. Noting(s, "attempt", started) \/ \E st \in {"completed", "failed"} : Noting(s, "attempt", completed(st))
    BY <2>1
  <2> HIDE DEF started, completed
  <2>5. QED
    BY <2>2, <2>3, <2>4, NotedMoves
<1>4. CASE CallRework(s)
  <2>1. PICK r \in StartedRuns : \E action : Noting(s, "rework", RunRecord(RecordTypeFor(action), r))
    BY <1>4 DEF CallRework
  <2>2. PICK action : Noting(s, "rework", RunRecord(RecordTypeFor(action), r))
    BY <2>1
  <2> DEFINE rec == RunRecord(RecordTypeFor(action), r)
  <2>3. RecordTypeFor(action) \in ReworkTypes \cup {"human-escalation"}
    BY DEF RecordTypeFor, ReworkTypes
  <2>4. rec \in RunRecords /\ rec.run = r /\ rec.type # "run-started"
    BY <2>3 DEF RunRecord, RunRecords, RecordTypes, ReworkTypes, StartedRuns
  <2> HIDE DEF rec
  <2>5. QED
    BY <2>2, <2>4, NotedMoves DEF rec
<1>5. CASE CallPlanReview(s)
  <2>1. PICK g \in Goals, verdict \in {"pass", "pass-with-risks", "block"} :
          Go(s, [NoCommand EXCEPT !.op = "plan-review", !.pc = "check", !.goal = g,
                   !.object = ShouldObject(g, verdict),
                   !.record = [RunRecord("plan-review", g) EXCEPT !.goal = g, !.status = PlanStatus(verdict)]])
    BY <1>5 DEF CallPlanReview
  <2> DEFINE rec == [RunRecord("plan-review", g) EXCEPT !.goal = g, !.status = PlanStatus(verdict)]
             new == [NoCommand EXCEPT !.op = "plan-review", !.pc = "check", !.goal = g,
                                      !.object = ShouldObject(g, verdict), !.record = rec]
  <2>2. PlanStatus(verdict) \in {"blocked", "verified", "verified-with-risks"}
    BY DEF PlanStatus
  <2>3. rec \in RunRecords /\ rec.type = "plan-review" /\ rec.run = g
    BY <2>2, MissionConstants DEF RunRecord, RunRecords, RecordTypes
  <2>4. ShouldObject(g, verdict) \in BOOLEAN
    BY DEF ShouldObject
  <2>5. Go(s, new) /\ UNCHANGED file
    BY <1>5, <2>1 DEF CallPlanReview, OnlyCmd
  <2> HIDE DEF rec
  <2>6. new \in FactoryCommands /\ new.pc = "check" /\ new.record = rec
    BY <2>3, <2>4, NoCommandYet DEF FactoryCommands, Carrying
  <2> HIDE DEF new
  <2>7. QED
    BY <2>3, <2>5, <2>6 DEF Moves, Begins, MayBegin, Carrying
<1>6. QED
  BY <1>1, <1>2, <1>3, <1>4, <1>5

(* The board, and the run to link. *)
LEMMA LinksMove ==
  ASSUME FactoryShape, NEW s \in Sessions,
         CreateGoal(s) \/ SeedProposal(s) \/ SeedWorkItem(s) \/ LookUpRun(s) \/ StatRuns(s) \/ TouchRuns(s)
           \/ Object(s)
  PROVE  \E new : Moves(s, new)
<1>1. CASE CreateGoal(s)
  <2>1. PICK g \in Goals : Go(s, [cmd[s] EXCEPT !.pc = "seed", !.goal = g])
    BY <1>1 DEF CreateGoal
  <2> DEFINE new == [cmd[s] EXCEPT !.pc = "seed", !.goal = g]
  <2>2. cmd[s] \in FactoryCommands
    BY NextStage
  <2>3. new \in FactoryCommands /\ new.pc = "seed" /\ new.record = cmd[s].record
    BY <2>2 DEF FactoryCommands, Carrying
  <2>4. Go(s, new) /\ UNCHANGED file
    BY <1>1, <2>1 DEF CreateGoal
  <2> HIDE DEF new
  <2>5. QED
    BY <2>3, <2>4 DEF Moves, Carrying
<1>2. CASE SeedProposal(s) \/ SeedWorkItem(s)
  <2>1. UNCHANGED file /\ (To(s, "lookup") \/ Over(s) \/ UNCHANGED cmd) /\ cmd[s].pc \in {"seed", "plan"}
    BY <1>2 DEF SeedProposal, SeedWorkItem, SeedNext, At
  <2>2. Go(s, cmd[s]) \/ ~UNCHANGED cmd
    BY DEF Go, FactoryShape
  <2>3. \E new \in FactoryCommands : /\ Go(s, new) /\ new.pc \in {"lookup", "idle", "seed", "plan"}
                                     /\ new.record \in {Blank, cmd[s].record}
    BY <2>1, <2>2, NoCommandYet, NextStage DEF To, Over
  <2>4. QED
    BY <2>1, <2>3 DEF Moves, Carrying
<1>3. CASE LookUpRun(s)
  <2>1. UNCHANGED file
    BY <1>3 DEF LookUpRun, OnlyCmd
  <2>2. CASE AfterLink(s)
    BY <2>1, <2>2, NextStage DEF Moves, Carrying
  <2>3. CASE ~AfterLink(s)
    <3>1. /\ LinkedRuns("peer-mission", cmd[s].goal) = {}
          /\ \E r \in FreshRuns, gates \in {{}, MissionGates} :
               Go(s, [cmd[s] EXCEPT !.pc = "init",
                        !.record = [RunRecord("run-started", r) EXCEPT
                                      !.goal = cmd[s].goal, !.source = "peer-mission", !.gates = gates]])
      BY <1>3, <2>3 DEF LookUpRun
    <3>2. PICK r \in FreshRuns, gates \in {{}, MissionGates} :
            Go(s, [cmd[s] EXCEPT !.pc = "init",
                     !.record = [RunRecord("run-started", r) EXCEPT
                                   !.goal = cmd[s].goal, !.source = "peer-mission", !.gates = gates]])
      BY <3>1
    <3> DEFINE rec == [RunRecord("run-started", r) EXCEPT
                         !.goal = cmd[s].goal, !.source = "peer-mission", !.gates = gates]
               new == [cmd[s] EXCEPT !.pc = "init", !.record = rec]
    <3>3. cmd[s] \in FactoryCommands /\ cmd[s].goal \in Goals \cup {NoGoal}
      BY NextStage DEF FactoryCommands
    <3>4. /\ rec \in RunRecords /\ rec.type = "run-started" /\ rec.run = r
          /\ rec.source = "peer-mission" /\ rec.goal = cmd[s].goal
      BY <3>3 DEF RunRecord, RunRecords, RecordTypes, FreshRuns
    <3> HIDE DEF rec
    <3>5. MayBegin(rec)
      BY <3>1, <3>4 DEF MayBegin, Fresh, FreshRuns
    <3>6. new \in FactoryCommands /\ new.pc = "init" /\ new.record = rec
      BY <3>3, <3>4 DEF FactoryCommands, Carrying
    <3>7. Go(s, new)
      BY <3>2 DEF rec
    <3> HIDE DEF new
    <3>8. QED
      BY <2>1, <3>4, <3>5, <3>6, <3>7 DEF Moves, Begins, Carrying
  <2>4. QED
    BY <2>2, <2>3
<1>4. CASE StatRuns(s)
  <2>1. At(s, "init") /\ UNCHANGED file /\ (To(s, "check") \/ To(s, "touch"))
    BY <1>4 DEF StatRuns, OnlyCmd
  <2>2. \E new \in FactoryCommands : Go(s, new) /\ new.pc \in {"check", "touch"} /\ new.record = cmd[s].record
    BY <2>1, NextStage DEF To, Carrying
  <2>3. QED
    BY <2>1, <2>2 DEF Moves, GoesOn, Carries, At, Carrying
<1>5. CASE TouchRuns(s)
  <2>1. At(s, "touch") /\ file' = Emptied /\ To(s, "check")
    BY <1>5 DEF TouchRuns
  <2>2. \E new \in FactoryCommands : Go(s, new) /\ new.pc = "check" /\ new.record = cmd[s].record
    BY <2>1, NextStage DEF To, Carrying
  <2>3. QED
    BY <2>1, <2>2 DEF Moves, Empties
<1>6. CASE Object(s)
  <2>1. Over(s) /\ UNCHANGED file
    BY <1>6 DEF Object
  <2>2. QED
    BY <2>1, NextStage DEF Moves, Carrying
<1>7. QED
  BY <1>1, <1>2, <1>3, <1>4, <1>5, <1>6

(* The append: refused, or in three steps. *)
LEMMA AppendsMove ==
  ASSUME FactoryShape, NEW s \in Sessions, AppendStep(s) \/ RunFails(s) \/ CommandEnds(s)
  PROVE  \E new : Moves(s, new)
<1>1. CASE CheckLedger(s)
  <2>1. At(s, "check") /\ UNCHANGED file /\ (AfterLink(s) \/ (To(s, "separator") /\ ~TrailingPartial))
    BY <1>1 DEF CheckLedger, OnlyCmd
  <2>2. CASE AfterLink(s)
    BY <2>1, <2>2, NextStage DEF Moves, Carrying
  <2>3. CASE To(s, "separator") /\ ~TrailingPartial
    <3>1. \E new \in FactoryCommands : Go(s, new) /\ new.pc = "separator" /\ new.record = cmd[s].record
      BY <2>3, NextStage DEF To, Carrying
    <3>2. QED
      BY <2>1, <2>3, <3>1 DEF Moves, GoesOn, Carries, At, Carrying
  <2>4. QED
    BY <2>1, <2>2, <2>3
<1>2. CASE ReadEnd(s)
  <2> DEFINE new == [cmd[s] EXCEPT !.pc = "write", !.separator = NeedsSeparator]
  <2>1. NeedsSeparator \in BOOLEAN /\ cmd[s] \in FactoryCommands
    BY NextStage DEF NeedsSeparator
  <2>2. /\ new \in FactoryCommands /\ new.pc = "write" /\ new.separator = NeedsSeparator
        /\ new.record = cmd[s].record
    BY <2>1 DEF FactoryCommands, Carrying
  <2>3. Go(s, new) /\ UNCHANGED file /\ At(s, "separator")
    BY <1>2 DEF ReadEnd, OnlyCmd
  <2> HIDE DEF new
  <2>4. QED
    BY <2>2, <2>3 DEF Moves, GoesOn, Carries, At, Carrying
<1>3. CASE WriteRecord(s)
  <2>1. At(s, "write") /\ file' = Written(cmd[s].record, cmd[s].separator, "whole")
    BY <1>3 DEF WriteRecord
  <2>2. To(s, "object") \/ AfterLink(s)
    BY <1>3 DEF WriteRecord
  <2>3. \E new \in FactoryCommands : /\ Go(s, new) /\ new.pc \in {"object", "idle", "plan"}
                                     /\ new.record \in {Blank, cmd[s].record}
    BY <2>2, NextStage DEF To
  <2>4. QED
    BY <2>1, <2>3 DEF Moves, Writes, Carrying
<1>4. CASE RunFails(s) \/ CommandEnds(s)
  <2>1. PartlyWritten(s) /\ (AfterLink(s) \/ Over(s))
    BY <1>4 DEF RunFails, CommandEnds
  <2>2. PICK new \in FactoryCommands : /\ Go(s, new) /\ new.pc \in {"idle", "plan"}
                                      /\ new.record \in {Blank, cmd[s].record}
    BY <2>1, NextStage
  <2>3. QED
    BY <2>1, <2>2 DEF Moves, Writes, PartlyWritten, Carrying
<1>5. QED
  BY <1>1, <1>2, <1>3, <1>4 DEF AppendStep

LEMMA FactoryMoves ==
  ASSUME FactoryShape, [FactoryNext]_missionVars
  PROVE  UNCHANGED <<file, cmd>> \/ \E s \in Sessions, new \in FactoryCommands : Moves(s, new)
<1>1. ASSUME NEW s \in Sessions, MissionStep(s) \/ RunStep(s)
      PROVE  \E new \in FactoryCommands : Moves(s, new)
  <2>1. \E new : Moves(s, new)
    BY <1>1, FreeRun, CallsMove, LinksMove, AppendsMove DEF MissionStep, RunStep
  <2>2. QED
    BY <2>1 DEF Moves
<1>2. CASE CloseGoal \/ ResolveObjection \/ UNCHANGED missionVars
  BY <1>2 DEF CloseGoal, ResolveObjection, missionVars
<1>3. QED
  BY <1>1, <1>2 DEF FactoryNext, MissionNext

-----------------------------------------------------------------------------
(* What becomes of the file: a step adds a record at the most, at its end,  *)
(* and may spoil or drop others.                                            *)
LEMMA FileShape ==
  ASSUME FactoryShape
  PROVE  /\ file.lines \in Seq(RunRecords \cup {Torn}) /\ Len(file.lines) \in Nat
         /\ DOMAIN file.lines = 1 .. Len(file.lines)
         /\ \A i \in 1 .. Len(file.lines) : IsRecord(i) => file.lines[i] \in RunRecords
BY LenProperties DEF FactoryShape, IsRecord

LEMMA LineAppended ==
  ASSUME FactoryShape, NEW line \in RunRecords \cup {Torn}
  PROVE  /\ Append(file.lines, line) \in Seq(RunRecords \cup {Torn})
         /\ DOMAIN Append(file.lines, line) = 1 .. Len(file.lines) + 1
         /\ Len(Append(file.lines, line)) = Len(file.lines) + 1
         /\ Append(file.lines, line)[Len(file.lines) + 1] = line
         /\ \A i \in 1 .. Len(file.lines) : Append(file.lines, line)[i] = file.lines[i]
BY FileShape, AppendProperties, LenProperties

LEMMA FileWritten ==
  ASSUME FactoryShape, NEW s \in Sessions, At(s, "write"), NEW how \in {"whole", "unended", "half"},
         file' = Written(cmd[s].record, cmd[s].separator, how)
  PROVE  /\ file' \in [there : BOOLEAN, lines : Seq(RunRecords \cup {Torn}), ended : BOOLEAN]
         /\ \A i \in DOMAIN file'.lines : IsRecord(i)' =>
              \/ i \in DOMAIN file.lines /\ file'.lines[i] = file.lines[i]
              \/ i = Len(file.lines) + 1 /\ file'.lines[i] = cmd[s].record
<1> DEFINE line == IF how = "half" THEN Torn ELSE cmd[s].record
           S == RunRecords \cup {Torn}
<1>1. cmd[s].record \in RunRecords
  BY DEF FactoryShape, Carries, Carrying, At
<1>2. line \in S
  BY <1>1
<1>3. /\ file'.there = TRUE /\ file'.ended = (how = "whole")
      /\ file' = [there |-> TRUE, ended |-> how = "whole", lines |-> file'.lines]
      /\ \/ file'.lines = Append(file.lines, line)
         \/ file.lines # <<>> /\ file'.lines = [file.lines EXCEPT ![Len(file.lines)] = Torn]
  <2> HIDE DEF line
  <2>1. \A a, b : [there |-> TRUE, ended |-> a, lines |-> b].lines = b
                  /\ [there |-> TRUE, ended |-> a, lines |-> b].ended = a
    OBVIOUS
  <2>2. QED
    BY <2>1 DEF Written, NeedsSeparator, line
<1>4. CASE file'.lines = Append(file.lines, line)
  <2>1. /\ file'.lines \in Seq(S) /\ DOMAIN file'.lines = 1 .. Len(file.lines) + 1
        /\ file'.lines[Len(file.lines) + 1] = line
        /\ \A i \in 1 .. Len(file.lines) : file'.lines[i] = file.lines[i]
    <3> HIDE DEF line
    <3>1. /\ Append(file.lines, line) \in Seq(S)
          /\ DOMAIN Append(file.lines, line) = 1 .. Len(file.lines) + 1
          /\ Append(file.lines, line)[Len(file.lines) + 1] = line
          /\ \A i \in 1 .. Len(file.lines) : Append(file.lines, line)[i] = file.lines[i]
      BY <1>2, LineAppended, Zenon
    <3>2. QED
      BY <1>4, <3>1
  <2>2. ASSUME NEW i \in DOMAIN file'.lines, IsRecord(i)'
        PROVE  \/ i \in DOMAIN file.lines /\ file'.lines[i] = file.lines[i]
               \/ i = Len(file.lines) + 1 /\ file'.lines[i] = cmd[s].record
    <3>1. CASE i \in 1 .. Len(file.lines)
      BY <2>1, <3>1, FileShape
    <3>2. CASE i = Len(file.lines) + 1
      <4>1. line # Torn
        BY <2>1, <2>2, <3>2 DEF IsRecord
      <4>2. QED
        BY <2>1, <3>2, <4>1
    <3>3. QED
      BY <2>1, <3>1, <3>2, FileShape
  <2>3. QED
    BY <1>3, <2>1, <2>2
<1>5. CASE file.lines # <<>> /\ file'.lines = [file.lines EXCEPT ![Len(file.lines)] = Torn]
  <2>1. Torn \in S /\ file.lines \in Seq(S)
    BY FileShape
  <2>2. file'.lines \in Seq(S)
    BY <1>5, <2>1, ExceptSeq, FileShape
  <2>3. \A i \in DOMAIN file'.lines : IsRecord(i)' => i \in DOMAIN file.lines /\ file'.lines[i] = file.lines[i]
    BY <1>5 DEF IsRecord
  <2>4. QED
    BY <1>3, <2>2, <2>3
<1>6. QED
  BY <1>3, <1>4, <1>5

LEMMA MovesKeepShape ==
  ASSUME FactoryShape, NEW s \in Sessions, NEW new, Moves(s, new)
  PROVE  /\ FactoryShape'
         /\ cmd'[s] = new /\ \A u \in Sessions : u # s => cmd'[u] = cmd[u]
         /\ \A i \in DOMAIN file'.lines : IsRecord(i)' =>
              \/ i \in DOMAIN file.lines /\ file'.lines[i] = file.lines[i]
              \/ Writes(s, new) /\ i = Len(file.lines) + 1 /\ file'.lines[i] = cmd[s].record
<1>1. /\ cmd' \in [Sessions -> FactoryCommands]
      /\ cmd'[s] = new /\ \A u \in Sessions : u # s => cmd'[u] = cmd[u]
  BY DEF Moves, Go, FactoryShape
<1>2. new.pc \in Carrying => new.record \in RunRecords
  BY DEF Moves, Begins, GoesOn, Empties, Writes, FactoryShape, Carries, At, Carrying
<1>3. \A u \in Sessions : Carries(u)' => cmd'[u].record \in RunRecords
  BY <1>1, <1>2 DEF FactoryShape, Carries
<1>4. CASE UNCHANGED file
  BY <1>1, <1>3, <1>4 DEF FactoryShape, IsRecord
<1>5. CASE Empties(s, new)
  BY <1>1, <1>3, <1>5 DEF FactoryShape, Empties, Emptied
<1>6. CASE Writes(s, new)
  BY <1>1, <1>3, <1>6, FileWritten DEF Writes, FactoryShape
<1>7. QED
  BY <1>4, <1>5, <1>6 DEF Moves, Begins, GoesOn

(* A run is started before anything else is noted of it: the record that    *)
(* starts it is its first, and while it is on its way nobody speaks of it.  *)
StartsFirst ==
  \A i, j \in DOMAIN file.lines :
    /\ IsRecord(i) /\ IsRecord(j)
    /\ file.lines[i].run = file.lines[j].run /\ file.lines[i].type = "run-started"
    => i <= j

StartsAlone ==
  \A s \in Sessions : Carries(s) /\ cmd[s].record.type = "run-started" =>
    /\ RecordsOf(cmd[s].record.run) = {}
    /\ \A u \in Sessions : u # s => cmd[u].record.run # cmd[s].record.run

StartInv == FactoryShape /\ StartsFirst /\ StartsAlone

LEMMA StartBegins == MissionInit => StartInv
<1> SUFFICES ASSUME MissionInit PROVE StartInv
  OBVIOUS
<1>1. \A s \in Sessions : ~Carries(s)
  BY NoCommandYet DEF MissionInit, Carries, Carrying
<1>2. FactoryShape
  BY <1>1, NoCommandYet DEF MissionInit, FactoryShape
<1>3. QED
  BY <1>1, <1>2 DEF MissionInit, StartInv, StartsFirst, StartsAlone

LEMMA StartMoves ==
  ASSUME StartInv, NEW s \in Sessions, NEW new, Moves(s, new)
  PROVE  StartInv'
<1>1. /\ FactoryShape' /\ cmd'[s] = new /\ \A u \in Sessions : u # s => cmd'[u] = cmd[u]
      /\ \A i \in DOMAIN file'.lines : IsRecord(i)' =>
           \/ i \in DOMAIN file.lines /\ file'.lines[i] = file.lines[i]
           \/ Writes(s, new) /\ i = Len(file.lines) + 1 /\ file'.lines[i] = cmd[s].record
  BY MovesKeepShape DEF StartInv
<1>2. Len(file.lines) \in Nat /\ DOMAIN file.lines = 1 .. Len(file.lines)
  BY FileShape DEF StartInv
<1>3. \A i \in DOMAIN file'.lines : i \in DOMAIN file.lines /\ file'.lines[i] = file.lines[i] /\ IsRecord(i)' => IsRecord(i)
  BY DEF IsRecord
<1>4. StartsFirst'
  <2> SUFFICES ASSUME NEW i \in DOMAIN file'.lines, NEW j \in DOMAIN file'.lines,
                      IsRecord(i)', IsRecord(j)', file'.lines[i].run = file'.lines[j].run,
                      file'.lines[i].type = "run-started"
               PROVE  i <= j
    BY DEF StartsFirst
  <2>1. CASE i \in DOMAIN file.lines /\ file'.lines[i] = file.lines[i]
    <3>1. CASE j \in DOMAIN file.lines /\ file'.lines[j] = file.lines[j]
      BY <1>3, <2>1, <3>1 DEF StartInv, StartsFirst
    <3>2. CASE j = Len(file.lines) + 1
      BY <1>2, <2>1, <3>2
    <3>3. QED
      BY <1>1, <3>1, <3>2
  <2>2. CASE Writes(s, new) /\ i = Len(file.lines) + 1 /\ file'.lines[i] = cmd[s].record
    <3>1. Carries(s) /\ cmd[s].record.type = "run-started"
      BY <2>2 DEF Writes, Carries, Carrying, At
    <3>2. RecordsOf(cmd[s].record.run) = {}
      BY <3>1 DEF StartInv, StartsAlone
    <3>3. ~(j \in DOMAIN file.lines /\ file'.lines[j] = file.lines[j])
      BY <1>3, <2>2, <3>2 DEF RecordsOf
    <3>4. QED
      BY <1>1, <1>2, <2>2, <3>3
  <2>3. QED
    BY <1>1, <2>1, <2>2
<1> DEFINE Noted(r) == \E i \in DOMAIN file'.lines : IsRecord(i)' /\ file'.lines[i].run = r
<1>5. ASSUME NEW r, RecordsOf(r) = {}, Writes(s, new) => cmd[s].record.run # r
      PROVE  ~Noted(r)
  BY <1>1, <1>3, <1>5 DEF RecordsOf
<1>6. StartsAlone'
  <2> SUFFICES ASSUME NEW x \in Sessions, Carries(x)', cmd'[x].record.type = "run-started"
               PROVE  /\ ~Noted(cmd'[x].record.run)
                      /\ \A u \in Sessions : u # x => cmd'[u].record.run # cmd'[x].record.run
    BY DEF StartsAlone, RecordsOf, Carries
  <2> DEFINE r == cmd'[x].record.run
  <2>1. r \in Runs \ Goals
    <3>1. cmd'[x].record \in RunRecords
      BY <1>1 DEF FactoryShape
    <3>2. QED
      BY <3>1, RecordFields
  <2>2. CASE x = s /\ Begins(s, new)
    <3>1. Fresh(new.record)
      BY <1>1, <2>2 DEF Begins, MayBegin
    <3>2. QED
      BY <1>1, <1>5, <2>2, <3>1 DEF Fresh, Begins, Writes
  <2>3. CASE x # s \/ ~Begins(s, new)
    <3>1. Carries(x) /\ cmd'[x].record = cmd[x].record /\ (x = s => ~Writes(s, new))
      BY <1>1, <2>3 DEF Moves, GoesOn, Empties, Writes, Carries, Carrying, At
    <3>2. /\ RecordsOf(r) = {}
          /\ \A u \in Sessions : u # x => cmd[u].record.run # r
      BY <3>1 DEF StartInv, StartsAlone
    <3>3. ~Noted(r)
      BY <1>5, <3>1, <3>2
    <3>4. ASSUME x # s PROVE new.record.run # r
      <4>1. CASE new.record = Blank
        BY <2>1, <4>1, BlankIsNoRecord, FactoryConstants
      <4>2. CASE new.record = cmd[s].record
        BY <3>2, <3>4, <4>2
      <4>3. CASE Begins(s, new)
        <5>1. CASE new.record.type = "run-started"
          BY <3>1, <4>3, <5>1 DEF Begins, MayBegin, Fresh
        <5>2. CASE new.record.type # "run-started"
          BY <2>1, <3>2, <4>3, <5>2 DEF Begins, MayBegin
        <5>3. QED
          BY <5>1, <5>2
      <4>4. QED
        BY <4>1, <4>2, <4>3 DEF Moves, GoesOn, Empties, Writes
    <3>5. QED
      BY <1>1, <3>1, <3>2, <3>3, <3>4
  <2>4. QED
    BY <2>2, <2>3
<1>7. QED
  BY <1>1, <1>4, <1>6 DEF StartInv

LEMMA StartHolds == FactorySpec => []StartInv
<1>1. StartInv /\ [FactoryNext]_missionVars => StartInv'
  <2> SUFFICES ASSUME StartInv, [FactoryNext]_missionVars PROVE StartInv'
    OBVIOUS
  <2>1. CASE UNCHANGED <<file, cmd>>
    BY <2>1 DEF StartInv, FactoryShape, StartsFirst, StartsAlone, Carries, RecordsOf, IsRecord
  <2>2. QED
    BY <2>1, FactoryMoves, StartMoves DEF StartInv
<1>2. QED
  BY <1>1, StartBegins, PTL DEF FactorySpec

-----------------------------------------------------------------------------
(* A session appends without a lock.  It refuses a file that ends in half a *)
(* record, looks whether a newline is missing, and writes: the file stays   *)
(* readable because what it saw then is still so when it writes, unless     *)
(* another session writes in between.                                       *)

(* Nobody writes to the file of runs between another one's check and write. *)
OneAppender == \A s, w \in Sessions : Appending(s) /\ At(w, "write") => s = w

(* What a session that appends saw of the end of the file still holds. *)
EndIsAsSeen ==
  \A s \in Sessions :
    /\ Appending(s) => ~TrailingPartial
    /\ At(s, "write") /\ NeedsSeparator => cmd[s].separator

FactoryInv == FactoryShape /\ Loads /\ EndIsAsSeen

LEMMA FactoryBegins == MissionInit => FactoryInv
<1> SUFFICES ASSUME MissionInit PROVE FactoryInv
  OBVIOUS
<1>1. FactoryShape
  BY StartBegins DEF StartInv
<1>2. Loads /\ EndIsAsSeen
  BY NoCommandYet DEF MissionInit, Loads, EndIsAsSeen, Appending, At
<1>3. QED
  BY <1>1, <1>2 DEF FactoryInv

(* A file that ends well, or in half a record nobody appends to. *)
LEMMA WriteLeavesItReadable ==
  ASSUME FactoryInv, NEW s \in Sessions, NEW new, Writes(s, new)
  PROVE  Loads'
<1>1. PICK how \in {"whole", "unended", "half"} : file' = Written(cmd[s].record, cmd[s].separator, how)
  BY DEF Writes
<1> DEFINE line == IF how = "half" THEN Torn ELSE cmd[s].record
           longer == Append(file.lines, line)
<1>2. At(s, "write") /\ cmd[s].record \in RunRecords
  BY DEF Writes, FactoryInv, FactoryShape, Carries, Carrying, At
<1>3. ~TrailingPartial /\ (NeedsSeparator => cmd[s].separator)
  BY <1>2 DEF FactoryInv, EndIsAsSeen, Appending, At
<1>4. file' = [there |-> TRUE, ended |-> how = "whole", lines |-> longer]
  BY <1>1, <1>3 DEF Written
<1>5. cmd[s].record # Torn
  BY <1>2, RecordFields
<1>6. FactoryShape /\ line \in RunRecords \cup {Torn}
  BY <1>2 DEF FactoryInv
<1>7. /\ DOMAIN longer = 1 .. Len(file.lines) + 1 /\ Len(longer) = Len(file.lines) + 1
      /\ longer[Len(file.lines) + 1] = line
      /\ \A i \in 1 .. Len(file.lines) : longer[i] = file.lines[i]
  <2> HIDE DEF line
  <2>1. QED
    BY <1>6, LineAppended
<1>8. Len(file.lines) \in Nat /\ \A i \in 1 .. Len(file.lines) : file.lines[i] # Torn
  BY <1>3, <1>6, FileShape DEF FactoryInv, Loads, TrailingPartial, Last
<1> SUFFICES ASSUME NEW i \in DOMAIN file'.lines, file'.lines[i] = Torn
             PROVE  i = Len(file'.lines) /\ ~file'.ended
  BY DEF Loads
<1>9. file'.lines = longer /\ file'.ended = (how = "whole")
  <2> HIDE DEF longer
  <2>1. QED
    BY <1>4
<1>10. i = Len(file.lines) + 1
  BY <1>7, <1>8, <1>9
<1>11. how = "half"
  BY <1>5, <1>7, <1>9, <1>10
<1> HIDE DEF longer, line
<1>12. QED
  BY <1>7, <1>9, <1>10, <1>11

LEMMA FactorySteps == FactoryInv /\ OneAppender /\ [FactoryNext]_missionVars => FactoryInv'
<1> SUFFICES ASSUME FactoryInv, OneAppender, [FactoryNext]_missionVars PROVE FactoryInv'
  OBVIOUS
<1>1. CASE UNCHANGED <<file, cmd>>
  BY <1>1 DEF FactoryInv, FactoryShape, Carries, Loads, EndIsAsSeen, Appending, At, TrailingPartial,
     NeedsSeparator
<1>2. ASSUME NEW s \in Sessions, NEW new, Moves(s, new) PROVE FactoryInv'
  <2>1. FactoryShape' /\ cmd'[s] = new /\ \A u \in Sessions : u # s => cmd'[u] = cmd[u]
    BY <1>2, MovesKeepShape DEF FactoryInv
  <2>2. CASE UNCHANGED file
    <3>1. /\ TrailingPartial' = TrailingPartial /\ NeedsSeparator' = NeedsSeparator
          /\ Loads' = Loads
      BY <2>2 DEF TrailingPartial, NeedsSeparator, Loads
    <3>2. CASE GoesOn(s, new)
      <4>1. new.pc \in {"separator", "write"} => ~TrailingPartial
        BY <3>2 DEF GoesOn, FactoryInv, EndIsAsSeen, Appending, At
      <4>2. QED
        BY <2>1, <3>1, <3>2, <4>1 DEF GoesOn, FactoryInv, EndIsAsSeen, Appending, At
    <3>3. CASE new.pc \notin {"separator", "write"}
      BY <2>1, <3>1, <3>3 DEF FactoryInv, EndIsAsSeen, Appending, At
    <3>4. QED
      BY <1>2, <3>2, <3>3 DEF Moves, Begins, Empties, Writes, Carrying
  <2>3. CASE Empties(s, new)
    BY <2>1, <2>3 DEF Empties, Emptied, FactoryInv, Loads, EndIsAsSeen, TrailingPartial, NeedsSeparator
  <2>4. CASE Writes(s, new)
    <3>1. \A u \in Sessions : ~Appending(u)'
      BY <2>1, <2>4 DEF OneAppender, Appending, Writes, Carrying
    <3>2. EndIsAsSeen'
      BY <3>1 DEF EndIsAsSeen, Appending, At
    <3>3. QED
      BY <2>1, <2>4, <3>2, WriteLeavesItReadable DEF FactoryInv
  <2>5. QED
    BY <1>2, <2>2, <2>3, <2>4 DEF Moves, Begins, GoesOn
<1>3. QED
  BY <1>1, <1>2, FactoryMoves DEF FactoryInv

(* Whatever sessions are killed at, the file of runs can be read again, as  *)
(* long as no two of them append at once: half a record that one leaves is  *)
(* the last line, and the next append refuses it.                           *)
THEOREM RunsReadUnlessTwoAppend == FactorySpec /\ []OneAppender => []RunsCanBeRead
<1>1. FactorySpec /\ []OneAppender => []FactoryInv
  BY FactoryBegins, FactorySteps, PTL DEF FactorySpec
<1>2. FactoryInv => RunsCanBeRead
  BY DEF FactoryInv, RunsCanBeRead
<1>3. QED
  BY <1>1, <1>2, PTL

(* With one session, however often it is killed and started again, the file *)
(* of runs can always be read.                                              *)
THEOREM RunsReadAfterAnyKill ==
  ASSUME \A s, w \in Sessions : s = w
  PROVE  FactorySpec => []RunsCanBeRead
<1>1. OneAppender
  BY DEF OneAppender
<1>2. FactorySpec => []OneAppender
  BY <1>1, PTL
<1>3. QED
  BY <1>2, RunsReadUnlessTwoAppend, PTL

-----------------------------------------------------------------------------
(* The run derived from the lines is what their records make of it one by one. *)
LEMMA RunIsDerived ==
  ASSUME NEW r, Len(file.lines) \in Nat
  PROVE  \E after : /\ RunOf(r) = after[Len(file.lines)]
                    /\ after[0] = UnknownRun
                    /\ \A n \in 1 .. Len(file.lines) :
                         after[n] = IF n \in RecordsOf(r) THEN ApplyRecord(after[n - 1], file.lines[n])
                                    ELSE after[n - 1]
<1> DEFINE N == Len(file.lines)
           Taken(run, n) == IF n \in RecordsOf(r) THEN ApplyRecord(run, file.lines[n]) ELSE run
           Upto(m, f) == f = [n \in 0 .. m |-> IF n = 0 THEN UnknownRun ELSE Taken(f[n - 1], n)]
           Missing == {m \in Nat : ~\E f : Upto(m, f)}
<1>1. RunOf(r) = (CHOOSE f : Upto(N, f))[N]
  BY Zenon DEF RunOf
<1> HIDE DEF Taken, Upto
<1>2. Missing = {}
  <2> SUFFICES ASSUME Missing # {} PROVE FALSE
    OBVIOUS
  <2>1. PICK m \in Missing : \A k \in Missing : <<k, m>> \notin OpToRel(<, Nat)
    BY NatLessThanWellFounded, WFMin
  <2>2. \A k \in Nat : k < m => k \notin Missing
    BY <2>1 DEF OpToRel
  <2>3. m # 0
    <3>1. Upto(0, [n \in {0} |-> UnknownRun])
      BY DEF Upto
    <3>2. QED
      BY <2>1, <3>1
  <2>4. PICK f : Upto(m - 1, f)
    <3>1. m \in Nat /\ m # 0
      BY <2>1, <2>3, Zenon
    <3>2. m - 1 \in Nat /\ m - 1 < m
      BY <3>1
    <3>3. QED
      BY <2>2, <3>2
  <2> DEFINE longer == [n \in 0 .. m |-> IF n = m THEN Taken(f[m - 1], m) ELSE f[n]]
  <2>5. \A n \in 0 .. m : longer[n] = IF n = 0 THEN UnknownRun ELSE Taken(longer[n - 1], n)
    <3>1. m \in Nat \ {0}
      BY <2>1, <2>3
    <3>2. \A n \in 0 .. m - 1 : f[n] = IF n = 0 THEN UnknownRun ELSE Taken(f[n - 1], n)
      BY <2>4, Zenon DEF Upto
    <3>3. \A n \in 0 .. m - 1 : longer[n] = f[n]
      BY <3>1
    <3>4. longer[m] = Taken(f[m - 1], m) /\ longer[m - 1] = f[m - 1]
      BY <3>1, <3>3
    <3> HIDE DEF longer
    <3>5. \A n \in 1 .. m - 1 : n - 1 \in 0 .. m - 1 /\ n \in 0 .. m - 1 /\ n # 0
      BY <3>1
    <3>6. \A n \in 1 .. m - 1 : longer[n] = Taken(longer[n - 1], n)
      BY <3>2, <3>3, <3>5
    <3>7. longer[0] = UnknownRun
      BY <3>1, <3>2, <3>3
    <3>8. \A n \in 0 .. m : n = 0 \/ n = m \/ n \in 1 .. m - 1
      BY <3>1
    <3>9. QED
      BY <3>1, <3>4, <3>6, <3>7, <3>8
  <2>6. Upto(m, longer)
    BY <2>5 DEF Upto
  <2>7. QED
    BY <2>1, <2>6
<1>3. Upto(N, CHOOSE f : Upto(N, f))
  <2>1. \E f : Upto(N, f)
    BY <1>2
  <2>2. QED
    BY <2>1, Zenon
<1> DEFINE after == CHOOSE f : Upto(N, f)
<1> HIDE DEF after
<1>4. after = [n \in 0 .. N |-> IF n = 0 THEN UnknownRun ELSE Taken(after[n - 1], n)]
  BY <1>3, Zenon DEF after, Upto
<1>5. after[0] = UnknownRun /\ \A n \in 1 .. N : after[n] = Taken(after[n - 1], n)
  <2>1. 0 \in 0 .. N /\ \A n \in 1 .. N : n \in 0 .. N /\ n # 0
    OBVIOUS
  <2>2. \A n \in 0 .. N : after[n] = IF n = 0 THEN UnknownRun ELSE Taken(after[n - 1], n)
    BY <1>4, Zenon
  <2>3. QED
    BY <2>1, <2>2
<1>6. QED
  BY <1>1, <1>5 DEF after, Taken

RunFields ==
  {"base", "goal", "source", "gates", "results", "attempts", "failures", "reworks", "escalated"}

(* Facts about one record.                                                  *)
LEMMA RunBegins ==
  /\ DOMAIN UnknownRun = RunFields /\ UnknownRun.base = "unknown" /\ UnknownRun.gates = {}
  /\ UnknownRun.results = [g \in Gates |-> "pending"]
BY DEF UnknownRun, RunFields

LEMMA RecordApplied ==
  ASSUME NEW run, DOMAIN run = RunFields, NEW rec \in RunRecords, rec.type # "plan-review"
  PROVE  LET next == ApplyRecord(run, rec) IN
         /\ DOMAIN next = RunFields
         /\ rec.type = "run-started" =>
              next.base = "running" /\ next.gates = rec.gates /\ next.goal = rec.goal /\ next.source = rec.source
         /\ rec.type # "run-started" =>
              next.gates = run.gates /\ next.goal = run.goal /\ next.source = run.source
         /\ rec.type = "attempt-started" => next.base = "running"
         /\ rec.type = "attempt-completed" =>
              next.base = IF rec.status = "failed" THEN "failed" ELSE run.base
         /\ rec.type \in ReworkTypes => next.base = "rework"
         /\ rec.type = "human-escalation" => next.base = "blocked"
         /\ rec.type = "gate-result" =>
              next.base = run.base /\ next.results = [run.results EXCEPT ![rec.gate] = rec.status]
         /\ rec.type # "gate-result" => next.results = run.results
<1>1. rec.type \in RecordTypes /\ (rec.type = "attempt-completed" => rec.status \in {"completed", "failed"})
  BY RecordFields
<1>2. CASE rec.type = "run-started"
  BY <1>2 DEF ApplyRecord, RunFields, ReworkTypes
<1>3. CASE rec.type = "attempt-started"
  <2>1. ApplyRecord(run, rec) = ApplyAttempt(run, rec)
    BY <1>3 DEF ApplyRecord, ReworkTypes
  <2>2. QED
    BY <1>3, <2>1 DEF ApplyAttempt, RunFields, ReworkTypes
<1>4. CASE rec.type = "attempt-completed"
  <2>1. ApplyRecord(run, rec) = ApplyAttempt(run, rec)
    BY <1>4 DEF ApplyRecord, ReworkTypes
  <2>2. rec.status \in FailedStatuses <=> rec.status = "failed"
    BY <1>1, <1>4 DEF FailedStatuses
  <2>3. QED
    BY <1>4, <2>1, <2>2 DEF ApplyAttempt, RunFields, ReworkTypes
<1>5. CASE rec.type = "gate-result"
  BY <1>5 DEF ApplyRecord, RunFields, ReworkTypes
<1>6. CASE rec.type \in ReworkTypes
  BY <1>6 DEF ApplyRecord, RunFields, ReworkTypes
<1>7. CASE rec.type = "human-escalation"
  BY <1>7 DEF ApplyRecord, RunFields, ReworkTypes
<1>8. QED
  BY <1>1, <1>2, <1>3, <1>4, <1>5, <1>6, <1>7 DEF RecordTypes

(* What a run that was started is after its first n lines, told from them.  *)
LastUpto(S, n) == {i \in S : i <= n /\ \A j \in S : j <= n => j <= i}

Resumed(r) == LinesOf(r, {"attempt-started"} \cup ReworkTypes)

Told(r, run, n) ==
  /\ DOMAIN run = RunFields /\ run.gates \subseteq Gates
  /\ DOMAIN run.results = Gates
  /\ run.base \notin {"verified", "verified-with-risks"}
  /\ \A g \in Gates :
       \/ run.results[g] = "pending" /\ \A i \in Results(r, g) : i > n
       \/ \E i \in LastUpto(Results(r, g), n) : run.results[g] = file.lines[i].status
  /\ \A i \in GivenUp(r) : i <= n =>
       run.base \in {"failed", "blocked"} \/ \E j \in Resumed(r) : i < j /\ j <= n

LEMMA RunsAreTold ==
  ASSUME StartInv, NEW r, NEW start \in LinesOf(r, {"run-started"}), NEW after, after[0] = UnknownRun,
         \A n \in 1 .. Len(file.lines) :
           after[n] = IF n \in RecordsOf(r) THEN ApplyRecord(after[n - 1], file.lines[n])
                      ELSE after[n - 1],
         NEW n \in 0 .. Len(file.lines) - 1, Told(r, after[n], n)
  PROVE  Told(r, after[n + 1], n + 1)
<1> DEFINE run == after[n]
           next == after[n + 1]
           rec == file.lines[n + 1]
<1>1. /\ Len(file.lines) \in Nat /\ DOMAIN file.lines = 1 .. Len(file.lines)
      /\ n \in Nat /\ n + 1 \in 1 .. Len(file.lines) /\ (n + 1) - 1 = n
  BY FileShape DEF StartInv
<1>2. \A i \in RecordsOf(r) : i \in Nat /\ file.lines[i] \in RunRecords /\ file.lines[i].run = r
  BY <1>1, FileShape DEF StartInv, RecordsOf
<1>3. \A i \in RecordsOf(r) : i <= n + 1 => i <= n \/ i = n + 1
  BY <1>1, <1>2
<1>4. /\ \A g \in Gates : Results(r, g) \subseteq RecordsOf(r)
      /\ GivenUp(r) \subseteq RecordsOf(r) /\ Resumed(r) \subseteq RecordsOf(r)
  BY DEF Results, GivenUp, Resumed, LinesOf
<1>5. CASE n + 1 \notin RecordsOf(r)
  <2>1. next = run
    BY <1>1, <1>5
  <2>2. \A g \in Gates : \A i \in Results(r, g) : i > n => i > n + 1
    BY <1>1, <1>2, <1>3, <1>4, <1>5
  <2>3. \A g \in Gates : LastUpto(Results(r, g), n) \subseteq LastUpto(Results(r, g), n + 1)
    BY <1>1, <1>2, <1>3, <1>4, <1>5 DEF LastUpto
  <2>4. \A i \in GivenUp(r) : i <= n + 1 => i <= n
    BY <1>3, <1>4, <1>5
  <2>5. \A j \in Resumed(r) : j <= n => j <= n + 1
    BY <1>1, <1>2, <1>4
  <2> HIDE DEF run, next
  <2>6. Told(r, run, n)
    BY DEF run
  <2>7. Told(r, next, n + 1)
    BY <2>1, <2>2, <2>3, <2>4, <2>5, <2>6 DEF Told
  <2>8. QED
    BY <2>7 DEF next
<1>6. CASE n + 1 \in RecordsOf(r)
  <2>1. next = ApplyRecord(run, rec) /\ rec \in RunRecords /\ rec.run = r
    BY <1>1, <1>2, <1>6
  <2>2. rec.type # "plan-review"
    <3>1. start \in RecordsOf(r) /\ file.lines[start].type = "run-started"
      BY DEF LinesOf
    <3>2. file.lines[start] \in RunRecords /\ file.lines[start].run = r
      BY <1>2, <3>1
    <3>3. r \notin Goals
      BY <3>1, <3>2, RecordFields
    <3>4. QED
      BY <2>1, <3>3, RecordFields
  <2>3. rec.type = "run-started" => \A i \in RecordsOf(r) : n + 1 <= i
    BY <1>1, <1>6 DEF StartInv, StartsFirst, RecordsOf
  <2> HIDE DEF run, next, rec
  <2>4. Told(r, run, n)
    BY DEF run
  <2>5. /\ DOMAIN next = RunFields
        /\ next.gates = IF rec.type = "run-started" THEN rec.gates ELSE run.gates
        /\ next.base \in {"running", "rework", "failed", "blocked", run.base}
        /\ rec.type = "gate-result" => next.results = [run.results EXCEPT ![rec.gate] = rec.status]
        /\ rec.type # "gate-result" => next.results = run.results
    BY <2>1, <2>2, <2>4, RecordApplied, RecordFields DEF Told, RecordTypes
  <2>6. next.gates \subseteq Gates /\ DOMAIN next.results = Gates
        /\ next.base \notin {"verified", "verified-with-risks"}
    BY <2>1, <2>4, <2>5, RecordFields DEF Told
  <2>7. ASSUME NEW g \in Gates
        PROVE  \/ next.results[g] = "pending" /\ \A i \in Results(r, g) : i > n + 1
               \/ \E i \in LastUpto(Results(r, g), n + 1) : next.results[g] = file.lines[i].status
    <3>1. CASE rec.type = "gate-result" /\ rec.gate = g
      <4>1. next.results[g] = rec.status
        BY <2>4, <2>5, <3>1 DEF Told
      <4>2. n + 1 \in Results(r, g)
        BY <1>6, <3>1 DEF Results, LinesOf, rec
      <4>3. n + 1 \in LastUpto(Results(r, g), n + 1)
        BY <1>1, <1>2, <1>4, <4>2 DEF LastUpto
      <4>4. QED
        BY <4>1, <4>3 DEF rec
    <3>2. CASE ~(rec.type = "gate-result" /\ rec.gate = g)
      <4>1. next.results[g] = run.results[g]
        BY <2>4, <2>5, <3>2 DEF Told
      <4>2. n + 1 \notin Results(r, g)
        BY <3>2 DEF Results, LinesOf, rec
      <4>3. \A i \in Results(r, g) : i > n => i > n + 1
        BY <1>1, <1>2, <1>3, <1>4, <4>2
      <4>4. LastUpto(Results(r, g), n) \subseteq LastUpto(Results(r, g), n + 1)
        BY <1>1, <1>2, <1>3, <1>4, <4>2 DEF LastUpto
      <4>5. QED
        BY <2>4, <4>1, <4>3, <4>4 DEF Told
    <3>3. QED
      BY <3>1, <3>2
  <2>8. ASSUME NEW i \in GivenUp(r), i <= n + 1
        PROVE  next.base \in {"failed", "blocked"} \/ \E j \in Resumed(r) : i < j /\ j <= n + 1
    <3>1. i \in RecordsOf(r) /\ i \in Nat
      BY <1>2, <1>4
    <3>2. CASE i = n + 1
      <4>1. rec.type = "human-escalation" \/ (rec.type = "attempt-completed" /\ rec.status \in FailedStatuses)
        BY <3>2 DEF GivenUp, LinesOf, rec
      <4>2. rec.type = "attempt-completed" => rec.status \in {"completed", "failed"}
        BY <2>1, RecordFields
      <4>3. next.base \in {"failed", "blocked"}
        BY <2>1, <2>2, <2>4, <4>1, <4>2, RecordApplied DEF FailedStatuses, Told
      <4>4. QED
        BY <4>3
    <3>3. CASE i <= n
      <4>1. CASE rec.type \in {"attempt-started"} \cup ReworkTypes
        <5>1. n + 1 \in Resumed(r)
          BY <1>6, <4>1 DEF Resumed, LinesOf, rec
        <5>2. i < n + 1
          BY <1>1, <3>1, <3>3
        <5>3. QED
          BY <1>1, <5>1, <5>2
      <4>2. CASE rec.type = "run-started"
        BY <1>1, <2>3, <3>1, <3>3, <4>2
      <4>3. CASE rec.type \in {"attempt-completed", "human-escalation", "gate-result"}
        <5>1. next.base \in {"failed", "blocked", run.base}
          BY <2>1, <2>2, <2>4, <4>3, RecordApplied DEF Told
        <5>2. run.base \in {"failed", "blocked"} \/ \E j \in Resumed(r) : i < j /\ j <= n
          BY <2>4, <3>3 DEF Told
        <5>3. \A j \in Resumed(r) : j <= n => j <= n + 1
          BY <1>1, <1>2, <1>4
        <5>4. QED
          BY <5>1, <5>2, <5>3
      <4>4. QED
        BY <2>1, <2>2, <4>1, <4>2, <4>3, RecordFields DEF RecordTypes
    <3>4. QED
      BY <1>3, <2>8, <3>1, <3>2, <3>3
  <2>9. Told(r, next, n + 1)
    BY <2>5, <2>6, <2>7, <2>8 DEF Told
  <2>10. QED
    BY <2>9 DEF next
<1>7. QED
  BY <1>5, <1>6

(* Facts about the first natural number without a property cannot be stated *)
(* for all properties; this one is about sets.                              *)
LEMMA FirstMissing ==
  ASSUME NEW N \in Nat, NEW S, 0 \in S, \A n \in 0 .. N - 1 : n \in S => n + 1 \in S
  PROVE  N \in S
<1> DEFINE Missing == {m \in 0 .. N : m \notin S}
<1> SUFFICES ASSUME Missing # {} PROVE FALSE
  OBVIOUS
<1>1. PICK m \in Missing : \A k \in Missing : <<k, m>> \notin OpToRel(<, Nat)
  <2>1. Missing \subseteq Nat
    OBVIOUS
  <2> HIDE DEF Missing
  <2>2. QED
    BY <2>1, NatLessThanWellFounded, WFMin, Zenon
<1>2. m \in Nat /\ m # 0 /\ m <= N
  <2>1. m \in 0 .. N /\ m \notin S
    BY <1>1, Zenon
  <2>2. m # 0
    BY <2>1
  <2>3. QED
    BY <2>1, <2>2
<1>3. m - 1 \in 0 .. N - 1 /\ (m - 1) + 1 = m /\ m - 1 < m /\ m - 1 \in Nat /\ m - 1 \in 0 .. N
  BY <1>2
<1>4. m - 1 \notin Missing
  BY <1>1, <1>2, <1>3 DEF OpToRel
<1>5. QED
  BY <1>1, <1>3, <1>4

LEMMA RunIsTold ==
  ASSUME StartInv, NEW r, LinesOf(r, {"run-started"}) # {}
  PROVE  Told(r, RunOf(r), Len(file.lines))
<1> DEFINE N == Len(file.lines)
<1>1. N \in Nat /\ \A i \in RecordsOf(r) : i > 0
  BY FileShape DEF StartInv, RecordsOf
<1>2. PICK after : /\ RunOf(r) = after[N] /\ after[0] = UnknownRun
                   /\ \A n \in 1 .. N :
                        after[n] = IF n \in RecordsOf(r) THEN ApplyRecord(after[n - 1], file.lines[n])
                                   ELSE after[n - 1]
  BY <1>1, RunIsDerived
<1> DEFINE S == {n \in 0 .. N : Told(r, after[n], n)}
<1>3. Told(r, UnknownRun, 0)
  <2>1. \A g \in Gates : Results(r, g) \subseteq RecordsOf(r)
    BY DEF Results, LinesOf
  <2>2. GivenUp(r) \subseteq RecordsOf(r)
    BY DEF GivenUp, LinesOf
  <2>3. \A i \in RecordsOf(r) : i \in Nat
    BY FileShape DEF StartInv, RecordsOf
  <2>4. QED
    BY <1>1, <2>1, <2>2, <2>3, RunBegins DEF Told
<1>4. \A n \in 0 .. N - 1 : n \in S => n + 1 \in S
  <2> SUFFICES ASSUME NEW n \in 0 .. N - 1, Told(r, after[n], n) PROVE n + 1 \in S
    OBVIOUS
  <2>1. Told(r, after[n + 1], n + 1)
    BY <1>2, RunsAreTold
  <2>2. n + 1 \in 0 .. N
    BY <1>1
  <2>3. QED
    BY <2>1, <2>2
<1>5. 0 \in S
  BY <1>1, <1>2, <1>3
<1> HIDE DEF S
<1>6. N \in S
  BY <1>1, <1>4, <1>5, FirstMissing
<1>7. QED
  BY <1>2, <1>6 DEF S

LEMMA VerifiedRunsAreEarned == StartInv => VerifiedIsEarned
<1> SUFFICES ASSUME StartInv, NEW r \in Runs, LinesOf(r, {"run-started"}) # {}, Verified(r)
             PROVE  /\ \A g \in RequiredGates(RunOf(r)) :
                         \E i \in LastOf(Results(r, g)) : file.lines[i].status = "pass"
                    /\ \A g \in Gates : \A i \in LastOf(Results(r, g)) : file.lines[i].status # "fail"
                    /\ \A i \in GivenUp(r) : \E j \in Resumed(r) : j > i
  BY DEF VerifiedIsEarned, Resumed
<1> DEFINE run == RunOf(r)
           N == Len(file.lines)
<1>1. Told(r, run, N)
  BY RunIsTold
<1>2. \A i \in RecordsOf(r) : i \in Nat /\ i <= N
  BY FileShape DEF StartInv, RecordsOf
<1>3. \A g \in Gates : LastUpto(Results(r, g), N) = LastOf(Results(r, g))
  BY <1>2 DEF LastUpto, LastOf, Results, LinesOf
<1>4. /\ ~HasResult(run, Gates, "fail") /\ run.base \notin Preserved
      /\ \A g \in RequiredGates(run) : run.results[g] = "pass"
  <2> HIDE DEF run
  <2>1. RunStatus(run) \in {"verified", "verified-with-risks"}
    BY DEF Verified, run
  <2>2. run.base \notin {"verified", "verified-with-risks"}
    BY <1>1 DEF Told
  <2>3. QED
    BY <2>1, <2>2 DEF RunStatus
<1>5. RequiredGates(run) \subseteq Gates
  <2> HIDE DEF run
  <2>1. QED
    BY <1>1, FactoryConstants DEF RequiredGates, Told
<1> HIDE DEF run
<1>6. ASSUME NEW g \in RequiredGates(run)
      PROVE  \E i \in LastOf(Results(r, g)) : file.lines[i].status = "pass"
  BY <1>1, <1>3, <1>4, <1>5 DEF Told
<1>7. ASSUME NEW g \in Gates, NEW i \in LastOf(Results(r, g)) PROVE file.lines[i].status # "fail"
  <2>1. i \in Results(r, g) /\ i \in RecordsOf(r) /\ i <= N /\ i \in Nat
    BY <1>2, <1>7 DEF LastOf, Results, LinesOf
  <2>2. ~\A j \in Results(r, g) : j > N
    BY <1>2, <2>1, FileShape DEF StartInv
  <2>3. PICK j \in LastOf(Results(r, g)) : run.results[g] = file.lines[j].status
    BY <1>1, <1>3, <2>2 DEF Told
  <2>4. i = j
    BY <1>2, <1>7, <2>3 DEF LastOf, Results, LinesOf
  <2>5. QED
    BY <1>4, <2>3, <2>4 DEF HasResult
<1>8. ASSUME NEW i \in GivenUp(r) PROVE \E j \in Resumed(r) : j > i
  <2>1. i \in RecordsOf(r)
    BY DEF GivenUp, LinesOf
  <2>2. run.base \notin {"failed", "blocked"}
    BY <1>4 DEF Preserved
  <2>3. \A j \in Resumed(r) : j \in Nat
    BY <1>2 DEF Resumed, LinesOf
  <2>4. QED
    BY <1>1, <1>2, <2>1, <2>2, <2>3 DEF Told
<1>9. QED
  BY <1>6, <1>7, <1>8 DEF run

(* A run that was started and is shown as verified has earned it, whatever  *)
(* sessions append at the same time, spoil or are killed at: the status is  *)
(* what the last results of its gates say, and no failed attempt or         *)
(* escalation is left standing (deriveFactoryState of factory.mjs).         *)
THEOREM VerifiedRunsHold == FactorySpec => []VerifiedIsEarned
BY StartHolds, VerifiedRunsAreEarned, PTL

-----------------------------------------------------------------------------
(* The run of a mission is found again by what its first record says, which *)
(* nothing noted later changes.                                             *)
Linking(s) ==
  Carries(s) /\ cmd[s].record.type = "run-started" /\ cmd[s].record.source = "peer-mission"

(* No two sessions are linking a run to the same goal. *)
OneLinker ==
  \A s, u \in Sessions : Linking(s) /\ Linking(u) /\ cmd[s].record.goal = cmd[u].record.goal => s = u

LinkInv ==
  /\ StartInv
  /\ \A g \in Goals \cup {NoGoal} : \A i, j \in MissionStarts(g) : i = j
  /\ \A s \in Sessions : Linking(s) => MissionStarts(cmd[s].record.goal) = {}

LEMMA StartedRunIsLinked ==
  ASSUME StartInv, NEW g, NEW i \in MissionStarts(g)
  PROVE  file.lines[i].run \in LinkedRuns("peer-mission", g)
<1> DEFINE r == file.lines[i].run
           N == Len(file.lines)
<1>1. /\ N \in Nat /\ DOMAIN file.lines = 1 .. N /\ i \in 1 .. N
      /\ file.lines[i] \in RunRecords /\ file.lines[i].type = "run-started"
      /\ file.lines[i].source = "peer-mission" /\ file.lines[i].goal = g
  BY FileShape DEF StartInv, MissionStarts
<1>2. r \in Runs /\ r \notin Goals
  BY <1>1, RecordFields
<1>3. PICK after : /\ RunOf(r) = after[N] /\ after[0] = UnknownRun
                   /\ \A n \in 1 .. N :
                        after[n] = IF n \in RecordsOf(r) THEN ApplyRecord(after[n - 1], file.lines[n])
                                   ELSE after[n - 1]
  BY <1>1, RunIsDerived
<1> DEFINE Told1(n) == /\ DOMAIN after[n] = RunFields
                       /\ i <= n => after[n].source = "peer-mission" /\ after[n].goal = g
           S == {n \in 0 .. N : Told1(n)}
<1>4. 0 \in S
  BY <1>1, <1>3, RunBegins
<1>5. ASSUME NEW n \in 0 .. N - 1, Told1(n) PROVE n + 1 \in S
  <2>1. n \in Nat /\ n + 1 \in 1 .. N /\ n + 1 \in 0 .. N /\ (n + 1) - 1 = n
    BY <1>1
  <2>2. CASE n + 1 \notin RecordsOf(r)
    <3>1. after[n + 1] = after[n]
      BY <1>3, <2>1, <2>2
    <3>2. i # n + 1
      BY <1>1, <2>2 DEF MissionStarts, RecordsOf
    <3>3. QED
      BY <1>1, <1>5, <2>1, <3>1, <3>2
  <2>3. CASE n + 1 \in RecordsOf(r)
    <3> DEFINE rec == file.lines[n + 1]
    <3>1. after[n + 1] = ApplyRecord(after[n], rec)
      BY <1>3, <2>1, <2>3
    <3>2. rec \in RunRecords /\ rec.run = r
      BY <2>3, FileShape DEF StartInv, RecordsOf
    <3>3. rec.type # "plan-review"
      BY <1>2, <3>2, RecordFields
    <3>4. rec.type = "run-started" => n + 1 = i
      <4>1. rec.type = "run-started" => n + 1 <= i /\ i <= n + 1
        BY <1>1, <2>1, <2>3 DEF StartInv, StartsFirst, RecordsOf, MissionStarts
      <4>2. QED
        BY <1>1, <2>1, <4>1
    <3> HIDE DEF rec
    <3> DEFINE run == after[n]
    <3>5. DOMAIN run = RunFields
      BY <1>5
    <3>6. /\ DOMAIN after[n + 1] = RunFields
          /\ IF rec.type = "run-started" THEN after[n + 1].source = rec.source /\ after[n + 1].goal = rec.goal
             ELSE after[n + 1].source = after[n].source /\ after[n + 1].goal = after[n].goal
      <4> HIDE DEF run
      <4>1. LET next == ApplyRecord(run, rec) IN
              /\ DOMAIN next = RunFields
              /\ IF rec.type = "run-started" THEN next.source = rec.source /\ next.goal = rec.goal
                 ELSE next.source = run.source /\ next.goal = run.goal
        BY <3>2, <3>3, <3>5, RecordApplied
      <4>2. QED
        BY <3>1, <4>1 DEF run
    <3>7. i = n + 1 => rec.type = "run-started" /\ rec.source = "peer-mission" /\ rec.goal = g
      BY <1>1 DEF rec
    <3>8. QED
      BY <1>1, <1>5, <2>1, <3>4, <3>6, <3>7
  <2>4. QED
    BY <2>2, <2>3
<1>6. N \in S
  <2>1. \A n \in 0 .. N - 1 : n \in S => n + 1 \in S
    BY <1>5
  <2> HIDE DEF S
  <2>2. QED
    BY <1>1, <1>4, <2>1, FirstMissing
<1>7. RunOf(r).source = "peer-mission" /\ RunOf(r).goal = g
  BY <1>1, <1>3, <1>6
<1>8. QED
  BY <1>2, <1>7 DEF LinkedRuns

LEMMA LinkMoves ==
  ASSUME LinkInv, OneLinker, NEW s \in Sessions, NEW new, Moves(s, new)
  PROVE  LinkInv'
<1>1. StartInv' /\ StartInv /\ FactoryShape
  BY StartMoves DEF LinkInv, StartInv
<1>2. /\ FactoryShape' /\ cmd'[s] = new /\ \A u \in Sessions : u # s => cmd'[u] = cmd[u]
      /\ \A i \in DOMAIN file'.lines : IsRecord(i)' =>
           \/ i \in DOMAIN file.lines /\ file'.lines[i] = file.lines[i]
           \/ Writes(s, new) /\ i = Len(file.lines) + 1 /\ file'.lines[i] = cmd[s].record
  BY <1>1, MovesKeepShape
<1> DEFINE StartsThen(g) ==
             {i \in DOMAIN file'.lines : /\ IsRecord(i)' /\ file'.lines[i].type = "run-started"
                                         /\ file'.lines[i].source = "peer-mission" /\ file'.lines[i].goal = g}
<1>3. \A g : \A i \in StartsThen(g) :
        \/ i \in MissionStarts(g)
        \/ /\ Writes(s, new) /\ Linking(s) /\ cmd[s].record.goal = g /\ i = Len(file.lines) + 1
  BY <1>2 DEF MissionStarts, IsRecord, Linking, Writes, Carries, Carrying, At
<1>4. ASSUME NEW g \in Goals \cup {NoGoal}, NEW i \in StartsThen(g), NEW j \in StartsThen(g)
      PROVE  i = j
  <2>1. CASE Writes(s, new) /\ Linking(s) /\ cmd[s].record.goal = g
    <3>1. MissionStarts(g) = {}
      BY <2>1 DEF LinkInv
    <3>2. ASSUME NEW k \in StartsThen(g) PROVE k = Len(file.lines) + 1
      BY <1>3, <3>1, <3>2
    <3>3. QED
      BY <3>2
  <2>2. CASE ~(Writes(s, new) /\ Linking(s) /\ cmd[s].record.goal = g)
    BY <1>3, <2>2 DEF LinkInv
  <2>3. QED
    BY <2>1, <2>2
<1>5. ASSUME NEW u \in Sessions, Linking(u)'
      PROVE  StartsThen(cmd'[u].record.goal) = {}
  <2>1. CASE u = s /\ Begins(s, new)
    <3>1. new.record.type = "run-started" /\ new.record.source = "peer-mission"
      BY <1>2, <1>5, <2>1 DEF Linking
    <3>2. LinkedRuns("peer-mission", new.record.goal) = {}
      BY <2>1, <3>1 DEF Begins, MayBegin, Fresh
    <3>3. MissionStarts(new.record.goal) = {}
      BY <1>1, <3>2, StartedRunIsLinked
    <3>4. ~Writes(s, new)
      BY <2>1 DEF Begins, Writes, Carrying
    <3>5. QED
      BY <1>2, <1>3, <2>1, <3>3, <3>4
  <2>2. CASE u # s \/ ~Begins(s, new)
    <3>1. Carries(u) /\ cmd'[u].record = cmd[u].record /\ (u = s => ~Writes(s, new))
      BY <1>2, <1>5, <2>2 DEF Moves, GoesOn, Empties, Writes, Carries, Carrying, At, Linking
    <3>2. Linking(u)
      BY <1>5, <3>1 DEF Linking
    <3>3. MissionStarts(cmd[u].record.goal) = {}
      BY <3>2 DEF LinkInv
    <3>4. Writes(s, new) /\ Linking(s) => cmd[s].record.goal # cmd[u].record.goal
      BY <3>1, <3>2 DEF OneLinker
    <3>5. QED
      BY <1>3, <3>1, <3>3, <3>4
  <2>3. QED
    BY <2>1, <2>2
<1>6. QED
  BY <1>1, <1>4, <1>5 DEF LinkInv, MissionStarts

LEMMA LinkHolds == FactorySpec /\ []OneLinker => []LinkInv
<1>1. MissionInit => LinkInv
  BY StartBegins, NoCommandYet DEF MissionInit, LinkInv, MissionStarts, Linking, Carries, Carrying
<1>2. LinkInv /\ OneLinker /\ [FactoryNext]_missionVars => LinkInv'
  <2> SUFFICES ASSUME LinkInv, OneLinker, [FactoryNext]_missionVars PROVE LinkInv'
    OBVIOUS
  <2>1. CASE UNCHANGED <<file, cmd>>
    BY <2>1 DEF LinkInv, StartInv, FactoryShape, StartsFirst, StartsAlone, Carries, RecordsOf, IsRecord,
       MissionStarts, Linking
  <2>2. QED
    BY <2>1, FactoryMoves, LinkMoves DEF LinkInv, StartInv
<1>3. QED
  BY <1>1, <1>2, PTL DEF FactorySpec

(* However often a mission is called, interrupted and called again, and     *)
(* whatever is noted of its run meanwhile, a goal gets one run from it, as  *)
(* long as no two sessions link a run to it at once (startLinkedFactoryRun, *)
(* findFactoryRunByLink): what is between the look-up and the record is     *)
(* unlocked, and that is the only way to get a second.                      *)
THEOREM OneRunUnlessTwoLink == FactorySpec /\ []OneLinker => []OneRunPerLink
<1>1. LinkInv => OneRunPerLink
  <2> SUFFICES ASSUME LinkInv, NEW g \in Goals PROVE Cardinality(MissionStarts(g)) <= 1
    BY DEF OneRunPerLink
  <2>1. CASE MissionStarts(g) = {}
    BY <2>1, FS_EmptySet
  <2>2. CASE MissionStarts(g) # {}
    <3>1. PICK i : i \in MissionStarts(g)
      BY <2>2
    <3>2. MissionStarts(g) = {i}
      BY <3>1 DEF LinkInv
    <3>3. QED
      BY <3>2, FS_Singleton
  <2>3. QED
    BY <2>1, <2>2
<1>2. QED
  BY <1>1, LinkHolds, PTL

(* With one session a goal never gets a second run from a mission.          *)
THEOREM OneRunAfterAnyKill ==
  ASSUME \A s, u \in Sessions : s = u
  PROVE  FactorySpec => []OneRunPerLink
<1>1. OneLinker
  BY DEF OneLinker
<1>2. FactorySpec => []OneLinker
  BY <1>1, PTL
<1>3. QED
  BY <1>2, OneRunUnlessTwoLink, PTL

-----------------------------------------------------------------------------
(***************************************************************************)
(* The message store, with any number of waiting and of failing saves: a   *)
(* message that is stored as finished stays so, and a failed save is made  *)
(* good by the next.                                                       *)
(*                                                                         *)
(* A save writes what it merged some time ago.  That it undoes nothing     *)
(* rests on the lock: whoever has read is the only one to write, and a     *)
(* lock is removed only when its holder no longer writes.  That the last   *)
(* save is enough rests on every save carrying all the session knows.      *)
(***************************************************************************)
Snapshots == [status : {"none", "disconnected"} \cup ActiveMail \cup Terminal, at : Nat]
Stores == [Mail -> Snapshots]
Points == {"idle", "waiting", "reading", "writing"}
Locking(s) == saving[s].at \in {"reading", "writing"}

StoreShape ==
  /\ known \in [Users -> Stores] /\ stored \in Stores
  /\ user \in [Users -> {"off", "starting", "on"}]
  /\ unsaved \in [Users -> Seq(Stores)]
  /\ saving \in [Users -> [at : Points, store : Stores]]
  /\ healthy \in SUBSET Users
  /\ mailTime \in Nat

(* Who reads or writes holds the lock. *)
WriterHoldsLock == \A s \in Users : Locking(s) => storeLock = s

(* What is about to be written has every end that is stored. *)
WriteKeepsEnds ==
  \A s \in Users, m \in Mail :
    saving[s].at = "writing" /\ Finished(stored[m]) => Finished(saving[s].store[m])

(* The last save that waits is of what the session knows. *)
LastSaveKnowsAll ==
  \A s \in Users : unsaved[s] # <<>> => unsaved[s][Len(unsaved[s])] = known[s]

(* With none waiting, the save under way has every end the session knows,   *)
(* and with none under way the store has, unless the latest save failed.    *)
NothingIsForgotten ==
  \A s \in Users, m \in Mail :
    unsaved[s] = <<>> /\ Finished(known[s][m]) =>
      /\ saving[s].at # "idle" => Finished(saving[s].store[m])
      /\ Flushed(s) /\ s \in healthy => Finished(stored[m])

OffIsQuiet == \A s \in Users : user[s] # "on" => Flushed(s)

MergeInv == StoreShape /\ WriterHoldsLock /\ WriteKeepsEnds
StoreInv == MergeInv /\ LastSaveKnowsAll /\ NothingIsForgotten /\ OffIsQuiet

-----------------------------------------------------------------------------
(* Facts about single snapshots and merges. *)
LEMMA EmptyIsAStore == Empty \in Stores /\ NotSaving \in [at : Points, store : Stores]
BY DEF Empty, NoMail, NotSaving, Stores, Snapshots, Points

LEMMA NothingHasEnded == \A m \in Mail : ~Finished(Empty[m])
BY DEF Empty, NoMail, Finished, Terminal

(* mergePeerMessageStores loses no end of either side. *)
LEMMA MergeKeepsEnds ==
  ASSUME NEW existing \in Stores, NEW incoming \in Stores
  PROVE  /\ Merge(existing, incoming) \in Stores
         /\ \A m \in Mail : Finished(existing[m]) \/ Finished(incoming[m])
                              => Finished(Merge(existing, incoming)[m])
<1>1. ASSUME NEW m \in Mail
      PROVE  /\ Merge(existing, incoming)[m] \in {existing[m], incoming[m]}
             /\ Finished(existing[m]) \/ Finished(incoming[m])
                  => Finished(Merge(existing, incoming)[m])
  <2>1. ~Finished(NoMail)
    BY DEF NoMail, Finished, Terminal
  <2>2. QED
    BY <2>1 DEF Merge, NewerOf
<1>2. Merge(existing, incoming) \in Stores
  BY <1>1 DEF Merge, Stores
<1>3. QED
  BY <1>1, <1>2

LEMMA StoreStart == StoreInit => StoreInv
<1> SUFFICES ASSUME StoreInit PROVE StoreInv
  OBVIOUS
<1>1. StoreShape
  BY EmptyIsAStore DEF StoreInit, StoreShape
<1>2. \A s \in Users : saving[s].at = "idle" /\ unsaved[s] = <<>>
  BY DEF StoreInit, NotSaving
<1>3. WriterHoldsLock /\ WriteKeepsEnds /\ LastSaveKnowsAll /\ OffIsQuiet
  BY <1>2 DEF WriterHoldsLock, Locking, WriteKeepsEnds, LastSaveKnowsAll, OffIsQuiet, Flushed
<1>4. NothingIsForgotten
  BY NothingHasEnded DEF StoreInit, NothingIsForgotten
<1>5. QED
  BY <1>1, <1>3, <1>4 DEF StoreInv, MergeInv

-----------------------------------------------------------------------------
(* A session that starts: what it reads has ended is stored as ended. *)
LEMMA StartSteps ==
  ASSUME StoreInv, NEW s \in Users, LoadStore(s) \/ HydratePersistedState(s)
  PROVE  StoreInv' /\ stored' = stored
<1>1. UNCHANGED <<unsaved, saving, healthy, storeLock, stored, mailTime>>
  BY DEF LoadStore, HydratePersistedState
<1>2. ASSUME NEW snapshot \in Snapshots
      PROVE  Recovered(snapshot) \in Snapshots /\ (Finished(Recovered(snapshot)) => Finished(snapshot))
  BY DEF Recovered, Snapshots, Finished, Terminal, ActiveMail, StoreInv, MergeInv, StoreShape
<1>3. known' \in [Users -> Stores] /\ user' \in [Users -> {"off", "starting", "on"}]
  <2>1. user' \in [Users -> {"off", "starting", "on"}]
    BY DEF LoadStore, HydratePersistedState, StoreInv, MergeInv, StoreShape
  <2>2. CASE LoadStore(s)
    BY <2>1, <2>2 DEF LoadStore, StoreInv, MergeInv, StoreShape
  <2>3. CASE HydratePersistedState(s)
    <3>1. known' = [known EXCEPT ![s] = [m \in Mail |-> Recovered(known[s][m])]]
      BY <2>3 DEF HydratePersistedState, StoreInv, MergeInv, StoreShape
    <3>2. known[s] \in [Mail -> Snapshots]
      BY DEF StoreInv, MergeInv, StoreShape, Stores
    <3>3. [m \in Mail |-> Recovered(known[s][m])] \in Stores
      BY <1>2, <3>2 DEF Stores
    <3>4. QED
      BY <2>1, <3>1, <3>3 DEF StoreInv, MergeInv, StoreShape
  <2>4. QED
    BY <2>2, <2>3
<1>4. \A t \in Users : t # s => known'[t] = known[t] /\ user'[t] = user[t]
  BY DEF LoadStore, HydratePersistedState, StoreInv, MergeInv, StoreShape
<1>5. Flushed(s)
  BY DEF LoadStore, HydratePersistedState, StoreInv, OffIsQuiet
<1>6. \A m \in Mail : Finished(known'[s][m]) => Finished(stored[m]) \/ Finished(known[s][m])
  BY <1>2 DEF LoadStore, HydratePersistedState, StoreInv, MergeInv, StoreShape, Stores
<1>7. MergeInv' /\ OffIsQuiet'
  BY <1>1, <1>3, <1>4, <1>5 DEF StoreInv, MergeInv, StoreShape, WriterHoldsLock, Locking, WriteKeepsEnds,
     OffIsQuiet, Flushed
<1>8. LastSaveKnowsAll'
  <2>1. ASSUME NEW t \in Users, unsaved[t] # <<>> PROVE unsaved[t][Len(unsaved[t])] = known'[t]
    <3>1. t # s
      BY <1>5, <2>1 DEF Flushed
    <3>2. QED
      BY <1>4, <2>1, <3>1 DEF StoreInv, LastSaveKnowsAll
  <2>2. QED
    BY <1>1, <2>1 DEF LastSaveKnowsAll
<1>9. NothingIsForgotten'
  <2>1. ASSUME NEW t \in Users, NEW m \in Mail, unsaved[t] = <<>>, Finished(known'[t][m])
        PROVE  /\ saving[t].at # "idle" => Finished(saving[t].store[m])
               /\ Flushed(t) /\ t \in healthy => Finished(stored[m])
    <3>1. CASE t = s
      BY <1>5, <1>6, <2>1, <3>1 DEF StoreInv, NothingIsForgotten, Flushed
    <3>2. CASE t # s
      BY <1>4, <2>1, <3>2 DEF StoreInv, NothingIsForgotten
    <3>3. QED
      BY <3>1, <3>2
  <2>2. QED
    BY <1>1, <2>1 DEF NothingIsForgotten, Flushed
<1>10. QED
  BY <1>1, <1>7, <1>8, <1>9 DEF StoreInv

(* A message changes: all that the session knows is to be saved. *)
LEMMA ChangeStep ==
  ASSUME StoreInv, NEW s \in Users, MailChanges(s)
  PROVE  StoreInv' /\ stored' = stored
<1>1. /\ UNCHANGED <<user, saving, healthy, storeLock, stored, mailTime>>
      /\ user[s] = "on"
      /\ unsaved' = [unsaved EXCEPT ![s] = Append(@, known'[s])]
  BY DEF MailChanges
<1>2. known' \in [Users -> Stores] /\ \A t \in Users : t # s => known'[t] = known[t]
  <2>1. PICK m \in Mail : \E status \in NextStatuses(known[s][m].status) :
          known' = [known EXCEPT ![s][m] = [status |-> status, at |-> mailTime]]
    BY DEF MailChanges
  <2>2. \A status \in NextStatuses(known[s][m].status) : [status |-> status, at |-> mailTime] \in Snapshots
    BY DEF NextStatuses, Snapshots, ActiveMail, Terminal, StoreInv, MergeInv, StoreShape
  <2>3. QED
    BY <2>1, <2>2 DEF StoreInv, MergeInv, StoreShape, Stores
<1>3. known'[s] \in Stores /\ unsaved[s] \in Seq(Stores)
  BY <1>2 DEF StoreInv, MergeInv, StoreShape
<1>4. Append(unsaved[s], known'[s]) \in Seq(Stores) /\ Append(unsaved[s], known'[s]) # <<>>
      /\ Append(unsaved[s], known'[s])[Len(Append(unsaved[s], known'[s]))] = known'[s]
  BY <1>3, AppendProperties
<1>5. /\ unsaved' \in [Users -> Seq(Stores)]
      /\ unsaved'[s] = Append(unsaved[s], known'[s])
      /\ \A t \in Users : t # s => unsaved'[t] = unsaved[t]
  BY <1>1, <1>4 DEF StoreInv, MergeInv, StoreShape
<1>6. MergeInv'
  BY <1>1, <1>2, <1>5 DEF StoreInv, MergeInv, StoreShape, WriterHoldsLock, Locking, WriteKeepsEnds
<1>7. LastSaveKnowsAll' /\ NothingIsForgotten' /\ OffIsQuiet'
  BY <1>1, <1>2, <1>4, <1>5
  DEF StoreInv, LastSaveKnowsAll, NothingIsForgotten, OffIsQuiet, Flushed
<1>8. QED
  BY <1>1, <1>6, <1>7 DEF StoreInv

(* The first of the waiting saves is taken up. *)
LEMMA StartSaveStep ==
  ASSUME StoreInv, NEW s \in Users, StartSave(s)
  PROVE  StoreInv' /\ stored' = stored
<1>1. /\ UNCHANGED <<known, user, healthy, storeLock, stored, mailTime>>
      /\ saving[s].at = "idle" /\ unsaved[s] # <<>>
      /\ saving' = [saving EXCEPT ![s] = [at |-> "waiting", store |-> Head(unsaved[s])]]
      /\ unsaved' = [unsaved EXCEPT ![s] = Tail(@)]
  BY DEF StartSave, SaveTo
<1>2. unsaved[s] \in Seq(Stores)
  BY DEF StoreInv, MergeInv, StoreShape
<1>3. /\ Head(unsaved[s]) \in Stores /\ Tail(unsaved[s]) \in Seq(Stores)
      /\ Len(Tail(unsaved[s])) = Len(unsaved[s]) - 1
      /\ \A i \in 1 .. Len(Tail(unsaved[s])) : Tail(unsaved[s])[i] = unsaved[s][i + 1]
      /\ Head(unsaved[s]) = unsaved[s][1]
  BY <1>1, <1>2, HeadTailProperties
<1>4. /\ Tail(unsaved[s]) # <<>> => Tail(unsaved[s])[Len(Tail(unsaved[s]))] = unsaved[s][Len(unsaved[s])]
      /\ Tail(unsaved[s]) = <<>> => Head(unsaved[s]) = unsaved[s][Len(unsaved[s])]
  <2>1. Len(unsaved[s]) \in Nat /\ Len(Tail(unsaved[s])) \in Nat
    BY <1>2, <1>3, LenProperties
  <2>2. Tail(unsaved[s]) = <<>> <=> Len(Tail(unsaved[s])) = 0
    BY <1>3, EmptySeq
  <2>3. QED
    BY <1>3, <2>1, <2>2
<1>5. /\ unsaved' \in [Users -> Seq(Stores)] /\ unsaved'[s] = Tail(unsaved[s])
      /\ saving' \in [Users -> [at : Points, store : Stores]]
      /\ saving'[s] = [at |-> "waiting", store |-> Head(unsaved[s])]
      /\ \A t \in Users : t # s => unsaved'[t] = unsaved[t] /\ saving'[t] = saving[t]
  BY <1>1, <1>3 DEF StoreInv, MergeInv, StoreShape, Points
<1>6. MergeInv'
  BY <1>1, <1>5 DEF StoreInv, MergeInv, StoreShape, WriterHoldsLock, Locking, WriteKeepsEnds
<1>7. LastSaveKnowsAll'
  BY <1>1, <1>4, <1>5 DEF StoreInv, LastSaveKnowsAll
<1>8. NothingIsForgotten' /\ OffIsQuiet'
  BY <1>1, <1>4, <1>5 DEF StoreInv, LastSaveKnowsAll, NothingIsForgotten, OffIsQuiet, Flushed
<1>9. QED
  BY <1>1, <1>6, <1>7, <1>8 DEF StoreInv

(* The lock is taken, or found stale and removed. *)
LEMMA LockSteps ==
  ASSUME StoreInv, NEW s \in Users, TakeStoreLock(s) \/ RemoveStaleMessageStoreLock(s)
  PROVE  StoreInv' /\ stored' = stored
<1>1. UNCHANGED <<known, user, unsaved, healthy, stored, mailTime>>
  BY DEF TakeStoreLock, RemoveStaleMessageStoreLock
<1>2. /\ saving' \in [Users -> [at : Points, store : Stores]]
      /\ \A t \in Users : /\ saving'[t].store = saving[t].store
                          /\ saving'[t].at = "idle" <=> saving[t].at = "idle"
                          /\ saving'[t].at = "writing" => saving[t].at = "writing"
  <2>1. CASE TakeStoreLock(s)
    <3>1. /\ saving[s].at = "waiting" /\ saving[s].store \in Stores
          /\ saving' = [saving EXCEPT ![s] = [at |-> "reading", store |-> saving[s].store]]
      BY <2>1 DEF TakeStoreLock, SaveTo, StoreInv, MergeInv, StoreShape
    <3>2. /\ saving'[s] = [at |-> "reading", store |-> saving[s].store]
          /\ \A t \in Users : t # s => saving'[t] = saving[t]
      BY <3>1 DEF StoreInv, MergeInv, StoreShape
    <3>3. saving' \in [Users -> [at : Points, store : Stores]]
      BY <3>1 DEF StoreInv, MergeInv, StoreShape, Points
    <3>4. QED
      BY <3>1, <3>2, <3>3
  <2>2. CASE RemoveStaleMessageStoreLock(s)
    BY <2>2 DEF RemoveStaleMessageStoreLock, StoreInv, MergeInv, StoreShape
  <2>3. QED
    BY <2>1, <2>2
<1>3. WriterHoldsLock'
  <2>1. CASE TakeStoreLock(s)
    <3>1. \A t \in Users : ~Locking(t)
      BY <2>1, StoreConstants DEF TakeStoreLock, StoreInv, MergeInv, WriterHoldsLock
    <3>2. QED
      BY <2>1, <3>1 DEF TakeStoreLock, SaveTo, WriterHoldsLock, Locking, StoreInv, MergeInv, StoreShape
  <2>2. CASE RemoveStaleMessageStoreLock(s)
    <3>1. \A t \in Users : ~Locking(t)
      BY <2>2 DEF RemoveStaleMessageStoreLock, StoreInv, MergeInv, WriterHoldsLock, Locking
    <3>2. QED
      BY <2>2, <3>1 DEF RemoveStaleMessageStoreLock, WriterHoldsLock, Locking
  <2>3. QED
    BY <2>1, <2>2
<1>4. MergeInv'
  BY <1>1, <1>2, <1>3 DEF StoreInv, MergeInv, StoreShape, WriteKeepsEnds
<1>5. LastSaveKnowsAll' /\ NothingIsForgotten' /\ OffIsQuiet'
  BY <1>1, <1>2 DEF StoreInv, LastSaveKnowsAll, NothingIsForgotten, OffIsQuiet, Flushed
<1>6. QED
  BY <1>1, <1>4, <1>5 DEF StoreInv

(* What is stored is read, and merged with what the session knows. *)
LEMMA ReadStep ==
  ASSUME StoreInv, NEW s \in Users, ReadExisting(s)
  PROVE  StoreInv' /\ stored' = stored
<1>1. /\ UNCHANGED <<known, user, unsaved, healthy, storeLock, stored, mailTime>>
      /\ saving[s].at = "reading"
      /\ saving' = [saving EXCEPT ![s] = [at |-> "writing", store |-> Merge(stored, saving[s].store)]]
  BY DEF ReadExisting, SaveTo
<1>2. stored \in Stores /\ saving[s].store \in Stores
  BY DEF StoreInv, MergeInv, StoreShape
<1>3. /\ Merge(stored, saving[s].store) \in Stores
      /\ \A m \in Mail : Finished(stored[m]) \/ Finished(saving[s].store[m])
                           => Finished(Merge(stored, saving[s].store)[m])
  BY <1>2, MergeKeepsEnds
<1>4. /\ saving' \in [Users -> [at : Points, store : Stores]]
      /\ saving'[s] = [at |-> "writing", store |-> Merge(stored, saving[s].store)]
      /\ \A t \in Users : t # s => saving'[t] = saving[t]
  BY <1>1, <1>3 DEF StoreInv, MergeInv, StoreShape, Points
<1>5. MergeInv'
  BY <1>1, <1>3, <1>4 DEF StoreInv, MergeInv, StoreShape, WriterHoldsLock, Locking, WriteKeepsEnds
<1>6. LastSaveKnowsAll' /\ NothingIsForgotten' /\ OffIsQuiet'
  BY <1>1, <1>3, <1>4 DEF StoreInv, LastSaveKnowsAll, NothingIsForgotten, OffIsQuiet, Flushed
<1>7. QED
  BY <1>1, <1>5, <1>6 DEF StoreInv

(* Only the writer writes, and what it writes has every end. *)
LEMMA WriteStep ==
  ASSUME StoreInv, NEW s \in Users, WriteStore(s)
  PROVE  StoreInv' /\ \A m \in Mail : Finished(stored[m]) => Finished(stored'[m])
<1>1. /\ UNCHANGED <<known, user, unsaved, mailTime>>
      /\ saving[s].at = "writing" /\ stored' = saving[s].store
      /\ saving' = [saving EXCEPT ![s] = NotSaving]
      /\ healthy' = healthy \cup {s}
  BY DEF WriteStore
<1>2. \A m \in Mail : Finished(stored[m]) => Finished(stored'[m])
  BY <1>1 DEF StoreInv, MergeInv, WriteKeepsEnds
<1>3. /\ saving' \in [Users -> [at : Points, store : Stores]]
      /\ saving'[s] = NotSaving /\ \A t \in Users : t # s => saving'[t] = saving[t] /\ ~Locking(t)
  BY <1>1, EmptyIsAStore DEF StoreInv, MergeInv, StoreShape, WriterHoldsLock, Locking
<1>4. MergeInv'
  BY <1>1, <1>3 DEF StoreInv, MergeInv, StoreShape, WriterHoldsLock, Locking, WriteKeepsEnds, NotSaving
<1>5. LastSaveKnowsAll' /\ OffIsQuiet'
  BY <1>1, <1>3 DEF StoreInv, LastSaveKnowsAll, OffIsQuiet, Flushed, NotSaving
<1>6. NothingIsForgotten'
  <2>1. ASSUME NEW t \in Users, NEW m \in Mail, unsaved[t] = <<>>, Finished(known[t][m])
        PROVE  /\ saving'[t].at # "idle" => Finished(saving'[t].store[m])
               /\ Flushed(t)' /\ t \in healthy' => Finished(stored'[m])
    <3>1. CASE t = s
      BY <1>1, <1>3, <2>1, <3>1 DEF StoreInv, NothingIsForgotten, NotSaving
    <3>2. CASE t # s
      BY <1>1, <1>2, <1>3, <2>1, <3>2 DEF StoreInv, NothingIsForgotten, Flushed
    <3>3. QED
      BY <3>1, <3>2
  <2>2. QED
    BY <1>1, <2>1 DEF NothingIsForgotten
<1>7. QED
  BY <1>2, <1>4, <1>5, <1>6 DEF StoreInv

(* A save that fails is forgotten, and its session no longer healthy. *)
LEMMA FailStep ==
  ASSUME StoreInv, NEW s \in Users, SaveFails(s)
  PROVE  StoreInv' /\ stored' = stored
<1>1. /\ UNCHANGED <<known, user, unsaved, stored, mailTime>>
      /\ storeLock' = (IF saving[s].at = "waiting" THEN storeLock ELSE NoUser)
      /\ saving' = [saving EXCEPT ![s] = NotSaving]
      /\ healthy' = healthy \ {s}
      /\ saving[s].at # "idle"
  BY DEF SaveFails
<1>2. /\ saving' \in [Users -> [at : Points, store : Stores]]
      /\ saving'[s] = NotSaving /\ \A t \in Users : t # s => saving'[t] = saving[t]
  BY <1>1, EmptyIsAStore DEF StoreInv, MergeInv, StoreShape
<1>3. WriterHoldsLock'
  <2>1. \A t \in Users : Locking(t)' => t # s /\ Locking(t)
    BY <1>2 DEF Locking, NotSaving
  <2>2. saving[s].at # "waiting" => Locking(s)
    BY <1>1 DEF Locking, StoreInv, MergeInv, StoreShape, Points
  <2>3. QED
    BY <1>1, <2>1, <2>2 DEF StoreInv, MergeInv, WriterHoldsLock
<1>4. MergeInv'
  BY <1>1, <1>2, <1>3 DEF StoreInv, MergeInv, StoreShape, WriteKeepsEnds, NotSaving
<1>5. LastSaveKnowsAll' /\ OffIsQuiet'
  BY <1>1, <1>2 DEF StoreInv, LastSaveKnowsAll, OffIsQuiet, Flushed, NotSaving
<1>6. NothingIsForgotten'
  BY <1>1, <1>2 DEF StoreInv, NothingIsForgotten, Flushed, NotSaving
<1>7. QED
  BY <1>1, <1>4, <1>5, <1>6 DEF StoreInv

(* A session that ends has nothing more to do with the store. *)
LEMMA EndStep ==
  ASSUME StoreInv, NEW s \in Users, DisposeComms(s) \/ KillUser(s)
  PROVE  StoreInv' /\ stored' = stored
<1>1. Ended(s)
  BY DEF DisposeComms, KillUser
<1>2. UNCHANGED <<storeLock, stored, mailTime>> /\ healthy' = healthy \cup {s}
  BY <1>1 DEF Ended
<1>3. /\ known' \in [Users -> Stores] /\ known'[s] = Empty
      /\ user' \in [Users -> {"off", "starting", "on"}]
      /\ unsaved' \in [Users -> Seq(Stores)] /\ unsaved'[s] = <<>>
      /\ saving' \in [Users -> [at : Points, store : Stores]] /\ saving'[s] = NotSaving
  BY <1>1, EmptyIsAStore, EmptySeq DEF Ended, StoreInv, MergeInv, StoreShape
<1>4. \A t \in Users : t # s => /\ known'[t] = known[t] /\ user'[t] = user[t]
                                /\ unsaved'[t] = unsaved[t] /\ saving'[t] = saving[t]
  BY <1>1 DEF Ended, StoreInv, MergeInv, StoreShape
<1>5. Flushed(s)' /\ ~Locking(s)' /\ saving'[s].at = "idle" /\ \A m \in Mail : ~Finished(known'[s][m])
  BY <1>3, NothingHasEnded DEF Flushed, Locking, NotSaving
<1>6. MergeInv'
  <2>1. StoreShape'
    BY <1>2, <1>3 DEF StoreInv, MergeInv, StoreShape
  <2>2. WriterHoldsLock' /\ WriteKeepsEnds'
    <3>1. \A t \in Users : saving'[t].at # "idle" => saving'[t] = saving[t]
      BY <1>4, <1>5
    <3>2. QED
      BY <1>2, <3>1 DEF StoreInv, MergeInv, WriterHoldsLock, Locking, WriteKeepsEnds
  <2>3. QED
    BY <2>1, <2>2 DEF MergeInv
<1>7. LastSaveKnowsAll' /\ OffIsQuiet' /\ NothingIsForgotten'
  <2>1. ASSUME NEW t \in Users
        PROVE  /\ unsaved'[t] # <<>> => unsaved'[t][Len(unsaved'[t])] = known'[t]
               /\ user'[t] # "on" => Flushed(t)'
               /\ \A m \in Mail : unsaved'[t] = <<>> /\ Finished(known'[t][m]) =>
                    /\ saving'[t].at # "idle" => Finished(saving'[t].store[m])
                    /\ Flushed(t)' /\ t \in healthy' => Finished(stored'[m])
    <3>1. CASE t = s
      BY <1>3, <1>5, <3>1
    <3>2. CASE t # s
      BY <1>2, <1>4, <3>2 DEF StoreInv, LastSaveKnowsAll, OffIsQuiet, NothingIsForgotten, Flushed
    <3>3. QED
      BY <3>1, <3>2
  <2>2. QED
    BY <2>1 DEF LastSaveKnowsAll, OffIsQuiet, NothingIsForgotten
<1>8. QED
  BY <1>2, <1>6, <1>7 DEF StoreInv

-----------------------------------------------------------------------------
(* What FinishedMailStays asks of one step. *)
EndsStay == \A m \in Mail : Finished(stored[m]) => Finished(stored'[m])

LEMMA StoreStep == StoreInv /\ [StoreNext]_storeVars => StoreInv' /\ EndsStay
<1> SUFFICES ASSUME StoreInv, [StoreNext]_storeVars PROVE StoreInv' /\ EndsStay
  OBVIOUS
<1>1. ASSUME NEW s \in Users,
             \/ LoadStore(s) \/ HydratePersistedState(s) \/ MailChanges(s)
             \/ StartSave(s) \/ TakeStoreLock(s) \/ RemoveStaleMessageStoreLock(s)
             \/ ReadExisting(s) \/ WriteStore(s) \/ SaveFails(s)
             \/ DisposeComms(s) \/ KillUser(s)
      PROVE  StoreInv' /\ EndsStay
  <2>1. CASE WriteStore(s)
    BY <2>1, WriteStep DEF EndsStay
  <2>2. CASE ~WriteStore(s)
    <3>1. StoreInv' /\ stored' = stored
      BY <1>1, <2>2, StartSteps, ChangeStep, StartSaveStep, LockSteps, ReadStep, FailStep, EndStep
    <3>2. QED
      BY <3>1 DEF EndsStay
  <2>3. QED
    BY <2>1, <2>2
<1>2. CASE MailTick \/ UNCHANGED storeVars
  <2>1. /\ UNCHANGED <<known, user, unsaved, saving, healthy, storeLock, stored>>
        /\ mailTime' \in Nat
    BY <1>2 DEF MailTick, storeVars, StoreInv, MergeInv, StoreShape
  <2>2. QED
    BY <2>1 DEF StoreInv, MergeInv, StoreShape, WriterHoldsLock, Locking, WriteKeepsEnds,
       LastSaveKnowsAll, NothingIsForgotten, OffIsQuiet, Flushed, EndsStay
<1>3. QED
  BY <1>1, <1>2 DEF StoreNext

LEMMA StoreInvHolds == StoreSpec => []StoreInv
BY StoreStart, StoreStep, PTL DEF StoreSpec

(* A message stored as finished stays so, whatever the sessions that share  *)
(* the store save of it, and whoever of them is killed (message-store.mjs). *)
THEOREM FinishedMailHolds == StoreSpec => FinishedMailStays
<1>1. StoreInv /\ [StoreNext]_storeVars => [EndsStay]_storeVars
  BY StoreStep
<1>2. FinishedMailStays <=> [][EndsStay]_storeVars
  BY PTL DEF FinishedMailStays, EndsStay
<1>3. QED
  BY <1>1, <1>2, StoreInvHolds, PTL DEF StoreSpec

(* A session whose latest save did not fail, and that has none left, has    *)
(* stored every end it knows, whichever of its earlier saves failed         *)
(* (#persistMessageState of comms.mjs, save of message-store.mjs).          *)
THEOREM LaterSavesHold == StoreSpec => []LaterSavesCatchUp
<1>1. StoreInv => LaterSavesCatchUp
  BY DEF StoreInv, NothingIsForgotten, LaterSavesCatchUp, Flushed
<1>2. QED
  BY <1>1, StoreInvHolds, PTL

-----------------------------------------------------------------------------
(***************************************************************************)
(* Presence: a stopped endpoint is not seen again, and every refresh tells *)
(* who is there.                                                           *)
(*                                                                         *)
(* A refresh reads the descriptors one by one while they change.  What it  *)
(* has found is right at its end because two facts never turn back: who is *)
(* gone stays gone, and who serves now has served, and shown a fresh       *)
(* descriptor, ever since it was there.                                    *)
(***************************************************************************)
Stages == {"unused", "listening", "publishing", "up", "stopping", "stopped"}
Finds == UNION {[D -> Endpoints] : D \in SUBSET Sites}
Refreshes ==
  [left : SUBSET Endpoints, found : Finds, on : BOOLEAN,
   gone : SUBSET Endpoints, there : SUBSET Endpoints, torn : SUBSET Endpoints]
Entries == Endpoints \cup {None, FromConfig}

EndpointShape ==
  /\ alive \in SUBSET Sites /\ stage \in [Endpoints -> Stages] /\ pen \in SUBSET Endpoints
  /\ card \in [Endpoints -> [state : {"none", "torn", "whole"}, at : Nat]]
  /\ localEndpoint \in [Sites -> Endpoints \cup {None}]
  /\ minute \in Nat

WatchShape ==
  /\ look \in [Watchers -> [Looks -> Refreshes]]
  /\ registry \in [Watchers -> [Sites -> Entries]]
  /\ discovered \in [Watchers -> SUBSET Sites]

StoppedIsBare == \A e \in Endpoints : stage[e] = "stopped" => card[e] = NoCard /\ e \notin pen

(* What is torn is being written, by a write of this minute. *)
TornIsInHand ==
  \A e \in Endpoints : SiteOf[e] \in alive /\ card[e].state = "torn" => e \in pen /\ card[e].at = minute

ServingShows ==
  \A e \in Endpoints : Serving(e) => card[e].state # "none" /\ minute - card[e].at <= 1

EndpointInv == EndpointShape /\ StoppedIsBare /\ TornIsInHand /\ ServingShows

(* A refresh has found nothing that was gone, and has still to read, or has *)
(* found, or has read half written, what has been there all the time.       *)
FindsNoGone(L) ==
  /\ \A e \in L.gone : Gone(e)
  /\ \A q \in DOMAIN L.found : L.found[q] \notin L.gone

FindsThere(s, L) ==
  \A e \in L.there :
    /\ stage[e] \in {"up", "stopping", "stopped"}
    /\ Serving(e) /\ SiteOf[e] # s => e \in L.left \cup L.torn \/ SiteOf[e] \in DOMAIN L.found

LooksFind == \A s \in Watchers, i \in Looks : FindsNoGone(look[s][i]) /\ FindsThere(s, look[s][i])

(* Only what was discovered is in the registry with an endpoint. *)
OnlyDiscovered ==
  \A s \in Watchers, q \in Sites : registry[s][q] \in Endpoints => q \in discovered[s]

PresenceInv == EndpointInv /\ WatchShape /\ LooksFind /\ OnlyDiscovered

-----------------------------------------------------------------------------
LEMMA NotLookingFinds ==
  /\ NotLooking \in Refreshes
  /\ DOMAIN NotLooking.found = {} /\ NotLooking.gone = {} /\ NotLooking.there = {}
<1>1. <<>> \in [{} -> Endpoints] /\ DOMAIN <<>> = {}
  OBVIOUS
<1>2. <<>> \in Finds
  BY <1>1 DEF Finds
<1>3. QED
  BY <1>1, <1>2 DEF NotLooking, Refreshes

LEMMA PresenceStart == PresenceInit => PresenceInv
<1> SUFFICES ASSUME PresenceInit PROVE PresenceInv
  OBVIOUS
<1>1. EndpointInv
  BY DEF PresenceInit, EndpointInv, EndpointShape, Stages, StoppedIsBare, TornIsInHand,
         ServingShows, Serving, NoCard
<1>2. WatchShape /\ OnlyDiscovered
  BY NotLookingFinds, PresenceConstants DEF PresenceInit, WatchShape, Entries, OnlyDiscovered
<1>3. LooksFind
  BY NotLookingFinds DEF PresenceInit, LooksFind, FindsNoGone, FindsThere
<1>4. QED
  BY <1>1, <1>2, <1>3 DEF PresenceInv

(* What a step of the endpoints, or of time, leaves of an endpoint.  *)
Onward ==
  /\ \A e \in Endpoints : Gone(e) => Gone(e)'
  /\ \A e \in Endpoints : Serving(e)' => Serving(e) \/ stage[e] = "publishing"
  /\ \A e \in Endpoints :
       stage[e] \in {"up", "stopping", "stopped"} => stage'[e] \in {"up", "stopping", "stopped"}

(* Such a step takes nothing from what the refreshes have found. *)
LEMMA LooksStand ==
  ASSUME PresenceInv, Onward, UNCHANGED watchVars
  PROVE  WatchShape' /\ LooksFind' /\ OnlyDiscovered'
<1>1. WatchShape' /\ OnlyDiscovered'
  BY DEF PresenceInv, WatchShape, OnlyDiscovered, watchVars
<1>2. ASSUME NEW s \in Watchers, NEW i \in Looks
      PROVE  FindsNoGone(look[s][i])' /\ FindsThere(s, look[s][i])'
  <2>1. look' = look /\ look[s][i] \in Refreshes
    BY DEF PresenceInv, WatchShape, watchVars
  <2>2. FindsNoGone(look[s][i])'
    BY <2>1 DEF PresenceInv, LooksFind, FindsNoGone, Onward, Refreshes
  <2>3. FindsThere(s, look[s][i])'
    BY <2>1 DEF PresenceInv, LooksFind, FindsThere, Onward, Refreshes
  <2>4. QED
    BY <2>2, <2>3
<1>3. QED
  BY <1>1, <1>2 DEF LooksFind

-----------------------------------------------------------------------------
(* The endpoints, one step at a time. *)
LEMMA PresenceStartSteps ==
  ASSUME PresenceInv, NEW s \in Sites, StartEndpoint(s) \/ StopEndpoint(s)
  PROVE  EndpointInv' /\ Onward
<1>1. alive' = alive /\ card' = card /\ pen' = pen /\ minute' = minute
  BY DEF StartEndpoint, StopEndpoint
<1>2. PICK e \in Endpoints :
        \/ stage[e] = "unused" /\ stage' = [stage EXCEPT ![e] = "listening"]
        \/ stage[e] = "up" /\ stage' = [stage EXCEPT ![e] = "stopping"]
  <2>1. CASE StartEndpoint(s)
    BY <2>1 DEF StartEndpoint
  <2>2. CASE StopEndpoint(s)
    <3>1. stage[localEndpoint[s]] = "up" /\ stage' = [stage EXCEPT ![localEndpoint[s]] = "stopping"]
      BY <2>2 DEF StopEndpoint
    <3>2. localEndpoint[s] \in Endpoints
      BY <2>2 DEF StopEndpoint, PresenceInv, EndpointInv, EndpointShape
    <3>3. QED
      BY <3>1, <3>2
  <2>3. QED
    BY <2>1, <2>2
<1>3. EndpointInv
  BY DEF PresenceInv
<1>4. localEndpoint' = localEndpoint /\ EndpointShape'
  BY <1>1, <1>2, <1>3 DEF StartEndpoint, StopEndpoint, EndpointInv, EndpointShape, Stages
<1>5. StoppedIsBare' /\ TornIsInHand'
  BY <1>1, <1>2, <1>3 DEF EndpointInv, EndpointShape, StoppedIsBare, TornIsInHand, NoCard
<1>6. \A f \in Endpoints : (Serving(f)' => Serving(f)) /\ (Gone(f) => Gone(f)')
  BY <1>1, <1>2, <1>3 DEF EndpointInv, EndpointShape, Serving, Gone
<1>7. ServingShows'
  BY <1>1, <1>3, <1>6 DEF EndpointInv, ServingShows
<1>8. Onward
  BY <1>2, <1>3, <1>6 DEF EndpointInv, EndpointShape, Onward
<1>9. QED
  BY <1>4, <1>5, <1>7, <1>8 DEF EndpointInv

(* Writing a descriptor: the end of it is also how an endpoint comes up. *)
LEMMA WriteSteps ==
  ASSUME PresenceInv, NEW e \in Endpoints,
         \/ Publish(e) \/ OpenDescriptor(e) \/ Published(e)
         \/ RefreshDescriptorPresence(e) \/ Refreshed(e)
  PROVE  EndpointInv' /\ Onward
<1> USE PresenceConstants
<1>1. alive' = alive /\ minute' = minute
  BY DEF Publish, OpenDescriptor, Published, RefreshDescriptorPresence, Refreshed
<1>2. EndpointInv
  BY DEF PresenceInv
<1>3. EndpointShape'
  <2>1. card' \in [Endpoints -> [state : {"none", "torn", "whole"}, at : Nat]]
    BY <1>2 DEF EndpointInv, EndpointShape, Publish, OpenDescriptor, Published, EndWrite,
                RefreshDescriptorPresence, Refreshed
  <2>2. stage' \in [Endpoints -> Stages] /\ pen' \in SUBSET Endpoints
    BY <1>2 DEF EndpointInv, EndpointShape, Stages, Publish, OpenDescriptor, Published, EndWrite,
                RefreshDescriptorPresence, Refreshed
  <2>3. localEndpoint' \in [Sites -> Endpoints \cup {None}]
    BY <1>2 DEF EndpointInv, EndpointShape, Publish, OpenDescriptor, Published,
                RefreshDescriptorPresence, Refreshed
  <2>4. QED
    BY <1>1, <1>2, <2>1, <2>2, <2>3 DEF EndpointInv, EndpointShape
<1>4. StoppedIsBare'
  BY <1>2 DEF EndpointInv, EndpointShape, StoppedIsBare, Publish, OpenDescriptor, Published,
              EndWrite, RefreshDescriptorPresence, Refreshed, Serving
<1>5. TornIsInHand'
  BY <1>1, <1>2 DEF EndpointInv, EndpointShape, TornIsInHand, Publish, OpenDescriptor, Published,
              EndWrite, RefreshDescriptorPresence, Refreshed, Serving
<1>6. ServingShows'
  BY <1>1, <1>2 DEF EndpointInv, EndpointShape, ServingShows, TornIsInHand, Publish, OpenDescriptor,
              Published, EndWrite, RefreshDescriptorPresence, Refreshed, Serving
<1>7. Onward
  BY <1>1, <1>2 DEF EndpointInv, EndpointShape, Onward, Gone, Serving, Publish, OpenDescriptor,
              Published, RefreshDescriptorPresence, Refreshed
<1>8. QED
  BY <1>3, <1>4, <1>5, <1>6, <1>7 DEF EndpointInv

(* The end of an endpoint, of a session, and the passing of time. *)
LEMMA EndSteps ==
  ASSUME PresenceInv,
         \/ \E e \in Endpoints : RemoveDescriptor(e)
         \/ \E s \in Sites : KillSite(s)
         \/ PassMinute
  PROVE  EndpointInv' /\ Onward
<1>1. EndpointInv
  BY DEF PresenceInv
<1>2. CASE \E e \in Endpoints : RemoveDescriptor(e)
  <2>1. EndpointShape' /\ StoppedIsBare' /\ TornIsInHand'
    BY <1>1, <1>2, PresenceConstants
    DEF RemoveDescriptor, Removed, EndpointInv, EndpointShape, Stages, NoCard, StoppedIsBare, TornIsInHand
  <2>2. ServingShows' /\ Onward
    BY <1>1, <1>2 DEF RemoveDescriptor, Removed, EndpointInv, EndpointShape, ServingShows, Serving,
                      Gone, Onward
  <2>3. QED
    BY <2>1, <2>2 DEF EndpointInv
<1>3. CASE \E s \in Sites : KillSite(s)
  <2>1. EndpointShape' /\ StoppedIsBare' /\ TornIsInHand'
    BY <1>1, <1>3 DEF KillSite, EndpointInv, EndpointShape, StoppedIsBare, TornIsInHand
  <2>2. ServingShows' /\ Onward
    BY <1>1, <1>3 DEF KillSite, EndpointInv, EndpointShape, ServingShows, Serving, Gone, Onward
  <2>3. QED
    BY <2>1, <2>2 DEF EndpointInv
<1>4. CASE PassMinute
  <2>1. EndpointShape' /\ StoppedIsBare' /\ TornIsInHand'
    BY <1>1, <1>4 DEF PassMinute, endpointVars, EndpointInv, EndpointShape, StoppedIsBare, TornIsInHand
  <2>2. ServingShows' /\ Onward
    BY <1>1, <1>4 DEF PassMinute, endpointVars, EndpointInv, EndpointShape, ServingShows, Serving,
                      Gone, Onward
  <2>3. QED
    BY <2>1, <2>2 DEF EndpointInv
<1>5. QED
  BY <1>2, <1>3, <1>4

-----------------------------------------------------------------------------
(* The refreshes. *)

(* Reading a descriptor adds to what was found, and ends nothing. *)
LEMMA PresenceReadStep ==
  ASSUME PresenceInv, NEW s \in Watchers, NEW i \in Looks, ReadDescriptor(s, i)
  PROVE  /\ look' \in [Watchers -> [Looks -> Refreshes]]
         /\ LooksFind'
         /\ \A z \in Watchers, k \in Looks : look'[z][k].on = look[z][k].on
<1> DEFINE L == look[s][i]
<1>1. L \in Refreshes /\ FindsNoGone(L) /\ FindsThere(s, L)
  BY DEF PresenceInv, WatchShape, LooksFind
<1>2. PICK e \in L.left :
        look' = [look EXCEPT
         ![s][i].left  = @ \ {e},
         ![s][i].torn  = IF card[e].state = "torn" THEN @ \cup {e} ELSE @,
         ![s][i].found = IF Counts(s, e) THEN [q \in DOMAIN @ \cup {SiteOf[e]} |->
                                                IF q = SiteOf[e] THEN e ELSE @[q]] ELSE @]
  BY DEF ReadDescriptor
<1>3. e \in Endpoints /\ SiteOf[e] \in Sites
  BY <1>1, PresenceConstants DEF Refreshes
<1> DEFINE Found == IF Counts(s, e)
                    THEN [q \in DOMAIN L.found \cup {SiteOf[e]} |->
                            IF q = SiteOf[e] THEN e ELSE L.found[q]]
                    ELSE L.found
           M == [L EXCEPT !.left = @ \ {e},
                          !.torn = IF card[e].state = "torn" THEN @ \cup {e} ELSE @,
                          !.found = Found]
<1>4. look' = [look EXCEPT ![s][i] = M]
  BY <1>1, <1>2 DEF PresenceInv, WatchShape, Refreshes
<1>5. Found \in Finds
  <2>1. PICK D \in SUBSET Sites : L.found \in [D -> Endpoints]
    BY <1>1 DEF Refreshes, Finds
  <2>2. CASE Counts(s, e)
    <3>1. Found \in [D \cup {SiteOf[e]} -> Endpoints]
      BY <1>3, <2>1, <2>2
    <3>2. QED
      BY <1>3, <2>1, <3>1 DEF Finds
  <2>3. CASE ~Counts(s, e)
    BY <1>1, <2>3 DEF Refreshes
  <2>4. QED
    BY <2>2, <2>3
<1>6. M \in Refreshes /\ M.on = L.on /\ M.gone = L.gone /\ M.there = L.there /\ M.found = Found
      /\ M.left = L.left \ {e} /\ M.torn = (IF card[e].state = "torn" THEN L.torn \cup {e} ELSE L.torn)
  BY <1>1, <1>3, <1>5 DEF Refreshes
<1>7. UNCHANGED <<endpointVars, minute>>
  BY DEF ReadDescriptor
<1>8. look'[s][i] = M /\ \A z \in Watchers, k \in Looks : <<z, k>> # <<s, i>> => look'[z][k] = look[z][k]
  BY <1>4 DEF PresenceInv, WatchShape
<1>9. FindsNoGone(look[s][i])'
  <2>1. Counts(s, e) => e \notin L.gone
    BY <1>1, <1>3 DEF Counts, FindsNoGone, Gone, NoCard, PresenceInv, EndpointInv, StoppedIsBare
  <2>2. \A q \in DOMAIN Found : Found[q] \notin L.gone
    BY <1>1, <2>1 DEF FindsNoGone
  <2>3. \A f \in L.gone : Gone(f)'
    BY <1>1, <1>7 DEF FindsNoGone, Gone, endpointVars
  <2>4. QED
    BY <1>6, <1>8, <2>2, <2>3 DEF FindsNoGone
<1>10. FindsThere(s, look[s][i])'
  <2>1. e \in L.there /\ Serving(e) /\ SiteOf[e] # s => e \in M.torn \/ SiteOf[e] \in DOMAIN Found
    <3>1. Serving(e) => card[e].state \in {"torn", "whole"} /\ minute - card[e].at <= MaxAge /\ SiteOf[e] \in alive
      <4>1. card[e].state \in {"none", "torn", "whole"} /\ card[e].at \in Nat /\ minute \in Nat
        BY <1>3 DEF PresenceInv, EndpointInv, EndpointShape
      <4>2. Serving(e) => card[e].state # "none" /\ minute - card[e].at <= 1
        BY <1>3 DEF PresenceInv, EndpointInv, ServingShows
      <4>3. MaxAge \in Nat /\ 1 <= MaxAge
        BY PresenceConstants
      <4>4. QED
        BY <4>1, <4>2, <4>3 DEF Serving
    <3>2. CASE card[e].state = "torn"
      BY <1>6, <3>2
    <3>3. ASSUME card[e].state = "whole", Serving(e), SiteOf[e] # s PROVE SiteOf[e] \in DOMAIN Found
      BY <3>1, <3>3 DEF Counts
    <3>4. QED
      BY <3>1, <3>2, <3>3
  <2>2. DOMAIN L.found \subseteq DOMAIN Found
    OBVIOUS
  <2>3. ASSUME NEW f \in L.there, Serving(f), SiteOf[f] # s
        PROVE  f \in M.left \cup M.torn \/ SiteOf[f] \in DOMAIN Found
    BY <1>1, <1>6, <2>1, <2>2, <2>3 DEF FindsThere
  <2>4. QED
    BY <1>1, <1>6, <1>7, <1>8, <2>3 DEF FindsThere, Serving, endpointVars
<1>11. ASSUME NEW z \in Watchers, NEW k \in Looks
       PROVE  /\ FindsNoGone(look[z][k])' /\ FindsThere(z, look[z][k])'
              /\ look'[z][k].on = look[z][k].on
  <2>1. CASE <<z, k>> = <<s, i>>
    BY <1>6, <1>8, <1>9, <1>10, <2>1
  <2>2. CASE <<z, k>> # <<s, i>>
    <3>1. look'[z][k] = look[z][k] /\ FindsNoGone(look[z][k]) /\ FindsThere(z, look[z][k])
      BY <1>8, <2>2 DEF PresenceInv, LooksFind
    <3>2. QED
      BY <1>7, <3>1 DEF FindsNoGone, FindsThere, Gone, Serving, endpointVars
  <2>3. QED
    BY <2>1, <2>2
<1>12. look' \in [Watchers -> [Looks -> Refreshes]]
  BY <1>4, <1>6 DEF PresenceInv, WatchShape
<1>13. QED
  BY <1>11, <1>12 DEF LooksFind

(* The end of a refresh enters what it found. *)
LEMMA PresenceEndStep ==
  ASSUME PresenceInv, NEW s \in Watchers, NEW i \in Looks, EndRefresh(s, i)
  PROVE  /\ WatchShape' /\ LooksFind' /\ OnlyDiscovered'
         /\ \A z \in Watchers, k \in Looks : <<z, k>> # <<s, i>> => look'[z][k].on = look[z][k].on
         /\ \A q \in Sites : registry'[s][q] \notin look[s][i].gone
         /\ \A e \in look[s][i].there \ look[s][i].torn :
              Serving(e) /\ SiteOf[e] # s => registry'[s][SiteOf[e]] \in Endpoints
<1> DEFINE L == look[s][i]
           found == L.found
           Entry(q) == CASE q \in DOMAIN found -> found[q]
                          [] q \in discovered[s] \ DOMAIN found ->
                               IF q \in Configured THEN FromConfig ELSE None
                          [] OTHER -> registry[s][q]
<1>1. L \in Refreshes /\ FindsNoGone(L) /\ FindsThere(s, L) /\ L.left = {}
  BY DEF PresenceInv, WatchShape, LooksFind, EndRefresh
<1>2. PICK D \in SUBSET Sites : found \in [D -> Endpoints]
  BY <1>1 DEF Refreshes, Finds
<1>3. registry' = [registry EXCEPT ![s] = [q \in Sites |-> Entry(q)]]
  BY DEF EndRefresh, PresenceInv, WatchShape
<1>4. discovered' = [discovered EXCEPT ![s] = DOMAIN found]
      /\ look' = [look EXCEPT ![s][i] = NotLooking]
      /\ UNCHANGED <<endpointVars, minute>>
  BY DEF EndRefresh
<1>5. \A q \in Sites : registry'[s][q] = Entry(q)
  BY <1>3 DEF PresenceInv, WatchShape
<1>6. \A q \in Sites : /\ Entry(q) \in Entries
                       /\ q \notin DOMAIN found => Entry(q) \notin Endpoints
                       /\ q \in DOMAIN found => Entry(q) = found[q] /\ Entry(q) \in Endpoints
  BY <1>2, PresenceConstants DEF PresenceInv, WatchShape, OnlyDiscovered, Entries
<1>7. WatchShape' /\ OnlyDiscovered'
  BY <1>2, <1>3, <1>4, <1>6, NotLookingFinds DEF PresenceInv, WatchShape, OnlyDiscovered
<1>8. ASSUME NEW z \in Watchers, NEW k \in Looks
      PROVE  /\ FindsNoGone(look[z][k])' /\ FindsThere(z, look[z][k])'
             /\ <<z, k>> # <<s, i>> => look'[z][k].on = look[z][k].on
  <2>1. CASE <<z, k>> = <<s, i>>
    <3>1. look'[z][k] = NotLooking
      BY <1>4, <2>1 DEF PresenceInv, WatchShape
    <3>2. QED
      BY <2>1, <3>1, NotLookingFinds DEF FindsNoGone, FindsThere
  <2>2. CASE <<z, k>> # <<s, i>>
    <3>1. look'[z][k] = look[z][k] /\ FindsNoGone(look[z][k]) /\ FindsThere(z, look[z][k])
      BY <1>4, <2>2 DEF PresenceInv, WatchShape, LooksFind
    <3>2. QED
      BY <1>4, <3>1 DEF FindsNoGone, FindsThere, Gone, Serving, endpointVars
  <2>3. QED
    BY <2>1, <2>2
<1>9. \A q \in Sites : registry'[s][q] \notin L.gone
  BY <1>1, <1>5, <1>6 DEF FindsNoGone, Refreshes
<1>10. \A e \in L.there \ L.torn : Serving(e) /\ SiteOf[e] # s => registry'[s][SiteOf[e]] \in Endpoints
  BY <1>1, <1>5, <1>6, PresenceConstants DEF FindsThere, Refreshes
<1>11. QED
  BY <1>7, <1>8, <1>9, <1>10 DEF LooksFind

(* A refresh begins with everything there is still to read. *)
LEMMA RefreshStarts ==
  ASSUME PresenceInv, NEW s \in Watchers, NEW i \in Looks, StartRefresh(s, i)
  PROVE  /\ look' \in [Watchers -> [Looks -> Refreshes]]
         /\ LooksFind'
         /\ \A z \in Watchers, k \in Looks : look[z][k].on => look'[z][k].on
<1> DEFINE M == [NotLooking EXCEPT !.on = TRUE, !.left = {e \in Endpoints : card[e].state # "none"},
                                   !.gone = {e \in Endpoints : Gone(e)},
                                   !.there = {e \in Endpoints : Serving(e)}]
<1>1. look' = [look EXCEPT ![s][i] = M] /\ UNCHANGED <<endpointVars, minute>>
  BY DEF StartRefresh
<1>2. /\ M \in Refreshes /\ M.on = TRUE /\ DOMAIN M.found = {}
      /\ M.left = {e \in Endpoints : card[e].state # "none"}
      /\ M.gone = {e \in Endpoints : Gone(e)} /\ M.there = {e \in Endpoints : Serving(e)}
  BY NotLookingFinds DEF Refreshes
<1>3. look'[s][i] = M /\ \A z \in Watchers, k \in Looks : <<z, k>> # <<s, i>> => look'[z][k] = look[z][k]
  BY <1>1 DEF PresenceInv, WatchShape
<1>4. FindsNoGone(look[s][i])'
  BY <1>1, <1>2, <1>3 DEF FindsNoGone, Gone, endpointVars
<1>5. FindsThere(s, look[s][i])'
  <2>1. \A e \in M.there : stage'[e] = "up" /\ e \in M.left
    BY <1>1, <1>2 DEF endpointVars, Serving, PresenceInv, EndpointInv, ServingShows
  <2>2. QED
    BY <1>3, <2>1 DEF FindsThere
<1>6. ASSUME NEW z \in Watchers, NEW k \in Looks
      PROVE  /\ FindsNoGone(look[z][k])' /\ FindsThere(z, look[z][k])'
             /\ look[z][k].on => look'[z][k].on
  <2>1. CASE <<z, k>> = <<s, i>>
    BY <1>2, <1>3, <1>4, <1>5, <2>1
  <2>2. CASE <<z, k>> # <<s, i>>
    <3>1. look'[z][k] = look[z][k] /\ FindsNoGone(look[z][k]) /\ FindsThere(z, look[z][k])
      BY <1>3, <2>2 DEF PresenceInv, LooksFind
    <3>2. QED
      BY <1>1, <3>1 DEF FindsNoGone, FindsThere, Gone, Serving, endpointVars
  <2>3. QED
    BY <2>1, <2>2
<1>7. look' \in [Watchers -> [Looks -> Refreshes]]
  BY <1>1, <1>2 DEF PresenceInv, WatchShape
<1>8. QED
  BY <1>6, <1>7 DEF LooksFind

(* A refresh leaves the endpoints alone. *)
LEMMA LookingOnly ==
  ASSUME PresenceInv, NEW s \in Watchers, NEW i \in Looks,
         StartRefresh(s, i) \/ ReadDescriptor(s, i) \/ EndRefresh(s, i)
  PROVE  EndpointInv'
<1>1. UNCHANGED <<endpointVars, minute>>
  BY DEF StartRefresh, ReadDescriptor, EndRefresh
<1>2. QED
  BY <1>1 DEF PresenceInv, EndpointInv, EndpointShape, StoppedIsBare, TornIsInHand, ServingShows,
              Serving, endpointVars

-----------------------------------------------------------------------------
(* What the property of RefreshTellsWhoIsThere asks of one step. *)
Tells ==
  \A s \in Watchers, i \in Looks : Ends(s, i) =>
    /\ \A q \in Sites : registry'[s][q] \notin look[s][i].gone
    /\ \A e \in look[s][i].there \ look[s][i].torn :
         Serving(e) /\ SiteOf[e] # s => registry'[s][SiteOf[e]] \in Endpoints

(* Every step keeps the invariant, and ends no refresh unduly. *)
LEMMA PresenceStep == PresenceInv /\ [PresenceNext]_presenceVars => PresenceInv' /\ Tells
<1> SUFFICES ASSUME PresenceInv, [PresenceNext]_presenceVars PROVE PresenceInv' /\ Tells
  OBVIOUS
<1>1. ASSUME EndpointInv', Onward, UNCHANGED watchVars PROVE PresenceInv' /\ Tells
  <2>1. look' = look
    BY <1>1 DEF watchVars
  <2>2. QED
    BY <1>1, <2>1, LooksStand DEF PresenceInv, Tells, Ends
<1>2. CASE \E s \in Sites : StartEndpoint(s) \/ StopEndpoint(s)
  BY <1>1, <1>2, PresenceStartSteps DEF StartEndpoint, StopEndpoint
<1>3. CASE \E e \in Endpoints : \/ Publish(e) \/ OpenDescriptor(e) \/ Published(e)
                                \/ RefreshDescriptorPresence(e) \/ Refreshed(e)
  BY <1>1, <1>3, WriteSteps
  DEF Publish, OpenDescriptor, Published, RefreshDescriptorPresence, Refreshed
<1>4. CASE \/ \E e \in Endpoints : RemoveDescriptor(e)
           \/ \E s \in Sites : KillSite(s)
           \/ PassMinute
  BY <1>1, <1>4, EndSteps DEF RemoveDescriptor, Removed, KillSite, PassMinute
<1>5. ASSUME NEW s \in Watchers, NEW i \in Looks, StartRefresh(s, i) PROVE PresenceInv' /\ Tells
  <2>1. registry' = registry /\ discovered' = discovered
    BY <1>5 DEF StartRefresh
  <2>2. QED
    BY <1>5, <2>1, RefreshStarts, LookingOnly
    DEF PresenceInv, WatchShape, OnlyDiscovered, Tells, Ends
<1>6. ASSUME NEW s \in Watchers, NEW i \in Looks, ReadDescriptor(s, i) PROVE PresenceInv' /\ Tells
  <2>1. registry' = registry /\ discovered' = discovered
    BY <1>6 DEF ReadDescriptor
  <2>2. QED
    BY <1>6, <2>1, PresenceReadStep, LookingOnly
    DEF PresenceInv, WatchShape, OnlyDiscovered, Tells, Ends
<1>7. ASSUME NEW s \in Watchers, NEW i \in Looks, EndRefresh(s, i) PROVE PresenceInv' /\ Tells
  <2>1. \A z \in Watchers, k \in Looks : Ends(z, k) => z = s /\ k = i
    BY <1>7, PresenceEndStep DEF Ends
  <2>2. QED
    BY <1>7, <2>1, PresenceEndStep, LookingOnly DEF PresenceInv, Tells
<1>8. CASE UNCHANGED presenceVars
  BY <1>8 DEF presenceVars, endpointVars, watchVars, PresenceInv, EndpointInv, EndpointShape,
     StoppedIsBare, TornIsInHand, ServingShows, WatchShape, LooksFind, FindsNoGone, FindsThere,
     OnlyDiscovered, Serving, Gone, Tells, Ends
<1>9. QED
  BY <1>2, <1>3, <1>4, <1>5, <1>6, <1>7, <1>8 DEF PresenceNext

LEMMA PresenceHolds == PresenceSpec => []PresenceInv
BY PresenceStart, PresenceStep, PTL DEF PresenceSpec

(* The descriptor of an endpoint that was stopped is gone for good: its     *)
(* removal waits for a heartbeat under way (local-transport.mjs).           *)
THEOREM StoppedStaysHiddenHolds == PresenceSpec => []StoppedStaysHidden
<1>1. PresenceInv => StoppedStaysHidden
  BY DEF PresenceInv, EndpointInv, StoppedIsBare, StoppedStaysHidden
<1>2. QED
  BY <1>1, PresenceHolds, PTL

(* What the registry holds after a refresh was true of the peers, however   *)
(* many refreshes overlap (refreshLocalPeers of runtime.mjs).               *)
THEOREM RefreshTellsHolds == PresenceSpec => RefreshTellsWhoIsThere
<1>1. PresenceInv /\ [PresenceNext]_presenceVars => [Tells]_presenceVars
  BY PresenceStep
<1>2. RefreshTellsWhoIsThere <=> [][Tells]_presenceVars
  BY PTL DEF RefreshTellsWhoIsThere, Tells
<1>3. QED
  BY <1>1, <1>2, PresenceHolds, PTL DEF PresenceSpec

-----------------------------------------------------------------------------
(***************************************************************************)
(* The pull requests derived from their records, whatever these are: the   *)
(* groups built one record at a time are what the records that share names *)
(* come to.                                                                *)
(***************************************************************************)
PrRecords == [action : Actions, url : Urls \cup {NoName}, run : RunIds \cup {NoName}]
PrShape == prFile \in [records : Seq(PrRecords), torn : BOOLEAN]

LEMMA PrRecordsAreShaped ==
  ASSUME PrShape
  PROVE  /\ Len(prFile.records) \in Nat
         /\ DOMAIN prFile.records = 1 .. Len(prFile.records)
         /\ \A n \in 1 .. Len(prFile.records) :
              /\ prFile.records[n] \in PrRecords
              /\ KeysOf(n) = {prFile.records[n].url, prFile.records[n].run} \cap Names
<1>1. prFile.records \in Seq(PrRecords)
  BY DEF PrShape
<1>2. /\ Len(prFile.records) \in Nat
      /\ DOMAIN prFile.records = 1 .. Len(prFile.records)
      /\ \A n \in 1 .. Len(prFile.records) : prFile.records[n] \in PrRecords
  BY <1>1, LenProperties
<1>3. \A rec \in PrRecords : {rec.url, rec.run} \ {NoName} = {rec.url, rec.run} \cap Names
  BY RecordConstants DEF PrRecords, Names
<1>4. QED
  BY <1>2, <1>3 DEF KeysOf

LEMMA PrShapeHolds == PrSpec => []PrShape
<1>1. PrInit => PrShape
  <2>1. <<>> \in Seq(PrRecords)
    OBVIOUS
  <2>2. QED
    BY <2>1 DEF PrInit, PrShape
<1>2. PrShape /\ [PrNext]_prFile => PrShape'
  <2> SUFFICES ASSUME PrShape, [PrNext]_prFile PROVE PrShape'
    OBVIOUS
  <2>1. ASSUME NEW action \in Recorded, NEW url \in Urls \cup {NoName}, NEW run \in RunIds \cup {NoName},
               AppendPrRecord(action, url, run)
        PROVE  PrShape'
    <3>1. [action |-> action, url |-> url, run |-> run] \in PrRecords
      BY RecordConstants DEF PrRecords
    <3>2. Append(prFile.records, [action |-> action, url |-> url, run |-> run]) \in Seq(PrRecords)
      BY <3>1, AppendProperties DEF PrShape
    <3>3. QED
      BY <2>1, <3>2 DEF AppendPrRecord, PrShape
  <2>2. CASE UNCHANGED prFile
    BY <2>2 DEF PrShape
  <2>3. QED
    BY <2>1, <2>2 DEF PrNext
<1>3. QED
  BY <1>1, <1>2, PTL DEF PrSpec

(* What taking a record does to the groups: those of its names become one,  *)
(* with the record in it.                                                   *)
LEMMA NamedGroups ==
  ASSUME PrShape, NEW n \in 1 .. Len(prFile.records), NEW state,
         \A name \in Names : state.groupOf[name] \in Nat
  PROVE  LET J     == GroupsNamed(state, n)
             first == FirstGroup(state, n)
             run   == prFile.records[n].run
         IN /\ J = {} => first = n
            /\ J # {} => first \in J
            /\ J \ {first} # {} => run \in Names /\ J = {first, state.groupOf[run]} /\ first # state.groupOf[run]
<1> DEFINE J == GroupsNamed(state, n)
           first == FirstGroup(state, n)
           url == prFile.records[n].url
           run == prFile.records[n].run
<1>1. J = {state.groupOf[name] : name \in {url, run} \cap Names} \ {0}
  BY PrRecordsAreShaped DEF GroupsNamed
<1>2. J = {} => first = n
  BY DEF FirstGroup
<1>3. CASE J # {} /\ url \in Names /\ state.groupOf[url] # 0
  <2>1. first = state.groupOf[url]
    BY <1>3 DEF FirstGroup
  <2>2. first \in J /\ J \subseteq {first} \cup {state.groupOf[name] : name \in {run} \cap Names}
    BY <1>1, <1>3, <2>1
  <2>3. QED
    BY <1>3, <2>2
<1>4. CASE J # {} /\ ~(url \in Names /\ state.groupOf[url] # 0)
  <2>1. first = state.groupOf[run]
    BY <1>4 DEF FirstGroup
  <2>2. J = {state.groupOf[run]}
    BY <1>1, <1>4
  <2>3. QED
    BY <1>4, <2>1, <2>2
<1>5. QED
  BY <1>2, <1>3, <1>4

GroupStates == [groupOf : [Names -> Nat], members : [1 .. Len(prFile.records) -> SUBSET Numbered]]

LEMMA RecordTaken ==
  ASSUME PrShape, NEW n \in 1 .. Len(prFile.records), KeysOf(n) # {}, NEW state \in GroupStates,
         GroupsNamed(state, n) \subseteq 1 .. Len(prFile.records)
  PROVE  LET J     == GroupsNamed(state, n)
             first == FirstGroup(state, n)
         IN TakeRecord(state, n) =
              [groupOf |-> [name \in Names |->
                              IF name \in KeysOf(n) \/ state.groupOf[name] \in J THEN first
                              ELSE state.groupOf[name]],
               members |-> [m \in 1 .. Len(prFile.records) |->
                              IF m = first
                              THEN state.members[first] \cup {n} \cup UNION {state.members[j] : j \in J}
                              ELSE state.members[m]]]
<1> DEFINE N == Len(prFile.records)
           J == GroupsNamed(state, n)
           first == FirstGroup(state, n)
           other == state.groupOf[prFile.records[n].run]
           joined == IF J \ {first} = {} THEN state ELSE MergePrGroup(state, first, other)
           all == state.members[first] \cup {n} \cup UNION {state.members[j] : j \in J}
           Taken == TakeRecord(state, n)
           Expected == [groupOf |-> [name \in Names |->
                                       IF name \in KeysOf(n) \/ state.groupOf[name] \in J THEN first
                                       ELSE state.groupOf[name]],
                        members |-> [m \in 1 .. N |-> IF m = first THEN all ELSE state.members[m]]]
<1>1. /\ J = {} => first = n
      /\ J # {} => first \in J
      /\ J \ {first} # {} => prFile.records[n].run \in Names /\ J = {first, other} /\ first # other
  BY NamedGroups DEF GroupStates
<1>2. first \in 1 .. N
  BY <1>1
<1>3. /\ state = [groupOf |-> state.groupOf, members |-> state.members]
      /\ state.groupOf \in [Names -> Nat] /\ state.members \in [1 .. N -> SUBSET Numbered]
  BY DEF GroupStates
<1>4. Taken =
        [joined EXCEPT !.members[first] = @ \cup {n},
                       !.groupOf = [name \in Names |-> IF name \in KeysOf(n) THEN first ELSE @[name]]]
  BY DEF TakeRecord
<1>0. \A x : x \in all <=> \/ x \in state.members[first] \/ x = n
                            \/ \E j \in J : x \in state.members[j]
  <2> HIDE DEF J, first
  <2>1. QED
    OBVIOUS
<1>5. ASSUME J \ {first} = {} PROVE Taken = Expected
  <2>0. joined = [groupOf |-> state.groupOf, members |-> state.members]
    BY <1>3, <1>5
  <2> HIDE DEF J, first, joined, Taken
  <2>1. \A name \in Names : name \in KeysOf(n) \/ state.groupOf[name] \notin J \/ state.groupOf[name] = first
    BY <1>5
  <2>2. state.members[first] \cup {n} = all
    <3>1. \A j \in J : j = first
      BY <1>5
    <3> HIDE DEF all
    <3>2. QED
      BY <1>0, <3>1
  <2>3. Taken =
          [groupOf |-> [name \in Names |-> IF name \in KeysOf(n) THEN first ELSE state.groupOf[name]],
           members |-> [state.members EXCEPT ![first] = @ \cup {n}]]
    BY <1>4, <2>0
  <2>4. [state.members EXCEPT ![first] = @ \cup {n}] =
          [m \in 1 .. N |-> IF m = first THEN state.members[first] \cup {n} ELSE state.members[m]]
    BY <1>2, <1>3
  <2>5. [name \in Names |-> IF name \in KeysOf(n) THEN first ELSE state.groupOf[name]] =
          [name \in Names |-> IF name \in KeysOf(n) \/ state.groupOf[name] \in J THEN first
                              ELSE state.groupOf[name]]
    BY <2>1
  <2>6. QED
    BY <2>2, <2>3, <2>4, <2>5
<1>6. ASSUME J \ {first} # {} PROVE Taken = Expected
  <2>1. J = {first, other} /\ first # other
    BY <1>1, <1>6
  <2>2. joined = [groupOf |-> [name \in Names |-> IF state.groupOf[name] = other THEN first
                                                  ELSE state.groupOf[name]],
                  members |-> [state.members EXCEPT ![first] = @ \cup state.members[other]]]
    BY <1>3, <1>6 DEF MergePrGroup
  <2> HIDE DEF J, first, other, joined, Taken
  <2>3. joined.members = [m \in 1 .. N |-> IF m = first THEN state.members[first] \cup state.members[other]
                                           ELSE state.members[m]]
    <3>1. joined.members = [state.members EXCEPT ![first] = @ \cup state.members[other]]
      BY <2>2
    <3>2. QED
      BY <1>2, <1>3, <3>1
  <2>4. Taken =
          [groupOf |-> [name \in Names |-> IF name \in KeysOf(n) THEN first ELSE joined.groupOf[name]],
           members |-> [joined.members EXCEPT ![first] = @ \cup {n}]]
    BY <1>4, <2>2
  <2>5. [joined.members EXCEPT ![first] = @ \cup {n}] =
          [m \in 1 .. N |-> IF m = first
                            THEN all
                            ELSE state.members[m]]
    <3>1. [joined.members EXCEPT ![first] = @ \cup {n}] =
            [m \in 1 .. N |-> IF m = first THEN state.members[first] \cup state.members[other] \cup {n}
                              ELSE state.members[m]]
      BY <1>2, <2>3
    <3>2. state.members[first] \cup state.members[other] \cup {n} = all
      <4> HIDE DEF all
      <4>1. QED
        BY <1>0, <2>1
    <3>3. QED
      BY <3>1, <3>2, Zenon
  <2>6. [name \in Names |-> IF name \in KeysOf(n) THEN first ELSE joined.groupOf[name]] =
          [name \in Names |-> IF name \in KeysOf(n) \/ state.groupOf[name] \in J THEN first
                              ELSE state.groupOf[name]]
    <3>1. \A name \in Names : joined.groupOf[name] = IF state.groupOf[name] \in J THEN first
                                                     ELSE state.groupOf[name]
      <4>1. joined.groupOf = [name \in Names |-> IF state.groupOf[name] = other THEN first
                                                 ELSE state.groupOf[name]]
        BY <2>2
      <4>2. QED
        BY <2>1, <4>1
    <3>2. QED
      BY <3>1
  <2>7. QED
    BY <2>4, <2>5, <2>6
<1>7. QED
  BY <1>5, <1>6

(* The groups are what the records make of them one by one.                 *)
LEMMA GroupsAreDerived ==
  ASSUME Len(prFile.records) \in Nat
  PROVE  \E after : /\ PrGroups = after[Len(prFile.records)]
                    /\ after[0] = NoGroups
                    /\ \A n \in 1 .. Len(prFile.records) : after[n] = TakeRecord(after[n - 1], n)
<1> DEFINE N == Len(prFile.records)
           Taken(state, n) == TakeRecord(state, n)
           Upto(m, f) == f = [n \in 0 .. m |-> IF n = 0 THEN NoGroups ELSE Taken(f[n - 1], n)]
           Missing == {m \in Nat : ~\E f : Upto(m, f)}
<1>1. PrGroups = (CHOOSE f : Upto(N, f))[N]
  BY Zenon DEF PrGroups
<1> HIDE DEF Taken, Upto
<1>2. Missing = {}
  <2> SUFFICES ASSUME Missing # {} PROVE FALSE
    OBVIOUS
  <2>1. PICK m \in Missing : \A k \in Missing : <<k, m>> \notin OpToRel(<, Nat)
    BY NatLessThanWellFounded, WFMin
  <2>2. \A k \in Nat : k < m => k \notin Missing
    BY <2>1 DEF OpToRel
  <2>3. m # 0
    <3>1. Upto(0, [n \in {0} |-> NoGroups])
      BY DEF Upto
    <3>2. QED
      BY <2>1, <3>1
  <2>4. PICK f : Upto(m - 1, f)
    <3>1. m \in Nat /\ m # 0
      BY <2>1, <2>3, Zenon
    <3>2. m - 1 \in Nat /\ m - 1 < m
      BY <3>1
    <3>3. QED
      BY <2>2, <3>2
  <2> DEFINE longer == [n \in 0 .. m |-> IF n = m THEN Taken(f[m - 1], m) ELSE f[n]]
  <2>5. \A n \in 0 .. m : longer[n] = IF n = 0 THEN NoGroups ELSE Taken(longer[n - 1], n)
    <3>1. m \in Nat \ {0}
      BY <2>1, <2>3
    <3>2. \A n \in 0 .. m - 1 : f[n] = IF n = 0 THEN NoGroups ELSE Taken(f[n - 1], n)
      BY <2>4, Zenon DEF Upto
    <3>3. \A n \in 0 .. m - 1 : longer[n] = f[n]
      BY <3>1
    <3>4. longer[m] = Taken(f[m - 1], m) /\ longer[m - 1] = f[m - 1]
      BY <3>1, <3>3
    <3> HIDE DEF longer
    <3>5. \A n \in 1 .. m - 1 : n - 1 \in 0 .. m - 1 /\ n \in 0 .. m - 1 /\ n # 0
      BY <3>1
    <3>6. \A n \in 1 .. m - 1 : longer[n] = Taken(longer[n - 1], n)
      BY <3>2, <3>3, <3>5
    <3>7. longer[0] = NoGroups
      BY <3>1, <3>2, <3>3
    <3>8. \A n \in 0 .. m : n = 0 \/ n = m \/ n \in 1 .. m - 1
      BY <3>1
    <3>9. QED
      BY <3>1, <3>4, <3>6, <3>7, <3>8
  <2>6. Upto(m, longer)
    BY <2>5 DEF Upto
  <2>7. QED
    BY <2>1, <2>6
<1>3. Upto(N, CHOOSE f : Upto(N, f))
  <2>1. \E f : Upto(N, f)
    BY <1>2
  <2>2. QED
    BY <2>1, Zenon
<1> DEFINE after == CHOOSE f : Upto(N, f)
<1> HIDE DEF after
<1>4. after = [n \in 0 .. N |-> IF n = 0 THEN NoGroups ELSE Taken(after[n - 1], n)]
  BY <1>3, Zenon DEF after, Upto
<1>5. after[0] = NoGroups /\ \A n \in 1 .. N : after[n] = Taken(after[n - 1], n)
  <2>1. 0 \in 0 .. N /\ \A n \in 1 .. N : n \in 0 .. N /\ n # 0
    OBVIOUS
  <2>2. \A n \in 0 .. N : after[n] = IF n = 0 THEN NoGroups ELSE Taken(after[n - 1], n)
    BY <1>4, Zenon
  <2>3. QED
    BY <2>1, <2>2
<1>6. QED
  BY <1>1, <1>5 DEF after, Taken

(* Whatever shares names with one member of a group and is closed under     *)
(* sharing names has all of them.                                           *)
OneSide(members) == \A S \in SUBSET Numbered : Closed(S) => members \subseteq S \/ members \cap S = {}

(* The groups of the first n records: each of these is in the group of each *)
(* of its names, and a group has the names of its members and no others.    *)
Grouped(state, n) ==
  /\ state \in GroupStates
  /\ \A name \in Names : state.groupOf[name] \in 0 .. n
  /\ \A g \in 1 .. Len(prFile.records) : g > n => state.members[g] = {}
  /\ \A m \in Numbered : m <= n =>
       \A name \in KeysOf(m) : state.groupOf[name] # 0 /\ m \in state.members[state.groupOf[name]]
  /\ \A name \in Names : state.groupOf[name] # 0 =>
       LET members == state.members[state.groupOf[name]] IN
       /\ \E m \in members : name \in KeysOf(m)
       /\ \A m \in members : \A key \in KeysOf(m) : state.groupOf[key] = state.groupOf[name]
       /\ OneSide(members)

LEMMA NothingGrouped == PrShape => Grouped(NoGroups, 0)
<1> SUFFICES ASSUME PrShape PROVE Grouped(NoGroups, 0)
  OBVIOUS
<1>1. /\ DOMAIN prFile.records = 1 .. Len(prFile.records)
      /\ \A m \in Numbered : ~(m <= 0)
  BY PrRecordsAreShaped DEF Numbered
<1>2. /\ NoGroups.groupOf = [name \in Names |-> 0]
      /\ NoGroups.members = [n \in 1 .. Len(prFile.records) |-> {}]
      /\ NoGroups \in GroupStates
  BY <1>1 DEF NoGroups, GroupStates
<1>3. QED
  BY <1>1, <1>2 DEF Grouped

LEMMA RecordIsGrouped ==
  ASSUME PrShape, NEW n \in 0 .. Len(prFile.records) - 1, NEW state, Grouped(state, n)
  PROVE  Grouped(TakeRecord(state, n + 1), n + 1)
<1> DEFINE N == Len(prFile.records)
           new == n + 1
           next == TakeRecord(state, new)
           J == GroupsNamed(state, new)
           first == FirstGroup(state, new)
<1>1. /\ N \in Nat /\ n \in Nat /\ new \in 1 .. N /\ new > n /\ DOMAIN prFile.records = 1 .. N
      /\ \A m \in Numbered : m \in 1 .. N /\ KeysOf(m) # {} /\ KeysOf(m) \subseteq Names
      /\ \A m \in 1 .. N : KeysOf(m) \subseteq Names
  BY PrRecordsAreShaped DEF Numbered
<1>2. CASE KeysOf(new) = {}
  <2>1. next = state
    BY <1>2 DEF TakeRecord
  <2>2. \A m \in Numbered : m <= new => m <= n
    BY <1>1, <1>2
  <2>3. QED
    BY <1>1, <2>1, <2>2 DEF Grouped
<1>3. CASE KeysOf(new) # {}
  <2>1. /\ state.groupOf \in [Names -> Nat] /\ state.members \in [1 .. N -> SUBSET Numbered]
        /\ \A name \in Names : state.groupOf[name] \in 0 .. n
    BY DEF Grouped, GroupStates
  <2>2. J = {state.groupOf[name] : name \in KeysOf(new)} \ {0} /\ J \subseteq 1 .. n /\ J \subseteq 1 .. N
    BY <1>1, <2>1 DEF GroupsNamed
  <2>3. /\ J = {} => first = new
        /\ J # {} => first \in J
    BY <1>1, <2>1, NamedGroups
  <2>4. /\ next.groupOf = [name \in Names |->
             IF name \in KeysOf(new) \/ state.groupOf[name] \in J THEN first ELSE state.groupOf[name]]
        /\ next.members = [m \in 1 .. N |->
             IF m = first THEN state.members[first] \cup {new} \cup UNION {state.members[j] : j \in J}
             ELSE state.members[m]]
        /\ next = [groupOf |-> next.groupOf, members |-> next.members]
    <3>1. state \in GroupStates
      BY DEF Grouped
    <3>2. next = [groupOf |-> [name \in Names |->
                                IF name \in KeysOf(new) \/ state.groupOf[name] \in J THEN first
                                ELSE state.groupOf[name]],
                  members |-> [m \in 1 .. N |->
                                IF m = first
                                THEN state.members[first] \cup {new} \cup UNION {state.members[j] : j \in J}
                                ELSE state.members[m]]]
      BY <1>1, <1>3, <2>2, <3>1, RecordTaken, Zenon
    <3> HIDE DEF J, first, next, new
    <3>3. QED
      BY <3>2
  <2> HIDE DEF J, first, next, new
  <2>5. /\ first \in 1 .. N /\ first \in 1 .. new /\ new \in Numbered
    <3>1. new \in Numbered
      BY <1>1, <1>3 DEF Numbered
    <3>2. first \in 1 .. N /\ first \in 1 .. new
      <4>1. new \in 1 .. new /\ \A j \in 1 .. n : j \in 1 .. new
        BY <1>1
      <4>2. QED
        BY <1>1, <2>2, <2>3, <4>1, Zenon
    <3>3. QED
      BY <3>1, <3>2
  <2>6. next.members[first] = state.members[first] \cup {new} \cup UNION {state.members[j] : j \in J}
    BY <2>4, <2>5
  <2>7. \A m : m \in next.members[first] <=>
          \/ m = new
          \/ \E j \in J : m \in state.members[j]
    <3>1. J = {} => state.members[first] = {}
      BY <1>1, <2>3, <2>5 DEF Grouped
    <3>2. \A m : m \in UNION {state.members[j] : j \in J} <=> \E j \in J : m \in state.members[j]
      OBVIOUS
    <3>3. QED
      BY <2>3, <2>6, <3>1, <3>2
  <2>8. \A name \in Names :
          /\ name \in KeysOf(new) \/ state.groupOf[name] \in J => next.groupOf[name] = first
          /\ ~(name \in KeysOf(new) \/ state.groupOf[name] \in J) =>
               next.groupOf[name] = state.groupOf[name]
    BY <2>4
  <2>9. \A g \in 1 .. N : g # first => next.members[g] = state.members[g]
    BY <2>4
  <2>10. next \in GroupStates
    <3>1. next.groupOf \in [Names -> Nat]
      <4>1. \A name \in Names : next.groupOf[name] \in Nat
        BY <2>1, <2>5, <2>8
      <4>2. QED
        BY <2>4, <4>1
    <3>2. \A g \in 1 .. N : next.members[g] \in SUBSET Numbered
      <4>1. \A m \in next.members[first] : m \in Numbered
        BY <2>1, <2>2, <2>5, <2>7
      <4>2. QED
        BY <2>1, <2>9, <4>1
    <3>3. next.members \in [1 .. N -> SUBSET Numbered]
      BY <2>4, <3>2
    <3>4. QED
      BY <2>4, <3>1, <3>3 DEF GroupStates
  <2>11. \A name \in Names : next.groupOf[name] \in 0 .. new
    BY <1>1, <2>1, <2>5, <2>8 DEF new
  <2>12. \A g \in 1 .. N : g > new => next.members[g] = {}
    BY <1>1, <2>5, <2>9 DEF Grouped, new
  <2>13. ASSUME NEW m \in Numbered, m <= new, NEW name \in KeysOf(m)
         PROVE  next.groupOf[name] # 0 /\ m \in next.members[next.groupOf[name]]
    <3>1. CASE m = new
      BY <1>1, <2>5, <2>7, <2>8, <2>13, <3>1
    <3>2. CASE m # new
      <4>1. name \in Names /\ m <= n /\ state.groupOf[name] # 0 /\ m \in state.members[state.groupOf[name]]
        BY <1>1, <2>13, <3>2 DEF Grouped, new
      <4>2. CASE name \in KeysOf(new) \/ state.groupOf[name] \in J
        <5>1. state.groupOf[name] \in J
          BY <2>2, <4>1, <4>2
        <5>2. QED
          BY <2>5, <2>7, <2>8, <4>1, <5>1
      <4>3. CASE ~(name \in KeysOf(new) \/ state.groupOf[name] \in J)
        <5>1. next.groupOf[name] = state.groupOf[name] /\ state.groupOf[name] \in 1 .. n
              /\ state.groupOf[name] \in 1 .. N
          BY <1>1, <2>1, <2>8, <4>1, <4>3
        <5>2. state.groupOf[name] # first
          BY <1>1, <2>3, <4>3, <5>1
        <5>3. QED
          BY <2>9, <4>1, <5>1, <5>2
      <4>4. QED
        BY <4>2, <4>3
    <3>3. QED
      BY <3>1, <3>2
  <2>14. ASSUME NEW name \in Names, next.groupOf[name] # 0
         PROVE  LET members == next.members[next.groupOf[name]] IN
                /\ \E m \in members : name \in KeysOf(m)
                /\ \A m \in members : \A key \in KeysOf(m) : next.groupOf[key] = next.groupOf[name]
                /\ OneSide(members)
    <3>1. \A j \in J : /\ \E key \in KeysOf(new) : state.groupOf[key] = j /\ key \in Names
                       /\ \E m \in state.members[j] : ShareName(m, new) /\ m \in Numbered
                       /\ \A m \in state.members[j] : \A key \in KeysOf(m) :
                            key \in Names /\ state.groupOf[key] = j
                       /\ OneSide(state.members[j])
      <4> SUFFICES ASSUME NEW j \in J
                   PROVE  /\ \E key \in KeysOf(new) : state.groupOf[key] = j /\ key \in Names
                          /\ \E m \in state.members[j] : ShareName(m, new) /\ m \in Numbered
                          /\ \A m \in state.members[j] : \A key \in KeysOf(m) :
                               key \in Names /\ state.groupOf[key] = j
                          /\ OneSide(state.members[j])
        OBVIOUS
      <4>1. PICK key \in KeysOf(new) : state.groupOf[key] = j /\ j # 0
        BY <2>2
      <4>2. key \in Names /\ j \in 1 .. N /\ state.members[j] \subseteq Numbered
        BY <1>1, <2>1, <2>2, <4>1
      <4>3. /\ \E m \in state.members[j] : key \in KeysOf(m)
            /\ \A m \in state.members[j] : \A k \in KeysOf(m) : state.groupOf[k] = j
            /\ OneSide(state.members[j])
        BY <4>1, <4>2 DEF Grouped
      <4>4. QED
        BY <1>1, <4>1, <4>2, <4>3 DEF ShareName
    <3>2. CASE name \in KeysOf(new) \/ state.groupOf[name] \in J
      <4>1. next.groupOf[name] = first
        BY <2>8, <3>2
      <4>2. \E m \in next.members[first] : name \in KeysOf(m)
        <5>1. CASE name \in KeysOf(new)
          BY <2>7, <5>1
        <5>2. CASE state.groupOf[name] \in J
          <6>1. \E m \in state.members[state.groupOf[name]] : name \in KeysOf(m)
            BY <2>2, <5>2 DEF Grouped
          <6>2. QED
            BY <2>7, <5>2, <6>1
        <5>3. QED
          BY <3>2, <5>1, <5>2
      <4>3. ASSUME NEW m \in next.members[first], NEW key \in KeysOf(m)
            PROVE  next.groupOf[key] = first
        <5>1. CASE m = new
          BY <1>1, <2>8, <5>1
        <5>2. CASE \E j \in J : m \in state.members[j]
          BY <2>8, <3>1, <5>2
        <5>3. QED
          BY <2>7, <5>1, <5>2
      <4>4. OneSide(next.members[first])
        <5> SUFFICES ASSUME NEW S \in SUBSET Numbered, Closed(S)
                     PROVE  next.members[first] \subseteq S \/ next.members[first] \cap S = {}
          BY DEF OneSide
        <5>1. ASSUME NEW j \in J
              PROVE  /\ new \in S => state.members[j] \subseteq S
                     /\ new \notin S => state.members[j] \cap S = {}
          <6>1. PICK m \in state.members[j] : ShareName(m, new) /\ m \in Numbered
            BY <3>1
          <6>2. ShareName(new, m)
            BY <6>1 DEF ShareName
          <6>3. m \in S <=> new \in S
            BY <2>5, <6>1, <6>2 DEF Closed
          <6>4. state.members[j] \subseteq S \/ state.members[j] \cap S = {}
            BY <3>1 DEF OneSide
          <6>5. QED
            BY <6>1, <6>3, <6>4
        <5>2. new \in S => next.members[first] \subseteq S
          BY <2>7, <5>1
        <5>3. new \notin S => next.members[first] \cap S = {}
          BY <2>7, <5>1
        <5>4. QED
          BY <5>2, <5>3
      <4>5. QED
        BY <4>1, <4>2, <4>3, <4>4
    <3>3. CASE ~(name \in KeysOf(new) \/ state.groupOf[name] \in J)
      <4> DEFINE g == state.groupOf[name]
      <4>1. next.groupOf[name] = g /\ g # 0 /\ g \in 1 .. n /\ g \in 1 .. N
        BY <1>1, <2>1, <2>8, <2>14, <3>3
      <4>2. g # first
        BY <1>1, <2>3, <3>3, <4>1
      <4>3. next.members[g] = state.members[g] /\ state.members[g] \subseteq Numbered
        BY <2>1, <2>9, <4>1, <4>2
      <4>4. /\ \E m \in state.members[g] : name \in KeysOf(m)
            /\ \A m \in state.members[g] : \A key \in KeysOf(m) : state.groupOf[key] = g
            /\ OneSide(state.members[g])
        BY <4>1 DEF Grouped
      <4>5. ASSUME NEW m \in state.members[g], NEW key \in KeysOf(m)
            PROVE  next.groupOf[key] = g
        <5>1. key \in Names /\ state.groupOf[key] = g
          BY <1>1, <4>3, <4>4
        <5>2. key \notin KeysOf(new)
          BY <2>2, <3>3, <4>1, <5>1
        <5>3. QED
          BY <2>8, <3>3, <5>1, <5>2
      <4>6. QED
        BY <4>1, <4>3, <4>4, <4>5
    <3>4. QED
      BY <3>2, <3>3
  <2>15. QED
    BY <2>10, <2>11, <2>12, <2>13, <2>14 DEF Grouped, new, next
<1>4. QED
  BY <1>2, <1>3

LEMMA AllAreGrouped == PrShape => Grouped(PrGroups, Len(prFile.records))
<1> SUFFICES ASSUME PrShape PROVE Grouped(PrGroups, Len(prFile.records))
  OBVIOUS
<1> DEFINE N == Len(prFile.records)
<1>1. N \in Nat
  BY PrRecordsAreShaped
<1>2. PICK after : /\ PrGroups = after[N] /\ after[0] = NoGroups
                   /\ \A n \in 1 .. N : after[n] = TakeRecord(after[n - 1], n)
  BY <1>1, GroupsAreDerived
<1> DEFINE S == {n \in 0 .. N : Grouped(after[n], n)}
<1>3. 0 \in S
  BY <1>1, <1>2, NothingGrouped
<1>4. ASSUME NEW n \in 0 .. N - 1, n \in S PROVE n + 1 \in S
  <2>1. n + 1 \in 1 .. N /\ n + 1 \in 0 .. N /\ (n + 1) - 1 = n
    BY <1>1
  <2>2. after[n + 1] = TakeRecord(after[n], n + 1)
    BY <1>2, <2>1
  <2>3. Grouped(after[n], n)
    BY <1>4
  <2>4. Grouped(TakeRecord(after[n], n + 1), n + 1)
    BY <2>3, RecordIsGrouped
  <2>5. QED
    BY <2>1, <2>2, <2>4
<1> HIDE DEF S
<1>5. N \in S
  BY <1>1, <1>3, <1>4, FirstMissing
<1>6. QED
  BY <1>2, <1>5 DEF S

(* A pull request has all the records of that pull request, and no others.  *)
LEMMA GroupsAreComplete ==
  ASSUME PrShape
  PROVE  /\ \A pr \in Prs : PrGroups.members[pr] # {} /\ PrGroups.members[pr] \subseteq Numbered
         /\ \A pr \in Prs : \A m \in PrGroups.members[pr] : SamePr(m) = PrGroups.members[pr]
         /\ \A m \in Numbered : \E pr \in Prs : m \in PrGroups.members[pr]
<1> DEFINE N == Len(prFile.records)
           members(pr) == PrGroups.members[pr]
<1>1. /\ N \in Nat /\ DOMAIN prFile.records = 1 .. N
      /\ \A m \in Numbered : m \in 1 .. N /\ KeysOf(m) # {} /\ KeysOf(m) \subseteq Names
  BY PrRecordsAreShaped DEF Numbered
<1>2. /\ Grouped(PrGroups, N)
      /\ PrGroups.groupOf \in [Names -> Nat] /\ PrGroups.members \in [1 .. N -> SUBSET Numbered]
      /\ \A name \in Names : PrGroups.groupOf[name] \in 0 .. N
  BY AllAreGrouped DEF Grouped, GroupStates
<1>3. ASSUME NEW pr \in Prs
      PROVE  /\ members(pr) # {} /\ members(pr) \subseteq Numbered
             /\ \A m \in members(pr) : SamePr(m) = members(pr)
  <2>1. PICK name \in Names : PrGroups.groupOf[name] = pr /\ pr # 0
    BY DEF Prs
  <2>2. pr \in 1 .. N /\ members(pr) \subseteq Numbered
    BY <1>1, <1>2, <2>1
  <2>3. /\ \E m \in members(pr) : name \in KeysOf(m)
        /\ \A m \in members(pr) : \A key \in KeysOf(m) : PrGroups.groupOf[key] = pr
        /\ OneSide(members(pr))
    BY <1>2, <2>1 DEF Grouped
  <2>4. Closed(members(pr))
    <3> SUFFICES ASSUME NEW m \in members(pr), NEW n \in Numbered, ShareName(m, n)
                 PROVE  n \in members(pr)
      BY DEF Closed
    <3>1. PICK key \in KeysOf(m) : key \in KeysOf(n)
      BY DEF ShareName
    <3>2. PrGroups.groupOf[key] = pr
      BY <2>3
    <3>3. n \in PrGroups.members[PrGroups.groupOf[key]]
      BY <1>1, <1>2, <3>1 DEF Grouped
    <3>4. QED
      BY <3>2, <3>3
  <2>5. ASSUME NEW m \in members(pr) PROVE SamePr(m) = members(pr)
    <3>1. SamePr(m) \subseteq members(pr)
      BY <2>2, <2>4, <2>5 DEF SamePr
    <3>2. members(pr) \subseteq SamePr(m)
      <4> SUFFICES ASSUME NEW n \in members(pr), NEW S \in SUBSET Numbered, m \in S, Closed(S)
                   PROVE  n \in S
        BY <2>2 DEF SamePr
      <4>1. members(pr) \subseteq S \/ members(pr) \cap S = {}
        BY <2>3 DEF OneSide
      <4>2. QED
        BY <2>5, <4>1
    <3>3. QED
      BY <3>1, <3>2
  <2>6. QED
    BY <2>2, <2>3, <2>5
<1>4. ASSUME NEW m \in Numbered PROVE \E pr \in Prs : m \in members(pr)
  <2>1. PICK key \in KeysOf(m) : key \in Names
    BY <1>1
  <2>2. PrGroups.groupOf[key] # 0 /\ m \in PrGroups.members[PrGroups.groupOf[key]]
    BY <1>1, <1>2 DEF Grouped
  <2>3. QED
    BY <2>1, <2>2 DEF Prs
<1>5. QED
  BY <1>3, <1>4

(* The latest of some records. *)
LEMMA LatestIsThere ==
  ASSUME PrShape, NEW S \in SUBSET Numbered, S # {}
  PROVE  Max(S) \in S /\ \A m \in S : m <= Max(S)
<1> DEFINE N == Len(prFile.records)
           Before == {n \in 0 .. N : \A m \in S : m <= N - n}
<1>1. /\ N \in Nat /\ \A m \in S : m \in 1 .. N
  BY PrRecordsAreShaped DEF Numbered
<1>2. \E last \in S : \A m \in S : m <= last
  <2> SUFFICES ASSUME ~\E last \in S : \A m \in S : m <= last PROVE FALSE
    OBVIOUS
  <2>1. 0 \in Before
    BY <1>1
  <2>2. ASSUME NEW n \in 0 .. N - 1, n \in Before PROVE n + 1 \in Before
    <3>1. n \in Nat /\ n + 1 \in 0 .. N /\ \A m \in S : m <= N - n
      BY <1>1, <2>2
    <3>2. N - n \notin S
      BY <3>1
    <3>3. \A m \in S : m <= N - (n + 1)
      BY <1>1, <3>1, <3>2
    <3>4. QED
      BY <3>1, <3>3
  <2> HIDE DEF Before
  <2>3. N \in Before
    BY <1>1, <2>1, <2>2, FirstMissing
  <2>4. \A m \in S : m <= N - N
    BY <2>3 DEF Before
  <2>5. QED
    BY <1>1, <2>4
<1>3. QED
  BY <1>1, <1>2 DEF Max

LEMMA MergesAreListed == PrShape => UnverifiedMergesAreListed
<1> SUFFICES ASSUME PrShape PROVE UnverifiedMergesAreListed
  OBVIOUS
<1> DEFINE members(pr) == PrGroups.members[pr]
<1>1. /\ \A pr \in Prs : members(pr) # {} /\ members(pr) \subseteq Numbered
      /\ \A pr \in Prs : \A m \in members(pr) : SamePr(m) = members(pr)
      /\ \A m \in Numbered : \E pr \in Prs : m \in members(pr)
      /\ \A m \in Numbered : m \in Nat
  BY GroupsAreComplete, PrRecordsAreShaped DEF Numbered
<1>2. \A pr, actions : Numbers(pr, actions) = {n \in members(pr) : ActionOf(n) \in actions}
  BY DEF Numbers
<1> HIDE DEF members
<1>3. ASSUME NEW pr \in NeedsPostMergeVerification PROVE PrStatus(pr) # "verified"
  <2> DEFINE terminal == Numbers(pr, TerminalActions)
             latest == Max(terminal)
  <2>1. /\ pr \in Prs /\ Numbers(pr, {"merged"}) # {} /\ ~VerifiedAfterMerge(pr)
        /\ members(pr) \subseteq Numbered
    BY <1>1 DEF NeedsPostMergeVerification
  <2>2. terminal \in SUBSET Numbered /\ terminal # {} /\ Numbers(pr, {"merged"}) \subseteq terminal
    BY <1>2, <2>1 DEF TerminalActions
  <2>3. latest \in terminal /\ \A m \in terminal : m <= latest
    BY <2>2, LatestIsThere
  <2>4. ActionOf(latest) # "post-merge-verified"
    <3> SUFFICES ASSUME ActionOf(latest) = "post-merge-verified" PROVE FALSE
      OBVIOUS
    <3>1. latest \in Numbers(pr, {"post-merge-verified"})
      BY <1>2, <2>3
    <3>2. \A m \in Numbers(pr, {"merged"}) : m <= latest /\ m # latest /\ m \in Nat /\ latest \in Nat
      BY <1>1, <1>2, <2>2, <2>3
    <3>3. \A m \in Numbers(pr, {"merged"}) : latest > m
      BY <3>2
    <3>4. QED
      BY <2>1, <3>1, <3>3 DEF VerifiedAfterMerge
  <2>5. ActionOf(latest) \in TerminalActions
    BY <1>2, <2>3
  <2>6. PrStatus(pr) = ActionOf(latest)
    BY <2>2, <2>4 DEF PrStatus
  <2>7. QED
    BY <2>5, <2>6 DEF TerminalActions
<1>4. ASSUME NEW pr \in NeedsPostMergeVerification
      PROVE  \E n \in UnverifiedMerges : members(pr) = SamePr(n)
  <2> DEFINE merges == Numbers(pr, {"merged"})
             n == Max(merges)
  <2>1. /\ pr \in Prs /\ merges # {} /\ ~VerifiedAfterMerge(pr)
        /\ members(pr) \subseteq Numbered
    BY <1>1 DEF NeedsPostMergeVerification
  <2>2. merges \in SUBSET Numbered
    BY <1>2, <2>1
  <2>3. n \in merges /\ \A m \in merges : m <= n
    BY <2>1, <2>2, LatestIsThere
  <2>4. n \in members(pr) /\ n \in Numbered /\ ActionOf(n) = "merged" /\ SamePr(n) = members(pr)
    BY <1>1, <1>2, <2>1, <2>3
  <2> HIDE DEF n
  <2>5. ASSUME NEW v \in SamePr(n), v > n, ActionOf(v) \in {"merged", "post-merge-verified"}
        PROVE  FALSE
    <3>1. v \in members(pr) /\ v \in Nat /\ n \in Nat
      BY <1>1, <2>1, <2>4
    <3>2. CASE ActionOf(v) = "merged"
      BY <1>2, <2>3, <2>5, <3>1, <3>2
    <3>3. CASE ActionOf(v) = "post-merge-verified"
      <4>1. v \in Numbers(pr, {"post-merge-verified"})
        BY <1>2, <3>1, <3>3
      <4>2. \A m \in merges : m \in Nat /\ v > m
        BY <1>1, <2>2, <2>3, <2>5, <3>1
      <4>3. QED
        BY <2>1, <4>1, <4>2 DEF VerifiedAfterMerge
    <3>4. QED
      BY <2>5, <3>2, <3>3
  <2>6. QED
    BY <2>4, <2>5 DEF UnverifiedMerges
<1>5. ASSUME NEW n \in UnverifiedMerges
      PROVE  \E pr \in NeedsPostMergeVerification : members(pr) = SamePr(n)
  <2>1. /\ n \in Numbered /\ ActionOf(n) = "merged"
        /\ ~\E v \in SamePr(n) : v > n /\ ActionOf(v) \in {"merged", "post-merge-verified"}
    BY DEF UnverifiedMerges
  <2>2. PICK pr \in Prs : n \in members(pr)
    BY <1>1, <2>1
  <2>3. SamePr(n) = members(pr)
    BY <1>1, <2>2
  <2>4. n \in Numbers(pr, {"merged"})
    BY <1>2, <2>1, <2>2
  <2>5. ~VerifiedAfterMerge(pr)
    BY <1>2, <2>1, <2>3, <2>4 DEF VerifiedAfterMerge
  <2>6. QED
    BY <2>2, <2>3, <2>4, <2>5 DEF NeedsPostMergeVerification
<1>6. QED
  BY <1>3, <1>4, <1>5 DEF UnverifiedMergesAreListed, members

(* However records come, join pull requests and are written to them later,  *)
(* the pull requests listed as merged but not verified are those whose last *)
(* merge no verification follows (derivePrShepherdState).                   *)
THEOREM UnverifiedMergesHold == PrSpec => []UnverifiedMergesAreListed
BY PrShapeHolds, MergesAreListed, PTL
=============================================================================
