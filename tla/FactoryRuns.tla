------------------------------ MODULE FactoryRuns ------------------------------
(***************************************************************************)
(* The factory (src/src/peers/factory.mjs, gates.mjs, rework.mjs): the     *)
(* runs that track whether a goal's work is verified.  A run is what is    *)
(* derived from the records of its id in an append-only file.  Sessions    *)
(* append without a lock: they load the file and refuse when its last line *)
(* is half a record, read it again to see whether it ends in a newline,    *)
(* and then write.  A session that is killed while it writes leaves half a *)
(* line, or a whole one without its newline.                               *)
(*                                                                         *)
(* Evidence, summaries, owners, attestations and times are left out.       *)
(***************************************************************************)
EXTENDS Naturals, Sequences, SequencesExt, FiniteSets

CONSTANTS
  Runs,                               \* ids of runs, plan reviews included
  Gates, DefaultRequired, DefaultOptional,   \* the gates, and DEFAULT_GATE_POLICY
  NoGoal,
  MaxAttempts, RepeatedFailureThreshold, Steps    \* the rework policy

ASSUME FactoryConstants == DefaultRequired \cup DefaultOptional \subseteq Gates /\ NoGoal \notin Runs

VARIABLE file      \* [there, lines, ended]: ended, by a newline?

Torn == [type |-> "not JSON"]

RunRecord(type, r) ==
  [type |-> type, run |-> r, goal |-> NoGoal, source |-> "", gates |-> {},
   gate |-> "", status |-> "", attempt |-> 0, failure |-> "unknown"]

(* loadFactoryRuns: half a record is forgiven at the end, and only there. *)
TrailingPartial == file.lines # <<>> /\ ~file.ended /\ Last(file.lines) = Torn
Loads == \A i \in DOMAIN file.lines :
           file.lines[i] = Torn => i = Len(file.lines) /\ ~file.ended
IsRecord(i) == file.lines[i] # Torn
RecordsOf(r) == {i \in DOMAIN file.lines : IsRecord(i) /\ file.lines[i].run = r}

(* appendSeparator *)
NeedsSeparator == file.lines # <<>> /\ ~file.ended

(* What appendFile leaves of record: "whole", "unended" or "half" of it. *)
Written(record, separator, how) ==
  LET line == IF how = "half" THEN Torn ELSE record IN
  [there |-> TRUE, ended |-> how = "whole",
   lines |-> IF NeedsSeparator /\ ~separator
             THEN [file.lines EXCEPT ![Len(file.lines)] = Torn]
             ELSE Append(file.lines, line)]

-----------------------------------------------------------------------------
(* deriveFactoryState *)

Preserved == {"failed", "error", "blocked", "cancelled"}      \* PRESERVED_TERMINAL_BASE_STATUSES
FailedStatuses == {"fail", "failed", "error", "blocked"}
ReworkTypes == {"rework-requested", "context-patch-requested"}

UnknownRun ==
  [base |-> "unknown", goal |-> NoGoal, source |-> "", gates |-> {},
   results |-> [g \in Gates |-> "pending"], attempts |-> {}, failures |-> <<>>,
   reworks |-> 0, escalated |-> FALSE]

(* positiveInteger(record.attempt), or the number the code makes up. *)
AttemptOf(record, otherwise) == IF record.attempt > 0 THEN record.attempt ELSE otherwise

ApplyAttempt(run, record) ==
  LET known  == Cardinality(run.attempts)
      failed == record.status \in FailedStatuses
  IN
  IF record.type = "attempt-started"
  THEN [run EXCEPT !.attempts = @ \cup {AttemptOf(record, known + 1)}, !.base = "running"]
  ELSE [run EXCEPT !.attempts = @ \cup {AttemptOf(record, IF known = 0 THEN 1 ELSE known)},
                   !.base = IF failed THEN record.status ELSE @,
                   !.failures = IF failed THEN Append(@, record.failure) ELSE @]

(* applyFactoryRecord *)
ApplyRecord(run, record) ==
  CASE record.type = "run-started" ->
         [run EXCEPT !.goal = record.goal, !.source = record.source, !.gates = record.gates,
                     !.base = "running"]
    [] record.type \in {"attempt-started", "attempt-completed"} -> ApplyAttempt(run, record)
    [] record.type = "gate-result" ->
         [run EXCEPT !.results[record.gate] = record.status,
                     !.failures = IF record.status \in FailedStatuses THEN Append(@, record.failure) ELSE @]
    [] record.type \in ReworkTypes -> [run EXCEPT !.reworks = @ + 1, !.base = "rework"]
    [] record.type = "human-escalation" -> [run EXCEPT !.escalated = TRUE, !.base = "blocked"]
    [] record.type = "plan-review" -> [run EXCEPT !.goal = record.goal, !.base = record.status]

RunOf(r) ==
  LET after[n \in 0 .. Len(file.lines)] ==      \* of the first n lines
        IF n = 0 THEN UnknownRun
        ELSE IF n \in RecordsOf(r) THEN ApplyRecord(after[n - 1], file.lines[n])
        ELSE after[n - 1]
  IN after[Len(file.lines)]

(* deriveRunGateSummary *)
RequiredGates(run) == IF run.gates # {} THEN run.gates ELSE DefaultRequired
OptionalGates(run) == IF run.gates # {} THEN {} ELSE DefaultOptional

HasResult(run, gates, st) == \E g \in gates : run.results[g] = st

GatesAlone(run) ==      \* as if a failure were forgotten once every gate has passed
  CASE HasResult(run, Gates, "fail") -> "blocked"
    [] ~HasResult(run, Gates, "fail") /\ \A g \in RequiredGates(run) : run.results[g] = "pass" -> "verified"
    [] OTHER -> run.base

(* statusFromGateState *)
RunStatus(run) ==
  LET passed == \A g \in RequiredGates(run) : run.results[g] = "pass" IN
  CASE HasResult(run, Gates, "fail") -> "blocked"
    [] ~HasResult(run, Gates, "fail") /\ run.base \in Preserved -> run.base
    [] OTHER ->
         CASE HasResult(run, RequiredGates(run), "skip") -> "blocked"
           [] passed /\ HasResult(run, OptionalGates(run), "skip") -> "verified-with-risks"
           [] passed /\ ~HasResult(run, OptionalGates(run), "skip") -> "verified"
           [] OTHER -> run.base

(* findFactoryRunByLink, of a source and a goal. *)
ActiveOnly(source, g) ==      \* as if only runs without an outcome were reused
  {r \in Runs : RunOf(r).source = source /\ RunOf(r).goal = g /\ RunStatus(RunOf(r)) = "running"}

LinkedRuns(source, g) ==
  {r \in Runs : RunOf(r).source = source /\ RunOf(r).goal = g}

-----------------------------------------------------------------------------
(* deriveReworkDecision: the run's failures, and one the command may add.  *)

StepAction(n) == IF n <= Len(Steps) THEN Steps[n] ELSE Last(Steps)

ReworkDecision(run, given) ==
  LET failures == run.failures \o given
      latest   == IF failures = <<>> THEN "unknown" ELSE Last(failures)
      attempts == Max({0} \cup run.attempts)
      repeated == Cardinality({i \in DOMAIN failures : failures[i] = latest})
  IN
  CASE attempts >= MaxAttempts -> "escalate-human"
    [] attempts < MaxAttempts /\ repeated >= RepeatedFailureThreshold -> "context-patch"
    [] OTHER -> StepAction(attempts + 1)

(* reworkRecordTypeForAction *)
RecordTypeFor(action) ==
  CASE action \in {"context-patch", "context-or-tool-patch"} -> "context-patch-requested"
    [] action = "escalate-human" -> "human-escalation"
    [] OTHER -> "rework-requested"

-----------------------------------------------------------------------------
(* The property is about the lines themselves. *)
LastOf(S) == {i \in S : \A j \in S : j <= i}

LinesOf(r, types) == {i \in RecordsOf(r) : file.lines[i].type \in types}

Results(r, g) == {i \in LinesOf(r, {"gate-result"}) : file.lines[i].gate = g}

GivenUp(r) ==
  LinesOf(r, {"human-escalation"})
    \cup {i \in LinesOf(r, {"attempt-completed"}) : file.lines[i].status \in FailedStatuses}

Verified(r) == RunStatus(RunOf(r)) \in {"verified", "verified-with-risks"}

(* A run that is shown as verified, with risks or without, has passed each  *)
(* of its required gates at that gate's last result, fails none, and has    *)
(* not been given up, by a failed attempt or to a human, since the last     *)
(* attempt or rework.  (A plan review has no gates, see Missions.)          *)
VerifiedIsEarned ==
  \A r \in Runs : LinesOf(r, {"run-started"}) # {} /\ Verified(r) =>
    /\ \A g \in RequiredGates(RunOf(r)) : \E i \in LastOf(Results(r, g)) : file.lines[i].status = "pass"
    /\ \A g \in Gates : \A i \in LastOf(Results(r, g)) : file.lines[i].status # "fail"
    /\ \A i \in GivenUp(r) : \E j \in LinesOf(r, {"attempt-started"} \cup ReworkTypes) : j > i
=============================================================================
