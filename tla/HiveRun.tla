-------------------------------- MODULE HiveRun --------------------------------
(***************************************************************************)
(* The supervisor of a hive run (src/src/peers/extension-hive.mjs and      *)
(* hive-supervisor.mjs): a timer in the session that started it, which     *)
(* again and again looks for open work on the goal and sends it to peers,  *)
(* until its ticks or its time are used up or somebody stops it.  What it  *)
(* does is noted in the control ledger, from which a session that starts   *)
(* resumes it.                                                             *)
(*                                                                         *)
(* There is one run, of one goal.  Of the goal board only what a           *)
(* supervisor looks at is kept: which work keys are taken, open objections *)
(* to unhealthy peers, rework that was seeded, the coordinator's claim.    *)
(* Dispatches themselves are the subject of PeerSend.  The appends a timer *)
(* fires and forgets are `pending` until they take their turn at the lock. *)
(***************************************************************************)
EXTENDS ControlLedger

CONSTANTS
  TheRun,            \* the key of the run
  Peers, Keys,       \* peers it may send to; work keys the scout may suggest
  MaxPeers,          \* options.maxPeers
  MaxTicks,          \* options.maxTicks
  Duration,          \* options.durationMs, in clock ticks
  FailureThreshold,  \* DEFAULT_PEER_FAILURE_THRESHOLD
  BoardMayFail,      \* may an update of the board, or reading it, fail?
  FactoryRunFailed,  \* is there a failed factory run of the goal?
  NoPeer, NoSession,
  Slots,             \* bound: ticks of one supervisor that overlap
  MaxEffort,         \* bound: sessions started and ticks, together
  MaxPending,        \* bound: records a ticking supervisor is about to append
  MaxNow,            \* bound: the clock
  MaxStarts,         \* bound: sessions started
  MaxSent,           \* bound: messages sent
  MaxFailures        \* bound: messages that fail

VARIABLES
  clock, starts, sent,
  supervisor,    \* hiveRunsByKey of each session: [on, ticks, deadline]
  command,       \* of each session: the run command, until it schedules
  stopping,      \* of each session: how far its stop() has come
  pending,       \* of each session: records it is about to append
  tick,          \* of each session and slot: a dispatchPeerHiveRunTick
  message,       \* of each work key: the message sent for it
  failures,      \* of each session and peer: its messages lost to a closed connection
  coordinator,   \* the coordinator's claim: "none", "held", "released"
  blocker,       \* is there an objection to unhealthy peers?
  rework         \* seeded for the failed factory run: "none", "item", "both"

boardVars  == <<coordinator, blocker, rework>>
hiveVars   == <<ledgerVars, clock, starts, sent, supervisor, command, stopping, pending, tick, message,
                failures, boardVars>>

ASSUME HiveConstants ==
  /\ MaxPeers \in Nat /\ MaxTicks \in Nat \ {0} /\ Duration \in Nat \ {0}
  /\ FailureThreshold \in Nat \ {0} /\ Slots \in Nat \ {0}
  /\ MaxEffort \in Nat /\ MaxPending \in Nat /\ MaxNow \in Nat
  /\ MaxStarts \in Nat /\ MaxSent \in Nat /\ MaxFailures \in Nat

NoSupervisor == [on |-> FALSE, ticks |-> 0, deadline |-> 0]
IdleTick     == [pc |-> "idle", first |-> "no", peers |-> {}, keys |-> {}]
NoMessage    == [pc |-> "none", by |-> NoSession, to |-> NoPeer]

Quiet == sent > MaxSent + Slots      \* the goal has no work to dispatch

Supervising(x) == supervisor[x].on

Put(x, st, metadata) == [pending EXCEPT ![x] = @ \cup {[status |-> st, metadata |-> metadata]}]

-----------------------------------------------------------------------------
(* The peers: summarizeHiveRunPeerHealth, choosePeerForSuggestion. *)

Healthy(x, peers) == {p \in peers : failures[x][p] < FailureThreshold}

(* At least one suggestion is taken, at most one for each peer; the first   *)
(* tick of /peer hive run is not given maxPeers.                            *)
SuggestionLimit(t) ==
  LET peers == Cardinality(t.peers) IN
  Max({1, Min({peers, IF MaxPeers > 0 /\ t.first # "hive" THEN MaxPeers ELSE peers})})

-----------------------------------------------------------------------------
(* One tick: dispatchPeerHiveRunTick. *)

SetTick(x, i, new) == tick' = [tick EXCEPT ![x][i] = new]
TickAt(x, i, pc)   == tick[x][i].pc = pc

OnlyTick == UNCHANGED <<ledgerVars, clock, starts, sent, supervisor, stopping, pending>>

GoesOn(x, i, new) == SetTick(x, i, new) /\ UNCHANGED command

(* A tick ends, and the first of a run lets it be scheduled.               *)
Ends(x, i) ==
  /\ SetTick(x, i, IdleTick)
  /\ command' = IF tick[x][i].first # "no" THEN [command EXCEPT ![x] = "schedule"] ELSE command

(* What the scout suggests: nothing that is taken.                         *)
Suggestions == {k \in Keys : message[k].pc = "none" /\ sent < MaxSent}

ReworkIsMissing == FactoryRunFailed /\ rework = "none"

(* While a message of the goal is at work the tick only waits, and there    *)
(* may be nothing to suggest.  Otherwise the messages tell which peers are  *)
(* healthy, and the board as it is now is what the tick decides on,         *)
(* whatever comes later.                                                   *)
WaitsForMessage(x) == \E k \in Keys : message[k].pc = "live" /\ message[k].by = x
NothingToDo(x) == Healthy(x, Peers) # {} /\ ~ReworkIsMissing
Passes(x) == WaitsForMessage(x) \/ NothingToDo(x)

Looks(x, i, first) ==
  /\ ~WaitsForMessage(x)
  /\ ReworkIsMissing \/ Suggestions # {} \/ Healthy(x, Peers) = {}
  /\ SetTick(x, i, [pc |-> IF ReworkIsMissing THEN "rework" ELSE "decide",
                    first |-> first, peers |-> Healthy(x, Peers), keys |-> Suggestions])

(* ensureHiveRunReworkItems: a work item and then a proposal; if that fails *)
(* the item stays without one, and the board is not read again.            *)
SeedRework(x, i) ==
  LET t == tick[x][i] IN
  /\ TickAt(x, i, "rework")
  /\ \/ /\ BoardMayFail
        /\ rework' = IF rework = "both" THEN "both" ELSE "item"
        /\ GoesOn(x, i, [t EXCEPT !.pc = "decide"])
     \/ /\ rework' = "both"
        /\ GoesOn(x, i, [t EXCEPT !.pc = "decide", !.keys = Suggestions])
  /\ OnlyTick /\ UNCHANGED <<message, failures, coordinator, blocker>>

(* An objection to unhealthy peers, unless one is open; best effort.        *)
AppendHiveRunPeerHealthBlocker ==
  \/ blocker' = TRUE
  \/ BoardMayFail /\ UNCHANGED blocker

(* All peers unhealthy: object.  Otherwise take some suggestions; the order *)
(* in which the scout ranks them is left open.                              *)
Decide(x, i) ==
  LET t == tick[x][i] IN
  /\ TickAt(x, i, "decide")
  /\ \/ /\ t.peers = {}
        /\ AppendHiveRunPeerHealthBlocker
        /\ Ends(x, i)
     \/ /\ t.peers # {} /\ t.keys = {}
        /\ Ends(x, i) /\ UNCHANGED blocker
     \/ /\ t.peers # {} /\ t.keys # {}
        /\ \E keys \in SUBSET t.keys :
             /\ Cardinality(keys) = Min({Cardinality(t.keys), SuggestionLimit(t)})
             /\ GoesOn(x, i, [t EXCEPT !.pc = "dispatch", !.keys = keys])
        /\ UNCHANGED blocker
  /\ OnlyTick /\ UNCHANGED <<message, failures, coordinator, rework>>

OneLess(x, i, k, p) ==
  IF tick[x][i].keys = {k} THEN Ends(x, i)
  ELSE GoesOn(x, i, [tick[x][i] EXCEPT !.keys = @ \ {k}, !.peers = @ \ {p}])

(* beginPeerSendGoalLink with the policy reuse, for a peer that has none of *)
(* the others: one locked update that claims the work, or finds that        *)
(* another tick or session has it.                                          *)
DispatchSuggestion(x, i) ==
  LET t == tick[x][i] IN
  /\ TickAt(x, i, "dispatch")
  /\ \E k \in t.keys, p \in t.peers :
       /\ \/ /\ message[k].pc = "none"
             /\ message' = [message EXCEPT ![k] = [pc |-> "claimed", by |-> x, to |-> p]]
             /\ sent' = sent + 1
          \/ message[k].pc # "none" /\ UNCHANGED <<message, sent>>
       /\ OneLess(x, i, k, p)
  /\ UNCHANGED <<ledgerVars, clock, starts, supervisor, stopping, pending, failures, boardVars>>

OnlyMessage ==
  UNCHANGED <<ledgerVars, clock, starts, sent, supervisor, command, stopping, pending, tick, boardVars>>

(* comms.sendMessage; if it throws the claim is released again.            *)
SendMessage(k) ==
  /\ message[k].pc = "claimed"
  /\ \/ message' = [message EXCEPT ![k].pc = "live"]
     \/ message' = [message EXCEPT ![k] = NoMessage]
  /\ OnlyMessage /\ UNCHANGED failures

(* The message is answered, or its connection closes without an answer; the *)
(* claim of a killed session goes stale.                                    *)
MessageEnds(k) ==
  /\ message[k].pc \in {"live", "others"}
  /\ message' = [message EXCEPT ![k] = NoMessage]
  /\ \/ UNCHANGED failures
     \/ /\ message[k].pc = "live"
        /\ failures[message[k].by][message[k].to] < MaxFailures
        /\ failures' = [failures EXCEPT ![message[k].by][message[k].to] = @ + 1]
  /\ OnlyMessage

TickStep(x, i) ==
  \/ SeedRework(x, i) \/ Decide(x, i) \/ DispatchSuggestion(x, i)

-----------------------------------------------------------------------------
(* The supervisor: schedulePeerHiveRun. *)

Metadata(x) == [deadlineAt |-> supervisor[x].deadline, tickCount |-> supervisor[x].ticks]

Schedule(x, ticks, deadline, resumed) ==
  /\ supervisor' = [supervisor EXCEPT ![x] =
       [on |-> TRUE, ticks |-> ticks, deadline |-> deadline]]
  /\ pending' = Put(x, IF resumed THEN "resumed" ELSE "started",
                    [deadlineAt |-> deadline, tickCount |-> ticks])

(* A run begins: claim, note, first tick, and only then is it scheduled;    *)
(* when the tick has no peer or cannot read, the command fails and the      *)
(* claim stays.                                                             *)
BeginRun(x, kind) ==
  /\ Alive(x) /\ command[x] = "none" /\ coordinator = "none"
  /\ coordinator' = "held"
  /\ \/ command' = [command EXCEPT ![x] = "over"] /\ UNCHANGED tick
     \/ /\ Passes(x)
        /\ command' = [command EXCEPT ![x] = "schedule"] /\ UNCHANGED tick
     \/ command' = [command EXCEPT ![x] = "tick"] /\ Looks(x, 1, kind)
  /\ UNCHANGED <<ledgerVars, clock, starts, sent, supervisor, stopping, pending, message, failures, blocker, rework>>

(* handlePeerHiveCommand, run. *)
HiveRunCommand(x) == BeginRun(x, "hive")

(* /peer do --autonomous: without an active peer it ends before its claim.  *)
StartAutonomousMissionSupervisor(x) ==
  \/ BeginRun(x, "mission")
  \/ /\ Alive(x) /\ command[x] = "none"
     /\ command' = [command EXCEPT ![x] = "over"]
     /\ UNCHANGED <<ledgerVars, clock, starts, sent, supervisor, stopping, pending, tick, message, failures, boardVars>>

ScheduleRun(x) ==
  /\ command[x] = "schedule"
  /\ command' = [command EXCEPT ![x] = "over"]
  /\ Schedule(x, 1, clock + Duration, FALSE)
  /\ UNCHANGED <<ledgerVars, clock, starts, sent, stopping, tick, message, failures, boardVars>>

(* One tick less where sessions start again. *)
TickBound == IF Quiet THEN MaxEffort - 1 ELSE MaxEffort

(* The interval: a tick that nobody waits for, or the last one was before.  *)
IntervalTick(x) ==
  LET ticks == supervisor[x].ticks + 1 IN
  /\ Supervising(x) /\ supervisor[x].ticks < MaxTicks
  /\ starts + supervisor[x].ticks < TickBound /\ Cardinality(pending[x]) < MaxPending
  /\ supervisor' = [supervisor EXCEPT ![x].ticks = ticks]
  /\ pending' = Put(x, "tick", [deadlineAt |-> supervisor[x].deadline, tickCount |-> ticks])
  /\ \/ (BoardMayFail \/ Passes(x)) /\ UNCHANGED tick
     \/ \E i \in 1..Slots : TickAt(x, i, "idle") /\ Looks(x, i, "no")
  /\ UNCHANGED <<ledgerVars, clock, starts, sent, command, stopping, message, failures, boardVars>>

(* stop(): the timers go at once, the rest follows one update after the other. *)
Stop(x, reason) ==
  /\ Supervising(x) /\ stopping[x] = "no"
  /\ supervisor' = [supervisor EXCEPT ![x].on = FALSE]
  /\ stopping' = [stopping EXCEPT ![x] = reason]
  /\ UNCHANGED <<ledgerVars, clock, starts, sent, command, pending, tick, message, failures, boardVars>>

UserStop(x)     == Stop(x, "stopped")
MaxTicksStop(x) == supervisor[x].ticks >= MaxTicks /\ Stop(x, "stopped")
DeadlineUnlessSpent(x) ==      \* as if a run that used up its ticks lost its deadline timer
  /\ supervisor[x].deadline <= clock /\ supervisor[x].ticks < MaxTicks
  /\ Stop(x, "elapsed")

DeadlineStop(x) == supervisor[x].deadline <= clock /\ Stop(x, "elapsed")

(* The release of the claim and the final handoff; both are best effort.   *)
ReleaseCoordinator(x) ==
  /\ stopping[x] \in {"stopped", "elapsed"}
  /\ \/ coordinator' = "released"
     \/ BoardMayFail /\ UNCHANGED coordinator
  /\ pending' = Put(x, stopping[x], Metadata(x))
  /\ stopping' = [stopping EXCEPT ![x] = "no"]
  /\ supervisor' = [supervisor EXCEPT ![x] = IF Supervising(x) THEN @ ELSE NoSupervisor]
  /\ UNCHANGED <<ledgerVars, clock, starts, sent, command, tick, message, failures, blocker, rework>>

AppendPending(x) ==
  /\ \E r \in pending[x] :
       /\ \/ AppendPeerControlRecord("hive", TheRun, r.status, r.metadata)
          \/ AppendFails
       /\ pending' = [pending EXCEPT ![x] = @ \ {r}]
  /\ UNCHANGED <<recon, clock, starts, sent, supervisor, command, stopping, tick, message, failures, boardVars>>

-----------------------------------------------------------------------------
(* Sessions. *)

LiveRuns(x) == IF Supervising(x) THEN {TheRun} ELSE {}

(* Sessions end and start again where the goal has no work left.           *)
StartBound == IF Quiet THEN MaxStarts ELSE Cardinality(Sessions)

OnlyLedger ==
  UNCHANGED <<clock, starts, sent, supervisor, command, stopping, pending, tick, message, failures, boardVars>>

Start(x) ==
  /\ starts < StartBound /\ starts' = starts + 1
  /\ SessionStart(x)
  /\ UNCHANGED <<clock, sent, supervisor, command, stopping, pending, tick, message, failures, boardVars>>

(* The session ends and the next one begins in the same process, where     *)
(* nothing stops its hive runs; or the process ends with all it had.       *)
Shutdown(x) ==
  /\ Alive(x) /\ starts < StartBound
  /\ ReconGo(x, NotRunning)
  /\ UNCHANGED ledger /\ OnlyLedger

Kill(x) ==
  /\ Alive(x) /\ starts < StartBound
  /\ ReconGo(x, NotRunning)
  /\ supervisor' = [supervisor EXCEPT ![x] = NoSupervisor]
  /\ command' = [command EXCEPT ![x] = IF @ = "none" THEN "none" ELSE "over"]
  /\ stopping' = [stopping EXCEPT ![x] = "no"]
  /\ pending' = [pending EXCEPT ![x] = {}]
  /\ tick' = [tick EXCEPT ![x] = [i \in 1..Slots |-> IdleTick]]
  /\ message' = [k \in Keys |-> IF message[k].pc # "none" /\ message[k].by = x
                           THEN [NoMessage EXCEPT !.pc = "others"] ELSE message[k]]
  /\ failures' = [failures EXCEPT ![x] = [p \in Peers |-> 0]]
  /\ UNCHANGED <<ledger, clock, starts, sent, boardVars>>

Reconcile(x) ==
  /\ \/ ListLive(x, {})
     \/ LoadLedger(x, LiveRuns(x), clock)
     \/ ReconcileStep(x)
  /\ OnlyLedger

ResumeAnew(x) ==      \* as if a resumed run had its whole duration again
  Schedule(x, MetadataOf("hive", TheRun, "tickCount", 0), clock + Duration, TRUE)

ResumeRun(x) ==
  Schedule(x, MetadataOf("hive", TheRun, "tickCount", 0),
           MetadataOf("hive", TheRun, "deadlineAt", 0), TRUE)

(* resumePersistedHiveRuns, also when the reconciliation before it failed. *)
ResumePersistedHiveRuns(x) ==
  /\ recon[x].pc \in {"marked", "gaveUp"}
  /\ ReconGo(x, [NotRunning EXCEPT !.pc = "on"])
  /\ IF Loads /\ TheRun \in ActiveHiveRuns(clock) /\ ~Supervising(x)
     THEN ResumeRun(x) ELSE UNCHANGED <<supervisor, pending>>
  /\ UNCHANGED <<ledger, clock, starts, sent, command, stopping, tick, message, failures, boardVars>>

SessionStep(x) == Reconcile(x) \/ ResumePersistedHiveRuns(x)

(* The bound on the clock leaves time for the deadline of the run.         *)
PassTime ==
  /\ clock < MaxNow /\ clock' = clock + 1
  /\ (coordinator = "none" \/ \E x \in Sessions : command[x] \in {"tick", "schedule"})
       => clock' + Duration <= MaxNow
  /\ UNCHANGED <<ledgerVars, starts, sent, supervisor, command, stopping, pending, tick, message, failures, boardVars>>

-----------------------------------------------------------------------------
(* To keep the two apart, a goal has work to dispatch, or it has none (sent *)
(* is beyond its bound) and sessions may end.                              *)
HiveInit ==
  /\ LedgerInit
  /\ clock = 0 /\ starts = 0 /\ sent \in {0, MaxSent + Slots + 1}
  /\ supervisor = [x \in Sessions |-> NoSupervisor]
  /\ command = [x \in Sessions |-> "none"] /\ stopping = [x \in Sessions |-> "no"]
  /\ pending = [x \in Sessions |-> {}]
  /\ tick = [x \in Sessions |-> [i \in 1..Slots |-> IdleTick]]
  /\ message = [k \in Keys |-> NoMessage]
  /\ failures = [x \in Sessions |-> [p \in Peers |-> 0]]
  /\ coordinator = "none" /\ blocker = FALSE /\ rework = "none"

HiveNext ==
  \/ \E x \in Sessions :
       \/ Start(x) \/ Shutdown(x) \/ Kill(x) \/ SessionStep(x)
       \/ HiveRunCommand(x) \/ StartAutonomousMissionSupervisor(x)
       \/ ScheduleRun(x) \/ IntervalTick(x)
       \/ UserStop(x) \/ MaxTicksStop(x) \/ DeadlineStop(x) \/ ReleaseCoordinator(x)
       \/ AppendPending(x)
       \/ \E i \in 1..Slots : TickStep(x, i)
  \/ \E k \in Keys : SendMessage(k) \/ MessageEnds(k)
  \/ PassTime

HiveSpec == HiveInit /\ [][HiveNext]_hiveVars

(* Timers fire and the event loop goes on; users need not do anything.     *)
FairHiveSpec ==
  /\ HiveSpec
  /\ WF_hiveVars(PassTime)
  /\ \A x \in Sessions : /\ WF_hiveVars(DeadlineStop(x)) /\ WF_hiveVars(ReleaseCoordinator(x))
                         /\ WF_hiveVars(AppendPending(x)) /\ WF_hiveVars(SessionStep(x))

-----------------------------------------------------------------------------
(* Properties. *)

(* A supervisor does not run for ever: whatever becomes of its ticks and    *)
(* however often sessions resume it, its deadline stops it and its final    *)
(* updates are made.                                                        *)
EveryRunEnds ==
  \A x \in Sessions : Supervising(x) ~> ~Supervising(x) /\ stopping[x] = "no"

(* The deadlines there are of the run: of a supervisor, of a record to come, *)
(* of a line of the ledger.                                                 *)
Deadlines ==
  {supervisor[x].deadline : x \in {y \in Sessions : Supervising(y) \/ stopping[y] # "no"}}
  \cup {r.metadata.deadlineAt : r \in UNION {pending[x] : x \in Sessions}}
  \cup {ledger[i].metadata.deadlineAt : i \in Giving("hive", TheRun, "deadlineAt")}

(* However often the run is stopped, resumed or both, by whichever records  *)
(* reach the ledger and in whatever order: there is one deadline of it, the *)
(* one it was started with, everywhere.  A record that lands after that of  *)
(* the stop may bring the run back, but not beyond its deadline.            *)
OneDeadline == \A d, e \in Deadlines : d = e
=============================================================================
