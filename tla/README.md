# pi-peer in TLA+

`pi-peer` is an extension of the Pi coding agent.  It lets several Pi sessions
of one machine and one workspace find each other, send each other prompts over
Unix sockets, and coordinate through a shared *goal board*: a JSON file with an
append-only log of events per goal.  This directory holds TLA+ models of the
parts of it where order, failure and concurrency matter, TLC configurations
that check them on small instances, and theorems that TLAPS proves for every
value of the constants.

Paths below are relative to the repository (`src/peers/...` is the repository's
own `src/` directory).

## Inventory

Processes: each Pi session is one Node process with one event loop, so that
within a session handlers interleave only at `await`s, timers and callbacks.
Sessions share files under `.pi/` (board, journal, message store, ledgers) and
talk over sockets.

| Component | Files | State | Operations | Hard behaviour | What makes it correct |
|---|---|---|---|---|---|
| Goal board | `src/peers/goal-board.mjs` | per goal: event log, status; everything else derived at the current time | append (claim, heartbeat, release, task, handoff, proposal, resolve, objection, vote, work item, ...), close, scout, verify a plan | claims that expire, go stale and come back; which handoff ends which task; a readiness gate over a dozen projections | write exclusion, key exclusion, no duplicate of accepted work, a closed goal is settled, an open one has something to do |
| Goal store and lock | `src/peers/goal-store.mjs`, `goal-board.mjs` 60-90, 1765-1845 | board file, journal, lock directory | lock, load, modify, append, save, compact, unlock | several processes, killed holders, failing I/O, a damaged board | no acknowledged update lost, a dead owner is replaced |
| Goal-linked dispatch | `src/peers/extension-goal-linking.mjs`, `extensions/pi-peer/index.ts` (`peer_send`, fan-out), `goal-board.mjs` 151-263 | per dispatch: where it is, its claim, its answer; timers | claim, send, record task, heartbeat, handoff, release, object | seven separate updates with other peers, failures and the end of the session in between | the work is not dispatched twice, the log tells the story in order, the claim ends |
| Goal commands | `extensions/pi-peer/index.ts` 1348-1620, `src/peers/command.mjs`, `command-center.mjs` | none of their own | one update, or a plan, lanes, a fan-out as many | a command that ends half way, among other peers | half a plan does not stall the goal |
| Inbound bridge | `src/peers/inbound-bridge.mjs` | queue, active entry, timers | enqueue, activate, time out, cancel, end of turn, dispose | timeout against end of turn, cancellation against activation | every message answered once, with an answer that is its own, and begun in its turn |
| Peer comms | `src/peers/comms.mjs` | messages with status, abort controllers | send, retry, await, cancel, resume, recover | late control frames, resume twice, cancel against answer, restart | a message shown as active can be awaited, answers are true |
| Local transport | `src/peers/local-transport.mjs` | sockets, in-flight requests, timers | request, control frames, cancel, shut down | closed sockets, cleared timers, delivery before an error | a request is answered or rejected, nobody waits for nothing |
| Message store | `src/peers/message-store.mjs` | snapshot file, lock, queue of saves | save, load, flush | two sessions with one file, saves that fail, stale locks | a finished message stays finished, a failed save is made good |
| Presence | `src/peers/local-transport.mjs` 89-241, `runtime.mjs`, `extension-lifecycle.mjs` | descriptors, registry | publish, heartbeat, stop, refresh | a heartbeat against a stop, overlapping refreshes, dead processes | the registry tells who is there |
| Control ledger | `src/peers/control-ledger.mjs` | append-only run records | append, load, reconcile at session start | torn and failing appends, sessions that start while others run | what was left running is ended once |
| Hive supervisor | `src/peers/extension-hive.mjs`, `hive-supervisor.mjs` | timers, ticks, a ledger entry | schedule, tick, dispatch, stop, resume | overlapping ticks, fire-and-forget records, resumption | it ends, by the deadline it was started with |
| Idle watcher | `src/peers/idle-watcher.mjs`, `index.ts` (offers) | counts, cooldowns, flags | check, activate, nudge, compact, sweep | state read, awaited on and acted on | the budget holds, work is noticed |
| Factory, gates, rework | `src/peers/factory.mjs`, `gates.mjs`, `rework.mjs`, `evals.mjs`, `metrics.mjs` | a file of run records | append, derive | unlocked appends, half records, gates of an earlier attempt | verified means verified, the file can be read |
| Missions, plan review | `index.ts`, `src/peers/command-center.mjs`, `plan-adversary.mjs` | commands in progress | `/peer do`, `/peer factory ...` | two files updated in turn, kills in between | one run a goal |
| PR shepherd | `src/peers/pr-shepherd.mjs` | a file of records | append, derive | records that join two pull requests | unverified merges are listed |
| Private subagents | `src/peers/subagents.mjs` | ledger records | start, progress, complete, cancel | look-ups before appends | blocked children are not forgotten |
| Child processes | `src/peers/process-spawn.mjs` | managed children | start, stop | exits and failing records between awaits | a child that runs can be found and is told to stop |
| Automations | `src/peers/automations.mjs` | a catalog, a file of records | append | none | - |
| Organisation, policy | `src/peers/org.mjs`, `config.mjs`, `tool-registry.mjs` | configuration | normalise | none | - |
| Context and self-improvement | `src/peers/context-lifecycle.mjs`, `context-budget.mjs`, `self-improve.mjs` | numbers of one session | judge | none shared | - |
| Protocol, results | `src/peers/protocol.mjs`, `tool-results.mjs`, `src/utils.mjs` | none | validate, parse, redact | none | - |
| User interface | `src/peers/command*.mjs`, `status.mjs`, `setup-wizard.mjs`, `guidance.mjs`, ... | none | parse, render | none | - |

Interaction: `peer_send` (extension) calls the *goal board* to claim, *comms*
to send, and the board again as answers arrive; comms sends through the *local
transport*; the remote transport hands the envelope to the remote *inbound
bridge*, which prompts Pi and answers at the end of its turn, recording
progress on the shared board on the way.  All board updates of all sessions go
through the *goal store* and its lock.  Dispatches, hive runs, subagent runs and
child processes note in the *control ledger* what they have at work, and a
session that starts reconciles it with what is alive.  Hive supervisors and idle
watchers ask the board's *scout* for work.  Missions write the board and the
factory's file in turn.  The hazards of these interactions, each at its line,
are listed in `PROJECT.json`.

## Modules

| Module | Models | Uses |
|---|---|---|
| `WriteLease` | what claims promise: leases granted one at a time beside compatible ones, which only lapse | - |
| `GoalBoard` | one goal of the board: every update, every projection the gate reads | `WriteLease` (refinement) |
| `GoalScout` | what a goal's board suggests to do next, and the check of a plan | extends `GoalBoard` |
| `GoalCommands` | the `/peer goal` commands as sequences of updates | extends `GoalScout` |
| `BoardStore` | how processes make updates atomic: lock, load, journal, save, compaction, crashes | - |
| `PeerSend` | goal-linked dispatches and fan-outs composed with the board | extends `GoalBoard` |
| `ControlLedger` | the ledger, what is derived from it, reconciliation | - |
| `SendRecovery` | dispatches across the end of their sessions | extends `PeerSend`, `ControlLedger` |
| `HiveRun` | the supervisor of a hive run | extends `ControlLedger` |
| `PeerProcesses` | child processes of a session | extends `ControlLedger` |
| `Subruns` | private subagent runs | extends `ControlLedger` |
| `InboundBridge` | the queue of a session that works for its peers | - |
| `LocalTransport` | requests over sockets, from the sender's timer to the request context at the endpoint | extends `InboundBridge` |
| `PeerComms` | the messages of a session from sending to recovery after a restart | extends `LocalTransport` |
| `MessageStore` | the file several sessions save their messages in | - |
| `Presence` | endpoints, descriptors, refreshes and the registry | - |
| `IdleWatcher` | checks and sweeps of an idle session | - |
| `FactoryRuns` | the file of factory runs and what is derived from it | - |
| `Missions` | the commands that drive the factory | extends `FactoryRuns` |
| `PrShepherd` | pull requests derived from their records | - |
| `MC...` | instances for TLC | the above |
| `GoalBoardProofs` | theorems about `GoalBoard`, `GoalScout`, `GoalCommands` | extends these |
| `PeerSendProofs` | theorems about `PeerSend`, `SendRecovery` | extends `SendRecovery`, `GoalBoardProofs` |
| `BoardStoreProofs` | theorems about `BoardStore` | extends it |
| `InboundBridgeProofs` | theorems about `InboundBridge` | extends it |
| `PeerCommsProofs` | theorems about `LocalTransport`, `PeerComms` | extends `PeerComms`, `InboundBridgeProofs` |
| `ControlLedgerProofs` | theorems about `PeerProcesses`, `Subruns`, `HiveRun` | extends these |
| `IdleWatcherProofs` | theorem about `IdleWatcher` | extends it |
| `RecordsProofs` | theorems about `Missions`, `MessageStore`, `Presence`, `PrShepherd` | extends these |

Operators named `...Unchecked`, `...Anyway`, `...NeverStale` and so on, with a
comment that starts "as if", are deliberate wrong variants of the definition
that follows them.  No specification uses them; they are what the properties
were tried against (`PROJECT.json`, "mutants").

### GoalBoard, GoalScout, GoalCommands

`events` is `goal.events`, an event's id is its position in the log, and `now`
is the wall clock in ticks.  `AppendPeerGoalEvent(in)` is `appendPeerGoalEvent`
with all its guards (`Accepts`): it stamps the event (`NormalizeEvent`: time,
ttl into a deadline) and appends it.  `ClosePeerGoal(force, peer, summary)` is
`closePeerGoal` with the whole of `validateGoalReadyToClose` (`ReadyToClose`).
Everything the guards read is an operator on the log and the clock, as in
`deriveGoalState`: claims (`ActiveClaims`, `StaleClaims`), tasks and handoffs,
votes, work items, the closure policy.  Which event is *latest* is decided by
time and then by position, as `latestEvent` does, and an absent number is 0.

Two things the code does that a reader may not expect and the model keeps:
closed goals still accept events, and a claim that went stale or expired comes
back into force with a heartbeat, after the same conflict check as a new claim.

Inputs carry a free `ref` that the action aims at an existing event
(`Targets`), because the check of a reference is part of the guards.  Paths are
sequences of segments in the form `normalizePaths` produces; overlap is prefix.
A lane or a role counts only as "is implementation work" (`produces`).  Of the
severities those that block are kept, and some that do not.

`GoalScout` adds `derivePeerGoalScoutSuggestions` (`ScoutSuggestions`: a kind,
what it is about and the key it is claimed with) and `verifyPeerGoalPlan` with
its search for cycles.  In `GoalCommands` a command gives its events one at a
time (`Give`, `CommandStep`), each an update of its own that may be refused or
may be the last (`CommandEnds`).

### BoardStore

Each `await` of `updatePeerGoalBoard` and `withGoalBoardLock` is a program
point of `pc`; a board is the set of updates it contains; the journal is its
last snapshot with two flags for damage.  The environment may kill the
processes of `Crashers`, damage the board file once it was written, and (with
`MayTear`) stop an append in the middle of its line, one fault at a time.  The
lock becomes *old* only when its owner is dead: critical sections are taken to
be shorter than the 30 seconds of `GOAL_BOARD_LOCK_STALE_MS`.

### PeerSend, ControlLedger, SendRecovery

`send[s].pc` is where the dispatch `s` is in `peer_send` and then in
`trackPeerSendGoalCompletion`; each board update is one step, and `Try` lets it
succeed as `AppendPeerGoalEvent` or fail, by its guards or (with
`MayFailToAppend`) by itself.  Where the code lets an error end the sequence,
so does the model: a dispatch whose task was not recorded is `untracked`, one
whose handoff or release failed is `dropped`.  A fan-out (`Fanout`) is a
dispatch to each of its peers, all at once, and differs in what it does when a
recording fails.  The transport is reduced to what the dispatcher sees: sending
works or not, and a tracked message gets one answer.  Others append
`OtherInputs` and close the goal at any time.

`ledger` is the sequence of the ledger's lines, whole or torn; `Loads` says
whether it can be read.  A task, a run or a subrun is what its last records say
(`StatusOf`, `MetadataOf`).  `recon[x]` is where the start of session `x` is in
`reconcilePeerControlState`; each append and each board update of it is a step.
`SendRecovery` adds to each step of a dispatch the ledger record the code
writes before it, kills the session anywhere (`MayTear`: in the middle of an
append), and lets it start again.

### HiveRun, PeerProcesses, Subruns

`supervisor[x]` is the entry of `hiveRunsByKey`, `tick[x]` the ticks under way
with the `await`s they are at, `pending[x]` the records that were fired with
`void` and have not reached the file.  `managed` is `managedByRoot`, `kid[k].st`
says whether a child is waited for, up or gone as the system sees it.  `cmd` of
`Subruns` is a command between its look-up in the ledger and its append; a count
that a command does not know is absent from its record, as in the code.  Two
histories are kept for the properties: `kid[k].rival` (two starts waited for a
child of one peer) and `crossed` (the runs with a count recorded between look-up
and append).

### InboundBridge, LocalTransport, PeerComms

`HandleEnvelope`, `CancelEntry`, `ActiveTimeout`, `HandleAgentEnd` and `Dispose`
are the methods of `createInboundPromptBridge`, each atomic because each runs
to its end without an `await` on shared state; every one that frees the active
place contains the `activateNext` the code calls, with the loop over messages
whose prompt Pi refuses.  Pi is external: `asked` is the set of messages whose
prompt is in the current run, and one `agent_end` ends the run.

One connection for each request.  `sender[c]` is the promise of
`sendEnvelopeToEndpoint` (connecting, open, resolved, rejected), `armed` its
timer; `toPeer` and `toSender` are the bytes under way as sequences of frames;
`context[c]` is the request context at the endpoint, `replying` while a reply is
written but not flushed, `beating` its heartbeat timer, `idle` the connections
the endpoint destroyed after `connectionIdleTimeoutMs`.  A step of the endpoint
is a step of the bridge together with everything the bridge's calls of
`markQueued`, `markActive` and the cancel acknowledgement write (`Follow`,
`Written`).  `BeginShutdown` and `Stop` are the two halves of
`runtime.shutdown`, with `drain` in between; `Crash` kills the session.
Heartbeats are not frames: while a context beats, the sender's timer does not
fire.  That a connection is closed (`HungUp`) reaches the sender after the
frames that were written before.  `Sluggish` lets timers fire while bytes lie
unread, as they may when an event loop is blocked.

A message has a status and a response; `phase` says where its `#dispatch` is.
Each attempt is a request of its own, named by `carrier`.  What the transport
reports is handled in the step that reads it: `RecordMessageEvent` for control
frames, `Responded` and `SendFails` (with `Retry`: backoff, cancelled, or given
up) for the end of `transport.send`.  `SaveLands` is a save of the store;
`Restart` kills the sending session and hydrates a new one.

### MessageStore, Presence

`known[s]` is what session `s` has in memory, `unsaved[s]` the chain of
`pendingSave`, `saving[s]` the save under way with what it read under the lock;
`stored` is the file.  A session that starts (`HydratePersistedState`) takes
active messages for disconnected ones, also those of another session that runs.

`card[e]` is the descriptor of an endpoint, which is overwritten in place and
therefore *torn* for a moment; `pen` are the endpoints whose `descriptorWrite`
is under way; a refresh (`look`) reads the descriptors one by one and then
updates the registry as `refreshLocalPeers` does, with the list of the previous
refresh it read at its start or its end as the code does.

### IdleWatcher

`check[i]` and `sweep[j]` are calls between their `await`s.  A check passes the
conditions of the code in their order (busy, limit, context, inbound, messages,
board); what changes meanwhile is not looked at again, as in the code.  An
inbound message that waits for its answer is nudged once its cooldown is over;
before that, or when Pi refuses the nudge, the check ends without a change.

### FactoryRuns, Missions, PrShepherd

`file` is the sequence of lines with whether the last one ends in a newline and
whether it is half a record; what a run is, is derived from its records by a
recursive function over the lines.  A command of `Missions` stands between the
load, the look at the last byte and the append of `appendFactoryRunRecord`, and
between updates of board and file.  `PrGroups` is `derivePrShepherdState`, a
recursive function over the records, with `MergePrGroup` where a record joins
groups.  A group has its records as a set of numbers, since the code sorts them
before it looks at any.

## Runs

| Run | Checks | Shows |
|---|---|---|
| `goal_work` | `WriteExclusion`, `KeyExclusion`, `FulfilledKeysStayQuiet`, `SomethingToDo`, `ImplementsLease`, `NormalCloseFinishesPlan`, `FinishedTaskStaysFinished`, `NormalCloseIsSettled` | four scenarios of one goal: claims over a ticking clock, a plan with dependencies, a piece of work up to closing, commands that put whole plans on the board.  Claims in force exclude each other as leases do, what was accepted or finished stays so, a normal close leaves nothing behind, an accepted plan never comes to rest unfinished |
| `board_store` | `NoLostUpdate`, `DeadOwnerIsReplaced` | two processes, one of them killed anywhere, the board damaged or an append torn: no acknowledged update is lost, the lock is recovered |
| `inbound_bridge` | `NothingIsDropped`, `AnswersAreEarned`, `TurnsGoInOrder`, `EveryMessageIsAnswered` | four messages of three priorities in all orders of cancelling, failing, timing out and shutting down: each gets an answer, which is its own, and turns go by priority and then by arrival |
| `peer_send` | `HandoffFollowsTask`, `UsesBoard`, `NoDuplicateDispatch` | two dispatches of the same work, one by a fan-out, while claims go silent and others release them |
| `control_ledger` | `DoneLeavesNothing`, `OnlyRivalsAreForgotten`, `BlockedIsNotDone`, `NoClaimOutlivesItsDispatch`, `OrphansAreMirrored` | three scenarios over the ledger, with appends that fail or tear: a dispatch with a heartbeat whose session is killed and started again leaves neither task nor claim; a child that runs can be found unless two calls start one peer at once; a run with blocked children passes for done only if the count came between the look-up and the record of its completion |
| `peer_messages` | `ShutdownAnswers`, `ActiveMessagesAreAwaitable`, `AnswersTellTheTruth`, `UsesBridge`, `NoRetryAfterCancel`, `EveryDispatchEnds` | a message with its retry or its resumption, through sockets, to the bridge of a peer that may be slow, shut down or be killed, with cancellation and a restart of the sender: each dispatch ends, and tells the truth |
| `hive_run` | `EveryRunEnds`, `OneDeadline` | ticks, failing updates, user stops, kills and resumption: each supervisor ends, and a run that is resumed, even after its stop, has the deadline it was started with |
| `idle_watcher` | `WithinBudget`, `WorkIsNoticed` | checks that overlap while board, context and messages change: never more activations than configured, no work ignored for ever |
| `records` | `VerifiedIsEarned`, `RunsCanBeRead`, `OneRunPerLink`, `UnverifiedMergesAreListed`, `LaterSavesCatchUp`, `StoppedStaysHidden`, `FinishedMailStays`, `RefreshTellsWhoIsThere` | five scenarios about what sessions share in files (factory runs, missions, pull requests, messages, descriptors), with kills in the middle of writes: what is read is what happened |
| `board_takeover` | violates `NoLostUpdate` | finding 1 |
| `send_claim_leak` | violates `AnswerReleasesClaim` | finding 2 |
| `goal_offers_refused` | violates `OffersCanBeTaken` | finding 3 |

A run with scenarios chooses one of them in its initial state and stays in it;
`MCGoalWork`, `MCControlLedger` and `MCRecords` instantiate modules that share
no state this way, so that one state space answers one family of questions.

The closing properties of `GoalBoard`, `VerifiedIsEarned` and
`UnverifiedMergesAreListed` are stated on the raw events and records ("every
failed handoff was resolved, made good by a later one of its task, or followed
by evidence"), not on the projections the code computes: they would catch a
projection that forgets an event.

### Bounds

* `goal_work`: `EventsIn` caps the log (claims 5 events, plan 6, closure 5,
  commands 6), `LastTime` the clock (3 ticks for claims with a stale limit of
  2; 1 for closure, while a claim with a stale limit of 1 is in force),
  `MaxCommands` the commands (1).  Two peers, two keys, one message.  For
  claims that is enough for one to lapse, another to take its place and the
  first to be revived, with a third beside them; for closing, a task with
  claim, handoff, release and vote, or a failed and a successful handoff; for
  the plan, items that depend on each other in both directions.  What lies
  beyond is covered by the proofs, for the properties proved.
* `board_store`: two processes, `MaxUpdates` 3, so that a board can be
  damaged, recovered and damaged again.  The lock protocol itself repeats.
* `inbound_bridge`: four messages give a full queue with ties and one active.
* `peer_send`: two dispatches, `Horizon` and `MaxTime` 2, two claims, tasks,
  handoffs and releases, one heartbeat (`MCBudget` caps the events of a type).
  The clock waits at the horizon until dispatches rest; this hides no race,
  since all steps are possible at every earlier tick.
* `control_ledger`: one dispatch of a session started up to three times
  (`MaxStarts`), `MaxTime` 2; one claim, task, release, objection and
  heartbeat and two handoffs (`MCBudget`).  The heartbeat is what tells a
  timer that is cleared from one that beats on after its dispatch ended, which
  would bring a claim back that nobody works under.  Two peers with two
  children and two starts, which may overlap and name the same peer; one
  subagent run with two commands, whose requests may leave out either count,
  and `MaxSubrunRecords` 3.
* `peer_messages`: one message a behaviour (`MaxSent`), a task with two
  attempts or a question with one that a restart (`MaxRestarts`) may leave to
  be resumed.  The second request meets its abandoned predecessor at the peer,
  active or queued; longer queues are the matter of `inbound_bridge`, whose
  results carry over by `UsesBridge`.
* `hive_run`: one session (`MaxStarts` 2, so it restarts once), one peer, one
  key, two ticks (`MaxTicks`), `Slots` 2 for ticks that overlap, one record on
  its way (`MaxPending`), two messages, one failure.  The clock runs to the
  deadline (`Duration`, `MaxNow` 2), so that a supervisor that got the whole
  duration again would have another one.  The ledger does not fail in this
  run, and no second session resumes what the first is still supervising.
* `idle_watcher`: two pieces of work, one other peer, two activations, a
  cooldown as long as the clock runs (`Cooldown`, `MaxTime` 2), a shorter one
  for nudges (`NudgeCooldown` 1), two checks at a time (`Slots`).
* `records`: five lines of run records and four in missions, by *one* session
  (`Sessions`): with two, `RunsCanBeRead` is false of the code (see Findings),
  and two missions of one goal that look for its run at once start one each.
  What is so for any number of sessions the theorems say.  Four records on two
  links and one run for pull requests, two sessions that save one message at
  two times with a chain of two saves and one failure, two endpoints that
  share a session and a watcher with two overlapping refreshes (`MaxAge` 1,
  `LastMinute` 2).

TLC's symmetry reduction is not used; where runs, endpoints or refreshes are
alike, `MCRecords` takes them in one order.  Deadlock is checked in
`board_store`, `inbound_bridge`, `peer_messages` and `board_takeover`.  In the
other runs the system may come to rest: all dispatches, runs or checks are over
and the clock or the budget of events is used up.

### Fairness

* `BoardStore`: `WF` of each live process's update (the event loop runs it, and
  heartbeats make a session call again), and of `LockAges` (time passes).  Only
  this justifies `DeadOwnerIsReplaced`.
* `InboundBridge`: `WF` of the armed timers alone.  Pi owes nothing: that is why
  `EveryMessageIsAnswered` rests on the timer of the active entry.
* `SendRecovery`: `WF` of each dispatch's own steps, which includes that a sent
  message gets an answer (the transport times out and the bridge answers each
  message, the property above), of a started session's reconciliation, and of
  the clock.  Kills and starts are not fair: `NoClaimOutlivesItsDispatch` and
  `OrphansAreMirrored` say what follows when a session does start.
* `PeerComms` (`FairCommsSpec`): the sender's event loop handles what its sockets
  and timers deliver, backoffs end; at the endpoint, bytes that were written are
  read, replies are flushed and the timer of the active entry fires.  Nothing
  else is fair: connections need not be accepted in time, Pi need not end a
  turn, shutdown, kill and idle closing may or may not happen.  A timer can fire
  only when its heartbeats have stopped, so that a turn is not cut short while
  it beats.
* `HiveRun`: `WF` of the clock, of the deadline's timer, of the release of the
  coordinator's claim and the records already under way, and of a started
  session's steps.  Ticks, users and peers owe nothing.
* `IdleWatcher`: `WF` of the steps of a check or sweep under way and of the
  clock; `SF` of the two reads of a check, because a read may fail and the check
  be tried again, but errors are no rule.
* `PeerProcesses`, `Subruns` and the modules of `records` have no liveness
  properties and no fairness.

## Theorems

Checked by `tlapm` for any set of peers, keys, paths, messages, dispatches,
sessions, processes, runs, endpoints and for any bounds.

### What they assume

The assumptions are those named in the modules, and TLC evaluates them for the
constants of every run.  They say that constants are of their type and:

* `BoardConstants`: inputs are well-formed events; a claim to write names paths,
  a work item has a key and a vote has a verdict, as the code requires before it
  appends them.  `ScoutConstants`: lanes and closing policies name keys.
* `CommandConstants`, `CommandEvents`: what a command appends is an input.
* `SendConstants`, `SendEvents`: what dispatches and others append are inputs,
  and message ids are fresh, so that others do not use the id of a dispatch.
  `RecoveryConstants`: each dispatch has one session.
* `BridgeConstants`, `TransportConstants`, `CommsConstants`: each request belongs
  to a message, attempts are 1 to 10.
* `PresenceConstants`: descriptors live at least one tick.
* `StoreConstants` (of `BoardStore`, of `MessageStore`), `HiveConstants`,
  `ProcessConstants`, `SubrunConstants`, `IdleConstants`: types.
* `FactoryConstants`, `MissionConstants`: the gates of a policy and of a mission
  are gates, and "no goal" is not a run.  `RecordConstants`: what is recorded of
  pull requests are actions, and "no name" is not a name.

Three theorems have a condition on the behaviour, `[]OneTaker`, `[]OneAppender`
and `[]OneLinker`; each is followed by one that derives it.

### The goal board

* `TypeCorrect`: the log is always a sequence of well-formed events.
* `LeaseRefinement`: `Spec => Lease!Spec`.  The heart is `StepOfLeases`: a step
  leaves the leases of the claims in force as they are and brings at most one
  claim into force, beside claims it is compatible with.  It rests on
  `UntouchedClaim` (an event about another claim does not change a claim's
  standing, although standing depends on the latest heartbeat and the clock),
  `TimeOnlyEndsClaims` (each deadline once due stays due) and a lemma for each
  way a claim comes into force: `ClaimJoins`, `HeartbeatJoins`.
* `WriteExclusionHolds`, `KeyExclusionHolds`: given `StepOfLeases`, exclusion is
  inductive together with `TypeOK`.
* `FulfilledKeysHolds`: not inductive by itself; `Quiet` adds that a resolve
  always points to an earlier event, otherwise a later proposal could turn out
  to have been resolved before it was made.
* `FinishedTasksHolds`: an action property.  The subtle case is a task that
  ended by evidence (release and finding): a handoff that arrives later
  outdates that evidence, but then ends the task itself.
* `NormalClosesAreSettled`, `NormalClosesFinishPlans`: the properties speak of
  raw events, the gate of projections, so the proofs say that no projection
  forgets an event.  `CloseInv` adds to `TypeOK` that no event is ahead of the
  clock, that an open goal was not closed, and that work items have keys.
* `GoalNeverRests`: not an induction but an argument about one state.  A goal
  nobody works on that offers nothing has nothing left to settle, so each of its
  work items is done or waits for another one that is not; among
  finitely many keys such waiting is a cycle, which the property excludes.  A
  closing policy that counts votes without a verdict would be the other way to
  rest; hence the assumption on votes.
* `CommandsUseBoard`: `CommandSpec => Spec`.  By it the theorems above hold
  whatever commands are given and wherever they break off.

### The goal store

* `OnlyTheTakeoverLoses`, `NoUpdateIsLost`: from `StoreInv`.  `LockInv` says who
  may hold the lock and that whoever is about to remove a lock means the old one
  it saw; `FileInv` that board or journal has what was acknowledged, with at
  most one fault at a time.  With `OneTaker`, that no two processes are about to
  remove the lock at once, no update is lost: finding 1 is the only way to lose
  one.  `OneTaker` follows where each process that may crash leaves at most one
  other to find its lock.

### Dispatches and their recovery

* `SendImplementsBoard`: each step of `PeerSend` is a step of `GoalBoard` or
  stutters, including `beginPeerGoalTask`, which repeats the guards instead of
  calling `appendPeerGoalEvent`.  With it all theorems above hold of dispatches
  (`DispatchesExclude`).  It needs `SendTypeOK` (`SendTypeCorrect`): a dispatch
  past its claim names a claim of the log.
* `HandoffsFollowTasks`, `DoneLeavesNothingHolds`: from `Stories`, which says at
  each stage whether the task and the handoff of a dispatch are in the log,
  that tasks name earlier claims, and that no event is ahead of the clock (a
  handoff only ends tasks that are not younger than it).
* `NoDuplicateDispatches`: from `Tracking`.  A claim that went silent no longer
  excludes others, but the task recorded with it does, and only a release or a
  handoff ends that.
* `RecoveryUsesBoard`, `RecoveryExcludes`, `StoriesOutliveKills`: the same with
  sessions that are killed anywhere and start again.  `RecoveryInv` relates three
  records of one dispatch, its program counter, the ledger and the board: the
  ledger knows a dispatch only after its claim was made, and what a starting
  session ends in its place it has seen at work on the board.  Tasks of a live
  session may be ended so too; the stories hold all the same.

### The bridge and comms

* `NothingIsDroppedHolds`, `AnswersAreEarnedHolds`, `TurnsGoInOrderHolds`:
  from `BridgeInv`, which says of every message where it is (waiting at one
  position of the queue, active, answered or not yet sent), and that the active
  message's prompt belongs to the run under way.  The latter is what makes the
  end of a run an answer to it.  `activateNext`, which four methods call, is
  treated once (`ActivationTakesFirst`, `AfterActivation`, `EndsActive`).
  Turns go in order because the queue is sorted by rank and, among equals, by
  arrival, which inserting keeps and taking out cannot disturb.
* `CommsUsesBridge`: every step of comms and transport is a step of
  `InboundBridge` or leaves it alone; by it the three theorems above hold of the
  composed system (`CommsDropsNothing`, `CommsAnswersAreEarned`,
  `CommsTurnsGoInOrder`).
* `ActiveMessagesHold`, `NoRetryAfterCancelHolds`, `SavedAnswersHold`: from
  `CommsInv`.  None of the three is inductive: a late frame makes a finished
  message active again, which is harmless only because frames after a reply
  find a message that has a response (`LateFramesFindAnswers`); and ending a
  dispatch is harmless only because an open request belongs to the one dispatch
  that is sending (`OneRequestAtWork`, `CarrierIsOwn`).
* `ShutdownAnswersHolds`, `AnswersAreTrue`: from `ContextInv` and `TruthInv`, two
  invariants about the wire.  The request contexts of the endpoint follow the
  entries of the bridge, a reply on a connection is the answer of its entry, a
  cancellation on it has a user behind it; so what reaches the sender, and what
  a save, a restart or a retry makes of it, was true at the peer.

### The control ledger and those who write it

* `ChildrenAreKnown`: from `ProcessInv`.  A start that waits overwrites what is
  managed when it is done; the former child was found gone before it spawned, so
  it overwrites a live one only if another start of the same peer was waiting at
  the same time.  The history `rival` marks the children of such starts, and the
  theorem says that nothing else loses a child: no exit, no failing record.
* `BlockedRunsAreNotDone`: from `SubrunInv`.  A completion fills the counts its
  request leaves out from the run as it looked it up, and leaves out those that
  neither has; so a count that comes between its look-up and its append stays,
  and the run is done with blocked children.  Such runs are `crossed`; of the
  others the invariant relates each command to the records before its look-up.
* `RunsKeepTheirDeadline`: from `HiveInv`.  Of one run only one command gets the
  coordinator's claim while there is no record of it, and it chooses the
  deadline; every record, and every supervisor that resumes from records,
  carries it on.  That a stopped run is not resumed is not so (see Findings).

### Watchers, descriptors, saved messages, the file of runs

* `BudgetIsKept`: from `BudgetInv`.  The count is read before the `await`s of a
  check and raised after them; the limit holds because at most one check is
  under way and its activation was still to be had when it began.
* `StoppedStaysHiddenHolds`, `RefreshTellsHolds`: from `PresenceInv`.  Who is
  gone stays gone, a stopped endpoint has no descriptor, and an endpoint that
  served all through a refresh showed a fresh descriptor whenever it was read;
  so what overlapping refreshes do to the registry may be out of date, but not
  wrong about those who were there, or gone, all the time.
* `FinishedMailHolds`, `LaterSavesHold`: from `MergeInv` and `StoreInv`.  Only
  the holder of the lock writes, and what it writes is what it read, merged with
  all its session knew when it began to save; so a save that failed is made good
  by the next.
* `RunsReadUnlessTwoAppend`, `RunsReadAfterAnyKill`: from `FactoryInv`.  An append
  refuses a file that ends in half a record, and what it saw of the end of the
  file is still so when it writes, unless another session is between its own
  look and its write (`OneAppender`).  With one session that cannot be.
* `VerifiedRunsHold`: on any file the sessions may leave, spoilt lines and
  appends of several sessions at once included.  `StartInv` says that the record
  that starts a run is its first, as its id is fresh and nobody else speaks of it
  before; without it a second one could take away required gates after their
  results.  `Told` says what the run derived from the first n lines is in terms of
  those lines (each gate's last result, and whether it was given up since the
  last attempt), `RunsAreTold` that the next line keeps it so, and the number of
  lines does the induction, inside the state.
* `OneRunUnlessTwoLink`, `OneRunAfterAnyKill`: from `LinkInv`.  A session looks for
  a run of its goal before it starts one; a started run is found by that look
  (`StartedRunIsLinked`, which needs `StartInv`), and none starts between look and
  write unless another session is as far (`OneLinker`).
* `UnverifiedMergesHold`: of every file, by the number of records taken
  (`AllAreGrouped`).  `Grouped` says of the groups of the first n records that each
  record is in the group of each of its names (so no group is missed, and a group
  is closed under sharing names), and that a closed set of records has all of a
  group or nothing of it (so a group has nothing of another pull request).
  `RecordTaken` says what one more record does, whether it opens, joins or merges
  groups: those of its names become one.

### Only model-checked

* Liveness under fairness, and `ENABLED`, are out of the prover's reach:
  `DeadOwnerIsReplaced`, `EveryMessageIsAnswered`, `NoClaimOutlivesItsDispatch`,
  `OrphansAreMirrored`, `EveryDispatchEnds`, `EveryRunEnds`, `WorkIsNoticed`.
* `NoDuplicateDispatch` is proved of `PeerSend` alone.  A session that starts may
  mirror the task of a live one as ended, after which its key may be claimed;
  the ledger's runs check what follows from that.

No module uses a `RECURSIVE` operator, since the prover's SMT backend cannot be
used with them.

## Findings

1. `board_takeover` (`src/peers/goal-board.mjs:1839`).  Of two waiters that both
   find the lock of a killed process stale, the slower removes the fresh lock of
   the faster after its `await`; both then update, and one acknowledged event is
   lost.  The README (line 287) says the lock is there so that concurrent
   appends do not drop events.
2. `send_claim_leak` (`src/peers/goal-board.mjs:235`).  If the proposal on a
   dispatch's key is resolved before the answer comes, the handoff, appended
   without the claim's duplicate policy, is refused; the release after it is
   never tried and the error swallowed.  The claim ends only by going stale,
   and a stale claim blocks normal closing.
3. `goal_offers_refused` (`src/peers/goal-board.mjs:927`).  `/peer goal plan`
   posts an item and a proposal on one key.  Once the proposal is resolved, the
   scout still offers the open item with that key, and every claim on it is
   refused as already fulfilled.

Seen while modelling, without a run of their own; the models do what the code
does.  Where a property or a theorem has a condition, one of these is why:

* A start finds no child of the peer managed, waits for its own and then enters
  it.  Of two starts of one peer that overlap, the later overwrites the child of
  the earlier (`process-spawn.mjs:93`), which runs on: neither `/peer spawn status`
  nor `stop` nor the end of the session knows it, against the README (line 74).
* The loop that stops the children awaits a ledger record for each
  (`process-spawn.mjs:126`); one that cannot be appended ends the loop,
  `session_shutdown` swallows the error (`index.ts:130`), and the children after
  it get no `SIGTERM`, against the same line of the README.
* A tick does not wait for its record (`extension-hive.mjs:177`).  If that gets to
  the ledger after the record of the stop, a session that starts resumes the
  stopped run, until its old deadline, while its coordinator claim is released
  and cannot be kept alive; the README (line 272) says that the runner holds one
  while active.
* The file of runs is appended to without a lock, after a load and a look at its
  last byte (`factory.mjs:105`).  A session killed half way through its append
  after another one looked leaves half a record, the other puts a whole one
  after it, and every later load throws.
* A count of blocked children that is recorded while a completion stands between
  its look-up and its append is kept, and the run is shown as done
  (`subagents.mjs:335`, `control-ledger.mjs:271`).
* A journal append torn half way leaves a partial line to which the next append
  is glued; should the board file be damaged then, updates are lost
  (`goal-store.mjs:41`; `board_store` allows one of the two faults at a time).
* A cancelled turn that lasts longer than the sender's timeout gets no
  `CANCELLED`: the heartbeat stopped with the acknowledgement
  (`local-transport.mjs:613`).
* A passing plan review is recorded as a verified run `plan:<goal>` and can mask
  a failed run in the readiness of a goal (`command-center.mjs:528-541`).
* Blocked planned work is offered through the proposals of its lanes
  (`index.ts:1378`); lanes of a plan given out of their order get no dependency
  (`index.ts:1352`); items that depend on each other in a circle get no
  suggestion at all.
* Planned fan-out tasks have no message and never end by themselves
  (`index.ts:1544`); a fan-out whose recording fails releases the claim of a
  message that was delivered (`index.ts:1601`), and one that is refused leaves
  a blocked task nothing can end (`index.ts:1606`).
* Of two tasks without a task id on one key, the handoff of the first no longer
  ends it once the second is recorded (`goal-board.mjs:1416`).
* The coordinator's claim is left when `/peer hive run` fails after it
  (`extension-hive.mjs:43`).
* `/peer do` again on a mission that was interrupted while its lanes were
  seeded does not seed the rest.
* A torn ledger line followed by an append makes every later load throw
  (`control-ledger.mjs:59`).

## Not modelled, and why

Rendering, parsing, help texts, configuration normalisation and protocol
validation are data without concurrent state.  On the board: lanes and roles
beyond `produces`, quality evidence, the ranking of suggestions and the choice
between goals, which are about one session's view.  In the store: event records
in the journal (the program reads but never writes them), two faults at once,
and a live holder slower than the stale limit (`goal-board.mjs:69`).  In the
message store the takeover of a stale lock is one step; its race is that of
`BoardStore`.  In the dispatch: the optional task timeout.  In the transport: the
authentication exchange (it delays a request), malformed and oversized lines.
In comms: the checks before a message exists, which leave no state, audit,
events, the copies of a status in conversations, and two calls of
`resumeMessage` in one tick.  In the runtime: a start during another start.
The idle watcher's judgement of what is useful and its request to resolve items with
evidence.  Automations append recommendations the way the factory appends runs
and nothing reads them by itself; evaluations, metrics and self-improvement only
report.

## Plan

Done: everything under Modules.  What is left, in order of importance:

1. Proofs: `NoDuplicateDispatch` across the end of sessions, which takes saying
   what a mirrored task was.
2. A holder slower than the stale limit, and the race of closing a goal against
   a dispatch between its release and its objection
   (`extension-goal-linking.mjs:139`).
3. An abstract `MessageLife` (a message is sent, worked on and ends, and may end
   again only by a cancellation) implemented by `PeerComms`, and the fairness
   of `PeerSend!Answer` replaced by it.
4. Several hive runs and several goals at once.
