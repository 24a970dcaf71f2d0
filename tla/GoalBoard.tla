------------------------------ MODULE GoalBoard ------------------------------
(***************************************************************************)
(* One goal of the shared goal board (src/src/peers/goal-board.mjs): an    *)
(* append-only log of peer events, a status, and everything else derived   *)
(* from the log at the current time, as deriveGoalState does.  Each action *)
(* is one locked update of the board; that the lock and the file make such *)
(* updates atomic is the subject of BoardStore.                            *)
(*                                                                         *)
(* An event's id is its position in the log.  Summaries, lanes, roles and  *)
(* quality evidence are left out; a lane or role that makes an event count *)
(* as implementation work is the flag `produces`.  Paths are in the        *)
(* canonical form normalizePaths gives them: sequences of segments, with   *)
(* the repository root ("." in the code) as the empty sequence.            *)
(***************************************************************************)
EXTENDS Integers, Sequences, FiniteSets, SequencesExt

CONSTANTS
  Peers, WorkKeys, NoKey, Paths,
  Messages, NoTask,        \* message ids that tasks and handoffs carry
  Inputs,                  \* the events peers may try to append
  DefaultStaleAfter,       \* DEFAULT_GOAL_CLAIM_STALE_MS, in ticks
  MinPassingVotes,         \* closurePolicy.minPassingVotes, 0 when absent
  MinIndependentVotes,     \* closurePolicy.minIndependentVotes, 0 when absent
  Requirements,            \* closurePolicy.requiredVotes and requiredEvidence
  Budget, MaxEvents,       \* bounds: how many events of each type, and in all
  MaxTime                  \* bound: the last tick of the clock

VARIABLES
  now,       \* the wall clock every process of the machine shares
  events,    \* goal.events
  status,    \* goal.status
  closure    \* how the goal was closed: "none", "normal" or "forced" (history)

vars == <<now, events, status, closure>>

EventTypes == {"claim", "heartbeat", "release", "task", "handoff", "finding", "note",
               "proposal", "resolve", "objection", "vote", "work-item"}
Policies   == {"error", "reuse", "allow-parallel"}
Verdicts   == {"none", "pass", "fail", "pass-with-risks"}
Statuses   == {"none", "planned", "running", "done", "blocked", "open"}
Passing    == {"pass", "pass-with-risks"}
BlockingSeverities == {"blocking", "blocker", "critical"}
Severities == {"info", "minor", "warning"} \cup BlockingSeverities
NoEvent    == 0

(***************************************************************************)
(* The workKey of a proposal is its proposalLaneWorkKey, and that of a     *)
(* work-item its itemId.  ref is the event an event refers to: what a      *)
(* release, heartbeat or resolve resolves, the claimEventId of a task, the *)
(* task event a handoff names in place of a message id.  dependsOn is {}   *)
(* when the dependency list is omitted and {d} when it is given as d, so   *)
(* {{}} clears it.  ttl, staleAfter and expiresAt are 0 when absent.       *)
(***************************************************************************)
Event == [type: EventTypes, at: Nat, peerId: Peers, mode: {"read", "write"},
          paths: SUBSET Paths, workKey: WorkKeys \cup {NoKey}, duplicatePolicy: Policies,
          taskId: Messages \cup {NoTask}, ref: Nat, status: Statuses, verdict: Verdicts,
          severity: Severities,
          produces: BOOLEAN, topLevel: BOOLEAN, dependsOn: SUBSET SUBSET WorkKeys,
          ttl: Nat, staleAfter: Nat, expiresAt: Nat]

ASSUME BoardConstants ==
  /\ Inputs \subseteq Event
  /\ \A in \in Inputs : /\ in.type = "claim" /\ in.mode = "write" => in.paths # {}
                        /\ in.type = "work-item" => in.workKey # NoKey
                        /\ in.type = "vote" => in.verdict # "none"
  /\ Peers # {}
  /\ DefaultStaleAfter \in Nat \ {0}
  /\ MinPassingVotes \in Nat /\ MinIndependentVotes \in Nat
  /\ Requirements \subseteq [types: SUBSET EventTypes, verdicts: SUBSET Verdicts,
                             min: Nat, minDistinctPeers: Nat]

(* An event with nothing but a type and an author; an objection whose       *)
(* author names no severity blocks.                                         *)
EventOf(type, peer) ==
  [type |-> type, at |-> 0, peerId |-> peer, mode |-> "read", paths |-> {},
   workKey |-> NoKey, duplicatePolicy |-> "error", taskId |-> NoTask, ref |-> NoEvent,
   status |-> "none", verdict |-> "none", produces |-> FALSE, topLevel |-> TRUE,
   severity |-> IF type = "objection" THEN "blocking" ELSE "info",
   dependsOn |-> {}, ttl |-> 0, staleAfter |-> 0, expiresAt |-> 0]

(* normalizeEvent: the board stamps the time and turns a ttl into a deadline. *)
NormalizeEvent(in) ==
  [in EXCEPT !.at = now, !.expiresAt = IF in.ttl > 0 THEN now + in.ttl ELSE 0]

Of(type) == {i \in DOMAIN events : events[i].type = type}

(* pathsOverlap: equal, one below the other, or one of them the root. *)
PathsOverlap(a, b) == \E p \in a, q \in b : IsPrefix(p, q) \/ IsPrefix(q, p)

-----------------------------------------------------------------------------
(* Claims: projectClaimSummary, and what deriveGoalState makes of it. *)

Released(c) == \E r \in Of("release") : events[r].ref = c

HeartbeatsOfPeer(c) ==      \* as if a heartbeat served every claim of its sender
  {h \in Of("heartbeat") : events[h].peerId = events[c].peerId}
Heartbeats(c) == {h \in Of("heartbeat") : events[h].ref = c}

(* latestEvent: the greatest time, and the first of those that tie. *)
Latest(S) == {h \in S : \A k \in S : \/ events[k].at < events[h].at
                                     \/ events[k].at = events[h].at /\ h <= k}

Due(deadline) == deadline # 0 /\ deadline <= now

FirstPositive(a, b) == IF a > 0 THEN a ELSE b

Expired(c) ==
  \/ Heartbeats(c) = {} /\ Due(events[c].expiresAt)
  \/ \E h \in Latest(Heartbeats(c)) :
       Due(FirstPositive(events[h].expiresAt, events[c].expiresAt))

StaleAfter(c) == FirstPositive(events[c].staleAfter, DefaultStaleAfter)

(* The silence since the last sign of life reached the stale limit. *)
Silent(c) ==
  \/ Heartbeats(c) = {} /\ Due(events[c].at + StaleAfter(c))
  \/ \E h \in Latest(Heartbeats(c)) :
       Due(events[h].at + FirstPositive(events[h].staleAfter, StaleAfter(c)))

ActiveClaims == {c \in Of("claim") : ~Released(c) /\ ~Expired(c) /\ ~Silent(c)}
NoStaleClaims == {c \in Of("claim") : FALSE}      \* as if stale claims were dropped
StaleClaims  == {c \in Of("claim") : ~Released(c) /\ ~Expired(c) /\ Silent(c)}

-----------------------------------------------------------------------------
(* Tasks: projectTaskSummary, taskMatchesHandoff, latestTaskCompletionEvidence. *)

Successful == {"done", "none"}     \* SUCCESSFUL_TASK_HANDOFF_STATUSES; none means done
Running    == {"none", "planned", "running", "blocked"}   \* of ACTIVE_TASK_STATUSES

SameKey(i, j) == events[i].workKey # NoKey /\ events[i].workKey = events[j].workKey

MatchesHandoff(t, h) ==
  /\ events[h].at >= events[t].at
  /\ \/ events[t].taskId # NoTask /\ events[h].taskId = events[t].taskId
     \/ events[h].ref = t
     \/ /\ events[t].taskId = NoTask /\ events[h].taskId = NoTask /\ events[h].ref = NoEvent
        /\ SameKey(t, h)
        /\ \A u \in Of("task") : SameKey(t, u) => u = t

Handoffs(t) == {h \in Of("handoff") : MatchesHandoff(t, h)}

(* A finding or note on the task's key, once the task's claim was released. *)
HasCompletionEvidence(t) ==
  /\ \E r \in Of("release") : /\ events[t].ref # NoEvent
                              /\ events[r].ref = events[t].ref
                              /\ events[r].at >= events[t].at
  /\ \E n \in Of("finding") \cup Of("note") :
       /\ SameKey(t, n)
       /\ events[n].at >= events[t].at
       /\ \A h \in Latest(Handoffs(t)) : events[n].at >= events[h].at

ActiveTasksByStatus ==      \* as if the status of the last handoff decided
  {t \in Of("task") : /\ ~HasCompletionEvidence(t)
                      /\ Handoffs(t) = {} => events[t].status \in Running
                      /\ \A h \in Latest(Handoffs(t)) : events[h].status \in Running \ {"none"}}

ActiveTasks == {t \in Of("task") : /\ Handoffs(t) = {}
                                   /\ ~HasCompletionEvidence(t)
                                   /\ events[t].status \in Running}

(* Tasks whose last handoff failed, was not superseded and not resolved. *)
UnresolvedHandoffs ==
  {t \in Of("task") : /\ ~HasCompletionEvidence(t)
                      /\ \E h \in Latest(Handoffs(t)) :
                           /\ events[h].status \notin Successful
                           /\ \A r \in Of("resolve") : events[r].ref # h}

-----------------------------------------------------------------------------
(* Proposals, objections, votes and work items. *)

Resolved(i) == \E r \in Of("resolve") : events[r].ref = i

OpenProposals      == {p \in Of("proposal") : ~Resolved(p)}
BlockingObjections == {o \in Of("objection") : /\ events[o].severity \in BlockingSeverities
                                               /\ ~Resolved(o)}

(* currentPeerVotes: the last vote of each peer. *)
CurrentVotes == {v \in Of("vote") : \A w \in Of("vote") :
                   events[w].peerId = events[v].peerId => w <= v}
FailedVotes  == {v \in CurrentVotes : events[v].verdict = "fail"}
PassingVotes == {v \in CurrentVotes : events[v].verdict \in Passing}

ProducerPeerIds ==
  {events[i].peerId : i \in {k \in DOMAIN events :
     /\ events[k].type \in {"claim", "task", "handoff", "finding"}
     /\ events[k].mode = "write" \/ events[k].produces}}

IndependentPassingVotes ==
  {v \in PassingVotes : events[v].topLevel /\ events[v].peerId \notin ProducerPeerIds}

(* projectWorkItems: later events of an item override its earlier ones. *)
ItemEvents(k) == {i \in Of("work-item") : events[i].workKey = k}
Items         == {events[i].workKey : i \in Of("work-item")}
Newest(S)     == {i \in S : \A j \in S : j <= i}
DoneItems     == {k \in Items : \E i \in Newest(ItemEvents(k)) : events[i].status = "done"}
DependsOnLatest(k) ==      \* as if an omitted dependency list cleared it
  UNION UNION {events[i].dependsOn : i \in Newest(ItemEvents(k))}
DependsOn(k)  == UNION UNION {events[i].dependsOn :
                   i \in Newest({j \in ItemEvents(k) : events[j].dependsOn # {}})}
OpenWorkItems    == Items \ DoneItems
BlockedWorkItems == {k \in Items : ~(DependsOn(k) \subseteq DoneItems)}

-----------------------------------------------------------------------------
(* The guards of appendPeerGoalEvent. *)

FulfilledKeys == {events[p].workKey : p \in {q \in Of("proposal") : Resolved(q)}}

ProposalGuardClaimsOnly(e) ==      \* as if only new claims were refused
  /\ e.type = "resolve" => ~Resolved(e.ref)
  /\ e.type = "claim" /\ e.workKey # NoKey /\ e.duplicatePolicy # "allow-parallel" =>
       e.workKey \notin FulfilledKeys

ProposalFulfillmentGuard(e) ==
  /\ e.type = "resolve" => ~Resolved(e.ref)
  /\ /\ e.type \in {"claim", "task", "finding", "handoff", "note"}
     /\ e.workKey # NoKey
     /\ e.duplicatePolicy # "allow-parallel"
     => e.workKey \notin FulfilledKeys

ValidateClaimOthersOnly(e) ==      \* as if a peer could not duplicate its own work
  /\ e.workKey # NoKey /\ e.duplicatePolicy # "allow-parallel" =>
       \A i \in ActiveClaims \cup ActiveTasks :
         events[i].peerId # e.peerId => events[i].workKey # e.workKey
  /\ e.mode = "write" =>
       \A c \in ActiveClaims : events[c].mode = "write" => ~PathsOverlap(e.paths, events[c].paths)

ValidateClaim(e) ==
  /\ e.workKey # NoKey /\ e.duplicatePolicy # "allow-parallel" =>
       \A i \in ActiveClaims \cup ActiveTasks : events[i].workKey # e.workKey
  /\ e.mode = "write" =>
       \A c \in ActiveClaims : events[c].mode = "write" => ~PathsOverlap(e.paths, events[c].paths)

ValidateRelease(e) == e.ref \in Of("claim") /\ ~Released(e.ref)

ValidateHeartbeatTarget(e) ==      \* as if only the target were checked
  e.ref \in Of("claim") /\ ~Released(e.ref)

ValidateHeartbeat(e) ==
  /\ e.ref \in Of("claim") /\ ~Released(e.ref)
  /\ LET claim == events[e.ref] IN
     \A c \in ActiveClaims \ {e.ref} :
       /\ claim.workKey # NoKey /\ claim.duplicatePolicy # "allow-parallel" =>
            events[c].workKey # claim.workKey
       /\ claim.mode = "write" /\ events[c].mode = "write" =>
            ~PathsOverlap(claim.paths, events[c].paths)

Room(type) == Cardinality(Of(type)) < Budget[type] /\ Len(events) < MaxEvents

(* What appendPeerGoalEvent checks; it throws otherwise. *)
Accepts(e) ==
  /\ ProposalFulfillmentGuard(e)
  /\ e.type = "claim" => ValidateClaim(e)
  /\ e.type = "release" => ValidateRelease(e)
  /\ e.type = "heartbeat" => ValidateHeartbeat(e)

AppendPeerGoalEvent(in) ==
  LET e == NormalizeEvent(in) IN
  /\ Room(e.type) /\ Accepts(e)
  /\ events' = Append(events, e)
  /\ UNCHANGED <<now, status, closure>>

(***************************************************************************)
(* The events a caller may name in an input's ref.  A resolve may name     *)
(* anything; only proposals, objections and handoffs are looked up.        *)
(***************************************************************************)
Targets(in) ==
  CASE in.type \in {"release", "heartbeat"} -> Of("claim")
    [] in.type = "resolve" -> Of("proposal") \cup Of("objection") \cup Of("handoff")
    [] in.type = "task" -> {NoEvent} \cup Of("claim")
    [] in.type = "handoff" /\ in.taskId = NoTask -> {NoEvent} \cup Of("task")
    [] OTHER -> {NoEvent}

-----------------------------------------------------------------------------
(* Closing. *)

Matching(q) == {i \in DOMAIN events : /\ events[i].type \in q.types
                                      /\ events[i].verdict \in q.verdicts}

ClosurePolicySatisfied ==
  /\ Cardinality(PassingVotes) >= MinPassingVotes
  /\ Cardinality(IndependentPassingVotes) >= MinIndependentVotes
  /\ \A q \in Requirements :
       /\ Cardinality(Matching(q)) >= q.min
       /\ Cardinality({events[i].peerId : i \in Matching(q)}) >= q.minDistinctPeers

(* readyToClose of deriveGoalState, checked by validateGoalReadyToClose. *)
ReadyToClose ==
  /\ status = "open"
  /\ BlockingObjections = {} /\ FailedVotes = {} /\ OpenProposals = {}
  /\ ActiveClaims = {} /\ StaleClaims = {}
  /\ ActiveTasks = {} /\ UnresolvedHandoffs = {}
  /\ OpenWorkItems = {} /\ BlockedWorkItems = {}
  /\ PassingVotes # {}
  /\ ClosurePolicySatisfied

ClosingNote(peer) == NormalizeEvent(EventOf("note", peer))

(* closePeerGoal: with --force no gate applies; a summary is kept as a note. *)
ClosePeerGoal(force, peer, summary) ==
  /\ force \/ ReadyToClose
  /\ status' = "closed"
  /\ closure' = IF force THEN "forced" ELSE "normal"
  /\ summary => Room("note")
  /\ events' = IF summary THEN Append(events, ClosingNote(peer)) ELSE events
  /\ UNCHANGED now

Tick ==
  /\ now < MaxTime
  /\ now' = now + 1
  /\ UNCHANGED <<events, status, closure>>

-----------------------------------------------------------------------------
(* createPeerGoal *)
Init ==
  /\ now = 0
  /\ events = <<>>
  /\ status = "open"
  /\ closure = "none"

Next ==
  \/ \E in \in Inputs : \E ref \in Targets(in) : AppendPeerGoalEvent([in EXCEPT !.ref = ref])
  \/ \E force, summary \in BOOLEAN, peer \in Peers : ClosePeerGoal(force, peer, summary)
  \/ Tick

Spec == Init /\ [][Next]_vars

-----------------------------------------------------------------------------
(* Properties. *)

(* Every event of the log is a well-formed event. *)
TypeOK ==
  /\ now \in Nat
  /\ events \in Seq(Event)
  /\ status \in {"open", "closed"}
  /\ closure \in {"none", "normal", "forced"}

(* Two write claims in force never cover a common path: not when one is     *)
(* made, not when a stale or expired one is revived by a heartbeat.         *)
WriteExclusion ==
  \A c, d \in ActiveClaims :
    c # d /\ events[c].mode = "write" /\ events[d].mode = "write" =>
      ~PathsOverlap(events[c].paths, events[d].paths)

(* Two claims in force share a work key only if one of them asked for       *)
(* duplicate work with --duplicate-policy allow-parallel.                   *)
KeyExclusion ==
  \A c, d \in ActiveClaims :
    c # d /\ SameKey(c, d) =>
      "allow-parallel" \in {events[c].duplicatePolicy, events[d].duplicatePolicy}

(* The claims in force behave as the leases of WriteLease: they come into   *)
(* force one at a time, by a claim or by their own heartbeat, and only when *)
(* compatible with all others; the clock and releases only end them.        *)
LeaseOf(c) == [id |-> c, mode |-> events[c].mode, paths |-> events[c].paths,
               workKey |-> events[c].workKey, duplicatePolicy |-> events[c].duplicatePolicy]
Lease == INSTANCE WriteLease WITH held <- {LeaseOf(c) : c \in ActiveClaims},
                                  Overlap <- PathsOverlap
ImplementsLease == Lease!Spec

(* Once a proposal was resolved, nothing more is recorded on its work key   *)
(* by a peer that did not ask to work in parallel.                          *)
FulfilledKeysStayQuiet ==
  \A p \in Of("proposal"), r \in Of("resolve"), i \in DOMAIN events :
    /\ events[r].ref = p /\ r < i /\ p # i
    /\ SameKey(p, i) /\ events[i].type \in {"claim", "task", "finding", "handoff", "note"}
    => events[i].duplicatePolicy = "allow-parallel"

(* A task that carries a message id and is finished never runs again,       *)
(* whatever is appended to the log afterwards.                              *)
FinishedTaskStaysFinished ==
  [][\A t \in Of("task") :
       events[t].taskId # NoTask /\ t \notin ActiveTasks => t \notin ActiveTasks']_vars

(***************************************************************************)
(* What a reader of the log can conclude when a goal is closed without     *)
(* --force.  Stated on the events alone, not on the projections the gate   *)
(* is computed from.                                                       *)
(***************************************************************************)
ClaimOver(c) ==
  \/ \E r \in Of("release") : events[r].ref = c
  \/ \E i \in {c} \cup Heartbeats(c) : 0 < events[i].expiresAt /\ events[i].expiresAt <= now

TaskOver(t) ==
  \/ events[t].status \notin Running
  \/ \E h \in Of("handoff") : \/ events[h].taskId = events[t].taskId
                              \/ events[h].ref = t
                              \/ SameKey(h, t)
  \/ \E n \in Of("finding") \cup Of("note"), r \in Of("release") :
       SameKey(n, t) /\ events[r].ref = events[t].ref

HandsOff(h, t) == events[h].taskId = events[t].taskId \/ events[h].ref = t

FailureSettled(t, h) ==
  \/ \E i \in Of("handoff") : /\ HandsOff(i, t) /\ events[i].at >= events[h].at
                              /\ \/ events[i].status \in {"done", "none"}
                                \/ \E r \in Of("resolve") : events[r].ref = i
  \/ \E n \in Of("finding") \cup Of("note"), r \in Of("release") :
       /\ SameKey(n, t) /\ events[n].at >= events[h].at
       /\ events[t].ref # NoEvent /\ events[r].ref = events[t].ref
       /\ events[r].at >= events[t].at

Demands == Of("proposal")
           \cup {o \in Of("objection") : events[o].severity \in {"blocking", "blocker", "critical"}}

LastWord(i) == \A j \in Of(events[i].type) : events[j].peerId = events[i].peerId => j <= i

Closes == status = "open" /\ closure' = "normal"

(* A normally closed goal leaves nothing behind: every claim was released   *)
(* or ran out its ttl, every dispatched task ended, every failed handoff of *)
(* a message was resolved, followed by a good or resolved handoff of the    *)
(* same task, or superseded by evidence on its key after its claim was      *)
(* released; every proposal and every objection severe enough to block was  *)
(* resolved, and the last word of a peer is a pass and of none a fail.      *)
NormalCloseIsSettled ==
  [][Closes =>
       /\ \A c \in Of("claim") : ClaimOver(c)
       /\ \A t \in Of("task") : TaskOver(t)
       /\ \A t \in Of("task"), h \in Of("handoff") :
            /\ events[t].taskId # NoTask /\ HandsOff(h, t)
            /\ events[h].at >= events[t].at /\ events[h].status \notin {"done", "none"}
            => FailureSettled(t, h)
       /\ \A i \in Demands : \E r \in Of("resolve") : events[r].ref = i
       /\ \A v \in Of("vote") : LastWord(v) => events[v].verdict # "fail"
       /\ \E v \in Of("vote") : LastWord(v) /\ events[v].verdict # "fail"]_vars

(* An open or blocked work item survives no normal close: the last event of *)
(* each item says done, and so does that of every item any event of it ever *)
(* made it depend on, unless the list was replaced since.                   *)
NormalCloseFinishesPlan ==
  [][Closes =>
       \A i \in Of("work-item") :
         \E j \in Of("work-item") :
           /\ SameKey(i, j) /\ i <= j /\ events[j].status = "done"
           /\ \A d \in UNION events[i].dependsOn :
                \/ \E k \in Of("work-item") : events[k].workKey = d /\ events[k].status = "done"
                \/ \E k \in Of("work-item") : SameKey(i, k) /\ i < k /\ events[k].dependsOn # {}
    ]_vars
=============================================================================
