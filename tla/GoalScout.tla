------------------------------- MODULE GoalScout -------------------------------
(***************************************************************************)
(* What a goal's board suggests to do next (src/src/peers/goal-board.mjs): *)
(* derivePeerGoalScoutSuggestions, from which /peer scout, hive runs and   *)
(* idle peers take their work, and verifyPeerGoalPlan, the static check of *)
(* a plan of work items.                                                   *)
(*                                                                         *)
(* A suggestion is what it is about and the work key it is claimed with.   *)
(* Summaries, ranking and pressure are left out.                           *)
(***************************************************************************)
EXTENDS GoalBoard

CONSTANTS
  ScoutKey(_, _),   \* derivePeerGoalWorkKey for a kind of suggestion and its subject
  LaneKeys,         \* the work keys of proposals that name a lane
  PolicyKeys        \* the derived keys of closure policy slots

ASSUME ScoutConstants == LaneKeys \subseteq WorkKeys /\ PolicyKeys \subseteq WorkKeys

Nothing == <<>>

Suggest(kind, about) == [what |-> <<kind, about>>, workKey |-> ScoutKey(kind, about)]
SuggestKey(kind, about, key) == [Suggest(kind, about) EXCEPT !.workKey = key]

Active == ActiveClaims \cup ActiveTasks

HasActiveWork(s) == s.workKey # NoKey /\ \E i \in Active : events[i].workKey = s.workKey

-----------------------------------------------------------------------------
(* Proposals. *)

(* Somebody claimed the proposal's key, left evidence under it and released *)
(* the claim, all since it was posted.                                      *)
ProposalLaneWorkCompleted(p) ==
  /\ \E c \in Of("claim") : Released(c) /\ SameKey(c, p) /\ events[c].at >= events[p].at
  /\ \E e \in Of("finding") \cup Of("handoff") \cup Of("note") :
       SameKey(e, p) /\ events[e].at >= events[p].at

Owned(p) == \E i \in Active : SameKey(i, p)

LaneProposals == {p \in OpenProposals : events[p].workKey \in LaneKeys}

ProposalSuggestions ==
  LET about(p) == IF ProposalLaneWorkCompleted(p)
                  THEN Suggest("resolve-fulfilled", p)
                  ELSE SuggestKey("open-proposal", p, events[p].workKey)
      triage == {p \in OpenProposals : ProposalLaneWorkCompleted(p) \/ ~Owned(p)}
  IN {about(p) : p \in LaneProposals}
     \cup (IF triage # {} THEN {Suggest("triage", Nothing)} ELSE {})

-----------------------------------------------------------------------------
(* Work items.  An item that only waits for open ones has to wait.          *)

BlockedBy(k) == DependsOn(k) \ DoneItems

BlockedWorkItemsNeedingTriage == {k \in BlockedWorkItems : ~(BlockedBy(k) \subseteq OpenWorkItems)}

ItemSuggestions ==
  {Suggest("dependencies", k) : k \in BlockedWorkItemsNeedingTriage}
  \cup {SuggestKey("work-item", k, k) : k \in {i \in OpenWorkItems : BlockedBy(i) = {}}}

-----------------------------------------------------------------------------
(* The closure policy: one suggestion for each vote or piece of evidence it *)
(* still needs, once nothing else is going on.                              *)

PolicySlots(metric, q, required, actual) ==
  {Suggest(metric, <<q, n>>) : n \in (actual + 1)..required}

MissingOf(q) ==
  PolicySlots("policy total", q, q.min, Cardinality(Matching(q)))
  \cup PolicySlots("policy distinct peers", q, q.minDistinctPeers,
                   Cardinality({events[i].peerId : i \in Matching(q)}))

Missing ==
  PolicySlots("policy votes", Nothing, MinPassingVotes, Cardinality(PassingVotes))
  \cup PolicySlots("policy independent votes", Nothing, MinIndependentVotes,
                   Cardinality(IndependentPassingVotes))
  \cup UNION {MissingOf(q) : q \in Requirements}

ForPolicy(i) == events[i].workKey \in PolicyKeys

ClosurePolicySuggestions ==
  IF /\ \A c \in ActiveClaims : events[c].mode = "read" /\ ForPolicy(c)
     /\ \A t \in ActiveTasks : ForPolicy(t)
     /\ StaleClaims = {} /\ OpenProposals = {} /\ OpenWorkItems = {} /\ BlockedWorkItems = {}
  THEN Missing ELSE {}

-----------------------------------------------------------------------------
(* derivePeerGoalScoutSuggestions: trouble first, and nothing beside it;    *)
(* then what is open; then, in this order, the closure policy, closing, a   *)
(* start, or a vote.                                                        *)

Trouble ==
  IF BlockingObjections # {} THEN {Suggest("blocker", Nothing)}
  ELSE IF UnresolvedHandoffs # {} THEN {Suggest("task-handoff", Nothing)}
  ELSE IF FailedVotes # {} THEN {Suggest("failed-vote", Nothing)}
  ELSE {}

OpenWork ==
  (IF StaleClaims # {} THEN {Suggest("stale-claim", Nothing)} ELSE {})
  \cup ProposalSuggestions \cup ItemSuggestions

StartupLanes == {Suggest("next-step", lane) : lane \in {"research", "review", "implementation"}}

LastSteps ==
  CASE ClosurePolicySuggestions # {} -> ClosurePolicySuggestions
    [] ClosurePolicySuggestions = {} /\ ReadyToClose -> {Suggest("close", Nothing)}
    [] ClosurePolicySuggestions = {} /\ ~ReadyToClose ->
         IF /\ ActiveClaims = {} /\ StaleClaims = {} /\ Of("task") = {}
            /\ OpenProposals = {} /\ BlockedWorkItems = {}
         THEN StartupLanes
         ELSE IF /\ CurrentVotes = {} /\ \A c \in ActiveClaims : events[c].mode # "write"
                 /\ StaleClaims = {} /\ OpenProposals = {}
              THEN {Suggest("review", Nothing)} ELSE {}

ScoutSuggestions ==
  IF status = "closed" THEN {}
  ELSE {s \in IF Trouble # {} THEN Trouble ELSE OpenWork \cup LastSteps : ~HasActiveWork(s)}

-----------------------------------------------------------------------------
(* verifyPeerGoalPlan. *)

CyclesOfOne ==      \* as if only an item that waits for itself were seen
  \E k \in Items : k \in DependsOn(k)

(* findWorkItemCycles: some items each wait for another of them.           *)
WorkItemCycles == \E S \in SUBSET Items \ {{}} : \A k \in S : DependsOn(k) \cap S # {}

MissingItems == UNION {DependsOn(k) : k \in Items} \ Items

AllParallel(S) == Cardinality(S) > 1 /\ \A i \in S : events[i].duplicatePolicy = "allow-parallel"

DuplicateKeys ==
  {k \in WorkKeys :
     LET claims   == {c \in ActiveClaims : events[c].workKey = k}
         tasks    == {t \in ActiveTasks : events[t].workKey = k}
         unlinked == {t \in tasks : events[t].ref \notin claims}
     IN \/ Cardinality(claims) > 1 /\ ~AllParallel(claims)
        \/ /\ Cardinality(tasks) > 1 \/ (claims # {} /\ unlinked # {})
           /\ ~AllParallel(claims \cup tasks)}

VerifyPeerGoalPlan == ~WorkItemCycles /\ MissingItems = {} /\ DuplicateKeys = {}

-----------------------------------------------------------------------------
(* Properties. *)

(* A goal whose plan the verifier accepts never comes to rest unfinished:   *)
(* as long as it is open and nobody works on it, some peer that looks for   *)
(* work is offered a step, be it only to close it.                          *)
SomethingToDo ==
  status = "open" /\ Active = {} /\ VerifyPeerGoalPlan => ScoutSuggestions # {}

(* A suggestion that is offered with a work key can be taken: the claim    *)
(* command printed with it is not refused.                                  *)
OffersCanBeTaken ==
  \A s \in ScoutSuggestions, peer \in Peers :
    s.workKey # NoKey =>
      Accepts(NormalizeEvent([EventOf("claim", peer) EXCEPT !.workKey = s.workKey]))
=============================================================================
