----------------------------- MODULE GoalCommands -----------------------------
(***************************************************************************)
(* The /peer goal commands (handlePeerGoalCommand of                       *)
(* src/extensions/pi-peer/index.ts).  Most make one update of the board.   *)
(* Others put a whole set of events on it, one update after the other:     *)
(* /peer goal plan and /peer goal fanout, and the lanes /peer hive start   *)
(* and /peer work start goal seed.  Other peers act in between, and such a *)
(* command may end half way: when an update fails, or with its session.    *)
(* Commands that only print something are left out.                        *)
(***************************************************************************)
EXTENDS GoalScout

CONSTANTS
  LaneKey,          \* the work key, and item id, of each lane
  PlanLanes,        \* --lane lists given to /peer goal plan
  SeedLanes,        \* --lane lists given to /peer hive start
  FanoutPeers,      \* --peer lists given to /peer goal fanout
  MaxCommands       \* bound: commands given

VARIABLES
  command,          \* the events the running command has yet to append
  commands          \* how many commands were given

commandVars == <<vars, command, commands>>

ASSUME CommandConstants ==
  /\ \A lanes \in PlanLanes \cup SeedLanes : \A i \in DOMAIN lanes : LaneKey[lanes[i]] \in WorkKeys
  /\ MaxCommands \in Nat

-----------------------------------------------------------------------------
(* Commands that make one update. *)

EventTypeOf(action) ==
  CASE action = "propose" -> "proposal"
    [] action = "item"    -> "work-item"
    [] action = "object"  -> "objection"
    [] OTHER              -> action

(* parsePeerGoalCommand: which options it takes with each action.  What a   *)
(* peer implemented shows in --work-lane.                                  *)
OptionsOf(action) ==
  CASE action \in {"task", "finding", "proposal", "propose", "handoff", "note", "item", "work-item"} ->
         {"paths", "severity", "taskId", "dependsOn", "status", "workKey", "duplicatePolicy",
          "produces"}
    [] action = "claim" ->
         {"paths", "mode", "workKey", "duplicatePolicy", "ttl", "staleAfter", "produces"}
    [] action = "heartbeat" -> {"ttl", "staleAfter"}
    [] action = "object" -> {"paths", "severity"}
    [] action = "vote" -> {"verdict"}
    [] OTHER -> {}

Resolving == {"heartbeat", "release", "resolve"}
GoalActions == (EventTypes \ {"objection"}) \cup {"propose", "item", "object"}

(* The events they post: with the options the action takes, and no others. *)
PostedEvents ==
  {e \in Inputs :
     \E action \in GoalActions :
       /\ EventTypeOf(action) = e.type
       /\ \A field \in DOMAIN e \ OptionsOf(action) : e[field] = EventOf(e.type, e.peerId)[field]}

PostGoalEvent ==
  \E e \in PostedEvents : \E ref \in IF e.type \in Resolving THEN Targets(e) ELSE {NoEvent} :
    AppendPeerGoalEvent([e EXCEPT !.ref = ref])

(* Tasks of a claim, and handoffs of a task, come from a dispatch.          *)
RecordDispatch ==
  \E in \in {i \in Inputs : i.type \in {"task", "handoff"}} :
    \E ref \in Targets(in) \ {NoEvent} : AppendPeerGoalEvent([in EXCEPT !.ref = ref])

-----------------------------------------------------------------------------
(* Commands that make several. *)

Proposal(peer, lane) == [EventOf("proposal", peer) EXCEPT !.workKey = LaneKey[lane]]

(* A lane waits for the lane before it, if that was given earlier.          *)
Before == [implementation |-> "research", review |-> "implementation", qa |-> "implementation",
           coordination |-> "review"]
DependencyFor(lanes, i) ==
  {LaneKey[lanes[j]] : j \in {k \in 1..(i - 1) : /\ lanes[i] \in DOMAIN Before
                                                 /\ lanes[k] = Before[lanes[i]]}}

PlanEvents(peer, lanes) ==
  LET item(i) == [EventOf("work-item", peer) EXCEPT !.workKey = LaneKey[lanes[i]],
                    !.status = "open", !.dependsOn = {DependencyFor(lanes, i)}]
  IN FlattenSeq([i \in DOMAIN lanes |-> <<item(i), Proposal(peer, lanes[i])>>])

SeedEvents(peer, lanes) == [i \in DOMAIN lanes |-> Proposal(peer, lanes[i])]

(* Without --send: a task for each peer, which nobody has been sent.        *)
FanoutEvents(peer, targets) ==
  [i \in DOMAIN targets |-> [EventOf("task", peer) EXCEPT !.status = "planned"]]

(* What these commands append are inputs of the board that name no target.  *)
Untargeted == {e \in Inputs : e.type \in {"work-item", "proposal", "task"} /\ e.ref = NoEvent}

ASSUME CommandEvents ==
  \A peer \in Peers :
    /\ \A lanes \in PlanLanes : PlanEvents(peer, lanes) \in Seq(Untargeted)
    /\ \A lanes \in SeedLanes : SeedEvents(peer, lanes) \in Seq(Untargeted)
    /\ \A targets \in FanoutPeers : FanoutEvents(peer, targets) \in Seq(Untargeted)

Give(sequence) ==
  /\ command = <<>> /\ commands < MaxCommands /\ status = "open"
  /\ command' = sequence
  /\ commands' = commands + 1
  /\ UNCHANGED vars

CreatePeerGoalPlan == \E peer \in Peers, lanes \in PlanLanes : Give(PlanEvents(peer, lanes))
SeedPeerGoalProposals == \E peer \in Peers, lanes \in SeedLanes : Give(SeedEvents(peer, lanes))
HandlePeerGoalFanout == \E peer \in Peers, targets \in FanoutPeers : Give(FanoutEvents(peer, targets))

(* handlePeerGoalCommand *)
HandlePeerGoalCommand ==
  \/ /\ \/ PostGoalEvent
        \/ \E force, summary \in BOOLEAN, peer \in Peers : ClosePeerGoal(force, peer, summary)
     /\ UNCHANGED <<command, commands>>
  \/ CreatePeerGoalPlan
  \/ HandlePeerGoalFanout

CommandStep ==
  /\ command # <<>>
  /\ AppendPeerGoalEvent(Head(command))
  /\ command' = Tail(command)
  /\ UNCHANGED commands

CommandEnds ==
  /\ command # <<>>
  /\ command' = <<>>
  /\ UNCHANGED <<vars, commands>>

CommandInit == Init /\ command = <<>> /\ commands = 0

CommandNext ==
  \/ HandlePeerGoalCommand \/ SeedPeerGoalProposals
  \/ CommandStep \/ CommandEnds
  \/ (RecordDispatch \/ Tick) /\ UNCHANGED <<command, commands>>

CommandSpec == CommandInit /\ [][CommandNext]_commandVars
=============================================================================
