---------------------------- MODULE PeerSendProofs ----------------------------
(***************************************************************************)
(* Theorems about PeerSend and SendRecovery, for every set of dispatches   *)
(* and sessions, whatever other peers append meanwhile: a dispatch uses    *)
(* the board as the board allows, so all theorems about GoalBoard hold of  *)
(* it, and its story in the log is in order and complete, also when        *)
(* sessions are killed and others end what they left.                      *)
(***************************************************************************)
EXTENDS SendRecovery, GoalBoardProofs

(* What a dispatch appends is an input of the board, aimed at one target.   *)
LEMMA DispatchEvents ==
  ASSUME TypeOK, NEW s \in Dispatches
  PROVE  /\ ClaimOf(s) \in Inputs /\ ObjectionOf(s) \in Inputs /\ RefusalOf(s) \in Inputs
         /\ HandoffOf(s, NoTask, "blocked") \in Inputs
         /\ HandoffOf(s, s, "blocked") \in Inputs /\ HandoffOf(s, s, "done") \in Inputs
         /\ \A c \in Of("claim") :
              /\ TaskOf(s, c) = [TaskOf(s, NoEvent) EXCEPT !.ref = c]
              /\ ReleaseOf(s, c) = [ReleaseOf(s, NoEvent) EXCEPT !.ref = c]
              /\ ProgressOf(s, c) = [ProgressOf(s, NoEvent) EXCEPT !.ref = c]
              /\ HeartbeatOf(s, c) = [HeartbeatOf(s, NoEvent) EXCEPT !.ref = c]
         /\ TaskOf(s, NoEvent) \in Inputs /\ ReleaseOf(s, NoEvent) \in Inputs
         /\ ProgressOf(s, NoEvent) \in Inputs /\ HeartbeatOf(s, NoEvent) \in Inputs
<1>1. \A in \in DispatchInputs : in \in Inputs
  BY SendEvents
<1>2. \A in : in \in { ClaimOf(s), TaskOf(s, NoEvent), ReleaseOf(s, NoEvent),
           HeartbeatOf(s, NoEvent), ProgressOf(s, NoEvent), ObjectionOf(s), RefusalOf(s),
           HandoffOf(s, NoTask, "blocked"), HandoffOf(s, s, "blocked"), HandoffOf(s, s, "done") }
        => in \in DispatchInputs
  BY DEF DispatchInputs
<1>3. ASSUME NEW c \in Of("claim")
      PROVE  /\ TaskOf(s, c) = [TaskOf(s, NoEvent) EXCEPT !.ref = c]
             /\ ReleaseOf(s, c) = [ReleaseOf(s, NoEvent) EXCEPT !.ref = c]
             /\ ProgressOf(s, c) = [ProgressOf(s, NoEvent) EXCEPT !.ref = c]
             /\ HeartbeatOf(s, c) = [HeartbeatOf(s, NoEvent) EXCEPT !.ref = c]
  <2>1. TaskOf(s, c) = [TaskOf(s, NoEvent) EXCEPT !.ref = c]
    BY DEF TaskOf, EventOf
  <2>2. ReleaseOf(s, c) = [ReleaseOf(s, NoEvent) EXCEPT !.ref = c]
    BY DEF ReleaseOf, EventOf
  <2>3. ProgressOf(s, c) = [ProgressOf(s, NoEvent) EXCEPT !.ref = c]
    BY DEF ProgressOf, EventOf
  <2>4. HeartbeatOf(s, c) = [HeartbeatOf(s, NoEvent) EXCEPT !.ref = c]
    BY DEF HeartbeatOf, ProgressOf, EventOf
  <2>5. QED
    BY <2>1, <2>2, <2>3, <2>4
<1>4. ClaimOf(s) \in Inputs /\ ObjectionOf(s) \in Inputs /\ RefusalOf(s) \in Inputs
  BY <1>1, <1>2
<1>5. /\ HandoffOf(s, NoTask, "blocked") \in Inputs
      /\ HandoffOf(s, s, "blocked") \in Inputs /\ HandoffOf(s, s, "done") \in Inputs
  BY <1>1, <1>2
<1>6. /\ TaskOf(s, NoEvent) \in Inputs /\ ReleaseOf(s, NoEvent) \in Inputs
      /\ ProgressOf(s, NoEvent) \in Inputs /\ HeartbeatOf(s, NoEvent) \in Inputs
  BY <1>1, <1>2
<1>7. QED
  BY <1>3, <1>4, <1>5, <1>6

(* Appending an input that refers to nothing is a step of the board. *)
LEMMA AppendAsIsIsStep ==
  ASSUME NEW in \in Inputs, in.ref = NoEvent, NoEvent \in Targets(in), AppendPeerGoalEvent(in)
  PROVE  Next
<1>1. in = [in EXCEPT !.ref = NoEvent]
  BY BoardConstants DEF Event
<1>2. QED
  BY <1>1 DEF Next

-----------------------------------------------------------------------------
(***************************************************************************)
(* The events a step of PeerSend can append, by action: every step of a    *)
(* dispatch is a step of the board or changes nothing on it.               *)
(***************************************************************************)
LEMMA StepOfBoard ==
  ASSUME TypeOK, SendTypeOK, [SendNext]_sendVars
  PROVE  [Next]_vars
<1> USE DispatchEvents
<1>1. ASSUME NEW s \in Dispatches, BeginPeerGoalTask(s) PROVE [Next]_vars
  <2>1. CASE UNCHANGED vars
    BY <2>1
  <2>2. CASE /\ events' = Append(events, NormalizeEvent(ClaimOf(s)))
             /\ ProposalFulfillmentGuard(NormalizeEvent(ClaimOf(s)))
             /\ ValidateClaim(NormalizeEvent(ClaimOf(s)))
             /\ Room("claim") /\ UNCHANGED <<now, status, closure>>
    <3>1. NormalizeEvent(ClaimOf(s)).type = "claim"
      BY DEF NormalizeEvent, ClaimOf, EventOf
    <3>2. AppendPeerGoalEvent(ClaimOf(s))
      BY <2>2, <3>1 DEF AppendPeerGoalEvent, Accepts
    <3>3. ClaimOf(s).ref = NoEvent /\ ClaimOf(s).type = "claim"
      BY DEF ClaimOf, EventOf
    <3>4. QED
      BY <3>2, <3>3, AppendAsIsIsStep DEF Targets
  <2>3. QED
    BY <1>1, <2>1, <2>2 DEF BeginPeerGoalTask
<1>2. ASSUME NEW s \in Dispatches, SendMessage(s) \/ Answer(s) \/ Stop(s) PROVE [Next]_vars
  BY <1>2 DEF SendMessage, Answer, Stop
<1>3. ASSUME NEW s \in Dispatches, RecordPeerGoalTaskDispatch(s) PROVE [Next]_vars
  <2>1. send[s].claim \in Of("claim")
    BY <1>3 DEF RecordPeerGoalTaskDispatch, At, SendTypeOK
  <2>2. TaskOf(s, NoEvent).type = "task"
    BY DEF TaskOf, EventOf
  <2>3. QED
    BY <1>3, <2>1, <2>2 DEF RecordPeerGoalTaskDispatch, Try, Targets, Next
<1>4. ASSUME NEW s \in Dispatches, RecordPeerSendGoalFailure(s) \/ RecordHandoff(s)
      PROVE  [Next]_vars
  <2>1. \A m, result : HandoffOf(s, m, result).type = "handoff" /\ HandoffOf(s, m, result).ref = NoEvent
    BY DEF HandoffOf, EventOf
  <2>2. \A in : in.type = "handoff" => NoEvent \in Targets(in)
    BY DEF Targets
  <2>3. QED
    BY <1>4, <2>1, <2>2, AppendAsIsIsStep DEF RecordPeerSendGoalFailure, RecordHandoff, Try
<1>5. ASSUME NEW s \in Dispatches, ReleaseClaim(s) PROVE [Next]_vars
  <2>1. send[s].claim \in Of("claim")
    BY <1>5 DEF ReleaseClaim, At, SendTypeOK
  <2>2. ReleaseOf(s, NoEvent).type = "release"
    BY DEF ReleaseOf, EventOf
  <2>3. QED
    BY <1>5, <2>1, <2>2 DEF ReleaseClaim, Try, Targets, Next
<1>6. ASSUME NEW s \in Dispatches, ObjectToHandoff(s) \/ RecordRefusal(s) PROVE [Next]_vars
  <2>1. /\ ObjectionOf(s).type = "objection" /\ ObjectionOf(s).ref = NoEvent
        /\ RefusalOf(s).type = "task" /\ RefusalOf(s).ref = NoEvent
    BY DEF ObjectionOf, RefusalOf, EventOf
  <2>2. QED
    BY <1>6, <2>1, AppendAsIsIsStep DEF ObjectToHandoff, RecordRefusal, Try, Targets
<1>7. ASSUME NEW s \in Dispatches, ClaimHeartbeat(s) \/ RecordGoalProgress(s) PROVE [Next]_vars
  <2>1. send[s].claim \in Of("claim")
    BY <1>7 DEF ClaimHeartbeat, RecordGoalProgress, At, Busy, SendTypeOK
  <2>2. HeartbeatOf(s, NoEvent).type = "heartbeat" /\ ProgressOf(s, NoEvent).type = "heartbeat"
    BY DEF HeartbeatOf, ProgressOf, EventOf
  <2>3. QED
    BY <1>7, <2>1, <2>2 DEF ClaimHeartbeat, RecordGoalProgress, Targets, Next
<1>8. CASE OtherPeers
  <2>1. ASSUME NEW in \in OtherInputs, NEW ref \in Targets(in),
               AppendPeerGoalEvent([in EXCEPT !.ref = ref])
        PROVE  Next
    BY <2>1, SendEvents DEF Next
  <2>2. ASSUME NEW peer \in Peers, ClosePeerGoal(FALSE, peer, FALSE) PROVE Next
    BY <2>2 DEF Next
  <2>3. QED
    BY <1>8, <2>1, <2>2 DEF OtherPeers
<1>9. CASE Clock
  BY <1>9 DEF Clock, Next
<1>10. CASE UNCHANGED sendVars
  BY <1>10 DEF sendVars
<1>11. QED
  BY <1>1, <1>2, <1>3, <1>4, <1>5, <1>6, <1>7, <1>8, <1>9, <1>10 DEF SendNext, Step

-----------------------------------------------------------------------------
(* What the board held stays there, whatever is appended. *)
LEMMA LogKeeps ==
  ASSUME TypeOK, [Next]_vars
  PROVE  /\ \A i \in DOMAIN events : i \in DOMAIN events' /\ events'[i] = events[i]
         /\ \A type \in EventTypes : Of(type) \subseteq Of(type)' /\ Of(type) \subseteq DOMAIN events
<1>1. CASE events' = events
  BY <1>1 DEF Of
<1>2. ASSUME NEW e \in Event, events' = Append(events, e)
      PROVE  /\ \A i \in DOMAIN events : i \in DOMAIN events' /\ events'[i] = events[i]
             /\ \A type \in EventTypes : Of(type) \subseteq Of(type)'
  BY <1>2, LogGrows
<1>3. \A type \in EventTypes : Of(type) \subseteq DOMAIN events
  BY DEF Of
<1>4. QED
  BY <1>1, <1>2, <1>3, StepOfLog DEF Extends

(* Each step leaves every dispatch in a known state, with its claim made.   *)
LEMMA SendTypeStep ==
  ASSUME TypeOK, SendTypeOK, [SendNext]_sendVars
  PROVE  SendTypeOK'
<1>1. [Next]_vars /\ TypeOK' /\ Of("claim") \subseteq Of("claim")'
  BY StepOfBoard, TypeStep, LogKeeps DEF EventTypes
<1> DEFINE Stages == Resting \cup Busy \cup {"unclaimed"}
           Sends == [pc: Stages, claim: Nat, answer: Results]
           Claimless == {"idle", "duplicate", "unclaimed", "refused"}
<1>2. ASSUME NEW s \in Dispatches, BeginPeerGoalTask(s) PROVE SendTypeOK'
  <2>1. send \in [Dispatches -> Sends]
    BY DEF SendTypeOK
  <2>2. CASE \E pc \in Claimless : send' = [send EXCEPT ![s].pc = pc]
    BY <1>1, <2>1, <2>2 DEF SendTypeOK, Resting
  <2>3. CASE /\ events' = Append(events, NormalizeEvent(ClaimOf(s)))
             /\ send' = [send EXCEPT ![s].pc = "claimed", ![s].claim = Len(events) + 1]
    <3>1. NormalizeEvent(ClaimOf(s)) \in Event /\ NormalizeEvent(ClaimOf(s)).type = "claim"
      <4>1. ClaimOf(s) \in Event /\ ClaimOf(s).type = "claim"
        BY DispatchEvents, BoardConstants DEF ClaimOf, EventOf
      <4>2. QED
        BY <4>1, StampedEvent
    <3>2. Len(events) + 1 \in Of("claim")' /\ Len(events) + 1 \in Nat
      BY <2>3, <3>1, LogGrows DEF EventTypes
    <3>3. QED
      BY <1>1, <2>1, <2>3, <3>2 DEF SendTypeOK, Resting, Busy
  <2>4. QED
    BY <1>2, <2>2, <2>3 DEF BeginPeerGoalTask, Goto
<1>3. ASSUME NEW s \in Dispatches, send[s].pc \notin Claimless \cup {"stopped"},
             NEW pc \in Resting \cup Busy, NEW answer \in Results,
             send' = [send EXCEPT ![s].pc = pc, ![s].answer = answer]
      PROVE  SendTypeOK'
  BY <1>1, <1>3 DEF SendTypeOK, At
<1>4. ASSUME NEW s \in Dispatches, send[s].pc \notin Claimless \cup {"stopped"},
             NEW pc \in Resting \cup Busy, Goto(s, pc)
      PROVE  SendTypeOK'
  BY <1>1, <1>4 DEF SendTypeOK, At, Goto
<1>5. ASSUME NEW s \in Dispatches, Step(s) \/ Stop(s) PROVE SendTypeOK'
  <2>1. ASSUME SendMessage(s) PROVE SendTypeOK'
    BY <1>4, <2>1 DEF SendMessage, At, Busy
  <2>2. ASSUME RecordPeerGoalTaskDispatch(s) PROVE SendTypeOK'
    BY <1>4, <2>2 DEF RecordPeerGoalTaskDispatch, Try, Unrecorded, At, Busy, Resting
  <2>3. ASSUME RecordPeerSendGoalFailure(s) PROVE SendTypeOK'
    BY <1>4, <2>3 DEF RecordPeerSendGoalFailure, Try, At, Busy, Resting
  <2>4. ASSUME Answer(s) PROVE SendTypeOK'
    BY <1>3, <2>4 DEF Answer, At, Busy
  <2>5. ASSUME RecordHandoff(s) PROVE SendTypeOK'
    BY <1>4, <2>5 DEF RecordHandoff, Try, At, Busy, Resting
  <2>6. ASSUME ReleaseClaim(s) PROVE SendTypeOK'
    BY <1>4, <2>6 DEF ReleaseClaim, Try, At, Busy, Resting
  <2>7. ASSUME ObjectToHandoff(s) PROVE SendTypeOK'
    BY <1>4, <2>7 DEF ObjectToHandoff, Try, At, Busy, Resting
  <2>8. ASSUME Stop(s) PROVE SendTypeOK'
    BY <1>1, <2>8 DEF Stop, Goto, SendTypeOK, Resting
  <2>9. ASSUME RecordRefusal(s) PROVE SendTypeOK'
    BY <1>1, <2>9 DEF RecordRefusal, Try, Goto, SendTypeOK, Resting
  <2>10. QED
    BY <1>5, <2>1, <2>2, <2>3, <2>4, <2>5, <2>6, <2>7, <2>8, <2>9 DEF Step
<1>6. CASE UNCHANGED send
  BY <1>1, <1>6 DEF SendTypeOK
<1>7. QED
  BY <1>2, <1>5, <1>6 DEF SendNext, ClaimHeartbeat, RecordGoalProgress, OtherPeers, Clock, sendVars

(* Nothing is claimed, sent or recorded in the beginning. *)
LEMMA SendInitTypes == SendInit => TypeOK /\ SendTypeOK
BY DEF SendInit, Init, TypeOK, SendTypeOK, Resting, Busy, Results, NoEvent

(* The type of the dispatches is invariant, and with it goes the board's. *)
THEOREM SendTypeCorrect == SendSpec => [](TypeOK /\ SendTypeOK)
<1>1. TypeOK /\ SendTypeOK /\ [SendNext]_sendVars => (TypeOK /\ SendTypeOK)'
  BY StepOfBoard, TypeStep, SendTypeStep
<1>2. QED
  BY <1>1, SendInitTypes, PTL DEF SendSpec

(* Dispatches implement the board: they only take steps it allows. *)
THEOREM SendImplementsBoard == SendSpec => UsesBoard
<1>1. SendInit => Init
  BY DEF SendInit
<1>2. TypeOK /\ SendTypeOK /\ [SendNext]_sendVars => [Next]_vars
  BY StepOfBoard
<1>3. QED
  BY <1>1, <1>2, SendTypeCorrect, PTL DEF SendSpec, UsesBoard, Spec

(* So two dispatches never write to the same paths at a time. *)
THEOREM DispatchesExclude == SendSpec => [](WriteExclusion /\ KeyExclusion)
BY SendImplementsBoard, WriteExclusionHolds, KeyExclusionHolds, PTL DEF UsesBoard

-----------------------------------------------------------------------------
(***************************************************************************)
(* The story of a dispatch.  HandoffFollowsTask and DoneLeavesNothing are  *)
(* not inductive: they need to know, at each stage, whether the task is    *)
(* recorded, whether a handoff that ends it is, and that no time is ahead  *)
(* of the clock, since a handoff only ends tasks that are not younger.     *)
(***************************************************************************)
TasksOf(s) == {t \in Of("task") : events[t].taskId = s}

Ended(s) == \A t \in TasksOf(s) : \E h \in Of("handoff") :
              events[h].taskId = s /\ events[h].at >= events[t].at

Story(s) ==
  /\ send[s].pc \in {"idle", "duplicate", "unclaimed", "refused", "claimed", "failing", "sent"} => TasksOf(s) = {}
  /\ send[s].pc \in {"tracked", "handoff"} => TasksOf(s) # {}
  /\ send[s].pc \in {"release", "objection", "done"} => Ended(s)
  /\ send[s].pc \in {"objection", "done"} => Released(send[s].claim)
  /\ send[s].pc = "done" /\ send[s].answer = "incomplete" => Of("objection") # {}

TasksNameClaims == \A t \in Of("task") : events[t].taskId \in Dispatches =>
                     events[t].ref # NoEvent /\ events[t].ref < t

Stories ==
  /\ StampsArePast /\ TasksNameClaims /\ HandoffFollowsTask
  /\ \A s \in Dispatches : Story(s)

(* What an append that records no task of s leaves as it was. *)
Keeps(s) ==
  /\ TasksOf(s)' = TasksOf(s)
  /\ Ended(s) => Ended(s)'
  /\ \A c : Released(c) => Released(c)'
  /\ Of("objection") # {} => Of("objection")' # {}

(* Appending anything but a task of s takes nothing away from its story. *)
LEMMA StoryKeeps ==
  ASSUME TypeOK, NEW s \in Dispatches,
         events' = events \/ \E e \in Event : /\ events' = Append(events, e)
                                              /\ e.type = "task" => e.taskId # s
  PROVE  Keeps(s)
<1>1. CASE events' = events
  BY <1>1 DEF Keeps, TasksOf, Ended, Released, Of
<1>2. ASSUME NEW e \in Event, events' = Append(events, e), e.type = "task" => e.taskId # s
      PROVE  Keeps(s)
  <2>1. /\ \A i \in DOMAIN events : events'[i] = events[i]
        /\ events'[Len(events) + 1] = e
        /\ \A type \in EventTypes : Of(type) \subseteq Of(type)' /\ Of(type) \subseteq DOMAIN events
        /\ Of("task")' = Of("task") \cup (IF e.type = "task" THEN {Len(events) + 1} ELSE {})
    BY <1>2, LogGrows DEF EventTypes, Of
  <2>2. TasksOf(s)' = TasksOf(s)
    BY <1>2, <2>1 DEF TasksOf, EventTypes
  <2>3. ASSUME Ended(s) PROVE Ended(s)'
    <3> SUFFICES ASSUME NEW t \in TasksOf(s)
                 PROVE  \E h \in Of("handoff")' : events'[h].taskId = s /\ events'[h].at >= events'[t].at
      BY <2>2 DEF Ended
    <3>1. PICK h \in Of("handoff") : events[h].taskId = s /\ events[h].at >= events[t].at
      BY <2>3 DEF Ended
    <3>2. events'[h] = events[h] /\ events'[t] = events[t] /\ h \in Of("handoff")'
      BY <2>1 DEF EventTypes, TasksOf
    <3>3. QED
      BY <3>1, <3>2
  <2>4. \A c : Released(c) => Released(c)'
    BY <2>1 DEF Released, EventTypes
  <2>5. QED
    BY <2>1, <2>2, <2>3, <2>4 DEF Keeps, EventTypes
<1>3. QED
  BY <1>1, <1>2

(* The parts of Stories that look at the log alone. *)
LogStories == StampsArePast /\ TasksNameClaims /\ HandoffFollowsTask

LEMMA LogStoriesGrow ==
  ASSUME TypeOK, LogStories, NEW e \in Event, events' = Append(events, e), now' = now,
         e.at = now,
         e.type = "task" /\ e.taskId \in Dispatches => e.ref \in DOMAIN events,
         e.type = "handoff" /\ e.taskId \in Dispatches => TasksOf(e.taskId) # {}
  PROVE  LogStories'
<1> DEFINE n == Len(events) + 1
<1>1. /\ DOMAIN events = 1..Len(events) /\ Len(events) \in Nat
      /\ DOMAIN events' = DOMAIN events \cup {n}
      /\ \A i \in DOMAIN events : events'[i] = events[i]
      /\ events'[n] = e
      /\ Of("task")' = Of("task") \cup (IF e.type = "task" THEN {n} ELSE {})
      /\ Of("handoff")' = Of("handoff") \cup (IF e.type = "handoff" THEN {n} ELSE {})
      /\ Of("task") \subseteq DOMAIN events /\ Of("handoff") \subseteq DOMAIN events
  BY LogGrows DEF EventTypes, Of
<1>2. n \in Nat /\ \A i \in DOMAIN events : i \in Nat /\ i < n /\ i # NoEvent
  BY <1>1 DEF NoEvent
<1> HIDE DEF n
<1>3. StampsArePast'
  BY <1>1 DEF LogStories, StampsArePast, TypeOK
<1>4. TasksNameClaims'
  BY <1>1, <1>2 DEF LogStories, TasksNameClaims
<1>5. HandoffFollowsTask'
  <2> SUFFICES ASSUME NEW h \in Of("handoff")', events'[h].taskId \in Dispatches
               PROVE  \E t \in Of("task")' : /\ t < h /\ events'[t].taskId = events'[h].taskId
                                             /\ events'[t].ref # NoEvent /\ events'[t].ref < t
    BY DEF HandoffFollowsTask
  <2>1. CASE h \in Of("handoff")
    BY <1>1, <2>1 DEF LogStories, HandoffFollowsTask
  <2>2. CASE h = n /\ e.type = "handoff"
    <3>1. PICK t \in Of("task") : events[t].taskId = e.taskId
      BY <1>1, <2>2 DEF TasksOf
    <3>2. t < n /\ events'[t] = events[t] /\ t \in Of("task")'
      BY <1>1, <1>2
    <3>3. events[t].ref # NoEvent /\ events[t].ref < t
      BY <1>1, <2>2, <3>1 DEF LogStories, TasksNameClaims
    <3>4. QED
      BY <1>1, <2>2, <3>1, <3>2, <3>3
  <2>3. QED
    BY <1>1, <2>1, <2>2
<1>6. QED
  BY <1>3, <1>4, <1>5 DEF LogStories

-----------------------------------------------------------------------------
(* What an accepted append puts in the log. *)
LEMMA AppendAdds ==
  ASSUME TypeOK, NEW in \in Inputs, NEW ref \in Targets(in),
         AppendPeerGoalEvent([in EXCEPT !.ref = ref])
  PROVE  \E e \in Event : /\ events' = Append(events, e) /\ now' = now
                          /\ e.at = now /\ e.type = in.type /\ e.taskId = in.taskId /\ e.ref = ref
                          /\ e.workKey = in.workKey /\ e.status = in.status
<1> DEFINE e == NormalizeEvent([in EXCEPT !.ref = ref])
<1>1. e \in Event /\ events' = Append(events, e) /\ now' = now
  BY NormalizedEvent DEF AppendPeerGoalEvent
<1>2. /\ e.at = now /\ e.type = in.type /\ e.taskId = in.taskId /\ e.ref = ref
      /\ e.workKey = in.workKey /\ e.status = in.status
  BY BoardConstants DEF NormalizeEvent, Event
<1>3. QED
  BY <1>1, <1>2

(* The same for an input that refers to nothing. *)
LEMMA AppendAsIsAdds ==
  ASSUME TypeOK, NEW in \in Inputs, AppendPeerGoalEvent(in)
  PROVE  \E e \in Event : /\ events' = Append(events, e) /\ now' = now
                          /\ e.at = now /\ e.type = in.type /\ e.taskId = in.taskId /\ e.ref = in.ref
<1> DEFINE e == NormalizeEvent(in)
<1>1. in \in Event
  BY BoardConstants
<1>2. e \in Event /\ events' = Append(events, e) /\ now' = now
  BY <1>1, StampedEvent DEF AppendPeerGoalEvent
<1>3. e.at = now /\ e.type = in.type /\ e.taskId = in.taskId /\ e.ref = in.ref
  BY <1>1 DEF NormalizeEvent, Event
<1>4. QED
  BY <1>2, <1>3

(* Events that record no task of a dispatch, nor a handoff too early.       *)
Harmless(e) ==
  /\ e.at = now
  /\ e.type = "task" => e.taskId \notin Dispatches
  /\ e.type = "handoff" /\ e.taskId \in Dispatches => TasksOf(e.taskId) # {}

(* They keep the stories of all dispatches. *)
LEMMA HarmlessKeeps ==
  ASSUME TypeOK, LogStories, now' = now,
         events' = events \/ \E e \in Event : events' = Append(events, e) /\ Harmless(e)
  PROVE  LogStories' /\ \A d \in Dispatches : Keeps(d)
<1>1. CASE events' = events
  <2>1. LogStories'
    BY <1>1 DEF LogStories, StampsArePast, TasksNameClaims, HandoffFollowsTask, Of
  <2>2. QED
    BY <1>1, <2>1, StoryKeeps
<1>2. ASSUME NEW e \in Event, events' = Append(events, e), Harmless(e)
      PROVE  LogStories' /\ \A d \in Dispatches : Keeps(d)
  <2>1. LogStories'
    BY <1>2, LogStoriesGrow DEF Harmless
  <2>2. ASSUME NEW d \in Dispatches PROVE Keeps(d)
    BY <1>2, StoryKeeps DEF Harmless
  <2>3. QED
    BY <2>1, <2>2
<1>3. QED
  BY <1>1, <1>2

(* A dispatch that did nothing keeps its story. *)
LEMMA BystanderKeeps ==
  ASSUME NEW d \in Dispatches, Story(d), Keeps(d), send'[d] = send[d]
  PROVE  Story(d)'
BY DEF Story, Keeps

(* The same when only dispatch s did something. *)
LEMMA OnlyOneActs ==
  ASSUME SendTypeOK, Stories, NEW s \in Dispatches, NEW new, send' = [send EXCEPT ![s] = new],
         \A d \in Dispatches \ {s} : Keeps(d), Story(s)'
  PROVE  \A d \in Dispatches : Story(d)'
<1>1. ASSUME NEW d \in Dispatches \ {s} PROVE Story(d)'
  <2>1. send'[d] = send[d]
    BY <1>1 DEF SendTypeOK
  <2>2. QED
    BY <1>1, <2>1, BystanderKeeps DEF Stories
<1>2. QED
  BY <1>1

-----------------------------------------------------------------------------
(* The steps of a dispatch that leave the log as it is. *)
LEMMA SilentSteps ==
  ASSUME TypeOK, SendTypeOK, Stories, NEW s \in Dispatches, UNCHANGED vars,
         \/ SendMessage(s) \/ Answer(s) \/ Stop(s)
         \/ At(s, "idle") /\ \E pc \in {"duplicate", "unclaimed", "refused"} : Goto(s, pc)
         \/ At(s, "unclaimed") /\ Goto(s, "refused")
         \/ At(s, "sent") /\ Goto(s, "failing")
         \/ Goto(s, "untracked") \/ Goto(s, "dropped")
  PROVE  Stories'
<1>1. LogStories' /\ \A d \in Dispatches : Keeps(d)
  BY HarmlessKeeps DEF vars, Stories, LogStories
<1>2. send'[s].claim = send[s].claim
  BY DEF SendMessage, Answer, Stop, Goto, SendTypeOK
<1>3. TasksOf(s)' = TasksOf(s) /\ Story(s)
  BY <1>1 DEF Keeps, Stories
<1>4. \E new : send' = [send EXCEPT ![s] = new]
  BY DEF SendMessage, Answer, Stop, Goto, SendTypeOK
<1>5. Story(s)'
  <2>1. CASE \/ SendMessage(s)
             \/ At(s, "idle") /\ \E pc \in {"duplicate", "unclaimed", "refused"} : Goto(s, pc)
             \/ At(s, "unclaimed") /\ Goto(s, "refused")
             \/ At(s, "sent") /\ Goto(s, "failing")
    <3>1. send[s].pc \in {"idle", "unclaimed", "claimed", "sent"}
          /\ send'[s].pc \in {"sent", "failing", "duplicate", "unclaimed", "refused"}
      BY <2>1 DEF SendMessage, Goto, At, SendTypeOK
    <3>2. QED
      BY <1>3, <3>1 DEF Story
  <2>2. CASE Answer(s)
    <3>1. send[s].pc = "tracked" /\ send'[s].pc = "handoff"
      BY <2>2 DEF Answer, At, SendTypeOK
    <3>2. QED
      BY <1>3, <3>1 DEF Story
  <2>3. CASE Stop(s) \/ Goto(s, "untracked") \/ Goto(s, "dropped")
    <3>1. send'[s].pc \in {"stopped", "untracked", "dropped"}
      BY <2>3 DEF Stop, Goto, SendTypeOK
    <3>2. QED
      BY <3>1 DEF Story
  <2>4. QED
    BY <2>1, <2>2, <2>3
<1>6. QED
  BY <1>1, <1>4, <1>5, OnlyOneActs DEF Stories, LogStories

(* The claim of a dispatch is made while it has no task. *)
LEMMA BeginStep ==
  ASSUME TypeOK, SendTypeOK, Stories, NEW s \in Dispatches, BeginPeerGoalTask(s)
  PROVE  Stories'
<1>1. CASE UNCHANGED vars /\ \E pc \in {"duplicate", "unclaimed", "refused"} : Goto(s, pc)
  BY <1>1, SilentSteps DEF BeginPeerGoalTask
<1>2. CASE /\ events' = Append(events, NormalizeEvent(ClaimOf(s))) /\ now' = now
           /\ send' = [send EXCEPT ![s].pc = "claimed", ![s].claim = Len(events) + 1]
  <2> DEFINE e == NormalizeEvent(ClaimOf(s))
  <2>1. ClaimOf(s) \in Event /\ ClaimOf(s).type = "claim"
    BY DispatchEvents, BoardConstants DEF ClaimOf, EventOf
  <2>2. e \in Event /\ e.type = "claim" /\ e.at = now
    BY <2>1, StampedEvent DEF NormalizeEvent, Event
  <2>3. LogStories' /\ \A d \in Dispatches : Keeps(d)
    BY <1>2, <2>2, HarmlessKeeps DEF Harmless, Stories, LogStories
  <2>4. send[s].pc = "idle" /\ send'[s].pc = "claimed"
    BY <1>2 DEF BeginPeerGoalTask, At, SendTypeOK
  <2>5. Story(s)'
    BY <2>3, <2>4 DEF Story, Stories, Keeps
  <2>6. \E new : send' = [send EXCEPT ![s] = new]
    BY <1>2
  <2>7. QED
    BY <2>3, <2>5, <2>6, OnlyOneActs DEF Stories, LogStories
<1>3. QED
  BY <1>1, <1>2 DEF BeginPeerGoalTask

(* The task is recorded where its claim is in the log already. *)
LEMMA DispatchStep ==
  ASSUME TypeOK, SendTypeOK, Stories, NEW s \in Dispatches, RecordPeerGoalTaskDispatch(s)
  PROVE  Stories'
<1>1. CASE UNCHANGED vars /\ (Goto(s, "untracked") \/ Goto(s, "failing"))
  BY <1>1, SilentSteps DEF RecordPeerGoalTaskDispatch
<1>2. CASE AppendPeerGoalEvent(TaskOf(s, send[s].claim)) /\ Goto(s, "tracked")
  <2>1. send[s].claim \in Of("claim") /\ send[s].claim \in DOMAIN events
    BY DEF RecordPeerGoalTaskDispatch, At, SendTypeOK, Of
  <2>2. /\ TaskOf(s, NoEvent).type = "task" /\ TaskOf(s, NoEvent).taskId = s
        /\ TaskOf(s, NoEvent) \in Inputs
    BY DispatchEvents DEF TaskOf, EventOf
  <2>3. send[s].claim \in Targets(TaskOf(s, NoEvent))
    BY <2>1, <2>2 DEF Targets
  <2>4. PICK e \in Event : /\ events' = Append(events, e) /\ now' = now /\ e.at = now
                           /\ e.type = "task" /\ e.taskId = s /\ e.ref = send[s].claim
    BY <1>2, <2>1, <2>2, <2>3, DispatchEvents, AppendAdds
  <2>5. LogStories'
    BY <2>1, <2>4, LogStoriesGrow DEF Stories, LogStories
  <2>6. \A d \in Dispatches \ {s} : Keeps(d)
    BY <2>4, StoryKeeps
  <2>7. TasksOf(s)' # {}
    <3>1. Len(events) + 1 \in Of("task")' /\ events'[Len(events) + 1] = e
      BY <2>4, LogGrows DEF EventTypes
    <3>2. QED
      BY <2>4, <3>1 DEF TasksOf
  <2>8. send'[s].pc = "tracked"
    BY <1>2 DEF Goto, SendTypeOK
  <2>9. Story(s)'
    BY <2>7, <2>8 DEF Story
  <2>10. \E new : send' = [send EXCEPT ![s] = new]
    BY <1>2 DEF Goto
  <2>11. QED
    BY <2>5, <2>6, <2>9, <2>10, OnlyOneActs DEF Stories, LogStories
<1>3. QED
  BY <1>1, <1>2 DEF RecordPeerGoalTaskDispatch, Try, Unrecorded

(* The task that notes a refusal is of no message. *)
LEMMA RefusalStep ==
  ASSUME TypeOK, SendTypeOK, Stories, NEW s \in Dispatches, RecordRefusal(s)
  PROVE  Stories'
<1>1. CASE UNCHANGED vars /\ Goto(s, "refused")
  BY <1>1, SilentSteps DEF RecordRefusal
<1>2. CASE AppendPeerGoalEvent(RefusalOf(s)) /\ Goto(s, "refused")
  <2>1. RefusalOf(s) \in Inputs /\ RefusalOf(s).type = "task" /\ RefusalOf(s).taskId = NoTask
    BY DispatchEvents DEF RefusalOf, EventOf
  <2>2. PICK e \in Event : /\ events' = Append(events, e) /\ now' = now /\ e.at = now
                           /\ e.type = "task" /\ e.taskId = NoTask
    BY <1>2, <2>1, AppendAsIsAdds
  <2>3. LogStories' /\ \A d \in Dispatches : Keeps(d)
    BY <2>2, HarmlessKeeps, SendEvents DEF Harmless, Stories, LogStories
  <2>4. send[s].pc = "unclaimed" /\ send'[s].pc = "refused"
    BY <1>2 DEF RecordRefusal, At, Goto, SendTypeOK
  <2>5. Story(s)'
    BY <2>3, <2>4 DEF Keeps, Stories, Story
  <2>6. \E new : send' = [send EXCEPT ![s] = new]
    BY <1>2 DEF Goto
  <2>7. QED
    BY <2>3, <2>5, <2>6, OnlyOneActs DEF Stories, LogStories
<1>3. QED
  BY <1>1, <1>2 DEF RecordRefusal, Try

(* A failure to send is recorded without a task to end. *)
LEMMA FailureStep ==
  ASSUME TypeOK, SendTypeOK, Stories, NEW s \in Dispatches, RecordPeerSendGoalFailure(s)
  PROVE  Stories'
<1> DEFINE in == HandoffOf(s, NoTask, "blocked")
<1>1. CASE UNCHANGED vars /\ Goto(s, "dropped")
  BY <1>1, SilentSteps
<1>2. CASE AppendPeerGoalEvent(in) /\ Goto(s, "release")
  <2>1. in \in Inputs /\ in.type = "handoff" /\ in.taskId = NoTask
    BY DispatchEvents DEF HandoffOf, EventOf
  <2>2. PICK e \in Event : /\ events' = Append(events, e) /\ now' = now /\ e.at = now
                           /\ e.type = "handoff" /\ e.taskId = NoTask
    BY <1>2, <2>1, AppendAsIsAdds
  <2>3. LogStories' /\ \A d \in Dispatches : Keeps(d)
    BY <2>2, HarmlessKeeps, SendEvents DEF Harmless, Stories, LogStories
  <2>4. send[s].pc = "failing" /\ send'[s].pc = "release"
    BY <1>2 DEF RecordPeerSendGoalFailure, At, Goto, SendTypeOK
  <2>5. TasksOf(s)' = {}
    BY <2>3, <2>4 DEF Keeps, Stories, Story
  <2>6. Story(s)'
    BY <2>4, <2>5 DEF Story, Ended
  <2>7. \E new : send' = [send EXCEPT ![s] = new]
    BY <1>2 DEF Goto
  <2>8. QED
    BY <2>3, <2>6, <2>7, OnlyOneActs DEF Stories, LogStories
<1>3. QED
  BY <1>1, <1>2 DEF RecordPeerSendGoalFailure, Try

(* The handoff names the message of its task and is not older: it ends it. *)
LEMMA HandoffStep ==
  ASSUME TypeOK, SendTypeOK, Stories, NEW s \in Dispatches, RecordHandoff(s)
  PROVE  Stories'
<1> PICK result \in {"blocked", "done"} : Try(s, HandoffOf(s, s, result), "release", "dropped")
  BY DEF RecordHandoff
<1>1. CASE UNCHANGED vars /\ Goto(s, "dropped")
  BY <1>1, SilentSteps
<1>2. CASE AppendPeerGoalEvent(HandoffOf(s, s, result)) /\ Goto(s, "release")
  <2>1. /\ HandoffOf(s, s, result) \in Inputs
        /\ HandoffOf(s, s, result).type = "handoff" /\ HandoffOf(s, s, result).taskId = s
    BY DispatchEvents DEF HandoffOf, EventOf
  <2>2. PICK e \in Event : /\ events' = Append(events, e) /\ now' = now /\ e.at = now
                           /\ e.type = "handoff" /\ e.taskId = s
    BY <1>2, <2>1, AppendAsIsAdds
  <2>3. send[s].pc = "handoff" /\ send'[s].pc = "release"
    BY <1>2 DEF RecordHandoff, At, Goto, SendTypeOK
  <2>4. TasksOf(s) # {}
    BY <2>3 DEF Stories, Story
  <2>5. LogStories' /\ \A d \in Dispatches : Keeps(d)
    BY <2>2, <2>4, HarmlessKeeps DEF Harmless, Stories, LogStories
  <2>6. Ended(s)'
    <3>1. /\ Len(events) + 1 \in Of("handoff")' /\ events'[Len(events) + 1] = e
          /\ \A i \in DOMAIN events : events'[i] = events[i]
      BY <2>2, LogGrows DEF EventTypes
    <3>2. \A t \in TasksOf(s) : events'[t].at <= now
      BY <3>1 DEF Stories, StampsArePast, TasksOf, Of
    <3>3. TasksOf(s)' = TasksOf(s)
      BY <2>5 DEF Keeps
    <3>4. \A t \in TasksOf(s) : \E h \in Of("handoff")' :
            events'[h].taskId = s /\ events'[h].at >= events'[t].at
      BY <2>2, <3>1, <3>2
    <3>5. QED
      BY <3>3, <3>4 DEF Ended
  <2>7. Story(s)'
    BY <2>3, <2>6 DEF Story
  <2>8. \E new : send' = [send EXCEPT ![s] = new]
    BY <1>2 DEF Goto
  <2>9. QED
    BY <2>5, <2>7, <2>8, OnlyOneActs DEF Stories, LogStories
<1>3. QED
  BY <1>1, <1>2 DEF Try

(* A claim counts as over only once its release is in the log. *)
LEMMA ReleaseStep ==
  ASSUME TypeOK, SendTypeOK, Stories, NEW s \in Dispatches, ReleaseClaim(s)
  PROVE  Stories'
<1> DEFINE next == IF send[s].answer = "incomplete" THEN "objection" ELSE "done"
<1>1. CASE UNCHANGED vars /\ Goto(s, "dropped")
  BY <1>1, SilentSteps
<1>2. CASE AppendPeerGoalEvent(ReleaseOf(s, send[s].claim)) /\ Goto(s, next)
  <2>1. send[s].claim \in Of("claim")
    BY DEF ReleaseClaim, At, SendTypeOK
  <2>2. /\ ReleaseOf(s, NoEvent).type = "release" /\ ReleaseOf(s, NoEvent) \in Inputs
        /\ send[s].claim \in Targets(ReleaseOf(s, NoEvent))
    BY <2>1, DispatchEvents DEF ReleaseOf, EventOf, Targets
  <2>3. PICK e \in Event : /\ events' = Append(events, e) /\ now' = now /\ e.at = now
                           /\ e.type = "release" /\ e.ref = send[s].claim
    BY <1>2, <2>1, <2>2, DispatchEvents, AppendAdds
  <2>4. LogStories' /\ \A d \in Dispatches : Keeps(d)
    BY <2>3, HarmlessKeeps DEF Harmless, Stories, LogStories
  <2>5. /\ send[s].pc = "release" /\ send'[s].pc = next
        /\ send'[s].claim = send[s].claim /\ send'[s].answer = send[s].answer
    BY <1>2 DEF ReleaseClaim, At, Goto, SendTypeOK
  <2>6. Ended(s)'
    BY <2>4, <2>5 DEF Stories, Story, Keeps
  <2>7. Released(send[s].claim)'
    <3>1. Len(events) + 1 \in Of("release")' /\ events'[Len(events) + 1] = e
      BY <2>3, LogGrows DEF EventTypes
    <3>2. \E r \in Of("release")' : events'[r].ref = send[s].claim
      BY <2>3, <3>1
    <3>3. \E r \in Of("release")' : events'[r].ref = send'[s].claim
      BY <2>5, <3>2
    <3>4. QED
      BY <3>3 DEF Released
  <2>8. Story(s)'
    BY <2>5, <2>6, <2>7 DEF Story
  <2>9. \E new : send' = [send EXCEPT ![s] = new]
    BY <1>2 DEF Goto
  <2>10. QED
    BY <2>4, <2>8, <2>9, OnlyOneActs DEF Stories, LogStories
<1>3. QED
  BY <1>1, <1>2 DEF ReleaseClaim, Try

(* An incomplete answer is not done before the objection is in the log. *)
LEMMA ObjectionStep ==
  ASSUME TypeOK, SendTypeOK, Stories, NEW s \in Dispatches, ObjectToHandoff(s)
  PROVE  Stories'
<1>1. CASE UNCHANGED vars /\ Goto(s, "dropped")
  BY <1>1, SilentSteps
<1>2. CASE AppendPeerGoalEvent(ObjectionOf(s)) /\ Goto(s, "done")
  <2>1. ObjectionOf(s) \in Inputs /\ ObjectionOf(s).type = "objection"
    BY DispatchEvents DEF ObjectionOf, EventOf
  <2>2. PICK e \in Event : /\ events' = Append(events, e) /\ now' = now /\ e.at = now
                           /\ e.type = "objection"
    BY <1>2, <2>1, AppendAsIsAdds
  <2>3. LogStories' /\ \A d \in Dispatches : Keeps(d)
    BY <2>2, HarmlessKeeps DEF Harmless, Stories, LogStories
  <2>4. send[s].pc = "objection" /\ send'[s].pc = "done" /\ send'[s].claim = send[s].claim
    BY <1>2 DEF ObjectToHandoff, At, Goto, SendTypeOK
  <2>5. Of("objection")' # {}
    BY <2>2, LogGrows DEF EventTypes
  <2>6. Ended(s)' /\ Released(send[s].claim)'
    BY <2>3, <2>4 DEF Stories, Story, Keeps, Released
  <2>7. Story(s)'
    BY <2>4, <2>5, <2>6 DEF Story, Released
  <2>8. \E new : send' = [send EXCEPT ![s] = new]
    BY <1>2 DEF Goto
  <2>9. QED
    BY <2>3, <2>7, <2>8, OnlyOneActs DEF Stories, LogStories
<1>3. QED
  BY <1>1, <1>2 DEF ObjectToHandoff, Try

(* Heartbeats, progress and what other peers do belong to no story. *)
LEMMA OtherSteps ==
  ASSUME TypeOK, SendTypeOK, Stories, UNCHANGED send, now' = now,
         events' = events \/ \E e \in Event : events' = Append(events, e) /\ Harmless(e)
  PROVE  Stories'
<1>1. LogStories' /\ \A d \in Dispatches : Keeps(d)
  BY HarmlessKeeps DEF Stories, LogStories
<1>2. \A d \in Dispatches : Story(d)'
  BY <1>1, BystanderKeeps DEF Stories
<1>3. QED
  BY <1>1, <1>2 DEF Stories, LogStories

(* The clock does not change what happened. *)
LEMMA ClockStep ==
  ASSUME TypeOK, Stories, Clock PROVE Stories'
<1>1. events' = events /\ send' = send /\ now \in Nat /\ now' = now + 1
  BY DEF Clock, Tick, TypeOK
<1>2. StampsArePast'
  <2>1. \A i \in DOMAIN events : events[i] \in Event
    BY DEF TypeOK
  <2>2. \A i \in DOMAIN events : events[i].at \in Nat
    BY <2>1 DEF Event
  <2>3. QED
    BY <1>1, <2>2 DEF Stories, StampsArePast
<1>3. TasksNameClaims' /\ HandoffFollowsTask'
  BY <1>1 DEF Stories, TasksNameClaims, HandoffFollowsTask, Of
<1>4. \A d \in Dispatches : Keeps(d)
  BY <1>1, StoryKeeps
<1>5. \A d \in Dispatches : Story(d)'
  BY <1>1, <1>4, BystanderKeeps DEF Stories
<1>6. QED
  BY <1>2, <1>3, <1>5 DEF Stories

-----------------------------------------------------------------------------
(* No step of anybody breaks a story. *)
LEMMA StoriesStep ==
  ASSUME TypeOK, SendTypeOK, Stories, [SendNext]_sendVars
  PROVE  Stories'
<1>1. ASSUME NEW s \in Dispatches, Step(s) PROVE Stories'
  BY <1>1, SilentSteps, RefusalStep, DispatchStep, FailureStep, HandoffStep, ReleaseStep, ObjectionStep
     DEF Step, SendMessage, Answer
<1>2. ASSUME NEW s \in Dispatches, BeginPeerGoalTask(s) \/ Stop(s) PROVE Stories'
  BY <1>2, BeginStep, SilentSteps DEF Stop
<1>3. ASSUME NEW s \in Dispatches, ClaimHeartbeat(s) \/ RecordGoalProgress(s) PROVE Stories'
  <2>1. send[s].claim \in Of("claim")
    BY <1>3 DEF ClaimHeartbeat, RecordGoalProgress, At, Busy, SendTypeOK
  <2>2. /\ HeartbeatOf(s, NoEvent).type = "heartbeat" /\ ProgressOf(s, NoEvent).type = "heartbeat"
        /\ HeartbeatOf(s, NoEvent) \in Inputs /\ ProgressOf(s, NoEvent) \in Inputs
    BY DispatchEvents DEF HeartbeatOf, ProgressOf, EventOf
  <2>3. /\ send[s].claim \in Targets(HeartbeatOf(s, NoEvent))
        /\ send[s].claim \in Targets(ProgressOf(s, NoEvent))
    BY <2>1, <2>2 DEF Targets
  <2>4. \E e \in Event : events' = Append(events, e) /\ now' = now /\ e.at = now /\ e.type = "heartbeat"
    BY <1>3, <2>1, <2>2, <2>3, DispatchEvents, AppendAdds DEF ClaimHeartbeat, RecordGoalProgress
  <2>5. QED
    BY <1>3, <2>4, OtherSteps DEF Harmless, ClaimHeartbeat, RecordGoalProgress
<1>4. CASE OtherPeers
  <2>1. ASSUME NEW in \in OtherInputs, NEW ref \in Targets(in),
               AppendPeerGoalEvent([in EXCEPT !.ref = ref])
        PROVE  Stories'
    <3>1. in \in Inputs /\ in.taskId \notin Dispatches
      BY SendEvents
    <3>2. \E e \in Event : /\ events' = Append(events, e) /\ now' = now
                           /\ e.at = now /\ e.taskId = in.taskId
      BY <2>1, <3>1, AppendAdds
    <3>3. QED
      BY <1>4, <3>1, <3>2, OtherSteps DEF Harmless, OtherPeers
  <2>2. ASSUME NEW peer \in Peers, ClosePeerGoal(FALSE, peer, FALSE) PROVE Stories'
    <3>1. events' = events /\ now' = now /\ send' = send
      BY <1>4, <2>2 DEF ClosePeerGoal, OtherPeers
    <3>2. QED
      BY <3>1, OtherSteps
  <2>3. QED
    BY <1>4, <2>1, <2>2 DEF OtherPeers
<1>5. CASE UNCHANGED sendVars
  BY <1>5, OtherSteps DEF sendVars, vars
<1>6. QED
  BY <1>1, <1>2, <1>3, <1>4, <1>5, ClockStep DEF SendNext

(* The stories hold from the beginning, when nothing has happened. *)
LEMMA SendInitStories == SendInit => Stories
BY DEF SendInit, Init, Stories, StampsArePast, TasksNameClaims, HandoffFollowsTask, Story,
       TasksOf, Of

(* All stories hold at all times. *)
LEMMA StoriesHold == SendSpec => []Stories
<1>1. TypeOK /\ SendTypeOK /\ Stories /\ [SendNext]_sendVars => Stories'
  BY StoriesStep
<1>2. QED
  BY <1>1, SendInitStories, SendTypeCorrect, PTL DEF SendSpec

(* What the stories say of a completed dispatch and of the log. *)
LEMMA StoriesTell == Stories => HandoffFollowsTask /\ DoneLeavesNothing
<1> SUFFICES ASSUME Stories PROVE DoneLeavesNothing
  BY DEF Stories
<1> SUFFICES ASSUME NEW s \in Dispatches, send[s].pc = "done"
             PROVE  /\ Released(send[s].claim)
                    /\ \A t \in ActiveTasks : events[t].taskId # s
                    /\ send[s].answer = "incomplete" => Of("objection") # {}
  BY DEF DoneLeavesNothing, At
<1>1. Story(s)
  BY DEF Stories
<1>2. ASSUME NEW t \in ActiveTasks, events[t].taskId = s PROVE FALSE
  <2>1. t \in TasksOf(s) /\ Handoffs(t) = {}
    BY <1>2 DEF ActiveTasks, TasksOf
  <2>2. PICK h \in Of("handoff") : events[h].taskId = s /\ events[h].at >= events[t].at
    BY <1>1, <2>1 DEF Story, Ended
  <2>3. MatchesHandoff(t, h)
    BY <1>2, <2>2, SendEvents DEF MatchesHandoff
  <2>4. QED
    BY <2>1, <2>3 DEF Handoffs
<1>3. QED
  BY <1>1, <1>2 DEF Story

(* A handoff of a dispatched message is never in the log before its task. *)
THEOREM HandoffsFollowTasks == SendSpec => []HandoffFollowsTask
BY StoriesTell, StoriesHold, PTL

(* A completed dispatch left no claim, no running task, no silent failure. *)
THEOREM DoneLeavesNothingHolds == SendSpec => []DoneLeavesNothing
BY StoriesTell, StoriesHold, PTL

-----------------------------------------------------------------------------
(***************************************************************************)
(* A dispatch that waits for its answer.  Another one on its key is        *)
(* refused because of its task, even if its claim went stale: the task     *)
(* bears the key and runs, and no handoff is recorded with its message     *)
(* before the answer is there.                                             *)
(***************************************************************************)
Answered == {"release", "objection", "done", "dropped", "stopped"}

Tracking(s) ==
  /\ \A t \in TasksOf(s) : /\ events[t].workKey = Link[s].workKey
                           /\ events[t].ref = send[s].claim
                           /\ events[t].status = "running"
  /\ send[s].pc \notin Answered => \A h \in Of("handoff") : events[h].taskId # s

AllTracked == \A s \in Dispatches : Tracking(s)

(* An event that tells of a dispatch is one of its own. *)
Tells(e) ==
  /\ e.type = "task" /\ e.taskId \in Dispatches =>
       /\ e.workKey = Link[e.taskId].workKey
       /\ e.ref = send[e.taskId].claim /\ send[e.taskId].pc # "idle"
       /\ e.status = "running"
  /\ e.type = "handoff" /\ e.taskId \in Dispatches => send'[e.taskId].pc \in Answered

LEMMA EventsTell ==
  ASSUME TypeOK, SendTypeOK, [SendNext]_sendVars
  PROVE  events' = events \/ \E e \in Event : events' = Append(events, e) /\ Tells(e)
<1>1. ASSUME NEW s \in Dispatches, BeginPeerGoalTask(s), events' # events
      PROVE  \E e \in Event : events' = Append(events, e) /\ Tells(e)
  <2> DEFINE e == NormalizeEvent(ClaimOf(s))
  <2>1. events' = Append(events, e)
    BY <1>1 DEF BeginPeerGoalTask, vars
  <2>2. ClaimOf(s) \in Event /\ ClaimOf(s).type = "claim"
    BY DispatchEvents, BoardConstants DEF ClaimOf, EventOf
  <2>3. e \in Event /\ e.type = "claim"
    BY <2>2, StampedEvent
  <2>4. QED
    BY <2>1, <2>3 DEF Tells
<1>2. ASSUME NEW s \in Dispatches, Step(s), events' # events
      PROVE  \E e \in Event : events' = Append(events, e) /\ Tells(e)
  <2>1. ASSUME NEW in \in Inputs, AppendPeerGoalEvent(in),
               in.type = "objection" \/ in.taskId = NoTask
        PROVE  \E e \in Event : events' = Append(events, e) /\ Tells(e)
    BY <2>1, AppendAsIsAdds, SendEvents DEF Tells
  <2>2. CASE RecordRefusal(s)
    <3>1. AppendPeerGoalEvent(RefusalOf(s)) /\ RefusalOf(s).taskId = NoTask
      BY <1>2, <2>2 DEF RecordRefusal, Try, vars, RefusalOf, EventOf
    <3>2. QED
      BY <2>1, <3>1, DispatchEvents
  <2>3. CASE RecordPeerSendGoalFailure(s)
    <3> DEFINE in == HandoffOf(s, NoTask, "blocked")
    <3>1. AppendPeerGoalEvent(in) /\ in.taskId = NoTask
      BY <1>2, <2>3 DEF RecordPeerSendGoalFailure, Try, vars, HandoffOf, EventOf
    <3>2. QED
      BY <2>1, <3>1, DispatchEvents
  <2>4. CASE ObjectToHandoff(s)
    <3>1. AppendPeerGoalEvent(ObjectionOf(s)) /\ ObjectionOf(s).type = "objection"
      BY <1>2, <2>4 DEF ObjectToHandoff, Try, vars, ObjectionOf, EventOf
    <3>2. QED
      BY <2>1, <3>1, DispatchEvents
  <2>5. CASE RecordHandoff(s)
    <3>1. PICK result \in {"blocked", "done"} :
            AppendPeerGoalEvent(HandoffOf(s, s, result)) /\ Goto(s, "release")
      BY <1>2, <2>5 DEF RecordHandoff, Try, vars
    <3>2. /\ HandoffOf(s, s, result) \in Inputs
          /\ HandoffOf(s, s, result).type = "handoff" /\ HandoffOf(s, s, result).taskId = s
      BY DispatchEvents DEF HandoffOf, EventOf
    <3>3. send'[s].pc = "release"
      BY <3>1 DEF Goto, SendTypeOK
    <3>4. PICK e \in Event : events' = Append(events, e) /\ e.type = "handoff" /\ e.taskId = s
      BY <3>1, <3>2, AppendAsIsAdds
    <3>5. QED
      BY <3>3, <3>4 DEF Tells, Answered
  <2>6. CASE RecordPeerGoalTaskDispatch(s)
    <3>1. AppendPeerGoalEvent(TaskOf(s, send[s].claim)) /\ send[s].pc = "sent"
      BY <1>2, <2>6 DEF RecordPeerGoalTaskDispatch, Try, At, vars
    <3>2. send[s].claim \in Of("claim")
      BY <3>1 DEF SendTypeOK
    <3> DEFINE in == TaskOf(s, NoEvent)
    <3>3. /\ in.type = "task" /\ in.taskId = s /\ in.status = "running"
          /\ in.workKey = Link[s].workKey /\ in \in Inputs
      BY DispatchEvents DEF TaskOf, EventOf
    <3>4. send[s].claim \in Targets(in) /\ TaskOf(s, send[s].claim) = [in EXCEPT !.ref = send[s].claim]
      BY <3>2, <3>3, DispatchEvents DEF Targets
    <3> HIDE DEF in
    <3>5. PICK e \in Event : /\ events' = Append(events, e)
                             /\ e.type = "task" /\ e.taskId = s /\ e.ref = send[s].claim
                             /\ e.workKey = Link[s].workKey /\ e.status = "running"
      BY <3>1, <3>3, <3>4, AppendAdds
    <3>6. QED
      BY <3>1, <3>5 DEF Tells
  <2>7. CASE ReleaseClaim(s)
    <3>1. AppendPeerGoalEvent(ReleaseOf(s, send[s].claim)) /\ send[s].claim \in Of("claim")
      BY <1>2, <2>7 DEF ReleaseClaim, Try, At, vars, SendTypeOK
    <3>2. /\ ReleaseOf(s, NoEvent).type = "release" /\ ReleaseOf(s, NoEvent) \in Inputs
          /\ send[s].claim \in Targets(ReleaseOf(s, NoEvent))
      BY <3>1, DispatchEvents DEF ReleaseOf, EventOf, Targets
    <3>3. \E e \in Event : events' = Append(events, e) /\ e.type = "release"
      BY <3>1, <3>2, DispatchEvents, AppendAdds
    <3>4. QED
      BY <3>3 DEF Tells
  <2>8. CASE SendMessage(s) \/ Answer(s)
    BY <1>2, <2>8 DEF SendMessage, Answer, vars
  <2>9. QED
    BY <1>2, <2>2, <2>3, <2>4, <2>5, <2>6, <2>7, <2>8 DEF Step
<1>3. ASSUME NEW s \in Dispatches, ClaimHeartbeat(s) \/ RecordGoalProgress(s)
      PROVE  \E e \in Event : events' = Append(events, e) /\ Tells(e)
  <2>1. send[s].claim \in Of("claim")
    BY <1>3 DEF ClaimHeartbeat, RecordGoalProgress, At, Busy, SendTypeOK
  <2>2. /\ HeartbeatOf(s, NoEvent).type = "heartbeat" /\ ProgressOf(s, NoEvent).type = "heartbeat"
        /\ HeartbeatOf(s, NoEvent) \in Inputs /\ ProgressOf(s, NoEvent) \in Inputs
    BY DispatchEvents DEF HeartbeatOf, ProgressOf, EventOf
  <2>3. /\ send[s].claim \in Targets(HeartbeatOf(s, NoEvent))
        /\ send[s].claim \in Targets(ProgressOf(s, NoEvent))
    BY <2>1, <2>2 DEF Targets
  <2>4. \E e \in Event : events' = Append(events, e) /\ e.type = "heartbeat"
    BY <1>3, <2>1, <2>2, <2>3, DispatchEvents, AppendAdds DEF ClaimHeartbeat, RecordGoalProgress
  <2>5. QED
    BY <2>4 DEF Tells
<1>4. ASSUME OtherPeers, events' # events
      PROVE  \E e \in Event : events' = Append(events, e) /\ Tells(e)
  <2>1. PICK in \in OtherInputs : \E ref \in Targets(in) : AppendPeerGoalEvent([in EXCEPT !.ref = ref])
    BY <1>4 DEF OtherPeers, ClosePeerGoal
  <2>2. in \in Inputs /\ in.taskId \notin Dispatches
    BY SendEvents
  <2>3. \E e \in Event : events' = Append(events, e) /\ e.taskId = in.taskId
    BY <2>1, <2>2, AppendAdds
  <2>4. QED
    BY <2>2, <2>3 DEF Tells
<1>5. QED
  BY <1>1, <1>2, <1>3, <1>4 DEF SendNext, Stop, Clock, Tick, sendVars, vars

(* Where a dispatch goes, and that only beginning claims.                   *)
LEMMA DispatchMoves ==
  ASSUME TypeOK, SendTypeOK, [SendNext]_sendVars, NEW d \in Dispatches
  PROVE  /\ send'[d].claim = send[d].claim \/ send[d].pc = "idle"
         /\ send[d].pc \in Answered => send'[d].pc \in Answered
         /\ send[d].pc # "idle" => send'[d].pc # "idle"
         /\ send[d].pc = "idle" /\ send'[d].pc = "claimed" => BeginPeerGoalTask(d)
<1> USE DEF Answered, SendTypeOK
<1>1. ASSUME NEW s \in Dispatches, Step(s)
      PROVE  \E pc \in Busy \cup Answered \cup {"refused", "untracked"} :
               /\ \/ Goto(s, pc)
                  \/ \E answer \in Results : send' = [send EXCEPT ![s].pc = pc, ![s].answer = answer]
               /\ pc \notin {"claimed", "idle"} /\ send[s].pc # "idle"
               /\ send[s].pc \in Answered => pc \in Answered
  BY <1>1 DEF Step, RecordRefusal, SendMessage, RecordPeerGoalTaskDispatch, RecordPeerSendGoalFailure,
              Answer, RecordHandoff, ReleaseClaim, ObjectToHandoff, Try, Unrecorded, At, Busy
<1>2. CASE \E s \in Dispatches : Step(s)
  <2>1. PICK s \in Dispatches, pc \in Busy \cup Answered \cup {"refused", "untracked"} :
          /\ \/ Goto(s, pc)
             \/ \E answer \in Results : send' = [send EXCEPT ![s].pc = pc, ![s].answer = answer]
          /\ pc \notin {"claimed", "idle"} /\ send[s].pc # "idle"
          /\ send[s].pc \in Answered => pc \in Answered
    BY <1>1, <1>2
  <2>2. \/ d # s /\ send'[d] = send[d]
        \/ d = s /\ send'[d].pc = pc /\ send'[d].claim = send[d].claim
    BY <2>1 DEF Goto
  <2>3. QED
    BY <2>1, <2>2
<1>3. CASE \E s \in Dispatches : Stop(s)
  BY <1>3 DEF Stop, Goto
<1>4. ASSUME NEW s \in Dispatches, BeginPeerGoalTask(s) PROVE send[s].pc = "idle" /\ (d # s => send'[d] = send[d])
  BY <1>4 DEF BeginPeerGoalTask, Goto, At
<1>5. CASE UNCHANGED send
  BY <1>5
<1>6. QED
  BY <1>2, <1>3, <1>4, <1>5 DEF SendNext, ClaimHeartbeat, RecordGoalProgress, OtherPeers, Clock, sendVars

LEMMA TrackingStep ==
  ASSUME TypeOK, SendTypeOK, Stories, AllTracked, [SendNext]_sendVars
  PROVE  AllTracked'
<1> SUFFICES ASSUME NEW s \in Dispatches PROVE Tracking(s)'
  BY DEF AllTracked
<1> USE DEF AllTracked
<1>1. TasksOf(s) = {} \/ send'[s].claim = send[s].claim
  BY DispatchMoves DEF Stories, Story
<1>2. CASE events' = events
  BY <1>1, <1>2, DispatchMoves DEF Tracking, TasksOf, Of
<1>3. ASSUME NEW e \in Event, events' = Append(events, e), Tells(e) PROVE Tracking(s)'
  <2> DEFINE n == Len(events) + 1
  <2>1. /\ \A i \in DOMAIN events : events'[i] = events[i]
        /\ events'[n] = e
        /\ Of("task")' = Of("task") \cup (IF e.type = "task" THEN {n} ELSE {})
        /\ Of("handoff")' = Of("handoff") \cup (IF e.type = "handoff" THEN {n} ELSE {})
        /\ Of("task") \subseteq DOMAIN events /\ Of("handoff") \subseteq DOMAIN events
    BY <1>3, LogGrows DEF EventTypes, Of
  <2> HIDE DEF n
  <2>2. ASSUME NEW t \in TasksOf(s)'
        PROVE  /\ events'[t].workKey = Link[s].workKey
               /\ events'[t].ref = send'[s].claim
               /\ events'[t].status = "running"
    <3>1. CASE t \in Of("task")
      <4>1. t \in TasksOf(s) /\ events'[t] = events[t]
        BY <2>1, <2>2, <3>1 DEF TasksOf
      <4>2. QED
        BY <1>1, <4>1 DEF Tracking
    <3>2. CASE t = n /\ e.type = "task"
      <4>1. e.taskId = s
        BY <2>1, <2>2, <3>2 DEF TasksOf
      <4>2. send'[s].claim = send[s].claim
        BY <1>3, <3>2, <4>1, DispatchMoves DEF Tells
      <4>3. QED
        BY <1>3, <2>1, <3>2, <4>1, <4>2 DEF Tells
    <3>3. QED
      BY <2>1, <2>2, <3>1, <3>2 DEF TasksOf
  <2>3. ASSUME send'[s].pc \notin Answered, NEW h \in Of("handoff")' PROVE events'[h].taskId # s
    <3>1. send[s].pc \notin Answered
      BY <2>3, DispatchMoves
    <3>2. CASE h \in Of("handoff")
      BY <2>1, <3>1, <3>2 DEF Tracking
    <3>3. CASE h = n /\ e.type = "handoff"
      BY <1>3, <2>1, <2>3, <3>3 DEF Tells
    <3>4. QED
      BY <2>1, <2>3, <3>2, <3>3
  <2>4. QED
    BY <2>2, <2>3 DEF Tracking
<1>4. QED
  BY <1>2, <1>3, EventsTell

LEMMA TrackingHolds == SendSpec => []AllTracked
<1>1. SendInit => AllTracked
  BY DEF SendInit, Init, AllTracked, Tracking, TasksOf, Of
<1>2. TypeOK /\ SendTypeOK /\ Stories /\ AllTracked /\ [SendNext]_sendVars => AllTracked'
  BY TrackingStep
<1>3. QED
  BY <1>1, <1>2, StoriesHold, SendTypeCorrect, PTL DEF SendSpec

(* What a claim on the key of a dispatch that waits for its answer says.    *)
LEMMA NewClaimMeansOver ==
  ASSUME TypeOK, SendTypeOK, Stories, AllTracked, [SendNext]_sendVars,
         NEW s \in Dispatches, NEW t \in Dispatches,
         Link[s].workKey = Link[t].workKey, Link[s].workKey # NoKey,
         Link[s].policy # "allow-parallel",
         send[s].pc = "idle", send'[s].pc = "claimed", send[t].pc = "tracked"
  PROVE  Released(send[t].claim) \/ HandedOff(t)
<1>1. BeginPeerGoalTask(s)
  BY DispatchMoves
<1>2. ValidateClaim(NormalizeEvent(ClaimOf(s)))
  BY <1>1 DEF BeginPeerGoalTask, Goto, SendTypeOK
<1>3. /\ NormalizeEvent(ClaimOf(s)).workKey = Link[s].workKey
      /\ NormalizeEvent(ClaimOf(s)).duplicatePolicy = Link[s].policy
  BY DEF NormalizeEvent, ClaimOf, EventOf
<1>4. \A i \in ActiveTasks : events[i].workKey # Link[t].workKey
  BY <1>2, <1>3 DEF ValidateClaim
<1>5. PICK k \in TasksOf(t) : TRUE
  BY DEF Stories, Story
<1>6. /\ k \in Of("task") /\ events[k].taskId = t /\ events[k].status = "running"
      /\ events[k].workKey = Link[t].workKey /\ events[k].ref = send[t].claim
  BY DEF TasksOf, AllTracked, Tracking
<1>7. Handoffs(k) # {} \/ HasCompletionEvidence(k)
  BY <1>4, <1>6 DEF ActiveTasks, Running
<1>8. CASE HasCompletionEvidence(k)
  BY <1>6, <1>8 DEF HasCompletionEvidence, Released
<1>9. CASE Handoffs(k) # {}
  <2>1. PICK h \in Of("handoff") : MatchesHandoff(k, h)
    BY <1>9 DEF Handoffs
  <2>2. events[h].taskId # t /\ t # NoTask
    BY SendEvents DEF AllTracked, Tracking, Answered
  <2>3. events[h].ref = k
    BY <1>6, <2>1, <2>2 DEF MatchesHandoff
  <2>4. QED
    BY <1>6, <2>3 DEF HandedOff
<1>10. QED
  BY <1>7, <1>8, <1>9

(* Nobody claims the key of a dispatch that waits for its answer, unless he *)
(* wants to work in parallel or somebody ended that work.                   *)
THEOREM NoDuplicateDispatches == SendSpec => NoDuplicateDispatch
<1> DEFINE Duplicates ==
       \A s, t \in Dispatches :
         /\ s # t /\ Link[s].workKey = Link[t].workKey /\ Link[s].workKey # NoKey
         /\ Link[s].policy # "allow-parallel"
         /\ send[s].pc = "idle" /\ send'[s].pc = "claimed" /\ send[t].pc = "tracked"
         => Released(send[t].claim) \/ HandedOff(t)
<1>1. TypeOK /\ SendTypeOK /\ Stories /\ AllTracked /\ [SendNext]_sendVars => [Duplicates]_sendVars
  BY NewClaimMeansOver
<1>2. SendSpec => [][Duplicates]_sendVars
  <2> HIDE DEF Duplicates
  <2>1. QED
    BY <1>1, SendTypeCorrect, StoriesHold, TrackingHolds, PTL DEF SendSpec
<1>3. QED
  BY <1>2 DEF NoDuplicateDispatch

-----------------------------------------------------------------------------
(***************************************************************************)
(* Sessions that end and start again (SendRecovery).  A reconciliation     *)
(* ends tasks and releases claims of dispatches it knows from the ledger   *)
(* alone; their stories survive it because the ledger knows a dispatch     *)
(* only after its claim, and because what is mirrored was seen to run on   *)
(* the board.                                                              *)
(***************************************************************************)
Notes == {<<>>} \cup [claimEventId : Nat]

TaskRecords == [ kind : {"task"}, id : Dispatches,
                 status : {"running", "done", "blocked", "disconnected"}, metadata : Notes ]

Lines == TaskRecords \cup {Torn, Garbage}

ReconStages == {"off", "list", "load", "marking", "marked", "mirroring", "releasing",
                "gaveUp", "on"}

Recons == [ pc : ReconStages, live : SUBSET Dispatches, tasks : SUBSET Dispatches, runs : {{}},
            claims : SUBSET Dispatches ]

RecoveryShape == ledger \in Seq(Lines) /\ recon \in [Sessions -> Recons]

(* The dispatch made its claim, and will not make another. *)
HasClaimed(s) == send[s].pc # "idle" /\ send[s].claim \in Of("claim")

LedgerKnowsClaims == \A s \in IdsOf("task") : HasClaimed(s)

Fits(r) ==
  /\ \A s \in r.tasks \cup r.claims : HasClaimed(s)
  /\ r.pc \in {"mirroring", "releasing"} => \A s \in r.tasks : TasksOf(s) # {}
  /\ r.pc = "releasing" => \A s \in r.live : HasClaimed(s)

MirrorsWhatRan == \A x \in Sessions : Fits(recon[x])

RecoveryInv == RecoveryShape /\ LedgerKnowsClaims /\ MirrorsWhatRan

LEMMA RecoveryBegins == RecoveryInit => RecoveryInv
<1> SUFFICES ASSUME RecoveryInit PROVE RecoveryInv
  OBVIOUS
<1>1. ledger = <<>> /\ recon = [x \in Sessions |-> NotRunning]
  BY DEF RecoveryInit, LedgerInit
<1>2. NotRunning \in Recons
  BY DEF NotRunning, Recons, ReconStages
<1>3. RecoveryShape /\ LedgerKnowsClaims
  BY <1>1, <1>2 DEF RecoveryShape, LedgerKnowsClaims, IdsOf
<1>4. MirrorsWhatRan
  BY <1>1 DEF MirrorsWhatRan, Fits, NotRunning
<1>5. QED
  BY <1>3, <1>4 DEF RecoveryInv

(* What a write leaves: lines of tasks known before, and the new line. *)
LEMMA LineWritten ==
  ASSUME ledger \in Seq(Lines), NEW line \in Lines, WriteLine(line)
  PROVE  /\ ledger' \in Seq(Lines)
         /\ IdsOf("task")' \subseteq IdsOf("task") \cup {i \in {line.id} : line.kind = "task"}
<1>1. /\ DOMAIN ledger = 1 .. Len(ledger) /\ Len(ledger) \in Nat
      /\ \A i \in 1 .. Len(ledger) : ledger[i] \in Lines
  OBVIOUS
<1> DEFINE n == Len(ledger)
<1>2. PICK new \in Lines : /\ new = line \/ new \in {Torn, Garbage}
                           /\ \/ EndsTorn /\ ledger' = [ledger EXCEPT ![n] = new]
                              \/ ~EndsTorn /\ ledger' = Append(ledger, new)
  BY DEF WriteLine, Lines
<1>3. EndsTorn => n \in 1 .. n
  BY <1>1 DEF EndsTorn
<1>4. /\ ledger' \in Seq(Lines)
      /\ \A i \in DOMAIN ledger' : ledger'[i] = new \/ (i \in DOMAIN ledger /\ ledger'[i] = ledger[i])
  BY <1>1, <1>2, <1>3
<1>5. Torn.kind # "task" /\ Garbage.kind # "task"
  BY DEF Torn, Garbage, ControlRecord
<1>6. IdsOf("task")' \subseteq IdsOf("task") \cup {i \in {line.id} : line.kind = "task"}
  BY <1>2, <1>4, <1>5 DEF IdsOf
<1>7. QED
  BY <1>4, <1>6

(* The ledger has no line of a hive run. *)
LEMMA OnlyTasksNoted ==
  ASSUME RecoveryInv
  PROVE  /\ IdsOf("hive") = {} /\ IdsOf("task") \subseteq Dispatches
         /\ ActiveLedgerTasks \subseteq IdsOf("task") /\ DisconnectedTasks \subseteq IdsOf("task")
         /\ WithClaim \subseteq IdsOf("task")
<1>1. \A i \in DOMAIN ledger : ledger[i] \in Lines
  BY DEF RecoveryInv, RecoveryShape
<1>2. Torn.kind \notin {"hive", "task"} /\ Garbage.kind \notin {"hive", "task"}
  BY DEF Torn, Garbage, ControlRecord
<1>3. \A line \in TaskRecords : line.kind = "task" /\ line.id \in Dispatches
  BY DEF TaskRecords
<1>4. QED
  BY <1>1, <1>2, <1>3 DEF Lines, IdsOf, ActiveLedgerTasks, DisconnectedTasks, WithClaim

(* What a reconciliation appends are events of the board that no story      *)
(* forbids.                                                                 *)
LEMMA MirrorAppends ==
  ASSUME TypeOK, RecoveryInv, NEW x \in Sessions, MirrorHandoff(x) \/ MirrorRelease(x)
  PROVE  /\ [Next]_vars /\ UNCHANGED send /\ now' = now
         /\ events' = events \/ \E e \in Event : events' = Append(events, e) /\ Harmless(e)
<1> USE DEF RecoveryInv
<1>1. recon[x] \in Recons
  BY DEF RecoveryShape
<1>2. CASE UNCHANGED vars
  BY <1>2 DEF vars, MirrorHandoff, MirrorRelease
<1>3. ASSUME NEW s \in recon[x].tasks, ReconAt(x, "mirroring"),
             AppendPeerGoalEvent(HandoffOf(s, s, "blocked"))
      PROVE  Next /\ now' = now /\ \E e \in Event : events' = Append(events, e) /\ Harmless(e)
  <2>1. s \in Dispatches /\ TasksOf(s) # {}
    BY <1>1, <1>3 DEF Recons, MirrorsWhatRan, Fits, ReconAt
  <2> DEFINE in == HandoffOf(s, s, "blocked")
  <2>2. /\ in \in Inputs /\ in.type = "handoff" /\ in.taskId = s /\ in.ref = NoEvent
        /\ NoEvent \in Targets(in)
    BY <2>1, DispatchEvents DEF HandoffOf, EventOf, Targets
  <2> HIDE DEF in
  <2>3. AppendPeerGoalEvent(in)
    BY <1>3 DEF in
  <2>4. Next
    BY <2>2, <2>3, AppendAsIsIsStep
  <2>5. PICK e \in Event : /\ events' = Append(events, e) /\ now' = now /\ e.at = now
                           /\ e.type = "handoff" /\ e.taskId = s
    BY <2>2, <2>3, AppendAsIsAdds
  <2>6. QED
    BY <2>1, <2>4, <2>5 DEF Harmless
<1>4. ASSUME NEW s \in recon[x].live, ReconAt(x, "releasing"),
             AppendPeerGoalEvent(ReleaseOf(s, send[s].claim))
      PROVE  Next /\ now' = now /\ \E e \in Event : events' = Append(events, e) /\ Harmless(e)
  <2>1. s \in Dispatches /\ send[s].claim \in Of("claim")
    BY <1>1, <1>4 DEF Recons, MirrorsWhatRan, Fits, ReconAt, HasClaimed
  <2> DEFINE in == ReleaseOf(s, NoEvent)
  <2>2. /\ in \in Inputs /\ in.type = "release" /\ send[s].claim \in Targets(in)
        /\ ReleaseOf(s, send[s].claim) = [in EXCEPT !.ref = send[s].claim]
    BY <2>1, DispatchEvents DEF ReleaseOf, EventOf, Targets
  <2> HIDE DEF in
  <2>3. AppendPeerGoalEvent([in EXCEPT !.ref = send[s].claim])
    BY <1>4, <2>2
  <2>4. Next
    BY <2>2, <2>3 DEF Next
  <2>5. PICK e \in Event : /\ events' = Append(events, e) /\ now' = now /\ e.at = now
                           /\ e.type = "release"
    BY <2>2, <2>3, AppendAdds
  <2>6. QED
    BY <2>4, <2>5 DEF Harmless
<1>5. UNCHANGED send
  BY DEF MirrorHandoff, MirrorRelease
<1>6. QED
  BY <1>2, <1>3, <1>4, <1>5 DEF MirrorHandoff, MirrorRelease, MirrorEnds

(* The steps that are not those of a reconciliation at the board or of the  *)
(* end of a session are, for dispatches and board, steps of PeerSend.       *)
LEMMA StepsOfSend ==
  ASSUME [RecoveryNext]_recoveryVars,
         \A x \in Sessions : ~MirrorHandoff(x) /\ ~MirrorRelease(x) /\ ~End(x)
  PROVE  [SendNext]_sendVars
<1>1. ASSUME NEW s \in Dispatches, Advance(s) PROVE [SendNext]_sendVars
  BY <1>1 DEF Advance, NoteDispatch, NoteCompletion, NoteTask, NotedStep, SendNext
<1>2. CASE Dispatching
  BY <1>1, <1>2 DEF Dispatching, SendNext
<1>3. ASSUME NEW x \in Sessions, Start(x) \/ Reconcile(x) \/ LoadBoard(x) PROVE UNCHANGED sendVars
  BY <1>3 DEF Start, Reconcile, LoadBoard, DispatchesUnmoved, sendVars
<1>4. QED
  BY <1>2, <1>3 DEF RecoveryNext, SessionStep, SendNext, recoveryVars

(* When a session ends, its dispatches stop where they are. *)
LEMMA EndStops ==
  ASSUME SendTypeOK, NEW x \in Sessions, End(x), NEW s \in Dispatches
  PROVE  /\ UNCHANGED vars
         /\ send'[s] \in [pc : Resting \cup Busy \cup {"unclaimed"}, claim : Nat, answer : Results]
         /\ \/ send'[s] = send[s]
            \/ /\ send[s].pc # "idle" /\ send'[s].pc = "stopped" /\ send'[s].claim = send[s].claim
<1>1. send'[s] = IF Owner[s] = x /\ send[s].pc \in Busy \cup {"unclaimed"}
                 THEN [send[s] EXCEPT !.pc = "stopped"] ELSE send[s]
  BY DEF End
<1>2. QED
  BY <1>1 DEF End, SendTypeOK, Busy, Resting

(* No step, of a dispatch, another peer or a session, breaks a story.       *)
LEMMA StoriesOutliveSessions ==
  ASSUME TypeOK, SendTypeOK, Stories, RecoveryInv, [RecoveryNext]_recoveryVars
  PROVE  [Next]_vars /\ TypeOK' /\ SendTypeOK' /\ Stories'
<1>1. ASSUME NEW x \in Sessions, MirrorHandoff(x) \/ MirrorRelease(x)
      PROVE  [Next]_vars /\ TypeOK' /\ SendTypeOK' /\ Stories'
  <2>1. [Next]_vars /\ UNCHANGED send
    BY <1>1, MirrorAppends
  <2>2. TypeOK' /\ Of("claim") \subseteq Of("claim")'
    BY <2>1, TypeStep, LogKeeps DEF EventTypes
  <2>3. SendTypeOK'
    BY <2>1, <2>2 DEF SendTypeOK
  <2>4. Stories'
    BY <1>1, MirrorAppends, OtherSteps
  <2>5. QED
    BY <2>1, <2>2, <2>3, <2>4
<1>2. ASSUME NEW x \in Sessions, End(x)
      PROVE  [Next]_vars /\ TypeOK' /\ SendTypeOK' /\ Stories'
  <2>1. UNCHANGED vars /\ DOMAIN send' = Dispatches /\ send' = [s \in Dispatches |-> send'[s]]
    BY <1>2 DEF End
  <2>2. TypeOK' /\ Of("claim")' = Of("claim")
    BY <2>1 DEF TypeOK, Of, vars
  <2>3. SendTypeOK'
    BY <1>2, <2>1, <2>2, EndStops DEF SendTypeOK, Resting
  <2>4. LogStories' /\ \A d \in Dispatches : Keeps(d)
    BY <2>1, HarmlessKeeps DEF vars, Stories, LogStories
  <2>5. ASSUME NEW d \in Dispatches PROVE Story(d)'
    <3>1. CASE send'[d] = send[d]
      BY <2>4, <3>1, BystanderKeeps DEF Stories
    <3>2. CASE send'[d].pc = "stopped"
      BY <3>2 DEF Story
    <3>3. QED
      BY <1>2, <3>1, <3>2, EndStops
  <2>6. QED
    BY <2>1, <2>2, <2>3, <2>4, <2>5 DEF Stories, LogStories
<1>3. ASSUME [SendNext]_sendVars PROVE [Next]_vars /\ TypeOK' /\ SendTypeOK' /\ Stories'
  BY <1>3, StepOfBoard, TypeStep, SendTypeStep, StoriesStep
<1>4. QED
  BY <1>1, <1>2, <1>3, StepsOfSend

(* What a dispatch has claimed and recorded stays so.                       *)
LEMMA ClaimsStay ==
  ASSUME TypeOK, SendTypeOK, Stories, RecoveryInv, [RecoveryNext]_recoveryVars, NEW s \in Dispatches
  PROVE  /\ HasClaimed(s) => HasClaimed(s)'
         /\ TasksOf(s) # {} => TasksOf(s)' # {}
<1>1. /\ Of("claim") \subseteq Of("claim")' /\ Of("task") \subseteq Of("task")'
      /\ Of("task") \subseteq DOMAIN events
      /\ \A i \in DOMAIN events : events'[i] = events[i]
  BY StoriesOutliveSessions, LogKeeps DEF EventTypes
<1>2. ASSUME HasClaimed(s) PROVE HasClaimed(s)'
  <2>1. CASE [SendNext]_sendVars
    BY <1>1, <1>2, <2>1, DispatchMoves DEF HasClaimed
  <2>2. ASSUME NEW x \in Sessions, End(x) PROVE HasClaimed(s)'
    BY <1>1, <1>2, <2>2, EndStops DEF HasClaimed
  <2>3. ASSUME NEW x \in Sessions, MirrorHandoff(x) \/ MirrorRelease(x) PROVE HasClaimed(s)'
    BY <1>1, <1>2, <2>3, MirrorAppends DEF HasClaimed
  <2>4. QED
    BY <2>1, <2>2, <2>3, StepsOfSend
<1>3. \A t \in TasksOf(s) : t \in TasksOf(s)'
  BY <1>1 DEF TasksOf
<1>4. QED
  BY <1>2, <1>3

(* So a step keeps what sessions and ledger know, if what it adds to it is  *)
(* true beforehand.                                                         *)
LEMMA KnowledgeStays ==
  ASSUME TypeOK, SendTypeOK, Stories, RecoveryInv, [RecoveryNext]_recoveryVars,
         ledger' \in Seq(Lines), \A s \in IdsOf("task")' : s \in Dispatches /\ HasClaimed(s),
         \/ UNCHANGED recon
         \/ \E x \in Sessions : \E r \in Recons : ReconGo(x, r) /\ Fits(r)
  PROVE  RecoveryInv'
<1> USE DEF RecoveryInv, RecoveryShape
<1>1. \A s \in Dispatches : /\ HasClaimed(s) => HasClaimed(s)'
                            /\ TasksOf(s) # {} => TasksOf(s)' # {}
  BY ClaimsStay
<1>2. ASSUME NEW r \in Recons, Fits(r) PROVE Fits(r)'
  BY <1>1, <1>2 DEF Fits, Recons
<1>3. recon' \in [Sessions -> Recons]
  BY DEF ReconGo
<1>4. \A x \in Sessions : \E r \in Recons : recon'[x] = r /\ Fits(r)
  BY DEF ReconGo, MirrorsWhatRan
<1>5. MirrorsWhatRan'
  BY <1>2, <1>4 DEF MirrorsWhatRan, Fits
<1>6. LedgerKnowsClaims'
  BY <1>1 DEF LedgerKnowsClaims
<1>7. QED
  BY <1>3, <1>5, <1>6

(* What one session's start does to the ledger and to itself.               *)
Learns(x) ==
  /\ ledger' \in Seq(Lines) /\ \A s \in IdsOf("task")' : s \in Dispatches /\ HasClaimed(s)
  /\ \E r \in Recons : ReconGo(x, r) /\ Fits(r)

LEMMA SessionLearns ==
  ASSUME RecoveryInv, NEW x \in Sessions,
         \/ Start(x) \/ End(x) \/ Reconcile(x) \/ LoadBoard(x)
         \/ MirrorHandoff(x) \/ MirrorRelease(x)
  PROVE  Learns(x)
<1> USE DEF RecoveryInv
<1> DEFINE r == recon[x]
<1>1. /\ r \in Recons /\ Fits(r) /\ ledger \in Seq(Lines)
      /\ \A s \in IdsOf("task") : s \in Dispatches /\ HasClaimed(s)
  BY OnlyTasksNoted DEF RecoveryShape, MirrorsWhatRan, LedgerKnowsClaims
<1> HIDE DEF r
<1>2. ASSUME NEW new \in Recons, ReconGo(x, new), Fits(new), UNCHANGED ledger PROVE Learns(x)
  BY <1>1, <1>2 DEF Learns, IdsOf
<1>3. ASSUME NEW line \in Lines, line.kind = "task" => HasClaimed(line.id) /\ line.id \in Dispatches,
             WriteLine(line), NEW new \in Recons, ReconGo(x, new), Fits(new)
      PROVE  Learns(x)
  BY <1>1, <1>3, LineWritten DEF Learns
<1>4. NotRunning \in Recons /\ Fits(NotRunning)
  BY DEF NotRunning, Recons, ReconStages, Fits
<1>5. ASSUME NEW p \in ReconStages \ {"mirroring", "releasing"}
      PROVE  [r EXCEPT !.pc = p] \in Recons /\ Fits([r EXCEPT !.pc = p])
  BY <1>1 DEF Recons, Fits
<1>6. CASE Start(x)
  <2>1. [NotRunning EXCEPT !.pc = "list"] \in Recons /\ Fits([NotRunning EXCEPT !.pc = "list"])
    BY DEF NotRunning, Recons, ReconStages, Fits
  <2>2. QED
    BY <1>2, <1>6, <2>1 DEF Start, SessionStart
<1>7. CASE End(x)
  <2>1. Torn \in Lines /\ Torn.kind # "task"
    BY DEF Lines, Torn, ControlRecord
  <2>2. QED
    BY <1>2, <1>3, <1>4, <1>7, <2>1 DEF End
<1>8. Marked(x) \in Recons /\ Fits(Marked(x))
  <2>1. /\ DisconnectedTasks \subseteq Dispatches /\ WithClaim \subseteq Dispatches
        /\ \A s \in DisconnectedTasks \cup WithClaim : HasClaimed(s)
    BY <1>1, OnlyTasksNoted
  <2>2. QED
    BY <1>1, <2>1 DEF Marked, Recons, ReconStages, Fits, r
<1>9. CASE ListLive(x, LiveMessages(x))
  <2> DEFINE new == [r EXCEPT !.pc = "load", !.live = LiveMessages(x)]
  <2>1. new \in Recons /\ Fits(new)
    BY <1>1 DEF Recons, ReconStages, Fits, LiveMessages
  <2>2. QED
    BY <1>2, <1>9, <2>1 DEF ListLive, r
<1>10. CASE LoadLedger(x, {}, 0)
  <2> DEFINE tasks == ActiveLedgerTasks \ recon[x].live
             new   == [r EXCEPT !.pc = "marking", !.tasks = tasks, !.runs = {}]
  <2>1. ActiveHiveRuns(0) \ {} = {}
    BY OnlyTasksNoted DEF ActiveHiveRuns
  <2>2. tasks \subseteq Dispatches /\ \A s \in tasks : HasClaimed(s)
    BY <1>1, OnlyTasksNoted
  <2>3. new \in Recons /\ Fits(new)
    BY <1>1, <2>2 DEF Recons, ReconStages, Fits
  <2>4. /\ UNCHANGED ledger
        /\ ReconGo(x, [r EXCEPT !.pc = "gaveUp"]) \/ ReconGo(x, Marked(x)) \/ ReconGo(x, new)
    BY <1>10, <2>1 DEF LoadLedger, r
  <2> HIDE DEF new
  <2>5. QED
    BY <1>2, <1>5, <1>8, <2>3, <2>4 DEF ReconStages
<1>11. CASE MarkDisconnected(x)
  <2>1. PICK id \in r.tasks :
          \/ /\ AppendPeerControlRecord("task", id, "disconnected", <<>>)
             /\ ReconGo(x, [r EXCEPT !.tasks = @ \ {id}])
          \/ AppendFails /\ ReconGo(x, [r EXCEPT !.pc = "gaveUp"])
    BY <1>11 DEF MarkDisconnected, r
  <2> DEFINE line == ControlRecord("task", id, "disconnected", <<>>)
             new  == [r EXCEPT !.tasks = @ \ {id}]
  <2>2. id \in Dispatches /\ HasClaimed(id) /\ r.pc = "marking"
    BY <1>1, <1>11 DEF Recons, Fits, MarkDisconnected, ReconAt, r
  <2>3. <<>> \in Notes
    BY DEF Notes
  <2>4. line \in Lines /\ line.id = id
    BY <2>2, <2>3 DEF ControlRecord, Lines, TaskRecords
  <2>5. new \in Recons /\ Fits(new)
    BY <1>1, <2>2 DEF Recons, ReconStages, Fits
  <2>6. \/ WriteLine(line) /\ ReconGo(x, new)
        \/ UNCHANGED ledger /\ ReconGo(x, [r EXCEPT !.pc = "gaveUp"])
    BY <2>1 DEF AppendPeerControlRecord, AppendFails
  <2> HIDE DEF line, new
  <2>7. QED
    BY <1>2, <1>3, <1>5, <2>2, <2>4, <2>5, <2>6 DEF ReconStages
<1>12. CASE MarkRecovered(x)
  BY <1>1, <1>12 DEF MarkRecovered, Recons, r
<1>13. CASE Reload(x)
  BY <1>2, <1>5, <1>8, <1>13 DEF Reload, ReconStages, r
<1>14. CASE LoadBoard(x)
  <2> DEFINE tasks == {s \in r.tasks : RunsOnBoard(s)}
             new   == [r EXCEPT !.pc = IF tasks = {} THEN "on" ELSE "mirroring", !.tasks = tasks,
                                !.claims = {s \in @ : ~Released(send[s].claim)}]
  <2>1. \A s \in tasks : TasksOf(s) # {}
    BY DEF RunsOnBoard, ActiveTasks, TasksOf
  <2>2. r.pc = "marked"
    BY <1>14 DEF LoadBoard, ReconAt, r
  <2>3. new \in Recons /\ Fits(new)
    BY <1>1, <2>1, <2>2 DEF Recons, ReconStages, Fits
  <2>4. UNCHANGED ledger /\ ReconGo(x, new)
    BY <1>14 DEF LoadBoard, r
  <2> HIDE DEF new
  <2>5. QED
    BY <1>2, <2>3, <2>4
<1>15. CASE MirrorHandoff(x)
  <2>1. UNCHANGED ledger /\ r.pc = "mirroring"
    BY <1>15 DEF MirrorHandoff, ReconAt, r
  <2>2. CASE ReconGo(x, [r EXCEPT !.pc = "gaveUp"])
    BY <1>2, <1>5, <2>1, <2>2 DEF ReconStages
  <2>3. ASSUME NEW s \in r.tasks, NEW p \in {"releasing", "on", "mirroring"},
               ReconGo(x, [r EXCEPT !.tasks = r.tasks \ {s},
                                    !.claims = @ \cap ((r.tasks \ {s}) \cup {s}),
                                    !.live = {s}, !.pc = p])
        PROVE  Learns(x)
    <3> DEFINE new == [r EXCEPT !.tasks = r.tasks \ {s},
                                !.claims = @ \cap ((r.tasks \ {s}) \cup {s}),
                                !.live = {s}, !.pc = p]
    <3>1. new \in Recons /\ Fits(new)
      BY <1>1, <2>1 DEF Recons, ReconStages, Fits
    <3> HIDE DEF new
    <3>2. QED
      BY <1>2, <2>1, <2>3, <3>1 DEF new
  <2>4. PICK s \in r.tasks :
          \/ ReconGo(x, [r EXCEPT !.pc = "gaveUp"])
          \/ \E p \in {"releasing", "on", "mirroring"} :
               ReconGo(x, [r EXCEPT !.tasks = r.tasks \ {s},
                                    !.claims = @ \cap ((r.tasks \ {s}) \cup {s}),
                                    !.live = {s}, !.pc = p])
    BY <1>15 DEF MirrorHandoff, MirrorEnds, r
  <2>5. QED
    BY <2>2, <2>3, <2>4
<1>16. CASE MirrorRelease(x)
  <2>1. UNCHANGED ledger /\ r.pc = "releasing"
    BY <1>16 DEF MirrorRelease, ReconAt, r
  <2>2. CASE ReconGo(x, [r EXCEPT !.pc = "gaveUp"])
    BY <1>2, <1>5, <2>1, <2>2 DEF ReconStages
  <2>3. ASSUME NEW s \in r.live,
               ReconGo(x, [r EXCEPT !.claims = @ \ {s},
                                    !.pc = IF r.tasks = {} THEN "on" ELSE "mirroring"])
        PROVE  Learns(x)
    <3> DEFINE new == [r EXCEPT !.claims = @ \ {s},
                                !.pc = IF r.tasks = {} THEN "on" ELSE "mirroring"]
    <3>1. new \in Recons /\ Fits(new)
      BY <1>1, <2>1 DEF Recons, ReconStages, Fits
    <3> HIDE DEF new
    <3>2. QED
      BY <1>2, <2>1, <2>3, <3>1 DEF new
  <2>4. PICK s \in r.live :
          \/ ReconGo(x, [r EXCEPT !.pc = "gaveUp"])
          \/ ReconGo(x, [r EXCEPT !.claims = @ \ {s},
                                  !.pc = IF r.tasks = {} THEN "on" ELSE "mirroring"])
    BY <1>16 DEF MirrorRelease, MirrorEnds, r
  <2>5. QED
    BY <2>2, <2>3, <2>4
<1>17. QED
  BY <1>6, <1>7, <1>9, <1>10, <1>11, <1>12, <1>13, <1>14, <1>15, <1>16 DEF Reconcile, ReconcileStep

LEMMA RecoveryStep ==
  ASSUME TypeOK, SendTypeOK, Stories, RecoveryInv, [RecoveryNext]_recoveryVars
  PROVE  RecoveryInv'
<1>1. /\ ledger \in Seq(Lines)
      /\ \A s \in IdsOf("task") : s \in Dispatches /\ HasClaimed(s)
  BY OnlyTasksNoted DEF RecoveryInv, RecoveryShape, LedgerKnowsClaims
<1>2. CASE UNCHANGED ledgerVars
  BY <1>1, <1>2, KnowledgeStays DEF ledgerVars, IdsOf
<1>3. ASSUME NEW s \in Dispatches, NoteDispatch(s) \/ NoteCompletion(s) PROVE RecoveryInv'
  <2>1. PICK st \in {"running", "blocked", "done"} :
          \/ AppendPeerControlRecord("task", s, st, [claimEventId |-> send[s].claim])
          \/ AppendFails
    BY <1>3 DEF NoteDispatch, NoteCompletion, NoteTask
  <2>2. UNCHANGED recon /\ HasClaimed(s) /\ send[s].claim \in Nat
    BY <1>3 DEF NoteDispatch, NoteCompletion, NoteTask, At, SendTypeOK, HasClaimed
  <2> DEFINE line == ControlRecord("task", s, st, [claimEventId |-> send[s].claim])
  <2>3. [claimEventId |-> send[s].claim] \in Notes
    BY <2>2 DEF Notes
  <2>4. line \in Lines /\ line.kind = "task" /\ line.id = s
    BY <2>3 DEF ControlRecord, Lines, TaskRecords
  <2>5. CASE WriteLine(line)
    <3> HIDE DEF line
    <3>1. ledger' \in Seq(Lines) /\ IdsOf("task")' \subseteq IdsOf("task") \cup {s}
      BY <1>1, <2>4, <2>5, LineWritten
    <3>2. QED
      BY <1>1, <2>2, <3>1, KnowledgeStays
  <2>6. CASE AppendFails
    BY <1>1, <2>2, <2>6, KnowledgeStays DEF AppendFails, IdsOf
  <2>7. QED
    BY <2>1, <2>5, <2>6 DEF AppendPeerControlRecord
<1>4. ASSUME NEW x \in Sessions, Learns(x) PROVE RecoveryInv'
  BY <1>4, KnowledgeStays DEF Learns
<1>5. CASE Dispatching
  BY <1>2, <1>3, <1>5 DEF Dispatching, SessionsUnmoved, Advance, NotedStep, ledgerVars
<1>6. QED
  BY <1>2, <1>4, <1>5, SessionLearns
     DEF RecoveryNext, SessionStep, SessionsUnmoved, recoveryVars, ledgerVars

LEMMA RecoveryHolds == RecoverySpec => [](TypeOK /\ SendTypeOK /\ Stories /\ RecoveryInv)
<1>1. RecoveryInit => TypeOK /\ SendTypeOK /\ Stories /\ RecoveryInv
  BY RecoveryBegins, SendInitTypes, SendInitStories DEF RecoveryInit
<1>2. TypeOK /\ SendTypeOK /\ Stories /\ RecoveryInv /\ [RecoveryNext]_recoveryVars
        => (TypeOK /\ SendTypeOK /\ Stories /\ RecoveryInv)'
  BY StoriesOutliveSessions, RecoveryStep
<1>3. QED
  BY <1>1, <1>2, PTL DEF RecoverySpec

(* The starts of sessions, too, do to the board only what it allows.        *)
THEOREM RecoveryUsesBoard == RecoverySpec => UsesBoard
<1>1. RecoveryInit => Init
  BY DEF RecoveryInit, SendInit
<1>2. TypeOK /\ SendTypeOK /\ Stories /\ RecoveryInv /\ [RecoveryNext]_recoveryVars => [Next]_vars
  BY StoriesOutliveSessions
<1>3. QED
  BY <1>1, <1>2, RecoveryHolds, PTL DEF RecoverySpec, UsesBoard, Spec

(* So claims exclude each other whatever sessions are killed and recover.   *)
THEOREM RecoveryExcludes == RecoverySpec => [](WriteExclusion /\ KeyExclusion)
BY RecoveryUsesBoard, WriteExclusionHolds, KeyExclusionHolds, PTL DEF UsesBoard

(* A dispatch that completed left nothing, and the log tells its story in   *)
(* order, also where other sessions end the tasks of dispatches, of killed  *)
(* sessions and of those that live.                                         *)
THEOREM StoriesOutliveKills == RecoverySpec => [](HandoffFollowsTask /\ DoneLeavesNothing)
<1>1. Stories => HandoffFollowsTask /\ DoneLeavesNothing
  BY StoriesTell
<1>2. QED
  BY <1>1, RecoveryHolds, PTL
=============================================================================
