------------------------------- MODULE PeerSend -------------------------------
(***************************************************************************)
(* Messages sent to peers on behalf of a goal: the peer_send tool and the  *)
(* command /peer goal fanout --send of extensions/pi-peer/index.ts with    *)
(* extension-goal-linking.mjs, composed with the goal board.  A fan-out is *)
(* a dispatch to each of its peers, all at once.                           *)
(* One dispatch claims its work, sends the message,                        *)
(* records a task, keeps the claim alive while the peer works, and when    *)
(* the answer comes records a handoff, releases the claim and objects to   *)
(* an answer without the required headings.  Each of these is a separate   *)
(* update of the board, with other peers in between.                       *)
(*                                                                         *)
(* The transport is reduced to what the dispatcher sees of it: sending     *)
(* succeeds or fails, and a sent message gets one answer.  The id of a     *)
(* dispatch is also its message id.                                        *)
(***************************************************************************)
EXTENDS GoalBoard

CONSTANTS
  Link,             \* of each dispatch: requester, target, mode, paths, workKey, policy, staleAfter
  Fanout,           \* the dispatches of a fan-out; the others are of peer_send
  OtherInputs,      \* the events other peers append meanwhile
  MayFailToAppend,  \* may a board update fail (lock timeout, I/O)?
  MayStop,          \* may the dispatching process end?
  Horizon           \* bound: dispatches begin before it, and the clock waits for them
                    \* there; a peer nobody waits for is done by then

VARIABLE send       \* of each dispatch: [pc, claim, answer]

sendVars == <<vars, send>>

Dispatches == DOMAIN Link

ASSUME SendConstants ==
  /\ Dispatches \subseteq Messages /\ Fanout \subseteq Dispatches
  /\ MayFailToAppend \in BOOLEAN /\ MayStop \in BOOLEAN /\ Horizon \in Nat

Resting == {"idle", "duplicate", "refused", "untracked", "dropped", "stopped", "done"}
Busy    == {"claimed", "failing", "sent", "tracked", "handoff", "release", "objection"}
Results == {"none", "ok", "incomplete", "failed"}

At(s, pc)   == send[s].pc = pc
Goto(s, pc) == send' = [send EXCEPT ![s].pc = pc]

(* Append the event and go on, or see the append fail. *)
Try(s, in, onSuccess, onError) ==
  \/ AppendPeerGoalEvent(in) /\ Goto(s, onSuccess)
  \/ /\ MayFailToAppend \/ ~Accepts(NormalizeEvent(in))
     /\ Goto(s, onError) /\ UNCHANGED vars

-----------------------------------------------------------------------------
(* The events of a dispatch. *)

ClaimOf(s) ==
  [EventOf("claim", Link[s].target) EXCEPT
     !.mode = Link[s].mode, !.paths = Link[s].paths, !.workKey = Link[s].workKey,
     !.duplicatePolicy = Link[s].policy, !.staleAfter = Link[s].staleAfter]

TaskOf(s, claim) ==
  [EventOf("task", Link[s].requester) EXCEPT
     !.workKey = Link[s].workKey, !.duplicatePolicy = Link[s].policy,
     !.taskId = s, !.ref = claim, !.status = "running"]

HandoffWithoutMessage(s, message, result) ==      \* as if it did not name its message
  [EventOf("handoff", Link[s].target) EXCEPT !.workKey = Link[s].workKey, !.status = result]

(* A handoff is recorded without a duplicate policy, whatever the claim's. *)
HandoffOf(s, message, result) ==
  [EventOf("handoff", Link[s].target) EXCEPT
     !.workKey = Link[s].workKey, !.taskId = message, !.status = result]

ReleaseOf(s, claim)   == [EventOf("release", Link[s].target) EXCEPT !.ref = claim]
ProgressOf(s, claim)  == [EventOf("heartbeat", Link[s].target) EXCEPT !.ref = claim]
HeartbeatOf(s, claim) == [ProgressOf(s, claim) EXCEPT !.staleAfter = Link[s].staleAfter]
ObjectionOf(s)        == EventOf("objection", Link[s].target)
RefusalOf(s)          == [EventOf("task", Link[s].requester) EXCEPT !.status = "blocked"]

DispatchInputs ==
  UNION {{ ClaimOf(s), TaskOf(s, NoEvent), ReleaseOf(s, NoEvent), HeartbeatOf(s, NoEvent),
           ProgressOf(s, NoEvent), ObjectionOf(s), RefusalOf(s), HandoffOf(s, NoTask, "blocked"),
           HandoffOf(s, s, "blocked"), HandoffOf(s, s, "done") } : s \in Dispatches}

(* The id of a message is fresh and known to its sender alone until then.   *)
ASSUME SendEvents ==
  /\ OtherInputs \cup DispatchInputs \subseteq Inputs
  /\ NoTask \notin Dispatches
  /\ \A in \in OtherInputs : in.taskId \notin Dispatches

-----------------------------------------------------------------------------
(* Dispatching. *)

(* The claim or task beginPeerGoalTask reuses instead of claiming. *)
Existing(s) ==
  {i \in ActiveClaims \cup ActiveTasks :
     Link[s].policy = "reuse" /\ Link[s].workKey # NoKey /\ events[i].workKey = Link[s].workKey}

BeginUnchecked(s) ==      \* as if the claim were appended without its checks
  /\ At(s, "idle") /\ now < Horizon /\ Room("claim")
  /\ events' = Append(events, NormalizeEvent(ClaimOf(s)))
  /\ send' = [send EXCEPT ![s].pc = "claimed", ![s].claim = Len(events) + 1]
  /\ UNCHANGED <<now, status, closure>>

BeginClaimsOnly(s) ==      \* as if only claims were looked up, not running tasks
  /\ At(s, "idle") /\ now < Horizon /\ Room("claim")
  /\ \A i \in ActiveClaims : events[i].workKey # Link[s].workKey
  /\ events' = Append(events, NormalizeEvent(ClaimOf(s)))
  /\ send' = [send EXCEPT ![s].pc = "claimed", ![s].claim = Len(events) + 1]
  /\ UNCHANGED <<now, status, closure>>

(* beginPeerGoalTask: reuse, claim, or throw.  It checks and appends by     *)
(* itself, not through appendPeerGoalEvent.                                 *)
BeginPeerGoalTask(s) ==
  LET e     == NormalizeEvent(ClaimOf(s))
      valid == ProposalFulfillmentGuard(e) /\ ValidateClaim(e)
  IN
  /\ At(s, "idle") /\ now < Horizon /\ Room("claim")
  /\ \/ Existing(s) # {} /\ Goto(s, "duplicate") /\ UNCHANGED vars
     \/ /\ Existing(s) = {} /\ valid
        /\ events' = Append(events, e)
        /\ send' = [send EXCEPT ![s].pc = "claimed", ![s].claim = Len(events) + 1]
        /\ UNCHANGED <<now, status, closure>>
     \/ /\ Existing(s) = {} /\ (MayFailToAppend \/ ~valid)
        /\ Goto(s, IF s \in Fanout THEN "unclaimed" ELSE "refused") /\ UNCHANGED vars

(* A fan-out notes that a dispatch had no claim as a task that is blocked.  *)
RecordRefusal(s) == At(s, "unclaimed") /\ Try(s, RefusalOf(s), "refused", "refused")

(* comms.sendMessage: the peer is unknown, disabled, ... or it is sent. *)
SendMessage(s) ==
  /\ At(s, "claimed")
  /\ Goto(s, "sent") \/ Goto(s, "failing")
  /\ UNCHANGED vars

RecordDispatchLate(s) ==      \* as if tracking began before the task was recorded
  /\ At(s, "sent") /\ Goto(s, "tracked") /\ UNCHANGED vars

(* A fan-out takes an error of recording for one of sending, and gives the  *)
(* claim up; peer_send never tracks the answer.                            *)
Unrecorded(s) == IF s \in Fanout THEN "failing" ELSE "untracked"

(* recordPeerSendGoalDispatch *)
RecordPeerGoalTaskDispatch(s) ==
  At(s, "sent") /\ Try(s, TaskOf(s, send[s].claim), "tracked", Unrecorded(s))

(* Sending failed: recordPeerSendGoalFailure, then the error goes up. *)
RecordPeerSendGoalFailure(s) ==
  At(s, "failing") /\ Try(s, HandoffOf(s, NoTask, "blocked"), "release", "dropped")

-----------------------------------------------------------------------------
(* Working and answering. *)

HeartbeatUncleared(s) ==      \* as if a completion left the timer on
  /\ At(s, "tracked") \/ (~At(s, "stopped") /\ send[s].answer # "none")
  /\ AppendPeerGoalEvent(HeartbeatOf(s, send[s].claim))
  /\ UNCHANGED send

(* The interval timer of the dispatcher, cleared when completion is over. *)
ClaimHeartbeat(s) ==
  /\ At(s, "tracked") \/ (send[s].pc \in Busy /\ send[s].answer # "none")
  /\ AppendPeerGoalEvent(HeartbeatOf(s, send[s].claim))
  /\ UNCHANGED send

(* recordGoalProgress of the inbound bridge: the peer reports progress,    *)
(* also if nobody tracks its answer, until it is done with the message     *)
(* (bound: before Horizon).                                                *)
RecordGoalProgress(s) ==
  /\ send[s].pc \in {"sent", "tracked"} \/ (At(s, "untracked") /\ now < Horizon)
  /\ AppendPeerGoalEvent(ProgressOf(s, send[s].claim))
  /\ UNCHANGED send

(* The peer's one answer, seen by a dispatcher that tracks it. *)
Answer(s) ==
  /\ At(s, "tracked")
  /\ \E answer \in Results \ {"none"} :
       send' = [send EXCEPT ![s].pc = "handoff", ![s].answer = answer]
  /\ UNCHANGED vars

(* completePeerGoalTask: the handoff, and only if that worked the release. *)
RecordHandoff(s) ==
  LET result == IF send[s].answer = "failed" THEN "blocked" ELSE "done"
  IN  At(s, "handoff") /\ Try(s, HandoffOf(s, s, result), "release", "dropped")

ReleaseClaim(s) ==
  /\ At(s, "release")
  /\ Try(s, ReleaseOf(s, send[s].claim),
         IF send[s].answer = "incomplete" THEN "objection" ELSE "done", "dropped")

ObjectToHandoff(s) ==
  At(s, "objection") /\ Try(s, ObjectionOf(s), "done", "dropped")

(* The dispatching session ends; its timers and promises are gone. *)
Stop(s) ==
  /\ MayStop /\ send[s].pc \in Busy \cup {"unclaimed"}
  /\ Goto(s, "stopped")
  /\ UNCHANGED vars

Step(s) ==
  \/ RecordRefusal(s)
  \/ SendMessage(s) \/ RecordPeerGoalTaskDispatch(s) \/ RecordPeerSendGoalFailure(s)
  \/ Answer(s) \/ RecordHandoff(s) \/ ReleaseClaim(s) \/ ObjectToHandoff(s)

-----------------------------------------------------------------------------
SendInit ==
  /\ Init
  /\ send = [s \in Dispatches |-> [pc |-> "idle", claim |-> NoEvent, answer |-> "none"]]

OtherPeers ==
  /\ \/ \E in \in OtherInputs : \E ref \in Targets(in) : AppendPeerGoalEvent([in EXCEPT !.ref = ref])
     \/ \E peer \in Peers : ClosePeerGoal(FALSE, peer, FALSE)
  /\ UNCHANGED send

(* The bound on the clock leaves time to see what the last dispatch left.  *)
Clock ==
  /\ now < Horizon \/ \A s \in Dispatches : send[s].pc \in Resting
  /\ Tick /\ UNCHANGED send

SendNext ==
  \/ \E s \in Dispatches : \/ BeginPeerGoalTask(s) \/ Step(s) \/ Stop(s)
                           \/ ClaimHeartbeat(s) \/ RecordGoalProgress(s)
  \/ OtherPeers
  \/ Clock

SendSpec == SendInit /\ [][SendNext]_sendVars

(***************************************************************************)
(* A dispatch that runs carries on, and its message gets an answer: the    *)
(* transport times out and the inbound bridge answers every message.       *)
(***************************************************************************)
FairSendSpec ==
  /\ SendSpec
  /\ \A s \in Dispatches : WF_sendVars(Step(s))
  /\ WF_sendVars(Clock)

-----------------------------------------------------------------------------
(* Properties. *)

SendTypeOK ==
  /\ send \in [Dispatches -> [pc: Resting \cup Busy \cup {"unclaimed"}, claim: Nat, answer: Results]]
  /\ \A s \in Dispatches : send[s].pc \notin {"idle", "duplicate", "unclaimed", "refused", "stopped"} =>
       send[s].claim \in Of("claim")

(* Whatever dispatches do to the board, they do as the board allows, so     *)
(* that all that GoalBoard guarantees holds for them: exclusion, leases.    *)
UsesBoard == Spec

(* Somebody recorded a handoff of the task itself, not of its message.      *)
HandedOff(s) ==
  \E t \in Of("task"), h \in Of("handoff") : events[t].taskId = s /\ events[h].ref = t

(* While a dispatch waits for its peer's answer no other dispatch claims    *)
(* the same key, however long the claim was silent, unless it wants to work *)
(* in parallel or somebody released the claim or handed off the task.       *)
NoDuplicateDispatch ==
  [][\A s, t \in Dispatches :
       /\ s # t /\ Link[s].workKey = Link[t].workKey /\ Link[s].workKey # NoKey
       /\ Link[s].policy # "allow-parallel"
       /\ send[s].pc = "idle" /\ send'[s].pc = "claimed" /\ send[t].pc = "tracked"
       => Released(send[t].claim) \/ HandedOff(t)]_sendVars

(* The log tells the story in order: a handoff of a message comes after the *)
(* task that was dispatched with it, and after the claim of that task.      *)
HandoffFollowsTask ==
  \A h \in Of("handoff") : events[h].taskId \in Dispatches =>
    \E t \in Of("task") : /\ t < h /\ events[t].taskId = events[h].taskId
                          /\ events[t].ref # NoEvent /\ events[t].ref < t

(* A dispatch that completed left no claim and no running task, and an      *)
(* objection if its answer was incomplete.                                  *)
DoneLeavesNothing ==
  \A s \in Dispatches : At(s, "done") =>
    /\ Released(send[s].claim)
    /\ \A t \in ActiveTasks : events[t].taskId # s
    /\ send[s].answer = "incomplete" => Of("objection") # {}

(* However a dispatch ends, whenever its last heartbeat or report of        *)
(* progress came, and whichever of its updates failed, its claim does not   *)
(* stay in force: it is released, or it goes stale because the dispatcher's *)
(* timer is off and the peer is done.                                       *)
NoClaimOutlivesItsDispatch ==
  \A s \in Dispatches :
    send[s].pc \in Resting \ {"idle"} ~> send[s].claim \notin ActiveClaims

(* The claim is released once the peer has given its final response.        *)
AnswerReleasesClaim ==
  \A s \in Dispatches : At(s, "handoff") ~> send[s].claim # NoEvent /\ Released(send[s].claim)
=============================================================================
