----------------------------- MODULE SendRecovery -----------------------------
(***************************************************************************)
(* Goal-linked dispatches across the end of their sessions: PeerSend       *)
(* composed with the control ledger.  A dispatch notes in the ledger that  *)
(* its message runs and, once the answer is there, how it ended, each time *)
(* before the board is told the same.  A session that starts declares the  *)
(* running tasks that are not its own disconnected                         *)
(* (reconcilePeerControlLedger) and records a blocked handoff on the board *)
(* for each of them that is still active there                             *)
(* (reconcileDisconnectedPeerGoalTasks).                                   *)
(***************************************************************************)
EXTENDS PeerSend, ControlLedger

CONSTANTS
  Owner,       \* of each dispatch: the session that sends it
  MayTear,     \* may a session be killed in the middle of a ledger append?
  MaxStarts    \* bound: sessions started, the first of each included

VARIABLES
  noted,    \* of each dispatch: what its session wrote to the ledger
  starts

recoveryVars == <<sendVars, ledgerVars, noted, starts>>

ASSUME RecoveryConstants == Owner \in [Dispatches -> Sessions] /\ MaxStarts \in Nat

SessionsUnmoved == UNCHANGED <<ledgerVars, noted, starts>>
DispatchesUnmoved == UNCHANGED <<sendVars, noted, starts>>

IsUp(s) == Alive(Owner[s])

-----------------------------------------------------------------------------
(* Dispatching, with the ledger. *)

(* The appends that record it are best effort: a failure is swallowed. *)
NoteTask(s, st, stage) ==
  /\ \/ AppendPeerControlRecord("task", s, st, [claimEventId |-> send[s].claim])
     \/ AppendFails
  /\ noted' = [noted EXCEPT ![s] = stage]
  /\ UNCHANGED <<sendVars, recon, starts>>

NoteDispatch(s) == At(s, "sent") /\ noted[s] = "nothing" /\ NoteTask(s, "running", "dispatch")

(* peerResponseGoalStatus *)
NoteCompletion(s) ==
  /\ At(s, "handoff") /\ noted[s] = "dispatch"
  /\ NoteTask(s, IF send[s].answer = "failed" THEN "blocked" ELSE "done", "completion")

NotedStep(s) ==
  /\ At(s, "sent") => noted[s] = "dispatch"
  /\ At(s, "handoff") => noted[s] = "completion"
  /\ Step(s) /\ SessionsUnmoved

Advance(s) == IsUp(s) /\ (NoteDispatch(s) \/ NoteCompletion(s) \/ NotedStep(s))

Dispatching ==
  \/ \E s \in Dispatches :
       \/ IsUp(s) /\ BeginPeerGoalTask(s) /\ SessionsUnmoved
       \/ Advance(s)
       \/ IsUp(s) /\ ClaimHeartbeat(s) /\ SessionsUnmoved
       \/ RecordGoalProgress(s) /\ SessionsUnmoved
  \/ OtherPeers /\ SessionsUnmoved

-----------------------------------------------------------------------------
(* Sessions. *)

Start(x) ==
  /\ starts < MaxStarts /\ starts' = starts + 1
  /\ SessionStart(x)
  /\ UNCHANGED <<sendVars, noted>>

(* The process ends: timers and promises are gone, an append may be cut.   *)
End(x) ==
  /\ Alive(x) /\ starts < MaxStarts
  /\ ReconGo(x, NotRunning)
  /\ \/ MayTear /\ WriteLine(Torn)
     \/ UNCHANGED ledger
  /\ send' = [s \in Dispatches |->
       IF Owner[s] = x /\ send[s].pc \in Busy \cup {"unclaimed"}
                                THEN [send[s] EXCEPT !.pc = "stopped"] ELSE send[s]]
  /\ UNCHANGED <<vars, noted, starts>>

LiveMessages(x) == {s \in Dispatches : Owner[s] = x /\ send[s].pc \in {"sent", "tracked", "untracked"}}

Reconcile(x) ==
  /\ \/ ListLive(x, LiveMessages(x))
     \/ LoadLedger(x, {}, 0)
     \/ ReconcileStep(x)
  /\ DispatchesUnmoved

RunsOnBoard(s) == \E t \in ActiveTasks : events[t].taskId = s

(* The board is read once, outside its lock; an unreadable one ends it.    *)
LoadBoard(x) ==
  /\ ReconAt(x, "marked")
  /\ LET tasks == {s \in recon[x].tasks : RunsOnBoard(s)} IN
     ReconGo(x, [recon[x] EXCEPT
       !.pc = IF tasks = {} THEN "on" ELSE "mirroring",
       !.tasks = tasks,
       !.claims = {s \in @ : ~Released(send[s].claim)}])
  /\ DispatchesUnmoved /\ UNCHANGED ledger

MirrorEnds(x) == ReconGo(x, [recon[x] EXCEPT !.pc = "gaveUp"]) /\ UNCHANGED vars

(* completePeerGoalTask again: a handoff for one of the tasks ...          *)
MirrorHandoff(x) ==
  /\ ReconAt(x, "mirroring")
  /\ \E s \in recon[x].tasks :
       \/ /\ AppendPeerGoalEvent(HandoffOf(s, s, "blocked"))
          /\ LET left == recon[x].tasks \ {s} IN
             ReconGo(x, [recon[x] EXCEPT
               !.tasks = left,
               !.claims = @ \cap (left \cup {s}),
               !.live = {s},
               !.pc = CASE s \in recon[x].claims -> "releasing"
                        [] OTHER -> IF left = {} THEN "on" ELSE "mirroring"])
       \/ /\ MayFailToAppend \/ ~Accepts(NormalizeEvent(HandoffOf(s, s, "blocked")))
          /\ MirrorEnds(x)
  /\ UNCHANGED <<ledger, send, noted, starts>>

(* ... and the release of its claim, if the ledger knew it.                *)
MirrorRelease(x) ==
  /\ ReconAt(x, "releasing")
  /\ \E s \in recon[x].live :
       \/ /\ AppendPeerGoalEvent(ReleaseOf(s, send[s].claim))
          /\ ReconGo(x, [recon[x] EXCEPT
               !.claims = @ \ {s}, !.pc = IF recon[x].tasks = {} THEN "on" ELSE "mirroring"])
       \/ /\ MayFailToAppend \/ ~Accepts(NormalizeEvent(ReleaseOf(s, send[s].claim)))
          /\ MirrorEnds(x)
  /\ UNCHANGED <<ledger, send, noted, starts>>

SessionStep(x) == Reconcile(x) \/ LoadBoard(x) \/ MirrorHandoff(x) \/ MirrorRelease(x)

-----------------------------------------------------------------------------
RecoveryInit ==
  /\ SendInit /\ LedgerInit
  /\ noted = [s \in Dispatches |-> "nothing"]
  /\ starts = 0

RecoveryNext ==
  \/ Dispatching
  \/ \E x \in Sessions : Start(x) \/ End(x) \/ SessionStep(x)
  \/ Clock /\ SessionsUnmoved

RecoverySpec == RecoveryInit /\ [][RecoveryNext]_recoveryVars

(* A process that runs carries on; that sessions are started is up to users. *)
FairRecoverySpec ==
  /\ RecoverySpec
  /\ \A s \in Dispatches : WF_recoveryVars(Advance(s))
  /\ \A x \in Sessions : WF_recoveryVars(SessionStep(x))
  /\ WF_recoveryVars(Clock /\ SessionsUnmoved)

-----------------------------------------------------------------------------
(* Properties. *)

(* However often sessions are killed, in the middle of a dispatch or of an  *)
(* earlier recovery: a session that starts and carries through its          *)
(* reconciliation ends, on the board, every task that was dispatched from   *)
(* it before and that the ledger does not call finished.                    *)
OrphansAreMirrored ==
  \A s \in Dispatches : LET x == Owner[s] IN
    (/\ ReconAt(x, "list") /\ send[s].pc = "stopped" /\ RunsOnBoard(s) /\ Loads
     /\ s \in ActiveLedgerTasks \cup DisconnectedTasks)
      ~> (~RunsOnBoard(s) \/ recon[x].pc \in {"off", "gaveUp"})

=============================================================================
