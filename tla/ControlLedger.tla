----------------------------- MODULE ControlLedger -----------------------------
(***************************************************************************)
(* The control ledger (src/src/peers/control-ledger.mjs): an append-only   *)
(* file in which the sessions of a workspace note what they have at work,  *)
(* and which a session that starts reconciles with what is really alive.   *)
(* The ledger is the sequence of its lines; an append holds a lock and is  *)
(* one step, which may fail (LedgerMayFail) or, when its process is        *)
(* killed, leave half a line.                                              *)
(*                                                                         *)
(* What is derived of a task, a hive run or a subrun is its last status    *)
(* and, of each metadata field, the last value given.  Summaries, times    *)
(* and conversation ids are left out.  A record without an id (a dispatch  *)
(* that failed before there was a message) is not projected, and not kept  *)
(* here.                                                                   *)
(***************************************************************************)
EXTENDS Naturals, Sequences, FiniteSetsExt

CONSTANTS
  Sessions,        \* the sessions that share the ledger
  LedgerMayFail    \* may an append fail (lock timeout, I/O)?

VARIABLES
  ledger,    \* the lines of the file
  recon      \* of each session: how far its session_start has come

ledgerVars == <<ledger, recon>>

ActiveTaskStatuses       == {"queued", "dispatching", "running", "pending", "cancelling"}
ActiveSupervisorStatuses == {"started", "resumed", "recovered", "tick"}

(* normalizePeerControlRecord *)
ControlRecord(kind, id, st, metadata) ==
  [kind |-> kind, id |-> id, status |-> st, metadata |-> metadata]

Torn    == ControlRecord("half a line", "", "", <<>>)
Garbage == ControlRecord("not JSON", "", "", <<>>)

EndsTorn == ledger # <<>> /\ ledger[Len(ledger)] = Torn

(* The next line is glued to half a line, and neither can be read. *)
WriteLine(line) ==
  ledger' = IF EndsTorn THEN [ledger EXCEPT ![Len(ledger)] = IF line = Torn THEN Torn ELSE Garbage]
            ELSE Append(ledger, line)

AppendPeerControlRecord(kind, id, st, metadata) ==
  WriteLine(ControlRecord(kind, id, st, metadata))

(* withControlLedgerLock times out, or appendFile throws. *)
AppendFails == LedgerMayFail /\ UNCHANGED ledger

(* loadPeerControlLedger: half a line at the end is ignored, elsewhere it throws. *)
Loads == \A i \in DOMAIN ledger : ledger[i] # Garbage

-----------------------------------------------------------------------------
(* derivePeerControlState *)

RecordsOf(kind, id) == {i \in DOMAIN ledger : ledger[i].kind = kind /\ ledger[i].id = id}
IdsOf(kind) == {ledger[i].id : i \in {j \in DOMAIN ledger : ledger[j].kind = kind}}

StatusOf(kind, id) ==
  IF RecordsOf(kind, id) = {} THEN "unknown" ELSE ledger[Max(RecordsOf(kind, id))].status

Giving(kind, id, field) == {i \in RecordsOf(kind, id) : field \in DOMAIN ledger[i].metadata}
MetadataOf(kind, id, field, absent) ==
  IF Giving(kind, id, field) = {} THEN absent
  ELSE ledger[Max(Giving(kind, id, field))].metadata[field]

ActiveLedgerTasks == {id \in IdsOf("task") : StatusOf("task", id) \in ActiveTaskStatuses}
DisconnectedTasks == {id \in IdsOf("task") : StatusOf("task", id) = "disconnected"}

(* isSupervisorActive *)
ActiveHiveRuns(time) ==
  {id \in IdsOf("hive") : /\ StatusOf("hive", id) \in ActiveSupervisorStatuses
                          /\ MetadataOf("hive", id, "deadlineAt", 0) > time}

-----------------------------------------------------------------------------
(***************************************************************************)
(* reconcilePeerControlState at session start.  It lists the messages and  *)
(* hive runs of its own session, loads the ledger, notes every other       *)
(* active task as disconnected and every other active hive run as          *)
(* recovered, and loads again.  An error anywhere ends it silently.        *)
(***************************************************************************)
NotRunning == [pc |-> "off", live |-> {}, tasks |-> {}, runs |-> {}, claims |-> {}]

ReconAt(x, pc)  == recon[x].pc = pc
ReconGo(x, new) == recon' = [recon EXCEPT ![x] = new]
Alive(x)        == recon[x].pc # "off"

SessionStart(x) ==
  /\ ReconAt(x, "off")
  /\ ReconGo(x, [NotRunning EXCEPT !.pc = "list"])
  /\ UNCHANGED ledger

ListLive(x, messages) ==
  /\ ReconAt(x, "list")
  /\ ReconGo(x, [recon[x] EXCEPT !.pc = "load", !.live = messages])
  /\ UNCHANGED ledger

(* The disconnected tasks whose claim the ledger knows. *)
WithClaim == {id \in DisconnectedTasks : Giving("task", id, "claimEventId") # {}}

MarkedIfNoted(x) ==      \* as if a start that noted nothing had nothing to complete
  [recon[x] EXCEPT !.pc = "marked", !.claims = WithClaim,
                   !.tasks = IF ReconAt(x, "marking") THEN DisconnectedTasks ELSE {}]

Marked(x) == [recon[x] EXCEPT !.pc = "marked", !.tasks = DisconnectedTasks, !.claims = WithClaim]

LoadLedger(x, liveRuns, time) ==
  LET tasks == ActiveLedgerTasks \ recon[x].live
      runs  == ActiveHiveRuns(time) \ liveRuns
  IN
  /\ ReconAt(x, "load")
  /\ CASE ~Loads -> ReconGo(x, [recon[x] EXCEPT !.pc = "gaveUp"])
       [] Loads /\ tasks \cup runs = {} -> ReconGo(x, Marked(x))
       [] OTHER -> ReconGo(x, [recon[x] EXCEPT !.pc = "marking", !.tasks = tasks, !.runs = runs])
  /\ UNCHANGED ledger

MarkDisconnected(x) ==
  /\ ReconAt(x, "marking")
  /\ \E id \in recon[x].tasks :
       \/ /\ AppendPeerControlRecord("task", id, "disconnected", <<>>)
          /\ ReconGo(x, [recon[x] EXCEPT !.tasks = @ \ {id}])
       \/ AppendFails /\ ReconGo(x, [recon[x] EXCEPT !.pc = "gaveUp"])

MarkRecovered(x) ==
  /\ ReconAt(x, "marking") /\ recon[x].tasks = {}
  /\ \E id \in recon[x].runs :
       \/ /\ AppendPeerControlRecord("hive", id, "recovered", <<>>)
          /\ ReconGo(x, [recon[x] EXCEPT !.runs = @ \ {id}])
       \/ AppendFails /\ ReconGo(x, [recon[x] EXCEPT !.pc = "gaveUp"])

Reload(x) ==
  /\ ReconAt(x, "marking") /\ recon[x].tasks = {} /\ recon[x].runs = {}
  /\ ReconGo(x, IF Loads THEN Marked(x) ELSE [recon[x] EXCEPT !.pc = "gaveUp"])
  /\ UNCHANGED ledger

ReconcileStep(x) == MarkDisconnected(x) \/ MarkRecovered(x) \/ Reload(x)

LedgerInit == ledger = <<>> /\ recon = [x \in Sessions |-> NotRunning]
=============================================================================
