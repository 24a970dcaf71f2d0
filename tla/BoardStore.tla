----------------------------- MODULE BoardStore -----------------------------
(***************************************************************************)
(* How several processes that share a workspace update the goal board file *)
(* (updatePeerGoalBoard of goal-board.mjs over goal-store.mjs): a lock     *)
(* directory, then load, modify, append to the journal, save, compact and  *)
(* unlock, with every await a point where another process, a crash or an   *)
(* I/O error may come in between.                                          *)
(*                                                                         *)
(* A board is the set of updates it contains.  The journal only ever gets  *)
(* whole-board snapshots, so of its intact lines only the last one counts. *)
(***************************************************************************)
EXTENDS Naturals, FiniteSets

CONSTANTS
  Procs,          \* processes with the workspace open
  NoProc,
  Crashers,       \* the processes that may be killed, for good
  MayTear,        \* may an append to the journal write only part of its line?
  MayCorrupt,     \* may something else damage the board file?
  MaxUpdates      \* bound: updates one process gets to apply

VARIABLES
  pc,       \* where each process is in its update
  snap,     \* the board it has in memory
  count,    \* how many updates it has applied to such a board
  lock,     \* the lock directory: who made it, and is it older than 30 s?
  board,    \* the board file
  intact,   \* does the board file parse?
  journal,  \* [last, torn, corrupt], see JournalAppend
  acked     \* the updates whose caller was told they succeeded (history)

vars == <<pc, snap, count, lock, board, intact, journal, acked>>

ASSUME StoreConstants ==
  /\ NoProc \notin Procs /\ Crashers \subseteq Procs
  /\ MayTear \in BOOLEAN /\ MayCorrupt \in BOOLEAN /\ MaxUpdates \in Nat

Free    == [owner |-> NoProc, old |-> FALSE]

Goto(p, from, to) == pc[p] = from /\ pc' = [pc EXCEPT ![p] = to]

Init ==
  /\ pc = [p \in Procs |-> "idle"]
  /\ snap = [p \in Procs |-> {}]
  /\ count = [p \in Procs |-> 0]
  /\ lock = Free
  /\ board = {} /\ intact = TRUE
  /\ journal = [last |-> {}, torn |-> FALSE, corrupt |-> FALSE]
  /\ acked = {}

-----------------------------------------------------------------------------
(* withGoalBoardLock *)

Start(p) ==
  /\ Goto(p, "idle", "mkdir")
  /\ UNCHANGED <<snap, count, lock, board, intact, journal, acked>>

(* mkdir creates the directory, or fails with EEXIST. *)
MakeLock(p) ==
  /\ \/ lock = Free /\ Goto(p, "mkdir", "load") /\ lock' = [owner |-> p, old |-> FALSE]
     \/ lock # Free /\ Goto(p, "mkdir", "stat") /\ UNCHANGED lock
  /\ UNCHANGED <<snap, count, board, intact, journal, acked>>

StatLockNeverStale(p) ==      \* as if a waiter only ever waited
  /\ Goto(p, "stat", "mkdir") \/ Goto(p, "stat", "idle")
  /\ UNCHANGED <<snap, count, lock, board, intact, journal, acked>>

(* removeStaleGoalBoardLock looks first ... *)
StatLock(p) ==
  /\ \/ lock = Free /\ Goto(p, "stat", "mkdir")
     \/ lock # Free /\ lock.old /\ Goto(p, "stat", "remove")
     \/ lock # Free /\ ~lock.old /\ (Goto(p, "stat", "mkdir") \/ Goto(p, "stat", "idle"))
  /\ UNCHANGED <<snap, count, lock, board, intact, journal, acked>>

(* ... and removes afterwards, whatever lock is there by then. *)
RemoveLock(p) ==
  /\ Goto(p, "remove", "mkdir")
  /\ lock' = Free
  /\ UNCHANGED <<snap, count, board, intact, journal, acked>>

(* Thirty seconds pass.  Only a lock whose owner died gets that old here:   *)
(* a critical section is a few file operations.                             *)
LockAges ==
  /\ lock # Free /\ ~lock.old /\ pc[lock.owner] = "dead"
  /\ lock' = [lock EXCEPT !.old = TRUE]
  /\ UNCHANGED <<pc, snap, count, board, intact, journal, acked>>

-----------------------------------------------------------------------------
(* The update under the lock. *)

(* replayGoalJournal: undefined when it meets a corrupt line that is not a  *)
(* partial last one.                                                        *)
Replay == IF journal.corrupt THEN {} ELSE journal.last

(* What loadPeerGoalBoard returns now; {} also stands for its failure.      *)
Visible == IF intact THEN board ELSE Replay

Load(p) ==
  /\ snap' = [snap EXCEPT ![p] = Visible]
  /\ IF intact \/ Replay # {} THEN Goto(p, "load", "modify") ELSE Goto(p, "load", "fail")
  /\ UNCHANGED <<count, lock, board, intact, journal, acked>>

(* The updater adds its event to the board in memory, or throws. *)
Modify(p) ==
  /\ \/ /\ count[p] < MaxUpdates
        /\ Goto(p, "modify", "append")
        /\ count' = [count EXCEPT ![p] = @ + 1]
        /\ snap' = [snap EXCEPT ![p] = @ \cup {<<p, count[p] + 1>>}]
     \/ Goto(p, "modify", "fail") /\ UNCHANGED <<count, snap>>
  /\ UNCHANGED <<lock, board, intact, journal, acked>>

(* A line that follows a partial one is glued to it: both are lost, and     *)
(* the newline makes the damage permanent until the journal is compacted.   *)
JournalAppend(content) ==
  IF journal.torn THEN [journal EXCEPT !.torn = FALSE, !.corrupt = TRUE]
                  ELSE [journal EXCEPT !.last = content]

(* One fault at a time: the board and its journal are not damaged together. *)
Tearable == MayTear /\ intact

(* appendGoalJournalRecord; a full disk may leave part of the line. *)
AppendJournal(p) ==
  /\ \/ Goto(p, "append", "save") /\ journal' = JournalAppend(snap[p])
     \/ Tearable /\ Goto(p, "append", "fail") /\ journal' = [journal EXCEPT !.torn = TRUE]
     \/ Goto(p, "append", "fail") /\ UNCHANGED journal
  /\ UNCHANGED <<snap, count, lock, board, intact, acked>>

(* writeJsonFileAtomic: a temporary file is renamed over the board.         *)
WriteJsonFileAtomic(value) == board' = value /\ intact' = TRUE

(* saveGoalBoardSnapshot; an error leaves the board as it was.              *)
Save(p) ==
  /\ \/ Goto(p, "save", "compact") /\ WriteJsonFileAtomic(snap[p])
     \/ Goto(p, "save", "fail") /\ UNCHANGED <<board, intact>>
  /\ UNCHANGED <<snap, count, lock, journal, acked>>

CompactToNothing(p) ==      \* as if compaction dropped the snapshot as well
  /\ Goto(p, "compact", "unlock")
  /\ \/ UNCHANGED journal
     \/ journal' = [last |-> {}, torn |-> FALSE, corrupt |-> FALSE]
  /\ UNCHANGED <<snap, count, lock, board, intact, acked>>

(* compactGoalJournal: a journal with one snapshot is renamed over it.      *)
Compacted(value) == [last |-> value, torn |-> FALSE, corrupt |-> FALSE]

(* compactGoalJournalIfLarge: not needed, or failed and ignored, or done. *)
Compact(p) ==
  /\ Goto(p, "compact", "unlock")
  /\ journal' \in {journal, Compacted(snap[p])}
  /\ UNCHANGED <<snap, count, lock, board, intact, acked>>

(* The finally block removes the lock directory, whoever made it. *)
Unlock(p) ==
  /\ \/ Goto(p, "unlock", "idle") /\ acked' = acked \cup {<<p, count[p]>>}
     \/ Goto(p, "fail", "idle") /\ UNCHANGED acked
  /\ lock' = Free
  /\ snap' = [snap EXCEPT ![p] = {}]
  /\ UNCHANGED <<count, board, intact, journal>>

-----------------------------------------------------------------------------
(* The environment. *)

(* A process is killed; in the middle of an append, maybe with half a line. *)
Crash(p) ==
  /\ p \in Crashers /\ pc[p] # "dead"
  /\ pc' = [pc EXCEPT ![p] = "dead"]
  /\ \/ UNCHANGED journal
     \/ Tearable /\ pc[p] = "append" /\ journal' = [journal EXCEPT !.torn = TRUE]
  /\ UNCHANGED <<snap, count, lock, board, intact, acked>>

CorruptBoard ==
  /\ MayCorrupt /\ intact /\ ~journal.torn /\ ~journal.corrupt
  /\ intact' = FALSE
  /\ UNCHANGED <<pc, snap, count, lock, board, journal, acked>>

UpdatePeerGoalBoard(p) ==
  \/ Start(p) \/ MakeLock(p) \/ StatLock(p) \/ RemoveLock(p)
  \/ Load(p) \/ Modify(p) \/ AppendJournal(p) \/ Save(p) \/ Compact(p) \/ Unlock(p)

Next ==
  \/ \E p \in Procs : UpdatePeerGoalBoard(p) \/ Crash(p)
  \/ LockAges
  \/ CorruptBoard

Spec == Init /\ [][Next]_vars

(***************************************************************************)
(* A live process carries on with its update (the event loop), calls again *)
(* (the heartbeat timers of its claims do), and time passes.               *)
(***************************************************************************)
FairSpec ==
  /\ Spec
  /\ \A p \in Procs : WF_vars(UpdatePeerGoalBoard(p))
  /\ WF_vars(LockAges)

-----------------------------------------------------------------------------
(* Properties. *)

(* An update whose caller was told it succeeded is in what the next load    *)
(* returns, also when the board file is damaged and the journal is used,    *)
(* and after appends to the journal that were cut short.                    *)
NoLostUpdate == acked \subseteq Visible

(* The lock of a killed process does not keep the others out for ever.      *)
DeadOwnerIsReplaced ==
  (lock # Free /\ pc[lock.owner] = "dead") ~> (lock = Free \/ pc[lock.owner] # "dead")
=============================================================================
