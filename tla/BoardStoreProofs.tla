-------------------------- MODULE BoardStoreProofs --------------------------
(***************************************************************************)
(* Theorems about BoardStore, for any number of processes and updates, and *)
(* with torn appends and a damaged board: an update that succeeded is not  *)
(* lost, as long as a stale lock has one taker at a time.                  *)
(*                                                                         *)
(* The run of three processes shows that two takers do lose one; the       *)
(* theorem says that nothing else does, and a corollary that two takers    *)
(* need a killed process and two that are left.                            *)
(***************************************************************************)
EXTENDS BoardStore, TLAPS

Updates  == Procs \X Nat
Critical == {"load", "modify", "append", "save", "compact", "unlock", "fail"}
Points   == {"idle", "mkdir", "stat", "remove", "dead"} \cup Critical

StoreShape ==
  /\ pc \in [Procs -> Points]
  /\ snap \in [Procs -> SUBSET Updates]
  /\ count \in [Procs -> Nat]
  /\ lock \in [owner : Procs \cup {NoProc}, old : BOOLEAN]
  /\ board \in SUBSET Updates /\ intact \in BOOLEAN
  /\ journal \in [last : SUBSET Updates, torn : BOOLEAN, corrupt : BOOLEAN]
  /\ acked \in SUBSET Updates

Mine(p) == [owner |-> p, old |-> FALSE]

(* Who updates the board holds a lock that is not old. *)
UpdaterHoldsLock == \A p \in Procs : pc[p] \in Critical => lock = Mine(p)

(* A lock is that of a process that updates the board, or was killed; only  *)
(* the lock of a killed process gets old.                                   *)
LockHasOwner ==
  lock # Free =>
    /\ lock.owner \in Procs
    /\ lock.old => pc[lock.owner] = "dead"

(* Who is about to remove a lock will find the old one it has seen. *)
TakerSeesOldLock == \A p \in Procs : pc[p] = "remove" => lock # Free /\ lock.old

OnlyCrashersDie == \A p \in Procs : pc[p] = "dead" => p \in Crashers

(* What was acknowledged is in the board file, and the journal, while it    *)
(* can be replayed, has it too; the two are not damaged at once.            *)
FilesHaveIt ==
  /\ acked \subseteq board
  /\ ~journal.corrupt => board \subseteq journal.last
  /\ ~intact => ~journal.torn /\ ~journal.corrupt

(* What the updating process has in memory is the board and its update. *)
SnapshotIsNewer ==
  \A p \in Procs :
    /\ pc[p] \in {"modify", "append", "save"} => board \subseteq snap[p]
    /\ pc[p] = "save" /\ ~journal.corrupt => snap[p] \subseteq journal.last
    /\ pc[p] = "compact" => board = snap[p]
    /\ pc[p] \in {"append", "save", "compact"} => <<p, count[p]>> \in snap[p]
    /\ pc[p] = "unlock" => <<p, count[p]>> \in board

LockInv == UpdaterHoldsLock /\ LockHasOwner /\ TakerSeesOldLock /\ OnlyCrashersDie
FileInv == FilesHaveIt /\ SnapshotIsNewer

StoreInv == StoreShape /\ LockInv /\ FileInv

(* No two processes are about to remove the same stale lock. *)
OneTaker == \A p, q \in Procs : pc[p] = "remove" /\ pc[q] = "remove" => p = q

(* There is one updating process at a time. *)
LEMMA OneUpdater ==
  ASSUME LockInv, NEW p \in Procs, NEW q \in Procs, pc[p] \in Critical, pc[q] \in Critical
  PROVE  p = q
BY DEF LockInv, UpdaterHoldsLock, Mine

LEMMA StoreInit == Init => StoreInv
<1> SUFFICES ASSUME Init PROVE StoreInv
  OBVIOUS
<1>1. StoreShape
  BY DEF Init, StoreShape, Free, Points
<1>2. LockInv
  BY DEF Init, Critical, LockInv, UpdaterHoldsLock, LockHasOwner, TakerSeesOldLock,
     OnlyCrashersDie
<1>3. FileInv
  BY DEF Init, FileInv, FilesHaveIt, SnapshotIsNewer
<1>4. QED
  BY <1>1, <1>2, <1>3 DEF StoreInv

(* A process that starts holds nothing yet. *)
LEMMA StartKeeps == ASSUME StoreInv, NEW p \in Procs, Start(p) PROVE StoreInv'
<1> USE StoreConstants DEF StoreInv, Start, Goto, Free
<1>1. StoreShape'
  BY DEF StoreShape, Points
<1>2. LockInv'
  BY DEF Critical, LockInv, UpdaterHoldsLock, LockHasOwner, TakerSeesOldLock, OnlyCrashersDie
<1>3. FileInv'
  BY DEF FileInv, FilesHaveIt, SnapshotIsNewer
<1>4. QED
  BY <1>1, <1>2, <1>3

(* A process makes the lock only where there is none, so that it is the only updater. *)
LEMMA MakeLockKeeps == ASSUME StoreInv, NEW p \in Procs, MakeLock(p) PROVE StoreInv'
<1> USE StoreConstants DEF StoreInv, MakeLock, Goto, Free
<1>1. StoreShape'
  <2>1. CASE lock = Free /\ Goto(p, "mkdir", "load") /\ lock' = Mine(p)
    BY <2>1 DEF StoreShape, Points, Critical, Mine
  <2>2. CASE Goto(p, "mkdir", "stat") /\ UNCHANGED lock
    BY <2>2 DEF StoreShape, Points
  <2>3. QED
    BY <2>1, <2>2 DEF Mine
<1>2. LockInv'
  BY DEF StoreShape, Critical, Mine, LockInv, UpdaterHoldsLock, LockHasOwner, TakerSeesOldLock,
     OnlyCrashersDie
<1>3. FileInv'
  BY DEF StoreShape, FileInv, FilesHaveIt, SnapshotIsNewer
<1>4. QED
  BY <1>1, <1>2, <1>3

(* Whoever goes on to remove a lock has seen an old one. *)
LEMMA StatLockKeeps == ASSUME StoreInv, NEW p \in Procs, StatLock(p) PROVE StoreInv'
<1> USE StoreConstants DEF StoreInv, StatLock, Goto, Free
<1>1. StoreShape'
  BY DEF StoreShape, Points
<1>2. LockInv'
  BY DEF StoreShape, Critical, LockInv, UpdaterHoldsLock, LockHasOwner, TakerSeesOldLock,
     OnlyCrashersDie
<1>3. FileInv'
  BY DEF StoreShape, FileInv, FilesHaveIt, SnapshotIsNewer
<1>4. QED
  BY <1>1, <1>2, <1>3

(* The lock that is removed is still the one of a killed process: this is the
   step that needs the taker to be the only one. *)
LEMMA RemoveLockKeeps == ASSUME StoreInv, OneTaker, NEW p \in Procs, RemoveLock(p) PROVE StoreInv'
<1> USE StoreConstants DEF StoreInv, RemoveLock, Goto, Free
<1>1. StoreShape'
  BY DEF StoreShape, Points
<1>2. LockInv'
  BY DEF StoreShape, Critical, Mine, LockInv, UpdaterHoldsLock, LockHasOwner, TakerSeesOldLock,
     OnlyCrashersDie, OneTaker
<1>3. FileInv'
  BY DEF FileInv, FilesHaveIt, SnapshotIsNewer
<1>4. QED
  BY <1>1, <1>2, <1>3

(* A lock gets old when its owner was killed. *)
LEMMA LockAgesKeeps == ASSUME StoreInv, LockAges PROVE StoreInv'
<1> USE StoreConstants DEF StoreInv, LockAges, Free
<1>1. StoreShape'
  BY DEF StoreShape
<1>2. LockInv'
  BY DEF Critical, Mine, LockInv, UpdaterHoldsLock, LockHasOwner, TakerSeesOldLock,
     OnlyCrashersDie
<1>3. FileInv'
  BY DEF FileInv, FilesHaveIt, SnapshotIsNewer
<1>4. QED
  BY <1>1, <1>2, <1>3

(* What is loaded has everything that was acknowledged. *)
LEMMA LoadKeeps == ASSUME StoreInv, NEW p \in Procs, Load(p) PROVE StoreInv'
<1> USE StoreConstants DEF StoreInv, Load, Goto, Free, Visible, Replay
<1>1. StoreShape'
  BY DEF StoreShape, Points, Critical
<1>2. LockInv'
  BY DEF StoreShape, Critical, LockInv, UpdaterHoldsLock, LockHasOwner, TakerSeesOldLock,
     OnlyCrashersDie
<1>3. FileInv'
  BY DEF StoreShape, FileInv, FilesHaveIt, SnapshotIsNewer
<1>4. QED
  BY <1>1, <1>2, <1>3

(* The update is in memory, on top of the board. *)
LEMMA ModifyKeeps == ASSUME StoreInv, NEW p \in Procs, Modify(p) PROVE StoreInv'
<1> USE StoreConstants DEF StoreInv, Modify, Goto, Free
<1>1. StoreShape'
  BY DEF StoreShape, Points, Critical, Updates
<1>2. LockInv'
  BY DEF StoreShape, Critical, LockInv, UpdaterHoldsLock, LockHasOwner, TakerSeesOldLock,
     OnlyCrashersDie
<1>3. FileInv'
  <2>1. /\ pc[p] \in Critical /\ \A q \in Procs : q # p => pc[q] \notin Critical /\ pc'[q] = pc[q]
        /\ board \subseteq snap[p]
    BY OneUpdater DEF StoreShape, Critical, FileInv, SnapshotIsNewer
  <2>2. FilesHaveIt'
    BY DEF FileInv, FilesHaveIt
  <2>3. \A q \in Procs : q # p => pc'[q] \notin Critical
    BY <2>1
  <2>4. CASE pc' = [pc EXCEPT ![p] = "append"]
             /\ snap' = [snap EXCEPT ![p] = @ \cup {<<p, count[p] + 1>>}]
             /\ count' = [count EXCEPT ![p] = @ + 1]
    <3>1. board' \subseteq snap'[p] /\ <<p, count'[p]>> \in snap'[p] /\ pc'[p] = "append"
      BY <2>1, <2>4 DEF StoreShape
    <3>2. QED
      BY <2>2, <2>3, <3>1 DEF FileInv, SnapshotIsNewer, Critical
  <2>5. CASE pc' = [pc EXCEPT ![p] = "fail"]
    BY <2>2, <2>3, <2>5 DEF FileInv, SnapshotIsNewer, StoreShape
  <2>6. QED
    BY <2>4, <2>5
<1>4. QED
  BY <1>1, <1>2, <1>3

(* The journal gets the board in memory, or is damaged. *)
LEMMA AppendJournalKeeps == ASSUME StoreInv, NEW p \in Procs, AppendJournal(p) PROVE StoreInv'
<1> USE StoreConstants DEF StoreInv, AppendJournal, Goto, Free, JournalAppend, Tearable
<1>1. StoreShape'
  <2>1. pc' \in [Procs -> Points]
    BY DEF StoreShape, Points, Critical
  <2>2. snap[p] \in SUBSET Updates
    BY DEF StoreShape
  <2>3. journal' \in [last : SUBSET Updates, torn : BOOLEAN, corrupt : BOOLEAN]
    BY <2>2 DEF StoreShape
  <2>4. QED
    BY <2>1, <2>3 DEF StoreShape
<1>2. LockInv'
  BY DEF StoreShape, Critical, LockInv, UpdaterHoldsLock, LockHasOwner, TakerSeesOldLock,
     OnlyCrashersDie
<1>3. FileInv'
  <2>1. /\ \A q \in Procs : q # p => pc'[q] \notin Critical
        /\ acked \subseteq board /\ board \subseteq snap[p] /\ <<p, count[p]>> \in snap[p]
        /\ ~journal.corrupt => board \subseteq journal.last
    BY OneUpdater DEF StoreShape, Critical, FileInv, SnapshotIsNewer, FilesHaveIt
  <2>2. CASE Goto(p, "append", "save") /\ journal' = JournalAppend(snap[p])
    <3>1. ~journal'.corrupt => journal'.last = snap[p]
      BY <2>2
    <3>2. ~intact => ~journal'.torn /\ ~journal'.corrupt
      BY <2>2 DEF FileInv, FilesHaveIt
    <3>3. FilesHaveIt'
      BY <2>1, <3>1, <3>2 DEF FilesHaveIt
    <3>4. pc'[p] = "save"
      BY <2>2 DEF StoreShape
    <3>5. QED
      BY <2>1, <3>1, <3>3, <3>4 DEF FileInv, SnapshotIsNewer, Critical
  <2>3. CASE Goto(p, "append", "fail")
    <3>1. journal'.corrupt = journal.corrupt /\ journal'.last = journal.last
          /\ (~intact => journal'.torn = journal.torn)
      BY <2>3 DEF StoreShape
    <3>2. FilesHaveIt'
      BY <2>1, <3>1 DEF FileInv, FilesHaveIt
    <3>3. pc'[p] = "fail"
      BY <2>3 DEF StoreShape
    <3>4. QED
      BY <2>1, <3>2, <3>3 DEF FileInv, SnapshotIsNewer, Critical
  <2>4. QED
    BY <2>2, <2>3
<1>4. QED
  BY <1>1, <1>2, <1>3

(* The board file gets the update. *)
LEMMA SaveKeeps == ASSUME StoreInv, NEW p \in Procs, Save(p) PROVE StoreInv'
<1> USE StoreConstants DEF StoreInv, Save, Goto, Free, WriteJsonFileAtomic
<1>1. StoreShape'
  BY DEF StoreShape, Points, Critical
<1>2. LockInv'
  BY DEF StoreShape, Critical, LockInv, UpdaterHoldsLock, LockHasOwner, TakerSeesOldLock,
     OnlyCrashersDie
<1>3. FileInv'
  <2>1. /\ \A q \in Procs : q # p => pc'[q] \notin Critical
        /\ acked \subseteq board /\ board \subseteq snap[p] /\ <<p, count[p]>> \in snap[p]
        /\ ~journal.corrupt => snap[p] \subseteq journal.last
    BY OneUpdater DEF StoreShape, Critical, FileInv, SnapshotIsNewer, FilesHaveIt
  <2>2. CASE Goto(p, "save", "compact") /\ board' = snap[p] /\ intact' = TRUE
    <3>1. FilesHaveIt' /\ pc'[p] = "compact"
      BY <2>1, <2>2 DEF FilesHaveIt, StoreShape
    <3>2. QED
      BY <2>1, <2>2, <3>1 DEF FileInv, SnapshotIsNewer, Critical
  <2>3. CASE Goto(p, "save", "fail") /\ UNCHANGED <<board, intact>>
    <3>1. FilesHaveIt' /\ pc'[p] = "fail"
      BY <2>3 DEF FileInv, FilesHaveIt, StoreShape
    <3>2. QED
      BY <2>1, <3>1 DEF FileInv, SnapshotIsNewer, Critical
  <2>4. QED
    BY <2>2, <2>3
<1>4. QED
  BY <1>1, <1>2, <1>3

(* Compaction leaves the board that was just saved. *)
LEMMA CompactKeeps == ASSUME StoreInv, NEW p \in Procs, Compact(p) PROVE StoreInv'
<1> USE StoreConstants DEF StoreInv, Compact, Goto, Free, Compacted
<1>1. StoreShape'
  <2>1. pc' \in [Procs -> Points]
    BY DEF StoreShape, Points, Critical
  <2>2. Compacted(snap[p]) \in [last : SUBSET Updates, torn : BOOLEAN, corrupt : BOOLEAN]
    BY DEF StoreShape
  <2>3. QED
    BY <2>1, <2>2 DEF StoreShape
<1>2. LockInv'
  BY DEF Critical, LockInv, UpdaterHoldsLock, LockHasOwner, TakerSeesOldLock, OnlyCrashersDie
<1>3. FileInv'
  <2>1. /\ \A q \in Procs : q # p => pc'[q] \notin Critical
        /\ board = snap[p] /\ <<p, count[p]>> \in snap[p] /\ pc'[p] = "unlock"
    BY OneUpdater DEF StoreShape, Critical, FileInv, SnapshotIsNewer
  <2>2. journal' = journal \/ (journal'.last = board /\ ~journal'.torn /\ ~journal'.corrupt)
    BY <2>1
  <2>3. FilesHaveIt'
    BY <2>2 DEF FileInv, FilesHaveIt
  <2>4. QED
    BY <2>1, <2>3 DEF FileInv, SnapshotIsNewer, Critical
<1>4. QED
  BY <1>1, <1>2, <1>3

(* The update is acknowledged once it is in the board. *)
LEMMA UnlockKeeps == ASSUME StoreInv, NEW p \in Procs, Unlock(p) PROVE StoreInv'
<1> USE StoreConstants DEF StoreInv, Unlock, Goto, Free
<1>1. StoreShape'
  BY DEF StoreShape, Points, Updates
<1>2. LockInv'
  BY DEF StoreShape, Critical, Mine, LockInv, UpdaterHoldsLock, LockHasOwner, TakerSeesOldLock,
     OnlyCrashersDie
<1>3. FileInv'
  BY DEF StoreShape, FileInv, FilesHaveIt, SnapshotIsNewer
<1>4. QED
  BY <1>1, <1>2, <1>3

(* A killed process leaves its lock, and maybe half a line. *)
LEMMA CrashKeeps == ASSUME StoreInv, NEW p \in Procs, Crash(p) PROVE StoreInv'
<1> USE StoreConstants DEF StoreInv, Crash, Goto, Free, Tearable
<1>1. StoreShape'
  BY DEF StoreShape, Points
<1>2. LockInv'
  BY DEF Critical, LockInv, UpdaterHoldsLock, LockHasOwner, TakerSeesOldLock, OnlyCrashersDie
<1>3. FileInv'
  BY DEF StoreShape, FileInv, FilesHaveIt, SnapshotIsNewer
<1>4. QED
  BY <1>1, <1>2, <1>3

(* The board is damaged while the journal has it. *)
LEMMA CorruptBoardKeeps == ASSUME StoreInv, CorruptBoard PROVE StoreInv'
<1> USE StoreConstants DEF StoreInv, CorruptBoard, Free
<1>1. StoreShape'
  BY DEF StoreShape
<1>2. LockInv'
  BY DEF LockInv, UpdaterHoldsLock, LockHasOwner, TakerSeesOldLock, OnlyCrashersDie
<1>3. FileInv'
  BY DEF FileInv, FilesHaveIt, SnapshotIsNewer
<1>4. QED
  BY <1>1, <1>2, <1>3

(* A step leaves the invariant true, provided a stale lock has one taker. *)
LEMMA StoreStep == StoreInv /\ OneTaker /\ [Next]_vars => StoreInv'
<1> SUFFICES ASSUME StoreInv, OneTaker, [Next]_vars PROVE StoreInv'
  OBVIOUS
<1>1. ASSUME NEW p \in Procs, UpdatePeerGoalBoard(p) PROVE StoreInv'
  BY <1>1, StartKeeps, MakeLockKeeps, StatLockKeeps, RemoveLockKeeps, LoadKeeps, ModifyKeeps,
     AppendJournalKeeps, SaveKeeps, CompactKeeps, UnlockKeeps DEF UpdatePeerGoalBoard
<1>2. CASE UNCHANGED vars
  BY <1>2 DEF vars, StoreInv, StoreShape, LockInv, UpdaterHoldsLock, LockHasOwner,
     TakerSeesOldLock, OnlyCrashersDie, FileInv, FilesHaveIt, SnapshotIsNewer
<1>3. QED
  BY <1>1, <1>2, CrashKeeps, LockAgesKeeps, CorruptBoardKeeps DEF Next

LEMMA StoreHasAcknowledged == StoreInv => NoLostUpdate
BY DEF StoreInv, FileInv, FilesHaveIt, NoLostUpdate, Visible, Replay

(* An update whose caller was told it succeeded is in what the next load    *)
(* returns (updatePeerGoalBoard), with appends cut short and a damaged      *)
(* board file, unless two processes take over one stale lock at once        *)
(* (removeStaleGoalBoardLock): that race is the only way to lose one.       *)
THEOREM OnlyTheTakeoverLoses == Spec /\ []OneTaker => []NoLostUpdate
<1>1. QED
  BY StoreInit, StoreStep, StoreHasAcknowledged, PTL DEF Spec

(* A race of takers needs a killed process and two others. *)
LEMMA TakersOutliveACrash ==
  ASSUME StoreInv, \A c \in Crashers : \A p, q \in Procs \ {c} : p = q
  PROVE  OneTaker
<1> SUFFICES ASSUME NEW p \in Procs, NEW q \in Procs, pc[p] = "remove", pc[q] = "remove"
             PROVE  p = q
  BY DEF OneTaker
<1>1. lock.owner \in Procs /\ pc[lock.owner] = "dead"
  BY DEF StoreInv, LockInv, LockHasOwner, TakerSeesOldLock
<1>2. lock.owner \in Crashers /\ lock.owner # p /\ lock.owner # q
  BY <1>1 DEF StoreInv, LockInv, OnlyCrashersDie
<1>3. QED
  BY <1>2

(* With no crash, or with one process left beside the one that crashes,     *)
(* however many updates it takes, none is lost.                             *)
THEOREM NoUpdateIsLost ==
  ASSUME \A c \in Crashers : \A p, q \in Procs \ {c} : p = q
  PROVE  Spec => []NoLostUpdate
<1>1. StoreInv => OneTaker
  BY TakersOutliveACrash
<1>2. QED
  BY <1>1, StoreInit, StoreStep, StoreHasAcknowledged, PTL DEF Spec
=============================================================================
