------------------------- MODULE ControlLedgerProofs -------------------------
(***************************************************************************)
(* Theorems about what sessions note in the control ledger, for any number *)
(* of sessions, processes and runs and with appends that fail: the child   *)
(* processes a session starts (PeerProcesses), the subagent runs of a peer *)
(* (Subruns) and the supervisor of a hive run (HiveRun).                   *)
(***************************************************************************)
EXTENDS PeerProcesses, Subruns, HiveRun, SequenceTheorems, WellFoundedInduction, TLAPS

-----------------------------------------------------------------------------
(***************************************************************************)
(* Child processes.  A start waits for a child it has spawned and enters   *)
(* it among the managed ones only afterwards, over whatever is there.      *)
(* What it writes over lives only if it was spawned, or entered, while     *)
(* this start was already waiting; and then two starts waited for a child  *)
(* of that peer at once, which is what `rival` notes.                      *)
(***************************************************************************)
KidIds == Ids \cup {CHOOSE id \in Ids : TRUE}
Stages == {"none", "awaited", "up", "gone"}
KidStates == [id : KidIds, st : Stages, told : BOOLEAN, rival : BOOLEAN]

StartStates == [ pc : {"new", "next", "waiting", "recording", "failing", "over"},
                 todo : SUBSET Ids, kid : Kids \cup {NoKid} ]

ProcessShape ==
  /\ managed \in [Ids -> Kids \cup {NoKid}]
  /\ kid \in [Kids -> KidStates]
  /\ start \in [Starts -> StartStates]

Waiting(c) == start[c].pc = "waiting"

WaitsForItsKid ==
  \A c \in Starts : Waiting(c) =>
    /\ start[c].kid \in Kids
    /\ kid[start[c].kid].st = "awaited" /\ kid[start[c].kid].id \in Ids

OneWaiter ==
  \A c, d \in Starts : Waiting(c) /\ Waiting(d) /\ start[c].kid = start[d].kid => c = d

AwaitedHasWaiter ==
  \A k \in Kids : kid[k].st = "awaited" => \E c \in Starts : Waiting(c) /\ start[c].kid = k

(* Beside an awaited child no other of its peer lives, but rivals. *)
Apart ==
  \A j, k \in Kids :
    j # k /\ Lives(j) /\ kid[k].st = "awaited" /\ kid[j].id = kid[k].id => kid[j].rival

UpIsManaged == \A k \in Kids : kid[k].st = "up" => managed[kid[k].id] = k \/ kid[k].rival

ProcessInv ==
  /\ ProcessShape
  /\ WaitsForItsKid /\ OneWaiter /\ AwaitedHasWaiter /\ Apart /\ UpIsManaged

LEMMA ProcessBegins == ProcessInit => ProcessInv
<1> SUFFICES ASSUME ProcessInit PROVE ProcessInv
  OBVIOUS
<1>1. ProcessShape
  BY DEF ProcessInit, ProcessShape, StartStates, NotStarting, KidStates, Stages, KidIds
<1>2. (\A c \in Starts : ~Waiting(c)) /\ \A k \in Kids : kid[k].st = "none"
  BY DEF ProcessInit, NotStarting, Waiting
<1>3. QED
  BY <1>1, <1>2 DEF ProcessInv, WaitsForItsKid, OneWaiter, AwaitedHasWaiter, Apart, UpIsManaged, Lives

(* A start moves on, from where it does not wait to where it does not.      *)
LEMMA StartMoves ==
  ASSUME ProcessInv, NEW c \in Starts, NEW new \in StartStates, StartGo(c, new),
         kid' = kid, managed' = managed, ~Waiting(c), new.pc # "waiting"
  PROVE  ProcessInv'
<1>1. /\ start' \in [Starts -> StartStates] /\ start'[c] = new
      /\ \A d \in Starts : d # c => start'[d] = start[d]
  BY DEF StartGo, ProcessInv, ProcessShape
<1>2. ProcessShape' /\ UpIsManaged' /\ Apart'
  BY <1>1 DEF ProcessInv, ProcessShape, UpIsManaged, Apart, Lives
<1>3. WaitsForItsKid' /\ OneWaiter' /\ AwaitedHasWaiter'
  BY <1>1 DEF ProcessInv, WaitsForItsKid, OneWaiter, AwaitedHasWaiter, Waiting
<1>4. QED
  BY <1>2, <1>3 DEF ProcessInv

LEMMA StartMovesKeeps ==
  ASSUME ProcessInv, NEW c \in Starts,
         CallStart(c) \/ StartReturns(c) \/ AlreadyRunning(c) \/ RecordStart(c)
  PROVE  ProcessInv'
<1>1. start[c] \in StartStates /\ Requests[c] \in SUBSET Ids
  BY ProcessConstants DEF ProcessInv, ProcessShape
<1>2. NotStarting \in StartStates /\ NotStarting.pc = "over"
  BY DEF NotStarting, StartStates
<1>3. CASE CallStart(c)
  <2> DEFINE new == [start[c] EXCEPT !.pc = "next", !.todo = Requests[c]]
  <2>1. new \in StartStates /\ new.pc = "next"
    BY <1>1 DEF StartStates
  <2>2. QED
    BY <1>3, <2>1, StartMoves DEF CallStart, Waiting
<1>4. CASE StartReturns(c)
  BY <1>2, <1>4, StartMoves DEF StartReturns, Waiting
<1>5. CASE AlreadyRunning(c)
  <2>1. PICK id \in start[c].todo : StartGo(c, [start[c] EXCEPT !.todo = @ \ {id}])
    BY <1>5 DEF AlreadyRunning
  <2> DEFINE new == [start[c] EXCEPT !.todo = @ \ {id}]
  <2>2. new \in StartStates /\ new.pc = "next"
    BY <1>1, <1>5 DEF StartStates, AlreadyRunning
  <2>3. QED
    BY <1>5, <2>1, <2>2, StartMoves DEF AlreadyRunning, Waiting
<1>6. CASE RecordStart(c)
  <2>1. ~Waiting(c) /\ kid' = kid /\ managed' = managed
    BY <1>6 DEF RecordStart, Waiting
  <2>2. NextPeer(c) \in StartStates /\ NextPeer(c).pc = "next"
    BY <1>1 DEF NextPeer, StartStates
  <2>3. StartGo(c, NextPeer(c)) \/ StartGo(c, NotStarting)
    BY <1>6 DEF RecordStart
  <2>4. QED
    BY <1>2, <2>1, <2>2, <2>3, StartMoves
<1>7. QED
  BY <1>3, <1>4, <1>5, <1>6

(* A child is spawned only where no managed one lives: what lives of the    *)
(* peer is a rival already, or awaited and so becomes one.                  *)
LEMMA SpawnKeeps == ASSUME ProcessInv, NEW c \in Starts, Spawn(c) PROVE ProcessInv'
<1>1. start[c] \in StartStates /\ start[c].pc = "next"
  BY DEF Spawn, ProcessInv, ProcessShape
<1>2. PICK id \in start[c].todo, k \in FreshKid :
        /\ Gone(managed[id])
        /\ kid' = [j \in Kids |-> IF j = k THEN NewKid(id)
                                 ELSE [kid[j] EXCEPT !.rival = @ \/ j \in AwaitedOf(id)]]
        /\ StartGo(c, [start[c] EXCEPT !.pc = "waiting", !.kid = k])
  BY DEF Spawn
<1>3. k \in Kids /\ kid[k].st = "none" /\ id \in Ids
  BY <1>1 DEF FreshKid, StartStates
<1>4. /\ kid'[k].id = id /\ kid'[k].st = "awaited" /\ kid'[k].rival = (AwaitedOf(id) # {})
      /\ NewKid(id) \in KidStates
  BY <1>2, <1>3 DEF NewKid, KidStates, KidIds, Stages
<1>5. ASSUME NEW j \in Kids, j # k
      PROVE  /\ kid'[j] \in KidStates
             /\ kid'[j].st = kid[j].st /\ kid'[j].id = kid[j].id
             /\ kid'[j].rival = (kid[j].rival \/ j \in AwaitedOf(id))
  <2>1. kid[j] \in KidStates
    BY DEF ProcessInv, ProcessShape
  <2>2. kid'[j] = [kid[j] EXCEPT !.rival = @ \/ j \in AwaitedOf(id)]
    BY <1>2, <1>5
  <2> DEFINE b == kid[j].rival \/ j \in AwaitedOf(id)
  <2>3. b \in BOOLEAN
    OBVIOUS
  <2> HIDE DEF b
  <2>4. kid'[j] = [kid[j] EXCEPT !.rival = b]
    BY <2>2 DEF b
  <2>5. QED
    BY <2>1, <2>3, <2>4 DEF KidStates, b
<1>6. /\ start'[c] = [start[c] EXCEPT !.pc = "waiting", !.kid = k]
      /\ start'[c].pc = "waiting" /\ start'[c].kid = k
      /\ start' \in [Starts -> StartStates]
      /\ \A d \in Starts : d # c => start'[d] = start[d]
  BY <1>1, <1>2, <1>3 DEF StartGo, ProcessInv, ProcessShape, StartStates
<1>7. managed' = managed
  BY DEF Spawn
<1>8. ProcessShape'
  <2>1. \A j \in Kids : kid'[j] \in KidStates
    BY <1>2, <1>3, <1>4, <1>5
  <2>2. kid' \in [Kids -> KidStates]
    BY <1>2, <2>1
  <2>3. QED
    BY <1>6, <1>7, <2>2 DEF ProcessInv, ProcessShape
<1>9. ASSUME NEW d \in Starts, d # c, Waiting(d)'
      PROVE  Waiting(d) /\ start'[d] = start[d] /\ start[d].kid # k
  BY <1>3, <1>6, <1>9 DEF ProcessInv, WaitsForItsKid, Waiting
<1>10. WaitsForItsKid'
  <2> SUFFICES ASSUME NEW d \in Starts, Waiting(d)'
               PROVE  /\ start'[d].kid \in Kids
                      /\ kid'[start'[d].kid].st = "awaited" /\ kid'[start'[d].kid].id \in Ids
    BY DEF WaitsForItsKid
  <2>1. CASE d = c
    BY <1>3, <1>4, <1>6, <2>1
  <2>2. CASE d # c
    BY <1>5, <1>9, <2>2 DEF ProcessInv, WaitsForItsKid
  <2>3. QED
    BY <2>1, <2>2
<1>11. OneWaiter'
  BY <1>6, <1>9 DEF ProcessInv, OneWaiter
<1>12. AwaitedHasWaiter'
  <2> SUFFICES ASSUME NEW j \in Kids, kid'[j].st = "awaited"
               PROVE  \E d \in Starts : start'[d].pc = "waiting" /\ start'[d].kid = j
    BY DEF AwaitedHasWaiter, Waiting
  <2>1. CASE j = k
    BY <1>6, <2>1
  <2>2. CASE j # k
    <3>1. PICK d \in Starts : start[d].pc = "waiting" /\ start[d].kid = j
      BY <1>5, <2>2 DEF ProcessInv, AwaitedHasWaiter, Waiting
    <3>2. QED
      BY <1>1, <1>6, <3>1
  <2>3. QED
    BY <2>1, <2>2
<1>13. Apart'
  <2> SUFFICES ASSUME NEW j \in Kids, NEW m \in Kids, j # m, kid'[j].st \in {"awaited", "up"},
                      kid'[m].st = "awaited", kid'[j].id = kid'[m].id
               PROVE  kid'[j].rival
    BY DEF Apart, Lives
  <2>1. CASE j = k
    BY <1>4, <1>5, <2>1 DEF AwaitedOf
  <2>2. CASE m = k
    <3>1. kid[j].id = id /\ kid[j].st \in {"awaited", "up"}
      BY <1>4, <1>5, <2>2
    <3>2. CASE kid[j].st = "awaited"
      BY <1>5, <2>2, <3>1, <3>2 DEF AwaitedOf
    <3>3. CASE kid[j].st = "up"
      <4>1. managed[id] # j
        BY <1>2, <3>3 DEF Gone, Lives
      <4>2. QED
        BY <1>5, <2>2, <3>1, <3>3, <4>1 DEF ProcessInv, UpIsManaged
    <3>4. QED
      BY <3>1, <3>2, <3>3
  <2>3. CASE j # k /\ m # k
    BY <1>5, <2>3 DEF ProcessInv, Apart, Lives
  <2>4. QED
    BY <2>1, <2>2, <2>3
<1>14. UpIsManaged'
  BY <1>4, <1>5, <1>7 DEF ProcessInv, UpIsManaged
<1>15. QED
  BY <1>8, <1>10, <1>11, <1>12, <1>13, <1>14 DEF ProcessInv

(* The child a start waited for is entered, or is gone; the start goes on.  *)
(* What it is entered over is gone, or a rival.                             *)
LEMMA WaitEnds ==
  ASSUME ProcessInv, NEW c \in Starts, ChildIsReady(c) \/ ChildNeverRuns(c)
  PROVE  ProcessInv'
<1> DEFINE k == start[c].kid
           i == kid[k].id
<1>1. start[c] \in StartStates /\ Waiting(c) /\ k \in Kids /\ kid[k].st = "awaited" /\ i \in Ids
  <2>1. start[c] \in StartStates /\ Waiting(c)
    BY DEF ChildIsReady, ChildNeverRuns, Waiting, ProcessInv, ProcessShape
  <2>2. QED
    BY <2>1 DEF ProcessInv, WaitsForItsKid
<1>2. PICK st \in {"up", "gone"}, pc \in {"recording", "failing"} :
        /\ kid' = [kid EXCEPT ![k].st = st]
        /\ StartGo(c, [start[c] EXCEPT !.pc = pc])
        /\ managed' = IF st = "up" THEN [managed EXCEPT ![i] = k] ELSE managed
  BY DEF ChildIsReady, ChildNeverRuns
<1>3. /\ kid'[k].st = st /\ kid'[k].id = i /\ kid'[k].rival = kid[k].rival
      /\ \A j \in Kids : j # k => kid'[j] = kid[j]
  BY <1>1, <1>2 DEF ProcessInv, ProcessShape, KidStates
<1>4. /\ start'[c].pc = pc
      /\ \A d \in Starts : d # c => start'[d] = start[d]
  BY <1>1, <1>2 DEF StartGo, ProcessInv, ProcessShape, StartStates
<1>5. ProcessShape'
  <2>1. [start[c] EXCEPT !.pc = pc] \in StartStates
    BY <1>1, <1>2 DEF StartStates
  <2>2. start' \in [Starts -> StartStates]
    BY <1>2, <2>1 DEF ProcessInv, ProcessShape, StartGo
  <2>3. kid' \in [Kids -> KidStates]
    BY <1>1, <1>2 DEF ProcessInv, ProcessShape, KidStates, Stages
  <2>4. managed' \in [Ids -> Kids \cup {NoKid}]
    BY <1>1, <1>2 DEF ProcessInv, ProcessShape
  <2>5. QED
    BY <2>2, <2>3, <2>4 DEF ProcessShape
<1>6. ASSUME NEW d \in Starts, Waiting(d)'
      PROVE  d # c /\ Waiting(d) /\ start'[d] = start[d] /\ start[d].kid # k
  BY <1>1, <1>2, <1>4, <1>6 DEF Waiting, ProcessInv, OneWaiter
<1>7. WaitsForItsKid' /\ OneWaiter'
  BY <1>3, <1>6 DEF ProcessInv, WaitsForItsKid, OneWaiter
<1>8. AwaitedHasWaiter'
  BY <1>1, <1>2, <1>3, <1>4 DEF ProcessInv, AwaitedHasWaiter, Waiting
<1>9. Apart'
  BY <1>1, <1>2, <1>3 DEF ProcessInv, Apart, Lives
<1>10. UpIsManaged'
  <2> SUFFICES ASSUME NEW j \in Kids, kid'[j].st = "up"
               PROVE  managed'[kid'[j].id] = j \/ kid'[j].rival
    BY DEF UpIsManaged
  <2>1. ASSUME NEW id \in Ids PROVE managed'[id] = IF st = "up" /\ id = i THEN k ELSE managed[id]
    BY <1>1, <1>2 DEF ProcessInv, ProcessShape
  <2>2. CASE j = k
    BY <1>1, <1>3, <2>1, <2>2
  <2>3. CASE j # k /\ kid[j].id = i
    BY <1>1, <1>3, <2>3 DEF ProcessInv, Apart, Lives
  <2>4. CASE j # k /\ kid[j].id # i
    <3>1. kid'[j] = kid[j] /\ managed'[kid[j].id] = managed[kid[j].id]
      BY <1>2, <1>3, <2>4 DEF ProcessInv, ProcessShape
    <3>2. QED
      BY <3>1 DEF ProcessInv, UpIsManaged
  <2>5. QED
    BY <2>2, <2>3, <2>4
<1>11. QED
  BY <1>5, <1>7, <1>8, <1>9, <1>10 DEF ProcessInv

LEMMA ChildExitsKeeps == ASSUME ProcessInv, NEW k \in Kids, ChildExits(k) PROVE ProcessInv'
<1>1. /\ kid[k].st = "up" /\ kid' = [kid EXCEPT ![k].st = "gone"]
      /\ UNCHANGED <<managed, start>>
  BY DEF ChildExits
<1>2. /\ kid'[k].st = "gone"
      /\ \A j \in Kids : /\ kid'[j].id = kid[j].id /\ kid'[j].rival = kid[j].rival
                         /\ j # k => kid'[j].st = kid[j].st
  BY <1>1 DEF ProcessInv, ProcessShape, KidStates
<1>3. ProcessShape'
  BY <1>1 DEF ProcessInv, ProcessShape, KidStates, Stages
<1>4. WaitsForItsKid' /\ OneWaiter' /\ AwaitedHasWaiter' /\ Apart' /\ UpIsManaged'
  BY <1>1, <1>2 DEF ProcessInv, WaitsForItsKid, OneWaiter, AwaitedHasWaiter, Apart, UpIsManaged,
                    Waiting, Lives
<1>5. QED
  BY <1>3, <1>4 DEF ProcessInv

(* Stopping tells a child, and does not forget it. *)
LEMMA StopKeeps ==
  ASSUME ProcessInv, UserStops \/ SessionEnds \/ StopStep \/ UNCHANGED processVars
  PROVE  ProcessInv'
<1>1. /\ UNCHANGED <<managed, start>>
      /\ kid' = kid \/ \E j \in Kids : kid' = [kid EXCEPT ![j].told = TRUE]
  <2>1. CASE UserStops \/ SessionEnds \/ StopReturns \/ UNCHANGED processVars
    BY <2>1 DEF UserStops, SessionEnds, CallStop, StopReturns, processVars
  <2>2. ASSUME NEW id \in Ids, StopOne(id)
        PROVE  /\ UNCHANGED <<managed, start>>
               /\ kid' = kid \/ \E j \in Kids : kid' = [kid EXCEPT ![j].told = TRUE]
    BY <2>2 DEF StopOne, Gone
  <2>3. QED
    BY <2>1, <2>2 DEF StopStep
<1>2. /\ kid' \in [Kids -> KidStates]
      /\ \A j \in Kids : kid'[j].id = kid[j].id /\ kid'[j].st = kid[j].st /\ kid'[j].rival = kid[j].rival
  <2>1. kid \in [Kids -> KidStates]
    BY DEF ProcessInv, ProcessShape
  <2>2. CASE kid' = kid
    BY <2>1, <2>2
  <2>3. ASSUME NEW i \in Kids, kid' = [kid EXCEPT ![i].told = TRUE]
        PROVE  /\ kid' \in [Kids -> KidStates]
               /\ \A j \in Kids : /\ kid'[j].id = kid[j].id /\ kid'[j].st = kid[j].st
                                  /\ kid'[j].rival = kid[j].rival
    BY <2>1, <2>3 DEF KidStates
  <2>4. QED
    BY <1>1, <2>2, <2>3
<1>3. QED
  BY <1>1, <1>2 DEF ProcessInv, ProcessShape, WaitsForItsKid, OneWaiter, AwaitedHasWaiter, Apart,
                    UpIsManaged, Waiting, Lives

LEMMA ProcessStep == ProcessInv /\ [ProcessNext]_<<processLedgerVars, recon>> => ProcessInv'
<1> SUFFICES ASSUME ProcessInv, [ProcessNext]_<<processLedgerVars, recon>> PROVE ProcessInv'
  OBVIOUS
<1>1. ASSUME NEW c \in Starts, StartStep(c) PROVE ProcessInv'
  BY <1>1, StartMovesKeeps, SpawnKeeps, WaitEnds DEF StartStep
<1>2. CASE UNCHANGED <<processLedgerVars, recon>>
  BY <1>2, StopKeeps DEF processLedgerVars
<1>3. QED
  BY <1>1, <1>2, ChildExitsKeeps, StopKeeps DEF ProcessNext

(* A child that runs can be listed and stopped, whichever children exit and *)
(* whichever records the ledger does not take, but for those of a peer that *)
(* two calls of startPeerProcesses waited for at once: between its look at  *)
(* the managed child and its own entry a call waits up to 1.5 s.            *)
THEOREM ChildrenAreKnown == ProcessSpec => []OnlyRivalsAreForgotten
<1>1. ASSUME ProcessInv PROVE OnlyRivalsAreForgotten
  <2> SUFFICES ASSUME NEW k \in Kids, Lives(k) PROVE Known(k) \/ kid[k].rival
    BY DEF OnlyRivalsAreForgotten
  <2>1. CASE kid[k].st = "awaited"
    BY <1>1, <2>1 DEF ProcessInv, AwaitedHasWaiter, Waiting, Known
  <2>2. CASE kid[k].st = "up"
    BY <1>1, <2>2 DEF ProcessInv, UpIsManaged, Known
  <2>3. QED
    BY <2>1, <2>2 DEF Lives
<1>2. QED
  BY <1>1, ProcessBegins, ProcessStep, PTL DEF ProcessSpec

-----------------------------------------------------------------------------
(* The last of some positions. *)

LEMMA LastPosition ==
  ASSUME NEW n \in Nat, NEW I \in SUBSET (1 .. n), I # {}
  PROVE  Max(I) \in I /\ \A i \in I : i <= Max(I)
<1> DEFINE Less == {ss \in Nat \X Nat : ss[1] < ss[2]}
           J == {n - i : i \in I}
<1>1. IsWellFoundedOn(Less, Nat)
  BY NatLessThanWellFounded DEF OpToRel
<1>2. J \subseteq Nat /\ J # {}
  <2>1. \A i \in I : n - i \in Nat
    OBVIOUS
  <2>2. QED
    BY <2>1
<1>3. PICK j \in J : \A y \in J : ~(<<y, j>> \in Less)
  <2> HIDE DEF Less, J
  <2>1. QED
    BY <1>1, <1>2, WFMin
<1>4. PICK x \in I : j = n - x
  OBVIOUS
<1>5. ASSUME NEW y \in I PROVE x >= y
  <2>1. n - y \in J /\ n - y \in Nat /\ n - x \in Nat
    OBVIOUS
  <2>2. <<n - y, n - x>> \in Nat \X Nat /\ <<n - y, n - x>>[1] = n - y /\ <<n - y, n - x>>[2] = n - x
    BY <2>1
  <2>3. ~(n - y < n - x)
    BY <1>3, <1>4, <2>1, <2>2
  <2>4. QED
    BY <2>3
<1>6. \E m \in I : \A y \in I : m >= y
  BY <1>5
<1>7. Max(I) \in I /\ \A y \in I : Max(I) >= y
  BY <1>6 DEF Max
<1>8. QED
  BY <1>7

-----------------------------------------------------------------------------
(***************************************************************************)
(* Subagent runs.  A command records what it looked up when it was called, *)
(* and others record in between.  A completion that gives no count of      *)
(* blocked children found none in the ledger when it looked: if none has   *)
(* been recorded since either, there is none.                              *)
(***************************************************************************)
Counts == UNION {[D -> Nat] : D \in SUBSET {"done", "blocked"}}

RunStatuses ==
  {"", "blocked", "running", "error", "progress", "cancelled", "partial", "done"}

Lines ==
  [ kind : {"subrun", "half a line", "not JSON"}, id : SubrunIds \cup {""},
    status : RunStatuses, metadata : Counts ]

Calls ==
  [ op : {"none", "start", "progress", "complete", "cancel"}, run : SubrunIds \cup {""},
    counts : Counts, attach : BOOLEAN,
    pc : {"idle", "provider", "record", "dispatch", "handoff"}, since : Nat ]

SubrunShape ==
  /\ ledger \in Seq(Lines)
  /\ cmd \in [Commands -> Calls]
  /\ \A c \in Commands : cmd[c].pc = "record" => cmd[c].op \in {"progress", "complete", "cancel"}

(* Whoever records no blocked children found none.                         *)
LookedUp(c) ==
  /\ cmd[c].since <= Len(ledger)
  /\ "blocked" \notin DOMAIN cmd[c].counts =>
       \A i \in Giving("subrun", cmd[c].run, "blocked") : i > cmd[c].since

AllLookedUp == \A c \in Commands : cmd[c].pc = "record" => LookedUp(c)

SubrunInv == SubrunShape /\ BlockedIsNotDone /\ (Loads => AllLookedUp)

LEMMA NoCountsGiven == <<>> \in Counts /\ \A given \in GivenCounts : given \in Counts
BY SubrunConstants DEF Counts

LEMMA SubrunBegins == SubrunInit => SubrunInv
<1> SUFFICES ASSUME SubrunInit PROVE SubrunInv
  OBVIOUS
<1>1. NoCommand \in Calls /\ NoCommand.pc = "idle"
  BY NoCountsGiven DEF NoCommand, Calls
<1>2. SubrunShape /\ AllLookedUp
  BY <1>1 DEF SubrunInit, LedgerInit, SubrunShape, AllLookedUp
<1>3. \A run : StatusOf("subrun", run) = "unknown"
  BY DEF SubrunInit, LedgerInit, StatusOf, RecordsOf
<1>4. QED
  BY <1>2, <1>3 DEF SubrunInv, BlockedIsNotDone

(* A write that leaves the ledger readable appends, or adds nothing to half *)
(* a line.                                                                  *)
LEMMA LineWritten ==
  ASSUME ledger \in Seq(Lines), NEW line \in Lines, WriteLine(line)
  PROVE  /\ ledger' \in Seq(Lines)
         /\ Loads' => /\ Loads
                      /\ \/ line = Torn /\ UNCHANGED ledger
                         \/ ledger' = Append(ledger, line)
<1>1. DOMAIN ledger = 1 .. Len(ledger) /\ Len(ledger) \in Nat
  BY LenProperties
<1>2. CASE EndsTorn
  <2>1. Len(ledger) \in DOMAIN ledger /\ ledger[Len(ledger)] = Torn
    BY <1>1, <1>2, EmptySeq DEF EndsTorn
  <2>2. PICK new \in Lines :
          /\ ledger' = [ledger EXCEPT ![Len(ledger)] = new]
          /\ new = IF line = Torn THEN Torn ELSE Garbage
    <3>1. Garbage \in Lines /\ Torn \in Lines
      BY NoCountsGiven DEF Garbage, Torn, ControlRecord, Lines, RunStatuses
    <3>2. QED
      BY <1>2, <3>1 DEF WriteLine
  <2>3. /\ ledger' \in Seq(Lines) /\ DOMAIN ledger' = DOMAIN ledger
        /\ ledger'[Len(ledger)] = new
        /\ \A i \in DOMAIN ledger : i # Len(ledger) => ledger'[i] = ledger[i]
    BY <2>1, <2>2, ExceptSeq
  <2>4. ASSUME Loads' PROVE Loads /\ line = Torn /\ UNCHANGED ledger
    <3>1. line = Torn
      BY <2>1, <2>2, <2>3, <2>4 DEF Loads
    <3>2. UNCHANGED ledger
      BY <2>1, <2>2, <3>1
    <3>3. QED
      BY <2>4, <3>1, <3>2 DEF Loads
  <2>5. QED
    BY <2>3, <2>4
<1>3. CASE ~EndsTorn
  <2>1. ledger' = Append(ledger, line)
    BY <1>3 DEF WriteLine
  <2>2. /\ ledger' \in Seq(Lines) /\ DOMAIN ledger' = 1 .. Len(ledger) + 1
        /\ \A i \in 1 .. Len(ledger) : ledger'[i] = ledger[i]
    BY <1>1, <2>1, AppendProperties
  <2>3. ASSUME Loads' PROVE Loads
    BY <1>1, <2>2, <2>3 DEF Loads
  <2>4. QED
    BY <2>1, <2>2, <2>3
<1>4. QED
  BY <1>2, <1>3

(* What a new line changes of what is derived of a run.                    *)
LEMMA LineAppended ==
  ASSUME ledger \in Seq(Lines), NEW line \in Lines, ledger' = Append(ledger, line), NEW run, NEW f
  PROVE  /\ Len(ledger') = Len(ledger) + 1
         /\ line.kind = "subrun" /\ line.id = run =>
              /\ StatusOf("subrun", run)' = line.status
              /\ f \in DOMAIN line.metadata =>
                   /\ MetadataOf("subrun", run, f, 0)' = line.metadata[f]
                   /\ Giving("subrun", run, f)' = Giving("subrun", run, f) \cup {Len(ledger) + 1}
         /\ ~(line.kind = "subrun" /\ line.id = run) =>
              StatusOf("subrun", run)' = StatusOf("subrun", run)
         /\ ~(line.kind = "subrun" /\ line.id = run /\ f \in DOMAIN line.metadata) =>
              /\ MetadataOf("subrun", run, f, 0)' = MetadataOf("subrun", run, f, 0)
              /\ Giving("subrun", run, f)' = Giving("subrun", run, f)
<1> DEFINE n == Len(ledger)
           R == RecordsOf("subrun", run)
           G == Giving("subrun", run, f)
           about == line.kind = "subrun" /\ line.id = run
<1>1. /\ n \in Nat /\ DOMAIN ledger = 1 .. n
      /\ Len(ledger') = n + 1 /\ DOMAIN ledger' = 1 .. n + 1 /\ ledger'[n + 1] = line
      /\ \A i \in 1 .. n : ledger'[i] = ledger[i]
  BY LenProperties, AppendProperties
<1>2. R \in SUBSET (1 .. n) /\ G \in SUBSET (1 .. n)
  BY <1>1 DEF Giving, RecordsOf
<1>3. /\ about => R' = R \cup {n + 1}
      /\ ~about => R' = R
  BY <1>1 DEF RecordsOf
<1>4. /\ about /\ f \in DOMAIN line.metadata => G' = G \cup {n + 1}
      /\ ~(about /\ f \in DOMAIN line.metadata) => G' = G
  BY <1>1, <1>2, <1>3 DEF Giving
<1> HIDE DEF R, G
<1>5. ASSUME NEW I \in SUBSET (1 .. n) PROVE Max(I \cup {n + 1}) = n + 1
  <2>1. I \cup {n + 1} \in SUBSET (1 .. n + 1) /\ n + 1 \in Nat
    <3>1. n + 1 \in Nat /\ n + 1 \in 1 .. n + 1
      BY <1>1
    <3>2. \A i \in 1 .. n : i \in 1 .. n + 1
      BY <1>1
    <3>3. QED
      BY <3>1, <3>2
  <2>2. Max(I \cup {n + 1}) \in I \cup {n + 1} /\ n + 1 <= Max(I \cup {n + 1})
    BY <2>1, LastPosition
  <2>3. QED
    BY <1>1, <2>1, <2>2
<1>6. ASSUME NEW I \in SUBSET (1 .. n), I # {} PROVE ledger'[Max(I)] = ledger[Max(I)]
  BY <1>1, <1>6, LastPosition
<1>7. StatusOf("subrun", run) = IF R = {} THEN "unknown" ELSE ledger[Max(R)].status
  BY DEF StatusOf, R
<1>8. StatusOf("subrun", run)' = IF R' = {} THEN "unknown" ELSE ledger'[Max(R')].status
  BY DEF StatusOf, R
<1>9. MetadataOf("subrun", run, f, 0) = IF G = {} THEN 0 ELSE ledger[Max(G)].metadata[f]
  BY DEF MetadataOf, G
<1>10. MetadataOf("subrun", run, f, 0)' = IF G' = {} THEN 0 ELSE ledger'[Max(G')].metadata[f]
  BY DEF MetadataOf, G
<1>11. about => StatusOf("subrun", run)' = line.status
  BY <1>1, <1>2, <1>3, <1>5, <1>8
<1>12. ~about => StatusOf("subrun", run)' = StatusOf("subrun", run)
  <2> SUFFICES ASSUME ~about PROVE StatusOf("subrun", run)' = StatusOf("subrun", run)
    OBVIOUS
  <2>1. R' = R
    BY <1>3
  <2>2. CASE R = {}
    BY <1>7, <1>8, <2>1, <2>2
  <2>3. CASE R # {}
    <3>1. ledger'[Max(R)] = ledger[Max(R)]
      BY <1>2, <1>6, <2>3
    <3>2. Max(R') = Max(R)
      BY <2>1
    <3>3. QED
      BY <1>7, <1>8, <2>1, <2>3, <3>1, <3>2
  <2>4. QED
    BY <2>2, <2>3
<1>13. about /\ f \in DOMAIN line.metadata => MetadataOf("subrun", run, f, 0)' = line.metadata[f]
  BY <1>1, <1>2, <1>4, <1>5, <1>10
<1>14. ~(about /\ f \in DOMAIN line.metadata) =>
         MetadataOf("subrun", run, f, 0)' = MetadataOf("subrun", run, f, 0)
  <2> SUFFICES ASSUME ~(about /\ f \in DOMAIN line.metadata)
               PROVE  MetadataOf("subrun", run, f, 0)' = MetadataOf("subrun", run, f, 0)
    OBVIOUS
  <2>1. G' = G
    BY <1>4
  <2>2. CASE G = {}
    BY <1>9, <1>10, <2>1, <2>2
  <2>3. CASE G # {}
    <3>1. ledger'[Max(G)] = ledger[Max(G)]
      BY <1>2, <1>6, <2>3
    <3>2. Max(G') = Max(G)
      BY <2>1
    <3>3. QED
      BY <1>9, <1>10, <2>1, <2>3, <3>1, <3>2
  <2>4. QED
    BY <2>2, <2>3
<1>15. QED
  BY <1>1, <1>4, <1>11, <1>12, <1>13, <1>14 DEF G

(* A line that may be written: of a run that it calls done it leaves no     *)
(* blocked children in the ledger, or the run is crossed.                   *)
Fits(line) ==
  /\ \A run \in crossed : run \in crossed' \/ (line.kind = "subrun" /\ line.id = run)
  /\ line.kind = "subrun" /\ line.status = "done" =>
       \/ line.id \in crossed'
       \/ "blocked" \in DOMAIN line.metadata /\ line.metadata["blocked"] = 0
       \/ "blocked" \notin DOMAIN line.metadata /\ Giving("subrun", line.id, "blocked") = {}

Wrote ==
  \/ UNCHANGED <<ledger, crossed>>
  \/ \E line \in Lines : WriteLine(line) /\ (Loads => Fits(line))

(* A write leaves what was there. *)
Grows ==
  /\ Loads /\ Len(ledger) <= Len(ledger')
  /\ \A i \in DOMAIN ledger' : i > Len(ledger) \/ (i \in DOMAIN ledger /\ ledger'[i] = ledger[i])

LEMMA WroteWell ==
  ASSUME SubrunInv, Wrote
  PROVE  ledger' \in Seq(Lines) /\ BlockedIsNotDone' /\ (Loads' => Grows)
<1>1. ledger \in Seq(Lines) /\ Len(ledger) \in Nat
  BY LenProperties DEF SubrunInv, SubrunShape
<1>2. ASSUME UNCHANGED ledger, Loads' => crossed \subseteq crossed'
      PROVE  ledger' \in Seq(Lines) /\ BlockedIsNotDone' /\ (Loads' => Grows)
  <2>1. /\ Loads' => Loads
        /\ \A run : /\ Giving("subrun", run, "blocked")' = Giving("subrun", run, "blocked")
                   /\ StatusOf("subrun", run)' = StatusOf("subrun", run)
                   /\ MetadataOf("subrun", run, "blocked", 0)' = MetadataOf("subrun", run, "blocked", 0)
    BY <1>2 DEF Loads, Giving, RecordsOf, StatusOf, MetadataOf
  <2>2. BlockedIsNotDone'
    BY <1>2, <2>1 DEF SubrunInv, BlockedIsNotDone
  <2>3. Len(ledger) <= Len(ledger') /\ \A i \in DOMAIN ledger' : i \in DOMAIN ledger /\ ledger'[i] = ledger[i]
    BY <1>1, <1>2
  <2>4. QED
    BY <1>1, <1>2, <2>1, <2>2, <2>3 DEF Grows
<1>3. ASSUME NEW line \in Lines, WriteLine(line), Loads => Fits(line)
      PROVE  ledger' \in Seq(Lines) /\ BlockedIsNotDone' /\ (Loads' => Grows)
  <2>1. /\ ledger' \in Seq(Lines)
        /\ Loads' => /\ Loads
                     /\ \/ line = Torn /\ UNCHANGED ledger
                        \/ ledger' = Append(ledger, line)
    BY <1>1, <1>3, LineWritten
  <2>2. CASE line = Torn /\ UNCHANGED ledger
    <3>1. line.kind # "subrun"
      BY <2>2 DEF Torn, ControlRecord
    <3>2. QED
      BY <1>2, <1>3, <2>1, <2>2, <3>1 DEF Fits
  <2>3. ASSUME Loads', ledger' = Append(ledger, line), NEW run \in SubrunIds,
               StatusOf("subrun", run)' = "done"
        PROVE  MetadataOf("subrun", run, "blocked", 0)' = 0 \/ run \in crossed'
    <3>1. Loads /\ Fits(line)
      BY <1>3, <2>1, <2>3
    <3>2. CASE line.kind = "subrun" /\ line.id = run
      <4>1. line.status = "done"
        BY <1>1, <2>3, <3>2, LineAppended
      <4>2. CASE "blocked" \in DOMAIN line.metadata /\ line.metadata["blocked"] = 0
        BY <1>1, <2>3, <3>2, <4>2, LineAppended
      <4>3. CASE "blocked" \notin DOMAIN line.metadata /\ Giving("subrun", run, "blocked") = {}
        <5>1. MetadataOf("subrun", run, "blocked", 0)' = MetadataOf("subrun", run, "blocked", 0)
          BY <1>1, <2>3, <3>2, <4>3, LineAppended
        <5>2. QED
          BY <4>3, <5>1 DEF MetadataOf
      <4>4. QED
        BY <3>1, <3>2, <4>1, <4>2, <4>3 DEF Fits
    <3>3. CASE ~(line.kind = "subrun" /\ line.id = run)
      <4>1. /\ StatusOf("subrun", run) = "done"
            /\ MetadataOf("subrun", run, "blocked", 0)' = MetadataOf("subrun", run, "blocked", 0)
        BY <1>1, <2>3, <3>3, LineAppended
      <4>2. QED
        BY <3>1, <3>3, <4>1 DEF SubrunInv, BlockedIsNotDone, Fits
    <3>4. QED
      BY <3>2, <3>3
  <2>4. ASSUME ledger' = Append(ledger, line), Loads PROVE Grows
    <3>1. /\ Len(ledger') = Len(ledger) + 1
          /\ DOMAIN ledger = 1 .. Len(ledger) /\ DOMAIN ledger' = 1 .. Len(ledger) + 1
          /\ \A i \in 1 .. Len(ledger) : ledger'[i] = ledger[i]
      BY <1>1, <2>4, LenProperties, AppendProperties
    <3>2. QED
      BY <1>1, <2>4, <3>1 DEF Grows
  <2>5. QED
    BY <2>1, <2>2, <2>3, <2>4 DEF BlockedIsNotDone
<1>4. QED
  BY <1>2, <1>3 DEF Wrote

(* A command goes on, or ends, after what it may have written. *)
LEMMA CommandGoes ==
  ASSUME SubrunInv, Wrote, NEW c \in Commands, NEW new \in Calls,
         cmd' = [cmd EXCEPT ![c] = new] \/ cmd' = cmd,
         new.pc = "record" =>
           /\ UNCHANGED ledger /\ new.op \in {"progress", "complete", "cancel"}
           /\ new.since = Len(ledger)
           /\ Loads /\ "blocked" \notin DOMAIN new.counts => Giving("subrun", new.run, "blocked") = {}
  PROVE  SubrunInv'
<1>1. /\ Len(ledger) \in Nat /\ ledger' \in Seq(Lines) /\ Len(ledger') \in Nat
      /\ BlockedIsNotDone' /\ (Loads' => Grows)
  BY WroteWell, LenProperties DEF SubrunInv, SubrunShape
<1>2. /\ cmd' \in [Commands -> Calls]
      /\ \A d \in Commands : cmd'[d] = cmd[d] \/ cmd'[d] = new
  BY DEF SubrunInv, SubrunShape
<1>3. ASSUME Loads', NEW d \in Commands, cmd'[d].pc = "record" PROVE LookedUp(d)'
  <2>1. CASE cmd'[d] = cmd[d]
    <3>1. LookedUp(d) /\ Grows /\ cmd[d].since \in Nat /\ DOMAIN ledger' = 1 .. Len(ledger')
      BY <1>1, <1>3, <2>1, LenProperties DEF SubrunInv, SubrunShape, AllLookedUp, Grows, Calls
    <3>2. cmd[d].since <= Len(ledger')
      BY <1>1, <3>1 DEF LookedUp, Grows
    <3>3. ASSUME "blocked" \notin DOMAIN cmd[d].counts, NEW i \in DOMAIN ledger', ledger'[i].kind = "subrun",
                 ledger'[i].id = cmd[d].run, "blocked" \in DOMAIN ledger'[i].metadata
          PROVE  i > cmd[d].since
      <4>1. CASE i > Len(ledger)
        BY <1>1, <3>1, <4>1 DEF LookedUp
      <4>2. CASE i \in DOMAIN ledger /\ ledger'[i] = ledger[i]
        BY <3>1, <3>3, <4>2 DEF LookedUp, Giving, RecordsOf
      <4>3. QED
        BY <3>1, <4>1, <4>2 DEF Grows
    <3>4. QED
      BY <2>1, <3>2, <3>3 DEF LookedUp, Giving, RecordsOf
  <2>2. CASE cmd'[d] = new
    <3>1. /\ UNCHANGED ledger /\ Loads /\ cmd'[d].since = Len(ledger')
          /\ "blocked" \notin DOMAIN new.counts => Giving("subrun", new.run, "blocked") = {}
      BY <1>1, <1>3, <2>2 DEF Grows
    <3>2. QED
      BY <1>1, <2>2, <3>1 DEF LookedUp, Giving, RecordsOf
  <2>3. QED
    BY <1>2, <2>1, <2>2
<1>4. SubrunShape'
  BY <1>1, <1>2 DEF SubrunInv, SubrunShape
<1>5. QED
  BY <1>1, <1>3, <1>4 DEF SubrunInv, AllLookedUp

(* A line that is not of a completion. *)
LEMMA PlainLine ==
  ASSUME SubrunInv, NEW run \in SubrunIds \cup {""}, NEW st \in RunStatuses \ {"done"},
         RecordSubrun(run, st, <<>>), UNCHANGED crossed
  PROVE  Wrote
<1> DEFINE line == ControlRecord("subrun", run, st, <<>>)
<1>1. line \in Lines /\ Fits(line)
  BY NoCountsGiven DEF ControlRecord, Lines, Fits
<1>2. QED
  BY <1>1 DEF RecordSubrun, AppendPeerControlRecord, Wrote

(* What the ledger knows of a count is a number. *)
LEMMA KnownCount ==
  ASSUME SubrunInv, NEW run, NEW f
  PROVE  MetadataOf("subrun", run, f, 0) \in Nat
<1>1. DOMAIN ledger = 1 .. Len(ledger) /\ Len(ledger) \in Nat
      /\ \A i \in DOMAIN ledger : ledger[i] \in Lines
  BY LenProperties, ElementOfSeq DEF SubrunInv, SubrunShape
<1>2. CASE Giving("subrun", run, f) # {}
  <2>1. Giving("subrun", run, f) \in SUBSET (1 .. Len(ledger))
    BY <1>1 DEF Giving, RecordsOf
  <2> DEFINE m == Max(Giving("subrun", run, f))
  <2>2. m \in Giving("subrun", run, f)
    BY <1>1, <1>2, <2>1, LastPosition
  <2>3. ledger[m].metadata \in Counts /\ f \in DOMAIN ledger[m].metadata
    BY <1>1, <2>2 DEF Giving, RecordsOf, Lines
  <2>4. ledger[m].metadata[f] \in Nat
    BY <2>3 DEF Counts
  <2>5. QED
    BY <1>2, <2>4 DEF MetadataOf
<1>3. QED
  BY <1>2 DEF MetadataOf

LEMMA EnrichedCounts ==
  ASSUME SubrunInv, NEW run \in SubrunIds, NEW given \in GivenCounts
  PROVE  /\ Enriched(run, given) \in Counts
         /\ Loads /\ "blocked" \notin DOMAIN Enriched(run, given) => Giving("subrun", run, "blocked") = {}
<1> DEFINE known == {f \in {"done", "blocked"} : Loads /\ Giving("subrun", run, f) # {}}
           D == DOMAIN given \cup known
<1>1. PICK E \in SUBSET {"done", "blocked"} : given \in [E -> Nat]
  BY NoCountsGiven DEF Counts
<1>2. D \in SUBSET {"done", "blocked"}
  BY <1>1
<1>3. \A f \in D : (IF f \in DOMAIN given THEN given[f] ELSE MetadataOf("subrun", run, f, 0)) \in Nat
  BY <1>1, KnownCount
<1>4. Enriched(run, given) \in [D -> Nat]
  BY <1>3 DEF Enriched
<1>5. DOMAIN Enriched(run, given) = D
  BY <1>4
<1>6. Enriched(run, given) \in Counts
  BY <1>2, <1>4 DEF Counts
<1>7. QED
  BY <1>5, <1>6

(* A command records done only if it knows of no blocked children, and     *)
(* there are none or it is crossed.                                         *)
LEMMA RecordedLine ==
  ASSUME SubrunInv, NEW c \in Commands, cmd[c].pc = "record",
         RecordSubrun(cmd[c].run, StatusOfCommand(c), cmd[c].counts),
         crossed' = CASE cmd[c].op # "complete"               -> crossed
                      [] cmd[c].op = "complete" /\ Crosses(c)  -> crossed \cup {cmd[c].run}
                      [] cmd[c].op = "complete" /\ ~Crosses(c) -> crossed \ {cmd[c].run}
  PROVE  Wrote
<1> DEFINE line == ControlRecord("subrun", cmd[c].run, StatusOfCommand(c), cmd[c].counts)
           counts == cmd[c].counts
<1>1. /\ cmd[c] \in Calls /\ cmd[c].op \in {"progress", "complete", "cancel"}
      /\ counts \in Counts /\ cmd[c].run \in SubrunIds \cup {""}
  BY DEF SubrunInv, SubrunShape, Calls
<1>2. CompletionStatus(counts) \in {"partial", "blocked", "done"}
  BY DEF CompletionStatus
<1>3. StatusOfCommand(c) \in RunStatuses
  BY <1>1, <1>2 DEF StatusOfCommand, RunStatuses
<1>4. line \in Lines
  BY <1>1, <1>3 DEF ControlRecord, Lines
<1>5. ASSUME Loads, StatusOfCommand(c) = "done", cmd[c].run \notin crossed'
      PROVE  \/ "blocked" \in DOMAIN counts /\ counts["blocked"] = 0
             \/ "blocked" \notin DOMAIN counts /\ Giving("subrun", cmd[c].run, "blocked") = {}
  <2>1. cmd[c].op = "complete" /\ CompletionStatus(counts) = "done" /\ ~Crosses(c)
    BY <1>1, <1>5 DEF StatusOfCommand
  <2>2. CASE "blocked" \in DOMAIN counts
    <3>1. PICK D \in SUBSET {"done", "blocked"} : counts \in [D -> Nat]
      BY <1>1 DEF Counts
    <3>2. \A f \in DOMAIN counts : counts[f] \in Nat
      BY <3>1
    <3> HIDE DEF counts
    <3>3. QED
      BY <2>1, <2>2, <3>2 DEF CompletionStatus
  <2>3. CASE "blocked" \notin DOMAIN counts
    BY <1>5, <2>1, <2>3 DEF SubrunInv, AllLookedUp, LookedUp, Crosses
  <2>4. QED
    BY <2>2, <2>3
<1>6. \A run \in crossed : run \in crossed' \/ run = cmd[c].run
  OBVIOUS
<1>7. Loads => Fits(line)
  BY <1>5, <1>6 DEF Fits, ControlRecord
<1>8. QED
  BY <1>4, <1>7 DEF RecordSubrun, AppendPeerControlRecord, Wrote

LEMMA SubrunStep == SubrunInv /\ [SubrunNext]_<<subrunVars, ledger, recon>> => SubrunInv'
<1> SUFFICES ASSUME SubrunInv, [SubrunNext]_<<subrunVars, ledger, recon>> PROVE SubrunInv'
  OBVIOUS
<1>1. NoCommand \in Calls /\ NoCommand.pc # "record"
  BY NoCountsGiven DEF NoCommand, Calls
<1>2. ASSUME NEW c \in Commands, StartSubrun(c) PROVE SubrunInv'
  <2>1. PICK run \in SubrunIds :
          \/ RecordSubrun(run, "blocked", <<>>) /\ UNCHANGED cmd
          \/ /\ RecordSubrun(run, "running", <<>>)
             /\ CmdGo(c, [NoCommand EXCEPT !.op = "start", !.run = run, !.pc = "provider"])
          \/ AppendFails /\ UNCHANGED cmd
    BY <1>2 DEF StartSubrun
  <2> DEFINE new == [NoCommand EXCEPT !.op = "start", !.run = run, !.pc = "provider"]
  <2>2. new \in Calls /\ new.pc # "record"
    BY NoCountsGiven DEF NoCommand, Calls
  <2>3. UNCHANGED crossed
    BY <1>2 DEF StartSubrun
  <2>4. Wrote
    BY <2>1, <2>3, PlainLine DEF AppendFails, RunStatuses, Wrote
  <2>5. QED
    BY <2>1, <2>2, <2>4, CommandGoes DEF CmdGo
<1>3. ASSUME NEW c \in Commands, ProviderStarts(c) PROVE SubrunInv'
  <2>1. /\ Over(c) /\ UNCHANGED crossed
        /\ UNCHANGED ledger \/ RecordSubrun(cmd[c].run, "error", <<>>)
    BY <1>3 DEF ProviderStarts, AppendFails
  <2>2. cmd[c].run \in SubrunIds \cup {""}
    BY DEF SubrunInv, SubrunShape, Calls
  <2>3. Wrote
    BY <2>1, <2>2, PlainLine DEF RunStatuses, Wrote
  <2>4. QED
    BY <1>1, <2>1, <2>3, CommandGoes DEF Over, CmdGo
<1>4. ASSUME NEW c \in Commands, CallSubrun(c) PROVE SubrunInv'
  <2> DEFINE New(run, op, given, attach) ==
        [op |-> op, run |-> run, counts |-> Enriched(run, given), attach |-> attach,
         pc |-> "record", since |-> Len(ledger)]
  <2>1. PICK run \in SubrunIds, op \in {"progress", "complete", "cancel"},
             given \in GivenCounts, attach \in BOOLEAN : CmdGo(c, New(run, op, given, attach))
    BY <1>4 DEF CallSubrun
  <2> DEFINE new == New(run, op, given, attach)
  <2>2. Len(ledger) \in Nat
    BY LenProperties DEF SubrunInv, SubrunShape
  <2>3. new \in Calls
    BY <2>2, EnrichedCounts DEF Calls
  <2>4. Loads /\ "blocked" \notin DOMAIN new.counts => Giving("subrun", new.run, "blocked") = {}
    BY EnrichedCounts
  <2>5. UNCHANGED ledger /\ Wrote
    BY <1>4 DEF CallSubrun, Wrote
  <2>6. new.op \in {"progress", "complete", "cancel"} /\ new.since = Len(ledger)
    OBVIOUS
  <2>7. cmd' = [cmd EXCEPT ![c] = new]
    BY <2>1 DEF CmdGo
  <2> HIDE DEF new
  <2>8. QED
    BY <2>3, <2>4, <2>5, <2>6, <2>7, CommandGoes
<1>5. ASSUME NEW c \in Commands, Record(c) PROVE SubrunInv'
  <2>1. Wrote
    BY <1>5, RecordedLine DEF Record, AppendFails, Wrote
  <2>2. [cmd[c] EXCEPT !.pc = "dispatch"] \in Calls
    BY DEF SubrunInv, SubrunShape, Calls
  <2>3. \E new \in Calls : cmd' = [cmd EXCEPT ![c] = new] /\ new.pc # "record"
    BY <1>1, <1>5, <2>2 DEF Record, Over, CmdGo, Calls
  <2>4. QED
    BY <2>1, <2>3, CommandGoes
<1>6. ASSUME NEW c \in Commands, DispatchTask(c) \/ HandOver(c) \/ CommandEnds(c) PROVE SubrunInv'
  <2>1. Wrote
    <3>1. UNCHANGED crossed => Torn \in Lines /\ Fits(Torn)
      BY NoCountsGiven DEF Torn, ControlRecord, Lines, RunStatuses, Fits
    <3>2. QED
      BY <1>6, <3>1 DEF DispatchTask, HandOver, CommandEnds, Wrote
  <2>2. [cmd[c] EXCEPT !.pc = "handoff"] \in Calls
    BY DEF SubrunInv, SubrunShape, Calls
  <2>3. \E new \in Calls : cmd' = [cmd EXCEPT ![c] = new] /\ new.pc # "record"
    BY <1>1, <1>6, <2>2 DEF DispatchTask, HandOver, CommandEnds, Over, CmdGo, Calls
  <2>4. QED
    BY <2>1, <2>3, CommandGoes
<1>7. CASE UNCHANGED <<subrunVars, ledger, recon>>
  <2>1. SubrunShape' /\ AllLookedUp' = AllLookedUp /\ Loads' = Loads
    BY <1>7 DEF subrunVars, SubrunInv, SubrunShape, Loads, AllLookedUp, LookedUp, Giving, RecordsOf
  <2>2. Wrote
    BY <1>7 DEF subrunVars, Wrote
  <2>3. QED
    BY <2>1, <2>2, WroteWell DEF SubrunInv
<1>8. QED
  BY <1>2, <1>3, <1>4, <1>5, <1>6, <1>7 DEF SubrunNext

(* A completion takes the counts of blocked children that earlier commands  *)
(* recorded (enrichRequestFromLedger), so that no run with such children is *)
(* done, whatever several sessions record, fail to record, or leave half    *)
(* written; unless they were recorded while the completion was at work,     *)
(* after its look-up.                                                       *)
THEOREM BlockedRunsAreNotDone == SubrunSpec => []BlockedIsNotDone
<1>1. SubrunInv => BlockedIsNotDone
  BY DEF SubrunInv
<1>2. QED
  BY <1>1, SubrunBegins, SubrunStep, PTL DEF SubrunSpec

-----------------------------------------------------------------------------
(***************************************************************************)
(* The supervisor of a hive run.  Its deadline is set once: a command that *)
(* schedules the run finds nothing of it, in any process or in the ledger, *)
(* since one command at most gets the coordinator's claim, before there is *)
(* any record.  Whatever comes later takes the deadline from what is there *)
(* already, also when a late record has a stopped run resumed.             *)
(***************************************************************************)
Written ==
  /\ ledger \in Seq({ledger[i] : i \in DOMAIN ledger})
  /\ \A i \in DOMAIN ledger : ledger[i].kind = "hive" /\ ledger[i].id = TheRun

ReconStages == {"off", "list", "load", "marking", "marked", "gaveUp", "on"}
Recons == [ pc : ReconStages, live : {{}}, tasks : {{}}, runs : {{}, {TheRun}}, claims : {{}} ]

Ticks == [ pc : {"idle", "rework", "decide", "dispatch"}, first : {"no", "hive", "mission"},
           peers : SUBSET Peers, keys : SUBSET Keys ]

HiveShape ==
  /\ Written
  /\ recon \in [Sessions -> Recons]
  /\ DOMAIN supervisor = Sessions /\ DOMAIN command = Sessions
  /\ DOMAIN stopping = Sessions /\ DOMAIN pending = Sessions
  /\ tick \in [Sessions -> [1 .. Slots -> Ticks]]

(* No process supervises the run, is about to, or has a record of it to append. *)
Still ==
  \A x \in Sessions : /\ ~Supervising(x) /\ stopping[x] = "no" /\ pending[x] = {}
                      /\ TheRun \notin recon[x].runs

Begins(x) == command[x] \in {"tick", "schedule"}

OneBegins == \A x, y \in Sessions : Begins(x) /\ Begins(y) => x = y

BeginsWithClaim == coordinator = "none" => \A x \in Sessions : ~Begins(x)

(* Only the first tick lets a command go on. *)
FirstTickIsOfCommand ==
  \A x \in Sessions : \A i \in 1 .. Slots :
    tick[x][i].first # "no" => i = 1 /\ command[x] = "tick"

BeginsAfresh ==
  coordinator = "none" \/ (\E x \in Sessions : Begins(x)) =>
    Still /\ RecordsOf("hive", TheRun) = {}

HiveInv == HiveShape /\ OneBegins /\ BeginsWithClaim /\ FirstTickIsOfCommand /\ BeginsAfresh

LEMMA HiveBegins == HiveInit => HiveInv
<1> SUFFICES ASSUME HiveInit PROVE HiveInv
  OBVIOUS
<1> USE DEF HiveInit, LedgerInit
<1>1. Written
  BY DEF Written
<1>2. /\ NotRunning \in Recons /\ NotRunning.runs = {} /\ NoSupervisor.on = FALSE
      /\ IdleTick \in Ticks /\ IdleTick.first = "no"
  BY DEF Recons, ReconStages, NotRunning, NoSupervisor, IdleTick, Ticks
<1>3. HiveShape
  BY <1>1, <1>2 DEF HiveShape
<1>4. OneBegins /\ BeginsWithClaim /\ FirstTickIsOfCommand
  BY <1>2 DEF OneBegins, BeginsWithClaim, FirstTickIsOfCommand, Begins
<1>5. Still /\ RecordsOf("hive", TheRun) = {}
  BY <1>2 DEF Still, Supervising, RecordsOf
<1>6. QED
  BY <1>3, <1>4, <1>5 DEF HiveInv, BeginsAfresh

(* The ledger is as it was, but for a line with this metadata. *)
Adds(metadata) ==
  \A i \in DOMAIN ledger' :
    (i \in DOMAIN ledger /\ ledger'[i] = ledger[i]) \/ ledger'[i].metadata = metadata

(* All that is ever written are records of the run. *)
LEMMA RunLine ==
  ASSUME Written, NEW st, NEW metadata, AppendPeerControlRecord("hive", TheRun, st, metadata)
  PROVE  Written' /\ Adds(metadata)
<1> DEFINE line == ControlRecord("hive", TheRun, st, metadata)
           S == {ledger[i] : i \in DOMAIN ledger} \cup {line}
<1>1. /\ DOMAIN ledger = 1 .. Len(ledger) /\ Len(ledger) \in Nat
      /\ ledger = [i \in 1 .. Len(ledger) |-> ledger[i]]
  BY DEF Written
<1>2. line.kind = "hive" /\ line.id = TheRun /\ line.metadata = metadata /\ WriteLine(line)
  BY DEF AppendPeerControlRecord, ControlRecord
<1> HIDE DEF line
<1>3. ledger \in Seq(S) /\ line \in S
  BY <1>1, SeqDef
<1> HIDE DEF S
<1>4. ~EndsTorn
  <2>1. ledger # <<>> => Len(ledger) \in DOMAIN ledger
    BY <1>1, <1>3, EmptySeq
  <2>2. Torn.kind # "hive"
    BY DEF Torn, ControlRecord
  <2>3. QED
    BY <2>1, <2>2 DEF EndsTorn, Written
<1>5. ledger' = Append(ledger, line)
  BY <1>2, <1>4 DEF WriteLine
<1>6. /\ ledger' \in Seq(S) /\ DOMAIN ledger' = 1 .. Len(ledger) + 1
      /\ ledger'[Len(ledger) + 1] = line
      /\ \A i \in 1 .. Len(ledger) : ledger'[i] = ledger[i]
  BY <1>1, <1>3, <1>5, AppendProperties
<1>7. ledger' = [i \in 1 .. Len(ledger') |-> ledger'[i]] /\ Len(ledger') \in Nat
  BY <1>6
<1>8. ledger' \in Seq({ledger'[i] : i \in DOMAIN ledger'})
  BY <1>7, SeqDef
<1>9. \A i \in DOMAIN ledger' : ledger'[i].kind = "hive" /\ ledger'[i].id = TheRun
  BY <1>1, <1>2, <1>6 DEF Written
<1>10. Adds(metadata)
  BY <1>1, <1>2, <1>6 DEF Adds
<1>11. QED
  BY <1>8, <1>9, <1>10 DEF Written

LEMMA NoTasks == ASSUME Written PROVE ActiveLedgerTasks = {} /\ WithClaim = {} /\ DisconnectedTasks = {}
BY DEF Written, ActiveLedgerTasks, WithClaim, DisconnectedTasks, IdsOf

(* One session's reconciliation notes nothing but the run, and only a run   *)
(* it found in the ledger.                                                  *)
LEMMA Reconciles ==
  ASSUME HiveShape, NEW x \in Sessions, Reconcile(x)
  PROVE  /\ Written' /\ Adds(<<>>)
         /\ \E new \in Recons :
              /\ recon' = [recon EXCEPT ![x] = new]
              /\ TheRun \notin recon[x].runs /\ TheRun \notin ActiveHiveRuns(clock)
                   => TheRun \notin new.runs /\ UNCHANGED ledger
<1> DEFINE r == recon[x]
<1>1. r \in Recons /\ Written
  BY DEF HiveShape
<1> HIDE DEF r
<1>2. UNCHANGED ledger => Written' /\ Adds(<<>>)
  BY <1>1 DEF Written, Adds
<1>3. ASSUME NEW new \in Recons, ReconGo(x, new), UNCHANGED ledger,
             TheRun \notin r.runs /\ TheRun \notin ActiveHiveRuns(clock) => TheRun \notin new.runs
      PROVE  /\ Written' /\ Adds(<<>>)
             /\ \E n \in Recons :
                  /\ recon' = [recon EXCEPT ![x] = n]
                  /\ TheRun \notin r.runs /\ TheRun \notin ActiveHiveRuns(clock)
                       => TheRun \notin n.runs /\ UNCHANGED ledger
  BY <1>2, <1>3 DEF ReconGo
<1>4. ASSUME NEW p \in ReconStages
      PROVE  /\ [r EXCEPT !.pc = p, !.live = {}] \in Recons
             /\ [r EXCEPT !.pc = p, !.live = {}].runs = r.runs
             /\ [r EXCEPT !.pc = p] \in Recons
             /\ [r EXCEPT !.pc = p].runs = r.runs
  BY <1>1 DEF Recons
<1>5. CASE ListLive(x, {})
  BY <1>3, <1>4, <1>5 DEF ListLive, r, ReconStages
<1>6. Marked(x) \in Recons /\ Marked(x).runs = r.runs
  BY <1>1, NoTasks DEF Marked, r, Recons, ReconStages
<1>7. CASE LoadLedger(x, LiveRuns(x), clock)
  <2> DEFINE runs == ActiveHiveRuns(clock) \ LiveRuns(x)
             new  == [r EXCEPT !.pc = "marking", !.tasks = {}, !.runs = runs]
  <2>1. runs \in {{}, {TheRun}}
    BY <1>1 DEF ActiveHiveRuns, IdsOf, Written
  <2>2. new \in Recons /\ new.runs = runs
    BY <1>1, <2>1 DEF Recons, ReconStages
  <2>3. ActiveLedgerTasks \ recon[x].live = {}
    BY <1>1, NoTasks
  <2>4. \/ ReconGo(x, [r EXCEPT !.pc = "gaveUp"])
        \/ ReconGo(x, Marked(x))
        \/ ReconGo(x, new)
    BY <1>7, <2>3 DEF LoadLedger, r
  <2>5. UNCHANGED ledger
    BY <1>7 DEF LoadLedger
  <2>6. TheRun \notin ActiveHiveRuns(clock) => TheRun \notin new.runs
    BY <2>2
  <2> HIDE DEF new, runs
  <2>7. QED
    BY <1>3, <1>4, <1>6, <2>2, <2>4, <2>5, <2>6 DEF r, ReconStages
<1>8. CASE MarkDisconnected(x)
  BY <1>1, <1>8 DEF MarkDisconnected, Recons, r
<1>9. CASE MarkRecovered(x)
  <2>1. PICK id \in r.runs :
          \/ /\ AppendPeerControlRecord("hive", id, "recovered", <<>>)
             /\ ReconGo(x, [r EXCEPT !.runs = @ \ {id}])
          \/ AppendFails /\ ReconGo(x, [r EXCEPT !.pc = "gaveUp"])
    BY <1>9 DEF MarkRecovered, r
  <2>2. CASE AppendFails /\ ReconGo(x, [r EXCEPT !.pc = "gaveUp"])
    BY <1>3, <1>4, <2>2 DEF AppendFails, r, ReconStages
  <2>3. CASE /\ AppendPeerControlRecord("hive", id, "recovered", <<>>)
             /\ ReconGo(x, [r EXCEPT !.runs = @ \ {id}])
    <3>1. id = TheRun /\ TheRun \in r.runs
      BY <1>1, <2>1 DEF Recons, ReconStages
    <3>2. Written' /\ Adds(<<>>)
      BY <1>1, <2>3, <3>1, RunLine
    <3>3. [r EXCEPT !.runs = @ \ {id}] \in Recons
      BY <1>1, <3>1 DEF Recons
    <3>4. QED
      BY <2>3, <3>1, <3>2, <3>3 DEF ReconGo, r
  <2>4. QED
    BY <2>1, <2>2, <2>3
<1>10. CASE Reload(x)
  BY <1>3, <1>4, <1>6, <1>10 DEF Reload, r, ReconStages
<1>11. QED
  BY <1>5, <1>7, <1>8, <1>9, <1>10 DEF Reconcile, ReconcileStep

(* A step of a tick: it goes on as the tick it was, or ends, and the first  *)
(* tick of a command lets it be scheduled.                                  *)
LEMMA TickMoves ==
  ASSUME HiveShape, NEW x \in Sessions, NEW i \in 1 .. Slots, TickStep(x, i)
  PROVE  /\ UNCHANGED <<ledgerVars, clock, supervisor, stopping, pending, coordinator>>
         /\ \E new \in Ticks :
              /\ tick' = [tick EXCEPT ![x][i] = new]
              /\ \/ new.first = tick[x][i].first /\ UNCHANGED command
                 \/ /\ new.first = "no"
                    /\ command' = IF tick[x][i].first # "no" THEN [command EXCEPT ![x] = "schedule"]
                                  ELSE command
<1> DEFINE t == tick[x][i]
           Moves == \E new \in Ticks :
              /\ tick' = [tick EXCEPT ![x][i] = new]
              /\ \/ new.first = t.first /\ UNCHANGED command
                 \/ /\ new.first = "no"
                    /\ command' = IF t.first # "no" THEN [command EXCEPT ![x] = "schedule"]
                                  ELSE command
<1>1. t \in Ticks /\ IdleTick \in Ticks /\ IdleTick.first = "no"
  <2>1. t \in Ticks
    BY DEF HiveShape
  <2>2. IdleTick \in Ticks /\ IdleTick.first = "no"
    BY DEF IdleTick, Ticks
  <2>3. QED
    BY <2>1, <2>2
<1>2. Ends(x, i) => Moves
  BY <1>1 DEF Ends, SetTick
<1> HIDE DEF t
<1>3. ASSUME NEW new \in Ticks, new.first = t.first, GoesOn(x, i, new) PROVE Moves
  BY <1>3 DEF GoesOn, SetTick
<1> HIDE DEF Moves
<1>4. ASSUME NEW K \in SUBSET Keys, NEW P \in SUBSET Peers
      PROVE  /\ [t EXCEPT !.pc = "decide"] \in Ticks
             /\ [t EXCEPT !.pc = "decide"].first = t.first
             /\ [t EXCEPT !.pc = "decide", !.keys = K] \in Ticks
             /\ [t EXCEPT !.pc = "decide", !.keys = K].first = t.first
             /\ [t EXCEPT !.pc = "dispatch", !.keys = K] \in Ticks
             /\ [t EXCEPT !.pc = "dispatch", !.keys = K].first = t.first
             /\ [t EXCEPT !.keys = K, !.peers = P] \in Ticks
             /\ [t EXCEPT !.keys = K, !.peers = P].first = t.first
  BY <1>1 DEF Ticks
<1>5. CASE SeedRework(x, i)
  <2>1. Suggestions \in SUBSET Keys
    BY DEF Suggestions
  <2>2. \/ GoesOn(x, i, [t EXCEPT !.pc = "decide"])
        \/ GoesOn(x, i, [t EXCEPT !.pc = "decide", !.keys = Suggestions])
    BY <1>5 DEF SeedRework, t
  <2>3. Moves
    BY <1>3, <1>4, <2>1, <2>2
  <2>4. QED
    BY <1>5, <2>3 DEF SeedRework, OnlyTick, Moves, t
<1>6. CASE Decide(x, i)
  <2>1. \/ Ends(x, i)
        \/ \E keys \in SUBSET t.keys : GoesOn(x, i, [t EXCEPT !.pc = "dispatch", !.keys = keys])
    BY <1>6 DEF Decide, t
  <2>2. t.keys \subseteq Keys
    BY <1>1 DEF Ticks
  <2>3. Moves
    BY <1>2, <1>3, <1>4, <2>1, <2>2
  <2>4. QED
    BY <1>6, <2>3 DEF Decide, OnlyTick, Moves, t
<1>7. CASE DispatchSuggestion(x, i)
  <2>1. PICK k \in t.keys, p \in t.peers : OneLess(x, i, k, p)
    BY <1>7 DEF DispatchSuggestion, t
  <2>2. /\ t.keys \ {k} \in SUBSET Keys /\ t.peers \ {p} \in SUBSET Peers
    BY <1>1 DEF Ticks
  <2>3. \/ Ends(x, i)
        \/ GoesOn(x, i, [t EXCEPT !.keys = t.keys \ {k}, !.peers = t.peers \ {p}])
    BY <2>1 DEF OneLess, t
  <2>4. Moves
    BY <1>2, <1>3, <1>4, <2>2, <2>3
  <2>5. QED
    BY <1>7, <2>4 DEF DispatchSuggestion, boardVars, Moves, t
<1>8. QED
  BY <1>5, <1>6, <1>7 DEF TickStep

LEMMA Looking ==
  ASSUME HiveShape, NEW x \in Sessions, NEW i \in 1 .. Slots, NEW first \in {"no", "hive", "mission"},
         Looks(x, i, first)
  PROVE  \E new \in Ticks : new.first = first /\ tick' = [tick EXCEPT ![x][i] = new]
<1> DEFINE new == [pc |-> IF ReworkIsMissing THEN "rework" ELSE "decide",
                   first |-> first, peers |-> Healthy(x, Peers), keys |-> Suggestions]
<1>1. new \in Ticks /\ new.first = first
  BY DEF Healthy, Suggestions, Ticks
<1>2. tick' = [tick EXCEPT ![x][i] = new]
  BY DEF Looks, SetTick
<1>3. QED
  BY <1>1, <1>2

(* The steps of a session that has no part in the run, or only reads it.    *)
LEMMA HiveShapeStep ==
  ASSUME HiveShape, [HiveNext]_hiveVars PROVE HiveShape'
<1> DEFINE Rest == /\ DOMAIN supervisor' = Sessions /\ DOMAIN command' = Sessions
                   /\ DOMAIN stopping' = Sessions /\ DOMAIN pending' = Sessions
                   /\ tick' \in [Sessions -> [1 .. Slots -> Ticks]]
<1>1. NotRunning \in Recons /\ [NotRunning EXCEPT !.pc = "on"] \in Recons
      /\ [NotRunning EXCEPT !.pc = "list"] \in Recons
  BY DEF NotRunning, Recons, ReconStages
<1>2. IdleTick \in Ticks
  BY DEF IdleTick, Ticks
<1>3. UNCHANGED ledger => Written'
  BY DEF HiveShape, Written
<1>4. UNCHANGED <<supervisor, command, stopping, pending, tick>> => Rest
  BY DEF HiveShape
<1>5. ASSUME Written', Rest, recon' = recon \/ \E x \in Sessions, new \in Recons : ReconGo(x, new)
      PROVE  HiveShape'
  BY <1>5 DEF HiveShape, ReconGo
<1>6. ASSUME NEW x \in Sessions, Start(x) \/ Shutdown(x) PROVE HiveShape'
  <2>1. UNCHANGED <<ledger, supervisor, command, stopping, pending, tick>>
    BY <1>6 DEF Start, SessionStart, Shutdown, OnlyLedger
  <2>2. \E new \in Recons : ReconGo(x, new)
    BY <1>1, <1>6 DEF Start, SessionStart, Shutdown
  <2>3. QED
    BY <1>3, <1>4, <1>5, <2>1, <2>2
<1>7. ASSUME NEW x \in Sessions, Kill(x) PROVE HiveShape'
  <2>1. UNCHANGED ledger /\ \E new \in Recons : ReconGo(x, new)
    BY <1>1, <1>7 DEF Kill
  <2>2. Rest
    BY <1>2, <1>7 DEF Kill, HiveShape
  <2>3. QED
    BY <1>3, <1>5, <2>1, <2>2
<1>8. ASSUME NEW x \in Sessions, SessionStep(x) PROVE HiveShape'
  <2>1. CASE Reconcile(x)
    <3>1. UNCHANGED <<supervisor, command, stopping, pending, tick>>
      BY <2>1 DEF Reconcile, OnlyLedger
    <3>2. QED
      BY <1>4, <1>5, <2>1, <3>1, Reconciles DEF ReconGo
  <2>2. CASE ResumePersistedHiveRuns(x)
    <3>1. UNCHANGED ledger /\ \E new \in Recons : ReconGo(x, new)
      BY <1>1, <2>2 DEF ResumePersistedHiveRuns
    <3>2. Rest
      BY <2>2 DEF ResumePersistedHiveRuns, ResumeRun, Schedule, Put, HiveShape
    <3>3. QED
      BY <1>3, <1>5, <3>1, <3>2
  <2>3. QED
    BY <1>8, <2>1, <2>2 DEF SessionStep
<1>9. ASSUME NEW x \in Sessions, NEW kind \in {"hive", "mission"}, BeginRun(x, kind)
      PROVE  HiveShape'
  <2>1. UNCHANGED <<ledger, recon, supervisor, stopping, pending>> /\ DOMAIN command' = Sessions
    BY <1>9 DEF BeginRun, HiveShape, ledgerVars
  <2>2. tick' = tick \/ Looks(x, 1, kind)
    BY <1>9 DEF BeginRun
  <2>3. 1 \in 1 .. Slots
    BY HiveConstants
  <2>4. tick' \in [Sessions -> [1 .. Slots -> Ticks]]
    <3>1. CASE UNCHANGED tick
      BY <3>1 DEF HiveShape
    <3>2. CASE Looks(x, 1, kind)
      <4>1. PICK new \in Ticks : tick' = [tick EXCEPT ![x][1] = new]
        BY <2>3, <3>2, Looking
      <4>2. QED
        BY <4>1 DEF HiveShape
    <3>3. QED
      BY <2>2, <3>1, <3>2
  <2>5. Rest
    BY <2>1, <2>4 DEF HiveShape
  <2>6. QED
    BY <1>3, <1>5, <2>1, <2>5
<1>10. ASSUME NEW x \in Sessions, HiveRunCommand(x) \/ StartAutonomousMissionSupervisor(x)
       PROVE  HiveShape'
  <2>1. CASE BeginRun(x, "hive") \/ BeginRun(x, "mission")
    BY <1>9, <2>1
  <2>2. CASE ~(BeginRun(x, "hive") \/ BeginRun(x, "mission"))
    <3>1. /\ command' = [command EXCEPT ![x] = "over"]
          /\ UNCHANGED <<ledger, recon, supervisor, stopping, pending, tick>>
      BY <1>10, <2>2 DEF HiveRunCommand, StartAutonomousMissionSupervisor, ledgerVars
    <3>2. QED
      BY <1>3, <1>5, <3>1 DEF HiveShape
  <2>3. QED
    BY <2>1, <2>2
<1>11. ASSUME NEW x \in Sessions, ScheduleRun(x) PROVE HiveShape'
  BY <1>3, <1>5, <1>11 DEF ScheduleRun, Schedule, Put, ledgerVars, HiveShape
<1>12. ASSUME NEW x \in Sessions, IntervalTick(x) PROVE HiveShape'
  <2>1. /\ UNCHANGED <<ledger, recon, command, stopping>>
        /\ DOMAIN supervisor' = Sessions /\ DOMAIN pending' = Sessions
    BY <1>12 DEF IntervalTick, Put, ledgerVars, HiveShape
  <2>2. tick' = tick \/ \E i \in 1 .. Slots : Looks(x, i, "no")
    BY <1>12 DEF IntervalTick
  <2>3. tick' \in [Sessions -> [1 .. Slots -> Ticks]]
    <3>1. CASE UNCHANGED tick
      BY <3>1 DEF HiveShape
    <3>2. ASSUME NEW i \in 1 .. Slots, Looks(x, i, "no") PROVE tick' \in [Sessions -> [1 .. Slots -> Ticks]]
      <4>1. PICK new \in Ticks : tick' = [tick EXCEPT ![x][i] = new]
        BY <3>2, Looking
      <4>2. QED
        BY <4>1 DEF HiveShape
    <3>3. QED
      BY <2>2, <3>1, <3>2
  <2>4. Rest
    BY <2>1, <2>3 DEF HiveShape
  <2>5. QED
    BY <1>3, <1>5, <2>1, <2>4
<1>13. ASSUME NEW x \in Sessions, NEW reason, Stop(x, reason) PROVE HiveShape'
  BY <1>3, <1>5, <1>13 DEF Stop, ledgerVars, HiveShape
<1>14. ASSUME NEW x \in Sessions, ReleaseCoordinator(x) PROVE HiveShape'
  BY <1>3, <1>5, <1>14 DEF ReleaseCoordinator, Put, ledgerVars, HiveShape
<1>15. ASSUME NEW x \in Sessions, AppendPending(x) PROVE HiveShape'
  <2>1. UNCHANGED <<recon, supervisor, command, stopping, tick>> /\ DOMAIN pending' = Sessions
    BY <1>15 DEF AppendPending, HiveShape
  <2>2. Written'
    <3>1. PICK r \in pending[x] :
            AppendPeerControlRecord("hive", TheRun, r.status, r.metadata) \/ AppendFails
      BY <1>15 DEF AppendPending
    <3>2. Written
      BY DEF HiveShape
    <3>3. QED
      BY <1>3, <3>1, <3>2, RunLine DEF AppendFails
  <2>3. QED
    BY <1>5, <2>1, <2>2 DEF HiveShape
<1>16. ASSUME NEW x \in Sessions, NEW i \in 1 .. Slots, TickStep(x, i) PROVE HiveShape'
  <2>1. UNCHANGED <<ledger, recon, supervisor, stopping, pending>>
    BY <1>16, TickMoves DEF ledgerVars
  <2>2. tick' \in [Sessions -> [1 .. Slots -> Ticks]] /\ DOMAIN command' = Sessions
    <3>1. PICK new \in Ticks :
            /\ tick' = [tick EXCEPT ![x][i] = new]
            /\ command' = command \/ command' = [command EXCEPT ![x] = "schedule"]
      BY <1>16, TickMoves
    <3>2. QED
      BY <3>1 DEF HiveShape
  <2>3. QED
    BY <1>3, <1>5, <2>1, <2>2 DEF HiveShape
<1>17. CASE (\E k \in Keys : SendMessage(k) \/ MessageEnds(k)) \/ PassTime \/ UNCHANGED hiveVars
  <2>1. UNCHANGED <<ledger, recon, supervisor, command, stopping, pending, tick>>
    BY <1>17 DEF SendMessage, MessageEnds, PassTime, OnlyMessage, hiveVars, ledgerVars
  <2>2. QED
    BY <1>3, <1>4, <1>5, <2>1
<1>18. QED
  BY <1>6, <1>7, <1>8, <1>10, <1>11, <1>12, <1>13, <1>14, <1>15, <1>16, <1>17
     DEF HiveNext, UserStop, MaxTicksStop, DeadlineStop

(* With nothing of the run left and the ledger not calling it active, only  *)
(* a command that schedules it can bring it back.                           *)
LEMMA StaysStill ==
  ASSUME HiveShape, Still, TheRun \notin ActiveHiveRuns(clock),
         [HiveNext]_hiveVars, \A x \in Sessions : ~ScheduleRun(x)
  PROVE  Still' /\ UNCHANGED ledger
<1>1. ASSUME UNCHANGED <<ledger, supervisor, stopping, pending>>,
             \/ UNCHANGED recon
             \/ \E x \in Sessions, new \in Recons : ReconGo(x, new) /\ TheRun \notin new.runs
      PROVE  Still' /\ UNCHANGED ledger
  BY <1>1 DEF Still, Supervising, ReconGo, HiveShape
<1>2. /\ NotRunning \in Recons /\ NotRunning.runs = {}
      /\ [NotRunning EXCEPT !.pc = "on"] \in Recons /\ [NotRunning EXCEPT !.pc = "on"].runs = {}
      /\ [NotRunning EXCEPT !.pc = "list"] \in Recons /\ [NotRunning EXCEPT !.pc = "list"].runs = {}
  BY DEF NotRunning, Recons, ReconStages
<1>3. ASSUME NEW x \in Sessions, Start(x) \/ Shutdown(x) PROVE Still' /\ UNCHANGED ledger
  <2>1. UNCHANGED <<ledger, supervisor, stopping, pending>>
    BY <1>3 DEF Start, SessionStart, Shutdown, OnlyLedger
  <2>2. \E new \in Recons : ReconGo(x, new) /\ TheRun \notin new.runs
    BY <1>2, <1>3 DEF Start, SessionStart, Shutdown
  <2>3. QED
    BY <1>1, <2>1, <2>2
<1>4. ASSUME NEW x \in Sessions, Kill(x) PROVE Still' /\ UNCHANGED ledger
  BY <1>2, <1>4 DEF Kill, ReconGo, NoSupervisor, Still, Supervising, HiveShape
<1>5. ASSUME NEW x \in Sessions, SessionStep(x) PROVE Still' /\ UNCHANGED ledger
  <2>1. CASE Reconcile(x)
    <3>1. PICK new \in Recons :
            /\ recon' = [recon EXCEPT ![x] = new]
            /\ TheRun \notin recon[x].runs /\ TheRun \notin ActiveHiveRuns(clock)
                 => TheRun \notin new.runs /\ UNCHANGED ledger
      BY <2>1, Reconciles
    <3>2. TheRun \notin new.runs /\ UNCHANGED ledger
      BY <3>1 DEF Still
    <3>3. UNCHANGED <<supervisor, stopping, pending>>
      BY <2>1 DEF Reconcile, OnlyLedger
    <3>4. QED
      BY <1>1, <3>1, <3>2, <3>3 DEF ReconGo
  <2>2. CASE ResumePersistedHiveRuns(x)
    <3>1. UNCHANGED <<ledger, supervisor, stopping, pending>>
      BY <2>2 DEF ResumePersistedHiveRuns
    <3>2. \E new \in Recons : ReconGo(x, new) /\ TheRun \notin new.runs
      BY <1>2, <2>2 DEF ResumePersistedHiveRuns
    <3>3. QED
      BY <1>1, <3>1, <3>2
  <2>3. QED
    BY <1>5, <2>1, <2>2 DEF SessionStep
<1>6. ASSUME NEW x \in Sessions,
             \/ HiveRunCommand(x) \/ StartAutonomousMissionSupervisor(x)
             \/ \E i \in 1 .. Slots : TickStep(x, i)
      PROVE  Still' /\ UNCHANGED ledger
  <2>1. UNCHANGED <<ledger, recon, supervisor, stopping, pending>>
    BY <1>6, TickMoves DEF HiveRunCommand, StartAutonomousMissionSupervisor, BeginRun, ledgerVars
  <2>2. QED
    BY <1>1, <2>1
<1>7. ASSUME NEW x \in Sessions
      PROVE  /\ ~IntervalTick(x) /\ ~ReleaseCoordinator(x) /\ ~AppendPending(x)
             /\ ~UserStop(x) /\ ~MaxTicksStop(x) /\ ~DeadlineStop(x)
  BY DEF Still, IntervalTick, ReleaseCoordinator, AppendPending, UserStop, MaxTicksStop, DeadlineStop, Stop
<1>8. CASE (\E k \in Keys : SendMessage(k) \/ MessageEnds(k)) \/ PassTime \/ UNCHANGED hiveVars
  <2>1. UNCHANGED <<ledger, recon, supervisor, stopping, pending>>
    BY <1>8 DEF SendMessage, MessageEnds, PassTime, OnlyMessage, hiveVars, ledgerVars
  <2>2. QED
    BY <1>1, <2>1
<1>9. QED
  BY <1>3, <1>4, <1>5, <1>6, <1>7, <1>8 DEF HiveNext

(* How far commands have come, and who has the coordinator's claim.         *)
Beginnings ==
  /\ OneBegins' /\ BeginsWithClaim' /\ FirstTickIsOfCommand'
  /\ coordinator' = "none" \/ (\E x \in Sessions : Begins(x)') =>
       /\ coordinator = "none" \/ \E x \in Sessions : Begins(x)
       /\ \A x \in Sessions : ~ScheduleRun(x)

LEMMA CommandsBegin ==
  ASSUME HiveInv, [HiveNext]_hiveVars PROVE Beginnings
<1> USE DEF HiveInv
<1>1. ASSUME coordinator' = coordinator \/ coordinator' = "released",
             \A y \in Sessions : command'[y] = command[y] \/ command'[y] \in {"none", "over"},
             \A y \in Sessions, i \in 1 .. Slots :
               \/ tick'[y][i].first = "no"
               \/ tick'[y][i].first = tick[y][i].first /\ command'[y] = command[y],
             \A y \in Sessions : ~ScheduleRun(y)
      PROVE  Beginnings
  <2>1. OneBegins' /\ BeginsWithClaim'
    BY <1>1 DEF OneBegins, BeginsWithClaim, Begins
  <2>2. FirstTickIsOfCommand'
    BY <1>1 DEF FirstTickIsOfCommand
  <2>3. QED
    BY <1>1, <2>1, <2>2 DEF Beginnings, Begins
<1>2. CASE \E x \in Sessions : ScheduleRun(x)
  <2>1. PICK x \in Sessions : ScheduleRun(x)
    BY <1>2
  <2>2. /\ Begins(x) /\ UNCHANGED <<tick, coordinator>> /\ command' = [command EXCEPT ![x] = "over"]
    BY <2>1 DEF ScheduleRun, Begins, boardVars
  <2>3. coordinator # "none" /\ \A y \in Sessions : ~Begins(y)'
    BY <2>2 DEF OneBegins, BeginsWithClaim, Begins, HiveShape
  <2>4. FirstTickIsOfCommand'
    BY <2>1, <2>2 DEF FirstTickIsOfCommand, ScheduleRun, HiveShape
  <2>5. QED
    BY <2>2, <2>3, <2>4 DEF Beginnings, OneBegins, BeginsWithClaim
<1>3. CASE \A x \in Sessions : ~ScheduleRun(x)
  <2>1. ASSUME NEW x \in Sessions, Kill(x) PROVE Beginnings
    <3>1. IdleTick.first = "no"
      BY DEF IdleTick
    <3>2. QED
      BY <1>1, <1>3, <2>1, <3>1 DEF Kill, boardVars, HiveShape
  <2>2. ASSUME NEW x \in Sessions, NEW kind \in {"hive", "mission"}, BeginRun(x, kind)
        PROVE  Beginnings
    <3>1. /\ coordinator = "none" /\ coordinator' = "held" /\ command[x] = "none"
          /\ \A y \in Sessions : ~Begins(y)
      BY <2>2 DEF BeginRun, BeginsWithClaim
    <3>2. PICK c \in {"over", "schedule", "tick"} :
            /\ command' = [command EXCEPT ![x] = c]
            /\ tick' = tick \/ (c = "tick" /\ Looks(x, 1, kind))
      BY <2>2 DEF BeginRun
    <3>3. OneBegins' /\ BeginsWithClaim'
      BY <3>1, <3>2 DEF OneBegins, BeginsWithClaim, Begins, HiveShape
    <3>4. \A y \in Sessions, i \in 1 .. Slots : tick[y][i].first = "no" \/ y # x
      BY <3>1 DEF FirstTickIsOfCommand
    <3>5. ASSUME UNCHANGED tick PROVE FirstTickIsOfCommand'
      BY <3>2, <3>4, <3>5 DEF FirstTickIsOfCommand, HiveShape
    <3>6. ASSUME c = "tick", Looks(x, 1, kind) PROVE FirstTickIsOfCommand'
      <4>1. 1 \in 1 .. Slots
        BY HiveConstants
      <4>2. PICK new \in Ticks : tick' = [tick EXCEPT ![x][1] = new]
        BY <3>6, <4>1, Looking
      <4>3. QED
        BY <3>2, <3>4, <3>6, <4>2 DEF FirstTickIsOfCommand, HiveShape
    <3>7. FirstTickIsOfCommand'
      BY <3>2, <3>5, <3>6
    <3>8. QED
      BY <1>3, <3>1, <3>3, <3>7 DEF Beginnings
  <2>3. ASSUME NEW x \in Sessions, HiveRunCommand(x) \/ StartAutonomousMissionSupervisor(x)
        PROVE  Beginnings
    <3>1. CASE BeginRun(x, "hive") \/ BeginRun(x, "mission")
      BY <2>2, <3>1
    <3>2. CASE ~(BeginRun(x, "hive") \/ BeginRun(x, "mission"))
      <4>1. /\ command[x] = "none" /\ command' = [command EXCEPT ![x] = "over"]
            /\ UNCHANGED <<tick, coordinator>>
        BY <2>3, <3>2 DEF HiveRunCommand, StartAutonomousMissionSupervisor, boardVars
      <4>2. \A i \in 1 .. Slots : tick[x][i].first = "no"
        BY <4>1 DEF FirstTickIsOfCommand
      <4>3. QED
        BY <1>1, <1>3, <4>1, <4>2 DEF HiveShape
    <3>3. QED
      BY <3>1, <3>2
  <2>4. ASSUME NEW x \in Sessions, IntervalTick(x) PROVE Beginnings
    <3>1. UNCHANGED <<command, coordinator>>
      BY <2>4 DEF IntervalTick, boardVars
    <3>2. tick' = tick \/ \E i \in 1 .. Slots : Looks(x, i, "no")
      BY <2>4 DEF IntervalTick
    <3>3. \A y \in Sessions, j \in 1 .. Slots :
            tick'[y][j].first = "no" \/ tick'[y][j].first = tick[y][j].first
      <4>1. ASSUME NEW i \in 1 .. Slots, Looks(x, i, "no")
            PROVE  \A y \in Sessions, j \in 1 .. Slots :
                     tick'[y][j].first = "no" \/ tick'[y][j].first = tick[y][j].first
        <5>1. PICK new \in Ticks : new.first = "no" /\ tick' = [tick EXCEPT ![x][i] = new]
          BY <4>1, Looking
        <5>2. QED
          BY <5>1 DEF HiveShape
      <4>2. QED
        BY <3>2, <4>1
    <3>4. QED
      BY <1>1, <1>3, <3>1, <3>3
  <2>5. ASSUME NEW x \in Sessions, NEW i \in 1 .. Slots, TickStep(x, i) PROVE Beginnings
    <3>1. PICK new \in Ticks :
            /\ tick' = [tick EXCEPT ![x][i] = new]
            /\ \/ new.first = tick[x][i].first /\ UNCHANGED command
               \/ /\ new.first = "no"
                  /\ command' = IF tick[x][i].first # "no" THEN [command EXCEPT ![x] = "schedule"]
                                ELSE command
      BY <2>5, TickMoves
    <3>2. UNCHANGED coordinator
      BY <2>5, TickMoves
    <3>3. CASE UNCHANGED command
      BY <1>1, <1>3, <3>1, <3>2, <3>3 DEF HiveShape
    <3>4. CASE /\ new.first = "no" /\ tick[x][i].first # "no"
               /\ command' = [command EXCEPT ![x] = "schedule"]
      <4>1. i = 1 /\ command[x] = "tick" /\ Begins(x)
        BY <3>4 DEF FirstTickIsOfCommand, Begins
      <4>2. \A y \in Sessions : Begins(y)' <=> Begins(y)
        BY <3>4, <4>1 DEF Begins, HiveShape
      <4>3. FirstTickIsOfCommand'
        BY <3>1, <3>4, <4>1 DEF FirstTickIsOfCommand, HiveShape
      <4>4. QED
        BY <1>3, <3>2, <4>1, <4>2, <4>3 DEF Beginnings, OneBegins, BeginsWithClaim
    <3>5. QED
      BY <3>1, <3>3, <3>4
  <2>6. ASSUME NEW x \in Sessions,
               \/ Start(x) \/ Shutdown(x) \/ SessionStep(x)
               \/ UserStop(x) \/ MaxTicksStop(x) \/ DeadlineStop(x)
               \/ ReleaseCoordinator(x) \/ AppendPending(x)
        PROVE  Beginnings
    <3>1. UNCHANGED <<command, tick>> /\ (coordinator' = coordinator \/ coordinator' = "released")
      BY <2>6 DEF Start, Shutdown, SessionStep, Reconcile, ResumePersistedHiveRuns, OnlyLedger,
                  UserStop, MaxTicksStop, DeadlineStop, Stop, ReleaseCoordinator, AppendPending, boardVars
    <3>2. QED
      BY <1>1, <1>3, <3>1
  <2>7. CASE (\E k \in Keys : SendMessage(k) \/ MessageEnds(k)) \/ PassTime \/ UNCHANGED hiveVars
    <3>1. UNCHANGED <<command, tick, coordinator>>
      BY <2>7 DEF SendMessage, MessageEnds, PassTime, OnlyMessage, hiveVars, boardVars
    <3>2. QED
      BY <1>1, <1>3, <3>1
  <2>8. QED
    BY <1>3, <2>1, <2>3, <2>4, <2>5, <2>6, <2>7 DEF HiveNext
<1>4. QED
  BY <1>2, <1>3

LEMMA HiveStep == HiveInv /\ [HiveNext]_hiveVars => HiveInv'
<1> SUFFICES ASSUME HiveInv, [HiveNext]_hiveVars PROVE HiveInv'
  OBVIOUS
<1>1. HiveShape' /\ Beginnings
  BY HiveShapeStep, CommandsBegin DEF HiveInv
<1>2. BeginsAfresh'
  <2> SUFFICES ASSUME coordinator' = "none" \/ \E x \in Sessions : Begins(x)'
               PROVE  Still' /\ RecordsOf("hive", TheRun)' = {}
    BY DEF BeginsAfresh
  <2>1. Still /\ RecordsOf("hive", TheRun) = {} /\ \A x \in Sessions : ~ScheduleRun(x)
    BY <1>1 DEF Beginnings, HiveInv, BeginsAfresh
  <2>2. TheRun \notin ActiveHiveRuns(clock)
    BY <2>1 DEF ActiveHiveRuns, IdsOf, RecordsOf
  <2>3. Still' /\ UNCHANGED ledger
    BY <2>1, <2>2, StaysStill DEF HiveInv
  <2>4. QED
    BY <2>1, <2>3 DEF RecordsOf
<1>3. QED
  BY <1>1, <1>2 DEF HiveInv, Beginnings

(* Whoever has a deadline. *)
SupervisorShape ==
  clock \in Nat /\ \A x \in Sessions : DOMAIN supervisor[x] = {"on", "ticks", "deadline"}

Holds(x) == Supervising(x) \/ stopping[x] # "no"

LEMMA DeadlinesThere ==
  ASSUME HiveShape
  PROVE  /\ \A x \in Sessions : /\ Holds(x) => supervisor[x].deadline \in Deadlines
                               /\ \A r \in pending[x] : r.metadata.deadlineAt \in Deadlines
         /\ \A i \in DOMAIN ledger :
              "deadlineAt" \in DOMAIN ledger[i].metadata => ledger[i].metadata.deadlineAt \in Deadlines
<1>1. \A i \in DOMAIN ledger : ledger[i].kind = "hive" /\ ledger[i].id = TheRun
  BY DEF HiveShape, Written
<1>2. QED
  BY <1>1 DEF Deadlines, Holds, Giving, RecordsOf

LEMMA DeadlinesAfter ==
  ASSUME NEW D,
         \A x \in Sessions : /\ Holds(x)' => supervisor'[x].deadline \in D
                            /\ \A r \in pending'[x] : r.metadata.deadlineAt \in D,
         \A i \in DOMAIN ledger' :
           "deadlineAt" \in DOMAIN ledger'[i].metadata => ledger'[i].metadata.deadlineAt \in D
  PROVE  Deadlines' \subseteq D
<1>1. ASSUME NEW d \in Deadlines' PROVE d \in D
  <2>1. CASE \E x \in Sessions : (Supervising(x)' \/ stopping'[x] # "no") /\ d = supervisor'[x].deadline
    BY <2>1 DEF Holds
  <2>2. CASE \E x \in Sessions : \E r \in pending'[x] : d = r.metadata.deadlineAt
    BY <2>2
  <2>3. CASE \E i \in DOMAIN ledger' :
               "deadlineAt" \in DOMAIN ledger'[i].metadata /\ d = ledger'[i].metadata.deadlineAt
    BY <2>3
  <2>4. QED
    BY <1>1, <2>1, <2>2, <2>3 DEF Deadlines, Giving, RecordsOf
<1>2. QED
  BY <1>1

(* The deadline a session resumes the run with is one of the ledger.        *)
LEMMA ResumesDeadline ==
  ASSUME HiveShape, clock \in Nat, TheRun \in ActiveHiveRuns(clock)
  PROVE  MetadataOf("hive", TheRun, "deadlineAt", 0) \in Deadlines
<1> DEFINE G == Giving("hive", TheRun, "deadlineAt")
<1>1. DOMAIN ledger = 1 .. Len(ledger) /\ Len(ledger) \in Nat
  BY LenProperties DEF HiveShape, Written
<1>2. G # {}
  BY DEF ActiveHiveRuns, MetadataOf
<1>3. G \in SUBSET (1 .. Len(ledger))
  BY <1>1 DEF Giving, RecordsOf
<1>4. Max(G) \in G
  BY <1>1, <1>2, <1>3, LastPosition
<1>5. QED
  BY <1>2, <1>4 DEF MetadataOf, Deadlines

(* No step adds a deadline, but the one that schedules a run of which there *)
(* is nothing yet.                                                          *)
LEMMA DeadlinesStep ==
  ASSUME HiveInv, SupervisorShape, [HiveNext]_hiveVars
  PROVE  SupervisorShape' /\ (Deadlines' \subseteq Deadlines \/ \E d : Deadlines' \subseteq {d})
<1> DEFINE Kept == SupervisorShape' /\ Deadlines' \subseteq Deadlines
<1> USE DEF HiveInv
<1>1. ASSUME UNCHANGED <<ledger, supervisor, stopping, pending>>, clock' \in Nat PROVE Kept
  BY <1>1 DEF SupervisorShape, Deadlines, Supervising, Giving, RecordsOf
<1>2. ASSUME NEW metadata, Adds(metadata), UNCHANGED <<clock, supervisor, stopping>>,
             "deadlineAt" \in DOMAIN metadata => metadata.deadlineAt \in Deadlines,
             \A y \in Sessions : pending'[y] \subseteq pending[y]
      PROVE  Kept
  <2>1. \A y \in Sessions : /\ Holds(y)' => supervisor'[y].deadline \in Deadlines
                           /\ \A r \in pending'[y] : r.metadata.deadlineAt \in Deadlines
    BY <1>2, DeadlinesThere DEF Holds, Supervising
  <2>2. \A i \in DOMAIN ledger' :
          "deadlineAt" \in DOMAIN ledger'[i].metadata => ledger'[i].metadata.deadlineAt \in Deadlines
    BY <1>2, DeadlinesThere DEF Adds
  <2>3. SupervisorShape'
    BY <1>2 DEF SupervisorShape
  <2>4. QED
    BY <2>1, <2>2, <2>3, DeadlinesAfter
<1>3. ASSUME NEW x \in Sessions, UNCHANGED <<ledger, clock>>,
             \A y \in Sessions \ {x} : /\ supervisor'[y] = supervisor[y] /\ pending'[y] = pending[y]
                                      /\ stopping'[y] = stopping[y],
             DOMAIN supervisor'[x] = {"on", "ticks", "deadline"},
             Holds(x)' => supervisor'[x].deadline \in Deadlines,
             \A r \in pending'[x] : r \in pending[x] \/ r.metadata.deadlineAt \in Deadlines
      PROVE  Kept
  <2>1. ASSUME NEW y \in Sessions
        PROVE  /\ Holds(y)' => supervisor'[y].deadline \in Deadlines
               /\ \A r \in pending'[y] : r.metadata.deadlineAt \in Deadlines
    <3>1. CASE y = x
      BY <1>3, <3>1, DeadlinesThere
    <3>2. CASE y # x
      BY <1>3, <3>2, DeadlinesThere DEF Holds, Supervising
    <3>3. QED
      BY <3>1, <3>2
  <2>2. \A i \in DOMAIN ledger' :
          "deadlineAt" \in DOMAIN ledger'[i].metadata => ledger'[i].metadata.deadlineAt \in Deadlines
    BY <1>3, DeadlinesThere
  <2>3. SupervisorShape'
    BY <1>3 DEF SupervisorShape
  <2>4. QED
    BY <2>1, <2>2, <2>3, DeadlinesAfter
<1>4. ASSUME NEW x \in Sessions PROVE DOMAIN supervisor[x] = {"on", "ticks", "deadline"} /\ clock \in Nat
  BY DEF SupervisorShape
<1>5. ASSUME NEW x \in Sessions, Start(x) \/ Shutdown(x) PROVE Kept
  BY <1>1, <1>4, <1>5 DEF Start, SessionStart, Shutdown, OnlyLedger
<1>6. ASSUME NEW x \in Sessions, Kill(x) PROVE Kept
  <2>1. NoSupervisor.on = FALSE /\ DOMAIN NoSupervisor = {"on", "ticks", "deadline"}
    BY DEF NoSupervisor
  <2>2. /\ stopping'[x] = "no" /\ supervisor'[x] = NoSupervisor /\ pending'[x] = {}
        /\ UNCHANGED <<ledger, clock>>
        /\ \A y \in Sessions \ {x} : /\ supervisor'[y] = supervisor[y] /\ pending'[y] = pending[y]
                                     /\ stopping'[y] = stopping[y]
    BY <1>6 DEF Kill, HiveShape
  <2>3. ~Holds(x)'
    BY <2>1, <2>2 DEF Holds, Supervising
  <2>4. QED
    BY <1>3, <2>1, <2>2, <2>3
<1>7. ASSUME NEW x \in Sessions, Reconcile(x) PROVE Kept
  <2>1. UNCHANGED <<clock, supervisor, stopping, pending>> /\ Adds(<<>>)
    BY <1>7, Reconciles DEF Reconcile, OnlyLedger
  <2>2. QED
    BY <1>2, <2>1
<1>8. ASSUME NEW x \in Sessions, NEW ticks, NEW deadline, NEW resumed,
             Schedule(x, ticks, deadline, resumed), UNCHANGED <<ledger, clock, stopping>>,
             deadline \in Deadlines
      PROVE  Kept
  <2> DEFINE sup == [on |-> TRUE, ticks |-> ticks, deadline |-> deadline]
             new == [status |-> IF resumed THEN "resumed" ELSE "started",
                     metadata |-> [deadlineAt |-> deadline, tickCount |-> ticks]]
  <2>1. /\ supervisor'[x] = sup /\ pending'[x] = pending[x] \cup {new}
        /\ \A y \in Sessions \ {x} : /\ supervisor'[y] = supervisor[y] /\ pending'[y] = pending[y]
                                     /\ stopping'[y] = stopping[y]
    BY <1>8 DEF Schedule, Put, HiveShape
  <2>2. /\ DOMAIN sup = {"on", "ticks", "deadline"} /\ sup.deadline = deadline
        /\ new.metadata.deadlineAt = deadline
    OBVIOUS
  <2> HIDE DEF sup, new
  <2>3. QED
    BY <1>3, <1>8, <2>1, <2>2
<1>9. ASSUME NEW x \in Sessions, ResumePersistedHiveRuns(x) PROVE Kept
  <2>1. CASE UNCHANGED <<supervisor, pending>>
    BY <1>1, <1>4, <1>9, <2>1 DEF ResumePersistedHiveRuns
  <2>2. CASE TheRun \in ActiveHiveRuns(clock) /\ ResumeRun(x)
    <3>1. MetadataOf("hive", TheRun, "deadlineAt", 0) \in Deadlines
      BY <1>4, <2>2, ResumesDeadline
    <3>2. UNCHANGED <<ledger, clock, stopping>>
      BY <1>9 DEF ResumePersistedHiveRuns
    <3>3. QED
      BY <1>8, <2>2, <3>1, <3>2 DEF ResumeRun
  <2>3. QED
    BY <1>9, <2>1, <2>2 DEF ResumePersistedHiveRuns
<1>10. ASSUME NEW x \in Sessions, ScheduleRun(x)
       PROVE  SupervisorShape' /\ \E d : Deadlines' \subseteq {d}
  <2> DEFINE sup == [on |-> TRUE, ticks |-> 1, deadline |-> clock + Duration]
             new == [status |-> "started",
                     metadata |-> [deadlineAt |-> clock + Duration, tickCount |-> 1]]
  <2>1. /\ supervisor' = [supervisor EXCEPT ![x] = sup]
        /\ pending' = [pending EXCEPT ![x] = pending[x] \cup {new}]
        /\ UNCHANGED <<ledger, clock, stopping>>
    BY <1>10 DEF ScheduleRun, Schedule, Put, ledgerVars, HiveShape
  <2>2. /\ DOMAIN sup = {"on", "ticks", "deadline"} /\ sup.deadline = clock + Duration
        /\ new.metadata.deadlineAt = clock + Duration
    OBVIOUS
  <2> HIDE DEF sup, new
  <2>3. Still /\ RecordsOf("hive", TheRun) = {}
    BY <1>10 DEF ScheduleRun, BeginsAfresh, Begins
  <2>4. DOMAIN ledger = {}
    BY <2>3 DEF RecordsOf, HiveShape, Written
  <2>5. ASSUME NEW y \in Sessions
        PROVE  /\ Holds(y)' => supervisor'[y].deadline \in {clock + Duration}
               /\ \A r \in pending'[y] : r.metadata.deadlineAt \in {clock + Duration}
    <3>1. CASE y = x
      BY <2>1, <2>2, <2>3, <3>1 DEF Still, HiveShape
    <3>2. CASE y # x
      BY <2>1, <2>3, <3>2 DEF Still, Holds, Supervising, HiveShape
    <3>3. QED
      BY <3>1, <3>2
  <2>6. Deadlines' \subseteq {clock + Duration}
    <3>1. DOMAIN ledger' = {}
      BY <2>1, <2>4
    <3>2. QED
      BY <2>5, <3>1, DeadlinesAfter
  <2>7. SupervisorShape'
    BY <1>4, <2>1, <2>2 DEF SupervisorShape, HiveShape
  <2>8. QED
    BY <2>6, <2>7
<1>11. ASSUME NEW x \in Sessions, IntervalTick(x) PROVE Kept
  <2> DEFINE ticks == supervisor[x].ticks + 1
             sup == [supervisor[x] EXCEPT !.ticks = ticks]
             new == [status |-> "tick",
                     metadata |-> [deadlineAt |-> supervisor[x].deadline, tickCount |-> ticks]]
  <2>1. /\ supervisor'[x] = sup /\ pending'[x] = pending[x] \cup {new}
        /\ \A y \in Sessions \ {x} : /\ supervisor'[y] = supervisor[y] /\ pending'[y] = pending[y]
                                     /\ stopping'[y] = stopping[y]
        /\ UNCHANGED <<ledger, clock>> /\ Holds(x)
    BY <1>11 DEF IntervalTick, Put, Holds, ledgerVars, HiveShape
  <2>2. /\ DOMAIN sup = {"on", "ticks", "deadline"} /\ sup.deadline = supervisor[x].deadline
        /\ new.metadata.deadlineAt = supervisor[x].deadline
    BY <1>4
  <2>3. supervisor[x].deadline \in Deadlines
    BY <2>1, DeadlinesThere
  <2> HIDE DEF sup, new
  <2>4. QED
    BY <1>3, <2>1, <2>2, <2>3
<1>12. ASSUME NEW x \in Sessions, NEW reason, Stop(x, reason) PROVE Kept
  <2> DEFINE sup == [supervisor[x] EXCEPT !.on = FALSE]
  <2>1. /\ supervisor'[x] = sup /\ pending'[x] = pending[x]
        /\ \A y \in Sessions \ {x} : /\ supervisor'[y] = supervisor[y] /\ pending'[y] = pending[y]
                                     /\ stopping'[y] = stopping[y]
        /\ UNCHANGED <<ledger, clock>> /\ Holds(x)
    BY <1>12 DEF Stop, Holds, ledgerVars, HiveShape
  <2>2. DOMAIN sup = {"on", "ticks", "deadline"} /\ sup.deadline = supervisor[x].deadline
    BY <1>4
  <2>3. supervisor[x].deadline \in Deadlines
    BY <2>1, DeadlinesThere
  <2> HIDE DEF sup
  <2>4. QED
    BY <1>3, <2>1, <2>2, <2>3
<1>13. ASSUME NEW x \in Sessions, ReleaseCoordinator(x) PROVE Kept
  <2> DEFINE sup == IF Supervising(x) THEN supervisor[x] ELSE NoSupervisor
             new == [status |-> stopping[x],
                     metadata |-> [deadlineAt |-> supervisor[x].deadline, tickCount |-> supervisor[x].ticks]]
  <2>1. /\ supervisor'[x] = sup /\ pending'[x] = pending[x] \cup {new} /\ stopping'[x] = "no"
        /\ \A y \in Sessions \ {x} : /\ supervisor'[y] = supervisor[y] /\ pending'[y] = pending[y]
                                     /\ stopping'[y] = stopping[y]
        /\ UNCHANGED <<ledger, clock>> /\ Holds(x)
    BY <1>13 DEF ReleaseCoordinator, Put, Metadata, Holds, ledgerVars, HiveShape
  <2>2. DOMAIN sup = {"on", "ticks", "deadline"} /\ new.metadata.deadlineAt = supervisor[x].deadline
    BY <1>4 DEF NoSupervisor
  <2>3. supervisor[x].deadline \in Deadlines
    BY <2>1, DeadlinesThere
  <2>4. ASSUME Holds(x)' PROVE sup.deadline \in Deadlines
    <3>1. Supervising(x)
      BY <2>1, <2>4 DEF Holds, Supervising, NoSupervisor
    <3>2. QED
      BY <2>3, <3>1
  <2> HIDE DEF sup, new
  <2>5. QED
    BY <1>3, <2>1, <2>2, <2>3, <2>4
<1>14. ASSUME NEW x \in Sessions, AppendPending(x) PROVE Kept
  <2>1. PICK r \in pending[x] :
          AppendPeerControlRecord("hive", TheRun, r.status, r.metadata) \/ AppendFails
    BY <1>14 DEF AppendPending
  <2>2. r.metadata.deadlineAt \in Deadlines
    BY DeadlinesThere
  <2>3. Adds(r.metadata)
    <3>1. UNCHANGED ledger => Adds(r.metadata)
      BY DEF Adds
    <3>2. QED
      BY <2>1, <3>1, RunLine DEF AppendFails, HiveShape
  <2>4. UNCHANGED <<clock, supervisor, stopping>> /\ \A y \in Sessions : pending'[y] \subseteq pending[y]
    BY <1>14 DEF AppendPending, HiveShape
  <2>5. QED
    BY <1>2, <2>2, <2>3, <2>4
<1>15. ASSUME NEW x \in Sessions,
              \/ HiveRunCommand(x) \/ StartAutonomousMissionSupervisor(x)
              \/ \E i \in 1 .. Slots : TickStep(x, i)
       PROVE  Kept
  <2>1. UNCHANGED <<ledger, clock, supervisor, stopping, pending>>
    BY <1>15, TickMoves DEF HiveRunCommand, StartAutonomousMissionSupervisor, BeginRun, ledgerVars
  <2>2. QED
    BY <1>1, <1>4, <1>15, <2>1
<1>16. CASE (\E k \in Keys : SendMessage(k) \/ MessageEnds(k)) \/ PassTime \/ UNCHANGED hiveVars
  <2>1. UNCHANGED <<ledger, supervisor, stopping, pending>> /\ clock' \in Nat
    <3>1. clock \in Nat
      BY DEF SupervisorShape
    <3>2. CASE \E k \in Keys : SendMessage(k) \/ MessageEnds(k)
      BY <3>1, <3>2 DEF SendMessage, MessageEnds, OnlyMessage, ledgerVars
    <3>3. CASE PassTime
      BY <3>1, <3>3 DEF PassTime, ledgerVars
    <3>4. CASE UNCHANGED hiveVars
      BY <3>1, <3>4 DEF hiveVars, ledgerVars
    <3>5. QED
      BY <1>16, <3>2, <3>3, <3>4
  <2>2. QED
    BY <1>1, <2>1
<1>17. QED
  BY <1>5, <1>6, <1>7, <1>9, <1>10, <1>11, <1>12, <1>13, <1>14, <1>15, <1>16
     DEF HiveNext, SessionStep, UserStop, MaxTicksStop, DeadlineStop

(* A run has one deadline, however often it is stopped and resumed, and     *)
(* however late its records reach the ledger: what a late record brings     *)
(* back ends when the run was to end.                                       *)
THEOREM RunsKeepTheirDeadline == HiveSpec => []OneDeadline
<1> DEFINE Inv == HiveInv /\ SupervisorShape /\ OneDeadline
<1>1. HiveInit => Inv
  <2> SUFFICES ASSUME HiveInit PROVE SupervisorShape /\ OneDeadline
    BY HiveBegins
  <2>1. DOMAIN NoSupervisor = {"on", "ticks", "deadline"} /\ NoSupervisor.on = FALSE
    BY DEF NoSupervisor
  <2>2. SupervisorShape
    BY <2>1 DEF HiveInit, SupervisorShape
  <2>3. Deadlines = {}
    BY <2>1 DEF HiveInit, LedgerInit, Deadlines, Supervising, Giving, RecordsOf
  <2>4. QED
    BY <2>2, <2>3 DEF OneDeadline
<1>2. Inv /\ [HiveNext]_hiveVars => Inv'
  BY HiveStep, DeadlinesStep DEF OneDeadline
<1>3. Inv => OneDeadline
  OBVIOUS
<1>4. QED
  BY <1>1, <1>2, <1>3, PTL DEF HiveSpec
=============================================================================
