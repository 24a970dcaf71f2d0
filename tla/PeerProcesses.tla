----------------------------- MODULE PeerProcesses -----------------------------
(***************************************************************************)
(* The peers a session runs as its children: /peer spawn and the end of    *)
(* the session (src/src/peers/process-spawn.mjs).  A start waits up to     *)
(* 1.5 s for each child before it enters it among the managed ones, and    *)
(* writes a record in the control ledger for whatever happens.  Children   *)
(* exit when they like, and every append to the ledger may fail; an append *)
(* that fails inside a loop ends the loop.  Calls overlap, also for one    *)
(* peer: nothing marks a peer as being started.                            *)
(***************************************************************************)
EXTENDS ControlLedger

CONSTANTS
  Ids,        \* the peers to start
  Kids,       \* children there may be (bound on the number of spawns)
  NoKid,
  Starts,     \* calls of startPeerProcesses
  Requests    \* of each call: the peers it starts

ASSUME ProcessConstants ==
  /\ NoKid \notin Kids
  /\ Requests \in [Starts -> SUBSET Ids]

VARIABLES
  managed,    \* managedByRoot: of each peer its child, or NoKid
  kid,        \* of each child: [id, st, told, rival]: told to stop?  did two
              \* starts wait for a child of its peer at once (history)?
  start,      \* of each start: [pc, todo, kid]
  stop        \* stopPeerProcesses: [pc, todo, atEnd]

processVars == <<managed, kid, start, stop>>
processLedgerVars == <<processVars, ledger>>

Lives(k) == kid[k].st \in {"awaited", "up"}      \* as the system sees it
StartGo(c, new) == start' = [start EXCEPT ![c] = new]
NextPeer(c) == [start[c] EXCEPT !.pc = "next", !.todo = @ \ {kid[start[c].kid].id}]
Note(id, st) == AppendPeerControlRecord("peer-process", id, st, <<>>)
NotStarting == [pc |-> "over", todo |-> {}, kid |-> NoKid]

(* isExited *)
Gone(k) == k \notin {j \in Kids : Lives(j)}

CallStart(c) ==
  /\ start[c].pc = "new"
  /\ StartGo(c, [start[c] EXCEPT !.pc = "next", !.todo = Requests[c]])
  /\ UNCHANGED <<managed, kid, stop, ledger>>

StartReturns(c) ==
  /\ start[c].pc = "next" /\ start[c].todo = {}
  /\ StartGo(c, NotStarting)
  /\ UNCHANGED <<managed, kid, stop, ledger>>

AlreadyRunning(c) ==
  /\ start[c].pc = "next"
  /\ \E id \in start[c].todo :
       ~Gone(managed[id]) /\ StartGo(c, [start[c] EXCEPT !.todo = @ \ {id}])
  /\ UNCHANGED <<managed, kid, stop, ledger>>

FreshKid ==      \* one of the children not yet spawned, if any
  LET fresh == {k \in Kids : kid[k].st = "none"} IN
  IF fresh = {} THEN {} ELSE {CHOOSE k \in fresh : TRUE}

(* Children of a peer some start waits for.                                *)
AwaitedOf(id) == {k \in Kids : kid[k].st = "awaited" /\ kid[k].id = id}

NewKid(id) == [id |-> id, st |-> "awaited", told |-> FALSE, rival |-> AwaitedOf(id) # {}]

Spawn(c) ==
  /\ start[c].pc = "next"
  /\ \E id \in start[c].todo, k \in FreshKid :
       /\ Gone(managed[id])
       /\ kid' = [j \in Kids |-> IF j = k THEN NewKid(id)
                                ELSE [kid[j] EXCEPT !.rival = @ \/ j \in AwaitedOf(id)]]
       /\ StartGo(c, [start[c] EXCEPT !.pc = "waiting", !.kid = k])
  /\ UNCHANGED <<managed, stop, ledger>>

(* waitForChildSpawn: the child has spawned, or has taken too long to.     *)
ManagedOnceNoted(c) ==      \* as if a child were managed once it is recorded
  LET k == start[c].kid IN
  /\ start[c].pc = "waiting" /\ kid[k].st = "awaited"
  /\ kid' = [kid EXCEPT ![k].st = "up"]
  /\ StartGo(c, [start[c] EXCEPT !.pc = "recording"])
  /\ UNCHANGED <<managed, stop, ledger>>

ChildIsReady(c) ==
  LET k == start[c].kid IN
  /\ start[c].pc = "waiting" /\ kid[k].st = "awaited"
  /\ kid' = [kid EXCEPT ![k].st = "up"]
  /\ managed' = [managed EXCEPT ![kid[k].id] = k]
  /\ StartGo(c, [start[c] EXCEPT !.pc = "recording"])
  /\ UNCHANGED <<stop, ledger>>

(* It could not be spawned, or exited before it was ready. *)
ChildNeverRuns(c) ==
  LET k == start[c].kid IN
  /\ start[c].pc = "waiting" /\ kid[k].st = "awaited"
  /\ kid' = [kid EXCEPT ![k].st = "gone"]
  /\ StartGo(c, [start[c] EXCEPT !.pc = "failing"])
  /\ UNCHANGED <<managed, stop, ledger>>

RecordStart(c) ==
  /\ start[c].pc \in {"recording", "failing"}
  /\ \/ /\ Note(kid[start[c].kid].id, IF start[c].pc = "failing" THEN "error" ELSE "running")
        /\ StartGo(c, NextPeer(c))
     \/ AppendFails /\ StartGo(c, NotStarting)
  /\ UNCHANGED <<managed, kid, stop>>

(* The listener of its exit notes it, if it can. *)
ChildExits(k) ==
  /\ kid[k].st = "up" /\ kid' = [kid EXCEPT ![k].st = "gone"]
  /\ Note(kid[k].id, "exited") \/ AppendFails
  /\ UNCHANGED <<managed, start, stop>>

(* /peer spawn stop, or the end of the session, which stops every child.   *)
CallStop(ids, atEnd) ==
  /\ \/ stop.pc = "new"
     \/ stop.pc = "over" /\ ~stop.atEnd
  /\ stop' = [pc |-> "next", todo |-> ids, atEnd |-> atEnd]
  /\ UNCHANGED <<managed, kid, start, ledger>>

UserStops == \E id \in Ids : stop.pc = "new" /\ CallStop({id}, FALSE)
SessionEnds == CallStop({id \in Ids : managed[id] # NoKid}, TRUE)

StopGo(id) == stop' = [stop EXCEPT !.todo = @ \ {id}]

StopOne(id) ==
  /\ stop.pc = "next" /\ id \in stop.todo
  /\ \/ /\ Gone(managed[id])
        /\ StopGo(id) /\ UNCHANGED <<kid, ledger>>
     \/ /\ ~Gone(managed[id])
        /\ kid' = [kid EXCEPT ![managed[id]].told = TRUE]
        /\ \/ Note(id, "stopping") /\ StopGo(id)
           \/ AppendFails /\ stop' = [stop EXCEPT !.pc = "over"]
  /\ UNCHANGED <<managed, start>>

StopReturns ==
  /\ stop.pc = "next" /\ stop.todo = {}
  /\ stop' = [stop EXCEPT !.pc = "over"]
  /\ UNCHANGED <<managed, kid, start, ledger>>

-----------------------------------------------------------------------------
ProcessInit ==
  /\ managed = [id \in Ids |-> NoKid]
  /\ kid = [k \in Kids |-> [id |-> CHOOSE id \in Ids : TRUE, st |-> "none", told |-> FALSE, rival |-> FALSE]]
  /\ start = [c \in Starts |-> [NotStarting EXCEPT !.pc = "new"]]
  /\ stop = [pc |-> "new", todo |-> {}, atEnd |-> FALSE]
  /\ LedgerInit

StartStep(c) ==
  \/ CallStart(c) \/ StartReturns(c) \/ AlreadyRunning(c) \/ Spawn(c)
  \/ ChildIsReady(c) \/ ChildNeverRuns(c) \/ RecordStart(c)

StopStep == (\E id \in Ids : StopOne(id)) \/ StopReturns

ProcessNext ==
  /\ \/ \E c \in Starts : StartStep(c)
     \/ \E k \in Kids : ChildExits(k)
     \/ UserStops \/ SessionEnds \/ StopStep
  /\ UNCHANGED recon

ProcessSpec == ProcessInit /\ [][ProcessNext]_<<processLedgerVars, recon>>

-----------------------------------------------------------------------------
Known(k) ==
  managed[kid[k].id] = k \/ \E c \in Starts : start[c].pc = "waiting" /\ start[c].kid = k

(* As long as no two calls wait for a child of the same peer at once, a     *)
(* child that runs can be found, to be listed or stopped: it is managed, or *)
(* a start still waits for it; whichever appends to the ledger fail and     *)
(* whichever children exit.  (Two that do may lose the first one's child.)  *)
OnlyRivalsAreForgotten == \A k \in Kids : Lives(k) => Known(k) \/ kid[k].rival
=============================================================================
