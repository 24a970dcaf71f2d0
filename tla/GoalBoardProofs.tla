--------------------------- MODULE GoalBoardProofs ---------------------------
(***************************************************************************)
(* Theorems about GoalBoard, what GoalScout derives from it and what       *)
(* GoalCommands does to it, for every set of peers, work keys and paths,   *)
(* every set of inputs and commands and every bound.                       *)
(***************************************************************************)
EXTENDS GoalCommands, FiniteSetTheorems, WellFoundedInduction, TLAPS

(* Aiming an input at a target and stamping it gives an event of the log. *)
LEMMA NormalizedEvent ==
  ASSUME TypeOK, NEW in \in Inputs, NEW ref \in Targets(in)
  PROVE  NormalizeEvent([in EXCEPT !.ref = ref]) \in Event
<1>1. in \in Event
  BY BoardConstants
<1>2. ref \in Nat
  BY DEF Targets, Of, NoEvent, TypeOK
<1>3. now \in Nat /\ in.ttl \in Nat
  BY <1>1 DEF TypeOK, Event
<1>4. (IF in.ttl > 0 THEN now + in.ttl ELSE 0) \in Nat
  BY <1>3
<1>5. QED
  BY <1>1, <1>2, <1>3, <1>4 DEF NormalizeEvent, Event

(* Stamping an event gives an event of the same type. *)
LEMMA StampedEvent ==
  ASSUME TypeOK, NEW in \in Event
  PROVE  NormalizeEvent(in) \in Event /\ NormalizeEvent(in).type = in.type
<1>1. now \in Nat /\ in.ttl \in Nat
  BY DEF TypeOK, Event
<1>2. (IF in.ttl > 0 THEN now + in.ttl ELSE 0) \in Nat
  BY <1>1
<1>3. QED
  BY <1>1, <1>2 DEF NormalizeEvent, Event

(* The note that keeps the summary of a closed goal is an event. *)
LEMMA ClosingNoteIsEvent ==
  ASSUME TypeOK, NEW peer \in Peers
  PROVE  ClosingNote(peer) \in Event /\ ClosingNote(peer).type = "note"
<1>1. EventOf("note", peer) \in Event /\ EventOf("note", peer).type = "note"
  BY DEF EventOf, Event, EventTypes, Policies, Statuses, Verdicts, Severities, NoEvent
<1>2. QED
  BY <1>1, StampedEvent DEF ClosingNote

(* A step keeps the log well formed. *)
LEMMA TypeStep ==
  ASSUME TypeOK, [Next]_vars PROVE TypeOK'
<1>1. ASSUME NEW in \in Inputs, NEW ref \in Targets(in),
             AppendPeerGoalEvent([in EXCEPT !.ref = ref])
      PROVE  TypeOK'
  BY <1>1, NormalizedEvent DEF AppendPeerGoalEvent, TypeOK
<1>2. ASSUME NEW force \in BOOLEAN, NEW summary \in BOOLEAN, NEW peer \in Peers,
             ClosePeerGoal(force, peer, summary)
      PROVE  TypeOK'
  <2>1. ClosingNote(peer) \in Event
    BY ClosingNoteIsEvent
  <2>2. QED
    BY <1>2, <2>1 DEF ClosePeerGoal, TypeOK
<1>3. CASE Tick
  BY <1>3 DEF Tick, TypeOK
<1>4. CASE UNCHANGED vars
  BY <1>4 DEF vars, TypeOK
<1>5. QED
  BY <1>1, <1>2, <1>3, <1>4 DEF Next

(* Whatever is appended, the log is a sequence of well-formed events. *)
THEOREM TypeCorrect == Spec => []TypeOK
<1>1. Init => TypeOK
  BY DEF Init, TypeOK
<1>2. QED
  BY <1>1, TypeStep, PTL DEF Spec

-----------------------------------------------------------------------------
(* The log only grows, and what it held stays where it was. *)
LEMMA LogGrows ==
  ASSUME TypeOK, NEW e \in Event, events' = Append(events, e)
  PROVE  /\ DOMAIN events = 1..Len(events) /\ Len(events) \in Nat
         /\ DOMAIN events' = DOMAIN events \cup {Len(events) + 1}
         /\ Len(events) + 1 \notin DOMAIN events
         /\ \A i \in DOMAIN events : events'[i] = events[i]
         /\ events'[Len(events) + 1] = e
         /\ \A type \in EventTypes :
              Of(type)' = Of(type) \cup (IF e.type = type THEN {Len(events) + 1} ELSE {})
<1>1. /\ DOMAIN events = 1..Len(events) /\ Len(events) \in Nat
      /\ DOMAIN events' = DOMAIN events \cup {Len(events) + 1}
      /\ Len(events) + 1 \notin DOMAIN events
      /\ \A i \in DOMAIN events : events'[i] = events[i]
      /\ events'[Len(events) + 1] = e
  BY DEF TypeOK
<1>2. QED
  BY <1>1 DEF Of

(***************************************************************************)
(* An event that is no heartbeat or release of claim c leaves the standing *)
(* of c as it was.                                                         *)
(***************************************************************************)
LEMMA UntouchedClaim ==
  ASSUME TypeOK, NEW e \in Event, events' = Append(events, e), now' = now,
         NEW c \in DOMAIN events,
         e.type \notin {"heartbeat", "release"} \/ e.ref # c
  PROVE  c \in ActiveClaims' <=> c \in ActiveClaims
<1> USE LogGrows
<1>1. events'[c] = events[c] /\ (c \in Of("claim")' <=> c \in Of("claim"))
  BY DEF EventTypes
<1>2. Released(c)' <=> Released(c)
  BY DEF Released, Of, EventTypes
<1>3. Heartbeats(c)' = Heartbeats(c) /\ Heartbeats(c) \subseteq DOMAIN events
  BY DEF Heartbeats, Of, EventTypes
<1>4. Latest(Heartbeats(c))' = Latest(Heartbeats(c))
  BY <1>3 DEF Latest
<1>5. \A h \in Latest(Heartbeats(c)) : events'[h] = events[h]
  BY <1>3 DEF Latest
<1>6. Expired(c)' <=> Expired(c)
  BY <1>1, <1>3, <1>4, <1>5 DEF Expired, Due, FirstPositive
<1>7. Silent(c)' <=> Silent(c)
  <2> DEFINE limit(h) == events[h].at + FirstPositive(events[h].staleAfter, StaleAfter(c))
  <2>1. StaleAfter(c)' = StaleAfter(c)
    BY <1>1 DEF StaleAfter, FirstPositive
  <2>2. \A h \in Latest(Heartbeats(c)) : limit(h)' = limit(h)
    BY <1>5, <2>1 DEF FirstPositive
  <2> HIDE DEF limit
  <2>3. (\E h \in Latest(Heartbeats(c)) : Due(limit(h)))'
        <=> \E h \in Latest(Heartbeats(c)) : Due(limit(h))
    BY <1>4, <2>2 DEF Due
  <2>4. (Heartbeats(c) = {} /\ Due(events[c].at + StaleAfter(c)))'
        <=> Heartbeats(c) = {} /\ Due(events[c].at + StaleAfter(c))
    BY <1>1, <1>3, <2>1 DEF Due
  <2>5. QED
    BY <2>3, <2>4 DEF Silent, limit
<1>8. QED
  BY <1>1, <1>2, <1>6, <1>7 DEF ActiveClaims

(* The clock revives nothing. *)
LEMMA TimeOnlyEndsClaims ==
  ASSUME TypeOK, Tick
  PROVE  ActiveClaims' \subseteq ActiveClaims
<1>1. events' = events /\ now \in Nat /\ now' = now + 1
  BY DEF Tick, TypeOK
<1>2. \A d \in Nat : Due(d) => Due(d)'
  BY <1>1 DEF Due
<1>3. \A i \in DOMAIN events : events[i] \in Event
  BY DEF TypeOK
<1>4. ASSUME NEW c \in Of("claim") PROVE (Expired(c) => Expired(c)') /\ (Silent(c) => Silent(c)')
  <2>1. c \in DOMAIN events /\ events[c].expiresAt \in Nat /\ events[c].at \in Nat
        /\ StaleAfter(c) \in Nat
    BY <1>3, BoardConstants DEF Of, Event, StaleAfter, FirstPositive
  <2>2. \A h \in Latest(Heartbeats(c)) :
          /\ FirstPositive(events[h].expiresAt, events[c].expiresAt) \in Nat
          /\ events[h].at + FirstPositive(events[h].staleAfter, StaleAfter(c)) \in Nat
    BY <1>3, <2>1 DEF Latest, Heartbeats, Of, Event, FirstPositive
  <2>3. Heartbeats(c)' = Heartbeats(c) /\ Latest(Heartbeats(c))' = Latest(Heartbeats(c))
        /\ StaleAfter(c)' = StaleAfter(c)
    BY <1>1 DEF Heartbeats, Latest, Of, StaleAfter
  <2>4. Expired(c) => Expired(c)'
    BY <1>1, <1>2, <2>1, <2>2, <2>3 DEF Expired
  <2>5. events[c].at + StaleAfter(c) \in Nat
    BY <2>1
  <2>6. Silent(c) => Silent(c)'
    BY <1>1, <1>2, <2>2, <2>3, <2>5 DEF Silent
  <2>7. QED
    BY <2>4, <2>6
<1>5. QED
  BY <1>1, <1>4 DEF ActiveClaims, Released, Of

-----------------------------------------------------------------------------
(* What one step does to the claims in force. *)
Joins(c) ==
  /\ c \notin ActiveClaims
  /\ ActiveClaims' = ActiveClaims \cup {c}
  /\ \A d \in ActiveClaims : Lease!MayJoin(LeaseOf(c)', LeaseOf(d))

(* A new claim comes into force beside compatible claims only. *)
LEMMA ClaimJoins ==
  ASSUME TypeOK, NEW e \in Event, events' = Append(events, e), now' = now,
         e.type = "claim", ValidateClaim(e)
  PROVE  ActiveClaims' \subseteq ActiveClaims \/ \E c : Joins(c)
<1> PICK n : n = Len(events) + 1
  OBVIOUS
<1>1. \A c \in DOMAIN events : c \in ActiveClaims' <=> c \in ActiveClaims
  BY UntouchedClaim
<1>2. ActiveClaims \subseteq DOMAIN events /\ ActiveClaims' \subseteq DOMAIN events \cup {n}
  BY LogGrows DEF ActiveClaims, Of
<1>3. n \notin ActiveClaims /\ events'[n] = e
  BY <1>2, LogGrows
<1>4. CASE n \in ActiveClaims'
  <2>1. ActiveClaims' = ActiveClaims \cup {n}
    BY <1>1, <1>2, <1>4
  <2>2. ASSUME NEW d \in ActiveClaims PROVE Lease!MayJoin(LeaseOf(n)', LeaseOf(d))
    BY <1>3, <2>2 DEF Lease!MayJoin, LeaseOf, ValidateClaim
  <2>3. QED
    BY <1>3, <2>1, <2>2 DEF Joins
<1>5. CASE n \notin ActiveClaims'
  BY <1>1, <1>2, <1>5
<1>6. QED
  BY <1>4, <1>5

(* So does a claim that its heartbeat revives. *)
LEMMA HeartbeatJoins ==
  ASSUME TypeOK, NEW e \in Event, events' = Append(events, e), now' = now,
         e.type = "heartbeat", ValidateHeartbeat(e)
  PROVE  ActiveClaims' \subseteq ActiveClaims \/ \E c : Joins(c)
<1> DEFINE c == e.ref
<1>1. c \in DOMAIN events /\ events'[c] = events[c]
  BY LogGrows DEF ValidateHeartbeat, Of
<1>2. \A d \in DOMAIN events \ {c} : d \in ActiveClaims' <=> d \in ActiveClaims
  BY UntouchedClaim
<1>3. ActiveClaims \subseteq DOMAIN events /\ ActiveClaims' \subseteq DOMAIN events
  BY LogGrows DEF ActiveClaims, Of, EventTypes
<1>4. CASE c \in ActiveClaims' /\ c \notin ActiveClaims
  <2>1. ActiveClaims' = ActiveClaims \cup {c}
    BY <1>2, <1>3, <1>4
  <2>2. ASSUME NEW d \in ActiveClaims PROVE Lease!MayJoin(LeaseOf(c)', LeaseOf(d))
    BY <1>1, <1>4, <2>2 DEF Lease!MayJoin, LeaseOf, ValidateHeartbeat
  <2>3. QED
    BY <1>4, <2>1, <2>2 DEF Joins
<1>5. CASE ~(c \in ActiveClaims' /\ c \notin ActiveClaims)
  BY <1>1, <1>2, <1>3, <1>5
<1>6. QED
  BY <1>4, <1>5

(* No other event brings a claim into force. *)
LEMMA OtherEventsJoinNothing ==
  ASSUME TypeOK, NEW e \in Event, events' = Append(events, e), now' = now,
         e.type \notin {"claim", "heartbeat"}
  PROVE  ActiveClaims' \subseteq ActiveClaims
<1> USE LogGrows
<1>1. ActiveClaims' \subseteq Of("claim") /\ Of("claim") \subseteq DOMAIN events
  BY DEF ActiveClaims, Of, EventTypes
<1>2. ASSUME NEW c \in Of("claim"), c \in ActiveClaims' PROVE c \in ActiveClaims
  <2>1. CASE e.type = "release" /\ e.ref = c
    <3>1. Released(c)'
      BY <2>1 DEF Released, Of, EventTypes
    <3>2. QED
      BY <1>2, <3>1 DEF ActiveClaims
  <2>2. CASE ~(e.type = "release" /\ e.ref = c)
    BY <1>1, <1>2, <2>2, UntouchedClaim
  <2>3. QED
    BY <2>1, <2>2
<1>3. QED
  BY <1>1, <1>2

(* Claims come into force one at a time, and only beside compatible ones. *)
LEMMA StepOfLeases ==
  ASSUME TypeOK, [Next]_vars
  PROVE  /\ \A d \in ActiveClaims : d \in DOMAIN events /\ LeaseOf(d)' = LeaseOf(d)
         /\ ActiveClaims' \subseteq ActiveClaims \/ \E c : Joins(c)
<1>1. ActiveClaims \subseteq DOMAIN events
  BY DEF ActiveClaims, Of
<1>2. ASSUME NEW in \in Inputs, NEW ref \in Targets(in),
             AppendPeerGoalEvent([in EXCEPT !.ref = ref])
      PROVE  /\ \A d \in ActiveClaims : LeaseOf(d)' = LeaseOf(d)
             /\ ActiveClaims' \subseteq ActiveClaims \/ \E c : Joins(c)
  <2> DEFINE e == NormalizeEvent([in EXCEPT !.ref = ref])
  <2>1. e \in Event /\ events' = Append(events, e) /\ now' = now
        /\ (e.type = "claim" => ValidateClaim(e))
        /\ (e.type = "heartbeat" => ValidateHeartbeat(e))
    BY <1>2, NormalizedEvent DEF AppendPeerGoalEvent, Accepts
  <2> HIDE DEF e
  <2>2. \A d \in ActiveClaims : LeaseOf(d)' = LeaseOf(d)
    BY <1>1, <2>1, LogGrows DEF LeaseOf
  <2>3. ActiveClaims' \subseteq ActiveClaims \/ \E c : Joins(c)
    BY <2>1, ClaimJoins, HeartbeatJoins, OtherEventsJoinNothing
  <2>4. QED
    BY <2>2, <2>3
<1>3. ASSUME NEW force \in BOOLEAN, NEW summary \in BOOLEAN, NEW peer \in Peers,
             ClosePeerGoal(force, peer, summary)
      PROVE  /\ \A d \in ActiveClaims : LeaseOf(d)' = LeaseOf(d)
             /\ ActiveClaims' \subseteq ActiveClaims
  <2>1. CASE summary
    <3>1. events' = Append(events, ClosingNote(peer)) /\ now' = now
      BY <1>3, <2>1 DEF ClosePeerGoal
    <3>2. QED
      BY <1>1, <3>1, ClosingNoteIsEvent, LogGrows, OtherEventsJoinNothing DEF LeaseOf
  <2>2. CASE ~summary
    <3>1. events' = events /\ now' = now
      BY <1>3, <2>2 DEF ClosePeerGoal
    <3>2. QED
      BY <3>1 DEF ActiveClaims, Of, Released, Expired, Silent, Heartbeats, Latest, Due,
                  StaleAfter, LeaseOf
  <2>3. QED
    BY <2>1, <2>2
<1>4. ASSUME Tick
      PROVE  /\ \A d \in ActiveClaims : LeaseOf(d)' = LeaseOf(d)
             /\ ActiveClaims' \subseteq ActiveClaims
  BY <1>4, TimeOnlyEndsClaims DEF Tick, LeaseOf
<1>5. ASSUME UNCHANGED vars
      PROVE  /\ \A d \in ActiveClaims : LeaseOf(d)' = LeaseOf(d)
             /\ ActiveClaims' \subseteq ActiveClaims
  BY <1>5 DEF vars, ActiveClaims, Of, Released, Expired, Silent, Heartbeats, Latest, Due,
              StaleAfter, LeaseOf
<1>6. QED
  BY <1>1, <1>2, <1>3, <1>4, <1>5 DEF Next

(***************************************************************************)
(* The claims in force are leases: the board implements WriteLease, and    *)
(* no two of them conflict, whatever events are tried and however claims   *)
(* go stale, expire, are released and come back.                           *)
(***************************************************************************)
THEOREM LeaseRefinement == Spec => ImplementsLease
<1>1. Init => Lease!Init
  BY DEF Init, Lease!Init, ActiveClaims, Of
<1>2. TypeOK /\ [Next]_vars => [Lease!Next]_({LeaseOf(c) : c \in ActiveClaims})
  <2> SUFFICES ASSUME TypeOK, [Next]_vars
               PROVE  Lease!Next
    OBVIOUS
  <2>1. \A d \in ActiveClaims : LeaseOf(d)' = LeaseOf(d)
    BY StepOfLeases
  <2>2. CASE ActiveClaims' \subseteq ActiveClaims
    BY <2>1, <2>2 DEF Lease!Next, Lease!Lapse
  <2>3. ASSUME NEW c, Joins(c) PROVE Lease!Next
    <3>1. {LeaseOf(d) : d \in ActiveClaims}' = {LeaseOf(d) : d \in ActiveClaims} \cup {LeaseOf(c)'}
      BY <2>1, <2>3 DEF Joins
    <3>2. \A d \in ActiveClaims : LeaseOf(d).id # LeaseOf(c)'.id
      BY <2>3 DEF Joins, LeaseOf
    <3>3. LeaseOf(c)' \notin {LeaseOf(d) : d \in ActiveClaims}
      BY <3>2
    <3>4. QED
      BY <2>3, <3>1, <3>2, <3>3 DEF Joins, Lease!Next, Lease!Grant
  <2>4. QED
    BY <2>2, <2>3, StepOfLeases
<1>3. QED
  BY <1>1, <1>2, TypeCorrect, PTL DEF Spec, ImplementsLease, Lease!Spec

Exclusion == WriteExclusion /\ KeyExclusion

(* No step makes two claims in force collide. *)
LEMMA ExclusionIsInductive ==
  TypeOK /\ Exclusion /\ [Next]_vars => Exclusion'
<1> SUFFICES ASSUME TypeOK, WriteExclusion, KeyExclusion, [Next]_vars
             PROVE  WriteExclusion' /\ KeyExclusion'
  BY DEF Exclusion
<1>1. \A d \in ActiveClaims : /\ events'[d].mode = events[d].mode
                              /\ events'[d].paths = events[d].paths
                              /\ events'[d].workKey = events[d].workKey
                              /\ events'[d].duplicatePolicy = events[d].duplicatePolicy
  BY StepOfLeases DEF LeaseOf
<1>2. CASE ActiveClaims' \subseteq ActiveClaims
  BY <1>1, <1>2 DEF WriteExclusion, KeyExclusion, SameKey
<1>3. ASSUME NEW c, Joins(c) PROVE WriteExclusion' /\ KeyExclusion'
  <2>1. \A d \in ActiveClaims : ~(events'[c].mode = "write" /\ events[d].mode = "write"
                                  /\ PathsOverlap(events'[c].paths, events[d].paths))
    BY <1>3 DEF Joins, LeaseOf, Lease!MayJoin
  <2>2. \A a, b : PathsOverlap(a, b) => PathsOverlap(b, a)
    BY DEF PathsOverlap
  <2>3. \A d \in ActiveClaims :
          events'[c].workKey # NoKey /\ events'[c].workKey = events[d].workKey
          => events'[c].duplicatePolicy = "allow-parallel"
    BY <1>3 DEF Joins, LeaseOf, Lease!MayJoin
  <2>4. ActiveClaims' = ActiveClaims \cup {c}
    BY <1>3 DEF Joins
  <2>5. WriteExclusion'
    BY <1>1, <2>1, <2>2, <2>4 DEF WriteExclusion
  <2>6. KeyExclusion'
    BY <1>1, <2>3, <2>4 DEF KeyExclusion, SameKey
  <2>7. QED
    BY <2>5, <2>6
<1>4. QED
  BY <1>2, <1>3, StepOfLeases

(* Two write claims in force never cover a common path. *)
THEOREM WriteExclusionHolds == Spec => []WriteExclusion
<1>1. Init => Exclusion
  BY DEF Init, Exclusion, WriteExclusion, KeyExclusion, ActiveClaims, Of
<1>2. QED
  BY <1>1, ExclusionIsInductive, TypeCorrect, PTL DEF Spec, Exclusion

(* Two claims in force share a work key only by choice of one of them. *)
THEOREM KeyExclusionHolds == Spec => []KeyExclusion
<1>1. Init => Exclusion
  BY DEF Init, Exclusion, WriteExclusion, KeyExclusion, ActiveClaims, Of
<1>2. QED
  BY <1>1, ExclusionIsInductive, TypeCorrect, PTL DEF Spec, Exclusion

-----------------------------------------------------------------------------
(***************************************************************************)
(* What the log of a goal never shows, and what a task never does.         *)
(***************************************************************************)
(***************************************************************************)
(* What a step does to the log: nothing, or it adds one event stamped now  *)
(* that was accepted or carries no work key, and resolves only what is     *)
(* there.                                                                  *)
(***************************************************************************)
Extends(e) ==
  /\ events' = Append(events, e) /\ now' = now
  /\ Accepts(e) \/ (e.type = "note" /\ e.workKey = NoKey)
  /\ e.type = "resolve" => e.ref \in DOMAIN events
  /\ e.type = "work-item" => e.workKey # NoKey
  /\ e.at = now

LEMMA StepOfLog ==
  ASSUME TypeOK, [Next]_vars
  PROVE  events' = events \/ \E e \in Event : Extends(e)
<1>1. ASSUME NEW in \in Inputs, NEW ref \in Targets(in),
             AppendPeerGoalEvent([in EXCEPT !.ref = ref])
      PROVE  \E e \in Event : Extends(e)
  <2> DEFINE e == NormalizeEvent([in EXCEPT !.ref = ref])
  <2>1. e \in Event /\ Accepts(e) /\ events' = Append(events, e) /\ now' = now
    BY <1>1, NormalizedEvent DEF AppendPeerGoalEvent
  <2>2. in \in Event
    BY BoardConstants
  <2>3. e.type = in.type /\ e.ref = ref
    BY <2>2 DEF NormalizeEvent, Event
  <2>4. e.type = "resolve" => e.ref \in DOMAIN events
    BY <2>3 DEF Targets, Of
  <2>5. e.at = now /\ e.workKey = in.workKey
    BY <2>2 DEF NormalizeEvent, Event
  <2>6. in.type = "work-item" => in.workKey # NoKey
    BY BoardConstants
  <2>7. QED
    BY <2>1, <2>3, <2>4, <2>5, <2>6 DEF Extends
<1>2. ASSUME NEW force \in BOOLEAN, NEW summary \in BOOLEAN, NEW peer \in Peers,
             ClosePeerGoal(force, peer, summary)
      PROVE  events' = events \/ \E e \in Event : Extends(e)
  <2>1. ClosingNote(peer) \in Event /\ ClosingNote(peer).type = "note"
    BY ClosingNoteIsEvent
  <2>2. ClosingNote(peer).workKey = NoKey /\ ClosingNote(peer).at = now
    BY DEF ClosingNote, NormalizeEvent, EventOf
  <2>3. CASE summary
    BY <1>2, <2>1, <2>2, <2>3 DEF ClosePeerGoal, Extends
  <2>4. CASE ~summary
    BY <1>2, <2>4 DEF ClosePeerGoal
  <2>5. QED
    BY <2>3, <2>4
<1>3. CASE Tick
  BY <1>3 DEF Tick
<1>4. CASE UNCHANGED vars
  BY <1>4 DEF vars
<1>5. QED
  BY <1>1, <1>2, <1>3, <1>4 DEF Next

-----------------------------------------------------------------------------
(***************************************************************************)
(* FulfilledKeysStayQuiet is inductive once it is known that events only   *)
(* resolve earlier events: otherwise a later proposal could turn out to    *)
(* have been resolved before it was made.                                  *)
(***************************************************************************)
ResolvesPointBack == \A r \in Of("resolve") : events[r].ref < r

Quiet == ResolvesPointBack /\ FulfilledKeysStayQuiet

LEMMA QuietStep ==
  ASSUME TypeOK, Quiet, [Next]_vars PROVE Quiet'
<1>1. CASE events' = events
  BY <1>1 DEF Quiet, ResolvesPointBack, FulfilledKeysStayQuiet, Of, SameKey
<1>2. ASSUME NEW e \in Event, Extends(e) PROVE Quiet'
  <2> DEFINE n == Len(events) + 1
  <2>1. /\ DOMAIN events = 1..Len(events) /\ Len(events) \in Nat
        /\ DOMAIN events' = DOMAIN events \cup {n}
        /\ n \notin DOMAIN events
        /\ \A i \in DOMAIN events : events'[i] = events[i]
        /\ events'[n] = e
    BY <1>2, LogGrows DEF Extends
  <2>2. Of("resolve")' = Of("resolve") \cup (IF e.type = "resolve" THEN {n} ELSE {})
        /\ Of("proposal")' = Of("proposal") \cup (IF e.type = "proposal" THEN {n} ELSE {})
    BY <1>2, LogGrows DEF Extends, EventTypes
  <2>3. Of("resolve") \subseteq DOMAIN events /\ Of("proposal") \subseteq DOMAIN events
    BY DEF Of
  <2> HIDE DEF n
  <2>4. n = Len(events) + 1
    BY DEF n
  <2>5. n \in Nat /\ \A i \in DOMAIN events : i \in Nat /\ i < n
    BY <2>1, <2>4
  <2>6. ResolvesPointBack'
    <3> SUFFICES ASSUME NEW r \in Of("resolve")' PROVE events'[r].ref < r
      BY DEF ResolvesPointBack
    <3>1. CASE r \in Of("resolve")
      BY <3>1, <2>1, <2>3 DEF Quiet, ResolvesPointBack
    <3>2. CASE r = n /\ e.type = "resolve"
      BY <1>2, <3>2, <2>1, <2>5 DEF Extends
    <3>3. QED
      BY <2>2, <3>1, <3>2
  <2>7. FulfilledKeysStayQuiet'
    <3> DEFINE Late == {"claim", "task", "finding", "handoff", "note"}
    <3> SUFFICES ASSUME NEW p \in Of("proposal")', NEW r \in Of("resolve")',
                        NEW i \in DOMAIN events',
                        events'[r].ref = p, r < i, p # i, SameKey(p, i)',
                        events'[i].type \in Late
                 PROVE  events'[i].duplicatePolicy = "allow-parallel"
      BY DEF FulfilledKeysStayQuiet
    <3>1. r \in DOMAIN events /\ r \in Of("resolve") /\ events'[r] = events[r]
      <4>1. i \in Nat /\ i <= n
        BY <2>1, <2>5
      <4>2. r # n
        BY <2>5, <4>1
      <4>3. r \in Of("resolve")
        BY <2>2, <4>2
      <4>4. QED
        BY <2>1, <2>3, <4>3
    <3>2. p \in DOMAIN events /\ p \in Of("proposal") /\ events'[p] = events[p]
      <4>1. p < r /\ r < n
        BY <2>5, <3>1 DEF Quiet, ResolvesPointBack
      <4>2. p # n
        BY <2>5, <3>1, <4>1
      <4>3. QED
        BY <2>1, <2>2, <2>3, <4>2
    <3>3. CASE i \in DOMAIN events
      <4>1. events'[i] = events[i] /\ SameKey(p, i)
        BY <2>1, <3>2, <3>3 DEF SameKey
      <4>2. QED
        BY <3>1, <3>2, <3>3, <4>1 DEF Quiet, FulfilledKeysStayQuiet
    <3>4. CASE i = n
      <4>1. e.workKey = events[p].workKey /\ e.workKey # NoKey /\ e.type \in Late
        BY <2>1, <3>2, <3>4 DEF SameKey
      <4>2. Resolved(p)
        BY <3>1 DEF Resolved
      <4>3. e.workKey \in FulfilledKeys
        BY <3>2, <4>1, <4>2 DEF FulfilledKeys
      <4>4. e.duplicatePolicy = "allow-parallel"
        BY <1>2, <4>1, <4>3 DEF Extends, Accepts, ProposalFulfillmentGuard
      <4>5. QED
        BY <2>1, <3>4, <4>4
    <3>5. QED
      BY <2>1, <3>3, <3>4
  <2>8. QED
    BY <2>6, <2>7 DEF Quiet
<1>3. QED
  BY <1>1, <1>2, StepOfLog

(* After a proposal was resolved its key is only used in parallel by choice. *)
THEOREM FulfilledKeysHolds == Spec => []FulfilledKeysStayQuiet
<1>1. Init => Quiet
  BY DEF Init, Quiet, ResolvesPointBack, FulfilledKeysStayQuiet, Of
<1>2. Quiet => FulfilledKeysStayQuiet
  BY DEF Quiet
<1>3. QED
  BY <1>1, <1>2, QuietStep, TypeCorrect, PTL DEF Spec

-----------------------------------------------------------------------------
(* A task with a message id that is over stays over. *)
LEMMA TaskStaysOver ==
  ASSUME TypeOK, [Next]_vars, NEW t \in Of("task"),
         events[t].taskId # NoTask, t \notin ActiveTasks
  PROVE  t \notin ActiveTasks'
<1>1. CASE events' = events
  BY <1>1 DEF ActiveTasks, Of, Handoffs, MatchesHandoff, HasCompletionEvidence, SameKey, Latest
<1>2. ASSUME NEW e \in Event, Extends(e) PROVE t \notin ActiveTasks'
  <2>1. /\ \A i \in DOMAIN events : i \in DOMAIN events' /\ events'[i] = events[i]
        /\ \A type \in EventTypes : Of(type) \subseteq Of(type)'
    BY <1>2, LogGrows DEF Extends
  <2>2. \A type \in EventTypes : Of(type) \subseteq DOMAIN events
    BY DEF Of
  <2>3. t \in DOMAIN events /\ events'[t] = events[t]
    BY <2>1, <2>2 DEF EventTypes
  <2>4. CASE events[t].status \notin Running
    BY <2>3, <2>4 DEF ActiveTasks
  <2>5. CASE Handoffs(t) # {}
    <3> PICK h \in Of("handoff") : MatchesHandoff(t, h)
      BY <2>5 DEF Handoffs
    <3>1. h \in Of("handoff")' /\ events'[h] = events[h]
      BY <2>1, <2>2 DEF EventTypes
    <3>2. MatchesHandoff(t, h)'
      BY <2>3, <3>1 DEF MatchesHandoff
    <3>3. QED
      BY <3>1, <3>2 DEF ActiveTasks, Handoffs
  <2>6. CASE Handoffs(t) = {} /\ HasCompletionEvidence(t)
    <3>1. CASE Handoffs(t)' # {}
      BY <3>1 DEF ActiveTasks
    <3>2. CASE Handoffs(t)' = {}
      <4>1. PICK r \in Of("release") : /\ events[t].ref # NoEvent
                                       /\ events[r].ref = events[t].ref
                                       /\ events[r].at >= events[t].at
        BY <2>6 DEF HasCompletionEvidence
      <4>2. PICK m \in Of("finding") \cup Of("note") : SameKey(t, m) /\ events[m].at >= events[t].at
        BY <2>6 DEF HasCompletionEvidence
      <4>3. r \in Of("release")' /\ events'[r] = events[r]
        BY <2>1, <2>2 DEF EventTypes
      <4>4. m \in Of("finding")' \cup Of("note")' /\ events'[m] = events[m]
        BY <2>1, <2>2 DEF EventTypes
      <4>5. Latest(Handoffs(t))' = {}
        BY <3>2 DEF Latest
      <4>6. HasCompletionEvidence(t)'
        BY <2>3, <4>1, <4>2, <4>3, <4>4, <4>5 DEF HasCompletionEvidence, SameKey
      <4>7. QED
        BY <4>6 DEF ActiveTasks
    <3>3. QED
      BY <3>1, <3>2
  <2>7. QED
    BY <2>4, <2>5, <2>6 DEF ActiveTasks
<1>3. QED
  BY <1>1, <1>2, StepOfLog

(* A finished task that carries a message id never runs again. *)
THEOREM FinishedTasksHolds == Spec => FinishedTaskStaysFinished
<1>1. TypeOK /\ [Next]_vars =>
        [\A t \in Of("task") :
           events[t].taskId # NoTask /\ t \notin ActiveTasks => t \notin ActiveTasks']_vars
  BY TaskStaysOver
<1>2. QED
  BY <1>1, TypeCorrect, PTL DEF Spec, FinishedTaskStaysFinished

-----------------------------------------------------------------------------
(***************************************************************************)
(* What a normal close leaves behind.  The gate looks at the latest event  *)
(* of a set, so the proofs need that there is one: no event is stamped in  *)
(* the future, hence some stamp is the greatest.                           *)
(***************************************************************************)
LEMMA LeastNumber ==
  ASSUME NEW S \in SUBSET Nat, S # {} PROVE \E m \in S : \A k \in S : m <= k
<1> DEFINE Less == {ss \in Nat \X Nat : ss[1] < ss[2]}
<1>1. IsWellFoundedOn(Less, Nat)
  BY NatLessThanWellFounded DEF OpToRel
<1>2. PICK m \in S : \A k \in S : ~(<<k, m>> \in Less)
  <2> HIDE DEF Less
  <2>1. QED
    BY <1>1, WFMin
<1>3. ASSUME NEW k \in S PROVE m <= k
  <2>1. <<k, m>> \in Nat \X Nat /\ <<k, m>>[1] = k /\ <<k, m>>[2] = m
    OBVIOUS
  <2>2. ~(k < m)
    BY <1>2, <2>1
  <2>3. QED
    BY <2>2
<1>4. QED
  BY <1>3

(* The times of the events of a log. *)
LEMMA EventTimes ==
  ASSUME TypeOK
  PROVE  /\ now \in Nat /\ DOMAIN events \subseteq Nat
         /\ \A i \in DOMAIN events : events[i].at \in Nat /\ events[i].expiresAt \in Nat
<1>1. now \in Nat /\ DOMAIN events \subseteq Nat /\ \A i \in DOMAIN events : events[i] \in Event
  BY DEF TypeOK
<1>2. QED
  BY <1>1 DEF Event

StampsArePast == \A i \in DOMAIN events : events[i].at <= now

LEMMA LatestExists ==
  ASSUME TypeOK, StampsArePast, NEW S \in SUBSET DOMAIN events, S # {}
  PROVE  \E h \in Latest(S) : \A k \in S : events[k].at <= events[h].at
<1>1. \A i \in DOMAIN events : i \in Nat /\ events[i].at \in Nat
  BY EventTimes
<1>2. now \in Nat /\ \A i \in DOMAIN events : now - events[i].at \in Nat
  BY <1>1 DEF TypeOK, StampsArePast
<1> DEFINE ages == {now - events[i].at : i \in S}
<1>3. PICK age \in ages : \A b \in ages : age <= b
  <2>1. ages \in SUBSET Nat /\ ages # {}
    BY <1>2
  <2> HIDE DEF ages
  <2>2. QED
    BY <2>1, LeastNumber
<1>4. PICK u \in S : age = now - events[u].at
  OBVIOUS
<1>5. ASSUME NEW k \in S PROVE events[k].at <= events[u].at
  <2>1. now - events[u].at <= now - events[k].at
    BY <1>3, <1>4
  <2>2. QED
    BY <1>1, <1>2, <2>1
<1> DEFINE T == {k \in S : events[k].at = events[u].at}
<1>6. PICK h \in T : \A k \in T : h <= k
  <2>1. T \in SUBSET Nat /\ T # {}
    BY <1>1
  <2> HIDE DEF T
  <2>2. QED
    BY <2>1, LeastNumber
<1>7. ASSUME NEW k \in S
      PROVE  \/ events[k].at < events[h].at
             \/ events[k].at = events[h].at /\ h <= k
  <2>1. events[h].at = events[u].at /\ events[k].at <= events[u].at
    BY <1>5
  <2>2. CASE k \in T
    BY <1>6, <2>1, <2>2
  <2>3. CASE k \notin T
    BY <1>1, <2>1, <2>3
  <2>4. QED
    BY <2>2, <2>3
<1>8. h \in Latest(S)
  BY <1>7 DEF Latest
<1>9. QED
  BY <1>5, <1>8

(* An open goal was never closed, stamps are past, work items have keys. *)
CloseInv ==
  /\ status = "open" => closure = "none"
  /\ StampsArePast
  /\ \A i \in Of("work-item") : events[i].workKey # NoKey

LEMMA CloseStep == ASSUME TypeOK, CloseInv, [Next]_vars PROVE CloseInv'
<1>1. (status = "open" => closure = "none")'
  BY DEF CloseInv, Next, AppendPeerGoalEvent, ClosePeerGoal, Tick, vars
<1>2. now \in Nat /\ now' \in Nat /\ now <= now'
  <2>1. now' = now \/ now' = now + 1
    BY DEF Next, AppendPeerGoalEvent, ClosePeerGoal, Tick, vars
  <2>2. QED
    BY <2>1, EventTimes
<1>3. \A i \in DOMAIN events : events[i].at \in Nat
  BY EventTimes
<1>4. CASE events' = events
  BY <1>1, <1>2, <1>3, <1>4 DEF CloseInv, StampsArePast, Of
<1>5. ASSUME NEW e \in Event, Extends(e) PROVE CloseInv'
  <2>1. StampsArePast'
    BY <1>2, <1>5, LogGrows DEF CloseInv, StampsArePast, Extends
  <2>2. (\A i \in Of("work-item") : events[i].workKey # NoKey)'
    BY <1>5, LogGrows DEF CloseInv, Extends, Of
  <2>3. QED
    BY <1>1, <2>1, <2>2 DEF CloseInv
<1>6. QED
  BY <1>4, <1>5, StepOfLog

LEMMA AlwaysCloseInv == Spec => []CloseInv
<1>1. Init => CloseInv
  BY DEF Init, CloseInv, StampsArePast, Of
<1>2. QED
  BY <1>1, CloseStep, TypeCorrect, PTL DEF Spec

LEMMA NormalCloseIsReady == ASSUME CloseInv, Next, Closes PROVE ReadyToClose
BY DEF CloseInv, Closes, Next, AppendPeerGoalEvent, ClosePeerGoal, Tick

(* What the gate says about claims, tasks and failures, in terms of events. *)
LEMMA GateSettlesFailures ==
  ASSUME TypeOK, StampsArePast, UnresolvedHandoffs = {},
         NEW t \in Of("task"), NEW h \in Of("handoff"),
         events[t].taskId # NoTask, HandsOff(h, t),
         events[h].at >= events[t].at
  PROVE  FailureSettled(t, h)
<1>1. h \in Handoffs(t) /\ Handoffs(t) \subseteq DOMAIN events
  BY DEF Handoffs, MatchesHandoff, HandsOff, Of
<1>2. PICK k \in Latest(Handoffs(t)) : events[h].at <= events[k].at
  BY <1>1, LatestExists
<1>3. /\ k \in Of("handoff") /\ h \in DOMAIN events /\ k \in DOMAIN events
      /\ HandsOff(k, t)
  BY <1>1 DEF Latest, Handoffs, MatchesHandoff, HandsOff, Of
<1>4. \A i \in DOMAIN events : events[i].at \in Nat
  BY EventTimes
<1>5. CASE HasCompletionEvidence(t)
  <2>1. PICK m \in Of("finding") \cup Of("note") : SameKey(t, m) /\ events[m].at >= events[k].at
    BY <1>5 DEF HasCompletionEvidence
  <2>2. PICK r \in Of("release") : /\ events[t].ref # NoEvent /\ events[r].ref = events[t].ref
                                   /\ events[r].at >= events[t].at
    BY <1>5 DEF HasCompletionEvidence
  <2>3. m \in DOMAIN events
    BY DEF Of
  <2>4. events[m].at >= events[h].at
    BY <1>2, <1>3, <1>4, <2>1, <2>3
  <2>5. QED
    BY <2>1, <2>2, <2>4 DEF FailureSettled, SameKey
<1>6. CASE ~HasCompletionEvidence(t)
  <2>1. events[k].status \in Successful \/ \E r \in Of("resolve") : events[r].ref = k
    BY <1>6 DEF UnresolvedHandoffs
  <2>2. events[k].at >= events[h].at
    BY <1>2, <1>3, <1>4
  <2>3. QED
    BY <1>3, <2>1, <2>2 DEF FailureSettled, Successful
<1>7. QED
  BY <1>5, <1>6

LEMMA GateEndsClaims ==
  ASSUME TypeOK, ActiveClaims = {}, StaleClaims = {}, NEW c \in Of("claim")
  PROVE  ClaimOver(c)
<1>1. Released(c) \/ Expired(c)
  BY DEF ActiveClaims, StaleClaims
<1>2. CASE Released(c)
  BY <1>2 DEF Released, ClaimOver
<1>3. CASE Expired(c)
  <2>1. \A i \in DOMAIN events : events[i].expiresAt \in Nat /\ now \in Nat
    BY EventTimes
  <2>2. c \in DOMAIN events /\ Heartbeats(c) \subseteq DOMAIN events
    BY DEF Heartbeats, Of
  <2>3. \E i \in {c} \cup Heartbeats(c) : Due(events[i].expiresAt)
    BY <1>3, <2>1, <2>2 DEF Expired, Latest, FirstPositive
  <2>4. QED
    BY <2>1, <2>2, <2>3 DEF Due, ClaimOver
<1>4. QED
  BY <1>1, <1>2, <1>3

LEMMA GateEndsTasks ==
  ASSUME ActiveTasks = {}, NEW t \in Of("task") PROVE TaskOver(t)
<1>1. Handoffs(t) # {} \/ HasCompletionEvidence(t) \/ events[t].status \notin Running
  BY DEF ActiveTasks
<1>2. CASE Handoffs(t) # {}
  BY <1>2 DEF Handoffs, MatchesHandoff, SameKey, TaskOver
<1>3. CASE HasCompletionEvidence(t)
  BY <1>3 DEF HasCompletionEvidence, SameKey, TaskOver
<1>4. QED
  BY <1>1, <1>2, <1>3 DEF TaskOver

LEMMA GateHearsVotes ==
  ASSUME FailedVotes = {}, PassingVotes # {}
  PROVE  /\ \A v \in Of("vote") : LastWord(v) => events[v].verdict # "fail"
         /\ \E v \in Of("vote") : LastWord(v) /\ events[v].verdict # "fail"
<1>1. \A v \in Of("vote") : LastWord(v) <=> v \in CurrentVotes
  BY DEF LastWord, CurrentVotes, Of
<1>2. CurrentVotes \subseteq Of("vote")
  BY DEF CurrentVotes
<1>3. QED
  BY <1>1, <1>2 DEF FailedVotes, PassingVotes, Passing

(* A goal is closed normally only when the log itself shows that its claims,*)
(* tasks, failures, proposals, objections and votes are settled.            *)
THEOREM NormalClosesAreSettled == Spec => NormalCloseIsSettled
<1> DEFINE Settled ==
       /\ \A c \in Of("claim") : ClaimOver(c)
       /\ \A t \in Of("task") : TaskOver(t)
       /\ \A t \in Of("task"), h \in Of("handoff") :
            /\ events[t].taskId # NoTask /\ HandsOff(h, t)
            /\ events[h].at >= events[t].at /\ events[h].status \notin {"done", "none"}
            => FailureSettled(t, h)
       /\ \A i \in Demands : \E r \in Of("resolve") : events[r].ref = i
       /\ \A v \in Of("vote") : LastWord(v) => events[v].verdict # "fail"
       /\ \E v \in Of("vote") : LastWord(v) /\ events[v].verdict # "fail"
<1>1. ASSUME TypeOK, CloseInv, Next, Closes PROVE Settled
  <2>1. ReadyToClose /\ StampsArePast
    BY <1>1, NormalCloseIsReady DEF CloseInv
  <2>2. \A c \in Of("claim") : ClaimOver(c)
    BY <1>1, <2>1, GateEndsClaims DEF ReadyToClose
  <2>3. \A t \in Of("task") : TaskOver(t)
    BY <2>1, GateEndsTasks DEF ReadyToClose
  <2>4. \A t \in Of("task"), h \in Of("handoff") :
            /\ events[t].taskId # NoTask /\ HandsOff(h, t)
            /\ events[h].at >= events[t].at /\ events[h].status \notin {"done", "none"}
            => FailureSettled(t, h)
    BY <1>1, <2>1, GateSettlesFailures DEF ReadyToClose
  <2>5. \A i \in Demands : \E r \in Of("resolve") : events[r].ref = i
    BY <2>1 DEF ReadyToClose, OpenProposals, BlockingObjections, BlockingSeverities, Resolved, Demands
  <2>6. QED
    BY <2>1, <2>2, <2>3, <2>4, <2>5, GateHearsVotes DEF ReadyToClose
<1>2. TypeOK /\ CloseInv /\ [Next]_vars => [Closes => Settled]_vars
  BY <1>1
<1>3. Spec => [][Closes => Settled]_vars
  <2> HIDE DEF Settled
  <2>1. QED
    BY <1>2, TypeCorrect, AlwaysCloseInv, PTL DEF Spec
<1>4. QED
  BY <1>3 DEF NormalCloseIsSettled

-----------------------------------------------------------------------------
(* The last word on each work item, and on those it depends on. *)
LEMMA GateFinishesItems ==
  ASSUME TypeOK, CloseInv, OpenWorkItems = {}, BlockedWorkItems = {}, NEW i \in Of("work-item")
  PROVE  \E j \in Of("work-item") :
           /\ SameKey(i, j) /\ i <= j /\ events[j].status = "done"
           /\ \A d \in UNION events[i].dependsOn :
                \/ \E k \in Of("work-item") : events[k].workKey = d /\ events[k].status = "done"
                \/ \E k \in Of("work-item") : SameKey(i, k) /\ i < k /\ events[k].dependsOn # {}
<1> DEFINE key == events[i].workKey
           listed == {n \in ItemEvents(key) : events[n].dependsOn # {}}
<1>1. key \in Items /\ key # NoKey /\ i \in ItemEvents(key)
  BY DEF CloseInv, Items, ItemEvents
<1>2. PICK j \in Newest(ItemEvents(key)) : events[j].status = "done"
  BY <1>1 DEF OpenWorkItems, DoneItems
<1>3. j \in Of("work-item") /\ SameKey(i, j) /\ i <= j
  BY <1>1, <1>2 DEF Newest, ItemEvents, SameKey
<1>4. ASSUME NEW d \in UNION events[i].dependsOn
      PROVE  \/ \E k \in Of("work-item") : events[k].workKey = d /\ events[k].status = "done"
             \/ \E k \in Of("work-item") : SameKey(i, k) /\ i < k /\ events[k].dependsOn # {}
  <2>1. i \in listed
    BY <1>1
  <2>2. CASE i \in Newest(listed)
    <3>1. d \in DependsOn(key)
      BY <2>2 DEF DependsOn
    <3>2. d \in DoneItems
      BY <1>1, <3>1 DEF BlockedWorkItems
    <3>3. QED
      BY <3>2 DEF DoneItems, Newest, ItemEvents
  <2>3. CASE i \notin Newest(listed)
    <3>1. PICK k \in listed : ~(k <= i)
      BY <2>1, <2>3 DEF Newest
    <3>2. k \in Of("work-item") /\ SameKey(i, k) /\ events[k].dependsOn # {}
      BY <1>1 DEF ItemEvents, SameKey
    <3>3. i \in Nat /\ k \in Nat
      BY <3>2 DEF Of, TypeOK
    <3>4. QED
      BY <3>1, <3>2, <3>3
  <2>4. QED
    BY <2>2, <2>3
<1>5. QED
  BY <1>2, <1>3, <1>4

(* A goal is closed normally only when its plan was carried out.            *)
THEOREM NormalClosesFinishPlans == Spec => NormalCloseFinishesPlan
<1> DEFINE Finished ==
       \A i \in Of("work-item") :
         \E j \in Of("work-item") :
           /\ SameKey(i, j) /\ i <= j /\ events[j].status = "done"
           /\ \A d \in UNION events[i].dependsOn :
                \/ \E k \in Of("work-item") : events[k].workKey = d /\ events[k].status = "done"
                \/ \E k \in Of("work-item") : SameKey(i, k) /\ i < k /\ events[k].dependsOn # {}
<1>1. ASSUME TypeOK, CloseInv, Next, Closes PROVE Finished
  <2>1. OpenWorkItems = {} /\ BlockedWorkItems = {}
    BY <1>1, NormalCloseIsReady DEF ReadyToClose
  <2>2. QED
    BY <1>1, <2>1, GateFinishesItems
<1>2. TypeOK /\ CloseInv /\ [Next]_vars => [Closes => Finished]_vars
  BY <1>1
<1>3. Spec => [][Closes => Finished]_vars
  <2> HIDE DEF Finished
  <2>1. QED
    BY <1>2, TypeCorrect, AlwaysCloseInv, PTL DEF Spec
<1>4. QED
  BY <1>3 DEF NormalCloseFinishesPlan

-----------------------------------------------------------------------------
(***************************************************************************)
(* What the scout suggests.  With nobody at work no suggestion is hidden,  *)
(* so if there were none every list it is made from would be empty: there  *)
(* is no trouble, nothing open and nothing missing for the policy.  What   *)
(* is left to exclude is a plan whose items all wait for each other, which *)
(* the verifier refuses, and votes that neither pass nor fail, which the   *)
(* board does.                                                             *)
(***************************************************************************)
VotesDecide == \A v \in Of("vote") : events[v].verdict # "none"

LEMMA AlwaysVotesDecide == Spec => []VotesDecide
<1>1. Init => VotesDecide
  BY DEF Init, VotesDecide, Of
<1>2. TypeOK /\ VotesDecide /\ [Next]_vars => VotesDecide'
  <2> SUFFICES ASSUME TypeOK, VotesDecide, [Next]_vars PROVE VotesDecide'
    OBVIOUS
  <2>1. ASSUME NEW e \in Event, events' = Append(events, e), e.type = "vote" => e.verdict # "none"
        PROVE  VotesDecide'
    BY <2>1, LogGrows DEF VotesDecide, Of
  <2>2. ASSUME NEW in \in Inputs, NEW ref \in Targets(in),
               AppendPeerGoalEvent([in EXCEPT !.ref = ref])
        PROVE  VotesDecide'
    <3> DEFINE e == NormalizeEvent([in EXCEPT !.ref = ref])
    <3>1. e \in Event /\ events' = Append(events, e)
      BY <2>2, NormalizedEvent DEF AppendPeerGoalEvent
    <3>2. e.type = in.type /\ e.verdict = in.verdict
      BY BoardConstants DEF NormalizeEvent, Event
    <3>3. QED
      BY <2>1, <3>1, <3>2, BoardConstants
  <2>3. ASSUME NEW force \in BOOLEAN, NEW summary \in BOOLEAN, NEW peer \in Peers,
               ClosePeerGoal(force, peer, summary)
        PROVE  VotesDecide'
    <3>1. CASE summary
      BY <2>1, <2>3, <3>1, ClosingNoteIsEvent DEF ClosePeerGoal
    <3>2. CASE ~summary
      BY <2>3, <3>2 DEF ClosePeerGoal, VotesDecide, Of
    <3>3. QED
      BY <3>1, <3>2
  <2>4. CASE Tick \/ UNCHANGED vars
    BY <2>4 DEF Tick, vars, VotesDecide, Of
  <2>5. QED
    BY <2>2, <2>3, <2>4 DEF Next
<1>3. QED
  BY <1>1, <1>2, TypeCorrect, PTL DEF Spec

(* No slot is suggested for a demand of the policy only when it is met.     *)
LEMMA NoSlotsLeft ==
  ASSUME NEW metric, NEW q, NEW required \in Nat, NEW actual \in Nat,
         PolicySlots(metric, q, required, actual) = {}
  PROVE  actual >= required
<1>1. SUFFICES ASSUME actual < required PROVE FALSE
  OBVIOUS
<1>2. required \in (actual + 1)..required
  BY <1>1
<1>3. QED
  BY <1>2 DEF PolicySlots

LEMMA NothingMissing ==
  ASSUME TypeOK, Missing = {} PROVE ClosurePolicySatisfied
<1> DEFINE peersOf(q) == {events[i].peerId : i \in Matching(q)}
<1>1. IsFiniteSet(DOMAIN events)
  BY FS_Interval DEF TypeOK
<1>2. ASSUME NEW S \in SUBSET DOMAIN events PROVE Cardinality(S) \in Nat
  BY <1>1, FS_Subset, FS_CardinalityType
<1>3. ASSUME NEW q \in Requirements PROVE Cardinality(peersOf(q)) \in Nat
  <2>1. IsFiniteSet(Matching(q))
    BY <1>1, FS_Subset DEF Matching
  <2>2. [i \in Matching(q) |-> events[i].peerId] \in Surjection(Matching(q), peersOf(q))
    BY DEF Surjection
  <2>3. QED
    BY <2>1, <2>2, FS_Surjection, FS_CardinalityType
<1>4. Cardinality(PassingVotes) \in Nat /\ Cardinality(IndependentPassingVotes) \in Nat
  BY <1>2 DEF PassingVotes, IndependentPassingVotes, CurrentVotes, Of
<1>5. /\ Cardinality(PassingVotes) >= MinPassingVotes
      /\ Cardinality(IndependentPassingVotes) >= MinIndependentVotes
  <2>1. /\ PolicySlots("policy votes", Nothing, MinPassingVotes, Cardinality(PassingVotes)) = {}
        /\ PolicySlots("policy independent votes", Nothing, MinIndependentVotes,
                       Cardinality(IndependentPassingVotes)) = {}
    BY DEF Missing
  <2>2. MinPassingVotes \in Nat /\ MinIndependentVotes \in Nat
    BY BoardConstants
  <2>3. Cardinality(PassingVotes) >= MinPassingVotes
    BY <1>4, <2>1, <2>2, NoSlotsLeft
  <2>4. Cardinality(IndependentPassingVotes) >= MinIndependentVotes
    BY <1>4, <2>1, <2>2, NoSlotsLeft
  <2>5. QED
    BY <2>3, <2>4
<1>6. ASSUME NEW q \in Requirements
      PROVE  /\ Cardinality(Matching(q)) >= q.min
             /\ Cardinality(peersOf(q)) >= q.minDistinctPeers
  <2>1. Cardinality(Matching(q)) \in Nat /\ q.min \in Nat /\ q.minDistinctPeers \in Nat
    BY <1>2, BoardConstants DEF Matching
  <2>2. MissingOf(q) = {}
    BY DEF Missing
  <2>3. /\ PolicySlots("policy total", q, q.min, Cardinality(Matching(q))) = {}
        /\ PolicySlots("policy distinct peers", q, q.minDistinctPeers, Cardinality(peersOf(q))) = {}
    BY <2>2 DEF MissingOf
  <2>4. Cardinality(Matching(q)) >= q.min
    BY <2>1, <2>3, NoSlotsLeft
  <2>5. Cardinality(peersOf(q)) >= q.minDistinctPeers
    BY <1>3, <2>1, <2>3, NoSlotsLeft
  <2>6. QED
    BY <2>4, <2>5
<1>7. QED
  BY <1>5, <1>6 DEF ClosurePolicySatisfied

(* Items that all wait for each other are a cycle: in a plan without one    *)
(* with open items, one of them is ready, or waits for what never comes.    *)
LEMMA PlanMovesOn ==
  ASSUME ~WorkItemCycles, ItemSuggestions = {}
  PROVE  OpenWorkItems = {} /\ BlockedWorkItems = {}
<1> DEFINE S == OpenWorkItems \cup BlockedWorkItems
<1>1. S \subseteq Items
  BY DEF OpenWorkItems, BlockedWorkItems
<1>2. \A k \in BlockedWorkItems : BlockedBy(k) # {} /\ BlockedBy(k) \subseteq OpenWorkItems
  BY DEF ItemSuggestions, BlockedWorkItemsNeedingTriage, BlockedWorkItems, BlockedBy
<1>3. \A k \in OpenWorkItems : k \in BlockedWorkItems
  BY DEF ItemSuggestions, BlockedBy, BlockedWorkItems, OpenWorkItems
<1>4. \A k \in S : DependsOn(k) \cap S # {}
  BY <1>2, <1>3 DEF BlockedBy
<1>5. S = {}
  <2> HIDE DEF S
  <2>1. QED
    BY <1>1, <1>4 DEF WorkItemCycles
<1>6. QED
  BY <1>5

LEMMA QuietBoardSuggests ==
  ASSUME TypeOK, VotesDecide, status = "open", Active = {}, ~WorkItemCycles
  PROVE  ScoutSuggestions # {}
<1> SUFFICES ASSUME ScoutSuggestions = {} PROVE FALSE
  OBVIOUS
<1>1. Trouble = {} /\ OpenWork = {} /\ LastSteps = {}
  <2>1. \A s : ~HasActiveWork(s)
    BY DEF HasActiveWork
  <2>2. (IF Trouble # {} THEN Trouble ELSE OpenWork \cup LastSteps) = {}
    BY <2>1 DEF ScoutSuggestions
  <2>3. QED
    BY <2>2
<1>2. BlockingObjections = {} /\ UnresolvedHandoffs = {} /\ FailedVotes = {}
  BY <1>1 DEF Trouble
<1>3. StaleClaims = {} /\ ProposalSuggestions = {} /\ ItemSuggestions = {}
  BY <1>1 DEF OpenWork
<1>4. OpenProposals = {}
  BY <1>3 DEF ProposalSuggestions, Owned
<1>5. OpenWorkItems = {} /\ BlockedWorkItems = {}
  BY <1>3, PlanMovesOn
<1>6. ActiveClaims = {} /\ ActiveTasks = {}
  BY DEF Active
<1>7. ClosurePolicySuggestions = Missing
  BY <1>3, <1>4, <1>5, <1>6 DEF ClosurePolicySuggestions
<1>8. Missing = {} /\ ~ReadyToClose
  BY <1>1, <1>7 DEF LastSteps
<1>9. CurrentVotes # {}
  <2>1. StartupLanes # {}
    BY DEF StartupLanes
  <2>2. QED
    BY <1>1, <1>3, <1>4, <1>5, <1>6, <1>7, <1>8, <2>1 DEF LastSteps
<1>10. PassingVotes # {}
  <2>1. PICK v \in CurrentVotes : TRUE
    BY <1>9
  <2>2. v \in Of("vote") /\ events[v].verdict # "fail"
    BY <1>2 DEF FailedVotes, CurrentVotes
  <2>3. events[v].verdict \in Verdicts /\ events[v].verdict # "none"
    <3>1. events[v] \in Event
      BY <2>2 DEF TypeOK, Of
    <3>2. QED
      BY <2>2, <3>1 DEF VotesDecide, Event
  <2>4. QED
    BY <2>2, <2>3 DEF PassingVotes, Passing, Verdicts
<1>11. ClosurePolicySatisfied
  BY <1>8, NothingMissing
<1>12. QED
  BY <1>2, <1>3, <1>4, <1>5, <1>6, <1>8, <1>10, <1>11 DEF ReadyToClose

(* On an open goal whose plan the verifier accepts and that nobody works    *)
(* on, the scout always has something to suggest, be it only to close it.   *)
THEOREM GoalNeverRests == Spec => []SomethingToDo
<1>1. TypeOK /\ VotesDecide => SomethingToDo
  BY QuietBoardSuggests DEF SomethingToDo, VerifyPeerGoalPlan
<1>2. QED
  BY <1>1, TypeCorrect, AlwaysVotesDecide, PTL

-----------------------------------------------------------------------------
(***************************************************************************)
(* The commands.  What one of them still has to append are inputs of the   *)
(* board that name no target, so that whatever is given, and wherever it   *)
(* breaks off, each step is one the board allows.                          *)
(***************************************************************************)
CommandShape == command \in Seq(Untargeted)

LEMMA PostingIsAppending ==
  ASSUME PostGoalEvent \/ RecordDispatch PROVE Next
<1>1. ASSUME NEW e \in PostedEvents, e.type \notin Resolving PROVE NoEvent \in Targets(e)
  BY <1>1 DEF Targets, Resolving
<1>2. PostGoalEvent =>
        \E e \in Inputs : \E ref \in Targets(e) : AppendPeerGoalEvent([e EXCEPT !.ref = ref])
  <2>1. SUFFICES ASSUME NEW e \in PostedEvents,
                        NEW ref \in IF e.type \in Resolving THEN Targets(e) ELSE {NoEvent},
                        AppendPeerGoalEvent([e EXCEPT !.ref = ref])
                 PROVE  \E d \in Inputs : \E r \in Targets(d) : AppendPeerGoalEvent([d EXCEPT !.ref = r])
    BY DEF PostGoalEvent
  <2>2. e \in Inputs /\ ref \in Targets(e)
    BY <1>1 DEF PostedEvents
  <2>3. QED
    BY <2>1, <2>2
<1>3. RecordDispatch =>
        \E in \in Inputs : \E ref \in Targets(in) : AppendPeerGoalEvent([in EXCEPT !.ref = ref])
  BY DEF RecordDispatch
<1>4. QED
  BY <1>2, <1>3 DEF Next

LEMMA CommandStepIsAppending ==
  ASSUME CommandShape, CommandStep PROVE Next /\ CommandShape'
<1> DEFINE e == Head(command)
<1>1. e \in Untargeted /\ Tail(command) \in Seq(Untargeted)
  BY DEF CommandShape, CommandStep
<1>2. e \in Inputs /\ NoEvent \in Targets(e)
  BY <1>1 DEF Untargeted, Targets
<1>3. e = [e EXCEPT !.ref = NoEvent]
  BY <1>1, BoardConstants DEF Untargeted, Event
<1>4. AppendPeerGoalEvent([e EXCEPT !.ref = NoEvent])
  BY <1>3 DEF CommandStep
<1>5. Next
  BY <1>2, <1>4 DEF Next
<1>6. QED
  BY <1>1, <1>5 DEF CommandStep, CommandShape

LEMMA CommandMoves ==
  ASSUME CommandShape, [CommandNext]_commandVars
  PROVE  [Next]_vars /\ CommandShape'
<1>1. ASSUME PostGoalEvent \/ RecordDispatch \/ Tick, UNCHANGED <<command, commands>>
      PROVE  Next /\ CommandShape'
  BY <1>1, PostingIsAppending DEF Next, CommandShape
<1>2. ASSUME NEW force \in BOOLEAN, NEW summary \in BOOLEAN, NEW peer \in Peers,
             ClosePeerGoal(force, peer, summary), UNCHANGED <<command, commands>>
      PROVE  Next /\ CommandShape'
  BY <1>2 DEF Next, CommandShape
<1>3. ASSUME NEW sequence \in Seq(Untargeted), Give(sequence)
      PROVE  UNCHANGED vars /\ CommandShape'
  BY <1>3 DEF Give, CommandShape
<1>4. ASSUME CreatePeerGoalPlan \/ SeedPeerGoalProposals \/ HandlePeerGoalFanout
      PROVE  UNCHANGED vars /\ CommandShape'
  BY <1>3, <1>4, CommandEvents
     DEF CreatePeerGoalPlan, SeedPeerGoalProposals, HandlePeerGoalFanout
<1>5. ASSUME CommandEnds \/ UNCHANGED commandVars PROVE UNCHANGED vars /\ CommandShape'
  <2>1. UNCHANGED vars /\ (command' = <<>> \/ command' = command)
    BY <1>5 DEF CommandEnds, commandVars
  <2>2. <<>> \in Seq(Untargeted)
    OBVIOUS
  <2>3. QED
    BY <2>1, <2>2 DEF CommandShape
<1>6. CASE CommandNext
  BY <1>1, <1>2, <1>4, <1>5, <1>6, CommandStepIsAppending DEF CommandNext, HandlePeerGoalCommand
<1>7. QED
  BY <1>5, <1>6

(* Whatever commands are given, and wherever they break off, the board goes *)
(* through states its own updates reach: what is proved of the board holds  *)
(* under the commands.                                                     *)
THEOREM CommandsUseBoard == CommandSpec => Spec
<1>1. CommandInit => Init /\ CommandShape
  BY DEF CommandInit, CommandShape
<1>2. CommandShape /\ [CommandNext]_commandVars => [Next]_vars /\ CommandShape'
  BY CommandMoves
<1>3. QED
  BY <1>1, <1>2, PTL DEF CommandSpec, Spec
=============================================================================
