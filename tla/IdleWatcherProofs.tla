-------------------------- MODULE IdleWatcherProofs --------------------------
(***************************************************************************)
(* Theorem about IdleWatcher, for any work, peers, budget and number of    *)
(* sessions: the budget of activations is kept.                            *)
(*                                                                         *)
(* A check compares the count when it is called and adds to it after it    *)
(* has waited twice, so that the budget alone is no invariant of a step.   *)
(* What makes it one is that while a check is on its way it is the only    *)
(* one, and its activation is still to be had: the other activations need  *)
(* a moment without any check.                                             *)
(***************************************************************************)
EXTENDS IdleWatcher, TLAPS

CountShape == count \in Nat /\ check \in [Slots -> {"idle", "messages", "board"}]

OneCheck == \A i, k \in Slots : check[i] # "idle" /\ check[k] # "idle" => i = k

RoomForCheck == (\E i \in Slots : check[i] # "idle") => count < MaxActivations

BudgetInv == CountShape /\ OneCheck /\ RoomForCheck /\ WithinBudget

(* At the start nothing is counted and nothing is checked. *)
LEMMA BudgetInit == IdleInit => BudgetInv
<1> SUFFICES ASSUME IdleInit PROVE BudgetInv
  OBVIOUS
<1>1. count = 0 /\ check = [i \in Slots |-> "idle"]
  BY DEF IdleInit
<1>2. 0 <= MaxActivations
  BY IdleConstants
<1>3. QED
  BY <1>1, <1>2 DEF BudgetInv, CountShape, OneCheck, RoomForCheck, WithinBudget

(* What does not count and starts no check keeps the budget. *)
LEMMA BudgetApart ==
  ASSUME BudgetInv, count' = count, check' = check
  PROVE  BudgetInv'
BY DEF BudgetInv, CountShape, OneCheck, RoomForCheck, WithinBudget

(* An activation without a check needs that there is none, and room. *)
LEMMA BudgetSpent ==
  ASSUME BudgetInv, NEW i \in Slots, Called(i), count' = count + 1, check' = check
  PROVE  BudgetInv'
BY IdleConstants DEF BudgetInv, CountShape, OneCheck, RoomForCheck, WithinBudget, Called, NotChecking

(* A check that ends without an activation. *)
LEMMA CheckGivesUp ==
  ASSUME BudgetInv, NEW i \in Slots, CheckGo(i, "idle"), count' = count
  PROVE  BudgetInv'
BY DEF CheckGo, BudgetInv, CountShape, OneCheck, RoomForCheck, WithinBudget

(* The steps of a check. *)
LEMMA CheckKeepsBudget ==
  ASSUME BudgetInv, NEW i \in Slots, CheckStep(i) \/ CheckFails(i)
  PROVE  BudgetInv'
<1>1. CASE JudgeContext(i)
  BY <1>1, BudgetSpent DEF JudgeContext
<1>2. CASE NudgeInbound(i)
  BY <1>2, BudgetSpent DEF NudgeInbound
<1>3. CASE StartCheck(i)
  <2>1. Called(i) /\ CheckGo(i, "messages") /\ count' = count
    BY <1>3 DEF StartCheck
  <2>2. QED
    BY <2>1 DEF CheckGo, Called, NotChecking, BudgetInv, CountShape, OneCheck, RoomForCheck, WithinBudget
<1>4. CASE ReadMessages(i)
  <2>1. check[i] = "messages" /\ count' = count
    BY <1>4 DEF ReadMessages, OnlyCheck
  <2>2. CASE CheckGo(i, "idle")
    BY <2>1, <2>2, CheckGivesUp
  <2>3. CASE CheckGo(i, "board")
    BY <2>1, <2>3 DEF CheckGo, BudgetInv, CountShape, OneCheck, RoomForCheck, WithinBudget
  <2>4. QED
    BY <1>4, <2>2, <2>3 DEF ReadMessages
<1>5. CASE ReadBoard(i)
  <2>1. check[i] = "board" /\ CheckGo(i, "idle") /\ (count' = count \/ count' = count + 1)
    BY <1>5 DEF ReadBoard
  <2>2. count < MaxActivations
    BY <2>1 DEF BudgetInv, RoomForCheck
  <2>3. CASE count' = count
    BY <2>1, <2>3, CheckGivesUp
  <2>4. CASE count' = count + 1
    BY <2>1, <2>2, <2>4, IdleConstants
    DEF CheckGo, BudgetInv, CountShape, OneCheck, RoomForCheck, WithinBudget
  <2>5. QED
    BY <2>1, <2>3, <2>4
<1>6. CASE CheckFails(i)
  BY <1>6, CheckGivesUp DEF CheckFails, OnlyCheck
<1>7. QED
  BY <1>1, <1>2, <1>3, <1>4, <1>5, <1>6 DEF CheckStep

(* Sweeps neither count nor check. *)
LEMMA SweepIsApart ==
  ASSUME NEW j \in Slots, SweepStep(j) PROVE count' = count /\ check' = check
BY DEF SweepStep, StartSweep, SweepReads, ClaimOffer, SendOffer, OnlySweep, stateVars

(* Neither does anything the agent, its messages or the others do. *)
LEMMA OthersAreApart ==
  ASSUME \/ CompactionEnds \/ (\E w \in Works : OfferEnds(w))
         \/ StartSession \/ EndSession \/ TurnStarts \/ TurnEnds \/ InboundArrives \/ InboundTimesOut
         \/ OthersWork \/ PassTime \/ UNCHANGED idleVars
  PROVE  count' = count /\ check' = check
BY DEF CompactionEnds, OfferEnds, StartSession, EndSession, TurnStarts, TurnEnds, InboundArrives,
       InboundTimesOut, OthersWork, Moves, PassTime, idleVars, stateVars

LEMMA BudgetStep == BudgetInv /\ [IdleNext]_idleVars => BudgetInv'
<1> SUFFICES ASSUME BudgetInv, [IdleNext]_idleVars PROVE BudgetInv'
  OBVIOUS
<1>1. CASE \E i \in Slots : CheckStep(i) \/ CheckFails(i)
  BY <1>1, CheckKeepsBudget
<1>2. CASE \E j \in Slots : SweepStep(j)
  BY <1>2, SweepIsApart, BudgetApart
<1>3. CASE \/ CompactionEnds \/ (\E w \in Works : OfferEnds(w))
           \/ StartSession \/ EndSession \/ TurnStarts \/ TurnEnds \/ InboundArrives \/ InboundTimesOut
           \/ OthersWork \/ PassTime \/ UNCHANGED idleVars
  BY <1>3, OthersAreApart, BudgetApart
<1>4. QED
  BY <1>1, <1>2, <1>3 DEF IdleNext

(* The watcher never activates its agent more often than configured,        *)
(* although it compares its count before it reads messages and board and    *)
(* counts only afterwards (idle-watcher.mjs).                               *)
THEOREM BudgetIsKept == IdleSpec => []WithinBudget
<1>1. BudgetInv => WithinBudget
  BY DEF BudgetInv
<1>2. QED
  BY <1>1, BudgetInit, BudgetStep, PTL DEF IdleSpec
=============================================================================
