------------------------------ MODULE IdleWatcher ------------------------------
(***************************************************************************)
(* The idle watcher of one Pi process (src/src/peers/idle-watcher.mjs) and *)
(* the offers its extension pushes to other peers (extensions/pi-peer/     *)
(* index.ts).  A timer, the end of a turn and a change of the goal board   *)
(* call for a check; these, and any event of a message, for a sweep that   *)
(* offers work: in the model both may start at any time.  Both read, wait  *)
(* and then act, and a flag keeps each from overlapping itself.            *)
(*                                                                         *)
(* Of the board only the work a scout may suggest is kept: whether it is   *)
(* open, taken by a peer, or done.  Cooldowns are kept as the time they    *)
(* end at.  Evidence of useful activations, diagnostics and the activation *)
(* that asks to resolve an open item with evidence are left out.           *)
(***************************************************************************)
EXTENDS Naturals, FiniteSets

CONSTANTS
  Me, Peers,        \* this peer; the peers it may offer work to
  Works,            \* what the scout may suggest
  WorkOf,           \* of each: [goal, rank, kind, lane, write]
  FitsOf,           \* of each peer: the works of its lane and persona
  Nobody,
  Coordination,     \* works surfaced in the footer only
  LocalOnly,        \* works that are not offered to others
  MaxActivations,   \* maxActivationsPerSession
  Cooldown,         \* cooldownMs, in clock ticks
  NudgeCooldown,    \* activationNudgeCooldownMs, in clock ticks
  AutoCompact,      \* config.autoCompact
  Slots,            \* calls of check, and of a sweep, there could be at a time
  MaxTime,          \* bound: the clock
  MaxSessions       \* bound: sessions of the process

ASSUME IdleConstants ==
  /\ MaxActivations \in Nat /\ Cooldown \in Nat /\ NudgeCooldown \in 0 .. Cooldown
  /\ MaxTime \in Nat /\ MaxSessions \in Nat
  /\ AutoCompact \in BOOLEAN

Everyone == Peers \cup {Me}
Goals    == {WorkOf[w].goal : w \in Works}

VARIABLES
  clock, sessions,
  session,       \* is there a session (and the watcher running)?
  busy,          \* is the agent busy, or are there queued messages?
  tight,         \* runtime.contextBudget: too little left for a new task?
  compacting,    \* state.contextCompactionInFlight
  judgedUntil,   \* lastContextJudgementAt + cooldown
  inbound,       \* pendingInboundCount() > 0: is an inbound message to be answered?
  nudgedUntil,   \* the active message's lastNudgeAt + nudge cooldown
  count,         \* state.activationCount
  cool,          \* of each peer: the end of the cooldown of each work and goal
  check,         \* of each slot: how far a check has come
  sweep,         \* of each slot: [pc, plan, now] of a sweep
  board,         \* of each work: [st, by]
  message        \* of each work: an offer's message, "none", "sending", "live"

agentVars == <<session, busy, tight, compacting, inbound, nudgedUntil>>
stateVars == <<judgedUntil, count, check>>
offerVars == <<sweep, message>>
timeVars  == <<clock, sessions>>
idleVars  == <<agentVars, stateVars, offerVars, timeVars, cool, board>>

-----------------------------------------------------------------------------
(* What the scout suggests, and to whom: derivePeerIdleActivation. *)

GoalOf(w) == WorkOf[w].goal
RankOf(w) == WorkOf[w].rank

(* localPeerHasActiveGoalWork *)
HasActiveGoalWork(p, w) ==
  \E v \in Works :
    /\ GoalOf(v) = GoalOf(w) /\ board[v] = [st |-> "taken", by |-> p]
    /\ WorkOf[v].write \/ WorkOf[v].lane = WorkOf[w].lane

(* A goal that was activated cools down for work that is no more urgent,   *)
(* except that proposals follow each other, and work items do once the one *)
(* before is done.                                                         *)
Continues(last, w) ==
  /\ RankOf(w) = last.rank
  /\ \/ WorkOf[w].kind = "open-proposal"
     \/ /\ WorkOf[w].kind = "work-item" /\ WorkOf[last.work].kind = "work-item"
        /\ w # last.work /\ board[last.work].st = "done"

CoolingDown(p, w) ==
  \/ clock < cool[p].works[w]
  \/ LET last == cool[p].goals[GoalOf(w)] IN
     clock < last.until /\ RankOf(w) >= last.rank /\ ~Continues(last, w)

Candidates(p) ==
  {w \in Works : board[w].st = "open" /\ w \in FitsOf[p] /\ ~HasActiveGoalWork(p, w) /\ ~CoolingDown(p, w)}

(* The scout lists the most urgent first. *)
Activations(p) == {w \in Candidates(p) : \A v \in Candidates(p) : RankOf(w) <= RankOf(v)}

(* markPeerIdleActivation *)
Mark(p, w) ==
  cool' = [cool EXCEPT ![p].works[w] = clock + Cooldown,
                       ![p].goals[GoalOf(w)] = [until |-> clock + Cooldown, rank |-> RankOf(w), work |-> w]]

-----------------------------------------------------------------------------
(* A check. *)

(* Slots are taken in order. *)
IsNextSlot(i, free) == i \in free /\ \A k \in free : i <= k

NotChecking == \A i \in Slots : check[i] = "idle"
CheckGo(i, pc) == check' = [check EXCEPT ![i] = pc]

ContextIsIdle == session /\ ~busy

CalledAnyway(i) ==      \* as if a check did not look for another one
  /\ IsNextSlot(i, {k \in Slots : check[k] = "idle"})
  /\ ContextIsIdle /\ count < MaxActivations

(* The timer or an event calls check, and it passes the first gates.       *)
Called(i) ==
  /\ NotChecking /\ IsNextSlot(i, Slots)
  /\ ContextIsIdle /\ count < MaxActivations

(* handleContextJudgement: compact, or ask the agent to.                   *)
JudgeContext(i) ==
  /\ Called(i) /\ tight /\ ~compacting /\ clock >= judgedUntil
  /\ judgedUntil' = clock + Cooldown /\ count' = count + 1
  /\ \/ AutoCompact /\ compacting' = TRUE /\ UNCHANGED busy
     \/ busy' = TRUE /\ UNCHANGED compacting
  /\ UNCHANGED <<session, tight, inbound, nudgedUntil, check, offerVars, timeVars, cool, board>>

CompactionEnds ==
  /\ compacting /\ compacting' = FALSE
  /\ tight' \in {tight, FALSE}
  /\ UNCHANGED <<session, busy, inbound, nudgedUntil, stateVars, offerVars, timeVars, cool, board>>

(* nudgeInboundIfIdle gives the active message to the agent once more.  In  *)
(* its cooldown, or when Pi refuses the message, the check ends: nothing    *)
(* changes, and the message goes on waiting for its answer.                *)
NudgeInbound(i) ==
  /\ Called(i) /\ ~tight /\ inbound /\ clock >= nudgedUntil
  /\ nudgedUntil' = clock + NudgeCooldown /\ count' = count + 1 /\ busy' = TRUE
  /\ UNCHANGED <<session, tight, compacting, inbound, judgedUntil, check, offerVars, timeVars, cool, board>>

StartCheck(i) ==
  /\ Called(i) /\ ~tight /\ ~inbound
  /\ CheckGo(i, "messages")
  /\ UNCHANGED <<agentVars, judgedUntil, count, offerVars, timeVars, cool, board>>

OnlyCheck == UNCHANGED <<agentVars, judgedUntil, count, offerVars, timeVars, cool, board>>

ReadMessages(i) ==
  /\ check[i] = "messages"
  /\ CheckGo(i, IF \E w \in Works : message[w] # "none" THEN "idle" ELSE "board")
  /\ OnlyCheck

CheckStaysSet(i) ==      \* as if an error left state.checking set
  /\ check[i] \in {"messages", "board"}
  /\ CheckGo(i, "failed")
  /\ OnlyCheck

(* Messages or board cannot be read: the error ends the check.             *)
CheckFails(i) ==
  /\ check[i] \in {"messages", "board"}
  /\ CheckGo(i, "idle")
  /\ OnlyCheck

(* The board as it is now, whatever has become of the agent since it was    *)
(* found idle; the prompt starts a turn.                                   *)
ReadBoard(i) ==
  /\ check[i] = "board"
  /\ CheckGo(i, "idle")
  /\ \/ /\ Activations(Me) = {}
        /\ UNCHANGED <<busy, count, cool>>
     \/ \E w \in Activations(Me) :
          /\ Mark(Me, w) /\ count' = count + 1
          /\ busy' = (busy \/ (session /\ w \notin Coordination))
  /\ UNCHANGED <<session, tight, compacting, inbound, nudgedUntil, judgedUntil, offerVars, timeVars, board>>

CheckStep(i) ==
  JudgeContext(i) \/ NudgeInbound(i) \/ StartCheck(i) \/ ReadMessages(i) \/ ReadBoard(i)

-----------------------------------------------------------------------------
(* Offers: dispatchPeerIdleProtocolOffers. *)

NotSweeping == \A j \in Slots : sweep[j].pc = "idle"
SweepGo(j, new) == sweep' = [sweep EXCEPT ![j] = new]
NoSweep == [pc |-> "idle", plan |-> {}, now |-> Nobody]

OnlySweep == UNCHANGED <<agentVars, stateVars, timeVars, cool>>

StartSweep(j) ==
  /\ sessions > 0 /\ NotSweeping /\ IsNextSlot(j, Slots)
  /\ SweepGo(j, [NoSweep EXCEPT !.pc = "read"])
  /\ OnlySweep /\ UNCHANGED <<message, board>>

(* Each peer in turn gets the activation it would derive itself, unless     *)
(* that work goes to another peer, or is nothing to offer.                 *)
Plans ==
  {S \in SUBSET {o \in Peers \X Works : o[2] \in Activations(o[1]) \ LocalOnly} :
    /\ \A o, q \in S : o # q => o[1] # q[1] /\ o[2] # q[2]
    /\ \A p \in Peers : Activations(p) # {} =>
         \/ \E o \in S : o[1] = p
         \/ \E w \in Activations(p) : w \in LocalOnly \/ \E o \in S : o[2] = w}

Offering(S) == IF S = {} THEN NoSweep ELSE [pc |-> "offer", plan |-> S, now |-> Nobody]

SweepReads(j) ==
  /\ sweep[j].pc = "read"
  /\ \/ SweepGo(j, NoSweep)      \* no peers, or an error
     \/ \E S \in Plans : SweepGo(j, Offering(S))
  /\ OnlySweep /\ UNCHANGED <<message, board>>

Without(j, o) == Offering(sweep[j].plan \ {o})

(* dispatchPeerIdleProtocolOffer: claim the work for the peer ...          *)
ClaimOffer(j) ==
  /\ sweep[j].pc = "offer"
  /\ \E o \in sweep[j].plan :
       \/ /\ board[o[2]].st = "open" /\ message[o[2]] = "none"
          /\ board' = [board EXCEPT ![o[2]] = [st |-> "taken", by |-> o[1]]]
          /\ message' = [message EXCEPT ![o[2]] = "sending"]
          /\ SweepGo(j, [sweep[j] EXCEPT !.pc = "sending", !.now = o])
       \/ /\ board[o[2]].st # "open" \/ message[o[2]] # "none"
          /\ SweepGo(j, Without(j, o))
          /\ UNCHANGED <<board, message>>
  /\ UNCHANGED <<agentVars, stateVars, timeVars, cool>>

(* ... and send it, or release the claim again. *)
SendOffer(j) ==
  LET o == sweep[j].now IN
  /\ sweep[j].pc = "sending"
  /\ SweepGo(j, Without(j, o))
  /\ \/ /\ message' = [message EXCEPT ![o[2]] = "live"]
        /\ Mark(o[1], o[2])
        /\ UNCHANGED <<board>>
     \/ /\ message' = [message EXCEPT ![o[2]] = "none"]
        /\ board' = [board EXCEPT ![o[2]] = [st |-> "open", by |-> Nobody]]
        /\ UNCHANGED cool
  /\ UNCHANGED <<agentVars, stateVars, timeVars>>

SweepStep(j) == StartSweep(j) \/ SweepReads(j) \/ ClaimOffer(j) \/ SendOffer(j)

(* The peer answers: its claim is released, the work may be done.          *)
OfferEnds(w) ==
  /\ message[w] = "live" /\ message' = [message EXCEPT ![w] = "none"]
  /\ \E st \in {"open", "done"} : board' = [board EXCEPT ![w] = [st |-> st, by |-> Nobody]]
  /\ UNCHANGED <<agentVars, stateVars, timeVars, cool, sweep>>

-----------------------------------------------------------------------------
(* The agent, its sessions, and the other users of the board. *)

StartSession ==
  /\ ~session /\ sessions < MaxSessions
  /\ session' = TRUE /\ sessions' = sessions + 1 /\ busy' = FALSE
  /\ tight' \in BOOLEAN
  /\ UNCHANGED <<clock, compacting, inbound, nudgedUntil, stateVars, sweep, message, cool, board>>

(* session_shutdown stops the timer, and nothing that is on its way.       *)
EndSession ==
  /\ session /\ session' = FALSE /\ busy' = FALSE
  /\ UNCHANGED <<tight, compacting, inbound, nudgedUntil, stateVars, offerVars, timeVars, cool, board>>

TurnStarts ==
  /\ session /\ ~busy /\ busy' = TRUE
  /\ UNCHANGED <<session, tight, compacting, inbound, nudgedUntil, stateVars, offerVars, timeVars, cool, board>>

(* The inbound message is answered or given up.                            *)
InboundSettled == inbound' = FALSE /\ nudgedUntil' = 0

(* agent_end; it answers the inbound message if the turn was for it.        *)
TurnEnds ==
  /\ session /\ busy /\ busy' = FALSE
  /\ tight' \in BOOLEAN
  /\ InboundSettled \/ UNCHANGED <<inbound, nudgedUntil>>
  /\ UNCHANGED <<session, compacting, stateVars, timeVars, cool, sweep, message, board>>

(* A message arrives and is activated, which gives it to the agent.         *)
InboundArrives ==
  /\ ~inbound /\ inbound' = TRUE /\ nudgedUntil' = clock + NudgeCooldown
  /\ UNCHANGED <<session, busy, tight, compacting, stateVars, offerVars, timeVars, cool, board>>

InboundTimesOut ==
  /\ inbound /\ InboundSettled
  /\ UNCHANGED <<session, busy, tight, compacting, stateVars, offerVars, timeVars, cool, board>>

Moves(w, from, to) ==
  /\ board[w].st = from /\ message[w] = "none"
  /\ board' = [board EXCEPT ![w] = to]
  /\ UNCHANGED <<agentVars, stateVars, timeVars, cool, sweep, message>>

OthersWork ==
  \E w \in Works :
    \/ Moves(w, "none", [st |-> "open", by |-> Nobody])
    \/ \E p \in Everyone : Moves(w, "open", [st |-> "taken", by |-> p])
    \/ Moves(w, "taken", [st |-> "done", by |-> Nobody])

PassTime ==
  /\ clock < MaxTime /\ clock' = clock + 1
  /\ UNCHANGED <<agentVars, stateVars, offerVars, sessions, cool, board>>

-----------------------------------------------------------------------------
IdleInit ==
  /\ clock = 0 /\ sessions = 0
  /\ session = FALSE /\ busy = FALSE /\ tight = FALSE /\ compacting = FALSE /\ inbound = FALSE
  /\ nudgedUntil = 0 /\ judgedUntil = 0 /\ count = 0
  /\ cool = [p \in Everyone |->
       [works |-> [w \in Works |-> 0],
        goals |-> [g \in Goals |-> [until |-> 0, rank |-> 0, work |-> CHOOSE w \in Works : TRUE]]]]
  /\ check = [i \in Slots |-> "idle"]
  /\ sweep = [j \in Slots |-> NoSweep]
  /\ board = [w \in Works |-> [st |-> "none", by |-> Nobody]]
  /\ message = [w \in Works |-> "none"]

IdleNext ==
  \/ \E i \in Slots : CheckStep(i) \/ CheckFails(i)
  \/ CompactionEnds
  \/ \E j \in Slots : SweepStep(j)
  \/ \E w \in Works : OfferEnds(w)
  \/ StartSession \/ EndSession \/ TurnStarts \/ TurnEnds \/ InboundArrives \/ InboundTimesOut
  \/ OthersWork \/ PassTime

IdleSpec == IdleInit /\ [][IdleNext]_idleVars

(* The interval timer fires, what is read arrives, an error is no rule.     *)
FairIdleSpec ==
  /\ IdleSpec
  /\ WF_idleVars(\E i \in Slots : CheckStep(i) \/ CheckFails(i))
  /\ SF_idleVars(\E i \in Slots : ReadMessages(i))
  /\ SF_idleVars(\E i \in Slots : ReadBoard(i))
  /\ \A j \in Slots : WF_idleVars(SweepStep(j))
  /\ WF_idleVars(PassTime)

-----------------------------------------------------------------------------
(* Properties. *)

(* The watcher never acts more often than the configuration allows, though *)
(* a check compares the count before it reads and counts only afterwards.  *)
WithinBudget == count <= MaxActivations

(* Work that this peer could do is not ignored: it is not so for ever that  *)
(* there is an activation, the agent is idle, and nothing stands against    *)
(* taking it; whichever events were dropped, whichever checks failed.       *)
Due ==
  /\ ContextIsIdle /\ ~tight /\ ~inbound /\ count < MaxActivations
  /\ \A w \in Works : message[w] = "none"
  /\ Activations(Me) # {}
WorkIsNoticed == []<>~Due

=============================================================================
