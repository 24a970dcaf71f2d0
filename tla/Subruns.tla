----------------------------- MODULE Subruns -----------------------------
(***************************************************************************)
(* The private subagent runs of a peer (src/src/peers/subagents.mjs).  A    *)
(* run exists as records of the control ledger: a command looks it up       *)
(* there, adds what it knows to what the request says, and appends; a       *)
(* completion may go on to hand the result over to the goal board, in two   *)
(* more updates.  Commands of several sessions interleave, any append or    *)
(* update may fail, and a session may be killed.                            *)
(*                                                                         *)
(* Kept of a record are its status and its counts of children done and      *)
(* blocked; of the board, whether the run has a task there, and the         *)
(* statuses handed over.  Toolsets, artifacts and summaries are left out.   *)
(***************************************************************************)
EXTENDS ControlLedger

CONSTANTS
  SubrunIds,     \* subrun ids
  Commands,      \* commands in progress there may be at a time
  GivenCounts,   \* the counts of children, "done" and "blocked", a request may give
  MaxSubrunRecords     \* bound: records in the ledger

ASSUME SubrunConstants ==
  \A given \in GivenCounts : \E D \in SUBSET {"done", "blocked"} : given \in [D -> Nat]

VARIABLES
  cmd,       \* of each: [op, run, counts, attach, pc, since]; since: how many
             \* lines the ledger had when the run was looked up (history)
  task,      \* of each run: [dispatched, handed] on the board
  crossed    \* the runs (history) of whose blocked children a record told
             \* while the command that last completed them was at work

subrunVars == <<cmd, task, crossed>>

NoCommand ==
  [op |-> "none", run |-> "", counts |-> <<>>, attach |-> FALSE, pc |-> "idle", since |-> 0]
CmdGo(c, new) == cmd' = [cmd EXCEPT ![c] = new]
Over(c)       == CmdGo(c, NoCommand)

RecordSubrun(run, st, counts) ==
  Len(ledger) < MaxSubrunRecords /\ AppendPeerControlRecord("subrun", run, st, counts)

(* startPeerSubagentRun: without a provider the run is blocked at once.    *)
StartSubrun(c) ==
  /\ cmd[c].pc = "idle"
  /\ \E run \in SubrunIds :
       /\ RecordsOf("subrun", run) = {} /\ \A d \in Commands : cmd[d].run # run
       /\ \/ RecordSubrun(run, "blocked", <<>>) /\ UNCHANGED cmd
          \/ /\ RecordSubrun(run, "running", <<>>)
             /\ CmdGo(c, [NoCommand EXCEPT !.op = "start", !.run = run, !.pc = "provider"])
          \/ AppendFails /\ UNCHANGED cmd
  /\ UNCHANGED <<task, crossed>>

ProviderStarts(c) ==
  /\ cmd[c].pc = "provider"
  /\ UNCHANGED ledger \/ RecordSubrun(cmd[c].run, "error", <<>>) \/ AppendFails
  /\ Over(c) /\ UNCHANGED <<task, crossed>>

(* enrichRequestFromLedger: what the request does not say, the ledger does, *)
(* if it can be read.                                                       *)
RequestOnly(run, given) == given      \* as if nothing were looked up

Enriched(run, given) ==
  LET known == {f \in {"done", "blocked"} : Loads /\ Giving("subrun", run, f) # {}} IN
  [f \in DOMAIN given \cup known |->
     IF f \in DOMAIN given THEN given[f] ELSE MetadataOf("subrun", run, f, 0)]

CallSubrun(c) ==
  /\ cmd[c].pc = "idle"
  /\ \E run \in SubrunIds, op \in {"progress", "complete", "cancel"}, given \in GivenCounts, attach \in BOOLEAN :
       /\ RecordsOf("subrun", run) # {}
       /\ attach => op = "complete"
       /\ CmdGo(c, [op |-> op, run |-> run, counts |-> Enriched(run, given), attach |-> attach,
                    pc |-> "record", since |-> Len(ledger)])
  /\ UNCHANGED <<ledger, task, crossed>>

(* completionStatus *)
CompletionStatus(counts) ==
  LET n == [f \in {"done", "blocked"} |-> IF f \in DOMAIN counts THEN counts[f] ELSE 0] IN
  CASE n["blocked"] > 0 /\ n["done"] > 0 -> "partial"
    [] n["blocked"] > 0 /\ n["done"] = 0 -> "blocked"
    [] OTHER -> "done"

StatusOfCommand(c) ==
  CASE cmd[c].op = "progress" -> "progress"
    [] cmd[c].op = "complete" -> CompletionStatus(cmd[c].counts)
    [] cmd[c].op = "cancel"   -> "cancelled"

(* Another command told of blocked children since this one looked them up. *)
Crosses(c) == \E i \in Giving("subrun", cmd[c].run, "blocked") : i > cmd[c].since

Record(c) ==
  /\ cmd[c].pc = "record"
  /\ \/ /\ RecordSubrun(cmd[c].run, StatusOfCommand(c), cmd[c].counts)
        /\ IF cmd[c].attach THEN CmdGo(c, [cmd[c] EXCEPT !.pc = "dispatch"]) ELSE Over(c)
        /\ crossed' = CASE cmd[c].op # "complete"               -> crossed
                         [] cmd[c].op = "complete" /\ Crosses(c)  -> crossed \cup {cmd[c].run}
                         [] cmd[c].op = "complete" /\ ~Crosses(c) -> crossed \ {cmd[c].run}
     \/ AppendFails /\ Over(c) /\ UNCHANGED crossed
  /\ UNCHANGED task

(* recordPeerGoalTaskDispatch *)
DispatchTask(c) ==
  /\ cmd[c].pc = "dispatch"
  /\ CmdGo(c, [cmd[c] EXCEPT !.pc = "handoff"])
  /\ task' = [task EXCEPT ![cmd[c].run].dispatched = TRUE]
  /\ UNCHANGED <<ledger, crossed>>

(* completePeerGoalTask *)
HandOver(c) ==
  /\ cmd[c].pc = "handoff"
  /\ task' = [task EXCEPT ![cmd[c].run].handed = @ \cup {StatusOfCommand(c)}]
  /\ Over(c) /\ UNCHANGED <<ledger, crossed>>

(* The board cannot be updated, or the session is killed, which may be in   *)
(* the middle of an append.                                                *)
CommandEnds(c) ==
  /\ cmd[c].pc # "idle"
  /\ \/ UNCHANGED ledger
     \/ cmd[c].pc = "record" /\ Len(ledger) < MaxSubrunRecords /\ WriteLine(Torn)
  /\ Over(c) /\ UNCHANGED <<task, crossed>>

-----------------------------------------------------------------------------
SubrunInit ==
  /\ cmd = [c \in Commands |-> NoCommand]
  /\ crossed = {}
  /\ task = [run \in SubrunIds |-> [dispatched |-> FALSE, handed |-> {}]]
  /\ LedgerInit

SubrunNext ==
  /\ \E c \in Commands :
       \/ StartSubrun(c) \/ ProviderStarts(c) \/ CallSubrun(c) \/ Record(c)
       \/ DispatchTask(c) \/ HandOver(c) \/ CommandEnds(c)
  /\ UNCHANGED recon

SubrunSpec == SubrunInit /\ [][SubrunNext]_<<subrunVars, ledger, recon>>

-----------------------------------------------------------------------------
(* While the ledger can be read, a run it calls done has no blocked         *)
(* children there, unless another command told of them after the completion *)
(* had looked the run up: a completion counts what earlier commands         *)
(* reported, in any session, and its request leaves out.                    *)
BlockedIsNotDone ==
  Loads => \A run \in SubrunIds :
    StatusOf("subrun", run) = "done" =>
      MetadataOf("subrun", run, "blocked", 0) = 0 \/ run \in crossed
=============================================================================
