------------------------------ MODULE PrShepherd ------------------------------
(***************************************************************************)
(* The PR shepherd (src/src/peers/pr-shepherd.mjs): an append-only file of *)
(* what became of pull requests, and the pull requests derived from it.  A *)
(* record names its pull request by url, by the run it came from, or both; *)
(* records that share a name are of one pull request, so a later record    *)
(* may join two that looked distinct.  The state is built one record at a  *)
(* time.                                                                   *)
(*                                                                         *)
(* Goals, evidence, times and the git commands suggested are left out.     *)
(***************************************************************************)
EXTENDS Naturals, Sequences, FiniteSetsExt

CONSTANTS
  Urls, RunIds, NoName,
  Recorded,        \* the actions that are recorded, of Actions
  MaxPrRecords     \* bound: records in the file

VARIABLE prFile      \* [records, torn]: does it end in half a record?

Actions == {"created", "ci-failed", "ci-passed", "merged", "post-merge-verified", "stale", "closed"}
TerminalActions == {"closed", "merged", "post-merge-verified"}
Names == Urls \cup RunIds

ASSUME RecordConstants == Recorded \subseteq Actions /\ NoName \notin Names

(* appendPrRecord: refused after half a record; a kill may leave one.  A    *)
(* whole record without its newline is ended by the next append.            *)
AppendPrRecord(action, url, run) ==
  /\ ~prFile.torn /\ Len(prFile.records) < MaxPrRecords
  /\ \/ prFile' = [prFile EXCEPT !.records = Append(@, [action |-> action, url |-> url, run |-> run])]
     \/ prFile' = [prFile EXCEPT !.torn = TRUE]

PrInit == prFile = [records |-> <<>>, torn |-> FALSE]
PrNext == \E action \in Recorded, url \in Urls \cup {NoName}, run \in RunIds \cup {NoName} :
            AppendPrRecord(action, url, run)
PrSpec == PrInit /\ [][PrNext]_prFile

-----------------------------------------------------------------------------
(* derivePrShepherdState: groups of records, each under one or more names;  *)
(* a group is known by the number of the record that opened it.  What is    *)
(* in a group is sorted before it is used, so its members are a set.        *)

(* prGroupKeys *)
KeysOf(n) == {prFile.records[n].url, prFile.records[n].run} \ {NoName}

NoGroups == [groupOf |-> [name \in Names |-> 0],
             members |-> [n \in DOMAIN prFile.records |-> {}]]

(* mergePrGroup: every name of the other group leads to the target now.     *)
MergedKeepingNames(state, target, other) ==      \* as if they did not
  [state EXCEPT !.members[target] = @ \cup state.members[other]]

MergePrGroup(state, target, other) ==
  [state EXCEPT !.members[target] = @ \cup state.members[other],
                !.groupOf = [name \in Names |-> IF @[name] = other THEN target ELSE @[name]]]

(* The groups of the names of a record; the one of its url comes first.     *)
GroupsNamed(state, n) == {state.groupOf[name] : name \in KeysOf(n)} \ {0}

FirstGroup(state, n) ==
  LET url == prFile.records[n].url IN
  CASE GroupsNamed(state, n) = {} -> n
    [] GroupsNamed(state, n) # {} ->
         IF url \in Names /\ state.groupOf[url] # 0 THEN state.groupOf[url]
         ELSE state.groupOf[prFile.records[n].run]

TakeRecord(state, n) ==
  LET group  == FirstGroup(state, n)
      others == GroupsNamed(state, n) \ {group}      \* one at the most
      joined == IF others = {} THEN state
                ELSE MergePrGroup(state, group, state.groupOf[prFile.records[n].run])
  IN IF KeysOf(n) = {} THEN state
     ELSE [joined EXCEPT !.members[group] = @ \cup {n},
                         !.groupOf = [name \in Names |-> IF name \in KeysOf(n) THEN group ELSE @[name]]]

PrGroups ==
  LET after[n \in 0 .. Len(prFile.records)] ==      \* the first n records
        IF n = 0 THEN NoGroups ELSE TakeRecord(after[n - 1], n)
  IN after[Len(prFile.records)]

Prs == {PrGroups.groupOf[name] : name \in Names} \ {0}

ActionOf(n) == prFile.records[n].action
Numbers(pr, actions) == {n \in PrGroups.members[pr] : ActionOf(n) \in actions}

(* hasPostMergeVerificationAfterMerge *)
VerifiedAfterMerge(pr) ==
  \E v \in Numbers(pr, {"post-merge-verified"}) : \A n \in Numbers(pr, {"merged"}) : v > n

NeedsPostMergeVerification ==
  {pr \in Prs : Numbers(pr, {"merged"}) # {} /\ ~VerifiedAfterMerge(pr)}

(* finalizePrGroup *)
PrStatus(pr) ==
  LET terminal == Numbers(pr, TerminalActions) IN
  CASE terminal = {} -> "open"
    [] terminal # {} -> IF ActionOf(Max(terminal)) = "post-merge-verified" THEN "verified"
                        ELSE ActionOf(Max(terminal))

-----------------------------------------------------------------------------
(* What it should be, without groups: two records are of the same pull      *)
(* request if every set of records that is closed under sharing a name has  *)
(* both or neither.                                                         *)
Numbered == {n \in DOMAIN prFile.records : KeysOf(n) # {}}
ShareName(m, n) == KeysOf(m) \cap KeysOf(n) # {}
Closed(S) == \A m \in S, n \in Numbered : ShareName(m, n) => n \in S
SamePr(n) == {m \in Numbered : \A S \in SUBSET Numbered : n \in S /\ Closed(S) => m \in S}

UnverifiedMerges ==
  {n \in Numbered :
     /\ ActionOf(n) = "merged"
     /\ ~\E v \in SamePr(n) : v > n /\ ActionOf(v) \in {"merged", "post-merge-verified"}}

(* In whatever order records come, join pull requests and are written to    *)
(* them later: the ones listed as merged but not verified are those whose   *)
(* last merge no verification follows, each listed once and with all its    *)
(* records, and none of them shown as verified.                             *)
UnverifiedMergesAreListed ==
  /\ \A pr \in NeedsPostMergeVerification : PrStatus(pr) # "verified"
  /\ {PrGroups.members[pr] : pr \in NeedsPostMergeVerification} =
     {SamePr(n) : n \in UnverifiedMerges}
=============================================================================
