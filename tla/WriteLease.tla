----------------------------- MODULE WriteLease -----------------------------
(***************************************************************************)
(* What the goal board promises its peers about claims, with no event log, *)
(* no clock and no heartbeats: a set of leases held at one time, where a   *)
(* lease comes into force only if it is compatible with every other one,   *)
(* one at a time, and may lapse at any moment.  GoalBoard is shown to      *)
(* implement it.                                                           *)
(***************************************************************************)
EXTENDS Naturals

CONSTANTS
  Overlap(_, _),    \* do two sets of write paths collide?
  NoKey             \* the work key of a lease that has none

VARIABLE held       \* leases in force: [id, mode, paths, workKey, duplicatePolicy]

(***************************************************************************)
(* A lease l may join h: two writers never share a path, and two holders   *)
(* share a work key only when the one that joins asked to work in          *)
(* parallel.                                                               *)
(***************************************************************************)
MayJoin(l, h) ==
  /\ l.mode = "write" /\ h.mode = "write" => ~Overlap(l.paths, h.paths)
  /\ l.workKey # NoKey /\ l.workKey = h.workKey => l.duplicatePolicy = "allow-parallel"

Init == held = {}

(* A claim is granted, or a lapsed one is revived by its heartbeat. *)
Grant == \E l \in held' : /\ l \notin held
                          /\ \A h \in held : h.id # l.id /\ MayJoin(l, h)
                          /\ held' = held \cup {l}

(* Claims are released, expire or go stale. *)
Lapse == held' \subseteq held

Next == Grant \/ Lapse

Spec == Init /\ [][Next]_held
=============================================================================
