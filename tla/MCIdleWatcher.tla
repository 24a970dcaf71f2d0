----------------------------- MODULE MCIdleWatcher -----------------------------
(* A proposal and a work item of one goal, one other peer that fits the item. *)
EXTENDS IdleWatcher
CONSTANTS me, p1, w1, w2, g

MCWork ==
  [w \in {w1, w2} |->
    [goal |-> g, rank |-> 1, kind |-> IF w = w1 THEN "open-proposal" ELSE "work-item", lane |-> w, write |-> FALSE]]
MCFits == [p \in {me, p1} |-> IF p = me THEN {w1, w2} ELSE {w2}]
=============================================================================
