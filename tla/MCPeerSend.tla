------------------------------ MODULE MCPeerSend ------------------------------
(* Dispatches of the same work, on overlapping paths, to different peers. *)
EXTENDS PeerSend

CONSTANTS lead, w1, w2, k1, d1, d2

src == <<"src">>
api == <<"src", "api">>
MCPaths == {src, api}

Dispatch(target, path, policy, staleAfter) ==
  [requester |-> lead, target |-> target, mode |-> "write", paths |-> {path}, workKey |-> k1,
   policy |-> policy, staleAfter |-> staleAfter]

Alone == d1 :> Dispatch(w1, src, "reuse", 1)
Pair  == Alone @@ d2 :> Dispatch(w2, api, "error", 2)

Proposal == [EventOf("proposal", lead) EXCEPT !.workKey = k1]
Resolve  == EventOf("resolve", lead)
Release  == EventOf("release", lead)
Vote     == [EventOf("vote", lead) EXCEPT !.verdict = "pass"]

ReleaseOnly == {Release}
Fulfilled   == {Proposal, Resolve}
Everything  == {Proposal, Resolve, Release, Vote}

MCInputs == Everything \cup DispatchInputs

PairBudget == [t \in EventTypes |->
  CASE t \in {"claim", "task", "handoff"} -> 2 [] t \in {"release", "heartbeat"} -> 1 [] OTHER -> 0]

MCBudget == [t \in EventTypes |->
  CASE t \in {"claim", "task", "handoff", "release"} -> 2
    [] t \in {"objection", "heartbeat", "proposal", "resolve", "vote"} -> 1
    [] OTHER -> 0]
=============================================================================
