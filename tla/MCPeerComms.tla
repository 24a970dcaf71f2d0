----------------------------- MODULE MCPeerComms -----------------------------
(* A task that is retried once, or a question that is not but may be resumed *)
(* after a restart: two requests for either.  The second queues behind the   *)
(* first when the peer still works for the first.                            *)
EXTENDS PeerComms

CONSTANTS task, question, t1, t2, q1, q2

MCMessageOf   == (t1 :> task) @@ (t2 :> task) @@ (q1 :> question) @@ (q2 :> question)
MCMaxAttempts == (task :> 2) @@ (question :> 1)
MCPriority    == [c \in Messages |-> IF c \in {q1, q2} THEN 0 ELSE 1]

=============================================================================
