---------------------------- MODULE MCBoardStore ----------------------------
(* Two or three processes updating one board, one of which may be killed. *)
EXTENDS BoardStore

CONSTANTS p1, p2, p3
=============================================================================
