---------------------------- MODULE MCAgentTurns ----------------------------
(***************************************************************************)
(* Model-checking AgentTurns: two turns on one document, one after the     *)
(* other or beside each other, the first with room for one more tool call  *)
(* than the second.  The first is routed to the pillar with all the small  *)
(* edits and undo, the second to the one that imports by itself and fails  *)
(* when it built nothing.                                                  *)
(***************************************************************************)
EXTENDS AgentTurnsInv, TLC

CONSTANTS t1, t2, a, n1

Limits == [t \in Turns |-> IF t = t1 THEN 2 ELSE 1]
Routes == [t \in Turns |-> IF t = t1 THEN {"modify"} ELSE {"generate"}]

\* Bound: TLC goes on while at most three tasks are queued, and once turns have
\* crossed, while each of them has made at most one tool call, at most two tasks
\* are queued and no transaction is lost.
FewTasks ==
    /\ Len(queue) <= 3
    /\ crossed # {} =>
         /\ \A t \in Turns : used[t] <= 1
         /\ Len(queue) <= 2
         /\ ~dangling

=============================================================================
