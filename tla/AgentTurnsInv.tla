---------------------------- MODULE AgentTurnsInv ----------------------------
(***************************************************************************)
(* The inductive invariants of AgentTurns.  The first is about all turns,  *)
(* the second about those that had the document to themselves.             *)
(***************************************************************************)
EXTENDS AgentTurns

Positions == DOMAIN queue

\* A handler that waits is the one its turn waits for, about the tool in hand.
AwaitedInv ==
    \A i \in Positions : queue[i].awaited =>
        LET t == queue[i].turn
        IN  /\ pc[t] = queue[i].cap
            /\ reply[t].status = "waiting"
            /\ queue[i].cap = "tool" => queue[i].tool = tool[t]

\* A turn waits for one task at a time.
OneCallInv ==
    \A i, j \in Positions :
        queue[i].awaited /\ queue[j].awaited /\ queue[i].turn = queue[j].turn => i = j

\* A tool that may have made an object says which.
CreatedInv ==
    \A t \in Turns :
        /\ pc[t] = "tool"
        /\ \/ tool[t].kind = "import" /\ reply[t].status = "ok"
           \/ tool[t].kind = "build" /\ reply[t].status \in {"ok", "failed"}
        => reply[t].created \in Objects

\* The turn has a transaction and has not asked for its end.
Holding(t) ==
    \/ txnOpen[t] /\ pc[t] \in {"think", "tool", "conclude", "verify"}
    \/ pc[t] = "begin" /\ reply[t].status = "ok"

\* An open transaction belongs to a turn that will end it, or its end is queued,
\* or it has been lost; so it does once every queued begin has run.
OpenInv ==
    /\ \A t \in Turns :
         txnOpen[t] => pc[t] \in {"think", "tool", "conclude", "verify", "abort", "commit"}
    /\ ~dangling =>
         /\ \A i \in Positions : queue[i].cap = "begin" => queue[i].awaited
         /\ doc.open => \/ \E i \in Positions : queue[i].cap \in {"abort", "commit"}
                        \/ \E t \in Turns : Holding(t)

AgentIInv == AgentTypeOK /\ AwaitedInv /\ OneCallInv /\ CreatedInv /\ OpenInv

-----------------------------------------------------------------------------
(* Turns that cross no other.                                              *)

\* Nobody runs beside the turn, and the task it waits for is the last.
AloneOf(t) ==
    /\ Running(t) => \A u \in Turns : Running(u) => u = t
    /\ \A i \in Positions :
         queue[i].awaited /\ queue[i].turn = t => i = Len(queue)

\* What a verification saw is the document until the turn has committed.
VerifiedOf(t) ==
    /\ reply[t].snapshot # NoSnapshot => reply[t].status = "ok"
    /\ pc[t] = "verify" /\ reply[t].status = "ok" =>
         queue = << >> /\ reply[t].snapshot = doc.value
    /\ t \in verified => pc[t] \in {"abort", "commit", "done", "dead"}
    /\ pc[t] = "commit" /\ t \in verified =>
         /\ \A i \in Positions : queue[i].cap = "commit"
         /\ OnlyChanged(baseline[t], doc.value, edited[t])

\* Nothing in this transaction, or on the undo stack, brings back what t did.
Unrecorded(d, t) ==
    /\ \A o \in Objects : d.before[o].by # t
    /\ \A k \in DOMAIN d.undo : \A o \in Objects : d.undo[k][o].by # t

\* Nothing of t is in the document, and nothing can put it there.
Free(d, t) ==
    /\ \A o \in Objects : d.value[o].by # t
    /\ Unrecorded(d, t)

\* Whatever t did is in the open transaction, which can take it back.
Held(d, t) ==
    /\ d.open
    /\ Unrecorded(d, t)
    /\ \A o \in Objects : d.value[o].by = t => d.before[o] # Untouched

NoTools(t) ==
    \A i \in Positions : queue[i].cap = "tool" => queue[i].turn # t

\* Behind an open transaction only its own turn's tasks are queued.
OwnTasksOf(t) ==
    txnOpen[t] =>
        \A i \in Positions :
            /\ queue[i].turn = t
            /\ queue[i].cap # "begin"
            /\ queue[i].cap \in {"abort", "commit"} =>
                 /\ pc[t] \in {"abort", "commit"}
                 /\ reply[t].status = "waiting" => queue[i].awaited

UndoInv ==
    /\ \A i \in Positions :
         queue[i].cap = "tool" /\ queue[i].tool.kind = "undo"
             => queue[i].turn \in uncovered
    /\ \A t \in Turns : tool[t].kind = "undo" => t \in uncovered

StagesOf(t) ==
    /\ pc[t] \in {"abort", "commit"} => txnOpen[t]
    /\ pc[t] = "tool" /\ ~txnOpen[t] => t \in uncovered
    /\ pc[t] = "begin" /\ reply[t].status = "ok" =>
         queue = << >> /\ doc.open /\ doc.before = NoChange
    /\ rolledBack[t] => pc[t] = "done"

\* The turn has not changed the document, or its changes have been taken back.
Untraced(t) ==
    \/ pc[t] = "idle"
    \/ /\ t \notin uncovered
       /\ \/ Running(t) /\ ~txnOpen[t]
          \/ rolledBack[t]
          \/ pc[t] = "abort" /\ reply[t].status = "ok"

Revocable(t) ==
    /\ t \notin uncovered
    /\ txnOpen[t]
    /\ \/ pc[t] \notin {"abort", "commit"}
       \/ pc[t] = "abort" /\ reply[t].status = "waiting"

TraceOf(t) ==
    /\ Untraced(t) => Free(doc, t) /\ NoTools(t)
    /\ Revocable(t) => Held(doc, t)

UncrossedInv ==
    \A t \in Turns \ crossed :
        AloneOf(t) /\ VerifiedOf(t) /\ OwnTasksOf(t) /\ StagesOf(t) /\ TraceOf(t)

TurnIInv == UndoInv /\ UncrossedInv

=============================================================================
