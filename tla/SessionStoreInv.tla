--------------------------- MODULE SessionStoreInv ---------------------------
(***************************************************************************)
(* The inductive invariant of SessionStore.                                *)
(***************************************************************************)
EXTENDS SessionStore

Positions == DOMAIN calls

\* What a request names exists, what is answered has a view, and what cannot be
\* refused is not.
CallOf(c) ==
    /\ c.op = "create" => c.id = "new"
    /\ c.op # "create" => c.id \in Sessions /\ Exists(c.id)
    /\ c.status = "ok" => c.view # NoView
    /\ c.status = "refused" => c.op \notin {"create", "get"}
    /\ c.then = "refetch" => c.op = "get"

CallsInv == \A i \in Positions : CallOf(calls[i])

\* A view is of a session there is, as it was when its log was that long.
Genuine(v) ==
    v # NoView =>
        /\ Exists(v.id)
        /\ v.log <= server[v.id].log
        /\ v.log = server[v.id].log => v = ViewOf(v.id, server[v.id])

ViewsInv ==
    /\ Genuine(session)
    /\ \A i \in Positions : Genuine(calls[i].view)
    /\ Shown => newest <= server[session.id].log

\* The stream goes on from where the timeline ends.
StreamInv ==
    /\ Live => stream.id \in Sessions /\ Exists(stream.id)
    /\ Live /\ ~strayed => stream.id = wanted /\ stream.at = cursor
    /\ Shown /\ ~strayed => wanted # "none"
    /\ wanted = "new" => ~Live /\ ~strayed /\ ~Shown /\ events = << >>

\* The answer that brings the session the user turned to is yet to come.
Opening ==
    \E i \in Positions :
        calls[i].then = "act" /\ calls[i].op \in {"create", "get"}

\* The session that is shown is being fetched, or its latest view is under way.
Fetching ==
    \E i \in Positions :
        calls[i].op = "get" /\ calls[i].id = session.id /\ calls[i].status = "sent"

Arriving ==
    \E i \in Positions :
        /\ calls[i].status = "ok"
        /\ calls[i].view.id = session.id
        /\ calls[i].view.log = server[session.id].log

\* What the server has is shown, or is on its way.
Fresh == server[session.id].log = newest \/ Live \/ Fetching \/ Arriving

FreshInv ==
    ~strayed /\ ~lost /\ wanted # "none" =>
        Opening \/ (Shown /\ session.id = wanted /\ Fresh)

StoreIInv ==
    /\ StoreTypeOK /\ CallsInv /\ ViewsInv /\ StreamInv
    /\ TimelineIsTheLog /\ FreshInv

=============================================================================
