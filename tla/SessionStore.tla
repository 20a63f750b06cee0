---------------------------- MODULE SessionStore ----------------------------
(***************************************************************************)
(* The open design session as the browser mirrors it:                      *)
(* orionflow-ui/src/store/sessionStore.ts over services/sessionsApi.ts.    *)
(*                                                                         *)
(* An action of the store sends one request and waits; when its answer     *)
(* comes, the store shows that answer whatever it has been asked since,    *)
(* and follows the event log of the session it shows.  A stream ends with  *)
(* a frame of its own, idle or error, which is no event of the log and     *)
(* which the store puts on its timeline like the rest; then the store      *)
(* fetches the session once more.  Requests are answered in any order,     *)
(* and a request or its answer may be lost; only the stream can be         *)
(* aborted.                                                                *)
(*                                                                         *)
(* The server is here as the store sees it: each request that changes a    *)
(* session is one step.  DesignSessions has those requests in detail.      *)
(***************************************************************************)
EXTENDS DesignSession, Naturals, Sequences

CONSTANTS
    Sessions,   \* ids the server may give to sessions
    Left,       \* those of sessions that were there before the store was loaded
    MaxActs     \* bound: what the user does, and streams cut short

ASSUME StoreAssumption ==
    /\ Left \subseteq Sessions
    /\ Sessions \cap {"new", "none"} = {}
    /\ MaxActs \in Nat

VARIABLES
    \* ---- the server
    server,     \* by id: the state of the session, its revision and its log
    \* ---- the network
    calls,      \* requests that have no answer yet, or whose answer is under way
    stream,     \* the event stream of the last follow(), or NoStream
    \* ---- the store
    session,    \* the view it shows, or NoView
    events,     \* the timeline: the frames it has been sent
    cursor,     \* the number of the last event among them
    busy,       \* is an action of the plan's own buttons in flight?
    \* ---- history
    wanted,     \* the session the user is with: an id, "new", or "none"
    strayed,    \* has the store shown another one since?
    newest,     \* how far the log had come in the latest view of it shown
    lost,       \* was a request or the stream lost since the last good answer?
    acts

store == <<session, events, cursor, busy>>
history == <<wanted, strayed, newest, lost>>
vars == <<server, calls, stream, store, history, acts>>

-----------------------------------------------------------------------------
(* The server.                                                             *)

\* ready: the builder is done with it, and nobody has collected the result.
Nowhere == [state |-> "none", number |-> 0, log |-> 0, ready |-> FALSE]

ServerSession == [state : States \cup {"none"}, number : Nat, log : Nat,
                  ready : BOOLEAN]

\* What the store needs of a session's view; log, which the view does not hold,
\* is how many events there were when it was taken.
View == [id : Sessions, state : States, number : Nat, log : Nat]
NoView == [id |-> "none", state |-> "none", number |-> 0, log |-> 0]

ViewOf(id, s) == [id |-> id, state |-> s.state, number |-> s.number, log |-> s.log]

\* Every change of a session appends to its log.
Becomes(s, state) ==
    [state |-> state, number |-> s.number, log |-> s.log + 1, ready |-> FALSE]

Exists(id) == server[id].state # "none"

\* Every operation that the buttons of the plan ask for, and its name in `busy`.
Decisions == {"approve", "reject", "revise", "build", "accept"}
Operations == Decisions \cup {"create", "get", "cancel"}

Created(s) ==
    LET c == Becomes(s, "awaiting_approval")
    IN  {[c EXCEPT !.number = 1], Becomes(s, "questions"), Becomes(s, "failed")}

CollectedMistyped(s) ==                  \* mutant: not a state of a session
    IF s.state = "building" /\ s.ready
    THEN {Becomes(s, "built"), Becomes(s, "revision_needed")}
    ELSE {s}

\* reconcile: whoever looks at a building session collects what is ready.
Collected(s) ==
    IF s.state = "building" /\ s.ready
    THEN {Becomes(s, "built"), Becomes(s, "needs_revision")}
    ELSE {s}

Revised(s) ==
    (IF CanTakeRevision(s.state)
     THEN {[Becomes(s, "awaiting_approval") EXCEPT !.number = @ + 1]} ELSE {})
    \cup (IF CanTransition(s.state, "failed") THEN {Becomes(s, "failed")} ELSE {})

Moved(s, state) == IF CanTransition(s.state, state) THEN {Becomes(s, state)} ELSE {}

\* What a request may make of the session it names; nothing: it is refused.
Outcomes(op, s, number) ==
    CASE op = "create"  -> Created(s)
      [] op = "get"     -> Collected(s)
      [] op = "approve" -> IF number = s.number THEN Moved(s, "approved") ELSE {}
      [] op = "reject"  -> Moved(s, "rejected")
      [] op = "revise"  -> IF s.number > 0 THEN Revised(s) ELSE {}
      [] op = "build"   -> IF s.state \in {"building", "built"} THEN {s}
                           ELSE IF s.state = "approved"
                           THEN {Becomes(s, "building"), Becomes(s, "needs_revision")}
                           ELSE {}
      [] op = "accept"  -> Moved(s, "completed")
      [] op = "cancel"  -> Moved(s, "cancelled")

BuilderIsDone(id) ==
    /\ server[id].state = "building"
    /\ ~server[id].ready
    /\ server' = [server EXCEPT ![id].ready = TRUE]
    /\ UNCHANGED <<calls, stream, store, history, acts>>

-----------------------------------------------------------------------------
(* The network.                                                            *)

\* then: what the store does with the answer - that of an action, or of the
\* fetch at the end of a stream.
Call == [op : Operations, id : Sessions \cup {"new"}, number : Nat,
         then : {"act", "refetch"}, status : {"sent", "ok", "refused"},
         view : View \cup {NoView}]

Request(op, id, number, then) ==
    [op |-> op, id |-> id, number |-> number, then |-> then, status |-> "sent",
     view |-> NoView]

Fetch(id) == Request("get", id, 0, "refetch")

Without(i) == [j \in 1 .. Len(calls) - 1 |-> IF j < i THEN calls[j] ELSE calls[j + 1]]

Answer(i, status, view) ==
    calls' = [calls EXCEPT ![i] =
                [op |-> @.op, id |-> @.id, number |-> @.number, then |-> @.then,
                 status |-> status, view |-> view]]

Serve(i) ==
    LET c == calls[i] IN
    /\ c.status = "sent"
    /\ \E id \in Sessions :
         /\ c.op = "create" <=> ~Exists(id)
         /\ c.id \in {id, "new"}
         /\ \/ /\ \E s \in Outcomes(c.op, server[id], c.number) :
                     /\ server' = [server EXCEPT ![id] = s]
                     /\ Answer(i, "ok", ViewOf(id, s))
            \/ /\ Outcomes(c.op, server[id], c.number) = {}
               /\ Answer(i, "refused", NoView)
               /\ UNCHANGED server
    /\ UNCHANGED <<stream, store, history, acts>>

-----------------------------------------------------------------------------
(* follow.                                                                 *)

\* stage: "off" when it has ended or was aborted; the server looks at the session,
\* reads its log, sends what it has read, and has said its last.  at: the last event sent; seen: the
\* state the last look found; upto: where the log ended when it was read.
NoStream == [stage |-> "off", id |-> "none", at |-> 0, seen |-> "none", upto |-> 0]

Stream == [stage : {"off", "opening", "look", "read", "send", "ending"},
           id : Sessions \cup {"none"}, at : Nat, seen : States \cup {"none"},
           upto : Nat]

Live == stream.stage # "off"

Abort == stream' = NoStream

FollowFromTheStart(id, from) ==          \* mutant: the cursor is not sent
    stream' = [NoStream EXCEPT !.stage = "opening", !.id = id]

\* Abort the stream there is and open one for the session shown, from the cursor.
Follow(id, from) ==
    stream' = [NoStream EXCEPT !.stage = "opening", !.id = id, !.at = from]

\* A view of the session, collecting what is ready, ...
Look ==
    /\ stream.stage \in {"opening", "look"}
    /\ \E s \in Collected(server[stream.id]) :
         /\ server' = [server EXCEPT ![stream.id] = s]
         /\ stream' = [stream EXCEPT !.stage = "read", !.seen = s.state]
    /\ UNCHANGED <<calls, store, history, acts>>

\* ... and then the log.
ReadLog ==
    /\ stream.stage = "read"
    /\ stream' = [stream EXCEPT !.stage = "send", !.upto = server[stream.id].log]
    /\ UNCHANGED <<server, calls, store, history, acts>>

\* What is on the timeline: an event of the log, or the last frame of a stream.
Entry == [id : Sessions, kind : {"event", "idle", "error"}, seq : Nat]

\* Whatever the frame, it goes on the timeline; one without a number counts as 0.
onEvent(kind, seq) ==
    /\ events' = Append(events, [id |-> stream.id, kind |-> kind, seq |-> seq])
    /\ cursor' = IF seq > cursor THEN seq ELSE cursor

SendEvent ==
    /\ stream.stage = "send"
    /\ stream.at < stream.upto
    /\ stream' = [stream EXCEPT !.at = @ + 1]
    /\ onEvent("event", stream.at + 1)
    /\ UNCHANGED <<server, calls, session, busy, history, acts>>

AllSent == stream.stage = "send" /\ stream.at >= stream.upto

\* Nothing has settled yet.
LookAgain ==
    /\ AllSent
    /\ stream.seen \notin Settled
    /\ stream' = [stream EXCEPT !.stage = "look"]
    /\ UNCHANGED <<server, calls, store, history, acts>>

\* What the bound counts.
Counted == acts < MaxActs /\ acts' = acts + 1

\* The session has settled or the stream's time is up: the last frame says so, under
\* the number of the last event sent.
SendIdle ==
    /\ AllSent
    /\ \/ stream.seen \in Settled /\ UNCHANGED acts
       \/ Counted
    /\ stream' = [stream EXCEPT !.stage = "ending"]
    /\ onEvent("idle", stream.at)
    /\ UNCHANGED <<server, calls, session, busy, history>>

\* The look or the log raises: the last frame is an error, without a number.
SendError ==
    /\ stream.stage \in {"opening", "look", "read"}
    /\ Counted
    /\ stream' = [stream EXCEPT !.stage = "ending"]
    /\ onEvent("error", 0)
    /\ UNCHANGED <<server, calls, session, busy, history>>

StreamEndsForGood ==                     \* mutant: no fetch afterwards
    /\ stream.stage = "ending"
    /\ stream' = NoStream
    /\ UNCHANGED <<server, calls, store, history, acts>>

\* The last frame is there, or the server would not open the stream.  Whichever it
\* was, the store fetches the session once more.
StreamEnds ==
    /\ \/ stream.stage = "ending" /\ UNCHANGED lost
       \/ stream.stage = "opening" /\ lost' = TRUE
    /\ calls' = Append(calls, Fetch(stream.id))
    /\ stream' = NoStream
    /\ UNCHANGED <<server, store, wanted, strayed, newest, acts>>

\* It drops: follow returns, and the next action is to put that right.
StreamDrops ==
    /\ Live
    /\ stream' = NoStream
    /\ lost' = TRUE
    /\ UNCHANGED <<server, calls, store, wanted, strayed, newest, acts>>

-----------------------------------------------------------------------------
(* Answers.                                                                *)

adopt(v) ==
    /\ session' = v
    /\ wanted' = IF wanted = "new" THEN v.id ELSE wanted
    /\ strayed' = (strayed \/ wanted \notin {v.id, "new"})
    /\ newest' = IF session.id # v.id \/ v.log > newest THEN v.log ELSE newest

\* The answer to an action: show it and follow its log.
ActAnswered(i) ==
    /\ calls[i].then = "act"
    /\ calls[i].status = "ok"
    /\ adopt(calls[i].view)
    /\ Follow(calls[i].view.id, cursor)
    /\ busy' = FALSE
    /\ lost' = FALSE
    /\ calls' = Without(i)
    /\ UNCHANGED <<server, events, cursor, acts>>

RefetchedOnce(i) ==                      \* mutant: it does not follow again
    /\ calls[i].then = "refetch"
    /\ calls[i].status = "ok"
    /\ adopt(calls[i].view)
    /\ calls' = Without(i)
    /\ UNCHANGED <<server, stream, events, cursor, busy, lost, acts>>

\* The answer to the fetch at the end of a stream.
Refetched(i) ==
    LET v == calls[i].view IN
    /\ calls[i].then = "refetch"
    /\ calls[i].status = "ok"
    /\ adopt(v)
    /\ IF v.state \in Settled THEN UNCHANGED stream ELSE Follow(v.id, cursor)
    /\ calls' = Without(i)
    /\ UNCHANGED <<server, events, cursor, busy, lost, acts>>

\* A refusal, or nothing at all: an action shows the error, a fetch ignores it.
Failed(i) ==
    /\ \/ calls[i].status = "refused" /\ UNCHANGED lost
       \/ lost' = TRUE
    /\ busy' = IF calls[i].then = "act" THEN FALSE ELSE busy
    /\ calls' = Without(i)
    /\ UNCHANGED <<server, stream, session, events, cursor, wanted, strayed, newest,
                   acts>>

-----------------------------------------------------------------------------
(* What the user does.                                                     *)

Shown == session # NoView

UserActs ==
    /\ Counted
    /\ UNCHANGED server

\* act, for the session that is shown.
Act(op, number) ==
    /\ calls' = Append(calls, Request(op, session.id, number, "act"))
    /\ busy' = (op \in Decisions)
    /\ UNCHANGED <<stream, session, events, cursor, history>>

\* The user turns to another session, or to none: the timeline starts anew.
Turn(id) ==
    /\ Abort
    /\ events' = << >>
    /\ cursor' = 0
    /\ wanted' = id
    /\ strayed' = FALSE
    /\ lost' = FALSE

start ==
    /\ UserActs
    /\ \A i \in DOMAIN calls : calls[i].op # "create"
    /\ \E id \in Sessions : ~Exists(id)
    /\ Turn("new")
    /\ session' = NoView
    /\ newest' = 0
    /\ busy' = TRUE
    /\ calls' = Append(calls, Request("create", "new", 0, "act"))

\* The session shown so far stays until the answer comes.
open(id) ==
    /\ UserActs
    /\ Exists(id)
    /\ Turn(id)
    /\ busy' = FALSE
    /\ calls' = Append(calls, Request("get", id, 0, "act"))
    /\ UNCHANGED <<session, newest>>

\* The buttons are disabled while one of them is at work, and offered in the
\* states they are for.  approve and reject name the revision on the screen.
Offered ==
    [op \in Decisions |->
        CASE op \in {"approve", "reject"} -> {"awaiting_approval"}
          [] op = "revise" -> {"awaiting_approval", "built", "needs_revision",
                               "approved", "failed"}
          [] op = "build"  -> {"approved"}
          [] op = "accept" -> {"built"}]

decide(op) ==
    /\ UserActs
    /\ ~busy
    /\ Shown
    /\ session.state \in Offered[op]
    /\ op \in {"approve", "reject"} => session.number > 0
    /\ Act(op, IF op \in {"approve", "reject"} THEN session.number ELSE 0)

cancel ==
    /\ UserActs
    /\ Shown
    /\ Act("cancel", 0)

close ==
    /\ UserActs
    /\ Shown
    /\ Turn("none")
    /\ session' = NoView
    /\ newest' = 0
    /\ busy' = FALSE
    /\ UNCHANGED calls

-----------------------------------------------------------------------------
\* A store that has just been loaded, and sessions left from another day.
Init ==
    /\ \E s \in [Left -> {"awaiting_approval", "building"}] :
         server = [id \in Sessions |->
                     IF id \in Left
                     THEN [state |-> s[id], number |-> 1, log |-> 1, ready |-> FALSE]
                     ELSE Nowhere]
    /\ calls = << >>
    /\ stream = NoStream
    /\ session = NoView
    /\ events = << >>
    /\ cursor = 0
    /\ busy = FALSE
    /\ wanted = "none"
    /\ strayed = FALSE
    /\ newest = 0
    /\ lost = FALSE
    /\ acts = 0

User == \/ start \/ cancel \/ close
        \/ \E id \in Sessions : open(id)
        \/ \E op \in Decisions : decide(op)

Streaming ==
    Look \/ ReadLog \/ SendEvent \/ LookAgain \/ SendIdle \/ SendError \/ StreamEnds

Next ==
    \/ User
    \/ Streaming \/ StreamDrops
    \/ \E id \in Sessions : BuilderIsDone(id)
    \/ \E i \in DOMAIN calls : Serve(i) \/ ActAnswered(i) \/ Refetched(i) \/ Failed(i)

\* Builds end, requests are answered or fail, and streams go on.
Fairness ==
    /\ \A id \in Sessions : WF_vars(BuilderIsDone(id))
    /\ WF_vars(Streaming)
    /\ WF_vars(\E i \in DOMAIN calls :
                  Serve(i) \/ ActAnswered(i) \/ Refetched(i) \/ Failed(i))

Spec == Init /\ [][Next]_vars /\ Fairness

-----------------------------------------------------------------------------
(* What the store shows.                                                   *)

StoreTypeOK ==
    /\ server \in [Sessions -> ServerSession]
    /\ calls \in Seq(Call)
    /\ stream \in Stream
    /\ session \in View \cup {NoView}
    /\ events \in Seq(Entry)
    /\ cursor \in Nat
    /\ busy \in BOOLEAN
    /\ wanted \in Sessions \cup {"new", "none"}
    /\ strayed \in BOOLEAN
    /\ newest \in Nat
    /\ lost \in BOOLEAN
    /\ acts \in 0 .. MaxActs

\* Where the timeline has events of the log.
Logged == {i \in DOMAIN events : events[i].kind = "event"}

\* "A dropped stream resumes from the last seq rather than replaying a session
\* from the beginning or, worse, missing the middle": as long as no late answer
\* took the store to another session, every frame on the timeline is of the session
\* the user is with, and the events among them are its log up to the cursor, in
\* order, each once.  The frames that end streams do not disturb that: an idle one
\* has the number of the event before it, and the next event comes after it.
TimelineIsTheLog ==
    ~strayed =>
        /\ \A i \in DOMAIN events : events[i].id = wanted
        /\ {events[i].seq : i \in Logged} = 1 .. cursor
        /\ \A i, j \in Logged : i < j => events[i].seq < events[j].seq
        /\ \A i \in DOMAIN events :
             events[i].kind = "idle" =>
               /\ events[i].seq <= cursor
               /\ \A j \in Logged : j < i <=> events[j].seq <= events[i].seq

\* With nothing under way and nothing lost, the store shows what the server has -
\* unless a late answer took it to another session, or was older than one that had
\* come before it.
AgreesWhenQuiet ==
    /\ calls = << >>
    /\ ~Live
    /\ Shown
    /\ ~strayed /\ ~lost
    /\ session.log = newest
    => session = ViewOf(session.id, server[session.id])

\* A store that shows a session being built comes to show how that ended, if
\* nothing is lost on the way.
BuildIsSeen ==
    session.state = "building" ~> (session.state # "building" \/ lost)

=============================================================================
