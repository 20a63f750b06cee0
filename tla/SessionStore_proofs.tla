------------------------- MODULE SessionStore_proofs -------------------------
(***************************************************************************)
(* TLAPS proofs about SessionStore, for any sessions and any number of     *)
(* actions of the user.                                                    *)
(***************************************************************************)
EXTENDS SessionStoreInv, TLAPS

LEMMA Names ==
    /\ "none" \notin Sessions /\ "new" \notin Sessions
    /\ NoView.id = "none" /\ NoStream.stage = "off"
    /\ NoStream \in Stream
    /\ \A v \in View : v # NoView
  BY StoreAssumption DEF NoView, NoStream, Stream, View

LEMMA TypeParts ==
    ASSUME StoreTypeOK
    PROVE  /\ server \in [Sessions -> ServerSession] /\ calls \in Seq(Call)
           /\ stream \in Stream /\ session \in View \cup {NoView}
           /\ events \in Seq(Entry) /\ cursor \in Nat
           /\ busy \in BOOLEAN /\ wanted \in Sessions \cup {"new", "none"}
           /\ strayed \in BOOLEAN /\ newest \in Nat /\ lost \in BOOLEAN
           /\ \A i \in DOMAIN calls : calls[i] \in Call /\ calls[i].view \in View \cup {NoView}
           /\ Shown => session \in View /\ session.id \in Sessions
           /\ \A id \in Sessions : Exists(id) => server[id].state \in States
<1>1. calls \in Seq(Call)
  BY DEF StoreTypeOK
<1>2. \A i \in DOMAIN calls : calls[i] \in Call /\ calls[i].view \in View \cup {NoView}
  <2>1. ASSUME NEW i \in DOMAIN calls
        PROVE  calls[i] \in Call
    BY <1>1
  <2> QED
    BY <2>1 DEF Call
<1>3. Shown => session \in View /\ session.id \in Sessions
  BY DEF StoreTypeOK, Shown, View
<1>4. \A id \in Sessions : Exists(id) => server[id].state \in States
  BY DEF StoreTypeOK, ServerSession, Exists
<1> QED
  BY <1>1, <1>2, <1>3, <1>4 DEF StoreTypeOK

-----------------------------------------------------------------------------
(* The server's sessions and their views.                                  *)

LEMMA BecomesTyped ==
    ASSUME NEW s \in ServerSession, NEW state \in States
    PROVE  /\ Becomes(s, state) \in ServerSession
           /\ Becomes(s, state).state \in States
           /\ Becomes(s, state).log = s.log + 1
           /\ Becomes(s, state).number = s.number
           /\ \A n \in Nat : /\ [Becomes(s, state) EXCEPT !.number = n] \in ServerSession
                             /\ [Becomes(s, state) EXCEPT !.number = n].state \in States
                             /\ [Becomes(s, state) EXCEPT !.number = n].log = s.log + 1
<1> DEFINE b == Becomes(s, state)
<1>1. /\ b \in ServerSession /\ b.state = state
      /\ b.log = s.log + 1 /\ b.number = s.number
  BY DEF Becomes, ServerSession
<1> HIDE DEF b
<1>2. ASSUME NEW n \in Nat
      PROVE  /\ [b EXCEPT !.number = n] \in ServerSession
             /\ [b EXCEPT !.number = n].state = b.state
             /\ [b EXCEPT !.number = n].log = b.log
  BY <1>1 DEF ServerSession
<1> QED
  BY <1>1, <1>2 DEF b

\* A request leaves a session as it is or takes it one event further.
LEMMA OutcomesTyped ==
    ASSUME NEW s \in ServerSession, NEW op \in Operations, NEW n,
           op # "create" => s.state \in States,
           NEW r \in Outcomes(op, s, n)
    PROVE  /\ r \in ServerSession /\ r.state \in States
           /\ r = s \/ r.log = s.log + 1
<1> DEFINE Good(x) == /\ x \in ServerSession /\ x.state \in States
                      /\ x = s \/ x.log = s.log + 1
<1>1. \A state \in States : Good(Becomes(s, state))
  BY BecomesTyped
<1>2. /\ Good([Becomes(s, "awaiting_approval") EXCEPT !.number = 1])
      /\ Good([Becomes(s, "awaiting_approval") EXCEPT !.number = s.number + 1])
  <2>1. s.number + 1 \in Nat /\ "awaiting_approval" \in States
    BY DEF ServerSession, States
  <2> QED
    BY <2>1, BecomesTyped
<1>3. op # "create" => Good(s)
  OBVIOUS
<1> HIDE DEF Good
<1>4. Good(r)
  <2>1. CASE op = "create"
    BY <1>1, <1>2, <2>1 DEF Outcomes, Created, States
  <2>2. CASE op = "get"
    BY <1>1, <1>3, <2>2 DEF Outcomes, Collected, States
  <2>3. CASE op = "revise"
    <3>1. [Becomes(s, "awaiting_approval") EXCEPT !.number = @ + 1]
            = [Becomes(s, "awaiting_approval") EXCEPT !.number = s.number + 1]
      BY DEF Becomes
    <3> QED
      BY <1>1, <1>2, <2>3, <3>1 DEF Outcomes, Revised, States
  <2>4. CASE op = "build"
    BY <1>1, <1>3, <2>4 DEF Outcomes, States
  <2>5. CASE op \in {"approve", "reject", "accept", "cancel"}
    BY <1>1, <2>5 DEF Outcomes, Moved, States, Terminal
  <2> QED
    BY <2>1, <2>2, <2>3, <2>4, <2>5 DEF Operations, Decisions
<1> QED
  BY <1>4 DEF Good

\* Nothing refuses to create a session or to show one.
LEMMA NeverRefused ==
    ASSUME NEW s, NEW n
    PROVE  Outcomes("create", s, n) # {} /\ Outcomes("get", s, n) # {}
  BY DEF Outcomes, Created, Collected

\* What a view of a session says is what the session is, or it has gone on.
Grows ==
    \A id \in Sessions :
        Exists(id) =>
            /\ server'[id].state # "none"
            /\ server'[id].log \in Nat
            /\ \/ /\ server'[id].log = server[id].log
                  /\ ViewOf(id, server'[id]) = ViewOf(id, server[id])
               \/ server'[id].log > server[id].log

LEMMA SessionGrows ==
    ASSUME server \in [Sessions -> ServerSession], NEW id \in Sessions,
           NEW r \in ServerSession, r.state \in States,
           r = server[id] \/ r.log = server[id].log + 1,
           server' = [server EXCEPT ![id] = r]
    PROVE  /\ server' \in [Sessions -> ServerSession] /\ Grows
           /\ \A u \in Sessions \ {id} : server'[u] = server[u]
           /\ server'[id] = r
<1>1. "none" \notin States
  BY DEF States, Terminal
<1>2. \A u \in Sessions : server[u].log \in Nat
  BY DEF ServerSession
<1>3. server'[id] = r /\ \A u \in Sessions \ {id} : server'[u] = server[u]
  OBVIOUS
<1>4. r.log \in Nat
  BY DEF ServerSession
<1> QED
  BY <1>1, <1>2, <1>3, <1>4 DEF Grows, Exists

-----------------------------------------------------------------------------
(* The requests under way.                                                 *)

LEMMA Appended ==
    ASSUME calls \in Seq(Call), NEW c \in Call, calls' = Append(calls, c)
    PROVE  /\ calls' \in Seq(Call)
           /\ \A i \in DOMAIN calls : i \in DOMAIN calls' /\ calls'[i] = calls[i]
           /\ \A j \in DOMAIN calls' : (j \in DOMAIN calls /\ calls'[j] = calls[j])
                                        \/ calls'[j] = c
           /\ \E j \in DOMAIN calls' : calls'[j] = c
<1>1. Len(calls) + 1 \in DOMAIN calls' /\ calls'[Len(calls) + 1] = c
  OBVIOUS
<1>2. /\ calls' \in Seq(Call)
      /\ \A i \in DOMAIN calls : i \in DOMAIN calls' /\ calls'[i] = calls[i]
      /\ \A j \in DOMAIN calls' : (j \in DOMAIN calls /\ calls'[j] = calls[j])
                                        \/ calls'[j] = c
  OBVIOUS
<1> QED
  BY <1>1, <1>2

LEMMA Removed ==
    ASSUME calls \in Seq(Call), NEW i \in DOMAIN calls, calls' = Without(i)
    PROVE  /\ calls' \in Seq(Call)
           /\ \A j \in DOMAIN calls' : \E k \in DOMAIN calls : calls'[j] = calls[k]
           /\ \A k \in DOMAIN calls \ {i} : \E j \in DOMAIN calls' : calls'[j] = calls[k]
<1>1. /\ Len(calls) \in Nat /\ Len(calls) - 1 \in Nat /\ DOMAIN calls = 1 .. Len(calls)
      /\ i \in 1 .. Len(calls)
  OBVIOUS
<1>2. DOMAIN calls' = 1 .. Len(calls) - 1
  BY DEF Without
<1>3. ASSUME NEW j \in DOMAIN calls'
      PROVE  \E k \in DOMAIN calls : calls'[j] = calls[k]
  <2>1. CASE j < i
    BY <1>1, <1>2, <2>1 DEF Without
  <2>2. CASE ~(j < i)
    <3>1. calls'[j] = calls[j + 1] /\ j + 1 \in DOMAIN calls
      BY <1>1, <1>2, <2>2 DEF Without
    <3> QED
      BY <3>1
  <2> QED
    BY <2>1, <2>2
<1>4. ASSUME NEW k \in DOMAIN calls \ {i}
      PROVE  \E j \in DOMAIN calls' : calls'[j] = calls[k]
  <2>1. CASE k < i
    <3>1. k \in DOMAIN calls' /\ calls'[k] = calls[k]
      BY <1>1, <1>2, <2>1 DEF Without
    <3> QED
      BY <3>1
  <2>2. CASE ~(k < i)
    <3>1. k - 1 \in DOMAIN calls' /\ calls'[k - 1] = calls[k]
      BY <1>1, <1>2, <2>2 DEF Without
    <3> QED
      BY <3>1
  <2> QED
    BY <2>1, <2>2
<1>5. calls' \in Seq(Call)
  <2>1. \A j \in DOMAIN calls' : calls'[j] \in Call
    BY <1>3
  <2>2. PICK n \in Nat : n = Len(calls) - 1
    BY <1>1
  <2>3. calls' \in [1 .. n -> Call]
    BY <1>2, <2>1, <2>2 DEF Without
  <2> QED
    BY <2>3
<1> QED
  BY <1>3, <1>4, <1>5

LEMMA AnswerTyped ==
    ASSUME calls \in Seq(Call), NEW i \in DOMAIN calls, NEW v \in View \cup {NoView},
           NEW status \in {"ok", "refused"}, Answer(i, status, v)
    PROVE  /\ calls' \in Seq(Call) /\ DOMAIN calls' = DOMAIN calls
           /\ \A j \in DOMAIN calls : j # i => calls'[j] = calls[j]
           /\ calls'[i].op = calls[i].op /\ calls'[i].id = calls[i].id
           /\ calls'[i].then = calls[i].then
           /\ calls'[i].status = status /\ calls'[i].view = v
<1>1. calls[i] \in Call
  OBVIOUS
<1>2. calls' = [calls EXCEPT ![i] =
                  [op |-> calls[i].op, id |-> calls[i].id, number |-> calls[i].number,
                   then |-> calls[i].then, status |-> status, view |-> v]]
  BY DEF Answer
<1>3. [op |-> calls[i].op, id |-> calls[i].id, number |-> calls[i].number,
       then |-> calls[i].then, status |-> status, view |-> v] \in Call
  BY <1>1 DEF Call
<1>4. calls' \in Seq(Call) /\ DOMAIN calls' = DOMAIN calls
  BY <1>2, <1>3
<1> QED
  BY <1>2, <1>4

LEMMA RequestTyped ==
    ASSUME NEW op \in Operations, NEW id \in Sessions \cup {"new"}, NEW number \in Nat,
           NEW then \in {"act", "refetch"}
    PROVE  /\ Request(op, id, number, then) \in Call
           /\ Request(op, id, number, then).op = op
           /\ Request(op, id, number, then).id = id
           /\ Request(op, id, number, then).then = then
           /\ Request(op, id, number, then).status = "sent"
           /\ Request(op, id, number, then).view = NoView
  BY DEF Request, Call

\* Calls that are there, and one that is new, keep what is true of calls.
LEMMA CallsKept ==
    ASSUME StoreTypeOK, CallsInv, ViewsInv, Grows,
           \A j \in DOMAIN calls' :
             \/ \E k \in DOMAIN calls : calls'[j] = calls[k]
             \/ CallOf(calls[j])' /\ Genuine(calls[j].view)'
    PROVE  CallsInv' /\ \A j \in Positions' : Genuine(calls[j].view)'
<1> SUFFICES ASSUME NEW j \in DOMAIN calls', NEW k \in DOMAIN calls, calls'[j] = calls[k]
             PROVE  CallOf(calls[j])' /\ Genuine(calls[j].view)'
  BY DEF CallsInv, Positions
<1>1. /\ CallOf(calls[k]) /\ Genuine(calls[k].view)
      /\ calls[k].view \in View \cup {NoView} /\ server \in [Sessions -> ServerSession]
  BY TypeParts DEF CallsInv, ViewsInv, Positions
<1>2. CallOf(calls[j])'
  BY <1>1 DEF CallOf, Grows, Exists
<1> DEFINE v == calls[k].view
<1>3. v \in View \cup {NoView} /\ Genuine(v) /\ v = calls'[j].view
  BY <1>1
<1>4. CASE v # NoView
  <2>1. v.id \in Sessions /\ v.log \in Nat /\ server[v.id].log \in Nat
    BY <1>1, <1>4 DEF View, ServerSession
  <2>2. /\ Exists(v.id) /\ v.log <= server[v.id].log
        /\ v.log = server[v.id].log => v = ViewOf(v.id, server[v.id])
    BY <1>3, <1>4 DEF Genuine
  <2>3. Genuine(calls[j].view)'
    BY <1>3, <2>1, <2>2 DEF Grows, Genuine, Exists
  <2> QED
    BY <1>2, <2>3
<1>5. CASE v = NoView
  BY <1>2, <1>3, <1>5 DEF Genuine
<1> QED
  BY <1>4, <1>5

\* A step that shows nothing new keeps what is true of views.
LEMMA ViewsKept ==
    ASSUME StoreTypeOK, CallsInv, ViewsInv, Grows, UNCHANGED <<session, newest>>,
           \A j \in DOMAIN calls' :
             \/ \E k \in DOMAIN calls : calls'[j] = calls[k]
             \/ CallOf(calls[j])' /\ Genuine(calls[j].view)'
    PROVE  CallsInv' /\ ViewsInv'
<1>1. /\ server \in [Sessions -> ServerSession] /\ session \in View \cup {NoView}
      /\ Shown => session \in View /\ session.id \in Sessions
      /\ newest \in Nat
  BY TypeParts
<1>2. CASE Shown
  <2>1. /\ session.id \in Sessions /\ session.log \in Nat /\ server[session.id].log \in Nat
    BY <1>1, <1>2 DEF View, ServerSession
  <2>2. /\ Exists(session.id) /\ session.log <= server[session.id].log
        /\ session.log = server[session.id].log
             => session = ViewOf(session.id, server[session.id])
        /\ newest <= server[session.id].log
    BY <1>2 DEF ViewsInv, Genuine, Shown
  <2>3. Genuine(session)'
    BY <2>1, <2>2 DEF Grows, Genuine, Exists
  <2>4. newest' <= server'[session'.id].log
    <3>1. server'[session.id].log \in Nat /\ server'[session.id].log >= server[session.id].log
      BY <2>1, <2>2 DEF Grows
    <3> QED
      BY <1>1, <2>1, <2>2, <3>1
  <2> QED
    BY <2>3, <2>4, CallsKept DEF ViewsInv
<1>3. CASE ~Shown
  BY <1>3, CallsKept DEF ViewsInv, Shown, Genuine
<1> QED
  BY <1>2, <1>3

LEMMA FreshKept ==
    ASSUME FreshInv, UNCHANGED <<session, wanted, strayed>>, lost => lost',
           Opening => Opening',
           Shown /\ ~strayed /\ session.id = wanted /\ Fresh => Fresh' \/ lost'
    PROVE  FreshInv'
  BY DEF FreshInv, Shown
LEMMA Still ==
    ASSUME StoreTypeOK, UNCHANGED server
    PROVE  Grows
<1>1. \A id \in Sessions : server[id].log \in Nat
  BY TypeParts DEF ServerSession
<1> QED
  BY <1>1 DEF Grows, Exists

-----------------------------------------------------------------------------
(* The server's steps.                                                     *)

LEMMA BuilderStep ==
    ASSUME StoreIInv, NEW id \in Sessions, BuilderIsDone(id)
    PROVE  StoreIInv'
<1>1. StoreTypeOK /\ CallsInv /\ ViewsInv /\ StreamInv /\ TimelineIsTheLog /\ FreshInv
  BY DEF StoreIInv
<1>2. /\ UNCHANGED <<calls, stream, session, events, cursor, busy, wanted, strayed, newest,
                     lost, acts>>
      /\ server' = [server EXCEPT ![id] = [server[id] EXCEPT !.ready = TRUE]]
      /\ server[id].state = "building"
  BY DEF BuilderIsDone, store, history
<1>3. server \in [Sessions -> ServerSession]
  BY <1>1, TypeParts
<1> DEFINE r == [server[id] EXCEPT !.ready = TRUE]
<1>4. /\ r \in ServerSession /\ r.state = server[id].state /\ r.number = server[id].number
      /\ r.log = server[id].log /\ server[id].log \in Nat
  BY <1>3 DEF ServerSession
<1>5. server' = [server EXCEPT ![id] = r]
  BY <1>2
<1> HIDE DEF r
<1>6. /\ server' \in [Sessions -> ServerSession]
      /\ server'[id] = r /\ \A u \in Sessions \ {id} : server'[u] = server[u]
  BY <1>3, <1>4, <1>5
<1>7. \A u \in Sessions : /\ server'[u].state = server[u].state
                          /\ server'[u].number = server[u].number
                          /\ server'[u].log = server[u].log /\ server[u].log \in Nat
  BY <1>3, <1>4, <1>6 DEF ServerSession
<1>8. Grows
  BY <1>7 DEF Grows, ViewOf, Exists
<1>9. StoreTypeOK'
  BY <1>1, <1>2, <1>6 DEF StoreTypeOK
<1>10. CallsInv' /\ ViewsInv'
  BY <1>1, <1>2, <1>8, ViewsKept
<1>11. StreamInv' /\ TimelineIsTheLog'
  BY <1>1, <1>2, <1>7 DEF StreamInv, TimelineIsTheLog, Logged, Live, Shown, Exists
<1>12. Opening => Opening'
  BY <1>2 DEF Opening, Positions
<1>13. Shown /\ Fresh => Fresh'
  <2>1. Shown => session.id \in Sessions
    BY <1>1, TypeParts
  <2> QED
    BY <1>2, <1>7, <2>1 DEF Fresh, Fetching, Arriving, Live, Positions
<1>14. FreshInv'
  BY <1>1, <1>2, <1>12, <1>13, FreshKept
<1> QED
  BY <1>9, <1>10, <1>11, <1>14 DEF StoreIInv

\* A request that was carried out has what it made of the session as its answer.
LEMMA ServeStep ==
    ASSUME StoreIInv, NEW i \in DOMAIN calls, Serve(i)
    PROVE  StoreIInv'
<1>1. StoreTypeOK /\ CallsInv /\ ViewsInv /\ StreamInv /\ TimelineIsTheLog /\ FreshInv
  BY DEF StoreIInv
<1>2. /\ UNCHANGED <<stream, session, events, cursor, busy, wanted, strayed, newest,
                     lost, acts>>
      /\ calls[i].status = "sent"
  BY DEF Serve, store, history
<1>3. /\ server \in [Sessions -> ServerSession] /\ calls \in Seq(Call) /\ calls[i] \in Call
      /\ calls[i].op \in Operations
  BY <1>1, TypeParts DEF Call
<1>4. PICK id \in Sessions :
        /\ calls[i].op = "create" <=> ~Exists(id)
        /\ calls[i].id \in {id, "new"}
        /\ \/ \E s \in Outcomes(calls[i].op, server[id], calls[i].number) :
                /\ server' = [server EXCEPT ![id] = s]
                /\ Answer(i, "ok", ViewOf(id, s))
           \/ /\ Outcomes(calls[i].op, server[id], calls[i].number) = {}
              /\ Answer(i, "refused", NoView)
              /\ UNCHANGED server
  BY DEF Serve
<1>5. /\ server[id] \in ServerSession
      /\ calls[i].op # "create" => server[id].state \in States
  BY <1>1, <1>3, <1>4, TypeParts
<1>6. CASE \E s \in Outcomes(calls[i].op, server[id], calls[i].number) :
             /\ server' = [server EXCEPT ![id] = s]
             /\ Answer(i, "ok", ViewOf(id, s))
  <2>1. PICK s \in Outcomes(calls[i].op, server[id], calls[i].number) :
          /\ server' = [server EXCEPT ![id] = s]
          /\ Answer(i, "ok", ViewOf(id, s))
    BY <1>6
  <2>2. s \in ServerSession /\ s.state \in States /\ (s = server[id] \/ s.log = server[id].log + 1)
    BY <1>3, <1>5, OutcomesTyped
  <2>3. /\ server' \in [Sessions -> ServerSession] /\ Grows
        /\ \A u \in Sessions \ {id} : server'[u] = server[u]
        /\ server'[id] = s
    BY <1>3, <2>1, <2>2, SessionGrows
  <2> DEFINE v == ViewOf(id, s)
  <2>4. v \in View /\ v.id = id /\ v.log = s.log
    BY <2>2 DEF ViewOf, View, ServerSession
  <2>5. v # NoView
    BY <2>4, Names
  <2>6. Answer(i, "ok", v)
    BY <2>1
  <2>7. v = ViewOf(id, server'[id])
    BY <2>3
  <2> HIDE DEF v
  <2>8. /\ calls' \in Seq(Call) /\ DOMAIN calls' = DOMAIN calls
        /\ \A j \in DOMAIN calls : j # i => calls'[j] = calls[j]
        /\ calls'[i].op = calls[i].op /\ calls'[i].id = calls[i].id
        /\ calls'[i].then = calls[i].then
        /\ calls'[i].status = "ok" /\ calls'[i].view = v
    BY <1>3, <2>4, <2>6, AnswerTyped
  <2>9. server'[id].state # "none" /\ server'[id].log \in Nat
    BY <2>2, <2>3 DEF States, Terminal, ServerSession
  <2>10. CallOf(calls[i])'
    <3>1. CallOf(calls[i])
      BY <1>1 DEF CallsInv, Positions
    <3> QED
      BY <2>3, <2>5, <2>8, <3>1 DEF CallOf, Grows, Exists
  <2>11. Genuine(calls[i].view)'
    BY <2>3, <2>4, <2>7, <2>8, <2>9 DEF Genuine, Exists
  <2>12. \A j \in DOMAIN calls' : \/ \E k \in DOMAIN calls : calls'[j] = calls[k]
                                  \/ CallOf(calls[j])' /\ Genuine(calls[j].view)'
    BY <2>8, <2>10, <2>11
  <2>13. StoreTypeOK'
    BY <1>1, <1>2, <2>3, <2>8 DEF StoreTypeOK
  <2>14. CallsInv' /\ ViewsInv'
    BY <1>1, <1>2, <2>3, <2>12, ViewsKept
  <2>15. StreamInv' /\ TimelineIsTheLog'
    BY <1>1, <1>2, <2>3 DEF StreamInv, TimelineIsTheLog, Logged, Live, Shown, Exists, Grows
  <2>16. Opening => Opening'
    BY <2>8 DEF Opening, Positions
  <2>17. Shown /\ Fresh => Fresh'
    <3> SUFFICES ASSUME Shown, Fresh
                 PROVE  Fresh'
      OBVIOUS
    <3>1. session.id \in Sessions
      BY <1>1, TypeParts
    <3>2. CASE session.id = id
      <4>1. Arriving'
        BY <1>2, <2>3, <2>4, <2>8, <3>2 DEF Arriving, Positions
      <4> QED
        BY <4>1 DEF Fresh
    <3>3. CASE session.id # id
      <4>1. server'[session.id] = server[session.id]
        BY <2>3, <3>1, <3>3
      <4>2. Fetching => Fetching'
        <5>1. ~(calls[i].op = "get" /\ calls[i].id = session.id)
          BY <1>4, <3>1, <3>3, Names
        <5> QED
          BY <1>2, <2>8, <5>1 DEF Fetching, Positions
      <4>3. Arriving => Arriving'
        BY <1>2, <2>8, <4>1 DEF Arriving, Positions
      <4> QED
        BY <1>2, <4>1, <4>2, <4>3 DEF Fresh, Live
    <3> QED
      BY <3>2, <3>3
  <2>18. FreshInv'
    BY <1>1, <1>2, <2>16, <2>17, FreshKept
  <2> QED
    BY <2>13, <2>14, <2>15, <2>18 DEF StoreIInv
<1>7. CASE /\ Outcomes(calls[i].op, server[id], calls[i].number) = {}
           /\ Answer(i, "refused", NoView)
           /\ UNCHANGED server
  <2>1. Grows
    BY <1>1, <1>7, Still
  <2>2. calls[i].op \notin {"create", "get"}
    BY <1>7, NeverRefused
  <2>3. /\ calls' \in Seq(Call) /\ DOMAIN calls' = DOMAIN calls
        /\ \A j \in DOMAIN calls : j # i => calls'[j] = calls[j]
        /\ calls'[i].op = calls[i].op /\ calls'[i].id = calls[i].id
        /\ calls'[i].then = calls[i].then
        /\ calls'[i].status = "refused" /\ calls'[i].view = NoView
    BY <1>3, <1>7, AnswerTyped
  <2>4. CallOf(calls[i])'
    <3>1. CallOf(calls[i])
      BY <1>1 DEF CallsInv, Positions
    <3> QED
      BY <1>7, <2>2, <2>3, <3>1 DEF CallOf, Exists
  <2>5. Genuine(calls[i].view)'
    BY <2>3 DEF Genuine
  <2>6. \A j \in DOMAIN calls' : \/ \E k \in DOMAIN calls : calls'[j] = calls[k]
                                 \/ CallOf(calls[j])' /\ Genuine(calls[j].view)'
    BY <2>3, <2>4, <2>5
  <2>7. StoreTypeOK'
    BY <1>1, <1>2, <1>7, <2>3 DEF StoreTypeOK
  <2>8. CallsInv' /\ ViewsInv'
    BY <1>1, <1>2, <2>1, <2>6, ViewsKept
  <2>9. StreamInv' /\ TimelineIsTheLog'
    BY <1>1, <1>2, <1>7 DEF StreamInv, TimelineIsTheLog, Logged, Live, Shown, Exists
  <2>10. Opening => Opening'
    BY <2>2, <2>3 DEF Opening, Positions
  <2>11. Fresh => Fresh'
    <3>1. Fetching => Fetching'
      BY <1>2, <2>2, <2>3 DEF Fetching, Positions
    <3>2. Arriving => Arriving'
      BY <1>2, <1>7, <2>3 DEF Arriving, Positions
    <3> QED
      BY <1>2, <1>7, <3>1, <3>2 DEF Fresh, Live
  <2>12. FreshInv'
    BY <1>1, <1>2, <2>10, <2>11, FreshKept
  <2> QED
    BY <2>7, <2>8, <2>9, <2>12 DEF StoreIInv
<1> QED
  BY <1>4, <1>6, <1>7
-----------------------------------------------------------------------------
(* The stream's steps.                                                     *)

\* A stream goes on where it is, over sessions that grow.
LEMMA StreamGoesOn ==
    ASSUME StoreIInv, Grows,
           UNCHANGED <<calls, session, events, cursor, wanted, strayed, newest, lost>>,
           Live, Live', stream'.id = stream.id, stream'.at = stream.at
    PROVE  CallsInv' /\ ViewsInv' /\ StreamInv' /\ TimelineIsTheLog' /\ FreshInv'
<1>1. StoreTypeOK /\ CallsInv /\ ViewsInv /\ StreamInv /\ TimelineIsTheLog /\ FreshInv
  BY DEF StoreIInv
<1>2. CallsInv' /\ ViewsInv'
  BY <1>1, ViewsKept
<1>3. StreamInv'
  BY <1>1 DEF StreamInv, Shown, Exists, Grows
<1>4. TimelineIsTheLog'
  BY <1>1 DEF TimelineIsTheLog, Logged
<1>5. Opening => Opening'
  BY DEF Opening, Positions
<1>6. Fresh'
  BY DEF Fresh
<1>7. FreshInv'
  BY <1>1, <1>5, <1>6, FreshKept
<1> QED
  BY <1>2, <1>3, <1>4, <1>7

LEMMA LookStep ==
    ASSUME StoreIInv, Look
    PROVE  StoreIInv'
<1>1. StoreTypeOK /\ StreamInv
  BY DEF StoreIInv
<1>2. UNCHANGED <<calls, session, events, cursor, busy, wanted, strayed, newest, lost, acts>>
  BY DEF Look, store, history
<1>3. server \in [Sessions -> ServerSession] /\ stream \in Stream
  BY <1>1, TypeParts
<1>4. Live /\ stream.id \in Sessions /\ server[stream.id].state \in States
  <2>1. Live
    BY DEF Look, Live
  <2>2. stream.id \in Sessions /\ Exists(stream.id)
    BY <1>1, <2>1 DEF StreamInv
  <2> QED
    BY <1>1, <2>1, <2>2, TypeParts
<1>5. PICK s \in Collected(server[stream.id]) :
        /\ server' = [server EXCEPT ![stream.id] = s]
        /\ stream' = [stream EXCEPT !.stage = "read", !.seen = s.state]
  BY DEF Look
<1>6. s \in Outcomes("get", server[stream.id], 0)
  BY DEF Outcomes
<1>7. /\ s \in ServerSession /\ s.state \in States
      /\ s = server[stream.id] \/ s.log = server[stream.id].log + 1
  BY <1>3, <1>4, <1>6, OutcomesTyped DEF Operations
<1>8. server' \in [Sessions -> ServerSession] /\ Grows
  BY <1>3, <1>4, <1>5, <1>7, SessionGrows
<1>9. /\ stream' \in Stream /\ stream'.stage = "read"
      /\ stream'.id = stream.id /\ stream'.at = stream.at
  BY <1>3, <1>5, <1>7 DEF Stream
<1>10. StoreTypeOK'
  BY <1>1, <1>2, <1>8, <1>9 DEF StoreTypeOK
<1>11. Live'
  BY <1>9 DEF Live
<1> QED
  BY <1>2, <1>4, <1>8, <1>9, <1>10, <1>11, StreamGoesOn DEF StoreIInv

LEMMA ReadStep ==
    ASSUME StoreIInv, ReadLog \/ LookAgain
    PROVE  StoreIInv'
<1>1. StoreTypeOK /\ StreamInv
  BY DEF StoreIInv
<1>2. /\ UNCHANGED <<server, calls, session, events, cursor, busy, wanted, strayed, newest,
                     lost, acts>>
      /\ Live
  BY DEF ReadLog, LookAgain, AllSent, Live, store, history
<1>3. server \in [Sessions -> ServerSession] /\ stream \in Stream
  BY <1>1, TypeParts
<1>4. stream.id \in Sessions
  BY <1>1, <1>2 DEF StreamInv
<1>5. /\ stream' \in Stream /\ stream'.stage # "off"
      /\ stream'.id = stream.id /\ stream'.at = stream.at
  <2>1. CASE ReadLog
    <3>1. server[stream.id].log \in Nat
      BY <1>3, <1>4 DEF ServerSession
    <3>2. stream' = [stream EXCEPT !.stage = "send", !.upto = server[stream.id].log]
      BY <2>1 DEF ReadLog
    <3> QED
      BY <1>3, <3>1, <3>2 DEF Stream
  <2>2. CASE LookAgain
    <3>1. stream' = [stream EXCEPT !.stage = "look"]
      BY <2>2 DEF LookAgain
    <3> QED
      BY <1>3, <3>1 DEF Stream
  <2> QED
    BY <2>1, <2>2
<1>6. StoreTypeOK'
  BY <1>1, <1>2, <1>5 DEF StoreTypeOK
<1>7. Live' /\ Grows
  BY <1>1, <1>2, <1>5, Still DEF Live
<1> QED
  BY <1>2, <1>5, <1>6, <1>7, StreamGoesOn DEF StoreIInv

\* A frame appended to the timeline.
LEMMA Longer ==
    ASSUME events \in Seq(Entry), NEW e \in Entry, events' = Append(events, e)
    PROVE  /\ Len(events) \in Nat /\ DOMAIN events = 1 .. Len(events)
           /\ DOMAIN events' = 1 .. Len(events) + 1
           /\ Len(events) + 1 \in DOMAIN events'
           /\ events'[Len(events) + 1] = e
           /\ \A i \in DOMAIN events : i \in DOMAIN events' /\ events'[i] = events[i]
           /\ \A i \in DOMAIN events' : i \in DOMAIN events \/ i = Len(events) + 1
           /\ \A i \in DOMAIN events : i < Len(events) + 1 /\ i \in Nat /\ events[i].seq \in Nat
<1>1. Len(events) \in Nat /\ DOMAIN events = 1 .. Len(events)
  OBVIOUS
<1>2. /\ DOMAIN events' = 1 .. Len(events) + 1
      /\ events'[Len(events) + 1] = e
      /\ \A i \in DOMAIN events : events'[i] = events[i]
  OBVIOUS
<1>3. \A i \in DOMAIN events : events[i] \in Entry
  OBVIOUS
<1>4. \A i \in DOMAIN events : events[i].seq \in Nat
  BY <1>3 DEF Entry
<1> QED
  BY <1>1, <1>2, <1>4

\* The next event continues the timeline, and the last frame leaves the numbers on
\* it as they are.
LEMMA FrameKeeps ==
    ASSUME StoreTypeOK, TimelineIsTheLog, StreamInv, Live,
           NEW kind \in {"event", "idle", "error"}, NEW seq \in Nat, onEvent(kind, seq),
           UNCHANGED <<wanted, strayed>>,
           kind = "event" => seq = stream.at + 1,
           kind = "idle" => seq = stream.at,
           kind = "error" => seq = 0
    PROVE  /\ events' \in Seq(Entry) /\ cursor' \in Nat
           /\ ~strayed => cursor' = IF kind = "event" THEN seq ELSE cursor
           /\ TimelineIsTheLog'
<1> DEFINE e == [id |-> stream.id, kind |-> kind, seq |-> seq]
           n == Len(events) + 1
<1>1. /\ stream \in Stream /\ events \in Seq(Entry) /\ cursor \in Nat
      /\ stream.id \in Sessions /\ stream.at \in Nat /\ n \in Nat
  BY TypeParts DEF StreamInv, Stream
<1>2. /\ events' = Append(events, e)
      /\ cursor' = IF seq > cursor THEN seq ELSE cursor
  BY DEF onEvent
<1>3. e \in Entry /\ e.id = stream.id /\ e.kind = kind /\ e.seq = seq
  BY <1>1 DEF Entry
<1> HIDE DEF e
<1>4. events' \in Seq(Entry) /\ cursor' \in Nat
  BY <1>1, <1>2, <1>3
<1>5. ~strayed => stream.id = wanted /\ stream.at = cursor
  BY DEF StreamInv
<1>6. ~strayed => cursor' = IF kind = "event" THEN seq ELSE cursor
  BY <1>1, <1>2, <1>5
<1>7. /\ n \in DOMAIN events' /\ events'[n] = e
      /\ \A i \in DOMAIN events : i \in DOMAIN events' /\ events'[i] = events[i]
      /\ \A i \in DOMAIN events' : i \in DOMAIN events \/ i = n
      /\ \A i \in DOMAIN events : i < n /\ i \in Nat /\ events[i].seq \in Nat
  BY <1>1, <1>2, <1>3, Longer
<1> HIDE DEF n
<1>8. ASSUME ~strayed
      PROVE  TimelineIsTheLog'
  <2>1. /\ \A i \in DOMAIN events : events[i].id = wanted
        /\ {events[i].seq : i \in Logged} = 1 .. cursor
        /\ \A i, j \in Logged : i < j => events[i].seq < events[j].seq
        /\ \A i \in DOMAIN events :
             events[i].kind = "idle" =>
               /\ events[i].seq <= cursor
               /\ \A j \in Logged : j < i <=> events[j].seq <= events[i].seq
    BY <1>8 DEF TimelineIsTheLog
  <2>2. /\ Logged \subseteq DOMAIN events /\ n \notin Logged
        /\ Logged' = IF kind = "event" THEN Logged \cup {n} ELSE Logged
    BY <1>3, <1>7 DEF Logged
  <2>3. \A j \in Logged : /\ events[j].seq \in 1 .. cursor
                          /\ events'[j] = events[j] /\ j < n
    BY <1>7, <2>1, <2>2
  <2>4. \A i \in DOMAIN events' : events'[i].id = wanted'
    BY <1>3, <1>5, <1>7, <1>8, <2>1
  <2>5. {events'[i].seq : i \in Logged'} = 1 .. cursor'
    <3>1. CASE kind = "event"
      <4>1. /\ cursor' = cursor + 1 /\ Logged' = Logged \cup {n} /\ events'[n].seq = cursor + 1
        BY <1>3, <1>5, <1>6, <1>7, <1>8, <2>2, <3>1
      <4>2. {events'[i].seq : i \in Logged'} = {events[i].seq : i \in Logged} \cup {cursor + 1}
        BY <2>3, <4>1
      <4>3. 1 .. cursor + 1 = (1 .. cursor) \cup {cursor + 1}
        BY <1>1
      <4> QED
        BY <2>1, <4>1, <4>2, <4>3
    <3>2. CASE kind # "event"
      <4>1. cursor' = cursor /\ Logged' = Logged
        BY <1>6, <1>8, <2>2, <3>2
      <4>2. {events'[i].seq : i \in Logged} = {events[i].seq : i \in Logged}
        BY <2>3
      <4> QED
        BY <2>1, <4>1, <4>2
    <3> QED
      BY <3>1, <3>2
  <2>6. ASSUME NEW i \in Logged', NEW j \in Logged', i < j
        PROVE  events'[i].seq < events'[j].seq
    <3>1. n \in Logged' => kind = "event" /\ events'[n].seq = cursor + 1
      BY <1>3, <1>5, <1>7, <1>8, <2>2
    <3>2. i # n
      <4>1. j \in Logged => j < n /\ j \in Nat
        BY <1>7, <2>2, <2>3
      <4> QED
        BY <1>1, <2>2, <2>6, <4>1
    <3>3. i \in Logged
      BY <2>2, <3>2
    <3>4. CASE j \in Logged
      BY <2>1, <2>3, <2>6, <3>3, <3>4
    <3>5. CASE j \notin Logged
      <4>1. j = n
        BY <2>2, <3>5
      <4> QED
        BY <1>1, <2>3, <3>1, <3>3, <4>1
    <3> QED
      BY <3>4, <3>5
  <2>7. ASSUME NEW i \in DOMAIN events', events'[i].kind = "idle"
        PROVE  /\ events'[i].seq <= cursor'
               /\ \A j \in Logged' : j < i <=> events'[j].seq <= events'[i].seq
    <3>1. CASE i \in DOMAIN events
      <4>1. /\ events'[i] = events[i] /\ i < n /\ i \in Nat
            /\ events[i].seq \in Nat /\ events[i].seq <= cursor
            /\ \A j \in Logged : j < i <=> events[j].seq <= events[i].seq
        BY <1>7, <2>1, <2>7, <3>1
      <4>2. cursor' >= cursor
        BY <1>1, <1>2
      <4>3. ASSUME NEW j \in Logged'
            PROVE  j < i <=> events'[j].seq <= events'[i].seq
        <5>1. CASE j \in Logged
          BY <2>3, <4>1, <5>1
        <5>2. CASE j \notin Logged
          <6>1. j = n /\ events'[j].seq = cursor + 1
            BY <1>3, <1>5, <1>7, <1>8, <2>2, <5>2
          <6> QED
            BY <1>1, <4>1, <6>1
        <5> QED
          BY <5>1, <5>2
      <4> QED
        BY <1>1, <1>4, <4>1, <4>2, <4>3
    <3>2. CASE i \notin DOMAIN events
      <4>1. i = n /\ kind = "idle" /\ events'[i].seq = cursor /\ cursor' = cursor
        BY <1>3, <1>5, <1>6, <1>7, <1>8, <2>7, <3>2
      <4>2. ASSUME NEW j \in Logged'
            PROVE  j < i /\ events'[j].seq <= events'[i].seq
        <5>1. j \in Logged
          BY <2>2, <4>1
        <5> QED
          BY <1>1, <2>3, <4>1, <5>1
      <4> QED
        BY <1>1, <4>1, <4>2
    <3> QED
      BY <3>1, <3>2
  <2> QED
    BY <2>4, <2>5, <2>6, <2>7 DEF TimelineIsTheLog
<1>9. TimelineIsTheLog'
  BY <1>8 DEF TimelineIsTheLog
<1> QED
  BY <1>4, <1>6, <1>9

\* The frames of a stream: it goes on from where the timeline ends, or has ended.
LEMMA FrameStep ==
    ASSUME StoreIInv, SendEvent \/ SendIdle \/ SendError
    PROVE  StoreIInv'
<1>1. StoreTypeOK /\ CallsInv /\ ViewsInv /\ StreamInv /\ TimelineIsTheLog /\ FreshInv
  BY DEF StoreIInv
<1>2. stream \in Stream /\ Live /\ cursor \in Nat /\ acts \in 0 .. MaxActs
  BY <1>1, TypeParts DEF SendEvent, SendIdle, SendError, AllSent, Live, StoreTypeOK
<1>3. UNCHANGED <<server, calls, session, busy, wanted, strayed, newest, lost>>
  BY DEF SendEvent, SendIdle, SendError, history
<1>4. acts' \in 0 .. MaxActs
  BY <1>2, StoreAssumption DEF SendEvent, SendIdle, SendError, Counted
<1>5. stream.at \in Nat /\ stream.id \in Sessions /\ Exists(stream.id)
  BY <1>1, <1>2 DEF Stream, StreamInv
<1>6. /\ events' \in Seq(Entry) /\ cursor' \in Nat /\ TimelineIsTheLog'
      /\ stream' \in Stream /\ Live' /\ stream'.id = stream.id
      /\ ~strayed => stream'.at = cursor'
  <2>1. CASE SendEvent
    <3>1. /\ onEvent("event", stream.at + 1) /\ stream.at + 1 \in Nat
          /\ stream' = [stream EXCEPT !.at = stream.at + 1] /\ stream.stage = "send"
      BY <1>5, <2>1 DEF SendEvent
    <3>2. /\ events' \in Seq(Entry) /\ cursor' \in Nat /\ TimelineIsTheLog'
          /\ ~strayed => cursor' = stream.at + 1
      BY <1>1, <1>2, <1>3, <3>1, FrameKeeps
    <3> QED
      BY <1>2, <3>1, <3>2 DEF Stream, Live
  <2>2. CASE SendIdle
    <3>1. /\ onEvent("idle", stream.at)
          /\ stream' = [stream EXCEPT !.stage = "ending"]
      BY <2>2 DEF SendIdle
    <3>2. /\ events' \in Seq(Entry) /\ cursor' \in Nat /\ TimelineIsTheLog'
          /\ ~strayed => cursor' = cursor
      BY <1>1, <1>2, <1>3, <1>5, <3>1, FrameKeeps
    <3> QED
      BY <1>1, <1>2, <3>1, <3>2 DEF Stream, Live, StreamInv
  <2>3. CASE SendError
    <3>1. /\ onEvent("error", 0) /\ 0 \in Nat
          /\ stream' = [stream EXCEPT !.stage = "ending"]
      BY <2>3 DEF SendError
    <3>2. /\ events' \in Seq(Entry) /\ cursor' \in Nat /\ TimelineIsTheLog'
          /\ ~strayed => cursor' = cursor
      BY <1>1, <1>2, <1>3, <3>1, FrameKeeps
    <3> QED
      BY <1>1, <1>2, <3>1, <3>2 DEF Stream, Live, StreamInv
  <2> QED
    BY <2>1, <2>2, <2>3
<1>7. StoreTypeOK'
  BY <1>1, <1>3, <1>4, <1>6 DEF StoreTypeOK
<1>8. Grows
  BY <1>1, <1>3, Still
<1>9. CallsInv' /\ ViewsInv'
  BY <1>1, <1>3, <1>8, ViewsKept
<1>10. StreamInv'
  BY <1>1, <1>2, <1>3, <1>5, <1>6 DEF StreamInv, Shown, Exists
<1>11. Opening => Opening'
  BY <1>3 DEF Opening, Positions
<1>12. Fresh'
  BY <1>6 DEF Fresh
<1>13. FreshInv'
  BY <1>1, <1>3, <1>11, <1>12, FreshKept
<1> QED
  BY <1>6, <1>7, <1>9, <1>10, <1>13 DEF StoreIInv

\* A step that asks for something keeps what does not depend on the answer.
LEMMA AskKeeps ==
    ASSUME StoreTypeOK, CallsInv, ViewsInv, NEW c \in Call, calls' = Append(calls, c),
           UNCHANGED server, CallOf(c), c.view = NoView
    PROVE  /\ calls' \in Seq(Call) /\ Grows
           /\ CallsInv' /\ \A j \in Positions' : Genuine(calls[j].view)'
           /\ UNCHANGED <<session, newest>> => ViewsInv'
           /\ Opening => Opening'
           /\ c.then = "act" /\ c.op \in {"create", "get"} => Opening'
           /\ UNCHANGED session => (Fetching => Fetching') /\ (Arriving => Arriving')
           /\ c.op = "get" /\ c.id = session'.id /\ c.status = "sent" => Fetching'
<1>1. calls \in Seq(Call)
  BY TypeParts
<1>2. /\ calls' \in Seq(Call)
      /\ \A i \in DOMAIN calls : i \in DOMAIN calls' /\ calls'[i] = calls[i]
      /\ \A j \in DOMAIN calls' : (j \in DOMAIN calls /\ calls'[j] = calls[j])
                                   \/ calls'[j] = c
      /\ \E j \in DOMAIN calls' : calls'[j] = c
  BY <1>1, Appended
<1>3. Grows
  BY Still
<1>4. \A j \in DOMAIN calls' : calls'[j] = c => CallOf(calls[j])' /\ Genuine(calls[j].view)'
  BY DEF CallOf, Exists, Genuine
<1>5. \A j \in DOMAIN calls' : \/ \E k \in DOMAIN calls : calls'[j] = calls[k]
                               \/ CallOf(calls[j])' /\ Genuine(calls[j].view)'
  BY <1>2, <1>4
<1>6. CallsInv' /\ \A j \in Positions' : Genuine(calls[j].view)'
  BY <1>3, <1>5, CallsKept
<1>7. UNCHANGED <<session, newest>> => ViewsInv'
  BY <1>3, <1>5, ViewsKept
<1>8. /\ Opening => Opening'
      /\ c.then = "act" /\ c.op \in {"create", "get"} => Opening'
  BY <1>2 DEF Opening, Positions
<1>9. /\ UNCHANGED session => (Fetching => Fetching') /\ (Arriving => Arriving')
      /\ c.op = "get" /\ c.id = session'.id /\ c.status = "sent" => Fetching'
  BY <1>2 DEF Fetching, Arriving, Positions
<1> QED
  BY <1>2, <1>3, <1>6, <1>7, <1>8, <1>9

\* When the stream has ended, a fetch is under way.
LEMMA EndStep ==
    ASSUME StoreIInv, StreamEnds
    PROVE  StoreIInv'
<1>1. StoreTypeOK /\ CallsInv /\ ViewsInv /\ StreamInv /\ TimelineIsTheLog /\ FreshInv
  BY DEF StoreIInv
<1> DEFINE c == Fetch(stream.id)
<1>2. /\ UNCHANGED <<server, session, events, cursor, busy, wanted, strayed, newest, acts>>
      /\ calls' = Append(calls, c) /\ stream' = NoStream
      /\ Live /\ lost' \in {lost, TRUE}
  BY DEF StreamEnds, Live, store
<1>3. stream.id \in Sessions /\ Exists(stream.id)
  BY <1>1, <1>2 DEF StreamInv
<1>4. /\ c \in Call /\ c.op = "get" /\ c.id = stream.id /\ c.then = "refetch"
      /\ c.status = "sent" /\ c.view = NoView
  BY <1>3, RequestTyped DEF Fetch, Operations
<1> HIDE DEF c
<1>5. CallOf(c)
  BY <1>3, <1>4 DEF CallOf
<1>6. /\ calls' \in Seq(Call) /\ CallsInv' /\ ViewsInv' /\ (Opening => Opening')
      /\ c.id = session'.id => Fetching'
  BY <1>1, <1>2, <1>4, <1>5, AskKeeps
<1>7. StoreTypeOK'
  BY <1>1, <1>2, <1>6, Names DEF StoreTypeOK
<1>8. ~Live'
  BY <1>2, Names DEF Live
<1>9. StreamInv' /\ TimelineIsTheLog'
  BY <1>1, <1>2, <1>8 DEF StreamInv, TimelineIsTheLog, Logged, Shown
<1>10. ~strayed /\ session.id = wanted => Fresh'
  BY <1>1, <1>2, <1>4, <1>6 DEF StreamInv, Fresh
<1>11. lost => lost'
  BY <1>2
<1>12. FreshInv'
  BY <1>1, <1>2, <1>6, <1>10, <1>11, FreshKept
<1> QED
  BY <1>6, <1>7, <1>9, <1>12 DEF StoreIInv

LEMMA DropStep ==
    ASSUME StoreIInv, StreamDrops
    PROVE  StoreIInv'
<1>1. StoreTypeOK /\ CallsInv /\ ViewsInv /\ StreamInv /\ TimelineIsTheLog /\ FreshInv
  BY DEF StoreIInv
<1>2. /\ UNCHANGED <<server, calls, session, events, cursor, busy, wanted, strayed, newest,
                     acts>>
      /\ stream' = NoStream /\ lost' = TRUE
  BY DEF StreamDrops, store
<1>3. StoreTypeOK'
  BY <1>1, <1>2, Names DEF StoreTypeOK
<1>4. Grows
  BY <1>1, <1>2, Still
<1>5. CallsInv' /\ ViewsInv'
  BY <1>1, <1>2, <1>4, ViewsKept
<1>6. ~Live'
  BY <1>2, Names DEF Live
<1>7. StreamInv' /\ TimelineIsTheLog' /\ FreshInv'
  BY <1>1, <1>2, <1>6 DEF StreamInv, TimelineIsTheLog, Logged, Shown, FreshInv
<1> QED
  BY <1>3, <1>5, <1>7 DEF StoreIInv
-----------------------------------------------------------------------------
(* Answers.                                                                *)

LEMMA FollowTyped ==
    ASSUME NEW id \in Sessions, NEW from \in Nat, Follow(id, from)
    PROVE  /\ stream' \in Stream /\ Live'
           /\ stream'.id = id /\ stream'.at = from
<1>1. /\ NoStream \in Stream
      /\ stream' = [NoStream EXCEPT !.stage = "opening", !.id = id, !.at = from]
  BY Names DEF Follow
<1> QED
  BY <1>1 DEF Stream, Live

\* Taking a view out of an answer and showing it.
LEMMA AdoptKeeps ==
    ASSUME StoreIInv, NEW i \in DOMAIN calls, calls[i].status = "ok",
           adopt(calls[i].view), calls' = Without(i), UNCHANGED <<server, events, cursor>>
    PROVE  /\ calls[i].view \in View /\ calls[i].view.id \in Sessions
           /\ Exists(calls[i].view.id) /\ Genuine(calls[i].view)
           /\ session' = calls[i].view /\ Shown'
           /\ wanted' \in Sessions \cup {"none"} /\ strayed' \in BOOLEAN /\ newest' \in Nat
           /\ calls' \in Seq(Call) /\ CallsInv' /\ ViewsInv' /\ TimelineIsTheLog'
           /\ ~strayed' => ~strayed /\ wanted' = calls[i].view.id
<1> DEFINE v == calls[i].view
<1>1. StoreTypeOK /\ CallsInv /\ ViewsInv /\ StreamInv /\ TimelineIsTheLog
  BY DEF StoreIInv
<1>2. /\ calls \in Seq(Call) /\ v \in View \cup {NoView} /\ server \in [Sessions -> ServerSession]
      /\ wanted \in Sessions \cup {"new", "none"} /\ strayed \in BOOLEAN /\ newest \in Nat
      /\ events \in Seq(Entry) /\ cursor \in Nat
      /\ session \in View \cup {NoView}
  BY <1>1, TypeParts
<1>3. CallOf(calls[i]) /\ Genuine(v)
  BY <1>1 DEF CallsInv, ViewsInv, Positions
<1>4. v \in View /\ v # NoView
  BY <1>2, <1>3 DEF CallOf
<1>5. v.id \in Sessions /\ v.log \in Nat
  BY <1>4 DEF View
<1>6. Exists(v.id) /\ v.log <= server[v.id].log
  BY <1>3, <1>4 DEF Genuine
<1>7. /\ session' = v
      /\ wanted' = IF wanted = "new" THEN v.id ELSE wanted
      /\ strayed' = (strayed \/ wanted \notin {v.id, "new"})
      /\ newest' = IF session.id # v.id \/ v.log > newest THEN v.log ELSE newest
  BY DEF adopt
<1> HIDE DEF v
<1>8. /\ Shown' /\ wanted' \in Sessions \cup {"none"} /\ strayed' \in BOOLEAN /\ newest' \in Nat
      /\ ~strayed' => ~strayed /\ wanted' = v.id /\ wanted \in {v.id, "new"}
  BY <1>2, <1>4, <1>5, <1>7 DEF Shown
<1>9. /\ calls' \in Seq(Call)
      /\ \A j \in DOMAIN calls' : \E k \in DOMAIN calls : calls'[j] = calls[k]
  BY <1>2, Removed
<1>10. Grows
  BY <1>1, Still
<1>11. CallsInv' /\ \A j \in Positions' : Genuine(calls[j].view)'
  BY <1>1, <1>9, <1>10, CallsKept
<1>12. Genuine(session)'
  BY <1>3, <1>7 DEF Genuine, Exists
<1>13. newest' <= server'[session'.id].log
  <2>1. CASE session.id # v.id \/ v.log > newest
    BY <1>6, <1>7, <2>1
  <2>2. CASE session.id = v.id /\ ~(v.log > newest)
    <3>1. Shown
      BY <1>5, <2>2, Names DEF Shown
    <3> QED
      BY <1>1, <1>7, <2>2, <3>1 DEF ViewsInv
  <2> QED
    BY <2>1, <2>2
<1>14. ViewsInv'
  BY <1>11, <1>12, <1>13 DEF ViewsInv
<1>15. TimelineIsTheLog'
  <2> SUFFICES ASSUME ~strayed'
               PROVE  TimelineIsTheLog'
    BY DEF TimelineIsTheLog
  <2>1. CASE wanted = "new"
    <3>1. DOMAIN events' = {} /\ Logged' = {} /\ Logged = {}
      BY <1>1, <2>1 DEF StreamInv, Logged
    <3>2. cursor' = cursor /\ {events[k].seq : k \in Logged} = 1 .. cursor
      BY <1>1, <1>8 DEF TimelineIsTheLog
    <3> QED
      BY <3>1, <3>2 DEF TimelineIsTheLog
  <2>2. CASE wanted = v.id
    BY <1>1, <1>7, <1>8, <2>2 DEF TimelineIsTheLog, Logged
  <2> QED
    BY <1>8, <2>1, <2>2
<1> QED
  BY <1>3, <1>4, <1>5, <1>6, <1>7, <1>8, <1>9, <1>11, <1>14, <1>15 DEF v

\* A stream that follows what is shown, from where the timeline ends.
LEMMA FollowsShown ==
    ASSUME NEW id \in Sessions, Exists(id), cursor \in Nat, Follow(id, cursor),
           UNCHANGED <<server, cursor>>, ~strayed' => wanted' = id,
           wanted' \in Sessions \cup {"none"}, Shown'
    PROVE  StreamInv'
<1>1. Live' /\ stream'.id = id /\ stream'.at = cursor
  BY FollowTyped
<1> QED
  BY <1>1, Names DEF StreamInv, Exists

LEMMA ActStep ==
    ASSUME StoreIInv, NEW i \in DOMAIN calls, ActAnswered(i)
    PROVE  StoreIInv'
<1> DEFINE v == calls[i].view
<1>1. /\ StoreTypeOK
      /\ calls[i].status = "ok" /\ adopt(v) /\ Follow(v.id, cursor) /\ busy' = FALSE
      /\ lost' = FALSE /\ calls' = Without(i) /\ UNCHANGED <<server, events, cursor, acts>>
  BY DEF ActAnswered, StoreIInv
<1>2. /\ v \in View /\ v.id \in Sessions /\ Exists(v.id) /\ session' = v /\ Shown'
      /\ wanted' \in Sessions \cup {"none"} /\ strayed' \in BOOLEAN /\ newest' \in Nat
      /\ calls' \in Seq(Call) /\ CallsInv' /\ ViewsInv' /\ TimelineIsTheLog'
      /\ ~strayed' => wanted' = v.id
  BY <1>1, AdoptKeeps
<1> HIDE DEF v
<1>3. cursor \in Nat
  BY <1>1, TypeParts
<1>4. stream' \in Stream /\ Live'
  BY <1>1, <1>2, <1>3, FollowTyped
<1>5. StreamInv'
  BY <1>1, <1>2, <1>3, FollowsShown
<1>6. StoreTypeOK'
  BY <1>1, <1>2, <1>4 DEF StoreTypeOK
<1>7. FreshInv'
  BY <1>2, <1>4 DEF FreshInv, Fresh
<1> QED
  BY <1>2, <1>5, <1>6, <1>7 DEF StoreIInv

\* The latest view is shown, or what made it stale is still on its way.
LEMMA RefetchedStep ==
    ASSUME StoreIInv, NEW i \in DOMAIN calls, Refetched(i)
    PROVE  StoreIInv'
<1> DEFINE v == calls[i].view
<1>1. StoreTypeOK /\ CallsInv /\ ViewsInv /\ StreamInv /\ FreshInv
  BY DEF StoreIInv
<1>2. /\ calls[i].then = "refetch" /\ calls[i].status = "ok" /\ adopt(v)
      /\ IF v.state \in Settled THEN UNCHANGED stream ELSE Follow(v.id, cursor)
      /\ calls' = Without(i) /\ UNCHANGED <<server, events, cursor, busy, lost, acts>>
  BY DEF Refetched
<1>3. /\ v \in View /\ v.id \in Sessions /\ Exists(v.id) /\ Genuine(v) /\ session' = v /\ Shown'
      /\ wanted' \in Sessions \cup {"none"} /\ strayed' \in BOOLEAN /\ newest' \in Nat
      /\ calls' \in Seq(Call) /\ CallsInv' /\ ViewsInv' /\ TimelineIsTheLog'
      /\ ~strayed' => ~strayed /\ wanted' = v.id
  BY <1>2, AdoptKeeps
<1>4. /\ wanted' = IF wanted = "new" THEN v.id ELSE wanted
      /\ strayed' = (strayed \/ wanted \notin {v.id, "new"})
      /\ newest' = IF session.id # v.id \/ v.log > newest THEN v.log ELSE newest
  BY <1>2 DEF adopt
<1>5. /\ cursor \in Nat /\ stream \in Stream /\ calls \in Seq(Call) /\ newest \in Nat
      /\ server \in [Sessions -> ServerSession]
  BY <1>1, TypeParts
<1>6. v.log \in Nat /\ server[v.id].log \in Nat /\ v.log <= server[v.id].log
  <2>1. v.log \in Nat /\ server[v.id].log \in Nat /\ v # NoView
    BY <1>3, <1>5, Names DEF View, ServerSession
  <2> QED
    BY <1>3, <2>1 DEF Genuine
<1>7. CASE v.state \notin Settled
  <2>1. Follow(v.id, cursor)
    BY <1>2, <1>7
  <2> HIDE DEF v
  <2>2. stream' \in Stream /\ Live'
    BY <1>3, <1>5, <2>1, FollowTyped
  <2>3. StreamInv'
    BY <1>2, <1>3, <1>5, <2>1, FollowsShown
  <2>4. StoreTypeOK'
    BY <1>1, <1>2, <1>3, <2>2 DEF StoreTypeOK
  <2>5. FreshInv'
    BY <1>3, <2>2 DEF FreshInv, Fresh
  <2> QED
    BY <1>3, <2>3, <2>4, <2>5 DEF StoreIInv
<1>8. CASE v.state \in Settled
  <2>1. UNCHANGED stream
    BY <1>2, <1>8
  <2>2. \A k \in DOMAIN calls \ {i} : \E j \in DOMAIN calls' : calls'[j] = calls[k]
    BY <1>2, <1>5, Removed
  <2>3. Opening => Opening'
    <3> SUFFICES ASSUME NEW k \in DOMAIN calls,
                        calls[k].then = "act", calls[k].op \in {"create", "get"}
                 PROVE  Opening'
      BY DEF Opening, Positions
    <3>1. PICK j \in DOMAIN calls' : calls'[j] = calls[k]
      BY <1>2, <2>2
    <3> QED
      BY <3>1 DEF Opening, Positions
  <2>4. calls[i].status = "ok" /\ v = calls[i].view
    BY <1>2
  <2> HIDE DEF v
  <2>5. StreamInv'
    <3>1. Live => wanted # "new"
      BY <1>1 DEF StreamInv
    <3>2. Live /\ ~strayed' => stream.id = wanted' /\ stream.at = cursor
      BY <1>1, <1>3, <1>4, <3>1 DEF StreamInv
    <3>3. Live => stream.id \in Sessions /\ Exists(stream.id)
      BY <1>1 DEF StreamInv
    <3>4. wanted' # "new" /\ (~strayed' => wanted' # "none")
      BY <1>3, Names
    <3> QED
      BY <1>2, <2>1, <3>2, <3>3, <3>4 DEF StreamInv, Live, Exists
  <2>6. StoreTypeOK'
    BY <1>1, <1>2, <1>3, <2>1 DEF StoreTypeOK
  <2>7. FreshInv'
    <3> SUFFICES ASSUME ~strayed', ~lost', ~Opening'
                 PROVE  Fresh'
      BY <1>3 DEF FreshInv
    <3>1. /\ ~strayed /\ ~lost /\ ~Opening /\ wanted' = v.id /\ wanted \in {v.id, "new"}
          /\ wanted # "none"
      BY <1>2, <1>3, <1>4, <2>3, Names
    <3>2. Shown /\ session.id = wanted /\ Fresh
      BY <1>1, <3>1 DEF FreshInv
    <3>3. session.id = v.id /\ newest <= server[v.id].log
      <4>1. wanted # "new"
        BY <1>1, <3>2 DEF StreamInv
      <4> QED
        BY <1>1, <3>1, <3>2, <4>1 DEF ViewsInv
    <3>4. newest' = IF v.log > newest THEN v.log ELSE newest
      BY <1>4, <3>3
    <3>5. CASE server[session.id].log = newest
      <4>1. server'[session'.id].log = newest'
        BY <1>2, <1>3, <1>5, <1>6, <3>3, <3>4, <3>5
      <4> QED
        BY <4>1 DEF Fresh
    <3>6. CASE Live
      BY <2>1, <3>6 DEF Fresh, Live
    <3>7. CASE Fetching
      <4>1. PICK k \in DOMAIN calls : /\ calls[k].op = "get" /\ calls[k].id = session.id
                                      /\ calls[k].status = "sent"
        BY <3>7 DEF Fetching, Positions
      <4>2. PICK j \in DOMAIN calls' : calls'[j] = calls[k]
        BY <2>2, <2>4, <4>1
      <4>3. Fetching'
        BY <1>3, <3>3, <4>1, <4>2 DEF Fetching, Positions
      <4> QED
        BY <4>3 DEF Fresh
    <3>8. CASE Arriving
      <4>1. PICK k \in DOMAIN calls :
              /\ calls[k].status = "ok" /\ calls[k].view.id = session.id
              /\ calls[k].view.log = server[session.id].log
        BY <3>8 DEF Arriving, Positions
      <4>2. CASE k # i
        <5>1. PICK j \in DOMAIN calls' : calls'[j] = calls[k]
          BY <2>2, <4>2
        <5>2. Arriving'
          BY <1>2, <1>3, <3>3, <4>1, <5>1 DEF Arriving, Positions
        <5> QED
          BY <5>2 DEF Fresh
      <4>3. CASE k = i
        <5>1. v.log = server[v.id].log
          BY <2>4, <3>3, <4>1, <4>3
        <5>2. server'[session'.id].log = newest'
          BY <1>2, <1>3, <1>5, <1>6, <3>3, <3>4, <5>1
        <5> QED
          BY <5>2 DEF Fresh
      <4> QED
        BY <4>2, <4>3
    <3> QED
      BY <3>2, <3>5, <3>6, <3>7, <3>8 DEF Fresh
  <2> QED
    BY <1>3, <2>5, <2>6, <2>7 DEF StoreIInv
<1> QED
  BY <1>7, <1>8

\* A refusal takes nothing with it that was to come.
LEMMA FailedStep ==
    ASSUME StoreIInv, NEW i \in DOMAIN calls, Failed(i)
    PROVE  StoreIInv'
<1>1. StoreTypeOK /\ CallsInv /\ ViewsInv /\ StreamInv /\ TimelineIsTheLog /\ FreshInv
  BY DEF StoreIInv
<1>2. /\ UNCHANGED <<server, stream, session, events, cursor, wanted, strayed, newest, acts>>
      /\ (calls[i].status = "refused" /\ lost' = lost) \/ lost' = TRUE
      /\ busy' \in {FALSE, busy} /\ calls' = Without(i)
  BY DEF Failed
<1>3. calls \in Seq(Call) /\ busy \in BOOLEAN /\ lost \in BOOLEAN
  BY <1>1, TypeParts
<1>4. /\ calls' \in Seq(Call)
      /\ \A j \in DOMAIN calls' : \E k \in DOMAIN calls : calls'[j] = calls[k]
      /\ \A k \in DOMAIN calls \ {i} : \E j \in DOMAIN calls' : calls'[j] = calls[k]
  BY <1>2, <1>3, Removed
<1>5. Grows
  BY <1>1, <1>2, Still
<1>6. CallsInv' /\ ViewsInv'
  BY <1>1, <1>2, <1>4, <1>5, ViewsKept
<1>7. StreamInv' /\ TimelineIsTheLog'
  BY <1>1, <1>2 DEF StreamInv, TimelineIsTheLog, Logged, Shown, Live, Exists
<1>8. StoreTypeOK'
  BY <1>1, <1>2, <1>3, <1>4 DEF StoreTypeOK
<1>9. CASE lost' = TRUE
  BY <1>6, <1>7, <1>8, <1>9 DEF StoreIInv, FreshInv
<1>10. CASE calls[i].status = "refused" /\ lost' = lost
  <2>1. CallOf(calls[i])
    BY <1>1 DEF CallsInv, Positions
  <2>2. calls[i].op \notin {"create", "get"}
    BY <1>10, <2>1 DEF CallOf
  <2>3. Opening => Opening'
    <3> SUFFICES ASSUME NEW k \in DOMAIN calls,
                        calls[k].then = "act", calls[k].op \in {"create", "get"}
                 PROVE  Opening'
      BY DEF Opening, Positions
    <3>1. PICK j \in DOMAIN calls' : calls'[j] = calls[k]
      BY <1>4, <2>2
    <3> QED
      BY <3>1 DEF Opening, Positions
  <2>4. Fetching => Fetching'
    <3> SUFFICES ASSUME NEW k \in DOMAIN calls, calls[k].op = "get",
                        calls[k].id = session.id, calls[k].status = "sent"
                 PROVE  Fetching'
      BY DEF Fetching, Positions
    <3>1. PICK j \in DOMAIN calls' : calls'[j] = calls[k]
      BY <1>4, <2>2
    <3> QED
      BY <1>2, <3>1 DEF Fetching, Positions
  <2>5. Arriving => Arriving'
    <3> SUFFICES ASSUME NEW k \in DOMAIN calls, calls[k].status = "ok",
                        calls[k].view.id = session.id,
                        calls[k].view.log = server[session.id].log
                 PROVE  Arriving'
      BY DEF Arriving, Positions
    <3>1. PICK j \in DOMAIN calls' : calls'[j] = calls[k]
      BY <1>4, <1>10
    <3> QED
      BY <1>2, <3>1 DEF Arriving, Positions
  <2>6. Fresh => Fresh'
    BY <1>2, <2>4, <2>5 DEF Fresh, Live
  <2>7. FreshInv'
    BY <1>1, <1>2, <1>10, <2>3, <2>6, FreshKept
  <2> QED
    BY <1>6, <1>7, <1>8, <2>7 DEF StoreIInv
<1> QED
  BY <1>2, <1>9, <1>10
-----------------------------------------------------------------------------
(* The user's steps.                                                       *)

\* Another session: the timeline starts anew and the stream is gone.
LEMMA TurnKeeps ==
    ASSUME NEW id \in Sessions \cup {"new", "none"}, Turn(id)
    PROVE  /\ stream' \in Stream /\ ~Live'
           /\ events' \in Seq(Entry) /\ cursor' \in Nat
           /\ events' = << >> /\ wanted' = id /\ ~strayed' /\ ~lost'
           /\ wanted' \in Sessions \cup {"new", "none"}
           /\ strayed' \in BOOLEAN /\ lost' \in BOOLEAN
           /\ TimelineIsTheLog'
<1>1. /\ stream' = NoStream /\ events' = << >> /\ cursor' = 0 /\ wanted' = id
      /\ strayed' = FALSE /\ lost' = FALSE
  BY DEF Turn, Abort
<1>2. TimelineIsTheLog'
  <2>1. DOMAIN events' = {} /\ Logged' = {} /\ 1 .. cursor' = {}
    BY <1>1 DEF Logged
  <2> QED
    BY <2>1 DEF TimelineIsTheLog
<1>3. ~strayed' /\ ~lost' /\ strayed' \in BOOLEAN /\ lost' \in BOOLEAN
  BY <1>1
<1>4. stream' \in Stream /\ ~Live'
  BY <1>1, Names DEF Live
<1>5. events' \in Seq(Entry) /\ cursor' \in Nat
  BY <1>1
<1> QED
  BY <1>1, <1>2, <1>3, <1>4, <1>5

LEMMA ActsTyped ==
    ASSUME acts \in 0 .. MaxActs, UserActs
    PROVE  acts' \in 0 .. MaxActs /\ UNCHANGED server
  BY StoreAssumption DEF UserActs, Counted

LEMMA StartStep ==
    ASSUME StoreIInv, start
    PROVE  StoreIInv'
<1>1. StoreTypeOK /\ CallsInv /\ ViewsInv
  BY DEF StoreIInv
<1> DEFINE c == Request("create", "new", 0, "act")
<1>2. /\ Turn("new") /\ session' = NoView /\ newest' = 0 /\ busy' = TRUE
      /\ calls' = Append(calls, c)
  BY DEF start
<1>3. acts' \in 0 .. MaxActs /\ UNCHANGED server
  BY <1>1, ActsTyped DEF start, StoreTypeOK
<1>4. /\ c \in Call /\ c.op = "create" /\ c.id = "new" /\ c.then = "act"
      /\ c.status = "sent" /\ c.view = NoView
  BY RequestTyped DEF Operations
<1> HIDE DEF c
<1>5. CallOf(c)
  BY <1>4 DEF CallOf
<1>6. calls' \in Seq(Call) /\ CallsInv' /\ Opening' /\ \A j \in Positions' : Genuine(calls[j].view)'
  BY <1>1, <1>2, <1>3, <1>4, <1>5, AskKeeps
<1>7. ~Shown' /\ Genuine(session)'
  BY <1>2 DEF Shown, Genuine
<1>8. ViewsInv'
  BY <1>6, <1>7 DEF ViewsInv
<1>9. /\ stream' \in Stream /\ ~Live'
      /\ events' \in Seq(Entry) /\ cursor' \in Nat
      /\ events' = << >> /\ ~strayed' /\ wanted' \in Sessions \cup {"new", "none"}
      /\ strayed' \in BOOLEAN /\ lost' \in BOOLEAN /\ TimelineIsTheLog'
  BY <1>2, TurnKeeps
<1>10. StoreTypeOK'
  BY <1>1, <1>2, <1>3, <1>6, <1>9 DEF StoreTypeOK
<1>11. StreamInv'
  BY <1>7, <1>9 DEF StreamInv
<1>12. FreshInv'
  BY <1>6 DEF FreshInv
<1> QED
  BY <1>6, <1>8, <1>9, <1>10, <1>11, <1>12 DEF StoreIInv

LEMMA OpenStep ==
    ASSUME StoreIInv, NEW id \in Sessions, open(id)
    PROVE  StoreIInv'
<1>1. StoreTypeOK /\ CallsInv /\ ViewsInv
  BY DEF StoreIInv
<1> DEFINE c == Request("get", id, 0, "act")
<1>2. /\ Turn(id) /\ busy' = FALSE /\ calls' = Append(calls, c)
      /\ UNCHANGED <<session, newest>> /\ Exists(id)
  BY DEF open
<1>3. acts' \in 0 .. MaxActs /\ UNCHANGED server
  BY <1>1, ActsTyped DEF open, StoreTypeOK
<1>4. /\ c \in Call /\ c.op = "get" /\ c.id = id /\ c.then = "act"
      /\ c.status = "sent" /\ c.view = NoView
  BY RequestTyped DEF Operations
<1> HIDE DEF c
<1>5. CallOf(c)
  BY <1>2, <1>4 DEF CallOf
<1>6. calls' \in Seq(Call) /\ CallsInv' /\ Opening' /\ ViewsInv'
  BY <1>1, <1>2, <1>3, <1>4, <1>5, AskKeeps
<1>7. /\ stream' \in Stream /\ ~Live'
      /\ events' \in Seq(Entry) /\ cursor' \in Nat
      /\ events' = << >> /\ ~strayed' /\ wanted' = id
      /\ wanted' \in Sessions \cup {"new", "none"}
      /\ strayed' \in BOOLEAN /\ lost' \in BOOLEAN /\ TimelineIsTheLog'
  BY <1>2, TurnKeeps
<1>8. StoreTypeOK'
  BY <1>1, <1>2, <1>3, <1>6, <1>7 DEF StoreTypeOK
<1>9. StreamInv'
  BY <1>7, Names DEF StreamInv
<1>10. FreshInv'
  BY <1>6 DEF FreshInv
<1> QED
  BY <1>6, <1>7, <1>8, <1>9, <1>10 DEF StoreIInv

LEMMA CloseStep ==
    ASSUME StoreIInv, close
    PROVE  StoreIInv'
<1>1. StoreTypeOK /\ CallsInv /\ ViewsInv
  BY DEF StoreIInv
<1>2. /\ Turn("none") /\ session' = NoView /\ newest' = 0 /\ busy' = FALSE
      /\ UNCHANGED calls
  BY DEF close
<1>3. acts' \in 0 .. MaxActs /\ UNCHANGED server
  BY <1>1, ActsTyped DEF close, StoreTypeOK
<1>4. Grows
  BY <1>1, <1>3, Still
<1>5. CallsInv' /\ \A j \in Positions' : Genuine(calls[j].view)'
  BY <1>1, <1>2, <1>4, CallsKept
<1>6. ~Shown' /\ Genuine(session)'
  BY <1>2 DEF Shown, Genuine
<1>7. ViewsInv'
  BY <1>5, <1>6 DEF ViewsInv
<1>8. /\ stream' \in Stream /\ ~Live'
      /\ events' \in Seq(Entry) /\ cursor' \in Nat
      /\ wanted' = "none" /\ ~strayed' /\ wanted' \in Sessions \cup {"new", "none"}
      /\ strayed' \in BOOLEAN /\ lost' \in BOOLEAN /\ TimelineIsTheLog'
  BY <1>2, TurnKeeps
<1>9. StoreTypeOK'
  BY <1>1, <1>2, <1>3, <1>8 DEF StoreTypeOK
<1>10. StreamInv' /\ FreshInv'
  BY <1>6, <1>8 DEF StreamInv, FreshInv
<1> QED
  BY <1>5, <1>7, <1>8, <1>9, <1>10 DEF StoreIInv

\* A request of the session shown.
LEMMA AskStep ==
    ASSUME StoreIInv, UserActs, Shown, NEW op \in Operations \ {"create", "get"},
           NEW number \in Nat, Act(op, number)
    PROVE  StoreIInv'
<1>1. StoreTypeOK /\ CallsInv /\ ViewsInv /\ StreamInv /\ TimelineIsTheLog /\ FreshInv
  BY DEF StoreIInv
<1>2. session.id \in Sessions /\ Exists(session.id)
  BY <1>1, TypeParts DEF ViewsInv, Genuine, Shown
<1> DEFINE c == Request(op, session.id, number, "act")
<1>3. /\ calls' = Append(calls, c) /\ busy' \in BOOLEAN
      /\ UNCHANGED <<stream, session, events, cursor, wanted, strayed, newest, lost>>
  BY DEF Act, history
<1>4. acts' \in 0 .. MaxActs /\ UNCHANGED server
  BY <1>1, ActsTyped DEF StoreTypeOK
<1>5. /\ c \in Call /\ c.op = op /\ c.id = session.id /\ c.then = "act"
      /\ c.status = "sent" /\ c.view = NoView
  BY <1>2, RequestTyped
<1> HIDE DEF c
<1>6. CallOf(c)
  BY <1>2, <1>5 DEF CallOf
<1>7. /\ calls' \in Seq(Call) /\ CallsInv' /\ ViewsInv' /\ (Opening => Opening')
      /\ (Fetching => Fetching') /\ (Arriving => Arriving')
  BY <1>1, <1>3, <1>4, <1>5, <1>6, AskKeeps
<1>8. StoreTypeOK'
  BY <1>1, <1>3, <1>4, <1>7 DEF StoreTypeOK
<1>9. StreamInv' /\ TimelineIsTheLog'
  BY <1>1, <1>3, <1>4 DEF StreamInv, TimelineIsTheLog, Logged, Live, Shown, Exists
<1>10. Fresh => Fresh'
  BY <1>3, <1>4, <1>7 DEF Fresh, Live
<1>11. FreshInv'
  BY <1>1, <1>3, <1>7, <1>10, FreshKept
<1> QED
  BY <1>7, <1>8, <1>9, <1>11 DEF StoreIInv

LEMMA UserStep ==
    ASSUME StoreIInv, User
    PROVE  StoreIInv'
<1>1. ASSUME NEW op \in Decisions, decide(op)
      PROVE  StoreIInv'
  <2> DEFINE number == IF op \in {"approve", "reject"} THEN session.number ELSE 0
  <2>1. UserActs /\ Shown /\ Act(op, number) /\ op \in Operations \ {"create", "get"}
    BY <1>1 DEF decide, Operations, Decisions
  <2>2. StoreTypeOK
    BY DEF StoreIInv
  <2>3. session \in View
    BY <2>1, <2>2, TypeParts
  <2>4. number \in Nat
    BY <2>3 DEF View
  <2> HIDE DEF number
  <2> QED
    BY <2>1, <2>4, AskStep
<1>2. CASE cancel
  <2>1. UserActs /\ Shown /\ Act("cancel", 0) /\ "cancel" \in Operations \ {"create", "get"}
        /\ 0 \in Nat
    BY <1>2 DEF cancel, Operations
  <2> QED
    BY <2>1, AskStep
<1> QED
  BY <1>1, <1>2, StartStep, OpenStep, CloseStep DEF User

-----------------------------------------------------------------------------
(* The invariant, and what follows from it.                                *)

LEMMA StoreInit == Init => StoreIInv
<1> SUFFICES ASSUME Init
             PROVE  StoreIInv
  OBVIOUS
<1>1. /\ calls = << >> /\ stream = NoStream /\ session = NoView /\ events = << >>
      /\ cursor = 0 /\ busy = FALSE /\ wanted = "none" /\ strayed = FALSE /\ newest = 0
      /\ lost = FALSE /\ acts = 0 /\ DOMAIN calls = {}
  BY DEF Init
<1>2. PICK s \in [Left -> {"awaiting_approval", "building"}] :
        server = [id \in Sessions |->
                    IF id \in Left
                    THEN [state |-> s[id], number |-> 1, log |-> 1, ready |-> FALSE]
                    ELSE Nowhere]
  BY DEF Init
<1>3. server \in [Sessions -> ServerSession]
  BY <1>2 DEF ServerSession, Nowhere, States
<1>4. /\ calls \in Seq(Call) /\ session \in View \cup {NoView}
      /\ events \in Seq(Entry)
      /\ wanted \in Sessions \cup {"new", "none"} /\ acts \in 0 .. MaxActs
  BY <1>1, StoreAssumption
<1>5. StoreTypeOK
  BY <1>1, <1>3, <1>4, Names DEF StoreTypeOK
<1>6. ~Live /\ ~Shown
  BY <1>1, Names DEF Live, Shown
<1>7. CallsInv /\ ViewsInv /\ StreamInv /\ FreshInv
  BY <1>1, <1>6 DEF CallsInv, ViewsInv, Genuine, StreamInv, FreshInv, Positions
<1>8. TimelineIsTheLog
  <2>1. DOMAIN events = {} /\ Logged = {} /\ 1 .. cursor = {}
    BY <1>1 DEF Logged
  <2> QED
    BY <2>1 DEF TimelineIsTheLog
<1> QED
  BY <1>5, <1>7, <1>8 DEF StoreIInv

LEMMA StoreStep ==
    ASSUME StoreIInv, [Next]_vars
    PROVE  StoreIInv'
<1>1. CASE Next
  <2>1. CASE User
    BY <2>1, UserStep
  <2>2. CASE Streaming
    BY <2>2, LookStep, ReadStep, FrameStep, EndStep DEF Streaming
  <2>3. ASSUME NEW i \in DOMAIN calls,
               Serve(i) \/ ActAnswered(i) \/ Refetched(i) \/ Failed(i)
        PROVE  StoreIInv'
    BY <2>3, ServeStep, ActStep, RefetchedStep, FailedStep
  <2> QED
    BY <1>1, <2>1, <2>2, <2>3, DropStep, BuilderStep DEF Next
<1>2. CASE UNCHANGED vars
  <2>1. UNCHANGED <<server, calls, stream, session, events, cursor, busy, wanted, strayed,
                    newest, lost, acts>>
    BY <1>2 DEF vars, store, history
  <2>2. StoreTypeOK'
    BY <2>1 DEF StoreIInv, StoreTypeOK
  <2>3. CallsInv' /\ ViewsInv' /\ StreamInv' /\ TimelineIsTheLog' /\ FreshInv'
    BY <2>1 DEF StoreIInv, CallsInv, CallOf, ViewsInv, Genuine, StreamInv,
                TimelineIsTheLog, Logged, FreshInv, Fresh, Fetching, Arriving, Opening, Positions,
                Live, Shown, Exists
  <2> QED
    BY <2>2, <2>3 DEF StoreIInv
<1> QED
  BY <1>1, <1>2

\* The inductive invariant of the store, its requests and its stream.
THEOREM StoreInvariant == Spec => []StoreIInv
  BY StoreInit, StoreStep, PTL DEF Spec

\* The store shows views of sessions, its timeline holds events of sessions, and
\* every request names a session or asks for a new one.
THEOREM StoreTypes == Spec => []StoreTypeOK
<1>1. StoreIInv => StoreTypeOK
  BY DEF StoreIInv
<1> QED
  BY <1>1, StoreInvariant, PTL

\* However streams drop, end and are opened again, and whichever answers come
\* late, the timeline repeats no event of the session the user is with and misses
\* none, unless an answer of another session was shown in between.
THEOREM TimelineIsFaithful == Spec => []TimelineIsTheLog
<1>1. StoreIInv => TimelineIsTheLog
  BY DEF StoreIInv
<1> QED
  BY <1>1, StoreInvariant, PTL

\* A store with nothing under way and nothing lost shows what the server has: the
\* fetch after a stream catches whatever the stream did not say.
THEOREM StoreAgrees == Spec => []AgreesWhenQuiet
<1>1. StoreIInv => AgreesWhenQuiet
  <2> SUFFICES ASSUME StoreIInv, calls = << >>, ~Live, Shown, ~strayed, ~lost,
                      session.log = newest
               PROVE  session = ViewOf(session.id, server[session.id])
    BY DEF AgreesWhenQuiet
  <2>1. DOMAIN calls = {} /\ wanted # "none"
    BY DEF StoreIInv, StreamInv
  <2>2. server[session.id].log = newest
    BY <2>1 DEF StoreIInv, FreshInv, Opening, Fresh, Fetching, Arriving, Positions
  <2> QED
    BY <2>2 DEF StoreIInv, ViewsInv, Genuine, Shown
<1> QED
  BY <1>1, StoreInvariant, PTL

=============================================================================
