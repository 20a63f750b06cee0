------------------------ MODULE DesignSessions_proofs ------------------------
(***************************************************************************)
(* TLAPS proofs about DesignSessions, for any number of requests, streams  *)
(* and crashes, overlapping transactions or not, local builder or not.     *)
(***************************************************************************)
EXTENDS DesignSessionsInv, FiniteSetTheorems, SequenceTheorems, TLAPS

-----------------------------------------------------------------------------
(* Numbers.                                                                *)

(* The largest number of an interval is its end.                           *)
LEMMA MaxOfInterval ==
    ASSUME NEW a \in Nat, NEW b \in Nat, a <= b
    PROVE  Max(a .. b) = b
<1>1. b \in a .. b /\ \A y \in a .. b : b >= y
  OBVIOUS
<1>2. \A x \in a .. b : (\A y \in a .. b : x >= y) => x = b
  BY <1>1
<1> QED
  BY <1>1, <1>2 DEF Max

(* If the numbers in a log are 1 .. n, then n is the one _emit finds last. *)
LEMMA LogEnd ==
    ASSUME NEW E, NEW n \in Nat, {e.seq : e \in E} = 1 .. n
    PROVE  (IF E = {} THEN 0 ELSE Max({e.seq : e \in E})) = n
<1>1. CASE E = {}
  BY <1>1
<1>2. CASE E # {}
  <2>1. n >= 1
    BY <1>2
  <2> QED
    BY <1>2, <2>1, MaxOfInterval
<1> QED
  BY <1>1, <1>2

(* Ascending turns a stretch of event numbers into the sequence of them.   *)
LEMMA AscendingInterval ==
    ASSUME NEW a \in Nat, NEW b \in Nat
    PROVE  /\ Ascending(a + 1 .. b) \in Seq(Nat)
           /\ Len(Ascending(a + 1 .. b)) = IF b > a THEN b - a ELSE 0
           /\ \A i \in DOMAIN Ascending(a + 1 .. b) :
                  Ascending(a + 1 .. b)[i] = a + i
<1> DEFINE S == a + 1 .. b
           size == IF b > a THEN b - a ELSE 0
<1>1. Cardinality(S) = size /\ size \in Nat
  BY FS_Interval
<1>2. ASSUME NEW i \in 1 .. size
      PROVE  (CHOOSE x \in S : Cardinality({y \in S : y <= x}) = i) = a + i
  <2>1. ASSUME NEW x \in S
        PROVE  Cardinality({y \in S : y <= x}) = x - a
    <3>1. x \in Int /\ a + 1 <= x
      OBVIOUS
    <3>2. {y \in S : y <= x} = a + 1 .. x
      BY <3>1
    <3>3. Cardinality(a + 1 .. x) = x - (a + 1) + 1
      BY <3>1, FS_Interval
    <3>4. x - (a + 1) + 1 = x - a
      BY <3>1
    <3> HIDE DEF S
    <3> QED
      BY <3>2, <3>3, <3>4, Zenon
  <2>2. a + i \in S
    BY <1>2
  <2>3. \A x \in S : Cardinality({y \in S : y <= x}) = i <=> x = a + i
    BY <2>1
  <2> HIDE DEF S
  <2> QED
    BY <2>2, <2>3
<1> HIDE DEF S, size
<1>3. Ascending(S) = [i \in 1 .. size |-> a + i]
  BY <1>1, <1>2 DEF Ascending
<1>4. Ascending(S) \in [1 .. size -> Nat]
  BY <1>1, <1>3
<1>5. Ascending(S) \in Seq(Nat)
  BY <1>1, <1>4, SeqDef
<1>6. Len(Ascending(S)) = size
  BY <1>1, <1>4, <1>5
<1>7. \A i \in DOMAIN Ascending(S) : Ascending(S)[i] = a + i
  BY <1>3
<1> QED
  BY <1>5, <1>6, <1>7 DEF S, size

(* A run from 1 to the end of f, continued by g to b, is the run to b.     *)
LEMMA RunContinues ==
    ASSUME NEW f \in Seq(Nat), NEW g \in Seq(Nat), NEW b \in Nat,
           Len(f) <= b, Len(g) = b - Len(f),
           \A i \in DOMAIN f : f[i] = i,
           \A i \in DOMAIN g : g[i] = Len(f) + i
    PROVE  /\ Len(f \o g) = b
           /\ \A i \in DOMAIN (f \o g) : (f \o g)[i] = i
<1>1. /\ DOMAIN f = 1 .. Len(f) /\ Len(f) \in Nat
      /\ DOMAIN g = 1 .. Len(g) /\ Len(g) \in Nat
  OBVIOUS
<1>2. /\ f \o g \in Seq(Nat)
      /\ Len(f \o g) = Len(f) + Len(g)
      /\ \A i \in 1 .. Len(f) + Len(g) :
             (f \o g)[i] = IF i <= Len(f) THEN f[i] ELSE g[i - Len(f)]
  BY ConcatProperties
<1> DEFINE fg == f \o g
<1> HIDE DEF fg
<1>3. fg \in Seq(Nat) /\ Len(fg) = b
  BY <1>1, <1>2 DEF fg
<1>4. ASSUME NEW i \in 1 .. b
      PROVE  fg[i] = i
  <2>1. fg[i] = IF i <= Len(f) THEN f[i] ELSE g[i - Len(f)]
    BY <1>1, <1>2 DEF fg
  <2>2. CASE i <= Len(f)
    BY <1>1, <2>1, <2>2
  <2>3. CASE i > Len(f)
    <3>1. i - Len(f) \in DOMAIN g
      BY <1>1, <2>3
    <3>2. g[i - Len(f)] = Len(f) + (i - Len(f))
      BY <3>1
    <3> QED
      BY <1>1, <2>1, <2>3, <3>2
  <2> QED
    BY <1>1, <2>2, <2>3
<1>5. \A i \in DOMAIN fg : fg[i] = i
  BY <1>3, <1>4
<1> QED
  BY <1>3, <1>5 DEF fg

-----------------------------------------------------------------------------
(* Types.                                                                  *)

(* What a handler with nothing to do holds is well typed.                  *)
LEMMA Blanks ==
    /\ NewRow \in Row
    /\ NoRequest \in Request
    /\ NothingLoaded \in Snapshot
    /\ NoWork \in Work
    /\ NoJob \in Job
<1>1. NewRow \in Row
  BY DEF NewRow, Row, Approvals, BuildStatuses, NoJob, Job
<1>2. NoRequest \in Request
  BY DEF NoRequest, Request, AllOperations
<1>3. NothingLoaded \in Snapshot
  BY <1>1 DEF NothingLoaded, Snapshot
<1>4. NoWork \in Work
  BY <1>1 DEF NoWork, Work
<1>5. NoJob \in Job
  BY DEF NoJob, Job
<1> QED
  BY <1>1, <1>2, <1>3, <1>4, <1>5

(* Forgetting keeps local state well typed.                                *)
LEMMA ForgetType ==
    ASSUME TypeOK, NEW h \in Handlers, Forget(h)
    PROVE  /\ request' \in [Handlers -> Request]
           /\ loaded' \in [Handlers -> Snapshot]
           /\ work' \in [Handlers -> Work]
           /\ seq' \in [Handlers -> Nat]
           /\ job' \in [Handlers -> Job]
BY Blanks DEF TypeOK, Forget

(* Moving on keeps the program counters well typed.                        *)
LEMMA GoType ==
    ASSUME TypeOK, NEW h \in Handlers, NEW from, NEW to \in PCs, Go(h, from, to)
    PROVE  pc' \in [Handlers -> PCs]
BY DEF TypeOK, Go

(* Answering without writing keeps every type.                             *)
LEMMA LeaveType ==
    ASSUME TypeOK, NEW h \in Handlers, NEW from, Leave(h, from)
    PROVE  TypeOK'
<1>1. pc' \in [Handlers -> PCs]
  BY GoType DEF Leave, PCs
<1> QED
  BY <1>1, ForgetType
  DEF Leave, TypeOK, dbVars, meterVars, streamVars, boundVars

(* Answering with a view keeps every type.                                 *)
LEMMA ReturnViewType ==
    ASSUME TypeOK, NEW h \in Handlers, NEW from,
           NEW state \in States \cup {"none"}, ReturnView(h, from, state)
    PROVE  TypeOK'
<1>1. CASE h \in Streams
  <2>1. pc' \in [Handlers -> PCs]
    BY <1>1, GoType DEF ReturnView, PCs
  <2>2. view' \in [Streams -> States \cup {"none"}]
    BY <1>1 DEF ReturnView, TypeOK
  <2> QED
    BY <1>1, <2>1, <2>2, ForgetType
    DEF ReturnView, TypeOK, dbVars, meterVars, streamVars, boundVars
<1>2. CASE h \notin Streams
  BY <1>2, LeaveType DEF ReturnView
<1> QED
  BY <1>1, <1>2

(* A decision keeps every type if what it will write is well typed.        *)
LEMMA DecideType ==
    ASSUME TypeOK, NEW h \in Handlers, NEW from, NEW legal \in BOOLEAN,
           NEW l, NEW w, legal => l \in Snapshot /\ w \in Work,
           Decide(h, from, legal, l, w)
    PROVE  TypeOK'
<1>1. CASE legal
  <2>1. pc' \in [Handlers -> PCs]
    BY <1>1, GoType DEF Decide, PCs
  <2>2. loaded' \in [Handlers -> Snapshot] /\ work' \in [Handlers -> Work]
    BY <1>1 DEF Decide, TypeOK
  <2> QED
    BY <1>1, <2>1, <2>2
    DEF Decide, TypeOK, dbVars, meterVars, streamVars, boundVars
<1>2. CASE ~legal
  BY <1>2, LeaveType DEF Decide
<1> QED
  BY <1>1, <1>2

(* One entry of a function of handlers is replaced.                        *)
LEMMA Placed ==
    ASSUME NEW S, NEW T, NEW f \in [S -> T], NEW x \in S, NEW v \in T
    PROVE  /\ [f EXCEPT ![x] = v] \in [S -> T]
           /\ [f EXCEPT ![x] = v][x] = v
           /\ \A y \in S \ {x} : [f EXCEPT ![x] = v][y] = f[y]
OBVIOUS

-----------------------------------------------------------------------------
(* What survives when the tables only grow.                                *)

SameLocals(g) ==
    /\ pc'[g] = pc[g]
    /\ request'[g] = request[g]
    /\ loaded'[g] = loaded[g]
    /\ work'[g] = work[g]
    /\ seq'[g] = seq[g]
    /\ job'[g] = job[g]

Grows ==
    /\ session.state # "none" => session'.state # "none"
    /\ session.current <= session'.current
    /\ DOMAIN revisions \subseteq DOMAIN revisions'
    /\ events \subseteq events'
    /\ LastSeq <= LastSeq'
    /\ Len(calls) <= Len(calls')

(* What is typed, one handler at a time.                                   *)
LEMMA Typed ==
    ASSUME TypeOK, NEW g \in Handlers
    PROVE  /\ session.current \in Nat
           /\ session.state \in States \cup {"none"}
           /\ pc[g] \in PCs
           /\ request[g] \in Request /\ request[g].number \in Nat
           /\ loaded[g] \in Snapshot
           /\ loaded[g].current \in Nat
           /\ loaded[g].next \in Nat
           /\ loaded[g].row \in Row
           /\ loaded[g].row.call \in Nat
           /\ work[g] \in Work
           /\ work[g].row \in Row
           /\ work[g].row.call \in Nat
           /\ work[g].current \in Nat
           /\ work[g].insert \in Nat
           /\ work[g].target \in Nat
           /\ work[g].emits \in Seq(Emit)
           /\ seq[g] \in Nat
           /\ job[g].call \in Nat
           /\ Len(calls) \in Nat
           /\ DOMAIN calls = 1 .. Len(calls)
<1>1. /\ session.current \in Nat
      /\ session.state \in States \cup {"none"}
      /\ pc[g] \in PCs
      /\ request[g] \in Request
      /\ loaded[g] \in Snapshot
      /\ work[g] \in Work
      /\ seq[g] \in Nat
      /\ job[g] \in Job
      /\ calls \in Seq(Call)
  BY DEF TypeOK
<1>2. request[g].number \in Nat
  BY <1>1 DEF Request
<1>3. loaded[g].current \in Nat /\ loaded[g].next \in Nat /\ loaded[g].row \in Row
  BY <1>1 DEF Snapshot
<1>4. /\ work[g].row \in Row
      /\ work[g].current \in Nat
      /\ work[g].insert \in Nat
      /\ work[g].target \in Nat
      /\ work[g].emits \in Seq(Emit)
  BY <1>1 DEF Work
<1>5. loaded[g].row.call \in Nat /\ work[g].row.call \in Nat
  BY <1>3, <1>4 DEF Row
<1>6. job[g].call \in Nat
  BY <1>1 DEF Job
<1>7. Len(calls) \in Nat /\ DOMAIN calls = 1 .. Len(calls)
  BY <1>1
<1> QED
  BY <1>1, <1>2, <1>3, <1>4, <1>5, <1>6, <1>7

(* A request that does not move believes nothing false after another one   *)
(* has committed, as long as nothing is taken away.                        *)
LEMMA RememberGrows ==
    ASSUME TypeOK, TypeOK', LogHasAnEnd, LogHasAnEnd', Grows,
           NEW g \in Handlers, SameLocals(g), Remembers(g)
    PROVE  Remembers(g)'
<1> USE DEF SameLocals, Grows
<1>0. /\ session'.current \in Nat /\ Len(calls') \in Nat
      /\ session.current \in Nat /\ Len(calls) \in Nat
      /\ DOMAIN calls' = 1 .. Len(calls')
      /\ LastSeq \in Nat /\ LastSeq' \in Nat
  BY DEF TypeOK, LogHasAnEnd
<1>1. (pc[g] # "idle" => session.state # "none")'
  BY DEF Remembers
<1>2. (loaded[g].current <= session.current)'
  BY <1>0, Typed DEF Remembers
<1>3. (pc[g] \in {"model", "reload", "record", "spawn", "collect"} =>
           request[g].number \in DOMAIN revisions)'
  BY DEF Remembers
<1>4. (pc[g] \in {"model", "reload", "record"} /\ request[g].op = "revise" =>
           loaded[g].next \in 1 .. session.current + 1)'
  BY <1>0, Typed DEF Remembers
<1>5. (pc[g] = "spawn" => /\ Approved(request[g].number)
                          /\ loaded[g].row.call <= Len(calls))'
  BY <1>0, Typed DEF Remembers, Approved
<1>6. (pc[g] = "collect" => /\ job[g].call \in DOMAIN calls
                            /\ request[g].op # "revise")'
  BY <1>0, Typed DEF Remembers
<1>7. ASSUME pc[g] \in {"sequence", "commit"}
      PROVE  Sound(work[g], loaded[g])'
  <2>1. Sound(work[g], loaded[g])
    BY <1>7 DEF Remembers
  <2>2. /\ work[g].row.call \in Nat /\ work[g].insert \in Nat
        /\ work'[g] = work[g] /\ loaded'[g] = loaded[g]
    BY Typed
  <2>3. (work[g].state # "none" /\ work[g].row.call <= Len(calls))'
    BY <1>0, <2>1, <2>2 DEF Sound
  <2>4. (work[g].row.approval = "approved" /\ work[g].target # 0 =>
            \/ Approved(work[g].target)
            \/ \E i \in DOMAIN work[g].emits :
                   work[g].emits[i] = Says("approval_received", work[g].target))'
    BY <2>1, <2>2 DEF Sound, Approved, Says
  <2>5. (IF work[g].insert = 0
         THEN work[g].current = loaded[g].current
         ELSE /\ work[g].current = work[g].insert
              /\ work[g].insert <= session.current + 1)'
    BY <1>0, <2>1, <2>2 DEF Sound
  <2> QED
    BY <2>3, <2>4, <2>5 DEF Sound
<1>8. (pc[g] = "commit" => seq[g] \in 1 .. LastSeq + 1)'
  BY <1>0, Typed DEF Remembers
<1>9. (g \in Streams => request[g].op # "revise")'
  BY DEF Remembers
<1> QED
  BY <1>1, <1>2, <1>3, <1>4, <1>5, <1>6, <1>7, <1>8, <1>9 DEF Remembers

-----------------------------------------------------------------------------
(* Steps of one handler that leave the tables alone.                       *)

CallsKept ==
    /\ Len(calls') = Len(calls)
    /\ \A c \in DOMAIN calls : calls'[c].revision = calls[c].revision

(* The invariant only has to be looked at for the handler that moves.      *)
LEMMA LocalStep ==
    ASSUME IInv, TypeOK', UNCHANGED <<session, revisions, events>>, CallsKept,
           \A g \in Handlers : SameLocals(g) \/ Remembers(g)'
    PROVE  IInv'
<1>1. LastSeq' = LastSeq
  BY DEF LastSeq
<1>2. Len(calls) \in Nat /\ DOMAIN calls = 1 .. Len(calls) /\ DOMAIN calls' = 1 .. Len(calls')
  BY DEF IInv, TypeOK
<1>3. Grows
  BY <1>1, <1>2 DEF Grows, IInv, LogHasAnEnd, CallsKept, TypeOK
<1>4. LogHasAnEnd'
  BY <1>1 DEF IInv, LogHasAnEnd
<1>5. \A g \in Handlers : Remembers(g)'
  BY <1>3, <1>4, RememberGrows DEF IInv
<1>6. BeforeCreation' /\ CurrentIsLast'
  BY DEF IInv, BeforeCreation, CurrentIsLast
<1>7. EventLogGapFree'
  BY <1>1 DEF IInv, EventLogGapFree
<1>8. StoredRows'
  BY <1>2 DEF IInv, StoredRows, Approved, CallsKept
<1>9. BuiltOnlyIfApproved'
  BY <1>2 DEF IInv, BuiltOnlyIfApproved, CallsKept
<1> QED
  BY <1>4, <1>5, <1>6, <1>7, <1>8, <1>9 DEF IInv

(* What Go and Forget do to the other handlers: nothing.                   *)
LEMMA GoOthers ==
    ASSUME TypeOK, NEW h \in Handlers, NEW from, NEW to, Go(h, from, to)
    PROVE  /\ pc[h] = from
           /\ pc'[h] = to
           /\ \A g \in Handlers \ {h} : pc'[g] = pc[g]
BY DEF TypeOK, Go

(* Forgetting empties the hands of one handler and no other's.             *)
LEMMA ForgetOthers ==
    ASSUME TypeOK, NEW h \in Handlers, Forget(h)
    PROVE  /\ request'[h] = NoRequest
           /\ loaded'[h] = NothingLoaded
           /\ work'[h] = NoWork
           /\ seq'[h] = 0
           /\ job'[h] = NoJob
           /\ \A g \in Handlers \ {h} : /\ request'[g] = request[g]
                                        /\ loaded'[g] = loaded[g]
                                        /\ work'[g] = work[g]
                                        /\ seq'[g] = seq[g]
                                        /\ job'[g] = job[g]
BY DEF TypeOK, Forget

(* A list of calls that did not change took nothing away.                  *)
LEMMA CallsUntouched ==
    ASSUME UNCHANGED calls
    PROVE  CallsKept
BY DEF CallsKept

(* A handler with empty hands remembers nothing that could go wrong.       *)
LEMMA NothingToRemember ==
    ASSUME IInv, NEW h \in Handlers, UNCHANGED session,
           request'[h] \in {request[h], NoRequest},
           pc'[h] = "idle" \/ (pc'[h] \in {"session", "log", "decide", "history", "charge"} /\ pc[h] # "idle"),
           loaded'[h].current = 0 \/ loaded'[h].current = session.current
    PROVE  Remembers(h)'
BY Typed DEF IInv, Remembers, NoRequest

(* A handler that answers without writing preserves the invariant.         *)
LEMMA LeaveInv ==
    ASSUME IInv, NEW h \in Handlers, NEW from, Leave(h, from)
    PROVE  IInv'
<1>1. TypeOK'
  BY LeaveType DEF IInv
<1>2. \A g \in Handlers \ {h} : SameLocals(g)
  BY GoOthers, ForgetOthers DEF IInv, Leave, SameLocals
<1>3. pc'[h] = "idle" /\ loaded'[h].current = 0 /\ request'[h] = NoRequest
  BY GoOthers, ForgetOthers DEF IInv, Leave, NothingLoaded
<1>4. UNCHANGED <<session, revisions, events, calls>>
  BY DEF Leave, dbVars
<1> QED
  BY <1>1, <1>2, <1>3, <1>4, LocalStep, CallsUntouched, NothingToRemember

(* A handler that answers with a view preserves the invariant.             *)
LEMMA ReturnViewInv ==
    ASSUME IInv, NEW h \in Handlers, NEW from, from # "idle",
           NEW state \in States \cup {"none"}, ReturnView(h, from, state)
    PROVE  IInv'
<1>1. CASE h \notin Streams
  BY <1>1, LeaveInv DEF ReturnView
<1>2. CASE h \in Streams
  <2>1. Go(h, from, "log") /\ Forget(h)
    BY <1>2 DEF ReturnView
  <2>2. TypeOK'
    BY ReturnViewType DEF IInv
  <2>3. \A g \in Handlers \ {h} : SameLocals(g)
    BY <2>1, GoOthers, ForgetOthers DEF IInv, SameLocals
  <2>4. /\ pc'[h] = "log" /\ pc[h] # "idle"
        /\ loaded'[h].current = 0 /\ request'[h] = NoRequest
    BY <2>1, GoOthers, ForgetOthers DEF IInv, NothingLoaded
  <2>5. UNCHANGED <<session, revisions, events, calls>>
    BY <1>2 DEF ReturnView, dbVars
  <2> QED
    BY <2>2, <2>3, <2>4, <2>5, LocalStep, CallsUntouched, NothingToRemember
<1> QED
  BY <1>1, <1>2

(* A decision preserves the invariant if what it will write is sound.      *)
LEMMA DecideInv ==
    ASSUME IInv, NEW h \in Handlers, NEW from, from # "idle",
           NEW legal \in BOOLEAN, NEW l, NEW w,
           legal => /\ l \in Snapshot
                    /\ w \in Work
                    /\ l.current <= session.current
                    /\ Sound(w, l),
           Decide(h, from, legal, l, w)
    PROVE  IInv'
<1>1. CASE ~legal
  BY <1>1, LeaveInv DEF Decide
<1>2. CASE legal
  <2>1. /\ Go(h, from, "sequence")
        /\ loaded' = [loaded EXCEPT ![h] = l]
        /\ work' = [work EXCEPT ![h] = w]
        /\ UNCHANGED <<session, revisions, events, calls, request, seq, job>>
    BY <1>2 DEF Decide, dbVars
  <2>2. TypeOK'
    BY DecideType DEF IInv
  <2>3. loaded'[h] = l /\ work'[h] = w
    BY <2>1 DEF IInv, TypeOK
  <2>4. \A g \in Handlers \ {h} : loaded'[g] = loaded[g] /\ work'[g] = work[g]
    BY <2>1 DEF IInv, TypeOK
  <2>5. \A g \in Handlers \ {h} : SameLocals(g)
    BY <2>1, <2>4, GoOthers DEF IInv, SameLocals
  <2>6. pc[h] # "idle" /\ pc'[h] = "sequence"
    BY <2>1, GoOthers DEF IInv
  <2>7. Sound(w, l)'
    BY <1>2, <2>1 DEF Sound, Approved
  <2>8. Sound(work[h], loaded[h])'
    BY <2>3, <2>7 DEF Sound
  <2>9. Remembers(h)'
    BY <1>2, <2>1, <2>3, <2>6, <2>8 DEF IInv, Remembers
  <2> QED
    BY <2>1, <2>2, <2>5, <2>9, LocalStep, CallsUntouched
<1> QED
  BY <1>1, <1>2

-----------------------------------------------------------------------------
(* The deciding steps, one lemma per action.                               *)

(* A write set that starts from what was loaded has its fields.            *)
LEMMA UntouchedFields ==
    ASSUME TypeOK, NEW h \in Handlers
    PROVE  /\ Untouched(h) \in Work
           /\ Untouched(h).state = loaded[h].state
           /\ Untouched(h).current = loaded[h].current
           /\ Untouched(h).target = 0
           /\ Untouched(h).row = NewRow
           /\ Untouched(h).insert = 0
           /\ Untouched(h).emits = <<>>
<1>1. loaded[h].state \in States \cup {"none"} /\ loaded[h].current \in Nat
  BY Typed DEF Snapshot
<1> QED
  BY <1>1, Blanks DEF Untouched, NoWork, Work

(* A transaction that changes one existing row writes something sound when *)
(* the row points at a build that exists and is approved only if the log   *)
(* says so, or will.                                                       *)
Edit(h, state, n, row, emits) ==
    [Untouched(h) EXCEPT !.state = state, !.target = n, !.row = row,
                         !.emits = emits]

(* What an edit of one existing row sets, and what it leaves alone.        *)
LEMMA EditFields ==
    ASSUME TypeOK, NEW h \in Handlers, NEW state \in States, NEW n \in Nat,
           NEW row \in Row, NEW emits \in Seq(Emit)
    PROVE  /\ Edit(h, state, n, row, emits) \in Work
           /\ Edit(h, state, n, row, emits).state = state
           /\ Edit(h, state, n, row, emits).current = loaded[h].current
           /\ Edit(h, state, n, row, emits).target = n
           /\ Edit(h, state, n, row, emits).row = row
           /\ Edit(h, state, n, row, emits).insert = 0
           /\ Edit(h, state, n, row, emits).emits = emits
BY UntouchedFields DEF Edit, Work

(* Editing one row a transaction loaded is sound if the new row is.        *)
LEMMA EditInv ==
    ASSUME IInv, NEW h \in Handlers, NEW from, from # "idle",
           NEW legal \in BOOLEAN, NEW l, NEW state \in States, NEW n, NEW row,
           NEW emits \in Seq(Emit),
           legal => /\ l \in Snapshot
                    /\ l.current = loaded[h].current
                    /\ n \in Nat
                    /\ row \in Row
                    /\ row.call <= Len(calls)
                    /\ row.approval = "approved" =>
                           \/ Approved(n)
                           \/ emits = <<Says("approval_received", n)>>,
           Decide(h, from, legal, l, Edit(h, state, n, row, emits))
    PROVE  IInv'
<1> DEFINE w == Edit(h, state, n, row, emits)
<1>1. SUFFICES ASSUME legal
              PROVE  /\ w \in Work
                     /\ l.current <= session.current
                     /\ Sound(w, l)
  BY <1>1, DecideInv
<1>2. /\ w \in Work
      /\ w.state = state
      /\ w.current = loaded[h].current
      /\ w.target = n
      /\ w.row = row
      /\ w.insert = 0
      /\ w.emits = emits
  BY <1>1, EditFields DEF IInv
<1>3. l.current <= session.current
  BY <1>1 DEF IInv, Remembers
<1>4. state # "none"
  BY DEF States, Terminal
<1> HIDE DEF w
<1> QED
  BY <1>1, <1>2, <1>3, <1>4 DEF Sound

(* A stored row, and what a transaction that loads it holds.               *)
LEMMA StoredRow ==
    ASSUME IInv, NEW h \in Handlers, NEW n \in DOMAIN revisions
    PROVE  /\ n \in Nat
           /\ revisions[n] \in Row
           /\ revisions[n].call \in Nat
           /\ revisions[n].call <= Len(calls)
           /\ revisions[n].approval = "approved" => Approved(n)
           /\ [loaded[h] EXCEPT !.row = revisions[n]] \in Snapshot
           /\ [loaded[h] EXCEPT !.row = revisions[n]].current = loaded[h].current
<1>1. /\ n \in Nat
      /\ revisions[n] \in Row
      /\ revisions[n].call <= Len(calls)
      /\ revisions[n].approval = "approved" => Approved(n)
  BY DEF IInv, TypeOK, StoredRows
<1> QED
  BY <1>1, Typed DEF IInv, Snapshot, Row

(* approve preserves the invariant.                                        *)
LEMMA ApproveInv ==
    ASSUME IInv, NEW h \in Handlers, Approve(h)
    PROVE  IInv'
<1> DEFINE n == request[h].number
           legal == /\ n \in DOMAIN revisions
                    /\ n = loaded[h].current
                    /\ CanTransition(loaded[h].state, "approved")
           l == [loaded[h] EXCEPT !.row = revisions[n]]
           row == [revisions[n] EXCEPT !.approval = "approved"]
           emits == <<Says("approval_received", n)>>
<1>1. Decide(h, "decide", legal, l, Edit(h, "approved", n, row, emits))
  BY DEF Approve, Edit
<1>2. n \in Nat
  BY Typed DEF IInv
<1>3. emits \in Seq(Emit)
  BY <1>2 DEF Says, Emit, EventTypes
<1>4. ASSUME legal
      PROVE  /\ l \in Snapshot
             /\ l.current = loaded[h].current
             /\ row \in Row
             /\ row.call <= Len(calls)
  BY <1>4, StoredRow DEF Row, Approvals
<1>5. "approved" \in States
  BY DEF States
<1>6. legal \in BOOLEAN
  BY DEF CanTransition
<1> HIDE DEF n, legal, l, row
<1> QED
  BY <1>1, <1>2, <1>3, <1>4, <1>5, <1>6, EditInv

(* reject preserves the invariant.                                         *)
LEMMA RejectInv ==
    ASSUME IInv, NEW h \in Handlers, Reject(h)
    PROVE  IInv'
<1> DEFINE n == request[h].number
           legal == /\ n \in DOMAIN revisions
                    /\ CanTransition(loaded[h].state, "rejected")
           l == [loaded[h] EXCEPT !.row = revisions[n]]
           row == [revisions[n] EXCEPT !.approval = "rejected"]
           emits == <<Says("rejected", n)>>
<1>1. Decide(h, "decide", legal, l, Edit(h, "rejected", n, row, emits))
  BY DEF Reject, Edit
<1>2. n \in Nat
  BY Typed DEF IInv
<1>3. emits \in Seq(Emit)
  BY <1>2 DEF Says, Emit, EventTypes
<1>4. ASSUME legal
      PROVE  /\ l \in Snapshot
             /\ l.current = loaded[h].current
             /\ row \in Row
             /\ row.call <= Len(calls)
             /\ row.approval # "approved"
  BY <1>4, StoredRow DEF Row, Approvals
<1>5. "rejected" \in States
  BY DEF States, Terminal
<1>6. legal \in BOOLEAN
  BY DEF CanTransition
<1> HIDE DEF n, legal, l, row, emits
<1> QED
  BY <1>1, <1>2, <1>3, <1>4, <1>5, <1>6, EditInv

(* Moving the session row alone preserves the invariant.                   *)
LEMMA MoveInv ==
    ASSUME IInv, NEW h \in Handlers, NEW from, from # "idle",
           NEW t \in States, NEW type \in EventTypes, Move(h, from, t, type)
    PROVE  IInv'
<1> DEFINE emits == <<Says(type, loaded[h].current)>>
           w == [Untouched(h) EXCEPT !.state = t, !.emits = emits]
           legal == CanTransition(loaded[h].state, t)
<1>1. Decide(h, from, legal, loaded[h], w)
  BY DEF Move
<1>2. TypeOK /\ loaded[h] \in Snapshot /\ loaded[h].current \in Nat /\ Len(calls) \in Nat
  BY Typed DEF IInv
<1>3. emits \in Seq(Emit)
  BY <1>2 DEF Says, Emit
<1>4. /\ w \in Work
      /\ w.state = t
      /\ w.current = loaded[h].current
      /\ w.target = 0
      /\ w.row = NewRow
      /\ w.insert = 0
  BY <1>2, <1>3, UntouchedFields DEF Work
<1>5. loaded[h].current <= session.current
  BY DEF IInv, Remembers
<1>6. t # "none"
  BY DEF States, Terminal
<1>7. NewRow.call <= Len(calls)
  BY <1>2 DEF NewRow
<1>8. legal \in BOOLEAN
  BY DEF CanTransition
<1> HIDE DEF w, legal
<1>9. Sound(w, loaded[h])
  BY <1>4, <1>6, <1>7 DEF Sound
<1> QED
  BY <1>1, <1>2, <1>4, <1>5, <1>8, <1>9, DecideInv

(* accept preserves the invariant.                                         *)
LEMMA AcceptInv ==
    ASSUME IInv, NEW h \in Handlers, Accept(h)
    PROVE  IInv'
BY MoveInv DEF Accept, States, Terminal, EventTypes

(* cancel preserves the invariant.                                         *)
LEMMA CancelInv ==
    ASSUME IInv, NEW h \in Handlers, Cancel(h)
    PROVE  IInv'
BY MoveInv DEF Cancel, States, Terminal, EventTypes

(* A revise whose model call failed preserves the invariant.               *)
LEMMA ReviseFailedInv ==
    ASSUME IInv, NEW h \in Handlers, ReviseFailed(h)
    PROVE  IInv'
BY MoveInv DEF ReviseFailed, States, EventTypes

(* The writing transaction of revise takes a number that is still right or *)
(* already taken.                                                          *)
LEMMA ReviseWriteInv ==
    ASSUME IInv, NEW h \in Handlers, ReviseWrite(h)
    PROVE  IInv'
<1> DEFINE parent == request[h].number
           next == loaded[h].next
           legal == CanTakeRevision(loaded[h].state)
           l == [loaded[h] EXCEPT !.row = revisions[parent]]
           row == Supersede(revisions[parent])
           emits == <<Says("revision_created", next),
                      Says("approval_required", next)>>
           w == [Untouched(h) EXCEPT !.state = "awaiting_approval",
                                     !.current = next,
                                     !.target = parent,
                                     !.row = row,
                                     !.insert = next,
                                     !.emits = emits]
<1>1. Decide(h, "record", legal, l, w) /\ request[h].op = "revise"
  BY DEF ReviseWrite
<1>2. pc[h] = "record"
  BY <1>1 DEF Decide
<1>3. parent \in DOMAIN revisions /\ next \in 1 .. session.current + 1
  BY <1>1, <1>2 DEF IInv, Remembers
<1>4. next \in Nat /\ next # 0 /\ next <= session.current + 1
  BY <1>3, Typed DEF IInv
<1>5. /\ l \in Snapshot
      /\ l.current = loaded[h].current
      /\ parent \in Nat
  BY <1>3, StoredRow
<1>6. /\ row \in Row
      /\ row.call <= Len(calls)
      /\ row.approval = "approved" => Approved(parent)
  BY <1>3, StoredRow DEF Supersede, Row, Approvals
<1>7. emits \in Seq(Emit)
  BY <1>4 DEF Says, Emit, EventTypes
<1>8. /\ w \in Work
      /\ w.state = "awaiting_approval"
      /\ w.current = next
      /\ w.target = parent
      /\ w.row = row
      /\ w.insert = next
  <2> HIDE DEF next, parent, row, emits
  <2> QED
    BY <1>4, <1>5, <1>6, <1>7, UntouchedFields DEF IInv, Work, States
<1>9. l.current <= session.current
  BY <1>5 DEF IInv, Remembers
<1>10. legal \in BOOLEAN
  BY DEF CanTakeRevision, CanTransition
<1> HIDE DEF w, l, legal, next, parent, row
<1>11. Sound(w, l)
  BY <1>4, <1>6, <1>8 DEF Sound
<1> QED
  BY <1>1, <1>5, <1>8, <1>9, <1>10, <1>11, DecideInv

(* A build that never reached the builder preserves the invariant.         *)
LEMMA StartFailsInv ==
    ASSUME IInv, NEW h \in Handlers, StartFails(h)
    PROVE  IInv'
<1> DEFINE n == request[h].number
           legal == CanTransition(loaded[h].state, "needs_revision")
           row == [loaded[h].row EXCEPT !.build = "failed"]
           emits == <<Says("failed", n)>>
<1>1. Decide(h, "spawn", legal, loaded[h], Edit(h, "needs_revision", n, row, emits))
  BY DEF StartFails, Edit
<1>2. pc[h] = "spawn"
  BY <1>1 DEF Decide
<1>3. loaded[h] \in Snapshot /\ n \in Nat /\ loaded[h].row \in Row
  BY Typed DEF IInv
<1>4. Approved(n) /\ loaded[h].row.call <= Len(calls)
  BY <1>2 DEF IInv, Remembers
<1>5. emits \in Seq(Emit)
  BY <1>3 DEF Says, Emit, EventTypes
<1>6. row \in Row /\ row.call <= Len(calls)
  BY <1>3, <1>4 DEF Row, BuildStatuses
<1>7. "needs_revision" \in States
  BY DEF States
<1>8. legal \in BOOLEAN
  BY DEF CanTransition
<1> HIDE DEF n, legal, row, emits
<1> QED
  BY <1>1, <1>3, <1>4, <1>5, <1>6, <1>7, <1>8, EditInv

(* The recording transaction of reconcile preserves the invariant.         *)
LEMMA RecordResultInv ==
    ASSUME IInv, NEW h \in Handlers, RecordResult(h)
    PROVE  IInv'
<1> DEFINE n == request[h].number
           state == IF Succeeded(h) THEN "built" ELSE "needs_revision"
           legal == CanTransition(loaded[h].state, state)
           l == [loaded[h] EXCEPT !.row = revisions[n]]
           row == [revisions[n] EXCEPT
                      !.build = IF Succeeded(h) THEN "built" ELSE "failed",
                      !.result = job[h]]
           emits == IF Succeeded(h)
                    THEN <<Says("build_completed", n),
                           Says("validation_completed", n),
                           Says("final_review_ready", n)>>
                    ELSE <<Says("build_completed", n)>>
<1>1. Decide(h, "record", legal, l, Edit(h, state, n, row, emits))
  BY DEF RecordResult, RecordedOn, Edit
<1>2. pc[h] = "record"
  BY <1>1 DEF Decide
<1>3. n \in DOMAIN revisions
  BY <1>2 DEF IInv, Remembers
<1>4. /\ n \in Nat
      /\ l \in Snapshot
      /\ l.current = loaded[h].current
      /\ revisions[n] \in Row
      /\ revisions[n].call <= Len(calls)
      /\ revisions[n].approval = "approved" => Approved(n)
  BY <1>3, StoredRow
<1>5. job[h] \in Job
  BY DEF IInv, TypeOK
<1>6. /\ row \in Row
      /\ row.call = revisions[n].call
      /\ row.approval = revisions[n].approval
  BY <1>4, <1>5 DEF Row, BuildStatuses
<1>7. emits \in Seq(Emit)
  <2>1. /\ Says("build_completed", n) \in Emit
        /\ Says("validation_completed", n) \in Emit
        /\ Says("final_review_ready", n) \in Emit
    BY <1>4 DEF Says, Emit, EventTypes
  <2> QED
    BY <2>1
<1>8. state \in States
  BY DEF States
<1>9. legal \in BOOLEAN
  BY DEF CanTransition
<1> HIDE DEF n, state, legal, l, row, emits
<1> QED
  BY <1>1, <1>4, <1>6, <1>7, <1>8, <1>9, EditInv

-----------------------------------------------------------------------------
(* The steps between the reads, the model call and the builder.            *)

(* A new request preserves the invariant.                                  *)
LEMMA AskInv ==
    ASSUME IInv, NEW h \in Requests, Ask(h)
    PROVE  IInv'
<1> USE DEF IInv
<1>0. h \in Handlers /\ h \notin Streams
  BY ConstantsAssumption DEF Handlers
<1>1. /\ Go(h, "idle", "session")
      /\ session.state # "none"
      /\ UNCHANGED <<session, revisions, events, calls, loaded, work, seq, job>>
  BY DEF Ask, dbVars, txnVars
<1>2. PICK r \in Request : request' = [request EXCEPT ![h] = r]
  <2>1. PICK op \in Operations :
            \E n \in IF op \in {"approve", "reject"} THEN DOMAIN revisions ELSE {0} :
                request' = [request EXCEPT ![h] = [op |-> op, number |-> n]]
    BY DEF Ask
  <2>2. PICK n \in IF op \in {"approve", "reject"} THEN DOMAIN revisions ELSE {0} :
            request' = [request EXCEPT ![h] = [op |-> op, number |-> n]]
    BY <2>1
  <2>3. op \in AllOperations /\ n \in Nat
    BY <2>2, ConstantsAssumption DEF TypeOK
  <2>4. [op |-> op, number |-> n] \in Request
    BY <2>3 DEF Request
  <2> QED
    BY <2>2, <2>4
<1>4. request' \in [Handlers -> Request]
      /\ \A g \in Handlers \ {h} : request'[g] = request[g]
  BY <1>2 DEF TypeOK
<1>5. pc' \in [Handlers -> PCs]
  BY <1>0, <1>1, GoType DEF PCs
<1>6. TypeOK'
  BY <1>1, <1>4, <1>5
  DEF TypeOK, Ask, dbVars, meterVars, txnVars, streamVars
<1>7. \A g \in Handlers \ {h} : SameLocals(g)
  BY <1>0, <1>1, <1>4, GoOthers DEF SameLocals
<1>8. Remembers(h)'
  BY <1>0, <1>1, GoOthers DEF Remembers
<1> QED
  BY <1>1, <1>6, <1>7, <1>8, LocalStep, CallsUntouched

(* A stream that connects preserves the invariant.                         *)
LEMMA ConnectInv ==
    ASSUME IInv, NEW h \in Streams, Connect(h)
    PROVE  IInv'
<1> USE DEF IInv
<1>1. /\ Go(h, "idle", "session")
      /\ session.state # "none"
      /\ UNCHANGED <<session, revisions, events, calls, request, loaded, work,
                     seq, job>>
  BY DEF Connect, dbVars, txnVars
<1>2. h \in Handlers
  BY DEF Handlers
<1>3. pc' \in [Handlers -> PCs]
  BY <1>1, <1>2, GoType DEF PCs
<1>4. TypeOK'
  BY <1>1, <1>3 DEF TypeOK, Connect, meterVars, boundVars
<1>5. \A g \in Handlers \ {h} : SameLocals(g)
  BY <1>1, <1>2, GoOthers DEF SameLocals
<1>6. Remembers(h)'
  BY <1>1, <1>2, GoOthers DEF Remembers
<1> QED
  BY <1>1, <1>4, <1>5, <1>6, LocalStep, CallsUntouched

(* Loading the session row preserves the invariant.                        *)
LEMMA ReadSessionInv ==
    ASSUME IInv, NEW h \in Handlers, ReadSession(h)
    PROVE  IInv'
<1> USE DEF IInv
<1>1. /\ Go(h, "session", "decide") \/ Go(h, "reload", "record")
      /\ loaded' = [loaded EXCEPT ![h].state = session.state,
                                  ![h].current = session.current]
      /\ UNCHANGED <<session, revisions, events, calls, request, work, seq, job>>
  BY DEF ReadSession, dbVars
<1>2. /\ pc' \in [Handlers -> PCs]
      /\ \/ pc[h] = "session" /\ pc'[h] = "decide"
         \/ pc[h] = "reload" /\ pc'[h] = "record"
      /\ \A g \in Handlers \ {h} : pc'[g] = pc[g]
  BY <1>1, GoType, GoOthers DEF PCs
<1>3. /\ loaded[h] \in Snapshot
      /\ session.state \in States \cup {"none"}
      /\ session.current \in Nat
  BY Typed
<1>4. /\ loaded'[h] \in Snapshot
      /\ loaded'[h].current = session.current
      /\ loaded'[h].next = loaded[h].next
  BY <1>1, <1>3 DEF TypeOK, Snapshot
<1>5. \A g \in Handlers \ {h} : loaded'[g] = loaded[g]
  BY <1>1 DEF TypeOK
<1>6. loaded' \in [Handlers -> Snapshot]
  BY <1>1, <1>4, <1>5 DEF TypeOK
<1>7. TypeOK'
  BY <1>1, <1>2, <1>6 DEF TypeOK, ReadSession, meterVars, streamVars, boundVars
<1>8. \A g \in Handlers \ {h} : SameLocals(g)
  BY <1>1, <1>2, <1>5 DEF SameLocals
<1>9. Remembers(h)'
  BY <1>1, <1>2, <1>3, <1>4 DEF Remembers
<1> QED
  BY <1>1, <1>7, <1>8, <1>9, LocalStep, CallsUntouched

(* The reading transaction of revise takes a number no larger than the     *)
(* next.                                                                   *)
LEMMA ReviseReadInv ==
    ASSUME IInv, NEW h \in Handlers, ReviseRead(h)
    PROVE  IInv'
<1> DEFINE n == loaded[h].current
           go == loaded[h].state \notin Closed /\ n \in DOMAIN revisions
           l == [NothingLoaded EXCEPT !.next = Max(DOMAIN revisions) + 1]
<1> USE DEF IInv
<1>1. CASE ~go
  BY <1>1, LeaveInv DEF ReviseRead
<1>2. CASE go
  <2>1. /\ Go(h, "decide", "model")
        /\ request' = [request EXCEPT ![h].number = n]
        /\ loaded' = [loaded EXCEPT ![h] = l]
        /\ UNCHANGED <<session, revisions, events, calls, work, seq, job>>
    BY <1>2 DEF ReviseRead, dbVars
  <2>2. pc' \in [Handlers -> PCs] /\ pc[h] # "idle" /\ pc'[h] = "model"
        /\ \A g \in Handlers \ {h} : pc'[g] = pc[g]
    BY <2>1, GoType, GoOthers DEF PCs
  <2>3. n \in Nat /\ request[h] \in Request /\ session.current \in Nat
    BY Typed
  <2>4. session.current >= 1 /\ Max(DOMAIN revisions) = session.current
    BY <1>2, <2>3, MaxOfInterval DEF CurrentIsLast
  <2>5. l \in Snapshot /\ l.current = 0 /\ l.next = session.current + 1
    BY <2>3, <2>4, Blanks DEF NothingLoaded, Snapshot
  <2>6. loaded' \in [Handlers -> Snapshot] /\ loaded'[h] = l
        /\ \A g \in Handlers \ {h} : loaded'[g] = loaded[g]
    <3> HIDE DEF l
    <3> QED
      BY <2>1, <2>5 DEF TypeOK
  <2>7. request'[h] \in Request /\ request'[h].number = n
        /\ request'[h].op = request[h].op
        /\ \A g \in Handlers \ {h} : request'[g] = request[g]
    BY <2>1, <2>3 DEF TypeOK, Request
  <2>8. request' \in [Handlers -> Request]
    BY <2>1, <2>7 DEF TypeOK
  <2>9. TypeOK'
    BY <1>2, <2>1, <2>2, <2>6, <2>8
    DEF TypeOK, ReviseRead, meterVars, streamVars, boundVars
  <2>10. \A g \in Handlers \ {h} : SameLocals(g)
    BY <2>1, <2>2, <2>6, <2>7 DEF SameLocals
  <2>11. Remembers(h)'
    <3> HIDE DEF l
    <3> QED
      BY <1>2, <2>1, <2>2, <2>3, <2>5, <2>6, <2>7 DEF Remembers
  <2> QED
    BY <2>1, <2>9, <2>10, <2>11, LocalStep, CallsUntouched
<1> QED
  BY <1>1, <1>2

(* The model call of revise preserves the invariant.                       *)
LEMMA RedesignInv ==
    ASSUME IInv, NEW h \in Handlers, Redesign(h)
    PROVE  IInv'
<1> USE DEF IInv
<1>1. /\ Go(h, "model", "reload")
      /\ UNCHANGED <<session, revisions, events, calls, request, loaded, work, seq>>
  BY DEF Redesign, dbVars, txnVars
<1>2. PICK outcome \in {"ok", "bad"} : job' = [job EXCEPT ![h].outcome = outcome]
  BY DEF Redesign
<1>3. /\ pc' \in [Handlers -> PCs]
      /\ pc[h] = "model" /\ pc'[h] = "reload"
      /\ \A g \in Handlers \ {h} : pc'[g] = pc[g]
  BY <1>1, GoType, GoOthers DEF PCs
<1>4. job' \in [Handlers -> Job] /\ \A g \in Handlers \ {h} : job'[g] = job[g]
  <2>1. job[h] \in Job
    BY DEF TypeOK
  <2>2. [job[h] EXCEPT !.outcome = outcome] \in Job
    BY <1>2, <2>1 DEF Job
  <2> QED
    BY <1>2, <2>2, Placed DEF TypeOK
<1>5. TypeOK'
  BY <1>1, <1>3, <1>4 DEF TypeOK, Redesign, meterVars, streamVars, boundVars
<1>6. \A g \in Handlers \ {h} : SameLocals(g)
  BY <1>1, <1>3, <1>4 DEF SameLocals
<1>7. Remembers(h)'
  BY <1>1, <1>3 DEF Remembers
<1> QED
  BY <1>1, <1>5, <1>6, <1>7, LocalStep, CallsUntouched

(* A build that passes its check is about an approved revision.            *)
LEMMA BuildCheckInv ==
    ASSUME IInv, NEW h \in Handlers, BuildCheck(h)
    PROVE  IInv'
<1> DEFINE n == loaded[h].current
           l == [loaded[h] EXCEPT !.row = revisions[n]]
<1> USE DEF IInv
<1>1. CASE Leave(h, "decide")
  BY <1>1, LeaveInv
<1>2. CASE ~Leave(h, "decide")
  <2>1. /\ Go(h, "decide", "spawn")
        /\ n \in DOMAIN revisions
        /\ revisions[n].approval = "approved"
        /\ request' = [request EXCEPT ![h].number = n]
        /\ loaded' = [loaded EXCEPT ![h].row = revisions[n]]
        /\ UNCHANGED <<dbVars, meterVars, calls, work, seq, job, streamVars,
                       boundVars>>
    BY <1>2 DEF BuildCheck, AuthorizeBuild
  <2>2. /\ pc' \in [Handlers -> PCs]
        /\ pc[h] # "idle" /\ pc'[h] = "spawn"
        /\ \A g \in Handlers \ {h} : pc'[g] = pc[g]
    BY <2>1, GoType, GoOthers DEF PCs
  <2>3. /\ n \in Nat
        /\ l \in Snapshot
        /\ l.current = loaded[h].current
        /\ l.row = revisions[n]
        /\ revisions[n].call <= Len(calls)
        /\ Approved(n)
    BY <2>1, StoredRow, Typed DEF Snapshot
  <2>4. loaded' = [loaded EXCEPT ![h] = l]
    BY <2>1 DEF TypeOK
  <2>5. /\ loaded' \in [Handlers -> Snapshot]
        /\ loaded'[h] = l
        /\ \A g \in Handlers \ {h} : loaded'[g] = loaded[g]
    <3> HIDE DEF l
    <3> QED
      BY <2>3, <2>4 DEF TypeOK
  <2>6. /\ request'[h].number = n
        /\ request'[h].op = request[h].op
        /\ request' \in [Handlers -> Request]
        /\ \A g \in Handlers \ {h} : request'[g] = request[g]
    <3>1. /\ [request[h] EXCEPT !.number = n] \in Request
          /\ [request[h] EXCEPT !.number = n].number = n
          /\ [request[h] EXCEPT !.number = n].op = request[h].op
      BY <2>3, Typed DEF Request
    <3> HIDE DEF n
    <3> QED
      BY <2>1, <3>1, Placed DEF TypeOK
  <2>7. TypeOK'
    BY <2>1, <2>2, <2>5, <2>6 DEF TypeOK, dbVars, meterVars, streamVars, boundVars
  <2>8. \A g \in Handlers \ {h} : SameLocals(g)
    BY <2>1, <2>2, <2>5, <2>6 DEF SameLocals
  <2>9. UNCHANGED <<session, revisions, events, calls>>
    BY <2>1 DEF dbVars
  <2>10. /\ Approved(request[h].number)'
         /\ loaded[h].current <= session.current
         /\ session.state # "none"
    BY <2>2, <2>3, <2>6, <2>9 DEF Approved, Remembers
  <2>11. Remembers(h)'
    <3> HIDE DEF l
    <3> QED
      BY <2>1, <2>2, <2>3, <2>5, <2>6, <2>9, <2>10 DEF Remembers
  <2> QED
    BY <2>7, <2>8, <2>9, <2>11, LocalStep, CallsUntouched
<1> QED
  BY <1>1, <1>2

(* Handing a build over makes the list of calls longer.                    *)
LEMMA StartBuildInv ==
    ASSUME IInv, NEW h \in Handlers, StartBuild(h)
    PROVE  IInv'
<1> DEFINE n == request[h].number
           id == Len(calls) + 1
           call == [revision |-> n, status |-> "running", held |-> TRUE]
           row == Claim(loaded[h].row, id)
           emits == <<Says("build_started", n)>>
           w == Edit(h, "building", n, row, emits)
<1> USE DEF IInv
<1>1. /\ Go(h, "spawn", "sequence")
      /\ calls' = Append(calls, call)
      /\ job' = [job EXCEPT ![h].call = id]
      /\ work' = [work EXCEPT ![h] = w]
      /\ UNCHANGED <<session, revisions, events, request, loaded, seq>>
  BY DEF StartBuild, dbVars, Edit
<1>2. /\ pc' \in [Handlers -> PCs]
      /\ pc[h] = "spawn" /\ pc'[h] = "sequence"
      /\ \A g \in Handlers \ {h} : pc'[g] = pc[g]
  BY <1>1, GoType, GoOthers DEF PCs
<1>3. /\ n \in Nat /\ id \in Nat /\ Len(calls) \in Nat
      /\ calls \in Seq(Call)
      /\ loaded[h].row \in Row
      /\ job[h] \in Job
  BY Typed DEF TypeOK
<1>4. call \in Call
  BY <1>3 DEF Call
<1>5. /\ calls' \in Seq(Call)
      /\ Len(calls') = Len(calls) + 1
      /\ \A c \in DOMAIN calls : calls'[c] = calls[c]
      /\ calls'[id] = call
      /\ DOMAIN calls = 1 .. Len(calls) /\ DOMAIN calls' = 1 .. id
  <2> HIDE DEF call
  <2> QED
    BY <1>1, <1>3, <1>4
<1>6. row \in Row /\ row.call = id /\ row.approval = loaded[h].row.approval
  BY <1>3 DEF Claim, Row, BuildStatuses
<1>7. emits \in Seq(Emit)
  BY <1>3 DEF Says, Emit, EventTypes
<1>8. "building" \in States /\ "building" # "none"
  BY DEF States
<1>9. /\ w \in Work
      /\ w.state = "building"
      /\ w.current = loaded[h].current
      /\ w.target = n
      /\ w.row = row
      /\ w.insert = 0
  <2> HIDE DEF row, emits, n
  <2> QED
    BY <1>3, <1>6, <1>7, <1>8, EditFields
<1>10. /\ work' \in [Handlers -> Work]
       /\ work'[h] = w
       /\ \A g \in Handlers \ {h} : work'[g] = work[g]
  <2> HIDE DEF w
  <2> QED
    BY <1>1, <1>9, Placed DEF TypeOK
<1>11. [job[h] EXCEPT !.call = id] \in Job
  BY <1>3 DEF Job
<1>12. /\ job' \in [Handlers -> Job]
       /\ \A g \in Handlers \ {h} : job'[g] = job[g]
  BY <1>1, <1>11, Placed DEF TypeOK
<1>13. TypeOK'
  BY <1>1, <1>2, <1>5, <1>10, <1>12
  DEF TypeOK, StartBuild, meterVars, streamVars, boundVars
<1> HIDE DEF w, call, row, emits, id
<1>14. \A g \in Handlers \ {h} : SameLocals(g)
  BY <1>1, <1>2, <1>10, <1>12 DEF SameLocals
<1>15. LastSeq' = LastSeq /\ LastSeq \in Nat
  BY <1>1 DEF LastSeq, LogHasAnEnd
<1>16. Grows /\ LogHasAnEnd'
  BY <1>1, <1>3, <1>5, <1>15 DEF Grows, LogHasAnEnd, TypeOK
<1>17. \A g \in Handlers \ {h} : Remembers(g)'
  BY <1>13, <1>14, <1>16, RememberGrows
<1>18. /\ Approved(n)
       /\ loaded[h].current <= session.current
       /\ session.state # "none"
  BY <1>2 DEF Remembers
<1>19. Sound(work[h], loaded[h])'
  BY <1>1, <1>3, <1>5, <1>6, <1>8, <1>9, <1>10, <1>18 DEF Sound, Approved, id
<1>20. Remembers(h)'
  BY <1>1, <1>2, <1>18, <1>19 DEF Remembers
<1>21. BeforeCreation' /\ CurrentIsLast' /\ EventLogGapFree'
  BY <1>1, <1>15 DEF BeforeCreation, CurrentIsLast, EventLogGapFree
<1>22. StoredRows'
  <2>1. \A m \in DOMAIN revisions :
            /\ revisions[m].call \in Nat
            /\ revisions[m].call <= Len(calls)
            /\ revisions[m].approval = "approved" => Approved(m)
    BY StoredRow
  <2> QED
    BY <1>1, <1>3, <1>5, <2>1 DEF StoredRows, Approved
<1>23. BuiltOnlyIfApproved'
  <2>1. calls'[id].revision = n
    BY <1>5 DEF call
  <2> QED
    BY <1>1, <1>3, <1>5, <1>18, <2>1 DEF BuiltOnlyIfApproved, Approved, id
<1> QED
  BY <1>13, <1>16, <1>17, <1>20, <1>21, <1>22, <1>23

-----------------------------------------------------------------------------
(* The builder.                                                            *)

(* Changing one call leaves the others and their number alone.             *)
LEMMA CallReplaced ==
    ASSUME calls \in Seq(Call), NEW c \in DOMAIN calls, NEW v \in Call,
           v.revision = calls[c].revision, calls' = [calls EXCEPT ![c] = v]
    PROVE  calls' \in Seq(Call) /\ CallsKept
BY DEF CallsKept

(* A kernel that ends preserves the invariant.                             *)
LEMMA FinishInv ==
    ASSUME IInv, NEW c \in DOMAIN calls, Finish(c)
    PROVE  IInv'
<1> USE DEF IInv
<1>1. PICK status \in {"ok", "bad"} : calls' = [calls EXCEPT ![c].status = status]
  BY DEF Finish
<1>2. calls \in Seq(Call) /\ calls[c] \in Call
  BY DEF TypeOK
<1> DEFINE v == [calls[c] EXCEPT !.status = status]
<1>3. v \in Call /\ v.revision = calls[c].revision
  BY <1>1, <1>2 DEF Call
<1>4. calls' \in Seq(Call) /\ CallsKept
  <2>1. calls' = [calls EXCEPT ![c] = v]
    BY <1>1
  <2> HIDE DEF v
  <2> QED
    BY <1>2, <1>3, <2>1, CallReplaced
<1>5. /\ UNCHANGED <<session, revisions, events>>
      /\ \A g \in Handlers : SameLocals(g)
  BY DEF Finish, dbVars, txnVars, SameLocals
<1>6. TypeOK'
  BY <1>4 DEF TypeOK, Finish, dbVars, meterVars, txnVars, streamVars, boundVars
<1> QED
  BY <1>4, <1>5, <1>6, LocalStep

(* A local result that is lost preserves the invariant.                    *)
LEMMA LoseInv ==
    ASSUME IInv, NEW c \in DOMAIN calls, Lose(c)
    PROVE  IInv'
<1> USE DEF IInv
<1> DEFINE v == [calls[c] EXCEPT !.held = FALSE]
<1>1. calls' = [calls EXCEPT ![c] = v]
  BY DEF Lose
<1>2. calls \in Seq(Call) /\ calls[c] \in Call
  BY DEF TypeOK
<1>3. v \in Call /\ v.revision = calls[c].revision
  BY <1>2 DEF Call
<1> HIDE DEF v
<1>4. calls' \in Seq(Call) /\ CallsKept
  BY <1>1, <1>2, <1>3, CallReplaced
<1>5. /\ UNCHANGED <<session, revisions, events>>
      /\ \A g \in Handlers : SameLocals(g)
  BY DEF Lose, dbVars, txnVars, SameLocals
<1>6. TypeOK'
  BY <1>4 DEF TypeOK, Lose, dbVars, meterVars, txnVars, streamVars
<1> QED
  BY <1>4, <1>5, <1>6, LocalStep

(* The reading transaction of reconcile holds a call that exists.          *)
LEMMA CollectCheckInv ==
    ASSUME IInv, NEW h \in Handlers, CollectCheck(h)
    PROVE  IInv'
<1> DEFINE n == loaded[h].current
           go == /\ loaded[h].state = "building"
                 /\ n \in DOMAIN revisions
                 /\ revisions[n].build = "building"
                 /\ revisions[n].call # 0
<1> USE DEF IInv
<1>1. CASE ~go
  <2>1. ReturnView(h, "decide", loaded[h].state)
    BY <1>1 DEF CollectCheck
  <2>2. loaded[h].state \in States \cup {"none"}
    BY Typed DEF Snapshot
  <2> QED
    BY <2>1, <2>2, ReturnViewInv
<1>2. CASE go
  <2>1. /\ Go(h, "decide", "collect")
        /\ request' = [request EXCEPT ![h].number = n]
        /\ job' = [job EXCEPT ![h].call = revisions[n].call]
        /\ loaded' = [loaded EXCEPT ![h] = NothingLoaded]
        /\ UNCHANGED <<dbVars, meterVars, calls, work, seq, streamVars, boundVars>>
    BY <1>2 DEF CollectCheck
  <2>2. /\ pc' \in [Handlers -> PCs]
        /\ pc[h] # "idle" /\ pc'[h] = "collect"
        /\ \A g \in Handlers \ {h} : pc'[g] = pc[g]
    BY <2>1, GoType, GoOthers DEF PCs
  <2>3. /\ n \in Nat /\ revisions[n].call \in Nat
        /\ revisions[n].call \in DOMAIN calls
        /\ request[h].op # "revise"
    <3>1. /\ n \in Nat
          /\ revisions[n].call \in Nat
          /\ revisions[n].call <= Len(calls)
      BY <1>2, StoredRow
    <3>2. revisions[n].call \in 1 .. Len(calls)
      BY <1>2, <3>1, Typed
    <3>3. request[h].op # "revise"
      BY DEF CollectCheck, Reads, Remembers
    <3> QED
      BY <3>1, <3>2, <3>3, Typed
  <2>4. /\ [request[h] EXCEPT !.number = n] \in Request
        /\ [request[h] EXCEPT !.number = n].number = n
        /\ [request[h] EXCEPT !.number = n].op = request[h].op
        /\ [job[h] EXCEPT !.call = revisions[n].call] \in Job
        /\ [job[h] EXCEPT !.call = revisions[n].call].call = revisions[n].call
    <3>1. request[h] \in Request /\ job[h] \in Job
      BY DEF TypeOK
    <3> HIDE DEF n
    <3> QED
      BY <2>3, <3>1 DEF Request, Job
  <2>5. /\ request'[h].number = n
        /\ request'[h].op = request[h].op
        /\ request' \in [Handlers -> Request]
        /\ \A g \in Handlers \ {h} : request'[g] = request[g]
    <3> HIDE DEF n
    <3> QED
      BY <2>1, <2>4, Placed DEF TypeOK
  <2>6. /\ job'[h].call = revisions[n].call
        /\ job' \in [Handlers -> Job]
        /\ \A g \in Handlers \ {h} : job'[g] = job[g]
    <3> HIDE DEF n
    <3> QED
      BY <2>1, <2>4, Placed DEF TypeOK
  <2>7. /\ loaded'[h] = NothingLoaded
        /\ loaded' \in [Handlers -> Snapshot]
        /\ \A g \in Handlers \ {h} : loaded'[g] = loaded[g]
    BY <2>1, Blanks, Placed DEF TypeOK
  <2>8. TypeOK'
    BY <2>1, <2>2, <2>5, <2>6, <2>7
    DEF TypeOK, dbVars, meterVars, streamVars, boundVars
  <2>9. \A g \in Handlers \ {h} : SameLocals(g)
    BY <2>1, <2>2, <2>5, <2>6, <2>7 DEF SameLocals
  <2>10. UNCHANGED <<session, revisions, events, calls>>
    BY <2>1 DEF dbVars
  <2>11. session.state # "none" /\ session.current \in Nat
    BY <2>2, Typed DEF Remembers
  <2>12. Remembers(h)'
    BY <1>2, <2>2, <2>3, <2>5, <2>6, <2>7, <2>10, <2>11 DEF Remembers, NothingLoaded
  <2> QED
    BY <2>8, <2>9, <2>10, <2>12, LocalStep, CallsUntouched
<1> QED
  BY <1>1, <1>2

(* collect_build preserves the invariant.                                  *)
LEMMA CollectInv ==
    ASSUME IInv, NEW h \in Handlers, Collect(h)
    PROVE  IInv'
<1> DEFINE c == job[h].call
<1> USE DEF IInv
<1>1. /\ Go(h, "collect", "reload")
      /\ UNCHANGED <<session, revisions, events, request, loaded, work, seq>>
  BY DEF Collect, dbVars, txnVars
<1>2. /\ pc' \in [Handlers -> PCs]
      /\ pc[h] = "collect" /\ pc'[h] = "reload"
      /\ \A g \in Handlers \ {h} : pc'[g] = pc[g]
  BY <1>1, GoType, GoOthers DEF PCs
<1>3. /\ c \in DOMAIN calls
      /\ session.state # "none"
      /\ request[h].number \in DOMAIN revisions
      /\ request[h].op # "revise"
      /\ loaded[h].current <= session.current
  BY <1>2 DEF Remembers
<1>4. /\ calls \in Seq(Call)
      /\ calls[c] \in Call
      /\ job[h] \in Job
  BY <1>3 DEF TypeOK
<1>5. PICK outcome \in {"ok", "bad"} : job' = [job EXCEPT ![h].outcome = outcome]
  BY <1>4 DEF Collect, Call
<1>6. [job[h] EXCEPT !.outcome = outcome] \in Job
  BY <1>4, <1>5 DEF Job
<1>7. /\ job' \in [Handlers -> Job]
      /\ \A g \in Handlers \ {h} : job'[g] = job[g]
  BY <1>5, <1>6, Placed DEF TypeOK
<1>8. calls' \in Seq(Call) /\ CallsKept
  <2> DEFINE v == [calls[c] EXCEPT !.held = ~Local]
  <2>1. v \in Call /\ v.revision = calls[c].revision
    BY <1>4, ConstantsAssumption DEF Call
  <2>2. calls' = [calls EXCEPT ![c] = v] \/ UNCHANGED calls
    BY DEF Collect
  <2> HIDE DEF v, c
  <2> QED
    BY <1>3, <1>4, <2>1, <2>2, CallReplaced, CallsUntouched
<1>9. TypeOK'
  BY <1>1, <1>2, <1>7, <1>8 DEF TypeOK, Collect, meterVars, streamVars, boundVars
<1>10. \A g \in Handlers \ {h} : SameLocals(g)
  BY <1>1, <1>2, <1>7 DEF SameLocals
<1>11. Remembers(h)'
  BY <1>1, <1>2, <1>3 DEF Remembers
<1> QED
  BY <1>1, <1>8, <1>9, <1>10, <1>11, LocalStep

(* A build that is not ready preserves the invariant.                      *)
LEMMA NotReadyInv ==
    ASSUME IInv, NEW h \in Handlers, NotReady(h)
    PROVE  IInv'
<1>1. session.state \in States \cup {"none"}
  BY Typed DEF IInv
<1> QED
  BY <1>1, ReturnViewInv DEF NotReady

(* Finding the result recorded preserves the invariant.                    *)
LEMMA RecordNothingInv ==
    ASSUME IInv, NEW h \in Handlers, RecordNothing(h)
    PROVE  IInv'
<1>1. loaded[h].state \in States \cup {"none"}
  BY Typed DEF IInv, Snapshot
<1> QED
  BY <1>1, ReturnViewInv DEF RecordNothing

-----------------------------------------------------------------------------
(* The number a transaction gives to its first event.                      *)

(* _emit takes a number no larger than the next.                           *)
LEMMA ReadEventsInv ==
    ASSUME IInv, NEW h \in Handlers, ReadEvents(h)
    PROVE  IInv'
<1> USE DEF IInv
<1>1. /\ Go(h, "sequence", "commit")
      /\ seq' = [seq EXCEPT ![h] = LastSeq + 1]
      /\ UNCHANGED <<session, revisions, events, calls, request, loaded, work, job>>
  BY DEF ReadEvents, dbVars
<1>2. /\ pc' \in [Handlers -> PCs]
      /\ pc[h] = "sequence" /\ pc'[h] = "commit"
      /\ \A g \in Handlers \ {h} : pc'[g] = pc[g]
  BY <1>1, GoType, GoOthers DEF PCs
<1>3. LastSeq \in Nat /\ LastSeq' = LastSeq
  BY <1>1 DEF LogHasAnEnd, LastSeq
<1>4. /\ seq' \in [Handlers -> Nat]
      /\ seq'[h] = LastSeq + 1
      /\ \A g \in Handlers \ {h} : seq'[g] = seq[g]
  BY <1>1, <1>3, Placed DEF TypeOK
<1>5. TypeOK'
  BY <1>1, <1>2, <1>4 DEF TypeOK, ReadEvents, meterVars, streamVars, boundVars
<1>6. \A g \in Handlers \ {h} : SameLocals(g)
  BY <1>1, <1>2, <1>4 DEF SameLocals
<1>7. Sound(work[h], loaded[h])'
  BY <1>1, <1>2 DEF Remembers, Sound, Approved
<1>8. Remembers(h)'
  BY <1>1, <1>2, <1>3, <1>4, <1>7 DEF Remembers
<1> QED
  BY <1>1, <1>5, <1>6, <1>8, LocalStep, CallsUntouched

-----------------------------------------------------------------------------
(* Metering, streams and crashes.                                          *)

(* The end of metering preserves the invariant.                            *)
LEMMA MeteredInv ==
    ASSUME IInv, NEW h \in Handlers, NEW from, from # "idle", Metered(h, from),
           history' \in Seq(Nat), usage' \in Seq(Nat)
    PROVE  IInv'
<1> USE DEF IInv
<1> DEFINE to == IF h \in Streams THEN "log" ELSE "idle"
<1>1. /\ Go(h, from, to)
      /\ Forget(h)
      /\ UNCHANGED <<session, revisions, events, calls>>
  BY DEF Metered, dbVars
<1>2. /\ pc' \in [Handlers -> PCs]
      /\ pc[h] # "idle" /\ pc'[h] \in {"log", "idle"}
      /\ \A g \in Handlers \ {h} : pc'[g] = pc[g]
  BY <1>1, GoType, GoOthers DEF PCs
<1>3. TypeOK'
  BY <1>1, <1>2, ForgetType DEF TypeOK, Metered, streamVars, boundVars
<1>4. \A g \in Handlers \ {h} : SameLocals(g)
  BY <1>1, <1>2, ForgetOthers DEF SameLocals
<1>5. loaded'[h].current = 0 /\ request'[h] = NoRequest
  BY <1>1, ForgetOthers DEF NothingLoaded
<1> QED
  BY <1>1, <1>2, <1>3, <1>4, <1>5, LocalStep, CallsUntouched, NothingToRemember

(* Writing the history row preserves the invariant.                        *)
LEMMA WriteHistoryInv ==
    ASSUME IInv, NEW h \in Handlers, WriteHistory(h)
    PROVE  IInv'
<1> USE DEF IInv
<1>1. history' \in Seq(Nat) /\ usage' \in Seq(Nat)
  BY Typed DEF WriteHistory, TypeOK
<1>2. CASE Succeeded(h)
  <2>1. /\ Go(h, "history", "charge")
        /\ UNCHANGED <<session, revisions, events, calls, request, loaded, work,
                       seq, job>>
    BY <1>2 DEF WriteHistory, dbVars, txnVars
  <2>2. /\ pc' \in [Handlers -> PCs]
        /\ pc[h] = "history" /\ pc'[h] = "charge"
        /\ \A g \in Handlers \ {h} : pc'[g] = pc[g]
    BY <2>1, GoType, GoOthers DEF PCs
  <2>3. TypeOK'
    BY <1>1, <1>2, <2>1, <2>2 DEF TypeOK, WriteHistory, streamVars, boundVars
  <2>4. \A g \in Handlers \ {h} : SameLocals(g)
    BY <2>1, <2>2 DEF SameLocals
  <2>5. Remembers(h)'
    BY <2>1, <2>2 DEF Remembers
  <2> QED
    BY <2>1, <2>3, <2>4, <2>5, LocalStep, CallsUntouched
<1>3. CASE ~Succeeded(h)
  BY <1>1, <1>3, MeteredInv DEF WriteHistory
<1> QED
  BY <1>2, <1>3

(* Charging preserves the invariant.                                       *)
LEMMA ChargeInv ==
    ASSUME IInv, NEW h \in Handlers, Charge(h)
    PROVE  IInv'
<1>1. history' \in Seq(Nat) /\ usage' \in Seq(Nat)
  BY Typed DEF Charge, TypeOK, IInv
<1> QED
  BY <1>1, MeteredInv DEF Charge

(* A swallowed metering error preserves the invariant.                     *)
LEMMA MeteringFailsInv ==
    ASSUME IInv, NEW h \in Handlers, MeteringFails(h)
    PROVE  IInv'
<1>1. history' \in Seq(Nat) /\ usage' \in Seq(Nat)
  BY DEF MeteringFails, TypeOK, IInv, meterVars
<1> QED
  BY <1>1, MeteredInv DEF MeteringFails

(* A refused commit preserves the invariant.                               *)
LEMMA AbortInv ==
    ASSUME IInv, NEW h \in Handlers, Abort(h)
    PROVE  IInv'
BY LeaveInv DEF Abort

(* What follow hands over is a stretch of the log right after the cursor.  *)
LEMMA SinceIsInterval ==
    ASSUME IInv, NEW s \in Streams, NEW last \in 0 .. LastSeq
    PROVE  {n \in {e.seq : e \in Since(cursor[s])} : n <= last}
               = cursor[s] + 1 .. last
<1> DEFINE new == {e.seq : e \in Since(cursor[s])}
<1>1. cursor[s] \in Nat /\ LastSeq \in Nat
  BY DEF IInv, TypeOK, LogHasAnEnd
<1>2. new = {i \in {e.seq : e \in events} : i > cursor[s]}
  BY DEF Since
<1>3. new = {i \in 1 .. LastSeq : i > cursor[s]}
  BY <1>2 DEF IInv, EventLogGapFree
<1>4. {n \in {i \in 1 .. LastSeq : i > cursor[s]} : n <= last}
          = cursor[s] + 1 .. last
  BY <1>1
<1> HIDE DEF new
<1> QED
  BY <1>3, <1>4 DEF new

(* Handing events over moves nothing the invariant speaks of but types.    *)
LEMMA DeliverInv ==
    ASSUME IInv, NEW s \in Streams, NEW last \in 0 .. LastSeq,
           Deliver(s, last),
           Go(s, "log", "idle") \/ Go(s, "log", "session"),
           UNCHANGED <<dbVars, meterVars, calls, request, txnVars, job, asked>>,
           view' \in [Streams -> States \cup {"none"}],
           crashes' \in Nat
    PROVE  IInv'
<1> DEFINE new == cursor[s] + 1 .. last
<1> USE DEF IInv
<1>1. /\ UNCHANGED <<session, revisions, events, calls, request, loaded, work,
                     seq, job>>
      /\ received' = [received EXCEPT ![s] = @ \o Ascending(new)]
      /\ cursor' = [cursor EXCEPT ![s] = IF new = {} THEN @ ELSE Max(new)]
  BY SinceIsInterval DEF Deliver, dbVars, txnVars
<1>2. s \in Handlers
  BY DEF Handlers
<1>3. /\ pc' \in [Handlers -> PCs]
      /\ pc[s] = "log" /\ pc'[s] \in {"idle", "session"}
      /\ \A g \in Handlers \ {s} : pc'[g] = pc[g]
  BY <1>1, <1>2, GoType, GoOthers DEF PCs
<1>4. cursor[s] \in Nat /\ last \in Nat /\ received[s] \in Seq(Nat)
  BY DEF TypeOK, LogHasAnEnd
<1>5. received[s] \o Ascending(new) \in Seq(Nat)
  <2>1. Ascending(cursor[s] + 1 .. last) \in Seq(Nat)
    BY <1>4, AscendingInterval
  <2> HIDE DEF new
  <2> QED
    BY <1>4, <2>1 DEF new
<1>6. (IF new = {} THEN cursor[s] ELSE Max(new)) \in Nat
  <2>1. CASE cursor[s] + 1 <= last
    BY <1>4, <2>1, MaxOfInterval
  <2>2. CASE ~(cursor[s] + 1 <= last)
    BY <1>4, <2>2
  <2> QED
    BY <2>1, <2>2
<1> HIDE DEF new
<1>7. received' \in [Streams -> Seq(Nat)] /\ cursor' \in [Streams -> Nat]
  BY <1>1, <1>5, <1>6, Placed DEF TypeOK
<1>8. TypeOK'
  BY <1>1, <1>3, <1>7 DEF TypeOK, meterVars
<1>9. \A g \in Handlers \ {s} : SameLocals(g)
  BY <1>1, <1>3 DEF SameLocals
<1>10. Remembers(s)'
  BY <1>1, <1>2, <1>3 DEF Remembers
<1> QED
  BY <1>1, <1>8, <1>9, <1>10, LocalStep, CallsUntouched

(* Going through the log preserves the invariant.                          *)
LEMMA ReadLogInv ==
    ASSUME IInv, NEW s \in Streams, ReadLog(s)
    PROVE  IInv'
<1>1. LastSeq \in 0 .. LastSeq
  BY DEF IInv, LogHasAnEnd
<1>2. view' \in [Streams -> States \cup {"none"}] /\ crashes' \in Nat
  BY DEF ReadLog, IInv, TypeOK, boundVars
<1> QED
  BY <1>1, <1>2, DeliverInv DEF ReadLog, boundVars

(* Losing the connection half way through it does too.                     *)
LEMMA DropInv ==
    ASSUME IInv, NEW s \in Streams, Drop(s)
    PROVE  IInv'
<1>1. PICK last \in cursor[s] .. LastSeq : Deliver(s, last)
  BY DEF Drop
<1>2. last \in 0 .. LastSeq
  BY DEF IInv, TypeOK, LogHasAnEnd
<1>3. view' \in [Streams -> States \cup {"none"}] /\ crashes' \in Nat
  BY DEF Drop, IInv, TypeOK
<1> QED
  BY <1>1, <1>2, <1>3, DeliverInv DEF Drop

(* A handler that dies preserves the invariant.                            *)
LEMMA CrashInv ==
    ASSUME IInv, NEW h \in Handlers, Crash(h)
    PROVE  IInv'
<1> USE DEF IInv
<1>1. /\ Forget(h)
      /\ UNCHANGED <<session, revisions, events, calls>>
      /\ pc' = [pc EXCEPT ![h] = "idle"]
  BY DEF Crash, dbVars
<1>2. /\ pc' \in [Handlers -> PCs]
      /\ pc'[h] = "idle"
      /\ \A g \in Handlers \ {h} : pc'[g] = pc[g]
  BY <1>1, Placed DEF TypeOK, PCs
<1>3. view' \in [Streams -> States \cup {"none"}]
  BY DEF Crash, TypeOK
<1>4. TypeOK'
  <2>1. /\ UNCHANGED <<history, usage, cursor, received, asked>>
        /\ crashes' \in Nat
    BY DEF Crash, meterVars, TypeOK
  <2> QED
    BY <1>1, <1>2, <1>3, <2>1, ForgetType DEF TypeOK
<1>5. \A g \in Handlers \ {h} : SameLocals(g)
  BY <1>1, <1>2, ForgetOthers DEF SameLocals
<1>6. loaded'[h].current = 0 /\ request'[h] = NoRequest
  BY <1>1, ForgetOthers DEF NothingLoaded
<1> QED
  BY <1>1, <1>2, <1>4, <1>5, <1>6, LocalStep, CallsUntouched, NothingToRemember

-----------------------------------------------------------------------------
(* Appending to the log.                                                   *)

(* Events appended right after the last number leave no hole and no        *)
(* repeat.                                                                 *)
LEMMA LogGrows ==
    ASSUME NEW E \in SUBSET Event, NEW last \in Nat,
           {e.seq : e \in E} = 1 .. last,
           \A d, e \in E : d.seq = e.seq => d = e,
           NEW emits \in Seq(Emit)
    PROVE  /\ E \cup Log(last + 1, emits) \subseteq Event
           /\ {e.seq : e \in E \cup Log(last + 1, emits)}
                  = 1 .. last + Len(emits)
           /\ \A d, e \in E \cup Log(last + 1, emits) :
                  d.seq = e.seq => d = e
<1> DEFINE A == Log(last + 1, emits)
<1>1. Len(emits) \in Nat /\ DOMAIN emits = 1 .. Len(emits)
  OBVIOUS
<1>2. ASSUME NEW i \in DOMAIN emits
      PROVE  emits[i].type \in EventTypes /\ emits[i].revision \in Nat
  <2>1. emits[i] \in Emit
    BY <1>2
  <2> QED
    BY <2>1 DEF Emit
<1>3. A = {[seq |-> last + i, type |-> emits[i].type,
            revision |-> emits[i].revision] : i \in 1 .. Len(emits)}
  <2>1. \A i \in DOMAIN emits : last + 1 + i - 1 = last + i
    BY <1>1
  <2> QED
    BY <1>1, <2>1 DEF Log
<1> HIDE DEF A
<1>4. A \subseteq Event
  BY <1>1, <1>2, <1>3 DEF Event
<1>5. ASSUME NEW d \in A
      PROVE  \E i \in 1 .. Len(emits) :
                 d = [seq |-> last + i, type |-> emits[i].type,
                      revision |-> emits[i].revision]
  BY <1>3
<1>6. \A d \in A : d.seq \in last + 1 .. last + Len(emits)
  BY <1>1, <1>5
<1>7. \A d, e \in A : d.seq = e.seq => d = e
  BY <1>1, <1>5
<1>8. \A e \in E : e.seq \in 1 .. last
  OBVIOUS
<1>9. {e.seq : e \in A} = last + 1 .. last + Len(emits)
  <2>1. ASSUME NEW k \in last + 1 .. last + Len(emits)
        PROVE  \E e \in A : e.seq = k
    <3> DEFINE i == k - last
               e == [seq |-> last + i, type |-> emits[i].type,
                     revision |-> emits[i].revision]
    <3>1. i \in 1 .. Len(emits) /\ last + i = k
      BY <1>1
    <3>2. e \in A
      BY <1>3, <3>1
    <3> QED
      BY <3>1, <3>2
  <2> QED
    BY <1>6, <2>1
<1>10. {e.seq : e \in E \cup A} = 1 .. last + Len(emits)
  <2>1. {e.seq : e \in E \cup A} = {e.seq : e \in E} \cup {e.seq : e \in A}
    OBVIOUS
  <2>2. (1 .. last) \cup (last + 1 .. last + Len(emits)) = 1 .. last + Len(emits)
    BY <1>1
  <2> QED
    BY <1>9, <2>1, <2>2
<1>11. \A d, e \in E \cup A : d.seq = e.seq => d = e
  BY <1>1, <1>6, <1>7, <1>8
<1> QED
  BY <1>4, <1>10, <1>11 DEF A

(* Creating the session establishes what the invariant says of one.        *)
LEMMA CreateInv ==
    ASSUME IInv, Create
    PROVE  IInv'
<1> USE DEF IInv
<1>1. /\ session.state = "none" /\ session.current = 0 /\ events = {}
      /\ revisions \in [1 .. 0 -> Row] /\ DOMAIN revisions = {}
      /\ UNCHANGED <<calls, pc, request, loaded, work, seq, job>>
  BY DEF Create, BeforeCreation, CurrentIsLast, TypeOK, txnVars
<1>2. PICK emits \in Seq(Emit) : events' = Log(1, emits)
  <2>1. /\ Says("session_created", 0) \in Emit
        /\ Says("session_created", 1) \in Emit
        /\ Says("questions_required", 0) \in Emit
        /\ Says("failed", 0) \in Emit
        /\ Says("plan_created", 1) \in Emit
        /\ Says("approval_required", 1) \in Emit
    BY DEF Says, Emit, EventTypes
  <2> QED
    <3> DEFINE asks == <<Says("session_created", 0),
                         Says("questions_required", 0)>>
               fails == <<Says("session_created", 0), Says("failed", 0)>>
               plans == <<Says("session_created", 1), Says("plan_created", 1),
                          Says("approval_required", 1)>>
    <3>1. asks \in Seq(Emit) /\ fails \in Seq(Emit) /\ plans \in Seq(Emit)
      BY <2>1
    <3>2. \/ events' = Log(1, asks)
          \/ events' = Log(1, fails)
          \/ events' = Log(1, plans)
      BY DEF Create
    <3> HIDE DEF asks, fails, plans
    <3> QED
      BY <3>1, <3>2
<1>3. /\ events' \subseteq Event
      /\ {e.seq : e \in events'} = 1 .. Len(emits)
      /\ \A d, e \in events' : d.seq = e.seq => d = e
  <2>1. Len(emits) \in Nat
    OBVIOUS
  <2>2. /\ {} \in SUBSET Event
        /\ {e.seq : e \in {}} = 1 .. 0
        /\ \A d, e \in {} : d.seq = e.seq => d = e
    OBVIOUS
  <2> DEFINE A == Log(0 + 1, emits)
  <2>3. /\ {} \cup A \subseteq Event
        /\ {e.seq : e \in {} \cup A} = 1 .. 0 + Len(emits)
        /\ \A d, e \in {} \cup A : d.seq = e.seq => d = e
    BY <2>2, LogGrows, Zenon
  <2>4. events' = {} \cup A
    BY <1>2
  <2> HIDE DEF A
  <2> QED
    BY <2>1, <2>3, <2>4
<1>4. LastSeq' = Len(emits) /\ Len(emits) \in Nat
  BY <1>3, LogEnd DEF LastSeq
<1>5. LastSeq = 0
  BY <1>1 DEF LastSeq
<1>6. /\ session' \in [state : States \cup {"none"}, current : Nat]
      /\ session'.state # "none"
      /\ DOMAIN revisions' = 1 .. session'.current
      /\ revisions' \in [DOMAIN revisions' -> Row]
      /\ DOMAIN revisions' \subseteq Nat
      /\ \A n \in DOMAIN revisions' : revisions'[n] = NewRow
  <2> USE <1>1, Blanks DEF Create, States
  <2>1. CASE revisions' = [n \in {1} |-> NewRow]
             /\ session' = [state |-> "awaiting_approval", current |-> 1]
    <3>1. DOMAIN revisions' = 1 .. 1 /\ \A n \in 1 .. 1 : revisions'[n] = NewRow
      BY <2>1
    <3> QED
      BY <2>1, <3>1
  <2>2. CASE UNCHANGED revisions /\ session' = [state |-> "questions", current |-> 0]
    BY <2>2
  <2>3. CASE UNCHANGED revisions /\ session' = [state |-> "failed", current |-> 0]
    BY <2>3
  <2> QED
    BY <2>1, <2>2, <2>3
<1>7. TypeOK'
  BY <1>1, <1>3, <1>6 DEF TypeOK, Create, meterVars, streamVars, boundVars
<1>8. Grows /\ LogHasAnEnd'
  BY <1>1, <1>4, <1>5, <1>6 DEF Grows, LogHasAnEnd, TypeOK
<1>9. \A g \in Handlers : SameLocals(g)
  BY <1>1 DEF SameLocals
<1>10. \A g \in Handlers : Remembers(g)'
  BY <1>7, <1>8, <1>9, RememberGrows
<1>11. BeforeCreation' /\ CurrentIsLast' /\ EventLogGapFree'
  BY <1>3, <1>4, <1>6 DEF BeforeCreation, CurrentIsLast, EventLogGapFree
<1>12. StoredRows'
  BY <1>1, <1>6 DEF StoredRows, NewRow, TypeOK
<1>13. BuiltOnlyIfApproved'
  BY <1>1 DEF BuiltOnlyIfApproved
<1> QED
  BY <1>7, <1>8, <1>10, <1>11, <1>12, <1>13

-----------------------------------------------------------------------------
(* Committing: the two unique constraints are what keeps the numbering of  *)
(* events and of revisions without gaps when stale reads race.             *)

(* A commit that violates no constraint preserves the invariant.           *)
LEMMA CommitInv ==
    ASSUME IInv, NEW h \in Handlers, Commit(h)
    PROVE  IInv'
<1> USE DEF IInv
<1> DEFINE w == work[h]
           l == loaded[h]
           emits == w.emits
<1>1. /\ pc[h] = "commit"
      /\ ~Collides(h)
      /\ session' = SessionAfter(h)
      /\ revisions' = RevisionsAfter(h)
      /\ events' = events \cup Appended(h)
      /\ UNCHANGED calls
  BY DEF Commit
<1>2. /\ session.state # "none"
      /\ l.current <= session.current
      /\ Sound(w, l)
      /\ seq[h] \in 1 .. LastSeq + 1
      /\ h \in Streams => request[h].op # "revise"
  BY <1>1 DEF Remembers
<1>3. /\ session.current \in Nat
      /\ session.state \in States \cup {"none"}
      /\ w.state \in States \cup {"none"}
      /\ w.current \in Nat /\ w.insert \in Nat /\ w.target \in Nat
      /\ w.row \in Row
      /\ l.current \in Nat
      /\ emits \in Seq(Emit)
      /\ LastSeq \in Nat
      /\ Len(calls) \in Nat
  <2>1. w.state \in States \cup {"none"}
    BY Typed DEF Work
  <2> QED
    BY <2>1, Typed DEF LogHasAnEnd
<1>4. seq[h] = LastSeq + 1
  <2>1. \A i \in 1 .. LastSeq : \E e \in events : e.seq = i
    BY DEF EventLogGapFree
  <2>2. seq[h] \notin 1 .. LastSeq
    BY <1>1, <2>1 DEF Collides
  <2> QED
    BY <1>2, <1>3, <2>2
<1>5. /\ events' \subseteq Event
      /\ {e.seq : e \in events'} = 1 .. LastSeq + Len(emits)
      /\ \A d, e \in events' : d.seq = e.seq => d = e
  <2>1. events' = events \cup Log(LastSeq + 1, emits)
    BY <1>1, <1>4 DEF Appended
  <2>2. events \in SUBSET Event
    BY DEF TypeOK
  <2>3. /\ {e.seq : e \in events} = 1 .. LastSeq
        /\ \A d, e \in events : d.seq = e.seq => d = e
    BY DEF EventLogGapFree
  <2> HIDE DEF emits
  <2> DEFINE A == Log(LastSeq + 1, emits)
  <2>4. /\ events \cup A \subseteq Event
        /\ {e.seq : e \in events \cup A} = 1 .. LastSeq + Len(emits)
        /\ \A d, e \in events \cup A : d.seq = e.seq => d = e
    BY <1>3, <2>2, <2>3, LogGrows, Zenon
  <2> HIDE DEF A
  <2> QED
    BY <2>1, <2>4 DEF A
<1>6. Len(emits) \in Nat
  BY <1>3
<1>7. LastSeq' = LastSeq + Len(emits)
  <2> DEFINE k == LastSeq + Len(emits)
  <2>1. k \in Nat /\ {e.seq : e \in events'} = 1 .. k
    BY <1>3, <1>5, <1>6
  <2> HIDE DEF k
  <2>2. LastSeq' = k
    BY <2>1, LogEnd DEF LastSeq
  <2> QED
    BY <2>2 DEF k
<1>8. /\ w.state # "none"
      /\ w.row.call <= Len(calls)
      /\ w.insert = 0 => w.current = l.current
      /\ w.insert # 0 => w.current = w.insert /\ w.insert <= session.current + 1
  BY <1>2 DEF Sound
<1>9. /\ session'.state \in States \cup {"none"}
      /\ session'.state # "none"
      /\ session' = [state |-> session'.state, current |-> session'.current]
      /\ session'.current = IF w.insert = 0 THEN session.current ELSE w.insert
      /\ w.insert # 0 => w.insert = session.current + 1
  <2>1. ASSUME w.insert # 0 PROVE w.insert = session.current + 1
    <3>1. w.insert \notin 1 .. session.current
      BY <1>1, <2>1 DEF Collides, Inserted, CurrentIsLast
    <3> QED
      BY <1>3, <1>8, <2>1, <3>1
  <2>2. /\ session'.state = Written(l.state, w.state, session.state)
        /\ session'.current = Written(l.current, w.current, session.current)
        /\ session' = [state |-> session'.state, current |-> session'.current]
    BY <1>1 DEF SessionAfter
  <2>3. session'.state \in States \cup {"none"} /\ session'.state # "none"
    BY <1>2, <1>3, <1>8, <2>2 DEF Written
  <2>4. session'.current = IF w.insert = 0 THEN session.current ELSE w.insert
    BY <1>2, <1>3, <1>8, <2>1, <2>2 DEF Written
  <2> QED
    BY <2>1, <2>2, <2>3, <2>4
<1>10. /\ DOMAIN revisions = 1 .. session.current
       /\ DOMAIN revisions' = 1 .. session'.current
  <2>1. DOMAIN revisions = 1 .. session.current
    BY DEF CurrentIsLast
  <2>2. DOMAIN revisions' = DOMAIN revisions \cup Inserted(h)
    BY <1>1 DEF RevisionsAfter
  <2> QED
    BY <1>3, <1>9, <2>1, <2>2 DEF Inserted
<1>11. ASSUME NEW n \in DOMAIN revisions'
       PROVE  \/ revisions'[n] = NewRow
              \/ n \in DOMAIN revisions /\ revisions'[n] = revisions[n]
              \/ /\ n \in DOMAIN revisions
                 /\ n = w.target
                 /\ revisions'[n] = WrittenRow(l.row, w.row, revisions[n])
  BY <1>1 DEF RevisionsAfter
<1>12. ASSUME NEW n \in DOMAIN revisions
       PROVE  LET r == WrittenRow(l.row, w.row, revisions[n]) IN
              /\ r \in Row
              /\ r.call \in {w.row.call, revisions[n].call}
              /\ r.approval = "approved" =>
                    "approved" \in {w.row.approval, revisions[n].approval}
  BY <1>3, StoredRow DEF WrittenRow, Written, Row
<1>13. NewRow \in Row /\ NewRow.call = 0 /\ NewRow.approval # "approved"
  BY Blanks DEF NewRow
<1>14. /\ DOMAIN revisions' \subseteq Nat
       /\ revisions' \in [DOMAIN revisions' -> Row]
  <2>1. ASSUME NEW n \in DOMAIN revisions' PROVE revisions'[n] \in Row
    <3>1. CASE revisions'[n] = NewRow
      BY <1>13, <3>1
    <3>2. CASE n \in DOMAIN revisions /\ revisions'[n] = revisions[n]
      BY <1>3, <3>2, StoredRow
    <3>3. CASE /\ n \in DOMAIN revisions
               /\ revisions'[n] = WrittenRow(l.row, w.row, revisions[n])
      BY <1>12, <3>3
    <3> QED
      BY <1>11, <2>1, <3>1, <3>2, <3>3
  <2>2. revisions' = [n \in DOMAIN revisions' |-> revisions'[n]]
    BY <1>1 DEF RevisionsAfter
  <2>3. DOMAIN revisions' \subseteq Nat
    BY <1>3, <1>9, <1>10
  <2> QED
    BY <2>1, <2>2, <2>3
<1>15. /\ pc' \in [Handlers -> PCs]
       /\ pc'[h] \in {"history", "idle"}
       /\ \A g \in Handlers \ {h} : pc'[g] = pc[g]
  BY GoType, GoOthers DEF Commit, PCs
<1>16. /\ request' \in [Handlers -> Request]
       /\ loaded' \in [Handlers -> Snapshot]
       /\ work' \in [Handlers -> Work]
       /\ seq' \in [Handlers -> Nat]
       /\ job' \in [Handlers -> Job]
       /\ loaded'[h] = NothingLoaded
       /\ request'[h] \in {request[h], NoRequest}
       /\ \A g \in Handlers \ {h} : SameLocals(g)
  <2>1. CASE Reads(h)
    <3>1. /\ loaded' = [loaded EXCEPT ![h] = NothingLoaded]
          /\ work' = [work EXCEPT ![h] = NoWork]
          /\ seq' = [seq EXCEPT ![h] = 0]
          /\ UNCHANGED <<request, job>>
      BY <2>1 DEF Commit
    <3> QED
      BY <1>15, <3>1, Blanks, Placed DEF TypeOK, SameLocals
  <2>2. CASE ~Reads(h)
    <3>1. Forget(h)
      BY <2>2 DEF Commit
    <3> QED
      BY <1>15, <3>1, ForgetType, ForgetOthers DEF SameLocals
  <2> QED
    BY <2>1, <2>2
<1>17. /\ view' \in [Streams -> States \cup {"none"}]
       /\ UNCHANGED <<history, usage, cursor, received, asked, crashes>>
  <2>1. CASE Reads(h)
    BY <1>3, <2>1 DEF Commit, TypeOK, meterVars, boundVars
  <2>2. CASE ~Reads(h)
    BY <2>2 DEF Commit, TypeOK, meterVars, streamVars, boundVars
  <2> QED
    BY <2>1, <2>2
<1>18. session' \in [state : States \cup {"none"}, current : Nat]
  BY <1>3, <1>9
<1>19. TypeOK'
  BY <1>1, <1>5, <1>14, <1>15, <1>16, <1>17, <1>18 DEF TypeOK
<1>20. Grows /\ LogHasAnEnd'
  <2> HIDE DEF emits, w, l
  <2>1. LastSeq <= LastSeq' /\ LastSeq' \in Nat
    BY <1>3, <1>6, <1>7
  <2>2. session.current <= session'.current /\ session'.current \in Nat
    BY <1>3, <1>9 DEF w
  <2>3. DOMAIN revisions \subseteq DOMAIN revisions'
    BY <1>3, <1>10, <2>2
  <2> QED
    BY <1>1, <1>3, <1>9, <2>1, <2>2, <2>3 DEF Grows, LogHasAnEnd
<1>21. \A g \in Handlers \ {h} : Remembers(g)'
  BY <1>16, <1>19, <1>20, RememberGrows
<1>22. Remembers(h)'
  BY <1>2, <1>3, <1>9, <1>15, <1>16, <1>20
  DEF Remembers, NothingLoaded, NoRequest, Grows
<1>23. BeforeCreation' /\ CurrentIsLast' /\ EventLogGapFree'
  BY <1>5, <1>7, <1>9, <1>10 DEF BeforeCreation, CurrentIsLast, EventLogGapFree
<1>24. ASSUME NEW n, Approved(n)
       PROVE  Approved(n)'
  BY <1>1, <1>24 DEF Approved
<1>25. ASSUME NEW n, n = w.target, n # 0, w.row.approval = "approved"
       PROVE  Approved(n)'
  <2>1. CASE Approved(n)
    BY <1>24, <2>1
  <2>2. CASE ~Approved(n)
    <3>1. PICK i \in DOMAIN emits : emits[i] = Says("approval_received", n)
      BY <1>2, <1>25, <2>2 DEF Sound
    <3> DEFINE e == [seq |-> seq[h] + i - 1, type |-> emits[i].type,
                     revision |-> emits[i].revision]
    <3>2. e \in events'
      BY <1>1 DEF Appended, Log
    <3>3. e.type = "approval_received" /\ e.revision = n
      BY <3>1 DEF Says
    <3> HIDE DEF e
    <3> QED
      BY <3>2, <3>3 DEF Approved
  <2> QED
    BY <2>1, <2>2
<1>26. StoredRows'
  <2>1. SUFFICES ASSUME NEW n \in DOMAIN revisions'
                PROVE  /\ revisions'[n].call <= Len(calls')
                       /\ revisions'[n].approval = "approved" => Approved(n)'
    BY DEF StoredRows
  <2>2. CASE revisions'[n] = NewRow
    BY <1>1, <1>3, <1>13, <2>2
  <2>3. CASE n \in DOMAIN revisions /\ revisions'[n] = revisions[n]
    BY <1>1, <1>24, <2>3, StoredRow
  <2>4. CASE /\ n \in DOMAIN revisions
             /\ n = w.target
             /\ revisions'[n] = WrittenRow(l.row, w.row, revisions[n])
    <3>1. n # 0
      BY <1>3, <1>10, <2>4
    <3>2. /\ revisions[n].call <= Len(calls)
          /\ revisions[n].approval = "approved" => Approved(n)
      BY <2>4, StoredRow
    <3>3. /\ revisions'[n].call \in {w.row.call, revisions[n].call}
          /\ revisions'[n].approval = "approved" =>
                "approved" \in {w.row.approval, revisions[n].approval}
      BY <1>12, <2>4
    <3> QED
      BY <1>1, <1>8, <1>24, <1>25, <2>4, <3>1, <3>2, <3>3
  <2> QED
    BY <1>11, <2>2, <2>3, <2>4
<1>27. BuiltOnlyIfApproved'
  BY <1>1 DEF BuiltOnlyIfApproved
<1> QED
  BY <1>19, <1>20, <1>21, <1>22, <1>23, <1>26, <1>27

-----------------------------------------------------------------------------
(* Every behaviour.                                                        *)

(* The invariant holds before the session exists.                          *)
LEMMA InitInv == Init => IInv
<1> SUFFICES ASSUME Init PROVE IInv
  OBVIOUS
<1> USE DEF Init
<1>1. LastSeq = 0
  BY DEF LastSeq
<1>2. DOMAIN revisions = {} /\ calls = <<>> /\ DOMAIN calls = {}
  OBVIOUS
<1>3. TypeOK
  <2>1. /\ pc \in [Handlers -> PCs]
        /\ request \in [Handlers -> Request]
        /\ loaded \in [Handlers -> Snapshot]
        /\ work \in [Handlers -> Work]
        /\ seq \in [Handlers -> Nat]
        /\ job \in [Handlers -> Job]
    BY Blanks DEF PCs
  <2> QED
    BY <1>2, <2>1 DEF TypeOK
<1>4. \A h \in Handlers : Remembers(h)
  BY <1>1 DEF Remembers, NoRequest, NothingLoaded
<1> QED
  BY <1>1, <1>2, <1>3, <1>4
  DEF IInv, BeforeCreation, CurrentIsLast, LogHasAnEnd, EventLogGapFree,
      StoredRows, BuiltOnlyIfApproved

(* Doing nothing preserves the invariant.                                  *)
LEMMA StutterInv ==
    ASSUME IInv, UNCHANGED vars
    PROVE  IInv'
<1>1. /\ UNCHANGED <<session, revisions, events, calls>>
      /\ \A g \in Handlers : SameLocals(g)
  BY DEF vars, dbVars, txnVars, SameLocals
<1>2. TypeOK'
  BY DEF IInv, TypeOK, vars, dbVars, meterVars, txnVars, streamVars, boundVars
<1> QED
  BY <1>1, <1>2, LocalStep, CallsUntouched

(* Every step of a handler preserves the invariant.                        *)
LEMMA StepInv ==
    ASSUME IInv, NEW h \in Handlers, Step(h)
    PROVE  IInv'
<1>1. CASE ReadSession(h)    BY <1>1, ReadSessionInv
<1>2. CASE Approve(h)        BY <1>2, ApproveInv
<1>3. CASE Reject(h)         BY <1>3, RejectInv
<1>4. CASE Accept(h)         BY <1>4, AcceptInv
<1>5. CASE Cancel(h)         BY <1>5, CancelInv
<1>6. CASE ReviseRead(h)     BY <1>6, ReviseReadInv
<1>7. CASE Redesign(h)       BY <1>7, RedesignInv
<1>8. CASE ReviseFailed(h)   BY <1>8, ReviseFailedInv
<1>9. CASE ReviseWrite(h)    BY <1>9, ReviseWriteInv
<1>10. CASE BuildCheck(h)    BY <1>10, BuildCheckInv
<1>11. CASE StartFails(h)    BY <1>11, StartFailsInv
<1>12. CASE StartBuild(h)    BY <1>12, StartBuildInv
<1>13. CASE CollectCheck(h)  BY <1>13, CollectCheckInv
<1>14. CASE Collect(h)       BY <1>14, CollectInv
<1>15. CASE NotReady(h)      BY <1>15, NotReadyInv
<1>16. CASE RecordNothing(h) BY <1>16, RecordNothingInv
<1>17. CASE RecordResult(h)  BY <1>17, RecordResultInv
<1>18. CASE ReadEvents(h)    BY <1>18, ReadEventsInv
<1>19. CASE Abort(h)         BY <1>19, AbortInv
<1>20. CASE Commit(h)        BY <1>20, CommitInv
<1>21. CASE WriteHistory(h)  BY <1>21, WriteHistoryInv
<1>22. CASE Charge(h)        BY <1>22, ChargeInv
<1>23. CASE MeteringFails(h) BY <1>23, MeteringFailsInv
<1> QED
  BY <1>1, <1>2, <1>3, <1>4, <1>5, <1>6, <1>7, <1>8, <1>9, <1>10, <1>11,
     <1>12, <1>13, <1>14, <1>15, <1>16, <1>17, <1>18, <1>19, <1>20, <1>21,
     <1>22, <1>23
  DEF Step

(* Every step preserves the invariant.                                     *)
LEMMA NextInv ==
    ASSUME IInv, [Next]_vars
    PROVE  IInv'
<1>1. CASE Create
  BY <1>1, CreateInv
<1>2. ASSUME NEW h \in Requests, Ask(h) PROVE IInv'
  BY <1>2, AskInv
<1>3. ASSUME NEW s \in Streams, Connect(s) PROVE IInv'
  BY <1>3, ConnectInv
<1>4. ASSUME NEW s \in Streams, ReadLog(s) PROVE IInv'
  BY <1>4, ReadLogInv
<1>5. ASSUME NEW h \in Handlers, Step(h) PROVE IInv'
  BY <1>5, StepInv
<1>6. ASSUME NEW h \in Handlers, Crash(h) PROVE IInv'
  BY <1>6, CrashInv
<1>7. ASSUME NEW c \in DOMAIN calls, Finish(c) PROVE IInv'
  BY <1>7, FinishInv
<1>8. ASSUME NEW c \in DOMAIN calls, Lose(c) PROVE IInv'
  BY <1>8, LoseInv
<1>9. ASSUME NEW s \in Streams, Drop(s) PROVE IInv'
  BY <1>9, DropInv
<1>10. CASE UNCHANGED vars
  BY <1>10, StutterInv
<1> QED
  BY <1>1, <1>2, <1>3, <1>4, <1>5, <1>6, <1>7, <1>8, <1>9, <1>10 DEF Next

(* IInv holds in every state the code can reach, for any number of         *)
(* requests, streams and crashes and with transactions overlapping freely. *)
THEOREM Invariance == Spec => []IInv
<1>1. Init => IInv
  BY InitInv
<1>2. IInv /\ [Next]_vars => IInv'
  BY NextInv
<1> QED
  BY <1>1, <1>2, PTL DEF Spec

(* Every row and every local variable of design_sessions.py keeps its type.*)
THEOREM TypeCorrect == Spec => []TypeOK
<1>1. IInv => TypeOK
  BY DEF IInv
<1> QED
  BY <1>1, Invariance, PTL

(* _emit numbers the log without a hole or a repeat, however stale the     *)
(* number a transaction read: uq_session_event_seq turns a race into a     *)
(* refused commit.                                                         *)
THEOREM LogIsGapFree == Spec => []EventLogGapFree
<1>1. IInv => EventLogGapFree
  BY DEF IInv
<1> QED
  BY <1>1, Invariance, PTL

(* Revisions are never overwritten and their numbers have no hole; the     *)
(* session row always names the last one.                                  *)
THEOREM CurrentStaysLast == Spec => []CurrentIsLast
<1>1. IInv => CurrentIsLast
  BY DEF IInv
<1> QED
  BY <1>1, Invariance, PTL

(* build hands nothing to the builder that no person approved by number.   *)
THEOREM GateHolds == Spec => []BuiltOnlyIfApproved
<1>1. IInv => BuiltOnlyIfApproved
  BY DEF IInv
<1> QED
  BY <1>1, Invariance, PTL

-----------------------------------------------------------------------------
(* What a stream delivers.                                                 *)

(* Only a delivery moves a cursor, and no step takes an event back.        *)
OthersOnly ==
    /\ UNCHANGED <<cursor, received>>
    /\ events \subseteq events'

(* Every step is a delivery or leaves all cursors alone.                   *)
LEMMA OnlyDeliveries ==
    ASSUME IInv, [Next]_vars
    PROVE  OthersOnly \/ \E s \in Streams : ReadLog(s) \/ Drop(s)
<1> USE DEF OthersOnly, dbVars, streamVars
<1>1. ASSUME NEW h, NEW from, Leave(h, from) PROVE OthersOnly
  BY <1>1 DEF Leave
<1>2. ASSUME NEW h, NEW from, NEW state, ReturnView(h, from, state)
      PROVE OthersOnly
  BY <1>1, <1>2 DEF ReturnView
<1>3. ASSUME NEW h, NEW from, NEW legal, NEW l, NEW w,
             Decide(h, from, legal, l, w)
      PROVE OthersOnly
  BY <1>1, <1>3 DEF Decide
<1>4. CASE Create
  BY <1>4 DEF Create, IInv, BeforeCreation
<1>5. ASSUME NEW h, Ask(h) \/ Connect(h) \/ Crash(h) PROVE OthersOnly
  BY <1>5 DEF Ask, Connect, Crash
<1>6. ASSUME NEW h, Step(h) PROVE OthersOnly
  <2>1. CASE \/ Approve(h) \/ Reject(h) \/ Accept(h) \/ Cancel(h)
             \/ ReviseFailed(h) \/ ReviseWrite(h) \/ StartFails(h)
             \/ RecordResult(h)
    BY <1>3, <2>1
    DEF Approve, Reject, Accept, Cancel, Move, ReviseFailed, ReviseWrite,
        StartFails, RecordResult
  <2>2. CASE \/ ReadSession(h) \/ Redesign(h) \/ StartBuild(h) \/ Collect(h)
             \/ ReadEvents(h)
    BY <2>2 DEF ReadSession, Redesign, StartBuild, Collect, ReadEvents
  <2>3. CASE ReviseRead(h) \/ BuildCheck(h) \/ CollectCheck(h)
    BY <1>1, <1>2, <2>3 DEF ReviseRead, BuildCheck, CollectCheck
  <2>4. CASE NotReady(h) \/ RecordNothing(h) \/ Abort(h)
    BY <1>1, <1>2, <2>4 DEF NotReady, RecordNothing, Abort
  <2>5. CASE Commit(h)
    BY <2>5 DEF Commit
  <2>6. CASE WriteHistory(h) \/ Charge(h) \/ MeteringFails(h)
    BY <2>6 DEF WriteHistory, Charge, MeteringFails, Metered
  <2> QED
    BY <1>6, <2>1, <2>2, <2>3, <2>4, <2>5, <2>6 DEF Step
<1>7. ASSUME NEW c, Finish(c) \/ Lose(c) PROVE OthersOnly
  BY <1>7 DEF Finish, Lose
<1>8. CASE UNCHANGED vars
  BY <1>8 DEF vars
<1> QED
  BY <1>4, <1>5, <1>6, <1>7, <1>8 DEF Next

(* A cursor never runs ahead of the log.                                   *)
LEMMA CursorInLog ==
    ASSUME IInv, StreamDeliversLog, NEW s \in Streams
    PROVE  cursor[s] \in 0 .. LastSeq
<1>1. cursor[s] \in Nat /\ LastSeq \in Nat
  BY DEF IInv, TypeOK, LogHasAnEnd
<1>2. cursor[s] > 0 => cursor[s] \in 1 .. LastSeq
  BY DEF IInv, EventLogGapFree, StreamDeliversLog
<1> QED
  BY <1>1, <1>2

(* A delivery continues what the client has, up to the event it ends with. *)
LEMMA DeliveryContinues ==
    ASSUME IInv, StreamDeliversLog, NEW s \in Streams,
           NEW last \in cursor[s] .. LastSeq, Deliver(s, last),
           UNCHANGED events
    PROVE  StreamDeliversLog'
<1> DEFINE new == cursor[s] + 1 .. last
           tail == Ascending(new)
<1> USE DEF IInv
<1>0. last \in 0 .. LastSeq
  BY DEF TypeOK, LogHasAnEnd
<1>1. /\ UNCHANGED events
      /\ received' = [received EXCEPT ![s] = received[s] \o tail]
      /\ cursor' = [cursor EXCEPT ![s] = IF new = {} THEN @ ELSE Max(new)]
  BY <1>0, SinceIsInterval DEF Deliver
<1>2. /\ cursor[s] \in Nat /\ LastSeq \in Nat
      /\ received[s] \in Seq(Nat)
      /\ Len(received[s]) = cursor[s]
      /\ \A i \in DOMAIN received[s] : received[s][i] = i
      /\ cursor[s] > 0 => \E e \in events : e.seq = cursor[s]
  BY DEF TypeOK, LogHasAnEnd, StreamDeliversLog
<1>3. cursor[s] <= last /\ last \in Nat
  BY <1>2
<1>4. (IF new = {} THEN cursor[s] ELSE Max(new)) = last
  <2>1. CASE cursor[s] < last
    <3>1. cursor[s] + 1 <= last /\ cursor[s] + 1 \in Nat
      BY <1>2, <1>3, <2>1
    <3>2. Max(new) = last
      BY <1>3, <3>1, MaxOfInterval
    <3>3. new # {}
      BY <1>3, <3>1
    <3> HIDE DEF new
    <3> QED
      BY <3>2, <3>3
  <2>2. CASE cursor[s] = last
    BY <1>2, <2>2
  <2> QED
    BY <1>2, <1>3, <2>1, <2>2
<1>5. /\ tail \in Seq(Nat)
      /\ Len(tail) = last - Len(received[s])
      /\ \A i \in DOMAIN tail : tail[i] = Len(received[s]) + i
  <2>1. /\ tail \in Seq(Nat)
        /\ Len(tail) = IF last > cursor[s] THEN last - cursor[s] ELSE 0
        /\ \A i \in DOMAIN tail : tail[i] = cursor[s] + i
    BY <1>2, <1>3, AscendingInterval, Zenon
  <2> HIDE DEF tail
  <2> QED
    BY <1>2, <1>3, <2>1
<1> HIDE DEF new, tail
<1>6. cursor'[s] = last /\ \A g \in Streams \ {s} : cursor'[g] = cursor[g]
  BY <1>1, <1>4 DEF TypeOK
<1>7. received'[s] = received[s] \o tail
      /\ \A g \in Streams \ {s} : received'[g] = received[g]
  BY <1>1 DEF TypeOK
<1>8. /\ Len(received[s] \o tail) = last
      /\ \A i \in DOMAIN (received[s] \o tail) : (received[s] \o tail)[i] = i
  <2>1. /\ Len(received[s]) <= last
        /\ last \in Nat
    BY <1>2, <1>3
  <2> QED
    BY <1>2, <1>5, <2>1, RunContinues, Zenon
<1>9. /\ Len(received'[s]) = last
      /\ \A i \in DOMAIN received'[s] : received'[s][i] = i
  BY <1>7, <1>8, Zenon
<1>10. last > 0 => \E e \in events' : e.seq = last
  <2>1. last > 0 => last \in {e.seq : e \in events}
    BY <1>2 DEF EventLogGapFree
  <2> QED
    BY <1>1, <2>1
<1> QED
  BY <1>1, <1>6, <1>7, <1>9, <1>10 DEF StreamDeliversLog

(* follow hands every client the log from 1 on, in order, without a gap or *)
(* a repeat, however often it reconnects and whoever appends meanwhile.    *)
THEOREM StreamsDeliver == Spec => []StreamDeliversLog
<1>1. Init => StreamDeliversLog
  BY DEF Init, StreamDeliversLog
<1>2. ASSUME IInv, StreamDeliversLog, [Next]_vars
      PROVE  StreamDeliversLog'
  <2>1. CASE OthersOnly
    BY <1>2, <2>1 DEF OthersOnly, StreamDeliversLog
  <2>2. ASSUME NEW s \in Streams, ReadLog(s) PROVE StreamDeliversLog'
    <3>1. LastSeq \in cursor[s] .. LastSeq
      BY <1>2, CursorInLog DEF IInv, LogHasAnEnd
    <3> QED
      BY <1>2, <2>2, <3>1, DeliveryContinues DEF ReadLog, dbVars
  <2>3. ASSUME NEW s \in Streams, Drop(s) PROVE StreamDeliversLog'
    <3>1. PICK last \in cursor[s] .. LastSeq : Deliver(s, last)
      BY <2>3 DEF Drop
    <3>2. UNCHANGED events
      BY <2>3 DEF Drop, dbVars
    <3> QED
      BY <1>2, <3>1, <3>2, DeliveryContinues
  <2> QED
    BY <1>2, <2>1, <2>2, <2>3, OnlyDeliveries
<1> QED
  BY <1>1, <1>2, Invariance, PTL DEF Spec

=============================================================================
