-------------------------- MODULE AgentTurns_proofs --------------------------
(***************************************************************************)
(* TLAPS proofs about AgentTurns and FreecadDocument, for any turns,       *)
(* objects, pillars and numbers of tool calls.                             *)
(***************************************************************************)
EXTENDS AgentTurnsInv, SequenceTheorems, TLAPS

-----------------------------------------------------------------------------
(* The document.                                                           *)

LEMMA ValuesAreKnown ==
    /\ Untouched \notin Values
    /\ \A t \in Turns : \A s \in {"good", "broken", "gone"} : Made(t, s) \in Values
    /\ \A s \in Failures : s \in {"good", "broken", "gone"}
<1>1. \A t \in Turns : t # "untouched"
  BY DocumentAssumption
<1>2. \A t, s : Made(t, s) = Untouched => t = "untouched"
  BY DEF Made, Untouched
<1>3. Untouched \notin Values
  BY <1>1, <1>2 DEF Values, Original, Absent, Untouched
<1>4. \A t \in Turns : \A s \in {"good", "broken", "gone"} : Made(t, s) \in Values
  BY DEF Values
<1>5. \A s \in Failures : s \in {"good", "broken", "gone"}
  BY DocumentAssumption
<1> QED
  BY <1>3, <1>4, <1>5

LEMMA CommitTyped ==
    ASSUME NEW d \in Documents
    PROVE  /\ Commit(d) \in Documents
           /\ Commit(d).value = d.value
           /\ Commit(d).open = FALSE
           /\ Commit(d).before = NoChange
           /\ Commit(d).undo \in {d.undo, Append(d.undo, d.before)}
<1> DEFINE u == IF d.before = NoChange THEN d.undo ELSE Append(d.undo, d.before)
<1>1. Commit(d) = [value |-> d.value, open |-> FALSE, before |-> NoChange, undo |-> u]
  BY DEF Commit
<1>2. NoChange \in Changes
  BY DEF NoChange, Changes
<1>3. u \in Seq(Changes)
  BY DEF Documents
<1>4. u \in {d.undo, Append(d.undo, d.before)}
  OBVIOUS
<1> HIDE DEF u
<1> QED
  BY <1>1, <1>2, <1>3, <1>4 DEF Documents

LEMMA BeginTyped ==
    ASSUME NEW d \in Documents
    PROVE  /\ Begin(d) \in Documents
           /\ Begin(d).value = d.value
           /\ Begin(d).open = TRUE
           /\ Begin(d).before = NoChange
           /\ Begin(d).undo \in {d.undo, Append(d.undo, d.before)}
<1> DEFINE c == Commit(d)
<1>1. /\ c \in Documents /\ c.value = d.value /\ c.before = NoChange
      /\ c.undo \in {d.undo, Append(d.undo, d.before)}
  BY CommitTyped
<1>2. Begin(d) = [c EXCEPT !.open = TRUE]
  BY DEF Begin
<1> HIDE DEF c
<1>3. c = [value |-> c.value, open |-> c.open, before |-> c.before, undo |-> c.undo]
  BY <1>1 DEF Documents
<1>4. Begin(d) = [value |-> c.value, open |-> TRUE, before |-> c.before, undo |-> c.undo]
  BY <1>2, <1>3
<1>5. c.value \in [Objects -> Values] /\ c.before \in Changes /\ c.undo \in Seq(Changes)
  BY <1>1 DEF Documents
<1>6. Begin(d) \in Documents
  BY <1>4, <1>5 DEF Documents
<1> QED
  BY <1>1, <1>4, <1>6

LEMMA RestoredTyped ==
    ASSUME NEW value \in [Objects -> Values], NEW change \in Changes
    PROVE  Restored(value, change) \in [Objects -> Values]
<1>1. \A o \in Objects : change[o] \in Values \cup {Untouched}
  BY DEF Changes
<1> QED
  BY <1>1 DEF Restored

LEMMA AbortTyped ==
    ASSUME NEW d \in Documents
    PROVE  /\ Abort(d) \in Documents
           /\ Abort(d).value = Restored(d.value, d.before)
           /\ Abort(d).open = FALSE
           /\ Abort(d).before = NoChange
           /\ Abort(d).undo = d.undo
<1>1. Abort(d) = [value |-> Restored(d.value, d.before), open |-> FALSE,
                  before |-> NoChange, undo |-> d.undo]
  BY DEF Abort
<1>2. NoChange \in Changes
  BY DEF NoChange, Changes
<1>3. Restored(d.value, d.before) \in [Objects -> Values]
  BY RestoredTyped DEF Documents
<1> QED
  BY <1>1, <1>2, <1>3 DEF Documents

\* An undo restores an entry of the stack, one that this commit may have pushed.
LEMMA UndoTyped ==
    ASSUME NEW d \in Documents
    PROVE  /\ Undo(d) \in Documents
           /\ Undo(d).open = FALSE
           /\ Undo(d).before = NoChange
           /\ \E stack \in Seq(Changes) :
                /\ stack \in {d.undo, Append(d.undo, d.before)}
                /\ \/ Undo(d).value = d.value /\ Undo(d).undo = stack
                   \/ /\ stack # << >>
                      /\ Undo(d).value = Restored(d.value, stack[Len(stack)])
                      /\ Undo(d).undo = SubSeq(stack, 1, Len(stack) - 1)
<1> DEFINE c == Commit(d)
<1>1. /\ c \in Documents /\ c.value = d.value /\ c.open = FALSE /\ c.before = NoChange
      /\ c.undo \in {d.undo, Append(d.undo, d.before)}
  BY CommitTyped
<1>2. c.undo \in Seq(Changes) /\ c.value \in [Objects -> Values] /\ c.before \in Changes
  BY <1>1 DEF Documents
<1>3. CASE c.undo = << >>
  <2>1. Undo(d) = c
    BY <1>3 DEF Undo
  <2> QED
    BY <1>1, <1>2, <2>1
<1>4. CASE c.undo # << >>
  <2>1. c.undo[Len(c.undo)] \in Changes /\ Len(c.undo) \in Nat \ {0}
    BY <1>2, <1>4
  <2>2. SubSeq(c.undo, 1, Len(c.undo) - 1) \in Seq(Changes)
    BY <1>2, <2>1
  <2>3. Restored(c.value, c.undo[Len(c.undo)]) \in [Objects -> Values]
    BY <1>2, <2>1, RestoredTyped
  <2>4. Undo(d) = [value |-> Restored(c.value, c.undo[Len(c.undo)]), open |-> FALSE,
                   before |-> NoChange, undo |-> SubSeq(c.undo, 1, Len(c.undo) - 1)]
    BY <1>4 DEF Undo
  <2> HIDE DEF c
  <2>5. Undo(d) \in Documents /\ Undo(d).open = FALSE /\ Undo(d).before = NoChange
    BY <1>1, <1>2, <2>2, <2>3, <2>4 DEF Documents
  <2> QED
    BY <1>1, <1>2, <1>4, <2>4, <2>5
<1> QED
  BY <1>3, <1>4

LEMMA WriteTyped ==
    ASSUME NEW d \in Documents, NEW o \in Objects, NEW v \in Values
    PROVE  /\ Write(d, o, v) \in Documents
           /\ Write(d, o, v).open = d.open
           /\ Write(d, o, v).undo = d.undo
           /\ Write(d, o, v).value = [d.value EXCEPT ![o] = v]
           /\ Write(d, o, v).before \in
                {d.before, [d.before EXCEPT ![o] = d.value[o]]}
           /\ d.open => Write(d, o, v).before[o] # Untouched
<1> DEFINE b == [d.before EXCEPT ![o] = IF d.open /\ @ = Untouched
                                       THEN d.value[o] ELSE @]
<1>1. /\ d.value \in [Objects -> Values] /\ d.before \in Changes /\ d.open \in BOOLEAN
      /\ d.undo \in Seq(Changes)
  BY DEF Documents
<1>2. Write(d, o, v) = [value |-> [d.value EXCEPT ![o] = v], open |-> d.open,
                        before |-> b, undo |-> d.undo]
  BY DEF Write
<1>3. b \in Changes /\ b \in {d.before, [d.before EXCEPT ![o] = d.value[o]]}
  BY <1>1 DEF Changes
<1>4. d.open => b[o] # Untouched
  BY <1>1, ValuesAreKnown DEF Changes
<1>5. [d.value EXCEPT ![o] = v] \in [Objects -> Values]
  BY <1>1
<1> HIDE DEF b
<1> QED
  BY <1>1, <1>2, <1>3, <1>4, <1>5 DEF Documents
-----------------------------------------------------------------------------
(* Capabilities and their answers.                                         *)

LEMMA SaysTyped ==
    ASSUME NEW status \in Statuses
    PROVE  /\ Says(status) \in Reply
           /\ Says(status).status = status
           /\ Says(status).snapshot = NoSnapshot
<1>1. NoSnapshot \in Changes
  BY DEF NoSnapshot, Changes
<1> QED
  BY <1>1 DEF Says, Reply

\* How a tool ends, and what it has done to the document by then.
LEMMA ToolEffectCases ==
    ASSUME NEW t \in Turns, NEW x \in Tools \cup {NoTool}, NEW e \in ToolEffects(t, x)
    PROVE  \/ x.kind = "undo" /\ e = Effect(Says("ok"), Undo(doc))
           \/ x.kind # "undo" /\ e = Effect(Says("error"), doc)
           \/ /\ x.kind = "replace" /\ x.object \in Objects
              /\ e = Effect(Says("ok"), Write(doc, x.object, Made(t, "good")))
           \/ /\ x.kind # "undo"
              /\ \E status \in {"ok", "failed", "error"}, o \in Objects,
                    s \in {"good", "broken", "gone"} :
                   e = Effect([Says(status) EXCEPT !.created = o],
                              Write(doc, o, Made(t, s)))
<1> DEFINE Present(o) == doc.value[o].state # "gone"
           Fresh == {o \in Created : doc.value[o] = Absent}
           Makes(status, o, state) ==
             Effect([Says(status) EXCEPT !.created = o], Write(doc, o, Made(t, state)))
           Refuses == {Effect(Says("error"), doc)}
           Adds == Refuses \cup {Makes("ok", o, "good") : o \in Fresh}
           Some == \E status \in {"ok", "failed", "error"}, o \in Objects,
                      s \in {"good", "broken", "gone"} : e = Makes(status, o, s)
<1>1. Fresh \subseteq Objects /\ Failures \subseteq {"good", "broken", "gone"}
  BY ValuesAreKnown DEF Objects
<1>2. e \in Adds => e \in Refuses \/ Some
  BY <1>1
<1>3. CASE x.kind = "undo"
  BY <1>3 DEF ToolEffects
<1>4. CASE x.kind = "edit"
  <2>1. x.object \in Objects
    BY <1>4 DEF Tools, NoTool
  <2>2. e \in Refuses \/ (\E status \in {"ok", "error"}, s \in Failures \cup {"good"} :
                             e = Makes(status, x.object, s))
    BY <1>4 DEF ToolEffects
  <2> QED
    BY <1>1, <1>4, <2>1, <2>2
<1>5. CASE x.kind = "replace"
  <2>1. x.object \in Objects
    BY <1>5 DEF Tools, NoTool
  <2>2. e \in Adds \/ e = Effect(Says("ok"), Write(doc, x.object, Made(t, "good")))
    BY <1>5 DEF ToolEffects
  <2> QED
    BY <1>2, <1>5, <2>1, <2>2
<1>6. CASE x.kind = "delete"
  <2>1. x.object \in Objects
    BY <1>6 DEF Tools, NoTool
  <2>2. e \in Refuses \/ e = Makes("ok", x.object, "gone")
    BY <1>6 DEF ToolEffects
  <2> QED
    BY <1>6, <2>1, <2>2
<1>7. CASE x.kind \in {"import", "insert"}
  <2>1. e \in Adds
    BY <1>7 DEF ToolEffects
  <2> QED
    BY <1>2, <1>7, <2>1
<1>8. CASE x.kind = "build"
  <2> DEFINE Fails == {Makes(status, o, s) : status \in {"failed", "error"},
                                            o \in Fresh, s \in Failures}
  <2>1. ToolEffects(t, x) = Adds \cup Fails
    BY <1>8 DEF ToolEffects
  <2>2. e \in Fails => \E status \in {"failed", "error"}, o \in Fresh, s \in Failures :
                         e = Makes(status, o, s)
    <3> HIDE DEF Makes, Fresh
    <3> QED
      OBVIOUS
  <2>3. e \in Fails => Some
    <3> HIDE DEF Makes, Fails, Fresh
    <3> QED
      BY <1>1, <2>2
  <2>4. e \in Refuses \/ Some
    <3> HIDE DEF Adds, Fails, Some, Refuses
    <3> QED
      BY <1>2, <2>1, <2>3
  <2> QED
    BY <1>8, <2>4
<1>9. CASE x = NoTool
  BY <1>9 DEF ToolEffects, NoTool
<1> QED
  BY <1>3, <1>4, <1>5, <1>6, <1>7, <1>8, <1>9 DEF Tools

\* The answers of tools, and what they leave in the document.
LEMMA ToolEffectTyped ==
    ASSUME doc \in Documents,
           NEW t \in Turns, NEW x \in Tools \cup {NoTool}, NEW e \in ToolEffects(t, x)
    PROVE  /\ e.answer \in Reply
           /\ e.answer.status \in {"ok", "failed", "error"}
           /\ e.answer.snapshot = NoSnapshot
           /\ x.kind \in BuildTools /\ e.answer.status \in {"ok", "failed"} =>
                e.answer.created \in Objects
           /\ e.doc \in Documents
           /\ \/ x.kind = "undo" /\ e.doc = Undo(doc)
              \/ e.doc = doc
              \/ \E o \in Objects, s \in {"good", "broken", "gone"} :
                   e.doc = Write(doc, o, Made(t, s))
<1>1. CASE x.kind = "undo" /\ e = Effect(Says("ok"), Undo(doc))
  BY <1>1, SaysTyped, UndoTyped DEF Effect, BuildTools, Statuses
<1>2. CASE x.kind # "undo" /\ e = Effect(Says("error"), doc)
  BY <1>2, SaysTyped DEF Effect, BuildTools, Statuses
<1>3. CASE /\ x.kind = "replace" /\ x.object \in Objects
           /\ e = Effect(Says("ok"), Write(doc, x.object, Made(t, "good")))
  <2>1. Made(t, "good") \in Values
    BY ValuesAreKnown
  <2> QED
    BY <1>3, <2>1, SaysTyped, WriteTyped DEF Effect, BuildTools, Statuses
<1>4. ASSUME NEW status \in {"ok", "failed", "error"}, NEW o \in Objects,
             NEW s \in {"good", "broken", "gone"},
             e = Effect([Says(status) EXCEPT !.created = o], Write(doc, o, Made(t, s)))
      PROVE  /\ e.answer \in Reply
             /\ e.answer.status \in {"ok", "failed", "error"}
             /\ e.answer.snapshot = NoSnapshot
             /\ e.answer.created \in Objects
             /\ e.doc \in Documents
             /\ e.doc = Write(doc, o, Made(t, s))
  <2>1. Made(t, s) \in Values
    BY ValuesAreKnown
  <2>2. NoSnapshot \in Changes
    BY DEF NoSnapshot, Changes
  <2>3. e.answer = [status |-> status, created |-> o, snapshot |-> NoSnapshot]
    BY <1>4 DEF Effect, Says
  <2>4. e.doc = Write(doc, o, Made(t, s))
    BY <1>4 DEF Effect
  <2>5. e.answer \in Reply
    BY <2>2, <2>3 DEF Reply, Statuses
  <2>6. Write(doc, o, Made(t, s)) \in Documents
    BY <2>1, WriteTyped
  <2> QED
    BY <2>3, <2>4, <2>5, <2>6
<1>5. ASSUME \E status \in {"ok", "failed", "error"}, o \in Objects,
                s \in {"good", "broken", "gone"} :
               e = Effect([Says(status) EXCEPT !.created = o], Write(doc, o, Made(t, s))),
             x.kind # "undo"
      PROVE  /\ e.answer \in Reply
             /\ e.answer.status \in {"ok", "failed", "error"}
             /\ e.answer.snapshot = NoSnapshot
             /\ e.answer.created \in Objects
             /\ e.doc \in Documents
             /\ \E o \in Objects, s \in {"good", "broken", "gone"} :
                  e.doc = Write(doc, o, Made(t, s))
  <2>1. PICK status \in {"ok", "failed", "error"}, o \in Objects,
             s \in {"good", "broken", "gone"} :
          e = Effect([Says(status) EXCEPT !.created = o], Write(doc, o, Made(t, s)))
    BY <1>5
  <2> QED
    BY <1>4, <2>1
<1> QED
  BY <1>1, <1>2, <1>3, <1>5, ToolEffectCases

\* The answers of every capability.
LEMMA EffectTyped ==
    ASSUME doc \in Documents, NEW task \in Task, NEW e \in Effects(task)
    PROVE  /\ e.answer \in Reply
           /\ e.answer.status \in {"ok", "failed", "error"}
           /\ e.doc \in Documents
<1>1. CASE task.cap \in {"baseline", "verify"}
  <2>1. e.answer = [status |-> "ok", created |-> "none", snapshot |-> doc.value]
    BY <1>1 DEF Effects, Effect, Says
  <2>2. doc.value \in Changes
    BY DEF Documents, Changes
  <2>3. e.doc = doc
    BY <1>1 DEF Effects, Effect
  <2> QED
    BY <2>1, <2>2, <2>3 DEF Reply, Statuses
<1>2. CASE task.cap = "begin"
  <2>1. e.answer = Says("ok") /\ e.doc = Begin(doc)
    BY <1>2 DEF Effects, Effect
  <2> QED
    BY <2>1, SaysTyped, BeginTyped DEF Statuses
<1>3. CASE task.cap = "commit"
  <2>1. e.answer = Says("ok") /\ e.doc = Commit(doc)
    BY <1>3 DEF Effects, Effect
  <2> QED
    BY <2>1, SaysTyped, CommitTyped DEF Statuses
<1>4. CASE task.cap = "abort"
  <2>1. e.answer = Says("ok") /\ e.doc = Abort(doc)
    BY <1>4 DEF Effects, Effect
  <2> QED
    BY <2>1, SaysTyped, AbortTyped DEF Statuses
<1>5. CASE task.cap = "tool"
  BY <1>5, ToolEffectTyped DEF Effects, Task
<1> QED
  BY <1>1, <1>2, <1>3, <1>4, <1>5 DEF Task, Capabilities
-----------------------------------------------------------------------------
(* Types.                                                                  *)

Pcs == Capabilities \cup {"idle", "think", "conclude", "done", "dead"}

LEMMA NoReplyTyped == NoReply \in Reply /\ NoReply.status = "waiting" /\ Says("lost") \in Reply
  BY SaysTyped DEF NoReply, Statuses

LEMMA AskTyped ==
    ASSUME AgentTypeOK, NEW t \in Turns, NEW cap \in Capabilities,
           NEW x \in Tools \cup {NoTool}, Ask(t, cap, x)
    PROVE  /\ queue' \in Seq(Task)
           /\ pc' \in [Turns -> Pcs]
           /\ reply' \in [Turns -> Reply]
           /\ dangling' \in BOOLEAN
<1>1. pc' = [pc EXCEPT ![t] = cap] /\ pc \in [Turns -> Pcs]
  BY DEF Ask, AgentTypeOK, Pcs
<1>2. pc' \in [Turns -> Pcs]
  BY <1>1 DEF Pcs
<1>3. CASE /\ queue' = Append(queue, [turn |-> t, cap |-> cap, tool |-> x, awaited |-> TRUE])
           /\ reply' = [reply EXCEPT ![t] = NoReply]
           /\ UNCHANGED dangling
  <2>1. [turn |-> t, cap |-> cap, tool |-> x, awaited |-> TRUE] \in Task
    BY DEF Task
  <2> QED
    BY <1>2, <1>3, <2>1, NoReplyTyped DEF AgentTypeOK
<1>4. CASE /\ reply' = [reply EXCEPT ![t] = Says("lost")]
           /\ dangling' = (dangling \/ cap \in {"abort", "commit"})
           /\ UNCHANGED queue
  <2>1. dangling' \in BOOLEAN
    BY <1>4
  <2> QED
    BY <1>2, <1>4, <2>1, NoReplyTyped DEF AgentTypeOK
<1> QED
  BY <1>3, <1>4 DEF Ask

\* A call that is given up on stays a task.
LEMMA AbandonedTyped ==
    ASSUME AgentTypeOK, NEW t \in Turns
    PROVE  /\ Abandoned(t) \in Seq(Task)
           /\ DOMAIN Abandoned(t) = DOMAIN queue
           /\ Len(Abandoned(t)) = Len(queue)
           /\ \A i \in DOMAIN queue :
                /\ Abandoned(t)[i].turn = queue[i].turn
                /\ Abandoned(t)[i].cap = queue[i].cap
                /\ Abandoned(t)[i].tool = queue[i].tool
                /\ Abandoned(t)[i].awaited <=> queue[i].awaited /\ queue[i].turn # t
<1>1. queue \in Seq(Task) /\ Len(queue) \in Nat /\ DOMAIN queue = 1 .. Len(queue)
  BY DEF AgentTypeOK
<1>2. ASSUME NEW i \in DOMAIN queue
      PROVE  /\ Abandoned(t)[i] \in Task
             /\ Abandoned(t)[i].turn = queue[i].turn
             /\ Abandoned(t)[i].cap = queue[i].cap
             /\ Abandoned(t)[i].tool = queue[i].tool
             /\ Abandoned(t)[i].awaited <=> queue[i].awaited /\ queue[i].turn # t
  <2> DEFINE still == queue[i].awaited /\ queue[i].turn # t
  <2>1. queue[i] \in Task
    BY <1>1, <1>2
  <2>2. Abandoned(t)[i] = [turn |-> queue[i].turn, cap |-> queue[i].cap,
                           tool |-> queue[i].tool, awaited |-> still]
    BY <2>1 DEF Abandoned, Task
  <2>3. still \in BOOLEAN
    OBVIOUS
  <2>4. still <=> queue[i].awaited /\ queue[i].turn # t
    OBVIOUS
  <2> HIDE DEF still
  <2> QED
    BY <2>1, <2>2, <2>3, <2>4 DEF Task
<1>3. DOMAIN Abandoned(t) = 1 .. Len(queue)
  BY <1>1 DEF Abandoned
<1>4. Abandoned(t) \in [1 .. Len(queue) -> Task]
  BY <1>1, <1>2, <1>3 DEF Abandoned
<1>5. Abandoned(t) \in Seq(Task) /\ Len(Abandoned(t)) = Len(queue)
  BY <1>1, <1>3, <1>4
<1> QED
  BY <1>1, <1>2, <1>3, <1>5

\* A task that has run is taken out, the ones behind it move up.
LEMMA WithoutTyped ==
    ASSUME NEW q \in Seq(Task), NEW i \in 1 .. Len(q)
    PROVE  /\ Without(q, i) \in Seq(Task)
           /\ Len(Without(q, i)) = Len(q) - 1
           /\ \A j \in DOMAIN Without(q, i) :
                Without(q, i)[j] = q[IF j < i THEN j ELSE j + 1]
           /\ \A j \in DOMAIN Without(q, i) :
                /\ (IF j < i THEN j ELSE j + 1) \in DOMAIN q
                /\ (IF j < i THEN j ELSE j + 1) # i
<1>1. Len(q) \in Nat /\ Len(q) - 1 \in Nat /\ DOMAIN q = 1 .. Len(q)
  OBVIOUS
<1>2. DOMAIN Without(q, i) = 1 .. Len(q) - 1
  BY DEF Without
<1>3. ASSUME NEW j \in 1 .. Len(q) - 1
      PROVE  /\ Without(q, i)[j] = q[IF j < i THEN j ELSE j + 1]
             /\ (IF j < i THEN j ELSE j + 1) \in DOMAIN q
             /\ (IF j < i THEN j ELSE j + 1) # i
  BY <1>1 DEF Without
<1>4. Without(q, i) \in [1 .. Len(q) - 1 -> Task]
  BY <1>1, <1>2, <1>3 DEF Without
<1>5. Without(q, i) \in Seq(Task) /\ Len(Without(q, i)) = Len(q) - 1
  <2>1. PICK n \in Nat : n = Len(q) - 1
    BY <1>1
  <2>2. Without(q, i) \in [1 .. n -> Task] /\ DOMAIN Without(q, i) = 1 .. n
    BY <1>2, <1>4, <2>1
  <2>3. Without(q, i) \in Seq(Task) /\ Len(Without(q, i)) = n
    BY <2>2
  <2> QED
    BY <2>1, <2>3
<1> QED
  BY <1>2, <1>3, <1>5
\* What every turn's own actions keep of the types, but for what Ask changes.
TurnTypes ==
    /\ pillar \in [Turns -> AllPillars \cup {"none"}]
    /\ txnOpen \in [Turns -> BOOLEAN]
    /\ tool \in [Turns -> Tools \cup {NoTool}]
    /\ edited \in [Turns -> SUBSET Objects]
    /\ baseline \in [Turns -> Changes]
    /\ did \in [Turns -> SUBSET (BuildTools \cup {"sandbox"})]
    /\ used \in [Turns -> Nat]
    /\ \A t \in Turns : used[t] <= MaxTools[t] + 1

CallTypes ==
    /\ queue \in Seq(Task)
    /\ pc \in [Turns -> Pcs]
    /\ reply \in [Turns -> Reply]
    /\ dangling \in BOOLEAN

RestTypes ==
    /\ doc \in Documents
    /\ rolledBack \in [Turns -> BOOLEAN]
    /\ uncovered \subseteq Turns
    /\ verified \subseteq Turns
    /\ crossed \subseteq Turns

LEMMA TypeParts ==
    /\ AgentTypeOK => TurnTypes /\ CallTypes /\ RestTypes
    /\ TurnTypes' /\ CallTypes' /\ RestTypes' => AgentTypeOK'
  BY DEF AgentTypeOK, TurnTypes, CallTypes, RestTypes, Pcs

LEMMA AskKeepsCallTypes ==
    ASSUME AgentTypeOK, NEW t \in Turns, NEW cap \in Capabilities,
           NEW x \in Tools \cup {NoTool}, Ask(t, cap, x)
    PROVE  CallTypes'
  BY AskTyped DEF CallTypes

LEMMA LeaveTyped ==
    ASSUME AgentTypeOK, NEW t \in Turns, NEW how \in {"done", "dead"}, Leave(t, how)
    PROVE  TurnTypes' /\ pc' \in [Turns -> Pcs] /\ reply' \in [Turns -> Reply]
<1>1. NoSnapshot \in Changes
  BY DEF NoSnapshot, Changes
<1>2. TurnTypes /\ pc \in [Turns -> Pcs] /\ reply \in [Turns -> Reply]
  BY TypeParts DEF CallTypes
<1>3. MaxTools \in [Turns -> Nat]
  BY AgentAssumption
<1>4. pc' \in [Turns -> Pcs] /\ reply' \in [Turns -> Reply]
  BY <1>2, NoReplyTyped DEF Leave, Pcs
<1>5. TurnTypes'
  BY <1>1, <1>2, <1>3 DEF Leave, TurnTypes
<1> QED
  BY <1>4, <1>5

LEMMA UseToolTyped ==
    ASSUME AgentTypeOK, NEW t \in Turns, NEW x \in Tools, UseTool(t, x)
    PROVE  /\ CallTypes' /\ RestTypes'
           /\ tool' \in [Turns -> Tools \cup {NoTool}]
<1>1. CallTypes'
  BY AskKeepsCallTypes DEF UseTool, Capabilities
<1>2. RestTypes'
  BY TypeParts DEF UseTool, RestTypes
<1>3. tool' \in [Turns -> Tools \cup {NoTool}]
  BY TypeParts DEF UseTool, TurnTypes
<1> QED
  BY <1>1, <1>2, <1>3

LEMMA ResolveTyped ==
    ASSUME AgentTypeOK, NEW t \in Turns, NEW failed, Resolve(t, failed)
    PROVE  CallTypes' /\ TurnTypes'
<1>1. CASE txnOpen[t]
  <2>1. CallTypes'
    <3>1. (IF failed THEN "abort" ELSE "commit") \in Capabilities
      BY DEF Capabilities
    <3> QED
      BY <1>1, <3>1, AskKeepsCallTypes DEF Resolve
  <2>2. TurnTypes'
    BY <1>1, TypeParts DEF Resolve, TurnTypes
  <2> QED
    BY <2>1, <2>2
<1>2. CASE ~txnOpen[t]
  <2>1. Leave(t, "done") /\ UNCHANGED <<queue, dangling>>
    BY <1>2 DEF Resolve
  <2> QED
    BY <2>1, LeaveTyped, TypeParts DEF CallTypes
<1> QED
  BY <1>1, <1>2
\* What a tool call adds to the objects the turn knows of is an object.
LEMMA TrackedTyped ==
    ASSUME AgentTypeOK, CreatedInv, NEW t \in Turns, pc[t] = "tool"
    PROVE  Tracked(tool[t], reply[t]) \subseteq Objects
<1>1. tool[t] \in Tools \cup {NoTool}
  BY DEF AgentTypeOK
<1>2. tool[t].kind \in {"edit", "replace"} => tool[t].object \in Objects
  BY <1>1 DEF Tools, NoTool
<1>3. tool[t].kind = "import" /\ reply[t].status = "ok" => reply[t].created \in Objects
  BY DEF CreatedInv
<1>4. tool[t].kind = "build" /\ reply[t].status \in {"ok", "failed"}
        => reply[t].created \in Objects
  BY DEF CreatedInv
<1> QED
  BY <1>2, <1>3, <1>4 DEF Tracked

LEMMA RunTyped ==
    ASSUME AgentTypeOK, NEW i \in 1 .. Len(queue), Run(i)
    PROVE  AgentTypeOK'
<1>1. queue \in Seq(Task) /\ doc \in Documents /\ reply \in [Turns -> Reply]
  BY DEF AgentTypeOK
<1>2. queue[i] \in Task
  BY <1>1
<1>3. PICK e \in Effects(queue[i]) :
         /\ doc' = e.doc
         /\ reply' = IF queue[i].awaited THEN [reply EXCEPT ![queue[i].turn] = e.answer]
                                         ELSE reply
  BY DEF Run
<1>4. e.answer \in Reply /\ e.doc \in Documents
  BY <1>1, <1>2, EffectTyped
<1>5. queue' \in Seq(Task)
  BY <1>1, WithoutTyped DEF Run
<1>6. reply' \in [Turns -> Reply]
  BY <1>1, <1>2, <1>3, <1>4 DEF Task
<1>7. CallTypes'
  BY <1>5, <1>6, TypeParts DEF Run, CallTypes, history
<1>8. RestTypes'
  <2>1. \A j \in 1 .. i : queue[j] \in Task
    BY <1>1
  <2>2. Overtaken(i) \subseteq Turns
    BY <2>1 DEF Overtaken, Task
  <2> QED
    BY <1>3, <1>4, <2>2, TypeParts DEF Run, RestTypes
<1>9. TurnTypes'
  BY TypeParts DEF Run, TurnTypes
<1> QED
  BY <1>7, <1>8, <1>9, TypeParts

LEMMA FinishTyped ==
    ASSUME AgentTypeOK, NEW t \in Turns, Finish(t)
    PROVE  AgentTypeOK'
<1> USE AgentAssumption
<1>1. CASE ImportByItself(t)
  <2> DEFINE x == [kind |-> "import", object |-> "none"]
  <2>1. x \in Tools /\ UseTool(t, x)
    BY <1>1 DEF ImportByItself, Tools
  <2>2. CallTypes' /\ RestTypes' /\ tool' \in [Turns -> Tools \cup {NoTool}]
    BY <2>1, UseToolTyped
  <2>3. TurnTypes'
    BY <1>1, <2>1, <2>2, TypeParts DEF ImportByItself, UseTool, TurnTypes
  <2> QED
    BY <2>2, <2>3, TypeParts
<1>2. CASE pc' = [pc EXCEPT ![t] = "conclude"] /\ ~ImportByItself(t)
  <2>1. UNCHANGED <<doc, queue, reply, pillar, txnOpen, tool, edited, baseline,
                    did, used, rolledBack, history>>
    BY <1>2 DEF Finish
  <2> QED
    BY <1>2, <2>1, TypeParts DEF CallTypes, RestTypes, TurnTypes, history, Pcs
<1> QED
  BY <1>1, <1>2 DEF Finish

LEMMA CallToolTyped ==
    ASSUME AgentTypeOK, NEW t \in Turns, CallTool(t)
    PROVE  AgentTypeOK'
<1>1. PICK x \in ToolsOf(pillar[t]) : UseTool(t, x)
  BY DEF CallTool
<1>2. x \in Tools
  BY <1>1 DEF ToolsOf
<1>3. CallTypes' /\ RestTypes' /\ tool' \in [Turns -> Tools \cup {NoTool}]
  BY <1>1, <1>2, UseToolTyped
<1>4. TurnTypes'
  BY <1>1, <1>3, TypeParts, AgentAssumption DEF CallTool, UseTool, TurnTypes
<1> QED
  BY <1>3, <1>4, TypeParts

\* Every step keeps the types, given that a tool's answer names what it made.
LEMMA TypesKept ==
    ASSUME AgentTypeOK, CreatedInv, Next
    PROVE  AgentTypeOK'
<1> USE AgentAssumption
<1>0. TurnTypes /\ CallTypes /\ RestTypes
  BY TypeParts
<1>1. ASSUME NEW t \in Turns, Start(t)
      PROVE  AgentTypeOK'
  <2>1. PICK p \in AllPillars : pillar' = [pillar EXCEPT ![t] = p]
    BY <1>1 DEF Start
  <2>2. CallTypes'
    BY <1>1, AskKeepsCallTypes DEF Start, Capabilities
  <2>3. RestTypes' /\ TurnTypes'
    BY <1>0, <1>1, <2>1 DEF Start, Beside, RestTypes, TurnTypes
  <2> QED
    BY <2>2, <2>3, TypeParts
<1>2. ASSUME NEW t \in Turns, TakeBaseline(t)
      PROVE  AgentTypeOK'
  <2>1. CallTypes' /\ RestTypes'
    BY <1>0, <1>2, NoReplyTyped DEF TakeBaseline, CallTypes, RestTypes, history, Pcs
  <2>2. reply[t].snapshot \in Changes
    BY <1>0 DEF CallTypes, Reply
  <2>3. TurnTypes'
    BY <1>0, <1>2, <2>2 DEF TakeBaseline, TurnTypes
  <2> QED
    BY <2>1, <2>3, TypeParts
<1>3. ASSUME NEW t \in Turns, Sandbox(t)
      PROVE  AgentTypeOK'
  BY <1>0, <1>3, TypeParts DEF Sandbox, CallTypes, RestTypes, TurnTypes, history
<1>4. ASSUME NEW t \in Turns, Begun(t)
      PROVE  AgentTypeOK'
  <2>1. CallTypes'
    BY <1>0, <1>4, AskKeepsCallTypes DEF Begun, Capabilities, TurnTypes
  <2>2. RestTypes' /\ TurnTypes'
    BY <1>0, <1>4 DEF Begun, RestTypes, TurnTypes
  <2> QED
    BY <2>1, <2>2, TypeParts
<1>5. ASSUME NEW t \in Turns, ToolDone(t)
      PROVE  AgentTypeOK'
  <2>1. CallTypes' /\ RestTypes'
    BY <1>0, <1>5, NoReplyTyped DEF ToolDone, CallTypes, RestTypes, history, Pcs
  <2>2. pc[t] = "tool"
    BY <1>5 DEF ToolDone, Answered
  <2>3. Tracked(tool[t], reply[t]) \subseteq Objects
    BY <2>2, TrackedTyped
  <2>4. CountsAs(tool[t]) \subseteq BuildTools
    BY DEF CountsAs, BuildTools
  <2>5. TurnTypes'
    BY <1>0, <1>5, <2>3, <2>4 DEF ToolDone, TurnTypes
  <2> QED
    BY <2>1, <2>5, TypeParts
<1>6. ASSUME NEW t \in Turns, Verify(t)
      PROVE  AgentTypeOK'
  <2>1. CallTypes'
    BY <1>6, AskKeepsCallTypes DEF Verify, Capabilities
  <2> QED
    BY <1>0, <1>6, <2>1, TypeParts DEF Verify, RestTypes, TurnTypes
<1>7. ASSUME NEW t \in Turns, Verified(t)
      PROVE  AgentTypeOK'
  <2>1. CallTypes' /\ TurnTypes'
    BY <1>7, ResolveTyped DEF Verified
  <2> QED
    BY <1>0, <1>7, <2>1, TypeParts DEF Verified, RestTypes
<1>8. ASSUME NEW t \in Turns, SkipVerify(t)
      PROVE  AgentTypeOK'
  <2>1. CallTypes' /\ TurnTypes'
    BY <1>8, ResolveTyped DEF SkipVerify
  <2> QED
    BY <1>0, <1>8, <2>1, TypeParts DEF SkipVerify, RestTypes
<1>9. ASSUME NEW t \in Turns, Resolved(t)
      PROVE  AgentTypeOK'
  <2>1. TurnTypes' /\ pc' \in [Turns -> Pcs] /\ reply' \in [Turns -> Reply]
    BY <1>9, LeaveTyped DEF Resolved
  <2>2. CallTypes'
    BY <1>0, <1>9, <2>1 DEF Resolved, CallTypes, history
  <2>3. RestTypes'
    BY <1>0, <1>9 DEF Resolved, RestTypes, history
  <2> QED
    BY <2>1, <2>2, <2>3, TypeParts
<1>10. ASSUME NEW t \in Turns, GiveUp(t)
       PROVE  AgentTypeOK'
  <2>1. (dangling \/ pc[t] = "begin") \in BOOLEAN
    OBVIOUS
  <2>2. CallTypes'
    BY <1>0, <1>10, <2>1, NoReplyTyped, AbandonedTyped DEF GiveUp, CallTypes
  <2> QED
    BY <1>0, <1>10, <2>2, TypeParts DEF GiveUp, RestTypes, TurnTypes
<1>11. ASSUME NEW t \in Turns, Die(t)
       PROVE  AgentTypeOK'
  <2>1. TurnTypes' /\ pc' \in [Turns -> Pcs] /\ reply' \in [Turns -> Reply]
    BY <1>11, LeaveTyped DEF Die
  <2>2. dangling' \in BOOLEAN
    BY <1>11 DEF Die
  <2>3. CallTypes'
    BY <1>11, <2>1, <2>2, AbandonedTyped DEF Die, CallTypes
  <2> QED
    BY <1>0, <1>11, <2>1, <2>3, TypeParts DEF Die, RestTypes
<1> QED
  BY <1>1, <1>2, <1>3, <1>4, <1>5, <1>6, <1>7, <1>8, <1>9, <1>10, <1>11,
     CallToolTyped, FinishTyped, RunTyped DEF Next, Proceed
-----------------------------------------------------------------------------
(* Who waits for which task.                                               *)

Queues == AwaitedInv /\ OneCallInv

\* No handler waits on behalf of t.
NoCall(t) == \A i \in DOMAIN queue : queue[i].awaited => queue[i].turn # t

LEMMA NobodyWaits ==
    ASSUME AwaitedInv, NEW t \in Turns,
           pc[t] \notin Capabilities \/ reply[t].status # "waiting",
           queue \in Seq(Task)
    PROVE  NoCall(t)
<1> SUFFICES ASSUME NEW i \in DOMAIN queue, queue[i].awaited, queue[i].turn = t
             PROVE  FALSE
  BY DEF NoCall
<1>1. pc[t] = queue[i].cap /\ reply[t].status = "waiting"
  BY DEF AwaitedInv, Positions
<1>2. queue[i] \in Task
  OBVIOUS
<1> QED
  BY <1>1, <1>2 DEF Task

\* Only t moves, and no handler waits for it.
MovesAlone(t) ==
    \A u \in Turns \ {t} : pc'[u] = pc[u] /\ reply'[u] = reply[u] /\ tool'[u] = tool[u]

LEMMA QueuesKept ==
    ASSUME Queues, queue \in Seq(Task), NEW t \in Turns, NoCall(t), MovesAlone(t),
           UNCHANGED queue
    PROVE  Queues'
<1>1. OneCallInv'
  BY DEF Queues, OneCallInv, Positions
<1>2. ASSUME NEW i \in DOMAIN queue, queue[i].awaited
      PROVE  /\ pc'[queue[i].turn] = queue[i].cap
             /\ reply'[queue[i].turn].status = "waiting"
             /\ queue[i].cap = "tool" => queue[i].tool = tool'[queue[i].turn]
  <2>1. queue[i] \in Task
    OBVIOUS
  <2>2. queue[i].turn \in Turns \ {t}
    BY <1>2, <2>1 DEF NoCall, Task
  <2> QED
    BY <1>2, <2>2 DEF Queues, AwaitedInv, Positions, MovesAlone
<1>3. AwaitedInv'
  BY <1>2 DEF AwaitedInv, Positions
<1> QED
  BY <1>1, <1>3 DEF Queues

LEMMA AskKeepsQueues ==
    ASSUME AgentTypeOK, Queues, NEW t \in Turns, NEW cap \in Capabilities,
           NEW x \in Tools \cup {NoTool}, NoCall(t), Ask(t, cap, x),
           \A u \in Turns \ {t} : tool'[u] = tool[u],
           cap = "tool" => x = tool'[t]
    PROVE  Queues'
<1> DEFINE entry == [turn |-> t, cap |-> cap, tool |-> x, awaited |-> TRUE]
<1>1. /\ queue \in Seq(Task) /\ pc \in [Turns -> Pcs] /\ reply \in [Turns -> Reply]
  BY TypeParts DEF CallTypes
<1>2. MovesAlone(t) /\ pc'[t] = cap
  BY <1>1 DEF Ask, MovesAlone
<1>3. CASE UNCHANGED queue
  BY <1>1, <1>2, <1>3, QueuesKept
<1>4. CASE queue' = Append(queue, entry) /\ reply' = [reply EXCEPT ![t] = NoReply]
  <2>1. /\ Len(queue) \in Nat /\ DOMAIN queue = 1 .. Len(queue)
        /\ DOMAIN queue' = 1 .. Len(queue) + 1
        /\ \A i \in DOMAIN queue : queue'[i] = queue[i]
        /\ queue'[Len(queue) + 1] = entry
    BY <1>1, <1>4
  <2>2. entry.turn = t /\ entry.cap = cap /\ entry.tool = x
    OBVIOUS
  <2>3. reply'[t].status = "waiting"
    BY <1>1, <1>4, NoReplyTyped
  <2> HIDE DEF entry
  <2>4. \A i \in DOMAIN queue' : i \in DOMAIN queue \/ (i = Len(queue) + 1 /\ queue'[i] = entry)
    BY <2>1
  <2>5. ASSUME NEW i \in DOMAIN queue', queue'[i].awaited
        PROVE  /\ pc'[queue'[i].turn] = queue'[i].cap
               /\ reply'[queue'[i].turn].status = "waiting"
               /\ queue'[i].cap = "tool" => queue'[i].tool = tool'[queue'[i].turn]
    <3>1. CASE i \in DOMAIN queue
      <4>1. queue[i] \in Task /\ queue'[i] = queue[i]
        BY <1>1, <2>1, <3>1
      <4>2. queue[i].turn \in Turns \ {t}
        BY <2>5, <3>1, <4>1 DEF NoCall, Task
      <4> QED
        BY <1>2, <2>5, <3>1, <4>1, <4>2 DEF Queues, AwaitedInv, Positions, MovesAlone
    <3>2. CASE queue'[i] = entry
      BY <1>2, <2>2, <2>3, <3>2
    <3> QED
      BY <2>4, <3>1, <3>2
  <2>6. AwaitedInv'
    BY <2>5 DEF AwaitedInv, Positions
  <2>7. OneCallInv'
    <3> SUFFICES ASSUME NEW i \in DOMAIN queue', NEW j \in DOMAIN queue',
                        queue'[i].awaited, queue'[j].awaited,
                        queue'[i].turn = queue'[j].turn
                 PROVE  i = j
      BY DEF OneCallInv, Positions
    <3>1. CASE i \in DOMAIN queue /\ j \in DOMAIN queue
      BY <2>1, <3>1 DEF Queues, OneCallInv, Positions
    <3>2. CASE i \in DOMAIN queue /\ queue'[j] = entry
      BY <2>1, <2>2, <3>2 DEF NoCall
    <3>3. CASE j \in DOMAIN queue /\ queue'[i] = entry
      BY <2>1, <2>2, <3>3 DEF NoCall
    <3> QED
      BY <2>4, <3>1, <3>2, <3>3
  <2> QED
    BY <2>6, <2>7 DEF Queues
<1> QED
  BY <1>3, <1>4 DEF Ask

LEMMA AbandonKeepsQueues ==
    ASSUME AgentTypeOK, Queues, NEW t \in Turns, queue' = Abandoned(t), MovesAlone(t)
    PROVE  Queues'
<1>1. queue \in Seq(Task)
  BY DEF AgentTypeOK
<1>2. /\ DOMAIN queue' = DOMAIN queue
      /\ \A i \in DOMAIN queue :
           /\ queue'[i].turn = queue[i].turn /\ queue'[i].cap = queue[i].cap
           /\ queue'[i].tool = queue[i].tool
           /\ queue'[i].awaited <=> queue[i].awaited /\ queue[i].turn # t
  BY AbandonedTyped
<1>3. OneCallInv'
  BY <1>2 DEF Queues, OneCallInv, Positions
<1>4. ASSUME NEW i \in DOMAIN queue', queue'[i].awaited
      PROVE  /\ pc'[queue'[i].turn] = queue'[i].cap
             /\ reply'[queue'[i].turn].status = "waiting"
             /\ queue'[i].cap = "tool" => queue'[i].tool = tool'[queue'[i].turn]
  <2>1. queue[i] \in Task
    BY <1>1, <1>2
  <2>2. queue[i].turn \in Turns \ {t} /\ queue[i].awaited
    BY <1>2, <1>4, <2>1 DEF Task
  <2> QED
    BY <1>2, <2>2 DEF Queues, AwaitedInv, Positions, MovesAlone
<1>5. AwaitedInv'
  BY <1>4 DEF AwaitedInv, Positions
<1> QED
  BY <1>3, <1>5 DEF Queues

\* The answer to a task reaches the one turn that waits for it.
LEMMA RunKeepsQueues ==
    ASSUME AgentTypeOK, Queues, NEW i \in 1 .. Len(queue), Run(i)
    PROVE  Queues'
<1> DEFINE was(j) == IF j < i THEN j ELSE j + 1
<1>1. queue \in Seq(Task) /\ reply \in [Turns -> Reply] /\ queue[i] \in Task
      /\ i \in DOMAIN queue
  BY DEF AgentTypeOK
<1>2. queue' = Without(queue, i)
  BY DEF Run
<1>3. /\ Len(queue') = Len(queue) - 1
      /\ queue' \in Seq(Task)
      /\ \A j \in DOMAIN queue' :
           queue'[j] = queue[was(j)] /\ was(j) \in DOMAIN queue /\ was(j) # i
  BY <1>1, <1>2, WithoutTyped
<1>4. \A j, k \in DOMAIN queue' : was(j) = was(k) => j = k
  BY <1>3
<1>5. ASSUME NEW u \in Turns, u # queue[i].turn \/ ~queue[i].awaited
      PROVE  reply'[u] = reply[u]
  BY <1>1, <1>5 DEF Run, Task
<1> HIDE DEF was
<1>6. OneCallInv'
  BY <1>3, <1>4 DEF Queues, OneCallInv, Positions
<1>7. ASSUME NEW j \in DOMAIN queue', queue'[j].awaited
      PROVE  /\ pc'[queue'[j].turn] = queue'[j].cap
             /\ reply'[queue'[j].turn].status = "waiting"
             /\ queue'[j].cap = "tool" => queue'[j].tool = tool'[queue'[j].turn]
  <2> DEFINE k == was(j)
  <2>1. k \in DOMAIN queue /\ k # i /\ queue'[j] = queue[k] /\ queue[k] \in Task
    BY <1>1, <1>3
  <2>2. queue[k].turn \in Turns
    BY <2>1 DEF Task
  <2>3. queue[k].turn # queue[i].turn \/ ~queue[i].awaited
    BY <1>1, <1>7, <2>1 DEF Queues, OneCallInv, Positions
  <2>4. reply'[queue[k].turn] = reply[queue[k].turn]
    BY <1>5, <2>2, <2>3
  <2>5. UNCHANGED <<pc, tool>>
    BY DEF Run
  <2> QED
    BY <1>7, <2>1, <2>4, <2>5 DEF Queues, AwaitedInv, Positions
<1>8. AwaitedInv'
  BY <1>7 DEF AwaitedInv, Positions
<1> QED
  BY <1>6, <1>8 DEF Queues
\* A turn's own step leaves the tasks as they are, asks for one more, or gives
\* up on the one it asked for.
Stays(t) == NoCall(t) /\ UNCHANGED <<queue, dangling>>
Asks(t) ==
    /\ NoCall(t)
    /\ \E cap \in Capabilities, x \in Tools \cup {NoTool} :
         Ask(t, cap, x) /\ (cap = "tool" => x = tool'[t])
Drops(t) == queue' = Abandoned(t) /\ (pc[t] = "begin" => dangling')

Steps(t) ==
    /\ MovesAlone(t)
    /\ UNCHANGED doc
    /\ \A u \in Turns \ {t} : txnOpen'[u] = txnOpen[u]
    /\ Stays(t) \/ Asks(t) \/ Drops(t)
    /\ pc'[t] = "tool" => reply'[t].status \in {"waiting", "lost"}

LEMMA AskMoves ==
    ASSUME AgentTypeOK, NEW t \in Turns, NEW cap \in Capabilities,
           NEW x \in Tools \cup {NoTool}, Ask(t, cap, x)
    PROVE  /\ \A u \in Turns \ {t} : pc'[u] = pc[u] /\ reply'[u] = reply[u]
           /\ pc'[t] = cap
           /\ reply'[t].status \in {"waiting", "lost"}
<1>1. pc \in [Turns -> Pcs] /\ reply \in [Turns -> Reply]
  BY TypeParts DEF CallTypes
<1>2. NoReply.status = "waiting" /\ Says("lost").status = "lost"
  BY SaysTyped DEF NoReply, Statuses
<1> QED
  BY <1>1, <1>2 DEF Ask

LEMMA LeaveMoves ==
    ASSUME AgentTypeOK, NEW t \in Turns, NEW how, Leave(t, how)
    PROVE  /\ MovesAlone(t)
           /\ \A u \in Turns \ {t} : txnOpen'[u] = txnOpen[u]
           /\ pc'[t] = how
           /\ reply'[t] = NoReply
           /\ txnOpen'[t] = FALSE
<1>1. /\ pc \in [Turns -> Pcs] /\ reply \in [Turns -> Reply]
      /\ tool \in [Turns -> Tools \cup {NoTool}] /\ txnOpen \in [Turns -> BOOLEAN]
  BY TypeParts DEF CallTypes, TurnTypes
<1> QED
  BY <1>1 DEF Leave, MovesAlone

\* An action that is taken when no answer is waited for.
LEMMA Unasked ==
    ASSUME AgentTypeOK, AwaitedInv, NEW t \in Turns,
           \/ pc[t] \in {"idle", "think", "conclude"}
           \/ \E cap \in Capabilities : Answered(t, cap)
    PROVE  NoCall(t)
<1>1. queue \in Seq(Task)
  BY TypeParts DEF CallTypes
<1>2. pc[t] \notin Capabilities \/ reply[t].status # "waiting"
  BY DEF Answered, Capabilities
<1> QED
  BY <1>1, <1>2, NobodyWaits

LEMMA UseToolSteps ==
    ASSUME AgentTypeOK, NEW t \in Turns, NoCall(t), NEW x \in Tools, UseTool(t, x)
    PROVE  Steps(t) /\ (txnOpen[t] => pc'[t] = "tool")
<1>1. /\ tool' = [tool EXCEPT ![t] = x]
      /\ UNCHANGED <<doc, txnOpen>>
      /\ tool \in [Turns -> Tools \cup {NoTool}]
  BY TypeParts DEF UseTool, TurnTypes
<1>2. PICK cap \in {"begin", "tool"}, y \in {x, NoTool} :
         /\ Ask(t, cap, y)
         /\ cap = "tool" => y = x
         /\ txnOpen[t] => cap = "tool"
  BY DEF UseTool
<1>3. cap \in Capabilities /\ y \in Tools \cup {NoTool}
  BY DEF Capabilities
<1>4. MovesAlone(t) /\ pc'[t] = cap /\ reply'[t].status \in {"waiting", "lost"}
  BY <1>1, <1>2, <1>3, AskMoves DEF MovesAlone
<1>5. Asks(t)
  BY <1>1, <1>2, <1>3 DEF Asks
<1> QED
  BY <1>1, <1>2, <1>4, <1>5 DEF Steps

LEMMA ResolveSteps ==
    ASSUME AgentTypeOK, NEW t \in Turns, NoCall(t), NEW failed, Resolve(t, failed),
           UNCHANGED doc
    PROVE  Steps(t)
<1>1. CASE txnOpen[t]
  <2> DEFINE cap == IF failed THEN "abort" ELSE "commit"
  <2>1. cap \in Capabilities /\ cap # "tool" /\ NoTool \in Tools \cup {NoTool}
    BY DEF Capabilities
  <2>2. Ask(t, cap, NoTool) /\ UNCHANGED <<tool, txnOpen>>
    BY <1>1 DEF Resolve
  <2> HIDE DEF cap
  <2>3. MovesAlone(t) /\ pc'[t] # "tool"
    BY <2>1, <2>2, AskMoves DEF MovesAlone
  <2>4. Asks(t)
    BY <2>1, <2>2 DEF Asks
  <2> QED
    BY <2>2, <2>3, <2>4 DEF Steps
<1>2. CASE ~txnOpen[t]
  <2>1. Leave(t, "done") /\ UNCHANGED <<queue, dangling>>
    BY <1>2 DEF Resolve
  <2>2. /\ MovesAlone(t) /\ pc'[t] = "done"
        /\ \A u \in Turns \ {t} : txnOpen'[u] = txnOpen[u]
    BY <2>1, LeaveMoves
  <2>3. Stays(t)
    BY <2>1 DEF Stays
  <2> QED
    BY <2>2, <2>3 DEF Steps
<1> QED
  BY <1>1, <1>2
LEMMA TurnSteps ==
    ASSUME AgentTypeOK, AwaitedInv, NEW t \in Turns,
           Start(t) \/ Proceed(t) \/ GiveUp(t) \/ Die(t)
    PROVE  Steps(t)
<1>0. /\ pc \in [Turns -> Pcs] /\ reply \in [Turns -> Reply]
      /\ tool \in [Turns -> Tools \cup {NoTool}] /\ txnOpen \in [Turns -> BOOLEAN]
  BY TypeParts DEF CallTypes, TurnTypes
<1>1. ASSUME NEW cap \in Capabilities, cap # "tool", Ask(t, cap, NoTool),
             NoCall(t), UNCHANGED <<doc, tool, txnOpen>>
      PROVE  Steps(t)
  <2>1. NoTool \in Tools \cup {NoTool}
    OBVIOUS
  <2>2. MovesAlone(t) /\ pc'[t] = cap
    BY <1>1, <2>1, AskMoves DEF MovesAlone
  <2>3. Asks(t)
    BY <1>1, <2>1 DEF Asks
  <2> QED
    BY <1>1, <2>2, <2>3 DEF Steps
<1>2. CASE Start(t)
  <2>1. NoCall(t)
    BY <1>2, Unasked DEF Start
  <2> QED
    BY <1>1, <1>2, <2>1 DEF Start, Capabilities
<1>3. CASE TakeBaseline(t)
  <2>1. NoCall(t)
    BY <1>3, Unasked DEF TakeBaseline, Capabilities
  <2>2. pc'[t] = "think" /\ MovesAlone(t) /\ UNCHANGED <<doc, txnOpen, queue, dangling>>
    BY <1>0, <1>3 DEF TakeBaseline, MovesAlone, history
  <2> QED
    BY <2>1, <2>2 DEF Steps, Stays
<1>4. CASE CallTool(t)
  <2>1. NoCall(t)
    BY <1>4, Unasked DEF CallTool
  <2>2. PICK x \in Tools : UseTool(t, x)
    BY <1>4 DEF CallTool, ToolsOf
  <2> QED
    BY <2>1, <2>2, UseToolSteps
<1>5. CASE Sandbox(t)
  <2>1. NoCall(t)
    BY <1>5, Unasked DEF Sandbox
  <2>2. pc'[t] = "think" /\ MovesAlone(t) /\ UNCHANGED <<doc, txnOpen, queue, dangling>>
    BY <1>0, <1>5 DEF Sandbox, MovesAlone, history
  <2> QED
    BY <2>1, <2>2 DEF Steps, Stays
<1>6. CASE Begun(t)
  <2>1. NoCall(t)
    BY <1>6, Unasked DEF Begun, Capabilities
  <2>2. Ask(t, "tool", tool[t]) /\ UNCHANGED <<doc, tool>>
    BY <1>6 DEF Begun
  <2>3. tool[t] \in Tools \cup {NoTool} /\ "tool" \in Capabilities
    BY <1>0 DEF Capabilities
  <2>4. MovesAlone(t) /\ reply'[t].status \in {"waiting", "lost"}
    BY <2>2, <2>3, AskMoves DEF MovesAlone
  <2>5. Asks(t)
    BY <2>1, <2>2, <2>3 DEF Asks
  <2>6. \A u \in Turns \ {t} : txnOpen'[u] = txnOpen[u]
    BY <1>0, <1>6 DEF Begun
  <2> QED
    BY <2>2, <2>4, <2>5, <2>6 DEF Steps
<1>7. CASE ToolDone(t)
  <2>1. NoCall(t)
    BY <1>7, Unasked DEF ToolDone, Capabilities
  <2>2. /\ pc'[t] # "tool" /\ MovesAlone(t)
        /\ UNCHANGED <<doc, txnOpen, queue, dangling>>
    BY <1>0, <1>7 DEF ToolDone, MovesAlone, history
  <2> QED
    BY <2>1, <2>2 DEF Steps, Stays
<1>8. CASE Finish(t)
  <2>1. NoCall(t)
    BY <1>8, Unasked DEF Finish
  <2>2. CASE ImportByItself(t)
    <3>1. PICK x \in Tools : UseTool(t, x)
      BY <2>2 DEF ImportByItself, Tools
    <3> QED
      BY <2>1, <3>1, UseToolSteps
  <2>3. CASE ~ImportByItself(t)
    <3>1. /\ pc'[t] = "conclude" /\ MovesAlone(t)
          /\ UNCHANGED <<doc, txnOpen, queue, dangling>>
      BY <1>0, <1>8, <2>3 DEF Finish, MovesAlone, history
    <3> QED
      BY <2>1, <3>1 DEF Steps, Stays
  <2> QED
    BY <2>2, <2>3
<1>9. CASE Verify(t)
  <2>1. NoCall(t)
    BY <1>9, Unasked DEF Verify
  <2> QED
    BY <1>1, <1>9, <2>1 DEF Verify, Capabilities
<1>10. CASE Verified(t)
  <2>1. NoCall(t)
    BY <1>10, Unasked DEF Verified, Capabilities
  <2> QED
    BY <1>10, <2>1, ResolveSteps DEF Verified
<1>11. CASE SkipVerify(t)
  <2>1. NoCall(t)
    BY <1>11, Unasked DEF SkipVerify
  <2> QED
    BY <1>11, <2>1, ResolveSteps DEF SkipVerify
<1>12. CASE Resolved(t)
  <2>1. NoCall(t)
    BY <1>12, Unasked DEF Resolved, Capabilities
  <2>2. Leave(t, "done") /\ UNCHANGED <<doc, queue, dangling>>
    BY <1>12 DEF Resolved, history
  <2>3. /\ MovesAlone(t) /\ pc'[t] = "done"
        /\ \A u \in Turns \ {t} : txnOpen'[u] = txnOpen[u]
    BY <2>2, LeaveMoves
  <2> QED
    BY <2>1, <2>2, <2>3 DEF Steps, Stays
<1>13. CASE GiveUp(t)
  <2>1. Says("lost").status = "lost"
    BY SaysTyped DEF Statuses
  <2>2. /\ MovesAlone(t) /\ reply'[t].status = "lost" /\ queue' = Abandoned(t)
        /\ UNCHANGED <<doc, txnOpen>>
    BY <1>0, <1>13, <2>1 DEF GiveUp, MovesAlone
  <2>3. pc[t] = "begin" => dangling'
    BY <1>13 DEF GiveUp
  <2> QED
    BY <2>2, <2>3 DEF Steps, Drops
<1>14. CASE Die(t)
  <2>1. Leave(t, "dead") /\ queue' = Abandoned(t) /\ UNCHANGED doc
    BY <1>14 DEF Die
  <2>2. /\ MovesAlone(t) /\ pc'[t] = "dead"
        /\ \A u \in Turns \ {t} : txnOpen'[u] = txnOpen[u]
    BY <2>1, LeaveMoves
  <2>3. pc[t] = "begin" => dangling'
    BY <1>14 DEF Die
  <2> QED
    BY <2>1, <2>2, <2>3 DEF Steps, Drops
<1> QED
  BY <1>2, <1>3, <1>4, <1>5, <1>6, <1>7, <1>8, <1>9, <1>10, <1>11, <1>12, <1>13,
     <1>14 DEF Proceed

\* The queue and who waits for what, through any step.
LEMMA QueuesInductive ==
    ASSUME AgentTypeOK, Queues, Next
    PROVE  Queues'
<1>1. ASSUME NEW t \in Turns, Steps(t)
      PROVE  Queues'
  <2>1. queue \in Seq(Task) /\ MovesAlone(t)
    BY <1>1, TypeParts DEF CallTypes, Steps
  <2>2. CASE Stays(t)
    BY <2>1, <2>2, QueuesKept DEF Stays
  <2>3. CASE Asks(t)
    <3>1. PICK cap \in Capabilities, x \in Tools \cup {NoTool} :
            Ask(t, cap, x) /\ (cap = "tool" => x = tool'[t])
      BY <2>3 DEF Asks
    <3> QED
      BY <2>1, <2>3, <3>1, AskKeepsQueues DEF Asks, MovesAlone
  <2>4. CASE Drops(t)
    BY <2>1, <2>4, AbandonKeepsQueues DEF Drops
  <2> QED
    BY <1>1, <2>2, <2>3, <2>4 DEF Steps
<1>2. AwaitedInv
  BY DEF Queues
<1> QED
  BY <1>1, <1>2, TurnSteps, RunKeepsQueues DEF Next

\* A tool that may have made an object says which, through any step.
LEMMA CreatedInductive ==
    ASSUME AgentTypeOK, Queues, CreatedInv, Next
    PROVE  CreatedInv'
<1>1. ASSUME NEW t \in Turns, Steps(t)
      PROVE  CreatedInv'
  BY <1>1 DEF Steps, MovesAlone, CreatedInv
<1>2. ASSUME NEW i \in 1 .. Len(queue), Run(i)
      PROVE  CreatedInv'
  <2>1. queue[i] \in Task /\ i \in DOMAIN queue /\ reply \in [Turns -> Reply]
        /\ doc \in Documents
    BY DEF AgentTypeOK
  <2> queue[i].turn \in Turns
    BY <2>1 DEF Task
  <2>2. PICK e \in Effects(queue[i]) :
          reply' = IF queue[i].awaited THEN [reply EXCEPT ![queue[i].turn] = e.answer]
                                       ELSE reply
    BY <1>2 DEF Run
  <2>3. UNCHANGED <<pc, tool>>
    BY <1>2 DEF Run
  <2>4. CASE queue[i].awaited /\ queue[i].cap = "tool"
    <3>1. queue[i].tool = tool[queue[i].turn] /\ pc[queue[i].turn] = "tool"
      BY <2>1, <2>4 DEF Queues, AwaitedInv, Positions
    <3>2. e \in ToolEffects(queue[i].turn, queue[i].tool)
      BY <2>2, <2>4 DEF Effects
    <3>3. queue[i].tool \in Tools \cup {NoTool}
      BY <2>1 DEF Task
    <3>4. queue[i].tool.kind \in BuildTools /\ e.answer.status \in {"ok", "failed"} =>
            e.answer.created \in Objects
      BY <2>1, <3>2, <3>3, ToolEffectTyped
    <3> QED
      BY <2>1, <2>2, <2>3, <2>4, <3>1, <3>4 DEF CreatedInv, BuildTools
  <2>5. CASE queue[i].awaited /\ queue[i].cap # "tool"
    <3>1. pc[queue[i].turn] # "tool"
      BY <2>1, <2>5 DEF Queues, AwaitedInv, Positions
    <3> QED
      BY <2>1, <2>2, <2>3, <2>5, <3>1 DEF CreatedInv
  <2>6. CASE ~queue[i].awaited
    BY <2>2, <2>3, <2>6 DEF CreatedInv
  <2> QED
    BY <2>4, <2>5, <2>6
<1> QED
  BY <1>1, <1>2, TurnSteps DEF Next, Queues
-----------------------------------------------------------------------------
(* Whose transaction is open.                                              *)

TxnStages == {"think", "tool", "conclude", "verify", "abort", "commit"}

EndQueued == \E i \in DOMAIN queue : queue[i].cap \in {"abort", "commit"}

\* What the step of t must do about its own transaction.
KeepsEnd(t) ==
    /\ dangling => dangling'
    /\ txnOpen'[t] => pc'[t] \in TxnStages
    /\ ~dangling' /\ Holding(t) => Holding(t)' \/ EndQueued'

\* What a step does to the tasks that are there, and to a begin in particular.
LEMMA TasksKept ==
    ASSUME AgentTypeOK, AwaitedInv, NEW t \in Turns,
           Stays(t) \/ Asks(t) \/ Drops(t)
    PROVE  /\ EndQueued => EndQueued'
           /\ (\A i \in DOMAIN queue : queue[i].cap = "begin" => queue[i].awaited)
                => \/ dangling'
                   \/ \A i \in DOMAIN queue' : queue'[i].cap = "begin" => queue'[i].awaited
<1>1. queue \in Seq(Task)
  BY DEF AgentTypeOK
<1>2. CASE UNCHANGED queue
  BY <1>2 DEF EndQueued
<1>3. ASSUME NEW cap \in Capabilities, NEW x \in Tools \cup {NoTool}, Ask(t, cap, x),
             ~UNCHANGED queue
      PROVE  /\ EndQueued => EndQueued'
             /\ (\A i \in DOMAIN queue : queue[i].cap = "begin" => queue[i].awaited)
                  => \A i \in DOMAIN queue' : queue'[i].cap = "begin" => queue'[i].awaited
  <2> DEFINE entry == [turn |-> t, cap |-> cap, tool |-> x, awaited |-> TRUE]
  <2>1. queue' = Append(queue, entry)
    BY <1>3 DEF Ask
  <2>2. entry.awaited
    OBVIOUS
  <2> HIDE DEF entry
  <2>3. /\ DOMAIN queue' = 1 .. Len(queue) + 1 /\ DOMAIN queue = 1 .. Len(queue)
        /\ Len(queue) \in Nat
        /\ \A i \in DOMAIN queue : queue'[i] = queue[i]
        /\ queue'[Len(queue) + 1] = entry
    BY <1>1, <2>1
  <2>4. \A i \in DOMAIN queue' : i \in DOMAIN queue \/ queue'[i] = entry
    BY <2>3
  <2>5. DOMAIN queue \subseteq DOMAIN queue'
    BY <2>3
  <2> QED
    BY <2>2, <2>3, <2>4, <2>5 DEF EndQueued
<1>4. CASE Drops(t)
  <2>1. /\ DOMAIN queue' = DOMAIN queue
        /\ \A i \in DOMAIN queue :
             /\ queue'[i].turn = queue[i].turn /\ queue'[i].cap = queue[i].cap
             /\ queue'[i].awaited <=> queue[i].awaited /\ queue[i].turn # t
    BY <1>4, AbandonedTyped DEF Drops
  <2>2. \A i \in DOMAIN queue : queue[i].awaited /\ queue[i].turn = t
                                  => pc[t] = queue[i].cap
    BY DEF AwaitedInv, Positions
  <2> QED
    BY <1>4, <2>1, <2>2 DEF EndQueued, Drops
<1> QED
  BY <1>2, <1>3, <1>4 DEF Stays, Asks

LEMMA OpenKept ==
    ASSUME AgentTypeOK, Queues, OpenInv, NEW t \in Turns, Steps(t), KeepsEnd(t)
    PROVE  OpenInv'
<1>1. \A u \in Turns : txnOpen'[u] => pc'[u] \in TxnStages
  BY DEF Steps, MovesAlone, KeepsEnd, OpenInv, TxnStages
<1>2. /\ EndQueued => EndQueued'
      /\ (\A i \in DOMAIN queue : queue[i].cap = "begin" => queue[i].awaited)
           => \/ dangling'
              \/ \A i \in DOMAIN queue' : queue'[i].cap = "begin" => queue'[i].awaited
  BY TasksKept DEF Steps, Queues
<1>3. ASSUME NEW u \in Turns, Holding(u), ~dangling'
      PROVE  EndQueued' \/ \E v \in Turns : Holding(v)'
  BY <1>3 DEF KeepsEnd, Holding, Steps, MovesAlone
<1>4. ASSUME ~dangling'
      PROVE  ~dangling
  BY <1>4 DEF KeepsEnd
<1> QED
  BY <1>1, <1>2, <1>3, <1>4 DEF OpenInv, Positions, EndQueued, Steps, TxnStages
\* A call changes "dangling" only when an end was lost on its way.
LEMMA AskedEnd ==
    ASSUME AgentTypeOK, NEW t \in Turns, NEW cap \in Capabilities, NEW x, Ask(t, cap, x)
    PROVE  /\ dangling => dangling'
           /\ cap \in {"abort", "commit"} => dangling' \/ EndQueued'
<1>1. queue \in Seq(Task)
  BY DEF AgentTypeOK
<1> DEFINE entry == [turn |-> t, cap |-> cap, tool |-> x, awaited |-> TRUE]
<1>2. CASE queue' = Append(queue, entry) /\ UNCHANGED dangling
  <2>1. entry.cap = cap
    OBVIOUS
  <2> HIDE DEF entry
  <2>2. Len(queue) + 1 \in DOMAIN queue' /\ queue'[Len(queue) + 1] = entry
    BY <1>1, <1>2
  <2> QED
    BY <1>2, <2>1, <2>2 DEF EndQueued
<1>3. CASE dangling' = (dangling \/ cap \in {"abort", "commit"})
  BY <1>3
<1> QED
  BY <1>2, <1>3 DEF Ask

LEMMA UseToolKeepsEnd ==
    ASSUME AgentTypeOK, NEW t \in Turns, pc[t] = "think", NEW x \in Tools, UseTool(t, x)
    PROVE  KeepsEnd(t)
<1>1. PICK cap \in {"begin", "tool"}, y \in {x, NoTool} :
         Ask(t, cap, y) /\ (txnOpen[t] => cap = "tool")
  BY DEF UseTool
<1>2. cap \in Capabilities /\ y \in Tools \cup {NoTool}
  BY <1>1 DEF Capabilities
<1>3. pc'[t] = cap /\ (dangling => dangling')
  BY <1>1, <1>2, AskMoves, AskedEnd
<1>4. UNCHANGED txnOpen
  BY DEF UseTool
<1> QED
  BY <1>1, <1>3, <1>4 DEF KeepsEnd, Holding, TxnStages

LEMMA ResolveKeepsEnd ==
    ASSUME AgentTypeOK, NEW t \in Turns, pc[t] \in {"verify", "conclude"},
           NEW failed, Resolve(t, failed)
    PROVE  KeepsEnd(t)
<1>1. CASE txnOpen[t]
  <2> DEFINE cap == IF failed THEN "abort" ELSE "commit"
  <2>1. cap \in Capabilities /\ cap \in {"abort", "commit"} /\ NoTool \in Tools \cup {NoTool}
    BY DEF Capabilities
  <2>2. Ask(t, cap, NoTool) /\ UNCHANGED txnOpen
    BY <1>1 DEF Resolve
  <2> HIDE DEF cap
  <2>3. pc'[t] = cap
    BY <2>1, <2>2, AskMoves
  <2>4. (dangling => dangling') /\ (dangling' \/ EndQueued')
    BY <2>1, <2>2, AskedEnd
  <2> QED
    BY <2>1, <2>2, <2>3, <2>4 DEF KeepsEnd, TxnStages
<1>2. CASE ~txnOpen[t]
  <2>1. Leave(t, "done") /\ UNCHANGED <<queue, dangling>>
    BY <1>2 DEF Resolve
  <2>2. txnOpen'[t] = FALSE
    BY <2>1, LeaveMoves
  <2> QED
    BY <1>2, <2>1, <2>2 DEF KeepsEnd, Holding
<1> QED
  BY <1>1, <1>2

LEMMA TurnKeepsEnd ==
    ASSUME AgentTypeOK, OpenInv, NEW t \in Turns,
           Start(t) \/ Proceed(t) \/ GiveUp(t) \/ Die(t)
    PROVE  KeepsEnd(t)
<1>0. /\ pc \in [Turns -> Pcs] /\ reply \in [Turns -> Reply] /\ queue \in Seq(Task)
      /\ tool \in [Turns -> Tools \cup {NoTool}] /\ txnOpen \in [Turns -> BOOLEAN]
      /\ NoTool \in Tools \cup {NoTool}
  BY TypeParts DEF CallTypes, TurnTypes
<1>1. txnOpen[t] => pc[t] \in TxnStages
  BY DEF OpenInv, TxnStages
<1>2. CASE Start(t)
  <2>1. Ask(t, "baseline", NoTool) /\ UNCHANGED txnOpen /\ pc[t] = "idle"
    BY <1>2 DEF Start
  <2>2. dangling => dangling'
    BY <2>1, AskedEnd DEF Capabilities
  <2> QED
    BY <1>1, <2>1, <2>2 DEF KeepsEnd, Holding, TxnStages
<1>3. CASE TakeBaseline(t)
  <2>1. pc[t] = "baseline" /\ UNCHANGED <<txnOpen, dangling>>
    BY <1>3 DEF TakeBaseline, Answered, history
  <2> QED
    BY <1>1, <2>1 DEF KeepsEnd, Holding, TxnStages
<1>4. CASE CallTool(t)
  <2>1. PICK x \in Tools : UseTool(t, x)
    BY <1>4 DEF CallTool, ToolsOf
  <2>2. pc[t] = "think"
    BY <1>4 DEF CallTool
  <2> QED
    BY <2>1, <2>2, UseToolKeepsEnd
<1>5. CASE Sandbox(t)
  BY <1>1, <1>5 DEF Sandbox, history, KeepsEnd, Holding, EndQueued
<1>6. CASE Begun(t)
  <2>1. /\ Ask(t, "tool", tool[t]) /\ pc[t] = "begin"
        /\ txnOpen'[t] = (reply[t].status = "ok")
    BY <1>0, <1>6 DEF Begun, Answered
  <2>2. "tool" \in Capabilities /\ tool[t] \in Tools \cup {NoTool}
    BY <1>0 DEF Capabilities
  <2>3. pc'[t] = "tool" /\ (dangling => dangling')
    BY <2>1, <2>2, AskMoves, AskedEnd
  <2> QED
    BY <1>1, <2>1, <2>3 DEF KeepsEnd, Holding, TxnStages
<1>7. CASE ToolDone(t)
  <2>1. /\ pc[t] = "tool" /\ pc'[t] \in {"conclude", "think"}
        /\ UNCHANGED <<txnOpen, dangling>>
    BY <1>0, <1>7 DEF ToolDone, Answered, history
  <2> QED
    BY <2>1 DEF KeepsEnd, Holding, TxnStages
<1>8. CASE Finish(t)
  <2>1. pc[t] = "think"
    BY <1>8 DEF Finish
  <2>2. CASE ImportByItself(t)
    <3>1. PICK x \in Tools : UseTool(t, x)
      BY <2>2 DEF ImportByItself, Tools
    <3> QED
      BY <2>1, <3>1, UseToolKeepsEnd
  <2>3. CASE ~ImportByItself(t)
    <3>1. pc'[t] = "conclude" /\ UNCHANGED <<txnOpen, dangling>>
      BY <1>0, <1>8, <2>3 DEF Finish, history
    <3> QED
      BY <2>1, <3>1 DEF KeepsEnd, Holding, TxnStages
  <2> QED
    BY <2>2, <2>3
<1>9. CASE Verify(t)
  <2>1. /\ Ask(t, "verify", NoTool) /\ UNCHANGED txnOpen /\ pc[t] = "conclude"
        /\ "verify" \in Capabilities
    BY <1>9 DEF Verify, Capabilities
  <2>2. pc'[t] = "verify" /\ (dangling => dangling')
    BY <1>0, <2>1, AskMoves, AskedEnd
  <2> QED
    BY <2>1, <2>2 DEF KeepsEnd, Holding, TxnStages
<1>10. CASE Verified(t)
  BY <1>10, ResolveKeepsEnd DEF Verified, Answered
<1>11. CASE SkipVerify(t)
  BY <1>11, ResolveKeepsEnd DEF SkipVerify
<1>12. CASE Resolved(t)
  <2>1. /\ Leave(t, "done") /\ UNCHANGED dangling
        /\ pc[t] \in {"abort", "commit"}
    BY <1>12 DEF Resolved, history, Answered
  <2>2. txnOpen'[t] = FALSE
    BY <2>1, LeaveMoves
  <2> QED
    BY <2>1, <2>2 DEF KeepsEnd, Holding
<1>13. CASE GiveUp(t)
  <2>1. /\ UNCHANGED <<pc, txnOpen>> /\ dangling' = (dangling \/ pc[t] = "begin")
    BY <1>13 DEF GiveUp
  <2> QED
    BY <1>1, <2>1 DEF KeepsEnd, Holding, TxnStages
<1>14. CASE Die(t)
  <2>1. /\ Leave(t, "dead")
        /\ dangling' = \/ dangling
                       \/ pc[t] = "begin"
                       \/ (txnOpen[t] /\ pc[t] \notin {"abort", "commit"})
    BY <1>14 DEF Die
  <2>2. txnOpen'[t] = FALSE
    BY <2>1, LeaveMoves
  <2> QED
    BY <2>1, <2>2 DEF KeepsEnd, Holding
<1> QED
  BY <1>2, <1>3, <1>4, <1>5, <1>6, <1>7, <1>8, <1>9, <1>10, <1>11, <1>12, <1>13,
     <1>14 DEF Proceed
\* The tasks that open a transaction, end it, or leave it as it is.
LEMMA RunKeepsOpen ==
    ASSUME AgentTypeOK, Queues, OpenInv, NEW i \in 1 .. Len(queue), Run(i)
    PROVE  OpenInv'
<1> DEFINE was(j) == IF j < i THEN j ELSE j + 1
           now(k) == IF k < i THEN k ELSE k - 1
           task == queue[i]
<1>1. /\ queue \in Seq(Task) /\ reply \in [Turns -> Reply] /\ task \in Task
      /\ i \in DOMAIN queue /\ doc \in Documents
      /\ DOMAIN queue = 1 .. Len(queue) /\ Len(queue) \in Nat /\ i \in Nat
  BY DEF AgentTypeOK
<1>2. task.turn \in Turns /\ task.cap \in Capabilities /\ task.tool \in Tools \cup {NoTool}
  BY <1>1 DEF Task
<1>3. /\ UNCHANGED <<pc, txnOpen, dangling>>
      /\ queue' = Without(queue, i)
  BY DEF Run, history
<1>4. /\ DOMAIN queue' = 1 .. Len(queue) - 1
      /\ \A j \in DOMAIN queue' : queue'[j] = queue[was(j)] /\ was(j) \in DOMAIN queue
  BY <1>1, <1>3, WithoutTyped
<1>5. \A k \in DOMAIN queue : k # i => now(k) \in DOMAIN queue' /\ queue'[now(k)] = queue[k]
  BY <1>1, <1>4
<1>6. PICK e \in Effects(task) :
        /\ doc' = e.doc
        /\ reply' = IF task.awaited THEN [reply EXCEPT ![task.turn] = e.answer] ELSE reply
  BY DEF Run
<1>7. task.awaited => pc[task.turn] = task.cap /\ reply[task.turn].status = "waiting"
  BY <1>1 DEF Queues, AwaitedInv, Positions
<1> HIDE DEF was, now, task
<1>8. (\A j \in DOMAIN queue : queue[j].cap = "begin" => queue[j].awaited)
        => (\A j \in DOMAIN queue' : queue'[j].cap = "begin" => queue'[j].awaited)
  BY <1>4
<1>9. EndQueued => EndQueued' \/ task.cap \in {"abort", "commit"}
  BY <1>5 DEF EndQueued, task
<1>10. \A u \in Turns : Holding(u) => Holding(u)'
  <2> SUFFICES ASSUME NEW u \in Turns, Holding(u)
               PROVE  Holding(u)'
    OBVIOUS
  <2>1. CASE txnOpen[u] /\ pc[u] \in {"think", "tool", "conclude", "verify"}
    BY <1>3, <2>1 DEF Holding
  <2>2. CASE pc[u] = "begin" /\ reply[u].status = "ok"
    <3>1. reply'[u] = reply[u]
      BY <1>1, <1>2, <1>6, <1>7, <2>2
    <3> QED
      BY <1>3, <2>2, <3>1 DEF Holding
  <2> QED
    BY <2>1, <2>2 DEF Holding
<1>11. ASSUME ~dangling, doc'.open,
              \A j \in DOMAIN queue : queue[j].cap = "begin" => queue[j].awaited,
              doc.open => EndQueued \/ \E u \in Turns : Holding(u)
       PROVE  EndQueued' \/ \E u \in Turns : Holding(u)'
  <2>1. CASE task.cap \in {"abort", "commit"}
    <3>1. e.doc \in {Abort(doc), Commit(doc)}
      BY <2>1 DEF Effects, Effect
    <3>2. Abort(doc).open = FALSE /\ Commit(doc).open = FALSE
      BY <1>1, AbortTyped, CommitTyped
    <3> QED
      BY <1>6, <1>11, <3>1, <3>2
  <2>2. CASE task.cap = "begin"
    <3>1. task.awaited
      BY <1>1, <1>11, <2>2 DEF task
    <3>2. e.answer.status = "ok"
      <4>1. e.answer = Says("ok")
        BY <2>2 DEF Effects, Effect
      <4> QED
        BY <4>1, SaysTyped DEF Statuses
    <3>3. pc'[task.turn] = "begin" /\ reply'[task.turn].status = "ok"
      BY <1>1, <1>2, <1>3, <1>6, <1>7, <2>2, <3>1, <3>2
    <3> QED
      BY <1>2, <3>3 DEF Holding
  <2>3. CASE task.cap \in {"baseline", "verify", "tool"}
    <3>1. doc'.open => doc.open
      <4>1. CASE task.cap \in {"baseline", "verify"}
        BY <1>6, <4>1 DEF Effects, Effect
      <4>2. CASE task.cap = "tool"
        <5>1. e \in ToolEffects(task.turn, task.tool)
          BY <4>2 DEF Effects
        <5>2. \/ e.doc = Undo(doc)
              \/ e.doc = doc
              \/ \E o \in Objects, s \in {"good", "broken", "gone"} :
                   e.doc = Write(doc, o, Made(task.turn, s))
          BY <1>1, <1>2, <5>1, ToolEffectTyped
        <5>3. \A o \in Objects, s \in {"good", "broken", "gone"} :
                Write(doc, o, Made(task.turn, s)).open = doc.open
          BY DEF Write
        <5>4. Undo(doc).open = FALSE
          BY <1>1, UndoTyped
        <5> QED
          BY <1>6, <5>2, <5>3, <5>4
      <4> QED
        BY <2>3, <4>1, <4>2
    <3> QED
      BY <1>9, <1>10, <1>11, <2>3, <3>1
  <2> QED
    BY <1>2, <2>1, <2>2, <2>3 DEF Capabilities
<1> QED
  BY <1>3, <1>8, <1>11 DEF OpenInv, Positions, EndQueued

LEMMA OpenInductive ==
    ASSUME AgentTypeOK, Queues, OpenInv, Next
    PROVE  OpenInv'
<1>1. AwaitedInv
  BY DEF Queues
<1>2. ASSUME NEW t \in Turns, Start(t) \/ Proceed(t) \/ GiveUp(t) \/ Die(t)
      PROVE  OpenInv'
  BY <1>1, <1>2, TurnSteps, TurnKeepsEnd, OpenKept
<1> QED
  BY <1>2, RunKeepsOpen DEF Next

-----------------------------------------------------------------------------
(* What holds however turns and tasks interleave.                          *)

LEMMA AgentInit ==
    ASSUME Init
    PROVE  AgentIInv
<1>1. NewDocument \in Documents
  <2>1. [o \in Objects |-> IF o \in Existing THEN Original ELSE Absent] \in [Objects -> Values]
    BY DEF Values
  <2>2. NoChange \in Changes
    BY DEF NoChange, Changes
  <2>3. << >> \in Seq(Changes)
    OBVIOUS
  <2> QED
    BY <2>1, <2>2, <2>3 DEF NewDocument, Documents
<1>2. NoSnapshot \in Changes
  BY DEF NoSnapshot, Changes
<1>3. MaxTools \in [Turns -> Nat]
  BY AgentAssumption
<1>4. AgentTypeOK
  <2>1. TurnTypes
    BY <1>2, <1>3 DEF Init, TurnTypes
  <2>2. CallTypes
    <3>1. dangling \in BOOLEAN
      BY DEF Init
    <3>2. queue \in Seq(Task) /\ pc \in [Turns -> Pcs] /\ reply \in [Turns -> Reply]
      BY NoReplyTyped DEF Init, Pcs
    <3> QED
      BY <3>1, <3>2 DEF CallTypes
  <2>3. RestTypes
    BY <1>1 DEF Init, RestTypes
  <2> QED
    BY <2>1, <2>2, <2>3 DEF AgentTypeOK, TurnTypes, CallTypes, RestTypes, Pcs
<1>5. AwaitedInv /\ OneCallInv
  BY DEF Init, AwaitedInv, OneCallInv, Positions
<1>6. CreatedInv
  BY DEF Init, CreatedInv
<1>7. OpenInv
  BY DEF Init, OpenInv, Positions, NewDocument
<1> QED
  BY <1>4, <1>5, <1>6, <1>7 DEF AgentIInv

LEMMA AgentStep ==
    ASSUME AgentIInv, [Next]_vars
    PROVE  AgentIInv'
<1>1. CASE Next
  <2>1. AgentTypeOK /\ Queues /\ CreatedInv /\ OpenInv
    BY DEF AgentIInv, Queues
  <2> QED
    BY <1>1, <2>1, TypesKept, QueuesInductive, CreatedInductive, OpenInductive
       DEF AgentIInv, Queues
<1>2. CASE UNCHANGED vars
  <2>1. UNCHANGED <<doc, queue, pc, reply, pillar, txnOpen, tool, edited, baseline, did,
                    used, rolledBack, uncovered, verified, crossed, dangling>>
    BY <1>2 DEF vars, turnVars, history
  <2>2. AgentTypeOK'
    BY <2>1 DEF AgentIInv, AgentTypeOK
  <2>3. AwaitedInv' /\ OneCallInv' /\ CreatedInv'
    BY <2>1 DEF AgentIInv, AwaitedInv, OneCallInv, CreatedInv, Positions
  <2>4. OpenInv'
    BY <2>1 DEF AgentIInv, OpenInv, Holding, Positions
  <2> QED
    BY <2>2, <2>3, <2>4 DEF AgentIInv
<1> QED
  BY <1>1, <1>2

\* The inductive invariant that needs nothing of how turns and tasks interleave.
THEOREM AgentInvariant == Spec => []AgentIInv
  BY AgentInit, AgentStep, PTL DEF Spec

\* Every variable of the copilot keeps its type: what a turn remembers as edited
\* are objects, and the answers and tasks are of the kinds the code knows.
THEOREM AgentTypes == Spec => []AgentTypeOK
<1>1. AgentIInv => AgentTypeOK
  BY DEF AgentIInv
<1> QED
  BY <1>1, AgentInvariant, PTL

\* However turns overlap and whatever times out, a transaction that stays open
\* when all is over was lost by a turn that could not know of it or died.
THEOREM EveryTransactionEnds == Spec => []NothingLeftOpen
<1>1. AgentIInv => NothingLeftOpen
  <2> SUFFICES ASSUME AgentIInv, \A t \in Turns : ~Running(t), queue = << >>, doc.open
               PROVE  dangling
    BY DEF NothingLeftOpen
  <2>1. ~\E i \in DOMAIN queue : queue[i].cap \in {"abort", "commit"}
    OBVIOUS
  <2>2. ~\E t \in Turns : Holding(t)
    BY DEF Running, Holding
  <2> QED
    BY <2>1, <2>2 DEF AgentIInv, OpenInv, Positions
<1> QED
  BY <1>1, AgentInvariant, PTL
-----------------------------------------------------------------------------
(* Turns that cross no other.                                              *)

\* Where the step of t leads, and what it leaves to the others.
LEMMA TurnMoves ==
    ASSUME AgentTypeOK, NEW t \in Turns,
           Start(t) \/ Proceed(t) \/ GiveUp(t) \/ Die(t)
    PROVE  /\ reply'[t] \in {NoReply, Says("lost")}
              \/ (pc'[t] \in {"think", "conclude"} /\ reply'[t] = reply[t])
           /\ pc[t] # "idle" => Running(t)
           /\ pc[t] = "idle" => Start(t)
           /\ pc'[t] # "idle"
           /\ \A u \in Turns \ {t} :
                /\ u \in verified' <=> u \in verified
                /\ u \in uncovered' <=> u \in uncovered
                /\ rolledBack'[u] = rolledBack[u]
                /\ tool'[u] = tool[u]
<1>0. /\ pc \in [Turns -> Pcs] /\ reply \in [Turns -> Reply]
      /\ tool \in [Turns -> Tools \cup {NoTool}] /\ rolledBack \in [Turns -> BOOLEAN]
  BY TypeParts DEF CallTypes, TurnTypes, RestTypes
<1>1. ASSUME NEW cap, NEW x, Ask(t, cap, x)
      PROVE  pc'[t] = cap /\ reply'[t] \in {NoReply, Says("lost")}
  BY <1>0, <1>1 DEF Ask
<1>2. ASSUME NEW how, Leave(t, how)
      PROVE  /\ pc'[t] = how /\ reply'[t] = NoReply
             /\ \A u \in Turns \ {t} : tool'[u] = tool[u]
  BY <1>0, <1>2 DEF Leave
<1>3. ASSUME NEW x, UseTool(t, x)
      PROVE  /\ pc'[t] # "idle" /\ reply'[t] \in {NoReply, Says("lost")}
             /\ \A u \in Turns \ {t} :
                  /\ u \in verified' <=> u \in verified
                  /\ u \in uncovered' <=> u \in uncovered
                  /\ rolledBack'[u] = rolledBack[u]
                  /\ tool'[u] = tool[u]
  <2>1. pc'[t] \in {"begin", "tool"} /\ reply'[t] \in {NoReply, Says("lost")}
    BY <1>1, <1>3 DEF UseTool
  <2> QED
    BY <1>0, <1>3, <2>1 DEF UseTool
<1>4. ASSUME NEW failed, Resolve(t, failed)
      PROVE  /\ pc'[t] # "idle" /\ reply'[t] \in {NoReply, Says("lost")}
             /\ \A u \in Turns \ {t} : tool'[u] = tool[u]
  BY <1>1, <1>2, <1>4 DEF Resolve
<1>5. CASE Start(t)
  <2>1. Ask(t, "baseline", NoTool) /\ pc[t] = "idle"
        /\ UNCHANGED <<tool, rolledBack, uncovered, verified>>
    BY <1>5 DEF Start
  <2>2. pc'[t] = "baseline" /\ reply'[t] \in {NoReply, Says("lost")}
    BY <1>1, <2>1
  <2> QED
    BY <1>5, <2>1, <2>2
<1>6. CASE TakeBaseline(t)
  BY <1>0, <1>6 DEF TakeBaseline, Answered, Running, history
<1>7. CASE CallTool(t)
  BY <1>3, <1>7 DEF CallTool, Running
<1>8. CASE Sandbox(t)
  BY <1>8 DEF Sandbox, Running, history
<1>9. CASE Begun(t)
  <2>1. pc'[t] = "tool" /\ reply'[t] \in {NoReply, Says("lost")}
    BY <1>1, <1>9 DEF Begun
  <2> QED
    BY <1>0, <1>9, <2>1 DEF Begun, Answered, Running
<1>10. CASE ToolDone(t)
  BY <1>0, <1>10 DEF ToolDone, Answered, Running, history
<1>11. CASE Finish(t)
  <2>1. CASE ImportByItself(t)
    BY <1>3, <1>11, <2>1 DEF Finish, ImportByItself, Running
  <2>2. CASE ~ImportByItself(t)
    BY <1>0, <1>11, <2>2 DEF Finish, Running, history
  <2> QED
    BY <2>1, <2>2
<1>12. CASE Verify(t)
  BY <1>1, <1>12 DEF Verify, Running
<1>13. CASE Verified(t)
  BY <1>4, <1>13 DEF Verified, Answered, Running
<1>14. CASE SkipVerify(t)
  BY <1>4, <1>14 DEF SkipVerify, Running
<1>15. CASE Resolved(t)
  BY <1>0, <1>2, <1>15 DEF Resolved, Answered, Running, history
<1>16. CASE GiveUp(t)
  BY <1>0, <1>16 DEF GiveUp, Running, Capabilities
<1>17. CASE Die(t)
  BY <1>2, <1>17 DEF Die, Running
<1> QED
  BY <1>5, <1>6, <1>7, <1>8, <1>9, <1>10, <1>11, <1>12, <1>13, <1>14, <1>15,
     <1>16, <1>17 DEF Proceed

\* Nobody else runs when t takes a step.
Alone(t) == \A u \in Turns \ {t} : ~Running(u)

\* Only a turn that starts beside another crosses anybody.
LEMMA CrossedKept ==
    ASSUME NEW t \in Turns, Start(t) \/ Proceed(t) \/ GiveUp(t) \/ Die(t)
    PROVE  crossed' = crossed \/ (Start(t) /\ crossed' = crossed \cup Beside(t))
<1>1. ASSUME NEW x, UseTool(t, x)
      PROVE  crossed' = crossed
  BY <1>1 DEF UseTool
<1>2. CASE Start(t)
  BY <1>2 DEF Start
<1>3. CASE TakeBaseline(t) \/ Sandbox(t) \/ ToolDone(t) \/ Resolved(t)
  BY <1>3 DEF TakeBaseline, Sandbox, ToolDone, Resolved, history
<1>4. CASE CallTool(t)
  BY <1>1, <1>4 DEF CallTool
<1>5. CASE Begun(t) \/ Verify(t) \/ Verified(t) \/ SkipVerify(t) \/ GiveUp(t) \/ Die(t)
  BY <1>5 DEF Begun, Verify, Verified, SkipVerify, GiveUp, Die
<1>6. CASE Finish(t)
  BY <1>1, <1>6 DEF Finish, ImportByItself, history
<1> QED
  BY <1>2, <1>3, <1>4, <1>5, <1>6 DEF Proceed

\* A turn that still crosses no other after a step of t is t with nobody beside
\* it, or does not run.
LEMMA StepsApart ==
    ASSUME AgentTypeOK, UncrossedInv, NEW t \in Turns,
           Start(t) \/ Proceed(t) \/ GiveUp(t) \/ Die(t),
           NEW u \in Turns \ crossed'
    PROVE  /\ u \notin crossed
           /\ u = t => Alone(t)
           /\ u # t => ~Running(u)
<1>1. u \notin crossed
  BY CrossedKept
<1>2. AloneOf(u)
  BY <1>1 DEF UncrossedInv
<1>3. CASE Start(t) /\ crossed' = crossed \cup Beside(t)
  <2>1. u # t => ~Running(u)
    BY <1>3 DEF Beside
  <2>2. u = t => Alone(t)
    BY <1>3 DEF Beside, Alone
  <2> QED
    BY <1>1, <2>1, <2>2
<1>4. CASE Start(t)
  BY <1>3, <1>4 DEF Start
<1>5. CASE ~Start(t)
  <2>1. Running(t)
    BY <1>5, TurnMoves
  <2> QED
    BY <1>1, <1>2, <2>1 DEF AloneOf, Alone
<1> QED
  BY <1>4, <1>5

\* One task runs; those behind it move up.
LEMMA RunsTask ==
    ASSUME AgentTypeOK, NEW i \in 1 .. Len(queue), Run(i)
    PROVE  /\ i \in DOMAIN queue /\ Len(queue) \in Nat /\ i \in Nat
           /\ queue[i] \in Task /\ queue[i].turn \in Turns
           /\ queue[i].cap \in Capabilities /\ queue[i].tool \in Tools \cup {NoTool}
           /\ Len(queue') = Len(queue) - 1
           /\ queue' \in Seq(Task)
           /\ \A j \in DOMAIN queue' : \E k \in DOMAIN queue :
                /\ queue'[j] = queue[k]
                /\ k = Len(queue) => j = Len(queue')
           /\ UNCHANGED <<pc, pillar, txnOpen, tool, edited, baseline, did, used,
                          rolledBack, uncovered, verified, dangling>>
           /\ crossed' = crossed \cup Overtaken(i)
           /\ \A u \in Turns : (u # queue[i].turn \/ ~queue[i].awaited) => reply'[u] = reply[u]
<1>2. queue \in Seq(Task) /\ reply \in [Turns -> Reply]
  BY DEF AgentTypeOK
<1>3. i \in DOMAIN queue /\ Len(queue) \in Nat /\ i \in Nat /\ queue[i] \in Task
      /\ DOMAIN queue = 1 .. Len(queue) /\ i <= Len(queue)
  BY <1>2
<1>4. queue' = Without(queue, i)
  BY DEF Run
<1>5. /\ queue' \in Seq(Task) /\ Len(queue') = Len(queue) - 1
      /\ \A j \in DOMAIN queue' :
           /\ queue'[j] = queue[IF j < i THEN j ELSE j + 1]
           /\ (IF j < i THEN j ELSE j + 1) \in DOMAIN queue
  BY <1>2, <1>4, WithoutTyped
<1>6. ASSUME NEW j \in DOMAIN queue'
      PROVE  \E k \in DOMAIN queue :
               /\ queue'[j] = queue[k]
               /\ k = Len(queue) => j = Len(queue')
  <2>1. j \in Nat
    BY <1>5
  <2>2. CASE j < i
    <3>1. queue'[j] = queue[j] /\ j \in DOMAIN queue /\ j # Len(queue)
      BY <1>3, <1>5, <2>1, <2>2
    <3> QED
      BY <3>1
  <2>3. CASE ~(j < i)
    <3>1. queue'[j] = queue[j + 1] /\ j + 1 \in DOMAIN queue
      BY <1>5, <2>3
    <3>2. j + 1 = Len(queue) => j = Len(queue')
      BY <1>3, <1>5, <2>1
    <3> QED
      BY <3>1, <3>2
  <2> QED
    BY <2>2, <2>3
<1>8. /\ queue[i].turn \in Turns /\ queue[i].cap \in Capabilities
      /\ queue[i].tool \in Tools \cup {NoTool}
  BY <1>3 DEF Task
<1>9. \A u \in Turns : (u # queue[i].turn \/ ~queue[i].awaited) => reply'[u] = reply[u]
  BY <1>2, <1>8 DEF Run
<1> QED
  BY <1>3, <1>5, <1>6, <1>8, <1>9 DEF Run

\* A turn's own task runs when it is the first, or the turn crosses another.
LEMMA RunsApart ==
    ASSUME AgentTypeOK, NEW i \in 1 .. Len(queue), Run(i), NEW u \in Turns \ crossed'
    PROVE  /\ u \notin crossed
           /\ queue[i].turn = u => i = 1
<1>1. crossed' = crossed \cup Overtaken(i) /\ i \in Nat
  BY RunsTask
<1>2. i # 1 => queue[i].turn \in Overtaken(i)
  BY <1>1 DEF Overtaken
<1> QED
  BY <1>1, <1>2

\* The task t asked for becomes the last one.
LEMMA AskedLast ==
    ASSUME AgentTypeOK, NEW t \in Turns, NEW cap \in Capabilities,
           NEW x \in Tools \cup {NoTool}, Ask(t, cap, x)
    PROVE  \/ UNCHANGED queue
           \/ /\ DOMAIN queue = 1 .. Len(queue) /\ Len(queue) \in Nat
              /\ DOMAIN queue' = 1 .. Len(queue) + 1 /\ Len(queue') = Len(queue) + 1
              /\ \A i \in DOMAIN queue : queue'[i] = queue[i]
              /\ queue'[Len(queue) + 1] =
                   [turn |-> t, cap |-> cap, tool |-> x, awaited |-> TRUE]
<1>1. queue \in Seq(Task)
  BY DEF AgentTypeOK
<1> QED
  BY <1>1 DEF Ask

LEMMA StepsTyped ==
    ASSUME AgentTypeOK, NEW t \in Turns, Steps(t)
    PROVE  queue' \in Seq(Task)
<1>1. CASE Stays(t)
  BY <1>1 DEF Stays, AgentTypeOK
<1>2. CASE Asks(t)
  BY <1>2, AskTyped DEF Asks
<1>3. CASE Drops(t)
  BY <1>3, AbandonedTyped DEF Drops
<1> QED
  BY <1>1, <1>2, <1>3 DEF Steps

\* Nobody comes beside a turn without crossing it, and what it asks for is last.
LEMMA AloneKept ==
    ASSUME AgentTypeOK, Queues, Queues', UncrossedInv, NEW t \in Turns,
           Start(t) \/ Proceed(t) \/ GiveUp(t) \/ Die(t), Steps(t),
           NEW u \in Turns \ crossed'
    PROVE  AloneOf(u)'
<1>1. u = t => Alone(t)
  BY StepsApart
<1>2. u # t => ~Running(u)
  BY StepsApart
<1>3. CASE u # t
  <2>1. pc'[u] = pc[u] /\ pc[u] \notin Capabilities
    BY <1>2, <1>3 DEF Steps, MovesAlone, Running, Capabilities
  <2>2. queue' \in Seq(Task)
    BY StepsTyped
  <2>3. \A i \in DOMAIN queue' : queue'[i].awaited => queue'[i].turn # u
    <3> SUFFICES ASSUME NEW i \in DOMAIN queue', queue'[i].awaited, queue'[i].turn = u
                 PROVE  FALSE
      OBVIOUS
    <3>1. queue'[i] \in Task
      BY <2>2
    <3>2. pc'[u] = queue'[i].cap
      BY DEF Queues, AwaitedInv, Positions
    <3> QED
      BY <2>1, <3>1, <3>2 DEF Task
  <2> QED
    BY <1>2, <1>3, <2>1, <2>3 DEF AloneOf, Running, Positions
<1>4. CASE u = t
  <2>1. \A v \in Turns : Running(v)' => v = t
    BY <1>1, <1>4 DEF Alone, Steps, MovesAlone, Running
  <2>2. \A i \in DOMAIN queue' :
          queue'[i].awaited /\ queue'[i].turn = t => i = Len(queue')
    <3>1. CASE Stays(t)
      BY <3>1 DEF Stays, NoCall
    <3>2. CASE Asks(t)
      <4>1. PICK cap \in Capabilities, x \in Tools \cup {NoTool} : Ask(t, cap, x)
        BY <3>2 DEF Asks
      <4>2. \A i \in DOMAIN queue : queue[i].awaited => queue[i].turn # t
        BY <3>2 DEF Asks, NoCall
      <4>3. CASE UNCHANGED queue
        BY <4>2, <4>3
      <4>4. CASE ~UNCHANGED queue
        <5>1. /\ DOMAIN queue = 1 .. Len(queue) /\ Len(queue) \in Nat
              /\ DOMAIN queue' = 1 .. Len(queue) + 1 /\ Len(queue') = Len(queue) + 1
              /\ \A i \in DOMAIN queue : queue'[i] = queue[i]
          BY <4>1, <4>4, AskedLast
        <5>2. \A i \in DOMAIN queue' : i \in DOMAIN queue \/ i = Len(queue')
          BY <5>1
        <5> QED
          BY <4>2, <5>1, <5>2
      <4> QED
        BY <4>3, <4>4
    <3>3. CASE Drops(t)
      BY <3>3, AbandonedTyped DEF Drops
    <3> QED
      BY <3>1, <3>2, <3>3 DEF Steps
  <2> QED
    BY <1>4, <2>1, <2>2 DEF AloneOf, Positions
<1> QED
  BY <1>3, <1>4

LEMMA RunKeepsAlone ==
    ASSUME AgentTypeOK, NEW i \in 1 .. Len(queue), Run(i), NEW u \in Turns, AloneOf(u)
    PROVE  AloneOf(u)'
<1>1. /\ UNCHANGED pc
      /\ \A j \in DOMAIN queue' : \E k \in DOMAIN queue :
           queue'[j] = queue[k] /\ (k = Len(queue) => j = Len(queue'))
  BY RunsTask
<1> QED
  BY <1>1 DEF AloneOf, Running, Positions
-----------------------------------------------------------------------------
(* What a verification saw.                                                *)

\* Those who do not run keep what they know.
LEMMA OthersVerified ==
    ASSUME AgentTypeOK, NEW t \in Turns, Steps(t),
           Start(t) \/ Proceed(t) \/ GiveUp(t) \/ Die(t),
           NEW u \in Turns \ {t}, ~Running(u), VerifiedOf(u)
    PROVE  VerifiedOf(u)'
<1>1. pc'[u] = pc[u] /\ reply'[u] = reply[u]
  BY DEF Steps, MovesAlone
<1>2. u \in verified' <=> u \in verified
  BY TurnMoves
<1>3. pc'[u] # "verify" /\ pc'[u] # "commit"
  BY <1>1 DEF Running
<1> QED
  BY <1>1, <1>2, <1>3 DEF VerifiedOf

\* An answer that t has taken, or lost, shows it nothing.
LEMMA ShowsNothing ==
    ASSUME AgentTypeOK, NEW t \in Turns, VerifiedOf(t),
           Start(t) \/ Proceed(t) \/ GiveUp(t) \/ Die(t)
    PROVE  /\ reply'[t].snapshot # NoSnapshot => reply'[t].status = "ok"
           /\ ~(pc'[t] = "verify" /\ reply'[t].status = "ok")
<1>1. /\ NoReply.status = "waiting" /\ NoReply.snapshot = NoSnapshot
      /\ Says("lost").status = "lost" /\ Says("lost").snapshot = NoSnapshot
  BY SaysTyped DEF NoReply, Statuses
<1>2. \/ reply'[t] \in {NoReply, Says("lost")}
      \/ pc'[t] \in {"think", "conclude"} /\ reply'[t] = reply[t]
  BY TurnMoves
<1> QED
  BY <1>1, <1>2 DEF VerifiedOf

LEMMA ResolveVerified ==
    ASSUME AgentTypeOK, Queues, NEW t \in Turns, VerifiedOf(t), Verified(t)
    PROVE  VerifiedOf(t)'
<1>1. VerifiedOf(t) /\ pc[t] = "verify" /\ t \notin verified
  BY DEF VerifiedOf, Verified, Answered
<1>2. /\ reply'[t].snapshot # NoSnapshot => reply'[t].status = "ok"
      /\ ~(pc'[t] = "verify" /\ reply'[t].status = "ok")
  BY ShowsNothing DEF Proceed
<1> DEFINE failed == HardFailure(baseline[t], reply[t].snapshot, edited[t])
<1>3. Resolve(t, failed) /\ UNCHANGED doc
  BY DEF Verified
<1>4. t \in verified' => NoSnapshot \notin {baseline[t], reply[t].snapshot}
  BY <1>1 DEF Verified
<1> HIDE DEF failed
<1>5. CASE ~txnOpen[t]
  <2>1. Leave(t, "done")
    BY <1>3, <1>5 DEF Resolve
  <2>2. pc'[t] = "done"
    BY <2>1, LeaveMoves
  <2> QED
    BY <1>2, <2>2 DEF VerifiedOf
<1>6. CASE txnOpen[t] /\ failed
  <2>1. Ask(t, "abort", NoTool) /\ "abort" \in Capabilities /\ NoTool \in Tools \cup {NoTool}
    BY <1>3, <1>6 DEF Resolve, Capabilities
  <2>2. pc'[t] = "abort"
    BY <2>1, AskMoves
  <2> QED
    BY <1>2, <2>2 DEF VerifiedOf
<1>7. CASE txnOpen[t] /\ ~failed
  <2>1. /\ Ask(t, "commit", NoTool) /\ "commit" \in Capabilities
        /\ NoTool \in Tools \cup {NoTool} /\ UNCHANGED <<baseline, edited>>
    BY <1>3, <1>7 DEF Resolve, Capabilities
  <2>2. pc'[t] = "commit"
    BY <2>1, AskMoves
  <2>3. ASSUME t \in verified'
        PROVE  /\ \A i \in DOMAIN queue' : queue'[i].cap = "commit"
               /\ OnlyChanged(baseline[t], doc.value, edited[t])
    <3>1. reply[t].snapshot # NoSnapshot /\ baseline[t] # NoSnapshot
      BY <1>4, <2>3
    <3>2. queue = << >> /\ reply[t].snapshot = doc.value
      BY <1>1, <3>1 DEF VerifiedOf
    <3>3. OnlyChanged(baseline[t], reply[t].snapshot, edited[t])
      BY <1>7, <3>1 DEF failed, HardFailure
    <3>4. queue' = << >> \/
          queue' = << [turn |-> t, cap |-> "commit", tool |-> NoTool, awaited |-> TRUE] >>
      BY <2>1, <3>2 DEF Ask
    <3> QED
      BY <3>2, <3>3, <3>4
  <2>4. UNCHANGED doc
    BY <1>3
  <2> QED
    BY <1>2, <2>1, <2>2, <2>3, <2>4 DEF VerifiedOf, Positions
<1> QED
  BY <1>5, <1>6, <1>7

LEMMA TurnVerified ==
    ASSUME AgentTypeOK, Queues, NEW t \in Turns, VerifiedOf(t),
           Start(t) \/ Proceed(t) \/ GiveUp(t) \/ Die(t)
    PROVE  VerifiedOf(t)'
<1>0. pc \in [Turns -> Pcs] /\ reply \in [Turns -> Reply]
  BY TypeParts DEF CallTypes
<1>1. /\ reply'[t].snapshot # NoSnapshot => reply'[t].status = "ok"
      /\ ~(pc'[t] = "verify" /\ reply'[t].status = "ok")
  BY ShowsNothing
<1>2. t \in verified => pc[t] \in {"abort", "commit", "done", "dead"}
  BY DEF VerifiedOf
<1>3. CASE Verified(t)
  BY <1>3, ResolveVerified
<1>4. CASE GiveUp(t)
  <2>1. UNCHANGED <<pc, doc, baseline, edited, verified>> /\ queue' = Abandoned(t)
    BY <1>4 DEF GiveUp
  <2>2. /\ DOMAIN queue' = DOMAIN queue
        /\ \A i \in DOMAIN queue : queue'[i].cap = queue[i].cap
    BY <2>1, AbandonedTyped
  <2> QED
    BY <1>1, <2>1, <2>2 DEF VerifiedOf, Positions
<1>5. CASE Resolved(t)
  <2>1. Leave(t, "done")
    BY <1>5 DEF Resolved
  <2>2. pc'[t] = "done"
    BY <2>1, LeaveMoves
  <2> QED
    BY <1>1, <2>2 DEF VerifiedOf
<1>6. CASE Die(t)
  <2>1. Leave(t, "dead")
    BY <1>6 DEF Die
  <2>2. pc'[t] = "dead"
    BY <2>1, LeaveMoves
  <2> QED
    BY <1>1, <2>2 DEF VerifiedOf
<1>7. ASSUME pc[t] \notin {"abort", "commit", "done", "dead"}, UNCHANGED verified
      PROVE  VerifiedOf(t)'
  BY <1>1, <1>2, <1>7 DEF VerifiedOf
<1>8. CASE Start(t)
  BY <1>7, <1>8 DEF Start
<1>9. CASE TakeBaseline(t)
  BY <1>7, <1>9 DEF TakeBaseline, Answered, history
<1>10. CASE CallTool(t)
  BY <1>7, <1>10 DEF CallTool, UseTool
<1>11. CASE Sandbox(t)
  BY <1>7, <1>11 DEF Sandbox, history
<1>12. CASE Begun(t)
  BY <1>7, <1>12 DEF Begun, Answered
<1>13. CASE ToolDone(t)
  BY <1>7, <1>13 DEF ToolDone, Answered, history
<1>14. CASE Finish(t)
  BY <1>7, <1>14 DEF Finish, ImportByItself, UseTool, history
<1>15. CASE Verify(t)
  BY <1>7, <1>15 DEF Verify
<1>16. CASE SkipVerify(t)
  BY <1>7, <1>16 DEF SkipVerify
<1> QED
  BY <1>3, <1>4, <1>5, <1>6, <1>8, <1>9, <1>10, <1>11, <1>12, <1>13, <1>14, <1>15,
     <1>16 DEF Proceed

\* Only a look at the document shows what is in it.
LEMMA Shows ==
    ASSUME doc \in Documents, NEW task \in Task, NEW e \in Effects(task)
    PROVE  /\ e.answer.snapshot # NoSnapshot => e.answer.status = "ok"
           /\ task.cap = "verify" => e.answer.snapshot = doc.value /\ e.doc = doc
           /\ task.cap = "commit" => e.doc.value = doc.value
<1>1. CASE task.cap \in {"baseline", "verify"}
  <2>1. e.answer = [status |-> "ok", created |-> "none", snapshot |-> doc.value]
        /\ e.doc = doc
    BY <1>1 DEF Effects, Effect, Says
  <2> QED
    BY <1>1, <2>1
<1>2. CASE task.cap \in {"begin", "abort", "commit"}
  <2>1. e.answer = Says("ok")
    BY <1>2 DEF Effects, Effect
  <2>2. e.answer.snapshot = NoSnapshot
    BY <2>1, SaysTyped DEF Statuses
  <2>3. task.cap = "commit" => e.doc = Commit(doc)
    BY DEF Effects, Effect
  <2> QED
    BY <1>2, <2>2, <2>3, CommitTyped
<1>3. CASE task.cap = "tool"
  <2>1. e \in ToolEffects(task.turn, task.tool)
    BY <1>3 DEF Effects
  <2>2. task.turn \in Turns /\ task.tool \in Tools \cup {NoTool}
    BY DEF Task
  <2> QED
    BY <1>3, <2>1, <2>2, ToolEffectTyped
<1> QED
  BY <1>1, <1>2, <1>3 DEF Task, Capabilities

LEMMA RunVerified ==
    ASSUME AgentTypeOK, Queues, NEW i \in 1 .. Len(queue), Run(i),
           NEW u \in Turns \ crossed', AloneOf(u), VerifiedOf(u)
    PROVE  VerifiedOf(u)'
<1> DEFINE task == queue[i]
<1>1. /\ i \in DOMAIN queue /\ Len(queue) \in Nat
      /\ task \in Task /\ task.turn \in Turns
      /\ Len(queue') = Len(queue) - 1 /\ queue' \in Seq(Task)
      /\ \A j \in DOMAIN queue' : \E k \in DOMAIN queue : queue'[j] = queue[k]
      /\ UNCHANGED <<pc, edited, baseline, verified>>
      /\ \A v \in Turns : (v # task.turn \/ ~task.awaited) => reply'[v] = reply[v]
  BY RunsTask
<1>2. doc \in Documents /\ reply \in [Turns -> Reply]
  BY DEF AgentTypeOK
<1>3. PICK e \in Effects(task) :
        /\ doc' = e.doc
        /\ reply' = IF task.awaited THEN [reply EXCEPT ![task.turn] = e.answer] ELSE reply
  BY DEF Run
<1>4. /\ e.answer.snapshot # NoSnapshot => e.answer.status = "ok"
      /\ task.cap = "verify" => e.answer.snapshot = doc.value /\ e.doc = doc
      /\ task.cap = "commit" => e.doc.value = doc.value
  BY <1>1, <1>2, Shows
<1>5. task.awaited /\ task.turn = u => pc[u] = task.cap /\ Len(queue) = 1
  <2>1. task.turn = u => i = 1
    BY RunsApart
  <2> QED
    BY <1>1, <2>1 DEF Queues, AwaitedInv, AloneOf, Positions
<1> HIDE DEF task
<1>6. reply'[u].snapshot # NoSnapshot => reply'[u].status = "ok"
  BY <1>1, <1>2, <1>3, <1>4 DEF VerifiedOf
<1>7. ASSUME pc'[u] = "verify", reply'[u].status = "ok"
      PROVE  queue' = << >> /\ reply'[u].snapshot = doc'.value
  <2>1. queue # << >>
    BY <1>1
  <2>2. u = task.turn /\ task.awaited
    BY <1>1, <1>7, <2>1 DEF VerifiedOf
  <2>3. task.cap = "verify" /\ Len(queue) = 1
    BY <1>1, <1>5, <1>7, <2>2
  <2>4. reply'[u] = e.answer
    BY <1>1, <1>2, <1>3, <2>2
  <2>5. queue' = << >>
    BY <1>1, <2>3
  <2> QED
    BY <1>3, <1>4, <2>3, <2>4, <2>5
<1>8. u \in verified' => pc'[u] \in {"abort", "commit", "done", "dead"}
  BY <1>1 DEF VerifiedOf
<1>9. ASSUME pc'[u] = "commit", u \in verified'
      PROVE  /\ \A j \in DOMAIN queue' : queue'[j].cap = "commit"
             /\ OnlyChanged(baseline'[u], doc'.value, edited'[u])
  <2>1. /\ \A j \in DOMAIN queue : queue[j].cap = "commit"
        /\ OnlyChanged(baseline[u], doc.value, edited[u])
    BY <1>1, <1>9 DEF VerifiedOf, Positions
  <2>2. doc'.value = doc.value
    BY <1>1, <1>3, <1>4, <2>1 DEF task
  <2> QED
    BY <1>1, <2>1, <2>2
<1> QED
  BY <1>6, <1>7, <1>8, <1>9 DEF VerifiedOf, Positions
-----------------------------------------------------------------------------
(* What a transaction can take back.                                       *)

LEMMA NothingNoted ==
    ASSUME NEW t \in Turns, NEW o \in Objects
    PROVE  NoChange[o] = Untouched /\ NoChange[o].by # t
  BY DocumentAssumption DEF NoChange, Untouched

LEMMA UnrecordedStack ==
    ASSUME NEW d \in Documents, NEW t \in Turns, Unrecorded(d, t),
           NEW stack \in {d.undo, Append(d.undo, d.before)}
    PROVE  /\ stack \in Seq(Changes)
           /\ \A k \in DOMAIN stack : \A o \in Objects : stack[k][o].by # t
<1>1. d.undo \in Seq(Changes) /\ d.before \in Changes
  BY DEF Documents
<1>2. /\ \A o \in Objects : d.before[o].by # t
      /\ \A k \in DOMAIN d.undo : \A o \in Objects : d.undo[k][o].by # t
  BY DEF Unrecorded
<1>3. CASE stack = d.undo
  BY <1>1, <1>2, <1>3
<1>4. CASE stack = Append(d.undo, d.before)
  <2>1. /\ \A k \in DOMAIN stack : k \in DOMAIN d.undo \/ stack[k] = d.before
        /\ \A k \in DOMAIN d.undo : stack[k] = d.undo[k]
        /\ stack \in Seq(Changes)
    BY <1>1, <1>4
  <2> QED
    BY <1>2, <2>1
<1> QED
  BY <1>3, <1>4

\* A commit or a new transaction records nothing of t that was not recorded.
LEMMA UnrecordedKept ==
    ASSUME NEW d \in Documents, NEW t \in Turns, Unrecorded(d, t)
    PROVE  Unrecorded(Commit(d), t) /\ Unrecorded(Begin(d), t) /\ Unrecorded(Abort(d), t)
<1>1. ASSUME NEW c, c.before = NoChange, c.undo \in {d.undo, Append(d.undo, d.before)}
      PROVE  Unrecorded(c, t)
  BY <1>1, UnrecordedStack, NothingNoted DEF Unrecorded
<1> QED
  BY <1>1, CommitTyped, BeginTyped, AbortTyped

LEMMA RestoredFree ==
    ASSUME NEW value, NEW change, NEW t,
           \A o \in Objects : change[o].by # t,
           \A o \in Objects : value[o].by = t => change[o] # Untouched
    PROVE  \A o \in Objects : Restored(value, change)[o].by # t
  BY DEF Restored

\* What is free of t stays so, whatever is done by others.
LEMMA FreeKept ==
    ASSUME NEW d \in Documents, NEW t \in Turns, Free(d, t)
    PROVE  /\ Free(Commit(d), t) /\ Free(Begin(d), t) /\ Free(Abort(d), t)
           /\ Free(Undo(d), t)
           /\ \A u \in Turns \ {t}, o \in Objects, s \in {"good", "broken", "gone"} :
                Free(Write(d, o, Made(u, s)), t)
<1>1. Unrecorded(d, t) /\ \A o \in Objects : d.value[o].by # t
  BY DEF Free
<1>2. /\ d.value \in [Objects -> Values] /\ d.before \in Changes
      /\ d.undo \in Seq(Changes)
  BY DEF Documents
<1>3. Free(Commit(d), t) /\ Free(Begin(d), t)
  BY <1>1, UnrecordedKept, CommitTyped, BeginTyped DEF Free
<1>4. Free(Abort(d), t)
  <2>1. \A o \in Objects : Restored(d.value, d.before)[o].by # t
    BY <1>1, RestoredFree DEF Unrecorded
  <2> QED
    BY <1>1, <2>1, UnrecordedKept, AbortTyped DEF Free
<1>5. Free(Undo(d), t)
  <2>1. PICK stack \in Seq(Changes) :
          /\ stack \in {d.undo, Append(d.undo, d.before)}
          /\ \/ Undo(d).value = d.value /\ Undo(d).undo = stack
             \/ /\ stack # << >>
                /\ Undo(d).value = Restored(d.value, stack[Len(stack)])
                /\ Undo(d).undo = SubSeq(stack, 1, Len(stack) - 1)
    BY UndoTyped
  <2>2. \A k \in DOMAIN stack : \A o \in Objects : stack[k][o].by # t
    BY <1>1, <2>1, UnrecordedStack
  <2>3. Undo(d).before = NoChange
    BY UndoTyped
  <2>4. CASE Undo(d).value = d.value /\ Undo(d).undo = stack
    BY <1>1, <2>2, <2>3, <2>4, NothingNoted DEF Free, Unrecorded
  <2>5. CASE /\ stack # << >>
             /\ Undo(d).value = Restored(d.value, stack[Len(stack)])
             /\ Undo(d).undo = SubSeq(stack, 1, Len(stack) - 1)
    <3>1. Len(stack) \in DOMAIN stack
      BY <2>5
    <3> DEFINE last == stack[Len(stack)]
    <3>4. /\ \A o \in Objects : last[o].by # t
          /\ Undo(d).value = Restored(d.value, last)
      BY <2>2, <2>5, <3>1
    <3> HIDE DEF last
    <3>5. \A o \in Objects : d.value[o].by = t => last[o] # Untouched
      BY <1>1
    <3>2. \A o \in Objects : Undo(d).value[o].by # t
      <4>1. \A o \in Objects : Restored(d.value, last)[o].by # t
        BY <3>4, <3>5, RestoredFree
      <4> QED
        BY <3>4, <4>1
    <3>3. \A k \in DOMAIN Undo(d).undo : k \in DOMAIN stack /\ Undo(d).undo[k] = stack[k]
      BY <2>5
    <3> QED
      BY <2>2, <2>3, <3>2, <3>3, NothingNoted DEF Free, Unrecorded
  <2> QED
    BY <2>1, <2>4, <2>5
<1>6. ASSUME NEW u \in Turns \ {t}, NEW o \in Objects, NEW s \in {"good", "broken", "gone"}
      PROVE  Free(Write(d, o, Made(u, s)), t)
  <2> DEFINE w == Write(d, o, Made(u, s))
  <2>1. Made(u, s) \in Values /\ Made(u, s).by = u
    BY ValuesAreKnown DEF Made
  <2>2. /\ w.undo = d.undo
        /\ w.value = [d.value EXCEPT ![o] = Made(u, s)]
        /\ w.before \in {d.before, [d.before EXCEPT ![o] = d.value[o]]}
    BY <2>1, WriteTyped
  <2> HIDE DEF w
  <2>3. \A p \in Objects : w.value[p].by # t
    BY <1>1, <1>2, <2>1, <2>2
  <2>4. \A p \in Objects : w.before[p] = d.before[p] \/ w.before[p] = d.value[p]
    BY <1>2, <2>2 DEF Changes
  <2>5. \A p \in Objects : w.before[p].by # t
    BY <1>1, <2>4 DEF Unrecorded
  <2>6. Free(w, t)
    BY <1>1, <2>2, <2>3, <2>5 DEF Free, Unrecorded
  <2> QED
    BY <2>6 DEF w
<1> QED
  BY <1>3, <1>4, <1>5, <1>6

\* A new transaction holds what is free of t.
LEMMA HeldBegun ==
    ASSUME NEW d, NEW t, Free(d, t), d.open
    PROVE  Held(d, t)
  BY DEF Free, Held

\* The transaction holds whatever t writes into it.
LEMMA HeldWritten ==
    ASSUME NEW d \in Documents, NEW t \in Turns, Held(d, t),
           NEW o \in Objects, NEW s \in {"good", "broken", "gone"}
    PROVE  Held(Write(d, o, Made(t, s)), t)
<1> DEFINE w == Write(d, o, Made(t, s))
<1>1. Made(t, s) \in Values
  BY ValuesAreKnown
<1>2. /\ d.value \in [Objects -> Values] /\ d.before \in Changes
  BY DEF Documents
<1>3. /\ d.open /\ Unrecorded(d, t)
      /\ \A p \in Objects : d.value[p].by = t => d.before[p] # Untouched
  BY DEF Held
<1>4. /\ w.undo = d.undo /\ w.open = d.open
      /\ w.value = [d.value EXCEPT ![o] = Made(t, s)]
      /\ w.before = [d.before EXCEPT ![o] = IF d.open /\ @ = Untouched
                                            THEN d.value[o] ELSE @]
  BY <1>1, WriteTyped DEF Write
<1> HIDE DEF w
<1>5. w.before[o] # Untouched
  <2>1. d.value[o] # Untouched
    BY <1>2, ValuesAreKnown
  <2>2. DOMAIN d.before = Objects
    BY <1>2 DEF Changes
  <2> QED
    BY <1>3, <1>4, <2>1, <2>2
<1>6. \A p \in Objects \ {o} : w.before[p] = d.before[p] /\ w.value[p] = d.value[p]
  BY <1>2, <1>4 DEF Changes
<1>7. w.before[o].by # t
  BY <1>2, <1>3, <1>4 DEF Changes, Unrecorded
<1>8. Unrecorded(w, t)
  BY <1>3, <1>4, <1>6, <1>7 DEF Unrecorded
<1>9. Held(w, t)
  BY <1>3, <1>4, <1>5, <1>6, <1>8 DEF Held
<1> QED
  BY <1>9 DEF w

\* An abort takes everything back.
LEMMA AbortFrees ==
    ASSUME NEW d \in Documents, NEW t \in Turns, Held(d, t)
    PROVE  Free(Abort(d), t)
<1>1. /\ Unrecorded(d, t)
      /\ \A o \in Objects : d.value[o].by = t => d.before[o] # Untouched
  BY DEF Held
<1>2. \A o \in Objects : Restored(d.value, d.before)[o].by # t
  BY <1>1, RestoredFree DEF Unrecorded
<1> QED
  BY <1>1, <1>2, UnrecordedKept, AbortTyped DEF Free
-----------------------------------------------------------------------------
(* What a turn leaves in the document.                                     *)

JournalOf(t) == OwnTasksOf(t) /\ StagesOf(t) /\ TraceOf(t)

\* Tasks that are there after a step of t were there before it, or are t's.
OldTask(i) ==
    /\ i \in DOMAIN queue
    /\ queue'[i].turn = queue[i].turn
    /\ queue'[i].cap = queue[i].cap
    /\ queue'[i].tool = queue[i].tool

OldOrMine(t) ==
    \A i \in DOMAIN queue' :
        \/ OldTask(i)
        \/ /\ queue'[i].turn = t
           /\ queue'[i].cap = pc'[t]
           /\ queue'[i].awaited
           /\ queue'[i].cap = "tool" => queue'[i].tool = tool'[t]

LEMMA TasksOfStep ==
    ASSUME AgentTypeOK, NEW t \in Turns, Steps(t)
    PROVE  OldOrMine(t)
<1>1. CASE Stays(t)
  BY <1>1 DEF Stays, OldOrMine, OldTask
<1>2. CASE Asks(t)
  <2>1. PICK cap \in Capabilities, x \in Tools \cup {NoTool} :
          Ask(t, cap, x) /\ (cap = "tool" => x = tool'[t])
    BY <1>2 DEF Asks
  <2>2. pc'[t] = cap
    BY <2>1, AskMoves
  <2>3. CASE UNCHANGED queue
    BY <2>3 DEF OldOrMine, OldTask
  <2>4. CASE ~UNCHANGED queue
    <3> DEFINE entry == [turn |-> t, cap |-> cap, tool |-> x, awaited |-> TRUE]
    <3>1. /\ DOMAIN queue = 1 .. Len(queue) /\ Len(queue) \in Nat
          /\ DOMAIN queue' = 1 .. Len(queue) + 1 /\ Len(queue') = Len(queue) + 1
          /\ \A i \in DOMAIN queue : queue'[i] = queue[i]
          /\ queue'[Len(queue) + 1] = entry
      BY <2>1, <2>4, AskedLast
    <3>2. entry.turn = t /\ entry.cap = cap /\ entry.tool = x /\ entry.awaited
      OBVIOUS
    <3> HIDE DEF entry
    <3>3. \A i \in DOMAIN queue' : (i \in DOMAIN queue /\ queue'[i] = queue[i])
                                    \/ queue'[i] = entry
      BY <3>1
    <3> QED
      BY <2>1, <2>2, <3>2, <3>3 DEF OldOrMine, OldTask
  <2> QED
    BY <2>3, <2>4
<1>3. CASE Drops(t)
  BY <1>3, AbandonedTyped DEF Drops, OldOrMine, OldTask
<1> QED
  BY <1>1, <1>2, <1>3 DEF Steps

LEMMA UndoKept ==
    ASSUME UndoInv, NEW t \in Turns, OldOrMine(t),
           \A u \in Turns \ {t} : tool'[u] = tool[u],
           \A u \in Turns : u \in uncovered => u \in uncovered',
           tool'[t].kind = "undo" => t \in uncovered',
           queue \in Seq(Task)
    PROVE  UndoInv'
<1>1. ASSUME NEW i \in DOMAIN queue', queue'[i].cap = "tool", queue'[i].tool.kind = "undo"
      PROVE  queue'[i].turn \in uncovered'
  <2>1. CASE OldTask(i)
    <3>1. queue[i].turn \in Turns
      <4>1. queue[i] \in Task
        BY <2>1 DEF OldTask
      <4> QED
        BY <4>1 DEF Task
    <3> QED
      BY <1>1, <2>1, <3>1 DEF OldTask, UndoInv, Positions
  <2>2. CASE queue'[i].turn = t /\ queue'[i].tool = tool'[t]
    BY <1>1, <2>2
  <2> QED
    BY <1>1, <2>1, <2>2 DEF OldOrMine
<1>2. \A u \in Turns : tool'[u].kind = "undo" => u \in uncovered'
  BY DEF UndoInv
<1> QED
  BY <1>1, <1>2 DEF UndoInv, Positions

LEMMA UndoStep ==
    ASSUME AgentTypeOK, UndoInv, NEW t \in Turns, Steps(t),
           Start(t) \/ Proceed(t) \/ GiveUp(t) \/ Die(t)
    PROVE  UndoInv'
<1>0. /\ tool \in [Turns -> Tools \cup {NoTool}] /\ NoTool.kind # "undo"
      /\ queue \in Seq(Task)
  BY TypeParts DEF CallTypes, TurnTypes, NoTool
<1> DEFINE Known == /\ \A u \in Turns : u \in uncovered => u \in uncovered'
                    /\ tool'[t].kind = "undo" => t \in uncovered'
<1> SUFFICES Known
  BY <1>0, TasksOfStep, UndoKept DEF Steps, MovesAlone
<1>1. ASSUME NEW x, UseTool(t, x)
      PROVE  Known
  BY <1>0, <1>1 DEF UseTool
<1>2. ASSUME tool'[t] \in {tool[t], NoTool}, \A u \in Turns : u \in uncovered => u \in uncovered'
      PROVE  Known
  BY <1>0, <1>2 DEF UndoInv
<1>3. ASSUME NEW failed, Resolve(t, failed)
      PROVE  tool'[t] \in {tool[t], NoTool}
  BY <1>0, <1>3 DEF Resolve, Leave
<1>4. CASE CallTool(t)
  BY <1>1, <1>4 DEF CallTool
<1>5. CASE Finish(t)
  <2>1. CASE ImportByItself(t)
    BY <1>1, <2>1 DEF ImportByItself
  <2>2. CASE ~ImportByItself(t)
    BY <1>2, <1>5, <2>2 DEF Finish, history
  <2> QED
    BY <2>1, <2>2
<1>6. CASE Start(t) \/ Verify(t) \/ GiveUp(t)
  BY <1>2, <1>6 DEF Start, Verify, GiveUp
<1>7. CASE TakeBaseline(t) \/ Sandbox(t)
  BY <1>2, <1>7 DEF TakeBaseline, Sandbox, history
<1>8. CASE Begun(t)
  BY <1>2, <1>8 DEF Begun
<1>9. CASE ToolDone(t)
  BY <1>0, <1>2, <1>9 DEF ToolDone, history
<1>10. CASE Verified(t)
  BY <1>2, <1>3, <1>10 DEF Verified
<1>11. CASE SkipVerify(t)
  BY <1>2, <1>3, <1>11 DEF SkipVerify
<1>12. CASE Resolved(t)
  BY <1>0, <1>2, <1>12 DEF Resolved, Leave, history
<1>13. CASE Die(t)
  BY <1>0, <1>2, <1>13 DEF Die, Leave
<1> QED
  BY <1>4, <1>5, <1>6, <1>7, <1>8, <1>9, <1>10, <1>11, <1>12, <1>13 DEF Proceed

\* The others do not run: what they left, or have not begun, stays as it is.
LEMMA OthersJournal ==
    ASSUME AgentTypeOK, OpenInv, NEW t \in Turns, Steps(t),
           Start(t) \/ Proceed(t) \/ GiveUp(t) \/ Die(t),
           NEW u \in Turns \ {t}, ~Running(u), JournalOf(u)
    PROVE  JournalOf(u)'
<1>1. /\ pc'[u] = pc[u] /\ reply'[u] = reply[u]
      /\ txnOpen'[u] = txnOpen[u] /\ UNCHANGED doc
  BY DEF Steps, MovesAlone
<1>2. /\ u \in uncovered' <=> u \in uncovered
      /\ rolledBack'[u] = rolledBack[u]
  BY TurnMoves
<1>3. ~txnOpen[u]
  BY DEF OpenInv, Running
<1>4. pc[u] \in {"idle", "done", "dead"}
  BY DEF Running
<1>5. OwnTasksOf(u)'
  BY <1>1, <1>3 DEF OwnTasksOf
<1>6. StagesOf(u)'
  BY <1>1, <1>2, <1>4 DEF StagesOf, JournalOf
<1>7. NoTools(u) => NoTools(u)'
  BY TasksOfStep DEF OldOrMine, OldTask, NoTools, Positions
<1>8. Untraced(u)' => Untraced(u)
  BY <1>1, <1>2, <1>4 DEF Untraced, Running
<1>9. ~Revocable(u)'
  BY <1>1, <1>3 DEF Revocable
<1> QED
  BY <1>1, <1>5, <1>6, <1>7, <1>8, <1>9 DEF JournalOf, TraceOf

\* A step of t that leaves the document and its own tasks leaves the trace, too.
LEMMA TraceKept ==
    ASSUME NEW t \in Turns, TraceOf(t), UNCHANGED doc,
           Untraced(t)' => Untraced(t) /\ (NoTools(t) => NoTools(t)'),
           Revocable(t)' => Revocable(t)
    PROVE  TraceOf(t)'
  BY DEF TraceOf
LEMMA OwnTasksKept ==
    ASSUME NEW t \in Turns, OwnTasksOf(t), OldOrMine(t),
           txnOpen'[t] => txnOpen[t] /\ pc'[t] # "begin",
           pc[t] \in {"abort", "commit"} =>
             pc'[t] \in {"abort", "commit"} /\ reply'[t].status # "waiting"
    PROVE  OwnTasksOf(t)'
<1> SUFFICES ASSUME txnOpen'[t], NEW i \in DOMAIN queue'
             PROVE  /\ queue'[i].turn = t
                    /\ queue'[i].cap # "begin"
                    /\ queue'[i].cap \in {"abort", "commit"} =>
                         /\ pc'[t] \in {"abort", "commit"}
                         /\ reply'[t].status = "waiting" => queue'[i].awaited
  BY DEF OwnTasksOf, Positions
<1>1. CASE OldTask(i)
  BY <1>1 DEF OldTask, OwnTasksOf, Positions
<1>2. CASE queue'[i].turn = t /\ queue'[i].cap = pc'[t] /\ queue'[i].awaited
  BY <1>2
<1> QED
  BY <1>1, <1>2 DEF OldOrMine

LEMMA NoToolsKept ==
    ASSUME NEW t \in Turns, OldOrMine(t), pc'[t] # "tool", NoTools(t)
    PROVE  NoTools(t)'
  BY DEF OldOrMine, OldTask, NoTools, Positions

\* The steps that neither begin nor end a transaction, nor use a tool.
LEMMA PlainJournal ==
    ASSUME AgentTypeOK, OpenInv, NEW t \in Turns, JournalOf(t), Steps(t),
           Start(t) \/ TakeBaseline(t) \/ Sandbox(t) \/ ToolDone(t) \/ Verify(t)
             \/ (Finish(t) /\ ~ImportByItself(t))
    PROVE  JournalOf(t)'
<1>0. /\ queue \in Seq(Task)
      /\ pc \in [Turns -> Pcs] /\ reply \in [Turns -> Reply]
      /\ tool \in [Turns -> Tools \cup {NoTool}] /\ NoTool.kind # "undo"
      /\ NoTool \in Tools \cup {NoTool}
  BY TypeParts DEF CallTypes, TurnTypes, NoTool
<1>1. OldOrMine(t) /\ MovesAlone(t)
  BY TasksOfStep DEF Steps
<1>2. txnOpen[t] => pc[t] \in TxnStages
  BY DEF OpenInv, TxnStages
<1>3. /\ UNCHANGED <<doc, txnOpen, rolledBack, uncovered>>
      /\ pc[t] \notin {"abort", "commit", "begin", "done"}
      /\ pc'[t] \in {"baseline", "think", "conclude", "verify"}
      /\ pc[t] = "idle" \/ Running(t)
      /\ tool'[t] \in {tool[t], NoTool}
  <2>1. CASE Start(t)
    <3>1. Ask(t, "baseline", NoTool) /\ "baseline" \in Capabilities
      BY <2>1 DEF Start, Capabilities
    <3>2. pc'[t] = "baseline"
      BY <1>0, <3>1, AskMoves
    <3> QED
      BY <2>1, <3>2 DEF Start
  <2>2. CASE TakeBaseline(t)
    BY <1>0, <2>2 DEF TakeBaseline, Answered, Running, history
  <2>3. CASE Sandbox(t)
    BY <2>3 DEF Sandbox, Running, history
  <2>4. CASE ToolDone(t)
    BY <1>0, <2>4 DEF ToolDone, Answered, Running, history
  <2>5. CASE Verify(t)
    <3>1. Ask(t, "verify", NoTool) /\ "verify" \in Capabilities
      BY <2>5 DEF Verify, Capabilities
    <3>2. pc'[t] = "verify"
      BY <1>0, <3>1, AskMoves
    <3> QED
      BY <2>5, <3>2 DEF Verify, Running
  <2>6. CASE Finish(t) /\ ~ImportByItself(t)
    BY <1>0, <2>6 DEF Finish, Running, history
  <2> QED
    BY <2>1, <2>2, <2>3, <2>4, <2>5, <2>6
<1>5. OwnTasksOf(t)'
  BY <1>0, <1>1, <1>3, OwnTasksKept DEF JournalOf
<1>6. StagesOf(t)'
  BY <1>0, <1>3 DEF JournalOf, StagesOf
<1>7. NoTools(t) => NoTools(t)'
  BY <1>1, <1>3, NoToolsKept
<1>8. Untraced(t)' => Untraced(t)
  BY <1>0, <1>3 DEF Untraced, Running, JournalOf, StagesOf
<1>9. Revocable(t)' => Revocable(t)
  BY <1>3 DEF Revocable
<1>10. TraceOf(t)'
  BY <1>0, <1>3, <1>7, <1>8, <1>9, TraceKept DEF JournalOf
<1> QED
  BY <1>5, <1>6, <1>10 DEF JournalOf

\* A tool of a covered turn runs behind its transaction.
LEMMA ToolJournal ==
    ASSUME AgentTypeOK, OpenInv, NEW t \in Turns, JournalOf(t), Steps(t), pc[t] = "think",
           NEW x \in Tools, UseTool(t, x)
    PROVE  JournalOf(t)'
<1>0. /\ queue \in Seq(Task)
      /\ tool \in [Turns -> Tools \cup {NoTool}]
      /\ rolledBack[t] => pc[t] = "done"
  BY TypeParts DEF CallTypes, TurnTypes, JournalOf, StagesOf
<1>1. OldOrMine(t) /\ MovesAlone(t)
  BY TasksOfStep DEF Steps
<1>2. /\ tool'[t] = x /\ UNCHANGED <<doc, txnOpen, rolledBack>>
      /\ uncovered' = IF x.kind = "undo" THEN uncovered \cup {t} ELSE uncovered
  BY <1>0 DEF UseTool
<1>3. /\ pc'[t] \in {"begin", "tool"}
      /\ pc'[t] = "tool" <=> (txnOpen[t] \/ x.kind = "undo")
      /\ reply'[t].status \in {"waiting", "lost"}
  <2>1. CASE DocMutating(x) /\ ~txnOpen[t]
    <3>1. Ask(t, "begin", NoTool) /\ "begin" \in Capabilities /\ NoTool \in Tools \cup {NoTool}
      BY <2>1 DEF UseTool, Capabilities
    <3> QED
      BY <2>1, <3>1, AskMoves DEF DocMutating
  <2>2. CASE ~(DocMutating(x) /\ ~txnOpen[t])
    <3>1. Ask(t, "tool", x) /\ "tool" \in Capabilities
      BY <2>2 DEF UseTool, Capabilities
    <3> QED
      BY <2>2, <3>1, AskMoves DEF DocMutating
  <2> QED
    BY <2>1, <2>2
<1>5. OwnTasksOf(t)'
  BY <1>0, <1>1, <1>2, <1>3, OwnTasksKept DEF JournalOf
<1>6. StagesOf(t)'
  BY <1>0, <1>2, <1>3 DEF StagesOf
<1>7. CASE x.kind = "undo"
  <2>1. ~Untraced(t)' /\ ~Revocable(t)'
    BY <1>0, <1>2, <1>3, <1>7 DEF Untraced, Revocable
  <2> QED
    BY <1>5, <1>6, <2>1 DEF JournalOf, TraceOf
<1>8. CASE x.kind # "undo"
  <2>1. Untraced(t)' => Untraced(t) /\ pc'[t] # "tool"
    BY <1>0, <1>2, <1>3, <1>8 DEF Untraced, Running
  <2>2. Revocable(t)' => Revocable(t)
    BY <1>2, <1>8 DEF Revocable
  <2>3. TraceOf(t)'
    BY <1>0, <1>1, <1>2, <2>1, <2>2, NoToolsKept, TraceKept DEF JournalOf
  <2> QED
    BY <1>5, <1>6, <2>3 DEF JournalOf
<1> QED
  BY <1>7, <1>8

\* A begin that was answered opens a transaction that has seen nothing yet.
LEMMA BegunJournal ==
    ASSUME AgentTypeOK, OpenInv, NEW t \in Turns, JournalOf(t), Steps(t), Begun(t)
    PROVE  JournalOf(t)'
<1>0. /\ queue \in Seq(Task)
      /\ tool \in [Turns -> Tools \cup {NoTool}] /\ txnOpen \in [Turns -> BOOLEAN]
      /\ rolledBack[t] => pc[t] = "done"
  BY TypeParts DEF CallTypes, TurnTypes, JournalOf, StagesOf
<1>1. OldOrMine(t) /\ MovesAlone(t)
  BY TasksOfStep DEF Steps
<1>2. /\ txnOpen'[t] <=> reply[t].status = "ok"
      /\ uncovered' = IF reply[t].status = "ok" THEN uncovered ELSE uncovered \cup {t}
      /\ UNCHANGED <<doc, tool, rolledBack>> /\ pc[t] = "begin"
  BY <1>0 DEF Begun, Answered
<1>3. pc'[t] = "tool" /\ reply'[t].status \in {"waiting", "lost"}
  <2>1. Ask(t, "tool", tool[t]) /\ "tool" \in Capabilities /\ tool[t] \in Tools \cup {NoTool}
    BY <1>0 DEF Begun, Capabilities
  <2> QED
    BY <2>1, AskMoves
<1>5. ~txnOpen[t]
  BY <1>2 DEF OpenInv
<1>6. StagesOf(t)'
  BY <1>0, <1>2, <1>3 DEF StagesOf
<1>7. CASE reply[t].status = "ok"
  <2>1. queue = << >> /\ doc.open /\ doc.before = NoChange
    BY <1>0, <1>2, <1>7 DEF JournalOf, StagesOf
  <2>2. OwnTasksOf(t)'
    BY <1>1, <1>3, <2>1 DEF OldOrMine, OldTask, OwnTasksOf, Positions
  <2>3. ~Untraced(t)'
    BY <1>0, <1>2, <1>3, <1>7 DEF Untraced
  <2>4. Revocable(t)' => Untraced(t)
    BY <1>2, <1>5, <1>7 DEF Revocable, Untraced, Running
  <2>5. Revocable(t)' => Held(doc, t)
    BY <1>0, <2>1, <2>4, HeldBegun DEF JournalOf, TraceOf
  <2> QED
    BY <1>2, <1>6, <2>2, <2>3, <2>5 DEF JournalOf, TraceOf
<1>8. CASE reply[t].status # "ok"
  <2>1. ~txnOpen'[t] /\ t \in uncovered'
    BY <1>2, <1>8
  <2>2. OwnTasksOf(t)'
    BY <2>1 DEF OwnTasksOf
  <2>3. ~Untraced(t)' /\ ~Revocable(t)'
    BY <1>3, <2>1 DEF Untraced, Revocable
  <2> QED
    BY <1>6, <2>2, <2>3 DEF JournalOf, TraceOf
<1> QED
  BY <1>7, <1>8
\* Asking for the end of a transaction still leaves it to be taken back.
LEMMA ResolveJournal ==
    ASSUME AgentTypeOK, OpenInv, NEW t \in Turns, JournalOf(t), Steps(t),
           pc[t] \in {"verify", "conclude"}, NEW failed, Resolve(t, failed),
           UNCHANGED <<doc, rolledBack, uncovered>>
    PROVE  JournalOf(t)'
<1>0. /\ queue \in Seq(Task)
      /\ tool \in [Turns -> Tools \cup {NoTool}] /\ NoTool.kind # "undo"
      /\ ~rolledBack[t]
  BY TypeParts DEF CallTypes, TurnTypes, NoTool, JournalOf, StagesOf
<1>1. OldOrMine(t) /\ MovesAlone(t)
  BY TasksOfStep DEF Steps
<1>2. tool'[t] \in {tool[t], NoTool}
  BY <1>0 DEF Resolve, Leave
<1>4. CASE txnOpen[t]
  <2> DEFINE cap == IF failed THEN "abort" ELSE "commit"
  <2>1. cap \in Capabilities /\ cap \in {"abort", "commit"} /\ NoTool \in Tools \cup {NoTool}
    BY DEF Capabilities
  <2>2. Ask(t, cap, NoTool) /\ UNCHANGED txnOpen
    BY <1>4 DEF Resolve
  <2> HIDE DEF cap
  <2>3. pc'[t] \in {"abort", "commit"} /\ reply'[t].status \in {"waiting", "lost"}
    BY <2>1, <2>2, AskMoves
  <2>4. OwnTasksOf(t)'
    BY <1>0, <1>1, <2>2, <2>3, OwnTasksKept DEF JournalOf
  <2>5. StagesOf(t)'
    BY <1>0, <1>4, <2>2, <2>3 DEF StagesOf
  <2>6. ~Untraced(t)'
    BY <1>0, <1>4, <2>2, <2>3 DEF Untraced
  <2>7. Revocable(t)' => Revocable(t)
    BY <2>2 DEF Revocable
  <2>8. TraceOf(t)'
    BY <1>0, <2>6, <2>7, TraceKept DEF JournalOf
  <2> QED
    BY <2>4, <2>5, <2>8 DEF JournalOf
<1>5. CASE ~txnOpen[t]
  <2>1. Leave(t, "done")
    BY <1>5 DEF Resolve
  <2>2. pc'[t] = "done" /\ txnOpen'[t] = FALSE
    BY <2>1, LeaveMoves
  <2>3. ~Untraced(t)' /\ ~Revocable(t)' /\ OwnTasksOf(t)' /\ StagesOf(t)'
    BY <1>0, <2>2 DEF Untraced, Revocable, OwnTasksOf, StagesOf, Running
  <2> QED
    BY <2>3 DEF JournalOf, TraceOf
<1> QED
  BY <1>4, <1>5

\* A turn that reports a rollback has been told of it.
LEMMA ResolvedJournal ==
    ASSUME AgentTypeOK, OpenInv, NEW t \in Turns, JournalOf(t), Steps(t), Resolved(t)
    PROVE  JournalOf(t)'
<1>0. /\ queue \in Seq(Task)
      /\ tool \in [Turns -> Tools \cup {NoTool}] /\ NoTool.kind # "undo"
      /\ rolledBack \in [Turns -> BOOLEAN]
  BY TypeParts DEF CallTypes, TurnTypes, RestTypes, NoTool
<1>1. OldOrMine(t) /\ MovesAlone(t)
  BY TasksOfStep DEF Steps
<1>2. /\ Leave(t, "done") /\ UNCHANGED <<doc, uncovered>>
      /\ rolledBack'[t] <=> pc[t] = "abort" /\ reply[t].status = "ok"
  BY <1>0 DEF Resolved, history
<1>3. pc'[t] = "done" /\ txnOpen'[t] = FALSE
  BY <1>2, LeaveMoves
<1>4. tool'[t] = NoTool
  BY <1>0, <1>2 DEF Leave
<1>6. OwnTasksOf(t)' /\ StagesOf(t)' /\ ~Revocable(t)'
  BY <1>3 DEF OwnTasksOf, StagesOf, Revocable
<1>7. Untraced(t)' => Untraced(t)
  BY <1>2, <1>3 DEF Untraced, Running
<1>8. TraceOf(t)'
  BY <1>0, <1>1, <1>2, <1>3, <1>6, <1>7, NoToolsKept, TraceKept DEF JournalOf
<1> QED
  BY <1>6, <1>8 DEF JournalOf

\* What is given up on can still be taken back, unless it was the end itself.
LEMMA GiveUpJournal ==
    ASSUME AgentTypeOK, OpenInv, NEW t \in Turns, JournalOf(t), Steps(t), GiveUp(t)
    PROVE  JournalOf(t)'
<1>0. /\ queue \in Seq(Task) /\ reply \in [Turns -> Reply]
  BY TypeParts DEF CallTypes
<1>1. /\ UNCHANGED <<doc, pc, txnOpen, tool, rolledBack, uncovered>>
      /\ queue' = Abandoned(t)
  BY DEF GiveUp
<1>2. reply'[t].status = "lost"
  <2>1. Says("lost").status = "lost"
    BY SaysTyped DEF Statuses
  <2> QED
    BY <1>0, <2>1 DEF GiveUp
<1>3. \A i \in DOMAIN queue' : OldTask(i)
  BY <1>1, AbandonedTyped DEF OldTask
<1>5. OwnTasksOf(t)'
  BY <1>0, <1>1, <1>2, <1>3 DEF JournalOf, OwnTasksOf, OldTask, Positions
<1>6. StagesOf(t)'
  BY <1>0, <1>1, <1>2 DEF JournalOf, StagesOf
<1>7. NoTools(t) => NoTools(t)'
  BY <1>3 DEF NoTools, OldTask, Positions
<1>8. (Untraced(t)' => Untraced(t)) /\ (Revocable(t)' => Revocable(t))
  BY <1>1, <1>2 DEF Untraced, Revocable, Running
<1>9. TraceOf(t)'
  BY <1>0, <1>1, <1>7, <1>8, TraceKept DEF JournalOf
<1> QED
  BY <1>5, <1>6, <1>9 DEF JournalOf

LEMMA DieJournal ==
    ASSUME AgentTypeOK, OpenInv, NEW t \in Turns, JournalOf(t), Steps(t), Die(t)
    PROVE  JournalOf(t)'
<1>0. /\ queue \in Seq(Task)
      /\ tool \in [Turns -> Tools \cup {NoTool}] /\ NoTool.kind # "undo"
      /\ ~rolledBack[t]
  BY TypeParts DEF CallTypes, TurnTypes, NoTool, JournalOf, StagesOf, Die, Running
<1>1. OldOrMine(t) /\ MovesAlone(t)
  BY TasksOfStep DEF Steps
<1>2. Leave(t, "dead") /\ UNCHANGED <<doc, rolledBack, uncovered>>
  BY DEF Die
<1>3. pc'[t] = "dead" /\ txnOpen'[t] = FALSE
  BY <1>2, LeaveMoves
<1>4. tool'[t] = NoTool
  BY <1>0, <1>2 DEF Leave
<1>6. OwnTasksOf(t)' /\ StagesOf(t)' /\ ~Untraced(t)' /\ ~Revocable(t)'
  BY <1>0, <1>2, <1>3 DEF OwnTasksOf, StagesOf, Untraced, Revocable, Running
<1> QED
  BY <1>6 DEF JournalOf, TraceOf

LEMMA TurnJournal ==
    ASSUME AgentTypeOK, OpenInv, NEW t \in Turns, JournalOf(t), Steps(t),
           Start(t) \/ Proceed(t) \/ GiveUp(t) \/ Die(t)
    PROVE  JournalOf(t)'
<1>1. CASE CallTool(t)
  <2>1. PICK x \in Tools : UseTool(t, x)
    BY <1>1 DEF CallTool, ToolsOf
  <2>2. pc[t] = "think"
    BY <1>1 DEF CallTool
  <2> QED
    BY <2>1, <2>2, ToolJournal
<1>2. CASE Finish(t) /\ ImportByItself(t)
  <2>1. PICK x \in Tools : UseTool(t, x)
    BY <1>2 DEF ImportByItself, Tools
  <2>2. pc[t] = "think"
    BY <1>2 DEF Finish
  <2> QED
    BY <2>1, <2>2, ToolJournal
<1>3. CASE Verified(t)
  BY <1>3, ResolveJournal DEF Verified, Answered
<1>4. CASE SkipVerify(t)
  BY <1>4, ResolveJournal DEF SkipVerify
<1> QED
  BY <1>1, <1>2, <1>3, <1>4, PlainJournal, BegunJournal, ResolvedJournal,
     GiveUpJournal, DieJournal DEF Proceed
\* What a task that runs may make of the document.
LEMMA EffectOnDocument ==
    ASSUME doc \in Documents, NEW task \in Task, NEW e \in Effects(task)
    PROVE  /\ task.cap \in {"baseline", "verify"} => e.doc = doc
           /\ task.cap = "begin" => e.doc = Begin(doc)
           /\ task.cap = "commit" => e.doc = Commit(doc)
           /\ task.cap = "abort" => e.doc = Abort(doc)
           /\ task.cap = "tool" =>
                \/ task.tool.kind = "undo" /\ e.doc = Undo(doc)
                \/ e.doc = doc
                \/ \E o \in Objects, s \in {"good", "broken", "gone"} :
                     e.doc = Write(doc, o, Made(task.turn, s))
<1>1. task.turn \in Turns /\ task.tool \in Tools \cup {NoTool}
  BY DEF Task
<1>2. CASE task.cap = "tool"
  <2>1. e \in ToolEffects(task.turn, task.tool)
    BY <1>2 DEF Effects
  <2> QED
    BY <1>1, <1>2, <2>1, ToolEffectTyped
<1>3. CASE task.cap # "tool"
  BY <1>3 DEF Effects, Effect
<1> QED
  BY <1>2, <1>3

\* A task of another turn puts nothing of u into the document.
LEMMA FreeAfter ==
    ASSUME doc \in Documents, NEW task \in Task, NEW e \in Effects(task),
           NEW u \in Turns, Free(doc, u), task.cap = "tool" => task.turn # u
    PROVE  Free(e.doc, u)
<1>1. /\ Free(Commit(doc), u) /\ Free(Begin(doc), u) /\ Free(Abort(doc), u)
      /\ Free(Undo(doc), u)
  BY FreeKept
<1>2. CASE task.cap = "tool"
  <2>1. task.turn \in Turns \ {u}
    BY <1>2 DEF Task
  <2>2. ASSUME NEW o \in Objects, NEW s \in {"good", "broken", "gone"}
        PROVE  Free(Write(doc, o, Made(task.turn, s)), u)
    BY <2>1, FreeKept
  <2> QED
    BY <1>1, <1>2, <2>2, EffectOnDocument
<1>3. CASE task.cap # "tool"
  BY <1>1, <1>3, EffectOnDocument DEF Task, Capabilities
<1> QED
  BY <1>2, <1>3

\* What u does inside its transaction stays in it.
LEMMA HeldAfter ==
    ASSUME doc \in Documents, NEW task \in Task, NEW e \in Effects(task),
           Held(doc, task.turn), task.cap \notin {"begin", "abort", "commit"},
           ~(task.cap = "tool" /\ task.tool.kind = "undo")
    PROVE  Held(e.doc, task.turn)
<1>1. task.turn \in Turns
  BY DEF Task
<1>2. ASSUME NEW o \in Objects, NEW s \in {"good", "broken", "gone"}
      PROVE  Held(Write(doc, o, Made(task.turn, s)), task.turn)
  BY <1>1, HeldWritten
<1> QED
  BY <1>2, EffectOnDocument DEF Task, Capabilities

\* The tasks that are left were there before.
LEMMA RunKeepsUndo ==
    ASSUME AgentTypeOK, UndoInv, NEW i \in 1 .. Len(queue), Run(i)
    PROVE  UndoInv'
<1>1. /\ \A j \in DOMAIN queue' : \E k \in DOMAIN queue : queue'[j] = queue[k]
      /\ UNCHANGED <<tool, uncovered>>
  BY RunsTask
<1> QED
  BY <1>1 DEF UndoInv, Positions

LEMMA RunKeepsTasks ==
    ASSUME NEW u \in Turns, OwnTasksOf(u),
           \A j \in DOMAIN queue' : \E k \in DOMAIN queue : queue'[j] = queue[k],
           UNCHANGED <<pc, txnOpen>>,
           reply'[u].status = "waiting" => reply[u].status = "waiting"
    PROVE  OwnTasksOf(u)' /\ (NoTools(u) => NoTools(u)')
<1>1. OwnTasksOf(u)'
  BY DEF OwnTasksOf, Positions
<1>2. NoTools(u) => NoTools(u)'
  BY DEF NoTools, Positions
<1> QED
  BY <1>1, <1>2

LEMMA RunJournal ==
    ASSUME AgentTypeOK, Queues, UndoInv, NEW i \in 1 .. Len(queue), Run(i),
           NEW u \in Turns \ crossed', AloneOf(u), JournalOf(u)
    PROVE  JournalOf(u)'
<1> DEFINE task == queue[i]
<1>1. /\ i \in DOMAIN queue /\ Len(queue) \in Nat
      /\ task \in Task /\ task.turn \in Turns
      /\ Len(queue') = Len(queue) - 1 /\ queue' \in Seq(Task)
      /\ \A j \in DOMAIN queue' : \E k \in DOMAIN queue : queue'[j] = queue[k]
      /\ UNCHANGED <<pc, txnOpen, tool, rolledBack, uncovered>>
      /\ \A v \in Turns : (v # task.turn \/ ~task.awaited) => reply'[v] = reply[v]
  BY RunsTask
<1>2. doc \in Documents /\ reply \in [Turns -> Reply]
  BY DEF AgentTypeOK
<1>3. PICK e \in Effects(task) :
        /\ doc' = e.doc
        /\ reply' = IF task.awaited THEN [reply EXCEPT ![task.turn] = e.answer] ELSE reply
  BY DEF Run
<1>4. e.answer.status \in {"ok", "failed", "error"}
  BY <1>1, <1>2, EffectTyped
<1>5. task.awaited /\ task.turn = u =>
        /\ pc[u] = task.cap /\ reply[u].status = "waiting"
        /\ Len(queue) = 1 /\ queue' = << >>
  <2>1. task.turn = u => i = 1
    BY RunsApart
  <2> QED
    BY <1>1, <2>1 DEF Queues, AwaitedInv, AloneOf, Positions
<1>6. queue # << >>
  BY <1>1
<1>7. /\ OwnTasksOf(u) /\ StagesOf(u) /\ TraceOf(u)
  BY DEF JournalOf
<1>8. reply'[u] # reply[u] => u = task.turn /\ task.awaited
  BY <1>1
<1>9. u = task.turn /\ task.awaited => reply'[u] = e.answer
  BY <1>1, <1>2, <1>3
<1>10. reply'[u].status = "waiting" => reply[u].status = "waiting"
  BY <1>4, <1>8, <1>9
<1>11. OwnTasksOf(u)' /\ (NoTools(u) => NoTools(u)')
  BY <1>1, <1>7, <1>10, RunKeepsTasks
<1>12. /\ task.cap = "tool" /\ task.tool.kind = "undo" => task.turn \in uncovered
       /\ NoTools(u) /\ task.cap = "tool" => task.turn # u
       /\ txnOpen[u] => /\ task.turn = u /\ task.cap # "begin"
                        /\ task.cap \in {"abort", "commit"} =>
                             /\ pc[u] \in {"abort", "commit"}
                             /\ reply[u].status = "waiting" => task.awaited
  BY <1>1, <1>7 DEF UndoInv, NoTools, OwnTasksOf, Positions
<1> HIDE DEF task
<1>13. StagesOf(u)'
  <2>1. ASSUME pc'[u] = "begin", reply'[u].status = "ok"
        PROVE  queue' = << >> /\ doc'.open /\ doc'.before = NoChange
    <3>1. u = task.turn /\ task.awaited
      BY <1>1, <1>6, <1>7, <1>8, <2>1 DEF StagesOf
    <3>2. task.cap = "begin" /\ queue' = << >>
      BY <1>1, <1>5, <2>1, <3>1
    <3>3. doc' = Begin(doc)
      BY <1>1, <1>2, <1>3, <3>2, EffectOnDocument
    <3> QED
      BY <1>2, <3>2, <3>3, BeginTyped
  <2> QED
    BY <1>1, <1>7, <2>1 DEF StagesOf
<1>14. ASSUME Untraced(u)'
       PROVE  Free(doc', u) /\ NoTools(u)'
  <2>1. CASE Untraced(u)
    <3>1. Free(doc, u) /\ NoTools(u)
      BY <1>7, <2>1 DEF TraceOf
    <3> QED
      BY <1>1, <1>2, <1>3, <1>11, <1>12, <3>1, FreeAfter
  <2>2. CASE ~Untraced(u)
    <3>1. /\ u \notin uncovered /\ pc[u] = "abort"
          /\ reply'[u].status = "ok" /\ reply[u].status # "ok"
      BY <1>1, <1>14, <2>2 DEF Untraced, Running
    <3>2. u = task.turn /\ task.awaited
      BY <1>8, <3>1
    <3>3. task.cap = "abort" /\ reply[u].status = "waiting" /\ queue' = << >>
      BY <1>5, <3>1, <3>2
    <3>4. Revocable(u)
      BY <1>7, <3>1, <3>3 DEF Revocable, StagesOf
    <3>5. Held(doc, u)
      BY <1>7, <3>4 DEF TraceOf
    <3>6. doc' = Abort(doc)
      BY <1>1, <1>2, <1>3, <3>3, EffectOnDocument
    <3>7. NoTools(u)'
      BY <3>3 DEF NoTools, Positions
    <3> QED
      BY <1>2, <3>5, <3>6, <3>7, AbortFrees
  <2> QED
    BY <2>1, <2>2
<1>15. ASSUME Revocable(u)'
       PROVE  Held(doc', u)
  <2>1. Revocable(u) /\ u \notin uncovered /\ txnOpen[u]
    BY <1>1, <1>10, <1>15 DEF Revocable
  <2>2. Held(doc, u)
    BY <1>7, <2>1 DEF TraceOf
  <2>3. task.turn = u /\ task.cap # "begin"
    BY <1>12, <2>1
  <2>4. task.cap \notin {"abort", "commit"}
    <3> SUFFICES ASSUME task.cap \in {"abort", "commit"}
                 PROVE  FALSE
      OBVIOUS
    <3>1. /\ pc[u] \in {"abort", "commit"}
          /\ reply[u].status = "waiting" => task.awaited
      BY <1>12, <2>1
    <3>2. reply'[u].status = "waiting"
      BY <1>1, <1>15, <3>1 DEF Revocable
    <3>3. reply'[u] = e.answer
      BY <1>9, <1>10, <2>3, <3>1, <3>2
    <3> QED
      BY <1>4, <3>2, <3>3
  <2>5. ~(task.cap = "tool" /\ task.tool.kind = "undo")
    BY <1>12, <2>1, <2>3
  <2> QED
    BY <1>1, <1>2, <1>3, <2>2, <2>3, <2>4, <2>5, HeldAfter
<1> QED
  BY <1>11, <1>13, <1>14, <1>15 DEF JournalOf, TraceOf
-----------------------------------------------------------------------------
(* The invariant of turns that cross no other, and what follows from it.   *)

LEMMA NewDocumentFree ==
    ASSUME NEW t \in Turns
    PROVE  Free(NewDocument, t)
<1>1. \A o \in Objects : NewDocument.value[o].by \in {"original", "absent"}
  BY DEF NewDocument, Original, Absent
<1>2. NewDocument.before = NoChange /\ DOMAIN NewDocument.undo = {}
  BY DEF NewDocument
<1> QED
  BY <1>1, <1>2, NothingNoted, DocumentAssumption DEF Free, Unrecorded

LEMMA TurnInit ==
    ASSUME Init
    PROVE  TurnIInv
<1>1. \A t \in Turns : /\ pc[t] = "idle" /\ reply[t] = NoReply /\ ~txnOpen[t]
                       /\ tool[t] = NoTool /\ ~rolledBack[t]
  BY DEF Init
<1>2. queue = << >> /\ doc = NewDocument /\ verified = {} /\ DOMAIN queue = {}
  BY DEF Init
<1>3. NoReply.status = "waiting" /\ NoReply.snapshot = NoSnapshot /\ NoTool.kind = "none"
  BY SaysTyped DEF NoReply, NoTool, Statuses
<1>4. UndoInv
  BY <1>1, <1>2, <1>3 DEF UndoInv, Positions
<1>5. ASSUME NEW t \in Turns
      PROVE  AloneOf(t) /\ VerifiedOf(t) /\ OwnTasksOf(t) /\ StagesOf(t)
  BY <1>1, <1>2, <1>3 DEF AloneOf, Running, VerifiedOf, OwnTasksOf, StagesOf, Positions
<1>6. ASSUME NEW t \in Turns
      PROVE  TraceOf(t)
  BY <1>1, <1>2, NewDocumentFree DEF TraceOf, NoTools, Revocable, Positions
<1> QED
  BY <1>4, <1>5, <1>6 DEF TurnIInv, UncrossedInv

LEMMA TurnStep ==
    ASSUME AgentIInv, TurnIInv, [Next]_vars
    PROVE  TurnIInv'
<1>1. AgentTypeOK /\ Queues /\ OpenInv /\ UndoInv /\ UncrossedInv
  BY DEF AgentIInv, TurnIInv, Queues
<1>2. AgentIInv' /\ Queues'
  BY AgentStep DEF AgentIInv, Queues
<1>3. ASSUME NEW t \in Turns, Start(t) \/ Proceed(t) \/ GiveUp(t) \/ Die(t)
      PROVE  TurnIInv'
  <2>1. Steps(t)
    BY <1>1, <1>3, TurnSteps DEF Queues
  <2>2. ASSUME NEW u \in Turns \ crossed'
        PROVE  AloneOf(u)' /\ VerifiedOf(u)' /\ JournalOf(u)'
    <3>1. u \notin crossed /\ (u # t => ~Running(u))
      BY <1>1, <1>3, <2>2, StepsApart
    <3>2. VerifiedOf(u) /\ JournalOf(u)
      BY <1>1, <3>1 DEF UncrossedInv, JournalOf
    <3>3. AloneOf(u)'
      BY <1>1, <1>2, <1>3, <2>1, <2>2, AloneKept
    <3>4. CASE u = t
      BY <1>1, <1>3, <2>1, <3>2, <3>3, <3>4, TurnVerified, TurnJournal
    <3>5. CASE u # t
      BY <1>1, <1>3, <2>1, <3>1, <3>2, <3>3, <3>5, OthersVerified, OthersJournal
    <3> QED
      BY <3>4, <3>5
  <2>3. UndoInv'
    BY <1>1, <1>3, <2>1, UndoStep
  <2> QED
    BY <2>2, <2>3 DEF TurnIInv, UncrossedInv, JournalOf
<1>4. ASSUME NEW i \in 1 .. Len(queue), Run(i)
      PROVE  TurnIInv'
  <2>1. ASSUME NEW u \in Turns \ crossed'
        PROVE  AloneOf(u)' /\ VerifiedOf(u)' /\ JournalOf(u)'
    <3>1. u \notin crossed
      BY <1>1, <1>4, <2>1, RunsApart
    <3>2. AloneOf(u) /\ VerifiedOf(u) /\ JournalOf(u)
      BY <1>1, <3>1 DEF UncrossedInv, JournalOf
    <3> QED
      BY <1>1, <1>4, <2>1, <3>2, RunKeepsAlone, RunVerified, RunJournal
  <2>2. UndoInv'
    BY <1>1, <1>4, RunKeepsUndo
  <2> QED
    BY <2>1, <2>2 DEF TurnIInv, UncrossedInv, JournalOf
<1>5. CASE UNCHANGED vars
  <2>1. UNCHANGED <<doc, queue, pc, reply, txnOpen, tool, edited, baseline, rolledBack,
                    uncovered, verified, crossed>>
    BY <1>5 DEF vars, turnVars, history
  <2>2. UndoInv'
    BY <1>1, <2>1 DEF UndoInv, Positions
  <2>3. ASSUME NEW u \in Turns \ crossed
        PROVE  AloneOf(u)' /\ VerifiedOf(u)' /\ OwnTasksOf(u)' /\ StagesOf(u)' /\ TraceOf(u)'
    <3>1. AloneOf(u) /\ VerifiedOf(u) /\ OwnTasksOf(u) /\ StagesOf(u) /\ TraceOf(u)
      BY <1>1 DEF UncrossedInv
    <3>2. AloneOf(u)' /\ VerifiedOf(u)'
      BY <2>1, <3>1 DEF AloneOf, VerifiedOf, Running, Positions
    <3>3. OwnTasksOf(u)' /\ StagesOf(u)'
      BY <2>1, <3>1 DEF OwnTasksOf, StagesOf, Positions
    <3>4. TraceOf(u)'
      BY <2>1, <3>1 DEF TraceOf, Untraced, Revocable, NoTools, Running, Positions
    <3> QED
      BY <3>2, <3>3, <3>4
  <2> QED
    BY <2>1, <2>2, <2>3 DEF TurnIInv, UncrossedInv
<1> QED
  BY <1>3, <1>4, <1>5 DEF Next

\* Both invariants hold however the turns start, with a GUI thread and without:
\* what they say of a turn holds while that turn crosses no other.
THEOREM TurnInvariant == Spec => [](AgentIInv /\ TurnIInv)
<1>1. Init => AgentIInv /\ TurnIInv
  BY AgentInit, TurnInit
<1>2. AgentIInv /\ TurnIInv /\ [Next]_vars => (AgentIInv /\ TurnIInv)'
  BY AgentStep, TurnStep
<1> QED
  BY <1>1, <1>2, PTL DEF Spec

\* A turn that had the document to itself and commits after a verification which
\* found nothing wrong commits the edits it knows of and no other, whatever calls
\* of its own or of earlier turns timed out and whenever their tasks ran.
THEOREM CommitsAreKnown == Spec => []CommitsOnlyWhatItKnows
<1>1. AgentIInv /\ TurnIInv => CommitsOnlyWhatItKnows
  BY DEF AgentIInv, AgentTypeOK, TurnIInv, UncrossedInv, VerifiedOf, CommitsOnlyWhatItKnows
<1> QED
  BY <1>1, TurnInvariant, PTL

\* A rollback that a turn with the document to itself reports has taken back
\* everything the turn did in its transaction, and neither a task that was given
\* up on nor any later turn, overlapping others or not, brings any of it back.
THEOREM RollbacksAreComplete == Spec => []RollbackLeavesNothing
<1>1. AgentIInv /\ TurnIInv => RollbackLeavesNothing
  <2> SUFFICES ASSUME TurnIInv, NEW t \in Turns, rolledBack[t],
                      t \notin uncovered \cup crossed
               PROVE  \A o \in Objects : doc.value[o].by # t
    BY DEF RollbackLeavesNothing
  <2>1. Untraced(t)
    BY DEF Untraced
  <2> QED
    BY <2>1 DEF TurnIInv, UncrossedInv, TraceOf, Free
<1> QED
  BY <1>1, TurnInvariant, PTL

=============================================================================
