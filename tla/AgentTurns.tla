----------------------------- MODULE AgentTurns -----------------------------
(***************************************************************************)
(* The FreeCAD copilot: agent turns in the harness process edit one live   *)
(* document through the addon's bridge (orion_agent/harness/agent/loop.py, *)
(* verify.py, bridge_client.py; orion_agent/addon/bridge_server.py,        *)
(* task_queue.py).                                                         *)
(*                                                                         *)
(* Every capability call is an HTTP request whose handler thread queues a  *)
(* task for the GUI thread and waits for it.  Handler and client both give *)
(* up after the same timeout; the task they gave up on stays queued and    *)
(* runs later.  A turn takes a baseline of the document, lets the model    *)
(* call tools (the first that changes the document opens a transaction),   *)
(* compares the document with the baseline and then commits or aborts.     *)
(* Nothing in the harness keeps two turns apart, and nothing cleans up     *)
(* after a turn that dies.                                                 *)
(***************************************************************************)
EXTENDS FreecadDocument

CONSTANTS
    Gui,        \* is there a GUI thread?  Without one, handlers run tasks inline
    Pillars,    \* the pillars the router may pick for each turn
    MaxTools    \* bound: the tool calls the model makes in each turn

AllPillars == {"modify", "reconstruct", "generate"}

ASSUME AgentAssumption ==
    /\ Gui \in BOOLEAN
    /\ Pillars \in [Turns -> SUBSET AllPillars]
    /\ MaxTools \in [Turns -> Nat]

VARIABLES
    doc,        \* the document
    queue,      \* GuiTaskQueue._q: tasks that have not run
    \* ---- by turn: AgentLoop.run
    pc,         \* what the turn does next, or which answer it waits for
    reply,      \* the answer to its last capability call
    pillar,     \* the pillar it was routed to
    txnOpen,    \* txn_open: it believes its transaction is open
    tool,       \* the tool call in hand: what it is and on which object
    edited,     \* edited_names
    baseline,   \* the snapshot from before the edit, or NoSnapshot
    did,        \* the kinds of build tools that succeeded
    used,       \* tool calls so far
    rolledBack, \* what the turn reports: "The change was rolled back."
    \* ---- history
    uncovered,  \* turns that worked, or may have, outside their transaction
    verified,   \* turns whose document was compared with a baseline
    crossed,    \* turns that ran beside another one, or whose tasks did not
                \* run in the order they were put
    dangling    \* has some transaction lost whoever would end it?

turnVars == <<pc, reply, pillar, txnOpen, tool, edited, baseline, did, used>>
history == <<uncovered, verified, crossed, dangling>>
vars == <<doc, queue, turnVars, rolledBack, history>>

-----------------------------------------------------------------------------
(* Tools.  They differ in what they do to the document and in whether the  *)
(* loop remembers the object they touched.                                 *)

Tools ==
    [kind : {"edit",     \* set_parameter, edit_feature
             "replace",  \* import_shape onto an object
             "delete"},  \* delete_object
     object : Objects]
    \cup
    [kind : {"import",   \* import_shape as a new object
             "build",    \* create_featuregraph, compile_assembly_graph
             "insert",   \* insert_library_part
             "undo"},
     object : {"none"}]

\* The kinds of tools that a pillar's route does not offer.
Barred == [modify      |-> {"build"},
           reconstruct |-> {"edit", "undo", "insert"},
           generate    |-> {"edit", "undo"}]

ToolsOf(p) == {x \in Tools : x.kind \notin Barred[p]}

BuildTools == {"import", "build"}

\* What a successful call of x counts as when the turn looks back at its calls.
CountsAs(x) == IF x.kind = "replace" THEN {"import"} ELSE {x.kind} \cap BuildTools

NoTool == [kind |-> "none", object |-> "none"]

DocMutating(x) == x.kind # "undo"

TrackedAnyhow(x, answer) ==              \* mutant: whatever the answer was
    CASE x.kind \in {"edit", "replace"} -> {x.object}
      [] x.kind \in BuildTools -> {answer.created}
      [] OTHER -> {}

\* The objects the loop adds to edited_names when a tool call ended so.
Tracked(x, answer) ==
    CASE x.kind = "edit" -> {x.object}
      [] x.kind = "replace" -> {x.object} \cup ({answer.created} \cap Objects)
      [] x.kind = "import" /\ answer.status = "ok" -> {answer.created}
      [] x.kind = "build" /\ answer.status \in {"ok", "failed"} -> {answer.created}
      [] OTHER -> {}

-----------------------------------------------------------------------------
(* Capability calls.                                                       *)

Capabilities == {"baseline", "begin", "tool", "verify", "abort", "commit"}

NoSnapshot == [o \in Objects |-> Untouched]

\* "awaited": a handler thread, and the turn behind it, still wait for it.
Task == [turn : Turns, cap : Capabilities, tool : Tools \cup {NoTool},
         awaited : BOOLEAN]

\* "failed": the capability answered, and its answer says the build failed.
Statuses == {"waiting", "ok", "failed", "error", "lost"}
Reply == [status : Statuses, created : Objects \cup {"none"}, snapshot : Changes]
Says(status) == [status |-> status, created |-> "none", snapshot |-> NoSnapshot]

NoReply == Says("waiting")

\* BridgeClient._call.  A request that cannot reach the bridge is retried and
\* then fails without having run; one that was sent waits for its task.
Ask(t, cap, x) ==
    /\ pc' = [pc EXCEPT ![t] = cap]
    /\ \/ /\ queue' = Append(queue, [turn |-> t, cap |-> cap, tool |-> x,
                                     awaited |-> TRUE])
          /\ reply' = [reply EXCEPT ![t] = NoReply]
          /\ UNCHANGED dangling
       \/ /\ reply' = [reply EXCEPT ![t] = Says("lost")]
          /\ dangling' = (dangling \/ cap \in {"abort", "commit"})
          /\ UNCHANGED queue

\* The answer to the call the turn is at has come, or been given up on.
Answered(t, cap) ==
    /\ pc[t] = cap
    /\ reply[t].status # "waiting"

Abandoned(t) ==
    [i \in DOMAIN queue |->
        [queue[i] EXCEPT !.awaited = @ /\ queue[i].turn # t]]

\* The wait for the task's event, or the client's socket, times out.  An
\* answer that is on its way is lost with it.
GiveUp(t) ==
    /\ pc[t] \in Capabilities
    /\ reply[t].status # "lost"
    /\ reply' = [reply EXCEPT ![t] = Says("lost")]
    /\ queue' = Abandoned(t)
    /\ dangling' = (dangling \/ pc[t] = "begin")
    /\ UNCHANGED <<doc, pc, pillar, txnOpen, tool, edited, baseline, did, used,
                   rolledBack, uncovered, verified, crossed>>

-----------------------------------------------------------------------------
(* The addon: GuiTaskQueue._drain and _run, Capabilities.dispatch.         *)

Without(q, i) == [j \in 1 .. Len(q) - 1 |-> IF j < i THEN q[j] ELSE q[j + 1]]

Effect(answer, d) == [answer |-> answer, doc |-> d]

\* The ways a tool's capability can end: it may fail before it changed the
\* document, or after, when what it changed no longer recomputes.
ToolEffects(t, x) ==
    LET Present(o) == doc.value[o].state # "gone"
        Fresh == {o \in Created : doc.value[o] = Absent}
        Makes(status, o, state) ==
            Effect([Says(status) EXCEPT !.created = o], Write(doc, o, Made(t, state)))
        Refuses == {Effect(Says("error"), doc)}
        Adds == Refuses \cup {Makes("ok", o, "good") : o \in Fresh}
    IN  CASE x.kind = "undo" ->
               {Effect(Says("ok"), Undo(doc))}
          [] x.kind = "edit" /\ Present(x.object) ->
               Refuses \cup {Makes("ok", x.object, "good")}
                       \cup {Makes("error", x.object, s) : s \in Failures}
          [] x.kind = "replace" /\ Present(x.object) ->
               Refuses \cup {Effect(Says("ok"), Write(doc, x.object, Made(t, "good")))}
          [] x.kind = "delete" /\ Present(x.object) ->
               Refuses \cup {Makes("ok", x.object, "gone")}
          [] \/ x.kind \in {"import", "insert"}
             \/ x.kind = "replace" /\ ~Present(x.object) -> Adds
          [] x.kind = "build" ->
               Adds \cup {Makes(status, o, s) : status \in {"failed", "error"},
                                             o \in Fresh, s \in Failures}
          [] OTHER -> Refuses

\* What running a task may do to the document and answer.
Effects(task) ==
    CASE task.cap \in {"baseline", "verify"} ->
           {Effect([Says("ok") EXCEPT !.snapshot = doc.value], doc)}
      [] task.cap = "begin"  -> {Effect(Says("ok"), Begin(doc))}
      [] task.cap = "commit" -> {Effect(Says("ok"), Commit(doc))}
      [] task.cap = "abort"  -> {Effect(Says("ok"), Abort(doc))}
      [] task.cap = "tool"   -> ToolEffects(task.turn, task.tool)

\* The turns whose tasks do not run in the order they were put.
Overtaken(i) == IF i = 1 THEN {} ELSE {queue[j].turn : j \in 1 .. i}

\* With a GUI, its thread takes the tasks in the order they were put; without
\* one, each handler thread runs its own when it gets to it.
Run(i) ==
    /\ Gui => i = 1
    /\ LET task == queue[i] IN
       \E e \in Effects(task) :
          /\ doc' = e.doc
          /\ reply' = IF task.awaited THEN [reply EXCEPT ![task.turn] = e.answer]
                                     ELSE reply
    /\ queue' = Without(queue, i)
    /\ crossed' = crossed \cup Overtaken(i)
    /\ UNCHANGED <<pc, pillar, txnOpen, tool, edited, baseline, did, used,
                   rolledBack, uncovered, verified, dangling>>

-----------------------------------------------------------------------------
(* AgentLoop.run.                                                          *)

Running(t) == pc[t] \notin {"idle", "done", "dead"}

\* A turn that starts beside others, and those others.
Beside(t) ==
    LET others == {u \in Turns : Running(u)}
    IN  IF others = {} THEN {} ELSE others \cup {t}

\* A chat request.  Its baseline is the two reads of EditVerifier.snapshot,
\* asked one after the other and taken here as one.
Start(t) ==
    /\ pc[t] = "idle"
    /\ crossed' = crossed \cup Beside(t)
    /\ \E p \in Pillars[t] : pillar' = [pillar EXCEPT ![t] = p]
    /\ Ask(t, "baseline", NoTool)
    /\ UNCHANGED <<doc, txnOpen, tool, edited, baseline, did, used, rolledBack,
                   uncovered, verified>>

\* A snapshot that fails is None.
TakeBaseline(t) ==
    /\ Answered(t, "baseline")
    /\ baseline' = [baseline EXCEPT ![t] = reply[t].snapshot]
    /\ pc' = [pc EXCEPT ![t] = "think"]
    /\ reply' = [reply EXCEPT ![t] = NoReply]
    /\ UNCHANGED <<doc, queue, txnOpen, pillar, tool, edited, did, used,
                   rolledBack, history>>

\* Make the call of tool x, behind a transaction if it is the first to change
\* the document.
UseTool(t, x) ==
    /\ tool' = [tool EXCEPT ![t] = x]
    /\ IF DocMutating(x) /\ ~txnOpen[t] THEN Ask(t, "begin", NoTool)
                                       ELSE Ask(t, "tool", x)
    /\ uncovered' = IF x.kind = "undo" THEN uncovered \cup {t} ELSE uncovered
    /\ UNCHANGED <<doc, txnOpen, pillar, edited, baseline, rolledBack, verified,
                   crossed>>

\* The model asks for a tool of its pillar.
CallTool(t) ==
    /\ pc[t] = "think"
    /\ used[t] < MaxTools[t]
    /\ used' = [used EXCEPT ![t] = @ + 1]
    /\ \E x \in ToolsOf(pillar[t]) : UseTool(t, x)
    /\ UNCHANGED did

\* write_code runs in the sandbox and builds something.
Sandbox(t) ==
    /\ pc[t] = "think"
    /\ used[t] < MaxTools[t]
    /\ did' = [did EXCEPT ![t] = @ \cup {"sandbox"}]
    /\ used' = [used EXCEPT ![t] = @ + 1]
    /\ UNCHANGED <<doc, queue, pc, reply, txnOpen, pillar, tool, edited, baseline,
                   rolledBack, history>>

\* _begin_txn: a failure only means that no transaction is taken to be open;
\* the tool call goes ahead.
Begun(t) ==
    /\ Answered(t, "begin")
    /\ txnOpen' = [txnOpen EXCEPT ![t] = reply[t].status = "ok"]
    /\ uncovered' = IF reply[t].status = "ok" THEN uncovered ELSE uncovered \cup {t}
    /\ Ask(t, "tool", tool[t])
    /\ UNCHANGED <<doc, pillar, tool, edited, baseline, did, used, rolledBack,
                   verified, crossed>>

\* The tool call is over, one way or another.  The import that the harness
\* makes by itself ends the turn's work, any other goes back to the model.
ToolDone(t) ==
    /\ Answered(t, "tool")
    /\ edited' = [edited EXCEPT ![t] = @ \cup Tracked(tool[t], reply[t])]
    /\ did' = [did EXCEPT ![t] = IF reply[t].status = "ok"
                                 THEN @ \cup CountsAs(tool[t]) ELSE @]
    /\ pc' = [pc EXCEPT ![t] = IF used[t] > MaxTools[t] THEN "conclude" ELSE "think"]
    /\ reply' = [reply EXCEPT ![t] = NoReply]
    /\ tool' = [tool EXCEPT ![t] = NoTool]
    /\ UNCHANGED <<doc, queue, txnOpen, pillar, baseline, used, rolledBack, history>>

\* A generate turn that built in the sandbox and put nothing into the document
\* imports what it built.
MustImport(t) ==
    /\ pillar[t] = "generate"
    /\ "sandbox" \in did[t]
    /\ did[t] \cap {"import", "build"} = {}

ImportByItself(t) ==
    /\ MustImport(t)
    /\ used' = [used EXCEPT ![t] = MaxTools[t] + 1]
    /\ UseTool(t, [kind |-> "import", object |-> "none"])
    /\ UNCHANGED did

\* The model answers, fails, or has used up its steps.
Finish(t) ==
    /\ pc[t] = "think"
    /\ \/ ImportByItself(t)
       \/ /\ ~MustImport(t)
          /\ pc' = [pc EXCEPT ![t] = "conclude"]
          /\ UNCHANGED <<doc, queue, reply, pillar, txnOpen, tool, edited, baseline,
                         did, used, rolledBack, history>>

-----------------------------------------------------------------------------
(* Verification and the end of the transaction.                            *)

\* The objects that list_objects marks with "error".  The capability reports
\* no error state, so whatever the document is like, there are none.
ErrorObjects(snapshot) == {}

\* EditVerifier._no_unintended_change
OnlyChanged(before, after, names) ==
    \A o \in Objects \ names : before[o] = after[o]

HardFailureByErrors(before, after, names) ==     \* mutant: not all the checks
    /\ after # NoSnapshot
    /\ ErrorObjects(after) # {}

\* _hard_failed: executed, edit_survived or no_unintended_change is False.
\* Without a baseline or a snapshot the checks prove nothing either way.
HardFailure(before, after, names) ==
    /\ after # NoSnapshot
    /\ \/ ErrorObjects(after) # {}
       \/ before # NoSnapshot /\ ~OnlyChanged(before, after, names)

\* The turn is over: its local variables are gone.
Leave(t, how) ==
    /\ pc' = [pc EXCEPT ![t] = how]
    /\ reply' = [reply EXCEPT ![t] = NoReply]
    /\ pillar' = [pillar EXCEPT ![t] = "none"]
    /\ txnOpen' = [txnOpen EXCEPT ![t] = FALSE]
    /\ tool' = [tool EXCEPT ![t] = NoTool]
    /\ edited' = [edited EXCEPT ![t] = {}]
    /\ baseline' = [baseline EXCEPT ![t] = NoSnapshot]
    /\ did' = [did EXCEPT ![t] = {}]
    /\ used' = [used EXCEPT ![t] = 0]

ResolveEdits(t, failed) ==               \* mutant: only if something was edited
    IF txnOpen[t] /\ edited[t] # {}
    THEN /\ Ask(t, IF failed THEN "abort" ELSE "commit", NoTool)
         /\ UNCHANGED <<pillar, txnOpen, tool, edited, baseline, did, used>>
    ELSE /\ Leave(t, "done")
         /\ UNCHANGED <<queue, dangling>>

\* Abort or commit, if there is a transaction to end.
Resolve(t, failed) ==
    IF txnOpen[t]
    THEN /\ Ask(t, IF failed THEN "abort" ELSE "commit", NoTool)
         /\ UNCHANGED <<pillar, txnOpen, tool, edited, baseline, did, used>>
    ELSE /\ Leave(t, "done")
         /\ UNCHANGED <<queue, dangling>>

\* With something edited, look at the document again.
Verify(t) ==
    /\ pc[t] = "conclude"
    /\ edited[t] # {}
    /\ Ask(t, "verify", NoTool)
    /\ UNCHANGED <<doc, txnOpen, pillar, tool, edited, baseline, did, used,
                   rolledBack, uncovered, verified, crossed>>

Verified(t) ==
    /\ Answered(t, "verify")
    /\ Resolve(t, HardFailure(baseline[t], reply[t].snapshot, edited[t]))
    /\ verified' = IF NoSnapshot \in {baseline[t], reply[t].snapshot}
                   THEN verified ELSE verified \cup {t}
    /\ UNCHANGED <<doc, rolledBack, uncovered, crossed>>

\* With nothing edited there is nothing to verify; a generate turn has failed
\* its "executed" check if it built nothing.
SkipVerify(t) ==
    /\ pc[t] = "conclude"
    /\ edited[t] = {}
    /\ Resolve(t, pillar[t] = "generate" /\ did[t] \cap {"sandbox", "build"} = {})
    /\ UNCHANGED <<doc, rolledBack, uncovered, verified, crossed>>

ResolvedHopefully(t) ==                  \* mutant: the abort's answer is not read
    /\ \/ Answered(t, "abort")
       \/ Answered(t, "commit")
    /\ rolledBack' = [rolledBack EXCEPT ![t] = pc[t] = "abort"]
    /\ Leave(t, "done")
    /\ UNCHANGED <<doc, queue, history>>

\* The turn answers.  A commit or an abort that fails is only noted.
Resolved(t) ==
    /\ \/ Answered(t, "abort")
       \/ Answered(t, "commit")
    /\ rolledBack' = [rolledBack EXCEPT ![t] = pc[t] = "abort" /\ reply[t].status = "ok"]
    /\ Leave(t, "done")
    /\ UNCHANGED <<doc, queue, history>>

\* The harness process goes away, or an exception leaves the loop.
Die(t) ==
    /\ Running(t)
    /\ Leave(t, "dead")
    /\ queue' = Abandoned(t)
    /\ dangling' = \/ dangling
                    \/ pc[t] = "begin"
                    \/ (txnOpen[t] /\ pc[t] \notin {"abort", "commit"})
    /\ UNCHANGED <<doc, rolledBack, uncovered, verified, crossed>>

-----------------------------------------------------------------------------
Init ==
    /\ doc = NewDocument
    /\ queue = << >>
    /\ pc = [t \in Turns |-> "idle"]
    /\ reply = [t \in Turns |-> NoReply]
    /\ pillar = [t \in Turns |-> "none"]
    /\ txnOpen = [t \in Turns |-> FALSE]
    /\ tool = [t \in Turns |-> NoTool]
    /\ edited = [t \in Turns |-> {}]
    /\ baseline = [t \in Turns |-> NoSnapshot]
    /\ did = [t \in Turns |-> {}]
    /\ used = [t \in Turns |-> 0]
    /\ rolledBack = [t \in Turns |-> FALSE]
    /\ uncovered = {}
    /\ verified = {}
    /\ crossed = {}
    /\ dangling = FALSE

\* What a running turn does by itself.
Proceed(t) ==
    \/ TakeBaseline(t) \/ CallTool(t) \/ Sandbox(t) \/ Begun(t) \/ ToolDone(t)
    \/ Finish(t) \/ Verify(t) \/ Verified(t) \/ SkipVerify(t) \/ Resolved(t)

Next ==
    \/ \E t \in Turns : Start(t) \/ Proceed(t) \/ GiveUp(t) \/ Die(t)
    \/ \E i \in 1 .. Len(queue) : Run(i)

Spec == Init /\ [][Next]_vars

-----------------------------------------------------------------------------
(* What a turn leaves behind.                                              *)

AgentTypeOK ==
    /\ doc \in Documents
    /\ queue \in Seq(Task)
    /\ pc \in [Turns -> Capabilities \cup {"idle", "think", "conclude", "done", "dead"}]
    /\ reply \in [Turns -> Reply]
    /\ pillar \in [Turns -> AllPillars \cup {"none"}]
    /\ txnOpen \in [Turns -> BOOLEAN]
    /\ tool \in [Turns -> Tools \cup {NoTool}]
    /\ edited \in [Turns -> SUBSET Objects]
    /\ baseline \in [Turns -> Changes]
    /\ did \in [Turns -> SUBSET (BuildTools \cup {"sandbox"})]
    /\ used \in [Turns -> Nat]
    /\ \A t \in Turns : used[t] <= MaxTools[t] + 1
    /\ rolledBack \in [Turns -> BOOLEAN]
    /\ uncovered \subseteq Turns
    /\ verified \subseteq Turns
    /\ crossed \subseteq Turns
    /\ dangling \in BOOLEAN

\* "The change was rolled back" is true of everything the turn did, calls that
\* timed out and ran late included, if all of it happened inside one
\* transaction: every begin was answered, the turn did not undo, and no other
\* turn ran beside it.  Turns before and after it may run beside each other.
RollbackLeavesNothing ==
    \A t \in Turns :
        rolledBack[t] /\ t \notin uncovered \cup crossed
            => \A o \in Objects : doc.value[o].by # t

\* While a turn that has the document to itself commits after a verification
\* that found nothing wrong, the document differs from its baseline in the
\* objects the turn knows it edited and in nothing else, whatever calls it, or
\* the turns before it, gave up on.
CommitsOnlyWhatItKnows ==
    \A t \in Turns :
        pc[t] = "commit" /\ t \in verified \ crossed
            => OnlyChanged(baseline[t], doc.value, edited[t])

\* Once every turn is over and every task has run, a transaction is still open
\* only if the turn that opened it could not know, could not say so, or died.
NothingLeftOpen ==
    /\ \A t \in Turns : ~Running(t)
    /\ queue = << >>
    /\ doc.open
    => dangling

=============================================================================
