--------------------------- MODULE FreecadDocument ---------------------------
(***************************************************************************)
(* The live FreeCAD document as the addon's capabilities change it: one    *)
(* value per object and at most one open transaction.                      *)
(*                                                                         *)
(* An open transaction remembers the value every object had before the     *)
(* transaction touched it.  Opening one while another is open commits the  *)
(* first, a change made while none is open is remembered nowhere, and undo *)
(* first commits what is open.  That is FreeCAD's own behaviour, which the *)
(* capabilities only call.                                                 *)
(***************************************************************************)
EXTENDS Naturals, Sequences

CONSTANTS
    Turns,      \* agent turns: the writers of this document
    Existing,   \* objects in the document when the first turn starts
    Created,    \* names of objects that turns may add
    Failures    \* how an edit that fails may leave its object

ASSUME DocumentAssumption ==
    /\ Existing \cap Created = {}
    /\ Failures \subseteq {"good", "broken"}
    /\ Turns \cap {"original", "absent", "untouched"} = {}

Objects == Existing \cup Created

\* What an object holds: what it held at first, or what a turn made of it.
\* A broken object is in an error state, a gone one is not in the document.
Original == [by |-> "original", state |-> "good"]
Absent   == [by |-> "absent", state |-> "gone"]
Made(t, state) == [by |-> t, state |-> state]
Values == {Original, Absent} \cup
          {Made(t, s) : t \in Turns, s \in {"good", "broken", "gone"}}

\* In a transaction: this object was not touched.
Untouched == [by |-> "untouched", state |-> "good"]
Changes   == [Objects -> Values \cup {Untouched}]
NoChange  == [o \in Objects |-> Untouched]

Documents == [value  : [Objects -> Values],
              open   : BOOLEAN,     \* is a transaction open?
              before : Changes,     \* what it would restore
              undo   : Seq(Changes)]

NewDocument ==
    [value  |-> [o \in Objects |-> IF o \in Existing THEN Original ELSE Absent],
     open   |-> FALSE,
     before |-> NoChange,
     undo   |-> << >>]

Restored(value, change) ==
    [o \in Objects |-> IF change[o] = Untouched THEN value[o] ELSE change[o]]

\* cap_commit_transaction: a transaction that changed nothing leaves no trace.
Commit(d) ==
    [value  |-> d.value,
     open   |-> FALSE,
     before |-> NoChange,
     undo   |-> IF d.before = NoChange THEN d.undo ELSE Append(d.undo, d.before)]

\* cap_begin_transaction
Begin(d) == [Commit(d) EXCEPT !.open = TRUE]

\* cap_abort_transaction: without an open transaction it changes nothing.
Abort(d) ==
    [value  |-> Restored(d.value, d.before),
     open   |-> FALSE,
     before |-> NoChange,
     undo   |-> d.undo]

\* cap_undo
Undo(d) ==
    LET c == Commit(d)
    IN  IF c.undo = << >>
        THEN c
        ELSE [value  |-> Restored(c.value, c.undo[Len(c.undo)]),
              open   |-> FALSE,
              before |-> NoChange,
              undo   |-> SubSeq(c.undo, 1, Len(c.undo) - 1)]

\* Any capability that leaves object o with value v.
Write(d, o, v) ==
    [value  |-> [d.value EXCEPT ![o] = v],
     open   |-> d.open,
     before |-> [d.before EXCEPT
                    ![o] = IF d.open /\ @ = Untouched THEN d.value[o] ELSE @],
     undo   |-> d.undo]

==============================================================================
