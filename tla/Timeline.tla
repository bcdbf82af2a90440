------------------------------ MODULE Timeline ------------------------------
(***************************************************************************)
(* What an edit history promises (engine/edit/include/atlas/edit): a line  *)
(* of pages with a place in it.  An edit cuts the line after the place and *)
(* adds a page, or replaces the last one while a widget is still held;     *)
(* undo and redo move the place and touch no page.  The line holds         *)
(* Capacity edits, so the first page may fall off when one is added.       *)
(***************************************************************************)
EXTENDS Integers, Sequences, SequencesExt

CONSTANT Capacity

VARIABLES pages, at

vars == <<pages, at>>

Init == Len(pages) = 1 /\ at = 1

\* The page being written is the last one of the line it makes.
Edit(line) ==
  LET longer == Append(SubSeq(pages, 1, at), Last(line))
  IN  /\ line = (IF Len(longer) > Capacity + 1 THEN Tail(longer) ELSE longer)
      /\ at' = Len(line)

\* Only a page that an edit made is amended, never the one it began from.
Amend(line) ==
  /\ at > 1 /\ at = Len(pages) /\ at' = at
  /\ line = Append(Front(pages), Last(line))

Undo(line) == line = pages /\ at > 1 /\ at' = at - 1

Redo(line) == line = pages /\ at < Len(pages) /\ at' = at + 1

Next == \E line \in {pages'} : Edit(line) \/ Amend(line) \/ Undo(line) \/ Redo(line)

Spec == Init /\ [][Next]_vars
==============================================================================
