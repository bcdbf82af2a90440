------------------------------- MODULE Editor -------------------------------
(***************************************************************************)
(* The editor of the sandbox: a scene, the history of commands that wrote  *)
(* it (engine/edit), the animation that poses it each frame                *)
(* (engine/animation) and the frame that composes and draws it             *)
(* (apps/sandbox).  One thread; what interleaves is what a user does with  *)
(* the keys, the panels and a widget that is being dragged.                *)
(***************************************************************************)
EXTENDS SceneOps, TLC

CONSTANTS Merging,       \* components whose edits coalesce
          Value,         \* values a mandatory component may be given
          Choice,        \* and an optional one
          Period,        \* the length of every clip; its offset is its clock
          Start,         \* where on the clock a clip is told to start
          EditCapacity,  \* the commands a history keeps
          MaxDepth,      \* how deep a tree is composed
          MaxEntity,     \* bound: identifiers ever given
          MaxRevision,   \* bound: what the history is asked to do
          Unset          \* not captured yet, not created yet

VARIABLES scene,
          undo, redo,    \* commands applied, commands taken back
          holding,       \* m_coalescing_open
          revision,
          failure,       \* History::last_error is set
          clips,         \* animators whose clip is loaded
          stage,         \* where the frame is
          line           \* auxiliary: the scenes the commands led through, in order

history == <<undo, redo, holding, revision, failure, line>>
editVars == <<scene, undo, redo, holding, revision, failure, clips, stage, line>>

(* Commands (edit/src/command.cpp).  What a command restores is captured   *)
(* when it is first applied; "before" is Unset until then.                 *)
SetCommand(i, a, v) == [kind |-> "set", id |-> i, attr |-> a, after |-> v, before |-> Unset]
RemoveCommand(i, a) == [kind |-> "remove", id |-> i, attr |-> a, before |-> Unset]
ReparentCommand(i, p) == [kind |-> "reparent", id |-> i, after |-> p, before |-> Unset]
CreateCommand(p) == [kind |-> "create", id |-> Unset, parent |-> p]
DestroyCommand(i) == [kind |-> "destroy", id |-> i, subtree |-> <<>>]

Done(r, c) == [ok |-> r.ok, scene |-> r.scene, command |-> c]
Capture(c, value) == IF c.before = Unset THEN [c EXCEPT !.before = value] ELSE c

ApplySet(s, c) ==
  IF c.id \notin Entities(s) THEN Done(No(s), c)
  ELSE Done(Yes(SetComponent(s, c.id, c.attr, c.after)), Capture(c, s.ents[c.id].attr[c.attr]))

\* Refused for a component that is not there: an undo would invent one.
ApplyRemove(s, c) ==
  IF \/ c.id \notin Entities(s)
     \/ c.before = Unset /\ s.ents[c.id].attr[c.attr] = Absent
  THEN Done(No(s), c)
  ELSE Done(Yes(SetComponent(s, c.id, c.attr, Absent)), Capture(c, s.ents[c.id].attr[c.attr]))

ApplyReparent(s, c) ==
  IF c.id \notin Entities(s) THEN Done(No(s), c)
  ELSE LET r == SetParent(s, c.id, c.after)
       IN  Done(r, IF r.ok THEN Capture(c, s.ents[c.id].parent) ELSE c)

\* Created once with a new identifier; a redo brings the same one back.
ApplyCreate(s, c) ==
  IF c.parent # Absent /\ c.parent \notin Entities(s) THEN Done(No(s), c)
  ELSE LET id == IF c.id = Unset THEN s.next ELSE c.id
           made == IF c.id = Unset THEN Yes(Create(s)) ELSE CreateWithId(s, id)
           r == IF ~made.ok \/ c.parent = Absent THEN made ELSE SetParent(made.scene, id, c.parent)
       IN  Done(r, [c EXCEPT !.id = id])

\* Mutant: in the order of identifiers, whatever hangs below whatever.
CaptureById(s, i) ==
  LET ids == SetToSortSeq(Subtree(s, i), <)
  IN  [k \in 1 .. Len(ids) |-> [id |-> ids[k], entity |-> Authored(s)[ids[k]]]]

\* Parents before children, so that they can be brought back in this order.
CaptureSubtree(s, i) ==
  LET ids == SetToSortSeq(Subtree(s, i), LAMBDA a, b :
               Depth(s, a) < Depth(s, b) \/ (Depth(s, a) = Depth(s, b) /\ a < b))
  IN  [k \in 1 .. Len(ids) |-> [id |-> ids[k], entity |-> Authored(s)[ids[k]]]]

ApplyDestroy(s, c) ==
  IF c.id \notin Entities(s) THEN Done(No(s), c)
  ELSE Done(Yes(Destroy(s, c.id)),
            IF c.subtree = <<>> THEN [c EXCEPT !.subtree = CaptureSubtree(s, c.id)] ELSE c)

Apply(s, c) ==
  CASE c.kind = "set" -> ApplySet(s, c)
    [] c.kind = "remove" -> ApplyRemove(s, c)
    [] c.kind = "reparent" -> ApplyReparent(s, c)
    [] c.kind = "create" -> ApplyCreate(s, c)
    [] c.kind = "destroy" -> ApplyDestroy(s, c)

RevertWrite(s, c) ==
  IF c.id \notin Entities(s) THEN No(s) ELSE Yes(SetComponent(s, c.id, c.attr, c.before))

\* Each entity of the subtree is made again and linked before the next.
RevertDestroy(s, c) ==
  FoldLeft(LAMBDA r, e : Linking(Loading(r, e), e), Yes(s), c.subtree)

Revert(s, c) ==
  CASE c.kind \in {"set", "remove"} -> RevertWrite(s, c)
    [] c.kind = "reparent" -> SetParent(s, c.id, c.before)
    [] c.kind = "create" -> IF c.id \in Entities(s) THEN Yes(Destroy(s, c.id)) ELSE No(s)
    [] c.kind = "destroy" -> RevertDestroy(s, c)

Merges(c, later) ==
  /\ c.kind = "set" /\ later.kind = "set"
  /\ c.attr \in Merging /\ c.attr = later.attr /\ c.id = later.id

Merged(c, later) == [c EXCEPT !.after = later.after]

(* The history (edit/src/history.cpp).  Nothing but it writes an authored  *)
(* component once the scene is loaded (apps/sandbox/scene_demo.cpp).       *)
Discarded ==
  /\ undo' = <<>> /\ redo' = <<>> /\ holding' = FALSE
  /\ line' = <<Authored(scene')>>

Newest(commands) == IF Len(commands) > EditCapacity THEN Tail(commands) ELSE commands

\* A refused command leaves no trace; a merged one only its after-image.
ApplyEdit(c, coalesce) ==
  LET r == Apply(scene, c)
      absorbed == coalesce /\ holding /\ undo # <<>> /\ Merges(Last(undo), c)
      page == Authored(r.scene)
      onward == Append(SubSeq(line, 1, Len(undo) + 1), page)
  IN  /\ stage = "panels" /\ revision < MaxRevision /\ r.ok
      /\ scene' = r.scene
      /\ revision' = revision + 1
      /\ IF absorbed
         THEN /\ undo' = Append(Front(undo), Merged(Last(undo), c))
              /\ line' = Append(Front(line), page)
              /\ UNCHANGED <<redo, holding>>
         ELSE /\ undo' = Newest(Append(undo, r.command)) /\ redo' = <<>> /\ holding' = coalesce
              /\ line' = IF Len(undo) = EditCapacity THEN Tail(onward) ELSE onward
      /\ UNCHANGED <<failure, clips, stage>>

\* Undo and redo, by key while events are handled or by button in a panel.
\* A command that cannot be taken back discards the history.
TakeBack ==
  LET c == Last(undo)
      r == Revert(scene, c)
  IN  /\ stage \in {"events", "panels"} /\ undo # <<>> /\ revision < MaxRevision
      /\ scene' = r.scene
      /\ IF r.ok
         THEN /\ undo' = Front(undo) /\ redo' = Append(redo, c)
              /\ holding' = FALSE /\ revision' = revision + 1 /\ UNCHANGED <<failure, line>>
         ELSE Discarded /\ failure' = TRUE /\ UNCHANGED revision
      /\ UNCHANGED <<clips, stage>>

DoAgain ==
  LET c == Last(redo)
      r == Apply(scene, c)
  IN  /\ stage \in {"events", "panels"} /\ redo # <<>> /\ revision < MaxRevision
      /\ scene' = r.scene
      /\ IF r.ok
         THEN /\ undo' = Append(undo, r.command) /\ redo' = Front(redo)
              /\ holding' = FALSE /\ revision' = revision + 1 /\ UNCHANGED <<failure, line>>
         ELSE Discarded /\ failure' = TRUE /\ UNCHANGED revision
      /\ UNCHANGED <<clips, stage>>

\* A widget that coalesced is let go (debug_ui.cpp).
LetGo ==
  /\ stage = "panels" /\ holding
  /\ holding' = FALSE
  /\ UNCHANGED <<scene, undo, redo, revision, failure, clips, stage, line>>

(* Animation (animation/src/advance.cpp).  The clock of an entity is in    *)
(* its pose; a clip that is not loaded gives the pose that changes nothing.*)
Identity == [clock |-> 0, offset |-> 0]

Advanced(e, step, ready) ==
  LET animator == e.attr["animator"]
      clock == IF e.pose = Absent THEN Start ELSE e.pose.clock
      now == (clock + step) % Period
  IN  IF animator = Absent THEN e
      ELSE IF animator \notin ready THEN [e EXCEPT !.pose = Identity]
      ELSE [e EXCEPT !.pose = [clock |-> now, offset |-> now]]

\* The registry's clips are taken up before the animators are advanced.
Animate(step, loaded) ==
  /\ stage = "events"
  /\ clips' = clips \cup loaded
  /\ scene' = [scene EXCEPT !.ents = [i \in Entities(scene) |-> Advanced(@[i], step, clips')]]
  /\ stage' = "panels"
  /\ UNCHANGED history

\* The scene is composed after the last writer of the frame, and drawn.
Draw ==
  /\ stage = "panels"
  /\ scene' = Composed(scene, MaxDepth)
  /\ stage' = "drawn"
  /\ UNCHANGED <<history, clips>>

EndFrame ==
  /\ stage = "drawn"
  /\ stage' = "events"
  /\ UNCHANGED <<scene, history, clips>>

\* The scene of the demo is built, saved and loaded before there is a history.
EditInit ==
  /\ scene = FromText(Emptied, ToText(Create(Emptied)), MaxDepth).scene
  /\ undo = <<>> /\ redo = <<>> /\ holding = FALSE
  /\ revision = 0 /\ failure = FALSE
  /\ clips = {} /\ stage = "events"
  /\ line = <<Authored(scene)>>

Commands ==
  UNION {{SetCommand(i, a, v) : a \in Mandatory, v \in Value} \cup
         {SetCommand(i, a, v) : a \in Optional, v \in Choice} \cup
         {RemoveCommand(i, a) : a \in Optional} \cup
         {ReparentCommand(i, p) : p \in Entities(scene) \cup {Absent}} \cup
         {DestroyCommand(i)} : i \in Entities(scene)}
  \cup {CreateCommand(p) :
           p \in {q \in Entities(scene) \cup {Absent} : scene.next <= MaxEntity}}

EditNext ==
  \/ \E c \in Commands : \E coalesce \in {c.kind = "set", FALSE} : ApplyEdit(c, coalesce)
  \/ TakeBack
  \/ DoAgain
  \/ LetGo
  \/ \E loaded \in SUBSET Choice : Animate(1, loaded)
  \/ Draw
  \/ EndFrame

EditSpec == EditInit /\ [][EditNext]_editVars
==============================================================================
