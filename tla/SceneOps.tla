------------------------------ MODULE SceneOps ------------------------------
(***************************************************************************)
(* The scene (engine/scene/src/scene.cpp) as a value, and what its calls   *)
(* make of it.  An entity has authored components, a parent, the pose an   *)
(* animator gave it and the world transform composed from those.  The      *)
(* lists of children the code keeps sorted by identifier are the entities  *)
(* of each parent.  A component is one value; a transform is a position,   *)
(* one number, to which a pose adds and a parent adds.                     *)
(***************************************************************************)
EXTENDS Integers, Sequences, FiniteSets, SequencesExt, Functions

CONSTANTS Mandatory, \* components every entity has, "transform" one of them
          Optional,  \* components an entity may have, "animator" one of them
          Absent     \* no component, no parent, no pose

Attr == Mandatory \cup Optional

\* Entities start with these components (the demo's build_scene gives others).
Fresh == [a \in Attr |-> IF a \in Mandatory THEN 0 ELSE Absent]

NewEntity == [attr |-> Fresh, parent |-> Absent, pose |-> Absent, world |-> 0]

Emptied == [ents |-> <<>>, next |-> 1]

Entities(s) == DOMAIN s.ents

\* The entities at most n steps below i, and all of them.
Within(s, i) ==
  LET within[n \in Nat] ==
        IF n = 0 THEN {i} ELSE LET near == within[n - 1]
                               IN  near \cup {j \in Entities(s) : s.ents[j].parent \in near}
  IN  within
Subtree(s, i) == Within(s, i)[Cardinality(Entities(s))]

\* How many steps below a root an entity stands.
Depth(s, i) == Cardinality({j \in Entities(s) : i \in Subtree(s, j)}) - 1

Yes(s) == [ok |-> TRUE, scene |-> s]
No(s) == [ok |-> FALSE, scene |-> s]

Create(s) == [ents |-> (s.next :> NewEntity) @@ s.ents, next |-> s.next + 1]

\* An identifier is never given to two entities at once; later ones are above it.
CreateWithId(s, i) ==
  IF i \in Entities(s) THEN No(s)
  ELSE Yes([ents |-> (i :> NewEntity) @@ s.ents,
            next |-> IF s.next > i THEN s.next ELSE i + 1])

Destroy(s, i) == [s EXCEPT !.ents = Restrict(@, Entities(s) \ Subtree(s, i))]

SetParent(s, child, parent) ==
  IF \/ child \notin Entities(s)
     \/ parent # Absent /\ (parent \notin Entities(s) \/ parent \in Subtree(s, child))
  THEN No(s)
  ELSE Yes([s EXCEPT !.ents[child].parent = parent])

SetComponent(s, i, a, value) == [s EXCEPT !.ents[i].attr[a] = value]

\* What people wrote, as against what playback and composition made of it.
Authored(s) == [i \in Entities(s) |-> [attr |-> s.ents[i].attr, parent |-> s.ents[i].parent]]

(* World transforms: every root composed, then its children from it.       *)
Offset(e) == IF e.pose = Absent THEN 0 ELSE e.pose.offset
Placed(e) == e.attr["transform"] + Offset(e)

\* Each entity takes its parent's transform, as it stands, and adds its own.
Composing(s, i) ==
  LET p == s.ents[i].parent
  IN  [s EXCEPT !.ents[i].world =
         Placed(s.ents[i]) + (IF p = Absent THEN 0 ELSE s.ents[p].world)]

\* Mutant: in the order of identifiers, not from the roots down.
ComposedAsListed(s, most) ==
  FoldLeft(Composing, s, SetToSortSeq({i \in Entities(s) : Depth(s, i) <= most}, <))

Composed(s, most) ==
  LET depth == [i \in Entities(s) |-> Depth(s, i)]
      reached == {i \in Entities(s) : depth[i] <= most}
  IN  FoldLeft(Composing, s, SetToSortSeq(reached, LAMBDA i, j :
        depth[i] < depth[j] \/ (depth[i] = depth[j] /\ i < j)))

\* Where an entity must be drawn: its own placement on top of its ancestors'.
Standing(s, i) ==
  LET above == {j \in Entities(s) : i \in Subtree(s, j)}
  IN  FoldFunctionOnSet(+, 0, [j \in Entities(s) |-> Placed(s.ents[j])], above)

(* Saving (serialization.cpp).  A document is the entities by identifier;  *)
(* poses and world transforms are left out.  Loading fills a scene of its  *)
(* own, links parents once every entity is there, and replaces the scene   *)
(* only if nothing failed.                                                 *)
ToText(s) ==
  LET a == Authored(s)
      ids == SetToSortSeq(DOMAIN a, <)
  IN  [k \in 1 .. Len(ids) |-> [id |-> ids[k], entity |-> a[ids[k]]]]

Loading(r, entry) ==
  IF ~r.ok THEN r
  ELSE LET c == CreateWithId(r.scene, entry.id)
       IN  IF ~c.ok THEN c
           ELSE Yes([c.scene EXCEPT !.ents[entry.id].attr = entry.entity.attr])

Linking(r, entry) ==
  IF ~r.ok \/ entry.entity.parent = Absent THEN r
  ELSE SetParent(r.scene, entry.id, entry.entity.parent)

\* Mutant: each entity is linked to its parent as it is read.
FromTextAtOnce(s, text, most) ==
  LET loaded == FoldLeft(LAMBDA r, e : Linking(Loading(r, e), e), Yes(Emptied), text)
  IN  IF loaded.ok THEN Yes(Composed(loaded.scene, most)) ELSE No(s)

FromText(s, text, most) ==
  LET loaded == FoldLeft(Linking, FoldLeft(Loading, Yes(Emptied), text), text)
  IN  IF loaded.ok THEN Yes(Composed(loaded.scene, most)) ELSE No(s)
==============================================================================
