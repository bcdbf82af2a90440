----------------------------- MODULE QuadBatch -----------------------------
(***************************************************************************)
(* Drawing quads (engine/renderer/src/quad_batch.cpp) through one instance *)
(* buffer that Device::stream_buffer (engine/rhi/src/resources.cpp) fills  *)
(* again before each draw, while the graphics processor is behind: what is *)
(* recorded reads memory only when its turn comes.  A quad is its number.  *)
(***************************************************************************)
EXTENDS Integers, Sequences, FiniteSets, SequencesExt

CONSTANTS Texture,
          BatchCapacity,  \* quads in one draw
          Storage,        \* places a buffer's contents can be in, numbers
          InFlight,       \* kFramesInFlight
          MaxQuads        \* bound: quads ever added

\* The library makes storage whenever all there is is in use (cycling); a draw
\* has a quad at least, so there is one for each draw that the bound allows.
ASSUME StorageAssumption ==
  /\ Storage \subseteq Nat /\ 1 \in Storage
  /\ \A used \in SUBSET Storage :
       IsFiniteSet(used) /\ Cardinality(used) < MaxQuads => Storage \ used # {}
ASSUME BoundAssumption == MaxQuads \in Nat

VARIABLES quads,    \* m_instances
          bound,    \* m_texture
          drawing,  \* the frame is begun, and its batch: "none", "pass", "refused"
          gpu,      \* the instance buffer, its staging memory, what is recorded
                    \* and submitted, and what the frame was asked to draw
          painted,  \* auxiliary: whether each frame executed was what was asked
          quadsMade

batchVars == <<quads, bound, drawing, gpu, painted, quadsMade>>

NoTexture == "none"

(* The graphics library.  A command buffer is copies or the draws of a     *)
(* frame; they are executed in the order they were submitted.              *)
Copy(from, to) == [kind |-> "copy", from |-> from, to |-> to]
Present(draws, what) == [kind |-> "frame", draws |-> draws, asked |-> what]

Count(commands, kind) == Len(SelectSeq(commands, LAMBDA c : c.kind = kind))
Copies(g) == {c \in ToSet(g.queue) : c.kind = "copy"}
Frames(g) == {c \in ToSet(g.queue) : c.kind = "frame"}

\* Storage that something submitted or recorded has yet to read or write.
InUse(g, side) ==
  IF side = "staging" THEN {c.from : c \in Copies(g)}
  ELSE {c.to : c \in Copies(g)} \cup {d.storage : d \in UNION {ToSet(f.draws) : f \in Frames(g)}}
       \cup {d.storage : d \in ToSet(g.frame)}

\* Mutant: contents are replaced where they are, whoever has yet to read them.
StayPut(g, side) == g[side].active

\* Cycling moves to storage that is not in use.
Cycle(g, side) ==
  IF g[side].active \notin InUse(g, side) THEN g[side].active
  ELSE CHOOSE s \in Storage \ InUse(g, side) : \A r \in Storage \ InUse(g, side) : s <= r

\* Device::stream_buffer: into staging memory now, across when the copy's turn
\* comes, which is before the frame that is still being recorded.
StreamBuffer(g, data) ==
  LET from == Cycle(g, "staging")
      to == Cycle(g, "buffer")
  IN  [g EXCEPT !.staging = [active |-> from, holds |-> [@.holds EXCEPT ![from] = data]],
                !.buffer.active = to,
                !.queue = Append(@, Copy(from, to))]

(* The batch.                                                              *)
\* A pass of another format draws nothing and keeps what it was given; an
\* upload that fails drops the quads it was for, which are not asked for any more.
Flushed(g, ok) ==
  IF quads = <<>> \/ drawing # "pass" THEN g
  ELSE IF ~ok THEN [g EXCEPT !.asked = SubSeq(@, 1, Len(@) - Len(quads))]
  ELSE LET h == StreamBuffer(g, quads)
       IN  [h EXCEPT !.frame = Append(@, [texture |-> bound, storage |-> h.buffer.active])]

AfterFlush == IF drawing = "pass" THEN <<>> ELSE quads

\* A pass that is refused keeps the texture of the one before.
\* The processor runs at most so many frames ahead (Device::begin_frame waits).
BeginBatch(matches) ==
  /\ drawing = "none" /\ Count(gpu.queue, "frame") < InFlight
  /\ drawing' = IF matches THEN "pass" ELSE "refused"
  /\ quads' = <<>> /\ bound' = IF matches THEN NoTexture ELSE bound
  /\ gpu' = [gpu EXCEPT !.frame = <<>>, !.asked = <<>>]
  /\ UNCHANGED <<painted, quadsMade>>

\* One draw reads one texture: what is pending is drawn before it changes.
SetTexture(t, ok) ==
  /\ drawing # "none" /\ t # bound
  /\ gpu' = Flushed(gpu, ok)
  /\ quads' = AfterFlush
  /\ bound' = t
  /\ UNCHANGED <<drawing, painted, quadsMade>>

AddQuad(ok) ==
  LET full == Len(quads) >= BatchCapacity
      n == quadsMade + 1
      g == IF full THEN Flushed(gpu, ok) ELSE gpu
  IN  /\ drawing # "none" /\ bound # NoTexture /\ n <= MaxQuads
      /\ quads' = Append(IF full THEN AfterFlush ELSE quads, n)
      /\ gpu' = IF drawing = "pass" THEN [g EXCEPT !.asked = Append(@, <<bound, n>>)] ELSE g
      /\ quadsMade' = n
      /\ UNCHANGED <<bound, drawing, painted>>

\* The batch is flushed, the pass ended and the frame submitted.
EndBatch(ok) ==
  LET g == Flushed(gpu, ok)
  IN  /\ drawing # "none"
      /\ gpu' = [g EXCEPT !.queue = Append(@, Present(g.frame, g.asked)), !.frame = <<>>, !.asked = <<>>]
      /\ quads' = AfterFlush
      /\ drawing' = "none"
      /\ UNCHANGED <<bound, painted, quadsMade>>

(* The graphics processor takes the next command buffer.                   *)
Textured(t, data) == [k \in DOMAIN data |-> <<t, data[k]>>]

Pixels(g, draws) ==
  FlattenSeq([i \in DOMAIN draws |-> Textured(draws[i].texture, g.buffer.holds[draws[i].storage])])

Execute ==
  LET c == Head(gpu.queue)
  IN  /\ gpu.queue # <<>>
      /\ IF c.kind = "copy"
         THEN /\ gpu' = [gpu EXCEPT !.queue = Tail(@), !.buffer.holds[c.to] = gpu.staging.holds[c.from]]
              /\ UNCHANGED painted
         ELSE /\ gpu' = [gpu EXCEPT !.queue = Tail(@)]
              /\ painted' = (painted /\ Pixels(gpu, c.draws) = c.asked)
      /\ UNCHANGED <<quads, bound, drawing, quadsMade>>

BatchInit ==
  /\ quads = <<>> /\ bound = NoTexture /\ drawing = "none"
  /\ gpu = [staging |-> [active |-> 1, holds |-> [s \in Storage |-> <<>>]],
            buffer |-> [active |-> 1, holds |-> [s \in Storage |-> <<>>]],
            frame |-> <<>>, asked |-> <<>>, queue |-> <<>>]
  /\ painted = TRUE /\ quadsMade = 0

BatchNext ==
  \/ \E matches \in BOOLEAN : BeginBatch(matches)
  \/ \E t \in Texture, ok \in BOOLEAN : SetTexture(t, ok)
  \/ \E ok \in BOOLEAN : AddQuad(ok) \/ EndBatch(ok)
  \/ Execute

BatchSpec == BatchInit /\ [][BatchNext]_batchVars

\* Every frame paints the quads it was asked for and whose upload did not fail, in
\* their order and with their textures, while earlier frames still wait in the
\* queue (QuadBatch::flush).
PaintsWhatWasAsked == painted
==============================================================================
