------------------------------ MODULE CellView ------------------------------
(***************************************************************************)
(* The picture of the lab (apps/lab/view) and the clicks on it.  A frame   *)
(* takes events, moves the camera, collects the pick that was asked for in *)
(* an earlier frame, runs ticks, publishes what they left, and draws the   *)
(* chunks in sight in as few draws as their numbers allow; a pick is drawn *)
(* as identifiers, and its pixel arrives some frames later.                *)
(*                                                                         *)
(* Lengths are counted in units of the world, CellUnit to a cell; a span   *)
(* is the units under one pixel, the zoom upside down.  Cells, chunks and  *)
(* pixels count from zero, as in the code.                                 *)
(***************************************************************************)
EXTENDS Integers, Sequences, FiniteSets, SequencesExt

CONSTANTS Layout,      \* grids: [size |-> <<width, height>>, chunk |-> side]
          Extent,      \* the sizes a window may have, in pixels
          CellUnit,    \* kCellSize
          Span,        \* the zooms
          ColorCount,  \* kColorCount
          MaxGestures, \* bound: what the user does
          NoPick, NoTicket

ASSUME ViewAssumption ==
  /\ \A l \in Layout : l.size[1] % l.chunk = 0 /\ l.size[2] % l.chunk = 0
  /\ \A s \in Span : s % 4 = 0

VARIABLES field,    \* CellField: layout, camera, and the cells its buffers hold
          idExtent, \* CellIdPass: the size of its target
          cells,    \* the world: its layout and the colour of each cell
          orders,   \* set_color_index commands that wait for the next tick
          snapshot, \* what was published last
          pick,     \* a click: its pixel, and what was read of it once it was asked for
          screen,   \* the picture that the last frame shows, pixel by pixel
          frame,    \* where the frame is
          alarm,    \* pick_mismatches is not zero
          gestures

viewVars == <<field, idExtent, cells, orders, snapshot, pick, screen, frame, alarm, gestures>>

NoCell == -1
Clear == -1
Axis == {1, 2}
PixelsOf(extent) == (0 .. extent[1] - 1) \X (0 .. extent[2] - 1)

(* The grid: chunks in rows, cells in rows within a chunk.                 *)
ChunksX(l) == l.size[1] \div l.chunk
ChunkCount(l) == ChunksX(l) * (l.size[2] \div l.chunk)
PerChunk(l) == l.chunk * l.chunk
CellCount(l) == l.size[1] * l.size[2]
FirstCell(l, chunk) == chunk * PerChunk(l)

CellIndex(l, at) ==
  FirstCell(l, ((at[2] \div l.chunk) * ChunksX(l)) + (at[1] \div l.chunk))
    + ((at[2] % l.chunk) * l.chunk) + (at[1] % l.chunk)

ChunkOrigin(l, chunk) == <<(chunk % ChunksX(l)) * l.chunk, (chunk \div ChunksX(l)) * l.chunk>>

\* The shaders' arithmetic: where the cell is that an instance draws.
InChunk(l, chunk, i) ==
  LET origin == ChunkOrigin(l, chunk)
  IN  <<origin[1] + (i % l.chunk), origin[2] + (i \div l.chunk)>>
InRun(l, first, i) == InChunk(l, first + (i \div PerChunk(l)), i % PerChunk(l))

(* The camera.                                                             *)
\* The world under the middle of a pixel, of a target that the view fills.
PointUnder(c, extent, p) ==
  [a \in Axis |-> c.centre[a] + ((2 * p[a] + 1 - extent[a]) * c.size[a] * c.span) \div (2 * extent[a])]

Covers(place, point) == \A a \in Axis : point[a] \div CellUnit = place[a]

CellAtScreen(f, p) ==
  LET at == [a \in Axis |-> PointUnder(f.camera, f.camera.size, p)[a] \div CellUnit]
  IN  IF \A a \in Axis : at[a] \in 0 .. f.layout.size[a] - 1 THEN CellIndex(f.layout, at) ELSE NoCell

Panned(c, by) == [c EXCEPT !.centre = [a \in Axis |-> @[a] + by[a]]]

\* About the pixel of the pointer: what is under it stays there.
ZoomedAbout(c, span, p) ==
  [Panned(c, [a \in Axis |-> ((2 * p[a] - c.size[a]) * (c.span - span)) \div 2]) EXCEPT !.span = span]

\* The zoom that fits is the nearest one that shows the whole grid.
Fits(l, extent, span) == \A a \in Axis : l.size[a] * CellUnit <= extent[a] * span
Nearest(spans) == CHOOSE s \in spans : \A t \in spans : s <= t
Farthest(spans) == CHOOSE s \in spans : \A t \in spans : t <= s

ResetCamera(l, extent) ==
  LET fitting == {s \in Span : Fits(l, extent, s)}
  IN  [centre |-> [a \in Axis |-> (l.size[a] * CellUnit) \div 2],
       span |-> IF fitting = {} THEN Farthest(Span) ELSE Nearest(fitting),
       size |-> extent]

(* Drawing.                                                                *)
InSight(f, chunk) ==
  \A a \in Axis :
    LET low == ChunkOrigin(f.layout, chunk)[a] * CellUnit
        half == (f.camera.size[a] * f.camera.span) \div 2
    IN  /\ low < f.camera.centre[a] + half
        /\ f.camera.centre[a] - half < low + f.layout.chunk * CellUnit

Culled(f) == SelectSeq([i \in 1 .. ChunkCount(f.layout) |-> i - 1], LAMBDA c : InSight(f, c))

\* Chunks whose numbers follow one another are one draw.
Runs(chunks) ==
  FoldLeft(LAMBDA runs, c :
             IF runs # <<>> /\ Last(runs).first + Last(runs).count = c
             THEN [runs EXCEPT ![Len(runs)].count = @ + 1]
             ELSE Append(runs, [first |-> c, count |-> 1]),
           <<>>, chunks)

\* CellField::draw: the colours of the runs, one after the other.
Packed(l, runs, colours) ==
  FlattenSeq([n \in DOMAIN runs |->
    [i \in 1 .. runs[n].count * PerChunk(l) |-> colours[FirstCell(l, runs[n].first) + i - 1]]])

\* Mutant: every run reads the colours from where the first one does.
OffsetOfFirst(l, runs, n) == 0

\* CellRenderer::draw: where the colours of a run begin.
OffsetOf(l, runs, n) ==
  FoldLeft(LAMBDA sum, r : sum + r.count * PerChunk(l), 0, SubSeq(runs, 1, n - 1))

RunsOf(f) == Runs(Culled(f))

Picture(f, snap) ==
  LET runs == RunsOf(f)
      packed == Packed(f.layout, runs, snap.colours)
      instances == {<<n, i>> \in (DOMAIN runs) \X (0 .. CellCount(f.layout) - 1) :
                      i < runs[n].count * PerChunk(f.layout)}
      over(p) == {d \in instances : Covers(InRun(f.layout, runs[d[1]].first, d[2]),
                                           PointUnder(f.camera, f.camera.size, p))}
      colour(d) == packed[OffsetOf(f.layout, runs, d[1]) + d[2] + 1]
  IN  [p \in PixelsOf(f.camera.size) |->
         IF snap.layout # f.layout \/ over(p) = {} THEN Clear ELSE colour(CHOOSE d \in over(p) : TRUE)]

\* The colours are written past the end of their array.
Overrun(f) == Len(Culled(f)) * PerChunk(f.layout) > f.room

\* CellIdPass::render and cell_id.vert: one more than the cell, zero for none.
IdAt(f, extent, p) ==
  LET drawn == {<<c, i>> \in ToSet(Culled(f)) \X (0 .. PerChunk(f.layout) - 1) :
                  Covers(InChunk(f.layout, c, i), PointUnder(f.camera, extent, p))}
  IN  IF drawn = {} THEN 0 ELSE LET d == CHOOSE d \in drawn : TRUE IN FirstCell(f.layout, d[1]) + d[2] + 1

PickedBy(id) == id - 1

------------------------------------------------------------------------------
(* The frame.                                                              *)
\* A generated world: colours that tell neighbours apart stand for drawn ones.
Coloured(l) == [layout |-> l, colours |-> [i \in 0 .. CellCount(l) - 1 |-> i % ColorCount]]

\* build_snapshot: a copy of what is drawn, with the grid it is of.
Snapshot(world) == [layout |-> world.layout, colours |-> world.colours]

Gesture == gestures < MaxGestures /\ gestures' = gestures + 1

PickAt(p) ==
  /\ frame = "events" /\ pick = NoPick /\ Gesture
  /\ pick' = [at |-> p, ticket |-> NoTicket]
  /\ UNCHANGED <<field, idExtent, cells, orders, snapshot, screen, frame, alarm>>

\* The camera takes the new size even if the target cannot.
WindowResized(extent, ok) ==
  /\ frame = "events" /\ Gesture
  /\ field' = [field EXCEPT !.camera.size = extent]
  /\ idExtent' = IF ok THEN extent ELSE idExtent
  /\ UNCHANGED <<cells, orders, snapshot, pick, screen, frame, alarm>>

\* A key or a button asks for it among the events, the panel while drawing.
ResetView ==
  /\ frame \in {"events", "present"} /\ Gesture
  /\ field' = [field EXCEPT !.camera = ResetCamera(field.layout, field.camera.size)]
  /\ UNCHANGED <<idExtent, cells, orders, snapshot, pick, screen, frame, alarm>>

\* set_layout: without a buffer of the new size nothing after it is done.
SetLayout(f, l, ok) ==
  IF CellCount(l) = f.room \/ ok
  THEN [layout |-> l, camera |-> ResetCamera(l, f.camera.size), room |-> CellCount(l)]
  ELSE [f EXCEPT !.layout = l]

\* A load that succeeds (the others are LabRun's): commands that wait are gone.
LoadGrid(l, ok) ==
  /\ frame \in {"events", "present"} /\ Gesture
  /\ cells' = Coloured(l)
  /\ orders' = <<>>
  /\ field' = IF l = field.layout THEN field ELSE SetLayout(field, l, ok)
  /\ snapshot' = Snapshot(cells')
  /\ UNCHANGED <<idExtent, pick, screen, frame, alarm>>

\* CellField::update, after the events: the pointer drags or turns the wheel, or
\* the pad pans or zooms; or nothing does.
Steered(c) ==
  {Panned(c, [a \in Axis |-> -by[a] * c.span]) : by \in (-1 .. 1) \X {0}}
  \cup {Panned(c, [a \in Axis |-> (by[a] * c.span) \div 2]) : by \in {0} \X (-1 .. 1)}
  \cup {ZoomedAbout(c, s, p) : s \in Span, p \in PixelsOf(c.size)}
  \cup {[c EXCEPT !.span = s] : s \in Span}

Steer(c) ==
  /\ frame = "events"
  /\ IF c = field.camera THEN UNCHANGED gestures ELSE Gesture
  /\ field' = [field EXCEPT !.camera = c]
  /\ frame' = "collect"
  /\ UNCHANGED <<idExtent, cells, orders, snapshot, pick, screen, alarm>>

\* A pick that has arrived names the cell it was drawn with, and is compared with
\* the projection as it is now; its colour is the next one of the last snapshot.
\* A cell the snapshot has not got is read all the same, and the queue refuses it.
Collect(arrived, ok) ==
  LET picked == PickedBy(pick.ticket.id)
      painting == arrived /\ ok /\ picked # NoCell /\ picked \in DOMAIN snapshot.colours
  IN  /\ frame = "collect"
      /\ arrived => pick # NoPick /\ pick.ticket # NoTicket
      /\ alarm' = (alarm \/ (arrived /\ ok /\ picked # CellAtScreen(field, pick.at)))
      /\ orders' = IF painting
                   THEN Append(orders, [cell |-> picked,
                                        colour |-> (snapshot.colours[picked] + 1) % ColorCount])
                   ELSE orders
      /\ pick' = IF arrived THEN NoPick ELSE pick
      /\ frame' = "simulate"
      /\ UNCHANGED <<field, idExtent, cells, snapshot, screen, gestures>>

\* The handler checks the cell again; what a tick changed is published.
Ticks(ran) ==
  LET paint(world, o) == IF o.cell < CellCount(world.layout)
                         THEN [world EXCEPT !.colours[o.cell] = o.colour] ELSE world
  IN  /\ frame = "simulate"
      /\ cells' = IF ran THEN FoldLeft(paint, cells, orders) ELSE cells
      /\ orders' = IF ran THEN <<>> ELSE orders
      /\ snapshot' = IF ran THEN Snapshot(cells') ELSE snapshot
      /\ frame' = "present"
      /\ UNCHANGED <<field, idExtent, pick, screen, alarm, gestures>>

\* The identifiers are drawn before the picture, with the frame's own camera, and
\* the pixel is asked for after it; a pass or a request that fails ends the pick.
Asked(ok) ==
  CASE pick = NoPick \/ pick.ticket # NoTicket -> pick
    [] pick # NoPick /\ pick.ticket = NoTicket ->
         IF ok /\ \A a \in Axis : pick.at[a] < idExtent[a]
         THEN [pick EXCEPT !.ticket =
                 [id |-> IdAt(field, idExtent, pick.at),
                  under |-> CellAtScreen(field, pick.at),
                  seen |-> <<field.layout, field.camera>>,
                  stretched |-> idExtent # field.camera.size]]
         ELSE NoPick

DrawField(ok) ==
  /\ frame = "present" /\ ~Overrun(field)
  /\ pick' = Asked(ok)
  /\ screen' = Picture(field, snapshot)
  /\ frame' = "shown"
  /\ UNCHANGED <<field, idExtent, cells, orders, snapshot, alarm, gestures>>

\* A frame whose pass is refused, or whose colours are not uploaded, is ended and
\* presented all the same, without the picture.
DrawNothing(ok) ==
  /\ frame = "present"
  /\ pick' = Asked(ok)
  /\ frame' = "events"
  /\ UNCHANGED <<field, idExtent, cells, orders, snapshot, screen, alarm, gestures>>

\* What follows is undefined.
DrawPastTheEnd ==
  /\ frame = "present" /\ Overrun(field)
  /\ frame' = "undefined"
  /\ UNCHANGED <<field, idExtent, cells, orders, snapshot, pick, screen, alarm, gestures>>

\* The window is minimised, or has nothing to draw to.
NotDrawn ==
  /\ frame = "present"
  /\ frame' = "events"
  /\ UNCHANGED <<field, idExtent, cells, orders, snapshot, pick, screen, alarm, gestures>>

\* A frame that cannot be begun or ended is the last.
FrameFails ==
  /\ frame = "present"
  /\ frame' = "quit"
  /\ UNCHANGED <<field, idExtent, cells, orders, snapshot, pick, screen, alarm, gestures>>

NextFrame ==
  /\ frame = "shown"
  /\ frame' = "events"
  /\ screen' = <<>>
  /\ UNCHANGED <<field, idExtent, cells, orders, snapshot, pick, alarm, gestures>>

ViewInit ==
  \E l \in Layout, extent \in Extent :
    /\ field = [layout |-> l, camera |-> ResetCamera(l, extent), room |-> CellCount(l)]
    /\ idExtent = extent
    /\ cells = Coloured(l) /\ snapshot = Snapshot(cells)
    /\ orders = <<>> /\ pick = NoPick /\ screen = <<>>
    /\ frame = "events" /\ alarm = FALSE /\ gestures = 0

ViewNext ==
  \/ \E p \in PixelsOf(field.camera.size) : PickAt(p)
  \/ \E extent \in Extent, ok \in BOOLEAN : WindowResized(extent, ok)
  \/ ResetView
  \/ \E l \in Layout, ok \in BOOLEAN : LoadGrid(l, ok)
  \/ \E c \in Steered(field.camera) : Steer(c)
  \/ \E arrived, ok \in BOOLEAN : Collect(arrived, ok)
  \/ \E ran \in BOOLEAN : Ticks(ran)
  \/ \E ok \in BOOLEAN : DrawField(ok) \/ DrawNothing(ok)
  \/ DrawPastTheEnd \/ NotDrawn \/ FrameFails \/ NextFrame

ViewSpec == ViewInit /\ [][ViewNext]_viewVars
==============================================================================
