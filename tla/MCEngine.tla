------------------------------ MODULE MCEngine ------------------------------
(***************************************************************************)
(* The parts of the engine that share no state with one another, each      *)
(* checked in behaviours of its own: focus says which part a behaviour is  *)
(* about, and the others stand still as they began.                        *)
(***************************************************************************)
EXTENDS Editor, Assets, QuadBatch, Device, LabRun, Mods, Schedule, Wire, Platform, Audio, CellView

VARIABLE focus

Focus == {"editor", "assets", "batch", "device", "lab", "mods", "schedule", "wire",
          "platform", "audio", "view"}

vars == <<editVars, assetVars, batchVars, deviceVars, labVars, modVars, scheduleVars,
          wireVars, platformVars, audioVars, viewVars, focus>>

\* A part out of focus has one initial state.
Init ==
  /\ focus \in Focus
  /\ EditInit /\ AssetInit /\ BatchInit /\ DeviceInit /\ LabInit
  /\ ModInit /\ ScheduleInit /\ WireInit /\ PlatformInit /\ AudioInit /\ ViewInit
  /\ focus # "lab" => saved = Missing
  /\ focus # "mods" => wasm = Module({"say"}, MaxPages)
  /\ focus # "audio" => ~null
  /\ focus # "view" => Cardinality(DOMAIN cells.colours) = 4 /\ idExtent = <<2, 1>>

EditorMoves ==
  /\ focus = "editor" /\ EditNext
  /\ UNCHANGED <<assetVars, batchVars, deviceVars, labVars, modVars,
                 scheduleVars, wireVars, platformVars, audioVars, viewVars, focus>>
AssetsMove ==
  /\ focus = "assets" /\ AssetNext
  /\ UNCHANGED <<editVars, batchVars, deviceVars, labVars, modVars,
                 scheduleVars, wireVars, platformVars, audioVars, viewVars, focus>>
BatchMoves ==
  /\ focus = "batch" /\ BatchNext
  /\ UNCHANGED <<editVars, assetVars, deviceVars, labVars, modVars,
                 scheduleVars, wireVars, platformVars, audioVars, viewVars, focus>>
DeviceMoves ==
  /\ focus = "device" /\ DeviceNext
  /\ UNCHANGED <<editVars, assetVars, batchVars, labVars, modVars,
                 scheduleVars, wireVars, platformVars, audioVars, viewVars, focus>>
LabMoves ==
  /\ focus = "lab" /\ LabNext
  /\ UNCHANGED <<editVars, assetVars, batchVars, deviceVars, modVars,
                 scheduleVars, wireVars, platformVars, audioVars, viewVars, focus>>
ModsMove ==
  /\ focus = "mods" /\ ModNext
  /\ UNCHANGED <<editVars, assetVars, batchVars, deviceVars, labVars,
                 scheduleVars, wireVars, platformVars, audioVars, viewVars, focus>>
ScheduleMoves ==
  /\ focus = "schedule" /\ ScheduleNext
  /\ UNCHANGED <<editVars, assetVars, batchVars, deviceVars, labVars,
                 modVars, wireVars, platformVars, audioVars, viewVars, focus>>
DocumentsMove ==
  /\ focus = "wire" /\ WireNext
  /\ UNCHANGED <<editVars, assetVars, batchVars, deviceVars, labVars,
                 modVars, scheduleVars, platformVars, audioVars, viewVars, focus>>
PlatformMoves ==
  /\ focus = "platform" /\ PlatformNext
  /\ UNCHANGED <<editVars, assetVars, batchVars, deviceVars, labVars,
                 modVars, scheduleVars, wireVars, audioVars, viewVars, focus>>
AudioMoves ==
  /\ focus = "audio" /\ AudioNext
  /\ UNCHANGED <<editVars, assetVars, batchVars, deviceVars, labVars,
                 modVars, scheduleVars, wireVars, platformVars, viewVars, focus>>
ViewMoves ==
  /\ focus = "view" /\ ViewNext
  /\ UNCHANGED <<editVars, assetVars, batchVars, deviceVars, labVars,
                 modVars, scheduleVars, wireVars, platformVars, audioVars, focus>>

Next ==
  \/ EditorMoves \/ AssetsMove \/ BatchMoves \/ DeviceMoves \/ LabMoves
  \/ ModsMove \/ ScheduleMoves \/ DocumentsMove \/ PlatformMoves \/ AudioMoves
  \/ ViewMoves

\* The fairness of the asset workers and of the frame loop (AssetFair).
Fairness ==
  /\ WF_assetVars(focus = "assets" /\ Frame)
  /\ \A w \in AssetWorker : WF_assetVars(focus = "assets" /\ Work(w))

Spec == Init /\ [][Next]_vars /\ Fairness

------------------------------------------------------------------------------
(* The editor and the scene.                                               *)
Line == INSTANCE Timeline WITH Capacity <- EditCapacity, at <- Len(undo) + 1,
          pages <- [line EXCEPT ![Len(undo) + 1] = Authored(scene)]

\* What the user authored is a line of pages, and undo and redo turn them: each
\* gives back the scene as it was, whatever was created, moved or destroyed on
\* the way (History, and the revert of every command).
ImplementsTimeline == Line!Spec

\* What is drawn is composed from what is authored and posed now, however the
\* frame's events, animation and panels changed it (SceneDemo::recompose).
DrawnIsCurrent ==
  stage = "drawn" => \A i \in Entities(scene) : scene.ents[i].world = Standing(scene, i)

\* A scene that is saved can be loaded, and is the same scene (serialization.cpp).
SurvivesSaving ==
  focus = "editor" => LET l == FromText(Emptied, ToText(scene), MaxDepth)
  IN  l.ok /\ Authored(l.scene) = Authored(scene)

(* The assets.                                                             *)
\* What is asked for is settled or reported as stuck, and a registry that stops
\* is left by every worker (Registry::pump, stop).
AssetsSettle ==
  /\ \A a \in Asset :
       InProgress(entry[a].state) ~> ~InProgress(entry[a].state) \/ entry[a].reported \/ quitting
  /\ quitting ~> \A w \in AssetWorker : hand[w].at # "asleep" /\ (hand[w].at = "gone" \/ ~quitting)

(* The run of the lab.                                                     *)
\* A recording plays back: a kernel that begins where the recorder did and is
\* given what it wrote down passes every checkpoint (replay.cpp, play).  Not of
\* a run that loaded while it recorded.
PlaybackAgrees == tape # Missing /\ ~reloaded /\ Len(tape.commands) <= LabPending => Plays(tape)

\* World, kernel, queue, bound and accumulator are of one run: each tick drew
\* from the one seed, no number is given out again, and all count the same tick
\* (save.cpp, load; apply_loaded_state).
OfOneRun ==
  LET world == sim.world
  IN  world.rows > 0 =>
        /\ world.drift = <<sim.seed>> \o [i \in 1 .. sim.tick |-> <<sim.seed, i - 1>>]
        /\ clock.tick = sim.tick \/ phase = "failed"
        /\ sim.bound = world.rows
        /\ \A i \in DOMAIN world.painted : world.painted[i].sequence < NextOf(sim, world.painted[i].source)
        /\ \A i, j \in DOMAIN world.painted :
             i < j /\ world.painted[i].source = world.painted[j].source =>
               world.painted[i].sequence < world.painted[j].sequence

(* What is written down and read back.                                     *)
\* What is written is read as it was written; and what was harmed on its way is
\* refused, unless it is whole as a writer could have left it: a message or a
\* recording that says exactly what was read, a save with the tables it was
\* given (Writer, Reader, encode, decode, replay::read, load).
WireAgrees ==
  received # NoDocument =>
    /\ harm = 0 => received.ok /\ received.value = document
    /\ received.ok =>
         LET d == received.value
         IN  IF d.kind = "save" THEN d.tables = document.tables
             ELSE Writable(d) /\ Written(d) = words

(* The window and the gamepads.                                            *)
\* What the slot was told since a gamepad was last put in it or taken out.
Since(s) ==
  LET turns == {k \in DOMAIN events : events[k].of \in {"connected", "disconnected"} /\ events[k].what = s}
  IN  SubSeq(events, Max({0} \cup turns) + 1, Len(events))

Says(es, of, what) == \E k \in DOMAIN es : es[k] = Event(of, what)

\* After a pump the program sees the keys that are held and the gamepads that
\* are plugged in and adopted, no edge without its event or event without its
\* edge, nothing of a gamepad that has left, and every text that was typed, cut
\* between its characters and never inside one (Window::pump, InputState).
InputIsTrue ==
  /\ {i \in Pad : pad[i].open} = Range(handle) \ {NoPad}
  /\ reports = <<>> /\ ~closed =>
       /\ \A c \in Key :
            /\ control[c].down <=> c \in held
            /\ control[c].pressed <=> Says(events, "pressed", c)
            /\ control[c].released <=> Says(events, "released", c)
       /\ \A s \in Slot :
            IF handle[s] = NoPad THEN slot[s] = Centred
            ELSE /\ slot[s].connected
                 /\ slot[s].down = pad[handle[s]].down
                 /\ slot[s].axis = Normalised(pad[handle[s]].axis)
                 /\ slot[s].pressed <=> Says(Since(s), "pad pressed", s)
                 /\ slot[s].released <=> Says(Since(s), "pad released", s)
       /\ LET pieces == SelectSeq(events, LAMBDA e : e.of = "input")
          IN  /\ FlattenSeq([k \in DOMAIN pieces |-> pieces[k].what]) = typed
              /\ \A k \in DOMAIN pieces :
                   Len(pieces[k].what) <= TextCapacity /\ Head(pieces[k].what) = "start"

(* The picture of the lab.                                                *)
Grids == {[size |-> <<2, 2>>, chunk |-> 1], [size |-> <<4, 2>>, chunk |-> 2]}
Extents == {<<2, 1>>, <<1, 2>>}

TrueColour(p) ==
  LET c == CellAtScreen(field, p) IN IF c = NoCell THEN Clear ELSE cells.colours[c]

\* A frame that was drawn, its colours uploaded and its pass begun, shows the world
\* as it is, each cell where the projection puts it; whether it was drawn or not, a
\* click paints the cell that was under it when its identifiers were drawn; and
\* a disagreement is counted only if the camera or the grid moved while the
\* pixel was on its way, or its target has not the size of the window
\* (CellField::draw, CellIdPass, the pick of main.cpp).
PictureIsTrue ==
  /\ [](frame = "shown" => screen = [p \in PixelsOf(field.camera.size) |-> TrueColour(p)])
  /\ [][/\ Len(orders') > Len(orders) =>
             pick.ticket.stretched \/ Last(orders').cell = pick.ticket.under
        /\ alarm' # alarm =>
             pick.ticket.stretched \/ pick.ticket.seen # <<field.layout, field.camera>>]_viewVars
==============================================================================
