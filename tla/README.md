# Atlas engine: a verification project for the deterministic simulation and the engine around it

TLA+ models of the parts of the Atlas engine where correctness is hardest to test: the simulation
that several machines run in lockstep, the network session and the socket hub that keep them
together, the worker pool that runs a tick on several threads, what is saved, recorded and sent,
and the parts around them that keep state between frames: editor, assets, graphics, input, sound,
mods and the picture with its clicks. Every definition is a translation of the C++ in `src/`;
`PROJECT.json` maps each to its lines.

## 1. Inventory

The engine is a set of libraries under `src/engine` and applications under `src/apps`. What it
promises above all is determinism (`docs/DETERMINISM.md`): the same commands give the same states,
bit by bit, on every machine.

| component | state | operations | interaction | what is hard | what makes it correct |
|---|---|---|---|---|---|
| **Turn gate** `simulation/src/turn_gate.cpp` | expected sources, a frontier and a bit window for each, a floor | `expect_sources`, `mark_complete`, `ready`, `retire_before` | marked by the session, asked by the kernel, retired by the driver | turns out of order, repeated, at the edge of the window; a source that joins late | a tick is ready iff every expected source completed it; readiness is never withdrawn |
| **Command queue** `simulation/src/command.cpp` | pending commands, next sequence of each source, handlers | `submit`, `submit_stamped`, `drain`, `apply` | filled by the driver and the session, drained by the kernel | arrival order, full queue, late commands, stamped numbers | the world depends on the commands and not on when they arrived |
| **Kernel** `simulation/src/kernel.cpp` | tick, world | `step`, `ready` | drains the queue, asks the gate, runs systems on the pool | refusal before anything is drained | no accepted command is lost |
| **Session** `net/src/session.cpp` | state, who was heard, checkpoints, held checks, drops, finish | `poll`, `send_turn`, `send_hash_check`, `finish`, `quit` | messages over a link; submits to the queue, marks the gate | peers ahead of each other, checks that arrive early, finish, loss of a peer while its turns are unread | peers agree after every tick; finished means compared; survivors cut a lost peer at the same turn |
| **Link, inbox, loopback hub** `net/src/{link,inbox,loopback}.cpp` | ordered pipes, bounded inboxes, lost peers | `send`, `broadcast`, `pump`, `lose`, `drain` | carries the session's messages | latency, loss of a peer, overflow | order per pair, nothing dropped without a mark |
| **Lab driver** `apps/lab/main.cpp` | next turn, bound of the run | the loop of `run_socket_peer` | calls session, kernel and gate | when it gives up, when it declares a finish | every peer ends; a finished run is one run |
| **Worker pool** `tasks/src/worker_pool.cpp` | published job, generation, stop flag; a `Job` on each caller's stack | `create`, `parallel_for`, destructor | used by `Kernel::step` for a batch and by systems for their rows | lifetime of the job, lost wake-ups, nested calls | every chunk once; no worker in a dead job; calls and closing end |
| **ENet hub** `net/src/enet_hub.cpp` | connections, places of the session, inboxes, deadlines | `listen`, `accept`, `connect`, `broadcast`, `pump`, `drain` | the contract of the loopback hub, over a socket library | arrival order, strangers, connections that stall or break without a word, closing with messages queued | every connector files one order of the broadcasts; a lost one is silent; nobody waits for the dead |
| **Replay** `simulation/src/replay.cpp` | recorded commands and checkpoints | `record_commands`, `record_tick`, `play`, write and read | filled after each tick, fed to `submit_stamped` | recordings that begin in mid-run, limits | a recording passes its own checkpoints |
| **Save** `simulation/src/{save,save_stream}.cpp` | bytes | `save`, `load` | replaces world, kernel and queue under a driver | a load that fails half-way, counters left of the run before | what is loaded is of one run |
| **Schedule** `simulation/src/schedule.cpp` | systems, batches | `add`, `finalise` | read by the kernel | conflicts between systems, batches out of declared order | a tick is what the declarations say |
| **Tick accumulator** `simulation/src/tick_accumulator.cpp` | time owed, remainder, speed | `advance`, `commit`, `set_speed`, `set_tick` | paces the driver | remainders, limits, pauses, loads | it and the kernel count the same tick |
| **Wire format** `net/src/message.cpp`, `simulation/src/replay.cpp`, `save.cpp`, `lab/sim/src/tables.cpp` | none | encode, decode | between peers, runs and versions | damage, truncation, counts in somebody else's word | what is read is what was written, or could have been |
| **Edit history** `edit/src` | undo and redo stacks | `apply`, `undo`, `redo` | commands on the scene | identifiers, subtrees, merging, the bound | undo gives back the scene as it was |
| **Scene, animation** `scene/src`, `animation/src` | entities, parents, components, poses, world transforms | create, destroy, reparent, set, compose, save, load, advance | edited by commands, drawn each frame | order of composition, identifiers in a file, stale transforms | what is drawn is current; what is saved comes back |
| **Mods** `script/src` | a runtime per process, an instance per peer, budgets, queues | `create`, `load`, `mod_init`, `mod_tick`, `poll` | submits commands that are never sent | traps, budgets, a table of imports that outlives its runtime | every peer's mod does the same |
| **Assets** `assets/src`, `renderer/src/texture_cache.cpp` | states, queue, workers, artifact cache, textures | `request`, `pump`, `poll`, `reload`, `stop` | threads decode, the main thread finishes | writes during reads, wake-ups, stopping | a ready texture is of its file; requests settle |
| **Quad batch** `renderer/src/quad_batch.cpp` | pending quads, an instance buffer | `begin`, `add`, `set_texture`, `flush`, `end` | streams into a buffer frames in flight still read | a flush in mid-frame | every draw finds its quads |
| **Graphics device** `rhi/src`, `core/handle.hpp` | pools behind handles, one frame, staging, captures, readbacks | create, destroy, upload, `begin_frame`, passes, `end_frame`, readback | over a graphics library | every call may fail, the device may be lost, slots are reused | nothing given back twice or never |
| **Cell view and picking** `apps/lab/view/src`, `lab/sim/src/snapshot.cpp` | camera, layout, snapshot, id target, a pick | resize, steer, cull, draw, pick, publish | between world, window and command queue | the answer to a click arrives frames later | the picture is the world's; a click paints what was under it |
| **Platform** `platform/src` | keys, pads in slots, text | `pump` | the window system's queue | pads that leave with buttons held | state and events say the same |
| **Audio** `audio/src` | clips, voices, the queue ahead of the card | `create_clip`, `play`, `stop`, `update` | clips come from assets | clips destroyed or reloaded while they sound | a voice sounds its clip to the end |
| Divergence reports, random streams, core, math, text, debug interface, game systems, sandbox | | | | arithmetic and output | |

The hazards of this code, each at its line with the properties that would catch it, are in
`PROJECT.json` under `hazards`.

## 2. What is modelled

| module | what it is | code |
|---|---|---|
| `GateOps` | the turn gate as a value, one operator per method | `turn_gate.cpp`, `turn_gate.hpp` |
| `TurnGate` | a gate that anyone calls in any order | the same |
| `TurnGateAbs` | what a gate promises: a set of completed turns per source, seen through a moving window | (specification) |
| `TurnGate_proofs` | its theorems | |
| `KernelOps` | command queue, application to a world, a tick | `command.cpp`, `kernel.cpp` |
| `OpsLemmas` | what the operators of `GateOps` and `KernelOps` return, for the proofs of `TurnGate`, `Kernel` and `Lockstep` | |
| `Kernel`, `Kernel_proofs` | one peer: submissions, marks, loads and steps in any order, and its theorems | the same |
| `LinkOps` | pipes and inboxes of mesh and star | `link.cpp`, `loopback.cpp`, `inbox.cpp` |
| `SessionOps` | one peer's session with its queue, gate and kernel; one operator per handler and call | `session.cpp`, `session.hpp` |
| `Lockstep`, `Lockstep_proofs` | the composition: peers, link, the driver's loop, crashes, farewells, corruption; its theorems | `main.cpp` (`run_socket_peer`) and all the above |
| `WorkerPool`, `WorkerPool_proofs` | the pool at the grain of atomic accesses, and its theorems | `worker_pool.cpp`, `kernel.cpp` (batch loop) |
| `EnetHub`, `EnetHub_proofs` | a listener, processes that dial it and a transport that stalls, breaks and closes; its theorems | `enet_hub.cpp`, `inbox.cpp` |
| `RelayAbs` | what a star promises: a place utters its next broadcast into one order, a connector hears the first it has not heard and that is not its own | (specification) |
| `LabRun` | a solo run: accumulator, mod, clicks, saves, loads, recorder, playback | `apps/lab/main.cpp`, `tick_accumulator.cpp`, `save.cpp`, `replay.cpp`, `lab/sim/src` |
| `Schedule`, `ScheduleMods_proofs` | declarations, batches, and a tick whose systems compute at once and commit in order; its theorem | `schedule.cpp`, `kernel.cpp` |
| `Wire` | what is written down and read by somebody else | `message.cpp`, `protocol.cpp`, `replay.cpp`, `save.cpp`, `save_stream.cpp`, `tables.cpp`, `grid_layout.cpp` |
| `Mods`, `ScheduleMods_proofs` | a runtime, and an instance of one module beside each peer; their theorems | `script/src` |
| `SceneOps` | the scene as a value: entities, links, composition, saving | `scene/src` |
| `Editor` | commands on it, history, animation, the frame that draws it | `edit/src`, `animation/src`, `scene_demo.cpp`, `debug_ui.cpp` |
| `Timeline` | what a history promises: pages and a place among them | (specification) |
| `Assets`, `Resources_proofs` | registry, workers, artifact cache, textures, polling; their theorem | `assets/src`, `texture_cache.cpp`, `sandbox/main.cpp` |
| `QuadBatch`, `Resources_proofs` | quads through one buffer while the processor is behind; their theorem | `quad_batch.cpp`, `resources.cpp` |
| `Device`, `Resources_proofs` | resources behind handles, frames, captures, readbacks, loss; their theorem | `rhi/src`, `core/handle.hpp` |
| `CellView` | camera, picture and picks of the lab, pixel by pixel | `apps/lab/view/src`, `snapshot.cpp`, `camera.cpp`, `camera_controller.cpp`, shaders |
| `Platform` | keys, gamepads and text, once a frame | `platform/src` |
| `Audio`, `Resources_proofs` | clips, voices and the queue ahead of the card; their theorem | `audio/src` (`mix.cpp`, `device.cpp`) |

`MCTurnGate`, `MCKernel`, `MCLockstep`, `MCCrowd`, `MCWorkerPool`, `MCEnetHub` and `MCLabLoad` give
the constants values or state properties over several modules. `MCEngine` runs the eleven parts
that share no state with one another; its variable `focus` says which part a behaviour is about,
and the others stand still, so that the run is the sum of eleven runs and not their product. The
gate is used three times: by itself (where it is proved), inside `Kernel` and inside every peer of
`Lockstep`. What a definition named "Mutant" is for is said in section 7.

### State and actions

*Gate.* `floor` is the lowest tick that may still run. A source has `completeBefore`, all ticks
below which are complete, and `ahead`, the set bits of its window as offsets. `mark_complete`
outside the window is refused; inside, it sets a bit and absorbs the run of completed turns.

*Queue and kernel.* The pending commands are a set of entries, a command with the number of its
copy, and a drain puts those that are due in their places, so that arrival order cannot be used by
accident. A world is the sequence of commands that claimed a cell: the first
command on a cell applies, every later one is declined. It stands for any deterministic handler
that looks at the world, it tells every order apart that matters, and its hash is itself, so that
equal hashes mean equal worlds (an accidental collision of 64 bits is left out).

*Session.* A node is a record of the session's fields and its queue, gate and kernel. A handler
maps a node to a node, a call that sends maps a node and a net to both. `error` holds the code of
a failed call, with whatever it had changed before failing, as the C++ does. Read in this order:
`ReadInbox`, `Handle`, `HandleLostPeers`, `CompleteDrops`, `PollSession`, `SendTurn`,
`SendHashCheck`, `FinishSession`.

*Lockstep.* A peer is a process; each call of session and kernel is atomic, because each peer
is single-threaded here and shares nothing with another but the link. `Announce`, `Poll`, `Step`,
`DeclareFinish`, `GiveUp` and `Exit` are the calls in the driver's loop; they may come in any
order that their conditions allow, which includes the driver's. `LoopSpec` merges a poll with the
announcements or with the ticks that follow it; nothing of the process itself happens between
them. `Exit` first hands over what was sent to whoever still polls, as the destructor of the hub
does within its 500 ms; `Crash` clears what is in flight both ways, as `LoopbackHub::lose`.

*Pool.* A thread has two slots, its outer activity and the loop that activity called. Accesses to
the atomics and sections under the mutex are single steps. A system of a batch may call
`parallel_for` itself, on the caller's thread or a worker's: `worker_pool.hpp` says a pool "does
not support being driven from several threads at once", while `kernel.hpp` hands systems the pool
so that "each system may split its own work further", and the lab's systems do. The model lets
them, and the properties hold.

*Hub.* The socket library is external: between the listener and a process one ordered channel each
way, whose packets, CONNECT and DISCONNECT are taken one event at a time, in any order between
connections. The processes are numbered in the order in which they are admitted, which is a
reduction by symmetry. A process that closes drains its channel, or exceeds its budget and leaves
a channel cut off; what is on its way to a closed host is gone. A listener whose inbox is full
still forwards. Messages to one other end (`send`) are not modelled; the session only broadcasts.

*Lab run.* A world is the list of commands applied to it and the seed each tick drew from, so that
equal worlds mean equal hashes. A frame is one action: the clock advances, the ticks it asks for
run, and the accumulator commits. The file that `--save` and `--load` name may be of this run, of
another, damaged in its header, in a table, or with tables that do not belong together.

*Wire.* A document is a sequence of words, and a word stands for a field of fixed width, whatever
its width. Writers are written out field by field; readers are layouts that one interpreter reads.
What is garbled is one word or a cut, and two documents may be run together.

*Mods.* The module is any deterministic program: what it does next is chosen when first asked for
and remembered under what it was told so far, so that every peer's instance is the same program.

*Editor and scene.* A component is one value and a transform one number, to which a parent's is
added. A command captures what its revert needs, when the code does. `Timeline` is implemented
with the pages in an auxiliary variable.

*Assets.* A file is the number of the write that made it, which is also its time. Reading the
content and reading the time are two steps of a worker. The mutex's sections are single steps,
waiting on the condition variable is a state of its own, and a notification wakes sleepers only.

*Quad batch and device.* What the graphics library is relied on for is written down: storage that
is cycled while something submitted still reads it, command buffers that must be submitted or
cancelled, objects that live until they are given back. Each object is noted with what it was made
for (`purpose`) and each frame with how it was left (`ending`), neither of which any action reads;
they are what `DriverObeyed` says who is to hold an object by. A bind by a stale handle returns and
the pass draws on with what was bound, as the code does. `Generations` makes a slot's generations
wrap, with the code's own rule for it.

*Cell view.* Lengths are integers, so that a pixel's centre falls where the code's floats put it;
the zooms are two. The picture is computed as the renderer does it: chunks in sight, runs of
consecutive chunks, colours packed one run after the other, and the shader's arithmetic that turns
an instance into a place. The identifier pass is computed likewise, in a target of its own that
may have failed to follow the window's size. Loads that succeed change grid and snapshot; those
that fail are `LabRun`'s. A frame whose pass is refused or whose colours cannot be uploaded is
presented without the picture (`DrawNothing`); `screen` is the picture of the last frame that had
one, and what `PictureIsTrue` says of it.

*Platform and audio.* The window system's queue is external and so is the sound card, which takes
frames from the stream. A handle in `Audio` is a number never used again; that a handle of the
code does not find another object is the subject of `Device`. `sound` is what is heard: the frames
of blocks the stream took, each with how many of its voice were missed before it; `missed` and
`refusals` count those of blocks it refused, which the code mixes and then loses.

## 3. Runs

| run | configuration | shows |
|---|---|---|
| `gate` | 2 sources, window 3, ticks 0..6 | frontiers normalised, readiness stable, `TurnGateAbs` implemented |
| `kernel` | 2 sources, 2 ticks, a queue of 2, 3 commands | no command lost, the world independent of arrival, sequence numbers never reused |
| `pair` | 2 peers, 4 ticks, delays 1 and 2, any latency | agreement after every tick, bounded lead, no false alarm, everyone finishes |
| `corrupt` | 2 peers, 3 or 4 ticks each, one command altered in flight | a run reported as finished was compared and is the same run for both; everyone ends |
| `drop` | 3 peers on a star, one crash or farewell, 2 messages a poll | survivors hold the same turns of the lost peer, and nobody stops because of it |
| `drop_ends` | the same with every peer frail, delay 1 | the survivors finish |
| `pool` | 2 workers and the caller, 3 loops of 2 chunks | chunks once, no worker in a dead job, calls and closing end |
| `hub` | 3 processes dial a session of 3, inboxes of 1, 2 broadcasts, both policies, one garbler, one slow | `RelayAbs` implemented, a lost connector is silent, nobody waits for the dead |
| `engine` | eleven parts, each by itself (820,000 states in all) | sixteen properties, one or two of each part |
| `diverged` | 2 peers, one altered command | **violation**: a divergence found in `send_hash_check` does not stop the session |
| `crowd` | 10 peers on a mesh with the default configuration | **violation**: the first hash check ends the session of a slow peer |
| `quick_load` | a run of 3 ticks over a save that may be damaged | **violation**: a failed load changes the running world |

### Bounds, and why they are enough

- *Gate.* Window 3 and seven ticks put marks before, inside, at the end of and past the window,
  with two slides of a full window; one expected list is longer than the limit of sources. The
  proofs remove these bounds.
- *Kernel.* Three commands in a queue of two: one can be refused, one late and one a repeated
  stamp, and two contend for a cell. The proofs remove these bounds.
- *pair.* Two peers with different delays over four ticks with a check every two: each can be
  ahead of the other by its whole lead, checks arrive before and after the tick they are about,
  and the last check due is not the last tick. All peers contend for the same cell at every tick,
  so that any difference of order is a difference of worlds. Every prefix of every pipe may be due.
  For `Agreement` and `BoundedLead` the proofs remove these bounds.
- *corrupt.* The altered command is any command in flight, at any moment; lengths are equal, or
  one longer at either side, which is the boundary the driver's own comment is about.
- *drop.* One loss at any moment; three peers are the fewest with a survivor other than the relay,
  and a connector with a longer delay holds turns the others lack. Two messages a poll leave turns
  unread when the loss is seen. `Latency` is FALSE here (`latency_polls` 0, the default): what
  matters is which of the messages were sent before the loss and which the receivers have polled.
- *pool.* Two workers suffice for a worker that is late, one that is a guest in a loop another
  worker called, and one that calls a loop; three loops suffice for a batch whose two systems each
  call one. `JobOutlivesGuests` and `EveryChunkOnce` are proved without these bounds.
- *crowd.* A single schedule: the peers take turns at passes of the loop and the last may miss a
  turn. A violation needs no more.
- *hub.* Three processes for two places leave one stranger; one that is slow and one that garbles
  cover a deadline missed alive and a program that is not ours; an inbox of one message fills. The
  proofs remove these bounds, `LossIsNoticed` keeps them.
- *editor.* Three identifiers give a tree of three levels and a child with a smaller number than
  its parent; a history of two edits drops its oldest; four calls edit, undo, redo and edit again.
- *assets.* Two assets, one cached and finalised and one not, two workers, a write in all, two runs
  of the program: the write falls anywhere in a load, and the second run meets the first one's
  artifacts, spoilt or not. `AssetsCoherent` is proved without these bounds.
- *batch.* A batch of one quad flushes at every second; two frames in flight and four places of
  storage are as many as can be in use at once.
- *device.* Every kind of resource, two objects and command buffers ever made, one pending readback,
  four generations: a slot is reused and retired; every call fails, or finds the device lost.
- *lab.* Three ticks, two things the user does, frames shorter and longer than allowed, a queue of
  four and a recording of five commands: both limits are reached.
- *mods.* Two peers over two ticks, budgets of two instances and a half, two runtimes one after
  the other, one order a call, modules that trap, exit, grow and submit. The proofs remove the
  bounds, and say which budgets are enough.
- *schedule.* Three systems over two tables and one that does not exist: chains, conflicts of every
  kind and a declared order against the batches. The proof removes these bounds.
- *wire.* Every kind of document with at most two items in each list, one act of damage anywhere.
- *platform.* Two gamepads for one slot, one key, five reports: a pad leaves and another takes its
  slot within a pump. *audio.* Two voices, clips of no and of three frames, blocks of two: a voice
  ends within a block, loops across one, and is refused a third place; a block retires one voice of
  two that end in it (`MaxRetired`, 64 in the code); the stream refuses any block. The proof removes
  these bounds.
- *view.* Grids of 2x2 cells in chunks of one and 4x2 in chunks of two; windows of two pixels, side
  by side or one above the other, so that the chunks in sight are one run or two; three gestures
  (click, drag, zoom, resize, reset, load) in any frames. A click, a load of another grid and a
  movement are three.

### Fairness

A peer's driver is a loop, so an action of it that stays possible is taken: announcing, running a
ready tick, declaring a finish, giving up, leaving, and polling once everything sent is due (a
link with a bounded latency delivers in the end). Crashes, farewells and corruption are never
owed. In `Lockstep` the condition of each fair action is written out rather than left to ENABLED,
whose evaluation TLC cannot afford on these actions. In the pool every thread that can take a step
takes one (weak fairness of the scheduler and of the mutex); no thread is owed a spurious wake-up,
so that a lost notification shows. Nobody has to call a loop or to close the pool.

In the hub every end polls while it is open, deadlines run out and the library delivers; a listener
owes a time-out only to a connector that has gone. Nobody has to speak or to close. Of the parts of
`engine` only the assets have fairness: the frame loop runs until it is told to quit and the threads
are scheduled; requests, writes and quitting are not owed.

`CHECK_DEADLOCK` is FALSE in `Lockstep` and the hub, where all processes end, in the pool, which may
be closed, and in the parts of `engine` and `quick_load`, where the bounds or the end of a run stop a
behaviour; in the gate and kernel runs it is on.

## 4. Properties

- **Gate**: `TypeOK`; `FrontierInv` (frontiers absorb every completed turn, none is behind the
  floor); `ReadyStable` (no call withdraws a ready tick unless a source joins); `ImplementsAbs`.
- **Kernel**: `NothingLost` (an accepted command is queued or reported exactly once);
  `ArrivalIndependent` (the world is computed from the commands on time and nothing else);
  `SequencesFresh`.
- **Lockstep**: `Agreement`, `BoundedLead`, `NoFalseAlarm`, `Completes`; under corruption
  `FinishedIsAgreed`, `FinishedIsOneRun`, `Terminates`; under loss `SurvivorsAgree`,
  `RelayKeepsSession`, `SurvivorsFinish`.
- **Pool**: `JobOutlivesGuests`, `EveryChunkOnce`, `EveryCallReturns`, `CloseEnds`.
- **Hub**: `ImplementsRelay` (a refinement: however connections break, what each connector files is
  the one order of the broadcasts without its own); `LostIsSilent`; `LossIsNoticed` (liveness).
- **Lab**: `PlaybackAgrees` (a recording passes its checkpoints, not of a run that loaded while it
  recorded); `OfOneRun` (after any loads, world, kernel, queue, bound and accumulator are of one
  run). **Schedule**: `TicksAsDeclared`. **Wire**: `WireAgrees`. **Mods**: `PeersAgreeOnMods` (not of
  a module that reads the clock), `RuntimeKept`.
- **Editor**: `ImplementsTimeline` (a refinement), `DrawnIsCurrent`, `SurvivesSaving`.
- **Assets**: `AssetsCoherent`, `AssetsSettle` (liveness). **Graphics**: `PaintsWhatWasAsked`,
  `DriverObeyed`, `PictureIsTrue`. **Platform**: `InputIsTrue`. **Audio**: `SoundsThrough`.

The type invariants of `Kernel`, `Lockstep` and `WorkerPool` are stated in their modules for the
reader and for proofs; no run spends time on them, and that of `Kernel` is a theorem.

## 5. What the code and its documents disagree on

Three runs expect a violation.

- `diverged`: `session.hpp:28` says that a divergence stops the session. One that is found in
  `send_hash_check`, while a held check is answered (`session.cpp:454`), only fails the call: the
  session stays Running, says no farewell and never sends its own check. The lab driver then
  leaves, so `Terminates` and `FinishedIsAgreed` hold all the same.
- `crowd`: `kMaxPendingChecks` is 8 for all peers together (`session.cpp:379`), while its comment
  (`session.cpp:28-33`) justifies it for one. Ten peers with default settings are enough for an
  honest peer that is one poll late to end its session as Exhausted.

- `quick_load`: `load_guarded` is documented as changing nothing when it fails (`main.cpp:617`), and
  `save.hpp:16` says so of `load`. But `load` clears the world before it reads the tables
  (`save.cpp:256`) and leaves it cleared when one does not read, has bytes left over or the hash
  differs; `load_guarded` restores only after the check across tables, not after this.

Three divergences of the graphics device (`src/engine/rhi`) are in the model and in the words of
`DriverObeyed`, which names them as all that is ever left behind; without any one of the three
clauses TLC finds the invariant violated in a few steps.

- `device.hpp:12-13` says of frames and passes that they "close themselves, so a missing end call is
  not something a caller can forget". `discard_frame` (`device.cpp:273-286`) never releases the
  capture target. Nothing has to fail: `RequestCapture`, `BeginFrame`, `BeginPass`, `Abandon`.
- `device.hpp:256` says of `stream_buffer` that the staging memory "belongs to the buffer and goes
  with it". It goes with `destroy_buffer`; `~Device` (`device.cpp:638-640`) releases the buffers that
  are left and not what they were streamed through (`DestroyDevice`).
- `device.hpp:129-131` says that a frame that is not submitted cancels, and `device.cpp:269-270` that
  a swapchain image must be given back by submitting. `end_frame` marks the frame submitted before
  it calls `capture_texture` (`device.cpp:776-780`), which can fail before it submits
  (`resources.cpp:746-762`); then nobody settles the command buffer (`EndCapture`).

Smaller divergences, noted without a run: `kMaxPending` is documented as a limit for one tick
(`command.hpp`) and is one on the whole queue; a lead is documented as at most the input delay and
reaches one more, the tick a peer is waiting in (`BoundedLead` states what holds); a grain of zero
is documented as a worker-sized slice and gives chunks of one; `default_worker_count` is
documented as never zero and is zero on one core; `session.hpp` describes `finished()` as if all
partners had finished, which on a mesh of three with latency they need not have.

Noted while modelling the rest, without a run:

- *Hub.* `EnetStatus` (`enet_hub.hpp`) says that a connector dropped under `PeerLoss::Drop` "ends
  nothing"; forwarding a broadcast to one whose loss is not known yet fails and ends the session.
- *Lab.* A quick load during a recording is unknown to the recorder, whose replay then diverges. A
  replay may hold ten million commands while playing queues them all before the first tick, in a
  queue of one million. A save that fails at the end drops the recording too. Pending commands and a
  mod's memory are not saved, though `ROADMAP.md:435-436` says that they are. After a failed quick
  load has emptied the world, `fill_snapshot` indexes empty tables by the old layout.
- *View.* If the colour buffer of a larger grid cannot be created, `set_layout` returns after it has
  taken the new layout: the next `draw` writes past the end of `m_colours`, which its comment says
  "is already the grid's size" (`DrawPastTheEnd`, where the model stops). A pick drawn before a load
  of a smaller grid reads the snapshot out of range (the command is refused afterwards); a camera
  that moved between drawing and collecting is reported as a disagreement of the identifier pass
  with the projection; a target that could not follow the window's size gives a stretched answer; a
  readback that fails for good blocks every later click.
- *Device.* Moving onto a device forgets the one it held; a readback whose mapping fails is pinned;
  a stale handle is refused by the bind, while the draw after it goes on with what was bound; loss is
  logged more than the "once" its comment promises.
- *Assets.* A write between reading a file and reading its time leaves old content under the new
  time, in the artifact cache too. `AssetsCoherent` excuses such an entry (`raced`) and so says
  nothing of this race, only that nothing else sets content and time apart. The key of the cache has
  the content's size as well, which `KeyOf` leaves out: it hits wherever the code's key does, and
  where the size alone would have told. A failed reload goes on drawing the old texture, against the
  comment on `texture_for`; a failed load is queued again at each poll.
- *Editor.* Removing an animator leaves its pose; a name longer than what a file may hold is
  accepted; identifiers may be given again after the highest is destroyed and the scene reloaded.
- *Mods.* Loopback peers of one process share a budget, a full queue is visible to the module, and
  both could tell peers apart; `PeersAgreeOnMods` has one budget for equal instances.
- *Wire.* The encoder of `Drop` does not check the source the decoder refuses; the tick, seed and
  numbers of a save are not covered by its hash, so that damage there is not seen.
- *Platform, audio.* A gamepad ignored because all slots were taken is not adopted when one is free;
  a block the stream refuses is lost although its voices advanced, and where the comment
  (`audio/src/device.cpp`) says that the silence is counted as an underrun and the next frame will
  try again, it is not this block that is tried; the first update with a voice already playing counts
  an underrun; `destroy_clip` takes the clip an asset resolved to, whose cache goes on naming it until
  the asset is made again.

## 6. Proofs

`tlapm` checks every theorem for all values of the constants, under named assumptions about them
that TLC also evaluates:

| assumption | says | justified by |
|---|---|---|
| `LookaheadAssumption`, `MaxSourcesAssumption` | a lookahead of at least one, a number of sources | `kMaxLookahead`, `kMaxSources` |
| `TickAssumption`, `SourcesAssumption` | ticks are naturals; sources and cells are integers | `Tick`, `CommandSource`, indices |
| `MaxPendingAssumption`, `BoundsAssumption` | limits are naturals | `kMaxPending`; the others bound the runs |
| `WorkerAssumption`, `ChunksAssumption` | finitely many workers, none of them the caller | `WorkerPool::create` |
| `ConfigAssumption` | peers are numbered from zero; positive intervals and input delays; losses are survived on a star only | `Session::create` |
| `KeptAssumption` | a peer keeps at least one of its own checks | `kCheckpointsKept` |
| `KindAssumption`, `LimitAssumption` | the five kinds of resources are among the kinds; the limits are naturals | `resources.hpp`; the bound of the runs |
| `StorageAssumption`, `BoundAssumption` | while fewer places are in use than quads can be made there is another; the bound is a natural | cycling in SDL_gpu makes what it lacks; the bound of the runs |
| `AudioAssumption` | the limits of the mixer are naturals, a block is not empty, the target is below the most that may be queued; no clip is not a clip | `AudioConfig`, its adjustment in `create`, `kBlockFrames`, the invalid handle |
| `ModAssumption`, `NoOneAssumption` | finitely many simulations; limits are naturals, the delay is positive; no maximum is no number, no call is no call | `ModHostConfig`, `ModLimits`, `RuntimeConfig`, the check in `ModHost::create`, the null pointer |
| `NoObjectAssumption`, `ShutAssumption` | nothing and never again are no object and no frame | null pointers |
| `IdleAssumption`, `HubAssumption`, `AssetAssumption` | no batch is called idle; places are counted from the listener's; finitely many assets, none of them nothing | the code's own sentinels |

What is proved, and along which argument:

- **Gate** (`TurnGate_proofs`: `TypeCorrect`, `FrontierCorrect`, `ReadyIsStable`,
  `GateImplementsAbs`). The argument rests on `AbsorbKeepsTurns`: absorbing changes the
  representation and not the set of turns. `FirstGapIsLeast` shows that the loop over bits ends at
  the least gap. The invariant is the type invariant with `FrontierInv`: bit zero of every window
  is clear, and every frontier is at or above the floor; without the second a retired tick could be
  reported unready.
- **Kernel** (`Kernel_proofs`: `TypeCorrect`, `NothingIsLost`, `WorldIsFixed`, `NumbersAreFresh`). The
  order of commands is total, so the places number the entries that are due (`PlacesAreANumbering`)
  and what is drained is sorted (`DrainedIsSorted`); a tick is a chain of kernels, one after each
  command. None of the properties is inductive. `IInv` adds `Bounded` and `Accounted` (every
  command that was accepted is queued or reported, and how often), `InTime` (what was in time and
  has not run is still queued) and `Taken` (a cell a valid command went for is owned): without the
  last the world could not tell a winner from a command that found its cell free by accident.
- **Lockstep** (`Lockstep_proofs`: `PeersAgree`, `LeadIsBounded`). What a peer says at a tick is a
  function of the peer and the tick (`Said`): its cells, numbered on from all that it claimed
  before. `Inv` follows it. A turn on its way is what its speaker says, was said, is not held yet
  by its reader, and is under way once (`UnderWay`, over the inbox, the pipe into the reader and on
  a star the pipe to the relay). A turn that is marked was said (`Follows`). A queue holds commands
  of turns that are held and did not run, each once (`Within`), and while it has room all of them
  (`Exact`). A world is the run of everybody's turns, tick by tick (`History`), so that worlds of
  the same ticks are the same (`OneHistory`). `Agreement` is not inductive without all of this: a
  turn taken twice or in part, or a tick that ran before a turn was filed, shows in the world only
  when the tick runs. The theorems hold for any number of peers, both topologies, any latency, full
  inboxes, caps and intervals, payloads a validator refuses, peers told to make different runs, and
  deaths and departures at any moment. Their hypotheses, which are not assumptions of the model:
  `Works` (a workload is a sequence of integers); `Policy = "End"` (with `Drop` survivors take turns
  of a lost peer that others may not have run yet, which is `SurvivorsAgree`, and stays with TLC);
  no corruption (after an altered command peers do differ, until a check finds it); and `Fits`: the
  commands of everybody's turns, within the window by which peers can be ahead of each other, are
  fewer than `kMaxPending`. A queue that fills refuses some commands of a turn and the session goes
  on, so that peers with full queues may differ: without `Fits` the theorem would be false. In the
  program the limit is 1,000,000 (`command.hpp:149`); in the run `pair` the windows are of at most
  eleven turns of one command, below the 16 there.
- **Finish** (`Lockstep_proofs`: `FinishIsAgreed`, `FinishIsOneRun`). When commands are altered, queues
  are full or a partner was dropped, peers may differ, and what is left is that nobody reports a
  finish it did not compare. The invariant `HInv` does not say what a world is; it says that what is
  under way is honest. A check names the world its speaker had after a tick that it ran, a finish is
  the last tick its speaker was told to run, and a turn is any list of stamped commands, so that an
  altered one still is (`Honest`, `HonestCorrupt`). A peer keeps of its own worlds and holds of
  others' only what is so (`Recorded`, `HeldFor`), and what it counts as compared were two equal worlds
  after a tick that is checked (`ComparedTo`, `SameAfter`). The finishes it knows agree with its own
  (`Declared`). Later ticks leave all this standing, because they append to a world (`Lasting`).
  `FinishedIsAgreed` then needs a step of arithmetic: a tick that is checked, not above the last one
  and not below its last check, is that check (`LastMultiple`). The theorems hold under either policy
  and for every fault, corruption included; the hypotheses are `Works`, and that every run has at
  least one tick. As everywhere here a hash is the world it is of, so they are up to collisions.
- **Pool** (`WorkerPool_proofs`: `GuestsAreSafe`, `ChunksRunOnce`). Nothing in `JobOutlivesGuests` says
  why a caller that reads zero guests has none. The invariant adds `Counted` (the counter of a live
  call is the number of its guests, exactly), `Hosted` (a guest is in a call published before and
  still open, of the generation it saw) and `Published` (the pointer is to the latest call). For
  the chunks it adds `Claimed` (what is below the cursor was given out), `Exclusive` (a chunk is in
  one hand at most), `RanOnce` and `Reckoned` (the count is the number of chunks that ran and are in
  nobody's hand any more): a caller leaves when the count is all of them.
- **Schedule** (`ScheduleMods_proofs`: `TicksAreAsDeclared`). Batches grow one system at a time, and after
  every system (`GroupedIsAChain`) they are free of conflicts and cover the systems so far. Nobody
  commits before all have computed, so what was computed is what the tick's first world gives
  (`Ticking`, `Computing`).
- **Mods** (`ScheduleMods_proofs`: `PeersStayTogether`, `RuntimesAreKept`). Two peers agree only
  where they rest in the same tick, and are rarely there together; in between nothing relates them
  but that they go the same way. A *side* is what one peer is at: its simulation, its mod and the
  call it is in. `Onward` is the only way on from a side, given what the module is known to do, and a
  `Trail` is a set of sides that holds where everybody begins and, but for the furthest, the way on
  from each. `Together` says that there is a trail and that every peer that runs is somewhere on it.
  A step of a peer goes along the trail, or is the furthest's and makes it longer: then the module
  is asked something for the first time, and what is known of it grows and never changes (`Order`).
  On a trail there is one rest in each tick, since a side only goes up in `Rank`; so two peers that
  rest in the same tick are at one side, which is the property.
  The way is one only if a peer's answers do not depend on the others, and one does: the budget is
  the process's, and `memory.grow` may be refused to whoever comes last. Hence the hypothesis
  `Ample`, that every instance can be full while one grows, whose new block is counted before the
  old one is freed; with less the theorem is false. `Budgeted`, that what is spent is the pages of the
  instances, turns it into "no growth is refused". In the program the budget is 160 MiB and a mod
  has 16 (`runtime.hpp`, `limits.hpp`): of linear memory alone that fits nine instances, and the
  header says that it was sized for eight. The run's budget is `Ample` exactly. As the property says
  itself, it is not about a module that reads the clock. `RuntimesAreKept` needs no hypothesis:
  `Budgeted` again, and `Offering`, that WAMR sorted a fresh copy and the table it came from is as
  it was, for every sequence of runtimes that offer the clock and that do not.
- **Hub** (`EnetHub_proofs`: `HubInvariant`, `HubImplementsRelay`, `LostStaySilent`). `IInv` has `Typed`;
  `Arrivals`, `Stages`, `Before` and `Seats` (what each end and each channel can be in at each stage
  of a connection); `Spoken` (what is on its way from a place goes on from its part of the order,
  without a gap), `Distinct` (nothing is in the order twice) and `Heard` (what is on its way to a
  seat goes on from what it heard, along an enumeration of what the others said). A step extends
  the order by one place's next broadcast, or one place hears its first unheard message, or
  neither: the steps of `RelayAbs`. It holds for any number of places and processes, any stalls,
  breaks, garbled packets, full inboxes and both policies.
- **Assets** (`Resources_proofs`: `AssetsStayCoherent`). A version travels from a file or an artifact
  through a completion and a payload to the texture; `Coherent` says at each station that it agrees
  with the time it goes under or that the race was noted. `Once` and `Travelling` say that an asset is
  in one place of queue, hands and completions, and that its entry knows.
- **Device** (`Resources_proofs`: `DriverIsObeyed`). `DriverObeyed` says what is alive and what a handle
  finds now, and nothing of why the next call may give an object back. `DeviceInv` adds that an
  object has one holder (`Single`, `Apart`): a slot, a buffer it is staging for, the frame's capture
  texture, or nobody, so that giving it back takes it from one place. What is on a free list is an
  empty slot and is there once (`Pooled`), a handle is never newer than its slot and, while it is as
  new, of what the slot holds (`Handed`), so that a slot used again makes a handle nobody has. A slot
  is no older than the number of objects made, which is where the hypothesis `Lasts` enters: fewer
  objects are made than a slot has generations. In the program that is 2^32 - 1 objects in one slot;
  beyond it a handle kept that long could find another object, and the theorem would be false. A frame
  has a capture texture only while a capture is wanted (`OneOpen`), which is why ending a frame without
  capturing leaves none behind. Each object is held as what it was made for (`Named`), so that one
  that is alive and held by nobody has to be explained by what it is (`Accounted`). The theorem does
  not deny what the code leaves behind: it says that there is nothing but the target of a frame that
  was abandoned, the staging memory after the device was destroyed, and the command buffer of a
  capture that failed before it was submitted (section 5).
- **Quads** (`Resources_proofs`: `PaintsAsAsked`). That all frames so far were right says nothing of
  those that wait. `BatchInv` says of every frame in the queue that it is due to paint what it was
  asked (`Owed`), and of the one being recorded that its draws are due to paint what was asked but
  for the quads still pending (`Recording`). What draws are due to paint (`Due`) is counted with what
  a storage will hold once the copies under way have arrived (`Will`). No step changes that for a
  draw that waits: a flush writes to staging memory no copy has yet to read and is copied to storage
  nothing uses, so that no two copies share either end (`Disjoint`), and no copy that comes after a
  frame writes what it draws (`Unharmed`). When a frame's turn comes every copy to its storage is
  done, and what it will hold is what it holds. Cycling finds such storage because each place in use
  had a quad of its own (`Within`). That the texture of pending quads is still the one bound is in
  `Recording`: a batch that changed texture without a flush would break it. The concatenation of what
  the draws paint is recursive in the library; `FlattenAppend` shows what one more draw adds to it.
  The quads of an upload that fails are taken out of what was asked, as `flush` drops them: the
  theorem is about all the others.
- **Sound** (`Resources_proofs`: `EverySoundIsWhole`). `SoundsThrough` speaks of what was heard and of
  what was lost with blocks the stream refused; a cursor is all that the next block is mixed from.
  `AudioInv` ties them (`Follows`): a voice that plays once stands where what was heard and what was
  missed end together; one that is repeated stands there but for whole turns of its clip, which is
  that both have the same remainder however many frames follow (`TurnIs`, from the uniqueness of
  division). What is heard is the clip the voice was started with, whatever became of the handle, each
  frame at the place that those heard and missed before it make; and a voice that is neither sounding
  nor stopped has come to its end (`Plays`, `Mixes`). One block keeps that for each voice
  (`MixVoiceIs`) whether it is taken or refused, and at most one block is missed for a refusal; so a
  pass, all passes of an update, and the blocks of a device without a stream do. Nothing refused means
  nothing missed, and then every sound is whole. `NamesAgree` says that a clip an asset owns is the
  one its cache names: a reload that did not destroy the old clip would leave it owned. The converse
  does not hold, for `destroy_clip` takes any handle.

In all of them induction over data (the steps of a loop) is replaced by the least element of the
set of numbers at which the claim would fail, whose existence is well-foundedness (`LeastElement`).

Out of the prover's reach and left to TLC: liveness under fairness (`Completes`, `Terminates`,
`SurvivorsFinish`, `EveryCallReturns`, `CloseEnds`, `LossIsNoticed`, `AssetsSettle`) and anything with
ENABLED, and what a recursive definition computes for every input. Checked but not proved: the
other invariants of `Lockstep` (`NoFalseAlarm`, `SurvivorsAgree`, `RelayKeepsSession`), and of the
parts of `engine` all but `TicksAsDeclared`, `AssetsCoherent`, `DriverObeyed`, `PaintsWhatWasAsked`,
`SoundsThrough`, `PeersAgreeOnMods` and `RuntimeKept`.
`PlaybackAgrees`, `OfOneRun` and `WireAgrees` rest on operators that are recursive or on folds, which
the prover has no induction for.

## 7. Mutants

A definition preceded by "Mutant:" is a plausible bug of the code next to it; no specification
uses it. `PROJECT.json` lists for each property the mutant that breaks it, which shows that the
property depends on the code.

## 8. Not modelled, and the plan

Left out within the modelled parts: reordering and holding of packets (an instrument of tests, the
links keep order); wall-clock deadlines of the lab's driver, which only add ways to stop;
`expect_sources` failing inside a session; the attribution of a divergence to a system; statistics;
loops of the pool with one chunk, which run on the spot; a body that throws, which aborts; the wrap
of 64-bit generations and sequence numbers; weaker memory orders than sequential consistency; the
interpreter of mods, the socket and graphics libraries and the window system, which are modelled as
what the code relies on; gains, pan and palettes; the text formats of scenes and clips character by
character.

Not modelled at all, with the reason, in `PROJECT.json`: divergence reports and random streams, core,
math and text, the debug interface, game systems and the sandbox beside its frame loop. They are
pure functions, 64- and 128-bit or floating arithmetic, and output.

What is left is proof, in this order:

1. `SurvivorsAgree`: `Agreement` under `Policy = "Drop"`, on `IInv` with the turns of a lost peer cut
   where the relay's drop says.
2. A lemma that `Picture` shows at each pixel the cell the projection puts there, for every grid.
