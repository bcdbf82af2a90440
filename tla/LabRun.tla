------------------------------- MODULE LabRun -------------------------------
(***************************************************************************)
(* A solo run of the lab (apps/lab): the tick accumulator decides how many *)
(* ticks a frame runs, a mod and a stream of synthetic commands feed them, *)
(* the user paints cells, saves and loads while a recorder writes down     *)
(* what was applied, and at the end the world and the recording are        *)
(* written out.  The recording is played back by another run.              *)
(*                                                                         *)
(* A world is the commands applied to it and, for each tick, the seed its  *)
(* systems drew from, so that it stands for its own hash.                  *)
(***************************************************************************)
EXTENDS Integers, Sequences, FiniteSets, SequencesExt, FiniteSetsExt, Functions, TLC

CONSTANTS Grid,          \* the rows of the world this run generates
          Seed,          \* the seed of this run
          Colour,        \* what a cell is painted
          LabPending,    \* kMaxPending
          RecordLimit,   \* ReplayLimits::max_commands
          CheckEvery,    \* checkpoint_interval
          UnitsPerTick,  \* kUnitsPerTick
          MaxFrame,      \* max_frame_ns
          TicksPerFrame, \* max_ticks_per_frame, and unbounded_batch
          Duration,      \* the lengths a frame may have
          MaxLabTick,    \* max_ticks
          MaxInputs,     \* bound: what the user does
          Missing        \* no file, no recorder

ASSUME LabAssumption == MaxLabTick \in Nat /\ MaxInputs \in Nat /\ CheckEvery \in Nat \ {0}

VARIABLES sim,       \* world, kernel and command queue, and the bound of the validators
          clock,     \* TickAccumulator, and the speed to resume at
          saved,      \* the save both --save and --load name
          recorder,
          tape,      \* the replay written at the end
          phase,     \* "boot", "running", "ended" or "failed"
          inputs,    \* bound: what the user did
          refused,   \* whether the last load was
          reloaded   \* auxiliary: a load came after the recorder began

labVars == <<sim, clock, saved, recorder, tape, phase, inputs, refused, reloaded>>

Local == 0
ModSource == 1

(* The world, and the kernel that steps it.                                *)
Generated(seed) == [rows |-> Grid, painted |-> <<>>, drift |-> <<seed>>]
Cleared == [rows |-> 0, painted |-> <<>>, drift |-> <<>>]

NewSim(world, seed, tick) ==
  [world |-> world, seed |-> seed, tick |-> tick, pending |-> {}, next |-> <<>>, bound |-> world.rows]

NextOf(s, source) == IF source \in DOMAIN s.next THEN s.next[source] ELSE 0

Accepts(s, cell) == Cardinality(s.pending) < LabPending /\ cell \in 1 .. s.bound

Submitted(s, target, source, cell, colour) ==
  LET number == NextOf(s, source)
  IN  [s EXCEPT !.pending = @ \cup {[target |-> target, source |-> source, sequence |-> number,
                                     cell |-> cell, colour |-> colour]},
                !.next = (source :> number + 1) @@ @]

Stamped(s, command) ==
  [s EXCEPT !.pending = @ \cup {command},
            !.next = (command.source :> Max({NextOf(s, command.source), command.sequence + 1})) @@ @]

DueNow(s) ==
  SetToSortSeq({c \in s.pending : c.target <= s.tick},
               LAMBDA a, b : a.source < b.source \/ (a.source = b.source /\ a.sequence < b.sequence))

\* Late, no longer valid, or naming a row the world does not have: not applied.
Applied(s) ==
  SelectSeq(DueNow(s), LAMBDA c : c.target = s.tick /\ c.cell <= s.bound /\ c.cell <= s.world.rows)

\* The four systems of the lab: on a world without rows they do nothing.
Stepped(s) ==
  LET painted == [s.world EXCEPT !.painted = @ \o Applied(s)]
  IN  [s EXCEPT !.world = IF painted.rows = 0 THEN painted
                          ELSE [painted EXCEPT !.drift = Append(@, <<s.seed, s.tick>>)],
                !.pending = {c \in @ : c.target > s.tick},
                !.tick = @ + 1]

(* Saving and loading (simulation/src/save.cpp, lab/file_bytes.cpp).       *)
SaveOf(s) == [tick |-> s.tick, seed |-> s.seed, world |-> s.world, next |-> s.next, harm |-> "none"]

Refusal(s) == [ok |-> FALSE, sim |-> s]

\* Mutant: the numbers begin again.
LoadedAfresh(s, f) ==
  CASE f = Missing \/ f.harm = "header" -> Refusal(s)
    [] f.harm = "table" \/ f.world.rows = 0 -> Refusal([s EXCEPT !.world = Cleared])
    [] OTHER -> [ok |-> TRUE, sim |-> [s EXCEPT !.world = f.world, !.tick = f.tick,
                                                !.seed = f.seed, !.pending = {}, !.next = <<>>]]

\* load: what the framing shows is refused first; a table that does not read, a
\* grid of no rows among them, is found with the world already cleared.
Loaded(s, f) ==
  CASE f = Missing \/ f.harm = "header" -> Refusal(s)
    [] f.harm = "table" \/ f.world.rows = 0 -> Refusal([s EXCEPT !.world = Cleared])
    [] OTHER -> [ok |-> TRUE, sim |-> [s EXCEPT !.world = f.world, !.tick = f.tick,
                                                !.seed = f.seed, !.pending = {}, !.next = f.next]]

\* Tables that read each by itself may still not belong together.
BelongTogether(f) == f.harm # "crossed"

LoadGuarded(s, f) ==
  LET l == Loaded(s, f)
  IN  CASE ~l.ok -> l
        [] l.ok /\ BelongTogether(f) -> [l EXCEPT !.sim.bound = f.world.rows]
        [] OTHER -> Refusal(Loaded(l.sim, SaveOf(s)).sim)

(* The tick accumulator (simulation/src/tick_accumulator.cpp).             *)
Speed(policy, numerator, denominator) ==
  [policy |-> policy, numerator |-> numerator, denominator |-> denominator]

Normal == Speed("realtime", 1, 1)
Speeds == {Speed("paused", 1, 1), Normal, Speed("realtime", 1, 2), Speed("unbounded", 1, 1)}

NewClock == [tick |-> 0, owed |-> 0, carry |-> 0, speed |-> Normal, step |-> FALSE, resume |-> Normal]

SetSpeed(c, speed) ==
  [c EXCEPT !.speed = speed,
            !.carry = IF speed.denominator = c.speed.denominator THEN @ ELSE 0,
            !.step = @ /\ speed.policy = "single"]

SetTick(c, tick) == [c EXCEPT !.tick = tick, !.owed = 0, !.carry = 0]

\* advance: the frame's clock and how many ticks it asks for.
Advance(c, duration) ==
  LET plan(k, n) == [clock |-> k, ticks |-> n]
      scaled == (IF duration < MaxFrame THEN duration ELSE MaxFrame) * c.speed.numerator + c.carry
      owed == c.owed + (scaled \div c.speed.denominator)
      available == owed \div UnitsPerTick
  IN  CASE c.speed.policy = "paused" \/ (c.speed.policy = "single" /\ ~c.step) -> plan(c, 0)
        [] c.speed.policy = "single" /\ c.step ->
             plan([c EXCEPT !.step = FALSE, !.speed.policy = "paused", !.owed = 0, !.carry = 0], 1)
        [] c.speed.policy = "unbounded" -> plan(c, TicksPerFrame)
        [] OTHER -> plan([c EXCEPT !.owed = owed % UnitsPerTick, !.carry = scaled % c.speed.denominator],
                         Min({available, TicksPerFrame}))

(* Recording and playing back (simulation/src/replay.cpp).                 *)
NewRecorder(s) ==
  [seed |-> s.seed, first |-> s.tick, start |-> s.world, commands |-> <<>>, ticks |-> 0, checks |-> <<>>]

RecordTick(r, s) ==
  [r EXCEPT !.ticks = @ + 1,
            !.checks = IF (r.ticks + 1) % CheckEvery = 0
                       THEN Append(@, [tick |-> s.tick - 1, world |-> s.world]) ELSE @]

\* Mutant: the kernel counts from zero.
PlayKernelFromZero(r) == NewSim(r.start, r.seed, 0)

PlayKernel(r) == NewSim(r.start, r.seed, r.first)

\* play: the queue takes every recorded command before the first tick runs.
Plays(r) ==
  LET queued == FoldLeft(Stamped, PlayKernel(r), r.commands)
      run[n \in 0 .. r.ticks] == IF n = 0 THEN queued ELSE Stepped(run[n - 1])
  IN  /\ Len(r.commands) <= LabPending
      /\ \A i \in DOMAIN r.checks :
           \E n \in 1 .. r.ticks : run[n].tick - 1 = r.checks[i].tick /\ run[n].world = r.checks[i].world

------------------------------------------------------------------------------
(* The run.                                                                *)
\* What the mod decides on: the cell it looks at, in the view of this tick.
Seen(s) == LET of == SelectSeq(s.world.painted, LAMBDA c : c.cell = 1)
           IN  IF of = <<>> THEN 0 ELSE Last(of).colour

\* The mod speaks for a later tick, and what the queue refuses it is its own loss.
ModPolled(s) ==
  IF s.world.rows > 0 /\ Accepts(s, 1) THEN Submitted(s, s.tick + 1, ModSource, 1, 1 - Seen(s)) ELSE s

\* One tick of the loop: the mod, the synthetic commands, the kernel, the recorder.
OneTick(run) ==
  LET polled == ModPolled(run.sim)
      fed == Submitted(polled, polled.tick, Local, 1, 0)
      applied == Applied(fed)
      stepped == Stepped(fed)
      recorded == [run.recorder EXCEPT !.commands = @ \o applied]
  IN  CASE run.failed -> run
        [] ~run.failed /\ ~Accepts(polled, 1) -> [run EXCEPT !.sim = polled, !.failed = TRUE]
        [] ~run.failed /\ Accepts(polled, 1) /\ run.recorder = Missing ->
             [run EXCEPT !.sim = stepped, !.ran = @ + 1]
        [] ~run.failed /\ Accepts(polled, 1) /\ run.recorder # Missing ->
             IF Len(recorded.commands) > RecordLimit
             THEN [run EXCEPT !.sim = stepped, !.failed = TRUE]
             ELSE [run EXCEPT !.sim = stepped, !.ran = @ + 1, !.recorder = RecordTick(recorded, stepped)]

\* One frame: advance, the ticks it asks for, commit.  A tick that cannot be fed
\* or recorded ends the run, and nothing is written.
Simulate(duration) ==
  LET plan == Advance(clock, duration)
      count == Min({plan.ticks, MaxLabTick - sim.tick})
      run == FoldLeft(LAMBDA r, i : OneTick(r),
                      [sim |-> sim, recorder |-> recorder, ran |-> 0, failed |-> FALSE],
                      [i \in 1 .. count |-> i])
  IN  /\ phase = "running" /\ sim.tick < MaxLabTick
      /\ sim' = run.sim /\ recorder' = run.recorder
      /\ clock' = [plan.clock EXCEPT !.tick = @ + (IF run.failed THEN 0 ELSE run.ran)]
      /\ phase' = IF run.failed THEN "failed" ELSE phase
      /\ UNCHANGED <<saved, tape, inputs, refused, reloaded>>

Input == phase = "running" /\ inputs < MaxInputs /\ inputs' = inputs + 1

\* A picked cell becomes a command for the tick about to run.
Click(cell, colour) ==
  /\ Input /\ Accepts(sim, cell)
  /\ sim' = Submitted(sim, sim.tick, Local, cell, colour)
  /\ UNCHANGED <<clock, saved, recorder, tape, phase, refused, reloaded>>

\* Pausing remembers the speed; a request for normal from a pause resumes it.
Control(speed) ==
  /\ Input
  /\ clock' = CASE speed.policy = "paused" -> SetSpeed([clock EXCEPT !.resume = @], speed)
                [] speed = Normal /\ clock.speed.policy = "paused" -> SetSpeed(clock, clock.resume)
                [] OTHER -> SetSpeed(clock, speed)
  /\ UNCHANGED <<sim, saved, recorder, tape, phase, refused, reloaded>>

SingleStep ==
  /\ Input
  /\ clock' = [SetSpeed(clock, Speed("single", 1, 1)) EXCEPT !.step = TRUE]
  /\ UNCHANGED <<sim, saved, recorder, tape, phase, refused, reloaded>>

Save ==
  /\ Input
  /\ saved' = SaveOf(sim)
  /\ UNCHANGED <<sim, clock, recorder, tape, phase, refused, reloaded>>

\* apply_loaded_state re-synchronises the accumulator with the kernel.
ClockAfterLoad(l) == IF l.ok THEN SetTick(clock, l.sim.tick) ELSE clock

QuickLoad ==
  LET l == LoadGuarded(sim, saved)
  IN  /\ Input
      /\ sim' = l.sim /\ clock' = ClockAfterLoad(l)
      /\ refused' = ~l.ok /\ reloaded' = (recorder # Missing)
      /\ UNCHANGED <<saved, recorder, tape, phase>>

\* --load, --record: the recorder starts from wherever the run starts.
Boot(loads, records) ==
  LET l == IF loads THEN LoadGuarded(sim, saved) ELSE [ok |-> TRUE, sim |-> sim]
  IN  /\ phase = "boot"
      /\ sim' = l.sim
      /\ clock' = IF loads THEN ClockAfterLoad(l) ELSE clock
      /\ recorder' = IF records /\ l.ok THEN NewRecorder(l.sim) ELSE Missing
      /\ phase' = IF l.ok THEN "running" ELSE "failed"
      /\ UNCHANGED <<saved, tape, inputs, refused, reloaded>>

\* The world is written first: when that fails, the recording is not written.
Exit(saves, works) ==
  /\ phase = "running"
  /\ saved' = IF saves /\ works THEN SaveOf(sim) ELSE saved
  /\ tape' = IF (saves => works) THEN recorder ELSE Missing
  /\ phase' = IF (saves => works) THEN "ended" ELSE "failed"
  /\ UNCHANGED <<sim, clock, recorder, inputs, refused, reloaded>>

(* Outside the program: the file is damaged, in its framing, in a table or *)
(* in how its tables belong together.                                      *)
Damage(harm) ==
  /\ phase = "running" /\ saved # Missing /\ saved.harm = "none"
  /\ saved' = [saved EXCEPT !.harm = harm]
  /\ UNCHANGED <<sim, clock, recorder, tape, phase, inputs, refused, reloaded>>

\* A save of another run, of another seed and a smaller grid.
Elsewhere ==
  [tick |-> 1, seed |-> Seed + 1, next |-> Local :> 2, harm |-> "none",
   world |-> [rows |-> Grid - 1, painted |-> <<>>, drift |-> <<Seed + 1, <<Seed + 1, 0>>>>]]

LabInit ==
  /\ sim = NewSim(Generated(Seed), Seed, 0) /\ clock = NewClock
  /\ saved \in {Missing, Elsewhere}
  /\ recorder = Missing /\ tape = Missing /\ phase = "boot"
  /\ inputs = 0 /\ refused = FALSE /\ reloaded = FALSE

LabNext ==
  \/ \E loads, records \in BOOLEAN : Boot(loads, records)
  \/ \E duration \in Duration : Simulate(duration)
  \/ \E cell \in 1 .. Grid, colour \in Colour : Click(cell, colour)
  \/ \E speed \in Speeds : Control(speed)
  \/ SingleStep
  \/ Save
  \/ QuickLoad
  \/ \E saves, works \in BOOLEAN : Exit(saves, works)
  \/ \E harm \in {"header", "table", "crossed"} : Damage(harm)

LabSpec == LabInit /\ [][LabNext]_labVars
==============================================================================
