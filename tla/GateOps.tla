------------------------------- MODULE GateOps -------------------------------
(***************************************************************************)
(* The turn gate of engine/simulation as a value: which sources must       *)
(* report before a tick may run, and how far each has reported.  Every     *)
(* operator is one member function of atlas::sim::TurnGate; TurnGate.tla   *)
(* makes a state machine of them and Lockstep.tla gives one to each peer.  *)
(***************************************************************************)
EXTENDS Integers, Sequences, FiniteSets

CONSTANTS Lookahead,   \* kLookahead: how far past its frontier a mark may reach
          MaxSources   \* kMaxSources: most sources one gate tracks

ASSUME LookaheadAssumption == Lookahead \in Nat \ {0}
ASSUME MaxSourcesAssumption == MaxSources \in Nat

Offset == 0 .. (Lookahead - 1)

\* One source's progress: the first tick it has not completed, and the marks
\* that arrived ahead of it.  Bit i of the window is tick completeBefore + i.
Progress == [completeBefore : Nat, ahead : SUBSET Offset]

\* Frontier and window together are the set of turns a source has completed.
CompletedTicks(p) ==
  0 .. (p.completeBefore - 1) \cup {p.completeBefore + offset : offset \in p.ahead}

Fresh(tick) == [completeBefore |-> tick, ahead |-> {}]

NewGate == [floor |-> 0, expected |-> [s \in {} |-> Fresh(0)]]

ExpectedSources(g) == DOMAIN g.expected

\* What expect_sources answers for the list it is given.
ExpectStatus(list) ==
  CASE Len(list) > MaxSources -> "OutOfRange"
    [] \E i, j \in 1 .. Len(list) : i < j /\ list[i] = list[j] -> "InvalidArgument"
    [] OTHER -> "Ok"

\* Mutant: a joining source starts at tick 0, behind ticks that have run.
ExpectSourcesFromZero(g, wanted) ==
  [g EXCEPT !.expected =
     [s \in wanted |-> IF s \in ExpectedSources(g) THEN g.expected[s] ELSE Fresh(0)]]

\* Mutant: a source that stays expected starts again at the floor.
ExpectSourcesForgetful(g, wanted) ==
  [g EXCEPT !.expected = [s \in wanted |-> Fresh(g.floor)]]

\* A source already expected keeps its progress; a new one starts at the floor.
ExpectSources(g, wanted) ==
  [g EXCEPT !.expected =
     [s \in wanted |-> IF s \in ExpectedSources(g) THEN g.expected[s] ELSE Fresh(g.floor)]]

CompletedBefore(g, s) == g.expected[s].completeBefore

\* How many marks at the bottom of the window are consecutive.
FirstGap(window) ==
  CHOOSE n \in 0 .. Lookahead : n \notin window /\ \A m \in 0 .. (n - 1) : m \in window

\* Mutant: the window is shifted one place less than the frontier moves.
AbsorbShiftsShort(frontier, window) ==
  LET gap == FirstGap(window)
  IN  [completeBefore |-> frontier + gap,
       ahead |-> {offset \in Offset \ {0} : offset + gap - 1 \in window}]

\* Mutant: the window is shifted the wrong way.
AbsorbShiftsLeft(frontier, window) ==
  LET gap == FirstGap(window)
  IN  [completeBefore |-> frontier + gap, ahead |-> {offset + gap : offset \in window}]

\* Absorb every consecutive completed turn into the frontier, so that bit 0 is clear.
Absorb(frontier, window) ==
  LET gap == FirstGap(window)
  IN  [completeBefore |-> frontier + gap,
       ahead |-> {offset \in Offset : offset + gap \in window}]

IsDuplicate(g, s, tick) == tick < g.floor \/ tick < CompletedBefore(g, s)

MarkStatus(g, s, tick) ==
  CASE s \notin ExpectedSources(g) -> "InvalidArgument"
    [] s \in ExpectedSources(g) /\ IsDuplicate(g, s, tick) -> "Ok"
    [] OTHER -> IF tick - CompletedBefore(g, s) >= Lookahead THEN "OutOfRange" ELSE "Ok"

MarkComplete(g, s, tick) ==
  IF MarkStatus(g, s, tick) # "Ok" \/ IsDuplicate(g, s, tick)
  THEN g
  ELSE [g EXCEPT !.expected[s] =
          Absorb(@.completeBefore, @.ahead \cup {tick - @.completeBefore})]

\* Mutant: a source whose frontier is the tick itself is taken to have completed it.
ReadyOneEarly(g, tick) ==
  \/ tick < g.floor
  \/ \A s \in ExpectedSources(g) : CompletedBefore(g, s) >= tick

Ready(g, tick) ==
  \/ tick < g.floor
  \/ \A s \in ExpectedSources(g) : CompletedBefore(g, s) > tick

\* tick <= ready_horizon(), with the unbounded horizon of an empty set.
WithinHorizon(g, tick) == \A s \in ExpectedSources(g) : tick <= CompletedBefore(g, s)

WaitingOn(g, tick) == {s \in ExpectedSources(g) : CompletedBefore(g, s) <= tick}

\* The caller guarantees WithinHorizon(g, tick): the code asserts it.
RetireBefore(g, tick) == [g EXCEPT !.floor = IF tick > @ THEN tick ELSE @]
==============================================================================
