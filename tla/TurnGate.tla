------------------------------ MODULE TurnGate ------------------------------
(***************************************************************************)
(* The turn gate as a state machine: any sequence of the calls a session   *)
(* and a kernel make on one atlas::sim::TurnGate, with any arguments.      *)
(***************************************************************************)
EXTENDS GateOps

CONSTANTS Source,   \* identifiers a caller may name
          Tick      \* ticks a caller may name (bounds the model)

ASSUME TickAssumption == Tick \subseteq Nat

VARIABLES gate, status

vars == <<gate, status>>

\* Lists a caller may hand to expect_sources: every set in some order, and repetitions.
SourceLists == UNION {[1 .. n -> Source] : n \in 0 .. (MaxSources + 1)}

Init == gate = NewGate /\ status = "Ok"

Expect(list) ==
  /\ status' = ExpectStatus(list)
  /\ gate' = IF status' = "Ok"
             THEN ExpectSources(gate, {list[i] : i \in DOMAIN list})
             ELSE gate

Mark(s, t) ==
  /\ status' = MarkStatus(gate, s, t)
  /\ gate' = MarkComplete(gate, s, t)

Retire(t) ==
  /\ WithinHorizon(gate, t)
  /\ gate' = RetireBefore(gate, t)
  /\ UNCHANGED status

Next ==
  \/ \E list \in SourceLists : Expect(list)
  \/ \E s \in Source, t \in Tick : Mark(s, t)
  \/ \E t \in Tick : Retire(t)

Spec == Init /\ [][Next]_vars

------------------------------------------------------------------------------
\* The gate holds a floor and, for some of the sources, a frontier and a window
\* of Lookahead bits (turn_gate.hpp, struct Source).
TypeOK ==
  /\ gate = [floor |-> gate.floor, expected |-> gate.expected]
  /\ gate.floor \in Nat
  /\ ExpectedSources(gate) \subseteq Source
  /\ gate.expected \in [ExpectedSources(gate) -> Progress]
  /\ status \in {"Ok", "InvalidArgument", "OutOfRange"}

\* Bit 0 of every window is clear - a completed turn is always absorbed into
\* the frontier - and no expected source is behind a tick that has already run:
\* neither marks out of order, nor a source joining late, nor retiring breaks it.
FrontierInv ==
  \A s \in ExpectedSources(gate) :
    /\ 0 \notin gate.expected[s].ahead
    /\ gate.floor <= CompletedBefore(gate, s)

\* Readiness is never withdrawn by a mark, a retransmission, a refused call or a
\* peer leaving: a ready tick stays ready unless a source joins the set.
ReadyStable ==
  [][ExpectedSources(gate)' \subseteq ExpectedSources(gate)
       => \A t \in Tick : Ready(gate, t) => Ready(gate, t)']_vars

Abs == INSTANCE TurnGateAbs WITH
         completed <- [s \in ExpectedSources(gate) |-> CompletedTicks(gate.expected[s])],
         floor <- gate.floor

\* The gate implements the set of completed turns: marks 9, 7, 8 leave it as
\* marks 7, 8, 9 do, a duplicate changes nothing, and a mark adds only itself.
ImplementsAbs == Abs!Spec
==============================================================================
