--------------------------- MODULE TurnGate_proofs ---------------------------
(***************************************************************************)
(* The turn gate proved for every set of sources, every window size and    *)
(* every set of ticks: its inductive invariant, that readiness is never    *)
(* withdrawn, and that the bit window implements a set of completed turns. *)
(***************************************************************************)
EXTENDS TurnGate, OpsLemmas

USE LookaheadAssumption, MaxSourcesAssumption, TickAssumption

\* The inductive invariant.  TypeOK alone is not inductive for what it must
\* support: a mark below the floor is a duplicate only because no frontier is
\* below the floor, and the distance to the frontier is a window offset only
\* because the frontier is a natural number.
IInv == TypeOK /\ FrontierInv

\* What one accepted mark does: it touches its own source only, and adds
\* exactly its own tick to that source's completed turns.
LEMMA MarkEffect ==
  ASSUME IInv, NEW s \in Source, NEW t \in Tick,
         s \in ExpectedSources(gate), ~IsDuplicate(gate, s, t),
         MarkStatus(gate, s, t) = "Ok"
  PROVE  LET after == MarkComplete(gate, s, t)
             old == gate.expected[s]
             new == Absorb(old.completeBefore, old.ahead \cup {t - old.completeBefore})
         IN  /\ after = [gate EXCEPT !.expected = [@ EXCEPT ![s] = new]]
             /\ new \in Progress
             /\ 0 \notin new.ahead
             /\ new.completeBefore >= old.completeBefore
             /\ CompletedTicks(new) = CompletedTicks(old) \cup {t}
<1> DEFINE old == gate.expected[s]
           window == old.ahead \cup {t - old.completeBefore}
           new == Absorb(old.completeBefore, window)
<1>1. old \in Progress
  BY DEF IInv, TypeOK
<1>2. old.completeBefore \in Nat /\ old.ahead \subseteq Offset
  BY <1>1 DEF Progress
<1>3. t \in Nat
  OBVIOUS
<1>4. t - old.completeBefore \in Offset
  BY <1>2, <1>3 DEF MarkStatus, IsDuplicate, CompletedBefore, Offset
<1>5. window \in SUBSET Offset
  BY <1>2, <1>4
<1>6. MarkComplete(gate, s, t) = [gate EXCEPT !.expected = [@ EXCEPT ![s] = new]]
  BY DEF MarkComplete
<1>7. old.completeBefore + (t - old.completeBefore) = t
  BY <1>2, <1>3
<1>8. {old.completeBefore + offset : offset \in window}
        = {old.completeBefore + offset : offset \in old.ahead} \cup {t}
  BY <1>7
<1> HIDE DEF window
<1>9. /\ new \in Progress
      /\ 0 \notin new.ahead
      /\ new.completeBefore >= old.completeBefore
      /\ CompletedTicks(new) = 0 .. (old.completeBefore - 1)
                                 \cup {old.completeBefore + offset : offset \in window}
  BY <1>2, <1>5, AbsorbKeepsTurns
<1>10. CompletedTicks(new) = CompletedTicks(old) \cup {t}
  BY <1>8, <1>9 DEF CompletedTicks
<1> QED
  BY <1>6, <1>9, <1>10 DEF window

\* A mark that is refused or a duplicate changes nothing.
LEMMA MarkIdle ==
  ASSUME NEW s \in Source, NEW t \in Tick,
         \/ s \notin ExpectedSources(gate)
         \/ IsDuplicate(gate, s, t)
         \/ MarkStatus(gate, s, t) # "Ok"
  PROVE  MarkComplete(gate, s, t) = gate
BY DEF MarkComplete, MarkStatus

LEMMA ExpectKeepsIInv ==
  ASSUME IInv, NEW list \in SourceLists, Expect(list)
  PROVE  IInv'
<1> USE DEF IInv
<1>1. CASE ExpectStatus(list) # "Ok"
  <2>1. gate' = gate /\ status' \in {"OutOfRange", "InvalidArgument"}
    BY <1>1 DEF Expect, ExpectStatus
  <2> QED
    BY <2>1 DEF TypeOK, FrontierInv
<1>2. CASE ExpectStatus(list) = "Ok"
  <2> DEFINE wanted == {list[i] : i \in DOMAIN list}
  <2>1. wanted \subseteq Source
    BY DEF SourceLists
  <2> HIDE DEF wanted
  <2>2. gate' = ExpectSources(gate, wanted) /\ status' = "Ok"
    BY <1>2 DEF Expect, wanted
  <2>3. /\ ExpectedSources(gate') = wanted
        /\ gate'.floor = gate.floor
        /\ gate' = [floor |-> gate'.floor, expected |-> gate'.expected]
        /\ gate'.expected = [s \in wanted |->
             IF s \in ExpectedSources(gate) THEN gate.expected[s] ELSE Fresh(gate.floor)]
    BY <2>2 DEF ExpectSources, ExpectedSources, TypeOK
  <2>4. \A s \in wanted : gate'.expected[s] \in Progress
    BY <2>3 DEF TypeOK, Fresh, Progress
  <2>5. \A s \in wanted : /\ 0 \notin gate'.expected[s].ahead
                          /\ gate'.floor <= gate'.expected[s].completeBefore
    BY <2>3 DEF TypeOK, FrontierInv, Fresh, Progress, CompletedBefore
  <2>6. TypeOK'
    BY <2>1, <2>2, <2>3, <2>4 DEF TypeOK
  <2>7. FrontierInv'
    BY <2>3, <2>5 DEF FrontierInv, CompletedBefore
  <2> QED
    BY <2>6, <2>7
<1> QED
  BY <1>1, <1>2

LEMMA MarkKeepsIInv ==
  ASSUME IInv, NEW s \in Source, NEW t \in Tick, Mark(s, t)
  PROVE  IInv'
<1>1. status' \in {"Ok", "InvalidArgument", "OutOfRange"}
  BY DEF Mark, MarkStatus
<1>2. CASE gate' = gate
  BY <1>1, <1>2 DEF IInv, TypeOK, FrontierInv
<1>3. CASE gate' # gate
  <2> DEFINE old == gate.expected[s]
             new == Absorb(old.completeBefore, old.ahead \cup {t - old.completeBefore})
  <2>1. /\ s \in ExpectedSources(gate)
        /\ ~IsDuplicate(gate, s, t)
        /\ MarkStatus(gate, s, t) = "Ok"
    BY <1>3, MarkIdle DEF Mark
  <2>2. /\ gate' = [gate EXCEPT !.expected = [@ EXCEPT ![s] = new]]
        /\ new \in Progress
        /\ 0 \notin new.ahead
        /\ new.completeBefore >= old.completeBefore
    BY <2>1, MarkEffect DEF Mark
  <2> HIDE DEF new
  <2>3. /\ gate'.floor = gate.floor
        /\ gate'.expected = [gate.expected EXCEPT ![s] = new]
        /\ gate' = [floor |-> gate'.floor, expected |-> gate'.expected]
    BY <2>2 DEF IInv, TypeOK
  <2>4. ExpectedSources(gate') = ExpectedSources(gate)
    BY <2>3 DEF ExpectedSources
  <2>5. TypeOK'
    BY <1>1, <2>2, <2>3, <2>4 DEF IInv, TypeOK, ExpectedSources
  <2>6. FrontierInv'
    <3> SUFFICES ASSUME NEW r \in ExpectedSources(gate)
                 PROVE  /\ 0 \notin gate'.expected[r].ahead
                        /\ gate'.floor <= gate'.expected[r].completeBefore
      BY <2>4 DEF FrontierInv, CompletedBefore
    <3>1. gate.expected[r] \in Progress /\ gate.floor \in Nat
      BY DEF IInv, TypeOK
    <3>2. CASE r = s
      BY <2>2, <2>3, <3>1, <3>2 DEF IInv, TypeOK, FrontierInv, CompletedBefore, Progress, ExpectedSources
    <3>3. CASE r # s
      BY <2>3, <3>3 DEF IInv, TypeOK, FrontierInv, CompletedBefore, ExpectedSources
    <3> QED
      BY <3>2, <3>3
  <2> QED
    BY <2>5, <2>6 DEF IInv
<1> QED
  BY <1>2, <1>3

LEMMA RetireKeepsIInv ==
  ASSUME IInv, NEW t \in Tick, Retire(t)
  PROVE  IInv'
<1>1. /\ gate' = [floor |-> gate'.floor, expected |-> gate.expected]
      /\ gate'.expected = gate.expected
      /\ gate'.floor = IF t > gate.floor THEN t ELSE gate.floor
      /\ status' = status
  BY DEF IInv, TypeOK, Retire, RetireBefore
<1>2. ExpectedSources(gate') = ExpectedSources(gate)
  BY <1>1 DEF ExpectedSources
<1>3. TypeOK'
  BY <1>1, <1>2 DEF IInv, TypeOK
<1>4. FrontierInv'
  BY <1>1, <1>2 DEF IInv, TypeOK, FrontierInv, Retire, WithinHorizon, CompletedBefore
<1> QED
  BY <1>3, <1>4 DEF IInv

LEMMA InitIInv == Init => IInv
BY DEF Init, IInv, TypeOK, FrontierInv, NewGate, ExpectedSources, Progress

LEMMA NextIInv == IInv /\ [Next]_vars => IInv'
<1> SUFFICES ASSUME IInv, [Next]_vars PROVE IInv'
  OBVIOUS
<1>1. CASE \E list \in SourceLists : Expect(list)
  BY <1>1, ExpectKeepsIInv
<1>2. CASE \E s \in Source, t \in Tick : Mark(s, t)
  BY <1>2, MarkKeepsIInv
<1>3. CASE \E t \in Tick : Retire(t)
  BY <1>3, RetireKeepsIInv
<1>4. CASE UNCHANGED vars
  BY <1>4 DEF vars, IInv, TypeOK, FrontierInv
<1> QED
  BY <1>1, <1>2, <1>3, <1>4 DEF Next

\* The gate's records and windows keep their types whatever the callers ask.
THEOREM TypeCorrect == Spec => []TypeOK
<1>1. IInv => TypeOK
  BY DEF IInv
<1> QED
  BY <1>1, InitIInv, NextIInv, PTL DEF Spec

\* No window keeps an absorbed turn and no expected source is behind the floor.
THEOREM FrontierCorrect == Spec => []FrontierInv
<1>1. IInv => FrontierInv
  BY DEF IInv
<1> QED
  BY <1>1, InitIInv, NextIInv, PTL DEF Spec

------------------------------------------------------------------------------
\* In a step that admits no new source, every remaining source's frontier and
\* the floor only advance.
LEMMA FrontiersAdvance ==
  ASSUME IInv, [Next]_vars, ExpectedSources(gate)' \subseteq ExpectedSources(gate)
  PROVE  /\ gate'.floor >= gate.floor
         /\ \A s \in ExpectedSources(gate') :
              CompletedBefore(gate', s) >= CompletedBefore(gate, s)
<1>0. /\ gate.floor \in Nat
      /\ \A s \in ExpectedSources(gate) : CompletedBefore(gate, s) \in Nat
  BY DEF IInv, TypeOK, Progress, CompletedBefore
<1>1. CASE UNCHANGED gate
  BY <1>0, <1>1
<1>2. ASSUME NEW list \in SourceLists, Expect(list), ~UNCHANGED gate
      PROVE  /\ gate'.floor >= gate.floor
             /\ \A s \in ExpectedSources(gate') :
                  CompletedBefore(gate', s) >= CompletedBefore(gate, s)
  <2> DEFINE wanted == {list[i] : i \in DOMAIN list}
  <2> HIDE DEF wanted
  <2>1. gate' = ExpectSources(gate, wanted)
    BY <1>2 DEF Expect, wanted
  <2>2. /\ ExpectedSources(gate') = wanted
        /\ gate'.floor = gate.floor
        /\ \A s \in wanted : s \in ExpectedSources(gate) => gate'.expected[s] = gate.expected[s]
    BY <2>1 DEF ExpectSources, ExpectedSources, IInv, TypeOK
  <2> QED
    BY <1>0, <2>2 DEF CompletedBefore
<1>3. ASSUME NEW s \in Source, NEW t \in Tick, Mark(s, t), ~UNCHANGED gate
      PROVE  /\ gate'.floor >= gate.floor
             /\ \A r \in ExpectedSources(gate') :
                  CompletedBefore(gate', r) >= CompletedBefore(gate, r)
  <2> DEFINE old == gate.expected[s]
             new == Absorb(old.completeBefore, old.ahead \cup {t - old.completeBefore})
  <2>1. /\ s \in ExpectedSources(gate)
        /\ ~IsDuplicate(gate, s, t)
        /\ MarkStatus(gate, s, t) = "Ok"
    BY <1>3, MarkIdle DEF Mark
  <2>2. /\ gate' = [gate EXCEPT !.expected = [@ EXCEPT ![s] = new]]
        /\ new.completeBefore >= old.completeBefore
    BY <1>3, <2>1, MarkEffect DEF Mark
  <2> HIDE DEF new
  <2>3. gate'.floor = gate.floor /\ gate'.expected = [gate.expected EXCEPT ![s] = new]
    BY <2>2 DEF IInv, TypeOK
  <2> QED
    BY <1>0, <2>2, <2>3 DEF CompletedBefore, ExpectedSources
<1>4. ASSUME NEW t \in Tick, Retire(t)
      PROVE  /\ gate'.floor >= gate.floor
             /\ \A s \in ExpectedSources(gate') :
                  CompletedBefore(gate', s) >= CompletedBefore(gate, s)
  BY <1>0, <1>4 DEF Retire, RetireBefore, IInv, TypeOK, ExpectedSources, CompletedBefore
<1> QED
  BY <1>1, <1>2, <1>3, <1>4 DEF Next, vars

\* Readiness is never withdrawn while nobody joins: the kernel may check a
\* tick once and run it later.
THEOREM ReadyIsStable == Spec => ReadyStable
<1>1. IInv /\ [Next]_vars
        => [ExpectedSources(gate)' \subseteq ExpectedSources(gate)
              => \A t \in Tick : Ready(gate, t) => Ready(gate, t)']_vars
  <2> SUFFICES ASSUME IInv, [Next]_vars,
                      ExpectedSources(gate)' \subseteq ExpectedSources(gate),
                      NEW t \in Tick, Ready(gate, t)
               PROVE  Ready(gate', t)
    OBVIOUS
  <2>1. /\ gate.floor \in Nat /\ gate'.floor \in Nat
        /\ \A s \in ExpectedSources(gate) : CompletedBefore(gate, s) \in Nat
        /\ \A s \in ExpectedSources(gate') : CompletedBefore(gate', s) \in Nat
    BY NextIInv DEF IInv, TypeOK, Progress, CompletedBefore
  <2> QED
    BY <2>1, FrontiersAdvance DEF Ready
<1> QED
  BY <1>1, InitIInv, NextIInv, PTL DEF Spec, ReadyStable

------------------------------------------------------------------------------
\* The refinement: each call on the frontier-and-window representation is the
\* corresponding operation on sets of completed turns.
Completed == [s \in ExpectedSources(gate) |-> CompletedTicks(gate.expected[s])]

LEMMA ExpectImplements ==
  ASSUME IInv, NEW list \in SourceLists, Expect(list)
  PROVE  Abs!Next
<1>1. CASE ExpectStatus(list) # "Ok"
  <2>1. gate' = gate /\ status' \in {"OutOfRange", "InvalidArgument"}
    BY <1>1 DEF Expect, ExpectStatus
  <2>2. Abs!RefuseSet
    BY <2>1 DEF Abs!RefuseSet
  <2> QED
    BY <2>2 DEF Abs!Next
<1>2. CASE ExpectStatus(list) = "Ok"
  <2> DEFINE wanted == {list[i] : i \in DOMAIN list}
  <2>1. wanted \in SUBSET Source
    BY DEF SourceLists
  <2> HIDE DEF wanted
  <2>2. gate' = ExpectSources(gate, wanted) /\ status' = "Ok"
    BY <1>2 DEF Expect, wanted
  <2>3. /\ ExpectedSources(gate') = wanted
        /\ gate'.floor = gate.floor
        /\ gate'.expected = [s \in wanted |->
             IF s \in ExpectedSources(gate) THEN gate.expected[s] ELSE Fresh(gate.floor)]
    BY <2>2 DEF ExpectSources, ExpectedSources, IInv, TypeOK
  <2>4. CompletedTicks(Fresh(gate.floor)) = 0 .. (gate.floor - 1)
    BY DEF CompletedTicks, Fresh
  <2>5. Completed' = [s \in wanted |-> IF s \in DOMAIN Completed THEN Completed[s]
                                      ELSE 0 .. (gate.floor - 1)]
    BY <2>3, <2>4 DEF Completed
  <2>6. Abs!Expect(wanted)
    BY <2>2, <2>3, <2>5 DEF Abs!Expect, Completed
  <2> QED
    BY <2>1, <2>6 DEF Abs!Next
<1> QED
  BY <1>1, <1>2

LEMMA MarkImplements ==
  ASSUME IInv, NEW s \in Source, NEW t \in Tick, Mark(s, t)
  PROVE  Abs!Next
<1> DEFINE old == gate.expected[s]
<1>1. gate' = MarkComplete(gate, s, t) /\ status' = MarkStatus(gate, s, t)
  BY DEF Mark
<1>2. CASE s \notin ExpectedSources(gate)
  <2>1. gate' = gate /\ status' = "InvalidArgument"
    BY <1>1, <1>2, MarkIdle DEF MarkStatus
  <2>2. Abs!Refuse(s, t)
    BY <1>2, <2>1 DEF Abs!Refuse
  <2> QED
    BY <2>2 DEF Abs!Next
<1>3. CASE s \in ExpectedSources(gate) /\ IsDuplicate(gate, s, t)
  <2>1. gate' = gate /\ status' = "Ok"
    BY <1>1, <1>3, MarkIdle DEF MarkStatus
  <2>2. old \in Progress /\ t \in Nat /\ gate.floor \in Nat /\ gate.floor <= old.completeBefore
    BY <1>3 DEF IInv, TypeOK, FrontierInv, CompletedBefore
  <2>3. t \in CompletedTicks(old)
    BY <1>3, <2>2 DEF IsDuplicate, CompletedBefore, CompletedTicks, Progress
  <2>4. Completed' = [Completed EXCEPT ![s] = @ \cup {t}]
    BY <1>3, <2>1, <2>3 DEF Completed
  <2>5. Abs!Mark(s, t)
    BY <1>3, <2>1, <2>4 DEF Abs!Mark, Completed
  <2> QED
    BY <2>5 DEF Abs!Next
<1>4. CASE /\ s \in ExpectedSources(gate)
           /\ ~IsDuplicate(gate, s, t)
           /\ MarkStatus(gate, s, t) # "Ok"
  <2>1. gate' = gate /\ status' = "OutOfRange"
    BY <1>1, <1>4, MarkIdle DEF MarkStatus
  <2>2. old \in Progress /\ t \in Nat /\ 0 \notin old.ahead
    BY <1>4 DEF IInv, TypeOK, FrontierInv
  <2>3. t - old.completeBefore >= Lookahead
    BY <1>4 DEF MarkStatus, CompletedBefore
  <2>4. old.completeBefore \in 0 .. t /\ old.completeBefore + Lookahead <= t
    BY <2>2, <2>3 DEF Progress
  <2>5. old.completeBefore \notin CompletedTicks(old)
    BY <2>2 DEF CompletedTicks, Progress, Offset
  <2>6. Completed[s] = CompletedTicks(old)
    BY <1>4 DEF Completed
  <2>7. \E gap \in 0 .. t : gap + Lookahead <= t /\ gap \notin Completed[s]
    BY <2>4, <2>5, <2>6
  <2>8. Abs!Refuse(s, t)
    BY <1>4, <2>1, <2>7 DEF Abs!Refuse, Completed
  <2> QED
    BY <2>8 DEF Abs!Next
<1>5. CASE /\ s \in ExpectedSources(gate)
           /\ ~IsDuplicate(gate, s, t)
           /\ MarkStatus(gate, s, t) = "Ok"
  <2> DEFINE new == Absorb(old.completeBefore, old.ahead \cup {t - old.completeBefore})
  <2>1. /\ gate' = [gate EXCEPT !.expected = [@ EXCEPT ![s] = new]]
        /\ CompletedTicks(new) = CompletedTicks(old) \cup {t}
    BY <1>1, <1>5, MarkEffect
  <2> HIDE DEF new
  <2>2. gate'.floor = gate.floor /\ gate'.expected = [gate.expected EXCEPT ![s] = new]
    BY <2>1 DEF IInv, TypeOK
  <2>3. Completed' = [Completed EXCEPT ![s] = @ \cup {t}]
    <3>1. /\ ExpectedSources(gate') = ExpectedSources(gate)
          /\ \A r \in ExpectedSources(gate) :
               gate'.expected[r] = IF r = s THEN new ELSE gate.expected[r]
      BY <2>2 DEF ExpectedSources
    <3>2. \A r \in ExpectedSources(gate) :
            CompletedTicks(gate'.expected[r])
              = IF r = s THEN CompletedTicks(old) \cup {t} ELSE CompletedTicks(gate.expected[r])
      BY <2>1, <3>1
    <3> QED
      BY <1>5, <3>1, <3>2 DEF Completed
  <2>4. Abs!Mark(s, t)
    BY <1>1, <1>5, <2>2, <2>3 DEF Abs!Mark, Completed
  <2> QED
    BY <2>4 DEF Abs!Next
<1> QED
  BY <1>2, <1>3, <1>4, <1>5

LEMMA RetireImplements ==
  ASSUME IInv, NEW t \in Tick, Retire(t)
  PROVE  Abs!Next
<1>1. /\ gate'.expected = gate.expected
      /\ gate'.floor = IF t > gate.floor THEN t ELSE gate.floor
      /\ status' = status
  BY DEF IInv, TypeOK, Retire, RetireBefore
<1>2. Completed' = Completed
  BY <1>1 DEF Completed, ExpectedSources
<1>3. ASSUME NEW s \in ExpectedSources(gate)
      PROVE  0 .. (t - 1) \subseteq CompletedTicks(gate.expected[s])
  BY DEF IInv, TypeOK, Retire, WithinHorizon, CompletedBefore, CompletedTicks, Progress
<1>4. Abs!Retire(t)
  BY <1>1, <1>2, <1>3 DEF Abs!Retire, Completed
<1> QED
  BY <1>4 DEF Abs!Next

\* The gate, with its frontiers and bounded bit windows, behaves as a set of
\* completed turns per source, so arrival order never shows in its answers.
THEOREM GateImplementsAbs == Spec => ImplementsAbs
<1>1. Init => Abs!Init
  BY DEF Init, NewGate, Abs!Init, ExpectedSources
<1>2. IInv /\ [Next]_vars => [Abs!Next]_Abs!vars
  <2> SUFFICES ASSUME IInv, [Next]_vars PROVE [Abs!Next]_Abs!vars
    OBVIOUS
  <2>1. CASE UNCHANGED vars
    BY <2>1 DEF vars, Abs!vars
  <2> QED
    BY <2>1, ExpectImplements, MarkImplements, RetireImplements DEF Next
<1> QED
  BY <1>1, <1>2, InitIInv, NextIInv, PTL DEF Spec, ImplementsAbs, Abs!Spec
==============================================================================
