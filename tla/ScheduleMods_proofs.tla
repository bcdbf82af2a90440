------------------------ MODULE ScheduleMods_proofs ------------------------
(***************************************************************************)
(* What happens within a tick and before it: the systems of the schedule,  *)
(* and the mods.                                                           *)
(*                                                                         *)
(* The schedule, for any declarations, tables and ticks: the systems       *)
(* of a batch never touch what another of them writes, and a tick is what  *)
(* the declarations say however its systems interleave.                    *)
(*                                                                         *)
(* Batches are grown one system at a time; what holds of them after every  *)
(* system (GroupedIsAChain) is that they are free of conflicts and that    *)
(* every system so far is in one.  Nobody commits before all have          *)
(* computed, so whatever has been computed in this tick is what the world  *)
(* as the tick found it gives, and at the commits nothing is missing.      *)
(*                                                                         *)
(* The mods: two peers are rarely at the same step, so what they agree on  *)
(* is the way.  From where every peer begins there is one way on from each *)
(* side it comes to (Onward), given what the module is known to do; the    *)
(* sides taken so far by whoever is furthest are a trail (Trail), and      *)
(* every peer that runs is somewhere on it (Together).  A trail comes to   *)
(* rest once in a tick, so peers that rest in the same tick are the same.  *)
(***************************************************************************)
EXTENDS Schedule, Mods, FiniteSetTheorems, WellFoundedInduction, TLAPS

\* What the batches promise once n systems have been grouped.
Independent(done) ==
  \A b \in DOMAIN done : \A i, j \in done[b] : i # j => ~Conflicts(systems[i], systems[j])
Covered(done, n) == \A i \in 1 .. n : \E b \in DOMAIN done : i \in done[b]

Typed ==
  /\ systems \in Seq(Descs)
  /\ batches \in Seq(SUBSET (DOMAIN systems))
  /\ at = Idle \/ at \in 1 .. (Len(batches) + 1)

Grouping ==
  /\ Independent(batches)
  /\ finalised => Covered(batches, Len(systems))

\* System i has computed, and from the tables as they are until the commits.
Done(i) == scratch[i] = Token(i, table)

\* During a tick every batch before this one has computed, and of this one
\* those that are not computing.
Ticking ==
  at # Idle =>
    /\ finalised
    /\ scratch = [i \in DOMAIN systems |-> scratch[i]]
    /\ expected = Committed(table, Held(table))
    /\ \A i \in DOMAIN systems : scratch[i] = <<>> \/ (systems[i].computes /\ Done(i))
    /\ \A b \in 1 .. (at - 1) : \A i \in batches[b] : systems[i].computes => Done(i)

Computing ==
  computing # {} =>
    /\ at # Idle /\ at \in DOMAIN batches
    /\ computing \subseteq batches[at]
    /\ \A i \in batches[at] : systems[i].computes => i \in computing \/ Done(i)
    /\ \A i \in computing : systems[i].computes

IInv == Typed /\ Grouping /\ Ticking /\ Computing /\ (at = Idle => table = expected)

------------------------------------------------------------------------------
\* A nonempty set of naturals has a least element: what an induction on naturals
\* rests on here.
LEMMA LeastElement ==
  ASSUME NEW S \in SUBSET Nat, S # {}
  PROVE  \E n \in S : \A m \in S : n <= m
<1> DEFINE R == OpToRel(<, Nat)
<1>1. IsWellFoundedOn(R, Nat)
  BY NatLessThanWellFounded
<1> HIDE DEF R
<1>2. PICK n \in S : \A m \in S : ~ (<<m, n>> \in R)
  BY <1>1, WFMin
<1>3. \A m \in S : ~ (m < n)
  BY <1>2 DEF R, OpToRel
<1> QED
  BY <1>3

\* The recursive definition of the groups is of a function that exists.
LEMMA GroupedIsAChain ==
  ASSUME NEW n \in Nat, Len(systems) = n
  PROVE  /\ Grouped[0] = <<>>
         /\ \A i \in 1 .. n : Grouped[i] = Joined(Grouped[i - 1], i)
<1> DEFINE chain(g, m) == g = [i \in 0 .. m |-> IF i = 0 THEN <<>> ELSE Joined(g[i - 1], i)]
           missing == {m \in 0 .. n : ~ \E g : chain(g, m)}
<1>1. missing = {}
  <2> SUFFICES ASSUME missing # {} PROVE FALSE
    OBVIOUS
  <2>1. PICK m \in missing : \A j \in missing : m <= j
    <3>1. missing \in SUBSET Nat
      OBVIOUS
    <3> HIDE DEF missing
    <3> QED
      BY <3>1, LeastElement
  <2>2. m \in 0 .. n /\ ~ \E g : chain(g, m)
    OBVIOUS
  <2>3. CASE m = 0
    <3> DEFINE g == [i \in 0 .. 0 |-> <<>>]
    <3>1. chain(g, 0)
      OBVIOUS
    <3> QED
      BY <2>2, <2>3, <3>1
  <2>4. CASE m # 0
    <3>1. m - 1 \in 0 .. n /\ m - 1 \notin missing
      BY <2>1, <2>2, <2>4
    <3>2. PICK g : chain(g, m - 1)
      BY <3>1
    <3> DEFINE h == [i \in 0 .. m |-> IF i < m THEN g[i] ELSE Joined(g[m - 1], m)]
    <3>3. ASSUME NEW i \in 0 .. m
          PROVE  h[i] = IF i = 0 THEN <<>> ELSE Joined(h[i - 1], i)
      <4>1. CASE i = m
        BY <2>2, <2>4, <4>1
      <4>2. CASE i # m
        <5>1. i \in 0 .. (m - 1) /\ h[i] = g[i] /\ (i # 0 => h[i - 1] = g[i - 1])
          BY <2>2, <4>2
        <5>2. g[i] = IF i = 0 THEN <<>> ELSE Joined(g[i - 1], i)
          BY <3>2, <5>1
        <5> QED
          BY <5>1, <5>2
      <4> QED
        BY <4>1, <4>2
    <3>4. h = [i \in 0 .. m |-> h[i]]
      OBVIOUS
    <3> HIDE DEF h
    <3>5. chain(h, m)
      BY <3>3, <3>4
    <3> QED
      BY <2>2, <3>5
  <2> QED
    BY <2>3, <2>4
<1>2. \E g : chain(g, n)
  BY <1>1
<1>3. Grouped = CHOOSE g : chain(g, n)
  BY DEF Grouped
<1>4. chain(Grouped, n)
  BY <1>2, <1>3
<1> QED
  BY <1>4

\* One system more keeps the batches free of conflicts and leaves none out.
LEMMA JoinedKeepsGrouping ==
  ASSUME systems \in Seq(Descs), NEW i \in DOMAIN systems,
         NEW done \in Seq(SUBSET (1 .. (i - 1))), Independent(done), Covered(done, i - 1)
  PROVE  /\ Joined(done, i) \in Seq(SUBSET (1 .. i))
         /\ Independent(Joined(done, i)) /\ Covered(Joined(done, i), i)
<1> DEFINE last == Len(done)
           fits == last > 0 /\ \A member \in done[last] : ~Conflicts(systems[member], systems[i])
<1>1. i \in Nat /\ i > 0 /\ i \in 1 .. i /\ 1 .. (i - 1) \subseteq 1 .. i
  OBVIOUS
<1>2. last \in Nat /\ DOMAIN done = 1 .. last /\ \A b \in 1 .. last : done[b] \subseteq 1 .. (i - 1)
  OBVIOUS
<1>3. \A a, b : Conflicts(a, b) <=> Conflicts(b, a)
  BY DEF Conflicts, Intersects
<1>4. CASE fits
  <2> DEFINE next == [done EXCEPT ![last] = done[last] \cup {i}]
  <2>1. Joined(done, i) = next
    BY <1>4 DEF Joined
  <2>2. last \in 1 .. last /\ DOMAIN next = 1 .. last /\ next[last] = done[last] \cup {i}
    BY <1>2, <1>4
  <2>3. \A b \in 1 .. last : b # last => next[b] = done[b]
    BY <1>2
  <2>4. next \in Seq(SUBSET (1 .. i))
    <3>1. \A b \in 1 .. last : next[b] \in SUBSET (1 .. i)
      BY <1>1, <1>2, <2>2, <2>3
    <3>2. next = [b \in 1 .. last |-> next[b]]
      BY <1>2
    <3> HIDE DEF next, last
    <3>3. next \in [1 .. last -> SUBSET (1 .. i)]
      BY <3>1, <3>2
    <3> QED
      BY <1>2, <3>3
  <2> HIDE DEF next
  <2>5. Independent(next)
    <3> SUFFICES ASSUME NEW b \in 1 .. last, NEW k \in next[b], NEW l \in next[b], k # l
                 PROVE  ~Conflicts(systems[k], systems[l])
      BY <2>2 DEF Independent
    <3>1. CASE k \in done[b] /\ l \in done[b]
      BY <1>2, <3>1 DEF Independent
    <3>2. CASE b = last /\ (k = i \/ l = i)
      BY <1>3, <1>4, <2>2, <3>2
    <3> QED
      BY <2>2, <2>3, <3>1, <3>2
  <2>6. Covered(next, i)
    <3> SUFFICES ASSUME NEW k \in 1 .. i PROVE \E b \in 1 .. last : k \in next[b]
      BY <2>2 DEF Covered
    <3>1. CASE k = i
      BY <2>2, <3>1
    <3>2. CASE k # i
      <4>1. k \in 1 .. (i - 1)
        BY <1>1, <3>2
      <4>2. PICK b \in 1 .. last : k \in done[b]
        BY <1>2, <4>1 DEF Covered
      <4> QED
        BY <2>2, <2>3, <4>2
    <3> QED
      BY <3>1, <3>2
  <2> QED
    BY <2>1, <2>4, <2>5, <2>6
<1>5. CASE ~ fits
  <2> DEFINE next == Append(done, {i})
  <2>1. Joined(done, i) = next
    BY <1>5 DEF Joined
  <2>2. DOMAIN next = 1 .. (last + 1) /\ next[last + 1] = {i} /\ last + 1 \in 1 .. (last + 1)
    BY <1>2
  <2>3. \A b \in 1 .. last : next[b] = done[b] /\ b \in 1 .. (last + 1)
    BY <1>2
  <2>4. next \in Seq(SUBSET (1 .. i))
    <3>1. done \in Seq(SUBSET (1 .. i))
      BY <1>1
    <3>2. {i} \in SUBSET (1 .. i)
      BY <1>1
    <3> QED
      BY <3>1, <3>2
  <2> HIDE DEF next
  <2>5. Independent(next)
    <3> SUFFICES ASSUME NEW b \in 1 .. (last + 1), NEW k \in next[b], NEW l \in next[b], k # l
                 PROVE  ~Conflicts(systems[k], systems[l])
      BY <2>2 DEF Independent
    <3>1. b \in 1 .. last
      BY <1>2, <2>2
    <3> QED
      BY <1>2, <2>3, <3>1 DEF Independent
  <2>6. Covered(next, i)
    <3> SUFFICES ASSUME NEW k \in 1 .. i PROVE \E b \in 1 .. (last + 1) : k \in next[b]
      BY <2>2 DEF Covered
    <3>1. CASE k = i
      BY <2>2, <3>1
    <3>2. CASE k # i
      <4>1. k \in 1 .. (i - 1)
        BY <1>1, <3>2
      <4>2. PICK b \in 1 .. last : k \in done[b]
        BY <1>2, <4>1 DEF Covered
      <4> QED
        BY <2>3, <4>2
    <3> QED
      BY <3>1, <3>2
  <2> QED
    BY <2>1, <2>4, <2>5, <2>6
<1> QED
  BY <1>4, <1>5

\* finalise puts every system into a batch, and none beside one it conflicts with.
LEMMA GroupedIsSound ==
  ASSUME systems \in Seq(Descs)
  PROVE  /\ Grouped[Len(systems)] \in Seq(SUBSET (DOMAIN systems))
         /\ Independent(Grouped[Len(systems)])
         /\ Covered(Grouped[Len(systems)], Len(systems))
<1> DEFINE n == Len(systems)
           sound(i) == /\ Grouped[i] \in Seq(SUBSET (1 .. i))
                       /\ Independent(Grouped[i]) /\ Covered(Grouped[i], i)
           bad == {i \in 0 .. n : ~ sound(i)}
<1>1. n \in Nat /\ DOMAIN systems = 1 .. n
  OBVIOUS
<1>2. Grouped[0] = <<>> /\ \A i \in 1 .. n : Grouped[i] = Joined(Grouped[i - 1], i)
  BY <1>1, GroupedIsAChain
<1>3. bad = {}
  <2> SUFFICES ASSUME bad # {} PROVE FALSE
    OBVIOUS
  <2>1. PICK m \in bad : \A j \in bad : m <= j
    <3>1. bad \in SUBSET Nat
      BY <1>1
    <3> HIDE DEF bad
    <3> QED
      BY <3>1, LeastElement
  <2>2. m \in 0 .. n /\ ~ sound(m)
    OBVIOUS
  <2>3. CASE m = 0
    <3>1. <<>> \in Seq(SUBSET (1 .. 0)) /\ DOMAIN <<>> = {} /\ 1 .. 0 = {}
      OBVIOUS
    <3>2. sound(0)
      BY <1>2, <3>1 DEF Independent, Covered
    <3> QED
      BY <2>2, <2>3, <3>2
  <2>4. CASE m # 0
    <3>1. m \in 1 .. n /\ m - 1 \in 0 .. n /\ ~ (m <= m - 1)
      BY <1>1, <2>2, <2>4
    <3>2. sound(m - 1)
      BY <2>1, <3>1
    <3>3. sound(m)
      BY <1>1, <1>2, <3>1, <3>2, JoinedKeepsGrouping
    <3> QED
      BY <2>2, <3>3
  <2> QED
    BY <2>3, <2>4
<1>4. n \in 0 .. n
  BY <1>1
<1>5. sound(n)
  BY <1>3, <1>4
<1> QED
  BY <1>1, <1>5

------------------------------------------------------------------------------
LEMMA InitIInv == ScheduleInit => IInv
<1> SUFFICES ASSUME ScheduleInit PROVE IInv
  OBVIOUS
<1>1. /\ systems = <<>> /\ batches = <<>> /\ finalised = FALSE /\ computing = {}
      /\ at = Idle /\ table = expected
  BY DEF ScheduleInit
<1>2. Typed
  <2>1. \A S : <<>> \in Seq(S)
    OBVIOUS
  <2> QED
    BY <1>1, <2>1 DEF Typed
<1>3. Grouping
  BY <1>1 DEF Grouping, Independent
<1> QED
  BY <1>1, <1>2, <1>3 DEF IInv, Ticking, Computing

\* Between ticks the schedule may be added to, and grouped anew.
LEMMA AddKeepsIInv ==
  ASSUME IInv, NEW desc \in Descs, Add(desc)
  PROVE  IInv'
<1>1. /\ at = Idle /\ at' = Idle /\ systems' = Append(systems, desc)
      /\ finalised' = FALSE /\ batches' = <<>>
      /\ table' = table /\ expected' = expected /\ computing' = computing
  BY DEF Add
<1>2. computing = {} /\ table = expected /\ systems \in Seq(Descs)
  BY <1>1 DEF IInv, Computing, Typed
<1>3. Typed'
  <2>1. \A S : <<>> \in Seq(S)
    OBVIOUS
  <2> QED
    BY <1>1, <1>2, <2>1 DEF Typed
<1>4. Grouping'
  BY <1>1 DEF Grouping, Independent
<1> QED
  BY <1>1, <1>2, <1>3, <1>4 DEF IInv, Ticking, Computing

LEMMA FinaliseKeepsIInv ==
  ASSUME IInv, FinaliseSchedule
  PROVE  IInv'
<1>1. /\ at = Idle /\ at' = Idle /\ systems' = systems
      /\ finalised' = TRUE /\ batches' = Grouped[Len(systems)]
      /\ table' = table /\ expected' = expected /\ computing' = computing
  BY DEF FinaliseSchedule
<1>2. computing = {} /\ table = expected /\ systems \in Seq(Descs)
  BY <1>1 DEF IInv, Computing, Typed
<1>3. /\ batches' \in Seq(SUBSET (DOMAIN systems))
      /\ Independent(batches') /\ Covered(batches', Len(systems))
  BY <1>1, <1>2, GroupedIsSound
<1>4. Typed'
  BY <1>1, <1>2, <1>3 DEF Typed
<1>5. Grouping'
  BY <1>1, <1>3 DEF Grouping, Independent, Covered
<1> QED
  BY <1>1, <1>2, <1>4, <1>5 DEF IInv, Ticking, Computing

\* Where the declarations and the batches stand still, so does what they promise.
LEMMA StillKeepsGrouping ==
  ASSUME IInv, UNCHANGED <<systems, batches, finalised>>
  PROVE  Grouping'
BY DEF IInv, Grouping, Independent, Covered

LEMMA BeginTickKeepsIInv ==
  ASSUME IInv, BeginTick
  PROVE  IInv'
<1>1. /\ at = Idle /\ finalised /\ at' = 1
      /\ scratch' = [i \in DOMAIN systems |-> <<>>]
      /\ expected' = Committed(table, Held(table))
      /\ systems' = systems /\ batches' = batches /\ finalised' = finalised
      /\ table' = table /\ computing' = computing
  BY DEF BeginTick
<1>2. /\ computing = {} /\ systems \in Seq(Descs)
      /\ batches \in Seq(SUBSET (DOMAIN systems)) /\ Len(batches) \in Nat
  BY <1>1 DEF IInv, Computing, Typed
<1>3. 1 # Idle /\ 1 \in 1 .. (Len(batches) + 1)
  BY <1>2, IdleAssumption
<1>4. Typed'
  BY <1>1, <1>2, <1>3 DEF Typed
<1>5. Ticking'
  <2>1. (Committed(table, Held(table)))' = Committed(table, Held(table))
    BY <1>1 DEF Committed, Held, Token
  <2>2. scratch' = [i \in DOMAIN systems |-> scratch'[i]]
    BY <1>1
  <2>3. \A b \in 1 .. (1 - 1) : FALSE
    OBVIOUS
  <2> QED
    BY <1>1, <2>1, <2>2, <2>3 DEF Ticking
<1>6. Computing' /\ (at = Idle => table = expected)'
  BY <1>1, <1>2, <1>3 DEF Computing
<1> QED
  BY <1>1, <1>4, <1>5, <1>6, StillKeepsGrouping DEF IInv

LEMMA DispatchKeepsIInv ==
  ASSUME IInv, Dispatch
  PROVE  IInv'
<1>1. /\ at # Idle /\ at \in DOMAIN batches
      /\ computing' = {i \in batches[at] : systems[i].computes}
      /\ at' = IF computing' = {} THEN at + 1 ELSE at
      /\ systems' = systems /\ batches' = batches /\ finalised' = finalised
      /\ table' = table /\ scratch' = scratch /\ expected' = expected
  BY DEF Dispatch
<1>2. /\ systems \in Seq(Descs) /\ batches \in Seq(SUBSET (DOMAIN systems))
      /\ Len(batches) \in Nat /\ at \in 1 .. Len(batches)
  BY <1>1 DEF IInv, Typed
<1>3. at' # Idle /\ at' \in 1 .. (Len(batches) + 1)
  BY <1>1, <1>2, IdleAssumption
<1>4. Typed'
  BY <1>1, <1>2, <1>3 DEF Typed
<1>5. Ticking'
  <2>1. (Committed(table, Held(table)))' = Committed(table, Held(table))
    BY <1>1 DEF Committed, Held, Token
  <2>2. \A i : Done(i)' <=> Done(i)
    BY <1>1 DEF Done, Token
  <2>3. \A b \in 1 .. (at' - 1) : \A i \in batches[b] : systems[i].computes => Done(i)
    <3> SUFFICES ASSUME NEW b \in 1 .. (at' - 1), NEW i \in batches[b], systems[i].computes
                 PROVE  Done(i)
      OBVIOUS
    <3>1. CASE b = at
      BY <1>1, <1>2, <3>1
    <3>2. CASE b # at
      <4>1. b \in 1 .. (at - 1)
        BY <1>1, <1>2, <3>2
      <4> QED
        BY <1>1, <4>1 DEF IInv, Ticking
    <3> QED
      BY <3>1, <3>2
  <2>4. /\ finalised /\ scratch = [i \in DOMAIN systems |-> scratch[i]]
        /\ expected = Committed(table, Held(table))
        /\ \A i \in DOMAIN systems : scratch[i] = <<>> \/ (systems[i].computes /\ Done(i))
    BY <1>1 DEF IInv, Ticking
  <2> QED
    BY <1>1, <2>1, <2>2, <2>3, <2>4 DEF Ticking
<1>6. Computing'
  BY <1>1, <1>2, <1>3 DEF Computing
<1> QED
  BY <1>1, <1>3, <1>4, <1>5, <1>6, StillKeepsGrouping DEF IInv

\* A system computes from tables that nobody has touched since the tick began.
LEMMA ComputeKeepsIInv ==
  ASSUME IInv, NEW i \in computing, Compute(i)
  PROVE  IInv'
<1>1. /\ scratch' = [scratch EXCEPT ![i] = Token(i, table)]
      /\ computing' = computing \ {i}
      /\ at' = IF computing' = {} THEN at + 1 ELSE at
      /\ systems' = systems /\ batches' = batches /\ finalised' = finalised
      /\ table' = table /\ expected' = expected
  BY DEF Compute
<1>2. /\ at # Idle /\ at \in DOMAIN batches /\ computing \subseteq batches[at]
      /\ \A j \in batches[at] : systems[j].computes => j \in computing \/ Done(j)
      /\ \A j \in computing : systems[j].computes
  BY DEF IInv, Computing
<1>3. /\ systems \in Seq(Descs) /\ batches \in Seq(SUBSET (DOMAIN systems))
      /\ Len(batches) \in Nat /\ at \in 1 .. Len(batches) /\ i \in DOMAIN systems
  BY <1>2 DEF IInv, Typed
<1>4. /\ finalised /\ scratch = [j \in DOMAIN systems |-> scratch[j]]
      /\ expected = Committed(table, Held(table))
      /\ \A j \in DOMAIN systems : scratch[j] = <<>> \/ (systems[j].computes /\ Done(j))
      /\ \A b \in 1 .. (at - 1) : \A j \in batches[b] : systems[j].computes => Done(j)
  BY <1>2 DEF IInv, Ticking
<1>5. at' # Idle /\ at' \in 1 .. (Len(batches) + 1)
  BY <1>1, <1>2, <1>3, IdleAssumption
<1>6. Typed'
  BY <1>1, <1>3, <1>5 DEF Typed
<1>7. /\ scratch' = [j \in DOMAIN systems |-> scratch'[j]]
      /\ \A j \in DOMAIN systems : scratch'[j] = IF j = i THEN Token(i, table) ELSE scratch[j]
  <2>1. DOMAIN scratch = DOMAIN systems
    BY <1>4, Zenon
  <2> QED
    BY <1>1, <1>3, <2>1
<1>8. /\ \A j \in DOMAIN systems : Done(j)' <=> (j = i \/ Done(j))
      /\ \A j \in DOMAIN systems : scratch'[j] = <<>> \/ (systems[j].computes /\ Done(j)')
  <2>1. \A j : Token(j, table)' = Token(j, table)
    BY <1>1 DEF Token
  <2> QED
    BY <1>2, <1>4, <1>7, <2>1 DEF Done
<1>9. Ticking'
  <2>1. (Committed(table, Held(table)))' = Committed(table, Held(table))
    BY <1>1 DEF Committed, Held, Token
  <2>2. ASSUME NEW b \in 1 .. (at' - 1), NEW j \in batches[b], systems[j].computes
        PROVE  Done(j)'
    <3>1. b \in DOMAIN batches /\ j \in DOMAIN systems
      BY <1>1, <1>3
    <3>2. CASE b = at
      <4>1. computing' = {}
        BY <1>1, <1>3, <3>2
      <4> QED
        BY <1>1, <1>2, <1>8, <2>2, <3>1, <3>2, <4>1
    <3>3. CASE b # at
      <4>1. b \in 1 .. (at - 1)
        BY <1>1, <1>3, <3>3
      <4> QED
        BY <1>4, <1>8, <2>2, <3>1, <4>1
    <3> QED
      BY <3>2, <3>3
  <2> QED
    BY <1>1, <1>4, <1>7, <1>8, <2>1, <2>2 DEF Ticking
<1>10. Computing'
  <2> SUFFICES ASSUME computing' # {} PROVE Computing'
    BY DEF Computing
  <2>1. at' = at
    BY <1>1
  <2>2. \A j \in batches[at] : systems[j].computes => j \in computing' \/ Done(j)'
    <3> SUFFICES ASSUME NEW j \in batches[at], systems[j].computes
                 PROVE  j \in computing' \/ Done(j)'
      OBVIOUS
    <3>1. j \in DOMAIN systems
      BY <1>3
    <3> QED
      BY <1>1, <1>2, <1>8, <3>1
  <2> QED
    BY <1>1, <1>2, <2>1, <2>2 DEF Computing
<1> QED
  BY <1>1, <1>5, <1>6, <1>9, <1>10, StillKeepsGrouping DEF IInv

\* At the commits nothing is missing: what is held is what the tables gave.
LEMMA CommitKeepsIInv ==
  ASSUME IInv, Commit
  PROVE  IInv'
<1>1. /\ at # Idle /\ at > Len(batches) /\ at' = Idle
      /\ table' = Committed(table, scratch)
      /\ systems' = systems /\ batches' = batches /\ finalised' = finalised
      /\ computing' = computing /\ expected' = expected
  BY DEF Commit
<1>2. /\ systems \in Seq(Descs) /\ batches \in Seq(SUBSET (DOMAIN systems))
      /\ Len(batches) \in Nat /\ at = Len(batches) + 1
      /\ Len(systems) \in Nat /\ DOMAIN systems = 1 .. Len(systems)
  BY <1>1 DEF IInv, Typed
<1>3. computing = {}
  BY <1>1, <1>2 DEF IInv, Computing
<1>4. scratch = Held(table)
  <2>1. /\ scratch = [j \in DOMAIN systems |-> scratch[j]]
        /\ Covered(batches, Len(systems))
    BY <1>1 DEF IInv, Ticking, Grouping
  <2>2. ASSUME NEW i \in DOMAIN systems
        PROVE  scratch[i] = IF systems[i].computes THEN Token(i, table) ELSE <<>>
    <3>1. PICK b \in DOMAIN batches : i \in batches[b]
      BY <1>2, <2>1 DEF Covered
    <3>2. b \in 1 .. (at - 1)
      BY <1>2, <3>1
    <3>3. CASE systems[i].computes
      BY <1>1, <3>1, <3>2, <3>3 DEF IInv, Ticking, Done
    <3>4. CASE ~ systems[i].computes
      BY <1>1, <3>4 DEF IInv, Ticking
    <3> QED
      BY <3>3, <3>4
  <2>3. Held(table) = [i \in DOMAIN systems |-> scratch[i]]
    BY <2>2 DEF Held
  <2> QED
    BY <2>1, <2>3, Zenon
<1>5. table' = expected'
  BY <1>1, <1>4 DEF IInv, Ticking
<1>6. Typed'
  BY <1>1, <1>2 DEF Typed
<1> QED
  BY <1>1, <1>3, <1>5, <1>6, StillKeepsGrouping DEF IInv, Ticking, Computing

LEMMA NextKeepsIInv == IInv /\ [ScheduleNext]_scheduleVars => IInv'
<1> SUFFICES ASSUME IInv, [ScheduleNext]_scheduleVars PROVE IInv'
  OBVIOUS
<1>1. CASE UNCHANGED scheduleVars
  <2>1. UNCHANGED <<systems, batches, finalised, table, scratch, computing, at, expected>>
    BY <1>1 DEF scheduleVars
  <2>2. Typed' /\ Computing' /\ (at = Idle => table = expected)'
    BY <2>1 DEF IInv, Typed, Computing, Done, Token
  <2>3. Ticking'
    <3>1. \A i : Done(i)' <=> Done(i)
      BY <2>1 DEF Done, Token
    <3>2. (Committed(table, Held(table)))' = Committed(table, Held(table))
      BY <2>1 DEF Committed, Held, Token
    <3> QED
      BY <2>1, <3>1, <3>2 DEF IInv, Ticking
  <2> QED
    BY <2>1, <2>2, <2>3, StillKeepsGrouping DEF IInv
<1>2. ASSUME NEW desc \in Descs, Add(desc) PROVE IInv'
  BY <1>2, AddKeepsIInv
<1>3. CASE FinaliseSchedule
  BY <1>3, FinaliseKeepsIInv
<1>4. CASE BeginTick
  BY <1>4, BeginTickKeepsIInv
<1>5. CASE Dispatch
  BY <1>5, DispatchKeepsIInv
<1>6. CASE Commit
  BY <1>6, CommitKeepsIInv
<1>7. ASSUME NEW i \in computing, Compute(i) PROVE IInv'
  BY <1>7, ComputeKeepsIInv
<1> QED
  BY <1>1, <1>2, <1>3, <1>4, <1>5, <1>6, <1>7 DEF ScheduleNext

\* Any declarations, grouped and stepped in any interleaving: no system ever
\* computes beside one that writes what it touches, and every tick leaves the
\* tables as if its systems had run one after another (finalise, Kernel::step).
THEOREM TicksAreAsDeclared == ScheduleSpec => []TicksAsDeclared
<1>1. IInv => TicksAsDeclared
  <2> SUFFICES ASSUME IInv PROVE TicksAsDeclared
    OBVIOUS
  <2>1. ASSUME NEW i \in computing, NEW j \in computing, i # j
        PROVE  ~Intersects(systems[i].writes, systems[j].writes \cup systems[j].reads)
    <3>1. at \in DOMAIN batches /\ i \in batches[at] /\ j \in batches[at]
      BY DEF IInv, Computing
    <3>2. ~Conflicts(systems[i], systems[j])
      BY <2>1, <3>1 DEF IInv, Grouping, Independent
    <3> QED
      BY <3>2 DEF Conflicts, Intersects
  <2> QED
    BY <2>1 DEF TicksAsDeclared, IInv
<1>2. IInv /\ [ScheduleNext]_scheduleVars => IInv'
  BY NextKeepsIInv
<1> QED
  BY <1>1, <1>2, InitIInv, PTL DEF ScheduleSpec

------------------------------------------------------------------------------
(* Mods.                                                                   *)

\* Every instance can hold all a module may have, one at a time growing.
Ample == Cardinality(ModPeer) * MaxPages + MaxPages - 1 <= ModBudget

\* What one peer is at: its simulation, its mod, and its call if it is in one.
NoCall == [export |-> "none", orders |-> 0, commands |-> 0, messages |-> 0, draws |-> 0]
Local(c) == [export |-> c.export, orders |-> c.orders, commands |-> c.commands,
             messages |-> c.messages, draws |-> c.draws]
Opened(export) ==
  [export |-> export, orders |-> 0, commands |-> MaxCommands, messages |-> MaxSaid, draws |-> 0]

InCall(p) == call # NoOne /\ call.peer = p
Side(p) == [sim |-> peer[p], mod |-> host[p], call |-> IF InCall(p) THEN Local(call) ELSE NoCall]

FreshMod == [state |-> "none", pages |-> 0, memory |-> <<>>, queue |-> <<>>]
FreshSim == [at |-> "starting", tick |-> 0, next |-> 0, pending |-> {}, painted |-> <<>>, heard |-> <<>>]

\* Where every peer begins, its mod loaded and mod_init called.
Start(w) == [sim |-> FreshSim, mod |-> [FreshMod EXCEPT !.state = "running", !.pages = w.initial],
             call |-> Opened("init")]

\* What a call comes back with, for a side that is in one.
Reply(w, s, order) ==
  CASE order = "grow" -> IF s.mod.pages < w.maximum THEN "ok" ELSE "refused"
    [] order # "grow" /\ ~Context(s.call) -> "refused"
    [] order = "submit" /\ Context(s.call) -> SubmitAnswer(s.call, s.sim)
    [] order = "say" /\ Context(s.call) -> SayAnswer(s.call, s.mod)
    [] order = "random" /\ Context(s.call) -> <<0, s.sim.tick, s.call.draws>>
    [] order = "view" /\ Context(s.call) ->
         IF s.sim.painted = <<>> THEN "blank" ELSE Last(s.sim.painted)

Over(s, state) ==
  [sim |-> Heard(s.sim, s.mod, s.call), mod |-> Rested(s.mod, s.call, state), call |-> NoCall]

Said(w, s, order) ==
  [sim |-> Queued(s.sim, order, Reply(w, s, order)),
   mod |-> Told(s.mod, s.sim.tick, order, Reply(w, s, order)),
   call |-> Spent(s.call, order, Reply(w, s, order))]

Obeyed(w, s, order) ==
  IF order = "return" THEN Over(s, "running")
  ELSE IF order = "trap" THEN Over(s, IF s.call.export = "init" THEN "refused" ELSE "disabled")
  ELSE Said(w, s, order)

Polled(s) ==
  IF s.mod.state = "running"
  THEN [sim |-> s.sim, mod |-> [s.mod EXCEPT !.memory = Append(@, s.sim.tick)], call |-> Opened("tick")]
  ELSE [sim |-> [s.sim EXCEPT !.at = "polled"], mod |-> s.mod, call |-> NoCall]

\* The only way on from a side, for the module w with the orders g, players o.
Onward(w, o, g, s) ==
  IF s.call.export # "none" THEN Obeyed(w, s, g[s.mod.memory])
  ELSE IF s.sim.at = "starting" THEN Polled(s)
  ELSE [sim |-> Ticked(s.sim, o[s.sim.tick]), mod |-> s.mod, call |-> NoCall]

\* It is known already what the module does there.
Moves(g, s) == s.call.export = "none" \/ s.mod.memory \in DOMAIN g
Grows(g, h) == DOMAIN g \subseteq DOMAIN h /\ \A m \in DOMAIN g : h[m] = g[m]

\* What counts in a side, when its way on is followed.
IsSide(s) ==
  /\ {"at", "tick"} \subseteq DOMAIN s.sim /\ "export" \in DOMAIN s.call
  /\ s.sim.tick \in Nat /\ s.sim.at \in {"starting", "polled"}
  /\ s.call.export \in {"none", "init", "tick"}
  /\ s.call.export # "none" => s.sim.at = "starting"

\* How far along its way a side is, a call that began counted once.
Rank(s) ==
  4 * s.sim.tick + (IF s.call.export = "init" THEN 0 ELSE IF s.call.export = "tick" THEN 2
                    ELSE IF s.sim.at = "starting" THEN 1 ELSE 3)
Resting(s) == s.call.export = "none" /\ s.sim.at = "starting"

Trail(w, o, g, R, top) ==
  /\ Start(w) \in R /\ top \in R
  /\ \A s \in R : IsSide(s) /\ Rank(s) <= Rank(top)
  /\ \A s \in R : s # top => Moves(g, s) /\ Onward(w, o, g, s) \in R
  /\ \A r, s \in R : Resting(r) /\ Resting(s) /\ r.sim.tick = s.sim.tick => r = s

Reached(w, o, g, s) == \E R, top : Trail(w, o, g, R, top) /\ s \in R

LEMMA ObeyedKeepsShape ==
  ASSUME NEW w, NEW s, NEW order, IsSide(s), s.call.export # "none"
  PROVE  /\ IsSide(Obeyed(w, s, order)) /\ Rank(s) <= Rank(Obeyed(w, s, order))
         /\ Resting(Obeyed(w, s, order)) => Rank(s) < Rank(Obeyed(w, s, order))
PROOF
<1> DEFINE t == Obeyed(w, s, order)
<1>1. ASSUME NEW state, t = Over(s, state)
      PROVE  IsSide(t) /\ Rank(s) < Rank(t)
  <2>1. t = [sim |-> Heard(s.sim, s.mod, s.call), mod |-> Rested(s.mod, s.call, state), call |-> NoCall]
    BY <1>1 DEF Over
  <2>2. /\ {"at", "tick"} \subseteq DOMAIN t.sim /\ t.sim.tick = s.sim.tick
        /\ t.sim.at = IF s.call.export = "tick" THEN "polled" ELSE "starting"
    BY <2>1 DEF Heard, Context, IsSide
  <2>4. "export" \in DOMAIN t.call /\ t.call.export = "none"
    BY <2>1 DEF NoCall
  <2>5. IsSide(t)
    BY <2>2, <2>4 DEF IsSide
  <2>6. s.call.export \in {"init", "tick"} /\ s.sim.tick \in Nat
    BY DEF IsSide
  <2> HIDE DEF t
  <2>7. Rank(s) < Rank(t)
    BY <2>2, <2>4, <2>6 DEF Rank
  <2> QED BY <2>5, <2>7
<1>2. ASSUME t = Said(w, s, order)
      PROVE  IsSide(t) /\ Rank(s) = Rank(t) /\ ~Resting(t)
  <2> DEFINE a == Reply(w, s, order)
  <2>0. t = [sim |-> Queued(s.sim, order, a), mod |-> Told(s.mod, s.sim.tick, order, a),
             call |-> Spent(s.call, order, a)]
    BY <1>2 DEF Said
  <2> HIDE DEF a
  <2>1. {"at", "tick"} \subseteq DOMAIN t.sim /\ t.sim.tick = s.sim.tick /\ t.sim.at = s.sim.at
    BY <2>0 DEF Queued, IsSide
  <2>2. "export" \in DOMAIN t.call /\ t.call.export = s.call.export
    <3>1. t.call = Spent(s.call, order, a)
      BY <2>0
    <3> HIDE DEF t
    <3> QED BY <3>1 DEF Spent, IsSide
  <2> HIDE DEF t
  <2> QED BY <2>1, <2>2 DEF IsSide, Rank, Resting
<1>3. \/ \E state : t = Over(s, state)
      \/ t = Said(w, s, order)
  BY DEF Obeyed
<1>4. Rank(s) \in Nat
  BY DEF IsSide, Rank
<1>5. IsSide(t) => Rank(t) \in Nat
  BY DEF IsSide, Rank
<1> HIDE DEF t
<1>6. IsSide(t) /\ Rank(s) <= Rank(t) /\ (Resting(t) => Rank(s) < Rank(t))
  BY <1>1, <1>2, <1>3, <1>4, <1>5
<1> QED BY <1>6 DEF t

LEMMA OnwardKeepsShape ==
  ASSUME NEW w, NEW o, NEW g, NEW s, IsSide(s)
  PROVE  /\ IsSide(Onward(w, o, g, s)) /\ Rank(s) <= Rank(Onward(w, o, g, s))
         /\ Resting(Onward(w, o, g, s)) => Rank(s) < Rank(Onward(w, o, g, s))
PROOF
<1> DEFINE t == Onward(w, o, g, s)
<1>1. CASE s.call.export # "none"
  BY <1>1, ObeyedKeepsShape DEF Onward
<1>2. CASE s.call.export = "none" /\ s.sim.at = "starting"
  <2>1. t = Polled(s)
    BY <1>2 DEF Onward
  <2>2. IsSide(Polled(s)) /\ Rank(s) < Rank(Polled(s))
    BY <1>2 DEF Polled, Opened, NoCall, IsSide, Rank
  <2> QED BY <2>1, <2>2 DEF IsSide, Rank
<1>3. CASE s.call.export = "none" /\ s.sim.at = "polled"
  <2>1. t = [sim |-> Ticked(s.sim, o[s.sim.tick]), mod |-> s.mod, call |-> NoCall]
    BY <1>3 DEF Onward
  <2>2. {"at", "tick"} \subseteq DOMAIN t.sim /\ t.sim.tick = s.sim.tick + 1 /\ t.sim.at = "starting"
    <3>1. t.sim = Ticked(s.sim, o[s.sim.tick])
      BY <2>1
    <3> HIDE DEF t
    <3> QED BY <3>1 DEF Ticked, IsSide
  <2>3. IsSide(t) /\ Rank(s) < Rank(t)
    BY <1>3, <2>1, <2>2 DEF NoCall, IsSide, Rank
  <2> QED BY <2>3 DEF IsSide, Rank
<1> QED BY <1>1, <1>2, <1>3 DEF IsSide

\* What is known stays so when more becomes known.
LEMMA TrailStays ==
  ASSUME NEW w, NEW o, NEW g, NEW h, Grows(g, h), NEW R, NEW top, Trail(w, o, g, R, top)
  PROVE  Trail(w, o, h, R, top)
PROOF
<1>1. ASSUME NEW s \in R, s # top
      PROVE  Moves(h, s) /\ Onward(w, o, h, s) \in R
  <2>1. Moves(g, s) /\ Onward(w, o, g, s) \in R
    BY <1>1 DEF Trail
  <2>2. Onward(w, o, h, s) = Onward(w, o, g, s)
    BY <2>1 DEF Onward, Moves, Grows
  <2> QED BY <2>1, <2>2 DEF Moves, Grows
<1> QED BY <1>1 DEF Trail

LEMMA TrailGoesOn ==
  ASSUME NEW w, NEW o, NEW g, NEW R, NEW top, Trail(w, o, g, R, top), NEW s \in R, Moves(g, s)
  PROVE  \E Q, end : Trail(w, o, g, Q, end) /\ R \subseteq Q /\ Onward(w, o, g, s) \in Q
PROOF
<1>1. CASE s # top
  BY <1>1 DEF Trail
<1>2. CASE s = top
  <2> DEFINE t == Onward(w, o, g, top)
             Q == R \cup {t}
  <2>1. top \in R /\ IsSide(top) /\ \A r \in R : IsSide(r) /\ Rank(r) <= Rank(top)
    BY DEF Trail
  <2>2. IsSide(t) /\ Rank(top) <= Rank(t) /\ (Resting(t) => Rank(top) < Rank(t))
    BY <2>1, OnwardKeepsShape
  <2>3. \A r \in Q : IsSide(r) /\ Rank(r) \in Nat
    BY <2>1, <2>2 DEF IsSide, Rank
  <2> HIDE DEF t
  <2>4. \A r \in Q : Rank(r) <= Rank(t)
    BY <2>1, <2>2, <2>3
  <2>5. ASSUME NEW r \in Q, r # t
        PROVE  Moves(g, r) /\ Onward(w, o, g, r) \in Q
    BY <2>5, <1>2 DEF Trail, t
  <2>6. ASSUME NEW r \in Q, NEW q \in Q, Resting(r), Resting(q), r.sim.tick = q.sim.tick
        PROVE  r = q
    <3>1. Rank(r) = Rank(q)
      BY <2>6 DEF Resting, Rank
    <3>2. CASE r \in R /\ q \in R
      BY <3>2, <2>6 DEF Trail
    <3>3. CASE r = t /\ q \in R
      BY <3>1, <3>3, <2>1, <2>2, <2>3, <2>6
    <3>4. CASE q = t /\ r \in R
      BY <3>1, <3>4, <2>1, <2>2, <2>3, <2>6
    <3> QED BY <3>2, <3>3, <3>4
  <2>7. Trail(w, o, g, Q, t)
    BY <2>3, <2>4, <2>5, <2>6 DEF Trail
  <2> QED BY <2>7, <1>2 DEF t
<1> QED BY <1>1, <1>2

------------------------------------------------------------------------------
(* The budget.                                                             *)
PagesOf(h, S) == UNION {{q} \X (1 .. h[q].pages) : q \in S}

\* The pages a .. b of one instance.
LEMMA PagesOfOne ==
  ASSUME NEW p, NEW a \in Nat, NEW b \in Nat, a <= b + 1
  PROVE  IsFiniteSet({p} \X (a .. b)) /\ Cardinality({p} \X (a .. b)) = b - a + 1
PROOF
<1>1. IsFiniteSet({p}) /\ Cardinality({p}) = 1
  BY FS_Singleton
<1>2. IsFiniteSet(a .. b) /\ Cardinality(a .. b) = b - a + 1
  <2>1. IsFiniteSet(a .. b) /\ Cardinality(a .. b) = IF a > b THEN 0 ELSE b - a + 1
    BY FS_Interval
  <2> QED BY <2>1
<1>3. PICK one, range : one = {p} /\ range = a .. b
  OBVIOUS
<1>4. IsFiniteSet(one \X range) /\ Cardinality(one \X range) = Cardinality(one) * Cardinality(range)
  BY <1>1, <1>2, <1>3, FS_Product
<1>5. Cardinality(one \X range) = b - a + 1
  BY <1>1, <1>2, <1>3, <1>4
<1>6. one \X range = {p} \X (a .. b)
  BY <1>3
<1> QED BY <1>4, <1>5, <1>6

LEMMA PagesAreCounted ==
  ASSUME NEW h, NEW p \in ModPeer, \A q \in ModPeer : h[q].pages \in 0 .. MaxPages
  PROVE  /\ Cardinality(PagesOf(h, ModPeer)) \in Nat
         /\ Cardinality(PagesOf(h, ModPeer \ {p})) \in Nat
         /\ Cardinality(PagesOf(h, ModPeer)) = Cardinality(PagesOf(h, ModPeer \ {p})) + h[p].pages
         /\ Cardinality(PagesOf(h, ModPeer)) + (MaxPages - h[p].pages) <= Cardinality(ModPeer) * MaxPages
PROOF
<1> DEFINE whole == ModPeer \X (1 .. MaxPages)
           all == PagesOf(h, ModPeer)
           others == PagesOf(h, ModPeer \ {p})
           mine == {p} \X (1 .. h[p].pages)
           left == {p} \X ((h[p].pages + 1) .. MaxPages)
<1>1. PICK n \in Nat, m \in Nat : n = h[p].pages /\ m = MaxPages /\ n <= m
  BY ModAssumption
<1>2. IsFiniteSet(whole) /\ Cardinality(whole) = Cardinality(ModPeer) * MaxPages
  <2>1. m \in Int /\ 1 \in Int
    BY <1>1
  <2>2. IsFiniteSet(1 .. m) /\ Cardinality(1 .. m) = IF 1 > m THEN 0 ELSE m - 1 + 1
    BY <2>1, FS_Interval
  <2>3. Cardinality(1 .. m) = m
    BY <1>1, <2>2
  <2>4. IsFiniteSet(ModPeer)
    BY ModAssumption
  <2>5. /\ IsFiniteSet(ModPeer \X (1 .. m))
        /\ Cardinality(ModPeer \X (1 .. m)) = Cardinality(ModPeer) * Cardinality(1 .. m)
    BY <2>2, <2>4, FS_Product
  <2> QED BY <1>1, <2>3, <2>5
<1>3. all \in SUBSET whole /\ others \in SUBSET whole
  <2>1. \A q \in ModPeer : \A i \in 1 .. h[q].pages : i \in 1 .. MaxPages
    BY ModAssumption
  <2>2. ASSUME NEW S \in SUBSET ModPeer
        PROVE  PagesOf(h, S) \subseteq whole
    <3>1. ASSUME NEW e \in PagesOf(h, S)
          PROVE  e \in whole
      <4>1. PICK q \in S : e \in {q} \X (1 .. h[q].pages)
        BY DEF PagesOf
      <4> QED BY <2>1, <4>1
    <3> QED BY <3>1
  <2>3. all \subseteq whole
    BY <2>2
  <2>4. others \subseteq whole
    <3>1. ModPeer \ {p} \in SUBSET ModPeer
      OBVIOUS
    <3> QED BY <2>2, <3>1
  <2> HIDE DEF all, others, whole
  <2> QED BY <2>3, <2>4
<1>4. IsFiniteSet(all) /\ IsFiniteSet(others)
  BY <1>2, <1>3, FS_Subset
<1>5. IsFiniteSet(mine) /\ Cardinality(mine) = n
  <2>1. 1 \in Nat /\ 1 <= n + 1
    BY <1>1
  <2>2. IsFiniteSet({p} \X (1 .. n)) /\ Cardinality({p} \X (1 .. n)) = n - 1 + 1
    BY <2>1, PagesOfOne
  <2> QED BY <1>1, <2>2
<1>6. IsFiniteSet(left) /\ Cardinality(left) = m - n
  <2>1. n + 1 \in Nat /\ n + 1 <= m + 1
    BY <1>1
  <2>2. /\ IsFiniteSet({p} \X ((n + 1) .. m))
        /\ Cardinality({p} \X ((n + 1) .. m)) = m - (n + 1) + 1
    BY <2>1, PagesOfOne
  <2> QED BY <1>1, <2>2
<1>7. all = others \cup mine /\ others \cap mine = {}
  BY DEF PagesOf
<1>8. all \cap left = {} /\ all \cup left \in SUBSET whole
  <2>1. \A i \in (h[p].pages + 1) .. MaxPages : i \in 1 .. MaxPages /\ i \notin 1 .. h[p].pages
    BY <1>1
  <2>2. left \subseteq whole
    BY <2>1
  <2>3. \A e \in all : e \notin left
    BY <2>1 DEF PagesOf
  <2> QED BY <1>3, <2>2, <2>3
<1> HIDE DEF all, others, mine, left, whole
<1>9. Cardinality(all) \in Nat /\ Cardinality(others) \in Nat
  BY <1>4, FS_CardinalityType
<1>10. Cardinality(all) = Cardinality(others) + n
  <2>1. Cardinality(others \cup mine) = Cardinality(others) + Cardinality(mine) - Cardinality(others \cap mine)
    BY <1>4, <1>5, FS_Union
  <2>2. Cardinality(others \cap mine) = 0
    BY <1>7, FS_EmptySet
  <2> QED BY <1>5, <1>7, <1>9, <2>1, <2>2
<1>11. Cardinality(all) + (m - n) <= Cardinality(whole)
  <2>1. /\ IsFiniteSet(all \cup left)
        /\ Cardinality(all \cup left) = Cardinality(all) + Cardinality(left) - Cardinality(all \cap left)
    BY <1>4, <1>6, FS_Union
  <2>2. Cardinality(all \cap left) = 0
    BY <1>8, FS_EmptySet
  <2>3. Cardinality(all \cup left) <= Cardinality(whole)
    BY <1>2, <1>8, FS_Subset
  <2> QED BY <1>6, <1>9, <2>1, <2>2, <2>3, <1>1
<1> QED
  BY <1>1, <1>2, <1>9, <1>10, <1>11 DEF all, others

------------------------------------------------------------------------------
(* What holds of mods at every step.                                       *)
Live(p) == host[p].state \in {"running", "disabled"}

ModTyped ==
  /\ wasm \in Modules
  /\ {"table", "safe", "all"} \subseteq DOMAIN natives /\ natives.table = Imports
  /\ {"alive", "debug", "used", "count"} \subseteq DOMAIN runtime /\ runtime.used \in Nat
  /\ DOMAIN host = ModPeer /\ DOMAIN peer = ModPeer
  /\ \A p \in ModPeer :
       /\ {"state", "pages", "memory", "queue"} \subseteq DOMAIN host[p]
       /\ host[p].state = "none" => host[p] = FreshMod /\ peer[p] = FreshSim
  /\ call # NoOne => call \in Call /\ host[call.peer].state = "running"

\* Whoever runs has a module that was taken.
Usable ==
  /\ wasm.imports \subseteq ToSet(Imports)
  /\ wasm.initial \in 0 .. MaxPages /\ wasm.maximum \in 0 .. MaxPages
Taken == \A p \in ModPeer : Live(p) => Usable /\ runtime.alive

\* The budget is spent on the pages of those who run.
Budgeted ==
  /\ \A p \in ModPeer : host[p].pages \in 0 .. MaxPages /\ (host[p].pages # 0 => host[p].state = "running")
  /\ runtime.used = Cardinality(Pages)

\* Whoever runs is somewhere on the one way there is.
Together ==
  Ample /\ "clock" \notin wasm.imports =>
    \E R, top : /\ Trail(wasm, outside, guest, R, top)
                /\ \A p \in ModPeer : Live(p) => Side(p) \in R

ModInv == ModTyped /\ Taken /\ Budgeted /\ Together

LEMMA AgreedIfTogether == Ample /\ ModInv => PeersAgreeOnMods
PROOF
<1> SUFFICES ASSUME Ample, ModInv, NEW p \in ModPeer, NEW q \in ModPeer,
                    "clock" \notin wasm.imports, Level(p), Level(q), peer[p].tick = peer[q].tick
             PROVE  peer[p] = peer[q] /\ host[p] = host[q]
  BY DEF PeersAgreeOnMods
<1>1. PICK R, top : Trail(wasm, outside, guest, R, top) /\ \A r \in ModPeer : Live(r) => Side(r) \in R
  BY DEF ModInv, Together
<1>2. Side(p) \in R /\ Side(q) \in R
  BY <1>1 DEF Level, Live
<1>3. /\ Side(p).sim = peer[p] /\ Side(p).mod = host[p] /\ Side(p).call = NoCall
      /\ Side(q).sim = peer[q] /\ Side(q).mod = host[q] /\ Side(q).call = NoCall
  BY DEF Level, Side, InCall
<1>4. Resting(Side(p)) /\ Resting(Side(q))
  BY <1>3 DEF Level, Resting, NoCall
<1>5. Side(p) = Side(q)
  BY <1>1, <1>2, <1>3, <1>4 DEF Trail
<1> QED BY <1>3, <1>5

\* One peer goes on by the one way, and the others stay where they are.
LEMMA OneMoves ==
  ASSUME Together, NEW p \in ModPeer, Live(p),
         wasm' = wasm, outside' = outside, Grows(guest, guest'), Moves(guest', Side(p)),
         Side(p)' = Onward(wasm, outside, guest', Side(p)),
         \A q \in ModPeer : q # p => Side(q)' = Side(q) /\ (Live(q)' => Live(q))
  PROVE  Together'
PROOF
<1> SUFFICES ASSUME Ample, "clock" \notin wasm.imports
             PROVE  \E R, top : /\ Trail(wasm, outside, guest', R, top)
                                /\ \A q \in ModPeer : Live(q)' => Side(q)' \in R
  BY DEF Together
<1>1. PICK R, top : Trail(wasm, outside, guest, R, top) /\ \A q \in ModPeer : Live(q) => Side(q) \in R
  BY DEF Together
<1>2. Trail(wasm, outside, guest', R, top)
  BY <1>1, TrailStays
<1>3. Side(p) \in R
  BY <1>1
<1>4. PICK Q, end : /\ Trail(wasm, outside, guest', Q, end) /\ R \subseteq Q
                    /\ Onward(wasm, outside, guest', Side(p)) \in Q
  BY <1>2, <1>3, TrailGoesOn
<1>5. \A q \in ModPeer : Live(q)' => Side(q)' \in Q
  BY <1>1, <1>4
<1> QED BY <1>4, <1>5

\* Nobody goes on: some may begin, and some be gone.
LEMMA NobodyMoves ==
  ASSUME Together, wasm' = wasm, outside' = outside, guest' = guest,
         \A q \in ModPeer : Live(q)' => Side(q)' = Start(wasm) \/ (Live(q) /\ Side(q)' = Side(q))
  PROVE  Together'
PROOF
<1> SUFFICES ASSUME Ample, "clock" \notin wasm.imports
             PROVE  \E R, top : /\ Trail(wasm, outside, guest, R, top)
                                /\ \A q \in ModPeer : Live(q)' => Side(q)' \in R
  BY DEF Together
<1>1. PICK R, top : Trail(wasm, outside, guest, R, top) /\ \A q \in ModPeer : Live(q) => Side(q) \in R
  BY DEF Together
<1>2. Start(wasm) \in R
  BY <1>1 DEF Trail
<1>3. \A q \in ModPeer : Live(q)' => Side(q)' \in R
  BY <1>1, <1>2
<1> QED BY <1>1, <1>3

LEMMA ModInitInv == ModInit => ModInv
PROOF
<1> SUFFICES ASSUME ModInit
             PROVE  ModInv
  OBVIOUS
<1>1. ModTyped
  <2>1. /\ wasm \in Modules /\ natives = [table |-> Imports, safe |-> <<>>, all |-> <<>>]
        /\ runtime = [alive |-> FALSE, debug |-> FALSE, used |-> 0, count |-> 0]
        /\ host = [p \in ModPeer |-> FreshMod] /\ peer = [p \in ModPeer |-> FreshSim] /\ call = NoOne
    BY DEF ModInit, FreshMod, FreshSim
  <2>2. \A p \in ModPeer : {"state", "pages", "memory", "queue"} \subseteq DOMAIN host[p]
    BY <2>1 DEF FreshMod
  <2> QED BY <2>1, <2>2 DEF ModTyped
<1>2. \A p \in ModPeer : host[p].state = "none" /\ host[p].pages = 0
  BY DEF ModInit
<1>3. Taken
  BY <1>2 DEF Taken, Live
<1>4. Budgeted
  <2>1. Pages = {}
    BY <1>2 DEF Pages
  <2>2. runtime.used = 0
    BY DEF ModInit
  <2> QED BY <1>2, <2>1, <2>2, FS_EmptySet, ModAssumption DEF Budgeted
<1>5. Together
  <2> DEFINE s == Start(wasm)
  <2>1. IsSide(s)
    BY DEF Start, Opened, FreshSim, IsSide
  <2>2. Rank(s) <= Rank(s)
    BY <2>1 DEF IsSide, Rank
  <2> HIDE DEF s
  <2>3. Trail(wasm, outside, guest, {s}, s)
    BY <2>1, <2>2 DEF Trail, s
  <2> QED BY <1>2, <2>3 DEF Together, Live
<1> QED BY <1>1, <1>3, <1>4, <1>5 DEF ModInv

\* What modules ask for, and the sizes they declare.
LEMMA ModulesAre ==
  ASSUME NEW w \in Modules
  PROVE  /\ w.imports \subseteq {"submit", "view", "random", "say", "clock", "foreign"}
         /\ w.initial \in Nat /\ w.maximum \in Nat \cup {NoMaximum}
PROOF
<1> DEFINE good == {Module({"submit", "view"}, 1), Module({"random", "submit"}, 1),
                    Module({"say"}, MaxPages), Module({"clock"}, 1)}
           names == {"submit", "view", "random", "say", "clock", "foreign"}
           Fits(m) == /\ {"imports", "complete", "initial", "maximum"} \subseteq DOMAIN m
                      /\ m.imports \subseteq names
                      /\ m.initial \in Nat /\ m.maximum \in Nat \cup {NoMaximum}
<1>1. \A i \in SUBSET names, n \in Nat : Fits(Module(i, n))
  BY DEF Module
<1> HIDE DEF Fits
<1>2. \A m \in good : Fits(m)
  <2>1. Fits(Module({"submit", "view"}, 1)) /\ Fits(Module({"random", "submit"}, 1))
    BY <1>1
  <2>2. Fits(Module({"say"}, MaxPages)) /\ Fits(Module({"clock"}, 1))
    BY <1>1, ModAssumption
  <2> QED BY <2>1, <2>2
<1>3. Fits(Module({"submit", "foreign"}, 1))
  BY <1>1
<1> USE DEF Fits
<1> HIDE DEF good
<1>4. ASSUME NEW m \in good
      PROVE  Fits([m EXCEPT !.complete = FALSE])
  BY <1>2
<1>5. ASSUME NEW m \in good
      PROVE  Fits([m EXCEPT !.initial = MaxPages + 1, !.maximum = MaxPages + 1])
  BY <1>2, ModAssumption
<1>6. ASSUME NEW m \in good, NEW top \in {NoMaximum, MaxPages + 1}
      PROVE  Fits([m EXCEPT !.maximum = top])
  BY <1>2, ModAssumption
<1>7. \/ w \in good \/ w = Module({"submit", "foreign"}, 1)
      \/ \E m \in good : w = [m EXCEPT !.complete = FALSE]
      \/ \E m \in good : w = [m EXCEPT !.initial = MaxPages + 1, !.maximum = MaxPages + 1]
      \/ \E m \in good, top \in {NoMaximum, MaxPages + 1} : w = [m EXCEPT !.maximum = top]
  BY DEF Modules, good
<1> QED
  BY <1>2, <1>3, <1>4, <1>5, <1>6, <1>7

\* A change of what one peer has leaves the others where they are.
LEMMA OthersStay ==
  ASSUME NEW q \in ModPeer, host'[q] = host[q], peer'[q] = peer[q], ~InCall(q), ~InCall(q)'
  PROVE  Side(q)' = Side(q) /\ (Live(q)' <=> Live(q))
PROOF
  BY DEF Side, Live

\* The budget follows the pages of the one that changed.
LEMMA BudgetFollows ==
  ASSUME Budgeted, NEW p \in ModPeer, NEW n \in 0 .. MaxPages, host'[p].pages = n,
         n # 0 => host'[p].state = "running",
         \A q \in ModPeer : q # p => host'[q] = host[q],
         runtime'.used = runtime.used + n - host[p].pages
  PROVE  Budgeted'
PROOF
<1>1. \A q \in ModPeer : host[q].pages \in 0 .. MaxPages /\ (host[q].pages # 0 => host[q].state = "running")
  BY DEF Budgeted
<1>2. \A q \in ModPeer : host'[q].pages \in 0 .. MaxPages /\ (host'[q].pages # 0 => host'[q].state = "running")
  BY <1>1
<1>3. PagesOf(host', ModPeer \ {p}) = PagesOf(host, ModPeer \ {p})
  BY DEF PagesOf
<1>4. /\ Cardinality(PagesOf(host, ModPeer \ {p})) \in Nat
      /\ Cardinality(PagesOf(host, ModPeer)) = Cardinality(PagesOf(host, ModPeer \ {p})) + host[p].pages
  BY <1>1, PagesAreCounted
<1>5. Cardinality(PagesOf(host', ModPeer)) = Cardinality(PagesOf(host', ModPeer \ {p})) + host'[p].pages
  BY <1>2, PagesAreCounted
<1>6. Pages = PagesOf(host, ModPeer) /\ Pages' = PagesOf(host', ModPeer)
  BY DEF Pages, PagesOf
<1>7. PICK k \in Nat, a \in Nat, b \in Nat :
        /\ k = Cardinality(PagesOf(host, ModPeer \ {p})) /\ a = host[p].pages /\ b = n
  BY <1>1, <1>4, ModAssumption
<1>8. Cardinality(Pages) = k + a /\ Cardinality(Pages') = k + b
  BY <1>3, <1>4, <1>5, <1>6, <1>7
<1>9. runtime.used = k + a
  BY <1>8 DEF Budgeted
<1>10. runtime'.used = Cardinality(Pages')
  BY <1>7, <1>8, <1>9
<1> QED BY <1>2, <1>10 DEF Budgeted

\* What is spent is a number of pages.
LEMMA BudgetIsNat ==
  ASSUME NEW h, \A q \in ModPeer : h[q].pages \in 0 .. MaxPages
  PROVE  Cardinality(PagesOf(h, ModPeer)) \in Nat
PROOF
<1>1. CASE ModPeer = {}
  BY <1>1, FS_EmptySet DEF PagesOf
<1>2. CASE ModPeer # {}
  BY <1>2, PagesAreCounted
<1> QED BY <1>1, <1>2

LEMMA SpentIsACall ==
  ASSUME NEW c \in Call, NEW order, NEW answer
  PROVE  /\ Spent(c, order, answer) \in Call /\ Spent(c, order, answer).peer = c.peer
         /\ Local(Spent(c, order, answer)) = Spent(Local(c), order, answer)
PROOF
<1>1. PICK p \in ModPeer, e \in {"init", "tick"}, i \in Nat, n \in Int, m \in Int, d \in Nat :
        c = [peer |-> p, export |-> e, orders |-> i, commands |-> n, messages |-> m, draws |-> d]
  BY DEF Call
<1> DEFINE N == IF order = "submit" /\ answer = "ok" THEN n - 1 ELSE n
           M == IF order = "say" /\ e = "tick" /\ m > 0 THEN m - 1 ELSE m
           D == IF order = "random" /\ e = "tick" THEN d + 1 ELSE d
<1>2. Spent(c, order, answer) =
        [peer |-> p, export |-> e, orders |-> i + 1, commands |-> N, messages |-> M, draws |-> D]
  <2>1. /\ c.orders = i /\ c.commands = n /\ c.messages = m /\ c.draws = d
        /\ Context(c) <=> e = "tick"
    BY <1>1 DEF Context
  <2>2. Spent(c, order, answer) = [c EXCEPT !.orders = i + 1, !.commands = N, !.messages = M, !.draws = D]
    BY <2>1 DEF Spent
  <2> HIDE DEF N, M, D
  <2> QED BY <1>1, <2>2
<1>3. Local(c) = [export |-> e, orders |-> i, commands |-> n, messages |-> m, draws |-> d]
  BY <1>1 DEF Local
<1>4. Spent(Local(c), order, answer) =
        [export |-> e, orders |-> i + 1, commands |-> N, messages |-> M, draws |-> D]
  <2> DEFINE l == Local(c)
  <2>1. /\ l.orders = i /\ l.commands = n /\ l.messages = m /\ l.draws = d
        /\ Context(l) <=> e = "tick"
    BY <1>3 DEF Context
  <2> HIDE DEF l
  <2>2. Spent(l, order, answer) = [l EXCEPT !.orders = i + 1, !.commands = N, !.messages = M, !.draws = D]
    BY <2>1 DEF Spent
  <2> HIDE DEF N, M, D
  <2>3. l = [export |-> e, orders |-> i, commands |-> n, messages |-> m, draws |-> d]
    BY <1>3 DEF l
  <2>4. Spent(l, order, answer) =
          [export |-> e, orders |-> i + 1, commands |-> N, messages |-> M, draws |-> D]
    BY <2>2, <2>3
  <2> QED BY <2>4 DEF l
<1>5. N \in Int /\ M \in Int /\ D \in Nat
  OBVIOUS
<1> HIDE DEF N, M, D
<1>6. Spent(c, order, answer) \in Call /\ Spent(c, order, answer).peer = c.peer
  BY <1>1, <1>2, <1>5 DEF Call
<1>7. Local(Spent(c, order, answer)) = Spent(Local(c), order, answer)
  BY <1>2, <1>4 DEF Local
<1> QED BY <1>6, <1>7

LEMMA BudgetStays ==
  ASSUME Budgeted, runtime'.used = runtime.used,
         \A q \in ModPeer : host'[q].pages = host[q].pages /\ host'[q].state = host[q].state
  PROVE  Budgeted'
PROOF
<1>1. Pages' = Pages
  BY DEF Pages
<1> QED BY <1>1 DEF Budgeted

\* A runtime comes and goes while nobody runs.
LEMMA RuntimeKeepsInv ==
  ASSUME ModInv, NEW debug \in BOOLEAN, CreateRuntime(debug) \/ DestroyRuntime
  PROVE  ModInv'
PROOF
<1>1. \A p \in ModPeer : ~Live(p)
  BY DEF ModInv, Taken, CreateRuntime, DestroyRuntime, Live
<1>2. /\ UNCHANGED <<wasm, guest, outside, host, peer, call>> /\ runtime'.used = 0
      /\ {"alive", "debug", "used", "count"} \subseteq DOMAIN runtime'
      /\ {"table", "safe", "all"} \subseteq DOMAIN natives' /\ natives'.table = Imports
  <2>1. /\ {"alive", "debug", "used", "count"} \subseteq DOMAIN runtime
        /\ {"table", "safe", "all"} \subseteq DOMAIN natives /\ natives.table = Imports
    BY DEF ModInv, ModTyped
  <2>2. CASE CreateRuntime(debug)
    <3>1. natives' = Register(natives, debug)
      BY <2>2 DEF CreateRuntime
    <3>2. {"table", "safe", "all"} \subseteq DOMAIN natives' /\ natives'.table = Imports
      BY <2>1, <3>1 DEF Register
    <3> QED BY <2>2, <3>2 DEF CreateRuntime
  <2>3. CASE DestroyRuntime
    <3>1. natives' = natives /\ runtime' = [runtime EXCEPT !.alive = FALSE, !.used = 0]
      BY <2>3 DEF DestroyRuntime
    <3>2. runtime'.used = 0 /\ {"alive", "debug", "used", "count"} \subseteq DOMAIN runtime'
      BY <2>1, <3>1
    <3> QED BY <2>1, <2>3, <3>1, <3>2 DEF DestroyRuntime
  <2> QED BY <2>2, <2>3
<1>3. ModTyped'
  <2>1. ModTyped
    BY DEF ModInv
  <2> QED BY <1>2, <2>1 DEF ModTyped
<1>4. Taken' /\ Together'
  <2>1. \A p \in ModPeer : ~Live(p)'
    BY <1>1, <1>2 DEF Live
  <2>2. Together'
    BY <1>2, <2>1, NobodyMoves DEF ModInv
  <2> QED BY <2>1, <2>2 DEF Taken
<1>5. Budgeted'
  <2>1. \A p \in ModPeer : host[p].pages \in 0 .. MaxPages /\ host[p].pages = 0
    BY <1>1 DEF ModInv, Budgeted, Live
  <2>2. Pages' = {}
    BY <1>2, <2>1 DEF Pages
  <2> QED BY <1>2, <2>1, <2>2, FS_EmptySet DEF Budgeted
<1> QED BY <1>3, <1>4, <1>5 DEF ModInv

LEMMA AttachKeepsInv ==
  ASSUME ModInv, NEW p \in ModPeer, Attach(p)
  PROVE  ModInv'
PROOF
<1> USE DEF ModInv
<1>1. /\ runtime.alive /\ call = NoOne /\ host[p].state = "none"
      /\ UNCHANGED <<wasm, guest, outside, natives, peer>>
  BY DEF Attach
<1>2. host[p] = FreshMod /\ peer[p] = FreshSim
  BY <1>1 DEF ModTyped
<1>3. CASE Acceptable /\ Affords(wasm.initial)
  <2>1. /\ host' = [host EXCEPT ![p] = [host[p] EXCEPT !.state = "running", !.pages = wasm.initial]]
        /\ runtime' = [runtime EXCEPT !.used = runtime.used + wasm.initial]
        /\ call' = NewCall(p, "init")
    BY <1>3 DEF Attach
  <2>2. Usable
    <3>1. wasm.imports \subseteq ToSet(Imports)
      BY <1>3 DEF Acceptable, Permitted, Chosen, SafeCount, ToSet, Imports, ModTyped
    <3>2. wasm.initial \in Nat /\ (wasm.maximum # NoMaximum => wasm.maximum \in Nat)
      BY ModulesAre DEF ModTyped
    <3> QED BY <1>3, <3>1, <3>2, ModAssumption DEF Usable, Acceptable
  <2>3. /\ host'[p] = [FreshMod EXCEPT !.state = "running", !.pages = wasm.initial]
        /\ \A q \in ModPeer : q # p => host'[q] = host[q]
        /\ DOMAIN host' = ModPeer
    BY <1>2, <2>1 DEF ModTyped
  <2>4. host'[p].state = "running" /\ host'[p].pages = wasm.initial
        /\ {"state", "pages", "memory", "queue"} \subseteq DOMAIN host'[p]
    BY <2>3 DEF FreshMod
  <2>5. call' \in Call /\ call'.peer = p /\ call' # NoOne /\ Local(call') = Opened("init")
    BY <2>1, ModAssumption, NoOneAssumption DEF NewCall, Call, Local, Opened
  <2>6. {"alive", "debug", "used", "count"} \subseteq DOMAIN runtime' /\ runtime'.used \in Nat
        /\ runtime'.alive /\ runtime'.used = runtime.used + wasm.initial
    <3>1. {"alive", "debug", "used", "count"} \subseteq DOMAIN runtime /\ runtime.used \in Nat
      BY DEF ModTyped
    <3>2. DOMAIN runtime' = DOMAIN runtime /\ runtime'.used = runtime.used + wasm.initial
      BY <2>1, <3>1
    <3>3. runtime'.alive = runtime.alive
      BY <2>1, <3>1
    <3>4. PICK n \in Nat, m \in Nat : n = runtime.used /\ m = wasm.initial
      BY <2>2, <3>1, ModAssumption DEF Usable
    <3>5. n + m \in Nat
      OBVIOUS
    <3>6. runtime'.used \in Nat
      BY <3>2, <3>4, <3>5
    <3> QED BY <1>1, <3>1, <3>2, <3>3, <3>6
  <2>7. ModTyped'
    <3>1. \A q \in ModPeer :
            /\ {"state", "pages", "memory", "queue"} \subseteq DOMAIN host'[q]
            /\ host'[q].state = "none" => host'[q] = FreshMod /\ peer'[q] = FreshSim
      <4> TAKE q \in ModPeer
      <4>1. CASE q = p
        <5>1. host'[q].state # "none"
          BY <2>4, <4>1
        <5> QED BY <2>4, <4>1, <5>1
      <4>2. CASE q # p
        <5>1. host'[q] = host[q] /\ peer'[q] = peer[q]
          BY <1>1, <2>3, <4>2
        <5> QED BY <5>1 DEF ModTyped
      <4> QED BY <4>1, <4>2
    <3>2. host'[call'.peer].state = "running"
      BY <2>4, <2>5
    <3>3. {"alive", "debug", "used", "count"} \subseteq DOMAIN runtime' /\ runtime'.used \in Nat
      BY <2>6
    <3>4. call' \in Call
      BY <2>5
    <3> QED BY <1>1, <2>3, <3>1, <3>2, <3>3, <3>4 DEF ModTyped
  <2>8. Taken'
    BY <1>1, <2>2, <2>6 DEF Taken, Usable
  <2>9. Budgeted'
    <3>1. host[p].pages = 0 /\ wasm.initial \in 0 .. MaxPages /\ runtime.used \in Nat
      BY <1>2, <2>2 DEF FreshMod, Usable, ModTyped
    <3>2. runtime'.used = runtime.used + wasm.initial - host[p].pages
      BY <2>6, <3>1, ModAssumption
    <3> QED BY <2>3, <2>4, <3>1, <3>2, BudgetFollows
  <2>10. Together'
    <3>1. Side(p)' = Start(wasm)
      BY <1>1, <1>2, <2>3, <2>5 DEF Side, InCall, Start
    <3>2. \A q \in ModPeer : q # p => Side(q)' = Side(q) /\ (Live(q)' <=> Live(q))
      BY <1>1, <2>3, <2>5, OthersStay DEF InCall
    <3> QED BY <1>1, <3>1, <3>2, NobodyMoves
  <2> QED BY <2>7, <2>8, <2>9, <2>10
<1>4. CASE ~(Acceptable /\ Affords(wasm.initial))
  <2>1. host' = [host EXCEPT ![p].state = "refused"] /\ UNCHANGED <<runtime, call>>
    BY <1>4 DEF Attach
  <2>2. /\ host'[p] = [FreshMod EXCEPT !.state = "refused"]
        /\ \A q \in ModPeer : q # p => host'[q] = host[q]
        /\ DOMAIN host' = ModPeer
    BY <1>2, <2>1 DEF ModTyped
  <2>3. /\ host'[p].state = "refused" /\ host'[p].pages = 0 /\ host[p].pages = 0
        /\ {"state", "pages", "memory", "queue"} \subseteq DOMAIN host'[p]
    BY <1>2, <2>2 DEF FreshMod
  <2>4. ModTyped'
    BY <1>1, <2>1, <2>2, <2>3 DEF ModTyped
  <2>5. \A q \in ModPeer : Live(q)' => q # p /\ Live(q)
    BY <2>2, <2>3 DEF Live
  <2>6. Taken'
    BY <1>1, <2>1, <2>5 DEF Taken, Usable
  <2>7. Budgeted'
    <3>1. runtime.used \in Nat /\ 0 \in 0 .. MaxPages
      BY ModAssumption DEF ModTyped
    <3>2. runtime'.used = runtime.used + 0 - host[p].pages
      BY <2>1, <2>3, <3>1
    <3> QED BY <2>2, <2>3, <3>1, <3>2, BudgetFollows
  <2>8. Together'
    <3>1. \A q \in ModPeer : q # p => Side(q)' = Side(q)
      BY <1>1, <2>1, <2>2, OthersStay DEF InCall
    <3> QED BY <1>1, <2>5, <3>1, NobodyMoves
  <2> QED BY <2>4, <2>6, <2>7, <2>8
<1> QED BY <1>3, <1>4

\* The module is asked, and what it said is remembered.
LEMMA OrderIsKept ==
  ASSUME NEW p, NEW order, Order(p, order)
  PROVE  /\ InCall(p) /\ Grows(guest, guest')
         /\ host[p].memory \in DOMAIN guest' /\ guest'[host[p].memory] = order
PROOF
  BY DEF Order, InCall, Grows

LEMMA AnswerIsReply ==
  ASSUME ModInv, Ample, NEW p \in ModPeer, InCall(p), NEW order \in Asks, "clock" \notin wasm.imports
  PROVE  Answer(p, order) = Reply(wasm, Side(p), order)
PROOF
<1>1. call \in Call /\ host[p].state = "running" /\ Usable
  BY DEF ModInv, ModTyped, Taken, InCall, Live
<1>2. order \in {"submit", "view", "random", "say", "grow"}
  <2>1. order \in {"submit", "view", "random", "say", "foreign", "grow"}
    BY ModulesAre DEF ModInv, ModTyped, Asks
  <2>2. "foreign" \notin wasm.imports
    BY <1>1 DEF Usable, ToSet, Imports
  <2> QED BY <2>1, <2>2 DEF Asks
<1>3. /\ Side(p).sim = peer[p] /\ Side(p).mod = host[p] /\ Side(p).call = Local(call)
  BY DEF Side
<1>4. /\ Context(Local(call)) <=> Context(call)
      /\ Local(call).commands = call.commands /\ Local(call).messages = call.messages
      /\ Local(call).draws = call.draws
  BY DEF Local, Context
<1>5. CASE order = "grow"
  <2>1. ASSUME host[p].pages < wasm.maximum
        PROVE  Affords(host[p].pages + 1)
    <3>1. /\ \A q \in ModPeer : host[q].pages \in 0 .. MaxPages
          /\ runtime.used = Cardinality(PagesOf(host, ModPeer))
      BY DEF ModInv, Budgeted, Pages, PagesOf
    <3>2. /\ runtime.used \in Nat
          /\ runtime.used + (MaxPages - host[p].pages) <= Cardinality(ModPeer) * MaxPages
      BY <3>1, PagesAreCounted
    <3>3. PICK used \in Nat, n \in Nat, m \in Nat, top \in Nat, whole \in Nat, b \in Nat :
            /\ used = runtime.used /\ n = host[p].pages /\ m = MaxPages /\ top = wasm.maximum
            /\ whole = Cardinality(ModPeer) * MaxPages /\ b = ModBudget
      <4>1. Cardinality(ModPeer) \in Nat
        BY ModAssumption, FS_CardinalityType
      <4>2. Cardinality(ModPeer) * MaxPages \in Nat
        BY <4>1, ModAssumption
      <4>3. wasm.maximum \in Nat /\ host[p].pages \in Nat
        BY <1>1, <3>1, ModAssumption DEF Usable
      <4> QED BY <3>2, <4>2, <4>3, ModAssumption
    <3>4. used + (m - n) <= whole /\ n < top /\ top <= m /\ whole + m - 1 <= b
      BY <1>1, <2>1, <3>2, <3>3 DEF Usable, Ample
    <3>5. used + (n + 1) <= b
      BY <3>4
    <3> QED BY <3>3, <3>5 DEF Affords
  <2>2. GrowAnswer(host[p]) = IF host[p].pages < wasm.maximum THEN "ok" ELSE "refused"
    BY <2>1 DEF GrowAnswer
  <2> QED BY <1>3, <1>5, <2>2 DEF Answer, Reply
<1>6. CASE order # "grow" /\ ~Context(call)
  BY <1>2, <1>3, <1>4, <1>6 DEF Answer, Reply
<1>7. CASE order # "grow" /\ Context(call)
  <2>1. CASE order = "submit"
    BY <1>3, <1>4, <1>7, <2>1 DEF Answer, Reply, SubmitAnswer
  <2>2. CASE order = "say"
    BY <1>3, <1>4, <1>7, <2>2 DEF Answer, Reply, SayAnswer
  <2>3. CASE order = "random"
    BY <1>3, <1>4, <1>7, <2>3 DEF Answer, Reply, ModSeed
  <2>4. CASE order = "view"
    BY <1>3, <1>4, <1>7, <2>4 DEF Answer, Reply
  <2> QED BY <1>2, <1>7, <2>1, <2>2, <2>3, <2>4
<1> QED BY <1>5, <1>6, <1>7

LEMMA PollKeepsInv ==
  ASSUME ModInv, NEW p \in ModPeer, Poll(p)
  PROVE  ModInv'
PROOF
<1> USE DEF ModInv
<1>1. /\ call = NoOne /\ peer[p].at = "starting" /\ Live(p)
      /\ UNCHANGED <<wasm, guest, outside, natives, runtime>>
  BY DEF Poll, Begun, Live
<1>2. Side(p) = [sim |-> peer[p], mod |-> host[p], call |-> NoCall]
  BY <1>1 DEF Side, InCall
<1>3. Moves(guest', Side(p)) /\ Grows(guest, guest')
  BY <1>1, <1>2 DEF Moves, NoCall, Grows
<1>4. Onward(wasm, outside, guest', Side(p)) = Polled(Side(p))
  BY <1>1, <1>2 DEF Onward, NoCall
<1>5. CASE host[p].state = "running"
  <2>1. /\ call' = NewCall(p, "tick") /\ peer' = peer
        /\ host' = [host EXCEPT ![p].memory = Append(host[p].memory, peer[p].tick)]
    BY <1>5 DEF Poll
  <2>2. /\ host'[p] = [host[p] EXCEPT !.memory = Append(host[p].memory, peer[p].tick)]
        /\ \A q \in ModPeer : q # p => host'[q] = host[q]
        /\ DOMAIN host' = ModPeer
    BY <2>1 DEF ModTyped
  <2>3. /\ {"state", "pages", "memory", "queue"} \subseteq DOMAIN host'[p]
        /\ host'[p].state = "running" /\ host'[p].pages = host[p].pages
    BY <1>5, <2>2 DEF ModTyped
  <2>4. call' \in Call /\ call'.peer = p /\ call' # NoOne /\ Local(call') = Opened("tick")
    BY <2>1, ModAssumption, NoOneAssumption DEF NewCall, Call, Local, Opened
  <2>5. ModTyped'
    BY <1>1, <2>1, <2>2, <2>3, <2>4 DEF ModTyped
  <2>6. \A q \in ModPeer : host'[q].state = host[q].state /\ host'[q].pages = host[q].pages
    BY <1>5, <2>2, <2>3
  <2>7. Budgeted'
    BY <1>1, <2>6, BudgetStays
  <2>8. Taken'
    BY <1>1, <2>6 DEF Taken, Usable, Live
  <2>9. Side(p)' = Polled(Side(p))
    BY <1>2, <1>5, <2>1, <2>2, <2>4 DEF Side, InCall, Polled
  <2>10. \A q \in ModPeer : q # p => Side(q)' = Side(q) /\ (Live(q)' <=> Live(q))
    BY <1>1, <2>1, <2>2, <2>4, OthersStay DEF InCall
  <2>11. Together'
    BY <1>1, <1>3, <1>4, <2>9, <2>10, OneMoves
  <2> QED BY <2>5, <2>7, <2>8, <2>11
<1>6. CASE host[p].state # "running"
  <2>1. /\ call' = call /\ host' = host /\ peer' = [peer EXCEPT ![p].at = "polled"]
    BY <1>6 DEF Poll
  <2>2. /\ peer'[p] = [peer[p] EXCEPT !.at = "polled"]
        /\ \A q \in ModPeer : q # p => peer'[q] = peer[q]
        /\ DOMAIN peer' = ModPeer
    BY <2>1 DEF ModTyped
  <2>3. ModTyped'
    <3>1. host[p].state # "none"
      BY <1>1 DEF Live
    <3> QED BY <1>1, <2>1, <2>2, <3>1 DEF ModTyped
  <2>4. Budgeted' /\ Taken'
    BY <1>1, <2>1 DEF Budgeted, Pages, Taken, Usable, Live
  <2>5. Side(p)' = Polled(Side(p))
    BY <1>1, <1>2, <1>6, <2>1, <2>2 DEF Side, InCall, Polled
  <2>6. \A q \in ModPeer : q # p => Side(q)' = Side(q) /\ (Live(q)' <=> Live(q))
    BY <1>1, <2>1, <2>2, OthersStay DEF InCall
  <2>7. Together'
    BY <1>1, <1>3, <1>4, <2>5, <2>6, OneMoves
  <2> QED BY <2>3, <2>4, <2>7
<1> QED BY <1>5, <1>6

LEMMA TickKeepsInv ==
  ASSUME ModInv, NEW p \in ModPeer, Tick(p)
  PROVE  ModInv'
PROOF
<1> USE DEF ModInv
<1>1. /\ peer[p].at = "polled" /\ peer' = [peer EXCEPT ![p] = Ticked(peer[p], outside[peer[p].tick])]
      /\ UNCHANGED <<wasm, guest, outside, natives, runtime, host, call>>
  BY DEF Tick
<1>2. /\ peer'[p] = Ticked(peer[p], outside[peer[p].tick])
      /\ \A q \in ModPeer : q # p => peer'[q] = peer[q]
      /\ DOMAIN peer' = ModPeer
  BY <1>1 DEF ModTyped
<1>3. host[p].state # "none"
  BY <1>1 DEF ModTyped, FreshSim
<1>4. ModTyped'
  BY <1>1, <1>2, <1>3 DEF ModTyped
<1>5. Budgeted' /\ Taken'
  BY <1>1 DEF Budgeted, Pages, Taken, Usable, Live
<1>6. \A q \in ModPeer : Live(q)' <=> Live(q)
  BY <1>1 DEF Live
<1>7. \A q \in ModPeer : q # p => Side(q)' = Side(q)
  BY <1>1, <1>2 DEF Side, InCall
<1>8. CASE ~Live(p)
  <2>1. Together'
    BY <1>1, <1>6, <1>7, <1>8, NobodyMoves
  <2> QED BY <1>4, <1>5, <2>1
<1>9. CASE Ample /\ Live(p) /\ "clock" \notin wasm.imports
  <2>1. IsSide(Side(p))
    BY <1>9 DEF Together, Trail
  <2>2. ~InCall(p)
    <3>1. ASSUME InCall(p)
          PROVE  FALSE
      <4>1. call \in Call /\ Side(p).call = Local(call) /\ Side(p).sim = peer[p]
        BY <3>1 DEF ModTyped, InCall, Side
      <4>2. Side(p).call.export # "none"
        BY <4>1 DEF Call, Local
      <4> QED BY <1>1, <2>1, <4>1, <4>2 DEF IsSide
    <3> QED BY <3>1
  <2>3. Side(p) = [sim |-> peer[p], mod |-> host[p], call |-> NoCall]
    BY <2>2 DEF Side
  <2>4. Side(p)' = [sim |-> Ticked(peer[p], outside[peer[p].tick]), mod |-> host[p], call |-> NoCall]
    BY <1>1, <1>2, <2>2 DEF Side, InCall
  <2>5. Side(p)' = Onward(wasm, outside, guest', Side(p))
    BY <1>1, <2>3, <2>4 DEF Onward, NoCall
  <2>6. Moves(guest', Side(p)) /\ Grows(guest, guest')
    BY <1>1, <2>3 DEF Moves, NoCall, Grows
  <2>7. Together'
    BY <1>1, <1>6, <1>7, <1>9, <2>5, <2>6, OneMoves
  <2> QED BY <1>4, <1>5, <2>7
<1>10. CASE ~Ample \/ "clock" \in wasm.imports
  <2>1. Together'
    BY <1>1, <1>10 DEF Together
  <2> QED BY <1>4, <1>5, <2>1
<1> QED BY <1>8, <1>9, <1>10

LEMMA CloseKeepsInv ==
  ASSUME ModInv, NEW p \in ModPeer, Close(p)
  PROVE  ModInv'
PROOF
<1> USE DEF ModInv
<1>1. /\ Live(p) /\ call = NoOne
      /\ host' = [host EXCEPT ![p] = [host[p] EXCEPT !.state = "closed", !.pages = 0, !.memory = <<>>]]
      /\ runtime' = [runtime EXCEPT !.used = runtime.used - host[p].pages]
      /\ UNCHANGED <<wasm, guest, outside, natives, peer, call>>
  BY DEF Close, Live
<1>2. /\ host'[p] = [host[p] EXCEPT !.state = "closed", !.pages = 0, !.memory = <<>>]
      /\ \A q \in ModPeer : q # p => host'[q] = host[q]
      /\ DOMAIN host' = ModPeer
  BY <1>1 DEF ModTyped
<1>3. /\ {"state", "pages", "memory", "queue"} \subseteq DOMAIN host'[p]
      /\ host'[p].state = "closed" /\ host'[p].pages = 0
  BY <1>2 DEF ModTyped
<1>4. Budgeted'
  <2>1. /\ runtime.used \in Nat /\ host[p].pages \in Nat /\ 0 \in 0 .. MaxPages
        /\ runtime'.used = runtime.used - host[p].pages
    BY <1>1, ModAssumption DEF ModTyped, Budgeted
  <2>2. runtime'.used = runtime.used + 0 - host[p].pages
    BY <2>1
  <2> QED BY <1>2, <1>3, <2>1, <2>2, BudgetFollows
<1>5. /\ {"alive", "debug", "used", "count"} \subseteq DOMAIN runtime' /\ runtime'.alive = runtime.alive
      /\ runtime'.used \in Nat
  <2>1. runtime'.used \in Nat
    <3>1. /\ \A q \in ModPeer : host'[q].pages \in 0 .. MaxPages
          /\ runtime'.used = Cardinality(PagesOf(host', ModPeer))
      BY <1>4 DEF Budgeted, Pages, PagesOf
    <3> QED BY <3>1, BudgetIsNat
  <2> QED BY <1>1, <2>1 DEF ModTyped
<1>6. ModTyped'
  BY <1>1, <1>2, <1>3, <1>5 DEF ModTyped
<1>7. \A q \in ModPeer : Live(q)' => q # p /\ Live(q)
  BY <1>2, <1>3 DEF Live
<1>8. Taken'
  BY <1>1, <1>5, <1>7 DEF Taken, Usable
<1>9. Together'
  <2>1. \A q \in ModPeer : q # p => Side(q)' = Side(q)
    BY <1>1, <1>2, OthersStay DEF InCall
  <2> QED BY <1>1, <1>7, <2>1, NobodyMoves
<1> QED BY <1>4, <1>6, <1>8, <1>9

LEMMA ImportKeepsInv ==
  ASSUME ModInv, NEW p \in ModPeer, NEW order \in Asks, Import(p, order)
  PROVE  ModInv'
PROOF
<1> USE DEF ModInv
<1> DEFINE a == Answer(p, order)
<1>1. /\ host' = [host EXCEPT ![p] = Told(host[p], peer[p].tick, order, a)]
      /\ peer' = [peer EXCEPT ![p] = Queued(peer[p], order, a)]
      /\ runtime' = [runtime EXCEPT !.used = IF order = "grow" /\ a = "ok" THEN runtime.used + 1 ELSE runtime.used]
      /\ call' = Spent(call, order, a)
      /\ UNCHANGED <<wasm, outside, natives>>
  BY DEF Import
<1>2. /\ InCall(p) /\ Grows(guest, guest')
      /\ host[p].memory \in DOMAIN guest' /\ guest'[host[p].memory] = order
  BY OrderIsKept DEF Import
<1>3. call \in Call /\ call.peer = p /\ host[p].state = "running" /\ Usable /\ runtime.alive
  BY <1>2 DEF ModTyped, InCall, Taken, Live
<1>4. order = "grow" /\ a = "ok" => host[p].pages < wasm.maximum
  BY DEF Answer, GrowAnswer
<1>5. Ample /\ "clock" \notin wasm.imports => a = Reply(wasm, Side(p), order)
  BY <1>2, AnswerIsReply
<1> HIDE DEF a
<1>6. /\ host'[p] = Told(host[p], peer[p].tick, order, a)
      /\ peer'[p] = Queued(peer[p], order, a)
      /\ \A q \in ModPeer : q # p => host'[q] = host[q] /\ peer'[q] = peer[q]
      /\ DOMAIN host' = ModPeer /\ DOMAIN peer' = ModPeer
  BY <1>1 DEF ModTyped
<1>7. /\ {"state", "pages", "memory", "queue"} \subseteq DOMAIN host'[p]
      /\ host'[p].state = "running"
      /\ host'[p].pages = IF order = "grow" /\ a = "ok" THEN host[p].pages + 1 ELSE host[p].pages
  BY <1>3, <1>6 DEF ModTyped, Told
<1>8. call' \in Call /\ call' # NoOne /\ call'.peer = p /\ Local(call') = Spent(Local(call), order, a)
  BY <1>1, <1>3, SpentIsACall, NoOneAssumption
<1>9. /\ {"alive", "debug", "used", "count"} \subseteq DOMAIN runtime' /\ runtime'.alive = runtime.alive
      /\ runtime'.used = IF order = "grow" /\ a = "ok" THEN runtime.used + 1 ELSE runtime.used
      /\ runtime'.used \in Nat
  BY <1>1 DEF ModTyped
<1>10. ModTyped'
  BY <1>1, <1>6, <1>7, <1>8, <1>9 DEF ModTyped
<1>11. Taken'
  BY <1>1, <1>3, <1>9 DEF Taken, Usable
<1>12. Budgeted'
  <2>1. host'[p].pages \in 0 .. MaxPages
    BY <1>3, <1>4, <1>7, ModAssumption DEF Budgeted, Usable
  <2>2. runtime'.used = runtime.used + host'[p].pages - host[p].pages
    BY <1>7, <1>9 DEF ModTyped, Budgeted
  <2> QED BY <1>6, <1>7, <2>1, <2>2, BudgetFollows
<1>13. Together'
  <2>1. CASE ~Ample \/ "clock" \in wasm.imports
    BY <1>1, <2>1 DEF Together
  <2>2. CASE Ample /\ "clock" \notin wasm.imports
    <3>1. Side(p) = [sim |-> peer[p], mod |-> host[p], call |-> Local(call)]
      BY <1>2 DEF Side
    <3>2. Side(p)' = [sim |-> peer'[p], mod |-> host'[p], call |-> Local(call')]
      BY <1>8 DEF Side, InCall
    <3>3. Side(p)' = Said(wasm, Side(p), order)
      BY <1>5, <1>6, <1>8, <2>2, <3>1, <3>2 DEF Said
    <3>4. order \notin {"return", "trap"}
      BY ModulesAre DEF ModTyped, Asks
    <3>5. Local(call).export \in {"init", "tick"}
      BY <1>3 DEF Local, Call
    <3>6. Side(p)' = Onward(wasm, outside, guest', Side(p))
      BY <1>2, <3>1, <3>3, <3>4, <3>5 DEF Onward, Obeyed
    <3>7. Moves(guest', Side(p))
      BY <1>2, <3>1 DEF Moves
    <3>8. \A q \in ModPeer : q # p => Side(q)' = Side(q) /\ (Live(q)' <=> Live(q))
      BY <1>3, <1>6, <1>8, OthersStay DEF InCall
    <3> QED BY <1>1, <1>2, <1>3, <3>6, <3>7, <3>8, OneMoves DEF Live
  <2> QED BY <2>1, <2>2
<1> QED BY <1>10, <1>11, <1>12, <1>13

LEMMA CallOverKeepsInv ==
  ASSUME ModInv, NEW p \in ModPeer, Return(p) \/ Trap(p)
  PROVE  ModInv'
PROOF
<1> USE DEF ModInv
<1>1. PICK order, state :
        /\ Order(p, order) /\ CallOver(p, state)
        /\ \/ order = "return" /\ state = "running"
           \/ order = "trap" /\ state = IF call.export = "init" THEN "refused" ELSE "disabled"
  BY DEF Return, Trap
<1>2. /\ host' = [host EXCEPT ![p] = Rested(host[p], call, state)]
      /\ peer' = [peer EXCEPT ![p] = Heard(peer[p], host[p], call)]
      /\ runtime' = [runtime EXCEPT !.used = IF state # "running" THEN runtime.used - host[p].pages ELSE runtime.used]
      /\ call' = NoOne
      /\ UNCHANGED <<wasm, outside, natives>>
  BY <1>1 DEF CallOver
<1>3. /\ InCall(p) /\ Grows(guest, guest')
      /\ host[p].memory \in DOMAIN guest' /\ guest'[host[p].memory] = order
  BY <1>1, OrderIsKept
<1>4. call \in Call /\ call.peer = p /\ host[p].state = "running" /\ Usable /\ runtime.alive
  BY <1>3 DEF ModTyped, InCall, Taken, Live
<1>5. state \in {"running", "refused", "disabled"}
  BY <1>1
<1>6. /\ host'[p] = Rested(host[p], call, state)
      /\ peer'[p] = Heard(peer[p], host[p], call)
      /\ \A q \in ModPeer : q # p => host'[q] = host[q] /\ peer'[q] = peer[q]
      /\ DOMAIN host' = ModPeer /\ DOMAIN peer' = ModPeer
  BY <1>2 DEF ModTyped
<1>7. /\ {"state", "pages", "memory", "queue"} \subseteq DOMAIN host'[p]
      /\ host'[p].state = state
      /\ host'[p].pages = IF state # "running" THEN 0 ELSE host[p].pages
  BY <1>6 DEF ModTyped, Rested
<1>8. Budgeted'
  <2>1. /\ runtime.used \in Nat /\ host[p].pages \in 0 .. MaxPages /\ host[p].pages \in Nat
        /\ 0 \in 0 .. MaxPages
        /\ runtime'.used = IF state # "running" THEN runtime.used - host[p].pages ELSE runtime.used
    BY <1>2, ModAssumption DEF ModTyped, Budgeted
  <2>2. host'[p].pages \in 0 .. MaxPages /\ (host'[p].pages # 0 => host'[p].state = "running")
    BY <1>7, <2>1
  <2>3. runtime'.used = runtime.used + host'[p].pages - host[p].pages
    BY <1>7, <2>1
  <2> QED BY <1>6, <2>2, <2>3, BudgetFollows
<1>9. /\ {"alive", "debug", "used", "count"} \subseteq DOMAIN runtime' /\ runtime'.alive = runtime.alive
      /\ runtime'.used \in Nat
  <2>1. runtime'.used \in Nat
    <3>1. /\ \A q \in ModPeer : host'[q].pages \in 0 .. MaxPages
          /\ runtime'.used = Cardinality(PagesOf(host', ModPeer))
      BY <1>8 DEF Budgeted, Pages, PagesOf
    <3> QED BY <3>1, BudgetIsNat
  <2> QED BY <1>2, <2>1 DEF ModTyped
<1>10. ModTyped'
  BY <1>2, <1>5, <1>6, <1>7, <1>9 DEF ModTyped
<1>11. Taken'
  BY <1>2, <1>4, <1>9 DEF Taken, Usable
<1>12. Together'
  <2>1. Side(p) = [sim |-> peer[p], mod |-> host[p], call |-> Local(call)]
    BY <1>3 DEF Side
  <2>2. Side(p)' = [sim |-> peer'[p], mod |-> host'[p], call |-> NoCall]
    BY <1>2 DEF Side, InCall
  <2>3. /\ Local(call).export = call.export /\ call.export \in {"init", "tick"}
        /\ Context(Local(call)) <=> Context(call)
    BY <1>4 DEF Local, Call, Context
  <2>4. Rested(host[p], Local(call), state) = Rested(host[p], call, state)
    BY <2>3 DEF Rested
  <2>5. Heard(peer[p], host[p], Local(call)) = Heard(peer[p], host[p], call)
    BY <2>3 DEF Heard
  <2>6. Side(p)' = Over(Side(p), state)
    BY <1>6, <2>1, <2>2, <2>4, <2>5 DEF Over
  <2>7. Obeyed(wasm, Side(p), order) = Over(Side(p), state)
    BY <1>1, <2>1, <2>3 DEF Obeyed
  <2>8. Side(p)' = Onward(wasm, outside, guest', Side(p))
    BY <1>3, <2>1, <2>3, <2>6, <2>7 DEF Onward
  <2>9. Moves(guest', Side(p))
    BY <1>3, <2>1 DEF Moves
  <2>10. \A q \in ModPeer : q # p => Side(q)' = Side(q) /\ (Live(q)' <=> Live(q))
    BY <1>2, <1>4, <1>6, OthersStay DEF InCall
  <2> QED BY <1>2, <1>3, <1>4, <2>8, <2>9, <2>10, OneMoves DEF Live
<1> QED BY <1>8, <1>10, <1>11, <1>12

LEMMA ModNextKeepsInv == ModInv /\ [ModNext]_modVars => ModInv'
PROOF
<1> SUFFICES ASSUME ModInv, [ModNext]_modVars
             PROVE  ModInv'
  OBVIOUS
<1>1. ASSUME NEW debug \in BOOLEAN, CreateRuntime(debug)
      PROVE  ModInv'
  BY <1>1, RuntimeKeepsInv
<1>2. CASE DestroyRuntime
  <2>1. TRUE \in BOOLEAN
    OBVIOUS
  <2> QED BY <1>2, <2>1, RuntimeKeepsInv
<1>3. ASSUME NEW p \in ModPeer, Attach(p)
      PROVE  ModInv'
  BY <1>3, AttachKeepsInv
<1>4. ASSUME NEW p \in ModPeer, Poll(p)
      PROVE  ModInv'
  BY <1>4, PollKeepsInv
<1>5. ASSUME NEW p \in ModPeer, Return(p) \/ Trap(p)
      PROVE  ModInv'
  BY <1>5, CallOverKeepsInv
<1>6. ASSUME NEW p \in ModPeer, Tick(p)
      PROVE  ModInv'
  BY <1>6, TickKeepsInv
<1>7. ASSUME NEW p \in ModPeer, Close(p)
      PROVE  ModInv'
  BY <1>7, CloseKeepsInv
<1>8. ASSUME NEW p \in ModPeer, NEW order \in Asks, Import(p, order)
      PROVE  ModInv'
  BY <1>8, ImportKeepsInv
<1>9. CASE UNCHANGED modVars
  <2>1. /\ UNCHANGED <<wasm, guest, outside, natives, runtime, host, peer, call>>
    BY <1>9 DEF modVars
  <2>2. ModTyped' /\ Taken' /\ Budgeted'
    BY <2>1 DEF ModInv, ModTyped, Taken, Usable, Budgeted, Pages, Live
  <2>3. Together'
    BY <2>1, NobodyMoves DEF ModInv, Live, Side, InCall
  <2> QED BY <2>2, <2>3 DEF ModInv
<1> QED
  BY <1>1, <1>2, <1>3, <1>4, <1>5, <1>6, <1>7, <1>8, <1>9 DEF ModNext

\* For any number of peers, any module the loader takes, and any budget in which
\* every instance can grow as far as it may: peers that have come as far have the
\* same world, the same commands under way, and a mod that knows and has said the
\* same, in whatever order they run (ModHost::poll, Mod::tick).
THEOREM PeersStayTogether == ASSUME Ample PROVE ModSpec => []PeersAgreeOnMods
PROOF
<1>1. ModInit => ModInv
  BY ModInitInv
<1>2. ModInv /\ [ModNext]_modVars => ModInv'
  BY ModNextKeepsInv
<1>3. ModInv => PeersAgreeOnMods
  BY AgreedIfTogether
<1> QED
  BY <1>1, <1>2, <1>3, PTL DEF ModSpec

\* A live runtime was handed what the loader permits, sorted.
Handed(n, debug) == IF debug THEN n.all ELSE n.safe
Offering == runtime.alive => Handed(natives, runtime.debug) = Sorted(Chosen(Imports, runtime.debug))

\* Sorting leaves the names as they are, and without the clock there are the safe ones.
Names == {"tick", "submit", "random", "log", "view", "say", "clock"}

LEMMA ChosenAre ==
  /\ Chosen(Imports, TRUE) = Imports /\ Chosen(Imports, FALSE) = SubSeq(Imports, 1, 6)
  /\ ToSet(Imports) = Names
  /\ ToSet(SubSeq(Imports, 1, 6)) = {"tick", "submit", "random", "log", "view", "say"}
PROOF
<1>1. Len(Imports) = 7
  BY DEF Imports
<1>2. Chosen(Imports, FALSE) = SubSeq(Imports, 1, 6) /\ Chosen(Imports, TRUE) = Imports
  BY <1>1 DEF Chosen, SafeCount
<1>3. /\ Imports[1] = "tick" /\ Imports[2] = "submit" /\ Imports[3] = "random"
      /\ Imports[4] = "log" /\ Imports[5] = "view" /\ Imports[6] = "say" /\ Imports[7] = "clock"
  BY DEF Imports
<1>4. Imports \in Seq(Names)
  BY DEF Imports, Names
<1> DEFINE safe == SubSeq(Imports, 1, 6)
<1>5. DOMAIN Imports = 1 .. 7 /\ DOMAIN safe = 1 .. 6 /\ \A i \in 1 .. 6 : safe[i] = Imports[i]
  <2>1. Len(safe) = 6 /\ safe \in Seq(Names)
    BY <1>1, <1>4
  <2>2. \A i \in 1 .. 6 : safe[i] = Imports[i]
    BY <1>1, <1>4
  <2> QED BY <1>1, <1>4, <2>1, <2>2
<1>6. 1 .. 6 = {1, 2, 3, 4, 5, 6} /\ 1 .. 7 = {1, 2, 3, 4, 5, 6, 7}
  OBVIOUS
<1> HIDE DEF safe
<1>7. ToSet(safe) = {safe[i] : i \in {1, 2, 3, 4, 5, 6}}
  BY <1>5, <1>6 DEF ToSet
<1>8. ToSet(Imports) = {Imports[i] : i \in {1, 2, 3, 4, 5, 6, 7}}
  BY <1>5, <1>6 DEF ToSet
<1>9. ToSet(safe) = {"tick", "submit", "random", "log", "view", "say"}
  BY <1>3, <1>5, <1>6, <1>7
<1>10. ToSet(Imports) = Names
  BY <1>3, <1>8 DEF Names
<1> QED BY <1>2, <1>9, <1>10 DEF safe

\* Two sequences of names, one after the other, have the names of both.
LEMMA JoinedNames ==
  ASSUME NEW s \in Seq(Names), NEW t \in Seq(Names)
  PROVE  s \o t \in Seq(Names) /\ ToSet(s \o t) = ToSet(s) \cup ToSet(t)
PROOF
<1> DEFINE both == s \o t
<1>1. PICK m \in Nat, n \in Nat : m = Len(s) /\ n = Len(t)
  OBVIOUS
<1>2. both \in Seq(Names) /\ Len(both) = m + n
  BY <1>1
<1>3. \A i \in 1 .. m : both[i] = s[i]
  BY <1>1
<1>4. \A i \in (m + 1) .. (m + n) : both[i] = t[i - m]
  BY <1>1
<1>5. DOMAIN s = 1 .. m /\ DOMAIN t = 1 .. n /\ DOMAIN both = 1 .. (m + n)
  BY <1>1, <1>2
<1> HIDE DEF both
<1>6. ASSUME NEW i \in 1 .. m
      PROVE  s[i] \in ToSet(both)
  <2>1. i \in 1 .. (m + n)
    OBVIOUS
  <2> QED BY <1>3, <1>5, <2>1 DEF ToSet
<1>7. ASSUME NEW i \in 1 .. n
      PROVE  t[i] \in ToSet(both)
  <2>1. m + i \in (m + 1) .. (m + n) /\ m + i \in 1 .. (m + n) /\ (m + i) - m = i
    OBVIOUS
  <2>2. both[m + i] = t[i]
    BY <1>4, <2>1
  <2> QED BY <1>5, <2>1, <2>2 DEF ToSet
<1>8. ASSUME NEW i \in 1 .. (m + n)
      PROVE  both[i] \in ToSet(s) \cup ToSet(t)
  <2>1. CASE i <= m
    <3>1. i \in 1 .. m
      BY <2>1
    <3> QED BY <1>3, <1>5, <3>1 DEF ToSet
  <2>2. CASE i > m
    <3>1. i \in (m + 1) .. (m + n) /\ i - m \in 1 .. n
      BY <2>2
    <3> QED BY <1>4, <1>5, <3>1 DEF ToSet
  <2> QED BY <2>1, <2>2
<1>9. ToSet(both) = ToSet(s) \cup ToSet(t)
  <2>1. ToSet(s) \subseteq ToSet(both)
    BY <1>5, <1>6 DEF ToSet
  <2>2. ToSet(t) \subseteq ToSet(both)
    BY <1>5, <1>7 DEF ToSet
  <2>3. ToSet(both) \subseteq ToSet(s) \cup ToSet(t)
    BY <1>5, <1>8 DEF ToSet
  <2> QED BY <2>1, <2>2, <2>3
<1> QED BY <1>2, <1>9 DEF both

LEMMA SortedAre ==
  ASSUME NEW names, ToSet(names) \subseteq Names
  PROVE  ToSet(Sorted(names)) = ToSet(names)
PROOF
<1> DEFINE Has(s, S) == s \in Seq(Names) /\ ToSet(s) = ToSet(names) \cap S
<1>1. ASSUME NEW s, NEW S, NEW n \in Names, Has(s, S)
      PROVE  Has(s \o Entry(names, n), S \cup {n})
  <2>1. Has(Entry(names, n), {n})
    <3>1. CASE n \in ToSet(names)
      <4>1. Entry(names, n) = <<n>>
        BY <3>1 DEF Entry
      <4>2. <<n>> \in Seq(Names) /\ ToSet(<<n>>) = {n}
        BY DEF ToSet
      <4> QED BY <3>1, <4>1, <4>2
    <3>2. CASE n \notin ToSet(names)
      <4>1. Entry(names, n) = <<>>
        BY <3>2 DEF Entry
      <4>2. <<>> \in Seq(Names) /\ ToSet(<<>>) = {}
        BY DEF ToSet
      <4> QED BY <3>2, <4>1, <4>2
    <3> QED BY <3>1, <3>2
  <2> QED BY <1>1, <2>1, JoinedNames
<1>2. Has(<<>> , {})
  BY DEF ToSet
<1> DEFINE a == <<>> \o Entry(names, "clock")
           b == a \o Entry(names, "log")
           c == b \o Entry(names, "random")
           d == c \o Entry(names, "say")
           e == d \o Entry(names, "submit")
           f == e \o Entry(names, "tick")
           g == f \o Entry(names, "view")
<1>0. /\ "clock" \in Names /\ "log" \in Names /\ "random" \in Names /\ "say" \in Names
      /\ "submit" \in Names /\ "tick" \in Names /\ "view" \in Names
  BY DEF Names
<1> HIDE DEF Has
<1>3. Has(a, {} \cup {"clock"})
  BY <1>0, <1>1, <1>2
<1> HIDE DEF a
<1>4. Has(b, ({} \cup {"clock"}) \cup {"log"})
  BY <1>0, <1>1, <1>3
<1> HIDE DEF b
<1>5. Has(c, {"clock", "log"} \cup {"random"})
  <2>1. ({} \cup {"clock"}) \cup {"log"} = {"clock", "log"}
    OBVIOUS
  <2>2. Has(b, {"clock", "log"})
    BY <1>4, <2>1
  <2> QED BY <1>0, <1>1, <2>2
<1> HIDE DEF c
<1>6. Has(d, {"clock", "log", "random"} \cup {"say"})
  <2>1. {"clock", "log"} \cup {"random"} = {"clock", "log", "random"}
    OBVIOUS
  <2>2. Has(c, {"clock", "log", "random"})
    BY <1>5, <2>1
  <2> QED BY <1>0, <1>1, <2>2
<1> HIDE DEF d
<1>7. Has(e, {"clock", "log", "random", "say"} \cup {"submit"})
  <2>1. {"clock", "log", "random"} \cup {"say"} = {"clock", "log", "random", "say"}
    OBVIOUS
  <2>2. Has(d, {"clock", "log", "random", "say"})
    BY <1>6, <2>1
  <2> QED BY <1>0, <1>1, <2>2
<1> HIDE DEF e
<1>8. Has(f, {"clock", "log", "random", "say", "submit"} \cup {"tick"})
  <2>1. {"clock", "log", "random", "say"} \cup {"submit"} = {"clock", "log", "random", "say", "submit"}
    OBVIOUS
  <2>2. Has(e, {"clock", "log", "random", "say", "submit"})
    BY <1>7, <2>1
  <2> QED BY <1>0, <1>1, <2>2
<1> HIDE DEF f
<1>9. Has(g, {"clock", "log", "random", "say", "submit", "tick"} \cup {"view"})
  <2>1. {"clock", "log", "random", "say", "submit"} \cup {"tick"}
          = {"clock", "log", "random", "say", "submit", "tick"}
    OBVIOUS
  <2>2. Has(f, {"clock", "log", "random", "say", "submit", "tick"})
    BY <1>8, <2>1
  <2> QED BY <1>0, <1>1, <2>2
<1>10. Sorted(names) = g
  <2>1. Entry(names, "clock") \in Seq(Names)
    BY <1>0 DEF Entry
  <2>2. a = Entry(names, "clock")
    BY <2>1 DEF a
  <2> QED BY <2>2 DEF Sorted, b, c, d, e, f
<1> HIDE DEF g
<1> QED BY <1>9, <1>10 DEF Has, Names

LEMMA OfferingStays == ModTyped /\ Offering /\ [ModNext]_modVars => Offering'
PROOF
<1> SUFFICES ASSUME ModTyped, Offering, [ModNext]_modVars
             PROVE  Offering'
  OBVIOUS
<1>1. ASSUME NEW debug \in BOOLEAN, CreateRuntime(debug)
      PROVE  Offering'
  <2>1. natives' = Register(natives, debug) /\ runtime'.debug = debug
    BY <1>1 DEF CreateRuntime
  <2>2. {"table", "safe", "all"} \subseteq DOMAIN natives /\ natives.table = Imports
    BY DEF ModTyped
  <2>3. Handed(natives', debug) = Sorted(Chosen(Imports, debug))
    BY <2>1, <2>2 DEF Register, Handed
  <2> QED BY <2>1, <2>3 DEF Offering
<1>2. ASSUME natives' = natives, runtime'.debug = runtime.debug, runtime'.alive => runtime.alive
      PROVE  Offering'
  BY <1>2 DEF Offering
<1>3. {"alive", "debug", "used", "count"} \subseteq DOMAIN runtime
  BY DEF ModTyped
<1>4. CASE DestroyRuntime
  <2>1. natives' = natives /\ runtime'.debug = runtime.debug /\ runtime'.alive = FALSE
    BY <1>3, <1>4 DEF DestroyRuntime
  <2> QED BY <1>2, <2>1
<1>5. ASSUME natives' = natives, NEW n, runtime' = runtime \/ runtime' = [runtime EXCEPT !.used = n]
      PROVE  Offering'
  <2>1. runtime'.debug = runtime.debug /\ runtime'.alive = runtime.alive
    BY <1>3, <1>5
  <2> QED BY <1>2, <1>5, <2>1
<1>6. ASSUME NEW p \in ModPeer, Attach(p) \/ Poll(p) \/ Tick(p) \/ Close(p)
      PROVE  natives' = natives /\ \E n : runtime' = runtime \/ runtime' = [runtime EXCEPT !.used = n]
  BY <1>6 DEF Attach, Poll, Tick, Close
<1>7. ASSUME NEW p \in ModPeer, Return(p) \/ Trap(p)
      PROVE  natives' = natives /\ \E n : runtime' = runtime \/ runtime' = [runtime EXCEPT !.used = n]
  BY <1>7 DEF Return, Trap, CallOver
<1>8. ASSUME NEW p \in ModPeer, NEW order \in Asks, Import(p, order)
      PROVE  natives' = natives /\ \E n : runtime' = runtime \/ runtime' = [runtime EXCEPT !.used = n]
  BY <1>8 DEF Import
<1>9. CASE UNCHANGED modVars
  BY <1>2, <1>9 DEF modVars
<1> QED
  BY <1>1, <1>4, <1>5, <1>6, <1>7, <1>8, <1>9 DEF ModNext

\* For any module, any budget and however runtimes come and go: each offers what
\* the loader permits, the clock only when asked to, though WAMR sorts the table it
\* is handed; and what is spent of the budget is what the instances that live hold
\* (register_host_imports, counted_malloc, Mod::disable).
THEOREM RuntimesAreKept == ModSpec => []RuntimeKept
PROOF
<1>1. ModInit => ModInv /\ Offering
  BY ModInitInv DEF ModInit, Offering
<1>2. ModInv /\ Offering /\ [ModNext]_modVars => (ModInv /\ Offering)'
  BY ModNextKeepsInv, OfferingStays DEF ModInv
<1>3. ModInv /\ Offering => RuntimeKept
  <2> SUFFICES ASSUME ModInv, Offering
               PROVE  RuntimeKept
    OBVIOUS
  <2>1. runtime.used = Cardinality(Pages) /\ natives.table = Imports
    BY DEF ModInv, Budgeted, ModTyped
  <2>2. ASSUME runtime.alive, runtime.debug
        PROVE  /\ Offered(natives, runtime.debug) = ToSet(Imports)
               /\ Permitted(natives, runtime.debug) = ToSet(Imports)
    <3>1. natives.all = Sorted(Imports)
      BY <2>2, ChosenAre DEF Offering, Handed, Chosen
    <3>2. ToSet(Sorted(Imports)) = ToSet(Imports)
      BY ChosenAre, SortedAre DEF Names
    <3>3. Offered(natives, runtime.debug) = ToSet(natives.all)
      BY <2>2 DEF Offered
    <3>4. Permitted(natives, runtime.debug) = ToSet(Imports)
      BY <2>1, <2>2 DEF Permitted, Chosen
    <3> QED BY <3>1, <3>2, <3>3, <3>4
  <2>3. ASSUME runtime.alive, ~runtime.debug
        PROVE  /\ Offered(natives, runtime.debug) = ToSet(SubSeq(Imports, 1, 6))
               /\ Permitted(natives, runtime.debug) = ToSet(SubSeq(Imports, 1, 6))
    <3>1. Chosen(Imports, runtime.debug) = SubSeq(Imports, 1, 6)
      BY <2>3, ChosenAre DEF Chosen
    <3>2. ToSet(Sorted(SubSeq(Imports, 1, 6))) = ToSet(SubSeq(Imports, 1, 6))
      BY ChosenAre, SortedAre DEF Names
    <3>3. Offered(natives, runtime.debug) = ToSet(natives.safe)
      BY <2>3 DEF Offered
    <3>4. natives.safe = Sorted(SubSeq(Imports, 1, 6))
      BY <2>3, <3>1 DEF Offering, Handed
    <3>5. Permitted(natives, runtime.debug) = ToSet(SubSeq(Imports, 1, 6))
      BY <2>1, <3>1 DEF Permitted
    <3> QED BY <3>2, <3>3, <3>4, <3>5
  <2> QED BY <2>1, <2>2, <2>3, ChosenAre DEF RuntimeKept, Names
<1> QED
  BY <1>1, <1>2, <1>3, PTL DEF ModSpec
==============================================================================
