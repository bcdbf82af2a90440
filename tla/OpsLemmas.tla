------------------------------ MODULE OpsLemmas ------------------------------
(***************************************************************************)
(* What the operators of GateOps and KernelOps return, for the proofs of   *)
(* the machines that are built from them.                                  *)
(***************************************************************************)
EXTENDS GateOps, KernelOps, TLAPS, FiniteSetTheorems, WellFoundedInduction

Cmd == [target : Nat, source : Peer, sequence : Nat, cell : Cell]

Entry == Cmd \X (Nat \ {0})

\* A nonempty set of naturals has a least element: what an induction on naturals
\* rests on here.
LEMMA LeastElement ==
  ASSUME NEW S \in SUBSET Nat, S # {}
  PROVE  \E n \in S : \A m \in S : n <= m
<1> DEFINE R == OpToRel(<, Nat)
<1>1. IsWellFoundedOn(R, Nat)
  BY NatLessThanWellFounded
<1> HIDE DEF R
<1>2. PICK n \in S : \A m \in S : ~ (<<m, n>> \in R)
  BY <1>1, WFMin
<1>3. \A m \in S : ~ (m < n)
  BY <1>2 DEF R, OpToRel
<1> QED
  BY <1>3

------------------------------------------------------------------------------
\* consecutive completed turns that mark_complete absorbs.
LEMMA FirstGapIsLeast ==
  ASSUME NEW window \in SUBSET Offset
  PROVE  /\ FirstGap(window) \in 0 .. Lookahead
         /\ FirstGap(window) \notin window
         /\ \A m \in 0 .. (FirstGap(window) - 1) : m \in window
<1> USE LookaheadAssumption
<1> DEFINE missing == {n \in 0 .. Lookahead : n \notin window}
<1>1. Lookahead \in missing
  BY DEF Offset
<1>2. PICK n \in missing : \A m \in missing : n <= m
  <2>1. missing \in SUBSET Nat /\ missing # {}
    BY <1>1
  <2> HIDE DEF missing
  <2> QED
    BY <2>1, LeastElement
<1>3. \A m \in 0 .. (n - 1) : m \in window
  BY <1>2
<1>4. \E k \in 0 .. Lookahead : k \notin window /\ \A m \in 0 .. (k - 1) : m \in window
  BY <1>2, <1>3
<1> QED
  BY <1>4 DEF FirstGap

\* Absorbing changes the representation and not the set of completed turns:
\* the frontier only advances, bit 0 ends clear, and frontier and window
\* together denote exactly the turns they denoted before.
LEMMA AbsorbKeepsTurns ==
  ASSUME NEW frontier \in Nat, NEW window \in SUBSET Offset
  PROVE  /\ Absorb(frontier, window) \in Progress
         /\ 0 \notin Absorb(frontier, window).ahead
         /\ Absorb(frontier, window).completeBefore >= frontier
         /\ CompletedTicks(Absorb(frontier, window))
              = 0 .. (frontier - 1) \cup {frontier + offset : offset \in window}
<1> USE LookaheadAssumption
<1> DEFINE gap == FirstGap(window)
           after == Absorb(frontier, window)
<1>1. /\ gap \in 0 .. Lookahead
      /\ gap \notin window
      /\ \A m \in 0 .. (gap - 1) : m \in window
  BY FirstGapIsLeast
<1>2. /\ after.completeBefore = frontier + gap
      /\ after.ahead = {offset \in Offset : offset + gap \in window}
  BY DEF Absorb
<1>3. after \in Progress
  BY <1>1 DEF Absorb, Progress
<1>4. 0 \notin after.ahead
  BY <1>1, <1>2
<1> HIDE DEF gap, after
<1>5. CompletedTicks(after) \subseteq 0 .. (frontier - 1) \cup {frontier + offset : offset \in window}
  <2> SUFFICES ASSUME NEW t \in CompletedTicks(after)
               PROVE  t \in 0 .. (frontier - 1) \cup {frontier + offset : offset \in window}
    OBVIOUS
  <2>1. CASE t \in 0 .. (frontier + gap - 1)
    <3>1. CASE t < frontier
      BY <2>1, <3>1, <1>1
    <3>2. CASE ~(t < frontier)
      <4>1. t - frontier \in 0 .. (gap - 1) /\ t = frontier + (t - frontier)
        BY <2>1, <3>2, <1>1
      <4> QED
        BY <4>1, <1>1
    <3> QED
      BY <3>1, <3>2
  <2>2. CASE t \in {frontier + gap + offset : offset \in after.ahead}
    <3>1. PICK offset \in after.ahead : t = frontier + gap + offset
      BY <2>2
    <3>2. offset + gap \in window /\ t = frontier + (offset + gap)
      BY <3>1, <1>1, <1>2 DEF Offset
    <3> QED
      BY <3>2
  <2>3. \/ t \in 0 .. (frontier + gap - 1)
        \/ t \in {frontier + gap + offset : offset \in after.ahead}
    BY <1>1, <1>2 DEF CompletedTicks
  <2> QED
    BY <2>1, <2>2, <2>3
<1>6. 0 .. (frontier - 1) \cup {frontier + offset : offset \in window} \subseteq CompletedTicks(after)
  <2>1. 0 .. (frontier - 1) \subseteq CompletedTicks(after)
    BY <1>1, <1>2 DEF CompletedTicks
  <2>2. ASSUME NEW offset \in window
        PROVE  frontier + offset \in CompletedTicks(after)
    <3>1. CASE offset < gap
      BY <2>2, <3>1, <1>1, <1>2 DEF CompletedTicks, Offset
    <3>2. CASE ~(offset < gap)
      <4>1. offset - gap \in Offset /\ (offset - gap) + gap = offset
        BY <2>2, <3>2, <1>1 DEF Offset
      <4>2. offset - gap \in after.ahead
        BY <4>1, <1>2, <2>2
      <4>3. frontier + offset = after.completeBefore + (offset - gap)
        BY <4>1, <1>1, <1>2 DEF Offset
      <4> QED
        BY <4>2, <4>3 DEF CompletedTicks
    <3> QED
      BY <3>1, <3>2
  <2> QED
    BY <2>1, <2>2
<1> QED
  <2>1. after.completeBefore >= frontier
    BY <1>1, <1>2
  <2> QED
    BY <2>1, <1>3, <1>4, <1>5, <1>6 DEF after

------------------------------------------------------------------------------
\* The parts of a command are ordered as integers.
LEMMA Fields ==
  ASSUME NEW c \in Cmd
  PROVE  c.source \in Int /\ c.sequence \in Int /\ c.cell \in Int /\ c.target \in Int
<1>1. c.source \in Peer /\ c.cell \in Cell /\ c.sequence \in Nat /\ c.target \in Nat
  BY DEF Cmd
<1>2. c.source \in Int /\ c.cell \in Int
  BY <1>1, SourcesAssumption, Zenon
<1>3. c.sequence \in Int /\ c.target \in Int
  BY <1>1
<1> QED
  BY <1>2, <1>3

\* The order of a tick's commands is total on what the queue can hold.
LEMMA PrecedesIsTotal ==
  ASSUME NEW a \in Cmd, NEW b \in Cmd
  PROVE  /\ Precedes(a, b) \/ Precedes(b, a)
         /\ Precedes(a, b) /\ Precedes(b, a) => a = b
         /\ Precedes(a, a)
<1>1. a.source \in Int /\ a.cell \in Int /\ a.sequence \in Int /\ a.target \in Int
  BY Fields
<1>2. b.source \in Int /\ b.cell \in Int /\ b.sequence \in Int /\ b.target \in Int
  BY Fields
<1>3. a = b <=> a.source = b.source /\ a.cell = b.cell /\ a.sequence = b.sequence /\ a.target = b.target
  BY DEF Cmd
<1> QED
  BY <1>1, <1>2, <1>3 DEF Precedes

LEMMA PrecedesIsTransitive ==
  ASSUME NEW a \in Cmd, NEW b \in Cmd, NEW c \in Cmd, Precedes(a, b), Precedes(b, c)
  PROVE  Precedes(a, c)
<1>1. \A x \in Cmd : x.source \in Int /\ x.cell \in Int /\ x.sequence \in Int /\ x.target \in Int
  BY Fields
<1> QED
  BY <1>1 DEF Precedes

LEMMA BeforeIsTotal ==
  ASSUME NEW a \in Entry, NEW b \in Entry
  PROVE  /\ Before(a, b) \/ Before(b, a)
         /\ Before(a, b) /\ Before(b, a) => a = b
         /\ Before(a, a)
<1>1. a[1] \in Cmd /\ b[1] \in Cmd /\ a[2] \in Int /\ b[2] \in Int
  BY DEF Entry
<1>2. a = b <=> a[1] = b[1] /\ a[2] = b[2]
  BY DEF Entry
<1> QED
  BY <1>1, <1>2, PrecedesIsTotal DEF Before

LEMMA BeforeIsTransitive ==
  ASSUME NEW a \in Entry, NEW b \in Entry, NEW c \in Entry, Before(a, b), Before(b, c)
  PROVE  Before(a, c)
<1>1. a[1] \in Cmd /\ b[1] \in Cmd /\ c[1] \in Cmd /\ a[2] \in Int /\ b[2] \in Int /\ c[2] \in Int
  BY DEF Entry
<1>2. Precedes(a[1], b[1]) /\ Precedes(b[1], c[1]) /\ Precedes(a[1], c[1])
  BY <1>1, PrecedesIsTransitive DEF Before
<1>3. a[1] = c[1] => a[1] = b[1]
  BY <1>1, <1>2, PrecedesIsTotal
<1> QED
  BY <1>1, <1>2, <1>3 DEF Before

\* Counting what comes before is an order-preserving numbering of the due
\* entries by 1 .. n: sorting by places loses none and repeats none.
LEMMA PlacesAreANumbering ==
  ASSUME NEW due \in SUBSET Entry, IsFiniteSet(due)
  PROVE  /\ \A e \in due : Place(due, e) \in 1 .. Cardinality(due)
         /\ \A d, e \in due : Place(due, d) <= Place(due, e) <=> Before(d, e)
         /\ \A i \in 1 .. Cardinality(due) : \E e \in due : Place(due, e) = i
<1> DEFINE down(e) == {d \in due : Before(d, e)}
           n == Cardinality(due)
<1>1. \A e \in due : /\ IsFiniteSet(down(e)) /\ Cardinality(down(e)) \in Nat
                     /\ Cardinality(down(e)) <= n
                     /\ e \in down(e)
  <2> SUFFICES ASSUME NEW e \in due
               PROVE  /\ IsFiniteSet(down(e)) /\ Cardinality(down(e)) \in Nat
                      /\ Cardinality(down(e)) <= n
                      /\ e \in down(e)
    OBVIOUS
  <2>1. down(e) \in SUBSET due
    OBVIOUS
  <2>2. e \in down(e)
    BY BeforeIsTotal
  <2> HIDE DEF down
  <2> QED
    BY <2>1, <2>2, FS_Subset, FS_CardinalityType
<1>2. n \in Nat
  BY FS_CardinalityType
<1>3. \A e \in due : Place(due, e) = Cardinality(down(e)) /\ Place(due, e) \in 1 .. n
  <2> SUFFICES ASSUME NEW e \in due
               PROVE  Place(due, e) = Cardinality(down(e)) /\ Place(due, e) \in 1 .. n
    OBVIOUS
  <2>1. Place(due, e) = Cardinality(down(e))
    BY DEF Place
  <2>2. down(e) # {}
    BY <1>1
  <2> HIDE DEF down, n
  <2>3. Cardinality(down(e)) # 0
    BY <1>1, <2>2, FS_EmptySet
  <2> QED
    BY <1>1, <1>2, <2>1, <2>3
<1>4. ASSUME NEW d \in due, NEW e \in due, Before(d, e)
      PROVE  Place(due, d) <= Place(due, e)
  <2>1. down(d) \in SUBSET down(e)
    BY <1>4, BeforeIsTransitive
  <2> HIDE DEF down
  <2> QED
    BY <1>1, <1>3, <2>1, FS_Subset
<1>5. ASSUME NEW d \in due, NEW e \in due, ~ Before(d, e)
      PROVE  ~ (Place(due, d) <= Place(due, e))
  <2>1. Before(e, d) /\ d \notin down(e) /\ d \in down(d)
    BY <1>1, <1>5, BeforeIsTotal
  <2>2. down(e) \in SUBSET down(d) /\ down(e) # down(d)
    BY <2>1, BeforeIsTransitive
  <2> HIDE DEF down
  <2>3. Cardinality(down(e)) <= Cardinality(down(d)) /\ Cardinality(down(e)) # Cardinality(down(d))
    BY <1>1, <2>2, FS_Subset
  <2> QED
    BY <1>1, <1>3, <2>3
<1>6. \A d, e \in due : Place(due, d) <= Place(due, e) <=> Before(d, e)
  BY <1>4, <1>5
<1>7. ASSUME NEW i \in 1 .. n PROVE \E e \in due : Place(due, e) = i
  <2> DEFINE place == [e \in due |-> Place(due, e)]
  <2>1. place \in [due -> 1 .. n]
    BY <1>3
  <2>2. \A d, e \in due : place[d] = place[e] => d = e
    <3> SUFFICES ASSUME NEW d \in due, NEW e \in due, place[d] = place[e] PROVE d = e
      OBVIOUS
    <3>1. Place(due, d) = Place(due, e)
      OBVIOUS
    <3> HIDE DEF n, place
    <3>2. Place(due, d) <= Place(due, e) /\ Place(due, e) <= Place(due, d)
      <4>1. Place(due, d) \in 1 .. n
        BY <1>3, Zenon
      <4> QED
        BY <1>2, <3>1, <4>1
    <3>3. Before(d, e) /\ Before(e, d)
      BY <1>6, <3>2
    <3> QED
      BY <3>3, BeforeIsTotal
  <2>3. place \in Injection(due, 1 .. n)
    <3> HIDE DEF place
    <3> QED
      BY <2>1, <2>2 DEF Injection, IsInjective
  <2>4. IsFiniteSet(1 .. n) /\ Cardinality(1 .. n) = Cardinality(due)
    <3> HIDE DEF n
    <3>1. IsFiniteSet(1 .. n) /\ Cardinality(1 .. n) = IF 1 > n THEN 0 ELSE n - 1 + 1
      BY <1>2, 1 \in Int, n \in Int, FS_Interval
    <3>2. Cardinality(1 .. n) = n
      BY <1>2, <3>1
    <3> QED
      BY <3>1, <3>2 DEF n
  <2> HIDE DEF place, n
  <2>5. place \in Surjection(due, 1 .. n)
    BY <2>3, <2>4, FS_Injection
  <2>6. \E e \in due : place[e] = i
    BY <1>7, <2>5 DEF Surjection
  <2> QED
    BY <2>6 DEF place
<1> QED
  BY <1>3, <1>6, <1>7

------------------------------------------------------------------------------
\* order lists the commands of the entries in due, each as often as it is among
\* them, in the total order.
Sorts(order, due) ==
  LET n == Cardinality(due)
  IN  /\ n \in Nat
      /\ order \in [1 .. n -> Cmd]
      /\ \A i \in 1 .. n : \E e \in due : e[1] = order[i]
      /\ \A e \in due : \E i \in 1 .. n : e[1] = order[i]
      /\ \A i, j \in 1 .. n : i <= j => Precedes(order[i], order[j])
      /\ \A c : /\ IsFiniteSet({i \in 1 .. n : order[i] = c})
                /\ Cardinality({i \in 1 .. n : order[i] = c}) = Copies(c, due)

\* drain returns every due entry's command once, in the total order.
LEMMA DrainedIsSorted ==
  ASSUME NEW q, q.pending \in SUBSET Entry, IsFiniteSet(q.pending), NEW t \in Nat
  PROVE  Sorts(Drained(q, t), Due(q, t))
<1> DEFINE due == Due(q, t)
           n == Cardinality(due)
           order == Drained(q, t)
           at(i) == CHOOSE e \in due : Place(due, e) = i
<1>1. due \in SUBSET Entry /\ due \in SUBSET q.pending
  BY DEF Due
<1>2. IsFiniteSet(due) /\ n \in Nat
  <2> HIDE DEF due
  <2> QED
    BY <1>1, FS_Subset, FS_CardinalityType
<1>3. order = [i \in 1 .. n |-> at(i)[1]]
  BY DEF Drained
<1> HIDE DEF due, order
<1>4. /\ \A e \in due : Place(due, e) \in 1 .. n
      /\ \A d, e \in due : Place(due, d) <= Place(due, e) <=> Before(d, e)
      /\ \A i \in 1 .. n : \E e \in due : Place(due, e) = i
  BY <1>1, <1>2, PlacesAreANumbering
<1> HIDE DEF n
<1>5. \A i \in 1 .. n : at(i) \in due /\ Place(due, at(i)) = i
  BY <1>4
<1>6. \A e \in due : at(Place(due, e)) = e
  <2> SUFFICES ASSUME NEW e \in due PROVE at(Place(due, e)) = e
    OBVIOUS
  <2> DEFINE d == at(Place(due, e))
  <2>1. d \in due /\ Place(due, d) = Place(due, e) /\ Place(due, e) \in 1 .. n
    BY <1>4, <1>5
  <2> HIDE DEF d
  <2>2. Place(due, d) <= Place(due, e) /\ Place(due, e) <= Place(due, d)
    BY <1>2, <2>1
  <2>3. Before(d, e) /\ Before(e, d)
    BY <1>4, <2>1, <2>2
  <2>4. d = e
    BY <1>1, <2>1, <2>3, BeforeIsTotal
  <2> QED
    BY <2>4 DEF d
<1> HIDE DEF at
<1>7. DOMAIN order = 1 .. n /\ \A i \in 1 .. n : order[i] = at(i)[1]
  BY <1>3
<1>8. \A i \in 1 .. n : order[i] \in Cmd
  BY <1>1, <1>5, <1>7 DEF Entry
<1>9. order \in [1 .. n -> Cmd]
  BY <1>3, <1>7, <1>8
<1>10. \A i \in 1 .. n : \E e \in due : e[1] = order[i]
  BY <1>5, <1>7
<1>11. \A e \in due : \E i \in 1 .. n : e[1] = order[i]
  BY <1>4, <1>6, <1>7
<1>12. ASSUME NEW i \in 1 .. n, NEW j \in 1 .. n, i <= j PROVE Precedes(order[i], order[j])
  <2>1. Before(at(i), at(j))
    BY <1>4, <1>5, <1>12
  <2> QED
    BY <1>7, <2>1 DEF Before
<1>13. ASSUME NEW c
       PROVE  /\ IsFiniteSet({i \in 1 .. n : order[i] = c})
              /\ Cardinality({i \in 1 .. n : order[i] = c}) = Copies(c, due)
  <2> DEFINE S == {e \in due : e[1] = c}
             T == {i \in 1 .. n : order[i] = c}
             f == [e \in S |-> Place(due, e)]
  <2>1. \A e \in S : Place(due, e) \in T
    BY <1>4, <1>6, <1>7
  <2>2. \A i \in T : at(i) \in S /\ f[at(i)] = i
    BY <1>5, <1>7
  <2>3. f \in Bijection(S, T)
    <3>1. f \in [S -> T]
      BY <2>1
    <3>2. \A d, e \in S : f[d] = f[e] => d = e
      BY <1>6
    <3>3. \A i \in T : \E e \in S : f[e] = i
      BY <2>2
    <3> HIDE DEF f, S, T
    <3> QED
      BY <3>1, <3>2, <3>3 DEF Bijection, Injection, Surjection, IsInjective
  <2>4. S \in SUBSET due
    OBVIOUS
  <2>5. Copies(c, due) = Cardinality(S)
    BY DEF Copies
  <2> HIDE DEF f, S, T
  <2>6. IsFiniteSet(S) /\ ExistsBijection(S, T)
    BY <1>2, <2>3, <2>4, FS_Subset DEF ExistsBijection
  <2>7. IsFiniteSet(T) /\ Cardinality(T) = Cardinality(S)
    BY <2>6, FS_Bijection
  <2> QED
    BY <2>5, <2>7 DEF T
<1>14. Sorts(order, due)
  BY <1>2, <1>9, <1>10, <1>11, <1>12, <1>13 DEF n, Sorts
<1> QED
  BY <1>14 DEF due, order

\* The chain of kernels exists: each is the one before it with one command more.
LEMMA ExecutedIsAChain ==
  ASSUME NEW k, NEW order, NEW refused, NEW n \in Nat, Len(order) = n
  PROVE  /\ Executed(k, order, refused)[0] = [k EXCEPT !.report = <<>>]
         /\ \A i \in 1 .. n : Executed(k, order, refused)[i]
              = Execute(Executed(k, order, refused)[i - 1], order[i], refused)
<1> DEFINE start == [k EXCEPT !.report = <<>>]
           step(a, i) == Execute(a, order[i], refused)
           chain(g, m) == g = [i \in 0 .. m |-> IF i = 0 THEN start ELSE step(g[i - 1], i)]
           missing == {m \in 0 .. n : ~ \E g : chain(g, m)}
<1> HIDE DEF start, step
<1>1. missing = {}
  <2> SUFFICES ASSUME missing # {} PROVE FALSE
    OBVIOUS
  <2>1. PICK m \in missing : \A j \in missing : m <= j
    <3>1. missing \in SUBSET Nat
      OBVIOUS
    <3> HIDE DEF missing
    <3> QED
      BY <3>1, LeastElement
  <2>2. m \in 0 .. n /\ ~ \E g : chain(g, m)
    OBVIOUS
  <2>3. CASE m = 0
    <3> DEFINE g == [i \in 0 .. 0 |-> start]
    <3>1. chain(g, 0)
      OBVIOUS
    <3> QED
      BY <2>2, <2>3, <3>1
  <2>4. CASE m # 0
    <3>1. m - 1 \in 0 .. n /\ m - 1 \notin missing
      BY <2>1, <2>2, <2>4
    <3>2. PICK g : chain(g, m - 1)
      BY <3>1
    <3> DEFINE h == [i \in 0 .. m |-> IF i < m THEN g[i] ELSE step(g[m - 1], m)]
    <3>3. ASSUME NEW i \in 0 .. m
          PROVE  h[i] = IF i = 0 THEN start ELSE step(h[i - 1], i)
      <4>1. CASE i = m
        BY <2>2, <2>4, <4>1
      <4>2. CASE i # m
        <5>1. i \in 0 .. (m - 1) /\ h[i] = g[i] /\ (i # 0 => h[i - 1] = g[i - 1])
          BY <2>2, <4>2
        <5>2. g[i] = IF i = 0 THEN start ELSE step(g[i - 1], i)
          BY <3>2, <5>1
        <5> QED
          BY <5>1, <5>2
      <4> QED
        BY <4>1, <4>2
    <3>4. h = [i \in 0 .. m |-> h[i]]
      OBVIOUS
    <3> HIDE DEF h
    <3>5. chain(h, m)
      BY <3>3, <3>4
    <3> QED
      BY <2>2, <3>5
  <2> QED
    BY <2>3, <2>4
<1>2. \E g : chain(g, n)
  BY <1>1
<1>3. Executed(k, order, refused) = CHOOSE g : chain(g, n)
  BY DEF Executed, start, step
<1>4. chain(Executed(k, order, refused), n)
  BY <1>2, <1>3
<1> QED
  BY <1>4 DEF start, step
==============================================================================
