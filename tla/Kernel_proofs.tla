---------------------------- MODULE Kernel_proofs ----------------------------
(***************************************************************************)
(* One peer's simulation proved for any number of sources, ticks, cells    *)
(* and commands, and any order of arrival.                                 *)
(*                                                                         *)
(* The order of a tick's commands is total (BeforeIsTotal), so the places  *)
(* of the due entries number them (PlacesAreANumbering) and a drain is     *)
(* them, sorted (DrainedIsSorted).  The kernel after each of a tick's      *)
(* commands owns what it did and the cells that were wanted so far, and    *)
(* has applied those that came first (RunTickProgresses).                  *)
(*                                                                         *)
(* The three properties are not inductive.  IInv adds that the copies of   *)
(* a command are numbered from one, so that a drain takes all or none      *)
(* (Numbered), that the reports are finite and account for every command   *)
(* at once (Accounted), that what is in time and did not run is queued     *)
(* (InTime), and that a cell a valid command went for has an owner         *)
(* (Taken): without it the world could not tell a winner from a command    *)
(* that found its cell free for no reason.                                 *)
(***************************************************************************)
EXTENDS Kernel, OpsLemmas

------------------------------------------------------------------------------
Line == [command : Cmd, fate : {"late", "invalid", "declined", "applied"}]
Kernels == [tick : Nat, world : Seq(Cmd), report : Seq(Line)]

\* The cells that the first i commands go for, when they are in time and valid.
Wanted(start, order, refused, i) ==
  {cell \in Cell \ refused :
     \E m \in 1 .. i : order[m].target >= start.tick /\ order[m].cell = cell}

\* The command in place m is the first to go for a cell that was free.
First(start, order, refused, m) ==
  /\ order[m].target >= start.tick
  /\ order[m].cell \notin refused
  /\ order[m].cell \notin Owned(start.world)
  /\ \A l \in 1 .. (m - 1) : order[l].target >= start.tick => order[l].cell # order[m].cell

\* The kernel after i commands: one line of report for each, and the world is
\* the one before with those that came first, in order.
Progressed(start, order, refused, k, i) ==
  /\ k \in Kernels /\ k.tick = start.tick
  /\ Len(k.report) = i /\ \A m \in 1 .. i : k.report[m].command = order[m]
  /\ \A cell \in Cell :
       cell \in Owned(k.world) <=> cell \in Owned(start.world) \cup Wanted(start, order, refused, i)
  /\ \A c : c \in Range(k.world) <=>
       c \in Range(start.world) \/ \E m \in 1 .. i : c = order[m] /\ First(start, order, refused, m)
  /\ Ascending(k.world)

LEMMA AppendClaims ==
  ASSUME NEW world \in Seq(Cmd), NEW c \in Cmd
  PROVE  /\ Append(world, c) \in Seq(Cmd)
         /\ Owned(Append(world, c)) = Owned(world) \cup {c.cell}
         /\ Range(Append(world, c)) = Range(world) \cup {c}
         /\ \A x \in Range(world) : x \in Cmd /\ x.cell \in Owned(world)
         /\ Ascending(world) /\ (\A x \in Range(world) : Earlier(x, c) /\ x # c)
              => Ascending(Append(world, c))
<1> DEFINE longer == Append(world, c)
           n == Len(world)
<1>1. /\ longer \in Seq(Cmd) /\ n \in Nat /\ DOMAIN world = 1 .. n
      /\ DOMAIN longer = 1 .. (n + 1) /\ longer[n + 1] = c
      /\ \A i \in 1 .. n : longer[i] = world[i] /\ world[i] \in Cmd
  OBVIOUS
<1> HIDE DEF longer, n
<1>2. 1 .. (n + 1) = 1 .. n \cup {n + 1}
  BY <1>1
<1>3. Owned(longer) = Owned(world) \cup {c.cell}
  <2>1. ASSUME NEW x PROVE x \in Owned(longer) <=> x \in Owned(world) \/ x = c.cell
    BY <1>1, <1>2 DEF Owned
  <2> QED
    BY <2>1
<1>4. Range(longer) = Range(world) \cup {c}
  <2>1. ASSUME NEW x PROVE x \in Range(longer) <=> x \in Range(world) \/ x = c
    BY <1>1, <1>2 DEF Range
  <2> QED
    BY <2>1
<1>5. \A x \in Range(world) : x \in Cmd /\ x.cell \in Owned(world)
  BY <1>1 DEF Range, Owned
<1>6. ASSUME Ascending(world), \A x \in Range(world) : Earlier(x, c) /\ x # c
      PROVE  Ascending(longer)
  <2> SUFFICES ASSUME NEW i \in 1 .. (n + 1), NEW j \in 1 .. (n + 1), i < j
               PROVE  Earlier(longer[i], longer[j]) /\ longer[i] # longer[j]
    BY <1>1 DEF Ascending
  <2>1. i \in 1 .. n
    BY <1>1
  <2>2. CASE j = n + 1
    <3>1. longer[j] = c /\ longer[i] = world[i] /\ world[i] \in Range(world)
      BY <1>1, <2>1, <2>2 DEF Range
    <3> QED
      BY <1>6, <3>1
  <2>3. CASE j # n + 1
    <3>1. j \in 1 .. n
      BY <1>1, <2>3
    <3>2. Earlier(world[i], world[j]) /\ world[i] # world[j]
      BY <1>1, <1>6, <2>1, <3>1 DEF Ascending
    <3> QED
      BY <1>1, <2>1, <3>1, <3>2
  <2> QED
    BY <2>2, <2>3
<1> QED
  BY <1>1, <1>3, <1>4, <1>5, <1>6 DEF longer

\* One more command.
LEMMA ExecuteProgresses ==
  ASSUME NEW start \in Kernels, NEW refused, NEW n \in Nat, NEW order \in [1 .. n -> Cmd],
         \A i \in 1 .. n : order[i].target <= start.tick,
         \A i, j \in 1 .. n : i <= j => Precedes(order[i], order[j]),
         \A c \in Range(start.world) : c.target < start.tick,
         NEW i \in 1 .. n, NEW k, Progressed(start, order, refused, k, i - 1)
  PROVE  Progressed(start, order, refused, Execute(k, order[i], refused), i)
<1> DEFINE c == order[i]
           fate == Fate(k, c, refused)
           after == Execute(k, c, refused)
           line == [command |-> c, fate |-> fate]
<1>1. c \in Cmd /\ c.cell \in Cell /\ c.target \in Nat /\ c.target <= start.tick
  BY DEF Cmd
<1>2. /\ k \in Kernels /\ k.tick = start.tick /\ k.world \in Seq(Cmd) /\ k.report \in Seq(Line)
      /\ start.tick \in Nat
  BY DEF Progressed, Kernels
<1>3. fate = "applied" <=> /\ c.target >= start.tick
                           /\ c.cell \notin refused
                           /\ c.cell \notin Owned(k.world)
  BY <1>1, <1>2 DEF Fate
<1>4. fate \in {"late", "invalid", "declined", "applied"}
  BY DEF Fate
<1>5. /\ after.tick = k.tick
      /\ after.report = Append(k.report, line)
      /\ after.world = IF fate = "applied" THEN Append(k.world, c) ELSE k.world
      /\ after \in Kernels
  <2>1. line \in Line
    BY <1>1, <1>4 DEF Line
  <2> HIDE DEF line, fate, c
  <2>2. Append(k.report, line) \in Seq(Line) /\ Append(k.world, c) \in Seq(Cmd)
    BY <1>1, <1>2, <2>1
  <2>3. after = IF fate = "applied"
                THEN [[k EXCEPT !.report = Append(k.report, line)] EXCEPT !.world = Append(k.world, c)]
                ELSE [k EXCEPT !.report = Append(k.report, line)]
    BY <1>2 DEF Execute, line, fate, Kernels
  <2> HIDE DEF after
  <2> QED
    BY <1>2, <2>2, <2>3 DEF Kernels
<1> HIDE DEF after, fate
<1>6. /\ Len(after.report) = i
      /\ \A m \in 1 .. i : after.report[m].command = order[m]
  <2>1. Len(k.report) = i - 1 /\ \A m \in 1 .. (i - 1) : k.report[m].command = order[m]
    BY DEF Progressed
  <2>2. line \in Line
    BY <1>1, <1>4 DEF Line
  <2>3. line.command = order[i]
    OBVIOUS
  <2> HIDE DEF line, c
  <2>4. /\ Len(after.report) = i /\ after.report[i] = line
        /\ \A m \in 1 .. (i - 1) : after.report[m] = k.report[m]
    BY <1>2, <1>5, <2>1, <2>2
  <2> QED
    BY <2>1, <2>3, <2>4
<1>7. \A cell \in Cell : cell \in Wanted(start, order, refused, i) <=>
        \/ cell \in Wanted(start, order, refused, i - 1)
        \/ cell = c.cell /\ cell \notin refused /\ c.target >= start.tick
  <2>1. 1 .. i = 1 .. (i - 1) \cup {i}
    OBVIOUS
  <2> QED
    BY <2>1 DEF Wanted
<1>8. \A cell \in Cell : cell \in Owned(k.world) <=>
        cell \in Owned(start.world) \cup Wanted(start, order, refused, i - 1)
  BY DEF Progressed
<1>9. fate = "applied" <=> First(start, order, refused, i)
  BY <1>1, <1>3, <1>8 DEF First, Wanted
<1>10. \A x : x \in Range(k.world) <=>
         x \in Range(start.world) \/ \E m \in 1 .. (i - 1) : x = order[m] /\ First(start, order, refused, m)
  BY DEF Progressed
<1>11. \A x : (\E m \in 1 .. i : x = order[m] /\ First(start, order, refused, m)) <=>
         \/ \E m \in 1 .. (i - 1) : x = order[m] /\ First(start, order, refused, m)
         \/ x = c /\ First(start, order, refused, i)
  <2>1. 1 .. i = 1 .. (i - 1) \cup {i}
    OBVIOUS
  <2> QED
    BY <2>1
<1>12. ASSUME fate = "applied" PROVE Progressed(start, order, refused, after, i)
  <2>1. /\ Owned(after.world) = Owned(k.world) \cup {c.cell}
        /\ Range(after.world) = Range(k.world) \cup {c}
    BY <1>1, <1>2, <1>5, <1>12, AppendClaims
  <2>2. \A x \in Range(k.world) : Earlier(x, c) /\ x # c
    <3> SUFFICES ASSUME NEW x \in Range(k.world) PROVE Earlier(x, c) /\ x # c
      OBVIOUS
    <3>1. x \in Cmd /\ x # c
      BY <1>1, <1>2, <1>3, <1>12, AppendClaims
    <3>2. CASE x \in Range(start.world)
      <4>1. x.target < start.tick /\ x.target \in Int /\ c.target >= start.tick
        BY <1>3, <1>12, <3>1, <3>2, Fields
      <4> QED
        BY <1>1, <1>2, <3>1, <4>1 DEF Earlier
    <3>3. CASE \E m \in 1 .. (i - 1) : x = order[m] /\ First(start, order, refused, m)
      <4>1. PICK m \in 1 .. (i - 1) : x = order[m] /\ First(start, order, refused, m)
        BY <3>3
      <4>2. m \in 1 .. n /\ m <= i
        OBVIOUS
      <4>3. Precedes(x, c) /\ x.target <= start.tick
        BY <4>1, <4>2
      <4>4. x.target = c.target
        BY <1>1, <1>2, <1>3, <1>12, <3>1, <4>1, <4>3, Fields DEF First
      <4> QED
        BY <3>1, <4>3, <4>4 DEF Earlier
    <3> QED
      BY <1>10, <3>2, <3>3
  <2>3. Ascending(after.world)
    BY <1>1, <1>2, <1>5, <1>12, <2>2, AppendClaims DEF Progressed
  <2>4. \A cell \in Cell :
          cell \in Owned(after.world) <=> cell \in Owned(start.world) \cup Wanted(start, order, refused, i)
    BY <1>3, <1>7, <1>8, <1>12, <2>1
  <2>5. \A x : x \in Range(after.world) <=>
          x \in Range(start.world) \/ \E m \in 1 .. i : x = order[m] /\ First(start, order, refused, m)
    BY <1>9, <1>10, <1>11, <1>12, <2>1
  <2> QED
    BY <1>2, <1>5, <1>6, <2>3, <2>4, <2>5 DEF Progressed
<1>13. ASSUME fate # "applied" PROVE Progressed(start, order, refused, after, i)
  <2>1. after.world = k.world
    BY <1>5, <1>13
  <2>2. \A cell \in Cell :
          cell \in Owned(after.world) <=> cell \in Owned(start.world) \cup Wanted(start, order, refused, i)
    BY <1>3, <1>7, <1>8, <1>13, <2>1
  <2>3. \A x : x \in Range(after.world) <=>
          x \in Range(start.world) \/ \E m \in 1 .. i : x = order[m] /\ First(start, order, refused, m)
    BY <1>9, <1>10, <1>11, <1>13, <2>1
  <2>4. Ascending(after.world)
    BY <2>1 DEF Progressed
  <2> QED
    BY <1>2, <1>5, <1>6, <2>2, <2>3, <2>4 DEF Progressed
<1> QED
  BY <1>12, <1>13 DEF after

\* A step that runs is all of its commands, one after the other.
LEMMA RunTickProgresses ==
  ASSUME NEW start \in Kernels, NEW refused,
         NEW q, q.pending \in SUBSET Entry, IsFiniteSet(q.pending),
         Ascending(start.world), \A c \in Range(start.world) : c.target < start.tick
  PROVE  \E k : /\ Progressed(start, Drained(q, start.tick), refused, k,
                              Cardinality(Due(q, start.tick)))
                /\ RunTick(start, q, refused) = [k EXCEPT !.tick = @ + 1]
<1> DEFINE order == Drained(q, start.tick)
           n == Cardinality(Due(q, start.tick))
           chain == Executed(start, order, refused)
<1>1. start.tick \in Nat /\ start.world \in Seq(Cmd)
  BY DEF Kernels
<1>2. /\ n \in Nat /\ order \in [1 .. n -> Cmd]
      /\ \A i \in 1 .. n : \E e \in Due(q, start.tick) : e[1] = order[i]
      /\ \A i, j \in 1 .. n : i <= j => Precedes(order[i], order[j])
  <2>1. Sorts(order, Due(q, start.tick))
    BY <1>1, DrainedIsSorted
  <2> HIDE DEF order
  <2> QED
    BY <2>1 DEF Sorts
<1>3. RunTick(start, q, refused) = [chain[Len(order)] EXCEPT !.tick = @ + 1]
  BY DEF RunTick
<1>4. \A i \in 1 .. n : order[i].target <= start.tick
  BY <1>2 DEF Due
<1> HIDE DEF n, order
<1>5. Len(order) = n /\ order \in Seq(Cmd)
  BY <1>2
<1>6. /\ chain[0] = [start EXCEPT !.report = <<>>]
      /\ \A i \in 1 .. n : chain[i] = Execute(chain[i - 1], order[i], refused)
  BY <1>2, <1>5, ExecutedIsAChain
<1> HIDE DEF chain
<1>7. Progressed(start, order, refused, chain[0], 0)
  <2>1. /\ chain[0] \in Kernels /\ chain[0].tick = start.tick /\ chain[0].world = start.world
        /\ chain[0].report = <<>>
    <3>1. <<>> \in Seq(Line)
      OBVIOUS
    <3> QED
      BY <1>6, <3>1 DEF Kernels
  <2>2. Len(chain[0].report) = 0 /\ 1 .. 0 = {}
    BY <2>1
  <2>3. Wanted(start, order, refused, 0) = {}
    BY <2>2 DEF Wanted
  <2> QED
    BY <2>1, <2>2, <2>3 DEF Progressed
<1>8. ASSUME NEW i \in 1 .. n, Progressed(start, order, refused, chain[i - 1], i - 1)
      PROVE  Progressed(start, order, refused, chain[i], i)
  BY <1>2, <1>4, <1>6, <1>8, ExecuteProgresses
<1>9. Progressed(start, order, refused, chain[n], n)
  <2> DEFINE missing == {m \in 0 .. n : ~ Progressed(start, order, refused, chain[m], m)}
  <2> SUFFICES ASSUME missing # {} PROVE FALSE
    BY <1>2
  <2>1. PICK m \in missing : \A j \in missing : m <= j
    <3>1. missing \in SUBSET Nat
      OBVIOUS
    <3> HIDE DEF missing
    <3> QED
      BY <3>1, LeastElement
  <2>2. m \in 1 .. n
    BY <1>2, <1>7
  <2>3. m - 1 \in 0 .. n /\ m - 1 \notin missing
    BY <2>1, <2>2, <1>2
  <2> QED
    BY <1>8, <2>2, <2>3
<1> QED
  BY <1>3, <1>5, <1>9 DEF n, order

------------------------------------------------------------------------------
\* The copies of a command are numbered without a gap.
Numbered(entries) == \A e \in entries : \A j \in 1 .. e[2] : <<e[1], j>> \in entries

LEMMA WithAddsOne ==
  ASSUME NEW entries \in SUBSET Entry, IsFiniteSet(entries), Numbered(entries), NEW command \in Cmd
  PROVE  /\ With(entries, command) \in SUBSET Entry
         /\ IsFiniteSet(With(entries, command))
         /\ Numbered(With(entries, command))
         /\ Cardinality(With(entries, command)) = Cardinality(entries) + 1
         /\ \A e : e \in With(entries, command) => e \in entries \/ e[1] = command
         /\ entries \subseteq With(entries, command)
         /\ \E e \in With(entries, command) : e[1] = command
         /\ \A c : Copies(c, With(entries, command))
                     = Copies(c, entries) + (IF c = command THEN 1 ELSE 0)
         /\ \A c : Copies(c, entries) \in Nat
<1> DEFINE held(c) == {e \in entries : e[1] = c}
           n == Cardinality(held(command))
           fresh == <<command, n + 1>>
<1>1. \A c : IsFiniteSet(held(c)) /\ Cardinality(held(c)) \in Nat /\ Copies(c, entries) = Cardinality(held(c))
  <2>1. \A c : held(c) \in SUBSET entries /\ Copies(c, entries) = Cardinality(held(c))
    BY DEF Copies
  <2> HIDE DEF held
  <2> QED
    BY <2>1, FS_Subset, FS_CardinalityType
<1>2. With(entries, command) = entries \cup {fresh}
  BY DEF With, Copies
<1>3. n \in Nat /\ fresh \in Entry /\ fresh[1] = command /\ fresh[2] = n + 1
  <2>1. n \in Nat
    BY <1>1
  <2> HIDE DEF n
  <2> QED
    BY <2>1 DEF Entry
<1> HIDE DEF n
<1>4. \A m \in Nat : IsFiniteSet(1 .. m) /\ Cardinality(1 .. m) = m
  <2> SUFFICES ASSUME NEW m \in Nat PROVE IsFiniteSet(1 .. m) /\ Cardinality(1 .. m) = m
    OBVIOUS
  <2>1. IsFiniteSet(1 .. m) /\ Cardinality(1 .. m) = IF 1 > m THEN 0 ELSE m - 1 + 1
    BY 1 \in Int, m \in Int, FS_Interval
  <2> QED
    BY <2>1
<1>5. fresh \notin entries
  <2> SUFFICES ASSUME fresh \in entries PROVE FALSE
    OBVIOUS
  <2>1. \A j \in 1 .. (n + 1) : <<command, j>> \in held(command)
    BY <1>3 DEF Numbered
  <2> DEFINE f == [j \in 1 .. (n + 1) |-> <<command, j>>]
  <2>2. f \in Injection(1 .. (n + 1), held(command))
    BY <2>1 DEF Injection, IsInjective
  <2> HIDE DEF f, held
  <2>3. Cardinality(1 .. (n + 1)) <= Cardinality(held(command))
    BY <1>1, <2>2, FS_Injection
  <2> QED
    BY <1>3, <1>4, <2>3 DEF n
<1>6. ASSUME NEW j \in 1 .. n PROVE <<command, j>> \in entries
  <2> SUFFICES ASSUME <<command, j>> \notin entries PROVE FALSE
    OBVIOUS
  <2>1. \A e \in held(command) : e[2] \in 1 .. (j - 1) /\ e = <<command, e[2]>>
    <3> SUFFICES ASSUME NEW e \in held(command) PROVE e[2] \in 1 .. (j - 1) /\ e = <<command, e[2]>>
      OBVIOUS
    <3>1. e[2] \in Nat \ {0} /\ e = <<command, e[2]>>
      BY DEF Entry
    <3>2. ~ (j <= e[2])
      BY <1>3, <3>1 DEF Numbered
    <3> QED
      BY <1>3, <3>1, <3>2
  <2> DEFINE f == [e \in held(command) |-> e[2]]
  <2>2. f \in [held(command) -> 1 .. (j - 1)]
    BY <2>1
  <2>3. \A d, e \in held(command) : f[d] = f[e] => d = e
    BY <2>1
  <2>4. j - 1 \in Nat /\ j - 1 < n
    BY <1>3
  <2> HIDE DEF f, held
  <2>5. f \in Injection(held(command), 1 .. (j - 1))
    BY <2>2, <2>3 DEF Injection, IsInjective
  <2>6. IsFiniteSet(1 .. (j - 1)) /\ Cardinality(1 .. (j - 1)) = j - 1
    BY <1>4, <2>4
  <2>7. Cardinality(held(command)) <= Cardinality(1 .. (j - 1))
    BY <2>5, <2>6, FS_Injection
  <2> QED
    BY <1>3, <2>4, <2>6, <2>7 DEF n
<1>7. Numbered(With(entries, command))
  <2> SUFFICES ASSUME NEW e \in With(entries, command), NEW j \in 1 .. e[2]
               PROVE  <<e[1], j>> \in With(entries, command)
    BY DEF Numbered
  <2>1. CASE e \in entries
    BY <1>2, <2>1 DEF Numbered
  <2>2. CASE e = fresh
    <3>1. j \in 1 .. n \/ j = n + 1
      BY <1>3, <2>2
    <3> QED
      BY <1>2, <1>3, <1>6, <2>2, <3>1
  <2> QED
    BY <1>2, <2>1, <2>2
<1>8. ASSUME NEW c
      PROVE  Copies(c, With(entries, command)) = Copies(c, entries) + (IF c = command THEN 1 ELSE 0)
  <2>1. Copies(c, With(entries, command)) = Cardinality({e \in entries \cup {fresh} : e[1] = c})
    BY <1>2 DEF Copies
  <2>2. CASE c = command
    <3>1. {e \in entries \cup {fresh} : e[1] = c} = held(c) \cup {fresh}
      BY <1>3, <2>2
    <3>2. fresh \notin held(c)
      BY <1>5
    <3> HIDE DEF held, fresh
    <3>3. Cardinality(held(c) \cup {fresh}) = Cardinality(held(c)) + 1
      BY <1>1, <3>2, FS_AddElement
    <3> QED
      BY <1>1, <2>1, <2>2, <3>1, <3>3
  <2>3. CASE c # command
    <3>1. {e \in entries \cup {fresh} : e[1] = c} = held(c)
      BY <1>3, <2>3
    <3> HIDE DEF held, fresh
    <3> QED
      BY <1>1, <2>1, <2>3, <3>1
  <2> QED
    BY <2>2, <2>3
<1>9. /\ IsFiniteSet(With(entries, command))
      /\ Cardinality(With(entries, command)) = Cardinality(entries) + 1
  <2> HIDE DEF fresh
  <2> QED
    BY <1>2, <1>5, FS_AddElement
<1>10. With(entries, command) \in SUBSET Entry
  BY <1>2, <1>3
<1>11. /\ \A e : e \in With(entries, command) => e \in entries \/ e[1] = command
       /\ \E e \in With(entries, command) : e[1] = command
       /\ entries \subseteq With(entries, command)
  BY <1>2, <1>3
<1> HIDE DEF held, fresh
<1> QED
  BY <1>1, <1>7, <1>8, <1>9, <1>10, <1>11

\* drain takes every copy of a command or none.
LEMMA DrainTakesAllCopies ==
  ASSUME NEW q, q.pending \in SUBSET Entry, IsFiniteSet(q.pending), Numbered(q.pending), NEW t \in Nat
  PROVE  /\ Numbered(q.pending \ Due(q, t))
         /\ IsFiniteSet(q.pending \ Due(q, t))
         /\ Cardinality(q.pending \ Due(q, t)) <= Cardinality(q.pending)
         /\ \A c : Copies(c, q.pending) = Copies(c, q.pending \ Due(q, t)) + Copies(c, Due(q, t))
<1>1. Numbered(q.pending \ Due(q, t))
  <2> SUFFICES ASSUME NEW e \in q.pending \ Due(q, t), NEW j \in 1 .. e[2]
               PROVE  <<e[1], j>> \in q.pending \ Due(q, t)
    BY DEF Numbered
  <2>1. <<e[1], j>> \in q.pending /\ ~ (e[1].target <= t) /\ <<e[1], j>>[1] = e[1]
    BY DEF Numbered, Due
  <2> QED
    BY <2>1 DEF Due
<1>2. q.pending \ Due(q, t) \in SUBSET q.pending
  OBVIOUS
<1>3. /\ IsFiniteSet(q.pending \ Due(q, t))
      /\ Cardinality(q.pending \ Due(q, t)) <= Cardinality(q.pending)
  BY <1>2, FS_Subset
<1>4. ASSUME NEW c
      PROVE  Copies(c, q.pending) = Copies(c, q.pending \ Due(q, t)) + Copies(c, Due(q, t))
  <2> DEFINE all == {e \in q.pending : e[1] = c}
             kept == {e \in q.pending \ Due(q, t) : e[1] = c}
             gone == {e \in Due(q, t) : e[1] = c}
  <2>1. all \in SUBSET q.pending
    OBVIOUS
  <2>2. CASE c.target <= t
    <3>1. kept = {} /\ gone = all
      BY <2>2 DEF Due
    <3> HIDE DEF all, kept, gone
    <3>2. Cardinality(kept) = 0 /\ Cardinality(gone) = Cardinality(all) /\ Cardinality(all) \in Nat
      BY <2>1, <3>1, FS_EmptySet, FS_Subset, FS_CardinalityType
    <3> QED
      BY <3>2 DEF Copies, all, kept, gone
  <2>3. CASE ~ (c.target <= t)
    <3>1. gone = {} /\ kept = all
      BY <2>3 DEF Due
    <3> HIDE DEF all, kept, gone
    <3>2. Cardinality(gone) = 0 /\ Cardinality(kept) = Cardinality(all) /\ Cardinality(all) \in Nat
      BY <2>1, <3>1, FS_EmptySet, FS_Subset, FS_CardinalityType
    <3> QED
      BY <3>2 DEF Copies, all, kept, gone
  <2> QED
    BY <2>2, <2>3
<1> QED
  BY <1>1, <1>3, <1>4

------------------------------------------------------------------------------
Typed ==
  /\ queue \in [pending : SUBSET Entry, next : [Peer -> Nat]]
  /\ IsFiniteSet(queue.pending) /\ Numbered(queue.pending)
  /\ accepted \in SUBSET Entry /\ IsFiniteSet(accepted) /\ Numbered(accepted)
  /\ onTime \in SUBSET Cmd
  /\ kernel \in Kernels
  /\ ran \in Seq([report : Seq(Line), refusing : SUBSET Cell]) /\ Len(ran) = kernel.tick
  /\ refusing \in SUBSET Cell

\* The bounds of the queue and of its counters.
Bounded ==
  /\ Cardinality(queue.pending) <= MaxPending
  /\ Cardinality(accepted) <= MaxAccepted
  /\ \A s \in Peer : queue.next[s] <= MaxSequence + Cardinality(accepted)

\* NothingLost, of every command at once.
Accounted ==
  \A c : /\ IsFiniteSet(Reported(c))
         /\ Copies(c, accepted) = Copies(c, queue.pending) + Cardinality(Reported(c))

\* What is in time and did not run is still queued, and nothing queued for a
\* tick to come is late.
InTime ==
  /\ \A c \in onTime : c.target >= kernel.tick => \E e \in queue.pending : e[1] = c
  /\ \A e \in queue.pending : e[1].target >= kernel.tick => e[1] \in onTime

\* A cell that a valid command went for in time has an owner.
Taken == \A c \in Valid : c.cell \in Owned(kernel.world)

IInv == Typed /\ Bounded /\ Accounted /\ InTime /\ Taken /\ SequencesFresh /\ ArrivalIndependent

LEMMA InitIInv == Init => IInv
<1> SUFFICES ASSUME Init PROVE IInv
  OBVIOUS
<1>1. /\ queue = [pending |-> {}, next |-> [s \in Peer |-> 0]]
      /\ kernel = [tick |-> 0, world |-> <<>>, report |-> <<>>]
      /\ refusing = {} /\ accepted = {} /\ onTime = {} /\ ran = <<>>
  BY DEF Init, NewQueue, NewKernel, EmptyWorld
<1>2. IsFiniteSet({}) /\ Cardinality({}) = 0
  BY FS_EmptySet
<1>3. Typed
  <2>1. \A S : <<>> \in Seq(S)
    OBVIOUS
  <2>2. kernel \in Kernels
    BY <1>1, <2>1 DEF Kernels
  <2> QED
    BY <1>1, <1>2, <2>1, <2>2 DEF Typed, Numbered
<1>4. Bounded
  BY <1>1, <1>2, MaxPendingAssumption, BoundsAssumption DEF Bounded
<1>5. Accounted
  <2>1. \A c : Reported(c) = {}
    BY <1>1 DEF Reported
  <2>2. \A c : Copies(c, {}) = 0
    <3>1. \A c : {e \in {} : e[1] = c} = {}
      OBVIOUS
    <3> QED
      BY <1>2, <3>1 DEF Copies
  <2>3. queue.pending = {} /\ accepted = {}
    BY <1>1
  <2> SUFFICES ASSUME NEW c
               PROVE  /\ IsFiniteSet(Reported(c))
                      /\ Copies(c, accepted) = Copies(c, queue.pending) + Cardinality(Reported(c))
    BY DEF Accounted
  <2>4. IsFiniteSet(Reported(c)) /\ Cardinality(Reported(c)) = 0
    BY <1>2, <2>1
  <2>5. Copies(c, accepted) = 0 /\ Copies(c, queue.pending) = 0
    BY <2>2, <2>3
  <2> QED
    BY <2>4, <2>5
<1>6. InTime /\ Taken /\ SequencesFresh
  BY <1>1 DEF InTime, Taken, Valid, SequencesFresh
<1>7. ArrivalIndependent
  <2>1. DOMAIN kernel.world = {} /\ Range(kernel.world) = {} /\ Winners = {}
    BY <1>1 DEF Range, Winners, Valid
  <2> QED
    BY <2>1 DEF ArrivalIndependent, Ascending
<1> QED
  BY <1>3, <1>4, <1>5, <1>6, <1>7 DEF IInv

\* By either door: one entry more, in the queue and in the history.
LEMMA AcceptKeepsIInv ==
  ASSUME IInv, NEW command \in Cmd, NEW queued, Accept(command, queued),
         queued \in [pending : SUBSET Entry, next : [Peer -> Nat]],
         queued.pending = With(queue.pending, command),
         command.sequence < queued.next[command.source],
         \A s \in Peer : /\ queue.next[s] <= queued.next[s]
                         /\ queued.next[s] <= MaxSequence + Cardinality(accepted) + 1
  PROVE  IInv'
<1>1. /\ Cardinality(accepted) < MaxAccepted
      /\ ~ (Cardinality(queue.pending) >= MaxPending)
      /\ queue' = queued /\ accepted' = With(accepted, command)
      /\ onTime' = IF command.target >= kernel.tick THEN onTime \cup {command} ELSE onTime
      /\ kernel' = kernel /\ refusing' = refusing /\ ran' = ran
  BY DEF Accept, SubmitStatus
<1>2. /\ queue.pending \in SUBSET Entry /\ IsFiniteSet(queue.pending) /\ Numbered(queue.pending)
      /\ accepted \in SUBSET Entry /\ IsFiniteSet(accepted) /\ Numbered(accepted)
      /\ Cardinality(queue.pending) \in Nat /\ Cardinality(accepted) \in Nat
      /\ kernel.tick \in Nat
  BY FS_CardinalityType DEF IInv, Typed, Kernels
<1>3. /\ queue'.pending = With(queue.pending, command)
      /\ queue'.pending \in SUBSET Entry /\ IsFiniteSet(queue'.pending) /\ Numbered(queue'.pending)
      /\ Cardinality(queue'.pending) = Cardinality(queue.pending) + 1
      /\ \A e : e \in queue'.pending => e \in queue.pending \/ e[1] = command
      /\ \E e \in queue'.pending : e[1] = command
      /\ queue.pending \subseteq queue'.pending
      /\ \A c : Copies(c, queue'.pending) = Copies(c, queue.pending) + (IF c = command THEN 1 ELSE 0)
      /\ \A c : Copies(c, queue.pending) \in Nat
  BY <1>1, <1>2, WithAddsOne
<1>4. /\ accepted' \in SUBSET Entry /\ IsFiniteSet(accepted') /\ Numbered(accepted')
      /\ Cardinality(accepted') = Cardinality(accepted) + 1
      /\ \A e : e \in accepted' => e \in accepted \/ e[1] = command
      /\ \A c : Copies(c, accepted') = Copies(c, accepted) + (IF c = command THEN 1 ELSE 0)
      /\ \A c : Copies(c, accepted) \in Nat
  BY <1>1, <1>2, WithAddsOne
<1>5. Typed'
  BY <1>1, <1>3, <1>4 DEF IInv, Typed, Numbered
<1>6. Bounded'
  <2>1. Cardinality(queue'.pending) <= MaxPending
    BY <1>1, <1>2, <1>3, MaxPendingAssumption
  <2>2. Cardinality(accepted') <= MaxAccepted
    BY <1>1, <1>2, <1>4, BoundsAssumption
  <2>3. \A s \in Peer : queue'.next[s] <= MaxSequence + Cardinality(accepted')
    <3>1. MaxSequence \in Nat
      BY BoundsAssumption
    <3>2. Cardinality(accepted') = Cardinality(accepted) + 1 /\ queue' = queued
      BY <1>1, <1>4
    <3> QED
      BY <1>2, <3>1, <3>2
  <2> QED
    BY <2>1, <2>2, <2>3 DEF Bounded
<1>7. Accounted'
  <2>1. \A c : Reported(c)' = Reported(c)
    BY <1>1 DEF Reported
  <2> SUFFICES ASSUME NEW c
               PROVE  /\ IsFiniteSet(Reported(c))
                      /\ Copies(c, accepted') = Copies(c, queue'.pending) + Cardinality(Reported(c))
    BY <2>1 DEF Accounted
  <2>2. /\ IsFiniteSet(Reported(c)) /\ Cardinality(Reported(c)) \in Nat
        /\ Copies(c, accepted) = Copies(c, queue.pending) + Cardinality(Reported(c))
    BY FS_CardinalityType DEF IInv, Accounted
  <2>3. /\ Copies(c, accepted') = Copies(c, accepted) + (IF c = command THEN 1 ELSE 0)
        /\ Copies(c, queue'.pending) = Copies(c, queue.pending) + (IF c = command THEN 1 ELSE 0)
        /\ Copies(c, queue.pending) \in Nat
    BY <1>3, <1>4
  <2> QED
    BY <2>2, <2>3
<1>8. InTime'
  BY <1>1, <1>3 DEF IInv, InTime
<1>9. Valid' = Valid
  <2>1. \A c \in Cmd : c.target \in Nat
    BY DEF Cmd
  <2> QED
    BY <1>1, <1>2, <2>1 DEF Valid
<1>10. Taken'
  BY <1>1, <1>9 DEF IInv, Taken
<1>11. SequencesFresh'
  <2> SUFFICES ASSUME NEW e \in accepted'
               PROVE  e[1].sequence < queue'.next[e[1].source]
    BY DEF SequencesFresh
  <2>1. CASE e[1] = command
    BY <1>1, <2>1
  <2>2. CASE e \in accepted
    <3>1. e[1].source \in Peer /\ e[1].sequence \in Nat
      BY <1>2, <2>2 DEF Entry, Cmd
    <3>2. /\ e[1].sequence < queue.next[e[1].source]
          /\ queue.next[e[1].source] \in Nat /\ queue'.next[e[1].source] \in Nat
      BY <1>1, <2>2, <3>1 DEF IInv, SequencesFresh, Typed
    <3>3. queue.next[e[1].source] <= queue'.next[e[1].source]
      BY <1>1, <3>1
    <3> QED
      BY <3>1, <3>2, <3>3
  <2> QED
    BY <1>4, <2>1, <2>2
<1>12. ArrivalIndependent'
  <2>1. Winners' = Winners
    BY <1>9 DEF Winners
  <2> QED
    BY <1>1, <2>1 DEF IInv, ArrivalIndependent, Ascending
<1> QED
  BY <1>5, <1>6, <1>7, <1>8, <1>10, <1>11, <1>12 DEF IInv

\* The gate and what a validator refuses are free: no step of theirs matters to
\* the rest.
LEMMA QuietKeepsIInv ==
  ASSUME IInv, UNCHANGED <<kernel, queue, accepted, onTime, ran>>, refusing' \in SUBSET Cell
  PROVE  IInv'
<1>1. Typed'
  BY DEF IInv, Typed, Numbered
<1>2. Bounded'
  BY DEF IInv, Bounded
<1>3. Accounted'
  <2>1. \A c : Reported(c)' = Reported(c)
    BY DEF Reported
  <2> QED
    BY <2>1 DEF IInv, Accounted
<1>4. InTime' /\ SequencesFresh'
  BY DEF IInv, InTime, SequencesFresh
<1>5. Valid' = Valid
  BY DEF Valid
<1>6. Taken'
  BY <1>5 DEF IInv, Taken
<1>7. ArrivalIndependent'
  <2>1. Winners' = Winners
    BY <1>5 DEF Winners
  <2> QED
    BY <2>1 DEF IInv, ArrivalIndependent, Ascending
<1> QED
  BY <1>1, <1>2, <1>3, <1>4, <1>6, <1>7 DEF IInv

LEMMA SubmitLocalKeepsIInv ==
  ASSUME IInv, NEW target \in Tick, NEW source \in Peer, NEW cell \in Cell,
         SubmitLocal(target, source, cell)
  PROVE  IInv'
<1> DEFINE command == Command(target, source, queue.next[source], cell)
           queued == Submit(queue, target, source, cell)
<1>1. /\ queue \in [pending : SUBSET Entry, next : [Peer -> Nat]]
      /\ IsFiniteSet(queue.pending) /\ Numbered(queue.pending)
      /\ Cardinality(accepted) \in Nat
  BY FS_CardinalityType DEF IInv, Typed
<1>2. command \in Cmd /\ command.source = source /\ command.sequence = queue.next[source]
  BY <1>1 DEF Command, Cmd, Tick
<1>3. With(queue.pending, command) \in SUBSET Entry
  <2> HIDE DEF command
  <2> QED
    BY <1>1, <1>2, WithAddsOne
<1>4. /\ queued \in [pending : SUBSET Entry, next : [Peer -> Nat]]
      /\ queued.pending = With(queue.pending, command)
      /\ \A s \in Peer : queued.next[s] = IF s = source THEN queue.next[s] + 1 ELSE queue.next[s]
  <2>1. queued = [[queue EXCEPT !.pending = With(queue.pending, command)]
                    EXCEPT !.next = [queue.next EXCEPT ![source] = queue.next[source] + 1]]
    BY <1>1 DEF Submit, Enqueue
  <2>2. queue.next[source] + 1 \in Nat
    BY <1>1
  <2> HIDE DEF command, queued
  <2> QED
    BY <1>1, <1>3, <2>1, <2>2
<1>5. \A s \in Peer : queue.next[s] \in Nat /\ queue.next[s] <= MaxSequence + Cardinality(accepted)
  BY <1>1 DEF IInv, Bounded
<1>6. Accept(command, queued)
  BY DEF SubmitLocal
<1> HIDE DEF command, queued
<1>7. \A s \in Peer : /\ queue.next[s] <= queued.next[s]
                      /\ queued.next[s] <= MaxSequence + Cardinality(accepted) + 1
  BY <1>1, <1>4, <1>5, BoundsAssumption
<1>8. command.sequence < queued.next[command.source]
  BY <1>2, <1>4, <1>5
<1> QED
  BY <1>2, <1>4, <1>6, <1>7, <1>8, AcceptKeepsIInv

LEMMA SubmitRecordedKeepsIInv ==
  ASSUME IInv, NEW command \in Commands, SubmitRecorded(command)
  PROVE  IInv'
<1> DEFINE queued == SubmitStamped(queue, command)
           source == command.source
           number == IF command.sequence + 1 > queue.next[source] THEN command.sequence + 1
                     ELSE queue.next[source]
<1>1. /\ queue \in [pending : SUBSET Entry, next : [Peer -> Nat]]
      /\ IsFiniteSet(queue.pending) /\ Numbered(queue.pending)
      /\ Cardinality(accepted) \in Nat
  BY FS_CardinalityType DEF IInv, Typed
<1>2. command \in Cmd /\ source \in Peer /\ command.sequence \in 0 .. MaxSequence
  BY DEF Commands, Cmd, Tick
<1>3. With(queue.pending, command) \in SUBSET Entry
  BY <1>1, <1>2, WithAddsOne
<1>4. MaxSequence \in Nat /\ command.sequence \in Nat /\ command.sequence <= MaxSequence
  BY <1>2, BoundsAssumption
<1>5. \A s \in Peer : queue.next[s] \in Nat /\ queue.next[s] <= MaxSequence + Cardinality(accepted)
  BY <1>1 DEF IInv, Bounded
<1>6. number \in Nat
  BY <1>2, <1>4, <1>5
<1>7. /\ queued \in [pending : SUBSET Entry, next : [Peer -> Nat]]
      /\ queued.pending = With(queue.pending, command)
      /\ \A s \in Peer : queued.next[s] = IF s = source THEN number ELSE queue.next[s]
  <2>1. queued = [[queue EXCEPT !.pending = With(queue.pending, command)]
                    EXCEPT !.next = [queue.next EXCEPT ![source] = number]]
    BY <1>1 DEF SubmitStamped, Enqueue
  <2> HIDE DEF queued, number, source
  <2> QED
    BY <1>1, <1>2, <1>3, <1>6, <2>1
<1>8. Accept(command, queued)
  BY DEF SubmitRecorded
<1> HIDE DEF queued
<1>9. \A s \in Peer : /\ queue.next[s] <= queued.next[s]
                      /\ queued.next[s] <= MaxSequence + Cardinality(accepted) + 1
  BY <1>1, <1>2, <1>4, <1>5, <1>7
<1>10. command.sequence < queued.next[command.source]
  BY <1>2, <1>4, <1>5, <1>7
<1> QED
  BY <1>2, <1>7, <1>8, <1>9, <1>10, AcceptKeepsIInv

------------------------------------------------------------------------------
\* What a tick adds to the reports: one line for each copy that was due.
LEMMA ReportedGrows ==
  ASSUME NEW S, IsFiniteSet(S), NEW R, IsFiniteSet(R), NEW t,
         \A r \in R : r[1] # t
  PROVE  /\ IsFiniteSet(R \cup {t} \X S)
         /\ Cardinality(R \cup {t} \X S) = Cardinality(R) + Cardinality(S)
<1> DEFINE new == {t} \X S
           f == [i \in S |-> <<t, i>>]
<1>1. f \in Bijection(S, new)
  <2>1. f \in [S -> new]
    OBVIOUS
  <2>2. \A i, j \in S : f[i] = f[j] => i = j
    OBVIOUS
  <2>3. \A r \in new : \E i \in S : f[i] = r
    OBVIOUS
  <2> HIDE DEF f, new
  <2> QED
    BY <2>1, <2>2, <2>3 DEF Bijection, Injection, Surjection, IsInjective
<1>2. R \cap new = {}
  OBVIOUS
<1> HIDE DEF f, new
<1>3. IsFiniteSet(new) /\ Cardinality(new) = Cardinality(S)
  BY <1>1, FS_Bijection DEF ExistsBijection
<1>4. IsFiniteSet(R \cup new) /\ Cardinality(R \cup new) = Cardinality(R) + Cardinality(new) - 0
  BY <1>2, <1>3, FS_Union, FS_EmptySet
<1>5. Cardinality(R) \in Nat /\ Cardinality(S) \in Nat
  BY FS_CardinalityType
<1> QED
  BY <1>3, <1>4, <1>5 DEF new

\* A tick that runs reports exactly what it takes from the queue, and adds to
\* the world exactly the winners of its own tick.
LEMMA RunKeepsIInv ==
  ASSUME IInv,
         kernel' = RunTick(kernel, queue, refusing),
         queue' = AfterDrain(queue, kernel.tick),
         ran' = Append(ran, [report |-> kernel'.report, refusing |-> refusing]),
         UNCHANGED <<refusing, accepted, onTime>>
  PROVE  IInv'
<1> DEFINE order == Drained(queue, kernel.tick)
           due == Due(queue, kernel.tick)
           n == Cardinality(due)
<1>1. /\ queue \in [pending : SUBSET Entry, next : [Peer -> Nat]]
      /\ IsFiniteSet(queue.pending) /\ Numbered(queue.pending)
      /\ Cardinality(queue.pending) \in Nat /\ Cardinality(accepted) \in Nat
      /\ kernel \in Kernels /\ kernel.tick \in Nat
      /\ onTime \in SUBSET Cmd
      /\ refusing \in SUBSET Cell
  BY FS_CardinalityType DEF IInv, Typed, Kernels
<1>2. Ascending(kernel.world) /\ Range(kernel.world) = Winners
  BY DEF IInv, ArrivalIndependent
<1>3. \A c \in Cmd : c.target \in Nat /\ c.cell \in Cell
  BY DEF Cmd
<1>4. \A c \in Range(kernel.world) : c \in Cmd /\ c.target < kernel.tick
  BY <1>1, <1>2 DEF Winners, Valid
<1>5. PICK k : /\ Progressed(kernel, order, refusing, k, n)
               /\ kernel' = [k EXCEPT !.tick = @ + 1]
  BY <1>1, <1>2, <1>4, RunTickProgresses
<1>6. /\ n \in Nat /\ order \in [1 .. n -> Cmd] /\ DOMAIN order = 1 .. n
      /\ \A i \in 1 .. n : \E e \in due : e[1] = order[i]
      /\ \A e \in due : \E i \in 1 .. n : e[1] = order[i]
      /\ \A i, j \in 1 .. n : i <= j => Precedes(order[i], order[j])
      /\ \A c : /\ IsFiniteSet({i \in 1 .. n : order[i] = c})
                /\ Cardinality({i \in 1 .. n : order[i] = c}) = Copies(c, due)
  <2>0. queue.pending \in SUBSET Entry /\ IsFiniteSet(queue.pending) /\ kernel.tick \in Nat
    BY <1>1
  <2>1. Sorts(order, due)
    BY <2>0, DrainedIsSorted
  <2> HIDE DEF order, due
  <2>2. DOMAIN order = 1 .. n
    BY <2>1 DEF Sorts
  <2> QED
    BY <2>1, <2>2 DEF Sorts
<1>7. \A e \in queue.pending : e \in due <=> e[1].target <= kernel.tick
  BY DEF Due
<1>8. queue' = [queue EXCEPT !.pending = queue.pending \ due]
  BY <1>1 DEF AfterDrain
<1> HIDE DEF n, order
<1>9. /\ k \in Kernels /\ k.tick = kernel.tick
      /\ kernel' \in Kernels /\ kernel'.tick = kernel.tick + 1
      /\ kernel'.world = k.world /\ kernel'.report = k.report
      /\ Len(k.report) = n /\ k.report \in Seq(Line)
      /\ \A m \in 1 .. n : k.report[m].command = order[m]
  <2>1. /\ k \in Kernels /\ k.tick = kernel.tick /\ Len(k.report) = n
        /\ \A m \in 1 .. n : k.report[m].command = order[m]
    BY <1>5 DEF Progressed
  <2>2. k.report \in Seq(Line) /\ k.tick + 1 \in Nat
    BY <2>1 DEF Kernels
  <2>3. kernel' = [k EXCEPT !.tick = k.tick + 1]
    BY <1>5
  <2>4. /\ kernel' \in Kernels /\ kernel'.tick = k.tick + 1
        /\ kernel'.world = k.world /\ kernel'.report = k.report
    BY <2>1, <2>2, <2>3 DEF Kernels
  <2> QED
    BY <2>1, <2>2, <2>4
<1>10. /\ ran \in Seq([report : Seq(Line), refusing : SUBSET Cell]) /\ Len(ran) = kernel.tick
       /\ ran' \in Seq([report : Seq(Line), refusing : SUBSET Cell]) /\ Len(ran') = kernel.tick + 1
       /\ DOMAIN ran = 1 .. kernel.tick /\ DOMAIN ran' = 1 .. (kernel.tick + 1)
       /\ ran'[kernel.tick + 1] = [report |-> k.report, refusing |-> refusing]
       /\ \A i \in 1 .. kernel.tick : ran'[i] = ran[i]
  BY <1>1, <1>9 DEF IInv, Typed
<1>11. /\ queue' \in [pending : SUBSET Entry, next : [Peer -> Nat]]
       /\ queue'.pending = queue.pending \ due /\ queue'.next = queue.next
       /\ IsFiniteSet(queue'.pending) /\ Numbered(queue'.pending)
       /\ Cardinality(queue'.pending) <= Cardinality(queue.pending)
       /\ Cardinality(queue'.pending) \in Nat
       /\ \A c : Copies(c, queue.pending) = Copies(c, queue'.pending) + Copies(c, due)
  <2>1. /\ IsFiniteSet(queue.pending \ due) /\ Numbered(queue.pending \ due)
        /\ Cardinality(queue.pending \ due) <= Cardinality(queue.pending)
        /\ \A c : Copies(c, queue.pending) = Copies(c, queue.pending \ due) + Copies(c, due)
    BY <1>1, DrainTakesAllCopies
  <2> HIDE DEF due
  <2>2. /\ queue' \in [pending : SUBSET Entry, next : [Peer -> Nat]]
        /\ queue'.pending = queue.pending \ due /\ queue'.next = queue.next
    BY <1>1, <1>8
  <2> QED
    BY <2>1, <2>2, FS_CardinalityType
<1> HIDE DEF due
<1>12. Typed'
  BY <1>9, <1>10, <1>11 DEF IInv, Typed, Numbered
<1>13. Bounded'
  BY <1>1, <1>11, MaxPendingAssumption DEF IInv, Bounded
<1>14. Accounted'
  <2> SUFFICES ASSUME NEW c
               PROVE  /\ IsFiniteSet(Reported(c)')
                      /\ Copies(c, accepted) = Copies(c, queue'.pending) + Cardinality(Reported(c)')
    BY DEF Accounted
  <2> DEFINE S == {i \in 1 .. n : order[i] = c}
  <2>1. Reported(c)' = Reported(c) \cup {kernel.tick + 1} \X S
    <3>1. {i \in DOMAIN ran'[kernel.tick + 1].report :
             ran'[kernel.tick + 1].report[i].command = c} = S
      BY <1>9, <1>10
    <3>2. \A i \in 1 .. kernel.tick : ran'[i] = ran[i]
      BY <1>10
    <3>3. 1 .. (kernel.tick + 1) = 1 .. kernel.tick \cup {kernel.tick + 1}
      BY <1>1
    <3> HIDE DEF S
    <3> QED
      BY <1>10, <3>1, <3>2, <3>3 DEF Reported
  <2>2. \A r \in Reported(c) : r[1] # kernel.tick + 1
    BY <1>1, <1>10 DEF Reported
  <2>3. IsFiniteSet(S) /\ Cardinality(S) = Copies(c, due) /\ Cardinality(S) \in Nat
    BY <1>6, FS_CardinalityType
  <2>4. /\ IsFiniteSet(Reported(c)) /\ Cardinality(Reported(c)) \in Nat
        /\ Copies(c, accepted) = Copies(c, queue.pending) + Cardinality(Reported(c))
    BY FS_CardinalityType DEF IInv, Accounted
  <2>5. {e \in queue'.pending : e[1] = c} \in SUBSET queue'.pending
    OBVIOUS
  <2>6. Copies(c, queue'.pending) \in Nat
    BY <1>11, <2>5, FS_Subset, FS_CardinalityType DEF Copies
  <2>7. /\ IsFiniteSet(Reported(c)')
        /\ Cardinality(Reported(c)') = Cardinality(Reported(c)) + Cardinality(S)
    <3>1. PICK now : now = kernel.tick + 1
      OBVIOUS
    <3>2. PICK R : R = Reported(c)
      OBVIOUS
    <3> HIDE DEF S
    <3>3. IsFiniteSet(R \cup {now} \X S) /\ Cardinality(R \cup {now} \X S) = Cardinality(R) + Cardinality(S)
      BY <2>2, <2>3, <2>4, <3>1, <3>2, ReportedGrows
    <3> QED
      BY <2>1, <3>1, <3>2, <3>3
  <2>8. Copies(c, queue.pending) = Copies(c, queue'.pending) + Copies(c, due)
    BY <1>11
  <2> HIDE DEF S
  <2> QED
    BY <2>3, <2>4, <2>6, <2>7, <2>8
<1>15. InTime'
  <2>1. ASSUME NEW c \in onTime, c.target >= kernel.tick + 1
        PROVE  \E e \in queue'.pending : e[1] = c
    <3>1. c.target >= kernel.tick /\ ~ (c.target <= kernel.tick)
      BY <1>1, <1>3, <2>1
    <3>2. PICK e \in queue.pending : e[1] = c
      BY <3>1 DEF IInv, InTime
    <3> QED
      BY <1>7, <1>11, <3>1, <3>2
  <2>2. ASSUME NEW e \in queue'.pending, e[1].target >= kernel.tick + 1
        PROVE  e[1] \in onTime
    <3>1. e \in queue.pending /\ e[1] \in Cmd
      BY <1>1, <1>11 DEF Entry
    <3>2. e[1].target >= kernel.tick
      BY <1>1, <1>3, <2>2, <3>1
    <3> QED
      BY <3>1, <3>2 DEF IInv, InTime
  <2> QED
    BY <1>9, <2>1, <2>2 DEF InTime
<1>16. \A c : c \in Valid' <=>
         \/ c \in Valid
         \/ c \in onTime /\ c.target = kernel.tick /\ c.cell \notin refusing
  <2> SUFFICES ASSUME NEW c \in onTime
               PROVE  c \in Valid' <=> \/ c \in Valid
                                       \/ c.target = kernel.tick /\ c.cell \notin refusing
    BY DEF Valid
  <2>1. c.target \in Nat
    BY <1>1, <1>3
  <2>2. CASE c.target < kernel.tick
    <3>1. c.target + 1 \in 1 .. kernel.tick /\ c.target < kernel.tick + 1 /\ c.target # kernel.tick
      BY <1>1, <2>1, <2>2
    <3> QED
      BY <1>9, <1>10, <2>2, <3>1 DEF Valid
  <2>3. CASE c.target = kernel.tick
    BY <1>1, <1>9, <1>10, <2>3 DEF Valid
  <2>4. CASE c.target > kernel.tick
    BY <1>1, <1>9, <2>1, <2>4 DEF Valid
  <2> QED
    BY <1>1, <2>1, <2>2, <2>3, <2>4
<1>17. \A c \in Valid : c \in Cmd /\ c.target < kernel.tick
  BY <1>1 DEF Valid
<1>18. \A c \in onTime : c.target = kernel.tick => \E m \in 1 .. n : order[m] = c
  <2> SUFFICES ASSUME NEW c \in onTime, c.target = kernel.tick PROVE \E m \in 1 .. n : order[m] = c
    OBVIOUS
  <2>1. PICK e \in queue.pending : e[1] = c
    BY <1>1 DEF IInv, InTime
  <2> QED
    BY <1>1, <1>6, <1>7, <2>1
<1>19. \A m \in 1 .. n :
         /\ order[m] \in Cmd /\ order[m].target <= kernel.tick
         /\ order[m].target >= kernel.tick => order[m] \in onTime /\ order[m].target = kernel.tick
  <2> SUFFICES ASSUME NEW m \in 1 .. n
               PROVE  /\ order[m] \in Cmd /\ order[m].target <= kernel.tick
                      /\ order[m].target >= kernel.tick => order[m] \in onTime /\ order[m].target = kernel.tick
    OBVIOUS
  <2>1. PICK e \in due : e[1] = order[m]
    BY <1>6
  <2>2. e \in queue.pending /\ order[m] \in Cmd /\ order[m].target <= kernel.tick
    BY <1>6, <1>7, <2>1 DEF due, Due
  <2>3. order[m].target >= kernel.tick => order[m] \in onTime
    BY <2>1, <2>2 DEF IInv, InTime
  <2> QED
    BY <1>1, <1>3, <2>2, <2>3
<1>20. /\ \A cell \in Cell : cell \in Owned(k.world) <=>
            cell \in Owned(kernel.world) \cup Wanted(kernel, order, refusing, n)
       /\ \A c : c \in Range(k.world) <=>
            c \in Winners \/ \E m \in 1 .. n : c = order[m] /\ First(kernel, order, refusing, m)
       /\ Ascending(k.world)
  BY <1>2, <1>5 DEF Progressed
<1>21. Taken'
  <2> SUFFICES ASSUME NEW c \in Valid' PROVE c.cell \in Owned(k.world)
    BY <1>9 DEF Taken
  <2>1. CASE c \in Valid
    BY <1>3, <1>17, <1>20, <2>1 DEF IInv, Taken
  <2>2. CASE c \in onTime /\ c.target = kernel.tick /\ c.cell \notin refusing
    <3>1. PICK m \in 1 .. n : order[m] = c
      BY <1>18, <2>2
    <3>2. c.cell \in Cell /\ c.target >= kernel.tick
      BY <1>1, <1>3, <2>2
    <3>3. c.cell \in Wanted(kernel, order, refusing, n)
      BY <2>2, <3>1, <3>2 DEF Wanted
    <3> QED
      BY <1>20, <3>2, <3>3
  <2> QED
    BY <1>16, <2>1, <2>2
<1>22. SequencesFresh'
  BY <1>11 DEF IInv, SequencesFresh
<1>23. ASSUME NEW c, c \in Range(k.world) PROVE c \in Winners'
  <2>1. CASE c \in Winners
    <3>1. c \in Valid /\ c \in Valid'
      BY <1>16, <2>1 DEF Winners
    <3>2. ASSUME NEW d \in Valid', d.cell = c.cell PROVE Earlier(c, d)
      <4>1. CASE d \in Valid
        BY <2>1, <3>2, <4>1 DEF Winners
      <4>2. CASE d.target = kernel.tick
        BY <1>17, <3>1, <4>2 DEF Earlier
      <4> QED
        BY <1>16, <4>1, <4>2
    <3> QED
      BY <3>1, <3>2 DEF Winners
  <2>2. CASE \E m \in 1 .. n : c = order[m] /\ First(kernel, order, refusing, m)
    <3>1. PICK m \in 1 .. n : c = order[m] /\ First(kernel, order, refusing, m)
      BY <2>2
    <3>2. /\ c \in onTime /\ c.target = kernel.tick /\ c.cell \notin refusing
          /\ c.cell \notin Owned(kernel.world)
      <4>1. /\ order[m].target >= kernel.tick /\ c = order[m]
            /\ c.cell \notin refusing /\ c.cell \notin Owned(kernel.world)
        BY <3>1 DEF First
      <4>2. order[m].target >= kernel.tick => order[m] \in onTime /\ order[m].target = kernel.tick
        BY <1>19
      <4> QED
        BY <4>1, <4>2
    <3>3. c \in Valid'
      BY <1>16, <3>2
    <3>4. ASSUME NEW d \in Valid', d.cell = c.cell PROVE Earlier(c, d)
      <4>1. d \notin Valid
        BY <3>2, <3>4 DEF IInv, Taken
      <4>2. d \in onTime /\ d.target = kernel.tick
        BY <1>16, <4>1
      <4>3. PICK l \in 1 .. n : order[l] = d
        BY <1>18, <4>2
      <4>4. ~ (l \in 1 .. (m - 1))
        BY <1>1, <3>1, <3>4, <4>2, <4>3 DEF First
      <4>5. m <= l
        BY <4>4
      <4>6. Precedes(c, d)
        BY <1>6, <3>1, <4>3, <4>5
      <4> QED
        BY <3>2, <4>2, <4>6 DEF Earlier
    <3> QED
      BY <3>3, <3>4 DEF Winners
  <2> QED
    BY <1>20, <1>23, <2>1, <2>2
<1>24. ASSUME NEW c, c \in Winners' PROVE c \in Range(k.world)
  <2>1. c \in Valid' /\ \A d \in Valid' : d.cell = c.cell => Earlier(c, d)
    BY <1>24 DEF Winners
  <2>2. CASE c \in Valid
    <3>1. c \in Winners
      BY <1>16, <2>1, <2>2 DEF Winners
    <3> QED
      BY <1>20, <3>1
  <2>3. CASE c \in onTime /\ c.target = kernel.tick /\ c.cell \notin refusing
    <3> DEFINE places == {m \in 1 .. n : order[m] = c}
    <3>1. PICK m \in places : \A l \in places : m <= l
      <4>1. places \in SUBSET Nat /\ places # {}
        BY <1>18, <2>3
      <4> HIDE DEF places
      <4> QED
        BY <4>1, LeastElement
    <3>2. c.cell \notin Owned(kernel.world)
      <4> SUFFICES ASSUME c.cell \in Owned(kernel.world) PROVE FALSE
        OBVIOUS
      <4>1. PICK d \in Range(kernel.world) : d.cell = c.cell
        BY DEF Owned, Range
      <4>2. d \in Valid /\ d.target < kernel.tick /\ d.target \in Nat
        BY <1>2, <1>3, <1>4 DEF Winners
      <4>3. Earlier(c, d)
        BY <1>16, <2>1, <4>1, <4>2
      <4> QED
        BY <1>1, <2>3, <4>2, <4>3 DEF Earlier
    <3>3. ASSUME NEW l \in 1 .. (m - 1), order[l].target >= kernel.tick
          PROVE  order[l].cell # c.cell
      <4> SUFFICES ASSUME order[l].cell = c.cell PROVE FALSE
        OBVIOUS
      <4>0. m \in 1 .. n /\ order[m] = c
        BY <3>1
      <4>1. l \in 1 .. n /\ l <= m /\ m \in Nat /\ ~ (m <= l)
        BY <1>6, <4>0
      <4>2. l \notin places
        BY <3>1, <4>1
      <4>3. order[l] \in onTime /\ order[l].target = kernel.tick /\ order[l] \in Cmd
        <5>1. /\ order[l] \in Cmd
              /\ order[l].target >= kernel.tick => order[l] \in onTime /\ order[l].target = kernel.tick
          BY <1>19, <4>1
        <5> QED
          BY <3>3, <5>1
      <4>4. /\ Precedes(c, order[l]) /\ Precedes(order[l], c) /\ c \in Cmd
        <5>1. order[l].cell \notin refusing
          BY <2>3
        <5>2. order[l] \in Valid'
          BY <1>16, <4>3, <5>1
        <5>3. Earlier(c, order[l])
          BY <2>1, <5>2
        <5>4. Precedes(c, order[l])
          BY <1>1, <2>3, <4>3, <5>3 DEF Earlier
        <5>5. Precedes(order[l], order[m])
          BY <1>6, <4>0, <4>1
        <5> QED
          BY <1>1, <2>3, <4>0, <5>4, <5>5
      <4>5. order[l] = c
        BY <4>3, <4>4, PrecedesIsTotal
      <4> QED
        BY <4>1, <4>2, <4>5
    <3>4. First(kernel, order, refusing, m)
      BY <1>1, <2>3, <3>1, <3>2, <3>3 DEF First
    <3> QED
      BY <1>20, <3>1, <3>4
  <2> QED
    BY <1>16, <2>1, <2>2, <2>3
<1>25. ArrivalIndependent'
  <2>1. Range(k.world) = Winners'
    BY <1>23, <1>24
  <2> QED
    BY <1>9, <1>20, <2>1 DEF ArrivalIndependent, Ascending
<1> QED
  BY <1>12, <1>13, <1>14, <1>15, <1>21, <1>22, <1>25 DEF IInv

------------------------------------------------------------------------------
LEMMA NextKeepsIInv == IInv /\ [Next]_vars => IInv'
<1> SUFFICES ASSUME IInv, [Next]_vars PROVE IInv'
  OBVIOUS
<1>1. ASSUME NEW target \in Tick, NEW source \in Peer, NEW cell \in Cell,
             SubmitLocal(target, source, cell)
      PROVE  IInv'
  BY <1>1, SubmitLocalKeepsIInv
<1>2. ASSUME NEW command \in Commands, SubmitRecorded(command) PROVE IInv'
  BY <1>2, SubmitRecordedKeepsIInv
<1>3. refusing \in SUBSET Cell
  BY DEF IInv, Typed
<1>4. ASSUME NEW source \in Peer, NEW tick \in Tick, Mark(source, tick) PROVE IInv'
  BY <1>3, <1>4, QuietKeepsIInv DEF Mark
<1>5. ASSUME NEW cells \in SUBSET Cell, Load(cells) PROVE IInv'
  BY <1>5, QuietKeepsIInv DEF Load
<1>6. CASE Step
  <2>1. CASE Ready(gate, kernel.tick)
    BY <1>6, <2>1, RunKeepsIInv DEF Step
  <2>2. CASE ~ Ready(gate, kernel.tick)
    BY <1>3, <1>6, <2>2, QuietKeepsIInv DEF Step, vars
  <2> QED
    BY <2>1, <2>2
<1>7. CASE UNCHANGED vars
  BY <1>3, <1>7, QuietKeepsIInv DEF vars
<1> QED
  BY <1>1, <1>2, <1>4, <1>5, <1>6, <1>7 DEF Next

THEOREM IInvHolds == Spec => []IInv
  BY InitIInv, NextKeepsIInv, PTL DEF Spec

\* The tick counts the steps that ran, the queue stays within kMaxPending, the
\* counters within what was accepted, and the world claims cells alone.
THEOREM TypeCorrect == Spec => []TypeOK
<1>1. IInv => TypeOK
  <2> SUFFICES ASSUME IInv PROVE TypeOK
    OBVIOUS
  <2>1. /\ kernel \in Kernels /\ Len(ran) = kernel.tick /\ refusing \subseteq Cell
        /\ queue.next \in [Peer -> Nat] /\ IsFiniteSet(queue.pending) /\ IsFiniteSet(accepted)
        /\ Cardinality(queue.pending) <= MaxPending /\ Cardinality(accepted) <= MaxAccepted
        /\ \A s \in Peer : queue.next[s] <= MaxSequence + Cardinality(accepted)
    BY DEF IInv, Typed, Bounded
  <2>2. /\ Cardinality(queue.pending) \in Nat /\ Cardinality(accepted) \in Nat
        /\ MaxPending \in Nat /\ MaxSequence \in Nat /\ MaxAccepted \in Nat
    BY <2>1, FS_CardinalityType, MaxPendingAssumption, BoundsAssumption
  <2>3. Cardinality(queue.pending) \in 0 .. MaxPending
    BY <2>1, <2>2
  <2>4. queue.next \in [Peer -> 0 .. (MaxSequence + MaxAccepted)]
    <3>1. \A s \in Peer : queue.next[s] \in 0 .. (MaxSequence + MaxAccepted)
      BY <2>1, <2>2
    <3> QED
      BY <2>1, <3>1
  <2>5. Owned(kernel.world) \subseteq Cell
    <3>1. kernel.world \in Seq(Cmd)
      BY <2>1 DEF Kernels
    <3>2. ASSUME NEW i \in DOMAIN kernel.world PROVE kernel.world[i].cell \in Cell
      <4>1. kernel.world[i] \in Cmd
        BY <3>1
      <4> QED
        BY <4>1 DEF Cmd
    <3> QED
      BY <3>2 DEF Owned
  <2> QED
    BY <2>1, <2>3, <2>4, <2>5 DEF TypeOK
<1> QED
  BY <1>1, IInvHolds, PTL

\* Every command the queue accepted is still queued or was reported, each copy
\* once: no refused tick, late arrival or full queue loses or repeats one.
THEOREM NothingIsLost == Spec => []NothingLost
<1>1. IInv => NothingLost
  <2> SUFFICES ASSUME IInv PROVE NothingLost
    OBVIOUS
  <2>1. ASSUME NEW t \in DOMAIN ran, NEW i \in DOMAIN ran[t].report
        PROVE  \E entry \in accepted : ran[t].report[i].command = entry[1]
    <3> DEFINE c == ran[t].report[i].command
               held(entries) == {entry \in entries : entry[1] = c}
    <3>1. <<t, i>> \in Reported(c)
      BY DEF Reported
    <3>2. IsFiniteSet(Reported(c)) /\ Copies(c, accepted) = Copies(c, queue.pending) + Cardinality(Reported(c))
      BY DEF IInv, Accounted
    <3>3. IsFiniteSet(accepted) /\ IsFiniteSet(queue.pending)
      BY DEF IInv, Typed
    <3>4. held(accepted) \in SUBSET accepted /\ held(queue.pending) \in SUBSET queue.pending
      OBVIOUS
    <3>5. Copies(c, accepted) = Cardinality(held(accepted)) /\ Copies(c, queue.pending) = Cardinality(held(queue.pending))
      BY DEF Copies
    <3>6. held(accepted) # {}
      <4> HIDE DEF c, held
      <4>1. Cardinality(held(queue.pending)) \in Nat
        BY <3>3, <3>4, FS_Subset, FS_CardinalityType
      <4>2. Cardinality(Reported(c)) \in Nat /\ Cardinality(Reported(c)) # 0
        BY <3>1, <3>2, FS_EmptySet, FS_CardinalityType
      <4>3. Cardinality(held(accepted)) # 0
        BY <3>2, <3>5, <4>1, <4>2
      <4> QED
        BY <4>3, FS_EmptySet
    <3> QED
      BY <3>6
  <2> QED
    BY <2>1 DEF NothingLost, IInv, Accounted
<1> QED
  BY <1>1, IInvHolds, PTL

\* The world is fixed by what was accepted in time: it is the winners, in the
\* order of tick, source, sequence and content, however commands arrived.
THEOREM WorldIsFixed == Spec => []ArrivalIndependent
<1>1. IInv => ArrivalIndependent
  BY DEF IInv
<1> QED
  BY <1>1, IInvHolds, PTL

\* A number the queue hands out was never used by its source before, even after
\* a replay submitted recorded ones.
THEOREM NumbersAreFresh == Spec => []SequencesFresh
<1>1. IInv => SequencesFresh
  BY DEF IInv
<1> QED
  BY <1>1, IInvHolds, PTL
==============================================================================
