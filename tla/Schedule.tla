------------------------------ MODULE Schedule ------------------------------
(***************************************************************************)
(* The schedule of systems (simulation/src/schedule.cpp) and the two       *)
(* phases in which a kernel with a pool steps it (kernel.cpp, sections 2   *)
(* and 3): batch by batch the systems compute, those of one batch at the   *)
(* same time, and then all commit, one after another as they were added.   *)
(*                                                                         *)
(* What a system computes is a token of what it read; a table is the       *)
(* sequence of tokens committed to it.                                     *)
(***************************************************************************)
EXTENDS Integers, Sequences

CONSTANTS Table,       \* the tables of the world
          Foreign,     \* a table the world does not have
          MaxSystems,  \* bound: systems added
          MaxTicks,    \* bound: ticks stepped
          Idle

ASSUME IdleAssumption == Idle \notin Nat

VARIABLES systems,    \* m_systems, in the order added
          batches,    \* m_batches
          finalised,
          table,      \* the world
          scratch,    \* what each system computed this tick
          computing,  \* the systems computing now
          at,         \* the batch computing, or past the last the commits; Idle between ticks
          ticks,
          expected    \* auxiliary: the tick as the declarations define it

scheduleVars == <<systems, batches, finalised, table, scratch, computing, at, ticks, expected>>

\* SystemDesc: a system computes, commits, or both; what it reads it computes with.
Descs == {d \in [reads : SUBSET Table \cup {{Foreign}}, writes : SUBSET Table,
                 computes : BOOLEAN, commits : BOOLEAN] : d.computes \/ d.reads = {}}

Intersects(a, b) == a \cap b # {}

\* Mutant: only what both write is looked at.
WritesConflict(a, b) == Intersects(a.writes, b.writes)

Conflicts(a, b) ==
  Intersects(a.writes, b.writes) \/ Intersects(a.writes, b.reads) \/ Intersects(a.reads, b.writes)

\* add refuses a system without phases, one that reads what it writes, and one
\* that commits and declares no writes.
Addable(desc) ==
  /\ desc.computes \/ desc.commits
  /\ ~Intersects(desc.reads, desc.writes)
  /\ desc.commits => desc.writes # {}

Add(desc) ==
  /\ at = Idle /\ Len(systems) < MaxSystems /\ Addable(desc)
  /\ systems' = Append(systems, desc)
  /\ finalised' = FALSE /\ batches' = <<>>
  /\ UNCHANGED <<table, scratch, computing, at, ticks, expected>>

\* Greedy in declared order: a system joins the open batch or begins the next.
Joined(done, i) ==
  LET open == Len(done)
  IN  IF open > 0 /\ \A member \in done[open] : ~Conflicts(systems[member], systems[i])
      THEN [done EXCEPT ![open] = @ \cup {i}]
      ELSE Append(done, {i})

\* The batches after each of the systems, from none to all of them.
Grouped ==
  LET after[i \in 0 .. Len(systems)] == IF i = 0 THEN <<>> ELSE Joined(after[i - 1], i)
  IN  after

FinaliseSchedule ==
  /\ at = Idle
  /\ \A i \in DOMAIN systems : systems[i].reads \subseteq Table
  /\ batches' = Grouped[Len(systems)]
  /\ finalised' = TRUE
  /\ UNCHANGED <<systems, table, scratch, computing, at, ticks, expected>>

\* What system i makes of the tables it may look at: those it declared.
Token(i, world) == <<i, [t \in (systems[i].reads \cup systems[i].writes) |-> Len(world[t])]>>

\* The tables after the systems commit what they hold, in declared order.
Committed(world, held) ==
  LET after[i \in 0 .. Len(systems)] ==
        CASE i = 0 -> world
          [] i > 0 /\ systems[i].commits ->
               [t \in Table |-> IF t \in systems[i].writes THEN Append(after[i - 1][t], held[i])
                             ELSE after[i - 1][t]]
          [] OTHER -> after[i - 1]
  IN  after[Len(systems)]

\* Every system looks at the world as the tick found it.
Held(world) == [i \in DOMAIN systems |-> IF systems[i].computes THEN Token(i, world) ELSE <<>>]

BeginTick ==
  /\ at = Idle /\ finalised /\ ticks < MaxTicks
  /\ at' = 1 /\ scratch' = [i \in DOMAIN systems |-> <<>>]
  /\ expected' = Committed(table, Held(table))
  /\ UNCHANGED <<systems, batches, finalised, table, computing, ticks>>

\* The systems of a batch are dispatched to the pool: they begin and end in any
\* order, and the batch is over when all have ended.
Dispatch ==
  /\ at # Idle /\ at \in DOMAIN batches
  /\ computing = {} /\ \A i \in batches[at] : scratch[i] = <<>>
  /\ computing' = {i \in batches[at] : systems[i].computes}
  /\ at' = IF computing' = {} THEN at + 1 ELSE at
  /\ UNCHANGED <<systems, batches, finalised, table, scratch, ticks, expected>>

Compute(i) ==
  /\ i \in computing
  /\ scratch' = [scratch EXCEPT ![i] = Token(i, table)]
  /\ computing' = computing \ {i}
  /\ at' = IF computing' = {} THEN at + 1 ELSE at
  /\ UNCHANGED <<systems, batches, finalised, table, ticks, expected>>

Commit ==
  /\ at # Idle /\ at > Len(batches)
  /\ table' = Committed(table, scratch)
  /\ at' = Idle /\ ticks' = ticks + 1
  /\ UNCHANGED <<systems, batches, finalised, scratch, computing, expected>>

ScheduleInit ==
  /\ systems = <<>> /\ batches = <<>> /\ finalised = FALSE
  /\ table = [t \in Table |-> <<>>] /\ scratch = <<>> /\ computing = {}
  /\ at = Idle /\ ticks = 0 /\ expected = table

ScheduleNext ==
  \/ \E desc \in Descs : Add(desc)
  \/ FinaliseSchedule \/ BeginTick \/ Dispatch \/ Commit
  \/ \E i \in computing : Compute(i)

ScheduleSpec == ScheduleInit /\ [][ScheduleNext]_scheduleVars

------------------------------------------------------------------------------
\* No two systems compute at once where one writes what the other touches, and
\* after a tick the tables are what the declarations say: every system in the
\* schedule computed from the tables as they were, and committed in its turn
\* (Schedule::finalise, Kernel::step).
TicksAsDeclared ==
  /\ \A i, j \in computing :
       i # j => ~Intersects(systems[i].writes, systems[j].writes \cup systems[j].reads)
  /\ at = Idle => table = expected
==============================================================================
