------------------------------ MODULE KernelOps ------------------------------
(***************************************************************************)
(* The command queue and the tick of engine/simulation as values.          *)
(*                                                                         *)
(* A command claims a cell of the world for its source; the handler        *)
(* declines it when the cell is owned, as a game's handlers decline on     *)
(* world state.  The world is the sequence of claims that were applied:    *)
(* it tells apart any two executions that applied different commands, or   *)
(* the same commands in another order, and so stands for its own hash.     *)
(* What systems compute and commit is a function of the world and the tick *)
(* alone and adds nothing to it.                                           *)
(***************************************************************************)
EXTENDS Integers, Sequences, FiniteSets, Functions

CONSTANTS Peer,        \* sources of commands, ordered as integers
          Cell,        \* payloads, ordered as integers: the cell to claim
          MaxPending   \* kMaxPending: most commands one queue holds

ASSUME SourcesAssumption == Peer \subseteq Int /\ Cell \subseteq Int
ASSUME MaxPendingAssumption == MaxPending \in Nat

EmptyWorld == <<>>
Owned(world) == {world[i].cell : i \in DOMAIN world}

Command(target, source, sequence, cell) ==
  [target |-> target, source |-> source, sequence |-> sequence, cell |-> cell]

\* A stamped command may repeat: an entry is a command and the number of this
\* copy among those that are held.
Copies(command, entries) == Cardinality({entry \in entries : entry[1] = command})
With(entries, command) == entries \cup {<<command, Copies(command, entries) + 1>>}

\* The queue holds its entries unordered, and the next sequence number of each
\* source.
NewQueue == [pending |-> {}, next |-> [s \in Peer |-> 0]]

------------------------------------------------------------------------------
\* refusing: the cells whose payload the registered validator rejects.
SubmitStatus(queue, cell, refusing) ==
  CASE Cardinality(queue.pending) >= MaxPending -> "Exhausted"
    [] cell \notin Cell -> "NotFound"
    [] cell \in refusing -> "InvalidArgument"
    [] OTHER -> "Ok"

Enqueue(queue, command) == [queue EXCEPT !.pending = With(@, command)]

\* submit: the queue assigns the sequence number, so a producer cannot repeat one.
Submit(queue, target, source, cell) ==
  [Enqueue(queue, Command(target, source, queue.next[source], cell))
     EXCEPT !.next[source] = @ + 1]

\* Mutant: the recorded number does not move the counter.
SubmitStampedCounterStays(queue, command) == Enqueue(queue, command)

\* submit_stamped: the recorded number is kept, and the counter stays ahead of it.
SubmitStamped(queue, command) ==
  [Enqueue(queue, command)
     EXCEPT !.next[command.source] = IF command.sequence + 1 > @ THEN command.sequence + 1 ELSE @]

\* The total order of a tick's commands: source, sequence, and content to break
\* a tie that only a producer repeating a sequence number can cause.  Commands
\* that differ in nothing but their target are equal to the code's sort: at most
\* one of them is in time and the others change nothing, so here the earlier
\* target comes first.
Precedes(a, b) ==
  \/ a.source < b.source
  \/ /\ a.source = b.source
     /\ \/ a.sequence < b.sequence
        \/ /\ a.sequence = b.sequence
           /\ \/ a.cell < b.cell
              \/ a.cell = b.cell /\ a.target <= b.target

\* Mutant: content is compared before the sequence number.
BeforeByContent(a, b) ==
  LET swapped(command) == [command EXCEPT !.sequence = command.cell, !.cell = command.sequence]
  IN  Precedes(swapped(a[1]), swapped(b[1])) /\ (a[1] = b[1] => a[2] <= b[2])

\* Entries in that order; copies of one command are equal and take any order.
Before(a, b) == Precedes(a[1], b[1]) /\ (a[1] = b[1] => a[2] <= b[2])

\* stable_partition: everything stamped for this tick or an earlier one.
Due(queue, tick) == {entry \in queue.pending : entry[1].target <= tick}

\* The place of a due entry in the order: how many there are up to it.
Place(due, entry) == Cardinality({other \in due : Before(other, entry)})

\* drain: what is due, sorted.
Drained(queue, tick) ==
  LET due == Due(queue, tick)
  IN  [i \in 1 .. Cardinality(due) |-> (CHOOSE entry \in due : Place(due, entry) = i)[1]]

AfterDrain(queue, tick) == [queue EXCEPT !.pending = @ \ Due(queue, tick)]

------------------------------------------------------------------------------
\* A kernel: the tick about to run, the world, and the report of the last step.
NewKernel == [tick |-> 0, world |-> EmptyWorld, report |-> <<>>]

\* What becomes of one drained command: late, invalid, declined or applied.
Fate(kernel, command, refusing) ==
  CASE command.target < kernel.tick -> "late"
    [] command.cell \in refusing -> "invalid"
    [] command.cell \in Owned(kernel.world) -> "declined"
    [] OTHER -> "applied"

Execute(kernel, command, refusing) ==
  LET fate == Fate(kernel, command, refusing)
      reported == [kernel EXCEPT !.report = Append(@, [command |-> command, fate |-> fate])]
  IN  IF fate = "applied" THEN [reported EXCEPT !.world = Append(@, command)]
                          ELSE reported

\* The kernel after each of the drained commands, from none to all of them.
Executed(kernel, commands, refusing) ==
  LET after[i \in 0 .. Len(commands)] ==
        IF i = 0 THEN [kernel EXCEPT !.report = <<>>]
        ELSE Execute(after[i - 1], commands[i], refusing)
  IN  after

\* A step that runs: commands in order, then systems and hash, then the next tick.
RunTick(kernel, queue, refusing) ==
  LET commands == Drained(queue, kernel.tick)
  IN  [Executed(kernel, commands, refusing)[Len(commands)] EXCEPT !.tick = @ + 1]
==============================================================================
