------------------------------- MODULE Kernel -------------------------------
(***************************************************************************)
(* One peer's simulation: the command queue, the turn gate and the kernel  *)
(* that drains the one when the other allows it.  Producers submit         *)
(* commands and complete turns in any order; the driver steps whenever it  *)
(* likes.                                                                  *)
(***************************************************************************)
EXTENDS GateOps, KernelOps

CONSTANTS MaxTick,      \* bounds the run: ticks 0 .. MaxTick - 1 may run
          MaxSequence,  \* bounds the sequence numbers producers stamp
          MaxAccepted   \* bounds how many commands are ever accepted

ASSUME BoundsAssumption == {MaxTick, MaxSequence, MaxAccepted} \subseteq Nat

VARIABLES
  gate,       \* the turn gate
  queue,      \* the command queue
  kernel,     \* tick, world and report of the last step that ran
  refusing,   \* cells whose payload no longer validates: state a validator closes over
  accepted,   \* history: the commands accepted, each as often as it was
  onTime,     \* history: those accepted before the tick they name had run
  ran         \* history: for each tick that ran, its report and what was refused

vars == <<gate, queue, kernel, refusing, accepted, onTime, ran>>

Tick == 0 .. (MaxTick - 1)

Commands == [target : Tick, source : Peer, sequence : 0 .. MaxSequence, cell : Cell]

Init == /\ gate = ExpectSources(NewGate, Peer)
        /\ queue = NewQueue
        /\ kernel = NewKernel
        /\ refusing = {}
        /\ accepted = {}
        /\ onTime = {}
        /\ ran = <<>>

\* Accepting a command, by either door.
Accept(command, queued) ==
  /\ Cardinality(accepted) < MaxAccepted
  /\ SubmitStatus(queue, command.cell, refusing) = "Ok"
  /\ queue' = queued
  /\ accepted' = With(accepted, command)
  /\ onTime' = IF command.target >= kernel.tick THEN onTime \cup {command} ELSE onTime
  /\ UNCHANGED <<gate, kernel, refusing, ran>>

\* A local producer: submit assigns the sequence number.
SubmitLocal(target, source, cell) ==
  Accept(Command(target, source, queue.next[source], cell), Submit(queue, target, source, cell))

\* A replay or a remote turn: the sequence number is the producer's promise.
SubmitRecorded(command) == Accept(command, SubmitStamped(queue, command))

Mark(source, tick) ==
  /\ gate' = MarkComplete(gate, source, tick)
  /\ UNCHANGED <<queue, kernel, refusing, accepted, onTime, ran>>

\* Mutant: the queue is drained before the gate is asked.
StepDrainsFirst ==
  /\ kernel.tick < MaxTick
  /\ queue' = AfterDrain(queue, kernel.tick)
  /\ \/ /\ ~Ready(gate, kernel.tick)
        /\ UNCHANGED <<gate, kernel, ran>>
     \/ /\ Ready(gate, kernel.tick)
        /\ kernel' = RunTick(kernel, queue, refusing)
        /\ gate' = RetireBefore(gate, kernel.tick)
        /\ ran' = Append(ran, [report |-> kernel'.report, refusing |-> refusing])
  /\ UNCHANGED <<refusing, accepted, onTime>>

\* A tick that is not ready is refused before anything is drained: the driver
\* retries it later with every command still queued.
Step ==
  /\ kernel.tick < MaxTick
  /\ \/ /\ ~Ready(gate, kernel.tick)
        /\ UNCHANGED vars
     \/ /\ Ready(gate, kernel.tick)
        /\ kernel' = RunTick(kernel, queue, refusing)
        /\ queue' = AfterDrain(queue, kernel.tick)
        /\ gate' = RetireBefore(gate, kernel.tick)
        /\ ran' = Append(ran, [report |-> kernel'.report, refusing |-> refusing])
        /\ UNCHANGED <<refusing, accepted, onTime>>

\* A load replaces the application state a validator refers to.
Load(cells) ==
  /\ refusing' = cells
  /\ UNCHANGED <<gate, queue, kernel, accepted, onTime, ran>>

Next ==
  \/ \E target \in Tick, source \in Peer, cell \in Cell : SubmitLocal(target, source, cell)
  \/ \E command \in Commands : SubmitRecorded(command)
  \/ \E source \in Peer, tick \in Tick : Mark(source, tick)
  \/ Step
  \/ \E cells \in SUBSET Cell : Load(cells)

Spec == Init /\ [][Next]_vars

------------------------------------------------------------------------------
\* The tick counts the steps that ran, the queue never holds more than
\* kMaxPending commands, and the world only claims cells.
TypeOK ==
  /\ kernel.tick = Len(ran)
  /\ Cardinality(queue.pending) \in 0 .. MaxPending
  /\ queue.next \in [Peer -> 0 .. (MaxSequence + MaxAccepted)]
  /\ Owned(kernel.world) \subseteq Cell
  /\ refusing \subseteq Cell

\* The report entries of every tick that ran that name a command.
Reported(command) ==
  UNION {{t} \X {i \in DOMAIN ran[t].report : ran[t].report[i].command = command} :
           t \in DOMAIN ran}

\* Every accepted command is still queued or was reported exactly once - as
\* applied, declined, invalid or late.  A refused tick throws none of them away
\* and a command that missed its tick does not disappear without a record.
NothingLost ==
  /\ \A command \in {entry[1] : entry \in accepted \cup queue.pending} :
       Copies(command, accepted) = Copies(command, queue.pending) + Cardinality(Reported(command))
  /\ \A t \in DOMAIN ran : \A i \in DOMAIN ran[t].report :
       \E entry \in accepted : ran[t].report[i].command = entry[1]

\* What the world should be, from what was accepted on time and nothing else:
\* commands ordered by tick, source, sequence and content, each applied when it
\* is valid at its tick and no earlier command took its cell.
Earlier(a, b) == a.target < b.target \/ (a.target = b.target /\ Precedes(a, b))

Valid == {c \in onTime : c.target < kernel.tick /\ c.cell \notin ran[c.target + 1].refusing}

Winners == {c \in Valid : \A d \in Valid : d.cell = c.cell => Earlier(c, d)}

Ascending(world) ==
  \A i, j \in DOMAIN world : i < j => Earlier(world[i], world[j]) /\ world[i] # world[j]

\* The world does not depend on when or in which order commands arrived, by
\* which door they came, how often the tick was refused before it ran, or what
\* late commands came with it: it is the winners, in order.
ArrivalIndependent == Range(kernel.world) = Winners /\ Ascending(kernel.world)

\* A source's counter stays ahead of everything accepted under its name, so a
\* command submitted after a replay never reuses a recorded sequence number.
SequencesFresh == \A entry \in accepted : entry[1].sequence < queue.next[entry[1].source]
==============================================================================
