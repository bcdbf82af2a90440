------------------------------ MODULE Lockstep ------------------------------
(***************************************************************************)
(* A lockstep game: every peer runs the driver's loop of apps/lab over its *)
(* own Session, CommandQueue, TurnGate and Kernel, and they share a link.  *)
(*                                                                         *)
(* A peer is one process, so a call of Session or Kernel is one step; what *)
(* interleaves is the calls of different peers, in any order the loop      *)
(* allows, and what the link delivers when.  Faults are those the code     *)
(* meets: a process that dies, a user who quits, a byte flipped in flight. *)
(***************************************************************************)
EXTENDS SessionOps

CONSTANTS Lengths,         \* the runs peers are told to make: --ticks of each
          Workload(_, _),  \* the cells a peer claims at a tick
          Faults,          \* which of "Crash", "Quit", "Corrupt" may happen
          Frail,           \* the peers they may strike
          MaxFaults        \* bounds how many do

VARIABLES node,     \* each peer's session, gate, queue and kernel
          net,      \* the link
          faults    \* the peers that faults struck, in order

vars == <<node, net, faults>>

\* Session::create announces the peer; nothing is lost that early, so it succeeds.
Announced(p, links) == Broadcast(links, p, Hello(p)).net

\* The link after each peer, in order, has announced itself.
Greeted ==
  LET after[i \in 0 .. PeerCount] == IF i = 0 THEN NewNet ELSE Announced(i - 1, after[i - 1])
  IN  after

Init == /\ \E ticks \in Lengths : node = [p \in Peer |-> NewNode(p, ticks[p])]
        /\ net = Greeted[PeerCount]
        /\ faults = <<>>

Cut(p) == [node |-> node[p], net |-> net]

Becomes(p, cut) ==
  /\ \E c \in {cut} : node' = [node EXCEPT ![p] = c.node] /\ net' = c.net
  /\ UNCHANGED faults

\* The driver returns on the first call that fails, and when it has finished.
Alive(p) == p \notin net.lost /\ Succeeded(node[p])

\* A turn is announced with the commands the peer applies itself.
SubmitOwn(drafted, cell) ==
  LET n == drafted.node
      command == Command(n.lastSent + 1, n.id, n.queue.next[n.id], cell)
  IN  IF ~Succeeded(n) THEN drafted
      ELSE IF SubmitStatus(n.queue, cell, InvalidCell) # "Ok"
      THEN [drafted EXCEPT !.node = Fail(@, "Exhausted")]
      ELSE [drafted EXCEPT !.node.queue = SubmitStamped(@, command),
                           !.commands = Append(@, command)]

\* declared_finish: this peer's own, or any partner's - all declared ones agree.
Contradicted(n) == \E last \in Finishes(n) : last # n.length - 1

\* The main loop goes on until the last tick has run or a call has failed.
Playing(n) == Succeeded(n) /\ n.state = "Running" /\ Now(n) < n.length

OwesTurn(n) == Playing(n) /\ n.lastSent + 1 <= Now(n) + Delay[n.id]

\* The draft of a turn after each of its commands, from none to all of them.
Drafted(n, cells) ==
  LET after[i \in 0 .. Len(cells)] ==
        IF i = 0 THEN [node |-> n, commands |-> <<>>] ELSE SubmitOwn(after[i - 1], cells[i])
  IN  after

\* The first ticks of a run, before its input delay, carry no commands.
Cells(p, tick) == IF tick >= Delay[p] THEN Workload(p, tick) ELSE <<>>

AnnounceTurn(cut) ==
  LET n == cut.node
      tick == n.lastSent + 1
      cells == Cells(n.id, tick)
      draft == Drafted(n, cells)[Len(cells)]
      drafted == [cut EXCEPT !.node = draft.node]
  IN  After(drafted, SendTurn(drafted, tick, draft.commands))

MayStep(n) == Playing(n) /\ ~Contradicted(n) /\ Ready(n.gate, Now(n))

StepTick(cut) ==
  LET n == cut.node
      ran == [n EXCEPT !.kernel = RunTick(@, n.queue, InvalidCell),
                       !.queue = AfterDrain(@, Now(n)),
                       !.gate = RetireBefore(@, Now(n))]
  IN  SendHashCheck([cut EXCEPT !.node = ran], Now(n), ran.kernel.world)

Announce(p) == p \notin net.lost /\ OwesTurn(node[p]) /\ Becomes(p, AnnounceTurn(Cut(p)))

Step(p) == p \notin net.lost /\ MayStep(node[p]) /\ Becomes(p, StepTick(Cut(p)))

Poll(p) ==
  /\ Alive(p)
  /\ \E due \in DueChoices(net, p) : Becomes(p, PollSession(Cut(p), due))

\* A partner's finish is not where this peer was told to stop: the driver gives up.
MustGiveUp(n) == Playing(n) /\ Contradicted(n)

GiveUp(p) ==
  /\ p \notin net.lost
  /\ MustGiveUp(node[p])
  /\ Becomes(p, [Cut(p) EXCEPT !.node = Fail(@, "InvalidArgument")])

HasRunAll(n) == Succeeded(n) /\ n.state = "Running" /\ Now(n) = n.length

DeclareFinish(p) ==
  /\ p \notin net.lost
  /\ HasRunAll(node[p])
  /\ Becomes(p, FinishSession(Cut(p), node[p].length - 1))

\* The process ends and the link sees it go; the hub's destructor first hands
\* over what was sent to whoever still polls.
CanExit(p) ==
  /\ p \notin net.lost
  /\ ~Succeeded(node[p]) \/ node[p].state = "Finished"
  /\ \A q \in Others(p) : Alive(q) => net.pipe[<<p, q>>] = <<>>

Exit(p) ==
  /\ CanExit(p)
  /\ net' = Lose(net, p)
  /\ UNCHANGED <<node, faults>>

------------------------------------------------------------------------------
Fault(kind, p) ==
  kind \in Faults /\ p \in Frail /\ Len(faults) < MaxFaults /\ faults' = Append(faults, p)

\* The process dies, at any point, with what was in flight to it and from it.
Crash(p) ==
  /\ Fault("Crash", p)
  /\ p \notin net.lost
  /\ net' = Lose(net, p)
  /\ UNCHANGED node

\* The user leaves: Session::quit, and the driver stops.
Quit(p) ==
  /\ Fault("Quit", p)
  /\ Alive(p)
  /\ Live(node[p])
  /\ LET cut == End(Cut(p))
     IN  /\ node' = [node EXCEPT ![p] = Fail(cut.node, "Quit")]
         /\ net' = cut.net

\* The last byte of one turn in flight is flipped: its last command claims another cell.
Flipped(cell) == IF cell % 2 = 0 THEN cell + 1 ELSE cell - 1

CorruptCommand(from, to, i) ==
  LET message == net.pipe[<<from, to>>][i].message
  IN  /\ Fault("Corrupt", from)
      /\ message.type = "Turn"
      /\ message.commands # <<>>
      /\ net' = Corrupt(net, from, to, i,
                        [message EXCEPT !.commands[Len(message.commands)].cell = Flipped(@)])
      /\ UNCHANGED node

Drive(p) == Announce(p) \/ Poll(p) \/ Step(p) \/ DeclareFinish(p) \/ GiveUp(p) \/ Exit(p)

Disturb ==
  \/ \E p \in Peer : Crash(p) \/ Quit(p)
  \/ \E from, to \in Peer : \E i \in DOMAIN net.pipe[<<from, to>>] : CorruptCommand(from, to, i)

Next == (\E p \in Peer : Drive(p)) \/ Disturb

Spec == Init /\ [][Next]_vars

\* The same peers at the grain of the loop: a poll and every turn it lets the
\* peer announce, or a poll and every tick it lets it run, in one step.
AnnounceNext(cut) == IF OwesTurn(cut.node) THEN AnnounceTurn(cut) ELSE cut
RunNext(cut) == IF MayStep(cut.node) THEN StepTick(cut) ELSE cut

ListenThenAnnounce(p, due) ==
  LET after[i \in 0 .. Delay[p] + 1] ==
        IF i = 0 THEN PollSession(Cut(p), due) ELSE AnnounceNext(after[i - 1])
  IN  after[Delay[p] + 1]

ListenThenRun(p, due) ==
  LET after[i \in 0 .. node[p].length] ==
        IF i = 0 THEN PollSession(Cut(p), due) ELSE RunNext(after[i - 1])
  IN  after[node[p].length]

DriveLoop(p) ==
  \/ /\ Alive(p)
     /\ \E due \in DueChoices(net, p) : Becomes(p, ListenThenAnnounce(p, due)) \/ Becomes(p, ListenThenRun(p, due))
  \/ DeclareFinish(p) \/ GiveUp(p) \/ Exit(p)

LoopNext == (\E p \in Peer : DriveLoop(p)) \/ Disturb

LoopSpec == Init /\ [][LoopNext]_vars

\* Weak fairness of a step that is enabled exactly when it changes something;
\* the condition is spelt out instead of left to ENABLED.
Ends(p) ==
  /\ []<>~(p \notin net.lost /\ MustGiveUp(node[p])) \/ []<><<GiveUp(p)>>_vars
  /\ []<>~(p \notin net.lost /\ HasRunAll(node[p])) \/ []<><<DeclareFinish(p)>>_vars
  /\ []<>~CanExit(p) \/ []<><<Exit(p)>>_vars

Changes(p, cut) == Alive(p) /\ cut # Cut(p)
Takes(p, cut) == Changes(p, cut) /\ Becomes(p, cut)

\* The driver's loop is a loop: a peer that can announce, run a tick, finish or
\* leave does so, and it polls again once everything sent to it is due.
Fairness ==
  \A p \in Peer :
    /\ Ends(p)
    /\ LET heard == PollSession(Cut(p), Waiting(net, p))
       IN  []<>~Changes(p, heard) \/ []<><<Takes(p, heard)>>_vars
    /\ []<>~(p \notin net.lost /\ OwesTurn(node[p])) \/ []<><<Announce(p)>>_vars
    /\ []<>~(p \notin net.lost /\ MayStep(node[p])) \/ []<><<Step(p)>>_vars

FairSpec == Spec /\ Fairness

\* The same at the grain of the loop.
LoopFairness ==
  \A p \in Peer :
    /\ Ends(p)
    /\ LET listened == ListenThenAnnounce(p, Waiting(net, p))
       IN  []<>~Changes(p, listened) \/ []<><<Takes(p, listened)>>_vars
    /\ LET ran == ListenThenRun(p, Waiting(net, p))
       IN  []<>~Changes(p, ran) \/ []<><<Takes(p, ran)>>_vars

LoopFairSpec == LoopSpec /\ LoopFairness

------------------------------------------------------------------------------
TypeOK ==
  /\ \A p \in Peer :
       /\ node[p].state \in {"Handshaking", "Running", "Finishing", "Finished", "Ended"}
       /\ ExpectedSources(node[p].gate) = node[p].peers
       /\ node[p].peers \cap node[p].dropped = {}
       /\ Now(node[p]) \in 0 .. node[p].length
       /\ Len(node[p].pending) \in 0 .. MaxPendingChecks
       /\ Len(node[p].checkpoints) \in 0 .. CheckpointsKept
  /\ \A at, origin \in Peer : Len(Inbox(net, at, origin)) \in 0 .. MaxMessages

\* The world as it was when the ticks below t had run.
WorldBefore(p, t) ==
  LET world == node[p].kernel.world
  IN  SubSeq(world, 1, Cardinality({i \in DOMAIN world : world[i].target < t}))

SameTo(p, q, t) == WorldBefore(p, t) = WorldBefore(q, t)

\* Ticks both have run.
Shared(p, q) == IF Now(node[p]) < Now(node[q]) THEN Now(node[p]) ELSE Now(node[q])

\* Two peers have the same world after every tick both have run, whatever the
\* link delayed and whoever ran ahead.
Agreement == \A p, q \in Peer : SameTo(p, q, Shared(p, q))

\* Nobody runs further ahead of a peer than that peer's own input delay and the
\* tick it is waiting in: a turn is announced before the tick it is for runs anywhere.
BoundedLead ==
  \A p, q \in Peer : q \in node[p].peers => Now(node[p]) <= Now(node[q]) + Delay[q] + 1

\* Where nothing failed, no session fails: no turn is late, no check is out of
\* step, no queue is full, and a partner that finished and left is no lost peer.
NoFalseAlarm == faults = <<>> => \A p \in Peer : Succeeded(node[p])

\* Every peer finishes a run in which nothing failed.
Completes == <>(\A p \in Peer : node[p].state = "Finished")

\* The peers p still plays with: those the session never dropped.
Partners(p) == Others(p) \ node[p].dropped

\* A run reported as finished is one whose last comparable state really was
\* compared and equal between this peer and every partner it still has, even
\* when the link altered a command on the way.
FinishedIsAgreed ==
  \A p \in Peer : node[p].state = "Finished" =>
    \A q \in Partners(p) : SameTo(p, q, LastCheck(node[p].finish) + 1)

\* A peer reports a finish only for the run it was told to make, when every
\* partner was told to make the same one.
FinishedIsOneRun ==
  \A p \in Peer : node[p].state = "Finished" =>
    \A q \in Partners(p) : node[q].length = node[p].length

\* A divergence stops the session that finds it, whichever call it is found in
\* (session.hpp:28, "A divergence stops the session and is never recovered from").
DivergenceStops == \A p \in Peer : node[p].diverged => node[p].state = "Ended"

\* Whatever becomes of a run, its peers do not wait for each other for ever:
\* every process that did not die ends, finished or with an error.
Terminates == <>(\A p \in Peer : p \in net.lost)

\* Peers still playing: not dead, not stopped by an error, and with every
\* partner that is also in that state.
Survivor(p) == p \notin net.lost /\ Succeeded(node[p])

\* Peers that went on without a lost one hold exactly the same turns of it, so
\* they run the same commands and stay in the same world, wherever each was
\* when the peer was lost.
SurvivorsAgree ==
  \A p, q \in Peer : Survivor(p) /\ Survivor(q) =>
    /\ SameTo(p, q, Shared(p, q))
    /\ \A r \in node[p].dropped \cap node[q].dropped : node[p].turnsFrom[r] = node[q].turnsFrom[r]

\* While the relay plays on, the loss of another peer stops nobody who had begun
\* to play: a death, a farewell, the relay's drop and the finish of the run may
\* reach the others in any order, and none of them takes it for an error.
RelayKeepsSession ==
  (0 \notin net.lost /\ Succeeded(node[0])) =>
    \A p \in Peer : p \notin net.lost /\ node[p].peers # {} => node[p].error \in {"None", "Quit"}

\* After a loss the others finish the run, unless it was the relay that was lost
\* or the loss was before the session was agreed.
SurvivorsFinish ==
  <>(\/ \E i \in DOMAIN faults : faults[i] = 0
     \/ \E p \in Peer : node[p].peers = {} /\ ~Succeeded(node[p])
     \/ \A p \in Peer : (\E i \in DOMAIN faults : faults[i] = p) \/ node[p].state = "Finished")
==============================================================================
