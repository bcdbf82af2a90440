----------------------------- MODULE SessionOps -----------------------------
(***************************************************************************)
(* One lockstep peer of engine/net as a value: the Session, together with  *)
(* the command queue, the turn gate and the kernel its calls are handed.   *)
(* A handler maps a node to a node; a call that also sends maps a cut, the *)
(* node and the net, to a cut.  A call that fails leaves its error code in *)
(* the node, with whatever it had changed before failing.                  *)
(***************************************************************************)
EXTENDS GateOps, KernelOps

CONSTANTS Topology,          \* "Mesh" or "Star"
          MaxMessages,       \* kMaxMessages of an inbox
          Latency,           \* whether the link may be slow
          PollCap,           \* kMaxMessagesPerPeerPerPoll
          CheckpointsKept,   \* kCheckpointsKept
          MaxPendingChecks,  \* kMaxPendingChecks, over all peers together
          Interval,          \* hash_check_interval
          Policy,            \* on_peer_lost: "End" or "Drop"
          Delay,             \* input_delay of each peer's configuration
          Terms,             \* what check_compatible compares, for each peer
          InvalidCell        \* payloads every validator rejects

INSTANCE LinkOps

\* Session::create refuses any other configuration.
ASSUME ConfigAssumption ==
  /\ IsFiniteSet(Peer) /\ Peer = 0 .. (Cardinality(Peer) - 1)
  /\ Interval \in Nat \ {0}
  /\ Delay \in [Peer -> Nat \ {0}]
  /\ Policy = "Drop" => Topology = "Star"

\* kCheckpointsKept is a positive constant.
ASSUME KeptAssumption == CheckpointsKept \in Nat \ {0}

NoTick == -1
Later(a, b) == IF a > b THEN a ELSE b
Latest(ticks) == CHOOSE tick \in ticks : \A other \in ticks : other <= tick
Earliest(places) == CHOOSE i \in places : \A j \in places : i <= j
Finishes(n) == ({n.finish} \cup {n.peerFinish[q] : q \in Peer}) \ {NoTick}

\* length: the ticks the driver was told to run.
NewNode(p, length) ==
  [id |-> p, length |-> length, state |-> "Handshaking", error |-> "None", diverged |-> FALSE,
   heard |-> [q \in Peer |-> NoTick], agreed |-> Delay[p], peers |-> {},
   lastSent |-> NoTick, turnsFrom |-> [q \in Peer |-> 0],
   finish |-> NoTick, peerFinish |-> [q \in Peer |-> NoTick],
   checkpoints |-> <<>>, pending |-> <<>>, compared |-> [q \in Peer |-> NoTick],
   dropped |-> {}, left |-> {}, drops |-> <<>>,
   gate |-> NewGate, queue |-> NewQueue, kernel |-> NewKernel]

Now(n) == n.kernel.tick
Live(n) == n.state \in {"Running", "Finishing"}
Fail(n, code) == [n EXCEPT !.error = code]
Succeeded(n) == n.error = "None"
Refuse(condition, n, code, otherwise) == IF condition THEN Fail(n, code) ELSE otherwise

Hello(p) == [type |-> "Hello", terms |-> Terms[p], delay |-> Delay[p]]
Turn(p, tick, commands) == [type |-> "Turn", source |-> p, tick |-> tick, commands |-> commands]
HashCheck(p, tick, hash) == [type |-> "HashCheck", source |-> p, tick |-> tick, hash |-> hash]
FinishAt(tick) == [type |-> "Finish", tick |-> tick]
Drop(p, turns) == [type |-> "Drop", source |-> p, turns |-> turns]
Bye == [type |-> "Bye"]

------------------------------------------------------------------------------
\* The last announcement heard agrees the delay and opens the session.
AcceptHello(n, from, hello) ==
  LET heard == [n.heard EXCEPT ![from] = hello.delay, ![n.id] = Delay[n.id]]
      all == \A q \in Peer : heard[q] # NoTick
  IN  Refuse(hello.terms # Terms[n.id], n, "VersionMismatch",
        IF ~all THEN [n EXCEPT !.heard = heard]
        ELSE [n EXCEPT !.heard = heard,
                       !.agreed = Latest({heard[q] : q \in Peer}),
                       !.peers = Peer,
                       !.gate = ExpectSources(@, Peer),
                       !.state = "Running"])

\* A refused command is skipped and counted; it does not refuse its turn.
SubmitRemote(queue, command) ==
  IF SubmitStatus(queue, command.cell, InvalidCell) = "Ok"
  THEN SubmitStamped(queue, command) ELSE queue

\* The queue after each command of a turn, from none to all of them.
Submitted(queue, commands) ==
  LET after[i \in 0 .. Len(commands)] ==
        IF i = 0 THEN queue ELSE SubmitRemote(after[i - 1], commands[i])
  IN  after

AcceptTurn(n, from, turn) ==
  LET speaksForItself == /\ turn.source = from
                         /\ \A i \in DOMAIN turn.commands : turn.commands[i].source = from
      filed == [n EXCEPT !.queue = Submitted(@, turn.commands)[Len(turn.commands)],
                         !.turnsFrom[from] = @ + 1]
  IN  Refuse(~speaksForItself \/ turn.tick < Now(n), n, "InvalidArgument",
        Refuse(MarkStatus(n.gate, from, turn.tick) # "Ok", filed, "OutOfRange",
          [filed EXCEPT !.gate = MarkComplete(@, from, turn.tick)]))

------------------------------------------------------------------------------
CompareCheck(n, from, check, mine) ==
  IF mine.hash = check.hash
  THEN [n EXCEPT !.compared[from] = Later(@, check.tick)]
  ELSE Fail([n EXCEPT !.diverged = TRUE], "IntegrityCheckFailed")

\* The places where this peer keeps its own check of a tick.
Mine(n, tick) == {i \in DOMAIN n.checkpoints : n.checkpoints[i].tick = tick}

\* Mutant: a check this peer has not reached yet is refused instead of held.
CompareOrRefuse(n, from, check) ==
  LET mine == Mine(n, check.tick)
  IN  Refuse(check.tick % Interval # 0 \/ mine = {}, n, "InvalidArgument",
             CompareCheck(n, from, check, n.checkpoints[Earliest(mine)]))

\* Compare a remote check with this peer's own, or hold it until there is one.
CompareOrHold(n, from, check) ==
  LET mine == Mine(n, check.tick)
      ahead == n.checkpoints = <<>> \/ check.tick > n.checkpoints[Len(n.checkpoints)].tick
  IN  Refuse(check.tick % Interval # 0, n, "InvalidArgument",
        IF mine # {} THEN CompareCheck(n, from, check, n.checkpoints[Earliest(mine)])
        ELSE Refuse(~ahead, n, "InvalidArgument",
               Refuse(Len(n.pending) >= MaxPendingChecks, n, "Exhausted",
                 [n EXCEPT !.pending = Append(@, check)])))

AcceptCheck(n, from, check) ==
  Refuse(check.source # from, n, "InvalidArgument", CompareOrHold(n, from, check))

\* The finish is recorded before it is found to be already past.
AcceptFinish(n, from, tick) ==
  LET recorded == [n EXCEPT !.peerFinish[from] = tick]
  IN  Refuse(n.state = "Handshaking" \/ \E other \in Finishes(n) : other # tick,
             n, "InvalidArgument",
        Refuse(Now(n) > tick + 1, recorded, "InvalidArgument", recorded))

AcceptBye(n, from) ==
  IF Policy = "Drop" /\ from # 0 /\ n.state # "Handshaking"
  THEN [n EXCEPT !.left = @ \cup {from}]
  ELSE Fail(n, "Unavailable")

AcceptDrop(n, from, drop) ==
  LET twice == \/ drop.source \in n.dropped
               \/ \E i \in DOMAIN n.drops : n.drops[i].source = drop.source
  IN  Refuse(Policy # "Drop" \/ from # 0, n, "InvalidArgument",
        Refuse(drop.source = n.id, n, "Unavailable",
          Refuse(drop.source \notin Peer \ {0} \/ twice, n, "InvalidArgument",
            [n EXCEPT !.drops = Append(@, drop)])))

Handle(n, from, message) ==
  CASE message.type = "Hello" -> AcceptHello(n, from, message)
    [] message.type = "Turn" -> AcceptTurn(n, from, message)
    [] message.type = "HashCheck" -> AcceptCheck(n, from, message)
    [] message.type = "Finish" -> AcceptFinish(n, from, message.tick)
    [] message.type = "Bye" -> AcceptBye(n, from)
    [] message.type = "Drop" -> AcceptDrop(n, from, message)

------------------------------------------------------------------------------
\* A stage runs only while nothing before it has failed.
After(cut, next) == IF Succeeded(cut.node) THEN next ELSE cut

Send(cut, message) ==
  LET sent == Broadcast(cut.net, cut.node.id, message)
  IN  [node |-> IF sent.ok THEN cut.node ELSE Fail(cut.node, "Unavailable"), net |-> sent.net]

\* The farewell is best effort; a session that finished or ended says nothing more.
End(cut) ==
  IF cut.node.state \in {"Ended", "Finished"} THEN cut
  ELSE [node |-> [cut.node EXCEPT !.state = "Ended"],
        net |-> Broadcast(cut.net, cut.node.id, Bye).net]

EndIfFailed(cut) == IF Succeeded(cut.node) THEN cut ELSE End(cut)

\* Messages read from one peer in one poll: at most PollCap, and only
\* announcements until everyone has announced.
ReadMessage(read, from, message) ==
  IF \/ read.stopped \/ ~Succeeded(read.node) \/ read.handled >= PollCap
     \/ read.node.state = "Handshaking" /\ message.type # "Hello"
  THEN [read EXCEPT !.stopped = TRUE]
  ELSE [read EXCEPT !.node = Handle(read.node, from, message), !.handled = @ + 1]

ReadInOrder(n, from, waiting) ==
  LET after[i \in 0 .. Len(waiting)] ==
        IF i = 0 THEN [node |-> n, handled |-> 0, stopped |-> FALSE]
        ELSE ReadMessage(after[i - 1], from, waiting[i])
  IN  after

\* What was not read is put back, in order.
ReadInbox(cut, from) ==
  LET n == cut.node
      waiting == Inbox(cut.net, n.id, from)
      read == ReadInOrder(n, from, waiting)[Len(waiting)]
      rest == IF Succeeded(read.node) THEN SubSeq(waiting, read.handled + 1, Len(waiting)) ELSE <<>>
  IN  CASE from = n.id -> cut
        [] from # n.id /\ from \in n.dropped ->
             [cut EXCEPT !.net = PutBack(@, n.id, from, <<>>)]
        [] from # n.id /\ from \notin n.dropped /\ <<n.id, from>> \in cut.net.overflowed ->
             End([cut EXCEPT !.node = Fail(@, "Exhausted")])
        [] OTHER ->
             EndIfFailed([node |-> read.node, net |-> PutBack(cut.net, n.id, from, rest)])

\* Uncapped: before a drop is decided or compared.
HandleNext(n, from, message) == IF Succeeded(n) THEN Handle(n, from, message) ELSE n

Handled(n, from, waiting) ==
  LET after[i \in 0 .. Len(waiting)] ==
        IF i = 0 THEN n ELSE HandleNext(after[i - 1], from, waiting[i])
  IN  after

ReadEverythingFrom(cut, from) ==
  LET n == cut.node
      waiting == Inbox(cut.net, n.id, from)
  IN  IF <<n.id, from>> \in cut.net.overflowed THEN [cut EXCEPT !.node = Fail(@, "Exhausted")]
      ELSE [node |-> Handled(n, from, waiting)[Len(waiting)],
            net |-> PutBack(cut.net, n.id, from, <<>>)]

------------------------------------------------------------------------------
\* The checks that a peer did not send, in order.
NotFrom(checks, peer) ==
  LET after[i \in 0 .. Len(checks)] ==
        IF i = 0 THEN <<>>
        ELSE IF checks[i].source = peer THEN after[i - 1]
        ELSE Append(after[i - 1], checks[i])
  IN  after

\* Mutant: the gate still waits for the dropped peer.
ApplyDropKeepingGate(n, peer) ==
  [n EXCEPT !.dropped = @ \cup {peer}, !.peers = @ \ {peer},
            !.peerFinish[peer] = NoTick, !.compared[peer] = NoTick,
            !.pending = NotFrom(@, peer)[Len(@)]]

\* The gate keeps every remaining peer's progress and forgets this one.
ApplyDrop(n, peer) ==
  [n EXCEPT !.dropped = @ \cup {peer},
            !.peers = @ \ {peer},
            !.gate = ExpectSources(@, n.peers \ {peer}),
            !.peerFinish[peer] = NoTick,
            !.compared[peer] = NoTick,
            !.pending = NotFrom(@, peer)[Len(@)]]

\* Mutant: the turns are counted before the rest of them is read.
CompleteDropUnread(cut, drop) ==
  [cut EXCEPT !.node = Refuse(@.turnsFrom[drop.source] # drop.turns, @, "InvalidArgument",
                              ApplyDrop(@, drop.source))]

\* Mutant: the drop is applied wherever this peer happens to be.
CompleteDropAtOnce(cut, drop) == [cut EXCEPT !.node = ApplyDrop(@, drop.source)]

CompleteDrop(cut, drop) ==
  LET read == ReadEverythingFrom(cut, drop.source)
      n == read.node
  IN  After(read,
        [read EXCEPT !.node = Refuse(n.turnsFrom[drop.source] # drop.turns, n, "InvalidArgument",
                                     ApplyDrop(n, drop.source))])

CompleteNext(cut, drop) == After(cut, CompleteDrop(cut, drop))

DropsCompleted(cut, drops) ==
  LET after[i \in 0 .. Len(drops)] == IF i = 0 THEN cut ELSE CompleteNext(after[i - 1], drops[i])
  IN  after

CompleteDrops(cut) ==
  LET drops == cut.node.drops
  IN  DropsCompleted([cut EXCEPT !.node.drops = <<>>], drops)[Len(drops)]

\* The relay decides: it reads all it holds of the lost peer, and says how much that was.
RelayDrops(cut, peer) ==
  LET read == ReadEverythingFrom(cut, peer)
      told == Send(read, Drop(peer, read.node.turnsFrom[peer]))
  IN  After(read, After(told, [told EXCEPT !.node = ApplyDrop(@, peer)]))

\* Mutant: a peer that has declared its finish no longer minds who is lost.
HandleLostPeerWhileRunning(cut, peer) ==
  IF cut.node.state # "Finishing" /\ peer \in Others(cut.node.id) \cap cut.net.lost
  THEN [cut EXCEPT !.node = Fail(@, "Unavailable")]
  ELSE cut

HandleLostPeer(cut, peer) ==
  LET n == cut.node
      gone == peer \in Others(n.id) \ n.dropped /\ peer \in cut.net.lost \cup n.left
      fatal == Policy # "Drop" \/ ~Live(n) \/ (n.id # 0 /\ peer = 0)
  IN  CASE ~gone -> cut
        [] gone /\ fatal -> [cut EXCEPT !.node = Fail(@, "Unavailable")]
        [] gone /\ ~fatal -> IF n.id = 0 THEN RelayDrops(cut, peer) ELSE cut

HandleLostNext(cut, peer) == After(cut, HandleLostPeer(cut, peer))

LossesHandled(cut) ==
  LET after[i \in 0 .. PeerCount] == IF i = 0 THEN cut ELSE HandleLostNext(after[i - 1], i - 1)
  IN  after

HandleLostPeers(cut) == LossesHandled(cut)[PeerCount]

------------------------------------------------------------------------------
\* Mutant: the tick of the finish itself, whether or not it is ever hashed.
LastCheckUnaligned(last) == last

LastCheck(last) == last - (last % Interval)

\* Mutant: the states were compared, but a partner may not have declared its finish.
FinishUndeclared(n) ==
  /\ n.state = "Finishing"
  /\ Now(n) > n.finish
  /\ \A q \in Others(n.id) \ n.dropped : n.compared[q] >= LastCheck(n.finish)

FinishIsComplete(n) ==
  /\ n.state = "Finishing"
  /\ Now(n) > n.finish
  /\ \A q \in Others(n.id) \ n.dropped :
       n.peerFinish[q] # NoTick /\ n.compared[q] >= LastCheck(n.finish)

Overrun(n) == \E q \in Peer : n.peerFinish[q] # NoTick /\ Now(n) > n.peerFinish[q] + 1

FinishOrHandleLosses(cut) ==
  IF FinishIsComplete(cut.node)
  THEN [cut EXCEPT !.node.state = "Finished"]
  ELSE EndIfFailed(HandleLostPeers(cut))

ReadNext(cut, from) == After(cut, ReadInbox(cut, from))

\* After the inbox of each peer, in order, has been read.
InboxesRead(cut) ==
  LET after[i \in 0 .. PeerCount] == IF i = 0 THEN cut ELSE ReadNext(after[i - 1], i - 1)
  IN  after

PollRunning(cut) ==
  LET read == InboxesRead(cut)[PeerCount]
      settled == After(read, EndIfFailed(CompleteDrops(read)))
  IN  IF Overrun(cut.node) THEN End([cut EXCEPT !.node = Fail(@, "InvalidArgument")])
      ELSE After(settled, FinishOrHandleLosses(settled))

\* Session::poll, with the messages of each pipe that are due.
PollSession(cut, due) ==
  LET pumped == [cut EXCEPT !.net = Pump(@, cut.node.id, due)]
  IN  CASE cut.node.state = "Ended" -> [cut EXCEPT !.node = Fail(@, "Unavailable")]
        [] cut.node.state = "Finished" -> [pumped EXCEPT !.net = Emptied(@, cut.node.id)]
        [] OTHER -> PollRunning(pumped)

------------------------------------------------------------------------------
PastFinish(n, tick) == n.state = "Finishing" /\ tick > n.finish

\* The turn is marked here as soon as it is sent.
SendTurn(cut, tick, commands) ==
  LET sent == Send(cut, Turn(cut.node.id, tick, commands))
      marked == [sent EXCEPT !.node.lastSent = Later(@, tick),
                             !.node.gate = MarkComplete(@, cut.node.id, tick)]
  IN  IF PastFinish(cut.node, tick) THEN [cut EXCEPT !.node = Fail(@, "InvalidArgument")]
      ELSE IF ~Live(cut.node) THEN [cut EXCEPT !.node = Fail(@, "Unavailable")]
      ELSE After(sent, marked)

\* Mutant: a held check is counted as compared, whatever it says.
AnswerPendingUncompared(n, mine) ==
  [n EXCEPT !.pending = SelectSeq(@, LAMBDA check : check.tick # mine.tick),
            !.compared = [q \in Peer |->
               IF \E i \in DOMAIN n.pending : n.pending[i].source = q /\ n.pending[i].tick = mine.tick
               THEN Later(@[q], mine.tick) ELSE @[q]]]

\* The checks held for a tick are answered in order; one that fails is the last.
Answer(done, check, mine) ==
  IF check.tick # mine.tick \/ ~Succeeded(done)
  THEN [done EXCEPT !.pending = Append(@, check)]
  ELSE CompareCheck(done, check.source, check, mine)

Answered(n, mine) ==
  LET after[i \in 0 .. Len(n.pending)] ==
        IF i = 0 THEN [n EXCEPT !.pending = <<>>] ELSE Answer(after[i - 1], n.pending[i], mine)
  IN  after

AnswerPending(n, mine) == Answered(n, mine)[Len(n.pending)]

\* A divergence found among the held checks is returned: no farewell, no end.
SendHashCheck(cut, tick, hash) ==
  LET n == cut.node
      mine == [tick |-> tick, hash |-> hash]
      kept == [n EXCEPT !.checkpoints =
                 LET all == Append(@, mine)
                 IN  SubSeq(all, Later(1, Len(all) - CheckpointsKept + 1), Len(all))]
      answered == [cut EXCEPT !.node = AnswerPending(kept, mine)]
  IN  IF PastFinish(n, tick) THEN [cut EXCEPT !.node = Fail(@, "InvalidArgument")]
      ELSE IF ~Live(n) THEN [cut EXCEPT !.node = Fail(@, "Unavailable")]
      ELSE IF tick % Interval # 0 THEN cut
      ELSE After(answered, Send(answered, HashCheck(n.id, tick, hash)))

FinishSession(cut, last) ==
  LET n == cut.node
      sent == Send(cut, FinishAt(last))
      conflict == \E q \in Peer : n.peerFinish[q] \notin {NoTick, last}
  IN  IF n.state # "Running" THEN [cut EXCEPT !.node = Fail(@, "Unavailable")]
      ELSE IF n.lastSent < last THEN [cut EXCEPT !.node = Fail(@, "InvalidArgument")]
      ELSE IF conflict THEN End([cut EXCEPT !.node = Fail(@, "InvalidArgument")])
      ELSE After(sent, [sent EXCEPT !.node.finish = last, !.node.state = "Finishing"])
==============================================================================
