------------------------------ MODULE LinkOps ------------------------------
(***************************************************************************)
(* The link of engine/net as a value: one ordered pipe for each ordered    *)
(* pair of ends, one inbox at each end for each origin, and the ends that  *)
(* were lost.  It follows LoopbackHub, whose star behaves as the socket    *)
(* hub does: peer zero files and forwards a broadcast in one step.         *)
(* Latency is which prefix of a pipe a pump finds due.                     *)
(***************************************************************************)
EXTENDS Integers, Sequences, FiniteSets

CONSTANTS Peer,         \* the ends of the link, 0 .. n - 1
          Topology,     \* "Mesh" or "Star"
          MaxMessages,  \* kMaxMessages: most messages an inbox holds
          Latency       \* latency_polls > 0: a message may miss the next polls

\* Ends are numbered from zero, the relay of a star.
PeerCount == Cardinality(Peer)

Others(p) == Peer \ {p}

\* pipe[<<from, to>>] and inbox[<<at, origin>>]; overflowed holds the inboxes
\* that refused a message, which is never forgotten.
NewNet == [pipe |-> [ends \in Peer \X Peer |-> <<>>],
           inbox |-> [ends \in Peer \X Peer |-> <<>>],
           overflowed |-> {},
           lost |-> {}]

\* everyone: to be forwarded by peer zero to every end but the origin.
Packet(origin, everyone, message) ==
  [origin |-> origin, everyone |-> everyone, message |-> message]

Transmit(net, from, to, packet) == [net EXCEPT !.pipe[<<from, to>>] = Append(@, packet)]

TransmitAll(net, from, targets, packet) ==
  [net EXCEPT !.pipe = [ends \in Peer \X Peer |->
     IF ends[1] = from /\ ends[2] \in targets THEN Append(@[ends], packet) ELSE @[ends]]]

------------------------------------------------------------------------------
\* Link::broadcast: one send after another, stopping at the first that fails.
\* Sending to a lost end fails; what a lost end sends goes nowhere.
MeshBroadcast(net, from, message) ==
  LET reached == {to \in Others(from) : \A q \in Others(from) : q <= to => q \notin net.lost}
  IN  [ok |-> reached = Others(from),
       net |-> IF from \in net.lost THEN net
               ELSE TransmitAll(net, from, reached, Packet(from, FALSE, message))]

\* LoopbackHub::broadcast on a star: to the relay once, marked for everyone, or
\* from the relay to every end that is left.
StarBroadcast(net, from, message) ==
  [ok |-> TRUE,
   net |-> CASE from \in net.lost -> net
             [] from \notin net.lost /\ from # 0 ->
                  Transmit(net, from, 0, Packet(from, TRUE, message))
             [] OTHER ->
                  TransmitAll(net, 0, Others(0) \ net.lost, Packet(0, FALSE, message))]

Broadcast(net, from, message) ==
  IF Topology = "Mesh" THEN MeshBroadcast(net, from, message)
                       ELSE StarBroadcast(net, from, message)

------------------------------------------------------------------------------
Inbox(net, at, origin) == net.inbox[<<at, origin>>]

\* CommandInbox::push: sticky, so that a stream with a hole in it never looks
\* like one without.
Push(net, at, origin, message) ==
  IF <<at, origin>> \in net.overflowed \/ Len(Inbox(net, at, origin)) >= MaxMessages
  THEN [net EXCEPT !.overflowed = @ \cup {<<at, origin>>}]
  ELSE [net EXCEPT !.inbox[<<at, origin>>] = Append(@, message)]

\* CommandInbox::drain, and what is put back in order.
PutBack(net, at, origin, rest) == [net EXCEPT !.inbox[<<at, origin>>] = rest]

Emptied(net, at) ==
  [net EXCEPT !.inbox = [ends \in Peer \X Peer |-> IF ends[1] = at THEN <<>> ELSE @[ends]]]

\* Filed and forwarded in the same step.
File(net, at, packet) ==
  LET forwarded ==
        IF packet.everyone /\ at = 0
        THEN TransmitAll(net, 0, Others(0) \ ({packet.origin} \cup net.lost),
                         Packet(packet.origin, FALSE, packet.message))
        ELSE net
  IN  Push(forwarded, at, packet.origin, packet.message)

\* The first packet of a pipe, where there is one, is taken out of it and filed.
Deliver(net, from, to) ==
  LET pipe == net.pipe[<<from, to>>]
      taken == [net EXCEPT !.pipe[<<from, to>>] = Tail(pipe)]
  IN  IF pipe = <<>> THEN net ELSE File(taken, to, Head(pipe))

\* The link after each of the packets that are due, from none to all of them.
Delivered(net, from, to, due) ==
  LET after[i \in 0 .. due] == IF i = 0 THEN net ELSE Deliver(after[i - 1], from, to)
  IN  after

PumpPipe(net, from, to, due) ==
  IF from = to THEN net ELSE Delivered(net, from, to, due[from])[due[from]]

\* How many messages of each pipe into p are due: without latency all of them.
Waiting(net, p) == [from \in Others(p) |-> Len(net.pipe[<<from, p>>])]

DueChoices(net, p) ==
  LET waiting == Waiting(net, p)
      deepest == CHOOSE from \in Others(p) : \A other \in Others(p) : waiting[other] <= waiting[from]
  IN  IF ~Latency \/ Others(p) = {} THEN {waiting}
      ELSE {due \in [Others(p) -> 0 .. waiting[deepest]] :
              \A from \in Others(p) : due[from] <= waiting[from]}

\* The link after the pipes of each end, in order, have been pumped into p.
Pumped(net, p, due) ==
  LET after[i \in 0 .. PeerCount] == IF i = 0 THEN net ELSE PumpPipe(after[i - 1], i - 1, p, due)
  IN  after

Pump(net, p, due) == IF p \in net.lost THEN net ELSE Pumped(net, p, due)[PeerCount]

\* An end that died: what is in flight to it and from it goes with it.
Lose(net, p) ==
  [net EXCEPT !.lost = @ \cup {p},
              !.pipe = [ends \in Peer \X Peer |->
                          IF p \in {ends[1], ends[2]} THEN <<>> ELSE @[ends]]]

\* LinkFault::Corrupt: the last byte of one message in flight is flipped.
Corrupt(net, from, to, i, message) == [net EXCEPT !.pipe[<<from, to>>][i].message = message]
==============================================================================
