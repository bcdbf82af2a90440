-------------------------- MODULE Lockstep_proofs --------------------------
(***************************************************************************)
(* Peers agree, and nobody runs ahead of its announcements, for any number *)
(* of peers, on both topologies, with any latency and any input delays,    *)
(* through deaths and departures.                                          *)
(*                                                                         *)
(* What a peer says at a tick is fixed before the game begins (Said); the  *)
(* invariant follows it from its speaker over the link into queues and     *)
(* gates, so that a tick of any peer makes of its world what everybody     *)
(* said (RunOf), and two worlds of the same ticks are the same.            *)
(*                                                                         *)
(* A run that is reported as finished is one that every partner made and   *)
(* agreed on, whatever was altered on the way and whoever was lost: that   *)
(* needs no agreement, only that what a peer says of itself is so (Honest).*)
(***************************************************************************)
EXTENDS Lockstep, OpsLemmas, SequenceTheorems

------------------------------------------------------------------------------
\* The commands of a peer before a tick, by tick and position.
Earlier(p, t) == UNION {{s} \X (1 .. Len(Cells(p, s))) : s \in 0 .. (t - 1)}
Base(p, t) == Cardinality(Earlier(p, t))

\* What a peer says at a tick, whatever the others do: its sequence numbers go
\* on from the commands it claimed before.
Said(p, t) ==
  [i \in 1 .. Len(Cells(p, t)) |-> Command(t, p, Base(p, t) + i - 1, Cells(p, t)[i])]

Commands(p, t) == {Said(p, t)[i] : i \in 1 .. Len(Cells(p, t))}

\* Every command of a peer's turn is one that a queue takes.
Valid(p, t) == \A i \in 1 .. Len(Cells(p, t)) : Cells(p, t)[i] \in Cell \ InvalidCell

\* What everybody says for a tick, and the world after that tick of the world before.
AllSaid(t) == {<<c, 1>> : c \in UNION {Commands(q, t) : q \in Peer}}

RunOf(world, t) ==
  RunTick([tick |-> t, world |-> world, report |-> <<>>],
          [pending |-> AllSaid(t), next |-> <<>>], InvalidCell).world

------------------------------------------------------------------------------
NodeFields ==
  {"id", "length", "state", "error", "diverged", "heard", "agreed", "peers", "lastSent",
   "turnsFrom", "finish", "peerFinish", "checkpoints", "pending", "compared", "dropped",
   "left", "drops", "gate", "queue", "kernel"}

Shape(n) == n = [f \in NodeFields |-> n[f]]

\* A sequence, of whatever.
Listed(s) == Len(s) \in Nat /\ s = [i \in 1 .. Len(s) |-> s[i]]

\* The node has marked the turn of q as complete.
Marked(n, q, t) == q \in ExpectedSources(n.gate) /\ t \in CompletedTicks(n.gate.expected[q])

\* It holds the turn: its own as soon as it was sent.
Has(n, q, t) == IF q = n.id THEN t <= n.lastSent ELSE Marked(n, q, t)

\* A turn that others may have: one that could not be sent to everyone fails the
\* sender, and is not counted as sent.
Spoke(n, t) ==
  \/ t <= n.lastSent
  \/ ~Succeeded(n) /\ t = n.lastSent + 1 /\ t <= Now(n) + Delay[n.id]

HasRoom(n) == Cardinality(n.queue.pending) < MaxPending

\* The queue holds nothing, and nothing twice, but commands of the turns that are
\* held and did not run; and where nothing was refused, all of them.
Within(n) ==
  \A e \in n.queue.pending :
    /\ e[2] = 1
    /\ e[1].target >= Now(n)
    /\ Has(n, e[1].source, e[1].target)
    /\ e[1] \in Commands(e[1].source, e[1].target)

Exact(n) ==
  /\ Within(n)
  /\ \A q \in Peer, t \in Nat :
       t >= Now(n) /\ Has(n, q, t) => \A c \in Commands(q, t) : <<c, 1>> \in n.queue.pending

\* The world when the ticks below t had run.
Until(world, t) == SubSeq(world, 1, Cardinality({i \in DOMAIN world : world[i].target < t}))

\* Every tick made of the world what everybody said for it makes of it.
History(k) ==
  /\ k.world \in Seq(Cmd)
  /\ \A i \in DOMAIN k.world : k.world[i].target < k.tick
  /\ \A t \in 0 .. (k.tick - 1) : Until(k.world, t + 1) = RunOf(Until(k.world, t), t)

GateOK(n) ==
  /\ n.gate = [floor |-> n.gate.floor, expected |-> n.gate.expected]
  /\ n.gate.floor \in Nat /\ n.gate.floor <= Now(n)
  /\ n.gate.expected \in [ExpectedSources(n.gate) -> Progress]
  /\ \/ ExpectedSources(n.gate) = Peer
     \/ ExpectedSources(n.gate) = {} /\ n.gate.floor = 0 /\ n.state \in {"Handshaking", "Ended"}

QueueOK(n) ==
  /\ n.queue = [pending |-> n.queue.pending, next |-> n.queue.next]
  /\ n.queue.pending \in SUBSET Entry /\ IsFiniteSet(n.queue.pending)
  /\ n.queue.next \in [Peer -> Nat]

KernelOK(n) ==
  /\ n.kernel = [tick |-> n.kernel.tick, world |-> n.kernel.world, report |-> n.kernel.report]
  /\ n.kernel.tick \in Nat
  /\ History(n.kernel)

\* What a node that did not fail has sent and holds.
Sound(n) ==
  Succeeded(n) => /\ n.queue.next[n.id] = Base(n.id, n.lastSent + 1)
                  /\ Within(n)
                  /\ HasRoom(n) => Exact(n)

Local(p, n) ==
  /\ Shape(n) /\ n.id = p /\ Listed(n.pending) /\ n.drops = <<>> /\ n.dropped = {}
  /\ n.lastSent \in Nat \cup {-1} /\ n.lastSent <= Now(n) + Delay[p]
  /\ GateOK(n) /\ QueueOK(n) /\ KernelOK(n) /\ Sound(n)

\* A node marks nothing, and runs no tick, that q did not say.
Follows(n, q, m) ==
  /\ \A t \in Nat : Marked(n, q, t) => Spoke(m, t)
  /\ Now(n) > 0 => Spoke(m, Now(n) - 1)

------------------------------------------------------------------------------
\* The end whose pipe into p carries what origin says, and whether peer zero
\* handed it on.
Via(p, origin) == IF Topology = "Mesh" \/ p = 0 THEN origin ELSE 0
Relayed(p, origin) == Topology # "Mesh" /\ p # 0 /\ origin # 0

\* Where a message from o to p may be: filed at p, in the pipe into p, or on its
\* way to peer zero.
Slots(links, p, o) ==
  {"in"} \X DOMAIN links.inbox[<<p, o>>]
  \cup {"near"} \X {i \in DOMAIN links.pipe[<<Via(p, o), p>>] :
                      links.pipe[<<Via(p, o), p>>][i].origin = o}
  \cup {"far"} \X (IF Relayed(p, o) THEN DOMAIN links.pipe[<<o, 0>>] ELSE {})

MessageAt(links, p, o, s) ==
  IF s[1] = "in" THEN links.inbox[<<p, o>>][s[2]]
  ELSE IF s[1] = "near" THEN links.pipe[<<Via(p, o), p>>][s[2]].message
  ELSE links.pipe[<<o, 0>>][s[2]].message

Kinds == {"Hello", "Turn", "HashCheck", "Finish", "Bye", "Drop"}

\* Packets are where the topology sends them.
Routed(k, f, t) ==
  /\ k = Packet(k.origin, k.everyone, k.message)
  /\ k.origin \in Peer \ {t} /\ f = Via(t, k.origin)
  /\ k.everyone = (Topology # "Mesh" /\ t = 0)

NetShape(links) == links = [f \in {"pipe", "inbox", "overflowed", "lost"} |-> links[f]]

NetOK(links) ==
  /\ NetShape(links)
  /\ links.pipe = [e \in Peer \X Peer |-> links.pipe[e]]
  /\ links.inbox = [e \in Peer \X Peer |-> links.inbox[e]]
  /\ \A e \in Peer \X Peer : Listed(links.pipe[e]) /\ Listed(links.inbox[e])
  /\ \A f, t \in Peer : \A i \in DOMAIN links.pipe[<<f, t>>] :
       Routed(links.pipe[<<f, t>>][i], f, t)

\* A message from o to n: if it is a turn, it is what o says, and not held yet.
Proper(n, o, m, message) ==
  /\ message.type \in Kinds
  /\ message.type = "Turn" =>
       /\ message.tick \in Nat
       /\ message = Turn(o, message.tick, Said(o, message.tick))
       /\ Valid(o, message.tick)
       /\ Spoke(m, message.tick)
       /\ Succeeded(n) => ~Has(n, o, message.tick)

SameTurn(message, other) ==
  message.type = "Turn" /\ other.type = "Turn" /\ message.tick = other.tick

\* What is under way from o to p, each turn once.
UnderWay(links, p, n, o, m) ==
  /\ \A s \in Slots(links, p, o) : Proper(n, o, m, MessageAt(links, p, o, s))
  /\ \A s, r \in Slots(links, p, o) :
       SameTurn(MessageAt(links, p, o, s), MessageAt(links, p, o, r)) => s = r

Inv(N, links) ==
  /\ NetOK(links)
  /\ N = [p \in Peer |-> N[p]]
  /\ \A p \in Peer : Local(p, N[p])
  /\ \A p, q \in Peer : Follows(N[p], q, N[q])
  /\ \A p, o \in Peer : p # o => UnderWay(links, p, N[p], o, N[o])

IInv == Inv(node, net)

\* What a peer may hold of everybody's turns at a tick, by how far it and they may
\* be ahead of each other, fits its queue.
MayHold(p, t) == UNION {UNION {Commands(q, s) : s \in t .. (t + Delay[p] + Delay[q] + 1)} : q \in Peer}

Fits == \A p \in Peer, t \in Nat : Cardinality(MayHold(p, t)) < MaxPending

------------------------------------------------------------------------------
\* The folds of the model are chains: each value is the one before it with one
\* more step.

\* Peers are counted by a natural number.
LEMMA PeersCounted ==
  /\ PeerCount \in Nat /\ Peer = 0 .. (PeerCount - 1)
  /\ \A i \in 1 .. PeerCount : i - 1 \in Peer
<1>1. IsFiniteSet(Peer) /\ Peer = 0 .. (PeerCount - 1)
  BY ConfigAssumption DEF PeerCount
<1>2. PeerCount \in Nat
  BY <1>1, FS_CardinalityType DEF PeerCount
<1> QED
  BY <1>1, <1>2

\* The link with one announcement more.
LEMMA GreetedIsAChain ==
  /\ Greeted[0] = NewNet
  /\ \A i \in 1 .. PeerCount : Greeted[i] = Announced(i - 1, Greeted[i - 1])
<1> DEFINE first == NewNet
           next(a, i) == Announced(i - 1, a)
           chain(g, m) == g = [i \in 0 .. m |-> IF i = 0 THEN first ELSE next(g[i - 1], i)]
           missing == {m \in 0 .. PeerCount : ~ \E g : chain(g, m)}
<1>0. PeerCount \in Nat
  BY PeersCounted
<1> HIDE DEF first, next
<1>1. missing = {}
  <2> SUFFICES ASSUME missing # {} PROVE FALSE
    OBVIOUS
  <2>1. PICK m \in missing : \A j \in missing : m <= j
    <3>1. missing \in SUBSET Nat
      BY <1>0
    <3> HIDE DEF missing
    <3> QED
      BY <3>1, LeastElement
  <2>2. m \in 0 .. PeerCount /\ ~ \E g : chain(g, m)
    OBVIOUS
  <2>3. CASE m = 0
    <3> DEFINE g == [i \in 0 .. 0 |-> first]
    <3>1. chain(g, 0)
      OBVIOUS
    <3> QED
      BY <2>2, <2>3, <3>1
  <2>4. CASE m # 0
    <3>0. m - 1 \in 0 .. PeerCount /\ ~ (m <= m - 1)
      BY <1>0, <2>2, <2>4
    <3>1. m - 1 \notin missing
      <4> HIDE DEF missing
      <4> QED
        BY <2>1, <3>0
    <3>2. PICK g : chain(g, m - 1)
      BY <3>0, <3>1
    <3> DEFINE h == [i \in 0 .. m |-> IF i < m THEN g[i] ELSE next(g[m - 1], m)]
    <3>3. ASSUME NEW i \in 0 .. m
          PROVE  h[i] = IF i = 0 THEN first ELSE next(h[i - 1], i)
      <4>1. CASE i = m
        BY <1>0, <2>2, <2>4, <4>1
      <4>2. CASE i # m
        <5>1. i \in 0 .. (m - 1) /\ h[i] = g[i] /\ (i # 0 => h[i - 1] = g[i - 1])
          BY <1>0, <2>2, <4>2
        <5>2. g[i] = IF i = 0 THEN first ELSE next(g[i - 1], i)
          BY <3>2, <5>1
        <5> QED
          BY <5>1, <5>2
      <4> QED
        BY <4>1, <4>2
    <3>4. h = [i \in 0 .. m |-> h[i]]
      OBVIOUS
    <3> HIDE DEF h
    <3>5. chain(h, m)
      BY <3>3, <3>4
    <3> QED
      BY <2>2, <3>5
  <2> QED
    BY <2>3, <2>4
<1>2. \E g : chain(g, PeerCount)
  <2> HIDE DEF chain
  <2>1. PeerCount \in 0 .. PeerCount
    BY <1>0
  <2> QED
    BY <2>1, <1>1
<1>3. Greeted = CHOOSE g : chain(g, PeerCount)
  BY DEF Greeted, first, next
<1>4. chain(Greeted, PeerCount)
  BY <1>2, <1>3
<1>5. Greeted[0] = first
  BY <1>0, <1>4
<1>6. \A i \in 1 .. PeerCount : Greeted[i] = next(Greeted[i - 1], i)
  BY <1>0, <1>4
<1> QED
  BY <1>5, <1>6 DEF first, next

\* The link with one packet more delivered.
LEMMA DeliveredIsAChain ==
  ASSUME NEW links, NEW from, NEW to, NEW due \in Nat
  PROVE  /\ Delivered(links, from, to, due)[0] = links
         /\ \A i \in 1 .. due : Delivered(links, from, to, due)[i] = Deliver(Delivered(links, from, to, due)[i - 1], from, to)
<1> DEFINE first == links
           next(a, i) == Deliver(a, from, to)
           chain(g, m) == g = [i \in 0 .. m |-> IF i = 0 THEN first ELSE next(g[i - 1], i)]
           missing == {m \in 0 .. due : ~ \E g : chain(g, m)}
<1>0. due \in Nat
  OBVIOUS
<1> HIDE DEF first, next
<1>1. missing = {}
  <2> SUFFICES ASSUME missing # {} PROVE FALSE
    OBVIOUS
  <2>1. PICK m \in missing : \A j \in missing : m <= j
    <3>1. missing \in SUBSET Nat
      BY <1>0
    <3> HIDE DEF missing
    <3> QED
      BY <3>1, LeastElement
  <2>2. m \in 0 .. due /\ ~ \E g : chain(g, m)
    OBVIOUS
  <2>3. CASE m = 0
    <3> DEFINE g == [i \in 0 .. 0 |-> first]
    <3>1. chain(g, 0)
      OBVIOUS
    <3> QED
      BY <2>2, <2>3, <3>1
  <2>4. CASE m # 0
    <3>0. m - 1 \in 0 .. due /\ ~ (m <= m - 1)
      BY <1>0, <2>2, <2>4
    <3>1. m - 1 \notin missing
      <4> HIDE DEF missing
      <4> QED
        BY <2>1, <3>0
    <3>2. PICK g : chain(g, m - 1)
      BY <3>0, <3>1
    <3> DEFINE h == [i \in 0 .. m |-> IF i < m THEN g[i] ELSE next(g[m - 1], m)]
    <3>3. ASSUME NEW i \in 0 .. m
          PROVE  h[i] = IF i = 0 THEN first ELSE next(h[i - 1], i)
      <4>1. CASE i = m
        BY <1>0, <2>2, <2>4, <4>1
      <4>2. CASE i # m
        <5>1. i \in 0 .. (m - 1) /\ h[i] = g[i] /\ (i # 0 => h[i - 1] = g[i - 1])
          BY <1>0, <2>2, <4>2
        <5>2. g[i] = IF i = 0 THEN first ELSE next(g[i - 1], i)
          BY <3>2, <5>1
        <5> QED
          BY <5>1, <5>2
      <4> QED
        BY <4>1, <4>2
    <3>4. h = [i \in 0 .. m |-> h[i]]
      OBVIOUS
    <3> HIDE DEF h
    <3>5. chain(h, m)
      BY <3>3, <3>4
    <3> QED
      BY <2>2, <3>5
  <2> QED
    BY <2>3, <2>4
<1>2. \E g : chain(g, due)
  BY <1>0, <1>1
<1>3. Delivered(links, from, to, due) = CHOOSE g : chain(g, due)
  BY DEF Delivered, first, next
<1>4. chain(Delivered(links, from, to, due), due)
  BY <1>2, <1>3
<1>5. Delivered(links, from, to, due)[0] = first
  BY <1>0, <1>4
<1>6. \A i \in 1 .. due : Delivered(links, from, to, due)[i] = next(Delivered(links, from, to, due)[i - 1], i)
  BY <1>0, <1>4
<1> QED
  BY <1>5, <1>6 DEF first, next

\* With one pipe more pumped.
LEMMA PumpedIsAChain ==
  ASSUME NEW links, NEW p, NEW due
  PROVE  /\ Pumped(links, p, due)[0] = links
         /\ \A i \in 1 .. PeerCount : Pumped(links, p, due)[i] = PumpPipe(Pumped(links, p, due)[i - 1], i - 1, p, due)
<1> DEFINE first == links
           next(a, i) == PumpPipe(a, i - 1, p, due)
           chain(g, m) == g = [i \in 0 .. m |-> IF i = 0 THEN first ELSE next(g[i - 1], i)]
           missing == {m \in 0 .. PeerCount : ~ \E g : chain(g, m)}
<1>0. PeerCount \in Nat
  BY PeersCounted
<1> HIDE DEF first, next
<1>1. missing = {}
  <2> SUFFICES ASSUME missing # {} PROVE FALSE
    OBVIOUS
  <2>1. PICK m \in missing : \A j \in missing : m <= j
    <3>1. missing \in SUBSET Nat
      BY <1>0
    <3> HIDE DEF missing
    <3> QED
      BY <3>1, LeastElement
  <2>2. m \in 0 .. PeerCount /\ ~ \E g : chain(g, m)
    OBVIOUS
  <2>3. CASE m = 0
    <3> DEFINE g == [i \in 0 .. 0 |-> first]
    <3>1. chain(g, 0)
      OBVIOUS
    <3> QED
      BY <2>2, <2>3, <3>1
  <2>4. CASE m # 0
    <3>0. m - 1 \in 0 .. PeerCount /\ ~ (m <= m - 1)
      BY <1>0, <2>2, <2>4
    <3>1. m - 1 \notin missing
      <4> HIDE DEF missing
      <4> QED
        BY <2>1, <3>0
    <3>2. PICK g : chain(g, m - 1)
      BY <3>0, <3>1
    <3> DEFINE h == [i \in 0 .. m |-> IF i < m THEN g[i] ELSE next(g[m - 1], m)]
    <3>3. ASSUME NEW i \in 0 .. m
          PROVE  h[i] = IF i = 0 THEN first ELSE next(h[i - 1], i)
      <4>1. CASE i = m
        BY <1>0, <2>2, <2>4, <4>1
      <4>2. CASE i # m
        <5>1. i \in 0 .. (m - 1) /\ h[i] = g[i] /\ (i # 0 => h[i - 1] = g[i - 1])
          BY <1>0, <2>2, <4>2
        <5>2. g[i] = IF i = 0 THEN first ELSE next(g[i - 1], i)
          BY <3>2, <5>1
        <5> QED
          BY <5>1, <5>2
      <4> QED
        BY <4>1, <4>2
    <3>4. h = [i \in 0 .. m |-> h[i]]
      OBVIOUS
    <3> HIDE DEF h
    <3>5. chain(h, m)
      BY <3>3, <3>4
    <3> QED
      BY <2>2, <3>5
  <2> QED
    BY <2>3, <2>4
<1>2. \E g : chain(g, PeerCount)
  <2> HIDE DEF chain
  <2>1. PeerCount \in 0 .. PeerCount
    BY <1>0
  <2> QED
    BY <2>1, <1>1
<1>3. Pumped(links, p, due) = CHOOSE g : chain(g, PeerCount)
  BY DEF Pumped, first, next
<1>4. chain(Pumped(links, p, due), PeerCount)
  BY <1>2, <1>3
<1>5. Pumped(links, p, due)[0] = first
  BY <1>0, <1>4
<1>6. \A i \in 1 .. PeerCount : Pumped(links, p, due)[i] = next(Pumped(links, p, due)[i - 1], i)
  BY <1>0, <1>4
<1> QED
  BY <1>5, <1>6 DEF first, next

\* The queue with one command more.
LEMMA SubmittedIsAChain ==
  ASSUME NEW queue, NEW commands, Len(commands) \in Nat
  PROVE  /\ Submitted(queue, commands)[0] = queue
         /\ \A i \in 1 .. Len(commands) : Submitted(queue, commands)[i] = SubmitRemote(Submitted(queue, commands)[i - 1], commands[i])
<1> DEFINE first == queue
           next(a, i) == SubmitRemote(a, commands[i])
           chain(g, m) == g = [i \in 0 .. m |-> IF i = 0 THEN first ELSE next(g[i - 1], i)]
           missing == {m \in 0 .. Len(commands) : ~ \E g : chain(g, m)}
<1>0. Len(commands) \in Nat
  OBVIOUS
<1> HIDE DEF first, next
<1>1. missing = {}
  <2> SUFFICES ASSUME missing # {} PROVE FALSE
    OBVIOUS
  <2>1. PICK m \in missing : \A j \in missing : m <= j
    <3>1. missing \in SUBSET Nat
      BY <1>0
    <3> HIDE DEF missing
    <3> QED
      BY <3>1, LeastElement
  <2>2. m \in 0 .. Len(commands) /\ ~ \E g : chain(g, m)
    OBVIOUS
  <2>3. CASE m = 0
    <3> DEFINE g == [i \in 0 .. 0 |-> first]
    <3>1. chain(g, 0)
      OBVIOUS
    <3> QED
      BY <2>2, <2>3, <3>1
  <2>4. CASE m # 0
    <3>0. m - 1 \in 0 .. Len(commands) /\ ~ (m <= m - 1)
      BY <1>0, <2>2, <2>4
    <3>1. m - 1 \notin missing
      <4> HIDE DEF missing
      <4> QED
        BY <2>1, <3>0
    <3>2. PICK g : chain(g, m - 1)
      BY <3>0, <3>1
    <3> DEFINE h == [i \in 0 .. m |-> IF i < m THEN g[i] ELSE next(g[m - 1], m)]
    <3>3. ASSUME NEW i \in 0 .. m
          PROVE  h[i] = IF i = 0 THEN first ELSE next(h[i - 1], i)
      <4>1. CASE i = m
        BY <1>0, <2>2, <2>4, <4>1
      <4>2. CASE i # m
        <5>1. i \in 0 .. (m - 1) /\ h[i] = g[i] /\ (i # 0 => h[i - 1] = g[i - 1])
          BY <1>0, <2>2, <4>2
        <5>2. g[i] = IF i = 0 THEN first ELSE next(g[i - 1], i)
          BY <3>2, <5>1
        <5> QED
          BY <5>1, <5>2
      <4> QED
        BY <4>1, <4>2
    <3>4. h = [i \in 0 .. m |-> h[i]]
      OBVIOUS
    <3> HIDE DEF h
    <3>5. chain(h, m)
      BY <3>3, <3>4
    <3> QED
      BY <2>2, <3>5
  <2> QED
    BY <2>3, <2>4
<1>2. \E g : chain(g, Len(commands))
  BY <1>0, <1>1
<1>3. Submitted(queue, commands) = CHOOSE g : chain(g, Len(commands))
  BY DEF Submitted, first, next
<1>4. chain(Submitted(queue, commands), Len(commands))
  BY <1>2, <1>3
<1>5. Submitted(queue, commands)[0] = first
  BY <1>0, <1>4
<1>6. \A i \in 1 .. Len(commands) : Submitted(queue, commands)[i] = next(Submitted(queue, commands)[i - 1], i)
  BY <1>0, <1>4
<1> QED
  BY <1>5, <1>6 DEF first, next

\* One message more read.
LEMMA ReadInOrderIsAChain ==
  ASSUME NEW n, NEW from, NEW waiting, Len(waiting) \in Nat
  PROVE  /\ ReadInOrder(n, from, waiting)[0] = [node |-> n, handled |-> 0, stopped |-> FALSE]
         /\ \A i \in 1 .. Len(waiting) : ReadInOrder(n, from, waiting)[i] = ReadMessage(ReadInOrder(n, from, waiting)[i - 1], from, waiting[i])
<1> DEFINE first == [node |-> n, handled |-> 0, stopped |-> FALSE]
           next(a, i) == ReadMessage(a, from, waiting[i])
           chain(g, m) == g = [i \in 0 .. m |-> IF i = 0 THEN first ELSE next(g[i - 1], i)]
           missing == {m \in 0 .. Len(waiting) : ~ \E g : chain(g, m)}
<1>0. Len(waiting) \in Nat
  OBVIOUS
<1> HIDE DEF first, next
<1>1. missing = {}
  <2> SUFFICES ASSUME missing # {} PROVE FALSE
    OBVIOUS
  <2>1. PICK m \in missing : \A j \in missing : m <= j
    <3>1. missing \in SUBSET Nat
      BY <1>0
    <3> HIDE DEF missing
    <3> QED
      BY <3>1, LeastElement
  <2>2. m \in 0 .. Len(waiting) /\ ~ \E g : chain(g, m)
    OBVIOUS
  <2>3. CASE m = 0
    <3> DEFINE g == [i \in 0 .. 0 |-> first]
    <3>1. chain(g, 0)
      OBVIOUS
    <3> QED
      BY <2>2, <2>3, <3>1
  <2>4. CASE m # 0
    <3>0. m - 1 \in 0 .. Len(waiting) /\ ~ (m <= m - 1)
      BY <1>0, <2>2, <2>4
    <3>1. m - 1 \notin missing
      <4> HIDE DEF missing
      <4> QED
        BY <2>1, <3>0
    <3>2. PICK g : chain(g, m - 1)
      BY <3>0, <3>1
    <3> DEFINE h == [i \in 0 .. m |-> IF i < m THEN g[i] ELSE next(g[m - 1], m)]
    <3>3. ASSUME NEW i \in 0 .. m
          PROVE  h[i] = IF i = 0 THEN first ELSE next(h[i - 1], i)
      <4>1. CASE i = m
        BY <1>0, <2>2, <2>4, <4>1
      <4>2. CASE i # m
        <5>1. i \in 0 .. (m - 1) /\ h[i] = g[i] /\ (i # 0 => h[i - 1] = g[i - 1])
          BY <1>0, <2>2, <4>2
        <5>2. g[i] = IF i = 0 THEN first ELSE next(g[i - 1], i)
          BY <3>2, <5>1
        <5> QED
          BY <5>1, <5>2
      <4> QED
        BY <4>1, <4>2
    <3>4. h = [i \in 0 .. m |-> h[i]]
      OBVIOUS
    <3> HIDE DEF h
    <3>5. chain(h, m)
      BY <3>3, <3>4
    <3> QED
      BY <2>2, <3>5
  <2> QED
    BY <2>3, <2>4
<1>2. \E g : chain(g, Len(waiting))
  BY <1>0, <1>1
<1>3. ReadInOrder(n, from, waiting) = CHOOSE g : chain(g, Len(waiting))
  BY DEF ReadInOrder, first, next
<1>4. chain(ReadInOrder(n, from, waiting), Len(waiting))
  BY <1>2, <1>3
<1>5. ReadInOrder(n, from, waiting)[0] = first
  BY <1>0, <1>4
<1>6. \A i \in 1 .. Len(waiting) : ReadInOrder(n, from, waiting)[i] = next(ReadInOrder(n, from, waiting)[i - 1], i)
  BY <1>0, <1>4
<1> QED
  BY <1>5, <1>6 DEF first, next

\* One inbox more read.
LEMMA InboxesReadIsAChain ==
  ASSUME NEW cut
  PROVE  /\ InboxesRead(cut)[0] = cut
         /\ \A i \in 1 .. PeerCount : InboxesRead(cut)[i] = ReadNext(InboxesRead(cut)[i - 1], i - 1)
<1> DEFINE first == cut
           next(a, i) == ReadNext(a, i - 1)
           chain(g, m) == g = [i \in 0 .. m |-> IF i = 0 THEN first ELSE next(g[i - 1], i)]
           missing == {m \in 0 .. PeerCount : ~ \E g : chain(g, m)}
<1>0. PeerCount \in Nat
  BY PeersCounted
<1> HIDE DEF first, next
<1>1. missing = {}
  <2> SUFFICES ASSUME missing # {} PROVE FALSE
    OBVIOUS
  <2>1. PICK m \in missing : \A j \in missing : m <= j
    <3>1. missing \in SUBSET Nat
      BY <1>0
    <3> HIDE DEF missing
    <3> QED
      BY <3>1, LeastElement
  <2>2. m \in 0 .. PeerCount /\ ~ \E g : chain(g, m)
    OBVIOUS
  <2>3. CASE m = 0
    <3> DEFINE g == [i \in 0 .. 0 |-> first]
    <3>1. chain(g, 0)
      OBVIOUS
    <3> QED
      BY <2>2, <2>3, <3>1
  <2>4. CASE m # 0
    <3>0. m - 1 \in 0 .. PeerCount /\ ~ (m <= m - 1)
      BY <1>0, <2>2, <2>4
    <3>1. m - 1 \notin missing
      <4> HIDE DEF missing
      <4> QED
        BY <2>1, <3>0
    <3>2. PICK g : chain(g, m - 1)
      BY <3>0, <3>1
    <3> DEFINE h == [i \in 0 .. m |-> IF i < m THEN g[i] ELSE next(g[m - 1], m)]
    <3>3. ASSUME NEW i \in 0 .. m
          PROVE  h[i] = IF i = 0 THEN first ELSE next(h[i - 1], i)
      <4>1. CASE i = m
        BY <1>0, <2>2, <2>4, <4>1
      <4>2. CASE i # m
        <5>1. i \in 0 .. (m - 1) /\ h[i] = g[i] /\ (i # 0 => h[i - 1] = g[i - 1])
          BY <1>0, <2>2, <4>2
        <5>2. g[i] = IF i = 0 THEN first ELSE next(g[i - 1], i)
          BY <3>2, <5>1
        <5> QED
          BY <5>1, <5>2
      <4> QED
        BY <4>1, <4>2
    <3>4. h = [i \in 0 .. m |-> h[i]]
      OBVIOUS
    <3> HIDE DEF h
    <3>5. chain(h, m)
      BY <3>3, <3>4
    <3> QED
      BY <2>2, <3>5
  <2> QED
    BY <2>3, <2>4
<1>2. \E g : chain(g, PeerCount)
  <2> HIDE DEF chain
  <2>1. PeerCount \in 0 .. PeerCount
    BY <1>0
  <2> QED
    BY <2>1, <1>1
<1>3. InboxesRead(cut) = CHOOSE g : chain(g, PeerCount)
  BY DEF InboxesRead, first, next
<1>4. chain(InboxesRead(cut), PeerCount)
  BY <1>2, <1>3
<1>5. InboxesRead(cut)[0] = first
  BY <1>0, <1>4
<1>6. \A i \in 1 .. PeerCount : InboxesRead(cut)[i] = next(InboxesRead(cut)[i - 1], i)
  BY <1>0, <1>4
<1> QED
  BY <1>5, <1>6 DEF first, next

\* One loss more handled.
LEMMA LossesHandledIsAChain ==
  ASSUME NEW cut
  PROVE  /\ LossesHandled(cut)[0] = cut
         /\ \A i \in 1 .. PeerCount : LossesHandled(cut)[i] = HandleLostNext(LossesHandled(cut)[i - 1], i - 1)
<1> DEFINE first == cut
           next(a, i) == HandleLostNext(a, i - 1)
           chain(g, m) == g = [i \in 0 .. m |-> IF i = 0 THEN first ELSE next(g[i - 1], i)]
           missing == {m \in 0 .. PeerCount : ~ \E g : chain(g, m)}
<1>0. PeerCount \in Nat
  BY PeersCounted
<1> HIDE DEF first, next
<1>1. missing = {}
  <2> SUFFICES ASSUME missing # {} PROVE FALSE
    OBVIOUS
  <2>1. PICK m \in missing : \A j \in missing : m <= j
    <3>1. missing \in SUBSET Nat
      BY <1>0
    <3> HIDE DEF missing
    <3> QED
      BY <3>1, LeastElement
  <2>2. m \in 0 .. PeerCount /\ ~ \E g : chain(g, m)
    OBVIOUS
  <2>3. CASE m = 0
    <3> DEFINE g == [i \in 0 .. 0 |-> first]
    <3>1. chain(g, 0)
      OBVIOUS
    <3> QED
      BY <2>2, <2>3, <3>1
  <2>4. CASE m # 0
    <3>0. m - 1 \in 0 .. PeerCount /\ ~ (m <= m - 1)
      BY <1>0, <2>2, <2>4
    <3>1. m - 1 \notin missing
      <4> HIDE DEF missing
      <4> QED
        BY <2>1, <3>0
    <3>2. PICK g : chain(g, m - 1)
      BY <3>0, <3>1
    <3> DEFINE h == [i \in 0 .. m |-> IF i < m THEN g[i] ELSE next(g[m - 1], m)]
    <3>3. ASSUME NEW i \in 0 .. m
          PROVE  h[i] = IF i = 0 THEN first ELSE next(h[i - 1], i)
      <4>1. CASE i = m
        BY <1>0, <2>2, <2>4, <4>1
      <4>2. CASE i # m
        <5>1. i \in 0 .. (m - 1) /\ h[i] = g[i] /\ (i # 0 => h[i - 1] = g[i - 1])
          BY <1>0, <2>2, <4>2
        <5>2. g[i] = IF i = 0 THEN first ELSE next(g[i - 1], i)
          BY <3>2, <5>1
        <5> QED
          BY <5>1, <5>2
      <4> QED
        BY <4>1, <4>2
    <3>4. h = [i \in 0 .. m |-> h[i]]
      OBVIOUS
    <3> HIDE DEF h
    <3>5. chain(h, m)
      BY <3>3, <3>4
    <3> QED
      BY <2>2, <3>5
  <2> QED
    BY <2>3, <2>4
<1>2. \E g : chain(g, PeerCount)
  <2> HIDE DEF chain
  <2>1. PeerCount \in 0 .. PeerCount
    BY <1>0
  <2> QED
    BY <2>1, <1>1
<1>3. LossesHandled(cut) = CHOOSE g : chain(g, PeerCount)
  BY DEF LossesHandled, first, next
<1>4. chain(LossesHandled(cut), PeerCount)
  BY <1>2, <1>3
<1>5. LossesHandled(cut)[0] = first
  BY <1>0, <1>4
<1>6. \A i \in 1 .. PeerCount : LossesHandled(cut)[i] = next(LossesHandled(cut)[i - 1], i)
  BY <1>0, <1>4
<1> QED
  BY <1>5, <1>6 DEF first, next

\* One held check more answered.
LEMMA AnsweredIsAChain ==
  ASSUME NEW n, NEW mine, Len(n.pending) \in Nat
  PROVE  /\ Answered(n, mine)[0] = [n EXCEPT !.pending = <<>>]
         /\ \A i \in 1 .. Len(n.pending) : Answered(n, mine)[i] = Answer(Answered(n, mine)[i - 1], n.pending[i], mine)
<1> DEFINE first == [n EXCEPT !.pending = <<>>]
           next(a, i) == Answer(a, n.pending[i], mine)
           chain(g, m) == g = [i \in 0 .. m |-> IF i = 0 THEN first ELSE next(g[i - 1], i)]
           missing == {m \in 0 .. Len(n.pending) : ~ \E g : chain(g, m)}
<1>0. Len(n.pending) \in Nat
  OBVIOUS
<1> HIDE DEF first, next
<1>1. missing = {}
  <2> SUFFICES ASSUME missing # {} PROVE FALSE
    OBVIOUS
  <2>1. PICK m \in missing : \A j \in missing : m <= j
    <3>1. missing \in SUBSET Nat
      BY <1>0
    <3> HIDE DEF missing
    <3> QED
      BY <3>1, LeastElement
  <2>2. m \in 0 .. Len(n.pending) /\ ~ \E g : chain(g, m)
    OBVIOUS
  <2>3. CASE m = 0
    <3> DEFINE g == [i \in 0 .. 0 |-> first]
    <3>1. chain(g, 0)
      OBVIOUS
    <3> QED
      BY <2>2, <2>3, <3>1
  <2>4. CASE m # 0
    <3>0. m - 1 \in 0 .. Len(n.pending) /\ ~ (m <= m - 1)
      BY <1>0, <2>2, <2>4
    <3>1. m - 1 \notin missing
      <4> HIDE DEF missing
      <4> QED
        BY <2>1, <3>0
    <3>2. PICK g : chain(g, m - 1)
      BY <3>0, <3>1
    <3> DEFINE h == [i \in 0 .. m |-> IF i < m THEN g[i] ELSE next(g[m - 1], m)]
    <3>3. ASSUME NEW i \in 0 .. m
          PROVE  h[i] = IF i = 0 THEN first ELSE next(h[i - 1], i)
      <4>1. CASE i = m
        BY <1>0, <2>2, <2>4, <4>1
      <4>2. CASE i # m
        <5>1. i \in 0 .. (m - 1) /\ h[i] = g[i] /\ (i # 0 => h[i - 1] = g[i - 1])
          BY <1>0, <2>2, <4>2
        <5>2. g[i] = IF i = 0 THEN first ELSE next(g[i - 1], i)
          BY <3>2, <5>1
        <5> QED
          BY <5>1, <5>2
      <4> QED
        BY <4>1, <4>2
    <3>4. h = [i \in 0 .. m |-> h[i]]
      OBVIOUS
    <3> HIDE DEF h
    <3>5. chain(h, m)
      BY <3>3, <3>4
    <3> QED
      BY <2>2, <3>5
  <2> QED
    BY <2>3, <2>4
<1>2. \E g : chain(g, Len(n.pending))
  BY <1>0, <1>1
<1>3. Answered(n, mine) = CHOOSE g : chain(g, Len(n.pending))
  BY DEF Answered, first, next
<1>4. chain(Answered(n, mine), Len(n.pending))
  BY <1>2, <1>3
<1>5. Answered(n, mine)[0] = first
  BY <1>0, <1>4
<1>6. \A i \in 1 .. Len(n.pending) : Answered(n, mine)[i] = next(Answered(n, mine)[i - 1], i)
  BY <1>0, <1>4
<1> QED
  BY <1>5, <1>6 DEF first, next

\* The draft with one command more.
LEMMA DraftedIsAChain ==
  ASSUME NEW n, NEW cells, Len(cells) \in Nat
  PROVE  /\ Drafted(n, cells)[0] = [node |-> n, commands |-> <<>>]
         /\ \A i \in 1 .. Len(cells) : Drafted(n, cells)[i] = SubmitOwn(Drafted(n, cells)[i - 1], cells[i])
<1> DEFINE first == [node |-> n, commands |-> <<>>]
           next(a, i) == SubmitOwn(a, cells[i])
           chain(g, m) == g = [i \in 0 .. m |-> IF i = 0 THEN first ELSE next(g[i - 1], i)]
           missing == {m \in 0 .. Len(cells) : ~ \E g : chain(g, m)}
<1>0. Len(cells) \in Nat
  OBVIOUS
<1> HIDE DEF first, next
<1>1. missing = {}
  <2> SUFFICES ASSUME missing # {} PROVE FALSE
    OBVIOUS
  <2>1. PICK m \in missing : \A j \in missing : m <= j
    <3>1. missing \in SUBSET Nat
      BY <1>0
    <3> HIDE DEF missing
    <3> QED
      BY <3>1, LeastElement
  <2>2. m \in 0 .. Len(cells) /\ ~ \E g : chain(g, m)
    OBVIOUS
  <2>3. CASE m = 0
    <3> DEFINE g == [i \in 0 .. 0 |-> first]
    <3>1. chain(g, 0)
      OBVIOUS
    <3> QED
      BY <2>2, <2>3, <3>1
  <2>4. CASE m # 0
    <3>0. m - 1 \in 0 .. Len(cells) /\ ~ (m <= m - 1)
      BY <1>0, <2>2, <2>4
    <3>1. m - 1 \notin missing
      <4> HIDE DEF missing
      <4> QED
        BY <2>1, <3>0
    <3>2. PICK g : chain(g, m - 1)
      BY <3>0, <3>1
    <3> DEFINE h == [i \in 0 .. m |-> IF i < m THEN g[i] ELSE next(g[m - 1], m)]
    <3>3. ASSUME NEW i \in 0 .. m
          PROVE  h[i] = IF i = 0 THEN first ELSE next(h[i - 1], i)
      <4>1. CASE i = m
        BY <1>0, <2>2, <2>4, <4>1
      <4>2. CASE i # m
        <5>1. i \in 0 .. (m - 1) /\ h[i] = g[i] /\ (i # 0 => h[i - 1] = g[i - 1])
          BY <1>0, <2>2, <4>2
        <5>2. g[i] = IF i = 0 THEN first ELSE next(g[i - 1], i)
          BY <3>2, <5>1
        <5> QED
          BY <5>1, <5>2
      <4> QED
        BY <4>1, <4>2
    <3>4. h = [i \in 0 .. m |-> h[i]]
      OBVIOUS
    <3> HIDE DEF h
    <3>5. chain(h, m)
      BY <3>3, <3>4
    <3> QED
      BY <2>2, <3>5
  <2> QED
    BY <2>3, <2>4
<1>2. \E g : chain(g, Len(cells))
  BY <1>0, <1>1
<1>3. Drafted(n, cells) = CHOOSE g : chain(g, Len(cells))
  BY DEF Drafted, first, next
<1>4. chain(Drafted(n, cells), Len(cells))
  BY <1>2, <1>3
<1>5. Drafted(n, cells)[0] = first
  BY <1>0, <1>4
<1>6. \A i \in 1 .. Len(cells) : Drafted(n, cells)[i] = next(Drafted(n, cells)[i - 1], i)
  BY <1>0, <1>4
<1> QED
  BY <1>5, <1>6 DEF first, next

------------------------------------------------------------------------------
\* Sequences of whatever: what their operators do to the places of their elements.
LEMMA ListedIs ==
  ASSUME NEW s, Listed(s)
  PROVE  /\ s \in Seq({s[i] : i \in 1 .. Len(s)})
         /\ Len(s) \in Nat /\ DOMAIN s = 1 .. Len(s)
<1>1. PICK n \in Nat : n = Len(s)
  BY DEF Listed
<1>2. s = [i \in 1 .. n |-> s[i]]
  BY <1>1 DEF Listed
<1>3. s \in [1 .. n -> {s[i] : i \in 1 .. n}]
  BY <1>2
<1>4. s \in Seq({s[i] : i \in 1 .. n})
  BY <1>1, <1>3
<1> QED
  BY <1>1, <1>2, <1>4

\* Every sequence over a set is listed.
LEMMA SeqIsListed ==
  ASSUME NEW S, NEW s \in Seq(S)
  PROVE  Listed(s)
BY DEF Listed

\* So is the empty one.
LEMMA EmptyIsListed == Listed(<<>>) /\ Len(<<>>) = 0 /\ DOMAIN <<>> = {}
BY DEF Listed

\* What Append makes of a sequence.
LEMMA AppendIs ==
  ASSUME NEW s, Listed(s), NEW x
  PROVE  /\ Listed(Append(s, x))
         /\ Len(Append(s, x)) = Len(s) + 1
         /\ DOMAIN Append(s, x) = 1 .. (Len(s) + 1)
         /\ \A i \in 1 .. Len(s) : Append(s, x)[i] = s[i]
         /\ Append(s, x)[Len(s) + 1] = x
<1> DEFINE S == {s[i] : i \in 1 .. Len(s)} \cup {x}
<1>1. s \in Seq(S) /\ x \in S
  <2>1. s \in Seq({s[i] : i \in 1 .. Len(s)}) /\ {s[i] : i \in 1 .. Len(s)} \subseteq S
    BY ListedIs
  <2> HIDE DEF S
  <2> QED
    BY <2>1 DEF S
<1> HIDE DEF S
<1>2. Append(s, x) \in Seq(S)
  BY <1>1
<1>3. Listed(Append(s, x))
  BY <1>2, SeqIsListed
<1> QED
  BY <1>1, <1>2, <1>3

\* What Tail and Head make of one.
LEMMA TailIs ==
  ASSUME NEW s, Listed(s), Len(s) > 0
  PROVE  /\ Listed(Tail(s))
         /\ Len(Tail(s)) = Len(s) - 1
         /\ DOMAIN Tail(s) = 1 .. (Len(s) - 1)
         /\ \A i \in 1 .. (Len(s) - 1) : Tail(s)[i] = s[i + 1]
         /\ Head(s) = s[1]
<1> DEFINE S == {s[i] : i \in 1 .. Len(s)}
<1>1. s \in Seq(S)
  BY ListedIs
<1> HIDE DEF S
<1>2. s # <<>> /\ Tail(s) \in Seq(S)
  BY <1>1
<1>3. Listed(Tail(s))
  BY <1>2, SeqIsListed
<1> QED
  BY <1>1, <1>2, <1>3

\* What is left of a sequence after its first k members.
LEMMA SubSeqIs ==
  ASSUME NEW s, Listed(s), NEW k \in 0 .. Len(s)
  PROVE  /\ Listed(SubSeq(s, k + 1, Len(s)))
         /\ Len(SubSeq(s, k + 1, Len(s))) = Len(s) - k
         /\ DOMAIN SubSeq(s, k + 1, Len(s)) = 1 .. (Len(s) - k)
         /\ \A i \in 1 .. (Len(s) - k) : SubSeq(s, k + 1, Len(s))[i] = s[k + i]
<1>1. PICK n \in Nat : n = Len(s)
  BY DEF Listed
<1> DEFINE r == SubSeq(s, k + 1, n)
<1>2. k \in 0 .. n
  BY <1>1
<1>3. r = [i \in 1 .. (n - k) |-> s[k + i]]
  <2> DEFINE S == {s[i] : i \in 1 .. Len(s)}
  <2>1. s \in Seq(S)
    BY ListedIs
  <2> HIDE DEF S
  <2>2. r \in Seq(S) /\ Len(r) = n - k /\ \A i \in 1 .. (n - k) : r[i] = s[k + i]
    BY <1>1, <1>2, <2>1
  <2> QED
    BY <1>1, <1>2, <2>2
<1> HIDE DEF r
<1>4. Len(r) = n - k /\ n - k \in Nat
  BY <1>2, <1>3
<1>5. Listed(r)
  BY <1>3, <1>4 DEF Listed
<1> QED
  BY <1>1, <1>3, <1>4, <1>5 DEF r

------------------------------------------------------------------------------
\* Every message under way after a step of the link was under way before, each
\* from a place of its own, but for a message that `from` says in the step.
From(links, after, p, o, from, message, f) ==
  /\ \A s \in Slots(after, p, o) :
       \/ f[s] \in Slots(links, p, o) /\ MessageAt(after, p, o, s) = MessageAt(links, p, o, f[s])
       \/ o = from /\ f[s] = <<"new", 0>> /\ MessageAt(after, p, o, s) = message
  /\ \A s, r \in Slots(after, p, o) : f[s] = f[r] => s = r

Nobody == -1

Carries(links, after, from, message) ==
  \A p, o \in Peer : p # o => \E f : From(links, after, p, o, from, message, f)

Moves(links, after) == Carries(links, after, Nobody, 0)

\* The first packet k of the pipe is taken out, filed and handed on.
Delivery(links, after, from, to, k) ==
  /\ NetShape(after) /\ after.lost = links.lost
  /\ Routed(k, from, to)
  /\ after.inbox = [e \in Peer \X Peer |-> after.inbox[e]]
  /\ after.pipe = [e \in Peer \X Peer |-> after.pipe[e]]
  /\ \A e \in Peer \X Peer :
       \/ after.inbox[e] = links.inbox[e]
       \/ e = <<to, k.origin>> /\ after.inbox[e] = Append(links.inbox[e], k.message)
  /\ after.pipe[<<from, to>>] = Tail(links.pipe[<<from, to>>])
  /\ \A e \in Peer \X Peer : e # <<from, to>> =>
       \/ after.pipe[e] = links.pipe[e]
       \/ /\ Topology # "Mesh" /\ to = 0 /\ e[1] = 0 /\ e[2] # k.origin /\ e[2] # 0
          /\ after.pipe[e] = Append(links.pipe[e], Packet(k.origin, FALSE, k.message))

\* Deliver takes the first packet out of its pipe, files it, and forwards it
\* where the relay must.
LEMMA DeliverIs ==
  ASSUME NEW links, NetOK(links), NEW from \in Peer, NEW to \in Peer, from # to,
         Len(links.pipe[<<from, to>>]) > 0,
         NEW after, after = Deliver(links, from, to),
         NEW k, k = links.pipe[<<from, to>>][1]
  PROVE  Delivery(links, after, from, to, k)
<1> DEFINE pipe == links.pipe[<<from, to>>]
           taken == [links EXCEPT !.pipe[<<from, to>>] = Tail(pipe)]
           targets == Others(0) \ ({k.origin} \cup links.lost)
           forwarded == IF k.everyone /\ to = 0
                        THEN TransmitAll(taken, 0, targets, Packet(k.origin, FALSE, k.message))
                        ELSE taken
<1>1. /\ Listed(pipe) /\ <<from, to>> \in Peer \X Peer
      /\ NetShape(links)
      /\ links.pipe = [e \in Peer \X Peer |-> links.pipe[e]]
      /\ links.inbox = [e \in Peer \X Peer |-> links.inbox[e]]
  BY DEF NetOK
<1>2. Head(pipe) = k /\ DOMAIN pipe = 1 .. Len(pipe) /\ Len(pipe) \in Nat
  BY <1>1, TailIs, ListedIs
<1>3. Routed(k, from, to)
  <2>1. 1 \in DOMAIN links.pipe[<<from, to>>]
    BY <1>2
  <2> QED
    BY <2>1 DEF NetOK
<1>4. after = Push(forwarded, to, k.origin, k.message)
  <2>1. taken.lost = links.lost /\ pipe # <<>>
    BY <1>1, EmptyIsListed DEF NetShape
  <2>2. after = File(taken, to, Head(pipe))
    BY <2>1 DEF Deliver
  <2> HIDE DEF taken
  <2> QED
    BY <1>2, <2>1, <2>2 DEF File, taken
<1>5. /\ NetShape(taken) /\ taken.inbox = links.inbox /\ taken.lost = links.lost
      /\ taken.pipe = [e \in Peer \X Peer |-> IF e = <<from, to>> THEN Tail(pipe) ELSE links.pipe[e]]
  <2> HIDE DEF pipe
  <2>1. /\ taken.pipe = [links.pipe EXCEPT ![<<from, to>>] = Tail(pipe)]
        /\ taken.inbox = links.inbox /\ taken.lost = links.lost
        /\ NetShape(taken)
    BY <1>1 DEF NetShape
  <2> HIDE DEF taken
  <2>2. taken.pipe = [e \in Peer \X Peer |-> IF e = <<from, to>> THEN Tail(pipe) ELSE links.pipe[e]]
    BY <1>1, <2>1
  <2> QED
    BY <2>1, <2>2
<1> HIDE DEF taken, pipe
<1>6. /\ NetShape(forwarded) /\ forwarded.inbox = links.inbox /\ forwarded.lost = links.lost
      /\ forwarded.pipe = [e \in Peer \X Peer |->
           IF k.everyone /\ to = 0 /\ e[1] = 0 /\ e[2] \in targets
           THEN Append(taken.pipe[e], Packet(k.origin, FALSE, k.message)) ELSE taken.pipe[e]]
  <2>1. CASE ~ (k.everyone /\ to = 0)
    BY <1>5, <2>1
  <2>2. CASE k.everyone /\ to = 0
    <3>1. forwarded = TransmitAll(taken, 0, targets, Packet(k.origin, FALSE, k.message))
      BY <2>2
    <3> HIDE DEF targets, forwarded
    <3>2. forwarded.pipe = [e \in Peer \X Peer |->
            IF e[1] = 0 /\ e[2] \in targets
            THEN Append(taken.pipe[e], Packet(k.origin, FALSE, k.message)) ELSE taken.pipe[e]]
      BY <1>5, <3>1 DEF TransmitAll
    <3>3. NetShape(forwarded) /\ forwarded.inbox = links.inbox /\ forwarded.lost = links.lost
      BY <1>5, <3>1 DEF TransmitAll, NetShape
    <3> QED
      BY <2>2, <3>2, <3>3
  <2> QED
    BY <2>1, <2>2
<1> HIDE DEF forwarded
<1>7. /\ NetShape(after) /\ after.pipe = forwarded.pipe /\ after.lost = links.lost
      /\ \/ after.inbox = links.inbox
         \/ after.inbox = [links.inbox EXCEPT ![<<to, k.origin>>] = Append(@, k.message)]
  BY <1>4, <1>6 DEF Push, NetShape
<1>8. ASSUME NEW e \in Peer \X Peer
      PROVE  after.pipe[e] = IF k.everyone /\ to = 0 /\ e[1] = 0 /\ e[2] \in targets
              THEN Append(taken.pipe[e], Packet(k.origin, FALSE, k.message)) ELSE taken.pipe[e]
  <2>1. forwarded.pipe[e] = IF k.everyone /\ to = 0 /\ e[1] = 0 /\ e[2] \in targets
          THEN Append(taken.pipe[e], Packet(k.origin, FALSE, k.message)) ELSE taken.pipe[e]
    BY <1>6
  <2> QED
    BY <1>7, <2>1
<1>9. /\ after.inbox = [e \in Peer \X Peer |-> after.inbox[e]]
      /\ \A e \in Peer \X Peer :
           \/ after.inbox[e] = links.inbox[e]
           \/ e = <<to, k.origin>> /\ after.inbox[e] = Append(links.inbox[e], k.message)
  BY <1>1, <1>7
<1>10. \A e \in targets : e # k.origin /\ e # 0
  BY DEF Others
<1> HIDE DEF targets
<1>11. /\ after.pipe = [e \in Peer \X Peer |-> after.pipe[e]]
       /\ after.pipe[<<from, to>>] = Tail(pipe)
       /\ \A e \in Peer \X Peer : e # <<from, to>> =>
            \/ after.pipe[e] = links.pipe[e]
            \/ /\ k.everyone /\ to = 0 /\ e[1] = 0 /\ e[2] # k.origin /\ e[2] # 0
               /\ after.pipe[e] = Append(links.pipe[e], Packet(k.origin, FALSE, k.message))
  <2>1. after.pipe = [e \in Peer \X Peer |-> after.pipe[e]]
    BY <1>6, <1>7
  <2>2. after.pipe[<<from, to>>] = Tail(pipe)
    <3>1. PICK e \in Peer \X Peer : e = <<from, to>> /\ e[1] = from /\ e[2] = to
      OBVIOUS
    <3>2. taken.pipe[e] = Tail(pipe)
      BY <1>5, <3>1
    <3>4. ~ (to = 0 /\ e[1] = 0)
      BY <3>1
    <3>3. after.pipe[e] = IF k.everyone /\ to = 0 /\ e[1] = 0 /\ e[2] \in targets
            THEN Append(taken.pipe[e], Packet(k.origin, FALSE, k.message)) ELSE taken.pipe[e]
      BY <1>8
    <3> QED
      BY <3>1, <3>2, <3>3, <3>4
  <2>3. ASSUME NEW e \in Peer \X Peer, e # <<from, to>>
        PROVE  \/ after.pipe[e] = links.pipe[e]
               \/ /\ k.everyone /\ to = 0 /\ e[1] = 0 /\ e[2] # k.origin /\ e[2] # 0
                  /\ after.pipe[e] = Append(links.pipe[e], Packet(k.origin, FALSE, k.message))
    <3>1. taken.pipe[e] = links.pipe[e]
      BY <1>5, <2>3
    <3>2. after.pipe[e] = IF k.everyone /\ to = 0 /\ e[1] = 0 /\ e[2] \in targets
            THEN Append(taken.pipe[e], Packet(k.origin, FALSE, k.message)) ELSE taken.pipe[e]
      BY <1>8
    <3> QED
      BY <1>10, <3>1, <3>2
  <2> QED
    BY <2>1, <2>2, <2>3
<1>12. k.everyone => Topology # "Mesh" /\ to = 0
  BY <1>3 DEF Routed
<1> QED
  BY <1>3, <1>7, <1>9, <1>11, <1>12 DEF pipe, Delivery

\* Where the pipes that carry what o says to p are.
LEMMA ViaIs ==
  ASSUME NEW p \in Peer, NEW o \in Peer, p # o
  PROVE  /\ Via(p, o) \in Peer /\ Via(p, o) # p
         /\ Relayed(p, o) => /\ 0 \in Peer /\ Via(p, o) = 0 /\ o # 0 /\ p # 0 /\ Topology # "Mesh"
                             /\ <<o, 0>> \in Peer \X Peer
         /\ ~ Relayed(p, o) => Via(p, o) = o
         /\ <<p, o>> \in Peer \X Peer /\ <<Via(p, o), p>> \in Peer \X Peer
<1>1. 0 \in Peer
  <2>1. PeerCount \in Nat /\ Peer = 0 .. (PeerCount - 1)
    BY PeersCounted
  <2> QED
    BY <2>1
<1> QED
  BY <1>1 DEF Via, Relayed

\* Where each message from one origin to one end was: in a[i] for the i-th that
\* is filed, in b[i] and c[i] for those in the pipes.
PlacedAs(links, in, near, far, p, o, from, message, a, b, c) ==
  LET Was(m, slot) ==
        \/ slot \in Slots(links, p, o) /\ m = MessageAt(links, p, o, slot)
        \/ o = from /\ slot = <<"new", 0>> /\ m = message
  IN  /\ \A i \in DOMAIN in : Was(in[i], a[i])
      /\ \A i \in DOMAIN near : near[i].origin = o => Was(near[i].message, b[i])
      /\ \A i, j \in DOMAIN in : a[i] = a[j] => i = j
      /\ \A i, j \in DOMAIN near : near[i].origin = o /\ near[j].origin = o /\ b[i] = b[j] => i = j
      /\ \A i \in DOMAIN in, j \in DOMAIN near : near[j].origin = o => a[i] # b[j]
      /\ Relayed(p, o) =>
           /\ \A i \in DOMAIN far : Was(far[i].message, c[i])
           /\ \A i, j \in DOMAIN far : c[i] = c[j] => i = j
           /\ \A i \in DOMAIN far, j \in DOMAIN in : a[j] # c[i]
           /\ \A i \in DOMAIN far, j \in DOMAIN near : near[j].origin = o => b[j] # c[i]

Placed(links, after, p, o, from, message, a, b, c) ==
  PlacedAs(links, after.inbox[<<p, o>>], after.pipe[<<Via(p, o), p>>], after.pipe[<<o, 0>>],
           p, o, from, message, a, b, c)

\* Every place a delivery fills held the same message before.
LEMMA FromSlots ==
  ASSUME NEW links, NEW after, NEW p, NEW o, NEW from, NEW message, NEW a, NEW b, NEW c,
         Placed(links, after, p, o, from, message, a, b, c)
  PROVE  \E f : From(links, after, p, o, from, message, f)
<1>0. PICK in, near, far : /\ in = after.inbox[<<p, o>>]
                           /\ near = after.pipe[<<Via(p, o), p>>]
                           /\ far = after.pipe[<<o, 0>>]
  OBVIOUS
<1> DEFINE Was(m, slot) == \/ slot \in Slots(links, p, o) /\ m = MessageAt(links, p, o, slot)
                           \/ o = from /\ slot = <<"new", 0>> /\ m = message
<1>p. /\ \A i \in DOMAIN in : Was(in[i], a[i])
      /\ \A i \in DOMAIN near : near[i].origin = o => Was(near[i].message, b[i])
      /\ \A i, j \in DOMAIN in : a[i] = a[j] => i = j
      /\ \A i, j \in DOMAIN near : near[i].origin = o /\ near[j].origin = o /\ b[i] = b[j] => i = j
      /\ \A i \in DOMAIN in, j \in DOMAIN near : near[j].origin = o => a[i] # b[j]
      /\ Relayed(p, o) =>
           /\ \A i \in DOMAIN far : Was(far[i].message, c[i])
           /\ \A i, j \in DOMAIN far : c[i] = c[j] => i = j
           /\ \A i \in DOMAIN far, j \in DOMAIN in : a[j] # c[i]
           /\ \A i \in DOMAIN far, j \in DOMAIN near : near[j].origin = o => b[j] # c[i]
  BY <1>0 DEF Placed, PlacedAs
<1> DEFINE f == [s \in Slots(after, p, o) |->
                   IF s[1] = "in" THEN a[s[2]] ELSE IF s[1] = "near" THEN b[s[2]] ELSE c[s[2]]]
<1>1. \A s : s \in Slots(after, p, o) <=>
           \/ \E i \in DOMAIN in : s = <<"in", i>>
           \/ \E i \in DOMAIN near : s = <<"near", i>> /\ near[i].origin = o
           \/ Relayed(p, o) /\ \E i \in DOMAIN far : s = <<"far", i>>
  BY <1>0 DEF Slots, MessageAt
<1>2. \A i : /\ MessageAt(after, p, o, <<"in", i>>) = in[i]
             /\ MessageAt(after, p, o, <<"near", i>>) = near[i].message
             /\ MessageAt(after, p, o, <<"far", i>>) = far[i].message
  BY <1>0 DEF Slots, MessageAt
<1>3. \A i : <<"in", i>> \in Slots(after, p, o) => f[<<"in", i>>] = a[i]
  OBVIOUS
<1>4. \A i : <<"near", i>> \in Slots(after, p, o) => f[<<"near", i>>] = b[i]
  OBVIOUS
<1>5. \A i : <<"far", i>> \in Slots(after, p, o) => f[<<"far", i>>] = c[i]
  OBVIOUS
<1> HIDE DEF f
<1>6. ASSUME NEW s \in Slots(after, p, o)
      PROVE  \/ f[s] \in Slots(links, p, o) /\ MessageAt(after, p, o, s) = MessageAt(links, p, o, f[s])
             \/ o = from /\ f[s] = <<"new", 0>> /\ MessageAt(after, p, o, s) = message
  <2>1. CASE \E i \in DOMAIN in : s = <<"in", i>>
    BY <1>p, <1>2, <1>3, <1>6, <2>1
  <2>2. CASE \E i \in DOMAIN near : s = <<"near", i>> /\ near[i].origin = o
    BY <1>p, <1>2, <1>4, <1>6, <2>2
  <2>3. CASE Relayed(p, o) /\ \E i \in DOMAIN far : s = <<"far", i>>
    BY <1>p, <1>2, <1>5, <1>6, <2>3
  <2> QED
    BY <1>1, <1>6, <2>1, <2>2, <2>3
<1>7. ASSUME NEW s \in Slots(after, p, o), NEW r \in Slots(after, p, o), f[s] = f[r]
      PROVE  s = r
  <2>1. CASE \E i \in DOMAIN in : s = <<"in", i>>
    BY <1>p, <1>1, <1>3, <1>4, <1>5, <1>7, <2>1
  <2>2. CASE \E i \in DOMAIN near : s = <<"near", i>> /\ near[i].origin = o
    BY <1>p, <1>1, <1>3, <1>4, <1>5, <1>7, <2>2
  <2>3. CASE Relayed(p, o) /\ \E i \in DOMAIN far : s = <<"far", i>>
    BY <1>p, <1>1, <1>3, <1>4, <1>5, <1>7, <2>3
  <2> QED
    BY <1>1, <1>7, <2>1, <2>2, <2>3
<1> QED
  BY <1>6, <1>7 DEF From

\* A delivery moves messages on and makes none.
LEMMA DeliverMoves ==
  ASSUME NEW links, NetOK(links), NEW from \in Peer, NEW to \in Peer, from # to,
         NEW first, first = links.pipe[<<from, to>>], Len(first) > 0,
         NEW after, after = Deliver(links, from, to)
  PROVE  /\ NetOK(after) /\ Moves(links, after) /\ after.lost = links.lost
         /\ Len(after.pipe[<<from, to>>]) = Len(first) - 1
         /\ \A e \in Peer \X Peer : e[2] = to /\ e # <<from, to>> => after.pipe[e] = links.pipe[e]
<1>0. PICK k : k = first[1] /\ k = links.pipe[<<from, to>>][1]
  OBVIOUS
<1> DEFINE handed == Packet(k.origin, FALSE, k.message)
           longer(e) == Append(links.pipe[e], handed)
           filed(e) == Append(links.inbox[e], k.message)
           rest == Tail(first)
<1>1. /\ NetShape(after) /\ after.lost = links.lost /\ Routed(k, from, to)
      /\ after.inbox = [e \in Peer \X Peer |-> after.inbox[e]]
      /\ after.pipe = [e \in Peer \X Peer |-> after.pipe[e]]
      /\ \A e \in Peer \X Peer :
           \/ after.inbox[e] = links.inbox[e]
           \/ e = <<to, k.origin>> /\ after.inbox[e] = filed(e)
      /\ after.pipe[<<from, to>>] = rest
      /\ \A e \in Peer \X Peer : e # <<from, to>> =>
           \/ after.pipe[e] = links.pipe[e]
           \/ /\ Topology # "Mesh" /\ to = 0 /\ e[1] = 0 /\ e[2] # k.origin /\ e[2] # 0
              /\ after.pipe[e] = longer(e)
  <2>1. Delivery(links, after, from, to, k)
    BY <1>0, DeliverIs
  <2> QED
    BY <2>1 DEF Delivery
<1>2. /\ \A e \in Peer \X Peer : Listed(links.pipe[e]) /\ Listed(links.inbox[e])
      /\ \A f, t \in Peer : \A i \in DOMAIN links.pipe[<<f, t>>] : Routed(links.pipe[<<f, t>>][i], f, t)
      /\ <<from, to>> \in Peer \X Peer
  BY DEF NetOK
<1>3. /\ Listed(rest) /\ Len(rest) = Len(first) - 1 /\ Len(first) \in Nat
      /\ DOMAIN rest = 1 .. (Len(first) - 1) /\ DOMAIN first = 1 .. Len(first)
      /\ \A i \in 1 .. (Len(first) - 1) : rest[i] = first[i + 1]
  BY <1>2, TailIs, ListedIs
<1>4. /\ k.origin \in Peer /\ k.origin # to /\ from = Via(to, k.origin)
  BY <1>1 DEF Routed
<1>5. handed.origin = k.origin /\ handed.message = k.message /\ handed.everyone = FALSE
  BY DEF Packet
<1> HIDE DEF handed
<1>6. ASSUME NEW e \in Peer \X Peer
      PROVE  /\ Listed(longer(e))
             /\ Len(longer(e)) = Len(links.pipe[e]) + 1
             /\ DOMAIN longer(e) = 1 .. (Len(links.pipe[e]) + 1)
             /\ \A i \in 1 .. Len(links.pipe[e]) : longer(e)[i] = links.pipe[e][i]
             /\ longer(e)[Len(links.pipe[e]) + 1] = handed
             /\ Len(links.pipe[e]) \in Nat /\ DOMAIN links.pipe[e] = 1 .. Len(links.pipe[e])
  <2>1. Listed(links.pipe[e])
    BY <1>2
  <2> QED
    BY <2>1, AppendIs, ListedIs
<1>7. ASSUME NEW e \in Peer \X Peer
      PROVE  /\ Listed(filed(e))
             /\ DOMAIN filed(e) = 1 .. (Len(links.inbox[e]) + 1)
             /\ \A i \in 1 .. Len(links.inbox[e]) :
                  filed(e)[i] = links.inbox[e][i]
             /\ filed(e)[Len(links.inbox[e]) + 1] = k.message
             /\ Len(links.inbox[e]) \in Nat /\ DOMAIN links.inbox[e] = 1 .. Len(links.inbox[e])
  <2>1. Listed(links.inbox[e])
    BY <1>2
  <2> QED
    BY <2>1, AppendIs, ListedIs
<1> HIDE DEF longer, filed, rest
<1>8. NetOK(after)
  <2>1. \A e \in Peer \X Peer : Listed(after.pipe[e]) /\ Listed(after.inbox[e])
    BY <1>1, <1>2, <1>3, <1>6, <1>7
  <2>2. ASSUME NEW f \in Peer, NEW t \in Peer, NEW i \in DOMAIN after.pipe[<<f, t>>]
        PROVE  Routed(after.pipe[<<f, t>>][i], f, t)
    <3>0. PICK e \in Peer \X Peer : e = <<f, t>> /\ e[1] = f /\ e[2] = t
      OBVIOUS
    <3>1. CASE e = <<from, to>>
      <4>1. f = from /\ t = to /\ after.pipe[e] = rest
        BY <1>1, <3>0, <3>1
      <4>2. after.pipe[<<f, t>>] = rest /\ i \in DOMAIN rest
        BY <2>2, <3>0, <4>1
      <4>4. i \in 1 .. (Len(first) - 1)
        BY <1>3, <4>2
      <4>5. rest[i] = first[i + 1] /\ i + 1 \in DOMAIN first
        BY <1>3, <4>4
      <4>6. Routed(first[i + 1], from, to)
        BY <1>2, <4>5
      <4> QED
        BY <4>1, <4>2, <4>5, <4>6
    <3>2. CASE after.pipe[e] = links.pipe[e]
      BY <1>2, <2>2, <3>0, <3>2
    <3>3. CASE /\ Topology # "Mesh" /\ to = 0 /\ f = 0 /\ t # k.origin /\ t # 0
               /\ after.pipe[e] = longer(e)
      <4>1. CASE i = Len(links.pipe[e]) + 1
        <5>1. after.pipe[<<f, t>>][i] = handed
          BY <1>6, <3>0, <3>3, <4>1
        <5>2. Routed(handed, f, t)
          BY <1>4, <1>5, <3>3 DEF Routed, Via, handed
        <5> QED
          BY <5>1, <5>2
      <4>2. CASE i # Len(links.pipe[e]) + 1
        <5>0. i \in DOMAIN longer(e) /\ after.pipe[e] = longer(e)
          BY <2>2, <3>0, <3>3
        <5>2. i \in 1 .. Len(links.pipe[e])
          BY <1>6, <4>2, <5>0
        <5>1. i \in DOMAIN links.pipe[e] /\ after.pipe[e][i] = links.pipe[e][i]
          BY <1>6, <5>0, <5>2
        <5> QED
          BY <1>2, <3>0, <5>1
      <4> QED
        BY <4>1, <4>2
    <3> QED
      BY <1>1, <3>0, <3>1, <3>2, <3>3
  <2> QED
    BY <1>1, <2>1, <2>2 DEF NetOK
<1>9. ASSUME NEW p \in Peer, NEW o \in Peer, p # o
      PROVE  \E f : From(links, after, p, o, Nobody, 0, f)
  <2>0. PICK v, x, y, z : v = Via(p, o) /\ x = <<p, o>> /\ y = <<v, p>> /\ z = <<o, 0>>
    OBVIOUS
  <2>1. PICK in, near, far : in = links.inbox[x] /\ near = links.pipe[y] /\ far = links.pipe[z]
    OBVIOUS
  <2>2. /\ v \in Peer /\ v # p /\ x \in Peer \X Peer /\ y \in Peer \X Peer
        /\ Relayed(p, o) => z \in Peer \X Peer /\ v = 0 /\ o # 0 /\ p # 0 /\ Topology # "Mesh"
        /\ ~ Relayed(p, o) => v = o
        /\ x[1] = p /\ x[2] = o /\ y[1] = v /\ y[2] = p /\ z[1] = o /\ z[2] = 0
    BY <1>9, <2>0, ViaIs
  <2>3. /\ \A i \in DOMAIN in : <<"in", i>> \in Slots(links, p, o) /\ MessageAt(links, p, o, <<"in", i>>) = in[i]
        /\ \A i \in DOMAIN near : near[i].origin = o =>
             <<"near", i>> \in Slots(links, p, o) /\ MessageAt(links, p, o, <<"near", i>>) = near[i].message
        /\ Relayed(p, o) => \A i \in DOMAIN far :
             <<"far", i>> \in Slots(links, p, o) /\ MessageAt(links, p, o, <<"far", i>>) = far[i].message
    BY <2>0, <2>1 DEF Slots, MessageAt
  <2>4. PICK in2, near2, far2 : in2 = after.inbox[x] /\ near2 = after.pipe[y] /\ far2 = after.pipe[z]
    OBVIOUS
  <2>5. /\ Len(in) \in Nat /\ DOMAIN in = 1 .. Len(in)
        /\ Len(near) \in Nat /\ DOMAIN near = 1 .. Len(near)
        /\ Relayed(p, o) => Len(far) \in Nat /\ DOMAIN far = 1 .. Len(far)
    BY <1>6, <1>7, <2>1, <2>2
  <2>6. CASE to = p /\ k.origin = o
    <3>1. from = v /\ y = <<from, to>> /\ near = first /\ near2 = rest
      BY <1>1, <1>4, <2>0, <2>1, <2>4, <2>6
    <3>2. \/ in2 = in
          \/ in2 = filed(x)
      BY <1>1, <2>1, <2>2, <2>4
    <3>3. Relayed(p, o) => far2 = far
      <4> SUFFICES ASSUME Relayed(p, o) PROVE far2 = far
        OBVIOUS
      <4>1. z # <<from, to>> /\ to # 0
        BY <2>2, <2>6
      <4> QED
        BY <1>1, <2>1, <2>2, <2>4, <4>1
    <3>4. /\ DOMAIN near2 = 1 .. (Len(near) - 1) /\ \A i \in 1 .. (Len(near) - 1) : near2[i] = near[i + 1]
          /\ Len(near) > 0 /\ near[1] = k
      BY <1>0, <1>3, <3>1
    <3>5. /\ DOMAIN in2 = 1 .. Len(in) \/ DOMAIN in2 = 1 .. (Len(in) + 1)
          /\ \A i \in 1 .. Len(in) : in2[i] = in[i]
          /\ \A i \in DOMAIN in2 : i \notin 1 .. Len(in) => i = Len(in) + 1 /\ in2[i] = k.message
      BY <1>7, <2>1, <2>2, <2>5, <3>2
    <3>6. PICK a : a = [i \in DOMAIN in2 |-> IF i \in 1 .. Len(in) THEN <<"in", i>> ELSE <<"near", 1>>]
      OBVIOUS
    <3>7. PICK b : b = [i \in DOMAIN near2 |-> <<"near", i + 1>>]
      OBVIOUS
    <3>8. PICK c : c = [i \in DOMAIN far2 |-> <<"far", i>>]
      OBVIOUS
    <3>9. ASSUME NEW i \in DOMAIN in2
          PROVE  a[i] \in Slots(links, p, o) /\ in2[i] = MessageAt(links, p, o, a[i])
      <4>1. CASE i \in 1 .. Len(in)
        BY <2>3, <2>5, <3>5, <3>6, <4>1
      <4>2. CASE i \notin 1 .. Len(in)
        <5>1. a[i] = <<"near", 1>> /\ in2[i] = near[1].message
          BY <3>4, <3>5, <3>6, <4>2
        <5>2. 1 \in DOMAIN near /\ near[1].origin = o
          BY <2>5, <2>6, <3>4
        <5>3. <<"near", 1>> \in Slots(links, p, o) /\ MessageAt(links, p, o, <<"near", 1>>) = near[1].message
          BY <2>3, <5>2
        <5> QED
          BY <5>1, <5>3
      <4> QED
        BY <4>1, <4>2
    <3>10. ASSUME NEW i \in DOMAIN near2, near2[i].origin = o
           PROVE  b[i] \in Slots(links, p, o) /\ near2[i].message = MessageAt(links, p, o, b[i])
      <4>1. i + 1 \in DOMAIN near /\ near2[i] = near[i + 1] /\ b[i] = <<"near", i + 1>>
        BY <2>5, <3>4, <3>7
      <4> QED
        BY <2>3, <3>10, <4>1
    <3>11. Relayed(p, o) => \A i \in DOMAIN far2 :
             c[i] \in Slots(links, p, o) /\ far2[i].message = MessageAt(links, p, o, c[i])
      BY <2>3, <3>3, <3>8
    <3>12. /\ \A i, j \in DOMAIN in2 : a[i] = a[j] => i = j
           /\ \A i, j \in DOMAIN near2 : b[i] = b[j] => i = j
           /\ \A i, j \in DOMAIN far2 : c[i] = c[j] => i = j
           /\ \A i \in DOMAIN in2, j \in DOMAIN near2 : a[i] # b[j]
           /\ \A i \in DOMAIN in2, j \in DOMAIN far2 : a[i] # c[j]
           /\ \A i \in DOMAIN near2, j \in DOMAIN far2 : b[i] # c[j]
      <4>1. \A i, j \in DOMAIN in2 : a[i] = a[j] => i = j
        BY <2>5, <3>4, <3>5, <3>6, <3>7, <3>8
      <4>2. \A i, j \in DOMAIN near2 : b[i] = b[j] => i = j
        BY <2>5, <3>4, <3>5, <3>6, <3>7, <3>8
      <4>3. \A i, j \in DOMAIN far2 : c[i] = c[j] => i = j
        BY <2>5, <3>4, <3>5, <3>6, <3>7, <3>8
      <4>4. \A i \in DOMAIN in2, j \in DOMAIN near2 : a[i] # b[j]
        BY <2>5, <3>4, <3>5, <3>6, <3>7, <3>8
      <4>5. \A i \in DOMAIN in2, j \in DOMAIN far2 : a[i] # c[j]
        BY <2>5, <3>4, <3>5, <3>6, <3>7, <3>8
      <4>6. \A i \in DOMAIN near2, j \in DOMAIN far2 : b[i] # c[j]
        BY <2>5, <3>4, <3>5, <3>6, <3>7, <3>8
      <4> QED
        BY <4>1, <4>2, <4>3, <4>4, <4>5, <4>6
    <3>13. Placed(links, after, p, o, Nobody, 0, a, b, c)
      <4>1. PlacedAs(links, in2, near2, far2, p, o, Nobody, 0, a, b, c)
        BY <3>9, <3>10, <3>11, <3>12 DEF PlacedAs
      <4> QED
        BY <2>0, <2>4, <4>1 DEF Placed
    <3> QED
      BY <3>13, FromSlots
  <2>7. CASE to = p /\ k.origin # o
    <3>1. in2 = in
      BY <1>1, <2>1, <2>2, <2>4, <2>7
    <3>2. Relayed(p, o) => far2 = far
      <4> SUFFICES ASSUME Relayed(p, o) PROVE far2 = far
        OBVIOUS
      <4>1. z # <<from, to>> /\ to # 0
        BY <2>2, <2>7
      <4> QED
        BY <1>1, <2>1, <2>2, <2>4, <4>1
    <3>3. PICK d \in {0, 1} : /\ \A i \in DOMAIN near2 : i + d \in DOMAIN near /\ near2[i] = near[i + d]
                              /\ DOMAIN near2 \subseteq Nat
      <4>1. CASE v = from
        <5>1. y = <<from, to>> /\ near = first /\ near2 = rest
          BY <1>1, <2>0, <2>1, <2>4, <2>7, <4>1
        <5>2. \A i \in DOMAIN near2 : i + 1 \in DOMAIN near /\ near2[i] = near[i + 1]
          BY <1>3, <5>1
        <5>3. DOMAIN near2 \subseteq Nat
          BY <1>3, <5>1
        <5>4. 1 \in {0, 1}
          OBVIOUS
        <5> QED
          BY <5>2, <5>3, <5>4
      <4>2. CASE v # from
        <5>1. y # <<from, to>>
          BY <2>2, <4>2
        <5>2. near2 = near
          BY <1>1, <2>1, <2>2, <2>4, <2>7, <5>1
        <5> QED
          BY <2>5, <5>2
      <4> QED
        BY <4>1, <4>2
    <3>6. PICK a : a = [i \in DOMAIN in2 |-> <<"in", i>>]
      OBVIOUS
    <3>7. PICK b : b = [i \in DOMAIN near2 |-> <<"near", i + d>>]
      OBVIOUS
    <3>8. PICK c : c = [i \in DOMAIN far2 |-> <<"far", i>>]
      OBVIOUS
    <3>9. \A i \in DOMAIN in2 : a[i] \in Slots(links, p, o) /\ in2[i] = MessageAt(links, p, o, a[i])
      BY <2>3, <3>1, <3>6
    <3>10. \A i \in DOMAIN near2 : near2[i].origin = o =>
             b[i] \in Slots(links, p, o) /\ near2[i].message = MessageAt(links, p, o, b[i])
      BY <2>3, <3>3, <3>7
    <3>11. Relayed(p, o) => \A i \in DOMAIN far2 :
             c[i] \in Slots(links, p, o) /\ far2[i].message = MessageAt(links, p, o, c[i])
      BY <2>3, <3>2, <3>8
    <3>12. /\ \A i, j \in DOMAIN in2 : a[i] = a[j] => i = j
           /\ \A i, j \in DOMAIN near2 : b[i] = b[j] => i = j
           /\ \A i, j \in DOMAIN far2 : c[i] = c[j] => i = j
           /\ \A i \in DOMAIN in2, j \in DOMAIN near2 : a[i] # b[j]
           /\ \A i \in DOMAIN in2, j \in DOMAIN far2 : a[i] # c[j]
           /\ \A i \in DOMAIN near2, j \in DOMAIN far2 : b[i] # c[j]
      <4>1. \A i, j \in DOMAIN in2 : a[i] = a[j] => i = j
        BY <3>3, <3>6, <3>7, <3>8
      <4>2. \A i, j \in DOMAIN near2 : b[i] = b[j] => i = j
        BY <3>3, <3>6, <3>7, <3>8
      <4>3. \A i, j \in DOMAIN far2 : c[i] = c[j] => i = j
        BY <3>3, <3>6, <3>7, <3>8
      <4>4. \A i \in DOMAIN in2, j \in DOMAIN near2 : a[i] # b[j]
        BY <3>3, <3>6, <3>7, <3>8
      <4>5. \A i \in DOMAIN in2, j \in DOMAIN far2 : a[i] # c[j]
        BY <3>3, <3>6, <3>7, <3>8
      <4>6. \A i \in DOMAIN near2, j \in DOMAIN far2 : b[i] # c[j]
        BY <3>3, <3>6, <3>7, <3>8
      <4> QED
        BY <4>1, <4>2, <4>3, <4>4, <4>5, <4>6
    <3>13. Placed(links, after, p, o, Nobody, 0, a, b, c)
      <4>1. PlacedAs(links, in2, near2, far2, p, o, Nobody, 0, a, b, c)
        BY <3>9, <3>10, <3>11, <3>12 DEF PlacedAs
      <4> QED
        BY <2>0, <2>4, <4>1 DEF Placed
    <3> QED
      BY <3>13, FromSlots
  <2>8. CASE to # p
    <3>1. in2 = in
      BY <1>1, <2>1, <2>2, <2>4, <2>8
    <3>2. y # <<from, to>>
      BY <2>2, <2>8
    <3>3. \/ near2 = near
          \/ Topology # "Mesh" /\ to = 0 /\ v = 0 /\ p # k.origin /\ p # 0 /\ near2 = longer(y)
      BY <1>1, <2>1, <2>2, <2>4, <3>2
    <3>4. /\ DOMAIN near2 = 1 .. Len(near) \/ DOMAIN near2 = 1 .. (Len(near) + 1)
          /\ \A i \in 1 .. Len(near) : near2[i] = near[i]
          /\ \A i \in DOMAIN near2 : i \notin 1 .. Len(near) =>
               /\ near2[i] = handed /\ i = Len(near) + 1
               /\ Topology # "Mesh" /\ to = 0 /\ v = 0 /\ p # k.origin /\ p # 0
      BY <1>6, <2>1, <2>2, <2>5, <3>3
    <3>5. CASE Relayed(p, o) /\ from = o /\ to = 0
      <4>0. k.origin = o
        BY <1>4, <3>5 DEF Via
      <4>1. z = <<from, to>> /\ far = first /\ far2 = rest /\ far[1] = k
        BY <1>0, <1>1, <2>0, <2>1, <2>4, <3>5
      <4>2. /\ DOMAIN far2 = 1 .. (Len(far) - 1) /\ \A i \in 1 .. (Len(far) - 1) : far2[i] = far[i + 1]
            /\ Len(far) > 0 /\ Len(far) \in Nat /\ DOMAIN far = 1 .. Len(far)
        BY <1>3, <4>1
      <4>6. PICK a : a = [i \in DOMAIN in2 |-> <<"in", i>>]
        OBVIOUS
      <4>7. PICK b : b = [i \in DOMAIN near2 |-> IF i \in 1 .. Len(near) THEN <<"near", i>> ELSE <<"far", 1>>]
        OBVIOUS
      <4>8. PICK c : c = [i \in DOMAIN far2 |-> <<"far", i + 1>>]
        OBVIOUS
      <4>9. \A i \in DOMAIN in2 : a[i] \in Slots(links, p, o) /\ in2[i] = MessageAt(links, p, o, a[i])
        BY <2>3, <3>1, <4>6
      <4>10. \A i \in DOMAIN near2 : near2[i].origin = o =>
               b[i] \in Slots(links, p, o) /\ near2[i].message = MessageAt(links, p, o, b[i])
        <5> SUFFICES ASSUME NEW i \in DOMAIN near2, near2[i].origin = o
                     PROVE  b[i] \in Slots(links, p, o) /\ near2[i].message = MessageAt(links, p, o, b[i])
          OBVIOUS
        <5>1. CASE i \in 1 .. Len(near)
          BY <2>3, <2>5, <3>4, <4>7, <5>1
        <5>2. CASE i \notin 1 .. Len(near)
          <6>1. b[i] = <<"far", 1>> /\ near2[i].message = far[1].message /\ 1 \in DOMAIN far
            BY <1>5, <3>4, <4>1, <4>2, <4>7, <5>2
          <6> QED
            BY <2>3, <3>5, <6>1
        <5> QED
          BY <5>1, <5>2
      <4>11. Relayed(p, o) => \A i \in DOMAIN far2 :
               c[i] \in Slots(links, p, o) /\ far2[i].message = MessageAt(links, p, o, c[i])
        BY <2>3, <4>2, <4>8
      <4>12. /\ \A i, j \in DOMAIN in2 : a[i] = a[j] => i = j
             /\ \A i, j \in DOMAIN near2 : b[i] = b[j] => i = j
             /\ \A i, j \in DOMAIN far2 : c[i] = c[j] => i = j
             /\ \A i \in DOMAIN in2, j \in DOMAIN near2 : a[i] # b[j]
             /\ \A i \in DOMAIN in2, j \in DOMAIN far2 : a[i] # c[j]
             /\ \A i \in DOMAIN near2, j \in DOMAIN far2 : b[i] # c[j]
        <5>1. \A i, j \in DOMAIN in2 : a[i] = a[j] => i = j
          BY <2>5, <3>4, <4>2, <4>6, <4>7, <4>8
        <5>2. \A i, j \in DOMAIN near2 : b[i] = b[j] => i = j
          BY <2>5, <3>4, <4>2, <4>6, <4>7, <4>8
        <5>3. \A i, j \in DOMAIN far2 : c[i] = c[j] => i = j
          BY <2>5, <3>4, <4>2, <4>6, <4>7, <4>8
        <5>4. \A i \in DOMAIN in2, j \in DOMAIN near2 : a[i] # b[j]
          BY <2>5, <3>4, <4>2, <4>6, <4>7, <4>8
        <5>5. \A i \in DOMAIN in2, j \in DOMAIN far2 : a[i] # c[j]
          BY <2>5, <3>4, <4>2, <4>6, <4>7, <4>8
        <5>6. \A i \in DOMAIN near2, j \in DOMAIN far2 : b[i] # c[j]
          BY <2>5, <3>4, <4>2, <4>6, <4>7, <4>8
        <5> QED
          BY <5>1, <5>2, <5>3, <5>4, <5>5, <5>6
      <4>13. Placed(links, after, p, o, Nobody, 0, a, b, c)
        <5>1. PlacedAs(links, in2, near2, far2, p, o, Nobody, 0, a, b, c)
          BY <4>9, <4>10, <4>11, <4>12 DEF PlacedAs
        <5> QED
          BY <2>0, <2>4, <5>1 DEF Placed
      <4> QED
        BY <4>13, FromSlots
    <3>6. CASE ~ (Relayed(p, o) /\ from = o /\ to = 0)
      <4>1. Relayed(p, o) => far2 = far
        <5> SUFFICES ASSUME Relayed(p, o) PROVE far2 = far
          OBVIOUS
        <5>1. z # <<from, to>>
          BY <2>2, <3>6
        <5> QED
          BY <1>1, <2>1, <2>2, <2>4, <5>1
      <4>2. \A i \in DOMAIN near2 : near2[i].origin = o => i \in DOMAIN near /\ near2[i] = near[i]
        <5> SUFFICES ASSUME NEW i \in DOMAIN near2, near2[i].origin = o, i \notin 1 .. Len(near)
                     PROVE  FALSE
          BY <2>5, <3>4
        <5>1. k.origin = o /\ to = 0 /\ Topology # "Mesh" /\ p # 0
          BY <1>5, <3>4
        <5>2. from = o /\ o # 0
          BY <1>4, <5>1 DEF Via
        <5> QED
          BY <3>6, <5>1, <5>2 DEF Relayed
      <4>6. PICK a : a = [i \in DOMAIN in2 |-> <<"in", i>>]
        OBVIOUS
      <4>7. PICK b : b = [i \in DOMAIN near2 |-> <<"near", i>>]
        OBVIOUS
      <4>8. PICK c : c = [i \in DOMAIN far2 |-> <<"far", i>>]
        OBVIOUS
      <4>9. \A i \in DOMAIN in2 : a[i] \in Slots(links, p, o) /\ in2[i] = MessageAt(links, p, o, a[i])
        BY <2>3, <3>1, <4>6
      <4>10. \A i \in DOMAIN near2 : near2[i].origin = o =>
               b[i] \in Slots(links, p, o) /\ near2[i].message = MessageAt(links, p, o, b[i])
        BY <2>3, <4>2, <4>7
      <4>11. Relayed(p, o) => \A i \in DOMAIN far2 :
               c[i] \in Slots(links, p, o) /\ far2[i].message = MessageAt(links, p, o, c[i])
        BY <2>3, <4>1, <4>8
      <4>12. /\ \A i, j \in DOMAIN in2 : a[i] = a[j] => i = j
             /\ \A i, j \in DOMAIN near2 : b[i] = b[j] => i = j
             /\ \A i, j \in DOMAIN far2 : c[i] = c[j] => i = j
             /\ \A i \in DOMAIN in2, j \in DOMAIN near2 : a[i] # b[j]
             /\ \A i \in DOMAIN in2, j \in DOMAIN far2 : a[i] # c[j]
             /\ \A i \in DOMAIN near2, j \in DOMAIN far2 : b[i] # c[j]
        <5>1. \A i, j \in DOMAIN in2 : a[i] = a[j] => i = j
          BY <4>6, <4>7, <4>8
        <5>2. \A i, j \in DOMAIN near2 : b[i] = b[j] => i = j
          BY <4>6, <4>7, <4>8
        <5>3. \A i, j \in DOMAIN far2 : c[i] = c[j] => i = j
          BY <4>6, <4>7, <4>8
        <5>4. \A i \in DOMAIN in2, j \in DOMAIN near2 : a[i] # b[j]
          BY <4>6, <4>7, <4>8
        <5>5. \A i \in DOMAIN in2, j \in DOMAIN far2 : a[i] # c[j]
          BY <4>6, <4>7, <4>8
        <5>6. \A i \in DOMAIN near2, j \in DOMAIN far2 : b[i] # c[j]
          BY <4>6, <4>7, <4>8
        <5> QED
          BY <5>1, <5>2, <5>3, <5>4, <5>5, <5>6
      <4>13. Placed(links, after, p, o, Nobody, 0, a, b, c)
        <5>1. PlacedAs(links, in2, near2, far2, p, o, Nobody, 0, a, b, c)
          BY <4>9, <4>10, <4>11, <4>12 DEF PlacedAs
        <5> QED
          BY <2>0, <2>4, <5>1 DEF Placed
      <4> QED
        BY <4>13, FromSlots
    <3> QED
      BY <3>5, <3>6
  <2> QED
    BY <2>6, <2>7, <2>8
<1>10. Moves(links, after)
  BY <1>9 DEF Moves, Carries
<1> QED
  BY <1>1, <1>3, <1>8, <1>10

------------------------------------------------------------------------------
\* A link from which something was taken: each inbox loses some of its first
\* messages, or all, and a pipe loses all or nothing.
Shrunk(links, after) ==
  /\ NetShape(after)
  /\ after.inbox = [e \in Peer \X Peer |-> after.inbox[e]]
  /\ after.pipe = [e \in Peer \X Peer |-> after.pipe[e]]
  /\ \A e \in Peer \X Peer :
       /\ Listed(after.inbox[e])
       /\ \E d \in Nat : \A i \in DOMAIN after.inbox[e] :
            i + d \in DOMAIN links.inbox[e] /\ after.inbox[e][i] = links.inbox[e][i + d]
       /\ after.pipe[e] = links.pipe[e] \/ after.pipe[e] = <<>>

\* A link that only lost messages carries nothing new.
LEMMA ShrunkMoves ==
  ASSUME NEW links, NetOK(links), NEW after, Shrunk(links, after)
  PROVE  NetOK(after) /\ Moves(links, after)
<1>1. NetOK(after)
  <2>1. \A e \in Peer \X Peer : Listed(after.pipe[e]) /\ Listed(after.inbox[e])
    BY EmptyIsListed DEF NetOK, Shrunk
  <2>2. ASSUME NEW f \in Peer, NEW t \in Peer, NEW i \in DOMAIN after.pipe[<<f, t>>]
        PROVE  Routed(after.pipe[<<f, t>>][i], f, t)
    <3>1. after.pipe[<<f, t>>] = links.pipe[<<f, t>>] \/ after.pipe[<<f, t>>] = <<>>
      BY DEF Shrunk
    <3>2. after.pipe[<<f, t>>] # <<>>
      BY <2>2
    <3> QED
      BY <2>2, <3>1, <3>2 DEF NetOK
  <2> QED
    BY <2>1, <2>2 DEF NetOK, Shrunk
<1>2. ASSUME NEW p \in Peer, NEW o \in Peer, p # o
      PROVE  \E f : From(links, after, p, o, Nobody, 0, f)
  <2>0. PICK v, x, y, z : v = Via(p, o) /\ x = <<p, o>> /\ y = <<v, p>> /\ z = <<o, 0>>
    OBVIOUS
  <2>1. PICK in, near, far : in = links.inbox[x] /\ near = links.pipe[y] /\ far = links.pipe[z]
    OBVIOUS
  <2>2. /\ x \in Peer \X Peer /\ y \in Peer \X Peer
        /\ Relayed(p, o) => z \in Peer \X Peer
    BY <1>2, <2>0, ViaIs
  <2>3. /\ \A i \in DOMAIN in : <<"in", i>> \in Slots(links, p, o) /\ MessageAt(links, p, o, <<"in", i>>) = in[i]
        /\ \A i \in DOMAIN near : near[i].origin = o =>
             <<"near", i>> \in Slots(links, p, o) /\ MessageAt(links, p, o, <<"near", i>>) = near[i].message
        /\ Relayed(p, o) => \A i \in DOMAIN far :
             <<"far", i>> \in Slots(links, p, o) /\ MessageAt(links, p, o, <<"far", i>>) = far[i].message
    BY <2>0, <2>1 DEF Slots, MessageAt
  <2>4. PICK in2, near2, far2 : in2 = after.inbox[x] /\ near2 = after.pipe[y] /\ far2 = after.pipe[z]
    OBVIOUS
  <2>5. PICK d \in Nat : \A i \in DOMAIN in2 : i + d \in DOMAIN in /\ in2[i] = in[i + d]
    BY <2>1, <2>2, <2>4 DEF Shrunk
  <2>6. DOMAIN in2 \subseteq Nat
    <3>1. Listed(in2)
      BY <2>2, <2>4 DEF Shrunk
    <3>2. DOMAIN in2 = 1 .. Len(in2)
      BY <3>1, ListedIs
    <3> QED
      BY <3>2
  <2>7. \A i \in DOMAIN near2 : i \in DOMAIN near /\ near2[i] = near[i]
    BY <2>1, <2>2, <2>4 DEF Shrunk
  <2>8. Relayed(p, o) => \A i \in DOMAIN far2 : i \in DOMAIN far /\ far2[i] = far[i]
    BY <2>1, <2>2, <2>4 DEF Shrunk
  <2>9. PICK a : a = [i \in DOMAIN in2 |-> <<"in", i + d>>]
    OBVIOUS
  <2>10. PICK b : b = [i \in DOMAIN near2 |-> <<"near", i>>]
    OBVIOUS
  <2>11. PICK c : c = [i \in DOMAIN far2 |-> <<"far", i>>]
    OBVIOUS
  <2>12. \A i \in DOMAIN in2 : a[i] \in Slots(links, p, o) /\ in2[i] = MessageAt(links, p, o, a[i])
    BY <2>3, <2>5, <2>9
  <2>13. \A i \in DOMAIN near2 : near2[i].origin = o =>
           b[i] \in Slots(links, p, o) /\ near2[i].message = MessageAt(links, p, o, b[i])
    BY <2>3, <2>7, <2>10
  <2>14. Relayed(p, o) => \A i \in DOMAIN far2 :
           c[i] \in Slots(links, p, o) /\ far2[i].message = MessageAt(links, p, o, c[i])
    BY <2>3, <2>8, <2>11
  <2>15. /\ \A i, j \in DOMAIN in2 : a[i] = a[j] => i = j
         /\ \A i, j \in DOMAIN near2 : b[i] = b[j] => i = j
         /\ \A i, j \in DOMAIN far2 : c[i] = c[j] => i = j
         /\ \A i \in DOMAIN in2, j \in DOMAIN near2 : a[i] # b[j]
         /\ \A i \in DOMAIN in2, j \in DOMAIN far2 : a[i] # c[j]
         /\ \A i \in DOMAIN near2, j \in DOMAIN far2 : b[i] # c[j]
    <3>1. ASSUME NEW i \in DOMAIN in2, NEW j \in DOMAIN in2, a[i] = a[j]
          PROVE  i = j
      <4>1. i \in Nat /\ j \in Nat /\ i + d = j + d
        BY <2>6, <2>9, <3>1
      <4> QED
        BY <4>1
    <3>2. /\ \A i, j \in DOMAIN near2 : b[i] = b[j] => i = j
          /\ \A i, j \in DOMAIN far2 : c[i] = c[j] => i = j
      BY <2>10, <2>11
    <3>3. /\ \A i \in DOMAIN in2, j \in DOMAIN near2 : a[i] # b[j]
          /\ \A i \in DOMAIN in2, j \in DOMAIN far2 : a[i] # c[j]
          /\ \A i \in DOMAIN near2, j \in DOMAIN far2 : b[i] # c[j]
      BY <2>9, <2>10, <2>11
    <3> QED
      BY <3>1, <3>2, <3>3
  <2>16. Placed(links, after, p, o, Nobody, 0, a, b, c)
    <3>1. PlacedAs(links, in2, near2, far2, p, o, Nobody, 0, a, b, c)
      BY <2>12, <2>13, <2>14, <2>15 DEF PlacedAs
    <3> QED
      BY <2>0, <2>4, <3>1 DEF Placed
  <2> QED
    BY <2>16, FromSlots
<1> QED
  BY <1>1, <1>2 DEF Moves, Carries

\* A broadcast: the packet is added to the pipes it is sent into.
Uttered(links, after, from, message) ==
  /\ NetShape(after) /\ after.lost = links.lost /\ after.inbox = links.inbox
  /\ after.pipe = [e \in Peer \X Peer |-> after.pipe[e]]
  /\ \A e \in Peer \X Peer :
       \/ after.pipe[e] = links.pipe[e]
       \/ /\ e[1] = from /\ e[2] # from
          /\ Topology = "Mesh" \/ from = 0 \/ e[2] = 0
          /\ after.pipe[e] = Append(links.pipe[e], Packet(from, Topology # "Mesh" /\ e[2] = 0, message))

\* A broadcast appends one packet to pipes out of its speaker, if to any.
LEMMA BroadcastUtters ==
  ASSUME NEW links, NetOK(links), NEW from \in Peer, NEW message,
         NEW after, after = Broadcast(links, from, message).net
  PROVE  Uttered(links, after, from, message)
<1>1. /\ NetShape(links) /\ 0 \in Peer
      /\ links.pipe = [e \in Peer \X Peer |-> links.pipe[e]]
  BY PeersCounted DEF NetOK
<1>2. CASE after = links
  BY <1>1, <1>2 DEF Uttered
<1>3. ASSUME NEW targets \in SUBSET Others(from), NEW everyone \in BOOLEAN,
             after = TransmitAll(links, from, targets, Packet(from, everyone, message)),
             \A t \in targets : everyone = (Topology # "Mesh" /\ t = 0),
             Topology = "Mesh" \/ from = 0
      PROVE  Uttered(links, after, from, message)
  <2> DEFINE packet == Packet(from, everyone, message)
             longer(e) == Append(links.pipe[e], packet)
  <2>1. /\ after.pipe = [e \in Peer \X Peer |-> IF e[1] = from /\ e[2] \in targets THEN longer(e) ELSE links.pipe[e]]
        /\ NetShape(after) /\ after.lost = links.lost /\ after.inbox = links.inbox
    <3> HIDE DEF packet
    <3> QED
      BY <1>1, <1>3 DEF TransmitAll, NetShape, packet
  <2>2. ASSUME NEW e \in Peer \X Peer, after.pipe[e] # links.pipe[e]
        PROVE  /\ e[1] = from /\ e[2] # from
               /\ Topology = "Mesh" \/ from = 0 \/ e[2] = 0
               /\ after.pipe[e] = Append(links.pipe[e], Packet(from, Topology # "Mesh" /\ e[2] = 0, message))
    <3>1. e[1] = from /\ e[2] \in targets /\ after.pipe[e] = longer(e)
      BY <2>1, <2>2
    <3>2. everyone = (Topology # "Mesh" /\ e[2] = 0)
      BY <1>3, <3>1
    <3> QED
      BY <1>3, <3>1, <3>2 DEF Others
  <2> QED
    BY <2>1, <2>2 DEF Uttered
<1>4. CASE Topology = "Mesh"
  <2>1. \/ after = links
        \/ \E targets \in SUBSET Others(from) :
             after = TransmitAll(links, from, targets, Packet(from, FALSE, message))
    BY <1>4 DEF Broadcast, MeshBroadcast
  <2> QED
    BY <1>2, <1>3, <1>4, <2>1
<1>5. CASE Topology # "Mesh" /\ from = 0
  <2>1. \/ after = links
        \/ after = TransmitAll(links, 0, Others(0) \ links.lost, Packet(0, FALSE, message))
    BY <1>5 DEF Broadcast, StarBroadcast
  <2>2. Others(0) \ links.lost \in SUBSET Others(from) /\ \A t \in Others(0) \ links.lost : t # 0
    BY <1>5 DEF Others
  <2> QED
    BY <1>2, <1>3, <1>5, <2>1, <2>2
<1>6. CASE Topology # "Mesh" /\ from # 0
  <2>1. \/ after = links
        \/ after = Transmit(links, from, 0, Packet(from, TRUE, message))
    BY <1>6 DEF Broadcast, StarBroadcast
  <2>2. CASE after = Transmit(links, from, 0, Packet(from, TRUE, message))
    <3> DEFINE packet == Packet(from, TRUE, message)
               longer(e) == Append(links.pipe[e], packet)
    <3>1. <<from, 0>> \in Peer \X Peer
      BY <1>1
    <3>2. /\ after.pipe = [links.pipe EXCEPT ![<<from, 0>>] = longer(<<from, 0>>)]
          /\ NetShape(after) /\ after.lost = links.lost /\ after.inbox = links.inbox
      <4> HIDE DEF packet
      <4> QED
        BY <1>1, <2>2 DEF Transmit, NetShape, packet
    <3> HIDE DEF longer
    <3>3. /\ after.pipe = [e \in Peer \X Peer |-> after.pipe[e]]
          /\ \A e \in Peer \X Peer : after.pipe[e] = IF e = <<from, 0>> THEN longer(e) ELSE links.pipe[e]
      BY <1>1, <3>1, <3>2
    <3>4. ASSUME NEW e \in Peer \X Peer, after.pipe[e] # links.pipe[e]
          PROVE  /\ e[1] = from /\ e[2] # from
                 /\ Topology = "Mesh" \/ from = 0 \/ e[2] = 0
                 /\ after.pipe[e] = Append(links.pipe[e], Packet(from, Topology # "Mesh" /\ e[2] = 0, message))
      <4>1. e = <<from, 0>> /\ after.pipe[e] = longer(e)
        BY <3>3, <3>4
      <4>2. e[1] = from /\ e[2] = 0
        BY <4>1
      <4>3. (Topology # "Mesh" /\ e[2] = 0) = TRUE
        BY <1>6, <4>2
      <4> QED
        BY <1>6, <4>1, <4>2, <4>3 DEF longer
    <3> QED
      BY <3>2, <3>3, <3>4 DEF Uttered
  <2> QED
    BY <1>2, <2>1, <2>2
<1> QED
  BY <1>4, <1>5, <1>6
\* What is under way after a broadcast was under way, or is its message, once to
\* each.
LEMMA UtteredCarries ==
  ASSUME NEW links, NetOK(links), NEW from \in Peer, NEW message,
         NEW after, Uttered(links, after, from, message)
  PROVE  NetOK(after) /\ Carries(links, after, from, message)
<1> DEFINE packet(e) == Packet(from, Topology # "Mesh" /\ e[2] = 0, message)
           longer(e) == Append(links.pipe[e], packet(e))
<1>1. /\ NetShape(after) /\ after.inbox = links.inbox
      /\ after.pipe = [e \in Peer \X Peer |-> after.pipe[e]]
      /\ \A e \in Peer \X Peer :
           \/ after.pipe[e] = links.pipe[e]
           \/ /\ e[1] = from /\ e[2] # from
              /\ Topology = "Mesh" \/ from = 0 \/ e[2] = 0
              /\ after.pipe[e] = longer(e)
  BY DEF Uttered
<1>2. ASSUME NEW e \in Peer \X Peer
      PROVE  /\ Listed(longer(e))
             /\ DOMAIN longer(e) = 1 .. (Len(links.pipe[e]) + 1)
             /\ \A i \in 1 .. Len(links.pipe[e]) : longer(e)[i] = links.pipe[e][i]
             /\ longer(e)[Len(links.pipe[e]) + 1] = packet(e)
             /\ Len(links.pipe[e]) \in Nat /\ DOMAIN links.pipe[e] = 1 .. Len(links.pipe[e])
  <2>1. Listed(links.pipe[e])
    BY DEF NetOK
  <2> HIDE DEF packet
  <2> QED
    BY <2>1, AppendIs, ListedIs
<1>3. ASSUME NEW e \in Peer \X Peer
      PROVE  packet(e).origin = from /\ packet(e).message = message
  BY DEF Packet
<1>4. \A e \in Peer \X Peer : packet(e) = Packet(from, Topology # "Mesh" /\ e[2] = 0, message)
  OBVIOUS
<1> HIDE DEF packet, longer
<1>5. NetOK(after)
  <2>1. \A e \in Peer \X Peer : Listed(after.pipe[e]) /\ Listed(after.inbox[e])
    BY <1>1, <1>2 DEF NetOK
  <2>2. ASSUME NEW f \in Peer, NEW t \in Peer, NEW i \in DOMAIN after.pipe[<<f, t>>]
        PROVE  Routed(after.pipe[<<f, t>>][i], f, t)
    <3>0. PICK e \in Peer \X Peer : e = <<f, t>> /\ e[1] = f /\ e[2] = t
      OBVIOUS
    <3>1. \A j \in DOMAIN links.pipe[e] : Routed(links.pipe[e][j], f, t)
      BY <3>0 DEF NetOK
    <3>2. CASE after.pipe[e] = links.pipe[e]
      BY <2>2, <3>0, <3>1, <3>2
    <3>3. CASE /\ f = from /\ t # from
               /\ Topology = "Mesh" \/ from = 0 \/ t = 0
               /\ after.pipe[e] = longer(e)
      <4>1. CASE i \in 1 .. Len(links.pipe[e])
        <5>1. i \in DOMAIN links.pipe[e] /\ longer(e)[i] = links.pipe[e][i]
          BY <1>2, <4>1
        <5> QED
          BY <3>0, <3>1, <3>3, <5>1
      <4>2. CASE i \notin 1 .. Len(links.pipe[e])
        <5>1. i = Len(links.pipe[e]) + 1
          BY <1>2, <2>2, <3>0, <3>3, <4>2
        <5>2. after.pipe[<<f, t>>][i] = packet(e)
          BY <1>2, <3>0, <3>3, <5>1
        <5>3. packet(e) = Packet(from, Topology # "Mesh" /\ t = 0, message)
          BY <1>4, <3>0
        <5>4. Routed(Packet(from, Topology # "Mesh" /\ t = 0, message), f, t)
          BY <3>3 DEF Routed, Packet, Via
        <5> QED
          BY <5>2, <5>3, <5>4
      <4> QED
        BY <4>1, <4>2
    <3> QED
      BY <1>1, <3>0, <3>2, <3>3
  <2> QED
    BY <1>1, <2>1, <2>2 DEF NetOK
<1>6. ASSUME NEW p \in Peer, NEW o \in Peer, p # o
      PROVE  \E f : From(links, after, p, o, from, message, f)
  <2>0. PICK v, x, y, z : v = Via(p, o) /\ x = <<p, o>> /\ y = <<v, p>> /\ z = <<o, 0>>
    OBVIOUS
  <2>1. PICK in, near, far : in = links.inbox[x] /\ near = links.pipe[y] /\ far = links.pipe[z]
    OBVIOUS
  <2>2. /\ v \in Peer /\ v # p /\ x \in Peer \X Peer /\ y \in Peer \X Peer
        /\ Relayed(p, o) => z \in Peer \X Peer /\ v = 0 /\ o # 0 /\ p # 0 /\ Topology # "Mesh"
        /\ ~ Relayed(p, o) => v = o
        /\ x[1] = p /\ x[2] = o /\ y[1] = v /\ y[2] = p /\ z[1] = o /\ z[2] = 0
    BY <1>6, <2>0, ViaIs
  <2>3. /\ \A i \in DOMAIN in : <<"in", i>> \in Slots(links, p, o) /\ MessageAt(links, p, o, <<"in", i>>) = in[i]
        /\ \A i \in DOMAIN near : near[i].origin = o =>
             <<"near", i>> \in Slots(links, p, o) /\ MessageAt(links, p, o, <<"near", i>>) = near[i].message
        /\ Relayed(p, o) => \A i \in DOMAIN far :
             <<"far", i>> \in Slots(links, p, o) /\ MessageAt(links, p, o, <<"far", i>>) = far[i].message
    BY <2>0, <2>1 DEF Slots, MessageAt
  <2>4. PICK in2, near2, far2 : in2 = after.inbox[x] /\ near2 = after.pipe[y] /\ far2 = after.pipe[z]
    OBVIOUS
  <2>5. /\ in2 = in
        /\ Len(near) \in Nat /\ DOMAIN near = 1 .. Len(near)
        /\ Relayed(p, o) => Len(far) \in Nat /\ DOMAIN far = 1 .. Len(far)
    BY <1>1, <1>2, <2>1, <2>2, <2>4
  <2>6. /\ DOMAIN near2 = 1 .. Len(near) \/ DOMAIN near2 = 1 .. (Len(near) + 1)
        /\ \A i \in 1 .. Len(near) : near2[i] = near[i]
        /\ \A i \in DOMAIN near2 : i \notin 1 .. Len(near) =>
             i = Len(near) + 1 /\ near2[i].origin = from /\ near2[i].message = message /\ v = from
    <3>1. CASE near2 = near
      BY <2>5, <3>1
    <3>2. CASE near2 = longer(y) /\ v = from
      <4>1. /\ DOMAIN near2 = 1 .. (Len(near) + 1)
            /\ \A i \in 1 .. Len(near) : near2[i] = near[i]
            /\ near2[Len(near) + 1] = packet(y)
        BY <1>2, <2>1, <2>2, <3>2
      <4>2. packet(y).origin = from /\ packet(y).message = message
        BY <1>3, <2>2
      <4> QED
        BY <2>5, <3>2, <4>1, <4>2
    <3> QED
      BY <1>1, <2>1, <2>2, <2>4, <3>1, <3>2
  <2>7. Relayed(p, o) =>
          /\ DOMAIN far2 = 1 .. Len(far) \/ DOMAIN far2 = 1 .. (Len(far) + 1)
          /\ \A i \in 1 .. Len(far) : far2[i] = far[i]
          /\ \A i \in DOMAIN far2 : i \notin 1 .. Len(far) =>
               i = Len(far) + 1 /\ far2[i].message = message /\ o = from
    <3> SUFFICES ASSUME Relayed(p, o)
                 PROVE  /\ DOMAIN far2 = 1 .. Len(far) \/ DOMAIN far2 = 1 .. (Len(far) + 1)
                        /\ \A i \in 1 .. Len(far) : far2[i] = far[i]
                        /\ \A i \in DOMAIN far2 : i \notin 1 .. Len(far) =>
                             i = Len(far) + 1 /\ far2[i].message = message /\ o = from
      OBVIOUS
    <3>1. CASE far2 = far
      BY <2>5, <3>1
    <3>2. CASE far2 = longer(z) /\ o = from
      <4>1. /\ DOMAIN far2 = 1 .. (Len(far) + 1)
            /\ \A i \in 1 .. Len(far) : far2[i] = far[i]
            /\ far2[Len(far) + 1] = packet(z)
        BY <1>2, <2>1, <2>2, <3>2
      <4>2. packet(z).message = message
        BY <1>3, <2>2
      <4> QED
        BY <2>5, <3>2, <4>1, <4>2
    <3> QED
      BY <1>1, <2>1, <2>2, <2>4, <3>1, <3>2
  <2>8. Relayed(p, o) => ~ (v = from /\ o = from)
    BY <2>2
  <2>9. PICK a : a = [i \in DOMAIN in2 |-> <<"in", i>>]
    OBVIOUS
  <2>10. PICK b : b = [i \in DOMAIN near2 |-> IF i \in 1 .. Len(near) THEN <<"near", i>> ELSE <<"new", 0>>]
    OBVIOUS
  <2>11. PICK c : c = [i \in DOMAIN far2 |-> IF i \in 1 .. Len(far) THEN <<"far", i>> ELSE <<"new", 0>>]
    OBVIOUS
  <2>12. \A i \in DOMAIN in2 : a[i] \in Slots(links, p, o) /\ in2[i] = MessageAt(links, p, o, a[i])
    BY <2>3, <2>5, <2>9
  <2>13. \A i \in DOMAIN near2 : near2[i].origin = o =>
           \/ b[i] \in Slots(links, p, o) /\ near2[i].message = MessageAt(links, p, o, b[i])
           \/ o = from /\ b[i] = <<"new", 0>> /\ near2[i].message = message
    BY <2>3, <2>5, <2>6, <2>10
  <2>14. Relayed(p, o) => \A i \in DOMAIN far2 :
           \/ c[i] \in Slots(links, p, o) /\ far2[i].message = MessageAt(links, p, o, c[i])
           \/ o = from /\ c[i] = <<"new", 0>> /\ far2[i].message = message
    BY <2>3, <2>5, <2>7, <2>11
  <2>15. /\ \A i, j \in DOMAIN in2 : a[i] = a[j] => i = j
         /\ \A i \in DOMAIN in2, j \in DOMAIN near2 : a[i] # b[j]
         /\ \A i \in DOMAIN in2, j \in DOMAIN far2 : a[i] # c[j]
    BY <2>9, <2>10, <2>11
  <2>16. \A i, j \in DOMAIN near2 : b[i] = b[j] => i = j
    BY <2>5, <2>6, <2>10
  <2>17. Relayed(p, o) => \A i, j \in DOMAIN far2 : c[i] = c[j] => i = j
    BY <2>5, <2>7, <2>11
  <2>18. Relayed(p, o) => \A i \in DOMAIN near2, j \in DOMAIN far2 : b[i] # c[j]
    BY <2>6, <2>7, <2>8, <2>10, <2>11
  <2>19. Placed(links, after, p, o, from, message, a, b, c)
    <3>1. PlacedAs(links, in2, near2, far2, p, o, from, message, a, b, c)
      BY <2>12, <2>13, <2>14, <2>15, <2>16, <2>17, <2>18 DEF PlacedAs
    <3> QED
      BY <2>0, <2>4, <3>1 DEF Placed
  <2> QED
    BY <2>19, FromSlots
<1> QED
  BY <1>5, <1>6 DEF Carries

\* Both together, for Broadcast.
LEMMA BroadcastCarries ==
  ASSUME NEW links, NetOK(links), NEW from \in Peer, NEW message,
         NEW after, after = Broadcast(links, from, message).net
  PROVE  NetOK(after) /\ Carries(links, after, from, message) /\ after.lost = links.lost
<1>1. Uttered(links, after, from, message)
  BY BroadcastUtters
<1>2. NetOK(after) /\ Carries(links, after, from, message)
  BY <1>1, UtteredCarries
<1> QED
  BY <1>1, <1>2 DEF Uttered

------------------------------------------------------------------------------
\* What is taken out of inboxes, and what dies with an end.
LEMMA PutBackMoves ==
  ASSUME NEW links, NetOK(links), NEW p \in Peer, NEW o \in Peer,
         NEW k \in 0 .. Len(links.inbox[<<p, o>>]), NEW rest,
         \/ rest = SubSeq(links.inbox[<<p, o>>], k + 1, Len(links.inbox[<<p, o>>]))
         \/ rest = <<>>,
         NEW after, after = PutBack(links, p, o, rest)
  PROVE  NetOK(after) /\ Moves(links, after)
<1>1. PICK x \in Peer \X Peer : x = <<p, o>>
  OBVIOUS
<1>2. /\ Listed(links.inbox[x]) /\ NetShape(links)
      /\ links.pipe = [e \in Peer \X Peer |-> links.pipe[e]]
      /\ links.inbox = [e \in Peer \X Peer |-> links.inbox[e]]
  BY DEF NetOK
<1>3. PICK in, n : in = links.inbox[x] /\ n = Len(in) /\ n \in Nat /\ DOMAIN in = 1 .. n
  <2>1. PICK in : in = links.inbox[x] /\ Listed(in)
    BY <1>2
  <2>2. Len(in) \in Nat /\ DOMAIN in = 1 .. Len(in)
    BY <2>1, ListedIs
  <2> QED
    BY <2>1, <2>2
<1>4. Listed(rest) /\ \E d \in Nat : \A i \in DOMAIN rest : i + d \in DOMAIN in /\ rest[i] = in[i + d]
  <2>1. CASE rest = <<>>
    <3>1. 0 \in Nat
      OBVIOUS
    <3> QED
      BY <2>1, <3>1, EmptyIsListed
  <2>2. CASE rest = SubSeq(in, k + 1, n)
    <3>1. /\ Listed(rest) /\ DOMAIN rest = 1 .. (n - k)
          /\ \A i \in 1 .. (n - k) : rest[i] = in[k + i]
      BY <1>1, <1>2, <1>3, <2>2, SubSeqIs
    <3>2. k \in Nat /\ \A i \in 1 .. (n - k) : i + k \in 1 .. n /\ i + k = k + i
      BY <1>1, <1>3
    <3>3. \A i \in DOMAIN rest : i + k \in DOMAIN in /\ rest[i] = in[i + k]
      BY <1>3, <3>1, <3>2
    <3> QED
      BY <3>1, <3>2, <3>3
  <2> QED
    BY <1>1, <1>3, <2>1, <2>2
<1>5. /\ after.inbox = [links.inbox EXCEPT ![x] = rest]
      /\ after.pipe = links.pipe
      /\ NetShape(after)
  BY <1>1, <1>2 DEF PutBack, NetShape
<1>6. /\ after.inbox = [e \in Peer \X Peer |-> after.inbox[e]]
      /\ \A e \in Peer \X Peer : after.inbox[e] = IF e = x THEN rest ELSE links.inbox[e]
  BY <1>2, <1>5
<1>7. ASSUME NEW e \in Peer \X Peer
      PROVE  /\ Listed(after.inbox[e])
             /\ \E d \in Nat : \A i \in DOMAIN after.inbox[e] :
                  i + d \in DOMAIN links.inbox[e] /\ after.inbox[e][i] = links.inbox[e][i + d]
  <2>1. CASE e = x
    <3>1. after.inbox[e] = rest /\ links.inbox[e] = in
      BY <1>3, <1>6, <2>1
    <3> QED
      BY <1>4, <3>1
  <2>2. CASE e # x
    <3>1. Listed(links.inbox[e]) /\ after.inbox[e] = links.inbox[e]
      BY <1>6, <2>2 DEF NetOK
    <3>2. 0 \in Nat /\ \A i \in DOMAIN links.inbox[e] : i + 0 = i
      <4>1. DOMAIN links.inbox[e] = 1 .. Len(links.inbox[e]) /\ Len(links.inbox[e]) \in Nat
        BY <3>1, ListedIs
      <4> QED
        BY <4>1
    <3> QED
      BY <3>1, <3>2
  <2> QED
    BY <2>1, <2>2
<1>8. Shrunk(links, after)
  BY <1>2, <1>5, <1>6, <1>7 DEF Shrunk
<1> QED
  BY <1>8, ShrunkMoves

\* A poll of a finished session empties its inboxes.
LEMMA EmptiedMoves ==
  ASSUME NEW links, NetOK(links), NEW p \in Peer, NEW after, after = Emptied(links, p)
  PROVE  NetOK(after) /\ Moves(links, after)
<1>1. /\ NetShape(links)
      /\ links.pipe = [e \in Peer \X Peer |-> links.pipe[e]]
      /\ links.inbox = [e \in Peer \X Peer |-> links.inbox[e]]
  BY DEF NetOK
<1>2. /\ after.inbox = [e \in Peer \X Peer |-> IF e[1] = p THEN <<>> ELSE links.inbox[e]]
      /\ after.pipe = links.pipe
      /\ NetShape(after)
  BY <1>1 DEF Emptied, NetShape
<1>3. ASSUME NEW e \in Peer \X Peer
      PROVE  /\ Listed(after.inbox[e])
             /\ \E d \in Nat : \A i \in DOMAIN after.inbox[e] :
                  i + d \in DOMAIN links.inbox[e] /\ after.inbox[e][i] = links.inbox[e][i + d]
  <2>1. 0 \in Nat
    OBVIOUS
  <2>2. Listed(links.inbox[e])
    BY DEF NetOK
  <2>3. \A i \in DOMAIN links.inbox[e] : i + 0 = i
    <3>1. DOMAIN links.inbox[e] = 1 .. Len(links.inbox[e]) /\ Len(links.inbox[e]) \in Nat
      BY <2>2, ListedIs
    <3> QED
      BY <3>1
  <2>4. after.inbox[e] = links.inbox[e] \/ after.inbox[e] = <<>>
    BY <1>2
  <2> QED
    BY <2>1, <2>2, <2>3, <2>4, EmptyIsListed
<1>4. Shrunk(links, after)
  BY <1>1, <1>2, <1>3 DEF Shrunk
<1> QED
  BY <1>4, ShrunkMoves

\* An end that goes takes with it what is in flight to it and from it.
LEMMA LoseMoves ==
  ASSUME NEW links, NetOK(links), NEW p \in Peer, NEW after, after = Lose(links, p)
  PROVE  NetOK(after) /\ Moves(links, after)
<1>1. /\ NetShape(links)
      /\ links.pipe = [e \in Peer \X Peer |-> links.pipe[e]]
      /\ links.inbox = [e \in Peer \X Peer |-> links.inbox[e]]
  BY DEF NetOK
<1>2. /\ after.pipe = [e \in Peer \X Peer |-> IF p \in {e[1], e[2]} THEN <<>> ELSE links.pipe[e]]
      /\ after.inbox = links.inbox
      /\ NetShape(after)
  BY <1>1 DEF Lose, NetShape
<1>3. ASSUME NEW e \in Peer \X Peer
      PROVE  /\ Listed(after.inbox[e])
             /\ \E d \in Nat : \A i \in DOMAIN after.inbox[e] :
                  i + d \in DOMAIN links.inbox[e] /\ after.inbox[e][i] = links.inbox[e][i + d]
  <2>1. 0 \in Nat
    OBVIOUS
  <2>2. Listed(links.inbox[e])
    BY DEF NetOK
  <2>3. \A i \in DOMAIN links.inbox[e] : i + 0 = i
    <3>1. DOMAIN links.inbox[e] = 1 .. Len(links.inbox[e]) /\ Len(links.inbox[e]) \in Nat
      BY <2>2, ListedIs
    <3> QED
      BY <3>1
  <2> QED
    BY <1>2, <2>1, <2>2, <2>3
<1>4. Shrunk(links, after)
  BY <1>1, <1>2, <1>3 DEF Shrunk
<1> QED
  BY <1>4, ShrunkMoves
------------------------------------------------------------------------------
\* What is under way stays proper while the ends only come to say more, and to
\* hold no more of what is under way.
LEMMA UnderWayCarries ==
  ASSUME NEW links, NEW after, NEW from, NEW message, Carries(links, after, from, message),
         NEW p \in Peer, NEW o \in Peer, p # o, NEW n, NEW m, NEW n2, NEW m2,
         UnderWay(links, p, n, o, m),
         \A s \in Slots(links, p, o) : Proper(n2, o, m2, MessageAt(links, p, o, s)),
         o = from => /\ Proper(n2, o, m2, message)
                     /\ \A s \in Slots(links, p, o) : ~ SameTurn(MessageAt(links, p, o, s), message)
  PROVE  UnderWay(after, p, n2, o, m2)
<1>1. PICK f : From(links, after, p, o, from, message, f)
  BY DEF Carries
<1>2. ASSUME NEW s \in Slots(after, p, o)
      PROVE  \/ f[s] \in Slots(links, p, o) /\ MessageAt(after, p, o, s) = MessageAt(links, p, o, f[s])
             \/ o = from /\ f[s] = <<"new", 0>> /\ MessageAt(after, p, o, s) = message
  BY <1>1 DEF From
<1>3. \A s, r \in Slots(after, p, o) : f[s] = f[r] => s = r
  BY <1>1 DEF From
<1>4. \A s \in Slots(after, p, o) : Proper(n2, o, m2, MessageAt(after, p, o, s))
  BY <1>2
<1>5. ASSUME NEW s \in Slots(after, p, o), NEW r \in Slots(after, p, o),
             SameTurn(MessageAt(after, p, o, s), MessageAt(after, p, o, r))
      PROVE  s = r
  <2>1. CASE f[s] \in Slots(links, p, o) /\ f[r] \in Slots(links, p, o)
             /\ MessageAt(after, p, o, s) = MessageAt(links, p, o, f[s])
             /\ MessageAt(after, p, o, r) = MessageAt(links, p, o, f[r])
    BY <1>3, <1>5, <2>1 DEF UnderWay
  <2>2. CASE o = from /\ f[s] = <<"new", 0>> /\ f[r] = <<"new", 0>>
    BY <1>3, <2>2
  <2>3. \A x, y : SameTurn(x, y) => SameTurn(y, x)
    BY DEF SameTurn
  <2> QED
    BY <1>2, <1>5, <2>1, <2>2, <2>3
<1> QED
  BY <1>4, <1>5 DEF UnderWay

\* A message under way stays proper while its speaker takes nothing back and its
\* reader marks nothing new.
LEMMA ProperKept ==
  ASSUME NEW n, NEW m, NEW n2, NEW m2, NEW o, NEW message, Proper(n, o, m, message),
         \A t \in Nat : Spoke(m, t) => Spoke(m2, t),
         Succeeded(n2) => Succeeded(n),
         \A t \in Nat : Succeeded(n2) /\ Has(n2, o, t) => Has(n, o, t)
  PROVE  Proper(n2, o, m2, message)
BY DEF Proper

\* The node is replaced by one that has said no less, failed if it had, and holds
\* no more of the others' turns unless it failed.
Onward(n, n2) ==
  /\ \A t \in Nat : Spoke(n, t) => Spoke(n2, t)
  /\ Succeeded(n2) => Succeeded(n)

\* The invariant is kept by a step of one peer that broadcasts at most one
\* message, proper to each reader.
LEMMA InvCarried ==
  ASSUME NEW N, NEW links, Inv(N, links), NEW p \in Peer, NEW n2,
         NEW N2, N2 = [N EXCEPT ![p] = n2],
         NEW after, NetOK(after), NEW from, NEW message, Carries(links, after, from, message),
         Local(p, n2), Onward(N[p], n2),
         \A o \in Peer \ {p} : \/ \A t \in Nat : Succeeded(n2) /\ Marked(n2, o, t) => Marked(N[p], o, t)
                             \/ UnderWay(after, p, n2, o, N2[o]),
         \A q \in Peer : Follows(n2, q, N2[q]),
         \A q \in Peer \ {from} : from \in Peer =>
           /\ Proper(N2[q], from, N2[from], message)
           /\ \A s \in Slots(links, q, from) : ~ SameTurn(MessageAt(links, q, from, s), message)
  PROVE  Inv(N2, after)
<1>1. /\ NetOK(links) /\ N = [q \in Peer |-> N[q]]
      /\ \A q \in Peer : Local(q, N[q])
      /\ \A q, r \in Peer : Follows(N[q], r, N[r])
      /\ \A q, o \in Peer : q # o => UnderWay(links, q, N[q], o, N[o])
  BY DEF Inv
<1>2. N2[p] = n2 /\ (\A q \in Peer \ {p} : N2[q] = N[q]) /\ N2 = [q \in Peer |-> N2[q]]
  BY <1>1
<1>3. \A q \in Peer : Local(q, N2[q])
  BY <1>1, <1>2
<1>4. \A q \in Peer, t \in Nat : Spoke(N[q], t) => Spoke(N2[q], t)
  BY <1>2 DEF Onward
<1>5. ASSUME NEW q \in Peer, NEW r \in Peer
      PROVE  Follows(N2[q], r, N2[r])
  <2>1. CASE q = p
    BY <1>2, <2>1
  <2>2. CASE q # p
    <3>1. Follows(N[q], r, N[r]) /\ N2[q] = N[q] /\ Local(q, N[q])
      BY <1>1, <1>2, <2>2
    <3>2. Now(N[q]) \in Nat
      BY <3>1 DEF Local, KernelOK, Now
    <3>3. Now(N[q]) > 0 => Now(N[q]) - 1 \in Nat
      BY <3>2
    <3> QED
      BY <1>4, <3>1, <3>3 DEF Follows
  <2> QED
    BY <2>1, <2>2
<1>6. ASSUME NEW q \in Peer, NEW o \in Peer, q # o
      PROVE  UnderWay(after, q, N2[q], o, N2[o])
  <2> SUFFICES ASSUME q = p => \A t \in Nat : Succeeded(n2) /\ Marked(n2, o, t) => Marked(N[p], o, t)
               PROVE  UnderWay(after, q, N2[q], o, N2[o])
    BY <1>2, <1>6
  <2>1. UnderWay(links, q, N[q], o, N[o])
    BY <1>1, <1>6
  <2>2. Succeeded(N2[q]) => Succeeded(N[q])
    BY <1>2 DEF Onward
  <2>3. ASSUME NEW t \in Nat, Succeeded(N2[q]), Has(N2[q], o, t)
        PROVE  Has(N[q], o, t)
    <3>1. CASE q = p
      <4>1. n2.id = p /\ N[p].id = p
        BY <1>1 DEF Local
      <4> QED
        BY <1>2, <1>6, <2>3, <3>1, <4>1 DEF Has
    <3>2. CASE q # p
      BY <1>2, <2>3, <3>2
    <3> QED
      BY <3>1, <3>2
  <2>4. \A s \in Slots(links, q, o) : Proper(N[q], o, N[o], MessageAt(links, q, o, s))
    BY <2>1 DEF UnderWay
  <2>5. ASSUME NEW s \in Slots(links, q, o)
        PROVE  Proper(N2[q], o, N2[o], MessageAt(links, q, o, s))
    <3>1. PICK message1 : message1 = MessageAt(links, q, o, s) /\ Proper(N[q], o, N[o], message1)
      BY <2>4
    <3>2. PICK a, b, c, d : a = N[q] /\ b = N[o] /\ c = N2[q] /\ d = N2[o]
      OBVIOUS
    <3>3. /\ Proper(a, o, b, message1)
          /\ \A t \in Nat : Spoke(b, t) => Spoke(d, t)
          /\ Succeeded(c) => Succeeded(a)
          /\ \A t \in Nat : Succeeded(c) /\ Has(c, o, t) => Has(a, o, t)
      BY <1>4, <2>2, <2>3, <3>1, <3>2
    <3>4. Proper(c, o, d, message1)
      BY <3>3, ProperKept
    <3> QED
      BY <3>1, <3>2, <3>4
  <2>6. o = from => /\ Proper(N2[q], o, N2[o], message)
                    /\ \A s \in Slots(links, q, o) : ~ SameTurn(MessageAt(links, q, o, s), message)
    BY <1>6
  <2>7. PICK a, b, c, d : a = N[q] /\ b = N[o] /\ c = N2[q] /\ d = N2[o]
    OBVIOUS
  <2>8. UnderWay(after, q, c, o, d)
    BY <1>6, <2>1, <2>5, <2>6, <2>7, UnderWayCarries
  <2> QED
    BY <2>7, <2>8
<1> QED
  BY <1>2, <1>3, <1>5, <1>6 DEF Inv

\* A change of what the invariant does not speak of.
Quiet(n, n2) ==
  /\ Shape(n2) /\ n2.id = n.id /\ n2.lastSent = n.lastSent
  /\ n2.gate = n.gate /\ n2.queue = n.queue /\ n2.kernel = n.kernel
  /\ n2.drops = n.drops /\ n2.dropped = n.dropped
  /\ Listed(n2.pending)
  /\ Succeeded(n2) => Succeeded(n)
  /\ \/ n2.state \in {"Handshaking", "Ended"} \/ n.state \notin {"Handshaking", "Ended"}
     \/ ExpectedSources(n.gate) = Peer

\* A quiet change of a node keeps what the invariant says of it.
LEMMA QuietIs ==
  ASSUME NEW p, NEW n, NEW n2, Local(p, n), Quiet(n, n2)
  PROVE  /\ Local(p, n2) /\ Onward(n, n2)
         /\ \A q, t : Marked(n2, q, t) <=> Marked(n, q, t)
         /\ Now(n2) = Now(n)
<1>1. \A q, t : Marked(n2, q, t) <=> Marked(n, q, t)
  BY DEF Quiet, Marked
<1>2. \A q, t : Has(n2, q, t) <=> Has(n, q, t)
  BY <1>1 DEF Quiet, Has
<1>3. Now(n2) = Now(n) /\ (HasRoom(n2) <=> HasRoom(n))
  BY DEF Quiet, Now, HasRoom
<1>4. GateOK(n2)
  BY <1>3 DEF Local, GateOK, Quiet
<1>5. QueueOK(n2) /\ KernelOK(n2)
  BY DEF Local, QueueOK, KernelOK, Quiet
<1>6. (Within(n) => Within(n2)) /\ (Exact(n) => Exact(n2))
  BY <1>2, <1>3 DEF Exact, Within, Quiet
<1>7. Sound(n2)
  BY <1>3, <1>6 DEF Local, Sound, Quiet
<1>8. Onward(n, n2)
  BY <1>3 DEF Onward, Spoke, Quiet
<1> QED
  BY <1>1, <1>3, <1>4, <1>5, <1>7, <1>8 DEF Local, Quiet

\* A quiet change of one peer with a broadcast of anything but a turn keeps the
\* invariant.
LEMMA InvQuiet ==
  ASSUME NEW N, NEW links, Inv(N, links), NEW p \in Peer, NEW n2, Quiet(N[p], n2),
         NEW N2, N2 = [N EXCEPT ![p] = n2],
         NEW after, NetOK(after), NEW from, NEW message, Carries(links, after, from, message),
         from \in Peer => message.type \in Kinds \ {"Turn"}
  PROVE  Inv(N2, after)
<1>1. Local(p, N[p]) /\ (\A q \in Peer : Follows(N[p], q, N[q])) /\ N = [q \in Peer |-> N[q]]
  BY DEF Inv
<1>2. PICK n : n = N[p]
  OBVIOUS
<1>3. /\ Local(p, n2) /\ Onward(n, n2)
      /\ \A q, t : Marked(n2, q, t) <=> Marked(n, q, t)
      /\ Now(n2) = Now(n)
  BY <1>1, <1>2, QuietIs
<1>4. N2[p] = n2 /\ \A q \in Peer \ {p} : N2[q] = N[q]
  BY <1>1
<1>5. \A q \in Peer, t \in Nat : Spoke(N[q], t) => Spoke(N2[q], t)
  BY <1>2, <1>3, <1>4 DEF Onward
<1>6. ASSUME NEW q \in Peer
      PROVE  Follows(n2, q, N2[q])
  <2>1. Follows(n, q, N[q])
    BY <1>1, <1>2
  <2>2. Now(n) \in Nat
    BY <1>1, <1>2 DEF Local, KernelOK, Now
  <2>3. Now(n) > 0 => Now(n) - 1 \in Nat
    BY <2>2
  <2> QED
    BY <1>3, <1>5, <2>1, <2>3 DEF Follows
<1>7. ASSUME NEW q \in Peer, from \in Peer
      PROVE  /\ Proper(N2[q], from, N2[from], message)
             /\ \A s \in Slots(links, q, from) : ~ SameTurn(MessageAt(links, q, from, s), message)
  BY <1>7 DEF Proper, SameTurn
<1> QED
  BY <1>2, <1>3, <1>6, <1>7, InvCarried

\* Only the link changes, and nothing is said.
LEMMA InvMoves ==
  ASSUME NEW N, NEW links, Inv(N, links), NEW p \in Peer, NEW after, NetOK(after), Moves(links, after)
  PROVE  Inv(N, after)
<1>2. N = [N EXCEPT ![p] = N[p]] /\ Quiet(N[p], N[p])
  BY DEF Inv, Local, Quiet
<1>3. Nobody \notin Peer
  <2>1. PeerCount \in Nat /\ Peer = 0 .. (PeerCount - 1)
    BY PeersCounted
  <2> QED
    BY <2>1 DEF Nobody
<1>4. Carries(links, after, Nobody, 0)
  BY DEF Moves
<1> QED
  BY <1>2, <1>3, <1>4, InvQuiet
------------------------------------------------------------------------------
\* What holds before the first of n steps and after each if before it, holds throughout.
LEMMA Climbs ==
  ASSUME NEW n \in Nat, NEW S, 0 \in S, \A i \in 1 .. n : i - 1 \in S => i \in S
  PROVE  \A i \in 0 .. n : i \in S
<1> DEFINE missing == {i \in 0 .. n : i \notin S}
<1>1. missing = {}
  <2> SUFFICES ASSUME missing # {} PROVE FALSE
    OBVIOUS
  <2>1. missing \in SUBSET Nat
    OBVIOUS
  <2> HIDE DEF missing
  <2>2. PICK i \in missing : \A m \in missing : i <= m
    BY <2>1, LeastElement
  <2>3. i \in 0 .. n /\ i \notin S /\ i # 0
    BY <2>2 DEF missing
  <2>4. i - 1 \in 0 .. n /\ ~ (i <= i - 1)
    BY <2>3
  <2>5. i - 1 \in S
    BY <2>2, <2>4 DEF missing
  <2> QED
    BY <2>3, <2>5
<1> QED
  BY <1>1

Delivers(links, after, from, to) ==
  /\ NetOK(after) /\ Moves(links, after) /\ after.lost = links.lost
  /\ Len(after.pipe[<<from, to>>]) = Len(links.pipe[<<from, to>>]) - 1
  /\ \A e \in Peer \X Peer : e[2] = to /\ e # <<from, to>> => after.pipe[e] = links.pipe[e]

\* A delivery shortens one pipe of its reader and no other.
LEMMA DeliverDelivers ==
  ASSUME NEW links, NetOK(links), NEW from \in Peer, NEW to \in Peer, from # to,
         Len(links.pipe[<<from, to>>]) > 0
  PROVE  Delivers(links, Deliver(links, from, to), from, to)
<1>1. PICK first, after : first = links.pipe[<<from, to>>] /\ after = Deliver(links, from, to)
  OBVIOUS
<1>2. Len(first) > 0
  BY <1>1
<1>3. NetOK(after) /\ Moves(links, after) /\ after.lost = links.lost
  BY <1>1, <1>2, DeliverMoves
<1>4. /\ Len(after.pipe[<<from, to>>]) = Len(first) - 1
      /\ \A e \in Peer \X Peer : e[2] = to /\ e # <<from, to>> => after.pipe[e] = links.pipe[e]
  BY <1>1, <1>2, DeliverMoves
<1> QED
  BY <1>1, <1>3, <1>4 DEF Delivers

\* A link moves to itself, with nobody speaking.
LEMMA NothingMoves ==
  ASSUME NEW links
  PROVE  Moves(links, links) /\ Carries(links, links, Nobody, 0) /\ Nobody \notin Peer
<1>1. ASSUME NEW p \in Peer, NEW o \in Peer, p # o
      PROVE  \E f : From(links, links, p, o, Nobody, 0, f)
  <2>1. PICK f : f = [s \in Slots(links, p, o) |-> s]
    OBVIOUS
  <2>2. From(links, links, p, o, Nobody, 0, f)
    BY <2>1 DEF From
  <2> QED
    BY <2>2
<1>2. PeerCount \in Nat /\ Peer = 0 .. (PeerCount - 1)
  BY PeersCounted
<1> QED
  BY <1>1, <1>2 DEF Moves, Carries, Nobody

\* What moved twice moved.
LEMMA MovesOn ==
  ASSUME NEW links, NEW mid, NEW after, Moves(links, mid), Moves(mid, after)
  PROVE  Moves(links, after)
<1>1. Nobody \notin Peer
  BY NothingMoves
<1>2. ASSUME NEW p \in Peer, NEW o \in Peer, p # o
      PROVE  \E h : From(links, after, p, o, Nobody, 0, h)
  <2>1. PICK f : From(links, mid, p, o, Nobody, 0, f)
    BY <1>2 DEF Moves, Carries
  <2>2. PICK g : From(mid, after, p, o, Nobody, 0, g)
    BY <1>2 DEF Moves, Carries
  <2>3. PICK h : h = [s \in Slots(after, p, o) |-> f[g[s]]]
    OBVIOUS
  <2>4. /\ \A s \in Slots(mid, p, o) :
             f[s] \in Slots(links, p, o) /\ MessageAt(mid, p, o, s) = MessageAt(links, p, o, f[s])
        /\ \A s, r \in Slots(mid, p, o) : f[s] = f[r] => s = r
    BY <1>1, <2>1 DEF From
  <2>5. /\ \A s \in Slots(after, p, o) :
             g[s] \in Slots(mid, p, o) /\ MessageAt(after, p, o, s) = MessageAt(mid, p, o, g[s])
        /\ \A s, r \in Slots(after, p, o) : g[s] = g[r] => s = r
    BY <1>1, <2>2 DEF From
  <2>6. /\ \A s \in Slots(after, p, o) :
             h[s] \in Slots(links, p, o) /\ MessageAt(after, p, o, s) = MessageAt(links, p, o, h[s])
        /\ \A s, r \in Slots(after, p, o) : h[s] = h[r] => s = r
    BY <2>3, <2>4, <2>5
  <2> QED
    BY <2>6 DEF From
<1> QED
  BY <1>2 DEF Moves, Carries

\* Pumping one pipe into p moves messages on.
LEMMA PumpPipeMoves ==
  ASSUME NEW links, NetOK(links), NEW p \in Peer, NEW from \in Peer, NEW due,
         from # p => due[from] \in 0 .. Len(links.pipe[<<from, p>>])
  PROVE  /\ NetOK(PumpPipe(links, from, p, due)) /\ Moves(links, PumpPipe(links, from, p, due))
         /\ PumpPipe(links, from, p, due).lost = links.lost
         /\ \A e \in Peer \X Peer : e[2] = p /\ e # <<from, p>> =>
              PumpPipe(links, from, p, due).pipe[e] = links.pipe[e]
<1>1. CASE from = p
  BY <1>1, NothingMoves DEF PumpPipe
<1>2. CASE from # p
  <2>1. PICK n \in Nat : n = due[from] /\ n <= Len(links.pipe[<<from, p>>])
    <3>1. due[from] \in 0 .. Len(links.pipe[<<from, p>>])
      BY <1>2
    <3>2. Len(links.pipe[<<from, p>>]) \in Nat
      BY ListedIs DEF NetOK
    <3> QED
      BY <3>1, <3>2
  <2>2. PICK after : after = Delivered(links, from, p, n)
    OBVIOUS
  <2>3. after[0] = links /\ \A i \in 1 .. n : after[i] = Deliver(after[i - 1], from, p)
    BY <2>2, DeliveredIsAChain
  <2> DEFINE Good(i) == /\ NetOK(after[i]) /\ Moves(links, after[i])
                        /\ after[i].lost = links.lost
                        /\ Len(after[i].pipe[<<from, p>>]) = Len(links.pipe[<<from, p>>]) - i
                        /\ \A e \in Peer \X Peer : e[2] = p /\ e # <<from, p>> => after[i].pipe[e] = links.pipe[e]
             S == {i \in 0 .. n : Good(i)}
  <2>4. Len(links.pipe[<<from, p>>]) \in Nat
    BY ListedIs DEF NetOK
  <2>5. 0 \in S
    BY <2>3, <2>4, NothingMoves
  <2>6. ASSUME NEW i \in 1 .. n, i - 1 \in S
        PROVE  i \in S
    <3>1. Good(i - 1) /\ i - 1 \in Nat /\ i <= n
      BY <2>6
    <3>2. PICK before, now, first : before = after[i - 1] /\ now = after[i] /\ first = before.pipe[<<from, p>>]
      OBVIOUS
    <3>3. /\ NetOK(before) /\ Moves(links, before) /\ before.lost = links.lost
          /\ Len(first) = Len(links.pipe[<<from, p>>]) - (i - 1)
          /\ \A e \in Peer \X Peer : e[2] = p /\ e # <<from, p>> => before.pipe[e] = links.pipe[e]
      BY <3>1, <3>2
    <3>4. now = Deliver(before, from, p) /\ Len(first) > 0 /\ NetOK(before)
      <4>1. now = Deliver(before, from, p)
        BY <2>3, <3>2
      <4>2. Len(first) > 0
        <5>1. PICK a \in Nat : a = Len(links.pipe[<<from, p>>])
          BY <2>4
        <5>2. n <= a /\ Len(first) = a - (i - 1)
          BY <2>1, <3>3, <5>1
        <5> HIDE DEF Good, S
        <5> QED
          BY <3>1, <5>2
      <4> QED
        BY <3>3, <4>1, <4>2
    <3> HIDE DEF Good, S
    <3>5. /\ NetOK(now) /\ Moves(before, now) /\ now.lost = before.lost
          /\ Len(now.pipe[<<from, p>>]) = Len(first) - 1
          /\ \A e \in Peer \X Peer : e[2] = p /\ e # <<from, p>> => now.pipe[e] = before.pipe[e]
      <4>1. Len(before.pipe[<<from, p>>]) > 0
        BY <3>2, <3>4
      <4>2. Delivers(before, now, from, p)
        BY <1>2, <3>4, <4>1, DeliverDelivers
      <4> QED
        BY <3>2, <4>2 DEF Delivers
    <3>6. Moves(links, now)
      BY <3>3, <3>5, MovesOn
    <3> USE DEF Good, S
    <3>7. Len(now.pipe[<<from, p>>]) = Len(links.pipe[<<from, p>>]) - i
      BY <2>4, <3>1, <3>3, <3>5
    <3> QED
      BY <3>2, <3>3, <3>5, <3>6, <3>7
  <2> HIDE DEF S
  <2>7. n \in S
    <3>1. \A i \in 0 .. n : i \in S
      BY <2>5, <2>6, Climbs
    <3> QED
      BY <3>1
  <2>8. Good(n)
    BY <2>7 DEF S
  <2> QED
    BY <1>2, <2>1, <2>2, <2>8 DEF PumpPipe
<1> QED
  BY <1>1, <1>2

\* The packets of a poll: no more of any pipe than it holds.
DueOK(links, p, due) ==
  \A from \in Others(p) : due[from] \in 0 .. Len(links.pipe[<<from, p>>])

\* What may be due is never more than what waits.
LEMMA DueIsOK ==
  ASSUME NEW links, NetOK(links), NEW p \in Peer, NEW due \in DueChoices(links, p)
  PROVE  DueOK(links, p, due)
<1>1. ASSUME NEW from \in Others(p)
      PROVE  due[from] \in 0 .. Len(links.pipe[<<from, p>>])
  <2>1. Len(links.pipe[<<from, p>>]) \in Nat
    BY <1>1, ListedIs DEF NetOK, Others
  <2>2. CASE due = Waiting(links, p)
    BY <2>1, <2>2 DEF Waiting
  <2>3. CASE /\ \E bound : due \in [Others(p) -> 0 .. bound]
             /\ due[from] <= Waiting(links, p)[from]
    <3>1. due[from] \in Int /\ 0 <= due[from]
      BY <2>3
    <3>2. due[from] <= Len(links.pipe[<<from, p>>])
      BY <2>3 DEF Waiting
    <3> QED
      BY <2>1, <3>1, <3>2
  <2>4. \/ due = Waiting(links, p)
        \/ /\ \E bound : due \in [Others(p) -> 0 .. bound]
           /\ due[from] <= Waiting(links, p)[from]
    BY DEF DueChoices
  <2> QED
    BY <2>2, <2>3, <2>4
<1> QED
  BY <1>1 DEF DueOK

\* Pumping every pipe into p moves messages on.
LEMMA PumpMoves ==
  ASSUME NEW links, NetOK(links), NEW p \in Peer, NEW due, DueOK(links, p, due)
  PROVE  /\ NetOK(Pump(links, p, due)) /\ Moves(links, Pump(links, p, due))
         /\ Pump(links, p, due).lost = links.lost
<1>1. CASE p \in links.lost
  BY <1>1, NothingMoves DEF Pump
<1>2. CASE p \notin links.lost
  <2>1. PICK n, after : n = PeerCount /\ after = Pumped(links, p, due)
    OBVIOUS
  <2>2. /\ n \in Nat /\ Peer = 0 .. (n - 1)
        /\ after[0] = links
        /\ \A i \in 1 .. n : after[i] = PumpPipe(after[i - 1], i - 1, p, due)
    BY <2>1, PeersCounted, PumpedIsAChain
  <2> DEFINE Good(i) == /\ NetOK(after[i]) /\ Moves(links, after[i])
                        /\ after[i].lost = links.lost
                        /\ \A e \in Peer \X Peer : e[2] = p /\ e[1] >= i => after[i].pipe[e] = links.pipe[e]
             S == {i \in 0 .. n : Good(i)}
  <2>3. 0 \in S
    BY <2>2, NothingMoves
  <2>4. ASSUME NEW i \in 1 .. n, i - 1 \in S
        PROVE  i \in S
    <3>1. PICK before, now, from : before = after[i - 1] /\ now = after[i] /\ from = i - 1
      OBVIOUS
    <3>2. /\ NetOK(before) /\ Moves(links, before) /\ before.lost = links.lost
          /\ \A e \in Peer \X Peer : e[2] = p /\ e[1] >= from => before.pipe[e] = links.pipe[e]
          /\ from \in Peer /\ now = PumpPipe(before, from, p, due)
      BY <2>2, <2>4, <3>1
    <3>3. from # p => due[from] \in 0 .. Len(before.pipe[<<from, p>>])
      <4> SUFFICES ASSUME from # p PROVE due[from] \in 0 .. Len(before.pipe[<<from, p>>])
        OBVIOUS
      <4>1. due[from] \in 0 .. Len(links.pipe[<<from, p>>])
        BY <3>2 DEF DueOK, Others
      <4>2. PICK e \in Peer \X Peer : e = <<from, p>> /\ e[1] = from /\ e[2] = p
        <5>1. <<from, p>> \in Peer \X Peer /\ <<from, p>>[1] = from /\ <<from, p>>[2] = p
          BY <3>2
        <5> QED
          BY <5>1
      <4>3. from >= from
        BY <2>2, <3>2
      <4>4. before.pipe[e] = links.pipe[e]
        BY <3>2, <4>2, <4>3
      <4> QED
        BY <4>1, <4>2, <4>4
    <3>4. /\ NetOK(now) /\ Moves(before, now)
          /\ now.lost = before.lost
          /\ \A e \in Peer \X Peer : e[2] = p /\ e # <<from, p>> => now.pipe[e] = before.pipe[e]
      BY <3>2, <3>3, PumpPipeMoves
    <3>5. ASSUME NEW e \in Peer \X Peer, e[2] = p, e[1] >= i
          PROVE  now.pipe[e] = links.pipe[e]
      <4>1. e[1] \in Nat /\ e[1] >= from /\ e[1] # from
        BY <2>2, <2>4, <3>1, <3>5
      <4> QED
        BY <3>2, <3>4, <3>5, <4>1
    <3>6. Moves(links, now)
      BY <3>2, <3>4, MovesOn
    <3>7. Good(i)
      BY <3>1, <3>2, <3>4, <3>5, <3>6
    <3> QED
      BY <2>4, <3>7
  <2> HIDE DEF S
  <2>5. n \in S
    <3>1. \A i \in 0 .. n : i \in S
      BY <2>2, <2>3, <2>4, Climbs
    <3> QED
      BY <2>2, <3>1
  <2>6. Good(n)
    BY <2>5 DEF S
  <2> QED
    BY <1>2, <2>1, <2>6 DEF Pump
<1> QED
  BY <1>1, <1>2
------------------------------------------------------------------------------
\* The queue and the gate under a turn.
Works == \A p \in Peer, t \in Nat : Workload(p, t) \in Seq(Int)

QueueShape(q) ==
  /\ q = [pending |-> q.pending, next |-> q.next]
  /\ q.pending \in SUBSET Entry /\ IsFiniteSet(q.pending)
  /\ q.next \in [Peer -> Nat]

\* The cells of a turn are a sequence, before the input delay the empty one.
LEMMA CellsAreListed ==
  ASSUME Works, NEW p \in Peer, NEW t \in Nat
  PROVE  Cells(p, t) \in Seq(Int) /\ Len(Cells(p, t)) \in Nat
<1>1. Cells(p, t) \in Seq(Int)
  BY DEF Cells, Works
<1> QED
  BY <1>1

\* The numbers of a turn's commands go on where those of the turn before it end.
LEMMA BaseIsNat ==
  ASSUME Works, NEW p \in Peer, NEW t \in Nat
  PROVE  Base(p, t) \in Nat /\ Base(p, t + 1) = Base(p, t) + Len(Cells(p, t))
<1> DEFINE part(s) == {s} \X (1 .. Len(Cells(p, s)))
<1>1. ASSUME NEW s \in Nat
      PROVE  IsFiniteSet(part(s)) /\ Cardinality(part(s)) = Len(Cells(p, s))
  <2>1. PICK n \in Nat : n = Len(Cells(p, s))
    BY CellsAreListed
  <2>2. IsFiniteSet({s}) /\ Cardinality({s}) = 1
    BY FS_Singleton
  <2>3. IsFiniteSet(1 .. n) /\ Cardinality(1 .. n) = n
    BY FS_Interval
  <2>4. PICK one, range : one = {s} /\ range = 1 .. n
    OBVIOUS
  <2>5. IsFiniteSet(one \X range) /\ Cardinality(one \X range) = Cardinality(one) * Cardinality(range)
    BY <2>2, <2>3, <2>4, FS_Product
  <2>6. Cardinality(one \X range) = n
    BY <2>2, <2>3, <2>4, <2>5
  <2> QED
    BY <2>1, <2>4, <2>5, <2>6
<1> DEFINE S == {k \in Nat : IsFiniteSet(Earlier(p, k))}
<1>2. \A k \in Nat : Earlier(p, k + 1) = Earlier(p, k) \cup part(k)
  <2>1. ASSUME NEW k \in Nat
        PROVE  Earlier(p, k + 1) = Earlier(p, k) \cup part(k)
    <3>1. 0 .. ((k + 1) - 1) = (0 .. (k - 1)) \cup {k}
      OBVIOUS
    <3> QED
      BY <3>1 DEF Earlier
  <2> QED
    BY <2>1
<1>3. \A k \in Nat : IsFiniteSet(Earlier(p, k))
  <2>1. Earlier(p, 0) = {}
    BY DEF Earlier
  <2>2. 0 \in S
    BY <2>1, FS_EmptySet
  <2>3. ASSUME NEW n \in Nat
        PROVE  n \in S
    <3>1. ASSUME NEW i \in 1 .. n, i - 1 \in S
          PROVE  i \in S
      <4>1. PICK k \in Nat : k = i - 1 /\ i = k + 1
        BY <3>1
      <4>2. IsFiniteSet(Earlier(p, k)) /\ IsFiniteSet(part(k))
        BY <1>1, <3>1, <4>1
      <4> HIDE DEF part
      <4>3. IsFiniteSet(Earlier(p, k) \cup part(k))
        BY <4>2, FS_Union
      <4> QED
        BY <1>2, <4>1, <4>3
    <3> HIDE DEF S
    <3>2. \A i \in 0 .. n : i \in S
      BY <2>2, <3>1, Climbs
    <3> QED
      BY <3>2
  <2> QED
    BY <2>3
<1>4. Earlier(p, t) \cap part(t) = {}
  BY DEF Earlier
<1> HIDE DEF part
<1>5. Cardinality(Earlier(p, t) \cup part(t)) = Cardinality(Earlier(p, t)) + Cardinality(part(t))
  <2>1. Cardinality(Earlier(p, t) \cup part(t))
          = Cardinality(Earlier(p, t)) + Cardinality(part(t)) - Cardinality(Earlier(p, t) \cap part(t))
    BY <1>1, <1>3, FS_Union
  <2>2. Cardinality(Earlier(p, t) \cap part(t)) = 0
    BY <1>4, FS_EmptySet
  <2>3. Cardinality(Earlier(p, t)) \in Nat /\ Cardinality(part(t)) \in Nat
    BY <1>1, <1>3, FS_CardinalityType
  <2> QED
    BY <2>1, <2>2, <2>3
<1> QED
  BY <1>1, <1>2, <1>3, <1>5, FS_CardinalityType DEF Base

\* The commands of a turn, one by one; no two are equal.
LEMMA SaidIs ==
  ASSUME Works, NEW p \in Peer, NEW t \in Nat, NEW n, n = Len(Cells(p, t))
  PROVE  /\ n \in Nat /\ DOMAIN Said(p, t) = 1 .. n /\ Len(Said(p, t)) = n
         /\ \A i \in 1 .. n :
              /\ Said(p, t)[i] = Command(t, p, Base(p, t) + i - 1, Cells(p, t)[i])
              /\ Said(p, t)[i].target = t /\ Said(p, t)[i].source = p
              /\ Said(p, t)[i].cell = Cells(p, t)[i]
              /\ Said(p, t)[i].sequence = Base(p, t) + i - 1
         /\ \A i, j \in 1 .. n : Said(p, t)[i] = Said(p, t)[j] => i = j
         /\ Commands(p, t) = {Said(p, t)[i] : i \in 1 .. n}
<1>1. n \in Nat /\ Base(p, t) \in Nat
  BY CellsAreListed, BaseIsNat
<1>2. PICK said : said = Said(p, t)
  OBVIOUS
<1>3. said = [i \in 1 .. n |-> Command(t, p, Base(p, t) + i - 1, Cells(p, t)[i])]
  BY <1>2 DEF Said
<1>4. DOMAIN said = 1 .. n /\ Len(said) = n
  BY <1>1, <1>3
<1>5. ASSUME NEW i \in 1 .. n
      PROVE  /\ said[i] = Command(t, p, Base(p, t) + i - 1, Cells(p, t)[i])
             /\ said[i].target = t /\ said[i].source = p
             /\ said[i].cell = Cells(p, t)[i]
             /\ said[i].sequence = Base(p, t) + i - 1
  BY <1>3 DEF Command
<1>6. ASSUME NEW i \in 1 .. n, NEW j \in 1 .. n, said[i] = said[j]
      PROVE  i = j
  <2>1. Base(p, t) + i - 1 = Base(p, t) + j - 1
    BY <1>5, <1>6
  <2> QED
    BY <1>1, <2>1
<1> QED
  BY <1>1, <1>2, <1>4, <1>5, <1>6 DEF Commands

\* A command names the turn and the peer it is of.
LEMMA CommandsAreSaid ==
  ASSUME Works, NEW p \in Peer, NEW t \in Nat, NEW c \in Commands(p, t)
  PROVE  c.target = t /\ c.source = p /\ c.sequence \in Nat
<1>1. PICK n : n = Len(Cells(p, t))
  OBVIOUS
<1>2. PICK i \in 1 .. n : c = Said(p, t)[i]
  BY <1>1, SaidIs
<1>3. Base(p, t) \in Nat /\ n \in Nat
  BY <1>1, BaseIsNat, CellsAreListed
<1>4. c.target = t /\ c.source = p /\ c.sequence = Base(p, t) + i - 1
  BY <1>1, <1>2, SaidIs
<1> QED
  BY <1>3, <1>4

\* A stamped command that is not there yet is the first of its copies.
LEMMA StampedIs ==
  ASSUME NEW q, QueueShape(q), NEW c \in Cmd, NEW after, after = SubmitStamped(q, c)
  PROVE  /\ QueueShape(after)
         /\ q.pending \subseteq after.pending
         /\ Cardinality(q.pending) <= Cardinality(after.pending)
         /\ \A s \in Peer \ {c.source} : after.next[s] = q.next[s]
         /\ after.next[c.source] = IF c.sequence + 1 > q.next[c.source] THEN c.sequence + 1 ELSE q.next[c.source]
         /\ (\A e \in q.pending : e[1] # c) => after.pending = q.pending \cup {<<c, 1>>}
<1>1. q = [pending |-> q.pending, next |-> q.next] /\ q.next \in [Peer -> Nat]
      /\ IsFiniteSet(q.pending) /\ q.pending \in SUBSET Entry /\ c.source \in Peer /\ c.sequence \in Nat
  BY DEF QueueShape, Cmd
<1> DEFINE copies == {e \in q.pending : e[1] = c}
<1>2. /\ after.pending = With(q.pending, c)
      /\ after.next = [q.next EXCEPT ![c.source] = IF c.sequence + 1 > @ THEN c.sequence + 1 ELSE @]
      /\ after = [pending |-> after.pending, next |-> after.next]
  BY <1>1 DEF SubmitStamped, Enqueue
<1>3. IsFiniteSet(copies) /\ Cardinality(copies) \in Nat
  BY <1>1, FS_Subset, FS_CardinalityType
<1>4. With(q.pending, c) = q.pending \cup {<<c, Cardinality(copies) + 1>>}
  BY DEF With, Copies
<1>5. after.next \in [Peer -> Nat]
  BY <1>1, <1>2
<1>6. after.pending \in SUBSET Entry
  <2>1. Cardinality(copies) + 1 \in Nat \ {0}
    BY <1>3
  <2> HIDE DEF copies
  <2> QED
    BY <1>1, <1>2, <1>4, <2>1 DEF Entry
<1>7. IsFiniteSet(after.pending) /\ Cardinality(q.pending) <= Cardinality(after.pending)
  <2> HIDE DEF copies
  <2>1. IsFiniteSet(after.pending)
    <3>1. IsFiniteSet({<<c, Cardinality(copies) + 1>>})
      BY FS_Singleton
    <3>2. IsFiniteSet(q.pending \cup {<<c, Cardinality(copies) + 1>>})
      BY <1>1, <3>1, FS_Union
    <3> QED
      BY <1>2, <1>4, <3>2
  <2> QED
    BY <1>2, <1>4, <2>1, FS_Subset
<1>8. (\A e \in q.pending : e[1] # c) => after.pending = q.pending \cup {<<c, 1>>}
  <2> SUFFICES ASSUME \A e \in q.pending : e[1] # c PROVE after.pending = q.pending \cup {<<c, 1>>}
    OBVIOUS
  <2>1. copies = {}
    OBVIOUS
  <2>2. Cardinality(copies) + 1 = 1
    BY <2>1, FS_EmptySet
  <2> QED
    BY <1>2, <1>4, <2>2
<1>9. /\ \A s \in Peer \ {c.source} : after.next[s] = q.next[s]
      /\ after.next[c.source] = IF c.sequence + 1 > q.next[c.source] THEN c.sequence + 1 ELSE q.next[c.source]
  BY <1>1, <1>2
<1> HIDE DEF copies
<1>10. q.pending \subseteq after.pending
  BY <1>2, <1>4
<1> QED
  BY <1>2, <1>5, <1>6, <1>7, <1>8, <1>9, <1>10 DEF QueueShape
\* A turn's commands enter the queue, each once, where there is room and none was
\* there.
LEMMA SubmittedIs ==
  ASSUME Works, NEW q, QueueShape(q), NEW o \in Peer, NEW t \in Nat,
         NEW commands, commands = Said(o, t),
         NEW after, after = Submitted(q, commands)[Len(commands)]
  PROVE  /\ QueueShape(after)
         /\ Cardinality(q.pending) <= Cardinality(after.pending)
         /\ \A s \in Peer \ {o} : after.next[s] = q.next[s]
         /\ (\A e \in q.pending : e[1] \notin Commands(o, t)) =>
              /\ after.pending \subseteq q.pending \cup {<<c, 1>> : c \in Commands(o, t)}
              /\ Valid(o, t) /\ Cardinality(after.pending) < MaxPending
                   => after.pending = q.pending \cup {<<c, 1>> : c \in Commands(o, t)}
<1>1. PICK n \in Nat : n = Len(Cells(o, t)) /\ Len(commands) = n
  BY CellsAreListed, SaidIs
<1>2. /\ DOMAIN commands = 1 .. n
      /\ \A i \in 1 .. n : /\ commands[i].target = t /\ commands[i].source = o
                           /\ commands[i].cell = Cells(o, t)[i]
                           /\ commands[i].sequence = Base(o, t) + i - 1
                           /\ commands[i] = Command(t, o, Base(o, t) + i - 1, Cells(o, t)[i])
      /\ \A i, j \in 1 .. n : commands[i] = commands[j] => i = j
      /\ Commands(o, t) = {commands[i] : i \in 1 .. n}
  BY <1>1, SaidIs, SMTT(60)
<1>3. PICK g : g = Submitted(q, commands)
  OBVIOUS
<1>4. g[0] = q /\ (\A i \in 1 .. n : g[i] = SubmitRemote(g[i - 1], commands[i])) /\ after = g[n]
  BY <1>1, <1>3, SubmittedIsAChain
<1> DEFINE First(i) == {<<commands[j], 1>> : j \in 1 .. i}
           Novel == \A e \in q.pending : e[1] \notin Commands(o, t)
           Good(i) == /\ QueueShape(g[i])
                      /\ Cardinality(q.pending) <= Cardinality(g[i].pending)
                      /\ \A s \in Peer \ {o} : g[i].next[s] = q.next[s]
                      /\ Novel => g[i].pending \subseteq q.pending \cup First(i)
                      /\ Valid(o, t) /\ Cardinality(g[i].pending) < MaxPending /\ Novel
                           => g[i].pending = q.pending \cup First(i)
           S == {i \in 0 .. n : Good(i)}
<1>5. Base(o, t) \in Nat /\ \A i \in 1 .. n : Base(o, t) + i - 1 \in Nat
  <2>1. Base(o, t) \in Nat
    BY BaseIsNat
  <2> QED
    BY <2>1
<1>6. \A r : QueueShape(r) => Cardinality(r.pending) \in Nat
  BY FS_CardinalityType DEF QueueShape
<1>7. 0 \in S
  <2>1. First(0) = {}
    OBVIOUS
  <2>2. QueueShape(g[0]) /\ Cardinality(q.pending) \in Nat
    BY <1>4, <1>6
  <2> QED
    BY <1>4, <2>1, <2>2
<1>8. ASSUME NEW i \in 1 .. n, i - 1 \in S
      PROVE  i \in S
  <2>1. PICK before, now, c : before = g[i - 1] /\ now = g[i] /\ c = commands[i]
    OBVIOUS
  <2>2. /\ QueueShape(before)
        /\ Cardinality(q.pending) <= Cardinality(before.pending)
        /\ \A s \in Peer \ {o} : before.next[s] = q.next[s]
        /\ Novel => before.pending \subseteq q.pending \cup First(i - 1)
        /\ Valid(o, t) /\ Cardinality(before.pending) < MaxPending /\ Novel
             => before.pending = q.pending \cup First(i - 1)
        /\ now = SubmitRemote(before, c)
    BY <1>4, <1>8, <2>1
  <2>3. First(i) = First(i - 1) \cup {<<c, 1>>}
    <3>1. 1 .. i = (1 .. (i - 1)) \cup {i}
      OBVIOUS
    <3> QED
      BY <2>1, <3>1
  <2>4. \A e \in First(i - 1) : e[1] # c
    <3>1. \A j \in 1 .. (i - 1) : commands[j] # c
      BY <1>2, <2>1
    <3> QED
      BY <3>1
  <2>5. c.source = o /\ c.target = t /\ c.sequence \in Nat /\ c \in Commands(o, t)
        /\ c = Command(t, o, c.sequence, c.cell) /\ (Valid(o, t) => c.cell \in Cell \ InvalidCell)
    <3>1. Valid(o, t) => Cells(o, t)[i] \in Cell \ InvalidCell
      BY <1>1 DEF Valid
    <3> QED
      BY <1>2, <1>5, <2>1, <3>1
  <2> HIDE DEF First
  <2>6. ASSUME SubmitStatus(before, c.cell, InvalidCell) = "Ok"
        PROVE  /\ QueueShape(now)
               /\ Cardinality(q.pending) <= Cardinality(now.pending)
               /\ \A s \in Peer \ {o} : now.next[s] = q.next[s]
               /\ Novel => now.pending \subseteq q.pending \cup First(i)
               /\ Valid(o, t) /\ Cardinality(now.pending) < MaxPending /\ Novel
                    => now.pending = q.pending \cup First(i)
    <3>1. now = SubmitStamped(before, c)
      BY <2>2, <2>6 DEF SubmitRemote
    <3>2. c.cell \in Cell /\ Cardinality(before.pending) < MaxPending
      <4>1. ~ (Cardinality(before.pending) >= MaxPending) /\ c.cell \in Cell
        BY <2>6 DEF SubmitStatus
      <4> QED
        BY <1>6, <2>2, <4>1, MaxPendingAssumption
    <3>3. c \in Cmd
      BY <2>5, <3>2 DEF Cmd, Command
    <3>4. /\ QueueShape(now)
          /\ Cardinality(before.pending) <= Cardinality(now.pending)
          /\ \A s \in Peer \ {o} : now.next[s] = before.next[s]
          /\ (\A e \in before.pending : e[1] # c) => now.pending = before.pending \cup {<<c, 1>>}
      BY <2>2, <2>5, <3>1, <3>3, StampedIs
    <3>5. Valid(o, t) /\ Novel => now.pending = q.pending \cup First(i)
      <4> SUFFICES ASSUME Valid(o, t), Novel PROVE now.pending = q.pending \cup First(i)
        OBVIOUS
      <4>1. before.pending = q.pending \cup First(i - 1)
        BY <2>2, <3>2
      <4>2. \A e \in before.pending : e[1] # c
        BY <2>4, <2>5, <4>1
      <4> QED
        BY <2>3, <3>4, <4>1, <4>2
    <3>6. Cardinality(q.pending) <= Cardinality(now.pending)
      BY <1>6, <2>2, <3>4
    <3>7. \A s \in Peer \ {o} : now.next[s] = q.next[s]
      BY <2>2, <3>4
    <3>8. Novel => now.pending \subseteq q.pending \cup First(i)
      <4> SUFFICES ASSUME Novel PROVE now.pending \subseteq q.pending \cup First(i)
        OBVIOUS
      <4>1. before.pending \subseteq q.pending \cup First(i - 1)
        BY <2>2
      <4>2. \A e \in before.pending : e[1] # c
        BY <2>4, <2>5, <4>1
      <4> QED
        BY <2>3, <3>4, <4>1, <4>2
    <3> QED
      BY <3>4, <3>5, <3>6, <3>7, <3>8
  <2>7. ASSUME SubmitStatus(before, c.cell, InvalidCell) # "Ok"
        PROVE  /\ QueueShape(now)
               /\ Cardinality(q.pending) <= Cardinality(now.pending)
               /\ \A s \in Peer \ {o} : now.next[s] = q.next[s]
               /\ Novel => now.pending \subseteq q.pending \cup First(i)
               /\ Valid(o, t) /\ Cardinality(now.pending) < MaxPending /\ Novel
                    => now.pending = q.pending \cup First(i)
    <3>1. now = before
      BY <2>2, <2>7 DEF SubmitRemote
    <3>2. Valid(o, t) => ~ (Cardinality(now.pending) < MaxPending)
      <4>1. Valid(o, t) => Cardinality(before.pending) >= MaxPending
        BY <2>5, <2>7 DEF SubmitStatus
      <4> QED
        BY <1>6, <2>2, <3>1, <4>1, MaxPendingAssumption
    <3> QED
      BY <2>2, <2>3, <3>1, <3>2
  <2>8. /\ QueueShape(now)
        /\ Cardinality(q.pending) <= Cardinality(now.pending)
        /\ \A s \in Peer \ {o} : now.next[s] = q.next[s]
        /\ Novel => now.pending \subseteq q.pending \cup First(i)
        /\ Valid(o, t) /\ Cardinality(now.pending) < MaxPending /\ Novel
             => now.pending = q.pending \cup First(i)
    BY <2>6, <2>7
  <2>9. Good(i)
    BY <2>1, <2>8
  <2>10. i \in 0 .. n
    OBVIOUS
  <2> QED
    BY <2>9, <2>10
<1>9. First(n) = {<<c, 1>> : c \in Commands(o, t)}
  BY <1>2
<1> HIDE DEF S
<1>10. n \in S
  <2>1. \A i \in 0 .. n : i \in S
    BY <1>7, <1>8, Climbs
  <2> QED
    BY <2>1
<1> HIDE DEF First
<1>11. Good(n)
  BY <1>10 DEF S
<1> QED
  BY <1>4, <1>9, <1>11

GateShape(g) ==
  /\ g = [floor |-> g.floor, expected |-> g.expected]
  /\ g.floor \in Nat /\ g.expected \in [ExpectedSources(g) -> Progress]

\* A mark is one more turn, unless it is refused or there already.
LEMMA MarkIs ==
  ASSUME NEW g, GateShape(g), NEW s, NEW t \in Nat, NEW after, after = MarkComplete(g, s, t)
  PROVE  /\ GateShape(after) /\ after.floor = g.floor /\ ExpectedSources(after) = ExpectedSources(g)
         /\ \A r \in ExpectedSources(g) :
              CompletedTicks(after.expected[r]) =
                IF r = s /\ after # g THEN CompletedTicks(g.expected[r]) \cup {t} ELSE CompletedTicks(g.expected[r])
         /\ MarkStatus(g, s, t) = "Ok" /\ t >= g.floor =>
              s \in ExpectedSources(g) /\ t \in CompletedTicks(after.expected[s])
<1>1. /\ g = [floor |-> g.floor, expected |-> g.expected]
      /\ g.floor \in Nat /\ g.expected \in [ExpectedSources(g) -> Progress]
  BY DEF GateShape
<1>2. CASE MarkStatus(g, s, t) # "Ok" \/ IsDuplicate(g, s, t)
  <2>1. after = g
    BY <1>2 DEF MarkComplete
  <2>2. MarkStatus(g, s, t) = "Ok" /\ t >= g.floor => s \in ExpectedSources(g) /\ t \in CompletedTicks(g.expected[s])
    <3> SUFFICES ASSUME MarkStatus(g, s, t) = "Ok", t >= g.floor
                 PROVE  s \in ExpectedSources(g) /\ t \in CompletedTicks(g.expected[s])
      OBVIOUS
    <3>1. s \in ExpectedSources(g)
      BY DEF MarkStatus
    <3>2. g.expected[s].completeBefore \in Nat
      BY <1>1, <3>1 DEF Progress
    <3>3. t < g.expected[s].completeBefore
      BY <1>1, <1>2 DEF IsDuplicate, CompletedBefore
    <3> QED
      BY <3>1, <3>2, <3>3 DEF CompletedTicks
  <2> QED
    BY <2>1, <2>2
<1>3. CASE MarkStatus(g, s, t) = "Ok" /\ ~ IsDuplicate(g, s, t)
  <2>1. s \in ExpectedSources(g)
    BY <1>3 DEF MarkStatus
  <2>2. PICK cb, ahead : cb = g.expected[s].completeBefore /\ ahead = g.expected[s].ahead
    OBVIOUS
  <2>3. cb \in Nat /\ ahead \in SUBSET Offset
    BY <1>1, <2>1, <2>2 DEF Progress
  <2>4. t >= cb /\ t - cb < Lookahead
    <3>1. ~ (t < cb) /\ ~ (t - cb >= Lookahead)
      BY <1>3, <2>1, <2>2 DEF MarkStatus, IsDuplicate, CompletedBefore
    <3> QED
      BY <2>3, <3>1, LookaheadAssumption
  <2>5. t - cb \in Offset
    BY <2>3, <2>4, LookaheadAssumption DEF Offset
  <2>6. PICK window : window = ahead \cup {t - cb} /\ window \in SUBSET Offset
    BY <2>3, <2>5
  <2>7. PICK new : new = Absorb(cb, window)
    OBVIOUS
  <2>8. /\ new \in Progress
        /\ CompletedTicks(new) = 0 .. (cb - 1) \cup {cb + offset : offset \in window}
    BY <2>3, <2>6, <2>7, AbsorbKeepsTurns
  <2>9. CompletedTicks(g.expected[s]) = 0 .. (cb - 1) \cup {cb + offset : offset \in ahead}
    BY <2>2 DEF CompletedTicks
  <2>10. CompletedTicks(new) = CompletedTicks(g.expected[s]) \cup {t}
    <3>1. cb + (t - cb) = t
      BY <2>3
    <3>2. {cb + offset : offset \in window} = {cb + offset : offset \in ahead} \cup {cb + (t - cb)}
      BY <2>6
    <3> QED
      BY <2>8, <2>9, <3>1, <3>2
  <2>11. after.expected = [g.expected EXCEPT ![s] = new] /\ after.floor = g.floor
         /\ after = [floor |-> after.floor, expected |-> after.expected]
    <3>1. after = [g EXCEPT !.expected = [g.expected EXCEPT ![s] = new]]
      BY <1>3, <2>1, <2>2, <2>6, <2>7 DEF MarkComplete
    <3> QED
      BY <1>1, <3>1
  <2>12. /\ after.expected \in [ExpectedSources(g) -> Progress]
         /\ after.expected[s] = new
         /\ \A r \in ExpectedSources(g) \ {s} : after.expected[r] = g.expected[r]
    BY <1>1, <2>1, <2>8, <2>11
  <2>13. ExpectedSources(after) = ExpectedSources(g)
    BY <2>12 DEF ExpectedSources
  <2>14. GateShape(after)
    BY <1>1, <2>11, <2>12, <2>13 DEF GateShape
  <2>15. after = g => CompletedTicks(g.expected[s]) = CompletedTicks(g.expected[s]) \cup {t}
    BY <2>10, <2>12
  <2> QED
    BY <2>1, <2>10, <2>11, <2>12, <2>13, <2>14, <2>15
<1> QED
  BY <1>2, <1>3
------------------------------------------------------------------------------
\* The handlers.
LEMMA FailIsQuiet ==
  ASSUME NEW n, Shape(n), Listed(n.pending), NEW code, code # "None"
  PROVE  Quiet(n, Fail(n, code)) /\ ~ Succeeded(Fail(n, code))
<1>1. /\ Fail(n, code).error = code
      /\ Shape(Fail(n, code))
      /\ \A f \in NodeFields \ {"error"} : Fail(n, code)[f] = n[f]
  BY DEF Fail, Shape, NodeFields
<1> QED
  BY <1>1 DEF Quiet, NodeFields, Succeeded

\* n2 differs from n in none but these fields.
Alike(n, n2, fields) == Shape(n2) /\ \A f \in NodeFields \ fields : n2[f] = n[f]

Aside == {"error", "diverged", "heard", "agreed", "peers", "turnsFrom", "finish", "peerFinish",
          "checkpoints", "compared", "left", "length"}

\* A change of nothing but what a session keeps beside the turns is quiet.
LEMMA AsideIsQuiet ==
  ASSUME NEW n, Shape(n), Listed(n.pending), Succeeded(n), NEW n2, Alike(n, n2, Aside)
  PROVE  Quiet(n, n2)
<1>1. /\ n2.id = n.id /\ n2.lastSent = n.lastSent /\ n2.gate = n.gate /\ n2.queue = n.queue
      /\ n2.kernel = n.kernel /\ n2.drops = n.drops /\ n2.dropped = n.dropped
      /\ n2.pending = n.pending /\ n2.state = n.state /\ Shape(n2)
  BY DEF Alike, NodeFields, Aside
<1> QED
  BY <1>1 DEF Quiet

\* Comparing a check is quiet.
LEMMA ComparedIsQuiet ==
  ASSUME NEW n, Shape(n), Listed(n.pending), Succeeded(n), NEW from, NEW check, NEW mine
  PROVE  Quiet(n, CompareCheck(n, from, check, mine))
<1>1. CASE mine.hash = check.hash
  <2>1. PICK n2 : n2 = [n EXCEPT !.compared[from] = Later(@, check.tick)]
    OBVIOUS
  <2>2. Alike(n, n2, Aside)
    BY <2>1 DEF Alike, Aside, Shape, NodeFields
  <2> QED
    BY <1>1, <2>1, <2>2, AsideIsQuiet DEF CompareCheck
<1>2. CASE mine.hash # check.hash
  <2>1. PICK n2 : n2 = Fail([n EXCEPT !.diverged = TRUE], "IntegrityCheckFailed")
    OBVIOUS
  <2>2. Alike(n, n2, Aside)
    BY <2>1 DEF Alike, Aside, Shape, NodeFields, Fail
  <2> QED
    BY <1>2, <2>1, <2>2, AsideIsQuiet DEF CompareCheck
<1> QED
  BY <1>1, <1>2

\* Taking a check is quiet.
LEMMA CheckIsQuiet ==
  ASSUME NEW n, Shape(n), Listed(n.pending), Succeeded(n), NEW from, NEW check
  PROVE  Quiet(n, AcceptCheck(n, from, check))
<1>1. \A code \in {"InvalidArgument", "Exhausted"} : Quiet(n, Fail(n, code))
  BY FailIsQuiet
<1>2. \A mine : Quiet(n, CompareCheck(n, from, check, mine))
  BY ComparedIsQuiet
<1>3. Quiet(n, [n EXCEPT !.pending = Append(@, check)])
  <2>1. PICK longer : longer = Append(n.pending, check) /\ Listed(longer)
    BY AppendIs
  <2>2. PICK n2 : n2 = [n EXCEPT !.pending = longer]
    OBVIOUS
  <2>3. n2.pending = longer /\ Shape(n2) /\ \A f \in NodeFields \ {"pending"} : n2[f] = n[f]
    BY <2>2 DEF Shape, NodeFields
  <2>4. Quiet(n, n2)
    BY <2>1, <2>3 DEF Quiet, NodeFields, Succeeded
  <2> QED
    BY <2>1, <2>2, <2>4
<1>4. \/ AcceptCheck(n, from, check) \in {Fail(n, "InvalidArgument"), Fail(n, "Exhausted")}
      \/ \E mine : AcceptCheck(n, from, check) = CompareCheck(n, from, check, mine)
      \/ AcceptCheck(n, from, check) = [n EXCEPT !.pending = Append(@, check)]
  <2>1. PICK own : own = n.checkpoints[Earliest(Mine(n, check.tick))]
    OBVIOUS
  <2> QED
    BY <2>1 DEF AcceptCheck, CompareOrHold, Refuse
<1> QED
  BY <1>1, <1>2, <1>3, <1>4

\* Every message but an announcement and a turn is quiet where a loss ends the
\* session.
LEMMA OtherIsQuiet ==
  ASSUME NEW n, Shape(n), Listed(n.pending), Succeeded(n), NEW from, NEW message,
         Policy = "End", message.type \in Kinds \ {"Hello", "Turn"}
  PROVE  Quiet(n, Handle(n, from, message))
<1>1. \A code \in {"InvalidArgument", "Unavailable"} : Quiet(n, Fail(n, code))
  BY FailIsQuiet
<1>2. CASE message.type = "HashCheck"
  BY <1>2, CheckIsQuiet DEF Handle
<1>3. CASE message.type = "Finish"
  <2>1. PICK recorded : recorded = [n EXCEPT !.peerFinish[from] = message.tick]
    OBVIOUS
  <2>2. Alike(n, recorded, Aside) /\ recorded.error = n.error
    BY <2>1 DEF Alike, Aside, Shape, NodeFields
  <2>3. Alike(n, Fail(recorded, "InvalidArgument"), Aside)
    BY <2>1 DEF Alike, Aside, Shape, NodeFields, Fail
  <2>4. Handle(n, from, message) \in {Fail(n, "InvalidArgument"), Fail(recorded, "InvalidArgument"), recorded}
    BY <1>3, <2>1 DEF Handle, AcceptFinish, Refuse
  <2> QED
    BY <1>1, <2>2, <2>3, <2>4, AsideIsQuiet
<1>4. CASE message.type = "Bye"
  <2>1. Handle(n, from, message) = Fail(n, "Unavailable")
    BY <1>4 DEF Handle, AcceptBye
  <2> QED
    BY <1>1, <2>1
<1>5. CASE message.type = "Drop"
  <2>1. Handle(n, from, message) = Fail(n, "InvalidArgument")
    BY <1>5 DEF Handle, AcceptDrop, Refuse
  <2> QED
    BY <1>1, <2>1
<1> QED
  BY <1>2, <1>3, <1>4, <1>5 DEF Kinds

\* The last announcement opens the session: everyone is expected, nobody has
\* completed anything.
LEMMA HelloHandled ==
  ASSUME NEW p \in Peer, NEW n, Local(p, n), Succeeded(n), NEW from, NEW message,
         message.type = "Hello", NEW n2, n2 = Handle(n, from, message)
  PROVE  /\ Local(p, n2) /\ Onward(n, n2) /\ Now(n2) = Now(n)
         /\ \A q \in Peer, t \in Nat : Marked(n2, q, t) => Marked(n, q, t)
<1>1. Shape(n) /\ Listed(n.pending) /\ GateOK(n)
  BY DEF Local
<1>2. CASE Quiet(n, n2)
  BY <1>2, QuietIs
<1> DEFINE opened(g) == ExpectSources(g, Peer)
           open(g, heard, agreed) ==
             [n EXCEPT !.heard = heard, !.agreed = agreed, !.peers = Peer, !.gate = g, !.state = "Running"]
<1>3. \/ n2 = Fail(n, "VersionMismatch")
      \/ \E heard : n2 = [n EXCEPT !.heard = heard]
      \/ \E heard, agreed : n2 = open(opened(n.gate), heard, agreed)
  <2>1. n2 = AcceptHello(n, from, message)
    BY DEF Handle
  <2>2. PICK heard : heard = [n.heard EXCEPT ![from] = message.delay, ![n.id] = Delay[n.id]]
    OBVIOUS
  <2>3. PICK agreed : agreed = Latest({heard[q] : q \in Peer})
    OBVIOUS
  <2>4. n2 \in {Fail(n, "VersionMismatch"), [n EXCEPT !.heard = heard],
                [n EXCEPT !.heard = heard, !.agreed = agreed, !.peers = Peer,
                          !.gate = ExpectSources(@, Peer), !.state = "Running"]}
    BY <2>1, <2>2, <2>3 DEF AcceptHello, Refuse
  <2> QED
    BY <2>4
<1>4. CASE n2 = Fail(n, "VersionMismatch")
  BY <1>1, <1>2, <1>4, FailIsQuiet
<1>5. CASE \E heard : n2 = [n EXCEPT !.heard = heard]
  <2>1. Alike(n, n2, Aside)
    BY <1>1, <1>5 DEF Alike, Aside, Shape, NodeFields
  <2> QED
    BY <1>1, <1>2, <2>1, AsideIsQuiet
<1>6. CASE \E heard, agreed : n2 = open(opened(n.gate), heard, agreed)
  <2>1. /\ Shape(n2) /\ n2.gate = opened(n.gate) /\ n2.state = "Running"
        /\ \A f \in NodeFields \ {"heard", "agreed", "peers", "gate", "state"} : n2[f] = n[f]
    <3>1. PICK heard, agreed, g : n2 = open(g, heard, agreed) /\ g = opened(n.gate)
      BY <1>6
    <3> HIDE DEF opened
    <3> QED
      BY <1>1, <3>1 DEF Shape, NodeFields
  <2>2. /\ n2.id = n.id /\ n2.lastSent = n.lastSent /\ n2.queue = n.queue /\ n2.kernel = n.kernel
        /\ n2.drops = n.drops /\ n2.dropped = n.dropped /\ n2.pending = n.pending /\ n2.error = n.error
    BY <2>1 DEF NodeFields
  <2>3. CASE ExpectedSources(n.gate) = Peer
    <3>1. n2.gate = n.gate
      <4>1. /\ n.gate = [floor |-> n.gate.floor, expected |-> n.gate.expected]
            /\ n.gate.expected \in [Peer -> Progress]
        BY <1>1, <2>3 DEF GateOK
      <4>2. [s \in Peer |-> IF s \in ExpectedSources(n.gate) THEN n.gate.expected[s] ELSE Fresh(n.gate.floor)]
              = n.gate.expected
        BY <2>3, <4>1
      <4> QED
        BY <2>1, <4>1, <4>2 DEF ExpectSources
    <3>2. Quiet(n, n2)
      BY <1>1, <2>1, <2>2, <2>3, <3>1 DEF Quiet, Succeeded
    <3> QED
      BY <1>2, <3>2
  <2>4. CASE ExpectedSources(n.gate) = {} /\ n.gate.floor = 0
    <3>1. n2.gate = [floor |-> 0, expected |-> [s \in Peer |-> Fresh(0)]]
      <4>1. n.gate = [floor |-> n.gate.floor, expected |-> n.gate.expected]
        BY <1>1 DEF GateOK
      <4> QED
        BY <2>1, <2>4, <4>1 DEF ExpectSources
    <3>2. Fresh(0) \in Progress /\ CompletedTicks(Fresh(0)) = {}
      BY DEF Fresh, Progress, CompletedTicks
    <3>3. /\ ExpectedSources(n2.gate) = Peer /\ n2.gate.floor = 0
          /\ n2.gate.expected \in [Peer -> Progress]
          /\ n2.gate = [floor |-> n2.gate.floor, expected |-> n2.gate.expected]
          /\ \A q \in Peer : CompletedTicks(n2.gate.expected[q]) = {}
      BY <3>1, <3>2 DEF ExpectedSources
    <3>4. \A q, t : ~ Marked(n2, q, t) /\ ~ Marked(n, q, t)
      BY <2>4, <3>3 DEF Marked
    <3>5. \A q, t : Has(n2, q, t) <=> Has(n, q, t)
      BY <2>2, <3>4 DEF Has
    <3>6. Now(n2) = Now(n) /\ (HasRoom(n2) <=> HasRoom(n)) /\ (Succeeded(n2) <=> Succeeded(n))
      BY <2>2 DEF Now, HasRoom, Succeeded
    <3>7. Now(n) \in Nat
      BY DEF Local, KernelOK, Now
    <3>8. GateOK(n2)
      BY <3>3, <3>6, <3>7 DEF GateOK
    <3>9. (Within(n) => Within(n2)) /\ (Exact(n) => Exact(n2))
      BY <2>2, <3>5, <3>6 DEF Exact, Within
    <3>10. Sound(n2)
      BY <2>2, <3>6, <3>9 DEF Local, Sound
    <3>11. Onward(n, n2)
      BY <2>2, <3>6 DEF Onward, Spoke
    <3>12. QueueOK(n2) /\ KernelOK(n2)
      BY <2>2 DEF Local, QueueOK, KernelOK
    <3>13. Local(p, n2)
      BY <2>1, <2>2, <3>6, <3>8, <3>10, <3>12 DEF Local
    <3> QED
      BY <3>4, <3>6, <3>11, <3>13
  <2> QED
    BY <1>1, <2>3, <2>4 DEF GateOK
<1> QED
  BY <1>3, <1>4, <1>5, <1>6
\* A turn that was not held is filed whole and marked, and nothing else is.
LEMMA TurnHandled ==
  ASSUME Works, NEW p \in Peer, NEW n, Local(p, n), Succeeded(n), NEW o \in Peer, o # p,
         NEW t \in Nat, Valid(o, t), ~ Has(n, o, t),
         NEW n2, n2 = Handle(n, o, Turn(o, t, Said(o, t)))
  PROVE  /\ Local(p, n2) /\ Onward(n, n2) /\ Now(n2) = Now(n)
         /\ \A q \in Peer, s \in Nat : Marked(n2, q, s) => Marked(n, q, s) \/ (q = o /\ s = t)
<1>1. Shape(n) /\ Listed(n.pending) /\ GateOK(n) /\ QueueOK(n) /\ KernelOK(n) /\ Sound(n) /\ n.id = p
  BY DEF Local
<1>2. PICK k, commands : k = Len(Cells(o, t)) /\ commands = Said(o, t)
  OBVIOUS
<1>3. /\ k \in Nat /\ DOMAIN commands = 1 .. k
      /\ \A i \in 1 .. k : commands[i].source = o
  BY <1>2, SaidIs
<1>4. PICK queue : queue = Submitted(n.queue, commands)[Len(commands)]
  OBVIOUS
<1>5. QueueShape(n.queue)
  BY <1>1 DEF QueueOK, QueueShape
<1>6. /\ QueueShape(queue)
      /\ Cardinality(n.queue.pending) <= Cardinality(queue.pending)
      /\ \A s \in Peer \ {o} : queue.next[s] = n.queue.next[s]
      /\ (\A e \in n.queue.pending : e[1] \notin Commands(o, t)) =>
           /\ queue.pending \subseteq n.queue.pending \cup {<<c, 1>> : c \in Commands(o, t)}
           /\ Cardinality(queue.pending) < MaxPending
                => queue.pending = n.queue.pending \cup {<<c, 1>> : c \in Commands(o, t)}
  BY <1>2, <1>4, <1>5, SubmittedIs
<1>7. PICK turns : turns = [n.turnsFrom EXCEPT ![o] = @ + 1]
  OBVIOUS
<1>8. PICK filed : filed = [n EXCEPT !.queue = queue, !.turnsFrom = turns]
  OBVIOUS
<1>9. PICK g : g = MarkComplete(n.gate, o, t)
  OBVIOUS
<1>10. \/ n2 = Fail(n, "InvalidArgument")
       \/ n2 = Fail(filed, "OutOfRange")
       \/ /\ n2 = [filed EXCEPT !.gate = g]
          /\ MarkStatus(n.gate, o, t) = "Ok" /\ ~ (t < Now(n))
  <2>1. PICK turn : turn = Turn(o, t, Said(o, t))
    OBVIOUS
  <2>2. turn.type = "Turn" /\ turn.source = o /\ turn.tick = t /\ turn.commands = commands
    BY <1>2, <2>1 DEF Turn
  <2>3. n2 = AcceptTurn(n, o, turn)
    BY <2>1, <2>2 DEF Handle
  <2>4. \A i \in DOMAIN turn.commands : turn.commands[i].source = o
    BY <1>3, <2>2
  <2>5. filed = [n EXCEPT !.queue = Submitted(@, turn.commands)[Len(turn.commands)], !.turnsFrom[o] = @ + 1]
    BY <1>4, <1>7, <1>8, <2>2
  <2>6. filed.gate = n.gate
    BY <1>1, <1>8 DEF Shape, NodeFields
  <2>7. [filed EXCEPT !.gate = MarkComplete(@, o, turn.tick)] = [filed EXCEPT !.gate = g]
    BY <1>9, <2>2, <2>6
  <2>8. n2 = Refuse(t < Now(n), n, "InvalidArgument",
               Refuse(MarkStatus(n.gate, o, t) # "Ok", filed, "OutOfRange", [filed EXCEPT !.gate = g]))
    BY <2>2, <2>3, <2>4, <2>5, <2>7 DEF AcceptTurn
  <2> QED
    BY <2>8 DEF Refuse
<1>11. CASE n2 = Fail(n, "InvalidArgument")
  <2>1. Quiet(n, n2)
    BY <1>1, <1>11, FailIsQuiet
  <2> QED
    BY <2>1, QuietIs
<1>12. CASE n2 = Fail(filed, "OutOfRange")
  <2>1. /\ Shape(n2) /\ n2.queue = queue /\ n2.error = "OutOfRange"
        /\ \A f \in NodeFields \ {"queue", "turnsFrom", "error"} : n2[f] = n[f]
    BY <1>1, <1>8, <1>12 DEF Shape, NodeFields, Fail
  <2>2. /\ n2.id = n.id /\ n2.lastSent = n.lastSent /\ n2.gate = n.gate /\ n2.kernel = n.kernel
        /\ n2.drops = n.drops /\ n2.dropped = n.dropped /\ n2.pending = n.pending /\ n2.state = n.state
    BY <2>1 DEF NodeFields
  <2>3. ~ Succeeded(n2) /\ Now(n2) = Now(n)
    BY <2>1, <2>2 DEF Succeeded, Now
  <2>4. GateOK(n2)
    BY <1>1, <2>2, <2>3 DEF GateOK
  <2>5. QueueOK(n2) /\ KernelOK(n2)
    BY <1>1, <1>6, <2>1, <2>2 DEF QueueOK, QueueShape, KernelOK
  <2>6. Local(p, n2)
    BY <2>1, <2>2, <2>3, <2>4, <2>5 DEF Local, Sound
  <2>7. Onward(n, n2)
    BY <2>2, <2>3 DEF Onward, Spoke
  <2>8. \A q, s : Marked(n2, q, s) <=> Marked(n, q, s)
    BY <2>2 DEF Marked
  <2> QED
    BY <2>3, <2>6, <2>7, <2>8
<1>13. CASE /\ n2 = [filed EXCEPT !.gate = g]
            /\ MarkStatus(n.gate, o, t) = "Ok" /\ ~ (t < Now(n))
  <2>1. /\ Shape(n2) /\ n2.queue = queue /\ n2.gate = g
        /\ \A f \in NodeFields \ {"queue", "turnsFrom", "gate"} : n2[f] = n[f]
    BY <1>1, <1>8, <1>13 DEF Shape, NodeFields
  <2>2. /\ n2.id = n.id /\ n2.lastSent = n.lastSent /\ n2.kernel = n.kernel /\ n2.error = n.error
        /\ n2.drops = n.drops /\ n2.dropped = n.dropped /\ n2.pending = n.pending /\ n2.state = n.state
    BY <2>1 DEF NodeFields
  <2>3. Succeeded(n2) /\ Now(n2) = Now(n) /\ Now(n) \in Nat /\ n.gate.floor \in Nat /\ n.gate.floor <= Now(n)
    BY <1>1, <2>1, <2>2 DEF Succeeded, Now, KernelOK, GateOK
  <2>4. t >= Now(n) /\ t >= n.gate.floor
    BY <1>13, <2>3
  <2>5. GateShape(n.gate)
    BY <1>1 DEF GateOK, GateShape
  <2>6. /\ GateShape(g) /\ g.floor = n.gate.floor /\ ExpectedSources(g) = ExpectedSources(n.gate)
        /\ \A r \in ExpectedSources(n.gate) :
             CompletedTicks(g.expected[r]) =
               IF r = o /\ g # n.gate THEN CompletedTicks(n.gate.expected[r]) \cup {t}
               ELSE CompletedTicks(n.gate.expected[r])
        /\ o \in ExpectedSources(n.gate) /\ t \in CompletedTicks(g.expected[o])
    <3>1. PICK gate : gate = n.gate
      OBVIOUS
    <3>2. GateShape(gate) /\ g = MarkComplete(gate, o, t) /\ MarkStatus(gate, o, t) = "Ok" /\ t >= gate.floor
      BY <1>9, <1>13, <2>4, <2>5, <3>1
    <3>3. /\ GateShape(g) /\ g.floor = gate.floor /\ ExpectedSources(g) = ExpectedSources(gate)
          /\ \A r \in ExpectedSources(gate) :
               CompletedTicks(g.expected[r]) =
                 IF r = o /\ g # gate THEN CompletedTicks(gate.expected[r]) \cup {t}
                 ELSE CompletedTicks(gate.expected[r])
      BY <3>2, MarkIs
    <3>4. o \in ExpectedSources(gate) /\ t \in CompletedTicks(g.expected[o])
      BY <3>2, MarkIs
    <3> QED
      BY <3>1, <3>3, <3>4
  <2>7. ASSUME NEW q \in Peer, NEW s \in Nat
        PROVE  Marked(n2, q, s) <=> Marked(n, q, s) \/ (q = o /\ s = t)
    BY <2>1, <2>6 DEF Marked
  <2>8. ASSUME NEW q \in Peer, NEW s \in Nat
        PROVE  Has(n2, q, s) <=> Has(n, q, s) \/ (q = o /\ s = t)
    BY <1>1, <2>2, <2>7 DEF Has
  <2>9. GateOK(n2)
    <3>1. ExpectedSources(n.gate) = Peer
      BY <1>1, <2>6 DEF GateOK
    <3> QED
      BY <2>1, <2>3, <2>6, <3>1 DEF GateOK, GateShape
  <2>10. QueueOK(n2) /\ KernelOK(n2)
    BY <1>1, <1>6, <2>1, <2>2 DEF QueueOK, QueueShape, KernelOK
  <2>11. Cardinality(n.queue.pending) \in Nat /\ Cardinality(queue.pending) \in Nat
    BY <1>5, <1>6, FS_CardinalityType DEF QueueShape
  <2>12. HasRoom(n2) => HasRoom(n)
    BY <1>6, <2>1, <2>11, MaxPendingAssumption DEF HasRoom
  <2>13. ASSUME NEW e \in n.queue.pending
         PROVE  e[1] \notin Commands(o, t)
    <3> SUFFICES ASSUME e[1] \in Commands(o, t) PROVE FALSE
      OBVIOUS
    <3>1. e[1].source = o /\ e[1].target = t
      BY CommandsAreSaid
    <3>2. Within(n)
      BY <1>1 DEF Sound
    <3> QED
      BY <3>1, <3>2 DEF Within
  <2>14. Within(n2)
    <3>1. ASSUME NEW e \in queue.pending
          PROVE  /\ e[2] = 1 /\ e[1].target >= Now(n2)
                 /\ Has(n2, e[1].source, e[1].target)
                 /\ e[1] \in Commands(e[1].source, e[1].target)
      <4>1. CASE e \in n.queue.pending
        <5>1. /\ e[2] = 1 /\ e[1].target >= Now(n)
              /\ Has(n, e[1].source, e[1].target)
              /\ e[1] \in Commands(e[1].source, e[1].target)
          BY <1>1, <4>1 DEF Sound, Within
        <5>2. e[1].source \in Peer /\ e[1].target \in Nat
          BY <1>6, <3>1 DEF QueueShape, Entry, Cmd
        <5> QED
          BY <2>3, <2>8, <5>1, <5>2
      <4>2. CASE \E c \in Commands(o, t) : e = <<c, 1>>
        <5>1. PICK c \in Commands(o, t) : e[1] = c /\ e[2] = 1
          BY <4>2
        <5>2. c.source = o /\ c.target = t
          BY CommandsAreSaid
        <5> QED
          BY <2>3, <2>4, <2>8, <5>1, <5>2
      <4>3. e \in n.queue.pending \/ \E c \in Commands(o, t) : e = <<c, 1>>
        BY <1>6, <2>13, <3>1
      <4> QED
        BY <4>1, <4>2, <4>3
    <3> QED
      BY <2>1, <3>1 DEF Within
  <2>15. ASSUME HasRoom(n2)
         PROVE  Exact(n2)
    <3>1. Exact(n)
      BY <1>1, <2>12, <2>15 DEF Sound
    <3>2. queue.pending = n.queue.pending \cup {<<c, 1>> : c \in Commands(o, t)}
      BY <1>6, <2>1, <2>13, <2>15 DEF HasRoom
    <3>3. ASSUME NEW q \in Peer, NEW s \in Nat, s >= Now(n2), Has(n2, q, s), NEW c \in Commands(q, s)
          PROVE  <<c, 1>> \in queue.pending
      <4>1. CASE Has(n, q, s)
        BY <2>3, <3>1, <3>2, <3>3, <4>1 DEF Exact
      <4>2. CASE q = o /\ s = t
        BY <3>2, <3>3, <4>2
      <4> QED
        BY <2>8, <3>3, <4>1, <4>2
    <3> QED
      BY <2>1, <2>14, <3>3 DEF Exact
  <2>16. Sound(n2)
    <3>1. n2.queue.next[p] = n.queue.next[p]
      BY <1>6, <2>1
    <3>2. n.queue.next[n.id] = Base(n.id, n.lastSent + 1)
      BY <1>1 DEF Sound
    <3> QED
      BY <1>1, <2>2, <2>14, <2>15, <3>1, <3>2 DEF Sound
  <2>17. Local(p, n2)
    BY <2>1, <2>2, <2>3, <2>9, <2>10, <2>16 DEF Local
  <2>18. Onward(n, n2)
    BY <2>2, <2>3 DEF Onward, Spoke, Succeeded
  <2> QED
    BY <2>3, <2>7, <2>17, <2>18
<1> QED
  BY <1>10, <1>11, <1>12, <1>13
------------------------------------------------------------------------------
\* What a peer's handler may change: it holds one turn more, the one it was given.
Handles(p, n, o, message, n2) ==
  /\ Local(p, n2) /\ Onward(n, n2) /\ Now(n2) = Now(n)
  /\ \A q \in Peer, t \in Nat :
       Marked(n2, q, t) => Marked(n, q, t) \/ (q = o /\ message.type = "Turn" /\ t = message.tick)

\* Whatever the message, its handler keeps what the invariant says of the node.
LEMMA HandleHandles ==
  ASSUME Works, Policy = "End", NEW p \in Peer, NEW n, Local(p, n), Succeeded(n), NEW o \in Peer, o # p,
         NEW m, NEW message, Proper(n, o, m, message), NEW n2, n2 = Handle(n, o, message)
  PROVE  Handles(p, n, o, message, n2)
<1>1. CASE message.type = "Hello"
  <2>1. /\ Local(p, n2) /\ Onward(n, n2) /\ Now(n2) = Now(n)
        /\ \A q \in Peer, t \in Nat : Marked(n2, q, t) => Marked(n, q, t)
    BY <1>1, HelloHandled
  <2> QED
    BY <2>1 DEF Handles
<1>2. CASE message.type = "Turn"
  <2>1. PICK t \in Nat : /\ t = message.tick /\ message = Turn(o, t, Said(o, t))
                         /\ Valid(o, t) /\ ~ Has(n, o, t)
    BY <1>2 DEF Proper
  <2>2. n2 = Handle(n, o, Turn(o, t, Said(o, t)))
    BY <2>1
  <2>3. /\ Local(p, n2) /\ Onward(n, n2) /\ Now(n2) = Now(n)
        /\ \A q \in Peer, s \in Nat : Marked(n2, q, s) => Marked(n, q, s) \/ (q = o /\ s = t)
    BY <2>1, <2>2, TurnHandled
  <2> QED
    BY <1>2, <2>1, <2>3 DEF Handles
<1>3. CASE message.type \in Kinds \ {"Hello", "Turn"}
  <2>1. Shape(n) /\ Listed(n.pending)
    BY DEF Local
  <2>2. Quiet(n, n2)
    BY <1>3, <2>1, OtherIsQuiet
  <2>3. /\ Local(p, n2) /\ Onward(n, n2)
        /\ \A q, t : Marked(n2, q, t) <=> Marked(n, q, t)
        /\ Now(n2) = Now(n)
    BY <2>2, QuietIs
  <2> QED
    BY <2>3 DEF Handles
<1> QED
  BY <1>1, <1>2, <1>3 DEF Proper

\* What is left under way when the first message of an inbox is taken out of it.
LEMMA TakenUnderWay ==
  ASSUME NEW links, NetOK(links), NEW p \in Peer, NEW o \in Peer, p # o,
         NEW in, in = links.inbox[<<p, o>>], Len(in) > 0,
         NEW after, after = PutBack(links, p, o, SubSeq(in, 2, Len(in))),
         NEW n, NEW m, NEW n2, UnderWay(links, p, n, o, m),
         Handles(p, n, o, in[1], n2), n.id = p, n2.id = p
  PROVE  UnderWay(after, p, n2, o, m)
<1>0. PICK x \in Peer \X Peer : x = <<p, o>>
  OBVIOUS
<1>1. Listed(in) /\ links.inbox = [e \in Peer \X Peer |-> links.inbox[e]] /\ NetShape(links)
  BY <1>0 DEF NetOK
<1>2. DOMAIN in = 1 .. Len(in) /\ Len(in) \in Nat
  BY <1>1, ListedIs
<1>3. PICK rest : rest = SubSeq(in, 2, Len(in))
  OBVIOUS
<1>4. DOMAIN rest = 1 .. (Len(in) - 1) /\ \A i \in 1 .. (Len(in) - 1) : rest[i] = in[1 + i]
  <2>1. 1 \in 0 .. Len(in) /\ 1 + 1 = 2
    BY <1>2
  <2>2. rest = SubSeq(in, 1 + 1, Len(in))
    BY <1>3, <2>1
  <2> QED
    BY <1>1, <2>1, <2>2, SubSeqIs
<1>5. after.pipe = links.pipe /\ after.inbox[x] = rest
  BY <1>0, <1>1, <1>3 DEF PutBack, NetShape
<1>6. PICK first : first = <<"in", 1>> /\ first[1] = "in" /\ first[2] = 1
  <2>1. <<"in", 1>>[1] = "in" /\ <<"in", 1>>[2] = 1
    OBVIOUS
  <2> QED
    BY <2>1
<1>7. first \in Slots(links, p, o) /\ MessageAt(links, p, o, first) = in[1]
  <2>1. 1 \in DOMAIN in
    BY <1>2
  <2> QED
    BY <1>6, <2>1 DEF Slots, MessageAt
<1> DEFINE g == [s \in Slots(after, p, o) |-> IF s[1] = "in" THEN <<"in", 1 + s[2]>> ELSE s]
<1>8. ASSUME NEW s \in Slots(after, p, o)
      PROVE  /\ g[s] \in Slots(links, p, o)
             /\ MessageAt(after, p, o, s) = MessageAt(links, p, o, g[s])
             /\ g[s] # first
             /\ s[1] = "in" => s[2] \in Nat /\ s = <<"in", s[2]>>
             /\ s[1] # "in" => g[s] = s
  <2>1. CASE \E i \in DOMAIN rest : s = <<"in", i>>
    <3>1. PICK i \in DOMAIN rest : s = <<"in", i>> /\ s[1] = "in" /\ s[2] = i
      BY <2>1
    <3>2. i \in Nat /\ 1 + i \in DOMAIN in /\ rest[i] = in[1 + i] /\ 1 + i # 1
      <4>1. PICK last : last = Len(in) /\ last \in Nat /\ i \in 1 .. (last - 1) /\ DOMAIN in = 1 .. last
        BY <1>2, <1>4
      <4>2. i \in Nat /\ 1 + i \in 1 .. last /\ 1 + i # 1
        BY <4>1
      <4> QED
        BY <1>4, <4>1, <4>2
    <3>3. PICK r : r = g[s] /\ r = <<"in", 1 + i>> /\ r[1] = "in" /\ r[2] = 1 + i
      <4>1. g[s] = <<"in", 1 + i>>
        BY <3>1
      <4>2. <<"in", 1 + i>>[1] = "in" /\ <<"in", 1 + i>>[2] = 1 + i
        OBVIOUS
      <4> QED
        BY <4>1, <4>2
    <3> HIDE DEF g
    <3>4. r \in Slots(links, p, o) /\ MessageAt(links, p, o, r) = in[1 + i]
      BY <3>2, <3>3 DEF Slots, MessageAt
    <3>5. MessageAt(after, p, o, s) = rest[i]
      BY <1>0, <1>5, <3>1 DEF MessageAt
    <3>6. r # first
      BY <1>6, <3>2, <3>3
    <3> QED
      BY <3>1, <3>2, <3>3, <3>4, <3>5, <3>6
  <2>2. CASE s[1] # "in"
    <3>1. g[s] = s
      BY <2>2
    <3>2. \/ s \in {"near"} \X {i \in DOMAIN links.pipe[<<Via(p, o), p>>] : links.pipe[<<Via(p, o), p>>][i].origin = o}
          \/ s \in {"far"} \X (IF Relayed(p, o) THEN DOMAIN links.pipe[<<o, 0>>] ELSE {})
      <4>1. s \notin {"in"} \X DOMAIN after.inbox[<<p, o>>]
        BY <2>2
      <4> QED
        BY <1>5, <4>1 DEF Slots
    <3>3. s \in Slots(links, p, o)
      BY <3>2 DEF Slots
    <3>4. MessageAt(after, p, o, s) = MessageAt(links, p, o, s)
      BY <1>5, <2>2 DEF MessageAt
    <3> QED
      BY <1>6, <2>2, <3>1, <3>3, <3>4
  <2>3. ASSUME s[1] = "in"
        PROVE  \E i \in DOMAIN rest : s = <<"in", i>>
    <3>1. s \in {"in"} \X DOMAIN after.inbox[<<p, o>>]
      BY <2>3 DEF Slots
    <3> QED
      BY <1>0, <1>5, <3>1
  <2> QED
    BY <2>1, <2>2, <2>3
<1>9. ASSUME NEW s \in Slots(after, p, o), NEW r \in Slots(after, p, o), g[s] = g[r]
      PROVE  s = r
  <2>1. CASE s[1] = "in" /\ r[1] = "in"
    <3>1. /\ s[2] \in Nat /\ s = <<"in", s[2]>> /\ g[s] = <<"in", 1 + s[2]>>
          /\ r[2] \in Nat /\ r = <<"in", r[2]>> /\ g[r] = <<"in", 1 + r[2]>>
      BY <1>8, <2>1
    <3>2. 1 + s[2] = 1 + r[2]
      BY <1>9, <3>1
    <3>3. s[2] = r[2]
      BY <3>1, <3>2
    <3> QED
      BY <3>1, <3>3
  <2>2. \A u \in Slots(after, p, o) : u[1] = "in" <=> g[u][1] = "in"
    BY <1>8
  <2> QED
    BY <1>8, <1>9, <2>1, <2>2
<1> HIDE DEF g
<1>10. /\ \A s \in Slots(links, p, o) : Proper(n, o, m, MessageAt(links, p, o, s))
       /\ \A s, r \in Slots(links, p, o) :
            SameTurn(MessageAt(links, p, o, s), MessageAt(links, p, o, r)) => s = r
  BY DEF UnderWay
<1>11. ASSUME NEW s \in Slots(after, p, o)
       PROVE  Proper(n2, o, m, MessageAt(after, p, o, s))
  <2>1. PICK message, u : /\ u = g[s] /\ u \in Slots(links, p, o) /\ u # first
                          /\ message = MessageAt(after, p, o, s) /\ message = MessageAt(links, p, o, u)
    BY <1>8
  <2>2. Proper(n, o, m, message) /\ ~ SameTurn(message, in[1])
    BY <1>7, <1>10, <2>1
  <2>3. ASSUME message.type = "Turn", message.tick \in Nat, Succeeded(n2), Has(n2, o, message.tick)
        PROVE  FALSE
    <3>1. Marked(n2, o, message.tick)
      BY <2>3 DEF Has
    <3>2. Marked(n, o, message.tick)
      BY <2>2, <2>3, <3>1 DEF Handles, SameTurn
    <3>3. Succeeded(n) /\ Has(n, o, message.tick)
      BY <2>3, <3>2 DEF Handles, Onward, Has
    <3> QED
      BY <2>2, <2>3, <3>3 DEF Proper
  <2>4. Proper(n2, o, m, message)
    BY <2>2, <2>3 DEF Proper
  <2> QED
    BY <2>1, <2>4
<1>12. ASSUME NEW s \in Slots(after, p, o), NEW r \in Slots(after, p, o),
              SameTurn(MessageAt(after, p, o, s), MessageAt(after, p, o, r))
       PROVE  s = r
  <2>1. g[s] = g[r]
    BY <1>8, <1>10, <1>12
  <2> QED
    BY <1>9, <2>1
<1> QED
  BY <1>11, <1>12 DEF UnderWay

\* One message read: out of the inbox and into the node.
LEMMA HandledKeeps ==
  ASSUME Works, Policy = "End", NEW N, NEW links, Inv(N, links), NEW p \in Peer, NEW o \in Peer, o # p,
         Succeeded(N[p]), NEW in, in = links.inbox[<<p, o>>], Len(in) > 0,
         NEW n2, n2 = Handle(N[p], o, in[1]),
         NEW after, after = PutBack(links, p, o, SubSeq(in, 2, Len(in)))
  PROVE  Inv([N EXCEPT ![p] = n2], after) /\ Onward(N[p], n2)
<1>1. /\ NetOK(links) /\ N = [q \in Peer |-> N[q]]
      /\ \A q \in Peer : Local(q, N[q])
      /\ \A q \in Peer : Follows(N[p], q, N[q])
      /\ UnderWay(links, p, N[p], o, N[o])
  BY DEF Inv
<1>2. PICK n, m, message, N2 : n = N[p] /\ m = N[o] /\ message = in[1] /\ N2 = [N EXCEPT ![p] = n2]
  OBVIOUS
<1>3. N2[p] = n2 /\ (\A q \in Peer \ {p} : N2[q] = N[q])
  BY <1>1, <1>2
<1>4. Proper(n, o, m, message)
  <2>1. Listed(in) /\ Len(in) \in Nat
    BY <1>1, ListedIs DEF NetOK
  <2>2. 1 \in DOMAIN in
    BY <2>1, ListedIs
  <2>3. <<"in", 1>> \in Slots(links, p, o) /\ MessageAt(links, p, o, <<"in", 1>>) = in[1]
    <3>1. <<"in", 1>>[1] = "in" /\ <<"in", 1>>[2] = 1
      OBVIOUS
    <3> QED
      BY <2>2, <3>1 DEF Slots, MessageAt
  <2> QED
    BY <1>1, <1>2, <2>3 DEF UnderWay
<1>5. Local(p, n) /\ Succeeded(n) /\ n2 = Handle(n, o, message)
  BY <1>1, <1>2
<1>6. Handles(p, n, o, message, n2)
  BY <1>4, <1>5, HandleHandles
<1>7. n.id = p /\ n2.id = p
  BY <1>5, <1>6 DEF Local, Handles
<1>8. UnderWay(after, p, n2, o, m)
  BY <1>1, <1>2, <1>6, <1>7, TakenUnderWay
<1>9. NetOK(after) /\ Moves(links, after)
  <2>1. Listed(in) /\ Len(in) \in Nat
    BY <1>1, ListedIs DEF NetOK
  <2>2. 1 \in 0 .. Len(in) /\ 1 + 1 = 2
    BY <2>1
  <2> QED
    BY <1>1, <2>2, PutBackMoves
<1>10. Carries(links, after, Nobody, 0) /\ Nobody \notin Peer
  <2>1. PeerCount \in Nat /\ Peer = 0 .. (PeerCount - 1)
    BY PeersCounted
  <2> QED
    BY <1>9, <2>1 DEF Nobody, Moves
<1>11. ASSUME NEW q \in Peer \ {p}
       PROVE  \/ \A t \in Nat : Succeeded(n2) /\ Marked(n2, q, t) => Marked(N[p], q, t)
              \/ UnderWay(after, p, n2, q, N2[q])
  BY <1>2, <1>3, <1>6, <1>8 DEF Handles
<1>12. ASSUME NEW q \in Peer
       PROVE  Follows(n2, q, N2[q])
  <2>1. \A t \in Nat : Spoke(N[q], t) => Spoke(N2[q], t)
    BY <1>2, <1>3, <1>6 DEF Handles, Onward
  <2>2. Follows(n, q, N[q])
    BY <1>1, <1>2
  <2>3. Now(n) \in Nat /\ Now(n2) = Now(n)
    BY <1>5, <1>6 DEF Local, KernelOK, Now, Handles
  <2>4. ASSUME NEW t \in Nat, Marked(n2, q, t)
        PROVE  Spoke(N[q], t)
    <3>1. Marked(n, q, t) \/ (q = o /\ message.type = "Turn" /\ t = message.tick)
      BY <1>6, <2>4 DEF Handles
    <3> QED
      BY <1>2, <1>4, <2>2, <3>1 DEF Follows, Proper
  <2>5. Now(n) > 0 => Now(n) - 1 \in Nat
    BY <2>3
  <2> QED
    BY <2>1, <2>2, <2>3, <2>4, <2>5 DEF Follows
<1>13. Local(p, n2) /\ Onward(N[p], n2)
  BY <1>2, <1>6 DEF Handles
<1>14. Inv(N2, after)
  BY <1>2, <1>9, <1>10, <1>11, <1>12, <1>13, InvCarried
<1> QED
  BY <1>2, <1>13, <1>14
------------------------------------------------------------------------------
\* The invariant, with the node of p and the link as a call in the middle has them.
Holds(N, p, cut) ==
  /\ cut = [node |-> cut.node, net |-> cut.net]
  /\ N = [q \in Peer |-> N[q]]
  /\ Inv([N EXCEPT ![p] = cut.node], cut.net)

\* What a cut that holds says of its node and its link.
LEMMA HoldsIs ==
  ASSUME NEW N, NEW p \in Peer, NEW cut, Holds(N, p, cut)
  PROVE  /\ Local(p, cut.node) /\ cut.node.id = p /\ cut.node.drops = <<>> /\ cut.node.dropped = {}
         /\ Shape(cut.node) /\ Listed(cut.node.pending) /\ NetOK(cut.net)
<1>1. [N EXCEPT ![p] = cut.node][p] = cut.node
  BY DEF Holds
<1>2. Local(p, cut.node) /\ NetOK(cut.net)
  BY <1>1 DEF Holds, Inv
<1> QED
  BY <1>2 DEF Local

\* A cut still holds after a quiet change and a broadcast of anything but a turn.
LEMMA HoldsQuiet ==
  ASSUME NEW N, NEW p \in Peer, NEW cut, Holds(N, p, cut), NEW n2, Quiet(cut.node, n2),
         NEW after, NetOK(after), NEW from, NEW message, Carries(cut.net, after, from, message),
         from \in Peer => message.type \in Kinds \ {"Turn"}
  PROVE  Holds(N, p, [node |-> n2, net |-> after])
<1>1. PICK M, M2 : M = [N EXCEPT ![p] = cut.node] /\ M2 = [N EXCEPT ![p] = n2]
  OBVIOUS
<1>2. M[p] = cut.node /\ M2 = [M EXCEPT ![p] = n2] /\ Inv(M, cut.net)
  BY <1>1 DEF Holds
<1>3. Inv(M2, after)
  BY <1>2, InvQuiet
<1> QED
  BY <1>1, <1>3 DEF Holds

\* A cut still holds after a quiet change.
LEMMA HoldsSilent ==
  ASSUME NEW N, NEW p \in Peer, NEW cut, Holds(N, p, cut), NEW n2, Quiet(cut.node, n2)
  PROVE  Holds(N, p, [cut EXCEPT !.node = n2])
<1>1. [cut EXCEPT !.node = n2] = [node |-> n2, net |-> cut.net]
  BY DEF Holds
<1>2. NetOK(cut.net) /\ Carries(cut.net, cut.net, Nobody, 0) /\ Nobody \notin Peer
  BY HoldsIs, NothingMoves
<1>3. Holds(N, p, [node |-> n2, net |-> cut.net])
  BY <1>2, HoldsQuiet
<1> QED
  BY <1>1, <1>3

\* A cut still holds when messages moved on.
LEMMA HoldsMoved ==
  ASSUME NEW N, NEW p \in Peer, NEW cut, Holds(N, p, cut), NEW after, NetOK(after), Moves(cut.net, after)
  PROVE  Holds(N, p, [node |-> cut.node, net |-> after])
<1>1. Carries(cut.net, after, Nobody, 0) /\ Nobody \notin Peer
  BY NothingMoves DEF Moves
<1>2. Quiet(cut.node, cut.node)
  BY HoldsIs DEF Quiet
<1> QED
  BY <1>1, <1>2, HoldsQuiet

\* A cut still holds when its node failed.
LEMMA HoldsFailed ==
  ASSUME NEW N, NEW p \in Peer, NEW cut, Holds(N, p, cut), NEW code, code # "None"
  PROVE  /\ Holds(N, p, [cut EXCEPT !.node = Fail(@, code)])
         /\ ~ Succeeded([cut EXCEPT !.node = Fail(@, code)].node)
<1>1. Quiet(cut.node, Fail(cut.node, code)) /\ ~ Succeeded(Fail(cut.node, code))
  BY HoldsIs, FailIsQuiet
<1>2. Holds(N, p, [cut EXCEPT !.node = Fail(cut.node, code)])
  BY <1>1, HoldsSilent
<1>3. [cut EXCEPT !.node = Fail(cut.node, code)].node = Fail(cut.node, code)
  BY DEF Holds
<1> QED
  BY <1>1, <1>2, <1>3

\* A call that sends what is no turn.
LEMMA HoldsBroadcast ==
  ASSUME NEW N, NEW p \in Peer, NEW cut, Holds(N, p, cut), NEW n2, Quiet(cut.node, n2),
         NEW message, message.type \in Kinds \ {"Turn"}
  PROVE  Holds(N, p, [node |-> n2, net |-> Broadcast(cut.net, p, message).net])
<1>1. PICK after : after = Broadcast(cut.net, p, message).net
  OBVIOUS
<1>2. NetOK(after) /\ Carries(cut.net, after, p, message)
  BY <1>1, HoldsIs, BroadcastCarries
<1>3. Holds(N, p, [node |-> n2, net |-> after])
  BY <1>2, HoldsQuiet
<1> QED
  BY <1>1, <1>3

\* A cut still holds when its session ended, with or without a farewell.
LEMMA HoldsEnded ==
  ASSUME NEW N, NEW p \in Peer, NEW cut, Holds(N, p, cut)
  PROVE  Holds(N, p, End(cut)) /\ Holds(N, p, EndIfFailed(cut))
<1>1. PICK n2 : n2 = [cut.node EXCEPT !.state = "Ended"]
  OBVIOUS
<1>2. Quiet(cut.node, n2)
  <2>1. Shape(n2) /\ n2.state = "Ended" /\ \A f \in NodeFields \ {"state"} : n2[f] = cut.node[f]
    <3>1. PICK n : n = cut.node /\ Shape(n)
      BY HoldsIs
    <3>2. n2 = [n EXCEPT !.state = "Ended"]
      BY <1>1, <3>1
    <3>3. Shape(n2) /\ n2.state = "Ended" /\ \A f \in NodeFields \ {"state"} : n2[f] = n[f]
      BY <3>1, <3>2 DEF Shape, NodeFields
    <3> QED
      BY <3>1, <3>3
  <2>2. Listed(cut.node.pending)
    BY HoldsIs
  <2> QED
    BY <2>1, <2>2 DEF Quiet, NodeFields, Succeeded
<1>3. Bye.type \in Kinds \ {"Turn"}
  BY DEF Bye, Kinds
<1>4. Holds(N, p, [node |-> n2, net |-> Broadcast(cut.net, p, Bye).net])
  BY <1>2, <1>3, HoldsBroadcast
<1>5. Holds(N, p, End(cut))
  BY <1>1, <1>4, HoldsIs DEF End
<1> QED
  BY <1>5 DEF EndIfFailed
------------------------------------------------------------------------------
\* Both in a row: what is put back last is what is there.
LEMMA PutBackTwice ==
  ASSUME NEW links, NetOK(links), NEW p \in Peer, NEW o \in Peer, NEW a, NEW b
  PROVE  /\ PutBack(PutBack(links, p, o, a), p, o, b) = PutBack(links, p, o, b)
         /\ PutBack(links, p, o, a).inbox[<<p, o>>] = a
         /\ PutBack(links, p, o, links.inbox[<<p, o>>]) = links
<1>1. PICK x \in Peer \X Peer : x = <<p, o>>
  OBVIOUS
<1>2. /\ links = [f \in {"pipe", "inbox", "overflowed", "lost"} |-> links[f]]
      /\ links.inbox = [e \in Peer \X Peer |-> links.inbox[e]]
  BY DEF NetOK, NetShape
<1>3. PICK in : in = links.inbox /\ in = [e \in Peer \X Peer |-> in[e]]
  BY <1>2
<1>4. PICK ina, inb : ina = [in EXCEPT ![x] = a] /\ inb = [in EXCEPT ![x] = b]
  OBVIOUS
<1>5. inb = [ina EXCEPT ![x] = b] /\ ina[x] = a /\ [in EXCEPT ![x] = in[x]] = in
  BY <1>3, <1>4
<1>6. PICK la, lb : la = [links EXCEPT !.inbox = ina] /\ lb = [links EXCEPT !.inbox = inb]
  OBVIOUS
<1>7. la = PutBack(links, p, o, a) /\ lb = PutBack(links, p, o, b)
  BY <1>1, <1>3, <1>4, <1>6 DEF PutBack
<1>8. la.inbox = ina /\ lb = [la EXCEPT !.inbox = inb] /\ [links EXCEPT !.inbox = in] = links
  BY <1>2, <1>3, <1>6
<1>9. PutBack(la, p, o, b) = lb
  BY <1>1, <1>5, <1>8 DEF PutBack
<1>10. PutBack(links, p, o, links.inbox[<<p, o>>]) = links
  <2>1. PutBack(links, p, o, in[x]) = [links EXCEPT !.inbox = [in EXCEPT ![x] = in[x]]]
    BY <1>1, <1>3 DEF PutBack
  <2> QED
    BY <1>1, <1>3, <1>5, <1>8, <2>1
<1> QED
  BY <1>1, <1>5, <1>7, <1>8, <1>9, <1>10

\* What is left after k messages, and after one more.
LEMMA RestIs ==
  ASSUME NEW s, Listed(s), NEW k \in Nat, k < Len(s), NEW rest, rest = SubSeq(s, k + 1, Len(s))
  PROVE  /\ Len(rest) > 0 /\ rest[1] = s[k + 1]
         /\ SubSeq(rest, 2, Len(rest)) = SubSeq(s, k + 2, Len(s))
<1>1. PICK n \in Nat : n = Len(s) /\ k < n
  BY DEF Listed
<1>2. k \in 0 .. n
  BY <1>1
<1>3. Listed(rest) /\ Len(rest) = n - k /\ \A i \in 1 .. (n - k) : rest[i] = s[k + i]
  BY <1>1, <1>2, SubSeqIs
<1>4. Len(rest) > 0 /\ 1 \in 1 .. (n - k) /\ rest[1] = s[k + 1]
  BY <1>1, <1>3
<1>5. PICK u, v : u = SubSeq(rest, 1 + 1, Len(rest)) /\ v = SubSeq(s, (k + 1) + 1, n)
  OBVIOUS
<1>6. /\ Listed(u) /\ Len(u) = n - k - 1
      /\ \A i \in 1 .. (n - k - 1) : u[i] = rest[1 + i]
  <2>1. 1 \in 0 .. Len(rest)
    BY <1>1, <1>3
  <2>2. /\ Listed(u) /\ Len(u) = Len(rest) - 1
        /\ \A i \in 1 .. (Len(rest) - 1) : u[i] = rest[1 + i]
    BY <1>3, <1>5, <2>1, SubSeqIs
  <2> QED
    BY <1>1, <1>3, <2>2
<1>7. /\ Listed(v) /\ Len(v) = n - (k + 1)
      /\ \A i \in 1 .. (n - (k + 1)) : v[i] = s[(k + 1) + i]
  <2>1. k + 1 \in 0 .. n
    BY <1>1
  <2> QED
    BY <1>1, <1>5, <2>1, SubSeqIs
<1>8. \A i \in 1 .. (n - k - 1) : 1 + i \in 1 .. (n - k) /\ k + (1 + i) = (k + 1) + i
  BY <1>1
<1>9. n - (k + 1) = n - k - 1
  BY <1>1
<1>10. \A i \in 1 .. (n - k - 1) : u[i] = v[i]
  <2> TAKE i \in 1 .. (n - k - 1)
  <2>1. u[i] = rest[1 + i] /\ rest[1 + i] = s[k + (1 + i)] /\ k + (1 + i) = (k + 1) + i
    BY <1>3, <1>6, <1>8
  <2>2. v[i] = s[(k + 1) + i]
    BY <1>7, <1>9
  <2> QED
    BY <2>1, <2>2
<1>11. u = v
  BY <1>6, <1>7, <1>9, <1>10 DEF Listed
<1>12. 1 + 1 = 2 /\ (k + 1) + 1 = k + 2
  OBVIOUS
<1> QED
  BY <1>1, <1>4, <1>5, <1>11, <1>12

\* Reading messages of one inbox in order, as far as the poll goes, and putting
\* back the rest.
LEMMA ReadInOrderKeeps ==
  ASSUME Works, Policy = "End", NEW N, NEW p \in Peer, NEW cut, Holds(N, p, cut), NEW o \in Peer, o # p,
         NEW waiting, waiting = Inbox(cut.net, p, o),
         NEW read, read = ReadInOrder(cut.node, o, waiting)[Len(waiting)],
         NEW rest, rest = IF Succeeded(read.node) THEN SubSeq(waiting, read.handled + 1, Len(waiting)) ELSE <<>>
  PROVE  Holds(N, p, [node |-> read.node, net |-> PutBack(cut.net, p, o, rest)])
<1>1. PICK links, n0 : links = cut.net /\ n0 = cut.node
  OBVIOUS
<1>2. /\ NetOK(links) /\ Inv([N EXCEPT ![p] = n0], links) /\ N = [q \in Peer |-> N[q]]
      /\ Listed(waiting) /\ waiting = links.inbox[<<p, o>>]
  BY <1>1 DEF Holds, Inv, NetOK, Inbox
<1>3. PICK len \in Nat : len = Len(waiting)
  BY <1>2, ListedIs
<1>4. PICK after : after = ReadInOrder(n0, o, waiting)
  OBVIOUS
<1>5. /\ after[0] = [node |-> n0, handled |-> 0, stopped |-> FALSE]
      /\ \A i \in 1 .. len : after[i] = ReadMessage(after[i - 1], o, waiting[i])
  BY <1>3, <1>4, ReadInOrderIsAChain
<1> DEFINE left(k) == PutBack(links, p, o, SubSeq(waiting, k + 1, len))
           Good(i) == /\ after[i] = [node |-> after[i].node, handled |-> after[i].handled, stopped |-> after[i].stopped]
                      /\ after[i].handled \in 0 .. i
                      /\ after[i].handled = i \/ after[i].stopped
                      /\ Inv([N EXCEPT ![p] = after[i].node], left(after[i].handled))
           S == {i \in 0 .. len : Good(i)}
<1>6. 0 \in S
  <2>1. SubSeq(waiting, 1, len) = waiting
    <3>1. PICK all : all = SubSeq(waiting, 0 + 1, Len(waiting))
      OBVIOUS
    <3>2. 0 \in 0 .. Len(waiting) /\ 0 + 1 = 1 /\ len - 0 = len
      BY <1>3
    <3>3. Listed(all) /\ Len(all) = Len(waiting) - 0
          /\ \A i \in 1 .. (Len(waiting) - 0) : all[i] = waiting[0 + i]
      BY <1>2, <3>1, <3>2, SubSeqIs
    <3>4. Len(all) = len /\ \A i \in 1 .. len : all[i] = waiting[i]
      BY <1>3, <3>2, <3>3
    <3> QED
      BY <1>2, <1>3, <3>1, <3>2, <3>3, <3>4 DEF Listed
  <2>2. left(0) = links
    <3>1. 0 + 1 = 1 /\ PutBack(links, p, o, links.inbox[<<p, o>>]) = links
      <4>1. NetOK(links)
        BY <1>2
      <4> QED
        BY <4>1, PutBackTwice
    <3> QED
      BY <1>2, <2>1, <3>1
  <2>3. /\ after[0].node = n0 /\ after[0].handled = 0
        /\ after[0] = [node |-> after[0].node, handled |-> after[0].handled, stopped |-> after[0].stopped]
    BY <1>5
  <2>4. Inv([N EXCEPT ![p] = after[0].node], left(after[0].handled))
    <3> HIDE DEF left
    <3> QED
      BY <1>2, <2>2, <2>3
  <2> HIDE DEF left
  <2>5. 0 \in 0 .. len /\ after[0].handled \in 0 .. 0
    BY <2>3
  <2> QED
    BY <2>3, <2>4, <2>5
<1>7. ASSUME NEW i \in 1 .. len, i - 1 \in S
      PROVE  i \in S
  <2>1. PICK before, now, n, k : /\ before = after[i - 1] /\ now = after[i]
                                 /\ n = before.node /\ k = before.handled
    OBVIOUS
  <2>2. /\ before = [node |-> n, handled |-> k, stopped |-> before.stopped]
        /\ k \in 0 .. (i - 1)
        /\ k = i - 1 \/ before.stopped
        /\ Inv([N EXCEPT ![p] = n], left(k))
    BY <1>7, <2>1
  <2>3. now = ReadMessage(before, o, waiting[i])
    BY <1>5, <2>1
  <2> DEFINE stops == \/ before.stopped \/ ~ Succeeded(n) \/ k >= PollCap
                      \/ n.state = "Handshaking" /\ waiting[i].type # "Hello"
  <2>4. CASE stops
    <3>1. now = [before EXCEPT !.stopped = TRUE]
      BY <2>1, <2>3, <2>4 DEF ReadMessage
    <3>2. now.node = n /\ now.handled = k /\ now.stopped /\ now = [node |-> n, handled |-> k, stopped |-> TRUE]
      <4>1. now = [node |-> n, handled |-> k, stopped |-> TRUE]
        <5> HIDE DEF left, stops
        <5>1. PICK st : st = before.stopped
          OBVIOUS
        <5>2. before = [node |-> n, handled |-> k, stopped |-> st]
          BY <2>2, <5>1
        <5> QED
          BY <3>1, <5>2
      <4> QED
        BY <4>1
    <3>3. now.handled \in 0 .. i
      BY <2>2, <3>2
    <3> HIDE DEF left
    <3>4. now = [node |-> now.node, handled |-> now.handled, stopped |-> now.stopped]
      BY <3>2
    <3>5. Good(i)
      BY <2>1, <2>2, <3>2, <3>3, <3>4
    <3> QED
      BY <1>7, <3>5
  <2>5. CASE ~ stops
    <3>1. PICK n2 : n2 = Handle(n, o, waiting[i])
      OBVIOUS
    <3>2. now = [before EXCEPT !.node = n2, !.handled = @ + 1]
      BY <2>1, <2>3, <2>5, <3>1 DEF ReadMessage
    <3>3. Succeeded(n) /\ k = i - 1 /\ k \in Nat /\ k + 1 = i /\ k < len
      BY <2>2, <2>5
    <3>4. now.node = n2 /\ now.handled = k + 1 /\ now.stopped = before.stopped
          /\ now = [node |-> now.node, handled |-> now.handled, stopped |-> now.stopped]
      <4>1. now = [node |-> n2, handled |-> k + 1, stopped |-> before.stopped]
        <5> HIDE DEF left, stops
        <5>1. PICK st : st = before.stopped
          OBVIOUS
        <5>2. before = [node |-> n, handled |-> k, stopped |-> st]
          BY <2>2, <5>1
        <5>3. before.handled = k /\ now = [before EXCEPT !.node = n2, !.handled = k + 1]
          BY <3>2, <5>2
        <5> QED
          BY <5>1, <5>2, <5>3
      <4> QED
        BY <4>1
    <3>5. PICK M, held, in : M = [N EXCEPT ![p] = n] /\ held = left(k) /\ in = SubSeq(waiting, k + 1, len)
      OBVIOUS
    <3>6. Inv(M, held) /\ M[p] = n
      BY <1>2, <2>2, <3>5
    <3>7. held = PutBack(links, p, o, in) /\ held.inbox[<<p, o>>] = in
      <4>1. held = PutBack(links, p, o, in)
        BY <3>5
      <4>2. NetOK(links)
        BY <1>2
      <4> QED
        BY <4>1, <4>2, PutBackTwice
    <3>8. Len(in) > 0 /\ in[1] = waiting[i] /\ SubSeq(in, 2, Len(in)) = SubSeq(waiting, k + 2, len)
      <4>1. k \in Nat /\ k < Len(waiting) /\ in = SubSeq(waiting, k + 1, Len(waiting))
        BY <1>3, <3>3, <3>5
      <4>2. /\ Len(in) > 0 /\ in[1] = waiting[k + 1]
            /\ SubSeq(in, 2, Len(in)) = SubSeq(waiting, k + 2, Len(waiting))
        BY <1>2, <4>1, RestIs
      <4> QED
        BY <1>3, <3>3, <4>2
    <3>9. PICK then : then = PutBack(held, p, o, SubSeq(in, 2, Len(in)))
      OBVIOUS
    <3>10. Inv([M EXCEPT ![p] = n2], then)
      <4>1. n2 = Handle(M[p], o, in[1]) /\ Succeeded(M[p])
        BY <3>1, <3>3, <3>6, <3>8
      <4> HIDE DEF left, stops
      <4> QED
        BY <3>6, <3>7, <3>8, <3>9, <4>1, HandledKeeps
    <3>11. then = left(k + 1)
      <4>1. then = PutBack(links, p, o, SubSeq(waiting, k + 2, len))
        <5>1. PICK part : part = SubSeq(in, 2, Len(in))
          OBVIOUS
        <5>0. NetOK(links)
          BY <1>2
        <5>2. /\ PutBack(PutBack(links, p, o, in), p, o, part) = PutBack(links, p, o, part)
              /\ PutBack(links, p, o, in).inbox[<<p, o>>] = in
              /\ PutBack(links, p, o, links.inbox[<<p, o>>]) = links
          BY <5>0, PutBackTwice
        <5> QED
          BY <3>7, <3>8, <3>9, <5>1, <5>2
      <4>2. k + 2 = (k + 1) + 1
        BY <3>3
      <4> QED
        BY <4>1, <4>2
    <3>12. [M EXCEPT ![p] = n2] = [N EXCEPT ![p] = n2]
      BY <1>2, <3>5
    <3> HIDE DEF left
    <3>13. Inv([N EXCEPT ![p] = now.node], left(now.handled))
      BY <3>4, <3>10, <3>11, <3>12
    <3>14. now.handled \in 0 .. i /\ now.handled = i
      BY <3>3, <3>4
    <3>15. Good(i)
      BY <2>1, <3>4, <3>13, <3>14
    <3> QED
      BY <1>7, <3>15
  <2> QED
    BY <2>4, <2>5
<1> HIDE DEF Good
<1>8. len \in S
  <2>1. \A i \in 0 .. len : i \in S
    <3> HIDE DEF S
    <3> QED
      BY <1>6, <1>7, Climbs
  <2> QED
    BY <2>1
<1>9. /\ read = after[len] /\ read.handled \in 0 .. len
      /\ Inv([N EXCEPT ![p] = read.node], left(read.handled))
  BY <1>1, <1>3, <1>4, <1>8 DEF Good
<1>10. PICK k, held : k = read.handled /\ held = left(k)
  OBVIOUS
<1>11. Inv([N EXCEPT ![p] = read.node], PutBack(links, p, o, rest))
  <2>1. CASE Succeeded(read.node)
    <3>1. rest = SubSeq(waiting, k + 1, len)
      BY <1>3, <1>10, <2>1
    <3> QED
      BY <1>9, <1>10, <3>1
  <2>2. CASE ~ Succeeded(read.node)
    <3>1. rest = <<>>
      BY <2>2
    <3>2. PICK then : then = PutBack(held, p, o, <<>>)
      OBVIOUS
    <3>3. then = PutBack(links, p, o, rest)
      <4>1. PICK part : part = SubSeq(waiting, k + 1, len) /\ held = PutBack(links, p, o, part)
        BY <1>10
      <4>0. NetOK(links)
        BY <1>2
      <4>2. /\ PutBack(PutBack(links, p, o, part), p, o, <<>>) = PutBack(links, p, o, <<>>)
            /\ PutBack(links, p, o, part).inbox[<<p, o>>] = part
            /\ PutBack(links, p, o, links.inbox[<<p, o>>]) = links
        BY <4>0, PutBackTwice
      <4> QED
        BY <3>1, <3>2, <4>1, <4>2
    <3>4. NetOK(held) /\ Inv([N EXCEPT ![p] = read.node], held)
      BY <1>9, <1>10 DEF Inv
    <3>5. 0 \in 0 .. Len(held.inbox[<<p, o>>])
      <4>1. Listed(held.inbox[<<p, o>>])
        BY <3>4 DEF NetOK
      <4>2. Len(held.inbox[<<p, o>>]) \in Nat
        BY <4>1, ListedIs
      <4> QED
        BY <4>2
    <3>6. NetOK(then) /\ Moves(held, then)
      BY <3>2, <3>4, <3>5, PutBackMoves
    <3>7. Inv([N EXCEPT ![p] = read.node], then)
      BY <3>4, <3>6, InvMoves
    <3> QED
      BY <3>3, <3>7
  <2> QED
    BY <2>1, <2>2
<1>12. PICK c : c = [node |-> read.node, net |-> PutBack(cut.net, p, o, rest)]
  OBVIOUS
<1>13. c.node = read.node /\ c.net = PutBack(links, p, o, rest) /\ c = [node |-> c.node, net |-> c.net]
  BY <1>1, <1>12
<1> QED
  BY <1>2, <1>11, <1>12, <1>13 DEF Holds
------------------------------------------------------------------------------
\* Reading one inbox, whatever becomes of it.
LEMMA ReadInboxKeeps ==
  ASSUME Works, Policy = "End", NEW N, NEW p \in Peer, NEW cut, Holds(N, p, cut), NEW o \in Peer
  PROVE  Holds(N, p, ReadInbox(cut, o))
<1>1. PICK n, links : n = cut.node /\ links = cut.net /\ n.id = p /\ n.dropped = {}
  <2>1. Local(p, cut.node)
    BY HoldsIs
  <2>2. cut.node.id = p /\ cut.node.dropped = {}
    BY <2>1 DEF Local
  <2> QED
    BY <2>2
<1>2. CASE o = p
  BY <1>1, <1>2 DEF ReadInbox
<1>3. CASE o # p /\ <<p, o>> \in links.overflowed
  <2>1. ReadInbox(cut, o) = End([cut EXCEPT !.node = Fail(@, "Exhausted")])
    BY <1>1, <1>3 DEF ReadInbox
  <2>2. PICK failed : failed = [cut EXCEPT !.node = Fail(@, "Exhausted")] /\ Holds(N, p, failed)
    BY HoldsFailed
  <2> QED
    BY <2>1, <2>2, HoldsEnded
<1>4. CASE o # p /\ <<p, o>> \notin links.overflowed
  <2>1. PICK waiting : waiting = Inbox(links, p, o)
    OBVIOUS
  <2>2. PICK read : read = ReadInOrder(n, o, waiting)[Len(waiting)]
    OBVIOUS
  <2>3. PICK rest : rest = IF Succeeded(read.node) THEN SubSeq(waiting, read.handled + 1, Len(waiting)) ELSE <<>>
    OBVIOUS
  <2>4. PICK c : c = [node |-> read.node, net |-> PutBack(links, p, o, rest)]
    OBVIOUS
  <2>5. Holds(N, p, c)
    <3>1. waiting = Inbox(cut.net, p, o) /\ read = ReadInOrder(cut.node, o, waiting)[Len(waiting)]
      BY <1>1, <2>1, <2>2
    <3>2. c = [node |-> read.node, net |-> PutBack(cut.net, p, o, rest)]
      BY <1>1, <2>4
    <3>3. Holds(N, p, [node |-> read.node, net |-> PutBack(cut.net, p, o, rest)])
      BY <1>4, <2>3, <3>1, ReadInOrderKeeps
    <3> QED
      BY <3>2, <3>3
  <2>6. ReadInbox(cut, o) = EndIfFailed(c)
    BY <1>1, <1>4, <2>1, <2>2, <2>3, <2>4 DEF ReadInbox
  <2> QED
    BY <2>5, <2>6, HoldsEnded
<1> QED
  BY <1>2, <1>3, <1>4

\* Reading all of them.
LEMMA InboxesReadKeeps ==
  ASSUME Works, Policy = "End", NEW N, NEW p \in Peer, NEW cut, Holds(N, p, cut)
  PROVE  Holds(N, p, InboxesRead(cut)[PeerCount])
<1>1. PICK n, after : n = PeerCount /\ after = InboxesRead(cut)
  OBVIOUS
<1>2. /\ n \in Nat /\ Peer = 0 .. (n - 1)
      /\ after[0] = cut
      /\ \A i \in 1 .. n : after[i] = ReadNext(after[i - 1], i - 1)
  BY <1>1, PeersCounted, InboxesReadIsAChain
<1> DEFINE S == {i \in 0 .. n : Holds(N, p, after[i])}
<1>3. 0 \in S
  BY <1>2
<1>4. ASSUME NEW i \in 1 .. n, i - 1 \in S
      PROVE  i \in S
  <2>0. PICK o \in Peer : o = i - 1
    BY <1>2
  <2>1. PICK before : before = after[i - 1] /\ Holds(N, p, before)
    BY <1>4
  <2>2. Holds(N, p, ReadInbox(before, o))
    BY <2>1, ReadInboxKeeps
  <2>3. after[i] = ReadNext(before, o)
    BY <1>2, <2>0, <2>1
  <2>4. Holds(N, p, after[i])
    BY <2>1, <2>2, <2>3 DEF ReadNext, After
  <2> QED
    BY <1>4, <2>4
<1> HIDE DEF S
<1>5. n \in S
  <2>1. \A i \in 0 .. n : i \in S
    BY <1>2, <1>3, <1>4, Climbs
  <2> QED
    BY <1>2, <2>1
<1> QED
  BY <1>1, <1>5 DEF S

\* Under this policy nobody is ever dropped, so there is no drop to complete.
LEMMA NoDrops ==
  ASSUME NEW cut, cut = [node |-> cut.node, net |-> cut.net], Shape(cut.node), cut.node.drops = <<>>
  PROVE  CompleteDrops(cut) = cut
<1>1. PICK n : n = cut.node /\ n = [f \in NodeFields |-> n[f]] /\ n.drops = <<>>
  BY DEF Shape
<1>2. [n EXCEPT !.drops = <<>>] = n
  BY <1>1 DEF NodeFields
<1>3. [cut EXCEPT !.node.drops = <<>>] = cut
  <2>1. [cut EXCEPT !.node.drops = <<>>] = [cut EXCEPT !.node = [n EXCEPT !.drops = <<>>]]
    BY <1>1
  <2> QED
    BY <1>1, <1>2, <2>1
<1> DEFINE chain(g) == g = [i \in 0 .. Len(<<>>) |-> IF i = 0 THEN cut ELSE CompleteNext(g[i - 1], <<>>[i])]
<1>4. \E g : chain(g)
  <2>1. PICK g : g = [i \in 0 .. 0 |-> cut]
    OBVIOUS
  <2>2. \A i \in 0 .. 0 : i = 0
    OBVIOUS
  <2>3. Len(<<>>) = 0
    BY EmptyIsListed
  <2>4. chain(g)
    BY <2>1, <2>2, <2>3
  <2> QED
    BY <2>4
<1>5. DropsCompleted(cut, <<>>) = CHOOSE g : chain(g)
  BY DEF DropsCompleted
<1>6. chain(DropsCompleted(cut, <<>>))
  BY <1>4, <1>5
<1>7. DropsCompleted(cut, <<>>)[0] = cut
  <2>1. 0 \in 0 .. Len(<<>>)
    BY EmptyIsListed
  <2> QED
    BY <1>6, <2>1
<1> QED
  BY <1>1, <1>3, <1>7, EmptyIsListed DEF CompleteDrops

\* A lost peer ends the session that notices.
LEMMA LossesKeep ==
  ASSUME Policy = "End", NEW N, NEW p \in Peer, NEW cut, Holds(N, p, cut)
  PROVE  Holds(N, p, HandleLostPeers(cut))
<1>1. PICK n, after : n = PeerCount /\ after = LossesHandled(cut)
  OBVIOUS
<1>2. /\ n \in Nat
      /\ after[0] = cut
      /\ \A i \in 1 .. n : after[i] = HandleLostNext(after[i - 1], i - 1)
  BY <1>1, PeersCounted, LossesHandledIsAChain
<1> DEFINE S == {i \in 0 .. n : Holds(N, p, after[i])}
<1>3. 0 \in S
  BY <1>2
<1>4. ASSUME NEW i \in 1 .. n, i - 1 \in S
      PROVE  i \in S
  <2>1. PICK before, o : before = after[i - 1] /\ o = i - 1 /\ Holds(N, p, before)
    BY <1>4
  <2>2. HandleLostPeer(before, o) \in {before, [before EXCEPT !.node = Fail(@, "Unavailable")]}
    BY DEF HandleLostPeer
  <2>3. Holds(N, p, [before EXCEPT !.node = Fail(@, "Unavailable")])
    BY <2>1, HoldsFailed
  <2>4. after[i] = HandleLostNext(before, o)
    BY <1>2, <2>1
  <2>5. Holds(N, p, after[i])
    BY <2>1, <2>2, <2>3, <2>4 DEF HandleLostNext, After
  <2> QED
    BY <1>4, <2>5
<1> HIDE DEF S
<1>5. n \in S
  <2>1. \A i \in 0 .. n : i \in S
    BY <1>2, <1>3, <1>4, Climbs
  <2> QED
    BY <1>2, <2>1
<1> QED
  BY <1>1, <1>5 DEF S, HandleLostPeers

\* The poll of a session that goes on.
LEMMA PollRunningKeeps ==
  ASSUME Works, Policy = "End", NEW N, NEW p \in Peer, NEW cut, Holds(N, p, cut)
  PROVE  Holds(N, p, PollRunning(cut))
<1>1. CASE Overrun(cut.node)
  <2>1. PICK failed : failed = [cut EXCEPT !.node = Fail(@, "InvalidArgument")] /\ Holds(N, p, failed)
    BY HoldsFailed
  <2>2. PollRunning(cut) = End(failed)
    BY <1>1, <2>1 DEF PollRunning
  <2> QED
    BY <2>1, <2>2, HoldsEnded
<1>2. CASE ~ Overrun(cut.node)
  <2>1. PICK read : read = InboxesRead(cut)[PeerCount] /\ Holds(N, p, read)
    BY InboxesReadKeeps
  <2>2. CompleteDrops(read) = read
    BY <2>1, HoldsIs, NoDrops DEF Holds
  <2>3. PICK settled : settled = After(read, EndIfFailed(CompleteDrops(read))) /\ Holds(N, p, settled)
    <3>1. Holds(N, p, EndIfFailed(read))
      BY <2>1, HoldsEnded
    <3> QED
      BY <2>1, <2>2, <3>1 DEF After
  <2>4. PollRunning(cut) = After(settled, FinishOrHandleLosses(settled))
    BY <1>2, <2>1, <2>3 DEF PollRunning
  <2>5. CASE FinishIsComplete(settled.node)
    <3>1. PICK n, n2 : n = settled.node /\ n2 = [n EXCEPT !.state = "Finished"]
      OBVIOUS
    <3>2. Shape(n) /\ Listed(n.pending) /\ n.state = "Finishing"
      BY <2>3, <2>5, <3>1, HoldsIs DEF FinishIsComplete
    <3>3. Shape(n2) /\ \A f \in NodeFields \ {"state"} : n2[f] = n[f]
      BY <3>1, <3>2 DEF Shape, NodeFields
    <3>4. Quiet(n, n2)
      BY <3>2, <3>3 DEF Quiet, NodeFields, Succeeded
    <3>5. Holds(N, p, [settled EXCEPT !.node = n2])
      BY <2>3, <3>1, <3>4, HoldsSilent
    <3>6. FinishOrHandleLosses(settled) = [settled EXCEPT !.node = n2]
      BY <2>5, <3>1 DEF FinishOrHandleLosses
    <3> QED
      BY <2>3, <2>4, <3>5, <3>6 DEF After
  <2>6. CASE ~ FinishIsComplete(settled.node)
    <3>1. PICK done : done = HandleLostPeers(settled) /\ Holds(N, p, done)
      BY <2>3, LossesKeep
    <3>2. FinishOrHandleLosses(settled) = EndIfFailed(done)
      BY <2>6, <3>1 DEF FinishOrHandleLosses
    <3> QED
      BY <2>3, <2>4, <3>1, <3>2, HoldsEnded DEF After
  <2> QED
    BY <2>5, <2>6
<1> QED
  BY <1>1, <1>2

\* Every poll, with any messages due.
LEMMA PollKeeps ==
  ASSUME Works, Policy = "End", NEW N, NEW p \in Peer, NEW cut, Holds(N, p, cut),
         NEW due \in DueChoices(cut.net, p)
  PROVE  Holds(N, p, PollSession(cut, due))
<1>1. PICK n, links : n = cut.node /\ links = cut.net /\ cut = [node |-> n, net |-> links]
  BY DEF Holds
<1>2. n.id = p /\ NetOK(links) /\ Inv([N EXCEPT ![p] = n], links) /\ N = [q \in Peer |-> N[q]]
  <2>1. /\ Local(p, cut.node) /\ cut.node.id = p /\ cut.node.drops = <<>> /\ cut.node.dropped = {}
        /\ Shape(cut.node) /\ Listed(cut.node.pending) /\ NetOK(cut.net)
    BY HoldsIs
  <2>2. cut.node.id = p /\ NetOK(cut.net)
    BY <2>1
  <2> QED
    BY <1>1, <2>2 DEF Holds
<1>3. PICK after : after = Pump(links, p, due) /\ Inv([N EXCEPT ![p] = n], after)
  <2>1. DueOK(links, p, due)
    BY <1>1, <1>2, DueIsOK
  <2>2. /\ NetOK(Pump(links, p, due)) /\ Moves(links, Pump(links, p, due))
        /\ Pump(links, p, due).lost = links.lost
    BY <1>2, <2>1, PumpMoves
  <2>3. Inv([N EXCEPT ![p] = n], Pump(links, p, due))
    BY <1>2, <2>2, InvMoves
  <2> QED
    BY <2>3
<1>4. PICK pumped : pumped = [cut EXCEPT !.net = Pump(@, cut.node.id, due)]
  OBVIOUS
<1>5. pumped = [node |-> n, net |-> after] /\ pumped.node = n /\ pumped.net = after
  BY <1>1, <1>2, <1>3, <1>4
<1>6. Holds(N, p, pumped)
  BY <1>2, <1>3, <1>5 DEF Holds
<1>7. CASE n.state = "Ended"
  <2>1. PollSession(cut, due) = [cut EXCEPT !.node = Fail(@, "Unavailable")]
    BY <1>1, <1>7 DEF PollSession
  <2> QED
    BY <2>1, HoldsFailed
<1>8. CASE n.state = "Finished"
  <2>1. PICK empty : empty = Emptied(after, p)
    OBVIOUS
  <2>2. NetOK(empty) /\ Moves(after, empty)
    BY <1>3, <2>1, EmptiedMoves DEF Inv
  <2>3. Holds(N, p, [node |-> n, net |-> empty])
    BY <1>5, <1>6, <2>2, HoldsMoved
  <2>4. PollSession(cut, due) = [pumped EXCEPT !.net = Emptied(@, p)]
    BY <1>1, <1>2, <1>4, <1>8 DEF PollSession
  <2>5. PollSession(cut, due) = [node |-> n, net |-> empty]
    BY <1>5, <2>1, <2>4
  <2> QED
    BY <2>3, <2>5
<1>9. CASE n.state \notin {"Ended", "Finished"}
  <2>1. PollSession(cut, due) = PollRunning(pumped)
    BY <1>1, <1>4, <1>9 DEF PollSession
  <2> QED
    BY <1>6, <2>1, PollRunningKeeps
<1> QED
  BY <1>7, <1>8, <1>9
------------------------------------------------------------------------------
\* The queue once the first i commands of the turn are submitted to it.
OwnFiled(p, t, was, q, i) ==
  /\ \A j \in 1 .. i : Cells(p, t)[j] \in Cell \ InvalidCell
  /\ q.next[p] = Base(p, t) + i
  /\ Cardinality(was.pending) <= Cardinality(q.pending)
  /\ (\A e \in was.pending : e[1] \notin Commands(p, t))
       => q.pending = was.pending \cup {<<Said(p, t)[j], 1>> : j \in 1 .. i}

\* A draft of i commands, or one that could not be completed.
Drafts(p, n, t, draft, i, q, s) ==
  /\ QueueShape(q)
  /\ \/ draft = [node |-> [n EXCEPT !.queue = q, !.error = "Exhausted"], commands |-> s]
     \/ /\ draft = [node |-> [n EXCEPT !.queue = q], commands |-> s]
        /\ Listed(s) /\ Len(s) = i /\ \A j \in 1 .. i : s[j] = Said(p, t)[j]
        /\ OwnFiled(p, t, n.queue, q, i)

\* One more command of a turn that is drafted.
LEMMA SubmitOwnDrafts ==
  ASSUME Works, NEW p \in Peer, NEW n, Shape(n), n.id = p, Succeeded(n), QueueShape(n.queue), NEW t \in Nat, t = n.lastSent + 1,
         NEW i \in Nat, i < Len(Cells(p, t)),
         NEW draft, NEW q, NEW s, Drafts(p, n, t, draft, i, q, s),
         NEW now, now = SubmitOwn(draft, Cells(p, t)[i + 1])
  PROVE  \E q2, s2 : Drafts(p, n, t, now, i + 1, q2, s2)
<1>0. PICK k \in Nat : k = Len(Cells(p, t)) /\ i + 1 \in 1 .. k
  BY CellsAreListed
<1>1. PICK cell : cell = Cells(p, t)[i + 1]
  OBVIOUS
<1>2. CASE draft = [node |-> [n EXCEPT !.queue = q, !.error = "Exhausted"], commands |-> s]
  <2>1. draft.node.error = "Exhausted"
    <3>1. draft.node = [n EXCEPT !.queue = q, !.error = "Exhausted"]
      BY <1>2
    <3> QED
      BY <3>1 DEF Shape, NodeFields
  <2>2. now = draft
    BY <2>1 DEF SubmitOwn, Succeeded
  <2>3. Drafts(p, n, t, now, i + 1, q, s)
    BY <1>2, <2>2 DEF Drafts
  <2> QED
    BY <2>3
<1>3. CASE /\ draft = [node |-> [n EXCEPT !.queue = q], commands |-> s]
           /\ Listed(s) /\ Len(s) = i /\ \A j \in 1 .. i : s[j] = Said(p, t)[j]
           /\ OwnFiled(p, t, n.queue, q, i)
  <2>1. PICK m : m = [n EXCEPT !.queue = q]
    OBVIOUS
  <2>2. /\ draft = [node |-> m, commands |-> s] /\ draft.node = m /\ draft.commands = s
        /\ Shape(m) /\ m.queue = q /\ m.id = p /\ Succeeded(m) /\ m.lastSent + 1 = t
    BY <1>3, <2>1 DEF Shape, NodeFields, Succeeded
  <2>3. PICK c : c = Command(t, p, q.next[p], cell)
    OBVIOUS
  <2>4. QueueShape(q)
    BY DEF Drafts
  <2>5. CASE SubmitStatus(q, cell, InvalidCell) # "Ok"
    <3>1. now = [draft EXCEPT !.node = Fail(@, "Exhausted")]
      BY <1>1, <2>2, <2>5 DEF SubmitOwn
    <3>2. Fail(m, "Exhausted") = [n EXCEPT !.queue = q, !.error = "Exhausted"]
      BY <2>1 DEF Fail
    <3>3. now = [node |-> [n EXCEPT !.queue = q, !.error = "Exhausted"], commands |-> s]
      BY <2>2, <3>1, <3>2
    <3>4. Drafts(p, n, t, now, i + 1, q, s)
      BY <2>4, <3>3 DEF Drafts
    <3> QED
      BY <3>4
  <2>6. CASE SubmitStatus(q, cell, InvalidCell) = "Ok"
    <3>1. PICK q2, s2 : q2 = SubmitStamped(q, c) /\ s2 = Append(s, c)
      OBVIOUS
    <3>2. now = [draft EXCEPT !.node.queue = q2, !.commands = s2]
      BY <1>1, <2>2, <2>3, <2>6, <3>1 DEF SubmitOwn
    <3>3. now = [node |-> [n EXCEPT !.queue = q2], commands |-> s2]
      <4>1. [m EXCEPT !.queue = q2] = [n EXCEPT !.queue = q2]
        BY <2>1 DEF Shape, NodeFields
      <4>2. now = [node |-> [m EXCEPT !.queue = q2], commands |-> s2]
        BY <2>2, <3>2
      <4> QED
        BY <4>1, <4>2
    <3>4. cell \in Cell \ InvalidCell
      BY <2>6 DEF SubmitStatus
    <3>5. q.next[p] = Base(p, t) + i /\ Base(p, t) \in Nat
      BY <1>3, BaseIsNat DEF OwnFiled
    <3>6. c = Said(p, t)[i + 1] /\ c.source = p /\ c.sequence = Base(p, t) + i /\ c \in Commands(p, t)
      <4>1. c = Command(t, p, Base(p, t) + i, cell)
        BY <2>3, <3>5
      <4>2. Said(p, t)[i + 1] = Command(t, p, Base(p, t) + (i + 1) - 1, Cells(p, t)[i + 1])
        BY <1>0, SaidIs
      <4>3. Base(p, t) + (i + 1) - 1 = Base(p, t) + i
        BY <3>5
      <4>4. c = Said(p, t)[i + 1]
        BY <1>1, <4>1, <4>2, <4>3
      <4>5. c.source = p /\ c.sequence = Base(p, t) + i
        BY <4>1 DEF Command
      <4> QED
        BY <1>0, <4>4, <4>5 DEF Commands
    <3>7. c \in Cmd
      BY <2>3, <3>4, <3>5 DEF Cmd, Command
    <3>8. /\ QueueShape(q2)
          /\ Cardinality(q.pending) <= Cardinality(q2.pending)
          /\ q2.next[p] = IF c.sequence + 1 > q.next[p] THEN c.sequence + 1 ELSE q.next[p]
          /\ (\A e \in q.pending : e[1] # c) => q2.pending = q.pending \cup {<<c, 1>>}
      <4>1. /\ QueueShape(q2)
            /\ Cardinality(q.pending) <= Cardinality(q2.pending)
            /\ q2.next[c.source] = IF c.sequence + 1 > q.next[c.source] THEN c.sequence + 1 ELSE q.next[c.source]
            /\ (\A e \in q.pending : e[1] # c) => q2.pending = q.pending \cup {<<c, 1>>}
        BY <2>4, <3>1, <3>7, StampedIs
      <4> QED
        BY <3>6, <4>1
    <3>9. q2.next[p] = Base(p, t) + (i + 1)
      BY <3>5, <3>6, <3>8
    <3>10. \A j \in 1 .. (i + 1) : j \in 1 .. i \/ j = i + 1
      OBVIOUS
    <3>11. \A j \in 1 .. (i + 1) : Cells(p, t)[j] \in Cell \ InvalidCell
      BY <1>1, <1>3, <3>4, <3>10 DEF OwnFiled
    <3>12. Listed(s2) /\ Len(s2) = i + 1 /\ \A j \in 1 .. (i + 1) : s2[j] = Said(p, t)[j]
      <4>1. Listed(s2) /\ Len(s2) = i + 1 /\ (\A j \in 1 .. i : s2[j] = s[j]) /\ s2[i + 1] = c
        BY <1>3, <3>1, AppendIs
      <4> QED
        BY <1>3, <3>6, <3>10, <4>1
    <3>13. Cardinality(n.queue.pending) <= Cardinality(q2.pending)
      <4>1. Cardinality(n.queue.pending) <= Cardinality(q.pending)
        BY <1>3 DEF OwnFiled
      <4>2. Cardinality(q.pending) \in Nat /\ Cardinality(q2.pending) \in Nat
        BY <2>4, <3>8, FS_CardinalityType DEF QueueShape
      <4>3. Cardinality(n.queue.pending) \in Nat
        BY FS_CardinalityType DEF QueueShape
      <4> QED
        BY <3>8, <4>1, <4>2, <4>3
    <3>14. ASSUME \A e \in n.queue.pending : e[1] \notin Commands(p, t)
           PROVE  q2.pending = n.queue.pending \cup {<<Said(p, t)[j], 1>> : j \in 1 .. (i + 1)}
      <4> DEFINE First(j) == {<<Said(p, t)[l], 1>> : l \in 1 .. j}
      <4>1. q.pending = n.queue.pending \cup First(i)
        BY <1>3, <3>14 DEF OwnFiled
      <4>2. First(i + 1) = First(i) \cup {<<c, 1>>}
        <5>1. 1 .. (i + 1) = (1 .. i) \cup {i + 1}
          OBVIOUS
        <5> QED
          BY <3>6, <5>1
      <4>3. \A e \in First(i) : e[1] # c
        <5>1. \A a, b \in 1 .. k : Said(p, t)[a] = Said(p, t)[b] => a = b
          BY <1>0, SaidIs
        <5>2. \A j \in 1 .. i : j \in 1 .. k /\ j # i + 1
          BY <1>0
        <5>3. \A j \in 1 .. i : Said(p, t)[j] # c
          BY <1>0, <3>6, <5>1, <5>2
        <5> QED
          BY <5>3
      <4> HIDE DEF First
      <4>4. \A e \in q.pending : e[1] # c
        BY <3>6, <3>14, <4>1, <4>3
      <4>5. q2.pending = n.queue.pending \cup First(i + 1)
        BY <3>8, <4>1, <4>2, <4>4
      <4> QED
        BY <4>5 DEF First
    <3>15. OwnFiled(p, t, n.queue, q2, i + 1)
      BY <3>9, <3>11, <3>13, <3>14 DEF OwnFiled
    <3>16. Drafts(p, n, t, now, i + 1, q2, s2)
      BY <3>3, <3>8, <3>12, <3>15 DEF Drafts
    <3> QED
      BY <3>16
  <2> QED
    BY <2>5, <2>6
<1> QED
  BY <1>2, <1>3 DEF Drafts

\* The draft of a whole turn: what the peer says, and the queue with it, or a
\* failure.
LEMMA DraftedIs ==
  ASSUME Works, NEW p \in Peer, NEW n, Local(p, n), Succeeded(n), NEW t \in Nat, t = n.lastSent + 1,
         NEW draft, draft = Drafted(n, Cells(p, t))[Len(Cells(p, t))]
  PROVE  \E q, s : Drafts(p, n, t, draft, Len(Cells(p, t)), q, s)
<1>1. PICK cells : cells = Cells(p, t) /\ Len(cells) \in Nat
  BY CellsAreListed
<1>k. PICK k \in Nat : k = Len(cells)
  BY <1>1
<1>2. PICK after : after = Drafted(n, cells)
  OBVIOUS
<1>3. /\ after[0] = [node |-> n, commands |-> <<>>]
      /\ \A i \in 1 .. k : after[i] = SubmitOwn(after[i - 1], cells[i])
  BY <1>1, <1>2, <1>k, DraftedIsAChain
<1>4. Shape(n) /\ n.id = p /\ QueueShape(n.queue) /\ n.queue.next[p] = Base(p, t)
  BY DEF Local, QueueOK, QueueShape, Sound
<1> DEFINE Good(i) == \E q, s : Drafts(p, n, t, after[i], i, q, s)
           S == {i \in 0 .. k : Good(i)}
<1>5. 0 \in S
  <2>1. Cardinality(n.queue.pending) \in Nat /\ Base(p, t) \in Nat
    BY <1>4, BaseIsNat, FS_CardinalityType DEF QueueShape
  <2>2. [n EXCEPT !.queue = n.queue] = n
    BY <1>4 DEF Shape, NodeFields
  <2>3. OwnFiled(p, t, n.queue, n.queue, 0)
    BY <1>4, <2>1 DEF OwnFiled
  <2>4. Drafts(p, n, t, after[0], 0, n.queue, <<>>)
    BY <1>3, <1>4, <2>2, <2>3, EmptyIsListed DEF Drafts
  <2> QED
    BY <2>4
<1>6. ASSUME NEW i \in 1 .. k, i - 1 \in S
      PROVE  i \in S
  <2>1. PICK j \in Nat : j = i - 1 /\ j + 1 = i /\ j < k
    BY <1>6
  <2>2. PICK before, now : before = after[j] /\ now = after[i]
    OBVIOUS
  <2>3. PICK q, s : Drafts(p, n, t, before, j, q, s)
    BY <1>6, <2>1, <2>2
  <2>4. now = SubmitOwn(before, Cells(p, t)[j + 1])
    BY <1>1, <1>3, <2>1, <2>2
  <2>5. \E q2, s2 : Drafts(p, n, t, now, j + 1, q2, s2)
    BY <1>1, <1>4, <1>k, <2>1, <2>3, <2>4, SubmitOwnDrafts
  <2> QED
    BY <1>6, <2>1, <2>2, <2>5
<1> HIDE DEF S
<1>7. k \in S
  <2>1. \A i \in 0 .. k : i \in S
    BY <1>5, <1>6, Climbs
  <2> QED
    BY <2>1
<1> QED
  BY <1>1, <1>2, <1>7, <1>k DEF S
------------------------------------------------------------------------------
\* What a call that announces the turn t of p may change.
Announces(p, n, n2, t) ==
  /\ Local(p, n2) /\ Onward(n, n2) /\ Now(n2) = Now(n)
  /\ \A q \in Peer, s \in Nat : Marked(n2, q, s) => Marked(n, q, s) \/ (q = p /\ s = t)

\* A draft that failed announces nothing.
LEMMA FailedKeeps ==
  ASSUME NEW p \in Peer, NEW n, Local(p, n), NEW n2, Alike(n, n2, {"queue", "error"}),
         QueueShape(n2.queue), ~ Succeeded(n2)
  PROVE  /\ \A t : Announces(p, n, n2, t)
         /\ \A q, s : Marked(n2, q, s) <=> Marked(n, q, s)
<1>1. /\ Shape(n2) /\ n2.id = n.id /\ n2.lastSent = n.lastSent /\ n2.gate = n.gate
      /\ n2.kernel = n.kernel /\ n2.drops = n.drops /\ n2.dropped = n.dropped
      /\ n2.pending = n.pending /\ n2.state = n.state
  BY DEF Alike, NodeFields
<1>2. Now(n2) = Now(n) /\ \A q, s : Marked(n2, q, s) <=> Marked(n, q, s)
  BY <1>1 DEF Now, Marked
<1>3. GateOK(n2) /\ QueueOK(n2) /\ KernelOK(n2)
  BY <1>1, <1>2 DEF Local, GateOK, QueueOK, QueueShape, KernelOK
<1>4. Local(p, n2)
  BY <1>1, <1>2, <1>3 DEF Local, Sound
<1>5. Onward(n, n2)
  BY <1>1, <1>2 DEF Onward, Spoke
<1> QED
  BY <1>2, <1>4, <1>5 DEF Announces

\* A gate with one mark more, or none.
Grown(g, s, t, after) ==
  /\ GateShape(after) /\ after.floor = g.floor /\ ExpectedSources(after) = ExpectedSources(g)
  /\ \A r \in ExpectedSources(g) :
       CompletedTicks(after.expected[r]) =
         IF r = s /\ after # g THEN CompletedTicks(g.expected[r]) \cup {t} ELSE CompletedTicks(g.expected[r])

\* Marking a turn adds that turn to the gate, or nothing.
LEMMA MarkGrows ==
  ASSUME NEW g, GateShape(g), NEW s, NEW t \in Nat
  PROVE  Grown(g, s, t, MarkComplete(g, s, t))
<1>1. PICK after : after = MarkComplete(g, s, t)
  OBVIOUS
<1>2. Grown(g, s, t, after)
  BY <1>1, MarkIs DEF Grown
<1> QED
  BY <1>1, <1>2

\* The turn is marked here as soon as it is sent.
LEMMA SaidKeeps ==
  ASSUME Works, NEW p \in Peer, NEW n, Local(p, n), Succeeded(n), n.state = "Running",
         NEW t \in Nat, t = n.lastSent + 1, t >= Now(n), t <= Now(n) + Delay[p],
         NEW n2, Alike(n, n2, {"queue", "lastSent", "gate"}),
         QueueShape(n2.queue), OwnFiled(p, t, n.queue, n2.queue, Len(Cells(p, t))),
         n2.lastSent = t, n2.gate = MarkComplete(n.gate, p, t)
  PROVE  Announces(p, n, n2, t)
<1>1. /\ Shape(n2) /\ n2.id = p /\ n.id = p /\ n2.error = n.error
      /\ n2.kernel = n.kernel /\ n2.drops = <<>> /\ n2.dropped = {}
      /\ n2.pending = n.pending /\ n2.state = n.state /\ Listed(n2.pending)
      /\ n.lastSent \in Nat \cup {-1}
  BY DEF Alike, NodeFields, Local
<1>2. PICK q : q = n2.queue
  OBVIOUS
<1>3. /\ Now(n2) = Now(n) /\ Succeeded(n2) /\ Now(n) \in Nat
      /\ GateOK(n) /\ QueueOK(n) /\ KernelOK(n) /\ Sound(n)
  BY <1>1 DEF Now, Succeeded, Local, KernelOK
<1>4. PICK gate, g : gate = n.gate /\ g = MarkComplete(gate, p, t) /\ n2.gate = g
  OBVIOUS
<1>5. GateShape(gate) /\ ExpectedSources(gate) = Peer /\ gate.floor <= Now(n)
  BY <1>3, <1>4 DEF GateOK, GateShape
<1>6. /\ GateShape(g) /\ g.floor = gate.floor /\ ExpectedSources(g) = ExpectedSources(gate)
      /\ \A r \in ExpectedSources(gate) :
           CompletedTicks(g.expected[r]) =
             IF r = p /\ g # gate THEN CompletedTicks(gate.expected[r]) \cup {t}
             ELSE CompletedTicks(gate.expected[r])
  <2>1. Grown(gate, p, t, g)
    BY <1>4, <1>5, MarkGrows
  <2> QED
    BY <2>1 DEF Grown
<1>7. ASSUME NEW r \in Peer, NEW s \in Nat
      PROVE  /\ Marked(n2, r, s) => Marked(n, r, s) \/ (r = p /\ s = t)
             /\ r # p => (Marked(n2, r, s) <=> Marked(n, r, s))
  <2>1. r \in ExpectedSources(gate) /\ r \in ExpectedSources(g)
    BY <1>5, <1>6
  <2>2. Marked(n2, r, s) <=> s \in CompletedTicks(g.expected[r])
    BY <1>4, <2>1 DEF Marked
  <2>3. Marked(n, r, s) <=> s \in CompletedTicks(gate.expected[r])
    BY <1>4, <2>1 DEF Marked
  <2>4. CompletedTicks(g.expected[r]) =
          IF r = p /\ g # gate THEN CompletedTicks(gate.expected[r]) \cup {t}
          ELSE CompletedTicks(gate.expected[r])
    BY <1>6, <2>1
  <2> QED
    BY <2>2, <2>3, <2>4
<1>8. ASSUME NEW r \in Peer, NEW s \in Nat
      PROVE  Has(n2, r, s) <=> Has(n, r, s) \/ (r = p /\ s = t)
  <2>1. CASE r = p
    <3>1. s <= t <=> s <= n.lastSent \/ s = t
      BY <1>1
    <3> QED
      BY <1>1, <2>1, <3>1 DEF Has
  <2>2. CASE r # p
    BY <1>1, <1>7, <2>2 DEF Has
  <2> QED
    BY <2>1, <2>2
<1>9. GateOK(n2)
  BY <1>1, <1>3, <1>4, <1>5, <1>6 DEF GateOK, GateShape
<1>10. QueueOK(n2) /\ KernelOK(n2)
  BY <1>1, <1>3 DEF QueueOK, QueueShape, KernelOK
<1>11. q.next[p] = Base(p, t + 1)
  BY <1>2, BaseIsNat DEF OwnFiled
<1>12. HasRoom(n2) => HasRoom(n)
  <2>1. Cardinality(n.queue.pending) \in Nat /\ Cardinality(q.pending) \in Nat
    BY <1>2, <1>3, FS_CardinalityType DEF QueueShape, QueueOK
  <2>2. Cardinality(n.queue.pending) <= Cardinality(q.pending)
    BY <1>2 DEF OwnFiled
  <2> QED
    BY <1>2, <2>1, <2>2, MaxPendingAssumption DEF HasRoom
<1>13. ~ Has(n, p, t)
  <2>1. ~ (t <= n.lastSent)
    BY <1>1
  <2> QED
    BY <1>1, <2>1 DEF Has
<1>14. ASSUME NEW e \in n.queue.pending
       PROVE  e[1] \notin Commands(p, t)
  <2> SUFFICES ASSUME e[1] \in Commands(p, t) PROVE FALSE
    OBVIOUS
  <2>1. e[1].source = p /\ e[1].target = t
    BY CommandsAreSaid
  <2>2. Within(n)
    BY <1>3 DEF Sound
  <2> QED
    BY <1>13, <2>1, <2>2 DEF Within
<1>15. q.pending = n.queue.pending \cup {<<c, 1>> : c \in Commands(p, t)}
  <2>1. q.pending = n.queue.pending \cup {<<Said(p, t)[j], 1>> : j \in 1 .. Len(Cells(p, t))}
    BY <1>2, <1>14 DEF OwnFiled
  <2> QED
    BY <2>1 DEF Commands
<1>16. Within(n2)
  <2>1. ASSUME NEW e \in q.pending
        PROVE  /\ e[2] = 1 /\ e[1].target >= Now(n2)
               /\ Has(n2, e[1].source, e[1].target)
               /\ e[1] \in Commands(e[1].source, e[1].target)
    <3>1. CASE e \in n.queue.pending
      <4>1. /\ e[2] = 1 /\ e[1].target >= Now(n)
            /\ Has(n, e[1].source, e[1].target)
            /\ e[1] \in Commands(e[1].source, e[1].target)
        BY <1>3, <3>1 DEF Sound, Within
      <4>2. e[1].source \in Peer /\ e[1].target \in Nat
        BY <1>3, <3>1 DEF QueueOK, Entry, Cmd
      <4> QED
        BY <1>3, <1>8, <4>1, <4>2
    <3>2. CASE \E c \in Commands(p, t) : e = <<c, 1>>
      <4>1. PICK c \in Commands(p, t) : e[1] = c /\ e[2] = 1
        BY <3>2
      <4>2. c.source = p /\ c.target = t
        BY CommandsAreSaid
      <4> QED
        BY <1>3, <1>8, <4>1, <4>2
    <3> QED
      BY <1>15, <2>1, <3>1, <3>2
  <2> QED
    BY <1>2, <2>1 DEF Within
<1>17. ASSUME HasRoom(n2)
       PROVE  Exact(n2)
  <2>1. Exact(n)
    BY <1>3, <1>12, <1>17 DEF Sound
  <2>2. ASSUME NEW r \in Peer, NEW s \in Nat, s >= Now(n2), Has(n2, r, s), NEW c \in Commands(r, s)
        PROVE  <<c, 1>> \in q.pending
    <3>1. CASE Has(n, r, s)
      BY <1>3, <1>15, <2>1, <2>2, <3>1 DEF Exact
    <3>2. CASE r = p /\ s = t
      BY <1>15, <2>2, <3>2
    <3> QED
      BY <1>8, <2>2, <3>1, <3>2
  <2> QED
    BY <1>2, <1>16, <2>2 DEF Exact
<1>18. Sound(n2)
  BY <1>1, <1>2, <1>11, <1>16, <1>17 DEF Sound
<1>19. Local(p, n2)
  BY <1>1, <1>3, <1>9, <1>10, <1>18 DEF Local
<1>20. Onward(n, n2)
  BY <1>1, <1>3 DEF Onward, Spoke
<1> QED
  BY <1>3, <1>7, <1>19, <1>20 DEF Announces
------------------------------------------------------------------------------
\* What p says in a step, as InvCarried has it.
LEMMA InvUttered ==
  ASSUME NEW N, NEW links, Inv(N, links), NEW p \in Peer, NEW n2,
         NEW N2, N2 = [N EXCEPT ![p] = n2],
         NEW after, NetOK(after), NEW message, Carries(links, after, p, message),
         Local(p, n2), Onward(N[p], n2),
         \A o \in Peer \ {p} : \A t \in Nat : Succeeded(n2) /\ Marked(n2, o, t) => Marked(N[p], o, t),
         \A q \in Peer : Follows(n2, q, N2[q]),
         \A q \in Peer \ {p} :
           /\ Proper(N2[q], p, N2[p], message)
           /\ \A s \in Slots(links, q, p) : ~ SameTurn(MessageAt(links, q, p, s), message)
  PROVE  Inv(N2, after)
BY InvCarried

\* A turn is said: nobody has it, and it is nowhere under way.
LEMMA InvSaid ==
  ASSUME Works, NEW N, NEW links, Inv(N, links), NEW p \in Peer, NEW n, n = N[p], Succeeded(n),
         NEW t \in Nat, t = n.lastSent + 1, Valid(p, t),
         NEW n2, Announces(p, n, n2, t), Spoke(n2, t),
         NEW message, message = Turn(p, t, Said(p, t)),
         NEW after, after = Broadcast(links, p, message).net
  PROVE  Inv([N EXCEPT ![p] = n2], after)
<1>1. /\ NetOK(links) /\ N = [q \in Peer |-> N[q]]
      /\ \A q \in Peer : Local(q, N[q])
      /\ \A q, r \in Peer : Follows(N[q], r, N[r])
      /\ \A q, o \in Peer : q # o => UnderWay(links, q, N[q], o, N[o])
  BY DEF Inv
<1>2. NetOK(after) /\ Carries(links, after, p, message)
  BY <1>1, BroadcastCarries
<1>3. PICK N2 : N2 = [N EXCEPT ![p] = n2]
  OBVIOUS
<1>4. N2[p] = n2 /\ (\A q \in Peer \ {p} : N2[q] = N[q])
  BY <1>1, <1>3
<1>5. ~ Spoke(n, t)
  <2>1. n.lastSent \in Nat \cup {-1}
    BY <1>1 DEF Local
  <2>2. ~ (t <= n.lastSent)
    BY <2>1
  <2> QED
    BY <2>2 DEF Spoke
<1>6. /\ message.type = "Turn" /\ message.tick = t /\ message.type \in Kinds
      /\ message = Turn(p, message.tick, Said(p, message.tick))
  <2>1. message.type = "Turn" /\ message.tick = t
    BY DEF Turn
  <2> QED
    BY <2>1 DEF Kinds
<1>7. ASSUME NEW q \in Peer \ {p}
      PROVE  /\ Proper(N2[q], p, N2[p], message)
             /\ \A s \in Slots(links, q, p) : ~ SameTurn(MessageAt(links, q, p, s), message)
  <2>1. N2[q] = N[q] /\ N[q].id = q
    BY <1>1, <1>4 DEF Local
  <2>2. ~ Has(N[q], p, t)
    <3>1. ~ Marked(N[q], p, t)
      BY <1>1, <1>5 DEF Follows
    <3> QED
      BY <2>1, <3>1 DEF Has
  <2>3. Proper(N2[q], p, N2[p], message)
    BY <1>4, <1>6, <2>1, <2>2 DEF Proper
  <2>4. ASSUME NEW s \in Slots(links, q, p), SameTurn(MessageAt(links, q, p, s), message)
        PROVE  FALSE
    <3>1. UnderWay(links, q, N[q], p, N[p])
      BY <1>1
    <3>2. Proper(N[q], p, N[p], MessageAt(links, q, p, s))
      BY <3>1 DEF UnderWay
    <3> QED
      BY <1>5, <1>6, <2>4, <3>2 DEF Proper, SameTurn
  <2> QED
    BY <2>3, <2>4
<1>8. ASSUME NEW o \in Peer \ {p}
      PROVE  \A s \in Nat : Succeeded(n2) /\ Marked(n2, o, s) => Marked(N[p], o, s)
  BY DEF Announces
<1>9. Local(p, n2) /\ Onward(N[p], n2)
  BY DEF Announces
<1>10. ASSUME NEW q \in Peer
       PROVE  Follows(n2, q, N2[q])
  <2>1. \A s \in Nat : Spoke(N[q], s) => Spoke(N2[q], s)
    BY <1>4, <1>9 DEF Onward
  <2>2. Follows(n, q, N[q])
    BY <1>1
  <2>3. Now(n) \in Nat /\ Now(n2) = Now(n)
    BY <1>1 DEF Local, KernelOK, Now, Announces
  <2>4. ASSUME NEW s \in Nat, Marked(n2, q, s)
        PROVE  Spoke(N2[q], s)
    <3>1. Marked(n, q, s) \/ (q = p /\ s = t)
      BY <2>4 DEF Announces
    <3> QED
      BY <1>4, <2>1, <2>2, <3>1 DEF Follows
  <2>5. Now(n) > 0 => Now(n) - 1 \in Nat
    BY <2>3
  <2> QED
    BY <2>1, <2>2, <2>3, <2>4, <2>5 DEF Follows
<1>11. Inv(N2, after)
  BY <1>2, <1>3, <1>7, <1>8, <1>9, <1>10, InvUttered
<1> QED
  BY <1>3, <1>11

\* A sequence of a turn's commands in their order is that turn.
LEMMA SaidIsDrafted ==
  ASSUME Works, NEW p \in Peer, NEW t \in Nat, NEW s, Listed(s), Len(s) = Len(Cells(p, t)),
         \A j \in 1 .. Len(Cells(p, t)) : s[j] = Said(p, t)[j]
  PROVE  s = Said(p, t)
<1>1. Said(p, t) = [j \in 1 .. Len(Cells(p, t)) |-> Said(p, t)[j]]
  BY DEF Said
<1> QED
  BY <1>1 DEF Listed

\* Announcing a turn, sent or not, keeps the invariant.
LEMMA AnnounceKeeps ==
  ASSUME Works, NEW N, NEW p \in Peer, NEW cut, Holds(N, p, cut),
         Now(cut.node) <= cut.node.lastSent + 1, OwesTurn(cut.node)
  PROVE  Holds(N, p, AnnounceTurn(cut))
<1>1. PICK n : n = cut.node
  OBVIOUS
<1>2. PICK links : links = cut.net
  OBVIOUS
<1>3. PICK M : M = [N EXCEPT ![p] = n]
  OBVIOUS
<1>4. /\ cut = [node |-> n, net |-> links] /\ N = [q \in Peer |-> N[q]]
      /\ Inv(M, links) /\ M[p] = n /\ \A m : [M EXCEPT ![p] = m] = [N EXCEPT ![p] = m]
  BY <1>1, <1>2, <1>3 DEF Holds
<1>5. Local(p, n) /\ n.id = p /\ Shape(n) /\ Listed(n.pending)
  <2>1. Local(p, n)
    BY <1>1, HoldsIs
  <2> QED
    BY <2>1 DEF Local
<1>6. PICK t \in Nat : t = n.lastSent + 1
  BY <1>5 DEF Local
<1>7. Succeeded(n) /\ n.state = "Running" /\ t <= Now(n) + Delay[p] /\ t >= Now(n) /\ Now(n) \in Nat
  <2>1. Now(n) \in Nat
    BY <1>5 DEF Local, KernelOK, Now
  <2> QED
    BY <1>1, <1>5, <1>6, <2>1 DEF OwesTurn, Playing
<1>8. PICK draft : draft = Drafted(n, Cells(p, t))[Len(Cells(p, t))]
  OBVIOUS
<1>9. PICK q, s : Drafts(p, n, t, draft, Len(Cells(p, t)), q, s)
  BY <1>5, <1>6, <1>7, <1>8, DraftedIs
<1>10. PICK drafted : drafted = [cut EXCEPT !.node = draft.node]
  OBVIOUS
<1>11. AnnounceTurn(cut) = After(drafted, SendTurn(drafted, t, draft.commands))
  BY <1>1, <1>5, <1>6, <1>8, <1>10 DEF AnnounceTurn
<1>12. drafted = [node |-> draft.node, net |-> links] /\ drafted.node = draft.node /\ drafted.net = links
  BY <1>4, <1>10
<1>13. QueueShape(q)
  BY <1>9 DEF Drafts
<1>14. ASSUME NEW n2, Alike(n, n2, {"queue", "error"}), QueueShape(n2.queue), ~ Succeeded(n2)
       PROVE  Inv([N EXCEPT ![p] = n2], links)
  <2>1. /\ Announces(p, n, n2, t)
        /\ \A r, u : Marked(n2, r, u) <=> Marked(n, r, u)
    BY <1>5, <1>14, FailedKeeps
  <2>2. PICK M2 : M2 = [M EXCEPT ![p] = n2] /\ M2 = [N EXCEPT ![p] = n2]
    BY <1>4
  <2>3. Local(p, n2) /\ Onward(M[p], n2)
    BY <1>4, <2>1 DEF Announces
  <2>4. ASSUME NEW r \in Peer
        PROVE  Follows(n2, r, M2[r])
    <3>1. Follows(n, r, M[r])
      BY <1>4 DEF Inv
    <3>2. \A u \in Nat : Spoke(M[r], u) => Spoke(M2[r], u)
      BY <1>4, <2>2, <2>3 DEF Onward, Inv
    <3>3. Now(n2) = Now(n) /\ (Now(n) > 0 => Now(n) - 1 \in Nat)
      BY <1>7, <2>1 DEF Announces
    <3> QED
      BY <2>1, <3>1, <3>2, <3>3 DEF Follows
  <2>5. NetOK(links) /\ Carries(links, links, Nobody, 0) /\ Nobody \notin Peer
    BY <1>4, NothingMoves DEF Inv
  <2>6. \A o \in Peer \ {p} : \A u \in Nat : Succeeded(n2) /\ Marked(n2, o, u) => Marked(M[p], o, u)
    BY <1>14
  <2>7. Inv(M2, links)
    BY <1>4, <2>2, <2>3, <2>4, <2>5, <2>6, InvCarried
  <2> QED
    BY <2>2, <2>7
<1>15. CASE draft = [node |-> [n EXCEPT !.queue = q, !.error = "Exhausted"], commands |-> s]
  <2>1. PICK n2 : n2 = [n EXCEPT !.queue = q, !.error = "Exhausted"]
    OBVIOUS
  <2>2. Alike(n, n2, {"queue", "error"}) /\ n2.queue = q /\ ~ Succeeded(n2)
    BY <1>5, <2>1 DEF Alike, Shape, NodeFields, Succeeded
  <2>3. Inv([N EXCEPT ![p] = n2], links)
    BY <1>13, <1>14, <2>2
  <2>4. AnnounceTurn(cut) = [node |-> n2, net |-> links]
    BY <1>11, <1>12, <1>15, <2>1, <2>2 DEF After
  <2>5. PICK c : c = AnnounceTurn(cut) /\ c.node = n2 /\ c.net = links /\ c = [node |-> c.node, net |-> c.net]
    BY <2>4
  <2> QED
    BY <1>4, <2>3, <2>5 DEF Holds
<1>16. CASE /\ draft = [node |-> [n EXCEPT !.queue = q], commands |-> s]
            /\ Listed(s) /\ Len(s) = Len(Cells(p, t))
            /\ \A j \in 1 .. Len(Cells(p, t)) : s[j] = Said(p, t)[j]
            /\ OwnFiled(p, t, n.queue, q, Len(Cells(p, t)))
  <2>1. PICK d : d = [n EXCEPT !.queue = q]
    OBVIOUS
  <2>2. /\ Shape(d) /\ d.queue = q /\ d.id = p /\ Succeeded(d) /\ d.state = "Running"
        /\ d.lastSent = n.lastSent /\ d.gate = n.gate /\ d.kernel = n.kernel
    BY <1>5, <1>7, <2>1 DEF Shape, NodeFields, Succeeded
  <2>3. PICK message : message = Turn(p, t, Said(p, t))
    OBVIOUS
  <2>4. drafted = [node |-> d, net |-> links] /\ draft.commands = Said(p, t)
    BY <1>12, <1>16, <2>1, SaidIsDrafted
  <2>5. PICK sent : sent = Send(drafted, message)
    OBVIOUS
  <2>6. PICK said : said = Broadcast(links, p, message)
    OBVIOUS
  <2>7. sent = [node |-> IF said.ok THEN d ELSE Fail(d, "Unavailable"), net |-> said.net]
    BY <2>2, <2>4, <2>5, <2>6 DEF Send
  <2>8. PICK marked : marked = [sent EXCEPT !.node.lastSent = Later(@, t),
                                           !.node.gate = MarkComplete(@, p, t)]
    OBVIOUS
  <2>9. AnnounceTurn(cut) = After(sent, marked)
    <3>1. drafted.node = d /\ drafted.net = links
      BY <2>4
    <3>2. ~ PastFinish(d, t) /\ Live(d)
      BY <2>2 DEF PastFinish, Live
    <3>3. SendTurn(drafted, t, Said(p, t)) = After(sent, marked)
      BY <2>2, <2>3, <2>5, <2>8, <3>1, <3>2 DEF SendTurn
    <3> QED
      BY <1>11, <2>2, <2>4, <3>1, <3>3 DEF After
  <2>10. Valid(p, t)
    BY <1>16 DEF Valid, OwnFiled
  <2>11. ASSUME NEW n2, Announces(p, n, n2, t), Spoke(n2, t), AnnounceTurn(cut) = [node |-> n2, net |-> said.net]
         PROVE  Holds(N, p, AnnounceTurn(cut))
    <3>1. PICK after : after = said.net
      OBVIOUS
    <3>2. Inv([M EXCEPT ![p] = n2], after)
      BY <1>4, <1>6, <1>7, <2>3, <2>6, <2>10, <2>11, <3>1, InvSaid
    <3>3. PICK c : c = AnnounceTurn(cut) /\ c.node = n2 /\ c.net = after /\ c = [node |-> c.node, net |-> c.net]
      BY <2>11, <3>1
    <3>4. Inv([N EXCEPT ![p] = n2], after) /\ N = [r \in Peer |-> N[r]]
      BY <1>4, <3>2
    <3> QED
      BY <3>3, <3>4 DEF Holds
  <2>12. CASE ~ said.ok
    <3>1. PICK n2 : n2 = Fail(d, "Unavailable")
      OBVIOUS
    <3>2. Alike(n, n2, {"queue", "error"}) /\ n2.queue = q /\ ~ Succeeded(n2)
      BY <1>5, <2>1, <3>1 DEF Alike, Shape, NodeFields, Succeeded, Fail
    <3>3. Announces(p, n, n2, t)
      BY <1>5, <1>13, <3>2, FailedKeeps
    <3>4. Spoke(n2, t)
      <4>1. n2.lastSent = n.lastSent /\ n2.id = p /\ Now(n2) = Now(n)
        BY <1>5, <3>2 DEF Alike, NodeFields, Now
      <4> QED
        BY <1>6, <1>7, <3>2, <4>1 DEF Spoke
    <3>5. AnnounceTurn(cut) = [node |-> n2, net |-> said.net]
      <4>1. sent = [node |-> n2, net |-> said.net] /\ sent.node = n2
        BY <2>7, <2>12, <3>1
      <4> QED
        BY <2>9, <3>2, <4>1 DEF After
    <3> QED
      BY <2>11, <3>3, <3>4, <3>5
  <2>13. CASE said.ok
    <3>1. PICK n2 : n2 = [d EXCEPT !.lastSent = t, !.gate = MarkComplete(n.gate, p, t)]
      OBVIOUS
    <3>2. /\ Alike(n, n2, {"queue", "lastSent", "gate"}) /\ n2.queue = q
          /\ n2.lastSent = t /\ n2.gate = MarkComplete(n.gate, p, t)
      <4>1. PICK g : g = MarkComplete(n.gate, p, t)
        OBVIOUS
      <4>2. n2 = [d EXCEPT !.lastSent = t, !.gate = g]
        BY <3>1, <4>1
      <4>3. /\ Alike(n, n2, {"queue", "lastSent", "gate"}) /\ n2.queue = q /\ n2.lastSent = t /\ n2.gate = g
        BY <1>5, <2>1, <4>2 DEF Alike, Shape, NodeFields
      <4> QED
        BY <4>1, <4>3
    <3>3. Announces(p, n, n2, t)
      BY <1>5, <1>6, <1>7, <1>13, <1>16, <3>2, SaidKeeps
    <3>4. Spoke(n2, t)
      BY <3>2 DEF Spoke
    <3>5. AnnounceTurn(cut) = [node |-> n2, net |-> said.net]
      <4>1. sent = [node |-> d, net |-> said.net] /\ sent.node = d
        BY <2>7, <2>13
      <4>2. Later(d.lastSent, t) = t
        BY <1>5, <1>6, <2>2 DEF Later, Local
      <4>3. PICK g : g = MarkComplete(n.gate, p, t)
        OBVIOUS
      <4>4. [d EXCEPT !.lastSent = Later(@, t), !.gate = MarkComplete(@, p, t)] = n2
        BY <2>2, <3>1, <4>2
      <4>5. marked = [sent EXCEPT !.node = [d EXCEPT !.lastSent = Later(@, t), !.gate = MarkComplete(@, p, t)]]
        BY <2>2, <2>8, <4>1 DEF Shape, NodeFields
      <4>6. marked = [node |-> n2, net |-> said.net]
        BY <4>1, <4>4, <4>5
      <4> QED
        BY <2>2, <2>9, <4>1, <4>6 DEF After
    <3> QED
      BY <2>11, <3>3, <3>4, <3>5
  <2> QED
    BY <2>12, <2>13
<1> QED
  BY <1>9, <1>15, <1>16 DEF Drafts

------------------------------------------------------------------------------
\* A world and what one tick appends to it.
Extends(world, after, t) ==
  /\ after \in Seq(Cmd) /\ Len(world) <= Len(after)
  /\ \A i \in 1 .. Len(world) : after[i] = world[i]
  /\ \A i \in (Len(world) + 1) .. Len(after) : after[i].target = t

KernelShape(k) == k = [tick |-> k.tick, world |-> k.world, report |-> k.report]

\* A command that is applied is stamped for the tick that runs.
LEMMA ExecuteExtends ==
  ASSUME NEW world \in Seq(Cmd), NEW t \in Nat, NEW k, KernelShape(k), k.tick = t,
         Extends(world, k.world, t), NEW c \in Cmd, c.target <= t,
         NEW after, after = Execute(k, c, InvalidCell)
  PROVE  KernelShape(after) /\ after.tick = t /\ Extends(world, after.world, t)
<1>1. PICK r, w, fate : r = k.report /\ w = k.world /\ fate = Fate(k, c, InvalidCell)
  OBVIOUS
<1>2. k = [tick |-> t, world |-> w, report |-> r]
  BY <1>1 DEF KernelShape
<1>3. PICK r2 : r2 = Append(r, [command |-> c, fate |-> fate])
  OBVIOUS
<1>4. after = IF fate = "applied" THEN [[k EXCEPT !.report = r2] EXCEPT !.world = Append(w, c)]
                                  ELSE [k EXCEPT !.report = r2]
  BY <1>1, <1>2, <1>3 DEF Execute
<1>5. CASE fate # "applied"
  <2>1. after = [tick |-> t, world |-> w, report |-> r2]
    BY <1>2, <1>4, <1>5
  <2> QED
    BY <1>1, <2>1 DEF KernelShape
<1>6. CASE fate = "applied"
  <2>1. PICK w2 : w2 = Append(w, c)
    OBVIOUS
  <2>2. after = [tick |-> t, world |-> w2, report |-> r2]
    BY <1>2, <1>4, <1>6, <2>1
  <2>3. c.target \in Nat /\ c.target = t
    <3>1. c.target \in Nat /\ ~ (c.target < t)
      BY <1>1, <1>6 DEF Fate, Cmd
    <3> QED
      BY <3>1
  <2>4. w \in Seq(Cmd) /\ Extends(world, w, t)
    BY <1>1 DEF Extends
  <2>5. /\ w2 \in Seq(Cmd) /\ Len(w2) = Len(w) + 1 /\ w2[Len(w) + 1] = c
        /\ \A i \in 1 .. Len(w) : w2[i] = w[i]
        /\ Len(w) \in Nat /\ Len(world) \in Nat
    BY <2>1, <2>4
  <2>6. Extends(world, w2, t)
    <3>1. Len(world) <= Len(w2) /\ \A i \in 1 .. Len(world) : w2[i] = world[i]
      BY <2>4, <2>5 DEF Extends
    <3>2. ASSUME NEW i \in (Len(world) + 1) .. Len(w2)
          PROVE  w2[i].target = t
      <4>1. CASE i = Len(w) + 1
        BY <2>3, <2>5, <4>1
      <4>2. CASE i # Len(w) + 1
        <5>1. i \in (Len(world) + 1) .. Len(w) /\ i \in 1 .. Len(w)
          BY <2>5, <4>2
        <5> QED
          BY <2>4, <2>5, <5>1 DEF Extends
      <4> QED
        BY <4>1, <4>2
    <3> QED
      BY <2>5, <3>1, <3>2 DEF Extends
  <2> QED
    BY <2>2, <2>6 DEF KernelShape
<1> QED
  BY <1>5, <1>6

\* A tick appends to the world commands that are stamped for it, and moves on.
LEMMA RunExtends ==
  ASSUME NEW k, KernelShape(k), NEW t \in Nat, k.tick = t, k.world \in Seq(Cmd),
         NEW q, QueueShape(q), NEW after, after = RunTick(k, q, InvalidCell)
  PROVE  KernelShape(after) /\ after.tick = t + 1 /\ Extends(k.world, after.world, t)
<1>1. PICK order, len, world : order = Drained(q, t) /\ len = Len(order) /\ world = k.world
  OBVIOUS
<1>2. /\ q.pending \in SUBSET Entry /\ IsFiniteSet(q.pending)
  BY DEF QueueShape
<1>3. /\ Cardinality(Due(q, t)) \in Nat
      /\ order \in [1 .. Cardinality(Due(q, t)) -> Cmd]
      /\ \A i \in 1 .. Cardinality(Due(q, t)) : \E e \in Due(q, t) : e[1] = order[i]
  <2>1. Sorts(Drained(q, t), Due(q, t))
    BY <1>2, DrainedIsSorted
  <2> QED
    BY <1>1, <2>1 DEF Sorts
<1>4. len \in Nat /\ DOMAIN order = 1 .. len /\ \A i \in 1 .. len : order[i] \in Cmd
  BY <1>1, <1>3
<1>5. \A i \in 1 .. len : order[i].target <= t
  BY <1>3, <1>4 DEF Due
<1>6. PICK g : g = Executed(k, order, InvalidCell)
  OBVIOUS
<1>7. g[0] = [k EXCEPT !.report = <<>>] /\ \A i \in 1 .. len : g[i] = Execute(g[i - 1], order[i], InvalidCell)
  BY <1>1, <1>4, <1>6, ExecutedIsAChain
<1> DEFINE Good(i) == KernelShape(g[i]) /\ g[i].tick = t /\ Extends(world, g[i].world, t)
           S == {i \in 0 .. len : Good(i)}
<1>8. 0 \in S
  <2>1. PICK first : first = g[0]
    OBVIOUS
  <2>2. first = [tick |-> t, world |-> world, report |-> <<>>]
    BY <1>1, <1>7, <2>1 DEF KernelShape
  <2>3. Extends(world, world, t)
    BY <1>1 DEF Extends
  <2>4. KernelShape(first) /\ first.tick = t /\ Extends(world, first.world, t)
    BY <2>2, <2>3 DEF KernelShape
  <2> QED
    BY <1>4, <2>1, <2>4
<1>9. ASSUME NEW i \in 1 .. len, i - 1 \in S PROVE i \in S
  <2>1. PICK before, now : before = g[i - 1] /\ now = g[i]
    OBVIOUS
  <2>2. KernelShape(before) /\ before.tick = t /\ Extends(world, before.world, t)
    BY <1>9, <2>1
  <2>3. now = Execute(before, order[i], InvalidCell)
    BY <1>7, <2>1
  <2>4. KernelShape(now) /\ now.tick = t /\ Extends(world, now.world, t)
    BY <1>1, <1>4, <1>5, <2>2, <2>3, ExecuteExtends
  <2> QED
    BY <1>9, <2>1, <2>4
<1> HIDE DEF Good
<1>10. Good(len)
  <2>1. \A i \in 0 .. len : i \in S
    <3> HIDE DEF S
    <3> QED
      BY <1>4, <1>8, <1>9, Climbs
  <2> QED
    BY <1>4, <2>1
<1>11. PICK last : last = g[len]
  OBVIOUS
<1>12. KernelShape(last) /\ last.tick = t /\ Extends(world, last.world, t)
  BY <1>10, <1>11 DEF Good
<1>13. after = [last EXCEPT !.tick = @ + 1]
  BY <1>1, <1>6, <1>11 DEF RunTick
<1>14. PICK w, r : w = last.world /\ r = last.report
  OBVIOUS
<1>15. last = [tick |-> t, world |-> w, report |-> r]
  BY <1>12, <1>14 DEF KernelShape
<1>16. after = [tick |-> t + 1, world |-> w, report |-> r]
  BY <1>13, <1>15
<1> QED
  BY <1>1, <1>12, <1>14, <1>16 DEF KernelShape

\* The new world is a matter of the tick, the old world and what is due.
LEMMA RunDepends ==
  ASSUME NEW k, KernelShape(k), NEW j, KernelShape(j), k.tick = j.tick, k.world = j.world,
         NEW q, NEW r, Due(q, k.tick) = Due(r, k.tick)
  PROVE  RunTick(k, q, InvalidCell) = RunTick(j, r, InvalidCell)
<1>1. PICK t, order, start : t = k.tick /\ order = Drained(q, t) /\ start = [k EXCEPT !.report = <<>>]
  OBVIOUS
<1>2. order = Drained(r, t)
  <2>1. PICK due : due = Due(q, t) /\ due = Due(r, t)
    BY <1>1
  <2> QED
    BY <1>1, <2>1 DEF Drained
<1>3. start = [j EXCEPT !.report = <<>>]
  <2>1. PICK w, a, b : w = k.world /\ a = k.report /\ b = j.report
    OBVIOUS
  <2>2. k = [tick |-> t, world |-> w, report |-> a] /\ j = [tick |-> t, world |-> w, report |-> b]
    BY <1>1, <2>1 DEF KernelShape
  <2>3. start = [k EXCEPT !.report = <<>>]
    BY <1>1
  <2> QED
    BY <2>2, <2>3
<1> DEFINE chain(g, s) ==
             g = [i \in 0 .. Len(order) |-> IF i = 0 THEN s ELSE Execute(g[i - 1], order[i], InvalidCell)]
           E(s) == CHOOSE g : chain(g, s)
<1>4. Executed(k, order, InvalidCell) = E([k EXCEPT !.report = <<>>])
  BY DEF Executed
<1>5. Executed(j, order, InvalidCell) = E([j EXCEPT !.report = <<>>])
  BY DEF Executed
<1> HIDE DEF E
<1>6. Executed(k, order, InvalidCell) = Executed(j, order, InvalidCell)
  BY <1>1, <1>3, <1>4, <1>5
<1>7. RunTick(k, q, InvalidCell) = [Executed(k, order, InvalidCell)[Len(order)] EXCEPT !.tick = @ + 1]
  BY <1>1 DEF RunTick
<1>8. RunTick(j, r, InvalidCell) = [Executed(j, order, InvalidCell)[Len(order)] EXCEPT !.tick = @ + 1]
  BY <1>1, <1>2 DEF RunTick
<1> QED
  BY <1>6, <1>7, <1>8

------------------------------------------------------------------------------
\* What is due at a peer that holds everybody's turn is what everybody said.
LEMMA DueIsAllSaid ==
  ASSUME Works, NEW n, QueueShape(n.queue), Exact(n), NEW t \in Nat, t = Now(n),
         \A q \in Peer : Has(n, q, t)
  PROVE  Due(n.queue, t) = AllSaid(t)
<1>1. PICK pending : pending = n.queue.pending
  OBVIOUS
<1>2. pending \in SUBSET Entry
  BY <1>1 DEF QueueShape
<1>3. ASSUME NEW e \in pending, e[1].target <= t
      PROVE  e \in AllSaid(t)
  <2>1. e[1] \in Cmd /\ e = <<e[1], e[2]>>
    BY <1>2 DEF Entry
  <2>2. e[2] = 1 /\ e[1].target >= t /\ e[1] \in Commands(e[1].source, e[1].target)
    BY <1>1 DEF Exact, Within
  <2>3. e[1].target \in Nat /\ e[1].source \in Peer
    BY <2>1 DEF Cmd
  <2>4. e[1].target = t
    BY <1>3, <2>2, <2>3
  <2>5. PICK c, q : c = e[1] /\ q = e[1].source
    OBVIOUS
  <2>6. e = <<c, 1>> /\ c \in Commands(q, t) /\ q \in Peer
    BY <2>1, <2>2, <2>3, <2>4, <2>5
  <2> QED
    BY <2>6 DEF AllSaid
<1>4. ASSUME NEW q \in Peer, NEW c \in Commands(q, t)
      PROVE  <<c, 1>> \in pending /\ <<c, 1>>[1].target <= t
  <2>1. c.target = t
    BY CommandsAreSaid
  <2>2. <<c, 1>> \in pending
    BY <1>1 DEF Exact, Within
  <2>3. <<c, 1>>[1] = c
    OBVIOUS
  <2> QED
    BY <2>1, <2>2, <2>3
<1>5. \A e : e \in Due(n.queue, t) <=> e \in pending /\ e[1].target <= t
  BY <1>1 DEF Due
<1>6. ASSUME NEW e \in AllSaid(t) PROVE e \in Due(n.queue, t)
  <2>1. PICK q \in Peer : \E c \in Commands(q, t) : e = <<c, 1>>
    BY DEF AllSaid
  <2>2. PICK c \in Commands(q, t) : e = <<c, 1>>
    BY <2>1
  <2> QED
    BY <1>4, <1>5, <2>2
<1> QED
  BY <1>3, <1>5, <1>6

\* What a tick appends leaves the world of every tick before it as it was.
LEMMA UntilIs ==
  ASSUME NEW world \in Seq(Cmd), NEW t \in Nat, \A i \in DOMAIN world : world[i].target < t,
         NEW after, Extends(world, after, t)
  PROVE  /\ Until(world, t) = world /\ Until(after, t + 1) = after
         /\ \A i \in DOMAIN after : after[i].target < t + 1
         /\ \A s \in 0 .. t : Until(after, s) = Until(world, s)
<1>1. PICK m, n : m = Len(world) /\ n = Len(after)
  OBVIOUS
<1>2. /\ m \in Nat /\ DOMAIN world = 1 .. m /\ n \in Nat /\ DOMAIN after = 1 .. n /\ m <= n
      /\ \A i \in 1 .. m : world[i].target \in Nat /\ world[i].target < t
      /\ \A i \in 1 .. m : after[i] = world[i]
      /\ \A i \in (m + 1) .. n : after[i].target = t
      /\ after \in Seq(Cmd)
  <2>1. m \in Nat /\ DOMAIN world = 1 .. m
    BY <1>1
  <2>2. after \in Seq(Cmd) /\ n \in Nat /\ DOMAIN after = 1 .. n
    <3>1. after \in Seq(Cmd)
      BY DEF Extends
    <3> QED
      BY <1>1, <3>1
  <2>3. \A i \in 1 .. m : world[i].target \in Nat
    <3>1. \A i \in 1 .. m : world[i] \in Cmd
      BY <1>1
    <3>2. \A c \in Cmd : c.target \in Nat
      BY DEF Cmd
    <3> QED
      BY <3>1, <3>2
  <2> QED
    BY <1>1, <2>1, <2>2, <2>3 DEF Extends
<1>3. \A i \in 1 .. n : after[i].target < t + 1
  <2> SUFFICES ASSUME NEW i \in 1 .. n PROVE after[i].target < t + 1
    OBVIOUS
  <2>1. CASE i \in 1 .. m
    BY <1>2, <2>1
  <2>2. CASE i \in (m + 1) .. n
    BY <1>2, <2>2
  <2> QED
    BY <1>2, <2>1, <2>2
<1>4. \A l \in Nat : Cardinality(1 .. l) = l
  <2> SUFFICES ASSUME NEW l \in Nat PROVE Cardinality(1 .. l) = l
    OBVIOUS
  <2>1. 1 \in Int /\ l \in Int
    OBVIOUS
  <2>2. Cardinality(1 .. l) = IF 1 > l THEN 0 ELSE l - 1 + 1
    BY <2>1, FS_Interval
  <2> QED
    BY <2>2
<1>5. Until(world, t) = world
  <2>1. {i \in DOMAIN world : world[i].target < t} = 1 .. m
    BY <1>2
  <2>2. Until(world, t) = SubSeq(world, 1, Len(world))
    BY <1>1, <1>2, <1>4, <2>1 DEF Until
  <2>3. SubSeq(world, 1, Len(world)) = world
    OBVIOUS
  <2> QED
    BY <2>2, <2>3
<1>6. Until(after, t + 1) = after
  <2>1. {i \in DOMAIN after : after[i].target < t + 1} = 1 .. n
    BY <1>2, <1>3
  <2>2. Until(after, t + 1) = SubSeq(after, 1, Len(after))
    BY <1>1, <1>2, <1>4, <2>1 DEF Until
  <2>3. SubSeq(after, 1, Len(after)) = after
    BY <1>2
  <2> QED
    BY <2>2, <2>3
<1>7. ASSUME NEW s \in 0 .. t PROVE Until(after, s) = Until(world, s)
  <2>1. PICK below : below = {i \in DOMAIN world : world[i].target < s}
    OBVIOUS
  <2>2. {i \in DOMAIN after : after[i].target < s} = below
    <3>1. ASSUME NEW i \in 1 .. n, after[i].target < s PROVE i \in 1 .. m
      <4>1. CASE i \in (m + 1) .. n
        BY <1>2, <3>1, <4>1
      <4> QED
        BY <1>2, <4>1
    <3> QED
      BY <1>2, <2>1, <3>1
  <2>3. IsFiniteSet(1 .. m) /\ Cardinality(1 .. m) = m /\ below \in SUBSET (1 .. m)
    <3>1. 1 \in Int /\ m \in Int
      BY <1>2
    <3>2. IsFiniteSet(1 .. m)
      BY <3>1, FS_Interval
    <3> QED
      BY <1>2, <1>4, <2>1, <3>2
  <2>4. PICK c : c = Cardinality(below)
    OBVIOUS
  <2>5. c \in Nat /\ c <= m
    <3>1. IsFiniteSet(below) /\ Cardinality(below) <= Cardinality(1 .. m)
      BY <2>3, FS_Subset
    <3>2. Cardinality(below) \in Nat
      BY <3>1, FS_CardinalityType
    <3> QED
      BY <2>3, <2>4, <3>1, <3>2
  <2>6. Until(after, s) = SubSeq(after, 1, c) /\ Until(world, s) = SubSeq(world, 1, c)
    BY <2>1, <2>2, <2>4 DEF Until
  <2>7. SubSeq(after, 1, c) = [i \in 1 .. c |-> after[i]] /\ SubSeq(world, 1, c) = [i \in 1 .. c |-> world[i]]
    <3>1. c <= n
      BY <1>2, <2>5
    <3> QED
      BY <1>1, <1>2, <2>5, <3>1
  <2>8. \A i \in 1 .. c : after[i] = world[i]
    BY <1>2, <2>5
  <2>9. [i \in 1 .. c |-> after[i]] = [i \in 1 .. c |-> world[i]]
    BY <2>8
  <2> QED
    BY <2>6, <2>7, <2>9
<1> QED
  BY <1>2, <1>3, <1>5, <1>6, <1>7

\* A tick that runs what everybody said goes on with the history of all.
LEMMA HistoryGrows ==
  ASSUME NEW k, KernelShape(k), History(k), NEW t \in Nat, k.tick = t,
         NEW after, after.tick = t + 1, Extends(k.world, after.world, t),
         after.world = RunOf(k.world, t)
  PROVE  History(after)
<1>1. PICK w, w2 : w = k.world /\ w2 = after.world
  OBVIOUS
<1>2. /\ w \in Seq(Cmd) /\ (\A i \in DOMAIN w : w[i].target < t)
      /\ \A s \in 0 .. (t - 1) : Until(w, s + 1) = RunOf(Until(w, s), s)
  BY <1>1 DEF History
<1>3. /\ Until(w, t) = w /\ Until(w2, t + 1) = w2
      /\ \A i \in DOMAIN w2 : w2[i].target < t + 1
      /\ \A s \in 0 .. t : Until(w2, s) = Until(w, s)
  BY <1>1, <1>2, UntilIs
<1>4. w2 \in Seq(Cmd)
  BY <1>1 DEF Extends
<1>5. ASSUME NEW s \in 0 .. t PROVE Until(w2, s + 1) = RunOf(Until(w2, s), s)
  <2>1. Until(w2, s) = Until(w, s)
    BY <1>3
  <2>2. CASE s = t
    <3>1. Until(w2, t + 1) = RunOf(w, t)
      BY <1>1, <1>3
    <3> QED
      BY <1>3, <2>1, <2>2, <3>1
  <2>3. CASE s # t
    <3>1. s \in 0 .. (t - 1) /\ s + 1 \in 0 .. t
      BY <2>3
    <3>2. Until(w2, s + 1) = Until(w, s + 1)
      BY <1>3, <3>1
    <3> QED
      BY <1>2, <2>1, <3>1, <3>2
  <2> QED
    BY <2>2, <2>3
<1>6. (t + 1) - 1 = t
  OBVIOUS
<1> QED
  BY <1>1, <1>3, <1>4, <1>5, <1>6 DEF History

------------------------------------------------------------------------------
\* Where the gate is ready, every peer's turn was marked.
LEMMA ReadyIsMarked ==
  ASSUME NEW p \in Peer, NEW n, Local(p, n), n.state = "Running", Ready(n.gate, Now(n)), NEW q \in Peer
  PROVE  Marked(n, q, Now(n))
<1>1. PICK t, gate : t = Now(n) /\ gate = n.gate
  OBVIOUS
<1>2. /\ t \in Nat /\ gate.floor \in Nat /\ gate.floor <= t /\ ExpectedSources(gate) = Peer
      /\ gate.expected \in [ExpectedSources(gate) -> Progress]
  BY <1>1 DEF Local, KernelOK, GateOK, Now
<1>3. q \in ExpectedSources(gate) /\ gate.expected[q] \in Progress
  BY <1>2
<1>4. gate.expected[q].completeBefore \in Nat /\ gate.expected[q].completeBefore > t
  <2>1. Ready(gate, t)
    BY <1>1
  <2> QED
    BY <1>2, <1>3, <2>1 DEF Ready, CompletedBefore, Progress
<1>5. t \in CompletedTicks(gate.expected[q])
  BY <1>2, <1>4 DEF CompletedTicks
<1> QED
  BY <1>1, <1>3, <1>5 DEF Marked

\* A tick that everybody spoke for runs what everybody said.
LEMMA KernelRuns ==
  ASSUME Works, NEW p \in Peer, NEW n, Local(p, n), Succeeded(n), HasRoom(n),
         NEW t \in Nat, t = Now(n), \A q \in Peer : Has(n, q, t),
         NEW k, k = RunTick(n.kernel, n.queue, InvalidCell)
  PROVE  KernelShape(k) /\ k.tick = t + 1 /\ History(k)
<1>1. PICK old, queue, world : old = n.kernel /\ queue = n.queue /\ world = old.world
  OBVIOUS
<1>2. /\ KernelShape(old) /\ old.tick = t /\ History(old) /\ QueueShape(queue) /\ Exact(n)
  BY <1>1 DEF Local, KernelOK, QueueOK, Sound, KernelShape, QueueShape, Now
<1>3. world \in Seq(Cmd)
  BY <1>1, <1>2 DEF History
<1>4. KernelShape(k) /\ k.tick = t + 1 /\ Extends(world, k.world, t)
  BY <1>1, <1>2, <1>3, RunExtends
<1>5. k.world = RunOf(world, t)
  <2>1. PICK said, plain : /\ said = [pending |-> AllSaid(t), next |-> <<>>]
                           /\ plain = [tick |-> t, world |-> world, report |-> <<>>]
    OBVIOUS
  <2>2. KernelShape(plain) /\ plain.tick = t /\ plain.world = world /\ said.pending = AllSaid(t)
    BY <2>1 DEF KernelShape
  <2>3. Due(queue, t) = AllSaid(t)
    BY <1>1, <1>2, DueIsAllSaid
  <2>4. Due(said, t) = AllSaid(t)
    <3>1. ASSUME NEW e \in AllSaid(t) PROVE e[1].target <= t
      <4>1. PICK q \in Peer : \E c \in Commands(q, t) : e = <<c, 1>>
        BY DEF AllSaid
      <4>2. PICK c \in Commands(q, t) : e = <<c, 1>>
        BY <4>1
      <4>3. e[1] = c /\ c.target = t
        BY <4>2, CommandsAreSaid
      <4> QED
        BY <4>3
    <3> QED
      BY <2>2, <3>1 DEF Due
  <2>5. RunTick(old, queue, InvalidCell) = RunTick(plain, said, InvalidCell)
    BY <1>1, <1>2, <2>2, <2>3, <2>4, RunDepends
  <2> QED
    BY <1>1, <2>1, <2>5 DEF RunOf
<1>6. History(k)
  BY <1>1, <1>2, <1>4, <1>5, HistoryGrows
<1> QED
  BY <1>4, <1>6

Ran(n, n2, k, queue, gate) ==
  /\ Alike(n, n2, {"kernel", "queue", "gate"})
  /\ n2.kernel = k /\ n2.queue = queue /\ n2.gate = gate

\* What running a tick leaves: as much is marked, and the next tick is on.
LEMMA RunKeeps ==
  ASSUME Works, NEW p \in Peer, NEW n, Local(p, n), Succeeded(n), n.state = "Running", HasRoom(n),
         NEW t \in Nat, t = Now(n), \A q \in Peer : Has(n, q, t),
         NEW n2, Ran(n, n2, RunTick(n.kernel, n.queue, InvalidCell), AfterDrain(n.queue, t), RetireBefore(n.gate, t))
  PROVE  /\ Local(p, n2) /\ Onward(n, n2) /\ Now(n2) = t + 1
         /\ \A q, s : Marked(n2, q, s) <=> Marked(n, q, s)
<1>1. /\ Shape(n2) /\ n2.id = p /\ n.id = p /\ n2.error = n.error
      /\ n2.drops = <<>> /\ n2.dropped = {} /\ n2.lastSent = n.lastSent
      /\ n2.pending = n.pending /\ n2.state = n.state /\ Listed(n2.pending)
      /\ n.lastSent \in Nat \cup {-1} /\ n.lastSent <= t + Delay[p]
  BY DEF Ran, Alike, NodeFields, Local
<1>2. PICK k, queue, gate : k = n2.kernel /\ queue = n.queue /\ gate = n.gate
  OBVIOUS
<1>3. /\ GateOK(n) /\ QueueOK(n) /\ KernelOK(n) /\ Sound(n) /\ Exact(n)
  BY DEF Local, Sound
<1>4. KernelShape(k) /\ k.tick = t + 1 /\ History(k) /\ Now(n2) = t + 1
  <2>1. k = RunTick(n.kernel, n.queue, InvalidCell)
    BY <1>2 DEF Ran
  <2>2. KernelShape(k) /\ k.tick = t + 1 /\ History(k)
    BY <2>1, KernelRuns
  <2> QED
    BY <1>2, <2>2 DEF Now
<1>5. KernelOK(n2)
  BY <1>2, <1>4 DEF KernelOK, KernelShape
<1>6. /\ n2.gate = [floor |-> t, expected |-> gate.expected] /\ n2.gate.floor = t
      /\ n2.gate.expected = gate.expected
  <2>1. PICK floor, expected : floor = gate.floor /\ expected = gate.expected
    OBVIOUS
  <2>2. gate = [floor |-> floor, expected |-> expected] /\ floor \in Nat /\ floor <= t
    BY <1>2, <1>3, <2>1 DEF GateOK
  <2>3. n2.gate = [gate EXCEPT !.floor = t]
    <3>1. (IF t > floor THEN t ELSE floor) = t
      BY <2>2
    <3>2. n2.gate = [gate EXCEPT !.floor = IF t > floor THEN t ELSE floor]
      BY <1>2, <2>1, <2>2 DEF Ran, RetireBefore
    <3> QED
      BY <3>1, <3>2
  <2>4. n2.gate = [floor |-> t, expected |-> expected]
    BY <2>2, <2>3
  <2> QED
    BY <2>1, <2>4
<1>7. \A q, s : Marked(n2, q, s) <=> Marked(n, q, s)
  BY <1>2, <1>6 DEF Marked, ExpectedSources
<1>8. ExpectedSources(gate) = Peer
  BY <1>2, <1>3 DEF GateOK
<1>9. GateOK(n2)
  <2>1. ExpectedSources(n2.gate) = Peer /\ n2.gate.expected \in [Peer -> Progress]
    BY <1>2, <1>3, <1>6, <1>8 DEF GateOK, ExpectedSources
  <2> QED
    BY <1>4, <1>6, <2>1 DEF GateOK
<1>10. PICK pending, next, due : pending = queue.pending /\ next = queue.next /\ due = Due(queue, t)
  OBVIOUS
<1>11. /\ queue = [pending |-> pending, next |-> next]
       /\ pending \in SUBSET Entry /\ IsFiniteSet(pending) /\ next \in [Peer -> Nat]
  BY <1>2, <1>3, <1>10 DEF QueueOK
<1>12. n2.queue = [pending |-> pending \ due, next |-> next]
  <2>1. n2.queue = [queue EXCEPT !.pending = pending \ due]
    BY <1>2, <1>10 DEF Ran, AfterDrain
  <2> QED
    BY <1>11, <2>1
<1>13. QueueOK(n2)
  <2>1. PICK rest : rest = pending \ due
    OBVIOUS
  <2>2. rest \in SUBSET pending /\ IsFiniteSet(rest)
    BY <1>11, <2>1, FS_Subset
  <2>3. n2.queue = [pending |-> rest, next |-> next] /\ n2.queue.pending = rest /\ n2.queue.next = next
    BY <1>12, <2>1
  <2> QED
    BY <1>11, <2>2, <2>3 DEF QueueOK
<1>14. \A q, s : Has(n2, q, s) <=> Has(n, q, s)
  BY <1>1, <1>7 DEF Has
<1>15. n2.queue.pending = pending \ due /\ n2.queue.next = next
  BY <1>12
<1>16. \A e \in pending : e \in due <=> e[1].target <= t
  BY <1>10 DEF Due
<1>17. ASSUME NEW e \in n2.queue.pending
       PROVE  /\ e[2] = 1 /\ e[1].target >= Now(n2)
              /\ Has(n2, e[1].source, e[1].target)
              /\ e[1] \in Commands(e[1].source, e[1].target)
  <2>1. e \in pending /\ e \notin due
    BY <1>15
  <2>2. e[2] = 1 /\ Has(n, e[1].source, e[1].target) /\ e[1] \in Commands(e[1].source, e[1].target)
    BY <1>2, <1>3, <1>10, <2>1 DEF Exact, Within
  <2>3. e[1].target \in Nat /\ ~ (e[1].target <= t)
    BY <1>11, <1>16, <2>1 DEF Entry, Cmd
  <2> QED
    BY <1>4, <1>14, <2>2, <2>3
<1>18. ASSUME NEW q \in Peer, NEW s \in Nat, s >= Now(n2), Has(n2, q, s), NEW c \in Commands(q, s)
       PROVE  <<c, 1>> \in n2.queue.pending
  <2>1. s >= t + 1 /\ s >= Now(n) /\ Has(n, q, s)
    BY <1>4, <1>14, <1>18
  <2>2. <<c, 1>> \in pending
    BY <1>2, <1>3, <1>10, <2>1 DEF Exact, Within
  <2>3. <<c, 1>>[1] = c /\ c.target = s
    BY CommandsAreSaid
  <2>4. ~ (c.target <= t)
    BY <2>1, <2>3
  <2> QED
    BY <1>15, <1>16, <2>2, <2>3, <2>4
<1>19. Exact(n2)
  BY <1>17, <1>18 DEF Exact, Within
<1>20. Sound(n2)
  <2>1. Succeeded(n2) => n2.queue.next[n2.id] = Base(n2.id, n2.lastSent + 1)
    <3>1. n.queue.next[p] = Base(p, n.lastSent + 1)
      BY <1>1, <1>3 DEF Sound
    <3> QED
      BY <1>1, <1>2, <1>10, <1>15, <3>1
  <2> QED
    BY <1>19, <2>1 DEF Sound, Exact
<1>21. n2.lastSent <= Now(n2) + Delay[p] /\ Delay[p] \in Nat
  BY <1>1, <1>4, ConfigAssumption
<1>22. Local(p, n2)
  BY <1>1, <1>5, <1>9, <1>13, <1>20, <1>21 DEF Local
<1>23. Onward(n, n2)
  BY <1>1, <1>4, <1>21 DEF Onward, Spoke, Succeeded
<1> QED
  BY <1>4, <1>7, <1>22, <1>23

\* The cut after the tick has run, before its hash is said.
LEMMA RanKeeps ==
  ASSUME Works, NEW N, NEW p \in Peer, NEW cut, Holds(N, p, cut), HasRoom(cut.node), MayStep(cut.node),
         NEW n, n = cut.node,
         NEW n2, Ran(n, n2, RunTick(n.kernel, n.queue, InvalidCell), AfterDrain(n.queue, Now(n)),
                     RetireBefore(n.gate, Now(n)))
  PROVE  Holds(N, p, [node |-> n2, net |-> cut.net])
<1>1. PICK links, M, t : links = cut.net /\ M = [N EXCEPT ![p] = n] /\ t = Now(n)
  OBVIOUS
<1>2. /\ N = [q \in Peer |-> N[q]] /\ Inv(M, links) /\ M[p] = n
      /\ \A m : [M EXCEPT ![p] = m] = [N EXCEPT ![p] = m]
  BY <1>1 DEF Holds
<1>3. /\ Local(p, n) /\ n.id = p /\ Succeeded(n) /\ n.state = "Running" /\ HasRoom(n) /\ Ready(n.gate, t)
      /\ t \in Nat
  <2>1. Local(p, n) /\ n.id = p
    <3>1. Local(p, n)
      BY HoldsIs
    <3> QED
      BY <3>1 DEF Local
  <2> QED
    BY <1>1, <2>1 DEF MayStep, Playing, Local, KernelOK, Now
<1>4. \A q \in Peer : Marked(n, q, t)
  BY <1>1, <1>3, ReadyIsMarked
<1>5. \A q \in Peer : Follows(n, q, M[q])
  BY <1>2 DEF Inv
<1>6. \A q \in Peer : Spoke(M[q], t)
  BY <1>3, <1>4, <1>5 DEF Follows
<1>7. \A q \in Peer : Has(n, q, t)
  <2>1. t <= n.lastSent
    BY <1>2, <1>3, <1>6 DEF Spoke
  <2> QED
    BY <1>3, <1>4, <2>1 DEF Has
<1>8. /\ Local(p, n2) /\ Onward(n, n2) /\ Now(n2) = t + 1
      /\ \A q, s : Marked(n2, q, s) <=> Marked(n, q, s)
  <2>1. Ran(n, n2, RunTick(n.kernel, n.queue, InvalidCell), AfterDrain(n.queue, t), RetireBefore(n.gate, t))
    BY <1>1
  <2> QED
    BY <1>1, <1>3, <1>7, <2>1, RunKeeps
<1>9. PICK M2 : M2 = [M EXCEPT ![p] = n2] /\ M2 = [N EXCEPT ![p] = n2]
  BY <1>2
<1>10. ASSUME NEW q \in Peer
       PROVE  Follows(n2, q, M2[q])
  <2>1. \A s \in Nat : Spoke(M[q], s) => Spoke(M2[q], s)
    BY <1>2, <1>8, <1>9 DEF Onward, Inv
  <2>2. Now(n2) - 1 = t
    BY <1>3, <1>8
  <2> QED
    BY <1>3, <1>5, <1>6, <1>8, <2>1, <2>2 DEF Follows
<1>11. NetOK(links) /\ Carries(links, links, Nobody, 0) /\ Nobody \notin Peer
  BY <1>2, NothingMoves DEF Inv
<1>12. \A o \in Peer \ {p} : \A s \in Nat : Succeeded(n2) /\ Marked(n2, o, s) => Marked(M[p], o, s)
  BY <1>2, <1>8
<1>13. Inv(M2, links)
  <2>1. Local(p, n2) /\ Onward(M[p], n2)
    BY <1>2, <1>8
  <2> QED
    BY <1>2, <1>9, <1>10, <1>11, <1>12, <2>1, InvCarried
<1>14. PICK c : c = [node |-> n2, net |-> links]
  OBVIOUS
<1>15. c.node = n2 /\ c.net = links /\ c = [node |-> c.node, net |-> c.net]
  BY <1>14
<1> QED
  BY <1>1, <1>2, <1>9, <1>13, <1>14, <1>15 DEF Holds

------------------------------------------------------------------------------
\* Two quiet changes are one.
LEMMA QuietSteps ==
  ASSUME NEW a, NEW b, NEW c, Quiet(a, b), Quiet(b, c)
  PROVE  Quiet(a, c)
BY DEF Quiet

\* Checks are held and answered without a word to the kernel.
LEMMA PendingIsQuiet ==
  ASSUME NEW n, Shape(n), NEW s, Listed(s), NEW n2, n2 = [n EXCEPT !.pending = s]
  PROVE  Quiet(n, n2)
<1>1. /\ Shape(n2) /\ n2.id = n.id /\ n2.lastSent = n.lastSent
      /\ n2.gate = n.gate /\ n2.queue = n.queue /\ n2.kernel = n.kernel
      /\ n2.drops = n.drops /\ n2.dropped = n.dropped
      /\ n2.state = n.state /\ n2.error = n.error /\ n2.pending = s
  BY DEF Shape, NodeFields
<1> QED
  BY <1>1 DEF Quiet, Succeeded

\* Answering one held check is quiet.
LEMMA AnswerIsQuiet ==
  ASSUME NEW n, Shape(n), Listed(n.pending), NEW check, NEW mine
  PROVE  Quiet(n, Answer(n, check, mine))
<1>1. CASE check.tick # mine.tick \/ ~ Succeeded(n)
  <2>1. PICK s, n2 : s = Append(n.pending, check) /\ n2 = [n EXCEPT !.pending = s]
    OBVIOUS
  <2>2. Listed(s)
    BY <2>1, AppendIs
  <2>3. Quiet(n, n2)
    BY <2>1, <2>2, PendingIsQuiet
  <2>4. Answer(n, check, mine) = [n EXCEPT !.pending = Append(@, check)]
    BY <1>1 DEF Answer
  <2>5. [n EXCEPT !.pending = Append(@, check)] = n2
    BY <2>1
  <2> QED
    BY <2>3, <2>4, <2>5
<1>2. CASE ~ (check.tick # mine.tick \/ ~ Succeeded(n))
  BY <1>2, ComparedIsQuiet DEF Answer
<1> QED
  BY <1>1, <1>2

\* Answering all of them is.
LEMMA AnsweredIsQuiet ==
  ASSUME NEW n, Shape(n), Listed(n.pending), NEW mine
  PROVE  Quiet(n, AnswerPending(n, mine))
<1>1. PICK pending, len : pending = n.pending /\ len = Len(pending)
  OBVIOUS
<1>2. len \in Nat
  <2>1. Listed(pending)
    BY <1>1
  <2> QED
    BY <1>1, <2>1, ListedIs
<1>3. PICK after : after = Answered(n, mine)
  OBVIOUS
<1>4. /\ after[0] = [n EXCEPT !.pending = <<>>]
      /\ \A i \in 1 .. len : after[i] = Answer(after[i - 1], pending[i], mine)
  <2>1. Len(n.pending) \in Nat
    BY <1>1, <1>2
  <2>2. /\ Answered(n, mine)[0] = [n EXCEPT !.pending = <<>>]
        /\ \A i \in 1 .. Len(n.pending) : Answered(n, mine)[i] = Answer(Answered(n, mine)[i - 1], n.pending[i], mine)
    BY <2>1, AnsweredIsAChain
  <2> QED
    BY <1>1, <1>3, <2>2
<1> DEFINE S == {i \in 0 .. len : Quiet(n, after[i])}
<1>5. 0 \in S
  BY <1>2, <1>4, EmptyIsListed, PendingIsQuiet
<1>6. ASSUME NEW i \in 1 .. len, i - 1 \in S PROVE i \in S
  <2>1. PICK before : before = after[i - 1]
    OBVIOUS
  <2>2. Quiet(n, before) /\ Shape(before) /\ Listed(before.pending)
    BY <1>6, <2>1 DEF Quiet
  <2>3. Quiet(before, after[i])
    BY <1>4, <2>1, <2>2, AnswerIsQuiet
  <2>4. Quiet(n, after[i])
    BY <2>2, <2>3, QuietSteps
  <2> QED
    BY <1>6, <2>4
<1>7. Quiet(n, after[len])
  <2>1. \A i \in 0 .. len : i \in S
    <3> HIDE DEF S
    <3> QED
      BY <1>2, <1>5, <1>6, Climbs
  <2> QED
    BY <1>2, <2>1
<1> QED
  BY <1>1, <1>3, <1>7 DEF AnswerPending

\* Saying the hash of a tick tells nobody more than the tick's number and hash.
LEMMA HashCheckKeeps ==
  ASSUME NEW N, NEW p \in Peer, NEW cut, Holds(N, p, cut),
         Succeeded(cut.node), cut.node.state = "Running", NEW t, NEW hash
  PROVE  Holds(N, p, SendHashCheck(cut, t, hash))
<1>1. PICK n, links : n = cut.node /\ links = cut.net
  OBVIOUS
<1>2. cut = [node |-> n, net |-> links] /\ Shape(n) /\ Listed(n.pending) /\ n.id = p
  <2>1. Local(p, n)
    BY <1>1, HoldsIs
  <2> QED
    BY <1>1, <2>1 DEF Holds, Local
<1>3. ~ PastFinish(n, t) /\ Live(n)
  BY <1>1 DEF PastFinish, Live
<1>4. PICK mine : mine = [tick |-> t, hash |-> hash]
  OBVIOUS
<1>5. PICK all : all = Append(n.checkpoints, mine)
  OBVIOUS
<1>6. PICK last : last = SubSeq(all, Later(1, Len(all) - CheckpointsKept + 1), Len(all))
  OBVIOUS
<1>7. PICK kept : kept = [n EXCEPT !.checkpoints = last]
  OBVIOUS
<1>8. PICK a : a = AnswerPending(kept, mine)
  OBVIOUS
<1>9. Quiet(n, kept)
  <2>1. Alike(n, kept, Aside)
    BY <1>2, <1>7 DEF Alike, Aside, Shape, NodeFields
  <2> QED
    BY <1>1, <1>2, <2>1, AsideIsQuiet
<1>10. Quiet(n, a)
  <2>1. Shape(kept) /\ Listed(kept.pending)
    BY <1>9 DEF Quiet
  <2>2. Quiet(kept, a)
    BY <1>8, <2>1, AnsweredIsQuiet
  <2> QED
    BY <1>9, <2>2, QuietSteps
<1>11. PICK answered : answered = [node |-> a, net |-> links]
  OBVIOUS
<1>12. PICK message : message = HashCheck(p, t, hash)
  OBVIOUS
<1>13. SendHashCheck(cut, t, hash)
         = IF t % Interval # 0 THEN cut ELSE After(answered, Send(answered, message))
  <2>1. [cut EXCEPT !.node = a] = answered
    BY <1>2, <1>11
  <2>2. [n EXCEPT !.checkpoints =
                 LET every == Append(@, mine)
                 IN  SubSeq(every, Later(1, Len(every) - CheckpointsKept + 1), Len(every))] = kept
    BY <1>5, <1>6, <1>7
  <2> QED
    BY <1>1, <1>2, <1>3, <1>4, <1>8, <1>12, <2>1, <2>2 DEF SendHashCheck
<1>14. answered.node = a /\ answered.net = links /\ a.id = p /\ Shape(a) /\ Listed(a.pending)
  BY <1>2, <1>10, <1>11 DEF Quiet
<1>15. Holds(N, p, answered)
  <2>1. Holds(N, p, [cut EXCEPT !.node = a])
    BY <1>1, <1>10, HoldsSilent
  <2> QED
    BY <1>2, <1>11, <2>1
<1>16. message.type \in Kinds \ {"Turn"}
  <2>1. message.type = "HashCheck"
    BY <1>12 DEF HashCheck
  <2> QED
    BY <2>1 DEF Kinds
<1>17. ASSUME Succeeded(a)
       PROVE  Holds(N, p, Send(answered, message))
  <2>1. PICK said : said = Broadcast(links, p, message)
    OBVIOUS
  <2>2. PICK n2 : n2 = IF said.ok THEN a ELSE Fail(a, "Unavailable")
    OBVIOUS
  <2>3. Quiet(a, n2)
    <3>1. Alike(a, a, Aside)
      BY <1>14 DEF Alike
    <3>2. Quiet(a, a)
      BY <1>14, <1>17, <3>1, AsideIsQuiet
    <3>3. Quiet(a, Fail(a, "Unavailable"))
      BY <1>14, FailIsQuiet
    <3> QED
      BY <2>2, <3>2, <3>3
  <2>4. Holds(N, p, [node |-> n2, net |-> Broadcast(links, p, message).net])
    BY <1>14, <1>15, <1>16, <2>3, HoldsBroadcast
  <2>5. Send(answered, message) = [node |-> n2, net |-> said.net]
    BY <1>14, <2>1, <2>2 DEF Send
  <2> QED
    BY <2>1, <2>4, <2>5
<1> QED
  BY <1>13, <1>14, <1>15, <1>17 DEF After

\* A peer steps: it runs the tick and says its hash.
LEMMA StepKeeps ==
  ASSUME Works, NEW N, NEW p \in Peer, NEW cut, Holds(N, p, cut), HasRoom(cut.node), MayStep(cut.node)
  PROVE  Holds(N, p, StepTick(cut))
<1>1. PICK n, t, links : n = cut.node /\ t = Now(n) /\ links = cut.net
  OBVIOUS
<1>2. cut = [node |-> n, net |-> links] /\ Shape(n)
  <2>1. Local(p, n)
    BY <1>1, HoldsIs
  <2> QED
    BY <1>1, <2>1 DEF Holds, Local
<1>3. PICK k, queue, gate : /\ k = RunTick(n.kernel, n.queue, InvalidCell)
                            /\ queue = AfterDrain(n.queue, t) /\ gate = RetireBefore(n.gate, t)
  OBVIOUS
<1>4. PICK n2 : n2 = [n EXCEPT !.kernel = k, !.queue = queue, !.gate = gate]
  OBVIOUS
<1>5. Ran(n, n2, k, queue, gate) /\ n2.error = n.error /\ n2.state = n.state
  BY <1>2, <1>4 DEF Ran, Alike, Shape, NodeFields
<1>6. PICK ran : ran = [node |-> n2, net |-> links]
  OBVIOUS
<1>7. Holds(N, p, ran)
  <2>1. Ran(n, n2, RunTick(n.kernel, n.queue, InvalidCell), AfterDrain(n.queue, Now(n)), RetireBefore(n.gate, Now(n)))
    BY <1>1, <1>3, <1>5
  <2>2. Holds(N, p, [node |-> n2, net |-> cut.net])
    BY <1>1, <2>1, RanKeeps
  <2> QED
    BY <1>1, <1>6, <2>2
<1>8. ran.node = n2 /\ Succeeded(n2) /\ n2.state = "Running"
  BY <1>1, <1>5, <1>6 DEF MayStep, Playing, Succeeded
<1>9. StepTick(cut) = SendHashCheck(ran, t, n2.kernel.world)
  <2>1. [n EXCEPT !.kernel = RunTick(@, n.queue, InvalidCell),
                  !.queue = AfterDrain(@, Now(n)),
                  !.gate = RetireBefore(@, Now(n))] = n2
    BY <1>1, <1>3, <1>4
  <2>2. [cut EXCEPT !.node = n2] = ran
    BY <1>2, <1>6
  <2> QED
    BY <1>1, <2>1, <2>2 DEF StepTick
<1> QED
  BY <1>7, <1>8, <1>9, HashCheckKeeps

------------------------------------------------------------------------------
\* A peer that declares its finish announces no more turns and keeps what it has.
LEMMA FinishKeeps ==
  ASSUME NEW N, NEW p \in Peer, NEW cut, Holds(N, p, cut), Succeeded(cut.node), NEW last
  PROVE  Holds(N, p, FinishSession(cut, last))
<1>1. PICK n, links : n = cut.node /\ links = cut.net
  OBVIOUS
<1>2. cut = [node |-> n, net |-> links] /\ Shape(n) /\ Listed(n.pending) /\ n.id = p
  <2>1. Local(p, n)
    BY <1>1, HoldsIs
  <2> QED
    BY <1>1, <2>1 DEF Holds, Local
<1>3. PICK failed : failed = [cut EXCEPT !.node = Fail(@, "InvalidArgument")]
  OBVIOUS
<1>4. Holds(N, p, failed) /\ Holds(N, p, End(failed)) /\ Holds(N, p, [cut EXCEPT !.node = Fail(@, "Unavailable")])
  BY <1>3, HoldsFailed, HoldsEnded
<1>5. PICK message, said : message = FinishAt(last) /\ said = Broadcast(links, p, message)
  OBVIOUS
<1>6. message.type \in Kinds \ {"Turn"}
  <2>1. message.type = "Finish"
    BY <1>5 DEF FinishAt
  <2> QED
    BY <2>1 DEF Kinds
<1>7. PICK finishing, broken : /\ finishing = [n EXCEPT !.finish = last, !.state = "Finishing"]
                               /\ broken = Fail(n, "Unavailable")
  OBVIOUS
<1>8. PICK sent : sent = Send(cut, message)
  OBVIOUS
<1>9. sent = [node |-> IF said.ok THEN n ELSE broken, net |-> said.net]
  BY <1>1, <1>2, <1>5, <1>7, <1>8 DEF Send
<1>10. ASSUME n.state = "Running"
       PROVE  Holds(N, p, After(sent, [sent EXCEPT !.node.finish = last, !.node.state = "Finishing"]))
  <2>1. CASE said.ok
    <3>1. sent = [node |-> n, net |-> said.net] /\ Succeeded(sent.node)
      BY <1>1, <1>9, <2>1
    <3>2. [sent EXCEPT !.node.finish = last, !.node.state = "Finishing"] = [node |-> finishing, net |-> said.net]
      <4>1. sent.node = n
        BY <3>1
      <4>2. [sent EXCEPT !.node.finish = last, !.node.state = "Finishing"]
              = [sent EXCEPT !.node = [n EXCEPT !.finish = last, !.state = "Finishing"]]
        BY <1>2, <3>1, <4>1 DEF Shape, NodeFields
      <4> QED
        BY <1>7, <3>1, <4>2
    <3>3. Quiet(n, finishing)
      <4>1. /\ Shape(finishing) /\ finishing.id = n.id /\ finishing.lastSent = n.lastSent
            /\ finishing.gate = n.gate /\ finishing.queue = n.queue /\ finishing.kernel = n.kernel
            /\ finishing.drops = n.drops /\ finishing.dropped = n.dropped
            /\ finishing.pending = n.pending /\ finishing.error = n.error
        BY <1>2, <1>7 DEF Shape, NodeFields
      <4> QED
        BY <1>2, <1>10, <4>1 DEF Quiet, Succeeded
    <3>4. Holds(N, p, [node |-> finishing, net |-> Broadcast(links, p, message).net])
      BY <1>1, <1>6, <3>3, HoldsBroadcast
    <3> QED
      BY <1>5, <3>1, <3>2, <3>4 DEF After
  <2>2. CASE ~ said.ok
    <3>1. Quiet(n, broken) /\ ~ Succeeded(broken)
      BY <1>2, <1>7, FailIsQuiet
    <3>2. sent = [node |-> broken, net |-> said.net] /\ sent.node = broken
      BY <1>9, <2>2
    <3>3. Holds(N, p, [node |-> broken, net |-> Broadcast(links, p, message).net])
      BY <1>1, <1>6, <3>1, HoldsBroadcast
    <3> QED
      BY <1>5, <3>1, <3>2, <3>3 DEF After
  <2> QED
    BY <2>1, <2>2
<1> QED
  BY <1>1, <1>3, <1>4, <1>5, <1>8, <1>10 DEF FinishSession

------------------------------------------------------------------------------
\* A peer as its process starts it.
LEMMA NewNodeIsLocal ==
  ASSUME NEW p \in Peer, NEW length, NEW n, n = NewNode(p, length)
  PROVE  /\ Local(p, n) /\ Succeeded(n) /\ Now(n) = 0
         /\ \A q, t : ~ Marked(n, q, t)
<1>1. /\ Shape(n) /\ n.id = p /\ n.pending = <<>> /\ n.drops = <<>> /\ n.dropped = {}
      /\ n.lastSent = -1 /\ n.state = "Handshaking" /\ n.error = "None"
      /\ n.gate = NewGate /\ n.queue = NewQueue /\ n.kernel = NewKernel
  BY DEF NewNode, Shape, NodeFields, NoTick
<1>2. /\ n.gate.floor = 0 /\ n.gate.expected = [s \in {} |-> Fresh(0)]
      /\ n.gate = [floor |-> n.gate.floor, expected |-> n.gate.expected]
      /\ ExpectedSources(n.gate) = {}
  BY <1>1 DEF NewGate, ExpectedSources
<1>3. /\ n.kernel.tick = 0 /\ n.kernel.world = <<>> /\ Now(n) = 0
      /\ n.kernel = [tick |-> n.kernel.tick, world |-> n.kernel.world, report |-> n.kernel.report]
  BY <1>1 DEF NewKernel, EmptyWorld, Now
<1>4. /\ n.queue.pending = {} /\ n.queue.next = [s \in Peer |-> 0]
      /\ n.queue = [pending |-> n.queue.pending, next |-> n.queue.next]
  BY <1>1 DEF NewQueue
<1>5. GateOK(n)
  <2>1. n.gate.expected \in [{} -> Progress]
    BY <1>2
  <2> QED
    BY <1>1, <1>2, <1>3, <2>1 DEF GateOK
<1>6. QueueOK(n)
  <2>1. IsFiniteSet({})
    BY FS_EmptySet
  <2> QED
    BY <1>4, <2>1 DEF QueueOK
<1>7. KernelOK(n)
  <2>1. <<>> \in Seq(Cmd) /\ DOMAIN <<>> = {}
    OBVIOUS
  <2>2. 0 .. (0 - 1) = {}
    OBVIOUS
  <2>3. History(n.kernel)
    BY <1>3, <2>1, <2>2 DEF History
  <2> QED
    BY <1>3, <2>3 DEF KernelOK
<1>8. \A q, t : ~ Marked(n, q, t)
  BY <1>2 DEF Marked
<1>9. Sound(n)
  <2>1. Base(p, 0) = 0
    <3>1. Earlier(p, 0) = {}
      <4>1. 0 .. (0 - 1) = {}
        OBVIOUS
      <4> QED
        BY <4>1 DEF Earlier
    <3> QED
      BY <3>1, FS_EmptySet DEF Base
  <2>2. n.queue.next[p] = Base(p, n.lastSent + 1)
    <3>1. n.lastSent + 1 = 0
      BY <1>1
    <3> QED
      BY <1>4, <2>1, <3>1
  <2>3. \A q \in Peer, t \in Nat : ~ Has(n, q, t)
    <3>1. \A t \in Nat : ~ (t <= n.lastSent)
      BY <1>1
    <3> QED
      BY <1>8, <3>1 DEF Has
  <2>4. Exact(n)
    BY <1>4, <2>3 DEF Exact, Within
  <2> QED
    BY <1>1, <2>2, <2>4 DEF Sound, Exact
<1>10. n.lastSent \in Nat \cup {-1} /\ n.lastSent <= Now(n) + Delay[p]
  BY <1>1, <1>3, ConfigAssumption
<1> QED
  BY <1>1, <1>3, <1>5, <1>6, <1>7, <1>8, <1>9, <1>10, EmptyIsListed DEF Local, Succeeded

\* Nothing is under way in a new link.
LEMMA NewNetIsEmpty ==
  /\ NetOK(NewNet)
  /\ \A p, o \in Peer : Slots(NewNet, p, o) = {}
<1>1. /\ NetShape(NewNet)
      /\ NewNet.pipe = [e \in Peer \X Peer |-> <<>>] /\ NewNet.inbox = [e \in Peer \X Peer |-> <<>>]
  BY DEF NewNet, NetShape
<1>2. \A e \in Peer \X Peer : NewNet.pipe[e] = <<>> /\ NewNet.inbox[e] = <<>>
  BY <1>1
<1>3. NetOK(NewNet)
  <2>1. \A f, t \in Peer : DOMAIN NewNet.pipe[<<f, t>>] = {}
    BY <1>2, EmptyIsListed
  <2> QED
    BY <1>1, <1>2, <2>1, EmptyIsListed DEF NetOK
<1>4. ASSUME NEW p \in Peer, NEW o \in Peer
      PROVE  Slots(NewNet, p, o) = {}
  <2>1. Via(p, o) \in Peer \/ ~ (0 \in Peer)
    BY DEF Via
  <2>2. 0 \in Peer
    <3>1. Peer = 0 .. (PeerCount - 1) /\ PeerCount \in Nat
      BY PeersCounted
    <3> QED
      BY <3>1
  <2>3. NewNet.inbox[<<p, o>>] = <<>> /\ NewNet.pipe[<<Via(p, o), p>>] = <<>> /\ NewNet.pipe[<<o, 0>>] = <<>>
    BY <1>2, <2>1, <2>2
  <2>4. DOMAIN <<>> = {}
    BY EmptyIsListed
  <2> QED
    BY <2>3, <2>4 DEF Slots
<1> QED
  BY <1>3, <1>4

\* Nothing is under way but announcements when the peers start.
LEMMA InitIInv == Init => IInv
<1> SUFFICES ASSUME Init PROVE IInv
  OBVIOUS
<1>1. PICK ticks \in Lengths : node = [p \in Peer |-> NewNode(p, ticks[p])]
  BY DEF Init
<1>2. PICK N : N = node
  OBVIOUS
<1>3. N = [p \in Peer |-> N[p]] /\ \A p \in Peer : N[p] = NewNode(p, ticks[p])
  BY <1>1, <1>2
<1>4. ASSUME NEW p \in Peer
      PROVE  /\ Local(p, N[p]) /\ Succeeded(N[p]) /\ Now(N[p]) = 0
             /\ \A q, t : ~ Marked(N[p], q, t)
  BY <1>3, NewNodeIsLocal
<1>5. \A p, q \in Peer : Follows(N[p], q, N[q])
  BY <1>4 DEF Follows
<1>6. \A p, o \in Peer : p # o => UnderWay(NewNet, p, N[p], o, N[o])
  BY NewNetIsEmpty DEF UnderWay
<1>7. Inv(N, NewNet)
  BY <1>3, <1>4, <1>5, <1>6, NewNetIsEmpty DEF Inv
<1> DEFINE S == {i \in 0 .. PeerCount : Inv(N, Greeted[i])}
<1>8. 0 \in S
  BY <1>7, GreetedIsAChain, PeersCounted
<1>9. ASSUME NEW i \in 1 .. PeerCount, i - 1 \in S PROVE i \in S
  <2>1. PICK p, links : p = i - 1 /\ links = Greeted[i - 1]
    OBVIOUS
  <2>2. p \in Peer /\ Inv(N, links)
    BY <1>9, <2>1, PeersCounted
  <2>3. PICK cut : cut = [node |-> N[p], net |-> links]
    OBVIOUS
  <2>4. cut.node = N[p] /\ cut.net = links /\ cut = [node |-> cut.node, net |-> cut.net]
    BY <2>3
  <2>5. \A m : m = N[p] => [N EXCEPT ![p] = m] = N
    BY <1>3
  <2>6. Holds(N, p, cut)
    BY <1>3, <2>2, <2>4, <2>5 DEF Holds
  <2>7. Quiet(N[p], N[p])
    <3>1. Shape(N[p]) /\ Listed(N[p].pending) /\ Succeeded(N[p])
      BY <1>4, <2>2 DEF Local
    <3>2. Alike(N[p], N[p], Aside)
      BY <3>1 DEF Alike
    <3> QED
      BY <3>1, <3>2, AsideIsQuiet
  <2>8. PICK message : message = Hello(p)
    OBVIOUS
  <2>9. message.type \in Kinds \ {"Turn"}
    <3>1. message.type = "Hello"
      BY <2>8 DEF Hello
    <3> QED
      BY <3>1 DEF Kinds
  <2>10. PICK after : after = Broadcast(links, p, message).net
    OBVIOUS
  <2>11. Holds(N, p, [node |-> N[p], net |-> after])
    BY <2>2, <2>4, <2>6, <2>7, <2>9, <2>10, HoldsBroadcast
  <2>12. PICK c : c = [node |-> N[p], net |-> after]
    OBVIOUS
  <2>13. c.node = N[p] /\ c.net = after /\ Holds(N, p, c)
    BY <2>11, <2>12
  <2>14. Inv(N, after)
    BY <2>5, <2>13 DEF Holds
  <2>15. Greeted[i] = after
    BY <2>1, <2>8, <2>10, GreetedIsAChain DEF Announced
  <2> QED
    BY <1>9, <2>14, <2>15
<1>10. Inv(N, Greeted[PeerCount])
  <2>1. PeerCount \in Nat
    BY PeersCounted
  <2>2. \A i \in 0 .. PeerCount : i \in S
    <3> HIDE DEF S
    <3> QED
      BY <1>8, <1>9, <2>1, Climbs
  <2> QED
    BY <2>1, <2>2
<1> QED
  BY <1>2, <1>10 DEF IInv, Init

------------------------------------------------------------------------------
\* A cut that holds is the next state.
LEMMA Becoming ==
  ASSUME NEW p \in Peer, NEW cut, Holds(node, p, cut), Becomes(p, cut)
  PROVE  IInv'
<1>1. node' = [node EXCEPT ![p] = cut.node] /\ net' = cut.net
  BY DEF Becomes
<1>2. Inv([node EXCEPT ![p] = cut.node], cut.net)
  BY DEF Holds
<1>3. Inv(node', net')
  BY <1>1, <1>2
<1> QED
  BY <1>3 DEF IInv

\* The state is a cut that holds.
LEMMA CutHolds ==
  ASSUME IInv, NEW p \in Peer
  PROVE  Holds(node, p, Cut(p)) /\ Cut(p).node = node[p] /\ Cut(p).net = net
<1>1. Cut(p).node = node[p] /\ Cut(p).net = net /\ Cut(p) = [node |-> Cut(p).node, net |-> Cut(p).net]
  BY DEF Cut
<1>2. node = [q \in Peer |-> node[q]] /\ Inv(node, net)
  BY DEF IInv, Inv
<1>3. [node EXCEPT ![p] = node[p]] = node
  BY <1>2
<1> QED
  BY <1>1, <1>2, <1>3 DEF Holds

\* A peer runs no tick that it has not announced a turn for.
LEMMA AnnouncedIsAhead ==
  ASSUME IInv, NEW p \in Peer, Succeeded(node[p])
  PROVE  Now(node[p]) <= node[p].lastSent + 1
<1>1. PICK n : n = node[p]
  OBVIOUS
<1>2. Follows(n, p, n) /\ Local(p, n)
  BY <1>1 DEF IInv, Inv
<1>3. Now(n) \in Nat /\ n.lastSent \in Nat \cup {-1}
  BY <1>2 DEF Local, KernelOK, Now
<1>4. CASE Now(n) > 0
  <2>1. Spoke(n, Now(n) - 1)
    BY <1>2, <1>4 DEF Follows
  <2>2. Now(n) - 1 <= n.lastSent
    BY <1>1, <2>1 DEF Spoke
  <2> QED
    BY <1>1, <1>3, <2>2
<1>5. CASE ~ (Now(n) > 0)
  BY <1>1, <1>3, <1>5
<1> QED
  BY <1>4, <1>5

\* The image of a finite set is finite.
LEMMA ImageIsFinite ==
  ASSUME NEW S, IsFiniteSet(S), NEW f, NEW T, T = {f[x] : x \in S}
  PROVE  IsFiniteSet(T)
<1>1. PICK g : g = [x \in S |-> f[x]]
  OBVIOUS
<1>2. g \in [S -> T] /\ \A y \in T : \E x \in S : g[x] = y
  BY <1>1
<1>3. g \in Surjection(S, T)
  BY <1>2 DEF Surjection
<1> QED
  BY <1>3, FS_Surjection

\* What a peer may hold is finite.
LEMMA MayHoldIsFinite ==
  ASSUME Works, NEW p \in Peer, NEW t \in Nat
  PROVE  IsFiniteSet(MayHold(p, t))
<1>1. ASSUME NEW q \in Peer, NEW s \in Nat
      PROVE  IsFiniteSet(Commands(q, s))
  <2>1. PICK n \in Nat : n = Len(Cells(q, s))
    BY CellsAreListed
  <2>2. PICK said : said = Said(q, s)
    OBVIOUS
  <2>3. Commands(q, s) = {said[i] : i \in 1 .. n}
    BY <2>1, <2>2 DEF Commands
  <2>4. IsFiniteSet(1 .. n)
    BY FS_Interval
  <2> QED
    BY <2>3, <2>4, ImageIsFinite
<1>2. ASSUME NEW q \in Peer
      PROVE  IsFiniteSet(UNION {Commands(q, s) : s \in t .. (t + Delay[p] + Delay[q] + 1)})
  <2>1. PICK last \in Nat : last = t + Delay[p] + Delay[q] + 1
    BY ConfigAssumption
  <2>2. PICK f : f = [s \in t .. last |-> Commands(q, s)]
    OBVIOUS
  <2>3. IsFiniteSet(t .. last) /\ t .. last \subseteq Nat
    BY FS_Interval
  <2>4. PICK T : T = {f[s] : s \in t .. last}
    OBVIOUS
  <2>5. T = {Commands(q, s) : s \in t .. last}
    BY <2>2, <2>4
  <2>6. IsFiniteSet(T)
    BY <2>3, <2>4, ImageIsFinite
  <2>7. \A U \in T : IsFiniteSet(U)
    BY <1>1, <2>3, <2>5
  <2>8. IsFiniteSet(UNION T)
    BY <2>6, <2>7, FS_UNION
  <2> QED
    BY <2>1, <2>5, <2>8
<1>3. PICK f : f = [q \in Peer |-> UNION {Commands(q, s) : s \in t .. (t + Delay[p] + Delay[q] + 1)}]
  OBVIOUS
<1>4. PICK T : T = {f[q] : q \in Peer}
  OBVIOUS
<1>5. MayHold(p, t) = UNION T
  BY <1>3, <1>4 DEF MayHold
<1>6. IsFiniteSet(Peer)
  BY ConfigAssumption
<1>7. IsFiniteSet(T)
  BY <1>4, <1>6, ImageIsFinite
<1>8. \A U \in T : IsFiniteSet(U)
  BY <1>2, <1>3, <1>4
<1> QED
  BY <1>5, <1>7, <1>8, FS_UNION

\* A peer that did not fail never holds a turn further ahead than its sender may
\* be of it: the sender announces at most its delay ahead of the tick it runs, and
\* runs at most this peer's delay and a tick ahead of this peer.
LEMMA HeldIsNear ==
  ASSUME IInv, NEW p \in Peer, Succeeded(node[p]), NEW q \in Peer, NEW t \in Nat,
         Has(node[p], q, t)
  PROVE  t <= Now(node[p]) + Delay[p] + Delay[q] + 1
<1>1. PICK n, m, dp, dq : n = node[p] /\ m = node[q] /\ dp = Delay[p] /\ dq = Delay[q]
  OBVIOUS
<1>2. Local(p, n) /\ Local(q, m) /\ Follows(n, q, m) /\ Follows(m, p, n)
  BY <1>1 DEF IInv, Inv
<1>3. /\ Now(n) \in Nat /\ Now(m) \in Nat /\ dp \in Nat /\ dq \in Nat
      /\ n.lastSent \in Nat \cup {-1} /\ n.lastSent <= Now(n) + dp /\ n.id = p
      /\ m.lastSent \in Nat \cup {-1} /\ m.lastSent <= Now(m) + dq /\ m.id = q
  BY <1>1, <1>2, ConfigAssumption DEF Local, KernelOK, Now
<1>4. CASE q = p
  BY <1>1, <1>3, <1>4 DEF Has
<1>5. CASE q # p
  <2>1. Spoke(m, t)
    BY <1>1, <1>2, <1>3, <1>5 DEF Has, Follows
  <2>2. t <= Now(m) + dq
    <3>1. CASE t <= m.lastSent
      BY <1>3, <3>1
    <3>2. CASE t <= Now(m) + Delay[m.id]
      BY <1>1, <1>3, <3>2
    <3> QED
      BY <2>1, <3>1, <3>2 DEF Spoke
  <2>3. CASE Now(m) > 0
    <3>1. Spoke(n, Now(m) - 1)
      BY <1>2, <2>3 DEF Follows
    <3>2. Now(m) - 1 <= n.lastSent
      BY <1>1, <3>1 DEF Spoke
    <3> QED
      BY <1>1, <1>3, <2>2, <3>2
  <2>4. CASE ~ (Now(m) > 0)
    BY <1>1, <1>3, <2>2, <2>4
  <2> QED
    BY <2>3, <2>4
<1> QED
  BY <1>4, <1>5

\* So what it holds fits its queue.
LEMMA RoomIsKept ==
  ASSUME Works, Fits, IInv, NEW p \in Peer, Succeeded(node[p])
  PROVE  HasRoom(node[p])
<1>1. PICK n, t, pending : n = node[p] /\ t = Now(n) /\ pending = n.queue.pending
  OBVIOUS
<1>2. Local(p, n)
  BY <1>1 DEF IInv, Inv
<1>3. t \in Nat /\ pending \in SUBSET Entry /\ IsFiniteSet(pending) /\ Within(n)
  BY <1>1, <1>2 DEF Local, KernelOK, QueueOK, Sound, Now
<1>4. PICK held : held = MayHold(p, t)
  OBVIOUS
<1>5. ASSUME NEW e \in pending
      PROVE  e[1] \in held /\ e = <<e[1], 1>>
  <2>1. PICK q, s : q = e[1].source /\ s = e[1].target
    OBVIOUS
  <2>2. e = <<e[1], e[2]>> /\ e[2] = 1 /\ q \in Peer /\ s \in Nat
    <3>1. e \in Entry /\ e[2] = 1
      BY <1>1, <1>3 DEF Within
    <3> QED
      BY <2>1, <3>1 DEF Entry, Cmd
  <2>3. s >= t /\ Has(n, q, s) /\ e[1] \in Commands(q, s)
    BY <1>1, <1>3, <2>1 DEF Within
  <2>4. s <= t + Delay[p] + Delay[q] + 1
    BY <1>1, <2>2, <2>3, HeldIsNear
  <2>5. s \in t .. (t + Delay[p] + Delay[q] + 1)
    BY <1>3, <2>2, <2>3, <2>4, ConfigAssumption
  <2> QED
    BY <1>4, <2>2, <2>3, <2>5 DEF MayHold
<1>6. PICK f : f = [e \in pending |-> e[1]]
  OBVIOUS
<1>7. f \in Injection(pending, held)
  <2>1. f \in [pending -> held]
    BY <1>5, <1>6
  <2>2. \A e, d \in pending : f[e] = f[d] => e = d
    BY <1>5, <1>6
  <2> QED
    BY <2>1, <2>2 DEF Injection, IsInjective
<1>8. Cardinality(pending) <= Cardinality(held) /\ IsFiniteSet(held)
  BY <1>3, <1>4, <1>7, MayHoldIsFinite, FS_Injection
<1>9. Cardinality(held) < MaxPending
  BY <1>3, <1>4 DEF Fits
<1>10. Cardinality(pending) \in Nat /\ Cardinality(held) \in Nat /\ MaxPending \in Nat
  BY <1>3, <1>8, FS_CardinalityType, MaxPendingAssumption
<1> QED
  BY <1>1, <1>8, <1>9, <1>10 DEF HasRoom

\* A process that dies or exits keeps the invariant.
LEMMA LostKeepsIInv ==
  ASSUME IInv, NEW p \in Peer, net' = Lose(net, p), UNCHANGED node
  PROVE  IInv'
<1>1. Inv(node, net) /\ NetOK(net)
  BY DEF IInv, Inv
<1>2. PICK after : after = Lose(net, p)
  OBVIOUS
<1>3. NetOK(after) /\ Moves(net, after)
  BY <1>1, <1>2, LoseMoves
<1>4. Inv(node, after)
  BY <1>1, <1>3, InvMoves
<1>5. Inv(node', net')
  BY <1>2, <1>4
<1> QED
  BY <1>5 DEF IInv

\* Every call of the driver's loop keeps it.
LEMMA DriveKeepsIInv ==
  ASSUME Works, Fits, Policy = "End", IInv, NEW p \in Peer, Drive(p)
  PROVE  IInv'
<1>1. PICK cut : cut = Cut(p)
  OBVIOUS
<1>2. Holds(node, p, cut) /\ cut.node = node[p] /\ cut.net = net
  BY <1>1, CutHolds
<1>3. CASE Announce(p)
  <2>1. OwesTurn(cut.node) /\ Becomes(p, AnnounceTurn(cut))
    BY <1>1, <1>2, <1>3 DEF Announce
  <2>2. Now(cut.node) <= cut.node.lastSent + 1
    <3>1. Succeeded(node[p])
      BY <1>2, <2>1 DEF OwesTurn, Playing
    <3> QED
      BY <1>2, <3>1, AnnouncedIsAhead
  <2>3. Holds(node, p, AnnounceTurn(cut))
    BY <1>2, <2>1, <2>2, AnnounceKeeps
  <2> QED
    BY <2>1, <2>3, Becoming
<1>4. CASE Poll(p)
  <2>1. PICK due \in DueChoices(net, p) : Becomes(p, PollSession(cut, due))
    BY <1>1, <1>4 DEF Poll
  <2>2. Holds(node, p, PollSession(cut, due))
    BY <1>2, <2>1, PollKeeps
  <2> QED
    BY <2>1, <2>2, Becoming
<1>5. CASE Step(p)
  <2>1. MayStep(cut.node) /\ Becomes(p, StepTick(cut)) /\ HasRoom(cut.node)
    <3>1. MayStep(cut.node) /\ Becomes(p, StepTick(cut))
      BY <1>1, <1>2, <1>5 DEF Step
    <3>2. Succeeded(node[p])
      BY <1>2, <3>1 DEF MayStep, Playing
    <3> QED
      BY <1>2, <3>1, <3>2, RoomIsKept
  <2>2. Holds(node, p, StepTick(cut))
    BY <1>2, <2>1, StepKeeps
  <2> QED
    BY <2>1, <2>2, Becoming
<1>6. CASE DeclareFinish(p)
  <2>1. PICK last : last = node[p].length - 1
    OBVIOUS
  <2>2. Succeeded(cut.node) /\ Becomes(p, FinishSession(cut, last))
    BY <1>1, <1>2, <1>6, <2>1 DEF DeclareFinish, HasRunAll
  <2>3. Holds(node, p, FinishSession(cut, last))
    BY <1>2, <2>2, FinishKeeps
  <2> QED
    BY <2>2, <2>3, Becoming
<1>7. CASE GiveUp(p)
  <2>1. PICK failed : failed = [cut EXCEPT !.node = Fail(@, "InvalidArgument")]
    OBVIOUS
  <2>2. Holds(node, p, failed) /\ Becomes(p, failed)
    BY <1>1, <1>2, <1>7, <2>1, HoldsFailed DEF GiveUp
  <2> QED
    BY <2>2, Becoming
<1>8. CASE Exit(p)
  BY <1>8, LostKeepsIInv DEF Exit
<1> QED
  BY <1>3, <1>4, <1>5, <1>6, <1>7, <1>8 DEF Drive

\* So does every fault but an altered byte.
LEMMA DisturbKeepsIInv ==
  ASSUME "Corrupt" \notin Faults, IInv, Disturb
  PROVE  IInv'
<1>1. ASSUME NEW p \in Peer, Crash(p)
      PROVE  IInv'
  BY <1>1, LostKeepsIInv DEF Crash
<1>2. ASSUME NEW p \in Peer, Quit(p)
      PROVE  IInv'
  <2>1. PICK cut, said : cut = Cut(p) /\ said = End(cut)
    OBVIOUS
  <2>2. Holds(node, p, cut)
    BY <2>1, CutHolds
  <2>3. Holds(node, p, said)
    BY <2>1, <2>2, HoldsEnded
  <2>4. PICK quit : quit = [said EXCEPT !.node = Fail(@, "Quit")]
    OBVIOUS
  <2>5. Holds(node, p, quit)
    BY <2>3, <2>4, HoldsFailed
  <2>6. quit.node = Fail(said.node, "Quit") /\ quit.net = said.net
    BY <2>3, <2>4 DEF Holds
  <2>7. node' = [node EXCEPT ![p] = quit.node] /\ net' = quit.net
    BY <1>2, <2>1, <2>6 DEF Quit
  <2>8. Inv([node EXCEPT ![p] = quit.node], quit.net)
    BY <2>5 DEF Holds
  <2>9. Inv(node', net')
    BY <2>7, <2>8
  <2> QED
    BY <2>9 DEF IInv
<1>3. \A from, to \in Peer : \A i \in DOMAIN net.pipe[<<from, to>>] : ~ CorruptCommand(from, to, i)
  BY DEF CorruptCommand, Fault
<1> QED
  BY <1>1, <1>2, <1>3 DEF Disturb

\* So does every step.
LEMMA NextKeepsIInv ==
  ASSUME Works, Fits, Policy = "End", "Corrupt" \notin Faults, IInv, [Next]_vars
  PROVE  IInv'
<1>1. CASE \E p \in Peer : Drive(p)
  BY <1>1, DriveKeepsIInv
<1>2. CASE Disturb
  BY <1>2, DisturbKeepsIInv
<1>3. CASE UNCHANGED vars
  BY <1>3 DEF vars, IInv
<1> QED
  BY <1>1, <1>2, <1>3 DEF Next

------------------------------------------------------------------------------
\* Peers with one history have one world after every tick that both have run.
LEMMA OneHistory ==
  ASSUME NEW k, History(k), NEW j, History(j), NEW t \in Nat, t <= k.tick, t <= j.tick,
         k.tick \in Nat, j.tick \in Nat
  PROVE  Until(k.world, t) = Until(j.world, t)
<1>1. PICK v, w : v = k.world /\ w = j.world
  OBVIOUS
<1>2. /\ v \in Seq(Cmd) /\ w \in Seq(Cmd)
      /\ \A s \in 0 .. (t - 1) : Until(v, s + 1) = RunOf(Until(v, s), s) /\ Until(w, s + 1) = RunOf(Until(w, s), s)
  BY <1>1 DEF History
<1>3. ASSUME NEW u \in Seq(Cmd) PROVE Until(u, 0) = <<>>
  <2>1. {i \in DOMAIN u : u[i].target < 0} = {}
    <3>1. \A i \in DOMAIN u : u[i] \in Cmd
      BY <1>3
    <3>2. \A c \in Cmd : ~ (c.target < 0)
      BY DEF Cmd
    <3> QED
      BY <3>1, <3>2
  <2>2. Until(u, 0) = SubSeq(u, 1, 0)
    BY <2>1, FS_EmptySet DEF Until
  <2> QED
    BY <1>3, <2>2
<1> DEFINE S == {s \in 0 .. t : Until(v, s) = Until(w, s)}
<1>4. 0 \in S
  BY <1>2, <1>3
<1>5. ASSUME NEW s \in 1 .. t, s - 1 \in S PROVE s \in S
  <2>1. s - 1 \in 0 .. (t - 1) /\ (s - 1) + 1 = s
    OBVIOUS
  <2>2. PICK r : r = s - 1 /\ r \in 0 .. (t - 1) /\ r + 1 = s
    BY <2>1
  <2>3. Until(v, r) = Until(w, r)
    BY <1>5, <2>2
  <2>4. Until(v, r + 1) = RunOf(Until(v, r), r) /\ Until(w, r + 1) = RunOf(Until(w, r), r)
    BY <1>2, <2>2
  <2>5. Until(v, s) = Until(w, s)
    BY <2>2, <2>3, <2>4
  <2> QED
    BY <1>5, <2>5
<1>6. t \in S
  <2>1. \A s \in 0 .. t : s \in S
    <3> HIDE DEF S
    <3> QED
      BY <1>4, <1>5, Climbs
  <2> QED
    BY <2>1
<1> QED
  BY <1>1, <1>6

\* Agreement is what the invariant says of two histories.
LEMMA IInvIsAgreement == IInv => Agreement
<1> SUFFICES ASSUME IInv, NEW p \in Peer, NEW q \in Peer PROVE SameTo(p, q, Shared(p, q))
  BY DEF Agreement
<1>1. PICK t : t = Shared(p, q)
  OBVIOUS
<1>2. KernelOK(node[p]) /\ KernelOK(node[q])
  BY DEF IInv, Inv, Local
<1>3. Now(node[p]) \in Nat /\ Now(node[q]) \in Nat
  BY <1>2 DEF KernelOK, Now
<1>4. t \in Nat /\ t <= node[p].kernel.tick /\ t <= node[q].kernel.tick
  BY <1>1, <1>3 DEF Shared, Now
<1>5. Until(node[p].kernel.world, t) = Until(node[q].kernel.world, t)
  BY <1>2, <1>4, OneHistory DEF KernelOK
<1>6. WorldBefore(p, t) = Until(node[p].kernel.world, t) /\ WorldBefore(q, t) = Until(node[q].kernel.world, t)
  BY DEF WorldBefore, Until
<1> QED
  BY <1>1, <1>5, <1>6 DEF SameTo

\* The bound on the lead is what it says of what was announced.
LEMMA IInvBoundsLead == IInv => BoundedLead
<1> SUFFICES ASSUME IInv, NEW p \in Peer, NEW q \in Peer
             PROVE  Now(node[p]) <= Now(node[q]) + Delay[q] + 1
  BY DEF BoundedLead
<1>1. PICK n, m, d : n = node[p] /\ m = node[q] /\ d = Delay[q]
  OBVIOUS
<1>2. Follows(n, q, m) /\ Local(p, n) /\ Local(q, m)
  BY <1>1 DEF IInv, Inv
<1>3. /\ Now(n) \in Nat /\ Now(m) \in Nat /\ d \in Nat
      /\ m.lastSent \in Nat \cup {-1} /\ m.lastSent <= Now(m) + d /\ m.id = q
  BY <1>1, <1>2, ConfigAssumption DEF Local, KernelOK, Now
<1>4. CASE Now(n) > 0
  <2>1. Spoke(m, Now(n) - 1)
    BY <1>2, <1>4 DEF Follows
  <2>2. Now(n) - 1 <= Now(m) + d
    <3>1. CASE Now(n) - 1 <= m.lastSent
      BY <1>3, <3>1
    <3>2. CASE Now(n) - 1 <= Now(m) + Delay[m.id]
      BY <1>1, <1>3, <3>2
    <3> QED
      BY <2>1, <3>1, <3>2 DEF Spoke
  <2> QED
    BY <1>1, <1>3, <2>2
<1>5. CASE ~ (Now(n) > 0)
  BY <1>1, <1>3, <1>5
<1> QED
  BY <1>4, <1>5

------------------------------------------------------------------------------
\* Whatever the link delays and whoever runs ahead, dies or leaves, two peers have
\* the same world after every tick that both have run: a turn is announced once, by
\* one peer, before any peer runs its tick, every peer takes it whole and once, and
\* a tick runs exactly when it has every turn (Session::send_turn,
\* Session::take_turn, TurnGate::is_ready and the main loop of apps/lab).
THEOREM PeersAgree ==
  ASSUME Works, Fits, Policy = "End", "Corrupt" \notin Faults
  PROVE  Spec => []Agreement
<1>1. IInv /\ [Next]_vars => IInv'
  BY NextKeepsIInv
<1>2. Spec => []IInv
  BY <1>1, InitIInv, PTL DEF Spec
<1> QED
  BY <1>2, IInvIsAgreement, PTL

\* No peer runs further ahead of another than that one's input delay and a tick:
\* apps/lab announces a turn no further ahead than the delay, and a tick runs
\* nowhere before every peer has announced its turn.
THEOREM LeadIsBounded ==
  ASSUME Works, Fits, Policy = "End", "Corrupt" \notin Faults
  PROVE  Spec => []BoundedLead
<1>1. IInv /\ [Next]_vars => IInv'
  BY NextKeepsIInv
<1>2. Spec => []IInv
  BY <1>1, InitIInv, PTL DEF Spec
<1> QED
  BY <1>2, IInvBoundsLead, PTL

------------------------------------------------------------------------------
\* What keeps a finish honest, whatever was altered on the way: K is every
\* peer's kernel, L the run that each was told to make.

\* A command as anybody may have sent it, its cell altered or not.
Stamped == [target : Nat, source : Peer, sequence : Nat, cell : Int]

\* The check is of a tick that ran, and says what the world was then.
Vouched(k, check) ==
  check.tick \in 0 .. (k.tick - 1) /\ check.hash = Until(k.world, check.tick + 1)

\* What o says of itself: a check of its own world, the last tick of its own run.
Honest(K, L, o, m) ==
  /\ m.type \in Kinds
  /\ m.type = "Turn" =>
       /\ m = Turn(m.source, m.tick, m.commands)
       /\ Listed(m.commands) /\ \A i \in DOMAIN m.commands : m.commands[i] \in Stamped
  /\ m.type = "HashCheck" => Vouched(K[o], m)
  /\ m.type = "Finish" => m.tick = L[o] - 1

\* Everything under way is honest.
NetHonest(K, L, links) ==
  \A p, o \in Peer : p # o => \A s \in Slots(links, p, o) : Honest(K, L, o, MessageAt(links, p, o, s))

\* A peer's own checks, and those it holds of the others.
Recorded(k, checks) == Listed(checks) /\ \A i \in DOMAIN checks : Vouched(k, checks[i])

HeldFor(K, checks) ==
  /\ Listed(checks)
  /\ \A i \in DOMAIN checks : checks[i].source \in Peer /\ Vouched(K[checks[i].source], checks[i])

\* Both ran tick t, a tick to be checked, and were in the same world after it.
SameAfter(K, p, q, t) ==
  /\ t \in Nat /\ t < K[p].tick /\ t < K[q].tick
  /\ t % Interval = 0
  /\ Until(K[p].world, t + 1) = Until(K[q].world, t + 1)

ComparedTo(K, p, compared) ==
  /\ compared \in [Peer -> Int]
  /\ \A q \in Peer : compared[q] = NoTick \/ SameAfter(K, p, q, compared[q])

\* The finishes a peer knows of are those of the runs, and agree with its own.
Declared(L, p, state, finish, peerFinish) ==
  /\ finish \in {NoTick, L[p] - 1} /\ peerFinish \in [Peer -> Int]
  /\ \A q \in Peer : peerFinish[q] \in {NoTick, L[q] - 1}
  /\ finish # NoTick => \A q \in Peer : peerFinish[q] \in {NoTick, finish}
  /\ state \in {"Finishing", "Finished"} => finish = L[p] - 1

Awaited(p, drops) == Listed(drops) /\ \A i \in DOMAIN drops : drops[i].source \in Peer \ {p}

Upright(K, L, p, n) ==
  /\ Shape(n) /\ n.id = p /\ n.kernel = K[p] /\ n.length = L[p]
  /\ n.lastSent \in Nat \cup {-1} /\ QueueShape(n.queue)
  /\ Awaited(p, n.drops)
  /\ Recorded(K[p], n.checkpoints) /\ HeldFor(K, n.pending) /\ ComparedTo(K, p, n.compared)
  /\ Declared(L, p, n.state, n.finish, n.peerFinish)

\* A peer that finished compared itself with every partner it still has.
Settled(p, n) ==
  n.state = "Finished" => \A q \in Others(p) \ n.dropped :
    n.peerFinish[q] # NoTick /\ n.compared[q] >= LastCheck(n.finish)

\* Ticks run in order, as far as each peer was told to.
Runs(K, L) ==
  \A p \in Peer :
    /\ KernelShape(K[p]) /\ K[p].tick \in Nat /\ L[p] \in Nat \ {0} /\ K[p].tick <= L[p]
    /\ K[p].world \in Seq(Cmd) /\ \A i \in DOMAIN K[p].world : K[p].world[i].target < K[p].tick

HonestInv(K, L, N, links) ==
  /\ NetOK(links) /\ NetHonest(K, L, links)
  /\ N = [p \in Peer |-> N[p]]
  /\ Runs(K, L)
  /\ \A p \in Peer : Upright(K, L, p, N[p]) /\ Settled(p, N[p])

HonestOf(N, links) == HonestInv([p \in Peer |-> N[p].kernel], [p \in Peer |-> N[p].length], N, links)

HInv == HonestOf(node, net)

\* In a call: the session goes on, and node and link are honest.
Going(K, L, p, cut) ==
  /\ cut = [node |-> cut.node, net |-> cut.net]
  /\ Upright(K, L, p, cut.node) /\ cut.node.state # "Finished"
  /\ NetOK(cut.net) /\ NetHonest(K, L, cut.net)

\* After a call.
Stands(K, L, p, cut) ==
  /\ Upright(K, L, p, cut.node) /\ Settled(p, cut.node)
  /\ NetOK(cut.net) /\ NetHonest(K, L, cut.net)

------------------------------------------------------------------------------
\* The link stays honest while what is said is.
LEMMA HonestCarried ==
  ASSUME NEW K, NEW L, NEW links, NetHonest(K, L, links), NEW after, NEW from, NEW message,
         Carries(links, after, from, message), from \in Peer => Honest(K, L, from, message)
  PROVE  NetHonest(K, L, after)
<1>1. ASSUME NEW p \in Peer, NEW o \in Peer, p # o, NEW s \in Slots(after, p, o)
      PROVE  Honest(K, L, o, MessageAt(after, p, o, s))
  <2>1. PICK f : From(links, after, p, o, from, message, f)
    BY <1>1 DEF Carries
  <2>2. \/ f[s] \in Slots(links, p, o) /\ MessageAt(after, p, o, s) = MessageAt(links, p, o, f[s])
        \/ o = from /\ MessageAt(after, p, o, s) = message
    BY <1>1, <2>1 DEF From
  <2> QED
    BY <1>1, <2>2 DEF NetHonest
<1> QED
  BY <1>1 DEF NetHonest

\* Messages that only move stay honest.
LEMMA HonestMoves ==
  ASSUME NEW K, NEW L, NEW links, NetHonest(K, L, links), NEW after, Moves(links, after)
  PROVE  NetHonest(K, L, after)
<1>1. Nobody \notin Peer
  BY NothingMoves
<1> QED
  BY <1>1, HonestCarried DEF Moves

\* So does the link after an honest broadcast.
LEMMA HonestBroadcast ==
  ASSUME NEW K, NEW L, NEW links, NetOK(links), NetHonest(K, L, links), NEW p \in Peer,
         NEW message, Honest(K, L, p, message), NEW after, after = Broadcast(links, p, message).net
  PROVE  NetOK(after) /\ NetHonest(K, L, after)
<1>1. NetOK(after) /\ Carries(links, after, p, message) /\ after.lost = links.lost
  BY BroadcastCarries
<1> QED
  BY <1>1, HonestCarried

\* The messages of an inbox are honest.
LEMMA FiledIsHonest ==
  ASSUME NEW K, NEW L, NEW links, NetOK(links), NetHonest(K, L, links),
         NEW p \in Peer, NEW o \in Peer, p # o, NEW in, in = Inbox(links, p, o)
  PROVE  /\ Listed(in) /\ Len(in) \in Nat
         /\ \A i \in 1 .. Len(in) : Honest(K, L, o, in[i])
<1>1. Listed(in) /\ in = links.inbox[<<p, o>>]
  BY DEF NetOK, Inbox
<1>2. Len(in) \in Nat /\ DOMAIN in = 1 .. Len(in)
  BY <1>1, ListedIs
<1>3. ASSUME NEW i \in 1 .. Len(in)
      PROVE  Honest(K, L, o, in[i])
  <2>1. <<"in", i>> \in Slots(links, p, o)
    BY <1>1, <1>2 DEF Slots
  <2>2. MessageAt(links, p, o, <<"in", i>>) = in[i]
    BY <1>1 DEF MessageAt
  <2> QED
    BY <2>1, <2>2 DEF NetHonest
<1> QED
  BY <1>1, <1>2, <1>3

\* One message more handled.
LEMMA HandledIsAChain ==
  ASSUME NEW n, NEW from, NEW waiting, Len(waiting) \in Nat
  PROVE  /\ Handled(n, from, waiting)[0] = n
         /\ \A i \in 1 .. Len(waiting) : Handled(n, from, waiting)[i] = HandleNext(Handled(n, from, waiting)[i - 1], from, waiting[i])
<1> DEFINE first == n
           next(a, i) == HandleNext(a, from, waiting[i])
           chain(g, m) == g = [i \in 0 .. m |-> IF i = 0 THEN first ELSE next(g[i - 1], i)]
           missing == {m \in 0 .. Len(waiting) : ~ \E g : chain(g, m)}
<1>0. Len(waiting) \in Nat
  OBVIOUS
<1> HIDE DEF first, next
<1>1. missing = {}
  <2> SUFFICES ASSUME missing # {} PROVE FALSE
    OBVIOUS
  <2>1. PICK m \in missing : \A j \in missing : m <= j
    <3>1. missing \in SUBSET Nat
      BY <1>0
    <3> HIDE DEF missing
    <3> QED
      BY <3>1, LeastElement
  <2>2. m \in 0 .. Len(waiting) /\ ~ \E g : chain(g, m)
    OBVIOUS
  <2>3. CASE m = 0
    <3> DEFINE g == [i \in 0 .. 0 |-> first]
    <3>1. chain(g, 0)
      OBVIOUS
    <3> QED
      BY <2>2, <2>3, <3>1
  <2>4. CASE m # 0
    <3>0. m - 1 \in 0 .. Len(waiting) /\ ~ (m <= m - 1)
      BY <1>0, <2>2, <2>4
    <3>1. m - 1 \notin missing
      <4> HIDE DEF missing
      <4> QED
        BY <2>1, <3>0
    <3>2. PICK g : chain(g, m - 1)
      BY <3>0, <3>1
    <3> DEFINE h == [i \in 0 .. m |-> IF i < m THEN g[i] ELSE next(g[m - 1], m)]
    <3>3. ASSUME NEW i \in 0 .. m
          PROVE  h[i] = IF i = 0 THEN first ELSE next(h[i - 1], i)
      <4>1. CASE i = m
        BY <1>0, <2>2, <2>4, <4>1
      <4>2. CASE i # m
        <5>1. i \in 0 .. (m - 1) /\ h[i] = g[i] /\ (i # 0 => h[i - 1] = g[i - 1])
          BY <1>0, <2>2, <4>2
        <5>2. g[i] = IF i = 0 THEN first ELSE next(g[i - 1], i)
          BY <3>2, <5>1
        <5> QED
          BY <5>1, <5>2
      <4> QED
        BY <4>1, <4>2
    <3>4. h = [i \in 0 .. m |-> h[i]]
      OBVIOUS
    <3> HIDE DEF h
    <3>5. chain(h, m)
      BY <3>3, <3>4
    <3> QED
      BY <2>2, <3>5
  <2> QED
    BY <2>3, <2>4
<1>2. \E g : chain(g, Len(waiting))
  BY <1>0, <1>1
<1>3. Handled(n, from, waiting) = CHOOSE g : chain(g, Len(waiting))
  BY DEF Handled, first, next
<1>4. chain(Handled(n, from, waiting), Len(waiting))
  BY <1>2, <1>3
<1>5. Handled(n, from, waiting)[0] = first
  BY <1>0, <1>4
<1>6. \A i \in 1 .. Len(waiting) : Handled(n, from, waiting)[i] = next(Handled(n, from, waiting)[i - 1], i)
  BY <1>0, <1>4
<1> QED
  BY <1>5, <1>6 DEF first, next

\* One drop more completed.
LEMMA DropsCompletedIsAChain ==
  ASSUME NEW cut, NEW drops, Len(drops) \in Nat
  PROVE  /\ DropsCompleted(cut, drops)[0] = cut
         /\ \A i \in 1 .. Len(drops) : DropsCompleted(cut, drops)[i] = CompleteNext(DropsCompleted(cut, drops)[i - 1], drops[i])
<1> DEFINE first == cut
           next(a, i) == CompleteNext(a, drops[i])
           chain(g, m) == g = [i \in 0 .. m |-> IF i = 0 THEN first ELSE next(g[i - 1], i)]
           missing == {m \in 0 .. Len(drops) : ~ \E g : chain(g, m)}
<1>0. Len(drops) \in Nat
  OBVIOUS
<1> HIDE DEF first, next
<1>1. missing = {}
  <2> SUFFICES ASSUME missing # {} PROVE FALSE
    OBVIOUS
  <2>1. PICK m \in missing : \A j \in missing : m <= j
    <3>1. missing \in SUBSET Nat
      BY <1>0
    <3> HIDE DEF missing
    <3> QED
      BY <3>1, LeastElement
  <2>2. m \in 0 .. Len(drops) /\ ~ \E g : chain(g, m)
    OBVIOUS
  <2>3. CASE m = 0
    <3> DEFINE g == [i \in 0 .. 0 |-> first]
    <3>1. chain(g, 0)
      OBVIOUS
    <3> QED
      BY <2>2, <2>3, <3>1
  <2>4. CASE m # 0
    <3>0. m - 1 \in 0 .. Len(drops) /\ ~ (m <= m - 1)
      BY <1>0, <2>2, <2>4
    <3>1. m - 1 \notin missing
      <4> HIDE DEF missing
      <4> QED
        BY <2>1, <3>0
    <3>2. PICK g : chain(g, m - 1)
      BY <3>0, <3>1
    <3> DEFINE h == [i \in 0 .. m |-> IF i < m THEN g[i] ELSE next(g[m - 1], m)]
    <3>3. ASSUME NEW i \in 0 .. m
          PROVE  h[i] = IF i = 0 THEN first ELSE next(h[i - 1], i)
      <4>1. CASE i = m
        BY <1>0, <2>2, <2>4, <4>1
      <4>2. CASE i # m
        <5>1. i \in 0 .. (m - 1) /\ h[i] = g[i] /\ (i # 0 => h[i - 1] = g[i - 1])
          BY <1>0, <2>2, <4>2
        <5>2. g[i] = IF i = 0 THEN first ELSE next(g[i - 1], i)
          BY <3>2, <5>1
        <5> QED
          BY <5>1, <5>2
      <4> QED
        BY <4>1, <4>2
    <3>4. h = [i \in 0 .. m |-> h[i]]
      OBVIOUS
    <3> HIDE DEF h
    <3>5. chain(h, m)
      BY <3>3, <3>4
    <3> QED
      BY <2>2, <3>5
  <2> QED
    BY <2>3, <2>4
<1>2. \E g : chain(g, Len(drops))
  BY <1>0, <1>1
<1>3. DropsCompleted(cut, drops) = CHOOSE g : chain(g, Len(drops))
  BY DEF DropsCompleted, first, next
<1>4. chain(DropsCompleted(cut, drops), Len(drops))
  BY <1>2, <1>3
<1>5. DropsCompleted(cut, drops)[0] = first
  BY <1>0, <1>4
<1>6. \A i \in 1 .. Len(drops) : DropsCompleted(cut, drops)[i] = next(DropsCompleted(cut, drops)[i - 1], i)
  BY <1>0, <1>4
<1> QED
  BY <1>5, <1>6 DEF first, next

\* One check more passed over or taken.
LEMMA NotFromIsAChain ==
  ASSUME NEW checks, NEW peer, Len(checks) \in Nat
  PROVE  /\ NotFrom(checks, peer)[0] = <<>>
         /\ \A i \in 1 .. Len(checks) : NotFrom(checks, peer)[i] = IF checks[i].source = peer THEN NotFrom(checks, peer)[i - 1] ELSE Append(NotFrom(checks, peer)[i - 1], checks[i])
<1> DEFINE first == <<>>
           next(a, i) == IF checks[i].source = peer THEN a ELSE Append(a, checks[i])
           chain(g, m) == g = [i \in 0 .. m |-> IF i = 0 THEN first ELSE next(g[i - 1], i)]
           missing == {m \in 0 .. Len(checks) : ~ \E g : chain(g, m)}
<1>0. Len(checks) \in Nat
  OBVIOUS
<1> HIDE DEF first, next
<1>1. missing = {}
  <2> SUFFICES ASSUME missing # {} PROVE FALSE
    OBVIOUS
  <2>1. PICK m \in missing : \A j \in missing : m <= j
    <3>1. missing \in SUBSET Nat
      BY <1>0
    <3> HIDE DEF missing
    <3> QED
      BY <3>1, LeastElement
  <2>2. m \in 0 .. Len(checks) /\ ~ \E g : chain(g, m)
    OBVIOUS
  <2>3. CASE m = 0
    <3> DEFINE g == [i \in 0 .. 0 |-> first]
    <3>1. chain(g, 0)
      OBVIOUS
    <3> QED
      BY <2>2, <2>3, <3>1
  <2>4. CASE m # 0
    <3>0. m - 1 \in 0 .. Len(checks) /\ ~ (m <= m - 1)
      BY <1>0, <2>2, <2>4
    <3>1. m - 1 \notin missing
      <4> HIDE DEF missing
      <4> QED
        BY <2>1, <3>0
    <3>2. PICK g : chain(g, m - 1)
      BY <3>0, <3>1
    <3> DEFINE h == [i \in 0 .. m |-> IF i < m THEN g[i] ELSE next(g[m - 1], m)]
    <3>3. ASSUME NEW i \in 0 .. m
          PROVE  h[i] = IF i = 0 THEN first ELSE next(h[i - 1], i)
      <4>1. CASE i = m
        BY <1>0, <2>2, <2>4, <4>1
      <4>2. CASE i # m
        <5>1. i \in 0 .. (m - 1) /\ h[i] = g[i] /\ (i # 0 => h[i - 1] = g[i - 1])
          BY <1>0, <2>2, <4>2
        <5>2. g[i] = IF i = 0 THEN first ELSE next(g[i - 1], i)
          BY <3>2, <5>1
        <5> QED
          BY <5>1, <5>2
      <4> QED
        BY <4>1, <4>2
    <3>4. h = [i \in 0 .. m |-> h[i]]
      OBVIOUS
    <3> HIDE DEF h
    <3>5. chain(h, m)
      BY <3>3, <3>4
    <3> QED
      BY <2>2, <3>5
  <2> QED
    BY <2>3, <2>4
<1>2. \E g : chain(g, Len(checks))
  BY <1>0, <1>1
<1>3. NotFrom(checks, peer) = CHOOSE g : chain(g, Len(checks))
  BY DEF NotFrom, first, next
<1>4. chain(NotFrom(checks, peer), Len(checks))
  BY <1>2, <1>3
<1>5. NotFrom(checks, peer)[0] = first
  BY <1>0, <1>4
<1>6. \A i \in 1 .. Len(checks) : NotFrom(checks, peer)[i] = next(NotFrom(checks, peer)[i - 1], i)
  BY <1>0, <1>4
<1> QED
  BY <1>5, <1>6 DEF first, next

\* One held check more.
LEMMA HeldAppended ==
  ASSUME NEW K, NEW checks, HeldFor(K, checks), NEW check, check.source \in Peer,
         Vouched(K[check.source], check)
  PROVE  HeldFor(K, Append(checks, check))
<1>1. PICK len \in Nat : len = Len(checks) /\ DOMAIN checks = 1 .. len /\ Listed(checks)
  BY ListedIs DEF HeldFor
<1>2. PICK longer : longer = Append(checks, check)
  OBVIOUS
<1>3. /\ Listed(longer) /\ DOMAIN longer = 1 .. (len + 1)
      /\ \A i \in 1 .. len : longer[i] = checks[i]
      /\ longer[len + 1] = check
  BY <1>1, <1>2, AppendIs
<1>4. \A i \in 1 .. (len + 1) : i \in 1 .. len \/ i = len + 1
  OBVIOUS
<1>5. \A i \in 1 .. (len + 1) : longer[i].source \in Peer /\ Vouched(K[longer[i].source], longer[i])
  BY <1>1, <1>3, <1>4 DEF HeldFor
<1> QED
  BY <1>2, <1>3, <1>5 DEF HeldFor

\* A check that is left was there before.
LEMMA NotFromIs ==
  ASSUME NEW K, NEW checks, HeldFor(K, checks), NEW peer, NEW rest, rest = NotFrom(checks, peer)[Len(checks)]
  PROVE  HeldFor(K, rest)
<1>1. PICK len \in Nat : len = Len(checks) /\ DOMAIN checks = 1 .. len
  BY ListedIs DEF HeldFor
<1>2. PICK after : after = NotFrom(checks, peer)
  OBVIOUS
<1>3. /\ after[0] = <<>>
      /\ \A i \in 1 .. len : after[i] = IF checks[i].source = peer THEN after[i - 1]
                                        ELSE Append(after[i - 1], checks[i])
  BY <1>1, <1>2, NotFromIsAChain
<1> DEFINE S == {i \in 0 .. len : HeldFor(K, after[i])}
<1>4. 0 \in S
  BY <1>1, <1>3, EmptyIsListed DEF HeldFor
<1>5. ASSUME NEW i \in 1 .. len, i - 1 \in S
      PROVE  i \in S
  <2>1. PICK before, check : before = after[i - 1] /\ check = checks[i] /\ HeldFor(K, before)
    BY <1>5
  <2>2. check.source \in Peer /\ Vouched(K[check.source], check)
    BY <1>1, <2>1 DEF HeldFor
  <2>3. HeldFor(K, Append(before, check))
    BY <2>1, <2>2, HeldAppended
  <2>4. after[i] \in {before, Append(before, check)}
    BY <1>3, <2>1
  <2>5. HeldFor(K, after[i])
    BY <2>1, <2>3, <2>4
  <2> QED
    BY <1>5, <2>5
<1>6. HeldFor(K, after[len])
  <2>1. \A i \in 0 .. len : i \in S
    <3> HIDE DEF S
    <3> QED
      BY <1>1, <1>4, <1>5, Climbs
  <2> QED
    BY <1>1, <2>1
<1> QED
  BY <1>1, <1>2, <1>6

------------------------------------------------------------------------------
\* What a peer knows beside its finishes, its checks and its worlds.
Loose == {"error", "diverged", "heard", "agreed", "peers", "turnsFrom", "dropped", "left", "gate"}

\* A change of nothing else keeps a peer upright.
LEMMA UprightAlike ==
  ASSUME NEW K, NEW L, NEW p, NEW n, Upright(K, L, p, n), NEW n2, Alike(n, n2, Loose \cup {"state", "queue"}),
         n2.state = n.state \/ n2.state \in {"Running", "Ended"},
         n2.queue = n.queue \/ QueueShape(n2.queue)
  PROVE  Upright(K, L, p, n2)
<1>1. /\ Shape(n2) /\ n2.id = n.id /\ n2.kernel = n.kernel /\ n2.length = n.length
      /\ n2.lastSent = n.lastSent /\ n2.drops = n.drops /\ n2.checkpoints = n.checkpoints
      /\ n2.pending = n.pending /\ n2.compared = n.compared
      /\ n2.finish = n.finish /\ n2.peerFinish = n.peerFinish
  BY DEF Alike, NodeFields, Loose
<1>2. QueueShape(n2.queue)
  BY DEF Upright
<1>3. Declared(L, p, n2.state, n2.finish, n2.peerFinish)
  <2>1. Declared(L, p, n.state, n.finish, n.peerFinish)
    BY DEF Upright
  <2> QED
    BY <1>1, <2>1 DEF Declared
<1> QED
  BY <1>1, <1>2, <1>3 DEF Upright

\* A call that fails changes nothing else.
LEMMA UprightFails ==
  ASSUME NEW K, NEW L, NEW p, NEW n, Upright(K, L, p, n), NEW code
  PROVE  Upright(K, L, p, Fail(n, code)) /\ Fail(n, code).state = n.state
<1>1. PICK n2 : n2 = Fail(n, code)
  OBVIOUS
<1>2. Shape(n)
  BY DEF Upright
<1>3. Alike(n, n2, {"error"})
  BY <1>1, <1>2 DEF Fail, Alike, Shape, NodeFields
<1>4. Alike(n, n2, Loose \cup {"state", "queue"}) /\ n2.state = n.state /\ n2.queue = n.queue
  BY <1>3 DEF Alike, Loose, NodeFields
<1>5. Upright(K, L, p, n2)
  BY <1>4, UprightAlike
<1> QED
  BY <1>1, <1>4, <1>5

\* Two equal checks of one tick are two peers in one world.
LEMMA UprightCompares ==
  ASSUME NEW K, NEW L, Runs(K, L), NEW p \in Peer, NEW n, Upright(K, L, p, n), NEW o \in Peer,
         NEW check, Vouched(K[o], check), check.tick % Interval = 0,
         NEW mine, Vouched(K[p], mine), mine.tick = check.tick,
         NEW n2, n2 = CompareCheck(n, o, check, mine)
  PROVE  Upright(K, L, p, n2) /\ n2.state = n.state
<1>1. Shape(n) /\ ComparedTo(K, p, n.compared)
  BY DEF Upright
<1>2. CASE mine.hash = check.hash
  <2>1. PICK t : t = check.tick /\ t \in Nat /\ SameAfter(K, p, o, t)
    <3>1. K[o].tick \in Nat /\ K[p].tick \in Nat
      BY DEF Runs
    <3>2. check.tick \in 0 .. (K[o].tick - 1) /\ check.tick \in 0 .. (K[p].tick - 1)
      BY DEF Vouched
    <3>3. check.tick \in Nat /\ check.tick < K[o].tick /\ check.tick < K[p].tick
      BY <3>1, <3>2
    <3>4. Until(K[p].world, check.tick + 1) = Until(K[o].world, check.tick + 1)
      BY <1>2 DEF Vouched
    <3> QED
      BY <3>3, <3>4 DEF SameAfter
  <2>2. PICK c, c2 : c = n.compared /\ c2 = [c EXCEPT ![o] = Later(c[o], t)]
    OBVIOUS
  <2>3. ComparedTo(K, p, c2)
    <3>1. c \in [Peer -> Int] /\ \A q \in Peer : c[q] = NoTick \/ SameAfter(K, p, q, c[q])
      BY <1>1, <2>2 DEF ComparedTo
    <3>2. Later(c[o], t) \in {c[o], t}
      BY DEF Later
    <3>3. c2 \in [Peer -> Int]
      BY <2>1, <2>2, <3>1, <3>2
    <3>4. \A q \in Peer : c2[q] = c[q] \/ (q = o /\ c2[q] = t)
      BY <2>2, <3>1, <3>2
    <3>5. \A q \in Peer : c2[q] = NoTick \/ SameAfter(K, p, q, c2[q])
      BY <2>1, <3>1, <3>4
    <3> QED
      BY <3>3, <3>5 DEF ComparedTo
  <2>4. n2 = [n EXCEPT !.compared = c2]
    BY <1>2, <2>1, <2>2 DEF CompareCheck
  <2>5. Shape(n2) /\ n2.compared = c2 /\ \A f \in NodeFields \ {"compared"} : n2[f] = n[f]
    BY <1>1, <2>4 DEF Shape, NodeFields
  <2> QED
    BY <2>3, <2>5 DEF Upright, NodeFields
<1>3. CASE mine.hash # check.hash
  <2>1. PICK m : m = [n EXCEPT !.diverged = TRUE]
    OBVIOUS
  <2>2. n2 = Fail(m, "IntegrityCheckFailed")
    BY <1>3, <2>1 DEF CompareCheck
  <2>3. Alike(n, n2, Loose \cup {"state", "queue"}) /\ n2.state = n.state /\ n2.queue = n.queue
    BY <1>1, <2>1, <2>2 DEF Fail, Alike, Shape, NodeFields, Loose
  <2> QED
    BY <2>3, UprightAlike
<1> QED
  BY <1>2, <1>3

\* A check is compared with this peer's own of that tick, or held.
LEMMA UprightChecks ==
  ASSUME NEW K, NEW L, Runs(K, L), NEW p \in Peer, NEW n, Upright(K, L, p, n), NEW o \in Peer,
         NEW check, Vouched(K[o], check), NEW n2, n2 = AcceptCheck(n, o, check)
  PROVE  Upright(K, L, p, n2) /\ n2.state = n.state
<1>1. CASE n2 \in {Fail(n, "InvalidArgument"), Fail(n, "Exhausted")}
  BY <1>1, UprightFails
<1>2. CASE n2 \notin {Fail(n, "InvalidArgument"), Fail(n, "Exhausted")}
  <2>1. PICK mine, t : mine = Mine(n, check.tick) /\ t = check.tick
    OBVIOUS
  <2>2. PICK checks, first, own : /\ checks = n.checkpoints /\ first = Earliest(mine)
                                  /\ own = checks[first]
    OBVIOUS
  <2>3. /\ check.source = o /\ check.tick % Interval = 0
        /\ n2 = IF mine # {} THEN CompareCheck(n, o, check, own) ELSE [n EXCEPT !.pending = Append(@, check)]
    BY <1>2, <2>1, <2>2 DEF AcceptCheck, CompareOrHold, Refuse
  <2>4. CASE mine # {}
    <3>1. Recorded(K[p], checks)
      BY <2>2 DEF Upright
    <3>2. mine = {i \in DOMAIN checks : checks[i].tick = t}
      BY <2>1, <2>2 DEF Mine
    <3>3. Vouched(K[p], checks[first]) /\ checks[first].tick = t
      <4>1. DOMAIN checks \subseteq Nat
        <5>1. DOMAIN checks = 1 .. Len(checks)
          BY <3>1, ListedIs DEF Recorded
        <5> QED
          BY <5>1
      <4>2. mine \in SUBSET Nat
        BY <3>2, <4>1
      <4>3. \E i \in mine : \A j \in mine : i <= j
        BY <2>4, <4>2, LeastElement
      <4>4. first \in mine
        BY <2>2, <4>3 DEF Earliest
      <4> QED
        BY <3>1, <3>2, <4>4 DEF Recorded
    <3>4. Vouched(K[p], own) /\ own.tick = check.tick
      BY <2>1, <2>2, <3>3
    <3>5. n2 = CompareCheck(n, o, check, own)
      BY <2>3, <2>4
    <3> QED
      BY <2>3, <3>4, <3>5, UprightCompares
  <2>5. CASE mine = {}
    <3>1. PICK longer : longer = Append(n.pending, check)
      OBVIOUS
    <3>2. HeldFor(K, n.pending) /\ Shape(n)
      BY DEF Upright
    <3>3. HeldFor(K, longer)
      BY <2>3, <3>1, <3>2, HeldAppended
    <3>4. n2 = [n EXCEPT !.pending = longer]
      BY <2>3, <2>5, <3>1
    <3>5. Shape(n2) /\ n2.pending = longer /\ \A f \in NodeFields \ {"pending"} : n2[f] = n[f]
      BY <3>2, <3>4 DEF Shape, NodeFields
    <3> QED
      BY <3>3, <3>5 DEF Upright, NodeFields
  <2> QED
    BY <2>4, <2>5
<1> QED
  BY <1>1, <1>2

\* A partner's finish is recorded only where it agrees with every other.
LEMMA UprightFinishes ==
  ASSUME NEW K, NEW L, Runs(K, L), NEW p \in Peer, NEW n, Upright(K, L, p, n), NEW o \in Peer,
         NEW t, t = L[o] - 1, NEW n2, n2 = AcceptFinish(n, o, t)
  PROVE  Upright(K, L, p, n2) /\ n2.state = n.state
<1>1. CASE n2 = Fail(n, "InvalidArgument")
  BY <1>1, UprightFails
<1>2. CASE n2 # Fail(n, "InvalidArgument")
  <2>1. PICK pf, pf2 : pf = n.peerFinish /\ pf2 = [pf EXCEPT ![o] = t]
    OBVIOUS
  <2>2. PICK m : m = [n EXCEPT !.peerFinish = pf2]
    OBVIOUS
  <2>3. /\ \A other \in Finishes(n) : other = t
        /\ n2 \in {m, Fail(m, "InvalidArgument")}
    BY <1>2, <2>1, <2>2 DEF AcceptFinish, Refuse
  <2>4. Declared(L, p, n.state, n.finish, pf) /\ Shape(n)
    BY <2>1 DEF Upright
  <2>5. Declared(L, p, n.state, n.finish, pf2)
    <3>1. /\ n.finish \in {NoTick, t} /\ \A q \in Peer : pf[q] \in {NoTick, t}
      BY <2>1, <2>3 DEF Finishes
    <3>2. t \in Int /\ pf \in [Peer -> Int]
      BY <2>4 DEF Runs, Declared
    <3>3. pf2 \in [Peer -> Int] /\ \A q \in Peer : pf2[q] = IF q = o THEN t ELSE pf[q]
      BY <2>1, <3>2
    <3> QED
      BY <2>4, <3>1, <3>3 DEF Declared
  <2>6. Shape(m) /\ m.peerFinish = pf2 /\ \A f \in NodeFields \ {"peerFinish"} : m[f] = n[f]
    BY <2>2, <2>4 DEF Shape, NodeFields
  <2>7. Upright(K, L, p, m) /\ m.state = n.state
    BY <2>5, <2>6 DEF Upright, NodeFields
  <2> QED
    BY <2>3, <2>7, UprightFails
<1> QED
  BY <1>1, <1>2

\* Whatever the commands, the queue keeps its shape.
LEMMA SubmittedShape ==
  ASSUME NEW q, QueueShape(q), NEW commands, Listed(commands),
         \A i \in DOMAIN commands : commands[i] \in Stamped,
         NEW after, after = Submitted(q, commands)[Len(commands)]
  PROVE  QueueShape(after)
<1>1. PICK len \in Nat : len = Len(commands) /\ DOMAIN commands = 1 .. len
  BY ListedIs
<1>2. PICK g : g = Submitted(q, commands)
  OBVIOUS
<1>3. g[0] = q /\ \A i \in 1 .. len : g[i] = SubmitRemote(g[i - 1], commands[i])
  BY <1>1, <1>2, SubmittedIsAChain
<1> DEFINE S == {i \in 0 .. len : QueueShape(g[i])}
<1>4. 0 \in S
  BY <1>3
<1>5. ASSUME NEW i \in 1 .. len, i - 1 \in S
      PROVE  i \in S
  <2>1. PICK before, c : before = g[i - 1] /\ c = commands[i] /\ QueueShape(before) /\ c \in Stamped
    BY <1>1, <1>5
  <2>2. g[i] = SubmitRemote(before, c)
    BY <1>3, <2>1
  <2>3. CASE SubmitStatus(before, c.cell, InvalidCell) = "Ok"
    <3>1. c.cell \in Cell
      BY <2>3 DEF SubmitStatus
    <3>2. c \in Cmd
      BY <2>1, <3>1 DEF Stamped, Cmd
    <3>3. PICK now : now = SubmitStamped(before, c)
      OBVIOUS
    <3>4. /\ QueueShape(now)
          /\ before.pending \subseteq now.pending
          /\ Cardinality(before.pending) <= Cardinality(now.pending)
          /\ \A s \in Peer \ {c.source} : now.next[s] = before.next[s]
          /\ now.next[c.source] = IF c.sequence + 1 > before.next[c.source] THEN c.sequence + 1 ELSE before.next[c.source]
          /\ (\A e \in before.pending : e[1] # c) => now.pending = before.pending \cup {<<c, 1>>}
      BY <2>1, <3>2, <3>3, StampedIs
    <3>5. QueueShape(g[i])
      BY <2>2, <2>3, <3>3, <3>4 DEF SubmitRemote
    <3> QED
      BY <1>5, <3>5
  <2>4. CASE SubmitStatus(before, c.cell, InvalidCell) # "Ok"
    <3>1. QueueShape(g[i])
      BY <2>1, <2>2, <2>4 DEF SubmitRemote
    <3> QED
      BY <1>5, <3>1
  <2> QED
    BY <2>3, <2>4
<1>6. QueueShape(g[len])
  <2>1. \A i \in 0 .. len : i \in S
    <3> HIDE DEF S
    <3> QED
      BY <1>4, <1>5, Climbs
  <2> QED
    BY <2>1
<1> QED
  BY <1>1, <1>2, <1>6

\* A peer takes an honest message, whatever it is, and stays upright.
LEMMA UprightHandles ==
  ASSUME NEW K, NEW L, Runs(K, L), NEW p \in Peer, NEW n, Upright(K, L, p, n), n.state # "Finished",
         NEW o \in Peer, o # p, NEW message, Honest(K, L, o, message), NEW n2, n2 = Handle(n, o, message)
  PROVE  Upright(K, L, p, n2) /\ n2.state # "Finished"
<1>1. Shape(n) /\ n.id = p
  BY DEF Upright
<1>2. \A code : Upright(K, L, p, Fail(n, code)) /\ Fail(n, code).state = n.state
  BY UprightFails
<1>3. CASE message.type = "Hello"
  <2>1. n2 = AcceptHello(n, o, message)
    BY <1>3 DEF Handle
  <2>2. CASE n2 = Fail(n, "VersionMismatch")
    BY <1>2, <2>2
  <2>3. CASE n2 # Fail(n, "VersionMismatch")
    <3>1. PICK heard : heard = [n.heard EXCEPT ![o] = message.delay, ![n.id] = Delay[n.id]]
      OBVIOUS
    <3>2. PICK agreed, gate : agreed = Latest({heard[q] : q \in Peer}) /\ gate = ExpectSources(n.gate, Peer)
      OBVIOUS
    <3>3. \/ n2 = [n EXCEPT !.heard = heard]
          \/ n2 = [n EXCEPT !.heard = heard, !.agreed = agreed, !.peers = Peer, !.gate = gate, !.state = "Running"]
      BY <2>1, <2>3, <3>1, <3>2 DEF AcceptHello, Refuse
    <3>4. /\ Alike(n, n2, Loose \cup {"state", "queue"}) /\ n2.queue = n.queue
          /\ n2.state = n.state \/ n2.state = "Running"
      BY <1>1, <3>3 DEF Alike, Shape, NodeFields, Loose
    <3> QED
      BY <3>4, UprightAlike
  <2> QED
    BY <2>2, <2>3
<1>4. CASE message.type = "Turn"
  <2>1. n2 = AcceptTurn(n, o, message)
    BY <1>4 DEF Handle
  <2>2. PICK queue, turns : /\ queue = Submitted(n.queue, message.commands)[Len(message.commands)]
                            /\ turns = [n.turnsFrom EXCEPT ![o] = @ + 1]
    OBVIOUS
  <2>3. PICK filed, gate : /\ filed = [n EXCEPT !.queue = queue, !.turnsFrom = turns]
                           /\ gate = MarkComplete(n.gate, o, message.tick)
    OBVIOUS
  <2>4. n2 \in {Fail(n, "InvalidArgument"), Fail(filed, "OutOfRange"), [filed EXCEPT !.gate = gate]}
    <3>1. filed = [n EXCEPT !.queue = Submitted(@, message.commands)[Len(message.commands)], !.turnsFrom[o] = @ + 1]
      BY <2>2, <2>3
    <3>2. filed.gate = n.gate
      BY <1>1, <2>3 DEF Shape, NodeFields
    <3> QED
      BY <2>1, <2>3, <3>1, <3>2 DEF AcceptTurn, Refuse
  <2>5. QueueShape(queue)
    BY <1>4, <2>2, SubmittedShape DEF Honest, Upright
  <2>6. CASE n2 # Fail(n, "InvalidArgument")
    <3>4. /\ Shape(filed) /\ filed.queue = queue /\ filed.turnsFrom = turns
          /\ \A f \in NodeFields \ {"queue", "turnsFrom"} : filed[f] = n[f]
      BY <1>1, <2>3 DEF Shape, NodeFields
    <3>2. n2 = [filed EXCEPT !.error = "OutOfRange"] \/ n2 = [filed EXCEPT !.gate = gate]
      BY <2>4, <2>6 DEF Fail
    <3>3. /\ Shape(n2) /\ n2.queue = queue /\ n2.state = n.state
          /\ \A f \in NodeFields \ {"queue", "turnsFrom", "error", "gate"} : n2[f] = n[f]
      <4>1. /\ Shape(n2) /\ n2.queue = filed.queue /\ n2.state = filed.state
            /\ \A f \in NodeFields \ {"error", "gate"} : n2[f] = filed[f]
        BY <3>4, <3>2 DEF Shape, NodeFields
      <4> QED
        BY <3>4, <4>1 DEF NodeFields
    <3>1. /\ Alike(n, n2, Loose \cup {"state", "queue"}) /\ n2.queue = queue
          /\ n2.state = n.state
      BY <3>3 DEF Alike, NodeFields, Loose
    <3> QED
      BY <2>5, <3>1, UprightAlike
  <2> QED
    BY <1>2, <2>6
<1>5. CASE message.type = "HashCheck"
  <2>1. n2 = AcceptCheck(n, o, message) /\ Vouched(K[o], message)
    BY <1>5 DEF Handle, Honest
  <2> QED
    BY <2>1, UprightChecks
<1>6. CASE message.type = "Finish"
  <2>1. PICK t : t = message.tick /\ t = L[o] - 1
    BY <1>6 DEF Honest
  <2>2. n2 = AcceptFinish(n, o, t)
    BY <1>6, <2>1 DEF Handle
  <2> QED
    BY <2>1, <2>2, UprightFinishes
<1>7. CASE message.type = "Bye"
  <2>1. n2 = AcceptBye(n, o)
    BY <1>7 DEF Handle
  <2>2. CASE n2 # Fail(n, "Unavailable")
    <3>1. n2 = [n EXCEPT !.left = @ \cup {o}]
      BY <2>1, <2>2 DEF AcceptBye
    <3>2. Alike(n, n2, Loose \cup {"state", "queue"}) /\ n2.queue = n.queue /\ n2.state = n.state
      BY <1>1, <3>1 DEF Alike, Shape, NodeFields, Loose
    <3> QED
      BY <3>2, UprightAlike
  <2> QED
    BY <1>2, <2>2
<1>8. CASE message.type = "Drop"
  <2>1. n2 = AcceptDrop(n, o, message)
    BY <1>8 DEF Handle
  <2>2. CASE n2 \notin {Fail(n, "InvalidArgument"), Fail(n, "Unavailable")}
    <3>1. PICK drops, drops2 : drops = n.drops /\ drops2 = Append(drops, message)
      OBVIOUS
    <3>2. message.source \in Peer \ {p} /\ n2 = [n EXCEPT !.drops = drops2]
      BY <1>1, <2>1, <2>2, <3>1 DEF AcceptDrop, Refuse
    <3>3. Awaited(p, drops2)
      <4>1. Awaited(p, drops)
        BY <3>1 DEF Upright
      <4>2. PICK len \in Nat : len = Len(drops) /\ DOMAIN drops = 1 .. len /\ Listed(drops)
        BY <4>1, ListedIs DEF Awaited
      <4>3. /\ Listed(drops2) /\ DOMAIN drops2 = 1 .. (len + 1)
            /\ \A i \in 1 .. len : drops2[i] = drops[i]
            /\ drops2[len + 1] = message
        BY <3>1, <4>2, AppendIs
      <4>4. \A i \in 1 .. (len + 1) : i \in 1 .. len \/ i = len + 1
        OBVIOUS
      <4>5. \A i \in 1 .. (len + 1) : drops2[i].source \in Peer \ {p}
        BY <3>2, <4>1, <4>2, <4>3, <4>4 DEF Awaited
      <4> QED
        BY <4>3, <4>5 DEF Awaited
    <3>4. Shape(n2) /\ n2.drops = drops2 /\ \A f \in NodeFields \ {"drops"} : n2[f] = n[f]
      BY <1>1, <3>2 DEF Shape, NodeFields
    <3> QED
      BY <3>3, <3>4 DEF Upright, NodeFields
  <2> QED
    BY <1>2, <2>2
<1> QED
  BY <1>3, <1>4, <1>5, <1>6, <1>7, <1>8 DEF Honest, Kinds

------------------------------------------------------------------------------
\* A call goes on with a node that is upright and a link that is honest.
LEMMA GoingOn ==
  ASSUME NEW K, NEW L, NEW p, NEW n2, Upright(K, L, p, n2), n2.state # "Finished",
         NEW after, NetOK(after), NetHonest(K, L, after),
         NEW cut, cut = [node |-> n2, net |-> after]
  PROVE  Going(K, L, p, cut)
<1>1. cut.node = n2 /\ cut.net = after /\ cut = [node |-> cut.node, net |-> cut.net]
  OBVIOUS
<1> QED
  BY <1>1 DEF Going

\* With its node changed.
LEMMA GoingWith ==
  ASSUME NEW K, NEW L, NEW p, NEW cut, Going(K, L, p, cut), NEW n2, Upright(K, L, p, n2), n2.state # "Finished",
         NEW cut2, cut2 = [cut EXCEPT !.node = n2]
  PROVE  Going(K, L, p, cut2)
<1>1. PICK n, links : cut = [node |-> n, net |-> links] /\ NetOK(links) /\ NetHonest(K, L, links)
  BY DEF Going
<1>2. cut2 = [node |-> n2, net |-> links]
  BY <1>1
<1> QED
  BY <1>1, <1>2, GoingOn

\* With messages moved on.
LEMMA GoingMoved ==
  ASSUME NEW K, NEW L, NEW p, NEW n2, Upright(K, L, p, n2), n2.state # "Finished",
         NEW links, NetHonest(K, L, links), NEW after, NetOK(after), Moves(links, after),
         NEW cut2, cut2 = [node |-> n2, net |-> after]
  PROVE  Going(K, L, p, cut2)
<1>1. NetHonest(K, L, after)
  BY HonestMoves
<1> QED
  BY <1>1, GoingOn

\* With an error.
LEMMA GoingFails ==
  ASSUME NEW K, NEW L, NEW p, NEW cut, Going(K, L, p, cut), NEW code,
         NEW cut2, cut2 = [cut EXCEPT !.node = Fail(@, code)]
  PROVE  Going(K, L, p, cut2)
<1>1. PICK n, n2 : n = cut.node /\ n2 = Fail(n, code)
  OBVIOUS
<1>2. Upright(K, L, p, n) /\ n.state # "Finished"
  BY <1>1 DEF Going
<1>3. Upright(K, L, p, Fail(n, code)) /\ Fail(n, code).state = n.state
  BY <1>2, UprightFails
<1>4. cut2 = [cut EXCEPT !.node = n2]
  BY <1>1
<1> QED
  BY <1>1, <1>2, <1>3, <1>4, GoingWith

\* With an honest message said.
LEMMA GoingSends ==
  ASSUME NEW K, NEW L, NEW p \in Peer, NEW cut, Going(K, L, p, cut), NEW message, Honest(K, L, p, message),
         NEW cut2, cut2 = Send(cut, message)
  PROVE  Going(K, L, p, cut2)
<1>1. PICK n, links : /\ cut = [node |-> n, net |-> links] /\ n = cut.node /\ links = cut.net
                      /\ Upright(K, L, p, n) /\ n.state # "Finished" /\ NetOK(links) /\ NetHonest(K, L, links)
  BY DEF Going
<1>2. n.id = p
  BY <1>1 DEF Upright
<1>3. PICK after : after = Broadcast(links, p, message).net
  OBVIOUS
<1>4. NetOK(after) /\ NetHonest(K, L, after)
  BY <1>1, <1>3, HonestBroadcast
<1>5. PICK n2 : n2 \in {n, Fail(n, "Unavailable")} /\ cut2 = [node |-> n2, net |-> after]
  BY <1>1, <1>2, <1>3 DEF Send
<1>6. Upright(K, L, p, Fail(n, "Unavailable")) /\ Fail(n, "Unavailable").state = n.state
  BY <1>1, UprightFails
<1>7. Upright(K, L, p, n2) /\ n2.state # "Finished"
  BY <1>1, <1>5, <1>6
<1> QED
  BY <1>4, <1>5, <1>7, GoingOn

\* At its end, with or without a farewell.
LEMMA GoingEnds ==
  ASSUME NEW K, NEW L, NEW p \in Peer, NEW cut, Going(K, L, p, cut)
  PROVE  Going(K, L, p, End(cut)) /\ Going(K, L, p, EndIfFailed(cut))
<1>1. PICK n, links : /\ n = cut.node /\ links = cut.net
                      /\ Upright(K, L, p, n) /\ n.state # "Finished" /\ NetOK(links) /\ NetHonest(K, L, links)
  BY DEF Going
<1>2. PICK bye : bye = Bye
  OBVIOUS
<1>3. PICK n2, after : n2 = [n EXCEPT !.state = "Ended"] /\ after = Broadcast(links, p, bye).net
  OBVIOUS
<1>4. n.id = p /\ Shape(n)
  BY <1>1 DEF Upright
<1>5. /\ Alike(n, n2, Loose \cup {"state", "queue"})
      /\ n2.state = n.state \/ n2.state \in {"Running", "Ended"}
      /\ n2.queue = n.queue \/ QueueShape(n2.queue)
      /\ n2.state # "Finished"
  BY <1>3, <1>4 DEF Alike, Shape, NodeFields, Loose
<1>6. Upright(K, L, p, n2)
  BY <1>1, <1>5, UprightAlike
<1>7. Honest(K, L, p, bye)
  BY <1>2 DEF Bye, Honest, Kinds
<1>8. NetOK(after) /\ NetHonest(K, L, after)
  BY <1>1, <1>3, <1>7, HonestBroadcast
<1>9. PICK cut2 : cut2 = [node |-> n2, net |-> after]
  OBVIOUS
<1>10. Going(K, L, p, cut2)
  BY <1>5, <1>6, <1>8, <1>9, GoingOn
<1>11. End(cut) \in {cut, cut2}
  BY <1>1, <1>3, <1>2, <1>4, <1>9 DEF End
<1>12. Going(K, L, p, End(cut))
  BY <1>10, <1>11
<1> QED
  BY <1>12 DEF EndIfFailed

------------------------------------------------------------------------------
\* Messages of one inbox read in order, as far as a poll goes.
LEMMA UprightReads ==
  ASSUME NEW K, NEW L, Runs(K, L), NEW p \in Peer, NEW n, Upright(K, L, p, n), n.state # "Finished",
         NEW o \in Peer, o # p, NEW waiting, Len(waiting) \in Nat,
         \A i \in 1 .. Len(waiting) : Honest(K, L, o, waiting[i]),
         NEW read, read = ReadInOrder(n, o, waiting)[Len(waiting)]
  PROVE  /\ read.handled \in 0 .. Len(waiting)
         /\ Upright(K, L, p, read.node) /\ read.node.state # "Finished"
<1>1. PICK len \in Nat : len = Len(waiting)
  OBVIOUS
<1>2. PICK after : after = ReadInOrder(n, o, waiting)
  OBVIOUS
<1>3. /\ after[0] = [node |-> n, handled |-> 0, stopped |-> FALSE]
      /\ \A i \in 1 .. len : after[i] = ReadMessage(after[i - 1], o, waiting[i])
  BY <1>1, <1>2, ReadInOrderIsAChain
<1> DEFINE Good(i) == /\ after[i] = [node |-> after[i].node, handled |-> after[i].handled, stopped |-> after[i].stopped]
                      /\ after[i].handled \in 0 .. i
                      /\ Upright(K, L, p, after[i].node) /\ after[i].node.state # "Finished"
           S == {i \in 0 .. len : Good(i)}
<1>4. 0 \in S
  <2>1. /\ after[0].node = n /\ after[0].handled = 0
        /\ after[0] = [node |-> after[0].node, handled |-> after[0].handled, stopped |-> after[0].stopped]
    BY <1>3
  <2>2. Good(0)
    BY <2>1
  <2> QED
    BY <2>2
<1>5. ASSUME NEW i \in 1 .. len, i - 1 \in S
      PROVE  i \in S
  <2>1. PICK before, now, m, k, st, message :
           /\ before = after[i - 1] /\ now = after[i] /\ m = before.node /\ k = before.handled
           /\ st = before.stopped /\ message = waiting[i]
    OBVIOUS
  <2>2. /\ before = [node |-> m, handled |-> k, stopped |-> st]
        /\ k \in 0 .. (i - 1)
        /\ Upright(K, L, p, m) /\ m.state # "Finished"
    BY <1>5, <2>1
  <2>3. now = ReadMessage(before, o, message) /\ Honest(K, L, o, message)
    BY <1>1, <1>3, <2>1
  <2>4. PICK m2 : m2 = Handle(m, o, message)
    OBVIOUS
  <2>5. Upright(K, L, p, m2) /\ m2.state # "Finished"
    BY <2>2, <2>3, <2>4, UprightHandles
  <2>6. \/ now = [before EXCEPT !.stopped = TRUE]
        \/ now = [before EXCEPT !.node = m2, !.handled = k + 1]
    BY <2>1, <2>3, <2>4 DEF ReadMessage
  <2>7. \/ now = [node |-> m, handled |-> k, stopped |-> TRUE]
        \/ now = [node |-> m2, handled |-> k + 1, stopped |-> st]
    BY <2>2, <2>6
  <2>8. k \in 0 .. i /\ k + 1 \in 0 .. i
    BY <1>1, <2>2
  <2>9. Good(i)
    <3>1. CASE now = [node |-> m, handled |-> k, stopped |-> TRUE]
      <4>1. now.node = m /\ now.handled = k /\ now = [node |-> now.node, handled |-> now.handled, stopped |-> now.stopped]
        BY <3>1
      <4> QED
        BY <2>1, <2>2, <2>8, <4>1
    <3>2. CASE now = [node |-> m2, handled |-> k + 1, stopped |-> st]
      <4>1. now.node = m2 /\ now.handled = k + 1 /\ now = [node |-> now.node, handled |-> now.handled, stopped |-> now.stopped]
        BY <3>2
      <4> QED
        BY <2>1, <2>5, <2>8, <4>1
    <3> QED
      BY <2>7, <3>1, <3>2
  <2> QED
    BY <1>5, <2>9
<1>6. Good(len)
  <2>1. \A i \in 0 .. len : i \in S
    <3> HIDE DEF S
    <3> QED
      BY <1>4, <1>5, Climbs
  <2> QED
    BY <2>1
<1> QED
  BY <1>1, <1>2, <1>6

\* All messages of one inbox handled.
LEMMA UprightHandlesAll ==
  ASSUME NEW K, NEW L, Runs(K, L), NEW p \in Peer, NEW n, Upright(K, L, p, n), n.state # "Finished",
         NEW o \in Peer, o # p, NEW waiting, Len(waiting) \in Nat,
         \A i \in 1 .. Len(waiting) : Honest(K, L, o, waiting[i]),
         NEW n2, n2 = Handled(n, o, waiting)[Len(waiting)]
  PROVE  Upright(K, L, p, n2) /\ n2.state # "Finished"
<1>1. PICK len \in Nat : len = Len(waiting)
  OBVIOUS
<1>2. PICK after : after = Handled(n, o, waiting)
  OBVIOUS
<1>3. after[0] = n /\ \A i \in 1 .. len : after[i] = HandleNext(after[i - 1], o, waiting[i])
  <2>1. /\ Handled(n, o, waiting)[0] = n
        /\ \A i \in 1 .. Len(waiting) : Handled(n, o, waiting)[i] = HandleNext(Handled(n, o, waiting)[i - 1], o, waiting[i])
    BY HandledIsAChain
  <2> QED
    BY <1>1, <1>2, <2>1
<1> DEFINE Good(i) == Upright(K, L, p, after[i]) /\ after[i].state # "Finished"
           S == {i \in 0 .. len : Good(i)}
<1>4. 0 \in S
  BY <1>3
<1>5. ASSUME NEW i \in 1 .. len, i - 1 \in S
      PROVE  i \in S
  <2>1. PICK before, message : before = after[i - 1] /\ message = waiting[i]
    OBVIOUS
  <2>2. Upright(K, L, p, before) /\ before.state # "Finished" /\ Honest(K, L, o, message)
    BY <1>1, <1>5, <2>1
  <2>3. PICK m2 : m2 = Handle(before, o, message)
    OBVIOUS
  <2>4. Upright(K, L, p, m2) /\ m2.state # "Finished"
    BY <2>2, <2>3, UprightHandles
  <2>5. after[i] \in {before, m2}
    BY <1>3, <2>1, <2>3 DEF HandleNext
  <2>6. Good(i)
    BY <2>2, <2>4, <2>5
  <2> QED
    BY <1>5, <2>6
<1>6. Good(len)
  <2>1. \A i \in 0 .. len : i \in S
    <3> HIDE DEF S
    <3> QED
      BY <1>4, <1>5, Climbs
  <2> QED
    BY <2>1
<1> QED
  BY <1>1, <1>2, <1>6

------------------------------------------------------------------------------
\* Reading one inbox, whatever becomes of it.
LEMMA GoingReads ==
  ASSUME NEW K, NEW L, Runs(K, L), NEW p \in Peer, NEW cut, Going(K, L, p, cut), NEW o \in Peer,
         NEW cut2, cut2 = ReadInbox(cut, o)
  PROVE  Going(K, L, p, cut2)
<1>1. PICK n, links : /\ cut = [node |-> n, net |-> links] /\ n = cut.node /\ links = cut.net
                      /\ Upright(K, L, p, n) /\ n.state # "Finished" /\ NetOK(links) /\ NetHonest(K, L, links)
  BY DEF Going
<1>2. n.id = p
  BY <1>1 DEF Upright
<1>3. CASE o = p
  BY <1>1, <1>2, <1>3 DEF ReadInbox
<1>4. CASE o # p /\ o \in n.dropped
  <2>1. PICK after : after = PutBack(links, p, o, <<>>)
    OBVIOUS
  <2>2. Listed(links.inbox[<<p, o>>])
    BY <1>1 DEF NetOK
  <2>3. 0 \in 0 .. Len(links.inbox[<<p, o>>])
    BY <2>2 DEF Listed
  <2>4. NetOK(after) /\ Moves(links, after)
    BY <1>1, <2>1, <2>3, PutBackMoves
  <2>5. cut2 = [node |-> n, net |-> after]
    BY <1>1, <1>2, <1>4, <2>1 DEF ReadInbox
  <2> QED
    BY <1>1, <2>4, <2>5, GoingMoved
<1>5. CASE o # p /\ o \notin n.dropped /\ <<p, o>> \in links.overflowed
  <2>1. PICK failed : failed = [cut EXCEPT !.node = Fail(@, "Exhausted")]
    OBVIOUS
  <2>2. Going(K, L, p, failed)
    BY <2>1, GoingFails
  <2>3. cut2 = End(failed)
    BY <1>1, <1>2, <1>5, <2>1 DEF ReadInbox
  <2> QED
    BY <2>2, <2>3, GoingEnds
<1>6. CASE o # p /\ o \notin n.dropped /\ <<p, o>> \notin links.overflowed
  <2>1. PICK waiting : waiting = Inbox(links, p, o)
    OBVIOUS
  <2>2. PICK read : read = ReadInOrder(n, o, waiting)[Len(waiting)]
    OBVIOUS
  <2>3. PICK rest : rest = IF Succeeded(read.node) THEN SubSeq(waiting, read.handled + 1, Len(waiting)) ELSE <<>>
    OBVIOUS
  <2>4. PICK after, c : after = PutBack(links, p, o, rest) /\ c = [node |-> read.node, net |-> after]
    OBVIOUS
  <2>5. Listed(waiting) /\ Len(waiting) \in Nat /\ \A i \in 1 .. Len(waiting) : Honest(K, L, o, waiting[i])
    BY <1>1, <1>6, <2>1, FiledIsHonest
  <2>6. /\ read.handled \in 0 .. Len(waiting)
        /\ Upright(K, L, p, read.node) /\ read.node.state # "Finished"
    BY <1>1, <1>6, <2>2, <2>5, UprightReads
  <2>7. NetOK(after) /\ Moves(links, after)
    <3>1. PICK k : k = read.handled /\ k \in 0 .. Len(links.inbox[<<p, o>>])
      BY <2>1, <2>6 DEF Inbox
    <3>2. \/ rest = SubSeq(links.inbox[<<p, o>>], k + 1, Len(links.inbox[<<p, o>>]))
          \/ rest = <<>>
      BY <2>1, <2>3, <3>1 DEF Inbox
    <3> QED
      BY <1>1, <2>4, <3>1, <3>2, PutBackMoves
  <2>8. Going(K, L, p, c)
    BY <1>1, <2>4, <2>6, <2>7, GoingMoved
  <2>9. cut2 = EndIfFailed(c)
    BY <1>1, <1>2, <1>6, <2>1, <2>2, <2>3, <2>4 DEF ReadInbox
  <2> QED
    BY <2>8, <2>9, GoingEnds
<1> QED
  BY <1>3, <1>4, <1>5, <1>6

\* Reading all of them.
LEMMA GoingReadsAll ==
  ASSUME NEW K, NEW L, Runs(K, L), NEW p \in Peer, NEW cut, Going(K, L, p, cut),
         NEW cut2, cut2 = InboxesRead(cut)[PeerCount]
  PROVE  Going(K, L, p, cut2)
<1>1. PICK n, after : n = PeerCount /\ after = InboxesRead(cut)
  OBVIOUS
<1>2. /\ n \in Nat /\ Peer = 0 .. (n - 1)
      /\ after[0] = cut
      /\ \A i \in 1 .. n : after[i] = ReadNext(after[i - 1], i - 1)
  BY <1>1, PeersCounted, InboxesReadIsAChain
<1> DEFINE S == {i \in 0 .. n : Going(K, L, p, after[i])}
<1>3. 0 \in S
  BY <1>2
<1>4. ASSUME NEW i \in 1 .. n, i - 1 \in S
      PROVE  i \in S
  <2>1. PICK o \in Peer : o = i - 1
    BY <1>2
  <2>2. PICK before, read : before = after[i - 1] /\ read = ReadInbox(before, o) /\ Going(K, L, p, before)
    BY <1>4
  <2>3. Going(K, L, p, read)
    BY <2>2, GoingReads
  <2>4. after[i] \in {before, read}
    BY <1>2, <2>1, <2>2 DEF ReadNext, After
  <2>5. Going(K, L, p, after[i])
    BY <2>2, <2>3, <2>4
  <2> QED
    BY <1>4, <2>5
<1>5. Going(K, L, p, after[n])
  <2>1. \A i \in 0 .. n : i \in S
    <3> HIDE DEF S
    <3> QED
      BY <1>2, <1>3, <1>4, Climbs
  <2> QED
    BY <1>2, <2>1
<1> QED
  BY <1>1, <1>5

\* Reading all that was filed of one end.
LEMMA GoingReadsOut ==
  ASSUME NEW K, NEW L, Runs(K, L), NEW p \in Peer, NEW cut, Going(K, L, p, cut), NEW o \in Peer, o # p,
         NEW cut2, cut2 = ReadEverythingFrom(cut, o)
  PROVE  Going(K, L, p, cut2)
<1>1. PICK n, links : /\ cut = [node |-> n, net |-> links] /\ n = cut.node /\ links = cut.net
                      /\ Upright(K, L, p, n) /\ n.state # "Finished" /\ NetOK(links) /\ NetHonest(K, L, links)
  BY DEF Going
<1>2. n.id = p
  BY <1>1 DEF Upright
<1>3. CASE <<p, o>> \in links.overflowed
  <2>1. cut2 = [cut EXCEPT !.node = Fail(@, "Exhausted")]
    BY <1>1, <1>2, <1>3 DEF ReadEverythingFrom
  <2> QED
    BY <2>1, GoingFails
<1>4. CASE <<p, o>> \notin links.overflowed
  <2>1. PICK waiting : waiting = Inbox(links, p, o)
    OBVIOUS
  <2>2. PICK n2, after : n2 = Handled(n, o, waiting)[Len(waiting)] /\ after = PutBack(links, p, o, <<>>)
    OBVIOUS
  <2>3. cut2 = [node |-> n2, net |-> after]
    BY <1>1, <1>2, <1>4, <2>1, <2>2 DEF ReadEverythingFrom
  <2>4. Listed(waiting) /\ Len(waiting) \in Nat /\ \A i \in 1 .. Len(waiting) : Honest(K, L, o, waiting[i])
    BY <1>1, <2>1, FiledIsHonest
  <2>5. Upright(K, L, p, n2) /\ n2.state # "Finished"
    BY <1>1, <2>2, <2>4, UprightHandlesAll
  <2>6. NetOK(after) /\ Moves(links, after)
    <3>1. 0 \in 0 .. Len(links.inbox[<<p, o>>])
      BY <2>1, <2>4 DEF Inbox
    <3> QED
      BY <1>1, <2>2, <3>1, PutBackMoves
  <2> QED
    BY <1>1, <2>3, <2>5, <2>6, GoingMoved
<1> QED
  BY <1>3, <1>4

------------------------------------------------------------------------------
\* A peer that drops another forgets what it held of it, and nothing else.
LEMMA UprightDrops ==
  ASSUME NEW K, NEW L, NEW p \in Peer, NEW n, Upright(K, L, p, n), n.state # "Finished", NEW o \in Peer,
         NEW n2, n2 = ApplyDrop(n, o)
  PROVE  Upright(K, L, p, n2) /\ n2.state # "Finished"
<1>1. PICK pf, pf2 : pf = n.peerFinish /\ pf2 = [pf EXCEPT ![o] = NoTick]
  OBVIOUS
<1>2. PICK cd, cd2 : cd = n.compared /\ cd2 = [cd EXCEPT ![o] = NoTick]
  OBVIOUS
<1>3. PICK held, rest : held = n.pending /\ rest = NotFrom(held, o)[Len(held)]
  OBVIOUS
<1>4. PICK gone, left, gate : /\ gone = n.dropped \cup {o} /\ left = n.peers \ {o}
                              /\ gate = ExpectSources(n.gate, n.peers \ {o})
  OBVIOUS
<1>5. /\ Shape(n) /\ Declared(L, p, n.state, n.finish, pf) /\ ComparedTo(K, p, cd) /\ HeldFor(K, held)
  BY <1>1, <1>2, <1>3 DEF Upright
<1>6. HeldFor(K, rest)
  BY <1>3, <1>5, NotFromIs
<1>7. Declared(L, p, n.state, n.finish, pf2)
  <2>1. pf \in [Peer -> Int] /\ NoTick \in Int
    BY <1>5 DEF Declared, NoTick
  <2>2. pf2 \in [Peer -> Int] /\ \A q \in Peer : pf2[q] \in {pf[q], NoTick}
    BY <1>1, <2>1
  <2> QED
    BY <1>5, <2>2 DEF Declared
<1>8. ComparedTo(K, p, cd2)
  <2>1. cd \in [Peer -> Int] /\ NoTick \in Int
    BY <1>5 DEF ComparedTo, NoTick
  <2>2. cd2 \in [Peer -> Int] /\ \A q \in Peer : cd2[q] \in {cd[q], NoTick}
    BY <1>2, <2>1
  <2> QED
    BY <1>5, <2>2 DEF ComparedTo
<1>9. n2 = [n EXCEPT !.dropped = gone, !.peers = left, !.gate = gate,
                     !.peerFinish = pf2, !.compared = cd2, !.pending = rest]
  BY <1>1, <1>2, <1>3, <1>4, <1>5 DEF ApplyDrop, Shape, NodeFields
<1>10. /\ Shape(n2) /\ n2.peerFinish = pf2 /\ n2.compared = cd2 /\ n2.pending = rest
       /\ \A f \in NodeFields \ {"dropped", "peers", "gate", "peerFinish", "compared", "pending"} : n2[f] = n[f]
  BY <1>5, <1>9 DEF Shape, NodeFields
<1>11. /\ n2.id = n.id /\ n2.kernel = n.kernel /\ n2.length = n.length
       /\ n2.lastSent = n.lastSent /\ n2.queue = n.queue /\ n2.drops = n.drops
       /\ n2.checkpoints = n.checkpoints /\ n2.finish = n.finish /\ n2.state = n.state
  BY <1>10 DEF NodeFields
<1> QED
  BY <1>6, <1>7, <1>8, <1>10, <1>11 DEF Upright

\* A drop that the relay announced, completed.
LEMMA GoingCompletes ==
  ASSUME NEW K, NEW L, Runs(K, L), NEW p \in Peer, NEW cut, Going(K, L, p, cut),
         NEW drop, drop.source \in Peer \ {p}, NEW cut2, cut2 = CompleteDrop(cut, drop)
  PROVE  Going(K, L, p, cut2)
<1>1. PICK o \in Peer : o = drop.source /\ o # p
  OBVIOUS
<1>2. PICK read, n : read = ReadEverythingFrom(cut, o) /\ n = read.node
  OBVIOUS
<1>3. Going(K, L, p, read)
  BY <1>1, <1>2, GoingReadsOut
<1>4. Upright(K, L, p, n) /\ n.state # "Finished"
  BY <1>2, <1>3 DEF Going
<1>5. PICK n2 : n2 = ApplyDrop(n, o)
  OBVIOUS
<1>6. Upright(K, L, p, n2) /\ n2.state # "Finished"
  BY <1>4, <1>5, UprightDrops
<1>7. PICK failed, done : failed = [read EXCEPT !.node = Fail(@, "InvalidArgument")] /\ done = [read EXCEPT !.node = n2]
  OBVIOUS
<1>8. Going(K, L, p, failed)
  BY <1>3, <1>7, GoingFails
<1>9. Going(K, L, p, done)
  BY <1>3, <1>6, <1>7, GoingWith
<1>10. cut2 \in {read, failed, done}
  BY <1>1, <1>2, <1>5, <1>7 DEF CompleteDrop, After, Refuse
<1> QED
  BY <1>3, <1>8, <1>9, <1>10

\* All of them, in order.
LEMMA GoingCompletesAll ==
  ASSUME NEW K, NEW L, Runs(K, L), NEW p \in Peer, NEW cut, Going(K, L, p, cut),
         NEW cut2, cut2 = CompleteDrops(cut)
  PROVE  Going(K, L, p, cut2)
<1>1. PICK n, drops : n = cut.node /\ drops = n.drops /\ Upright(K, L, p, n) /\ n.state # "Finished"
  BY DEF Going
<1>2. PICK n0, first : n0 = [n EXCEPT !.drops = <<>>] /\ first = [cut EXCEPT !.node = n0]
  OBVIOUS
<1>3. Awaited(p, drops) /\ Shape(n)
  BY <1>1 DEF Upright
<1>4. Awaited(p, <<>>)
  BY EmptyIsListed DEF Awaited
<1>5. Shape(n0) /\ n0.drops = <<>> /\ \A f \in NodeFields \ {"drops"} : n0[f] = n[f]
  BY <1>2, <1>3 DEF Shape, NodeFields
<1>6. Upright(K, L, p, n0) /\ n0.state # "Finished"
  BY <1>1, <1>4, <1>5 DEF Upright, NodeFields
<1>7. Going(K, L, p, first)
  BY <1>2, <1>6, GoingWith
<1>8. PICK len \in Nat : len = Len(drops) /\ DOMAIN drops = 1 .. len
  BY <1>3, ListedIs DEF Awaited
<1>9. PICK after : after = DropsCompleted(first, drops)
  OBVIOUS
<1>10. after[0] = first /\ \A i \in 1 .. len : after[i] = CompleteNext(after[i - 1], drops[i])
  <2>1. /\ DropsCompleted(first, drops)[0] = first
        /\ \A i \in 1 .. Len(drops) : DropsCompleted(first, drops)[i] = CompleteNext(DropsCompleted(first, drops)[i - 1], drops[i])
    BY <1>8, DropsCompletedIsAChain
  <2> QED
    BY <1>8, <1>9, <2>1
<1> DEFINE S == {i \in 0 .. len : Going(K, L, p, after[i])}
<1>11. 0 \in S
  BY <1>7, <1>10
<1>12. ASSUME NEW i \in 1 .. len, i - 1 \in S
       PROVE  i \in S
  <2>1. PICK before, drop, done : before = after[i - 1] /\ drop = drops[i] /\ done = CompleteDrop(before, drop)
    OBVIOUS
  <2>2. Going(K, L, p, before) /\ drop.source \in Peer \ {p}
    BY <1>3, <1>8, <1>12, <2>1 DEF Awaited
  <2>3. Going(K, L, p, done)
    BY <2>1, <2>2, GoingCompletes
  <2>4. after[i] \in {before, done}
    BY <1>10, <2>1 DEF CompleteNext, After
  <2>5. Going(K, L, p, after[i])
    BY <2>2, <2>3, <2>4
  <2> QED
    BY <1>12, <2>5
<1>13. Going(K, L, p, after[len])
  <2>1. \A i \in 0 .. len : i \in S
    <3> HIDE DEF S
    <3> QED
      BY <1>11, <1>12, Climbs
  <2> QED
    BY <2>1
<1>14. cut2 = DropsCompleted(first, drops)[Len(drops)]
  BY <1>1, <1>2 DEF CompleteDrops
<1> QED
  BY <1>8, <1>9, <1>13, <1>14

------------------------------------------------------------------------------
\* The relay drops a lost peer.
LEMMA GoingRelays ==
  ASSUME NEW K, NEW L, Runs(K, L), NEW p \in Peer, NEW cut, Going(K, L, p, cut), NEW o \in Peer, o # p,
         NEW cut2, cut2 = RelayDrops(cut, o)
  PROVE  Going(K, L, p, cut2)
<1>1. PICK read, turns : read = ReadEverythingFrom(cut, o) /\ turns = read.node.turnsFrom[o]
  OBVIOUS
<1>2. Going(K, L, p, read)
  BY <1>1, GoingReadsOut
<1>3. PICK drop : drop = Drop(o, turns)
  OBVIOUS
<1>4. Honest(K, L, p, drop)
  BY <1>3 DEF Drop, Honest, Kinds
<1>5. PICK told : told = Send(read, drop)
  OBVIOUS
<1>6. Going(K, L, p, told)
  BY <1>2, <1>4, <1>5, GoingSends
<1>7. PICK n, n2, done : n = told.node /\ n2 = ApplyDrop(n, o) /\ done = [told EXCEPT !.node = n2]
  OBVIOUS
<1>8. Upright(K, L, p, n) /\ n.state # "Finished"
  BY <1>6, <1>7 DEF Going
<1>9. Upright(K, L, p, n2) /\ n2.state # "Finished"
  BY <1>7, <1>8, UprightDrops
<1>10. Going(K, L, p, done)
  BY <1>6, <1>7, <1>9, GoingWith
<1>11. cut2 \in {read, told, done}
  BY <1>1, <1>3, <1>5, <1>7 DEF RelayDrops, After
<1> QED
  BY <1>2, <1>6, <1>10, <1>11

\* Whoever was lost.
LEMMA GoingLosesAll ==
  ASSUME NEW K, NEW L, Runs(K, L), NEW p \in Peer, NEW cut, Going(K, L, p, cut),
         NEW cut2, cut2 = HandleLostPeers(cut)
  PROVE  Going(K, L, p, cut2)
<1>1. PICK n, after : n = PeerCount /\ after = LossesHandled(cut)
  OBVIOUS
<1>2. /\ n \in Nat /\ Peer = 0 .. (n - 1)
      /\ after[0] = cut
      /\ \A i \in 1 .. n : after[i] = HandleLostNext(after[i - 1], i - 1)
  BY <1>1, PeersCounted, LossesHandledIsAChain
<1> DEFINE S == {i \in 0 .. n : Going(K, L, p, after[i])}
<1>3. 0 \in S
  BY <1>2
<1>4. ASSUME NEW i \in 1 .. n, i - 1 \in S
      PROVE  i \in S
  <2>1. PICK o \in Peer : o = i - 1
    BY <1>2
  <2>2. PICK before, failed, relayed : /\ before = after[i - 1] /\ Going(K, L, p, before)
                                       /\ failed = [before EXCEPT !.node = Fail(@, "Unavailable")]
                                       /\ relayed = RelayDrops(before, o)
    BY <1>4
  <2>3. before.node.id = p
    BY <2>2 DEF Going, Upright
  <2>4. Going(K, L, p, failed)
    BY <2>2, GoingFails
  <2>5. o # p => Going(K, L, p, relayed)
    BY <2>2, GoingRelays
  <2>6. PICK now : now = HandleLostPeer(before, o)
    OBVIOUS
  <2>7. \/ now = before
        \/ now = failed
        \/ o # p /\ now = relayed
    BY <2>2, <2>3, <2>6 DEF HandleLostPeer, Others
  <2>8. Going(K, L, p, now)
    BY <2>2, <2>4, <2>5, <2>7
  <2>9. after[i] \in {before, now}
    BY <1>2, <2>1, <2>2, <2>6 DEF HandleLostNext, After
  <2>10. Going(K, L, p, after[i])
    BY <2>2, <2>8, <2>9
  <2> QED
    BY <1>4, <2>10
<1>5. Going(K, L, p, after[n])
  <2>1. \A i \in 0 .. n : i \in S
    <3> HIDE DEF S
    <3> QED
      BY <1>2, <1>3, <1>4, Climbs
  <2> QED
    BY <1>2, <2>1
<1> QED
  BY <1>1, <1>5 DEF HandleLostPeers

\* A session that goes on stands.
LEMMA GoingStands ==
  ASSUME NEW K, NEW L, NEW p, NEW cut, Going(K, L, p, cut)
  PROVE  Stands(K, L, p, cut)
BY DEF Going, Stands, Settled

\* A session finishes only when it compared itself with every partner it has.
LEMMA FinishingStands ==
  ASSUME NEW K, NEW L, Runs(K, L), NEW p \in Peer, NEW cut, Going(K, L, p, cut),
         NEW cut2, cut2 = FinishOrHandleLosses(cut)
  PROVE  Stands(K, L, p, cut2)
<1>1. CASE FinishIsComplete(cut.node)
  <2>1. PICK n, links : /\ cut = [node |-> n, net |-> links] /\ n = cut.node /\ links = cut.net
                        /\ Upright(K, L, p, n) /\ n.state # "Finished" /\ NetOK(links) /\ NetHonest(K, L, links)
    BY DEF Going
  <2>2. PICK n2 : n2 = [n EXCEPT !.state = "Finished"]
    OBVIOUS
  <2>3. Shape(n) /\ n.id = p /\ n.state = "Finishing" /\ Declared(L, p, n.state, n.finish, n.peerFinish)
    BY <1>1, <2>1 DEF Upright, FinishIsComplete
  <2>4. Shape(n2) /\ n2.state = "Finished" /\ \A f \in NodeFields \ {"state"} : n2[f] = n[f]
    BY <2>2, <2>3 DEF Shape, NodeFields
  <2>5. /\ n2.id = n.id /\ n2.kernel = n.kernel /\ n2.length = n.length
        /\ n2.lastSent = n.lastSent /\ n2.queue = n.queue /\ n2.drops = n.drops
        /\ n2.checkpoints = n.checkpoints /\ n2.pending = n.pending /\ n2.compared = n.compared
        /\ n2.finish = n.finish /\ n2.peerFinish = n.peerFinish /\ n2.dropped = n.dropped
    BY <2>4 DEF NodeFields
  <2>6. Declared(L, p, n2.state, n2.finish, n2.peerFinish)
    BY <2>3, <2>4, <2>5 DEF Declared
  <2>7. Upright(K, L, p, n2)
    BY <2>1, <2>4, <2>5, <2>6 DEF Upright
  <2>8. Settled(p, n2)
    BY <1>1, <2>1, <2>3, <2>5 DEF Settled, FinishIsComplete
  <2>9. cut2 = [node |-> n2, net |-> links]
    BY <1>1, <2>1, <2>2 DEF FinishOrHandleLosses
  <2>10. cut2.node = n2 /\ cut2.net = links
    BY <2>9
  <2> QED
    BY <2>1, <2>7, <2>8, <2>10 DEF Stands
<1>2. CASE ~ FinishIsComplete(cut.node)
  <2>1. PICK done : done = HandleLostPeers(cut)
    OBVIOUS
  <2>2. Going(K, L, p, done)
    BY <2>1, GoingLosesAll
  <2>3. Going(K, L, p, EndIfFailed(done))
    BY <2>2, GoingEnds
  <2>4. cut2 = EndIfFailed(done)
    BY <1>2, <2>1 DEF FinishOrHandleLosses
  <2> QED
    BY <2>3, <2>4, GoingStands
<1> QED
  BY <1>1, <1>2

\* The poll of a session that goes on.
LEMMA PollRunningStands ==
  ASSUME NEW K, NEW L, Runs(K, L), NEW p \in Peer, NEW cut, Going(K, L, p, cut),
         NEW cut2, cut2 = PollRunning(cut)
  PROVE  Stands(K, L, p, cut2)
<1>1. CASE Overrun(cut.node)
  <2>1. PICK failed : failed = [cut EXCEPT !.node = Fail(@, "InvalidArgument")]
    OBVIOUS
  <2>2. Going(K, L, p, failed)
    BY <2>1, GoingFails
  <2>3. Going(K, L, p, End(failed))
    BY <2>2, GoingEnds
  <2>4. cut2 = End(failed)
    BY <1>1, <2>1 DEF PollRunning
  <2> QED
    BY <2>3, <2>4, GoingStands
<1>2. CASE ~ Overrun(cut.node)
  <2>1. PICK read : read = InboxesRead(cut)[PeerCount]
    OBVIOUS
  <2>2. Going(K, L, p, read)
    BY <2>1, GoingReadsAll
  <2>3. PICK completed : completed = CompleteDrops(read)
    OBVIOUS
  <2>4. Going(K, L, p, completed)
    BY <2>2, <2>3, GoingCompletesAll
  <2>5. Going(K, L, p, EndIfFailed(completed))
    BY <2>4, GoingEnds
  <2>6. PICK settled : settled = After(read, EndIfFailed(completed))
    OBVIOUS
  <2>7. Going(K, L, p, settled)
    BY <2>2, <2>5, <2>6 DEF After
  <2>8. PICK done : done = FinishOrHandleLosses(settled)
    OBVIOUS
  <2>9. Stands(K, L, p, done) /\ Stands(K, L, p, settled)
    <3>1. Stands(K, L, p, done)
      BY <2>7, <2>8, FinishingStands
    <3>2. Stands(K, L, p, settled)
      BY <2>7, GoingStands
    <3> QED
      BY <3>1, <3>2
  <2>10. cut2 \in {settled, done}
    BY <1>2, <2>1, <2>3, <2>6, <2>8 DEF PollRunning, After
  <2> QED
    BY <2>9, <2>10
<1> QED
  BY <1>1, <1>2

\* Every poll, with any messages due.
LEMMA PollStands ==
  ASSUME NEW K, NEW L, Runs(K, L), NEW p \in Peer, NEW n, NEW links, Upright(K, L, p, n), Settled(p, n),
         NetOK(links), NetHonest(K, L, links), NEW due \in DueChoices(links, p),
         NEW cut, cut = [node |-> n, net |-> links], NEW cut2, cut2 = PollSession(cut, due)
  PROVE  Stands(K, L, p, cut2)
<1>1. n.id = p /\ cut.node = n /\ cut.net = links
  BY DEF Upright
<1>2. PICK after : after = Pump(links, p, due)
  OBVIOUS
<1>3. NetOK(after) /\ Moves(links, after)
  <2>1. DueOK(links, p, due)
    BY DueIsOK
  <2>2. /\ NetOK(Pump(links, p, due)) /\ Moves(links, Pump(links, p, due))
        /\ Pump(links, p, due).lost = links.lost
    BY <2>1, PumpMoves
  <2> QED
    BY <1>2, <2>2
<1>4. PICK pumped : pumped = [node |-> n, net |-> after]
  OBVIOUS
<1>5. pumped = [cut EXCEPT !.net = Pump(@, cut.node.id, due)]
  BY <1>1, <1>2, <1>4
<1>6. CASE n.state = "Ended"
  <2>1. cut2 = [cut EXCEPT !.node = Fail(@, "Unavailable")]
    BY <1>1, <1>6 DEF PollSession
  <2>2. Going(K, L, p, cut)
    BY <1>6, GoingOn
  <2>3. Going(K, L, p, cut2)
    BY <2>1, <2>2, GoingFails
  <2> QED
    BY <2>3, GoingStands
<1>7. CASE n.state = "Finished"
  <2>1. PICK empty : empty = Emptied(after, p)
    OBVIOUS
  <2>2. NetOK(empty) /\ Moves(after, empty)
    BY <1>3, <2>1, EmptiedMoves
  <2>3. NetHonest(K, L, empty)
    BY <1>3, <2>2, HonestMoves
  <2>4. cut2 = [pumped EXCEPT !.net = Emptied(@, p)]
    BY <1>1, <1>5, <1>7 DEF PollSession
  <2>5. cut2 = [node |-> n, net |-> empty]
    BY <1>4, <2>1, <2>4
  <2>6. cut2.node = n /\ cut2.net = empty
    BY <2>5
  <2> QED
    BY <2>2, <2>3, <2>6 DEF Stands
<1>8. CASE n.state \notin {"Ended", "Finished"}
  <2>1. cut2 = PollRunning(pumped)
    BY <1>1, <1>5, <1>8 DEF PollSession
  <2>2. Going(K, L, p, pumped)
    BY <1>3, <1>4, <1>8, GoingMoved
  <2> QED
    BY <2>1, <2>2, PollRunningStands
<1> QED
  BY <1>6, <1>7, <1>8

------------------------------------------------------------------------------
\* A draft of a turn by a peer that is upright.
DraftOf(K, L, p, n, draft) ==
  /\ draft = [node |-> draft.node, commands |-> draft.commands]
  /\ Upright(K, L, p, draft.node) /\ draft.node.state = n.state
  /\ Listed(draft.commands) /\ \A i \in DOMAIN draft.commands : draft.commands[i] \in Stamped

\* One command more of a turn is drafted, or none.
LEMMA UprightSubmits ==
  ASSUME NEW K, NEW L, NEW p \in Peer, NEW n0, NEW draft, DraftOf(K, L, p, n0, draft),
         NEW cell, NEW now, now = SubmitOwn(draft, cell)
  PROVE  DraftOf(K, L, p, n0, now)
<1>0. PICK n, s : n = draft.node /\ s = draft.commands
  OBVIOUS
<1>1. PICK q, c : q = n.queue /\ c = Command(n.lastSent + 1, p, q.next[p], cell)
  OBVIOUS
<1>2. /\ Shape(n) /\ n.id = p /\ QueueShape(q) /\ n.lastSent \in Nat \cup {-1}
      /\ draft = [node |-> n, commands |-> s] /\ Upright(K, L, p, n) /\ n.state = n0.state
      /\ Listed(s) /\ \A i \in DOMAIN s : s[i] \in Stamped
  BY <1>0, <1>1 DEF Upright, DraftOf
<1>3. ASSUME NEW n2, Upright(K, L, p, n2), n2.state = n.state,
             NEW s2, Listed(s2), \A i \in DOMAIN s2 : s2[i] \in Stamped,
             now = [node |-> n2, commands |-> s2]
      PROVE  DraftOf(K, L, p, n0, now)
  <2>1. now.node = n2 /\ now.commands = s2 /\ now = [node |-> now.node, commands |-> now.commands]
    BY <1>3
  <2> QED
    BY <1>2, <1>3, <2>1 DEF DraftOf
<1>4. CASE now = draft
  BY <1>4
<1>5. CASE now = [draft EXCEPT !.node = Fail(@, "Exhausted")]
  <2>1. PICK n2 : n2 = Fail(n, "Exhausted")
    OBVIOUS
  <2>2. now = [node |-> n2, commands |-> s]
    BY <1>2, <1>5, <2>1
  <2>3. Upright(K, L, p, Fail(n, "Exhausted")) /\ Fail(n, "Exhausted").state = n.state
    BY <1>2, UprightFails
  <2>4. Upright(K, L, p, n2) /\ n2.state = n.state
    BY <2>1, <2>3
  <2> QED
    BY <1>2, <1>3, <2>2, <2>4
<1>6. CASE /\ SubmitStatus(q, cell, InvalidCell) = "Ok"
           /\ now = [draft EXCEPT !.node.queue = SubmitStamped(@, c), !.commands = Append(@, c)]
  <2>1. c \in Cmd /\ c \in Stamped
    <3>1. cell \in Cell
      BY <1>6 DEF SubmitStatus
    <3>2. cell \in Int
      BY <3>1, SourcesAssumption
    <3>3. n.lastSent + 1 \in Nat /\ q.next[p] \in Nat
      BY <1>2 DEF QueueShape
    <3> QED
      BY <1>1, <3>1, <3>2, <3>3 DEF Command, Cmd, Stamped
  <2>2. PICK q2, s2 : q2 = SubmitStamped(q, c) /\ s2 = Append(s, c)
    OBVIOUS
  <2>3. PICK n2 : n2 = [n EXCEPT !.queue = q2]
    OBVIOUS
  <2>4. /\ QueueShape(q2)
        /\ q.pending \subseteq q2.pending
        /\ Cardinality(q.pending) <= Cardinality(q2.pending)
        /\ \A r \in Peer \ {c.source} : q2.next[r] = q.next[r]
        /\ q2.next[c.source] = IF c.sequence + 1 > q.next[c.source] THEN c.sequence + 1 ELSE q.next[c.source]
        /\ (\A e \in q.pending : e[1] # c) => q2.pending = q.pending \cup {<<c, 1>>}
    BY <1>2, <2>1, <2>2, StampedIs
  <2>5. Alike(n, n2, Loose \cup {"state", "queue"}) /\ n2.state = n.state /\ n2.queue = q2
    BY <1>2, <2>3 DEF Alike, Shape, NodeFields, Loose
  <2>6. Upright(K, L, p, n2)
    BY <1>2, <2>4, <2>5, UprightAlike
  <2>7. /\ Listed(s2) /\ Len(s2) = Len(s) + 1 /\ DOMAIN s2 = 1 .. (Len(s) + 1)
        /\ \A i \in 1 .. Len(s) : s2[i] = s[i]
        /\ s2[Len(s) + 1] = c
    BY <1>2, <2>2, AppendIs
  <2>8. PICK len \in Nat : len = Len(s) /\ DOMAIN s = 1 .. len
    BY <1>2, ListedIs
  <2>9. \A i \in 1 .. (len + 1) : i \in 1 .. len \/ i = len + 1
    BY <2>8
  <2>10. \A i \in DOMAIN s2 : s2[i] \in Stamped
    BY <1>2, <2>1, <2>7, <2>8, <2>9
  <2>11. now = [node |-> n2, commands |-> s2]
    BY <1>1, <1>2, <1>6, <2>2, <2>3 DEF Shape, NodeFields
  <2> QED
    BY <1>3, <2>5, <2>6, <2>7, <2>10, <2>11
<1> QED
  BY <1>0, <1>1, <1>2, <1>4, <1>5, <1>6 DEF SubmitOwn

\* So is all of it.
LEMMA UprightDrafts ==
  ASSUME NEW K, NEW L, NEW p \in Peer, NEW n, Upright(K, L, p, n), NEW cells, Len(cells) \in Nat,
         NEW draft, draft = Drafted(n, cells)[Len(cells)]
  PROVE  DraftOf(K, L, p, n, draft)
<1>1. PICK len \in Nat : len = Len(cells)
  OBVIOUS
<1>2. PICK after : after = Drafted(n, cells)
  OBVIOUS
<1>3. /\ after[0] = [node |-> n, commands |-> <<>>]
      /\ \A i \in 1 .. len : after[i] = SubmitOwn(after[i - 1], cells[i])
  <2>1. /\ Drafted(n, cells)[0] = [node |-> n, commands |-> <<>>]
        /\ \A i \in 1 .. Len(cells) : Drafted(n, cells)[i] = SubmitOwn(Drafted(n, cells)[i - 1], cells[i])
    BY DraftedIsAChain
  <2> QED
    BY <1>1, <1>2, <2>1
<1> DEFINE S == {i \in 0 .. len : DraftOf(K, L, p, n, after[i])}
<1>4. 0 \in S
  <2>1. after[0].node = n /\ after[0].commands = <<>> /\ after[0] = [node |-> after[0].node, commands |-> after[0].commands]
    BY <1>3
  <2>2. DraftOf(K, L, p, n, after[0])
    BY <2>1, EmptyIsListed DEF DraftOf
  <2> QED
    BY <2>2
<1>5. ASSUME NEW i \in 1 .. len, i - 1 \in S
      PROVE  i \in S
  <2>1. PICK before, now, cell : before = after[i - 1] /\ now = after[i] /\ cell = cells[i]
    OBVIOUS
  <2>2. DraftOf(K, L, p, n, before) /\ now = SubmitOwn(before, cell)
    BY <1>3, <1>5, <2>1
  <2>3. DraftOf(K, L, p, n, now)
    BY <2>2, UprightSubmits
  <2>4. DraftOf(K, L, p, n, after[i])
    BY <2>1, <2>3
  <2> QED
    BY <1>5, <2>4
<1>6. DraftOf(K, L, p, n, after[len])
  <2>1. \A i \in 0 .. len : i \in S
    <3> HIDE DEF S
    <3> QED
      BY <1>4, <1>5, Climbs
  <2> QED
    BY <2>1
<1> QED
  BY <1>1, <1>2, <1>6

\* A turn is sent, and marked here.
LEMMA GoingTurns ==
  ASSUME NEW K, NEW L, NEW p \in Peer, NEW cut, Going(K, L, p, cut), NEW t \in Nat,
         NEW s, Listed(s), \A i \in DOMAIN s : s[i] \in Stamped,
         NEW cut2, cut2 = SendTurn(cut, t, s)
  PROVE  Going(K, L, p, cut2)
<1>1. cut.node.id = p
  BY DEF Going, Upright
<1>2. PICK message : message = Turn(p, t, s)
  OBVIOUS
<1>3. message = Turn(message.source, message.tick, message.commands) /\ message.type = "Turn" /\ message.commands = s
  BY <1>2 DEF Turn
<1>4. Honest(K, L, p, message)
  BY <1>3 DEF Honest, Kinds
<1>5. PICK sent : sent = Send(cut, message)
  OBVIOUS
<1>6. Going(K, L, p, sent)
  BY <1>4, <1>5, GoingSends
<1>7. PICK n, links : /\ sent = [node |-> n, net |-> links] /\ n = sent.node
                      /\ Upright(K, L, p, n) /\ n.state # "Finished"
  BY <1>6 DEF Going
<1>8. PICK last, gate : last = Later(n.lastSent, t) /\ gate = MarkComplete(n.gate, p, t)
  OBVIOUS
<1>0. PICK n2 : n2 = [n EXCEPT !.lastSent = last, !.gate = gate]
  OBVIOUS
<1>9. Shape(n) /\ n.id = p /\ n.lastSent \in Nat \cup {-1}
  BY <1>7 DEF Upright
<1>10. last \in Nat \cup {-1}
  BY <1>8, <1>9 DEF Later
<1>11. Shape(n2) /\ n2.lastSent = last /\ \A f \in NodeFields \ {"lastSent", "gate"} : n2[f] = n[f]
  BY <1>0, <1>9 DEF Shape, NodeFields
<1>12. /\ n2.id = n.id /\ n2.kernel = n.kernel /\ n2.length = n.length
       /\ n2.queue = n.queue /\ n2.drops = n.drops /\ n2.state = n.state
       /\ n2.checkpoints = n.checkpoints /\ n2.pending = n.pending /\ n2.compared = n.compared
       /\ n2.finish = n.finish /\ n2.peerFinish = n.peerFinish
  BY <1>11 DEF NodeFields
<1>13. Upright(K, L, p, n2) /\ n2.state # "Finished"
  BY <1>7, <1>10, <1>11, <1>12 DEF Upright
<1>14. PICK marked : marked = [sent EXCEPT !.node = n2]
  OBVIOUS
<1>15. Going(K, L, p, marked)
  BY <1>6, <1>13, <1>14, GoingWith
<1>16. marked = [sent EXCEPT !.node.lastSent = Later(@, t), !.node.gate = MarkComplete(@, p, t)]
  BY <1>0, <1>7, <1>8, <1>9, <1>14 DEF Shape, NodeFields
<1>17. PICK late, idle : /\ late = [cut EXCEPT !.node = Fail(@, "InvalidArgument")]
                         /\ idle = [cut EXCEPT !.node = Fail(@, "Unavailable")]
  OBVIOUS
<1>18. Going(K, L, p, late) /\ Going(K, L, p, idle)
  <2>1. Going(K, L, p, late)
    BY <1>17, GoingFails
  <2>2. Going(K, L, p, idle)
    BY <1>17, GoingFails
  <2> QED
    BY <2>1, <2>2
<1>19. cut2 \in {late, idle, sent, marked}
  BY <1>1, <1>2, <1>5, <1>16, <1>17 DEF SendTurn, After
<1> QED
  BY <1>6, <1>15, <1>18, <1>19

\* A turn is announced.
LEMMA GoingAnnounces ==
  ASSUME Works, NEW K, NEW L, NEW p \in Peer, NEW cut, Going(K, L, p, cut),
         NEW cut2, cut2 = AnnounceTurn(cut)
  PROVE  Going(K, L, p, cut2)
<1>1. PICK n : n = cut.node /\ Upright(K, L, p, n) /\ n.state # "Finished"
  BY DEF Going
<1>2. n.id = p /\ n.lastSent \in Nat \cup {-1}
  BY <1>1 DEF Upright
<1>3. PICK t \in Nat : t = n.lastSent + 1
  BY <1>2
<1>4. PICK cells : cells = Cells(p, t) /\ Len(cells) \in Nat
  BY CellsAreListed
<1>5. PICK draft : draft = Drafted(n, cells)[Len(cells)]
  OBVIOUS
<1>6. PICK n2, s2 : /\ n2 = draft.node /\ s2 = draft.commands
                    /\ Upright(K, L, p, n2) /\ n2.state = n.state
                    /\ Listed(s2) /\ \A i \in DOMAIN s2 : s2[i] \in Stamped
  <2>1. DraftOf(K, L, p, n, draft)
    BY <1>1, <1>4, <1>5, UprightDrafts
  <2> QED
    BY <2>1 DEF DraftOf
<1>7. PICK drafted : drafted = [cut EXCEPT !.node = n2]
  OBVIOUS
<1>8. Going(K, L, p, drafted)
  BY <1>1, <1>6, <1>7, GoingWith
<1>9. PICK sent : sent = SendTurn(drafted, t, s2)
  OBVIOUS
<1>10. Going(K, L, p, sent)
  BY <1>6, <1>8, <1>9, GoingTurns
<1>11. cut2 \in {drafted, sent}
  BY <1>1, <1>2, <1>3, <1>4, <1>5, <1>6, <1>7, <1>9 DEF AnnounceTurn, After
<1> QED
  BY <1>8, <1>10, <1>11

\* A peer declares the finish of the run it was told to make, unless another was declared.
LEMMA GoingFinishes ==
  ASSUME NEW K, NEW L, Runs(K, L), NEW p \in Peer, NEW cut, Going(K, L, p, cut), NEW last, last = L[p] - 1,
         NEW cut2, cut2 = FinishSession(cut, last)
  PROVE  Going(K, L, p, cut2)
<1>1. PICK n, links : /\ cut = [node |-> n, net |-> links] /\ n = cut.node
                      /\ Upright(K, L, p, n) /\ n.state # "Finished"
  BY DEF Going
<1>2. Shape(n) /\ Declared(L, p, n.state, n.finish, n.peerFinish)
  BY <1>1 DEF Upright
<1>3. PICK message : message = FinishAt(last)
  OBVIOUS
<1>4. Honest(K, L, p, message)
  <2>1. message.type = "Finish" /\ message.tick = last
    BY <1>3 DEF FinishAt
  <2> QED
    BY <2>1 DEF Honest, Kinds
<1>5. PICK sent : sent = Send(cut, message)
  OBVIOUS
<1>6. Going(K, L, p, sent)
  BY <1>4, <1>5, GoingSends
<1>7. PICK m, after : /\ sent = [node |-> m, net |-> after] /\ m = sent.node
                      /\ Upright(K, L, p, m) /\ m.state # "Finished"
  BY <1>6 DEF Going
<1>8. m.peerFinish = n.peerFinish
  <2>1. m \in {n, Fail(n, "Unavailable")}
    BY <1>1, <1>5, <1>7 DEF Send
  <2>2. Fail(n, "Unavailable").peerFinish = n.peerFinish
    BY <1>2 DEF Fail, Shape, NodeFields
  <2> QED
    BY <2>1, <2>2
<1>9. PICK late, idle : /\ late = [cut EXCEPT !.node = Fail(@, "InvalidArgument")]
                        /\ idle = [cut EXCEPT !.node = Fail(@, "Unavailable")]
  OBVIOUS
<1>10. Going(K, L, p, late) /\ Going(K, L, p, idle)
  <2>1. Going(K, L, p, late)
    BY <1>9, GoingFails
  <2>2. Going(K, L, p, idle)
    BY <1>9, GoingFails
  <2> QED
    BY <2>1, <2>2
<1>11. Going(K, L, p, End(late))
  BY <1>10, GoingEnds
<1>12. PICK m2 : m2 = [m EXCEPT !.finish = last, !.state = "Finishing"]
  OBVIOUS
<1>0. PICK done : done = [sent EXCEPT !.node = m2]
  OBVIOUS
<1>13. done = [sent EXCEPT !.node.finish = last, !.node.state = "Finishing"]
  <2>1. Shape(m)
    BY <1>7 DEF Upright
  <2> QED
    BY <1>0, <1>7, <1>12, <2>1 DEF Shape, NodeFields
<1>14. ASSUME \A q \in Peer : n.peerFinish[q] \in {NoTick, last}
       PROVE  Going(K, L, p, done)
  <2>1. Shape(m) /\ Declared(L, p, m.state, m.finish, m.peerFinish)
    BY <1>7 DEF Upright
  <2>2. Shape(m2) /\ m2.finish = last /\ m2.state = "Finishing" /\ \A f \in NodeFields \ {"finish", "state"} : m2[f] = m[f]
    BY <1>12, <2>1 DEF Shape, NodeFields
  <2>3. /\ m2.id = m.id /\ m2.kernel = m.kernel /\ m2.length = m.length
        /\ m2.lastSent = m.lastSent /\ m2.queue = m.queue /\ m2.drops = m.drops
        /\ m2.checkpoints = m.checkpoints /\ m2.pending = m.pending /\ m2.compared = m.compared
        /\ m2.peerFinish = m.peerFinish
    BY <2>2 DEF NodeFields
  <2>4. Declared(L, p, m2.state, m2.finish, m2.peerFinish)
    BY <1>8, <1>14, <2>1, <2>2, <2>3 DEF Declared
  <2>5. Upright(K, L, p, m2) /\ m2.state # "Finished"
    BY <1>7, <2>2, <2>3, <2>4 DEF Upright
  <2> QED
    BY <1>0, <1>6, <2>5, GoingWith
<1>15. \/ cut2 \in {idle, late, End(late), sent}
       \/ (\A q \in Peer : n.peerFinish[q] \in {NoTick, last}) /\ cut2 = done
  BY <1>1, <1>3, <1>5, <1>9, <1>13 DEF FinishSession, After
<1> QED
  BY <1>6, <1>10, <1>11, <1>14, <1>15

------------------------------------------------------------------------------
\* Ticks may have run since, and left the worlds before them as they were.
Lasting(K, K2) ==
  \A q \in Peer :
    /\ K[q].tick \in Nat /\ K2[q].tick \in Nat /\ K[q].tick <= K2[q].tick
    /\ \A t \in 0 .. K[q].tick : Until(K2[q].world, t) = Until(K[q].world, t)

\* What was vouched for still is.
LEMMA VouchedLasts ==
  ASSUME NEW K, NEW K2, Lasting(K, K2), NEW q \in Peer, NEW check, Vouched(K[q], check)
  PROVE  Vouched(K2[q], check)
<1>1. PICK a \in Nat, b \in Nat : a = K[q].tick /\ b = K2[q].tick /\ a <= b
  BY DEF Lasting
<1>0. PICK t : t = check.tick
  OBVIOUS
<1>2. t \in 0 .. (a - 1) /\ check.hash = Until(K[q].world, t + 1)
  BY <1>0, <1>1 DEF Vouched
<1>3. t \in 0 .. (b - 1) /\ t + 1 \in 0 .. a
  BY <1>1, <1>2
<1>4. Until(K2[q].world, t + 1) = Until(K[q].world, t + 1)
  BY <1>1, <1>3 DEF Lasting
<1> QED
  BY <1>0, <1>1, <1>2, <1>3, <1>4 DEF Vouched

\* Two that were in the same world after a tick still were.
LEMMA SameLasts ==
  ASSUME NEW K, NEW K2, Lasting(K, K2), NEW p \in Peer, NEW q \in Peer, NEW t, SameAfter(K, p, q, t)
  PROVE  SameAfter(K2, p, q, t)
<1>1. PICK a \in Nat, b \in Nat, a2 \in Nat, b2 \in Nat :
        /\ a = K[p].tick /\ b = K[q].tick /\ a2 = K2[p].tick /\ b2 = K2[q].tick
        /\ a <= a2 /\ b <= b2
  BY DEF Lasting
<1>2. /\ t \in Nat /\ t < a /\ t < b /\ t % Interval = 0
      /\ Until(K[p].world, t + 1) = Until(K[q].world, t + 1)
  BY <1>1 DEF SameAfter
<1>3. t < a2 /\ t < b2 /\ t + 1 \in 0 .. a /\ t + 1 \in 0 .. b
  BY <1>1, <1>2
<1>4. /\ Until(K2[p].world, t + 1) = Until(K[p].world, t + 1)
      /\ Until(K2[q].world, t + 1) = Until(K[q].world, t + 1)
  BY <1>1, <1>3 DEF Lasting
<1> QED
  BY <1>1, <1>2, <1>3, <1>4 DEF SameAfter

\* What is under way stays honest.
LEMMA HonestLasts ==
  ASSUME NEW K, NEW K2, Lasting(K, K2), NEW L, NEW links, NetHonest(K, L, links)
  PROVE  NetHonest(K2, L, links)
<1>1. ASSUME NEW p \in Peer, NEW o \in Peer, p # o, NEW s \in Slots(links, p, o)
      PROVE  Honest(K2, L, o, MessageAt(links, p, o, s))
  <2>1. PICK m : m = MessageAt(links, p, o, s)
    OBVIOUS
  <2>2. Honest(K, L, o, m)
    BY <1>1, <2>1 DEF NetHonest
  <2>3. m.type = "HashCheck" => Vouched(K2[o], m)
    <3>1. m.type = "HashCheck" => Vouched(K[o], m)
      BY <2>2 DEF Honest
    <3> QED
      BY <3>1, VouchedLasts
  <2>4. Honest(K2, L, o, m)
    BY <2>2, <2>3 DEF Honest
  <2> QED
    BY <2>1, <2>4
<1> QED
  BY <1>1 DEF NetHonest

\* A peer stays upright when ticks run, its own or another's.
LEMMA UprightLasts ==
  ASSUME NEW K, NEW K2, Lasting(K, K2), NEW L, NEW p \in Peer, NEW n, Upright(K, L, p, n),
         NEW n2, Alike(n, n2, {"kernel", "queue", "gate"}), n2.kernel = K2[p], QueueShape(n2.queue)
  PROVE  Upright(K2, L, p, n2)
<1>1. /\ Shape(n2) /\ n2.id = n.id /\ n2.length = n.length
      /\ n2.lastSent = n.lastSent /\ n2.drops = n.drops /\ n2.checkpoints = n.checkpoints
      /\ n2.pending = n.pending /\ n2.compared = n.compared /\ n2.state = n.state
      /\ n2.finish = n.finish /\ n2.peerFinish = n.peerFinish
  BY DEF Alike, NodeFields
<1>2. Recorded(K2[p], n.checkpoints)
  <2>1. Recorded(K[p], n.checkpoints)
    BY DEF Upright
  <2> QED
    BY <2>1, VouchedLasts DEF Recorded
<1>3. HeldFor(K2, n.pending)
  <2>1. HeldFor(K, n.pending)
    BY DEF Upright
  <2> QED
    BY <2>1, VouchedLasts DEF HeldFor
<1>4. ComparedTo(K2, p, n.compared)
  <2>1. ComparedTo(K, p, n.compared)
    BY DEF Upright
  <2> QED
    BY <2>1, SameLasts DEF ComparedTo
<1> QED
  BY <1>1, <1>2, <1>3, <1>4 DEF Upright

------------------------------------------------------------------------------
\* One held check more is answered, with this peer's own of the tick.
LEMMA UprightAnswers ==
  ASSUME NEW K, NEW L, Runs(K, L), NEW p \in Peer, NEW n, Upright(K, L, p, n), n.state # "Finished",
         NEW mine, Vouched(K[p], mine), mine.tick % Interval = 0,
         NEW check, check.source \in Peer, Vouched(K[check.source], check),
         NEW n2, n2 = Answer(n, check, mine)
  PROVE  Upright(K, L, p, n2) /\ n2.state # "Finished"
<1>1. CASE check.tick # mine.tick \/ ~ Succeeded(n)
  <2>1. PICK longer : longer = Append(n.pending, check)
    OBVIOUS
  <2>2. HeldFor(K, n.pending) /\ Shape(n)
    BY DEF Upright
  <2>3. HeldFor(K, longer)
    BY <2>1, <2>2, HeldAppended
  <2>4. n2 = [n EXCEPT !.pending = longer]
    BY <1>1, <2>1 DEF Answer
  <2>5. Shape(n2) /\ n2.pending = longer /\ \A f \in NodeFields \ {"pending"} : n2[f] = n[f]
    BY <2>2, <2>4 DEF Shape, NodeFields
  <2> QED
    BY <2>3, <2>5 DEF Upright, NodeFields
<1>2. CASE ~ (check.tick # mine.tick \/ ~ Succeeded(n))
  <2>1. PICK o \in Peer : o = check.source
    OBVIOUS
  <2>2. mine.tick = check.tick /\ check.tick % Interval = 0 /\ Vouched(K[o], check)
    BY <1>2, <2>1
  <2>3. n2 = CompareCheck(n, o, check, mine)
    BY <1>2, <2>1 DEF Answer
  <2>4. Upright(K, L, p, n2) /\ n2.state = n.state
    BY <2>2, <2>3, UprightCompares
  <2> QED
    BY <2>4
<1> QED
  BY <1>1, <1>2

\* The held checks are answered in order.
LEMMA AnsweredInOrder ==
  ASSUME NEW n, NEW mine, NEW held, held = n.pending, NEW len \in Nat, len = Len(held),
         NEW after, after = Answered(n, mine)
  PROVE  /\ after[0] = [n EXCEPT !.pending = <<>>]
         /\ \A i \in 1 .. len : after[i] = Answer(after[i - 1], held[i], mine)
<1>1. Len(n.pending) \in Nat
  OBVIOUS
<1>2. /\ Answered(n, mine)[0] = [n EXCEPT !.pending = <<>>]
      /\ \A i \in 1 .. Len(n.pending) : Answered(n, mine)[i] = Answer(Answered(n, mine)[i - 1], n.pending[i], mine)
  BY <1>1, AnsweredIsAChain
<1> QED
  BY <1>2

\* So are all of them.
LEMMA UprightAnswersAll ==
  ASSUME NEW K, NEW L, Runs(K, L), NEW p \in Peer, NEW n, Upright(K, L, p, n), n.state # "Finished",
         NEW mine, Vouched(K[p], mine), mine.tick % Interval = 0,
         NEW n2, n2 = AnswerPending(n, mine)
  PROVE  Upright(K, L, p, n2) /\ n2.state # "Finished"
<1>1. PICK held : held = n.pending
  OBVIOUS
<1>2. HeldFor(K, held) /\ Shape(n)
  BY <1>1 DEF Upright
<1>3. PICK len \in Nat : len = Len(held) /\ DOMAIN held = 1 .. len
  BY <1>2, ListedIs DEF HeldFor
<1>4. PICK after : after = Answered(n, mine)
  OBVIOUS
<1>5. /\ after[0] = [n EXCEPT !.pending = <<>>]
      /\ \A i \in 1 .. len : after[i] = Answer(after[i - 1], held[i], mine)
  BY <1>1, <1>3, <1>4, AnsweredInOrder
<1> DEFINE Good(i) == Upright(K, L, p, after[i]) /\ after[i].state # "Finished"
           S == {i \in 0 .. len : Good(i)}
<1>6. 0 \in S
  <2>1. PICK m : m = after[0]
    OBVIOUS
  <2>2. Shape(m) /\ m.pending = <<>> /\ \A f \in NodeFields \ {"pending"} : m[f] = n[f]
    BY <1>2, <1>5, <2>1 DEF Shape, NodeFields
  <2>3. HeldFor(K, <<>>)
    BY EmptyIsListed DEF HeldFor
  <2>4. Upright(K, L, p, m) /\ m.state # "Finished"
    BY <2>2, <2>3 DEF Upright, NodeFields
  <2>5. Good(0)
    BY <2>1, <2>4
  <2> QED
    BY <2>5
<1>7. ASSUME NEW i \in 1 .. len, i - 1 \in S
      PROVE  i \in S
  <2>1. PICK before, check, now : before = after[i - 1] /\ check = held[i] /\ now = after[i]
    OBVIOUS
  <2>2. Upright(K, L, p, before) /\ before.state # "Finished"
    BY <1>7, <2>1
  <2>3. check.source \in Peer /\ Vouched(K[check.source], check)
    BY <1>2, <1>3, <2>1 DEF HeldFor
  <2>4. now = Answer(before, check, mine)
    BY <1>5, <2>1
  <2>5. Upright(K, L, p, now) /\ now.state # "Finished"
    BY <2>2, <2>3, <2>4, UprightAnswers
  <2>6. Good(i)
    BY <2>1, <2>5
  <2> QED
    BY <1>7, <2>6
<1>8. Good(len)
  <2>1. \A i \in 0 .. len : i \in S
    <3> HIDE DEF S
    <3> QED
      BY <1>6, <1>7, Climbs
  <2> QED
    BY <2>1
<1> QED
  BY <1>1, <1>3, <1>4, <1>8 DEF AnswerPending

\* Of its own checks a peer keeps the last ones.
LEMMA RecordedIsKept ==
  ASSUME NEW k, NEW checks, Recorded(k, checks), NEW mine, Vouched(k, mine),
         NEW all, all = Append(checks, mine),
         NEW kept, kept = SubSeq(all, Later(1, Len(all) - CheckpointsKept + 1), Len(all))
  PROVE  Recorded(k, kept)
<1>1. Listed(checks)
  BY DEF Recorded
<1>2. PICK m \in Nat : m = Len(checks) /\ DOMAIN checks = 1 .. m
  BY <1>1, ListedIs
<1>3. /\ Listed(all) /\ Len(all) = m + 1 /\ DOMAIN all = 1 .. (m + 1)
      /\ \A i \in 1 .. m : all[i] = checks[i]
      /\ all[m + 1] = mine
  <2>1. /\ Listed(Append(checks, mine))
        /\ Len(Append(checks, mine)) = Len(checks) + 1
        /\ DOMAIN Append(checks, mine) = 1 .. (Len(checks) + 1)
        /\ \A i \in 1 .. Len(checks) : Append(checks, mine)[i] = checks[i]
        /\ Append(checks, mine)[Len(checks) + 1] = mine
    BY <1>1, AppendIs
  <2> QED
    BY <1>2, <2>1
<1>4. \A i \in 1 .. (m + 1) : Vouched(k, all[i])
  <2>1. \A i \in 1 .. (m + 1) : i \in 1 .. m \/ i = m + 1
    BY <1>2
  <2> QED
    BY <1>2, <1>3, <2>1 DEF Recorded
<1>5. PICK from : from = Later(1, Len(all) - CheckpointsKept + 1)
  OBVIOUS
<1>6. PICK d \in 0 .. Len(all) : from = d + 1
  <2>1. from \in 1 .. (m + 1)
    BY <1>3, <1>5, KeptAssumption DEF Later
  <2>2. from - 1 \in 0 .. Len(all) /\ from = (from - 1) + 1
    BY <1>3, <2>1
  <2> QED
    BY <2>2
<1>7. kept = SubSeq(all, d + 1, Len(all))
  BY <1>5, <1>6
<1>8. /\ Listed(kept) /\ DOMAIN kept = 1 .. (Len(all) - d)
      /\ \A i \in 1 .. (Len(all) - d) : kept[i] = all[d + i]
  <2>1. /\ Listed(SubSeq(all, d + 1, Len(all)))
        /\ Len(SubSeq(all, d + 1, Len(all))) = Len(all) - d
        /\ DOMAIN SubSeq(all, d + 1, Len(all)) = 1 .. (Len(all) - d)
        /\ \A i \in 1 .. (Len(all) - d) : SubSeq(all, d + 1, Len(all))[i] = all[d + i]
    BY <1>3, SubSeqIs
  <2> QED
    BY <1>7, <2>1
<1>9. \A i \in 1 .. (Len(all) - d) : d + i \in 1 .. (m + 1)
  BY <1>3, <1>6
<1>10. \A i \in DOMAIN kept : Vouched(k, kept[i])
  BY <1>4, <1>8, <1>9
<1> QED
  BY <1>8, <1>10 DEF Recorded

------------------------------------------------------------------------------
\* A peer says the hash of a tick it ran, keeps it, and answers what it held.
LEMMA GoingChecks ==
  ASSUME NEW K, NEW L, Runs(K, L), NEW p \in Peer, NEW cut, Going(K, L, p, cut), NEW t, NEW hash,
         NEW mine, mine = [tick |-> t, hash |-> hash], Vouched(K[p], mine),
         NEW cut2, cut2 = SendHashCheck(cut, t, hash)
  PROVE  Going(K, L, p, cut2)
<1>1. PICK n, links : /\ cut = [node |-> n, net |-> links] /\ n = cut.node
                      /\ Upright(K, L, p, n) /\ n.state # "Finished"
  BY DEF Going
<1>2. Shape(n) /\ n.id = p /\ Recorded(K[p], n.checkpoints)
  BY <1>1 DEF Upright
<1>3. PICK all : all = Append(n.checkpoints, mine)
  OBVIOUS
<1>4. PICK last : last = SubSeq(all, Later(1, Len(all) - CheckpointsKept + 1), Len(all))
  OBVIOUS
<1>5. PICK kept : kept = [n EXCEPT !.checkpoints = last]
  OBVIOUS
<1>6. PICK a : a = AnswerPending(kept, mine)
  OBVIOUS
<1>7. Upright(K, L, p, kept) /\ kept.state # "Finished"
  <2>1. Recorded(K[p], last)
    BY <1>2, <1>3, <1>4, RecordedIsKept
  <2>2. Shape(kept) /\ kept.checkpoints = last /\ \A f \in NodeFields \ {"checkpoints"} : kept[f] = n[f]
    BY <1>2, <1>5 DEF Shape, NodeFields
  <2> QED
    BY <1>1, <2>1, <2>2 DEF Upright, NodeFields
<1>8. PICK answered : answered = [cut EXCEPT !.node = a]
  OBVIOUS
<1>9. PICK message : message = HashCheck(p, t, hash)
  OBVIOUS
<1>10. Honest(K, L, p, message)
  <2>1. message.type = "HashCheck" /\ message.tick = t /\ message.hash = hash
    BY <1>9 DEF HashCheck
  <2>2. Vouched(K[p], message)
    BY <2>1 DEF Vouched
  <2> QED
    BY <2>1, <2>2 DEF Honest, Kinds
<1>11. ASSUME t % Interval = 0
       PROVE  Going(K, L, p, answered) /\ Going(K, L, p, Send(answered, message))
  <2>1. mine.tick % Interval = 0
    BY <1>11
  <2>2. Upright(K, L, p, a) /\ a.state # "Finished"
    BY <1>6, <1>7, <2>1, UprightAnswersAll
  <2>3. Going(K, L, p, answered)
    BY <1>8, <2>2, GoingWith
  <2>4. PICK sent : sent = Send(answered, message)
    OBVIOUS
  <2>5. Going(K, L, p, sent)
    BY <1>10, <2>3, <2>4, GoingSends
  <2> QED
    BY <2>3, <2>4, <2>5
<1>12. PICK late, idle : /\ late = [cut EXCEPT !.node = Fail(@, "InvalidArgument")]
                         /\ idle = [cut EXCEPT !.node = Fail(@, "Unavailable")]
  OBVIOUS
<1>13. Going(K, L, p, late) /\ Going(K, L, p, idle)
  <2>1. Going(K, L, p, late)
    BY <1>12, GoingFails
  <2>2. Going(K, L, p, idle)
    BY <1>12, GoingFails
  <2> QED
    BY <2>1, <2>2
<1>14. [n EXCEPT !.checkpoints =
                 LET every == Append(@, mine)
                 IN  SubSeq(every, Later(1, Len(every) - CheckpointsKept + 1), Len(every))] = kept
  BY <1>3, <1>4, <1>5
<1>15. \/ cut2 \in {late, idle, cut}
       \/ t % Interval = 0 /\ cut2 \in {answered, Send(answered, message)}
  <2>1. After(answered, Send(answered, message)) \in {answered, Send(answered, message)}
    BY DEF After
  <2> QED
    BY <1>1, <1>2, <1>6, <1>8, <1>9, <1>12, <1>14, <2>1 DEF SendHashCheck
<1> QED
  BY <1>11, <1>13, <1>15

------------------------------------------------------------------------------
\* A tick that runs adds to the world, and leaves what the ticks before it made.
LEMMA TickIsLasting ==
  ASSUME NEW K, NEW L, Runs(K, L), NEW p \in Peer, K[p].tick < L[p], NEW q, QueueShape(q),
         NEW k2, k2 = RunTick(K[p], q, InvalidCell), NEW K2, K2 = [o \in Peer |-> IF o = p THEN k2 ELSE K[o]]
  PROVE  /\ Runs(K2, L) /\ Lasting(K, K2)
         /\ k2.tick = K[p].tick + 1 /\ Until(k2.world, K[p].tick + 1) = k2.world
<1>1. PICK k, t : k = K[p] /\ t = K[p].tick
  OBVIOUS
<1>2. /\ KernelShape(k) /\ t \in Nat /\ k.tick = t /\ t < L[p] /\ L[p] \in Nat \ {0}
      /\ k.world \in Seq(Cmd) /\ \A i \in DOMAIN k.world : k.world[i].target < t
  BY <1>1 DEF Runs
<1>3. k2 = RunTick(k, q, InvalidCell)
  BY <1>1
<1>4. KernelShape(k2) /\ k2.tick = t + 1 /\ Extends(k.world, k2.world, t)
  BY <1>2, <1>3, RunExtends
<1>5. PICK world, after : world = k.world /\ after = k2.world
  OBVIOUS
<1>6. world \in Seq(Cmd) /\ (\A i \in DOMAIN world : world[i].target < t) /\ Extends(world, after, t)
  BY <1>2, <1>4, <1>5
<1>7. /\ Until(world, t) = world /\ Until(after, t + 1) = after
      /\ \A i \in DOMAIN after : after[i].target < t + 1
      /\ \A s \in 0 .. t : Until(after, s) = Until(world, s)
  BY <1>2, <1>6, UntilIs
<1>8. after \in Seq(Cmd)
  BY <1>6 DEF Extends
<1>9. K2[p] = k2 /\ \A o \in Peer : o # p => K2[o] = K[o]
  OBVIOUS
<1>10. Runs(K2, L)
  <2>1. ASSUME NEW o \in Peer
        PROVE  /\ KernelShape(K2[o]) /\ K2[o].tick \in Nat /\ L[o] \in Nat \ {0} /\ K2[o].tick <= L[o]
               /\ K2[o].world \in Seq(Cmd) /\ \A i \in DOMAIN K2[o].world : K2[o].world[i].target < K2[o].tick
    <3>1. CASE o = p
      <4>1. t + 1 \in Nat /\ t + 1 <= L[p]
        BY <1>2
      <4> QED
        BY <1>2, <1>4, <1>5, <1>7, <1>8, <1>9, <3>1, <4>1
    <3>2. CASE o # p
      BY <1>9, <3>2 DEF Runs
    <3> QED
      BY <3>1, <3>2
  <2> QED
    BY <2>1 DEF Runs
<1>11. Lasting(K, K2)
  <2>1. ASSUME NEW o \in Peer
        PROVE  /\ K[o].tick \in Nat /\ K2[o].tick \in Nat /\ K[o].tick <= K2[o].tick
               /\ \A s \in 0 .. K[o].tick : Until(K2[o].world, s) = Until(K[o].world, s)
    <3>1. CASE o = p
      <4>1. t + 1 \in Nat /\ t <= t + 1
        BY <1>2
      <4> QED
        BY <1>1, <1>2, <1>4, <1>5, <1>7, <1>9, <3>1, <4>1
    <3>2. CASE o # p
      <4>1. K[o].tick \in Nat /\ K2[o] = K[o]
        BY <1>9, <3>2 DEF Runs
      <4> QED
        BY <4>1
    <3> QED
      BY <3>1, <3>2
  <2> QED
    BY <2>1 DEF Lasting
<1> QED
  BY <1>1, <1>4, <1>5, <1>7, <1>10, <1>11

\* A peer steps: it runs the tick, and says its hash of the world it made.
LEMMA GoingSteps ==
  ASSUME NEW K, NEW L, Runs(K, L), NEW p \in Peer, NEW n, NEW links, Upright(K, L, p, n), MayStep(n),
         NetOK(links), NetHonest(K, L, links),
         NEW cut, cut = [node |-> n, net |-> links], NEW cut2, cut2 = StepTick(cut),
         NEW k2, k2 = RunTick(n.kernel, n.queue, InvalidCell),
         NEW K2, K2 = [o \in Peer |-> IF o = p THEN k2 ELSE K[o]]
  PROVE  Runs(K2, L) /\ Lasting(K, K2) /\ Going(K2, L, p, cut2)
<1>1. PICK t : t = Now(n)
  OBVIOUS
<1>2. /\ Shape(n) /\ n.id = p /\ n.kernel = K[p] /\ n.length = L[p] /\ QueueShape(n.queue)
      /\ n.state = "Running" /\ t = K[p].tick /\ t < L[p]
  BY <1>1 DEF Upright, MayStep, Playing, Now
<1>3. k2 = RunTick(K[p], n.queue, InvalidCell) /\ K[p].tick < L[p] /\ QueueShape(n.queue)
  BY <1>2
<1>4. /\ Runs(K2, L) /\ Lasting(K, K2)
      /\ k2.tick = K[p].tick + 1 /\ Until(k2.world, K[p].tick + 1) = k2.world
  BY <1>3, TickIsLasting
<1>5. PICK queue, gate : queue = AfterDrain(n.queue, t) /\ gate = RetireBefore(n.gate, t)
  OBVIOUS
<1>6. PICK n2 : n2 = [n EXCEPT !.kernel = k2, !.queue = queue, !.gate = gate]
  OBVIOUS
<1>7. /\ Alike(n, n2, {"kernel", "queue", "gate"})
      /\ n2.kernel = k2 /\ n2.queue = queue /\ n2.state = n.state
  <2>1. /\ Shape(n2) /\ n2.kernel = k2 /\ n2.queue = queue
        /\ \A f \in NodeFields \ {"kernel", "queue", "gate"} : n2[f] = n[f]
    <3>1. Shape(n)
      BY <1>2
    <3> QED
      BY <1>6, <3>1 DEF Shape, NodeFields
  <2> QED
    BY <2>1 DEF Alike, NodeFields
<1>8. QueueShape(queue)
  <2>1. PICK waiting, next : waiting = n.queue.pending /\ next = n.queue.next
    OBVIOUS
  <2>2. /\ n.queue = [pending |-> waiting, next |-> next]
        /\ waiting \in SUBSET Entry /\ IsFiniteSet(waiting) /\ next \in [Peer -> Nat]
    BY <1>2, <2>1 DEF QueueShape
  <2>3. PICK rest : rest = waiting \ Due(n.queue, t)
    OBVIOUS
  <2>4. queue = [pending |-> rest, next |-> next]
    BY <1>5, <2>1, <2>2, <2>3 DEF AfterDrain
  <2>5. rest \in SUBSET Entry /\ IsFiniteSet(rest)
    BY <2>2, <2>3, FS_Subset
  <2> QED
    BY <2>2, <2>4, <2>5 DEF QueueShape
<1>9. K2[p] = k2
  OBVIOUS
<1>10. Upright(K2, L, p, n2) /\ n2.state # "Finished"
  <2>1. n2.kernel = K2[p] /\ QueueShape(n2.queue)
    BY <1>7, <1>8, <1>9
  <2>2. Upright(K2, L, p, n2)
    BY <1>4, <1>7, <2>1, UprightLasts
  <2> QED
    BY <1>2, <1>7, <2>2
<1>11. PICK ran : ran = [node |-> n2, net |-> links]
  OBVIOUS
<1>12. Going(K2, L, p, ran)
  <2>1. NetHonest(K2, L, links)
    BY <1>4, HonestLasts
  <2> QED
    BY <1>10, <1>11, <2>1, GoingOn
<1>13. PICK world : world = n2.kernel.world
  OBVIOUS
<1>14. PICK mine : mine = [tick |-> t, hash |-> world]
  OBVIOUS
<1>15. Vouched(K2[p], mine)
  <2>1. t \in Nat /\ k2.tick = t + 1
    BY <1>2, <1>4 DEF Runs
  <2>2. mine.tick \in 0 .. (k2.tick - 1)
    BY <1>14, <2>1
  <2>3. mine.hash = Until(k2.world, mine.tick + 1)
    BY <1>2, <1>4, <1>7, <1>13, <1>14
  <2> QED
    BY <1>9, <2>2, <2>3 DEF Vouched
<1>16. cut2 = SendHashCheck(ran, t, world)
  <2>1. [n EXCEPT !.kernel = RunTick(@, n.queue, InvalidCell),
                  !.queue = AfterDrain(@, Now(n)),
                  !.gate = RetireBefore(@, Now(n))] = n2
    BY <1>1, <1>5, <1>6
  <2>2. [cut EXCEPT !.node = n2] = ran
    BY <1>11
  <2> QED
    BY <1>1, <1>13, <2>1, <2>2 DEF StepTick
<1>17. Going(K2, L, p, cut2)
  BY <1>4, <1>12, <1>14, <1>15, <1>16, GoingChecks
<1> QED
  BY <1>4, <1>17

------------------------------------------------------------------------------
\* A function of the first numbers is a sequence.
LEMMA FunctionIsSeq ==
  ASSUME NEW S, NEW n \in Nat, NEW r \in [1 .. n -> S]
  PROVE  r \in Seq(S)
OBVIOUS

\* One place of a sequence is replaced.
LEMMA ReplacedIsListed ==
  ASSUME NEW s, Listed(s), NEW i \in DOMAIN s, NEW x, NEW r, r = [s EXCEPT ![i] = x]
  PROVE  /\ Listed(r) /\ DOMAIN r = DOMAIN s /\ r[i] = x
         /\ \A j \in DOMAIN s : j # i => r[j] = s[j]
<1>1. PICK n \in Nat : n = Len(s) /\ DOMAIN s = 1 .. n
  BY ListedIs
<1>2. PICK S : S = {s[j] : j \in 1 .. n} \cup {x}
  OBVIOUS
<1>3. s = [j \in 1 .. n |-> s[j]]
  BY <1>1 DEF Listed
<1>4. r = [j \in 1 .. n |-> IF j = i THEN x ELSE s[j]]
  BY <1>1, <1>3
<1>5. r \in [1 .. n -> S]
  BY <1>2, <1>4
<1>6. r \in Seq(S)
  BY <1>5, FunctionIsSeq
<1>7. Listed(r)
  BY <1>6, SeqIsListed
<1> QED
  BY <1>1, <1>4, <1>7

\* The last byte of a turn is flipped.
Altered(message) == [message EXCEPT !.commands[Len(message.commands)].cell = Flipped(@)]

\* A turn with another cell in its last command is still a turn anybody may have sent.
LEMMA AlteredIsHonest ==
  ASSUME NEW K, NEW L, NEW o, NEW message, Honest(K, L, o, message),
         message.type = "Turn", message.commands # <<>>,
         NEW altered, altered = Altered(message)
  PROVE  \A q : Honest(K, L, q, altered)
<1>1. PICK s, tick, source : s = message.commands /\ tick = message.tick /\ source = message.source
  OBVIOUS
<1>2. /\ message = Turn(source, tick, s) /\ Listed(s) /\ s # <<>>
      /\ \A i \in DOMAIN s : s[i] \in Stamped
  BY <1>1 DEF Honest
<1>3. PICK n : n = Len(s)
  OBVIOUS
<1>4. n \in DOMAIN s
  <2>1. n \in Nat /\ DOMAIN s = 1 .. n /\ s = [i \in 1 .. n |-> s[i]]
    BY <1>2, <1>3, ListedIs DEF Listed
  <2>2. n # 0
    <3>1. SUFFICES ASSUME n = 0 PROVE FALSE
      OBVIOUS
    <3>2. 1 .. 0 = {}
      OBVIOUS
    <3>3. s \in Seq({s[i] : i \in 1 .. Len(s)})
      BY <1>2, ListedIs
    <3> QED
      BY <1>2, <1>3, <3>1, <3>3
  <2> QED
    BY <2>1, <2>2
<1>5. PICK c, d : c = s[n] /\ d = [c EXCEPT !.cell = Flipped(@)]
  OBVIOUS
<1>6. d \in Stamped
  <2>1. c \in Stamped
    BY <1>2, <1>4, <1>5
  <2>2. c.cell \in Int
    BY <2>1 DEF Stamped
  <2>3. Flipped(c.cell) \in Int
    BY <2>2 DEF Flipped
  <2> QED
    BY <1>5, <2>1, <2>3 DEF Stamped
<1>7. PICK r : r = [s EXCEPT ![n] = d]
  OBVIOUS
<1>8. /\ Listed(r) /\ DOMAIN r = DOMAIN s /\ r[n] = d
      /\ \A j \in DOMAIN s : j # n => r[j] = s[j]
  BY <1>2, <1>4, <1>7, ReplacedIsListed
<1>9. \A j \in DOMAIN r : r[j] \in Stamped
  <2>1. ASSUME NEW j \in DOMAIN r PROVE r[j] \in Stamped
    <3>1. CASE j = n
      BY <1>6, <1>8, <3>1
    <3>2. CASE j # n
      BY <1>2, <1>8, <2>1, <3>2
    <3> QED
      BY <3>1, <3>2
  <2> QED
    BY <2>1
<1>10. altered = [message EXCEPT !.commands = r]
  BY <1>1, <1>3, <1>5, <1>7 DEF Altered
<1>11. altered = Turn(source, tick, r)
  BY <1>2, <1>10 DEF Turn
<1>12. /\ altered.type = "Turn" /\ altered.source = source /\ altered.tick = tick /\ altered.commands = r
  BY <1>11 DEF Turn
<1> QED
  BY <1>8, <1>9, <1>11, <1>12 DEF Honest, Kinds

\* A link with one turn altered is still honest: what it may not touch are checks and finishes.
LEMMA HonestCorrupt ==
  ASSUME NEW K, NEW L, NEW links, NetOK(links), NetHonest(K, L, links),
         NEW from \in Peer, NEW to \in Peer, NEW i \in DOMAIN links.pipe[<<from, to>>],
         NEW message, message = links.pipe[<<from, to>>][i].message,
         message.type = "Turn", message.commands # <<>>,
         NEW altered, altered = Altered(message),
         NEW after, after = Corrupt(links, from, to, i, altered)
  PROVE  NetOK(after) /\ NetHonest(K, L, after)
<1>1. PICK pipe, k : pipe = links.pipe[<<from, to>>] /\ k = pipe[i]
  OBVIOUS
<1>2. Listed(pipe) /\ i \in DOMAIN pipe /\ k.message = message /\ Routed(k, from, to)
  BY <1>1 DEF NetOK
<1>3. k.origin \in Peer \ {to} /\ from = Via(to, k.origin) /\ k = Packet(k.origin, k.everyone, k.message)
  BY <1>2 DEF Routed
<1>4. PICK source : source = k.origin
  OBVIOUS
<1>5. Honest(K, L, source, message)
  <2>1. <<"near", i>> \in Slots(links, to, source)
    BY <1>1, <1>2, <1>3, <1>4 DEF Slots
  <2>2. MessageAt(links, to, source, <<"near", i>>) = message
    BY <1>1, <1>2, <1>3, <1>4 DEF MessageAt
  <2> QED
    BY <1>3, <1>4, <2>1, <2>2 DEF NetHonest
<1>6. \A q : Honest(K, L, q, altered)
  BY <1>5, AlteredIsHonest
<1>7. PICK k2 : k2 = [k EXCEPT !.message = altered]
  OBVIOUS
<1>8. k2 = Packet(k.origin, k.everyone, altered)
  BY <1>3, <1>7 DEF Packet
<1>9. k2.origin = k.origin /\ k2.everyone = k.everyone /\ k2.message = altered
  BY <1>8 DEF Packet
<1>10. Routed(k2, from, to)
  BY <1>2, <1>8, <1>9 DEF Routed
<1>11. PICK pipe2 : pipe2 = [pipe EXCEPT ![i] = k2]
  OBVIOUS
<1>12. /\ Listed(pipe2) /\ DOMAIN pipe2 = DOMAIN pipe /\ pipe2[i] = k2
       /\ \A j \in DOMAIN pipe : j # i => pipe2[j] = pipe[j]
  BY <1>2, <1>11, ReplacedIsListed
<1>13. PICK pipes : pipes = links.pipe
  OBVIOUS
<1>14. pipes = [e \in Peer \X Peer |-> pipes[e]] /\ <<from, to>> \in Peer \X Peer
  BY <1>13 DEF NetOK
<1>15. PICK pipes2 : pipes2 = [pipes EXCEPT ![<<from, to>>] = pipe2]
  OBVIOUS
<1>16. /\ pipes2 = [e \in Peer \X Peer |-> pipes2[e]]
       /\ pipes2[<<from, to>>] = pipe2
       /\ \A e \in Peer \X Peer : e # <<from, to>> => pipes2[e] = pipes[e]
  BY <1>14, <1>15
<1>17. after = [links EXCEPT !.pipe = pipes2]
  BY <1>1, <1>7, <1>11, <1>13, <1>15 DEF Corrupt
<1>18. NetShape(after) /\ after.pipe = pipes2 /\ after.inbox = links.inbox
  <2>1. NetShape(links)
    BY DEF NetOK
  <2> QED
    BY <1>17, <2>1 DEF NetShape
<1>19. ASSUME NEW e \in Peer \X Peer
       PROVE  /\ Listed(pipes2[e]) /\ DOMAIN pipes2[e] = DOMAIN pipes[e]
              /\ \A j \in DOMAIN pipes[e] :
                   /\ pipes2[e][j].origin = pipes[e][j].origin
                   /\ pipes2[e][j].message \in {pipes[e][j].message, altered}
                   /\ pipes2[e][j] = pipes[e][j] \/ (e = <<from, to>> /\ pipes2[e][j] = k2)
  <2>1. CASE e = <<from, to>>
    <3>1. pipes2[e] = pipe2 /\ pipes[e] = pipe
      BY <1>1, <1>13, <1>16, <2>1
    <3>2. ASSUME NEW j \in DOMAIN pipe
          PROVE  /\ pipe2[j].origin = pipe[j].origin
                 /\ pipe2[j].message \in {pipe[j].message, altered}
                 /\ pipe2[j] = pipe[j] \/ pipe2[j] = k2
      <4>1. CASE j = i
        BY <1>1, <1>9, <1>12, <4>1
      <4>2. CASE j # i
        BY <1>12, <4>2
      <4> QED
        BY <4>1, <4>2
    <3> QED
      BY <1>12, <2>1, <3>1, <3>2
  <2>2. CASE e # <<from, to>>
    <3>1. pipes2[e] = pipes[e] /\ Listed(pipes[e])
      BY <1>13, <1>16, <2>2 DEF NetOK
    <3> QED
      BY <3>1
  <2> QED
    BY <2>1, <2>2
<1>20. NetOK(after)
  <2>1. ASSUME NEW f \in Peer, NEW t \in Peer, NEW j \in DOMAIN pipes2[<<f, t>>]
        PROVE  Routed(pipes2[<<f, t>>][j], f, t)
    <3>1. j \in DOMAIN pipes[<<f, t>>]
      BY <1>19, <2>1
    <3>2. Routed(pipes[<<f, t>>][j], f, t)
      BY <1>13, <3>1 DEF NetOK
    <3>3. pipes2[<<f, t>>][j] = pipes[<<f, t>>][j] \/ (<<f, t>> = <<from, to>> /\ pipes2[<<f, t>>][j] = k2)
      BY <1>19, <3>1
    <3>4. <<f, t>> = <<from, to>> => f = from /\ t = to
      OBVIOUS
    <3> QED
      BY <1>10, <3>2, <3>3, <3>4
  <2>2. after.inbox = [e \in Peer \X Peer |-> after.inbox[e]] /\ \A e \in Peer \X Peer : Listed(after.inbox[e])
    <3>1. links.inbox = [e \in Peer \X Peer |-> links.inbox[e]] /\ \A e \in Peer \X Peer : Listed(links.inbox[e])
      BY DEF NetOK
    <3> QED
      BY <1>18, <3>1
  <2>3. /\ after.pipe = [e \in Peer \X Peer |-> after.pipe[e]]
        /\ \A e \in Peer \X Peer : Listed(after.pipe[e])
    BY <1>16, <1>18, <1>19
  <2>4. \A f, t \in Peer : \A j \in DOMAIN after.pipe[<<f, t>>] : Routed(after.pipe[<<f, t>>][j], f, t)
    BY <1>18, <2>1
  <2> QED
    BY <1>18, <2>2, <2>3, <2>4 DEF NetOK
<1>21. ASSUME NEW p \in Peer, NEW o \in Peer, p # o, NEW s \in Slots(after, p, o)
       PROVE  Honest(K, L, o, MessageAt(after, p, o, s))
  <2>1. PICK m, m2 : m = MessageAt(links, p, o, s) /\ m2 = MessageAt(after, p, o, s)
    OBVIOUS
  <2>2. CASE s \in {"in"} \X DOMAIN after.inbox[<<p, o>>]
    <3>1. s \in Slots(links, p, o) /\ m2 = m
      BY <1>18, <2>1, <2>2 DEF Slots, MessageAt
    <3> QED
      BY <1>21, <2>1, <3>1 DEF NetHonest
  <2>3. CASE s \in {"near"} \X {j \in DOMAIN after.pipe[<<Via(p, o), p>>] : after.pipe[<<Via(p, o), p>>][j].origin = o}
    <3>1. PICK e, j : e = <<Via(p, o), p>> /\ s = <<"near", j>> /\ j \in DOMAIN pipes2[e] /\ pipes2[e][j].origin = o
      BY <1>18, <2>3
    <3>2. e \in Peer \X Peer
      <4>1. Via(p, o) \in Peer
        BY <1>21, ViaIs
      <4> QED
        BY <3>1, <4>1
    <3>3. /\ j \in DOMAIN pipes[e] /\ pipes[e][j].origin = o
          /\ pipes2[e][j].message \in {pipes[e][j].message, altered}
      BY <1>19, <3>1, <3>2
    <3>4. s \in Slots(links, p, o)
      BY <1>13, <3>1, <3>3 DEF Slots
    <3>5. s[1] = "near" /\ s[2] = j
      BY <3>1
    <3>6. m = pipes[e][j].message /\ m2 = pipes2[e][j].message
      BY <1>13, <1>18, <2>1, <3>1, <3>5 DEF MessageAt
    <3>7. Honest(K, L, o, m)
      BY <1>21, <2>1, <3>4 DEF NetHonest
    <3> QED
      BY <1>6, <2>1, <3>3, <3>6, <3>7
  <2>4. CASE s \in {"far"} \X (IF Relayed(p, o) THEN DOMAIN after.pipe[<<o, 0>>] ELSE {})
    <3>1. PICK e, j : e = <<o, 0>> /\ s = <<"far", j>> /\ j \in DOMAIN pipes2[e] /\ Relayed(p, o)
      BY <1>18, <2>4
    <3>2. e \in Peer \X Peer
      <4>1. 0 \in Peer
        BY <1>21, <3>1, ViaIs
      <4> QED
        BY <3>1, <4>1
    <3>3. /\ j \in DOMAIN pipes[e]
          /\ pipes2[e][j].message \in {pipes[e][j].message, altered}
      BY <1>19, <3>1, <3>2
    <3>4. s \in Slots(links, p, o)
      BY <1>13, <3>1, <3>3 DEF Slots
    <3>5. s[1] = "far" /\ s[2] = j
      BY <3>1
    <3>6. m = pipes[e][j].message /\ m2 = pipes2[e][j].message
      BY <1>13, <1>18, <2>1, <3>1, <3>5 DEF MessageAt
    <3>7. Honest(K, L, o, m)
      BY <1>21, <2>1, <3>4 DEF NetHonest
    <3> QED
      BY <1>6, <2>1, <3>3, <3>6, <3>7
  <2>5. \/ s \in {"in"} \X DOMAIN after.inbox[<<p, o>>]
        \/ s \in {"near"} \X {j \in DOMAIN after.pipe[<<Via(p, o), p>>] : after.pipe[<<Via(p, o), p>>][j].origin = o}
        \/ s \in {"far"} \X (IF Relayed(p, o) THEN DOMAIN after.pipe[<<o, 0>>] ELSE {})
    BY <1>21 DEF Slots
  <2> QED
    BY <2>2, <2>3, <2>4, <2>5
<1> QED
  BY <1>20, <1>21 DEF NetHonest

------------------------------------------------------------------------------
\* The kernels and the runs are those of the nodes.
LEMMA HonestIs ==
  ASSUME NEW K, NEW L, K = [q \in Peer |-> K[q]], L = [q \in Peer |-> L[q]],
         NEW N, NEW links, HonestInv(K, L, N, links)
  PROVE  HonestOf(N, links)
<1>1. \A q \in Peer : N[q].kernel = K[q] /\ N[q].length = L[q]
  BY DEF HonestInv, Upright
<1>2. [q \in Peer |-> N[q].kernel] = K /\ [q \in Peer |-> N[q].length] = L
  BY <1>1
<1> QED
  BY <1>2 DEF HonestOf

\* A peer whose call stands leaves everything honest.
LEMMA HonestStep ==
  ASSUME NEW K, NEW L, NEW N, NEW links, HonestInv(K, L, N, links), NEW p \in Peer,
         NEW cut, Stands(K, L, p, cut), NEW N2, N2 = [N EXCEPT ![p] = cut.node]
  PROVE  HonestInv(K, L, N2, cut.net)
<1>1. PICK n : n = cut.node
  OBVIOUS
<1>2. N = [q \in Peer |-> N[q]] /\ Runs(K, L) /\ \A q \in Peer : Upright(K, L, q, N[q]) /\ Settled(q, N[q])
  BY DEF HonestInv
<1>3. /\ N2 = [q \in Peer |-> N2[q]] /\ N2[p] = n
      /\ \A q \in Peer : q # p => N2[q] = N[q]
  BY <1>1, <1>2
<1>4. Upright(K, L, p, n) /\ Settled(p, n) /\ NetOK(cut.net) /\ NetHonest(K, L, cut.net)
  BY <1>1 DEF Stands
<1>5. \A q \in Peer : Upright(K, L, q, N2[q]) /\ Settled(q, N2[q])
  BY <1>2, <1>3, <1>4
<1> QED
  BY <1>2, <1>3, <1>4, <1>5 DEF HonestInv

\* So does one that ran a tick.
LEMMA HonestTick ==
  ASSUME NEW K, NEW L, NEW N, NEW links, HonestInv(K, L, N, links), NEW p \in Peer,
         NEW K2, Runs(K2, L), Lasting(K, K2), \A q \in Peer : q # p => K2[q] = K[q],
         NEW cut, Going(K2, L, p, cut), NEW N2, N2 = [N EXCEPT ![p] = cut.node]
  PROVE  HonestInv(K2, L, N2, cut.net)
<1>1. PICK n : n = cut.node
  OBVIOUS
<1>2. N = [q \in Peer |-> N[q]] /\ \A q \in Peer : Upright(K, L, q, N[q]) /\ Settled(q, N[q])
  BY DEF HonestInv
<1>3. /\ N2 = [q \in Peer |-> N2[q]] /\ N2[p] = n
      /\ \A q \in Peer : q # p => N2[q] = N[q]
  BY <1>1, <1>2
<1>4. Upright(K2, L, p, n) /\ Settled(p, n) /\ NetOK(cut.net) /\ NetHonest(K2, L, cut.net)
  BY <1>1, GoingStands DEF Stands
<1>5. ASSUME NEW q \in Peer, q # p
      PROVE  Upright(K2, L, q, N[q])
  <2>1. PICK m : m = N[q] /\ Upright(K, L, q, m)
    BY <1>2
  <2>2. Shape(m) /\ m.kernel = K2[q] /\ QueueShape(m.queue)
    BY <1>5, <2>1 DEF Upright
  <2>3. Alike(m, m, {"kernel", "queue", "gate"})
    BY <2>2 DEF Alike
  <2>4. Upright(K2, L, q, m)
    BY <2>1, <2>2, <2>3, UprightLasts
  <2> QED
    BY <2>1, <2>4
<1>6. \A q \in Peer : Upright(K2, L, q, N2[q]) /\ Settled(q, N2[q])
  BY <1>2, <1>3, <1>4, <1>5
<1> QED
  BY <1>3, <1>4, <1>6 DEF HonestInv

------------------------------------------------------------------------------
\* A new peer has said, compared and finished nothing.
LEMMA NewNodeIsUpright ==
  ASSUME NEW K, NEW L, NEW p \in Peer, NEW length, K[p] = NewKernel, L[p] = length,
         NEW n, n = NewNode(p, length)
  PROVE  Upright(K, L, p, n) /\ Settled(p, n)
<1>1. /\ Shape(n) /\ n.id = p /\ n.length = length /\ n.state = "Handshaking"
      /\ n.lastSent = NoTick /\ n.finish = NoTick
      /\ n.pending = <<>> /\ n.drops = <<>> /\ n.checkpoints = <<>>
      /\ n.peerFinish = [q \in Peer |-> NoTick] /\ n.compared = [q \in Peer |-> NoTick]
      /\ n.queue = NewQueue /\ n.kernel = NewKernel
  BY DEF NewNode, Shape, NodeFields
<1>2. QueueShape(n.queue)
  <2>1. /\ n.queue.pending = {} /\ n.queue.next = [s \in Peer |-> 0]
        /\ n.queue = [pending |-> n.queue.pending, next |-> n.queue.next]
    BY <1>1 DEF NewQueue
  <2>2. IsFiniteSet({})
    BY FS_EmptySet
  <2> QED
    BY <2>1, <2>2 DEF QueueShape
<1>3. Awaited(p, n.drops) /\ Recorded(K[p], n.checkpoints) /\ HeldFor(K, n.pending)
  BY <1>1, EmptyIsListed DEF Awaited, Recorded, HeldFor
<1>4. ComparedTo(K, p, n.compared)
  BY <1>1 DEF ComparedTo, NoTick
<1>5. Declared(L, p, n.state, n.finish, n.peerFinish)
  BY <1>1 DEF Declared, NoTick
<1>6. n.lastSent \in Nat \cup {-1}
  BY <1>1 DEF NoTick
<1> QED
  BY <1>1, <1>2, <1>3, <1>4, <1>5, <1>6 DEF Upright, Settled

\* The peers start honest: all they have said is who they are.
LEMMA InitIsHonest ==
  ASSUME Lengths \subseteq [Peer -> Nat \ {0}], Init
  PROVE  HInv
<1>1. PICK L \in Lengths : node = [p \in Peer |-> NewNode(p, L[p])]
  BY DEF Init
<1>2. PICK N, K : N = node /\ K = [p \in Peer |-> NewKernel]
  OBVIOUS
<1>3. /\ L \in [Peer -> Nat \ {0}]
      /\ N = [p \in Peer |-> N[p]] /\ \A p \in Peer : N[p] = NewNode(p, L[p]) /\ K[p] = NewKernel
  BY <1>1, <1>2
<1>4. \A p \in Peer : Upright(K, L, p, N[p]) /\ Settled(p, N[p])
  BY <1>3, NewNodeIsUpright
<1>5. Runs(K, L)
  <2>1. PICK k : k = NewKernel
    OBVIOUS
  <2>2. KernelShape(k) /\ k.tick = 0 /\ k.world = <<>>
    BY <2>1 DEF NewKernel, KernelShape, EmptyWorld
  <2>3. <<>> \in Seq(Cmd) /\ DOMAIN <<>> = {}
    OBVIOUS
  <2>4. ASSUME NEW p \in Peer
        PROVE  /\ KernelShape(K[p]) /\ K[p].tick \in Nat /\ L[p] \in Nat \ {0} /\ K[p].tick <= L[p]
               /\ K[p].world \in Seq(Cmd) /\ \A i \in DOMAIN K[p].world : K[p].world[i].target < K[p].tick
    <3>1. K[p] = k /\ L[p] \in Nat \ {0}
      BY <1>3, <2>1
    <3>2. 0 <= L[p]
      BY <3>1
    <3>3. k.world \in Seq(Cmd) /\ DOMAIN k.world = {}
      BY <2>2, <2>3
    <3>4. \A i \in DOMAIN k.world : k.world[i].target < k.tick
      BY <3>3
    <3>5. KernelShape(k) /\ k.tick \in Nat /\ k.tick <= L[p]
      BY <2>2, <3>2
    <3> QED
      BY <3>1, <3>3, <3>4, <3>5
  <2> QED
    BY <2>4 DEF Runs
<1>6. NetOK(NewNet) /\ NetHonest(K, L, NewNet)
  BY NewNetIsEmpty DEF NetHonest
<1> DEFINE S == {i \in 0 .. PeerCount : NetOK(Greeted[i]) /\ NetHonest(K, L, Greeted[i])}
<1>7. 0 \in S
  BY <1>6, GreetedIsAChain, PeersCounted
<1>8. ASSUME NEW i \in 1 .. PeerCount, i - 1 \in S PROVE i \in S
  <2>1. PICK p, links : p = i - 1 /\ links = Greeted[i - 1]
    OBVIOUS
  <2>2. p \in Peer /\ NetOK(links) /\ NetHonest(K, L, links)
    BY <1>8, <2>1, PeersCounted
  <2>3. PICK message : message = Hello(p)
    OBVIOUS
  <2>4. Honest(K, L, p, message)
    <3>1. message.type = "Hello"
      BY <2>3 DEF Hello
    <3> QED
      BY <3>1 DEF Honest, Kinds
  <2>5. PICK after : after = Broadcast(links, p, message).net
    OBVIOUS
  <2>6. NetOK(after) /\ NetHonest(K, L, after)
    BY <2>2, <2>4, <2>5, HonestBroadcast
  <2>7. Greeted[i] = after
    BY <2>1, <2>3, <2>5, GreetedIsAChain DEF Announced
  <2> QED
    BY <1>8, <2>6, <2>7
<1>9. PICK links : links = Greeted[PeerCount] /\ NetOK(links) /\ NetHonest(K, L, links)
  <2>1. PeerCount \in Nat
    BY PeersCounted
  <2>2. \A i \in 0 .. PeerCount : i \in S
    <3> HIDE DEF S
    <3> QED
      BY <1>7, <1>8, <2>1, Climbs
  <2> QED
    BY <2>1, <2>2
<1>10. HonestInv(K, L, N, links)
  BY <1>3, <1>4, <1>5, <1>9 DEF HonestInv
<1>11. K = [q \in Peer |-> K[q]] /\ L = [q \in Peer |-> L[q]]
  BY <1>2, <1>3
<1>12. HonestOf(N, links)
  BY <1>10, <1>11, HonestIs
<1> QED
  BY <1>2, <1>9, <1>12 DEF HInv, Init

------------------------------------------------------------------------------
\* A call that stands is the next state.
LEMMA HonestBecoming ==
  ASSUME NEW K, NEW L, K = [q \in Peer |-> K[q]], L = [q \in Peer |-> L[q]], HonestInv(K, L, node, net),
         NEW p \in Peer, NEW cut, Stands(K, L, p, cut),
         node' = [node EXCEPT ![p] = cut.node], net' = cut.net
  PROVE  HInv'
<1>1. PICK N2, after : N2 = [node EXCEPT ![p] = cut.node] /\ after = cut.net
  OBVIOUS
<1>2. HonestInv(K, L, N2, after)
  BY <1>1, HonestStep
<1>3. HonestOf(N2, after)
  BY <1>2, HonestIs
<1>4. HonestOf(node', net')
  BY <1>1, <1>3
<1> QED
  BY <1>4 DEF HInv

\* A peer that dies or exits says nothing more.
LEMMA LostIsHonest ==
  ASSUME NEW K, NEW L, K = [q \in Peer |-> K[q]], L = [q \in Peer |-> L[q]], HonestInv(K, L, node, net),
         NEW p \in Peer, net' = Lose(net, p), UNCHANGED node
  PROVE  HInv'
<1>1. PICK after : after = Lose(net, p)
  OBVIOUS
<1>2. NetOK(net) /\ NetHonest(K, L, net)
  BY DEF HonestInv
<1>3. NetOK(after) /\ Moves(net, after)
  BY <1>1, <1>2, LoseMoves
<1>4. NetHonest(K, L, after)
  BY <1>2, <1>3, HonestMoves
<1>5. HonestInv(K, L, node, after)
  BY <1>3, <1>4 DEF HonestInv
<1>6. HonestOf(node, after)
  BY <1>5, HonestIs
<1>7. HonestOf(node', net')
  BY <1>1, <1>6
<1> QED
  BY <1>7 DEF HInv

\* The state of a peer whose session goes on.
LEMMA CutGoes ==
  ASSUME NEW K, NEW L, HonestInv(K, L, node, net), NEW p \in Peer, node[p].state # "Finished"
  PROVE  Going(K, L, p, Cut(p))
<1>1. Upright(K, L, p, node[p]) /\ NetOK(net) /\ NetHonest(K, L, net)
  BY DEF HonestInv
<1>2. PICK n, cut : n = node[p] /\ cut = [node |-> n, net |-> net]
  OBVIOUS
<1>3. Going(K, L, p, cut)
  BY <1>1, <1>2, GoingOn
<1> QED
  BY <1>2, <1>3 DEF Cut

\* Every call of the driver's loop keeps everything honest.
LEMMA DriveIsHonest ==
  ASSUME Works, HInv, NEW p \in Peer, Drive(p)
  PROVE  HInv'
<1>1. PICK K, L : K = [q \in Peer |-> node[q].kernel] /\ L = [q \in Peer |-> node[q].length]
  OBVIOUS
<1>2. HonestInv(K, L, node, net) /\ K = [q \in Peer |-> K[q]] /\ L = [q \in Peer |-> L[q]]
  BY <1>1 DEF HInv, HonestOf
<1>3. PICK n, cut : n = node[p] /\ cut = Cut(p)
  OBVIOUS
<1>4. cut = [node |-> n, net |-> net] /\ cut.node = n /\ cut.net = net
  BY <1>3 DEF Cut
<1>5. /\ Runs(K, L) /\ NetOK(net) /\ NetHonest(K, L, net)
      /\ Upright(K, L, p, n) /\ Settled(p, n)
      /\ n.kernel = K[p] /\ n.length = L[p]
  BY <1>2, <1>3 DEF HonestInv, Upright
<1>6. n.state # "Finished" => Going(K, L, p, cut)
  BY <1>2, <1>3, CutGoes
<1>7. CASE Announce(p)
  <2>1. PICK c : c = AnnounceTurn(cut)
    OBVIOUS
  <2>2. n.state = "Running" /\ Becomes(p, c)
    BY <1>3, <1>7, <2>1 DEF Announce, OwesTurn, Playing
  <2>3. Going(K, L, p, cut)
    BY <1>6, <2>2
  <2>4. Going(K, L, p, c)
    BY <2>1, <2>3, GoingAnnounces
  <2>5. Stands(K, L, p, c)
    BY <2>4, GoingStands
  <2> QED
    BY <1>2, <2>2, <2>5, HonestBecoming DEF Becomes
<1>8. CASE Poll(p)
  <2>1. PICK due \in DueChoices(net, p) : Becomes(p, PollSession(cut, due))
    BY <1>3, <1>8 DEF Poll
  <2>2. PICK c : c = PollSession(cut, due)
    OBVIOUS
  <2>3. Stands(K, L, p, c)
    BY <1>4, <1>5, <2>2, PollStands
  <2> QED
    BY <1>2, <2>1, <2>2, <2>3, HonestBecoming DEF Becomes
<1>9. CASE Step(p)
  <2>1. PICK c, k2 : c = StepTick(cut) /\ k2 = RunTick(n.kernel, n.queue, InvalidCell)
    OBVIOUS
  <2>2. MayStep(n) /\ Becomes(p, c)
    BY <1>3, <1>9, <2>1 DEF Step
  <2>3. PICK K2 : K2 = [o \in Peer |-> IF o = p THEN k2 ELSE K[o]]
    OBVIOUS
  <2>4. Runs(K2, L) /\ Lasting(K, K2) /\ Going(K2, L, p, c)
    BY <1>4, <1>5, <2>1, <2>2, <2>3, GoingSteps
  <2>5. PICK N2, after : N2 = [node EXCEPT ![p] = c.node] /\ after = c.net
    OBVIOUS
  <2>6. \A q \in Peer : q # p => K2[q] = K[q]
    BY <2>3
  <2>7. HonestInv(K2, L, N2, after)
    BY <1>2, <2>4, <2>5, <2>6, HonestTick
  <2>8. K2 = [q \in Peer |-> K2[q]]
    BY <2>3
  <2>9. HonestOf(N2, after)
    BY <1>2, <2>7, <2>8, HonestIs
  <2>10. node' = N2 /\ net' = after
    BY <2>2, <2>5 DEF Becomes
  <2>11. HonestOf(node', net')
    BY <2>9, <2>10
  <2> QED
    BY <2>11 DEF HInv
<1>10. CASE DeclareFinish(p)
  <2>1. PICK last : last = L[p] - 1
    OBVIOUS
  <2>2. PICK c : c = FinishSession(cut, last)
    OBVIOUS
  <2>3. n.state = "Running" /\ Becomes(p, c)
    BY <1>3, <1>5, <1>10, <2>1, <2>2 DEF DeclareFinish, HasRunAll
  <2>4. Going(K, L, p, cut)
    BY <1>6, <2>3
  <2>5. Going(K, L, p, c)
    BY <1>5, <2>1, <2>2, <2>4, GoingFinishes
  <2>6. Stands(K, L, p, c)
    BY <2>5, GoingStands
  <2> QED
    BY <1>2, <2>3, <2>6, HonestBecoming DEF Becomes
<1>11. CASE GiveUp(p)
  <2>1. PICK c : c = [cut EXCEPT !.node = Fail(@, "InvalidArgument")]
    OBVIOUS
  <2>2. n.state = "Running" /\ Becomes(p, c)
    BY <1>3, <1>11, <2>1 DEF GiveUp, MustGiveUp, Playing
  <2>3. Going(K, L, p, cut)
    BY <1>6, <2>2
  <2>4. Going(K, L, p, c)
    BY <2>1, <2>3, GoingFails
  <2>5. Stands(K, L, p, c)
    BY <2>4, GoingStands
  <2> QED
    BY <1>2, <2>2, <2>5, HonestBecoming DEF Becomes
<1>12. CASE Exit(p)
  BY <1>2, <1>12, LostIsHonest DEF Exit
<1> QED
  BY <1>7, <1>8, <1>9, <1>10, <1>11, <1>12 DEF Drive

\* So does every fault, an altered command included.
LEMMA DisturbIsHonest ==
  ASSUME HInv, Disturb
  PROVE  HInv'
<1>1. PICK K, L : K = [q \in Peer |-> node[q].kernel] /\ L = [q \in Peer |-> node[q].length]
  OBVIOUS
<1>2. HonestInv(K, L, node, net) /\ K = [q \in Peer |-> K[q]] /\ L = [q \in Peer |-> L[q]]
  BY <1>1 DEF HInv, HonestOf
<1>3. NetOK(net) /\ NetHonest(K, L, net)
  BY <1>2 DEF HonestInv
<1>4. ASSUME NEW p \in Peer, Crash(p)
      PROVE  HInv'
  BY <1>2, <1>4, LostIsHonest DEF Crash
<1>5. ASSUME NEW p \in Peer, Quit(p)
      PROVE  HInv'
  <2>1. PICK cut, said : cut = Cut(p) /\ said = End(cut)
    OBVIOUS
  <2>2. node[p].state # "Finished"
    BY <1>5 DEF Quit, Live
  <2>3. Going(K, L, p, cut)
    BY <1>2, <2>1, <2>2, CutGoes
  <2>4. Going(K, L, p, said)
    BY <2>1, <2>3, GoingEnds
  <2>5. PICK quit : quit = [said EXCEPT !.node = Fail(@, "Quit")]
    OBVIOUS
  <2>6. Going(K, L, p, quit)
    BY <2>4, <2>5, GoingFails
  <2>7. Stands(K, L, p, quit)
    BY <2>6, GoingStands
  <2>8. quit.node = Fail(said.node, "Quit") /\ quit.net = said.net
    BY <2>4, <2>5 DEF Going
  <2>9. node' = [node EXCEPT ![p] = quit.node] /\ net' = quit.net
    BY <1>5, <2>1, <2>8 DEF Quit
  <2> QED
    BY <1>2, <2>7, <2>9, HonestBecoming
<1>6. ASSUME NEW from \in Peer, NEW to \in Peer, NEW i \in DOMAIN net.pipe[<<from, to>>],
             CorruptCommand(from, to, i)
      PROVE  HInv'
  <2>1. PICK message : message = net.pipe[<<from, to>>][i].message
    OBVIOUS
  <2>2. PICK altered : altered = Altered(message)
    OBVIOUS
  <2>3. PICK after : after = Corrupt(net, from, to, i, altered)
    OBVIOUS
  <2>4. /\ message.type = "Turn" /\ message.commands # <<>>
        /\ net' = after /\ node' = node
    BY <1>6, <2>1, <2>2, <2>3 DEF CorruptCommand, Altered
  <2>5. NetOK(after) /\ NetHonest(K, L, after)
    BY <1>3, <2>1, <2>2, <2>3, <2>4, HonestCorrupt
  <2>6. HonestInv(K, L, node, after)
    BY <1>2, <2>5 DEF HonestInv
  <2>7. HonestOf(node, after)
    BY <1>2, <2>6, HonestIs
  <2>8. HonestOf(node', net')
    BY <2>4, <2>7
  <2> QED
    BY <2>8 DEF HInv
<1> QED
  BY <1>4, <1>5, <1>6 DEF Disturb

\* So does every step.
LEMMA NextIsHonest ==
  ASSUME Works, HInv, [Next]_vars
  PROVE  HInv'
<1>1. CASE \E p \in Peer : Drive(p)
  BY <1>1, DriveIsHonest
<1>2. CASE Disturb
  BY <1>2, DisturbIsHonest
<1>3. CASE UNCHANGED vars
  BY <1>3 DEF vars, HInv
<1> QED
  BY <1>1, <1>2, <1>3 DEF Next

------------------------------------------------------------------------------
\* A remainder is below its divisor, and no greater than what was divided.
LEMMA ModIsBelow ==
  ASSUME NEW f \in Nat, NEW d \in Nat \ {0}
  PROVE  f % d \in 0 .. (d - 1) /\ f - (f % d) \in Nat /\ f - (f % d) <= f
<1>1. f % d \in 0 .. (d - 1)
  OBVIOUS
<1>2. f % d <= f
  OBVIOUS
<1> QED
  BY <1>1, <1>2

\* Between a number and its last multiple of d there is no other.
LEMMA LastMultiple ==
  ASSUME NEW d \in Nat \ {0}, NEW f \in Nat, NEW t \in Nat, t % d = 0, t <= f, t >= f - (f % d)
  PROVE  t = f - (f % d)
<1>1. PICK a, b : a = t \div d /\ b = f \div d
  OBVIOUS
<1>2. t = d * a /\ f = d * b + (f % d) /\ a \in Int /\ b \in Int
  BY <1>1
<1>3. PICK r : r = f % d
  OBVIOUS
<1>4. r \in 0 .. (d - 1)
  BY <1>3, ModIsBelow
<1>5. f = d * b + r /\ d * b <= d * a /\ d * a <= d * b + r
  BY <1>2, <1>3, <1>4
<1>6. a = b
  <2>1. PICK e : e = a - b /\ e \in Int /\ a = b + e
    BY <1>2
  <2>2. d * a = d * b + d * e
    BY <1>2, <2>1
  <2>3. 0 <= d * e /\ d * e < d
    <3>1. d * b \in Int /\ d * e \in Int
      BY <1>2, <2>1
    <3> QED
      BY <1>4, <1>5, <2>2, <3>1
  <2>4. ~ (e >= 1)
    <3>1. SUFFICES ASSUME e >= 1 PROVE FALSE
      OBVIOUS
    <3>2. d * e >= d
      BY <2>1, <3>1
    <3>3. d * e \in Int
      BY <2>1
    <3> QED
      BY <2>3, <3>2, <3>3
  <2>5. ~ (e <= -1)
    <3>1. SUFFICES ASSUME e <= -1 PROVE FALSE
      OBVIOUS
    <3>2. d * e <= -d
      BY <2>1, <3>1
    <3>3. d * e \in Int
      BY <2>1
    <3> QED
      BY <2>3, <3>2, <3>3
  <2>6. e = 0
    BY <2>1, <2>4, <2>5
  <2> QED
    BY <1>2, <2>1, <2>6
<1> QED
  BY <1>2, <1>3, <1>5, <1>6

------------------------------------------------------------------------------
\* What a finished session knows of a partner it still has.
LEMMA SettledWith ==
  ASSUME HInv, NEW p \in Peer, node[p].state = "Finished", NEW q \in Partners(p)
  PROVE  /\ node[q].length = node[p].length
         /\ SameTo(p, q, LastCheck(node[p].finish) + 1)
<1>1. PICK K, L : K = [o \in Peer |-> node[o].kernel] /\ L = [o \in Peer |-> node[o].length]
  OBVIOUS
<1>2. HonestInv(K, L, node, net)
  BY <1>1 DEF HInv, HonestOf
<1>3. PICK n : n = node[p]
  OBVIOUS
<1>4. /\ q \in Peer /\ q \in Others(p) \ n.dropped
      /\ Runs(K, L) /\ Upright(K, L, p, n) /\ Settled(p, n)
  BY <1>2, <1>3 DEF HonestInv, Partners, Others
<1>5. n.peerFinish[q] # NoTick /\ n.compared[q] >= LastCheck(n.finish)
  BY <1>3, <1>4 DEF Settled
<1>6. Declared(L, p, n.state, n.finish, n.peerFinish) /\ ComparedTo(K, p, n.compared)
  BY <1>4 DEF Upright
<1>7. PICK a, b, f : a = L[p] /\ b = L[q] /\ f = n.finish
  OBVIOUS
<1>8. a \in Nat \ {0} /\ b \in Nat \ {0}
  BY <1>4, <1>7 DEF Runs
<1>9. f = a - 1 /\ f # NoTick /\ f \in Nat
  BY <1>3, <1>6, <1>7, <1>8 DEF Declared, NoTick
<1>10. b - 1 = f
  BY <1>4, <1>5, <1>6, <1>7, <1>9 DEF Declared
<1>11. b = a
  BY <1>8, <1>9, <1>10
<1>12. PICK t, l : t = n.compared[q] /\ l = LastCheck(f)
  OBVIOUS
<1>13. Interval \in Nat \ {0} /\ l = f - (f % Interval)
  BY <1>12, ConfigAssumption DEF LastCheck
<1>14. f % Interval \in 0 .. (Interval - 1) /\ l <= f /\ l \in Nat
  BY <1>9, <1>13, ModIsBelow
<1>15. t # NoTick
  BY <1>5, <1>7, <1>12, <1>14 DEF NoTick
<1>16. SameAfter(K, p, q, t)
  BY <1>4, <1>6, <1>12, <1>15 DEF ComparedTo
<1>17. /\ t \in Nat /\ t < K[p].tick /\ t % Interval = 0
       /\ Until(K[p].world, t + 1) = Until(K[q].world, t + 1)
  BY <1>16 DEF SameAfter
<1>18. t <= f
  <2>1. K[p].tick \in Nat /\ K[p].tick <= a
    BY <1>4, <1>7 DEF Runs
  <2> QED
    BY <1>8, <1>9, <1>17, <2>1
<1>19. t = l
  BY <1>5, <1>7, <1>9, <1>12, <1>13, <1>17, <1>18, LastMultiple
<1>20. K[p] = node[p].kernel /\ K[q] = node[q].kernel /\ a = node[p].length /\ b = node[q].length
  BY <1>1, <1>4, <1>7
<1>21. WorldBefore(p, t + 1) = Until(K[p].world, t + 1) /\ WorldBefore(q, t + 1) = Until(K[q].world, t + 1)
  BY <1>20 DEF WorldBefore, Until
<1>22. SameTo(p, q, t + 1)
  BY <1>17, <1>21 DEF SameTo
<1> QED
  BY <1>3, <1>7, <1>11, <1>12, <1>19, <1>20, <1>22

------------------------------------------------------------------------------
\* Every state is honest.
LEMMA EverHonest ==
  ASSUME Works, Lengths \subseteq [Peer -> Nat \ {0}]
  PROVE  Spec => []HInv
<1>1. Init => HInv
  BY InitIsHonest
<1>2. HInv /\ [Next]_vars => HInv'
  BY NextIsHonest
<1> QED
  BY <1>1, <1>2, PTL DEF Spec

\* A run is reported as finished only after the last comparable state of it was
\* compared, and equal, with every partner the session still has: whoever died,
\* was dropped or left, and whatever command the link altered.
THEOREM FinishIsAgreed ==
  ASSUME Works, Lengths \subseteq [Peer -> Nat \ {0}]
  PROVE  Spec => []FinishedIsAgreed
<1>1. HInv => FinishedIsAgreed
  BY SettledWith DEF FinishedIsAgreed
<1>2. Spec => []HInv
  BY EverHonest
<1> QED
  BY <1>1, <1>2, PTL

\* And only where every such partner was told to make a run of the same length.
THEOREM FinishIsOneRun ==
  ASSUME Works, Lengths \subseteq [Peer -> Nat \ {0}]
  PROVE  Spec => []FinishedIsOneRun
<1>1. HInv => FinishedIsOneRun
  BY SettledWith DEF FinishedIsOneRun
<1>2. Spec => []HInv
  BY EverHonest
<1> QED
  BY <1>1, <1>2, PTL

==============================================================================
