--------------------------- MODULE EnetHub_proofs ---------------------------
(***************************************************************************)
(* The socket hub proved for any number of seats, processes and messages,  *)
(* and any behaviour of the transport: it implements RelayAbs, and nothing *)
(* is passed on from a connector that was given up.                        *)
(***************************************************************************)
EXTENDS MCEnetHub, SequenceTheorems, WellFoundedInduction, TLAPS

Msg == [origin : Place, number : Nat]
Item == {Connect, Goodbye, Garbled} \cup [kind : {"index"}, index : Seat]
          \cup [kind : {"packet"}, origin : Place, everyone : BOOLEAN, message : Msg]

Typed ==
  /\ phase \in [Process -> {"idle", "opening", "open", "broken", "closed"}]
  /\ arrived \in Seq(Dialler)
  /\ peers \in [Seat -> Dialler \cup {None}]
  /\ lost \in SUBSET Seat
  /\ index \in [Dialler -> Place]
  /\ ended \in [Process -> BOOLEAN]
  /\ conn \in [Dialler -> {"none", "up", "leaving"}]
  /\ up \in [Dialler -> Seq(Item)]
  /\ down \in [Dialler -> Seq(Item)]
  /\ said \in [Process -> Nat]
  /\ order \in Seq(Msg)
  /\ heard \in [Seat -> Seq(Msg)]

HasArrived(c) == \E n \in DOMAIN arrived : arrived[n] = c

\* Who has arrived is somebody else each time, and the session begins when
\* everybody has.
Arrivals ==
  /\ \A m, n \in DOMAIN arrived : arrived[m] = arrived[n] => m = n
  /\ Len(arrived) <= Size - 1
  /\ phase[Listener] \in {"open", "broken"} => Len(arrived) = Size - 1
  /\ phase[Listener] # "idle"

\* What can be on its way to the listener, and in which place.
ToListener(c) ==
  \A k \in DOMAIN up[c] :
    /\ up[c][k].kind \in {"connect", "garbled", "goodbye", "packet"}
    /\ up[c][k].kind = "connect" => k = 1 /\ index[c] = 0 /\ ~HasArrived(c)
    /\ up[c][k].kind = "garbled" => k = 1
    /\ up[c][k].kind = "goodbye" => k = Len(up[c]) /\ phase[c] = "closed"
    /\ up[c][k].kind = "packet" =>
         /\ index[c] # 0 /\ up[c][k].origin = index[c] /\ up[c][k].everyone
         /\ up[c][k].message.origin = index[c]

\* What can be on its way to a process.
ToConnector(c) ==
  \A k \in DOMAIN down[c] :
    /\ down[c][k].kind \in {"index", "goodbye", "packet"}
    /\ down[c][k].kind = "index" =>
         /\ k = 1 /\ phase[c] = "opening"
         /\ down[c][k].index \in DOMAIN arrived /\ arrived[down[c][k].index] = c
    /\ down[c][k].kind = "goodbye" =>
         /\ k = Len(down[c])
         /\ conn[c] = "up" => phase[Listener] = "closed"

\* How far a process is.
Stage(c) ==
  /\ ToListener(c) /\ ToConnector(c)
  /\ conn[c] = "none" => up[c] = <<>>
  /\ conn[c] = "leaving" => phase[c] = "closed"
  /\ phase[c] = "idle" => conn[c] = "none" /\ down[c] = <<>> /\ ~HasArrived(c)
  /\ phase[c] \in {"idle", "opening"} => index[c] = 0 /\ Len(up[c]) <= 1
  /\ phase[c] = "open" => index[c] # 0
  /\ index[c] # 0 => index[c] \in DOMAIN arrived /\ arrived[index[c]] = c
  /\ phase[c] # "broken"

Stages == \A c \in Dialler : Stage(c)

\* Until everybody is here nothing has been said.
Before ==
  phase[Listener] = "opening" =>
    /\ order = <<>> /\ lost = {} /\ ~ended[Listener] /\ said[Listener] = 0
    /\ \A i \in Seat : peers[i] = None /\ heard[i] = <<>>
    /\ \A c \in Dialler :
         /\ index[c] = 0 /\ said[c] = 0 /\ down[c] = <<>> /\ ~ended[c]
         /\ HasArrived(c) => conn[c] # "none"
         /\ ~HasArrived(c) /\ conn[c] # "none" => First(up[c], "connect")

\* Seats go to arrivals, and are kept by those with a connection.
Seats ==
  /\ \A i \in Seat : peers[i] # None => i \in DOMAIN arrived /\ peers[i] = arrived[i]
  /\ \A i \in lost : peers[i] = None
  /\ Pumping(Listener) => \A i \in Seat : peers[i] = None <=> conn[arrived[i]] = "none"

\* Of place i exactly the first t broadcasts are in the order.
SpokenTo(ord, i, t) ==
  \A n \in Nat : (\E x \in DOMAIN ord : ord[x] = Message(i, n)) <=> n \in 1 .. t

\* What comes before the packets of a channel.
UpGap(chan) == IF chan # <<>> /\ Head(chan).kind # "packet" THEN 1 ELSE 0
DownGap(chan) == IF chan # <<>> /\ Head(chan).kind = "index" THEN 1 ELSE 0

\* The packets of a channel go on from broadcast t.
Queued(chan, t) ==
  \A k \in DOMAIN chan :
    chan[k].kind = "packet" => k > UpGap(chan) /\ chan[k].message.number = t + k - UpGap(chan)

\* Place i: its broadcasts in the order, those under way, and those it has made
\* if it is still open.
Speaks(i, ord, chan, open, n) ==
  \E t \in Nat :
    /\ SpokenTo(ord, i, t)
    /\ Queued(chan, t)
    /\ open => n = t + Len(chan) - UpGap(chan)

Talking(c) == phase[c] # "closed" /\ conn[c] = "up"

SpokenAt(i) ==
  Speaks(i, order, up[arrived[i]], Talking(arrived[i]), said[arrived[i]])

Spoken ==
  Pumping(Listener) =>
    /\ SpokenTo(order, 0, said[Listener])
    /\ \A i \in Seat : SpokenAt(i)

Distinct == \A x, y \in DOMAIN order : order[x] = order[y] => x = y

\* part: where in the order the messages of the others are.
Enumerates(part, ord, i) ==
  /\ \A x \in DOMAIN ord : ord[x].origin # i => \E k \in DOMAIN part : part[k] = x
  /\ \A k \in DOMAIN part : ord[part[k]].origin # i
  /\ \A k, l \in DOMAIN part : k < l => part[k] < part[l]

\* What seat i has heard and what is on its way to it go on from one another.
Follows(part, ord, hrd, chan, i) ==
  /\ Len(hrd) <= Len(part) /\ \A k \in DOMAIN hrd : hrd[k] = ord[part[k]]
  /\ \A k \in DOMAIN chan : chan[k].kind = "packet" =>
       /\ k > DownGap(chan) /\ Len(hrd) + k - DownGap(chan) <= Len(part)
       /\ chan[k].message = ord[part[Len(hrd) + k - DownGap(chan)]]
       /\ chan[k].origin # i /\ ~chan[k].everyone

Hears(i, ord, hrd, chan, live) ==
  \E part \in Seq(DOMAIN ord) :
    /\ Enumerates(part, ord, i)
    /\ Follows(part, ord, hrd, chan, i)
    /\ live => Len(hrd) + Len(chan) - DownGap(chan) = Len(part)

\* A connector to which the listener keeps its word.
Live(i) == Pumping(Listener) /\ peers[i] # None /\ conn[arrived[i]] = "up"

HeardAt(i) ==
  ~ended[arrived[i]] /\ phase[arrived[i]] # "closed" =>
    Hears(i, order, heard[i], down[arrived[i]], Live(i))

Heard == phase[Listener] # "opening" => \A i \in DOMAIN arrived : HeardAt(i)

IInv == Typed /\ Arrivals /\ Stages /\ Before /\ Seats /\ Spoken /\ Distinct /\ Heard

------------------------------------------------------------------------------
(* Channels.                                                                *)

LEMMA HeadAndTail ==
  ASSUME NEW S, NEW s \in Seq(S), s # <<>>
  PROVE  /\ Tail(s) \in Seq(S) /\ Len(Tail(s)) = Len(s) - 1 /\ Len(s) \in Nat /\ Len(s) > 0
         /\ DOMAIN s = 1 .. Len(s) /\ DOMAIN Tail(s) = 1 .. (Len(s) - 1)
         /\ Head(s) = s[1] /\ Head(s) \in S
         /\ \A k \in DOMAIN Tail(s) : Tail(s)[k] = s[k + 1] /\ k + 1 \in DOMAIN s
OBVIOUS

LEMMA OneMore ==
  ASSUME NEW S, NEW s \in Seq(S), NEW e \in S
  PROVE  /\ Append(s, e) \in Seq(S) /\ Len(Append(s, e)) = Len(s) + 1 /\ Len(s) \in Nat
         /\ DOMAIN s = 1 .. Len(s) /\ DOMAIN Append(s, e) = 1 .. (Len(s) + 1)
         /\ Append(s, e)[Len(s) + 1] = e
         /\ \A k \in DOMAIN s : Append(s, e)[k] = s[k]
         /\ Append(s, e) # <<>>
         /\ Head(Append(s, e)) = IF s = <<>> THEN e ELSE Head(s)
<1>1. /\ Append(s, e) \in Seq(S) /\ Len(Append(s, e)) = Len(s) + 1 /\ Len(s) \in Nat
      /\ DOMAIN s = 1 .. Len(s) /\ DOMAIN Append(s, e) = 1 .. (Len(s) + 1)
      /\ Append(s, e)[Len(s) + 1] = e
      /\ \A k \in DOMAIN s : Append(s, e)[k] = s[k]
      /\ Append(s, e) # <<>>
  OBVIOUS
<1>2. Head(Append(s, e)) = Append(s, e)[1]
  BY <1>1
<1>3. CASE s = <<>>
  BY <1>1, <1>2, <1>3
<1>4. CASE s # <<>>
  BY <1>1, <1>2, <1>4
<1> QED
  BY <1>1, <1>3, <1>4

\* What kinds of items there are, and what a packet holds.
LEMMA Items ==
  /\ Connect \in Item /\ Goodbye \in Item /\ Garbled \in Item
  /\ Connect.kind = "connect" /\ Goodbye.kind = "goodbye" /\ Garbled.kind = "garbled"
  /\ \A i \in Seat : YouAre(i) \in Item /\ YouAre(i).kind = "index" /\ YouAre(i).index = i
  /\ \A o \in Place, e \in BOOLEAN, m \in Msg :
       /\ Packet(o, e, m) \in Item /\ Packet(o, e, m).kind = "packet"
       /\ Packet(o, e, m).origin = o /\ Packet(o, e, m).everyone = e /\ Packet(o, e, m).message = m
  /\ \A item \in Item : item.kind = "packet" =>
       item.origin \in Place /\ item.everyone \in BOOLEAN /\ item.message \in Msg
  /\ \A item \in Item : item.kind = "index" => item.index \in Seat
  /\ \A item \in Item : item.kind \in {"connect", "goodbye", "garbled", "index", "packet"}
<1>1. /\ Connect.kind = "connect" /\ Goodbye.kind = "goodbye" /\ Garbled.kind = "garbled"
      /\ Connect \in Item /\ Goodbye \in Item /\ Garbled \in Item
  BY DEF Connect, Goodbye, Garbled, Item
<1>2. \A i \in Seat : YouAre(i) \in Item /\ YouAre(i).kind = "index" /\ YouAre(i).index = i
  BY DEF YouAre, Item
<1>3. \A o \in Place, e \in BOOLEAN, m \in Msg :
        /\ Packet(o, e, m) \in Item /\ Packet(o, e, m).kind = "packet"
        /\ Packet(o, e, m).origin = o /\ Packet(o, e, m).everyone = e /\ Packet(o, e, m).message = m
  BY DEF Packet, Item
<1>4. \A item \in Item : item.kind = "packet" =>
        item.origin \in Place /\ item.everyone \in BOOLEAN /\ item.message \in Msg
  BY <1>1 DEF Item
<1>5. \A item \in Item : item.kind = "index" => item.index \in Seat
  BY <1>1 DEF Item
<1>6. \A item \in Item : item.kind \in {"connect", "goodbye", "garbled", "index", "packet"}
  BY <1>1 DEF Item
<1> QED
  BY <1>1, <1>2, <1>3, <1>4, <1>5, <1>6

LEMMA Messages ==
  \A i \in Place, n \in Nat :
    /\ Message(i, n) \in Msg /\ Message(i, n).origin = i /\ Message(i, n).number = n
    /\ \A m \in Msg : m = Message(m.origin, m.number)
    /\ \A j \in Place, l \in Nat : Message(i, n) = Message(j, l) <=> i = j /\ n = l
BY DEF Message, Msg

LEMMA Numbers ==
  /\ Size \in Nat /\ Size >= 2 /\ Seat = 1 .. (Size - 1)
  /\ Seat \subseteq Place /\ 0 \in Place /\ 0 \notin Seat /\ \A i \in Place : i # 0 => i \in Seat
  /\ Listener \notin Dialler /\ None \notin Dialler
  /\ Listener \in Process /\ \A c \in Dialler : c \in Process /\ c # Listener
BY HubAssumption DEF Seat, Place, Process
------------------------------------------------------------------------------
(* What a place has said: how the packets under way go on from the order.   *)

\* A channel to the listener: one item before the packets, a goodbye after them.
UpShape(chan, open) ==
  \A k \in DOMAIN chan :
    /\ chan[k].kind \in {"connect", "garbled", "goodbye", "packet"}
    /\ chan[k].kind \in {"connect", "garbled"} => k = 1
    /\ chan[k].kind = "goodbye" => k = Len(chan) /\ ~open

LEMMA SpeaksLess ==
  ASSUME NEW i, NEW ord, NEW chan, NEW open, NEW n, NEW open2, NEW n2,
         Speaks(i, ord, chan, open, n), open2 => open /\ n2 = n
  PROVE  Speaks(i, ord, chan, open2, n2)
BY DEF Speaks

LEMMA SpeaksGone ==
  ASSUME NEW i, NEW ord, NEW chan, NEW open, NEW n, NEW n2,
         Speaks(i, ord, chan, open, n)
  PROVE  Speaks(i, ord, <<>>, FALSE, n2)
BY DEF Speaks, Queued

\* The item before the packets is taken.
LEMMA SpeaksPop ==
  ASSUME NEW i, NEW ord, NEW chan \in Seq(Item), NEW open \in BOOLEAN, NEW n,
         Speaks(i, ord, chan, open, n), UpShape(chan, open),
         chan # <<>>, Head(chan).kind # "packet"
  PROVE  Speaks(i, ord, Tail(chan), open, n)
<1>1. PICK t \in Nat : /\ SpokenTo(ord, i, t) /\ Queued(chan, t)
                       /\ open => n = t + Len(chan) - UpGap(chan)
  BY DEF Speaks
<1>2. UpGap(chan) = 1
  BY DEF UpGap
<1>t. /\ Tail(chan) \in Seq(Item) /\ Len(Tail(chan)) = Len(chan) - 1 /\ Len(chan) \in Nat /\ Len(chan) > 0
      /\ DOMAIN chan = 1 .. Len(chan) /\ DOMAIN Tail(chan) = 1 .. (Len(chan) - 1)
      /\ \A k \in DOMAIN Tail(chan) : Tail(chan)[k] = chan[k + 1] /\ k + 1 \in DOMAIN chan
  BY HeadAndTail
<1>h. Tail(chan) # <<>> => Head(Tail(chan)) = Tail(chan)[1] /\ 1 \in DOMAIN Tail(chan)
  BY <1>t, HeadAndTail
<1>3. ASSUME NEW k \in DOMAIN Tail(chan), Tail(chan)[k].kind = "packet"
      PROVE  UpGap(Tail(chan)) = 0
  <2>1. Tail(chan)[1] = chan[2] /\ 2 \in DOMAIN chan /\ 1 \in DOMAIN Tail(chan)
    BY <1>t, <1>3
  <2>2. chan[2].kind = "goodbye" => Len(chan) = 2 /\ k = 1
    BY <2>1, <1>t, <1>3 DEF UpShape
  <2>3. chan[2].kind = "packet"
    BY <2>1, <2>2, <1>3 DEF UpShape
  <2> QED
    BY <2>1, <2>3, <1>h DEF UpGap
<1>4. Queued(Tail(chan), t)
  BY <1>1, <1>2, <1>3, <1>t DEF Queued
<1>5. open => UpGap(Tail(chan)) = 0
  <2>1. CASE Tail(chan) = <<>>
    BY <2>1 DEF UpGap
  <2>2. CASE Tail(chan) # <<>>
    <3>1. Head(Tail(chan)) = chan[2] /\ 2 \in DOMAIN chan
      BY <2>2, <1>h, <1>t
    <3> QED
      BY <3>1, <2>2 DEF UpGap, UpShape
  <2> QED
    BY <2>1, <2>2
<1> QED
  BY <1>1, <1>2, <1>4, <1>5, <1>t DEF Speaks

LEMMA SpokenNext ==
  ASSUME NEW i \in Place, NEW j \in Place, NEW n \in Nat, NEW t \in Nat,
         NEW ord \in Seq(Msg), SpokenTo(ord, i, t),
         j = i => n = t + 1
  PROVE  SpokenTo(Append(ord, Message(j, n)), i, IF j = i THEN t + 1 ELSE t)
<1>1. Message(j, n) \in Msg
  BY Messages
<1>2. /\ DOMAIN ord = 1 .. Len(ord) /\ Len(ord) \in Nat
      /\ DOMAIN Append(ord, Message(j, n)) = 1 .. (Len(ord) + 1)
      /\ Append(ord, Message(j, n))[Len(ord) + 1] = Message(j, n)
      /\ \A k \in DOMAIN ord : Append(ord, Message(j, n))[k] = ord[k]
  BY <1>1, OneMore
<1>3. ASSUME NEW l \in Nat
      PROVE  (\E x \in DOMAIN Append(ord, Message(j, n)) : Append(ord, Message(j, n))[x] = Message(i, l))
               <=> (\E x \in DOMAIN ord : ord[x] = Message(i, l)) \/ Message(j, n) = Message(i, l)
  BY <1>2
<1>4. \A l \in Nat : Message(j, n) = Message(i, l) <=> i = j /\ l = n
  BY Messages
<1>5. ASSUME NEW l \in Nat
      PROVE  (\E x \in DOMAIN Append(ord, Message(j, n)) : Append(ord, Message(j, n))[x] = Message(i, l))
               <=> l \in 1 .. (IF j = i THEN t + 1 ELSE t)
  <2>1. (\E x \in DOMAIN ord : ord[x] = Message(i, l)) <=> l \in 1 .. t
    BY DEF SpokenTo
  <2>2. CASE j = i
    <3>1. l \in 1 .. (t + 1) <=> l \in 1 .. t \/ l = t + 1
      OBVIOUS
    <3> QED
      BY <1>3, <1>4, <2>1, <2>2, <3>1
  <2>3. CASE j # i
    BY <1>3, <1>4, <2>1, <2>3
  <2> QED
    BY <2>2, <2>3
<1> QED
  BY <1>5 DEF SpokenTo

\* The packet at the head is taken into the order.
LEMMA SpeaksHead ==
  ASSUME NEW i \in Place, NEW ord, NEW chan \in Seq(Item), NEW open \in BOOLEAN,
         NEW t \in Nat, SpokenTo(ord, i, t), Queued(chan, t),
         UpShape(chan, open), First(chan, "packet"), Head(chan).message.origin = i
  PROVE  /\ Head(chan).message = Message(i, t + 1)
         /\ Queued(Tail(chan), t + 1)
         /\ open => t + Len(chan) - UpGap(chan) = t + 1 + Len(Tail(chan)) - UpGap(Tail(chan))
<1>t. /\ Tail(chan) \in Seq(Item) /\ Len(Tail(chan)) = Len(chan) - 1 /\ Len(chan) \in Nat /\ Len(chan) > 0
      /\ DOMAIN chan = 1 .. Len(chan) /\ DOMAIN Tail(chan) = 1 .. (Len(chan) - 1)
      /\ Head(chan) = chan[1] /\ Head(chan) \in Item /\ chan # <<>> /\ Head(chan).kind = "packet"
      /\ \A k \in DOMAIN Tail(chan) : Tail(chan)[k] = chan[k + 1] /\ k + 1 \in DOMAIN chan
  BY HeadAndTail DEF First
<1>2. UpGap(chan) = 0
  BY <1>t DEF UpGap
<1>3. Head(chan).message.number = t + 1
  BY <1>t, <1>2 DEF Queued
<1>4. Head(chan).message = Message(i, t + 1)
  <2>1. Head(chan).message \in Msg
    BY <1>t, Items
  <2>2. Head(chan).message = Message(Head(chan).message.origin, Head(chan).message.number)
    BY <2>1, Messages DEF Msg
  <2> QED
    BY <1>3, <2>2
<1>h. Tail(chan) # <<>> => Head(Tail(chan)) = chan[2] /\ 2 \in DOMAIN chan /\ 1 \in DOMAIN Tail(chan)
  BY <1>t, HeadAndTail
<1>5. ASSUME NEW k \in DOMAIN Tail(chan), Tail(chan)[k].kind = "packet"
      PROVE  UpGap(Tail(chan)) = 0
  <2>1. Tail(chan)[1] = chan[2] /\ 2 \in DOMAIN chan /\ 1 \in DOMAIN Tail(chan)
    BY <1>t, <1>5
  <2>2. chan[2].kind = "goodbye" => Len(chan) = 2 /\ k = 1
    BY <2>1, <1>t, <1>5 DEF UpShape
  <2>3. chan[2].kind = "packet"
    BY <2>1, <2>2, <1>5 DEF UpShape
  <2> QED
    BY <2>1, <2>3, <1>h DEF UpGap
<1>6. Queued(Tail(chan), t + 1)
  BY <1>2, <1>5, <1>t DEF Queued
<1>7. open => UpGap(Tail(chan)) = 0
  BY <1>h DEF UpGap, UpShape
<1> QED
  BY <1>2, <1>4, <1>6, <1>7, <1>t

\* A packet with the next number is put at the end.
LEMMA SpeaksMore ==
  ASSUME NEW i \in Place, NEW ord, NEW chan \in Seq(Item), NEW n \in Nat, NEW packet \in Item,
         Speaks(i, ord, chan, TRUE, n), UpShape(chan, TRUE),
         packet.kind = "packet", packet.message.number = n + 1
  PROVE  Speaks(i, ord, Append(chan, packet), TRUE, n + 1)
<1>1. PICK t \in Nat : /\ SpokenTo(ord, i, t) /\ Queued(chan, t)
                       /\ n = t + Len(chan) - UpGap(chan)
  BY DEF Speaks
<1>2. /\ Len(Append(chan, packet)) = Len(chan) + 1 /\ Len(chan) \in Nat
      /\ DOMAIN chan = 1 .. Len(chan) /\ DOMAIN Append(chan, packet) = 1 .. (Len(chan) + 1)
      /\ Append(chan, packet)[Len(chan) + 1] = packet
      /\ \A k \in DOMAIN chan : Append(chan, packet)[k] = chan[k]
      /\ Append(chan, packet) # <<>>
      /\ Head(Append(chan, packet)) = IF chan = <<>> THEN packet ELSE Head(chan)
  BY OneMore
<1>3. UpGap(Append(chan, packet)) = UpGap(chan)
  BY <1>2 DEF UpGap
<1>4. UpGap(chan) \in {0, 1} /\ UpGap(chan) <= Len(chan)
  <2>1. chan # <<>> => Len(chan) > 0
    BY HeadAndTail
  <2> QED
    BY <1>2, <2>1 DEF UpGap
<1>5. Queued(Append(chan, packet), t)
  <2>1. ASSUME NEW k \in DOMAIN Append(chan, packet), Append(chan, packet)[k].kind = "packet"
        PROVE  k > UpGap(chan) /\ Append(chan, packet)[k].message.number = t + k - UpGap(chan)
    <3>1. CASE k \in DOMAIN chan
      BY <3>1, <2>1, <1>1, <1>2 DEF Queued
    <3>2. CASE k = Len(chan) + 1
      BY <3>2, <1>1, <1>2, <1>4
    <3> QED
      BY <3>1, <3>2, <1>2
  <2> QED
    BY <2>1, <1>3 DEF Queued
<1> QED
  BY <1>1, <1>2, <1>3, <1>4, <1>5 DEF Speaks

\* Something that is no packet is put at the end.
LEMMA SpeaksBye ==
  ASSUME NEW i, NEW ord, NEW chan \in Seq(Item), NEW open, NEW open2, NEW n, NEW item \in Item,
         Speaks(i, ord, chan, open, n), item.kind # "packet",
         open2 => open /\ chan = <<>>
  PROVE  Speaks(i, ord, Append(chan, item), open2, n)
<1>1. PICK t \in Nat : /\ SpokenTo(ord, i, t) /\ Queued(chan, t)
                       /\ open => n = t + Len(chan) - UpGap(chan)
  BY DEF Speaks
<1>2. /\ Len(Append(chan, item)) = Len(chan) + 1 /\ Len(chan) \in Nat
      /\ DOMAIN chan = 1 .. Len(chan) /\ DOMAIN Append(chan, item) = 1 .. (Len(chan) + 1)
      /\ Append(chan, item)[Len(chan) + 1] = item
      /\ \A k \in DOMAIN chan : Append(chan, item)[k] = chan[k]
      /\ Append(chan, item) # <<>>
      /\ Head(Append(chan, item)) = IF chan = <<>> THEN item ELSE Head(chan)
  BY OneMore
<1>3. chan # <<>> => UpGap(Append(chan, item)) = UpGap(chan)
  BY <1>2 DEF UpGap
<1>4. Queued(Append(chan, item), t)
  BY <1>1, <1>2, <1>3 DEF Queued
<1>5. chan = <<>> => UpGap(Append(chan, item)) = 1 /\ UpGap(chan) = 0 /\ Len(chan) = 0
  BY <1>2 DEF UpGap
<1> QED
  BY <1>1, <1>2, <1>4, <1>5 DEF Speaks

------------------------------------------------------------------------------
(* What a seat hears: how what is on its way goes on from what it has heard. *)

\* A channel to a process: the seat before the packets, a goodbye after them.
DownShape(chan, live) ==
  \A k \in DOMAIN chan :
    /\ chan[k].kind \in {"index", "goodbye", "packet"}
    /\ chan[k].kind = "index" => k = 1
    /\ chan[k].kind = "goodbye" => k = Len(chan) /\ ~live

LEMMA HearsLess ==
  ASSUME NEW i, NEW ord, NEW hrd, NEW chan, NEW live, NEW live2,
         Hears(i, ord, hrd, chan, live), live2 => live
  PROVE  Hears(i, ord, hrd, chan, live2)
BY DEF Hears

LEMMA HearsGone ==
  ASSUME NEW i, NEW ord, NEW hrd, NEW chan, NEW live,
         Hears(i, ord, hrd, chan, live)
  PROVE  Hears(i, ord, hrd, <<>>, FALSE)
BY DEF Hears, Follows

\* Before anything is said.
LEMMA HearsNothing ==
  ASSUME NEW i, NEW chan \in Seq(Item), NEW live,
         \A k \in DOMAIN chan : chan[k].kind # "packet",
         live => chan # <<>> /\ Len(chan) = 1 /\ Head(chan).kind = "index"
  PROVE  Hears(i, <<>>, <<>>, chan, live)
<1>1. <<>> \in Seq(DOMAIN <<>>) /\ Len(<<>>) = 0 /\ DOMAIN <<>> = {}
  OBVIOUS
<1>2. Enumerates(<<>>, <<>>, i)
  BY <1>1 DEF Enumerates
<1>3. Follows(<<>>, <<>>, <<>>, chan, i)
  BY <1>1 DEF Follows
<1>4. live => Len(<<>>) + Len(chan) - DownGap(chan) = Len(<<>>)
  BY <1>1 DEF DownGap
<1> QED
  BY <1>1, <1>2, <1>3, <1>4 DEF Hears

LEMMA FollowsGrown ==
  ASSUME NEW i, NEW ord, NEW ord2, NEW hrd \in Seq(Msg), NEW chan \in Seq(Item),
         NEW part \in Seq(Nat), NEW part2 \in Seq(Nat),
         Len(part) <= Len(part2),
         \A k \in 1 .. Len(part) : part2[k] = part[k] /\ ord2[part[k]] = ord[part[k]],
         Follows(part, ord, hrd, chan, i)
  PROVE  Follows(part2, ord2, hrd, chan, i)
<1>1. /\ Len(part) \in Nat /\ Len(part2) \in Nat /\ Len(hrd) \in Nat /\ Len(chan) \in Nat
      /\ DOMAIN hrd = 1 .. Len(hrd) /\ DOMAIN chan = 1 .. Len(chan)
      /\ DownGap(chan) \in {0, 1}
  BY DEF DownGap
<1>2. /\ Len(hrd) <= Len(part2)
      /\ \A k \in DOMAIN hrd : hrd[k] = ord2[part2[k]]
  <2>1. Len(hrd) <= Len(part) /\ \A k \in DOMAIN hrd : hrd[k] = ord[part[k]]
    BY DEF Follows
  <2>2. \A k \in DOMAIN hrd : k \in 1 .. Len(part)
    BY <2>1, <1>1
  <2>3. ASSUME NEW k \in DOMAIN hrd
        PROVE  hrd[k] = ord2[part2[k]]
    BY <2>1, <2>2
  <2> QED
    BY <2>1, <2>3, <1>1
<1>3. ASSUME NEW k \in DOMAIN chan, chan[k].kind = "packet"
      PROVE  /\ k > DownGap(chan) /\ Len(hrd) + k - DownGap(chan) <= Len(part2)
             /\ chan[k].message = ord2[part2[Len(hrd) + k - DownGap(chan)]]
             /\ chan[k].origin # i /\ ~chan[k].everyone
  <2>1. /\ k > DownGap(chan) /\ Len(hrd) + k - DownGap(chan) <= Len(part)
        /\ chan[k].message = ord[part[Len(hrd) + k - DownGap(chan)]]
        /\ chan[k].origin # i /\ ~chan[k].everyone
    BY <1>3 DEF Follows
  <2>2. Len(hrd) + k - DownGap(chan) \in 1 .. Len(part)
    BY <2>1, <1>1
  <2>3. Len(hrd) + k - DownGap(chan) <= Len(part2)
    BY <2>1, <1>1
  <2> QED
    BY <2>1, <2>2, <2>3
<1> QED
  BY <1>2, <1>3 DEF Follows

\* The seat's own broadcast takes a place in the order.
LEMMA HearsOwn ==
  ASSUME NEW i, NEW ord \in Seq(Msg), NEW m \in Msg, NEW hrd \in Seq(Msg),
         NEW chan \in Seq(Item), NEW live,
         Hears(i, ord, hrd, chan, live), m.origin = i
  PROVE  Hears(i, Append(ord, m), hrd, chan, live)
<1>1. PICK part \in Seq(DOMAIN ord) :
        /\ Enumerates(part, ord, i) /\ Follows(part, ord, hrd, chan, i)
        /\ live => Len(hrd) + Len(chan) - DownGap(chan) = Len(part)
  BY DEF Hears
<1>2. /\ DOMAIN ord = 1 .. Len(ord) /\ Len(ord) \in Nat
      /\ DOMAIN Append(ord, m) = 1 .. (Len(ord) + 1) /\ Append(ord, m)[Len(ord) + 1] = m
      /\ \A k \in DOMAIN ord : Append(ord, m)[k] = ord[k]
  BY OneMore
<1>3. /\ part \in Seq(DOMAIN Append(ord, m)) /\ part \in Seq(Nat)
      /\ \A k \in DOMAIN part : part[k] \in DOMAIN ord /\ DOMAIN part = 1 .. Len(part) /\ Len(part) \in Nat
  BY <1>2
<1>4. Enumerates(part, Append(ord, m), i)
  BY <1>1, <1>2, <1>3 DEF Enumerates
<1>5. Follows(part, Append(ord, m), hrd, chan, i)
  <2>1. \A k \in 1 .. Len(part) : Append(ord, m)[part[k]] = ord[part[k]]
    BY <1>2, <1>3
  <2>2. Len(part) <= Len(part)
    BY <1>3
  <2> QED
    BY <1>1, <1>3, <2>1, <2>2, FollowsGrown
<1> QED
  BY <1>1, <1>3, <1>4, <1>5 DEF Hears

\* Another's broadcast takes a place: where the messages of others are has one more.
LEMMA OthersGrown ==
  ASSUME NEW i, NEW ord \in Seq(Msg), NEW m \in Msg, m.origin # i,
         NEW part \in Seq(DOMAIN ord), Enumerates(part, ord, i)
  PROVE  /\ Append(part, Len(ord) + 1) \in Seq(DOMAIN Append(ord, m))
         /\ Append(part, Len(ord) + 1) \in Seq(Nat) /\ part \in Seq(Nat)
         /\ Len(Append(part, Len(ord) + 1)) = Len(part) + 1 /\ Len(part) \in Nat
         /\ \A k \in 1 .. Len(part) :
              /\ Append(part, Len(ord) + 1)[k] = part[k]
              /\ Append(ord, m)[part[k]] = ord[part[k]]
         /\ Append(ord, m)[Append(part, Len(ord) + 1)[Len(part) + 1]] = m
         /\ Enumerates(Append(part, Len(ord) + 1), Append(ord, m), i)
<1>2. /\ DOMAIN ord = 1 .. Len(ord) /\ Len(ord) \in Nat
      /\ DOMAIN Append(ord, m) = 1 .. (Len(ord) + 1) /\ Append(ord, m)[Len(ord) + 1] = m
      /\ \A k \in DOMAIN ord : Append(ord, m)[k] = ord[k]
  BY OneMore
<1>3. /\ part \in Seq(DOMAIN Append(ord, m)) /\ part \in Seq(Nat)
      /\ DOMAIN part = 1 .. Len(part) /\ Len(part) \in Nat
      /\ \A k \in DOMAIN part : part[k] \in DOMAIN ord
  BY <1>2
<1>4. PICK longer : longer = Append(part, Len(ord) + 1)
  OBVIOUS
<1>5. /\ longer \in Seq(DOMAIN Append(ord, m)) /\ longer \in Seq(Nat) /\ Len(longer) = Len(part) + 1
      /\ DOMAIN longer = 1 .. (Len(part) + 1) /\ longer[Len(part) + 1] = Len(ord) + 1
      /\ \A k \in DOMAIN part : longer[k] = part[k]
  BY <1>2, <1>3, <1>4
<1>6. ASSUME NEW x \in DOMAIN Append(ord, m), Append(ord, m)[x].origin # i
      PROVE  \E k \in DOMAIN longer : longer[k] = x
  <2>1. CASE x \in DOMAIN ord
    <3>1. PICK k \in DOMAIN part : part[k] = x
      BY <2>1, <1>6, <1>2 DEF Enumerates
    <3>2. k \in DOMAIN longer /\ longer[k] = x
      BY <3>1, <1>3, <1>5
    <3> QED
      BY <3>2
  <2>2. CASE x = Len(ord) + 1
    <3>1. Len(part) + 1 \in DOMAIN longer /\ longer[Len(part) + 1] = x
      BY <2>2, <1>3, <1>5
    <3> QED
      BY <3>1
  <2> QED
    BY <2>1, <2>2, <1>2
<1>7. ASSUME NEW k \in DOMAIN longer
      PROVE  Append(ord, m)[longer[k]].origin # i
  <2>1. CASE k \in DOMAIN part
    BY <2>1, <1>2, <1>3, <1>5 DEF Enumerates
  <2>2. CASE k = Len(part) + 1
    BY <2>2, <1>2, <1>5
  <2>3. k \in DOMAIN part \/ k = Len(part) + 1
    BY <1>3, <1>5
  <2> QED
    BY <2>1, <2>2, <2>3
<1>8. ASSUME NEW k \in DOMAIN longer, NEW l \in DOMAIN longer, k < l
      PROVE  longer[k] < longer[l]
  <2>1. k \in DOMAIN part
    BY <1>8, <1>3, <1>5
  <2>2. CASE l \in DOMAIN part
    BY <2>1, <2>2, <1>5, <1>8 DEF Enumerates
  <2>3. CASE l = Len(part) + 1
    BY <2>1, <2>3, <1>2, <1>3, <1>5
  <2> QED
    BY <2>2, <2>3, <1>3, <1>5
<1>9. Enumerates(longer, Append(ord, m), i)
  BY <1>6, <1>7, <1>8 DEF Enumerates
<1>10. \A k \in 1 .. Len(part) : longer[k] = part[k] /\ Append(ord, m)[part[k]] = ord[part[k]]
  BY <1>2, <1>3, <1>5
<1> QED
  BY <1>2, <1>3, <1>4, <1>5, <1>9, <1>10

\* It is not passed on to the seat, to which no word has to be kept any more.
LEMMA HearsMissed ==
  ASSUME NEW i, NEW ord \in Seq(Msg), NEW m \in Msg, NEW hrd \in Seq(Msg),
         NEW chan \in Seq(Item), NEW live,
         Hears(i, ord, hrd, chan, live), m.origin # i
  PROVE  Hears(i, Append(ord, m), hrd, chan, FALSE)
<1>1. PICK part \in Seq(DOMAIN ord) :
        Enumerates(part, ord, i) /\ Follows(part, ord, hrd, chan, i)
  BY DEF Hears
<1>2. PICK longer : longer = Append(part, Len(ord) + 1)
  OBVIOUS
<1>3. /\ longer \in Seq(DOMAIN Append(ord, m)) /\ longer \in Seq(Nat) /\ part \in Seq(Nat)
      /\ Len(longer) = Len(part) + 1 /\ Len(part) \in Nat
      /\ \A k \in 1 .. Len(part) : longer[k] = part[k] /\ Append(ord, m)[part[k]] = ord[part[k]]
      /\ Enumerates(longer, Append(ord, m), i)
  <2>1. Enumerates(part, ord, i)
    BY <1>1
  <2>2. Append(part, Len(ord) + 1) = longer
    BY <1>2
  <2>3. /\ longer \in Seq(DOMAIN Append(ord, m)) /\ longer \in Seq(Nat) /\ part \in Seq(Nat)
        /\ Len(longer) = Len(part) + 1 /\ Len(part) \in Nat
    BY <2>1, <2>2, OthersGrown
  <2>4. \A k \in 1 .. Len(part) : longer[k] = part[k] /\ Append(ord, m)[part[k]] = ord[part[k]]
    BY <2>1, <2>2, OthersGrown
  <2>5. Enumerates(longer, Append(ord, m), i)
    BY <2>1, <2>2, OthersGrown
  <2> QED
    BY <2>3, <2>4, <2>5
<1>4. Len(part) <= Len(longer)
  BY <1>3
<1>5. Follows(longer, Append(ord, m), hrd, chan, i)
  BY <1>1, <1>3, <1>4, FollowsGrown
<1> QED
  BY <1>3, <1>5 DEF Hears

\* It is passed on.
LEMMA HearsMore ==
  ASSUME NEW i, NEW ord \in Seq(Msg), NEW m \in Msg, NEW hrd \in Seq(Msg),
         NEW chan \in Seq(Item), NEW packet \in Item,
         Hears(i, ord, hrd, chan, TRUE), m.origin # i,
         packet.kind = "packet", packet.message = m, packet.origin # i, ~packet.everyone
  PROVE  Hears(i, Append(ord, m), hrd, Append(chan, packet), TRUE)
<1>1. PICK part \in Seq(DOMAIN ord) :
        /\ Enumerates(part, ord, i) /\ Follows(part, ord, hrd, chan, i)
        /\ Len(hrd) + Len(chan) - DownGap(chan) = Len(part)
  BY DEF Hears
<1>2. PICK longer : longer = Append(part, Len(ord) + 1)
  OBVIOUS
<1>3. /\ longer \in Seq(DOMAIN Append(ord, m)) /\ longer \in Seq(Nat) /\ part \in Seq(Nat)
      /\ Len(longer) = Len(part) + 1 /\ Len(part) \in Nat
      /\ \A k \in 1 .. Len(part) : longer[k] = part[k] /\ Append(ord, m)[part[k]] = ord[part[k]]
      /\ Enumerates(longer, Append(ord, m), i)
      /\ Append(ord, m)[longer[Len(part) + 1]] = m
  BY <1>1, <1>2, OthersGrown
<1>4. Len(part) <= Len(longer)
  BY <1>3
<1>5. Follows(longer, Append(ord, m), hrd, chan, i)
  BY <1>1, <1>3, <1>4, FollowsGrown
<1>6. PICK fuller : fuller = Append(chan, packet)
  OBVIOUS
<1>7. /\ fuller \in Seq(Item) /\ Len(fuller) = Len(chan) + 1 /\ Len(chan) \in Nat
      /\ DOMAIN chan = 1 .. Len(chan) /\ DOMAIN fuller = 1 .. (Len(chan) + 1)
      /\ fuller[Len(chan) + 1] = packet /\ \A k \in DOMAIN chan : fuller[k] = chan[k]
      /\ fuller # <<>> /\ Head(fuller) = IF chan = <<>> THEN packet ELSE Head(chan)
  BY <1>6, OneMore
<1>8. DownGap(fuller) = DownGap(chan) /\ DownGap(chan) \in {0, 1} /\ DownGap(chan) <= Len(chan)
  <2>1. chan # <<>> => Len(chan) > 0
    BY HeadAndTail
  <2> QED
    BY <1>7, <2>1 DEF DownGap
<1>h. Len(hrd) \in Nat
  OBVIOUS
<1>9. ASSUME NEW k \in DOMAIN fuller, fuller[k].kind = "packet"
      PROVE  /\ k > DownGap(fuller) /\ Len(hrd) + k - DownGap(fuller) <= Len(longer)
             /\ fuller[k].message = Append(ord, m)[longer[Len(hrd) + k - DownGap(fuller)]]
             /\ fuller[k].origin # i /\ ~fuller[k].everyone
  <2>1. CASE k \in DOMAIN chan
    BY <2>1, <1>5, <1>7, <1>8, <1>9 DEF Follows
  <2>2. CASE k = Len(chan) + 1
    <3>1. DownGap(fuller) \in Int /\ DownGap(fuller) <= Len(chan) /\ Len(chan) \in Nat
      BY <1>7, <1>8
    <3>2. Len(hrd) + Len(chan) - DownGap(fuller) = Len(part)
      BY <1>1, <1>8
    <3>3. Len(hrd) + k - DownGap(fuller) = Len(part) + 1 /\ k > DownGap(fuller)
      BY <2>2, <3>1, <3>2, <1>h
    <3>4. fuller[k] = packet
      BY <2>2, <1>7
    <3> QED
      BY <3>3, <3>4, <1>3
  <2>3. k \in DOMAIN chan \/ k = Len(chan) + 1
    BY <1>7
  <2> QED
    BY <2>1, <2>2, <2>3
<1>10. Follows(longer, Append(ord, m), hrd, fuller, i)
  <2>1. Len(hrd) <= Len(longer) /\ \A k \in DOMAIN hrd : hrd[k] = Append(ord, m)[longer[k]]
    BY <1>5 DEF Follows
  <2> QED
    BY <1>9, <2>1 DEF Follows
<1>11. Len(hrd) + Len(fuller) - DownGap(fuller) = Len(longer)
  BY <1>1, <1>3, <1>7, <1>8, <1>h
<1> QED
  BY <1>3, <1>6, <1>10, <1>11 DEF Hears

\* A connector takes its seat.
LEMMA HearsPop ==
  ASSUME NEW i, NEW ord \in Seq(Msg), NEW hrd \in Seq(Msg), NEW chan \in Seq(Item), NEW live \in BOOLEAN,
         Hears(i, ord, hrd, chan, live), DownShape(chan, live), First(chan, "index")
  PROVE  Hears(i, ord, hrd, Tail(chan), live)
<1>1. PICK part \in Seq(DOMAIN ord) :
        /\ Enumerates(part, ord, i) /\ Follows(part, ord, hrd, chan, i)
        /\ live => Len(hrd) + Len(chan) - DownGap(chan) = Len(part)
  BY DEF Hears
<1>t. /\ Tail(chan) \in Seq(Item) /\ Len(Tail(chan)) = Len(chan) - 1 /\ Len(chan) \in Nat /\ Len(chan) > 0
      /\ DOMAIN chan = 1 .. Len(chan) /\ DOMAIN Tail(chan) = 1 .. (Len(chan) - 1)
      /\ \A k \in DOMAIN Tail(chan) : Tail(chan)[k] = chan[k + 1] /\ k + 1 \in DOMAIN chan
      /\ chan # <<>> /\ Head(chan).kind = "index"
  BY HeadAndTail DEF First
<1>2. DownGap(chan) = 1 /\ Len(hrd) \in Nat /\ Len(part) \in Nat
  BY <1>t DEF DownGap
<1>3. DownGap(Tail(chan)) = 0
  <2>1. CASE Tail(chan) = <<>>
    BY <2>1 DEF DownGap
  <2>2. CASE Tail(chan) # <<>>
    <3>1. Head(Tail(chan)) = chan[2] /\ 2 \in DOMAIN chan
      BY <2>2, <1>t, HeadAndTail
    <3> QED
      BY <3>1 DEF DownGap, DownShape
  <2> QED
    BY <2>1, <2>2
<1>4. ASSUME NEW k \in DOMAIN Tail(chan), Tail(chan)[k].kind = "packet"
      PROVE  /\ k > 0 /\ Len(hrd) + k <= Len(part)
             /\ Tail(chan)[k].message = ord[part[Len(hrd) + k]]
             /\ Tail(chan)[k].origin # i /\ ~Tail(chan)[k].everyone
  <2>1. Tail(chan)[k] = chan[k + 1] /\ k + 1 \in DOMAIN chan /\ k \in Nat /\ k > 0
    BY <1>t
  <2>2. /\ Len(hrd) + (k + 1) - 1 <= Len(part)
        /\ chan[k + 1].message = ord[part[Len(hrd) + (k + 1) - 1]]
        /\ chan[k + 1].origin # i /\ ~chan[k + 1].everyone
    BY <2>1, <1>1, <1>2, <1>4 DEF Follows
  <2>3. Len(hrd) + (k + 1) - 1 = Len(hrd) + k
    BY <2>1, <1>2
  <2> QED
    BY <2>1, <2>2, <2>3
<1>5. Follows(part, ord, hrd, Tail(chan), i)
  <2>1. Len(hrd) <= Len(part) /\ \A k \in DOMAIN hrd : hrd[k] = ord[part[k]]
    BY <1>1 DEF Follows
  <2>2. ASSUME NEW k \in DOMAIN Tail(chan), Tail(chan)[k].kind = "packet"
        PROVE  /\ k > DownGap(Tail(chan)) /\ Len(hrd) + k - DownGap(Tail(chan)) <= Len(part)
               /\ Tail(chan)[k].message = ord[part[Len(hrd) + k - DownGap(Tail(chan))]]
               /\ Tail(chan)[k].origin # i /\ ~Tail(chan)[k].everyone
    <3>1. Len(hrd) + k - DownGap(Tail(chan)) = Len(hrd) + k
      BY <1>2, <1>3, <1>t
    <3> QED
      BY <1>3, <1>4, <2>2, <3>1
  <2> QED
    BY <2>1, <2>2 DEF Follows
<1>6. live => Len(hrd) + Len(Tail(chan)) - DownGap(Tail(chan)) = Len(part)
  BY <1>1, <1>2, <1>3, <1>t
<1> QED
  BY <1>1, <1>5, <1>6 DEF Hears

\* It hears the message at the head: the next in the order that is another's.
LEMMA HearsHead ==
  ASSUME NEW i, NEW ord \in Seq(Msg), NEW hrd \in Seq(Msg), NEW chan \in Seq(Item), NEW live \in BOOLEAN,
         NEW part \in Seq(DOMAIN ord), Enumerates(part, ord, i), Follows(part, ord, hrd, chan, i),
         live => Len(hrd) + Len(chan) - DownGap(chan) = Len(part),
         DownShape(chan, live), First(chan, "packet")
  PROVE  /\ Len(hrd) + 1 \in DOMAIN part
         /\ Head(chan).message = ord[part[Len(hrd) + 1]]
         /\ Head(chan).origin # i /\ ~Head(chan).everyone
         /\ Hears(i, ord, Append(hrd, Head(chan).message), Tail(chan), live)
<1>t. /\ Tail(chan) \in Seq(Item) /\ Len(Tail(chan)) = Len(chan) - 1 /\ Len(chan) \in Nat /\ Len(chan) > 0
      /\ DOMAIN chan = 1 .. Len(chan) /\ DOMAIN Tail(chan) = 1 .. (Len(chan) - 1)
      /\ Head(chan) = chan[1] /\ 1 \in DOMAIN chan /\ Head(chan) \in Item
      /\ \A k \in DOMAIN Tail(chan) : Tail(chan)[k] = chan[k + 1] /\ k + 1 \in DOMAIN chan
      /\ chan # <<>> /\ Head(chan).kind = "packet"
  BY HeadAndTail DEF First
<1>2. DownGap(chan) = 0 /\ Len(hrd) \in Nat /\ Len(part) \in Nat /\ DOMAIN part = 1 .. Len(part)
  BY <1>t DEF DownGap
<1>n. PICK h \in Nat, l \in Nat : h = Len(hrd) /\ l = Len(part)
  BY <1>2
<1>3. DownGap(Tail(chan)) = 0
  <2>1. CASE Tail(chan) = <<>>
    BY <2>1 DEF DownGap
  <2>2. CASE Tail(chan) # <<>>
    <3>1. Head(Tail(chan)) = chan[2] /\ 2 \in DOMAIN chan
      BY <2>2, <1>t, HeadAndTail
    <3> QED
      BY <3>1 DEF DownGap, DownShape
  <2> QED
    BY <2>1, <2>2
<1>4. ASSUME NEW k \in DOMAIN chan, chan[k].kind = "packet"
      PROVE  /\ k \in Nat /\ h + k <= l
             /\ chan[k].message = ord[part[h + k]]
             /\ chan[k].origin # i /\ ~chan[k].everyone
  <2>1. k \in Nat
    BY <1>t
  <2>2. h + k - 0 = h + k
    BY <2>1
  <2> QED
    BY <2>1, <2>2, <1>n, <1>2, <1>4 DEF Follows
<1>5. /\ h + 1 <= l /\ Head(chan).message = ord[part[h + 1]]
      /\ Head(chan).origin # i /\ ~Head(chan).everyone
  BY <1>4, <1>t
<1>6. h + 1 \in DOMAIN part
  <2>1. h + 1 \in 1 .. l
    BY <1>5
  <2> QED
    BY <2>1, <1>2, <1>n
<1>7. PICK more : more = Append(hrd, Head(chan).message)
  OBVIOUS
<1>8. /\ more \in Seq(Msg) /\ Len(more) = h + 1
      /\ DOMAIN hrd = 1 .. h /\ DOMAIN more = 1 .. (h + 1)
      /\ more[h + 1] = Head(chan).message /\ \A k \in DOMAIN hrd : more[k] = hrd[k]
  <2>1. Head(chan).message \in Msg
    BY <1>t, Items
  <2> QED
    BY <2>1, <1>7, <1>n, OneMore
<1>9. ASSUME NEW k \in DOMAIN more
      PROVE  more[k] = ord[part[k]]
  <2>1. CASE k \in DOMAIN hrd
    BY <2>1, <1>8 DEF Follows
  <2>2. CASE k = h + 1
    BY <2>2, <1>5, <1>8
  <2> QED
    BY <2>1, <2>2, <1>8
<1>10. ASSUME NEW k \in DOMAIN Tail(chan), Tail(chan)[k].kind = "packet"
       PROVE  /\ k > DownGap(Tail(chan)) /\ Len(more) + k - DownGap(Tail(chan)) <= Len(part)
              /\ Tail(chan)[k].message = ord[part[Len(more) + k - DownGap(Tail(chan))]]
              /\ Tail(chan)[k].origin # i /\ ~Tail(chan)[k].everyone
  <2>1. Tail(chan)[k] = chan[k + 1] /\ k + 1 \in DOMAIN chan /\ k \in Nat /\ k > 0
    BY <1>t
  <2>2. /\ h + (k + 1) <= l
        /\ chan[k + 1].message = ord[part[h + (k + 1)]]
        /\ chan[k + 1].origin # i /\ ~chan[k + 1].everyone
    BY <2>1, <1>4, <1>10
  <2>3. Len(more) + k - DownGap(Tail(chan)) = h + (k + 1)
    BY <2>1, <1>3, <1>8
  <2>4. k > DownGap(Tail(chan))
    BY <2>1, <1>3
  <2> QED
    BY <2>1, <2>2, <2>3, <2>4, <1>n
<1>11. Follows(part, ord, more, Tail(chan), i)
  BY <1>5, <1>n, <1>8, <1>9, <1>10 DEF Follows
<1>12. live => Len(more) + Len(Tail(chan)) - DownGap(Tail(chan)) = Len(part)
  BY <1>2, <1>3, <1>8, <1>t, <1>n
<1> QED
  BY <1>5, <1>6, <1>n, <1>7, <1>11, <1>12 DEF Hears

\* A goodbye is put at the end.
LEMMA HearsBye ==
  ASSUME NEW i, NEW ord \in Seq(Msg), NEW hrd \in Seq(Msg), NEW chan \in Seq(Item), NEW live,
         Hears(i, ord, hrd, chan, live)
  PROVE  Hears(i, ord, hrd, Append(chan, Goodbye), FALSE)
<1>1. PICK part \in Seq(DOMAIN ord) :
        Enumerates(part, ord, i) /\ Follows(part, ord, hrd, chan, i)
  BY DEF Hears
<1>2. PICK fuller : fuller = Append(chan, Goodbye)
  OBVIOUS
<1>3. /\ DOMAIN chan = 1 .. Len(chan) /\ DOMAIN fuller = 1 .. (Len(chan) + 1)
      /\ fuller[Len(chan) + 1] = Goodbye /\ \A k \in DOMAIN chan : fuller[k] = chan[k]
      /\ fuller # <<>> /\ Head(fuller) = IF chan = <<>> THEN Goodbye ELSE Head(chan)
  BY <1>2, OneMore, Items
<1>4. DownGap(fuller) = DownGap(chan)
  BY <1>3, Items DEF DownGap
<1>5. \A k \in DOMAIN fuller : fuller[k].kind = "packet" => k \in DOMAIN chan
  BY <1>3, Items
<1>6. Follows(part, ord, hrd, fuller, i)
  BY <1>1, <1>3, <1>4, <1>5 DEF Follows
<1> QED
  BY <1>1, <1>2, <1>6 DEF Hears

------------------------------------------------------------------------------
(* States.                                                                  *)

LEMMA Shapes ==
  ASSUME Typed, NEW c \in Dialler, Stage(c)
  PROVE  /\ UpShape(up[c], Talking(c))
         /\ \A live : (live => conn[c] = "up" /\ phase[Listener] # "closed") => DownShape(down[c], live)
         /\ up[c] \in Seq(Item) /\ down[c] \in Seq(Item)
<1>1. up[c] \in Seq(Item) /\ down[c] \in Seq(Item)
  BY DEF Typed
<1>2. UpShape(up[c], Talking(c))
  BY DEF Stage, ToListener, UpShape, Talking
<1>3. ASSUME NEW live, live => conn[c] = "up" /\ phase[Listener] # "closed"
      PROVE  DownShape(down[c], live)
  BY <1>3 DEF Stage, ToConnector, DownShape
<1> QED
  BY <1>1, <1>2, <1>3

LEMMA Channels ==
  /\ <<>> \in Seq(Item)
  /\ \A e \in Item : <<e>> \in Seq(Item)
  /\ \A s \in Seq(Item) : s # <<>> => Tail(s) \in Seq(Item) /\ Head(s) \in Item
  /\ \A s \in Seq(Item), e \in Item : Append(s, e) \in Seq(Item)
  /\ \A s \in Seq(Item) :
       s \o <<>> = s /\ s \o <<Goodbye>> = Append(s, Goodbye) /\ <<>> \o s = s
  /\ \A s \in Seq(Msg), m \in Msg : Append(s, m) \in Seq(Msg)
<1>1. \A e \in Item : <<e>> \in Seq(Item)
  OBVIOUS
<1>2. \A s \in Seq(Item) : s # <<>> => Tail(s) \in Seq(Item) /\ Head(s) \in Item
  BY HeadAndTail
<1>3. \A s \in Seq(Item), e \in Item : Append(s, e) \in Seq(Item)
  BY OneMore
<1>4. ASSUME NEW s \in Seq(Item)
      PROVE  s \o <<>> = s /\ s \o <<Goodbye>> = Append(s, Goodbye) /\ <<>> \o s = s
  <2>1. Goodbye \in Item
    BY Items
  <2> QED
    BY <2>1, ConcatEmptySeq, AppendIsConcat
<1>5. \A s \in Seq(Msg), m \in Msg : Append(s, m) \in Seq(Msg)
  BY OneMore
<1> QED
  BY <1>1, <1>2, <1>3, <1>4, <1>5

\* What accept has done when it returns: the first arrivals were told, and
\* when it failed half way each of them may have its goodbye, or not even its
\* seat.
Announced(told) ==
  /\ \A i \in 1 .. told : conn[arrived[i]] = "up"
  /\ peers' = SeatsFrom(told)
  /\ phase' = [phase EXCEPT ![Listener] = IF told = Size - 1 THEN "open" ELSE "closed"]
  /\ DOMAIN down' = Dialler
  /\ \A i \in 1 .. told :
       down'[arrived[i]] \in IF phase[arrived[i]] = "closed" THEN {<<>>}
                             ELSE IF told = Size - 1 THEN {<<YouAre(i)>>}
                             ELSE {<<YouAre(i), Goodbye>>, <<YouAre(i)>>, <<>>}
  /\ \A c \in Dialler : (\A i \in 1 .. told : arrived[i] # c) => down'[c] = <<>>

LEMMA LeastElement ==
  ASSUME NEW S \in SUBSET Nat, S # {}
  PROVE  \E b \in S : \A a \in S : b <= a
<1>1. PICK b \in S : \A a \in Nat : <<a, b>> \in OpToRel(<, Nat) => a \notin S
  BY NatLessThanWellFounded, WFMin, Zenon
<1>2. \A a \in S : ~(a < b)
  BY <1>1 DEF OpToRel
<1> QED
  BY <1>2

LEMMA AnnounceTells ==
  ASSUME IInv, Announce
  PROVE  \E told \in 0 .. Size - 1 : Announced(told)
<1> DEFINE reachable == {n \in 0 .. Size - 1 : \A i \in 1 .. n : conn[arrived[i]] = "up"}
           told == CHOOSE n \in reachable : \A m \in reachable : m <= n
<1>1. told \in reachable
  <2> DEFINE left == {b \in Nat : Size - 1 - b \in reachable}
  <2>1. Size - 1 \in left
    BY Numbers
  <2>2. PICK b \in left : \A a \in left : b <= a
    <3>1. left \in SUBSET Nat /\ left # {}
      BY <2>1
    <3> QED
      BY <3>1, LeastElement
  <2>3. Size - 1 - b \in reachable
    BY <2>2
  <2>4. ASSUME NEW m \in reachable
        PROVE  m <= Size - 1 - b
    <3>1. Size - 1 - m \in left
      BY Numbers
    <3>2. b <= Size - 1 - m
      BY <2>2, <3>1
    <3> QED
      BY <3>2, Numbers
  <2> QED
    BY <2>3, <2>4
<1>2. PICK t \in 0 .. Size - 1 : t = told
  BY <1>1
<1>3. \A i \in 1 .. t : conn[arrived[i]] = "up"
  BY <1>1, <1>2
<1> DEFINE seat(c) == CHOOSE i \in 1 .. t : arrived[i] = c
           message(c, drained, sent) ==
             IF phase[c] = "closed" \/ \A i \in 1 .. t : arrived[i] # c THEN <<>>
             ELSE IF t = Size - 1 THEN <<YouAre(seat(c))>>
             ELSE IF c \in drained THEN <<YouAre(seat(c)), Goodbye>>
             ELSE IF c \in sent THEN <<YouAre(seat(c))>> ELSE <<>>
<1>4. /\ peers' = SeatsFrom(t)
      /\ phase' = [phase EXCEPT ![Listener] = IF t = Size - 1 THEN "open" ELSE "closed"]
      /\ \E drained, sent \in SUBSET Dialler :
           down' = [c \in Dialler |-> down[c] \o message(c, drained, sent)]
      /\ phase[Listener] = "opening" /\ Len(arrived) = Size - 1
  <2>1. peers' = SeatsFrom(t) /\ phase[Listener] = "opening" /\ Len(arrived) = Size - 1
    BY <1>2 DEF Announce
  <2>2. phase' = [phase EXCEPT ![Listener] = IF t = Size - 1 THEN "open" ELSE "closed"]
    BY <1>2 DEF Announce
  <2>3. \E drained, sent \in SUBSET Dialler :
          down' = [c \in Dialler |-> down[c] \o message(c, drained, sent)]
    <3> DEFINE place(c) == CHOOSE i \in 1 .. told : arrived[i] = c
               words(c, drained, sent) ==
                 IF phase[c] = "closed" \/ \A i \in 1 .. told : arrived[i] # c THEN <<>>
                 ELSE IF told = Size - 1 THEN <<YouAre(place(c))>>
                 ELSE IF c \in drained THEN <<YouAre(place(c)), Goodbye>>
                 ELSE IF c \in sent THEN <<YouAre(place(c))>> ELSE <<>>
    <3>1. \E drained, sent \in SUBSET Dialler :
            down' = [c \in Dialler |-> down[c] \o words(c, drained, sent)]
      BY Zenon DEF Announce
    <3>2. \A c, drained, sent : words(c, drained, sent) = message(c, drained, sent)
      <4> HIDE DEF told
      <4> QED
        BY <1>2
    <3> HIDE DEF words, message
    <3> QED
      BY <3>1, <3>2
  <2> QED
    BY <2>1, <2>2, <2>3
<1>5. PICK drained, sent \in SUBSET Dialler :
        down' = [c \in Dialler |-> down[c] \o message(c, drained, sent)]
  BY <1>4
<1> DEFINE said_to(c) == message(c, drained, sent)
<1>6. \A c \in Dialler : down'[c] = said_to(c)
  <2>1. \A c \in Dialler : down[c] = <<>> /\ said_to(c) \in Seq(Item)
    <3>1. ASSUME NEW c \in Dialler
          PROVE  said_to(c) \in Seq(Item)
      <4>1. CASE phase[c] # "closed" /\ \E i \in 1 .. t : arrived[i] = c
        <5>1. PICK j \in 1 .. t : j = seat(c)
          BY <4>1
        <5>2. YouAre(j) \in Item /\ Goodbye \in Item
          BY Items, Numbers
        <5>3. said_to(c) \in {<<YouAre(j)>>, <<YouAre(j), Goodbye>>, <<>>}
          BY <4>1, <5>1
        <5> QED
          BY <5>2, <5>3
      <4>2. CASE ~(phase[c] # "closed" /\ \E i \in 1 .. t : arrived[i] = c)
        <5>1. said_to(c) = <<>>
          BY <4>2
        <5> QED
          BY <5>1
      <4> QED
        BY <4>1, <4>2
    <3> QED
      BY <1>4, <3>1 DEF IInv, Before
  <2>2. ASSUME NEW c \in Dialler
        PROVE  down'[c] = said_to(c)
    <3>1. <<>> \o said_to(c) = said_to(c)
      BY <2>1, ConcatEmptySeq
    <3>2. down' = [e \in Dialler |-> down[e] \o said_to(e)]
      BY <1>5
    <3> HIDE DEF said_to
    <3> QED
      BY <2>1, <3>1, <3>2
  <2> QED
    BY <2>2
<1>7. ASSUME NEW i \in 1 .. t
      PROVE  /\ arrived[i] \in Dialler /\ i \in Seat
             /\ (CHOOSE j \in 1 .. t : arrived[j] = arrived[i]) = i
  <2>1. 1 .. t \subseteq DOMAIN arrived /\ i \in Seat
    BY <1>4, Numbers DEF IInv, Typed
  <2>2. \A j \in 1 .. t : arrived[j] = arrived[i] => j = i
    BY <2>1 DEF IInv, Arrivals
  <2> QED
    BY <2>1, <2>2 DEF IInv, Typed
<1>8. ASSUME NEW i \in 1 .. t
      PROVE  down'[arrived[i]] \in
               IF phase[arrived[i]] = "closed" THEN {<<>>}
               ELSE IF t = Size - 1 THEN {<<YouAre(i)>>} ELSE {<<YouAre(i), Goodbye>>, <<YouAre(i)>>, <<>>}
  <2>1. down'[arrived[i]] = said_to(arrived[i])
    BY <1>6, <1>7
  <2>2. seat(arrived[i]) = i
    BY <1>7
  <2>3. ~\A j \in 1 .. t : arrived[j] # arrived[i]
    OBVIOUS
  <2>4. said_to(arrived[i]) =
          IF phase[arrived[i]] = "closed" THEN <<>>
          ELSE IF t = Size - 1 THEN <<YouAre(i)>>
          ELSE IF arrived[i] \in drained THEN <<YouAre(i), Goodbye>>
          ELSE IF arrived[i] \in sent THEN <<YouAre(i)>> ELSE <<>>
    BY <2>2, <2>3, Zenon
  <2> HIDE DEF said_to, seat
  <2> QED
    BY <2>1, <2>4
<1>9. \A c \in Dialler : (\A i \in 1 .. t : arrived[i] # c) => down'[c] = <<>>
  BY <1>6
<1>10. Announced(t)
  BY <1>3, <1>4, <1>8, <1>9 DEF Announced
<1> QED
  BY <1>10

\* Somebody leaves while the listener accepts: the others move up.
LEMMA LeavingIs ==
  ASSUME Typed, Arrivals, NEW c \in Dialler, HasArrived(c)
  PROVE  /\ Leaving(c) \in Seq(Dialler) /\ Len(Leaving(c)) = Len(arrived) - 1
         /\ \A m \in DOMAIN Leaving(c) : Leaving(c)[m] # c
         /\ \A m \in DOMAIN Leaving(c) : \E n \in DOMAIN arrived : Leaving(c)[m] = arrived[n]
         /\ \A n \in DOMAIN arrived : arrived[n] # c => \E m \in DOMAIN Leaving(c) : Leaving(c)[m] = arrived[n]
         /\ \A m, n \in DOMAIN Leaving(c) : Leaving(c)[m] = Leaving(c)[n] => m = n
<1>1. PICK at \in DOMAIN arrived : at = CHOOSE n \in DOMAIN arrived : arrived[n] = c
  BY DEF HasArrived
<1>2. arrived[at] = c
  BY <1>1 DEF HasArrived
<1>3. PICK len \in Nat : len = Len(arrived) /\ DOMAIN arrived = 1 .. len /\ len > 0
  BY DEF Typed
<1>4. Leaving(c) = [n \in 1 .. len - 1 |-> arrived[IF n < at THEN n ELSE n + 1]]
  BY <1>1, <1>3 DEF Leaving
<1>5. DOMAIN Leaving(c) = 1 .. len - 1 /\ \A n \in 1 .. len - 1 : Leaving(c)[n] = arrived[IF n < at THEN n ELSE n + 1]
  BY <1>4
<1>6. \A n \in 1 .. len - 1 : (IF n < at THEN n ELSE n + 1) \in DOMAIN arrived /\ (IF n < at THEN n ELSE n + 1) # at
  BY <1>3
<1>7. Leaving(c) \in Seq(Dialler) /\ Len(Leaving(c)) = len - 1
  <2>1. \A n \in 1 .. len - 1 : arrived[IF n < at THEN n ELSE n + 1] \in Dialler
    BY <1>6 DEF Typed
  <2>2. len - 1 \in Nat
    BY <1>3
  <2> QED
    BY <1>4, <2>1, <2>2
<1>8. ASSUME NEW m \in DOMAIN Leaving(c)
      PROVE  Leaving(c)[m] # c /\ \E n \in DOMAIN arrived : Leaving(c)[m] = arrived[n]
  BY <1>2, <1>5, <1>6 DEF Arrivals
<1>9. ASSUME NEW n \in DOMAIN arrived, arrived[n] # c
      PROVE  \E m \in DOMAIN Leaving(c) : Leaving(c)[m] = arrived[n]
  <2>1. CASE n < at
    <3>1. n \in 1 .. len - 1
      BY <2>1, <1>3
    <3> QED
      BY <3>1, <2>1, <1>5
  <2>2. CASE n > at
    <3>1. n - 1 \in 1 .. len - 1 /\ ~(n - 1 < at) /\ n - 1 + 1 = n
      BY <2>2, <1>3
    <3> QED
      BY <3>1, <1>5
  <2> QED
    BY <1>2, <1>3, <1>9, <2>1, <2>2
<1>10. ASSUME NEW m \in DOMAIN Leaving(c), NEW n \in DOMAIN Leaving(c), Leaving(c)[m] = Leaving(c)[n]
       PROVE  m = n
  <2>1. (IF m < at THEN m ELSE m + 1) = (IF n < at THEN n ELSE n + 1)
    BY <1>5, <1>6, <1>10 DEF Arrivals
  <2> QED
    BY <2>1, <1>3, <1>5
<1> QED
  BY <1>3, <1>7, <1>8, <1>9, <1>10

\* A connection cut off: what may be left in it.
LEMMA Severed ==
  ASSUME Typed, NEW c \in Dialler, Sever(c)
  PROVE  /\ conn' \in [Dialler -> {"none", "up", "leaving"}]
         /\ up' \in [Dialler -> Seq(Item)] /\ down' \in [Dialler -> Seq(Item)]
         /\ conn'[c] = "none" /\ up'[c] = <<>>
         /\ \A d \in Dialler \ {c} : conn'[d] = conn[d] /\ up'[d] = up[d] /\ down'[d] = down[d]
         /\ down'[c] \in {down[c], <<>>, Append(down[c], Goodbye), <<Goodbye>>}
<1>1. /\ conn' \in [Dialler -> {"none", "up", "leaving"}] /\ up' \in [Dialler -> Seq(Item)]
      /\ conn'[c] = "none" /\ up'[c] = <<>>
      /\ \A d \in Dialler \ {c} : conn'[d] = conn[d] /\ up'[d] = up[d]
  BY Channels DEF Typed, Sever
<1>2. PICK left, bye : /\ left \in {<<>>, down[c]} /\ bye \in {<<>>, <<Goodbye>>}
                       /\ down' \in {down, [down EXCEPT ![c] = left \o bye]}
  BY DEF Sever
<1>3. /\ down[c] \in Seq(Item) /\ <<>> \in Seq(Item) /\ <<Goodbye>> \in Seq(Item)
      /\ Append(down[c], Goodbye) \in Seq(Item)
  BY Items, Channels DEF Typed
<1>4. left \o bye \in {down[c], <<>>, Append(down[c], Goodbye), <<Goodbye>>}
  <2>1. <<>> \o <<>> = <<>> /\ <<>> \o <<Goodbye>> = <<Goodbye>>
    BY <1>3, Channels
  <2>2. down[c] \o <<>> = down[c] /\ down[c] \o <<Goodbye>> = Append(down[c], Goodbye)
    BY <1>3, Channels
  <2> QED
    BY <1>2, <2>1, <2>2
<1> HIDE DEF Item
<1>5. left \o bye \in Seq(Item)
  BY <1>3, <1>4
<1> QED
  BY <1>1, <1>2, <1>4, <1>5 DEF Typed

\* Who says goodbye while the listener accepts has arrived.
LEMMA WasThere ==
  ASSUME Stages, Before, NEW c \in Dialler, phase[Listener] = "opening",
         up[c] # <<>>, ~First(up[c], "connect")
  PROVE  HasArrived(c)
BY DEF Stages, Stage, Before

\* What is put into the channels of some seats.
LEMMA DownToTyped ==
  ASSUME Typed, NEW seats, NEW packet \in Item
  PROVE  DownTo(seats, packet) \in [Dialler -> Seq(Item)]
<1>1. ASSUME NEW d \in Dialler
      PROVE  Append(down[d], packet) \in Seq(Item) /\ down[d] \in Seq(Item)
  BY Channels DEF Typed
<1> QED
  BY <1>1 DEF DownTo

\* A packet that the listener receives is a broadcast of the seat of that connection.
Relays(c, i, targets, reached) ==
  /\ i = index[c] /\ i \in DOMAIN arrived /\ arrived[i] = c /\ peers[i] = c
  /\ Head(up[c]) \in Item /\ Head(up[c]).message \in Msg /\ Head(up[c]).message.origin = i
  /\ targets = {j \in Seat : j # i /\ peers[j] # None}
  /\ reached = Reached(targets)
  /\ up' = [up EXCEPT ![c] = Tail(@)]
  /\ down' = DownTo(reached, Packet(i, FALSE, Head(up[c]).message))
  /\ order' = Append(order, Head(up[c]).message)
  /\ ended' = [ended EXCEPT ![Listener] = ~Fits(Listener, i) \/ reached # targets]

LEMMA Relayed ==
  ASSUME IInv, NEW c \in Dialler, ListenerReceives(c)
  PROVE  \E i \in Seat : \E targets, reached \in SUBSET Seat : Relays(c, i, targets, reached)
<1>1. /\ up[c] \in Seq(Item) /\ up[c] # <<>> /\ Head(up[c]) = up[c][1] /\ 1 \in DOMAIN up[c]
      /\ Head(up[c]) \in Item /\ Head(up[c]).kind = "packet" /\ Pumping(Listener)
  BY HeadAndTail DEF IInv, Typed, ListenerReceives, First
<1>2. /\ Head(up[c]).message \in Msg
      /\ index[c] # 0 /\ Head(up[c]).origin = index[c] /\ Head(up[c]).everyone
      /\ Head(up[c]).message.origin = index[c]
      /\ index[c] \in DOMAIN arrived /\ arrived[index[c]] = c
      /\ conn[c] # "none"
  BY <1>1, Items DEF IInv, Stages, Stage, ToListener
<1>3. PICK i \in Seat : i = index[c]
  BY <1>2, Numbers DEF IInv, Typed
<1>4. peers[i] = c
  <2>1. peers[i] # None
    BY <1>1, <1>2, <1>3 DEF IInv, Seats
  <2> QED
    BY <1>2, <1>3, <2>1 DEF IInv, Seats
<1>5. IndexOf(c) = {i}
  <2>1. ASSUME NEW j \in Seat, peers[j] = c
        PROVE  j = i
    <3>1. j \in DOMAIN arrived /\ arrived[j] = c
      BY <2>1, Numbers DEF IInv, Seats
    <3> QED
      BY <3>1, <1>2, <1>3 DEF IInv, Arrivals
  <2> QED
    BY <1>4, <2>1 DEF IndexOf
<1>6. PICK targets \in SUBSET Seat : targets = {j \in Seat : j # i /\ peers[j] # None}
  OBVIOUS
<1>7. PICK reached \in SUBSET Seat : reached = Reached(targets)
  BY DEF Reached
<1>8. targets = {j \in Seat : Head(up[c]).everyone /\ j # i /\ peers[j] # None}
  BY <1>2, <1>6
<1>9. /\ down' = DownTo(reached, Packet(i, FALSE, Head(up[c]).message))
      /\ order' = Append(order, Head(up[c]).message)
      /\ ended' = [ended EXCEPT ![Listener] = ~Fits(Listener, i) \/ reached # targets]
  <2>1. IndexOf(c) = {Head(up[c]).origin} /\ Head(up[c]).origin = i
    BY <1>2, <1>3, <1>5
  <2>2. down' = DownTo(reached, Packet(i, FALSE, Head(up[c]).message))
    BY <1>7, <1>8, <2>1 DEF ListenerReceives
  <2>3. order' = Append(order, Head(up[c]).message)
    BY <2>1 DEF ListenerReceives
  <2>4. ended' = [ended EXCEPT ![Listener] = ~Fits(Listener, i) \/ reached # targets]
    BY <1>7, <1>8, <2>1 DEF ListenerReceives
  <2> QED
    BY <2>2, <2>3, <2>4
<1>10. up' = [up EXCEPT ![c] = Tail(@)]
  BY DEF ListenerReceives, Pop
<1>11. Relays(c, i, targets, reached)
  BY <1>1, <1>2, <1>3, <1>4, <1>6, <1>7, <1>9, <1>10 DEF Relays
<1> QED
  BY <1>11

\* Types are kept.
LEMMA TypedStep ==
  ASSUME IInv, [Next]_vars
  PROVE  Typed'
<1>1. ASSUME AcceptExpires
      PROVE  Typed'
  BY <1>1, Items, Channels, Numbers DEF IInv, Typed, AcceptExpires, listener, wire, history
<1>2. ASSUME Announce
      PROVE  Typed'
  <2>1. PICK told \in 0 .. Size - 1 : Announced(told)
    BY <1>2, AnnounceTells
  <2>2. ASSUME NEW c \in Dialler
        PROVE  down'[c] \in Seq(Item)
    <3>1. CASE \E i \in 1 .. told : arrived[i] = c
      <4>1. PICK i \in 1 .. told : arrived[i] = c
        BY <3>1
      <4>2. YouAre(i) \in Item /\ Goodbye \in Item
        BY Items, Numbers
      <4>3. <<>> \in Seq(Item) /\ <<YouAre(i)>> \in Seq(Item) /\ <<YouAre(i), Goodbye>> \in Seq(Item)
        BY <4>2
      <4>4. down'[c] \in {<<>>, <<YouAre(i)>>, <<YouAre(i), Goodbye>>}
        BY <2>1, <4>1 DEF Announced
      <4> QED
        BY <4>3, <4>4
    <3>2. CASE \A i \in 1 .. told : arrived[i] # c
      <4>1. down'[c] = <<>>
        BY <2>1, <3>2 DEF Announced
      <4> QED
        BY <4>1, Channels
    <3> QED
      BY <3>1, <3>2
  <2>3. down' \in [Dialler -> Seq(Item)]
    BY <2>2, <1>2 DEF Announce
  <2>4. \A i \in Seat : i \in DOMAIN arrived
    <3>1. arrived \in Seq(Dialler) /\ Len(arrived) = Size - 1
      BY <1>2 DEF Announce, IInv, Typed
    <3> QED
      BY <3>1, Numbers
  <2>5. peers' \in [Seat -> Dialler \cup {None}]
    BY <2>1, <2>4 DEF Announced, SeatsFrom, IInv, Typed
  <2>6. phase' \in [Process -> {"idle", "opening", "open", "broken", "closed"}]
    BY <2>1 DEF Announced, IInv, Typed
  <2> QED
    BY <1>2, <2>3, <2>5, <2>6 DEF IInv, Typed, Announce, history
<1>3. ASSUME ListenerSays
      PROVE  Typed'
  <2>1. Message(0, said[Listener] + 1) \in Msg /\ Packet(0, FALSE, Message(0, said[Listener] + 1)) \in Item
    <3>1. 0 \in Place /\ said[Listener] + 1 \in Nat /\ FALSE \in BOOLEAN
      BY Numbers DEF IInv, Typed
    <3> QED
      BY <3>1, Messages, Items
  <2>2. phase' \in [Process -> {"idle", "opening", "open", "broken", "closed"}]
    BY <1>3 DEF IInv, Typed, ListenerSays
  <2>3. said' \in [Process -> Nat]
    BY <1>3, Numbers DEF IInv, Typed, ListenerSays
  <2>4. order' \in Seq(Msg)
    BY <1>3, <2>1, Channels DEF IInv, Typed, ListenerSays
  <2>5. down' \in [Dialler -> Seq(Item)]
    <3>1. \A d \in Dialler : Append(down[d], Packet(0, FALSE, Message(0, said[Listener] + 1))) \in Seq(Item)
      BY <2>1, Channels DEF IInv, Typed
    <3> QED
      BY <1>3, <3>1 DEF IInv, Typed, ListenerSays, DownTo
  <2> QED
    BY <1>3, <2>1, <2>2, <2>3, <2>4, <2>5 DEF IInv, Typed, ListenerSays, listener, wire, history
<1>4. ASSUME ListenerCloses
      PROVE  Typed'
  <2>1. phase' \in [Process -> {"idle", "opening", "open", "broken", "closed"}]
    BY <1>4 DEF IInv, Typed, ListenerCloses
  <2>2. up' \in [Dialler -> Seq(Item)]
    BY <1>4, Channels DEF IInv, Typed, ListenerCloses
  <2>3. down' \in [Dialler -> Seq(Item)]
    BY <1>4, Channels, Items DEF IInv, Typed, ListenerCloses
  <2> QED
    BY <1>4, <2>1, <2>2, <2>3 DEF IInv, Typed, ListenerCloses, listener, wire, history
<1>5. ASSUME NEW i \in Seat, ListenerTimesOut(i)
      PROVE  Typed'
  <2>1. CASE ~KeepsGoing
    BY <1>5, <2>1 DEF IInv, Typed, ListenerTimesOut, wire, history
  <2>2. CASE KeepsGoing
    <3>1. peers[i] \in Dialler /\ Sever(peers[i])
      BY <1>5, <2>2 DEF IInv, Typed, ListenerTimesOut
    <3>2. /\ conn' \in [Dialler -> {"none", "up", "leaving"}]
          /\ up' \in [Dialler -> Seq(Item)] /\ down' \in [Dialler -> Seq(Item)]
      BY <3>1, Severed DEF IInv
    <3> QED
      BY <1>5, <2>2, <3>2 DEF IInv, Typed, ListenerTimesOut, history
  <2> QED
    BY <2>1, <2>2
<1>6. ASSUME NEW p \in Process, Drain(p)
      PROVE  Typed'
  BY <1>6, Items, Channels, Numbers DEF IInv, Typed, Drain, listener, wire, history
<1>7. ASSUME NEW c \in Dialler, Dial(c)
      PROVE  Typed'
  BY <1>7, Items, Channels, Numbers DEF IInv, Typed, Dial, listener, wire, history
<1>8. ASSUME NEW c \in Dialler, GiveUp(c)
      PROVE  Typed'
  BY <1>8, Items, Channels, Numbers DEF IInv, Typed, GiveUp, listener, wire, history
<1>9. ASSUME NEW c \in Dialler, Garble(c)
      PROVE  Typed'
  BY <1>9, Items, Channels DEF IInv, Typed, Garble, listener, history
<1>10. ASSUME NEW c \in Dialler, ConnectorSays(c)
      PROVE  Typed'
  <2>1. Packet(index[c], TRUE, Message(index[c], said[c] + 1)) \in Item
    <3>1. index[c] \in Place /\ said[c] + 1 \in Nat /\ TRUE \in BOOLEAN
      BY Numbers DEF IInv, Typed
    <3> QED
      BY <3>1, Messages, Items
  <2>2. up' \in [Dialler -> Seq(Item)]
    <3>1. Append(up[c], Packet(index[c], TRUE, Message(index[c], said[c] + 1))) \in Seq(Item)
      BY <2>1, Channels DEF IInv, Typed
    <3> QED
      BY <1>10, <3>1 DEF IInv, Typed, ConnectorSays
  <2>3. said' \in [Process -> Nat]
    BY <1>10, Numbers DEF IInv, Typed, ConnectorSays
  <2> QED
    BY <1>10, <2>1, <2>2, <2>3 DEF IInv, Typed, ConnectorSays, listener, wire, history
<1>11. ASSUME NEW c \in Dialler, ConnectorCloses(c)
      PROVE  Typed'
  <2>1. phase' \in [Process -> {"idle", "opening", "open", "broken", "closed"}]
    BY <1>11, Numbers DEF IInv, Typed, ConnectorCloses
  <2>2. down' \in [Dialler -> Seq(Item)]
    BY <1>11, Channels DEF IInv, Typed, ConnectorCloses
  <2>3. up' \in [Dialler -> Seq(Item)]
    <3>1. PICK left \in {Append(up[c], Goodbye), up[c], <<>>} : up' \in {up, [up EXCEPT ![c] = left]}
      BY <1>11 DEF ConnectorCloses
    <3>2. Append(up[c], Goodbye) \in Seq(Item) /\ up[c] \in Seq(Item) /\ <<>> \in Seq(Item)
      BY Channels, Items DEF IInv, Typed
    <3> QED
      BY <3>1, <3>2 DEF IInv, Typed
  <2> QED
    BY <1>11, <2>1, <2>2, <2>3 DEF IInv, Typed, ConnectorCloses, listener, wire, history
<1>12. ASSUME NEW c \in Dialler, GoodbyeArrives(c)
      PROVE  Typed'
  BY <1>12, Items, Channels, Numbers DEF IInv, Typed, GoodbyeArrives, listener, wire, history
<1>13. ASSUME NEW c \in Dialler, LibraryNotices(c)
      PROVE  Typed'
  BY <1>13, Items, Channels, Numbers DEF IInv, Typed, LibraryNotices, listener, wire, history
<1>14. ASSUME NEW c \in Dialler, AcceptEvent(c)
      PROVE  Typed'
  <2>1. up' \in [Dialler -> Seq(Item)]
    BY <1>14, Channels DEF IInv, Typed, AcceptEvent, First, Pop
  <2>2. conn' \in [Dialler -> {"none", "up", "leaving"}]
    BY <1>14 DEF IInv, Typed, AcceptEvent
  <2>3. arrived' \in Seq(Dialler)
    <3>1. CASE First(up[c], "goodbye")
      BY <1>14, <3>1, WasThere, LeavingIs DEF AcceptEvent, Accepting, First, IInv
    <3>2. CASE First(up[c], "connect")
      <4>1. Append(arrived, c) \in Seq(Dialler)
        BY DEF IInv, Typed
      <4> QED
        BY <1>14, <3>2, <4>1 DEF AcceptEvent, First
    <3>3. CASE ~First(up[c], "connect") /\ ~First(up[c], "goodbye")
      BY <1>14, <3>3 DEF IInv, Typed, AcceptEvent
    <3> QED
      BY <3>1, <3>2, <3>3
  <2> QED
    BY <1>14, <2>1, <2>2, <2>3 DEF IInv, Typed, AcceptEvent, listener, wire, history
<1>15. ASSUME NEW c \in Dialler, ListenerReceives(c)
      PROVE  Typed'
  <2>1. PICK i \in Seat : \E targets, reached \in SUBSET Seat : Relays(c, i, targets, reached)
    BY <1>15, Relayed
  <2>2. PICK targets, reached : Relays(c, i, targets, reached)
    BY <2>1
  <2>3. Packet(i, FALSE, Head(up[c]).message) \in Item
    BY <2>2, Items, Numbers DEF Relays
  <2>4. down' \in [Dialler -> Seq(Item)]
    BY <2>2, <2>3, DownToTyped DEF IInv, Relays
  <2>5. up' \in [Dialler -> Seq(Item)]
    BY <1>15, Channels DEF IInv, Typed, ListenerReceives, First, Pop
  <2>6. order' \in Seq(Msg)
    BY <2>2, Channels DEF IInv, Typed, Relays
  <2>7. ended' \in [Process -> BOOLEAN]
    BY <2>2 DEF IInv, Typed, Relays
  <2> QED
    BY <1>15, <2>4, <2>5, <2>6, <2>7 DEF IInv, Typed, ListenerReceives, listener
<1>16. ASSUME NEW c \in Dialler, ListenerRefusesPacket(c)
      PROVE  Typed'
  BY <1>16, Items, Channels, Numbers DEF IInv, Typed, ListenerRefusesPacket, listener, wire, history, Pop, First
<1>17. ASSUME NEW c \in Dialler, ListenerLoses(c)
      PROVE  Typed'
  <2>1. conn' \in [Dialler -> {"none", "up", "leaving"}]
    BY <1>17 DEF IInv, Typed, ListenerLoses
  <2>2. up' \in [Dialler -> Seq(Item)]
    BY <1>17, Channels DEF IInv, Typed, ListenerLoses
  <2>3. peers' \in [Seat -> Dialler \cup {None}]
    BY <1>17 DEF IInv, Typed, ListenerLoses
  <2>4. lost' \in SUBSET Seat
    BY <1>17 DEF IInv, Typed, ListenerLoses, IndexOf
  <2>5. ended' \in [Process -> BOOLEAN]
    BY <1>17 DEF IInv, Typed, ListenerLoses
  <2> QED
    BY <1>17, <2>1, <2>2, <2>3, <2>4, <2>5 DEF IInv, Typed, ListenerLoses, listener, wire, history
<1>18. ASSUME NEW c \in Dialler, ListenerRefuses(c)
      PROVE  Typed'
  <2>1. Sever(c)
    BY <1>18 DEF ListenerRefuses
  <2>2. /\ conn' \in [Dialler -> {"none", "up", "leaving"}]
        /\ up' \in [Dialler -> Seq(Item)] /\ down' \in [Dialler -> Seq(Item)]
    BY <2>1, Severed DEF IInv
  <2> QED
    BY <1>18, <2>2 DEF IInv, Typed, ListenerRefuses, listener, history
<1>19. ASSUME NEW c \in Dialler, Told(c)
      PROVE  Typed'
  BY <1>19, Items, Channels, Numbers DEF IInv, Typed, Told, listener, wire, history, Pop, First
<1>20. ASSUME NEW c \in Dialler, Refused(c)
      PROVE  Typed'
  BY <1>20, Items, Channels, Numbers DEF IInv, Typed, Refused, listener, wire, history, Pop, First
<1>21. ASSUME NEW c \in Dialler, ConnectorReceives(c)
      PROVE  Typed'
  <2>1. Head(down[c]) \in Item /\ (Head(down[c]).kind = "packet" => Head(down[c]).message \in Msg /\ Head(down[c]).origin \in Place)
    BY <1>21, Channels, Items DEF IInv, Typed, ConnectorReceives, First
  <2>2. down' \in [Dialler -> Seq(Item)]
    BY <1>21, Channels DEF IInv, Typed, ConnectorReceives, First, Pop
  <2>3. ended' \in [Process -> BOOLEAN]
    BY <1>21 DEF IInv, Typed, ConnectorReceives
  <2>4. heard' \in [Seat -> Seq(Msg)]
    <3>1. index[c] \in Seat
      BY <1>21, Numbers DEF IInv, Typed, Stages, Stage, ConnectorReceives, Pumping
    <3>2. Head(down[c]).message \in Msg /\ heard[index[c]] \in Seq(Msg)
      BY <1>21, <2>1, <3>1 DEF IInv, Typed, ConnectorReceives, First
    <3>3. Append(heard[index[c]], Head(down[c]).message) \in Seq(Msg)
      BY <3>2, Channels
    <3> QED
      BY <1>21, <3>1, <3>3 DEF IInv, Typed, ConnectorReceives
  <2> QED
    BY <1>21, <2>1, <2>2, <2>3, <2>4 DEF IInv, Typed, ConnectorReceives, listener, wire, history
<1>22. ASSUME NEW c \in Dialler, ConnectorLoses(c)
      PROVE  Typed'
  BY <1>22, Items, Channels, Numbers DEF IInv, Typed, ConnectorLoses, listener, wire, history
<1>23. CASE UNCHANGED vars
  BY <1>23 DEF IInv, Typed, vars, listener, wire, history
<1> QED
  BY <1>1, <1>2, <1>3, <1>4, <1>5, <1>6, <1>7, <1>8, <1>9, <1>10, <1>11, <1>12, <1>13, <1>14, <1>15, <1>16, <1>17, <1>18, <1>19, <1>20, <1>21, <1>22, <1>23 DEF Next, ListenerPumps, ConnectorPumps

\* Nobody arrives twice, and seats are given out when everybody is here.
LEMMA ArrivalsStep ==
  ASSUME IInv, [Next]_vars
  PROVE  Arrivals'
<1>1. ASSUME AcceptExpires
      PROVE  Arrivals'
  BY <1>1, Numbers DEF IInv, Typed, Arrivals, AcceptExpires, listener
<1>2. ASSUME Announce
      PROVE  Arrivals'
  <2>1. PICK told \in 0 .. Size - 1 : Announced(told)
    BY <1>2, AnnounceTells
  <2> QED
    BY <1>2, <2>1, Numbers DEF IInv, Typed, Arrivals, Announce, Announced
<1>3. ASSUME ListenerSays
      PROVE  Arrivals'
  BY <1>3, Numbers DEF IInv, Typed, Arrivals, ListenerSays, MaySay, listener
<1>4. ASSUME ListenerCloses
      PROVE  Arrivals'
  BY <1>4, Numbers DEF IInv, Typed, Arrivals, ListenerCloses, listener
<1>5. ASSUME NEW i \in Seat, ListenerTimesOut(i)
      PROVE  Arrivals'
  BY <1>5, Numbers DEF IInv, Typed, Arrivals, ListenerTimesOut, listener
<1>6. ASSUME NEW p \in Process, Drain(p)
      PROVE  Arrivals'
  BY <1>6, Numbers DEF IInv, Typed, Arrivals, Drain, listener
<1>7. ASSUME NEW c \in Dialler, Dial(c)
      PROVE  Arrivals'
  BY <1>7, Numbers DEF IInv, Typed, Arrivals, Dial, listener
<1>8. ASSUME NEW c \in Dialler, GiveUp(c)
      PROVE  Arrivals'
  BY <1>8, Numbers DEF IInv, Typed, Arrivals, GiveUp, listener
<1>9. ASSUME NEW c \in Dialler, Garble(c)
      PROVE  Arrivals'
  BY <1>9, Numbers DEF IInv, Typed, Arrivals, Garble, listener
<1>10. ASSUME NEW c \in Dialler, ConnectorSays(c)
      PROVE  Arrivals'
  BY <1>10, Numbers DEF IInv, Typed, Arrivals, ConnectorSays, listener
<1>11. ASSUME NEW c \in Dialler, ConnectorCloses(c)
      PROVE  Arrivals'
  BY <1>11, Numbers DEF IInv, Typed, Arrivals, ConnectorCloses, listener
<1>12. ASSUME NEW c \in Dialler, GoodbyeArrives(c)
      PROVE  Arrivals'
  BY <1>12, Numbers DEF IInv, Typed, Arrivals, GoodbyeArrives, listener
<1>13. ASSUME NEW c \in Dialler, LibraryNotices(c)
      PROVE  Arrivals'
  BY <1>13, Numbers DEF IInv, Typed, Arrivals, LibraryNotices, listener
<1>14. ASSUME NEW c \in Dialler, AcceptEvent(c)
      PROVE  Arrivals'
  <2>1. /\ phase' = phase /\ phase[Listener] = "opening" /\ Len(arrived) < Size - 1
    BY <1>14 DEF AcceptEvent, Accepting
  <2>2. CASE First(up[c], "connect")
    <3>1. arrived' = Append(arrived, c)
      BY <1>14, <2>2 DEF AcceptEvent, First
    <3>2. \A n \in DOMAIN arrived : arrived[n] # c
      <4>1. 1 \in DOMAIN up[c] /\ Head(up[c]) = up[c][1]
        BY <2>2, HeadAndTail DEF IInv, Typed, First
      <4> QED
        BY <4>1, <2>2 DEF IInv, Stages, Stage, ToListener, HasArrived, First
    <3>3. /\ Len(arrived') = Len(arrived) + 1 /\ Len(arrived) \in Nat
          /\ DOMAIN arrived = 1 .. Len(arrived) /\ DOMAIN arrived' = 1 .. (Len(arrived) + 1)
          /\ arrived'[Len(arrived) + 1] = c /\ \A n \in DOMAIN arrived : arrived'[n] = arrived[n]
      BY <3>1, OneMore DEF IInv, Typed
    <3> QED
      BY <2>1, <3>2, <3>3, Numbers DEF IInv, Arrivals
  <2>3. CASE First(up[c], "goodbye")
    <3>1. arrived' = Leaving(c) /\ HasArrived(c)
      BY <1>14, <2>1, <2>3, WasThere DEF AcceptEvent, First, IInv
    <3>2. \A m, n \in DOMAIN Leaving(c) : Leaving(c)[m] = Leaving(c)[n] => m = n
      BY <3>1, LeavingIs DEF IInv
    <3>3. Len(Leaving(c)) = Len(arrived) - 1 /\ Len(arrived) \in Nat
      BY <3>1, LeavingIs DEF IInv, Typed
    <3> QED
      BY <2>1, <3>1, <3>2, <3>3, Numbers DEF Arrivals
  <2>4. CASE ~First(up[c], "connect") /\ ~First(up[c], "goodbye")
    BY <1>14, <2>1, <2>4 DEF AcceptEvent, IInv, Arrivals
  <2> QED
    BY <2>2, <2>3, <2>4
<1>15. ASSUME NEW c \in Dialler, ListenerReceives(c)
      PROVE  Arrivals'
  BY <1>15, Numbers DEF IInv, Typed, Arrivals, ListenerReceives, listener
<1>16. ASSUME NEW c \in Dialler, ListenerRefusesPacket(c)
      PROVE  Arrivals'
  BY <1>16, Numbers DEF IInv, Typed, Arrivals, ListenerRefusesPacket, listener
<1>17. ASSUME NEW c \in Dialler, ListenerLoses(c)
      PROVE  Arrivals'
  BY <1>17, Numbers DEF IInv, Typed, Arrivals, ListenerLoses, listener
<1>18. ASSUME NEW c \in Dialler, ListenerRefuses(c)
      PROVE  Arrivals'
  BY <1>18, Numbers DEF IInv, Typed, Arrivals, ListenerRefuses, listener
<1>19. ASSUME NEW c \in Dialler, Told(c)
      PROVE  Arrivals'
  BY <1>19, Numbers DEF IInv, Typed, Arrivals, Told, listener
<1>20. ASSUME NEW c \in Dialler, Refused(c)
      PROVE  Arrivals'
  BY <1>20, Numbers DEF IInv, Typed, Arrivals, Refused, listener
<1>21. ASSUME NEW c \in Dialler, ConnectorReceives(c)
      PROVE  Arrivals'
  BY <1>21, Numbers DEF IInv, Typed, Arrivals, ConnectorReceives, listener
<1>22. ASSUME NEW c \in Dialler, ConnectorLoses(c)
      PROVE  Arrivals'
  BY <1>22, Numbers DEF IInv, Typed, Arrivals, ConnectorLoses, listener
<1>23. CASE UNCHANGED vars
  BY <1>23 DEF IInv, Arrivals, vars, listener
<1> QED
  BY <1>1, <1>2, <1>3, <1>4, <1>5, <1>6, <1>7, <1>8, <1>9, <1>10, <1>11, <1>12, <1>13, <1>14, <1>15, <1>16, <1>17, <1>18, <1>19, <1>20, <1>21, <1>22, <1>23 DEF Next, ListenerPumps, ConnectorPumps

\* What an action leaves alone.
LEMMA StageKept ==
  ASSUME NEW d \in Dialler, Stage(d),
         up'[d] = up[d], down'[d] = down[d], conn'[d] = conn[d], phase'[d] = phase[d],
         index'[d] = index[d], arrived' = arrived,
         phase[Listener] = "closed" => phase'[Listener] = "closed"
  PROVE  Stage(d)'
<1>1. HasArrived(d)' <=> HasArrived(d)
  BY DEF HasArrived
<1>2. ToListener(d)'
  BY <1>1 DEF Stage, ToListener
<1>3. ToConnector(d)'
  BY DEF Stage, ToConnector
<1> QED
  BY <1>1, <1>2, <1>3 DEF Stage

LEMMA PopToListener ==
  ASSUME Typed, NEW c \in Dialler, ToListener(c), up[c] # <<>>, up'[c] = Tail(up[c]),
         index'[c] = index[c], phase'[c] = phase[c]
  PROVE  ToListener(c)' /\ (First(up[c], "goodbye") => up'[c] = <<>>)
<1>1. /\ up[c] \in Seq(Item) /\ Len(up'[c]) = Len(up[c]) - 1 /\ Len(up[c]) \in Nat /\ Len(up[c]) > 0
      /\ DOMAIN up[c] = 1 .. Len(up[c]) /\ DOMAIN up'[c] = 1 .. (Len(up[c]) - 1)
      /\ Head(up[c]) = up[c][1] /\ 1 \in DOMAIN up[c]
      /\ \A k \in DOMAIN up'[c] : up'[c][k] = up[c][k + 1] /\ k + 1 \in DOMAIN up[c] /\ k + 1 # 1
  BY HeadAndTail DEF Typed
<1>2. ToListener(c)'
  <2>1. ASSUME NEW k \in DOMAIN up'[c]
        PROVE  /\ up'[c][k].kind \in {"goodbye", "packet"}
               /\ up'[c][k].kind = "goodbye" => k = Len(up'[c]) /\ phase[c] = "closed"
               /\ up'[c][k].kind = "packet" =>
                    /\ index[c] # 0 /\ up'[c][k].origin = index[c] /\ up'[c][k].everyone
                    /\ up'[c][k].message.origin = index[c]
    <3>1. k + 1 \in DOMAIN up[c] /\ k + 1 # 1 /\ up'[c][k] = up[c][k + 1]
      BY <1>1
    <3>2. k + 1 = Len(up[c]) => k = Len(up'[c])
      <4>1. k \in Nat
        BY <1>1
      <4> QED
        BY <4>1, <1>1
    <3> QED
      BY <3>1, <3>2 DEF ToListener
  <2> QED
    BY <2>1 DEF ToListener
<1>3. ASSUME First(up[c], "goodbye")
      PROVE  up'[c] = <<>>
  <2>1. Len(up[c]) = 1
    BY <1>1, <1>3 DEF ToListener, First
  <2>2. Len(up'[c]) = 0 /\ up'[c] \in Seq(Item)
    BY <1>1, <2>1, HeadAndTail
  <2> QED
    BY <2>2, EmptySeq
<1> QED
  BY <1>2, <1>3

LEMMA PopToConnector ==
  ASSUME Typed, NEW c \in Dialler, ToConnector(c), down[c] # <<>>, down'[c] = Tail(down[c]),
         conn'[c] = conn[c], phase'[Listener] = phase[Listener]
  PROVE  ToConnector(c)'
<1>1. /\ down[c] \in Seq(Item) /\ Len(down'[c]) = Len(down[c]) - 1 /\ Len(down[c]) \in Nat /\ Len(down[c]) > 0
      /\ DOMAIN down[c] = 1 .. Len(down[c]) /\ DOMAIN down'[c] = 1 .. (Len(down[c]) - 1)
      /\ \A k \in DOMAIN down'[c] : down'[c][k] = down[c][k + 1] /\ k + 1 \in DOMAIN down[c] /\ k + 1 # 1
  BY HeadAndTail DEF Typed
<1>2. ASSUME NEW k \in DOMAIN down'[c]
      PROVE  /\ down'[c][k].kind \in {"goodbye", "packet"}
             /\ down'[c][k].kind = "goodbye" =>
                  /\ k = Len(down'[c])
                  /\ conn[c] = "up" => phase[Listener] = "closed"
  <2>1. k + 1 \in DOMAIN down[c] /\ k + 1 # 1 /\ down'[c][k] = down[c][k + 1]
    BY <1>1
  <2>2. k + 1 = Len(down[c]) => k = Len(down'[c])
    BY <1>1
  <2> QED
    BY <2>1, <2>2 DEF ToConnector
<1> QED
  BY <1>2 DEF ToConnector

\* A channel that works takes a packet, or a goodbye when it ceases to.
LEMMA MoreToConnector ==
  ASSUME Typed, NEW c \in Dialler, ToConnector(c), NEW item \in Item,
         down'[c] = Append(down[c], item), conn[c] = "up", phase[Listener] # "closed",
         phase'[c] = phase[c], arrived' = arrived,
         \/ item.kind = "packet"
         \/ item = Goodbye /\ (conn'[c] = "up" => phase'[Listener] = "closed")
  PROVE  ToConnector(c)'
<1>1. /\ down[c] \in Seq(Item) /\ Len(down'[c]) = Len(down[c]) + 1 /\ Len(down[c]) \in Nat
      /\ DOMAIN down[c] = 1 .. Len(down[c]) /\ DOMAIN down'[c] = 1 .. (Len(down[c]) + 1)
      /\ down'[c][Len(down[c]) + 1] = item /\ \A k \in DOMAIN down[c] : down'[c][k] = down[c][k]
  BY OneMore DEF Typed
<1>2. item.kind \in {"packet", "goodbye"}
  BY Items
<1>3. ASSUME NEW k \in DOMAIN down[c]
      PROVE  /\ down'[c][k].kind \in {"index", "packet"}
             /\ down'[c][k].kind = "index" =>
                  /\ k = 1 /\ phase'[c] = "opening"
                  /\ down'[c][k].index \in DOMAIN arrived' /\ arrived'[down'[c][k].index] = c
  BY <1>1 DEF ToConnector
<1>4. \A k \in DOMAIN down'[c] : k \in DOMAIN down[c] \/ k = Len(down'[c])
  BY <1>1
<1>5. down'[c][Len(down'[c])] = item
  BY <1>1
<1>6. ASSUME NEW k \in DOMAIN down'[c]
      PROVE  /\ down'[c][k].kind \in {"index", "goodbye", "packet"}
             /\ down'[c][k].kind = "index" =>
                  /\ k = 1 /\ phase'[c] = "opening"
                  /\ down'[c][k].index \in DOMAIN arrived' /\ arrived'[down'[c][k].index] = c
             /\ down'[c][k].kind = "goodbye" =>
                  /\ k = Len(down'[c])
                  /\ conn'[c] = "up" => phase'[Listener] = "closed"
  <2>1. CASE k \in DOMAIN down[c]
    BY <2>1, <1>3
  <2>2. CASE k = Len(down'[c])
    <3>1. down'[c][k] = item
      BY <2>2, <1>5
    <3> QED
      BY <3>1, <2>2, <1>2, Items
  <2> QED
    BY <2>1, <2>2, <1>4
<1> QED
  BY <1>6 DEF ToConnector

LEMMA NothingToConnector ==
  ASSUME NEW c \in Dialler, down'[c] = <<>>
  PROVE  ToConnector(c)'
BY DEF ToConnector

\* Cutting a connection off, whoever is at its other end.
LEMMA SeverStages ==
  ASSUME Typed, Stages, NEW c \in Dialler, Sever(c), conn[c] # "none", phase[Listener] # "closed",
         phase' = phase, index' = index, arrived' = arrived
  PROVE  Stages'
<1>1. ASSUME NEW d \in Dialler, d # c
      PROVE  Stage(d)'
  BY <1>1, Severed, StageKept DEF Stages
<1>2. conn'[c] = "none" /\ up'[c] = <<>>
  BY Severed
<1>3. Stage(c)
  BY DEF Stages
<1>4. ToConnector(c)'
  <2>1. CASE phase[c] = "closed"
    <3>1. down' = down
      BY <2>1 DEF Sever
    <3> QED
      BY <3>1, <1>2, <1>3 DEF Stage, ToConnector
  <2>2. CASE phase[c] # "closed"
    <3>1. conn[c] = "up"
      BY <2>2, <1>3 DEF Stage, Typed
    <3>2. CASE down'[c] = down[c]
      BY <3>2, <1>2, <1>3 DEF Stage, ToConnector
    <3>3. CASE down'[c] = <<>>
      BY <3>3, NothingToConnector
    <3>4. CASE down'[c] = Append(down[c], Goodbye)
      BY <3>4, <3>1, <1>2, <1>3, MoreToConnector, Items DEF Stage
    <3>5. CASE down'[c] = <<Goodbye>>
      <4>1. DOMAIN down'[c] = {1} /\ down'[c][1] = Goodbye /\ Len(down'[c]) = 1
        BY <3>5
      <4> QED
        BY <4>1, <1>2, Items DEF ToConnector
    <3> QED
      BY Severed, <3>2, <3>3, <3>4, <3>5
  <2> QED
    BY <2>1, <2>2
<1>5. ToListener(c)'
  BY <1>2 DEF ToListener
<1>6. HasArrived(c)' <=> HasArrived(c)
  BY DEF HasArrived
<1>7. Stage(c)'
  BY <1>2, <1>3, <1>4, <1>5, <1>6 DEF Stage
<1> QED
  BY <1>1, <1>7 DEF Stages

\* What the listener sends or passes on.
LEMMA DownToStages ==
  ASSUME Typed, Stages, NEW targets \in SUBSET Seat, NEW packet \in Item, packet.kind = "packet",
         down' = DownTo(Reached(targets), packet), phase[Listener] # "closed",
         NEW d \in Dialler, phase'[d] = phase[d], conn' = conn, arrived' = arrived,
         phase'[Listener] # "closed"
  PROVE  ToConnector(d)'
<1>1. ToConnector(d)
  BY DEF Stages, Stage
<1>2. CASE phase[d] # "closed" /\ \E i \in Reached(targets) : peers[i] = d
  <2>1. down'[d] = Append(down[d], packet)
    BY <1>2 DEF DownTo
  <2>2. conn[d] = "up"
    BY <1>2, Numbers DEF Reached
  <2> QED
    BY <1>1, <2>1, <2>2, MoreToConnector
<1>3. CASE ~(phase[d] # "closed" /\ \E i \in Reached(targets) : peers[i] = d)
  <2>1. down'[d] = down[d]
    BY <1>3 DEF DownTo
  <2> QED
    BY <1>1, <2>1 DEF ToConnector
<1> QED
  BY <1>2, <1>3

LEMMA Goodbyes ==
  \A item \in Item : item.kind = "goodbye" => item = Goodbye
BY Items DEF Item, Goodbye

LEMMA ReachedUp ==
  ASSUME NEW targets \in SUBSET Seat, NEW i \in Reached(targets)
  PROVE  i \in targets /\ peers[i] # None /\ conn[peers[i]] = "up"
BY Numbers DEF Reached

LEMMA NotIdle ==
  ASSUME Stages, NEW d \in Dialler, conn[d] # "none"
  PROVE  phase[d] # "idle"
BY DEF Stages, Stage

\* While the listener accepts, an event of one process moves no other in or out.
LEMMA AcceptEventArrived ==
  ASSUME IInv, NEW c \in Dialler, AcceptEvent(c), NEW d \in Dialler \ {c}
  PROVE  HasArrived(d)' <=> HasArrived(d)
<1>1. phase[Listener] = "opening" /\ up[c] # <<>>
  BY DEF AcceptEvent, Accepting
<1>2. CASE First(up[c], "connect")
  <2>1. arrived' = Append(arrived, c)
    BY <1>2 DEF AcceptEvent, First
  <2>2. /\ DOMAIN arrived = 1 .. Len(arrived) /\ DOMAIN arrived' = 1 .. (Len(arrived) + 1)
        /\ arrived'[Len(arrived) + 1] = c /\ \A n \in DOMAIN arrived : arrived'[n] = arrived[n]
        /\ Len(arrived) \in Nat
    BY <2>1, OneMore DEF IInv, Typed
  <2>3. ASSUME NEW n \in DOMAIN arrived', arrived'[n] = d
        PROVE  n \in DOMAIN arrived
    BY <2>2, <2>3
  <2>4. \A n \in DOMAIN arrived : n \in DOMAIN arrived'
    BY <2>2
  <2> QED
    BY <2>2, <2>3, <2>4 DEF HasArrived
<1>3. CASE First(up[c], "goodbye")
  <2>1. arrived' = Leaving(c) /\ HasArrived(c)
    BY <1>1, <1>3, WasThere DEF AcceptEvent, First, IInv
  <2>2. /\ \A m \in DOMAIN Leaving(c) : \E n \in DOMAIN arrived : Leaving(c)[m] = arrived[n]
        /\ \A n \in DOMAIN arrived : arrived[n] # c => \E m \in DOMAIN Leaving(c) : Leaving(c)[m] = arrived[n]
    BY <2>1, LeavingIs DEF IInv
  <2> QED
    BY <2>1, <2>2 DEF HasArrived
<1>4. CASE ~First(up[c], "connect") /\ ~First(up[c], "goodbye")
  <2>1. arrived' = arrived
    BY <1>4 DEF AcceptEvent
  <2> QED
    BY <2>1 DEF HasArrived
<1> QED
  BY <1>2, <1>3, <1>4

\* A process goes through its stages.
LEMMA StagesStep ==
  ASSUME IInv, [Next]_vars
  PROVE  Stages'
<1>1. ASSUME AcceptExpires
      PROVE  Stages'
  <2>1. ASSUME NEW d \in Dialler
        PROVE  Stage(d)'
    BY <1>1, StageKept, Numbers DEF IInv, Stages, Typed, AcceptExpires, listener, wire, history
  <2> QED
    BY <2>1 DEF Stages
<1>2. ASSUME Announce
      PROVE  Stages'
  <2>1. PICK told \in 0 .. Size - 1 : Announced(told)
    BY <1>2, AnnounceTells
  <2>2. /\ phase[Listener] = "opening" /\ up' = up /\ conn' = conn /\ index' = index /\ arrived' = arrived
        /\ Len(arrived) = Size - 1
    BY <1>2 DEF Announce
  <2>3. \A d \in Dialler : phase'[d] = phase[d] /\ Stage(d) /\ index[d] = 0 /\ (HasArrived(d)' <=> HasArrived(d))
    BY <2>1, <2>2, Numbers DEF Announced, IInv, Typed, Stages, Before, HasArrived
  <2>4. ASSUME NEW d \in Dialler
        PROVE  Stage(d)'
    <3>1. ToListener(d)'
      BY <2>2, <2>3 DEF Stage, ToListener
    <3>2. CASE \A i \in 1 .. told : arrived[i] # d
      <4>1. down'[d] = <<>>
        BY <2>1, <3>2 DEF Announced
      <4> QED
        BY <4>1, <3>1, <2>2, <2>3, NothingToConnector DEF Stage
    <3>3. CASE \E i \in 1 .. told : arrived[i] = d
      <4>1. PICK i \in 1 .. told : arrived[i] = d
        BY <3>3
      <4>2. i \in DOMAIN arrived /\ HasArrived(d) /\ i \in Seat
        <5>1. DOMAIN arrived = 1 .. (Size - 1) /\ i \in 1 .. (Size - 1)
          BY <2>2, Numbers DEF IInv, Typed
        <5> QED
          BY <4>1, <5>1, Numbers DEF HasArrived
      <4>3. CASE phase[d] = "closed"
        <5>1. down'[d] = <<>>
          BY <2>1, <4>1, <4>3 DEF Announced
        <5> QED
          BY <5>1, <3>1, <2>2, <2>3, NothingToConnector DEF Stage
      <4>4. CASE phase[d] # "closed"
        <5>1. phase[d] = "opening"
          BY <2>3, <4>2, <4>4, Numbers DEF Stage, IInv, Typed
        <5>2. YouAre(i).kind = "index" /\ YouAre(i).index = i
          BY <4>2, Items
        <5>3. CASE told = Size - 1
          <6>1. down'[d] = <<YouAre(i)>>
            BY <2>1, <4>1, <4>4, <5>3 DEF Announced
          <6>2. DOMAIN down'[d] = {1} /\ down'[d][1] = YouAre(i)
            BY <6>1
          <6>3. ToConnector(d)'
            BY <2>2, <2>3, <4>1, <4>2, <5>1, <5>2, <6>2 DEF ToConnector
          <6> QED
            BY <6>3, <3>1, <2>2, <2>3, <5>1 DEF Stage
        <5>4. CASE told # Size - 1
          <6>1. down'[d] \in {<<YouAre(i), Goodbye>>, <<YouAre(i)>>, <<>>}
            BY <2>1, <4>1, <4>4, <5>4 DEF Announced
          <6>2. phase'[Listener] = "closed"
            BY <2>1, <5>4, Numbers DEF Announced, IInv, Typed
          <6>3. CASE down'[d] = <<>>
            BY <6>3, <3>1, <2>2, <2>3, NothingToConnector DEF Stage
          <6>4. CASE down'[d] = <<YouAre(i)>>
            <7>1. DOMAIN down'[d] = {1} /\ down'[d][1] = YouAre(i)
              BY <6>4
            <7>2. ToConnector(d)'
              BY <2>2, <2>3, <4>1, <4>2, <5>1, <5>2, <7>1 DEF ToConnector
            <7> QED
              BY <7>2, <3>1, <2>2, <2>3, <5>1 DEF Stage
          <6>5. CASE down'[d] = <<YouAre(i), Goodbye>>
            <7>1. DOMAIN down'[d] = {1, 2} /\ down'[d][1] = YouAre(i) /\ down'[d][2] = Goodbye /\ Len(down'[d]) = 2
              BY <6>5
            <7>2. ToConnector(d)'
              BY <2>2, <2>3, <4>1, <4>2, <5>1, <5>2, <7>1, <6>2, Items DEF ToConnector
            <7> QED
              BY <7>2, <3>1, <2>2, <2>3, <5>1 DEF Stage
          <6> QED
            BY <6>1, <6>3, <6>4, <6>5
        <5> QED
          BY <5>3, <5>4
      <4> QED
        BY <4>3, <4>4
    <3> QED
      BY <3>2, <3>3
  <2> QED
    BY <2>4 DEF Stages
<1>3. ASSUME ListenerSays
      PROVE  Stages'
  <2>1. PICK packet : packet = Packet(0, FALSE, Message(0, said[Listener] + 1))
    OBVIOUS
  <2>2. packet \in Item /\ packet.kind = "packet"
    <3>1. 0 \in Place /\ said[Listener] + 1 \in Nat /\ FALSE \in BOOLEAN
      BY Numbers DEF IInv, Typed
    <3> QED
      BY <2>1, <3>1, Messages, Items
  <2>3. PICK targets \in SUBSET Seat : targets = Seat \ lost
    OBVIOUS
  <2>4. /\ phase[Listener] = "open" /\ phase'[Listener] # "closed"
        /\ \A d \in Dialler : phase'[d] = phase[d]
        /\ conn' = conn /\ arrived' = arrived /\ index' = index /\ up' = up
        /\ down' = DownTo(Reached(targets), packet)
    BY <1>3, <2>1, <2>3, Numbers DEF ListenerSays, MaySay, listener, IInv, Typed
  <2>5. ASSUME NEW d \in Dialler
        PROVE  Stage(d)'
    <3>1. Stage(d) /\ (HasArrived(d)' <=> HasArrived(d))
      BY <2>4 DEF IInv, Stages, HasArrived
    <3>2. ToConnector(d)'
      BY <2>2, <2>4, DownToStages DEF IInv
    <3>3. ToListener(d)'
      BY <2>4, <3>1 DEF Stage, ToListener
    <3>4. phase[d] = "idle" => down'[d] = down[d]
      BY <2>4, <3>1, NotIdle, ReachedUp DEF DownTo, IInv
    <3> QED
      BY <2>4, <3>1, <3>2, <3>3, <3>4 DEF Stage
  <2> QED
    BY <2>5 DEF Stages
<1>4. ASSUME ListenerCloses
      PROVE  Stages'
  <2>1. /\ phase'[Listener] = "closed" /\ \A d \in Dialler : phase'[d] = phase[d] /\ up'[d] = <<>>
        /\ arrived' = arrived /\ index' = index /\ conn' = conn /\ phase[Listener] \in {"open", "broken"}
    BY <1>4, Numbers DEF ListenerCloses, IInv, Typed, listener
  <2>2. PICK drained \in SUBSET Dialler, sent \in BOOLEAN :
          down' = [d \in Dialler |->
                     IF IndexOf(d) = {} \/ conn[d] # "up" \/ phase[d] = "closed" THEN down[d]
                     ELSE IF d \in drained THEN Append(down[d], Goodbye)
                     ELSE IF sent THEN down[d] ELSE <<>>]
    BY <1>4 DEF ListenerCloses
  <2>3. ASSUME NEW d \in Dialler
        PROVE  Stage(d)'
    <3>1. Stage(d) /\ (HasArrived(d)' <=> HasArrived(d))
      BY <2>1 DEF IInv, Stages, HasArrived
    <3>2. ToListener(d)'
      BY <2>1 DEF ToListener
    <3>3. CASE IndexOf(d) = {} \/ conn[d] # "up" \/ phase[d] = "closed"
      <4>1. down'[d] = down[d]
        BY <2>2, <3>3
      <4> QED
        BY <4>1, <2>1, <3>1, <3>2 DEF Stage, ToConnector
    <3>4. CASE ~(IndexOf(d) = {} \/ conn[d] # "up" \/ phase[d] = "closed")
      <4>1. down'[d] \in {down[d], <<>>, Append(down[d], Goodbye)}
        <5>1. CASE d \in drained
          BY <2>2, <3>4, <5>1
        <5>2. CASE d \notin drained
          BY <2>2, <3>4, <5>2
        <5> QED
          BY <5>1, <5>2
      <4>2. ToConnector(d)'
        <5>1. CASE down'[d] = down[d]
          BY <5>1, <2>1, <3>1 DEF Stage, ToConnector
        <5>2. CASE down'[d] = <<>>
          BY <5>2, NothingToConnector
        <5>3. CASE down'[d] = Append(down[d], Goodbye)
          BY <5>3, <2>1, <3>1, <3>4, MoreToConnector, Items DEF Stage, IInv
        <5> QED
          BY <4>1, <5>1, <5>2, <5>3
      <4>3. phase[d] # "idle"
        BY <3>1, <3>4 DEF Stage
      <4> QED
        BY <4>2, <4>3, <2>1, <3>1, <3>2 DEF Stage
    <3> QED
      BY <3>3, <3>4
  <2> QED
    BY <2>3 DEF Stages
<1>5. ASSUME NEW i \in Seat, ListenerTimesOut(i)
      PROVE  Stages'
  <2>1. CASE ~KeepsGoing
    <3>1. ASSUME NEW d \in Dialler
          PROVE  Stage(d)'
      BY <1>5, <2>1, StageKept DEF IInv, Stages, ListenerTimesOut, wire
    <3> QED
      BY <3>1 DEF Stages
  <2>2. CASE KeepsGoing
    <3>1. /\ peers[i] \in Dialler /\ Sever(peers[i]) /\ Pumping(Listener)
          /\ phase' = phase /\ index' = index /\ arrived' = arrived
      BY <1>5, <2>2 DEF IInv, Typed, ListenerTimesOut, history
    <3>2. conn[peers[i]] # "none"
      BY <3>1, Numbers DEF IInv, Seats
    <3> QED
      BY <3>1, <3>2, SeverStages DEF IInv, Pumping
  <2> QED
    BY <2>1, <2>2
<1>6. ASSUME NEW p \in Process, Drain(p)
      PROVE  Stages'
  <2>1. ASSUME NEW d \in Dialler
        PROVE  Stage(d)'
    BY <1>6, StageKept, Numbers DEF IInv, Stages, Typed, Drain, listener, wire, history
  <2> QED
    BY <2>1 DEF Stages
<1>7. ASSUME NEW c \in Dialler, Dial(c)
      PROVE  Stages'
  <2>1. ASSUME NEW d \in Dialler, d # c
        PROVE  Stage(d)'
    BY <1>7, <2>1, StageKept, Numbers DEF IInv, Stages, Typed, Dial, listener, wire, history
  <2>2. /\ up'[c] = <<Connect>> /\ conn'[c] = "up" /\ phase'[c] = "opening"
        /\ down' = down /\ index' = index /\ arrived' = arrived
    BY <1>7, Numbers DEF Dial, IInv, Typed, listener
  <2>3. /\ down[c] = <<>> /\ index[c] = 0 /\ ~HasArrived(c)
    BY <1>7 DEF Dial, IInv, Stages, Stage
  <2>4. DOMAIN up'[c] = {1} /\ up'[c][1] = Connect /\ Len(up'[c]) = 1
    BY <2>2
  <2>5. ~HasArrived(c)'
    BY <2>2, <2>3 DEF HasArrived
  <2>6. ToListener(c)'
    BY <2>2, <2>3, <2>4, <2>5, Items DEF ToListener
  <2>7. ToConnector(c)'
    BY <2>2, <2>3, NothingToConnector
  <2>9. Stage(c)'
    BY <2>2, <2>3, <2>4, <2>5, <2>6, <2>7 DEF Stage
  <2> QED
    BY <2>1, <2>9 DEF Stages
<1>8. ASSUME NEW c \in Dialler, GiveUp(c)
      PROVE  Stages'
  <2>1. ASSUME NEW d \in Dialler, d # c
        PROVE  Stage(d)'
    BY <1>8, <2>1, StageKept, Numbers DEF IInv, Stages, Typed, GiveUp, listener, wire, history
  <2>2. /\ down'[c] = <<>> /\ phase'[c] = "closed" /\ phase[c] = "opening"
        /\ conn' = conn /\ up' = up /\ index' = index /\ arrived' = arrived
    BY <1>8, Numbers DEF GiveUp, IInv, Typed, listener
  <2>3. Stage(c) /\ (HasArrived(c)' <=> HasArrived(c))
    BY <2>2 DEF IInv, Stages, HasArrived
  <2>4. ToConnector(c)'
    BY <2>2, NothingToConnector
  <2>5. ToListener(c)'
    BY <2>2, <2>3 DEF Stage, ToListener
  <2>9. Stage(c)'
    BY <2>2, <2>3, <2>4, <2>5 DEF Stage
  <2> QED
    BY <2>1, <2>9 DEF Stages
<1>9. ASSUME NEW c \in Dialler, Garble(c)
      PROVE  Stages'
  <2>1. ASSUME NEW d \in Dialler, d # c
        PROVE  Stage(d)'
    BY <1>9, <2>1, StageKept, Numbers DEF IInv, Stages, Typed, Garble, listener, wire, history
  <2>2. /\ up'[c] = <<Garbled>> /\ phase[c] = "opening" /\ phase' = phase /\ conn[c] = "up"
        /\ conn' = conn /\ down' = down /\ index' = index /\ arrived' = arrived
    BY <1>9, Numbers DEF Garble, IInv, Typed, listener
  <2>3. Stage(c) /\ (HasArrived(c)' <=> HasArrived(c))
    BY <2>2 DEF IInv, Stages, HasArrived
  <2>4. DOMAIN up'[c] = {1} /\ up'[c][1] = Garbled /\ Len(up'[c]) = 1
    BY <2>2
  <2>5. ToListener(c)'
    BY <2>4, Items DEF ToListener
  <2>6. ToConnector(c)'
    BY <2>2, <2>3 DEF Stage, ToConnector
  <2>9. Stage(c)'
    BY <2>2, <2>3, <2>4, <2>5, <2>6 DEF Stage
  <2> QED
    BY <2>1, <2>9 DEF Stages
<1>10. ASSUME NEW c \in Dialler, ConnectorSays(c)
      PROVE  Stages'
  <2>1. ASSUME NEW d \in Dialler, d # c
        PROVE  Stage(d)'
    BY <1>10, <2>1, StageKept, Numbers DEF IInv, Stages, Typed, ConnectorSays, listener, wire, history
  <2>2. /\ phase[c] = "open" /\ phase' = phase
        /\ conn' = conn /\ down' = down /\ index' = index /\ arrived' = arrived
    BY <1>10 DEF ConnectorSays, MaySay, listener
  <2>3. Stage(c) /\ (HasArrived(c)' <=> HasArrived(c))
    BY <2>2 DEF IInv, Stages, HasArrived
  <2>4. ToConnector(c)'
    BY <2>2, <2>3 DEF Stage, ToConnector
  <2>5. ToListener(c)' /\ (conn[c] = "none" => up'[c] = <<>>)
    <3>1. CASE conn[c] = "up" /\ phase[Listener] # "closed"
      <4>1. PICK packet : packet = Packet(index[c], TRUE, Message(index[c], said[c] + 1))
        OBVIOUS
      <4>2. /\ packet \in Item /\ packet.kind = "packet" /\ packet.origin = index[c]
            /\ packet.everyone /\ packet.message.origin = index[c]
        <5>1. index[c] \in Place /\ said[c] + 1 \in Nat /\ TRUE \in BOOLEAN
          BY Numbers DEF IInv, Typed
        <5>2. Message(index[c], said[c] + 1) \in Msg /\ Message(index[c], said[c] + 1).origin = index[c]
          BY <5>1, Messages
        <5>3. /\ packet \in Item /\ packet.kind = "packet" /\ packet.origin = index[c]
              /\ packet.everyone /\ packet.message = Message(index[c], said[c] + 1)
          <6>1. PICK m \in Msg : m = Message(index[c], said[c] + 1)
            BY <5>2
          <6>2. packet = Packet(index[c], TRUE, m)
            BY <4>1, <6>1
          <6>3. packet \in Item
            BY <5>1, <6>2, Items
          <6>4. packet.kind = "packet" /\ packet.origin = index[c] /\ packet.everyone /\ packet.message = m
            BY <6>2 DEF Packet
          <6> QED
            BY <6>1, <6>3, <6>4
        <5> QED
          BY <5>2, <5>3
      <4>3. up'[c] = Append(up[c], packet) /\ up[c] \in Seq(Item)
        BY <1>10, <3>1, <4>1 DEF ConnectorSays, IInv, Typed
      <4>4. /\ DOMAIN up'[c] = 1 .. (Len(up[c]) + 1) /\ DOMAIN up[c] = 1 .. Len(up[c])
            /\ up'[c][Len(up[c]) + 1] = packet /\ \A k \in DOMAIN up[c] : up'[c][k] = up[c][k]
        BY <4>2, <4>3, OneMore
      <4>5. \A k \in DOMAIN up'[c] : k \in DOMAIN up[c] \/ up'[c][k] = packet
        BY <4>4
      <4>6. \A k \in DOMAIN up[c] : up[c][k].kind # "goodbye"
        BY <2>2, <2>3 DEF Stage, ToListener
      <4>7. ToListener(c)'
        <5>1. ASSUME NEW k \in DOMAIN up'[c]
              PROVE  /\ up'[c][k].kind \in {"connect", "garbled", "packet"}
                     /\ up'[c][k].kind = "connect" => k = 1 /\ index[c] = 0 /\ ~HasArrived(c)
                     /\ up'[c][k].kind = "garbled" => k = 1
                     /\ up'[c][k].kind = "packet" =>
                          /\ index[c] # 0 /\ up'[c][k].origin = index[c] /\ up'[c][k].everyone
                          /\ up'[c][k].message.origin = index[c]
          <6>1. CASE k \in DOMAIN up[c]
            BY <6>1, <4>4, <4>6, <2>3 DEF Stage, ToListener
          <6>2. CASE up'[c][k] = packet
            BY <6>2, <4>2, <2>2, <2>3 DEF Stage
          <6> QED
            BY <6>1, <6>2, <4>5
        <5> QED
          BY <5>1, <2>2, <2>3 DEF ToListener
      <4> QED
        BY <3>1, <4>7
    <3>2. CASE ~(conn[c] = "up" /\ phase[Listener] # "closed")
      <4>1. up' = up
        BY <1>10, <3>2 DEF ConnectorSays
      <4> QED
        BY <4>1, <2>2, <2>3 DEF Stage, ToListener
    <3> QED
      BY <3>1, <3>2
  <2>9. Stage(c)'
    BY <2>2, <2>3, <2>4, <2>5 DEF Stage
  <2> QED
    BY <2>1, <2>9 DEF Stages
<1>11. ASSUME NEW c \in Dialler, ConnectorCloses(c)
      PROVE  Stages'
  <2>1. ASSUME NEW d \in Dialler, d # c
        PROVE  Stage(d)'
    BY <1>11, <2>1, StageKept, Numbers DEF IInv, Stages, Typed, ConnectorCloses, listener, wire, history
  <2>2. /\ phase[c] = "open" /\ phase'[c] = "closed" /\ down'[c] = <<>>
        /\ conn' = conn /\ index' = index /\ arrived' = arrived
    BY <1>11, Numbers DEF ConnectorCloses, IInv, Typed, listener
  <2>3. Stage(c) /\ (HasArrived(c)' <=> HasArrived(c))
    BY <2>2 DEF IInv, Stages, HasArrived
  <2>4. ToConnector(c)'
    BY <2>2, NothingToConnector
  <2>5. /\ up'[c] \in {Append(up[c], Goodbye), up[c], <<>>}
        /\ conn[c] = "none" => up'[c] = up[c]
    BY <1>11 DEF ConnectorCloses, IInv, Typed
  <2>6. ToListener(c)'
    <3>1. CASE up'[c] = Append(up[c], Goodbye)
      <4>1. /\ DOMAIN up'[c] = 1 .. (Len(up[c]) + 1) /\ DOMAIN up[c] = 1 .. Len(up[c])
            /\ Len(up'[c]) = Len(up[c]) + 1
            /\ up'[c][Len(up[c]) + 1] = Goodbye /\ \A k \in DOMAIN up[c] : up'[c][k] = up[c][k]
        BY <3>1, OneMore, Items DEF IInv, Typed
      <4>2. \A k \in DOMAIN up'[c] : k \in DOMAIN up[c] \/ (k = Len(up'[c]) /\ up'[c][k] = Goodbye)
        BY <4>1
      <4>3. \A k \in DOMAIN up[c] : up[c][k].kind # "goodbye"
        BY <2>2, <2>3 DEF Stage, ToListener
      <4>4. ASSUME NEW k \in DOMAIN up'[c]
            PROVE  /\ up'[c][k].kind \in {"connect", "garbled", "goodbye", "packet"}
                   /\ up'[c][k].kind = "connect" => k = 1 /\ index[c] = 0 /\ ~HasArrived(c)
                   /\ up'[c][k].kind = "garbled" => k = 1
                   /\ up'[c][k].kind = "goodbye" => k = Len(up'[c])
                   /\ up'[c][k].kind = "packet" =>
                        /\ index[c] # 0 /\ up'[c][k].origin = index[c] /\ up'[c][k].everyone
                        /\ up'[c][k].message.origin = index[c]
        <5>1. CASE k \in DOMAIN up[c]
          BY <5>1, <4>1, <4>3, <2>3 DEF Stage, ToListener
        <5>2. CASE k = Len(up'[c]) /\ up'[c][k] = Goodbye
          BY <5>2, Items
        <5> QED
          BY <5>1, <5>2, <4>2
      <4> QED
        BY <4>4, <2>2, <2>3 DEF ToListener
    <3>2. CASE up'[c] = up[c]
      BY <3>2, <2>2, <2>3 DEF Stage, ToListener
    <3>3. CASE up'[c] = <<>>
      BY <3>3 DEF ToListener
    <3> QED
      BY <2>5, <3>1, <3>2, <3>3
  <2>9. Stage(c)'
    BY <2>2, <2>3, <2>4, <2>5, <2>6 DEF Stage
  <2> QED
    BY <2>1, <2>9 DEF Stages
<1>12. ASSUME NEW c \in Dialler, GoodbyeArrives(c)
      PROVE  Stages'
  <2>1. ASSUME NEW d \in Dialler, d # c
        PROVE  Stage(d)'
    BY <1>12, <2>1, StageKept, Numbers DEF IInv, Stages, Typed, GoodbyeArrives, listener, wire, history
  <2>2. /\ phase' = phase /\ conn[c] = "up" /\ conn'[c] = "leaving" /\ First(up[c], "goodbye")
        /\ up' = up /\ down' = down /\ index' = index /\ arrived' = arrived
    BY <1>12 DEF GoodbyeArrives, IInv, Typed, listener
  <2>3. Stage(c) /\ (HasArrived(c)' <=> HasArrived(c))
    BY <2>2 DEF IInv, Stages, HasArrived
  <2>4. ToConnector(c)'
    BY <2>2, <2>3 DEF Stage, ToConnector
  <2>5. ToListener(c)'
    BY <2>2, <2>3 DEF Stage, ToListener
  <2>6. phase[c] = "closed"
    <3>1. 1 \in DOMAIN up[c] /\ Head(up[c]) = up[c][1]
      BY <2>2, HeadAndTail DEF IInv, Typed, First
    <3> QED
      BY <3>1, <2>2, <2>3 DEF Stage, ToListener, First
  <2>9. Stage(c)'
    BY <2>2, <2>3, <2>4, <2>5, <2>6 DEF Stage
  <2> QED
    BY <2>1, <2>9 DEF Stages
<1>13. ASSUME NEW c \in Dialler, LibraryNotices(c)
      PROVE  Stages'
  <2>1. ASSUME NEW d \in Dialler, d # c
        PROVE  Stage(d)'
    BY <1>13, <2>1, StageKept, Numbers DEF IInv, Stages, Typed, LibraryNotices, listener, wire, history
  <2>2. /\ phase[c] = "closed" /\ phase' = phase /\ conn[c] = "up" /\ up'[c] = Append(up[c], Goodbye)
        /\ conn' = conn /\ down' = down /\ index' = index /\ arrived' = arrived
        /\ \A n \in 1 .. Len(up[c]) : up[c][n] # Goodbye
    BY <1>13 DEF LibraryNotices, IInv, Typed, listener
  <2>3. Stage(c) /\ (HasArrived(c)' <=> HasArrived(c))
    BY <2>2 DEF IInv, Stages, HasArrived
  <2>4. ToConnector(c)'
    BY <2>2, <2>3 DEF Stage, ToConnector
  <2>6. ToListener(c)'
    <3>1. up'[c] = Append(up[c], Goodbye)
      BY <2>2
    <3>2. ToListener(c)'
      <4>1. /\ DOMAIN up'[c] = 1 .. (Len(up[c]) + 1) /\ DOMAIN up[c] = 1 .. Len(up[c])
            /\ Len(up'[c]) = Len(up[c]) + 1
            /\ up'[c][Len(up[c]) + 1] = Goodbye /\ \A k \in DOMAIN up[c] : up'[c][k] = up[c][k]
        BY <3>1, OneMore, Items DEF IInv, Typed
      <4>2. \A k \in DOMAIN up'[c] : k \in DOMAIN up[c] \/ (k = Len(up'[c]) /\ up'[c][k] = Goodbye)
        BY <4>1
      <4>3. \A k \in DOMAIN up[c] : up[c][k].kind # "goodbye"
        BY <2>2, <4>1, Goodbyes DEF IInv, Typed
      <4>4. ASSUME NEW k \in DOMAIN up'[c]
            PROVE  /\ up'[c][k].kind \in {"connect", "garbled", "goodbye", "packet"}
                   /\ up'[c][k].kind = "connect" => k = 1 /\ index[c] = 0 /\ ~HasArrived(c)
                   /\ up'[c][k].kind = "garbled" => k = 1
                   /\ up'[c][k].kind = "goodbye" => k = Len(up'[c])
                   /\ up'[c][k].kind = "packet" =>
                        /\ index[c] # 0 /\ up'[c][k].origin = index[c] /\ up'[c][k].everyone
                        /\ up'[c][k].message.origin = index[c]
        <5>1. CASE k \in DOMAIN up[c]
          BY <5>1, <4>1, <4>3, <2>3 DEF Stage, ToListener
        <5>2. CASE k = Len(up'[c]) /\ up'[c][k] = Goodbye
          BY <5>2, Items
        <5> QED
          BY <5>1, <5>2, <4>2
      <4> QED
        BY <4>4, <2>2, <2>3 DEF ToListener
    <3> QED
      BY <3>2
  <2>9. Stage(c)'
    BY <2>2, <2>3, <2>4, <2>6 DEF Stage
  <2> QED
    BY <2>1, <2>9 DEF Stages
<1>14. ASSUME NEW c \in Dialler, AcceptEvent(c)
      PROVE  Stages'
  <2>1. /\ phase[Listener] = "opening" /\ phase' = phase /\ up[c] # <<>> /\ up' = Pop(up, c)
        /\ down' = down /\ index' = index
    BY <1>14 DEF AcceptEvent, Accepting
  <2>2. \A d \in Dialler : index[d] = 0 /\ down[d] = <<>> /\ Stage(d)
    BY <2>1 DEF IInv, Before, Stages
  <2>3. \A d \in Dialler \ {c} : up'[d] = up[d] /\ conn'[d] = conn[d] /\ (HasArrived(d)' <=> HasArrived(d))
    <3>1. \A d \in Dialler \ {c} : up'[d] = up[d] /\ conn'[d] = conn[d]
      BY <1>14 DEF AcceptEvent, Pop, IInv, Typed
    <3>2. ASSUME NEW d \in Dialler \ {c}
          PROVE  HasArrived(d)' <=> HasArrived(d)
      BY <1>14, AcceptEventArrived
    <3> QED
      BY <3>1, <3>2
  <2>4. ASSUME NEW d \in Dialler, d # c
        PROVE  Stage(d)'
    <3>1. ToConnector(d)'
      BY <2>1, <2>2, NothingToConnector
    <3>2. ToListener(d)'
      BY <2>1, <2>2, <2>3, <2>4 DEF Stage, ToListener
    <3> QED
      BY <2>1, <2>2, <2>3, <2>4, <3>1, <3>2 DEF Stage
  <2>5. up'[c] = Tail(up[c]) /\ conn[c] # "none"
    BY <2>1, <2>2 DEF Pop, IInv, Typed, Stage
  <2>6. ToListener(c)' /\ (First(up[c], "goodbye") => up'[c] = <<>>)
    BY <2>1, <2>2, <2>5, PopToListener DEF IInv, Stage
  <2>7. ToConnector(c)'
    BY <2>1, <2>2, NothingToConnector
  <2>8. conn'[c] = conn[c] \/ (conn'[c] = "none" /\ First(up[c], "goodbye"))
    BY <1>14 DEF AcceptEvent, IInv, Typed
  <2>9. phase[c] # "idle" /\ phase[c] # "open"
    BY <2>2, <2>5 DEF Stage
  <2>10. Len(up'[c]) <= 1 \/ phase[c] = "closed"
    <3>1. Len(up[c]) <= 1 \/ phase[c] = "closed"
      <4>1. phase[c] \in {"opening", "closed"}
        BY <2>2, <2>9, Numbers DEF Stage, IInv, Typed
      <4> QED
        BY <2>2, <4>1 DEF Stage
    <3>2. Len(up'[c]) = Len(up[c]) - 1 /\ Len(up[c]) \in Nat
      BY <2>1, <2>5, HeadAndTail DEF IInv, Typed
    <3> QED
      BY <3>1, <3>2
  <2>11. Stage(c)'
    BY <2>1, <2>2, <2>5, <2>6, <2>7, <2>8, <2>9, <2>10 DEF Stage
  <2> QED
    BY <2>4, <2>11 DEF Stages
<1>15. ASSUME NEW c \in Dialler, ListenerReceives(c)
      PROVE  Stages'
  <2>1. PICK i \in Seat : \E targets, reached \in SUBSET Seat : Relays(c, i, targets, reached)
    BY <1>15, Relayed
  <2>2. PICK targets \in SUBSET Seat, reached \in SUBSET Seat : Relays(c, i, targets, reached)
    BY <2>1
  <2>3. Packet(i, FALSE, Head(up[c]).message) \in Item /\ Packet(i, FALSE, Head(up[c]).message).kind = "packet"
    BY <2>2, Items, Numbers DEF Relays
  <2>4. /\ phase' = phase /\ phase[Listener] = "open" /\ conn' = conn /\ arrived' = arrived /\ index' = index
        /\ up[c] # <<>>
    BY <1>15 DEF ListenerReceives, Pumping, listener, First
  <2>5. /\ up'[c] = Tail(up[c]) /\ \A d \in Dialler \ {c} : up'[d] = up[d]
        /\ down' = DownTo(Reached(targets), Packet(i, FALSE, Head(up[c]).message))
    BY <2>2 DEF Relays, IInv, Typed
  <2>6. ASSUME NEW d \in Dialler
        PROVE  Stage(d)'
    <3>1. Stage(d) /\ (HasArrived(d)' <=> HasArrived(d))
      BY <2>4 DEF IInv, Stages, HasArrived
    <3>2. ToConnector(d)'
      BY <2>3, <2>4, <2>5, DownToStages DEF IInv
    <3>3. CASE d # c
      <4>1. ToListener(d)'
        BY <2>4, <2>5, <3>1, <3>3 DEF Stage, ToListener
      <4>2. phase[d] = "idle" => down'[d] = down[d]
        BY <2>4, <2>5, <3>1, NotIdle, ReachedUp DEF DownTo, IInv
      <4> QED
        BY <2>4, <2>5, <3>1, <3>2, <3>3, <4>1, <4>2 DEF Stage
    <3>4. CASE d = c
      <4>1. ToListener(c)'
        BY <2>4, <2>5, <3>1, <3>4, PopToListener DEF Stage, IInv
      <4>2. conn[c] # "none" /\ Len(up'[c]) = Len(up[c]) - 1 /\ Len(up[c]) \in Nat
        BY <2>4, <2>5, <3>1, <3>4, HeadAndTail DEF Stage, IInv, Typed
      <4>3. Len(up[c]) <= 1 => Len(up'[c]) <= 1
        BY <4>2
      <4> QED
        BY <2>4, <2>5, <3>1, <3>2, <3>4, <4>1, <4>2, <4>3 DEF Stage
    <3> QED
      BY <3>3, <3>4
  <2> QED
    BY <2>6 DEF Stages
<1>16. ASSUME NEW c \in Dialler, ListenerRefusesPacket(c)
      PROVE  Stages'
  <2>1. ASSUME NEW d \in Dialler, d # c
        PROVE  Stage(d)'
    BY <1>16, <2>1, StageKept, Numbers DEF IInv, Stages, Typed, ListenerRefusesPacket, Pop, listener, wire, history
  <2>2. /\ phase' = phase /\ up'[c] = Tail(up[c]) /\ up[c] # <<>>
        /\ conn' = conn /\ down' = down /\ arrived' = arrived /\ index' = index
    BY <1>16 DEF ListenerRefusesPacket, IInv, Typed, listener, Pop, First
  <2>3. Stage(c) /\ (HasArrived(c)' <=> HasArrived(c))
    BY <2>2 DEF IInv, Stages, HasArrived
  <2>4. ToConnector(c)'
    BY <2>2, <2>3 DEF Stage, ToConnector
  <2>5. ToListener(c)'
    BY <2>2, <2>3, PopToListener DEF IInv, Stage
  <2>6. Len(up'[c]) = Len(up[c]) - 1 /\ Len(up[c]) \in Nat /\ conn[c] # "none"
    BY <2>2, <2>3, HeadAndTail DEF IInv, Typed, Stage
  <2>7. Len(up[c]) <= 1 => Len(up'[c]) <= 1
    BY <2>6
  <2>9. Stage(c)'
    BY <2>2, <2>3, <2>4, <2>5, <2>6, <2>7 DEF Stage
  <2> QED
    BY <2>1, <2>9 DEF Stages
<1>17. ASSUME NEW c \in Dialler, ListenerLoses(c)
      PROVE  Stages'
  <2>1. ASSUME NEW d \in Dialler, d # c
        PROVE  Stage(d)'
    BY <1>17, <2>1, StageKept, Numbers DEF IInv, Stages, Typed, ListenerLoses, listener, wire, history
  <2>2. /\ phase' = phase /\ up'[c] = <<>> /\ conn'[c] = "none" /\ conn[c] = "leaving"
        /\ down' = down /\ arrived' = arrived /\ index' = index
    BY <1>17 DEF ListenerLoses, IInv, Typed
  <2>3. Stage(c) /\ (HasArrived(c)' <=> HasArrived(c))
    BY <2>2 DEF IInv, Stages, HasArrived
  <2>4. ToConnector(c)'
    BY <2>2, <2>3 DEF Stage, ToConnector
  <2>5. ToListener(c)'
    BY <2>2 DEF ToListener
  <2>9. Stage(c)'
    BY <2>2, <2>3, <2>4, <2>5 DEF Stage
  <2> QED
    BY <2>1, <2>9 DEF Stages
<1>18. ASSUME NEW c \in Dialler, ListenerRefuses(c)
      PROVE  Stages'
  <2>1. /\ Sever(c) /\ Pumping(Listener) /\ up[c] # <<>>
        /\ phase' = phase /\ index' = index /\ arrived' = arrived
    BY <1>18 DEF ListenerRefuses, listener, First
  <2>2. conn[c] # "none"
    BY <2>1 DEF IInv, Stages, Stage
  <2> QED
    BY <2>1, <2>2, SeverStages DEF IInv, Pumping
<1>19. ASSUME NEW c \in Dialler, Told(c)
      PROVE  Stages'
  <2>1. ASSUME NEW d \in Dialler, d # c
        PROVE  Stage(d)'
    BY <1>19, <2>1, StageKept, Numbers DEF IInv, Stages, Typed, Told, Pop, listener, wire, history
  <2>2. /\ phase[c] = "opening" /\ phase'[c] = "open" /\ phase'[Listener] = phase[Listener]
        /\ First(down[c], "index") /\ down'[c] = Tail(down[c]) /\ down[c] # <<>>
        /\ index'[c] = Head(down[c]).index
        /\ conn' = conn /\ up' = up /\ arrived' = arrived
    BY <1>19, Numbers DEF Told, IInv, Typed, listener, Pop, First
  <2>3. Stage(c) /\ (HasArrived(c)' <=> HasArrived(c))
    BY <2>2 DEF IInv, Stages, HasArrived
  <2>4. ToConnector(c)'
    BY <2>2, <2>3, PopToConnector DEF IInv, Stage
  <2>5. 1 \in DOMAIN down[c] /\ Head(down[c]) = down[c][1] /\ Head(down[c]) \in Item
    BY <2>2, HeadAndTail DEF IInv, Typed
  <2>6. /\ index'[c] \in DOMAIN arrived /\ arrived[index'[c]] = c /\ index'[c] \in Seat /\ index'[c] # 0
        /\ index[c] = 0
    BY <2>2, <2>3, <2>5, Items, Numbers DEF Stage, ToConnector, First
  <2>7. ToListener(c)'
    BY <2>2, <2>3, <2>6 DEF Stage, ToListener, HasArrived
  <2>9. Stage(c)'
    BY <2>2, <2>3, <2>4, <2>6, <2>7 DEF Stage
  <2> QED
    BY <2>1, <2>9 DEF Stages
<1>20. ASSUME NEW c \in Dialler, Refused(c)
      PROVE  Stages'
  <2>1. ASSUME NEW d \in Dialler, d # c
        PROVE  Stage(d)'
    BY <1>20, <2>1, StageKept, Numbers DEF IInv, Stages, Typed, Refused, Pop, listener, wire, history
  <2>2. /\ phase[c] = "opening" /\ phase'[c] = "closed" /\ phase'[Listener] = phase[Listener]
        /\ down'[c] = Tail(down[c]) /\ down[c] # <<>>
        /\ conn' = conn /\ up' = up /\ arrived' = arrived /\ index' = index
    BY <1>20, Numbers DEF Refused, IInv, Typed, listener, Pop, First
  <2>3. Stage(c) /\ (HasArrived(c)' <=> HasArrived(c))
    BY <2>2 DEF IInv, Stages, HasArrived
  <2>4. ToConnector(c)'
    BY <2>2, <2>3, PopToConnector DEF IInv, Stage
  <2>7. ToListener(c)'
    BY <2>2, <2>3 DEF Stage, ToListener
  <2>9. Stage(c)'
    BY <2>2, <2>3, <2>4, <2>7 DEF Stage
  <2> QED
    BY <2>1, <2>9 DEF Stages
<1>21. ASSUME NEW c \in Dialler, ConnectorReceives(c)
      PROVE  Stages'
  <2>1. ASSUME NEW d \in Dialler, d # c
        PROVE  Stage(d)'
    BY <1>21, <2>1, StageKept, Numbers DEF IInv, Stages, Typed, ConnectorReceives, Pop, listener, wire, history
  <2>2. /\ phase[c] = "open" /\ phase' = phase
        /\ down'[c] = Tail(down[c]) /\ down[c] # <<>>
        /\ conn' = conn /\ up' = up /\ arrived' = arrived /\ index' = index
    BY <1>21, Numbers DEF ConnectorReceives, IInv, Typed, listener, Pop, First, Pumping
  <2>3. Stage(c) /\ (HasArrived(c)' <=> HasArrived(c))
    BY <2>2 DEF IInv, Stages, HasArrived
  <2>4. ToConnector(c)'
    BY <2>2, <2>3, PopToConnector DEF IInv, Stage
  <2>7. ToListener(c)'
    BY <2>2, <2>3 DEF Stage, ToListener
  <2>9. Stage(c)'
    BY <2>2, <2>3, <2>4, <2>7 DEF Stage
  <2> QED
    BY <2>1, <2>9 DEF Stages
<1>22. ASSUME NEW c \in Dialler, ConnectorLoses(c)
      PROVE  Stages'
  <2>1. ASSUME NEW d \in Dialler
        PROVE  Stage(d)'
    BY <1>22, StageKept, Numbers DEF IInv, Stages, Typed, ConnectorLoses, listener, wire, history
  <2> QED
    BY <2>1 DEF Stages
<1>23. CASE UNCHANGED vars
  <2>1. ASSUME NEW d \in Dialler
        PROVE  Stage(d)'
    BY <1>23, StageKept DEF IInv, Stages, vars, listener, wire
  <2> QED
    BY <2>1 DEF Stages
<1> QED
  BY <1>1, <1>2, <1>3, <1>4, <1>5, <1>6, <1>7, <1>8, <1>9, <1>10, <1>11, <1>12, <1>13, <1>14, <1>15, <1>16, <1>17, <1>18, <1>19, <1>20, <1>21, <1>22, <1>23 DEF Next, ListenerPumps, ConnectorPumps

\* Nothing is said while the listener accepts.
LEMMA BeforeStep ==
  ASSUME IInv, [Next]_vars
  PROVE  Before'
<1>1. ASSUME AcceptExpires
      PROVE  Before'
  BY <1>1, Numbers DEF IInv, Typed, Before, AcceptExpires
<1>2. ASSUME Announce
      PROVE  Before'
  <2>1. PICK told \in 0 .. Size - 1 : Announced(told)
    BY <1>2, AnnounceTells
  <2> QED
    BY <1>2, <2>1, Numbers DEF IInv, Typed, Before, Announced
<1>3. ASSUME ListenerSays
      PROVE  Before'
  <2>1. phase[Listener] # "opening"
    BY <1>3 DEF ListenerSays, Pumping, MaySay
  <2>2. phase'[Listener] # "opening"
    BY <1>3, <2>1, Numbers DEF ListenerSays, IInv, Typed
  <2> QED
    BY <2>2 DEF Before
<1>4. ASSUME ListenerCloses
      PROVE  Before'
  <2>1. phase[Listener] # "opening"
    BY <1>4 DEF ListenerCloses, Pumping, MaySay
  <2>2. phase'[Listener] # "opening"
    BY <1>4, <2>1, Numbers DEF ListenerCloses, IInv, Typed
  <2> QED
    BY <2>2 DEF Before
<1>5. ASSUME NEW i \in Seat, ListenerTimesOut(i)
      PROVE  Before'
  <2>1. phase[Listener] # "opening"
    BY <1>5 DEF ListenerTimesOut, Pumping, MaySay
  <2>2. phase'[Listener] # "opening"
    BY <1>5, <2>1, Numbers DEF ListenerTimesOut, IInv, Typed
  <2> QED
    BY <2>2 DEF Before
<1>6. ASSUME NEW p \in Process, Drain(p)
      PROVE  Before'
  BY <1>6 DEF IInv, Before, Drain, HasArrived, listener, wire, history
<1>7. ASSUME NEW c \in Dialler, Dial(c)
      PROVE  Before'
  <2> SUFFICES ASSUME phase'[Listener] = "opening"
               PROVE  Before'
    BY DEF Before
  <2>1. phase[Listener] = "opening" /\ Before
    BY <1>7, Numbers DEF Dial, Accepting, IInv, Typed
  <2>2. /\ order' = order /\ lost' = lost /\ ended' = ended /\ said' = said /\ peers' = peers /\ heard' = heard
        /\ index' = index
    BY <1>7 DEF Dial, listener, wire, history
  <2>3. \A d \in Dialler : down'[d] = <<>>
    BY <1>7, <2>1 DEF Dial, wire, Before, IInv, Typed
  <2>4. \A d \in Dialler \ {c} : up'[d] = up[d] /\ conn'[d] = conn[d] /\ (HasArrived(d)' <=> HasArrived(d))
    BY <1>7 DEF Dial, IInv, Typed, HasArrived, listener, wire, Pop
  <2>7. up'[c] = <<Connect>> /\ ~HasArrived(c)' /\ conn'[c] = "up"
    BY <1>7 DEF Dial, IInv, Typed, Stages, Stage, HasArrived, listener
  <2>8. /\ HasArrived(c)' => conn'[c] # "none"
        /\ ~HasArrived(c)' /\ conn'[c] # "none" => First(up'[c], "connect")
    BY <2>7, Items DEF First
  <2>9. ASSUME NEW d \in Dialler
        PROVE  /\ HasArrived(d)' => conn'[d] # "none"
               /\ ~HasArrived(d)' /\ conn'[d] # "none" => First(up'[d], "connect")
    <3>1. CASE d = c
      BY <3>1, <2>8
    <3>2. CASE d # c
      BY <3>2, <2>1, <2>4 DEF Before
    <3> QED
      BY <3>1, <3>2
  <2> QED
    BY <2>1, <2>2, <2>3, <2>9 DEF Before
<1>8. ASSUME NEW c \in Dialler, GiveUp(c)
      PROVE  Before'
  <2> SUFFICES ASSUME phase'[Listener] = "opening"
               PROVE  Before'
    BY DEF Before
  <2>1. phase[Listener] = "opening" /\ Before
    BY <1>8, Numbers DEF GiveUp, Accepting, IInv, Typed
  <2>2. /\ order' = order /\ lost' = lost /\ ended' = ended /\ said' = said /\ peers' = peers /\ heard' = heard
        /\ index' = index
    BY <1>8 DEF GiveUp, listener, wire, history
  <2>3. \A d \in Dialler : down'[d] = <<>>
    BY <1>8, <2>1 DEF GiveUp, wire, Before, IInv, Typed
  <2>4. \A d \in Dialler \ {c} : up'[d] = up[d] /\ conn'[d] = conn[d] /\ (HasArrived(d)' <=> HasArrived(d))
    BY <1>8 DEF GiveUp, IInv, Typed, HasArrived, listener, wire, Pop
  <2>7. up'[c] = up[c] /\ (HasArrived(c)' <=> HasArrived(c)) /\ conn'[c] = conn[c]
    BY <1>8 DEF GiveUp, HasArrived, listener
  <2>8. /\ HasArrived(c)' => conn'[c] # "none"
        /\ ~HasArrived(c)' /\ conn'[c] # "none" => First(up'[c], "connect")
    BY <2>1, <2>7 DEF Before
  <2>9. ASSUME NEW d \in Dialler
        PROVE  /\ HasArrived(d)' => conn'[d] # "none"
               /\ ~HasArrived(d)' /\ conn'[d] # "none" => First(up'[d], "connect")
    <3>1. CASE d = c
      BY <3>1, <2>8
    <3>2. CASE d # c
      BY <3>2, <2>1, <2>4 DEF Before
    <3> QED
      BY <3>1, <3>2
  <2> QED
    BY <2>1, <2>2, <2>3, <2>9 DEF Before
<1>9. ASSUME NEW c \in Dialler, Garble(c)
      PROVE  Before'
  <2> SUFFICES ASSUME phase'[Listener] = "opening"
               PROVE  Before'
    BY DEF Before
  <2>1. phase[Listener] = "opening" /\ Before
    BY <1>9, Numbers DEF Garble, Accepting, IInv, Typed
  <2>2. /\ order' = order /\ lost' = lost /\ ended' = ended /\ said' = said /\ peers' = peers /\ heard' = heard
        /\ index' = index
    BY <1>9 DEF Garble, listener, wire, history
  <2>3. \A d \in Dialler : down'[d] = <<>>
    BY <1>9, <2>1 DEF Garble, wire, Before, IInv, Typed
  <2>4. \A d \in Dialler \ {c} : up'[d] = up[d] /\ conn'[d] = conn[d] /\ (HasArrived(d)' <=> HasArrived(d))
    BY <1>9 DEF Garble, IInv, Typed, HasArrived, listener, wire, Pop
  <2>7. up[c] = <<>> /\ (HasArrived(c)' <=> HasArrived(c)) /\ conn'[c] = conn[c] /\ conn[c] = "up"
    BY <1>9 DEF Garble, HasArrived, listener
  <2>8. /\ HasArrived(c)' => conn'[c] # "none"
        /\ ~HasArrived(c)' /\ conn'[c] # "none" => First(up'[c], "connect")
    BY <2>1, <2>7 DEF Before, First
  <2>9. ASSUME NEW d \in Dialler
        PROVE  /\ HasArrived(d)' => conn'[d] # "none"
               /\ ~HasArrived(d)' /\ conn'[d] # "none" => First(up'[d], "connect")
    <3>1. CASE d = c
      BY <3>1, <2>8
    <3>2. CASE d # c
      BY <3>2, <2>1, <2>4 DEF Before
    <3> QED
      BY <3>1, <3>2
  <2> QED
    BY <2>1, <2>2, <2>3, <2>9 DEF Before
<1>10. ASSUME NEW c \in Dialler, ConnectorSays(c)
      PROVE  Before'
  <2>1. phase[c] = "open" /\ index[c] # 0
    BY <1>10 DEF ConnectorSays, Pumping, MaySay, IInv, Stages, Stage
  <2>2. phase[Listener] # "opening" /\ phase'[Listener] = phase[Listener]
    BY <1>10, <2>1, Numbers DEF ConnectorSays, IInv, Typed, Before
  <2> QED
    BY <2>2 DEF Before
<1>11. ASSUME NEW c \in Dialler, ConnectorCloses(c)
      PROVE  Before'
  <2>1. phase[c] = "open" /\ index[c] # 0
    BY <1>11 DEF ConnectorCloses, Pumping, MaySay, IInv, Stages, Stage
  <2>2. phase[Listener] # "opening" /\ phase'[Listener] = phase[Listener]
    BY <1>11, <2>1, Numbers DEF ConnectorCloses, IInv, Typed, Before
  <2> QED
    BY <2>2 DEF Before
<1>12. ASSUME NEW c \in Dialler, GoodbyeArrives(c)
      PROVE  Before'
  <2> SUFFICES ASSUME phase'[Listener] = "opening"
               PROVE  Before'
    BY DEF Before
  <2>1. phase[Listener] = "opening" /\ Before
    BY <1>12, Numbers DEF GoodbyeArrives, Accepting, IInv, Typed
  <2>2. /\ order' = order /\ lost' = lost /\ ended' = ended /\ said' = said /\ peers' = peers /\ heard' = heard
        /\ index' = index
    BY <1>12 DEF GoodbyeArrives, listener, wire, history
  <2>3. \A d \in Dialler : down'[d] = <<>>
    BY <1>12, <2>1 DEF GoodbyeArrives, wire, Before, IInv, Typed
  <2>4. \A d \in Dialler \ {c} : up'[d] = up[d] /\ conn'[d] = conn[d] /\ (HasArrived(d)' <=> HasArrived(d))
    BY <1>12 DEF GoodbyeArrives, IInv, Typed, HasArrived, listener, wire, Pop
  <2>7. First(up[c], "goodbye") /\ (HasArrived(c)' <=> HasArrived(c)) /\ conn'[c] # "none" /\ conn[c] = "up"
    BY <1>12 DEF GoodbyeArrives, HasArrived, listener, IInv, Typed
  <2>8. /\ HasArrived(c)' => conn'[c] # "none"
        /\ ~HasArrived(c)' /\ conn'[c] # "none" => First(up'[c], "connect")
    BY <2>1, <2>7 DEF Before, First
  <2>9. ASSUME NEW d \in Dialler
        PROVE  /\ HasArrived(d)' => conn'[d] # "none"
               /\ ~HasArrived(d)' /\ conn'[d] # "none" => First(up'[d], "connect")
    <3>1. CASE d = c
      BY <3>1, <2>8
    <3>2. CASE d # c
      BY <3>2, <2>1, <2>4 DEF Before
    <3> QED
      BY <3>1, <3>2
  <2> QED
    BY <2>1, <2>2, <2>3, <2>9 DEF Before
<1>13. ASSUME NEW c \in Dialler, LibraryNotices(c)
      PROVE  Before'
  <2> SUFFICES ASSUME phase'[Listener] = "opening"
               PROVE  Before'
    BY DEF Before
  <2>1. phase[Listener] = "opening" /\ Before
    BY <1>13, Numbers DEF LibraryNotices, Accepting, IInv, Typed
  <2>2. /\ order' = order /\ lost' = lost /\ ended' = ended /\ said' = said /\ peers' = peers /\ heard' = heard
        /\ index' = index
    BY <1>13 DEF LibraryNotices, listener, wire, history
  <2>3. \A d \in Dialler : down'[d] = <<>>
    BY <1>13, <2>1 DEF LibraryNotices, wire, Before, IInv, Typed
  <2>4. \A d \in Dialler \ {c} : up'[d] = up[d] /\ conn'[d] = conn[d] /\ (HasArrived(d)' <=> HasArrived(d))
    BY <1>13 DEF LibraryNotices, IInv, Typed, HasArrived, listener, wire, Pop
  <2>7. up'[c] = Append(up[c], Goodbye) /\ (HasArrived(c)' <=> HasArrived(c)) /\ conn'[c] = conn[c]
    BY <1>13 DEF LibraryNotices, HasArrived, listener, IInv, Typed
  <2>6. /\ Append(up[c], Goodbye) # <<>>
        /\ Head(Append(up[c], Goodbye)) = IF up[c] = <<>> THEN Goodbye ELSE Head(up[c])
    <3>1. up[c] \in Seq(Item) /\ Goodbye \in Item
      BY Items DEF IInv, Typed
    <3> QED
      BY <3>1, OneMore
  <2>8. /\ HasArrived(c)' => conn'[c] # "none"
        /\ ~HasArrived(c)' /\ conn'[c] # "none" => First(up'[c], "connect")
    BY <2>1, <2>6, <2>7 DEF Before, First
  <2>9. ASSUME NEW d \in Dialler
        PROVE  /\ HasArrived(d)' => conn'[d] # "none"
               /\ ~HasArrived(d)' /\ conn'[d] # "none" => First(up'[d], "connect")
    <3>1. CASE d = c
      BY <3>1, <2>8
    <3>2. CASE d # c
      BY <3>2, <2>1, <2>4 DEF Before
    <3> QED
      BY <3>1, <3>2
  <2> QED
    BY <2>1, <2>2, <2>3, <2>9 DEF Before
<1>14. ASSUME NEW c \in Dialler, AcceptEvent(c)
      PROVE  Before'
  <2> SUFFICES ASSUME phase'[Listener] = "opening"
               PROVE  Before'
    BY DEF Before
  <2>1. phase[Listener] = "opening" /\ Before
    BY <1>14, Numbers DEF AcceptEvent, Accepting, IInv, Typed
  <2>2. /\ order' = order /\ lost' = lost /\ ended' = ended /\ said' = said /\ peers' = peers /\ heard' = heard
        /\ index' = index
    BY <1>14 DEF AcceptEvent, listener, wire, history
  <2>3. \A d \in Dialler : down'[d] = <<>>
    BY <1>14, <2>1 DEF AcceptEvent, wire, Before, IInv, Typed
  <2>4. \A d \in Dialler \ {c} : up'[d] = up[d] /\ conn'[d] = conn[d] /\ (HasArrived(d)' <=> HasArrived(d))
    <3>1. \A d \in Dialler \ {c} : HasArrived(d)' <=> HasArrived(d)
      BY <1>14, AcceptEventArrived
    <3>2. \A d \in Dialler \ {c} : up'[d] = up[d] /\ conn'[d] = conn[d]
      BY <1>14 DEF AcceptEvent, Pop, IInv, Typed
    <3> QED
      BY <3>1, <3>2
  <2>5. up[c] # <<>> /\ conn[c] # "none"
    BY <1>14 DEF AcceptEvent, IInv, Stages, Stage
  <2>6. First(up[c], "connect") => HasArrived(c)' /\ conn'[c] = conn[c]
    <3> SUFFICES ASSUME First(up[c], "connect")
                 PROVE  HasArrived(c)' /\ conn'[c] = conn[c]
      OBVIOUS
    <3>1. arrived' = Append(arrived, c) /\ conn'[c] = conn[c]
      BY <1>14 DEF AcceptEvent, First
    <3>2. Len(arrived) + 1 \in DOMAIN arrived' /\ arrived'[Len(arrived) + 1] = c
      BY <3>1, OneMore DEF IInv, Typed
    <3> QED
      BY <3>1, <3>2 DEF HasArrived
  <2>7. ~First(up[c], "connect") =>
          (First(up[c], "goodbye") /\ conn'[c] = "none" /\ ~HasArrived(c)')
            \/ (HasArrived(c)' /\ conn'[c] = conn[c])
    <3> SUFFICES ASSUME ~First(up[c], "connect")
                 PROVE  \/ First(up[c], "goodbye") /\ conn'[c] = "none" /\ ~HasArrived(c)'
                        \/ HasArrived(c)' /\ conn'[c] = conn[c]
      OBVIOUS
    <3>1. HasArrived(c)
      BY <2>1, <2>5, WasThere DEF IInv
    <3>2. CASE First(up[c], "goodbye")
      <4>1. arrived' = Leaving(c) /\ conn'[c] = "none"
        BY <1>14, <3>2 DEF AcceptEvent, First, IInv, Typed
      <4>2. \A m \in DOMAIN Leaving(c) : Leaving(c)[m] # c
        BY <3>1, LeavingIs DEF IInv
      <4> QED
        BY <3>2, <4>1, <4>2 DEF HasArrived
    <3>3. CASE ~First(up[c], "goodbye")
      <4>1. arrived' = arrived /\ conn'[c] = conn[c]
        BY <1>14, <3>3 DEF AcceptEvent
      <4> QED
        BY <3>1, <4>1 DEF HasArrived
    <3> QED
      BY <3>2, <3>3
  <2>8. /\ HasArrived(c)' => conn'[c] # "none"
        /\ ~HasArrived(c)' /\ conn'[c] # "none" => First(up'[c], "connect")
    BY <2>5, <2>6, <2>7
  <2>9. ASSUME NEW d \in Dialler
        PROVE  /\ HasArrived(d)' => conn'[d] # "none"
               /\ ~HasArrived(d)' /\ conn'[d] # "none" => First(up'[d], "connect")
    <3>1. CASE d = c
      BY <3>1, <2>8
    <3>2. CASE d # c
      BY <3>2, <2>1, <2>4 DEF Before
    <3> QED
      BY <3>1, <3>2
  <2> QED
    BY <2>1, <2>2, <2>3, <2>9 DEF Before
<1>15. ASSUME NEW c \in Dialler, ListenerReceives(c)
      PROVE  Before'
  <2>1. phase[Listener] # "opening"
    BY <1>15 DEF ListenerReceives, Pumping, MaySay
  <2>2. phase'[Listener] # "opening"
    BY <1>15, <2>1, Numbers DEF ListenerReceives, IInv, Typed
  <2> QED
    BY <2>2 DEF Before
<1>16. ASSUME NEW c \in Dialler, ListenerRefusesPacket(c)
      PROVE  Before'
  <2>1. phase[Listener] # "opening"
    BY <1>16 DEF ListenerRefusesPacket, Pumping, MaySay
  <2>2. phase'[Listener] # "opening"
    BY <1>16, <2>1, Numbers DEF ListenerRefusesPacket, IInv, Typed
  <2> QED
    BY <2>2 DEF Before
<1>17. ASSUME NEW c \in Dialler, ListenerLoses(c)
      PROVE  Before'
  <2>1. phase[Listener] # "opening"
    BY <1>17 DEF ListenerLoses, Pumping, MaySay
  <2>2. phase'[Listener] # "opening"
    BY <1>17, <2>1, Numbers DEF ListenerLoses, IInv, Typed
  <2> QED
    BY <2>2 DEF Before
<1>18. ASSUME NEW c \in Dialler, ListenerRefuses(c)
      PROVE  Before'
  <2>1. phase[Listener] # "opening"
    BY <1>18 DEF ListenerRefuses, Pumping, MaySay
  <2>2. phase'[Listener] # "opening"
    BY <1>18, <2>1, Numbers DEF ListenerRefuses, IInv, Typed
  <2> QED
    BY <2>2 DEF Before
<1>19. ASSUME NEW c \in Dialler, Told(c)
      PROVE  Before'
  <2>1. down[c] # <<>>
    BY <1>19 DEF Told, First
  <2>2. phase[Listener] # "opening" /\ phase'[Listener] = phase[Listener]
    BY <1>19, <2>1, Numbers DEF Told, IInv, Typed, Before
  <2> QED
    BY <2>2 DEF Before
<1>20. ASSUME NEW c \in Dialler, Refused(c)
      PROVE  Before'
  <2>1. down[c] # <<>>
    BY <1>20 DEF Refused, First
  <2>2. phase[Listener] # "opening" /\ phase'[Listener] = phase[Listener]
    BY <1>20, <2>1, Numbers DEF Refused, IInv, Typed, Before
  <2> QED
    BY <2>2 DEF Before
<1>21. ASSUME NEW c \in Dialler, ConnectorReceives(c)
      PROVE  Before'
  <2>1. phase[c] = "open" /\ index[c] # 0
    BY <1>21 DEF ConnectorReceives, Pumping, MaySay, IInv, Stages, Stage
  <2>2. phase[Listener] # "opening" /\ phase'[Listener] = phase[Listener]
    BY <1>21, <2>1, Numbers DEF ConnectorReceives, IInv, Typed, Before
  <2> QED
    BY <2>2 DEF Before
<1>22. ASSUME NEW c \in Dialler, ConnectorLoses(c)
      PROVE  Before'
  <2>1. phase[c] = "open" /\ index[c] # 0
    BY <1>22 DEF ConnectorLoses, Pumping, MaySay, IInv, Stages, Stage
  <2>2. phase[Listener] # "opening" /\ phase'[Listener] = phase[Listener]
    BY <1>22, <2>1, Numbers DEF ConnectorLoses, IInv, Typed, Before
  <2> QED
    BY <2>2 DEF Before
<1>23. CASE UNCHANGED vars
  BY <1>23 DEF IInv, Before, HasArrived, vars, listener, wire, history
<1> QED
  BY <1>1, <1>2, <1>3, <1>4, <1>5, <1>6, <1>7, <1>8, <1>9, <1>10, <1>11, <1>12, <1>13, <1>14, <1>15, <1>16, <1>17, <1>18, <1>19, <1>20, <1>21, <1>22, <1>23 DEF Next, ListenerPumps, ConnectorPumps

\* A connection that is only beginning is of nobody who has arrived.
LEMMA NewHere ==
  ASSUME Typed, Stages, NEW c \in Dialler, First(up[c], "connect")
  PROVE  ~HasArrived(c)
<1>1. 1 \in DOMAIN up[c] /\ Head(up[c]) = up[c][1]
  BY HeadAndTail DEF First, Typed
<1> QED
  BY <1>1 DEF First, Stages, Stage, ToListener

\* Seats are given out once, and kept while the connection is.
LEMMA SeatsStep ==
  ASSUME IInv, [Next]_vars
  PROVE  Seats'
<1>1. ASSUME AcceptExpires
      PROVE  Seats'
  <2>1. ~Pumping(Listener)' /\ peers' = peers /\ lost' = lost /\ arrived' = arrived
    BY <1>1, Numbers DEF AcceptExpires, Pumping, IInv, Typed, listener
  <2> QED
    BY <2>1 DEF IInv, Seats
<1>2. ASSUME Announce
      PROVE  Seats'
  <2>1. PICK told \in 0 .. Size - 1 : Announced(told)
    BY <1>2, AnnounceTells
  <2>2. /\ phase[Listener] = "opening" /\ Len(arrived) = Size - 1 /\ arrived' = arrived /\ lost' = lost
        /\ conn' = conn
    BY <1>2 DEF Announce
  <2>3. DOMAIN arrived = Seat /\ \A i \in Seat : arrived[i] \in Dialler
    BY <2>2, Numbers DEF IInv, Typed
  <2>4. \A i \in Seat : peers'[i] = IF i <= told THEN arrived[i] ELSE None
    BY <2>1 DEF Announced, SeatsFrom
  <2>5. lost' = {}
    BY <2>2 DEF IInv, Before
  <2>6. Pumping(Listener)' => \A i \in Seat : i <= told /\ i \in 1 .. told
    BY <2>1, Numbers DEF Announced, Pumping, IInv, Typed
  <2> QED
    BY <2>1, <2>2, <2>3, <2>4, <2>5, <2>6, Numbers DEF Seats, Announced
<1>3. ASSUME ListenerSays
      PROVE  Seats'
  <2>1. peers' = peers /\ lost' = lost /\ arrived' = arrived /\ conn' = conn
    BY <1>3 DEF ListenerSays, listener, wire
  <2>2. Pumping(Listener)' => Pumping(Listener)
    BY <1>3, Numbers DEF ListenerSays, Pumping, MaySay, IInv, Typed
  <2> QED
    BY <2>1, <2>2 DEF IInv, Seats
<1>4. ASSUME ListenerCloses
      PROVE  Seats'
  <2>1. ~Pumping(Listener)' /\ peers' = peers /\ lost' = lost /\ arrived' = arrived
    BY <1>4, Numbers DEF ListenerCloses, Pumping, IInv, Typed, listener
  <2> QED
    BY <2>1 DEF IInv, Seats
<1>5. ASSUME NEW i \in Seat, ListenerTimesOut(i)
      PROVE  Seats'
  <2>1. CASE ~KeepsGoing
    BY <1>5, <2>1 DEF IInv, Seats, ListenerTimesOut, wire, Pumping, Typed
  <2>2. CASE KeepsGoing
    <3>1. /\ Pumping(Listener) /\ peers[i] # None /\ Sever(peers[i]) /\ arrived' = arrived
          /\ peers' = [peers EXCEPT ![i] = None] /\ lost' = lost \cup {i}
      BY <1>5, <2>2 DEF ListenerTimesOut
    <3>2. \A j \in Seat : j \in DOMAIN arrived /\ arrived[j] \in Dialler
      <4>1. arrived \in Seq(Dialler) /\ phase[Listener] = "open"
        BY <3>1 DEF IInv, Typed, Pumping
      <4>2. Len(arrived) = Size - 1
        BY <4>1 DEF IInv, Arrivals
      <4> QED
        BY <4>1, <4>2, Numbers
    <3>3. peers[i] = arrived[i]
      BY <3>1 DEF IInv, Seats
    <3>4. \A d \in Dialler : conn'[d] = IF d = arrived[i] THEN "none" ELSE conn[d]
      BY <3>1, <3>2, <3>3, Severed DEF IInv
    <3>5. \A j \in Seat : peers'[j] = None <=> conn'[arrived[j]] = "none"
      BY <3>1, <3>2, <3>4 DEF IInv, Seats, Typed, Arrivals
    <3> QED
      BY <3>1, <3>5 DEF IInv, Seats, Typed
  <2> QED
    BY <2>1, <2>2
<1>6. ASSUME NEW p \in Process, Drain(p)
      PROVE  Seats'
  <2>1. peers' = peers /\ lost' = lost /\ arrived' = arrived /\ conn' = conn
    BY <1>6 DEF Drain, listener, wire
  <2>2. Pumping(Listener)' => Pumping(Listener)
    BY <1>6, Numbers DEF Drain, Pumping, MaySay, IInv, Typed
  <2> QED
    BY <2>1, <2>2 DEF IInv, Seats
<1>7. ASSUME NEW c \in Dialler, Dial(c)
      PROVE  Seats'
  <2>1. peers' = peers /\ lost' = lost /\ arrived' = arrived /\ ~HasArrived(c)
    BY <1>7 DEF Dial, listener, IInv, Stages, Stage
  <2>2. Pumping(Listener)' => Pumping(Listener)
    BY <1>7, Numbers DEF Dial, Pumping, IInv, Typed
  <2>3. \A i \in DOMAIN arrived : conn'[arrived[i]] = conn[arrived[i]]
    BY <1>7, <2>1 DEF Dial, HasArrived, IInv, Typed
  <2>4. Pumping(Listener) => DOMAIN arrived = Seat
    BY Numbers DEF IInv, Typed, Arrivals, Pumping
  <2> QED
    BY <2>1, <2>2, <2>3, <2>4 DEF IInv, Seats
<1>8. ASSUME NEW c \in Dialler, GiveUp(c)
      PROVE  Seats'
  <2>1. peers' = peers /\ lost' = lost /\ arrived' = arrived /\ conn' = conn
    BY <1>8 DEF GiveUp, listener, wire
  <2>2. Pumping(Listener)' => Pumping(Listener)
    BY <1>8, Numbers DEF GiveUp, Pumping, MaySay, IInv, Typed
  <2> QED
    BY <2>1, <2>2 DEF IInv, Seats
<1>9. ASSUME NEW c \in Dialler, Garble(c)
      PROVE  Seats'
  <2>1. peers' = peers /\ lost' = lost /\ arrived' = arrived /\ conn' = conn
    BY <1>9 DEF Garble, listener, wire
  <2>2. Pumping(Listener)' => Pumping(Listener)
    BY <1>9, Numbers DEF Garble, Pumping, MaySay, IInv, Typed
  <2> QED
    BY <2>1, <2>2 DEF IInv, Seats
<1>10. ASSUME NEW c \in Dialler, ConnectorSays(c)
      PROVE  Seats'
  <2>1. peers' = peers /\ lost' = lost /\ arrived' = arrived /\ conn' = conn
    BY <1>10 DEF ConnectorSays, listener, wire
  <2>2. Pumping(Listener)' => Pumping(Listener)
    BY <1>10, Numbers DEF ConnectorSays, Pumping, MaySay, IInv, Typed
  <2> QED
    BY <2>1, <2>2 DEF IInv, Seats
<1>11. ASSUME NEW c \in Dialler, ConnectorCloses(c)
      PROVE  Seats'
  <2>1. peers' = peers /\ lost' = lost /\ arrived' = arrived /\ conn' = conn
    BY <1>11 DEF ConnectorCloses, listener, wire
  <2>2. Pumping(Listener)' => Pumping(Listener)
    BY <1>11, Numbers DEF ConnectorCloses, Pumping, MaySay, IInv, Typed
  <2> QED
    BY <2>1, <2>2 DEF IInv, Seats
<1>12. ASSUME NEW c \in Dialler, GoodbyeArrives(c)
      PROVE  Seats'
  <2>1. peers' = peers /\ lost' = lost /\ arrived' = arrived /\ Pumping(Listener)' = Pumping(Listener)
    BY <1>12 DEF GoodbyeArrives, listener, Pumping
  <2>2. \A d \in Dialler : conn'[d] = "none" <=> conn[d] = "none"
    BY <1>12 DEF GoodbyeArrives, IInv, Typed
  <2>4. Pumping(Listener) => \A i \in Seat : arrived[i] \in Dialler
    BY Numbers DEF IInv, Typed, Arrivals, Pumping
  <2> QED
    BY <2>1, <2>2, <2>4 DEF IInv, Seats, Pumping
<1>13. ASSUME NEW c \in Dialler, LibraryNotices(c)
      PROVE  Seats'
  <2>1. peers' = peers /\ lost' = lost /\ arrived' = arrived /\ conn' = conn
    BY <1>13 DEF LibraryNotices, listener, wire
  <2>2. Pumping(Listener)' => Pumping(Listener)
    BY <1>13, Numbers DEF LibraryNotices, Pumping, MaySay, IInv, Typed
  <2> QED
    BY <2>1, <2>2 DEF IInv, Seats
<1>14. ASSUME NEW c \in Dialler, AcceptEvent(c)
      PROVE  Seats'
  <2>1. phase' = phase /\ phase[Listener] = "opening" /\ peers' = peers /\ lost' = lost
    BY <1>14 DEF AcceptEvent, Accepting
  <2>2. \A i \in Seat : peers'[i] = None
    BY <2>1 DEF IInv, Before
  <2> QED
    BY <2>1, <2>2 DEF Seats, Pumping, IInv, Before
<1>15. ASSUME NEW c \in Dialler, ListenerReceives(c)
      PROVE  Seats'
  <2>1. peers' = peers /\ lost' = lost /\ arrived' = arrived /\ conn' = conn
    BY <1>15 DEF ListenerReceives, listener, wire
  <2>2. Pumping(Listener)' => Pumping(Listener)
    BY <1>15, Numbers DEF ListenerReceives, Pumping, MaySay, IInv, Typed
  <2> QED
    BY <2>1, <2>2 DEF IInv, Seats
<1>16. ASSUME NEW c \in Dialler, ListenerRefusesPacket(c)
      PROVE  Seats'
  <2>1. peers' = peers /\ lost' = lost /\ arrived' = arrived /\ conn' = conn
    BY <1>16 DEF ListenerRefusesPacket, listener, wire
  <2>2. Pumping(Listener)' => Pumping(Listener)
    BY <1>16, Numbers DEF ListenerRefusesPacket, Pumping, MaySay, IInv, Typed
  <2> QED
    BY <2>1, <2>2 DEF IInv, Seats
<1>17. ASSUME NEW c \in Dialler, ListenerLoses(c)
      PROVE  Seats'
  <2>1. /\ Pumping(Listener) /\ conn[c] = "leaving" /\ conn' = [conn EXCEPT ![c] = "none"] /\ arrived' = arrived
        /\ peers' = [i \in Seat |-> IF peers[i] = c THEN None ELSE peers[i]]
        /\ lost' \in {lost, lost \cup IndexOf(c)}
    BY <1>17 DEF ListenerLoses
  <2>2. \A i \in Seat : i \in DOMAIN arrived /\ arrived[i] \in Dialler
    BY <2>1, Numbers DEF IInv, Typed, Arrivals, Pumping
  <2>3. \A i \in Seat : peers[i] = None <=> conn[arrived[i]] = "none"
    BY <2>1 DEF IInv, Seats
  <2>4. \A i \in Seat : peers'[i] = None <=> conn'[arrived[i]] = "none"
    BY <2>1, <2>2, <2>3 DEF IInv, Seats, Typed
  <2>5. \A i \in lost' : peers'[i] = None
    BY <2>1 DEF IInv, Seats, IndexOf, Typed
  <2> QED
    BY <2>1, <2>4, <2>5 DEF IInv, Seats
<1>18. ASSUME NEW c \in Dialler, ListenerRefuses(c)
      PROVE  Seats'
  <2>1. /\ Pumping(Listener) /\ Sever(c) /\ peers' = peers /\ lost' = lost /\ arrived' = arrived
        /\ First(up[c], "connect")
    BY <1>18 DEF ListenerRefuses, listener
  <2>2. \A j \in Seat : j \in DOMAIN arrived /\ arrived[j] \in Dialler
    BY <2>1, Numbers DEF IInv, Typed, Arrivals, Pumping
  <2>3. ~HasArrived(c)
    BY <2>1, NewHere DEF IInv
  <2>4. \A j \in Seat : conn'[arrived[j]] = conn[arrived[j]]
    BY <2>1, <2>2, <2>3, Severed DEF IInv, HasArrived
  <2> QED
    BY <2>1, <2>4 DEF IInv, Seats
<1>19. ASSUME NEW c \in Dialler, Told(c)
      PROVE  Seats'
  <2>1. peers' = peers /\ lost' = lost /\ arrived' = arrived /\ conn' = conn
    BY <1>19 DEF Told, listener, wire
  <2>2. Pumping(Listener)' => Pumping(Listener)
    BY <1>19, Numbers DEF Told, Pumping, MaySay, IInv, Typed
  <2> QED
    BY <2>1, <2>2 DEF IInv, Seats
<1>20. ASSUME NEW c \in Dialler, Refused(c)
      PROVE  Seats'
  <2>1. peers' = peers /\ lost' = lost /\ arrived' = arrived /\ conn' = conn
    BY <1>20 DEF Refused, listener, wire
  <2>2. Pumping(Listener)' => Pumping(Listener)
    BY <1>20, Numbers DEF Refused, Pumping, MaySay, IInv, Typed
  <2> QED
    BY <2>1, <2>2 DEF IInv, Seats
<1>21. ASSUME NEW c \in Dialler, ConnectorReceives(c)
      PROVE  Seats'
  <2>1. peers' = peers /\ lost' = lost /\ arrived' = arrived /\ conn' = conn
    BY <1>21 DEF ConnectorReceives, listener, wire
  <2>2. Pumping(Listener)' => Pumping(Listener)
    BY <1>21, Numbers DEF ConnectorReceives, Pumping, MaySay, IInv, Typed
  <2> QED
    BY <2>1, <2>2 DEF IInv, Seats
<1>22. ASSUME NEW c \in Dialler, ConnectorLoses(c)
      PROVE  Seats'
  <2>1. peers' = peers /\ lost' = lost /\ arrived' = arrived /\ conn' = conn
    BY <1>22 DEF ConnectorLoses, listener, wire
  <2>2. Pumping(Listener)' => Pumping(Listener)
    BY <1>22, Numbers DEF ConnectorLoses, Pumping, MaySay, IInv, Typed
  <2> QED
    BY <2>1, <2>2 DEF IInv, Seats
<1>23. CASE UNCHANGED vars
  BY <1>23 DEF IInv, Seats, Pumping, vars, listener, wire
<1> QED
  BY <1>1, <1>2, <1>3, <1>4, <1>5, <1>6, <1>7, <1>8, <1>9, <1>10, <1>11, <1>12, <1>13, <1>14, <1>15, <1>16, <1>17, <1>18, <1>19, <1>20, <1>21, <1>22, <1>23 DEF Next, ListenerPumps, ConnectorPumps

\* The broadcast that the listener takes from a connector is its next.
LEMMA Received ==
  ASSUME IInv, NEW c \in Dialler, ListenerReceives(c), NEW i \in Seat,
         NEW targets \in SUBSET Seat, NEW reached \in SUBSET Seat, Relays(c, i, targets, reached)
  PROVE  \E t \in Nat :
           /\ SpokenTo(order, i, t) /\ Head(up[c]).message = Message(i, t + 1)
           /\ Queued(Tail(up[c]), t + 1)
           /\ Talking(c) => said[c] = t + 1 + Len(Tail(up[c])) - UpGap(Tail(up[c]))
<1>1. Pumping(Listener) /\ First(up[c], "packet")
  BY DEF ListenerReceives
<1>2. arrived[i] = c /\ Head(up[c]).message.origin = i /\ i \in Place
  BY Numbers DEF Relays
<1>3. PICK t \in Nat : /\ SpokenTo(order, i, t) /\ Queued(up[c], t)
                       /\ Talking(c) => said[c] = t + Len(up[c]) - UpGap(up[c])
  BY <1>1, <1>2 DEF IInv, Spoken, SpokenAt, Speaks
<1>4. UpShape(up[c], Talking(c)) /\ up[c] \in Seq(Item) /\ Talking(c) \in BOOLEAN
  <2>1. UpShape(up[c], Talking(c)) /\ up[c] \in Seq(Item)
    BY Shapes DEF IInv, Stages
  <2>2. Talking(c) \in BOOLEAN
    BY DEF Talking
  <2> QED
    BY <2>1, <2>2
<1>5. PICK talks \in BOOLEAN : talks = Talking(c)
  BY <1>4
<1>7. /\ UpShape(up[c], talks)
      /\ talks => said[c] = t + Len(up[c]) - UpGap(up[c])
  BY <1>3, <1>4, <1>5 DEF UpShape
<1>6. /\ Head(up[c]).message = Message(i, t + 1)
      /\ Queued(Tail(up[c]), t + 1)
      /\ talks => t + Len(up[c]) - UpGap(up[c]) = t + 1 + Len(Tail(up[c])) - UpGap(Tail(up[c]))
  <2>1. SpokenTo(order, i, t) /\ Queued(up[c], t) /\ First(up[c], "packet")
    BY <1>1, <1>3
  <2>2. Head(up[c]).message.origin = i /\ i \in Place /\ up[c] \in Seq(Item)
    BY <1>2, <1>4
  <2> QED
    BY <1>7, <2>1, <2>2, SpeaksHead
<1> QED
  BY <1>3, <1>5, <1>6, <1>7

\* A new message is a new one.
LEMMA StillDistinct ==
  ASSUME Typed, Distinct, NEW i \in Place, NEW t \in Nat, SpokenTo(order, i, t),
         order' = Append(order, Message(i, t + 1))
  PROVE  Distinct'
<1>1. Message(i, t + 1) \in Msg
  BY Messages
<1>2. /\ DOMAIN order = 1 .. Len(order) /\ Len(order) \in Nat
      /\ DOMAIN order' = 1 .. (Len(order) + 1)
      /\ order'[Len(order) + 1] = Message(i, t + 1)
      /\ \A x \in DOMAIN order : order'[x] = order[x]
  BY <1>1, OneMore DEF Typed
<1>3. \A x \in DOMAIN order : order[x] # Message(i, t + 1)
  <2>1. t + 1 \in Nat /\ t + 1 \notin 1 .. t
    OBVIOUS
  <2> QED
    BY <2>1 DEF SpokenTo
<1>4. \A x \in DOMAIN order' : x \in DOMAIN order \/ x = Len(order) + 1
  BY <1>2
<1> QED
  BY <1>2, <1>3, <1>4 DEF Distinct

\* Nothing is in the order twice.
LEMMA DistinctStep ==
  ASSUME IInv, [Next]_vars
  PROVE  Distinct'
<1>1. ASSUME AcceptExpires
      PROVE  Distinct'
  <2>1. order' = order
    BY <1>1 DEF AcceptExpires, history
  <2> QED
    BY <2>1 DEF IInv, Distinct
<1>2. ASSUME Announce
      PROVE  Distinct'
  <2>1. order' = order
    BY <1>2 DEF Announce, history
  <2> QED
    BY <2>1 DEF IInv, Distinct
<1>3. ASSUME ListenerSays
      PROVE  Distinct'
  <2>1. /\ Pumping(Listener) /\ order' = Append(order, Message(0, said[Listener] + 1))
    BY <1>3 DEF ListenerSays, MaySay, Pumping
  <2>2. SpokenTo(order, 0, said[Listener]) /\ said[Listener] \in Nat /\ 0 \in Place
    BY <2>1, Numbers DEF IInv, Spoken, Typed
  <2> QED
    BY <2>1, <2>2, StillDistinct DEF IInv
<1>4. ASSUME ListenerCloses
      PROVE  Distinct'
  <2>1. order' = order
    BY <1>4 DEF ListenerCloses, history
  <2> QED
    BY <2>1 DEF IInv, Distinct
<1>5. ASSUME NEW i \in Seat, ListenerTimesOut(i)
      PROVE  Distinct'
  <2>1. order' = order
    BY <1>5 DEF ListenerTimesOut, history
  <2> QED
    BY <2>1 DEF IInv, Distinct
<1>6. ASSUME NEW p \in Process, Drain(p)
      PROVE  Distinct'
  <2>1. order' = order
    BY <1>6 DEF Drain, history
  <2> QED
    BY <2>1 DEF IInv, Distinct
<1>7. ASSUME NEW c \in Dialler, Dial(c)
      PROVE  Distinct'
  <2>1. order' = order
    BY <1>7 DEF Dial, history
  <2> QED
    BY <2>1 DEF IInv, Distinct
<1>8. ASSUME NEW c \in Dialler, GiveUp(c)
      PROVE  Distinct'
  <2>1. order' = order
    BY <1>8 DEF GiveUp, history
  <2> QED
    BY <2>1 DEF IInv, Distinct
<1>9. ASSUME NEW c \in Dialler, Garble(c)
      PROVE  Distinct'
  <2>1. order' = order
    BY <1>9 DEF Garble, history
  <2> QED
    BY <2>1 DEF IInv, Distinct
<1>10. ASSUME NEW c \in Dialler, ConnectorSays(c)
      PROVE  Distinct'
  <2>1. order' = order
    BY <1>10 DEF ConnectorSays, history
  <2> QED
    BY <2>1 DEF IInv, Distinct
<1>11. ASSUME NEW c \in Dialler, ConnectorCloses(c)
      PROVE  Distinct'
  <2>1. order' = order
    BY <1>11 DEF ConnectorCloses, history
  <2> QED
    BY <2>1 DEF IInv, Distinct
<1>12. ASSUME NEW c \in Dialler, GoodbyeArrives(c)
      PROVE  Distinct'
  <2>1. order' = order
    BY <1>12 DEF GoodbyeArrives, history
  <2> QED
    BY <2>1 DEF IInv, Distinct
<1>13. ASSUME NEW c \in Dialler, LibraryNotices(c)
      PROVE  Distinct'
  <2>1. order' = order
    BY <1>13 DEF LibraryNotices, history
  <2> QED
    BY <2>1 DEF IInv, Distinct
<1>14. ASSUME NEW c \in Dialler, AcceptEvent(c)
      PROVE  Distinct'
  <2>1. order' = order
    BY <1>14 DEF AcceptEvent, history
  <2> QED
    BY <2>1 DEF IInv, Distinct
<1>15. ASSUME NEW c \in Dialler, ListenerReceives(c)
      PROVE  Distinct'
  <2>1. PICK i \in Seat : \E targets, reached \in SUBSET Seat : Relays(c, i, targets, reached)
    BY <1>15, Relayed
  <2>2. PICK targets \in SUBSET Seat, reached \in SUBSET Seat : Relays(c, i, targets, reached)
    BY <2>1
  <2>3. PICK t \in Nat : SpokenTo(order, i, t) /\ Head(up[c]).message = Message(i, t + 1)
    BY <1>15, <2>2, Received
  <2>4. order' = Append(order, Message(i, t + 1)) /\ i \in Place
    BY <2>2, <2>3, Numbers DEF Relays
  <2> QED
    BY <2>3, <2>4, StillDistinct DEF IInv
<1>16. ASSUME NEW c \in Dialler, ListenerRefusesPacket(c)
      PROVE  Distinct'
  <2>1. order' = order
    BY <1>16 DEF ListenerRefusesPacket, history
  <2> QED
    BY <2>1 DEF IInv, Distinct
<1>17. ASSUME NEW c \in Dialler, ListenerLoses(c)
      PROVE  Distinct'
  <2>1. order' = order
    BY <1>17 DEF ListenerLoses, history
  <2> QED
    BY <2>1 DEF IInv, Distinct
<1>18. ASSUME NEW c \in Dialler, ListenerRefuses(c)
      PROVE  Distinct'
  <2>1. order' = order
    BY <1>18 DEF ListenerRefuses, history
  <2> QED
    BY <2>1 DEF IInv, Distinct
<1>19. ASSUME NEW c \in Dialler, Told(c)
      PROVE  Distinct'
  <2>1. order' = order
    BY <1>19 DEF Told, history
  <2> QED
    BY <2>1 DEF IInv, Distinct
<1>20. ASSUME NEW c \in Dialler, Refused(c)
      PROVE  Distinct'
  <2>1. order' = order
    BY <1>20 DEF Refused, history
  <2> QED
    BY <2>1 DEF IInv, Distinct
<1>21. ASSUME NEW c \in Dialler, ConnectorReceives(c)
      PROVE  Distinct'
  <2>1. order' = order
    BY <1>21 DEF ConnectorReceives, history
  <2> QED
    BY <2>1 DEF IInv, Distinct
<1>22. ASSUME NEW c \in Dialler, ConnectorLoses(c)
      PROVE  Distinct'
  <2>1. order' = order
    BY <1>22 DEF ConnectorLoses, history
  <2> QED
    BY <2>1 DEF IInv, Distinct
<1>23. CASE UNCHANGED vars
  BY <1>23 DEF IInv, Distinct, vars, history
<1> QED
  BY <1>1, <1>2, <1>3, <1>4, <1>5, <1>6, <1>7, <1>8, <1>9, <1>10, <1>11, <1>12, <1>13, <1>14, <1>15, <1>16, <1>17, <1>18, <1>19, <1>20, <1>21, <1>22, <1>23 DEF Next, ListenerPumps, ConnectorPumps

LEMMA SpokenKept ==
  ASSUME NEW i \in Seat, SpokenAt(i), arrived' = arrived, order' = order,
         up'[arrived[i]] = up[arrived[i]], said'[arrived[i]] = said[arrived[i]],
         Talking(arrived[i])' => Talking(arrived[i])
  PROVE  SpokenAt(i)'
BY SpeaksLess DEF SpokenAt

\* Every place is somebody's while the session is on.
LEMMA Seated ==
  ASSUME Typed, Arrivals, Pumping(Listener)
  PROVE  \A i \in Seat : i \in DOMAIN arrived /\ arrived[i] \in Dialler /\ arrived[i] # Listener
BY Numbers DEF Typed, Arrivals, Pumping

\* One process does something, and the order is as it was.
LEMMA SpokenByOne ==
  ASSUME IInv, NEW c \in Dialler, order' = order, arrived' = arrived,
         Pumping(Listener)' => Pumping(Listener), said'[Listener] = said[Listener],
         \A d \in Dialler \ {c} : up'[d] = up[d] /\ said'[d] = said[d] /\ (Talking(d)' => Talking(d)),
         \A i \in Seat : arrived[i] = c /\ Pumping(Listener) =>
           Speaks(i, order, up'[c], Talking(c)', said'[c])
  PROVE  Spoken'
<1> SUFFICES ASSUME Pumping(Listener)'
             PROVE  Spoken'
  BY DEF Spoken
<1>1. Pumping(Listener)
  OBVIOUS
<1>2. ASSUME NEW i \in Seat
      PROVE  SpokenAt(i)'
  <2>1. SpokenAt(i) /\ arrived[i] \in Dialler
    BY <1>1, Seated DEF IInv, Spoken
  <2>2. CASE arrived[i] = c
    BY <2>2, <1>1 DEF SpokenAt
  <2>3. CASE arrived[i] # c
    BY <2>1, <2>3, SpokenKept
  <2> QED
    BY <2>2, <2>3
<1> QED
  BY <1>1, <1>2 DEF IInv, Spoken

\* What each place has said goes into the order, in its own order and without a gap.
LEMMA SpokenStep ==
  ASSUME IInv, [Next]_vars
  PROVE  Spoken'
<1>1. ASSUME AcceptExpires
      PROVE  Spoken'
  <2>1. ~Pumping(Listener)'
    <3>1. phase'[Listener] = "closed"
      BY <1>1, Numbers DEF AcceptExpires, IInv, Typed
    <3> QED
      BY <3>1 DEF Pumping
  <2> QED
    BY <2>1 DEF Spoken
<1>2. ASSUME Announce
      PROVE  Spoken'
  <2>1. PICK told \in 0 .. Size - 1 : Announced(told)
    BY <1>2, AnnounceTells
  <2>2. /\ phase[Listener] = "opening" /\ up' = up /\ conn' = conn /\ arrived' = arrived /\ said' = said
        /\ order' = order /\ DOMAIN arrived = Seat
    <3>1. /\ phase[Listener] = "opening" /\ up' = up /\ conn' = conn /\ arrived' = arrived
          /\ said' = said /\ order' = order
      BY <1>2 DEF Announce, history
    <3>2. arrived \in Seq(Dialler) /\ Len(arrived) = Size - 1
      BY <1>2 DEF Announce, IInv, Typed
    <3> QED
      BY <3>1, <3>2, Numbers
  <2>3. order = <<>> /\ said[Listener] = 0
    BY <2>2 DEF IInv, Before
  <2>4. \A j : SpokenTo(<<>>, j, 0)
    BY DEF SpokenTo
  <2>5. ASSUME NEW i \in Seat
        PROVE  SpokenAt(i)'
    <3>1. PICK c \in Dialler : c = arrived[i] /\ HasArrived(c)
      BY <2>2 DEF IInv, Typed, HasArrived
    <3>2. phase'[c] = phase[c] /\ index[c] = 0 /\ said[c] = 0 /\ Stage(c) /\ up[c] \in Seq(Item)
      BY <2>1, <2>2, Numbers DEF Announced, IInv, Before, Stages, Typed
    <3>3. \A k \in DOMAIN up[c] : up[c][k].kind # "packet"
      BY <3>2 DEF Stage, ToListener
    <3>4. Queued(up[c], 0)
      BY <3>3 DEF Queued
    <3>5. phase[c] # "closed" => 0 = 0 + Len(up[c]) - UpGap(up[c])
      <4> SUFFICES ASSUME phase[c] # "closed"
                   PROVE  0 = 0 + Len(up[c]) - UpGap(up[c])
        OBVIOUS
      <4>1. phase[c] = "opening"
        BY <3>1, <3>2, Numbers DEF Stage, IInv, Typed
      <4>2. Len(up[c]) <= 1
        BY <3>2, <4>1 DEF Stage
      <4>3. CASE up[c] = <<>>
        BY <4>3 DEF UpGap
      <4>4. CASE up[c] # <<>>
        <5>h. /\ Len(up[c]) \in Nat /\ Len(up[c]) > 0 /\ DOMAIN up[c] = 1 .. Len(up[c])
              /\ Head(up[c]) = up[c][1]
          BY <4>4, <3>2, HeadAndTail
        <5>l. PICK length \in Nat : length = Len(up[c])
          BY <5>h
        <5>o. length <= 1 /\ length > 0
          BY <4>2, <5>h, <5>l
        <5>p. length = 1
          BY <5>o
        <5>1. Head(up[c]) = up[c][1] /\ 1 \in DOMAIN up[c] /\ Len(up[c]) = 1
          BY <5>h, <5>l, <5>p
        <5> QED
          BY <5>1, <4>4, <3>3 DEF UpGap
      <4> QED
        BY <4>3, <4>4
    <3>6. Speaks(i, <<>>, up[c], Talking(c)', 0)
      BY <2>4, <3>2, <3>4, <3>5 DEF Speaks, Talking
    <3> QED
      BY <3>1, <3>2, <3>6, <2>2, <2>3 DEF SpokenAt
  <2> QED
    BY <2>2, <2>3, <2>4, <2>5 DEF Spoken
<1>3. ASSUME ListenerSays
      PROVE  Spoken'
  <2>1. /\ Pumping(Listener) /\ order' = Append(order, Message(0, said[Listener] + 1))
        /\ said' = [said EXCEPT ![Listener] = said[Listener] + 1] /\ arrived' = arrived /\ up' = up /\ conn' = conn
        /\ \A d \in Dialler : phase'[d] = phase[d]
    BY <1>3, Numbers DEF ListenerSays, MaySay, Pumping, listener, IInv, Typed
  <2>2. SpokenTo(order, 0, said[Listener]) /\ said[Listener] \in Nat /\ 0 \in Place
    BY <2>1, Numbers DEF IInv, Spoken, Typed
  <2>3. SpokenTo(order', 0, said'[Listener])
    <3>1. said[Listener] + 1 \in Nat /\ said'[Listener] = said[Listener] + 1 /\ order \in Seq(Msg)
      BY <2>1, <2>2, Numbers DEF IInv, Typed
    <3> QED
      BY <2>1, <2>2, <3>1, SpokenNext
  <2>4. ASSUME NEW i \in Seat
        PROVE  SpokenAt(i)'
    <3>1. PICK c \in Dialler : c = arrived[i] /\ c # Listener
      BY <2>1, Seated DEF IInv
    <3>2. /\ Speaks(i, order, up[c], Talking(c), said[c]) /\ said'[c] = said[c] /\ Talking(c)' = Talking(c)
          /\ i \in Place /\ i # 0 /\ said[Listener] + 1 \in Nat /\ order \in Seq(Msg)
      <4>1. Speaks(i, order, up[c], Talking(c), said[c])
        BY <2>1, <3>1 DEF IInv, Spoken, SpokenAt
      <4>2. said'[c] = said[c] /\ order \in Seq(Msg)
        BY <2>1, <3>1 DEF IInv, Typed
      <4>3. Talking(c)' = Talking(c)
        BY <2>1 DEF Talking
      <4>4. i \in Place /\ i # 0 /\ said[Listener] + 1 \in Nat
        BY <2>2, Numbers
      <4> QED
        BY <4>1, <4>2, <4>3, <4>4
    <3>3. PICK t \in Nat : /\ SpokenTo(order, i, t) /\ Queued(up[c], t)
                           /\ Talking(c) => said[c] = t + Len(up[c]) - UpGap(up[c])
      BY <3>2 DEF Speaks
    <3>4. SpokenTo(order', i, t)
      BY <2>1, <2>2, <3>2, <3>3, SpokenNext
    <3>5. Speaks(i, order', up[c], Talking(c), said[c])
      BY <3>3, <3>4 DEF Speaks
    <3> QED
      BY <2>1, <3>1, <3>2, <3>5 DEF SpokenAt
  <2> QED
    BY <2>3, <2>4 DEF Spoken
<1>4. ASSUME ListenerCloses
      PROVE  Spoken'
  <2>1. ~Pumping(Listener)'
    BY <1>4, Numbers DEF ListenerCloses, Pumping, Accepting, IInv, Typed, Before
  <2> QED
    BY <2>1 DEF Spoken
<1>5. ASSUME NEW i \in Seat, ListenerTimesOut(i)
      PROVE  Spoken'
  <2>1. CASE ~KeepsGoing
    <3>1. ~Pumping(Listener)'
      BY <1>5, <2>1, Numbers DEF ListenerTimesOut, Pumping, IInv, Typed
    <3> QED
      BY <3>1 DEF Spoken
  <2>2. CASE KeepsGoing
    <3>1. PICK c \in Dialler : c = peers[i] /\ Sever(c)
      BY <1>5, <2>2 DEF ListenerTimesOut, IInv, Typed
    <3>2. /\ order' = order /\ arrived' = arrived /\ said' = said /\ phase' = phase /\ ended' = ended
          /\ Pumping(Listener)
      BY <1>5, <2>2 DEF ListenerTimesOut, history
    <3>3. \A d \in Dialler \ {c} : up'[d] = up[d] /\ said'[d] = said[d] /\ (Talking(d)' => Talking(d))
      BY <3>1, <3>2, Severed DEF IInv, Talking
    <3>4. ASSUME NEW j \in Seat, arrived[j] = c
          PROVE  Speaks(j, order, up'[c], Talking(c)', said'[c])
      <4>1. Speaks(j, order, up[c], Talking(c), said[c])
        BY <3>2, <3>4 DEF IInv, Spoken, SpokenAt
      <4>2. up'[c] = <<>> /\ ~Talking(c)'
        BY <3>1, Severed DEF IInv, Talking
      <4>3. Speaks(j, order, <<>>, FALSE, said[c])
        BY <4>1, SpeaksGone
      <4> QED
        BY <4>2, <4>3 DEF Speaks
    <3> QED
      BY <3>2, <3>3, <3>4, SpokenByOne DEF Pumping
  <2> QED
    BY <2>1, <2>2
<1>6. ASSUME NEW p \in Process, Drain(p)
      PROVE  Spoken'
  <2>1. /\ order' = order /\ arrived' = arrived /\ up' = up /\ said' = said
        /\ Pumping(Listener)' => Pumping(Listener)
    BY <1>6, Numbers DEF Drain, listener, wire, history, Pumping, IInv, Typed
  <2>2. \A d \in Dialler : Talking(d)' => Talking(d)
    BY <1>6, Numbers DEF Drain, Talking, wire, IInv, Typed
  <2>3. ASSUME NEW i \in Seat, Pumping(Listener)
        PROVE  SpokenAt(i)'
    <3>1. SpokenAt(i) /\ arrived[i] \in Dialler
      BY <2>3, Seated DEF IInv, Spoken
    <3> QED
      BY <3>1, <2>1, <2>2, SpokenKept
  <2> QED
    BY <2>1, <2>3 DEF Spoken, IInv
<1>7. ASSUME NEW c \in Dialler, Dial(c)
      PROVE  Spoken'
  <2>1. /\ order' = order /\ arrived' = arrived /\ said'[Listener] = said[Listener]
        /\ Pumping(Listener)' => Pumping(Listener)
    BY <1>7, Numbers DEF Dial, listener, wire, history, Pumping, IInv, Typed
  <2>2. \A d \in Dialler \ {c} : up'[d] = up[d] /\ said'[d] = said[d] /\ (Talking(d)' => Talking(d))
    BY <1>7, Numbers DEF Dial, Talking, wire, history, Pop, IInv, Typed
  <2>3. ASSUME NEW i \in Seat, arrived[i] = c, Pumping(Listener)
        PROVE  Speaks(i, order, up'[c], Talking(c)', said'[c])
    <3>1. /\ Speaks(i, order, up[c], Talking(c), said[c]) /\ up[c] \in Seq(Item) /\ i \in Place
          /\ UpShape(up[c], Talking(c)) /\ Stage(c) /\ HasArrived(c) /\ said[c] \in Nat
      BY <2>3, Shapes, Seated, Numbers DEF IInv, Spoken, SpokenAt, Stages, HasArrived, Typed
    <3>2. FALSE
      BY <1>7, <3>1 DEF Dial, Stage
    <3> QED
      BY <3>2
  <2> QED
    BY <2>1, <2>2, <2>3, SpokenByOne
<1>8. ASSUME NEW c \in Dialler, GiveUp(c)
      PROVE  Spoken'
  <2>1. /\ order' = order /\ arrived' = arrived /\ up' = up /\ said' = said
        /\ Pumping(Listener)' => Pumping(Listener)
    BY <1>8, Numbers DEF GiveUp, listener, wire, history, Pumping, IInv, Typed
  <2>2. \A d \in Dialler : Talking(d)' => Talking(d)
    BY <1>8, Numbers DEF GiveUp, Talking, wire, IInv, Typed
  <2>3. ASSUME NEW i \in Seat, Pumping(Listener)
        PROVE  SpokenAt(i)'
    <3>1. SpokenAt(i) /\ arrived[i] \in Dialler
      BY <2>3, Seated DEF IInv, Spoken
    <3> QED
      BY <3>1, <2>1, <2>2, SpokenKept
  <2> QED
    BY <2>1, <2>3 DEF Spoken, IInv
<1>9. ASSUME NEW c \in Dialler, Garble(c)
      PROVE  Spoken'
  <2>1. /\ order' = order /\ arrived' = arrived /\ said'[Listener] = said[Listener]
        /\ Pumping(Listener)' => Pumping(Listener)
    BY <1>9, Numbers DEF Garble, listener, wire, history, Pumping, IInv, Typed
  <2>2. \A d \in Dialler \ {c} : up'[d] = up[d] /\ said'[d] = said[d] /\ (Talking(d)' => Talking(d))
    BY <1>9, Numbers DEF Garble, Talking, wire, history, Pop, IInv, Typed
  <2>3. ASSUME NEW i \in Seat, arrived[i] = c, Pumping(Listener)
        PROVE  Speaks(i, order, up'[c], Talking(c)', said'[c])
    <3>1. /\ Speaks(i, order, up[c], Talking(c), said[c]) /\ up[c] \in Seq(Item) /\ i \in Place
          /\ UpShape(up[c], Talking(c)) /\ Stage(c) /\ HasArrived(c) /\ said[c] \in Nat
      BY <2>3, Shapes, Seated, Numbers DEF IInv, Spoken, SpokenAt, Stages, HasArrived, Typed
    <3>2. up'[c] = Append(up[c], Garbled) /\ up[c] = <<>> /\ said'[c] = said[c] /\ (Talking(c)' => Talking(c))
      BY <1>9 DEF Garble, Talking, IInv, Typed, history
    <3>3. Garbled \in Item /\ Garbled.kind # "packet"
      BY Items
    <3>4. PICK talks, talked \in BOOLEAN : talked = Talking(c) /\ talks = Talking(c)'
      BY DEF Talking
    <3>5. Speaks(i, order, Append(up[c], Garbled), talks, said[c])
      BY <3>1, <3>2, <3>3, <3>4, SpeaksBye
    <3> QED
      BY <3>2, <3>4, <3>5 DEF Speaks
  <2> QED
    BY <2>1, <2>2, <2>3, SpokenByOne
<1>10. ASSUME NEW c \in Dialler, ConnectorSays(c)
      PROVE  Spoken'
  <2>1. /\ order' = order /\ arrived' = arrived /\ said'[Listener] = said[Listener]
        /\ Pumping(Listener)' => Pumping(Listener)
    BY <1>10, Numbers DEF ConnectorSays, listener, wire, history, Pumping, IInv, Typed
  <2>2. \A d \in Dialler \ {c} : up'[d] = up[d] /\ said'[d] = said[d] /\ (Talking(d)' => Talking(d))
    BY <1>10, Numbers DEF ConnectorSays, Talking, wire, history, Pop, IInv, Typed
  <2>3. ASSUME NEW i \in Seat, arrived[i] = c, Pumping(Listener)
        PROVE  Speaks(i, order, up'[c], Talking(c)', said'[c])
    <3>1. /\ Speaks(i, order, up[c], Talking(c), said[c]) /\ up[c] \in Seq(Item) /\ i \in Place
          /\ UpShape(up[c], Talking(c)) /\ Stage(c) /\ HasArrived(c) /\ said[c] \in Nat
      BY <2>3, Shapes, Seated, Numbers DEF IInv, Spoken, SpokenAt, Stages, HasArrived, Typed
    <3>2. said'[c] = said[c] + 1 /\ Talking(c)' = Talking(c) /\ phase[c] = "open" /\ phase[Listener] = "open"
      BY <1>10, <2>3, Numbers DEF ConnectorSays, Talking, Pumping, MaySay, IInv, Typed
    <3>3. CASE conn[c] # "up"
      <4>1. up' = up /\ ~Talking(c)'
        BY <1>10, <3>2, <3>3 DEF ConnectorSays, Talking
      <4> QED
        BY <3>1, <4>1 DEF Speaks
    <3>4. CASE conn[c] = "up"
      <4>1. PICK packet : packet = Packet(index[c], TRUE, Message(index[c], said[c] + 1))
        OBVIOUS
      <4>2. packet \in Item /\ packet.kind = "packet" /\ packet.message.number = said[c] + 1
        <5>1. index[c] \in Place /\ said[c] + 1 \in Nat /\ TRUE \in BOOLEAN
          BY Numbers DEF IInv, Typed
        <5>2. Message(index[c], said[c] + 1) \in Msg /\ Message(index[c], said[c] + 1).number = said[c] + 1
          BY <5>1, Messages
        <5>3. packet \in Item
          BY <4>1, <5>1, <5>2, Items
        <5> QED
          BY <4>1, <5>2, <5>3 DEF Packet
      <4>3. up'[c] = Append(up[c], packet)
        BY <1>10, <3>2, <3>4, <4>1 DEF ConnectorSays, IInv, Typed
      <4>4. Talking(c) /\ Talking(c)'
        BY <3>2, <3>4 DEF Talking
      <4>5. Speaks(i, order, up[c], TRUE, said[c]) /\ UpShape(up[c], TRUE)
        BY <3>1, <4>4 DEF Speaks, UpShape
      <4>6. Speaks(i, order, Append(up[c], packet), TRUE, said[c] + 1)
        BY <3>1, <4>2, <4>5, SpeaksMore
      <4> QED
        BY <4>3, <4>6, <3>2 DEF Speaks
    <3> QED
      BY <3>3, <3>4
  <2> QED
    BY <2>1, <2>2, <2>3, SpokenByOne
<1>11. ASSUME NEW c \in Dialler, ConnectorCloses(c)
      PROVE  Spoken'
  <2>1. /\ order' = order /\ arrived' = arrived /\ said'[Listener] = said[Listener]
        /\ Pumping(Listener)' => Pumping(Listener)
    BY <1>11, Numbers DEF ConnectorCloses, listener, wire, history, Pumping, IInv, Typed
  <2>2. \A d \in Dialler \ {c} : up'[d] = up[d] /\ said'[d] = said[d] /\ (Talking(d)' => Talking(d))
    BY <1>11, Numbers DEF ConnectorCloses, Talking, wire, history, Pop, IInv, Typed
  <2>3. ASSUME NEW i \in Seat, arrived[i] = c, Pumping(Listener)
        PROVE  Speaks(i, order, up'[c], Talking(c)', said'[c])
    <3>1. /\ Speaks(i, order, up[c], Talking(c), said[c]) /\ up[c] \in Seq(Item) /\ i \in Place
          /\ UpShape(up[c], Talking(c)) /\ Stage(c) /\ HasArrived(c) /\ said[c] \in Nat
      BY <2>3, Shapes, Seated, Numbers DEF IInv, Spoken, SpokenAt, Stages, HasArrived, Typed
    <3>2. ~Talking(c)' /\ up'[c] \in {Append(up[c], Goodbye), up[c], <<>>}
      BY <1>11, Numbers DEF ConnectorCloses, Talking, IInv, Typed
    <3>3. CASE up'[c] = Append(up[c], Goodbye)
      <4>1. Goodbye \in Item /\ Goodbye.kind # "packet"
        BY Items
      <4>2. Speaks(i, order, Append(up[c], Goodbye), FALSE, said[c])
        BY <3>1, <4>1, SpeaksBye
      <4> QED
        BY <3>2, <3>3, <4>2 DEF Speaks
    <3>4. CASE up'[c] = up[c]
      BY <3>1, <3>2, <3>4 DEF Speaks
    <3>5. CASE up'[c] = <<>>
      <4>1. Speaks(i, order, <<>>, FALSE, said[c])
        BY <3>1, SpeaksGone
      <4> QED
        BY <3>2, <3>5, <4>1 DEF Speaks
    <3> QED
      BY <3>2, <3>3, <3>4, <3>5
  <2> QED
    BY <2>1, <2>2, <2>3, SpokenByOne
<1>12. ASSUME NEW c \in Dialler, GoodbyeArrives(c)
      PROVE  Spoken'
  <2>1. /\ order' = order /\ arrived' = arrived /\ up' = up /\ said' = said
        /\ Pumping(Listener)' => Pumping(Listener)
    BY <1>12, Numbers DEF GoodbyeArrives, listener, wire, history, Pumping, IInv, Typed
  <2>2. \A d \in Dialler : Talking(d)' => Talking(d)
    BY <1>12, Numbers DEF GoodbyeArrives, Talking, wire, IInv, Typed
  <2>3. ASSUME NEW i \in Seat, Pumping(Listener)
        PROVE  SpokenAt(i)'
    <3>1. SpokenAt(i) /\ arrived[i] \in Dialler
      BY <2>3, Seated DEF IInv, Spoken
    <3> QED
      BY <3>1, <2>1, <2>2, SpokenKept
  <2> QED
    BY <2>1, <2>3 DEF Spoken, IInv
<1>13. ASSUME NEW c \in Dialler, LibraryNotices(c)
      PROVE  Spoken'
  <2>1. /\ order' = order /\ arrived' = arrived /\ said'[Listener] = said[Listener]
        /\ Pumping(Listener)' => Pumping(Listener)
    BY <1>13, Numbers DEF LibraryNotices, listener, wire, history, Pumping, IInv, Typed
  <2>2. \A d \in Dialler \ {c} : up'[d] = up[d] /\ said'[d] = said[d] /\ (Talking(d)' => Talking(d))
    BY <1>13, Numbers DEF LibraryNotices, Talking, wire, history, Pop, IInv, Typed
  <2>3. ASSUME NEW i \in Seat, arrived[i] = c, Pumping(Listener)
        PROVE  Speaks(i, order, up'[c], Talking(c)', said'[c])
    <3>1. /\ Speaks(i, order, up[c], Talking(c), said[c]) /\ up[c] \in Seq(Item) /\ i \in Place
          /\ UpShape(up[c], Talking(c)) /\ Stage(c) /\ HasArrived(c) /\ said[c] \in Nat
      BY <2>3, Shapes, Seated, Numbers DEF IInv, Spoken, SpokenAt, Stages, HasArrived, Typed
    <3>2. ~Talking(c)' /\ up'[c] = Append(up[c], Goodbye)
      BY <1>13, Numbers DEF LibraryNotices, Talking, IInv, Typed
    <3>3. Goodbye \in Item /\ Goodbye.kind # "packet"
      BY Items
    <3>4. Speaks(i, order, Append(up[c], Goodbye), FALSE, said[c])
      BY <3>1, <3>3, SpeaksBye
    <3> QED
      BY <3>2, <3>4 DEF Speaks
  <2> QED
    BY <2>1, <2>2, <2>3, SpokenByOne
<1>14. ASSUME NEW c \in Dialler, AcceptEvent(c)
      PROVE  Spoken'
  <2>1. ~Pumping(Listener)'
    BY <1>14, Numbers DEF AcceptEvent, Pumping, Accepting, IInv, Typed, Before
  <2> QED
    BY <2>1 DEF Spoken
<1>15. ASSUME NEW c \in Dialler, ListenerReceives(c)
      PROVE  Spoken'
  <2>1. PICK i \in Seat : \E targets, reached \in SUBSET Seat : Relays(c, i, targets, reached)
    BY <1>15, Relayed
  <2>2. PICK targets \in SUBSET Seat, reached \in SUBSET Seat : Relays(c, i, targets, reached)
    BY <2>1
  <2>3. PICK t \in Nat :
          /\ SpokenTo(order, i, t) /\ Head(up[c]).message = Message(i, t + 1)
          /\ Queued(Tail(up[c]), t + 1)
          /\ Talking(c) => said[c] = t + 1 + Len(Tail(up[c])) - UpGap(Tail(up[c]))
    BY <1>15, <2>2, Received
  <2>4. /\ order' = Append(order, Message(i, t + 1)) /\ i \in Place /\ i # 0 /\ arrived[i] = c
        /\ up' = [up EXCEPT ![c] = Tail(up[c])] /\ order \in Seq(Msg) /\ t + 1 \in Nat
    <3>1. order' = Append(order, Message(i, t + 1)) /\ arrived[i] = c
      BY <2>2, <2>3 DEF Relays
    <3>2. up' = [up EXCEPT ![c] = Tail(up[c])]
      BY <2>2 DEF Relays
    <3>3. i \in Place /\ i # 0 /\ order \in Seq(Msg) /\ t + 1 \in Nat
      BY Numbers DEF IInv, Typed
    <3> QED
      BY <3>1, <3>2, <3>3
  <2>5. /\ Pumping(Listener) /\ arrived' = arrived /\ conn' = conn /\ phase' = phase /\ said' = said
    BY <1>15 DEF ListenerReceives, listener
  <2>6. SpokenTo(order', 0, said'[Listener])
    <3>1. SpokenTo(order, 0, said[Listener]) /\ said[Listener] \in Nat /\ 0 \in Place
      BY <2>5, Numbers DEF IInv, Spoken, Typed
    <3> QED
      BY <2>4, <2>5, <3>1, SpokenNext
  <2>7. ASSUME NEW j \in Seat
        PROVE  SpokenAt(j)'
    <3>1. CASE j = i
      <4>1. SpokenTo(order', i, t + 1)
        BY <2>3, <2>4, SpokenNext
      <4>2. up'[c] = Tail(up[c]) /\ Talking(c)' = Talking(c)
        BY <2>4, <2>5 DEF IInv, Typed, Talking
      <4>3. Speaks(i, order', Tail(up[c]), Talking(c), said[c])
        BY <2>3, <2>4, <4>1 DEF Speaks
      <4> QED
        BY <2>4, <2>5, <3>1, <4>2, <4>3 DEF SpokenAt
    <3>2. CASE j # i
      <4>1. PICK d \in Dialler : d = arrived[j] /\ j \in DOMAIN arrived
        BY <2>5, Seated DEF IInv
      <4>2. d # c
        BY <2>2, <2>4, <3>2, <4>1 DEF IInv, Arrivals, Relays
      <4>3. /\ Speaks(j, order, up[d], Talking(d), said[d]) /\ up'[d] = up[d] /\ Talking(d)' = Talking(d)
            /\ j \in Place
        BY <2>4, <2>5, <4>1, <4>2, Numbers DEF IInv, Spoken, SpokenAt, Talking, Typed
      <4>4. PICK s \in Nat : /\ SpokenTo(order, j, s) /\ Queued(up[d], s)
                             /\ Talking(d) => said[d] = s + Len(up[d]) - UpGap(up[d])
        BY <4>3 DEF Speaks
      <4>5. SpokenTo(order', j, s)
        BY <2>4, <3>2, <4>3, <4>4, SpokenNext
      <4>6. Speaks(j, order', up[d], Talking(d), said[d])
        BY <4>4, <4>5 DEF Speaks
      <4> QED
        BY <2>5, <4>1, <4>3, <4>6 DEF SpokenAt
    <3> QED
      BY <3>1, <3>2
  <2> QED
    BY <2>6, <2>7 DEF Spoken
<1>16. ASSUME NEW c \in Dialler, ListenerRefusesPacket(c)
      PROVE  Spoken'
  <2>1. /\ order' = order /\ arrived' = arrived /\ said'[Listener] = said[Listener]
        /\ Pumping(Listener)' => Pumping(Listener)
    BY <1>16, Numbers DEF ListenerRefusesPacket, listener, wire, history, Pumping, IInv, Typed
  <2>2. \A d \in Dialler \ {c} : up'[d] = up[d] /\ said'[d] = said[d] /\ (Talking(d)' => Talking(d))
    BY <1>16, Numbers DEF ListenerRefusesPacket, Talking, wire, history, Pop, IInv, Typed
  <2>3. ASSUME NEW i \in Seat, arrived[i] = c, Pumping(Listener)
        PROVE  Speaks(i, order, up'[c], Talking(c)', said'[c])
    <3>1. /\ Speaks(i, order, up[c], Talking(c), said[c]) /\ up[c] \in Seq(Item) /\ i \in Place
          /\ UpShape(up[c], Talking(c)) /\ Stage(c) /\ HasArrived(c) /\ said[c] \in Nat
      BY <2>3, Shapes, Seated, Numbers DEF IInv, Spoken, SpokenAt, Stages, HasArrived, Typed
    <3>2. /\ up'[c] = Tail(up[c]) /\ up[c] # <<>> /\ Head(up[c]).kind # "packet"
          /\ (Talking(c)' => Talking(c)) /\ said'[c] = said[c]
      BY <1>16 DEF ListenerRefusesPacket, Pop, First, Talking, IInv, Typed, history
    <3>3. PICK talks \in BOOLEAN : talks = Talking(c)
      BY DEF Talking
    <3>4. Speaks(i, order, Tail(up[c]), talks, said[c])
      BY <3>1, <3>2, <3>3, SpeaksPop
    <3> QED
      BY <3>2, <3>3, <3>4 DEF Speaks
  <2> QED
    BY <2>1, <2>2, <2>3, SpokenByOne
<1>17. ASSUME NEW c \in Dialler, ListenerLoses(c)
      PROVE  Spoken'
  <2>1. /\ order' = order /\ arrived' = arrived /\ said'[Listener] = said[Listener]
        /\ Pumping(Listener)' => Pumping(Listener)
    BY <1>17, Numbers DEF ListenerLoses, listener, wire, history, Pumping, IInv, Typed
  <2>2. \A d \in Dialler \ {c} : up'[d] = up[d] /\ said'[d] = said[d] /\ (Talking(d)' => Talking(d))
    BY <1>17, Numbers DEF ListenerLoses, Talking, wire, history, Pop, IInv, Typed
  <2>3. ASSUME NEW i \in Seat, arrived[i] = c, Pumping(Listener)
        PROVE  Speaks(i, order, up'[c], Talking(c)', said'[c])
    <3>1. /\ Speaks(i, order, up[c], Talking(c), said[c]) /\ up[c] \in Seq(Item) /\ i \in Place
          /\ UpShape(up[c], Talking(c)) /\ Stage(c) /\ HasArrived(c) /\ said[c] \in Nat
      BY <2>3, Shapes, Seated, Numbers DEF IInv, Spoken, SpokenAt, Stages, HasArrived, Typed
    <3>2. up'[c] = <<>> /\ ~Talking(c)'
      BY <1>17 DEF ListenerLoses, Talking, IInv, Typed
    <3>3. Speaks(i, order, <<>>, FALSE, said[c])
      BY <3>1, SpeaksGone
    <3> QED
      BY <3>2, <3>3 DEF Speaks
  <2> QED
    BY <2>1, <2>2, <2>3, SpokenByOne
<1>18. ASSUME NEW c \in Dialler, ListenerRefuses(c)
      PROVE  Spoken'
  <2>1. /\ order' = order /\ arrived' = arrived /\ said'[Listener] = said[Listener]
        /\ Pumping(Listener)' => Pumping(Listener)
    BY <1>18, Numbers DEF ListenerRefuses, listener, wire, history, Pumping, IInv, Typed
  <2>2. \A d \in Dialler \ {c} : up'[d] = up[d] /\ said'[d] = said[d] /\ (Talking(d)' => Talking(d))
    BY <1>18, Severed DEF ListenerRefuses, Talking, history, IInv
  <2>3. ASSUME NEW i \in Seat, arrived[i] = c, Pumping(Listener)
        PROVE  Speaks(i, order, up'[c], Talking(c)', said'[c])
    <3>1. /\ Speaks(i, order, up[c], Talking(c), said[c]) /\ up[c] \in Seq(Item) /\ i \in Place
          /\ UpShape(up[c], Talking(c)) /\ Stage(c) /\ HasArrived(c) /\ said[c] \in Nat
      BY <2>3, Shapes, Seated, Numbers DEF IInv, Spoken, SpokenAt, Stages, HasArrived, Typed
    <3>2. FALSE
      BY <1>18, <3>1, NewHere DEF ListenerRefuses, IInv
    <3> QED
      BY <3>2
  <2> QED
    BY <2>1, <2>2, <2>3, SpokenByOne
<1>19. ASSUME NEW c \in Dialler, Told(c)
      PROVE  Spoken'
  <2>1. /\ order' = order /\ arrived' = arrived /\ up' = up /\ said' = said
        /\ Pumping(Listener)' => Pumping(Listener)
    BY <1>19, Numbers DEF Told, listener, wire, history, Pumping, IInv, Typed
  <2>2. \A d \in Dialler : Talking(d)' => Talking(d)
    BY <1>19, Numbers DEF Told, Talking, wire, IInv, Typed
  <2>3. ASSUME NEW i \in Seat, Pumping(Listener)
        PROVE  SpokenAt(i)'
    <3>1. SpokenAt(i) /\ arrived[i] \in Dialler
      BY <2>3, Seated DEF IInv, Spoken
    <3> QED
      BY <3>1, <2>1, <2>2, SpokenKept
  <2> QED
    BY <2>1, <2>3 DEF Spoken, IInv
<1>20. ASSUME NEW c \in Dialler, Refused(c)
      PROVE  Spoken'
  <2>1. /\ order' = order /\ arrived' = arrived /\ up' = up /\ said' = said
        /\ Pumping(Listener)' => Pumping(Listener)
    BY <1>20, Numbers DEF Refused, listener, wire, history, Pumping, IInv, Typed
  <2>2. \A d \in Dialler : Talking(d)' => Talking(d)
    BY <1>20, Numbers DEF Refused, Talking, wire, IInv, Typed
  <2>3. ASSUME NEW i \in Seat, Pumping(Listener)
        PROVE  SpokenAt(i)'
    <3>1. SpokenAt(i) /\ arrived[i] \in Dialler
      BY <2>3, Seated DEF IInv, Spoken
    <3> QED
      BY <3>1, <2>1, <2>2, SpokenKept
  <2> QED
    BY <2>1, <2>3 DEF Spoken, IInv
<1>21. ASSUME NEW c \in Dialler, ConnectorReceives(c)
      PROVE  Spoken'
  <2>1. /\ order' = order /\ arrived' = arrived /\ up' = up /\ said' = said
        /\ Pumping(Listener)' => Pumping(Listener)
    BY <1>21, Numbers DEF ConnectorReceives, listener, wire, history, Pumping, IInv, Typed
  <2>2. \A d \in Dialler : Talking(d)' => Talking(d)
    BY <1>21, Numbers DEF ConnectorReceives, Talking, wire, IInv, Typed
  <2>3. ASSUME NEW i \in Seat, Pumping(Listener)
        PROVE  SpokenAt(i)'
    <3>1. SpokenAt(i) /\ arrived[i] \in Dialler
      BY <2>3, Seated DEF IInv, Spoken
    <3> QED
      BY <3>1, <2>1, <2>2, SpokenKept
  <2> QED
    BY <2>1, <2>3 DEF Spoken, IInv
<1>22. ASSUME NEW c \in Dialler, ConnectorLoses(c)
      PROVE  Spoken'
  <2>1. /\ order' = order /\ arrived' = arrived /\ up' = up /\ said' = said
        /\ Pumping(Listener)' => Pumping(Listener)
    BY <1>22, Numbers DEF ConnectorLoses, listener, wire, history, Pumping, IInv, Typed
  <2>2. \A d \in Dialler : Talking(d)' => Talking(d)
    BY <1>22, Numbers DEF ConnectorLoses, Talking, wire, IInv, Typed
  <2>3. ASSUME NEW i \in Seat, Pumping(Listener)
        PROVE  SpokenAt(i)'
    <3>1. SpokenAt(i) /\ arrived[i] \in Dialler
      BY <2>3, Seated DEF IInv, Spoken
    <3> QED
      BY <3>1, <2>1, <2>2, SpokenKept
  <2> QED
    BY <2>1, <2>3 DEF Spoken, IInv
<1>23. CASE UNCHANGED vars
  <2>1. /\ order' = order /\ arrived' = arrived /\ up' = up /\ said' = said
        /\ Pumping(Listener)' => Pumping(Listener)
    BY <1>23 DEF vars, listener, wire, history, Pumping
  <2>2. \A d \in Dialler : Talking(d)' => Talking(d)
    BY <1>23 DEF vars, Talking, wire
  <2>3. ASSUME NEW i \in Seat, Pumping(Listener)
        PROVE  SpokenAt(i)'
    <3>1. SpokenAt(i) /\ arrived[i] \in Dialler
      BY <2>3, Seated DEF IInv, Spoken
    <3> QED
      BY <3>1, <2>1, <2>2, SpokenKept
  <2> QED
    BY <2>1, <2>3 DEF Spoken, IInv
<1> QED
  BY <1>1, <1>2, <1>3, <1>4, <1>5, <1>6, <1>7, <1>8, <1>9, <1>10, <1>11, <1>12, <1>13, <1>14, <1>15, <1>16, <1>17, <1>18, <1>19, <1>20, <1>21, <1>22, <1>23 DEF Next, ListenerPumps, ConnectorPumps

\* Nothing that a seat hears by has changed.
LEMMA HeardKept ==
  ASSUME NEW i \in Seat, HeardAt(i), arrived' = arrived, order' = order, heard'[i] = heard[i],
         down'[arrived[i]] = down[arrived[i]],
         ended[arrived[i]] => ended'[arrived[i]],
         phase[arrived[i]] = "closed" => phase'[arrived[i]] = "closed",
         Live(i)' => Live(i)
  PROVE  HeardAt(i)'
<1> SUFFICES ASSUME ~ended'[arrived[i]], phase'[arrived[i]] # "closed"
             PROVE  Hears(i, order, heard[i], down[arrived[i]], Live(i)')
  BY DEF HeardAt
<1>1. Hears(i, order, heard[i], down[arrived[i]], Live(i))
  BY DEF HeardAt
<1> QED
  BY <1>1 DEF Hears

\* Who has arrived is somebody who dialled, with a seat to come.
LEMMA Arrived ==
  ASSUME Typed, Arrivals
  PROVE  \A i \in DOMAIN arrived :
           i \in Seat /\ arrived[i] \in Dialler /\ arrived[i] # Listener /\ HasArrived(arrived[i])
BY Numbers DEF Typed, Arrivals, HasArrived

\* Nothing that any seat hears by has changed.
LEMMA HeardSame ==
  ASSUME IInv, arrived' = arrived, order' = order, heard' = heard, down' = down,
         phase'[Listener] # "opening" => phase[Listener] # "opening",
         \A d \in Dialler : /\ ended[d] => ended'[d]
                            /\ phase[d] = "closed" => phase'[d] = "closed"
                            /\ conn'[d] = "up" => conn[d] = "up",
         Pumping(Listener)' => Pumping(Listener),
         \A i \in Seat : peers'[i] # None => peers[i] # None
  PROVE  Heard'
<1>1. ASSUME NEW i \in DOMAIN arrived, phase'[Listener] # "opening"
      PROVE  HeardAt(i)'
  <2>1. i \in Seat /\ arrived[i] \in Dialler /\ HeardAt(i)
    BY <1>1, Arrived DEF IInv, Heard
  <2>2. Live(i)' => Live(i)
    BY <2>1 DEF Live
  <2> QED
    BY <2>1, <2>2, HeardKept
<1> QED
  BY <1>1 DEF Heard

\* One process hears something, or is no longer here to hear.
LEMMA HeardByOne ==
  ASSUME IInv, NEW c \in Dialler, arrived' = arrived, order' = order,
         phase'[Listener] # "opening" => phase[Listener] # "opening",
         \A d \in Dialler \ {c} : /\ down'[d] = down[d]
                                  /\ ended[d] => ended'[d]
                                  /\ phase[d] = "closed" => phase'[d] = "closed"
                                  /\ conn'[d] = "up" => conn[d] = "up",
         Pumping(Listener)' => Pumping(Listener),
         \A i \in Seat : peers'[i] # None => peers[i] # None,
         \A i \in DOMAIN arrived : arrived[i] # c => heard'[i] = heard[i],
         \A i \in DOMAIN arrived :
           arrived[i] = c /\ HeardAt(i) /\ ~ended'[c] /\ phase'[c] # "closed" =>
             Hears(i, order, heard'[i], down'[c], Live(i)')
  PROVE  Heard'
<1>1. ASSUME NEW i \in DOMAIN arrived, phase'[Listener] # "opening"
      PROVE  HeardAt(i)'
  <2>1. i \in Seat /\ arrived[i] \in Dialler /\ HeardAt(i)
    BY <1>1, Arrived DEF IInv, Heard
  <2>2. CASE arrived[i] = c
    <3> SUFFICES ASSUME ~ended'[c], phase'[c] # "closed"
                 PROVE  Hears(i, order, heard'[i], down'[c], Live(i)')
      BY <2>2 DEF HeardAt
    <3> QED
      BY <2>1, <2>2
  <2>3. CASE arrived[i] # c
    <3>1. Live(i)' => Live(i)
      BY <2>1, <2>3 DEF Live
    <3> QED
      BY <2>1, <2>3, <3>1, HeardKept
  <2> QED
    BY <2>2, <2>3
<1> QED
  BY <1>1 DEF Heard

\* A broadcast is passed on to everybody who can be reached: the others' seats.
LEMMA PassedOn ==
  ASSUME IInv, Pumping(Listener), NEW m \in Msg, NEW targets \in SUBSET Seat, m.origin \notin targets,
         order' = Append(order, m), down' = DownTo(Reached(targets), Packet(m.origin, FALSE, m)),
         arrived' = arrived, conn' = conn, peers' = peers, heard' = heard,
         \A d \in Dialler : ended'[d] = ended[d] /\ phase'[d] = phase[d],
         Pumping(Listener)' => Reached(targets) = targets,
         \A j \in Seat : peers[j] # None /\ j # m.origin => j \in targets
  PROVE  Heard'
<1>1. ASSUME NEW i \in DOMAIN arrived, ~ended'[arrived[i]], phase'[arrived[i]] # "closed"
      PROVE  Hears(i, order', heard[i], down'[arrived[i]], Live(i)')
  <2>1. PICK c \in Dialler : c = arrived[i] /\ i \in Seat
    BY <1>1, Arrived DEF IInv
  <2>2. /\ Hears(i, order, heard[i], down[c], Live(i))
        /\ order \in Seq(Msg) /\ heard[i] \in Seq(Msg) /\ down[c] \in Seq(Item)
    BY <1>1, <2>1, Numbers DEF IInv, Heard, HeardAt, Typed, Pumping
  <2>3. \A j \in Reached(targets) : peers[j] = c => j = i
    BY <2>1, ReachedUp DEF IInv, Seats, Arrivals
  <2>4. Live(i)' => Live(i)
    BY DEF Live
  <2>5. CASE i \notin Reached(targets)
    <3>1. down'[c] = down[c]
      BY <2>3, <2>5 DEF DownTo
    <3>2. CASE m.origin = i
      <4>1. PICK live \in BOOLEAN : live = Live(i)
        BY DEF Live
      <4>2. Hears(i, order, heard[i], down[c], live)
        BY <2>2, <4>1 DEF Hears
      <4>3. Hears(i, Append(order, m), heard[i], down[c], live)
        BY <2>2, <3>2, <4>2, HearsOwn
      <4> QED
        BY <2>1, <2>4, <3>1, <4>1, <4>3 DEF Hears
    <3>3. CASE m.origin # i
      <4>1. PICK live \in BOOLEAN : live = Live(i)
        BY DEF Live
      <4>2. Hears(i, order, heard[i], down[c], live)
        BY <2>2, <4>1 DEF Hears
      <4>3. Hears(i, Append(order, m), heard[i], down[c], FALSE)
        BY <2>2, <3>3, <4>2, HearsMissed
      <4>4. ~Live(i)'
        BY <2>1, <2>5, <3>3 DEF Live
      <4> QED
        BY <2>1, <3>1, <4>3, <4>4 DEF Hears
    <3> QED
      BY <3>2, <3>3
  <2>6. CASE i \in Reached(targets)
    <3>1. i \in targets /\ peers[i] = c /\ conn[c] = "up"
      BY <2>1, <2>6, ReachedUp DEF IInv, Seats
    <3>2. PICK packet : packet = Packet(m.origin, FALSE, m)
      OBVIOUS
    <3>3. /\ packet \in Item /\ packet.kind = "packet" /\ packet.message = m
          /\ packet.origin = m.origin /\ ~packet.everyone
      <4>1. m.origin \in Place /\ FALSE \in BOOLEAN
        BY DEF Msg
      <4>2. packet \in Item
        BY <3>2, <4>1, Items
      <4> QED
        BY <3>2, <4>2 DEF Packet
    <3>4. down'[c] = Append(down[c], packet)
      BY <1>1, <2>1, <2>6, <3>1, <3>2 DEF DownTo
    <3>5. Live(i)
      BY <2>1, <3>1, Numbers DEF Live
    <3>6. Hears(i, order, heard[i], down[c], TRUE) /\ m.origin # i
      BY <2>2, <3>1, <3>5 DEF Hears
    <3>7. Hears(i, Append(order, m), heard[i], Append(down[c], packet), TRUE)
      BY <2>2, <3>3, <3>6, HearsMore
    <3> QED
      BY <2>1, <3>4, <3>7 DEF Hears
  <2> QED
    BY <2>5, <2>6
<1>2. ASSUME NEW i \in DOMAIN arrived
      PROVE  HeardAt(i)'
  BY <1>1, <1>2 DEF HeardAt
<1> QED
  BY <1>2 DEF Heard

\* What a seat has heard and what is on its way to it stay in the one order.
LEMMA HeardStep ==
  ASSUME IInv, [Next]_vars
  PROVE  Heard'
<1>1. ASSUME AcceptExpires
      PROVE  Heard'
  <2>1. /\ phase[Listener] = "opening" /\ order' = order /\ heard' = heard /\ down' = down
        /\ arrived' = arrived /\ ~Pumping(Listener)'
    BY <1>1, Numbers DEF AcceptExpires, Accepting, listener, wire, history, Pumping, IInv, Typed
  <2>2. ASSUME NEW i \in DOMAIN arrived
        PROVE  HeardAt(i)'
    <3>1. order = <<>> /\ heard[i] = <<>> /\ down[arrived[i]] = <<>> /\ i \in Seat
      BY <2>1, <2>2, Arrived DEF IInv, Before
    <3>2. <<>> \in Seq(Item) /\ \A k \in DOMAIN <<>> : <<>>[k].kind # "packet"
      OBVIOUS
    <3>3. Hears(i, <<>>, <<>>, <<>>, FALSE)
      BY <3>2, HearsNothing
    <3>4. ~Live(i)'
      BY <2>1 DEF Live
    <3> QED
      BY <2>1, <3>1, <3>3, <3>4 DEF HeardAt, Hears
  <2> QED
    BY <2>1, <2>2 DEF Heard
<1>2. ASSUME Announce
      PROVE  Heard'
  <2>1. PICK told \in 0 .. Size - 1 : Announced(told)
    BY <1>2, AnnounceTells
  <2>2. /\ phase[Listener] = "opening" /\ Len(arrived) = Size - 1 /\ arrived' = arrived
        /\ order' = order /\ heard' = heard /\ ended' = ended
    BY <1>2 DEF Announce, history
  <2>3. DOMAIN arrived = Seat /\ \A i \in Seat : arrived[i] \in Dialler /\ arrived[i] # Listener
    BY <2>2, Numbers DEF IInv, Typed
  <2>4. ASSUME NEW i \in Seat, phase'[arrived[i]] # "closed"
        PROVE  Hears(i, order', heard'[i], down'[arrived[i]], Live(i)')
    <3>1. order' = <<>> /\ heard'[i] = <<>>
      BY <2>2 DEF IInv, Before
    <3>2. phase[arrived[i]] # "closed" /\ told \in Nat /\ i \in Nat /\ i > 0
      BY <2>1, <2>3, <2>4, Numbers DEF Announced, IInv, Typed
    <3>3. Live(i)' => told = Size - 1
      BY <2>1, Numbers DEF Live, Pumping, Announced, IInv, Typed
    <3>4. CASE i <= told
      <4>1. down'[arrived[i]] \in IF told = Size - 1 THEN {<<YouAre(i)>>}
                                  ELSE {<<YouAre(i), Goodbye>>, <<YouAre(i)>>, <<>>}
        <5>1. i \in 1 .. told
          BY <3>2, <3>4, Numbers
        <5> QED
          BY <2>1, <3>2, <5>1 DEF Announced
      <4>2. YouAre(i) \in Item /\ Goodbye \in Item /\ YouAre(i).kind = "index" /\ Goodbye.kind = "goodbye"
        BY Items
      <4>3. CASE told = Size - 1
        <5>1. /\ <<YouAre(i)>> \in Seq(Item) /\ \A k \in DOMAIN <<YouAre(i)>> : <<YouAre(i)>>[k].kind # "packet"
              /\ <<YouAre(i)>> # <<>> /\ Len(<<YouAre(i)>>) = 1 /\ Head(<<YouAre(i)>>).kind = "index"
          BY <4>2
        <5>2. Hears(i, <<>>, <<>>, <<YouAre(i)>>, TRUE)
          BY <5>1, HearsNothing
        <5> QED
          BY <3>1, <4>1, <4>3, <5>2 DEF Hears
      <4>4. CASE told # Size - 1
        <5>1. /\ <<YouAre(i), Goodbye>> \in Seq(Item) /\ <<YouAre(i)>> \in Seq(Item) /\ <<>> \in Seq(Item)
              /\ \A k \in DOMAIN <<YouAre(i), Goodbye>> : <<YouAre(i), Goodbye>>[k].kind # "packet"
              /\ \A k \in DOMAIN <<YouAre(i)>> : <<YouAre(i)>>[k].kind # "packet"
              /\ \A k \in DOMAIN <<>> : <<>>[k].kind # "packet"
          BY <4>2
        <5>2. Hears(i, <<>>, <<>>, down'[arrived[i]], FALSE)
          <6>1. /\ Hears(i, <<>>, <<>>, <<YouAre(i), Goodbye>>, FALSE) /\ Hears(i, <<>>, <<>>, <<YouAre(i)>>, FALSE)
                /\ Hears(i, <<>>, <<>>, <<>>, FALSE)
            BY <5>1, HearsNothing
          <6> QED
            BY <4>1, <4>4, <6>1
        <5> QED
          BY <3>1, <3>3, <4>4, <5>2 DEF Hears
      <4> QED
        BY <4>3, <4>4
    <3>5. CASE i > told
      <4>1. \A j \in 1 .. told : arrived[j] # arrived[i]
        BY <2>3, <3>2, <3>5, Numbers DEF IInv, Arrivals
      <4>2. down'[arrived[i]] = <<>>
        BY <2>1, <2>3, <4>1 DEF Announced
      <4>3. ~Live(i)'
        BY <2>1, <3>2, <3>5 DEF Live, Announced, SeatsFrom
      <4>4. <<>> \in Seq(Item) /\ \A k \in DOMAIN <<>> : <<>>[k].kind # "packet"
        OBVIOUS
      <4>5. Hears(i, <<>>, <<>>, <<>>, FALSE)
        BY <4>4, HearsNothing
      <4> QED
        BY <3>1, <4>2, <4>3, <4>5 DEF Hears
    <3> QED
      BY <3>2, <3>4, <3>5
  <2>5. ASSUME NEW i \in Seat
        PROVE  HeardAt(i)'
    BY <2>2, <2>4, <2>5 DEF HeardAt
  <2> QED
    BY <2>2, <2>3, <2>5 DEF Heard
<1>3. ASSUME ListenerSays
      PROVE  Heard'
  <2>1. PICK m, targets : m = Message(0, said[Listener] + 1) /\ targets = Seat \ lost
    OBVIOUS
  <2>2. m \in Msg /\ m.origin = 0 /\ targets \in SUBSET Seat /\ 0 \notin targets
    <3>1. 0 \in Place /\ 0 \notin Seat /\ said[Listener] + 1 \in Nat
      BY Numbers DEF IInv, Typed
    <3> QED
      BY <2>1, <3>1, Messages
  <2>3. /\ Pumping(Listener) /\ order' = Append(order, m) /\ arrived' = arrived /\ conn' = conn
        /\ peers' = peers /\ heard' = heard
        /\ down' = DownTo(Reached(targets), Packet(0, FALSE, m))
    BY <1>3, <2>1 DEF ListenerSays, MaySay, Pumping, listener
  <2>4. \A d \in Dialler : ended'[d] = ended[d] /\ phase'[d] = phase[d]
    BY <1>3, Numbers DEF ListenerSays, IInv, Typed
  <2>5. Pumping(Listener)' => Reached(targets) = targets
    BY <1>3, <2>1, Numbers DEF ListenerSays, Pumping, IInv, Typed
  <2>6. \A j \in Seat : peers[j] # None /\ j # m.origin => j \in targets
    BY <2>1 DEF IInv, Seats
  <2> QED
    BY <2>2, <2>3, <2>4, <2>5, <2>6, PassedOn
<1>4. ASSUME ListenerCloses
      PROVE  Heard'
  <2>1. /\ arrived' = arrived /\ order' = order /\ heard' = heard /\ ended' = ended
        /\ phase[Listener] # "opening" /\ ~Pumping(Listener)'
        /\ \A d \in Dialler : phase'[d] = phase[d]
    BY <1>4, Numbers DEF ListenerCloses, listener, history, Pumping, IInv, Typed
  <2>2. \A d \in Dialler : down'[d] \in {down[d], Append(down[d], Goodbye), <<>>}
    BY <1>4 DEF ListenerCloses
  <2>3. ASSUME NEW i \in DOMAIN arrived, ~ended[arrived[i]], phase[arrived[i]] # "closed"
        PROVE  Hears(i, order, heard[i], down'[arrived[i]], Live(i)')
    <3>1. PICK c \in Dialler : c = arrived[i] /\ i \in Seat
      BY <2>3, Arrived DEF IInv
    <3>2. /\ Hears(i, order, heard[i], down[c], Live(i))
          /\ order \in Seq(Msg) /\ heard[i] \in Seq(Msg) /\ down[c] \in Seq(Item)
      BY <2>1, <2>3, <3>1 DEF IInv, Heard, HeardAt, Typed
    <3>3. ~Live(i)'
      BY <2>1 DEF Live
    <3>4. PICK live \in BOOLEAN : live = Live(i)
      BY DEF Live
    <3>5. Hears(i, order, heard[i], down[c], live)
      BY <3>2, <3>4 DEF Hears
    <3>6. CASE down'[c] = down[c]
      BY <3>1, <3>2, <3>3, <3>6 DEF Hears
    <3>7. CASE down'[c] = Append(down[c], Goodbye)
      <4>1. Hears(i, order, heard[i], Append(down[c], Goodbye), FALSE)
        BY <3>2, <3>5, HearsBye
      <4> QED
        BY <3>1, <3>3, <3>7, <4>1 DEF Hears
    <3>8. CASE down'[c] = <<>>
      <4>1. Hears(i, order, heard[i], <<>>, FALSE)
        BY <3>5, HearsGone
      <4> QED
        BY <3>1, <3>3, <3>8, <4>1 DEF Hears
    <3> QED
      BY <2>2, <3>1, <3>6, <3>7, <3>8
  <2>4. ASSUME NEW i \in DOMAIN arrived
        PROVE  HeardAt(i)'
    <3>1. arrived[i] \in Dialler
      BY Arrived DEF IInv
    <3> QED
      BY <2>1, <2>3, <2>4, <3>1 DEF HeardAt
  <2> QED
    BY <2>1, <2>4 DEF Heard
<1>5. ASSUME NEW i \in Seat, ListenerTimesOut(i)
      PROVE  Heard'
  <2>1. PICK c \in Dialler : c = peers[i]
    BY <1>5 DEF ListenerTimesOut, IInv, Typed
  <2>2. /\ arrived' = arrived /\ order' = order /\ heard' = heard /\ phase' = phase /\ Pumping(Listener)
        /\ \A d \in Dialler : ended'[d] = ended[d]
    BY <1>5, Numbers DEF ListenerTimesOut, history, Pumping, IInv, Typed
  <2>3. \A j \in Seat : peers'[j] # None => peers[j] # None
    BY <1>5 DEF ListenerTimesOut, IInv, Typed
  <2>4. CASE ~KeepsGoing
    <3>1. down' = down /\ conn' = conn
      BY <1>5, <2>4 DEF ListenerTimesOut, wire
    <3> QED
      BY <2>2, <2>3, <3>1, HeardSame
  <2>5. CASE KeepsGoing
    <3>1. Sever(c)
      BY <1>5, <2>1, <2>5 DEF ListenerTimesOut
    <3>2. \A d \in Dialler \ {c} : down'[d] = down[d] /\ conn'[d] = conn[d]
      BY <3>1, Severed DEF IInv
    <3>3. ASSUME NEW j \in DOMAIN arrived, arrived[j] = c, HeardAt(j), ~ended'[c], phase'[c] # "closed"
          PROVE  Hears(j, order, heard'[j], down'[c], Live(j)')
      <4>1. /\ Hears(j, order, heard[j], down[c], Live(j)) /\ order \in Seq(Msg)
            /\ heard[j] \in Seq(Msg) /\ down[c] \in Seq(Item)
        BY <2>2, <3>3, Arrived DEF HeardAt, IInv, Typed
      <4>2. ~Live(j)'
        BY <2>2, <3>1, <3>3, Severed DEF Live, IInv
      <4>3. PICK live \in BOOLEAN : live = Live(j)
        BY DEF Live
      <4>4. Hears(j, order, heard[j], down[c], live)
        BY <4>1, <4>3 DEF Hears
      <4>5. down'[c] \in {down[c], <<>>, Append(down[c], Goodbye), <<Goodbye>>}
        BY <3>1, Severed DEF IInv
      <4>6. CASE down'[c] = down[c]
        BY <2>2, <4>1, <4>2, <4>6 DEF Hears
      <4>7. CASE down'[c] = Append(down[c], Goodbye)
        <5>1. Hears(j, order, heard[j], Append(down[c], Goodbye), FALSE)
          BY <4>1, <4>4, HearsBye
        <5> QED
          BY <2>2, <4>2, <4>7, <5>1 DEF Hears
      <4>8. Hears(j, order, heard[j], <<>>, FALSE)
        BY <4>4, HearsGone
      <4>9. CASE down'[c] = <<>>
        BY <2>2, <4>2, <4>8, <4>9 DEF Hears
      <4>10. CASE down'[c] = <<Goodbye>>
        <5>1. <<>> \in Seq(Item) /\ <<Goodbye>> = Append(<<>>, Goodbye)
          OBVIOUS
        <5>2. Hears(j, order, heard[j], Append(<<>>, Goodbye), FALSE)
          BY <4>1, <4>8, <5>1, HearsBye
        <5> QED
          BY <2>2, <4>2, <4>10, <5>1, <5>2 DEF Hears
      <4> QED
        BY <4>5, <4>6, <4>7, <4>9, <4>10
    <3> QED
      BY <2>2, <2>3, <3>2, <3>3, HeardByOne
  <2> QED
    BY <2>4, <2>5
<1>6. ASSUME NEW p \in Process, Drain(p)
      PROVE  Heard'
  <2>1. /\ arrived' = arrived /\ order' = order /\ heard' = heard /\ down' = down
        /\ phase'[Listener] # "opening" => phase[Listener] # "opening"
        /\ Pumping(Listener)' => Pumping(Listener)
    BY <1>6, Numbers DEF Drain, listener, wire, history, Pumping, MaySay, IInv, Typed
  <2>2. \A i \in Seat : peers'[i] # None => peers[i] # None
    BY <1>6 DEF Drain, listener
  <2>3. \A d \in Dialler : /\ ended[d] => ended'[d]
                           /\ phase[d] = "closed" => phase'[d] = "closed"
                           /\ conn'[d] = "up" => conn[d] = "up"
    BY <1>6, Numbers DEF Drain, wire, IInv, Typed
  <2> QED
    BY <2>1, <2>2, <2>3, HeardSame
<1>7. ASSUME NEW c \in Dialler, Dial(c)
      PROVE  Heard'
  <2>1. /\ arrived' = arrived /\ order' = order
        /\ phase'[Listener] # "opening" => phase[Listener] # "opening"
        /\ Pumping(Listener)' => Pumping(Listener)
    BY <1>7, Numbers DEF Dial, listener, wire, history, Pumping, IInv, Typed
  <2>2. \A i \in Seat : peers'[i] # None => peers[i] # None
    BY <1>7 DEF Dial, listener
  <2>3. \A d \in Dialler \ {c} : /\ down'[d] = down[d]
                                 /\ ended[d] => ended'[d]
                                 /\ phase[d] = "closed" => phase'[d] = "closed"
                                 /\ conn'[d] = "up" => conn[d] = "up"
    BY <1>7, Numbers DEF Dial, wire, Pop, IInv, Typed
  <2>4. heard' = heard
    BY <1>7 DEF Dial, history
  <2>5. \A i \in DOMAIN arrived : arrived[i] # c
    BY <1>7 DEF Dial, HasArrived, IInv, Stages, Stage
  <2> QED
    BY <2>1, <2>2, <2>3, <2>4, <2>5, HeardByOne
<1>8. ASSUME NEW c \in Dialler, GiveUp(c)
      PROVE  Heard'
  <2>1. /\ arrived' = arrived /\ order' = order
        /\ phase'[Listener] # "opening" => phase[Listener] # "opening"
        /\ Pumping(Listener)' => Pumping(Listener)
    BY <1>8, Numbers DEF GiveUp, listener, wire, history, Pumping, IInv, Typed
  <2>2. \A i \in Seat : peers'[i] # None => peers[i] # None
    BY <1>8 DEF GiveUp, listener
  <2>3. \A d \in Dialler \ {c} : /\ down'[d] = down[d]
                                 /\ ended[d] => ended'[d]
                                 /\ phase[d] = "closed" => phase'[d] = "closed"
                                 /\ conn'[d] = "up" => conn[d] = "up"
    BY <1>8, Numbers DEF GiveUp, wire, Pop, IInv, Typed
  <2>4. heard' = heard
    BY <1>8 DEF GiveUp, history
  <2>5. phase'[c] = "closed"
    BY <1>8, Numbers DEF GiveUp, IInv, Typed
  <2> QED
    BY <2>1, <2>2, <2>3, <2>4, <2>5, HeardByOne
<1>9. ASSUME NEW c \in Dialler, Garble(c)
      PROVE  Heard'
  <2>1. /\ arrived' = arrived /\ order' = order /\ heard' = heard /\ down' = down
        /\ phase'[Listener] # "opening" => phase[Listener] # "opening"
        /\ Pumping(Listener)' => Pumping(Listener)
    BY <1>9, Numbers DEF Garble, listener, wire, history, Pumping, MaySay, IInv, Typed
  <2>2. \A i \in Seat : peers'[i] # None => peers[i] # None
    BY <1>9 DEF Garble, listener
  <2>3. \A d \in Dialler : /\ ended[d] => ended'[d]
                           /\ phase[d] = "closed" => phase'[d] = "closed"
                           /\ conn'[d] = "up" => conn[d] = "up"
    BY <1>9, Numbers DEF Garble, wire, IInv, Typed
  <2> QED
    BY <2>1, <2>2, <2>3, HeardSame
<1>10. ASSUME NEW c \in Dialler, ConnectorSays(c)
      PROVE  Heard'
  <2>1. /\ arrived' = arrived /\ order' = order /\ heard' = heard /\ down' = down
        /\ phase'[Listener] # "opening" => phase[Listener] # "opening"
        /\ Pumping(Listener)' => Pumping(Listener)
    BY <1>10, Numbers DEF ConnectorSays, listener, wire, history, Pumping, MaySay, IInv, Typed
  <2>2. \A i \in Seat : peers'[i] # None => peers[i] # None
    BY <1>10 DEF ConnectorSays, listener
  <2>3. \A d \in Dialler : /\ ended[d] => ended'[d]
                           /\ phase[d] = "closed" => phase'[d] = "closed"
                           /\ conn'[d] = "up" => conn[d] = "up"
    BY <1>10, Numbers DEF ConnectorSays, wire, IInv, Typed
  <2> QED
    BY <2>1, <2>2, <2>3, HeardSame
<1>11. ASSUME NEW c \in Dialler, ConnectorCloses(c)
      PROVE  Heard'
  <2>1. /\ arrived' = arrived /\ order' = order
        /\ phase'[Listener] # "opening" => phase[Listener] # "opening"
        /\ Pumping(Listener)' => Pumping(Listener)
    BY <1>11, Numbers DEF ConnectorCloses, listener, wire, history, Pumping, IInv, Typed
  <2>2. \A i \in Seat : peers'[i] # None => peers[i] # None
    BY <1>11 DEF ConnectorCloses, listener
  <2>3. \A d \in Dialler \ {c} : /\ down'[d] = down[d]
                                 /\ ended[d] => ended'[d]
                                 /\ phase[d] = "closed" => phase'[d] = "closed"
                                 /\ conn'[d] = "up" => conn[d] = "up"
    BY <1>11, Numbers DEF ConnectorCloses, wire, Pop, IInv, Typed
  <2>4. heard' = heard
    BY <1>11 DEF ConnectorCloses, history
  <2>5. phase'[c] = "closed"
    BY <1>11, Numbers DEF ConnectorCloses, IInv, Typed
  <2> QED
    BY <2>1, <2>2, <2>3, <2>4, <2>5, HeardByOne
<1>12. ASSUME NEW c \in Dialler, GoodbyeArrives(c)
      PROVE  Heard'
  <2>1. /\ arrived' = arrived /\ order' = order /\ heard' = heard /\ down' = down
        /\ phase'[Listener] # "opening" => phase[Listener] # "opening"
        /\ Pumping(Listener)' => Pumping(Listener)
    BY <1>12, Numbers DEF GoodbyeArrives, listener, wire, history, Pumping, MaySay, IInv, Typed
  <2>2. \A i \in Seat : peers'[i] # None => peers[i] # None
    BY <1>12 DEF GoodbyeArrives, listener
  <2>3. \A d \in Dialler : /\ ended[d] => ended'[d]
                           /\ phase[d] = "closed" => phase'[d] = "closed"
                           /\ conn'[d] = "up" => conn[d] = "up"
    BY <1>12, Numbers DEF GoodbyeArrives, wire, IInv, Typed
  <2> QED
    BY <2>1, <2>2, <2>3, HeardSame
<1>13. ASSUME NEW c \in Dialler, LibraryNotices(c)
      PROVE  Heard'
  <2>1. /\ arrived' = arrived /\ order' = order /\ heard' = heard /\ down' = down
        /\ phase'[Listener] # "opening" => phase[Listener] # "opening"
        /\ Pumping(Listener)' => Pumping(Listener)
    BY <1>13, Numbers DEF LibraryNotices, listener, wire, history, Pumping, MaySay, IInv, Typed
  <2>2. \A i \in Seat : peers'[i] # None => peers[i] # None
    BY <1>13 DEF LibraryNotices, listener
  <2>3. \A d \in Dialler : /\ ended[d] => ended'[d]
                           /\ phase[d] = "closed" => phase'[d] = "closed"
                           /\ conn'[d] = "up" => conn[d] = "up"
    BY <1>13, Numbers DEF LibraryNotices, wire, IInv, Typed
  <2> QED
    BY <2>1, <2>2, <2>3, HeardSame
<1>14. ASSUME NEW c \in Dialler, AcceptEvent(c)
      PROVE  Heard'
  <2>1. phase'[Listener] = "opening"
    BY <1>14 DEF AcceptEvent, Accepting
  <2> QED
    BY <2>1 DEF Heard
<1>15. ASSUME NEW c \in Dialler, ListenerReceives(c)
      PROVE  Heard'
  <2>1. PICK i \in Seat : \E targets, reached \in SUBSET Seat : Relays(c, i, targets, reached)
    BY <1>15, Relayed
  <2>2. PICK targets \in SUBSET Seat, reached \in SUBSET Seat : Relays(c, i, targets, reached)
    BY <2>1
  <2>3. PICK m \in Msg : m = Head(up[c]).message /\ m.origin = i
    BY <2>2 DEF Relays
  <2>4. /\ Pumping(Listener) /\ arrived' = arrived /\ conn' = conn /\ peers' = peers
        /\ heard' = heard /\ phase' = phase
    BY <1>15 DEF ListenerReceives, listener
  <2>5. /\ order' = Append(order, m) /\ down' = DownTo(Reached(targets), Packet(i, FALSE, m))
        /\ i \notin targets
    BY <2>2, <2>3 DEF Relays
  <2>6. /\ \A d \in Dialler : ended'[d] = ended[d]
        /\ Pumping(Listener)' => Reached(targets) = targets
    BY <2>2, Numbers DEF Relays, Pumping, IInv, Typed
  <2>7. \A j \in Seat : peers[j] # None /\ j # i => j \in targets
    BY <2>2 DEF Relays
  <2> QED
    BY <2>3, <2>4, <2>5, <2>6, <2>7, PassedOn
<1>16. ASSUME NEW c \in Dialler, ListenerRefusesPacket(c)
      PROVE  Heard'
  <2>1. /\ arrived' = arrived /\ order' = order /\ heard' = heard /\ down' = down
        /\ phase'[Listener] # "opening" => phase[Listener] # "opening"
        /\ Pumping(Listener)' => Pumping(Listener)
    BY <1>16, Numbers DEF ListenerRefusesPacket, listener, wire, history, Pumping, MaySay, IInv, Typed
  <2>2. \A i \in Seat : peers'[i] # None => peers[i] # None
    BY <1>16 DEF ListenerRefusesPacket, listener
  <2>3. \A d \in Dialler : /\ ended[d] => ended'[d]
                           /\ phase[d] = "closed" => phase'[d] = "closed"
                           /\ conn'[d] = "up" => conn[d] = "up"
    BY <1>16, Numbers DEF ListenerRefusesPacket, wire, IInv, Typed
  <2> QED
    BY <2>1, <2>2, <2>3, HeardSame
<1>17. ASSUME NEW c \in Dialler, ListenerLoses(c)
      PROVE  Heard'
  <2>1. /\ arrived' = arrived /\ order' = order /\ heard' = heard /\ down' = down
        /\ phase'[Listener] # "opening" => phase[Listener] # "opening"
        /\ Pumping(Listener)' => Pumping(Listener)
    BY <1>17, Numbers DEF ListenerLoses, listener, wire, history, Pumping, MaySay, IInv, Typed
  <2>2. \A i \in Seat : peers'[i] # None => peers[i] # None
    BY <1>17 DEF ListenerLoses, listener
  <2>3. \A d \in Dialler : /\ ended[d] => ended'[d]
                           /\ phase[d] = "closed" => phase'[d] = "closed"
                           /\ conn'[d] = "up" => conn[d] = "up"
    BY <1>17, Numbers DEF ListenerLoses, wire, IInv, Typed
  <2> QED
    BY <2>1, <2>2, <2>3, HeardSame
<1>18. ASSUME NEW c \in Dialler, ListenerRefuses(c)
      PROVE  Heard'
  <2>1. /\ arrived' = arrived /\ order' = order
        /\ phase'[Listener] # "opening" => phase[Listener] # "opening"
        /\ Pumping(Listener)' => Pumping(Listener)
    BY <1>18, Numbers DEF ListenerRefuses, listener, wire, history, Pumping, IInv, Typed
  <2>2. \A i \in Seat : peers'[i] # None => peers[i] # None
    BY <1>18 DEF ListenerRefuses, listener
  <2>3. \A d \in Dialler \ {c} : /\ down'[d] = down[d]
                                 /\ ended[d] => ended'[d]
                                 /\ phase[d] = "closed" => phase'[d] = "closed"
                                 /\ conn'[d] = "up" => conn[d] = "up"
    BY <1>18, Severed DEF ListenerRefuses, IInv
  <2>4. heard' = heard
    BY <1>18 DEF ListenerRefuses, history
  <2>5. \A i \in DOMAIN arrived : arrived[i] # c
    BY <1>18, NewHere DEF ListenerRefuses, HasArrived, IInv
  <2> QED
    BY <2>1, <2>2, <2>3, <2>4, <2>5, HeardByOne
<1>19. ASSUME NEW c \in Dialler, Told(c)
      PROVE  Heard'
  <2>1. /\ arrived' = arrived /\ order' = order
        /\ phase'[Listener] # "opening" => phase[Listener] # "opening"
        /\ Pumping(Listener)' => Pumping(Listener)
    BY <1>19, Numbers DEF Told, listener, wire, history, Pumping, IInv, Typed
  <2>2. \A i \in Seat : peers'[i] # None => peers[i] # None
    BY <1>19 DEF Told, listener
  <2>3. \A d \in Dialler \ {c} : /\ down'[d] = down[d]
                                 /\ ended[d] => ended'[d]
                                 /\ phase[d] = "closed" => phase'[d] = "closed"
                                 /\ conn'[d] = "up" => conn[d] = "up"
    BY <1>19, Numbers DEF Told, wire, Pop, IInv, Typed
  <2>4. heard' = heard
    BY <1>19 DEF Told, history
  <2>5. ASSUME NEW i \in DOMAIN arrived, arrived[i] = c, HeardAt(i), ~ended'[c], phase'[c] # "closed"
        PROVE  Hears(i, order, heard'[i], down'[c], Live(i)')
    <3>1. PICK live \in BOOLEAN : live = Live(i)
      BY DEF Live
    <3>2. /\ Hears(i, order, heard[i], down[c], live) /\ order \in Seq(Msg) /\ heard[i] \in Seq(Msg)
          /\ down[c] \in Seq(Item) /\ First(down[c], "index") /\ down'[c] = Tail(down[c])
      <4>1. Hears(i, order, heard[i], down[c], Live(i)) /\ First(down[c], "index")
        BY <1>19, <2>5 DEF Told, HeardAt
      <4>2. down'[c] = Tail(down[c]) /\ down[c] \in Seq(Item) /\ order \in Seq(Msg)
        BY <1>19 DEF Told, Pop, IInv, Typed
      <4>3. heard[i] \in Seq(Msg)
        BY <2>5, Arrived DEF IInv, Typed
      <4> QED
        BY <3>1, <4>1, <4>2, <4>3 DEF Hears
    <3>3. DownShape(down[c], live)
      <4>1. live => conn[c] = "up" /\ phase[Listener] # "closed"
        BY <2>5, <3>1 DEF Live, Pumping
      <4> QED
        BY <4>1, Shapes DEF IInv, Stages
    <3>4. Hears(i, order, heard[i], Tail(down[c]), live)
      BY <3>2, <3>3, HearsPop
    <3>5. Live(i)' => live
      BY <1>19, <2>1, <2>2, <2>5, <3>1, Arrived DEF Live, Told, wire, IInv
    <3> QED
      BY <2>4, <3>2, <3>4, <3>5 DEF Hears
  <2> QED
    BY <2>1, <2>2, <2>3, <2>4, <2>5, HeardByOne
<1>20. ASSUME NEW c \in Dialler, Refused(c)
      PROVE  Heard'
  <2>1. /\ arrived' = arrived /\ order' = order
        /\ phase'[Listener] # "opening" => phase[Listener] # "opening"
        /\ Pumping(Listener)' => Pumping(Listener)
    BY <1>20, Numbers DEF Refused, listener, wire, history, Pumping, IInv, Typed
  <2>2. \A i \in Seat : peers'[i] # None => peers[i] # None
    BY <1>20 DEF Refused, listener
  <2>3. \A d \in Dialler \ {c} : /\ down'[d] = down[d]
                                 /\ ended[d] => ended'[d]
                                 /\ phase[d] = "closed" => phase'[d] = "closed"
                                 /\ conn'[d] = "up" => conn[d] = "up"
    BY <1>20, Numbers DEF Refused, wire, Pop, IInv, Typed
  <2>4. heard' = heard
    BY <1>20 DEF Refused, history
  <2>5. phase'[c] = "closed"
    BY <1>20, Numbers DEF Refused, IInv, Typed
  <2> QED
    BY <2>1, <2>2, <2>3, <2>4, <2>5, HeardByOne
<1>21. ASSUME NEW c \in Dialler, ConnectorReceives(c)
      PROVE  Heard'
  <2>1. /\ arrived' = arrived /\ order' = order
        /\ phase'[Listener] # "opening" => phase[Listener] # "opening"
        /\ Pumping(Listener)' => Pumping(Listener)
    BY <1>21, Numbers DEF ConnectorReceives, listener, wire, history, Pumping, IInv, Typed
  <2>2. \A i \in Seat : peers'[i] # None => peers[i] # None
    BY <1>21 DEF ConnectorReceives, listener
  <2>3. \A d \in Dialler \ {c} : /\ down'[d] = down[d]
                                 /\ ended[d] => ended'[d]
                                 /\ phase[d] = "closed" => phase'[d] = "closed"
                                 /\ conn'[d] = "up" => conn[d] = "up"
    BY <1>21, Numbers DEF ConnectorReceives, wire, Pop, IInv, Typed
  <2>4. ASSUME NEW i \in DOMAIN arrived, arrived[i] # c
        PROVE  heard'[i] = heard[i]
    <3>1. index[c] # i /\ i \in Seat
      BY <2>4, <1>21, Arrived DEF ConnectorReceives, Pumping, IInv, Stages, Stage
    <3> QED
      BY <1>21, <3>1 DEF ConnectorReceives, IInv, Typed
  <2>5. ASSUME NEW i \in DOMAIN arrived, arrived[i] = c, HeardAt(i), ~ended'[c], phase'[c] # "closed"
        PROVE  Hears(i, order, heard'[i], down'[c], Live(i)')
    <3>1. PICK live \in BOOLEAN : live = Live(i)
      BY DEF Live
    <3>2. i \in Seat /\ index[c] = i
      BY <2>5, <1>21, Arrived DEF ConnectorReceives, Pumping, IInv, Stages, Stage, Arrivals
    <3>3. PICK part \in Seq(DOMAIN order) :
            /\ Enumerates(part, order, i) /\ Follows(part, order, heard[i], down[c], i)
            /\ live => Len(heard[i]) + Len(down[c]) - DownGap(down[c]) = Len(part)
      <4>1. Hears(i, order, heard[i], down[c], Live(i))
        BY <1>21, <2>5 DEF ConnectorReceives, HeardAt, Pumping
      <4> QED
        BY <3>1, <4>1 DEF Hears
    <3>4. /\ order \in Seq(Msg) /\ heard[i] \in Seq(Msg) /\ down[c] \in Seq(Item)
          /\ First(down[c], "packet") /\ down'[c] = Tail(down[c])
      BY <1>21, <3>2 DEF ConnectorReceives, Pop, IInv, Typed
    <3>5. DownShape(down[c], live)
      <4>1. live => conn[c] = "up" /\ phase[Listener] # "closed"
        BY <2>5, <3>1 DEF Live, Pumping
      <4> QED
        BY <4>1, Shapes DEF IInv, Stages
    <3>6. /\ Head(down[c]).origin # i /\ ~Head(down[c]).everyone
          /\ Hears(i, order, Append(heard[i], Head(down[c]).message), Tail(down[c]), live)
      BY <3>3, <3>4, <3>5, HearsHead
    <3>7. heard'[i] = Append(heard[i], Head(down[c]).message)
      <4>1. PICK fits : fits = Fits(c, Head(down[c]).origin)
        OBVIOUS
      <4>2. /\ ended' = [ended EXCEPT ![c] = ~fits]
            /\ heard' = IF fits THEN [heard EXCEPT ![i] = Append(heard[i], Head(down[c]).message)] ELSE heard
        BY <1>21, <3>2, <3>6, <4>1 DEF ConnectorReceives
      <4>3. fits
        BY <2>5, <4>2, Numbers DEF IInv, Typed
      <4> QED
        BY <3>2, <4>2, <4>3 DEF IInv, Typed
    <3>8. Live(i)' => live
      BY <1>21, <2>1, <2>5, <3>1 DEF Live, ConnectorReceives, listener
    <3> QED
      BY <3>4, <3>6, <3>7, <3>8 DEF Hears
  <2> QED
    BY <2>1, <2>2, <2>3, <2>4, <2>5, HeardByOne
<1>22. ASSUME NEW c \in Dialler, ConnectorLoses(c)
      PROVE  Heard'
  <2>1. /\ arrived' = arrived /\ order' = order /\ heard' = heard /\ down' = down
        /\ phase'[Listener] # "opening" => phase[Listener] # "opening"
        /\ Pumping(Listener)' => Pumping(Listener)
    BY <1>22, Numbers DEF ConnectorLoses, listener, wire, history, Pumping, MaySay, IInv, Typed
  <2>2. \A i \in Seat : peers'[i] # None => peers[i] # None
    BY <1>22 DEF ConnectorLoses, listener
  <2>3. \A d \in Dialler : /\ ended[d] => ended'[d]
                           /\ phase[d] = "closed" => phase'[d] = "closed"
                           /\ conn'[d] = "up" => conn[d] = "up"
    BY <1>22, Numbers DEF ConnectorLoses, wire, IInv, Typed
  <2> QED
    BY <2>1, <2>2, <2>3, HeardSame
<1>23. CASE UNCHANGED vars
  <2>1. /\ arrived' = arrived /\ order' = order /\ heard' = heard /\ down' = down /\ peers' = peers
        /\ phase' = phase /\ ended' = ended /\ conn' = conn
    BY <1>23 DEF vars, listener, wire, history
  <2> QED
    BY <2>1, HeardSame DEF Pumping
<1> QED
  BY <1>1, <1>2, <1>3, <1>4, <1>5, <1>6, <1>7, <1>8, <1>9, <1>10, <1>11, <1>12, <1>13, <1>14, <1>15, <1>16, <1>17, <1>18, <1>19, <1>20, <1>21, <1>22, <1>23 DEF Next, ListenerPumps, ConnectorPumps

------------------------------------------------------------------------------
LEMMA InitIInv ==
  ASSUME Init
  PROVE  IInv
<1>1. Typed
  BY Numbers DEF Init, Typed, Item, Place
<1>2. phase[Listener] = "opening" /\ arrived = <<>> /\ \A c \in Dialler : phase[c] = "idle"
  BY Numbers DEF Init
<1>3. ~Pumping(Listener) /\ \A c : ~HasArrived(c)
  BY <1>2 DEF Pumping, HasArrived
<1>4. Arrivals
  BY <1>2, Numbers DEF Arrivals
<1>5. ASSUME NEW c \in Dialler
      PROVE  Stage(c)
  BY <1>2, <1>3, <1>5, Numbers DEF Init, Stage, ToListener, ToConnector
<1>6. Before
  BY <1>3, Numbers DEF Init, Before
<1>7. Seats
  BY <1>3 DEF Init, Seats
<1>8. Spoken
  BY <1>3 DEF Spoken
<1>9. Distinct /\ Heard
  BY <1>2 DEF Init, Distinct, Heard
<1> QED
  BY <1>1, <1>4, <1>5, <1>6, <1>7, <1>8, <1>9 DEF IInv, Stages

LEMMA IInvStep ==
  ASSUME IInv, [Next]_vars
  PROVE  IInv'
BY TypedStep, ArrivalsStep, StagesStep, BeforeStep, SeatsStep, SpokenStep, DistinctStep, HeardStep DEF IInv

\* In every state of the hub, for any number of places and processes: seats are
\* given out once and kept by those who arrived, what each place has said is in
\* the order or on its way without a gap, and what a connector has heard and is
\* still to hear is the order without its own part (EnetHub::Impl).
THEOREM HubInvariant == Spec => []IInv
<1>1. Init => IInv
  BY InitIInv
<1>2. IInv /\ [Next]_vars => IInv'
  BY IInvStep
<1> QED
  BY <1>1, <1>2, PTL DEF Spec

------------------------------------------------------------------------------
(* The hub implements RelayAbs.                                             *)

\* Four kinds of step: the others leave the order and what was heard alone.
LEMMA Moves ==
  ASSUME [Next]_vars
  PROVE  \/ order' = order /\ heard' = heard
         \/ ListenerSays
         \/ \E c \in Dialler : ListenerReceives(c)
         \/ \E c \in Dialler : ConnectorReceives(c)
<1>1. CASE AcceptExpires \/ Announce \/ ListenerCloses
  BY <1>1 DEF AcceptExpires, Announce, ListenerCloses, history
<1>2. CASE \E i \in Seat : ListenerTimesOut(i)
  BY <1>2 DEF ListenerTimesOut, history
<1>3. CASE \E p \in Process : Drain(p)
  BY <1>3 DEF Drain, history
<1>4. ASSUME NEW c \in Dialler,
             \/ Dial(c) \/ GiveUp(c) \/ Garble(c) \/ ConnectorSays(c) \/ ConnectorCloses(c)
             \/ GoodbyeArrives(c) \/ LibraryNotices(c)
      PROVE  order' = order /\ heard' = heard
  BY <1>4 DEF Dial, GiveUp, Garble, ConnectorSays, ConnectorCloses, GoodbyeArrives, LibraryNotices, history
<1>5. ASSUME NEW c \in Dialler,
             AcceptEvent(c) \/ ListenerRefusesPacket(c) \/ ListenerLoses(c) \/ ListenerRefuses(c)
      PROVE  order' = order /\ heard' = heard
  BY <1>5 DEF AcceptEvent, ListenerRefusesPacket, ListenerLoses, ListenerRefuses, history
<1>6. ASSUME NEW c \in Dialler, Told(c) \/ Refused(c) \/ ConnectorLoses(c)
      PROVE  order' = order /\ heard' = heard
  BY <1>6 DEF Told, Refused, ConnectorLoses, history
<1>7. CASE UNCHANGED vars
  BY <1>7 DEF vars, history
<1> QED
  BY <1>1, <1>2, <1>3, <1>4, <1>5, <1>6, <1>7 DEF Next, ListenerPumps, ConnectorPumps

\* A place's next broadcast is uttered.
LEMMA Utters ==
  ASSUME NEW p \in Place, NEW t \in Nat, SpokenTo(order, p, t),
         order' = Append(order, Message(p, t + 1)), heard' = heard
  PROVE  Relay!Utter(p)
<1>1. \A m : Relay!Message(p, m) = Message(p, m)
  BY DEF Relay!Message, Message
<1>2. \A n \in Nat : (\E x \in DOMAIN order : order[x] = Message(p, n)) <=> n \in 1 .. t
  BY DEF SpokenTo
<1>3. t + 1 \in {1} \cup {order[x].number + 1 : x \in DOMAIN order}
  <2>1. CASE t = 0
    BY <2>1
  <2>2. CASE t # 0
    <3>1. PICK x \in DOMAIN order : order[x] = Message(p, t)
      BY <2>2, <1>2
    <3>2. order[x].number = t
      BY <3>1, Messages
    <3> QED
      BY <3>2
  <2> QED
    BY <2>1, <2>2
<1>4. \A m \in 1 .. ((t + 1) - 1) : Relay!Uttered(Relay!Message(p, m))
  <2>1. ASSUME NEW m \in 1 .. ((t + 1) - 1)
        PROVE  \E x \in DOMAIN order : order[x] = Message(p, m)
    <3>1. m \in 1 .. t /\ m \in Nat
      OBVIOUS
    <3> QED
      BY <1>2, <3>1
  <2> QED
    BY <1>1, <2>1 DEF Relay!Uttered
<1>5. ~Relay!Uttered(Relay!Message(p, t + 1))
  <2>1. t + 1 \in Nat /\ t + 1 \notin 1 .. t
    OBVIOUS
  <2> QED
    BY <1>1, <1>2, <2>1 DEF Relay!Uttered
<1>6. order' = Append(order, Relay!Message(p, t + 1))
  BY <1>1
<1> QED
  BY <1>3, <1>4, <1>5, <1>6 DEF Relay!Utter

\* The message at the head of a channel is the first that the seat has not heard.
LEMMA HearsNext ==
  ASSUME Typed, Distinct, NEW i \in Seat, NEW part \in Seq(DOMAIN order),
         Enumerates(part, order, i),
         Len(heard[i]) <= Len(part), \A k \in DOMAIN heard[i] : heard[i][k] = order[part[k]],
         Len(heard[i]) + 1 \in DOMAIN part,
         heard' = [heard EXCEPT ![i] = Append(heard[i], order[part[Len(heard[i]) + 1]])],
         order' = order
  PROVE  Relay!Hear(i)
<1>1. PICK h \in Nat : h = Len(heard[i]) /\ DOMAIN heard[i] = 1 .. h
  BY DEF Typed
<1>2. PICK x \in DOMAIN order : x = part[h + 1]
  BY <1>1
<1>3. /\ DOMAIN part = 1 .. Len(part) /\ Len(part) \in Nat /\ h + 1 \in DOMAIN part
      /\ \A k \in 1 .. h : k \in DOMAIN part /\ k < h + 1
      /\ DOMAIN order \subseteq Nat
  BY <1>1 DEF Typed
<1>4. x \in Relay!Unheard(i)
  <2>1. order[x].origin # i
    BY <1>2, <1>3 DEF Enumerates
  <2>2. ASSUME NEW k \in DOMAIN heard[i]
        PROVE  heard[i][k] # order[x]
    <3>1. k \in DOMAIN part /\ k < h + 1 /\ heard[i][k] = order[part[k]]
      BY <1>1, <1>3
    <3>2. part[k] < part[h + 1] /\ part[k] \in DOMAIN order
      BY <1>3, <3>1 DEF Enumerates
    <3>3. part[k] # x
      BY <1>2, <1>3, <3>2
    <3> QED
      BY <3>1, <3>2, <3>3 DEF Distinct
  <2> QED
    BY <2>1, <2>2 DEF Relay!Unheard
<1>5. ASSUME NEW y \in Relay!Unheard(i)
      PROVE  x <= y
  <2>1. y \in DOMAIN order /\ order[y].origin # i /\ \A k \in DOMAIN heard[i] : heard[i][k] # order[y]
    BY DEF Relay!Unheard
  <2>2. PICK l \in DOMAIN part : part[l] = y
    BY <2>1 DEF Enumerates
  <2>3. l \notin 1 .. h
    BY <1>1, <2>1, <2>2
  <2>4. l = h + 1 \/ h + 1 < l
    BY <1>3, <2>3
  <2>5. CASE l = h + 1
    BY <1>2, <1>3, <2>2, <2>5
  <2>6. CASE h + 1 < l
    <3>1. part[h + 1] < part[l]
      BY <1>3, <2>6 DEF Enumerates
    <3> QED
      BY <1>2, <1>3, <2>1, <2>2, <3>1
  <2> QED
    BY <2>4, <2>5, <2>6
<1>6. heard' = [heard EXCEPT ![i] = Append(heard[i], order[x])]
  BY <1>1, <1>2
<1> QED
  BY <1>4, <1>5, <1>6 DEF Relay!Hear

\* A step of the hub is a step of the relay, or none.
LEMMA RelayStep ==
  ASSUME IInv, [Next]_vars
  PROVE  [Relay!Next]_(Relay!vars)
<1>0. Seat = Place \ {0} /\ 0 \in Place
  BY Numbers DEF Place
<1>1. CASE order' = order /\ heard' = heard
  BY <1>1 DEF Relay!vars
<1>2. CASE ListenerSays
  <2>1. /\ Pumping(Listener) /\ order' = Append(order, Message(0, said[Listener] + 1)) /\ heard' = heard
    BY <1>2 DEF ListenerSays, MaySay, Pumping
  <2>2. SpokenTo(order, 0, said[Listener]) /\ said[Listener] \in Nat /\ 0 \in Place
    BY <2>1, Numbers DEF IInv, Spoken, Typed
  <2>3. Relay!Utter(0)
    BY <2>1, <2>2, Utters
  <2> QED
    BY <1>0, <2>3 DEF Relay!Next
<1>3. ASSUME NEW c \in Dialler, ListenerReceives(c)
      PROVE  Relay!Next
  <2>1. PICK i \in Seat : \E targets, reached \in SUBSET Seat : Relays(c, i, targets, reached)
    BY <1>3, Relayed
  <2>2. PICK targets \in SUBSET Seat, reached \in SUBSET Seat : Relays(c, i, targets, reached)
    BY <2>1
  <2>3. PICK t \in Nat : SpokenTo(order, i, t) /\ Head(up[c]).message = Message(i, t + 1)
    BY <1>3, <2>2, Received
  <2>4. order' = Append(order, Message(i, t + 1)) /\ i \in Place /\ heard' = heard
    BY <1>3, <2>2, <2>3, Numbers DEF Relays, ListenerReceives
  <2>5. Relay!Utter(i)
    BY <2>3, <2>4, Utters
  <2> QED
    BY <2>4, <2>5 DEF Relay!Next
<1>4. ASSUME NEW c \in Dialler, ConnectorReceives(c)
      PROVE  [Relay!Next]_(Relay!vars)
  <2>1. PICK i \in Seat : i = index[c] /\ i \in DOMAIN arrived /\ arrived[i] = c
    BY <1>4, Arrived DEF ConnectorReceives, Pumping, IInv, Stages, Stage
  <2>2. /\ ~ended[c] /\ phase[c] # "closed" /\ First(down[c], "packet") /\ order' = order
        /\ phase[Listener] # "opening" /\ down[c] \in Seq(Item) /\ order \in Seq(Msg) /\ heard[i] \in Seq(Msg)
    <3>1. ~ended[c] /\ phase[c] # "closed" /\ First(down[c], "packet") /\ order' = order
      BY <1>4 DEF ConnectorReceives, Pumping
    <3>2. i \in Seat
      BY <2>1, Arrived DEF IInv
    <3>3. down[c] \in Seq(Item) /\ order \in Seq(Msg) /\ heard[i] \in Seq(Msg)
      BY <3>2 DEF IInv, Typed
    <3>4. phase[Listener] # "opening"
      <4>1. down[c] # <<>>
        BY <3>1 DEF First
      <4> QED
        BY <4>1 DEF IInv, Before
    <3> QED
      BY <3>1, <3>3, <3>4
  <2>3. PICK live \in BOOLEAN : live = Live(i)
    BY DEF Live
  <2>4. Hears(i, order, heard[i], down[c], live)
    BY <2>1, <2>2, <2>3 DEF IInv, Heard, HeardAt, Hears
  <2>5. PICK part \in Seq(DOMAIN order) :
          /\ Enumerates(part, order, i) /\ Follows(part, order, heard[i], down[c], i)
          /\ live => Len(heard[i]) + Len(down[c]) - DownGap(down[c]) = Len(part)
    BY <2>4 DEF Hears
  <2>6. DownShape(down[c], live)
    <3>1. live => conn[c] = "up" /\ phase[Listener] # "closed"
      BY <2>1, <2>3 DEF Live, Pumping
    <3> QED
      BY <3>1, Shapes DEF IInv, Stages
  <2>7. /\ Len(heard[i]) + 1 \in DOMAIN part
        /\ Head(down[c]).message = order[part[Len(heard[i]) + 1]]
        /\ Head(down[c]).origin # i /\ ~Head(down[c]).everyone
    <3>1. /\ First(down[c], "packet") /\ down[c] \in Seq(Item)
          /\ order \in Seq(Msg) /\ heard[i] \in Seq(Msg)
      BY <2>2
    <3>2. Enumerates(part, order, i) /\ Follows(part, order, heard[i], down[c], i)
      BY <2>5
    <3>3. live => Len(heard[i]) + Len(down[c]) - DownGap(down[c]) = Len(part)
      BY <2>5
    <3>4. PICK hrd \in Seq(Msg), chan \in Seq(Item) : hrd = heard[i] /\ chan = down[c]
      BY <3>1
    <3>5. /\ Follows(part, order, hrd, chan, i) /\ DownShape(chan, live) /\ First(chan, "packet")
          /\ live => Len(hrd) + Len(chan) - DownGap(chan) = Len(part)
      BY <2>6, <3>1, <3>2, <3>3, <3>4
    <3>6. order \in Seq(Msg)
      BY <3>1
    <3>7. /\ Len(hrd) + 1 \in DOMAIN part
          /\ Head(chan).message = order[part[Len(hrd) + 1]]
          /\ Head(chan).origin # i /\ ~Head(chan).everyone
          /\ Hears(i, order, Append(hrd, Head(chan).message), Tail(chan), live)
      BY <3>2, <3>5, <3>6, HearsHead
    <3> QED
      BY <3>4, <3>7
  <2>8. \/ heard' = heard
        \/ heard' = [heard EXCEPT ![i] = Append(heard[i], Head(down[c]).message)]
    BY <1>4, <2>1, <2>7 DEF ConnectorReceives
  <2>9. CASE heard' = heard
    BY <2>2, <2>9 DEF Relay!vars
  <2>10. CASE heard' = [heard EXCEPT ![i] = Append(heard[i], Head(down[c]).message)]
    <3>1. Len(heard[i]) <= Len(part) /\ \A k \in DOMAIN heard[i] : heard[i][k] = order[part[k]]
      BY <2>5 DEF Follows
    <3>2. Relay!Hear(i)
      BY <2>2, <2>5, <2>7, <2>10, <3>1, HearsNext DEF IInv
    <3> QED
      BY <1>0, <3>2 DEF Relay!Next
  <2> QED
    BY <2>8, <2>9, <2>10
<1> QED
  BY <1>1, <1>2, <1>3, <1>4, Moves

LEMMA RelayInit ==
  ASSUME Init
  PROVE  Relay!Init
BY Numbers DEF Init, Relay!Init, Place

\* The hub is a relay: whatever connections break, stall or close, and in
\* whatever order their events are taken, each end's broadcasts go out in its
\* order, and every connector files one and the same order of them
\* (EnetHub::Impl::receive, EnetHub::send).
THEOREM HubImplementsRelay == Spec => ImplementsRelay
<1>1. Init => Relay!Init
  BY RelayInit
<1>2. IInv /\ [Next]_vars => [Relay!Next]_(Relay!vars)
  BY RelayStep
<1>3. Spec => []IInv
  BY HubInvariant
<1> QED
  BY <1>1, <1>2, <1>3, PTL DEF Spec, ImplementsRelay, Relay!Spec

\* A new message in the order is never of a connector that was given up.
LEMMA SilentStep ==
  ASSUME IInv, [Next]_vars
  PROVE  \A x \in DOMAIN order' \ DOMAIN order : order'[x].origin \notin lost
<1>1. ASSUME NEW m \in Msg, order' = Append(order, m), m.origin \notin lost
      PROVE  \A x \in DOMAIN order' \ DOMAIN order : order'[x].origin \notin lost
  <2>1. \A x \in DOMAIN order' : x \in DOMAIN order \/ order'[x] = m
    BY <1>1, OneMore DEF IInv, Typed
  <2> QED
    BY <1>1, <2>1
<1>2. CASE order' = order
  BY <1>2
<1>3. CASE ListenerSays
  <2>1. order' = Append(order, Message(0, said[Listener] + 1))
    BY <1>3 DEF ListenerSays
  <2>2. 0 \in Place /\ 0 \notin lost /\ said[Listener] + 1 \in Nat
    BY Numbers DEF IInv, Typed
  <2>3. Message(0, said[Listener] + 1) \in Msg /\ Message(0, said[Listener] + 1).origin = 0
    BY <2>2, Messages
  <2> QED
    BY <1>1, <2>1, <2>2, <2>3
<1>4. ASSUME NEW c \in Dialler, ListenerReceives(c)
      PROVE  \A x \in DOMAIN order' \ DOMAIN order : order'[x].origin \notin lost
  <2>1. PICK i \in Seat : \E targets, reached \in SUBSET Seat : Relays(c, i, targets, reached)
    BY <1>4, Relayed
  <2>2. PICK targets \in SUBSET Seat, reached \in SUBSET Seat : Relays(c, i, targets, reached)
    BY <2>1
  <2>3. i \notin lost
    BY <2>2, Numbers DEF Relays, IInv, Seats
  <2>4. Head(up[c]).message \in Msg /\ Head(up[c]).message.origin = i /\ order' = Append(order, Head(up[c]).message)
    BY <2>2 DEF Relays
  <2> QED
    BY <1>1, <2>3, <2>4
<1>5. ASSUME NEW c \in Dialler, ConnectorReceives(c)
      PROVE  order' = order
  BY <1>5 DEF ConnectorReceives
<1> QED
  BY <1>2, <1>3, <1>4, <1>5, Moves

\* Nothing is passed on from a connector that the listener gave up, even what
\* had arrived and was not read yet (EnetHub::Impl::lose).
THEOREM LostStaySilent == Spec => LostIsSilent
<1>1. IInv /\ [Next]_vars => [\A x \in DOMAIN order' \ DOMAIN order : order'[x].origin \notin lost]_vars
  BY SilentStep
<1> QED
  BY <1>1, HubInvariant, PTL DEF Spec, LostIsSilent
==============================================================================
