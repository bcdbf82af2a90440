------------------------------- MODULE EnetHub -------------------------------
(***************************************************************************)
(* The socket hub of engine/net: one listener, place 0 of the session, and *)
(* processes that dial it.  The listener gives out the other places once   *)
(* everybody has arrived and then relays every broadcast.                  *)
(*                                                                         *)
(* The socket library is external.  Between the listener and a process it  *)
(* keeps one reliable ordered channel each way, whose packets and whose    *)
(* CONNECT and DISCONNECT are taken in order, one event at a time; between *)
(* connections there is no order.  A process that closes drains its        *)
(* channel and says goodbye, or exceeds the budget and leaves a channel    *)
(* cut off, with what was queued sent or not.  What is on its way to a    *)
(* closed host is gone.                                                    *)
(***************************************************************************)
EXTENDS Integers, Sequences, FiniteSets

CONSTANTS Dialler,     \* the processes that dial, strangers among them: numbers
          Size,        \* expected_peers: the places, the listener's included
          Policies,    \* the values of EnetConfig::on_peer_lost: "End", "Drop"
          MaxInbox,    \* kMaxMessages: most messages an inbox holds
          MaxSaid,     \* bounds the broadcasts of everybody
          Garblers,    \* processes that may be a program that is not ours
          Slow,        \* processes that may miss a deadline while they live
          Listener, None

ASSUME HubAssumption ==
  /\ Size \in Nat /\ Size >= 2 /\ MaxInbox \in Nat /\ MaxSaid \in Nat
  /\ Policies \subseteq {"End", "Drop"}
  /\ Dialler \subseteq Nat /\ Listener \notin Dialler /\ None \notin Dialler

Process == Dialler \cup {Listener}
Seat == 1 .. Size - 1
Place == {0} \cup Seat

VARIABLES
  policy,   \* EnetConfig::on_peer_lost of the listener
  phase,    \* each process: idle, opening, open, broken or closed
  arrived,  \* the listener's: who connected, in order, while it accepts
  peers,    \* the listener's Impl::peers
  lost,     \* Impl::lost_peers
  index,    \* Impl::local of each dialler, 0 until it is told
  ended,    \* EnetStatus::ended of each process
  inbox,    \* how many messages of each place wait at each process
  conn,     \* the library's: none, up, or leaving (the goodbye was received)
  up, down, \* the channels of each dialler, to and from the listener
  said,     \* broadcasts of each process
  order,    \* history: what the listener sent or passed on
  heard     \* history: the broadcasts filed at each seat

listener == <<policy, arrived, peers, lost>>
wire == <<conn, up, down>>
history == <<said, order, heard>>
vars == <<phase, listener, index, ended, inbox, wire, history>>

Connect == [kind |-> "connect"]
Goodbye == [kind |-> "goodbye"]
Garbled == [kind |-> "garbled"]
YouAre(i) == [kind |-> "index", index |-> i]
Packet(origin, everyone, message) ==
  [kind |-> "packet", origin |-> origin, everyone |-> everyone, message |-> message]

Message(place, n) == [origin |-> place, number |-> n]

Empty == [i \in Place |-> 0]
Occupied == {c \in Dialler : conn[c] # "none"}
First(channel, kind) == channel # <<>> /\ Head(channel).kind = kind
Pop(channels, c) == [channels EXCEPT ![c] = Tail(@)]

Init == /\ policy \in Policies
        /\ phase = [p \in Process |-> IF p = Listener THEN "opening" ELSE "idle"]
        /\ arrived = <<>>
        /\ peers = [i \in Seat |-> None]
        /\ lost = {}
        /\ index = [c \in Dialler |-> 0]
        /\ ended = [p \in Process |-> FALSE]
        /\ inbox = [p \in Process |-> Empty]
        /\ conn = [c \in Dialler |-> "none"]
        /\ up = [c \in Dialler |-> <<>>]
        /\ down = [c \in Dialler |-> <<>>]
        /\ said = [p \in Process |-> 0]
        /\ order = <<>>
        /\ heard = [i \in Seat |-> <<>>]

------------------------------------------------------------------------------
(* Opening.                                                                 *)

\* connect: the host has room for as many connections as the session has seats.
\* Processes are alike until they arrive, and are numbered as they do.
Dial(c) ==
  /\ phase[c] = "idle"
  /\ \A d \in Dialler : d < c => phase[d] # "idle" /\ ~First(up[d], "connect")
  /\ phase[Listener] # "closed"
  /\ Cardinality(Occupied) < Size - 1
  /\ phase' = [phase EXCEPT ![c] = "opening"]
  /\ conn' = [conn EXCEPT ![c] = "up"]
  /\ up' = [up EXCEPT ![c] = <<Connect>>]
  /\ UNCHANGED <<listener, index, ended, inbox, down, history>>

\* connect gives up at its deadline, or the process dies: its hub has no peers
\* yet, so the host goes without a goodbye.
GiveUp(c) ==
  /\ phase[c] = "opening"
  /\ phase' = [phase EXCEPT ![c] = "closed"]
  /\ down' = [down EXCEPT ![c] = <<>>]
  /\ UNCHANGED <<listener, index, ended, inbox, conn, up, history>>

Garble(c) ==
  /\ c \in Garblers /\ phase[c] = "opening" /\ conn[c] = "up" /\ up[c] = <<>>
  /\ up' = [up EXCEPT ![c] = <<Garbled>>]
  /\ UNCHANGED <<phase, listener, index, ended, inbox, conn, down, history>>

Accepting == phase[Listener] = "opening" /\ Len(arrived) < Size - 1

\* The arrivals without one of them.
Leaving(c) ==
  LET at == CHOOSE n \in DOMAIN arrived : arrived[n] = c
  IN  [n \in 1 .. Len(arrived) - 1 |-> arrived[IF n < at THEN n ELSE n + 1]]

\* One turn of accept's loop: an arrival, a departure, or a packet of somebody
\* who has no place yet.
AcceptEvent(c) ==
  /\ Accepting /\ up[c] # <<>>
  /\ up' = Pop(up, c)
  /\ arrived' = CASE First(up[c], "connect") -> Append(arrived, c)
                  [] First(up[c], "goodbye") -> Leaving(c)
                  [] OTHER -> arrived
  /\ conn' = IF First(up[c], "goodbye") THEN [conn EXCEPT ![c] = "none"] ELSE conn
  /\ UNCHANGED <<phase, policy, peers, lost, index, ended, inbox, down, history>>

\* The deadline of accept.  The hub that goes has told nobody anything.
AcceptExpires ==
  /\ Accepting
  /\ phase' = [phase EXCEPT ![Listener] = "closed"]
  /\ UNCHANGED <<listener, index, ended, inbox, wire, history>>

\* Mutant: each arrival is told its seat at once.
AnnounceEarly ==
  LET n == Len(arrived)
  IN  /\ phase[Listener] = "opening" /\ n > 0
      /\ \A i \in Seat : peers[i] # arrived[n]
      /\ peers' = [peers EXCEPT ![n] = arrived[n]]
      /\ phase' = [phase EXCEPT ![Listener] = IF n = Size - 1 THEN "open" ELSE "opening"]
      /\ down' = [down EXCEPT ![arrived[n]] = Append(@, YouAre(n))]
      /\ UNCHANGED <<policy, arrived, lost, index, ended, inbox, conn, up, history>>

\* Everybody is here: seats in order of arrival.  A connection that has gone in
\* the meantime fails accept half way, and the hub that goes says goodbye to
\* those told, as far as its drain's budget reaches (ListenerCloses).
SeatsFrom(told) ==
  [i \in Seat |-> IF i <= told THEN arrived[i] ELSE None]

Announce ==
  LET reachable == {n \in 0 .. Size - 1 : \A i \in 1 .. n : conn[arrived[i]] = "up"}
      told == CHOOSE n \in reachable : \A m \in reachable : m <= n
      seat(c) == CHOOSE i \in 1 .. told : arrived[i] = c
      message(c, drained, sent) ==
        IF phase[c] = "closed" \/ \A i \in 1 .. told : arrived[i] # c THEN <<>>
        ELSE IF told = Size - 1 THEN <<YouAre(seat(c))>>
        ELSE IF c \in drained THEN <<YouAre(seat(c)), Goodbye>>
        ELSE IF c \in sent THEN <<YouAre(seat(c))>> ELSE <<>>
  IN  /\ phase[Listener] = "opening" /\ Len(arrived) = Size - 1
      /\ peers' = SeatsFrom(told)
      /\ phase' = [phase EXCEPT ![Listener] = IF told = Size - 1 THEN "open" ELSE "closed"]
      /\ \E drained, sent \in SUBSET Dialler :
           down' = [c \in Dialler |-> down[c] \o message(c, drained, sent)]
      /\ UNCHANGED <<policy, arrived, lost, index, ended, inbox, conn, up, history>>

\* The connector learns its seat, or that the listener went first.
Told(c) ==
  /\ phase[c] = "opening" /\ First(down[c], "index")
  /\ down' = Pop(down, c)
  /\ index' = [index EXCEPT ![c] = Head(down[c]).index]
  /\ phase' = [phase EXCEPT ![c] = "open"]
  /\ UNCHANGED <<listener, ended, inbox, conn, up, history>>

Refused(c) ==
  /\ phase[c] = "opening" /\ First(down[c], "goodbye")
  /\ down' = Pop(down, c)
  /\ phase' = [phase EXCEPT ![c] = "closed"]
  /\ UNCHANGED <<listener, index, ended, inbox, conn, up, history>>

------------------------------------------------------------------------------
(* Speaking.                                                                *)

\* One send after another; the first that fails is the last.
Reached(targets) ==
  {i \in targets : \A j \in targets : j <= i => peers[j] # None /\ conn[peers[j]] = "up"}

DownTo(seats, packet) ==
  [c \in Dialler |-> IF phase[c] # "closed" /\ \E i \in seats : peers[i] = c
                     THEN Append(down[c], packet) ELSE down[c]]

MaySay(p) ==
  /\ phase[p] = "open" /\ ~ended[p]
  /\ Cardinality({one \in Process \X (1 .. MaxSaid) : one[2] <= said[one[1]]}) < MaxSaid

\* A session whose broadcast fails has failed, and its hub is only closed.
ListenerSays ==
  LET message == Message(0, said[Listener] + 1)
      targets == Seat \ lost
  IN  /\ MaySay(Listener)
      /\ said' = [said EXCEPT ![Listener] = @ + 1]
      /\ order' = Append(order, message)
      /\ down' = DownTo(Reached(targets), Packet(0, FALSE, message))
      /\ phase' = [phase EXCEPT ![Listener] =
                     IF Reached(targets) = targets THEN "open" ELSE "broken"]
      /\ UNCHANGED <<listener, index, ended, inbox, conn, up, heard>>

\* Once, to the listener, for everyone.  Nobody reads the channel of a
\* connection that is gone.
ConnectorSays(c) ==
  /\ MaySay(c)
  /\ said' = [said EXCEPT ![c] = @ + 1]
  /\ up' = IF conn[c] = "up" /\ phase[Listener] # "closed"
           THEN [up EXCEPT ![c] =
                   Append(@, Packet(index[c], TRUE, Message(index[c], said[c] + 1)))]
           ELSE up
  /\ UNCHANGED <<phase, listener, index, ended, inbox, conn, down, order, heard>>

\* The session reads its inboxes.
Drain(p) ==
  /\ phase[p] = "open" /\ ~ended[p]
  /\ \E i \in Place : inbox[p][i] > 0
  /\ inbox' = [inbox EXCEPT ![p] = Empty]
  /\ UNCHANGED <<phase, listener, index, ended, wire, history>>

------------------------------------------------------------------------------
(* pump, at the listener.                                                   *)

Pumping(p) == phase[p] = "open" /\ ~ended[p]
IndexOf(c) == {i \in Seat : peers[i] = c}

\* deliver: an inbox that is full ends the hub.
Fits(p, origin) == inbox[p][origin] < MaxInbox
Filed(p, origin) == IF Fits(p, origin) THEN [inbox EXCEPT ![p][origin] = @ + 1] ELSE inbox

\* receive, with the framing checked; filed and forwarded in the same step.  An
\* overflow in deliver does not keep the message from the others.
ListenerReceives(c) ==
  LET packet == Head(up[c])
      targets(i) == {j \in Seat : packet.everyone /\ j # i /\ peers[j] # None}
      reached(i) == Reached(targets(i))
  IN  /\ Pumping(Listener) /\ First(up[c], "packet")
      /\ up' = Pop(up, c)
      /\ IF IndexOf(c) # {packet.origin}
         THEN /\ ended' = [ended EXCEPT ![Listener] = IndexOf(c) # {}]
              /\ UNCHANGED <<inbox, down, order>>
         ELSE LET i == packet.origin
              IN  /\ inbox' = Filed(Listener, i)
                  /\ down' = DownTo(reached(i), Packet(i, FALSE, packet.message))
                  /\ order' = Append(order, packet.message)
                  /\ ended' = [ended EXCEPT ![Listener] =
                                 ~Fits(Listener, i) \/ reached(i) # targets(i)]
      /\ UNCHANGED <<phase, listener, index, conn, said, heard>>

\* A packet that no hub of ours sends.  Of a connection without a seat it is
\* dropped unread.
ListenerRefusesPacket(c) ==
  /\ Pumping(Listener) /\ First(up[c], "garbled")
  /\ up' = Pop(up, c)
  /\ ended' = [ended EXCEPT ![Listener] = @ \/ IndexOf(c) # {}]
  /\ UNCHANGED <<phase, listener, index, inbox, conn, down, history>>

KeepsGoing == policy = "Drop"

\* enet_peer_disconnect_now: nothing more of the connection is dispatched, what
\* was queued for it may go, and a goodbye is tried once.
Sever(c) ==
  /\ conn' = [conn EXCEPT ![c] = "none"]
  /\ up' = [up EXCEPT ![c] = <<>>]
  /\ IF phase[c] = "closed" THEN UNCHANGED down
     ELSE \E left \in {<<>>, down[c]} :
            \E bye \in {<<>>, <<Goodbye>>} : down' = [down EXCEPT ![c] = left \o bye]

\* The library takes the goodbye off the channel: from here sending fails,
\* though the hub has not been told.
GoodbyeArrives(c) ==
  /\ phase[Listener] # "closed" /\ conn[c] = "up" /\ First(up[c], "goodbye")
  /\ conn' = [conn EXCEPT ![c] = "leaving"]
  /\ UNCHANGED <<phase, listener, index, ended, inbox, up, down, history>>

\* The DISCONNECT event.
ListenerLoses(c) ==
  /\ Pumping(Listener) /\ conn[c] = "leaving"
  /\ conn' = [conn EXCEPT ![c] = "none"]
  /\ up' = [up EXCEPT ![c] = <<>>]
  /\ peers' = [i \in Seat |-> IF peers[i] = c THEN None ELSE peers[i]]
  /\ IF IndexOf(c) # {} /\ KeepsGoing
     THEN lost' = lost \cup IndexOf(c) /\ UNCHANGED ended
     ELSE ended' = [ended EXCEPT ![Listener] = TRUE] /\ UNCHANGED lost
  /\ UNCHANGED <<phase, policy, arrived, index, inbox, down, history>>

Silent(c) == c \in Slow \/ (phase[c] = "closed" /\ up[c] = <<>>)

\* Mutant: the loss of a connector is only noted, and its connection kept.
ListenerTimesOutLax(i) ==
  /\ Pumping(Listener) /\ peers[i] # None
  /\ Silent(peers[i])
  /\ lost' = lost \cup {i}
  /\ UNCHANGED <<phase, policy, arrived, peers, index, ended, inbox, wire, history>>

\* Not heard from for peer_timeout: lost, or the end.
ListenerTimesOut(i) ==
  /\ Pumping(Listener) /\ peers[i] # None
  /\ Silent(peers[i])
  /\ IF KeepsGoing
     THEN /\ lost' = lost \cup {i}
          /\ peers' = [peers EXCEPT ![i] = None]
          /\ Sever(peers[i])
          /\ UNCHANGED ended
     ELSE /\ ended' = [ended EXCEPT ![Listener] = TRUE]
          /\ UNCHANGED <<peers, lost, wire>>
  /\ UNCHANGED <<phase, policy, arrived, index, inbox, history>>

\* Nobody joins a session under way.
ListenerRefuses(c) ==
  /\ Pumping(Listener) /\ First(up[c], "connect")
  /\ Sever(c)
  /\ UNCHANGED <<phase, listener, index, ended, inbox, history>>

\* The library notices by itself that a host has gone.
LibraryNotices(c) ==
  /\ phase[Listener] # "closed" /\ phase[c] = "closed"
  /\ conn[c] = "up" /\ \A n \in 1 .. Len(up[c]) : up[c][n] # Goodbye
  /\ up' = [up EXCEPT ![c] = Append(@, Goodbye)]
  /\ UNCHANGED <<phase, listener, index, ended, inbox, conn, down, history>>

------------------------------------------------------------------------------
(* pump, at a connector.                                                    *)

ConnectorReceives(c) ==
  LET packet == Head(down[c])
  IN  /\ Pumping(c) /\ First(down[c], "packet")
      /\ down' = Pop(down, c)
      /\ IF packet.origin = index[c] \/ packet.everyone
         THEN ended' = [ended EXCEPT ![c] = TRUE] /\ UNCHANGED <<inbox, heard>>
         ELSE /\ inbox' = Filed(c, packet.origin)
              /\ ended' = [ended EXCEPT ![c] = ~Fits(c, packet.origin)]
              /\ heard' = IF Fits(c, packet.origin)
                          THEN [heard EXCEPT ![index[c]] = Append(@, packet.message)]
                          ELSE heard
      /\ UNCHANGED <<phase, listener, index, conn, up, said, order>>

\* Mutant: only the library's event tells a connector that it is alone.
ConnectorLosesByEvent(c) ==
  /\ Pumping(c) /\ First(down[c], "goodbye")
  /\ ended' = [ended EXCEPT ![c] = TRUE]
  /\ UNCHANGED <<phase, listener, index, inbox, wire, history>>

\* Losing the listener ends a connector whatever the policy: by the goodbye, or
\* by its silence.
ConnectorLoses(c) ==
  /\ Pumping(c)
  /\ \/ First(down[c], "goodbye")
     \/ down[c] = <<>> /\ (phase[Listener] = "closed" \/ conn[c] = "none" \/ Listener \in Slow)
  /\ ended' = [ended EXCEPT ![c] = TRUE]
  /\ UNCHANGED <<phase, listener, index, inbox, wire, history>>

------------------------------------------------------------------------------
(* Closing: the destructor drains for at most kDrainBudget, then drops the  *)
(* host.  Packets that arrive meanwhile are thrown away.                    *)

ConnectorCloses(c) ==
  /\ phase[c] = "open"
  /\ phase' = [phase EXCEPT ![c] = "closed"]
  /\ IF conn[c] = "up" /\ phase[Listener] # "closed"
     THEN \E left \in {Append(up[c], Goodbye), up[c], <<>>} :
            up' = [up EXCEPT ![c] = left]
     ELSE UNCHANGED up
  /\ inbox' = [inbox EXCEPT ![c] = Empty]
  /\ down' = [down EXCEPT ![c] = <<>>]
  /\ UNCHANGED <<listener, index, ended, conn, history>>

ListenerCloses ==
  /\ phase[Listener] \in {"open", "broken"}
  /\ phase' = [phase EXCEPT ![Listener] = "closed"]
  /\ \E drained \in SUBSET Dialler, sent \in BOOLEAN :
       down' = [c \in Dialler |->
                  IF IndexOf(c) = {} \/ conn[c] # "up" \/ phase[c] = "closed" THEN down[c]
                  ELSE IF c \in drained THEN Append(down[c], Goodbye)
                  ELSE IF sent THEN down[c] ELSE <<>>]
  /\ inbox' = [inbox EXCEPT ![Listener] = Empty]
  /\ up' = [c \in Dialler |-> <<>>]
  /\ UNCHANGED <<listener, index, ended, conn, history>>

------------------------------------------------------------------------------
ListenerPumps(c) ==
  \/ AcceptEvent(c) \/ ListenerReceives(c) \/ ListenerRefusesPacket(c)
  \/ ListenerLoses(c) \/ ListenerRefuses(c)

ConnectorPumps(c) ==
  Told(c) \/ Refused(c) \/ ConnectorReceives(c) \/ ConnectorLoses(c)

Next ==
  \/ AcceptExpires \/ Announce \/ ListenerSays \/ ListenerCloses
  \/ \E i \in Seat : ListenerTimesOut(i)
  \/ \E p \in Process : Drain(p)
  \/ \E c \in Dialler :
       \/ Dial(c) \/ GiveUp(c) \/ Garble(c) \/ ConnectorSays(c) \/ ConnectorCloses(c)
       \/ GoodbyeArrives(c) \/ LibraryNotices(c)
       \/ ListenerPumps(c) \/ ConnectorPumps(c)

\* Each end polls while its hub is open, the deadlines run, and the library
\* delivers.  Nobody has to speak or to close.
Fairness ==
  /\ WF_vars(AcceptExpires) /\ WF_vars(Announce)
  /\ \A c \in Dialler :
       /\ WF_vars(ListenerPumps(c)) /\ WF_vars(ConnectorPumps(c))
       /\ WF_vars(GiveUp(c)) /\ WF_vars(GoodbyeArrives(c))
  /\ \A i \in Seat : WF_vars(ListenerTimesOut(i) /\ phase[peers[i]] = "closed")

Spec == Init /\ [][Next]_vars /\ Fairness
==============================================================================
