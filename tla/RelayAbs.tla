------------------------------ MODULE RelayAbs ------------------------------
(***************************************************************************)
(* What a star promises the session above it: the listener brings every    *)
(* broadcast into one order, keeping the order of each speaker and leaving *)
(* none out, and every connector hears that order without its own part.    *)
(* An end may stop hearing; it never hears something else.                 *)
(***************************************************************************)
EXTENDS Integers, Sequences

CONSTANT Place  \* the places of the session, 0 the listener's

VARIABLES order,  \* every message the listener sent or passed on
          heard   \* what each connector has heard

vars == <<order, heard>>

\* The n-th broadcast of a place.
Message(place, n) == [origin |-> place, number |-> n]

Uttered(message) == \E x \in DOMAIN order : order[x] = message

\* Where the messages are that a place has still to hear.
Unheard(p) ==
  {x \in DOMAIN order : order[x].origin # p /\ \A k \in DOMAIN heard[p] : heard[p][k] # order[x]}

Init == order = <<>> /\ heard = [p \in Place \ {0} |-> <<>>]

\* The next broadcast of a place: its first, or one after a number that is in
\* the order, and those before it are all there.
Utter(p) ==
  \E n \in {1} \cup {order[x].number + 1 : x \in DOMAIN order} :
    /\ \A m \in 1 .. (n - 1) : Uttered(Message(p, m))
    /\ ~Uttered(Message(p, n))
    /\ order' = Append(order, Message(p, n))
    /\ UNCHANGED heard

\* The first message that a place has not heard.
Hear(p) ==
  \E x \in Unheard(p) :
    /\ \A y \in Unheard(p) : x <= y
    /\ heard' = [heard EXCEPT ![p] = Append(@, order[x])]
    /\ UNCHANGED order

Next == \/ \E p \in Place : Utter(p)
        \/ \E p \in Place \ {0} : Hear(p)

Spec == Init /\ [][Next]_vars
==============================================================================
