----------------------------- MODULE MCEnetHub -----------------------------
(* A session of three ends and three processes that dial it.               *)
EXTENDS EnetHub

Relay == INSTANCE RelayAbs

\* ADR-0022 D1: whatever connections break, stall or close, and in whatever
\* order their events are taken, each end's broadcasts go out in its order, and
\* every connector files one and the same order of them (EnetHub::Impl::receive).
ImplementsRelay == Relay!Spec

\* From a connector the listener has given up on, nothing more is passed on
\* (EnetHub::Impl::lose): the session has agreed on what it said last.
LostIsSilent ==
  [][\A x \in DOMAIN order' \ DOMAIN order : order'[x].origin \notin lost]_vars

\* An end in the company of the dead: a listener that counts on a connector
\* that has gone, a connector whose listener has, or one waiting to be told.
Stranded(c) ==
  \/ Pumping(Listener) /\ IndexOf(c) # {} /\ phase[c] = "closed"
  \/ Pumping(c) /\ phase[Listener] = "closed"
  \/ phase[c] = "opening"

\* Nobody waits for the dead: by event or by deadline, whatever was lost on the
\* way (EnetHub::pump, connect).
LossIsNoticed == \A c \in Dialler : Stranded(c) ~> ~Stranded(c)
==============================================================================
