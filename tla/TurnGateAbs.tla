----------------------------- MODULE TurnGateAbs -----------------------------
(***************************************************************************)
(* What the turn gate promises, without frontiers or bit windows: it       *)
(* remembers the SET of turns every expected source has completed, so the  *)
(* order in which marks arrive cannot matter, and a tick is ready exactly  *)
(* when it is in everybody's set.                                          *)
(***************************************************************************)
EXTENDS Integers, FiniteSets

CONSTANTS Source, Tick, Lookahead

VARIABLES completed,   \* expected source -> the ticks it has completed
          floor,       \* the first tick not yet run
          status       \* the answer of the last call

vars == <<completed, floor, status>>

Init == /\ completed = [s \in {} |-> {}]
        /\ floor = 0
        /\ status = "Ok"

\* Everything below the floor has run, so a newcomer owes none of it.
Expect(wanted) ==
  /\ completed' = [s \in wanted |-> IF s \in DOMAIN completed THEN completed[s]
                                    ELSE 0 .. (floor - 1)]
  /\ status' = "Ok"
  /\ UNCHANGED floor

Mark(s, t) ==
  /\ s \in DOMAIN completed
  /\ completed' = [completed EXCEPT ![s] = @ \cup {t}]
  /\ status' = "Ok"
  /\ UNCHANGED floor

\* Refused: a source nobody agreed to, or a turn so far ahead that the source has left
\* Lookahead ticks or more below it with one of them not completed.
Refuse(s, t) ==
  /\ IF s \notin DOMAIN completed
     THEN status' = "InvalidArgument"
     ELSE /\ \E gap \in 0 .. t : gap + Lookahead <= t /\ gap \notin completed[s]
          /\ status' = "OutOfRange"
  /\ UNCHANGED <<completed, floor>>

RefuseSet == /\ status' \in {"InvalidArgument", "OutOfRange"}
             /\ UNCHANGED <<completed, floor>>

\* Only a tick everybody has completed may be retired.
Retire(t) ==
  /\ \A s \in DOMAIN completed : 0 .. (t - 1) \subseteq completed[s]
  /\ floor' = IF t > floor THEN t ELSE floor
  /\ UNCHANGED <<completed, status>>

Next == \/ \E wanted \in SUBSET Source : Expect(wanted)
        \/ RefuseSet
        \/ \E s \in Source, t \in Tick : Mark(s, t) \/ Refuse(s, t)
        \/ \E t \in Tick : Retire(t)

Spec == Init /\ [][Next]_vars
==============================================================================
