----------------------------- MODULE MCLockstep -----------------------------
(* Instances of Lockstep: two or three peers, everyone contending for the   *)
(* same cell at every tick.                                                 *)
EXTENDS Lockstep

MCPair == 0 .. 1
MCTrio == 0 .. 2
MCCells == 0 .. 6
MCSameTerms == [p \in Peer |-> "terms"]
MCNothing == {}
MCConnectors == {1, 2}

MCDelayOne == [p \in Peer |-> 1]
MCDelays == [p \in Peer |-> 1 + p]
MCDelayLast == [p \in Peer |-> IF p = 2 THEN 3 ELSE 1]
MCTwoTicks == {[p \in Peer |-> 2]}
MCFourTicks == {[p \in Peer |-> 4]}
MCLikeOrUnlike == {[p \in Peer |-> 3], [p \in Peer |-> 3 + p], [p \in Peer |-> 4 - p]}

MCCorrupt == {"Corrupt"}
MCDepartures == {"Crash", "Quit"}

\* Flipping the last byte of cell 0 or 1 gives the other, of cell 2 an invalid payload.
MCInvalid == {3}
MCContendSmall(p, tick) == <<tick % 3>>

MCContend(p, tick) == <<tick>>
==============================================================================
