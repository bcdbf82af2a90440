------------------------------ MODULE MCCrowd ------------------------------
(***************************************************************************)
(* Ten peers on a mesh with the default configuration and the code's own   *)
(* limits.  Ten is within kMaxPeers, and nothing fails.  The peers take    *)
(* turns at passes of the driver's loop, which poll, announce what is owed *)
(* and run what is ready; the last peer is slow and may miss a turn.       *)
(***************************************************************************)
EXTENDS Lockstep

VARIABLES turn,    \* whose pass of the loop it is
          polled   \* whether it has polled in this pass

MCTen == 0 .. 9
MCCells == 0 .. 2
MCNothing == {}
MCSameTerms == [p \in Peer |-> "terms"]
MCDefaultDelay == [p \in Peer |-> 2]
MCThreeTicks == {[p \in Peer |-> 3]}
MCQuiet(p, tick) == <<>>

Slow == 9

\* A pass of one peer's loop: it polls, announces what it owes, and runs what is
\* ready; then it is the next peer's turn.
Pass(p) ==
  \/ ~polled /\ Poll(p) /\ polled' = TRUE /\ UNCHANGED turn
  \/ polled /\ Announce(p) /\ UNCHANGED <<turn, polled>>
  \/ polled /\ ~OwesTurn(node[p]) /\ Step(p) /\ UNCHANGED <<turn, polled>>

MayPass(p) == polled /\ ~OwesTurn(node[p]) /\ ~MayStep(node[p])

NextTurn ==
  /\ MayPass(turn) \/ (turn = Slow /\ ~polled)
  /\ turn' = (turn + 1) % Cardinality(Peer)
  /\ polled' = FALSE
  /\ UNCHANGED vars

CrowdInit == Init /\ turn = 0 /\ polled = FALSE

CrowdSpec == CrowdInit /\ [][Pass(turn) \/ NextTurn]_<<vars, turn, polled>>

\* A peer that has more hash checks outstanding than kMaxPendingChecks is running
\* a different session (session.cpp:28-33): nobody refuses a check for that
\* reason when every peer is honest and nothing failed.
OnlyStrangersAreExhausting == \A p \in Peer : node[p].error # "Exhausted"
==============================================================================
