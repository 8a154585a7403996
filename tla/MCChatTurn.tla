----------------------------- MODULE MCChatTurn -----------------------------
(* Small instances of ChatTurn for TLC.                                    *)
EXTENDS ChatTurn

\* Every turn costs the same.
CONSTANT UnitCost
SameCost == [t \in Turns |-> UnitCost]
=============================================================================
