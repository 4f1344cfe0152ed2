--------------------------- MODULE MCLogicWorker ---------------------------
(***************************************************************************)
(* LogicWorker for TLC.                                                    *)
(***************************************************************************)
EXTENDS LogicWorker, TLC

\* One skill that needs its target in range and one that does not, with short
\* cooldowns.
Skills == 1 :> [cooldown |-> 2, ratio |-> 15, aoe |-> FALSE]
       @@ 2 :> [cooldown |-> 1, ratio |-> 8, aoe |-> TRUE]

\* Players, rooms and IO threads are interchangeable.
Symmetry == Permutations(Players) \cup Permutations(Rooms) \cup Permutations(IOThreads)

=============================================================================
