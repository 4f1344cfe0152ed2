---------------------------- MODULE MCGameServer ----------------------------
(***************************************************************************)
(* GameServer for TLC.                                                     *)
(***************************************************************************)
EXTENDS GameServer, TLC

\* Players, connections and session ids are interchangeable.
Symmetry == Permutations(Players) \cup Permutations(Conns) \cup Permutations(Sids)

=============================================================================
