-------------------------- MODULE MCSessionManager --------------------------
(***************************************************************************)
(* SessionManager for TLC.                                                 *)
(***************************************************************************)
EXTENDS SessionManager, TLC

\* Players, connections, ids and passwords are interchangeable.
Symmetry == Permutations(Players) \cup Permutations(Conns) \cup Permutations(Sids)
              \cup Permutations(Passwords)

=============================================================================
