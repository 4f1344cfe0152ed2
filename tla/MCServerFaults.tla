--------------------------- MODULE MCServerFaults ---------------------------
(***************************************************************************)
(* ServerFaults for TLC.                                                   *)
(***************************************************************************)
EXTENDS ServerFaults

=============================================================================
