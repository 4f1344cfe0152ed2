-------------------------- MODULE MCStorageClients --------------------------
(***************************************************************************)
(* StorageClients for TLC.                                                 *)
(***************************************************************************)
EXTENDS StorageClients

\* One that feeds the timer thread, and one of MySQL.
SomeOps == {"lpush", "getPlayer"}

=============================================================================
