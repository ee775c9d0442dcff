------------------------------ MODULE MCConfig ------------------------------
(* A four-bit machine for Config: a day is 2 s, a second 2 ms.  One day fits; *)
(* four days overflow u64 milliseconds, eight u64 seconds; a limit of eight   *)
(* is negative as an i64.                                                     *)
EXTENDS Config

MCRetentionDays == {0, 1, 4, 5, 8}
MCMaxPerIdentity == {0, 1, 7, 8}
MCPruneIntervals == {0, 1}
=============================================================================
