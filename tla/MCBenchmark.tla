---------------------------- MODULE MCBenchmark ----------------------------
(* A small instance of Benchmark for TLC: one flow, or three on two workers,  *)
(* and a stranger's device list on the network.                               *)
EXTENDS Benchmark

MCArguments ==
  {[operations |-> 1, concurrency |-> 2, keep_db |-> FALSE],
   [operations |-> 3, concurrency |-> 2, keep_db |-> TRUE]}
MCDomain == <<9>>
MCFlows == {0, 1} \X {0, 1, 2}
MCDevices == {device_key(f[1], f[2]) : f \in MCFlows}
Stranger == 99
MCAccounts == {account_key(f[1], f[2]) : f \in MCFlows} \cup {UnknownKey, Stranger}
MCKeyPackages == {keypackage_payload(f[1], f[2]) : f \in MCFlows}
MCPayloads == {account_payload(1, <<>>), account_payload(2, <<>>)}
MCMessages == {signed("account", Stranger, account_payload(1, <<>>))}
MCSubmissions ==
  {malformed} \cup UNION {{posts(f[1], f[2])[i].body : i \in {1, 3, 5, 6}} : f \in MCFlows}

\* Nobody on this network signs with the flows' keys.
ASSUME MCKeysUnused == KeysUnused
=============================================================================
