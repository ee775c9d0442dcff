------------------------------- MODULE Bundle -------------------------------
(***************************************************************************)
(* From a submission to a store call and back to a result                  *)
(* (src/src/bundle.rs and the decoding halves of handlers and delivery.rs).*)
(* A submission is a record:                                               *)
(*                                                                         *)
(*   kind     "keypackage", "account" (v0) or "log" (v1)                   *)
(*   decodes  its wire's encoding can be undone: hex and base64 of a JSON  *)
(*            body, a protobuf message, the v1 path (lower-case hex)       *)
(*   upper    the key was spelled with capital hex letters                 *)
(*   key, keyLen             the key and its length in bytes               *)
(*   payload                 the signed bytes                              *)
(*   by, over, sigLen        the signature: by which key, over which bytes *)
(*                                                                         *)
(* Devices and Accounts stand for the canonical lowercase hex of 32-byte   *)
(* keys, which is what key_hex yields and what the tables are keyed by.    *)
(***************************************************************************)
EXTENDS Store

CurvePoints == Devices \cup Accounts

Check(passes, error) == [passes |-> passes, error |-> error]

\* The `?` chain: the first check that fails names the error.
firstError(checks) ==
  LET failing == {i \in DOMAIN checks : ~checks[i].passes}
  IN  IF failing = {} THEN "Ok"
      ELSE checks[CHOOSE i \in failing : \A j \in failing : i <= j].error

decode_bundle(s) == Check(s.decodes, "Invalid")

from_bytes(s) == Check(s.keyLen = 32 /\ s.sigLen = 64, "Invalid")

verify_strictAnyKey(s) == s.over = s.payload

verify_strict(s) == s.by = s.key /\ s.over = s.payload

verify(s) == Check(s.key \in CurvePoints /\ verify_strict(s), "Invalid")

lamport(s) == Check(payload_lamport(s.payload) # None, "Invalid")

parse_addr(s) == Check(s.decodes /\ s.keyLen = 32 /\ s.key \in CurvePoints, "Invalid")

\* SignedAccountLog::from_bytes and AccountRecord::new of the account-log crate.
signed_log(s)    == Check(s.sigLen = 64, "MalformedLog")
AccountRecord(s) == <<Check(verify_strict(s), "Invalid"),
                      Check(s.payload \in Logs, "MalformedLog")>>

\* What is decided before the store takes its write lock.
admit(s) == firstError(
  CASE s.kind = "keypackage" -> <<decode_bundle(s), from_bytes(s), verify(s)>>
    [] s.kind = "account"    -> <<decode_bundle(s), from_bytes(s), verify(s), lamport(s)>>
    [] s.kind = "log"        -> <<parse_addr(s), signed_log(s)>> \o AccountRecord(s))

\* The store call of a bundle that passed, under the canonical key.
apply(s) ==
  CASE s.kind = "keypackage" -> [op |-> "insert", key |-> s.key, bundle |-> s.payload]
    [] s.kind = "account"    -> [op |-> "upsert_account", key |-> s.key, payload |-> s.payload]
    [] s.kind = "log"        -> [op |-> "put_account_log", key |-> s.key, signed_log |-> s.payload]

\* A faulty variant: whatever did not update the row is stale, a repetition too.
resultRepeatIsStale(o) ==
  CASE o = "Updated"                           -> "Ok"
    [] o \in {"Stale", "Behind", "Identical"}  -> "Stale"
    [] o = "Diverged"                          -> "Forked"
    [] OTHER                                   -> "Internal"

\* The result of apply_* for an outcome of the store.
result(o) ==
  CASE o \in {"Updated", "Identical"} -> "Ok"
    [] o \in {"Stale", "Behind"}      -> "Stale"
    [] o = "Diverged"                 -> "Forked"
    [] OTHER                          -> "Internal"

status(r) ==
  CASE r = "Ok"                           -> 204
    [] r \in {"Invalid", "MalformedLog"}  -> 400
    [] r \in {"Stale", "Forked"}          -> 409
    [] r = "Internal"                     -> 500

\* GET looks the path segment up as it was spelled.  The three GETs yield what
\* their SELECT finds; where a failing SELECT (500) matters to the one who asks,
\* in Benchmark, it is an action of its own.
Path(s) == [key |-> s.key, upper |-> s.upper]

fetch_key_package(path) == IF path.upper THEN {} ELSE latest(path.key)

fetch_account(path) == IF path.upper THEN NoRow ELSE get_account(path.key)

\* v1 refuses a path that is no address (400, not 404), in GET as in POST.
fetch_account_log(s) ==
  IF parse_addr(s).passes THEN get_account_log(s.key) ELSE parse_addr(s).error
=============================================================================
