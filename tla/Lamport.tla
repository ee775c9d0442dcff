------------------------------ MODULE Lamport ------------------------------
(***************************************************************************)
(* The header of an account-device bundle (src/src/store.rs), which is all  *)
(* the server reads of a payload:                                           *)
(*                                                                          *)
(*     domain | version : one byte | lamport : u64, little-endian | ...     *)
(*                                                                          *)
(* Payloads are sequences of bytes.  A byte has ByteBase values and a u64   *)
(* LamportBytes bytes (256 and 8 in the code), so that a small instance     *)
(* reaches the largest lamport.                                             *)
(***************************************************************************)
EXTENDS Integers, Sequences, SequencesExt

CONSTANTS
  BUNDLE_DOMAIN,           \* the domain prefix, a sequence of bytes
  ByteBase, LamportBytes,  \* 256 and 8
  None                     \* Option::None, and nobody

ASSUME LamportAssumption ==
  /\ ByteBase \in Nat \ {0, 1}
  /\ LamportBytes \in Nat \ {0}
  /\ None \notin Nat

\* u64::MAX
MaxLamport == ByteBase ^ LamportBytes - 1

to_le_bytes(n) ==
  LET rest[i \in 1 .. LamportBytes] == IF i = 1 THEN n ELSE rest[i - 1] \div ByteBase
  IN  [i \in 1 .. LamportBytes |-> rest[i] % ByteBase]

from_le_bytes(bytes) ==
  LET value[i \in 1 .. Len(bytes) + 1] ==
        IF i > Len(bytes) THEN 0 ELSE bytes[i] + ByteBase * value[i + 1]
  IN  value[1]

\* A faulty variant: u64::from_be_bytes.
payload_lamportBigEndian(payload) ==
  IF IsPrefix(BUNDLE_DOMAIN, payload)
       /\ Len(payload) >= Len(BUNDLE_DOMAIN) + 1 + LamportBytes
  THEN from_le_bytes(Reverse(
         SubSeq(payload, Len(BUNDLE_DOMAIN) + 2, Len(BUNDLE_DOMAIN) + 1 + LamportBytes)))
  ELSE None

\* strip_prefix, then get(1..9): both fail with None.
payload_lamport(payload) ==
  IF IsPrefix(BUNDLE_DOMAIN, payload)
       /\ Len(payload) >= Len(BUNDLE_DOMAIN) + 1 + LamportBytes
  THEN from_le_bytes(
         SubSeq(payload, Len(BUNDLE_DOMAIN) + 2, Len(BUNDLE_DOMAIN) + 1 + LamportBytes))
  ELSE None

\* The client's side, as the benchmark encodes a device list.
account_payload(lamport, devices) ==
  BUNDLE_DOMAIN \o <<1>> \o to_le_bytes(lamport) \o devices
=============================================================================
