--------------------------- MODULE StoreRefinement ---------------------------
(***************************************************************************)
(* Store implements Registry.  A call takes effect in the store when its    *)
(* INSERT of a keypackage or its COMMIT is executed, or at its SELECT when  *)
(* the row found there refuses it; it is taken back when its transaction is *)
(* dropped.  The prune task is not a caller: its DELETEs are expiries.      *)
(***************************************************************************)
EXTENDS StoreInvariants

pendingCalls == [h \in Handlers |-> IF pc[h] \in {"idle", "rollback"} THEN None ELSE call[h]]

givenAnswers == [h \in Handlers |-> IF pc[h] = "return" THEN outcome[h] ELSE "none"]

servedCalls == {e.call : e \in acked}

Higher(p, q) == payload_lamport(p) > payload_lamport(q)

Longer(p, q) == IsStrictPrefix(q, p)

R == INSTANCE Registry WITH
       Callers <- Handlers, Stamps <- Time, Volatile <- is_memory,
       Newer <- Higher, Extends <- Longer,
       pending <- pendingCalls, answer <- givenAnswers, served <- servedCalls

\* store.rs is linearizable: although each method is several statements at
\* whose awaits other methods, prunes, cancellations, errors and restarts come
\* in between, each call acts at one instant on the rows of that instant.
ImplementsRegistry == R!Spec
=============================================================================
