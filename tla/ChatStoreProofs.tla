-------------------------- MODULE ChatStoreProofs --------------------------
(***************************************************************************)
(* The process implements Store, so what is proved of Store holds of the   *)
(* running service.                                                        *)
(***************************************************************************)
EXTENDS ChatStore, StoreKeyPackageProofs, SequenceTheorems

\* The ingest thread only ever takes messages.
InboundType == inbound \in Seq(Messages)

\* The queue holds messages of the network and nothing else.
LEMMA InboundStep ==
  ASSUME InboundType, [ServiceNext]_allVars PROVE InboundType'
<1>1. ASSUME NEW m \in Messages, deliver(m) PROVE InboundType'
  BY <1>1 DEF deliver, InboundType
<1>2. CASE ingest
  BY <1>2 DEF ingest, recv, InboundType
<1>3. CASE startFails \/ exit \/ kill
  <2>1. inbound' = <<>>
    BY <1>3 DEF startFails, exit, kill, Down
  <2> QED
    BY <2>1 DEF InboundType
<1>4. CASE Starting \/ shutdown_signal
  BY <1>4 DEF Starting, open, skipDelivery, startNode, subscribeKeys, subscribeAccts,
    spawnIngest, bind, shutdown_signal, Advance, InboundType
<1>5. ASSUME NEW h \in Http, NEW s \in Submissions, post(h, s) PROVE InboundType'
  BY <1>5 DEF post, InboundType
<1>6. ASSUME NEW t \in Handlers, respond(t) \/ hangUp(t) PROVE InboundType'
  BY <1>6 DEF respond, hangUp, InboundType
<1>7. ASSUME NEW t \in Tasks, inStore(t) \/ ioFault(t) PROVE InboundType'
  BY <1>7 DEF inStore, ioFault, service, InboundType
<1>8. CASE prune \/ clock \/ nodeStops \/ UNCHANGED allVars
  BY <1>8 DEF prune, clock, nodeStops, service, allVars, InboundType
<1> QED
  BY <1>1, <1>2, <1>3, <1>4, <1>5, <1>6, <1>7, <1>8 DEF ServiceNext, Http

\* Every step of the process is a step of Store or leaves it alone.
LEMMA ServiceStep ==
  ASSUME "crash" \in Faults, InboundType, [ServiceNext]_allVars PROVE [Next]_vars
<1> USE CallersAssumption, TasksAssumption
<1>1. ASSUME NEW h \in Handlers, NEW s \in Submissions \cup Messages, Serve(h, s)
      PROVE  [Next]_vars
  BY <1>1, AdmittedAssumption DEF Serve, Next
<1>2. CASE Starting \/ shutdown_signal
  BY <1>2 DEF Starting, open, skipDelivery, startNode, subscribeKeys, subscribeAccts,
    spawnIngest, bind, shutdown_signal, Advance
<1>3. CASE startFails \/ exit \/ kill
  BY <1>3 DEF startFails, exit, kill, Down, Crash, Next
<1>4. ASSUME NEW h \in Http, NEW s \in Submissions, post(h, s) PROVE [Next]_vars
  BY <1>1, <1>4 DEF post, submit_key_package, submit_account, submit_account_log, Http
<1>5. ASSUME NEW m \in Messages, deliver(m) PROVE [Next]_vars
  BY <1>5 DEF deliver
<1>6. CASE ingest
  <2>1. Head(inbound) \in Messages
    BY <1>6 DEF ingest, recv, InboundType
  <2> QED
    BY <1>1, <1>6, <2>1 DEF ingest, ingest_keypackage, ingest_account
<1>7. ASSUME NEW t \in Handlers, respond(t) PROVE [Next]_vars
  BY <1>7 DEF respond, Next, Tasks
<1>8. ASSUME NEW h \in Http, hangUp(h) PROVE [Next]_vars
  BY <1>8 DEF hangUp, Next, Http
<1>9. CASE prune
  BY <1>9 DEF prune, Next, Tasks
<1>10. ASSUME NEW t \in Tasks, inStore(t) \/ ioFault(t) PROVE [Next]_vars
  BY <1>10 DEF inStore, ioFault, Next
<1>11. CASE clock
  BY <1>11 DEF clock, Next
<1>12. CASE nodeStops \/ UNCHANGED allVars
  BY <1>12 DEF nodeStops, allVars
<1> QED
  BY <1>2, <1>3, <1>4, <1>5, <1>6, <1>7, <1>8, <1>9, <1>10, <1>11, <1>12 DEF ServiceNext

\* main, the HTTP handlers and the ingest thread use the store as Store
\* describes it: the process, restarted at any point, implements Store.
THEOREM ServiceImplementsStore ==
  ASSUME "crash" \in Faults PROVE ServiceSpec => ImplementsStore
<1>1. ServiceInit => Init /\ InboundType
  BY DEF ServiceInit, InboundType
<1> QED
  BY <1>1, InboundStep, ServiceStep, PTL DEF ServiceSpec, ImplementsStore, Spec

-----------------------------------------------------------------------------
(* Admission.                                                               *)

\* The kinds of submission the handlers and the ingest thread serve, and the
\* errors of a refusal.
Kinds == {"keypackage", "account", "log"}
Refusals == {"Invalid", "MalformedLog"}

\* The first of three checks to fail names the error.
LEMMA FirstOfThree ==
  ASSUME NEW a, NEW b, NEW c, {a.error, b.error, c.error} \subseteq Refusals
  PROVE  /\ firstError(<<a, b, c>>) \in Refusals \cup {"Ok"}
         /\ firstError(<<a, b, c>>) = "Ok" <=> a.passes /\ b.passes /\ c.passes
  BY DEF firstError, Refusals

\* And so it is with four.
LEMMA FirstOfFour ==
  ASSUME NEW a, NEW b, NEW c, NEW d, {a.error, b.error, c.error, d.error} \subseteq Refusals
  PROVE  /\ firstError(<<a, b, c, d>>) \in Refusals \cup {"Ok"}
         /\ firstError(<<a, b, c, d>>) = "Ok" <=> a.passes /\ b.passes /\ c.passes /\ d.passes
  BY DEF firstError, Refusals

\* The checks of a log are those of its path, of its bytes and of its record.
LEMMA FourChecks ==
  ASSUME NEW a, NEW b, NEW c, NEW d PROVE <<a, b>> \o <<c, d>> = <<a, b, c, d>>
<1> DEFINE S == {a, b, c, d}
<1>1. <<a, b>> \in Seq(S) /\ <<c, d>> \in Seq(S) /\ <<a, b, c, d>> \in Seq(S)
  OBVIOUS
<1>2. /\ Len(<<a, b>> \o <<c, d>>) = 4
      /\ \A i \in 1 .. 4 : (<<a, b>> \o <<c, d>>)[i] = <<a, b, c, d>>[i]
  BY <1>1
<1>3. <<a, b>> \o <<c, d>> \in Seq(S)
  BY <1>1
<1> QED
  BY <1>1, <1>2, <1>3, SeqEqual

\* Admission refuses with a 400, and admits exactly what is genuine: the chain
\* of checks in bundle.rs forgets none and adds none.
LEMMA AdmitsGenuine ==
  ASSUME NEW s \in Submissions \cup Messages, s.kind \in Kinds
  PROVE  admit(s) \in Refusals \cup {"Ok"} /\ (admit(s) = "Ok" <=> Genuine(s))
<1> DEFINE own   == Check(verify_strict(s), "Invalid")
           folds == Check(s.payload \in Logs, "MalformedLog")
<1>0. {decode_bundle(s).error, from_bytes(s).error, verify(s).error, lamport(s).error,
       parse_addr(s).error, signed_log(s).error, own.error, folds.error} \subseteq Refusals
  BY DEF Check, decode_bundle, from_bytes, verify, lamport, parse_addr, signed_log, Refusals
<1>1. CASE s.kind = "keypackage"
  <2>1. admit(s) = firstError(<<decode_bundle(s), from_bytes(s), verify(s)>>)
    BY <1>1 DEF admit
  <2>2. /\ admit(s) \in Refusals \cup {"Ok"}
        /\ admit(s) = "Ok" <=>
             decode_bundle(s).passes /\ from_bytes(s).passes /\ verify(s).passes
    BY <1>0, <2>1, FirstOfThree
  <2> QED
    BY <1>1, <2>2 DEF Genuine, Check, decode_bundle, from_bytes, verify, verify_strict
<1>2. CASE s.kind = "account"
  <2>1. admit(s) = firstError(<<decode_bundle(s), from_bytes(s), verify(s), lamport(s)>>)
    BY <1>2 DEF admit
  <2>2. /\ admit(s) \in Refusals \cup {"Ok"}
        /\ admit(s) = "Ok" <=> /\ decode_bundle(s).passes /\ from_bytes(s).passes
                               /\ verify(s).passes /\ lamport(s).passes
    BY <1>0, <2>1, FirstOfFour
  \* The bundle that passes is a payload of the store, so its lamport is a number.
  <2>3. ASSUME admit(s) = "Ok" PROVE payload_lamport(s.payload) \in Nat
    BY <1>2, <2>3, AdmittedAssumption, DataAssumption DEF apply, Calls, InsertCalls, UpsertCalls,
      PutCalls
  <2> QED
    BY <1>2, <2>2, <2>3, LamportAssumption DEF Genuine, Check, decode_bundle, from_bytes,
      verify, verify_strict, lamport
<1>3. CASE s.kind = "log"
  <2>1. admit(s) = firstError(<<parse_addr(s), signed_log(s)>> \o <<own, folds>>)
    BY <1>3 DEF admit, AccountRecord
  <2>2. admit(s) = firstError(<<parse_addr(s), signed_log(s), own, folds>>)
    <3> HIDE DEF own, folds
    <3> QED
      BY <2>1, FourChecks
  <2>3. /\ admit(s) \in Refusals \cup {"Ok"}
        /\ admit(s) = "Ok" <=> /\ parse_addr(s).passes /\ signed_log(s).passes
                               /\ own.passes /\ folds.passes
    <3> HIDE DEF own, folds
    <3> QED
      BY <1>0, <2>2, FirstOfFour
  <2> QED
    BY <1>3, <2>3 DEF Genuine, Check, parse_addr, signed_log, verify_strict
<1> QED
  BY <1>1, <1>2, <1>3 DEF Kinds

-----------------------------------------------------------------------------
(* Types of the process.                                                    *)

\* What the service adds to Store's state.
AnswerTypes ==
  /\ request \in [Handlers -> Submissions \cup Messages \cup {None}]
  /\ reply \in [Handlers -> [of : Submissions \cup Messages,
                 result : {"Ok", "Invalid", "MalformedLog", "Stale", "Forked", "Internal"}]
                 \cup {None}]
CallerTypes ==
  /\ phase \in Running \cup {"down"}
  /\ queue \in {"open", "closed"}
  /\ InboundType /\ Len(inbound) <= MaxInbound
  /\ AnswerTypes

\* Steps of the store in which no caller takes part.
Uncalled ==
  \/ PruneTick \/ Return(Pruner)
  \/ \E t \in Tasks : Acquire(t) \/ Statement(t) \/ BusyTimeout(t) \/ IoFault(t)
  \/ Tick \/ ClockSetBack \/ UNCHANGED vars

\* A step of the process serves a submission, answers one, loses its client or
\* ends the process; or no caller takes part.
LEMMA Occasions ==
  ASSUME CallerTypes, [ServiceNext]_allVars
  PROVE  \/ Uncalled /\ UNCHANGED <<request, reply>>
         \/ \E t \in Handlers, s \in Submissions \cup Messages : s.kind \in Kinds /\ Serve(t, s)
         \/ \E t \in Handlers : respond(t) \/ hangUp(t)
         \/ Down
<1>1. ASSUME NEW h \in Http, NEW s \in Submissions, post(h, s)
      PROVE  h \in Handlers /\ s.kind \in Kinds /\ Serve(h, s)
  BY <1>1 DEF post, submit_key_package, submit_account, submit_account_log, Kinds, Http
<1>2. ASSUME ingest
      PROVE  Head(inbound) \in Messages /\ Head(inbound).kind \in Kinds /\ Serve(Ingest, Head(inbound))
  BY <1>2 DEF ingest, recv, ingest_keypackage, ingest_account, Kinds, CallerTypes, InboundType
<1>3. ASSUME Starting \/ shutdown_signal \/ nodeStops \/ UNCHANGED allVars
      PROVE  Uncalled /\ UNCHANGED <<request, reply>>
  BY <1>3 DEF Starting, open, skipDelivery, startNode, subscribeKeys, subscribeAccts,
    spawnIngest, bind, shutdown_signal, Advance, nodeStops, allVars, service, Uncalled
<1>4. ASSUME startFails \/ exit \/ kill PROVE Down
  BY <1>4 DEF startFails, exit, kill
<1>5. ASSUME prune \/ clock PROVE Uncalled /\ UNCHANGED <<request, reply>>
  BY <1>5 DEF prune, clock, service, Uncalled
<1>6. ASSUME NEW m \in Messages, deliver(m) PROVE Uncalled /\ UNCHANGED <<request, reply>>
  BY <1>6 DEF deliver, Uncalled
<1>7. ASSUME NEW t \in Tasks, inStore(t) \/ ioFault(t) PROVE Uncalled /\ UNCHANGED <<request, reply>>
  BY <1>7 DEF inStore, ioFault, service, Uncalled
<1> QED
  BY <1>1, <1>2, <1>3, <1>4, <1>5, <1>6, <1>7, CallersAssumption DEF ServiceNext, Http

\* Every step keeps the queue within its bound and the answers of their types.
LEMMA CallerTypesStep ==
  ASSUME CallerTypes, [ServiceNext]_allVars PROVE CallerTypes'
<1> USE DEF CallerTypes, AnswerTypes, InboundType
<1>1. (phase \in Running \cup {"down"})' /\ (queue \in {"open", "closed"})'
  <2>1. CASE Starting \/ shutdown_signal
    BY <2>1 DEF Starting, open, skipDelivery, startNode, subscribeKeys, subscribeAccts,
      spawnIngest, bind, shutdown_signal, Advance, Running
  <2>2. CASE startFails \/ exit \/ kill
    BY <2>2 DEF startFails, exit, kill, Down
  <2>3. CASE ingest \/ nodeStops \/ prune \/ clock \/ UNCHANGED allVars
    BY <2>3 DEF ingest, recv, nodeStops, prune, clock, service, allVars
  <2> QED
    BY <2>1, <2>2, <2>3 DEF ServiceNext, post, deliver, respond, hangUp, inStore, ioFault, service
<1>2. (Len(inbound) <= MaxInbound)'
  <2>1. ASSUME NEW m \in Messages, deliver(m) PROVE (Len(inbound) <= MaxInbound)'
    BY <2>1, CallersAssumption DEF deliver
  <2>2. CASE ingest
    BY <2>2, CallersAssumption DEF ingest, recv
  <2>3. CASE startFails \/ exit \/ kill
    <3>1. inbound' = <<>>
      BY <2>3 DEF startFails, exit, kill, Down
    <3> QED
      BY <3>1, CallersAssumption
  <2>4. CASE UNCHANGED inbound
    BY <2>4
  <2>5. ASSUME Starting \/ shutdown_signal \/ prune \/ clock \/ nodeStops \/ UNCHANGED allVars
        PROVE  UNCHANGED inbound
    BY <2>5 DEF Starting, open, skipDelivery, startNode, subscribeKeys, subscribeAccts,
      spawnIngest, bind, shutdown_signal, Advance, prune, clock, nodeStops, service, allVars
  <2> QED
    BY <2>1, <2>2, <2>3, <2>4, <2>5 DEF ServiceNext, post, respond, hangUp, inStore,
      ioFault, service
<1>3. AnswerTypes'
  <2>1. ASSUME NEW t \in Handlers, NEW s \in Submissions \cup Messages, s.kind \in Kinds,
               Serve(t, s)
        PROVE  AnswerTypes'
    BY <2>1, AdmitsGenuine DEF Serve, Replied, Refusals
  <2>2. ASSUME NEW t \in Handlers, respond(t) PROVE AnswerTypes'
    BY <2>2 DEF respond, Replied, result
  <2>3. ASSUME NEW t \in Handlers, hangUp(t) PROVE AnswerTypes'
    BY <2>3 DEF hangUp
  <2>4. CASE Down
    BY <2>4 DEF Down
  <2>5. CASE UNCHANGED <<request, reply>>
    BY <2>5
  <2> QED
    BY <2>1, <2>2, <2>3, <2>4, <2>5, Occasions
<1> QED
  BY <1>1, <1>2, <1>3, InboundStep

\* The process is type-correct: the queue of the ingest thread stays within its
\* bound and every answer of a handler is one of the results of bundle.rs.
THEOREM ServiceTypeCorrect ==
  ASSUME "crash" \in Faults PROVE ServiceSpec => []ServiceTypeOK
<1>1. ServiceInit => Init /\ CallerTypes
  BY CallersAssumption DEF ServiceInit, CallerTypes, AnswerTypes, InboundType
<1>2. CallerTypes => InboundType
  BY DEF CallerTypes
<1>3. TypeInv /\ CallerTypes => ServiceTypeOK
  BY DEF TypeInv, CallerTypes, AnswerTypes, InboundType, ServiceTypeOK
<1> QED
  BY <1>1, <1>2, <1>3, TypeInit, TypeStep, CallerTypesStep, ServiceStep, PTL DEF ServiceSpec

\* Hence a 204 for POST /v1/account is for ever, for the service as a whole with
\* a database file: no later request or restart loses or rewrites the log.
THEOREM ServiceKeepsLogs ==
  ASSUME "crash" \in Faults, ~is_memory PROVE ServiceSpec => []AckedLogExtended
<1>1. Durable
  BY DEF Durable
<1> QED
  BY <1>1, ServiceImplementsStore, AckedLogsExtended, PTL DEF ImplementsStore

\* A 204 for POST /v0/account or /v0/keypackage lasts for the retention, for the
\* service as a whole, while the clock is not set back: neither the other wire,
\* nor a prune, nor a restart takes the bundle away before.
THEOREM ServiceKeepsBundles ==
  ASSUME "crash" \in Faults, ~is_memory, "clock" \notin Faults, max_per_identity # 0
  PROVE  ServiceSpec => []AckedBundleProtected /\ []AckedKeyPackageServed
<1>1. Durable
  BY DEF Durable
<1> QED
  BY <1>1, ServiceImplementsStore, AckedBundlesProtected, AckedKeyPackagesServed, PTL
  DEF ImplementsStore

\* The two wires, the prune task and restarts together look to the clients like
\* one registry that serves one call at a time.
THEOREM ServiceImplementsRegistry ==
  ASSUME "crash" \in Faults PROVE ServiceSpec => ImplementsRegistry
  BY ServiceImplementsStore, StoreImplementsRegistry, PTL DEF ImplementsStore
=============================================================================
