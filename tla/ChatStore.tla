----------------------------- MODULE ChatStore -----------------------------
(***************************************************************************)
(* The whole process: main.rs (start-up, prune task, shutdown), the HTTP   *)
(* handlers and the logos-delivery ingest thread (delivery.rs), composed   *)
(* with the Store they share.  Each handler and the ingest thread is a     *)
(* task of Store; a step here is a step of Store together with what the    *)
(* caller does, so ChatStore implements Store.                             *)
(***************************************************************************)
EXTENDS Bundle

CONSTANTS
  Ingest,        \* the delivery-ingest thread
  Submissions,   \* POST bodies clients may send, v1 paths included
  Messages,      \* messages on the network, any number of copies of each
  no_delivery,   \* the --no-delivery flag
  MaxInbound     \* bound on the inbound queue

Http == Handlers \ {Ingest}

ASSUME CallersAssumption ==
  /\ Ingest \in Handlers
  /\ Cancellable \subseteq Http
  /\ no_delivery \in BOOLEAN
  /\ MaxInbound \in Nat
  /\ None \notin Submissions \cup Messages
ASSUME RepliesAssumption ==
  None \notin [of : Submissions \cup Messages,
               result : {"Ok", "Invalid", "MalformedLog", "Stale", "Forked", "Internal"}]
ASSUME AdmittedAssumption ==
  \A s \in Submissions \cup Messages : admit(s) = "Ok" => apply(s) \in Calls

VARIABLES
  phase,     \* how far main and delivery::start have come; "down": no process
  inbound,   \* the node's queue to the ingest thread
  queue,     \* whether the node still has its end of the queue
  request,   \* task -> the submission it is serving, or None
  reply      \* task -> its last submission and the result, as its caller saw it

service == <<phase, inbound, queue, request, reply>>
allVars == <<vars, service>>

\* main from Store::open to axum::serve; delivery::start is the middle four.
Running == {"opened", "node", "keypackages", "accounts", "started", "serving", "draining"}

\* Store's types, and the lifecycle, queue and answers of main.rs, delivery.rs
\* and the handlers have theirs.
ServiceTypeOK ==
  /\ TypeOK
  /\ phase \in Running \cup {"down"}
  /\ inbound \in Seq(Messages) /\ Len(inbound) <= MaxInbound
  /\ queue \in {"open", "closed"}
  /\ request \in [Handlers -> Submissions \cup Messages \cup {None}]
  /\ reply \in [Handlers -> [of : Submissions \cup Messages,
                 result : {"Ok", "Invalid", "MalformedLog", "Stale", "Forked", "Internal"}]
                 \cup {None}]

ServiceInit ==
  /\ Init
  /\ phase = "down"
  /\ inbound = <<>> /\ queue = "open"
  /\ request = [t \in Handlers |-> None]
  /\ reply = [t \in Handlers |-> None]

-----------------------------------------------------------------------------
(* main: start-up and shutdown.                                             *)

\* One step of start-up: it waits for something outside the process (the
\* database file, the node, a subscription, the socket).
Advance(from, to) ==
  /\ phase = from
  /\ phase' = to
  /\ UNCHANGED <<vars, inbound, queue, request, reply>>

\* A faulty variant: the database is created anew at every start.
openRecreates ==
  /\ phase = "down" /\ phase' = "opened"
  /\ keypackages' = {}
  /\ account_bundles' = [a \in Accounts |-> NoRow]
  /\ account_logs' = [a \in Accounts |-> NoRow]
  /\ UNCHANGED <<locks, locals, now, acked, inbound, queue, request, reply>>

open            == Advance("down", "opened")
skipDelivery    == no_delivery /\ Advance("opened", "started")
startNode       == ~no_delivery /\ Advance("opened", "node")
subscribeKeys   == Advance("node", "keypackages")
subscribeAccts  == Advance("keypackages", "accounts")
spawnIngest     == Advance("accounts", "started")
bind            == Advance("started", "serving")
shutdown_signal == Advance("serving", "draining")

\* Everything in memory goes; the tables of a file stay.
Down ==
  /\ ProcessEnds
  /\ phase' = "down"
  /\ inbound' = <<>> /\ queue' = "open"
  /\ request' = [t \in Handlers |-> None]
  /\ UNCHANGED reply

\* `?` in main: the node, a subscription, the thread or the socket failed.
startFails == phase \in Running \ {"serving", "draining"} /\ Down

\* Graceful shutdown waits for the requests, not for the ingest thread or the
\* prune task, which end wherever they are.
exit == phase = "draining" /\ (\A h \in Http : request[h] = None) /\ Down

kill == "crash" \in Faults /\ phase # "down" /\ Down

-----------------------------------------------------------------------------
(* Submissions.                                                             *)

Replied(t, s, r) == reply' = [reply EXCEPT ![t] = [of |-> s, result |-> r]]

\* A submission is decoded and verified; it enters the store or is refused.
Serve(t, s) ==
  /\ pc[t] = "idle"
  /\ IF admit(s) = "Ok"
     THEN /\ Submit(t, apply(s))
          /\ request' = [request EXCEPT ![t] = s]
          /\ reply' = [reply EXCEPT ![t] = None]
     ELSE /\ Replied(t, s, admit(s))
          /\ UNCHANGED <<vars, request>>

\* The POST handlers; the last is v1's submit_account.
submit_key_package(h, s) == s.kind = "keypackage" /\ Serve(h, s)
submit_account(h, s)     == s.kind = "account" /\ Serve(h, s)
submit_account_log(h, s) == s.kind = "log" /\ Serve(h, s)

post(h, s) ==
  /\ phase = "serving"
  /\ submit_key_package(h, s) \/ submit_account(h, s) \/ submit_account_log(h, s)
  /\ UNCHANGED <<phase, inbound, queue>>

Subscribed(kind) ==
  /\ ~no_delivery
  /\ \/ kind = "keypackage" /\ phase \in Running \ {"opened", "node"}
     \/ kind = "account" /\ phase \in Running \ {"opened", "node", "keypackages"}

\* The node's callback: the network may lose, repeat and reorder messages.
deliver(m) ==
  /\ Subscribed(m.kind) /\ queue = "open"
  /\ Len(inbound) < MaxInbound
  /\ inbound' = Append(inbound, m)
  /\ UNCHANGED <<vars, phase, queue, request, reply>>

\* The ingest thread takes one message at a time; an error is only logged.
ingest_keypackage(m) == m.kind = "keypackage" /\ Serve(Ingest, m)
ingest_account(m)    == m.kind = "account" /\ Serve(Ingest, m)

Ingesting == ~no_delivery /\ phase \in {"started", "serving", "draining"}

recv ==
  /\ Ingesting
  /\ inbound # <<>>
  /\ inbound' = Tail(inbound)
  /\ UNCHANGED <<phase, queue>>

ingestStopsAtError ==
  /\ recv
  /\ admit(Head(inbound)) = "Ok"
  /\ ingest_keypackage(Head(inbound)) \/ ingest_account(Head(inbound))

\* The loop asks whether the node is up before it takes what is queued.
ingestStopsWithNode ==
  /\ recv
  /\ queue = "open"
  /\ ingest_keypackage(Head(inbound)) \/ ingest_account(Head(inbound))

ingest ==
  /\ recv
  /\ ingest_keypackage(Head(inbound)) \/ ingest_account(Head(inbound))

\* The node gives up its end of the queue.  recv fails once what was queued is
\* taken: then the ingest thread ends and HTTP goes on alone.
nodeStops ==
  /\ "node" \in Faults
  /\ Ingesting /\ queue = "open"
  /\ queue' = "closed"
  /\ UNCHANGED <<vars, phase, inbound, request, reply>>

\* A faulty variant: what the store returned is passed on as it is.
respondRaw(t) ==
  /\ Return(t)
  /\ IF request[t] = None THEN UNCHANGED reply
     ELSE Replied(t, request[t], outcome[t])
  /\ request' = [request EXCEPT ![t] = None]
  /\ UNCHANGED <<phase, inbound, queue>>

\* The store method returns: the response is written, or the result logged.
respond(t) ==
  /\ Return(t)
  /\ IF request[t] = None THEN UNCHANGED reply
     ELSE Replied(t, request[t], result(outcome[t]))
  /\ request' = [request EXCEPT ![t] = None]
  /\ UNCHANGED <<phase, inbound, queue>>

\* The client is gone; axum drops the handler.
hangUp(h) ==
  /\ Cancel(h)
  /\ request' = [request EXCEPT ![h] = None]
  /\ UNCHANGED <<phase, inbound, queue, reply>>

\* Steps of Store in which no caller takes part.
prune    == phase # "down" /\ (PruneTick \/ Return(Pruner)) /\ UNCHANGED service
inStore(t) == (Acquire(t) \/ Statement(t) \/ BusyTimeout(t)) /\ UNCHANGED service
ioFault(t) == IoFault(t) /\ UNCHANGED service
clock      == (Tick \/ ClockSetBack) /\ UNCHANGED service

Starting == open \/ skipDelivery \/ startNode \/ subscribeKeys \/ subscribeAccts
              \/ spawnIngest \/ bind

ServiceNext ==
  \/ Starting \/ shutdown_signal \/ startFails \/ exit \/ kill
  \/ \E h \in Http, s \in Submissions : post(h, s)
  \/ \E m \in Messages : deliver(m)
  \/ ingest \/ nodeStops
  \/ \E t \in Handlers : respond(t)
  \/ \E h \in Http : hangUp(h)
  \/ prune
  \/ \E t \in Tasks : inStore(t) \/ ioFault(t)
  \/ clock

ServiceSpec == ServiceInit /\ [][ServiceNext]_allVars

\* As in Store; and the ingest thread and main's shutdown are not starved.
ServiceFairness ==
  /\ \A t \in Tasks :
       /\ SF_allVars(Acquire(t) /\ UNCHANGED service)
       /\ WF_allVars((Statement(t) \/ BusyTimeout(t)) /\ UNCHANGED service)
  /\ WF_allVars(Return(Pruner) /\ UNCHANGED service)
  /\ \A t \in Handlers : WF_allVars(respond(t))
  /\ WF_allVars(Starting)
  /\ WF_allVars(ingest)
  /\ WF_allVars(exit)

FairServiceSpec == ServiceSpec /\ ServiceFairness

-----------------------------------------------------------------------------
(* Properties.                                                              *)

\* The process uses the store as Store says: one call at a time per task, and
\* nothing of it survives the process but the tables.
ImplementsStore == Spec

\* What a well-formed and authentic submission is, said at once.
Genuine(s) ==
  /\ s.decodes /\ s.keyLen = 32 /\ s.sigLen = 64
  /\ s.key \in CurvePoints /\ s.by = s.key /\ s.over = s.payload
  /\ s.kind = "account" => payload_lamport(s.payload) \in Nat
  /\ s.kind = "log" => s.payload \in Logs

\* Proof of possession: whichever wire it came by, what is stored under a key
\* was signed by that key over exactly the stored bytes.
OnlyAuthenticStored ==
  LET Stored(kind, key, payload) ==
        \E s \in Submissions \cup Messages :
          s.kind = kind /\ s.key = key /\ s.payload = payload /\ Genuine(s)
  IN  /\ \A r \in keypackages : Stored("keypackage", r.device_id, r.bundle)
      /\ \A a \in Accounts : account_bundles[a] # NoRow =>
           Stored("account", a, account_bundles[a].payload)
      /\ \A a \in Accounts : account_logs[a] # NoRow =>
           Stored("log", a, account_logs[a].signed_log)

\* What the last answer of t says of the tables: 400 is for what is not genuine
\* and only for that; after 204 and 409 (stale) for an account a list at least
\* as new is stored; for a log, 204 means that the stored log begins with the
\* submitted one, stale that it goes on after it, forked that they part.
AnswerHolds(t) ==
  reply[t] # None =>
    LET s == reply[t].of
        r == reply[t].result
        row == account_bundles[s.key]
        log == fetch_account_log(s)
    IN  /\ status(r) = 400 <=> ~Genuine(s)
        /\ s.kind = "account" /\ r \in {"Ok", "Stale"} =>
             row # NoRow /\ payload_lamport(row.payload) >= payload_lamport(s.payload)
        /\ s.kind = "log" /\ r \in {"Ok", "Stale", "Forked"} =>
             /\ log # NoRow
             /\ IsPrefix(s.payload, log.signed_log) <=> r # "Forked"
             /\ r = "Stale" => s.payload # log.signed_log
             /\ ~IsStrictPrefix(log.signed_log, s.payload)

\* An account's row is past its retention and is taken by the prune.
Lapses(a) == expired(a, now - retention) /\ account_bundles'[a] = NoRow

\* The README's status codes are true when they are given, and stay true while
\* later requests, late duplicates from the network and restarts change the
\* tables; of a device list until it expires: only the prune of a row past its
\* retention ends what a 204 or a 409 said.
ResultsHonest ==
  [][\A t \in Handlers :
       AnswerHolds(t)' \/ /\ reply'[t] = reply[t]
                          /\ AnswerHolds(t) => /\ reply[t].of.kind = "account"
                                               /\ Lapses(reply[t].of.key)]_allVars

\* GET /v0/keypackage: "the most recently submitted bundle for that device_id,
\* or 404", asked with the spelling the accepted POST used.
AcceptedIsServed ==
  \A t \in Handlers :
    reply[t] # None /\ reply[t].of.kind = "keypackage" /\ reply[t].result = "Ok" =>
      fetch_key_package(Path(reply[t].of)) # {}

\* A message taken into the queue is ingested, whatever lies before it, whoever
\* else uses the store, and even if the node closes the queue behind it, unless
\* the process ends first.
InboundIngested ==
  \A m \in Messages :
    (m \in Range(inbound)) ~> (request[Ingest] = m \/ phase = "down"
                               \/ (reply[Ingest] # None /\ reply[Ingest].of = m))

\* main.rs only logs a failed prune: a pass that has begun with the keypackages
\* comes to the device lists, however prune_key_packages ended and whoever else
\* uses the store, unless the process ends first.
PruneGoesOn ==
  call[Pruner] = [op |-> "prune_key_packages"]
    ~> (call[Pruner] = [op |-> "prune_accounts"] \/ phase = "down")

\* Graceful shutdown ends: every request in flight is answered and the process
\* goes, although the prune task and the ingest thread keep using the store.
ShutdownCompletes == phase = "draining" ~> phase = "down"
=============================================================================
