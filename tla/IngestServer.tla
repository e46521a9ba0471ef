---------------------------- MODULE IngestServer ----------------------------
(***************************************************************************)
(* The ingest server: POST /v1/events and POST /v1/reports over the four   *)
(* Postgres tables of migrations/0001_init.sql (blankres-server).          *)
(*                                                                         *)
(* Every HTTP request runs as a task of its own, so two requests meet at   *)
(* any await.  A step of the model is a stretch between two awaits that    *)
(* touch the database.  A transaction is its first statement that takes    *)
(* the signature row's lock (from then on `row` holds the new row image,   *)
(* which no other transaction sees) and its COMMIT, which publishes it.    *)
(* A request that fails, or whose client hangs up, drops its task at an    *)
(* await: the open transaction rolls back, committed ones stay.            *)
(*                                                                         *)
(* Abstractions.  A table is a function from its primary key to its row,   *)
(* with the columns the decisions read.  An upload token is named by the   *)
(* event it was issued for (random_token never repeats).  The bytes of a   *)
(* payload are not here.  The fleet-token check, which only turns requests *)
(* away, is the precondition of every request.                             *)
(***************************************************************************)
EXTENDS Integers, Sequences, FiniteSets

CONSTANTS
    Signature,  \* crash signatures
    Event,      \* event ids, the UUIDs record_event draws (bounds the run)
    Report,     \* report ids, the UUIDs post_report draws (bounds the run)
    Handler,    \* request tasks
    Quota,      \* payloads_per_signature
    MaxBatch,   \* longest batch a client posts (bounds the run)
    None        \* nobody, nothing

ASSUME QuotaAssumption == Quota \in Int /\ MaxBatch \in Nat
ASSUME NoneAssumption == None \notin Handler \cup Event
ASSUME FiniteAssumption == IsFiniteSet(Event) /\ IsFiniteSet(Report)

VARIABLES
    signatures,     \* table: Signature -> [events, payloads, suppressed]
    events,         \* table: Event -> [signature, payload_wanted]
    upload_tokens,  \* table: Event -> [signature, redeemed, expired]
    reports,        \* table: Report -> [event_id, signature]
    lock,           \* lock[s]: the task whose transaction holds row s
    pc,             \* pc[h]: where task h is
    batch,          \* batch[h]: events of the request still to be handled
    row,            \* row[h]: the row image of h's open transaction
    current,        \* current[h]: the event (token) h is working for
    directives,     \* directives[h]: tokens in the response being built
    disclosed       \* tokens that left the server in a response

tables == <<signatures, events, upload_tokens, reports>>
tasks == <<pc, batch, row, current, directives>>
vars == <<tables, lock, tasks, disclosed>>

SignatureRow == [events : Nat, payloads : Nat, suppressed : BOOLEAN]
EventRow == [signature : Signature, payload_wanted : BOOLEAN]
TokenRow == [signature : Signature, redeemed : BOOLEAN, expired : BOOLEAN]
ReportRow == [event_id : Event, signature : Signature]

\* What stage 1 reads of a CrashEvent: its signature and whether the client
\* holds a core.
Request == [signature : Signature, core_available : BOOLEAN]
Batches == UNION {[1..n -> Request] : n \in 1..MaxBatch}

\* INSERT of a row, or UPDATE of one that exists.
Put(table, key, new) ==
    [k \in DOMAIN table \cup {key} |-> IF k = key THEN new ELSE table[k]]

NewRow == [events |-> 0, payloads |-> 0, suppressed |-> FALSE]
RowOf(s) == IF s \in DOMAIN signatures THEN signatures[s] ELSE NewRow

\* Bug variant: the comparison lets one payload too many be asked for.
NeedPayloadAtQuota(request, read) ==
    request.core_available /\ ~read.suppressed /\ read.payloads <= Quota

\* Bug variant: the operator's switch is not read.
NeedPayloadSuppressed(request, read) ==
    request.core_available /\ read.payloads < Quota

\* need_payload of record_event, from the row its upsert returned.
NeedPayload(request, read) ==
    request.core_available /\ ~read.suppressed /\ read.payloads < Quota

Init ==
    /\ signatures = <<>> /\ events = <<>> /\ upload_tokens = <<>> /\ reports = <<>>
    /\ lock = [s \in Signature |-> None]
    /\ pc = [h \in Handler |-> "idle"]
    /\ batch = [h \in Handler |-> <<>>]
    /\ row = [h \in Handler |-> NewRow]
    /\ current = [h \in Handler |-> None]
    /\ directives = [h \in Handler |-> {}]
    /\ disclosed = {}

-----------------------------------------------------------------------------
Goto(h, from, to) ==
    /\ pc[h] = from
    /\ pc' = [pc EXCEPT ![h] = to]

\* The task is over: its locals are gone and its transaction has ended.
Drop(h) ==
    /\ batch' = [batch EXCEPT ![h] = <<>>]
    /\ row' = [row EXCEPT ![h] = NewRow]
    /\ current' = [current EXCEPT ![h] = None]
    /\ directives' = [directives EXCEPT ![h] = {}]

\* Bug variant: the counters are read without locking the row.
LockWithoutWaiting(h, s) == lock' = [lock EXCEPT ![s] = h]

Lock(h, s) == lock[s] = None /\ lock' = [lock EXCEPT ![s] = h]
Unlock(h) == lock' = [s \in Signature |-> IF lock[s] = h THEN None ELSE lock[s]]

\* Bound: a batch is admitted only while an event id is left for each event of
\* every admitted batch.
Admissible(b) ==
    LET admitted == UNION {{h} \X DOMAIN batch[h] : h \in Handler}
    IN  Len(b) + Cardinality(admitted) <= Cardinality(Event \ DOMAIN events)

\* POST /v1/events arrives.
PostEvents(h, b) ==
    /\ Goto(h, "idle", "next")
    /\ Admissible(b)
    /\ batch' = [batch EXCEPT ![h] = b]
    /\ UNCHANGED <<tables, lock, row, current, directives, disclosed>>

\* record_event: BEGIN and the upsert, which locks the row, counts the event
\* and returns the counters.
UpsertSignature(h) ==
    /\ batch[h] # <<>>
    /\ Goto(h, "next", "insert")
    /\ LET s == Head(batch[h]).signature IN
         /\ Lock(h, s)
         /\ row' = [row EXCEPT ![h] = [RowOf(s) EXCEPT !.events = @ + 1]]
    /\ UNCHANGED <<tables, batch, current, directives, disclosed>>

\* record_event: the decision, the INSERT of the event under a fresh id, and
\* COMMIT.  Back in post_events: no token is needed, or one is issued next.
InsertEvent(h, e) ==
    /\ e \notin DOMAIN events
    /\ LET request == Head(batch[h])
           wanted == NeedPayload(request, row[h])
       IN  /\ Goto(h, "insert", IF wanted THEN "issue" ELSE "next")
           /\ batch' = [batch EXCEPT ![h] = IF wanted THEN @ ELSE Tail(@)]
           /\ signatures' = Put(signatures, request.signature, row[h])
           /\ events' = Put(events, e, [signature |-> request.signature,
                                        payload_wanted |-> wanted])
    /\ Unlock(h)
    /\ row' = [row EXCEPT ![h] = NewRow]
    /\ current' = [current EXCEPT ![h] = e]
    /\ UNCHANGED <<upload_tokens, reports, directives, disclosed>>

\* issue_upload_token: a statement of its own, after record_event committed.
IssueToken(h) ==
    /\ Goto(h, "issue", "next")
    /\ upload_tokens' = Put(upload_tokens, current[h],
                            [signature |-> Head(batch[h]).signature,
                             redeemed |-> FALSE, expired |-> FALSE])
    /\ directives' = [directives EXCEPT ![h] = @ \cup {current[h]}]
    /\ batch' = [batch EXCEPT ![h] = Tail(@)]
    /\ UNCHANGED <<signatures, events, reports, lock, row, current, disclosed>>

\* The batch is done: its directives are sent to the client.
Respond(h) ==
    /\ batch[h] = <<>>
    /\ Goto(h, "next", "idle")
    /\ disclosed' = disclosed \cup directives[h]
    /\ Drop(h)
    /\ UNCHANGED <<tables, lock>>

-----------------------------------------------------------------------------
\* Bug variant: the UPDATE lacks `redeemed_at IS NULL`.
RedeemTokenAgain(h, t) ==
    /\ t \in disclosed /\ t \in DOMAIN upload_tokens
    /\ ~upload_tokens[t].expired
    /\ Goto(h, "idle", "stream")
    /\ upload_tokens' = [upload_tokens EXCEPT ![t].redeemed = TRUE]
    /\ current' = [current EXCEPT ![h] = t]
    /\ UNCHANGED <<signatures, events, reports, lock, batch, row, directives, disclosed>>

\* POST /v1/reports presents token t; redeem_upload_token marks it used in one
\* UPDATE.  An unknown, used or expired token is a 403 and changes nothing.
RedeemToken(h, t) ==
    /\ t \in disclosed /\ t \in DOMAIN upload_tokens
    /\ ~upload_tokens[t].redeemed
    /\ ~upload_tokens[t].expired
    /\ Goto(h, "idle", "stream")
    /\ upload_tokens' = [upload_tokens EXCEPT ![t].redeemed = TRUE]
    /\ current' = [current EXCEPT ![h] = t]
    /\ UNCHANGED <<signatures, events, reports, lock, batch, row, directives, disclosed>>

\* Bug variant: the counter is decremented, as if it counted free slots.
UpdateSignatureDown(h) ==
    /\ Goto(h, "stream", "report")
    /\ LET s == upload_tokens[current[h]].signature IN
         /\ Lock(h, s)
         /\ row' = [row EXCEPT ![h] = [signatures[s] EXCEPT !.payloads = @ - 1]]
    /\ UNCHANGED <<tables, batch, current, directives, disclosed>>

\* The parts are stored and metadata was among them.  record_report: INSERT of
\* the report and the UPDATE that locks and counts.
UpdateSignature(h) ==
    /\ Goto(h, "stream", "report")
    /\ LET s == upload_tokens[current[h]].signature IN
         /\ Lock(h, s)
         /\ row' = [row EXCEPT ![h] = [signatures[s] EXCEPT !.payloads = @ + 1]]
    /\ UNCHANGED <<tables, batch, current, directives, disclosed>>

\* record_report: COMMIT, which publishes the report under a fresh id together
\* with the count; 201.
CommitReport(h, r) ==
    /\ r \notin DOMAIN reports
    /\ Goto(h, "report", "idle")
    /\ LET s == upload_tokens[current[h]].signature IN
         /\ reports' = Put(reports, r, [event_id |-> current[h], signature |-> s])
         /\ signatures' = Put(signatures, s, row[h])
    /\ Unlock(h) /\ Drop(h)
    /\ UNCHANGED <<events, upload_tokens, disclosed>>

-----------------------------------------------------------------------------
\* Bug variant: a failed request leaves its transaction open.
FailWithoutRollback(h) ==
    /\ pc[h] # "idle"
    /\ pc' = [pc EXCEPT ![h] = "idle"]
    /\ Drop(h)
    /\ UNCHANGED <<tables, lock, disclosed>>

\* The task ends early: a database or storage error (500), a malformed,
\* truncated or oversized upload (400, 413), or a client that hung up.
Fail(h) ==
    /\ pc[h] # "idle"
    /\ pc' = [pc EXCEPT ![h] = "idle"]
    /\ Unlock(h) /\ Drop(h)
    /\ UNCHANGED <<tables, disclosed>>

\* The database clock passes a token's expires_at.
TokenExpires(t) ==
    /\ t \in DOMAIN upload_tokens
    /\ ~upload_tokens[t].expired
    /\ upload_tokens' = [upload_tokens EXCEPT ![t].expired = TRUE]
    /\ UNCHANGED <<signatures, events, reports, lock, tasks, disclosed>>

\* An operator closes a signature for a bug already fixed.
Suppress(s) ==
    /\ s \in DOMAIN signatures
    /\ ~signatures[s].suppressed
    /\ lock[s] = None
    /\ signatures' = [signatures EXCEPT ![s].suppressed = TRUE]
    /\ UNCHANGED <<events, upload_tokens, reports, lock, tasks, disclosed>>

-----------------------------------------------------------------------------
\* What task h does next when nothing goes wrong.
Step(h) ==
    \/ UpsertSignature(h) \/ IssueToken(h) \/ Respond(h) \/ UpdateSignature(h)
    \/ \E e \in Event : InsertEvent(h, e)
    \/ \E r \in Report : CommitReport(h, r)

Next ==
    \/ \E h \in Handler :
         \/ \E b \in Batches : PostEvents(h, b)
         \/ \E t \in Event : RedeemToken(h, t)
         \/ Step(h) \/ Fail(h)
    \/ \E t \in Event : TokenExpires(t)
    \/ \E s \in Signature : Suppress(s)

Spec == Init /\ [][Next]_vars

\* The runtime polls every task and the database answers it; Postgres queues
\* the waiters of a row lock, so nobody is passed over for ever.
Fairness == \A h \in Handler : SF_vars(Step(h))

FairSpec == Spec /\ Fairness
-----------------------------------------------------------------------------
IsTable(table, Key, Row) ==
    DOMAIN table \subseteq Key /\ table \in [DOMAIN table -> Row]

\* Type invariant.
TypeOK ==
    /\ IsTable(signatures, Signature, SignatureRow)
    /\ IsTable(events, Event, EventRow)
    /\ IsTable(upload_tokens, Event, TokenRow)
    /\ IsTable(reports, Report, ReportRow)
    /\ lock \in [Signature -> Handler \cup {None}]
    /\ pc \in [Handler -> {"idle", "next", "insert", "issue", "stream", "report"}]
    /\ batch \in [Handler -> Seq(Request)]
    /\ row \in [Handler -> SignatureRow]
    /\ current \in [Handler -> Event \cup {None}]
    /\ directives \in [Handler -> SUBSET Event]
    /\ disclosed \subseteq Event

ReportsOf(s) == {r \in DOMAIN reports : reports[r].signature = s}
EventsOf(s) == {e \in DOMAIN events : events[e].signature = s}

\* The counters stage 1 decides by are the truth: `events` and `payloads` of a
\* signature are the numbers of its event and report rows, whatever requests
\* interleaved or rolled back (record_event, record_report).
CountersMatchRows ==
    \A s \in Signature :
        /\ RowOf(s).events = Cardinality(EventsOf(s))
        /\ RowOf(s).payloads = Cardinality(ReportsOf(s))

Uploading(h) == pc[h] \in {"stream", "report"}
Stored(e) == \E r \in DOMAIN reports : reports[r].event_id = e

\* A task between the lock and the COMMIT of a transaction holds exactly one
\* row lock, that of the signature it counts for; every other task holds none,
\* so a request that failed half way cannot block a signature.
LocksFollowTransactions ==
    /\ \A h \in Handler : pc[h] \in {"insert", "issue"} => batch[h] # <<>>
    /\ \A h \in Handler, s \in Signature :
        lock[s] = h <=> \/ pc[h] = "insert" /\ s = Head(batch[h]).signature
                        \/ pc[h] = "report" /\ s = upload_tokens[current[h]].signature

\* What an open transaction is about to publish is the committed row plus its
\* own count: nobody, an operator included, changed the row under it
\* (record_event, record_report).
ImagesAreCurrent ==
    \A h \in Handler :
        /\ pc[h] = "insert" =>
            row[h] = [RowOf(Head(batch[h]).signature) EXCEPT !.events = @ + 1]
        /\ pc[h] = "report" =>
            row[h] = [RowOf(upload_tokens[current[h]].signature) EXCEPT !.payloads = @ + 1]

\* Tokens exist only for events whose payload was wanted, under the event's
\* own signature, and a task about to issue one is alone in doing so.
EveryTokenWasWanted ==
    /\ \A e \in DOMAIN events : events[e].signature \in DOMAIN signatures
    /\ \A t \in DOMAIN upload_tokens :
        /\ t \in DOMAIN events /\ events[t].payload_wanted
        /\ upload_tokens[t].signature = events[t].signature
    /\ \A h \in Handler : pc[h] = "issue" =>
        /\ current[h] \in DOMAIN events \ DOMAIN upload_tokens
        /\ events[current[h]].payload_wanted
        /\ events[current[h]].signature = Head(batch[h]).signature
    /\ \A h, g \in Handler :
        pc[h] = "issue" /\ pc[g] = "issue" /\ current[h] = current[g] => h = g

\* Every stored payload was asked for: its event wanted it, its token was
\* redeemed, and all three name the same signature.  No event ever has two
\* reports, however often its token is presented (post_report).
EveryReportWasAskedFor ==
    /\ \A r \in DOMAIN reports :
        LET e == reports[r].event_id IN
        /\ e \in DOMAIN events /\ events[e].payload_wanted
        /\ e \in DOMAIN upload_tokens /\ upload_tokens[e].redeemed
        /\ reports[r].signature = events[e].signature
    /\ \A r, q \in DOMAIN reports :
        reports[r].event_id = reports[q].event_id => r = q

\* A token lets one upload in: two tasks never upload for the same token, and
\* none uploads for an event whose payload is already stored
\* (redeem_upload_token).
OneUploadPerToken ==
    /\ \A h, g \in Handler :
        Uploading(h) /\ Uploading(g) /\ current[h] = current[g] => h = g
    /\ \A h \in Handler : Uploading(h) =>
        /\ current[h] \in DOMAIN upload_tokens
        /\ upload_tokens[current[h]].redeemed
        /\ ~Stored(current[h])

\* The inductive invariant: all of the above.
IInv ==
    /\ TypeOK
    /\ LocksFollowTransactions
    /\ ImagesAreCurrent
    /\ EveryTokenWasWanted
    /\ EveryReportWasAskedFor
    /\ OneUploadPerToken
    /\ CountersMatchRows

-----------------------------------------------------------------------------
Closed(s) == RowOf(s).suppressed \/ RowOf(s).payloads >= Quota

\* Events of s whose payload may still arrive: the token is about to be
\* issued, can still be redeemed, or is being redeemed right now.
Promised(s) == {e \in EventsOf(s) :
    \/ \E h \in Handler : current[h] = e /\ (pc[h] = "issue" \/ Uploading(h))
    \/ /\ e \in DOMAIN upload_tokens
       /\ ~upload_tokens[e].redeemed
       /\ ~upload_tokens[e].expired}

\* Once a signature is at its quota or suppressed, nothing new is promised for
\* it: the payloads that can still arrive are those already promised.  This is
\* how far the quota of record_event can be overshot.
ClosedPromisesNothingNew ==
    [][\A s \in Signature : Closed(s) => Promised(s)' \subseteq Promised(s)]_vars

\* Every request is answered or fails: no task waits for ever on a row lock.
RequestsEnd == \A h \in Handler : pc[h] # "idle" ~> pc[h] = "idle"

-----------------------------------------------------------------------------
\* The tables as PayloadLifecycle sees them.
TokenPhase(t) ==
    IF t.redeemed THEN "redeemed" ELSE IF t.expired THEN "lapsed" ELSE "offered"

PhaseOf(e) ==
    IF e \notin DOMAIN events THEN "absent"
    ELSE IF ~events[e].payload_wanted THEN "refused"
    ELSE IF e \notin DOMAIN upload_tokens THEN "wanted"
    ELSE IF Stored(e) THEN "stored"
    ELSE TokenPhase(upload_tokens[e])

Abstract == INSTANCE PayloadLifecycle WITH
    phase <- [e \in Event |-> PhaseOf(e)],
    subject <- [e \in Event |-> IF e \in DOMAIN events THEN events[e].signature ELSE None],
    payloads <- [s \in Signature |-> RowOf(s).payloads],
    suppressed <- {s \in Signature : RowOf(s).suppressed}

\* The four tables and all interleavings of the handlers implement the
\* one-event-at-a-time lifecycle.
Lifecycle == Abstract!Spec
=============================================================================
