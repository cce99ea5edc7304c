---------------------------- MODULE RiggingService ----------------------------
(***************************************************************************)
(* The application service over its store: idempotent, versioned writes in *)
(* one transaction each, the audit log, certificates, and readers that use *)
(* several queries.  There is one database connection, so a transaction    *)
(* excludes every other query.  A request may be handled any number of     *)
(* times: clients retry, and an answer may get lost.                       *)
(* Of the aggregate only what the service looks at is kept: version,       *)
(* release and the stale marks of the batches; RiggingCase has the rest.   *)
(* What a case's tables hold is the version that was saved last.  A digest *)
(* belongs to one event, so the event's sequence number stands for it.     *)
(***************************************************************************)
EXTENDS CaseOutcomes, Integers, FiniteSets

CONSTANTS
  CaseIds, Keys,
  Operations,    \* the operations on a case that clients use
  Bodies,        \* what a request says beyond its version and key
  Readers,
  Create,        \* the scope "create" of the idempotency records
  None,          \* no transaction is open, a view is empty
  MaxEvents      \* bound on the audit events of a case

VARIABLES
  db,        \* what is committed: [row, audit, records, certificates]
  tx,        \* the open transaction: [request, db, answer], or None
  answers,   \* history: the answers sent to clients, lost or not
  views      \* for each reader, the versions its queries have seen

vars == <<db, tx, answers, views>>

-----------------------------------------------------------------------------
(* Requests.                                                               *)

ASSUME ServiceAssumption ==
  /\ Create \notin CaseIds
  /\ Operations \subseteq AllOperations
  /\ MaxVersion \in Nat \ {0}
  /\ MaxEvents \in Nat

Requests ==
  [op : Operations, scope : CaseIds, key : Keys, expected : 1..MaxVersion, body : Bodies]
  \cup [op : {"CASE_CREATED"}, scope : {Create}, key : Keys, expected : {0}, body : Bodies]

Fingerprint(r) == <<r.key, r.expected, r.body>>

-----------------------------------------------------------------------------
(* The tables.  A case without a row has version 0.                        *)

NoRow == [version |-> 0, released |-> FALSE, batches |-> <<>>]

Exists(d, c) == d.row[c].version > 0

AuditHead(d, c) == Len(d.audit[c])

AppendEvent(d, c, kind) ==
  [d EXCEPT !.audit[c] = Append(@, [kind |-> kind, version |-> d.row[c].version,
                                    previous |-> AuditHead(d, c)])]

GetIdempotency(d, r) == {k \in d.records : k.scope = r.scope /\ k.key = r.key}

\* Variant: a failure is answered and not recorded.
PutIfNoFailure(d, r, answer) ==
  IF answer.failure THEN d
  ELSE [d EXCEPT !.records = @ \cup {[scope |-> r.scope, key |-> r.key, op |-> r.op,
                                      fingerprint |-> Fingerprint(r), answer |-> answer]}]

PutIdempotency(d, r, answer) ==
  [d EXCEPT !.records = @ \cup {[scope |-> r.scope, key |-> r.key, op |-> r.op,
                                 fingerprint |-> Fingerprint(r), answer |-> answer]}]

\* Also a variant of the next one: it forgets to count on.
HighestSerial(d) ==
  IF d.certificates = {} THEN 0
  ELSE CHOOSE n \in {x.serial : x \in d.certificates} : \A x \in d.certificates : x.serial <= n

\* Variant: the number of cases, released or not.
SerialFromLog(d) == Cardinality({c \in CaseIds : d.audit[c] # <<>>})

\* COALESCE(MAX(serial), 0) + 1.
NextCertificateSerial(d) == 1 + HighestSerial(d)

\* UPDATE ... WHERE version = before, which a trigger refuses once released.
CanSave(d, c, before) == d.row[c].version = before /\ ~d.row[c].released

-----------------------------------------------------------------------------
(* What the service asks of the domain beyond its outcomes.                *)

Failures(op) == IF op = "FINDING_REMEDIATED" THEN BOOLEAN ELSE {FALSE}

LatestStale(batches) == batches # <<>> /\ batches[Len(batches)]

-----------------------------------------------------------------------------
(* What a transaction does: the database it leaves and the answer.         *)

Answer(c, row, failure) == [case |-> c, row |-> row, failure |-> failure]

Transaction(r, d, answer) == [request |-> r, db |-> d, answer |-> answer]

Replay(r, k) == k.op = r.op /\ k.fingerprint = Fingerprint(r)

\* Variant: the recorded case is saved again with its answer.
KnownAndSaved(r, k) ==
  Transaction(r, [db EXCEPT !.row[k.answer.case] = k.answer.row], k.answer)

\* A request whose key is known: the recorded answer, or a conflict that is
\* noted in the log of the case.
Known(r, k) ==
  IF Replay(r, k) THEN Transaction(r, db, k.answer)
  ELSE Transaction(r, AppendEvent(db, k.answer.case, "WRITE_CONFLICT"), None)

Outdated(r) == Transaction(r, AppendEvent(db, r.scope, "WRITE_CONFLICT"), None)

Created(r, c) ==
  LET row == [NoRow EXCEPT !.version = 1]
      saved == AppendEvent([db EXCEPT !.row[c] = row], c, "CASE_CREATED")
      answer == Answer(c, row, FALSE)
  IN  Transaction(r, PutIdempotency(saved, r, answer), answer)

\* Variant: the stale event is repeated with every edit.
StaleAgain(before, after) == LatestStale(after)

TurnedStale(before, after) ==
  before # <<>> /\ ~LatestStale(before) /\ LatestStale(after)

\* Service.mutate, and Remediate with its failure: one event for the
\* operation, and one more if it made the latest batch stale.
Mutated(r, row, failure) ==
  LET saved == AppendEvent([db EXCEPT !.row[r.scope] = row], r.scope, r.op)
      noted == IF TurnedStale(db.row[r.scope].batches, row.batches)
               THEN AppendEvent(saved, r.scope, "VALIDATION_BATCH_STALE") ELSE saved
      answer == Answer(r.scope, row, failure)
  IN  Transaction(r, PutIdempotency(noted, r, answer), answer)

\* Variant: the head is read once the event is written.
CertificateWithEvent(d, c, row) ==
  [case |-> c, serial |-> NextCertificateSerial(d), version |-> row.version,
   snapshot |-> row, head |-> AuditHead(d, c) + 1]

Certificate(d, c, row) ==
  [case |-> c, serial |-> NextCertificateSerial(d), version |-> row.version,
   snapshot |-> row, head |-> AuditHead(d, c)]

\* Service.Release: the certificate names the head before its own event.
Released(r, row) ==
  LET saved == [db EXCEPT !.row[r.scope] = row,
                          !.certificates = @ \cup {Certificate(db, r.scope, row)}]
      answer == Answer(r.scope, row, FALSE)
  IN  Transaction(r, PutIdempotency(AppendEvent(saved, r.scope, "CASE_RELEASED"), r, answer),
                  answer)

-----------------------------------------------------------------------------
(* Transactions.                                                           *)

Bounded(c) == Len(db.audit[c]) + 2 <= MaxEvents

BeginKnown(r) ==
  /\ tx = None
  /\ \E k \in GetIdempotency(db, r) : Bounded(k.answer.case) /\ tx' = Known(r, k)
  /\ UNCHANGED <<db, answers, views>>

BeginCreate(r, c) ==
  /\ tx = None
  /\ r.scope = Create
  /\ GetIdempotency(db, r) = {}
  /\ ~Exists(db, c)
  /\ tx' = Created(r, c)
  /\ UNCHANGED <<db, answers, views>>

\* A request for a case it loads; the case is not there: nothing happens.
Loads(r, c) ==
  /\ tx = None
  /\ r.scope = c
  /\ GetIdempotency(db, r) = {}
  /\ Exists(db, c)
  /\ Bounded(c)

BeginOutdated(r, c) ==
  /\ Loads(r, c)
  /\ db.row[c].version # r.expected
  /\ tx' = Outdated(r)
  /\ UNCHANGED <<db, answers, views>>

\* Variant: a request based on an older version is let through.
ExpectedOrOlder(r, row) == r.expected <= row.version

ExpectedVersion(r, row) == r.expected = row.version

BeginWrite(r, c) ==
  /\ Loads(r, c)
  /\ ExpectedVersion(r, db.row[c])
  /\ \E row \in Outcomes(r.op, db.row[c]), failure \in Failures(r.op) :
       /\ CanSave(db, c, db.row[c].version)
       /\ tx' = IF r.op = "CASE_RELEASED" THEN Released(r, row) ELSE Mutated(r, row, failure)
  /\ UNCHANGED <<db, answers, views>>

\* The answer may get lost on its way: the client then sends the request again.
Commit ==
  /\ tx # None
  /\ db' = tx.db
  /\ answers' = IF tx.answer = None THEN answers
                ELSE answers \cup {[request |-> tx.request, answer |-> tx.answer]}
  /\ tx' = None
  /\ UNCHANGED views

\* An error, a cancelled request or the end of the process.
Abort ==
  /\ tx # None
  /\ tx' = None
  /\ UNCHANGED <<db, answers, views>>

-----------------------------------------------------------------------------
(* Readers.  A view of a case takes several queries, none of which sees an *)
(* open transaction; between two of them a transaction may commit.         *)

\* Variant: the row, and with it the version, is read last.
RowLast == <<"tables", "certificate", "row">>

\* loadCase: the row, the tables of the aggregate, the certificate.
Queries == <<"row", "tables", "certificate">>

BeginView(rd, c) ==
  /\ tx = None
  /\ Exists(db, c)
  /\ views' = [views EXCEPT ![rd] = [case |-> c, seen |-> <<>>]]
  /\ UNCHANGED <<db, tx, answers>>

Query(rd) ==
  /\ tx = None
  /\ views[rd] # None
  /\ Len(views[rd].seen) < Len(Queries)
  /\ views' = [views EXCEPT ![rd].seen = Append(@, db.row[views[rd].case].version)]
  /\ UNCHANGED <<db, tx, answers>>

-----------------------------------------------------------------------------
Init ==
  /\ db = [row |-> [c \in CaseIds |-> NoRow], audit |-> [c \in CaseIds |-> <<>>],
           records |-> {}, certificates |-> {}]
  /\ tx = None
  /\ answers = {}
  /\ views = [rd \in Readers |-> None]

Next ==
  \/ \E r \in Requests : BeginKnown(r)
  \/ \E r \in Requests, c \in CaseIds : BeginCreate(r, c) \/ BeginOutdated(r, c) \/ BeginWrite(r, c)
  \/ Commit
  \/ Abort
  \/ \E rd \in Readers : Query(rd) \/ \E c \in CaseIds : BeginView(rd, c)

Spec == Init /\ [][Next]_vars
-----------------------------------------------------------------------------
(* Properties.                                                             *)

Rows == [version : 0..MaxVersion, released : BOOLEAN, batches : Seq(BOOLEAN)]

Answers == [case : CaseIds, row : Rows, failure : BOOLEAN]

Events ==
  [kind : AllOperations \cup {"CASE_CREATED", "WRITE_CONFLICT", "VALIDATION_BATCH_STALE"},
   version : 1..MaxVersion, previous : Nat]

Records ==
  [scope : CaseIds \cup {Create}, key : Keys, op : AllOperations \cup {"CASE_CREATED"},
   fingerprint : Keys \X (0..MaxVersion) \X Bodies, answer : Answers]

Certificates ==
  [case : CaseIds, serial : Nat \ {0}, version : 1..MaxVersion, snapshot : Rows, head : Nat]

Databases ==
  [row : [CaseIds -> Rows], audit : [CaseIds -> Seq(Events)],
   records : SUBSET Records, certificates : SUBSET Certificates]

Views == [case : CaseIds, seen : Seq(1..MaxVersion)]

\* Every table has its shape; serials start at 1.
TypeOK ==
  /\ db \in Databases
  /\ tx # None => /\ tx.request \in Requests
                  /\ tx.db \in Databases
                  /\ tx.answer # None => tx.answer \in Answers
  /\ answers \subseteq [request : Requests, answer : Answers]
  /\ views \in [Readers -> Views \cup {None}]

\* The request a record was made for.
RequestOf(k) ==
  [op |-> k.op, scope |-> k.scope, key |-> k.key,
   expected |-> k.fingerprint[2], body |-> k.fingerprint[3]]

\* An answer a client may have seen is on record, so that a retry, also after a
\* crash, gets the same one, a failure included; no key has two records.
AnswersAreRecorded ==
  /\ \A a \in answers : \E k \in db.records : RequestOf(k) = a.request /\ k.answer = a.answer
  /\ \A k, l \in db.records : k.scope = l.scope /\ k.key = l.key => k = l

\* Each version of a case was made by exactly one recorded request, and that
\* request expected the version before: of two writes that started from the
\* same version at most one changes the case.
OneRequestPerVersion ==
  \A c \in CaseIds :
    /\ \A v \in 2..db.row[c].version :
         Cardinality({k \in db.records : /\ k.scope = c
                                         /\ k.answer.row.version = v
                                         /\ k.fingerprint[2] = v - 1}) = 1
    /\ \A k \in db.records :
         k.scope = c => k.answer.row.version \in {k.fingerprint[2], k.fingerprint[2] + 1}

Positions(c, kinds) == {i \in DOMAIN db.audit[c] : db.audit[c][i].kind \in kinds}

\* The log tells what happened: one event per accepted request, at the version
\* it left, versions never going back, one stale event per stale batch.
LogMatchesLedger ==
  \A c \in CaseIds :
    LET log == db.audit[c]
        done == Positions(c, AllOperations \cup {"CASE_CREATED"})
    IN  /\ Cardinality(done) = Cardinality({k \in db.records : k.answer.case = c})
        /\ {<<log[i].kind, log[i].version>> : i \in done}
             = {<<k.op, k.answer.row.version>> : k \in {x \in db.records : x.answer.case = c}}
        /\ \A i, j \in DOMAIN log : i < j => log[i].version <= log[j].version
        /\ Cardinality(Positions(c, {"VALIDATION_BATCH_STALE"}))
             = Cardinality({i \in DOMAIN db.row[c].batches : db.row[c].batches[i]})

\* A case is released exactly when it has its one certificate, whose snapshot
\* is the case as it still is, and whose head is followed by the release event,
\* whatever conflicts were logged since.
CertificatesHold ==
  /\ \A x \in db.certificates :
       /\ db.row[x.case] = x.snapshot
       /\ x.version = x.snapshot.version
       /\ Positions(x.case, {"CASE_RELEASED"}) = {x.head + 1}
       /\ db.audit[x.case][x.head + 1].previous = x.head
  /\ \A c \in CaseIds : db.row[c].released <=> \E x \in db.certificates : x.case = c
  /\ \A x, y \in db.certificates : x.case = y.case => x = y

\* Serials leave no gap, whatever was aborted.
SerialsHaveNoGap ==
  /\ {x.serial : x \in db.certificates} = 1..Cardinality(db.certificates)
  /\ \A x, y \in db.certificates : x.serial = y.serial => x = y

\* The version is read before anything else of a view: a view put together from
\* several versions shows an old one, so no write can be based on it.
NoWriteFromTornView ==
  \A rd \in Readers :
    views[rd] # None /\ Len(views[rd].seen) = Len(Queries) =>
      LET seen == views[rd].seen
          shown == CHOOSE i \in DOMAIN Queries : Queries[i] = "row"
      IN  seen[shown] = db.row[views[rd].case].version
            => \A i \in DOMAIN seen : seen[i] = seen[shown]

\* Nothing in a released case changes any more, no version goes back, and the
\* log, the records and the certificates only grow.
KeepsReleases ==
  /\ \A c \in CaseIds :
       /\ db.row[c].released => db'.row[c] = db.row[c]
       /\ db'.row[c].version >= db.row[c].version
       /\ \A i \in DOMAIN db.audit[c] : db'.audit[c][i] = db.audit[c][i]
  /\ db.records \subseteq db'.records
  /\ db.certificates \subseteq db'.certificates

\* In every step: the triggers and the guarded update of the store see to it.
ReleaseIsFinal == [][KeepsReleases]_vars

\* The service implements the ledger of CaseLedger: retries, lost answers,
\* crashes and readers are stuttering steps of it.
Ledger == INSTANCE CaseLedger WITH
  version  <- [c \in CaseIds |-> db.row[c].version],
  frozen   <- {c \in CaseIds : db.row[c].released},
  accepted <- {[request |-> RequestOf(k), case |-> k.answer.case,
                version |-> k.answer.row.version] : k \in db.records}

LedgerSpec == Ledger!Spec

-----------------------------------------------------------------------------
(* An expectation of the documentation that the code does not meet.        *)

\* README.md:45: reading a case returns the current aggregate, one version of it.
ViewShowsOneVersion ==
  \A rd \in Readers :
    views[rd] # None /\ Len(views[rd].seen) = Len(Queries) =>
      \A i, j \in DOMAIN views[rd].seen : views[rd].seen[i] = views[rd].seen[j]
=============================================================================
