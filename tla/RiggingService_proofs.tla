-------------------------- MODULE RiggingService_proofs --------------------------
(***************************************************************************)
(* Theorems about RiggingService, for any number of cases, keys, clients   *)
(* and requests.  While a transaction is open the database does not        *)
(* change, so what an open transaction holds can be said in terms of the   *)
(* database it began with; every theorem is then about what a commit does. *)
(***************************************************************************)
EXTENDS RiggingService, FiniteSetTheorems, TLAPS

-----------------------------------------------------------------------------
(* Tables.                                                                 *)

Kinds == AllOperations \cup {"CASE_CREATED", "WRITE_CONFLICT", "VALIDATION_BATCH_STALE"}

EventOf(d, c, kind) ==
  [kind |-> kind, version |-> d.row[c].version, previous |-> AuditHead(d, c)]

RecordOf(r, answer) ==
  [scope |-> r.scope, key |-> r.key, op |-> r.op, fingerprint |-> Fingerprint(r),
   answer |-> answer]

\* Appending an event changes the log of one case and nothing else.
LEMMA AppendEventEffect ==
  ASSUME NEW d \in Databases, NEW c \in CaseIds, NEW kind \in Kinds, Exists(d, c)
  PROVE  LET e == AppendEvent(d, c, kind)
         IN  /\ e \in Databases
             /\ e.row = d.row /\ e.records = d.records /\ e.certificates = d.certificates
             /\ e.audit = [d.audit EXCEPT ![c] = Append(@, EventOf(d, c, kind))]
<1>1. /\ d.row[c].version \in 1..MaxVersion
      /\ d.audit[c] \in Seq(Events) /\ AuditHead(d, c) \in Nat
  BY ServiceAssumption DEF Databases, Rows, Exists, AuditHead
<1>2. EventOf(d, c, kind) \in Events
  BY <1>1 DEF EventOf, Events, Kinds
<1>3. Append(d.audit[c], EventOf(d, c, kind)) \in Seq(Events)
  BY <1>1, <1>2
<1> DEFINE log == [d.audit EXCEPT ![c] = Append(@, EventOf(d, c, kind))]
<1>4. AppendEvent(d, c, kind)
        = [row |-> d.row, audit |-> log, records |-> d.records, certificates |-> d.certificates]
  <2>1. AppendEvent(d, c, kind) = [d EXCEPT !.audit = log]
    BY Zenon DEF AppendEvent, EventOf
  <2>2. d = [row |-> d.row, audit |-> d.audit, records |-> d.records,
             certificates |-> d.certificates]
    BY DEF Databases
  <2> HIDE DEF log
  <2> QED
    BY <2>1, <2>2
<1>5. log \in [CaseIds -> Seq(Events)]
  BY <1>3 DEF Databases
<1>6. d.row \in [CaseIds -> Rows] /\ d.records \in SUBSET Records
      /\ d.certificates \in SUBSET Certificates
  BY DEF Databases
<1> QED
  BY <1>4, <1>5, <1>6 DEF Databases

\* Recording an answer adds one record and changes nothing else.
LEMMA PutIdempotencyEffect ==
  ASSUME NEW d \in Databases, NEW r \in Requests, NEW answer \in Answers
  PROVE  LET e == PutIdempotency(d, r, answer)
         IN  /\ e \in Databases
             /\ e.row = d.row /\ e.audit = d.audit /\ e.certificates = d.certificates
             /\ e.records = d.records \cup {RecordOf(r, answer)}
<1>1. RecordOf(r, answer) \in Records
  BY ServiceAssumption DEF RecordOf, Records, Requests, Fingerprint
<1>2. PutIdempotency(d, r, answer) = [d EXCEPT !.records = @ \cup {RecordOf(r, answer)}]
  BY DEF PutIdempotency, RecordOf
<1> QED
  BY <1>1, <1>2 DEF Databases

\* The request a record was made for is the request it was made of.
LEMMA RequestOfRecord ==
  ASSUME NEW r \in Requests, NEW answer
  PROVE  RequestOf(RecordOf(r, answer)) = r
  BY DEF RequestOf, RecordOf, Fingerprint, Requests

\* A request that is answered from a record is the one the record was made of.
LEMMA ReplayIsSameRequest ==
  ASSUME NEW r \in Requests, NEW k, k.scope = r.scope, k.key = r.key, Replay(r, k)
  PROVE  RequestOf(k) = r
  BY DEF RequestOf, Replay, Fingerprint, Requests

\* What a domain operation leaves of a row.
LEMMA OutcomesAreRows ==
  ASSUME NEW op \in AllOperations, NEW row \in Rows, NEW o \in Outcomes(op, row)
  PROVE  /\ o \in Rows
         /\ ~row.released
         /\ o = row \/ o.version = row.version + 1
         /\ o.released <=> op = "CASE_RELEASED"
<1>a. /\ row.version \in 0..MaxVersion /\ row.released \in BOOLEAN
      /\ row.batches \in Seq(BOOLEAN) /\ MaxVersion \in Nat
  BY ServiceAssumption DEF Rows
<1>b. ~(row.released \/ row.version >= MaxVersion)
  <2>1. SUFFICES ASSUME row.released \/ row.version >= MaxVersion PROVE FALSE
    OBVIOUS
  <2>2. Outcomes(op, row) = {}
    BY <2>1 DEF Outcomes
  <2> QED
    BY <2>2
<1>0. row.version < MaxVersion /\ ~row.released
  BY <1>a, <1>b
<1>1. Bumped(row) \in Rows /\ Bumped(row).version = row.version + 1
      /\ Bumped(row).released = row.released /\ Bumped(row).batches = row.batches
  BY <1>0, <1>a DEF Bumped, Rows
<1>2. MarkedStale(row.batches) \in Seq(BOOLEAN) /\ Append(row.batches, FALSE) \in Seq(BOOLEAN)
  <2>1. CASE row.batches = <<>>
    BY <1>a, <2>1 DEF MarkedStale
  <2>2. CASE row.batches # <<>>
    <3>1. Len(row.batches) \in DOMAIN row.batches
      BY <1>a, <2>2
    <3>2. [row.batches EXCEPT ![Len(row.batches)] = TRUE] \in Seq(BOOLEAN)
      BY <1>a, <3>1
    <3> QED
      BY <1>a, <2>2, <3>2 DEF MarkedStale
  <2> QED
    BY <2>1, <2>2
<1>3. CASE op \in Edits
  <2>1. o \in {row, [Bumped(row) EXCEPT !.batches = MarkedStale(@)]}
    BY <1>b, <1>3 DEF Outcomes, Edits
  <2>2. op # "CASE_RELEASED"
    BY <1>3 DEF Edits
  <2> QED
    BY <1>0, <1>1, <1>2, <2>1, <2>2 DEF Rows
<1>4. CASE op = "CASE_VALIDATED"
  <2>1. o = [Bumped(row) EXCEPT !.batches = Append(@, FALSE)]
    BY <1>b, <1>4 DEF Outcomes, Edits
  <2> QED
    BY <1>0, <1>1, <1>2, <1>4, <2>1 DEF Rows
<1>5. CASE op = "CASE_RELEASED"
  <2>1. o = [Bumped(row) EXCEPT !.released = TRUE]
    BY <1>b, <1>5 DEF Outcomes, Edits
  <2> QED
    BY <1>0, <1>1, <1>5, <2>1 DEF Rows
<1>6. CASE op \notin Edits \cup {"CASE_VALIDATED", "CASE_RELEASED"}
  <2>1. o = Bumped(row)
    BY <1>b, <1>6 DEF Outcomes
  <2> QED
    BY <1>0, <1>1, <1>6, <2>1
<1> QED
  BY <1>3, <1>4, <1>5, <1>6

-----------------------------------------------------------------------------
(* What an open transaction holds, in terms of the database, which does    *)
(* not change while it is open.                                            *)

Replayed ==
  /\ tx.db = db
  /\ \E k \in db.records : RequestOf(k) = tx.request /\ tx.answer = k.answer

Conflicted ==
  /\ tx.answer = None
  /\ \E c \in CaseIds : Exists(db, c) /\ tx.db = AppendEvent(db, c, "WRITE_CONFLICT")

Opened ==
  /\ tx.request.scope = Create
  /\ GetIdempotency(db, tx.request) = {}
  /\ \E c \in CaseIds : ~Exists(db, c) /\ tx = Created(tx.request, c)

\* Writes(c, row): the request is carried out on case c, which it leaves as row.
Writes(c, row) ==
  /\ tx.request.scope = c
  /\ GetIdempotency(db, tx.request) = {}
  /\ Exists(db, c)
  /\ ExpectedVersion(tx.request, db.row[c])
  /\ row \in Outcomes(tx.request.op, db.row[c])
  /\ IF tx.request.op = "CASE_RELEASED" THEN tx = Released(tx.request, row)
     ELSE \E failure \in BOOLEAN : tx = Mutated(tx.request, row, failure)

Legal ==
  tx # None =>
    /\ tx.request \in Requests
    /\ \/ Replayed \/ Conflicted \/ Opened
       \/ \E c \in CaseIds, row \in Rows : Writes(c, row)

\* Records and views are about cases that exist, and so is a release.
Grounded ==
  /\ \A c \in CaseIds : db.row[c].released => Exists(db, c)
  /\ \A k \in db.records : Exists(db, k.answer.case)
  /\ \A rd \in Readers : views[rd] # None => Exists(db, views[rd].case)

\* The shape of everything but the open transaction, which follows from Legal.
Typed ==
  /\ db \in Databases
  /\ answers \subseteq [request : Requests, answer : Answers]
  /\ views \in [Readers -> Views \cup {None}]

\* The serials are part of it: the next one is computed from their maximum.
ServiceInv ==
  Typed /\ Grounded /\ Legal /\ SerialsHaveNoGap /\ IsFiniteSet(db.certificates)

-----------------------------------------------------------------------------
(* What each kind of transaction does to the tables.                       *)

\* The tables after a write of row to case c with answer: the row, the record
\* and whatever the log got.
Leaves(d, c, row, r, answer) ==
  /\ d \in Databases
  /\ d.row = [db.row EXCEPT ![c] = row]
  /\ d.records = db.records \cup {RecordOf(r, answer)}

\* A row can be put in the place of another.
LEMMA RowEffect ==
  ASSUME db \in Databases, NEW c \in CaseIds, NEW row \in Rows
  PROVE  LET d == [db EXCEPT !.row[c] = row]
         IN  /\ d \in Databases
             /\ d.row = [db.row EXCEPT ![c] = row] /\ d.row[c] = row
             /\ d.audit = db.audit /\ d.records = db.records
             /\ d.certificates = db.certificates
<1> DEFINE rows == [db.row EXCEPT ![c] = row]
<1>1. [db EXCEPT !.row[c] = row]
        = [row |-> rows, audit |-> db.audit, records |-> db.records,
           certificates |-> db.certificates]
  <2>1. [db EXCEPT !.row[c] = row] = [db EXCEPT !.row = rows]
    BY Zenon
  <2>2. db = [row |-> db.row, audit |-> db.audit, records |-> db.records,
              certificates |-> db.certificates]
    BY DEF Databases
  <2> HIDE DEF rows
  <2> QED
    BY <2>1, <2>2
<1>2. rows \in [CaseIds -> Rows] /\ rows[c] = row
  BY DEF Databases
<1>3. db.audit \in [CaseIds -> Seq(Events)] /\ db.records \in SUBSET Records
      /\ db.certificates \in SUBSET Certificates
  BY DEF Databases
<1> QED
  BY <1>1, <1>2, <1>3 DEF Databases

\* A creation: one row, one event, one record.
LEMMA CreatedEffect ==
  ASSUME db \in Databases, NEW r \in Requests, NEW c \in CaseIds
  PROVE  LET row == [version |-> 1, released |-> FALSE, batches |-> <<>>]
             answer == Answer(c, row, FALSE)
             t == Created(r, c)
         IN  /\ t.request = r /\ t.answer = answer /\ answer \in Answers
             /\ row \in Rows
             /\ Leaves(t.db, c, row, r, answer)
             /\ t.db.certificates = db.certificates
             /\ t.db.audit = [db.audit EXCEPT ![c] =
                  Append(@, [kind |-> "CASE_CREATED", version |-> 1, previous |-> AuditHead(db, c)])]
<1> DEFINE row == [version |-> 1, released |-> FALSE, batches |-> <<>>]
           answer == Answer(c, row, FALSE)
           d == [db EXCEPT !.row[c] = row]
           e == AppendEvent(d, c, "CASE_CREATED")
<1>0. [NoRow EXCEPT !.version = 1] = row
  <2>1. \A x, y : [[version |-> 0, released |-> x, batches |-> y] EXCEPT !.version = 1]
                    = [version |-> 1, released |-> x, batches |-> y]
    OBVIOUS
  <2> QED
    BY <2>1, Zenon DEF NoRow
<1>1. row \in Rows
  BY ServiceAssumption DEF Rows
<1>2. answer \in Answers
  BY <1>1 DEF Answer, Answers
<1>4. row.version = 1
  OBVIOUS
<1> HIDE DEF row
<1>3. Created(r, c) = Transaction(r, PutIdempotency(e, r, answer), answer)
  BY <1>0 DEF Created
<1> HIDE DEF answer
<1>5. /\ d \in Databases
      /\ d.row = [db.row EXCEPT ![c] = row] /\ d.row[c] = row
      /\ d.audit = db.audit /\ d.records = db.records
      /\ d.certificates = db.certificates
  BY <1>1, RowEffect
<1> HIDE DEF d
<1>6. Exists(d, c)
  BY <1>4, <1>5 DEF Exists
<1>7. /\ e \in Databases
      /\ e.row = d.row /\ e.records = d.records /\ e.certificates = d.certificates
      /\ e.audit = [d.audit EXCEPT ![c] = Append(@, EventOf(d, c, "CASE_CREATED"))]
  BY <1>5, <1>6, AppendEventEffect DEF Kinds
<1>8. EventOf(d, c, "CASE_CREATED")
        = [kind |-> "CASE_CREATED", version |-> 1, previous |-> AuditHead(db, c)]
  BY <1>4, <1>5 DEF EventOf, AuditHead
<1> HIDE DEF e
<1>9. LET f == PutIdempotency(e, r, answer)
      IN  /\ f \in Databases
          /\ f.row = e.row /\ f.audit = e.audit /\ f.certificates = e.certificates
          /\ f.records = e.records \cup {RecordOf(r, answer)}
  BY <1>2, <1>7, PutIdempotencyEffect
<1>10. /\ Created(r, c).request = r
       /\ Created(r, c).answer = answer
       /\ Created(r, c).db = PutIdempotency(e, r, answer)
  BY <1>3 DEF Transaction
<1>11. Leaves(Created(r, c).db, c, row, r, answer)
  BY <1>5, <1>7, <1>9, <1>10 DEF Leaves
<1>12. /\ Created(r, c).db.certificates = db.certificates
       /\ Created(r, c).db.audit = [db.audit EXCEPT ![c] =
            Append(@, [kind |-> "CASE_CREATED", version |-> 1, previous |-> AuditHead(db, c)])]
  BY <1>5, <1>7, <1>8, <1>9, <1>10
<1> QED
  BY <1>1, <1>2, <1>10, <1>11, <1>12 DEF row, answer

\* The log of case c after a mutation that leaves it as row: one event, and one
\* more if the latest batch became stale.
MutationLog(c, row, kind, after) ==
  \E e, f \in Events :
    /\ e.kind = kind /\ f.kind = "VALIDATION_BATCH_STALE"
    /\ e.version = row.version /\ f.version = row.version
    /\ \/ /\ TurnedStale(db.row[c].batches, row.batches)
          /\ after = Append(Append(db.audit[c], e), f)
       \/ /\ ~TurnedStale(db.row[c].batches, row.batches)
          /\ after = Append(db.audit[c], e)

\* A mutation: one row, one record, and what it logs.
LEMMA MutatedEffect ==
  ASSUME db \in Databases, NEW r \in Requests, r.scope \in CaseIds, r.op \in Kinds,
         NEW row \in Rows, row.version > 0, NEW failure \in BOOLEAN
  PROVE  LET c == r.scope
             answer == Answer(c, row, failure)
             t == Mutated(r, row, failure)
         IN  /\ t.request = r /\ t.answer = answer /\ answer \in Answers
             /\ Leaves(t.db, c, row, r, answer)
             /\ t.db.certificates = db.certificates
             /\ \E after : /\ t.db.audit = [db.audit EXCEPT ![c] = after]
                           /\ MutationLog(c, row, r.op, after)
<1> DEFINE c == r.scope
           answer == Answer(c, row, failure)
           d == [db EXCEPT !.row[c] = row]
           e == AppendEvent(d, c, r.op)
           g == AppendEvent(e, c, "VALIDATION_BATCH_STALE")
           f == IF TurnedStale(db.row[c].batches, row.batches) THEN g ELSE e
           e1 == EventOf(d, c, r.op)
           e2 == EventOf(e, c, "VALIDATION_BATCH_STALE")
<1>1. answer \in Answers
  BY DEF Answer, Answers
<1>2. Mutated(r, row, failure) = Transaction(r, PutIdempotency(f, r, answer), answer)
  BY DEF Mutated
<1>c. c \in CaseIds
  OBVIOUS
<1> HIDE DEF answer, c
<1>3. /\ d \in Databases
      /\ d.row = [db.row EXCEPT ![c] = row] /\ d.row[c] = row
      /\ d.audit = db.audit /\ d.records = db.records
      /\ d.certificates = db.certificates
  BY <1>c, RowEffect
<1> HIDE DEF d
<1>4. Exists(d, c)
  BY <1>3 DEF Exists
<1>5. /\ e \in Databases
      /\ e.row = d.row /\ e.records = d.records /\ e.certificates = d.certificates
      /\ e.audit = [d.audit EXCEPT ![c] = Append(@, e1)]
  <2>1. d \in Databases
    BY <1>3
  <2> HIDE DEF e1
  <2>2. LET x == AppendEvent(d, c, r.op)
        IN  /\ x \in Databases
            /\ x.row = d.row /\ x.records = d.records /\ x.certificates = d.certificates
            /\ x.audit = [d.audit EXCEPT ![c] = Append(@, EventOf(d, c, r.op))]
    BY <1>c, <1>4, <2>1, AppendEventEffect
  <2> QED
    BY <2>2 DEF e1
<1>6. Exists(e, c)
  BY <1>4, <1>5 DEF Exists
<1> HIDE DEF e
<1>7. /\ g \in Databases
      /\ g.row = e.row /\ g.records = e.records /\ g.certificates = e.certificates
      /\ g.audit = [e.audit EXCEPT ![c] = Append(@, e2)]
  <2>1. "VALIDATION_BATCH_STALE" \in Kinds /\ e \in Databases
    BY <1>5 DEF Kinds
  <2> QED
    BY <1>c, <1>6, <2>1, AppendEventEffect
<1>8. /\ f \in Databases
      /\ f.row = e.row /\ f.records = e.records /\ f.certificates = e.certificates
      /\ TurnedStale(db.row[c].batches, row.batches)
           => f.audit = [e.audit EXCEPT ![c] = Append(@, e2)]
      /\ ~TurnedStale(db.row[c].batches, row.batches) => f.audit = e.audit
  BY <1>5, <1>7
<1>9. /\ e1 \in Events /\ e1.kind = r.op
      /\ e2 \in Events /\ e2.kind = "VALIDATION_BATCH_STALE"
      /\ e1.version = row.version /\ e2.version = row.version
  <2>1. /\ d.row[c].version \in 1..MaxVersion /\ AuditHead(d, c) \in Nat
        /\ e.row[c].version \in 1..MaxVersion /\ AuditHead(e, c) \in Nat
        /\ d.row[c].version = row.version /\ e.row[c].version = row.version
    BY <1>c, <1>3, <1>4, <1>5, <1>6, ServiceAssumption DEF Databases, Rows, Exists, AuditHead
  <2> QED
    BY <2>1 DEF EventOf, Events, Kinds
<1> HIDE DEF e1, e2, f, g
<1>10. LET h == PutIdempotency(f, r, answer)
       IN  /\ h \in Databases
           /\ h.row = f.row /\ h.audit = f.audit /\ h.certificates = f.certificates
           /\ h.records = f.records \cup {RecordOf(r, answer)}
  BY <1>1, <1>8, PutIdempotencyEffect
<1>11. /\ Mutated(r, row, failure).request = r
       /\ Mutated(r, row, failure).answer = answer
       /\ Mutated(r, row, failure).db = PutIdempotency(f, r, answer)
  BY <1>2 DEF Transaction
<1>12. Leaves(Mutated(r, row, failure).db, c, row, r, answer)
       /\ Mutated(r, row, failure).db.certificates = db.certificates
  BY <1>3, <1>5, <1>8, <1>10, <1>11 DEF Leaves
<1>13. \E after : /\ f.audit = [db.audit EXCEPT ![c] = after]
                  /\ MutationLog(c, row, r.op, after)
  <2>1. DOMAIN db.audit = CaseIds /\ c \in CaseIds
    BY <1>c DEF Databases
  <2>2. CASE ~TurnedStale(db.row[c].batches, row.batches)
    <3>1. f.audit = [db.audit EXCEPT ![c] = Append(db.audit[c], e1)]
      BY <1>3, <1>5, <1>8, <2>2
    <3> QED
      BY <1>9, <2>2, <3>1 DEF MutationLog
  <2>3. CASE TurnedStale(db.row[c].batches, row.batches)
    <3>1. f.audit = [db.audit EXCEPT ![c] = Append(Append(db.audit[c], e1), e2)]
      BY <1>3, <1>5, <1>8, <2>1, <2>3
    <3> QED
      BY <1>9, <2>3, <3>1 DEF MutationLog
  <2> QED
    BY <2>2, <2>3
<1>14. \E after : /\ Mutated(r, row, failure).db.audit = [db.audit EXCEPT ![c] = after]
                  /\ MutationLog(c, row, r.op, after)
  BY <1>10, <1>11, <1>13
<1> QED
  BY <1>1, <1>11, <1>12, <1>14 DEF answer, c

\* Serials without a gap are the numbers up to their count, which makes the
\* next one the next number.
LEMMA NextSerialIsNext ==
  ASSUME SerialsHaveNoGap, IsFiniteSet(db.certificates)
  PROVE  /\ Cardinality(db.certificates) \in Nat
         /\ NextCertificateSerial(db) = Cardinality(db.certificates) + 1
<1> DEFINE n == Cardinality(db.certificates)
           serials == {x.serial : x \in db.certificates}
<1>1. n \in Nat /\ (db.certificates = {} <=> n = 0)
  BY FS_CardinalityType, FS_EmptySet
<1>2. serials = 1..n
  BY DEF SerialsHaveNoGap
<1> HIDE DEF n
<1>3. CASE db.certificates = {}
  BY <1>1, <1>3 DEF NextCertificateSerial, HighestSerial, n
<1>4. CASE db.certificates # {}
  <2>1. n \in serials /\ \A x \in db.certificates : x.serial \in 1..n
    BY <1>1, <1>2, <1>4
  <2>2. \A m \in serials : (\A x \in db.certificates : x.serial <= m) => m = n
    <3>1. \E x \in db.certificates : x.serial = n
      BY <2>1
    <3> QED
      BY <1>1, <1>2, <3>1
  <2>3. \A x \in db.certificates : x.serial <= n
    BY <1>1, <2>1
  <2>4. HighestSerial(db) = n
    BY <1>4, <2>1, <2>2, <2>3 DEF HighestSerial
  <2> QED
    BY <1>1, <2>4 DEF NextCertificateSerial, n
<1> QED
  BY <1>3, <1>4

\* A release: one row, one certificate, one event, one record.
LEMMA ReleasedEffect ==
  ASSUME db \in Databases, SerialsHaveNoGap, IsFiniteSet(db.certificates),
         NEW r \in Requests, r.scope \in CaseIds,
         NEW row \in Rows, row.version > 0
  PROVE  LET c == r.scope
             answer == Answer(c, row, FALSE)
             t == Released(r, row)
         IN  /\ t.request = r /\ t.answer = answer /\ answer \in Answers
             /\ Leaves(t.db, c, row, r, answer)
             /\ t.db.certificates = db.certificates \cup {Certificate(db, c, row)}
             /\ t.db.audit = [db.audit EXCEPT ![c] = Append(@,
                  [kind |-> "CASE_RELEASED", version |-> row.version, previous |-> AuditHead(db, c)])]
<1> DEFINE c == r.scope
           answer == Answer(c, row, FALSE)
           new == Certificate(db, c, row)
           rows == [db.row EXCEPT ![c] = row]
           d == [db EXCEPT !.row[c] = row, !.certificates = @ \cup {new}]
           e == AppendEvent(d, c, "CASE_RELEASED")
<1>1. answer \in Answers
  BY DEF Answer, Answers
<1>2. Released(r, row) = Transaction(r, PutIdempotency(e, r, answer), answer)
  BY DEF Released
<1>c. c \in CaseIds
  OBVIOUS
<1> HIDE DEF answer, c
<1>3. new \in Certificates
  <2>1. NextCertificateSerial(db) \in Nat \ {0}
    BY NextSerialIsNext
  <2>2. row.version \in 1..MaxVersion /\ AuditHead(db, c) \in Nat
    BY <1>c, ServiceAssumption DEF Rows, AuditHead, Databases
  <2> QED
    BY <1>c, <2>1, <2>2 DEF Certificate, Certificates
<1> HIDE DEF new
<1>4. d = [row |-> rows, audit |-> db.audit, records |-> db.records,
           certificates |-> db.certificates \cup {new}]
  <2>1. d = [db EXCEPT !.row = rows, !.certificates = db.certificates \cup {new}]
    BY Zenon
  <2>2. db = [row |-> db.row, audit |-> db.audit, records |-> db.records,
              certificates |-> db.certificates]
    BY DEF Databases
  <2> HIDE DEF rows, d
  <2> QED
    BY <2>1, <2>2
<1>5. rows \in [CaseIds -> Rows] /\ rows[c] = row
  BY <1>c DEF Databases
<1> HIDE DEF rows, d
<1>6. d \in Databases
  BY <1>3, <1>4, <1>5 DEF Databases
<1>7. Exists(d, c)
  BY <1>4, <1>5 DEF Exists
<1>8. /\ e \in Databases
      /\ e.row = d.row /\ e.records = d.records /\ e.certificates = d.certificates
      /\ e.audit = [d.audit EXCEPT ![c] = Append(@, EventOf(d, c, "CASE_RELEASED"))]
  <2>1. "CASE_RELEASED" \in Kinds
    BY DEF Kinds, AllOperations
  <2> QED
    BY <1>c, <1>6, <1>7, <2>1, AppendEventEffect
<1>9. EventOf(d, c, "CASE_RELEASED")
        = [kind |-> "CASE_RELEASED", version |-> row.version, previous |-> AuditHead(db, c)]
  BY <1>4, <1>5 DEF EventOf, AuditHead
<1> HIDE DEF e
<1>10. LET g == PutIdempotency(e, r, answer)
       IN  /\ g \in Databases
           /\ g.row = e.row /\ g.audit = e.audit /\ g.certificates = e.certificates
           /\ g.records = e.records \cup {RecordOf(r, answer)}
  BY <1>1, <1>8, PutIdempotencyEffect
<1>11. /\ Released(r, row).request = r
       /\ Released(r, row).answer = answer
       /\ Released(r, row).db = PutIdempotency(e, r, answer)
  BY <1>2 DEF Transaction
<1>12. Leaves(Released(r, row).db, c, row, r, answer)
  BY <1>4, <1>8, <1>10, <1>11 DEF Leaves, rows
<1>13. /\ Released(r, row).db.certificates = db.certificates \cup {new}
       /\ Released(r, row).db.audit = [db.audit EXCEPT ![c] = Append(@,
            [kind |-> "CASE_RELEASED", version |-> row.version, previous |-> AuditHead(db, c)])]
  BY <1>4, <1>8, <1>9, <1>10, <1>11
<1> QED
  BY <1>1, <1>11, <1>12, <1>13 DEF answer, new, c

-----------------------------------------------------------------------------
(* What a transaction leaves, by the database d it leaves.                 *)

\* A retry or a conflict: at most one event more in the log of one case.
LogsOnly(d) ==
  /\ d.row = db.row /\ d.records = db.records /\ d.certificates = db.certificates
  /\ \/ d.audit = db.audit
     \/ \E c \in CaseIds, e \in Events :
          /\ e.kind = "WRITE_CONFLICT" /\ e.version = db.row[c].version
          /\ d.audit = [db.audit EXCEPT ![c] = Append(@, e)]

\* A request carried out: it leaves row in case c and is answered so.
CarriesOut(d, r, c, row, answer) ==
  /\ GetIdempotency(db, r) = {}
  /\ answer.case = c /\ answer.row = row
  /\ d.row = [db.row EXCEPT ![c] = row]
  /\ d.records = db.records \cup {RecordOf(r, answer)}

CarriesOutCreate(d, r, c, row) ==
  /\ r.scope = Create
  /\ ~Exists(db, c)
  /\ row = [version |-> 1, released |-> FALSE, batches |-> <<>>]
  /\ d.certificates = db.certificates
  /\ \E e \in Events : /\ e.kind = "CASE_CREATED" /\ e.version = 1
                       /\ d.audit = [db.audit EXCEPT ![c] = Append(@, e)]

CarriesOutWrite(d, r, c, row) ==
  /\ r.scope = c
  /\ Exists(db, c)
  /\ ExpectedVersion(r, db.row[c])
  /\ ~db.row[c].released
  /\ row \in Outcomes(r.op, db.row[c])
  /\ row = db.row[c] \/ row.version = db.row[c].version + 1
  /\ row.released <=> r.op = "CASE_RELEASED"
  /\ \/ /\ r.op # "CASE_RELEASED"
        /\ d.certificates = db.certificates
        /\ \E after : /\ MutationLog(c, row, r.op, after)
                      /\ d.audit = [db.audit EXCEPT ![c] = after]
     \/ /\ r.op = "CASE_RELEASED"
        /\ d.certificates = db.certificates \cup {Certificate(db, c, row)}
        /\ d.audit = [db.audit EXCEPT ![c] = Append(@,
             [kind |-> "CASE_RELEASED", version |-> row.version, previous |-> AuditHead(db, c)])]

\* The operation of a request fits its scope.
LEMMA RequestsAreRequests ==
  ASSUME NEW r \in Requests
  PROVE  /\ r.scope # Create => r.scope \in CaseIds /\ r.op \in AllOperations
         /\ r.scope \in CaseIds => r.op \in AllOperations /\ r.expected \in 1..MaxVersion
         /\ r.op \in Kinds
  BY ServiceAssumption DEF Requests, Kinds

\* An open transaction does one of these.
LEMMA TransactionCases ==
  ASSUME ServiceInv, tx # None
  PROVE  /\ tx.request \in Requests
         /\ tx.db \in Databases
         /\ \/ /\ LogsOnly(tx.db)
               /\ \/ tx.answer = None
                  \/ \E k \in db.records : RequestOf(k) = tx.request /\ tx.answer = k.answer
            \/ \E c \in CaseIds, row \in Rows :
                 /\ tx.answer \in Answers
                 /\ CarriesOut(tx.db, tx.request, c, row, tx.answer)
                 /\ \/ CarriesOutCreate(tx.db, tx.request, c, row)
                    \/ CarriesOutWrite(tx.db, tx.request, c, row)
<1> DEFINE r == tx.request
<1>2. r \in Requests /\ db \in Databases
  BY DEF ServiceInv, Typed, Legal
<1>3. Replayed \/ Conflicted \/ Opened \/ \E c \in CaseIds, row \in Rows : Writes(c, row)
  BY DEF ServiceInv, Legal
<1>4. CASE Replayed
  BY <1>2, <1>4 DEF Replayed, LogsOnly
<1>5. CASE Conflicted
  <2>1. tx.answer = None
    BY <1>5 DEF Conflicted
  <2>2. PICK c \in CaseIds : Exists(db, c) /\ tx.db = AppendEvent(db, c, "WRITE_CONFLICT")
    BY <1>5 DEF Conflicted
  <2> DEFINE e == EventOf(db, c, "WRITE_CONFLICT")
  <2>3. "WRITE_CONFLICT" \in Kinds
    BY DEF Kinds
  <2>4. /\ tx.db \in Databases
        /\ tx.db.row = db.row /\ tx.db.records = db.records
        /\ tx.db.certificates = db.certificates
        /\ tx.db.audit = [db.audit EXCEPT ![c] = Append(@, e)]
    BY <1>2, <2>2, <2>3, AppendEventEffect
  <2>5. e \in Events /\ e.kind = "WRITE_CONFLICT" /\ e.version = db.row[c].version
    <3>1. db.row[c].version \in 1..MaxVersion /\ AuditHead(db, c) \in Nat
      BY <1>2, <2>2, ServiceAssumption DEF Databases, Rows, Exists, AuditHead
    <3> QED
      BY <3>1 DEF EventOf, Events
  <2> HIDE DEF e
  <2> QED
    <3>1. LogsOnly(tx.db)
      BY <2>4, <2>5 DEF LogsOnly
    <3> QED
      BY <1>2, <2>1, <2>4, <3>1
<1>6. CASE Opened
  <2> DEFINE row == [version |-> 1, released |-> FALSE, batches |-> <<>>]
  <2>1. /\ r.scope = Create /\ GetIdempotency(db, r) = {}
        /\ \E c \in CaseIds : ~Exists(db, c) /\ tx = Created(r, c)
    BY <1>6 DEF Opened
  <2>2. PICK c \in CaseIds : ~Exists(db, c) /\ tx = Created(r, c)
    BY <2>1
  <2> DEFINE answer == Answer(c, row, FALSE)
             e == [kind |-> "CASE_CREATED", version |-> 1, previous |-> AuditHead(db, c)]
  <2>3. /\ tx.answer = answer /\ answer \in Answers
        /\ row \in Rows
        /\ Leaves(tx.db, c, row, r, answer)
        /\ tx.db.certificates = db.certificates
        /\ tx.db.audit = [db.audit EXCEPT ![c] = Append(@, e)]
    <3> HIDE DEF r
    <3> QED
      BY <1>2, <2>2, CreatedEffect
  <2>4. answer.case = c /\ answer.row = row
    BY DEF Answer
  <2>5. e \in Events /\ e.kind = "CASE_CREATED" /\ e.version = 1
    <3>1. AuditHead(db, c) \in Nat
      BY <1>2 DEF Databases, AuditHead
    <3> QED
      BY <3>1, ServiceAssumption DEF Events
  <2> HIDE DEF answer, e
  <2>6. CarriesOut(tx.db, r, c, row, answer)
    BY <2>1, <2>3, <2>4 DEF CarriesOut, Leaves
  <2>7. CarriesOutCreate(tx.db, r, c, row)
    BY <2>1, <2>2, <2>3, <2>5 DEF CarriesOutCreate
  <2> QED
    BY <1>2, <2>3, <2>6, <2>7 DEF Leaves
<1>7. CASE \E c \in CaseIds, row \in Rows : Writes(c, row)
  <2>1. PICK c \in CaseIds, row \in Rows : Writes(c, row)
    BY <1>7
  <2>2. /\ r.scope = c /\ r.scope \in CaseIds /\ r.op \in AllOperations /\ r.op \in Kinds
        /\ GetIdempotency(db, r) = {}
        /\ Exists(db, c)
        /\ ExpectedVersion(r, db.row[c])
        /\ row \in Outcomes(r.op, db.row[c])
        /\ IF r.op = "CASE_RELEASED" THEN tx = Released(r, row)
           ELSE \E failure \in BOOLEAN : tx = Mutated(r, row, failure)
    BY <1>2, <2>1, RequestsAreRequests DEF Writes
  <2>3. db.row[c] \in Rows
    BY <1>2 DEF Databases
  <2>4. /\ ~db.row[c].released
        /\ row = db.row[c] \/ row.version = db.row[c].version + 1
        /\ row.released <=> r.op = "CASE_RELEASED"
    BY <2>2, <2>3, OutcomesAreRows
  <2>5. row.version > 0
    BY <2>2, <2>3, <2>4, ServiceAssumption DEF Exists, Rows
  <2>6. CASE r.op # "CASE_RELEASED"
    <3>1. PICK failure \in BOOLEAN : tx = Mutated(r, row, failure)
      BY <2>2, <2>6
    <3> DEFINE answer == Answer(c, row, failure)
    <3> HIDE DEF r
    <3>2. /\ tx.answer = answer /\ answer \in Answers
          /\ Leaves(tx.db, c, row, r, answer)
          /\ tx.db.certificates = db.certificates
          /\ \E after : /\ tx.db.audit = [db.audit EXCEPT ![c] = after]
                        /\ MutationLog(c, row, r.op, after)
      <4>1. r.scope \in CaseIds /\ r.op \in Kinds
        BY <2>2
      <4>2. LET case == r.scope
                said == Answer(case, row, failure)
                t == Mutated(r, row, failure)
            IN  /\ t.answer = said /\ said \in Answers
                /\ Leaves(t.db, case, row, r, said)
                /\ t.db.certificates = db.certificates
                /\ \E after : /\ t.db.audit = [db.audit EXCEPT ![case] = after]
                              /\ MutationLog(case, row, r.op, after)
        BY <1>2, <2>5, <4>1, MutatedEffect
      <4> QED
        BY <2>2, <3>1, <4>2
    <3>3. answer.case = c /\ answer.row = row
      BY DEF Answer
    <3> HIDE DEF answer
    <3>4. CarriesOut(tx.db, r, c, row, answer)
      BY <2>2, <3>2, <3>3 DEF CarriesOut, Leaves
    <3>5. CarriesOutWrite(tx.db, r, c, row)
      BY <2>2, <2>4, <2>6, <3>2 DEF CarriesOutWrite
    <3> QED
      <4>1. /\ tx.answer \in Answers /\ tx.db \in Databases
            /\ CarriesOut(tx.db, r, c, row, tx.answer)
        BY <3>2, <3>4 DEF Leaves
      <4> QED
        BY <1>2, <3>5, <4>1 DEF r
  <2>7. CASE r.op = "CASE_RELEASED"
    <3> DEFINE answer == Answer(c, row, FALSE)
    <3>1. tx = Released(r, row)
      BY <2>2, <2>7
    <3> HIDE DEF r
    <3>2. /\ tx.answer = answer /\ answer \in Answers
          /\ Leaves(tx.db, c, row, r, answer)
          /\ tx.db.certificates = db.certificates \cup {Certificate(db, c, row)}
          /\ tx.db.audit = [db.audit EXCEPT ![c] = Append(@,
               [kind |-> "CASE_RELEASED", version |-> row.version, previous |-> AuditHead(db, c)])]
      <4>1. r.scope = c /\ r.scope \in CaseIds
        BY <2>2
      <4>2. SerialsHaveNoGap /\ IsFiniteSet(db.certificates)
        BY DEF ServiceInv
      <4> QED
        BY <1>2, <2>5, <3>1, <4>1, <4>2, ReleasedEffect
    <3>3. answer.case = c /\ answer.row = row
      BY DEF Answer
    <3> HIDE DEF answer
    <3>4. CarriesOut(tx.db, r, c, row, answer)
      BY <2>2, <3>2, <3>3 DEF CarriesOut, Leaves
    <3>5. CarriesOutWrite(tx.db, r, c, row)
      BY <2>2, <2>4, <2>7, <3>2 DEF CarriesOutWrite
    <3> QED
      <4>1. /\ tx.answer \in Answers /\ tx.db \in Databases
            /\ CarriesOut(tx.db, r, c, row, tx.answer)
        BY <3>2, <3>4 DEF Leaves
      <4> QED
        BY <1>2, <3>5, <4>1 DEF r
  <2> QED
    BY <2>6, <2>7
<1> QED
  BY <1>3, <1>4, <1>5, <1>6, <1>7

-----------------------------------------------------------------------------
(* The invariant.                                                          *)

\* Versions never go back, and only a release changes the certificates.
LEMMA RowsAfter ==
  ASSUME db \in Databases, NEW d \in Databases, NEW r \in Requests, NEW c \in CaseIds,
         NEW row \in Rows, NEW answer, CarriesOut(d, r, c, row, answer),
         CarriesOutCreate(d, r, c, row) \/ CarriesOutWrite(d, r, c, row)
  PROVE  /\ d.row[c] = row /\ Exists(d, c)
         /\ \A x \in CaseIds : x # c => d.row[x] = db.row[x]
         /\ \A x \in CaseIds : /\ d.row[x].version >= db.row[x].version
                               /\ Exists(db, x) => Exists(d, x)
         /\ \/ d.certificates = db.certificates
            \/ d.certificates = db.certificates \cup {Certificate(db, c, row)}
<1>1. d.row[c] = row /\ \A x \in CaseIds : x # c => d.row[x] = db.row[x]
  BY DEF CarriesOut, Databases
<1>2. \A x \in CaseIds : db.row[x].version \in Nat
  BY ServiceAssumption DEF Databases, Rows
<1>3. row.version > 0 /\ row.version >= db.row[c].version
  BY <1>2 DEF CarriesOutCreate, CarriesOutWrite, Exists
<1>4. \/ d.certificates = db.certificates
      \/ d.certificates = db.certificates \cup {Certificate(db, c, row)}
  BY DEF CarriesOutCreate, CarriesOutWrite
<1>5. \A x \in CaseIds : /\ d.row[x].version >= db.row[x].version
                         /\ Exists(db, x) => Exists(d, x)
  BY <1>1, <1>2, <1>3 DEF Exists
<1>6. Exists(d, c)
  BY <1>1, <1>3 DEF Exists
<1> QED
  BY <1>1, <1>4, <1>5, <1>6

\* The next certificate gets the next number.
LEMMA SerialsAfter ==
  ASSUME SerialsHaveNoGap, IsFiniteSet(db.certificates), NEW c, NEW row,
         db'.certificates = db.certificates \cup {Certificate(db, c, row)}
  PROVE  SerialsHaveNoGap' /\ IsFiniteSet(db'.certificates)
<1> DEFINE n == Cardinality(db.certificates)
           new == Certificate(db, c, row)
<1>1. n \in Nat /\ new.serial = n + 1
  BY NextSerialIsNext DEF Certificate
<1>2. {x.serial : x \in db.certificates} = 1..n
      /\ \A x, y \in db.certificates : x.serial = y.serial => x = y
  BY DEF SerialsHaveNoGap
<1>3. new \notin db.certificates
  BY <1>1, <1>2
<1>4. IsFiniteSet(db'.certificates) /\ Cardinality(db'.certificates) = n + 1
  BY <1>3, FS_AddElement
<1> HIDE DEF n, new
<1>a. db'.certificates = db.certificates \cup {new}
  BY DEF new
<1>5. {x.serial : x \in db'.certificates} = 1..(n + 1)
  <2>1. {x.serial : x \in db'.certificates} = (1..n) \cup {n + 1}
    BY <1>1, <1>2, <1>a
  <2> QED
    BY <1>1, <2>1
<1>6. \A x \in db.certificates : x.serial # new.serial
  BY <1>1, <1>2
<1>7. \A x, y \in db'.certificates : x.serial = y.serial => x = y
  BY <1>2, <1>6, <1>a
<1> QED
  BY <1>4, <1>5, <1>7 DEF SerialsHaveNoGap

\* The invariant holds at first.
LEMMA ServiceInit == Init => ServiceInv
<1> SUFFICES ASSUME Init PROVE ServiceInv
  OBVIOUS
<1>1. db.certificates = {} /\ db.records = {} /\ tx = None /\ answers = {}
      /\ views = [rd \in Readers |-> None]
  BY DEF Init
<1>2. db \in Databases
  <2>1. NoRow \in Rows
    BY ServiceAssumption DEF NoRow, Rows
  <2>2. [c \in CaseIds |-> NoRow] \in [CaseIds -> Rows]
    BY <2>1
  <2>3. [c \in CaseIds |-> <<>>] \in [CaseIds -> Seq(Events)]
    OBVIOUS
  <2> QED
    BY <2>2, <2>3 DEF Init, Databases
<1>3. Typed
  BY <1>1, <1>2 DEF Typed
<1>4. Grounded /\ Legal
  <2>1. \A c \in CaseIds : db.row[c].released = FALSE
    BY DEF Init, NoRow
  <2> QED
    BY <1>1, <2>1 DEF Grounded, Legal
<1>5. IsFiniteSet(db.certificates) /\ Cardinality(db.certificates) = 0
  BY <1>1, FS_EmptySet
<1>6. SerialsHaveNoGap
  BY <1>1, <1>5 DEF SerialsHaveNoGap
<1> QED
  BY <1>3, <1>4, <1>5, <1>6 DEF ServiceInv

\* Beginning a transaction, of whatever kind.
Begin ==
  \/ \E r \in Requests : BeginKnown(r)
  \/ \E r \in Requests, c \in CaseIds : BeginCreate(r, c) \/ BeginOutdated(r, c) \/ BeginWrite(r, c)

\* What a transaction holds when it is opened is one of the four things of Legal.
LEMMA BeginIsLegal ==
  ASSUME ServiceInv, Begin
  PROVE  Legal' /\ UNCHANGED <<db, answers, views>>
<1>0. db \in Databases /\ Grounded
  BY DEF ServiceInv, Typed
<1>1. ASSUME NEW r \in Requests, BeginKnown(r)
      PROVE  Legal' /\ UNCHANGED <<db, answers, views>>
  <2>1. UNCHANGED <<db, answers, views>>
    BY <1>1 DEF BeginKnown
  <2>2. PICK k \in GetIdempotency(db, r) : tx' = Known(r, k)
    BY <1>1 DEF BeginKnown
  <2>3. /\ k \in db.records /\ k.scope = r.scope /\ k.key = r.key
        /\ Exists(db, k.answer.case) /\ k.answer.case \in CaseIds
    BY <1>0, <2>2 DEF GetIdempotency, Grounded, Databases, Records, Answers
  <2>4. CASE Replay(r, k)
    <3>1. tx'.request = r /\ tx'.db = db /\ tx'.answer = k.answer
      BY <2>2, <2>4 DEF Known, Transaction
    <3>2. RequestOf(k) = r
      BY <2>3, <2>4, ReplayIsSameRequest
    <3>3. Replayed'
      BY <2>1, <2>3, <3>1, <3>2 DEF Replayed
    <3> QED
      BY <2>1, <3>1, <3>3 DEF Legal
  <2>5. CASE ~Replay(r, k)
    <3>1. /\ tx'.request = r /\ tx'.answer = None
          /\ tx'.db = AppendEvent(db, k.answer.case, "WRITE_CONFLICT")
      BY <2>2, <2>5 DEF Known, Transaction
    <3>2. Conflicted'
      BY <2>1, <2>3, <3>1 DEF Conflicted
    <3> QED
      BY <2>1, <3>1, <3>2 DEF Legal
  <2> QED
    BY <2>4, <2>5
<1>2. ASSUME NEW r \in Requests, NEW c \in CaseIds, BeginCreate(r, c)
      PROVE  Legal' /\ UNCHANGED <<db, answers, views>>
  <2>1. /\ UNCHANGED <<db, answers, views>>
        /\ r.scope = Create /\ GetIdempotency(db, r) = {} /\ ~Exists(db, c)
        /\ tx' = Created(r, c)
    BY <1>2 DEF BeginCreate
  <2>2. tx'.request = r
    BY <2>1 DEF Created, Transaction
  <2>3. Opened'
    <3>1. Created(r, c)' = Created(r, c)
      BY <2>1 DEF Created
    <3> QED
      BY <2>1, <2>2, <3>1 DEF Opened, Exists, GetIdempotency
  <2> QED
    BY <2>1, <2>2, <2>3 DEF Legal
<1>3. ASSUME NEW r \in Requests, NEW c \in CaseIds, BeginOutdated(r, c)
      PROVE  Legal' /\ UNCHANGED <<db, answers, views>>
  <2>1. /\ UNCHANGED <<db, answers, views>>
        /\ r.scope = c /\ Exists(db, c)
        /\ tx' = Outdated(r)
    BY <1>3 DEF BeginOutdated, Loads
  <2>2. /\ tx'.request = r /\ tx'.answer = None
        /\ tx'.db = AppendEvent(db, c, "WRITE_CONFLICT")
    BY <2>1 DEF Outdated, Transaction
  <2>3. Conflicted'
    BY <2>1, <2>2 DEF Conflicted
  <2> QED
    BY <2>1, <2>2, <2>3 DEF Legal
<1>4. ASSUME NEW r \in Requests, NEW c \in CaseIds, BeginWrite(r, c)
      PROVE  Legal' /\ UNCHANGED <<db, answers, views>>
  <2>1. /\ UNCHANGED <<db, answers, views>>
        /\ r.scope = c /\ GetIdempotency(db, r) = {} /\ Exists(db, c)
        /\ ExpectedVersion(r, db.row[c])
    BY <1>4 DEF BeginWrite, Loads
  <2>2. PICK row \in Outcomes(r.op, db.row[c]), failure \in Failures(r.op) :
          tx' = IF r.op = "CASE_RELEASED" THEN Released(r, row) ELSE Mutated(r, row, failure)
    BY <1>4 DEF BeginWrite
  <2>3. tx'.request = r
    BY <2>2 DEF Released, Mutated, Transaction
  <2>4. failure \in BOOLEAN
    BY <2>2 DEF Failures
  <2>5. row \in Rows
    <3>1. r.op \in AllOperations /\ db.row[c] \in Rows
      BY <1>0, <2>1, RequestsAreRequests DEF Databases
    <3> QED
      BY <3>1, OutcomesAreRows
  <2>6. IF r.op = "CASE_RELEASED" THEN tx' = Released(r, row)
        ELSE \E x \in BOOLEAN : tx' = Mutated(r, row, x)
    BY <2>2, <2>4
  <2>7. Writes(c, row)'
    BY <2>1, <2>2, <2>3, <2>6 DEF Writes, Released, Mutated
  <2> QED
    BY <2>1, <2>3, <2>5, <2>7 DEF Legal
<1> QED
  BY <1>1, <1>2, <1>3, <1>4 DEF Begin

\* A commit keeps the invariant: the only step that changes the database.
LEMMA CommitKeepsInv == ServiceInv /\ Commit => ServiceInv'
<1> SUFFICES ASSUME ServiceInv, Commit PROVE ServiceInv'
  OBVIOUS
<1> DEFINE r == tx.request
<1>1. /\ tx # None /\ db' = tx.db /\ tx' = None /\ UNCHANGED views
      /\ answers' = IF tx.answer = None THEN answers
                    ELSE answers \cup {[request |-> r, answer |-> tx.answer]}
  BY DEF Commit
<1>2. r \in Requests /\ tx.db \in Databases /\ db \in Databases
  BY <1>1, TransactionCases DEF ServiceInv, Typed
<1>3. Legal'
  BY <1>1 DEF Legal
<1>4. /\ SerialsHaveNoGap /\ IsFiniteSet(db.certificates)
      /\ answers \subseteq [request : Requests, answer : Answers]
      /\ views \in [Readers -> Views \cup {None}]
      /\ Grounded
  BY DEF ServiceInv, Typed
<1> DEFINE Done(c, row) ==
             /\ tx.answer \in Answers
             /\ CarriesOut(tx.db, r, c, row, tx.answer)
             /\ CarriesOutCreate(tx.db, r, c, row) \/ CarriesOutWrite(tx.db, r, c, row)
<1>5. \/ /\ LogsOnly(tx.db)
         /\ \/ tx.answer = None
            \/ \E k \in db.records : RequestOf(k) = r /\ tx.answer = k.answer
      \/ \E c \in CaseIds, row \in Rows : Done(c, row)
  BY <1>1, TransactionCases
<1>6. tx.answer # None => tx.answer \in Answers
  <2>1. \A k \in db.records : k.answer \in Answers
    BY <1>2 DEF Databases, Records
  <2> QED
    BY <1>5, <2>1
<1>7. Typed'
  BY <1>1, <1>2, <1>4, <1>6 DEF Typed
<1>8. CASE LogsOnly(tx.db)
  <2>1. db'.row = db.row /\ db'.records = db.records /\ db'.certificates = db.certificates
    BY <1>1, <1>8 DEF LogsOnly
  <2>2. Grounded'
    BY <1>1, <1>4, <2>1 DEF Grounded, Exists
  <2>3. SerialsHaveNoGap' /\ IsFiniteSet(db'.certificates)
    BY <1>4, <2>1 DEF SerialsHaveNoGap
  <2> QED
    BY <1>3, <1>7, <2>2, <2>3 DEF ServiceInv
<1>9. ASSUME NEW c \in CaseIds, NEW row \in Rows, Done(c, row)
      PROVE  ServiceInv'
  <2>1. /\ Exists(tx.db, c)
        /\ \A x \in CaseIds : Exists(db, x) => Exists(tx.db, x)
        /\ \A x \in CaseIds : x # c => tx.db.row[x] = db.row[x]
        /\ \/ tx.db.certificates = db.certificates
           \/ tx.db.certificates = db.certificates \cup {Certificate(db, c, row)}
    <3> HIDE DEF r
    <3> QED
      BY <1>2, <1>9, RowsAfter
  <2>2. Grounded'
    <3>1. /\ tx.db.records = db.records \cup {RecordOf(r, tx.answer)}
          /\ tx.answer.case = c
      BY <1>9 DEF CarriesOut
    <3>2. \A k \in db.records : k.answer.case \in CaseIds
      BY <1>2 DEF Databases, Records, Answers
    <3>3. \A rd \in Readers : views[rd] # None => views[rd].case \in CaseIds
      BY <1>4 DEF Views
    <3>4. \A k \in tx.db.records : Exists(tx.db, k.answer.case)
      BY <1>4, <2>1, <3>1, <3>2 DEF Grounded, RecordOf
    <3>5. \A rd \in Readers : views[rd] # None => Exists(tx.db, views[rd].case)
      BY <1>4, <2>1, <3>3 DEF Grounded
    <3>6. \A x \in CaseIds : tx.db.row[x].released => Exists(tx.db, x)
      BY <1>4, <2>1 DEF Grounded
    <3> QED
      BY <1>1, <3>4, <3>5, <3>6 DEF Grounded, Exists
  <2>3. SerialsHaveNoGap' /\ IsFiniteSet(db'.certificates)
    <3>1. CASE tx.db.certificates = db.certificates
      BY <1>1, <1>4, <3>1 DEF SerialsHaveNoGap
    <3>2. CASE tx.db.certificates = db.certificates \cup {Certificate(db, c, row)}
      BY <1>1, <1>4, <3>2, SerialsAfter
    <3> QED
      BY <2>1, <3>1, <3>2
  <2> QED
    BY <1>3, <1>7, <2>2, <2>3 DEF ServiceInv
<1> QED
  BY <1>5, <1>8, <1>9

\* So do the readers.
LEMMA ReadersKeepInv ==
  ASSUME ServiceInv, NEW rd \in Readers,
         Query(rd) \/ \E c \in CaseIds : BeginView(rd, c)
  PROVE  ServiceInv'
<1>1. tx = None /\ UNCHANGED <<db, tx, answers>>
  BY DEF Query, BeginView
<1>2. db \in Databases /\ views \in [Readers -> Views \cup {None}] /\ Grounded
  BY DEF ServiceInv, Typed
<1>3. CASE Query(rd)
  <2>1. /\ views[rd] # None /\ views[rd] \in Views
        /\ views' = [views EXCEPT ![rd].seen = Append(@, db.row[views[rd].case].version)]
    BY <1>2, <1>3 DEF Query
  <2>2. /\ Exists(db, views[rd].case) /\ views[rd].case \in CaseIds
        /\ views[rd].seen \in Seq(1..MaxVersion)
    BY <1>2, <2>1 DEF Grounded, Views
  <2>3. db.row[views[rd].case].version \in 1..MaxVersion
    BY <1>2, <2>2, ServiceAssumption DEF Exists, Databases, Rows
  <2>4. /\ views'[rd] \in Views /\ views'[rd].case = views[rd].case
        /\ \A x \in Readers : x # rd => views'[x] = views[x]
        /\ views' \in [Readers -> Views \cup {None}]
    <3>1. Append(views[rd].seen, db.row[views[rd].case].version) \in Seq(1..MaxVersion)
      BY <2>2, <2>3
    <3> DEFINE new == [views[rd] EXCEPT !.seen = Append(@, db.row[views[rd].case].version)]
    <3>2. views' = [views EXCEPT ![rd] = new]
      BY <2>1
    <3>3. new \in Views /\ new.case = views[rd].case
      BY <2>1, <3>1 DEF Views
    <3> HIDE DEF new
    <3> QED
      BY <1>2, <3>2, <3>3
  <2>5. Grounded'
    BY <1>1, <1>2, <2>2, <2>4 DEF Grounded, Exists
  <2> QED
    BY <1>1, <2>4, <2>5 DEF ServiceInv, Typed, Legal, SerialsHaveNoGap
<1>4. ASSUME NEW c \in CaseIds, BeginView(rd, c)
      PROVE  ServiceInv'
  <2>1. Exists(db, c) /\ views' = [views EXCEPT ![rd] = [case |-> c, seen |-> <<>>]]
    BY <1>4 DEF BeginView
  <2>2. [case |-> c, seen |-> <<>>] \in Views
    BY DEF Views
  <2>3. /\ views'[rd].case = c
        /\ \A x \in Readers : x # rd => views'[x] = views[x]
        /\ views' \in [Readers -> Views \cup {None}]
    BY <1>2, <2>1, <2>2
  <2>4. Grounded'
    BY <1>1, <1>2, <2>1, <2>3 DEF Grounded, Exists
  <2> QED
    BY <1>1, <2>3, <2>4 DEF ServiceInv, Typed, Legal, SerialsHaveNoGap
<1> QED
  BY <1>3, <1>4

\* Every step is one of these.
LEMMA ServiceSteps ==
  ASSUME [Next]_vars
  PROVE  \/ Begin \/ Commit \/ Abort \/ UNCHANGED vars
         \/ \E rd \in Readers : Query(rd) \/ \E c \in CaseIds : BeginView(rd, c)
  BY DEF Next, Begin

\* The invariant holds in every behaviour.
LEMMA ServiceInvariant == Spec => []ServiceInv
<1>1. ServiceInv /\ [Next]_vars => ServiceInv'
  <2> SUFFICES ASSUME ServiceInv, [Next]_vars PROVE ServiceInv'
    OBVIOUS
  <2>1. CASE Begin
    <3>1. Legal' /\ UNCHANGED <<db, answers, views>>
      BY <2>1, BeginIsLegal
    <3> QED
      BY <3>1 DEF ServiceInv, Typed, Grounded, Exists, SerialsHaveNoGap
  <2>2. CASE Commit
    BY <2>2, CommitKeepsInv
  <2>3. CASE Abort
    BY <2>3 DEF Abort, ServiceInv, Typed, Grounded, Exists, Legal, SerialsHaveNoGap
  <2>4. CASE UNCHANGED vars
    <3>1. UNCHANGED <<db, tx, answers, views>>
      BY <2>4 DEF vars
    <3>2. Legal'
      <4>1. Legal
        BY DEF ServiceInv
      <4> QED
        BY <3>1, <4>1 DEF Legal, Replayed, Conflicted, Opened, Writes, Exists, GetIdempotency,
           Created, Released, Mutated
    <3> QED
      BY <3>1, <3>2 DEF ServiceInv, Typed, Grounded, Exists, SerialsHaveNoGap
  <2> QED
    BY <2>1, <2>2, <2>3, <2>4, ReadersKeepInv, ServiceSteps
<1> QED
  BY <1>1, ServiceInit, PTL DEF Spec

\* Every table, answer and view has its shape, in an open transaction as well.
THEOREM ServiceTypeCorrect == Spec => []TypeOK
<1>1. ServiceInv => TypeOK
  <2> SUFFICES ASSUME ServiceInv PROVE TypeOK
    OBVIOUS
  <2>1. Typed
    BY DEF ServiceInv
  <2>2. ASSUME tx # None
        PROVE  tx.request \in Requests /\ tx.db \in Databases
               /\ (tx.answer # None => tx.answer \in Answers)
    <3>1. \A k \in db.records : k.answer \in Answers
      BY <2>1 DEF Typed, Databases, Records
    <3> QED
      BY <2>2, <3>1, TransactionCases
  <2> QED
    BY <2>1, <2>2 DEF TypeOK, Typed
<1> QED
  BY <1>1, ServiceInvariant, PTL

\* Certificates are numbered 1, 2, 3, ... without a gap, whatever was rolled back.
THEOREM SerialsAreCounted == Spec => []SerialsHaveNoGap
<1>1. ServiceInv => SerialsHaveNoGap
  BY DEF ServiceInv
<1> QED
  BY <1>1, ServiceInvariant, PTL

-----------------------------------------------------------------------------
(* What clients rely on.                                                   *)

\* Nothing but a commit touches the database or sends an answer.
LEMMA OnlyCommitsCount ==
  ASSUME [Next]_vars
  PROVE  Commit \/ UNCHANGED <<db, answers>>
  BY DEF Next, BeginKnown, BeginCreate, BeginOutdated, BeginWrite, Abort, Query, BeginView, vars

\* A request carried out, as a step of the database.
Executed(r, c, row) ==
  /\ r \in Requests /\ c \in CaseIds /\ row \in Rows
  /\ tx.answer \in Answers
  /\ answers' \subseteq answers \cup {[request |-> r, answer |-> tx.answer]}
  /\ CarriesOut(db', r, c, row, tx.answer)
  /\ CarriesOutCreate(db', r, c, row) \/ CarriesOutWrite(db', r, c, row)

\* A commit carries out a request, or leaves everything but a log as it is.
LEMMA CommitCases ==
  ASSUME ServiceInv, Commit
  PROVE  /\ db' \in Databases
         /\ \/ /\ LogsOnly(db')
               /\ \/ answers' = answers
                  \/ \E k \in db.records :
                       answers' = answers \cup {[request |-> RequestOf(k), answer |-> k.answer]}
            \/ \E r \in Requests, c \in CaseIds, row \in Rows : Executed(r, c, row)
<1>1. /\ tx # None /\ db' = tx.db
      /\ answers' = IF tx.answer = None THEN answers
                    ELSE answers \cup {[request |-> tx.request, answer |-> tx.answer]}
  BY DEF Commit
<1>2. tx.request \in Requests /\ tx.db \in Databases
  BY <1>1, TransactionCases
<1>3. answers' \subseteq answers \cup {[request |-> tx.request, answer |-> tx.answer]}
  BY <1>1
<1>4. ASSUME NEW k \in db.records, RequestOf(k) = tx.request, tx.answer = k.answer
      PROVE  \/ answers' = answers
             \/ answers' = answers \cup {[request |-> RequestOf(k), answer |-> k.answer]}
  BY <1>1, <1>4
<1>5. ASSUME NEW c \in CaseIds, NEW row \in Rows,
             tx.answer \in Answers,
             CarriesOut(tx.db, tx.request, c, row, tx.answer),
             CarriesOutCreate(tx.db, tx.request, c, row) \/ CarriesOutWrite(tx.db, tx.request, c, row)
      PROVE  Executed(tx.request, c, row)
  BY <1>1, <1>2, <1>3, <1>5 DEF Executed
<1>6. \/ /\ LogsOnly(tx.db)
         /\ \/ tx.answer = None
            \/ \E k \in db.records : RequestOf(k) = tx.request /\ tx.answer = k.answer
      \/ \E c \in CaseIds, row \in Rows :
           /\ tx.answer \in Answers
           /\ CarriesOut(tx.db, tx.request, c, row, tx.answer)
           /\ CarriesOutCreate(tx.db, tx.request, c, row) \/ CarriesOutWrite(tx.db, tx.request, c, row)
  BY <1>1, TransactionCases
<1> QED
  BY <1>1, <1>2, <1>4, <1>5, <1>6

\* Whatever answer a client may have had is on record under its key, once.
THEOREM AnswersStayOnRecord == Spec => []AnswersAreRecorded
<1>1. Init => AnswersAreRecorded
  BY DEF Init, AnswersAreRecorded
<1>2. ServiceInv /\ AnswersAreRecorded /\ [Next]_vars => AnswersAreRecorded'
  <2> SUFFICES ASSUME ServiceInv, AnswersAreRecorded, [Next]_vars PROVE AnswersAreRecorded'
    OBVIOUS
  <2>1. CASE UNCHANGED <<db, answers>>
    BY <2>1 DEF AnswersAreRecorded
  <2>2. ASSUME LogsOnly(db'),
               \/ answers' = answers
               \/ \E k \in db.records :
                    answers' = answers \cup {[request |-> RequestOf(k), answer |-> k.answer]}
        PROVE  AnswersAreRecorded'
    BY <2>2 DEF LogsOnly, AnswersAreRecorded
  <2>3. ASSUME NEW r \in Requests, NEW c \in CaseIds, NEW row \in Rows, Executed(r, c, row)
        PROVE  AnswersAreRecorded'
    <3> DEFINE new == RecordOf(r, tx.answer)
    <3>1. /\ db'.records = db.records \cup {new}
          /\ GetIdempotency(db, r) = {}
          /\ answers' \subseteq answers \cup {[request |-> r, answer |-> tx.answer]}
      BY <2>3 DEF Executed, CarriesOut
    <3>2. new.scope = r.scope /\ new.key = r.key /\ new.answer = tx.answer /\ RequestOf(new) = r
      BY RequestOfRecord DEF RecordOf
    <3> HIDE DEF new
    <3>3. \A k \in db.records : ~(k.scope = new.scope /\ k.key = new.key)
      BY <3>1, <3>2 DEF GetIdempotency
    <3>4. \A k, l \in db'.records : k.scope = l.scope /\ k.key = l.key => k = l
      BY <3>1, <3>3 DEF AnswersAreRecorded
    <3>5. \A a \in answers' : \E k \in db'.records : RequestOf(k) = a.request /\ k.answer = a.answer
      <4>1. \A a \in answers : \E k \in db'.records : RequestOf(k) = a.request /\ k.answer = a.answer
        BY <3>1 DEF AnswersAreRecorded
      <4>2. ASSUME NEW a \in answers', a \notin answers
            PROVE  a.request = r /\ a.answer = tx.answer
        <5>1. a = [request |-> r, answer |-> tx.answer]
          BY <3>1, <4>2
        <5> QED
          BY <5>1
      <4> QED
        BY <3>1, <3>2, <4>1, <4>2
    <3> QED
      BY <3>4, <3>5 DEF AnswersAreRecorded
  <2> QED
    BY <2>1, <2>2, <2>3, OnlyCommitsCount, CommitCases
<1> QED
  BY <1>1, <1>2, ServiceInvariant, PTL DEF Spec

\* A released case keeps its row, versions never go back, and the log, the records
\* and the certificates only grow.
THEOREM ReleasesAreFinal == Spec => ReleaseIsFinal
<1>1. ServiceInv /\ [Next]_vars => [KeepsReleases]_vars
  <2> SUFFICES ASSUME ServiceInv, [Next]_vars PROVE KeepsReleases
    OBVIOUS
  <2>0. /\ db \in Databases
        /\ \A c \in CaseIds : db.row[c].version \in Nat /\ db.audit[c] \in Seq(Events)
    BY ServiceAssumption DEF ServiceInv, Typed, Databases, Rows
  <2>1. CASE UNCHANGED <<db, answers>>
    BY <2>0, <2>1 DEF KeepsReleases
  <2>2. ASSUME NEW log \in Seq(Events), NEW e, NEW f
        PROVE  \A i \in DOMAIN log : /\ Append(log, e)[i] = log[i]
                                     /\ Append(Append(log, e), f)[i] = log[i]
    OBVIOUS
  <2>3. ASSUME LogsOnly(db')
        PROVE  KeepsReleases
    <3>1. \A c \in CaseIds : \A i \in DOMAIN db.audit[c] : db'.audit[c][i] = db.audit[c][i]
      <4>1. CASE db'.audit = db.audit
        BY <4>1
      <4>2. ASSUME NEW c \in CaseIds, NEW e \in Events,
                   db'.audit = [db.audit EXCEPT ![c] = Append(@, e)]
            PROVE  \A x \in CaseIds : \A i \in DOMAIN db.audit[x] : db'.audit[x][i] = db.audit[x][i]
        BY <2>0, <2>2, <4>2 DEF Databases
      <4> QED
        BY <2>3, <4>1, <4>2 DEF LogsOnly
    <3> QED
      BY <2>0, <2>3, <3>1 DEF LogsOnly, KeepsReleases
  <2>4. ASSUME NEW r \in Requests, NEW c \in CaseIds, NEW row \in Rows, Executed(r, c, row),
               db' \in Databases
        PROVE  KeepsReleases
    <3>1. /\ \A x \in CaseIds : x # c => db'.row[x] = db.row[x]
          /\ \A x \in CaseIds : db'.row[x].version >= db.row[x].version
          /\ db.certificates \subseteq db'.certificates
          /\ db.records \subseteq db'.records
      BY <2>0, <2>4, RowsAfter DEF Executed, CarriesOut
    <3>2. ~db.row[c].released
      <4>1. CASE CarriesOutWrite(db', r, c, row)
        BY <4>1 DEF CarriesOutWrite
      <4>2. CASE CarriesOutCreate(db', r, c, row)
        <5>1. ~Exists(db, c)
          BY <4>2 DEF CarriesOutCreate
        <5> QED
          BY <5>1 DEF ServiceInv, Grounded
      <4> QED
        BY <2>4, <4>1, <4>2 DEF Executed
    <3>3. PICK after : /\ db'.audit = [db.audit EXCEPT ![c] = after]
                       /\ \E e, f : \/ after = Append(db.audit[c], e)
                                    \/ after = Append(Append(db.audit[c], e), f)
      <4> DEFINE Longer(after) == \E e, f : \/ after = Append(db.audit[c], e)
                                            \/ after = Append(Append(db.audit[c], e), f)
      <4>a. ASSUME NEW e, db'.audit = [db.audit EXCEPT ![c] = Append(@, e)]
            PROVE  \E after : db'.audit = [db.audit EXCEPT ![c] = after] /\ Longer(after)
        <5>1. Longer(Append(db.audit[c], e))
          OBVIOUS
        <5> HIDE DEF Longer
        <5> QED
          BY <4>a, <5>1
      <4>b. ASSUME NEW after, MutationLog(c, row, r.op, after)
            PROVE  Longer(after)
        BY <4>b DEF MutationLog
      <4> HIDE DEF Longer
      <4>1. ASSUME CarriesOutWrite(db', r, c, row)
            PROVE  \E x : db'.audit = [db.audit EXCEPT ![c] = x] /\ Longer(x)
        <5>1. \/ \E after : /\ MutationLog(c, row, r.op, after)
                            /\ db'.audit = [db.audit EXCEPT ![c] = after]
              \/ \E e : db'.audit = [db.audit EXCEPT ![c] = Append(@, e)]
          BY <4>1 DEF CarriesOutWrite
        <5>2. ASSUME NEW after, MutationLog(c, row, r.op, after),
                     db'.audit = [db.audit EXCEPT ![c] = after]
              PROVE  \E x : db'.audit = [db.audit EXCEPT ![c] = x] /\ Longer(x)
          BY <4>b, <5>2
        <5>3. ASSUME NEW e, db'.audit = [db.audit EXCEPT ![c] = Append(@, e)]
              PROVE  \E x : db'.audit = [db.audit EXCEPT ![c] = x] /\ Longer(x)
          BY <4>a, <5>3
        <5> QED
          BY <5>1, <5>2, <5>3
      <4>2. ASSUME CarriesOutCreate(db', r, c, row)
            PROVE  \E x : db'.audit = [db.audit EXCEPT ![c] = x] /\ Longer(x)
        BY <4>2, <4>a DEF CarriesOutCreate
      <4> QED
        BY <2>4, <4>1, <4>2 DEF Executed, Longer
    <3>4. \A i \in DOMAIN db.audit[c] : after[i] = db.audit[c][i]
      <4>1. PICK e, f : \/ after = Append(db.audit[c], e)
                         \/ after = Append(Append(db.audit[c], e), f)
        BY <3>3
      <4>2. db.audit[c] \in Seq(Events)
        BY <2>0
      <4>3. \A i \in DOMAIN db.audit[c] : /\ Append(db.audit[c], e)[i] = db.audit[c][i]
                                         /\ Append(Append(db.audit[c], e), f)[i] = db.audit[c][i]
        BY <2>2, <4>2
      <4> QED
        BY <4>1, <4>3
    <3>5. \A x \in CaseIds : \A i \in DOMAIN db.audit[x] : db'.audit[x][i] = db.audit[x][i]
      BY <2>0, <3>3, <3>4 DEF Databases
    <3> QED
      BY <3>1, <3>2, <3>5 DEF KeepsReleases
  <2> QED
    BY <2>1, <2>3, <2>4, OnlyCommitsCount, CommitCases
<1> QED
  BY <1>1, ServiceInvariant, PTL DEF Spec, ReleaseIsFinal
=============================================================================
