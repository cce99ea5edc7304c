---------------------------- MODULE AuditReaders ----------------------------
(***************************************************************************)
(* The readers of a case and of its audit log beside its writers.  Every   *)
(* call needs the one database connection: a write keeps it for its whole  *)
(* transaction, a read takes it for each of its queries, so a write may    *)
(* come between two queries of a read.  Clients go away in the middle of a *)
(* call, the server is stopped and started, and stored rows get damaged,   *)
(* which is what the digests are there for.  Of the aggregate only its     *)
(* version and release are kept; RiggingService has the rest of a write.   *)
(***************************************************************************)
EXTENDS AuditChain, FiniteSets

CONSTANTS
  Readers, Writers,    \* clients, by what they do
  None,                \* nobody
  MaxEvents,           \* bound on the audit events of the case
  MaxFaults,           \* bound on the damages of stored rows
  ReadDamaged          \* bound: do readers call on damaged tables as well?

ASSUME ReadersAssumption ==
  /\ Readers \cap Writers = {}
  /\ None \notin Readers \cup Writers
  /\ MaxEvents \in Nat \ {0}
  /\ MaxFaults \in Nat
  /\ ReadDamaged \in BOOLEAN

VARIABLES
  stored,    \* the tables: [version, released, certificate, events]
  conn,      \* the client whose query or transaction has the connection
  staged,    \* the tables as the open transaction would leave them, or NoTables
  calls,     \* for each client its call, or NoCall
  phase,     \* "serving", "draining" or "down"
  written,   \* history: the events ever written
  sealed,    \* history: the log the certificate was issued on, its event included
  faults     \* history: the number of damages

vars == <<stored, conn, staged, calls, phase, written, sealed, faults>>

Clients == Readers \cup Writers

-----------------------------------------------------------------------------
(* The tables.                                                             *)

\* Not found: the versions of certificates start at 2.
NoCertificate ==
  [version |-> 0, digest |-> EmptyDigest, head |-> NoDigest, snapshot |-> [version |-> 0, text |-> ""]]

NoTables == [version |-> 0, released |-> FALSE, certificate |-> NoCertificate, events |-> <<>>]

NewEvent(sequence, kind, version, head) ==
  [sequence |-> sequence, kind |-> kind, version |-> version, payload |-> "written",
   previous |-> head, digest |-> EventDigest(head, version, kind, "written")]

FirstEvent == NewEvent(1, "CASE_CREATED", 1, NoDigest)

\* AuditHead: the row with the highest number, which is the last one.
AuditHead(events) ==
  IF events = <<>> THEN [digest |-> NoDigest, sequence |-> 0]
  ELSE [digest |-> Last(events).digest, sequence |-> Last(events).sequence]

Following(events, kind, version) ==
  LET head == AuditHead(events) IN NewEvent(head.sequence + 1, kind, version, head.digest)

\* The tables after an event was appended to them; digests are UNIQUE.
AppendEvent(tables, kind) ==
  LET e == Following(tables.events, kind, tables.version)
  IN  IF \E f \in Range(tables.events) : f.digest = e.digest THEN {}
      ELSE {[tables EXCEPT !.events = Append(@, e)]}

Certificate(tables) ==
  LET snapshot == [version |-> tables.version + 1, text |-> "frozen"]
  IN  [version |-> tables.version + 1, digest |-> SnapshotDigest(snapshot),
       head |-> AuditHead(tables.events).digest, snapshot |-> snapshot]

NextVersion(tables) == [tables EXCEPT !.version = @ + 1]

\* An accepted edit; one that makes the latest batch stale logs that as well.
Edited(tables) ==
  LET once == AppendEvent(NextVersion(tables), "CHANGE_SET_APPLIED")
  IN  once \cup UNION {AppendEvent(t, "VALIDATION_BATCH_STALE") : t \in once}

ReleasedCase(tables) ==
  AppendEvent([NextVersion(tables) EXCEPT !.released = TRUE, !.certificate = Certificate(tables)],
              "CASE_RELEASED")

\* What a write may leave: a logged conflict, an accepted edit, a release.
Writes(tables) ==
  LET accepted == IF tables.released THEN {} ELSE Edited(tables) \cup ReleasedCase(tables)
  IN  {t \in AppendEvent(tables, "WRITE_CONFLICT") \cup accepted : Len(t.events) <= MaxEvents}

-----------------------------------------------------------------------------
(* Calls.  A read is a list of queries.  Most are over at once; the ids of *)
(* the cases and the batches of a case are read through a cursor that      *)
(* keeps the connection until it is closed.                                *)

Cursors == {"ids", "batches"}

\* loadCase; the issues of the batches are read once the batches are closed.
LoadCase == <<"row", "batches", "close", "issues", "certificate">>

\* Variant: the cursor over the ids is closed when the call returns.
ListCasesDeferred == <<"ids">> \o LoadCase \o <<"close">>

ListCases == <<"ids", "close">> \o LoadCase

GetCase == LoadCase \o <<"events", "snapshot">>

\* Variant: the log is read before the case.
IntegrityLogFirst == <<"events">> \o LoadCase \o <<"snapshot">>

VerifyIntegrity == LoadCase \o <<"events", "snapshot">>

VerifyCertificate == <<"snapshot", "events">>

LookupCertificate == <<"find", "snapshot">> \o LoadCase \o <<"events">>

Programs ==
  [ListCases |-> ListCases, GetCase |-> GetCase, VerifyIntegrity |-> VerifyIntegrity,
   VerifyCertificate |-> VerifyCertificate, LookupCertificate |-> LookupCertificate]

Reads == DOMAIN Programs

Program(op) == IF op \in Reads THEN Programs[op] ELSE <<"begin", "end">>

Unseen == [released |-> FALSE, certificate |-> NoCertificate, frozen |-> NoCertificate, events |-> <<>>]

NoCall == [op |-> "none", left |-> <<>>, seen |-> Unseen, answer |-> "none"]

\* The next step of a call is one of these.
Doing(c, steps) == calls[c] # NoCall /\ calls[c].left # <<>> /\ Head(calls[c].left) \in steps

Answered(c) == calls[c] # NoCall /\ calls[c].left = <<>>

\* Variant: the listener stays open while the calls run out.
AcceptsUntilDown == phase # "down"

Accepts == phase = "serving"

Call(c, op) ==
  /\ Accepts
  /\ calls[c] = NoCall
  /\ c \in Readers /\ faults > 0 => ReadDamaged
  /\ calls' = [calls EXCEPT ![c] = [op |-> op, left |-> Program(op), seen |-> Unseen, answer |-> "none"]]
  /\ UNCHANGED <<stored, conn, staged, phase, written, sealed, faults>>

\* What a query adds to what the call has seen.
Saw(seen, q) ==
  CASE q = "row" -> [seen EXCEPT !.released = stored.released]
    [] q = "certificate" -> [seen EXCEPT !.certificate = stored.certificate]
    [] q = "snapshot" -> [seen EXCEPT !.frozen = stored.certificate]
    [] q = "events" -> [seen EXCEPT !.events = stored.events]
    [] OTHER -> seen

\* A certificate that is not there ends the call, and a view that has seen none
\* does not ask for the snapshot.
Rest(left, seen) ==
  IF \/ Head(left) \in {"find", "snapshot"} /\ stored.certificate = NoCertificate
     \/ Tail(left) = <<"snapshot">> /\ seen.certificate = NoCertificate
  THEN <<>> ELSE Tail(left)

\* What the call answers: an empty certificate is "absent", and what is not valid
\* in any respect is "damaged".  A list of cases verifies nothing.
Valid(op, seen) ==
  LET cert == seen.frozen
  IN  CASE op = "GetCase" -> TimelineValid(seen.events) /\ (cert # NoCertificate => SnapshotValid(cert))
        [] op = "VerifyIntegrity" ->
             IF cert = NoCertificate THEN FirstDamagedIndex(seen.events, 0) = 0
             ELSE IntegrityValid(seen.events, cert)
        [] op = "VerifyCertificate" -> CertificateValid(seen.events, cert)
        [] op = "LookupCertificate" -> LookupValid(Checks(seen.events, cert, seen.released))
        [] OTHER -> TRUE

Answer(op, seen) ==
  IF op \in {"VerifyCertificate", "LookupCertificate"} /\ seen.frozen = NoCertificate THEN "absent"
  ELSE IF Valid(op, seen) THEN "valid" ELSE "damaged"

\* The steps that ask the store; the others close rows, begin or end a transaction.
Queries == {"ids", "row", "batches", "issues", "certificate", "snapshot", "events", "find"}

Queried(call) ==
  LET seen == Saw(call.seen, Head(call.left))
      left == Rest(call.left, seen)
  IN  IF left = <<>> THEN [call EXCEPT !.left = left, !.seen = Unseen, !.answer = Answer(call.op, seen)]
      ELSE [call EXCEPT !.left = left, !.seen = seen]

Query(c) ==
  /\ Doing(c, Queries)
  /\ conn = None
  /\ conn' = IF Head(calls[c].left) \in Cursors THEN c ELSE None
  /\ calls' = [calls EXCEPT ![c] = Queried(@)]
  /\ UNCHANGED <<stored, staged, phase, written, sealed, faults>>

Close(c) ==
  /\ Doing(c, {"close"})
  /\ conn' = None
  /\ calls' = [calls EXCEPT ![c].left = Tail(@)]
  /\ UNCHANGED <<stored, staged, phase, written, sealed, faults>>

\* A transaction may also find nothing to write: a replay, a refusal.
Begin(c) ==
  /\ Doing(c, {"begin"})
  /\ conn = None
  /\ conn' = c
  /\ staged' \in Writes(stored) \cup {stored}
  /\ calls' = [calls EXCEPT ![c].left = Tail(@)]
  /\ UNCHANGED <<stored, phase, written, sealed, faults>>

Ended(c) == conn' = None /\ staged' = NoTables /\ calls' = [calls EXCEPT ![c].left = <<>>]

Commit(c) ==
  /\ Doing(c, {"end"})
  /\ stored' = staged
  /\ written' = written \cup (Range(staged.events) \ Range(stored.events))
  /\ sealed' = IF staged.released /\ ~stored.released THEN staged.events ELSE sealed
  /\ Ended(c)
  /\ UNCHANGED <<phase, faults>>

Rollback(c) ==
  /\ Doing(c, {"end"})
  /\ Ended(c)
  /\ UNCHANGED <<stored, phase, written, sealed, faults>>

Return(c) ==
  /\ Answered(c)
  /\ calls' = [calls EXCEPT ![c] = NoCall]
  /\ UNCHANGED <<stored, conn, staged, phase, written, sealed, faults>>

\* Variant: the rows or the transaction of a call given up stay open.
Kept(c) == UNCHANGED <<conn, staged>>

\* The connection comes back with its rows closed and its transaction undone.
Released(c) ==
  /\ conn' = IF conn = c THEN None ELSE conn
  /\ staged' = IF conn = c THEN NoTables ELSE staged

\* The client goes away: the context of its request is cancelled.
GiveUp(c) ==
  /\ calls[c] # NoCall
  /\ Released(c)
  /\ calls' = [calls EXCEPT ![c] = NoCall]
  /\ UNCHANGED <<stored, phase, written, sealed, faults>>

-----------------------------------------------------------------------------
(* The server process.                                                     *)

Signal ==
  /\ phase = "serving"
  /\ phase' = "draining"
  /\ UNCHANGED <<stored, conn, staged, calls, written, sealed, faults>>

\* Shutdown returns when no call is open any more.
Finish ==
  /\ phase = "draining"
  /\ \A c \in Clients : calls[c] = NoCall
  /\ phase' = "down"
  /\ UNCHANGED <<stored, conn, staged, calls, written, sealed, faults>>

\* The deadline of the shutdown is over, or the process ends in another way.
Die ==
  /\ phase # "down"
  /\ phase' = "down"
  /\ conn' = None
  /\ staged' = NoTables
  /\ calls' = [c \in Clients |-> NoCall]
  /\ UNCHANGED <<stored, written, sealed, faults>>

Restart ==
  /\ phase = "down"
  /\ phase' = "serving"
  /\ UNCHANGED <<stored, conn, staged, calls, written, sealed, faults>>

-----------------------------------------------------------------------------
(* Damage: one column of one stored row, or a lost row of the log.  The    *)
(* keys of the table stay unique.                                          *)

Kinds ==
  {"CASE_CREATED", "CHANGE_SET_APPLIED", "VALIDATION_BATCH_STALE", "CASE_RELEASED", "WRITE_CONFLICT"}

Damaged(e) ==
  {[e EXCEPT !.payload = p] : p \in {"respelled", "other", "invalid"}}
  \cup {[e EXCEPT !.kind = k] : k \in {"CASE_RELEASED", "WRITE_CONFLICT"}}
  \cup {[e EXCEPT !.version = @ + 1], [e EXCEPT !.previous = Garbled], [e EXCEPT !.digest = Garbled]}
  \cup {[e EXCEPT !.sequence = n] : n \in {0, MaxEvents + 1}}

\* The rows are read in the order of their numbers, of which no two are the same.
InOrder(events) == \A i, j \in DOMAIN events : i < j => events[i].sequence < events[j].sequence

DamagedEvents(events) ==
  LET Others(i) == RemoveAt(events, i)
      Free(i) == {d \in Damaged(events[i]) : \A e \in Range(Others(i)) : e.digest # d.digest}
      Moved(i) == {InsertAt(Others(i), j, d) : j \in DOMAIN events, d \in Free(i)}
  IN  {Others(i) : i \in DOMAIN events}
      \cup {log \in UNION {Moved(i) : i \in DOMAIN events} : InOrder(log)}

DamagedSnapshots(snapshot) ==
  {[snapshot EXCEPT !.text = "other"], [snapshot EXCEPT !.version = @ + 1]}

Fault ==
  /\ faults < MaxFaults
  /\ staged = NoTables
  /\ ReadDamaged \/ \A c \in Readers : calls[c] = NoCall
  /\ \/ \E events \in DamagedEvents(stored.events) : stored' = [stored EXCEPT !.events = events]
     \/ /\ stored.certificate # NoCertificate
        /\ \E s \in DamagedSnapshots(stored.certificate.snapshot) :
             stored' = [stored EXCEPT !.certificate.snapshot = s]
  /\ faults' = faults + 1
  /\ UNCHANGED <<conn, staged, calls, phase, written, sealed>>

-----------------------------------------------------------------------------
Init ==
  /\ stored = [version |-> 1, released |-> FALSE, certificate |-> NoCertificate,
             events |-> <<FirstEvent>>]
  /\ conn = None
  /\ staged = NoTables
  /\ calls = [c \in Clients |-> NoCall]
  /\ phase = "serving"
  /\ written = {FirstEvent}
  /\ sealed = <<>>
  /\ faults = 0

Next ==
  \/ \E c \in Readers, op \in Reads : Call(c, op)
  \/ \E c \in Writers : Call(c, "Write")
  \/ \E c \in Clients : Query(c) \/ Close(c) \/ Begin(c) \/ Commit(c) \/ Rollback(c)
  \/ \E c \in Clients : Return(c) \/ GiveUp(c)
  \/ Signal \/ Finish \/ Die \/ Restart
  \/ Fault

\* A call that waits for the connection gets it, since a connection that comes
\* free goes to one of the waiting calls, picked at random; one that has it goes
\* on.  No client has to call, and the deadline of the shutdown is not needed.
Fairness ==
  /\ \A c \in Clients : SF_vars(Query(c) \/ Begin(c))
  /\ \A c \in Clients : WF_vars(Close(c) \/ Commit(c) \/ Rollback(c) \/ Return(c))
  /\ WF_vars(Finish)

Spec == Init /\ [][Next]_vars /\ Fairness
-----------------------------------------------------------------------------
(* Properties.                                                             *)

Events ==
  [sequence : Nat, kind : Kinds, version : Nat \ {0},
   payload : {"written", "respelled", "other", "invalid"}]

Columns(e) ==
  [sequence |-> e.sequence, kind |-> e.kind, version |-> e.version, payload |-> e.payload]

\* The tables keep their shape and their keys, and whoever has the connection,
\* or a transaction, is a client in the middle of a call: none is leaked by a
\* call that ended, was given up or was cut off.
TypeOK ==
  /\ \A e \in Range(stored.events) \cup written : Columns(e) \in Events
  /\ \A e, f \in Range(stored.events) : e.sequence = f.sequence \/ e.digest = f.digest => e = f
  /\ conn # None => calls[conn] # NoCall /\ calls[conn].left # <<>>
  /\ staged # NoTables <=> conn \in Writers
  /\ phase \in {"serving", "draining", "down"}
  /\ faults \in 0..MaxFaults

Log == stored.events

\* The four loops over the chain, written at four places, say the same of every
\* log, damaged or not: view, lookup, integrity report and package audit.
VerifiersAgree ==
  LET first == FirstDamagedIndex(Log, 0)
  IN  /\ TimelineValid(Log) <=> first = 0
      /\ FirstDamagedSequence(Log) = 0 <=> first = 0
      /\ \A from \in 0..Len(Log) : VerifyChain(Log, from) = FirstDamagedIndex(Log, from)

\* A breakpoint (integrity.go:36) invents no damage and points at none too
\* early, and it finds the first damage if it does not leave it out.
BreakpointsAgree ==
  LET first == FirstDamagedIndex(Log, 0)
  IN  \A from \in 0..Len(Log) :
        LET found == FirstDamagedIndex(Log, from)
        IN  /\ from < first => found = first
            /\ found # 0 => first # 0 /\ first <= found

AsWritten(e) == [e EXCEPT !.payload = Compact(@)]

\* A lookup that finds everything valid shows what was written: every event of
\* the log, the release that the certificate is of among them, and the snapshot
\* that was frozen.  What came before the release is what was there when it was
\* issued, unless that log was damaged already (a release does not look at it)
\* and the damage was undone later.
LookupIsTrustworthy ==
  LET cert == stored.certificate
  IN  cert # NoCertificate /\ LookupValid(Checks(Log, cert, stored.released)) =>
        /\ cert.snapshot = [version |-> Last(sealed).version, text |-> "frozen"]
        /\ \A i \in DOMAIN Log : AsWritten(Log[i]) \in written
        /\ \E i \in DOMAIN Log : AsWritten(Log[i]) = Last(sealed)
        /\ TimelineValid(sealed) =>
             /\ Len(Log) >= Len(sealed)
             /\ \A i \in DOMAIN sealed : AsWritten(Log[i]) = AsWritten(sealed[i])

\* Three readers judge a certificate, one by the first release event of the log,
\* two by any: they come to the same result on every log.
ReadersAgree ==
  LET cert == stored.certificate
      checks == Checks(Log, cert, stored.released)
  IN  cert # NoCertificate =>
        /\ CertificateValid(Log, cert) <=> IntegrityValid(Log, cert)
        /\ CertificateValid(Log, cert) <=> checks.snapshot /\ checks.chain /\ checks.anchor
        /\ CertificateValid(Log, cert) => LookupValid(checks)

\* While nothing is damaged no reader ever reports damage, although it reads the
\* case, the certificate and the log at different times and a write, the release
\* included, may come between any two of its queries.
NoFalseAlarm == faults = 0 => \A c \in Readers : calls[c].answer # "damaged"

\* Every call ends: no call waits for ever for the one connection, neither for
\* itself nor for the calls of other clients, those that go away included.
EveryCallEnds == \A c \in Clients : calls[c] # NoCall ~> calls[c] = NoCall

\* A stop is carried out, without its deadline having to cut off a call: the
\* calls that are open come to their end and no new ones are taken.
StopIsCarriedOut == phase = "draining" ~> phase = "down"
=============================================================================
