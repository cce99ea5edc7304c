------------------------- MODULE AuditReaders_proofs -------------------------
(***************************************************************************)
(* Theorems about the readers of the audit log: the loops over the chain   *)
(* agree on every log, the verdicts on a certificate agree, a valid lookup *)
(* shows what was written, undamaged tables raise no alarm, and nobody     *)
(* leaks the connection.                                                   *)
(***************************************************************************)
EXTENDS AuditReaders, AuditChain_proofs

-----------------------------------------------------------------------------
(* The loops over the log.                                                 *)

\* The verifiers agree on any sequence of events with numbers.
LEMMA VerifiersAgreeOnLogs ==
  ASSUME IsSeq(Log), \A i \in DOMAIN Log : Log[i].sequence \in Nat
  PROVE  VerifiersAgree
<1>1. 0 \in 0..Len(Log)
  BY DEF IsSeq
<1>2. TimelineValid(Log) <=> FirstDamagedIndex(Log, 0) = 0
  BY <1>1, LoopsReport DEF TimelineValid, FirstDamagedIndex
<1>3. \A from \in 0..Len(Log) : VerifyChain(Log, from) = FirstDamagedIndex(Log, from)
  BY LoopsReport DEF VerifyChain, FirstDamagedIndex
<1> QED
  BY <1>2, <1>3, NumbersAreReported DEF VerifiersAgree

\* So a breakpoint hides only what it leaves out.
LEMMA BreakpointsAgreeOnLogs ==
  ASSUME IsSeq(Log)
  PROVE  BreakpointsAgree
<1> DEFINE first == FirstDamagedIndex(Log, 0)
<1>1. \A from \in 0..Len(Log) : Reported(Log, from, FirstDamagedIndex(Log, from))
  BY LoopsReport DEF FirstDamagedIndex
<1>2. Len(Log) \in Nat
  BY DEF IsSeq
<1>3. Reported(Log, 0, first)
  BY <1>1, <1>2
<1>4. ASSUME NEW from \in 0..Len(Log), NEW found, Reported(Log, from, found)
      PROVE  /\ from < first => found = first
             /\ found # 0 => first # 0 /\ first <= found
  <2> HIDE DEF first
  <2>1. CASE first = 0
    BY <1>2, <1>3, <1>4, <2>1 DEF Reported
  <2>2. CASE first \in 1..Len(Log) /\ found = 0
    BY <1>2, <1>3, <1>4, <2>2 DEF Reported
  <2>3. CASE first \in 1..Len(Log) /\ found \in (from + 1)..Len(Log)
    <3>1. ~Good(Log, first) /\ \A j \in 1..(first - 1) : Good(Log, j)
      BY <1>3, <2>3 DEF Reported
    <3>2. ~Good(Log, found) /\ \A j \in (from + 1)..(found - 1) : Good(Log, j)
      BY <1>2, <1>4, <2>3 DEF Reported
    <3>3. first <= found
      BY <1>2, <2>3, <3>1, <3>2
    <3>4. from < first => ~(first < found)
      BY <1>2, <2>3, <3>1, <3>2
    <3> QED
      BY <1>2, <2>3, <3>3, <3>4
  <2> QED
    BY <1>3, <1>4, <2>1, <2>2, <2>3 DEF Reported
<1> QED
  BY <1>1, <1>4 DEF BreakpointsAgree

-----------------------------------------------------------------------------
(* Rows, logs and tables.                                                  *)

IsEvent(e) ==
  /\ e = [sequence |-> e.sequence, kind |-> e.kind, version |-> e.version,
          payload |-> e.payload, previous |-> e.previous, digest |-> e.digest]
  /\ Columns(e) \in Events

IsLog(log) == IsSeq(log) /\ \A e \in Range(log) : IsEvent(e)

UniqueDigests(log) == \A i, j \in DOMAIN log : log[i].digest = log[j].digest => i = j

\* A row as it was written.
AsIssued(w) ==
  /\ IsEvent(w)
  /\ w.payload = "written"
  /\ w.digest = EventDigest(w.previous, w.version, w.kind, "written")

\* The types of the columns of a row.
LEMMA EventTypes ==
  ASSUME NEW e, IsEvent(e)
  PROVE  /\ e.sequence \in Nat /\ e.kind \in Kinds /\ e.version \in Nat \ {0}
         /\ e.payload \in {"written", "respelled", "other", "invalid"}
BY DEF IsEvent, Columns, Events

\* A record of columns of these types is a row.
LEMMA EventOfColumns ==
  ASSUME NEW n \in Nat, NEW k \in Kinds, NEW v \in Nat \ {0},
         NEW p \in {"written", "respelled", "other", "invalid"}, NEW prev, NEW dig
  PROVE  IsEvent([sequence |-> n, kind |-> k, version |-> v, payload |-> p, previous |-> prev, digest |-> dig])
BY DEF IsEvent, Columns, Events

\* The elements of a sequence.
LEMMA Elements ==
  ASSUME NEW log, IsSeq(log)
  PROVE  /\ Len(log) \in Nat
         /\ DOMAIN log = 1..Len(log)
         /\ \A i \in 1..Len(log) : log[i] \in Range(log)
         /\ \A e \in Range(log) : \E i \in 1..Len(log) : e = log[i]
BY DEF IsSeq, Range

\* A log and one more event.
LEMMA AppendedLog ==
  ASSUME NEW log, IsSeq(log), NEW e
  PROVE  LET more == Append(log, e)
         IN  /\ IsSeq(more)
             /\ Range(more) = Range(log) \cup {e}
             /\ Len(more) = Len(log) + 1
             /\ more[Len(log) + 1] = e
             /\ \A i \in 1..Len(log) : more[i] = log[i]
<1> DEFINE more == Append(log, e)
<1>1. log \in Seq(Range(log) \cup {e}) /\ Len(log) \in Nat /\ DOMAIN log = 1..Len(log)
  BY DEF IsSeq
<1>2. /\ more \in Seq(Range(log) \cup {e})
      /\ Len(more) = Len(log) + 1
      /\ more[Len(log) + 1] = e
      /\ \A i \in 1..Len(log) : more[i] = log[i]
  BY <1>1
<1>3. DOMAIN more = 1..(Len(log) + 1)
  BY <1>2
<1> HIDE DEF more
<1>4. Range(more) = Range(log) \cup {e}
  BY <1>1, <1>2, <1>3 DEF Range
<1>5. IsSeq(more)
  BY <1>2, <1>4 DEF IsSeq
<1> QED
  BY <1>2, <1>4, <1>5 DEF more

\* The next event is a row as it is written, and follows the log.
LEMMA FollowingFacts ==
  ASSUME NEW log, IsLog(log), InOrder(log), NEW kind \in Kinds, NEW v \in Nat \ {0}
  PROVE  LET e == Following(log, kind, v)
         IN  /\ AsIssued(e)
             /\ e.kind = kind /\ e.version = v /\ e.previous = AuditHead(log).digest
             /\ \A i \in 1..Len(log) : log[i].sequence < e.sequence
             /\ Good(Append(log, e), Len(log) + 1)
<1> DEFINE head == AuditHead(log)
           e == Following(log, kind, v)
           n == Len(log)
<1>0. n \in Nat /\ DOMAIN log = 1..n /\ (log = <<>> <=> n = 0)
  BY DEF IsLog, IsSeq
<1>1. head.sequence \in Nat /\ \A i \in 1..n : log[i].sequence <= head.sequence
  <2>1. CASE n = 0
    BY <1>0, <2>1 DEF AuditHead
  <2>2. CASE n # 0
    <3>1. head.sequence = log[n].sequence
      BY <1>0, <2>2 DEF AuditHead, Last
    <3>2. \A i \in 1..n : log[i].sequence \in Nat
      BY Elements, EventTypes DEF IsLog
    <3>3. \A i, j \in 1..n : i < j => log[i].sequence < log[j].sequence
      BY <1>0 DEF InOrder
    <3>4. n \in 1..n /\ \A i \in 1..n : i = n \/ i < n
      <4> HIDE DEF n
      <4> QED
        BY <1>0, <2>2
    <3> HIDE DEF head, n
    <3> QED
      BY <3>1, <3>2, <3>3, <3>4
  <2> QED
    BY <2>1, <2>2
<1>2. e = [sequence |-> head.sequence + 1, kind |-> kind, version |-> v, payload |-> "written",
           previous |-> head.digest, digest |-> EventDigest(head.digest, v, kind, "written")]
  BY DEF Following, NewEvent
<1>3. Start(Append(log, e), n) = [previous |-> head.digest, sequence |-> head.sequence, damaged |-> 0]
  <2>1. CASE n = 0
    BY <1>0, <2>1 DEF Start, AuditHead
  <2>2. CASE n # 0
    <3>1. Append(log, e)[n] = log[n]
      <4>1. n \in 1..n
        BY <1>0, <2>2
      <4> HIDE DEF e
      <4> QED
        BY <4>1, AppendedLog DEF IsLog
    <3> QED
      BY <1>0, <2>2, <3>1 DEF Start, AuditHead, Last
  <2> QED
    BY <2>1, <2>2
<1>4. Append(log, e)[n + 1] = e
  BY AppendedLog DEF IsLog
<1> HIDE DEF head, e
<1>5. AsIssued(e)
  <2>1. head.sequence + 1 \in Nat
    BY <1>1
  <2>2. IsEvent(e)
    BY <1>2, <2>1, EventOfColumns
  <2> QED
    BY <1>2, <2>2 DEF AsIssued
<1>6. Recomputed(e, head.digest) = e.digest
  BY <1>2 DEF Recomputed, EventDigest, Compact
<1>7. Good(Append(log, e), n + 1)
  <2>1. (n + 1) - 1 = n
    BY <1>0
  <2> QED
    BY <1>2, <1>3, <1>4, <1>6, <2>1 DEF Good
<1>8. \A i \in 1..n : log[i].sequence < e.sequence
  <2>1. \A i \in 1..n : log[i].sequence \in Nat
    BY Elements, EventTypes DEF IsLog
  <2> QED
    BY <1>1, <1>2, <2>1
<1> QED
  BY <1>2, <1>5, <1>7, <1>8 DEF e, head

\* What the tables of a case always are.
IsCertificate(cert) ==
  /\ cert = [version |-> cert.version, digest |-> cert.digest, head |-> cert.head, snapshot |-> cert.snapshot]
  /\ cert.snapshot = [version |-> cert.snapshot.version, text |-> cert.snapshot.text]
  /\ cert.snapshot.version \in Nat
  /\ cert.version \in Nat \ {0}
  /\ cert.digest = SnapshotDigest([version |-> cert.version, text |-> "frozen"])

CertificateIfReleased(t) ==
  IF t.released THEN IsCertificate(t.certificate) ELSE t.certificate = NoCertificate

KeepsItsKeys(log) == IsLog(log) /\ Len(log) <= MaxEvents /\ InOrder(log) /\ UniqueDigests(log)

IsTables(t) ==
  /\ t = [version |-> t.version, released |-> t.released, certificate |-> t.certificate, events |-> t.events]
  /\ t.version \in Nat \ {0}
  /\ t.released \in BOOLEAN
  /\ CertificateIfReleased(t)
  /\ KeepsItsKeys(t.events)

\* How one more event, with a digest that is new, leaves a log.
Extends(log, more, e) ==
  /\ more = Append(log, e)
  /\ AsIssued(e)
  /\ e.previous = AuditHead(log).digest
  /\ IsLog(more) /\ InOrder(more) /\ UniqueDigests(more)
  /\ Range(more) = Range(log) \cup {e}
  /\ Chained(log) => Chained(more)

\* A good event stays good when others follow.
LEMMA GoodStaysGood ==
  ASSUME NEW log, IsSeq(log), NEW e, NEW i \in DOMAIN log, Good(log, i)
  PROVE  Good(Append(log, e), i)
<1>1. i \in 1..Len(log) /\ (i # 1 => i - 1 \in 1..Len(log)) /\ Len(log) \in Nat
  BY DEF IsSeq
<1>2. Append(log, e)[i] = log[i] /\ (i # 1 => Append(log, e)[i - 1] = log[i - 1])
  BY <1>1, AppendedLog
<1>3. Start(Append(log, e), i - 1) = Start(log, i - 1)
  BY <1>1, <1>2 DEF Start
<1> QED
  BY <1>2, <1>3 DEF Good

\* The event that follows a log keeps its order and its keys.
LEMMA FollowingExtends ==
  ASSUME NEW log, IsLog(log), InOrder(log), UniqueDigests(log), NEW kind \in Kinds, NEW v \in Nat \ {0},
         \A f \in Range(log) : f.digest # Following(log, kind, v).digest
  PROVE  Extends(log, Append(log, Following(log, kind, v)), Following(log, kind, v))
<1> DEFINE e == Following(log, kind, v)
           more == Append(log, e)
           n == Len(log)
<1>1. IsSeq(log) /\ n \in Nat /\ DOMAIN log = 1..n
  BY DEF IsLog, IsSeq
<1>2. /\ AsIssued(e) /\ e.previous = AuditHead(log).digest
      /\ \A i \in 1..n : log[i].sequence < e.sequence
      /\ Good(more, n + 1)
  BY FollowingFacts
<1>3. \A f \in Range(log) : f.digest # e.digest
  OBVIOUS
<1> HIDE DEF e
<1>4. /\ IsSeq(more)
      /\ Range(more) = Range(log) \cup {e}
      /\ Len(more) = n + 1
      /\ more[n + 1] = e
      /\ \A i \in 1..n : more[i] = log[i]
  BY <1>1, AppendedLog
<1>5. DOMAIN more = 1..(n + 1) /\ \A i \in 1..(n + 1) : i = n + 1 \/ i \in 1..n
  BY <1>1, <1>4 DEF IsSeq
<1> HIDE DEF more
<1>6. IsLog(more)
  BY <1>2, <1>4 DEF IsLog, AsIssued
<1>7. InOrder(more)
  <2> SUFFICES ASSUME NEW i \in 1..(n + 1), NEW j \in 1..(n + 1), i < j
               PROVE  more[i].sequence < more[j].sequence
    BY <1>5 DEF InOrder
  <2>1. i \in 1..n
    BY <1>1
  <2>2. CASE j = n + 1
    BY <1>2, <1>4, <2>1, <2>2
  <2>3. CASE j \in 1..n
    BY <1>1, <1>4, <2>1, <2>3 DEF InOrder
  <2> QED
    BY <1>5, <2>2, <2>3
<1>8. UniqueDigests(more)
  <2>1. \A i \in 1..n : more[i].digest # e.digest
    BY <1>1, <1>3, <1>4, Elements
  <2> QED
    BY <1>1, <1>4, <1>5, <2>1 DEF UniqueDigests
<1>9. Chained(log) => Chained(more)
  <2>1. \A i \in 1..n : Good(log, i) => Good(more, i)
    BY <1>1, GoodStaysGood DEF more
  <2> QED
    BY <1>1, <1>2, <1>5, <2>1 DEF Chained
<1> QED
  BY <1>2, <1>4, <1>6, <1>7, <1>8, <1>9 DEF Extends, e, more

-----------------------------------------------------------------------------
(* What a write leaves.                                                    *)

IsRecord(t) ==
  t = [version |-> t.version, released |-> t.released, certificate |-> t.certificate, events |-> t.events]

\* Tables with one more event of a kind, of their version.
OneMore(t, u, e, kind) ==
  /\ IsRecord(u)
  /\ u.version = t.version /\ u.released = t.released /\ u.certificate = t.certificate
  /\ Extends(t.events, u.events, e)
  /\ e.kind = kind
  /\ e.version = t.version

\* Appending changes nothing of the tables but the log, which gets one event more.
LEMMA AppendedEvent ==
  ASSUME NEW t, IsRecord(t), t.version \in Nat \ {0},
         IsLog(t.events), InOrder(t.events), UniqueDigests(t.events),
         NEW kind \in Kinds, NEW u \in AppendEvent(t, kind)
  PROVE  \E e : OneMore(t, u, e, kind)
<1> DEFINE e == Following(t.events, kind, t.version)
<1>1. /\ \A f \in Range(t.events) : f.digest # e.digest
      /\ u = [t EXCEPT !.events = Append(t.events, e)]
  BY DEF AppendEvent
<1>2. Extends(t.events, Append(t.events, e), e)
  BY <1>1, FollowingExtends
<1>3. e.kind = kind /\ e.version = t.version
  BY FollowingFacts
<1>4. u = [version |-> t.version, released |-> t.released, certificate |-> t.certificate,
           events |-> Append(t.events, e)]
  <2> HIDE DEF e
  <2> QED
    BY <1>1 DEF IsRecord
<1> HIDE DEF e
<1> QED
  BY <1>2, <1>3, <1>4 DEF OneMore, IsRecord

\* A log that only grew, by rows as they are written.
Grown(log, more) ==
  /\ Range(log) \subseteq Range(more)
  /\ \A e \in Range(more) \ Range(log) : AsIssued(e)
  /\ Chained(log) => Chained(more)

\* A write that does not release, and the one that does.
Ordinary(t, u) ==
  /\ u.released = t.released
  /\ u.certificate = t.certificate
  /\ \A e \in Range(u.events) \ Range(t.events) : e.kind # "CASE_RELEASED"

Releasing(t, u) ==
  /\ ~t.released /\ u.released = TRUE
  /\ IsCertificate(u.certificate)
  /\ u.certificate.snapshot = [version |-> u.certificate.version, text |-> "frozen"]
  /\ \E e : /\ Extends(t.events, u.events, e)
            /\ e.kind = "CASE_RELEASED"
            /\ e.version = u.certificate.version
            /\ e.previous = u.certificate.head

\* One event more is growth; if it is not a release it leaves the release alone.
LEMMA OneMoreGrows ==
  ASSUME NEW t, NEW u, NEW e, NEW kind, OneMore(t, u, e, kind)
  PROVE  /\ Grown(t.events, u.events)
         /\ kind # "CASE_RELEASED" => Ordinary(t, u)
BY DEF OneMore, Extends, Grown, Ordinary

\* Growth and ordinary changes can be put together: an edit may log two events.
LEMMA GrownTwice ==
  ASSUME NEW t, NEW u, NEW w, Grown(t.events, u.events), Grown(u.events, w.events),
         Ordinary(t, u), Ordinary(u, w)
  PROVE  Grown(t.events, w.events) /\ Ordinary(t, w)
BY DEF Grown, Ordinary

\* The certificate that a release issues.
LEMMA IssuedCertificate ==
  ASSUME NEW t, t.version \in Nat
  PROVE  LET cert == Certificate(t)
         IN  /\ IsCertificate(cert)
             /\ cert.version = t.version + 1
             /\ cert.head = AuditHead(t.events).digest
             /\ cert.snapshot = [version |-> cert.version, text |-> "frozen"]
<1> DEFINE cert == Certificate(t)
           snapshot == [version |-> t.version + 1, text |-> "frozen"]
<1>1. cert = [version |-> t.version + 1, digest |-> SnapshotDigest(snapshot),
              head |-> AuditHead(t.events).digest, snapshot |-> snapshot]
  BY DEF Certificate
<1>2. t.version + 1 \in Nat \ {0}
  OBVIOUS
<1> HIDE DEF cert
<1>3. IsCertificate(cert)
  BY <1>1, <1>2 DEF IsCertificate
<1> QED
  BY <1>1, <1>3 DEF cert

\* The record of tables that a release is about to write.
LEMMA SealedRecord ==
  ASSUME NEW v, NEW r, NEW c, NEW l, NEW cert, NEW old, NEW new,
         old = [version |-> v, released |-> r, certificate |-> c, events |-> l],
         new = [old EXCEPT !.released = TRUE, !.certificate = cert]
  PROVE  new = [version |-> v, released |-> TRUE, certificate |-> cert, events |-> l]
OBVIOUS

\* Whatever is written, the tables stay what they are and the log only grows.
LEMMA WrittenTables ==
  ASSUME NEW t, IsTables(t), NEW u \in Writes(t)
  PROVE  /\ IsTables(u)
         /\ Grown(t.events, u.events)
         /\ Ordinary(t, u) \/ Releasing(t, u)
<1>1. /\ IsRecord(t) /\ t.version \in Nat \ {0} /\ t.released \in BOOLEAN /\ CertificateIfReleased(t)
      /\ IsLog(t.events) /\ InOrder(t.events) /\ UniqueDigests(t.events)
  BY DEF IsTables, IsRecord, KeepsItsKeys
<1>2. Len(u.events) <= MaxEvents
  BY DEF Writes
<1>3. {"WRITE_CONFLICT", "CHANGE_SET_APPLIED", "VALIDATION_BATCH_STALE", "CASE_RELEASED"} \subseteq Kinds
  BY DEF Kinds
<1>4. ASSUME u.released = t.released, u.certificate = t.certificate, u.version \in Nat \ {0}, IsRecord(u),
             IsLog(u.events), InOrder(u.events), UniqueDigests(u.events)
      PROVE  IsTables(u)
  BY <1>1, <1>2, <1>4 DEF IsTables, IsRecord, KeepsItsKeys, CertificateIfReleased
<1>5. CASE u \in AppendEvent(t, "WRITE_CONFLICT")
  <2>1. PICK e : OneMore(t, u, e, "WRITE_CONFLICT")
    BY <1>1, <1>3, <1>5, AppendedEvent
  <2>2. Grown(t.events, u.events) /\ Ordinary(t, u)
    BY <2>1, OneMoreGrows
  <2>3. IsTables(u)
    BY <1>1, <1>4, <2>1 DEF OneMore, Extends
  <2> QED
    BY <2>2, <2>3
<1> DEFINE next == NextVersion(t)
<1>6. next = [version |-> t.version + 1, released |-> t.released, certificate |-> t.certificate,
              events |-> t.events]
  BY <1>1 DEF NextVersion, IsRecord
<1>7. IsRecord(next) /\ next.version \in Nat \ {0} /\ next.events = t.events
      /\ next.released = t.released /\ next.certificate = t.certificate
  <2> HIDE DEF next
  <2> QED
    BY <1>1, <1>6 DEF IsRecord
<1> HIDE DEF next
<1>8. ASSUME NEW v \in AppendEvent(next, "CHANGE_SET_APPLIED")
      PROVE  /\ Grown(t.events, v.events) /\ Ordinary(t, v)
             /\ IsRecord(v) /\ v.version \in Nat \ {0}
             /\ IsLog(v.events) /\ InOrder(v.events) /\ UniqueDigests(v.events)
  <2>1. PICK e : OneMore(next, v, e, "CHANGE_SET_APPLIED")
    BY <1>1, <1>3, <1>7, <1>8, AppendedEvent
  <2>2. Grown(next.events, v.events) /\ Ordinary(next, v)
    BY <2>1, OneMoreGrows
  <2> QED
    BY <1>7, <2>1, <2>2 DEF OneMore, Extends, Ordinary
<1>9. CASE u \in AppendEvent(next, "CHANGE_SET_APPLIED")
  BY <1>4, <1>8, <1>9 DEF Ordinary
<1>10. ASSUME NEW v \in AppendEvent(next, "CHANGE_SET_APPLIED"), u \in AppendEvent(v, "VALIDATION_BATCH_STALE")
       PROVE  IsTables(u) /\ Grown(t.events, u.events) /\ Ordinary(t, u)
  <2>1. /\ Grown(t.events, v.events) /\ Ordinary(t, v)
        /\ IsRecord(v) /\ v.version \in Nat \ {0}
        /\ IsLog(v.events) /\ InOrder(v.events) /\ UniqueDigests(v.events)
    BY <1>8, <1>10
  <2>2. PICK e : OneMore(v, u, e, "VALIDATION_BATCH_STALE")
    BY <1>3, <1>10, <2>1, AppendedEvent
  <2>3. Grown(v.events, u.events) /\ Ordinary(v, u)
    BY <2>2, OneMoreGrows
  <2>4. Grown(t.events, u.events) /\ Ordinary(t, u)
    BY <2>1, <2>3, GrownTwice
  <2>5. IsTables(u)
    BY <1>4, <2>1, <2>2, <2>4 DEF OneMore, Extends, Ordinary
  <2> QED
    BY <2>4, <2>5
<1>11. CASE ~t.released /\ u \in ReleasedCase(t)
  <2> DEFINE cert == Certificate(t)
  <2>1. PICK sealing : sealing = [NextVersion(t) EXCEPT !.released = TRUE, !.certificate = cert]
    OBVIOUS
  <2>2. u \in AppendEvent(sealing, "CASE_RELEASED")
    BY <1>11, <2>1 DEF ReleasedCase
  <2>3. /\ IsCertificate(cert) /\ cert.version = t.version + 1
        /\ cert.head = AuditHead(t.events).digest
        /\ cert.snapshot = [version |-> cert.version, text |-> "frozen"]
    BY <1>1, IssuedCertificate
  <2> HIDE DEF cert
  <2>4. IsRecord(sealing) /\ sealing.version = t.version + 1 /\ sealing.events = t.events
        /\ sealing.released = TRUE /\ sealing.certificate = cert
    <3>1. sealing = [version |-> t.version + 1, released |-> TRUE, certificate |-> cert, events |-> t.events]
      <4> HIDE DEF cert
      <4>1. next = NextVersion(t)
        BY DEF next
      <4>2. sealing = [next EXCEPT !.released = TRUE, !.certificate = cert]
        BY <2>1, <4>1
      <4> QED
        BY <1>6, <4>2, SealedRecord, Zenon
    <3> QED
      BY <3>1 DEF IsRecord
  <2>5. PICK e : OneMore(sealing, u, e, "CASE_RELEASED")
    <3>1. sealing.version \in Nat \ {0}
      BY <1>1, <2>4
    <3> QED
      BY <1>1, <1>3, <2>2, <2>4, <3>1, AppendedEvent
  <2>6. /\ IsRecord(u) /\ u.version \in Nat \ {0} /\ u.released = TRUE /\ u.certificate = cert
        /\ Extends(t.events, u.events, e) /\ e.kind = "CASE_RELEASED" /\ e.version = t.version + 1
    BY <1>1, <2>4, <2>5 DEF OneMore
  <2>7. IsTables(u)
    BY <1>2, <2>3, <2>6 DEF IsTables, IsRecord, KeepsItsKeys, CertificateIfReleased, Extends
  <2>8. Releasing(t, u)
    BY <1>11, <2>3, <2>6 DEF Releasing, Extends
  <2>9. Grown(t.events, u.events)
    BY <2>6 DEF Extends, Grown
  <2> QED
    BY <2>7, <2>8, <2>9
<1>12. \/ u \in AppendEvent(t, "WRITE_CONFLICT")
       \/ u \in AppendEvent(next, "CHANGE_SET_APPLIED")
       \/ \E v \in AppendEvent(next, "CHANGE_SET_APPLIED") : u \in AppendEvent(v, "VALIDATION_BATCH_STALE")
       \/ ~t.released /\ u \in ReleasedCase(t)
  BY DEF Writes, Edited, next
<1> QED
  BY <1>5, <1>8, <1>9, <1>10, <1>11, <1>12

-----------------------------------------------------------------------------
(* What damage leaves.                                                     *)

\* A log without the event at a position.
LEMMA RemovedAt ==
  ASSUME NEW log, IsSeq(log), NEW i \in DOMAIN log
  PROVE  LET rest == RemoveAt(log, i)
         IN  /\ rest \in Seq(Range(log))
             /\ Len(rest) = Len(log) - 1
             /\ \A k \in 1..(Len(log) - 1) : rest[k] = log[IF k < i THEN k ELSE k + 1]
<1> DEFINE S == Range(log)
           before == SubSeq(log, 1, i - 1)
           after == SubSeq(log, i + 1, Len(log))
           n == Len(log)
<1>1. log \in Seq(S) /\ n \in Nat /\ i \in 1..n
  BY DEF IsSeq
<1> HIDE DEF S
<1>2. before \in Seq(S) /\ Len(before) = i - 1 /\ \A k \in 1..(i - 1) : before[k] = log[k]
  BY <1>1
<1>3. after \in Seq(S) /\ Len(after) = n - i /\ \A k \in 1..(n - i) : after[k] = log[i + k]
  BY <1>1
<1> HIDE DEF before, after
<1>4. before \o after \in Seq(S) /\ Len(before \o after) = n - 1
  BY <1>1, <1>2, <1>3
<1>5. ASSUME NEW k \in 1..(n - 1) PROVE (before \o after)[k] = log[IF k < i THEN k ELSE k + 1]
  <2>1. CASE k < i
    BY <1>1, <1>2, <1>3, <2>1
  <2>2. CASE ~(k < i)
    <3>1. (before \o after)[k] = after[k - (i - 1)]
      BY <1>1, <1>2, <1>3, <2>2
    <3>2. k - (i - 1) \in 1..(n - i) /\ i + (k - (i - 1)) = k + 1
      BY <1>1, <2>2
    <3> QED
      BY <1>3, <2>2, <3>1, <3>2
  <2> QED
    BY <2>1, <2>2
<1> QED
  BY <1>4, <1>5 DEF RemoveAt, before, after, S

\* A sequence with an element put in at a position.
HasInserted(log, rest, j, d) ==
  /\ Len(log) = Len(rest) + 1
  /\ log[j] = d
  /\ \A k \in 1..(Len(rest) + 1) : k = j \/ log[k] = rest[IF k < j THEN k ELSE k - 1]

\* InsertAt, by position.
LEMMA InsertedAt ==
  ASSUME NEW S, NEW rest \in Seq(S), NEW j \in 1..(Len(rest) + 1), NEW d
  PROVE  /\ InsertAt(rest, j, d) \in Seq(S \cup {d})
         /\ HasInserted(InsertAt(rest, j, d), rest, j, d)
<1> DEFINE n == Len(rest)
           T == S \cup {d}
           before == SubSeq(rest, 1, j - 1)
           after == SubSeq(rest, j, n)
           one == <<d>>
           front == before \o one
           whole == front \o after
<1>1. n \in Nat /\ j \in 1..(n + 1) /\ rest \in Seq(T)
  OBVIOUS
<1>2. one \in Seq(T) /\ Len(one) = 1 /\ one[1] = d
  OBVIOUS
<1> HIDE DEF T
<1>3. before \in Seq(T) /\ Len(before) = j - 1 /\ \A k \in 1..(j - 1) : before[k] = rest[k]
  BY <1>1
<1>4. after \in Seq(T) /\ Len(after) = n - j + 1 /\ \A k \in 1..(n - j + 1) : after[k] = rest[j + k - 1]
  BY <1>1
<1> HIDE DEF before, after, one, n
<1>5. /\ front \in Seq(T) /\ Len(front) = j /\ front[j] = d
      /\ \A k \in 1..(j - 1) : front[k] = rest[k]
  <2>1. /\ front \in Seq(T) /\ Len(front) = Len(before) + Len(one)
        /\ \A k \in 1..Len(before) : front[k] = before[k]
        /\ \A k \in 1..Len(one) : front[Len(before) + k] = one[k]
    <3>1. before \in Seq(T) /\ one \in Seq(T)
      BY <1>2, <1>3
    <3> QED
      BY <3>1
  <2> HIDE DEF front
  <2> QED
    BY <1>1, <1>2, <1>3, <2>1
<1> HIDE DEF front
<1>6. /\ whole \in Seq(T) /\ Len(whole) = n + 1
      /\ \A k \in 1..j : whole[k] = front[k]
      /\ \A k \in 1..(n - j + 1) : whole[j + k] = after[k]
  <2>1. /\ whole \in Seq(T) /\ Len(whole) = Len(front) + Len(after)
        /\ \A k \in 1..Len(front) : whole[k] = front[k]
        /\ \A k \in 1..Len(after) : whole[Len(front) + k] = after[k]
    <3>1. front \in Seq(T) /\ after \in Seq(T)
      BY <1>4, <1>5
    <3> QED
      BY <3>1
  <2> HIDE DEF whole
  <2> QED
    BY <1>1, <1>4, <1>5, <2>1
<1> HIDE DEF whole
<1>7. whole[j] = d
  BY <1>1, <1>5, <1>6
<1>8. ASSUME NEW k \in 1..(n + 1), k # j PROVE whole[k] = rest[IF k < j THEN k ELSE k - 1]
  <2>1. CASE k < j
    BY <1>1, <1>5, <1>6, <2>1
  <2>2. CASE k > j
    <3>1. k - j \in 1..(n - j + 1) /\ j + (k - j) = k /\ j + (k - j) - 1 = k - 1
      BY <1>1, <2>2
    <3>2. whole[k] = after[k - j]
      BY <1>6, <3>1
    <3> QED
      BY <1>4, <2>2, <3>1, <3>2
  <2> QED
    BY <1>1, <1>8, <2>1, <2>2
<1> QED
  BY <1>6, <1>7, <1>8 DEF InsertAt, HasInserted, whole, front, before, after, one, n, T

\* A sequence over any set is one over its elements.
LEMMA OverItsElements ==
  ASSUME NEW T, NEW s \in Seq(T)
  PROVE  IsSeq(s) /\ Range(s) \subseteq T /\ DOMAIN s = 1..Len(s) /\ Len(s) \in Nat
<1>1. /\ Len(s) \in Nat /\ DOMAIN s = 1..Len(s)
      /\ s = [i \in 1..Len(s) |-> s[i]] /\ \A i \in 1..Len(s) : s[i] \in T
  OBVIOUS
<1>2. \A i \in 1..Len(s) : s[i] \in Range(s)
  BY <1>1 DEF Range
<1>3. s \in [1..Len(s) -> Range(s)]
  BY <1>1, <1>2
<1>4. s \in Seq(Range(s))
  BY <1>1, <1>3
<1> QED
  BY <1>1, <1>4 DEF IsSeq, Range

\* Damage changes one column: the row stays one, and neither its digest nor its
\* number becomes one that another event could have.
LEMMA DamagedRow ==
  ASSUME NEW e, IsEvent(e), NEW d \in Damaged(e)
  PROVE  /\ IsEvent(d)
         /\ d.digest \in {e.digest, Garbled}
         /\ d.sequence \in {e.sequence, 0, MaxEvents + 1}
<1>1. MaxEvents + 1 \in Nat
  BY ReadersAssumption
<1>2. e = [sequence |-> e.sequence, kind |-> e.kind, version |-> e.version,
           payload |-> e.payload, previous |-> e.previous, digest |-> e.digest]
  BY DEF IsEvent
<1>3. /\ e.sequence \in Nat /\ e.kind \in Kinds /\ e.version \in Nat \ {0}
      /\ e.payload \in {"written", "respelled", "other", "invalid"}
  BY EventTypes
<1>4. "CASE_RELEASED" \in Kinds /\ "WRITE_CONFLICT" \in Kinds
  BY DEF Kinds
<1> DEFINE Row(n, k, v, p, prev, dig) ==
             [sequence |-> n, kind |-> k, version |-> v, payload |-> p, previous |-> prev, digest |-> dig]
<1>5. \/ \E p \in {"written", "respelled", "other", "invalid"} :
           d = Row(e.sequence, e.kind, e.version, p, e.previous, e.digest)
      \/ \E k \in Kinds : d = Row(e.sequence, k, e.version, e.payload, e.previous, e.digest)
      \/ \E v \in Nat \ {0} : d = Row(e.sequence, e.kind, v, e.payload, e.previous, e.digest)
      \/ d = Row(e.sequence, e.kind, e.version, e.payload, Garbled, e.digest)
      \/ d = Row(e.sequence, e.kind, e.version, e.payload, e.previous, Garbled)
      \/ \E n \in {0, MaxEvents + 1} : d = Row(n, e.kind, e.version, e.payload, e.previous, e.digest)
  <2>1. ASSUME NEW p \in {"respelled", "other", "invalid"}, d = [e EXCEPT !.payload = p]
        PROVE  d = Row(e.sequence, e.kind, e.version, p, e.previous, e.digest)
    BY <1>2, <2>1
  <2>2. ASSUME NEW k \in {"CASE_RELEASED", "WRITE_CONFLICT"}, d = [e EXCEPT !.kind = k]
        PROVE  d = Row(e.sequence, k, e.version, e.payload, e.previous, e.digest)
    BY <1>2, <2>2
  <2>3. ASSUME d = [e EXCEPT !.version = @ + 1]
        PROVE  d = Row(e.sequence, e.kind, e.version + 1, e.payload, e.previous, e.digest)
    BY <1>2, <2>3
  <2>4. ASSUME d = [e EXCEPT !.previous = Garbled]
        PROVE  d = Row(e.sequence, e.kind, e.version, e.payload, Garbled, e.digest)
    BY <1>2, <2>4
  <2>5. ASSUME d = [e EXCEPT !.digest = Garbled]
        PROVE  d = Row(e.sequence, e.kind, e.version, e.payload, e.previous, Garbled)
    BY <1>2, <2>5
  <2>6. ASSUME NEW n \in {0, MaxEvents + 1}, d = [e EXCEPT !.sequence = n]
        PROVE  d = Row(n, e.kind, e.version, e.payload, e.previous, e.digest)
    BY <1>2, <2>6
  <2>7. e.version + 1 \in Nat \ {0}
    BY <1>3
  <2>8. \/ \E p \in {"respelled", "other", "invalid"} : d = [e EXCEPT !.payload = p]
        \/ \E k \in {"CASE_RELEASED", "WRITE_CONFLICT"} : d = [e EXCEPT !.kind = k]
        \/ d = [e EXCEPT !.version = @ + 1]
        \/ d = [e EXCEPT !.previous = Garbled]
        \/ d = [e EXCEPT !.digest = Garbled]
        \/ \E n \in {0, MaxEvents + 1} : d = [e EXCEPT !.sequence = n]
    BY DEF Damaged
  <2> HIDE DEF Row
  <2> QED
    BY <1>4, <2>1, <2>2, <2>3, <2>4, <2>5, <2>6, <2>7, <2>8
<1> QED
  BY <1>1, <1>3, <1>5, EventOfColumns

\* Every row of damaged tables is a row of theirs, or one that was damaged now.
OfRowsOf(log, more) ==
  \A e \in Range(more) : e \in Range(log) \/ \E f \in Range(log) : e \in Damaged(f)

\* After a damage the log still has its keys, and its rows are old ones or damaged old ones.
LEMMA DamagedLog ==
  ASSUME NEW log, KeepsItsKeys(log), NEW more \in DamagedEvents(log)
  PROVE  KeepsItsKeys(more) /\ OfRowsOf(log, more)
<1> DEFINE n == Len(log)
           Others(i) == RemoveAt(log, i)
           Free(i) == {d \in Damaged(log[i]) : \A e \in Range(Others(i)) : e.digest # d.digest}
<1>1. /\ IsSeq(log) /\ n \in Nat /\ DOMAIN log = 1..n /\ n <= MaxEvents
      /\ \A e \in Range(log) : IsEvent(e)
      /\ \A i, j \in 1..n : i < j => log[i].sequence < log[j].sequence
      /\ \A i, j \in 1..n : log[i].digest = log[j].digest => i = j
  BY DEF KeepsItsKeys, IsLog, IsSeq, InOrder, UniqueDigests
<1>2. \A i \in 1..n : log[i] \in Range(log)
  BY <1>1, Elements
<1>3. MaxEvents \in Nat
  BY ReadersAssumption
<1>4. ASSUME NEW i \in 1..n
      PROVE  /\ IsSeq(Others(i)) /\ Range(Others(i)) \subseteq Range(log)
             /\ DOMAIN Others(i) = 1..(n - 1) /\ Len(Others(i)) = n - 1
             /\ \A k \in 1..(n - 1) : Others(i)[k] = log[IF k < i THEN k ELSE k + 1]
  <2>1. /\ Others(i) \in Seq(Range(log)) /\ Len(Others(i)) = n - 1
        /\ \A k \in 1..(n - 1) : Others(i)[k] = log[IF k < i THEN k ELSE k + 1]
    BY <1>1, <1>4, RemovedAt
  <2> HIDE DEF Others
  <2> QED
    BY <2>1, OverItsElements
<1>5. ASSUME NEW i \in 1..n, NEW a \in 1..(n - 1), NEW b \in 1..(n - 1)
      PROVE  /\ a < b => Others(i)[a].sequence < Others(i)[b].sequence
             /\ Others(i)[a].digest = Others(i)[b].digest => a = b
  <2> DEFINE At(k) == IF k < i THEN k ELSE k + 1
  <2>1. At(a) \in 1..n /\ At(b) \in 1..n /\ (a < b => At(a) < At(b)) /\ (At(a) = At(b) => a = b)
    BY <1>1
  <2>2. Others(i)[a] = log[At(a)] /\ Others(i)[b] = log[At(b)]
    BY <1>4
  <2> HIDE DEF At, Others
  <2> QED
    BY <1>1, <2>1, <2>2
<1>6. ASSUME NEW i \in 1..n PROVE KeepsItsKeys(Others(i)) /\ OfRowsOf(log, Others(i))
  <2>1. IsLog(Others(i)) /\ OfRowsOf(log, Others(i))
    <3> HIDE DEF Others
    <3> QED
      BY <1>1, <1>4 DEF IsLog, OfRowsOf
  <2>2. InOrder(Others(i)) /\ UniqueDigests(Others(i))
    <3>1. \A a, b \in 1..(n - 1) : /\ a < b => Others(i)[a].sequence < Others(i)[b].sequence
                                   /\ Others(i)[a].digest = Others(i)[b].digest => a = b
      BY <1>5
    <3>2. DOMAIN Others(i) = 1..(n - 1)
      BY <1>4
    <3> HIDE DEF Others, n
    <3> QED
      BY <3>1, <3>2 DEF InOrder, UniqueDigests
  <2>3. Len(Others(i)) <= MaxEvents
    <3>1. Len(Others(i)) = n - 1
      BY <1>4
    <3> HIDE DEF Others, n
    <3> QED
      BY <1>1, <1>3, <3>1
  <2> QED
    BY <2>1, <2>2, <2>3 DEF KeepsItsKeys
<1>7. ASSUME NEW i \in 1..n, NEW j \in 1..n, NEW d \in Free(i), more = InsertAt(Others(i), j, d), InOrder(more)
      PROVE  KeepsItsKeys(more) /\ OfRowsOf(log, more)
  <2>1. d \in Damaged(log[i]) /\ \A e \in Range(Others(i)) : e.digest # d.digest
    OBVIOUS
  <2> PICK rest : rest = Others(i)
    OBVIOUS
  <2>2. /\ rest \in Seq(Range(rest)) /\ Len(rest) = n - 1
        /\ Range(rest) \subseteq Range(log) /\ DOMAIN rest = 1..(n - 1)
        /\ \A e \in Range(rest) : e.digest # d.digest
        /\ more = InsertAt(rest, j, d)
        /\ \A a, b \in 1..(n - 1) : rest[a].digest = rest[b].digest => a = b
    <3>1. IsSeq(rest) /\ Range(rest) \subseteq Range(log) /\ DOMAIN rest = 1..(n - 1) /\ Len(rest) = n - 1
      BY <1>4
    <3>2. \A a, b \in 1..(n - 1) : rest[a].digest = rest[b].digest => a = b
      BY <1>5
    <3> HIDE DEF Others
    <3> QED
      BY <1>7, <2>1, <3>1, <3>2 DEF IsSeq
  <2> HIDE DEF n, Others
  <2>3. /\ more \in Seq(Range(rest) \cup {d}) /\ Len(more) = n /\ more[j] = d
        /\ \A k \in 1..n : k = j \/ more[k] = rest[IF k < j THEN k ELSE k - 1]
    <3>1. j \in 1..(Len(rest) + 1) /\ Len(rest) + 1 = n
      BY <1>1, <2>2
    <3>2. InsertAt(rest, j, d) \in Seq(Range(rest) \cup {d}) /\ HasInserted(InsertAt(rest, j, d), rest, j, d)
      BY <2>2, <3>1, InsertedAt
    <3>3. Len(more) = Len(rest) + 1 /\ more[j] = d
          /\ \A k \in 1..(Len(rest) + 1) : k = j \/ more[k] = rest[IF k < j THEN k ELSE k - 1]
      BY <2>2, <3>2 DEF HasInserted
    <3> QED
      BY <2>2, <3>1, <3>2, <3>3
  <2>4. IsSeq(more) /\ Range(more) \subseteq Range(rest) \cup {d} /\ DOMAIN more = 1..n
    BY <2>3, OverItsElements
  <2>5. IsEvent(d)
    BY <1>1, <1>2, <2>1, DamagedRow
  <2>6. IsLog(more) /\ OfRowsOf(log, more)
    <3>1. log[i] \in Range(log)
      BY <1>2
    <3> QED
      BY <1>1, <2>1, <2>2, <2>4, <2>5, <3>1 DEF IsLog, OfRowsOf
  <2>7. UniqueDigests(more)
    <3> DEFINE At(k) == IF k < j THEN k ELSE k - 1
    <3>1. \A k \in 1..n : k = j \/ (At(k) \in 1..(n - 1) /\ more[k] = rest[At(k)])
      BY <1>1, <2>3
    <3>2. \A k, l \in 1..n : k # j /\ l # j /\ At(k) = At(l) => k = l
      BY <1>1
    <3>3. \A k \in 1..n : k = j \/ more[k].digest # d.digest
      <4>1. \A k \in 1..(n - 1) : rest[k] \in Range(rest)
        BY <2>2 DEF Range
      <4> HIDE DEF At
      <4> QED
        BY <2>2, <3>1, <4>1
    <3> HIDE DEF At
    <3>4. ASSUME NEW k \in 1..n, NEW l \in 1..n, more[k].digest = more[l].digest
          PROVE  k = l
      <4>1. CASE k = j \/ l = j
        BY <2>3, <3>3, <3>4, <4>1
      <4>2. CASE k # j /\ l # j
        BY <2>2, <3>1, <3>2, <3>4, <4>2
      <4> QED
        BY <4>1, <4>2
    <3> QED
      BY <2>4, <3>4 DEF UniqueDigests
  <2> QED
    BY <1>1, <1>7, <2>3, <2>6, <2>7 DEF KeepsItsKeys
<1>8. \/ \E i \in 1..n : more = Others(i)
      \/ InOrder(more) /\ \E i, j \in 1..n : \E d \in Free(i) : more = InsertAt(Others(i), j, d)
  <2>1. DOMAIN log = 1..n
    BY <1>1
  <2> QED
    BY <2>1 DEF DamagedEvents
<1> QED
  BY <1>6, <1>7, <1>8

-----------------------------------------------------------------------------
(* The tables and what was written to them.                                *)

\* A row has lost its digest or is one that was written, with its number or one
\* that no event of a valid log has.
Traced(e) ==
  \/ e.digest = Garbled
  \/ \E w \in written : w.digest = e.digest /\ e.sequence \in {w.sequence, 0, MaxEvents + 1}

\* At most one release was ever written: the last event of the sealed log.
ReleaseWritten ==
  /\ stored.released =>
       /\ IsLog(sealed)
       /\ sealed # <<>>
       /\ Last(sealed) \in written
       /\ Last(sealed).kind = "CASE_RELEASED"
       /\ Last(sealed).version = stored.certificate.version
       /\ Last(sealed).previous = stored.certificate.head
  /\ \A w \in written : w.kind = "CASE_RELEASED" => stored.released /\ w = Last(sealed)

TablesInv ==
  /\ IsTables(stored)
  /\ \A w \in written : AsIssued(w)
  /\ \A e \in Range(stored.events) : Traced(e)
  /\ ReleaseWritten

\* What a commit does to the tables.
Committed ==
  /\ stored' = staged
  /\ written' = written \cup (Range(staged.events) \ Range(stored.events))
  /\ sealed' = IF staged.released /\ ~stored.released THEN staged.events ELSE sealed

\* A commit that releases nothing keeps what is known of the tables.
LEMMA OrdinaryCommit ==
  ASSUME TablesInv, Committed, IsTables(staged), Grown(stored.events, staged.events), Ordinary(stored, staged)
  PROVE  TablesInv'
<1>1. IsTables(stored') /\ stored'.released = stored.released /\ stored'.certificate = stored.certificate
      /\ sealed' = sealed
  BY DEF Committed, Ordinary
<1>2. \A w \in written' : AsIssued(w)
  BY DEF TablesInv, Committed, Grown
<1>3. \A w \in written' : w \in written \/ w.kind # "CASE_RELEASED"
  BY DEF Committed, Ordinary
<1>4. written \subseteq written'
  BY DEF Committed
<1>5. ReleaseWritten'
  BY <1>1, <1>3, <1>4 DEF TablesInv, ReleaseWritten
<1>6. ASSUME NEW e \in Range(stored'.events) PROVE Traced(e)'
  <2>1. CASE e \in Range(stored.events)
    BY <1>4, <2>1 DEF TablesInv, Traced
  <2>2. CASE e \notin Range(stored.events)
    BY <1>6, <2>2 DEF Committed, Traced
  <2> QED
    BY <2>1, <2>2
<1> QED
  BY <1>1, <1>2, <1>5, <1>6 DEF TablesInv, IsTables, IsEvent, AsIssued

\* So does the commit of the release.
LEMMA ReleasingCommit ==
  ASSUME TablesInv, Committed, IsTables(staged), Grown(stored.events, staged.events), Releasing(stored, staged)
  PROVE  TablesInv'
<1>1. PICK e : /\ Extends(stored.events, staged.events, e)
               /\ e.kind = "CASE_RELEASED"
               /\ e.version = staged.certificate.version
               /\ e.previous = staged.certificate.head
  BY DEF Releasing
<1>2. stored' = staged /\ sealed' = staged.events /\ stored'.released = TRUE /\ ~stored.released
  BY DEF Committed, Releasing
<1>3. \A w \in written' : AsIssued(w)
  BY DEF TablesInv, Committed, Grown
<1>4. written' \subseteq written \cup {e}
  BY <1>1 DEF Committed, Extends
<1>5. \A w \in written : w.kind # "CASE_RELEASED"
  BY <1>2 DEF TablesInv, ReleaseWritten
<1>6. \A f \in Range(staged.events) : f \in Range(stored.events) \/ f \in written'
  BY DEF Committed
<1>7. \A f \in Range(staged.events) : Traced(f)'
  <2>1. written \subseteq written'
    BY DEF Committed
  <2> QED
    BY <1>6, <2>1 DEF TablesInv, Traced
<1>8. e \in written'
  <2>1. e \in Range(staged.events)
    BY <1>1 DEF Extends
  <2>2. \A f \in Range(stored.events) : f # e
    <3>1. \A i \in DOMAIN stored.events : stored.events[i] # e
      <4>1. /\ IsSeq(stored.events) /\ staged.events = Append(stored.events, e)
            /\ UniqueDigests(staged.events)
        BY <1>1 DEF TablesInv, IsTables, KeepsItsKeys, IsLog, Extends
      <4>2. ASSUME NEW i \in DOMAIN stored.events PROVE stored.events[i] # e
        <5>1. i \in 1..Len(stored.events) /\ Len(stored.events) \in Nat
          BY <4>1, Elements
        <5>2. /\ staged.events[i] = stored.events[i] /\ staged.events[Len(stored.events) + 1] = e
              /\ DOMAIN staged.events = 1..(Len(stored.events) + 1)
          BY <4>1, <5>1, AppendedLog, Elements
        <5> QED
          BY <4>1, <5>1, <5>2 DEF UniqueDigests
      <4> QED
        BY <4>2
    <3> QED
      BY <3>1 DEF Range
  <2> QED
    BY <2>1, <2>2 DEF Committed
<1>9. Last(sealed') = e /\ sealed' # <<>> /\ IsLog(sealed')
  <2>1. IsSeq(stored.events)
    BY DEF TablesInv, IsTables, KeepsItsKeys, IsLog
  <2>2. sealed' = Append(stored.events, e)
    BY <1>1, <1>2 DEF Extends
  <2>3. Len(sealed') = Len(stored.events) + 1 /\ sealed'[Len(stored.events) + 1] = e /\ Len(stored.events) \in Nat
    BY <2>1, <2>2, AppendedLog, Elements
  <2>4. sealed' # <<>>
    BY <2>3
  <2>5. IsLog(sealed')
    BY <1>1, <1>2 DEF Extends
  <2> QED
    BY <2>3, <2>4, <2>5 DEF Last
<1>10. ReleaseWritten'
  BY <1>1, <1>2, <1>4, <1>5, <1>8, <1>9 DEF ReleaseWritten
<1> QED
  BY <1>2, <1>3, <1>7, <1>10 DEF TablesInv

\* Damage of the log leaves rows that were written, as far as their digests tell.
LEMMA FaultKeepsTables ==
  ASSUME TablesInv, Fault
  PROVE  TablesInv'
<1>1. UNCHANGED <<written, sealed>>
  BY DEF Fault
<1>2. /\ IsRecord(stored) /\ stored.version \in Nat \ {0} /\ stored.released \in BOOLEAN
      /\ CertificateIfReleased(stored) /\ KeepsItsKeys(stored.events)
  BY DEF TablesInv, IsTables, IsRecord
<1>3. ASSUME NEW log \in DamagedEvents(stored.events), stored' = [stored EXCEPT !.events = log]
      PROVE  TablesInv'
  <2>1. stored' = [version |-> stored.version, released |-> stored.released,
                   certificate |-> stored.certificate, events |-> log]
    BY <1>2, <1>3 DEF IsRecord
  <2>2. KeepsItsKeys(log) /\ OfRowsOf(stored.events, log)
    BY <1>2, DamagedLog
  <2>3. IsTables(stored')
    BY <1>2, <2>1, <2>2 DEF IsTables, CertificateIfReleased
  <2>4. ASSUME NEW e \in Range(log) PROVE Traced(e)
    <3>1. CASE e \in Range(stored.events)
      BY <3>1 DEF TablesInv
    <3>2. ASSUME NEW f \in Range(stored.events), e \in Damaged(f) PROVE Traced(e)
      <4>1. Traced(f) /\ IsEvent(f)
        BY <1>2, <3>2 DEF TablesInv, KeepsItsKeys, IsLog
      <4>2. e.digest \in {f.digest, Garbled} /\ e.sequence \in {f.sequence, 0, MaxEvents + 1}
        BY <3>2, <4>1, DamagedRow
      <4> QED
        BY <4>1, <4>2 DEF Traced
    <3> QED
      BY <2>2, <3>1, <3>2 DEF OfRowsOf
  <2>5. \A e \in Range(stored'.events) : Traced(e)'
    BY <1>1, <2>1, <2>4 DEF Traced
  <2>6. ReleaseWritten'
    BY <1>1, <2>1 DEF TablesInv, ReleaseWritten
  <2> QED
    BY <1>1, <2>3, <2>5, <2>6 DEF TablesInv
<1>4. ASSUME stored.certificate # NoCertificate, NEW s \in DamagedSnapshots(stored.certificate.snapshot),
             stored' = [stored EXCEPT !.certificate.snapshot = s]
      PROVE  TablesInv'
  <2> DEFINE cert == stored.certificate
             now == [version |-> cert.version, digest |-> cert.digest, head |-> cert.head, snapshot |-> s]
  <2>1. IsCertificate(cert)
    BY <1>2, <1>4 DEF CertificateIfReleased
  <2>2. s = [version |-> s.version, text |-> s.text] /\ s.version \in Nat
    <3>1. PICK old : old = cert.snapshot
      OBVIOUS
    <3>2. old = [version |-> old.version, text |-> old.text] /\ old.version \in Nat
      BY <2>1, <3>1 DEF IsCertificate
    <3>3. s = [old EXCEPT !.text = "other"] \/ s = [old EXCEPT !.version = @ + 1]
      BY <1>4, <3>1 DEF DamagedSnapshots
    <3>4. s = [version |-> old.version, text |-> "other"] \/ s = [version |-> old.version + 1, text |-> old.text]
      BY <3>2, <3>3
    <3> QED
      BY <3>2, <3>4
  <2>3. stored' = [version |-> stored.version, released |-> stored.released,
                   certificate |-> now, events |-> stored.events]
    <3>1. PICK c : c = [cert EXCEPT !.snapshot = s]
      OBVIOUS
    <3>2. c = now
      BY <2>1, <3>1 DEF IsCertificate
    <3>3. stored' = [stored EXCEPT !.certificate = c]
      BY <1>4, <3>1
    <3> HIDE DEF now
    <3> QED
      BY <1>2, <3>2, <3>3 DEF IsRecord
  <2>4. IsCertificate(now)
    BY <2>1, <2>2 DEF IsCertificate
  <2>5. now.version = cert.version /\ now.head = cert.head /\ stored.released
    BY <1>2, <1>4 DEF CertificateIfReleased
  <2> HIDE DEF now
  <2>6. IsTables(stored')
    BY <1>2, <2>3, <2>4, <2>5 DEF IsTables, CertificateIfReleased
  <2>7. ReleaseWritten'
    BY <1>1, <2>3, <2>5 DEF TablesInv, ReleaseWritten
  <2>8. \A e \in Range(stored'.events) : Traced(e)'
    BY <1>1, <2>3 DEF TablesInv, Traced
  <2> QED
    BY <1>1, <2>6, <2>7, <2>8 DEF TablesInv
<1> QED
  BY <1>3, <1>4 DEF Fault

-----------------------------------------------------------------------------
(* The steps of a call.                                                    *)

Steps == Queries \cup {"close", "begin", "end"}

\* The steps that take the connection and keep it for the step after them, and
\* the ones that give it back.
Takes == Cursors \cup {"begin"}

Gives == {"close", "end"}

\* P is s, of m steps, and t, of n steps, after it.
JoinedAt(P, s, m, t, n) ==
  /\ Len(P) = m + n
  /\ \A k \in 1..(m + n) : P[k] = IF k <= m THEN s[k] ELSE t[k - m]

\* Two sequences one after the other, by position.
LEMMA Joined ==
  ASSUME NEW S, NEW s \in Seq(S), NEW t \in Seq(S), NEW m, NEW n, Len(s) = m, Len(t) = n
  PROVE  s \o t \in Seq(S) /\ JoinedAt(s \o t, s, m, t, n)
<1>1. /\ s \o t \in Seq(S) /\ Len(s \o t) = Len(s) + Len(t)
      /\ \A i \in 1..Len(s) : (s \o t)[i] = s[i]
      /\ \A i \in 1..Len(t) : (s \o t)[Len(s) + i] = t[i]
      /\ m \in Nat /\ n \in Nat
  OBVIOUS
<1>2. PICK P : P = s \o t
  OBVIOUS
<1>3. ASSUME NEW k \in 1..(m + n) PROVE P[k] = IF k <= m THEN s[k] ELSE t[k - m]
  <2>1. CASE k <= m
    BY <1>1, <1>2, <2>1
  <2>2. CASE ~(k <= m)
    <3>1. k - m \in 1..n /\ m + (k - m) = k
      BY <1>1, <2>2
    <3> QED
      BY <1>1, <1>2, <2>2, <3>1
  <2> QED
    BY <2>1, <2>2
<1> QED
  BY <1>1, <1>2, <1>3 DEF JoinedAt

\* Short lists of steps.
LEMMA ShortLists ==
  ASSUME NEW S, NEW a \in S, NEW b \in S, NEW c \in S, NEW d \in S, NEW e \in S
  PROVE  <<a>> \in Seq(S) /\ <<a, b>> \in Seq(S) /\ <<a, b, c, d, e>> \in Seq(S)
OBVIOUS

\* The queries of loadCase, one by one.
LEMMA LoadCaseSteps ==
  /\ LoadCase \in Seq(Steps) /\ Len(LoadCase) = 5
  /\ LoadCase[1] = "row" /\ LoadCase[2] = "batches" /\ LoadCase[3] = "close"
  /\ LoadCase[4] = "issues" /\ LoadCase[5] = "certificate"
<1>1. {"row", "batches", "close", "issues", "certificate"} \subseteq Steps
  BY DEF Steps, Queries
<1>2. LoadCase \in Seq(Steps)
  BY <1>1, ShortLists DEF LoadCase
<1> QED
  BY <1>2 DEF LoadCase

\* LoadCase and the two queries after it.
LEMMA ViewSteps ==
  LET P == LoadCase \o <<"events", "snapshot">>
  IN  /\ P \in Seq(Steps) /\ Len(P) = 7
      /\ P[1] = "row" /\ P[2] = "batches" /\ P[3] = "close" /\ P[4] = "issues" /\ P[5] = "certificate"
      /\ P[6] = "events" /\ P[7] = "snapshot"
<1> DEFINE t == <<"events", "snapshot">>
<1>1. "events" \in Steps /\ "snapshot" \in Steps
  BY DEF Steps, Queries
<1>2. t \in Seq(Steps) /\ Len(t) = 2 /\ t[1] = "events" /\ t[2] = "snapshot"
  BY <1>1, ShortLists
<1> HIDE DEF t
<1>3. LoadCase \o t \in Seq(Steps) /\ JoinedAt(LoadCase \o t, LoadCase, 5, t, 2)
  BY <1>2, LoadCaseSteps, Joined
<1>4. PICK P : P = LoadCase \o t
  OBVIOUS
<1>6. P \in Seq(Steps) /\ JoinedAt(P, LoadCase, 5, t, 2)
  BY <1>3, <1>4
<1>5. Len(P) = 7 /\ P[6] = "events" /\ P[7] = "snapshot" /\ \A i \in 1..5 : P[i] = LoadCase[i]
  BY <1>2, <1>6 DEF JoinedAt
<1> QED
  BY <1>4, <1>5, <1>6, LoadCaseSteps DEF t

\* The queries of ListCases, one by one.
LEMMA ListSteps ==
  /\ ListCases \in Seq(Steps) /\ Len(ListCases) = 7
  /\ ListCases[1] = "ids" /\ ListCases[2] = "close" /\ ListCases[3] = "row" /\ ListCases[4] = "batches"
  /\ ListCases[5] = "close" /\ ListCases[6] = "issues" /\ ListCases[7] = "certificate"
<1> DEFINE s == <<"ids", "close">>
<1>1. "ids" \in Steps /\ "close" \in Steps
  BY DEF Steps, Queries
<1>2. s \in Seq(Steps) /\ Len(s) = 2 /\ s[1] = "ids" /\ s[2] = "close"
  BY <1>1, ShortLists
<1> HIDE DEF s
<1>3. s \o LoadCase \in Seq(Steps) /\ JoinedAt(s \o LoadCase, s, 2, LoadCase, 5)
  BY <1>2, LoadCaseSteps, Joined
<1>4. PICK P : P = s \o LoadCase
  OBVIOUS
<1>7. P \in Seq(Steps) /\ JoinedAt(P, s, 2, LoadCase, 5)
  BY <1>3, <1>4
<1>5. /\ Len(P) = 7 /\ P[1] = s[1] /\ P[2] = s[2]
      /\ P[3] = "row" /\ P[4] = "batches" /\ P[5] = "close" /\ P[6] = "issues"
      /\ P[7] = "certificate"
  BY <1>7, LoadCaseSteps DEF JoinedAt
<1>6. P = ListCases
  BY <1>4 DEF ListCases, s
<1> QED
  BY <1>2, <1>5, <1>6, <1>7

\* The queries of LookupCertificate, one by one.
LEMMA LookupSteps ==
  LET P == LookupCertificate
  IN  /\ P \in Seq(Steps) /\ Len(P) = 8
      /\ P[1] = "find" /\ P[2] = "snapshot" /\ P[3] = "row" /\ P[4] = "batches" /\ P[5] = "close"
      /\ P[6] = "issues" /\ P[7] = "certificate" /\ P[8] = "events"
<1> DEFINE s == <<"find", "snapshot">>
           t == <<"events">>
           st == s \o LoadCase
<1>1. "find" \in Steps /\ "snapshot" \in Steps /\ "events" \in Steps
  BY DEF Steps, Queries
<1>2. s \in Seq(Steps) /\ Len(s) = 2 /\ s[1] = "find" /\ s[2] = "snapshot"
  BY <1>1, ShortLists
<1>3. t \in Seq(Steps) /\ Len(t) = 1 /\ t[1] = "events"
  BY <1>1, ShortLists
<1> HIDE DEF s, t
<1>4. st \in Seq(Steps) /\ JoinedAt(st, s, 2, LoadCase, 5)
  BY <1>2, LoadCaseSteps, Joined
<1> HIDE DEF st
<1>5. /\ Len(st) = 7 /\ st[1] = s[1] /\ st[2] = s[2]
      /\ st[3] = "row" /\ st[4] = "batches" /\ st[5] = "close" /\ st[6] = "issues"
      /\ st[7] = "certificate"
  BY <1>4, LoadCaseSteps DEF JoinedAt
<1>6. st \o t \in Seq(Steps) /\ JoinedAt(st \o t, st, 7, t, 1)
  BY <1>3, <1>4, <1>5, Joined
<1>7. PICK P : P = st \o t
  OBVIOUS
<1>10. P \in Seq(Steps) /\ JoinedAt(P, st, 7, t, 1)
  BY <1>6, <1>7
<1>8. Len(P) = 8 /\ P[8] = "events" /\ \A i \in 1..7 : P[i] = st[i]
  BY <1>3, <1>10 DEF JoinedAt
<1>9. P = LookupCertificate
  BY <1>7 DEF LookupCertificate, st, s, t
<1> QED
  BY <1>2, <1>5, <1>8, <1>9, <1>10

\* The steps of a call in order: the one after a step that takes the connection,
\* and no other, gives it back.
IsProgram(P) ==
  /\ P \in Seq(Steps) /\ Len(P) \in Nat \ {0}
  /\ P[1] \notin Gives
  /\ P[Len(P)] \notin Takes
  /\ \A k \in 1..(Len(P) - 1) : P[k + 1] \in Gives <=> P[k] \in Takes

OnlyReads(P) == \A k \in 1..Len(P) : P[k] \in Queries \cup {"close"}

\* A read is a program whose cursors are closed at once, and never has a transaction.
LEMMA ReadPrograms ==
  ASSUME NEW op \in Reads
  PROVE  IsProgram(Program(op)) /\ OnlyReads(Program(op))
<1> USE DEF Queries, Cursors, Takes, Gives
<1>1. Program(op) = Programs[op]
      /\ op \in {"ListCases", "GetCase", "VerifyIntegrity", "VerifyCertificate", "LookupCertificate"}
  BY DEF Program, Reads, Programs
<1>2. CASE op = "ListCases"
  <2>1. PICK P : P = ListCases
    OBVIOUS
  <2>2. IsProgram(P) /\ OnlyReads(P)
    BY <2>1, ListSteps DEF IsProgram, OnlyReads
  <2>3. Program(op) = P
    BY <1>1, <1>2, <2>1 DEF Programs
  <2> QED
    BY <2>2, <2>3
<1>3. CASE op \in {"GetCase", "VerifyIntegrity"}
  <2>1. PICK P : P = LoadCase \o <<"events", "snapshot">>
    OBVIOUS
  <2>2. IsProgram(P) /\ OnlyReads(P)
    <3>1. /\ P \in Seq(Steps) /\ Len(P) = 7
          /\ P[1] = "row" /\ P[2] = "batches" /\ P[3] = "close" /\ P[4] = "issues" /\ P[5] = "certificate"
          /\ P[6] = "events" /\ P[7] = "snapshot"
      BY <2>1, ViewSteps
    <3> QED
      BY <3>1 DEF IsProgram, OnlyReads
  <2>3. Program(op) = P
    BY <1>1, <1>3, <2>1 DEF Programs, GetCase, VerifyIntegrity
  <2> QED
    BY <2>2, <2>3
<1>4. CASE op = "VerifyCertificate"
  <2>1. PICK P : P = VerifyCertificate
    OBVIOUS
  <2>2. IsProgram(P) /\ OnlyReads(P)
    <3>1. "snapshot" \in Steps /\ "events" \in Steps
      BY DEF Steps
    <3>2. P \in Seq(Steps) /\ Len(P) = 2 /\ P[1] = "snapshot" /\ P[2] = "events"
      BY <2>1, <3>1, ShortLists DEF VerifyCertificate
    <3> QED
      BY <3>2 DEF IsProgram, OnlyReads
  <2>3. Program(op) = P
    BY <1>1, <1>4, <2>1 DEF Programs
  <2> QED
    BY <2>2, <2>3
<1>5. CASE op = "LookupCertificate"
  <2>1. PICK P : P = LookupCertificate
    OBVIOUS
  <2>2. IsProgram(P) /\ OnlyReads(P)
    BY <2>1, LookupSteps DEF IsProgram, OnlyReads
  <2>3. Program(op) = P
    BY <1>1, <1>5, <2>1 DEF Programs
  <2> QED
    BY <2>2, <2>3
<1> QED
  BY <1>1, <1>2, <1>3, <1>4, <1>5

\* A write begins and ends, nothing else.
LEMMA WriteProgram ==
  /\ IsProgram(Program("Write")) /\ Len(Program("Write")) = 2
  /\ Program("Write")[1] = "begin" /\ Program("Write")[2] = "end"
<1> USE DEF Queries, Cursors, Takes, Gives
<1>1. "begin" \in Steps /\ "end" \in Steps
  BY DEF Steps
<1>2. PICK P : P = <<"begin", "end">>
  OBVIOUS
<1>3. P \in Seq(Steps) /\ Len(P) = 2 /\ P[1] = "begin" /\ P[2] = "end"
  BY <1>1, <1>2, ShortLists
<1>4. IsProgram(P)
  BY <1>3 DEF IsProgram
<1>5. Program("Write") = P
  BY <1>2 DEF Program, Reads, Programs
<1> QED
  BY <1>3, <1>4, <1>5

\* What is left of a program from step k on.
From(P, k) == SubSeq(P, k, Len(P))

\* At step k of a program.
LeftAt(P, k, left) ==
  /\ Len(left) = Len(P) + 1 - k
  /\ left = <<>> <=> k = Len(P) + 1
  /\ k <= Len(P) => Head(left) = P[k] /\ Tail(left) = From(P, k + 1)

\* What is left of a program from a step on: its head is that step, its tail the rest.
LEMMA Left ==
  ASSUME NEW P, IsProgram(P), NEW k \in 1..(Len(P) + 1)
  PROVE  LeftAt(P, k, From(P, k))
<1> DEFINE left == SubSeq(P, k, Len(P))
<1>1. P \in Seq(Steps) /\ Len(P) \in Nat \ {0}
  BY DEF IsProgram
<1>2. left \in Seq(Steps) /\ Len(left) = Len(P) + 1 - k
  BY <1>1
<1>3. k <= Len(P) => Head(left) = P[k] /\ Tail(left) = SubSeq(P, k + 1, Len(P))
  BY <1>1
<1> HIDE DEF left
<1>4. left = <<>> <=> k = Len(P) + 1
  <2>1. left = <<>> <=> Len(left) = 0
    BY <1>2
  <2> QED
    BY <1>1, <1>2, <2>1
<1> QED
  BY <1>2, <1>3, <1>4 DEF LeftAt, From, left

-----------------------------------------------------------------------------
(* The calls and the connection.                                           *)

OpsOf(c) == IF c \in Readers THEN Reads ELSE {"Write"}

\* A call of a client: an operation of its kind and the steps left of it.
IsCall(c, call) ==
  /\ call = [op |-> call.op, left |-> call.left, seen |-> call.seen, answer |-> call.answer]
  /\ call.op \in OpsOf(c)
  /\ \E k \in 1..(Len(Program(call.op)) + 1) : call.left = From(Program(call.op), k)

\* The call has the connection: the step that gives it back is next.
Holding(call) == call.left # <<>> /\ Head(call.left) \in Gives

CallsInv ==
  /\ DOMAIN calls = Clients
  /\ \A c \in Clients : calls[c] = NoCall \/ IsCall(c, calls[c])
  /\ \A c \in Clients : conn = c <=> Holding(calls[c])
  /\ conn \in Clients \cup {None}
  /\ staged # NoTables <=> conn \in Writers
  /\ staged # NoTables => staged \in Writes(stored) \cup {stored}
  /\ phase \in {"serving", "draining", "down"}
  /\ faults \in 0..MaxFaults

\* The program of a call is that of its client.
LEMMA ProgramOfCall ==
  ASSUME NEW c \in Clients, NEW op \in OpsOf(c)
  PROVE  /\ IsProgram(Program(op))
         /\ c \in Readers => OnlyReads(Program(op)) /\ op \in Reads
         /\ c \notin Readers => op = "Write"
BY ReadPrograms, WriteProgram DEF OpsOf

\* Where a call is that has a step left.
AtStep(c, call, k) ==
  LET P == Program(call.op)
  IN  /\ IsProgram(P)
      /\ k \in 1..Len(P)
      /\ call.left = From(P, k)
      /\ Len(call.left) = Len(P) + 1 - k
      /\ Head(call.left) = P[k] /\ Tail(call.left) = From(P, k + 1)
      /\ c \in Readers => P[k] \in Queries \cup {"close"}
      /\ c \notin Readers => call.op = "Write" /\ P[k] \in {"begin", "end"}

\* A call with something left is at a step of its program.
LEMMA CallAtStep ==
  ASSUME NEW c \in Clients, NEW call, IsCall(c, call), call.left # <<>>
  PROVE  \E k : AtStep(c, call, k)
<1> DEFINE P == Program(call.op)
<1>1. IsProgram(P) /\ (c \in Readers => OnlyReads(P)) /\ (c \notin Readers => call.op = "Write")
  BY ProgramOfCall DEF IsCall
<1>2. PICK k \in 1..(Len(P) + 1) : call.left = From(P, k)
  BY DEF IsCall
<1>3. LeftAt(P, k, call.left)
  BY <1>1, <1>2, Left
<1>4. k \in 1..Len(P)
  BY <1>1, <1>2, <1>3 DEF LeftAt, IsProgram
<1>5. call.op = "Write" => P[k] \in {"begin", "end"}
  BY <1>4, WriteProgram
<1>6. k <= Len(P) /\ (c \in Readers => P[k] \in Queries \cup {"close"})
  BY <1>1, <1>4 DEF OnlyReads, IsProgram
<1>7. Len(call.left) = Len(P) + 1 - k /\ Head(call.left) = P[k] /\ Tail(call.left) = From(P, k + 1)
  BY <1>3, <1>6 DEF LeftAt
<1> HIDE DEF P
<1>8. AtStep(c, call, k)
  BY <1>1, <1>2, <1>4, <1>5, <1>6, <1>7 DEF AtStep, P
<1> QED
  BY <1>8

\* One step on: the call has the connection after a step that takes it.
LEMMA StepOn ==
  ASSUME NEW c \in Clients, NEW call, IsCall(c, call), call.left # <<>>,
         NEW next, NEW seen, NEW answer,
         next = [op |-> call.op, left |-> Tail(call.left), seen |-> seen, answer |-> answer]
  PROVE  IsCall(c, next) /\ (Holding(next) <=> Head(call.left) \in Takes)
<1>1. PICK k : AtStep(c, call, k)
  BY CallAtStep
<1> DEFINE P == Program(call.op)
<1>2. /\ IsProgram(P) /\ k \in 1..Len(P) /\ Len(P) \in Nat
      /\ Head(call.left) = P[k] /\ Tail(call.left) = From(P, k + 1)
  BY <1>1 DEF AtStep, IsProgram
<1>3. k + 1 \in 1..(Len(P) + 1)
  BY <1>2
<1>4. LeftAt(P, k + 1, From(P, k + 1))
  BY <1>2, <1>3, Left
<1>5. next.op = call.op /\ next.left = From(P, k + 1)
      /\ next = [op |-> next.op, left |-> next.left, seen |-> next.seen, answer |-> next.answer]
  BY <1>2
<1>6. IsCall(c, next)
  BY <1>3, <1>5 DEF IsCall
<1> HIDE DEF P
<1>7. Holding(next) <=> P[k] \in Takes
  <2>1. CASE k = Len(P)
    <3>1. next.left = <<>>
      BY <1>2, <1>4, <1>5, <2>1 DEF LeftAt
    <3>2. P[k] \notin Takes
      BY <1>2, <2>1 DEF IsProgram
    <3> QED
      BY <3>1, <3>2 DEF Holding
  <2>2. CASE k # Len(P)
    <3>1. k \in 1..(Len(P) - 1) /\ k + 1 <= Len(P) /\ k + 1 # Len(P) + 1
      BY <1>2, <2>2
    <3>2. next.left # <<>> /\ Head(next.left) = P[k + 1]
      BY <1>4, <1>5, <3>1 DEF LeftAt
    <3>3. P[k + 1] \in Gives <=> P[k] \in Takes
      BY <1>2, <3>1 DEF IsProgram
    <3> QED
      BY <3>2, <3>3 DEF Holding
  <2> QED
    BY <2>1, <2>2
<1> QED
  BY <1>2, <1>6, <1>7

\* At its end a call has no step left, and the connection does not belong to it.
LEMMA AtItsEnd ==
  ASSUME NEW c \in Clients, NEW op \in OpsOf(c), NEW seen, NEW answer, NEW next,
         next = [op |-> op, left |-> <<>>, seen |-> seen, answer |-> answer]
  PROVE  IsCall(c, next) /\ ~Holding(next)
<1> DEFINE P == Program(op)
<1>1. IsProgram(P) /\ Len(P) \in Nat
  BY ProgramOfCall DEF IsProgram
<1>2. Len(P) + 1 \in 1..(Len(P) + 1)
  BY <1>1
<1>3. LeftAt(P, Len(P) + 1, From(P, Len(P) + 1))
  BY <1>1, <1>2, Left
<1>4. From(P, Len(P) + 1) = <<>>
  BY <1>3 DEF LeftAt
<1>5. next.op = op /\ next.left = <<>>
      /\ next = [op |-> next.op, left |-> next.left, seen |-> next.seen, answer |-> next.answer]
  OBVIOUS
<1> QED
  BY <1>2, <1>4, <1>5 DEF IsCall, Holding

\* A call that begins does not have the connection.
LEMMA AtItsBeginning ==
  ASSUME NEW c \in Clients, NEW op \in OpsOf(c), NEW seen, NEW answer, NEW next,
         next = [op |-> op, left |-> Program(op), seen |-> seen, answer |-> answer]
  PROVE  IsCall(c, next) /\ ~Holding(next)
<1> DEFINE P == Program(op)
<1>1. IsProgram(P) /\ P \in Seq(Steps) /\ Len(P) \in Nat \ {0} /\ P[1] \notin Gives
  BY ProgramOfCall DEF IsProgram
<1>2. From(P, 1) = P
  <2> HIDE DEF P
  <2> QED
    BY <1>1 DEF From
<1>3. 1 \in 1..(Len(P) + 1)
  BY <1>1
<1>4. Head(P) = P[1]
  BY <1>1
<1>5. next.op = op /\ next.left = P
      /\ next = [op |-> next.op, left |-> next.left, seen |-> next.seen, answer |-> next.answer]
  OBVIOUS
<1> QED
  BY <1>1, <1>2, <1>3, <1>4, <1>5 DEF IsCall, Holding

\* Who is who: nobody is no client, and queries, takes and gives overlap in cursors only.
LEMMA Sets ==
  /\ None \notin Clients
  /\ \A c \in Clients : c \in Readers <=> c \notin Writers
  /\ Queries \cap Takes = Cursors /\ Queries \cap Gives = {} /\ Gives \cap Takes = {}
  /\ "begin" \in Takes /\ "begin" \notin Queries \cup Gives
  /\ ~Holding(NoCall)
<1>1. None \notin Clients /\ \A c \in Clients : c \in Readers <=> c \notin Writers
  BY ReadersAssumption DEF Clients
<1>2. ~Holding(NoCall)
  BY DEF Holding, NoCall
<1> QED
  BY <1>1, <1>2 DEF Queries, Takes, Gives, Cursors

\* A step that changes one call, and the connection accordingly.
LEMMA OneCall ==
  ASSUME CallsInv, NEW c \in Clients, NEW call, calls' = [calls EXCEPT ![c] = call],
         call = NoCall \/ IsCall(c, call),
         conn' \in Clients \cup {None},
         conn' = c <=> Holding(call),
         \A d \in Clients \ {c} : conn' = d <=> conn = d,
         staged' # NoTables <=> conn' \in Writers,
         staged' # NoTables => staged' \in Writes(stored') \cup {stored'},
         UNCHANGED <<phase, faults>>
  PROVE  CallsInv'
<1>1. DOMAIN calls' = Clients /\ calls'[c] = call /\ \A d \in Clients \ {c} : calls'[d] = calls[d]
  BY DEF CallsInv
<1>2. \A d \in Clients : calls'[d] = NoCall \/ IsCall(d, calls'[d])
  BY <1>1 DEF CallsInv
<1>3. \A d \in Clients : conn' = d <=> Holding(calls'[d])
  BY <1>1 DEF CallsInv
<1> QED
  BY <1>1, <1>2, <1>3 DEF CallsInv

\* Steps that change no call, or end them all.
LEMMA CallsKept ==
  ASSUME CallsInv, UNCHANGED <<conn, staged, calls>>,
         staged = NoTables \/ UNCHANGED stored,
         phase' \in {"serving", "draining", "down"}, faults' \in 0..MaxFaults
  PROVE  CallsInv'
BY DEF CallsInv

\* The call a client is in the middle of.
LEMMA DoingCall ==
  ASSUME CallsInv, NEW c \in Clients, NEW S, Doing(c, S)
  PROVE  /\ IsCall(c, calls[c]) /\ calls[c].left # <<>> /\ Head(calls[c].left) \in S
         /\ calls[c] = [op |-> calls[c].op, left |-> calls[c].left, seen |-> calls[c].seen,
                        answer |-> calls[c].answer]
         /\ c \in Readers => Head(calls[c].left) \in Queries \cup {"close"}
         /\ c \notin Readers => Head(calls[c].left) \in {"begin", "end"}
         /\ conn = c <=> Head(calls[c].left) \in Gives
<1>1. IsCall(c, calls[c]) /\ calls[c].left # <<>> /\ Head(calls[c].left) \in S
  BY DEF Doing, CallsInv
<1>2. PICK k : AtStep(c, calls[c], k)
  BY <1>1, CallAtStep
<1>3. conn = c <=> Head(calls[c].left) \in Gives
  BY <1>1 DEF CallsInv, Holding
<1> QED
  BY <1>1, <1>2, <1>3 DEF IsCall, AtStep

\* A new call holds no connection.
LEMMA CallKeepsCalls ==
  ASSUME CallsInv, NEW c \in Clients, NEW op \in OpsOf(c), Call(c, op)
  PROVE  CallsInv'
<1>1. PICK call : call = [op |-> op, left |-> Program(op), seen |-> Unseen, answer |-> "none"]
  OBVIOUS
<1>2. calls' = [calls EXCEPT ![c] = call] /\ calls[c] = NoCall
      /\ UNCHANGED <<stored, conn, staged, phase, faults>>
  BY <1>1 DEF Call
<1>3. IsCall(c, call) /\ ~Holding(call)
  BY <1>1, AtItsBeginning
<1>4. conn # c
  BY <1>2, Sets DEF CallsInv
<1>5. conn \in Clients \cup {None} /\ (staged # NoTables <=> conn \in Writers)
      /\ (staged # NoTables => staged \in Writes(stored) \cup {stored})
  BY DEF CallsInv
<1> HIDE DEF CallsInv
<1> QED
  BY <1>2, <1>3, <1>4, <1>5, OneCall

\* What a query leaves of a call.
LEMMA QueriedForm ==
  ASSUME NEW call,
         call = [op |-> call.op, left |-> call.left, seen |-> call.seen, answer |-> call.answer]
  PROVE  LET seen == Saw(call.seen, Head(call.left))
             left == Rest(call.left, seen)
         IN  /\ left = <<>> => Queried(call) = [op |-> call.op, left |-> <<>>, seen |-> Unseen,
                                               answer |-> Answer(call.op, seen)]
             /\ left # <<>> => /\ left = Tail(call.left)
                              /\ Queried(call) = [op |-> call.op, left |-> Tail(call.left), seen |-> seen,
                                                  answer |-> call.answer]
<1> DEFINE seen == Saw(call.seen, Head(call.left))
           left == Rest(call.left, seen)
<1>1. CASE left = <<>>
  <2>1. PICK e : e = [call EXCEPT !.left = left, !.seen = Unseen, !.answer = Answer(call.op, seen)]
    OBVIOUS
  <2>2. Queried(call) = e
    BY <1>1, <2>1 DEF Queried
  <2>3. PICK a : a = Answer(call.op, seen)
    OBVIOUS
  <2>4. e = [op |-> call.op, left |-> <<>>, seen |-> Unseen, answer |-> a]
    <3> HIDE DEF seen, left
    <3> QED
      BY <1>1, <2>1, <2>3
  <2> QED
    BY <1>1, <2>2, <2>3, <2>4
<1>2. CASE left # <<>>
  <2>1. left = Tail(call.left)
    BY <1>2 DEF Rest
  <2>2. PICK e : e = [call EXCEPT !.left = left, !.seen = seen]
    OBVIOUS
  <2>3. Queried(call) = e
    BY <1>2, <2>2 DEF Queried
  <2>4. PICK s, l : s = seen /\ l = left
    OBVIOUS
  <2>5. e = [op |-> call.op, left |-> l, seen |-> s, answer |-> call.answer]
    <3> HIDE DEF seen, left
    <3> QED
      BY <2>2, <2>4
  <2> QED
    BY <1>2, <2>1, <2>3, <2>4, <2>5
<1> QED
  BY <1>1, <1>2

\* A query keeps the connection exactly when its rows are read through a cursor.
LEMMA QueriedCall ==
  ASSUME NEW c \in Clients, NEW call, IsCall(c, call), call.left # <<>>, Head(call.left) \in Queries
  PROVE  /\ IsCall(c, Queried(call))
         /\ Holding(Queried(call)) <=> Head(call.left) \in Cursors
<1> DEFINE seen == Saw(call.seen, Head(call.left))
           left == Rest(call.left, seen)
<1> PICK next : next = Queried(call)
  OBVIOUS
<1>1. call = [op |-> call.op, left |-> call.left, seen |-> call.seen, answer |-> call.answer]
      /\ call.op \in OpsOf(c)
  BY DEF IsCall
<1>2. PICK on : on = [op |-> call.op, left |-> Tail(call.left), seen |-> seen, answer |-> call.answer]
  OBVIOUS
<1>3. IsCall(c, on) /\ (Holding(on) <=> Head(call.left) \in Cursors)
  BY <1>2, StepOn, Sets
<1>4. CASE left = <<>>
  <2>1. next = [op |-> call.op, left |-> <<>>, seen |-> Unseen, answer |-> Answer(call.op, seen)]
    BY <1>1, <1>4, QueriedForm
  <2>2. IsCall(c, next) /\ ~Holding(next)
    <3> HIDE DEF seen, left
    <3> QED
      BY <1>1, <2>1, AtItsEnd
  <2>3. Head(call.left) \notin Cursors
    <3>1. CASE Tail(call.left) = <<>> \/ Tail(call.left) = <<"snapshot">>
      <4>1. ~Holding(on)
        <5>1. on.left = <<>> \/ on.left = <<"snapshot">>
          BY <1>2, <3>1
        <5>2. Head(<<"snapshot">>) = "snapshot" /\ "snapshot" \notin Gives
          BY DEF Gives
        <5>3. on.left = <<"snapshot">> => Head(on.left) \notin Gives
          BY <5>2
        <5> QED
          BY <5>1, <5>3 DEF Holding
      <4> QED
        BY <1>3, <4>1
    <3>2. CASE Head(call.left) \in {"find", "snapshot"}
      BY <3>2 DEF Cursors
    <3> QED
      BY <1>4, <3>1, <3>2 DEF Rest
  <2> QED
    BY <2>2, <2>3
<1>5. CASE left # <<>>
  <2>1. next = [op |-> call.op, left |-> Tail(call.left), seen |-> seen, answer |-> call.answer]
    BY <1>1, <1>5, QueriedForm
  <2> HIDE DEF seen, left
  <2>2. next = on
    BY <1>2, <2>1
  <2> QED
    BY <1>3, <2>2
<1> QED
  BY <1>4, <1>5

\* A query takes the free connection, and keeps it exactly if it leaves a cursor open.
LEMMA QueryKeepsCalls ==
  ASSUME CallsInv, NEW c \in Clients, Query(c)
  PROVE  CallsInv'
<1>1. /\ Doing(c, Queries) /\ conn = None
      /\ conn' = IF Head(calls[c].left) \in Cursors THEN c ELSE None
      /\ calls' = [calls EXCEPT ![c] = Queried(calls[c])]
      /\ UNCHANGED <<stored, staged, phase, faults>>
  BY DEF Query
<1>2. /\ IsCall(c, calls[c]) /\ calls[c].left # <<>> /\ Head(calls[c].left) \in Queries
      /\ c \notin Readers => Head(calls[c].left) \in {"begin", "end"}
  BY <1>1, DoingCall
<1>3. IsCall(c, Queried(calls[c])) /\ (Holding(Queried(calls[c])) <=> Head(calls[c].left) \in Cursors)
  BY <1>2, QueriedCall
<1>4. c \notin Writers
  BY <1>2, Sets DEF Queries
<1>5. staged = NoTables /\ conn' \notin Writers
  BY <1>1, <1>4, Sets DEF CallsInv, Clients
<1> HIDE DEF CallsInv
<1>6. \A d \in Clients \ {c} : conn' = d <=> conn = d
  BY <1>1, Sets
<1>7. conn' = c <=> Holding(Queried(calls[c]))
  BY <1>1, <1>3, Sets
<1>8. conn' \in Clients \cup {None}
  BY <1>1
<1> QED
  BY <1>1, <1>3, <1>5, <1>6, <1>7, <1>8, OneCall

\* Closing a cursor gives the connection back.
LEMMA CloseKeepsCalls ==
  ASSUME CallsInv, NEW c \in Clients, Close(c)
  PROVE  CallsInv'
<1>1. /\ Doing(c, {"close"}) /\ conn' = None
      /\ calls' = [calls EXCEPT ![c] = [calls[c] EXCEPT !.left = Tail(calls[c].left)]]
      /\ UNCHANGED <<stored, staged, phase, faults>>
  BY DEF Close
<1> PICK call : call = calls[c]
  OBVIOUS
<1>2. /\ IsCall(c, call) /\ call.left # <<>> /\ Head(call.left) = "close"
      /\ call = [op |-> call.op, left |-> call.left, seen |-> call.seen, answer |-> call.answer]
      /\ c \notin Readers => Head(call.left) \in {"begin", "end"}
      /\ conn = c
  BY <1>1, DoingCall DEF Gives
<1>3. PICK next : next = [call EXCEPT !.left = Tail(call.left)]
  OBVIOUS
<1>4. next = [op |-> call.op, left |-> Tail(call.left), seen |-> call.seen, answer |-> call.answer]
  BY <1>2, <1>3
<1>5. IsCall(c, next) /\ ~Holding(next)
  BY <1>2, <1>4, StepOn, Sets DEF Gives
<1>6. staged = NoTables
  BY <1>2, Sets DEF CallsInv
<1>7. \A d \in Clients \ {c} : conn' = d <=> conn = d
  BY <1>1, <1>2, Sets
<1>8. conn' # c /\ conn' \in Clients \cup {None} /\ conn' \notin Writers
  BY <1>1, Sets DEF Clients
<1>9. calls' = [calls EXCEPT ![c] = next]
  BY <1>1, <1>3
<1> HIDE DEF CallsInv
<1> QED
  BY <1>1, <1>5, <1>6, <1>7, <1>8, <1>9, OneCall

\* A transaction takes the free connection and stages what it would leave.
LEMMA BeginKeepsCalls ==
  ASSUME TablesInv, CallsInv, NEW c \in Clients, Begin(c)
  PROVE  CallsInv'
<1>1. /\ Doing(c, {"begin"}) /\ conn = None /\ conn' = c
      /\ staged' \in Writes(stored) \cup {stored}
      /\ calls' = [calls EXCEPT ![c] = [calls[c] EXCEPT !.left = Tail(calls[c].left)]]
      /\ UNCHANGED <<stored, phase, faults>>
  BY DEF Begin
<1> PICK call : call = calls[c]
  OBVIOUS
<1>2. /\ IsCall(c, call) /\ call.left # <<>> /\ Head(call.left) = "begin"
      /\ call = [op |-> call.op, left |-> call.left, seen |-> call.seen, answer |-> call.answer]
      /\ c \in Readers => Head(call.left) \in Queries \cup {"close"}
  BY <1>1, DoingCall
<1>3. PICK next : next = [call EXCEPT !.left = Tail(call.left)]
  OBVIOUS
<1>4. next = [op |-> call.op, left |-> Tail(call.left), seen |-> call.seen, answer |-> call.answer]
  BY <1>2, <1>3
<1>5. IsCall(c, next) /\ Holding(next)
  BY <1>2, <1>4, StepOn, Sets
<1>6. c \in Writers
  BY <1>2, Sets DEF Queries
<1>7. staged' # NoTables
  <2>1. staged'.version # 0
    BY <1>1, WrittenTables DEF TablesInv, IsTables
  <2> QED
    BY <2>1 DEF NoTables
<1>8. \A d \in Clients \ {c} : conn' = d <=> conn = d
  BY <1>1, Sets
<1>9. calls' = [calls EXCEPT ![c] = next]
  BY <1>1, <1>3
<1>10. conn' \in Clients \cup {None} /\ (staged' # NoTables <=> conn' \in Writers)
       /\ staged' \in Writes(stored') \cup {stored'}
  BY <1>1, <1>6, <1>7
<1> HIDE DEF CallsInv
<1> QED
  BY <1>1, <1>5, <1>8, <1>9, <1>10, OneCall

\* A call that comes to its end, or to nothing, and with it what it has open.
LEMMA EndKeepsCalls ==
  ASSUME CallsInv, NEW c \in Clients, NEW call, calls' = [calls EXCEPT ![c] = call],
         call = NoCall \/ IsCall(c, call), ~Holding(call),
         conn' = IF conn = c THEN None ELSE conn,
         staged' = IF conn = c THEN NoTables ELSE staged,
         conn # c => UNCHANGED stored,
         UNCHANGED <<phase, faults>>
  PROVE  CallsInv'
<1>1. conn' # c /\ conn' \in Clients \cup {None}
  BY Sets DEF CallsInv
<1>2. \A d \in Clients \ {c} : conn' = d <=> conn = d
  BY Sets
<1>3. staged' # NoTables <=> conn' \in Writers
  BY Sets DEF CallsInv, Clients
<1>4. staged' # NoTables => staged' \in Writes(stored') \cup {stored'}
  BY DEF CallsInv
<1> HIDE DEF CallsInv
<1> QED
  BY <1>1, <1>2, <1>3, <1>4, OneCall

\* A transaction that ends gives the connection back; it staged what a write may leave.
LEMMA EndedKeepsCalls ==
  ASSUME CallsInv, NEW c \in Clients, Doing(c, {"end"}), Ended(c), UNCHANGED <<phase, faults>>
  PROVE  CallsInv' /\ staged \in Writes(stored) \cup {stored}
<1>1. /\ conn' = None /\ staged' = NoTables
      /\ calls' = [calls EXCEPT ![c] = [calls[c] EXCEPT !.left = <<>>]]
  BY DEF Ended
<1> PICK call : call = calls[c]
  OBVIOUS
<1>2. /\ IsCall(c, call) /\ Head(call.left) = "end"
      /\ call = [op |-> call.op, left |-> call.left, seen |-> call.seen, answer |-> call.answer]
      /\ c \in Readers => Head(call.left) \in Queries \cup {"close"}
      /\ conn = c
  BY DoingCall DEF Gives
<1>3. PICK next : next = [call EXCEPT !.left = <<>>]
  OBVIOUS
<1>4. next = [op |-> call.op, left |-> <<>>, seen |-> call.seen, answer |-> call.answer]
  BY <1>2, <1>3
<1>5. IsCall(c, next) /\ ~Holding(next)
  <2>1. call.op \in OpsOf(c)
    BY <1>2 DEF IsCall
  <2> QED
    BY <1>4, <2>1, AtItsEnd
<1>6. c \in Writers
  BY <1>2, Sets DEF Queries
<1>7. staged \in Writes(stored) \cup {stored}
  BY <1>2, <1>6 DEF CallsInv
<1>8. calls' = [calls EXCEPT ![c] = next]
  BY <1>1, <1>3
<1> HIDE DEF CallsInv
<1> QED
  BY <1>1, <1>2, <1>5, <1>7, <1>8, EndKeepsCalls

\* A call that returns has nothing left, so it held nothing.
LEMMA ReturnKeepsCalls ==
  ASSUME CallsInv, NEW c \in Clients, Return(c)
  PROVE  CallsInv'
<1>1. /\ calls' = [calls EXCEPT ![c] = NoCall] /\ calls[c].left = <<>>
      /\ UNCHANGED <<stored, conn, staged, phase, faults>>
  BY DEF Return, Answered
<1>2. conn # c
  BY <1>1 DEF CallsInv, Holding
<1> HIDE DEF CallsInv
<1> QED
  BY <1>1, <1>2, Sets, EndKeepsCalls

\* A call that is given up gives back what it held.
LEMMA GiveUpKeepsCalls ==
  ASSUME CallsInv, NEW c \in Clients, GiveUp(c)
  PROVE  CallsInv'
<1>1. /\ calls' = [calls EXCEPT ![c] = NoCall]
      /\ conn' = IF conn = c THEN None ELSE conn
      /\ staged' = IF conn = c THEN NoTables ELSE staged
      /\ UNCHANGED <<stored, phase, faults>>
  BY DEF GiveUp, Released
<1> HIDE DEF CallsInv
<1> QED
  BY <1>1, Sets, EndKeepsCalls

\* A stop, its end and a start leak nothing.
LEMMA ServerKeepsCalls ==
  ASSUME CallsInv, Signal \/ Finish \/ Die \/ Restart
  PROVE  CallsInv'
<1>1. faults \in 0..MaxFaults /\ DOMAIN calls = Clients
  BY DEF CallsInv
<1>2. CASE Signal \/ Finish \/ Restart
  <2>1. UNCHANGED <<stored, conn, staged, calls, faults>> /\ phase' \in {"serving", "draining", "down"}
    BY <1>2 DEF Signal, Finish, Restart
  <2> HIDE DEF CallsInv
  <2> QED
    BY <1>1, <2>1, CallsKept
<1>3. CASE Die
  <2>1. /\ phase' = "down" /\ conn' = None /\ staged' = NoTables
        /\ calls' = [c \in Clients |-> NoCall]
        /\ UNCHANGED <<stored, faults>>
    BY <1>3 DEF Die
  <2> QED
    BY <1>1, <2>1, Sets DEF CallsInv, Clients
<1> QED
  BY <1>2, <1>3

\* Damage does not concern the calls.
LEMMA FaultKeepsCalls ==
  ASSUME CallsInv, Fault
  PROVE  CallsInv'
<1>1. /\ faults < MaxFaults /\ faults' = faults + 1
      /\ staged = NoTables
      /\ UNCHANGED <<conn, staged, calls, phase>>
  BY DEF Fault
<1>2. faults' \in 0..MaxFaults /\ phase' \in {"serving", "draining", "down"}
  BY <1>1, ReadersAssumption DEF CallsInv
<1> HIDE DEF CallsInv
<1> QED
  BY <1>1, <1>2, CallsKept

-----------------------------------------------------------------------------
(* The invariant of the tables and the calls.                              *)

Safe == TablesInv /\ CallsInv

\* The new case.
LEMMA FirstTables ==
  ASSUME Init
  PROVE  TablesInv
<1> DEFINE e == FirstEvent
<1>1. e = [sequence |-> 1, kind |-> "CASE_CREATED", version |-> 1, payload |-> "written",
           previous |-> NoDigest, digest |-> EventDigest(NoDigest, 1, "CASE_CREATED", "written")]
  BY DEF FirstEvent, NewEvent
<1>2. IsEvent(e)
  <2>1. "CASE_CREATED" \in Kinds
    BY DEF Kinds
  <2> HIDE DEF e
  <2> QED
    BY <1>1, <2>1, EventOfColumns
<1> HIDE DEF e
<1>3. AsIssued(e) /\ e.kind # "CASE_RELEASED" /\ e.digest = e.digest
  BY <1>1, <1>2 DEF AsIssued
<1> PICK log : log = <<e>>
  OBVIOUS
<1>4. log \in Seq({e}) /\ Len(log) = 1 /\ log[1] = e
  OBVIOUS
<1>5. IsSeq(log) /\ Range(log) \subseteq {e} /\ DOMAIN log = 1..1
  BY <1>4, OverItsElements
<1>6. KeepsItsKeys(log)
  BY <1>2, <1>4, <1>5, ReadersAssumption DEF KeepsItsKeys, IsLog, InOrder, UniqueDigests
<1>7. /\ stored = [version |-> 1, released |-> FALSE, certificate |-> NoCertificate, events |-> log]
      /\ written = {e}
  BY DEF Init, e
<1>8. IsTables(stored) /\ stored.released = FALSE /\ stored.events = log
  BY <1>6, <1>7 DEF IsTables, CertificateIfReleased
<1>9. \A f \in Range(log) : Traced(f)
  BY <1>5, <1>7 DEF Traced
<1> QED
  BY <1>3, <1>7, <1>8, <1>9 DEF TablesInv, ReleaseWritten

\* Nobody calls at first.
LEMMA FirstCalls ==
  ASSUME Init
  PROVE  CallsInv
<1>1. /\ conn = None /\ staged = NoTables /\ calls = [c \in Clients |-> NoCall]
      /\ phase = "serving" /\ faults = 0
  BY DEF Init
<1> QED
  BY <1>1, Sets, ReadersAssumption DEF CallsInv, Clients

\* The tables only change with a commit or a damage.
LEMMA TablesKept ==
  ASSUME TablesInv, UNCHANGED <<stored, written, sealed>>
  PROVE  TablesInv'
BY DEF TablesInv, ReleaseWritten, Traced

\* Whatever a write staged, its commit keeps what is known of the tables.
LEMMA CommitKeepsTables ==
  ASSUME TablesInv, Committed, staged \in Writes(stored) \cup {stored}
  PROVE  TablesInv'
<1>1. CASE staged = stored
  <2>1. UNCHANGED <<stored, written, sealed>>
    BY <1>1 DEF Committed
  <2> QED
    BY <2>1, TablesKept
<1>2. CASE staged \in Writes(stored)
  <2>1. IsTables(stored)
    BY DEF TablesInv
  <2>2. /\ IsTables(staged) /\ Grown(stored.events, staged.events)
        /\ Ordinary(stored, staged) \/ Releasing(stored, staged)
    BY <1>2, <2>1, WrittenTables
  <2> QED
    BY <2>2, OrdinaryCommit, ReleasingCommit
<1> QED
  BY <1>1, <1>2

\* No step breaks the invariant.
LEMMA StepIsSafe ==
  ASSUME Safe, [Next]_vars
  PROVE  Safe'
<1> USE DEF Safe
<1>1. ASSUME NEW c \in Readers, NEW op \in Reads, Call(c, op) PROVE Safe'
  <2>1. c \in Clients /\ op \in OpsOf(c)
    BY DEF Clients, OpsOf
  <2>2. UNCHANGED <<stored, written, sealed>>
    BY <1>1 DEF Call
  <2> QED
    BY <1>1, <2>1, <2>2, CallKeepsCalls, TablesKept
<1>2. ASSUME NEW c \in Writers, Call(c, "Write") PROVE Safe'
  <2>1. c \in Clients /\ "Write" \in OpsOf(c)
    BY ReadersAssumption DEF Clients, OpsOf
  <2>2. UNCHANGED <<stored, written, sealed>>
    BY <1>2 DEF Call
  <2> QED
    BY <1>2, <2>1, <2>2, CallKeepsCalls, TablesKept
<1>3. ASSUME NEW c \in Clients, Query(c) PROVE Safe'
  <2>1. UNCHANGED <<stored, written, sealed>>
    BY <1>3 DEF Query
  <2> QED
    BY <1>3, <2>1, QueryKeepsCalls, TablesKept
<1>4. ASSUME NEW c \in Clients, Close(c) PROVE Safe'
  <2>1. UNCHANGED <<stored, written, sealed>>
    BY <1>4 DEF Close
  <2> QED
    BY <1>4, <2>1, CloseKeepsCalls, TablesKept
<1>5. ASSUME NEW c \in Clients, Begin(c) PROVE Safe'
  <2>1. UNCHANGED <<stored, written, sealed>>
    BY <1>5 DEF Begin
  <2> QED
    BY <1>5, <2>1, BeginKeepsCalls, TablesKept
<1>6. ASSUME NEW c \in Clients, Commit(c) PROVE Safe'
  <2>1. Committed /\ Doing(c, {"end"}) /\ Ended(c) /\ UNCHANGED <<phase, faults>>
    BY <1>6 DEF Commit, Committed
  <2>2. CallsInv' /\ staged \in Writes(stored) \cup {stored}
    BY <2>1, EndedKeepsCalls
  <2> QED
    BY <2>1, <2>2, CommitKeepsTables
<1>7. ASSUME NEW c \in Clients, Rollback(c) PROVE Safe'
  <2>1. Doing(c, {"end"}) /\ Ended(c) /\ UNCHANGED <<stored, phase, written, sealed, faults>>
    BY <1>7 DEF Rollback
  <2> QED
    BY <2>1, EndedKeepsCalls, TablesKept
<1>8. ASSUME NEW c \in Clients, Return(c) \/ GiveUp(c) PROVE Safe'
  <2>1. UNCHANGED <<stored, written, sealed>>
    BY <1>8 DEF Return, GiveUp
  <2> QED
    BY <1>8, <2>1, ReturnKeepsCalls, GiveUpKeepsCalls, TablesKept
<1>9. CASE Signal \/ Finish \/ Die \/ Restart
  <2>1. UNCHANGED <<stored, written, sealed>>
    BY <1>9 DEF Signal, Finish, Die, Restart
  <2> QED
    BY <1>9, <2>1, ServerKeepsCalls, TablesKept
<1>10. CASE Fault
  BY <1>10, FaultKeepsTables, FaultKeepsCalls
<1>11. CASE UNCHANGED vars
  BY <1>11, TablesKept, CallsKept DEF vars, CallsInv
<1> QED
  BY <1>1, <1>2, <1>3, <1>4, <1>5, <1>6, <1>7, <1>8, <1>9, <1>10, <1>11 DEF Next

\* The tables keep their keys, what was written stays traceable, and the
\* connection belongs to the one call that is to give it back, at every point of
\* every run, damage included.
THEOREM AlwaysSafe == Spec => []Safe
<1>1. Init => Safe
  BY FirstTables, FirstCalls DEF Safe
<1> QED
  BY <1>1, StepIsSafe, PTL DEF Spec

\* The type invariant, leaks included, follows.
LEMMA SafeTypes == Safe => TypeOK
<1> SUFFICES ASSUME Safe PROVE TypeOK
  OBVIOUS
<1>1. KeepsItsKeys(stored.events) /\ \A w \in written : IsEvent(w)
  BY DEF Safe, TablesInv, IsTables, AsIssued
<1>2. \A e \in Range(stored.events) \cup written : Columns(e) \in Events
  BY <1>1 DEF KeepsItsKeys, IsLog, IsEvent
<1>3. ASSUME NEW e \in Range(stored.events), NEW f \in Range(stored.events),
             e.sequence = f.sequence \/ e.digest = f.digest
      PROVE  e = f
  <2> DEFINE log == stored.events
  <2>1. IsSeq(log) /\ (\A x \in Range(log) : x.sequence \in Nat)
    BY <1>1, EventTypes DEF KeepsItsKeys, IsLog
  <2>2. DOMAIN log = 1..Len(log) /\ Len(log) \in Nat
    BY <2>1, Elements
  <2>3. PICK i \in 1..Len(log) : e = log[i]
    BY <1>3, <2>1, Elements
  <2>4. PICK j \in 1..Len(log) : f = log[j]
    BY <1>3, <2>1, Elements
  <2>5. InOrder(log) /\ UniqueDigests(log)
    BY <1>1 DEF KeepsItsKeys
  <2>6. log[i].digest = log[j].digest => i = j
    BY <2>2, <2>5 DEF UniqueDigests
  <2>7. log[i].sequence = log[j].sequence => i = j
    <3>1. /\ i < j => log[i].sequence < log[j].sequence
          /\ j < i => log[j].sequence < log[i].sequence
      BY <2>2, <2>5 DEF InOrder
    <3>2. log[i].sequence \in Nat /\ log[j].sequence \in Nat
      BY <1>3, <2>1, <2>3, <2>4
    <3> HIDE DEF log
    <3> QED
      BY <2>2, <3>1, <3>2
  <2> QED
    BY <1>3, <2>3, <2>4, <2>6, <2>7
<1>4. conn # None => calls[conn] # NoCall /\ calls[conn].left # <<>>
  BY Sets DEF Safe, CallsInv, Holding
<1>5. (staged # NoTables <=> conn \in Writers) /\ phase \in {"serving", "draining", "down"}
      /\ faults \in 0..MaxFaults
  BY DEF Safe, CallsInv
<1> QED
  BY <1>2, <1>3, <1>4, <1>5 DEF TypeOK

\* The tables keep their shape and their keys, and neither the connection nor a
\* transaction is leaked by a call that ended, was given up or was cut off.
THEOREM NothingLeaks == Spec => []TypeOK
BY AlwaysSafe, SafeTypes, PTL

\* The log of a safe state is one that the lemmas about the loops are about.
LEMMA SafeLog ==
  ASSUME Safe
  PROVE  IsLog(Log) /\ IsSeq(Log) /\ \A i \in DOMAIN Log : Log[i].sequence \in Nat
<1>1. IsLog(Log) /\ IsSeq(Log)
  BY DEF Safe, TablesInv, IsTables, KeepsItsKeys, IsLog, Log
<1> QED
  BY <1>1, Elements, EventTypes DEF IsLog

\* Whatever becomes of the log, the four loops over it find the same.
THEOREM AllVerifiersAgree == Spec => []VerifiersAgree
<1>1. Safe => VerifiersAgree
  BY SafeLog, VerifiersAgreeOnLogs
<1> QED
  BY <1>1, AlwaysSafe, PTL

\* Whatever becomes of the log, a report that starts at a breakpoint finds no
\* other damage than the whole one.
THEOREM AllBreakpointsAgree == Spec => []BreakpointsAgree
<1>1. Safe => BreakpointsAgree
  BY SafeLog, BreakpointsAgreeOnLogs
<1> QED
  BY <1>1, AlwaysSafe, PTL

-----------------------------------------------------------------------------
(* While nothing is damaged.                                               *)

\* A log of events as they were written, each following the one before it.
Clean(log) == IsSeq(log) /\ Range(log) \subseteq written /\ Chained(log)

StoredClean ==
  /\ Clean(stored.events)
  /\ stored.released =>
       /\ Anchored(stored.events, stored.certificate)
       /\ stored.certificate.snapshot = [version |-> stored.certificate.version, text |-> "frozen"]

\* What a call has seen so far.
IsSeen(seen) ==
  /\ seen = [released |-> seen.released, certificate |-> seen.certificate,
             frozen |-> seen.frozen, events |-> seen.events]
  /\ {seen.certificate, seen.frozen} \subseteq {NoCertificate, stored.certificate}

\* Before the last query of a view, which asks for the snapshot.
SeenWithLog(call) ==
  call.left = <<"snapshot">> =>
    /\ call.seen.certificate # NoCertificate
    /\ Clean(call.seen.events)
    /\ Anchored(call.seen.events, call.seen.certificate)

SeenInTime(call) ==
  /\ call.op = "VerifyCertificate" /\ Len(call.left) <= 1 => call.seen.frozen # NoCertificate
  /\ call.op = "LookupCertificate" /\ Len(call.left) <= 6 => call.seen.frozen # NoCertificate
  /\ call.op = "LookupCertificate" /\ Len(call.left) <= 5 => call.seen.released = TRUE

Seen(call) ==
  /\ call.answer # "damaged"
  /\ call.left # <<>> => IsSeen(call.seen) /\ SeenWithLog(call) /\ SeenInTime(call)

CleanInv == faults = 0 => StoredClean /\ \A c \in Readers : Seen(calls[c])

\* No loop objects to a log without damage.
LEMMA CleanIsValid ==
  ASSUME TablesInv, NEW log, Clean(log)
  PROVE  TimelineValid(log) /\ FirstDamagedIndex(log, 0) = 0 /\ FirstDamagedSequence(log) = 0
<1>1. IsSeq(log) /\ \A e \in Range(log) : AsIssued(e)
  BY DEF Clean, TablesInv
<1>2. \A i \in DOMAIN log : log[i].sequence \in Nat
  BY <1>1, Elements, EventTypes DEF AsIssued
<1> QED
  BY <1>1, <1>2, ValidIsChained DEF Clean

\* There is one release in a clean log, the one that was written.
LEMMA CleanReleases ==
  ASSUME TablesInv, NEW log, Clean(log), NEW i \in Releases(log)
  PROVE  stored.released /\ log[i].previous = stored.certificate.head
<1>1. log[i] \in written /\ log[i].kind = "CASE_RELEASED"
  BY DEF Clean, Range, Releases
<1> QED
  BY <1>1 DEF TablesInv, ReleaseWritten

\* The first of the release events.
LEMMA FirstRelease ==
  ASSUME NEW log, IsSeq(log), Releases(log) # {}
  PROVE  Min(Releases(log)) \in Releases(log)
<1>1. Releases(log) \subseteq Nat
  BY Elements DEF Releases
<1>2. \E n \in Releases(log) : \A m \in Releases(log) : n <= m
  BY <1>1, LeastNumber
<1> QED
  BY <1>2 DEF Min

\* The verdicts on a certificate whose digest is that of its snapshot.
LEMMA CleanSnapshot ==
  ASSUME TablesInv, StoredClean, stored.certificate # NoCertificate
  PROVE  /\ stored.released = TRUE
         /\ SnapshotValid(stored.certificate)
         /\ Anchored(stored.events, stored.certificate)
         /\ stored.certificate.snapshot.version = stored.certificate.version
<1>1. stored.released \in BOOLEAN /\ CertificateIfReleased(stored)
  BY DEF TablesInv, IsTables
<1>2. stored.released = TRUE /\ IsCertificate(stored.certificate)
  BY <1>1 DEF CertificateIfReleased
<1>3. stored.certificate.snapshot = [version |-> stored.certificate.version, text |-> "frozen"]
      /\ Anchored(stored.events, stored.certificate)
  BY <1>2 DEF StoredClean
<1> QED
  BY <1>2, <1>3 DEF IsCertificate, SnapshotValid

\* The five checks of a lookup.
LEMMA FiveChecks ==
  ASSUME NEW a \in BOOLEAN, NEW b \in BOOLEAN, NEW c \in BOOLEAN, NEW d \in BOOLEAN, NEW e \in BOOLEAN
  PROVE  LookupValid([snapshot |-> a, chain |-> b, anchor |-> c, version |-> d, status |-> e])
           <=> a /\ b /\ c /\ d /\ e
BY DEF LookupValid

\* The lookup finds everything valid if all of the five checks pass.
LEMMA TheChecks ==
  ASSUME NEW events, NEW cert, NEW released \in BOOLEAN
  PROVE  LookupValid(Checks(events, cert, released)) <=>
           /\ SnapshotValid(cert) /\ FirstDamagedSequence(events) = 0 /\ Anchored(events, cert)
           /\ cert.snapshot.version = cert.version /\ released
<1> DEFINE a == SnapshotValid(cert)
           b == FirstDamagedSequence(events) = 0
           c == Anchored(events, cert)
           d == cert.snapshot.version = cert.version
<1>1. a \in BOOLEAN /\ b \in BOOLEAN /\ c \in BOOLEAN /\ d \in BOOLEAN
  BY DEF SnapshotValid, Anchored
<1>2. Checks(events, cert, released) =
        [snapshot |-> a, chain |-> b, anchor |-> c, version |-> d, status |-> released]
  BY DEF Checks
<1> HIDE DEF a, b, c, d
<1>3. LookupValid([snapshot |-> a, chain |-> b, anchor |-> c, version |-> d, status |-> released])
        <=> a /\ b /\ c /\ d /\ released
  BY <1>1, FiveChecks
<1>4. LookupValid(Checks(events, cert, released)) <=> a /\ b /\ c /\ d /\ released
  BY <1>2, <1>3, Zenon
<1> QED
  BY <1>4 DEF a, b, c, d

\* Without damage every way to judge a certificate finds it valid.
LEMMA CleanCertificate ==
  ASSUME TablesInv, StoredClean, stored.certificate # NoCertificate
  PROVE  /\ CertificateValid(stored.events, stored.certificate)
         /\ LookupValid(Checks(stored.events, stored.certificate, TRUE))
<1> DEFINE log == stored.events
           cert == stored.certificate
<1>1. Clean(log) /\ IsSeq(log)
  BY DEF StoredClean, Clean
<1>2. TimelineValid(log) /\ FirstDamagedSequence(log) = 0
  BY <1>1, CleanIsValid
<1>3. SnapshotValid(cert) /\ Anchored(log, cert) /\ cert.snapshot.version = cert.version
  BY CleanSnapshot
<1>4. Releases(log) # {}
  BY <1>3 DEF Anchored
<1>5. log[Min(Releases(log))].previous = cert.head
  BY <1>1, <1>4, FirstRelease, CleanReleases
<1>6. CertificateValid(log, cert)
  BY <1>2, <1>3, <1>4, <1>5 DEF CertificateValid
<1>7. LookupValid(Checks(log, cert, TRUE))
  BY <1>2, <1>3, TheChecks
<1> QED
  BY <1>6, <1>7

\* No answer on a certificate that is there and on a clean log is "damaged".
LEMMA CleanAnswer ==
  ASSUME TablesInv, StoredClean, NEW op, NEW seen, IsSeen(seen), Clean(seen.events),
         seen.frozen # NoCertificate => Anchored(seen.events, seen.frozen),
         op \in {"VerifyCertificate", "LookupCertificate"} /\ seen.frozen # NoCertificate =>
           seen.events = stored.events,
         op = "LookupCertificate" /\ seen.frozen # NoCertificate => seen.released = TRUE
  PROVE  Answer(op, seen) # "damaged"
<1>1. seen.frozen # NoCertificate => seen.frozen = stored.certificate /\ stored.certificate # NoCertificate
  BY DEF IsSeen
<1>2. TimelineValid(seen.events) /\ FirstDamagedIndex(seen.events, 0) = 0
  BY CleanIsValid
<1>3. seen.frozen # NoCertificate => SnapshotValid(seen.frozen)
  BY <1>1, CleanSnapshot
<1>4. ASSUME op \in {"VerifyCertificate", "LookupCertificate"} => seen.frozen # NoCertificate
      PROVE  Valid(op, seen)
  <2>1. CASE op = "GetCase"
    BY <1>2, <1>3, <2>1 DEF Valid
  <2>2. CASE op = "VerifyIntegrity"
    BY <1>2, <1>3, <2>2 DEF Valid, IntegrityValid
  <2>3. CASE op = "VerifyCertificate"
    BY <1>1, <1>4, <2>3, CleanCertificate DEF Valid
  <2>4. CASE op = "LookupCertificate"
    BY <1>1, <1>4, <2>4, CleanCertificate DEF Valid
  <2>5. CASE op \notin {"GetCase", "VerifyIntegrity", "VerifyCertificate", "LookupCertificate"}
    BY <2>5 DEF Valid
  <2> QED
    BY <2>1, <2>2, <2>3, <2>4, <2>5
<1> QED
  BY <1>4 DEF Answer

\* What a query adds.
LEMMA SawFacts ==
  ASSUME NEW seen, IsSeen(seen), NEW q
  PROVE  LET now == Saw(seen, q)
         IN  /\ IsSeen(now)
             /\ now.released = IF q = "row" THEN stored.released ELSE seen.released
             /\ now.certificate = IF q = "certificate" THEN stored.certificate ELSE seen.certificate
             /\ now.frozen = IF q = "snapshot" THEN stored.certificate ELSE seen.frozen
             /\ now.events = IF q = "events" THEN stored.events ELSE seen.events
<1> DEFINE Row(r, c, f, e) == [released |-> r, certificate |-> c, frozen |-> f, events |-> e]
<1>1. seen = Row(seen.released, seen.certificate, seen.frozen, seen.events)
      /\ {seen.certificate, seen.frozen} \subseteq {NoCertificate, stored.certificate}
  BY DEF IsSeen
<1> PICK now : now = Saw(seen, q)
  OBVIOUS
<1>2. now = Row(IF q = "row" THEN stored.released ELSE seen.released,
                IF q = "certificate" THEN stored.certificate ELSE seen.certificate,
                IF q = "snapshot" THEN stored.certificate ELSE seen.frozen,
                IF q = "events" THEN stored.events ELSE seen.events)
  <2>1. CASE q = "row"
    <3>1. now = [seen EXCEPT !.released = stored.released]
      BY <2>1 DEF Saw
    <3> QED
      BY <1>1, <2>1, <3>1
  <2>2. CASE q = "certificate"
    <3>1. now = [seen EXCEPT !.certificate = stored.certificate]
      BY <2>2 DEF Saw
    <3> QED
      BY <1>1, <2>2, <3>1
  <2>3. CASE q = "snapshot"
    <3>1. now = [seen EXCEPT !.frozen = stored.certificate]
      BY <2>3 DEF Saw
    <3> QED
      BY <1>1, <2>3, <3>1
  <2>4. CASE q = "events"
    <3>1. now = [seen EXCEPT !.events = stored.events]
      BY <2>4 DEF Saw
    <3> QED
      BY <1>1, <2>4, <3>1
  <2>5. CASE q \notin {"row", "certificate", "snapshot", "events"}
    <3>1. now = seen
      BY <2>5 DEF Saw
    <3> QED
      BY <1>1, <2>5, <3>1
  <2> QED
    BY <2>1, <2>2, <2>3, <2>4, <2>5
<1>3. /\ now.released = IF q = "row" THEN stored.released ELSE seen.released
      /\ now.certificate = IF q = "certificate" THEN stored.certificate ELSE seen.certificate
      /\ now.frozen = IF q = "snapshot" THEN stored.certificate ELSE seen.frozen
      /\ now.events = IF q = "events" THEN stored.events ELSE seen.events
      /\ now = Row(now.released, now.certificate, now.frozen, now.events)
  BY <1>2
<1>4. IsSeen(now)
  BY <1>1, <1>3 DEF IsSeen
<1> QED
  BY <1>3, <1>4

\* At which steps the certificate and the log are read.
ViewShape(P) ==
  /\ Len(P) = 7 /\ P[6] = "events" /\ P[7] = "snapshot"
  /\ \A k \in 1..5 : P[k] \notin {"find", "snapshot", "events"}

VerifyShape(P) == Len(P) = 2 /\ P[1] = "snapshot" /\ P[2] = "events"

LookupShape(P) ==
  /\ Len(P) = 8 /\ P[1] = "find" /\ P[2] = "snapshot" /\ P[3] = "row" /\ P[8] = "events"
  /\ \A k \in 4..7 : P[k] \notin {"find", "snapshot", "row", "events"}

ListShape(P) == Len(P) = 7 /\ \A k \in 1..7 : P[k] \notin {"find", "snapshot"}

\* The programs of the reads by what comes first: the case before the log.
LEMMA Shapes ==
  ASSUME NEW op \in Reads
  PROVE  \/ op \in {"GetCase", "VerifyIntegrity"} /\ ViewShape(Program(op))
         \/ op = "VerifyCertificate" /\ VerifyShape(Program(op))
         \/ op = "LookupCertificate" /\ LookupShape(Program(op))
         \/ op = "ListCases" /\ ListShape(Program(op))
<1>1. Program(op) = Programs[op]
      /\ op \in {"ListCases", "GetCase", "VerifyIntegrity", "VerifyCertificate", "LookupCertificate"}
  BY DEF Program, Reads, Programs
<1>2. CASE op = "ListCases"
  <2>1. Program(op) = ListCases
    BY <1>1, <1>2 DEF Programs
  <2>2. ListShape(ListCases)
    BY ListSteps DEF ListShape
  <2> QED
    BY <1>2, <2>1, <2>2
<1>3. CASE op \in {"GetCase", "VerifyIntegrity"}
  <2>1. PICK P : P = LoadCase \o <<"events", "snapshot">>
    OBVIOUS
  <2>2. /\ Len(P) = 7
        /\ P[1] = "row" /\ P[2] = "batches" /\ P[3] = "close" /\ P[4] = "issues" /\ P[5] = "certificate"
        /\ P[6] = "events" /\ P[7] = "snapshot"
    BY <2>1, ViewSteps
  <2>3. ViewShape(P)
    BY <2>2 DEF ViewShape
  <2>4. Program(op) = P
    BY <1>1, <1>3, <2>1 DEF Programs, GetCase, VerifyIntegrity
  <2> QED
    BY <1>3, <2>3, <2>4
<1>4. CASE op = "VerifyCertificate"
  <2>1. PICK P : P = VerifyCertificate
    OBVIOUS
  <2>2. VerifyShape(P)
    BY <2>1 DEF VerifyShape, VerifyCertificate
  <2>3. Program(op) = P
    BY <1>1, <1>4, <2>1 DEF Programs
  <2> QED
    BY <1>4, <2>2, <2>3
<1>5. CASE op = "LookupCertificate"
  <2>1. LookupShape(LookupCertificate)
    BY LookupSteps DEF LookupShape
  <2>2. Program(op) = LookupCertificate
    BY <1>1, <1>5 DEF Programs
  <2> QED
    BY <1>5, <2>1, <2>2
<1> QED
  BY <1>1, <1>2, <1>3, <1>4, <1>5

\* Which steps are left, at the end of a program.
LEMMA LastSteps ==
  ASSUME NEW P, IsProgram(P), NEW k \in 1..Len(P)
  PROVE  /\ From(P, k) = <<"snapshot">> <=> k = Len(P) /\ P[k] = "snapshot"
         /\ From(P, k + 1) = <<"snapshot">> => k = Len(P) - 1 /\ P[Len(P)] = "snapshot"
         /\ From(P, k + 1) = <<>> <=> k = Len(P)
<1>1. P \in Seq(Steps) /\ Len(P) \in Nat \ {0}
  BY DEF IsProgram
<1>2. ASSUME NEW j \in 1..(Len(P) + 1), From(P, j) = <<"snapshot">> PROVE j = Len(P) /\ P[j] = "snapshot"
  <2>0. PICK left : left = From(P, j)
    OBVIOUS
  <2>1. LeftAt(P, j, left)
    BY <2>0, Left
  <2>2. Len(left) = 1 /\ Head(left) = "snapshot"
    BY <1>2, <2>0
  <2>3. j = Len(P)
    <3>1. Len(left) = Len(P) + 1 - j
      BY <2>1 DEF LeftAt
    <3>2. PICK n, len : n = Len(left) /\ len = Len(P)
      OBVIOUS
    <3>3. n = 1 /\ n = len + 1 - j /\ len \in Nat /\ j \in 1..(len + 1)
      BY <1>1, <2>2, <3>1, <3>2
    <3>4. j = len
      BY <3>3
    <3> QED
      BY <3>2, <3>4
  <2> QED
    BY <1>1, <2>1, <2>2, <2>3 DEF LeftAt
<1>3. ASSUME k = Len(P), P[k] = "snapshot" PROVE From(P, k) = <<"snapshot">>
  <2> DEFINE left == SubSeq(P, k, Len(P))
  <2>1. left \in Seq(Steps) /\ Len(left) = 1 /\ left[1] = "snapshot"
    BY <1>1, <1>3
  <2> HIDE DEF left
  <2>2. left = <<"snapshot">>
    BY <2>1
  <2> QED
    BY <2>2 DEF left, From
<1>4. k + 1 \in 1..(Len(P) + 1) /\ k \in 1..(Len(P) + 1) /\ (k + 1 = Len(P) <=> k = Len(P) - 1)
  BY <1>1
<1>5. From(P, k + 1) = <<>> <=> k + 1 = Len(P) + 1
  BY <1>4, Left DEF LeftAt
<1>6. From(P, k + 1) = <<>> <=> k = Len(P)
  BY <1>1, <1>5
<1>7. From(P, k + 1) = <<"snapshot">> => k = Len(P) - 1 /\ P[Len(P)] = "snapshot"
  BY <1>2, <1>4
<1> QED
  BY <1>2, <1>3, <1>4, <1>6, <1>7

\* A call that only goes on: what it is to have seen by then.
LEMMA QueryGoesOn ==
  ASSUME TablesInv, StoredClean, NEW c \in Readers, NEW call, NEW k, AtStep(c, call, k),
         IsSeen(call.seen), SeenInTime(call), NEW op, op = call.op, op \in Reads,
         NEW seen, seen = Saw(call.seen, Head(call.left)), NEW next, next.op = op, next.seen = seen,
         next.left = Tail(call.left), next.left = Rest(call.left, seen), next.left # <<>>
  PROVE  IsSeen(seen) /\ SeenWithLog(next) /\ SeenInTime(next)
<1> PICK P : P = Program(op)
  OBVIOUS
<1> PICK q : q = P[k]
  OBVIOUS
<1>1. /\ IsProgram(P) /\ k \in 1..Len(P) /\ Len(P) \in Nat /\ Head(call.left) = q
      /\ next.left = From(P, k + 1) /\ Len(call.left) = Len(P) + 1 - k
  BY DEF AtStep, IsProgram
<1>2. k + 1 \in 1..(Len(P) + 1)
  BY <1>1
<1>0. PICK size, len : size = Len(next.left) /\ len = Len(P)
  OBVIOUS
<1>3. size = len - k /\ len \in Nat /\ k \in 1..len
  <2>1. LeftAt(P, k + 1, next.left)
    BY <1>1, <1>2, Left
  <2>2. size = len + 1 - (k + 1)
    BY <1>0, <2>1 DEF LeftAt
  <2>3. len \in Nat /\ k \in 1..len
    BY <1>0, <1>1
  <2> QED
    BY <2>2, <2>3
<1>4. k # Len(P)
  BY <1>1, LastSteps
<1>5. /\ IsSeen(seen)
      /\ seen.released = IF q = "row" THEN stored.released ELSE call.seen.released
      /\ seen.frozen = IF q = "snapshot" THEN stored.certificate ELSE call.seen.frozen
      /\ seen.events = IF q = "events" THEN stored.events ELSE call.seen.events
  BY <1>1, SawFacts
<1>6. q \in {"find", "snapshot"} => stored.certificate # NoCertificate
  BY <1>1 DEF Rest
<1>7. stored.certificate # NoCertificate =>
        stored.released = TRUE /\ Anchored(stored.events, stored.certificate)
  BY CleanSnapshot
<1>8. SeenWithLog(next)
  <2> SUFFICES ASSUME next.left = <<"snapshot">>
               PROVE  seen.certificate # NoCertificate /\ Clean(seen.events)
                      /\ Anchored(seen.events, seen.certificate)
    BY DEF SeenWithLog
  <2>1. k = Len(P) - 1 /\ P[Len(P)] = "snapshot"
    BY <1>1, LastSteps
  <2>2. q = "events"
    <3>1. CASE ViewShape(P)
      BY <2>1, <3>1 DEF ViewShape
    <3>2. CASE VerifyShape(P) \/ LookupShape(P)
      BY <2>1, <3>2 DEF VerifyShape, LookupShape
    <3>3. CASE ListShape(P)
      BY <2>1, <3>3 DEF ListShape
    <3> QED
      BY <3>1, <3>2, <3>3, Shapes
  <2>3. seen.certificate # NoCertificate
    BY DEF Rest
  <2>4. seen.certificate = stored.certificate
    BY <1>5, <2>3 DEF IsSeen
  <2> QED
    BY <1>5, <1>7, <2>2, <2>3, <2>4 DEF StoredClean
<1>9. op = "VerifyCertificate" /\ Len(next.left) <= 1 => seen.frozen # NoCertificate
  <2> SUFFICES ASSUME op = "VerifyCertificate" PROVE seen.frozen # NoCertificate
    OBVIOUS
  <2>1. VerifyShape(P)
    BY Shapes
  <2>2. k = 1 /\ q = "snapshot"
    <3>1. len = 2 /\ k # len
      BY <1>0, <1>4, <2>1 DEF VerifyShape
    <3>2. k = 1
      BY <1>3, <3>1
    <3> QED
      BY <2>1, <3>2 DEF VerifyShape
  <2> QED
    BY <1>5, <1>6, <2>2
<1>10. ASSUME op = "LookupCertificate"
       PROVE  /\ size <= 6 => seen.frozen # NoCertificate
              /\ size <= 5 => seen.released = TRUE
  <2>1. LookupShape(P)
    BY <1>10, Shapes
  <2>0. PICK before : before = Len(call.left)
    OBVIOUS
  <2>2. size = 8 - k /\ before = 9 - k /\ k \in 1..7
    <3>1. len = 8 /\ k # len /\ before = len + 1 - k
      BY <1>0, <1>1, <1>4, <2>0, <2>1 DEF LookupShape
    <3> QED
      BY <1>3, <3>1
  <2>3. CASE k = 1
    BY <2>2, <2>3
  <2>4. CASE k = 2
    <3>1. q = "snapshot"
      BY <2>1, <2>4 DEF LookupShape
    <3>2. ~(size <= 5)
      BY <2>2, <2>4
    <3> QED
      BY <1>5, <1>6, <3>1, <3>2
  <2>5. CASE k = 3
    <3>1. q = "row"
      BY <2>1, <2>5 DEF LookupShape
    <3>4. before <= 6
      BY <2>2, <2>5
    <3>2. call.seen.frozen # NoCertificate
      BY <1>10, <2>0, <3>4 DEF SeenInTime
    <3>3. call.seen.frozen = stored.certificate
      BY <3>2 DEF IsSeen
    <3> QED
      BY <1>5, <1>7, <3>1, <3>2, <3>3
  <2>6. CASE k \in 4..7
    <3>1. q \notin {"snapshot", "row"}
      BY <2>1, <2>6 DEF LookupShape
    <3>2. before <= 5 /\ before <= 6
      BY <2>2, <2>6
    <3> QED
      BY <1>5, <1>10, <2>0, <3>1, <3>2 DEF SeenInTime
  <2>7. k = 1 \/ k = 2 \/ k = 3 \/ k \in 4..7
    BY <2>2
  <2> QED
    BY <2>3, <2>4, <2>5, <2>6, <2>7
<1>11. SeenInTime(next)
  BY <1>0, <1>9, <1>10 DEF SeenInTime
<1> QED
  BY <1>5, <1>8, <1>11

\* How a call comes to its end: with its last query, with a certificate that is
\* not there, or with a view that has seen none and leaves the snapshot out.
LEMMA HowItEnds ==
  ASSUME NEW call, NEW P, IsProgram(P), NEW k \in 1..Len(P), NEW seen,
         Head(call.left) = P[k], Tail(call.left) = From(P, k + 1), Rest(call.left, seen) = <<>>
  PROVE  \/ k = Len(P)
         \/ P[k] \in {"find", "snapshot"} /\ stored.certificate = NoCertificate
         \/ k = Len(P) - 1 /\ P[Len(P)] = "snapshot"
BY LastSteps DEF Rest

\* A call that ends on clean tables does not answer "damaged".
LEMMA QueryEnds ==
  ASSUME TablesInv, StoredClean, NEW c \in Readers, NEW call, NEW k, AtStep(c, call, k),
         IsSeen(call.seen), SeenWithLog(call), SeenInTime(call), NEW op, op = call.op, op \in Reads,
         NEW seen, seen = Saw(call.seen, Head(call.left)), Rest(call.left, seen) = <<>>
  PROVE  Answer(op, seen) # "damaged"
<1> PICK P : P = Program(op)
  OBVIOUS
<1> PICK q : q = P[k]
  OBVIOUS
<1>1. /\ IsProgram(P) /\ k \in 1..Len(P) /\ Head(call.left) = q /\ Tail(call.left) = From(P, k + 1)
      /\ call.left = From(P, k) /\ Len(call.left) = Len(P) + 1 - k
  BY DEF AtStep
<1>2. \/ k = Len(P)
      \/ q \in {"find", "snapshot"} /\ stored.certificate = NoCertificate
      \/ k = Len(P) - 1 /\ P[Len(P)] = "snapshot"
  BY <1>1, HowItEnds
<1>3. /\ IsSeen(seen)
      /\ seen.released = IF q = "row" THEN stored.released ELSE call.seen.released
      /\ seen.frozen = IF q = "snapshot" THEN stored.certificate ELSE call.seen.frozen
      /\ seen.certificate = IF q = "certificate" THEN stored.certificate ELSE call.seen.certificate
      /\ seen.events = IF q = "events" THEN stored.events ELSE call.seen.events
  BY <1>1, SawFacts
<1>4. seen.frozen # NoCertificate =>
        /\ seen.frozen = stored.certificate
        /\ Anchored(stored.events, stored.certificate)
  BY <1>3, CleanSnapshot DEF IsSeen
<1>5. Clean(stored.events)
  BY DEF StoredClean
<1>6. ASSUME q = "events", op = "LookupCertificate" /\ seen.frozen # NoCertificate => seen.released = TRUE
      PROVE  Answer(op, seen) # "damaged"
  <2>1. seen.events = stored.events
    BY <1>3, <1>6
  <2> QED
    BY <1>3, <1>4, <1>5, <1>6, <2>1, CleanAnswer
<1>7. CASE op \in {"GetCase", "VerifyIntegrity"} /\ ViewShape(P)
  <2>1. k = 7 \/ k = 6
    <3>1. PICK len : len = Len(P)
      OBVIOUS
    <3>2. len = 7 /\ k \in 1..len
      BY <1>1, <1>7, <3>1 DEF ViewShape
    <3>3. k \in 1..5 => q \notin {"find", "snapshot"}
      BY <1>7 DEF ViewShape
    <3>4. k = len \/ k = len - 1 \/ k \notin 1..5
      BY <1>2, <3>1, <3>3
    <3> QED
      BY <3>2, <3>4
  <2>2. CASE k = 6
    <3>1. q = "events"
      BY <1>7, <2>2 DEF ViewShape
    <3> QED
      BY <1>6, <1>7, <3>1
  <2>3. CASE k = 7
    <3>1. q = "snapshot" /\ k = Len(P)
      BY <1>7, <2>3 DEF ViewShape
    <3>2. call.left = <<"snapshot">>
      BY <1>1, <3>1, LastSteps
    <3>3. /\ call.seen.certificate # NoCertificate
          /\ Clean(call.seen.events)
          /\ Anchored(call.seen.events, call.seen.certificate)
      BY <3>2 DEF SeenWithLog
    <3>4. seen.events = call.seen.events /\ seen.certificate = call.seen.certificate
      BY <1>3, <3>1
    <3>5. seen.frozen = seen.certificate
      BY <1>3, <3>1, <3>3, <3>4 DEF IsSeen
    <3> QED
      BY <1>3, <1>7, <3>3, <3>4, <3>5, CleanAnswer
  <2> QED
    BY <2>1, <2>2, <2>3
<1>8. CASE op = "VerifyCertificate" /\ VerifyShape(P)
  <2>1. k = 1 \/ k = 2
    BY <1>1, <1>8 DEF VerifyShape
  <2>2. CASE k = 1
    <3>1. q = "snapshot" /\ stored.certificate = NoCertificate
      BY <1>2, <1>8, <2>2 DEF VerifyShape
    <3> QED
      BY <1>3, <1>8, <3>1 DEF Answer
  <2>3. CASE k = 2
    <3>1. q = "events"
      BY <1>8, <2>3 DEF VerifyShape
    <3> QED
      BY <1>6, <1>8, <3>1
  <2> QED
    BY <2>1, <2>2, <2>3
<1>9. CASE op = "LookupCertificate" /\ LookupShape(P)
  <2>0. PICK before, len : before = Len(call.left) /\ len = Len(P)
    OBVIOUS
  <2>1. len = 8 /\ k \in 1..8 /\ before = len + 1 - k
    BY <1>1, <1>9, <2>0 DEF LookupShape
  <2>2. CASE k \in 1..7
    <3>1. k # len
      BY <2>1, <2>2
    <3>2. stored.certificate = NoCertificate
      BY <1>2, <1>9, <2>0, <3>1 DEF LookupShape
    <3>3. seen.frozen = NoCertificate
      BY <1>3, <3>2 DEF IsSeen
    <3> QED
      BY <1>9, <3>3 DEF Answer
  <2>3. CASE k = 8
    <3>1. q = "events"
      BY <1>9, <2>3 DEF LookupShape
    <3>2. before <= 5
      BY <2>1, <2>3
    <3>3. call.seen.released = TRUE
      BY <1>9, <2>0, <3>2 DEF SeenInTime
    <3>4. seen.released = TRUE
      BY <1>3, <3>1, <3>3
    <3> QED
      BY <1>6, <3>1, <3>4
  <2>4. k \in 1..7 \/ k = 8
    BY <2>1
  <2> QED
    BY <2>2, <2>3, <2>4
<1>10. CASE op = "ListCases"
  BY <1>10 DEF Answer, Valid
<1> QED
  BY <1>7, <1>8, <1>9, <1>10, Shapes

\* A query adds what is true of the tables now to what was true when the call saw it.
LEMMA QueriedIsSeen ==
  ASSUME TablesInv, StoredClean, NEW c \in Readers, NEW call, IsCall(c, call), call.left # <<>>,
         Head(call.left) \in Queries, Seen(call)
  PROVE  Seen(Queried(call))
<1> DEFINE seen == Saw(call.seen, Head(call.left))
           left == Rest(call.left, seen)
<1> PICK next : next = Queried(call)
  OBVIOUS
<1>1. /\ call = [op |-> call.op, left |-> call.left, seen |-> call.seen, answer |-> call.answer]
      /\ call.op \in Reads
  BY DEF IsCall, OpsOf
<1>2. c \in Clients
  BY DEF Clients
<1>3. PICK k : AtStep(c, call, k)
  BY <1>2, CallAtStep
<1>4. IsSeen(call.seen) /\ SeenWithLog(call) /\ SeenInTime(call) /\ call.answer # "damaged"
  BY DEF Seen
<1>5. CASE left = <<>>
  <2>1. Answer(call.op, seen) # "damaged"
    BY <1>1, <1>3, <1>4, <1>5, QueryEnds
  <2>2. next = [op |-> call.op, left |-> <<>>, seen |-> Unseen, answer |-> Answer(call.op, seen)]
    BY <1>1, <1>5, QueriedForm
  <2> HIDE DEF seen
  <2>3. next.left = <<>> /\ next.answer # "damaged"
    BY <2>1, <2>2
  <2> QED
    BY <2>3 DEF Seen
<1>6. CASE left # <<>>
  <2>1. left = Tail(call.left)
        /\ next = [op |-> call.op, left |-> Tail(call.left), seen |-> seen, answer |-> call.answer]
    BY <1>1, <1>6, QueriedForm
  <2>2. next.op = call.op /\ next.left = Tail(call.left) /\ next.seen = seen /\ next.answer = call.answer
    <3> HIDE DEF seen
    <3> QED
      BY <2>1
  <2>3. IsSeen(seen) /\ SeenWithLog(next) /\ SeenInTime(next)
    BY <1>1, <1>3, <1>4, <1>6, <2>1, <2>2, QueryGoesOn
  <2> HIDE DEF seen
  <2> QED
    BY <1>4, <2>2, <2>3 DEF Seen
<1> QED
  BY <1>5, <1>6

\* Closing a cursor brings a call to none of the points that something hangs on.
LEMMA ClosedIsSeen ==
  ASSUME NEW c \in Readers, NEW call, IsCall(c, call), call.left # <<>>, Head(call.left) = "close",
         Seen(call), NEW next,
         next = [op |-> call.op, left |-> Tail(call.left), seen |-> call.seen, answer |-> call.answer]
  PROVE  Seen(next)
<1> PICK op : op = call.op
  OBVIOUS
<1> PICK P : P = Program(op)
  OBVIOUS
<1>1. c \in Clients /\ op \in Reads
  BY DEF Clients, IsCall, OpsOf
<1>2. PICK k : AtStep(c, call, k)
  BY <1>1, CallAtStep
<1>3. /\ IsProgram(P) /\ k \in 1..Len(P) /\ P[k] = "close"
      /\ Tail(call.left) = From(P, k + 1) /\ Len(call.left) = Len(P) + 1 - k
  BY <1>2 DEF AtStep
<1>4. next.op = op /\ next.left = From(P, k + 1) /\ next.seen = call.seen /\ next.answer = call.answer
  BY <1>3
<1>5. IsSeen(call.seen) /\ SeenInTime(call) /\ call.answer # "damaged"
  BY DEF Seen
<1>6. next.left # <<"snapshot">>
  <2> SUFFICES ASSUME k = Len(P) - 1, P[Len(P)] = "snapshot" PROVE FALSE
    BY <1>3, <1>4, LastSteps
  <2>1. CASE ViewShape(P)
    BY <1>3, <2>1 DEF ViewShape
  <2>2. CASE VerifyShape(P) \/ LookupShape(P)
    BY <2>2 DEF VerifyShape, LookupShape
  <2>3. CASE ListShape(P)
    BY <2>3 DEF ListShape
  <2> QED
    BY <1>1, <2>1, <2>2, <2>3, Shapes
<1>7. op # "VerifyCertificate"
  <2> SUFFICES ASSUME VerifyShape(P) PROVE FALSE
    BY <1>1, Shapes
  <2>1. k = 1 \/ k = 2
    BY <1>3 DEF VerifyShape
  <2> QED
    BY <1>3, <2>1 DEF VerifyShape
<1>8. ASSUME op = "LookupCertificate"
      PROVE  call.seen.frozen # NoCertificate /\ call.seen.released = TRUE
  <2>0. PICK before, len : before = Len(call.left) /\ len = Len(P)
    OBVIOUS
  <2>1. LookupShape(P)
    BY <1>1, <1>8, Shapes
  <2>2. len = 8 /\ k \in 1..8 /\ before = len + 1 - k
    BY <1>3, <2>0, <2>1 DEF LookupShape
  <2>3. k # 1 /\ k # 2 /\ k # 3
    BY <1>3, <2>1 DEF LookupShape
  <2>4. before <= 5 /\ before <= 6
    BY <2>2, <2>3
  <2> QED
    BY <1>5, <1>8, <2>0, <2>4 DEF SeenInTime
<1>9. SeenWithLog(next) /\ SeenInTime(next)
  BY <1>4, <1>6, <1>7, <1>8 DEF SeenWithLog, SeenInTime
<1> QED
  BY <1>4, <1>5, <1>9 DEF Seen

\* What a call has seen stays true of the tables: the certificate is issued once.
LEMMA SeenStays ==
  ASSUME NEW c \in Readers, calls'[c] = calls[c], Seen(calls[c]), written \subseteq written',
         stored'.certificate = stored.certificate \/ stored.certificate = NoCertificate
  PROVE  Seen(calls[c])'
BY DEF Seen, IsSeen, SeenWithLog, SeenInTime, Clean

\* A commit keeps undamaged tables undamaged, and a certificate that is there.
LEMMA CommitKeepsClean ==
  ASSUME TablesInv, StoredClean, Committed, staged \in Writes(stored) \cup {stored}
  PROVE  /\ StoredClean'
         /\ written \subseteq written'
         /\ stored'.certificate = stored.certificate \/ stored.certificate = NoCertificate
<1>1. /\ written \subseteq written' /\ stored' = staged
      /\ \A e \in Range(staged.events) : e \in Range(stored.events) \/ e \in written'
  BY DEF Committed
<1>2. CASE staged = stored
  BY <1>1, <1>2 DEF StoredClean, Clean
<1>3. CASE staged \in Writes(stored)
  <2>1. /\ IsTables(staged) /\ Grown(stored.events, staged.events)
        /\ Ordinary(stored, staged) \/ Releasing(stored, staged)
    BY <1>3, WrittenTables DEF TablesInv
  <2>2. IsSeq(staged.events) /\ Range(staged.events) \subseteq written' /\ Chained(staged.events)
    BY <1>1, <2>1 DEF IsTables, KeepsItsKeys, IsLog, Grown, StoredClean, Clean
  <2>3. CASE Ordinary(stored, staged)
    <3>1. stored'.released = stored.released /\ stored'.certificate = stored.certificate
      BY <1>1, <2>3 DEF Ordinary
    <3>2. ASSUME Anchored(stored.events, stored.certificate)
          PROVE  Anchored(staged.events, stored.certificate)
      <4>1. PICK e \in Range(stored.events) : e.kind = "CASE_RELEASED" /\ e.previous = stored.certificate.head
        BY <3>2 DEF Anchored, Releases, Range
      <4>2. e \in Range(staged.events)
        BY <2>1, <4>1 DEF Grown
      <4> QED
        BY <4>1, <4>2 DEF Anchored, Releases, Range
    <3>3. stored.released =>
            /\ Anchored(staged.events, stored.certificate)
            /\ stored.certificate.snapshot = [version |-> stored.certificate.version, text |-> "frozen"]
      BY <3>2 DEF StoredClean
    <3>4. StoredClean'
      BY <1>1, <2>2, <3>1, <3>3 DEF StoredClean, Clean
    <3> QED
      BY <1>1, <3>1, <3>4
  <2>4. CASE Releasing(stored, staged)
    <3>1. PICK e : /\ Extends(stored.events, staged.events, e)
                   /\ e.kind = "CASE_RELEASED" /\ e.previous = staged.certificate.head
      BY <2>4 DEF Releasing
    <3>2. e \in Range(staged.events)
      BY <3>1 DEF Extends
    <3>3. Anchored(staged.events, staged.certificate)
      BY <3>1, <3>2 DEF Anchored, Releases, Range
    <3>4. staged.certificate.snapshot = [version |-> staged.certificate.version, text |-> "frozen"]
      BY <2>4 DEF Releasing
    <3>5. stored.certificate = NoCertificate
      BY <2>4 DEF Releasing, TablesInv, IsTables, CertificateIfReleased
    <3>6. StoredClean'
      BY <1>1, <2>2, <3>3, <3>4 DEF StoredClean, Clean
    <3> QED
      BY <1>1, <3>5, <3>6
  <2> QED
    BY <1>1, <2>1, <2>3, <2>4
<1> QED
  BY <1>2, <1>3

\* What a step does to the calls: some client's call, or none, becomes another.
LEMMA OneCallSeen ==
  ASSUME DOMAIN calls = Clients, StoredClean, \A d \in Readers : Seen(calls[d]),
         NEW c \in Clients, NEW call, calls' = [calls EXCEPT ![c] = call],
         c \in Readers => Seen(call), UNCHANGED <<stored, written>>
  PROVE  CleanInv'
<1>1. calls'[c] = call /\ \A d \in Clients \ {c} : calls'[d] = calls[d]
  OBVIOUS
<1>2. StoredClean'
  BY DEF StoredClean, Clean
<1>3. ASSUME NEW d \in Readers PROVE Seen(calls[d])'
  <2>1. CASE d = c
    <3>1. Seen(call)'
      BY <1>3, <2>1 DEF Seen, IsSeen, SeenWithLog, SeenInTime, Clean
    <3> QED
      BY <1>1, <2>1, <3>1 DEF Seen, IsSeen, SeenWithLog, SeenInTime, Clean
  <2>2. CASE d # c
    <3>1. calls'[d] = calls[d]
      BY <1>1, <2>2 DEF Clients
    <3> QED
      BY <3>1, SeenStays
  <2> QED
    BY <2>1, <2>2
<1> QED
  BY <1>2, <1>3 DEF CleanInv

\* No step breaks what is known of undamaged tables and of what calls have seen of them.
LEMMA StepIsClean ==
  ASSUME Safe, CleanInv, [Next]_vars
  PROVE  CleanInv'
<1>1. TablesInv /\ CallsInv /\ DOMAIN calls = Clients /\ faults \in Nat
  BY ReadersAssumption DEF Safe, CallsInv
<1>2. CASE Fault
  <2>1. faults' = faults + 1
    BY <1>2 DEF Fault
  <2>2. faults' # 0
    BY <1>1, <2>1
  <2> QED
    BY <2>2 DEF CleanInv
<1>3. ASSUME UNCHANGED faults, faults # 0 PROVE CleanInv'
  BY <1>3 DEF CleanInv
<1>4. ASSUME faults = 0 PROVE StoredClean /\ \A d \in Readers : Seen(calls[d])
  BY <1>4 DEF CleanInv
<1>5. ASSUME NEW c \in Clients, NEW op \in OpsOf(c), faults = 0, Call(c, op) PROVE CleanInv'
  <2>1. PICK call : call = [op |-> op, left |-> Program(op), seen |-> Unseen, answer |-> "none"]
    OBVIOUS
  <2>2. calls' = [calls EXCEPT ![c] = call] /\ UNCHANGED <<stored, written>>
    BY <1>5, <2>1 DEF Call
  <2>3. call.op = op /\ call.left = Program(op) /\ call.seen = Unseen /\ call.answer = "none"
    BY <2>1
  <2>4. ASSUME c \in Readers, op \in Reads PROVE Seen(call)
    <3>1. IsSeen(Unseen)
      BY DEF IsSeen, Unseen
    <3>2. Program(op) # <<"snapshot">> /\ ~(op = "VerifyCertificate" /\ Len(Program(op)) <= 1)
          /\ ~(op = "LookupCertificate" /\ Len(Program(op)) <= 6)
      <4>1. CASE ViewShape(Program(op)) /\ op \in {"GetCase", "VerifyIntegrity"}
        BY <4>1 DEF ViewShape
      <4>2. CASE VerifyShape(Program(op)) /\ op = "VerifyCertificate"
        BY <4>2 DEF VerifyShape
      <4>3. CASE LookupShape(Program(op)) /\ op = "LookupCertificate"
        BY <4>3 DEF LookupShape
      <4>4. CASE ListShape(Program(op)) /\ op = "ListCases"
        BY <4>4 DEF ListShape
      <4> QED
        BY <2>4, <4>1, <4>2, <4>3, <4>4, Shapes
    <3>3. ~(Len(Program(op)) <= 6) => ~(Len(Program(op)) <= 5)
      <4>1. PICK P : P = Program(op)
        OBVIOUS
      <4>2. Len(P) \in Nat
        BY <2>4, <4>1, ReadPrograms DEF IsProgram
      <4> QED
        BY <4>1, <4>2
    <3> QED
      BY <2>3, <3>1, <3>2, <3>3 DEF Seen, SeenWithLog, SeenInTime
  <2>5. c \in Readers => op \in Reads
    BY DEF OpsOf
  <2> QED
    BY <1>1, <1>4, <1>5, <2>2, <2>4, <2>5, OneCallSeen
<1>6. ASSUME NEW c \in Clients, faults = 0, Query(c) PROVE CleanInv'
  <2>1. Doing(c, Queries) /\ calls' = [calls EXCEPT ![c] = Queried(calls[c])] /\ UNCHANGED <<stored, written>>
    BY <1>6 DEF Query
  <2>2. IsCall(c, calls[c]) /\ calls[c].left # <<>> /\ Head(calls[c].left) \in Queries
    BY <1>1, <2>1, DoingCall
  <2>3. c \in Readers => Seen(Queried(calls[c]))
    BY <1>1, <1>4, <1>6, <2>2, QueriedIsSeen
  <2> QED
    BY <1>1, <1>4, <1>6, <2>1, <2>3, OneCallSeen
<1>7. ASSUME NEW c \in Clients, faults = 0, Close(c) PROVE CleanInv'
  <2>1. /\ Doing(c, {"close"}) /\ UNCHANGED <<stored, written>>
        /\ calls' = [calls EXCEPT ![c] = [calls[c] EXCEPT !.left = Tail(calls[c].left)]]
    BY <1>7 DEF Close
  <2>2. PICK call : call = calls[c]
    OBVIOUS
  <2>3. /\ IsCall(c, call) /\ call.left # <<>> /\ Head(call.left) = "close"
        /\ call = [op |-> call.op, left |-> call.left, seen |-> call.seen, answer |-> call.answer]
    BY <1>1, <2>1, <2>2, DoingCall
  <2>4. PICK next : next = [call EXCEPT !.left = Tail(call.left)]
    OBVIOUS
  <2>5. next = [op |-> call.op, left |-> Tail(call.left), seen |-> call.seen, answer |-> call.answer]
    BY <2>3, <2>4
  <2>6. c \in Readers => Seen(next)
    BY <1>4, <1>7, <2>2, <2>3, <2>5, ClosedIsSeen
  <2>7. calls' = [calls EXCEPT ![c] = next]
    BY <2>1, <2>2, <2>4
  <2> QED
    BY <1>1, <1>4, <1>7, <2>1, <2>6, <2>7, OneCallSeen
<1>8. ASSUME NEW c \in Clients, faults = 0, Begin(c) PROVE CleanInv'
  <2>1. /\ Doing(c, {"begin"}) /\ UNCHANGED <<stored, written>>
        /\ calls' = [calls EXCEPT ![c] = [calls[c] EXCEPT !.left = Tail(calls[c].left)]]
    BY <1>8 DEF Begin
  <2>2. c \notin Readers
    BY <1>1, <2>1, DoingCall DEF Queries
  <2>3. PICK next : next = [calls[c] EXCEPT !.left = Tail(calls[c].left)]
    OBVIOUS
  <2> QED
    BY <1>1, <1>4, <1>8, <2>1, <2>2, <2>3, OneCallSeen
<1>9. ASSUME NEW c \in Clients, faults = 0, Commit(c) \/ Rollback(c) PROVE CleanInv'
  <2>1. /\ Doing(c, {"end"}) /\ Ended(c)
        /\ UNCHANGED <<phase, faults>>
        /\ Committed \/ UNCHANGED <<stored, written>>
    BY <1>9 DEF Commit, Rollback, Committed
  <2>2. c \notin Readers
    BY <1>1, <2>1, DoingCall DEF Queries
  <2>3. staged \in Writes(stored) \cup {stored}
    BY <1>1, <2>1, EndedKeepsCalls
  <2>4. PICK next : next = [calls[c] EXCEPT !.left = <<>>]
    OBVIOUS
  <2>5. calls' = [calls EXCEPT ![c] = next]
    BY <2>1, <2>4 DEF Ended
  <2>6. CASE Committed
    <3>1. /\ StoredClean'
          /\ written \subseteq written'
          /\ stored'.certificate = stored.certificate \/ stored.certificate = NoCertificate
      BY <1>1, <1>4, <1>9, <2>3, <2>6, CommitKeepsClean
    <3>2. ASSUME NEW d \in Readers PROVE Seen(calls[d])'
      <4>1. calls'[d] = calls[d]
        BY <1>1, <2>2, <2>5, <3>2 DEF Clients
      <4> QED
        BY <1>4, <1>9, <3>1, <4>1, SeenStays
    <3> QED
      BY <3>1, <3>2 DEF CleanInv
  <2>7. CASE UNCHANGED <<stored, written>>
    BY <1>1, <1>4, <1>9, <2>2, <2>5, <2>7, OneCallSeen
  <2> QED
    BY <2>1, <2>6, <2>7
<1>10. Seen(NoCall)
  BY DEF Seen, NoCall
<1>11. ASSUME NEW c \in Clients, faults = 0, Return(c) \/ GiveUp(c) PROVE CleanInv'
  <2>1. calls' = [calls EXCEPT ![c] = NoCall] /\ UNCHANGED <<stored, written>>
    BY <1>11 DEF Return, GiveUp
  <2> QED
    BY <1>1, <1>4, <1>10, <1>11, <2>1, OneCallSeen
<1>12. ASSUME faults = 0, Signal \/ Finish \/ Restart \/ UNCHANGED vars PROVE CleanInv'
  <2>1. UNCHANGED <<stored, written, calls>>
    BY <1>12 DEF Signal, Finish, Restart, vars
  <2> QED
    BY <1>4, <1>12, <2>1 DEF CleanInv, StoredClean, Seen, IsSeen, SeenWithLog, SeenInTime, Clean
<1>13. ASSUME faults = 0, Die PROVE CleanInv'
  <2>1. UNCHANGED <<stored, written>> /\ calls' = [c \in Clients |-> NoCall]
    BY <1>13 DEF Die
  <2>2. StoredClean'
    BY <1>4, <1>13, <2>1 DEF StoredClean, Clean
  <2>3. \A d \in Readers : calls'[d] = NoCall
    BY <2>1 DEF Clients
  <2>4. ASSUME NEW d \in Readers PROVE Seen(calls[d])'
    BY <2>3, <2>4 DEF Seen, NoCall
  <2> QED
    BY <2>2, <2>4 DEF CleanInv
<1>14. ASSUME ~Fault PROVE UNCHANGED faults
  BY <1>14 DEF Next, vars, Call, Query, Close, Begin, Commit, Rollback, Return, GiveUp, Signal, Finish, Die, Restart
<1>15. /\ \A c \in Readers, op \in Reads : c \in Clients /\ op \in OpsOf(c)
       /\ \A c \in Writers : c \in Clients /\ "Write" \in OpsOf(c)
  BY ReadersAssumption DEF Clients, OpsOf
<1> QED
  BY <1>2, <1>3, <1>5, <1>6, <1>7, <1>8, <1>9, <1>11, <1>12, <1>13, <1>14, <1>15 DEF Next

\* Nothing is damaged at first.
LEMMA FirstIsClean ==
  ASSUME Init
  PROVE  CleanInv
<1>1. TablesInv
  BY FirstTables
<1>2. /\ stored.released = FALSE /\ stored.events = <<FirstEvent>> /\ written = {FirstEvent}
      /\ calls = [c \in Clients |-> NoCall]
  BY DEF Init
<1> PICK e : e = FirstEvent
  OBVIOUS
<1> PICK log : log = <<e>>
  OBVIOUS
<1>3. log \in Seq({e}) /\ Len(log) = 1 /\ log[1] = e
  OBVIOUS
<1>4. IsSeq(log) /\ Range(log) \subseteq {e} /\ DOMAIN log = 1..1
  BY <1>3, OverItsElements
<1>5. Good(log, 1)
  <2>1. e = [sequence |-> 1, kind |-> "CASE_CREATED", version |-> 1, payload |-> "written",
             previous |-> NoDigest, digest |-> EventDigest(NoDigest, 1, "CASE_CREATED", "written")]
    BY DEF FirstEvent, NewEvent
  <2>2. Start(log, 0) = [previous |-> NoDigest, sequence |-> 0, damaged |-> 0]
    BY DEF Start
  <2>3. e.digest = Recomputed(e, NoDigest)
    BY <2>1 DEF Recomputed
  <2>4. e.previous = NoDigest /\ e.sequence = 0 + 1
    BY <2>1
  <2>5. 1 - 1 = 0
    OBVIOUS
  <2> QED
    BY <1>3, <2>2, <2>3, <2>4, <2>5 DEF Good
<1>6. Clean(log)
  <2>1. Chained(log)
    BY <1>4, <1>5 DEF Chained
  <2> QED
    BY <1>2, <1>4, <2>1 DEF Clean
<1>7. stored.events = log
  BY <1>2
<1>8. \A c \in Readers : calls[c] = NoCall
  BY <1>2 DEF Clients
<1>9. Seen(NoCall)
  BY DEF Seen, NoCall
<1> QED
  BY <1>2, <1>6, <1>7, <1>8, <1>9 DEF CleanInv, StoredClean

\* While nothing is damaged no reader ever reports damage, whatever write, the
\* release included, comes between two of its queries.
THEOREM NoFalseAlarms == Spec => []NoFalseAlarm
<1>1. Init => Safe /\ CleanInv
  BY FirstTables, FirstCalls, FirstIsClean DEF Safe
<1>2. (Safe /\ CleanInv) /\ [Next]_vars => (Safe /\ CleanInv)'
  BY StepIsSafe, StepIsClean
<1>3. Safe /\ CleanInv => NoFalseAlarm
  BY DEF CleanInv, Seen, NoFalseAlarm
<1> QED
  BY <1>1, <1>2, <1>3, PTL DEF Spec

-----------------------------------------------------------------------------
(* What a valid log tells.                                                 *)

\* Digests are equal only when the same was hashed.
LEMMA DigestsTell ==
  ASSUME NEW e, IsEvent(e), NEW prev, NEW w, AsIssued(w), e.digest = Recomputed(e, prev), e.digest = w.digest
  PROVE  /\ prev = w.previous /\ e.version = w.version /\ e.kind = w.kind
         /\ e.payload # "invalid" /\ Compact(e.payload) = "written"
<1>1. w.digest = <<w.previous, w.version, w.kind, "written">>
  BY DEF AsIssued, EventDigest, Compact
<1>2. e.payload # "invalid"
  <2> SUFFICES ASSUME e.payload = "invalid" PROVE FALSE
    OBVIOUS
  <2>1. e.digest = <<"empty">>
    BY DEF Recomputed, EventDigest, EmptyDigest
  <2>2. Len(<<"empty">>) = 1 /\ Len(<<w.previous, w.version, w.kind, "written">>) = 4
    OBVIOUS
  <2> QED
    BY <1>1, <2>1, <2>2
<1>3. e.digest = <<prev, e.version, e.kind, Compact(e.payload)>>
  BY <1>2 DEF Recomputed, EventDigest
<1>4. <<prev, e.version, e.kind, Compact(e.payload)>> = <<w.previous, w.version, w.kind, "written">>
  BY <1>1, <1>3
<1>5. PICK p : p = Compact(e.payload)
  OBVIOUS
<1>6. prev = w.previous /\ e.version = w.version /\ e.kind = w.kind /\ p = "written"
  BY <1>4, <1>5
<1> QED
  BY <1>2, <1>5, <1>6

\* The digest of what was written is not one of the others.
LEMMA DigestOfIssued ==
  ASSUME NEW w, AsIssued(w)
  PROVE  w.digest # Garbled
<1>1. w.digest = <<w.previous, w.version, w.kind, "written">>
  BY DEF AsIssued, EventDigest, Compact
<1>2. Len(<<"garbled">>) = 1 /\ Len(<<w.previous, w.version, w.kind, "written">>) = 4
  OBVIOUS
<1> QED
  BY <1>1, <1>2 DEF Garbled

\* A garbled digest is the digest of nothing.
LEMMA RecomputedIsNotGarbled ==
  ASSUME NEW e, NEW prev
  PROVE  Recomputed(e, prev) # Garbled
<1>1. CASE e.payload = "invalid"
  <2>1. Recomputed(e, prev) = <<"empty">>
    BY <1>1 DEF Recomputed, EventDigest, EmptyDigest
  <2>2. <<"empty">>[1] = "empty" /\ <<"garbled">>[1] = "garbled"
    OBVIOUS
  <2> QED
    BY <2>1, <2>2 DEF Garbled
<1>2. CASE e.payload # "invalid"
  <2>1. PICK p : p = Compact(e.payload)
    OBVIOUS
  <2>2. Recomputed(e, prev) = <<prev, e.version, e.kind, p>>
    BY <1>2, <2>1 DEF Recomputed, EventDigest
  <2>3. Len(<<"garbled">>) = 1 /\ Len(<<prev, e.version, e.kind, p>>) = 4
    OBVIOUS
  <2> QED
    BY <2>2, <2>3 DEF Garbled
<1> QED
  BY <1>1, <1>2

\* The events of a valid log are numbered from 1.
LEMMA ValidIsNumbered ==
  ASSUME NEW log, IsSeq(log), Chained(log)
  PROVE  \A i \in DOMAIN log : log[i].sequence = i
<1> DEFINE T == {i \in 1..Len(log) : log[i].sequence # i}
<1>1. Len(log) \in Nat /\ DOMAIN log = 1..Len(log)
  BY Elements
<1>2. ASSUME T # {} PROVE FALSE
  <2>1. T \subseteq Nat
    OBVIOUS
  <2>2. PICK i \in T : \A j \in T : i <= j
    <3> HIDE DEF T
    <3> QED
      BY <1>2, <2>1, LeastNumber
  <2>3. i \in 1..Len(log) /\ log[i].sequence # i
    BY <2>2
  <2>4. Good(log, i)
    BY <1>1, <2>3 DEF Chained
  <2>5. CASE i = 1
    <3>1. Start(log, 1 - 1).sequence = 0
      BY DEF Start
    <3> QED
      BY <2>3, <2>4, <2>5, <3>1 DEF Good
  <2>6. CASE i # 1
    <3>1. i - 1 \in 1..Len(log) /\ i - 1 # 0 /\ (i - 1) + 1 = i /\ ~(i <= i - 1)
      BY <1>1, <2>3, <2>6
    <3>2. i - 1 \notin T
      <4> HIDE DEF T
      <4> QED
        BY <2>2, <3>1
    <3>3. log[i - 1].sequence = i - 1
      BY <3>1, <3>2
    <3>4. Start(log, i - 1).sequence = log[i - 1].sequence
      BY <3>1 DEF Start
    <3>5. log[i].sequence = log[i - 1].sequence + 1
      BY <2>4, <3>4 DEF Good
    <3> QED
      BY <2>3, <3>1, <3>3, <3>5
  <2> QED
    BY <2>5, <2>6
<1> QED
  BY <1>1, <1>2

\* What AsWritten leaves of a row.
LEMMA AsWrittenRow ==
  ASSUME NEW e, IsEvent(e)
  PROVE  AsWritten(e) = [sequence |-> e.sequence, kind |-> e.kind, version |-> e.version,
                         payload |-> Compact(e.payload), previous |-> e.previous, digest |-> e.digest]
<1>1. PICK p : p = Compact(e.payload)
  OBVIOUS
<1>2. PICK a : a = [e EXCEPT !.payload = p]
  OBVIOUS
<1>3. e = [sequence |-> e.sequence, kind |-> e.kind, version |-> e.version,
           payload |-> e.payload, previous |-> e.previous, digest |-> e.digest]
  BY DEF IsEvent
<1>4. a = [sequence |-> e.sequence, kind |-> e.kind, version |-> e.version,
           payload |-> p, previous |-> e.previous, digest |-> e.digest]
  BY <1>2, <1>3
<1>5. AsWritten(e) = a
  BY <1>1, <1>2 DEF AsWritten
<1> QED
  BY <1>1, <1>4, <1>5

\* Every event of a valid log is one that was written, its spelling apart.
LEMMA ValidIsWritten ==
  ASSUME TablesInv, Chained(Log), NEW i \in DOMAIN Log
  PROVE  /\ AsWritten(Log[i]) \in written
         /\ Log[i].payload # "invalid"
         /\ Log[i].digest = <<Log[i].previous, Log[i].version, Log[i].kind, "written">>
<1> PICK e : e = Log[i]
  OBVIOUS
<1>1. IsSeq(Log) /\ Len(Log) <= MaxEvents /\ (\A f \in Range(Log) : IsEvent(f)) /\ (\A f \in Range(Log) : Traced(f))
  BY DEF TablesInv, IsTables, KeepsItsKeys, IsLog, Log
<1>2. i \in 1..Len(Log) /\ Len(Log) \in Nat /\ e \in Range(Log)
  BY <1>1, Elements
<1>3. IsEvent(e) /\ Traced(e)
  BY <1>1, <1>2
<1>4. e.sequence = i /\ i # 0 /\ i # MaxEvents + 1
  <2>1. e.sequence = i
    BY <1>1, ValidIsNumbered
  <2>2. MaxEvents \in Nat
    BY ReadersAssumption
  <2> QED
    BY <1>1, <1>2, <2>1, <2>2
<1>5. e.previous = Start(Log, i - 1).previous /\ e.digest = Recomputed(e, e.previous)
  BY DEF Chained, Good
<1>6. PICK w \in written : w.digest = e.digest /\ e.sequence \in {w.sequence, 0, MaxEvents + 1}
  BY <1>3, <1>5, RecomputedIsNotGarbled DEF Traced
<1>7. AsIssued(w)
  BY DEF TablesInv
<1>8. /\ e.previous = w.previous /\ e.version = w.version /\ e.kind = w.kind
      /\ e.payload # "invalid" /\ Compact(e.payload) = "written"
  BY <1>3, <1>5, <1>6, <1>7, DigestsTell
<1>9. AsWritten(e) = w
  <2>1. w = [sequence |-> w.sequence, kind |-> w.kind, version |-> w.version,
             payload |-> "written", previous |-> w.previous, digest |-> w.digest]
    BY <1>7 DEF AsIssued, IsEvent
  <2>2. e.sequence = w.sequence
    BY <1>4, <1>6
  <2>3. AsWritten(e) = [sequence |-> e.sequence, kind |-> e.kind, version |-> e.version,
                        payload |-> Compact(e.payload), previous |-> e.previous, digest |-> e.digest]
    BY <1>3, AsWrittenRow
  <2> QED
    BY <1>6, <1>8, <2>1, <2>2, <2>3
<1>10. w.digest = <<w.previous, w.version, w.kind, "written">>
  BY <1>7 DEF AsIssued, EventDigest, Compact
<1> QED
  BY <1>6, <1>8, <1>9, <1>10

\* A release event of a valid log is the release that was written.
LEMMA ValidReleases ==
  ASSUME TablesInv, Chained(Log), NEW i \in Releases(Log)
  PROVE  /\ stored.released
         /\ AsWritten(Log[i]) = Last(sealed)
         /\ Log[i].previous = stored.certificate.head
<1> PICK e : e = Log[i]
  OBVIOUS
<1>1. i \in DOMAIN Log /\ e.kind = "CASE_RELEASED"
  BY DEF Releases
<1>2. PICK w : w = AsWritten(e)
  OBVIOUS
<1>3. w \in written
  BY <1>1, <1>2, ValidIsWritten
<1>4. IsEvent(e)
  BY <1>1 DEF TablesInv, IsTables, KeepsItsKeys, IsLog, Log, Range
<1>5. w.kind = e.kind /\ w.previous = e.previous
  BY <1>2, <1>4, AsWrittenRow
<1>6. stored.released /\ w = Last(sealed)
  BY <1>1, <1>3, <1>5 DEF TablesInv, ReleaseWritten
<1> QED
  BY <1>2, <1>5, <1>6 DEF TablesInv, ReleaseWritten

\* What a log is found to be, by the names of the readers.
LEMMA SafeVerdicts ==
  ASSUME Safe
  PROVE  /\ TimelineValid(Log) <=> Chained(Log)
         /\ FirstDamagedIndex(Log, 0) = 0 <=> Chained(Log)
         /\ FirstDamagedSequence(Log) = 0 <=> Chained(Log)
BY SafeLog, ValidIsChained

\* The ways to judge a certificate agree in every safe state.
LEMMA SafeReadersAgree == Safe => ReadersAgree
<1> SUFFICES ASSUME Safe, stored.certificate # NoCertificate
             PROVE  LET cert == stored.certificate
                        checks == Checks(Log, cert, stored.released)
                    IN  /\ CertificateValid(Log, cert) <=> IntegrityValid(Log, cert)
                        /\ CertificateValid(Log, cert) <=> checks.snapshot /\ checks.chain /\ checks.anchor
                        /\ CertificateValid(Log, cert) => LookupValid(checks)
  BY DEF ReadersAgree
<1> PICK cert : cert = stored.certificate
  OBVIOUS
<1> PICK checks : checks = Checks(Log, cert, stored.released)
  OBVIOUS
<1>1. TablesInv /\ stored.released \in BOOLEAN /\ CertificateIfReleased(stored)
  BY DEF Safe, TablesInv, IsTables
<1>2. stored.released = TRUE /\ IsCertificate(cert)
  BY <1>1 DEF CertificateIfReleased
<1>3. checks.snapshot = SnapshotValid(cert) /\ checks.chain = (FirstDamagedSequence(Log) = 0)
      /\ checks.anchor = Anchored(Log, cert)
  BY DEF Checks
<1>4. ASSUME Chained(Log)
      PROVE  Anchored(Log, cert) <=>
               Releases(Log) # {} /\ Log[Min(Releases(Log))].previous = cert.head
  <2>1. \A i \in Releases(Log) : Log[i].previous = cert.head
    BY <1>1, <1>4, ValidReleases
  <2>2. Releases(Log) # {} => Min(Releases(Log)) \in Releases(Log)
    BY SafeLog, FirstRelease
  <2> QED
    BY <2>1, <2>2 DEF Anchored
<1>5. CertificateValid(Log, cert) <=> IntegrityValid(Log, cert)
  BY <1>4, SafeVerdicts DEF CertificateValid, IntegrityValid
<1>6. IntegrityValid(Log, cert) <=> Chained(Log) /\ SnapshotValid(cert) /\ Anchored(Log, cert)
  BY SafeVerdicts DEF IntegrityValid
<1>7. CertificateValid(Log, cert) <=> checks.snapshot /\ checks.chain /\ checks.anchor
  BY <1>3, <1>5, <1>6, SafeVerdicts
<1>8. ASSUME CertificateValid(Log, cert) PROVE LookupValid(checks)
  <2>1. SnapshotValid(cert) /\ Anchored(Log, cert) /\ FirstDamagedSequence(Log) = 0
    BY <1>5, <1>6, <1>8, SafeVerdicts
  <2>2. cert.snapshot = [version |-> cert.version, text |-> "frozen"]
    BY <1>2, <2>1 DEF SnapshotValid, IsCertificate, SnapshotDigest
  <2>3. cert.snapshot.version = cert.version
    BY <2>2
  <2> QED
    BY <1>1, <1>2, <2>1, <2>3, TheChecks
<1> QED
  BY <1>5, <1>7, <1>8

\* The readers that judge a certificate come to the same result on every log.
THEOREM AllReadersAgree == Spec => []ReadersAgree
BY AlwaysSafe, SafeReadersAgree, PTL

\* Two rows that the same was hashed for.
LEMMA SameRow ==
  ASSUME NEW x, NEW y, IsEvent(x), IsEvent(y), AsIssued(AsWritten(x)),
         y.digest = Recomputed(y, y.previous), x.digest = y.digest, x.sequence = y.sequence
  PROVE  AsWritten(x) = AsWritten(y)
<1>1. PICK w : w = AsWritten(x)
  OBVIOUS
<1>2. w = [sequence |-> x.sequence, kind |-> x.kind, version |-> x.version,
           payload |-> Compact(x.payload), previous |-> x.previous, digest |-> x.digest]
  BY <1>1, AsWrittenRow
<1>3. AsIssued(w) /\ w.digest = y.digest
  BY <1>1, <1>2
<1>4. y.previous = w.previous /\ y.version = w.version /\ y.kind = w.kind /\ Compact(y.payload) = "written"
  BY <1>3, DigestsTell
<1>5. w.payload = "written"
  BY <1>3 DEF AsIssued
<1>6. AsWritten(y) = [sequence |-> y.sequence, kind |-> y.kind, version |-> y.version,
                      payload |-> Compact(y.payload), previous |-> y.previous, digest |-> y.digest]
  BY AsWrittenRow
<1>7. w = [sequence |-> y.sequence, kind |-> w.kind, version |-> w.version,
           payload |-> "written", previous |-> w.previous, digest |-> y.digest]
  BY <1>2, <1>5
<1> QED
  BY <1>1, <1>4, <1>6, <1>7

\* Two valid logs that agree on an event agree on the one before it.
LEMMA SameBefore ==
  ASSUME TablesInv, Chained(Log), NEW old, IsLog(old), Chained(old),
         NEW j \in DOMAIN old, j # 1, j \in DOMAIN Log, AsWritten(Log[j]) = AsWritten(old[j])
  PROVE  j - 1 \in DOMAIN old /\ j - 1 \in DOMAIN Log /\ AsWritten(Log[j - 1]) = AsWritten(old[j - 1])
<1>1. IsSeq(old) /\ IsSeq(Log) /\ (\A e \in Range(old) \cup Range(Log) : IsEvent(e))
  BY DEF TablesInv, IsTables, KeepsItsKeys, IsLog, Log
<1>2. /\ Len(old) \in Nat /\ Len(Log) \in Nat /\ DOMAIN old = 1..Len(old) /\ DOMAIN Log = 1..Len(Log)
  BY <1>1, Elements
<1>3. j - 1 \in DOMAIN old /\ j - 1 \in DOMAIN Log /\ j - 1 # 0
  BY <1>2
<1> PICK x : x = Log[j - 1]
  OBVIOUS
<1> PICK y : y = old[j - 1]
  OBVIOUS
<1>4. IsEvent(x) /\ IsEvent(y) /\ IsEvent(Log[j]) /\ IsEvent(old[j])
  BY <1>1, <1>2, <1>3, Elements
<1>5. Log[j].previous = old[j].previous
  <2>1. AsWritten(Log[j]).previous = Log[j].previous /\ AsWritten(old[j]).previous = old[j].previous
    BY <1>4, AsWrittenRow
  <2> QED
    BY <2>1
<1>6. Log[j].previous = x.digest /\ old[j].previous = y.digest
  <2>1. Start(Log, j - 1).previous = x.digest /\ Start(old, j - 1).previous = y.digest
    BY <1>3 DEF Start
  <2> QED
    BY <2>1 DEF Chained, Good
<1>7. AsIssued(AsWritten(x)) /\ x.digest = y.digest /\ y.digest = Recomputed(y, y.previous)
  <2>1. AsWritten(x) \in written
    BY <1>3, ValidIsWritten
  <2> QED
    BY <1>3, <1>5, <1>6, <2>1 DEF TablesInv, Chained, Good
<1>8. x.sequence = y.sequence
  BY <1>1, <1>3, ValidIsNumbered
<1>12. AsWritten(x) = AsWritten(y)
  BY <1>4, <1>7, <1>8, SameRow
<1> QED
  BY <1>3, <1>12

\* A valid log begins with the events that a valid log was sealed with.
LEMMA SealedIsKept ==
  ASSUME TablesInv, Chained(Log), NEW old, IsLog(old), Chained(old), old # <<>>,
         NEW r \in DOMAIN Log, AsWritten(Log[r]) = Last(old), Last(old).payload = "written"
  PROVE  /\ Len(Log) >= Len(old)
         /\ \A i \in DOMAIN old : AsWritten(Log[i]) = AsWritten(old[i])
<1> DEFINE m == Len(old)
           Same(i) == i \in DOMAIN Log /\ AsWritten(Log[i]) = AsWritten(old[i])
           T == {d \in 0..(m - 1) : ~Same(m - d)}
<1>1. IsSeq(old) /\ IsSeq(Log) /\ (\A e \in Range(old) \cup Range(Log) : IsEvent(e))
  BY DEF TablesInv, IsTables, KeepsItsKeys, IsLog, Log
<1>2. /\ m \in Nat \ {0} /\ Len(Log) \in Nat /\ DOMAIN old = 1..m /\ DOMAIN Log = 1..Len(Log)
  BY <1>1, Elements
<1>3. Last(old) = old[m] /\ m \in DOMAIN old
  BY <1>2 DEF Last
<1>4. IsEvent(Log[r]) /\ IsEvent(old[m])
  BY <1>1, <1>2, <1>3, Elements
<1>5. AsWritten(old[m]) = old[m]
  <2>1. PICK e : e = old[m]
    OBVIOUS
  <2>2. e = [sequence |-> e.sequence, kind |-> e.kind, version |-> e.version,
             payload |-> "written", previous |-> e.previous, digest |-> e.digest]
    BY <1>3, <1>4, <2>1 DEF IsEvent
  <2>3. Compact(e.payload) = "written"
    BY <1>3, <2>1 DEF Compact
  <2> QED
    BY <1>4, <2>1, <2>2, <2>3, AsWrittenRow
<1>6. r = m
  <2>1. Log[r].sequence = r /\ old[m].sequence = m
    BY <1>1, <1>3, ValidIsNumbered
  <2>2. AsWritten(Log[r]).sequence = Log[r].sequence
    BY <1>4, AsWrittenRow
  <2> QED
    BY <1>3, <2>1, <2>2
<1>7. Same(m)
  BY <1>3, <1>5, <1>6
<1>8. ASSUME NEW j \in 1..m, j # 1, Same(j) PROVE Same(j - 1)
  BY <1>2, <1>8, SameBefore
<1> HIDE DEF Same
<1>9. ASSUME T # {} PROVE FALSE
  <2>1. T \subseteq Nat
    BY <1>2
  <2>2. PICK d \in T : \A e \in T : d <= e
    <3> HIDE DEF T
    <3> QED
      BY <1>9, <2>1, LeastNumber
  <2>3. d \in 0..(m - 1) /\ ~Same(m - d)
    BY <2>2
  <2> HIDE DEF m
  <2>4. CASE d = 0
    BY <1>2, <1>7, <2>3, <2>4
  <2>5. CASE d # 0
    <3>1. d - 1 \in 0..(m - 1) /\ ~(d <= d - 1) /\ m - (d - 1) \in 1..m /\ m - (d - 1) # 1
          /\ (m - (d - 1)) - 1 = m - d
      BY <1>2, <2>3, <2>5
    <3>2. d - 1 \notin T
      <4> HIDE DEF T
      <4> QED
        BY <2>2, <3>1
    <3>3. Same(m - (d - 1))
      BY <3>1, <3>2
    <3> QED
      BY <1>8, <2>3, <3>1, <3>3
  <2> QED
    BY <2>4, <2>5
<1>10. ASSUME NEW i \in 1..m PROVE Same(i)
  <2>1. m - i \in 0..(m - 1) /\ m - (m - i) = i
    BY <1>2
  <2> HIDE DEF m
  <2>2. m - i \notin T
    BY <1>9
  <2> QED
    BY <2>1, <2>2
<1>11. Len(Log) >= m
  <2>1. m \in 1..Len(Log)
    BY <1>2, <1>7 DEF Same
  <2> QED
    BY <1>2, <2>1
<1> QED
  BY <1>2, <1>10, <1>11 DEF Same

\* A lookup that passes can be trusted in every safe state.
LEMMA SafeLookup == Safe => LookupIsTrustworthy
<1> SUFFICES ASSUME Safe, stored.certificate # NoCertificate,
                    LookupValid(Checks(Log, stored.certificate, stored.released))
             PROVE  LET cert == stored.certificate
                    IN  /\ cert.snapshot = [version |-> Last(sealed).version, text |-> "frozen"]
                        /\ \A i \in DOMAIN Log : AsWritten(Log[i]) \in written
                        /\ \E i \in DOMAIN Log : AsWritten(Log[i]) = Last(sealed)
                        /\ TimelineValid(sealed) =>
                             /\ Len(Log) >= Len(sealed)
                             /\ \A i \in DOMAIN sealed : AsWritten(Log[i]) = AsWritten(sealed[i])
  BY DEF LookupIsTrustworthy
<1> PICK cert : cert = stored.certificate
  OBVIOUS
<1>1. TablesInv /\ stored.released \in BOOLEAN /\ CertificateIfReleased(stored)
  BY DEF Safe, TablesInv, IsTables
<1>2. stored.released = TRUE /\ IsCertificate(cert)
  BY <1>1 DEF CertificateIfReleased
<1>3. SnapshotValid(cert) /\ FirstDamagedSequence(Log) = 0 /\ Anchored(Log, cert)
  BY <1>1, TheChecks
<1>4. Chained(Log)
  BY <1>3, SafeVerdicts
<1>5. /\ IsLog(sealed) /\ sealed # <<>> /\ Last(sealed).version = cert.version
      /\ AsIssued(Last(sealed))
  BY <1>1, <1>2 DEF TablesInv, ReleaseWritten
<1>6. cert.snapshot = [version |-> Last(sealed).version, text |-> "frozen"]
  BY <1>2, <1>3, <1>5 DEF SnapshotValid, IsCertificate, SnapshotDigest
<1>7. \A i \in DOMAIN Log : AsWritten(Log[i]) \in written
  BY <1>1, <1>4, ValidIsWritten
<1>8. PICK r \in Releases(Log) : Log[r].previous = cert.head
  BY <1>3 DEF Anchored
<1>9. r \in DOMAIN Log /\ AsWritten(Log[r]) = Last(sealed)
  BY <1>1, <1>4, <1>8, ValidReleases DEF Releases
<1>10. ASSUME TimelineValid(sealed)
       PROVE  /\ Len(Log) >= Len(sealed)
              /\ \A i \in DOMAIN sealed : AsWritten(Log[i]) = AsWritten(sealed[i])
  <2>1. IsSeq(sealed) /\ \A i \in DOMAIN sealed : sealed[i].sequence \in Nat
    BY <1>5, Elements, EventTypes DEF IsLog
  <2>2. Chained(sealed)
    BY <1>10, <2>1, ValidIsChained
  <2>3. Last(sealed).payload = "written"
    BY <1>5 DEF AsIssued
  <2> QED
    BY <1>1, <1>4, <1>5, <1>9, <2>2, <2>3, SealedIsKept
<1> QED
  BY <1>6, <1>7, <1>9, <1>10

\* A lookup that finds everything valid shows what was written: however many rows
\* were damaged and whatever became of them, no other log passes the five checks.
THEOREM LookupsAreTrustworthy == Spec => []LookupIsTrustworthy
BY AlwaysSafe, SafeLookup, PTL
=============================================================================
