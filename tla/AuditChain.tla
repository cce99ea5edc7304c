----------------------------- MODULE AuditChain -----------------------------
(***************************************************************************)
(* The audit log of one case as a chain of digests, and what the readers   *)
(* of the log compute from it.  The code has the loop over the chain four  *)
(* times: for a view of the case, for the lookup of a certificate, for the *)
(* integrity report that may start at a breakpoint, and in package audit.  *)
(* A digest is the tuple of what is hashed: two digests are the same       *)
(* exactly when the same was hashed.  Neither the number nor the time of   *)
(* an event is hashed.  Positions count from 1; from is the number of      *)
(* events left out.                                                        *)
(***************************************************************************)
EXTENDS Integers, SequencesExt

NoDigest == <<>>                \* the previous digest of the first event
EmptyDigest == <<"empty">>      \* of no bytes at all
Garbled == <<"garbled">>        \* a digest that is not the hash of anything

\* json.Marshal of a raw message drops its white space.
Compact(payload) == IF payload = "respelled" THEN "written" ELSE payload

\* Variant: the version is not part of what is hashed.
EventDigestOfKind(previous, version, kind, payload) == <<previous, kind, Compact(payload)>>

\* A payload that is not JSON makes json.Marshal fail; the error is dropped.
EventDigest(previous, version, kind, payload) ==
  IF payload = "invalid" THEN EmptyDigest
  ELSE <<previous, version, kind, Compact(payload)>>

SnapshotDigest(snapshot) == <<"snapshot", snapshot>>

-----------------------------------------------------------------------------
(* The loop over the chain.  It carries the digest and the number of the   *)
(* event before, and stops at the first event it does not accept.          *)

\* Variant: with a breakpoint the number of the event before is not taken over.
StartUnnumbered(events, from) ==
  [previous |-> IF from = 0 THEN NoDigest ELSE events[from].digest, sequence |-> 0, damaged |-> 0]

Start(events, from) ==
  IF from = 0 THEN [previous |-> NoDigest, sequence |-> 0, damaged |-> 0]
  ELSE [previous |-> events[from].digest, sequence |-> events[from].sequence, damaged |-> 0]

Loop(events, from, Accepts(_, _, _)) ==
  LET run[i \in 0..Len(events)] ==
        IF i <= from THEN Start(events, from)
        ELSE IF run[i - 1].damaged # 0 THEN run[i - 1]
        ELSE IF Accepts(events, i, run[i - 1])
             THEN [previous |-> events[i].digest, sequence |-> events[i].sequence, damaged |-> 0]
             ELSE [run[i - 1] EXCEPT !.damaged = i]
  IN  run[Len(events)]

Recomputed(e, previous) == EventDigest(previous, e.version, e.kind, e.payload)

\* Variant: the numbers are not looked at.
TimelineByDigest(events, i, run) ==
  /\ events[i].previous = run.previous
  /\ events[i].digest = Recomputed(events[i], run.previous)

\* verifyTimeline.
TimelineAccepts(events, i, run) ==
  /\ events[i].previous = run.previous
  /\ i = 1 => events[i].sequence = 1
  /\ i > 1 => events[i].sequence = run.sequence + 1
  /\ events[i].digest = Recomputed(events[i], run.previous)

\* verifyTimelineDetailed and VerifyIntegrity.
ReportAccepts(events, i, run) ==
  /\ \/ i = 1 /\ events[i].sequence = 1
     \/ i > 1 /\ events[i].sequence = run.sequence + 1
  /\ events[i].previous = run.previous
  /\ events[i].digest = Recomputed(events[i], run.previous)

\* audit.VerifyChain: the number of the event before is read again.
ChainAccepts(events, i, run) ==
  /\ i = 1 => events[i].sequence = 1
  /\ events[i].previous = run.previous
  /\ events[i].digest = Recomputed(events[i], run.previous)
  /\ i > 1 => events[i].sequence = events[i - 1].sequence + 1

-----------------------------------------------------------------------------
(* What is reported: a position or number of the first damage, or 0.       *)

TimelineValid(events) == Loop(events, 0, TimelineAccepts).damaged = 0

VerifyChain(events, from) == Loop(events, from, ChainAccepts).damaged

FirstDamagedIndex(events, from) == Loop(events, from, ReportAccepts).damaged

\* An event whose number was lost is reported under the number it should have.
FirstDamagedSequence(events) ==
  LET run == Loop(events, 0, ReportAccepts)
  IN  IF run.damaged = 0 THEN 0
      ELSE IF events[run.damaged].sequence = 0 THEN run.sequence + 1
      ELSE events[run.damaged].sequence

-----------------------------------------------------------------------------
(* Certificates: [version, digest, head, snapshot], head being the digest  *)
(* of the last event before the release.                                   *)

Releases(events) == {i \in DOMAIN events : events[i].kind = "CASE_RELEASED"}

SnapshotValid(cert) == SnapshotDigest(cert.snapshot) = cert.digest

Anchored(events, cert) == \E i \in Releases(events) : events[i].previous = cert.head

\* Variant: the chain is left to the other readers.
CertificateOfSnapshot(events, cert) == SnapshotValid(cert) /\ Anchored(events, cert)

\* VerifyCertificate: the first release event decides.
CertificateValid(events, cert) ==
  /\ TimelineValid(events)
  /\ SnapshotValid(cert)
  /\ Releases(events) # {}
  /\ events[Min(Releases(events))].previous = cert.head

\* LookupCertificate: the five checks.
Checks(events, cert, released) ==
  [snapshot |-> SnapshotValid(cert),
   chain    |-> FirstDamagedSequence(events) = 0,
   anchor   |-> Anchored(events, cert),
   version  |-> cert.snapshot.version = cert.version,
   status   |-> released]

LookupValid(checks) == \A check \in DOMAIN checks : checks[check]

\* VerifyIntegrity, what it says of a certificate.
IntegrityValid(events, cert) ==
  FirstDamagedIndex(events, 0) = 0 /\ SnapshotValid(cert) /\ Anchored(events, cert)
=============================================================================
