------------------------------ MODULE CaseLedger ------------------------------
(***************************************************************************)
(* What the service promises its clients: a case is a register with a      *)
(* version, and a write is carried out at most once, at exactly the        *)
(* version its sender had in mind.  Transactions, retries, crashes, the    *)
(* audit log and certificates are left to RiggingService.                  *)
(***************************************************************************)
EXTENDS Naturals

CONSTANTS
  CaseIds,
  Requests,     \* [scope, key, expected, ...]: scope is a case or Create
  Create        \* the scope of requests that make a case

VARIABLES
  version,      \* version[c] of each case, 0 until it is created
  frozen,       \* the cases that were released
  accepted      \* the requests carried out, each with the version it left

Slot(r) == <<r.scope, r.key>>

Unused(r) == \A a \in accepted : Slot(a.request) # Slot(r)

Init ==
  /\ version = [c \in CaseIds |-> 0]
  /\ frozen = {}
  /\ accepted = {}

Open(r, c) ==
  /\ r.scope = Create
  /\ Unused(r)
  /\ version[c] = 0
  /\ version' = [version EXCEPT ![c] = 1]
  /\ accepted' = accepted \cup {[request |-> r, case |-> c, version |-> 1]}
  /\ UNCHANGED frozen

\* A write advances the version by one, or not at all if it changes nothing.
Write(r, c) ==
  /\ r.scope = c
  /\ Unused(r)
  /\ version[c] > 0
  /\ version[c] = r.expected
  /\ c \notin frozen
  /\ \/ version' = [version EXCEPT ![c] = @ + 1]
     \/ version' = version
  /\ frozen' \in {frozen, frozen \cup {c}}
  /\ accepted' = accepted \cup {[request |-> r, case |-> c, version |-> version'[c]]}

Next == \E r \in Requests, c \in CaseIds : Open(r, c) \/ Write(r, c)

Spec == Init /\ [][Next]_<<version, frozen, accepted>>
=============================================================================
