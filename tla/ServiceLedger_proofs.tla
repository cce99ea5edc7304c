--------------------------- MODULE ServiceLedger_proofs ---------------------------
(***************************************************************************)
(* Theorems about RiggingService that relate its tables to each other: it  *)
(* implements CaseLedger, every version has its one request, certificates  *)
(* stay true, no write is based on a view of several versions, and the     *)
(* audit log of a case has one event for every request that was carried    *)
(* out and one for every batch that became stale, in the order of the      *)
(* versions.                                                               *)
(***************************************************************************)
EXTENDS RiggingService_proofs

-----------------------------------------------------------------------------
(* The refinement.                                                         *)

Versions == [c \in CaseIds |-> db.row[c].version]

Frozen == {c \in CaseIds : db.row[c].released}

Entry(k) ==
  [request |-> RequestOf(k), case |-> k.answer.case, version |-> k.answer.row.version]

Accepted == {Entry(k) : k \in db.records}

\* The register and the list of accepted requests after a request is carried out.
LEMMA LedgerEntries ==
  ASSUME db \in Databases, NEW r \in Requests, NEW c \in CaseIds, NEW row \in Rows,
         ~db.row[c].released, Executed(r, c, row)
  PROVE  /\ Versions' = [Versions EXCEPT ![c] = row.version]
         /\ Frozen' \in {Frozen, Frozen \cup {c}}
         /\ (~row.released) => Frozen' = Frozen
         /\ Accepted' = Accepted \cup {[request |-> r, case |-> c, version |-> row.version]}
         /\ \A a \in Accepted : <<a.request.scope, a.request.key>> # <<r.scope, r.key>>
<1>1. /\ GetIdempotency(db, r) = {}
      /\ tx.answer.case = c /\ tx.answer.row = row
      /\ db'.row = [db.row EXCEPT ![c] = row]
      /\ db'.records = db.records \cup {RecordOf(r, tx.answer)}
  BY DEF Executed, CarriesOut
<1>2. db'.row[c] = row /\ \A x \in CaseIds : x # c => db'.row[x] = db.row[x]
  BY <1>1 DEF Databases
<1>3. Versions' = [Versions EXCEPT ![c] = row.version]
  BY <1>2 DEF Versions
<1>4. Frozen' = IF row.released THEN Frozen \cup {c} ELSE Frozen
  BY <1>2 DEF Frozen
<1>5. Accepted' = Accepted \cup {[request |-> r, case |-> c, version |-> row.version]}
  <2>1. Entry(RecordOf(r, tx.answer)) = [request |-> r, case |-> c, version |-> row.version]
    <3>1. RecordOf(r, tx.answer).answer = tx.answer
      BY DEF RecordOf
    <3> QED
      BY <1>1, <3>1, RequestOfRecord DEF Entry
  <2>2. Accepted' = Accepted \cup {Entry(RecordOf(r, tx.answer))}
    BY <1>1 DEF Accepted, Entry, RequestOf
  <2> QED
    BY <2>1, <2>2
<1>6. ASSUME NEW a \in Accepted PROVE <<a.request.scope, a.request.key>> # <<r.scope, r.key>>
  <2>1. PICK k \in db.records : a = Entry(k)
    BY DEF Accepted
  <2>2. a.request.scope = k.scope /\ a.request.key = k.key
    BY <2>1 DEF Entry, RequestOf
  <2>3. ~(k.scope = r.scope /\ k.key = r.key)
    BY <1>1, <2>1 DEF GetIdempotency
  <2> QED
    BY <2>2, <2>3
<1> QED
  BY <1>3, <1>4, <1>5, <1>6

\* No request is carried out on a released case.
LEMMA OnlyTheLiving ==
  ASSUME ServiceInv, NEW r \in Requests, NEW c \in CaseIds, NEW row \in Rows,
         Executed(r, c, row)
  PROVE  ~db.row[c].released
<1>1. CASE CarriesOutWrite(db', r, c, row)
  BY <1>1 DEF CarriesOutWrite
<1>2. CASE CarriesOutCreate(db', r, c, row)
  <2>1. ~Exists(db, c)
    BY <1>2 DEF CarriesOutCreate
  <2> QED
    BY <2>1 DEF ServiceInv, Grounded
<1> QED
  BY <1>1, <1>2 DEF Executed

\* A request carried out is one step of the ledger.
LEMMA ExecutionIsLedgerStep ==
  ASSUME ServiceInv, NEW r \in Requests, NEW c \in CaseIds, NEW row \in Rows,
         Executed(r, c, row)
  PROVE  Ledger!Next
<1>0. db \in Databases /\ ~db.row[c].released
  BY OnlyTheLiving DEF ServiceInv, Typed
<1>1. /\ Versions' = [Versions EXCEPT ![c] = row.version]
      /\ Frozen' \in {Frozen, Frozen \cup {c}}
      /\ (~row.released) => Frozen' = Frozen
      /\ Accepted' = Accepted \cup {[request |-> r, case |-> c, version |-> row.version]}
      /\ \A a \in Accepted : <<a.request.scope, a.request.key>> # <<r.scope, r.key>>
  BY <1>0, LedgerEntries
<1>2. Versions[c] = db.row[c].version /\ Versions \in [CaseIds -> Nat]
  BY <1>0, ServiceAssumption DEF Versions, Databases, Rows
<1>3. CASE CarriesOutCreate(db', r, c, row)
  <2>1. /\ r.scope = Create /\ db.row[c].version = 0
        /\ row.version = 1 /\ row.released = FALSE
    BY <1>2, <1>3 DEF CarriesOutCreate, Exists
  <2>2. Ledger!Open(r, c)
    BY <1>1, <1>2, <2>1
       DEF Ledger!Open, Ledger!Unused, Ledger!Slot, Versions, Frozen, Accepted, Entry
  <2> QED
    BY <2>2 DEF Ledger!Next
<1>4. CASE CarriesOutWrite(db', r, c, row)
  <2>1. /\ r.scope = c /\ Versions[c] > 0 /\ Versions[c] = r.expected
        /\ row.version = Versions[c] \/ row.version = Versions[c] + 1
    BY <1>2, <1>4 DEF CarriesOutWrite, Exists, ExpectedVersion
  <2>2. c \notin Frozen
    BY <1>0 DEF Frozen
  <2>3. Versions'[c] = row.version
    BY <1>1, <1>2
  <2>4. Versions' = [Versions EXCEPT ![c] = @ + 1] \/ Versions' = Versions
    BY <1>1, <1>2, <2>1
  <2>5. Ledger!Write(r, c)
    BY <1>1, <2>1, <2>2, <2>3, <2>4
       DEF Ledger!Write, Ledger!Unused, Ledger!Slot, Versions, Frozen, Accepted, Entry
  <2> QED
    BY <2>5 DEF Ledger!Next
<1> QED
  BY <1>3, <1>4 DEF Executed

\* With retries, lost answers, crashes and readers, the service is a ledger: a
\* request is carried out at most once, at the version its sender had in mind.
THEOREM ServiceImplementsLedger == Spec => LedgerSpec
<1>1. Init => Ledger!Init
  <2> SUFFICES ASSUME Init PROVE Ledger!Init
    OBVIOUS
  <2>1. \A c \in CaseIds : db.row[c].version = 0 /\ db.row[c].released = FALSE
    BY DEF Init, NoRow
  <2>2. db.records = {}
    BY DEF Init
  <2> QED
    BY <2>1, <2>2 DEF Ledger!Init
<1>2. ServiceInv /\ [Next]_vars => [Ledger!Next]_<<Versions, Frozen, Accepted>>
  <2> SUFFICES ASSUME ServiceInv, [Next]_vars
               PROVE  Ledger!Next \/ UNCHANGED <<Versions, Frozen, Accepted>>
    OBVIOUS
  <2>1. CASE UNCHANGED <<db, answers>>
    BY <2>1 DEF Versions, Frozen, Accepted, Entry, RequestOf
  <2>2. CASE LogsOnly(db')
    BY <2>2 DEF LogsOnly, Versions, Frozen, Accepted, Entry, RequestOf
  <2>3. CASE \E r \in Requests, c \in CaseIds, row \in Rows : Executed(r, c, row)
    BY <2>3, ExecutionIsLedgerStep
  <2> QED
    BY <2>1, <2>2, <2>3, OnlyCommitsCount, CommitCases
<1>3. [Ledger!Next]_<<Versions, Frozen, Accepted>>
        => [Ledger!Next]_<<[c \in CaseIds |-> db.row[c].version],
                           {c \in CaseIds : db.row[c].released},
                           {[request |-> RequestOf(k), case |-> k.answer.case,
                             version |-> k.answer.row.version] : k \in db.records}>>
  BY DEF Versions, Frozen, Accepted, Entry
<1> QED
  BY <1>1, <1>2, <1>3, ServiceInvariant, PTL DEF Spec, LedgerSpec, Ledger!Spec

-----------------------------------------------------------------------------
(* Views.                                                                  *)

\* Versions only go up.
LEMMA VersionsGoUp ==
  ASSUME ServiceInv, [Next]_vars, NEW c \in CaseIds
  PROVE  db.row[c].version \in Nat /\ db'.row[c].version >= db.row[c].version
<1>0. db \in Databases /\ \A x \in CaseIds : db.row[x].version \in Nat
  BY ServiceAssumption DEF ServiceInv, Typed, Databases, Rows
<1>1. CASE UNCHANGED <<db, answers>>
  BY <1>0, <1>1
<1>2. CASE LogsOnly(db')
  BY <1>0, <1>2 DEF LogsOnly
<1>3. ASSUME NEW r \in Requests, NEW x \in CaseIds, NEW row \in Rows, Executed(r, x, row),
             db' \in Databases
      PROVE  db'.row[c].version >= db.row[c].version
  BY <1>0, <1>3, RowsAfter DEF Executed, CarriesOut
<1> QED
  BY <1>0, <1>1, <1>2, <1>3, OnlyCommitsCount, CommitCases

\* The versions a step leaves are numbers.
LEMMA NextVersions ==
  ASSUME ServiceInv, [Next]_vars
  PROVE  \A x \in CaseIds : db'.row[x].version \in Nat
<1>1. db \in Databases
  BY DEF ServiceInv, Typed
<1>2. db' \in Databases
  BY <1>1, OnlyCommitsCount, CommitCases
<1> QED
  BY <1>2, ServiceAssumption DEF Databases, Rows

\* What a view has seen was read in the order of the versions, and nothing of it
\* is newer than the case.
SeenInOrder ==
  \A rd \in Readers : views[rd] # None =>
    \A i \in DOMAIN views[rd].seen :
      /\ views[rd].seen[i] <= db.row[views[rd].case].version
      /\ \A j \in DOMAIN views[rd].seen : i <= j => views[rd].seen[i] <= views[rd].seen[j]

\* Views see versions in order, in every behaviour.
LEMMA ViewsSeeInOrder == Spec => []SeenInOrder
<1>1. Init => SeenInOrder
  BY DEF Init, SeenInOrder
<1>2. ServiceInv /\ SeenInOrder /\ [Next]_vars => SeenInOrder'
  <2> SUFFICES ASSUME ServiceInv, SeenInOrder, [Next]_vars,
                      NEW rd \in Readers, views'[rd] # None
               PROVE  \A i \in DOMAIN views'[rd].seen :
                        /\ views'[rd].seen[i] <= db'.row[views'[rd].case].version
                        /\ \A j \in DOMAIN views'[rd].seen :
                             i <= j => views'[rd].seen[i] <= views'[rd].seen[j]
    BY DEF SeenInOrder
  <2>0. /\ views \in [Readers -> Views \cup {None}]
        /\ \A x \in CaseIds : db.row[x].version \in Nat /\ db'.row[x].version >= db.row[x].version
        /\ \A x \in CaseIds : db'.row[x].version \in Int
    BY VersionsGoUp, NextVersions DEF ServiceInv, Typed
  <2>1. CASE views'[rd] = views[rd]
    <3>1. views[rd] # None /\ views[rd] \in Views
      BY <2>0, <2>1
    <3>2. views[rd].seen \in Seq(Nat) /\ views[rd].case \in CaseIds
      BY <3>1, ServiceAssumption DEF Views
    <3>3. \A i \in DOMAIN views[rd].seen :
            /\ views[rd].seen[i] <= db.row[views[rd].case].version
            /\ \A j \in DOMAIN views[rd].seen : i <= j => views[rd].seen[i] <= views[rd].seen[j]
      BY <3>1 DEF SeenInOrder
    <3> DEFINE log == views[rd].seen
               new == db'.row[views[rd].case].version
    <3>4. /\ new \in Int /\ db.row[views[rd].case].version <= new
          /\ db.row[views[rd].case].version \in Int
      BY <2>0, <3>2
    <3>5. \A i \in DOMAIN log : log[i] <= new /\ log[i] \in Int
      BY <3>2, <3>3, <3>4
    <3> HIDE DEF new
    <3> QED
      BY <2>1, <3>3, <3>5 DEF new
  <2>2. CASE Query(rd)
    <3>1. /\ views[rd] # None /\ views[rd] \in Views /\ db' = db
          /\ views'[rd] = [views[rd] EXCEPT !.seen = Append(@, db.row[views[rd].case].version)]
      BY <2>0, <2>2 DEF Query
    <3> DEFINE log == views[rd].seen
               new == db.row[views[rd].case].version
    <3>2. log \in Seq(Nat) /\ views[rd].case \in CaseIds /\ new \in Nat
      BY <2>0, <3>1, ServiceAssumption DEF Views
    <3>3. views'[rd].seen = Append(log, new) /\ views'[rd].case = views[rd].case
      BY <3>1 DEF Views
    <3>4. \A i \in DOMAIN log : log[i] <= new /\ \A j \in DOMAIN log : i <= j => log[i] <= log[j]
      BY <3>1 DEF SeenInOrder
    <3>5. db'.row[views'[rd].case].version = new
      BY <3>1, <3>3
    <3> HIDE DEF log, new
    <3>6. \A i \in DOMAIN Append(log, new) :
            /\ Append(log, new)[i] <= new
            /\ \A j \in DOMAIN Append(log, new) : i <= j => Append(log, new)[i] <= Append(log, new)[j]
      BY <3>2, <3>4
    <3> QED
      BY <3>3, <3>5, <3>6
  <2>3. CASE \E c \in CaseIds : BeginView(rd, c)
    <3>1. views'[rd].seen = <<>>
      BY <2>0, <2>3 DEF BeginView
    <3> QED
      BY <3>1
  <2>4. views'[rd] = views[rd] \/ Query(rd) \/ \E c \in CaseIds : BeginView(rd, c)
    BY <2>0 DEF Next, vars, BeginKnown, BeginCreate, BeginOutdated, BeginWrite, Commit, Abort, Query,
       BeginView
  <2> QED
    BY <2>1, <2>2, <2>3, <2>4
<1> QED
  BY <1>1, <1>2, ServiceInvariant, PTL DEF Spec

\* A view put together from several versions shows an old version as its own, so
\* that every write based on it is refused.
THEOREM TornViewsAreRefused == Spec => []NoWriteFromTornView
<1>1. ServiceInv /\ SeenInOrder => NoWriteFromTornView
  <2> SUFFICES ASSUME ServiceInv, SeenInOrder, NEW rd \in Readers, views[rd] # None,
                      Len(views[rd].seen) = Len(Queries)
               PROVE  LET seen == views[rd].seen
                          shown == CHOOSE i \in DOMAIN Queries : Queries[i] = "row"
                      IN  seen[shown] = db.row[views[rd].case].version
                            => \A i \in DOMAIN seen : seen[i] = seen[shown]
    BY DEF NoWriteFromTornView
  <2> DEFINE seen == views[rd].seen
  <2>1. (CHOOSE i \in DOMAIN Queries : Queries[i] = "row") = 1
    <3>1. \A i \in DOMAIN Queries : Queries[i] = "row" <=> i = 1
      BY DEF Queries
    <3>2. 1 \in DOMAIN Queries
      BY DEF Queries
    <3> QED
      BY <3>1, <3>2
  <2>2. seen \in Seq(Nat) /\ Len(seen) = 3 /\ db.row[views[rd].case].version \in Nat
    <3>1. views[rd] \in Views /\ db \in Databases
      BY DEF ServiceInv, Typed
    <3>2. seen \in Seq(Nat) /\ views[rd].case \in CaseIds
      BY <3>1, ServiceAssumption DEF Views
    <3> QED
      BY <3>1, <3>2, ServiceAssumption DEF Queries, Databases, Rows
  <2>3. \A i \in DOMAIN seen :
          /\ seen[i] <= db.row[views[rd].case].version
          /\ \A j \in DOMAIN seen : i <= j => seen[i] <= seen[j]
    BY DEF SeenInOrder
  <2> HIDE DEF seen
  <2>4. seen[1] = db.row[views[rd].case].version => \A i \in DOMAIN seen : seen[i] = seen[1]
    <3> SUFFICES ASSUME seen[1] = db.row[views[rd].case].version, NEW i \in DOMAIN seen
                 PROVE  seen[i] = seen[1]
      OBVIOUS
    <3>1. 1 \in DOMAIN seen /\ i \in Nat /\ 1 <= i /\ seen[i] \in Nat /\ seen[1] \in Nat
      <4>1. seen \in Seq(Nat) /\ Len(seen) = 3
        BY <2>2
      <4>2. DOMAIN seen = 1..3
        BY <4>1
      <4>3. 1 \in DOMAIN seen /\ i \in Nat /\ 1 <= i
        BY <4>2
      <4>4. \A s \in Seq(Nat) : \A j \in DOMAIN s : s[j] \in Nat
        OBVIOUS
      <4>5. seen[1] \in Nat /\ seen[i] \in Nat
        BY <4>1, <4>3, <4>4
      <4> QED
        BY <4>3, <4>5
    <3>2. seen[i] <= db.row[views[rd].case].version /\ seen[1] <= seen[i]
      BY <2>3, <3>1
    <3> QED
      BY <2>2, <3>1, <3>2
  <2> QED
    BY <2>1, <2>4 DEF seen
<1> QED
  BY <1>1, ServiceInvariant, ViewsSeeInOrder, PTL

-----------------------------------------------------------------------------
(* Requests and versions.                                                  *)

\* The records of requests that made version v of case c out of the one before.
Makers(c, v) ==
  {k \in db.records : k.scope = c /\ k.answer.row.version = v /\ k.fingerprint[2] = v - 1}

\* No record of a case is about a version it has not reached, and each version has
\* one record.
VersionsHaveMakers ==
  \A c \in CaseIds :
    /\ \A k \in db.records : k.scope = c =>
         /\ k.answer.row.version \in {k.fingerprint[2], k.fingerprint[2] + 1}
         /\ k.answer.row.version <= db.row[c].version
    /\ \A v \in 2..db.row[c].version : \E k \in db.records : Makers(c, v) = {k}

\* A request carried out is the maker of the version it leaves, and of no other.
LEMMA ExecutedKeepsMakers ==
  ASSUME ServiceInv, VersionsHaveMakers, db' \in Databases,
         NEW r \in Requests, NEW c \in CaseIds, NEW row \in Rows, Executed(r, c, row),
         NEW x \in CaseIds
  PROVE  /\ \A k \in db'.records : k.scope = x =>
              /\ k.answer.row.version \in {k.fingerprint[2], k.fingerprint[2] + 1}
              /\ k.answer.row.version <= db'.row[x].version
         /\ \A v \in 2..db'.row[x].version : \E k \in db'.records : Makers(x, v)' = {k}
<1> DEFINE new == RecordOf(r, tx.answer)
<1>0. db \in Databases
  BY DEF ServiceInv, Typed
<1>1. /\ db'.records = db.records \cup {new}
      /\ db'.row[c] = row /\ \A y \in CaseIds : y # c => db'.row[y] = db.row[y]
      /\ tx.answer.row = row
  BY <1>0 DEF Executed, CarriesOut, Databases
<1>2. new.scope = r.scope /\ new.answer.row = row /\ new.fingerprint[2] = r.expected
  BY <1>1 DEF RecordOf, Fingerprint
<1>3. \A k \in db.records : k.answer.row.version \in Nat /\ k.fingerprint[2] \in Nat
  <2>1. ASSUME NEW k \in db.records
        PROVE  /\ k.answer \in Answers
               /\ k.fingerprint \in Keys \X (0..MaxVersion) \X Bodies
    BY <1>0 DEF Databases, Records
  <2>2. ASSUME NEW f \in Keys \X (0..MaxVersion) \X Bodies PROVE f[2] \in Nat
    BY ServiceAssumption
  <2>3. ASSUME NEW a \in Answers PROVE a.row.version \in Nat
    BY ServiceAssumption DEF Answers, Rows
  <2> QED
    BY <2>1, <2>2, <2>3
<1>4. \A y \in CaseIds : db.row[y].version \in Nat /\ db'.row[y].version \in Nat
  <2>1. \A d \in Databases : \A y \in CaseIds : d.row[y].version \in Nat
    BY ServiceAssumption DEF Databases, Rows
  <2> QED
    BY <1>0, <2>1
<1>5. /\ \A k \in db.records : k.scope = x =>
           /\ k.answer.row.version \in {k.fingerprint[2], k.fingerprint[2] + 1}
           /\ k.answer.row.version <= db.row[x].version
      /\ \A v \in 2..db.row[x].version : \E k \in db.records : Makers(x, v) = {k}
  BY DEF VersionsHaveMakers
<1> HIDE DEF new
<1>6. ASSUME new.scope # x, db'.row[x].version = db.row[x].version \/ db'.row[x].version = 1
      PROVE  /\ \A k \in db'.records : k.scope = x =>
                  /\ k.answer.row.version \in {k.fingerprint[2], k.fingerprint[2] + 1}
                  /\ k.answer.row.version <= db.row[x].version
             /\ \A v \in 2..db'.row[x].version : \E k \in db'.records : Makers(x, v)' = {k}
  <2>1. \A v : Makers(x, v)' = Makers(x, v)
    BY <1>1, <1>6 DEF Makers
  <2>2. \A v \in 2..db'.row[x].version : v \in 2..db.row[x].version
    BY <1>4, <1>6
  <2> QED
    BY <1>1, <1>5, <1>6, <2>1, <2>2
<1>7. CASE CarriesOutCreate(db', r, c, row)
  <2>1. /\ new.scope = Create /\ row.version = 1 /\ db.row[c].version = 0
    BY <1>2, <1>4, <1>7 DEF CarriesOutCreate, Exists
  <2>2. new.scope # x
    BY <2>1, ServiceAssumption
  <2>3. /\ db'.row[x].version = db.row[x].version \/ db'.row[x].version = 1
        /\ db'.row[x].version >= db.row[x].version
    BY <1>1, <1>4, <2>1
  <2>4. /\ \A k \in db'.records : k.scope = x =>
             /\ k.answer.row.version \in {k.fingerprint[2], k.fingerprint[2] + 1}
             /\ k.answer.row.version <= db.row[x].version
        /\ \A v \in 2..db'.row[x].version : \E k \in db'.records : Makers(x, v)' = {k}
    BY <1>6, <2>2, <2>3
  <2>5. \A k \in db'.records : k.scope = x => k.answer.row.version \in Nat
    BY <1>1, <1>3, <2>2
  <2> QED
    BY <1>4, <2>3, <2>4, <2>5
<1>8. CASE CarriesOutWrite(db', r, c, row)
  <2>1. /\ r.scope = c /\ r.expected = db.row[c].version
        /\ row.version = db.row[c].version \/ row.version = db.row[c].version + 1
    BY <1>8 DEF CarriesOutWrite, ExpectedVersion
  <2>2. CASE x # c
    <3>1. new.scope # x /\ db'.row[x].version = db.row[x].version
      BY <1>1, <1>2, <2>1, <2>2
    <3> QED
      BY <1>6, <3>1
  <2>3. CASE x = c
    <3>0. /\ new.scope = x /\ new.answer.row.version = row.version
          /\ new.fingerprint[2] = db.row[x].version
          /\ db'.row[x].version = row.version
          /\ row.version = db.row[x].version \/ row.version = db.row[x].version + 1
      BY <1>1, <1>2, <2>1, <2>3
    <3>1. \A k \in db'.records : k.scope = x =>
             /\ k.answer.row.version \in {k.fingerprint[2], k.fingerprint[2] + 1}
             /\ k.answer.row.version <= db'.row[x].version
      BY <1>1, <1>3, <1>4, <1>5, <3>0
    <3>2. ASSUME NEW v \in 2..db'.row[x].version
          PROVE  \E k \in db'.records : Makers(x, v)' = {k}
      <4>1. CASE v \in 2..db.row[x].version
        <5>1. ~(new.answer.row.version = v /\ new.fingerprint[2] = v - 1)
          BY <1>4, <3>0, <4>1
        <5>2. Makers(x, v)' = Makers(x, v)
          BY <1>1, <5>1 DEF Makers
        <5> QED
          BY <1>1, <1>5, <4>1, <5>2
      <4>2. CASE v \notin 2..db.row[x].version
        <5>1. v = row.version /\ row.version = db.row[x].version + 1
          BY <1>4, <3>0, <4>2
        <5>2. Makers(x, v) = {}
          BY <1>3, <1>4, <1>5, <5>1 DEF Makers
        <5>3. new.fingerprint[2] = v - 1
          BY <1>4, <3>0, <5>1
        <5>4. Makers(x, v)' = {new}
          BY <1>1, <3>0, <5>1, <5>2, <5>3 DEF Makers
        <5> QED
          BY <1>1, <5>4
      <4> QED
        BY <4>1, <4>2
    <3> QED
      BY <3>1, <3>2
  <2> QED
    BY <2>2, <2>3
<1> QED
  BY <1>7, <1>8 DEF Executed

\* Each version of a case but the first was made by one recorded request, which
\* expected the version before: two writes from one version never both count.
THEOREM EachVersionHasItsRequest == Spec => []OneRequestPerVersion
<1>1. Init => VersionsHaveMakers
  <2> SUFFICES ASSUME Init PROVE VersionsHaveMakers
    OBVIOUS
  <2>1. db.records = {} /\ \A c \in CaseIds : db.row[c].version = 0
    BY DEF Init, NoRow
  <2> QED
    BY <2>1 DEF VersionsHaveMakers
<1>2. ServiceInv /\ VersionsHaveMakers /\ [Next]_vars => VersionsHaveMakers'
  <2> SUFFICES ASSUME ServiceInv, VersionsHaveMakers, [Next]_vars PROVE VersionsHaveMakers'
    OBVIOUS
  <2>1. CASE UNCHANGED <<db, answers>>
    BY <2>1 DEF VersionsHaveMakers, Makers
  <2>2. CASE LogsOnly(db')
    BY <2>2 DEF LogsOnly, VersionsHaveMakers, Makers
  <2>3. ASSUME NEW r \in Requests, NEW c \in CaseIds, NEW row \in Rows, Executed(r, c, row),
               db' \in Databases
        PROVE  VersionsHaveMakers'
    BY <2>3, ExecutedKeepsMakers DEF VersionsHaveMakers
  <2> QED
    BY <2>1, <2>2, <2>3, OnlyCommitsCount, CommitCases
<1>3. VersionsHaveMakers => OneRequestPerVersion
  <2> SUFFICES ASSUME VersionsHaveMakers, NEW c \in CaseIds
               PROVE  /\ \A v \in 2..db.row[c].version : Cardinality(Makers(c, v)) = 1
                      /\ \A k \in db.records : k.scope = c =>
                           k.answer.row.version \in {k.fingerprint[2], k.fingerprint[2] + 1}
    BY DEF OneRequestPerVersion, Makers
  <2>1. ASSUME NEW v \in 2..db.row[c].version PROVE Cardinality(Makers(c, v)) = 1
    <3>1. PICK k \in db.records : Makers(c, v) = {k}
      BY DEF VersionsHaveMakers
    <3> QED
      BY <3>1, FS_Singleton
  <2> QED
    BY <2>1 DEF VersionsHaveMakers
<1> QED
  BY <1>1, <1>2, <1>3, ServiceInvariant, PTL DEF Spec

-----------------------------------------------------------------------------
(* Certificates.                                                           *)

Releases(log) == {i \in DOMAIN log : log[i].kind = "CASE_RELEASED"}

\* The release events of a log after one event more.
LEMMA ReleasesAfterAppend ==
  ASSUME NEW log \in Seq(Events), NEW e \in Events
  PROVE  /\ Releases(Append(log, e))
              = IF e.kind = "CASE_RELEASED" THEN Releases(log) \cup {Len(log) + 1} ELSE Releases(log)
         /\ \A i \in Releases(log) : Append(log, e)[i] = log[i]
         /\ Append(log, e)[Len(log) + 1] = e
         /\ Append(log, e) \in Seq(Events)
<1>1. /\ DOMAIN Append(log, e) = DOMAIN log \cup {Len(log) + 1}
      /\ \A i \in DOMAIN log : Append(log, e)[i] = log[i]
      /\ Append(log, e)[Len(log) + 1] = e
      /\ Append(log, e) \in Seq(Events)
  OBVIOUS
<1> QED
  BY <1>1 DEF Releases

\* The release events of a case are what they were.
SameReleases(c) ==
  /\ Releases(db'.audit[c]) = Releases(db.audit[c])
  /\ \A i \in Releases(db.audit[c]) : db'.audit[c][i] = db.audit[c][i]

\* A certificate stays as true as it was, and a case that is not released has no
\* release event in its log yet.
Certified ==
  /\ \A x \in db.certificates :
       /\ db.row[x.case] = x.snapshot
       /\ x.version = x.snapshot.version
       /\ Releases(db.audit[x.case]) = {x.head + 1}
       /\ db.audit[x.case][x.head + 1].previous = x.head
  /\ \A c \in CaseIds : db.row[c].released <=> \E x \in db.certificates : x.case = c
  /\ \A x, y \in db.certificates : x.case = y.case => x = y
  /\ \A c \in CaseIds : db.row[c].released \/ Releases(db.audit[c]) = {}

\* One more event that is no release, or two.
LEMMA OrdinaryEvents ==
  ASSUME db \in Databases, NEW c \in CaseIds, NEW after,
         db'.audit = [db.audit EXCEPT ![c] = after],
         \E e, f \in Events :
           /\ e.kind # "CASE_RELEASED" /\ f.kind # "CASE_RELEASED"
           /\ after = Append(db.audit[c], e) \/ after = Append(Append(db.audit[c], e), f)
  PROVE  \A x \in CaseIds : SameReleases(x)
<1>1. /\ db'.audit[c] = after /\ \A x \in CaseIds : x # c => db'.audit[x] = db.audit[x]
      /\ db.audit[c] \in Seq(Events)
  BY DEF Databases
<1>2. PICK e \in Events, f \in Events :
        /\ e.kind # "CASE_RELEASED" /\ f.kind # "CASE_RELEASED"
        /\ after = Append(db.audit[c], e) \/ after = Append(Append(db.audit[c], e), f)
  OBVIOUS
<1> DEFINE log == db.audit[c]
           one == Append(log, e)
           two == Append(one, f)
<1>3. /\ Releases(one) = Releases(log) /\ one \in Seq(Events)
      /\ \A i \in Releases(log) : one[i] = log[i]
  BY <1>1, <1>2, ReleasesAfterAppend
<1> HIDE DEF one
<1>4. /\ Releases(two) = Releases(one)
      /\ \A i \in Releases(one) : two[i] = one[i]
  BY <1>2, <1>3, ReleasesAfterAppend
<1>5. after = one \/ after = two
  BY <1>2 DEF one
<1> HIDE DEF log, two
<1>6. Releases(after) = Releases(log) /\ \A i \in Releases(log) : after[i] = log[i]
  BY <1>3, <1>4, <1>5
<1> QED
  BY <1>1, <1>6 DEF SameReleases, log

\* The certificates hold while a case that is not released changes.
LEMMA UnreleasedKeepsCertified ==
  ASSUME db \in Databases, Certified, NEW c \in CaseIds, ~db.row[c].released,
         ~db'.row[c].released,
         \A x \in CaseIds : x # c => db'.row[x] = db.row[x],
         db'.certificates = db.certificates,
         \A x \in CaseIds : SameReleases(x)
  PROVE  Certified'
<1>1. \A x \in db.certificates : x.case \in CaseIds /\ x.case # c
  BY DEF Certified, Databases, Certificates
<1>2. ASSUME NEW x \in db'.certificates
      PROVE  /\ db'.row[x.case] = x.snapshot
             /\ x.version = x.snapshot.version
             /\ Releases(db'.audit[x.case]) = {x.head + 1}
             /\ db'.audit[x.case][x.head + 1].previous = x.head
  <2>1. /\ x \in db.certificates /\ x.case \in CaseIds /\ x.case # c
        /\ db'.row[x.case] = db.row[x.case]
    BY <1>1, <1>2
  <2>2. /\ db.row[x.case] = x.snapshot
        /\ x.version = x.snapshot.version
        /\ Releases(db.audit[x.case]) = {x.head + 1}
        /\ db.audit[x.case][x.head + 1].previous = x.head
    BY <2>1 DEF Certified
  <2>3. SameReleases(x.case)
    BY <2>1
  <2>4. /\ Releases(db'.audit[x.case]) = {x.head + 1}
        /\ db'.audit[x.case][x.head + 1] = db.audit[x.case][x.head + 1]
    BY <2>2, <2>3 DEF SameReleases
  <2> QED
    BY <2>1, <2>2, <2>4
<1>3. \A x \in CaseIds : db'.row[x].released <=> \E y \in db'.certificates : y.case = x
  BY <1>1 DEF Certified
<1>4. \A x, y \in db'.certificates : x.case = y.case => x = y
  BY DEF Certified
<1>5. \A x \in CaseIds : db'.row[x].released \/ Releases(db'.audit[x]) = {}
  BY DEF Certified, SameReleases
<1> QED
  BY <1>2, <1>3, <1>4, <1>5 DEF Certified

\* A release adds a certificate that holds, and leaves the others alone.
LEMMA ReleaseKeepsCertified ==
  ASSUME db \in Databases, Certified, NEW c \in CaseIds, ~db.row[c].released,
         NEW row \in Rows, row.released, row.version \in 1..MaxVersion,
         db'.row[c] = row,
         \A x \in CaseIds : x # c => db'.row[x] = db.row[x],
         db'.certificates = db.certificates \cup {Certificate(db, c, row)},
         db'.audit = [db.audit EXCEPT ![c] = Append(@,
           [kind |-> "CASE_RELEASED", version |-> row.version, previous |-> AuditHead(db, c)])]
  PROVE  Certified'
<1> DEFINE new == Certificate(db, c, row)
           log == db.audit[c]
           e == [kind |-> "CASE_RELEASED", version |-> row.version, previous |-> AuditHead(db, c)]
<1>1. /\ log \in Seq(Events) /\ AuditHead(db, c) = Len(log)
      /\ \A x \in db.certificates : x.case \in CaseIds /\ x.case # c
      /\ Releases(log) = {}
  BY DEF Certified, Databases, Certificates, AuditHead
<1>2. e \in Events /\ e.kind = "CASE_RELEASED" /\ e.previous = Len(log)
  BY <1>1 DEF Events, AllOperations
<1>3. /\ new.case = c /\ new.snapshot = row /\ new.version = row.version /\ new.head = Len(log)
  BY <1>1 DEF Certificate
<1>4. /\ db'.audit[c] = Append(log, e) /\ \A x \in CaseIds : x # c => db'.audit[x] = db.audit[x]
  BY DEF Databases
<1> HIDE DEF new, log, e
<1>5. Releases(Append(log, e)) = {Len(log) + 1} /\ Append(log, e)[Len(log) + 1] = e
  BY <1>1, <1>2, ReleasesAfterAppend
<1>6. db'.certificates = db.certificates \cup {new}
  BY DEF new
<1>7. /\ db'.row[new.case] = new.snapshot
      /\ new.version = new.snapshot.version
      /\ Releases(db'.audit[new.case]) = {new.head + 1}
      /\ db'.audit[new.case][new.head + 1].previous = new.head
  <2>1. /\ db'.row[new.case] = new.snapshot /\ new.version = new.snapshot.version
        /\ db'.audit[new.case] = Append(log, e)
    BY <1>3, <1>4
  <2>2. /\ Releases(Append(log, e)) = {new.head + 1}
        /\ Append(log, e)[new.head + 1] = e
    BY <1>3, <1>5
  <2> DEFINE longer == Append(log, e)
  <2> HIDE DEF longer
  <2>3. /\ db'.audit[new.case] = longer /\ Releases(longer) = {new.head + 1}
        /\ longer[new.head + 1].previous = new.head
    BY <1>2, <1>3, <2>1, <2>2 DEF longer
  <2> QED
    BY <2>1, <2>3
<1>8. ASSUME NEW x \in db.certificates
      PROVE  /\ db'.row[x.case] = x.snapshot
             /\ x.version = x.snapshot.version
             /\ Releases(db'.audit[x.case]) = {x.head + 1}
             /\ db'.audit[x.case][x.head + 1].previous = x.head
  <2>1. /\ x.case \in CaseIds /\ x.case # c
        /\ db'.row[x.case] = db.row[x.case]
        /\ db'.audit[x.case] = db.audit[x.case]
    BY <1>1, <1>4
  <2>2. /\ db.row[x.case] = x.snapshot
        /\ x.version = x.snapshot.version
        /\ Releases(db.audit[x.case]) = {x.head + 1}
        /\ db.audit[x.case][x.head + 1].previous = x.head
    BY DEF Certified
  <2> QED
    BY <2>1, <2>2
<1>9. \A x \in CaseIds : db'.row[x].released <=> \E y \in db'.certificates : y.case = x
  <2>1. db'.row[c].released /\ \E y \in db'.certificates : y.case = c
    BY <1>3, <1>6
  <2>2. ASSUME NEW x \in CaseIds, x # c
        PROVE  db'.row[x].released <=> \E y \in db'.certificates : y.case = x
    BY <1>3, <1>6, <2>2 DEF Certified
  <2> QED
    BY <2>1, <2>2
<1>10. \A x, y \in db'.certificates : x.case = y.case => x = y
  BY <1>1, <1>3, <1>6 DEF Certified
<1>11. \A x \in CaseIds : db'.row[x].released \/ Releases(db'.audit[x]) = {}
  BY <1>4 DEF Certified
<1> QED
  BY <1>6, <1>7, <1>8, <1>9, <1>10, <1>11 DEF Certified

\* Whatever request is carried out, the certificates hold.
LEMMA ExecutedKeepsCertified ==
  ASSUME ServiceInv, Certified, db' \in Databases,
         NEW r \in Requests, NEW c \in CaseIds, NEW row \in Rows, Executed(r, c, row)
  PROVE  Certified'
<1>1. db \in Databases /\ ~db.row[c].released
  BY OnlyTheLiving DEF ServiceInv, Typed
<1>2. db'.row[c] = row /\ \A x \in CaseIds : x # c => db'.row[x] = db.row[x]
  BY <1>1 DEF Executed, CarriesOut, Databases
<1>3. CASE CarriesOutCreate(db', r, c, row)
  <2>1. ~row.released /\ db'.certificates = db.certificates
    BY <1>3 DEF CarriesOutCreate
  <2>2. PICK e \in Events : /\ e.kind = "CASE_CREATED"
                            /\ db'.audit = [db.audit EXCEPT ![c] = Append(@, e)]
    BY <1>3 DEF CarriesOutCreate
  <2>3. \A x \in CaseIds : SameReleases(x)
    BY <1>1, <2>2, OrdinaryEvents
  <2> QED
    BY <1>1, <1>2, <2>1, <2>3, UnreleasedKeepsCertified
<1>4. CASE CarriesOutWrite(db', r, c, row) /\ r.op # "CASE_RELEASED"
  <2>1. ~row.released /\ db'.certificates = db.certificates
    BY <1>4 DEF CarriesOutWrite
  <2>2. PICK after : /\ MutationLog(c, row, r.op, after)
                     /\ db'.audit = [db.audit EXCEPT ![c] = after]
    BY <1>4 DEF CarriesOutWrite
  <2>3. \E e, f \in Events :
           /\ e.kind # "CASE_RELEASED" /\ f.kind # "CASE_RELEASED"
           /\ after = Append(db.audit[c], e) \/ after = Append(Append(db.audit[c], e), f)
    BY <1>4, <2>2 DEF MutationLog
  <2>4. \A x \in CaseIds : SameReleases(x)
    BY <1>1, <2>2, <2>3, OrdinaryEvents
  <2> QED
    BY <1>1, <1>2, <2>1, <2>4, UnreleasedKeepsCertified
<1>5. CASE CarriesOutWrite(db', r, c, row) /\ r.op = "CASE_RELEASED"
  <2>1. /\ row.released
        /\ db'.certificates = db.certificates \cup {Certificate(db, c, row)}
        /\ db'.audit = [db.audit EXCEPT ![c] = Append(@,
             [kind |-> "CASE_RELEASED", version |-> row.version, previous |-> AuditHead(db, c)])]
    BY <1>5 DEF CarriesOutWrite
  <2>2. row.version \in 1..MaxVersion
    <3>1. row.version > 0
      <4>1. db.row[c].version > 0 /\ db.row[c].version \in Nat
        BY <1>1, <1>5, ServiceAssumption DEF CarriesOutWrite, Exists, Databases, Rows
      <4>2. row = db.row[c] \/ row.version = db.row[c].version + 1
        BY <1>5 DEF CarriesOutWrite
      <4> QED
        BY <4>1, <4>2
    <3> QED
      BY <3>1, ServiceAssumption DEF Rows
  <2> QED
    BY <1>1, <1>2, <2>1, <2>2, ReleaseKeepsCertified
<1> QED
  BY <1>3, <1>4, <1>5 DEF Executed

\* A case is released exactly when it has its one certificate, which keeps saying
\* what the case is and which event of the log the release is.
THEOREM CertificatesStayTrue == Spec => []CertificatesHold
<1>1. Init => Certified
  <2> SUFFICES ASSUME Init PROVE Certified
    OBVIOUS
  <2>1. /\ db.certificates = {}
        /\ \A c \in CaseIds : db.row[c].released = FALSE /\ db.audit[c] = <<>>
    BY DEF Init, NoRow
  <2> QED
    BY <2>1 DEF Certified, Releases
<1>2. ServiceInv /\ Certified /\ [Next]_vars => Certified'
  <2> SUFFICES ASSUME ServiceInv, Certified, [Next]_vars PROVE Certified'
    OBVIOUS
  <2>0. db \in Databases
    BY DEF ServiceInv, Typed
  <2>1. CASE UNCHANGED <<db, answers>>
    BY <2>1 DEF Certified, Releases
  <2>2. CASE LogsOnly(db')
    <3>1. db'.row = db.row /\ db'.certificates = db.certificates
      BY <2>2 DEF LogsOnly
    <3>2. \A x \in CaseIds : SameReleases(x)
      <4>1. CASE db'.audit = db.audit
        BY <4>1 DEF SameReleases
      <4>2. ASSUME NEW c \in CaseIds, NEW e \in Events, e.kind = "WRITE_CONFLICT",
                   db'.audit = [db.audit EXCEPT ![c] = Append(@, e)]
            PROVE  \A x \in CaseIds : SameReleases(x)
        BY <2>0, <4>2, OrdinaryEvents
      <4> QED
        BY <2>2, <4>1, <4>2 DEF LogsOnly
    <3>3. \A x \in db.certificates : x.case \in CaseIds
      BY <2>0 DEF Databases, Certificates
    <3> QED
      BY <3>1, <3>2, <3>3 DEF Certified, SameReleases
  <2>3. ASSUME NEW r \in Requests, NEW c \in CaseIds, NEW row \in Rows, Executed(r, c, row),
               db' \in Databases
        PROVE  Certified'
    BY <2>3, ExecutedKeepsCertified
  <2> QED
    BY <2>1, <2>2, <2>3, OnlyCommitsCount, CommitCases
<1>3. Certified => CertificatesHold
  BY DEF Certified, CertificatesHold, Positions, Releases
<1> QED
  BY <1>1, <1>2, <1>3, ServiceInvariant, PTL DEF Spec

-----------------------------------------------------------------------------
(* A log, with the records ks of the requests carried out, the version v   *)
(* of the case and the number n of its stale batches.                      *)

Done == AllOperations \cup {"CASE_CREATED"}

At(log, kinds) == {i \in DOMAIN log : log[i].kind \in kinds}

Logged(log) == {<<log[i].kind, log[i].version>> : i \in At(log, Done)}

Recorded(ks) == {<<k.op, k.answer.row.version>> : k \in ks}

Ordered(log, v) ==
  /\ \A i, j \in DOMAIN log : i < j => log[i].version <= log[j].version
  /\ \A i \in DOMAIN log : log[i].version <= v

Matches(log, ks, v, n) ==
  /\ log \in Seq(Events)
  /\ Cardinality(At(log, Done)) = Cardinality(ks)
  /\ Logged(log) = Recorded(ks)
  /\ Ordered(log, v)
  /\ Cardinality(At(log, {"VALIDATION_BATCH_STALE"})) = n

\* What an event adds to the events of some kinds.
LEMMA AtAppend ==
  ASSUME NEW log \in Seq(Events), NEW e \in Events, NEW kinds
  PROVE  /\ Append(log, e) \in Seq(Events)
         /\ Append(log, e)[Len(log) + 1] = e
         /\ \A i \in DOMAIN log : Append(log, e)[i] = log[i]
         /\ DOMAIN Append(log, e) = DOMAIN log \cup {Len(log) + 1}
         /\ Cardinality(At(log, kinds)) \in Nat
         /\ e.kind \notin kinds => At(Append(log, e), kinds) = At(log, kinds)
         /\ e.kind \in kinds =>
              /\ At(Append(log, e), kinds) = At(log, kinds) \cup {Len(log) + 1}
              /\ Cardinality(At(Append(log, e), kinds)) = Cardinality(At(log, kinds)) + 1
<1>1. /\ DOMAIN Append(log, e) = DOMAIN log \cup {Len(log) + 1}
      /\ \A i \in DOMAIN log : Append(log, e)[i] = log[i]
      /\ Append(log, e)[Len(log) + 1] = e
      /\ Append(log, e) \in Seq(Events)
  OBVIOUS
<1>2. IsFiniteSet(At(log, kinds)) /\ Len(log) + 1 \notin At(log, kinds)
  <2>1. DOMAIN log = 1..Len(log) /\ Len(log) \in Nat
    OBVIOUS
  <2>2. IsFiniteSet(1..Len(log))
    BY <2>1, FS_Interval
  <2>3. At(log, kinds) \subseteq 1..Len(log)
    BY <2>1 DEF At
  <2> QED
    BY <2>1, <2>2, <2>3, FS_Subset
<1>3. e.kind \notin kinds => At(Append(log, e), kinds) = At(log, kinds)
  BY <1>1 DEF At
<1>4. e.kind \in kinds => At(Append(log, e), kinds) = At(log, kinds) \cup {Len(log) + 1}
  BY <1>1 DEF At
<1>5. /\ Cardinality(At(log, kinds)) \in Nat
      /\ Cardinality(At(log, kinds) \cup {Len(log) + 1}) = Cardinality(At(log, kinds)) + 1
  BY <1>2, FS_AddElement, FS_CardinalityType
<1> QED
  BY <1>1, <1>3, <1>4, <1>5

\* The operations a log tells of after one event more.
LEMMA LoggedAppend ==
  ASSUME NEW log \in Seq(Events), NEW e \in Events
  PROVE  /\ e.kind \notin Done => Logged(Append(log, e)) = Logged(log)
         /\ e.kind \in Done => Logged(Append(log, e)) = Logged(log) \cup {<<e.kind, e.version>>}
<1> DEFINE longer == Append(log, e)
<1>1. /\ longer[Len(log) + 1] = e
      /\ \A i \in At(log, Done) : longer[i] = log[i]
      /\ e.kind \notin Done => At(longer, Done) = At(log, Done)
      /\ e.kind \in Done => At(longer, Done) = At(log, Done) \cup {Len(log) + 1}
  <2>1. /\ longer[Len(log) + 1] = e
        /\ \A i \in DOMAIN log : longer[i] = log[i]
        /\ e.kind \notin Done => At(longer, Done) = At(log, Done)
        /\ e.kind \in Done => At(longer, Done) = At(log, Done) \cup {Len(log) + 1}
    BY AtAppend
  <2>2. At(log, Done) \subseteq DOMAIN log
    BY DEF At
  <2> QED
    BY <2>1, <2>2
<1> HIDE DEF longer
<1>2. e.kind \notin Done => Logged(longer) = Logged(log)
  BY <1>1 DEF Logged
<1>3. e.kind \in Done => Logged(longer) = Logged(log) \cup {<<e.kind, e.version>>}
  BY <1>1 DEF Logged
<1> QED
  BY <1>2, <1>3 DEF longer

\* Its versions stay in order.
LEMMA OrderedAppend ==
  ASSUME NEW log \in Seq(Events), NEW e \in Events, NEW v \in Nat,
         Ordered(log, v), e.version >= v
  PROVE  Ordered(Append(log, e), e.version)
<1> DEFINE longer == Append(log, e)
<1>1. /\ longer[Len(log) + 1] = e /\ e.version \in Nat
      /\ \A i \in DOMAIN log : /\ longer[i] = log[i] /\ i \in Nat /\ i < Len(log) + 1
                               /\ log[i].version \in Nat
      /\ DOMAIN longer = DOMAIN log \cup {Len(log) + 1} /\ Len(log) \in Nat
  <2>1. \A i \in DOMAIN log : log[i] \in Events /\ i \in Nat /\ i < Len(log) + 1
    OBVIOUS
  <2>2. \A x \in Events : x.version \in Nat
    BY ServiceAssumption DEF Events
  <2> QED
    BY <2>1, <2>2, AtAppend
<1>2. /\ \A i, j \in DOMAIN log : i < j => log[i].version <= log[j].version
      /\ \A i \in DOMAIN log : log[i].version <= v
  BY DEF Ordered
<1> HIDE DEF longer
<1>3. \A i \in DOMAIN longer : longer[i].version <= e.version
  BY <1>1, <1>2
<1>4. \A i, j \in DOMAIN longer : i < j => longer[i].version <= longer[j].version
  BY <1>1, <1>2
<1> QED
  BY <1>3, <1>4 DEF Ordered, longer

\* A conflict is noted.
LEMMA ConflictMatches ==
  ASSUME NEW log, NEW ks, NEW v \in Nat, NEW n, NEW e \in Events,
         Matches(log, ks, v, n), e.kind = "WRITE_CONFLICT", e.version = v
  PROVE  Matches(Append(log, e), ks, v, n)
<1>1. e.kind \notin Done /\ e.kind \notin {"VALIDATION_BATCH_STALE"}
  BY DEF Done, AllOperations, Edits, RehearsalSteps
<1>2. log \in Seq(Events) /\ Ordered(log, v)
  BY DEF Matches
<1>3. /\ At(Append(log, e), Done) = At(log, Done)
      /\ At(Append(log, e), {"VALIDATION_BATCH_STALE"}) = At(log, {"VALIDATION_BATCH_STALE"})
      /\ Append(log, e) \in Seq(Events)
  BY <1>1, <1>2, AtAppend
<1>4. Logged(Append(log, e)) = Logged(log)
  BY <1>1, <1>2, LoggedAppend
<1>5. Ordered(Append(log, e), v)
  <2>1. e.version >= v
    OBVIOUS
  <2>2. Ordered(Append(log, e), e.version)
    BY <1>2, <2>1, OrderedAppend
  <2> QED
    BY <2>2
<1> QED
  BY <1>3, <1>4, <1>5 DEF Matches

\* An operation is noted and recorded.
LEMMA OperationMatches ==
  ASSUME NEW log, NEW ks, NEW v \in Nat, NEW n, NEW e \in Events, NEW k,
         Matches(log, ks, v, n), IsFiniteSet(ks), k \notin ks,
         e.kind \in Done, e.version >= v,
         k.op = e.kind, k.answer.row.version = e.version
  PROVE  Matches(Append(log, e), ks \cup {k}, e.version, n)
<1>1. e.kind \notin {"VALIDATION_BATCH_STALE"}
  BY DEF Done, AllOperations, Edits, RehearsalSteps
<1>2. log \in Seq(Events) /\ Ordered(log, v)
  BY DEF Matches
<1>3. /\ Cardinality(At(Append(log, e), Done)) = Cardinality(At(log, Done)) + 1
      /\ At(Append(log, e), {"VALIDATION_BATCH_STALE"}) = At(log, {"VALIDATION_BATCH_STALE"})
      /\ Append(log, e) \in Seq(Events)
  BY <1>1, <1>2, AtAppend
<1>4. Cardinality(ks \cup {k}) = Cardinality(ks) + 1
  BY FS_AddElement
<1>5. Logged(Append(log, e)) = Logged(log) \cup {<<e.kind, e.version>>}
  BY <1>2, LoggedAppend
<1>6. Recorded(ks \cup {k}) = Recorded(ks) \cup {<<e.kind, e.version>>}
  BY DEF Recorded
<1>7. Ordered(Append(log, e), e.version)
  BY <1>2, OrderedAppend
<1> QED
  BY <1>3, <1>4, <1>5, <1>6, <1>7 DEF Matches

\* A batch that became stale is noted.
LEMMA StaleMatches ==
  ASSUME NEW log, NEW ks, NEW v \in Nat, NEW n, NEW e \in Events,
         Matches(log, ks, v, n), e.kind = "VALIDATION_BATCH_STALE", e.version = v
  PROVE  Matches(Append(log, e), ks, v, n + 1)
<1>1. e.kind \notin Done /\ e.kind \in {"VALIDATION_BATCH_STALE"}
  BY DEF Done, AllOperations, Edits, RehearsalSteps
<1>2. log \in Seq(Events) /\ Ordered(log, v)
  BY DEF Matches
<1>3. /\ At(Append(log, e), Done) = At(log, Done)
      /\ Cardinality(At(Append(log, e), {"VALIDATION_BATCH_STALE"}))
           = Cardinality(At(log, {"VALIDATION_BATCH_STALE"})) + 1
      /\ Append(log, e) \in Seq(Events)
  BY <1>1, <1>2, AtAppend
<1>4. Logged(Append(log, e)) = Logged(log)
  BY <1>1, <1>2, LoggedAppend
<1>5. Ordered(Append(log, e), v)
  <2>1. e.version >= v
    OBVIOUS
  <2>2. Ordered(Append(log, e), e.version)
    BY <1>2, <2>1, OrderedAppend
  <2> QED
    BY <2>2
<1> QED
  BY <1>3, <1>4, <1>5 DEF Matches

-----------------------------------------------------------------------------
(* The stale batches of a case.                                            *)

Stale(batches) == {i \in DOMAIN batches : batches[i]}

\* An operation makes one batch stale, exactly when the latest one turned stale.
LEMMA StaleBatchesCount ==
  ASSUME NEW op \in AllOperations, NEW row \in Rows, NEW o \in Outcomes(op, row)
  PROVE  /\ Cardinality(Stale(row.batches)) \in Nat
         /\ Cardinality(Stale(o.batches))
              = IF TurnedStale(row.batches, o.batches) THEN Cardinality(Stale(row.batches)) + 1
                ELSE Cardinality(Stale(row.batches))
<1> DEFINE b == row.batches
<1>1. b \in Seq(BOOLEAN)
  BY DEF Rows
<1>2. ~(row.released \/ row.version >= MaxVersion)
  <2>1. SUFFICES ASSUME row.released \/ row.version >= MaxVersion PROVE FALSE
    OBVIOUS
  <2>2. Outcomes(op, row) = {}
    BY <2>1 DEF Outcomes
  <2> QED
    BY <2>2
<1>3. o.batches \in {b, MarkedStale(b), Append(b, FALSE)}
  <2>0. Bumped(row).batches = b
    BY DEF Bumped, Rows
  <2>1. CASE op \in Edits
    <3>1. o \in {row, [Bumped(row) EXCEPT !.batches = MarkedStale(@)]}
      BY <1>2, <2>1 DEF Outcomes, Edits
    <3> QED
      BY <2>0, <3>1 DEF Bumped, Rows
  <2>2. CASE op = "CASE_VALIDATED"
    <3>1. o = [Bumped(row) EXCEPT !.batches = Append(@, FALSE)]
      BY <1>2, <2>2 DEF Outcomes, Edits
    <3> QED
      BY <2>0, <3>1 DEF Bumped, Rows
  <2>3. CASE op = "CASE_RELEASED"
    <3>1. o = [Bumped(row) EXCEPT !.released = TRUE]
      BY <1>2, <2>3 DEF Outcomes, Edits
    <3> QED
      BY <2>0, <3>1 DEF Bumped, Rows
  <2>4. CASE op \notin Edits \cup {"CASE_VALIDATED", "CASE_RELEASED"}
    <3>1. o = Bumped(row)
      BY <1>2, <2>4 DEF Outcomes
    <3> QED
      BY <2>0, <3>1
  <2> QED
    BY <2>1, <2>2, <2>3, <2>4
<1>4. IsFiniteSet(Stale(b)) /\ Cardinality(Stale(b)) \in Nat
  <2>1. Stale(b) \subseteq 1..Len(b) /\ Len(b) \in Nat
    BY <1>1 DEF Stale
  <2>2. IsFiniteSet(1..Len(b))
    BY <2>1, FS_Interval
  <2> QED
    BY <2>1, <2>2, FS_Subset, FS_CardinalityType
<1> HIDE DEF b
<1>5. CASE o.batches = b
  BY <1>4, <1>5 DEF TurnedStale, b
<1>6. CASE o.batches = Append(b, FALSE)
  <2> DEFINE after == Append(b, FALSE)
  <2>1. Stale(after) = Stale(b)
    BY <1>1 DEF Stale
  <2>2. ~LatestStale(after)
    <3>1. after[Len(after)] = FALSE
      BY <1>1
    <3> QED
      BY <3>1, Zenon DEF LatestStale
  <2> HIDE DEF after
  <2>3. o.batches = after
    BY <1>6 DEF after
  <2> QED
    BY <1>4, <2>1, <2>2, <2>3 DEF TurnedStale, b
<1>7. CASE o.batches = MarkedStale(b) /\ b # <<>>
  <2> DEFINE m == Len(b)
             after == [b EXCEPT ![m] = TRUE]
  <2>1. m \in DOMAIN b /\ b[m] \in BOOLEAN /\ after # <<>> /\ Len(after) = m /\ after[m] = TRUE
    BY <1>1, <1>7
  <2>2. Stale(after) = Stale(b) \cup {m}
    BY <1>1, <2>1 DEF Stale
  <2>3. o.batches = after
    BY <1>7 DEF MarkedStale
  <2>4. LatestStale(after)
    BY <2>1 DEF LatestStale
  <2>5. LatestStale(b) <=> b[m]
    BY <1>7 DEF LatestStale
  <2> HIDE DEF m, after
  <2>6. CASE b[m]
    <3>1. Stale(after) = Stale(b)
      BY <2>1, <2>2, <2>6 DEF Stale
    <3>2. ~TurnedStale(b, after)
      BY <2>5, <2>6 DEF TurnedStale
    <3> QED
      BY <1>4, <2>3, <3>1, <3>2 DEF b
  <2>7. CASE ~b[m]
    <3>1. m \notin Stale(b)
      BY <2>7 DEF Stale
    <3>2. Cardinality(Stale(after)) = Cardinality(Stale(b)) + 1
      BY <1>4, <2>2, <3>1, FS_AddElement
    <3>3. TurnedStale(b, after)
      BY <1>7, <2>4, <2>5, <2>7 DEF TurnedStale
    <3> QED
      BY <1>4, <2>3, <3>2, <3>3 DEF b
  <2> QED
    BY <2>6, <2>7
<1>8. CASE o.batches = MarkedStale(b) /\ b = <<>>
  <2>1. o.batches = b
    BY <1>8 DEF MarkedStale
  <2> QED
    BY <1>5, <2>1
<1> QED
  BY <1>3, <1>5, <1>6, <1>7, <1>8

-----------------------------------------------------------------------------
(* The invariant.                                                          *)

RecordsOf(c) == {k \in db.records : k.answer.case = c}

LogInv ==
  /\ IsFiniteSet(db.records)
  /\ \A c \in CaseIds :
       /\ Matches(db.audit[c], RecordsOf(c), db.row[c].version,
                  Cardinality(Stale(db.row[c].batches)))
       /\ Exists(db, c) \/ db.row[c].batches = <<>>

\* The logs agree with the records at first.
LEMMA LogInit == Init => LogInv
<1> SUFFICES ASSUME Init PROVE LogInv
  OBVIOUS
<1>1. /\ db.records = {}
      /\ \A c \in CaseIds : /\ db.audit[c] = <<>> /\ db.row[c].version = 0
                            /\ db.row[c].batches = <<>>
  BY DEF Init, NoRow
<1>2. /\ At(<<>>, Done) = {} /\ At(<<>>, {"VALIDATION_BATCH_STALE"}) = {}
      /\ Stale(<<>>) = {} /\ Ordered(<<>>, 0) /\ <<>> \in Seq(Events)
  BY DEF At, Stale, Ordered
<1>3. Logged(<<>>) = {} /\ Recorded({}) = {}
  BY <1>2 DEF Logged, Recorded
<1>4. Cardinality({}) = 0 /\ IsFiniteSet({})
  BY FS_EmptySet
<1>5. \A c \in CaseIds : RecordsOf(c) = {}
  BY <1>1 DEF RecordsOf
<1>6. Matches(<<>>, {}, 0, 0)
  BY <1>2, <1>3, <1>4 DEF Matches
<1> QED
  BY <1>1, <1>2, <1>4, <1>5, <1>6 DEF LogInv

\* A retry or a conflict.
LEMMA LogsOnlyKeepsLog ==
  ASSUME db \in Databases, LogInv, LogsOnly(db')
  PROVE  LogInv'
<1>1. /\ db'.row = db.row /\ db'.records = db.records
      /\ \A c \in CaseIds : RecordsOf(c)' = RecordsOf(c)
  BY DEF LogsOnly, RecordsOf
<1>2. ASSUME NEW c \in CaseIds
      PROVE  Matches(db'.audit[c], RecordsOf(c), db.row[c].version,
                     Cardinality(Stale(db.row[c].batches)))
  <2>1. Matches(db.audit[c], RecordsOf(c), db.row[c].version,
                Cardinality(Stale(db.row[c].batches)))
    BY DEF LogInv
  <2>2. CASE db'.audit[c] = db.audit[c]
    BY <2>1, <2>2
  <2>3. ASSUME NEW e \in Events, e.kind = "WRITE_CONFLICT", e.version = db.row[c].version,
               db'.audit[c] = Append(db.audit[c], e)
        PROVE  Matches(db'.audit[c], RecordsOf(c), db.row[c].version,
                       Cardinality(Stale(db.row[c].batches)))
    <3>1. db.row[c].version \in Nat
      BY ServiceAssumption DEF Databases, Rows
    <3> QED
      BY <2>1, <2>3, <3>1, ConflictMatches
  <2>4. \/ db'.audit[c] = db.audit[c]
        \/ \E e \in Events : /\ e.kind = "WRITE_CONFLICT" /\ e.version = db.row[c].version
                            /\ db'.audit[c] = Append(db.audit[c], e)
    BY DEF LogsOnly, Databases
  <2> QED
    BY <2>2, <2>3, <2>4
<1> QED
  BY <1>1, <1>2 DEF LogInv, Exists

\* A request carried out on case c.
LEMMA ExecutedKeepsLog ==
  ASSUME db \in Databases, LogInv, NEW r \in Requests, NEW c \in CaseIds, NEW row \in Rows,
         Executed(r, c, row)
  PROVE  LogInv'
<1> DEFINE new == RecordOf(r, tx.answer)
           ks == RecordsOf(c)
           log == db.audit[c]
           v == db.row[c].version
           n == Cardinality(Stale(db.row[c].batches))
<1>1. /\ db'.records = db.records \cup {new} /\ GetIdempotency(db, r) = {}
      /\ db'.row[c] = row /\ \A x \in CaseIds : x # c => db'.row[x] = db.row[x]
      /\ tx.answer.case = c /\ tx.answer.row = row
  BY DEF Executed, CarriesOut, Databases
<1>2. /\ new.answer.case = c /\ new.answer.row.version = row.version /\ new.op = r.op
      /\ new \notin db.records
  BY <1>1 DEF RecordOf, GetIdempotency
<1> HIDE DEF new
<1>3. /\ RecordsOf(c)' = ks \cup {new} /\ new \notin ks
      /\ \A x \in CaseIds : x # c => RecordsOf(x)' = RecordsOf(x)
  BY <1>1, <1>2 DEF RecordsOf
<1>4. IsFiniteSet(db'.records) /\ IsFiniteSet(ks)
  <2>1. IsFiniteSet(db.records)
    BY DEF LogInv
  <2>2. IsFiniteSet(db'.records)
    BY <1>1, <2>1, FS_AddElement
  <2>3. ks \subseteq db.records
    BY DEF RecordsOf
  <2> QED
    BY <2>1, <2>2, <2>3, FS_Subset
<1>5. /\ Matches(log, ks, v, n) /\ v \in Nat /\ row.version \in Nat
      /\ Exists(db, c) \/ db.row[c].batches = <<>>
  BY ServiceAssumption DEF LogInv, Databases, Rows
<1> HIDE DEF ks
<1>6. /\ Matches(db'.audit[c], ks \cup {new}, row.version, Cardinality(Stale(row.batches)))
      /\ \A x \in CaseIds : x # c => db'.audit[x] = db.audit[x]
      /\ row.version > 0
  <2>1. CASE CarriesOutCreate(db', r, c, row)
    <3>1. /\ v = 0 /\ db.row[c].batches = <<>>
          /\ row.version = 1 /\ row.batches = <<>>
      BY <1>5, <2>1 DEF CarriesOutCreate, Exists
    <3>2. PICK e \in Events : /\ e.kind = "CASE_CREATED" /\ e.version = 1
                              /\ db'.audit = [db.audit EXCEPT ![c] = Append(@, e)]
      BY <2>1 DEF CarriesOutCreate
    <3>3. /\ db'.audit[c] = Append(log, e)
          /\ \A x \in CaseIds : x # c => db'.audit[x] = db.audit[x]
      BY <3>2 DEF Databases
    <3>4. r.op = "CASE_CREATED"
      BY <2>1, ServiceAssumption DEF CarriesOutCreate, Requests
    <3> HIDE DEF log, v
    <3>5. Matches(Append(log, e), ks \cup {new}, e.version, n)
      <4>1. e.kind \in Done /\ e.version >= v
        BY <3>1, <3>2 DEF Done
      <4>2. new.op = e.kind /\ new.answer.row.version = e.version
        BY <1>2, <3>1, <3>2, <3>4
      <4> HIDE DEF n
      <4> QED
        BY <1>3, <1>4, <1>5, <4>1, <4>2, OperationMatches
    <3>6. n = Cardinality(Stale(row.batches))
      BY <3>1
    <3> HIDE DEF n
    <3>7. Matches(db'.audit[c], ks \cup {new}, row.version, Cardinality(Stale(row.batches)))
      BY <3>1, <3>2, <3>3, <3>5, <3>6
    <3> QED
      BY <3>1, <3>3, <3>7
  <2>2. CASE CarriesOutWrite(db', r, c, row)
    <3>1. /\ v > 0 /\ row.version >= v /\ r.scope = c
          /\ row \in Outcomes(r.op, db.row[c])
      BY <1>5, <2>2 DEF CarriesOutWrite, Exists
    <3>2. r.op \in AllOperations /\ r.op \in Done /\ db.row[c] \in Rows
      BY <3>1, RequestsAreRequests DEF Done, Databases
    <3> DEFINE turned == TurnedStale(db.row[c].batches, row.batches)
               after == db'.audit[c]
    <3>3. Cardinality(Stale(row.batches)) = IF turned THEN n + 1 ELSE n
      BY <3>1, <3>2, StaleBatchesCount
    <3>4. PICK e \in Events, f \in Events :
            /\ e.kind = r.op /\ f.kind = "VALIDATION_BATCH_STALE"
            /\ e.version = row.version /\ f.version = row.version
            /\ \/ turned /\ after = Append(Append(log, e), f)
               \/ ~turned /\ after = Append(log, e)
      <4>1. CASE r.op # "CASE_RELEASED"
        <5>1. PICK a : MutationLog(c, row, r.op, a) /\ db'.audit = [db.audit EXCEPT ![c] = a]
          BY <2>2, <4>1 DEF CarriesOutWrite
        <5>2. after = a
          BY <5>1 DEF Databases
        <5> HIDE DEF after, log, turned
        <5>3. MutationLog(c, row, r.op, after)
          BY <5>1, <5>2
        <5> QED
          BY <5>3 DEF MutationLog, log, turned
      <4>2. CASE r.op = "CASE_RELEASED"
        <5> DEFINE e == [kind |-> "CASE_RELEASED", version |-> row.version,
                         previous |-> AuditHead(db, c)]
                   f == [kind |-> "VALIDATION_BATCH_STALE", version |-> row.version,
                         previous |-> AuditHead(db, c)]
        <5>1. db'.audit = [db.audit EXCEPT ![c] = Append(@, e)]
          BY <2>2, <4>2 DEF CarriesOutWrite
        <5>2. after = Append(log, e)
          BY <5>1 DEF Databases
        <5>3. row.batches = db.row[c].batches
          <6>1. row = [Bumped(db.row[c]) EXCEPT !.released = TRUE]
            BY <3>1, <4>2 DEF Outcomes, Edits
          <6> QED
            BY <3>2, <6>1 DEF Bumped, Rows
        <5>4. ~turned
          BY <5>3 DEF TurnedStale
        <5>5. e \in Events /\ f \in Events
          <6>1. row.version \in 1..MaxVersion /\ AuditHead(db, c) \in Nat
            BY <1>5, <3>1, ServiceAssumption DEF Rows, Databases, AuditHead
          <6> QED
            BY <6>1 DEF Events, AllOperations
        <5>6. /\ e.kind = r.op /\ f.kind = "VALIDATION_BATCH_STALE"
              /\ e.version = row.version /\ f.version = row.version
          BY <4>2
        <5> HIDE DEF e, f, turned, after, log
        <5> QED
          BY <5>2, <5>4, <5>5, <5>6
      <4> QED
        BY <4>1, <4>2
    <3>5. \A x \in CaseIds : x # c => db'.audit[x] = db.audit[x]
      BY <2>2 DEF CarriesOutWrite, Databases
    <3> HIDE DEF log, v, n, turned, after
    <3>6. Matches(Append(log, e), ks \cup {new}, row.version, n)
      <4>1. /\ e.kind \in Done /\ e.version >= v
            /\ new.op = e.kind /\ new.answer.row.version = e.version
        BY <1>2, <3>1, <3>2, <3>4
      <4>2. Matches(Append(log, e), ks \cup {new}, e.version, n)
        BY <1>3, <1>4, <1>5, <4>1, OperationMatches
      <4> QED
        BY <3>4, <4>2
    <3>7. turned => Matches(Append(Append(log, e), f), ks \cup {new}, row.version, n + 1)
      BY <1>5, <3>4, <3>6, StaleMatches
    <3>8. Matches(after, ks \cup {new}, row.version, Cardinality(Stale(row.batches)))
      BY <3>3, <3>4, <3>6, <3>7
    <3>9. row.version > 0
      BY <1>5, <3>1
    <3> QED
      BY <3>5, <3>8, <3>9 DEF after
  <2> QED
    BY <2>1, <2>2 DEF Executed
<1>7. ASSUME NEW x \in CaseIds
      PROVE  /\ Matches(db'.audit[x], RecordsOf(x)', db'.row[x].version,
                        Cardinality(Stale(db'.row[x].batches)))
             /\ db'.row[x].version > 0 \/ db'.row[x].batches = <<>>
  <2>1. CASE x = c
    BY <1>1, <1>3, <1>6, <2>1
  <2>2. CASE x # c
    <3>1. /\ Matches(db.audit[x], RecordsOf(x), db.row[x].version,
                     Cardinality(Stale(db.row[x].batches)))
          /\ Exists(db, x) \/ db.row[x].batches = <<>>
      BY DEF LogInv
    <3> QED
      BY <1>1, <1>3, <1>6, <2>2, <3>1 DEF Exists
  <2> QED
    BY <2>1, <2>2
<1> QED
  BY <1>4, <1>7 DEF LogInv, Exists

\* The log of a case has one event for each request carried out, at the version it
\* left, and one for each batch that became stale; its versions never go back.
THEOREM LogTellsWhatHappened == Spec => []LogMatchesLedger
<1>1. ServiceInv /\ LogInv /\ [Next]_vars => LogInv'
  <2> SUFFICES ASSUME ServiceInv, LogInv, [Next]_vars PROVE LogInv'
    OBVIOUS
  <2>0. db \in Databases
    BY DEF ServiceInv, Typed
  <2>1. CASE UNCHANGED <<db, answers>>
    BY <2>1 DEF LogInv, RecordsOf, Exists
  <2>2. CASE LogsOnly(db')
    BY <2>0, <2>2, LogsOnlyKeepsLog
  <2>3. ASSUME NEW r \in Requests, NEW c \in CaseIds, NEW row \in Rows, Executed(r, c, row)
        PROVE  LogInv'
    BY <2>0, <2>3, ExecutedKeepsLog
  <2> QED
    BY <2>1, <2>2, <2>3, OnlyCommitsCount, CommitCases
<1>2. LogInv => LogMatchesLedger
  <2> SUFFICES ASSUME LogInv, NEW c \in CaseIds
               PROVE  LET log == db.audit[c]
                          done == Positions(c, Done)
                      IN  /\ Cardinality(done) = Cardinality(RecordsOf(c))
                          /\ {<<log[i].kind, log[i].version>> : i \in done}
                               = {<<k.op, k.answer.row.version>> : k \in RecordsOf(c)}
                          /\ \A i, j \in DOMAIN log : i < j => log[i].version <= log[j].version
                          /\ Cardinality(Positions(c, {"VALIDATION_BATCH_STALE"}))
                               = Cardinality(Stale(db.row[c].batches))
    BY DEF LogMatchesLedger, RecordsOf, Done, Stale
  <2>1. Matches(db.audit[c], RecordsOf(c), db.row[c].version,
                Cardinality(Stale(db.row[c].batches)))
    BY DEF LogInv
  <2>2. \A kinds : Positions(c, kinds) = At(db.audit[c], kinds)
    BY DEF Positions, At
  <2> QED
    BY <2>1, <2>2 DEF Matches, Logged, Recorded, Ordered
<1> QED
  BY <1>1, <1>2, LogInit, ServiceInvariant, PTL DEF Spec
=============================================================================
