------------------------ MODULE ForgeConnectionProofs ------------------------
(***************************************************************************)
(* Proofs about the connection to the forge and the bindings, for any      *)
(* number of repositories, remotes and checks in flight, and counters of   *)
(* any width.                                                              *)
(*                                                                         *)
(* A check that talked to the forge for a minute commits only on the row   *)
(* it reserved.  That this is enough rests on counters that never fall     *)
(* behind the evidence (EvidenceIsPast): an edit or another reservation    *)
(* makes whatever was observed before it old at once.                      *)
(*                                                                         *)
(* The second part is about the access snapshots that are taken over the   *)
(* bindings and the linked identities, the third about how those           *)
(* identities are linked.                                                  *)
(***************************************************************************)
EXTENDS ForgeIdentity, AccessShadow, FiniteSetTheorems, TLAPS

ChecksAreReserved == \A c \in checks : c.id # 0
EvidenceIsPast == /\ evidence.revision <= connection.revision
                  /\ evidence.generation <= connection.generation

Counters == /\ connection.revision \in Revision /\ connection.generation \in Revision
            /\ connection.binding \in Revision /\ connection.identity \in Revision
            /\ evidence.revision \in Revision /\ evidence.generation \in Revision
            /\ preview.generation \in Revision

Connection == [id : 0..MaxConnections, url : Urls \cup {None},
               org : Organizations \cup {None}, revision : Revision,
               generation : Revision, binding : Revision, identity : Revision]

ConnectionInv == TypeOK /\ ChecksAreReserved /\ EvidenceIsPast /\ BindingsAreHome /\ EvidenceIsOfPreview

LEMMA CountersCount ==
  ASSUME TypeOK
  PROVE  Counters /\ Revision \subseteq Nat
BY ForgeAssumption DEF TypeOK, Counters, Revision

-----------------------------------------------------------------------------
LEMMA InitEstablishes ==
  ASSUME Init
  PROVE  ConnectionInv
<1>1. TypeOK
  BY ForgeAssumption DEF Init, TypeOK, NoConnection, NoEvidence, NoPreview, Revision, Found
<1>2. connection.revision = 0 /\ connection.generation = 0 /\ evidence.revision = 0
      /\ evidence.generation = 0 /\ ~evidence.observed
  BY DEF Init, NoConnection, NoEvidence
<1> QED
  BY <1>1, <1>2 DEF Init, ConnectionInv, ChecksAreReserved, EvidenceIsPast, BindingsAreHome,
     EvidenceIsOfPreview, Observed

(* The page that creates or edits the connection moves its revision past   *)
(* all evidence.                                                           *)
LEMMA CreateStep ==
  ASSUME ConnectionInv, NEW url \in Urls, Create(url)
  PROVE  ConnectionInv'
<1> USE DEF ConnectionInv
<1>1. /\ connection = NoConnection /\ evidence = NoEvidence /\ preview = NoPreview
      /\ created < MaxConnections /\ created \in 0..MaxConnections
  BY DEF Create, TypeOK
<1>2. /\ connection' \in Connection
      /\ connection'.id = created + 1 /\ connection'.revision = 1 /\ connection'.generation = 0
      /\ connection'.org = None
  <2>1. /\ created + 1 \in 0..MaxConnections /\ created' = created + 1
        /\ 0 \in Revision /\ 1 \in Revision
    BY <1>1, ForgeAssumption DEF Create, Revision
  <2> DEFINE Ids == 0..MaxConnections
  <2>2. created + 1 \in Ids /\ 0 \in Ids
    BY <2>1, ForgeAssumption
  <2> HIDE DEF Ids
  <2>3. connection' = [id |-> created + 1, url |-> url, org |-> None, revision |-> 1,
                       generation |-> 0, binding |-> 0, identity |-> 0]
    BY <2>1 DEF Create, NoConnection
  <2>4. connection' \in [id : Ids, url : Urls \cup {None},
               org : Organizations \cup {None}, revision : Revision,
               generation : Revision, binding : Revision, identity : Revision]
    BY <2>1, <2>2, <2>3
  <2> QED BY <2>3, <2>4 DEF Connection, Ids
<1>3. TypeOK'
  BY <1>1, <1>2, ForgeAssumption DEF TypeOK, Connection, Create, Found, evidenceVars, bindingVars
<1>4. \A r \in Repos : bindings[r] = None
  BY <1>1 DEF BindingsAreHome, Bound, NoConnection
<1>5. BindingsAreHome'
  BY <1>4 DEF BindingsAreHome, Create, bindingVars
<1>6. evidence' = evidence /\ evidence.revision = 0 /\ evidence.generation = 0 /\ ~evidence.observed
      /\ checks' = checks
  BY <1>1 DEF Create, evidenceVars, NoEvidence
<1> QED
  BY <1>2, <1>3, <1>5, <1>6 DEF ChecksAreReserved, EvidenceIsPast, EvidenceIsOfPreview, Observed

LEMMA EditStep ==
  ASSUME ConnectionInv, NEW url \in Urls, Edit(url)
  PROVE  ConnectionInv'
<1> USE DEF ConnectionInv
<1>0. Counters /\ MaxRevision \in Nat /\ connection.id # 0
  BY CountersCount, ForgeAssumption DEF Edit, Found
<1>1. /\ connection' \in Connection
      /\ connection'.id = connection.id /\ connection'.revision = connection.revision + 1
      /\ connection'.generation = connection.generation
      /\ connection'.org = connection.org
  <2>1. connection.revision + 1 \in Revision
    BY <1>0 DEF Edit, Revision, Advances, Counters
  <2>2. connection' = [connection EXCEPT !.url = url, !.revision = connection.revision + 1]
    BY DEF Edit
  <2>3. connection \in Connection
    BY DEF TypeOK, Connection
  <2> QED BY <2>1, <2>2, <2>3 DEF Connection
<1>2. UNCHANGED <<created, evidence, preview, checks, bindings, locals>>
  BY DEF Edit, evidenceVars, bindingVars
<1>3. TypeOK'
  BY <1>0, <1>1, <1>2 DEF TypeOK, Connection, Found
<1>4. BindingsAreHome'
  BY <1>1, <1>2 DEF BindingsAreHome, Bound
<1>5. EvidenceIsPast' /\ EvidenceIsOfPreview'
  BY <1>0, <1>1, <1>2 DEF EvidenceIsPast, EvidenceIsOfPreview, Observed, Counters, Revision
<1> QED BY <1>2, <1>3, <1>4, <1>5 DEF ChecksAreReserved

LEMMA ResetStep ==
  ASSUME ConnectionInv, Reset
  PROVE  ConnectionInv'
<1> USE DEF ConnectionInv
<1>1. /\ connection' = NoConnection /\ evidence' = NoEvidence /\ preview' = NoPreview
      /\ UNCHANGED <<created, checks, bindings, locals>> /\ ~HasBindings
  BY DEF Reset, LostEvidence, bindingVars, Removable
<1>2. TypeOK'
  BY <1>1, ForgeAssumption
  DEF TypeOK, NoConnection, NoEvidence, NoPreview, Revision, Found
<1>3. BindingsAreHome'
  BY <1>1 DEF BindingsAreHome, HasBindings
<1>4. EvidenceIsPast' /\ EvidenceIsOfPreview'
  BY <1>1 DEF EvidenceIsPast, EvidenceIsOfPreview, Observed, NoConnection, NoEvidence
<1> QED BY <1>1, <1>2, <1>3, <1>4 DEF ChecksAreReserved

(* A reservation makes the evidence old before the forge is asked.         *)
LEMMA ReserveCheckStep ==
  ASSUME ConnectionInv, ReserveCheck
  PROVE  ConnectionInv'
<1> USE DEF ConnectionInv
<1>0. Counters /\ MaxRevision \in Nat /\ connection.id # 0 /\ connection \in Connection
  BY CountersCount, ForgeAssumption DEF ReserveCheck, Found, TypeOK, Connection
<1>1. /\ connection' \in Connection
      /\ connection'.id = connection.id /\ connection'.revision = connection.revision
      /\ connection'.generation = connection.generation + 1
      /\ connection'.org = connection.org
  <2>1. connection.generation + 1 \in Revision
    BY <1>0 DEF ReserveCheck, Revision, Advances, Counters
  <2>2. connection' = [connection EXCEPT !.generation = connection.generation + 1]
    BY DEF ReserveCheck
  <2> QED BY <1>0, <2>1, <2>2 DEF Connection
<1>2. UNCHANGED <<created, evidence, preview, bindings, locals>>
  BY DEF ReserveCheck, bindingVars
<1>3. TypeOK'
  BY <1>0, <1>1, <1>2 DEF TypeOK, Connection, Found
<1>4. BindingsAreHome'
  BY <1>1, <1>2 DEF BindingsAreHome, Bound
<1>5. EvidenceIsPast' /\ EvidenceIsOfPreview'
  BY <1>0, <1>1, <1>2 DEF EvidenceIsPast, EvidenceIsOfPreview, Observed, Counters, Revision
<1>6. ChecksAreReserved'
  <2>1. checks' = checks \cup {Snapshot(connection')} /\ Snapshot(connection').id # 0
    BY <1>0, <1>1 DEF ReserveCheck, Snapshot
  <2> QED BY <2>1 DEF ChecksAreReserved
<1> QED BY <1>3, <1>4, <1>5, <1>6

(* A check commits on the row it reserved, or not at all.                  *)
LEMMA FittingCheck ==
  ASSUME ChecksAreReserved, NEW c \in checks, Fits(c)
  PROVE  /\ connection.id # 0
         /\ c.revision = connection.revision /\ c.generation = connection.generation
         /\ c.org = connection.org
BY DEF Fits, Snapshot, ChecksAreReserved

LEMMA PersistFailureStep ==
  ASSUME ConnectionInv, NEW c \in checks, PersistFailure(c)
  PROVE  ConnectionInv'
<1> USE DEF ConnectionInv
<1>0. /\ Counters /\ connection.id # 0
      /\ c.revision = connection.revision /\ c.generation = connection.generation
  BY CountersCount, FittingCheck DEF PersistFailure
<1>1. /\ evidence' = [revision |-> connection.revision, generation |-> connection.generation,
                      observed |-> FALSE]
      /\ UNCHANGED <<connection, created, preview, bindings, locals>>
      /\ checks' \subseteq checks
  BY <1>0 DEF PersistFailure, connectionVars, bindingVars
<1>2. TypeOK'
  BY <1>0, <1>1 DEF TypeOK, Counters, Found
<1>3. BindingsAreHome'
  BY <1>1 DEF BindingsAreHome, Bound
<1>4. EvidenceIsPast' /\ EvidenceIsOfPreview'
  BY <1>0, <1>1 DEF EvidenceIsPast, EvidenceIsOfPreview, Observed, Counters, Revision
<1> QED BY <1>1, <1>2, <1>3, <1>4 DEF ChecksAreReserved

LEMMA PersistObservationStep ==
  ASSUME ConnectionInv, NEW c \in checks, NEW org \in Organizations,
         NEW seen \in [Remotes -> Names \cup {None}], PersistObservation(c, org, seen)
  PROVE  ConnectionInv' /\ Found /\ connection.org \in {None, org} /\ connection'.org = org
<1> USE DEF ConnectionInv
<1>0. /\ Counters /\ connection.id # 0 /\ connection \in Connection
      /\ c.revision = connection.revision /\ c.generation = connection.generation
      /\ connection.org \in {None, org} /\ org # None
  BY CountersCount, FittingCheck, ForgeAssumption
  DEF PersistObservation, ValidObservation, TypeOK, Connection
<1>1. /\ evidence' = [revision |-> connection.revision, generation |-> connection.generation,
                      observed |-> TRUE]
      /\ preview' = [generation |-> connection.generation, seen |-> seen]
      /\ connection' = [connection EXCEPT !.org = org]
      /\ UNCHANGED <<created, bindings, locals>>
      /\ checks' \subseteq checks
  BY <1>0 DEF PersistObservation, bindingVars
<1>2. /\ connection' \in Connection /\ connection'.id = connection.id
      /\ connection'.revision = connection.revision
      /\ connection'.generation = connection.generation /\ connection'.org = org
  BY <1>0, <1>1 DEF Connection
<1>3. TypeOK'
  BY <1>0, <1>1, <1>2 DEF TypeOK, Connection, Counters, Found
<1>4. BindingsAreHome'
  BY <1>0, <1>1, <1>2 DEF BindingsAreHome, Bound
<1>5. EvidenceIsPast' /\ EvidenceIsOfPreview'
  BY <1>0, <1>1, <1>2
  DEF EvidenceIsPast, EvidenceIsOfPreview, Observed, Bound, Counters, Revision
<1> QED BY <1>0, <1>1, <1>2, <1>3, <1>4, <1>5 DEF ChecksAreReserved, Found

(* What only moves the bindings' or the identities' revision leaves        *)
(* everything that was observed as it is.                                  *)
CounterMoves ==
  /\ connection' \in Connection
  /\ connection'.id = connection.id /\ connection'.url = connection.url
  /\ connection'.org = connection.org /\ connection'.revision = connection.revision
  /\ connection'.generation = connection.generation
  /\ UNCHANGED <<created, evidence, preview, checks, locals>>

LEMMA CounterStep ==
  ASSUME ConnectionInv, Found, CounterMoves, bindings' \in [Repos -> Remotes \cup {None}],
         BindingsAreHome'
  PROVE  ConnectionInv'
<1> USE DEF ConnectionInv, CounterMoves
<1>1. TypeOK'
  BY DEF TypeOK, Connection, Found
<1>2. EvidenceIsPast' /\ EvidenceIsOfPreview' /\ ChecksAreReserved'
  BY DEF EvidenceIsPast, EvidenceIsOfPreview, Observed, Bound, ChecksAreReserved
<1> QED BY <1>1, <1>2

LEMMA BindStep ==
  ASSUME ConnectionInv, NEW r \in Repos, NEW m \in Remotes, Bind(r, m)
  PROVE  /\ ConnectionInv' /\ CounterMoves /\ bindings' = [bindings EXCEPT ![r] = m]
         /\ connection'.binding = connection.binding + 1
<1> USE DEF ConnectionInv
<1>0. Counters /\ Found /\ connection \in Connection
  BY CountersCount DEF Bind, TypeOK, Connection
<1>1. connection.binding + 1 \in Revision
  BY <1>0, ForgeAssumption DEF Bind, Revision, Advances, Counters
<1>2. connection' = [connection EXCEPT !.binding = connection.binding + 1]
  BY DEF Bind
<1>3. CounterMoves /\ connection'.binding = connection.binding + 1
  BY <1>0, <1>1, <1>2 DEF Connection, CounterMoves, Bind, evidenceVars
<1>4. bindings' = [bindings EXCEPT ![r] = m] /\ Bound /\ \A q \in Repos : bindings[q] # m
  BY DEF Bind, Ready, Current
<1>5. bindings' \in [Repos -> Remotes \cup {None}] /\ BindingsAreHome'
  BY <1>3, <1>4, ForgeAssumption DEF TypeOK, BindingsAreHome, Bound, CounterMoves
<1> QED BY <1>0, <1>3, <1>4, <1>5, CounterStep

LEMMA UnbindStep ==
  ASSUME ConnectionInv, NEW r \in Repos, Unbind(r)
  PROVE  /\ ConnectionInv' /\ CounterMoves /\ bindings' = [bindings EXCEPT ![r] = None]
         /\ connection'.binding = connection.binding + 1
<1> USE DEF ConnectionInv
<1>0. Counters /\ Found /\ connection \in Connection
  BY CountersCount DEF Unbind, TypeOK, Connection
<1>1. connection.binding + 1 \in Revision
  BY <1>0, ForgeAssumption DEF Unbind, Revision, Advances, Counters
<1>2. connection' = [connection EXCEPT !.binding = connection.binding + 1]
  BY DEF Unbind, Unbinds
<1>3. CounterMoves /\ connection'.binding = connection.binding + 1
  BY <1>0, <1>1, <1>2 DEF Connection, CounterMoves, Unbind, evidenceVars
<1>4. bindings' = [bindings EXCEPT ![r] = None]
  BY DEF Unbind
<1>5. bindings' \in [Repos -> Remotes \cup {None}] /\ BindingsAreHome'
  BY <1>3, <1>4, ForgeAssumption DEF TypeOK, BindingsAreHome, Bound, CounterMoves
<1> QED BY <1>0, <1>3, <1>4, <1>5, CounterStep

(* What is not on the connection's rows.                                   *)
LEMMA OtherStep ==
  ASSUME ConnectionInv, UNCHANGED <<connection, created, evidence, preview, bindings>>,
         checks' \subseteq checks, locals' \in [Repos -> Names \cup {None}]
  PROVE  ConnectionInv'
BY DEF ConnectionInv, TypeOK, Found, ChecksAreReserved, EvidenceIsPast, BindingsAreHome, Bound,
       EvidenceIsOfPreview, Observed

LEMMA NextPreserves ==
  ASSUME ConnectionInv, [Next]_vars
  PROVE  ConnectionInv'
<1>1. CASE ConnectionStep
  BY <1>1, CreateStep, EditStep, ResetStep DEF ConnectionStep
<1>2. CASE CheckStep
  <2>1. ASSUME NEW c \in checks, AbandonCheck(c) PROVE ConnectionInv'
    <3>1. /\ UNCHANGED <<connection, created, evidence, preview, bindings, locals>>
          /\ checks' \subseteq checks
      BY <2>1 DEF AbandonCheck, connectionVars, bindingVars
    <3>2. locals \in [Repos -> Names \cup {None}]
      BY DEF ConnectionInv, TypeOK
    <3> QED BY <3>1, <3>2, OtherStep
  <2> QED
    BY <1>2, <2>1, ReserveCheckStep, PersistFailureStep, PersistObservationStep DEF CheckStep
<1>3. CASE BindingStep
  <2>1. ASSUME NEW r \in Repos, NEW n \in Names, AddRepository(r, n) PROVE ConnectionInv'
    <3>1. UNCHANGED <<connection, created, evidence, preview, bindings, checks>>
      BY <2>1 DEF AddRepository, connectionVars, evidenceVars
    <3>2. locals' \in [Repos -> Names \cup {None}]
      BY <2>1 DEF AddRepository, ConnectionInv, TypeOK
    <3> QED BY <3>1, <3>2, OtherStep
  <2> QED BY <1>3, <2>1, BindStep, UnbindStep DEF BindingStep
<1>4. CASE UNCHANGED vars
  <2>1. UNCHANGED <<connection, created, evidence, preview, bindings, checks, locals>>
    BY <1>4 DEF vars, connectionVars, evidenceVars, bindingVars
  <2>2. locals \in [Repos -> Names \cup {None}]
    BY DEF ConnectionInv, TypeOK
  <2> QED BY <2>1, <2>2, OtherStep
<1> QED BY <1>1, <1>2, <1>3, <1>4 DEF Next

(* Rows, evidence and bindings stay in step (service.go, check.go,         *)
(* binding.go).                                                            *)
THEOREM ConnectionStaysSound == Spec => []ConnectionInv
BY InitEstablishes, NextPreserves, PTL DEF Spec
-----------------------------------------------------------------------------
(* What is ready to be bound is in nobody's row: a bound repository's      *)
(* group takes in its own locator and its remote's, whichever of them the  *)
(* offered pair is at.                                                     *)
LEMMA BoundIsConsumed ==
  ASSUME NEW q \in Repos, bindings[q] # None, NEW m \in Remotes, preview.seen[m] # None,
         locals[q] = preview.seen[m] \/ preview.seen[bindings[q]] = preview.seen[m]
  PROVE  m \in Consumed
<1>1. m \in Group(q)
  BY DEF Group, SeenAt
<1> QED BY <1>1 DEF Consumed

LEMMA ReadyIsFree ==
  ASSUME NEW r \in Repos, NEW m \in Remotes, Ready(r, m)
  PROVE  /\ preview.seen[m] # None /\ m \notin Consumed
         /\ LocalsAt(preview.seen[m]) = {r} /\ locals[r] = preview.seen[m]
         /\ SeenAt(preview.seen[m]) \ Consumed = {m}
BY DEF Ready, LocalsAt

(* Bindings are kept: the domains, one repository for a remote, evidence   *)
(* only of the preview that is stored, and nothing offered that is bound   *)
(* (binding.go, check.go).                                                 *)
THEOREM BindingsStayKept == Spec => []BindingsAreKept
<1>1. ASSUME TypeOK PROVE ReadyIsUnbound
  <2> SUFFICES ASSUME NEW r \in Repos, NEW m \in Remotes, Ready(r, m)
               PROVE  bindings[r] = None /\ \A q \in Repos : bindings[q] # m
    BY DEF ReadyIsUnbound
  <2>1. bindings[r] = None
    BY ReadyIsFree, BoundIsConsumed
  <2>2. ASSUME NEW q \in Repos, bindings[q] = m PROVE FALSE
    BY <2>2, ReadyIsFree, BoundIsConsumed, ForgeAssumption
  <2> QED BY <2>1, <2>2
<1>2. ConnectionInv => BindingsAreKept
  BY <1>1 DEF ConnectionInv, BindingsAreKept
<1> QED BY <1>2, ConnectionStaysSound, PTL

(* A pair that was ready to be bound is shown as current once it is: the   *)
(* one remote at its locator, the one repository there, and no other bound *)
(* row that accounts for either (binding.go).                              *)
THEOREM FreshBindingsAreCurrent == Spec => FreshBindingIsCurrent
<1>1. ASSUME ConnectionInv, NEW r \in Repos, NEW m \in Remotes, Bind(r, m)
      PROVE  RowState(r)' = "current"
  <2> DEFINE n == preview.seen[m]
  <2>1. /\ n # None /\ m \notin Consumed /\ LocalsAt(n) = {r} /\ locals[r] = n
        /\ SeenAt(n) \ Consumed = {m} /\ Current
        /\ bindings[r] = None /\ \A q \in Repos : bindings[q] # m
    BY <1>1, ReadyIsFree DEF Bind, Ready
  <2>2. /\ CounterMoves /\ bindings' = [bindings EXCEPT ![r] = m]
        /\ bindings \in [Repos -> Remotes \cup {None}]
        /\ preview.seen \in [Remotes -> Names \cup {None}]
    BY <1>1, BindStep DEF ConnectionInv, TypeOK
  <2>3. SeenAt(n) = {m}
    <3> SUFFICES ASSUME NEW x \in Remotes, preview.seen[x] = n, x # m PROVE FALSE
      BY <2>1 DEF SeenAt
    <3>1. x \in Consumed
      BY <2>1 DEF SeenAt
    <3>2. PICK q \in Repos : bindings[q] # None /\ x \in Group(q)
      BY <3>1 DEF Consumed
    <3>3. locals[q] = n \/ preview.seen[bindings[q]] = n
      BY <3>2 DEF Group, SeenAt
    <3> QED BY <2>1, <3>2, <3>3, BoundIsConsumed
  <2>4. /\ bindings'[r] = m /\ preview' = preview /\ locals' = locals /\ Current'
    BY <2>1, <2>2 DEF CounterMoves, Current, Bound, Observed
  <2>5. SeenAt(n)' = {m} /\ LocalsAt(n)' = {r} /\ preview'.seen[m] = n /\ locals'[r] = n
    BY <2>1, <2>3, <2>4 DEF SeenAt, LocalsAt
  <2>6. ~Conflicting(r)'
    <3>1. SeenAt(locals[r])' = {m} /\ LocalsAt(locals[r])' = {r}
      BY <2>1, <2>3, <2>4 DEF SeenAt, LocalsAt
    <3>2. SeenAt(preview.seen[bindings[r]])' = {m}
      BY <2>3, <2>4 DEF SeenAt
    <3>3. Cardinality({m}) = 1
      BY FS_Singleton
    <3>4. ~(Cardinality(SeenAt(preview.seen[bindings[r]])') > 1)
      BY <3>2, <3>3
    <3> QED BY <2>4, <3>1, <3>4 DEF Conflicting
  <2> QED BY <2>1, <2>4, <2>5, <2>6 DEF RowState
<1>2. ConnectionInv /\ [Next]_vars =>
        [\A r \in Repos : (bindings'[r] # bindings[r] /\ bindings'[r] # None)
          => RowState(r)' = "current"]_vars
  <2> SUFFICES ASSUME ConnectionInv, Next, NEW r \in Repos,
                      bindings'[r] # bindings[r], bindings'[r] # None
               PROVE  RowState(r)' = "current"
    OBVIOUS
  <2>1. UNCHANGED bindings \/ BindingStep
    BY DEF Next, ConnectionStep, Create, Edit, Reset, CheckStep, ReserveCheck, PersistFailure,
       PersistObservation, AbandonCheck, bindingVars
  <2>2. PICK q \in Repos, m \in Remotes : Bind(q, m) /\ bindings' = [bindings EXCEPT ![q] = m]
    BY <2>1, UnbindStep DEF BindingStep, Bind, AddRepository, ConnectionInv, TypeOK
  <2>3. q = r
    BY <2>2 DEF ConnectionInv, TypeOK
  <2> QED BY <1>1, <2>2, <2>3
<1> QED BY <1>2, ConnectionStaysSound, PTL DEF Spec, FreshBindingIsCurrent

(* A form that fits by its revisions shows what is in the row: no counter  *)
(* goes back, no id is used again, whatever changes moves its own counter, *)
(* and a bound organisation and its installation stay (service.go).        *)
THEOREM FormsStayCurrent == Spec => FormsSeeTheRow
<1> DEFINE Content ==
             /\ created' >= created /\ (Found /\ ~SameRow => ~Found')
             /\ SameRow => /\ connection'.revision >= connection.revision
                           /\ connection'.generation >= connection.generation
                           /\ connection'.binding >= connection.binding
                           /\ evidence'.generation >= evidence.generation
             /\ (SameRow /\ connection'.url # connection.url) =>
                   connection'.revision > connection.revision
             /\ bindings' # bindings => connection'.binding > connection.binding
             /\ (SameRow /\ evidence' # evidence) => evidence'.generation = connection.generation
           Fixed == SameRow => /\ Bound => connection'.org = connection.org
                               /\ (Bound \/ HasIdentities) => connection'.url = connection.url
<1>1. ASSUME ConnectionInv, Next PROVE Content /\ Fixed
  <2>0. /\ connection.revision \in Nat /\ connection.generation \in Nat
        /\ connection.binding \in Nat /\ evidence.generation \in Nat /\ created \in Nat
        /\ connection \in Connection /\ connection.id \in {0, created}
        /\ EvidenceIsPast /\ MaxConnections \in Nat
    BY <1>1, CountersCount, ForgeAssumption DEF ConnectionInv, TypeOK, Connection, Counters
  <2>1. ASSUME NEW url \in Urls, Create(url) PROVE Content /\ Fixed
    <3>1. /\ connection.id = 0 /\ connection'.id = created + 1 /\ created' = created + 1
          /\ bindings' = bindings
      BY <2>0, <2>1 DEF Create, Found, NoConnection, bindingVars
    <3> QED BY <2>0, <3>1 DEF SameRow, Found
  <2>2. ASSUME NEW url \in Urls, Edit(url) PROVE Content /\ Fixed
    <3>1. /\ connection'.id = connection.id /\ connection'.revision = connection.revision + 1
          /\ connection'.generation = connection.generation
          /\ connection'.binding = connection.binding /\ connection'.org = connection.org
          /\ connection'.url # connection.url => ~Bound /\ ~HasIdentities
          /\ UNCHANGED <<created, bindings, evidence>>
      BY <2>0, <2>2 DEF Edit, Connection, MayMove, evidenceVars, bindingVars
    <3> QED BY <2>0, <3>1 DEF SameRow, Found
  <2>3. ASSUME Reset PROVE Content /\ Fixed
    <3>1. connection'.id = 0 /\ connection.id # 0 /\ UNCHANGED <<created, bindings>>
      BY <2>3 DEF Reset, Found, NoConnection, bindingVars
    <3> QED BY <2>0, <3>1 DEF SameRow, Found
  <2>4. CASE ReserveCheck
    <3>1. /\ connection'.id = connection.id /\ connection'.revision = connection.revision
          /\ connection'.generation = connection.generation + 1
          /\ connection'.binding = connection.binding /\ connection'.org = connection.org
          /\ connection'.url = connection.url /\ UNCHANGED <<created, bindings, evidence>>
      BY <2>0, <2>4 DEF ReserveCheck, Connection, bindingVars
    <3> QED BY <2>0, <3>1 DEF SameRow, Found
  <2>5. ASSUME NEW c \in checks, PersistFailure(c) PROVE Content /\ Fixed
    <3>1. /\ UNCHANGED <<connection, created, bindings>>
          /\ evidence'.generation = connection.generation
      BY <1>1, <2>5, FittingCheck DEF ConnectionInv, PersistFailure, connectionVars, bindingVars
    <3> QED BY <2>0, <3>1 DEF SameRow, Found, EvidenceIsPast
  <2>6. ASSUME NEW c \in checks, NEW org \in Organizations,
               NEW seen \in [Remotes -> Names \cup {None}], PersistObservation(c, org, seen)
        PROVE  Content /\ Fixed
    <3>1. /\ connection.org \in {None, org} /\ connection'.org = org
          /\ connection'.id = connection.id /\ connection'.revision = connection.revision
          /\ connection'.generation = connection.generation
          /\ connection'.binding = connection.binding /\ connection'.url = connection.url
          /\ UNCHANGED <<created, bindings>>
      BY <1>1, <2>0, <2>6, PersistObservationStep DEF PersistObservation, Connection, bindingVars
    <3>2. evidence'.generation = connection.generation
      BY <1>1, <2>6, FittingCheck DEF ConnectionInv, PersistObservation
    <3> QED BY <2>0, <3>1, <3>2 DEF SameRow, Found, Bound, EvidenceIsPast
  <2>7. ASSUME NEW r \in Repos, (\E m \in Remotes : Bind(r, m)) \/ Unbind(r) PROVE Content /\ Fixed
    <3>1. CounterMoves /\ connection'.binding = connection.binding + 1
      BY <1>1, <2>7, BindStep, UnbindStep
    <3> QED BY <2>0, <3>1 DEF CounterMoves, SameRow, Found
  <2>8. ASSUME UNCHANGED <<connection, created, evidence, bindings>> PROVE Content /\ Fixed
    BY <2>0, <2>8 DEF SameRow, Found
  <2>9. ASSUME \/ \E c \in checks : AbandonCheck(c)
               \/ \E r \in Repos, n \in Names : AddRepository(r, n)
        PROVE  UNCHANGED <<connection, created, evidence, bindings>>
    BY <2>9 DEF AbandonCheck, AddRepository, connectionVars, evidenceVars, bindingVars
  <2> HIDE DEF Content, Fixed
  <2> QED
    BY <1>1, <2>1, <2>2, <2>3, <2>4, <2>5, <2>6, <2>7, <2>8, <2>9
    DEF Next, ConnectionStep, CheckStep, BindingStep
<1>2. ConnectionInv /\ [Next]_vars => [Content]_vars /\ [Fixed]_vars
  <2> HIDE DEF Content, Fixed
  <2> QED BY <1>1
<1>3. Spec => ContentMovesRevision
  BY <1>2, ConnectionStaysSound, PTL DEF Spec, ContentMovesRevision
<1>4. Spec => BoundIsFixed
  BY <1>2, ConnectionStaysSound, PTL DEF Spec, BoundIsFixed
<1> QED BY <1>3, <1>4 DEF FormsSeeTheRow

-----------------------------------------------------------------------------
(***************************************************************************)
(* Snapshots of who has access.                                            *)
(*                                                                         *)
(* A snapshot is shown as current by its revisions and by how many users   *)
(* and repositories it covers.  That these pin down which ones they are    *)
(* rests on CoversScope: at a revision that is still in force the scope    *)
(* has at most shrunk, and it shrinks only once the revision is exhausted. *)
(***************************************************************************)
RunRow == [id : Nat, connection : Nat, trigger : {"manual", "periodic"}, config : Revision,
           generation : Revision, binding : Revision, identity : Revision,
           people : SUBSET Users, repos : SUBSET Repos, result : Results, young : BOOLEAN]

(* What retention leaves: one running row, the newest; one complete row;   *)
(* and one other, newer than the complete one.                             *)
RunsAreRetained(S) ==
  /\ S \subseteq RunRow
  /\ \A x, y \in S :
       /\ x.id = y.id => x = y
       /\ x.result = "running" => y.id <= x.id
       /\ x.result = "complete" /\ y.result = "complete" => x = y
       /\ x.result \notin {"running", "complete"} /\ y.result # "running" => y.id <= x.id
  /\ \A x \in S : x.young => x.result = "running"

CoversScope(x) ==
  /\ x.connection = connection.id /\ x.id \in 1..issued
  /\ x.people # {} /\ IsFiniteSet(x.people) /\ x.repos # {} /\ IsFiniteSet(x.repos)
  /\ 0 < x.identity /\ x.identity <= connection.identity /\ x.binding <= connection.binding
  /\ x.identity = connection.identity => People \subseteq x.people
  /\ x.binding = connection.binding => BoundRepos \subseteq x.repos

(* An attempt carries what it wrote into its row.                          *)
CarriesRow(c, x) == /\ x.people = c.people /\ x.repos = c.repos
                    /\ x.identity = c.identity /\ x.binding = c.binding

AttemptsCarryRows ==
  /\ executing \subseteq RunRow
  /\ \A c \in executing : c.id \in 1..issued /\ \A x \in RunsOf(c) : CarriesRow(c, x)

ScopeIsCounted ==
  /\ DOMAIN identities = Users /\ IsFiniteSet(People) /\ IsFiniteSet(BoundRepos)
  /\ People # {} => Found /\ connection.identity > 0

(* The complete row is what the observations are of, while it is current.  *)
CompleteIsObserved ==
  \A x \in Complete(runs) :
    x.identity = connection.identity /\ x.binding = connection.binding =>
      \A p \in Listed : observations[p].run = x.id

ScheduleIsCounted == periodic \in [revision : Revision, due : {Disabled, "later", "due"}]
                     /\ (periodic.due # Disabled => periodic.revision > 0)

ObservationTypes ==
  observations \in [Users \X Repos -> [run : 0..issued, confirmed : 0..issued]]

ShadowInv ==
  /\ ConnectionInv /\ issued \in Nat /\ ScopeIsCounted
  /\ RunsAreRetained(runs) /\ (\A x \in runs : CoversScope(x)) /\ AttemptsCarryRows
  /\ ScheduleIsCounted /\ ObservationTypes /\ ObservationsAreLive /\ CompleteIsObserved

-----------------------------------------------------------------------------
(* Rows and their retention.                                               *)
EndOf(x, result) == [x EXCEPT !.result = result, !.young = FALSE]
Alike(x, y) == /\ x.id = y.id /\ x.connection = y.connection /\ x.people = y.people
               /\ x.repos = y.repos /\ x.identity = y.identity /\ x.binding = y.binding
               /\ x.config = y.config /\ x.generation = y.generation /\ x.trigger = y.trigger

LEMMA EndOfFields ==
  ASSUME NEW x \in RunRow, NEW result \in Results
  PROVE  /\ EndOf(x, result) \in RunRow /\ Alike(x, EndOf(x, result))
         /\ EndOf(x, result).result = result /\ EndOf(x, result).young = FALSE
BY DEF EndOf, RunRow, Alike

LEMMA AgedFields ==
  ASSUME NEW x \in RunRow
  PROVE  LET aged == [x EXCEPT !.young = FALSE]
         IN aged \in RunRow /\ Alike(x, aged) /\ aged.result = x.result /\ aged.young = FALSE
BY DEF RunRow, Alike

LEMMA OneRuns ==
  ASSUME NEW S, RunsAreRetained(S), NEW x \in S, x.result = "running", NEW y \in S, y # x
  PROVE  y.result # "running" /\ y.id < x.id
<1>1. x.id \in Nat /\ y.id \in Nat
  BY DEF RunsAreRetained, RunRow
<1> QED BY <1>1 DEF RunsAreRetained

(* The end of a run leaves that run, and of the others the last complete   *)
(* one unless it is complete itself.                                       *)
LEMMA EndedIs ==
  ASSUME NEW S, RunsAreRetained(S), NEW x \in S, x.result = "running",
         NEW result \in Results \ {"running"}
  PROVE  Ended(S, x, result) =
           {EndOf(x, result)} \cup {y \in Complete(S) : result # "complete"}
<1> DEFINE e == EndOf(x, result)
           T == (S \ {x}) \cup {e}
<1>0. x \in RunRow /\ S \subseteq RunRow
  BY DEF RunsAreRetained
<1>1. e.id = x.id /\ e.result = result /\ x.id \in Nat
  <2>1. Alike(x, e) /\ e.result = result
    BY <1>0, EndOfFields
  <2> HIDE DEF e
  <2> QED BY <1>0, <2>1 DEF Alike, RunRow
<1>2. \A y \in S \ {x} : y.result # "running" /\ y.id < x.id /\ y.id \in Nat
  BY <1>0, <1>1, OneRuns DEF RunRow
<1>3. Ended(S, x, result) = Retained(T)
  BY DEF Ended, EndOf
<1> HIDE DEF e
<1>4. Terminal(T) = T
  BY <1>1, <1>2 DEF Terminal
<1>5. NewestOf(T) = {e}
  BY <1>1, <1>2 DEF NewestOf
<1>6. CASE result = "complete"
  <2>1. NewestOf(Complete(T)) = {e}
    BY <1>1, <1>2, <1>6 DEF NewestOf, Complete
  <2> QED BY <1>3, <1>4, <1>5, <1>6, <2>1 DEF Retained, e
<1>7. CASE result # "complete"
  <2>1. Complete(T) = Complete(S)
    BY <1>1, <1>7 DEF Complete
  <2>2. NewestOf(Complete(S)) = Complete(S)
    <3>1. \A y, z \in Complete(S) : y = z /\ y.id \in Nat
      BY <1>0 DEF RunsAreRetained, Complete, RunRow
    <3> QED BY <3>1 DEF NewestOf
  <2> QED BY <1>3, <1>4, <1>5, <1>7, <2>1, <2>2 DEF Retained, e
<1> QED BY <1>6, <1>7

LEMMA EndedRetains ==
  ASSUME NEW S, RunsAreRetained(S), NEW x \in S, x.result = "running",
         NEW result \in Results \ {"running"}
  PROVE  /\ RunsAreRetained(Ended(S, x, result))
         /\ \A y \in Ended(S, x, result) : y.result # "running" /\ \E z \in S : Alike(z, y)
<1> DEFINE e == EndOf(x, result)
           R == {e} \cup {y \in Complete(S) : result # "complete"}
<1>0. x \in RunRow /\ S \subseteq RunRow
  BY DEF RunsAreRetained
<1>1. /\ e \in RunRow /\ e.id = x.id /\ e.result = result /\ e.young = FALSE /\ x.id \in Nat
      /\ Alike(x, e) /\ S \subseteq RunRow
  <2>1. e \in RunRow /\ Alike(x, e) /\ e.result = result /\ e.young = FALSE
    BY <1>0, EndOfFields
  <2> HIDE DEF e
  <2> QED BY <1>0, <2>1 DEF Alike, RunRow
<1>2. \A y \in Complete(S) : /\ y \in S /\ y.result = "complete" /\ y.id < x.id /\ y.id \in Nat
                             /\ Alike(y, y) /\ ~y.young
  BY <1>1, OneRuns DEF Complete, Alike, RunsAreRetained, RunRow
<1>3. \A y, z \in Complete(S) : y = z
  BY DEF Complete, RunsAreRetained
<1> HIDE DEF e
<1>4. RunsAreRetained(R)
  <2>1. \A y, z \in R :
           /\ y.id = z.id => y = z
           /\ y.result = "complete" /\ z.result = "complete" => y = z
           /\ y.result # "running"
    BY <1>1, <1>2, <1>3
  <2>2. \A y, z \in R : y.result \notin {"running", "complete"} => z.id <= y.id
    BY <1>1, <1>2
  <2>3. R \subseteq RunRow /\ \A y \in R : ~y.young
    BY <1>1, <1>2
  <2> QED BY <2>1, <2>2, <2>3 DEF RunsAreRetained
<1>5. \A y \in R : y.result # "running" /\ \E z \in S : Alike(z, y)
  BY <1>1, <1>2
<1>6. Ended(S, x, result) = R
  BY EndedIs DEF e
<1> QED BY <1>4, <1>5, <1>6

(* The next attempt ends the one that nobody finished.                     *)
LEMMA RecoveredIs ==
  ASSUME NEW S, RunsAreRetained(S)
  PROVE  \/ /\ \A x \in S : x.result # "running"
            /\ Recovered(S) = S
         \/ \E x \in S : x.result = "running" /\ Recovered(S) = Ended(S, x, "failed")
<1> DEFINE Orphans == NewestOf(S) \ Terminal(S)
<1>1. Orphans = {x \in S : x.result = "running"}
  BY DEF RunsAreRetained, NewestOf, Terminal
<1>2. Recovered(S) = IF Orphans = {} THEN S ELSE Ended(S, CHOOSE x \in Orphans : TRUE, "failed")
  BY DEF Recovered
<1>3. CASE Orphans = {}
  BY <1>1, <1>2, <1>3
<1>4. CASE Orphans # {}
  <2> DEFINE o == CHOOSE x \in Orphans : TRUE
  <2>1. o \in Orphans
    BY <1>4
  <2> HIDE DEF o
  <2>2. o \in S /\ o.result = "running"
    BY <1>1, <2>1
  <2>3. Recovered(S) = Ended(S, o, "failed")
    BY <1>2, <1>4 DEF o
  <2> QED BY <2>2, <2>3
<1> QED BY <1>3, <1>4

LEMMA RecoveredRetains ==
  ASSUME NEW S, RunsAreRetained(S)
  PROVE  /\ RunsAreRetained(Recovered(S))
         /\ \A y \in Recovered(S) : y.result # "running" /\ \E z \in S : Alike(z, y)
         /\ Complete(Recovered(S)) = Complete(S)
<1>1. CASE (\A x \in S : x.result # "running") /\ Recovered(S) = S
  BY <1>1 DEF Alike
<1>2. ASSUME NEW x \in S, x.result = "running", Recovered(S) = Ended(S, x, "failed")
      PROVE  /\ RunsAreRetained(Recovered(S))
             /\ \A y \in Recovered(S) : y.result # "running" /\ \E z \in S : Alike(z, y)
             /\ Complete(Recovered(S)) = Complete(S)
  <2>1. "failed" \in Results \ {"running"} /\ x \in RunRow
    BY DEF Results, RunsAreRetained
  <2>2. Recovered(S) = {EndOf(x, "failed")} \cup Complete(S)
    BY <1>2, <2>1, EndedIs
  <2>3. EndOf(x, "failed").result = "failed"
    BY <2>1, EndOfFields
  <2>4. Complete(Recovered(S)) = Complete(S)
    BY <2>2, <2>3 DEF Complete
  <2> QED BY <1>2, <2>1, <2>4, EndedRetains
<1> QED BY <1>1, <1>2, RecoveredIs

(* At most three rows are kept.                                            *)
LEMMA AtMostOne ==
  ASSUME NEW S, \A x, y \in S : x = y
  PROVE  IsFiniteSet(S) /\ Cardinality(S) \in {0, 1}
<1>1. CASE S = {}
  BY <1>1, FS_EmptySet
<1>2. ASSUME NEW x \in S PROVE IsFiniteSet(S) /\ Cardinality(S) = 1
  <2>1. S = {x}
    BY <1>2
  <2> QED BY <2>1, FS_Singleton
<1> QED BY <1>1, <1>2

LEMMA ThreeRowsAreKept ==
  ASSUME NEW S, RunsAreRetained(S)
  PROVE  IsFiniteSet(S) /\ Cardinality(S) <= 3
<1> DEFINE A == {x \in S : x.result = "running"}
           B == {x \in S : x.result = "complete"}
           C == {x \in S : x.result \notin {"running", "complete"}}
<1>1. \A x, y \in A : x = y
  BY OneRuns
<1>2. \A x, y \in B : x = y
  BY DEF RunsAreRetained
<1>3. \A x, y \in C : x = y
  <2> SUFFICES ASSUME NEW x \in C, NEW y \in C PROVE x = y
    OBVIOUS
  <2>1. x.id \in Nat /\ y.id \in Nat
    BY DEF RunsAreRetained, RunRow
  <2>2. x.id <= y.id /\ y.id <= x.id /\ (x.id = y.id => x = y)
    BY DEF RunsAreRetained
  <2> QED BY <2>1, <2>2
<1>4. S = (A \cup B) \cup C
  OBVIOUS
<1> HIDE DEF A, B, C
<1>5. /\ IsFiniteSet(A) /\ Cardinality(A) \in {0, 1}
      /\ IsFiniteSet(B) /\ Cardinality(B) \in {0, 1}
      /\ IsFiniteSet(C) /\ Cardinality(C) \in {0, 1}
  BY <1>1, <1>2, <1>3, AtMostOne
<1>6. IsFiniteSet(A \cup B) /\ Cardinality(A \cup B) <= 2
  <2>1. /\ IsFiniteSet(A \cup B) /\ IsFiniteSet(A \cap B)
        /\ Cardinality(A \cup B) = Cardinality(A) + Cardinality(B) - Cardinality(A \cap B)
    BY <1>5, FS_Union, FS_Intersection
  <2>2. Cardinality(A \cap B) \in Nat /\ Cardinality(A \cup B) \in Nat
    BY <2>1, FS_CardinalityType
  <2> QED BY <1>5, <2>1, <2>2
<1>7. /\ IsFiniteSet((A \cup B) \cup C) /\ IsFiniteSet((A \cup B) \cap C)
      /\ Cardinality((A \cup B) \cup C)
           = Cardinality(A \cup B) + Cardinality(C) - Cardinality((A \cup B) \cap C)
  BY <1>5, <1>6, FS_Union, FS_Intersection
<1>8. Cardinality((A \cup B) \cap C) \in Nat /\ Cardinality(A \cup B) \in Nat
  BY <1>6, <1>7, FS_CardinalityType
<1> QED BY <1>4, <1>5, <1>6, <1>7, <1>8

-----------------------------------------------------------------------------
LEMMA ShadowInitEstablishes ==
  ASSUME ShadowInit
  PROVE  ShadowInv
<1>1. /\ Init /\ runs = {} /\ issued = 0 /\ executing = {} /\ periodic = NoPeriodic
      /\ observations = [p \in Users \X Repos |-> Unobserved]
  BY DEF ShadowInit
<1>2. ConnectionInv
  BY <1>1, InitEstablishes
<1>3. ScopeIsCounted
  <2>1. \A u \in Users : ~Linked(u)
    BY <1>1 DEF Init, Unlinked, Linked
  <2>2. \A r \in Repos : bindings[r] = None
    BY <1>1 DEF Init
  <2>3. People = {} /\ BoundRepos = {} /\ DOMAIN identities = Users
    BY <1>1, <2>1, <2>2 DEF People, BoundRepos, Init
  <2> QED BY <2>3, FS_EmptySet DEF ScopeIsCounted
<1>4. ScheduleIsCounted
  BY <1>1, ForgeAssumption DEF ScheduleIsCounted, NoPeriodic, Disabled, Revision
<1>5. ObservationTypes /\ ObservationsAreLive
  BY <1>1 DEF ObservationTypes, ObservationsAreLive, Unobserved
<1>6. RunsAreRetained(runs) /\ (\A x \in runs : CoversScope(x)) /\ AttemptsCarryRows
      /\ CompleteIsObserved
  BY <1>1 DEF RunsAreRetained, AttemptsCarryRows, CompleteIsObserved, Complete
<1> QED BY <1>1, <1>2, <1>3, <1>4, <1>5, <1>6 DEF ShadowInv

(* What only moves attempts leaves their scope.                            *)
LEMMA TablesStay ==
  ASSUME ShadowInv, UNCHANGED vars
  PROVE  /\ ConnectionInv' /\ ScopeIsCounted'
         /\ People' = People /\ BoundRepos' = BoundRepos /\ Listed' = Listed
         /\ connection' = connection
<1>1. ConnectionInv'
  BY NextPreserves DEF ShadowInv
<1>2. UNCHANGED <<connection, identities, bindings>>
  BY DEF vars, connectionVars, bindingVars, identityVars
<1>3. People' = People /\ BoundRepos' = BoundRepos /\ Listed' = Listed
  BY <1>2 DEF People, BoundRepos, Listed, LinkedUsers, BoundRepositories, Linked
<1> QED BY <1>1, <1>2, <1>3 DEF ShadowInv, ScopeIsCounted, Found

LEMMA CoverStays ==
  ASSUME NEW x, NEW y, CoversScope(x), Alike(x, y), UNCHANGED <<connection, issued>>,
         People' = People, BoundRepos' = BoundRepos
  PROVE  CoversScope(y)'
BY DEF CoversScope, Alike

LEMMA RunsStay ==
  ASSUME ShadowInv, UNCHANGED <<vars, issued>>, executing' \subseteq executing,
         RunsAreRetained(runs'), \A y \in runs' : \E x \in runs : Alike(x, y)
  PROVE  /\ ConnectionInv' /\ issued' \in Nat /\ ScopeIsCounted'
         /\ RunsAreRetained(runs)' /\ (\A x \in runs : CoversScope(x))' /\ AttemptsCarryRows'
<1>0. UNCHANGED vars /\ issued' = issued
  OBVIOUS
<1>1. /\ ConnectionInv' /\ issued' \in Nat /\ ScopeIsCounted'
      /\ People' = People /\ BoundRepos' = BoundRepos /\ connection' = connection
  BY <1>0, TablesStay DEF ShadowInv
<1>2. \A y \in runs' : CoversScope(y)'
  <2> SUFFICES ASSUME NEW y \in runs' PROVE CoversScope(y)'
    OBVIOUS
  <2>1. PICK x \in runs : Alike(x, y)
    OBVIOUS
  <2>2. CoversScope(x)
    BY DEF ShadowInv
  <2> QED BY <1>0, <1>1, <2>1, <2>2, CoverStays
<1>3. AttemptsCarryRows'
  <2>1. AttemptsCarryRows
    BY DEF ShadowInv
  <2>2. executing' \subseteq RunRow /\ \A c \in executing' : c.id \in 1..issued'
    BY <1>0, <2>1 DEF AttemptsCarryRows
  <2>3. ASSUME NEW c \in executing', NEW y \in runs', y.id = c.id PROVE CarriesRow(c, y)
    <3>1. PICK x \in runs : Alike(x, y)
      OBVIOUS
    <3>2. x \in RunsOf(c) /\ c \in executing
      BY <2>3, <3>1 DEF RunsOf, Alike
    <3> QED BY <2>1, <3>1, <3>2 DEF AttemptsCarryRows, CarriesRow, Alike
  <2> QED BY <2>2, <2>3 DEF AttemptsCarryRows, RunsOf
<1> QED BY <1>1, <1>2, <1>3 DEF RunsAreRetained

LEMMA ObservationsStay ==
  ASSUME ShadowInv, UNCHANGED <<vars, observations>>, issued' \in Nat, issued <= issued',
         Complete(runs') = Complete(runs)
  PROVE  ObservationTypes' /\ ObservationsAreLive' /\ CompleteIsObserved'
<1>0. UNCHANGED vars /\ observations' = observations /\ issued \in Nat
  BY DEF ShadowInv
<1>1. Listed' = Listed /\ connection' = connection
  BY <1>0, TablesStay
<1>2. ObservationTypes'
  <2> DEFINE I == 0..issued
             J == 0..issued'
  <2>1. I \subseteq J
    BY <1>0
  <2> HIDE DEF I, J
  <2>2. observations \in [Users \X Repos -> [run : I, confirmed : I]]
    BY DEF ShadowInv, ObservationTypes, I
  <2>3. observations \in [Users \X Repos -> [run : J, confirmed : J]]
    BY <2>1, <2>2
  <2> QED BY <1>0, <2>3 DEF ObservationTypes, J
<1>3. ObservationsAreLive'
  BY <1>0, <1>1 DEF ShadowInv, ObservationsAreLive, Readable
<1>4. CompleteIsObserved'
  BY <1>0, <1>1 DEF ShadowInv, CompleteIsObserved
<1> QED BY <1>2, <1>3, <1>4

-----------------------------------------------------------------------------
(* The end of an attempt.                                                  *)
LEMMA AttemptHasRow ==
  ASSUME ShadowInv, NEW c \in executing, NEW x \in RunningRow(c)
  PROVE  /\ x \in runs /\ x \in RunRow /\ x.result = "running" /\ x.id = c.id
         /\ CarriesRow(c, x) /\ CoversScope(x) /\ c \in RunRow /\ c.id \in 1..issued
<1>1. x \in RunsOf(c) /\ x \in runs /\ x.id = c.id /\ x.result = "running"
  BY DEF RunningRow, RunsOf
<1>2. AttemptsCarryRows /\ runs \subseteq RunRow /\ CoversScope(x)
  BY <1>1 DEF ShadowInv, RunsAreRetained
<1> QED BY <1>1, <1>2 DEF AttemptsCarryRows

LEMMA FinishEmptyStep ==
  ASSUME ShadowInv, NEW c \in executing, NEW result \in {"failed", "scope_changed"},
         FinishEmpty(c, result)
  PROVE  ShadowInv' /\ Complete(runs') = Complete(runs)
<1>1. /\ UNCHANGED <<vars, issued>> /\ UNCHANGED <<vars, observations>> /\ periodic' = periodic
      /\ issued' = issued /\ issued \in Nat /\ executing' \subseteq executing
      /\ RunsAreRetained(runs)
  BY DEF FinishEmpty, ShadowInv
<1>2. PICK x \in RunningRow(c) : runs' = Ended(runs, x, result)
  BY DEF FinishEmpty
<1>3. x \in runs /\ x \in RunRow /\ x.result = "running" /\ result \in Results \ {"running"}
      /\ result # "complete"
  BY AttemptHasRow DEF Results
<1>4. RunsAreRetained(runs') /\ \A y \in runs' : \E z \in runs : Alike(z, y)
  BY <1>1, <1>2, <1>3, EndedRetains
<1>5. Complete(runs') = Complete(runs)
  <2>1. runs' = {EndOf(x, result)} \cup Complete(runs)
    BY <1>1, <1>2, <1>3, EndedIs
  <2>2. EndOf(x, result).result # "complete"
    BY <1>3, EndOfFields
  <2> QED BY <2>1, <2>2 DEF Complete
<1>6. ObservationTypes' /\ ObservationsAreLive' /\ CompleteIsObserved'
  BY <1>1, <1>5, ObservationsStay
<1>7. ScheduleIsCounted'
  BY <1>1 DEF ShadowInv, ScheduleIsCounted
<1> QED BY <1>1, <1>4, <1>5, <1>6, <1>7, RunsStay DEF ShadowInv

LEMMA ObservedBefore ==
  ASSUME ShadowInv, NEW x \in runs, x.result = "running", NEW p \in Users \X Repos
  PROVE  /\ observations[p].run \in 0..issued /\ observations[p].confirmed \in 0..issued
         /\ observations[p].confirmed <= observations[p].run /\ observations[p].run <= x.id
         /\ x.id \in 1..issued
<1>1. /\ observations[p].run \in 0..issued /\ observations[p].confirmed \in 0..issued
      /\ issued \in Nat /\ x.id \in 1..issued
  <2>1. observations \in [Users \X Repos -> [run : 0..issued, confirmed : 0..issued]]
    BY DEF ShadowInv, ObservationTypes
  <2>2. issued \in Nat /\ CoversScope(x)
    BY DEF ShadowInv
  <2> QED BY <2>1, <2>2 DEF CoversScope
<1>2. CASE observations[p] = Unobserved
  BY <1>1, <1>2 DEF Unobserved
<1>3. CASE observations[p] # Unobserved
  <2>1. Readable(observations[p]) /\ \E y \in Complete(runs) : observations[p].run <= y.id
    BY <1>3 DEF ShadowInv, ObservationsAreLive
  <2>2. PICK y \in runs : y.result = "complete" /\ observations[p].run <= y.id
    BY <2>1 DEF Complete
  <2>3. y.id < x.id /\ y.id \in Nat
    BY <2>2, OneRuns DEF ShadowInv, RunsAreRetained, RunRow
  <2> QED BY <1>1, <2>1, <2>2, <2>3 DEF Readable
<1> QED BY <1>1, <1>2, <1>3

(* A snapshot is published over exactly the scope it asked about, on its   *)
(* own row, the newest there is.                                           *)
LEMMA PublishIs ==
  ASSUME ShadowInv, NEW c \in executing, NEW confirmed \in SUBSET Pairs(c), Publish(c, confirmed)
  PROVE  \E x \in runs :
           /\ x.result = "running" /\ x \in RunRow /\ x.id = c.id /\ c.id \in 1..issued
           /\ runs' = {EndOf(x, "complete")}
           /\ Listed = Pairs(c) /\ CoversScope(x)
           /\ \A p \in Users \X Repos :
                /\ p \in Listed => observations'[p] = Observation(c, p, confirmed)
                /\ p \notin Listed => observations'[p] = Unobserved /\ observations[p] = Unobserved
<1>1. PICK x \in RunningRow(c) : runs' = Ended(runs, x, "complete")
  BY DEF Publish
<1>2. /\ x \in runs /\ x \in RunRow /\ x.result = "running" /\ x.id = c.id
      /\ c.id \in 1..issued /\ CoversScope(x)
  BY AttemptHasRow
<1>3. runs' = {EndOf(x, "complete")}
  <2>1. "complete" \in Results \ {"running"} /\ RunsAreRetained(runs)
    BY DEF Results, ShadowInv
  <2> QED BY <1>1, <1>2, <2>1, EndedIs
<1>4. Listed = Pairs(c)
  BY DEF Publish, ScopeUnchanged, Listed, Pairs, LinkedUsers, BoundRepositories, People, BoundRepos
<1>5. \A p \in Users \X Repos : p \notin Listed => observations[p] = Unobserved
  BY DEF ShadowInv, ObservationsAreLive
<1>6. observations' = [p \in Users \X Repos |-> IF p \in Pairs(c) THEN Observation(c, p, confirmed)
                                                ELSE observations[p]]
  BY DEF Publish
<1> QED BY <1>2, <1>3, <1>4, <1>5, <1>6

LEMMA PublishStep ==
  ASSUME ShadowInv, NEW c \in executing, NEW confirmed \in SUBSET Pairs(c), Publish(c, confirmed)
  PROVE  ShadowInv'
<1>1. /\ UNCHANGED <<vars, issued>> /\ issued' = issued /\ issued \in Nat
      /\ executing' \subseteq executing /\ RunsAreRetained(runs) /\ UNCHANGED vars
  BY DEF Publish, ShadowInv
<1>2. PICK x \in runs :
           /\ x.result = "running" /\ x \in RunRow /\ x.id = c.id /\ c.id \in 1..issued
           /\ runs' = {EndOf(x, "complete")}
           /\ Listed = Pairs(c) /\ CoversScope(x)
           /\ \A p \in Users \X Repos :
                /\ p \in Listed => observations'[p] = Observation(c, p, confirmed)
                /\ p \notin Listed => observations'[p] = Unobserved /\ observations[p] = Unobserved
  BY PublishIs
<1> DEFINE e == EndOf(x, "complete")
<1>3. e \in RunRow /\ Alike(x, e) /\ e.result = "complete" /\ e.young = FALSE /\ e.id = c.id
  <2>1. e \in RunRow /\ Alike(x, e) /\ e.result = "complete" /\ e.young = FALSE
    BY <1>2, EndOfFields DEF Results
  <2> HIDE DEF e
  <2> QED BY <1>2, <2>1 DEF Alike
<1>4. runs' = {e} /\ Listed' = Listed /\ c.id \in Nat
  BY <1>1, <1>2, TablesStay
<1> HIDE DEF e
<1>5. RunsAreRetained(runs') /\ \A y \in runs' : \E z \in runs : Alike(z, y)
  BY <1>2, <1>3, <1>4 DEF RunsAreRetained
<1>6. \A p \in Users \X Repos :
        p \in Listed => /\ observations'[p].run = c.id /\ observations'[p].confirmed \in 0..issued
                        /\ observations'[p].confirmed <= c.id
                        /\ observations'[p] \in [run : 0..issued, confirmed : 0..issued]
  <2> SUFFICES ASSUME NEW p \in Users \X Repos, p \in Listed
               PROVE  /\ observations'[p].run = c.id
                      /\ observations'[p].confirmed \in 0..issued
                      /\ observations'[p].confirmed <= c.id
                      /\ observations'[p] \in [run : 0..issued, confirmed : 0..issued]
    OBVIOUS
  <2> DEFINE k == IF p \in confirmed THEN c.id ELSE observations[p].confirmed
  <2>1. observations'[p] = [run |-> c.id, confirmed |-> k]
    BY <1>2 DEF Observation
  <2>2. k \in 0..issued /\ k <= c.id
    BY <1>1, <1>2, ObservedBefore
  <2> HIDE DEF k
  <2> QED BY <1>1, <1>2, <2>1, <2>2
<1>7. ObservationTypes'
  <2> DEFINE I == 0..issued
             T == [run : I, confirmed : I]
  <2>1. 0 \in I
    BY <1>1
  <2>2. Unobserved \in T
    BY <2>1 DEF Unobserved
  <2>3. \A p \in Users \X Repos : observations'[p] \in T
    BY <1>2, <1>6, <2>2
  <2> HIDE DEF T
  <2>4. observations' = [p \in Users \X Repos |-> observations'[p]]
    BY DEF Publish
  <2>5. observations' \in [Users \X Repos -> T]
    BY <2>3, <2>4
  <2> QED BY <1>1, <2>5 DEF ObservationTypes, T
<1>8. ObservationsAreLive'
  <2> SUFFICES ASSUME NEW p \in Users \X Repos, observations'[p] # Unobserved
               PROVE  /\ p \in Listed' /\ Readable(observations'[p])
                      /\ \E y \in Complete(runs') : observations'[p].run <= y.id
    BY DEF ObservationsAreLive
  <2>1. p \in Listed
    BY <1>2
  <2>2. Readable(observations'[p])
    BY <1>2, <1>6, <2>1 DEF Readable
  <2>3. e \in Complete(runs')
    BY <1>3, <1>4 DEF Complete
  <2> QED BY <1>3, <1>4, <1>6, <2>1, <2>2, <2>3
<1>9. CompleteIsObserved'
  <2>1. Listed \subseteq Users \X Repos
    BY DEF Listed, LinkedUsers, BoundRepositories
  <2> QED BY <1>3, <1>4, <1>6, <2>1 DEF CompleteIsObserved, Complete
<1>10. ScheduleIsCounted'
  <2>1. PICK y \in RunningRow(c) : \E due \in Postponed(y) : periodic' = [periodic EXCEPT !.due = due]
    BY DEF Publish
  <2>2. PICK due \in Postponed(y) : periodic' = [periodic EXCEPT !.due = due]
    BY <2>1
  <2>3. ScheduleIsCounted
    BY DEF ShadowInv
  <2>4. due \in {Disabled, "later", "due"} /\ (due # Disabled => periodic.due # Disabled)
    BY <2>2, <2>3 DEF Postponed, ScheduleIsCounted, Disabled
  <2> QED BY <2>2, <2>3, <2>4 DEF ScheduleIsCounted
<1> QED BY <1>1, <1>5, <1>7, <1>8, <1>9, <1>10, RunsStay DEF ShadowInv

-----------------------------------------------------------------------------
(* The start of an attempt.                                                *)
LEMMA ReserveIs ==
  ASSUME ShadowInv, NEW trigger \in {"manual", "periodic"}, Reserve(trigger)
  PROVE  \E row \in RunRow :
           /\ row.id = issued + 1 /\ row.connection = connection.id
           /\ row.binding = connection.binding /\ row.identity = connection.identity
           /\ row.people = People /\ row.repos = BoundRepos
           /\ row.result = "running"
           /\ runs' = Recovered(runs) \cup {row} /\ executing' = executing \cup {row}
<1> DEFINE row == [id |-> issued + 1, connection |-> connection.id, trigger |-> trigger,
                   config |-> connection.revision, generation |-> connection.generation,
                   binding |-> connection.binding, identity |-> connection.identity,
                   people |-> People, repos |-> BoundRepos,
                   result |-> "running", young |-> TRUE]
<1>1. issued' = issued + 1 /\ issued \in Nat
  BY DEF Reserve, ShadowInv
<1>2. runs' = Recovered(runs) \cup {row} /\ executing' = executing \cup {row}
  BY <1>1 DEF Reserve
<1>3. row \in RunRow
  <2>1. /\ connection.id \in Nat /\ connection.revision \in Revision
        /\ connection.generation \in Revision /\ connection.binding \in Revision
        /\ connection.identity \in Revision
    <3> DEFINE Ids == 0..MaxConnections
    <3>1. Ids \subseteq Nat
      BY ForgeAssumption
    <3> HIDE DEF Ids
    <3>2. connection \in [id : Ids, url : Urls \cup {None},
               org : Organizations \cup {None}, revision : Revision,
               generation : Revision, binding : Revision, identity : Revision]
      BY DEF ShadowInv, ConnectionInv, TypeOK, Ids
    <3> QED BY <3>1, <3>2
  <2>2. People \in SUBSET Users /\ BoundRepos \in SUBSET Repos /\ "running" \in Results
    BY DEF People, BoundRepos, Results
  <2>3. issued + 1 \in Nat
    BY <1>1
  <2> QED BY <2>1, <2>2, <2>3 DEF RunRow
<1>4. /\ row.id = issued + 1 /\ row.connection = connection.id
      /\ row.binding = connection.binding /\ row.identity = connection.identity
      /\ row.people = People /\ row.repos = BoundRepos /\ row.result = "running"
  OBVIOUS
<1> HIDE DEF row
<1> QED BY <1>2, <1>3, <1>4

LEMMA ReserveStep ==
  ASSUME ShadowInv, NEW trigger \in {"manual", "periodic"}, Reserve(trigger),
         UNCHANGED <<vars, observations>>, ScheduleIsCounted'
  PROVE  ShadowInv' /\ Complete(runs') = Complete(runs)
<1>1. /\ issued' = issued + 1 /\ issued \in Nat /\ RunsAreRetained(runs) /\ UNCHANGED vars
      /\ Found /\ People # {} /\ BoundRepos # {}
  BY DEF Reserve, Unblocked, ShadowInv
<1>2. PICK row \in RunRow :
           /\ row.id = issued + 1 /\ row.connection = connection.id
           /\ row.binding = connection.binding /\ row.identity = connection.identity
           /\ row.people = People /\ row.repos = BoundRepos
           /\ row.result = "running"
           /\ runs' = Recovered(runs) \cup {row} /\ executing' = executing \cup {row}
  BY ReserveIs
<1>3. /\ RunsAreRetained(Recovered(runs))
      /\ \A y \in Recovered(runs) : y.result # "running" /\ \E z \in runs : Alike(z, y)
      /\ Complete(Recovered(runs)) = Complete(runs)
  BY <1>1, RecoveredRetains
<1>4. /\ ConnectionInv' /\ ScopeIsCounted' /\ People' = People /\ BoundRepos' = BoundRepos
      /\ connection' = connection
  BY <1>1, TablesStay
<1>5. \A y \in Recovered(runs) : y.id \in 1..issued
  <2>1. \A z \in runs : z.id \in 1..issued
    BY DEF ShadowInv, CoversScope
  <2> QED BY <1>3, <2>1 DEF Alike
<1>6. RunsAreRetained(runs')
  <2>1. \A x, y \in Recovered(runs) :
           /\ x.id = y.id => x = y
           /\ x.result = "complete" /\ y.result = "complete" => x = y
           /\ x.result \notin {"running", "complete"} /\ y.result # "running" => y.id <= x.id
    BY <1>3 DEF RunsAreRetained
  <2>2. \A y \in Recovered(runs) : y.id < row.id /\ y.result # "running"
    BY <1>1, <1>2, <1>3, <1>5
  <2>3. \A x, y \in runs' :
           /\ x.id = y.id => x = y
           /\ x.result = "running" => y.id <= x.id
           /\ x.result = "complete" /\ y.result = "complete" => x = y
           /\ x.result \notin {"running", "complete"} /\ y.result # "running" => y.id <= x.id
    BY <1>1, <1>2, <1>5, <2>1, <2>2
  <2>4. runs' \subseteq RunRow /\ \A x \in runs' : x.young => x.result = "running"
    BY <1>2, <1>3 DEF RunsAreRetained
  <2> QED BY <2>3, <2>4 DEF RunsAreRetained
<1>7. \A y \in runs' : CoversScope(y)'
  <2>1. ASSUME NEW y \in Recovered(runs) PROVE CoversScope(y)'
    <3>1. PICK z \in runs : Alike(z, y)
      BY <1>3
    <3>2. CoversScope(z)
      BY DEF ShadowInv
    <3>3. y.id \in 1..issued'
      BY <1>1, <1>5
    <3> QED BY <1>4, <3>1, <3>2, <3>3 DEF CoversScope, Alike
  <2>2. CoversScope(row)'
    <3>1. row.id \in 1..issued'
      BY <1>1, <1>2
    <3>2. /\ connection.identity > 0 /\ connection.identity \in Nat /\ connection.binding \in Nat
          /\ IsFiniteSet(People) /\ IsFiniteSet(BoundRepos)
      BY <1>1, CountersCount DEF ShadowInv, ScopeIsCounted, ConnectionInv, Counters
    <3> QED BY <1>1, <1>2, <1>4, <3>1, <3>2 DEF CoversScope
  <2> QED BY <1>2, <2>1, <2>2
<1>8. AttemptsCarryRows'
  <2>1. AttemptsCarryRows
    BY DEF ShadowInv
  <2>2. ASSUME NEW c \in executing' PROVE c \in RunRow /\ c.id \in 1..issued'
    BY <1>1, <1>2, <2>1, <2>2 DEF AttemptsCarryRows
  <2>3. ASSUME NEW c \in executing', NEW y \in runs', y.id = c.id PROVE CarriesRow(c, y)
    <3>1. CASE y = row
      <4>1. c = row
        BY <1>1, <1>2, <2>1, <2>3, <3>1 DEF AttemptsCarryRows
      <4> QED BY <3>1, <4>1 DEF CarriesRow
    <3>2. CASE y \in Recovered(runs)
      <4>1. PICK z \in runs : Alike(z, y)
        BY <1>3, <3>2
      <4>2. c \in executing
        BY <1>1, <1>2, <1>5, <2>3, <3>2
      <4>3. z \in RunsOf(c)
        BY <2>3, <4>1 DEF RunsOf, Alike
      <4> QED BY <2>1, <4>1, <4>2, <4>3 DEF AttemptsCarryRows, CarriesRow, Alike
    <3> QED BY <1>2, <3>1, <3>2
  <2> QED BY <2>2, <2>3 DEF AttemptsCarryRows, RunsOf
<1>9. Complete(runs') = Complete(runs)
  BY <1>2, <1>3 DEF Complete
<1>10. ObservationTypes' /\ ObservationsAreLive' /\ CompleteIsObserved'
  BY <1>1, <1>9, ObservationsStay
<1>11. issued' \in Nat /\ RunsAreRetained(runs)'
  BY <1>1, <1>6 DEF RunsAreRetained
<1> QED BY <1>4, <1>7, <1>8, <1>9, <1>10, <1>11 DEF ShadowInv

(* The schedule, the clock, and attempts that end without their row.       *)
LEMMA ScheduleStep ==
  ASSUME ShadowInv, UNCHANGED <<vars, observations, runs, issued>>, executing' \subseteq executing,
         ScheduleIsCounted'
  PROVE  ShadowInv'
<1>1. /\ UNCHANGED <<vars, issued>> /\ UNCHANGED <<vars, observations>> /\ issued \in Nat
      /\ issued' = issued /\ runs' = runs /\ RunsAreRetained(runs') /\ Complete(runs') = Complete(runs)
      /\ \A y \in runs' : \E z \in runs : Alike(z, y)
  BY DEF ShadowInv, Alike
<1>2. ObservationTypes' /\ ObservationsAreLive' /\ CompleteIsObserved'
  BY <1>1, ObservationsStay
<1> QED BY <1>1, <1>2, RunsStay DEF ShadowInv

LEMMA AgesStep ==
  ASSUME ShadowInv, Ages
  PROVE  ShadowInv' /\ Complete(runs') = Complete(runs)
<1>1. PICK x \in runs : x.young /\ runs' = (runs \ {x}) \cup {[x EXCEPT !.young = FALSE]}
  BY DEF Ages
<1>2. /\ UNCHANGED <<vars, issued>> /\ UNCHANGED <<vars, observations>> /\ issued \in Nat
      /\ issued' = issued /\ executing' \subseteq executing /\ periodic' = periodic
      /\ RunsAreRetained(runs)
  BY DEF Ages, ShadowInv
<1> DEFINE aged == [x EXCEPT !.young = FALSE]
<1>3. /\ x \in RunRow /\ x.result = "running" /\ aged \in RunRow /\ Alike(x, aged)
      /\ aged.result = "running" /\ aged.young = FALSE
  <2>1. x \in RunRow /\ x.result = "running"
    BY <1>1, <1>2 DEF RunsAreRetained
  <2> QED BY <2>1, AgedFields
<1>4. runs' = (runs \ {x}) \cup {aged}
  BY <1>1
<1> HIDE DEF aged
<1>5. aged.id = x.id /\ x.id \in Nat
  BY <1>3 DEF Alike, RunRow
<1>6. \A y \in runs \ {x} : y.result # "running" /\ y.id < x.id /\ y.id \in Nat
  BY <1>1, <1>2, <1>3, OneRuns DEF RunsAreRetained, RunRow
<1>7. RunsAreRetained(runs')
  <2>1. \A y, z \in runs \ {x} :
           /\ y.id = z.id => y = z
           /\ y.result = "complete" /\ z.result = "complete" => y = z
           /\ y.result \notin {"running", "complete"} /\ z.result # "running" => z.id <= y.id
    BY <1>2 DEF RunsAreRetained
  <2>2. \A y, z \in runs' :
           /\ y.id = z.id => y = z
           /\ y.result = "running" => z.id <= y.id
           /\ y.result = "complete" /\ z.result = "complete" => y = z
           /\ y.result \notin {"running", "complete"} /\ z.result # "running" => z.id <= y.id
    BY <1>3, <1>4, <1>5, <1>6, <2>1
  <2>3. runs' \subseteq RunRow /\ \A y \in runs' : y.young => y.result = "running"
    BY <1>2, <1>3, <1>4 DEF RunsAreRetained
  <2> QED BY <2>2, <2>3 DEF RunsAreRetained
<1>8. \A y \in runs' : \E z \in runs : Alike(z, y)
  BY <1>1, <1>3, <1>4 DEF Alike
<1>9. Complete(runs') = Complete(runs)
  BY <1>1, <1>3, <1>4 DEF Complete
<1>10. ObservationTypes' /\ ObservationsAreLive' /\ CompleteIsObserved'
  BY <1>2, <1>9, ObservationsStay
<1>11. ScheduleIsCounted'
  BY <1>2 DEF ShadowInv, ScheduleIsCounted
<1> QED BY <1>2, <1>7, <1>8, <1>9, <1>10, <1>11, RunsStay DEF ShadowInv

-----------------------------------------------------------------------------
(* What moves the scope moves its revision, or only takes away.            *)
LEMMA ScopeMoves ==
  ASSUME ShadowInv, ConnectionInv', ScopeIsCounted', ObservationTypes',
         UNCHANGED <<runVars, periodic>>,
         connection'.id = connection.id,
         connection.identity <= connection'.identity, connection.binding <= connection'.binding,
         connection'.identity = connection.identity => People' \subseteq People,
         connection'.binding = connection.binding => BoundRepos' \subseteq BoundRepos,
         \A p \in Users \X Repos :
            \/ observations'[p] = observations[p] /\ (observations[p] # Unobserved => p \in Listed')
            \/ observations'[p] = Unobserved /\ p \notin Listed'
  PROVE  ShadowInv'
<1>1. /\ runs' = runs /\ issued' = issued /\ executing' = executing /\ periodic' = periodic
      /\ runs \subseteq RunRow /\ Revision \subseteq Nat
  BY CountersCount DEF runVars, ShadowInv, RunsAreRetained, ConnectionInv
<1>2. /\ connection.identity \in Nat /\ connection'.identity \in Nat
      /\ connection.binding \in Nat /\ connection'.binding \in Nat
  <2>1. Counters /\ Counters'
    <3>1. TypeOK /\ TypeOK'
      BY DEF ShadowInv, ConnectionInv
    <3>2. Counters
      BY <3>1, CountersCount
    <3>3. Counters'
      BY <3>1, ForgeAssumption DEF TypeOK, Counters, Revision
    <3> QED BY <3>2, <3>3
  <2> QED BY <1>1, <2>1 DEF Counters
<1>3. ASSUME NEW x \in runs PROVE CoversScope(x)'
  <2>1. CoversScope(x) /\ x.identity \in Nat /\ x.binding \in Nat
    BY <1>1 DEF ShadowInv, RunRow
  <2>2. x.identity = connection'.identity =>
          x.identity = connection.identity /\ connection'.identity = connection.identity
    BY <1>2, <2>1 DEF CoversScope
  <2>3. x.binding = connection'.binding =>
          x.binding = connection.binding /\ connection'.binding = connection.binding
    BY <1>2, <2>1 DEF CoversScope
  <2>4. x.identity <= connection'.identity /\ x.binding <= connection'.binding
    BY <1>2, <2>1 DEF CoversScope
  <2> QED BY <1>1, <2>1, <2>2, <2>3, <2>4 DEF CoversScope
<1>4. CompleteIsObserved'
  <2> SUFFICES ASSUME NEW x \in Complete(runs), x.identity = connection'.identity,
                      x.binding = connection'.binding, NEW p \in Listed'
               PROVE  observations'[p].run = x.id
    BY <1>1 DEF CompleteIsObserved
  <2>1. x \in runs /\ x.identity \in Nat /\ x.binding \in Nat /\ CoversScope(x)
    BY <1>1 DEF Complete, ShadowInv, RunRow
  <2>2. /\ x.identity = connection.identity /\ connection'.identity = connection.identity
        /\ x.binding = connection.binding /\ connection'.binding = connection.binding
    BY <1>2, <2>1 DEF CoversScope
  <2>3. p \in Listed /\ p \in Users \X Repos
    BY <2>2 DEF Listed, LinkedUsers, BoundRepositories, People, BoundRepos
  <2>4. observations[p].run = x.id
    BY <2>2, <2>3 DEF ShadowInv, CompleteIsObserved
  <2> QED BY <2>3, <2>4
<1>5. ObservationsAreLive'
  BY <1>1 DEF ShadowInv, ObservationsAreLive, Readable
<1>6. AttemptsCarryRows' /\ ScheduleIsCounted' /\ issued' \in Nat /\ RunsAreRetained(runs)'
  BY <1>1 DEF ShadowInv, AttemptsCarryRows, RunsOf, ScheduleIsCounted, RunsAreRetained
<1> QED BY <1>1, <1>3, <1>4, <1>5, <1>6 DEF ShadowInv

(* Steps that leave links and bindings.                                    *)
LEMMA ScopeKept ==
  ASSUME ShadowInv, ConnectionInv', UNCHANGED <<shadowVars, identities, bindings>>,
         connection'.id = connection.id, connection'.identity = connection.identity,
         connection'.binding = connection.binding
  PROVE  ShadowInv'
<1>1. /\ UNCHANGED <<runVars, periodic>> /\ observations' = observations /\ issued' = issued
      /\ identities' = identities /\ bindings' = bindings
  BY DEF shadowVars, runVars
<1>2. People' = People /\ BoundRepos' = BoundRepos /\ Listed' = Listed
  BY <1>1 DEF People, BoundRepos, Listed, LinkedUsers, BoundRepositories, Linked
<1>3. ScopeIsCounted' /\ ObservationTypes'
  BY <1>1, <1>2 DEF ShadowInv, ScopeIsCounted, Found, ObservationTypes
<1>4. connection.identity \in Nat /\ connection.binding \in Nat
  BY CountersCount DEF ShadowInv, ConnectionInv, Counters
<1>5. \A p \in Users \X Repos : observations[p] # Unobserved => p \in Listed'
  BY <1>2 DEF ShadowInv, ObservationsAreLive
<1> QED BY <1>1, <1>2, <1>3, <1>4, <1>5, ScopeMoves

LEMMA ConnectionKeeps ==
  ASSUME ConnectionInv,
         \/ \E url \in Urls : Edit(url)
         \/ CheckStep
         \/ \E r \in Repos, n \in Names : AddRepository(r, n)
  PROVE  /\ connection'.id = connection.id /\ connection'.identity = connection.identity
         /\ connection'.binding = connection.binding /\ UNCHANGED <<identities, bindings>>
<1>1. connection \in Connection
  BY DEF ConnectionInv, TypeOK, Connection
<1>2. ASSUME NEW url \in Urls, Edit(url)
      PROVE  /\ connection' = [connection EXCEPT !.url = url, !.revision = connection.revision + 1]
             /\ UNCHANGED <<identities, bindings>>
  BY <1>2 DEF Edit, bindingVars, identityVars
<1>3. ASSUME ReserveCheck
      PROVE  /\ connection' = [connection EXCEPT !.generation = connection.generation + 1]
             /\ UNCHANGED <<identities, bindings>>
  BY <1>3 DEF ReserveCheck, bindingVars, identityVars
<1>4. ASSUME NEW c \in checks, PersistFailure(c) \/ AbandonCheck(c)
      PROVE  UNCHANGED <<connection, identities, bindings>>
  BY <1>4 DEF PersistFailure, AbandonCheck, connectionVars, bindingVars, identityVars
<1>5. ASSUME NEW c \in checks, NEW org \in Organizations,
             NEW seen \in [Remotes -> Names \cup {None}], PersistObservation(c, org, seen)
      PROVE  /\ connection' = [connection EXCEPT !.org = org]
             /\ UNCHANGED <<identities, bindings>>
  BY <1>5 DEF PersistObservation, bindingVars, identityVars
<1>6. ASSUME NEW r \in Repos, NEW n \in Names, AddRepository(r, n)
      PROVE  UNCHANGED <<connection, identities, bindings>>
  BY <1>6 DEF AddRepository, connectionVars, identityVars
<1> QED BY <1>1, <1>2, <1>3, <1>4, <1>5, <1>6 DEF CheckStep, Connection

(* Only an attempt for a connection has a row, and only a connection has   *)
(* identities.                                                             *)
LEMMA NothingWithoutConnection ==
  ASSUME ShadowInv, ~Found
  PROVE  runs = {} /\ People = {} /\ BoundRepos = {}
<1>1. connection = NoConnection /\ connection.identity = 0
  BY DEF ShadowInv, ConnectionInv, TypeOK, NoConnection
<1>2. runs = {}
  <2> SUFFICES ASSUME NEW x \in runs PROVE FALSE
    OBVIOUS
  <2>1. x.identity \in Nat /\ CoversScope(x)
    BY CountersCount DEF ShadowInv, RunsAreRetained, RunRow, ConnectionInv
  <2> QED BY <1>1, <2>1 DEF CoversScope
<1>3. People = {}
  BY DEF ShadowInv, ScopeIsCounted
<1>4. BoundRepos = {}
  BY <1>1 DEF BoundRepos, ShadowInv, ConnectionInv, BindingsAreHome, Bound, NoConnection
<1> QED BY <1>2, <1>3, <1>4

LEMMA EmptiedIsSound ==
  ASSUME ShadowInv, ConnectionInv', ObservationTypes', ScheduleIsCounted', runs' = {},
         UNCHANGED <<issued, executing, identities>>,
         People = {}, BoundRepos' = {},
         \A p \in Users \X Repos : observations'[p] = Unobserved
  PROVE  ShadowInv'
<1>1. ScopeIsCounted'
  <2>1. People' = {} /\ DOMAIN identities' = Users
    BY DEF ShadowInv, ScopeIsCounted, People, Linked
  <2> QED BY <2>1, FS_EmptySet DEF ScopeIsCounted
<1>2. AttemptsCarryRows'
  BY DEF ShadowInv, AttemptsCarryRows, RunsOf
<1>3. RunsAreRetained(runs)' /\ CompleteIsObserved' /\ ObservationsAreLive'
  BY DEF RunsAreRetained, CompleteIsObserved, Complete, ObservationsAreLive
<1> QED BY <1>1, <1>2, <1>3 DEF ShadowInv

LEMMA CreateShadowStep ==
  ASSUME ShadowInv, NEW url \in Urls, Create(url), UNCHANGED shadowVars
  PROVE  ShadowInv'
<1>1. /\ runs = {} /\ People = {} /\ BoundRepos = {}
  BY NothingWithoutConnection DEF Create
<1>2. ConnectionInv'
  BY CreateStep DEF ShadowInv
<1>3. UNCHANGED <<runs, issued, executing, observations, periodic, identities, bindings>>
  BY DEF Create, shadowVars, runVars, bindingVars, identityVars
<1>4. ObservationTypes' /\ ScheduleIsCounted' /\ BoundRepos' = {} /\ runs' = {}
  BY <1>1, <1>3 DEF ShadowInv, ObservationTypes, ScheduleIsCounted, BoundRepos
<1>5. \A p \in Users \X Repos : observations'[p] = Unobserved
  <2>1. Listed = {}
    BY <1>1 DEF Listed, LinkedUsers, BoundRepositories, People, BoundRepos
  <2> QED BY <1>3, <2>1 DEF ShadowInv, ObservationsAreLive
<1> QED BY <1>1, <1>2, <1>3, <1>4, <1>5, EmptiedIsSound

LEMMA WithoutTypes ==
  ASSUME ShadowInv, NEW gone, issued' = issued, observations' = Without(gone)
  PROVE  /\ ObservationTypes'
         /\ \A p \in Users \X Repos : /\ p \in gone => observations'[p] = Unobserved
                                      /\ p \notin gone => observations'[p] = observations[p]
<1> DEFINE I == 0..issued
           T == [run : I, confirmed : I]
<1>1. Unobserved \in T
  <2>1. 0 \in I
    BY DEF ShadowInv
  <2> QED BY <2>1 DEF Unobserved
<1>2. observations \in [Users \X Repos -> T]
  BY DEF ShadowInv, ObservationTypes
<1> HIDE DEF T
<1>3. observations' \in [Users \X Repos -> T]
  BY <1>1, <1>2 DEF Without
<1>4. ObservationTypes'
  BY <1>3 DEF ObservationTypes, T
<1> QED BY <1>4 DEF Without

LEMMA ResetShadowStep ==
  ASSUME ShadowInv, ResetShadow
  PROVE  ShadowInv'
<1>1. /\ Reset /\ runs' = {} /\ periodic' = NoPeriodic
      /\ observations' = Without(Users \X Repos) /\ UNCHANGED <<issued, executing>>
  BY DEF ResetShadow
<1>2. /\ ConnectionInv' /\ UNCHANGED <<identities, bindings>> /\ ~HasBindings /\ ~HasIdentities
  BY <1>1, ResetStep DEF ShadowInv, Reset, bindingVars, Removable
<1>3. People = {} /\ BoundRepos' = {}
  BY <1>2 DEF People, BoundRepos, HasBindings, HasIdentities
<1>4. ObservationTypes' /\ \A p \in Users \X Repos : observations'[p] = Unobserved
  BY <1>1, WithoutTypes
<1>5. ScheduleIsCounted'
  BY <1>1, ForgeAssumption DEF ScheduleIsCounted, NoPeriodic, Revision, Disabled
<1> QED BY <1>1, <1>2, <1>3, <1>4, <1>5, EmptiedIsSound

LEMMA BindShadowStep ==
  ASSUME ShadowInv, NEW r \in Repos, NEW m \in Remotes, Bind(r, m), UNCHANGED shadowVars
  PROVE  ShadowInv'
<1>1. /\ ConnectionInv' /\ CounterMoves /\ bindings' = [bindings EXCEPT ![r] = m]
      /\ connection'.binding = connection.binding + 1 /\ identities' = identities
      /\ connection'.identity = connection.identity
  <2>1. connection \in Connection /\ connection' = [connection EXCEPT !.binding = connection.binding + 1]
    BY DEF Bind, ShadowInv, ConnectionInv, TypeOK, Connection
  <2> QED BY <2>1, BindStep DEF ShadowInv, Bind, identityVars, Connection
<1>2. /\ UNCHANGED <<runVars, periodic>> /\ issued' = issued /\ observations' = observations
      /\ bindings \in [Repos -> Remotes \cup {None}]
      /\ connection.identity \in Nat /\ connection.binding \in Nat
  BY CountersCount DEF shadowVars, runVars, ShadowInv, ConnectionInv, TypeOK, Counters
<1>3. People' = People /\ BoundRepos \subseteq BoundRepos' /\ BoundRepos' \subseteq BoundRepos \cup {r}
  BY <1>1, <1>2, ForgeAssumption DEF People, BoundRepos, Linked
<1>4. ScopeIsCounted' /\ ObservationTypes'
  <2>1. IsFiniteSet(BoundRepos')
    BY <1>3, FS_AddElement, FS_Subset DEF ShadowInv, ScopeIsCounted
  <2> QED BY <1>1, <1>2, <1>3, <2>1
      DEF ShadowInv, ScopeIsCounted, Found, ObservationTypes, CounterMoves
<1>5. \A p \in Users \X Repos : observations[p] # Unobserved => p \in Listed'
  BY <1>3 DEF ShadowInv, ObservationsAreLive, Listed, LinkedUsers, BoundRepositories, People, BoundRepos
<1> QED BY <1>1, <1>2, <1>3, <1>4, <1>5, ScopeMoves DEF CounterMoves

LEMMA UnbindShadowStep ==
  ASSUME ShadowInv, NEW r \in Repos, UnbindShadow(r)
  PROVE  ShadowInv'
<1>0. /\ Unbind(r) /\ observations' = Without(Users \X {r})
      /\ UNCHANGED <<runVars, periodic>> /\ issued' = issued
  BY DEF UnbindShadow, runVars
<1>1. /\ ConnectionInv' /\ CounterMoves /\ bindings' = [bindings EXCEPT ![r] = None]
      /\ connection'.binding = connection.binding + 1 /\ identities' = identities
      /\ connection'.identity = connection.identity
  <2>1. connection \in Connection /\ connection' = [connection EXCEPT !.binding = connection.binding + 1]
    BY <1>0 DEF Unbind, Unbinds, ShadowInv, ConnectionInv, TypeOK, Connection
  <2> QED BY <1>0, <2>1, UnbindStep DEF ShadowInv, Unbind, identityVars, Connection
<1>2. /\ bindings \in [Repos -> Remotes \cup {None}]
      /\ connection.identity \in Nat /\ connection.binding \in Nat
  BY CountersCount DEF ShadowInv, ConnectionInv, TypeOK, Counters
<1>3. People' = People /\ BoundRepos' = BoundRepos \ {r}
  BY <1>1, <1>2 DEF People, BoundRepos, Linked
<1>4. /\ ObservationTypes'
      /\ \A p \in Users \X Repos : /\ p \in Users \X {r} => observations'[p] = Unobserved
                                   /\ p \notin Users \X {r} => observations'[p] = observations[p]
  BY <1>0, WithoutTypes
<1>5. ScopeIsCounted'
  <2>1. IsFiniteSet(BoundRepos')
    BY <1>3, FS_RemoveElement DEF ShadowInv, ScopeIsCounted
  <2> QED BY <1>1, <1>3, <2>1 DEF ShadowInv, ScopeIsCounted, Found, CounterMoves
<1>6. ASSUME NEW p \in Users \X Repos
      PROVE  \/ observations'[p] = observations[p] /\ (observations[p] # Unobserved => p \in Listed')
             \/ observations'[p] = Unobserved /\ p \notin Listed'
  <2>1. Listed' = {q \in Listed : q \notin Users \X {r}}
    BY <1>3 DEF Listed, LinkedUsers, BoundRepositories, People, BoundRepos
  <2>2. observations[p] # Unobserved => p \in Listed
    BY DEF ShadowInv, ObservationsAreLive
  <2> QED BY <1>4, <2>1, <2>2
<1>7. /\ connection'.id = connection.id /\ connection.identity <= connection'.identity
      /\ connection.binding <= connection'.binding /\ People' \subseteq People
      /\ BoundRepos' \subseteq BoundRepos
  BY <1>1, <1>2, <1>3 DEF CounterMoves
<1> QED BY <1>0, <1>1, <1>4, <1>5, <1>6, <1>7, ScopeMoves

(* A link moves the revision; a removal that cannot move it takes a user   *)
(* away, and nobody is linked after that.                                  *)
LEMMA IdentitiesMove ==
  ASSUME ShadowInv, Found, NEW k \in Revision, connection.identity <= k,
         connection' = [connection EXCEPT !.identity = k],
         UNCHANGED <<created, evidenceVars, bindingVars>>
  PROVE  /\ ConnectionInv' /\ connection'.id = connection.id /\ connection'.identity = k
         /\ connection'.binding = connection.binding /\ connection.binding \in Nat
         /\ BoundRepos' = BoundRepos
<1>1. /\ connection \in Connection /\ ConnectionInv /\ bindings' = bindings
      /\ UNCHANGED <<created, evidence, preview, checks, locals>>
      /\ bindings \in [Repos -> Remotes \cup {None}]
  BY DEF ShadowInv, ConnectionInv, TypeOK, Connection, evidenceVars, bindingVars
<1>2. CounterMoves /\ connection'.identity = k /\ connection'.binding = connection.binding
  BY <1>1 DEF CounterMoves, Connection
<1>3. BindingsAreHome'
  BY <1>1, <1>2 DEF ConnectionInv, BindingsAreHome, Bound, CounterMoves
<1>4. ConnectionInv'
  BY <1>1, <1>2, <1>3, CounterStep
<1>5. connection.binding \in Nat
  BY <1>1, CountersCount DEF ConnectionInv, Counters
<1> QED BY <1>1, <1>2, <1>4, <1>5 DEF CounterMoves, BoundRepos

LEMMA LinkIdentityStep ==
  ASSUME ShadowInv, NEW u \in Users, LinkIdentity(u)
  PROVE  ShadowInv'
<1>1. /\ Found /\ UNCHANGED <<created, evidenceVars, bindingVars>>
      /\ observations' = observations /\ UNCHANGED <<runVars, periodic>> /\ issued' = issued
      /\ connection' = [connection EXCEPT !.identity = connection.identity + 1]
      /\ connection.identity < MaxRevision /\ ~Linked(u)
  BY DEF LinkIdentity, shadowVars, runVars, Advances
<1>2. connection.identity \in Nat
  BY CountersCount DEF ShadowInv, ConnectionInv, Counters
<1>3. connection.identity + 1 \in Revision
  BY <1>1, <1>2, ForgeAssumption DEF Revision
<1>4. /\ ConnectionInv' /\ connection'.id = connection.id
      /\ connection'.identity = connection.identity + 1
      /\ connection'.binding = connection.binding /\ connection.binding \in Nat
      /\ BoundRepos' = BoundRepos
  BY <1>1, <1>2, <1>3, IdentitiesMove
<1>5. DOMAIN identities' = Users /\ \A v \in Users : v # u => identities'[v] = identities[v]
  BY DEF LinkIdentity, ShadowInv, ScopeIsCounted
<1>6. People \subseteq People' /\ People' \subseteq People \cup {u}
  BY <1>1, <1>5 DEF People, Linked
<1>7. ScopeIsCounted' /\ ObservationTypes'
  <2>1. IsFiniteSet(People')
    BY <1>6, FS_AddElement, FS_Subset DEF ShadowInv, ScopeIsCounted
  <2>2. Found' /\ connection'.identity > 0
    BY <1>1, <1>2, <1>4 DEF Found
  <2> QED BY <1>1, <1>4, <1>5, <2>1, <2>2 DEF ShadowInv, ScopeIsCounted, ObservationTypes
<1>8. \A p \in Users \X Repos : observations[p] # Unobserved => p \in Listed'
  BY <1>4, <1>6
  DEF ShadowInv, ObservationsAreLive, Listed, LinkedUsers, BoundRepositories, People, BoundRepos
<1> QED BY <1>1, <1>2, <1>4, <1>7, <1>8, ScopeMoves

LEMMA RemoveIdentityStep ==
  ASSUME ShadowInv, NEW u \in Users, RemoveIdentity(u)
  PROVE  ShadowInv'
<1> DEFINE k == IF connection.identity < MaxRevision THEN connection.identity + 1
                ELSE connection.identity
<1>1. /\ UNCHANGED <<created, evidenceVars, bindingVars>>
      /\ observations' = Without({u} \X Repos) /\ UNCHANGED <<runVars, periodic>> /\ issued' = issued
      /\ connection' = [connection EXCEPT !.identity = k]
      /\ identities' = [identities EXCEPT ![u] = Unlinked] /\ u \in People
  BY DEF RemoveIdentity, runVars, Advances, People
<1>2. Found /\ connection.identity > 0 /\ connection.identity \in Revision /\ Revision \subseteq Nat
  BY <1>1, CountersCount DEF ShadowInv, ScopeIsCounted, ConnectionInv, Counters
<1>3. k \in Revision /\ connection.identity <= k
  BY <1>2, ForgeAssumption DEF Revision
<1> HIDE DEF k
<1>4. /\ ConnectionInv' /\ connection'.id = connection.id /\ connection'.identity = k
      /\ connection'.binding = connection.binding /\ connection.binding \in Nat
      /\ BoundRepos' = BoundRepos
  BY <1>1, <1>2, <1>3, IdentitiesMove
<1>5. DOMAIN identities' = Users /\ identities'[u].account = None
      /\ \A v \in Users : v # u => identities'[v] = identities[v]
  BY <1>1 DEF ShadowInv, ScopeIsCounted, Unlinked
<1>6. People' = People \ {u}
  BY <1>5 DEF People, Linked
<1>7. ScopeIsCounted'
  <2>1. IsFiniteSet(People')
    BY <1>6, FS_RemoveElement DEF ShadowInv, ScopeIsCounted
  <2>2. Found' /\ connection'.identity > 0
    <3>1. connection.identity \in Nat /\ k \in Nat
      BY <1>2, <1>3
    <3> QED BY <1>2, <1>3, <1>4, <3>1 DEF Found
  <2> QED BY <1>4, <1>5, <2>1, <2>2 DEF ShadowInv, ScopeIsCounted
<1>8. /\ ObservationTypes'
      /\ \A p \in Users \X Repos : /\ p \in {u} \X Repos => observations'[p] = Unobserved
                                   /\ p \notin {u} \X Repos => observations'[p] = observations[p]
  BY <1>1, WithoutTypes
<1>9. ASSUME NEW p \in Users \X Repos
      PROVE  \/ observations'[p] = observations[p] /\ (observations[p] # Unobserved => p \in Listed')
             \/ observations'[p] = Unobserved /\ p \notin Listed'
  <2>1. Listed' = {q \in Listed : q \notin {u} \X Repos}
    BY <1>4, <1>6 DEF Listed, LinkedUsers, BoundRepositories, People, BoundRepos
  <2>2. observations[p] # Unobserved => p \in Listed
    BY DEF ShadowInv, ObservationsAreLive
  <2> QED BY <1>8, <2>1, <2>2
<1>10. /\ connection.identity <= connection'.identity /\ connection.binding <= connection'.binding
       /\ People' \subseteq People /\ BoundRepos' \subseteq BoundRepos
  BY <1>3, <1>4, <1>6
<1> QED BY <1>1, <1>4, <1>7, <1>8, <1>9, <1>10, ScopeMoves

LEMMA ScopeStepPreserves ==
  ASSUME ShadowInv, ScopeStep
  PROVE  ShadowInv'
<1>1. ASSUME UNCHANGED shadowVars,
             \/ \E url \in Urls : Edit(url)
             \/ CheckStep
             \/ \E r \in Repos, n \in Names : AddRepository(r, n)
      PROVE  ShadowInv'
  <2>1. ConnectionInv
    BY DEF ShadowInv
  <2>2. Next
    BY <1>1 DEF Next, ConnectionStep, BindingStep
  <2>3. ConnectionInv'
    BY <2>1, <2>2, NextPreserves
  <2>4. /\ connection'.id = connection.id /\ connection'.identity = connection.identity
        /\ connection'.binding = connection.binding /\ UNCHANGED <<identities, bindings>>
    BY <1>1, <2>1, ConnectionKeeps
  <2> QED BY <1>1, <2>3, <2>4, ScopeKept
<1> QED
  BY <1>1, CreateShadowStep, BindShadowStep, UnbindShadowStep, LinkIdentityStep,
     RemoveIdentityStep, ResetShadowStep
  DEF ScopeStep

-----------------------------------------------------------------------------
(* What the action properties say of one step.                             *)
RunsAreKept ==
  /\ \A x \in Terminal(runs), y \in runs' : x.id = y.id => x = y
  /\ connection'.id = connection.id =>
       \A x \in NewestOf(Complete(runs)) : \E y \in Complete(runs') : y.id >= x.id
MovesForward ==
  \A p \in Users \X Repos : \/ observations'[p] = Unobserved
                            \/ /\ observations'[p].run >= observations[p].run
                               /\ observations'[p].confirmed >= observations[p].confirmed
Switches == (periodic.due = Disabled) # (periodic'.due = Disabled)
               => periodic'.revision # periodic.revision
StaysFinal == RunsAreKept /\ MovesForward /\ Switches

LEMMA SameRunsAreKept ==
  ASSUME ShadowInv, runs' = runs
  PROVE  RunsAreKept
<1>1. RunsAreRetained(runs) /\ \A x \in runs : x.id \in Nat
  BY DEF ShadowInv, RunsAreRetained, RunRow
<1> QED BY <1>1 DEF RunsAreKept, RunsAreRetained, Terminal, Complete, NewestOf

LEMMA SameObservations ==
  ASSUME ShadowInv, observations' = observations
  PROVE  MovesForward
<1>1. \A p \in Users \X Repos : observations[p].run \in Nat /\ observations[p].confirmed \in Nat
  <2>1. observations \in [Users \X Repos -> [run : 0..issued, confirmed : 0..issued]] /\ issued \in Nat
    BY DEF ShadowInv, ObservationTypes
  <2> QED BY <2>1
<1> QED BY <1>1 DEF MovesForward

LEMMA FewerObservations ==
  ASSUME ShadowInv, \A p \in Users \X Repos : observations'[p] \in {Unobserved, observations[p]}
  PROVE  MovesForward
<1>1. \A p \in Users \X Repos : observations[p].run \in Nat /\ observations[p].confirmed \in Nat
  <2>1. observations \in [Users \X Repos -> [run : 0..issued, confirmed : 0..issued]] /\ issued \in Nat
    BY DEF ShadowInv, ObservationTypes
  <2> QED BY <2>1
<1> QED BY <1>1 DEF MovesForward

LEMMA EndedIsFinal ==
  ASSUME NEW S, RunsAreRetained(S), NEW x \in S, x.result = "running",
         NEW result \in Results \ {"running"}
  PROVE  \A z \in Terminal(S), y \in Ended(S, x, result) : z.id = y.id => z = y
<1>1. x \in RunRow /\ EndOf(x, result).id = x.id
  <2>1. x \in RunRow
    BY DEF RunsAreRetained
  <2> QED BY <2>1, EndOfFields DEF Alike
<1>2. Ended(S, x, result) = {EndOf(x, result)} \cup {y \in Complete(S) : result # "complete"}
  BY EndedIs
<1>3. \A z \in Terminal(S) : z \in S /\ z.id # x.id
  BY DEF Terminal, RunsAreRetained
<1>4. \A z \in Terminal(S), y \in Complete(S) : z.id = y.id => z = y
  BY DEF Terminal, Complete, RunsAreRetained
<1> QED BY <1>1, <1>2, <1>3, <1>4

(* Rows that end leave the complete row that was there.                    *)
LEMMA CompleteIsKept ==
  ASSUME ShadowInv, Complete(runs') = Complete(runs),
         \A x \in Terminal(runs), y \in runs' : x.id = y.id => x = y
  PROVE  RunsAreKept
<1>1. \A x \in runs : x.id \in Nat
  BY DEF ShadowInv, RunsAreRetained, RunRow
<1> QED BY <1>1 DEF RunsAreKept, NewestOf, Complete

LEMMA FinishIsFinal ==
  ASSUME ShadowInv, Finish
  PROVE  ShadowInv' /\ StaysFinal
<1>1. ASSUME NEW c \in executing, NEW confirmed \in SUBSET Pairs(c), Publish(c, confirmed)
      PROVE  ShadowInv' /\ StaysFinal
  <2>1. PICK x \in runs :
           /\ x.result = "running" /\ x \in RunRow /\ x.id = c.id /\ c.id \in 1..issued
           /\ runs' = {EndOf(x, "complete")}
           /\ Listed = Pairs(c) /\ CoversScope(x)
           /\ \A p \in Users \X Repos :
                /\ p \in Listed => observations'[p] = Observation(c, p, confirmed)
                /\ p \notin Listed => observations'[p] = Unobserved /\ observations[p] = Unobserved
    BY <1>1, PublishIs
  <2>2. RunsAreRetained(runs) /\ issued \in Nat
    BY DEF ShadowInv
  <2>3. /\ EndOf(x, "complete").id = x.id /\ EndOf(x, "complete").result = "complete"
        /\ "complete" \in Results
    BY <2>1, EndOfFields DEF Alike, Results
  <2>4. \A z \in runs : z.id \in Nat /\ z.id <= x.id
    BY <2>1, <2>2 DEF RunsAreRetained, RunRow
  <2>5. RunsAreKept
    <3>1. \A z \in Terminal(runs), y \in runs' : z.id = y.id => z = y
      <4>1. \A z \in Terminal(runs) : z.id # x.id
        BY <2>1, <2>2 DEF Terminal, RunsAreRetained
      <4> QED BY <2>1, <2>3, <4>1
    <3>2. \A z \in NewestOf(Complete(runs)) : \E y \in Complete(runs') : y.id >= z.id
      <4>1. EndOf(x, "complete") \in Complete(runs')
        BY <2>1, <2>3 DEF Complete
      <4>2. \A z \in NewestOf(Complete(runs)) : z.id \in Nat /\ z.id <= x.id
        BY <2>4 DEF NewestOf, Complete
      <4> QED BY <2>3, <2>4, <4>1, <4>2
    <3> QED BY <3>1, <3>2 DEF RunsAreKept
  <2>6. MovesForward
    <3> SUFFICES ASSUME NEW p \in Users \X Repos, p \in Listed
                 PROVE  /\ observations'[p].run >= observations[p].run
                        /\ observations'[p].confirmed >= observations[p].confirmed
      BY <2>1 DEF MovesForward
    <3>1. observations'[p] = [run |-> c.id, confirmed |-> IF p \in confirmed THEN c.id
                                                          ELSE observations[p].confirmed]
      BY <2>1 DEF Observation
    <3>2. /\ observations[p].run \in 0..issued /\ observations[p].confirmed \in 0..issued
          /\ observations[p].confirmed <= observations[p].run /\ observations[p].run <= c.id
      BY <2>1, ObservedBefore
    <3> QED BY <2>1, <2>2, <3>1, <3>2
  <2>7. Switches
    <3>1. PICK y \in RunningRow(c) : \E due \in Postponed(y) : periodic' = [periodic EXCEPT !.due = due]
      BY <1>1 DEF Publish
    <3>2. PICK due \in Postponed(y) : periodic' = [periodic EXCEPT !.due = due]
      BY <3>1
    <3>3. periodic \in [revision : Revision, due : {Disabled, "later", "due"}]
      BY DEF ShadowInv, ScheduleIsCounted
    <3>4. due = Disabled <=> periodic.due = Disabled
      BY <3>2, <3>3 DEF Postponed, Disabled
    <3> QED BY <3>2, <3>3, <3>4 DEF Switches
  <2> QED BY <1>1, <2>5, <2>6, <2>7, PublishStep DEF StaysFinal
<1>2. ASSUME NEW c \in executing, NEW result \in {"failed", "scope_changed"}, FinishEmpty(c, result)
      PROVE  ShadowInv' /\ StaysFinal
  <2>1. /\ ShadowInv' /\ Complete(runs') = Complete(runs)
        /\ observations' = observations /\ periodic' = periodic /\ RunsAreRetained(runs)
    BY <1>2, FinishEmptyStep DEF FinishEmpty, ShadowInv
  <2>2. PICK x \in RunningRow(c) : runs' = Ended(runs, x, result)
    BY <1>2 DEF FinishEmpty
  <2>3. x \in runs /\ x.result = "running" /\ result \in Results \ {"running"}
    BY <1>2, AttemptHasRow DEF Results
  <2>4. \A z \in Terminal(runs), y \in runs' : z.id = y.id => z = y
    BY <2>1, <2>2, <2>3, EndedIsFinal
  <2> QED BY <2>1, <2>4, CompleteIsKept, SameObservations DEF StaysFinal, Switches
<1>3. ASSUME NEW c \in executing, AbandonRun(c) PROVE ShadowInv' /\ StaysFinal
  <2>1. /\ UNCHANGED <<vars, observations, runs, issued>> /\ executing' \subseteq executing
        /\ runs' = runs /\ observations' = observations /\ periodic' = periodic
    BY <1>3 DEF AbandonRun
  <2>2. ScheduleIsCounted'
    BY <2>1 DEF ShadowInv, ScheduleIsCounted
  <2> QED BY <2>1, <2>2, ScheduleStep, SameRunsAreKept, SameObservations DEF StaysFinal, Switches
<1> QED BY <1>1, <1>2, <1>3 DEF Finish

LEMMA ReserveIsFinal ==
  ASSUME ShadowInv, NEW trigger \in {"manual", "periodic"}, Reserve(trigger),
         UNCHANGED <<vars, observations>>, ScheduleIsCounted', Switches
  PROVE  ShadowInv' /\ StaysFinal
<1>1. ShadowInv' /\ Complete(runs') = Complete(runs)
  BY ReserveStep
<1>2. PICK row \in RunRow : row.id = issued + 1 /\ runs' = Recovered(runs) \cup {row}
  BY ReserveIs
<1>3. RunsAreRetained(runs) /\ issued \in Nat /\ \A z \in runs : z.id \in 1..issued
  BY DEF ShadowInv, CoversScope
<1>4. \A z \in Terminal(runs), y \in Recovered(runs) : z.id = y.id => z = y
  <2>1. CASE Recovered(runs) = runs
    BY <1>3, <2>1 DEF RunsAreRetained, Terminal
  <2>2. ASSUME NEW x \in runs, x.result = "running", Recovered(runs) = Ended(runs, x, "failed")
        PROVE  \A z \in Terminal(runs), y \in Recovered(runs) : z.id = y.id => z = y
    <3>1. "failed" \in Results \ {"running"}
      BY DEF Results
    <3> QED BY <1>3, <2>2, <3>1, EndedIsFinal
  <2> QED BY <1>3, <2>1, <2>2, RecoveredIs
<1>5. \A z \in Terminal(runs), y \in runs' : z.id = y.id => z = y
  <2>1. \A z \in Terminal(runs) : z.id # row.id
    BY <1>2, <1>3 DEF Terminal
  <2> QED BY <1>2, <1>4, <2>1
<1> QED BY <1>1, <1>5, CompleteIsKept, SameObservations DEF StaysFinal

(* Forms, the schedule and the clock.                                      *)
LEMMA ScheduleIsFinal ==
  ASSUME ShadowInv, ShadowForm \/ Scan \/ Ages \/ DueArrives \/ UNCHANGED snapshotVars
  PROVE  ShadowInv' /\ StaysFinal
<1>1. periodic \in [revision : Revision, due : {Disabled, "later", "due"}]
      /\ periodic.revision \in Nat /\ (periodic.due # Disabled => periodic.revision > 0)
      /\ ScheduleIsCounted
  BY CountersCount DEF ShadowInv, ScheduleIsCounted, ConnectionInv
<1>2. ASSUME periodic' = [periodic EXCEPT !.due = "later"] \/ periodic' = [periodic EXCEPT !.due = "due"],
             periodic.due # Disabled
      PROVE  ScheduleIsCounted' /\ Switches
  BY <1>1, <1>2 DEF ScheduleIsCounted, Switches, Disabled
<1>3. ASSUME ReserveManual PROVE ShadowInv' /\ StaysFinal
  <2>1. Reserve("manual") /\ UNCHANGED <<vars, observations>> /\ periodic' = periodic
    BY <1>3 DEF ReserveManual
  <2>2. ScheduleIsCounted' /\ Switches
    BY <1>1, <2>1 DEF ScheduleIsCounted, Switches
  <2> QED BY <2>1, <2>2, ReserveIsFinal
<1>4. ASSUME ReservePeriodic PROVE ShadowInv' /\ StaysFinal
  <2>1. Reserve("periodic") /\ UNCHANGED <<vars, observations>>
        /\ periodic' = [periodic EXCEPT !.due = "later"] /\ periodic.due # Disabled
    BY <1>4 DEF ReservePeriodic, Rescheduled, Disabled
  <2> QED BY <1>2, <2>1, ReserveIsFinal
<1>5. ASSUME UNCHANGED <<vars, runVars, observations>>, ScheduleIsCounted', Switches
      PROVE  ShadowInv' /\ StaysFinal
  <2>1. /\ UNCHANGED <<vars, observations, runs, issued>> /\ executing' \subseteq executing
        /\ runs' = runs /\ observations' = observations
    BY <1>5 DEF runVars
  <2> QED BY <1>5, <2>1, ScheduleStep, SameRunsAreKept, SameObservations DEF StaysFinal
<1>6. ASSUME EnablePeriodic \/ DisablePeriodic
      PROVE  UNCHANGED <<vars, runVars, observations>> /\ ScheduleIsCounted' /\ Switches
  <2>1. PICK due \in {Disabled, "later"} : periodic' = [revision |-> periodic.revision + 1, due |-> due]
    BY <1>6 DEF EnablePeriodic, DisablePeriodic
  <2>2. periodic.revision + 1 \in Revision
    BY <1>1, <1>6, ForgeAssumption DEF EnablePeriodic, DisablePeriodic, Advances, Revision
  <2>3. ScheduleIsCounted' /\ Switches
    BY <1>1, <2>1, <2>2 DEF ScheduleIsCounted, Switches
  <2> QED BY <1>6, <2>3 DEF EnablePeriodic, DisablePeriodic
<1>7. ASSUME ScanBlocked \/ ScanFails \/ DueArrives
      PROVE  UNCHANGED <<vars, runVars, observations>> /\ ScheduleIsCounted' /\ Switches
  <2>1. /\ periodic' = [periodic EXCEPT !.due = "later"] \/ periodic' = [periodic EXCEPT !.due = "due"]
        /\ periodic.due # Disabled
    BY <1>7 DEF ScanBlocked, ScanFails, DueArrives, Rescheduled, Disabled
  <2> QED BY <1>2, <1>7, <2>1 DEF ScanBlocked, ScanFails, DueArrives
<1>8. ASSUME Ages PROVE ShadowInv' /\ StaysFinal
  <2>1. /\ ShadowInv' /\ Complete(runs') = Complete(runs)
        /\ observations' = observations /\ periodic' = periodic /\ RunsAreRetained(runs)
    BY <1>8, AgesStep DEF Ages, ShadowInv
  <2>2. PICK x \in runs : x.young /\ runs' = (runs \ {x}) \cup {[x EXCEPT !.young = FALSE]}
    BY <1>8 DEF Ages
  <2>3. x.result = "running" /\ x \in RunRow
    BY <2>1, <2>2 DEF RunsAreRetained
  <2>4. PICK aged : aged.id = x.id /\ runs' = (runs \ {x}) \cup {aged}
    BY <2>2, <2>3, AgedFields DEF Alike
  <2>5. \A z \in Terminal(runs), y \in runs' : z.id = y.id => z = y
    BY <2>1, <2>3, <2>4 DEF Terminal, RunsAreRetained
  <2> QED BY <2>1, <2>5, CompleteIsKept, SameObservations DEF StaysFinal, Switches
<1>9. ASSUME UNCHANGED snapshotVars
      PROVE  UNCHANGED <<vars, runVars, observations>> /\ ScheduleIsCounted' /\ Switches
  BY <1>1, <1>9 DEF snapshotVars, shadowVars, ScheduleIsCounted, Switches
<1> QED BY <1>3, <1>4, <1>5, <1>6, <1>7, <1>8, <1>9 DEF ShadowForm, Scan

LEMMA ScopeIsFinal ==
  ASSUME ShadowInv, ScopeStep
  PROVE  StaysFinal
<1>1. ASSUME ResetShadow PROVE StaysFinal
  <2>1. /\ Reset /\ runs' = {} /\ periodic' = NoPeriodic /\ observations' = Without(Users \X Repos)
        /\ issued' = issued
    BY <1>1 DEF ResetShadow
  <2>2. connection'.id # connection.id
    BY <2>1 DEF Reset, NoConnection, Found
  <2>3. \A p \in Users \X Repos : observations'[p] = Unobserved
    BY <2>1, WithoutTypes
  <2>4. Switches
    BY <2>1 DEF Switches, NoPeriodic, ShadowInv, ScheduleIsCounted
  <2> QED BY <2>1, <2>2, <2>3, <2>4 DEF StaysFinal, RunsAreKept, MovesForward
<1>2. ASSUME UNCHANGED shadowVars PROVE StaysFinal
  <2>1. runs' = runs /\ observations' = observations /\ periodic' = periodic
    BY <1>2 DEF shadowVars, runVars
  <2> QED BY <2>1, SameRunsAreKept, SameObservations DEF StaysFinal, Switches
<1>3. ASSUME NEW gone, observations' = Without(gone), UNCHANGED <<runVars, periodic>>
      PROVE  StaysFinal
  <2>1. runs' = runs /\ periodic' = periodic
    BY <1>3 DEF runVars
  <2>2. \A p \in Users \X Repos : observations'[p] \in {Unobserved, observations[p]}
    BY <1>3 DEF Without
  <2> QED BY <2>1, <2>2, SameRunsAreKept, FewerObservations DEF StaysFinal, Switches
<1>4. ASSUME NEW u \in Users, LinkIdentity(u) \/ RemoveIdentity(u) PROVE StaysFinal
  <2>1. CASE LinkIdentity(u)
    <3>1. UNCHANGED shadowVars
      BY <2>1 DEF LinkIdentity
    <3> QED BY <1>2, <3>1
  <2>2. CASE RemoveIdentity(u)
    <3>1. observations' = Without({u} \X Repos) /\ UNCHANGED <<runVars, periodic>>
      BY <2>2 DEF RemoveIdentity
    <3> QED BY <1>3, <3>1
  <2> QED BY <1>4, <2>1, <2>2
<1>5. ASSUME NEW r \in Repos, UnbindShadow(r) PROVE StaysFinal
  <2>1. observations' = Without(Users \X {r}) /\ UNCHANGED <<runVars, periodic>>
    BY <1>5 DEF UnbindShadow
  <2> QED BY <1>3, <2>1
<1> QED BY <1>1, <1>2, <1>4, <1>5 DEF ScopeStep

LEMMA ShadowInvariance ==
  /\ ShadowSpec => []ShadowInv
  /\ ShadowSpec => [][StaysFinal]_snapshotVars
<1>1. ShadowInv /\ [ShadowNext]_snapshotVars => ShadowInv' /\ StaysFinal
  BY FinishIsFinal, ScheduleIsFinal, ScopeIsFinal, ScopeStepPreserves DEF ShadowNext
<1>2. ShadowInv /\ [ShadowNext]_snapshotVars => [StaysFinal]_snapshotVars /\ ShadowInv'
  BY <1>1
<1> QED BY <1>2, ShadowInitEstablishes, PTL DEF ShadowSpec

-----------------------------------------------------------------------------
(* The page derives from a row what the reservation reads in it.           *)
LEMMA RunningIs ==
  ASSUME NEW x
  PROVE  Running(x) <=> x.result = "running" /\ x.young
<1>1. CASE x.result = "running"
  <2>1. AttemptStatus(x) = IF x.young THEN "running" ELSE "interrupted"
    BY <1>1 DEF AttemptStatus
  <2> QED BY <1>1, <2>1 DEF Running
<1>2. CASE x.result # "running"
  <2>1. AttemptStatus(x) \in {"superseded", "completed", "failed"}
    BY <1>2 DEF AttemptStatus
  <2> QED BY <1>2, <2>1 DEF Running
<1> QED BY <1>1, <1>2

LEMMA OfferIsReservation ==
  ASSUME ShadowInv
  PROVE  OfferedIsReservable
<1>1. LinkedUsers = People /\ BoundRepositories = BoundRepos
  BY DEF LinkedUsers, BoundRepositories, People, BoundRepos
<1>2. (\E x \in NewestRun(FALSE) : Running(x)) <=> Excluded
  BY RunningIs DEF NewestRun, Excluded
<1>3. ViewReady <=> Found /\ Unblocked /\ ~Excluded
  BY <1>1, <1>2 DEF ViewReady, Unblocked
<1>4. ASSUME DueStatus = "running" PROVE Excluded
  <2> SUFFICES ASSUME ~\E x \in NewestRun(FALSE) : x.trigger = "periodic" /\ Running(x)
               PROVE  DueStatus # "running"
    BY <1>2, <1>4
  <2>1. DueStatus = CASE periodic.due = Disabled -> "not_scheduled"
                      [] periodic.due = "later" -> "scheduled"
                      [] OTHER -> "due"
    BY DEF DueStatus
  <2>2. DueStatus \in {"not_scheduled", "scheduled", "due"}
    BY <2>1
  <2> QED BY <2>2
<1> QED BY <1>3, <1>4 DEF OfferedIsReservable

(* What is shown as current covers exactly the pairs that are listed: its  *)
(* scope can only have shrunk, and then there would be fewer.              *)
LEMMA CurrentIsExact ==
  ASSUME ShadowInv
  PROVE  CurrentCoversPairs
<1> SUFFICES ASSUME NEW x \in Shown
             PROVE  Listed = Pairs(x) /\ \A p \in Listed : observations[p].run = x.id
  BY DEF CurrentCoversPairs
<1>1. x \in Complete(runs) /\ x \in runs /\ ShownCurrent(x)
  BY DEF Shown, NewestRun, NewestOf, Complete
<1>2. /\ connection.identity = x.identity /\ connection.binding = x.binding
      /\ Cardinality(People) = Cardinality(x.people)
      /\ Cardinality(BoundRepos) = Cardinality(x.repos)
  BY <1>1 DEF ShownCurrent, CurrentByRevision
<1>3. /\ People \subseteq x.people /\ IsFiniteSet(x.people)
      /\ BoundRepos \subseteq x.repos /\ IsFiniteSet(x.repos)
  BY <1>1, <1>2 DEF ShadowInv, CoversScope
<1>4. People = x.people /\ BoundRepos = x.repos
  BY <1>2, <1>3, FS_Subset
<1>5. Listed = Pairs(x)
  BY <1>4 DEF Listed, Pairs, LinkedUsers, BoundRepositories, People, BoundRepos
<1> QED BY <1>1, <1>2, <1>5 DEF ShadowInv, CompleteIsObserved

(* What the page shows of access is what an attempt observed of the links  *)
(* and bindings of today, at any revision (access_shadow.go,               *)
(* access_shadow_view.go).                                                 *)
THEOREM ObservationsStayShown == ShadowSpec => []ObservationsAreShown
<1>1. ASSUME ShadowInv PROVE ShadowTypeOK
  <2>1. /\ RunsAreRetained(runs) /\ runs \subseteq RunRow /\ ScheduleIsCounted /\ ObservationTypes
        /\ \A x \in runs : CoversScope(x)
    BY <1>1 DEF ShadowInv, RunsAreRetained
  <2>2. ASSUME NEW x \in runs
        PROVE  /\ x.id \in 1..issued /\ x.connection = connection.id /\ x.result \in Results
               /\ x.identity \in Revision \ {0} /\ x.people # {} /\ x.repos # {}
               /\ x.young => x.result = "running"
               /\ x.result = "running" => x \in NewestOf(runs)
    <3>1. /\ x \in RunRow /\ CoversScope(x)
          /\ (x.young => x.result = "running")
          /\ (x.result = "running" => \A y \in runs : y.id <= x.id)
      BY <2>1 DEF RunsAreRetained
    <3>2. x.result \in Results /\ x.identity \in Revision
      BY <3>1 DEF RunRow
    <3> QED BY <3>1, <3>2 DEF CoversScope, NewestOf
  <2>3. Cardinality(runs) <= 3
    BY <2>1, ThreeRowsAreKept
  <2> QED BY <2>1, <2>2, <2>3 DEF ShadowTypeOK, ScheduleIsCounted, ObservationTypes
<1>2. ShadowInv => ObservationsAreShown
  BY <1>1, CurrentIsExact, OfferIsReservation DEF ObservationsAreShown, ShadowInv
<1> QED BY <1>2, ShadowInvariance, PTL

(* Attempts end once and in order, and none takes back what a later one    *)
(* found or an administrator decided (access_shadow.go,                    *)
(* access_shadow_periodic.go).                                             *)
THEOREM AttemptsStayFinal == ShadowSpec => AttemptsAreFinal
<1>1. StaysFinal => RunsAreKept /\ MovesForward /\ Switches
  BY DEF StaysFinal
<1>2. ShadowSpec => SnapshotsAreKept
  BY <1>1, ShadowInvariance, PTL DEF SnapshotsAreKept, RunsAreKept
<1>3. ShadowSpec => ObservationsMoveForward
  BY <1>1, ShadowInvariance, PTL DEF ObservationsMoveForward, MovesForward
<1>4. ShadowSpec => SwitchedByForm
  BY <1>1, ShadowInvariance, PTL DEF SwitchedByForm, Switches
<1> QED BY <1>2, <1>3, <1>4 DEF AttemptsAreFinal

-----------------------------------------------------------------------------
(***************************************************************************)
(* Linked identities, for any number of users, accounts and ceremonies.    *)
(* A ceremony commits only while its row is there, and its row is there    *)
(* only while the client it was started with is; so what a callback brings *)
(* home late cannot link an account of another forge.                      *)
(***************************************************************************)

Domains ==
  /\ accounts \in [Users -> [disabled : BOOLEAN, session : Nat]]
  /\ opened \in 0..MaxSessions /\ started \in 0..MaxLinks
  /\ \A u \in Users : /\ accounts[u].disabled => accounts[u].session = 0
                      /\ accounts[u].session <= opened
  /\ oauth \in [revision : Revision, enabled : BOOLEAN, url : Urls \cup {None}]
  /\ oauth.enabled <=> oauth.url # None
  /\ links \subseteq Row /\ callbacks \subseteq Row
  /\ DOMAIN identities = Users
  /\ Found => connection.url \in Urls

(* Whoever is linked is linked to the connection that is there.            *)
LinksAreFound == \A u \in Users : Linked(u) => Found

IdentityInv ==
  ConnectionInv /\ Domains /\ LinksAreFound /\ IdentitiesAreHome /\ CeremoniesAreCurrent

(* What the steps of a ceremony leave alone.                               *)
RestKept == UNCHANGED <<created, evidence, preview, checks, bindings, locals>>
ClientKept == UNCHANGED <<connection, identities, oauth>>
UsersKept == UNCHANGED <<accounts, opened>>

LEMMA RestIsKept ==
  ASSUME UNCHANGED restVars \/ UNCHANGED vars
  PROVE  RestKept
BY DEF restVars, vars, connectionVars, evidenceVars, bindingVars, RestKept

LEMMA ConnectionKept ==
  ASSUME ConnectionInv, RestKept, UNCHANGED connection
  PROVE  ConnectionInv'
<1>1. locals \in [Repos -> Names \cup {None}]
  BY DEF ConnectionInv, TypeOK
<1> QED BY <1>1, OtherStep DEF RestKept

(* A row, field by field, and the rows that are made of it.                *)
LEMMA RowFields ==
  ASSUME NEW x \in Row
  PROVE  /\ x.user \in Users /\ x.session # 0 /\ x.url \in Urls
         /\ [x EXCEPT !.live = FALSE] \in Row
         /\ [x EXCEPT !.live = FALSE].user = x.user
         /\ [x EXCEPT !.live = FALSE].connection = x.connection
         /\ [x EXCEPT !.live = FALSE].url = x.url
         /\ [x EXCEPT !.live = FALSE].oauth = x.oauth
         /\ [x EXCEPT !.status = "claimed"] \in Row
         /\ [x EXCEPT !.status = "claimed"].user = x.user
         /\ [x EXCEPT !.status = "claimed"].connection = x.connection
         /\ [x EXCEPT !.status = "claimed"].url = x.url
         /\ [x EXCEPT !.status = "claimed"].oauth = x.oauth
<1> DEFINE tokens == 1..MaxLinks  sessions == 1..MaxSessions  ids == 1..MaxConnections
           row == [token : tokens, user : Users, session : sessions,
                   status : {"pending", "claimed"}, live : BOOLEAN,
                   connection : ids, revision : Revision, oauth : Revision, url : Urls]
<1>1. x \in row /\ row = Row /\ 0 \notin sessions
  BY IdentityAssumption DEF Row
<1> HIDE DEF tokens, sessions, ids
<1>2. /\ x.user \in Users /\ x.session \in sessions /\ x.url \in Urls
      /\ [x EXCEPT !.live = FALSE] \in row
      /\ [x EXCEPT !.live = FALSE].user = x.user
      /\ [x EXCEPT !.live = FALSE].connection = x.connection
      /\ [x EXCEPT !.live = FALSE].url = x.url
      /\ [x EXCEPT !.live = FALSE].oauth = x.oauth
  BY <1>1
<1>3. /\ [x EXCEPT !.status = "claimed"] \in row
      /\ [x EXCEPT !.status = "claimed"].user = x.user
      /\ [x EXCEPT !.status = "claimed"].connection = x.connection
      /\ [x EXCEPT !.status = "claimed"].url = x.url
      /\ [x EXCEPT !.status = "claimed"].oauth = x.oauth
  BY <1>1
<1> QED BY <1>1, <1>2, <1>3

(* Fewer rows, or rows that differ in their progress only: ceremonies stay *)
(* what they are as long as the client and the links do.                   *)
LEMMA RowsStay ==
  ASSUME CeremoniesAreCurrent, ClientKept,
         NEW f, \A x \in links' : f[x] \in links /\ f[x].user = x.user
                  /\ f[x].connection = x.connection /\ f[x].url = x.url /\ f[x].oauth = x.oauth,
         \A x, y \in links' : f[x] = f[y] => x = y
  PROVE  CeremoniesAreCurrent'
BY DEF CeremoniesAreCurrent, ClientKept, Linked

LEMMA HomesStay ==
  ASSUME LinksAreFound, IdentitiesAreHome, ClientKept
  PROVE  LinksAreFound' /\ IdentitiesAreHome'
BY DEF LinksAreFound, IdentitiesAreHome, ClientKept, Linked, Found
(* Steps that leave the connection, the client and the links alone.        *)
LEMMA CeremonyStep ==
  ASSUME IdentityInv, RestKept, ClientKept, UsersKept, started' \in 0..MaxLinks,
         links' \subseteq Row, callbacks' \subseteq Row, CeremoniesAreCurrent'
  PROVE  IdentityInv'
<1>1. ConnectionInv'
  BY ConnectionKept DEF IdentityInv, ClientKept
<1>2. LinksAreFound' /\ IdentitiesAreHome'
  BY HomesStay DEF IdentityInv
<1>3. Domains'
  BY DEF IdentityInv, Domains, ClientKept, UsersKept, Found
<1> QED BY <1>1, <1>2, <1>3 DEF IdentityInv

LEMMA FewerRows ==
  ASSUME IdentityInv, RestKept, ClientKept, UsersKept, started' = started,
         links' \subseteq links, callbacks' \subseteq Row
  PROVE  IdentityInv'
<1>1. CeremoniesAreCurrent'
  BY DEF IdentityInv, CeremoniesAreCurrent, ClientKept, Linked
<1> QED BY <1>1, CeremonyStep DEF IdentityInv, Domains

-----------------------------------------------------------------------------
LEMMA IdentityInitEstablishes ==
  ASSUME IdentityInit
  PROVE  IdentityInv
<1>1. ConnectionInv
  BY InitEstablishes DEF IdentityInit
<1>2. \A u \in Users : ~Linked(u)
  BY DEF IdentityInit, Init, Linked, Unlinked
<1>3. 0 \in 0..MaxSessions /\ 0 \in 0..MaxLinks /\ 0 \in Revision /\ None \notin Urls
  BY IdentityAssumption, ForgeAssumption DEF Revision
<1>4. Domains
  BY <1>3 DEF IdentityInit, Init, Domains, NoOAuth, NoConnection, Found
<1> QED
  BY <1>1, <1>2, <1>4
  DEF IdentityInit, Init, IdentityInv, LinksAreFound, IdentitiesAreHome, CeremoniesAreCurrent

(* The OAuth client goes with its ceremonies.                              *)
LEMMA ClientStep ==
  ASSUME IdentityInv, SaveOAuthClient \/ DisableOAuthClient
  PROVE  IdentityInv' /\ UNCHANGED identities
<1>1. /\ RestKept /\ UsersKept /\ UNCHANGED <<connection, identities, started, callbacks>>
      /\ links' = {} /\ Found
  BY RestIsKept DEF SaveOAuthClient, DisableOAuthClient, NoLinks, UsersKept, accountVars
<1>2. oauth' \in [revision : Revision, enabled : BOOLEAN, url : Urls \cup {None}]
  <2>1. oauth.revision \in Revision /\ MaxRevision \in Nat /\ connection.url \in Urls
    BY <1>1, ForgeAssumption DEF IdentityInv, Domains
  <2>2. Advances(oauth.revision) => oauth.revision + 1 \in Revision
    BY <2>1 DEF Advances, Revision
  <2>3. CASE SaveOAuthClient
    BY <2>1, <2>2, <2>3 DEF SaveOAuthClient
  <2>4. CASE DisableOAuthClient
    BY <2>1, <2>2, <2>4 DEF DisableOAuthClient
  <2> QED BY <2>3, <2>4
<1>3. oauth'.enabled <=> oauth'.url # None
  <2>1. connection.url # None
    BY <1>1, ForgeAssumption DEF IdentityInv, Domains
  <2>2. CASE SaveOAuthClient
    BY <2>1, <2>2 DEF SaveOAuthClient
  <2>3. CASE DisableOAuthClient
    BY <2>3 DEF DisableOAuthClient
  <2> QED BY <2>2, <2>3
<1>4. ConnectionInv'
  BY <1>1, ConnectionKept DEF IdentityInv
<1>5. LinksAreFound' /\ IdentitiesAreHome' /\ CeremoniesAreCurrent'
  BY <1>1 DEF IdentityInv, LinksAreFound, IdentitiesAreHome, CeremoniesAreCurrent, Linked, Found
<1>6. Domains'
  BY <1>1, <1>2, <1>3 DEF IdentityInv, Domains, UsersKept, Found
<1> QED BY <1>1, <1>4, <1>5, <1>6 DEF IdentityInv

(* A ceremony starts for a user who has none waiting, on the client and    *)
(* the connection of the moment.                                           *)
LEMMA StartStep ==
  ASSUME IdentityInv, NEW u \in Users, StartLink(u)
  PROVE  IdentityInv' /\ UNCHANGED identities
<1>1. /\ RestKept /\ UsersKept /\ ClientKept /\ callbacks' = callbacks
      /\ started' = started + 1 /\ RowsOf(u) \cap Live = {}
      /\ Found /\ oauth.enabled /\ oauth.url = connection.url /\ ~Linked(u)
  BY RestIsKept DEF StartLink, UsersKept, ClientKept, accountVars, Configured
<1> DEFINE new == [token |-> started', user |-> u, session |-> accounts[u].session,
                   status |-> "pending", live |-> TRUE, connection |-> connection.id,
                   revision |-> connection.revision, oauth |-> oauth.revision,
                   url |-> oauth.url]
           tokens == 1..MaxLinks  sessions == 1..MaxSessions  ids == 1..MaxConnections
<1>2. links' = Live \cup {new}
  BY DEF StartLink
<1>3. started' \in tokens /\ started' \in 0..MaxLinks
  BY <1>1, IdentityAssumption DEF StartLink, IdentityInv, Domains
<1>4. accounts[u].session \in sessions
  <2>1. /\ opened \in 0..MaxSessions /\ accounts[u].session \in Nat
        /\ accounts[u].session <= opened /\ accounts[u].session # 0 /\ MaxSessions \in Nat
    BY IdentityAssumption DEF StartLink, SignedIn, IdentityInv, Domains
  <2> QED BY <2>1
<1>5. /\ connection.id \in ids /\ connection.revision \in Revision
      /\ oauth.revision \in Revision /\ oauth.url \in Urls
  <2>1. /\ connection.id \in 0..MaxConnections /\ connection.id # 0 /\ MaxConnections \in Nat
        /\ connection.revision \in Revision
    BY <1>1, ForgeAssumption DEF IdentityInv, ConnectionInv, TypeOK, Found
  <2>2. oauth.revision \in Revision /\ oauth.url \in Urls
    BY <1>1 DEF IdentityInv, Domains
  <2> QED BY <2>1, <2>2
<1>6. new \in Row
  <2> HIDE DEF tokens, sessions, ids
  <2>1. new \in [token : tokens, user : Users, session : sessions,
                 status : {"pending", "claimed"}, live : BOOLEAN,
                 connection : ids, revision : Revision, oauth : Revision, url : Urls]
    BY <1>3, <1>4, <1>5
  <2> QED BY <2>1 DEF tokens, sessions, ids, Row
<1>7. /\ new.user = u /\ new.connection = connection.id /\ new.oauth = oauth.revision
      /\ new.url = oauth.url
  OBVIOUS
<1> HIDE DEF new
<1>8. links' \subseteq Row
  BY <1>2, <1>6 DEF Live, IdentityInv, Domains
<1>9. \A x \in Live : x \in links /\ x.user # u
  BY <1>1 DEF Live, RowsOf
<1>10. CeremoniesAreCurrent'
  BY <1>1, <1>2, <1>7, <1>9 DEF IdentityInv, CeremoniesAreCurrent, ClientKept, Linked
<1> QED
  BY <1>1, <1>3, <1>8, <1>10, CeremonyStep DEF IdentityInv, Domains, ClientKept

(* Rows that expire or are claimed are the same ceremony.                  *)
LEMMA RowReplaced ==
  ASSUME IdentityInv, RestKept, UsersKept, ClientKept, started' = started,
         NEW x \in links, NEW new \in Row, new.user = x.user, new.connection = x.connection,
         new.url = x.url, new.oauth = x.oauth,
         links' \subseteq (links \ {x}) \cup {new}, callbacks' \subseteq callbacks \cup {new}
  PROVE  IdentityInv'
<1>1. links' \subseteq Row /\ callbacks' \subseteq Row
  BY DEF IdentityInv, Domains
<1>2. CeremoniesAreCurrent'
  BY DEF IdentityInv, CeremoniesAreCurrent, ClientKept, Linked
<1> QED BY <1>1, <1>2, CeremonyStep DEF IdentityInv, Domains

LEMMA ExpireStep ==
  ASSUME IdentityInv, NEW x \in links, Expire(x)
  PROVE  IdentityInv' /\ UNCHANGED identities
<1> DEFINE new == [x EXCEPT !.live = FALSE]
<1>1. RestKept /\ UsersKept /\ ClientKept /\ started' = started
  BY RestIsKept DEF Expire, UsersKept, ClientKept, accountVars
<1>2. links' \subseteq (links \ {x}) \cup {new} /\ callbacks' \subseteq callbacks \cup {new}
  BY DEF Expire
<1>3. /\ new \in Row /\ new.user = x.user /\ new.connection = x.connection
      /\ new.url = x.url /\ new.oauth = x.oauth
  BY RowFields DEF IdentityInv, Domains
<1> HIDE DEF new
<1> QED BY <1>1, <1>2, <1>3, RowReplaced DEF ClientKept

LEMMA ClaimStep ==
  ASSUME IdentityInv, NEW x \in links, ClaimLink(x)
  PROVE  IdentityInv' /\ UNCHANGED identities
<1> DEFINE new == [x EXCEPT !.status = "claimed"]
<1>1. RestKept /\ UsersKept /\ ClientKept /\ started' = started
  BY RestIsKept DEF ClaimLink, UsersKept, ClientKept, accountVars
<1>2. links' \subseteq (links \ {x}) \cup {new} /\ callbacks' \subseteq callbacks \cup {new}
  BY DEF ClaimLink, Live
<1>3. /\ new \in Row /\ new.user = x.user /\ new.connection = x.connection
      /\ new.url = x.url /\ new.oauth = x.oauth
  BY RowFields DEF IdentityInv, Domains
<1> HIDE DEF new
<1> QED BY <1>1, <1>2, <1>3, RowReplaced DEF ClientKept

LEMMA EndStep ==
  ASSUME IdentityInv,
         \/ \E x \in links : ConsumeLink(x)
         \/ \E c \in callbacks : RejectLink(c) \/ AbandonLink(c)
  PROVE  IdentityInv' /\ UNCHANGED identities
<1>1. /\ RestKept /\ UsersKept /\ ClientKept /\ started' = started
      /\ links' \subseteq links /\ callbacks' \subseteq callbacks
  BY RestIsKept DEF ConsumeLink, RejectLink, AbandonLink, UsersKept, ClientKept, accountVars
<1> QED BY <1>1, FewerRows DEF IdentityInv, Domains, ClientKept

-----------------------------------------------------------------------------
(* Links change with the identity revision; nothing else of the connection *)
(* moves, so the rest of it stays as sound as it was.                      *)
LEMMA IdentityMoves ==
  ASSUME IdentityInv, RestKept, Found, NEW revision \in Revision,
         connection' = [connection EXCEPT !.identity = revision]
  PROVE  /\ ConnectionInv' /\ Found' /\ connection'.id = connection.id
         /\ connection'.url = connection.url /\ connection'.identity = revision
<1>1. connection \in Connection
  BY DEF IdentityInv, ConnectionInv, TypeOK, Connection
<1>2. CounterMoves /\ connection'.identity = revision
  BY <1>1 DEF CounterMoves, Connection, RestKept
<1>3. bindings' \in [Repos -> Remotes \cup {None}] /\ BindingsAreHome'
  BY <1>2 DEF RestKept, CounterMoves, IdentityInv, ConnectionInv, TypeOK, BindingsAreHome, Bound
<1> QED BY <1>2, <1>3, CounterStep DEF IdentityInv, CounterMoves, Found

(* The row that is still there says that the client, and so the connection,*)
(* is the one the ceremony was started with.                               *)
LEMMA CompleteStep ==
  ASSUME IdentityInv, NEW c \in callbacks, NEW account \in Accounts, CompleteLink(c, account)
  PROVE  /\ IdentityInv'
         /\ connection'.identity > connection.identity
         /\ SignedIn(c.user, c.session)
         /\ \A u \in Users : u # c.user => identities'[u] = identities[u]
<1>1. /\ RestKept /\ UsersKept /\ UNCHANGED <<oauth, started>> /\ c \in links /\ Found
      /\ ~Linked(c.user) /\ ~Taken(account) /\ SignedIn(c.user, c.session)
      /\ links' = links \ {c} /\ callbacks' \subseteq callbacks
  BY RestIsKept DEF CompleteLink, Completable, Acceptable, Configured, UsersKept, accountVars
<1>2. /\ c.user \in Users /\ c.connection = connection.id /\ c.url = connection.url
      /\ account # None
  BY <1>1, RowFields, ForgeAssumption
  DEF IdentityInv, Domains, CompleteLink, Completable, Acceptable, CeremoniesAreCurrent, Configured
<1> DEFINE new == [account |-> account, connection |-> c.connection, url |-> c.url]
<1>3. identities' = [identities EXCEPT ![c.user] = new]
  BY DEF CompleteLink
<1>4. new.account = account /\ new.connection = connection.id /\ new.url = connection.url
  BY <1>2
<1> HIDE DEF new
<1>5. /\ DOMAIN identities = Users /\ identities'[c.user] = new /\ DOMAIN identities' = Users
      /\ \A u \in Users : u # c.user => identities'[u] = identities[u]
  BY <1>2, <1>3 DEF IdentityInv, Domains
<1>6. /\ connection.identity \in Nat /\ connection.identity + 1 \in Revision
      /\ connection' = [connection EXCEPT !.identity = connection.identity + 1]
  <2>1. connection.identity \in Revision /\ MaxRevision \in Nat
    BY ForgeAssumption, CountersCount DEF IdentityInv, ConnectionInv, Counters
  <2>2. connection.identity < MaxRevision
    BY DEF CompleteLink, Advances
  <2> QED BY <2>1, <2>2 DEF CompleteLink, Revision
<1>7. /\ ConnectionInv' /\ Found' /\ connection'.id = connection.id
      /\ connection'.url = connection.url /\ connection'.identity = connection.identity + 1
  BY <1>1, <1>6, IdentityMoves
<1>8. LinksAreFound'
  BY <1>7 DEF LinksAreFound
<1>9. IdentitiesAreHome'
  BY <1>1, <1>2, <1>4, <1>5, <1>7 DEF IdentityInv, IdentitiesAreHome, Linked, Taken
<1>10. CeremoniesAreCurrent'
  <2>1. \A x \in links' : x \in links /\ x.user # c.user /\ x.user \in Users
    BY <1>1, RowFields DEF IdentityInv, CeremoniesAreCurrent, Domains
  <2> QED BY <1>1, <1>5, <1>7, <2>1 DEF IdentityInv, CeremoniesAreCurrent, Linked
<1>11. Domains'
  BY <1>1, <1>5, <1>7 DEF IdentityInv, Domains, UsersKept, Found
<1> QED BY <1>1, <1>5, <1>6, <1>7, <1>8, <1>9, <1>10, <1>11 DEF IdentityInv

LEMMA RemoveStep ==
  ASSUME IdentityInv, NEW u \in Users, Removed(u)
  PROVE  /\ IdentityInv'
         /\ \/ connection'.identity > connection.identity
            \/ connection.identity = MaxRevision
         /\ ~Linked(u)'
         /\ \A v \in Users : v # u => identities'[v] = identities[v]
<1>1. /\ RestKept /\ UsersKept /\ UNCHANGED <<oauth, started, callbacks>> /\ Found
      /\ links' \subseteq links
  BY RestIsKept DEF Removed, UsersKept, accountVars, IdentityInv, LinksAreFound
<1>2. /\ DOMAIN identities' = Users /\ ~Linked(u)'
      /\ \A v \in Users : v # u => identities'[v] = identities[v]
  BY DEF Removed, IdentityInv, Domains, Unlinked, Linked
<1>3. PICK revision \in Revision :
        /\ connection' = [connection EXCEPT !.identity = revision]
        /\ revision > connection.identity \/ connection.identity = MaxRevision
  <2>1. connection.identity \in Revision /\ MaxRevision \in Nat
    BY ForgeAssumption, CountersCount DEF IdentityInv, ConnectionInv, Counters
  <2>2. CASE Advances(connection.identity)
    <3>1. connection.identity + 1 \in Revision /\ connection.identity + 1 > connection.identity
      BY <2>1, <2>2 DEF Advances, Revision
    <3>2. connection' = [connection EXCEPT !.identity = connection.identity + 1]
      BY <2>2 DEF Removed, Removal, Advanced
    <3> QED BY <3>1, <3>2
  <2>3. CASE ~Advances(connection.identity)
    <3>1. connection.identity = MaxRevision
      BY <2>1, <2>3 DEF Advances, Revision
    <3>2. connection' = [connection EXCEPT !.identity = connection.identity]
      BY <2>3 DEF Removed, Removal, Advanced
    <3> QED BY <2>1, <3>1, <3>2
  <2> QED BY <2>2, <2>3
<1>4. /\ ConnectionInv' /\ Found' /\ connection'.id = connection.id
      /\ connection'.url = connection.url /\ connection'.identity = revision
  BY <1>1, <1>3, IdentityMoves
<1>5. \A v \in Users : Linked(v)' => v # u
  BY <1>2
<1>6. LinksAreFound' /\ IdentitiesAreHome'
  BY <1>2, <1>4, <1>5 DEF LinksAreFound, IdentitiesAreHome, IdentityInv, Linked
<1>7. CeremoniesAreCurrent'
  <2>1. \A x \in links' : x \in links /\ x.user \in Users
    BY <1>1, RowFields DEF IdentityInv, Domains
  <2> QED BY <1>1, <1>2, <1>4, <2>1 DEF IdentityInv, CeremoniesAreCurrent, Linked
<1>8. Domains'
  BY <1>1, <1>2, <1>4 DEF IdentityInv, Domains, UsersKept, Found
<1> QED BY <1>2, <1>3, <1>4, <1>6, <1>7, <1>8 DEF IdentityInv

-----------------------------------------------------------------------------
(* Users come and go without touching a link.                              *)
LEMMA AccountIsSet ==
  ASSUME IdentityInv, AccountStep, NEW u \in Users,
         NEW new \in [disabled : BOOLEAN, session : Nat], accounts' = [accounts EXCEPT ![u] = new],
         new.disabled => new.session = 0, new.session <= opened', opened' \in {opened, opened + 1},
         opened' \in 0..MaxSessions
  PROVE  IdentityInv' /\ UNCHANGED identities
<1>1. /\ RestKept /\ ClientKept /\ UNCHANGED <<links, started, callbacks>>
  BY RestIsKept
  DEF AccountStep, SignIn, SignOut, DisableUser, EnableUser, SetAccount, ClientKept, vars,
      connectionVars, identityVars
<1>2. /\ accounts' \in [Users -> [disabled : BOOLEAN, session : Nat]]
      /\ \A v \in Users : /\ accounts'[v].disabled => accounts'[v].session = 0
                          /\ accounts'[v].session <= opened'
  <2>1. opened \in Nat /\ accounts \in [Users -> [disabled : BOOLEAN, session : Nat]]
    BY IdentityAssumption DEF IdentityInv, Domains
  <2>2. \A v \in Users : accounts[v].session \in Nat
    BY <2>1
  <2> QED BY <2>1, <2>2 DEF IdentityInv, Domains
<1>3. Domains'
  BY <1>1, <1>2 DEF IdentityInv, Domains, ClientKept, Found
<1>4. LinksAreFound' /\ IdentitiesAreHome' /\ CeremoniesAreCurrent'
  BY <1>1, HomesStay DEF IdentityInv, CeremoniesAreCurrent, ClientKept, Linked
<1>5. ConnectionInv'
  BY <1>1, ConnectionKept DEF IdentityInv, ClientKept
<1> QED BY <1>1, <1>3, <1>4, <1>5 DEF IdentityInv, ClientKept

LEMMA UserStep ==
  ASSUME IdentityInv, AccountStep
  PROVE  IdentityInv' /\ UNCHANGED identities
<1>1. PICK u \in Users : SignIn(u) \/ SignOut(u) \/ DisableUser(u) \/ EnableUser(u)
  BY DEF AccountStep
<1>2. /\ accounts[u] \in [disabled : BOOLEAN, session : Nat]
      /\ opened \in 0..MaxSessions /\ accounts[u].session <= opened /\ opened \in Nat
      /\ accounts[u].disabled => accounts[u].session = 0
  BY IdentityAssumption DEF IdentityInv, Domains
<1>3. CASE SignIn(u)
  <2> DEFINE new == [disabled |-> FALSE, session |-> opened + 1]
  <2>1. opened' = opened + 1 /\ opened + 1 \in 0..MaxSessions
    BY <1>2, <1>3, IdentityAssumption DEF SignIn
  <2>2. accounts' = [accounts EXCEPT ![u] = new]
    BY <1>3, <2>1 DEF SignIn, SetAccount
  <2>3. new \in [disabled : BOOLEAN, session : Nat] /\ new.session = opened + 1 /\ ~new.disabled
        /\ opened + 1 <= opened + 1
    BY <1>2
  <2> HIDE DEF new
  <2> QED BY <2>1, <2>2, <2>3, AccountIsSet
<1>4. CASE SignOut(u)
  <2> DEFINE new == [accounts[u] EXCEPT !.session = 0]
  <2>1. accounts' = [accounts EXCEPT ![u] = new] /\ opened' = opened
    BY <1>4 DEF SignOut, SetAccount
  <2>2. new \in [disabled : BOOLEAN, session : Nat] /\ new.session = 0 /\ 0 <= opened
    BY <1>2
  <2> HIDE DEF new
  <2> QED BY <1>2, <2>1, <2>2, AccountIsSet
<1>5. CASE DisableUser(u)
  <2> DEFINE new == [disabled |-> TRUE, session |-> 0]
  <2>1. accounts' = [accounts EXCEPT ![u] = new] /\ opened' = opened
    BY <1>5 DEF DisableUser, SetAccount
  <2>2. new \in [disabled : BOOLEAN, session : Nat] /\ new.session = 0 /\ 0 <= opened
    BY <1>2
  <2> HIDE DEF new
  <2> QED BY <1>2, <2>1, <2>2, AccountIsSet
<1>6. CASE EnableUser(u)
  <2> DEFINE new == [accounts[u] EXCEPT !.disabled = FALSE]
  <2>1. accounts' = [accounts EXCEPT ![u] = new] /\ opened' = opened
    BY <1>6 DEF EnableUser, SetAccount
  <2>2. new \in [disabled : BOOLEAN, session : Nat] /\ new.session = accounts[u].session
        /\ ~new.disabled
    BY <1>2
  <2> HIDE DEF new
  <2> QED BY <1>2, <2>1, <2>2, AccountIsSet
<1> QED BY <1>1, <1>3, <1>4, <1>5, <1>6

(* The connection's own steps.  None of them moves a row or a link to      *)
(* another installation: a check binds the organisation, an edit must not  *)
(* touch the URL of what is linked, a reset takes the ceremonies along.    *)
LEMMA RowStaysStep ==
  ASSUME IdentityInv, ConnectionInv', UsersKept,
         UNCHANGED <<identities, oauth, links, started, callbacks>>,
         connection'.id = connection.id, connection'.url = connection.url
  PROVE  IdentityInv'
<1>1. LinksAreFound' /\ IdentitiesAreHome' /\ CeremoniesAreCurrent' /\ Domains'
  BY DEF IdentityInv, LinksAreFound, IdentitiesAreHome, CeremoniesAreCurrent, Domains, UsersKept,
         Linked, Found
<1> QED BY <1>1 DEF IdentityInv

LEMMA CheckKeepsLinks ==
  ASSUME IdentityInv, FirstCheck
  PROVE  IdentityInv' /\ UNCHANGED identities
<1>1. /\ UsersKept /\ UNCHANGED <<identities, oauth, links, started, callbacks>>
  BY DEF FirstCheck, ReserveCheck, PersistObservation, UsersKept, accountVars, identityVars
<1>2. connection \in Connection /\ preview.seen \in [Remotes -> Names \cup {None}]
  BY DEF IdentityInv, ConnectionInv, TypeOK, Connection
<1>3. ConnectionInv'
  BY <1>2, ReserveCheckStep, PersistObservationStep DEF IdentityInv, FirstCheck
<1>4. connection'.id = connection.id /\ connection'.url = connection.url
  BY <1>2 DEF FirstCheck, ReserveCheck, PersistObservation, Connection
<1> QED BY <1>1, <1>3, <1>4, RowStaysStep

LEMMA ConnectionKeepsLinks ==
  ASSUME IdentityInv, ConnectionStep, UNCHANGED <<accountVars, started, callbacks>>
  PROVE  IdentityInv' /\ UNCHANGED identities
<1>0. UsersKept /\ ConnectionInv' /\ UNCHANGED identities
  BY CreateStep, EditStep, ResetStep
  DEF UsersKept, accountVars, IdentityInv, ConnectionStep, Create, Edit, Reset, identityVars
<1>1. ASSUME NEW url \in Urls, Create(url) PROVE IdentityInv'
  <2>1. ~Found /\ UNCHANGED <<oauth, links>>
    BY <1>1 DEF Create, identityVars
  <2>2. \A u \in Users : ~Linked(u)
    BY <2>1 DEF IdentityInv, LinksAreFound
  <2>3. \A x \in links : FALSE
    <3> SUFFICES ASSUME NEW x \in links PROVE FALSE
      OBVIOUS
    <3>1. x \in Row /\ x.connection = 0
      BY <2>1 DEF IdentityInv, Domains, CeremoniesAreCurrent, Found
    <3> DEFINE ids == 1..MaxConnections
    <3>2. 0 \notin ids
      OBVIOUS
    <3> HIDE DEF ids
    <3>3. x.connection \in ids
      BY <3>1 DEF Row, ids
    <3> QED BY <3>1, <3>2, <3>3
  <2>4. LinksAreFound' /\ IdentitiesAreHome' /\ CeremoniesAreCurrent'
    BY <1>0, <2>1, <2>2, <2>3 DEF LinksAreFound, IdentitiesAreHome, CeremoniesAreCurrent, Linked
  <2>5. connection'.url = url
    BY <1>1 DEF Create, NoConnection
  <2>6. Domains'
    BY <1>0, <2>1, <2>5 DEF IdentityInv, Domains, UsersKept, Found
  <2> QED BY <1>0, <2>4, <2>6 DEF IdentityInv
<1>2. ASSUME NEW url \in Urls, Edit(url) PROVE IdentityInv'
  <2>1. connection \in Connection
    BY DEF IdentityInv, ConnectionInv, TypeOK, Connection
  <2>2. /\ connection'.id = connection.id /\ connection'.url = url
        /\ UNCHANGED <<oauth, links>> /\ (url # connection.url => ~HasIdentities)
    BY <1>2, <2>1 DEF Edit, Connection, MayMove, identityVars
  <2>3. LinksAreFound' /\ IdentitiesAreHome' /\ CeremoniesAreCurrent'
    BY <1>0, <2>2
    DEF IdentityInv, LinksAreFound, IdentitiesAreHome, CeremoniesAreCurrent, Linked, Found,
        HasIdentities
  <2>4. Domains'
    BY <1>0, <2>2 DEF IdentityInv, Domains, UsersKept, Found
  <2> QED BY <1>0, <2>3, <2>4 DEF IdentityInv
<1>3. ASSUME Reset PROVE IdentityInv'
  <2>1. links' = {} /\ oauth' = NoOAuth /\ connection' = NoConnection /\ ~HasIdentities
    BY <1>3 DEF Reset, Removable
  <2>2. LinksAreFound' /\ IdentitiesAreHome' /\ CeremoniesAreCurrent'
    BY <1>0, <2>1
    DEF IdentityInv, LinksAreFound, IdentitiesAreHome, CeremoniesAreCurrent, Linked, HasIdentities
  <2>3. NoOAuth.url = None /\ ~NoOAuth.enabled
        /\ NoOAuth \in [revision : Revision, enabled : BOOLEAN, url : Urls \cup {None}]
    BY ForgeAssumption DEF NoOAuth, Revision
  <2>4. ~Found'
    BY <2>1 DEF Found, NoConnection
  <2>5. Domains'
    BY <1>0, <2>1, <2>3, <2>4 DEF IdentityInv, Domains, UsersKept
  <2> QED BY <1>0, <2>2, <2>5 DEF IdentityInv
<1> QED BY <1>0, <1>1, <1>2, <1>3 DEF ConnectionStep

-----------------------------------------------------------------------------
(* A step changes links by a ceremony that completes, by their owner, or   *)
(* while their owner is disabled; every other step leaves them alone.      *)
LEMMA StepKinds ==
  ASSUME IdentityInv, [IdentityNext]_allVars
  PROVE  \/ IdentityInv' /\ UNCHANGED identities
         \/ \E c \in callbacks, account \in Accounts : CompleteLink(c, account)
         \/ \E u \in Users : /\ Removed(u)
                             /\ accounts[u].disabled \/ SignedIn(u, accounts[u].session)
<1>1. CASE LinkStep
  BY <1>1, ClientStep, StartStep, ClaimStep, ExpireStep, EndStep
  DEF LinkStep, Unlink, Purge, Purgeable
<1>2. CASE UNCHANGED allVars
  <2>1. /\ RestKept /\ ClientKept /\ UsersKept
        /\ UNCHANGED <<started, links, callbacks, identities>>
    BY <1>2, RestIsKept DEF allVars, vars, connectionVars, identityVars, ClientKept, UsersKept,
       accountVars
  <2> QED BY <2>1, FewerRows DEF IdentityInv, Domains
<1> QED BY <1>1, <1>2, UserStep, CheckKeepsLinks, ConnectionKeepsLinks DEF IdentityNext

LEMMA IdentityNextPreserves ==
  ASSUME IdentityInv, [IdentityNext]_allVars
  PROVE  IdentityInv'
BY StepKinds, CompleteStep, RemoveStep

(* Linked accounts stay home: read from the installation the connection    *)
(* points at, on the connection that is there, one user each; ceremonies   *)
(* wait only for the client that is there (forgeidentity).                 *)
THEOREM LinksStayHome == IdentitySpec => []LinksAreHome
<1>1. IdentityInv => LinksAreHome
  <2> SUFFICES ASSUME IdentityInv PROVE IdentityTypeOK
    BY DEF IdentityInv, LinksAreHome
  <2>1. connection.identity \in Revision
    BY CountersCount DEF IdentityInv, ConnectionInv, Counters
  <2>2. \A u \in Users : accounts[u].session \in 0..opened
    <3> SUFFICES ASSUME NEW u \in Users PROVE accounts[u].session \in 0..opened
      OBVIOUS
    <3>1. accounts[u].session \in Nat /\ opened \in Nat /\ accounts[u].session <= opened
      BY IdentityAssumption DEF IdentityInv, Domains
    <3> QED BY <3>1
  <2> QED BY <2>1, <2>2 DEF IdentityInv, Domains, IdentityTypeOK
<1> QED BY <1>1, IdentityInitEstablishes, IdentityNextPreserves, PTL DEF IdentitySpec

(* Accounts are linked by a user in the session that started the ceremony, *)
(* and unlinked by their owner or while the owner is disabled; whoever     *)
(* compares the identity revision sees it (forgeidentity).                 *)
THEOREM LinksKeepChangingByOwners == IdentitySpec => LinksChangeByOwners
<1> DEFINE Moves == identities' # identities =>
                      \/ connection'.identity > connection.identity
                      \/ /\ connection.identity = MaxRevision
                         /\ \A u \in Users : Linked(u)' => Linked(u)
           Owned == \A u \in Users :
             /\ (~Linked(u) /\ Linked(u)') => \E c \in callbacks : c.user = u /\ SignedIn(u, c.session)
             /\ (Linked(u) /\ ~Linked(u)') => \/ accounts[u].disabled
                                              \/ SignedIn(u, accounts[u].session)
<1>1. ASSUME IdentityInv, [IdentityNext]_allVars PROVE Moves /\ Owned
  <2>1. ASSUME UNCHANGED identities PROVE Moves /\ Owned
    BY <2>1 DEF Linked
  <2>2. ASSUME NEW c \in callbacks, NEW account \in Accounts, CompleteLink(c, account)
        PROVE  Moves /\ Owned
    <3>1. ~Linked(c.user)
      BY <2>2 DEF CompleteLink
    <3> QED BY <1>1, <2>2, <3>1, CompleteStep DEF Linked
  <2>3. ASSUME NEW u \in Users, Removed(u),
               accounts[u].disabled \/ SignedIn(u, accounts[u].session)
        PROVE  Moves /\ Owned
    BY <1>1, <2>3, RemoveStep DEF Linked
  <2> HIDE DEF Moves, Owned
  <2> QED BY <1>1, <2>1, <2>2, <2>3, StepKinds
<1>2. IdentityInv /\ [IdentityNext]_allVars => [Moves]_allVars /\ [Owned]_allVars
  <2> HIDE DEF Moves, Owned
  <2> QED BY <1>1
<1>3. IdentitySpec => []IdentityInv
  BY IdentityInitEstablishes, IdentityNextPreserves, PTL DEF IdentitySpec
<1>4. IdentitySpec => IdentitiesMoveRevision
  BY <1>2, <1>3, PTL DEF IdentitySpec, IdentitiesMoveRevision
<1>5. IdentitySpec => OwnersDecide
  BY <1>2, <1>3, PTL DEF IdentitySpec, OwnersDecide
<1> QED BY <1>4, <1>5 DEF LinksChangeByOwners
=============================================================================
