---------------------------- MODULE ForgeConnection ----------------------------
(***************************************************************************)
(* The connection to the forge's organisation, its readiness checks, and    *)
(* the bindings of local repositories to remote ones                        *)
(* (internal/forgeconnection: service.go, check.go, binding.go).           *)
(*                                                                         *)
(* There is at most one connection.  Everything on its page is submitted    *)
(* with the revisions the page showed and refused, without effect, when     *)
(* they are no longer the ones in the row; so only forms that still fit are *)
(* steps here, and what makes a fit mean that nothing changed is a property *)
(* (ContentMovesRevision).  A check is different: it reserves a generation, *)
(* talks to the forge for up to a minute, and commits what it saw if the    *)
(* row is still the one it reserved.                                       *)
(*                                                                         *)
(* The revision stands for the display name, the organisation's slug and    *)
(* the service PAT; the URL is kept, because identities rest on it.         *)
(* MaxRevision is the largest int64: a counter that reaches it is exhausted.*)
(* The identities and the OAuth client are moved by ForgeIdentity.          *)
(***************************************************************************)
EXTENDS Naturals, FiniteSets

CONSTANTS Urls,           \* canonical base URLs of installations
          Organizations,  \* remote ids an organisation may have
          Repos,          \* local repositories
          Remotes, Names, \* remote repositories by id, and their locators
          Users, Accounts,\* local users, and remote accounts by id
          None,
          MaxRevision,    \* math.MaxInt64
          MaxConnections, \* bound: connections ever created
          MaxChecks       \* bound: checks waiting for the forge

ASSUME ForgeAssumption ==
  /\ \A S \in {Urls, Organizations, Remotes, Names, Accounts} : None \notin S
  /\ MaxRevision \in Nat \ {0}
  /\ MaxConnections \in Nat /\ MaxChecks \in Nat

VARIABLES connection,  \* forge_connections, forgejo_connection_config, forge_organizations
          created,     \* the AUTOINCREMENT sequence of its ids
          evidence,    \* forge_connection_setup_checks
          preview,     \* forge_visible_repositories
          bindings,    \* forge_repository_bindings
          locals,      \* locators of repositories; None: not here, or not on this forge
          identities,  \* forgejo_identities
          oauth,       \* forgejo_identity_oauth_clients
          links,       \* forgejo_identity_link_transactions
          checks       \* Check calls between reserveCheck and persistCheck

connectionVars == <<connection, created>>
evidenceVars == <<evidence, preview, checks>>
bindingVars == <<bindings, locals>>
identityVars == <<identities, oauth, links>>
vars == <<connectionVars, evidenceVars, bindingVars, identityVars>>

Revision == 0..MaxRevision
NoConnection == [id |-> 0, url |-> None, org |-> None, revision |-> 0, generation |-> 0,
                 binding |-> 0, identity |-> 0]
NoEvidence == [revision |-> 0, generation |-> 0, observed |-> FALSE]
NoPreview == [generation |-> 0, seen |-> [m \in Remotes |-> None]]
NoOAuth == [revision |-> 0, enabled |-> FALSE, url |-> None]
Unlinked == [account |-> None, connection |-> 0, url |-> None]

Snapshot(c) == [id |-> c.id, revision |-> c.revision, generation |-> c.generation,
                url |-> c.url, org |-> c.org]

Init == /\ connection = NoConnection /\ created = 0
        /\ evidence = NoEvidence /\ preview = NoPreview /\ checks = {}
        /\ bindings = [r \in Repos |-> None]
        /\ locals = [r \in Repos |-> None]
        /\ identities = [u \in Users |-> Unlinked]
        /\ oauth = NoOAuth /\ links = {}

-----------------------------------------------------------------------------
(* What the transactions read.                                              *)

Found == connection.id # 0
Bound == connection.org # None
HasBindings == \E r \in Repos : bindings[r] # None
Linked(u) == identities[u].account # None
HasIdentities == \E u \in Users : Linked(u)
Advances(revision) == revision < MaxRevision

-----------------------------------------------------------------------------
(* The connection.                                                          *)

Create(url) ==
    /\ ~Found /\ created < MaxConnections
    /\ created' = created + 1
    /\ connection' = [NoConnection EXCEPT !.id = created', !.url = url, !.revision = 1]
    /\ UNCHANGED <<evidenceVars, bindingVars, identityVars>>

\* The URL is fixed once the organisation is bound or an identity is linked.
MayMove == ~Bound /\ ~HasIdentities
Edit(url) ==
    /\ Found /\ Advances(connection.revision)
    /\ url # connection.url => MayMove
    /\ connection' = [connection EXCEPT !.url = url, !.revision = @ + 1]
    /\ UNCHANGED <<created, evidenceVars, bindingVars, identityVars>>

\* The evidence, the organisation, the OAuth client and its ceremonies go with
\* the row; bindings and identities keep it.
Removable == ~HasBindings /\ ~HasIdentities
LostEvidence == NoEvidence
Reset ==
    /\ Found /\ Removable
    /\ connection' = NoConnection
    /\ evidence' = LostEvidence /\ preview' = NoPreview
    /\ oauth' = NoOAuth /\ links' = {}
    /\ UNCHANGED <<created, checks, bindingVars, identities>>

-----------------------------------------------------------------------------
(* Readiness checks.                                                        *)

ReserveCheck ==
    /\ Found /\ Advances(connection.generation) /\ Cardinality(checks) < MaxChecks
    /\ connection' = [connection EXCEPT !.generation = @ + 1]
    /\ checks' = checks \cup {Snapshot(connection')}
    /\ UNCHANGED <<created, evidence, preview, bindingVars, identityVars>>

FitsRevision(c) == connection.id = c.id /\ connection.revision = c.revision
Fits(c) == Snapshot(connection) = c

\* The row of a check that saw nothing replaces the evidence and keeps the preview.
PersistFailure(c) ==
    /\ c \in checks /\ Fits(c)
    /\ evidence' = [revision |-> c.revision, generation |-> c.generation, observed |-> FALSE]
    /\ checks' = checks \ {c}
    /\ UNCHANGED <<connectionVars, preview, bindingVars, identityVars>>

ValidObservation(c, org) == c.org \in {None, org}
PersistObservation(c, org, seen) ==
    /\ c \in checks /\ ValidObservation(c, org) /\ Fits(c)
    /\ connection' = [connection EXCEPT !.org = org]
    /\ evidence' = [revision |-> c.revision, generation |-> c.generation, observed |-> TRUE]
    /\ preview' = [generation |-> c.generation, seen |-> seen]
    /\ checks' = checks \ {c}
    /\ UNCHANGED <<created, bindingVars, identityVars>>

\* The service PAT cannot be read, the observation is malformed, the row has
\* moved on, the context is cancelled, or the process stops.
AbandonCheck(c) ==
    /\ c \in checks /\ checks' = checks \ {c}
    /\ UNCHANGED <<connectionVars, evidence, preview, bindingVars, identityVars>>

-----------------------------------------------------------------------------
(* How bindings, local repositories and the preview relate.                 *)

Observed == /\ evidence.observed /\ evidence.revision = connection.revision
            /\ evidence.generation = connection.generation
Current == Bound /\ Observed /\ preview.generation = connection.generation

LocalsAt(n) == {r \in Repos : locals[r] = n}
SeenAt(n) == {m \in Remotes : n # None /\ preview.seen[m] = n}

\* The remote repositories in the row of a bound one: those at its local
\* locator, and those at the locator its remote is seen at.
OwnGroup(r) == SeenAt(preview.seen[bindings[r]])
Group(r) == SeenAt(locals[r]) \cup SeenAt(preview.seen[bindings[r]])
ConsumedByOwn == UNION {OwnGroup(r) : r \in {r \in Repos : bindings[r] # None}}
Consumed == UNION {Group(r) : r \in {r \in Repos : bindings[r] # None}}

Conflicting(r) ==
    \/ locals[r] # None /\ LocalsAt(locals[r]) # {r}
    \/ SeenAt(locals[r]) \ {bindings[r]} # {}
    \/ Cardinality(SeenAt(preview.seen[bindings[r]])) > 1

RowState(r) ==
    IF ~Current THEN "last_observed_only"
    ELSE IF Conflicting(r) THEN "identity_conflict"
    ELSE IF preview.seen[bindings[r]] = None THEN "not_visible"
    ELSE IF preview.seen[bindings[r]] = locals[r] THEN "current"
    ELSE "locator_drift"

ReadyAmongLocals(r, m) ==
    /\ Current /\ preview.seen[m] # None
    /\ SeenAt(preview.seen[m]) \ Consumed = {m}
    /\ r \in LocalsAt(preview.seen[m])
\* Exactly one remote that no bound row accounts for, and one local, at a locator.
Ready(r, m) ==
    /\ Current /\ preview.seen[m] # None
    /\ SeenAt(preview.seen[m]) \ Consumed = {m}
    /\ LocalsAt(preview.seen[m]) = {r}

Bind(r, m) ==
    /\ Found /\ Advances(connection.binding)
    /\ Ready(r, m)
    /\ bindings[r] = None /\ \A q \in Repos : bindings[q] # m
    /\ bindings' = [bindings EXCEPT ![r] = m]
    /\ connection' = [connection EXCEPT !.binding = @ + 1]
    /\ UNCHANGED <<created, evidenceVars, locals, identityVars>>

Unbinds == [connection EXCEPT !.binding = @ + 1]
Unbind(r) ==
    /\ Found /\ Advances(connection.binding)
    /\ bindings[r] # None
    /\ bindings' = [bindings EXCEPT ![r] = None]
    /\ connection' = Unbinds
    /\ UNCHANGED <<created, evidenceVars, locals, identityVars>>

\* A local repository is added; none is renamed or removed.
AddRepository(r, n) ==
    /\ locals[r] = None
    /\ locals' = [locals EXCEPT ![r] = n]
    /\ UNCHANGED <<connectionVars, evidenceVars, bindings, identityVars>>

-----------------------------------------------------------------------------
ConnectionStep == (\E url \in Urls : Create(url) \/ Edit(url)) \/ Reset

CheckStep ==
    \/ ReserveCheck
    \/ \E c \in checks : PersistFailure(c) \/ AbandonCheck(c)
    \/ \E c \in checks, org \in Organizations, seen \in [Remotes -> Names \cup {None}] :
          PersistObservation(c, org, seen)

BindingStep ==
    \/ \E r \in Repos, m \in Remotes : Bind(r, m)
    \/ \E r \in Repos : Unbind(r)
    \/ \E r \in Repos, n \in Names : AddRepository(r, n)

Next == ConnectionStep \/ CheckStep \/ BindingStep
Spec == Init /\ [][Next]_vars

-----------------------------------------------------------------------------
\* Every row stays in its domain; without a connection there is nothing of it.
TypeOK ==
    /\ connection \in [id : 0..MaxConnections, url : Urls \cup {None},
                       org : Organizations \cup {None}, revision : Revision,
                       generation : Revision, binding : Revision, identity : Revision]
    /\ created \in 0..MaxConnections /\ connection.id \in {0, created}
    /\ evidence \in [revision : Revision, generation : Revision, observed : BOOLEAN]
    /\ preview \in [generation : Revision, seen : [Remotes -> Names \cup {None}]]
    /\ bindings \in [Repos -> Remotes \cup {None}]
    /\ locals \in [Repos -> Names \cup {None}]
    /\ ~Found => connection = NoConnection /\ evidence = NoEvidence /\ preview = NoPreview

\* A binding rests on a connection whose organisation is bound, and no remote
\* repository has two.
BindingsAreHome ==
    \A r \in Repos : bindings[r] # None =>
        Bound /\ \A q \in Repos : bindings[q] = bindings[r] => q = r

\* Evidence that is current by its revision and generation is about the preview
\* that is stored: no failed or late check left rows of another one.
EvidenceIsOfPreview == Observed => Bound /\ preview.generation = connection.generation

\* What a page offers to bind is free on both sides, also when remotes were
\* renamed onto each other's locators since.
ReadyIsUnbound ==
    \A r \in Repos, m \in Remotes :
        Ready(r, m) => bindings[r] = None /\ \A q \in Repos : bindings[q] # m

\* A form that still fits shows what is in the row: no counter of a connection
\* goes back, no id is used again, and whatever changes moves its own counter.
SameRow == connection'.id = connection.id
ContentMovesRevision ==
    [][/\ created' >= created /\ (Found /\ ~SameRow => ~Found')
       /\ SameRow => /\ connection'.revision >= connection.revision
                     /\ connection'.generation >= connection.generation
                     /\ connection'.binding >= connection.binding
                     /\ evidence'.generation >= evidence.generation
       /\ (SameRow /\ connection'.url # connection.url) =>
             connection'.revision > connection.revision
       /\ bindings' # bindings => connection'.binding > connection.binding
       /\ (SameRow /\ evidence' # evidence) => evidence'.generation = connection.generation]_vars

\* The organisation a connection is bound to never changes while the row lives,
\* and neither does its installation once anything rests on it.
BoundIsFixed ==
    [][SameRow => /\ Bound => connection'.org = connection.org
                  /\ (Bound \/ HasIdentities) => connection'.url = connection.url]_vars

\* A repository is bound to a remote that its page shows as bound and current
\* at once: no ambiguity was overlooked.
FreshBindingIsCurrent ==
    [][\A r \in Repos : (bindings'[r] # bindings[r] /\ bindings'[r] # None)
          => RowState(r)' = "current"]_vars

\* Bindings, evidence and the rows of the preview stand on one another,
\* whatever checks and forms were in flight when one of them changed.
BindingsAreKept == TypeOK /\ BindingsAreHome /\ EvidenceIsOfPreview /\ ReadyIsUnbound

\* A form that fits by its revisions is about the row its operator saw.
FormsSeeTheRow == ContentMovesRevision /\ BoundIsFixed
=============================================================================
