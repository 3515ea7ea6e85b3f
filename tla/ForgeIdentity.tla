----------------------------- MODULE ForgeIdentity -----------------------------
(***************************************************************************)
(* Linking one's account on the forge to one's local account                *)
(* (internal/forgeidentity, its handlers in internal/web/forge_identity.go) *)
(* beside the connection of ForgeConnection.                               *)
(*                                                                         *)
(* An administrator stores an OAuth client of the installation the          *)
(* connection points at.  Any signed-in user then starts a ceremony, a row  *)
(* bound to their session; the callback claims the row, asks the forge whose*)
(* code it was given, and links the answer.  Between those steps the client *)
(* is replaced or disabled, the connection edited or reset, the user signed *)
(* out or disabled, and the row expires.                                   *)
(*                                                                         *)
(* A link records, as history, the connection and the installation its      *)
(* account was read from.  Users have one session at a time here; a later   *)
(* session is another one.                                                 *)
(***************************************************************************)
EXTENDS ForgeConnection

CONSTANTS MaxSessions, \* bound: sessions ever opened
          MaxLinks     \* bound: ceremonies ever started

ASSUME IdentityAssumption == MaxSessions \in Nat /\ MaxLinks \in Nat

VARIABLES accounts,    \* users and sessions, as far as linking reads them
          opened,      \* sessions opened so far
          started,     \* ceremonies started so far
          callbacks    \* callbacks that have claimed their row

accountVars == <<accounts, opened>>
restVars == <<created, evidenceVars, bindingVars>>
allVars == <<vars, accountVars, started, callbacks>>

Row == [token : 1..MaxLinks, user : Users, session : 1..MaxSessions,
        status : {"pending", "claimed"}, live : BOOLEAN,
        connection : 1..MaxConnections, revision : Revision, oauth : Revision, url : Urls]

\* An installation with a connection, before anybody linked anything.
IdentityInit ==
    /\ Init
    /\ accounts = [u \in Users |-> [disabled |-> FALSE, session |-> 0]]
    /\ opened = 0 /\ started = 0 /\ callbacks = {}

-----------------------------------------------------------------------------
(* What the transactions read.                                              *)

\* lockEnabledCredentialedActor and currentCredentialedSession.
SignedIn(u, s) == s # 0 /\ ~accounts[u].disabled /\ accounts[u].session = s

\* currentLinkConfiguration.
Configured == Found /\ oauth.enabled /\ oauth.url = connection.url

\* The session, the connection and the OAuth client are those it started with.
Acceptable(x) == /\ SignedIn(x.user, x.session) /\ Configured
                 /\ connection.id = x.connection /\ connection.revision = x.revision
                 /\ oauth.revision = x.oauth

RowsOf(u) == {x \in links : x.user = u}
Live == {x \in links : x.live}

-----------------------------------------------------------------------------
(* The OAuth client.                                                        *)

KeptLinks == links
NoLinks == {}
SaveOAuthClient ==
    /\ Found /\ Advances(oauth.revision)
    /\ oauth' = [revision |-> oauth.revision + 1, enabled |-> TRUE, url |-> connection.url]
    /\ links' = NoLinks
    /\ UNCHANGED <<connection, restVars, identities, accountVars, started, callbacks>>

\* At the largest revision the client stays disabled for good.
DisableOAuthClient ==
    /\ Found /\ oauth.enabled
    /\ oauth' = [revision |-> IF Advances(oauth.revision) THEN oauth.revision + 1
                                                          ELSE oauth.revision,
                 enabled |-> FALSE, url |-> None]
    /\ links' = NoLinks
    /\ UNCHANGED <<connection, restVars, identities, accountVars, started, callbacks>>

-----------------------------------------------------------------------------
(* The ceremony.                                                            *)

StartLink(u) ==
    /\ SignedIn(u, accounts[u].session) /\ Configured /\ ~Linked(u)
    /\ RowsOf(u) \cap Live = {} /\ started < MaxLinks
    /\ started' = started + 1
    /\ links' = Live \cup {[token |-> started', user |-> u, session |-> accounts[u].session,
                            status |-> "pending", live |-> TRUE, connection |-> connection.id,
                            revision |-> connection.revision, oauth |-> oauth.revision,
                            url |-> oauth.url]}
    /\ UNCHANGED <<connection, restVars, identities, oauth, accountVars, callbacks>>

\* Nobody will come back with this row: the start page failed to render, or the
\* callback has another session or browser, comes too late, or no longer fits.
ConsumeLink(x) ==
    /\ x \in links /\ (x.status = "pending" \/ ~x.live)
    /\ links' = links \ {x}
    /\ UNCHANGED <<connection, restVars, identities, oauth, accountVars, started, callbacks>>

\* Fifteen minutes.
Expire(x) ==
    /\ x \in Live
    /\ links' = (links \ {x}) \cup {[x EXCEPT !.live = FALSE]}
    /\ UNCHANGED <<connection, restVars, identities, oauth, accountVars, started, callbacks>>

ClaimLink(x) ==
    /\ x \in Live /\ x.status = "pending" /\ Acceptable(x)
    /\ links' = (Live \ {x}) \cup {[x EXCEPT !.status = "claimed"]}
    /\ callbacks' = callbacks \cup {[x EXCEPT !.status = "claimed"]}
    /\ UNCHANGED <<connection, restVars, identities, oauth, accountVars, started>>

\* completeLink: the claimed row is still there, and everything still fits.
CompletableByRow(c) == c \in links
Completable(c) == c \in links /\ Acceptable(c)
Taken(account) == \E u \in Users : identities[u].account = account
CompleteLink(c, account) ==
    /\ c \in callbacks /\ Completable(c)
    /\ ~Linked(c.user) /\ ~Taken(account) /\ Advances(connection.identity)
    /\ identities' = [identities EXCEPT ![c.user] =
                        [account |-> account, connection |-> c.connection, url |-> c.url]]
    /\ connection' = [connection EXCEPT !.identity = @ + 1]
    /\ links' = links \ {c}
    /\ callbacks' = callbacks \ {c}
    /\ UNCHANGED <<restVars, oauth, accountVars, started>>

\* The forge refused, or the link does not fit any more: the row goes too.
RejectLink(c) ==
    /\ c \in callbacks
    /\ links' = {x \in links : x.token # c.token}
    /\ callbacks' = callbacks \ {c}
    /\ UNCHANGED <<connection, restVars, identities, oauth, accountVars, started>>

\* The process stops, or the database fails: the row waits for its expiry.
AbandonLink(c) ==
    /\ c \in callbacks /\ callbacks' = callbacks \ {c}
    /\ UNCHANGED <<connection, restVars, identities, oauth, links, accountVars, started>>

-----------------------------------------------------------------------------
(* Unlinking.                                                               *)

\* advanceAccessIdentityRevision: a removal may ride the largest revision.
Advanced == [connection EXCEPT !.identity = IF Advances(@) THEN @ + 1 ELSE @]
Removal == Advanced
Removed(u) ==
    /\ Linked(u)
    /\ identities' = [identities EXCEPT ![u] = Unlinked]
    /\ links' = links \ RowsOf(u)
    /\ connection' = Removal
    /\ UNCHANGED <<restVars, oauth, accountVars, started, callbacks>>

Unlink(u) == SignedIn(u, accounts[u].session) /\ Removed(u)

Purgeable(u) == accounts[u].disabled
Purge(admin, u) == /\ SignedIn(admin, accounts[admin].session)
                   /\ Purgeable(u) /\ Removed(u)

-----------------------------------------------------------------------------
(* What Accounts does meanwhile.                                            *)

SetAccount(u, account) == /\ accounts' = [accounts EXCEPT ![u] = account]
                          /\ UNCHANGED <<vars, started, callbacks>>
SignIn(u) == /\ ~accounts[u].disabled /\ opened < MaxSessions /\ opened' = opened + 1
             /\ SetAccount(u, [disabled |-> FALSE, session |-> opened'])
SignOut(u) == /\ accounts[u].session # 0
              /\ SetAccount(u, [accounts[u] EXCEPT !.session = 0]) /\ UNCHANGED opened
DisableUser(u) == SetAccount(u, [disabled |-> TRUE, session |-> 0]) /\ UNCHANGED opened
EnableUser(u) == SetAccount(u, [accounts[u] EXCEPT !.disabled = FALSE]) /\ UNCHANGED opened

AccountStep == \E u \in Users : SignIn(u) \/ SignOut(u) \/ DisableUser(u) \/ EnableUser(u)

LinkStep ==
    \/ SaveOAuthClient \/ DisableOAuthClient
    \/ \E u \in Users : StartLink(u) \/ Unlink(u)
    \/ \E x \in links : ClaimLink(x) \/ ConsumeLink(x) \/ Expire(x)
    \/ \E c \in callbacks, account \in Accounts : CompleteLink(c, account)
    \/ \E c \in callbacks : RejectLink(c) \/ AbandonLink(c)
    \/ \E admin, u \in Users : Purge(admin, u)

\* Checks, as far as they matter here: the organisation gets bound.
FirstCheck == /\ \/ ReserveCheck
                 \/ \E c \in checks, org \in Organizations :
                       PersistObservation(c, org, preview.seen)
              /\ UNCHANGED <<accountVars, started, callbacks>>

IdentityNext == \/ LinkStep \/ AccountStep \/ FirstCheck
                \/ ConnectionStep /\ UNCHANGED <<accountVars, started, callbacks>>
IdentitySpec == IdentityInit /\ [][IdentityNext]_allVars

-----------------------------------------------------------------------------
\* Rows and claims stay in their domain, and a session is open only for an
\* enabled user.
IdentityTypeOK ==
    /\ oauth \in [revision : Revision, enabled : BOOLEAN, url : Urls \cup {None}]
    /\ links \subseteq Row /\ callbacks \subseteq Row
    /\ connection.identity \in Revision
    /\ \A u \in Users : /\ accounts[u].disabled => accounts[u].session = 0
                        /\ accounts[u].session \in 0..opened
    /\ oauth.enabled <=> oauth.url # None

\* Every linked account was read from the installation the connection points at
\* now, on the connection that is there now, and belongs to one user only.
IdentitiesAreHome ==
    \A u \in Users : Linked(u) =>
        /\ identities[u].connection = connection.id /\ identities[u].url = connection.url
        /\ \A v \in Users : identities[v].account = identities[u].account => v = u

\* A ceremony waits only for the OAuth client it started with, each user has at
\* most one, and nobody who is linked has any.
CeremoniesAreCurrent ==
    /\ \A x \in links : /\ x.connection = connection.id /\ x.url = oauth.url
                        /\ x.oauth = oauth.revision
                        /\ oauth.enabled /\ ~Linked(x.user)
    /\ \A x, y \in links : x.user = y.user => x = y

\* Whoever compares the identity revision sees every change of the linked
\* accounts; only removals may share the largest one.
IdentitiesMoveRevision ==
    [][identities' # identities =>
         \/ connection'.identity > connection.identity
         \/ /\ connection.identity = MaxRevision
            /\ \A u \in Users : Linked(u)' => Linked(u)]_allVars

\* An account is linked by a user in the session that started the ceremony, and
\* is unlinked by its owner in a session, or while its owner is disabled.
OwnersDecide ==
    [][\A u \in Users :
         /\ (~Linked(u) /\ Linked(u)') => \E c \in callbacks : c.user = u /\ SignedIn(u, c.session)
         /\ (Linked(u) /\ ~Linked(u)') => \/ accounts[u].disabled
                                          \/ SignedIn(u, accounts[u].session)]_allVars

\* Links and ceremonies rest on the connection and the client that are there.
LinksAreHome == IdentityTypeOK /\ IdentitiesAreHome /\ CeremoniesAreCurrent

\* Links come and go by their owners, and every revision that is compared says so.
LinksChangeByOwners == IdentitiesMoveRevision /\ OwnersDecide
=============================================================================
