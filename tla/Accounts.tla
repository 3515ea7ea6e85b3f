------------------------------ MODULE Accounts ------------------------------
(***************************************************************************)
(* Who may act: local accounts, their credentials and sessions, password   *)
(* recovery links and invitations (internal/auth, and the web handlers in  *)
(* front of it).                                                           *)
(*                                                                         *)
(* Every service call ends in one SQLite transaction, which is one step    *)
(* here.  What makes the component hard is that a request reads before     *)
(* that transaction: the session gate admits it, a password is verified or *)
(* a bearer token looked up, a new password is hashed for a tenth of a     *)
(* second, and only then does the transaction run.  A request between its  *)
(* two steps is a record in `requests'; several are in flight at once, and *)
(* what each one read may be stale when it commits.                        *)
(*                                                                         *)
(* A password hash and a bearer token are the number they were minted with *)
(* (every hash has a fresh salt, every token is random), 0 standing for    *)
(* none.  `opened', `issued' and `spent' are history: the hash a session   *)
(* or a recovery link was made under, and the tokens already redeemed.     *)
(***************************************************************************)
EXTENDS Naturals, FiniteSets

CONSTANTS Users,        \* email addresses; a user row is keyed by its unique email
          Sessions,     \* session identifiers
          Grants,       \* scoped grants: a repository and a role on it
          Nobody, NoSession,
          MaxMints,     \* bound: hashes and tokens ever minted
          MaxRequests   \* bound: requests between their two steps

ASSUME BoundsAssumption == MaxMints \in Nat /\ MaxRequests \in Nat
ASSUME NobodyAssumption == Nobody \notin Users

VARIABLES users,        \* users, local_credentials, user_roles
          grants,       \* repository_grants
          sessions,     \* sessions, company_oidc_sessions
          recovery,     \* password_recovery_tokens, one row per user
          invitations,  \* the active invitation of each email, with its staged grants
          company,      \* company_oidc_connections and the linked identity
          ceremonies,   \* company OIDC transactions waiting for their callback
          requests, minted, spent

vars == <<users, grants, sessions, recovery, invitations, company, ceremonies,
          requests, minted, spent>>

Marks == 0..MaxMints
NoAccount == [password |-> 0, enabled |-> FALSE, admin |-> FALSE, forced |-> FALSE]
NoLink == [token |-> 0, live |-> FALSE, issued |-> 0]
NoInvitation == [status |-> "none", token |-> 0, live |-> FALSE, admin |-> FALSE,
                 by |-> Nobody, staged |-> {}]
NoConnection == [revision |-> 0, enabled |-> FALSE, generation |-> 0, linked |-> Nobody,
                 linkedAt |-> 0, check |-> 0, evidence |-> 0]

Account == [password : Marks, enabled : BOOLEAN, admin : BOOLEAN, forced : BOOLEAN]
Session == [user : Users, company : BOOLEAN, opened : Marks, generation : Nat]
Link == [token : Marks, live : BOOLEAN, issued : Marks]
Invitation == [status : {"none", "pending", "needs_reissue"}, token : Marks, live : BOOLEAN,
               admin : BOOLEAN, by : Users \cup {Nobody}, staged : SUBSET Grants]
Request == [op : {"admin", "login", "change", "recover", "accept"}, user : Users, proof : Marks]

Init == /\ users = [u \in Users |-> NoAccount]
        /\ grants = [u \in Users |-> {}]
        /\ sessions = [s \in Sessions |-> NoSession]
        /\ recovery = [u \in Users |-> NoLink]
        /\ invitations = [e \in Users |-> NoInvitation]
        /\ company = NoConnection
        /\ ceremonies = {}
        /\ requests = {} /\ minted = 0 /\ spent = {}

-----------------------------------------------------------------------------
(* What a request or a transaction reads.                                   *)

Exists(u) == users[u].password # 0
HasUsers == \E u \in Users : Exists(u)
Enabled(u) == Exists(u) /\ users[u].enabled
EnabledAdmin(u) == Enabled(u) /\ users[u].admin
Active(e) == invitations[e].status # "none"

\* activeInvitationEmailExists.
Reserved(e) == Active(e)

Open(s) == sessions[s] # NoSession
SessionsOf(u) == {s \in Sessions : Open(s) /\ sessions[s].user = u}
CompanySessions == {s \in Sessions : Open(s) /\ sessions[s].company}

\* A company session is checked again each time it is loaded.
StillAuthorized(u) == /\ EnabledAdmin(u) /\ ~users[u].forced
                      /\ company.linked = u /\ company.enabled
Loads(s) == /\ Open(s) /\ Enabled(sessions[s].user)
            /\ sessions[s].company => StillAuthorized(sessions[s].user)

InFlight(r) == /\ Cardinality(requests) < MaxRequests
               /\ requests' = requests \cup {r}
Done(r) == requests' = requests \ {r}

Fresh == minted + 1
Mint == minted < MaxMints /\ minted' = Fresh

-----------------------------------------------------------------------------
(* What transactions share.                                                 *)

EndedCompany(gone) == [s \in Sessions |-> IF s \in gone \cap CompanySessions THEN NoSession
                                                                         ELSE sessions[s]]
Ended(gone) == [s \in Sessions |-> IF s \in gone THEN NoSession ELSE sessions[s]]
OpenedFor(u, hash) == [user |-> u, company |-> FALSE, opened |-> hash, generation |-> 0]

WithoutLink(u) == [recovery EXCEPT ![u] = NoLink]

\* A row that is accepted or cancelled keeps its id and nothing else.
Redacted(e) == [invitations EXCEPT ![e] = NoInvitation]

\* The linked administrator lost what company sign-in rests on.
SecuredSessions(u) == IF company.linked = u THEN CompanySessions ELSE {}
SecuredCompany(u) ==
    IF company.linked = u
      THEN [company EXCEPT !.enabled = FALSE, !.generation = @ + 1]
      ELSE company
SecuredCeremonies(u) ==
    IF company.linked = u THEN {c \in ceremonies : c.flow = "test"} ELSE ceremonies

Unlinked(connection) == [connection EXCEPT !.linked = Nobody, !.linkedAt = 0]

\* A demoted or disabled administrator takes back the invitations they signed.
NotInvalidatedBy(u) == invitations
InvalidatedBy(u) ==
    [e \in Users |->
       IF invitations[e].status = "pending" /\ invitations[e].by = u
         THEN [invitations[e] EXCEPT !.status = "needs_reissue", !.token = 0,
                                     !.live = FALSE, !.by = Nobody]
         ELSE invitations[e]]

\* Checked after the change, in the same transaction: a violation rolls it back.
SomeAdminRow(rows) == \E u \in Users : rows[u].password # 0 /\ rows[u].admin
AdminRemains(rows) ==
    \E u \in Users : rows[u].password # 0 /\ rows[u].enabled /\ rows[u].admin

-----------------------------------------------------------------------------
(* Setup, sign-in and sessions.                                             *)

CreateFirstAdmin(u, s) ==
    /\ ~HasUsers /\ ~Open(s) /\ Mint
    /\ users' = [users EXCEPT ![u] = [password |-> Fresh, enabled |-> TRUE,
                                      admin |-> TRUE, forced |-> FALSE]]
    /\ sessions' = [sessions EXCEPT ![s] = OpenedFor(u, Fresh)]
    /\ UNCHANGED <<grants, recovery, invitations, company, ceremonies, requests, spent>>

\* Login reads the row and verifies the password against the hash it read.
BeginLogin(u) ==
    /\ Enabled(u)
    /\ InFlight([op |-> "login", user |-> u, proof |-> users[u].password])
    /\ UNCHANGED <<users, grants, sessions, recovery, invitations, company, ceremonies,
                   minted, spent>>

\* insertSession selects the row again: still enabled, still that hash.
SignsWhileEnabled(r) == Enabled(r.user)
Signs(r) == Enabled(r.user) /\ users[r.user].password = r.proof
FinishLogin(r, s) ==
    /\ r.op = "login" /\ Signs(r) /\ ~Open(s)
    /\ sessions' = [sessions EXCEPT ![s] = OpenedFor(r.user, r.proof)]
    /\ Done(r)
    /\ UNCHANGED <<users, grants, recovery, invitations, company, ceremonies, minted, spent>>

\* Sign-out, or a load of a session that has expired or is no longer authorised.
EndSession(s) ==
    /\ Open(s) /\ sessions' = Ended({s})
    /\ UNCHANGED <<users, grants, recovery, invitations, company, ceremonies,
                   requests, minted, spent>>

\* requireAdminForm: the actor id leaves the session here and is all that the
\* transaction gets.  A forced password change blocks everything else.
Admit(s) ==
    /\ Loads(s)
    /\ LET u == sessions[s].user
       IN /\ users[u].admin /\ ~users[u].forced
          /\ InFlight([op |-> "admin", user |-> u, proof |-> 0])
    /\ UNCHANGED <<users, grants, sessions, recovery, invitations, company, ceremonies,
                   minted, spent>>

\* The request ends without effect: refused, out of time, or the process stopped.
Reject(r) ==
    /\ Done(r)
    /\ UNCHANGED <<users, grants, sessions, recovery, invitations, company, ceremonies,
                   minted, spent>>

-----------------------------------------------------------------------------
(* Passwords.                                                               *)

BeginChange(s) ==
    /\ Loads(s)
    /\ LET u == sessions[s].user
       IN InFlight([op |-> "change", user |-> u, proof |-> users[u].password])
    /\ UNCHANGED <<users, grants, sessions, recovery, invitations, company, ceremonies,
                   minted, spent>>

\* The write is guarded by the verified hash; every other session goes.
ChangePassword(r, s) ==
    /\ r.op = "change" /\ Signs(r) /\ Mint
    /\ s \in SessionsOf(r.user) \/ ~Open(s)
    /\ users' = [users EXCEPT ![r.user].password = Fresh, ![r.user].forced = FALSE]
    /\ sessions' = [Ended(SessionsOf(r.user)) EXCEPT ![s] = OpenedFor(r.user, Fresh)]
    /\ recovery' = WithoutLink(r.user)
    /\ Done(r)
    /\ UNCHANGED <<grants, invitations, company, ceremonies, spent>>

Acts(r) == r.op = "admin" /\ EnabledAdmin(r.user)

\* An administrator sets a temporary password; enabled state and roles stay.
ResetPassword(r, u) ==
    /\ Acts(r) /\ u # r.user /\ Exists(u) /\ Mint
    /\ users' = [users EXCEPT ![u].password = Fresh, ![u].forced = TRUE]
    /\ sessions' = Ended(SessionsOf(u) \cup SecuredSessions(u))
    /\ recovery' = WithoutLink(u)
    /\ company' = SecuredCompany(u) /\ ceremonies' = SecuredCeremonies(u)
    /\ Done(r)
    /\ UNCHANGED <<grants, invitations, spent>>

\* One row per user: issuing replaces the link issued before.
IssueRecovery(r, u) ==
    /\ Acts(r) /\ u # r.user /\ Enabled(u) /\ Mint
    /\ recovery' = [recovery EXCEPT ![u] = [token |-> Fresh, live |-> TRUE,
                                            issued |-> users[u].password]]
    /\ Done(r)
    /\ UNCHANGED <<users, grants, sessions, invitations, company, ceremonies, spent>>

Redeems(u, token) == recovery[u].token = token /\ recovery[u].live /\ Enabled(u)

\* The preflight: the digest matches a live row of an enabled user.
BeginRecovery(u) ==
    /\ recovery[u].token # 0 /\ Redeems(u, recovery[u].token)
    /\ InFlight([op |-> "recover", user |-> u, proof |-> recovery[u].token])
    /\ UNCHANGED <<users, grants, sessions, recovery, invitations, company, ceremonies,
                   minted, spent>>

\* Recovery removes a linked company identity and shuts company sign-in off.
CompleteRecovery(r) ==
    /\ r.op = "recover" /\ Redeems(r.user, r.proof) /\ Mint
    /\ users' = [users EXCEPT ![r.user].password = Fresh, ![r.user].forced = FALSE]
    /\ sessions' = Ended(SessionsOf(r.user) \cup SecuredSessions(r.user))
    /\ recovery' = WithoutLink(r.user)
    /\ company' = IF company.linked = r.user
                    THEN Unlinked(SecuredCompany(r.user))
                    ELSE company
    /\ ceremonies' = SecuredCeremonies(r.user)
    /\ spent' = spent \cup {r.proof}
    /\ Done(r)
    /\ UNCHANGED <<grants, invitations>>

\* Sixty minutes for a recovery link, seven days for an invitation.
Expire(u) ==
    /\ \/ /\ recovery[u].live
          /\ recovery' = [recovery EXCEPT ![u].live = FALSE] /\ UNCHANGED invitations
       \/ /\ invitations[u].live
          /\ invitations' = [invitations EXCEPT ![u].live = FALSE] /\ UNCHANGED recovery
    /\ UNCHANGED <<users, grants, sessions, company, ceremonies, requests, minted, spent>>

-----------------------------------------------------------------------------
(* Users.                                                                   *)

\* The new user must change the password the administrator chose.
CreateUser(r, u) ==
    /\ Acts(r) /\ ~Reserved(u) /\ ~Exists(u) /\ Mint
    /\ users' = [users EXCEPT ![u] = [password |-> Fresh, enabled |-> TRUE,
                                      admin |-> FALSE, forced |-> TRUE]]
    /\ Done(r)
    /\ UNCHANGED <<grants, sessions, recovery, invitations, company, ceremonies, spent>>

GrantAdmin(r, u) ==
    /\ Acts(r) /\ Exists(u)
    /\ users' = [users EXCEPT ![u].admin = TRUE]
    /\ Done(r)
    /\ UNCHANGED <<grants, sessions, recovery, invitations, company, ceremonies, minted, spent>>

\* Sessions survive a demotion: their grants are read afresh on every load.
Demoted(u) == [users EXCEPT ![u].admin = FALSE]
RemoveAdmin(r, u) ==
    /\ Acts(r) /\ Exists(u) /\ users[u].admin
    /\ users' = Demoted(u) /\ AdminRemains(users')
    /\ invitations' = InvalidatedBy(u)
    /\ sessions' = Ended(SecuredSessions(u))
    /\ company' = SecuredCompany(u) /\ ceremonies' = SecuredCeremonies(u)
    /\ Done(r)
    /\ UNCHANGED <<grants, recovery, minted, spent>>

DisableUser(r, u) ==
    /\ Acts(r) /\ Enabled(u)
    /\ users' = [users EXCEPT ![u].enabled = FALSE] /\ AdminRemains(users')
    /\ invitations' = InvalidatedBy(u)
    /\ sessions' = Ended(SessionsOf(u) \cup SecuredSessions(u))
    /\ recovery' = WithoutLink(u)
    /\ company' = SecuredCompany(u) /\ ceremonies' = SecuredCeremonies(u)
    /\ Done(r)
    /\ UNCHANGED <<grants, minted, spent>>

EnableUser(r, u) ==
    /\ Acts(r) /\ Exists(u) /\ ~users[u].enabled
    /\ users' = [users EXCEPT ![u].enabled = TRUE]
    /\ Done(r)
    /\ UNCHANGED <<grants, sessions, recovery, invitations, company, ceremonies, minted, spent>>

\* Adds the wanted roles that are missing and removes the rest.
SetRepositoryRoles(r, u, wanted) ==
    /\ Acts(r) /\ Exists(u)
    /\ grants' = [grants EXCEPT ![u] = wanted]
    /\ Done(r)
    /\ UNCHANGED <<users, sessions, recovery, invitations, company, ceremonies, minted, spent>>

\* One role on one repository, for a caller of the service: no page offers these.
GrantRepositoryRole(r, u, g) ==
    /\ Acts(r) /\ Exists(u) /\ g \notin grants[u]
    /\ grants' = [grants EXCEPT ![u] = @ \cup {g}]
    /\ Done(r)
    /\ UNCHANGED <<users, sessions, recovery, invitations, company, ceremonies, minted, spent>>

RevokeRepositoryRole(r, u, g) ==
    /\ Acts(r) /\ g \in grants[u]
    /\ grants' = [grants EXCEPT ![u] = @ \ {g}]
    /\ Done(r)
    /\ UNCHANGED <<users, sessions, recovery, invitations, company, ceremonies, minted, spent>>

-----------------------------------------------------------------------------
(* Invitations.                                                             *)

Pending(r, admin, staged) ==
    [status |-> "pending", token |-> Fresh, live |-> TRUE, admin |-> admin,
     by |-> r.user, staged |-> staged]

CreateInvitation(r, e, admin, staged) ==
    /\ Acts(r) /\ ~Exists(e) /\ ~Reserved(e) /\ Mint
    /\ invitations' = [invitations EXCEPT ![e] = Pending(r, admin, staged)]
    /\ Done(r)
    /\ UNCHANGED <<users, grants, sessions, recovery, company, ceremonies, spent>>

\* The same email under new authority; the old link stops working.
ReissueInvitation(r, e, admin, staged) ==
    /\ Acts(r) /\ Active(e) /\ ~Exists(e) /\ Mint
    /\ invitations' = [invitations EXCEPT ![e] = Pending(r, admin, staged)]
    /\ Done(r)
    /\ UNCHANGED <<users, grants, sessions, recovery, company, ceremonies, spent>>

\* The row is retired and a new one takes over what it staged and still stands:
\* no operation deletes a repository, so that is all of it.
Surviving(e) == invitations[e].staged
ReplaceInvitationLink(r, e) ==
    ReissueInvitation(r, e, invitations[e].admin, Surviving(e))

CancelInvitation(r, e) ==
    /\ Acts(r) /\ Active(e)
    /\ invitations' = Redacted(e)
    /\ Done(r)
    /\ UNCHANGED <<users, grants, sessions, recovery, company, ceremonies, minted, spent>>

\* loadAcceptanceInvitation and validateAcceptanceInvitation, run twice.
AcceptableByDigest(e, token) ==
    /\ invitations[e].status = "pending" /\ invitations[e].token = token
    /\ invitations[e].by \in Users /\ EnabledAdmin(invitations[e].by)
    /\ ~Exists(e)
Acceptable(e, token) ==
    /\ invitations[e].status = "pending" /\ invitations[e].token = token
    /\ invitations[e].live
    /\ invitations[e].by \in Users /\ EnabledAdmin(invitations[e].by)
    /\ ~Exists(e)

BeginAcceptance(e) ==
    /\ Acceptable(e, invitations[e].token)
    /\ InFlight([op |-> "accept", user |-> e, proof |-> invitations[e].token])
    /\ UNCHANGED <<users, grants, sessions, recovery, invitations, company, ceremonies,
                   minted, spent>>

\* The account gets what is staged now, not what the preflight saw; a new
\* account holds nothing yet.
StagedGrants(e) == invitations[e].staged
Materialized(u) == [grants EXCEPT ![u] = @ \cup StagedGrants(u)]
AcceptInvitation(r) ==
    /\ r.op = "accept" /\ Acceptable(r.user, r.proof) /\ Mint
    /\ users' = [users EXCEPT ![r.user] = [password |-> Fresh, enabled |-> TRUE,
                                           admin |-> invitations[r.user].admin,
                                           forced |-> FALSE]]
    /\ grants' = Materialized(r.user)
    /\ invitations' = Redacted(r.user)
    /\ spent' = spent \cup {r.proof}
    /\ Done(r)
    /\ UNCHANGED <<sessions, recovery, company, ceremonies>>

-----------------------------------------------------------------------------
SessionStep == \/ \E u \in Users, s \in Sessions : CreateFirstAdmin(u, s)
               \/ \E u \in Users : BeginLogin(u)
               \/ \E r \in requests, s \in Sessions : FinishLogin(r, s)
               \/ \E s \in Sessions : EndSession(s)
               \/ \E s \in Sessions : Admit(s)
               \/ \E r \in requests : Reject(r)

PasswordStep == \/ \E s \in Sessions : BeginChange(s)
                \/ \E r \in requests, s \in Sessions : ChangePassword(r, s)
                \/ \E r \in requests, u \in Users : ResetPassword(r, u)
                \/ \E r \in requests, u \in Users : IssueRecovery(r, u)
                \/ \E u \in Users : BeginRecovery(u)
                \/ \E r \in requests : CompleteRecovery(r)
                \/ \E u \in Users : Expire(u)

UserStep == \/ \E r \in requests, u \in Users : CreateUser(r, u)
            \/ \E r \in requests, u \in Users : GrantAdmin(r, u)
            \/ \E r \in requests, u \in Users : RemoveAdmin(r, u)
            \/ \E r \in requests, u \in Users : DisableUser(r, u)
            \/ \E r \in requests, u \in Users : EnableUser(r, u)

GrantStep ==
    \/ \E r \in requests, u \in Users, wanted \in SUBSET Grants :
          SetRepositoryRoles(r, u, wanted)
    \/ \E r \in requests, u \in Users, g \in Grants :
          GrantRepositoryRole(r, u, g) \/ RevokeRepositoryRole(r, u, g)

InvitationStep ==
    \/ \E r \in requests, e \in Users, admin \in BOOLEAN, staged \in SUBSET Grants :
          \/ CreateInvitation(r, e, admin, staged)
          \/ ReissueInvitation(r, e, admin, staged)
    \/ \E r \in requests, e \in Users : ReplaceInvitationLink(r, e)
    \/ \E r \in requests, e \in Users : CancelInvitation(r, e)

\* What the bearer of a link does, without any session.
AcceptanceStep ==
    \/ \E e \in Users : BeginAcceptance(e)
    \/ \E r \in requests : AcceptInvitation(r)

Next == SessionStep \/ PasswordStep \/ UserStep \/ GrantStep \/ InvitationStep \/ AcceptanceStep
Spec == Init /\ [][Next]_vars

-----------------------------------------------------------------------------
(* The page of active invitations.                                          *)

ActiveInvitations == {e \in Users : Active(e)}
\* What buildActiveInvitation makes of a row, from the row and the clock alone.
Lifecycle(e) ==
    CASE invitations[e].status = "pending" /\ invitations[e].live -> "pending"
      [] invitations[e].status = "pending" /\ ~invitations[e].live -> "expired"
      [] OTHER -> "needs_replacement"
Usable(e) == e \in ActiveInvitations /\ Lifecycle(e) = "pending"

-----------------------------------------------------------------------------
\* Every variable stays in its domain, and no more requests are in flight than bounded.
TypeOK == /\ users \in [Users -> Account]
          /\ grants \in [Users -> SUBSET Grants]
          /\ sessions \in [Sessions -> Session \cup {NoSession}]
          /\ recovery \in [Users -> Link]
          /\ invitations \in [Users -> Invitation]
          /\ requests \subseteq Request
          /\ minted \in Marks /\ spent \subseteq Marks

\* Once the installation is set up, an enabled administrator with a local
\* password always remains, whatever demotions and disables race
\* (ensureEnabledAdminRemains).
AdministratorRemains == HasUsers => \E u \in Users : EnabledAdmin(u)

\* A session in the table belongs to an enabled user and was opened under the
\* password that user has now: no sign-in that verified an older password
\* commits after a change, a reset, a recovery or a disable.
SessionsAreCurrent ==
    \A s \in Sessions : Open(s) =>
        /\ Enabled(sessions[s].user)
        /\ sessions[s].opened = users[sessions[s].user].password

\* A stored recovery link belongs to an enabled user whose password is still
\* the one it was issued to replace.
RecoveryIsCurrent ==
    \A u \in Users : recovery[u].token # 0 =>
        Enabled(u) /\ recovery[u].issued = users[u].password

\* A pending invitation is signed by somebody who is an enabled administrator
\* now; one whose signer lost that authority has no token left to redeem.
InvitationsAreBacked ==
    \A e \in Users :
        /\ invitations[e].status = "pending" => \E u \in Users : /\ invitations[e].by = u
                                                                 /\ EnabledAdmin(u)
        /\ invitations[e].status # "pending" => invitations[e].token = 0

\* An email is never both an account and an active invitation, and only an
\* account holds grants.
InvitedIsNotUser ==
    \A e \in Users : (Active(e) => ~Exists(e)) /\ (grants[e] # {} => Exists(e))

\* A token that has been redeemed is in no row again.
TokensAreSpentOnce ==
    \A u \in Users : recovery[u].token \notin spent /\ invitations[u].token \notin spent

\* The page, which reads the row alone, calls an invitation usable exactly if its
\* link would be accepted, which also asks who signed it and who exists.
UsableIsAcceptable ==
    \A e \in Users : Usable(e) <=> \E token \in 1..minted : Acceptable(e, token)

\* Somebody becomes a user by an invitation only with exactly the authority
\* staged in it at that moment, while its signer is an enabled administrator.
AcceptanceIsExact ==
    [][\A e \in Users :
         (HasUsers /\ ~Exists(e) /\ Exists(e)' /\ ~users'[e].forced) =>
             /\ invitations[e].live /\ EnabledAdmin(invitations[e].by)
             /\ users'[e].admin = invitations[e].admin
             /\ grants'[e] = invitations[e].staged]_vars

\* A password that changes leaves no session and no recovery link of before,
\* and a disabled user's password is only changed by an administrator.
PasswordChangeRevokes ==
    [][\A u \in Users :
         (Exists(u) /\ users'[u].password # users[u].password) =>
             /\ \A s \in Sessions : (Open(s) /\ sessions[s].user = u) => sessions'[s] # sessions[s]
             /\ recovery'[u].token = 0
             /\ ~users[u].enabled => users'[u].forced]_vars

\* Whatever signs a user in is of today: no session and no recovery link
\* outlives the password, the enabled account or the key it rests on.
CredentialsAreCurrent == TypeOK /\ SessionsAreCurrent /\ RecoveryIsCurrent

\* An invitation is one: backed by an administrator, for somebody who is not a
\* user, redeemed once, and shown as usable when it is.
InvitationsAreSound ==
    InvitationsAreBacked /\ InvitedIsNotUser /\ TokensAreSpentOnce /\ UsableIsAcceptable

\* Accounts and passwords change only with the authority that stands at that
\* moment, and take with them what rested on the old ones.
AuthorityIsExact == AcceptanceIsExact /\ PasswordChangeRevokes
=============================================================================
