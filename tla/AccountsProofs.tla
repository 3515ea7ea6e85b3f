--------------------------- MODULE AccountsProofs ---------------------------
(***************************************************************************)
(* Proofs about accounts, credentials and invitations, and, after them,    *)
(* about company sign-in, for any number of users, sessions, grants and    *)
(* requests in flight.                                                     *)
(*                                                                         *)
(* What a request read before its transaction is never relied on: each of  *)
(* the lemmas below only needs what the transaction reads again, and so    *)
(* nothing here says what the requests in flight are.                      *)
(***************************************************************************)
EXTENDS CompanyLogin, FiniteSetTheorems, TLAPS

(* Hashes and tokens are minted once: what is in use is not ahead of the   *)
(* count, and nothing that was redeemed is zero.                           *)
Numbered ==
  /\ \A u \in Users : /\ users[u].password <= minted
                      /\ recovery[u].token <= minted
                      /\ invitations[u].token <= minted
  /\ spent \subseteq 1..minted

(* Every token is in one row, and only a row with a token can be redeemed. *)
TokensAreDistinct ==
  /\ \A u, v \in Users :
       /\ recovery[u].token = recovery[v].token /\ u # v => recovery[u].token = 0
       /\ invitations[u].token = invitations[v].token /\ u # v => invitations[u].token = 0
       /\ recovery[u].token = invitations[v].token => recovery[u].token = 0
  /\ \A u \in Users : recovery[u].live => recovery[u].token # 0
  /\ \A e \in Users : invitations[e].status = "pending" => invitations[e].token # 0

(* Somebody has to be there to invite, and users are never removed.        *)
InvitedBySomebody == \A e \in Users : Active(e) => HasUsers

IInv ==
  /\ TypeOK /\ Numbered /\ TokensAreDistinct
  /\ AdministratorRemains /\ SessionsAreCurrent /\ RecoveryIsCurrent
  /\ InvitationsAreBacked /\ InvitedIsNotUser /\ InvitedBySomebody
  /\ TokensAreSpentOnce

(* What the action properties say of one step.                             *)
AcceptsExactly ==
  \A e \in Users :
    (HasUsers /\ ~Exists(e) /\ Exists(e)' /\ ~users'[e].forced) =>
        /\ invitations[e].live /\ EnabledAdmin(invitations[e].by)
        /\ users'[e].admin = invitations[e].admin
        /\ grants'[e] = invitations[e].staged
RevokesOld ==
  \A u \in Users :
    (Exists(u) /\ users'[u].password # users[u].password) =>
        /\ \A s \in Sessions : (Open(s) /\ sessions[s].user = u) => sessions'[s] # sessions[s]
        /\ recovery'[u].token = 0
        /\ ~users[u].enabled => users'[u].forced
-----------------------------------------------------------------------------
(* Initially nobody and nothing is there.                                  *)
LEMMA InitEstablishes == Init => IInv
<1> SUFFICES ASSUME Init PROVE IInv
  OBVIOUS
<1> USE BoundsAssumption DEF Init, NoAccount, NoLink, NoInvitation
<1>1. TypeOK
  BY DEF TypeOK, Account, Link, Invitation, Marks
<1>2. Numbered /\ TokensAreDistinct
  BY DEF Numbered, TokensAreDistinct
<1>3. AdministratorRemains /\ InvitationsAreBacked /\ InvitedIsNotUser /\ InvitedBySomebody
  BY DEF AdministratorRemains, InvitationsAreBacked, InvitedIsNotUser, InvitedBySomebody,
         HasUsers, Exists, Active
<1>4. SessionsAreCurrent /\ RecoveryIsCurrent /\ TokensAreSpentOnce
  BY DEF SessionsAreCurrent, RecoveryIsCurrent, TokensAreSpentOnce, Open
<1> QED BY <1>1, <1>2, <1>3, <1>4 DEF IInv

(* What the helpers of the transactions yield.                             *)
LEMMA MintTypes ==
  ASSUME TypeOK
  PROVE  /\ 0 \in Marks
         /\ Mint => minted' \in Marks /\ Fresh \in Marks
BY BoundsAssumption DEF TypeOK, Mint, Fresh, Marks

LEMMA FreshIsNew ==
  ASSUME TypeOK, Mint
  PROVE  Fresh # 0 /\ Fresh \notin 0..minted /\ minted' = Fresh
BY BoundsAssumption DEF TypeOK, Mint, Fresh, Marks

LEMMA EndedTypes ==
  ASSUME TypeOK, NEW gone
  PROVE  Ended(gone) \in [Sessions -> Session \cup {NoSession}]
BY DEF TypeOK, Ended

LEMMA TableTypes ==
  ASSUME TypeOK, NEW u \in Users, NEW gone
  PROVE  /\ WithoutLink(u) \in [Users -> Link]
         /\ Redacted(u) \in [Users -> Invitation]
         /\ InvalidatedBy(u) \in [Users -> Invitation]
         /\ Ended(gone) \in [Sessions -> Session \cup {NoSession}]
<1>1. WithoutLink(u) \in [Users -> Link]
  BY MintTypes DEF TypeOK, WithoutLink, NoLink, Link
<1>2. Redacted(u) \in [Users -> Invitation]
  BY MintTypes DEF TypeOK, Redacted, NoInvitation, Invitation
<1>3. InvalidatedBy(u) \in [Users -> Invitation]
  BY MintTypes DEF TypeOK, InvalidatedBy, Invitation
<1>4. Ended(gone) \in [Sessions -> Session \cup {NoSession}]
  BY EndedTypes
<1> QED BY <1>1, <1>2, <1>3, <1>4

(* What is left of an invitation when the authority of u is withdrawn.     *)
LEMMA InvalidatedRows ==
  ASSUME TypeOK, NEW u \in Users, NEW e \in Users
  PROVE  \/ /\ InvalidatedBy(u)[e] = invitations[e]
            /\ invitations[e].status = "pending" => invitations[e].by # u
         \/ /\ invitations[e].status = "pending"
            /\ InvalidatedBy(u)[e].status = "needs_reissue"
            /\ InvalidatedBy(u)[e].token = 0
            /\ ~InvalidatedBy(u)[e].live
BY DEF TypeOK, InvalidatedBy, Invitation

LEMMA SessionTypes ==
  ASSUME TypeOK, NEW u \in Users, NEW hash \in Marks
  PROVE  OpenedFor(u, hash) \in Session
BY DEF OpenedFor, Session

LEMMA PendingTypes ==
  ASSUME TypeOK, Mint, NEW r \in requests, NEW admin \in BOOLEAN, NEW staged \in SUBSET Grants
  PROVE  Pending(r, admin, staged) \in Invitation
BY MintTypes DEF TypeOK, Pending, Invitation, Request

(* The tables keep their types.                                            *)
LEMMA TypeStep ==
  ASSUME TypeOK, [Next]_vars
  PROVE  TypeOK'
<1> USE DEF TypeOK, Done
<1>1. CASE SessionStep
  <2>1. ASSUME NEW u \in Users, NEW s \in Sessions, CreateFirstAdmin(u, s)
        PROVE  TypeOK'
    BY <2>1, MintTypes, SessionTypes DEF CreateFirstAdmin, Account
  <2>2. ASSUME NEW u \in Users, BeginLogin(u) PROVE TypeOK'
    BY <2>2 DEF BeginLogin, InFlight, Request, Account
  <2>3. ASSUME NEW r \in requests, NEW s \in Sessions, FinishLogin(r, s)
        PROVE  TypeOK'
    BY <2>3, SessionTypes DEF FinishLogin, Request
  <2>4. ASSUME NEW s \in Sessions, EndSession(s) PROVE TypeOK'
    BY <2>4, EndedTypes DEF EndSession
  <2>5. ASSUME NEW s \in Sessions, Admit(s) PROVE TypeOK'
    BY <2>5, MintTypes DEF Admit, Loads, Open, InFlight, Request, Session
  <2>6. ASSUME NEW r \in requests, Reject(r) PROVE TypeOK'
    BY <2>6 DEF Reject
  <2> QED BY <1>1, <2>1, <2>2, <2>3, <2>4, <2>5, <2>6 DEF SessionStep
<1>2. CASE PasswordStep
  <2>1. ASSUME NEW s \in Sessions, BeginChange(s) PROVE TypeOK'
    BY <2>1 DEF BeginChange, Loads, Open, InFlight, Request, Session, Account
  <2>2. ASSUME NEW r \in requests, NEW s \in Sessions, ChangePassword(r, s)
        PROVE  TypeOK'
    BY <2>2, MintTypes, TableTypes, SessionTypes DEF ChangePassword, Request,
        Account
  <2>3. ASSUME NEW r \in requests, NEW u \in Users, ResetPassword(r, u)
        PROVE  TypeOK'
    BY <2>3, MintTypes, TableTypes DEF ResetPassword, Account
  <2>4. ASSUME NEW r \in requests, NEW u \in Users, IssueRecovery(r, u)
        PROVE  TypeOK'
    BY <2>4, MintTypes DEF IssueRecovery, Account, Link
  <2>5. ASSUME NEW u \in Users, BeginRecovery(u) PROVE TypeOK'
    BY <2>5 DEF BeginRecovery, InFlight, Request, Link
  <2>6. ASSUME NEW r \in requests, CompleteRecovery(r) PROVE TypeOK'
    BY <2>6, MintTypes, TableTypes DEF CompleteRecovery, Request, Account
  <2>7. ASSUME NEW u \in Users, Expire(u) PROVE TypeOK'
    <3>1. CASE recovery' = [recovery EXCEPT ![u].live = FALSE] /\ UNCHANGED invitations
      BY <2>7, <3>1 DEF Expire, Link
    <3>2. CASE invitations' = [invitations EXCEPT ![u].live = FALSE] /\ UNCHANGED recovery
      BY <2>7, <3>2 DEF Expire, Invitation
    <3> QED BY <2>7, <3>1, <3>2 DEF Expire
  <2> QED BY <1>2, <2>1, <2>2, <2>3, <2>4, <2>5, <2>6, <2>7 DEF PasswordStep
<1>3. CASE UserStep
  <2>1. ASSUME NEW r \in requests, NEW u \in Users, CreateUser(r, u)
        PROVE  TypeOK'
    BY <2>1, MintTypes DEF CreateUser, Account
  <2>2. ASSUME NEW r \in requests, NEW u \in Users, GrantAdmin(r, u)
        PROVE  TypeOK'
    BY <2>2 DEF GrantAdmin, Account
  <2>3. ASSUME NEW r \in requests, NEW u \in Users, RemoveAdmin(r, u)
        PROVE  TypeOK'
    BY <2>3, MintTypes, TableTypes DEF RemoveAdmin, Demoted, Account
  <2>4. ASSUME NEW r \in requests, NEW u \in Users, DisableUser(r, u)
        PROVE  TypeOK'
    BY <2>4, MintTypes, TableTypes DEF DisableUser, Account
  <2>5. ASSUME NEW r \in requests, NEW u \in Users, EnableUser(r, u)
        PROVE  TypeOK'
    BY <2>5 DEF EnableUser, Account
  <2> QED BY <1>3, <2>1, <2>2, <2>3, <2>4, <2>5 DEF UserStep
<1>4. CASE GrantStep
  <2>1. ASSUME NEW r \in requests, NEW u \in Users, NEW wanted \in SUBSET Grants,
               SetRepositoryRoles(r, u, wanted)
        PROVE  TypeOK'
    BY <2>1 DEF SetRepositoryRoles
  <2>2. ASSUME NEW r \in requests, NEW u \in Users, NEW g \in Grants,
               GrantRepositoryRole(r, u, g)
        PROVE  TypeOK'
    BY <2>2 DEF GrantRepositoryRole
  <2>3. ASSUME NEW r \in requests, NEW u \in Users, NEW g \in Grants,
               RevokeRepositoryRole(r, u, g)
        PROVE  TypeOK'
    BY <2>3 DEF RevokeRepositoryRole
  <2> QED BY <1>4, <2>1, <2>2, <2>3 DEF GrantStep
<1>5. CASE InvitationStep
  <2>1. ASSUME NEW r \in requests, NEW e \in Users, NEW admin \in BOOLEAN, NEW staged \in SUBSET Grants,
               CreateInvitation(r, e, admin, staged)
        PROVE  TypeOK'
    BY <2>1, MintTypes, PendingTypes DEF CreateInvitation
  <2>2. ASSUME NEW r \in requests, NEW e \in Users, NEW admin \in BOOLEAN, NEW staged \in SUBSET Grants,
               ReissueInvitation(r, e, admin, staged)
        PROVE  TypeOK'
    BY <2>2, MintTypes, PendingTypes DEF ReissueInvitation
  <2>3. ASSUME NEW r \in requests, NEW e \in Users,
               ReplaceInvitationLink(r, e)
        PROVE  TypeOK'
    BY <2>3, MintTypes, PendingTypes DEF ReplaceInvitationLink,
        ReissueInvitation, Surviving, Invitation
  <2>4. ASSUME NEW r \in requests, NEW e \in Users, CancelInvitation(r, e)
        PROVE  TypeOK'
    BY <2>4, MintTypes, TableTypes DEF CancelInvitation
  <2> QED BY <1>5, <2>1, <2>2, <2>3, <2>4 DEF InvitationStep
<1>6. CASE AcceptanceStep
  <2>1. ASSUME NEW e \in Users, BeginAcceptance(e) PROVE TypeOK'
    BY <2>1 DEF BeginAcceptance, InFlight, Request, Invitation
  <2>2. ASSUME NEW r \in requests, AcceptInvitation(r) PROVE TypeOK'
    BY <2>2, MintTypes, TableTypes DEF AcceptInvitation, Materialized,
        StagedGrants, Request, Invitation, Account
  <2> QED BY <1>6, <2>1, <2>2 DEF AcceptanceStep
<1>7. CASE UNCHANGED vars
  BY <1>7 DEF vars
<1> QED BY <1>1, <1>2, <1>3, <1>4, <1>5, <1>6, <1>7 DEF Next

(* Who takes an administrator away checks in the same transaction that     *)
(* another one remains; who is set up first is one.                        *)
LEMMA AdministratorStep ==
  ASSUME TypeOK, AdministratorRemains, [Next]_vars
  PROVE  AdministratorRemains'
<1> USE DEF AdministratorRemains, HasUsers, EnabledAdmin, Enabled, Exists,
    TypeOK, Account, Request
<1>1. CASE SessionStep
  <2>1. ASSUME NEW u \in Users, NEW s \in Sessions, CreateFirstAdmin(u, s)
        PROVE  AdministratorRemains'
    BY <2>1, FreshIsNew DEF CreateFirstAdmin
  <2>2. CASE
          \/ \E u \in Users : BeginLogin(u)
          \/ \E r \in requests, s \in Sessions : FinishLogin(r, s)
          \/ \E s \in Sessions : EndSession(s)
          \/ \E s \in Sessions : Admit(s)
          \/ \E r \in requests : Reject(r)
    BY <2>2 DEF BeginLogin, InFlight, FinishLogin, Done, Signs, OpenedFor,
        EndSession, Ended, Admit, Loads, Reject
  <2> QED BY <1>1, <2>1, <2>2 DEF SessionStep
<1>2. CASE PasswordStep
  <2>1. ASSUME NEW r \in requests, NEW s \in Sessions, ChangePassword(r, s)
        PROVE  AdministratorRemains'
    BY <2>1, FreshIsNew DEF ChangePassword, Signs
  <2>2. ASSUME NEW r \in requests, NEW u \in Users, ResetPassword(r, u)
        PROVE  AdministratorRemains'
    BY <2>2, FreshIsNew DEF ResetPassword
  <2>3. ASSUME NEW r \in requests, CompleteRecovery(r)
        PROVE  AdministratorRemains'
    BY <2>3, FreshIsNew DEF CompleteRecovery, Redeems
  <2>4. CASE
          \/ \E s \in Sessions : BeginChange(s)
          \/ \E r \in requests, u \in Users : IssueRecovery(r, u)
          \/ \E u \in Users : BeginRecovery(u)
          \/ \E u \in Users : Expire(u)
    BY <2>4 DEF BeginChange, InFlight, Loads, IssueRecovery, Done, Mint,
        Fresh, Acts, BeginRecovery, Redeems, Expire
  <2> QED BY <1>2, <2>1, <2>2, <2>3, <2>4 DEF PasswordStep
<1>3. CASE UserStep
  <2>1. ASSUME NEW r \in requests, NEW u \in Users, CreateUser(r, u)
        PROVE  AdministratorRemains'
    BY <2>1, FreshIsNew DEF CreateUser, Acts
  <2>2. ASSUME NEW r \in requests, NEW u \in Users, GrantAdmin(r, u)
        PROVE  AdministratorRemains'
    BY <2>2 DEF GrantAdmin
  <2>3. ASSUME NEW r \in requests, NEW u \in Users, RemoveAdmin(r, u)
        PROVE  AdministratorRemains'
    BY <2>3 DEF RemoveAdmin, Demoted, AdminRemains
  <2>4. ASSUME NEW r \in requests, NEW u \in Users, DisableUser(r, u)
        PROVE  AdministratorRemains'
    BY <2>4 DEF DisableUser, AdminRemains
  <2>5. ASSUME NEW r \in requests, NEW u \in Users, EnableUser(r, u)
        PROVE  AdministratorRemains'
    BY <2>5 DEF EnableUser
  <2> QED BY <1>3, <2>1, <2>2, <2>3, <2>4, <2>5 DEF UserStep
<1>4. CASE GrantStep
  BY <1>4 DEF GrantStep, SetRepositoryRoles, Done, Acts, GrantRepositoryRole,
      RevokeRepositoryRole
<1>5. CASE InvitationStep
  BY <1>5 DEF InvitationStep, CreateInvitation, Done, Acts, Reserved, Mint,
      Fresh, Pending, ReissueInvitation, ReplaceInvitationLink, Surviving,
      CancelInvitation, Redacted
<1>6. CASE AcceptanceStep
  <2>1. ASSUME NEW r \in requests, AcceptInvitation(r)
        PROVE  AdministratorRemains'
    BY <2>1, FreshIsNew DEF AcceptInvitation, Acceptable
  <2>2. CASE \E e \in Users : BeginAcceptance(e)
    BY <2>2 DEF BeginAcceptance, InFlight, Acceptable
  <2> QED BY <1>6, <2>1, <2>2 DEF AcceptanceStep
<1>7. CASE UNCHANGED vars
  BY <1>7 DEF vars
<1> QED BY <1>1, <1>2, <1>3, <1>4, <1>5, <1>6, <1>7 DEF Next

(* A session or a link is made in the transaction that reads the hash      *)
(* again, and whatever changes or disables the account removes them.       *)
LEMMA CredentialsStep ==
  ASSUME TypeOK, SessionsAreCurrent /\ RecoveryIsCurrent, [Next]_vars
  PROVE  (SessionsAreCurrent /\ RecoveryIsCurrent)'
<1> USE DEF SessionsAreCurrent, RecoveryIsCurrent, Open, Enabled, Exists,
    TypeOK, Account, Session, Request
<1>1. CASE SessionStep
  <2>1. ASSUME NEW u \in Users, NEW s \in Sessions, CreateFirstAdmin(u, s)
        PROVE  (SessionsAreCurrent /\ RecoveryIsCurrent)'
    BY <2>1, FreshIsNew DEF CreateFirstAdmin, HasUsers, OpenedFor
  <2>2. ASSUME NEW r \in requests, NEW s \in Sessions, FinishLogin(r, s)
        PROVE  (SessionsAreCurrent /\ RecoveryIsCurrent)'
    BY <2>2 DEF FinishLogin, Signs, OpenedFor
  <2>3. ASSUME NEW s \in Sessions, EndSession(s)
        PROVE  (SessionsAreCurrent /\ RecoveryIsCurrent)'
    BY <2>3 DEF EndSession, Ended
  <2>4. CASE
          \/ \E u \in Users : BeginLogin(u)
          \/ \E s \in Sessions : Admit(s)
          \/ \E r \in requests : Reject(r)
    BY <2>4 DEF BeginLogin, InFlight, Admit, Loads, Reject, Done
  <2> QED BY <1>1, <2>1, <2>2, <2>3, <2>4 DEF SessionStep
<1>2. CASE PasswordStep
  <2>1. ASSUME NEW r \in requests, NEW s \in Sessions, ChangePassword(r, s)
        PROVE  (SessionsAreCurrent /\ RecoveryIsCurrent)'
    BY <2>1, FreshIsNew DEF ChangePassword, Signs, Ended, SessionsOf, OpenedFor,
        WithoutLink, NoLink
  <2>2. ASSUME NEW r \in requests, NEW u \in Users, ResetPassword(r, u)
        PROVE  (SessionsAreCurrent /\ RecoveryIsCurrent)'
    BY <2>2, FreshIsNew DEF ResetPassword, Ended, SessionsOf, WithoutLink, NoLink
  <2>3. ASSUME NEW r \in requests, NEW u \in Users, IssueRecovery(r, u)
        PROVE  (SessionsAreCurrent /\ RecoveryIsCurrent)'
    BY <2>3, FreshIsNew DEF IssueRecovery
  <2>4. ASSUME NEW r \in requests, CompleteRecovery(r)
        PROVE  (SessionsAreCurrent /\ RecoveryIsCurrent)'
    BY <2>4, FreshIsNew DEF CompleteRecovery, Ended, SessionsOf, WithoutLink,
        NoLink
  <2>5. ASSUME NEW u \in Users, Expire(u)
        PROVE  (SessionsAreCurrent /\ RecoveryIsCurrent)'
    <3>1. CASE recovery' = [recovery EXCEPT ![u].live = FALSE] /\ UNCHANGED invitations
      BY <2>5, <3>1 DEF Expire, Link
    <3>2. CASE invitations' = [invitations EXCEPT ![u].live = FALSE] /\ UNCHANGED recovery
      BY <2>5, <3>2 DEF Expire
    <3> QED BY <2>5, <3>1, <3>2 DEF Expire
  <2>6. CASE
          \/ \E s \in Sessions : BeginChange(s)
          \/ \E u \in Users : BeginRecovery(u)
    BY <2>6 DEF BeginChange, InFlight, Loads, BeginRecovery, Redeems
  <2> QED BY <1>2, <2>1, <2>2, <2>3, <2>4, <2>5, <2>6 DEF PasswordStep
<1>3. CASE UserStep
  <2>1. ASSUME NEW r \in requests, NEW u \in Users, CreateUser(r, u)
        PROVE  (SessionsAreCurrent /\ RecoveryIsCurrent)'
    BY <2>1, FreshIsNew DEF CreateUser
  <2>2. ASSUME NEW r \in requests, NEW u \in Users, GrantAdmin(r, u)
        PROVE  (SessionsAreCurrent /\ RecoveryIsCurrent)'
    BY <2>2 DEF GrantAdmin
  <2>3. ASSUME NEW r \in requests, NEW u \in Users, RemoveAdmin(r, u)
        PROVE  (SessionsAreCurrent /\ RecoveryIsCurrent)'
    BY <2>3 DEF RemoveAdmin, Demoted, Ended
  <2>4. ASSUME NEW r \in requests, NEW u \in Users, DisableUser(r, u)
        PROVE  (SessionsAreCurrent /\ RecoveryIsCurrent)'
    BY <2>4 DEF DisableUser, Ended, SessionsOf, WithoutLink, NoLink
  <2>5. ASSUME NEW r \in requests, NEW u \in Users, EnableUser(r, u)
        PROVE  (SessionsAreCurrent /\ RecoveryIsCurrent)'
    BY <2>5 DEF EnableUser
  <2> QED BY <1>3, <2>1, <2>2, <2>3, <2>4, <2>5 DEF UserStep
<1>4. CASE GrantStep
  BY <1>4 DEF GrantStep, SetRepositoryRoles, Done, Acts, GrantRepositoryRole,
      RevokeRepositoryRole
<1>5. CASE InvitationStep
  BY <1>5 DEF InvitationStep, CreateInvitation, Done, Acts, Reserved, Mint,
      Fresh, Pending, ReissueInvitation, ReplaceInvitationLink, Surviving,
      CancelInvitation, Redacted
<1>6. CASE AcceptanceStep
  <2>1. ASSUME NEW r \in requests, AcceptInvitation(r)
        PROVE  (SessionsAreCurrent /\ RecoveryIsCurrent)'
    BY <2>1, FreshIsNew DEF AcceptInvitation, Acceptable
  <2>2. CASE \E e \in Users : BeginAcceptance(e)
    BY <2>2 DEF BeginAcceptance, InFlight, Acceptable
  <2> QED BY <1>6, <2>1, <2>2 DEF AcceptanceStep
<1>7. CASE UNCHANGED vars
  BY <1>7 DEF vars
<1> QED BY <1>1, <1>2, <1>3, <1>4, <1>5, <1>6, <1>7 DEF Next

(* A pending invitation is signed by whoever acts, and withdrawn with the  *)
(* authority of its signer.                                                *)
LEMMA BackedStep ==
  ASSUME TypeOK, InvitationsAreBacked, [Next]_vars
  PROVE  InvitationsAreBacked'
<1> USE DEF InvitationsAreBacked, EnabledAdmin, Enabled, Exists, TypeOK,
    Account, Invitation, Request
<1>1. CASE SessionStep
  <2>1. ASSUME NEW u \in Users, NEW s \in Sessions, CreateFirstAdmin(u, s)
        PROVE  InvitationsAreBacked'
    BY <2>1, FreshIsNew DEF CreateFirstAdmin
  <2>2. CASE
          \/ \E u \in Users : BeginLogin(u)
          \/ \E r \in requests, s \in Sessions : FinishLogin(r, s)
          \/ \E s \in Sessions : EndSession(s)
          \/ \E s \in Sessions : Admit(s)
          \/ \E r \in requests : Reject(r)
    BY <2>2 DEF BeginLogin, InFlight, FinishLogin, Done, Signs, OpenedFor,
        EndSession, Ended, Admit, Loads, Reject
  <2> QED BY <1>1, <2>1, <2>2 DEF SessionStep
<1>2. CASE PasswordStep
  <2>1. ASSUME NEW r \in requests, NEW s \in Sessions, ChangePassword(r, s)
        PROVE  InvitationsAreBacked'
    BY <2>1, FreshIsNew DEF ChangePassword
  <2>2. ASSUME NEW r \in requests, NEW u \in Users, ResetPassword(r, u)
        PROVE  InvitationsAreBacked'
    BY <2>2, FreshIsNew DEF ResetPassword
  <2>3. ASSUME NEW r \in requests, CompleteRecovery(r)
        PROVE  InvitationsAreBacked'
    BY <2>3, FreshIsNew DEF CompleteRecovery
  <2>4. ASSUME NEW u \in Users, Expire(u) PROVE InvitationsAreBacked'
    <3>1. CASE recovery' = [recovery EXCEPT ![u].live = FALSE] /\ UNCHANGED invitations
      BY <2>4, <3>1 DEF Expire, Link
    <3>2. CASE invitations' = [invitations EXCEPT ![u].live = FALSE] /\ UNCHANGED recovery
      BY <2>4, <3>2 DEF Expire
    <3> QED BY <2>4, <3>1, <3>2 DEF Expire
  <2>5. CASE
          \/ \E s \in Sessions : BeginChange(s)
          \/ \E r \in requests, u \in Users : IssueRecovery(r, u)
          \/ \E u \in Users : BeginRecovery(u)
    BY <2>5 DEF BeginChange, InFlight, Loads, IssueRecovery, Done, Mint,
        Fresh, Acts, BeginRecovery, Redeems
  <2> QED BY <1>2, <2>1, <2>2, <2>3, <2>4, <2>5 DEF PasswordStep
<1>3. CASE UserStep
  <2>1. ASSUME NEW r \in requests, NEW u \in Users, CreateUser(r, u)
        PROVE  InvitationsAreBacked'
    BY <2>1, FreshIsNew DEF CreateUser
  <2>2. ASSUME NEW r \in requests, NEW u \in Users, GrantAdmin(r, u)
        PROVE  InvitationsAreBacked'
    BY <2>2 DEF GrantAdmin
  <2>3. ASSUME NEW r \in requests, NEW u \in Users, RemoveAdmin(r, u)
        PROVE  InvitationsAreBacked'
    BY <2>3, InvalidatedRows DEF RemoveAdmin, Demoted
  <2>4. ASSUME NEW r \in requests, NEW u \in Users, DisableUser(r, u)
        PROVE  InvitationsAreBacked'
    BY <2>4, InvalidatedRows DEF DisableUser
  <2>5. ASSUME NEW r \in requests, NEW u \in Users, EnableUser(r, u)
        PROVE  InvitationsAreBacked'
    BY <2>5 DEF EnableUser
  <2> QED BY <1>3, <2>1, <2>2, <2>3, <2>4, <2>5 DEF UserStep
<1>4. CASE GrantStep
  BY <1>4 DEF GrantStep, SetRepositoryRoles, Done, Acts, GrantRepositoryRole,
      RevokeRepositoryRole
<1>5. CASE InvitationStep
  <2>1. ASSUME NEW r \in requests, NEW e \in Users, NEW admin \in BOOLEAN, NEW staged \in SUBSET Grants,
               CreateInvitation(r, e, admin, staged)
        PROVE  InvitationsAreBacked'
    BY <2>1 DEF CreateInvitation, Acts, Pending
  <2>2. ASSUME NEW r \in requests, NEW e \in Users, NEW admin \in BOOLEAN, NEW staged \in SUBSET Grants,
               ReissueInvitation(r, e, admin, staged)
        PROVE  InvitationsAreBacked'
    BY <2>2 DEF ReissueInvitation, Acts, Pending
  <2>3. ASSUME NEW r \in requests, NEW e \in Users,
               ReplaceInvitationLink(r, e)
        PROVE  InvitationsAreBacked'
    BY <2>3 DEF ReplaceInvitationLink, ReissueInvitation, Acts, Pending
  <2>4. ASSUME NEW r \in requests, NEW e \in Users, CancelInvitation(r, e)
        PROVE  InvitationsAreBacked'
    BY <2>4 DEF CancelInvitation, Redacted, NoInvitation
  <2> QED BY <1>5, <2>1, <2>2, <2>3, <2>4 DEF InvitationStep
<1>6. CASE AcceptanceStep
  <2>1. ASSUME NEW r \in requests, AcceptInvitation(r)
        PROVE  InvitationsAreBacked'
    BY <2>1, FreshIsNew DEF AcceptInvitation, Acceptable, Redacted, NoInvitation
  <2>2. CASE \E e \in Users : BeginAcceptance(e)
    BY <2>2 DEF BeginAcceptance, InFlight, Acceptable
  <2> QED BY <1>6, <2>1, <2>2 DEF AcceptanceStep
<1>7. CASE UNCHANGED vars
  BY <1>7 DEF vars
<1> QED BY <1>1, <1>2, <1>3, <1>4, <1>5, <1>6, <1>7 DEF Next

(* An account and an active invitation exclude each other in the           *)
(* transactions that make them, and a role needs an account.               *)
LEMMA InvitedStep ==
  ASSUME TypeOK, InvitedIsNotUser /\ InvitedBySomebody, [Next]_vars
  PROVE  (InvitedIsNotUser /\ InvitedBySomebody)'
<1> USE DEF InvitedIsNotUser, InvitedBySomebody, Active, HasUsers, Exists,
    TypeOK, Account, Invitation, Request
<1>1. CASE SessionStep
  <2>1. ASSUME NEW u \in Users, NEW s \in Sessions, CreateFirstAdmin(u, s)
        PROVE  (InvitedIsNotUser /\ InvitedBySomebody)'
    BY <2>1, FreshIsNew DEF CreateFirstAdmin
  <2>2. CASE
          \/ \E u \in Users : BeginLogin(u)
          \/ \E r \in requests, s \in Sessions : FinishLogin(r, s)
          \/ \E s \in Sessions : EndSession(s)
          \/ \E s \in Sessions : Admit(s)
          \/ \E r \in requests : Reject(r)
    BY <2>2 DEF BeginLogin, InFlight, FinishLogin, Done, Signs, OpenedFor,
        EndSession, Ended, Admit, Loads, Reject
  <2> QED BY <1>1, <2>1, <2>2 DEF SessionStep
<1>2. CASE PasswordStep
  <2>1. ASSUME NEW r \in requests, NEW s \in Sessions, ChangePassword(r, s)
        PROVE  (InvitedIsNotUser /\ InvitedBySomebody)'
    BY <2>1, FreshIsNew DEF ChangePassword, Signs, Enabled
  <2>2. ASSUME NEW r \in requests, NEW u \in Users, ResetPassword(r, u)
        PROVE  (InvitedIsNotUser /\ InvitedBySomebody)'
    BY <2>2, FreshIsNew DEF ResetPassword
  <2>3. ASSUME NEW r \in requests, CompleteRecovery(r)
        PROVE  (InvitedIsNotUser /\ InvitedBySomebody)'
    BY <2>3, FreshIsNew DEF CompleteRecovery, Redeems, Enabled
  <2>4. ASSUME NEW u \in Users, Expire(u)
        PROVE  (InvitedIsNotUser /\ InvitedBySomebody)'
    <3>1. CASE recovery' = [recovery EXCEPT ![u].live = FALSE] /\ UNCHANGED invitations
      BY <2>4, <3>1 DEF Expire, Link
    <3>2. CASE invitations' = [invitations EXCEPT ![u].live = FALSE] /\ UNCHANGED recovery
      BY <2>4, <3>2 DEF Expire
    <3> QED BY <2>4, <3>1, <3>2 DEF Expire
  <2>5. CASE
          \/ \E s \in Sessions : BeginChange(s)
          \/ \E r \in requests, u \in Users : IssueRecovery(r, u)
          \/ \E u \in Users : BeginRecovery(u)
    BY <2>5 DEF BeginChange, InFlight, Loads, IssueRecovery, Done, Mint,
        Fresh, Acts, BeginRecovery, Redeems
  <2> QED BY <1>2, <2>1, <2>2, <2>3, <2>4, <2>5 DEF PasswordStep
<1>3. CASE UserStep
  <2>1. ASSUME NEW r \in requests, NEW u \in Users, CreateUser(r, u)
        PROVE  (InvitedIsNotUser /\ InvitedBySomebody)'
    BY <2>1, FreshIsNew DEF CreateUser, Reserved
  <2>2. ASSUME NEW r \in requests, NEW u \in Users, GrantAdmin(r, u)
        PROVE  (InvitedIsNotUser /\ InvitedBySomebody)'
    BY <2>2 DEF GrantAdmin
  <2>3. ASSUME NEW r \in requests, NEW u \in Users, RemoveAdmin(r, u)
        PROVE  (InvitedIsNotUser /\ InvitedBySomebody)'
    BY <2>3, InvalidatedRows DEF RemoveAdmin, Demoted
  <2>4. ASSUME NEW r \in requests, NEW u \in Users, DisableUser(r, u)
        PROVE  (InvitedIsNotUser /\ InvitedBySomebody)'
    BY <2>4, InvalidatedRows DEF DisableUser
  <2>5. ASSUME NEW r \in requests, NEW u \in Users, EnableUser(r, u)
        PROVE  (InvitedIsNotUser /\ InvitedBySomebody)'
    BY <2>5 DEF EnableUser
  <2> QED BY <1>3, <2>1, <2>2, <2>3, <2>4, <2>5 DEF UserStep
<1>4. CASE GrantStep
  <2>1. ASSUME NEW r \in requests, NEW u \in Users, NEW wanted \in SUBSET Grants,
               SetRepositoryRoles(r, u, wanted)
        PROVE  (InvitedIsNotUser /\ InvitedBySomebody)'
    BY <2>1 DEF SetRepositoryRoles
  <2>2. ASSUME NEW r \in requests, NEW u \in Users, NEW g \in Grants,
               GrantRepositoryRole(r, u, g)
        PROVE  (InvitedIsNotUser /\ InvitedBySomebody)'
    BY <2>2 DEF GrantRepositoryRole
  <2>3. ASSUME NEW r \in requests, NEW u \in Users, NEW g \in Grants,
               RevokeRepositoryRole(r, u, g)
        PROVE  (InvitedIsNotUser /\ InvitedBySomebody)'
    BY <2>3 DEF RevokeRepositoryRole
  <2> QED BY <1>4, <2>1, <2>2, <2>3 DEF GrantStep
<1>5. CASE InvitationStep
  <2>1. ASSUME NEW r \in requests, NEW e \in Users, NEW admin \in BOOLEAN, NEW staged \in SUBSET Grants,
               CreateInvitation(r, e, admin, staged)
        PROVE  (InvitedIsNotUser /\ InvitedBySomebody)'
    BY <2>1 DEF CreateInvitation, Acts, EnabledAdmin, Enabled, Pending
  <2>2. ASSUME NEW r \in requests, NEW e \in Users, NEW admin \in BOOLEAN, NEW staged \in SUBSET Grants,
               ReissueInvitation(r, e, admin, staged)
        PROVE  (InvitedIsNotUser /\ InvitedBySomebody)'
    BY <2>2 DEF ReissueInvitation, Acts, Pending
  <2>3. ASSUME NEW r \in requests, NEW e \in Users,
               ReplaceInvitationLink(r, e)
        PROVE  (InvitedIsNotUser /\ InvitedBySomebody)'
    BY <2>3 DEF ReplaceInvitationLink, ReissueInvitation, Pending
  <2>4. ASSUME NEW r \in requests, NEW e \in Users, CancelInvitation(r, e)
        PROVE  (InvitedIsNotUser /\ InvitedBySomebody)'
    BY <2>4 DEF CancelInvitation, Redacted, NoInvitation
  <2> QED BY <1>5, <2>1, <2>2, <2>3, <2>4 DEF InvitationStep
<1>6. CASE AcceptanceStep
  <2>1. ASSUME NEW r \in requests, AcceptInvitation(r)
        PROVE  (InvitedIsNotUser /\ InvitedBySomebody)'
    BY <2>1, FreshIsNew DEF AcceptInvitation, Acceptable, Redacted, NoInvitation,
        Materialized, StagedGrants
  <2>2. CASE \E e \in Users : BeginAcceptance(e)
    BY <2>2 DEF BeginAcceptance, InFlight, Acceptable
  <2> QED BY <1>6, <2>1, <2>2 DEF AcceptanceStep
<1>7. CASE UNCHANGED vars
  BY <1>7 DEF vars
<1> QED BY <1>1, <1>2, <1>3, <1>4, <1>5, <1>6, <1>7 DEF Next

(* What is minted is ahead of everything in use.                           *)
LEMMA NumberedFresh ==
  ASSUME TypeOK, Numbered, Mint
  PROVE  /\ \A n \in Nat : n <= minted => n <= minted' /\ n # Fresh
         /\ Fresh <= minted' /\ Fresh \in 1..minted' /\ 0 <= minted'
         /\ 1..minted \subseteq 1..minted' /\ Fresh \notin spent
BY BoundsAssumption DEF TypeOK, Numbered, Mint, Fresh, Marks

LEMMA MarksAreNumbers ==
  ASSUME TypeOK
  PROVE  /\ minted \in Nat /\ 0 <= minted
         /\ \A u \in Users : /\ users[u].password \in Nat
                             /\ recovery[u].token \in Nat
                             /\ invitations[u].token \in Nat
<1>1. Marks \subseteq Nat /\ minted \in Nat /\ 0 <= minted
  BY BoundsAssumption DEF TypeOK, Marks
<1> QED BY <1>1 DEF TypeOK, Account, Link, Invitation

(* Whatever is written is what was there, zero or new; and only what is in *)
(* a row is redeemed, which is not zero.                                   *)
LEMMA NumberedStep ==
  ASSUME TypeOK, Numbered, TokensAreDistinct, [Next]_vars
  PROVE  Numbered'
<1> USE DEF Numbered, TypeOK, Account, Link, Invitation, Request
<1>1. CASE SessionStep
  <2>1. ASSUME NEW u \in Users, NEW s \in Sessions, CreateFirstAdmin(u, s)
        PROVE  Numbered'
    BY <2>1, NumberedFresh, MarksAreNumbers DEF CreateFirstAdmin
  <2>2. CASE
          \/ \E u \in Users : BeginLogin(u)
          \/ \E r \in requests, s \in Sessions : FinishLogin(r, s)
          \/ \E s \in Sessions : EndSession(s)
          \/ \E s \in Sessions : Admit(s)
          \/ \E r \in requests : Reject(r)
    BY <2>2 DEF BeginLogin, InFlight, FinishLogin, Done, Signs, OpenedFor,
        EndSession, Ended, Admit, Loads, Reject
  <2> QED BY <1>1, <2>1, <2>2 DEF SessionStep
<1>2. CASE PasswordStep
  <2>1. ASSUME NEW r \in requests, NEW s \in Sessions, ChangePassword(r, s)
        PROVE  Numbered'
    BY <2>1, NumberedFresh, MarksAreNumbers DEF ChangePassword, WithoutLink,
        NoLink
  <2>2. ASSUME NEW r \in requests, NEW u \in Users, ResetPassword(r, u)
        PROVE  Numbered'
    BY <2>2, NumberedFresh, MarksAreNumbers DEF ResetPassword, WithoutLink,
        NoLink
  <2>3. ASSUME NEW r \in requests, NEW u \in Users, IssueRecovery(r, u)
        PROVE  Numbered'
    BY <2>3, NumberedFresh, MarksAreNumbers DEF IssueRecovery
  <2>4. ASSUME NEW r \in requests, CompleteRecovery(r) PROVE Numbered'
    BY <2>4, NumberedFresh, MarksAreNumbers DEF CompleteRecovery, WithoutLink,
        NoLink, Redeems, TokensAreDistinct
  <2>5. ASSUME NEW u \in Users, Expire(u) PROVE Numbered'
    <3>1. CASE recovery' = [recovery EXCEPT ![u].live = FALSE] /\ UNCHANGED invitations
      BY <2>5, <3>1 DEF Expire
    <3>2. CASE invitations' = [invitations EXCEPT ![u].live = FALSE] /\ UNCHANGED recovery
      BY <2>5, <3>2 DEF Expire
    <3> QED BY <2>5, <3>1, <3>2 DEF Expire
  <2>6. CASE
          \/ \E s \in Sessions : BeginChange(s)
          \/ \E u \in Users : BeginRecovery(u)
    BY <2>6 DEF BeginChange, InFlight, Loads, BeginRecovery, Redeems
  <2> QED BY <1>2, <2>1, <2>2, <2>3, <2>4, <2>5, <2>6 DEF PasswordStep
<1>3. CASE UserStep
  <2>1. ASSUME NEW r \in requests, NEW u \in Users, CreateUser(r, u)
        PROVE  Numbered'
    BY <2>1, NumberedFresh, MarksAreNumbers DEF CreateUser
  <2>2. ASSUME NEW r \in requests, NEW u \in Users, GrantAdmin(r, u)
        PROVE  Numbered'
    BY <2>2 DEF GrantAdmin
  <2>3. ASSUME NEW r \in requests, NEW u \in Users, RemoveAdmin(r, u)
        PROVE  Numbered'
    <3>1. \A e \in Users : invitations'[e].token \in {0, invitations[e].token}
      BY <2>3, InvalidatedRows DEF RemoveAdmin
    <3>2. \A e \in Users : users'[e].password = users[e].password
      BY <2>3 DEF RemoveAdmin, Demoted
    <3>3. \A e \in Users : recovery'[e].token \in {0, recovery[e].token}
      BY <2>3 DEF RemoveAdmin
    <3>4. minted' = minted /\ spent' = spent
      BY <2>3 DEF RemoveAdmin
    <3> QED BY <3>1, <3>2, <3>3, <3>4, MarksAreNumbers
  <2>4. ASSUME NEW r \in requests, NEW u \in Users, DisableUser(r, u)
        PROVE  Numbered'
    <3>1. \A e \in Users : invitations'[e].token \in {0, invitations[e].token}
      BY <2>4, InvalidatedRows DEF DisableUser
    <3>2. \A e \in Users : users'[e].password = users[e].password
      BY <2>4 DEF DisableUser
    <3>3. \A e \in Users : recovery'[e].token \in {0, recovery[e].token}
      BY <2>4 DEF DisableUser, WithoutLink, NoLink
    <3>4. minted' = minted /\ spent' = spent
      BY <2>4 DEF DisableUser
    <3> QED BY <3>1, <3>2, <3>3, <3>4, MarksAreNumbers
  <2>5. ASSUME NEW r \in requests, NEW u \in Users, EnableUser(r, u)
        PROVE  Numbered'
    BY <2>5 DEF EnableUser
  <2> QED BY <1>3, <2>1, <2>2, <2>3, <2>4, <2>5 DEF UserStep
<1>4. CASE GrantStep
  <2>1. ASSUME NEW r \in requests, NEW u \in Users, NEW wanted \in SUBSET Grants,
               SetRepositoryRoles(r, u, wanted)
        PROVE  Numbered'
    BY <2>1 DEF SetRepositoryRoles
  <2>2. ASSUME NEW r \in requests, NEW u \in Users, NEW g \in Grants,
               GrantRepositoryRole(r, u, g)
        PROVE  Numbered'
    BY <2>2 DEF GrantRepositoryRole
  <2>3. ASSUME NEW r \in requests, NEW u \in Users, NEW g \in Grants,
               RevokeRepositoryRole(r, u, g)
        PROVE  Numbered'
    BY <2>3 DEF RevokeRepositoryRole
  <2> QED BY <1>4, <2>1, <2>2, <2>3 DEF GrantStep
<1>5. CASE InvitationStep
  <2>1. ASSUME NEW r \in requests, NEW e \in Users, NEW admin \in BOOLEAN, NEW staged \in SUBSET Grants,
               CreateInvitation(r, e, admin, staged)
        PROVE  Numbered'
    BY <2>1, NumberedFresh, MarksAreNumbers DEF CreateInvitation, Pending
  <2>2. ASSUME NEW r \in requests, NEW e \in Users, NEW admin \in BOOLEAN, NEW staged \in SUBSET Grants,
               ReissueInvitation(r, e, admin, staged)
        PROVE  Numbered'
    BY <2>2, NumberedFresh, MarksAreNumbers DEF ReissueInvitation, Pending
  <2>3. ASSUME NEW r \in requests, NEW e \in Users,
               ReplaceInvitationLink(r, e)
        PROVE  Numbered'
    BY <2>3, NumberedFresh, MarksAreNumbers DEF ReplaceInvitationLink,
        ReissueInvitation, Pending
  <2>4. ASSUME NEW r \in requests, NEW e \in Users, CancelInvitation(r, e)
        PROVE  Numbered'
    BY <2>4, MarksAreNumbers DEF CancelInvitation, Redacted, NoInvitation
  <2> QED BY <1>5, <2>1, <2>2, <2>3, <2>4 DEF InvitationStep
<1>6. CASE AcceptanceStep
  <2>1. ASSUME NEW r \in requests, AcceptInvitation(r) PROVE Numbered'
    <3>1. r.user \in Users /\ r.proof \in 1..minted
      BY <2>1, MarksAreNumbers DEF AcceptInvitation, Acceptable, TokensAreDistinct
    <3>2. \A e \in Users : users'[e].password \in {Fresh, users[e].password}
      BY <2>1 DEF AcceptInvitation
    <3>3. \A e \in Users : invitations'[e].token \in {0, invitations[e].token}
      BY <2>1 DEF AcceptInvitation, Redacted, NoInvitation
    <3>4. Mint /\ recovery' = recovery /\ spent' = spent \cup {r.proof}
      BY <2>1 DEF AcceptInvitation
    <3> QED BY <3>1, <3>2, <3>3, <3>4, NumberedFresh, MarksAreNumbers
  <2>2. CASE \E e \in Users : BeginAcceptance(e)
    BY <2>2 DEF BeginAcceptance, InFlight, Acceptable
  <2> QED BY <1>6, <2>1, <2>2 DEF AcceptanceStep
<1>7. CASE UNCHANGED vars
  BY <1>7 DEF vars
<1> QED BY <1>1, <1>2, <1>3, <1>4, <1>5, <1>6, <1>7 DEF Next

(* A row gets a new token or loses the one it has.                         *)
LEMMA DistinctStep ==
  ASSUME TypeOK, Numbered, TokensAreDistinct, [Next]_vars
  PROVE  TokensAreDistinct'
<1> USE DEF Numbered, TokensAreDistinct, TypeOK, Link, Invitation, Request
<1>1. CASE SessionStep
  BY <1>1 DEF SessionStep, CreateFirstAdmin, Mint, Fresh, HasUsers, OpenedFor,
      BeginLogin, InFlight, FinishLogin, Done, Signs, EndSession, Ended,
      Admit, Loads, Reject
<1>2. CASE PasswordStep
  <2>1. ASSUME NEW r \in requests, NEW s \in Sessions, ChangePassword(r, s)
        PROVE  TokensAreDistinct'
    BY <2>1, NumberedFresh, MarksAreNumbers DEF ChangePassword, WithoutLink,
        NoLink
  <2>2. ASSUME NEW r \in requests, NEW u \in Users, ResetPassword(r, u)
        PROVE  TokensAreDistinct'
    BY <2>2, NumberedFresh, MarksAreNumbers DEF ResetPassword, WithoutLink,
        NoLink
  <2>3. ASSUME NEW r \in requests, NEW u \in Users, IssueRecovery(r, u)
        PROVE  TokensAreDistinct'
    BY <2>3, FreshIsNew, NumberedFresh, MarksAreNumbers DEF IssueRecovery
  <2>4. ASSUME NEW r \in requests, CompleteRecovery(r)
        PROVE  TokensAreDistinct'
    BY <2>4, NumberedFresh, MarksAreNumbers DEF CompleteRecovery, WithoutLink,
        NoLink, Redeems
  <2>5. ASSUME NEW u \in Users, Expire(u) PROVE TokensAreDistinct'
    <3>1. CASE recovery' = [recovery EXCEPT ![u].live = FALSE] /\ UNCHANGED invitations
      BY <2>5, <3>1 DEF Expire
    <3>2. CASE invitations' = [invitations EXCEPT ![u].live = FALSE] /\ UNCHANGED recovery
      BY <2>5, <3>2 DEF Expire
    <3> QED BY <2>5, <3>1, <3>2 DEF Expire
  <2>6. CASE
          \/ \E s \in Sessions : BeginChange(s)
          \/ \E u \in Users : BeginRecovery(u)
    BY <2>6 DEF BeginChange, InFlight, Loads, BeginRecovery, Redeems
  <2> QED BY <1>2, <2>1, <2>2, <2>3, <2>4, <2>5, <2>6 DEF PasswordStep
<1>3. CASE UserStep
  <2>1. ASSUME NEW r \in requests, NEW u \in Users, RemoveAdmin(r, u)
        PROVE  TokensAreDistinct'
    <3>1. \A e \in Users :
            \/ invitations'[e] = invitations[e]
            \/ invitations'[e].status # "pending" /\ invitations'[e].token = 0
      BY <2>1, InvalidatedRows DEF RemoveAdmin
    <3>2. \A e \in Users :
            \/ recovery'[e] = recovery[e]
            \/ recovery'[e].token = 0 /\ ~recovery'[e].live
      BY <2>1 DEF RemoveAdmin
    <3> QED BY <3>1, <3>2
  <2>2. ASSUME NEW r \in requests, NEW u \in Users, DisableUser(r, u)
        PROVE  TokensAreDistinct'
    <3>1. \A e \in Users :
            \/ invitations'[e] = invitations[e]
            \/ invitations'[e].status # "pending" /\ invitations'[e].token = 0
      BY <2>2, InvalidatedRows DEF DisableUser
    <3>2. \A e \in Users :
            \/ recovery'[e] = recovery[e]
            \/ recovery'[e].token = 0 /\ ~recovery'[e].live
      BY <2>2 DEF DisableUser, WithoutLink, NoLink
    <3> QED BY <3>1, <3>2
  <2>3. CASE
          \/ \E r \in requests, u \in Users : CreateUser(r, u)
          \/ \E r \in requests, u \in Users : GrantAdmin(r, u)
          \/ \E r \in requests, u \in Users : EnableUser(r, u)
    BY <2>3 DEF CreateUser, Done, Mint, Fresh, Acts, Reserved, GrantAdmin,
        EnableUser
  <2> QED BY <1>3, <2>1, <2>2, <2>3 DEF UserStep
<1>4. CASE GrantStep
  BY <1>4 DEF GrantStep, SetRepositoryRoles, Done, Acts, GrantRepositoryRole,
      RevokeRepositoryRole
<1>5. CASE InvitationStep
  <2>1. ASSUME NEW r \in requests, NEW e \in Users, NEW admin \in BOOLEAN, NEW staged \in SUBSET Grants,
               CreateInvitation(r, e, admin, staged)
        PROVE  TokensAreDistinct'
    BY <2>1, FreshIsNew, NumberedFresh, MarksAreNumbers DEF CreateInvitation,
        Pending
  <2>2. ASSUME NEW r \in requests, NEW e \in Users, NEW admin \in BOOLEAN, NEW staged \in SUBSET Grants,
               ReissueInvitation(r, e, admin, staged)
        PROVE  TokensAreDistinct'
    BY <2>2, FreshIsNew, NumberedFresh, MarksAreNumbers DEF ReissueInvitation,
        Pending
  <2>3. ASSUME NEW r \in requests, NEW e \in Users,
               ReplaceInvitationLink(r, e)
        PROVE  TokensAreDistinct'
    BY <2>3, FreshIsNew, NumberedFresh, MarksAreNumbers DEF
        ReplaceInvitationLink, ReissueInvitation, Pending
  <2>4. ASSUME NEW r \in requests, NEW e \in Users, CancelInvitation(r, e)
        PROVE  TokensAreDistinct'
    BY <2>4 DEF CancelInvitation, Redacted, NoInvitation
  <2> QED BY <1>5, <2>1, <2>2, <2>3, <2>4 DEF InvitationStep
<1>6. CASE AcceptanceStep
  <2>1. ASSUME NEW r \in requests, AcceptInvitation(r)
        PROVE  TokensAreDistinct'
    BY <2>1, NumberedFresh, MarksAreNumbers DEF AcceptInvitation, Redacted,
        NoInvitation
  <2>2. CASE \E e \in Users : BeginAcceptance(e)
    BY <2>2 DEF BeginAcceptance, InFlight, Acceptable
  <2> QED BY <1>6, <2>1, <2>2 DEF AcceptanceStep
<1>7. CASE UNCHANGED vars
  BY <1>7 DEF vars
<1> QED BY <1>1, <1>2, <1>3, <1>4, <1>5, <1>6, <1>7 DEF Next

LEMMA ZeroIsUnspent == ASSUME Numbered PROVE 0 \notin spent
BY DEF Numbered

(* What is redeemed leaves its row, the only one that had it; a new token  *)
(* was never redeemed.                                                     *)
LEMMA SpentStep ==
  ASSUME TypeOK, Numbered, TokensAreDistinct, TokensAreSpentOnce, [Next]_vars
  PROVE  TokensAreSpentOnce'
<1> USE DEF TokensAreSpentOnce, TypeOK, Link, Invitation, Request
<1>1. CASE SessionStep
  BY <1>1 DEF SessionStep, CreateFirstAdmin, Mint, Fresh, HasUsers, OpenedFor,
      BeginLogin, InFlight, FinishLogin, Done, Signs, EndSession, Ended,
      Admit, Loads, Reject
<1>2. CASE PasswordStep
  <2>1. ASSUME NEW r \in requests, NEW s \in Sessions, ChangePassword(r, s)
        PROVE  TokensAreSpentOnce'
    BY <2>1, ZeroIsUnspent DEF ChangePassword, WithoutLink, NoLink
  <2>2. ASSUME NEW r \in requests, NEW u \in Users, ResetPassword(r, u)
        PROVE  TokensAreSpentOnce'
    BY <2>2, ZeroIsUnspent DEF ResetPassword, WithoutLink, NoLink
  <2>3. ASSUME NEW r \in requests, NEW u \in Users, IssueRecovery(r, u)
        PROVE  TokensAreSpentOnce'
    BY <2>3, NumberedFresh, MarksAreNumbers DEF IssueRecovery
  <2>4. ASSUME NEW r \in requests, CompleteRecovery(r)
        PROVE  TokensAreSpentOnce'
    BY <2>4, ZeroIsUnspent DEF CompleteRecovery, WithoutLink, NoLink, Redeems,
        TokensAreDistinct
  <2>5. ASSUME NEW u \in Users, Expire(u) PROVE TokensAreSpentOnce'
    <3>1. CASE recovery' = [recovery EXCEPT ![u].live = FALSE] /\ UNCHANGED invitations
      BY <2>5, <3>1 DEF Expire
    <3>2. CASE invitations' = [invitations EXCEPT ![u].live = FALSE] /\ UNCHANGED recovery
      BY <2>5, <3>2 DEF Expire
    <3> QED BY <2>5, <3>1, <3>2 DEF Expire
  <2>6. CASE
          \/ \E s \in Sessions : BeginChange(s)
          \/ \E u \in Users : BeginRecovery(u)
    BY <2>6 DEF BeginChange, InFlight, Loads, BeginRecovery, Redeems
  <2> QED BY <1>2, <2>1, <2>2, <2>3, <2>4, <2>5, <2>6 DEF PasswordStep
<1>3. CASE UserStep
  <2>1. ASSUME NEW r \in requests, NEW u \in Users, RemoveAdmin(r, u)
        PROVE  TokensAreSpentOnce'
    BY <2>1, InvalidatedRows, ZeroIsUnspent DEF RemoveAdmin
  <2>2. ASSUME NEW r \in requests, NEW u \in Users, DisableUser(r, u)
        PROVE  TokensAreSpentOnce'
    BY <2>2, InvalidatedRows, ZeroIsUnspent DEF DisableUser, WithoutLink, NoLink
  <2>3. CASE
          \/ \E r \in requests, u \in Users : CreateUser(r, u)
          \/ \E r \in requests, u \in Users : GrantAdmin(r, u)
          \/ \E r \in requests, u \in Users : EnableUser(r, u)
    BY <2>3 DEF CreateUser, Done, Mint, Fresh, Acts, Reserved, GrantAdmin,
        EnableUser
  <2> QED BY <1>3, <2>1, <2>2, <2>3 DEF UserStep
<1>4. CASE GrantStep
  BY <1>4 DEF GrantStep, SetRepositoryRoles, Done, Acts, GrantRepositoryRole,
      RevokeRepositoryRole
<1>5. CASE InvitationStep
  <2>1. ASSUME NEW r \in requests, NEW e \in Users, NEW admin \in BOOLEAN, NEW staged \in SUBSET Grants,
               CreateInvitation(r, e, admin, staged)
        PROVE  TokensAreSpentOnce'
    BY <2>1, NumberedFresh, MarksAreNumbers DEF CreateInvitation, Pending
  <2>2. ASSUME NEW r \in requests, NEW e \in Users, NEW admin \in BOOLEAN, NEW staged \in SUBSET Grants,
               ReissueInvitation(r, e, admin, staged)
        PROVE  TokensAreSpentOnce'
    BY <2>2, NumberedFresh, MarksAreNumbers DEF ReissueInvitation, Pending
  <2>3. ASSUME NEW r \in requests, NEW e \in Users,
               ReplaceInvitationLink(r, e)
        PROVE  TokensAreSpentOnce'
    BY <2>3, NumberedFresh, MarksAreNumbers DEF ReplaceInvitationLink,
        ReissueInvitation, Pending
  <2>4. ASSUME NEW r \in requests, NEW e \in Users, CancelInvitation(r, e)
        PROVE  TokensAreSpentOnce'
    BY <2>4, ZeroIsUnspent DEF CancelInvitation, Redacted, NoInvitation
  <2> QED BY <1>5, <2>1, <2>2, <2>3, <2>4 DEF InvitationStep
<1>6. CASE AcceptanceStep
  <2>1. ASSUME NEW r \in requests, AcceptInvitation(r)
        PROVE  TokensAreSpentOnce'
    BY <2>1, ZeroIsUnspent DEF AcceptInvitation, Acceptable, Redacted,
        NoInvitation, TokensAreDistinct
  <2>2. CASE \E e \in Users : BeginAcceptance(e)
    BY <2>2 DEF BeginAcceptance, InFlight, Acceptable
  <2> QED BY <1>6, <2>1, <2>2 DEF AcceptanceStep
<1>7. CASE UNCHANGED vars
  BY <1>7 DEF vars
<1> QED BY <1>1, <1>2, <1>3, <1>4, <1>5, <1>6, <1>7 DEF Next

(* The other ways to become a user are the first setup and a password that *)
(* an administrator chose.                                                 *)
LEMMA AcceptStep ==
  ASSUME TypeOK, InvitedIsNotUser, [Next]_vars
  PROVE  AcceptsExactly
<1> USE DEF AcceptsExactly, HasUsers, Exists, TypeOK, Account, Request
<1>1. CASE SessionStep
  <2>1. ASSUME NEW u \in Users, NEW s \in Sessions, CreateFirstAdmin(u, s)
        PROVE  AcceptsExactly
    BY <2>1 DEF CreateFirstAdmin
  <2>2. CASE
          \/ \E u \in Users : BeginLogin(u)
          \/ \E r \in requests, s \in Sessions : FinishLogin(r, s)
          \/ \E s \in Sessions : EndSession(s)
          \/ \E s \in Sessions : Admit(s)
          \/ \E r \in requests : Reject(r)
    BY <2>2 DEF BeginLogin, InFlight, FinishLogin, Done, Signs, OpenedFor,
        EndSession, Ended, Admit, Loads, Reject
  <2> QED BY <1>1, <2>1, <2>2 DEF SessionStep
<1>2. CASE PasswordStep
  <2>1. ASSUME NEW r \in requests, NEW s \in Sessions, ChangePassword(r, s)
        PROVE  AcceptsExactly
    BY <2>1 DEF ChangePassword, Signs, Enabled
  <2>2. ASSUME NEW r \in requests, NEW u \in Users, ResetPassword(r, u)
        PROVE  AcceptsExactly
    BY <2>2 DEF ResetPassword
  <2>3. ASSUME NEW r \in requests, CompleteRecovery(r) PROVE AcceptsExactly
    BY <2>3 DEF CompleteRecovery, Redeems, Enabled
  <2>4. CASE
          \/ \E s \in Sessions : BeginChange(s)
          \/ \E r \in requests, u \in Users : IssueRecovery(r, u)
          \/ \E u \in Users : BeginRecovery(u)
          \/ \E u \in Users : Expire(u)
    BY <2>4 DEF BeginChange, InFlight, Loads, IssueRecovery, Done, Mint,
        Fresh, Acts, BeginRecovery, Redeems, Expire
  <2> QED BY <1>2, <2>1, <2>2, <2>3, <2>4 DEF PasswordStep
<1>3. CASE UserStep
  <2>1. ASSUME NEW r \in requests, NEW u \in Users, CreateUser(r, u)
        PROVE  AcceptsExactly
    BY <2>1 DEF CreateUser
  <2>2. ASSUME NEW r \in requests, NEW u \in Users, GrantAdmin(r, u)
        PROVE  AcceptsExactly
    BY <2>2 DEF GrantAdmin
  <2>3. ASSUME NEW r \in requests, NEW u \in Users, RemoveAdmin(r, u)
        PROVE  AcceptsExactly
    BY <2>3 DEF RemoveAdmin, Demoted
  <2>4. ASSUME NEW r \in requests, NEW u \in Users, DisableUser(r, u)
        PROVE  AcceptsExactly
    BY <2>4 DEF DisableUser
  <2>5. ASSUME NEW r \in requests, NEW u \in Users, EnableUser(r, u)
        PROVE  AcceptsExactly
    BY <2>5 DEF EnableUser
  <2> QED BY <1>3, <2>1, <2>2, <2>3, <2>4, <2>5 DEF UserStep
<1>4. CASE GrantStep
  BY <1>4 DEF GrantStep, SetRepositoryRoles, Done, Acts, GrantRepositoryRole,
      RevokeRepositoryRole
<1>5. CASE InvitationStep
  BY <1>5 DEF InvitationStep, CreateInvitation, Done, Acts, Reserved, Mint,
      Fresh, Pending, ReissueInvitation, ReplaceInvitationLink, Surviving,
      CancelInvitation, Redacted
<1>6. CASE AcceptanceStep
  <2>1. ASSUME NEW r \in requests, AcceptInvitation(r) PROVE AcceptsExactly
    BY <2>1 DEF AcceptInvitation, Acceptable, Materialized, StagedGrants,
        InvitedIsNotUser
  <2>2. CASE \E e \in Users : BeginAcceptance(e)
    BY <2>2 DEF BeginAcceptance, InFlight, Acceptable
  <2> QED BY <1>6, <2>1, <2>2 DEF AcceptanceStep
<1>7. CASE UNCHANGED vars
  BY <1>7 DEF vars
<1> QED BY <1>1, <1>2, <1>3, <1>4, <1>5, <1>6, <1>7 DEF Next

(* Each of the three ways to change a password removes the sessions and    *)
(* the link of the user.                                                   *)
LEMMA RevokeStep ==
  ASSUME TypeOK, SessionsAreCurrent, [Next]_vars
  PROVE  RevokesOld
<1> USE DEF RevokesOld, Exists, Open, TypeOK, Account, Request, Session
<1>1. CASE SessionStep
  <2>1. ASSUME NEW u \in Users, NEW s \in Sessions, CreateFirstAdmin(u, s)
        PROVE  RevokesOld
    BY <2>1 DEF CreateFirstAdmin, HasUsers
  <2>2. CASE
          \/ \E u \in Users : BeginLogin(u)
          \/ \E r \in requests, s \in Sessions : FinishLogin(r, s)
          \/ \E s \in Sessions : EndSession(s)
          \/ \E s \in Sessions : Admit(s)
          \/ \E r \in requests : Reject(r)
    BY <2>2 DEF BeginLogin, InFlight, FinishLogin, Done, Signs, OpenedFor,
        EndSession, Ended, Admit, Loads, Reject
  <2> QED BY <1>1, <2>1, <2>2 DEF SessionStep
<1>2. CASE PasswordStep
  <2>1. ASSUME NEW r \in requests, NEW s \in Sessions, ChangePassword(r, s)
        PROVE  RevokesOld
    BY <2>1, FreshIsNew DEF ChangePassword, Signs, Enabled, SessionsAreCurrent,
        Ended, SessionsOf, OpenedFor, WithoutLink, NoLink
  <2>2. ASSUME NEW r \in requests, NEW u \in Users, ResetPassword(r, u)
        PROVE  RevokesOld
    BY <2>2 DEF ResetPassword, Ended, SessionsOf, WithoutLink, NoLink
  <2>3. ASSUME NEW r \in requests, CompleteRecovery(r) PROVE RevokesOld
    BY <2>3 DEF CompleteRecovery, Redeems, Enabled, Ended, SessionsOf,
        WithoutLink, NoLink
  <2>4. CASE
          \/ \E s \in Sessions : BeginChange(s)
          \/ \E r \in requests, u \in Users : IssueRecovery(r, u)
          \/ \E u \in Users : BeginRecovery(u)
          \/ \E u \in Users : Expire(u)
    BY <2>4 DEF BeginChange, InFlight, Loads, IssueRecovery, Done, Mint,
        Fresh, Acts, BeginRecovery, Redeems, Expire
  <2> QED BY <1>2, <2>1, <2>2, <2>3, <2>4 DEF PasswordStep
<1>3. CASE UserStep
  <2>1. ASSUME NEW r \in requests, NEW u \in Users, CreateUser(r, u)
        PROVE  RevokesOld
    BY <2>1 DEF CreateUser
  <2>2. ASSUME NEW r \in requests, NEW u \in Users, GrantAdmin(r, u)
        PROVE  RevokesOld
    BY <2>2 DEF GrantAdmin
  <2>3. ASSUME NEW r \in requests, NEW u \in Users, RemoveAdmin(r, u)
        PROVE  RevokesOld
    BY <2>3 DEF RemoveAdmin, Demoted
  <2>4. ASSUME NEW r \in requests, NEW u \in Users, DisableUser(r, u)
        PROVE  RevokesOld
    BY <2>4 DEF DisableUser
  <2>5. ASSUME NEW r \in requests, NEW u \in Users, EnableUser(r, u)
        PROVE  RevokesOld
    BY <2>5 DEF EnableUser
  <2> QED BY <1>3, <2>1, <2>2, <2>3, <2>4, <2>5 DEF UserStep
<1>4. CASE GrantStep
  BY <1>4 DEF GrantStep, SetRepositoryRoles, Done, Acts, GrantRepositoryRole,
      RevokeRepositoryRole
<1>5. CASE InvitationStep
  BY <1>5 DEF InvitationStep, CreateInvitation, Done, Acts, Reserved, Mint,
      Fresh, Pending, ReissueInvitation, ReplaceInvitationLink, Surviving,
      CancelInvitation, Redacted
<1>6. CASE AcceptanceStep
  <2>1. ASSUME NEW r \in requests, AcceptInvitation(r) PROVE RevokesOld
    BY <2>1 DEF AcceptInvitation, Acceptable
  <2>2. CASE \E e \in Users : BeginAcceptance(e)
    BY <2>2 DEF BeginAcceptance, InFlight, Acceptable
  <2> QED BY <1>6, <2>1, <2>2 DEF AcceptanceStep
<1>7. CASE UNCHANGED vars
  BY <1>7 DEF vars
<1> QED BY <1>1, <1>2, <1>3, <1>4, <1>5, <1>6, <1>7 DEF Next

-----------------------------------------------------------------------------
(* The inductive invariant.                                                *)
LEMMA Invariance == Spec => []IInv
<1>1. IInv /\ [Next]_vars => IInv'
  BY TypeStep, NumberedStep, DistinctStep, AdministratorStep, CredentialsStep, BackedStep,
     InvitedStep, SpentStep DEF IInv
<1> QED BY InitEstablishes, <1>1, PTL DEF Spec

(* Once the installation is set up, an enabled administrator with a local  *)
(* password always remains, whatever demotions and disables race.          *)
THEOREM AnAdministratorRemains == Spec => []AdministratorRemains
<1>1. IInv => AdministratorRemains
  BY DEF IInv
<1> QED BY <1>1, Invariance, PTL

(* Whatever signs a user in is of today: no session and no recovery link   *)
(* outlives the password, the enabled account or the key it rests on.      *)
THEOREM CredentialsStayCurrent == Spec => []CredentialsAreCurrent
<1>1. IInv => CredentialsAreCurrent
  BY DEF IInv, CredentialsAreCurrent
<1> QED BY <1>1, Invariance, PTL

(* The page, which reads the row alone, calls an invitation usable exactly *)
(* if its link would be accepted.                                          *)
LEMMA UsableRowsAreAcceptable ==
  ASSUME IInv PROVE UsableIsAcceptable
<1> SUFFICES ASSUME NEW e \in Users
             PROVE  Usable(e) <=> \E token \in 1..minted : Acceptable(e, token)
  BY DEF UsableIsAcceptable
<1>1. invitations[e].live \in BOOLEAN
  BY DEF IInv, TypeOK, Invitation
<1>2. Usable(e) <=> invitations[e].status = "pending" /\ invitations[e].live
  <2>1. Lifecycle(e) = "pending" <=> invitations[e].status = "pending" /\ invitations[e].live
    BY <1>1 DEF Lifecycle
  <2> QED BY <2>1 DEF Usable, ActiveInvitations, Active
<1>3. CASE invitations[e].status = "pending" /\ invitations[e].live
  <2>1. invitations[e].token \in 1..minted
    BY <1>3, MarksAreNumbers DEF IInv, Numbered, TokensAreDistinct
  <2>2. Acceptable(e, invitations[e].token)
    BY <1>3 DEF IInv, InvitationsAreBacked, InvitedIsNotUser, Active, Acceptable
  <2> QED BY <1>2, <1>3, <2>1, <2>2
<1>4. CASE ~(invitations[e].status = "pending" /\ invitations[e].live)
  BY <1>2, <1>4 DEF Acceptable
<1> QED BY <1>3, <1>4

(* An invitation is backed by an administrator, is for somebody who is not *)
(* a user, is redeemed once, and is shown as usable when it is.            *)
THEOREM InvitationsStaySound == Spec => []InvitationsAreSound
<1>1. IInv => InvitationsAreSound
  BY UsableRowsAreAcceptable DEF IInv, InvitationsAreSound
<1> QED BY <1>1, Invariance, PTL

(* Accounts and passwords change only with the authority that stands at    *)
(* that moment, and take with them what rested on the old ones.            *)
THEOREM AuthorityStaysExact == Spec => AuthorityIsExact
<1>1. IInv /\ [Next]_vars => AcceptsExactly
  BY AcceptStep DEF IInv
<1>2. IInv /\ [Next]_vars => RevokesOld
  BY RevokeStep DEF IInv
<1>3. Spec => AcceptanceIsExact
  BY <1>1, Invariance, PTL DEF Spec, AcceptanceIsExact, AcceptsExactly
<1>4. Spec => PasswordChangeRevokes
  BY <1>2, Invariance, PTL DEF Spec, PasswordChangeRevokes, RevokesOld
<1> QED BY <1>3, <1>4 DEF AuthorityIsExact

-----------------------------------------------------------------------------
(***************************************************************************)
(* Company sign-in, for any number of users, sessions, ceremonies and      *)
(* calls.  What a call read before it asked the provider is compared again *)
(* in the transaction that commits; so one needs only know who a call acts *)
(* for, and that nothing waits for an enabling that is over.               *)
(***************************************************************************)
CompanyTables ==
  /\ users \in [Users -> [password : Nat, enabled : BOOLEAN, admin : BOOLEAN, forced : BOOLEAN]]
  /\ sessions \in [Sessions -> [user : Users, company : BOOLEAN, opened : Nat, generation : Nat]
                                 \cup {NoSession}]
  /\ minted \in Nat

CallsHaveActors ==
  \A c \in calls :
    /\ c.op # "start" => c.user \in Users
    /\ c.op \in {"testing", "tested", "start_link", "linking"} => c.session \in Sessions
CeremoniesHaveActors ==
  \A x \in ceremonies : x.flow # "login" => x.user \in Users /\ x.session \in Sessions

(* An identity is linked to a connection that is there.                    *)
LinkedIsFound == company.linked # Nobody => Found

CompanyInv ==
  /\ CompanyTables /\ CallsHaveActors /\ CeremoniesHaveActors /\ IsFiniteSet(ceremonies)
  /\ CompanyTypeOK /\ CompanySessionsAreAuthorized /\ EnabledIsReady /\ EvidenceIsCurrent
  /\ LoginsAreFenced /\ LoginsAreCapped /\ LinkedIsFound

(* Calls and rows are made of what is in the tables.                       *)
TypedCalls == calls' \subseteq Call /\ CallsHaveActors'
TypedCeremonies == ceremonies' \subseteq Ceremony /\ CeremoniesHaveActors' /\ IsFiniteSet(ceremonies')

LEMMA CompanyInitEstablishes ==
  ASSUME CompanyInit
  PROVE  CompanyInv
<1>1. CompanyTables
  BY DEF CompanyInit, CompanyTables
<1>2. CompanyTypeOK /\ EnabledIsReady /\ EvidenceIsCurrent /\ LinkedIsFound
  BY CompanyAssumption
  DEF CompanyInit, LinkedIsFound, CompanyTypeOK, Connection, NoConnection, EnabledIsReady, EvidenceIsCurrent
<1>3. CallsHaveActors /\ CeremoniesHaveActors /\ CompanySessionsAreAuthorized /\ LoginsAreFenced
  BY DEF CompanyInit, CallsHaveActors, CeremoniesHaveActors, CompanySessionsAreAuthorized,
     CompanySessions, Open, LoginsAreFenced, Logins
<1>4. IsFiniteSet(ceremonies) /\ LoginsAreCapped
  <2>1. ceremonies = {} /\ Logins = {}
    BY DEF CompanyInit, Logins
  <2> QED BY <2>1, FS_EmptySet, CompanyAssumption DEF LoginsAreCapped
<1> QED BY <1>1, <1>2, <1>3, <1>4 DEF CompanyInv

LEMMA FewerLogins ==
  ASSUME IsFiniteSet(ceremonies), LoginsAreCapped, Logins' \subseteq Logins
  PROVE  LoginsAreCapped'
<1>1. IsFiniteSet(Logins)
  BY FS_Subset DEF Logins
<1>2. Cardinality(Logins') <= Cardinality(Logins) /\ IsFiniteSet(Logins')
  BY <1>1, FS_Subset
<1>3. Cardinality(Logins) \in Nat /\ Cardinality(Logins') \in Nat
  BY <1>1, <1>2, FS_CardinalityType
<1>4. Cardinality(Logins)' = Cardinality(Logins')
  OBVIOUS
<1> QED BY <1>2, <1>3, <1>4, CompanyAssumption DEF LoginsAreCapped

(* While sign-in is off, no session and no login rests on it.              *)
LEMMA OffIsEmpty ==
  ASSUME CompanyInv, ~company.enabled
  PROVE  CompanySessions = {} /\ Logins = {}
BY DEF CompanyInv, CompanySessionsAreAuthorized, StillAuthorized, LoginsAreFenced, SameEnabling,
   CompanySessions

LEMMA EnabledIsFound ==
  ASSUME CompanyInv, company.enabled
  PROVE  Found /\ company.linked \in Users
BY DEF CompanyInv, CompanyTypeOK, Connection, EnabledIsReady, IdentityMatches, Found

(* Steps of ceremonies that leave the connection, the accounts and their   *)
(* sessions alone.                                                         *)
LEMMA WaitingStep ==
  ASSUME CompanyInv, UNCHANGED <<users, sessions, company, minted>>, TypedCalls, TypedCeremonies,
         Logins' \subseteq Logins
  PROVE  CompanyInv'
<1>1. CompanyTables' /\ CompanyTypeOK' /\ EnabledIsReady' /\ EvidenceIsCurrent' /\ LinkedIsFound'
  BY DEF CompanyInv, LinkedIsFound, Found, CompanyTables, CompanyTypeOK, EnabledIsReady, EvidenceIsCurrent, ReadyEvidence,
     IdentityMatches, Eligible, EnabledAdmin, Enabled, Exists, TypedCalls, TypedCeremonies
<1>2. CompanySessionsAreAuthorized'
  BY DEF CompanyInv, CompanySessionsAreAuthorized, CompanySessions, Open, StillAuthorized,
     EnabledAdmin, Enabled, Exists
<1>3. LoginsAreFenced' /\ LoginsAreCapped'
  BY FewerLogins DEF CompanyInv, LoginsAreFenced, SameEnabling
<1> QED BY <1>1, <1>2, <1>3 DEF CompanyInv, TypedCalls, TypedCeremonies

(* Steps on the draft: sign-in is off before and after.                    *)
LEMMA DraftStep ==
  ASSUME CompanyInv, ~company.enabled, ~company'.enabled, UNCHANGED <<users, minted>>,
         company' \in Connection, company'.linked = Nobody <=> company'.linkedAt = 0,
         EvidenceIsCurrent', LinkedIsFound', TypedCalls, ceremonies' \subseteq ceremonies,
         \A s \in Sessions : sessions'[s] \in {sessions[s], NoSession},
         sessions' \in [Sessions -> [user : Users, company : BOOLEAN, opened : Nat, generation : Nat]
                                 \cup {NoSession}]
  PROVE  CompanyInv'
<1>1. CompanySessions = {} /\ Logins = {}
  BY OffIsEmpty
<1>2. TypedCeremonies
  BY FS_Subset DEF CompanyInv, TypedCeremonies, CeremoniesHaveActors, CompanyTypeOK
<1>3. CompanyTables' /\ CompanyTypeOK' /\ EnabledIsReady'
  BY <1>2 DEF CompanyInv, CompanyTables, CompanyTypeOK, EnabledIsReady, TypedCalls, TypedCeremonies
<1>4. CompanySessionsAreAuthorized'
  BY <1>1 DEF CompanySessionsAreAuthorized, CompanySessions, Open
<1>5. Logins' = {}
  BY <1>1 DEF Logins
<1>6. LoginsAreFenced' /\ LoginsAreCapped'
  BY <1>1, <1>5, FewerLogins DEF CompanyInv, LoginsAreFenced
<1> QED BY <1>2, <1>3, <1>4, <1>6 DEF CompanyInv, TypedCalls, TypedCeremonies
-----------------------------------------------------------------------------
(* A call that enters, and a row that is opened.                           *)
Actor(c) ==
  /\ c.op # "start" => c.user \in Users
  /\ c.op \in {"testing", "tested", "start_link", "linking"} => c.session \in Sessions

LEMMA EntersTyped ==
  ASSUME CompanyInv, NEW op \in {"checked", "testing", "tested", "start_link", "linking", "start", "login"},
         NEW user \in Users \cup {Nobody}, NEW session \in Sessions \cup {NoSession},
         NEW revision \in 0..MaxRevision, NEW generation \in 0..MaxGeneration,
         op # "start" => user \in Users,
         op \in {"testing", "tested", "start_link", "linking"} => session \in Sessions,
         Enters([op |-> op, user |-> user, session |-> session, revision |-> revision,
                 generation |-> generation])
  PROVE  TypedCalls
<1> DEFINE new == [op |-> op, user |-> user, session |-> session, revision |-> revision,
                   generation |-> generation]
           revisions == 0..MaxRevision  generations == 0..MaxGeneration
<1>1. calls' = calls \cup {new}
  BY DEF Enters
<1>2. revision \in revisions /\ generation \in generations
  OBVIOUS
<1>3. Call = [op : {"checked", "testing", "tested", "start_link", "linking", "start", "login"},
         user : Users \cup {Nobody}, session : Sessions \cup {NoSession},
         revision : revisions, generation : generations]
  BY DEF Call
<1> HIDE DEF revisions, generations
<1>4. new \in Call /\ new.op = op /\ new.user = user /\ new.session = session
  BY <1>2, <1>3
<1> HIDE DEF new
<1> QED BY <1>1, <1>4 DEF CompanyInv, CompanyTypeOK, TypedCalls, CallsHaveActors

LEMMA LeavesTyped ==
  ASSUME CompanyInv, calls' \subseteq calls
  PROVE  TypedCalls
BY DEF CompanyInv, CompanyTypeOK, TypedCalls, CallsHaveActors

LEMMA FewerCeremonies ==
  ASSUME CompanyInv, ceremonies' \subseteq ceremonies
  PROVE  TypedCeremonies /\ Logins' \subseteq Logins
BY FS_Subset DEF CompanyInv, CompanyTypeOK, TypedCeremonies, CeremoniesHaveActors, Logins

LEMMA OpensTyped ==
  ASSUME CompanyInv, NEW flow \in {"test", "link", "login"},
         NEW user \in Users \cup {Nobody}, NEW session \in Sessions \cup {NoSession},
         NEW token \in Tokens \cup {NoToken},
         NEW revision \in 0..MaxRevision, NEW generation \in 0..MaxGeneration,
         flow # "login" => user \in Users /\ session \in Sessions,
         NEW old, old \subseteq ceremonies,
         ceremonies' = old \cup {[flow |-> flow, user |-> user, session |-> session, token |-> token,
                                  revision |-> revision, generation |-> generation]}
  PROVE  TypedCeremonies /\ (flow # "login" => Logins' \subseteq Logins)
<1> DEFINE new == [flow |-> flow, user |-> user, session |-> session, token |-> token,
                   revision |-> revision, generation |-> generation]
           revisions == 0..MaxRevision  generations == 0..MaxGeneration
<1>1. ceremonies' = old \cup {new}
  OBVIOUS
<1>2. revision \in revisions /\ generation \in generations
  OBVIOUS
<1>3. Ceremony = [flow : {"test", "link", "login"}, user : Users \cup {Nobody},
             session : Sessions \cup {NoSession}, token : Tokens \cup {NoToken},
             revision : revisions, generation : generations]
  BY DEF Ceremony
<1> HIDE DEF revisions, generations
<1>4. new \in Ceremony /\ new.flow = flow /\ new.user = user /\ new.session = session
  BY <1>2, <1>3
<1> HIDE DEF new
<1>5. IsFiniteSet(ceremonies')
  BY <1>1, FS_Subset, FS_AddElement DEF CompanyInv
<1> QED
  BY <1>1, <1>4, <1>5
  DEF CompanyInv, CompanyTypeOK, TypedCeremonies, CeremoniesHaveActors, Logins

LEMMA Revisions ==
  ASSUME CompanyInv
  PROVE  /\ company.revision \in 0..MaxRevision /\ company.generation \in 0..MaxGeneration
         /\ 0 \in 0..MaxGeneration /\ 0 \in 0..MaxRevision
         /\ company.generation \in Nat /\ company.revision \in Nat
         /\ \A c \in calls : /\ c.revision \in 0..MaxRevision /\ c.generation \in 0..MaxGeneration
                             /\ c.user \in Users \cup {Nobody} /\ c.session \in Sessions \cup {NoSession}
         /\ \A x \in ceremonies :
              /\ x.revision \in 0..MaxRevision /\ x.generation \in 0..MaxGeneration
              /\ x.user \in Users \cup {Nobody} /\ x.session \in Sessions \cup {NoSession}
<1> DEFINE revisions == 0..MaxRevision  generations == 0..MaxGeneration
<1>1. /\ company \in [revision : revisions, enabled : BOOLEAN, generation : generations,
               linked : Users \cup {Nobody}, linkedAt : revisions,
               check : revisions, evidence : revisions]
      /\ calls \subseteq [op : {"checked", "testing", "tested", "start_link", "linking", "start", "login"},
         user : Users \cup {Nobody}, session : Sessions \cup {NoSession},
         revision : revisions, generation : generations]
      /\ ceremonies \subseteq [flow : {"test", "link", "login"}, user : Users \cup {Nobody},
             session : Sessions \cup {NoSession}, token : Tokens \cup {NoToken},
             revision : revisions, generation : generations]
  BY DEF CompanyInv, CompanyTypeOK, Connection, Call, Ceremony
<1>2. /\ 0 \in revisions /\ 0 \in generations
      /\ \A n \in revisions \cup generations : n \in Nat
  BY CompanyAssumption
<1> HIDE DEF revisions, generations
<1>3. /\ company.revision \in revisions /\ company.generation \in generations
      /\ \A c \in calls : /\ c.revision \in revisions /\ c.generation \in generations
                          /\ c.user \in Users \cup {Nobody} /\ c.session \in Sessions \cup {NoSession}
      /\ \A x \in ceremonies :
            /\ x.revision \in revisions /\ x.generation \in generations
            /\ x.user \in Users \cup {Nobody} /\ x.session \in Sessions \cup {NoSession}
  BY <1>1
<1> QED BY <1>2, <1>3 DEF revisions, generations

(* Requests that only start, and rows that come and go.                    *)
LEMMA BeginStep ==
  ASSUME CompanyInv, NEW u \in Users, NEW s \in Sessions,
         BeginCheck(Form(u, s)) \/ StartTest(Form(u, s)) \/ StartLink(Form(u, s)) \/ StartLogin
  PROVE  CompanyInv'
<1>1. UNCHANGED <<users, sessions, company, minted, ceremonies>>
  BY DEF BeginCheck, StartTest, StartLink, StartLogin, vars
<1>2. TypedCalls
  <2>1. CASE BeginCheck(Form(u, s))
    <3>0. PICK form, new :
            /\ form = [op |-> "form", user |-> u, session |-> s, revision |-> company.revision,
                       generation |-> 0]
            /\ new = [form EXCEPT !.op = "checked", !.session = NoSession]
            /\ Enters(new)
      BY <2>1 DEF BeginCheck, Form
    <3>1. new = [op |-> "checked", user |-> u, session |-> NoSession,
                 revision |-> company.revision, generation |-> 0]
      BY <3>0
    <3>2. Enters([op |-> "checked", user |-> u, session |-> NoSession,
                  revision |-> company.revision, generation |-> 0])
      BY <3>0, <3>1
    <3> QED BY <3>2, Revisions, EntersTyped
  <2>2. CASE StartTest(Form(u, s))
    <3>1. Enters([op |-> "testing", user |-> u, session |-> s,
                  revision |-> company.revision, generation |-> 0])
      BY <2>2 DEF StartTest, Form
    <3> QED BY <3>1, Revisions, EntersTyped
  <2>3. CASE StartLink(Form(u, s))
    <3>1. Enters([op |-> "start_link", user |-> u, session |-> s,
                  revision |-> company.revision, generation |-> 0])
      BY <2>3 DEF StartLink, Form
    <3> QED BY <3>1, Revisions, EntersTyped
  <2>4. CASE StartLogin
    <3>1. Enters([op |-> "start", user |-> Nobody, session |-> NoSession,
                  revision |-> company.revision, generation |-> company.generation])
      BY <2>4 DEF StartLogin
    <3> QED BY <3>1, Revisions, EntersTyped
  <2> QED BY <2>1, <2>2, <2>3, <2>4
<1> QED BY <1>1, <1>2, FewerCeremonies, WaitingStep

LEMMA ConsumeStep ==
  ASSUME CompanyInv,
         (\E c \in calls : Abandon(c)) \/ (\E x \in ceremonies : Consume(x))
  PROVE  CompanyInv'
<1>1. /\ UNCHANGED <<users, sessions, company, minted>>
      /\ calls' \subseteq calls /\ ceremonies' \subseteq ceremonies
  BY DEF Abandon, Consume, Leaves, vars, accountVars
<1> QED BY <1>1, LeavesTyped, FewerCeremonies, WaitingStep

LEMMA ClaimStep ==
  ASSUME CompanyInv, NEW x \in ceremonies, ClaimTest(x) \/ ClaimLink(x) \/ ClaimLogin(x)
  PROVE  CompanyInv'
<1>1. PICK op \in {"tested", "linking", "login"}, user \in Users :
        /\ Claim(x, op, user)
        /\ op # "login" => x.session \in Sessions
  <2>1. CASE ClaimTest(x)
    BY <2>1 DEF ClaimTest, CompanyInv, CeremoniesHaveActors
  <2>2. CASE ClaimLink(x)
    BY <2>2 DEF ClaimLink, CompanyInv, CeremoniesHaveActors
  <2>3. CASE ClaimLogin(x)
    <3>1. company.linked \in Users
      BY <2>3, EnabledIsFound DEF ClaimLogin, SameEnabling
    <3> QED BY <2>3, <3>1 DEF ClaimLogin
  <2> QED BY <2>1, <2>2, <2>3
<1>2. /\ UNCHANGED <<users, sessions, company, minted>> /\ ceremonies' \subseteq ceremonies
      /\ Enters([op |-> op, user |-> user, session |-> x.session,
                 revision |-> x.revision, generation |-> x.generation])
  BY <1>1 DEF Claim, accountVars
<1>3. TypedCalls
  BY <1>1, <1>2, Revisions, EntersTyped
<1> QED BY <1>2, <1>3, FewerCeremonies, WaitingStep

LEMMA PrepareStep ==
  ASSUME CompanyInv, NEW c \in calls, PrepareTest(c) \/ PrepareLink(c)
  PROVE  CompanyInv'
<1>1. /\ UNCHANGED <<users, sessions, company, minted>> /\ calls' \subseteq calls
      /\ c.user \in Users /\ c.session \in Sessions
  BY DEF PrepareTest, PrepareLink, Leaves, accountVars, CompanyInv, CallsHaveActors
<1>2. PICK flow \in {"test", "link"} : Opens(c, flow)
  BY DEF PrepareTest, PrepareLink
<1>3. PICK generation \in 0..MaxGeneration :
        ceremonies' = {x \in ceremonies : ~(x.flow = flow /\ x.session = c.session)}
                        \cup {[flow |-> flow, user |-> c.user, session |-> c.session,
                               token |-> NoToken, revision |-> company.revision,
                               generation |-> generation]}
  BY <1>2, Revisions DEF Opens
<1>4. TypedCeremonies /\ Logins' \subseteq Logins
  <2> DEFINE old == {x \in ceremonies : ~(x.flow = flow /\ x.session = c.session)}
  <2>1. old \subseteq ceremonies
    OBVIOUS
  <2>2. ceremonies' = old \cup {[flow |-> flow, user |-> c.user, session |-> c.session,
                               token |-> NoToken, revision |-> company.revision,
                               generation |-> generation]}
    BY <1>3
  <2> HIDE DEF old
  <2> QED BY <1>1, <2>1, <2>2, Revisions, OpensTyped
<1> QED BY <1>1, <1>4, LeavesTyped, WaitingStep

(* A login that is started waits for the enabling in force, and is one of  *)
(* those that are counted.                                                 *)
LEMMA PrepareLoginStep ==
  ASSUME CompanyInv, NEW c \in calls, NEW token \in Tokens, PrepareLogin(c, token)
  PROVE  CompanyInv'
<1> DEFINE new == [flow |-> "login", user |-> Nobody, session |-> NoSession, token |-> token,
                   revision |-> company.revision, generation |-> company.generation]
<1>1. /\ UNCHANGED <<users, sessions, company, minted>> /\ calls' \subseteq calls
      /\ ceremonies' = ceremonies \cup {new} /\ company.enabled
  BY DEF PrepareLogin, Leaves, accountVars, SameEnabling
<1>2. TypedCalls /\ TypedCeremonies
  BY <1>1, LeavesTyped, Revisions, OpensTyped
<1>3. CompanyTables' /\ CompanyTypeOK' /\ EnabledIsReady' /\ EvidenceIsCurrent' /\ LinkedIsFound'
  BY <1>1, <1>2
  DEF CompanyInv, LinkedIsFound, Found, CompanyTables, CompanyTypeOK, EnabledIsReady, EvidenceIsCurrent, ReadyEvidence,
     IdentityMatches, Eligible, EnabledAdmin, Enabled, Exists, TypedCalls, TypedCeremonies
<1>4. CompanySessionsAreAuthorized'
  BY <1>1 DEF CompanyInv, CompanySessionsAreAuthorized, CompanySessions, Open, StillAuthorized,
     EnabledAdmin, Enabled, Exists
<1>5. Logins' = Logins \cup {new} /\ new.revision = company.revision
      /\ new.generation = company.generation
  BY <1>1 DEF Logins
<1> HIDE DEF new
<1>6. LoginsAreFenced'
  BY <1>1, <1>5 DEF CompanyInv, LoginsAreFenced, SameEnabling
<1>7. LoginsAreCapped'
  <2>1. IsFiniteSet(Logins) /\ Cardinality(Logins) \in Nat
    BY FS_Subset, FS_CardinalityType DEF Logins, CompanyInv
  <2>2. Cardinality(Logins \cup {new}) \in {Cardinality(Logins), Cardinality(Logins) + 1}
    BY <2>1, FS_AddElement
  <2>3. Cardinality(Logins) < MaxLogins /\ MaxLogins \in Nat
    BY CompanyAssumption DEF PrepareLogin, HasCapacity
  <2>4. Cardinality(Logins)' = Cardinality(Logins \cup {new})
    BY <1>5
  <2> QED BY <2>1, <2>2, <2>3, <2>4 DEF LoginsAreCapped
<1> QED BY <1>2, <1>3, <1>4, <1>6, <1>7 DEF CompanyInv, TypedCalls, TypedCeremonies

-----------------------------------------------------------------------------
(* The connection, field by field.                                         *)
LEMMA Fields ==
  ASSUME CompanyInv
  PROVE  /\ company \in Connection /\ company.revision \in Nat /\ company.generation \in Nat
         /\ company.linked \in Users \cup {Nobody}
         /\ company.linked = Nobody <=> company.linkedAt = 0
         /\ \A revision \in 0..MaxRevision, check \in 0..MaxRevision,
               evidence \in 0..MaxRevision, generation \in 0..MaxGeneration,
               enabled \in BOOLEAN, linked \in Users \cup {Nobody}, linkedAt \in 0..MaxRevision :
                 [revision |-> revision, enabled |-> enabled, generation |-> generation,
                  linked |-> linked, linkedAt |-> linkedAt, check |-> check,
                  evidence |-> evidence] \in Connection
BY CompanyAssumption DEF CompanyInv, CompanyTypeOK, Connection

LEMMA GenerationGrows ==
  ASSUME CompanyInv, company'.generation = company.generation + 1, WithinBounds
  PROVE  company.generation + 1 \in 0..MaxGeneration
BY Fields, CompanyAssumption DEF WithinBounds

LEMMA SessionTables ==
  ASSUME CompanyInv, NEW gone
  PROVE  /\ sessions \in [Sessions -> [user : Users, company : BOOLEAN, opened : Nat, generation : Nat]
                                        \cup {NoSession}]
         /\ Ended(gone) \in [Sessions -> [user : Users, company : BOOLEAN, opened : Nat, generation : Nat]
                                        \cup {NoSession}]
         /\ EndedCompany(gone) \in [Sessions -> [user : Users, company : BOOLEAN, opened : Nat, generation : Nat]
                                        \cup {NoSession}]
         /\ \A s \in Sessions : /\ Ended(gone)[s] \in {sessions[s], NoSession}
                                /\ EndedCompany(gone)[s] \in {sessions[s], NoSession}
                                /\ s \in gone => Ended(gone)[s] = NoSession
BY DEF CompanyInv, CompanyTables, Ended, EndedCompany

LEMMA CreateConnectionStep ==
  ASSUME CompanyInv, NEW u \in Users, NEW s \in Sessions, Create(Form(u, s)), WithinBounds
  PROVE  CompanyInv' /\ UNCHANGED company.linked
<1>1. /\ company' = [revision |-> 1, enabled |-> FALSE, generation |-> 1, linked |-> Nobody,
                     linkedAt |-> 0, check |-> 0, evidence |-> 0]
      /\ UNCHANGED <<users, sessions, ceremonies, calls, minted>> /\ company.revision = 0
  BY DEF Create, NoConnection, accountVars, Found
<1>2. ~company.enabled
  BY <1>1, EnabledIsFound DEF Found
<1>3. 1 \in 0..MaxRevision /\ 0 \in 0..MaxRevision /\ 1 \in 0..MaxGeneration
  BY <1>1, CompanyAssumption DEF WithinBounds
<1>4. /\ company' \in Connection /\ company'.linked = Nobody /\ company'.linkedAt = 0
      /\ ~company'.enabled /\ company'.check = 0 /\ company'.evidence = 0
  BY <1>1, <1>3, Fields
<1>5. company.linked = Nobody
  BY <1>1 DEF CompanyInv, LinkedIsFound, Found
<1>6. TypedCalls /\ ceremonies' \subseteq ceremonies
  BY <1>1, LeavesTyped
<1>7. EvidenceIsCurrent' /\ LinkedIsFound'
  BY <1>4 DEF EvidenceIsCurrent, LinkedIsFound
<1> QED
  BY <1>1, <1>2, <1>4, <1>5, <1>6, <1>7, SessionTables, DraftStep

(* An edit moves the revision on, and with it leaves all evidence behind.  *)
LEMMA EditDraftStep ==
  ASSUME CompanyInv, NEW u \in Users, NEW s \in Sessions, Edit(Form(u, s)), WithinBounds
  PROVE  CompanyInv' /\ UNCHANGED company.linked
<1>1. /\ UNCHANGED <<users, sessions, ceremonies, calls, minted>> /\ ~company.enabled
      /\ company' = [company EXCEPT !.revision = company.revision + 1,
                       !.generation = company.generation + 1, !.check = 0, !.evidence = 0]
  BY DEF Edit, Edited, accountVars, SameDraft
<1>2. company.revision + 1 \in 0..MaxRevision /\ company.generation + 1 \in 0..MaxGeneration
  <2>1. company'.revision = company.revision + 1 /\ company'.generation = company.generation + 1
    BY <1>1, Fields DEF Connection
  <2> QED BY <2>1, Fields, CompanyAssumption DEF Edit, WithinBounds
<1>3. /\ company' \in Connection /\ company'.linked = company.linked
      /\ company'.linkedAt = company.linkedAt /\ company'.revision = company.revision + 1
      /\ ~company'.enabled /\ company'.check = 0 /\ company'.evidence = 0
  BY <1>1, <1>2, Fields, Revisions DEF Connection
<1>4. TypedCalls /\ ceremonies' \subseteq ceremonies
  BY <1>1, LeavesTyped
<1>5. EvidenceIsCurrent' /\ LinkedIsFound'
  BY <1>3, Fields DEF EvidenceIsCurrent, LinkedIsFound, Found
<1> QED BY <1>1, <1>3, <1>4, <1>5, Fields, SessionTables, DraftStep

(* What was asked of the provider is recorded for the draft it was asked   *)
(* about, or not at all.                                                   *)
LEMMA EvidenceStep ==
  ASSUME CompanyInv, NEW c \in calls, NEW verified \in BOOLEAN,
         Check(c, verified) \/ CompleteTest(c, verified)
  PROVE  CompanyInv' /\ UNCHANGED company.linked
<1>1. /\ UNCHANGED <<users, sessions, ceremonies, minted>> /\ calls' \subseteq calls
      /\ ~company.enabled /\ c.revision = company.revision /\ c.revision \in 0..MaxRevision
  BY Revisions
  DEF Check, CompleteTest, CheckFits, TestFits, TestReady, SameDraft, accountVars, Leaves
<1>2. PICK value \in {0, company.revision, company.evidence} :
        \/ value # company.evidence /\ company' = [company EXCEPT !.check = value]
        \/ company' = [company EXCEPT !.evidence = value]
        \/ value \in {0, company.revision} /\ company' = [company EXCEPT !.check = value]
  BY <1>1 DEF Check, CompleteTest
<1>3. value \in 0..MaxRevision /\ value \in {0, company.revision}
  BY <1>2, Fields, Revisions DEF CompanyInv, EvidenceIsCurrent
<1>4. /\ company' \in Connection /\ company'.linked = company.linked
      /\ company'.linkedAt = company.linkedAt /\ company'.revision = company.revision
      /\ ~company'.enabled
      /\ company'.check \in {company.check, value} /\ company'.evidence \in {company.evidence, value}
  BY <1>1, <1>2, <1>3, Fields DEF Connection
<1>5. TypedCalls /\ ceremonies' \subseteq ceremonies
  BY <1>1, LeavesTyped
<1>6. EvidenceIsCurrent' /\ LinkedIsFound'
  BY <1>3, <1>4 DEF CompanyInv, EvidenceIsCurrent, LinkedIsFound, Found
<1> QED BY <1>1, <1>4, <1>5, <1>6, Fields, SessionTables, DraftStep

(* An identity is linked by the administrator who acts in their session,   *)
(* on the evidence that is there.                                          *)
LEMMA CommitLinkStep ==
  ASSUME CompanyInv, NEW c \in calls, CommitLink(c), WithinBounds
  PROVE  /\ CompanyInv' /\ ~company'.enabled /\ company'.generation > company.generation
         /\ ReadyEvidence /\ Eligible(company'.linked) /\ SessionsOf(company'.linked) # {}
<1>1. /\ UNCHANGED <<users, sessions, minted>> /\ calls' \subseteq calls
      /\ ceremonies' \subseteq ceremonies /\ ~company.enabled /\ Found /\ ReadyEvidence
      /\ c.user \in Users /\ c.session \in Sessions /\ company.linked = Nobody
      /\ company' = [company EXCEPT !.linked = c.user, !.linkedAt = company.revision,
                                    !.generation = company.generation + 1]
  BY DEF CommitLink, LinkFits, LinkReady, SameDraft, Leaves, accountVars, CompanyInv,
         CallsHaveActors
<1>2. company.generation + 1 \in 0..MaxGeneration
  <2>1. company'.generation = company.generation + 1
    BY <1>1, Fields DEF Connection
  <2> QED BY <2>1, GenerationGrows
<1>3. /\ company' \in Connection /\ company'.linked = c.user
      /\ company'.linkedAt = company.revision /\ company'.revision = company.revision
      /\ ~company'.enabled /\ company'.check = company.check
      /\ company'.evidence = company.evidence /\ company'.generation = company.generation + 1
  BY <1>1, <1>2, Fields, Revisions DEF Connection
<1>4. TypedCalls
  BY <1>1, LeavesTyped
<1>5. EvidenceIsCurrent' /\ LinkedIsFound'
  BY <1>1, <1>3 DEF CompanyInv, EvidenceIsCurrent, LinkedIsFound, Found
<1>6. company'.linked = Nobody <=> company'.linkedAt = 0
  BY <1>1, <1>3, NobodyAssumption DEF Found
<1>7. CompanyInv'
  BY <1>1, <1>3, <1>4, <1>5, <1>6, SessionTables, DraftStep
<1>8. Eligible(c.user) /\ SessionsOf(c.user) # {}
  BY <1>1 DEF CommitLink, ActsIn, CurrentSession, Eligible, SessionsOf
<1> QED BY <1>1, <1>3, <1>7, <1>8, Fields

LEMMA UnlinkStep ==
  ASSUME CompanyInv, NEW u \in Users, NEW s \in Sessions, Unlink(Form(u, s)), WithinBounds
  PROVE  /\ CompanyInv' /\ ~company'.enabled /\ company'.generation > company.generation
         /\ company.linked # Nobody
<1>1. /\ UNCHANGED <<users, calls, minted>> /\ ceremonies' \subseteq ceremonies /\ ~company.enabled
      /\ sessions' = EndedCompany(SessionsOf(u)) /\ company.linked = u
      /\ company' = [[company EXCEPT !.linked = Nobody, !.linkedAt = 0]
                        EXCEPT !.generation = company.generation + 1]
  BY DEF Unlink, Unlinked, SameDraft, accountVars, Form
<1>2. company.generation + 1 \in 0..MaxGeneration
  <2>1. company'.generation = company.generation + 1
    BY <1>1, Fields DEF Connection
  <2> QED BY <2>1, GenerationGrows
<1>3. /\ company' \in Connection /\ company'.linked = Nobody
      /\ company'.linkedAt = 0 /\ company'.revision = company.revision
      /\ ~company'.enabled /\ company'.check = company.check
      /\ company'.evidence = company.evidence /\ company'.generation = company.generation + 1
  BY <1>1, <1>2, Fields, Revisions DEF Connection
<1>4. TypedCalls
  BY <1>1, LeavesTyped
<1>5. EvidenceIsCurrent' /\ LinkedIsFound'
  BY <1>1, <1>3 DEF CompanyInv, EvidenceIsCurrent, LinkedIsFound
<1>6. CompanyInv'
  BY <1>1, <1>3, <1>4, <1>5, SessionTables, DraftStep
<1> QED BY <1>1, <1>3, <1>6, Fields, NobodyAssumption
-----------------------------------------------------------------------------
(* Sign-in is switched on with nothing waiting from before, and off with   *)
(* nothing left behind.                                                    *)
LEMMA EnableStep ==
  ASSUME CompanyInv, NEW u \in Users, NEW s \in Sessions, Enable(Form(u, s)), WithinBounds
  PROVE  CompanyInv' /\ UNCHANGED company.linked
<1>1. /\ UNCHANGED <<users, sessions, ceremonies, calls, minted>> /\ ~company.enabled
      /\ ReadyEvidence /\ IdentityMatches /\ Eligible(company.linked)
      /\ company' = [company EXCEPT !.enabled = TRUE, !.generation = company.generation + 1]
  BY DEF Enable, SameDraft, accountVars
<1>2. company.generation + 1 \in 0..MaxGeneration
  <2>1. company'.generation = company.generation + 1
    BY <1>1, Fields DEF Connection
  <2> QED BY <2>1, GenerationGrows
<1>3. /\ company' \in Connection /\ company'.linked = company.linked
      /\ company'.linkedAt = company.linkedAt /\ company'.revision = company.revision
      /\ company'.check = company.check /\ company'.evidence = company.evidence
  BY <1>1, <1>2, Fields DEF Connection
<1>4. CompanySessions = {} /\ Logins = {}
  BY <1>1, OffIsEmpty
<1>5. Logins' = {} /\ CompanySessions' = {}
  BY <1>1, <1>4 DEF Logins, CompanySessions, Open
<1>6. TypedCalls /\ TypedCeremonies /\ LoginsAreCapped'
  BY <1>1, <1>4, <1>5, LeavesTyped, FewerCeremonies, FewerLogins DEF CompanyInv
<1>7. CompanyTables' /\ CompanyTypeOK' /\ EnabledIsReady' /\ EvidenceIsCurrent' /\ LinkedIsFound'
  BY <1>1, <1>3, <1>6, Fields
  DEF CompanyInv, LinkedIsFound, Found, CompanyTables, CompanyTypeOK, EnabledIsReady, EvidenceIsCurrent,
      ReadyEvidence, IdentityMatches, Eligible, EnabledAdmin, Enabled, Exists, TypedCalls,
      TypedCeremonies
<1>8. CompanySessionsAreAuthorized' /\ LoginsAreFenced'
  BY <1>5 DEF CompanySessionsAreAuthorized, LoginsAreFenced
<1> QED BY <1>3, <1>6, <1>7, <1>8 DEF CompanyInv, TypedCalls, TypedCeremonies

LEMMA NoneLeft ==
  ASSUME NEW gone, CompanySessions \subseteq gone
  PROVE  \A s \in Sessions : Ended(gone)[s] # NoSession => ~Ended(gone)[s].company
BY DEF Ended, CompanySessions, Open

(* Whoever switches it off, ends its sessions and its logins.              *)
LEMMA SwitchedOff ==
  ASSUME CompanyInv, TypedCalls, ceremonies' \subseteq ceremonies,
         \A x \in ceremonies' : x.flow # "login",
         CompanyTables', \A s \in Sessions : Open(s)' => ~sessions'[s].company,
         company' \in Connection, ~company'.enabled, company'.revision = company.revision,
         company'.check = company.check, company'.evidence = company.evidence,
         \/ /\ company'.linked = company.linked /\ company'.linkedAt = company.linkedAt
         \/ company'.linked = Nobody /\ company'.linkedAt = 0
  PROVE  CompanyInv'
<1>1. TypedCeremonies /\ LoginsAreCapped'
  BY FewerCeremonies, FewerLogins DEF CompanyInv
<1>2. Logins' = {} /\ CompanySessions' = {}
  BY DEF Logins, CompanySessions
<1>3. CompanyTypeOK' /\ EnabledIsReady' /\ EvidenceIsCurrent' /\ LinkedIsFound'
  BY <1>1, Fields
  DEF CompanyInv, LinkedIsFound, Found, CompanyTypeOK, EnabledIsReady, EvidenceIsCurrent, TypedCalls,
      TypedCeremonies
<1>4. CompanySessionsAreAuthorized' /\ LoginsAreFenced'
  BY <1>2 DEF CompanySessionsAreAuthorized, LoginsAreFenced
<1> QED BY <1>1, <1>3, <1>4 DEF CompanyInv, TypedCalls, TypedCeremonies

LEMMA DisableStep ==
  ASSUME CompanyInv, NEW u \in Users, NEW s \in Sessions, Disable(Form(u, s)), WithinBounds
  PROVE  CompanyInv' /\ UNCHANGED company.linked
<1>1. /\ UNCHANGED <<users, calls, minted>> /\ sessions' = Ended(CompanySessions)
      /\ ceremonies' = ceremonies \ Logins
      /\ company' = [company EXCEPT !.enabled = FALSE, !.generation = company.generation + 1]
  BY DEF Disable, WithoutLogins, accountVars
<1>2. company.generation + 1 \in 0..MaxGeneration
  <2>1. company'.generation = company.generation + 1
    BY <1>1, Fields DEF Connection
  <2> QED BY <2>1, GenerationGrows
<1>3. /\ company' \in Connection /\ company'.linked = company.linked
      /\ company'.linkedAt = company.linkedAt /\ company'.revision = company.revision
      /\ ~company'.enabled
      /\ company'.check = company.check /\ company'.evidence = company.evidence
  BY <1>1, <1>2, Fields DEF Connection
<1>4. CompanyTables' /\ \A t \in Sessions : Open(t)' => ~sessions'[t].company
  BY <1>1, SessionTables, NoneLeft DEF CompanyInv, CompanyTables, Open
<1>5. \A x \in ceremonies' : x.flow # "login"
  BY <1>1 DEF Logins
<1> QED BY <1>1, <1>3, <1>4, <1>5, LeavesTyped, SwitchedOff

(* A session is opened under the enabling its login was started under.     *)
LEMMA CreateSessionStep ==
  ASSUME CompanyInv, NEW c \in calls, NEW s \in Sessions, CreateSession(c, s)
  PROVE  CompanyInv' /\ UNCHANGED company.linked
<1> DEFINE new == [user |-> c.user, company |-> TRUE, opened |-> users[c.user].password,
                   generation |-> c.generation]
<1>1. /\ UNCHANGED <<users, company, ceremonies, minted>> /\ calls' \subseteq calls
      /\ sessions' = [sessions EXCEPT ![s] = new]
      /\ c.generation = company.generation /\ StillAuthorized(c.user) /\ c.user \in Users
  BY DEF CreateSession, SignsIn, SameEnabling, Leaves, accountVars, CompanyInv, CallsHaveActors
<1>2. new \in [user : Users, company : BOOLEAN, opened : Nat, generation : Nat]
  BY <1>1, Fields DEF CompanyInv, CompanyTables
<1>3. new.user = c.user /\ new.generation = company.generation
  BY <1>1
<1> HIDE DEF new
<1>4. CompanyTables'
  BY <1>1, <1>2 DEF CompanyInv, CompanyTables
<1>5. TypedCalls /\ TypedCeremonies /\ Logins' \subseteq Logins
  BY <1>1, LeavesTyped, FewerCeremonies
<1>6. CompanyTypeOK' /\ EnabledIsReady' /\ EvidenceIsCurrent' /\ LinkedIsFound'
  BY <1>1, <1>5
  DEF CompanyInv, LinkedIsFound, Found, CompanyTypeOK, EnabledIsReady, EvidenceIsCurrent,
      ReadyEvidence, IdentityMatches, Eligible, EnabledAdmin, Enabled, Exists, TypedCalls,
      TypedCeremonies
<1>7. CompanySessionsAreAuthorized'
  <2> SUFFICES ASSUME NEW t \in Sessions, Open(t)', sessions'[t].company
               PROVE  /\ StillAuthorized(sessions[t].user)'
                      /\ sessions'[t].generation = company'.generation
    BY DEF CompanySessionsAreAuthorized, CompanySessions
  <2>1. StillAuthorized(sessions[t].user)' <=> StillAuthorized(sessions'[t].user)
    BY <1>1 DEF StillAuthorized, EnabledAdmin, Enabled, Exists
  <2>2. CASE t = s
    BY <1>1, <1>3, <2>1, <2>2 DEF CompanyInv, CompanyTables
  <2>3. CASE t # s
    BY <1>1, <2>1, <2>3
    DEF CompanyInv, CompanyTables, CompanySessionsAreAuthorized, CompanySessions, Open
  <2> QED BY <2>2, <2>3
<1>8. LoginsAreFenced' /\ LoginsAreCapped'
  BY <1>1, <1>5, FewerLogins DEF CompanyInv, LoginsAreFenced, SameEnabling
<1> QED BY <1>1, <1>4, <1>5, <1>6, <1>7, <1>8 DEF CompanyInv, TypedCalls, TypedCeremonies

-----------------------------------------------------------------------------
(* Accounts change: the linked administrator keeps what sign-in rests on,  *)
(* or sign-in goes off with its sessions and its logins.                   *)
LEMMA AccountKeepsCompany ==
  ASSUME CompanyInv, UNCHANGED <<company, ceremonies, calls>>, CompanyTables',
         \A s \in Sessions : Open(s)' /\ sessions'[s].company => sessions'[s] = sessions[s],
         Eligible(company.linked) /\ company.linked \in Users => Eligible(company.linked)'
  PROVE  CompanyInv'
<1>1. TypedCalls /\ TypedCeremonies /\ Logins' \subseteq Logins
  BY LeavesTyped, FewerCeremonies
<1>2. CompanyTypeOK' /\ EnabledIsReady' /\ EvidenceIsCurrent' /\ LinkedIsFound'
  BY <1>1, EnabledIsFound
  DEF CompanyInv, LinkedIsFound, Found, CompanyTypeOK, EnabledIsReady, EvidenceIsCurrent,
      ReadyEvidence, IdentityMatches, TypedCalls, TypedCeremonies
<1>3. CompanySessionsAreAuthorized'
  <2> SUFFICES ASSUME NEW t \in Sessions, Open(t)', sessions'[t].company
               PROVE  /\ StillAuthorized(sessions[t].user)'
                      /\ sessions'[t].generation = company'.generation
    BY DEF CompanySessionsAreAuthorized, CompanySessions
  <2>1. sessions'[t] = sessions[t] /\ t \in CompanySessions
    BY DEF CompanySessions, Open
  <2>2. /\ StillAuthorized(sessions[t].user) /\ sessions[t].generation = company.generation
        /\ company.enabled /\ company.linked = sessions[t].user
    BY <2>1 DEF CompanyInv, CompanySessionsAreAuthorized, StillAuthorized
  <2>3. Eligible(company.linked)'
    BY <1>2, <2>2 DEF EnabledIsReady
  <2> QED BY <2>1, <2>2, <2>3 DEF StillAuthorized, Eligible, EnabledAdmin, Enabled, Exists
<1>4. LoginsAreFenced' /\ LoginsAreCapped'
  BY <1>1, FewerLogins DEF CompanyInv, LoginsAreFenced, SameEnabling
<1> QED BY <1>1, <1>2, <1>3, <1>4 DEF CompanyInv, TypedCalls, TypedCeremonies

LEMMA SecuredStep ==
  ASSUME CompanyInv, NEW u \in Users, company.linked = u, WithinBounds, UNCHANGED calls,
         CompanyTables', ceremonies' = SecuredCeremonies(u),
         company' = SecuredCompany(u) \/ company' = Unlinked(SecuredCompany(u)),
         NEW gone, CompanySessions \subseteq gone, sessions' = Ended(gone)
  PROVE  /\ CompanyInv' /\ ~company'.enabled /\ company'.generation > company.generation
<1>0. SecuredCompany(u) = [company EXCEPT !.enabled = FALSE, !.generation = company.generation + 1]
  BY DEF SecuredCompany
<1>1. company.generation + 1 \in 0..MaxGeneration
  <2>1. company'.generation = company.generation + 1
    BY <1>0, Fields DEF Connection, Unlinked
  <2> QED BY <2>1, GenerationGrows
<1>2. /\ company' \in Connection /\ company'.revision = company.revision
      /\ ~company'.enabled /\ company'.generation = company.generation + 1
      /\ company'.check = company.check /\ company'.evidence = company.evidence
      /\ \/ /\ company'.linked = company.linked /\ company'.linkedAt = company.linkedAt
         \/ company'.linked = Nobody /\ company'.linkedAt = 0
  <2> DEFINE secured == SecuredCompany(u)
  <2>1. /\ secured \in Connection /\ secured.revision = company.revision
        /\ ~secured.enabled /\ secured.generation = company.generation + 1
        /\ secured.check = company.check /\ secured.evidence = company.evidence
        /\ secured.linked = company.linked /\ secured.linkedAt = company.linkedAt
    BY <1>0, <1>1, Fields DEF Connection
  <2> HIDE DEF secured
  <2>2. company' = secured \/ company' = [secured EXCEPT !.linked = Nobody, !.linkedAt = 0]
    BY DEF secured, Unlinked
  <2> QED BY <2>1, <2>2, Revisions DEF Connection
<1>3. \A s \in Sessions : Open(s)' => ~sessions'[s].company
  BY NoneLeft DEF Open
<1>4. ceremonies' \subseteq ceremonies /\ \A x \in ceremonies' : x.flow # "login"
  BY DEF SecuredCeremonies
<1>5. CompanyInv'
  BY <1>2, <1>3, <1>4, LeavesTyped, SwitchedOff
<1> QED BY <1>2, <1>5, Fields

UserRow == [password : Nat, enabled : BOOLEAN, admin : BOOLEAN, forced : BOOLEAN]
SessionRow == [user : Users, company : BOOLEAN, opened : Nat, generation : Nat]

LEMMA Tables ==
  ASSUME CompanyInv
  PROVE  /\ users \in [Users -> UserRow] /\ sessions \in [Sessions -> SessionRow \cup {NoSession}]
         /\ minted \in Nat /\ Fresh \in Nat /\ Fresh # 0
BY DEF CompanyInv, CompanyTables, UserRow, SessionRow, Fresh

LEMMA TablesStay ==
  ASSUME users' \in [Users -> UserRow], sessions' \in [Sessions -> SessionRow \cup {NoSession}],
         minted' \in Nat
  PROVE  CompanyTables'
BY DEF CompanyTables, UserRow, SessionRow

(* Steps on sessions and passwords of one's own.                           *)
LEMMA OwnStep ==
  ASSUME CompanyInv, NEW r \in OwnRequest, NEW s \in Sessions,
         FinishLogin(r, s) \/ ChangePassword(r, s), UNCHANGED calls
  PROVE  CompanyInv' /\ UNCHANGED company
<1>1. /\ UNCHANGED <<company, ceremonies>> /\ r.user \in Users /\ r.proof \in Nat
      /\ users[r.user] \in UserRow /\ minted \in Nat
  BY Tables DEF FinishLogin, ChangePassword, OwnRequest
<1>2. CASE FinishLogin(r, s)
  <2> DEFINE new == OpenedFor(r.user, r.proof)
  <2>1. new \in SessionRow /\ ~new.company
    BY <1>1 DEF OpenedFor, SessionRow
  <2> HIDE DEF new
  <2>2. sessions' = [sessions EXCEPT ![s] = new] /\ UNCHANGED <<users, minted>>
    BY <1>2 DEF FinishLogin, new
  <2>3. CompanyTables' /\ \A t \in Sessions : Open(t)' /\ sessions'[t].company => sessions'[t] = sessions[t]
    BY <2>1, <2>2, Tables, TablesStay
  <2>4. Eligible(company.linked) => Eligible(company.linked)'
    BY <1>1, <2>2 DEF Eligible, EnabledAdmin, Enabled, Exists
  <2> QED BY <1>1, <2>3, <2>4, AccountKeepsCompany
<1>3. CASE ChangePassword(r, s)
  <2> DEFINE new == OpenedFor(r.user, Fresh)
             row == [users[r.user] EXCEPT !.password = Fresh, !.forced = FALSE]
  <2>1. new \in SessionRow /\ ~new.company
    BY <1>1, Tables DEF OpenedFor, SessionRow
  <2>2. /\ row \in UserRow /\ row.password # 0 /\ ~row.forced
        /\ row.enabled = users[r.user].enabled /\ row.admin = users[r.user].admin
    BY <1>1, Tables DEF UserRow
  <2> HIDE DEF new
  <2>3. /\ sessions' = [Ended(SessionsOf(r.user)) EXCEPT ![s] = new]
        /\ users' = [users EXCEPT ![r.user] = row] /\ minted' = Fresh
    BY <1>3 DEF ChangePassword, new, Mint
  <2> HIDE DEF row
  <2>4. \A t \in Sessions : Ended(SessionsOf(r.user))[t] \in {sessions[t], NoSession}
    BY SessionTables
  <2>5. /\ Ended(SessionsOf(r.user)) \in [Sessions -> SessionRow \cup {NoSession}]
    BY SessionTables DEF SessionRow
  <2>6. CompanyTables' /\ \A t \in Sessions : Open(t)' /\ sessions'[t].company => sessions'[t] = sessions[t]
    <3>1. sessions' \in [Sessions -> SessionRow \cup {NoSession}]
      BY <2>1, <2>3, <2>5
    <3>2. users' \in [Users -> UserRow] /\ minted' \in Nat
      BY <1>1, <2>2, <2>3, Tables
    <3>3. \A t \in Sessions : Open(t)' /\ sessions'[t].company => sessions'[t] = sessions[t]
      BY <2>1, <2>3, <2>4, <2>5 DEF Open
    <3> QED BY <3>1, <3>2, <3>3, TablesStay
  <2>7. Eligible(company.linked) /\ company.linked \in Users => Eligible(company.linked)'
    BY <1>1, <2>2, <2>3, Tables DEF Eligible, EnabledAdmin, Enabled, Exists
  <2> QED BY <1>1, <2>6, <2>7, AccountKeepsCompany
<1> QED BY <1>1, <1>2, <1>3

LEMMA SignOutStep ==
  ASSUME CompanyInv, NEW s \in Sessions, EndSession(s), UNCHANGED calls
  PROVE  CompanyInv' /\ UNCHANGED company
<1>1. UNCHANGED <<company, ceremonies, users, minted>> /\ sessions' = Ended({s})
  BY DEF EndSession
<1>2. CompanyTables'
  BY <1>1, SessionTables, Tables, TablesStay DEF SessionRow
<1>3. \A t \in Sessions : Open(t)' /\ sessions'[t].company => sessions'[t] = sessions[t]
  BY <1>1, SessionTables DEF Open
<1>4. Eligible(company.linked) => Eligible(company.linked)'
  BY <1>1 DEF Eligible, EnabledAdmin, Enabled, Exists
<1> QED BY <1>1, <1>2, <1>3, <1>4, AccountKeepsCompany

(* What is done to somebody's account: `gone' are the sessions it ends.    *)
LEMMA RowStep ==
  ASSUME CompanyInv, NEW u \in Users, NEW row \in UserRow, users' = [users EXCEPT ![u] = row],
         minted' \in Nat, UNCHANGED calls, WithinBounds,
         NEW own, sessions' = Ended(own \cup SecuredSessions(u)),
         \/ company' = SecuredCompany(u)
         \/ company.linked = u /\ company' = Unlinked(SecuredCompany(u)),
         ceremonies' = SecuredCeremonies(u)
  PROVE  /\ CompanyInv'
         /\ company.linked # u => UNCHANGED company
         /\ company.linked = u => ~company'.enabled /\ company'.generation > company.generation
<1>1. CompanyTables'
  BY SessionTables, Tables, TablesStay DEF SessionRow
<1>2. CASE company.linked = u
  <2>1. CompanySessions \subseteq own \cup SecuredSessions(u)
    BY <1>2 DEF SecuredSessions
  <2> QED BY <1>1, <1>2, <2>1, SecuredStep
<1>3. CASE company.linked # u
  <2>1. UNCHANGED <<company, ceremonies>>
    BY <1>3 DEF SecuredCompany, SecuredCeremonies
  <2>2. \A t \in Sessions : Open(t)' /\ sessions'[t].company => sessions'[t] = sessions[t]
    BY SessionTables DEF Open
  <2>3. Eligible(company.linked) /\ company.linked \in Users => Eligible(company.linked)'
    BY <1>3, <2>1, Tables DEF Eligible, EnabledAdmin, Enabled, Exists
  <2> QED BY <1>1, <1>3, <2>1, <2>2, <2>3, AccountKeepsCompany
<1> QED BY <1>2, <1>3

(* What an administrator, or the bearer of a recovery link, takes away.    *)
LEMMA TakeAwayStep ==
  ASSUME CompanyInv, UNCHANGED calls, WithinBounds,
         \/ \E r \in AdminRequest, u \in Users :
               ResetPassword(r, u) \/ RemoveAdmin(r, u) \/ DisableUser(r, u)
         \/ \E r \in OwnRequest : CompleteRecovery(r)
  PROVE  /\ CompanyInv'
         /\ company' # company => /\ ~company'.enabled /\ company'.generation > company.generation
                                  /\ company.linked # Nobody
<1>1. ASSUME NEW r, NEW u \in Users,
             ResetPassword(r, u) \/ RemoveAdmin(r, u) \/ DisableUser(r, u)
      PROVE  CompanyInv' /\ (company.linked # u => UNCHANGED company)
             /\ (company.linked = u => ~company'.enabled /\ company'.generation > company.generation)
  <2>1. company' = SecuredCompany(u) /\ ceremonies' = SecuredCeremonies(u)
    BY <1>1 DEF ResetPassword, RemoveAdmin, DisableUser
  <2>2. users[u] \in UserRow /\ minted \in Nat
    BY Tables
  <2>3. CASE ResetPassword(r, u)
    <3> DEFINE row == [users[u] EXCEPT !.password = Fresh, !.forced = TRUE]
    <3>1. row \in UserRow
      BY <2>2, Tables DEF UserRow
    <3>2. /\ users' = [users EXCEPT ![u] = row] /\ minted' \in Nat
          /\ sessions' = Ended(SessionsOf(u) \cup SecuredSessions(u))
      BY <2>3, Tables DEF ResetPassword, Mint
    <3> HIDE DEF row
    <3> QED BY <2>1, <3>1, <3>2, RowStep
  <2>4. CASE RemoveAdmin(r, u)
    <3> DEFINE row == [users[u] EXCEPT !.admin = FALSE]
    <3>1. row \in UserRow
      BY <2>2 DEF UserRow
    <3>2. /\ users' = [users EXCEPT ![u] = row] /\ minted' \in Nat
          /\ sessions' = Ended({} \cup SecuredSessions(u))
      BY <2>2, <2>4 DEF RemoveAdmin, Demoted
    <3> HIDE DEF row
    <3> QED BY <2>1, <3>1, <3>2, RowStep
  <2>5. CASE DisableUser(r, u)
    <3> DEFINE row == [users[u] EXCEPT !.enabled = FALSE]
    <3>1. row \in UserRow
      BY <2>2 DEF UserRow
    <3>2. /\ users' = [users EXCEPT ![u] = row] /\ minted' \in Nat
          /\ sessions' = Ended(SessionsOf(u) \cup SecuredSessions(u))
      BY <2>2, <2>5 DEF DisableUser
    <3> HIDE DEF row
    <3> QED BY <2>1, <3>1, <3>2, RowStep
  <2> QED BY <1>1, <2>3, <2>4, <2>5
<1>2. ASSUME NEW r \in OwnRequest, CompleteRecovery(r)
      PROVE  CompanyInv' /\ (company.linked # r.user => UNCHANGED company)
             /\ (company.linked = r.user => ~company'.enabled /\ company'.generation > company.generation)
  <2> DEFINE u == r.user
             row == [users[u] EXCEPT !.password = Fresh, !.forced = FALSE]
  <2>1. u \in Users /\ users[u] \in UserRow
    BY Tables DEF OwnRequest
  <2>2. row \in UserRow
    BY <2>1, Tables DEF UserRow
  <2>3. /\ users' = [users EXCEPT ![u] = row] /\ minted' \in Nat
        /\ sessions' = Ended(SessionsOf(u) \cup SecuredSessions(u))
        /\ ceremonies' = SecuredCeremonies(u)
    BY <1>2, Tables DEF CompleteRecovery, Mint
  <2>4. \/ company' = SecuredCompany(u)
        \/ company.linked = u /\ company' = Unlinked(SecuredCompany(u))
    BY <1>2 DEF CompleteRecovery, SecuredCompany
  <2> HIDE DEF row, u
  <2>5. /\ CompanyInv'
        /\ company.linked # u => UNCHANGED company
        /\ company.linked = u => ~company'.enabled /\ company'.generation > company.generation
    BY <2>1, <2>2, <2>3, <2>4, RowStep
  <2> QED BY <2>5 DEF u
<1>3. \A r \in OwnRequest : r.user \in Users
  BY DEF OwnRequest
<1> QED BY <1>1, <1>2, <1>3, NobodyAssumption

LEMMA GiveStep ==
  ASSUME CompanyInv, UNCHANGED calls, NEW r \in AdminRequest, NEW u \in Users,
         GrantAdmin(r, u) \/ EnableUser(r, u)
  PROVE  CompanyInv' /\ UNCHANGED company
<1>1. UNCHANGED <<company, ceremonies, sessions, minted>> /\ users[u] \in UserRow
  BY Tables DEF GrantAdmin, EnableUser
<1>2. PICK row \in UserRow :
        /\ users' = [users EXCEPT ![u] = row] /\ row.password = users[u].password
        /\ row.forced = users[u].forced
        /\ users[u].enabled => row.enabled
        /\ users[u].admin => row.admin
  <2>1. CASE GrantAdmin(r, u)
    <3> DEFINE row == [users[u] EXCEPT !.admin = TRUE]
    <3>1. /\ row \in UserRow /\ row.password = users[u].password /\ row.admin
          /\ row.forced = users[u].forced /\ row.enabled = users[u].enabled
      BY <1>1 DEF UserRow
    <3>2. users' = [users EXCEPT ![u] = row]
      BY <2>1 DEF GrantAdmin
    <3> HIDE DEF row
    <3> QED BY <3>1, <3>2
  <2>2. CASE EnableUser(r, u)
    <3> DEFINE row == [users[u] EXCEPT !.enabled = TRUE]
    <3>1. /\ row \in UserRow /\ row.password = users[u].password /\ row.enabled
          /\ row.forced = users[u].forced /\ row.admin = users[u].admin
      BY <1>1 DEF UserRow
    <3>2. users' = [users EXCEPT ![u] = row]
      BY <2>2 DEF EnableUser
    <3> HIDE DEF row
    <3> QED BY <3>1, <3>2
  <2> QED BY <2>1, <2>2
<1>3. CompanyTables'
  BY <1>1, <1>2, Tables, TablesStay
<1>4. \A t \in Sessions : Open(t)' /\ sessions'[t].company => sessions'[t] = sessions[t]
  BY <1>1
<1>5. Eligible(company.linked) /\ company.linked \in Users => Eligible(company.linked)'
  BY <1>1, <1>2, Tables DEF Eligible, EnabledAdmin, Enabled, Exists
<1> QED BY <1>1, <1>3, <1>4, <1>5, AccountKeepsCompany

-----------------------------------------------------------------------------
(* A step keeps the linked identity, links one, or takes one away.         *)
LinkedAsAsked ==
  company'.linked # company.linked =>
    /\ ~company'.enabled /\ company'.generation > company.generation
    /\ company.linked = Nobody =>
         /\ ReadyEvidence /\ Eligible(company'.linked)
         /\ SessionsOf(company'.linked) # {}

LEMMA CompanyNextPreserves ==
  ASSUME CompanyInv, [CompanyNext]_companyVars
  PROVE  CompanyInv' /\ LinkedAsAsked
<1>1. CASE FormStep /\ WithinBounds
  <2> SUFFICES ASSUME NEW u \in Users, NEW s \in Sessions,
                      \/ DraftForm(u, s) \/ CheckForm(u, s) \/ TestForm(u, s) \/ LinkForm(u, s)
                      \/ EnableForm(u, s) \/ DisableForm(u, s) \/ UnlinkForm(u, s)
               PROVE  CompanyInv' /\ LinkedAsAsked
    BY <1>1 DEF FormStep
  <2>1. CASE CheckForm(u, s) \/ TestForm(u, s) \/ LinkForm(u, s)
    <3>1. UNCHANGED company
      BY <2>1 DEF CheckForm, TestForm, LinkForm, BeginCheck, StartTest, StartLink, vars
    <3> QED BY <2>1, <3>1, BeginStep DEF CheckForm, TestForm, LinkForm, LinkedAsAsked
  <2>2. CASE DraftForm(u, s) \/ EnableForm(u, s) \/ DisableForm(u, s)
    BY <1>1, <2>2, CreateConnectionStep, EditDraftStep, EnableStep, DisableStep
    DEF DraftForm, EnableForm, DisableForm, LinkedAsAsked
  <2>3. CASE UnlinkForm(u, s)
    BY <1>1, <2>3, UnlinkStep DEF UnlinkForm, LinkedAsAsked
  <2> QED BY <2>1, <2>2, <2>3
<1>2. CASE CeremonyStep /\ WithinBounds
  <2>1. ASSUME NEW x \in ceremonies, ClaimTest(x) \/ ClaimLink(x) \/ ClaimLogin(x)
        PROVE  CompanyInv' /\ LinkedAsAsked
    <3>1. UNCHANGED company
      BY <2>1 DEF ClaimTest, ClaimLink, ClaimLogin, Claim
    <3> QED BY <2>1, <3>1, ClaimStep DEF LinkedAsAsked
  <2>2. ASSUME NEW c \in calls, NEW verified \in BOOLEAN,
               CompleteTest(c, verified) \/ Check(c, verified)
        PROVE  CompanyInv' /\ LinkedAsAsked
    BY <2>2, EvidenceStep DEF LinkedAsAsked
  <2>3. ASSUME NEW c \in calls, CommitLink(c) PROVE CompanyInv' /\ LinkedAsAsked
    BY <1>2, <2>3, CommitLinkStep DEF LinkedAsAsked
  <2>4. ASSUME NEW c \in calls, NEW s \in Sessions, CreateSession(c, s)
        PROVE  CompanyInv' /\ LinkedAsAsked
    BY <2>4, CreateSessionStep DEF LinkedAsAsked
  <2>5. ASSUME NEW c \in calls, NEW token \in Tokens, PrepareLogin(c, token)
        PROVE  CompanyInv' /\ LinkedAsAsked
    <3>1. UNCHANGED company
      BY <2>5 DEF PrepareLogin
    <3> QED BY <2>5, <3>1, PrepareLoginStep DEF LinkedAsAsked
  <2>6. ASSUME NEW c \in calls, PrepareTest(c) \/ PrepareLink(c) PROVE CompanyInv' /\ LinkedAsAsked
    <3>1. UNCHANGED company
      BY <2>6 DEF PrepareTest, PrepareLink
    <3> QED BY <2>6, <3>1, PrepareStep DEF LinkedAsAsked
  <2>7. ASSUME (\E c \in calls : Abandon(c)) \/ (\E x \in ceremonies : Consume(x))
        PROVE  CompanyInv' /\ LinkedAsAsked
    <3>1. UNCHANGED company
      BY <2>7 DEF Abandon, Consume, vars
    <3> QED BY <2>7, <3>1, ConsumeStep DEF LinkedAsAsked
  <2>8. ASSUME StartLogin PROVE CompanyInv' /\ LinkedAsAsked
    <3>1. UNCHANGED <<users, sessions, company, minted, ceremonies>>
      BY <2>8 DEF StartLogin, vars
    <3>2. TypedCalls
      BY <2>8, Revisions, EntersTyped DEF StartLogin
    <3> QED BY <3>1, <3>2, FewerCeremonies, WaitingStep DEF LinkedAsAsked
  <2> QED
    BY <1>2, <2>1, <2>2, <2>3, <2>4, <2>5, <2>6, <2>7, <2>8
    DEF CeremonyStep, CompleteTestSignIn, CompleteLink, CompleteLogin, LoginForm
<1>3. CASE AccountStep /\ WithinBounds
  <2>1. UNCHANGED calls
    BY <1>3 DEF AccountStep
  <2>2. CASE \/ \E r \in AdminRequest, u \in Users :
                   ResetPassword(r, u) \/ RemoveAdmin(r, u) \/ DisableUser(r, u)
             \/ \E r \in OwnRequest : CompleteRecovery(r)
    BY <1>3, <2>1, <2>2, TakeAwayStep DEF LinkedAsAsked
  <2>3. CASE \/ \E r \in OwnRequest, s \in Sessions : FinishLogin(r, s) \/ ChangePassword(r, s)
             \/ \E s \in Sessions : EndSession(s)
             \/ \E r \in AdminRequest, u \in Users : GrantAdmin(r, u) \/ EnableUser(r, u)
    <3>1. CompanyInv' /\ UNCHANGED company
      BY <2>1, <2>3, OwnStep, SignOutStep, GiveStep
    <3> QED BY <3>1 DEF LinkedAsAsked
  <2> QED BY <1>3, <2>2, <2>3 DEF AccountStep
<1>4. CASE UNCHANGED companyVars
  <2>1. UNCHANGED <<users, sessions, company, minted, ceremonies, calls>>
    BY <1>4 DEF companyVars, vars
  <2> QED BY <2>1, LeavesTyped, FewerCeremonies, WaitingStep DEF LinkedAsAsked
<1> QED BY <1>1, <1>2, <1>3, <1>4 DEF CompanyNext

(* Company sign-in lets in only whom the enabling in force stands behind:  *)
(* no session and no login outlives it (internal/companyoidc).             *)
THEOREM CompanyAccessStaysAuthorized == CompanySpec => []CompanyAccessIsAuthorized
<1>1. CompanyInv => CompanyAccessIsAuthorized
  BY DEF CompanyInv, CompanyAccessIsAuthorized
<1>2. CompanyInv /\ [CompanyNext]_companyVars => CompanyInv'
  BY CompanyNextPreserves
<1> QED BY <1>1, <1>2, CompanyInitEstablishes, PTL DEF CompanySpec

(* It is on only on evidence, and evidence is about the draft in force     *)
(* (check_service.go, test_transaction.go, activation.go).                 *)
THEOREM EnabledStaysOnEvidence == CompanySpec => []EnabledOnEvidence
<1>1. CompanyInv => EnabledOnEvidence
  BY DEF CompanyInv, EnabledOnEvidence
<1>2. CompanyInv /\ [CompanyNext]_companyVars => CompanyInv'
  BY CompanyNextPreserves
<1> QED BY <1>1, <1>2, CompanyInitEstablishes, PTL DEF CompanySpec

(* The linked identity changes only while sign-in is off, moves the        *)
(* generation, and is given only to an administrator who acts in a session *)
(* on current evidence (link.go, auth/company_oidc.go).                    *)
THEOREM IdentityChangesStayFenced == CompanySpec => IdentityChangesAreFenced
<1>1. CompanyInv /\ [CompanyNext]_companyVars =>
        [company'.linked # company.linked =>
         /\ ~company'.enabled /\ company'.generation > company.generation
         /\ company.linked = Nobody =>
              /\ ReadyEvidence /\ Eligible(company'.linked)
              /\ SessionsOf(company'.linked) # {}]_companyVars
  BY CompanyNextPreserves DEF LinkedAsAsked
<1>2. CompanyInv /\ [CompanyNext]_companyVars => CompanyInv'
  BY CompanyNextPreserves
<1> QED BY <1>1, <1>2, CompanyInitEstablishes, PTL DEF CompanySpec, IdentityChangesAreFenced

=============================================================================
