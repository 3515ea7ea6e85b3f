---------------------------- MODULE CompanyLogin ----------------------------
(***************************************************************************)
(* Sign-in through the company's OpenID provider (internal/companyoidc, its *)
(* handlers in internal/web/company_oidc.go) beside the accounts of        *)
(* Accounts.                                                               *)
(*                                                                         *)
(* There is one connection.  An administrator saves it as a draft, checks   *)
(* its metadata, tests a sign-in, links their own company identity and      *)
(* enables it; from then on anybody whose token carries that identity gets  *)
(* a session of the linked administrator.  Every one of these operations    *)
(* talks to the provider between two transactions, most of them across a    *)
(* redirect of the browser, while the connection is edited, disabled, or    *)
(* its linked administrator demoted, disabled, reset or recovered.          *)
(*                                                                         *)
(* `company' is the connection with its evidence: `check', `evidence' and   *)
(* `linkedAt' are the revision they were made at, 0 for none.  The revision *)
(* stands for the issuer, client, secret and domains: each edit changes     *)
(* both.  `ceremonies' are the rows of the three transaction tables, keyed  *)
(* by session (test, link) or by a random token (login).  `calls' are the   *)
(* requests between two of their transactions.                             *)
(***************************************************************************)
EXTENDS Accounts

CONSTANTS Tokens,        \* states of login transactions
          NoToken,
          MaxLogins,     \* loginMaxLiveTransactions
          MaxRevision, MaxGeneration,   \* bounds
          MaxCeremonies,                \* bound: test and link transactions
          MaxInFlight                   \* bound: calls between two of their steps

ASSUME CompanyAssumption ==
    /\ MaxLogins \in Nat /\ MaxRevision \in Nat \ {0} /\ MaxGeneration \in Nat
    /\ MaxCeremonies \in Nat /\ MaxInFlight \in Nat

VARIABLE calls

companyVars == <<vars, calls>>
accountVars == <<users, grants, recovery, invitations, requests, minted, spent>>

Call == [op : {"checked", "testing", "tested", "start_link", "linking", "start", "login"},
         user : Users \cup {Nobody}, session : Sessions \cup {NoSession},
         revision : 0..MaxRevision, generation : 0..MaxGeneration]
Ceremony == [flow : {"test", "link", "login"}, user : Users \cup {Nobody},
             session : Sessions \cup {NoSession}, token : Tokens \cup {NoToken},
             revision : 0..MaxRevision, generation : 0..MaxGeneration]
Connection == [revision : 0..MaxRevision, enabled : BOOLEAN, generation : 0..MaxGeneration,
               linked : Users \cup {Nobody}, linkedAt : 0..MaxRevision,
               check : 0..MaxRevision, evidence : 0..MaxRevision]

\* An installation whose users have all chosen their password, with one
\* administrator, after somebody has been given a recovery link.
CompanyInit ==
    /\ \E first \in Users : users = [u \in Users |-> [password |-> 1, enabled |-> TRUE,
                                                      admin |-> u = first, forced |-> FALSE]]
    /\ grants = [u \in Users |-> {}]
    /\ sessions = [s \in Sessions |-> NoSession]
    /\ \E lost \in Users : recovery = [[u \in Users |-> NoLink] EXCEPT
                                          ![lost] = [token |-> 2, live |-> TRUE, issued |-> 1]]
    /\ invitations = [e \in Users |-> NoInvitation]
    /\ company = NoConnection /\ ceremonies = {}
    /\ requests = {} /\ minted = 2 /\ spent = {} /\ calls = {}

-----------------------------------------------------------------------------
(* What the transactions read.                                              *)

Found == company.revision # 0
ReadyEvidence == company.check = company.revision /\ company.evidence = company.revision
IdentityMatches == company.linked # Nobody /\ company.linkedAt = company.revision
Eligible(u) == EnabledAdmin(u) /\ ~users[u].forced

\* currentCredentialedSession, currentTestSession: the row is still there.
CurrentSession(u, s) == Open(s) /\ sessions[s].user = u /\ ~users[u].forced
ActsIn(c) == EnabledAdmin(c.user) /\ CurrentSession(c.user, c.session)

\* The draft in front of the call is the one it started from.
SameDraft(c) == Found /\ ~company.enabled /\ company.revision = c.revision
TestReady(c) == SameDraft(c) /\ company.check = company.revision
LinkReady(c) == SameDraft(c) /\ company.linked = Nobody /\ ReadyEvidence

Logins == {x \in ceremonies : x.flow = "login"}
HasCapacity == Cardinality(Logins) < MaxLogins

WithinBounds == /\ company'.generation <= MaxGeneration
                /\ Cardinality({x \in ceremonies' : x.flow # "login"}) <= MaxCeremonies
                /\ Cardinality(calls') <= MaxInFlight
Enters(c) == calls' = calls \cup {c}
Leaves(c) == calls' = calls \ {c}

-----------------------------------------------------------------------------
(* The draft, and switching it on and off.                                  *)

\* What requireAdminForm let in at some earlier moment: an actor, the session
\* they used and the revision their page showed.  Nothing else of that moment is
\* assumed; one that showed another revision is refused by every operation.
Form(u, s) == [op |-> "form", user |-> u, session |-> s, revision |-> company.revision,
               generation |-> 0]

\* An error, a refusal, a denial by the provider, or a restart ends a call.
Abandon(c) == Leaves(c) /\ UNCHANGED vars

Create(c) ==
    /\ EnabledAdmin(c.user) /\ ~Found
    /\ company' = [NoConnection EXCEPT !.revision = 1, !.generation = 1]
    /\ UNCHANGED <<accountVars, sessions, ceremonies, calls>>

\* updateConnection: what was verified was another connection.
Edited == [company EXCEPT !.revision = @ + 1, !.generation = @ + 1, !.check = 0, !.evidence = 0]
Edit(c) ==
    /\ EnabledAdmin(c.user) /\ SameDraft(c)
    /\ company' = Edited
    /\ company'.revision <= MaxRevision
    /\ UNCHANGED <<accountVars, sessions, ceremonies, calls>>

\* The snapshot the provider is asked about is the draft of this moment.
BeginCheck(c) ==
    /\ EnabledAdmin(c.user) /\ Found /\ ~company.enabled
    /\ Enters([c EXCEPT !.op = "checked", !.session = NoSession])
    /\ UNCHANGED vars

CheckFits(c) == company.revision = c.revision /\ ~company.enabled
Check(c, verified) ==
    /\ c.op = "checked" /\ EnabledAdmin(c.user) /\ CheckFits(c)
    /\ company' = [company EXCEPT !.check = IF verified THEN c.revision ELSE 0]
    /\ Leaves(c)
    /\ UNCHANGED <<accountVars, sessions, ceremonies>>

Enable(c) ==
    /\ EnabledAdmin(c.user) /\ SameDraft(c)
    /\ ReadyEvidence /\ IdentityMatches /\ Eligible(company.linked)
    /\ company' = [company EXCEPT !.enabled = TRUE, !.generation = @ + 1]
    /\ UNCHANGED <<accountVars, sessions, ceremonies, calls>>

WithoutLogins == ceremonies \ Logins
Disable(c) ==
    /\ EnabledAdmin(c.user)
    /\ Found /\ company.enabled /\ company.revision = c.revision
    /\ company' = [company EXCEPT !.enabled = FALSE, !.generation = @ + 1]
    /\ ceremonies' = WithoutLogins
    /\ sessions' = Ended(CompanySessions)
    /\ UNCHANGED <<accountVars, calls>>

-----------------------------------------------------------------------------
(* The three ceremonies: prepare a transaction, redirect, claim it in the    *)
(* callback, redeem the code with the provider, commit.                      *)

\* A new transaction of a session replaces its earlier one.
Opens(c, flow) ==
    ceremonies' = {x \in ceremonies : ~(x.flow = flow /\ x.session = c.session)}
                    \cup {[flow |-> flow, user |-> c.user, session |-> c.session,
                           token |-> NoToken, revision |-> company.revision,
                           generation |-> IF flow = "link" THEN company.generation ELSE 0]}

\* Expired, redeemed from another browser, or redeemed when it no longer fits.
Consume(x) ==
    /\ ceremonies' = ceremonies \ {x}
    /\ UNCHANGED <<accountVars, sessions, company, calls>>

\* The row goes in the transaction that reads it; the call carries it on.
Claim(x, op, user) ==
    /\ Enters([op |-> op, user |-> user, session |-> x.session,
               revision |-> x.revision, generation |-> x.generation])
    /\ ceremonies' = ceremonies \ {x}
    /\ UNCHANGED <<accountVars, sessions, company>>

\* Where to redirect is asked of the issuer of the draft that is read first; the
\* row is prepared if the draft is still that one.
StartTest(c) ==
    /\ TestReady(c)
    /\ Enters([c EXCEPT !.op = "testing"])
    /\ UNCHANGED vars

PrepareTest(c) ==
    /\ c.op = "testing" /\ ActsIn(c) /\ TestReady(c)
    /\ Opens(c, "test")
    /\ Leaves(c)
    /\ UNCHANGED <<accountVars, sessions, company>>

ClaimTest(x) == x.flow = "test" /\ ActsIn(x) /\ TestReady(x) /\ Claim(x, "tested", x.user)

TestFitsAnyRevision(c) == Found /\ ~company.enabled /\ company.check = company.revision
TestFits(c) == TestReady(c)
CompleteTest(c, verified) ==
    /\ c.op = "tested" /\ ActsIn(c) /\ TestFits(c)
    /\ company' = [company EXCEPT !.evidence = IF verified THEN c.revision ELSE @]
    /\ Leaves(c)
    /\ UNCHANGED <<accountVars, sessions, ceremonies>>

StartLink(c) ==
    /\ LinkReady(c)
    /\ Enters([c EXCEPT !.op = "start_link"])
    /\ UNCHANGED vars

PrepareLink(c) ==
    /\ c.op = "start_link" /\ ActsIn(c) /\ LinkReady(c)
    /\ Opens(c, "link")
    /\ Leaves(c)
    /\ UNCHANGED <<accountVars, sessions, company>>

ClaimLink(x) == /\ x.flow = "link" /\ ActsIn(x) /\ LinkReady(x)
                /\ x.generation = company.generation
                /\ Claim(x, "linking", x.user)

LinkFitsRevision(c) == SameDraft(c)
LinkFits(c) == LinkReady(c) /\ c.generation = company.generation
CommitLink(c) ==
    /\ c.op = "linking" /\ ActsIn(c) /\ LinkFits(c)
    /\ company' = [company EXCEPT !.linked = c.user, !.linkedAt = company.revision,
                                  !.generation = @ + 1]
    /\ ceremonies' = {x \in ceremonies : x.flow # "link"}
    /\ Leaves(c)
    /\ UNCHANGED <<accountVars, sessions>>

\* Only one's own identity, and only while company sign-in is off.
Unlink(c) ==
    /\ ActsIn(c) /\ SameDraft(c) /\ company.linked = c.user
    /\ company' = [Unlinked(company) EXCEPT !.generation = @ + 1]
    /\ ceremonies' = {x \in ceremonies : x.flow = "test"}
    /\ sessions' = EndedCompany(SessionsOf(c.user))
    /\ UNCHANGED <<accountVars, calls>>

\* The sign-in page offers the button, and the handler asks again.
LoginAvailable == company.enabled /\ IdentityMatches /\ Eligible(company.linked) /\ HasCapacity

StartLogin ==
    /\ LoginAvailable
    /\ Enters([op |-> "start", user |-> Nobody, session |-> NoSession,
               revision |-> company.revision, generation |-> company.generation])
    /\ UNCHANGED vars

SameEnabling(c) == /\ company.enabled /\ company.revision = c.revision
                   /\ company.generation = c.generation

PrepareLogin(c, token) ==
    /\ c.op = "start" /\ SameEnabling(c) /\ HasCapacity
    /\ \A x \in Logins : x.token # token
    /\ ceremonies' = ceremonies \cup {[flow |-> "login", user |-> Nobody, session |-> NoSession,
                                       token |-> token, revision |-> company.revision,
                                       generation |-> company.generation]}
    /\ Leaves(c)
    /\ UNCHANGED <<accountVars, sessions, company>>

ClaimLogin(x) == /\ x.flow = "login" /\ SameEnabling(x) /\ IdentityMatches
                 /\ Claim(x, "login", company.linked)

\* CreateCompanyOIDCSession: the code was redeemed for the linked subject.
SignsInWhileEnabled(c) == company.enabled /\ Eligible(c.user)
SignsIn(c) == SameEnabling(c) /\ StillAuthorized(c.user)
CreateSession(c, s) ==
    /\ c.op = "login" /\ SignsIn(c) /\ ~Open(s)
    /\ sessions' = [sessions EXCEPT ![s] = [user |-> c.user, company |-> TRUE,
                                            opened |-> users[c.user].password,
                                            generation |-> c.generation]]
    /\ Leaves(c)
    /\ UNCHANGED <<accountVars, company, ceremonies>>

-----------------------------------------------------------------------------
(* The handlers of the Authentication page.                                 *)

DraftForm(u, s) == Create(Form(u, s)) \/ Edit(Form(u, s))
CheckForm(u, s) == BeginCheck(Form(u, s))
TestForm(u, s) == StartTest(Form(u, s))
EnableForm(u, s) == Enable(Form(u, s))
DisableForm(u, s) == Disable(Form(u, s))

\* These two also ask for the password again.
LinkForm(u, s) == StartLink(Form(u, s))
UnlinkForm(u, s) == Unlink(Form(u, s))

FormStep ==
    \E u \in Users, s \in Sessions :
       \/ DraftForm(u, s) \/ CheckForm(u, s) \/ TestForm(u, s) \/ LinkForm(u, s)
       \/ EnableForm(u, s) \/ DisableForm(u, s) \/ UnlinkForm(u, s)

\* The callbacks claim their row, redeem the code, and commit.
CompleteTestSignIn == \/ \E x \in ceremonies : ClaimTest(x)
                      \/ \E c \in calls, verified \in BOOLEAN : CompleteTest(c, verified)
CompleteLink == (\E x \in ceremonies : ClaimLink(x)) \/ (\E c \in calls : CommitLink(c))
CompleteLogin == \/ \E x \in ceremonies : ClaimLogin(x)
                 \/ \E c \in calls, s \in Sessions : CreateSession(c, s)
LoginForm == StartLogin \/ \E c \in calls, token \in Tokens : PrepareLogin(c, token)

CeremonyStep ==
    \/ CompleteTestSignIn \/ CompleteLink \/ CompleteLogin \/ LoginForm
    \/ \E c \in calls : PrepareTest(c) \/ PrepareLink(c) \/ Abandon(c)
    \/ \E c \in calls, verified \in BOOLEAN : Check(c, verified)
    \/ \E x \in ceremonies : Consume(x)

\* Accounts keeps changing.  The first step of its requests may be taken at any
\* time and changes nothing, so only their transactions are steps here.
AdminRequest == [op : {"admin"}, user : Users, proof : {0}]
OwnRequest == [op : {"login", "change", "recover"}, user : Users, proof : 1..minted]
AccountStep ==
    /\ \/ \E r \in OwnRequest, s \in Sessions : FinishLogin(r, s) \/ ChangePassword(r, s)
       \/ \E s \in Sessions : EndSession(s)
       \/ \E r \in AdminRequest, u \in Users :
             \/ ResetPassword(r, u) \/ GrantAdmin(r, u) \/ RemoveAdmin(r, u)
             \/ DisableUser(r, u) \/ EnableUser(r, u)
       \/ \E r \in OwnRequest : CompleteRecovery(r)
    /\ UNCHANGED calls

CompanyNext == (FormStep \/ CeremonyStep \/ AccountStep) /\ WithinBounds
CompanySpec == CompanyInit /\ [][CompanyNext]_companyVars

-----------------------------------------------------------------------------
\* The connection, its transactions and the calls in flight stay in their
\* domains, and an identity is linked exactly when it has a revision.
CompanyTypeOK == /\ company \in Connection
                 /\ company.linked = Nobody <=> company.linkedAt = 0
                 /\ ceremonies \subseteq Ceremony
                 /\ calls \subseteq Call

\* A company session in the table belongs to the linked administrator, who may
\* still act, and was signed in under the enabling that still stands: no
\* disable, demotion, reset, recovery or unlink leaves one behind, and no
\* callback in flight adds one afterwards.
CompanySessionsAreAuthorized ==
    \A s \in CompanySessions : /\ StillAuthorized(sessions[s].user)
                               /\ sessions[s].generation = company.generation

\* While company sign-in is on, the metadata check, the test sign-in and the
\* linked identity are those of the revision in force, and the linked
\* administrator is one.
EnabledIsReady ==
    company.enabled => /\ ReadyEvidence /\ IdentityMatches
                       /\ Eligible(company.linked)

\* Evidence is never about another revision, whatever edits happened while the
\* provider was asked.
EvidenceIsCurrent == /\ company.check \in {0, company.revision}
                     /\ company.evidence \in {0, company.revision}

\* A login transaction waits only for the enabling it was started under.
LoginsAreFenced == \A x \in Logins : SameEnabling(x)

\* Anonymous visitors never hold more login transactions than the limit.
LoginsAreCapped == Cardinality(Logins) <= MaxLogins

\* The linked identity changes only while company sign-in is off, moves the
\* generation on so that no ceremony begun before commits after, and is given
\* only to an eligible administrator with a session, on current evidence.
IdentityChangesAreFenced ==
    [][company'.linked # company.linked =>
         /\ ~company'.enabled /\ company'.generation > company.generation
         /\ company.linked = Nobody =>
              /\ ReadyEvidence /\ Eligible(company'.linked)
              /\ SessionsOf(company'.linked) # {}]_companyVars

\* Company sign-in lets in whom it should: no session, and no login on its way,
\* that the enabling in force does not stand behind, and no more than the limit.
CompanyAccessIsAuthorized ==
    CompanyTypeOK /\ CompanySessionsAreAuthorized /\ LoginsAreFenced /\ LoginsAreCapped

\* It is on only on evidence, and evidence is about the draft in force.
EnabledOnEvidence == EnabledIsReady /\ EvidenceIsCurrent
=============================================================================
