----------------------------- MODULE AccessObserver -----------------------------
(***************************************************************************)
(* One snapshot of a forge that does not hold still                         *)
(* (internal/forgeconnection/forgejo/access_observer.go over the reads of   *)
(* internal/forge/forgejo).                                                *)
(*                                                                         *)
(* ObserveAccess asks some dozens of questions, one request after another:  *)
(* who am I, which organization, its repositories, members and teams page   *)
(* by page, then the names of the identities that no listing showed, then   *)
(* the permission of each identity on each bound repository.  Users and     *)
(* repositories are known by immutable ids but asked about by name, and     *)
(* between two requests anybody may rename, replace, add or remove them.    *)
(*                                                                         *)
(* The forge is external: a record of who is called what and who may reach  *)
(* what, and Change is any edit of it.  Ids are small naturals, because the *)
(* code and the forge go through them in ascending order.  AccessShadow     *)
(* models what is done with the result.                                     *)
(***************************************************************************)
EXTENDS Integers, Sequences, FiniteSets, FiniteSetsExt, SequencesExt

CONSTANTS Users, Repositories, Teams,   \* immutable ids on the forge
          Names,            \* logins, and owner/name locators
          Settled,          \* external: how the forge may be as the snapshot begins
          Inputs,           \* AccessObserveInput: linked identities, bound repositories
          PageLimit,        \* pageLimit
          TopLevelPages,    \* accessTopLevelMaxPages
          NestedPages,      \* accessNestedMaxPages
          MaxTeams,         \* accessMaxTeams
          MaxIdentities, MaxRepositories, MaxPairs,   \* accessMaxIdentities, ...
          RequestLimit,     \* AccessSyncRequestLimit
          MaxChanges        \* bound: edits of the forge during the snapshot

VARIABLES forge,      \* external: the installation
          changes,    \* edits of it since the snapshot started
          input,      \* the scope that was reserved
          stage, left,\* the phase of observe and what it has yet to ask about
          cursor,     \* paginateAccess: page, expectedTotal and the seen ids
          requests,   \* requestBudget.used
          graph,      \* accessGraph
          unresolved, \* resolveIdentities
          pairs,      \* the classifications so far
          result      \* ResultCode, or "running"

world == <<forge, changes>>
vars == <<world, input, stage, left, cursor, requests, graph, unresolved, pairs, result>>

Unknown == 0            \* no name: absent from the forge, or from the graph
Unclassified == "unclassified"
Order == <<"start", "service", "organization", "repositories", "members", "teams",
           "teamRepositories", "teamMembers", "collaborators", "resolve", "classify",
           "reported">>
Listings == {"repositories", "members", "teams", "teamRepositories", "teamMembers",
             "collaborators"}

-----------------------------------------------------------------------------
(* The forge.                                                               *)

Present(f, S) == {u \in S : f.login[u] # Unknown}
RepositoryAt(f, name) == {r \in Repositories : name # Unknown /\ f.locator[r] = name}
UserAt(f, name) == {u \in Users : name # Unknown /\ f.login[u] = name}
MembersOf(f) == Present(f, UNION {f.members[t] : t \in f.teams})
OnTeam(f, u, r) == \E t \in f.teams : u \in f.members[t] /\ r \in f.holds[t]
Granted(f, u, r) == u \in f.direct[r] \/ OnTeam(f, u, r) \/ r \in f.public

Distinct(f, S) == \A a, b \in S : f[a] = f[b] /\ a # b => f[a] = Unknown
Forges == {f \in [login: [Users -> Names \cup {Unknown}],
                  locator: [Repositories -> Names \cup {Unknown}],
                  public: SUBSET Repositories, direct: [Repositories -> SUBSET Users],
                  teams: SUBSET Teams, members: [Teams -> SUBSET Users],
                  holds: [Teams -> SUBSET Repositories],
                  service: {"bound", "admin", "other"},
                  organization: {"bound", "other", "gone"}] :
             Distinct(f.login, Users) /\ Distinct(f.locator, Repositories)}
Scopes == [identities: SUBSET Users, bindings: SUBSET Repositories,
           atLink: [Users -> Names \cup {Unknown}]]

ASSUME ObserverAssumption ==
  /\ \A S \in {Users, Repositories, Teams, Names} : IsFiniteSet(S) /\ S \subseteq Nat \ {0}
  /\ {PageLimit, TopLevelPages, NestedPages} \subseteq Nat \ {0}
  /\ {MaxTeams, MaxIdentities, MaxRepositories, MaxPairs, RequestLimit, MaxChanges} \subseteq Nat
  /\ Settled \subseteq Forges /\ Inputs \subseteq Scopes

Toggle(S, x) == IF x \in S THEN S \ {x} ELSE S \cup {x}
\* A name may be taken over: whoever had it is renamed or deleted before.
Renamed(names, x, n) == [y \in DOMAIN names |-> IF y = x THEN n
                                                ELSE IF names[y] = n THEN Unknown ELSE names[y]]
Edits(f) ==
  {[f EXCEPT !.login = Renamed(@, u, n)] : u \in Users, n \in Names \cup {Unknown}}
  \cup {[f EXCEPT !.locator = Renamed(@, r, n)] : r \in Repositories, n \in Names \cup {Unknown}}
  \cup {[f EXCEPT !.public = Toggle(@, r)] : r \in Repositories}
  \cup {[f EXCEPT !.direct[r] = Toggle(@, u)] : r \in Repositories, u \in Users}
  \cup {[f EXCEPT !.members[t] = Toggle(@, u)] : t \in Teams, u \in Users}
  \cup {[f EXCEPT !.holds[t] = Toggle(@, r)] : t \in Teams, r \in Repositories}
  \cup {[f EXCEPT !.teams = Toggle(@, t)] : t \in Teams}
  \cup {[f EXCEPT !.service = s] : s \in {"bound", "admin", "other"}}
  \cup {[f EXCEPT !.organization = o] : o \in {"bound", "other", "gone"}}

Change == /\ stage # "reported" /\ changes < MaxChanges
          /\ forge' \in Edits(forge) \ {forge}
          /\ changes' = changes + 1
          /\ UNCHANGED <<input, stage, left, cursor, requests, graph, unresolved, pairs, result>>

-----------------------------------------------------------------------------
(* What is left to ask in each phase, and how the answers are kept.         *)

Bindings == input.bindings
Identities == input.identities
Travels(i) == input.atLink[i] # Unknown    \* validForgejoName(usernameAtLink)
Visible == {r \in Bindings : r \in graph.listed}
BoundTogether == {t \in graph.teams : Bindings \subseteq graph.teamRepositories[t]}   \* mutant
Intersecting == {t \in graph.teams : graph.teamRepositories[t] \cap Bindings # {}}

EmptyGraph == [login |-> [u \in Users |-> Unknown],
               repository |-> [r \in Repositories |-> Unknown],
               private |-> [r \in Repositories |-> FALSE],
               listed |-> {}, teams |-> {},
               teamRepositories |-> [t \in Teams |-> {}], teamMembers |-> [t \in Teams |-> {}],
               collaborators |-> [r \in Repositories |-> {}]]
NewCursor == [page |-> 1, total |-> -1, seen |-> {}]

Work(s) == CASE s = "teamRepositories" -> graph.teams
             [] s = "teamMembers" -> Intersecting
             [] s = "collaborators" -> Visible
             [] s = "resolve" -> Identities
             [] s = "classify" -> Identities \X Bindings
             [] OTHER -> {0}
\* Ascending, pairs by identity first.
Item == IF stage = "classify"
        THEN CHOOSE p \in left : \A q \in left : p[1] < q[1] \/ (p[1] = q[1] /\ p[2] <= q[2])
        ELSE Min(left)

\* mergeUser and mergeRepository: one name for an id, and one id for a name.
Injective(names) == \A a, b \in DOMAIN names : names[a] = names[b] /\ a # b => names[a] = Unknown
Merged(known, now, S) == [x \in DOMAIN known |-> IF x \in S THEN now[x] ELSE known[x]]
Changed(known, now, S) == \E x \in S : known[x] \notin {Unknown, now[x]}
Conflicting(known, now, S) == Changed(known, now, S) \/ ~Injective(Merged(known, now, S))
UsersConflict(S) == Conflicting(graph.login, forge.login, S)
RepositoriesConflict(S) ==
  \/ Conflicting(graph.repository, forge.locator, S)
  \/ \E r \in S : graph.repository[r] # Unknown /\ graph.private[r] # (r \notin forge.public)
WithUsers(S) == [graph EXCEPT !.login = Merged(@, forge.login, S)]
WithRepositories(S) == [graph EXCEPT !.repository = Merged(@, forge.locator, S),
                                     !.private = Merged(@, [r \in Repositories |-> r \notin forge.public], S)]

-----------------------------------------------------------------------------
(* The phases.                                                              *)

Init == /\ forge \in Settled /\ changes = 0
        /\ input \in Inputs
        /\ stage = "start" /\ left = {0}
        /\ cursor = NewCursor /\ requests = 0
        /\ graph = EmptyGraph /\ unresolved = {}
        /\ pairs = [p \in input.identities \X input.bindings |-> Unclassified]
        /\ result = "running"

\* fail: nothing but the code leaves the observer.
Report(code) == /\ stage' = "reported" /\ result' = code /\ left' = {}
                /\ pairs' = IF code = "complete" THEN pairs
                            ELSE [p \in DOMAIN pairs |-> Unclassified]
                /\ UNCHANGED <<world, input, cursor, graph, unresolved>>

\* One request is spent; the transport refuses the one past the limit.
Exhausted == requests = RequestLimit
Spend == requests' = requests + 1
Kept == UNCHANGED <<world, input, stage, result>>

\* A mutant of Done: an identity the listings showed is not taken off the list.
DoneUnlessKnown == Kept /\ left' = {x \in left : x # Item \/ (stage = "resolve" /\ graph.login[x] # Unknown)}
\* The item is done, with a request or without one.
Done == left' = left \ {Item} /\ Kept

\* The worst case of what follows: a fallback for each identity that may need
\* one, and a permission for each pair that may get that far.
InGraph == {i \in Identities : graph.login[i] # Unknown}
Fallbacks == {i \in Identities \ InGraph : Travels(i)}
WorstCase == Cardinality(Fallbacks)
             + Cardinality(InGraph \cup Fallbacks) * Cardinality(Visible)
Reserved == WorstCase <= RequestLimit - requests

NextStage == Order[CHOOSE n \in 2..Len(Order) : Order[n - 1] = stage]
Proceed ==
  /\ stage # "reported" /\ left = {}
  /\ CASE stage = "collaborators" /\ ~Reserved -> Report("work_limit_exceeded")
       [] stage = "classify" -> Report("complete")
       [] OTHER -> /\ stage' = NextStage /\ left' = Work(NextStage)
                   /\ UNCHANGED <<world, input, cursor, graph, unresolved, pairs, result>>
  /\ UNCHANGED requests

\* The scope is checked before the first request.  Its ids are numbers already.
Approved == /\ Cardinality(Identities) <= MaxIdentities
            /\ Cardinality(Bindings) <= MaxRepositories
            /\ Cardinality(Identities) * Cardinality(Bindings) <= MaxPairs
Start == /\ stage = "start" /\ left # {}
         /\ IF Approved THEN Done /\ UNCHANGED <<cursor, graph, unresolved, pairs>>
            ELSE Report("work_limit_exceeded")
         /\ UNCHANGED requests

\* verifyServiceUser and verifyOrganization.
Verdict == IF stage = "service"
           THEN CASE forge.service = "admin" -> "service_user_is_admin"
                  [] forge.service = "other" -> "service_user_changed"
                  [] OTHER -> "ok"
           ELSE CASE forge.organization = "gone" -> "invalid_response"
                  [] forge.organization = "other" -> "organization_changed"
                  [] OTHER -> "ok"
Verify == /\ stage \in {"service", "organization"} /\ left # {} /\ ~Exhausted
          /\ Spend
          /\ IF Verdict = "ok" THEN Done /\ UNCHANGED <<cursor, graph, unresolved, pairs>>
             ELSE Report(Verdict)

-----------------------------------------------------------------------------
(* The listings.                                                            *)

\* An organization that took the slug over shows nothing of ours.
InOrganization(S) == IF forge.organization = "bound" THEN S ELSE {}
Listed == CASE stage = "repositories" ->
                 InOrganization({r \in Repositories : forge.locator[r] # Unknown})
            [] stage = "members" -> InOrganization(MembersOf(forge))
            [] stage = "teams" -> InOrganization(forge.teams)
            [] stage = "teamRepositories" -> {r \in forge.holds[Item] : forge.locator[r] # Unknown}
            [] stage = "teamMembers" -> Present(forge, forge.members[Item])
            [] stage = "collaborators" ->
                 UNION {Present(forge, forge.direct[r]) :
                          r \in RepositoryAt(forge, graph.repository[Item])}
NotFound == \/ stage \in {"repositories", "members", "teams"} /\ forge.organization = "gone"
            \/ stage \in {"teamRepositories", "teamMembers"} /\ Item \notin forge.teams
            \/ stage = "collaborators" /\ RepositoryAt(forge, graph.repository[Item]) = {}

\* The ceiling of this listing, in pages and so in records.
MaxPages == IF stage \in {"repositories", "members", "teams"} THEN TopLevelPages ELSE NestedPages
\* The ids on the page that is asked for; the forge lists in ascending order.
Page == LET before(x) == Cardinality({y \in Listed : y < x})
            first == (cursor.page - 1) * PageLimit
        IN {x \in Listed : before(x) >= first /\ before(x) < first + PageLimit}
Total == Cardinality(Listed)
Seen == cursor.seen \cup Page

\* What the page callback refuses, and what paginateAccess does.
PageConflicts == \/ Page \cap cursor.seen # {}
                 \/ stage \in {"repositories", "teamRepositories"} /\ RepositoriesConflict(Page)
                 \/ stage \in {"members", "teamMembers", "collaborators"} /\ UsersConflict(Page)
PageFailure ==
  IF NotFound THEN "invalid_response"
  ELSE IF stage = "teams" /\ Total > MaxTeams THEN "work_limit_exceeded"
  ELSE IF PageConflicts THEN "invalid_response"
  ELSE IF cursor.total = -1 /\ Total > MaxPages * PageLimit THEN "pagination_incomplete"
  ELSE IF cursor.total \notin {-1, Total} THEN "invalid_response"
  ELSE IF Cardinality(Seen) < Total /\ Page = {} THEN "pagination_incomplete"
  ELSE "ok"
WithPage == CASE stage = "repositories" -> [WithRepositories(Page) EXCEPT !.listed = Seen]
              [] stage = "teams" -> [graph EXCEPT !.teams = Seen]
              [] stage = "teamRepositories" ->
                   [WithRepositories(Page) EXCEPT !.teamRepositories[Item] = Seen]
              [] stage = "teamMembers" -> [WithUsers(Page) EXCEPT !.teamMembers[Item] = Seen]
              [] stage = "collaborators" -> [WithUsers(Page) EXCEPT !.collaborators[Item] = Seen]
              [] OTHER -> WithUsers(Page)
LastPage == Cardinality(Seen) = Total

ReadPage ==
  /\ stage \in Listings /\ left # {}
  /\ IF cursor.page > MaxPages
     THEN Report("pagination_incomplete") /\ UNCHANGED requests
     ELSE /\ ~Exhausted /\ Spend
          /\ IF PageFailure # "ok" THEN Report(PageFailure)
             ELSE /\ graph' = WithPage
                  /\ cursor' = IF LastPage THEN NewCursor
                               ELSE [page |-> cursor.page + 1, total |-> Total, seen |-> Seen]
                  /\ left' = IF LastPage THEN left \ {Item} ELSE left
                  /\ Kept /\ UNCHANGED <<unresolved, pairs>>

-----------------------------------------------------------------------------
(* The names of the identities, and their permissions.                      *)

Holder == UserAt(forge, input.atLink[Item])
ReadFallback == /\ ~Exhausted /\ Spend
                /\ IF Holder # {Item}
                   THEN Done /\ unresolved' = unresolved \cup {Item} /\ UNCHANGED <<cursor, graph, pairs>>
                   ELSE IF UsersConflict(Holder) THEN Report("invalid_response")
                   ELSE Done /\ graph' = WithUsers(Holder) /\ UNCHANGED <<cursor, unresolved, pairs>>
Resolve ==
  /\ stage = "resolve" /\ left # {}
  /\ \/ /\ Item \in InGraph
        /\ Done /\ UNCHANGED <<cursor, requests, graph, unresolved, pairs>>
     \/ /\ Item \notin InGraph /\ ~Travels(Item)
        /\ Done /\ unresolved' = unresolved \cup {Item}
        /\ UNCHANGED <<cursor, requests, graph, pairs>>
     \/ Item \notin InGraph /\ Travels(Item) /\ ReadFallback

DirectEdge(i, r) == i \in graph.collaborators[r]
TeamEdge(i, r) == \E t \in graph.teams : /\ r \in graph.teamRepositories[t]
                                         /\ i \in graph.teamMembers[t]
\* The permission that is asked for by name: whoever has the login now, on
\* whatever repository has the locator now, and any answer the code does not know.
Askable(i, r) == /\ UserAt(forge, graph.login[i]) # {}
                 /\ RepositoryAt(forge, graph.repository[r]) # {}
Permissions(i, r) ==
  {IF \E u \in UserAt(forge, graph.login[i]), s \in RepositoryAt(forge, graph.repository[r]) :
        Granted(forge, u, s)
   THEN "read" ELSE "none", "unrecognized"}
AnyUser(i) == TRUE   \* mutant of SameUser
SameUser(i) == UserAt(forge, graph.login[i]) = {i}
Answer(i, r, permission) ==
  IF ~Askable(i, r) THEN "permission_unavailable"
  ELSE IF ~SameUser(i) THEN "evidence_inconsistent"
  ELSE IF permission = "unrecognized" THEN "permission_unrecognized"
  ELSE IF permission = "none"
       THEN IF DirectEdge(i, r) \/ TeamEdge(i, r)
            THEN "evidence_inconsistent" ELSE "no_explicit_access_none"
  ELSE IF DirectEdge(i, r) THEN "direct_collaborator"
  ELSE IF TeamEdge(i, r) THEN "team_access"
  ELSE "visibility_source_unproven"

Put(reason) == /\ pairs' = [pairs EXCEPT ![Item] = reason]
               /\ Done /\ UNCHANGED <<cursor, graph, unresolved>>
Classify ==
  /\ stage = "classify" /\ left # {}
  /\ LET i == Item[1] r == Item[2] IN
     \/ /\ i \in unresolved
        /\ Put("identity_unresolved") /\ UNCHANGED requests
     \/ /\ i \notin unresolved /\ r \notin graph.listed
        /\ Put("repository_unavailable") /\ UNCHANGED requests
     \/ /\ i \notin unresolved /\ r \in graph.listed
        /\ ~Exhausted /\ Spend
        /\ \E permission \in Permissions(i, r) : Put(Answer(i, r, permission))

\* A request is due; it may be refused by the budget, or fail on its way: a
\* status that is not 404, an answer that is none, a deadline.
Asks == /\ left # {}
        /\ \/ stage \in {"service", "organization"}
           \/ stage \in Listings /\ cursor.page <= MaxPages
           \/ stage = "resolve" /\ Item \notin InGraph /\ Travels(Item)
           \/ stage = "classify" /\ Item[1] \notin unresolved /\ Item[2] \in graph.listed
Failures == {"unavailable", "authentication_failed", "authorization_failed", "invalid_response"}
Fail == Asks /\ IF Exhausted THEN Report("work_limit_exceeded") /\ UNCHANGED requests
                ELSE (\E code \in Failures : Report(code)) /\ Spend

Step == Start \/ Verify \/ ReadPage \/ Resolve \/ Classify \/ Proceed \/ Fail
Next == Step \/ Change
Spec == Init /\ [][Next]_vars
\* ObserveAccess runs to its end under its deadline.
FairSpec == Spec /\ WF_vars(Step)

-----------------------------------------------------------------------------
(* Properties.                                                              *)

Reasons == {"identity_unresolved", "repository_unavailable", "permission_unavailable",
            "evidence_inconsistent", "permission_unrecognized", "no_explicit_access_none",
            "direct_collaborator", "team_access", "visibility_source_unproven"}

\* Requests never exceed the approved budget, and every complete result
\* classifies every pair of the scope: what observe promises its caller.
ObserverTypeOK ==
  /\ forge \in Forges /\ input \in Inputs
  /\ stage \in ToSet(Order) /\ requests \in 0..RequestLimit
  /\ graph.listed \subseteq Repositories /\ graph.teams \subseteq Teams
  /\ unresolved \subseteq Identities
  /\ pairs \in [Identities \X Bindings -> Reasons \cup {Unclassified}]
  /\ result = "complete" => \A p \in DOMAIN pairs : pairs[p] \in Reasons

\* What the forge itself would say of a pair, from its state alone.  An identity
\* can be found if some listing of the snapshot shows it, or it still has the
\* name it was linked by.
Findable(i) == /\ forge.login[i] # Unknown
               /\ \/ i \in MembersOf(forge)
                  \/ \E r \in Bindings : forge.locator[r] # Unknown /\ i \in forge.direct[r]
                  \/ forge.login[i] = input.atLink[i]
Truth(i, r) == IF ~Findable(i) THEN "identity_unresolved"
               ELSE IF forge.locator[r] = Unknown THEN "repository_unavailable"
               ELSE IF i \in forge.direct[r] THEN "direct_collaborator"
               ELSE IF OnTeam(forge, i, r) THEN "team_access"
               ELSE IF r \in forge.public THEN "visibility_source_unproven"
               ELSE "no_explicit_access_none"

\* A snapshot that nobody disturbed says of each pair what the forge says, for
\* every way the pages, the teams and the fallbacks fall (observe).
UndisturbedIsExact ==
  result = "complete" /\ changes = 0 =>
    \A i \in Identities, r \in Bindings : pairs[<<i, r>>] \in {Truth(i, r), "permission_unrecognized"}

\* Once the worst case is reserved the budget never runs out, whatever the forge
\* becomes ("the resolution phase can never start work it cannot finish",
\* reserveResolutionRequests).
ResolutionNeverStarves ==
  [][result' = "work_limit_exceeded" => stage \notin {"resolve", "classify"}]_<<stage, result>>

\* A permission is taken for an identity only from its own account: somebody
\* who took over its login in the meantime never answers for it (classifyPair).
Speaks(reason) == reason \in {"direct_collaborator", "team_access",
                              "visibility_source_unproven", "no_explicit_access_none"}
AnsweredByItsUser ==
  [][\A p \in DOMAIN pairs :
       pairs[p] = Unclassified /\ Speaks(pairs'[p]) =>
         \E r \in Repositories : /\ forge.locator[r] = graph.repository[p[2]]
                                 /\ (pairs'[p] = "no_explicit_access_none") = ~Granted(forge, p[1], r)
    ]_vars

\* The graph gives no two users one login and no two repositories one locator,
\* though its pages are read at different moments (mergeUser, mergeRepository).
GraphIsInjective == Injective(graph.login) /\ Injective(graph.repository)

\* Every snapshot ends, however the forge moves under it.
SnapshotEnds == <>(stage = "reported")

\* The comment at mergeRepository: "a replacement repository at a bound
\* repository's locator could otherwise answer for the bound immutable id and be
\* published as its evidence".  The permission answer carries no repository id,
\* so a repository that takes the locator over after the listings does answer.
AnsweredByItsRepository ==
  [][\A p \in DOMAIN pairs :
       pairs[p] = Unclassified /\ Speaks(pairs'[p]) =>
         forge.locator[p[2]] = graph.repository[p[2]]]_vars

\* A complete snapshot is consistent, and exact unless the forge moved under it.
ResultsAreExact == ObserverTypeOK /\ UndisturbedIsExact /\ GraphIsInjective

\* However the forge moves, an answer is taken only from whom it is about, and
\* work that was begun is finished.
AnswersAreOwn == AnsweredByItsUser /\ ResolutionNeverStarves
=============================================================================
