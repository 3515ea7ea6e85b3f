------------------------- MODULE AccessObserverProofs -------------------------
(***************************************************************************)
(* Proofs about one snapshot of a forge that moves, for any number of      *)
(* users, repositories, teams and pages, any budget and any edits.         *)
(***************************************************************************)
EXTENDS AccessObserver, FiniteSetTheorems, WellFoundedInduction, TLAPS

(* The stages of a snapshot, latest first.                                 *)
Ending == {"resolve", "classify"}
AfterTeamMembers == {"collaborators"} \cup Ending
AfterTeamRepositories == {"teamMembers"} \cup AfterTeamMembers
AfterTeams == {"teamRepositories"} \cup AfterTeamRepositories
AfterMembers == {"teams"} \cup AfterTeams
AfterRepositories == {"members"} \cup AfterMembers
Finished(s, later) == stage \in later \/ (stage = s /\ left = {})
Pending(s) == IF stage = s THEN left ELSE {}

Graphs == [login : [Users -> Names \cup {Unknown}],
           repository : [Repositories -> Names \cup {Unknown}],
           private : [Repositories -> BOOLEAN],
           listed : SUBSET Repositories, teams : SUBSET Teams,
           teamRepositories : [Teams -> SUBSET Repositories],
           teamMembers : [Teams -> SUBSET Users],
           collaborators : [Repositories -> SUBSET Users]]
Subjects == CASE stage \in {"repositories", "teamRepositories"} -> Repositories
              [] stage = "teams" -> Teams
              [] OTHER -> Users
Turning == stage \in Listings /\ left # {}

SnapshotTypes ==
  /\ forge \in Forges /\ changes \in Nat /\ input \in Inputs
  /\ stage \in ToSet(Order) /\ requests \in 0..RequestLimit
  /\ graph \in Graphs /\ left \subseteq Work(stage)
  /\ unresolved \subseteq Identities
  /\ pairs \in [Identities \X Bindings -> Reasons \cup {Unclassified}]
  /\ stage = "reported" => left = {} /\ result # "running"
  /\ stage # "reported" => /\ result = "running"
                           /\ cursor.seen \subseteq IF Turning THEN Subjects ELSE {}
  /\ stage \notin Ending \cup {"reported"} => unresolved = {}
  /\ stage = "resolve" => unresolved \cap left = {}

(* A pair that is done has a reason.                                       *)
DoneIsClassified ==
  /\ stage = "classify" => \A p \in (Identities \X Bindings) \ left : pairs[p] \in Reasons
  /\ result = "complete" => \A p \in Identities \X Bindings : pairs[p] \in Reasons

(* The requests that may yet be needed were put aside.                     *)
Resolved == stage \in Ending => Identities \ Pending("resolve") \subseteq InGraph \cup unresolved
Awaited == Fallbacks \cap left
Wanted == {p \in left : p[1] \notin unresolved /\ p[2] \in graph.listed}
BudgetSuffices ==
  /\ stage = "resolve" =>
       Cardinality(Awaited) + Cardinality(InGraph \cup Awaited) * Cardinality(Visible)
         <= RequestLimit - requests
  /\ stage = "classify" => Cardinality(Wanted) <= RequestLimit - requests

(* What the graph says while nobody edits the forge.                       *)
Located == {r \in Repositories : forge.locator[r] # Unknown}
NamesAreTrue ==
  /\ \A u \in Users : graph.login[u] \in {Unknown, forge.login[u]}
  /\ \A r \in Repositories : graph.repository[r] \in {Unknown, forge.locator[r]}
  /\ \A u \in Users : graph.login[u] # Unknown => Findable(u)
OrganizationIsBound == Finished("organization", Listings \cup Ending) => forge.organization = "bound"
PagesAreTrue ==
  Turning => /\ cursor.seen \subseteq Listed
             /\ stage = "repositories" =>
                  \A r \in cursor.seen : graph.repository[r] # Unknown
             /\ stage \in {"members", "collaborators"} =>
                  \A u \in cursor.seen : graph.login[u] # Unknown
RepositoriesAreTrue ==
  /\ \A r \in graph.listed : graph.repository[r] # Unknown
  /\ Finished("repositories", AfterRepositories) => graph.listed = Located
MembersAreTrue == Finished("members", AfterMembers) =>
                    \A u \in MembersOf(forge) : graph.login[u] # Unknown
TeamsAreTrue ==
  /\ Finished("teams", AfterTeams) => graph.teams = forge.teams
  /\ stage \in AfterTeams => \A t \in graph.teams \ Pending("teamRepositories") :
       graph.teamRepositories[t] = {r \in forge.holds[t] : forge.locator[r] # Unknown}
  /\ stage \in AfterTeamRepositories => \A t \in Intersecting \ Pending("teamMembers") :
       graph.teamMembers[t] = Present(forge, forge.members[t])
CollaboratorsAreTrue ==
  stage \in AfterTeamMembers => \A r \in Visible \ Pending("collaborators") :
    /\ graph.collaborators[r] = Present(forge, forge.direct[r])
    /\ \A u \in graph.collaborators[r] : graph.login[u] # Unknown
ResolutionIsTrue ==
  stage \in Ending => \A i \in Identities \ Pending("resolve") : i \in unresolved <=> ~Findable(i)
Exact(p) == pairs[p] \in {Truth(p[1], p[2]), "permission_unrecognized"}
PairsAreTrue ==
  /\ stage = "classify" => \A p \in (Identities \X Bindings) \ left : Exact(p)
  /\ result = "complete" => \A p \in Identities \X Bindings : Exact(p)
GraphIsTrue ==
  /\ NamesAreTrue /\ OrganizationIsBound /\ PagesAreTrue /\ RepositoriesAreTrue
  /\ MembersAreTrue /\ TeamsAreTrue /\ CollaboratorsAreTrue /\ ResolutionIsTrue

ObserverInv ==
  /\ SnapshotTypes /\ DoneIsClassified /\ GraphIsInjective /\ Resolved /\ BudgetSuffices
  /\ changes = 0 => GraphIsTrue
  /\ changes = 0 => PairsAreTrue

(***************************************************************************)
(* What the order of the stages and of the items amounts to.               *)
(***************************************************************************)
LEMMA StageSet ==
  ToSet(Order) = {"start", "service", "organization", "repositories", "members", "teams",
                  "teamRepositories", "teamMembers", "collaborators", "resolve", "classify",
                  "reported"}
<1>1. DOMAIN Order = 1..12
  BY DEF Order
<1>2. ToSet(Order) = {Order[n] : n \in 1..12}
  BY <1>1 DEF ToSet
<1> QED
  BY <1>2 DEF Order

LEMMA NextStageIs ==
  /\ stage = "start" => NextStage = "service"
  /\ stage = "service" => NextStage = "organization"
  /\ stage = "organization" => NextStage = "repositories"
  /\ stage = "repositories" => NextStage = "members"
  /\ stage = "members" => NextStage = "teams"
  /\ stage = "teams" => NextStage = "teamRepositories"
  /\ stage = "teamRepositories" => NextStage = "teamMembers"
  /\ stage = "teamMembers" => NextStage = "collaborators"
  /\ stage = "collaborators" => NextStage = "resolve"
  /\ stage = "resolve" => NextStage = "classify"
<1>1. Len(Order) = 12
  BY DEF Order
<1>2. ASSUME NEW k \in 2..12, stage = Order[k - 1]
      PROVE  NextStage = Order[k]
  <2>1. \A n \in 2..12 : Order[n - 1] = Order[k - 1] => n = k
    BY DEF Order
  <2>2. (CHOOSE n \in 2..12 : Order[n - 1] = stage) = k
    BY <1>2, <2>1
  <2> QED
    BY <1>1, <2>2 DEF NextStage
<1> QED
  BY <1>2 DEF Order

LEMMA LeastIsIn ==
  ASSUME NEW S \in SUBSET Nat, S # {}
  PROVE  Min(S) \in S /\ \A y \in S : Min(S) <= y
<1>1. PICK x \in S : \A y \in S : ~ (<<y, x>> \in OpToRel(<, Nat))
  BY NatLessThanWellFounded, WFMin
<1>2. \A y \in S : y < x => <<y, x>> \in OpToRel(<, Nat)
  BY DEF OpToRel
<1>3. \A y \in S : x \in Nat /\ y \in Nat /\ ~ (y < x)
  BY <1>1, <1>2
<1>4. \A y \in S : x <= y
  BY <1>3
<1>5. \E z \in S : \A y \in S : z <= y
  BY <1>4
<1> QED
  BY <1>5 DEF Min

LEMMA FirstPairIsIn ==
  ASSUME NEW S \in SUBSET (Nat \X Nat), S # {}
  PROVE  (CHOOSE p \in S : \A q \in S : p[1] < q[1] \/ (p[1] = q[1] /\ p[2] <= q[2])) \in S
<1> DEFINE A == {p[1] : p \in S}
           B == {y \in Nat : <<Min(A), y>> \in S}
           first == <<Min(A), Min(B)>>
<1>1. A \in SUBSET Nat /\ A # {}
  OBVIOUS
<1>2. Min(A) \in A /\ \A x \in A : Min(A) <= x
  <2> HIDE DEF A
  <2> QED BY <1>1, LeastIsIn
<1>3. PICK p \in S : p[1] = Min(A)
  BY <1>2
<1>4. p = <<p[1], p[2]>> /\ p[2] \in Nat
  BY <1>3
<1>5. B \in SUBSET Nat /\ B # {}
  BY <1>3, <1>4
<1>6. Min(B) \in B /\ \A y \in B : Min(B) <= y
  <2> HIDE DEF B
  <2> QED BY <1>5, LeastIsIn
<1>7. first \in S
  BY <1>6
<1>8. ASSUME NEW q \in S
      PROVE  first[1] < q[1] \/ (first[1] = q[1] /\ first[2] <= q[2])
  <2>1. q = <<q[1], q[2]>> /\ q[1] \in Nat /\ q[2] \in Nat
    OBVIOUS
  <2>2. Min(A) \in Nat /\ Min(A) <= q[1]
    BY <1>1, <1>2
  <2>3. q[1] = Min(A) => q[2] \in B
    BY <2>1
  <2>4. q[1] = Min(A) => Min(B) <= q[2]
    BY <2>3, <1>6
  <2> HIDE DEF A, B
  <2> QED BY <2>1, <2>2, <2>4
<1>9. \E z \in S : \A q \in S : z[1] < q[1] \/ (z[1] = q[1] /\ z[2] <= q[2])
  BY <1>7, <1>8
<1> QED
  BY <1>9

(* The scope, and that the next item is one of those that are left.        *)
LEMMA ScopeTypes ==
  ASSUME input \in Inputs
  PROVE  /\ Identities \in SUBSET Users /\ Bindings \in SUBSET Repositories
         /\ input.atLink \in [Users -> Names \cup {Unknown}]
         /\ IsFiniteSet(Identities) /\ IsFiniteSet(Bindings)
         /\ Users \subseteq Nat \ {0} /\ Repositories \subseteq Nat \ {0}
         /\ Teams \subseteq Nat \ {0} /\ Names \subseteq Nat \ {0}
         /\ IsFiniteSet(Users) /\ IsFiniteSet(Repositories) /\ IsFiniteSet(Teams)
<1>1. input \in Scopes
  BY ObserverAssumption
<1>2. \A S \in {Users, Repositories, Teams, Names} : IsFiniteSet(S) /\ S \subseteq Nat \ {0}
  BY ObserverAssumption
<1>3. /\ Identities \in SUBSET Users /\ Bindings \in SUBSET Repositories
      /\ input.atLink \in [Users -> Names \cup {Unknown}]
  BY <1>1 DEF Scopes, Identities, Bindings
<1>4. IsFiniteSet(Identities) /\ IsFiniteSet(Bindings)
  BY <1>2, <1>3, FS_Subset
<1> QED
  BY <1>2, <1>3, <1>4

LEMMA ItemIsLeft ==
  ASSUME input \in Inputs, graph \in Graphs, left \subseteq Work(stage), left # {}
  PROVE  Item \in left
<1>1. CASE stage = "classify"
  <2>1. left \subseteq Identities \X Bindings
    BY <1>1 DEF Work
  <2>2. left \in SUBSET (Nat \X Nat)
    BY <2>1, ScopeTypes
  <2> QED
    BY <1>1, <2>2, FirstPairIsIn DEF Item
<1>2. CASE stage # "classify"
  <2>1. graph.teams \subseteq Teams
    BY DEF Graphs
  <2>2. Work(stage) \in {graph.teams, Intersecting, Visible, Identities, {0}}
    BY <1>2 DEF Work
  <2>3. Work(stage) \subseteq Nat
    BY <2>1, <2>2, ScopeTypes DEF Intersecting, Visible
  <2>4. left \in SUBSET Nat
    BY <2>3
  <2> QED
    BY <1>2, <2>4, LeastIsIn DEF Item
<1> QED
  BY <1>1, <1>2

(***************************************************************************)
(* The forge stays a forge, whatever is edited.                            *)
(***************************************************************************)
LEMMA ForgeTypes ==
  ASSUME NEW f \in Forges
  PROVE  /\ f.login \in [Users -> Names \cup {Unknown}]
         /\ f.locator \in [Repositories -> Names \cup {Unknown}]
         /\ f.public \in SUBSET Repositories /\ f.direct \in [Repositories -> SUBSET Users]
         /\ f.teams \in SUBSET Teams /\ f.members \in [Teams -> SUBSET Users]
         /\ f.holds \in [Teams -> SUBSET Repositories]
         /\ f.service \in {"bound", "admin", "other"}
         /\ f.organization \in {"bound", "other", "gone"}
         /\ \A a, b \in Users : f.login[a] = f.login[b] /\ a # b => f.login[a] = Unknown
         /\ \A a, b \in Repositories :
              f.locator[a] = f.locator[b] /\ a # b => f.locator[a] = Unknown
  BY DEF Forges, Distinct

LEMMA RenamingKeepsNamesDistinct ==
  ASSUME NEW S, NEW names \in [S -> Names \cup {Unknown}],
         \A a, b \in S : names[a] = names[b] /\ a # b => names[a] = Unknown,
         NEW x \in S, NEW n \in Names \cup {Unknown}
  PROVE  /\ Renamed(names, x, n) \in [S -> Names \cup {Unknown}]
         /\ \A a, b \in S : Renamed(names, x, n)[a] = Renamed(names, x, n)[b] /\ a # b
                              => Renamed(names, x, n)[a] = Unknown
<1>1. Unknown \in Names \cup {Unknown}
  OBVIOUS
<1> QED
  BY <1>1 DEF Renamed

LEMMA EditsKeepForges ==
  ASSUME NEW f \in Forges, NEW g \in Edits(f) PROVE g \in Forges
<1> DEFINE F == [login: [Users -> Names \cup {Unknown}],
                 locator: [Repositories -> Names \cup {Unknown}],
                 public: SUBSET Repositories, direct: [Repositories -> SUBSET Users],
                 teams: SUBSET Teams, members: [Teams -> SUBSET Users],
                 holds: [Teams -> SUBSET Repositories],
                 service: {"bound", "admin", "other"},
                 organization: {"bound", "other", "gone"}]
<1>1. f \in F
  BY DEF Forges
<1>2. ASSUME NEW h \in F, h.login = f.login, h.locator = f.locator PROVE h \in Forges
  BY <1>2, ForgeTypes DEF Forges, Distinct
<1>3. ASSUME NEW S, NEW T \in SUBSET S, NEW x \in S PROVE Toggle(T, x) \in SUBSET S
  BY DEF Toggle
<1>4. ASSUME NEW u \in Users, NEW n \in Names \cup {Unknown},
             g = [f EXCEPT !.login = Renamed(@, u, n)]
      PROVE  g \in Forges
  <2>1. /\ Renamed(f.login, u, n) \in [Users -> Names \cup {Unknown}]
        /\ \A a, b \in Users : Renamed(f.login, u, n)[a] = Renamed(f.login, u, n)[b] /\ a # b
                                 => Renamed(f.login, u, n)[a] = Unknown
    BY ForgeTypes, RenamingKeepsNamesDistinct
  <2>2. g \in F /\ g.login = Renamed(f.login, u, n) /\ g.locator = f.locator
    BY <1>1, <1>4, <2>1
  <2> QED
    BY <2>1, <2>2, ForgeTypes DEF Forges, Distinct
<1>5. ASSUME NEW r \in Repositories, NEW n \in Names \cup {Unknown},
             g = [f EXCEPT !.locator = Renamed(@, r, n)]
      PROVE  g \in Forges
  <2>1. /\ Renamed(f.locator, r, n) \in [Repositories -> Names \cup {Unknown}]
        /\ \A a, b \in Repositories :
             Renamed(f.locator, r, n)[a] = Renamed(f.locator, r, n)[b] /\ a # b
               => Renamed(f.locator, r, n)[a] = Unknown
    BY ForgeTypes, RenamingKeepsNamesDistinct
  <2>2. g \in F /\ g.locator = Renamed(f.locator, r, n) /\ g.login = f.login
    BY <1>1, <1>5, <2>1
  <2> QED
    BY <2>1, <2>2, ForgeTypes DEF Forges, Distinct
<1>6. ASSUME NEW r \in Repositories, g = [f EXCEPT !.public = Toggle(@, r)]
      PROVE  g \in F /\ g.login = f.login /\ g.locator = f.locator
  <2>1. Toggle(f.public, r) \in SUBSET Repositories
    BY <1>3, ForgeTypes
  <2> QED
    BY <1>1, <1>6, <2>1
<1>7. ASSUME NEW r \in Repositories, NEW u \in Users,
             g = [f EXCEPT !.direct[r] = Toggle(@, u)]
      PROVE  g \in F /\ g.login = f.login /\ g.locator = f.locator
  <2>1. Toggle(f.direct[r], u) \in SUBSET Users
    BY <1>3, ForgeTypes
  <2>2. [f.direct EXCEPT ![r] = Toggle(f.direct[r], u)] \in [Repositories -> SUBSET Users]
    BY <2>1, ForgeTypes
  <2> QED
    BY <1>1, <1>7, <2>2
<1>8. ASSUME NEW t \in Teams, NEW u \in Users, g = [f EXCEPT !.members[t] = Toggle(@, u)]
      PROVE  g \in F /\ g.login = f.login /\ g.locator = f.locator
  <2>1. Toggle(f.members[t], u) \in SUBSET Users
    BY <1>3, ForgeTypes
  <2>2. [f.members EXCEPT ![t] = Toggle(f.members[t], u)] \in [Teams -> SUBSET Users]
    BY <2>1, ForgeTypes
  <2> QED
    BY <1>1, <1>8, <2>2
<1>9. ASSUME NEW t \in Teams, NEW r \in Repositories,
             g = [f EXCEPT !.holds[t] = Toggle(@, r)]
      PROVE  g \in F /\ g.login = f.login /\ g.locator = f.locator
  <2>1. Toggle(f.holds[t], r) \in SUBSET Repositories
    BY <1>3, ForgeTypes
  <2>2. [f.holds EXCEPT ![t] = Toggle(f.holds[t], r)] \in [Teams -> SUBSET Repositories]
    BY <2>1, ForgeTypes
  <2> QED
    BY <1>1, <1>9, <2>2
<1>10. ASSUME NEW t \in Teams, g = [f EXCEPT !.teams = Toggle(@, t)]
       PROVE  g \in F /\ g.login = f.login /\ g.locator = f.locator
  <2>1. Toggle(f.teams, t) \in SUBSET Teams
    BY <1>3, ForgeTypes
  <2> QED
    BY <1>1, <1>10, <2>1
<1>11. ASSUME NEW s \in {"bound", "admin", "other"}, g = [f EXCEPT !.service = s]
       PROVE  g \in F /\ g.login = f.login /\ g.locator = f.locator
  BY <1>1, <1>11
<1>12. ASSUME NEW o \in {"bound", "other", "gone"}, g = [f EXCEPT !.organization = o]
       PROVE  g \in F /\ g.login = f.login /\ g.locator = f.locator
  BY <1>1, <1>12
<1> HIDE DEF F
<1> QED
  BY <1>2, <1>4, <1>5, <1>6, <1>7, <1>8, <1>9, <1>10, <1>11, <1>12 DEF Edits

(***************************************************************************)
(* What a page may hold, and what it does to the graph.                    *)
(***************************************************************************)
LEMMA ListedIs ==
  ASSUME Turning
  PROVE  /\ stage = "repositories" =>
              Listed = InOrganization({r \in Repositories : forge.locator[r] # Unknown})
         /\ stage = "members" => Listed = InOrganization(MembersOf(forge))
         /\ stage = "teams" => Listed = InOrganization(forge.teams)
         /\ stage = "teamRepositories" =>
              Listed = {r \in forge.holds[Item] : forge.locator[r] # Unknown}
         /\ stage = "teamMembers" => Listed = Present(forge, forge.members[Item])
         /\ stage = "collaborators" =>
              Listed = UNION {Present(forge, forge.direct[r]) :
                                r \in RepositoryAt(forge, graph.repository[Item])}
  BY DEF Listed

LEMMA SubjectsIs ==
  /\ stage \in {"repositories", "teamRepositories"} => Subjects = Repositories
  /\ stage = "teams" => Subjects = Teams
  /\ stage \in {"members", "teamMembers", "collaborators"} => Subjects = Users
  BY DEF Subjects

LEMMA WorkIs ==
  /\ stage = "teamRepositories" => Work(stage) = graph.teams
  /\ stage = "teamMembers" => Work(stage) = Intersecting
  /\ stage = "collaborators" => Work(stage) = Visible
  /\ stage = "resolve" => Work(stage) = Identities
  /\ stage = "classify" => Work(stage) = Identities \X Bindings
  BY DEF Work

(* The item of a stage is what the stage is about.                         *)
LEMMA ItemTypes ==
  ASSUME SnapshotTypes, left # {}
  PROVE  /\ Item \in left
         /\ stage = "teamRepositories" => Item \in graph.teams /\ Item \in Teams
         /\ stage = "teamMembers" => Item \in Intersecting /\ Item \in Teams
         /\ stage = "collaborators" => Item \in Visible /\ Item \in Repositories
         /\ stage = "resolve" => Item \in Identities /\ Item \in Users
         /\ stage = "classify" => Item \in Identities \X Bindings
<1>1. Item \in left
  BY ItemIsLeft DEF SnapshotTypes
<1>2. Item \in Work(stage)
  BY <1>1 DEF SnapshotTypes
<1>3. graph.teams \subseteq Teams
  BY DEF SnapshotTypes, Graphs
<1>4. Identities \in SUBSET Users /\ Bindings \in SUBSET Repositories
  BY ScopeTypes DEF SnapshotTypes
<1> QED
  BY <1>1, <1>2, <1>3, <1>4, WorkIs DEF Intersecting, Visible

LEMMA ListedTypes ==
  ASSUME SnapshotTypes, Turning
  PROVE  Page \subseteq Listed /\ Listed \subseteq Subjects
<1>1. Page \subseteq Listed
  BY DEF Page
<1>2. forge \in Forges /\ stage \in Listings
  BY DEF SnapshotTypes, Turning
<1>3. MembersOf(forge) \subseteq Users
  BY <1>2, ForgeTypes DEF MembersOf, Present
<1>4. \A S : InOrganization(S) \subseteq S
  BY DEF InOrganization
<1>5. ASSUME stage = "repositories" PROVE Listed \subseteq Subjects
  BY <1>4, <1>5, ListedIs, SubjectsIs
<1>6. ASSUME stage = "members" PROVE Listed \subseteq Subjects
  BY <1>3, <1>4, <1>6, ListedIs, SubjectsIs
<1>7. ASSUME stage = "teams" PROVE Listed \subseteq Subjects
  BY <1>2, <1>4, <1>7, ListedIs, SubjectsIs, ForgeTypes
<1>8. ASSUME stage = "teamRepositories" PROVE Listed \subseteq Subjects
  <2>1. Item \in Teams
    BY <1>8, ItemTypes DEF Turning
  <2> QED
    BY <1>2, <1>8, <2>1, ListedIs, SubjectsIs, ForgeTypes
<1>9. ASSUME stage = "teamMembers" PROVE Listed \subseteq Subjects
  <2>1. Item \in Teams
    BY <1>9, ItemTypes DEF Turning
  <2> QED
    BY <1>2, <1>9, <2>1, ListedIs, SubjectsIs, ForgeTypes DEF Present
<1>10. ASSUME stage = "collaborators" PROVE Listed \subseteq Subjects
  <2>1. \A r \in Repositories : Present(forge, forge.direct[r]) \subseteq Users
    BY <1>2, ForgeTypes DEF Present
  <2> QED
    BY <1>10, <2>1, ListedIs, SubjectsIs DEF RepositoryAt
<1> QED
  BY <1>1, <1>2, <1>5, <1>6, <1>7, <1>8, <1>9, <1>10 DEF Listings

LEMMA MergedTypes ==
  ASSUME NEW S, NEW N, NEW known \in [S -> N], NEW now \in [S -> N], NEW T
  PROVE  Merged(known, now, T) \in [S -> N]
  BY DEF Merged

LEMMA WithUsersIs ==
  ASSUME forge \in Forges, graph \in Graphs, NEW S
  PROVE  /\ WithUsers(S) \in Graphs
         /\ WithUsers(S).login = Merged(graph.login, forge.login, S)
         /\ WithUsers(S).repository = graph.repository /\ WithUsers(S).private = graph.private
         /\ WithUsers(S).listed = graph.listed /\ WithUsers(S).teams = graph.teams
         /\ WithUsers(S).teamRepositories = graph.teamRepositories
         /\ WithUsers(S).teamMembers = graph.teamMembers
         /\ WithUsers(S).collaborators = graph.collaborators
<1>1. Merged(graph.login, forge.login, S) \in [Users -> Names \cup {Unknown}]
  BY ForgeTypes, MergedTypes DEF Graphs
<1> DEFINE m == Merged(graph.login, forge.login, S)
<1> HIDE DEF m
<1>2. WithUsers(S) = [graph EXCEPT !.login = m]
  BY DEF WithUsers, m
<1> QED
  BY <1>1, <1>2 DEF Graphs, m

LEMMA WithRepositoriesIs ==
  ASSUME forge \in Forges, graph \in Graphs, NEW S
  PROVE  /\ WithRepositories(S) \in Graphs
         /\ WithRepositories(S).repository = Merged(graph.repository, forge.locator, S)
         /\ WithRepositories(S).login = graph.login
         /\ WithRepositories(S).listed = graph.listed
         /\ WithRepositories(S).teams = graph.teams
         /\ WithRepositories(S).teamRepositories = graph.teamRepositories
         /\ WithRepositories(S).teamMembers = graph.teamMembers
         /\ WithRepositories(S).collaborators = graph.collaborators
<1> DEFINE closed == [r \in Repositories |-> r \notin forge.public]
           m == Merged(graph.repository, forge.locator, S)
           p == Merged(graph.private, closed, S)
<1>1. m \in [Repositories -> Names \cup {Unknown}]
  BY ForgeTypes, MergedTypes DEF Graphs
<1>2. closed \in [Repositories -> BOOLEAN]
  OBVIOUS
<1>3. graph.private \in [Repositories -> BOOLEAN]
  BY DEF Graphs
<1>4. p \in [Repositories -> BOOLEAN]
  <2> HIDE DEF closed
  <2> QED BY <1>2, <1>3, MergedTypes
<1>5. WithRepositories(S) = [graph EXCEPT !.repository = m, !.private = p]
  BY DEF WithRepositories
<1>6. Merged(graph.repository, forge.locator, S) = m
  OBVIOUS
<1> HIDE DEF m, p, closed
<1> QED
  BY <1>1, <1>4, <1>5, <1>6 DEF Graphs

LEMMA WithPageIs ==
  /\ stage = "repositories" => WithPage = [WithRepositories(Page) EXCEPT !.listed = Seen]
  /\ stage = "teams" => WithPage = [graph EXCEPT !.teams = Seen]
  /\ stage = "teamRepositories" =>
       WithPage = [WithRepositories(Page) EXCEPT !.teamRepositories[Item] = Seen]
  /\ stage = "teamMembers" => WithPage = [WithUsers(Page) EXCEPT !.teamMembers[Item] = Seen]
  /\ stage = "collaborators" => WithPage = [WithUsers(Page) EXCEPT !.collaborators[Item] = Seen]
  /\ stage = "members" => WithPage = WithUsers(Page)
  BY DEF WithPage

LEMMA GraphTurns ==
  ASSUME SnapshotTypes, Turning, graph' = WithPage
  PROVE  /\ graph' \in Graphs
         /\ graph'.login = IF stage \in {"members", "teamMembers", "collaborators"}
                           THEN Merged(graph.login, forge.login, Page) ELSE graph.login
         /\ graph'.repository = IF stage \in {"repositories", "teamRepositories"}
                                THEN Merged(graph.repository, forge.locator, Page)
                                ELSE graph.repository
         /\ graph'.listed = IF stage = "repositories" THEN Seen ELSE graph.listed
         /\ graph'.teams = IF stage = "teams" THEN Seen ELSE graph.teams
         /\ graph'.teamRepositories =
              IF stage = "teamRepositories" THEN [graph.teamRepositories EXCEPT ![Item] = Seen]
              ELSE graph.teamRepositories
         /\ graph'.teamMembers =
              IF stage = "teamMembers" THEN [graph.teamMembers EXCEPT ![Item] = Seen]
              ELSE graph.teamMembers
         /\ graph'.collaborators =
              IF stage = "collaborators" THEN [graph.collaborators EXCEPT ![Item] = Seen]
              ELSE graph.collaborators
<1> DEFINE R == WithRepositories(Page)
           U == WithUsers(Page)
           seen == Seen
           item == Item
<1>1. forge \in Forges /\ graph \in Graphs /\ stage \in Listings /\ left # {}
  BY DEF SnapshotTypes, Turning
<1>2. Seen \subseteq Subjects
  <2>1. stage # "reported"
    BY <1>1 DEF Listings
  <2> QED
    BY <2>1, ListedTypes DEF SnapshotTypes, Seen
<1>3. CASE stage = "repositories"
  <2>1. seen \in SUBSET Repositories
    BY <1>2, <1>3, SubjectsIs
  <2>2. graph' = [R EXCEPT !.listed = seen]
    BY <1>3, WithPageIs
  <2>3. /\ R \in Graphs /\ R.repository = Merged(graph.repository, forge.locator, Page)
        /\ R.login = graph.login /\ R.teams = graph.teams
        /\ R.teamRepositories = graph.teamRepositories
        /\ R.teamMembers = graph.teamMembers /\ R.collaborators = graph.collaborators
    BY <1>1, WithRepositoriesIs
  <2>4. seen = Seen
    OBVIOUS
  <2> HIDE DEF R, seen
  <2> QED
    BY <1>3, <2>1, <2>2, <2>3, <2>4 DEF Graphs
<1>4. CASE stage = "teams"
  <2>1. seen \in SUBSET Teams
    BY <1>2, <1>4, SubjectsIs
  <2>2. graph' = [graph EXCEPT !.teams = seen]
    BY <1>4, WithPageIs
  <2>3. seen = Seen
    OBVIOUS
  <2> HIDE DEF seen
  <2> QED
    BY <1>1, <1>4, <2>1, <2>2, <2>3 DEF Graphs
<1>5. CASE stage = "teamRepositories"
  <2>1. seen \in SUBSET Repositories
    BY <1>2, <1>5, SubjectsIs
  <2>2. graph' = [R EXCEPT !.teamRepositories[item] = seen]
    BY <1>5, WithPageIs
  <2>3. /\ R \in Graphs /\ R.repository = Merged(graph.repository, forge.locator, Page)
        /\ R.login = graph.login /\ R.teams = graph.teams /\ R.listed = graph.listed
        /\ R.teamRepositories = graph.teamRepositories
        /\ R.teamMembers = graph.teamMembers /\ R.collaborators = graph.collaborators
    BY <1>1, WithRepositoriesIs
  <2>4. seen = Seen /\ item = Item
    OBVIOUS
  <2> HIDE DEF R, seen, item
  <2>5. [R.teamRepositories EXCEPT ![item] = seen] \in [Teams -> SUBSET Repositories]
    BY <2>1, <2>3 DEF Graphs
  <2> QED
    BY <1>5, <2>2, <2>3, <2>4, <2>5 DEF Graphs
<1>6. CASE stage = "teamMembers"
  <2>1. seen \in SUBSET Users
    BY <1>2, <1>6, SubjectsIs
  <2>2. graph' = [U EXCEPT !.teamMembers[item] = seen]
    BY <1>6, WithPageIs
  <2>3. /\ U \in Graphs /\ U.login = Merged(graph.login, forge.login, Page)
        /\ U.repository = graph.repository /\ U.teams = graph.teams /\ U.listed = graph.listed
        /\ U.teamRepositories = graph.teamRepositories
        /\ U.teamMembers = graph.teamMembers /\ U.collaborators = graph.collaborators
    BY <1>1, WithUsersIs
  <2>4. seen = Seen /\ item = Item
    OBVIOUS
  <2> HIDE DEF U, seen, item
  <2>5. [U.teamMembers EXCEPT ![item] = seen] \in [Teams -> SUBSET Users]
    BY <2>1, <2>3 DEF Graphs
  <2> QED
    BY <1>6, <2>2, <2>3, <2>4, <2>5 DEF Graphs
<1>7. CASE stage = "collaborators"
  <2>1. seen \in SUBSET Users
    BY <1>2, <1>7, SubjectsIs
  <2>2. graph' = [U EXCEPT !.collaborators[item] = seen]
    BY <1>7, WithPageIs
  <2>3. /\ U \in Graphs /\ U.login = Merged(graph.login, forge.login, Page)
        /\ U.repository = graph.repository /\ U.teams = graph.teams /\ U.listed = graph.listed
        /\ U.teamRepositories = graph.teamRepositories
        /\ U.teamMembers = graph.teamMembers /\ U.collaborators = graph.collaborators
    BY <1>1, WithUsersIs
  <2>4. seen = Seen /\ item = Item
    OBVIOUS
  <2> HIDE DEF U, seen, item
  <2>5. [U.collaborators EXCEPT ![item] = seen] \in [Repositories -> SUBSET Users]
    BY <2>1, <2>3 DEF Graphs
  <2> QED
    BY <1>7, <2>2, <2>3, <2>4, <2>5 DEF Graphs
<1>8. CASE stage = "members"
  BY <1>1, <1>8, WithPageIs, WithUsersIs
<1> QED
  BY <1>1, <1>3, <1>4, <1>5, <1>6, <1>7, <1>8 DEF Listings

(* A merge without a conflict keeps one name for an id, one id for a name. *)
LEMMA MergeStaysInjective ==
  ASSUME NEW known, NEW now, NEW S, ~Conflicting(known, now, S)
  PROVE  Injective(Merged(known, now, S))
  BY DEF Conflicting

LEMMA PageIsSound ==
  ASSUME Turning, PageFailure = "ok"
  PROVE  /\ ~NotFound
         /\ stage \in {"repositories", "teamRepositories"} => ~RepositoriesConflict(Page)
         /\ stage \in {"members", "teamMembers", "collaborators"} => ~UsersConflict(Page)
  BY DEF PageFailure, PageConflicts

(* What is said of the forge is not changed by a step that leaves it.      *)
LEMMA ForgeIsStill ==
  ASSUME UNCHANGED <<forge, input>>
  PROVE  /\ Identities' = Identities /\ Bindings' = Bindings /\ Located' = Located
         /\ MembersOf(forge)' = MembersOf(forge)
         /\ \A u : Findable(u)' <=> Findable(u)
         /\ \A i, r : Truth(i, r)' = Truth(i, r)
<1>1. \A u : Findable(u)' <=> Findable(u)
  BY DEF Findable, Bindings, MembersOf, Present
<1> QED
  BY <1>1 DEF Identities, Bindings, Located, MembersOf, Present, Truth, OnTeam

(***************************************************************************)
(* The steps that ask nothing of the listings.                             *)
(***************************************************************************)
LEMMA InputTypes ==
  ASSUME SnapshotTypes
  PROVE  /\ requests \in Nat /\ RequestLimit \in Nat /\ requests <= RequestLimit
         /\ graph.listed \in SUBSET Repositories /\ graph.teams \in SUBSET Teams
         /\ graph.login \in [Users -> Names \cup {Unknown}]
         /\ graph.repository \in [Repositories -> Names \cup {Unknown}]
<1>1. RequestLimit \in Nat
  BY ObserverAssumption
<1> QED
  BY <1>1 DEF SnapshotTypes, Graphs

LEMMA RequestIsCounted ==
  ASSUME SnapshotTypes, ~Exhausted, Spend
  PROVE  requests' \in 0..RequestLimit /\ requests' = requests + 1
  BY InputTypes DEF Exhausted, Spend

LEMMA ReportKeepsInv ==
  ASSUME ObserverInv, NEW code, Report(code), code # "running", requests' \in 0..RequestLimit,
         code = "complete" => stage = "classify" /\ left = {}
  PROVE  ObserverInv'
<1>1. /\ stage' = "reported" /\ result' = code /\ left' = {}
      /\ UNCHANGED <<forge, changes, input, cursor, graph, unresolved>>
      /\ pairs' = IF code = "complete" THEN pairs ELSE [p \in DOMAIN pairs |-> Unclassified]
  BY DEF Report, world
<1>2. Identities' = Identities /\ Bindings' = Bindings
  BY <1>1 DEF Identities, Bindings
<1>3. SnapshotTypes'
  <2>1. pairs' \in [Identities \X Bindings -> Reasons \cup {Unclassified}]
    BY <1>1 DEF ObserverInv, SnapshotTypes
  <2>2. stage' \in ToSet(Order)
    BY <1>1, StageSet
  <2> QED
    BY <1>1, <1>2, <2>1, <2>2 DEF ObserverInv, SnapshotTypes, Graphs, Ending
<1>4. DoneIsClassified'
  BY <1>1, <1>2 DEF ObserverInv, DoneIsClassified
<1>5. GraphIsInjective'
  BY <1>1 DEF ObserverInv, GraphIsInjective
<1>6. Resolved' /\ BudgetSuffices'
  BY <1>1 DEF Resolved, BudgetSuffices, Ending
<1>7. ASSUME changes' = 0 PROVE GraphIsTrue' /\ PairsAreTrue'
  <2>1. GraphIsTrue /\ PairsAreTrue
    BY <1>1, <1>7 DEF ObserverInv
  <2>2. NamesAreTrue'
    BY <1>1, <2>1, ForgeIsStill DEF GraphIsTrue, NamesAreTrue
  <2>3. OrganizationIsBound' /\ PagesAreTrue' /\ RepositoriesAreTrue'
    BY <1>1, <2>1 DEF GraphIsTrue, OrganizationIsBound, PagesAreTrue, RepositoriesAreTrue,
                      Finished, Turning, Listings, Ending, AfterRepositories, AfterMembers,
                      AfterTeams, AfterTeamRepositories, AfterTeamMembers
  <2>4. MembersAreTrue' /\ TeamsAreTrue' /\ CollaboratorsAreTrue' /\ ResolutionIsTrue'
    BY <1>1 DEF MembersAreTrue, TeamsAreTrue, CollaboratorsAreTrue, ResolutionIsTrue, Finished,
                Ending, AfterMembers, AfterTeams, AfterTeamRepositories, AfterTeamMembers
  <2>5. PairsAreTrue'
    BY <1>1, <1>2, <2>1, ForgeIsStill DEF PairsAreTrue, Exact
  <2> QED
    BY <2>2, <2>3, <2>4, <2>5 DEF GraphIsTrue
<1> QED
  BY <1>3, <1>4, <1>5, <1>6, <1>7 DEF ObserverInv

LEMMA ChangeKeepsInv ==
  ASSUME ObserverInv, Change
  PROVE  ObserverInv'
<1>1. /\ UNCHANGED <<input, stage, left, cursor, requests, graph, unresolved, pairs, result>>
      /\ changes' = changes + 1 /\ forge' \in Edits(forge)
  BY DEF Change
<1>2. forge' \in Forges /\ changes' \in Nat /\ changes' # 0
  BY <1>1, EditsKeepForges DEF ObserverInv, SnapshotTypes
<1>3. /\ Identities' = Identities /\ Bindings' = Bindings /\ Work(stage)' = Work(stage)
      /\ Subjects' = Subjects /\ Turning' = Turning /\ InGraph' = InGraph
      /\ Fallbacks' = Fallbacks /\ Visible' = Visible /\ Pending("resolve")' = Pending("resolve")
  BY <1>1 DEF Identities, Bindings, Work, Subjects, Turning, InGraph, Fallbacks, Visible,
              Intersecting, Travels, Pending
<1>4. SnapshotTypes'
  BY <1>1, <1>2, <1>3 DEF ObserverInv, SnapshotTypes, Graphs
<1>5. DoneIsClassified' /\ GraphIsInjective'
  BY <1>1, <1>3 DEF ObserverInv, DoneIsClassified, GraphIsInjective
<1>6. Resolved' /\ BudgetSuffices'
  BY <1>1, <1>3 DEF ObserverInv, Resolved, BudgetSuffices, Awaited, Wanted
<1> QED
  BY <1>2, <1>4, <1>5, <1>6 DEF ObserverInv

(* A step that only takes an item off the list of one of the first stages. *)
LEMMA OpeningKeepsInv ==
  ASSUME ObserverInv, stage \in {"start", "service", "organization"}, left # {}, Done,
         UNCHANGED <<cursor, graph, unresolved, pairs>>, requests' \in 0..RequestLimit,
         stage = "organization" => forge.organization = "bound"
  PROVE  ObserverInv'
<1>1. /\ left' = {} /\ UNCHANGED <<forge, changes, input, stage, result>>
  <2>1. left \subseteq {0}
    BY DEF ObserverInv, SnapshotTypes, Work
  <2>2. Item \in left
    BY ItemTypes DEF ObserverInv
  <2> QED
    BY <2>1, <2>2 DEF Done, Kept, world
<1>2. Identities' = Identities /\ Bindings' = Bindings /\ Turning' = Turning /\ ~Turning
  BY <1>1 DEF Identities, Bindings, Turning, Listings
<1>3. SnapshotTypes'
  BY <1>1, <1>2 DEF ObserverInv, SnapshotTypes, Graphs, Ending
<1>4. DoneIsClassified' /\ GraphIsInjective' /\ Resolved' /\ BudgetSuffices'
  BY <1>1, <1>2 DEF ObserverInv, SnapshotTypes, DoneIsClassified, GraphIsInjective, Resolved,
                    BudgetSuffices, Ending
<1>5. ASSUME changes' = 0 PROVE GraphIsTrue' /\ PairsAreTrue'
  <2>1. GraphIsTrue /\ PairsAreTrue
    BY <1>1, <1>5 DEF ObserverInv
  <2>2. NamesAreTrue'
    BY <1>1, <2>1, ForgeIsStill DEF GraphIsTrue, NamesAreTrue
  <2>3. OrganizationIsBound' /\ PagesAreTrue' /\ RepositoriesAreTrue'
    BY <1>1, <1>2, <2>1
       DEF GraphIsTrue, OrganizationIsBound, PagesAreTrue, RepositoriesAreTrue,
           Finished, Listings, Ending, AfterRepositories, AfterMembers,
           AfterTeams, AfterTeamRepositories, AfterTeamMembers
  <2>4. MembersAreTrue' /\ TeamsAreTrue' /\ CollaboratorsAreTrue' /\ ResolutionIsTrue'
    BY <1>1 DEF MembersAreTrue, TeamsAreTrue, CollaboratorsAreTrue, ResolutionIsTrue, Finished,
                Ending, AfterMembers, AfterTeams, AfterTeamRepositories, AfterTeamMembers
  <2>5. PairsAreTrue'
    BY <1>1, <1>2, <2>1, ForgeIsStill DEF ObserverInv, SnapshotTypes, PairsAreTrue, Exact
  <2> QED
    BY <2>2, <2>3, <2>4, <2>5 DEF GraphIsTrue
<1> QED
  BY <1>3, <1>4, <1>5 DEF ObserverInv

LEMMA StartKeepsInv ==
  ASSUME ObserverInv, Start
  PROVE  ObserverInv'
<1>1. requests' \in 0..RequestLimit
  BY DEF Start, ObserverInv, SnapshotTypes
<1>2. CASE Report("work_limit_exceeded")
  BY <1>1, <1>2, ReportKeepsInv
<1>3. CASE Done /\ UNCHANGED <<cursor, graph, unresolved, pairs>>
  BY <1>1, <1>3, OpeningKeepsInv DEF Start
<1> QED
  BY <1>2, <1>3 DEF Start

LEMMA VerdictIs ==
  /\ Verdict \in {"service_user_is_admin", "service_user_changed", "invalid_response",
                  "organization_changed", "ok"}
  /\ Verdict = "ok" /\ stage = "organization" =>
       forge.organization \notin {"gone", "other"}
<1>1. CASE stage = "service"
  BY <1>1 DEF Verdict
<1>2. CASE stage # "service"
  BY <1>2 DEF Verdict
<1> QED
  BY <1>1, <1>2

LEMMA VerifyKeepsInv ==
  ASSUME ObserverInv, Verify
  PROVE  ObserverInv'
<1>1. requests' \in 0..RequestLimit
  BY RequestIsCounted DEF Verify, ObserverInv
<1>2. CASE Verdict # "ok"
  <2>1. Report(Verdict)
    BY <1>2 DEF Verify
  <2> QED
    BY <1>1, <2>1, <1>2, VerdictIs, ReportKeepsInv
<1>3. CASE Verdict = "ok"
  <2>1. stage = "organization" => forge.organization = "bound"
    BY <1>3, VerdictIs, ForgeTypes DEF ObserverInv, SnapshotTypes
  <2> QED
    BY <1>1, <1>3, <2>1, OpeningKeepsInv DEF Verify
<1> QED
  BY <1>2, <1>3

LEMMA FailKeepsInv ==
  ASSUME ObserverInv, Fail
  PROVE  ObserverInv'
<1>1. requests' \in 0..RequestLimit
  BY RequestIsCounted DEF Fail, ObserverInv, SnapshotTypes
<1> QED
  BY <1>1, ReportKeepsInv DEF Fail, Failures

(***************************************************************************)
(* From a stage to the next.                                               *)
(***************************************************************************)
LEMMA WorkOf ==
  /\ Work("service") = {0} /\ Work("organization") = {0} /\ Work("repositories") = {0}
  /\ Work("members") = {0} /\ Work("teams") = {0} /\ Work("teamRepositories") = graph.teams
  /\ Work("teamMembers") = Intersecting /\ Work("collaborators") = Visible
  /\ Work("resolve") = Identities /\ Work("classify") = Identities \X Bindings
<1>1. Work("service") = {0} /\ Work("organization") = {0} /\ Work("repositories") = {0}
  BY DEF Work
<1>2. Work("members") = {0} /\ Work("teams") = {0} /\ Work("teamRepositories") = graph.teams
  BY DEF Work
<1>3. Work("teamMembers") = Intersecting /\ Work("collaborators") = Visible
  BY DEF Work
<1>4. Work("resolve") = Identities /\ Work("classify") = Identities \X Bindings
  BY DEF Work
<1> QED
  BY <1>1, <1>2, <1>3, <1>4

LEMMA AdvanceIs ==
  ASSUME SnapshotTypes, stage \notin {"reported", "classify"},
         stage' = NextStage, left' = Work(NextStage)
  PROVE  \/ stage = "start" /\ stage' = "service" /\ left' = {0}
         \/ stage = "service" /\ stage' = "organization" /\ left' = {0}
         \/ stage = "organization" /\ stage' = "repositories" /\ left' = {0}
         \/ stage = "repositories" /\ stage' = "members" /\ left' = {0}
         \/ stage = "members" /\ stage' = "teams" /\ left' = {0}
         \/ stage = "teams" /\ stage' = "teamRepositories" /\ left' = graph.teams
         \/ stage = "teamRepositories" /\ stage' = "teamMembers" /\ left' = Intersecting
         \/ stage = "teamMembers" /\ stage' = "collaborators" /\ left' = Visible
         \/ stage = "collaborators" /\ stage' = "resolve" /\ left' = Identities
         \/ stage = "resolve" /\ stage' = "classify" /\ left' = Identities \X Bindings
<1>1. stage \in ToSet(Order)
  BY DEF SnapshotTypes
<1> QED
  BY <1>1, StageSet, NextStageIs, WorkOf

LEMMA UsersAreFinite ==
  ASSUME SnapshotTypes
  PROVE  /\ IsFiniteSet(InGraph) /\ IsFiniteSet(Fallbacks) /\ IsFiniteSet(Visible)
         /\ InGraph \subseteq Identities /\ Fallbacks \subseteq Identities
         /\ Visible \subseteq Bindings
<1>1. /\ InGraph \subseteq Identities /\ Fallbacks \subseteq Identities
      /\ Visible \subseteq Bindings
  BY DEF InGraph, Fallbacks, Visible
<1>2. IsFiniteSet(Identities) /\ IsFiniteSet(Bindings)
  BY ScopeTypes DEF SnapshotTypes
<1> QED
  BY <1>1, <1>2, FS_Subset

LEMMA AdvanceKeepsBudget ==
  ASSUME ObserverInv, stage \notin {"reported", "classify"}, left = {},
         stage = "collaborators" => Reserved,
         stage' = NextStage, left' = Work(NextStage),
         UNCHANGED <<world, input, cursor, graph, unresolved, pairs, result, requests>>
  PROVE  Resolved' /\ BudgetSuffices'
<1>1. /\ Identities' = Identities /\ Bindings' = Bindings /\ InGraph' = InGraph
      /\ Fallbacks' = Fallbacks /\ Visible' = Visible
      /\ UNCHANGED <<requests, unresolved, graph>>
  BY DEF Identities, Bindings, InGraph, Fallbacks, Visible, Travels
<1>2. /\ stage' = "resolve" => stage = "collaborators" /\ left' = Identities
      /\ stage' = "classify" => stage = "resolve" /\ left' = Identities \X Bindings
  BY AdvanceIs DEF ObserverInv
<1>3. stage = "resolve" => Identities \subseteq InGraph \cup unresolved
  BY DEF ObserverInv, Resolved, Pending, Ending
<1>4. Resolved'
  BY <1>1, <1>2, <1>3 DEF Resolved, Pending, Ending
<1>5. ASSUME stage' = "resolve"
      PROVE  (Cardinality(Awaited) + Cardinality(InGraph \cup Awaited) * Cardinality(Visible)
                <= RequestLimit - requests)'
  <2>1. Awaited' = Fallbacks
    BY <1>1, <1>2, <1>5 DEF Awaited, Fallbacks
  <2>2. WorstCase <= RequestLimit - requests
    BY <1>2, <1>5 DEF Reserved
  <2> QED
    BY <1>1, <2>1, <2>2 DEF WorstCase
<1>6. ASSUME stage' = "classify"
      PROVE  (Cardinality(Wanted) <= RequestLimit - requests)'
  <2>1. Wanted' \subseteq InGraph \X Visible
    BY <1>1, <1>2, <1>3, <1>6 DEF Wanted, Visible
  <2>2. IsFiniteSet(InGraph) /\ IsFiniteSet(Visible)
    BY UsersAreFinite DEF ObserverInv
  <2>3. /\ IsFiniteSet(InGraph \X Visible)
        /\ Cardinality(InGraph \X Visible) = Cardinality(InGraph) * Cardinality(Visible)
    BY <2>2, FS_Product
  <2>4. Cardinality(Wanted') <= Cardinality(InGraph \X Visible) /\ Cardinality(Wanted') \in Nat
    BY <2>1, <2>3, FS_Subset, FS_CardinalityType
  <2>5. Awaited = {}
    BY DEF Awaited
  <2>6. Cardinality({}) = 0 /\ InGraph \cup {} = InGraph
    BY FS_EmptySet
  <2>7. 0 + Cardinality(InGraph) * Cardinality(Visible) <= RequestLimit - requests
    BY <1>2, <1>6, <2>5, <2>6 DEF ObserverInv, BudgetSuffices
  <2>8. requests \in Nat /\ RequestLimit \in Nat
    BY InputTypes DEF ObserverInv
  <2>9. Cardinality(InGraph \X Visible) \in Nat
    BY <2>3, FS_CardinalityType
  <2>10. Cardinality(InGraph \X Visible) <= RequestLimit - requests
    BY <2>3, <2>7, <2>9
  <2>11. requests' = requests
    BY <1>1
  <2> QED
    BY <2>4, <2>8, <2>9, <2>10, <2>11
<1> QED
  BY <1>4, <1>5, <1>6 DEF BudgetSuffices

LEMMA AdvanceKeepsInv ==
  ASSUME ObserverInv, stage \notin {"reported", "classify"}, left = {},
         stage = "collaborators" => Reserved,
         stage' = NextStage, left' = Work(NextStage),
         UNCHANGED <<world, input, cursor, graph, unresolved, pairs, result, requests>>
  PROVE  ObserverInv'
<1>1. UNCHANGED <<forge, changes, input, cursor, graph, unresolved, pairs, result, requests>>
  BY DEF world
<1>2. /\ Identities' = Identities /\ Bindings' = Bindings /\ Intersecting' = Intersecting
      /\ Visible' = Visible
  BY <1>1 DEF Identities, Bindings, Intersecting, Visible
<1> DEFINE Moves ==
  \/ stage = "start" /\ stage' = "service" /\ left' = {0}
  \/ stage = "service" /\ stage' = "organization" /\ left' = {0}
  \/ stage = "organization" /\ stage' = "repositories" /\ left' = {0}
  \/ stage = "repositories" /\ stage' = "members" /\ left' = {0}
  \/ stage = "members" /\ stage' = "teams" /\ left' = {0}
  \/ stage = "teams" /\ stage' = "teamRepositories" /\ left' = graph.teams
  \/ stage = "teamRepositories" /\ stage' = "teamMembers" /\ left' = Intersecting
  \/ stage = "teamMembers" /\ stage' = "collaborators" /\ left' = Visible
  \/ stage = "collaborators" /\ stage' = "resolve" /\ left' = Identities
  \/ stage = "resolve" /\ stage' = "classify" /\ left' = Identities \X Bindings
<1>3. Moves
  BY AdvanceIs DEF ObserverInv
<1>4. left' \subseteq Work(stage)' /\ stage' \in ToSet(Order) /\ stage' # "reported"
  <2>1. Work(stage)' = Work(NextStage)
    BY <1>1, <1>2 DEF Work
  <2> QED
    BY <1>3, <2>1, StageSet
<1>5. cursor.seen = {}
  BY DEF ObserverInv, SnapshotTypes, Turning
<1>6. SnapshotTypes'
  <2>1. stage' \notin Ending => unresolved = {}
    BY <1>3 DEF ObserverInv, SnapshotTypes, Ending
  <2>2. stage' = "resolve" => unresolved = {}
    BY <1>3 DEF ObserverInv, SnapshotTypes, Ending
  <2> QED
    BY <1>1, <1>2, <1>4, <1>5, <2>1, <2>2 DEF ObserverInv, SnapshotTypes, Graphs
<1>7. DoneIsClassified' /\ GraphIsInjective'
  BY <1>1, <1>2, <1>3 DEF ObserverInv, DoneIsClassified, GraphIsInjective
<1>8. Resolved' /\ BudgetSuffices'
  BY AdvanceKeepsBudget
<1>9. ASSUME changes' = 0 PROVE GraphIsTrue' /\ PairsAreTrue'
  <2>1. GraphIsTrue /\ PairsAreTrue
    BY <1>1, <1>9 DEF ObserverInv
  <2>2. NamesAreTrue'
    BY <1>1, <2>1, ForgeIsStill DEF GraphIsTrue, NamesAreTrue
  <2>3. OrganizationIsBound'
    BY <1>1, <1>3, <2>1 DEF GraphIsTrue, OrganizationIsBound, Finished, Listings, Ending
  <2>4. PagesAreTrue'
    BY <1>1, <1>5 DEF PagesAreTrue
  <2>5. RepositoriesAreTrue'
    <3>1. Finished("repositories", AfterRepositories)' =>
            Finished("repositories", AfterRepositories)
      BY <1>3 DEF Finished, Ending, AfterRepositories, AfterMembers,
                  AfterTeams, AfterTeamRepositories, AfterTeamMembers
    <3> QED
      BY <1>1, <2>1, <3>1, ForgeIsStill DEF GraphIsTrue, RepositoriesAreTrue
  <2>6. MembersAreTrue'
    <3>1. Finished("members", AfterMembers)' => Finished("members", AfterMembers)
      BY <1>3 DEF Finished, Ending, AfterMembers,
                  AfterTeams, AfterTeamRepositories, AfterTeamMembers
    <3> QED
      BY <1>1, <2>1, <3>1, ForgeIsStill DEF GraphIsTrue, MembersAreTrue
  <2>7. TeamsAreTrue'
    <3>1. Finished("teams", AfterTeams)' => Finished("teams", AfterTeams)
      BY <1>3 DEF Finished, Ending, AfterTeams, AfterTeamRepositories, AfterTeamMembers
    <3>2. (stage \in AfterTeams)' =>
            \/ stage' = "teamRepositories" /\ graph.teams \ left' = {}
            \/ stage \in AfterTeams /\ Pending("teamRepositories") = {}
      BY <1>3 DEF Ending, AfterTeams, AfterTeamRepositories, AfterTeamMembers, Pending
    <3>3. (stage \in AfterTeamRepositories)' =>
            \/ stage' = "teamMembers" /\ Intersecting \ left' = {}
            \/ stage \in AfterTeamRepositories /\ Pending("teamMembers") = {}
      BY <1>3 DEF Ending, AfterTeamRepositories, AfterTeamMembers, Pending
    <3>4. TeamsAreTrue
      BY <2>1 DEF GraphIsTrue
    <3>5. (stage \in AfterTeams)' => \A t \in graph.teams \ Pending("teamRepositories")' :
            graph.teamRepositories[t] = {r \in forge.holds[t] : forge.locator[r] # Unknown}
      BY <3>2, <3>4 DEF TeamsAreTrue, Pending
    <3>6. (stage \in AfterTeamRepositories)' =>
            \A t \in Intersecting \ Pending("teamMembers")' :
              graph.teamMembers[t] = Present(forge, forge.members[t])
      BY <3>3, <3>4 DEF TeamsAreTrue, Pending
    <3> QED
      BY <1>1, <1>2, <3>1, <3>4, <3>5, <3>6 DEF TeamsAreTrue, Present
  <2>8. CollaboratorsAreTrue'
    <3>1. (stage \in AfterTeamMembers)' =>
            \/ stage' = "collaborators" /\ Visible \ left' = {}
            \/ stage \in AfterTeamMembers /\ Pending("collaborators") = {}
      BY <1>3 DEF Ending, AfterTeamMembers, Pending
    <3>2. CollaboratorsAreTrue
      BY <2>1 DEF GraphIsTrue
    <3> QED
      BY <1>1, <1>2, <3>1, <3>2 DEF CollaboratorsAreTrue, Pending, Present
  <2>9. ResolutionIsTrue'
    <3>1. (stage \in Ending)' =>
            \/ stage' = "resolve" /\ Identities \ left' = {}
            \/ stage \in Ending /\ Pending("resolve") = {}
      BY <1>3 DEF Ending, Pending
    <3>2. ResolutionIsTrue
      BY <2>1 DEF GraphIsTrue
    <3> QED
      BY <1>1, <1>2, <3>1, <3>2, ForgeIsStill DEF ResolutionIsTrue, Pending
  <2>10. PairsAreTrue'
    BY <1>1, <1>2, <1>3, <2>1, ForgeIsStill DEF PairsAreTrue, Exact
  <2> QED
    BY <2>2, <2>3, <2>4, <2>5, <2>6, <2>7, <2>8, <2>9, <2>10 DEF GraphIsTrue
<1> QED
  BY <1>6, <1>7, <1>8, <1>9 DEF ObserverInv

LEMMA ProceedKeepsInv ==
  ASSUME ObserverInv, Proceed
  PROVE  ObserverInv'
<1>1. requests' \in 0..RequestLimit /\ requests' = requests
  BY DEF Proceed, ObserverInv, SnapshotTypes
<1>2. CASE stage = "collaborators" /\ ~Reserved
  <2>1. Report("work_limit_exceeded")
    BY <1>2 DEF Proceed
  <2> QED
    BY <1>1, <2>1, ReportKeepsInv
<1>3. CASE stage = "classify"
  <2>1. Report("complete")
    BY <1>3 DEF Proceed
  <2>2. left = {}
    BY DEF Proceed
  <2> QED
    BY <1>1, <1>3, <2>1, <2>2, ReportKeepsInv
<1>4. CASE stage # "classify" /\ ~(stage = "collaborators" /\ ~Reserved)
  <2>1. /\ stage' = NextStage /\ left' = Work(NextStage)
        /\ UNCHANGED <<world, input, cursor, graph, unresolved, pairs, result>>
    BY <1>4 DEF Proceed
  <2>2. stage # "reported" /\ left = {}
    BY DEF Proceed
  <2> QED
    BY <1>1, <1>4, <2>1, <2>2, AdvanceKeepsInv
<1> QED
  BY <1>2, <1>3, <1>4

(***************************************************************************)
(* The listings, page by page.                                             *)
(***************************************************************************)

(* A listing is complete when as many ids were seen as there are, for the  *)
(* seen ones are among them.                                               *)
LEMMA LastPageHasAll ==
  ASSUME SnapshotTypes, Turning, cursor.seen \subseteq Listed, LastPage
  PROVE  Seen = Listed
<1>1. Listed \subseteq Subjects /\ Page \subseteq Listed
  BY ListedTypes
<1>2. IsFiniteSet(Subjects)
  BY SubjectsIs, ScopeTypes DEF SnapshotTypes, Turning, Listings
<1>3. IsFiniteSet(Listed)
  BY <1>1, <1>2, FS_Subset
<1>4. Seen \in SUBSET Listed
  BY <1>1 DEF Seen
<1>5. Cardinality(Listed) = Cardinality(Seen)
  BY DEF LastPage, Total
<1> QED
  BY <1>3, <1>4, <1>5, FS_Subset

(* In a forge that nobody edits the locator leads to the repository.       *)
LEMMA CollaboratorsListed ==
  ASSUME SnapshotTypes, GraphIsTrue, Turning, stage = "collaborators"
  PROVE  /\ Item \in Visible /\ Item \in Bindings /\ Item \in Repositories
         /\ forge.locator[Item] # Unknown
         /\ Listed = Present(forge, forge.direct[Item])
<1>1. Item \in Visible /\ Item \in Repositories
  BY ItemTypes DEF Turning
<1>2. Item \in graph.listed /\ Item \in Bindings
  BY <1>1 DEF Visible
<1>3. graph.repository[Item] # Unknown /\ graph.repository[Item] = forge.locator[Item]
  BY <1>1, <1>2 DEF GraphIsTrue, RepositoriesAreTrue, NamesAreTrue
<1>4. RepositoryAt(forge, graph.repository[Item]) = {Item}
  BY <1>1, <1>3, ForgeTypes DEF SnapshotTypes, RepositoryAt
<1>5. Listed = UNION {Present(forge, forge.direct[r]) : r \in {Item}}
  BY <1>4, ListedIs
<1> QED
  BY <1>1, <1>2, <1>3, <1>5

(* Whoever a listing shows has a name and can be found.                    *)
LEMMA ListedUsersAreFindable ==
  ASSUME SnapshotTypes, GraphIsTrue, Turning, NEW u \in Listed,
         stage \in {"members", "teamMembers", "collaborators"}
  PROVE  forge.login[u] # Unknown /\ Findable(u)
<1>1. CASE stage = "members"
  BY <1>1, ListedIs DEF InOrganization, MembersOf, Present, Findable
<1>2. CASE stage = "teamMembers"
  <2>1. Item \in graph.teams
    BY <1>2, ItemTypes DEF Turning, Intersecting
  <2>2. graph.teams = forge.teams
    BY <1>2 DEF GraphIsTrue, TeamsAreTrue, Finished, AfterTeams, AfterTeamRepositories
  <2>3. u \in Present(forge, forge.members[Item])
    BY <1>2, ListedIs
  <2> QED
    BY <2>1, <2>2, <2>3 DEF MembersOf, Present, Findable
<1>3. CASE stage = "collaborators"
  BY <1>3, CollaboratorsListed DEF Present, Findable
<1> QED
  BY <1>1, <1>2, <1>3

LEMMA ListedStays ==
  ASSUME Turning, UNCHANGED <<forge, stage, left>>,
         stage = "collaborators" => graph'.repository = graph.repository
  PROVE  Listed' = Listed
<1>1. Item' = Item
  BY DEF Item
<1>2. CASE stage = "repositories"
  <2>1. Listed' = InOrganization({r \in Repositories : forge.locator[r] # Unknown})'
    BY <1>2 DEF Listed
  <2> QED
    BY <1>2, <2>1, ListedIs DEF InOrganization
<1>3. CASE stage = "members"
  <2>1. Listed' = InOrganization(MembersOf(forge))'
    BY <1>3 DEF Listed
  <2> QED
    BY <1>3, <2>1, ListedIs DEF InOrganization, MembersOf, Present
<1>4. CASE stage = "teams"
  <2>1. Listed' = InOrganization(forge.teams)'
    BY <1>4 DEF Listed
  <2> QED
    BY <1>4, <2>1, ListedIs DEF InOrganization
<1>5. CASE stage = "teamRepositories"
  <2>1. Listed' = {r \in forge.holds[Item] : forge.locator[r] # Unknown}'
    BY <1>5 DEF Listed
  <2> QED
    BY <1>1, <1>5, <2>1, ListedIs
<1>6. CASE stage = "teamMembers"
  <2>1. Listed' = Present(forge, forge.members[Item])'
    BY <1>6 DEF Listed
  <2> QED
    BY <1>1, <1>6, <2>1, ListedIs DEF Present
<1>7. CASE stage = "collaborators"
  <2>1. Listed' = (UNION {Present(forge, forge.direct[r]) :
                            r \in RepositoryAt(forge, graph.repository[Item])})'
    BY <1>7 DEF Listed
  <2> QED
    BY <1>1, <1>7, <2>1, ListedIs DEF Present, RepositoryAt
<1> QED
  BY <1>2, <1>3, <1>4, <1>5, <1>6, <1>7 DEF Turning, Listings

LEMMA PageTypes ==
  ASSUME ObserverInv, Turning, PageFailure = "ok", graph' = WithPage,
         cursor' = IF LastPage THEN NewCursor
                   ELSE [page |-> cursor.page + 1, total |-> Total, seen |-> Seen],
         left' = IF LastPage THEN left \ {Item} ELSE left,
         Kept, UNCHANGED <<unresolved, pairs>>, requests' \in 0..RequestLimit
  PROVE  SnapshotTypes' /\ DoneIsClassified' /\ GraphIsInjective' /\ Resolved' /\ BudgetSuffices'
<1>1. UNCHANGED <<forge, changes, input, stage, result, unresolved, pairs>>
  BY DEF Kept, world
<1>2. stage \in Listings /\ stage \notin Ending /\ stage # "reported" /\ result = "running"
  BY DEF ObserverInv, SnapshotTypes, Turning, Listings, Ending
<1>3. Identities' = Identities /\ Bindings' = Bindings
  BY <1>1 DEF Identities, Bindings
<1>4. /\ graph' \in Graphs
      /\ graph'.teams = IF stage = "teams" THEN Seen ELSE graph.teams
      /\ graph'.listed = IF stage = "repositories" THEN Seen ELSE graph.listed
      /\ stage # "teamRepositories" => graph'.teamRepositories = graph.teamRepositories
  BY GraphTurns DEF ObserverInv
<1>5. left' \subseteq Work(stage)'
  <2>1. left' \subseteq left /\ left \subseteq Work(stage)
    BY DEF ObserverInv, SnapshotTypes
  <2>2. CASE stage = "teamRepositories"
    <3>1. Work(stage)' = graph.teams
      BY <1>1, <1>4, <2>2 DEF Work
    <3> QED
      BY <2>1, <2>2, <3>1, WorkIs
  <2>3. CASE stage = "teamMembers"
    <3>1. Work(stage)' = Intersecting'
      BY <1>1, <2>3 DEF Work
    <3>2. Intersecting' = Intersecting
      BY <1>3, <1>4, <2>3 DEF Intersecting
    <3> QED
      BY <2>1, <2>3, <3>1, <3>2, WorkIs
  <2>4. CASE stage = "collaborators"
    <3>1. Work(stage)' = Visible'
      BY <1>1, <2>4 DEF Work
    <3>2. Visible' = Visible
      BY <1>3, <1>4, <2>4 DEF Visible
    <3> QED
      BY <2>1, <2>4, <3>1, <3>2, WorkIs
  <2>5. CASE stage \in {"repositories", "members", "teams"}
    <3>1. Work(stage)' = {0} /\ Work(stage) = {0}
      BY <1>1, <2>5 DEF Work
    <3> QED
      BY <2>1, <3>1
  <2> QED
    BY <1>2, <2>2, <2>3, <2>4, <2>5 DEF Listings
<1>6. cursor'.seen \subseteq IF Turning' THEN Subjects' ELSE {}
  <2>1. CASE LastPage
    BY <2>1 DEF NewCursor
  <2>2. CASE ~LastPage
    <3>1. Turning'
      BY <1>1, <2>2 DEF Turning
    <3>2. Subjects' = Subjects
      BY <1>1 DEF Subjects
    <3>3. Seen \subseteq Subjects
      BY <1>2, ListedTypes DEF ObserverInv, SnapshotTypes, Seen
    <3> QED
      BY <2>2, <3>1, <3>2, <3>3
  <2> QED
    BY <2>1, <2>2
<1>7. SnapshotTypes'
  BY <1>1, <1>2, <1>3, <1>4, <1>5, <1>6 DEF ObserverInv, SnapshotTypes, Ending
<1>8. DoneIsClassified' /\ Resolved' /\ BudgetSuffices'
  BY <1>1, <1>2 DEF DoneIsClassified, Resolved, BudgetSuffices, Listings, Ending
<1>9. GraphIsInjective'
  <2>1. /\ graph'.login \in {graph.login, Merged(graph.login, forge.login, Page)}
        /\ graph'.repository \in {graph.repository, Merged(graph.repository, forge.locator, Page)}
        /\ stage \notin {"members", "teamMembers", "collaborators"} => graph'.login = graph.login
        /\ stage \notin {"repositories", "teamRepositories"} => graph'.repository = graph.repository
    BY GraphTurns DEF ObserverInv
  <2>2. stage \in {"members", "teamMembers", "collaborators"} =>
          Injective(Merged(graph.login, forge.login, Page))
    BY PageIsSound, MergeStaysInjective DEF UsersConflict
  <2>3. stage \in {"repositories", "teamRepositories"} =>
          Injective(Merged(graph.repository, forge.locator, Page))
    BY PageIsSound, MergeStaysInjective DEF RepositoriesConflict
  <2>4. Injective(graph.login) /\ Injective(graph.repository)
    BY DEF ObserverInv, GraphIsInjective
  <2>5. Injective(graph'.login) /\ Injective(graph'.repository)
    BY <2>1, <2>2, <2>3, <2>4
  <2> QED
    BY <2>5 DEF GraphIsInjective, Injective
<1> QED
  BY <1>7, <1>8, <1>9

(* What a page adds when nobody edits the forge: names are only gained.    *)
LEMMA PageAddsNames ==
  ASSUME SnapshotTypes, GraphIsTrue, Turning, graph' = WithPage
  PROVE  /\ \A u \in Users : /\ graph'.login[u] \in {Unknown, forge.login[u]}
                             /\ graph.login[u] # Unknown => graph'.login[u] # Unknown
                             /\ graph'.login[u] # Unknown => Findable(u)
         /\ \A r \in Repositories : /\ graph'.repository[r] \in {Unknown, forge.locator[r]}
                                    /\ graph.repository[r] # Unknown => graph'.repository[r] # Unknown
         /\ stage \in {"members", "collaborators"} => \A u \in Page : graph'.login[u] # Unknown
         /\ stage \in {"repositories", "teamRepositories"} =>
              \A r \in Page : r \in Located /\ graph'.repository[r] # Unknown
<1> DEFINE byUser == stage \in {"members", "teamMembers", "collaborators"}
           byRepository == stage \in {"repositories", "teamRepositories"}
<1>1. /\ graph'.login = IF byUser THEN Merged(graph.login, forge.login, Page) ELSE graph.login
      /\ graph'.repository = IF byRepository THEN Merged(graph.repository, forge.locator, Page)
                             ELSE graph.repository
  BY GraphTurns
<1>2. Page \subseteq Listed /\ Listed \subseteq Subjects
  BY ListedTypes
<1>3. /\ graph.login \in [Users -> Names \cup {Unknown}]
      /\ graph.repository \in [Repositories -> Names \cup {Unknown}]
  BY InputTypes
<1>4. /\ \A u \in Users : graph.login[u] \in {Unknown, forge.login[u]}
      /\ \A r \in Repositories : graph.repository[r] \in {Unknown, forge.locator[r]}
      /\ \A u \in Users : graph.login[u] # Unknown => Findable(u)
  BY DEF GraphIsTrue, NamesAreTrue
<1>5. byUser => \A u \in Page : u \in Users /\ forge.login[u] # Unknown /\ Findable(u)
  BY <1>2, ListedUsersAreFindable, SubjectsIs
<1>6. byRepository => \A r \in Page : r \in Repositories /\ forge.locator[r] # Unknown
  <2>1. stage = "repositories" => \A r \in Page : forge.locator[r] # Unknown
    BY <1>2, ListedIs DEF InOrganization
  <2>2. stage = "teamRepositories" => \A r \in Page : forge.locator[r] # Unknown
    BY <1>2, ListedIs
  <2>3. byRepository => Page \subseteq Repositories
    BY <1>2, SubjectsIs
  <2> QED
    BY <2>1, <2>2, <2>3
<1>7. ASSUME NEW u \in Users
      PROVE  Merged(graph.login, forge.login, Page)[u]
               = IF u \in Page THEN forge.login[u] ELSE graph.login[u]
  BY <1>3 DEF Merged
<1>8. ASSUME NEW r \in Repositories
      PROVE  Merged(graph.repository, forge.locator, Page)[r]
               = IF r \in Page THEN forge.locator[r] ELSE graph.repository[r]
  BY <1>3 DEF Merged
<1>9. CASE byUser
  <2>1. \A u \in Users : graph'.login[u] = IF u \in Page THEN forge.login[u] ELSE graph.login[u]
    BY <1>1, <1>7, <1>9
  <2>2. graph'.repository = graph.repository /\ ~byRepository
    BY <1>1, <1>9
  <2>3. \A u \in Page : u \in Users /\ forge.login[u] # Unknown /\ Findable(u)
    BY <1>5, <1>9
  <2> QED
    BY <1>4, <2>1, <2>2, <2>3
<1>10. CASE byRepository
  <2>1. \A r \in Repositories :
          graph'.repository[r] = IF r \in Page THEN forge.locator[r] ELSE graph.repository[r]
    BY <1>1, <1>8, <1>10
  <2>2. graph'.login = graph.login /\ ~byUser
    BY <1>1, <1>10
  <2>3. \A r \in Page : r \in Repositories /\ forge.locator[r] # Unknown
    BY <1>6, <1>10
  <2> QED
    BY <1>4, <2>1, <2>2, <2>3 DEF Located
<1>11. CASE ~byUser /\ ~byRepository
  BY <1>1, <1>4, <1>11
<1> QED
  BY <1>9, <1>10, <1>11

LEMMA PageStaysTrue ==
  ASSUME SnapshotTypes, GraphIsTrue, Turning, graph' = WithPage,
         cursor' = IF LastPage THEN NewCursor
                   ELSE [page |-> cursor.page + 1, total |-> Total, seen |-> Seen],
         left' = IF LastPage THEN left \ {Item} ELSE left,
         Kept
  PROVE  GraphIsTrue'
<1>1. UNCHANGED <<forge, changes, input, stage, result>>
  BY DEF Kept, world
<1>2. stage \in Listings /\ stage \notin Ending /\ left # {} /\ Item \in left
  BY ItemTypes DEF Turning, Listings, Ending
<1>3. Identities' = Identities /\ Bindings' = Bindings
  BY <1>1 DEF Identities, Bindings
<1>4. /\ cursor.seen \subseteq Listed /\ Page \subseteq Listed
      /\ stage \in {"members", "collaborators"} => \A u \in cursor.seen : graph.login[u] # Unknown
      /\ stage = "repositories" => \A r \in cursor.seen : graph.repository[r] # Unknown
  BY ListedTypes DEF GraphIsTrue, PagesAreTrue
<1>5. LastPage => Seen = Listed
  BY <1>4, LastPageHasAll
<1>6. /\ cursor.seen \subseteq Subjects /\ Page \subseteq Subjects /\ Seen = cursor.seen \cup Page
      /\ stage \in {"members", "collaborators"} => Subjects = Users
      /\ stage = "repositories" => Subjects = Repositories
  BY <1>2, ListedTypes, SubjectsIs DEF SnapshotTypes, Seen, Listings
<1>7. /\ graph'.listed = IF stage = "repositories" THEN Seen ELSE graph.listed
      /\ graph'.teams = IF stage = "teams" THEN Seen ELSE graph.teams
      /\ graph'.teamRepositories =
           IF stage = "teamRepositories" THEN [graph.teamRepositories EXCEPT ![Item] = Seen]
           ELSE graph.teamRepositories
      /\ graph'.teamMembers =
           IF stage = "teamMembers" THEN [graph.teamMembers EXCEPT ![Item] = Seen]
           ELSE graph.teamMembers
      /\ graph'.collaborators =
           IF stage = "collaborators" THEN [graph.collaborators EXCEPT ![Item] = Seen]
           ELSE graph.collaborators
  BY GraphTurns
<1>8. stage \in {"members", "collaborators"} => \A u \in Seen : graph'.login[u] # Unknown
  BY <1>4, <1>6, PageAddsNames
<1>9. stage = "repositories" => \A r \in Seen : graph'.repository[r] # Unknown
  BY <1>4, <1>6, PageAddsNames
<1>10. left' = {} => LastPage
  BY <1>2
<1>11. forge.organization = "bound"
  BY <1>2 DEF GraphIsTrue, OrganizationIsBound, Finished
<1>12. NamesAreTrue'
  BY <1>1, PageAddsNames, ForgeIsStill DEF NamesAreTrue
<1>13. OrganizationIsBound'
  BY <1>1, <1>11 DEF OrganizationIsBound
<1>14. PagesAreTrue'
  <2>1. CASE LastPage
    BY <2>1 DEF PagesAreTrue, NewCursor
  <2>2. CASE ~LastPage
    <3>1. left' = left /\ cursor'.seen = Seen
      BY <2>2
    <3>2. stage = "collaborators" => graph'.repository = graph.repository
      BY GraphTurns
    <3>3. Listed' = Listed
      BY <1>1, <3>1, <3>2, ListedStays
    <3> QED
      BY <1>1, <1>4, <1>6, <1>8, <1>9, <3>1, <3>3 DEF PagesAreTrue
  <2> QED
    BY <2>1, <2>2
<1>15. RepositoriesAreTrue'
  <2>1. ASSUME NEW r \in graph'.listed PROVE graph'.repository[r] # Unknown
    <3>1. CASE stage = "repositories"
      BY <1>7, <1>9, <2>1, <3>1
    <3>2. CASE stage # "repositories"
      <4>1. r \in graph.listed /\ r \in Repositories
        BY <1>7, <2>1, <3>2, InputTypes
      <4> QED
        BY <4>1, PageAddsNames DEF GraphIsTrue, RepositoriesAreTrue
    <3> QED
      BY <3>1, <3>2
  <2>2. ASSUME stage = "repositories", left' = {} PROVE graph'.listed = Located
    <3>1. Listed = Located
      BY <1>11, <2>2, ListedIs DEF InOrganization, Located
    <3> QED
      BY <1>5, <1>7, <1>10, <2>2, <3>1
  <2>3. ASSUME stage \in AfterRepositories PROVE graph'.listed = Located
    <3>1. stage # "repositories"
      BY <2>3 DEF AfterRepositories, AfterMembers, AfterTeams, AfterTeamRepositories,
                  AfterTeamMembers, Ending
    <3> QED
      BY <1>7, <2>3, <3>1 DEF GraphIsTrue, RepositoriesAreTrue, Finished
  <2> QED
    BY <1>1, <2>1, <2>2, <2>3, ForgeIsStill DEF RepositoriesAreTrue, Finished
<1>16. MembersAreTrue'
  <2>1. MembersOf(forge) \subseteq Users
    BY ForgeTypes DEF SnapshotTypes, MembersOf, Present
  <2>2. ASSUME stage = "members", left' = {}
        PROVE  \A u \in MembersOf(forge) : graph'.login[u] # Unknown
    <3>1. Seen = MembersOf(forge)
      BY <1>5, <1>10, <1>11, <2>2, ListedIs DEF InOrganization
    <3> QED
      BY <1>8, <2>2, <3>1
  <2>3. ASSUME stage \in AfterMembers
        PROVE  \A u \in MembersOf(forge) : graph'.login[u] # Unknown
    BY <2>1, <2>3, PageAddsNames DEF GraphIsTrue, MembersAreTrue, Finished
  <2> QED
    BY <1>1, <2>2, <2>3, ForgeIsStill DEF MembersAreTrue, Finished
<1>17. TeamsAreTrue'
  <2>1. TeamsAreTrue
    BY DEF GraphIsTrue
  <2>2. (Finished("teams", AfterTeams) => graph.teams = forge.teams)'
    <3>1. ASSUME stage = "teams", left' = {} PROVE graph'.teams = forge.teams
      BY <1>5, <1>7, <1>10, <1>11, <3>1, ListedIs DEF InOrganization
    <3>2. ASSUME stage \in AfterTeams PROVE graph'.teams = forge.teams
      <4>1. stage # "teams"
        BY <3>2 DEF AfterTeams, AfterTeamRepositories, AfterTeamMembers, Ending
      <4> QED
        BY <1>7, <2>1, <3>2, <4>1 DEF TeamsAreTrue, Finished
    <3> QED
      BY <1>1, <3>1, <3>2 DEF Finished
  <2>3. ASSUME stage \in AfterTeams, NEW t \in graph'.teams, t \notin Pending("teamRepositories")'
        PROVE  graph'.teamRepositories[t] = {r \in forge.holds[t] : forge.locator[r] # Unknown}
    <3>1. t \in graph.teams /\ t \in Teams
      BY <1>7, <2>3, InputTypes DEF AfterTeams, AfterTeamRepositories, AfterTeamMembers, Ending
    <3>2. CASE t \notin Pending("teamRepositories")
      <4>1. graph.teamRepositories[t] = {r \in forge.holds[t] : forge.locator[r] # Unknown}
        BY <2>1, <2>3, <3>1, <3>2 DEF TeamsAreTrue
      <4>2. stage = "teamRepositories" => t # Item
        BY <1>2, <3>2 DEF Pending
      <4> QED
        BY <1>7, <3>1, <4>1, <4>2 DEF SnapshotTypes, Graphs
    <3>3. CASE t \in Pending("teamRepositories")
      <4>1. stage = "teamRepositories" /\ LastPage /\ t = Item
        BY <1>1, <2>3, <3>3 DEF Pending
      <4>2. Seen = {r \in forge.holds[t] : forge.locator[r] # Unknown}
        BY <1>5, <4>1, ListedIs
      <4> QED
        BY <1>7, <3>1, <4>1, <4>2 DEF SnapshotTypes, Graphs
    <3> QED
      BY <3>2, <3>3
  <2>4. ASSUME stage \in AfterTeamRepositories, NEW t \in Intersecting',
               t \notin Pending("teamMembers")'
        PROVE  graph'.teamMembers[t] = Present(forge, forge.members[t])
    <3>1. Intersecting' = Intersecting
      BY <1>3, <1>7, <2>4 DEF Intersecting, AfterTeamRepositories, AfterTeamMembers, Ending
    <3>2. t \in Intersecting /\ t \in Teams
      BY <2>4, <3>1, InputTypes DEF Intersecting
    <3>3. CASE t \notin Pending("teamMembers")
      <4>1. graph.teamMembers[t] = Present(forge, forge.members[t])
        BY <2>1, <2>4, <3>2, <3>3 DEF TeamsAreTrue
      <4>2. stage = "teamMembers" => t # Item
        BY <1>2, <3>3 DEF Pending
      <4> QED
        BY <1>7, <3>2, <4>1, <4>2 DEF SnapshotTypes, Graphs
    <3>4. CASE t \in Pending("teamMembers")
      <4>1. stage = "teamMembers" /\ LastPage /\ t = Item
        BY <1>1, <2>4, <3>4 DEF Pending
      <4>2. Seen = Present(forge, forge.members[t])
        BY <1>5, <4>1, ListedIs
      <4> QED
        BY <1>7, <3>2, <4>1, <4>2 DEF SnapshotTypes, Graphs
    <3> QED
      BY <3>3, <3>4
  <2> QED
    BY <1>1, <2>2, <2>3, <2>4 DEF TeamsAreTrue, Present
<1>18. CollaboratorsAreTrue'
  <2>1. ASSUME stage \in AfterTeamMembers, NEW r \in Visible', r \notin Pending("collaborators")'
        PROVE  /\ graph'.collaborators[r] = Present(forge, forge.direct[r])
               /\ \A u \in graph'.collaborators[r] : graph'.login[u] # Unknown
    <3>1. stage = "collaborators"
      BY <1>2, <2>1 DEF AfterTeamMembers
    <3>2. Visible' = Visible
      BY <1>3, <1>7, <3>1 DEF Visible
    <3>3. r \in Visible /\ r \in Repositories
      BY <2>1, <3>2, InputTypes DEF Visible
    <3>4. CASE r \notin left
      <4>1. /\ graph.collaborators[r] = Present(forge, forge.direct[r])
            /\ \A u \in graph.collaborators[r] : graph.login[u] # Unknown
        BY <2>1, <3>1, <3>3, <3>4 DEF GraphIsTrue, CollaboratorsAreTrue, Pending
      <4>2. graph'.collaborators[r] = graph.collaborators[r]
        BY <1>2, <1>7, <3>1, <3>3, <3>4 DEF SnapshotTypes, Graphs
      <4>3. graph.collaborators[r] \subseteq Users
        BY <3>3 DEF SnapshotTypes, Graphs
      <4> QED
        BY <4>1, <4>2, <4>3, PageAddsNames
    <3>5. CASE r \in left
      <4>1. LastPage /\ r = Item
        BY <1>1, <2>1, <3>1, <3>5 DEF Pending
      <4>2. Seen = Present(forge, forge.direct[r])
        BY <1>5, <3>1, <4>1, CollaboratorsListed
      <4>3. graph'.collaborators[r] = Seen
        BY <1>7, <3>1, <3>3, <4>1 DEF SnapshotTypes, Graphs
      <4> QED
        BY <1>8, <3>1, <4>2, <4>3
    <3> QED
      BY <3>4, <3>5
  <2> QED
    BY <1>1, <2>1 DEF CollaboratorsAreTrue, Present
<1>19. ResolutionIsTrue'
  BY <1>1, <1>2 DEF ResolutionIsTrue
<1> QED
  BY <1>12, <1>13, <1>14, <1>15, <1>16, <1>17, <1>18, <1>19 DEF GraphIsTrue

LEMMA FailuresAreNamed ==
  PageFailure \in {"invalid_response", "work_limit_exceeded", "pagination_incomplete", "ok"}
  BY DEF PageFailure

LEMMA ReadPageKeepsInv ==
  ASSUME ObserverInv, ReadPage
  PROVE  ObserverInv'
<1>1. CASE cursor.page > MaxPages
  <2>1. Report("pagination_incomplete") /\ requests' \in 0..RequestLimit
    BY <1>1 DEF ReadPage, ObserverInv, SnapshotTypes
  <2> QED
    BY <2>1, ReportKeepsInv
<1>2. CASE ~(cursor.page > MaxPages) /\ PageFailure # "ok"
  <2>1. Report(PageFailure) /\ requests' \in 0..RequestLimit
    BY <1>2, RequestIsCounted DEF ReadPage, ObserverInv
  <2> QED
    BY <1>2, <2>1, FailuresAreNamed, ReportKeepsInv
<1>3. CASE ~(cursor.page > MaxPages) /\ PageFailure = "ok"
  <2>1. /\ Turning /\ graph' = WithPage
        /\ cursor' = IF LastPage THEN NewCursor
                     ELSE [page |-> cursor.page + 1, total |-> Total, seen |-> Seen]
        /\ left' = IF LastPage THEN left \ {Item} ELSE left
        /\ Kept /\ UNCHANGED <<unresolved, pairs>> /\ requests' \in 0..RequestLimit
    BY <1>3, RequestIsCounted DEF ReadPage, ObserverInv, Turning
  <2>2. SnapshotTypes' /\ DoneIsClassified' /\ GraphIsInjective' /\ Resolved' /\ BudgetSuffices'
    BY <1>3, <2>1, PageTypes
  <2>3. changes' = changes /\ stage' = stage /\ result' = result
    BY <2>1 DEF Kept, world
  <2>4. changes' = 0 => GraphIsTrue'
    BY <2>1, <2>3, PageStaysTrue DEF ObserverInv
  <2>5. PairsAreTrue'
    BY <2>1, <2>3 DEF PairsAreTrue, ObserverInv, SnapshotTypes, Turning, Listings
  <2> QED
    BY <2>2, <2>4, <2>5 DEF ObserverInv
<1> QED
  BY <1>1, <1>2, <1>3

(***************************************************************************)
(* The names of the identities that no listing showed.                     *)
(***************************************************************************)
LEMMA UserAtIs ==
  ASSUME forge \in Forges, NEW u \in Users, NEW name, forge.login[u] = name, name # Unknown
  PROVE  UserAt(forge, name) = {u}
<1>1. \A v \in Users : forge.login[v] = name => v = u
  BY ForgeTypes
<1> QED
  BY <1>1 DEF UserAt

(* Once the listings are read, who is in none of them and still can be     *)
(* found has the login it was linked by.                                   *)
LEMMA HiddenHaveTheirOldName ==
  ASSUME SnapshotTypes, GraphIsTrue, stage = "resolve", NEW i \in Identities,
         i \notin InGraph, Findable(i)
  PROVE  Travels(i) /\ UserAt(forge, input.atLink[i]) = {i}
<1>1. graph.login[i] = Unknown /\ i \in Users
  BY ScopeTypes DEF InGraph, SnapshotTypes
<1>2. i \notin MembersOf(forge)
  BY <1>1 DEF GraphIsTrue, MembersAreTrue, Finished, AfterMembers, AfterTeams,
              AfterTeamRepositories, AfterTeamMembers, Ending
<1>3. ASSUME NEW r \in Bindings, forge.locator[r] # Unknown, i \in forge.direct[r] PROVE FALSE
  <2>1. r \in Repositories
    BY ScopeTypes DEF SnapshotTypes
  <2>2. graph.listed = Located
    BY DEF GraphIsTrue, RepositoriesAreTrue, Finished, AfterRepositories, AfterMembers,
           AfterTeams, AfterTeamRepositories, AfterTeamMembers, Ending
  <2>3. r \in Visible
    BY <1>3, <2>1, <2>2 DEF Visible, Located
  <2>4. /\ graph.collaborators[r] = Present(forge, forge.direct[r])
        /\ \A u \in graph.collaborators[r] : graph.login[u] # Unknown
    BY <2>3 DEF GraphIsTrue, CollaboratorsAreTrue, Pending, AfterTeamMembers, Ending
  <2>5. i \in Present(forge, forge.direct[r])
    BY <1>3 DEF Present, Findable
  <2> QED
    BY <1>1, <2>4, <2>5
<1>4. forge.login[i] # Unknown /\ forge.login[i] = input.atLink[i]
  BY <1>2, <1>3 DEF Findable
<1> QED
  BY <1>1, <1>4, UserAtIs DEF Travels, SnapshotTypes

LEMMA ProductIsMonotone ==
  ASSUME NEW a \in Nat, NEW b \in Nat, NEW v \in Nat, a <= b
  PROVE  a * v <= b * v
  OBVIOUS

(* The three ways an identity is done: it is in the graph, it is not to be *)
(* found, or the fallback found it.                                        *)
KnownStep == graph' = graph /\ unresolved' = unresolved /\ Item \in InGraph
HiddenStep == /\ graph' = graph /\ unresolved' = unresolved \cup {Item} /\ Item \notin InGraph
              /\ Travels(Item) => UserAt(forge, input.atLink[Item]) # {Item}
FoundStep == /\ graph' = WithUsers({Item}) /\ ~UsersConflict({Item}) /\ unresolved' = unresolved
             /\ Item \in Fallbacks
             /\ forge.login[Item] # Unknown /\ forge.login[Item] = input.atLink[Item]

LEMMA FoundIsAdded ==
  ASSUME SnapshotTypes, stage = "resolve", left # {}, FoundStep, UNCHANGED <<forge, input>>
  PROVE  /\ graph' \in Graphs /\ Item \in Users
         /\ graph'.login = [graph.login EXCEPT ![Item] = forge.login[Item]]
         /\ graph'.repository = graph.repository /\ graph'.listed = graph.listed
         /\ graph'.teams = graph.teams /\ graph'.teamRepositories = graph.teamRepositories
         /\ graph'.teamMembers = graph.teamMembers /\ graph'.collaborators = graph.collaborators
         /\ InGraph' = InGraph \cup {Item}
<1>1. Item \in Users /\ Item \in Identities
  BY ItemTypes
<1>2. graph.login \in [Users -> Names \cup {Unknown}]
  BY InputTypes
<1>3. /\ graph' \in Graphs /\ graph'.login = Merged(graph.login, forge.login, {Item})
      /\ graph'.repository = graph.repository /\ graph'.listed = graph.listed
      /\ graph'.teams = graph.teams /\ graph'.teamRepositories = graph.teamRepositories
      /\ graph'.teamMembers = graph.teamMembers /\ graph'.collaborators = graph.collaborators
  BY WithUsersIs DEF SnapshotTypes, FoundStep
<1>4. graph'.login = [graph.login EXCEPT ![Item] = forge.login[Item]]
  BY <1>1, <1>2, <1>3 DEF Merged
<1>5. Identities' = Identities /\ Identities \subseteq Users
  BY ScopeTypes DEF Identities, SnapshotTypes
<1>6. InGraph' = InGraph \cup {Item}
  BY <1>1, <1>2, <1>4, <1>5 DEF InGraph, FoundStep
<1> QED
  BY <1>1, <1>3, <1>4, <1>6

LEMMA ResolveKeepsBudget ==
  ASSUME ObserverInv, stage = "resolve", left # {}, Done, UNCHANGED <<cursor, pairs>>,
         KnownStep \/ HiddenStep \/ FoundStep, requests' \in 0..RequestLimit,
         requests' = requests \/ (Item \in Fallbacks /\ requests' = requests + 1)
  PROVE  Resolved' /\ BudgetSuffices'
<1>1. UNCHANGED <<forge, changes, input, stage, result>> /\ left' = left \ {Item}
  BY DEF Done, Kept, world
<1>2. Identities' = Identities /\ Bindings' = Bindings
  BY <1>1 DEF Identities, Bindings
<1>3. Item \in left /\ Item \in Identities
  BY ItemTypes DEF ObserverInv
<1>4. /\ InGraph' = InGraph \/ (Item \in Fallbacks /\ InGraph' = InGraph \cup {Item})
      /\ graph'.listed = graph.listed
      /\ unresolved \subseteq unresolved' /\ Item \in InGraph' \cup unresolved'
  <2>1. CASE graph' = graph
    <3>1. InGraph' = InGraph
      BY <1>2, <2>1 DEF InGraph
    <3> QED
      BY <2>1, <3>1, FoundIsAdded, <1>1 DEF KnownStep, HiddenStep, FoundStep, ObserverInv
  <2>2. CASE FoundStep
    BY <1>1, <2>2, FoundIsAdded DEF ObserverInv, FoundStep
  <2> QED
    BY <2>1, <2>2 DEF KnownStep, HiddenStep
<1>5. Resolved'
  <2>1. Identities \ left \subseteq InGraph \cup unresolved
    BY DEF ObserverInv, Resolved, Pending, Ending
  <2>2. Identities \ left' \subseteq InGraph' \cup unresolved'
    BY <1>1, <1>4, <2>1
  <2> QED
    BY <1>1, <1>2, <2>2 DEF Resolved, Pending
<1>6. Visible' = Visible
  BY <1>2, <1>4 DEF Visible
<1>7. Awaited' = Awaited \ {Item}
  <2>1. Fallbacks' = {i \in Identities \ InGraph' : Travels(i)}
    BY <1>1, <1>2 DEF Fallbacks, Travels
  <2>2. Fallbacks' \ {Item} = Fallbacks \ {Item}
    BY <1>4, <2>1 DEF Fallbacks
  <2> QED
    BY <1>1, <2>2 DEF Awaited
<1>8. InGraph' \cup Awaited' \subseteq InGraph \cup Awaited
  BY <1>3, <1>4, <1>7 DEF Awaited
<1> DEFINE X == InGraph \cup Awaited
           v == Cardinality(Visible)
<1>9. /\ IsFiniteSet(Awaited) /\ IsFiniteSet(X) /\ v \in Nat
      /\ Cardinality(Awaited) \in Nat /\ Cardinality(X) \in Nat
  <2>1. IsFiniteSet(InGraph) /\ IsFiniteSet(Fallbacks) /\ IsFiniteSet(Visible)
    BY UsersAreFinite DEF ObserverInv
  <2>2. IsFiniteSet(Awaited)
    BY <2>1, FS_Subset DEF Awaited
  <2>3. IsFiniteSet(X)
    BY <2>1, <2>2, FS_Union
  <2> QED
    BY <2>1, <2>2, <2>3, FS_CardinalityType
<1>10. /\ Cardinality(InGraph' \cup Awaited') <= Cardinality(X)
       /\ Cardinality(InGraph' \cup Awaited') \in Nat
  <2>1. InGraph' \cup Awaited' \in SUBSET X
    BY <1>8
  <2> QED
    BY <1>9, <2>1, FS_Subset, FS_CardinalityType
<1>11. Cardinality(InGraph' \cup Awaited') * v <= Cardinality(X) * v
  <2> HIDE DEF X, v
  <2> QED BY <1>9, <1>10, ProductIsMonotone
<1>12. /\ Cardinality(Awaited') = IF Item \in Awaited THEN Cardinality(Awaited) - 1
                                  ELSE Cardinality(Awaited)
  BY <1>7, <1>9, FS_RemoveElement
<1>13. requests' = requests \/ (Item \in Awaited /\ requests' = requests + 1)
  BY <1>3 DEF Awaited
<1>14. Cardinality(Awaited) + Cardinality(X) * v <= RequestLimit - requests
  BY DEF ObserverInv, BudgetSuffices
<1>15. requests \in Nat /\ RequestLimit \in Nat
  BY InputTypes DEF ObserverInv
<1>16. Cardinality(Awaited') + Cardinality(InGraph' \cup Awaited') * Cardinality(Visible')
         <= RequestLimit - requests'
  <2> DEFINE a == Cardinality(Awaited)
             b == Cardinality(Awaited')
             p == Cardinality(X) * v
             q == Cardinality(InGraph' \cup Awaited') * v
  <2>1. a \in Nat /\ p \in Nat /\ q \in Nat
    BY <1>9, <1>10
  <2>2. b = a \/ (b = a - 1)
    BY <1>12
  <2>3. requests' = requests \/ (b = a - 1 /\ requests' = requests + 1)
    BY <1>12, <1>13
  <2>4. q <= p /\ a + p <= RequestLimit - requests
    BY <1>11, <1>14
  <2>5. b + q <= RequestLimit - requests'
    <3> HIDE DEF a, b, p, q
    <3> QED BY <1>15, <2>1, <2>2, <2>3, <2>4
  <2> QED
    BY <1>6, <2>5
<1> QED
  BY <1>1, <1>5, <1>16 DEF BudgetSuffices

LEMMA ResolvedStaysTrue ==
  ASSUME SnapshotTypes, GraphIsTrue, Resolved, stage = "resolve", left # {}, Done,
         UNCHANGED <<cursor, pairs>>, KnownStep \/ HiddenStep \/ FoundStep
  PROVE  GraphIsTrue'
<1>1. UNCHANGED <<forge, changes, input, stage, result>> /\ left' = left \ {Item}
  BY DEF Done, Kept, world
<1>2. Identities' = Identities /\ Bindings' = Bindings
  BY <1>1 DEF Identities, Bindings
<1>3. Item \in left /\ Item \in Identities /\ Item \in Users
  BY ItemTypes
<1>4. /\ graph'.repository = graph.repository /\ graph'.listed = graph.listed
      /\ graph'.teams = graph.teams /\ graph'.teamRepositories = graph.teamRepositories
      /\ graph'.teamMembers = graph.teamMembers /\ graph'.collaborators = graph.collaborators
      /\ \/ graph'.login = graph.login
         \/ /\ graph'.login = [graph.login EXCEPT ![Item] = forge.login[Item]]
            /\ forge.login[Item] # Unknown /\ forge.login[Item] = input.atLink[Item]
  BY <1>1, FoundIsAdded DEF KnownStep, HiddenStep, FoundStep
<1>5. \A u \in Users : /\ graph'.login[u] \in {Unknown, forge.login[u]}
                       /\ graph.login[u] # Unknown => graph'.login[u] # Unknown
                       /\ graph'.login[u] # Unknown => Findable(u)
  <2>1. \A u \in Users : /\ graph.login[u] \in {Unknown, forge.login[u]}
                         /\ graph.login[u] # Unknown => Findable(u)
    BY DEF GraphIsTrue, NamesAreTrue
  <2>2. graph.login \in [Users -> Names \cup {Unknown}]
    BY InputTypes
  <2>3. forge.login[Item] # Unknown /\ forge.login[Item] = input.atLink[Item] => Findable(Item)
    BY DEF Findable
  <2> QED
    BY <1>3, <1>4, <2>1, <2>2, <2>3
<1>6. NamesAreTrue'
  BY <1>1, <1>4, <1>5, ForgeIsStill DEF GraphIsTrue, NamesAreTrue
<1>7. OrganizationIsBound' /\ PagesAreTrue'
  BY <1>1 DEF GraphIsTrue, OrganizationIsBound, PagesAreTrue, Finished, Turning, Listings, Ending
<1>8. RepositoriesAreTrue'
  BY <1>1, <1>4, ForgeIsStill DEF GraphIsTrue, RepositoriesAreTrue, Finished, AfterRepositories,
     AfterMembers, AfterTeams, AfterTeamRepositories, AfterTeamMembers, Ending
<1>9. MembersAreTrue'
  <2>1. MembersOf(forge) \subseteq Users
    BY ForgeTypes DEF SnapshotTypes, MembersOf, Present
  <2>2. \A u \in MembersOf(forge) : graph.login[u] # Unknown
    BY DEF GraphIsTrue, MembersAreTrue, Finished, AfterMembers, AfterTeams,
           AfterTeamRepositories, AfterTeamMembers, Ending
  <2> QED
    BY <1>1, <1>5, <2>1, <2>2, ForgeIsStill DEF MembersAreTrue
<1>10. TeamsAreTrue'
  <2>1. Intersecting' = Intersecting
    BY <1>2, <1>4 DEF Intersecting
  <2> QED
    BY <1>1, <1>4, <2>1 DEF GraphIsTrue, TeamsAreTrue, Finished, Pending, Present, AfterTeams,
                            AfterTeamRepositories, AfterTeamMembers, Ending
<1>11. CollaboratorsAreTrue'
  <2>1. Visible' = Visible /\ Visible \subseteq Repositories
    BY <1>2, <1>4, InputTypes DEF Visible
  <2>2. \A r \in Visible : /\ graph.collaborators[r] = Present(forge, forge.direct[r])
                           /\ \A u \in graph.collaborators[r] : graph.login[u] # Unknown
    BY DEF GraphIsTrue, CollaboratorsAreTrue, Pending, AfterTeamMembers, Ending
  <2>3. \A r \in Visible : graph.collaborators[r] \subseteq Users
    BY <2>1 DEF SnapshotTypes, Graphs
  <2>4. \A r \in Visible : /\ graph'.collaborators[r] = Present(forge, forge.direct[r])
                           /\ \A u \in graph'.collaborators[r] : graph'.login[u] # Unknown
    BY <1>4, <1>5, <2>2, <2>3
  <2> QED
    BY <1>1, <2>1, <2>4 DEF CollaboratorsAreTrue, Present
<1>12. ResolutionIsTrue'
  <2>1. \A i \in Identities \ left : i \in unresolved <=> ~Findable(i)
    BY DEF GraphIsTrue, ResolutionIsTrue, Pending, Ending
  <2>2. Item \notin unresolved
    BY <1>3 DEF SnapshotTypes
  <2>3. Item \in unresolved' <=> ~Findable(Item)
    <3>1. CASE KnownStep
      BY <1>3, <2>2, <3>1 DEF KnownStep, GraphIsTrue, NamesAreTrue, InGraph
    <3>2. CASE HiddenStep
      BY <1>3, <3>2, HiddenHaveTheirOldName DEF HiddenStep
    <3>3. CASE FoundStep
      BY <2>2, <3>3 DEF FoundStep, Findable
    <3> QED
      BY <3>1, <3>2, <3>3
  <2>4. \A i : i # Item => (i \in unresolved' <=> i \in unresolved)
    BY DEF KnownStep, HiddenStep, FoundStep
  <2>5. \A i \in Identities \ left' : i \in unresolved' <=> ~Findable(i)
    BY <1>1, <2>1, <2>3, <2>4
  <2> QED
    BY <1>1, <1>2, <2>5, ForgeIsStill DEF ResolutionIsTrue, Pending
<1> QED
  BY <1>6, <1>7, <1>8, <1>9, <1>10, <1>11, <1>12 DEF GraphIsTrue

LEMMA ResolvedKeepsInv ==
  ASSUME ObserverInv, stage = "resolve", left # {}, Done, UNCHANGED <<cursor, pairs>>,
         KnownStep \/ HiddenStep \/ FoundStep, requests' \in 0..RequestLimit,
         requests' = requests \/ (Item \in Fallbacks /\ requests' = requests + 1)
  PROVE  ObserverInv'
<1>1. UNCHANGED <<forge, changes, input, stage, result, cursor, pairs>> /\ left' = left \ {Item}
  BY DEF Done, Kept, world
<1>2. Identities' = Identities /\ Bindings' = Bindings
  BY <1>1 DEF Identities, Bindings
<1>3. Item \in left /\ Item \in Identities
  BY ItemTypes DEF ObserverInv
<1>4. SnapshotTypes'
  <2>1. graph' \in Graphs
    BY <1>1, FoundIsAdded DEF KnownStep, HiddenStep, ObserverInv, SnapshotTypes
  <2>2. Work(stage)' = Identities
    BY <1>1, <1>2 DEF Work
  <2>3. left \subseteq Identities
    BY WorkIs DEF ObserverInv, SnapshotTypes
  <2>4. unresolved' \subseteq Identities /\ unresolved' \cap left' = {}
    BY <1>1, <1>3 DEF KnownStep, HiddenStep, FoundStep, ObserverInv, SnapshotTypes
  <2>5. cursor'.seen = {}
    BY <1>1 DEF ObserverInv, SnapshotTypes, Turning, Listings
  <2> QED
    BY <1>1, <1>2, <2>1, <2>2, <2>3, <2>4, <2>5 DEF ObserverInv, SnapshotTypes, Ending
<1>5. DoneIsClassified'
  BY <1>1, <1>2 DEF ObserverInv, SnapshotTypes, DoneIsClassified
<1>6. GraphIsInjective'
  <2>1. CASE FoundStep
    <3>1. Injective(Merged(graph.login, forge.login, {Item}))
      BY <2>1, MergeStaysInjective DEF FoundStep, UsersConflict
    <3>2. graph'.login = Merged(graph.login, forge.login, {Item})
      BY <2>1, WithUsersIs DEF FoundStep, ObserverInv, SnapshotTypes
    <3>3. graph'.repository = graph.repository
      BY <2>1, WithUsersIs DEF FoundStep, ObserverInv, SnapshotTypes
    <3>4. Injective(graph'.login) /\ Injective(graph'.repository)
      BY <3>1, <3>2, <3>3 DEF ObserverInv, GraphIsInjective
    <3> QED
      BY <3>4 DEF GraphIsInjective, Injective
  <2>2. CASE graph' = graph
    BY <2>2 DEF ObserverInv, GraphIsInjective, Injective
  <2> QED
    BY <2>1, <2>2 DEF KnownStep, HiddenStep
<1>7. Resolved' /\ BudgetSuffices'
  BY ResolveKeepsBudget
<1>8. changes' = 0 => GraphIsTrue'
  BY <1>1, ResolvedStaysTrue DEF ObserverInv
<1>9. PairsAreTrue'
  BY <1>1 DEF ObserverInv, SnapshotTypes, PairsAreTrue
<1> QED
  BY <1>4, <1>5, <1>6, <1>7, <1>8, <1>9 DEF ObserverInv

LEMMA ResolveKeepsInv ==
  ASSUME ObserverInv, Resolve
  PROVE  ObserverInv'
<1>1. /\ stage = "resolve" /\ left # {} /\ Item \in left /\ Item \in Identities /\ Item \in Users
      /\ requests \in 0..RequestLimit
  BY ItemTypes DEF Resolve, ObserverInv, SnapshotTypes
<1>2. CASE Item \in InGraph
  BY <1>1, <1>2, ResolvedKeepsInv DEF Resolve, KnownStep
<1>3. CASE Item \notin InGraph /\ ~Travels(Item)
  BY <1>1, <1>3, ResolvedKeepsInv DEF Resolve, HiddenStep
<1>4. CASE Item \notin InGraph /\ Travels(Item)
  <2>1. ReadFallback /\ Item \in Fallbacks
    BY <1>1, <1>4 DEF Resolve, Fallbacks
  <2>2. requests' \in 0..RequestLimit /\ requests' = requests + 1
    BY <2>1, RequestIsCounted DEF ReadFallback, ObserverInv
  <2>3. CASE Holder # {Item}
    BY <1>1, <1>4, <2>1, <2>2, <2>3, ResolvedKeepsInv DEF ReadFallback, HiddenStep, Holder
  <2>4. CASE Holder = {Item} /\ UsersConflict(Holder)
    BY <2>1, <2>2, <2>4, ReportKeepsInv DEF ReadFallback
  <2>5. CASE Holder = {Item} /\ ~UsersConflict(Holder)
    <3>1. Item \in UserAt(forge, input.atLink[Item])
      BY <2>5 DEF Holder
    <3>2. forge.login[Item] # Unknown /\ forge.login[Item] = input.atLink[Item]
      BY <3>1 DEF UserAt
    <3>3. graph' = WithUsers({Item}) /\ ~UsersConflict({Item}) /\ Done
          /\ UNCHANGED <<cursor, unresolved, pairs>>
      BY <2>1, <2>5 DEF ReadFallback
    <3> QED
      BY <1>1, <2>1, <2>2, <3>2, <3>3, ResolvedKeepsInv DEF FoundStep
  <2> QED
    BY <2>3, <2>4, <2>5
<1> QED
  BY <1>2, <1>3, <1>4

(***************************************************************************)
(* The classification of the pairs.                                        *)
(***************************************************************************)

(* The answers are the forge's own as long as nobody edits it.             *)
LEMMA EdgesAreTrue ==
  ASSUME SnapshotTypes, GraphIsTrue, stage = "classify", NEW i \in Identities, NEW r \in Bindings,
         r \in graph.listed, forge.login[i] # Unknown
  PROVE  /\ DirectEdge(i, r) <=> i \in forge.direct[r]
         /\ TeamEdge(i, r) <=> OnTeam(forge, i, r)
         /\ forge.locator[r] # Unknown /\ graph.repository[r] = forge.locator[r]
<1>1. i \in Users /\ r \in Repositories /\ r \in Visible
  BY ScopeTypes DEF SnapshotTypes, Visible
<1>2. DirectEdge(i, r) <=> i \in forge.direct[r]
  BY <1>1 DEF DirectEdge, GraphIsTrue, CollaboratorsAreTrue, Pending, AfterTeamMembers, Ending,
              Present
<1>3. graph.teams = forge.teams
  BY DEF GraphIsTrue, TeamsAreTrue, Finished, AfterTeams, AfterTeamRepositories,
         AfterTeamMembers, Ending
<1>4. forge.locator[r] # Unknown /\ graph.repository[r] = forge.locator[r]
  BY <1>1 DEF GraphIsTrue, RepositoriesAreTrue, NamesAreTrue
<1>5. \A t \in graph.teams : r \in graph.teamRepositories[t] <=> r \in forge.holds[t]
  BY <1>4 DEF GraphIsTrue, TeamsAreTrue, Pending, AfterTeams, AfterTeamRepositories,
              AfterTeamMembers, Ending
<1>6. \A t \in graph.teams : r \in graph.teamRepositories[t] =>
        (i \in graph.teamMembers[t] <=> i \in forge.members[t])
  <2>1. \A t \in graph.teams : r \in graph.teamRepositories[t] => t \in Intersecting
    BY DEF Intersecting
  <2> QED
    BY <2>1 DEF GraphIsTrue, TeamsAreTrue, Pending, AfterTeamRepositories, AfterTeamMembers,
                Ending, Present
<1>7. TeamEdge(i, r) <=> OnTeam(forge, i, r)
  BY <1>3, <1>5, <1>6 DEF TeamEdge, OnTeam
<1> QED
  BY <1>2, <1>4, <1>7

LEMMA AnswersAreTrue ==
  ASSUME SnapshotTypes, GraphIsTrue, Resolved, stage = "classify", NEW i \in Identities,
         NEW r \in Bindings, i \notin unresolved, r \in graph.listed,
         NEW permission \in Permissions(i, r)
  PROVE  Answer(i, r, permission) \in {Truth(i, r), "permission_unrecognized"}
<1>1. i \in Users /\ r \in Repositories
  BY ScopeTypes DEF SnapshotTypes
<1>2. i \in InGraph
  BY DEF Resolved, Pending, Ending
<1>3. forge.login[i] # Unknown /\ graph.login[i] = forge.login[i] /\ Findable(i)
  BY <1>1, <1>2 DEF InGraph, GraphIsTrue, NamesAreTrue
<1>4. /\ DirectEdge(i, r) <=> i \in forge.direct[r]
      /\ TeamEdge(i, r) <=> OnTeam(forge, i, r)
      /\ forge.locator[r] # Unknown /\ graph.repository[r] = forge.locator[r]
  BY <1>3, EdgesAreTrue
<1>5. UserAt(forge, graph.login[i]) = {i}
  BY <1>1, <1>3, UserAtIs DEF SnapshotTypes
<1>6. RepositoryAt(forge, graph.repository[r]) = {r}
  BY <1>1, <1>4, ForgeTypes DEF SnapshotTypes, RepositoryAt
<1>7. Askable(i, r) /\ SameUser(i)
  BY <1>5, <1>6 DEF Askable, SameUser
<1>8. permission \in {IF Granted(forge, i, r) THEN "read" ELSE "none", "unrecognized"}
  BY <1>5, <1>6 DEF Permissions
<1>9. Truth(i, r) = IF i \in forge.direct[r] THEN "direct_collaborator"
                    ELSE IF OnTeam(forge, i, r) THEN "team_access"
                    ELSE IF r \in forge.public THEN "visibility_source_unproven"
                    ELSE "no_explicit_access_none"
  BY <1>3, <1>4 DEF Truth
<1>10. Answer(i, r, permission) =
         IF permission = "unrecognized" THEN "permission_unrecognized"
         ELSE IF permission = "none"
              THEN IF i \in forge.direct[r] \/ OnTeam(forge, i, r)
                   THEN "evidence_inconsistent" ELSE "no_explicit_access_none"
         ELSE IF i \in forge.direct[r] THEN "direct_collaborator"
         ELSE IF OnTeam(forge, i, r) THEN "team_access"
         ELSE "visibility_source_unproven"
  BY <1>4, <1>7 DEF Answer
<1>11. Granted(forge, i, r) <=> \/ i \in forge.direct[r] \/ OnTeam(forge, i, r)
                                \/ r \in forge.public
  BY DEF Granted
<1> QED
  BY <1>8, <1>9, <1>10, <1>11

LEMMA PutKeepsInv ==
  ASSUME ObserverInv, stage = "classify", left # {}, NEW reason \in Reasons, Put(reason),
         requests' \in 0..RequestLimit,
         requests' = requests \/ (Item \in Wanted /\ requests' = requests + 1),
         changes = 0 => reason \in {Truth(Item[1], Item[2]), "permission_unrecognized"}
  PROVE  ObserverInv'
<1>1. /\ UNCHANGED <<forge, changes, input, stage, result, cursor, graph, unresolved>>
      /\ left' = left \ {Item} /\ pairs' = [pairs EXCEPT ![Item] = reason]
  BY DEF Put, Done, Kept, world
<1>2. Identities' = Identities /\ Bindings' = Bindings
  BY <1>1 DEF Identities, Bindings
<1>3. Item \in left /\ Item \in Identities \X Bindings
  BY ItemTypes DEF ObserverInv
<1> DEFINE scope == Identities \X Bindings
           item == Item
<1>4. /\ pairs \in [scope -> Reasons \cup {Unclassified}] /\ item \in scope
      /\ pairs' = [pairs EXCEPT ![item] = reason] /\ left' = left \ {item} /\ scope' = scope
  BY <1>1, <1>2, <1>3 DEF ObserverInv, SnapshotTypes
<1>5. /\ pairs' \in [scope -> Reasons \cup {Unclassified}] /\ pairs'[item] = reason
      /\ \A p \in scope : p # item => pairs'[p] = pairs[p]
  <2> HIDE DEF scope, item
  <2> QED BY <1>4
<1>6. SnapshotTypes'
  <2>1. Work(stage)' = scope
    BY <1>1, <1>2 DEF Work
  <2>2. left' \subseteq scope
    BY <1>1, WorkIs DEF ObserverInv, SnapshotTypes
  <2>3. cursor'.seen = {}
    BY <1>1 DEF ObserverInv, SnapshotTypes, Turning, Listings
  <2> QED
    BY <1>1, <1>2, <1>5, <2>1, <2>2, <2>3 DEF ObserverInv, SnapshotTypes, Graphs, Ending
<1>7. DoneIsClassified'
  <2>1. \A p \in scope \ left' : pairs'[p] \in Reasons
    <3>1. \A p \in scope \ left : pairs[p] \in Reasons
      BY DEF ObserverInv, DoneIsClassified
    <3> HIDE DEF scope, item
    <3> QED BY <1>4, <1>5, <3>1
  <2>2. result' = "running"
    BY <1>1 DEF ObserverInv, SnapshotTypes
  <2> QED
    BY <1>1, <1>2, <2>1, <2>2 DEF DoneIsClassified
<1>8. GraphIsInjective' /\ Resolved'
  BY <1>1, <1>2 DEF ObserverInv, GraphIsInjective, Resolved, Pending, InGraph
<1>9. BudgetSuffices'
  <2>1. Wanted' = Wanted \ {Item}
    BY <1>1 DEF Wanted
  <2>2. IsFiniteSet(Wanted) /\ Cardinality(Wanted) \in Nat
    <3>1. IsFiniteSet(scope)
      BY ScopeTypes, FS_Product DEF ObserverInv, SnapshotTypes
    <3>2. Wanted \subseteq scope
      BY WorkIs DEF ObserverInv, SnapshotTypes, Wanted
    <3> QED
      BY <3>1, <3>2, FS_Subset, FS_CardinalityType
  <2>3. Cardinality(Wanted') = IF Item \in Wanted THEN Cardinality(Wanted) - 1
                               ELSE Cardinality(Wanted)
    BY <2>1, <2>2, FS_RemoveElement
  <2>4. Cardinality(Wanted) <= RequestLimit - requests
    BY DEF ObserverInv, BudgetSuffices
  <2>5. requests \in Nat /\ RequestLimit \in Nat
    BY InputTypes DEF ObserverInv
  <2>6. Cardinality(Wanted') <= RequestLimit - requests'
    BY <2>2, <2>3, <2>4, <2>5
  <2> QED
    BY <1>1, <2>6 DEF BudgetSuffices
<1>10. ASSUME changes' = 0 PROVE GraphIsTrue' /\ PairsAreTrue'
  <2>1. GraphIsTrue /\ PairsAreTrue /\ changes = 0
    BY <1>1, <1>10 DEF ObserverInv
  <2>2. NamesAreTrue' /\ RepositoriesAreTrue' /\ MembersAreTrue'
    BY <1>1, <2>1, ForgeIsStill
       DEF GraphIsTrue, NamesAreTrue, RepositoriesAreTrue, MembersAreTrue, Finished,
           AfterRepositories, AfterMembers, AfterTeams, AfterTeamRepositories, AfterTeamMembers,
           Ending
  <2>3. OrganizationIsBound' /\ PagesAreTrue'
    BY <1>1, <2>1 DEF GraphIsTrue, OrganizationIsBound, PagesAreTrue, Finished, Turning,
                      Listings, Ending
  <2>4. TeamsAreTrue' /\ CollaboratorsAreTrue'
    <3>1. Intersecting' = Intersecting /\ Visible' = Visible
      BY <1>1, <1>2 DEF Intersecting, Visible
    <3> QED
      BY <1>1, <2>1, <3>1 DEF GraphIsTrue, TeamsAreTrue, CollaboratorsAreTrue, Finished, Pending,
         Present, AfterTeams, AfterTeamRepositories, AfterTeamMembers, Ending
  <2>5. ResolutionIsTrue'
    BY <1>1, <1>2, <2>1, ForgeIsStill DEF GraphIsTrue, ResolutionIsTrue, Pending, Ending
  <2>6. PairsAreTrue'
    <3>1. \A p \in scope \ left : pairs[p] \in {Truth(p[1], p[2]), "permission_unrecognized"}
      BY <2>1 DEF PairsAreTrue, Exact
    <3>2. reason \in {Truth(item[1], item[2]), "permission_unrecognized"}
      BY <2>1
    <3>3. \A p \in scope \ left' :
            pairs'[p] \in {Truth(p[1], p[2]), "permission_unrecognized"}
      <4> HIDE DEF scope, item
      <4> QED BY <1>4, <1>5, <3>1, <3>2
    <3>4. result' = "running"
      BY <1>1 DEF ObserverInv, SnapshotTypes
    <3> QED
      BY <1>1, <1>2, <3>3, <3>4, ForgeIsStill DEF PairsAreTrue, Exact
  <2> QED
    BY <2>2, <2>3, <2>4, <2>5, <2>6 DEF GraphIsTrue
<1> QED
  BY <1>6, <1>7, <1>8, <1>9, <1>10 DEF ObserverInv

LEMMA AnswerTypes ==
  ASSUME NEW i, NEW r, NEW permission
  PROVE  Answer(i, r, permission) \in Reasons
  BY DEF Answer, Reasons

LEMMA ClassifyKeepsInv ==
  ASSUME ObserverInv, Classify
  PROVE  ObserverInv'
<1> DEFINE i == Item[1]
           r == Item[2]
<1>1. /\ stage = "classify" /\ left # {} /\ Item \in left /\ i \in Identities /\ r \in Bindings
      /\ requests \in 0..RequestLimit
  BY ItemTypes DEF Classify, ObserverInv, SnapshotTypes
<1>2. CASE i \in unresolved
  <2>1. Put("identity_unresolved") /\ requests' = requests
    BY <1>2 DEF Classify
  <2>2. changes = 0 => Truth(i, r) = "identity_unresolved"
    BY <1>1, <1>2 DEF ObserverInv, GraphIsTrue, ResolutionIsTrue, Pending, Ending, Truth
  <2> QED
    BY <1>1, <2>1, <2>2, PutKeepsInv DEF Reasons
<1>3. CASE i \notin unresolved /\ r \notin graph.listed
  <2>1. Put("repository_unavailable") /\ requests' = requests
    BY <1>3 DEF Classify
  <2>2. changes = 0 => Truth(i, r) = "repository_unavailable"
    <3>1. HAVE changes = 0
    <3>2. Findable(i)
      BY <1>1, <1>3, <3>1 DEF ObserverInv, GraphIsTrue, ResolutionIsTrue, Pending, Ending
    <3>3. r \in Repositories /\ graph.listed = Located
      BY <1>1, <3>1, ScopeTypes DEF ObserverInv, SnapshotTypes, GraphIsTrue, RepositoriesAreTrue,
         Finished, AfterRepositories, AfterMembers, AfterTeams, AfterTeamRepositories,
         AfterTeamMembers, Ending
    <3> QED
      BY <1>3, <3>2, <3>3 DEF Truth, Located
  <2> QED
    BY <1>1, <2>1, <2>2, PutKeepsInv DEF Reasons
<1>4. CASE i \notin unresolved /\ r \in graph.listed
  <2>1. PICK permission \in Permissions(i, r) : Put(Answer(i, r, permission))
    BY <1>4 DEF Classify
  <2>2. ~Exhausted /\ Spend
    BY <1>4 DEF Classify
  <2>3. requests' \in 0..RequestLimit /\ requests' = requests + 1
    BY <2>2, RequestIsCounted DEF ObserverInv
  <2>4. Item \in Wanted
    BY <1>1, <1>4 DEF Wanted
  <2>5. Answer(i, r, permission) \in Reasons
    BY AnswerTypes
  <2>6. changes = 0 => Answer(i, r, permission) \in {Truth(i, r), "permission_unrecognized"}
    BY <1>1, <1>4, AnswersAreTrue DEF ObserverInv
  <2> QED
    BY <1>1, <2>1, <2>3, <2>4, <2>5, <2>6, PutKeepsInv
<1> QED
  BY <1>2, <1>3, <1>4

(***************************************************************************)
(* The invariant, and what follows from it.                                *)
(***************************************************************************)
LEMMA InitIsObserved ==
  ASSUME Init
  PROVE  ObserverInv
<1>1. /\ forge \in Forges /\ input \in Inputs /\ changes = 0
      /\ stage = "start" /\ left = {0} /\ cursor = NewCursor /\ requests = 0
      /\ graph = EmptyGraph /\ unresolved = {} /\ result = "running"
      /\ pairs = [p \in Identities \X Bindings |-> Unclassified]
  BY ObserverAssumption DEF Init, Identities, Bindings
<1>2. graph \in Graphs /\ \A u \in Users : graph.login[u] = Unknown
  BY <1>1 DEF EmptyGraph, Graphs
<1>3. graph.listed = {} /\ \A r \in Repositories : graph.repository[r] = Unknown
  BY <1>1 DEF EmptyGraph
<1>4. SnapshotTypes
  <2>1. Work(stage) = {0}
    BY <1>1 DEF Work
  <2>2. stage \in ToSet(Order)
    BY <1>1, StageSet
  <2>3. cursor.seen = {}
    BY <1>1 DEF NewCursor
  <2>4. 0 \in 0..RequestLimit
    BY ObserverAssumption
  <2> QED
    BY <1>1, <1>2, <2>1, <2>2, <2>3, <2>4 DEF SnapshotTypes
<1>5. DoneIsClassified /\ Resolved /\ BudgetSuffices
  BY <1>1 DEF DoneIsClassified, Resolved, BudgetSuffices, Ending
<1>6. GraphIsInjective
  <2>1. DOMAIN graph.login = Users /\ DOMAIN graph.repository = Repositories
    BY <1>2 DEF Graphs
  <2> QED
    BY <1>2, <1>3, <2>1 DEF GraphIsInjective, Injective
<1>7. GraphIsTrue
  <2>1. NamesAreTrue
    BY <1>2, <1>3 DEF NamesAreTrue
  <2>2. OrganizationIsBound /\ PagesAreTrue /\ RepositoriesAreTrue /\ MembersAreTrue
    BY <1>1, <1>3 DEF OrganizationIsBound, PagesAreTrue, RepositoriesAreTrue, MembersAreTrue,
       Finished, Turning, Listings, AfterRepositories, AfterMembers, AfterTeams,
       AfterTeamRepositories, AfterTeamMembers, Ending
  <2>3. TeamsAreTrue /\ CollaboratorsAreTrue /\ ResolutionIsTrue
    BY <1>1 DEF TeamsAreTrue, CollaboratorsAreTrue, ResolutionIsTrue, Finished, AfterTeams,
       AfterTeamRepositories, AfterTeamMembers, Ending
  <2> QED
    BY <2>1, <2>2, <2>3 DEF GraphIsTrue
<1>8. PairsAreTrue
  BY <1>1 DEF PairsAreTrue
<1> QED
  BY <1>4, <1>5, <1>6, <1>7, <1>8 DEF ObserverInv

LEMMA StutterKeepsInv ==
  ASSUME ObserverInv, UNCHANGED vars
  PROVE  ObserverInv'
<1>1. UNCHANGED <<forge, changes, input, stage, left, cursor, requests, graph, unresolved,
                  pairs, result>>
  BY DEF vars, world
<1>2. /\ Identities' = Identities /\ Bindings' = Bindings /\ Work(stage)' = Work(stage)
      /\ Subjects' = Subjects /\ Turning' = Turning /\ InGraph' = InGraph
      /\ Fallbacks' = Fallbacks /\ Visible' = Visible /\ Intersecting' = Intersecting
  BY <1>1 DEF Identities, Bindings, Work, Subjects, Turning, InGraph, Fallbacks, Visible,
              Intersecting, Travels
<1>3. SnapshotTypes' /\ DoneIsClassified' /\ GraphIsInjective' /\ Resolved' /\ BudgetSuffices'
  <2>1. SnapshotTypes' /\ DoneIsClassified' /\ GraphIsInjective'
    BY <1>1, <1>2 DEF ObserverInv, SnapshotTypes, DoneIsClassified, GraphIsInjective, Graphs
  <2>2. Resolved' /\ BudgetSuffices'
    BY <1>1, <1>2 DEF ObserverInv, Resolved, BudgetSuffices, Awaited, Wanted, Pending
  <2> QED
    BY <2>1, <2>2
<1>4. GraphIsTrue => GraphIsTrue'
  <2>1. Turning => Listed' = Listed
    BY <1>1, ListedStays
  <2>2. GraphIsTrue => NamesAreTrue' /\ RepositoriesAreTrue' /\ MembersAreTrue'
    BY <1>1, ForgeIsStill DEF GraphIsTrue, NamesAreTrue, RepositoriesAreTrue, MembersAreTrue,
                              Finished
  <2>3. GraphIsTrue => OrganizationIsBound' /\ PagesAreTrue'
    BY <1>1, <1>2, <2>1 DEF GraphIsTrue, OrganizationIsBound, PagesAreTrue, Finished
  <2>4. GraphIsTrue => TeamsAreTrue' /\ CollaboratorsAreTrue'
    BY <1>1, <1>2 DEF GraphIsTrue, TeamsAreTrue, CollaboratorsAreTrue, Finished, Pending, Present
  <2>5. GraphIsTrue => ResolutionIsTrue'
    BY <1>1, <1>2, ForgeIsStill DEF GraphIsTrue, ResolutionIsTrue, Pending
  <2> QED
    BY <2>2, <2>3, <2>4, <2>5 DEF GraphIsTrue
<1>5. PairsAreTrue => PairsAreTrue'
  BY <1>1, <1>2, ForgeIsStill DEF PairsAreTrue, Exact
<1> QED
  BY <1>1, <1>3, <1>4, <1>5 DEF ObserverInv

LEMMA ObserverInvIsKept ==
  Spec => []ObserverInv
<1>1. Init => ObserverInv
  BY InitIsObserved
<1>2. ObserverInv /\ [Next]_vars => ObserverInv'
  BY StartKeepsInv, VerifyKeepsInv, ReadPageKeepsInv, ResolveKeepsInv, ClassifyKeepsInv,
     ProceedKeepsInv, FailKeepsInv, ChangeKeepsInv, StutterKeepsInv DEF Next, Step
<1> QED
  BY <1>1, <1>2, PTL DEF Spec

LEMMA ObserverInvImplies ==
  ObserverInv => ResultsAreExact
<1>1. ASSUME ObserverInv PROVE ObserverTypeOK
  <2>1. graph.listed \subseteq Repositories /\ graph.teams \subseteq Teams
    BY <1>1, InputTypes DEF ObserverInv
  <2>2. pairs \in [Identities \X Bindings -> Reasons \cup {Unclassified}]
    BY <1>1 DEF ObserverInv, SnapshotTypes
  <2>3. result = "complete" => \A p \in DOMAIN pairs : pairs[p] \in Reasons
    BY <1>1, <2>2 DEF ObserverInv, DoneIsClassified
  <2> QED
    BY <1>1, <2>1, <2>2, <2>3 DEF ObserverInv, SnapshotTypes, ObserverTypeOK
<1>2. ASSUME ObserverInv PROVE UndisturbedIsExact
  BY <1>2 DEF ObserverInv, PairsAreTrue, Exact, UndisturbedIsExact
<1> QED
  BY <1>1, <1>2 DEF ObserverInv, ResultsAreExact

(* A complete snapshot has a reason for every pair, its graph gives no two *)
(* ids one name, and if nobody edited the forge meanwhile each reason is   *)
(* what the forge itself would say (observe).                              *)
THEOREM SnapshotsAreExact == Spec => []ResultsAreExact
  BY ObserverInvIsKept, ObserverInvImplies, PTL

LEMMA ReportsSayNothing ==
  ASSUME NEW code, Report(code), NEW p \in DOMAIN pairs, pairs[p] = Unclassified
  PROVE  ~Speaks(pairs'[p])
<1>1. pairs'[p] = Unclassified
  BY DEF Report
<1> QED
  BY <1>1 DEF Speaks, Unclassified

(* An answer that speaks is the one of the account that has the login.     *)
LEMMA AnswersSpeakOfTheUser ==
  ASSUME SnapshotTypes, NEW i, NEW r, NEW permission \in Permissions(i, r),
         Speaks(Answer(i, r, permission))
  PROVE  \E s \in Repositories :
           /\ forge.locator[s] = graph.repository[r]
           /\ (Answer(i, r, permission) = "no_explicit_access_none") = ~Granted(forge, i, s)
<1>1. Askable(i, r) /\ SameUser(i) /\ permission # "unrecognized"
  BY DEF Answer, Speaks
<1>2. PICK s \in Repositories :
        graph.repository[r] # Unknown /\ forge.locator[s] = graph.repository[r]
  BY <1>1 DEF Askable, RepositoryAt
<1>3. RepositoryAt(forge, graph.repository[r]) = {s}
  BY <1>2, ForgeTypes DEF SnapshotTypes, RepositoryAt
<1>4. UserAt(forge, graph.login[i]) = {i}
  BY <1>1 DEF SameUser
<1>5. permission = IF Granted(forge, i, s) THEN "read" ELSE "none"
  BY <1>1, <1>3, <1>4 DEF Permissions
<1>6. (Answer(i, r, permission) = "no_explicit_access_none") <=> permission = "none"
  BY <1>1 DEF Answer, Speaks
<1>7. (Answer(i, r, permission) = "no_explicit_access_none") <=> ~Granted(forge, i, s)
  BY <1>5, <1>6
<1> QED
  BY <1>2, <1>7

LEMMA ClassifyAsksTheUser ==
  ASSUME ObserverInv, Classify, NEW p \in DOMAIN pairs, pairs[p] = Unclassified,
         Speaks(pairs'[p])
  PROVE  \E s \in Repositories :
           /\ forge.locator[s] = graph.repository[p[2]]
           /\ (pairs'[p] = "no_explicit_access_none") = ~Granted(forge, p[1], s)
<1> DEFINE i == Item[1]
           r == Item[2]
<1>1. ~Speaks(Unclassified) /\ ~Speaks("identity_unresolved") /\ ~Speaks("repository_unavailable")
  BY DEF Speaks, Unclassified
<1>2. ASSUME NEW reason, Put(reason) PROVE p = Item /\ pairs'[p] = reason
  <2>1. pairs' = [pairs EXCEPT ![Item] = reason]
    BY <1>2 DEF Put
  <2>2. pairs'[p] # pairs[p]
    BY <1>1
  <2> QED
    BY <2>1, <2>2
<1>3. i \notin unresolved /\ r \in graph.listed
  BY <1>1, <1>2 DEF Classify
<1>4. PICK permission \in Permissions(i, r) : Put(Answer(i, r, permission))
  BY <1>3 DEF Classify
<1>5. p = Item /\ pairs'[p] = Answer(i, r, permission)
  BY <1>2, <1>4
<1> QED
  BY <1>4, <1>5, AnswersSpeakOfTheUser DEF ObserverInv

LEMMA StepAsksTheUser ==
  ASSUME ObserverInv, Next, NEW p \in DOMAIN pairs, pairs[p] = Unclassified,
         Speaks(pairs'[p])
  PROVE  \E s \in Repositories :
           /\ forge.locator[s] = graph.repository[p[2]]
           /\ (pairs'[p] = "no_explicit_access_none") = ~Granted(forge, p[1], s)
<1>1. pairs' # pairs
  BY DEF Speaks, Unclassified
<1>2. \A code : ~Report(code)
  BY ReportsSayNothing
<1>3. ~Start /\ ~Verify /\ ~Fail /\ ~ReadPage /\ ~Proceed /\ ~Change
  <2>1. ~Start /\ ~Verify /\ ~Fail
    BY <1>1, <1>2 DEF Start, Verify, Fail
  <2>2. ~ReadPage /\ ~Change
    BY <1>1, <1>2 DEF ReadPage, Change
  <2>3. ~Proceed
    <3>1. CASE stage = "collaborators" /\ ~Reserved
      BY <1>2, <3>1 DEF Proceed
    <3>2. CASE stage = "classify"
      BY <1>2, <3>2 DEF Proceed
    <3>3. CASE stage # "classify" /\ ~(stage = "collaborators" /\ ~Reserved)
      BY <1>1, <3>3 DEF Proceed
    <3> QED
      BY <3>1, <3>2, <3>3
  <2> QED
    BY <2>1, <2>2, <2>3
<1>4. ~Resolve
  BY <1>1, <1>2 DEF Resolve, ReadFallback
<1>5. Classify
  BY <1>3, <1>4 DEF Next, Step
<1> QED
  BY <1>5, ClassifyAsksTheUser

(* Where the budget may run out.                                           *)
LEMMA BudgetLasts ==
  ASSUME ObserverInv, Fail, Exhausted
  PROVE  stage \notin Ending
<1>1. left # {} /\ requests = RequestLimit /\ RequestLimit \in Nat
  BY InputTypes DEF Fail, Asks, Exhausted, ObserverInv
<1>2. Item \in left
  BY <1>1, ItemTypes DEF ObserverInv
<1>3. ASSUME stage = "resolve" PROVE FALSE
  <2>1. Item \in Awaited
    BY <1>1, <1>2, <1>3, ItemTypes DEF Fail, Asks, Awaited, Fallbacks, Listings, ObserverInv
  <2>2. IsFiniteSet(Awaited) /\ IsFiniteSet(InGraph \cup Awaited) /\ IsFiniteSet(Visible)
    <3>1. IsFiniteSet(InGraph) /\ IsFiniteSet(Fallbacks) /\ IsFiniteSet(Visible)
      BY UsersAreFinite DEF ObserverInv
    <3>2. IsFiniteSet(Awaited)
      BY <3>1, FS_Subset DEF Awaited
    <3> QED
      BY <3>1, <3>2, FS_Union
  <2> DEFINE a == Cardinality(Awaited)
             b == Cardinality(InGraph \cup Awaited)
             v == Cardinality(Visible)
  <2>3. a \in Nat /\ b \in Nat /\ v \in Nat /\ a # 0
    BY <2>1, <2>2, FS_CardinalityType, FS_EmptySet
  <2>4. a + b * v <= 0
    BY <1>1, <1>3 DEF ObserverInv, BudgetSuffices
  <2>5. b * v \in Nat
    BY <2>3
  <2> HIDE DEF a, b, v
  <2> QED
    BY <2>3, <2>4, <2>5
<1>4. ASSUME stage = "classify" PROVE FALSE
  <2>1. Item \in Wanted
    BY <1>1, <1>2, <1>4 DEF Fail, Asks, Wanted, Listings
  <2>2. IsFiniteSet(Wanted)
    <3>1. IsFiniteSet(Identities \X Bindings)
      BY ScopeTypes, FS_Product DEF ObserverInv, SnapshotTypes
    <3>2. Wanted \subseteq Identities \X Bindings
      BY <1>4, WorkIs DEF ObserverInv, SnapshotTypes, Wanted
    <3> QED
      BY <3>1, <3>2, FS_Subset
  <2>3. Cardinality(Wanted) \in Nat /\ Cardinality(Wanted) # 0
    BY <2>1, <2>2, FS_CardinalityType, FS_EmptySet
  <2>4. Cardinality(Wanted) <= 0
    BY <1>1, <1>4 DEF ObserverInv, BudgetSuffices
  <2> QED
    BY <2>3, <2>4
<1> QED
  BY <1>3, <1>4 DEF Ending

LEMMA ResolutionIsFinished ==
  ASSUME ObserverInv, Next, result' = "work_limit_exceeded", <<stage, result>>' # <<stage, result>>
  PROVE  stage \notin {"resolve", "classify"}
<1>1. result = "work_limit_exceeded" => stage = "reported"
  BY DEF ObserverInv, SnapshotTypes
<1>2. SUFFICES ASSUME stage \in Ending, result = "running" PROVE FALSE
  BY <1>1 DEF Ending, ObserverInv, SnapshotTypes
<1>3. \A code : Report(code) => code = "work_limit_exceeded"
  BY DEF Report
<1>4. result' # result
  BY <1>2
<1>5. ~Start /\ ~Verify /\ ~ReadPage /\ ~Change
  BY <1>2, <1>4 DEF Start, Verify, ReadPage, Change, Ending, Listings
<1>6. ~Proceed
  <2>1. ASSUME Proceed PROVE FALSE
    <3>1. CASE stage = "classify"
      <4>1. Report("complete")
        BY <2>1, <3>1 DEF Proceed
      <4> QED
        BY <1>3, <4>1
    <3>2. CASE stage = "resolve"
      BY <1>4, <2>1, <3>2 DEF Proceed
    <3> QED
      BY <1>2, <3>1, <3>2 DEF Ending
  <2> QED
    BY <2>1
<1>7. ~Resolve
  BY <1>3, <1>4 DEF Resolve, ReadFallback, Done, Kept
<1>8. ~Classify
  BY <1>4 DEF Classify, Put, Done, Kept
<1>9. Fail
  BY <1>5, <1>6, <1>7, <1>8 DEF Next, Step
<1>10. Exhausted
  BY <1>3, <1>9 DEF Fail, Failures
<1> QED
  BY <1>2, <1>9, <1>10, BudgetLasts

(* Whatever becomes of the forge under it, a snapshot takes a permission   *)
(* for an identity only from that identity's account, and work that the    *)
(* budget was reserved for is finished (classifyPair,                      *)
(* reserveResolutionRequests).                                             *)
THEOREM SnapshotsAnswerForTheirOwn == Spec => AnswersAreOwn
<1>1. ObserverInv /\ [Next]_vars =>
        [\A p \in DOMAIN pairs :
           pairs[p] = Unclassified /\ Speaks(pairs'[p]) =>
             \E r \in Repositories :
               /\ forge.locator[r] = graph.repository[p[2]]
               /\ (pairs'[p] = "no_explicit_access_none") = ~Granted(forge, p[1], r)]_vars
  BY StepAsksTheUser
<1>2. ObserverInv /\ [Next]_vars =>
        [result' = "work_limit_exceeded" => stage \notin {"resolve", "classify"}]_<<stage, result>>
  BY ResolutionIsFinished DEF vars
<1> QED
  BY <1>1, <1>2, ObserverInvIsKept, PTL
     DEF Spec, AnswersAreOwn, AnsweredByItsUser, ResolutionNeverStarves
=============================================================================
