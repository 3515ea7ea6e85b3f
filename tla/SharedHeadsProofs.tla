-------------------------- MODULE SharedHeadsProofs --------------------------
(***************************************************************************)
(* Proofs about shared heads, for any number of pull requests, branches,   *)
(* heads and sessions: a decision that is posted under a current claim is  *)
(* the one today's freezes and thaws call for, and only what was asked for *)
(* or shown is ever thawed.  The second half is about the runner: when its *)
(* claim is current and no approval disturbed its cache, it lists what is  *)
(* on the forge, caches it, plans every head of it, and decides and posts  *)
(* each; whatever could spoil one of these steps enqueues, and takes       *)
(* the claim away, or leaves a delivery in its queue, or marks the pull    *)
(* request in raced.                                                       *)
(***************************************************************************)
EXTENDS SharedHeads, SequenceTheorems, TLAPS

(* RunForSharedHead with policy.Evaluate, its duplicate-head rule and the  *)
(* shared-head approval, blocks a head exactly when one of its pull        *)
(* requests targets a frozen branch and is not thawed at this head.        *)
LEMMA DecisionBlocks ==
  ASSUME NEW refs PROVE (Decision(refs) = "failure") <=> Blocked(refs)
<1>1. CASE Blocked(refs)
  <2>1. PICK r \in refs : Frozen(r) /\ ~Thawed(r)
    BY <1>1 DEF Blocked
  <2>2. ~Passes(r, refs)
    BY <2>1 DEF Passes
  <2> QED BY <1>1, <2>2 DEF Decision
<1>2. CASE ~Blocked(refs)
  <2>1. \A r \in refs : Frozen(r) => Thawed(r)
    BY <1>2 DEF Blocked
  <2>2. ASSUME NEW r \in refs PROVE Passes(r, refs)
    <3>1. Duplicated(r, refs) => Shared(refs)
      BY DEF Duplicated, Shared
    <3> QED BY <2>1, <3>1 DEF Passes, FullyThawed
  <2> QED BY <1>2, <2>2 DEF Decision
<1> QED BY <1>1, <1>2

LEMMA FreshTokenExists ==
  ASSUME NEW t \in Tokens, Fresh(t)
  PROVE  FreshToken \in Tokens /\ Fresh(FreshToken) /\ FreshToken \in Nat \ {0}
<1>1. FreshToken \in Tokens /\ Fresh(FreshToken)
  BY DEF FreshToken
<1> QED BY <1>1 DEF Tokens
-----------------------------------------------------------------------------
(* What a step does to the job and to the claims.                          *)
KeepsJob == row' = row /\ claim' = claim
Asks == row' = Enqueued(row) /\ claim' = claim
Takes(s) ==
  /\ Claimable(row)
  /\ \E t \in Tokens : Fresh(t)
  /\ row' = Claimed(row, FreshToken)
  /\ claim' = [claim EXCEPT ![s] = ClaimOn(row')]
  /\ pc'[s] \notin {"fence", "post"}
Leaves(s) ==
  /\ row' \in {row, Completed(row, claim[s]), Rescheduled(row, claim[s])}
  /\ claim' = [claim EXCEPT ![s] = NoClaim]
Expires ==
  /\ row.lease = "live" /\ \A s \in Sessions : claim[s].token # row.token
  /\ row' = [row EXCEPT !.lease = "expired"] /\ claim' = claim
JobChanges ==
  \/ KeepsJob \/ Asks \/ Expires
  \/ \E s \in Sessions : Takes(s) \/ Leaves(s)

LEMMA StepsChangeJobs ==
  ASSUME TypeOK, StepsFit, [Next]_vars PROVE JobChanges
<1> USE DEF JobChanges
<1>1. ASSUME NEW s \in Sessions, ClaimWork(s) PROVE JobChanges
  <2>1. CASE Claimable(row)
    <3>1. Claims(s, op[s], FirstStep(op[s]))
      BY <1>1, <2>1 DEF ClaimWork
    <3>2. FirstStep(op[s]) \in {"plan", "evaluate", "list"}
      BY <1>1 DEF ClaimWork, StepsFit, FirstStep
    <3>3. Takes(s)
      BY <2>1, <3>1, <3>2 DEF Claims, Takes, TypeOK
    <3> QED BY <3>3
  <2>2. CASE ~Claimable(row)
    BY <1>1, <2>2 DEF ClaimWork, Goto, Stop, KeepsJob, Leaves
  <2> QED BY <2>1, <2>2
<1>2. ASSUME NEW s \in Sessions, EnqueueAgain(s) PROVE JobChanges
  BY <1>2 DEF EnqueueAgain, Goto, Asks
<1>3. ASSUME NEW s \in Sessions, Plan(s) \/ List(s) \/ Collect(s) \/ Post(s) PROVE JobChanges
  BY <1>3 DEF Plan, List, Collect, Post, With, KeepsJob, tables
<1>4. ASSUME NEW s \in Sessions, Keep(s) PROVE JobChanges
  BY <1>4 DEF Keep, Goto, Stop, KeepsJob, Leaves
<1>5. ASSUME NEW s \in Sessions, Apply(s) PROVE JobChanges
  BY <1>5 DEF Apply, With, KeepsJob
<1>6. ASSUME NEW s \in Sessions, Decide(s) PROVE JobChanges
  BY <1>6 DEF Decide, With, Stop, KeepsJob, Leaves
<1>7. ASSUME NEW s \in Sessions, Approve(s) PROVE JobChanges
  BY <1>7 DEF Approve, With, Asks
<1>8. ASSUME NEW s \in Sessions, Evaluate(s) \/ Fence(s) PROVE JobChanges
  BY <1>8 DEF Evaluate, Fence, ClaimLost, Goto, With, Stop, KeepsJob, Leaves, tables, TypeOK
<1>9. ASSUME NEW s \in Sessions, Complete(s) \/ Release(s) PROVE JobChanges
  BY <1>9 DEF Complete, Release, Stop, Leaves
<1>10. ASSUME NEW s \in Sessions, Request(s) PROVE JobChanges
  BY <1>10 DEF Request, RequestThaw, SetFreeze, Start, KeepsJob, Asks, tables
<1>11. ASSUME NEW s \in Sessions, Abandon(s) PROVE JobChanges
  BY <1>11 DEF Abandon, Stop, Leaves, tables
<1>12. ASSUME NEW s \in Sessions, NEW p \in PRs, Deliver(s, p) PROVE JobChanges
  BY <1>12 DEF Deliver, Start, Asks
<1>13. ASSUME RunDue PROVE JobChanges
  <2>1. Runner \in Sessions
    BY DEF Sessions
  <2>2. Takes(Runner)
    BY <1>13, <2>1 DEF RunDue, Claims, Takes, TypeOK
  <2> QED BY <2>1, <2>2
<1>14. ASSUME LeaseRunsOut PROVE JobChanges
  BY <1>14 DEF LeaseRunsOut, Expires, local
<1>15. ASSUME NEW p \in PRs, NEW to \in PullRequest, Move(p, to) PROVE JobChanges
  BY <1>15 DEF Move, KeepsJob, tables, local
<1>16. CASE UNCHANGED vars
  BY <1>16 DEF vars, KeepsJob, tables, local
<1> QED
  BY <1>1, <1>2, <1>3, <1>4, <1>5, <1>6, <1>7, <1>8, <1>9, <1>10, <1>11,
     <1>12, <1>13, <1>14, <1>15, <1>16 DEF Next, Step

LEMMA ClaimsStayFit ==
  ASSUME TypeOK, ClaimsFit, JobChanges PROVE ClaimsFit'
<1> DEFINE Types == row \in Row /\ claim \in [Sessions -> [gen : Nat, token : Nat]]
<1>1. Types
  BY DEF TypeOK
<1> USE <1>1 DEF ClaimsFit, Exists, Row, NoRow, NoClaim
<1>2. CASE KeepsJob
  BY <1>2 DEF KeepsJob
<1>3. CASE Asks
  BY <1>3 DEF Asks, Enqueued
<1>4. CASE Expires
  BY <1>4 DEF Expires
<1>5. ASSUME NEW s \in Sessions, Takes(s) PROVE ClaimsFit'
  <2>1. FreshToken \in Nat \ {0} /\ \A t \in Sessions : claim[t].token # FreshToken
    BY <1>5, FreshTokenExists DEF Takes, Fresh
  <2>2. row' = [gen |-> row.gen, run |-> row.run, token |-> FreshToken, lease |-> "live"]
    BY <1>5 DEF Takes, Claimed
  <2>3. claim'[s] = [gen |-> row.gen, token |-> FreshToken]
    BY <1>5, <2>2 DEF Takes, ClaimOn
  <2>4. \A t \in Sessions : t # s => claim'[t] = claim[t]
    BY <1>5 DEF Takes
  <2>5. row.gen # 0
    BY <1>5 DEF Takes, Claimable
  <2> QED BY <2>1, <2>2, <2>3, <2>4, <2>5
<1>6. ASSUME NEW s \in Sessions, Leaves(s) PROVE ClaimsFit'
  <2>1. \A t \in Sessions : claim'[t] \in {claim[t], NoClaim}
    BY <1>6 DEF Leaves
  <2>2. CASE row' = row
    BY <2>1, <2>2
  <2>3. CASE row' = NoRow
    BY <2>1, <2>3
  <2>4. CASE Exists(row) /\ row'.gen = row.gen /\ row'.token = 0 /\ row'.lease = "free"
    BY <2>1, <2>4
  <2> QED
    BY <1>6, <2>2, <2>3, <2>4
    DEF Leaves, Completed, Rescheduled, Released, Unlocked, Owns
<1> QED BY <1>2, <1>3, <1>4, <1>5, <1>6 DEF JobChanges

(* A session never comes to hold the job by what others do, and loses it   *)
(* to any request for work.                                                *)
LEMMA HoldsOnlyFades ==
  ASSUME TypeOK, ClaimsFit, JobChanges, NEW s \in Sessions, ~Takes(s), Holds(s)'
  PROVE  Holds(s) /\ claim'[s] = claim[s] /\ ~Asks
<1>1. row \in Row /\ claim \in [Sessions -> [gen : Nat, token : Nat]]
  BY DEF TypeOK
<1>2. /\ row'.gen # 0 /\ claim'[s].gen = row'.gen
      /\ claim'[s].token = row'.token /\ row'.lease = "live"
  BY DEF Holds, Current, Owns, Exists
<1> USE <1>1, <1>2 DEF Holds, Current, Owns, Exists, Row, ClaimsFit
<1>3. ~Asks
  <2> SUFFICES ASSUME Asks PROVE FALSE
    OBVIOUS
  <2>1. claim[s].gen = row.gen + 1 /\ claim[s].token = row.token /\ row.lease = "live"
    BY DEF Asks, Enqueued
  <2>2. row.gen # 0
    BY <2>1 DEF NoRow
  <2> QED BY <2>1, <2>2
<1>4. CASE KeepsJob
  BY <1>3, <1>4 DEF KeepsJob
<1>5. CASE Expires
  BY <1>5 DEF Expires
<1>6. ASSUME NEW t \in Sessions, Takes(t) PROVE FALSE
  <2>1. t # s
    BY <1>6
  <2>2. claim[s].token # FreshToken
    BY <1>6, FreshTokenExists DEF Takes, Fresh
  <2> QED BY <1>6, <2>1, <2>2 DEF Takes, Claimed
<1>7. ASSUME NEW t \in Sessions, Leaves(t) PROVE Holds(s) /\ claim'[s] = claim[s]
  <2>1. row' = row \/ row'.gen = 0 \/ row'.lease = "free"
    BY <1>7 DEF Leaves, Completed, Rescheduled, Released, Unlocked, NoRow
  <2>2. row' = row /\ row.token # 0
    BY <2>1
  <2>3. claim'[s] = claim[s]
    BY <1>7, <2>2 DEF Leaves, NoClaim
  <2> QED BY <2>2, <2>3
<1> QED BY <1>3, <1>4, <1>5, <1>6, <1>7 DEF JobChanges
-----------------------------------------------------------------------------
(* A step of one session leaves the local state of the others alone.       *)
Others(t) ==
  \A s \in Sessions \ {t} :
    pc'[s] = pc[s] /\ op'[s] = op[s] /\ claim'[s] = claim[s] /\ data'[s] = data[s]
Acts(t) ==
  \/ Step(t) \/ Request(t) \/ Abandon(t)
  \/ \E p \in PRs : Deliver(t, p)
  \/ t = Runner /\ RunDue

LEMMA OthersStand ==
  ASSUME TypeOK, StepsFit, NEW t \in Sessions, Acts(t) PROVE Others(t)
<1> DEFINE Touched(f) == f' = f \/ \E v : f' = [f EXCEPT ![t] = v]
<1> USE DEF Others
<1>1. SUFFICES Touched(pc) /\ Touched(op) /\ Touched(claim) /\ Touched(data)
  BY DEF TypeOK
<1>2. CASE ClaimWork(t)
  BY <1>2 DEF ClaimWork, Claims, Goto, Stop
<1>3. CASE EnqueueAgain(t) \/ Fence(t) \/ Keep(t)
  <2>1. \A step : Goto(t, step) => Touched(pc) /\ Touched(op) /\ Touched(claim) /\ Touched(data)
    BY DEF Goto
  <2>2. Stop(t) => Touched(pc) /\ Touched(op) /\ Touched(claim) /\ Touched(data)
    BY DEF Stop
  <2> QED BY <1>3, <2>1, <2>2 DEF EnqueueAgain, Fence, Keep, ClaimLost, StepsFit, TypeOK
<1>4. CASE Plan(t) \/ List(t) \/ Apply(t) \/ Collect(t) \/ Approve(t) \/ Post(t)
  BY <1>4 DEF Plan, List, Apply, Collect, Approve, Post, With
<1>5. CASE Decide(t)
  BY <1>5 DEF Decide, With, Stop
<1>6. CASE Evaluate(t)
  BY <1>6 DEF Evaluate, ClaimLost, Goto, With, Stop, TypeOK
<1>7. CASE Complete(t) \/ Release(t) \/ Abandon(t)
  BY <1>7 DEF Complete, Release, Abandon, Stop
<1>8. CASE Request(t)
  BY <1>8 DEF Request, RequestThaw, SetFreeze, Start
<1>9. ASSUME NEW p \in PRs, Deliver(t, p) PROVE Touched(pc) /\ Touched(op) /\ Touched(claim) /\ Touched(data)
  BY <1>9 DEF Deliver, Start
<1>10. CASE t = Runner /\ RunDue
  BY <1>10 DEF RunDue, Claims
<1> QED
  BY <1>2, <1>3, <1>4, <1>5, <1>6, <1>7, <1>8, <1>9, <1>10 DEF Acts, Step

LEMMA EveryStepActs ==
  ASSUME [Next]_vars
  PROVE  (\E t \in Sessions : Acts(t)) \/ UNCHANGED local
<1>1. Runner \in Sessions
  BY DEF Sessions
<1> QED BY <1>1 DEF Next, Acts, LeaseRunsOut, Move, vars

LEMMA VerdictsStayFit ==
  ASSUME IInv, [Next]_vars, JobChanges PROVE VerdictsFit'
<1> SUFFICES ASSUME NEW s \in Sessions, pc'[s] \in {"fence", "post"}, Holds(s)'
             PROVE  data'[s].verdict = "failure" <=> Blocked(data[s].deciding)'
  BY DEF VerdictsFit
<1>1. Holds(s) /\ ~Asks
  BY HoldsOnlyFades DEF IInv, Takes
<1>2. CASE Evaluate(s) /\ pc'[s] = "fence"
  <2>1. PICK refs \in data[s].plans :
          With(s, "fence", [data[s] EXCEPT !.plans = @ \ {refs}, !.deciding = Expanded(refs),
                                           !.verdict = Decision(Expanded(refs))])
    BY <1>1, <1>2 DEF Evaluate, Goto, IInv, TypeOK
  <2>2. data \in [Sessions -> Data]
    BY DEF IInv, TypeOK
  <2>3. data'[s].verdict = Decision(Expanded(refs)) /\ data'[s].deciding = Expanded(refs)
    BY <2>1, <2>2 DEF With, Data
  <2>4. frozen' = frozen /\ thaws' = thaws
    BY <1>2 DEF Evaluate, tables
  <2> QED BY <2>3, <2>4, DecisionBlocks DEF Blocked, Frozen, Thawed
<1>3. CASE pc[s] \in {"fence", "post"} /\ data'[s] = data[s] /\ frozen' = frozen /\ thaws' = thaws
  BY <1>1, <1>3 DEF IInv, VerdictsFit, Blocked, Frozen, Thawed
<1>4. frozen' = frozen /\ thaws' = thaws
  <2>1. ASSUME NEW t \in Sessions, Approve(t) PROVE FALSE
    BY <1>1, <2>1 DEF Approve, With, Asks
  <2>2. ASSUME NEW t \in Sessions, NEW b \in Freezable, SetFreeze(t, b) PROVE FALSE
    BY <1>1, <2>2 DEF SetFreeze, Start, Asks
  <2>3. ASSUME NEW t \in Sessions, Step(t), ~Approve(t)
        PROVE  frozen' = frozen /\ thaws' = thaws
    BY <2>3 DEF Step, ClaimWork, EnqueueAgain, Plan, Keep, List, Apply, Collect,
                Decide, Evaluate, Fence, Post, Complete, Release, tables
  <2>4. ASSUME NEW t \in Sessions, Abandon(t) \/ \E p \in PRs : Deliver(t, p)
        PROVE  frozen' = frozen /\ thaws' = thaws
    BY <2>4 DEF Abandon, Deliver, tables
  <2>5. ASSUME NEW t \in Sessions, NEW p \in PRs, NEW c, RequestThaw(t, p, c)
        PROVE  frozen' = frozen /\ thaws' = thaws
    BY <2>5 DEF RequestThaw, tables
  <2>6. ASSUME RunDue \/ LeaseRunsOut \/ UNCHANGED vars
        PROVE  frozen' = frozen /\ thaws' = thaws
    BY <2>6 DEF RunDue, LeaseRunsOut, vars, tables
  <2>7. ASSUME NEW p \in PRs, NEW to \in PullRequest, Move(p, to)
        PROVE  frozen' = frozen /\ thaws' = thaws
    BY <2>7 DEF Move, tables
  <2> QED BY <2>1, <2>2, <2>3, <2>4, <2>5, <2>6, <2>7 DEF Next, Request
<1>5. \/ Evaluate(s) /\ pc'[s] = "fence"
      \/ pc[s] \in {"fence", "post"} /\ data'[s] = data[s]
  <2>1. CASE UNCHANGED local
    BY <2>1 DEF local
  <2>2. ASSUME NEW t \in Sessions, t # s, Acts(t)
        PROVE  pc[s] \in {"fence", "post"} /\ data'[s] = data[s]
    BY <2>2, OthersStand DEF Others, IInv
  <2>3. CASE Acts(s)
    <3>1. CASE Evaluate(s)
      BY <3>1 DEF Evaluate, ClaimLost, Goto, With, Stop, IInv, TypeOK
    <3>2. CASE Fence(s)
      BY <1>1, <3>2 DEF Fence, Goto
    <3>3. CASE ClaimWork(s)
      <4>1. FirstStep(op[s]) \in {"plan", "evaluate", "list"}
        BY <3>3 DEF ClaimWork, IInv, StepsFit, FirstStep
      <4> QED BY <3>3, <4>1 DEF ClaimWork, Claims, Goto, Stop, IInv, TypeOK
    <3>4. CASE EnqueueAgain(s) \/ Plan(s) \/ Keep(s) \/ List(s) \/ Apply(s) \/ Collect(s)
               \/ Approve(s) \/ Post(s)
      BY <3>4 DEF EnqueueAgain, Plan, Keep, List, Apply, Collect, Approve, Post,
                  With, Goto, Stop, IInv, TypeOK
    <3>5. CASE Decide(s)
      BY <3>5 DEF Decide, With, Stop, IInv, TypeOK
    <3>6. CASE Complete(s) \/ Release(s) \/ Abandon(s)
      BY <3>6 DEF Complete, Release, Abandon, Stop, IInv, TypeOK
    <3>7. CASE Request(s)
      BY <3>7 DEF Request, RequestThaw, SetFreeze, Start, IInv, TypeOK
    <3>8. CASE \E p \in PRs : Deliver(s, p)
      BY <3>8 DEF Deliver, Start, IInv, TypeOK
    <3>9. CASE s = Runner /\ RunDue
      BY <3>9 DEF RunDue, Claims, IInv, TypeOK
    <3> QED
      BY <2>3, <3>1, <3>2, <3>3, <3>4, <3>5, <3>6, <3>7, <3>8, <3>9 DEF Acts, Step
  <2> QED BY <2>1, <2>2, <2>3, EveryStepActs
<1> QED BY <1>2, <1>3, <1>4, <1>5
-----------------------------------------------------------------------------
LEMMA OfferedGrows ==
  ASSUME [Next]_vars PROVE offered \subseteq offered'
<1>1. ASSUME NEW s \in Sessions, Step(s), ~Decide(s) PROVE offered' = offered
  BY <1>1 DEF Step, ClaimWork, EnqueueAgain, Plan, Keep, List, Apply, Collect,
              Approve, Evaluate, Fence, Post, Complete, Release
<1>2. ASSUME NEW s \in Sessions, Decide(s) PROVE offered \subseteq offered'
  BY <1>2 DEF Decide
<1>3. ASSUME NEW s \in Sessions, Request(s) \/ Abandon(s) \/ \E p \in PRs : Deliver(s, p)
      PROVE  offered' = offered
  BY <1>3 DEF Request, RequestThaw, SetFreeze, Abandon, Deliver
<1>4. ASSUME RunDue \/ LeaseRunsOut \/ UNCHANGED vars PROVE offered' = offered
  BY <1>4 DEF RunDue, LeaseRunsOut, vars
<1>5. ASSUME NEW p \in PRs, NEW to \in PullRequest, Move(p, to) PROVE offered' = offered
  BY <1>5 DEF Move
<1> QED BY <1>1, <1>2, <1>3, <1>4, <1>5 DEF Next

(* Decide: without a confirmation only the pull request asked for is at    *)
(* the head; a confirmation is one of the sets shown.                      *)
LEMMA DecideGrantsWhatWasShown ==
  ASSUME IInv, NEW s \in Sessions, Decide(s), pc'[s] = "approve",
         NEW r \in data'[s].grant
  PROVE  \/ r = RefTo(data'[s].pr, data'[s].got)
         \/ \E shown \in offered : r \in shown
<1> DEFINE p == data[s].pr
           got == data[s].got
           refs == OpenAt(cache', got.head)
<1>1. /\ p \in PRs /\ got.open /\ data[s].confirms \in offered \cup {{}}
      /\ data \in [Sessions -> Data] /\ cache \in [PRs -> Rows]
      /\ pc \in [Sessions -> Steps]
  BY DEF Decide, IInv, StepsFit, TypeOK
<1>2. cache'[p] = got
  BY <1>1 DEF Decide, CacheBecomes
<1>3. /\ Confirmed(refs, data[s].confirms)
      /\ data'[s] = [data[s] EXCEPT !.grant = {q \in refs : Frozen(q)}, !.plans = {refs}]
  BY <1>1 DEF Decide, With, Stop
<1>4. r \in refs /\ data'[s].pr = p /\ data'[s].got = got
  BY <1>1, <1>3 DEF Data
<1>5. CASE data[s].confirms = {}
  <2>1. ~Shared(refs)
    BY <1>3, <1>5 DEF Confirmed
  <2>2. RefTo(p, got) \in refs
    BY <1>1, <1>2 DEF OpenAt, OpenIn, RefTo
  <2>3. r.pr = p
    BY <1>4, <2>1, <2>2 DEF Shared, RefTo
  <2>4. r = RefTo(p, got)
    BY <1>2, <1>4, <2>3 DEF OpenAt, OpenIn, RefTo
  <2> QED BY <1>4, <2>4
<1>6. CASE data[s].confirms # {}
  BY <1>1, <1>3, <1>4, <1>6 DEF Confirmed
<1> QED BY <1>5, <1>6

LEMMA GrantsStayFit ==
  ASSUME IInv, [Next]_vars PROVE GrantsFit'
<1> SUFFICES ASSUME NEW s \in Sessions, pc'[s] = "approve", NEW r \in data'[s].grant
             PROVE  \/ r = RefTo(data'[s].pr, data'[s].got)
                    \/ \E shown \in offered' : r \in shown
  BY DEF GrantsFit, RefTo
<1>1. offered \subseteq offered'
  BY OfferedGrows
<1>2. CASE Decide(s)
  BY <1>1, <1>2, DecideGrantsWhatWasShown
<1>3. CASE pc[s] = "approve" /\ data'[s] = data[s]
  BY <1>1, <1>3 DEF IInv, GrantsFit
<1>4. Decide(s) \/ (pc[s] = "approve" /\ data'[s] = data[s])
  <2>1. CASE UNCHANGED local
    BY <2>1 DEF local
  <2>2. ASSUME NEW t \in Sessions, t # s, Acts(t)
        PROVE  pc[s] = "approve" /\ data'[s] = data[s]
    BY <2>2, OthersStand DEF Others, IInv
  <2>3. CASE Acts(s)
    <3> USE DEF IInv, TypeOK
    <3>1. CASE Evaluate(s) \/ Fence(s)
      BY <3>1 DEF Evaluate, Fence, ClaimLost, Goto, With, Stop
    <3>2. CASE ClaimWork(s)
      <4>1. FirstStep(op[s]) \in {"plan", "evaluate", "list"}
        BY <3>2 DEF ClaimWork, StepsFit, FirstStep
      <4> QED BY <3>2, <4>1 DEF ClaimWork, Claims, Goto, Stop
    <3>3. CASE EnqueueAgain(s) \/ Plan(s) \/ Keep(s) \/ List(s) \/ Apply(s) \/ Collect(s)
               \/ Approve(s) \/ Post(s)
      BY <3>3 DEF EnqueueAgain, Plan, Keep, List, Apply, Collect, Approve, Post,
                  With, Goto, Stop
    <3>4. CASE Complete(s) \/ Release(s) \/ Abandon(s)
      BY <3>4 DEF Complete, Release, Abandon, Stop
    <3>5. CASE Request(s)
      BY <3>5 DEF Request, RequestThaw, SetFreeze, Start
    <3>6. CASE \E p \in PRs : Deliver(s, p)
      BY <3>6 DEF Deliver, Start
    <3>7. CASE s = Runner /\ RunDue
      BY <3>7 DEF RunDue, Claims
    <3> QED
      BY <2>3, <3>1, <3>2, <3>3, <3>4, <3>5, <3>6, <3>7 DEF Acts, Step
  <2> QED BY <2>1, <2>2, <2>3, EveryStepActs
<1> QED BY <1>2, <1>3, <1>4
-----------------------------------------------------------------------------
LEMMA ClaimLostSteps ==
  ASSUME TypeOK, NEW s \in Sessions, pc[s] \in {"evaluate", "fence"}, ClaimLost(s)
  PROVE  \/ op[s] = "webhook" /\ Goto(s, "keepOnly")
         \/ op[s] = "runner" /\ Goto(s, "release")
         \/ Stop(s)
<1>1. op[s] \in {"webhook", "approve", "converge", "runner"}
  BY DEF TypeOK
<1> QED BY <1>1 DEF ClaimLost

(* The steps of an operation follow each other in the order of the code.   *)
LEMMA StepsStayFit ==
  ASSUME IInv, [Next]_vars PROVE StepsFit'
<1> DEFINE Fit(s) ==
      /\ pc'[s] = "claim" => op'[s] \in {"webhook", "approve", "converge"}
      /\ pc'[s] \in {"again", "plan", "keep", "keepOnly"} => op'[s] = "webhook"
      /\ pc'[s] \in {"list", "apply", "collect"} => op'[s] \in {"approve", "converge", "runner"}
      /\ pc'[s] \in {"decide", "approve"} => op'[s] = "approve"
      /\ pc'[s] \in {"fence", "post"} => data'[s].verdict # "none"
      /\ op'[s] = "webhook" => data'[s].pr \in PRs
      /\ op'[s] = "approve" /\ pc'[s] \in {"list", "apply", "decide"} =>
           /\ data'[s].pr \in PRs /\ data'[s].got.open
           /\ data'[s].confirms \in offered' \cup {{}}
<1> SUFFICES ASSUME NEW s \in Sessions PROVE Fit(s)
  BY DEF StepsFit
<1>1. offered \subseteq offered'
  BY OfferedGrows
<1>2. ASSUME pc'[s] = pc[s], op'[s] = op[s], data'[s] = data[s] PROVE Fit(s)
  BY <1>1, <1>2 DEF IInv, StepsFit
<1>3. CASE UNCHANGED local
  BY <1>2, <1>3 DEF local
<1>4. ASSUME NEW t \in Sessions, t # s, Acts(t) PROVE Fit(s)
  BY <1>2, <1>4, OthersStand DEF Others, IInv
<1>5. CASE Acts(s)
  <2> USE DEF IInv, TypeOK, StepsFit
  <2>1. CASE ClaimWork(s)
    <3>1. CASE Claimable(row)
      <4>1. /\ pc'[s] = FirstStep(op[s]) /\ op'[s] = op[s] /\ data'[s] = data[s]
            /\ pc[s] = "claim"
        BY <2>1, <3>1 DEF ClaimWork, Claims
      <4> QED BY <4>1 DEF FirstStep
    <3>2. CASE ~Claimable(row)
      BY <2>1, <3>2 DEF ClaimWork, Goto, Stop
    <3> QED BY <3>1, <3>2
  <2>2. CASE EnqueueAgain(s) \/ Keep(s)
    BY <2>2 DEF EnqueueAgain, Keep, Goto, Stop
  <2>3. CASE Plan(s)
    BY <2>3 DEF Plan, With, Data
  <2>4. CASE List(s)
    BY <1>1, <2>4 DEF List, With, Data
  <2>5. CASE Apply(s)
    BY <1>1, <2>5 DEF Apply, With, Data
  <2>6. CASE Collect(s) \/ Approve(s)
    BY <2>6 DEF Collect, Approve, With
  <2>7. CASE Decide(s)
    BY <2>7 DEF Decide, With, Stop
  <2>8. CASE Evaluate(s)
    <3>1. CASE data[s].plans = {}
      BY <2>8, <3>1 DEF Evaluate, Goto
    <3>2. CASE data[s].plans # {} /\ ~Holds(s)
      <4>1. pc[s] = "evaluate" /\ ClaimLost(s)
        BY <2>8, <3>2 DEF Evaluate
      <4> QED BY <4>1, ClaimLostSteps DEF Goto, Stop
    <3>3. CASE data[s].plans # {} /\ Holds(s)
      <4>1. /\ pc'[s] = "fence" /\ op'[s] = op[s]
            /\ data'[s].pr = data[s].pr /\ data'[s].verdict # "none"
        <5>1. PICK refs \in data[s].plans :
                With(s, "fence", [data[s] EXCEPT !.plans = @ \ {refs}, !.deciding = Expanded(refs),
                                                 !.verdict = Decision(Expanded(refs))])
          BY <2>8, <3>3 DEF Evaluate
        <5>2. Decision(Expanded(refs)) # "none"
          BY DEF Decision
        <5> QED BY <5>1, <5>2 DEF With, Data
      <4> QED BY <4>1
    <3> QED BY <3>1, <3>2, <3>3
  <2>9. CASE Fence(s)
    <3>1. CASE Holds(s)
      BY <2>9, <3>1 DEF Fence, Goto
    <3>2. CASE ~Holds(s)
      <4>1. pc[s] = "fence" /\ ClaimLost(s)
        BY <2>9, <3>2 DEF Fence
      <4> QED BY <4>1, ClaimLostSteps DEF Goto, Stop
    <3> QED BY <3>1, <3>2
  <2>10. CASE Post(s)
    BY <2>10 DEF Post, With, Data
  <2>11. CASE Complete(s) \/ Release(s) \/ Abandon(s)
    BY <2>11 DEF Complete, Release, Abandon, Stop
  <2>12. ASSUME NEW p \in PRs, NEW c \in offered \cup {{}}, RequestThaw(s, p, c) PROVE Fit(s)
    <3>1. /\ pc'[s] = "list" /\ op'[s] = "approve" /\ offered' = offered
          /\ data'[s] = [NoData EXCEPT !.pr = p, !.got = forge[p], !.confirms = c]
          /\ forge[p].open
      BY <2>12 DEF RequestThaw, Start
    <3> QED BY <3>1 DEF NoData
  <2>13. ASSUME NEW b \in Freezable, SetFreeze(s, b) PROVE Fit(s)
    BY <2>13 DEF SetFreeze, Start
  <2>14. ASSUME NEW p \in PRs, Deliver(s, p) PROVE Fit(s)
    <3>1. /\ pc'[s] = "claim" /\ op'[s] = "webhook"
          /\ data'[s] = [NoData EXCEPT !.pr = p, !.got = Head(queue[p])]
      BY <2>14 DEF Deliver, Start
    <3> QED BY <3>1 DEF NoData
  <2>15. CASE s = Runner /\ RunDue
    BY <2>15 DEF RunDue, Claims
  <2> QED
    BY <1>5, <2>1, <2>2, <2>3, <2>4, <2>5, <2>6, <2>7, <2>8, <2>9, <2>10, <2>11,
       <2>12, <2>13, <2>14, <2>15 DEF Acts, Step, Request
<1> QED BY <1>3, <1>4, <1>5, EveryStepActs
-----------------------------------------------------------------------------
(* Type correctness, in three parts.                                       *)
TableTypes ==
  /\ forge \in [PRs -> Rows] /\ cache \in [PRs -> Rows]
  /\ queue \in [PRs -> Seq(PullRequest)]
  /\ frozen \subseteq Freezable /\ thaws \subseteq Ref
  /\ posted \in [Heads -> {"nothing", "success", "failure"}]
  /\ offered \subseteq SUBSET Ref
  /\ raced \subseteq PRs
  /\ moves \in Nat /\ ops \in Nat /\ crashes \in Nat
JobTypes == row \in Row /\ claim \in [Sessions -> [gen : Nat, token : Nat]]
LocalTypes ==
  /\ pc \in [Sessions -> Steps]
  /\ op \in [Sessions -> {"none", "webhook", "approve", "converge", "runner"}]
  /\ data \in [Sessions -> Data]
  /\ \A s \in Sessions : {} \notin data[s].plans
  /\ \A s \in Sessions : pc[s] = "idle" <=> op[s] = "none"

LEMMA TypesInParts == TypeOK <=> TableTypes /\ JobTypes /\ LocalTypes
BY DEF TypeOK, TableTypes, JobTypes, LocalTypes

LEMMA OpenInType ==
  ASSUME NEW table \in [PRs -> Rows], NEW h
  PROVE  OpenIn(table) \subseteq Ref /\ OpenAt(table, h) \subseteq Ref
<1>1. \A p \in PRs : table[p].open => table[p] \in PullRequest
  BY DEF Rows, Unknown
<1>2. \A p \in PRs : table[p].open => RefTo(p, table[p]) \in Ref
  BY <1>1 DEF RefTo, Ref, PullRequest
<1> QED BY <1>2 DEF OpenIn, OpenAt

LEMMA ExpandedType ==
  ASSUME TypeOK, NEW refs \in SUBSET Ref PROVE Expanded(refs) \subseteq Ref
BY OpenInType DEF TypeOK, Expanded

LEMMA JobTypesKept ==
  ASSUME TypeOK, JobChanges PROVE JobTypes'
<1> USE DEF JobTypes, TypeOK, Row
<1>1. CASE KeepsJob
  BY <1>1 DEF KeepsJob
<1>2. CASE Asks
  BY <1>2 DEF Asks, Enqueued
<1>3. CASE Expires
  BY <1>3 DEF Expires
<1>4. ASSUME NEW s \in Sessions, Takes(s) PROVE JobTypes'
  <2>1. FreshToken \in Nat
    BY <1>4, FreshTokenExists DEF Takes
  <2>2. row' \in Row
    BY <1>4, <2>1 DEF Takes, Claimed
  <2>3. ClaimOn(row') \in [gen : Nat, token : Nat]
    BY <2>2 DEF ClaimOn
  <2> QED BY <1>4, <2>2, <2>3 DEF Takes
<1>5. ASSUME NEW s \in Sessions, Leaves(s) PROVE JobTypes'
  <2>1. row' \in Row
    BY <1>5 DEF Leaves, Completed, Rescheduled, Released, Unlocked, NoRow
  <2> QED BY <1>5, <2>1 DEF Leaves, NoClaim
<1> QED BY <1>1, <1>2, <1>3, <1>4, <1>5 DEF JobChanges
-----------------------------------------------------------------------------
(* The ways a session moves on keep its types.                             *)
LEMMA NoDataType == NoData \in Data /\ NoData.plans = {}
BY DEF NoData, Data, Rows

LEMMA GotoTypes ==
  ASSUME TypeOK, NEW s \in Sessions, pc[s] # "idle",
         NEW step \in Steps \ {"idle"}, Goto(s, step)
  PROVE  LocalTypes'
BY DEF TypeOK, Goto, LocalTypes

LEMMA WithTypes ==
  ASSUME TypeOK, NEW s \in Sessions, pc[s] # "idle",
         NEW step \in Steps \ {"idle"}, NEW locals \in Data, {} \notin locals.plans,
         With(s, step, locals)
  PROVE  LocalTypes'
BY DEF TypeOK, With, LocalTypes

LEMMA StopTypes ==
  ASSUME TypeOK, NEW s \in Sessions, Stop(s) PROVE LocalTypes'
BY NoDataType DEF TypeOK, Stop, LocalTypes, Steps

LEMMA StartTypes ==
  ASSUME TypeOK, NEW s \in Sessions, NEW kind \in {"webhook", "approve", "converge"},
         NEW step \in Steps \ {"idle"}, NEW locals \in Data, {} \notin locals.plans,
         Start(s, kind, step, locals)
  PROVE  LocalTypes'
BY DEF TypeOK, Start, LocalTypes

LEMMA ClaimsTypes ==
  ASSUME TypeOK, NEW s \in Sessions,
         NEW kind \in {"webhook", "approve", "converge", "runner"},
         NEW step \in Steps \ {"idle"}, Claims(s, kind, step)
  PROVE  LocalTypes'
BY DEF TypeOK, Claims, LocalTypes

LEMMA PlannedType ==
  ASSUME TypeOK, NEW p \in PRs, NEW got \in Rows, NEW h
  PROVE  Planned(p, got, h) \subseteq Ref
<1>1. OpenAt(cache, h) \subseteq Ref
  BY OpenInType DEF TypeOK
<1>2. got.open => RefTo(p, got) \in Ref
  BY DEF Rows, Unknown, PullRequest, RefTo, Ref
<1> QED BY <1>1, <1>2 DEF Planned

LEMMA LocalTypesKept ==
  ASSUME TypeOK, TableTypes', StepsFit, [Next]_vars PROVE LocalTypes'
<1>1. ASSUME NEW s \in Sessions, Step(s) PROVE LocalTypes'
  <2>1. /\ data[s] \in Data /\ {} \notin data[s].plans
        /\ pc[s] \in Steps /\ (pc[s] # "idle" => op[s] # "none")
        /\ op[s] \in {"none", "webhook", "approve", "converge", "runner"}
        /\ forge \in [PRs -> Rows] /\ cache \in [PRs -> Rows]
    BY DEF TypeOK
  <2>2. ASSUME pc[s] \in {"evaluate", "fence"}, ClaimLost(s) PROVE LocalTypes'
    BY <2>2, ClaimLostSteps, GotoTypes, StopTypes DEF Steps
  <2>3. CASE ClaimWork(s)
    <3>1. /\ op[s] \in {"webhook", "approve", "converge"} /\ pc[s] = "claim"
          /\ FirstStep(op[s]) \in Steps \ {"idle"}
      BY <2>3 DEF ClaimWork, StepsFit, FirstStep, Steps
    <3> QED BY <2>3, <3>1, ClaimsTypes, GotoTypes, StopTypes DEF ClaimWork, Steps
  <2>4. CASE EnqueueAgain(s) \/ Keep(s)
    BY <2>4, GotoTypes, StopTypes DEF EnqueueAgain, Keep, Steps
  <2>5. CASE Plan(s)
    <3> DEFINE p == data[s].pr
               got == data[s].got
               plans == {Planned(p, got, h) : h \in HeadsOf(p, got)} \ {{}}
               locals == [data[s] EXCEPT !.plans = plans]
    <3>1. p \in PRs /\ got \in Rows
      BY <2>1, <2>5 DEF Plan, StepsFit, Data
    <3>2. plans \in SUBSET SUBSET Ref /\ {} \notin plans
      BY <3>1, PlannedType
    <3>3. locals \in Data /\ {} \notin locals.plans
      BY <2>1, <3>2 DEF Data
    <3>4. With(s, "evaluate", locals) /\ pc[s] # "idle"
      BY <2>5 DEF Plan
    <3> QED BY <3>3, <3>4, WithTypes DEF Steps
  <2>6. CASE List(s)
    <3> DEFINE locals == [data[s] EXCEPT !.listing = OpenIn(forge)]
    <3>1. locals \in Data /\ locals.plans = data[s].plans
      BY <2>1, OpenInType DEF Data
    <3>2. With(s, "apply", locals) /\ pc[s] # "idle"
      BY <2>6 DEF List
    <3> QED BY <2>1, <3>1, <3>2, WithTypes DEF Steps
  <2>7. CASE Apply(s)
    <3> DEFINE locals == [data[s] EXCEPT !.listing = {}]
    <3>1. locals \in Data /\ locals.plans = data[s].plans
      BY <2>1 DEF Data
    <3>2. /\ With(s, "decide", locals) \/ With(s, "collect", locals)
          /\ pc[s] # "idle"
      BY <2>7 DEF Apply
    <3> QED BY <2>1, <3>1, <3>2, WithTypes DEF Steps
  <2>8. CASE Collect(s)
    <3> DEFINE refs == {r \in OpenIn(cache) : op[s] = "converge" => r.target = data[s].branch}
               plans == {{r \in refs : r.head = q.head} : q \in refs}
               locals == [NoData EXCEPT !.plans = plans]
    <3>1. refs \subseteq Ref
      BY <2>1, OpenInType
    <3>2. plans \in SUBSET SUBSET Ref /\ {} \notin plans
      BY <3>1
    <3>3. locals \in Data /\ locals.plans = plans
      BY <3>2, NoDataType DEF Data
    <3>4. With(s, "evaluate", locals) /\ pc[s] # "idle"
      BY <2>8 DEF Collect
    <3> QED BY <3>2, <3>3, <3>4, WithTypes DEF Steps
  <2>9. CASE Decide(s)
    <3> DEFINE refs == OpenAt(cache', data[s].got.head)
               grant == {r \in refs : Frozen(r)}
               locals == [data[s] EXCEPT !.grant = grant, !.plans = {refs}]
    <3>1. refs \subseteq Ref
      BY OpenInType DEF TableTypes
    <3>2. locals \in Data /\ locals.plans = {refs}
      BY <2>1, <3>1 DEF Data
    <3>3. \/ Stop(s)
          \/ grant # {} /\ With(s, "approve", locals) /\ pc[s] # "idle"
      BY <2>9 DEF Decide
    <3>4. grant # {} => {} \notin locals.plans
      BY <3>2
    <3> QED BY <3>2, <3>3, <3>4, WithTypes, StopTypes DEF Steps
  <2>10. CASE Approve(s)
    <3> DEFINE locals == [NoData EXCEPT !.plans = data[s].plans]
    <3>1. locals \in Data /\ locals.plans = data[s].plans
      BY <2>1, NoDataType DEF Data
    <3>2. With(s, "claim", locals) /\ pc[s] # "idle"
      BY <2>10 DEF Approve
    <3> QED BY <2>1, <3>1, <3>2, WithTypes DEF Steps
  <2>11. CASE Evaluate(s)
    <3>1. CASE data[s].plans = {}
      BY <2>11, <3>1, GotoTypes DEF Evaluate, Steps
    <3>2. CASE data[s].plans # {} /\ ~Holds(s)
      BY <2>2, <2>11, <3>2 DEF Evaluate
    <3>3. CASE data[s].plans # {} /\ Holds(s)
      <4>1. PICK refs \in data[s].plans :
              With(s, "fence", [data[s] EXCEPT !.plans = @ \ {refs}, !.deciding = Expanded(refs),
                                               !.verdict = Decision(Expanded(refs))])
        BY <2>11, <3>3 DEF Evaluate
      <4> DEFINE locals == [data[s] EXCEPT !.plans = @ \ {refs}, !.deciding = Expanded(refs),
                                           !.verdict = Decision(Expanded(refs))]
      <4>2. refs \in SUBSET Ref
        BY <2>1 DEF Data
      <4>3. Expanded(refs) \in SUBSET Ref
        BY <4>2, ExpandedType
      <4>4. Decision(Expanded(refs)) \in {"none", "success", "failure"}
        BY DEF Decision
      <4>5. locals \in Data /\ locals.plans = data[s].plans \ {refs}
        BY <2>1, <4>3, <4>4 DEF Data
      <4>6. pc[s] # "idle"
        BY <2>11 DEF Evaluate
      <4> QED BY <2>1, <4>1, <4>5, <4>6, WithTypes DEF Steps
    <3> QED BY <3>1, <3>2, <3>3
  <2>12. CASE Fence(s)
    BY <2>2, <2>12, GotoTypes DEF Fence, Steps
  <2>13. CASE Post(s)
    <3> DEFINE locals == [data[s] EXCEPT !.deciding = {}, !.verdict = "none"]
    <3>1. locals \in Data /\ locals.plans = data[s].plans
      BY <2>1 DEF Data
    <3>2. With(s, "evaluate", locals) /\ pc[s] # "idle"
      BY <2>13 DEF Post
    <3> QED BY <2>1, <3>1, <3>2, WithTypes DEF Steps
  <2>14. CASE Complete(s) \/ Release(s)
    BY <2>14, StopTypes DEF Complete, Release
  <2> QED
    BY <1>1, <2>3, <2>4, <2>5, <2>6, <2>7, <2>8, <2>9, <2>10, <2>11, <2>12, <2>13, <2>14
    DEF Step
<1>2. ASSUME NEW s \in Sessions, NEW p \in PRs, NEW c \in offered \cup {{}}, RequestThaw(s, p, c)
      PROVE  LocalTypes'
  <2> DEFINE locals == [NoData EXCEPT !.pr = p, !.got = forge[p], !.confirms = c]
  <2>1. forge[p] \in Rows /\ c \in SUBSET Ref
    BY DEF TypeOK
  <2>2. locals \in Data /\ locals.plans = {}
    BY <2>1, NoDataType DEF NoData, Data
  <2> QED BY <1>2, <2>2, StartTypes DEF RequestThaw, Steps
<1>3. ASSUME NEW s \in Sessions, NEW b \in Freezable, SetFreeze(s, b) PROVE LocalTypes'
  <2> DEFINE locals == [NoData EXCEPT !.branch = b]
  <2>1. locals \in Data /\ locals.plans = {}
    BY NoDataType, SharedHeadsAssumption DEF NoData, Data
  <2> QED BY <1>3, <2>1, StartTypes DEF SetFreeze, Steps
<1>4. ASSUME NEW s \in Sessions, NEW p \in PRs, Deliver(s, p) PROVE LocalTypes'
  <2> DEFINE locals == [NoData EXCEPT !.pr = p, !.got = Head(queue[p])]
  <2>1. queue[p] \in Seq(PullRequest) /\ queue[p] # <<>>
    BY <1>4 DEF Deliver, TypeOK
  <2>2. Head(queue[p]) \in Rows
    BY <2>1 DEF Rows
  <2>3. locals \in Data /\ locals.plans = {}
    BY <2>2, NoDataType DEF NoData, Data
  <2> QED BY <1>4, <2>3, StartTypes DEF Deliver, Steps
<1>5. ASSUME NEW s \in Sessions, Abandon(s) PROVE LocalTypes'
  BY <1>5, StopTypes DEF Abandon
<1>6. ASSUME RunDue PROVE LocalTypes'
  BY <1>6, ClaimsTypes DEF RunDue, Sessions, Steps
<1>7. ASSUME UNCHANGED local PROVE LocalTypes'
  BY <1>7 DEF local, LocalTypes, TypeOK
<1> QED
  BY <1>1, <1>2, <1>3, <1>4, <1>5, <1>6, <1>7 DEF Next, Request, LeaseRunsOut, Move, vars

LEMMA TableTypesKept ==
  ASSUME TypeOK, StepsFit, [Next]_vars PROVE TableTypes'
<1> USE DEF TypeOK, TableTypes
<1>1. ASSUME NEW table \in [PRs -> Rows], CacheBecomes(table)
      PROVE  cache' \in [PRs -> Rows] /\ raced' \subseteq PRs
  BY <1>1 DEF CacheBecomes
<1>2. ASSUME NEW s \in Sessions, Step(s) PROVE TableTypes'
  <2>1. data[s] \in Data
    OBVIOUS
  <2>2. CASE ClaimWork(s) \/ EnqueueAgain(s) \/ Plan(s) \/ List(s) \/ Collect(s)
             \/ Evaluate(s) \/ Fence(s) \/ Complete(s) \/ Release(s)
    BY <2>2 DEF ClaimWork, EnqueueAgain, Plan, List, Collect, Evaluate, Fence,
                Complete, Release, tables, bounds
  <2>3. CASE Keep(s)
    <3>1. [cache EXCEPT ![data[s].pr] = data[s].got] \in [PRs -> Rows]
      BY <2>1 DEF Data
    <3> QED BY <1>1, <2>3, <3>1 DEF Keep, bounds
  <2>4. CASE Apply(s)
    <3>1. data[s].listing \subseteq Ref
      BY <2>1 DEF Data
    <3>2. ASSUME NEW p \in PRs, NEW r \in data[s].listing
          PROVE  [open |-> TRUE, target |-> r.target, head |-> r.head] \in Rows
      BY <3>1 DEF Ref, Rows, PullRequest
    <3>3. ASSUME NEW p \in PRs
          PROVE  [open |-> FALSE, target |-> cache[p].target, head |-> cache[p].head] \in Rows
      <4>1. CASE cache[p] \in PullRequest
        BY <4>1 DEF Rows, PullRequest
      <4>2. CASE cache[p] = Unknown
        BY <4>2 DEF Rows, Unknown
      <4> QED BY <4>1, <4>2 DEF Rows
    <3>4. ASSUME NEW p \in PRs
          PROVE  Synchronised(data[s].listing)[p] \in Rows
      <4>1. CASE \E r \in data[s].listing : r.pr = p
        <5> DEFINE r == CHOOSE r \in data[s].listing : r.pr = p
        <5>1. r \in data[s].listing
          BY <4>1
        <5>2. Synchronised(data[s].listing)[p]
                = [open |-> TRUE, target |-> r.target, head |-> r.head]
          BY <4>1 DEF Synchronised
        <5> QED BY <3>2, <5>1, <5>2
      <4>2. CASE ~\E r \in data[s].listing : r.pr = p
        BY <3>3, <4>2 DEF Synchronised
      <4> QED BY <4>1, <4>2
    <3>5. Synchronised(data[s].listing) \in [PRs -> Rows]
      BY <3>4 DEF Synchronised
    <3> QED BY <1>1, <2>4, <3>5 DEF Apply, bounds
  <2>5. CASE Decide(s)
    <3>1. [cache EXCEPT ![data[s].pr] = data[s].got] \in [PRs -> Rows]
      BY <2>1 DEF Data
    <3>2. cache' \in [PRs -> Rows] /\ raced' \subseteq PRs
      BY <1>1, <2>5, <3>1 DEF Decide
    <3>3. OpenAt(cache', data[s].got.head) \subseteq Ref
      BY <3>2, OpenInType
    <3>4. offered' \subseteq SUBSET Ref
      BY <2>5, <3>3 DEF Decide
    <3> QED BY <2>5, <3>2, <3>4 DEF Decide, bounds
  <2>6. CASE Approve(s)
    BY <2>1, <2>6 DEF Approve, Data, bounds
  <2>7. CASE Post(s)
    <3>1. data[s].verdict \in {"success", "failure"}
      BY <2>1, <2>7 DEF Post, StepsFit, Data
    <3> QED BY <2>7, <3>1 DEF Post, tables, bounds
  <2> QED BY <1>2, <2>2, <2>3, <2>4, <2>5, <2>6, <2>7 DEF Step
<1>3. ASSUME NEW s \in Sessions, Request(s) PROVE TableTypes'
  <2>1. ops' \in Nat /\ moves' \in Nat /\ crashes' \in Nat
    <3>1. Requested("approve") \/ Requested("freeze")
      BY <1>3 DEF Request, RequestThaw, SetFreeze
    <3>2. ops' = ops + 1 /\ moves' = moves /\ crashes' = crashes
      BY <3>1 DEF Requested
    <3> QED BY <3>2
  <2>2. UNCHANGED <<forge, cache, queue, thaws, posted, offered, raced>>
    BY <1>3 DEF Request, RequestThaw, SetFreeze, tables
  <2>3. frozen' \subseteq Freezable
    BY <1>3 DEF Request, RequestThaw, SetFreeze, tables
  <2> QED BY <2>1, <2>2, <2>3
<1>4. ASSUME NEW s \in Sessions, NEW p \in PRs, Deliver(s, p) PROVE TableTypes'
  <2>1. queue[p] \in Seq(PullRequest) /\ queue[p] # <<>>
    BY <1>4 DEF Deliver
  <2>2. Tail(queue[p]) \in Seq(PullRequest)
    BY <2>1
  <2>3. queue' \in [PRs -> Seq(PullRequest)]
    BY <1>4, <2>2 DEF Deliver
  <2>4. UNCHANGED <<forge, cache, frozen, thaws, posted, offered, raced, bounds>>
    BY <1>4 DEF Deliver
  <2> QED BY <2>3, <2>4 DEF bounds
<1>5. ASSUME NEW p \in PRs, NEW to \in PullRequest, Move(p, to) PROVE TableTypes'
  <2>1. Append(queue[p], to) \in Seq(PullRequest)
    BY <1>5
  <2>2. queue' \in [PRs -> Seq(PullRequest)] /\ moves' \in Nat
    BY <1>5, <2>1 DEF Move
  <2>3. forge' \in [PRs -> Rows]
    BY <1>5 DEF Move, Rows
  <2>4. UNCHANGED <<cache, frozen, thaws, posted, offered, raced, ops, crashes>>
    BY <1>5 DEF Move, tables
  <2> QED BY <2>2, <2>3, <2>4
<1>6. ASSUME NEW s \in Sessions, Abandon(s) PROVE TableTypes'
  BY <1>6 DEF Abandon, tables, bounds
<1>7. ASSUME RunDue \/ LeaseRunsOut \/ UNCHANGED vars PROVE TableTypes'
  BY <1>7 DEF RunDue, LeaseRunsOut, vars, tables, bounds
<1> QED BY <1>2, <1>3, <1>4, <1>5, <1>6, <1>7 DEF Next
-----------------------------------------------------------------------------
(* The invariant.                                                          *)
LEMMA InitIInv == Init => IInv
<1> SUFFICES ASSUME Init PROVE IInv
  OBVIOUS
<1>1. TypeOK
  <2>1. forge \in [PRs -> Rows]
    BY DEF Init, Rows
  <2>2. queue \in [PRs -> Seq(PullRequest)]
    BY DEF Init
  <2>3. posted \in [Heads -> {"nothing", "success", "failure"}]
    BY DEF Init
  <2>4. row \in Row /\ claim \in [Sessions -> [gen : Nat, token : Nat]]
    BY DEF Init, NoRow, Row, NoClaim
  <2> QED BY <2>1, <2>2, <2>3, <2>4, NoDataType DEF Init, TypeOK, Steps
<1>2. ClaimsFit
  BY DEF Init, ClaimsFit, Exists, NoRow, NoClaim
<1>3. StepsFit /\ VerdictsFit /\ GrantsFit
  BY DEF Init, StepsFit, VerdictsFit, GrantsFit
<1> QED BY <1>1, <1>2, <1>3 DEF IInv

LEMMA NextIInv == IInv /\ [Next]_vars => IInv'
<1> SUFFICES ASSUME IInv, [Next]_vars PROVE IInv'
  OBVIOUS
<1>1. JobChanges
  BY StepsChangeJobs DEF IInv
<1>2. TableTypes' /\ JobTypes'
  BY <1>1, TableTypesKept, JobTypesKept DEF IInv
<1>3. LocalTypes'
  BY <1>2, LocalTypesKept DEF IInv
<1>4. TypeOK'
  BY <1>2, <1>3 DEF TypeOK, TableTypes, JobTypes, LocalTypes
<1>5. ClaimsFit'
  BY <1>1, ClaimsStayFit DEF IInv
<1>6. StepsFit' /\ VerdictsFit' /\ GrantsFit'
  BY <1>1, StepsStayFit, VerdictsStayFit, GrantsStayFit
<1> QED BY <1>4, <1>5, <1>6 DEF IInv

(* For any number of pull requests, heads and sessions, the invariant.     *)
THEOREM AlwaysIInv == Spec => []IInv
BY InitIInv, NextIInv, PTL DEF Spec

(* Every table and every session keeps its type.                           *)
THEOREM TypeCorrect == Spec => []TypeOK
<1>1. IInv => TypeOK
  BY DEF IInv
<1> QED BY <1>1, AlwaysIInv, PTL

(* A status sent under a current claim is today's decision: every change   *)
(* of the freezes or of the thaws takes the claim away first.              *)
THEOREM DecisionsStayCurrent == Spec => []DecisionsAreCurrent
<1>1. IInv => DecisionsAreCurrent
  BY DEF IInv, VerdictsFit, DecisionsAreCurrent
<1> QED BY <1>1, AlwaysIInv, PTL

(* Nothing is thawed that was neither asked for nor shown.                 *)
THEOREM OnlyShownIsThawed == Spec => ThawsAreShown
<1> DEFINE Shown ==
      \A r \in thaws' \ thaws :
        \/ \E s \in Sessions : op[s] = "approve" /\ r = RefTo(data[s].pr, data[s].got)
        \/ \E shown \in offered : r \in shown
<1>1. IInv /\ [Next]_vars => Shown
  <2> SUFFICES ASSUME IInv, [Next]_vars, NEW r \in thaws' \ thaws
               PROVE  \/ \E s \in Sessions : op[s] = "approve" /\ r = RefTo(data[s].pr, data[s].got)
                      \/ \E shown \in offered : r \in shown
    OBVIOUS
  <2>1. PICK s \in Sessions : Approve(s)
    <3>1. ASSUME NEW s \in Sessions, Step(s), ~Approve(s) PROVE thaws' = thaws
      BY <3>1 DEF Step, ClaimWork, EnqueueAgain, Plan, Keep, List, Apply, Collect,
                  Decide, Evaluate, Fence, Post, Complete, Release, tables
    <3>2. ASSUME NEW s \in Sessions, Request(s) \/ Abandon(s) \/ \E p \in PRs : Deliver(s, p)
          PROVE  thaws' = thaws
      BY <3>2 DEF Request, RequestThaw, SetFreeze, Abandon, Deliver, tables
    <3>3. ASSUME RunDue \/ LeaseRunsOut \/ UNCHANGED vars PROVE thaws' = thaws
      BY <3>3 DEF RunDue, LeaseRunsOut, vars, tables
    <3>4. ASSUME NEW p \in PRs, NEW to \in PullRequest, Move(p, to) PROVE thaws' = thaws
      BY <3>4 DEF Move, tables
    <3> QED BY <3>1, <3>2, <3>3, <3>4 DEF Next
  <2>2. pc[s] = "approve" /\ r \in data[s].grant
    BY <2>1 DEF Approve
  <2>3. op[s] = "approve"
    BY <2>2 DEF IInv, StepsFit
  <2> QED BY <2>2, <2>3 DEF IInv, GrantsFit
<1>2. IInv /\ [Next]_vars => [Shown]_vars
  BY <1>1
<1> QED BY <1>2, AlwaysIInv, PTL DEF ThawsAreShown, Spec

-----------------------------------------------------------------------------
(* Claims: one holder, and the steps that need one have one.               *)
LEMMA HoldersStayAlone ==
  ASSUME TypeOK, HoldersAlone, JobChanges PROVE HoldersAlone'
<1> USE DEF HoldersAlone, Exists
<1>1. row \in Row /\ claim \in [Sessions -> [gen : Nat, token : Nat]]
  BY DEF TypeOK
<1>2. CASE KeepsJob
  BY <1>2 DEF KeepsJob
<1>3. CASE Asks
  BY <1>1, <1>3 DEF Asks, Enqueued, Row
<1>4. CASE Expires
  BY <1>4 DEF Expires
<1>5. ASSUME NEW s \in Sessions, Takes(s) PROVE HoldersAlone'
  <2>1. \A t \in Sessions : claim[t].token = 0
    BY <1>5 DEF Takes, Claimable, LeaseFree
  <2>2. row' = [gen |-> row.gen, run |-> row.run, token |-> FreshToken, lease |-> "live"]
    BY <1>5 DEF Takes, Claimed
  <2>3. row.gen # 0
    BY <1>5 DEF Takes, Claimable
  <2>4. /\ claim'[s].token = FreshToken
        /\ \A t \in Sessions : t # s => claim'[t].token = 0
    BY <1>1, <1>5, <2>1, <2>2 DEF Takes, ClaimOn
  <2> QED BY <2>2, <2>3, <2>4
<1>6. ASSUME NEW s \in Sessions, Leaves(s) PROVE HoldersAlone'
  <2>1. /\ claim'[s].token = 0
        /\ \A t \in Sessions : t # s => claim'[t] = claim[t]
    BY <1>1, <1>6 DEF Leaves, NoClaim
  <2>2. CASE \A t \in Sessions : t # s => claim[t].token = 0
    BY <2>1, <2>2
  <2>3. ASSUME NEW t \in Sessions, t # s, claim[t].token # 0 PROVE HoldersAlone'
    <3>1. claim[s].token = 0 /\ row.token # 0
      BY <2>3
    <3>2. row' = row
      BY <1>6, <3>1 DEF Leaves, Completed, Rescheduled, Released, Owns
    <3> QED BY <2>1, <3>2
  <2> QED BY <2>2, <2>3
<1> QED BY <1>2, <1>3, <1>4, <1>5, <1>6 DEF JobChanges

LEMMA TakesToken ==
  ASSUME TypeOK, NEW s \in Sessions, NEW kind, NEW step, Claims(s, kind, step)
  PROVE  claim'[s].token # 0
<1>1. FreshToken \in Nat \ {0}
  BY FreshTokenExists DEF Claims
<1>2. row'.token = FreshToken
  BY DEF Claims, Claimed
<1>3. claim'[s].token = row'.token
  BY DEF TypeOK, Claims, ClaimOn
<1> QED BY <1>1, <1>2, <1>3

LEMMA ClaimsStayHeld ==
  ASSUME IInv, ClaimsHeld, [Next]_vars PROVE ClaimsHeld'
<1> DEFINE Needs(s) ==
      \/ pc'[s] \in {"plan", "collect", "evaluate", "fence", "post", "keep", "complete"}
      \/ pc'[s] \in {"list", "apply"} /\ op'[s] # "approve"
<1> SUFFICES ASSUME NEW s \in Sessions, Needs(s) PROVE claim'[s].token # 0
  BY DEF ClaimsHeld
<1> USE DEF IInv, TypeOK, ClaimsHeld
<1>1. CASE UNCHANGED local
  BY <1>1 DEF local
<1>2. ASSUME NEW t \in Sessions, t # s, Acts(t) PROVE claim'[s].token # 0
  BY <1>2, OthersStand DEF Others
<1>3. CASE Acts(s)
  <2>1. CASE ClaimWork(s)
    BY <2>1, TakesToken DEF ClaimWork, Goto, Stop
  <2>2. CASE EnqueueAgain(s) \/ Fence(s)
    BY <2>2, ClaimLostSteps DEF EnqueueAgain, Fence, Goto, Stop
  <2>3. CASE Plan(s) \/ List(s) \/ Apply(s) \/ Collect(s) \/ Post(s)
    BY <2>3 DEF Plan, List, Apply, Collect, Post, With, StepsFit
  <2>4. CASE Keep(s)
    BY <2>4 DEF Keep, Goto, Stop
  <2>5. CASE Decide(s) \/ Approve(s)
    BY <2>5 DEF Decide, Approve, With, Stop
  <2>6. CASE Evaluate(s)
    BY <2>6, ClaimLostSteps DEF Evaluate, Goto, With, Stop
  <2>7. CASE Complete(s) \/ Release(s) \/ Abandon(s)
    BY <2>7 DEF Complete, Release, Abandon, Stop
  <2>8. CASE Request(s)
    BY <2>8 DEF Request, RequestThaw, SetFreeze, Start
  <2>9. CASE \E p \in PRs : Deliver(s, p)
    BY <2>9 DEF Deliver, Start
  <2>10. CASE s = Runner /\ RunDue
    BY <2>10, TakesToken DEF RunDue
  <2> QED
    BY <1>3, <2>1, <2>2, <2>3, <2>4, <2>5, <2>6, <2>7, <2>8, <2>9, <2>10 DEF Acts, Step
<1> QED BY <1>1, <1>2, <1>3, EveryStepActs
-----------------------------------------------------------------------------
(* A queue's last delivery is the one appended, and the head leaves it.    *)
LEMMA AppendIsLast ==
  ASSUME NEW S, NEW q \in Seq(S), NEW e \in S
  PROVE  Append(q, e) # <<>> /\ Append(q, e)[Len(Append(q, e))] = e
BY AppendProperties

LEMMA TailKeepsLast ==
  ASSUME NEW S, NEW q \in Seq(S), q # <<>>
  PROVE  /\ Tail(q) = <<>> => Head(q) = q[Len(q)]
         /\ Tail(q) # <<>> => Tail(q)[Len(Tail(q))] = q[Len(q)]
<1> DEFINE t == Tail(q)
           n == Len(q)
<1>1. /\ t \in Seq(S) /\ Len(t) = n - 1 /\ n \in Nat \ {0}
      /\ \A i \in 1..Len(t) : t[i] = q[i + 1]
  BY HeadTailProperties, EmptySeq
<1>2. Head(q) = q[1] /\ Len(<<>>) = 0
  OBVIOUS
<1>3. t # <<>> => Len(t) \in Nat \ {0}
  BY <1>1, EmptySeq
<1> HIDE DEF t, n
<1>4. CASE t = <<>>
  <2>1. Len(t) = 0
    BY <1>2, <1>4
  <2>2. n = 1
    BY <1>1, <2>1
  <2> QED BY <1>2, <1>4, <2>2 DEF t, n
<1>5. CASE t # <<>>
  <2>1. Len(t) \in 1..Len(t)
    BY <1>3, <1>5
  <2>2. t[Len(t)] = q[Len(t) + 1]
    BY <1>1, <2>1
  <2>3. Len(t) + 1 = n
    BY <1>1
  <2>4. t[Len(t)] = q[n]
    BY <2>2, <2>3
  <2> QED BY <1>5, <2>4 DEF t, n
<1> QED BY <1>4, <1>5

(* Deliveries about one pull request are handled one at a time, in order.  *)
LEMMA DeliveriesStayFit ==
  ASSUME IInv, DeliveriesFit, [Next]_vars PROVE DeliveriesFit'
<1> USE DEF IInv, TypeOK
<1> DEFINE Ends(p) == queue'[p] # <<>> => queue'[p][Len(queue'[p])] = forge'[p]
           Carries(s) == op'[s] = "webhook" /\ queue'[data'[s].pr] = <<>>
                           => data'[s].got = forge'[data'[s].pr]
<1>1. ASSUME queue' = queue, forge' = forge,
             \A s \in Sessions : op'[s] = "webhook" =>
               /\ op[s] = "webhook"
               /\ data'[s].pr = data[s].pr /\ data'[s].got = data[s].got
      PROVE  DeliveriesFit'
  BY <1>1 DEF DeliveriesFit
<1>2. ASSUME NEW p \in PRs, NEW to \in PullRequest, Move(p, to) PROVE DeliveriesFit'
  <2>1. /\ forge' = [forge EXCEPT ![p] = to]
        /\ queue' = [queue EXCEPT ![p] = Append(@, to)]
        /\ op' = op /\ data' = data
    BY <1>2 DEF Move, local
  <2>2. queue'[p] # <<>> /\ queue'[p][Len(queue'[p])] = to
    <3>1. queue[p] \in Seq(PullRequest) /\ queue'[p] = Append(queue[p], to)
      BY <2>1
    <3> QED BY <3>1, AppendIsLast
  <2>3. \A q \in PRs : q # p => queue'[q] = queue[q] /\ forge'[q] = forge[q]
    BY <2>1
  <2>4. ASSUME NEW q \in PRs PROVE Ends(q)
    BY <2>1, <2>2, <2>3 DEF DeliveriesFit
  <2>5. ASSUME NEW s \in Sessions PROVE Carries(s)
    BY <2>1, <2>2, <2>3 DEF DeliveriesFit, StepsFit
  <2> QED BY <2>4, <2>5 DEF DeliveriesFit
<1>3. ASSUME NEW s \in Sessions, NEW p \in PRs, Deliver(s, p) PROVE DeliveriesFit'
  <2>1. /\ queue[p] # <<>> /\ queue[p] \in Seq(PullRequest)
        /\ queue' = [queue EXCEPT ![p] = Tail(@)] /\ forge' = forge
        /\ \A t \in Sessions : ~(op[t] = "webhook" /\ data[t].pr = p)
        /\ op'[s] = "webhook"
        /\ data'[s] = [NoData EXCEPT !.pr = p, !.got = Head(queue[p])]
        /\ \A t \in Sessions : t # s => op'[t] = op[t] /\ data'[t] = data[t]
    BY <1>3 DEF Deliver, Start
  <2>2. data'[s].pr = p /\ data'[s].got = Head(queue[p])
    BY <2>1 DEF NoData
  <2>3. queue'[p] = Tail(queue[p]) /\ \A q \in PRs : q # p => queue'[q] = queue[q]
    BY <2>1
  <2>4. queue[p][Len(queue[p])] = forge[p]
    BY <2>1 DEF DeliveriesFit
  <2>5. /\ queue'[p] = <<>> => Head(queue[p]) = forge[p]
        /\ queue'[p] # <<>> => queue'[p][Len(queue'[p])] = forge[p]
    <3> HIDE DEF IInv, TypeOK
    <3>1. /\ Tail(queue[p]) = <<>> => Head(queue[p]) = queue[p][Len(queue[p])]
          /\ Tail(queue[p]) # <<>> =>
               Tail(queue[p])[Len(Tail(queue[p]))] = queue[p][Len(queue[p])]
      BY <2>1, TailKeepsLast
    <3> QED BY <2>3, <2>4, <3>1
  <2>6. ASSUME NEW q \in PRs PROVE Ends(q)
    BY <2>1, <2>3, <2>5, <2>6 DEF DeliveriesFit
  <2>7. ASSUME NEW t \in Sessions PROVE Carries(t)
    <3>1. CASE t = s
      BY <2>1, <2>2, <2>5, <3>1
    <3>2. CASE t # s /\ op[t] = "webhook"
      <4>1. data[t].pr \in PRs /\ data[t].pr # p
        BY <2>1, <3>2 DEF StepsFit
      <4>2. queue'[data[t].pr] = queue[data[t].pr] /\ data'[t] = data[t] /\ forge' = forge
        BY <2>1, <2>3, <3>2, <4>1
      <4>3. queue[data[t].pr] = <<>> => data[t].got = forge[data[t].pr]
        BY <3>2 DEF DeliveriesFit
      <4> QED BY <4>2, <4>3
    <3>3. CASE t # s /\ op[t] # "webhook"
      BY <2>1, <3>3
    <3> QED BY <3>1, <3>2, <3>3
  <2> QED BY <2>6, <2>7 DEF DeliveriesFit
<1>4. ASSUME NEW s \in Sessions, Acts(s), \A p \in PRs : ~Deliver(s, p)
      PROVE  DeliveriesFit'
  <2>1. queue' = queue /\ forge' = forge
    <3>1. CASE Step(s)
      BY <3>1 DEF Step, ClaimWork, EnqueueAgain, Plan, Keep, List, Apply, Collect, Decide,
                  Approve, Evaluate, Fence, Post, Complete, Release
    <3>2. CASE Request(s) \/ Abandon(s) \/ RunDue
      BY <3>2 DEF Request, RequestThaw, SetFreeze, Abandon, RunDue
    <3> QED BY <1>4, <3>1, <3>2 DEF Acts
  <2>2. ASSUME op'[s] = "webhook"
        PROVE  op[s] = "webhook" /\ data'[s].pr = data[s].pr /\ data'[s].got = data[s].got
    <3> USE <2>2
    <3>1. CASE ClaimWork(s)
      BY <3>1 DEF ClaimWork, Claims, Goto, Stop
    <3>2. CASE EnqueueAgain(s) \/ Keep(s) \/ Fence(s)
      <4>1. \/ \E step : Goto(s, step)
            \/ Stop(s)
        BY <3>2, ClaimLostSteps DEF EnqueueAgain, Keep, Fence
      <4> QED BY <4>1 DEF Goto, Stop
    <3>3. CASE Plan(s)
      <4>1. PICK plans : With(s, "evaluate", [data[s] EXCEPT !.plans = plans])
        BY <3>3 DEF Plan
      <4> QED BY <4>1 DEF With, Data
    <3>9. CASE Post(s)
      BY <3>9 DEF Post, With, Data
    <3>4. CASE List(s) \/ Apply(s) \/ Collect(s) \/ Decide(s) \/ Approve(s)
      BY <3>4 DEF List, Apply, Collect, Decide, Approve, With, Stop, StepsFit
    <3>5. CASE Evaluate(s)
      <4>1. CASE Goto(s, "keep") \/ Goto(s, "complete") \/ (pc[s] = "evaluate" /\ ClaimLost(s))
        BY <4>1, ClaimLostSteps DEF Goto, Stop
      <4>2. ASSUME NEW refs,
                   With(s, "fence", [data[s] EXCEPT !.plans = @ \ {refs}, !.deciding = Expanded(refs),
                                                    !.verdict = Decision(Expanded(refs))])
            PROVE  op[s] = "webhook" /\ data'[s].pr = data[s].pr /\ data'[s].got = data[s].got
        BY <4>2 DEF With, Data
      <4> QED BY <3>5, <4>1, <4>2 DEF Evaluate
    <3>6. CASE Complete(s) \/ Release(s) \/ Abandon(s)
      BY <3>6 DEF Complete, Release, Abandon, Stop
    <3>7. CASE Request(s)
      BY <3>7 DEF Request, RequestThaw, SetFreeze, Start
    <3>8. CASE s = Runner /\ RunDue
      BY <3>8 DEF RunDue, Claims
    <3> QED
      BY <1>4, <3>1, <3>2, <3>3, <3>4, <3>5, <3>6, <3>7, <3>8, <3>9 DEF Acts, Step
  <2>3. \A t \in Sessions : t # s => op'[t] = op[t] /\ data'[t] = data[t]
    BY <1>4, OthersStand DEF Others
  <2> QED BY <1>1, <2>1, <2>2, <2>3
<1>5. CASE UNCHANGED <<queue, forge, local>>
  BY <1>1, <1>5 DEF local
<1>6. \/ \E p \in PRs, to \in PullRequest : Move(p, to)
      \/ \E s \in Sessions : Acts(s)
      \/ UNCHANGED <<queue, forge, local>>
  <2>1. Runner \in Sessions
    BY DEF Sessions
  <2> QED BY <2>1 DEF Next, Acts, LeaseRunsOut, vars, local
<1> QED BY <1>2, <1>3, <1>4, <1>5, <1>6
-----------------------------------------------------------------------------
(* Tables that list the same open pull requests.                           *)
LEMMA CatchingUpKeepsAgreement ==
  ASSUME NEW a, NEW b, OpenIn(a) = OpenIn(b), NEW p \in PRs,
         NEW c, c[p] = b[p], \A q \in PRs : q # p => c[q] = a[q]
  PROVE  OpenIn(c) = OpenIn(b)
<1>1. ASSUME NEW r \in OpenIn(c) PROVE r \in OpenIn(b)
  <2>1. PICK q \in PRs : c[q].open /\ r = RefTo(q, c[q])
    BY <1>1 DEF OpenIn
  <2>2. CASE q = p
    BY <2>1, <2>2 DEF OpenIn
  <2>3. CASE q # p
    <3>1. r \in OpenIn(a)
      BY <2>1, <2>3 DEF OpenIn
    <3> QED BY <3>1
  <2> QED BY <2>2, <2>3
<1>2. ASSUME NEW r \in OpenIn(b) PROVE r \in OpenIn(c)
  <2>1. PICK q \in PRs : b[q].open /\ r = RefTo(q, b[q])
    BY <1>2 DEF OpenIn
  <2>2. CASE q = p
    BY <2>1, <2>2 DEF OpenIn
  <2>3. CASE q # p
    <3>1. PICK o \in PRs : a[o].open /\ r = RefTo(o, a[o])
      BY <1>2 DEF OpenIn
    <3>2. o = q
      BY <2>1, <3>1 DEF RefTo
    <3> QED BY <2>3, <3>1, <3>2 DEF OpenIn
  <2> QED BY <2>2, <2>3
<1> QED BY <1>1, <1>2

(* A synchronisation with a listing of the forge makes the cache list it.  *)
LEMMA SynchronisedIsExact ==
  OpenIn(Synchronised(OpenIn(forge))) = OpenIn(forge)
<1> DEFINE L == OpenIn(forge)
           c == Synchronised(L)
<1>1. ASSUME NEW p \in PRs, forge[p].open
      PROVE  c[p] = [open |-> TRUE, target |-> forge[p].target, head |-> forge[p].head]
  <2>1. RefTo(p, forge[p]) \in L
    BY <1>1 DEF OpenIn
  <2>2. \A r \in L : r.pr = p => r = RefTo(p, forge[p])
    BY DEF OpenIn, RefTo
  <2>3. /\ RefTo(p, forge[p]).pr = p
        /\ RefTo(p, forge[p]).target = forge[p].target
        /\ RefTo(p, forge[p]).head = forge[p].head
    BY DEF RefTo
  <2> DEFINE found == CHOOSE r \in L : r.pr = p
  <2>4. \E r \in L : r.pr = p
    BY <2>1, <2>3
  <2>5. found = RefTo(p, forge[p])
    BY <2>2, <2>4
  <2>6. c[p] = [open |-> TRUE, target |-> found.target, head |-> found.head]
    BY <2>4 DEF Synchronised
  <2> HIDE DEF found, c
  <2> QED BY <2>3, <2>5, <2>6
<1>2. ASSUME NEW p \in PRs, ~forge[p].open PROVE ~c[p].open
  <2>1. ~\E r \in L : r.pr = p
    BY <1>2 DEF OpenIn, RefTo
  <2> QED BY <2>1 DEF Synchronised
<1>3. ASSUME NEW p \in PRs
      PROVE  (~c[p].open <=> ~forge[p].open) /\ (c[p].open => RefTo(p, c[p]) = RefTo(p, forge[p]))
  <2> HIDE DEF c
  <2>1. CASE forge[p].open
    <3>1. c[p] = [open |-> TRUE, target |-> forge[p].target, head |-> forge[p].head]
      BY <1>1, <2>1
    <3> QED BY <2>1, <3>1 DEF RefTo
  <2>2. CASE ~forge[p].open
    BY <1>2, <2>2
  <2> QED BY <2>1, <2>2
<1> HIDE DEF c, L
<1>4. OpenIn(c) = L
  BY <1>3 DEF L, OpenIn
<1> QED BY <1>4 DEF c, L

(* All the open pull requests of a head are not expanded any further.      *)
LEMMA WholeHeadsStay ==
  ASSUME NEW h, OpenAt(cache, h) # {}
  PROVE  Expanded(OpenAt(cache, h)) = OpenAt(cache, h)
<1> DEFINE refs == OpenAt(cache, h)
<1>1. \A q \in refs : q.head = h
  BY DEF OpenAt
<1>2. ASSUME NEW r \in OpenIn(cache), \E q \in refs : q.head = r.head PROVE r \in refs
  BY <1>1, <1>2 DEF OpenAt
<1> QED BY <1>2 DEF Expanded
-----------------------------------------------------------------------------
(* What leaves the claim of s current leaves the freezes and the thaws     *)
(* alone, and what adds no delivery and takes none leaves the forge alone. *)
LEMMA PolicyStands ==
  ASSUME IInv, [Next]_vars, ~Asks, \A p \in PRs : queue'[p] = <<>>
  PROVE  UNCHANGED <<frozen, thaws, forge, queue>>
<1>1. ASSUME NEW t \in Sessions, Approve(t) PROVE FALSE
  BY <1>1 DEF Approve, With, Asks
<1>2. ASSUME NEW t \in Sessions, NEW b \in Freezable, SetFreeze(t, b) PROVE FALSE
  BY <1>2 DEF SetFreeze, Start, Asks
<1>3. ASSUME NEW t \in Sessions, NEW p \in PRs, Deliver(t, p) PROVE FALSE
  BY <1>3 DEF Deliver, Start, Asks
<1>4. ASSUME NEW p \in PRs, NEW to \in PullRequest, Move(p, to) PROVE FALSE
  <2>1. queue[p] \in Seq(PullRequest) /\ queue'[p] = Append(queue[p], to)
    BY <1>4 DEF Move, IInv, TypeOK
  <2> QED BY <2>1, AppendIsLast
<1>5. ASSUME NEW t \in Sessions, Step(t), ~Approve(t)
      PROVE  UNCHANGED <<frozen, thaws, forge, queue>>
  BY <1>5 DEF Step, ClaimWork, EnqueueAgain, Plan, Keep, List, Apply, Collect,
              Decide, Evaluate, Fence, Post, Complete, Release, tables
<1>6. ASSUME NEW t \in Sessions, Abandon(t) \/ \E p \in PRs : \E c : RequestThaw(t, p, c)
      PROVE  UNCHANGED <<frozen, thaws, forge, queue>>
  BY <1>6 DEF Abandon, RequestThaw, tables
<1>7. ASSUME RunDue \/ LeaseRunsOut \/ UNCHANGED vars
      PROVE  UNCHANGED <<frozen, thaws, forge, queue>>
  BY <1>7 DEF RunDue, LeaseRunsOut, vars, tables
<1> QED BY <1>1, <1>2, <1>3, <1>4, <1>5, <1>6, <1>7 DEF Next, Request

(* A step of the runner keeps its claim, gives it up or is the first.      *)
LEMMA RunnerSteps ==
  ASSUME IInv, NEW s \in Sessions, Acts(s), op'[s] = "runner"
  PROVE  \/ pc'[s] = "list"
         \/ /\ op[s] = "runner" /\ ~Takes(s)
            /\ \/ List(s) \/ Apply(s) \/ Collect(s)
               \/ Evaluate(s) \/ Fence(s) \/ Post(s)
<1> USE DEF IInv, TypeOK
<1>1. CASE ClaimWork(s)
  BY <1>1 DEF ClaimWork, Claims, Goto, Stop, StepsFit
<1>2. CASE EnqueueAgain(s) \/ Plan(s) \/ Keep(s)
  BY <1>2 DEF EnqueueAgain, Plan, Keep, Goto, With, Stop, StepsFit
<1>3. CASE Decide(s) \/ Approve(s)
  BY <1>3 DEF Decide, Approve, With, Stop, StepsFit
<1>4. CASE Complete(s) \/ Release(s) \/ Abandon(s)
  BY <1>4 DEF Complete, Release, Abandon, Stop
<1>5. CASE Request(s)
  BY <1>5 DEF Request, RequestThaw, SetFreeze, Start
<1>6. CASE \E p \in PRs : Deliver(s, p)
  BY <1>6 DEF Deliver, Start
<1>7. CASE s = Runner /\ RunDue
  BY <1>7 DEF RunDue, Claims
<1>8. CASE List(s) \/ Apply(s) \/ Collect(s) \/ Post(s)
  <2>1. op'[s] = op[s] /\ UNCHANGED row
    BY <1>8 DEF List, Apply, Collect, Post, With, tables
  <2>2. ~Takes(s)
    BY <2>1 DEF Takes, Claimable, Claimed, LeaseFree
  <2> QED BY <1>8, <2>1, <2>2
<1>9. CASE Evaluate(s) \/ Fence(s)
  <2>1. UNCHANGED row
    BY <1>9 DEF Evaluate, Fence, tables
  <2>2. ~Takes(s)
    BY <2>1 DEF Takes, Claimable, Claimed, LeaseFree
  <2>3. op'[s] = op[s] \/ op'[s] = "none"
    BY <1>9, ClaimLostSteps DEF Evaluate, Fence, Goto, With, Stop
  <2> QED BY <1>9, <2>2, <2>3
<1> QED BY <1>1, <1>2, <1>3, <1>4, <1>5, <1>6, <1>7, <1>8, <1>9 DEF Acts, Step

(* A session with the claim is alone in what needs one: what another does  *)
(* to the cache is to catch up with the forge, or is marked in raced.      *)
LEMMA OthersCatchUp ==
  ASSUME IInv, HoldersAlone, ClaimsHeld, DeliveriesFit,
         NEW s \in Sessions, claim[s].token # 0, NEW t \in Sessions, t # s, Acts(t),
         raced' = {}, \A p \in PRs : queue[p] = <<>>
  PROVE  /\ posted' = posted
         /\ OpenIn(cache) = OpenIn(forge) => OpenIn(cache') = OpenIn(forge)
<1> USE DEF IInv, TypeOK
<1>1. claim[t].token = 0
  BY DEF HoldersAlone
<1>2. ASSUME NEW table \in [PRs -> Rows], CacheBecomes(table), ApprovalUnclaimed
      PROVE  cache' = cache
  <2>1. \A p \in PRs : table[p] = cache[p]
    BY <1>2 DEF CacheBecomes
  <2>2. cache' = table
    BY <1>2 DEF CacheBecomes
  <2> QED BY <2>1, <2>2
<1>3. CASE Keep(t)
  <2>1. op[t] = "webhook" /\ data[t].pr \in PRs
    BY <1>3 DEF Keep, StepsFit
  <2>2. data[t].got = forge[data[t].pr]
    BY <2>1 DEF DeliveriesFit
  <2>3. cache' = [cache EXCEPT ![data[t].pr] = forge[data[t].pr]] /\ posted' = posted
    BY <1>3, <2>2 DEF Keep, CacheBecomes
  <2>4. OpenIn(cache) = OpenIn(forge) => OpenIn(cache') = OpenIn(forge)
    <3>1. /\ cache'[data[t].pr] = forge[data[t].pr]
          /\ \A q \in PRs : q # data[t].pr => cache'[q] = cache[q]
      BY <2>1, <2>3
    <3> HIDE DEF IInv, TypeOK
    <3>2. ASSUME OpenIn(cache) = OpenIn(forge) PROVE OpenIn(cache') = OpenIn(forge)
      BY <2>1, <3>1, <3>2, CatchingUpKeepsAgreement
    <3> QED BY <3>2
  <2> QED BY <2>3, <2>4
<1>4. CASE Apply(t)
  <2>1. op[t] = "approve"
    BY <1>1, <1>4 DEF Apply, ClaimsHeld
  <2>2. ApprovalUnclaimed
    BY <1>4, <2>1 DEF Apply, ApprovalUnclaimed
  <2>3. cache' = Synchronised(data[t].listing) /\ posted' = posted
    BY <1>4 DEF Apply, CacheBecomes
  <2>4. \A p \in PRs : Synchronised(data[t].listing)[p] = cache[p]
    BY <1>4, <2>2 DEF Apply, CacheBecomes
  <2>5. cache' = cache
    BY <2>3, <2>4 DEF Synchronised
  <2> QED BY <2>3, <2>5
<1>5. CASE Decide(t)
  <2>1. ApprovalUnclaimed
    BY <1>5 DEF Decide, ApprovalUnclaimed, StepsFit
  <2>2. [cache EXCEPT ![data[t].pr] = data[t].got] \in [PRs -> Rows]
    BY DEF Data
  <2>3. cache' = cache /\ posted' = posted
    BY <1>2, <1>5, <2>1, <2>2 DEF Decide
  <2> QED BY <2>3
<1>6. CASE Post(t)
  BY <1>1, <1>6 DEF Post, ClaimsHeld
<1>7. ASSUME ~Keep(t), ~Apply(t), ~Decide(t), ~Post(t)
      PROVE  cache' = cache /\ posted' = posted
  <2>1. CASE Step(t)
    BY <1>7, <2>1 DEF Step, ClaimWork, EnqueueAgain, Plan, List, Collect, Approve,
                      Evaluate, Fence, Complete, Release, tables
  <2>2. CASE Request(t) \/ Abandon(t)
    BY <2>2 DEF Request, RequestThaw, SetFreeze, Abandon, tables
  <2>3. CASE (\E p \in PRs : Deliver(t, p)) \/ (t = Runner /\ RunDue)
    BY <2>3 DEF Deliver, RunDue
  <2> QED BY <2>1, <2>2, <2>3 DEF Acts
<1> QED BY <1>3, <1>4, <1>5, <1>6, <1>7
-----------------------------------------------------------------------------
(* What RunnerFit says of one session.                                     *)
Fit(s) ==
  /\ pc[s] = "apply" => data[s].listing = OpenIn(forge)
  /\ pc[s] \in {"collect", "evaluate", "fence", "post", "complete"} =>
       OpenIn(cache) = OpenIn(forge)
  /\ pc[s] \in {"evaluate", "fence", "post", "complete"} => HeadsFit(s)
  /\ pc[s] = "complete" => data[s].plans = {}

(* The session rests: its step, its plans and the statuses stay, and the   *)
(* cache goes on listing what is on the forge.                             *)
LEMMA RestingStaysFit ==
  ASSUME NEW s \in Sessions, Fit(s), pc'[s] = pc[s], data'[s] = data[s],
         UNCHANGED <<frozen, thaws, forge, posted>>,
         OpenIn(cache) = OpenIn(forge) => OpenIn(cache') = OpenIn(forge)
  PROVE  Fit(s)'
<1>1. \A h : (OpenAt(forge, h))' = OpenAt(forge, h) /\ Deserved(h)' = Deserved(h)
  BY DEF OpenAt, OpenIn, Deserved, Blocked, Frozen, Thawed
<1>2. OpenIn(forge)' = OpenIn(forge)
  BY DEF OpenIn
<1>3. HeadsFit(s) => HeadsFit(s)'
  BY <1>1 DEF HeadsFit
<1> QED BY <1>2, <1>3 DEF Fit

LEMMA ListStaysFit ==
  ASSUME TypeOK, NEW s \in Sessions, List(s), forge' = forge PROVE Fit(s)'
<1>1. pc'[s] = "apply" /\ data'[s] = [data[s] EXCEPT !.listing = OpenIn(forge)]
  BY DEF List, With, TypeOK
<1>2. data'[s].listing = OpenIn(forge)
  BY <1>1 DEF TypeOK, Data
<1>3. OpenIn(forge)' = OpenIn(forge)
  BY DEF OpenIn
<1> QED BY <1>1, <1>2, <1>3 DEF Fit

LEMMA ApplyStaysFit ==
  ASSUME TypeOK, NEW s \in Sessions, Apply(s), op[s] = "runner", Fit(s), forge' = forge
  PROVE  Fit(s)'
<1>1. pc'[s] = "collect" /\ cache' = Synchronised(OpenIn(forge))
  BY DEF Apply, With, CacheBecomes, Fit, TypeOK
<1>2. OpenIn(forge)' = OpenIn(forge)
  BY DEF OpenIn
<1> HIDE DEF Apply
<1>3. OpenIn(cache') = OpenIn(forge)
  BY <1>1, SynchronisedIsExact
<1> QED BY <1>1, <1>2, <1>3 DEF Fit

LEMMA CollectStaysFit ==
  ASSUME TypeOK, NEW s \in Sessions, Collect(s), op[s] = "runner", Fit(s), forge' = forge
  PROVE  Fit(s)'
<1> DEFINE refs == OpenIn(forge)
           Grouped(rs) == {{r \in rs : r.head = q.head} : q \in rs}
           plans == Grouped(refs)
           collected == {r \in OpenIn(cache) : op[s] = "converge" => r.target = data[s].branch}
<1>1. /\ pc[s] = "collect" /\ cache' = cache
      /\ OpenIn(cache) = OpenIn(forge)
  BY DEF Collect, tables, Fit
<1>2. collected = refs
  BY <1>1
<1>3. pc'[s] = "evaluate" /\ data'[s] = [NoData EXCEPT !.plans = plans]
  <2>1. With(s, "evaluate", [NoData EXCEPT !.plans = Grouped(collected)])
    BY DEF Collect
  <2> HIDE DEF collected, refs, Grouped
  <2> QED BY <1>2, <2>1 DEF With, TypeOK
<1>4. data'[s].plans = plans
  BY <1>3 DEF NoData
<1>5. OpenIn(cache)' = OpenIn(forge)' /\ OpenIn(forge)' = OpenIn(forge)
  BY <1>1 DEF OpenIn
<1>6. \A h : OpenAt(forge, h)' = OpenAt(forge, h)
  BY <1>5 DEF OpenAt
<1>7. refs \subseteq Ref
  BY OpenInType DEF TypeOK
<1>8. ASSUME NEW q \in refs
      PROVE  q.head \in Heads /\ {r \in refs : r.head = q.head} = OpenAt(forge, q.head)
  BY <1>7 DEF Ref, OpenAt
<1>9. ASSUME NEW h \in Heads, OpenAt(forge, h) # {} PROVE OpenAt(forge, h) \in plans
  <2>1. PICK q \in refs : q.head = h
    BY <1>9 DEF OpenAt
  <2> QED BY <1>8, <2>1
<1>10. \A p \in plans : \E h \in Heads : p = OpenAt(forge, h)
  BY <1>8
<1> HIDE DEF plans, refs
<1>11. HeadsFit(s)'
  BY <1>3, <1>4, <1>6, <1>9, <1>10 DEF HeadsFit
<1> QED BY <1>3, <1>5, <1>11 DEF Fit

LEMMA EvaluateStaysFit ==
  ASSUME IInv, NEW s \in Sessions, Evaluate(s), op[s] = "runner", op'[s] = "runner",
         Holds(s), Fit(s), forge' = forge
  PROVE  Fit(s)'
<1>1. /\ pc[s] = "evaluate" /\ cache' = cache /\ posted' = posted
      /\ frozen' = frozen /\ thaws' = thaws
      /\ OpenIn(cache) = OpenIn(forge) /\ HeadsFit(s)
  BY DEF Evaluate, tables, Fit
<1>2. OpenIn(cache)' = OpenIn(forge)'
  BY <1>1 DEF OpenIn
<1>3. \A h : OpenAt(forge, h)' = OpenAt(forge, h) /\ Deserved(h)' = Deserved(h)
  BY <1>1 DEF OpenAt, OpenIn, Deserved, Blocked, Frozen, Thawed
<1>4. CASE data[s].plans = {}
  <2>1. pc'[s] = "complete" /\ data'[s] = data[s]
    BY <1>4 DEF Evaluate, Goto, IInv, TypeOK
  <2>2. HeadsFit(s)'
    BY <1>1, <1>3, <2>1 DEF HeadsFit
  <2> QED BY <1>2, <1>4, <2>1, <2>2 DEF Fit
<1>5. CASE data[s].plans # {}
  <2>1. PICK refs \in data[s].plans :
          With(s, "fence", [data[s] EXCEPT !.plans = @ \ {refs}, !.deciding = Expanded(refs),
                                           !.verdict = Decision(Expanded(refs))])
    BY <1>5 DEF Evaluate
  <2>2. PICK h \in Heads : refs = OpenAt(forge, h)
    BY <1>1 DEF HeadsFit
  <2>3. refs # {}
    BY DEF IInv, TypeOK
  <2>4. OpenAt(forge, h) = OpenAt(cache, h)
    BY <1>1 DEF OpenAt
  <2>5. Expanded(refs) = refs
    BY <2>2, <2>3, <2>4, WholeHeadsStay
  <2>6. /\ pc'[s] = "fence"
        /\ data'[s].plans = data[s].plans \ {refs} /\ data'[s].deciding = refs
    BY <2>1, <2>5 DEF With, IInv, TypeOK, Data
  <2>7. HeadsFit(s)'
    <3>1. \A p \in data'[s].plans : \E g \in Heads : p = OpenAt(forge, g)
      BY <1>1, <2>6 DEF HeadsFit
    <3>2. ASSUME NEW g \in Heads, OpenAt(forge, g) # {}
          PROVE  \/ posted[g] = Deserved(g)
                 \/ OpenAt(forge, g) \in data'[s].plans
                 \/ data'[s].deciding = OpenAt(forge, g)
      BY <1>1, <2>6, <3>2 DEF HeadsFit
    <3> QED BY <1>1, <1>3, <2>2, <2>3, <2>6, <3>1, <3>2 DEF HeadsFit
  <2> QED BY <1>2, <2>6, <2>7 DEF Fit
<1> QED BY <1>4, <1>5

LEMMA PostStaysFit ==
  ASSUME IInv, NEW s \in Sessions, Post(s), Holds(s), Fit(s), forge' = forge
  PROVE  Fit(s)'
<1>1. /\ pc[s] = "post" /\ cache' = cache /\ frozen' = frozen /\ thaws' = thaws
      /\ OpenIn(cache) = OpenIn(forge) /\ HeadsFit(s)
      /\ posted' = [posted EXCEPT ![HeadOf(data[s].deciding)] = data[s].verdict]
      /\ posted \in [Heads -> {"nothing", "success", "failure"}]
  BY DEF Post, tables, Fit, IInv, TypeOK
<1>2. OpenIn(cache)' = OpenIn(forge)'
  BY <1>1 DEF OpenIn
<1>3. \A h : OpenAt(forge, h)' = OpenAt(forge, h) /\ Deserved(h)' = Deserved(h)
  BY <1>1 DEF OpenAt, OpenIn, Deserved, Blocked, Frozen, Thawed
<1>4. PICK h \in Heads : data[s].deciding = OpenAt(forge, h) /\ OpenAt(forge, h) # {}
  BY <1>1 DEF HeadsFit
<1>5. HeadOf(data[s].deciding) = h
  BY <1>4 DEF HeadOf, OpenAt
<1>6. data[s].verdict = Deserved(h)
  <2>1. data[s].verdict = "failure" <=> Blocked(OpenAt(forge, h))
    BY <1>1, <1>4 DEF IInv, VerdictsFit
  <2>2. data[s].verdict \in {"success", "failure"}
    BY <1>1 DEF IInv, TypeOK, StepsFit, Data
  <2> QED BY <2>1, <2>2 DEF Deserved
<1>7. pc'[s] = "evaluate" /\ data'[s].plans = data[s].plans
  BY DEF Post, With, IInv, TypeOK, Data
<1>8. posted'[h] = Deserved(h) /\ \A g \in Heads : g # h => posted'[g] = posted[g]
  BY <1>1, <1>5, <1>6
<1>9. ASSUME NEW g \in Heads, OpenAt(forge, g) # {}
      PROVE  posted'[g] = Deserved(g) \/ OpenAt(forge, g) \in data'[s].plans
  <2>1. CASE g = h
    BY <1>8, <2>1
  <2>2. CASE g # h
    <3>1. OpenAt(forge, g) # OpenAt(forge, h)
      BY <1>9, <2>2 DEF OpenAt
    <3> QED BY <1>1, <1>4, <1>7, <1>8, <1>9, <2>2, <3>1 DEF HeadsFit
  <2> QED BY <2>1, <2>2
<1>10. HeadsFit(s)'
  BY <1>1, <1>3, <1>7, <1>9 DEF HeadsFit
<1> QED BY <1>2, <1>7, <1>10 DEF Fit

LEMMA FenceStaysFit ==
  ASSUME TypeOK, NEW s \in Sessions, Fence(s), Holds(s), Fit(s), forge' = forge
  PROVE  Fit(s)'
<1>1. /\ pc[s] = "fence" /\ pc'[s] = "post" /\ data'[s] = data[s]
      /\ UNCHANGED <<cache, frozen, thaws, posted>>
  BY DEF Fence, Goto, tables, TypeOK
<1>2. \A h : OpenAt(forge, h)' = OpenAt(forge, h) /\ Deserved(h)' = Deserved(h)
  BY <1>1 DEF OpenAt, OpenIn, Deserved, Blocked, Frozen, Thawed
<1>3. OpenIn(cache)' = OpenIn(cache) /\ OpenIn(forge)' = OpenIn(forge)
  BY <1>1 DEF OpenIn
<1>4. HeadsFit(s)'
  BY <1>1, <1>2 DEF HeadsFit, Fit
<1> QED BY <1>1, <1>3, <1>4 DEF Fit

LEMMA RacedGrows ==
  ASSUME [Next]_vars PROVE raced \subseteq raced'
<1>1. ASSUME NEW s \in Sessions, Keep(s) \/ Apply(s) \/ Decide(s) PROVE raced \subseteq raced'
  BY <1>1 DEF Keep, Apply, Decide, CacheBecomes
<1>2. ASSUME NEW s \in Sessions, Step(s), ~Keep(s), ~Apply(s), ~Decide(s)
      PROVE  raced' = raced
  BY <1>2 DEF Step, ClaimWork, EnqueueAgain, Plan, List, Collect, Approve,
              Evaluate, Fence, Post, Complete, Release
<1>3. ASSUME NEW s \in Sessions, Request(s) \/ Abandon(s) \/ \E p \in PRs : Deliver(s, p)
      PROVE  raced' = raced
  BY <1>3 DEF Request, RequestThaw, SetFreeze, Abandon, Deliver
<1>4. ASSUME RunDue \/ LeaseRunsOut \/ UNCHANGED vars PROVE raced' = raced
  BY <1>4 DEF RunDue, LeaseRunsOut, vars
<1>5. ASSUME NEW p \in PRs, NEW to \in PullRequest, Move(p, to) PROVE raced' = raced
  BY <1>5 DEF Move
<1> QED BY <1>1, <1>2, <1>3, <1>4, <1>5 DEF Next

(* A reconciliation that nothing disturbs stays as it should be.           *)
LEMMA RunnerStaysFit ==
  ASSUME RInv, [Next]_vars PROVE RunnerFit'
<1> USE DEF RInv
<1> SUFFICES ASSUME NEW s \in Sessions, Undisturbed(s)' PROVE Fit(s)'
  BY DEF RunnerFit, Fit
<1>1. /\ op'[s] = "runner" /\ Holds(s)' /\ raced' = {}
      /\ \A p \in PRs : queue'[p] = <<>>
  BY DEF Undisturbed, Holds
<1>2. JobChanges
  BY StepsChangeJobs DEF IInv
<1>3. ASSUME op[s] = "runner", ~Takes(s)
      PROVE  /\ Fit(s) /\ Holds(s) /\ claim[s].token # 0
             /\ \A p \in PRs : queue[p] = <<>>
             /\ UNCHANGED <<frozen, thaws, forge>>
  <2>1. Holds(s) /\ ~Asks
    BY <1>1, <1>2, <1>3, HoldsOnlyFades DEF IInv
  <2>2. UNCHANGED <<frozen, thaws, forge, queue>>
    BY <1>1, <2>1, PolicyStands
  <2>3. raced = {}
    BY <1>1, RacedGrows
  <2>4. Undisturbed(s)
    BY <1>1, <1>3, <2>1, <2>2, <2>3 DEF Undisturbed
  <2>5. claim[s].token # 0
    BY <2>1 DEF Holds, Current, Owns, IInv, ClaimsFit
  <2> QED BY <1>1, <2>1, <2>2, <2>4, <2>5 DEF RunnerFit, Fit
<1>4. ASSUME claim'[s] = claim[s] PROVE ~Takes(s)
  <2> SUFFICES ASSUME Takes(s) PROVE FALSE
    OBVIOUS
  <2>1. claim[s].token # FreshToken
    BY FreshTokenExists DEF Takes, Fresh
  <2>2. claim'[s].token = FreshToken
    BY DEF Takes, Claimed, ClaimOn, IInv, TypeOK
  <2> QED BY <1>4, <2>1, <2>2
<1>5. CASE UNCHANGED <<local, cache, posted>>
  <2>1. pc'[s] = pc[s] /\ op'[s] = op[s] /\ claim'[s] = claim[s] /\ data'[s] = data[s]
    BY <1>5 DEF local
  <2>2. OpenIn(cache') = OpenIn(cache)
    BY <1>5
  <2> QED BY <1>1, <1>3, <1>4, <1>5, <2>1, <2>2, RestingStaysFit
<1>6. ASSUME NEW t \in Sessions, t # s, Acts(t) PROVE Fit(s)'
  <2>1. pc'[s] = pc[s] /\ op'[s] = op[s] /\ claim'[s] = claim[s] /\ data'[s] = data[s]
    BY <1>6, OthersStand DEF Others, IInv
  <2>2. /\ Fit(s) /\ claim[s].token # 0 /\ \A p \in PRs : queue[p] = <<>>
        /\ UNCHANGED <<frozen, thaws, forge>>
    BY <1>1, <1>3, <1>4, <2>1
  <2>3. /\ posted' = posted
        /\ OpenIn(cache) = OpenIn(forge) => OpenIn(cache') = OpenIn(forge)
    BY <1>1, <1>6, <2>2, OthersCatchUp
  <2> QED BY <2>1, <2>2, <2>3, RestingStaysFit
<1>7. CASE Acts(s)
  <2>1. CASE pc'[s] = "list"
    BY <2>1 DEF Fit
  <2>2. CASE op[s] = "runner" /\ ~Takes(s)
    <3>1. Fit(s) /\ Holds(s) /\ forge' = forge /\ TypeOK /\ IInv
      BY <1>3, <2>2 DEF IInv
    <3>2. CASE List(s)
      BY <3>1, <3>2, ListStaysFit
    <3>3. CASE Apply(s)
      BY <2>2, <3>1, <3>3, ApplyStaysFit
    <3>4. CASE Collect(s)
      BY <2>2, <3>1, <3>4, CollectStaysFit
    <3>5. CASE Evaluate(s)
      BY <1>1, <2>2, <3>1, <3>5, EvaluateStaysFit
    <3>6. CASE Fence(s)
      BY <3>1, <3>6, FenceStaysFit
    <3>7. CASE Post(s)
      BY <3>1, <3>7, PostStaysFit
    <3> QED
      BY <1>1, <1>7, <2>1, <3>2, <3>3, <3>4, <3>5, <3>6, <3>7, RunnerSteps
  <2> QED BY <1>1, <1>7, <2>1, <2>2, RunnerSteps
<1>8. (\E t \in Sessions : Acts(t)) \/ UNCHANGED <<local, cache, posted>>
  <2>1. Runner \in Sessions
    BY DEF Sessions
  <2> QED BY <2>1 DEF Next, Acts, LeaseRunsOut, Move, vars, tables
<1> QED BY <1>5, <1>6, <1>7, <1>8
-----------------------------------------------------------------------------
LEMMA InitRInv == Init => RInv
<1> SUFFICES ASSUME Init PROVE RInv
  OBVIOUS
<1>1. HoldersAlone /\ ClaimsHeld
  BY DEF Init, HoldersAlone, ClaimsHeld, NoClaim
<1>2. DeliveriesFit
  BY DEF Init, DeliveriesFit
<1>3. RunnerFit
  BY DEF Init, RunnerFit, Undisturbed
<1> QED BY <1>1, <1>2, <1>3, InitIInv DEF RInv

LEMMA NextRInv == RInv /\ [Next]_vars => RInv'
<1> SUFFICES ASSUME RInv, [Next]_vars PROVE RInv'
  OBVIOUS
<1>1. IInv'
  BY NextIInv DEF RInv
<1>2. HoldersAlone'
  BY HoldersStayAlone, StepsChangeJobs DEF RInv, IInv
<1>3. ClaimsHeld' /\ DeliveriesFit'
  BY ClaimsStayHeld, DeliveriesStayFit DEF RInv
<1>4. RunnerFit'
  BY RunnerStaysFit
<1> QED BY <1>1, <1>2, <1>3, <1>4 DEF RInv

(* One holder at a time, deliveries in order, and a runner on its way to   *)
(* exact statuses as long as nothing takes its claim away.                 *)
THEOREM AlwaysRInv == Spec => []RInv
BY InitRInv, NextRInv, PTL DEF Spec

(* Only the holder of the job removes it from the table.                   *)
LEMMA OnlyHoldersRemove ==
  ASSUME RInv, JobChanges, NEW s \in Sessions, claim[s].token # 0, ~Exists(row')
  PROVE  Holds(s)
<1>1. /\ row \in Row /\ claim \in [Sessions -> [gen : Nat, token : Nat]]
      /\ Exists(row) /\ row.token = claim[s].token /\ row.lease = "live"
      /\ \A t \in Sessions : claim[t].token # 0 => t = s
  BY DEF RInv, IInv, TypeOK, HoldersAlone
<1> USE DEF Exists
<1>2. ~KeepsJob /\ ~Asks /\ ~Expires
  BY <1>1 DEF KeepsJob, Asks, Enqueued, Expires, Row
<1>3. \A t \in Sessions : ~Takes(t)
  BY <1>1 DEF Takes, Claimable, LeaseFree
<1>4. PICK t \in Sessions : Leaves(t)
  BY <1>2, <1>3 DEF JobChanges
<1>5. Owns(row, claim[t])
  BY <1>1, <1>4 DEF Leaves, Completed, Rescheduled, Released, Unlocked, Owns, Row
<1>6. t = s
  BY <1>1, <1>5 DEF Owns
<1> QED BY <1>1, <1>5, <1>6 DEF Holds, Current

(* A reconciliation that the runner finishes, and that no newer work       *)
(* outlives, leaves every head with the status it deserves.                *)
THEOREM ReconciliationsAreExact == Spec => ReconciliationIsExact
<1> DEFINE Exact ==
      \A s \in Sessions :
        op[s] = "runner" /\ pc[s] = "complete" /\ ~Exists(row') /\ (\A p \in PRs : Quiet(p))
          => \A h \in Heads : OpenAt(forge, h) # {} => posted[h] = Deserved(h)
<1>1. RInv /\ [Next]_vars => Exact
  <2> SUFFICES ASSUME RInv, [Next]_vars, NEW s \in Sessions,
                      op[s] = "runner", pc[s] = "complete", ~Exists(row'),
                      \A p \in PRs : Quiet(p),
                      NEW h \in Heads, OpenAt(forge, h) # {}
               PROVE  posted[h] = Deserved(h)
    OBVIOUS
  <2>1. claim[s].token # 0
    BY DEF RInv, ClaimsHeld
  <2>2. Holds(s)
    BY <2>1, OnlyHoldersRemove, StepsChangeJobs DEF RInv, IInv
  <2>3. raced = {} /\ \A p \in PRs : queue[p] = <<>>
    BY DEF Quiet, RInv, IInv, TypeOK
  <2>4. Undisturbed(s)
    BY <2>2, <2>3 DEF Undisturbed
  <2> QED BY <2>4 DEF RInv, RunnerFit, HeadsFit
<1>2. RInv /\ [Next]_vars => [Exact]_vars
  BY <1>1
<1> QED BY <1>2, AlwaysRInv, PTL DEF ReconciliationIsExact, Spec
=============================================================================
