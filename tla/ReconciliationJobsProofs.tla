---------------------- MODULE ReconciliationJobsProofs ----------------------
(***************************************************************************)
(* Proofs about the job table: IInv is inductive, so that for any number   *)
(* of workers, any lease and any length of run no request is lost and at   *)
(* most one worker passes the check made before a publication.             *)
(***************************************************************************)
EXTENDS ReconciliationJobs, TLAPS

LEMMA RetryDelayType ==
  ASSUME NEW a \in Nat PROVE RetryDelay(a) \in Nat \ {0}
BY DEF RetryDelay

(* The upsert of EnqueueReconciliation disturbs no lease and advances the  *)
(* generation, so that no held claim matches the row any more.             *)
LEMMA EnqueueKeepsIInv ==
  ASSUME IInv, row' = UpsertReconciliation(TRUE), asked' = asked + 1,
         UNCHANGED <<now, cand, claims, upTo, served, crashes>>
  PROVE  IInv'
<1> USE DEF IInv
<1>1. TypeOK'
  <2>1. row \in Job /\ now \in Nat
    BY BoundsAssumption DEF TypeOK
  <2>2. row.gen + 1 \in Nat
    BY <2>1 DEF Job
  <2>3. UpsertReconciliation(TRUE) \in Job
    BY <2>1, <2>2 DEF UpsertReconciliation, Job
  <2>4. asked' \in Nat
    BY DEF TypeOK
  <2> QED BY <2>3, <2>4 DEF TypeOK
<1>2. ClockOrder'
  BY BoundsAssumption, LeaseAssumption
  DEF TypeOK, ClockOrder, LockIsLatest, UpsertReconciliation, Exists, Job,
      Holding, Claim, Candidate, NoClaim, NoCandidate, NoJob
<1>3. LeasesApart'
  BY DEF LeasesApart, Holding
<1>4. LockIsLatest'
  BY BoundsAssumption, LeaseAssumption
  DEF TypeOK, ClockOrder, LockIsLatest, UpsertReconciliation, Exists, Job,
      Holding, Claim, NoClaim, NoJob
<1>5. GenerationMarksNewWork'
  BY DEF TypeOK, ClockOrder, GenerationMarksNewWork, UpsertReconciliation,
         Exists, Job, Holding, Claim, NoClaim, NoJob, Owns
<1>6. NoLostRequest'
  BY DEF TypeOK, NoLostRequest, UpsertReconciliation, Exists, Job
<1> QED BY <1>1, <1>2, <1>3, <1>4, <1>5, <1>6

LEMMA EnsureKeepsIInv ==
  ASSUME IInv, EnsureFailure PROVE IInv'
<1> USE DEF IInv, EnsureFailure
<1>1. TypeOK'
  <2>1. row \in Job /\ now \in Nat
    BY BoundsAssumption DEF TypeOK
  <2>2. UpsertReconciliation(FALSE) \in Job
    BY <2>1 DEF UpsertReconciliation, Job
  <2> QED BY <2>2 DEF TypeOK
<1>2. ClockOrder'
  BY BoundsAssumption, LeaseAssumption
  DEF TypeOK, ClockOrder, LockIsLatest, UpsertReconciliation, Exists, Job,
      Holding, Claim, Candidate, NoClaim, NoCandidate, NoJob
<1>3. LeasesApart'
  BY DEF LeasesApart, Holding
<1>4. LockIsLatest'
  BY BoundsAssumption, LeaseAssumption
  DEF TypeOK, ClockOrder, LockIsLatest, UpsertReconciliation, Exists, Job,
      Holding, Claim, NoClaim, NoJob
<1>5. GenerationMarksNewWork'
  BY DEF TypeOK, ClockOrder, GenerationMarksNewWork, UpsertReconciliation,
         Exists, Job, Holding, Claim, NoClaim, NoJob, Owns
<1>6. NoLostRequest'
  BY DEF TypeOK, NoLostRequest, UpsertReconciliation, Exists, Job
<1> QED BY <1>1, <1>2, <1>3, <1>4, <1>5, <1>6

(* Reading a row changes only the reader's candidate.                      *)
LEMMA ReadKeepsIInv ==
  ASSUME IInv, NEW w \in Workers, ListDue(w) \/ ReadRepository(w)
  PROVE  IInv'
<1> USE DEF IInv
<1>1. /\ Exists /\ Idle(w)
      /\ Remember(w)
      /\ UNCHANGED <<now, row, claims, upTo, asked, served, crashes>>
  BY DEF ListDue, ReadRepository
<1>2. TypeOK'
  BY <1>1, BoundsAssumption DEF TypeOK, Remember, Candidate, Job
<1>3. ClockOrder'
  BY <1>1, BoundsAssumption
  DEF TypeOK, ClockOrder, Remember, Exists, Idle, Holding, NoCandidate,
      Candidate, Job
<1> QED
  BY <1>1, <1>2, <1>3
  DEF LeasesApart, LockIsLatest, GenerationMarksNewWork, NoLostRequest,
      Holding, Owns, Exists

(* Claiming: the new token is later than every held token by more than a   *)
(* lease, because the row was free at the time of the read.                *)
LEMMA ClaimKeepsIInv ==
  ASSUME IInv, NEW w \in Workers, ClaimCandidate(w)
  PROVE  IInv'
<1> USE DEF IInv
<1> DEFINE c == cand[w]
<1>0. /\ c \in Candidate /\ c # NoCandidate /\ c.gen # 0 /\ c.at # 0
      /\ c.gen \in Nat /\ c.at \in Nat /\ c.attempts + 1 \in Nat
      /\ ~Holding(w)
  BY DEF ClaimCandidate, TypeOK, ClockOrder, Candidate
<1>1. CASE ~ClaimMatches(w)
  <2>1. /\ cand' = [cand EXCEPT ![w] = NoCandidate]
        /\ UNCHANGED <<now, row, claims, upTo, asked, served, crashes>>
    BY <1>1 DEF ClaimCandidate
  <2>2. TypeOK'
    BY <2>1 DEF TypeOK, NoCandidate, Candidate
  <2>3. ClockOrder'
    BY <2>1 DEF TypeOK, ClockOrder, Holding, Exists, NoCandidate, Candidate
  <2> QED
    BY <2>1, <2>2, <2>3
    DEF LeasesApart, LockIsLatest, GenerationMarksNewWork, NoLostRequest,
        Holding, Owns, Exists
<1>2. CASE ClaimMatches(w)
  <2>1. /\ cand' = [cand EXCEPT ![w] = NoCandidate]
        /\ row' = [row EXCEPT !.lockedAt = c.at, !.attempts = @ + 1]
        /\ claims' = [claims EXCEPT ![w] =
             [gen |-> c.gen, token |-> c.at, attempts |-> c.attempts + 1]]
        /\ upTo' = [upTo EXCEPT ![w] = asked]
        /\ UNCHANGED <<now, asked, served, crashes>>
    BY <1>2 DEF ClaimCandidate
  <2>2. /\ row.gen = c.gen /\ row.runAt <= c.at
        /\ row.lockedAt = 0 \/ row.lockedAt + ReconciliationLease < c.at
        /\ Exists
    BY <1>0, <1>2 DEF ClaimMatches, LeaseFreeAt, Exists
  <2>3. \A v \in Workers : Holding(v) =>
          claims[v].token + ReconciliationLease < c.at
    BY <1>0, <2>2, LeaseAssumption, BoundsAssumption
    DEF TypeOK, LockIsLatest, ClockOrder, Job, Claim
  <2>4. TypeOK'
    <3>1. row.attempts + 1 \in Nat
      BY DEF TypeOK, Job
    <3>2. row' \in Job
      BY <1>0, <2>1, <3>1 DEF TypeOK, Job
    <3>3. cand' \in [Workers -> Candidate]
      BY <2>1 DEF TypeOK, Candidate, NoCandidate
    <3>4. claims' \in [Workers -> Claim]
      BY <1>0, <2>1 DEF TypeOK, Claim
    <3> QED BY <2>1, <3>2, <3>3, <3>4 DEF TypeOK
  <2>5. /\ row'.gen = row.gen /\ row'.runAt = row.runAt /\ row'.lockedAt = c.at
        /\ \A v \in Workers \ {w} : claims'[v] = claims[v] /\ cand'[v] = cand[v]
                                    /\ upTo'[v] = upTo[v]
        /\ claims'[w].gen = c.gen /\ claims'[w].token = c.at
        /\ cand'[w] = NoCandidate /\ upTo'[w] = asked
        /\ Holding(w)'
    BY <1>0, <2>1 DEF TypeOK, Job, Holding, NoClaim
  <2>6. ClockOrder'
    BY <1>0, <2>1, <2>2, <2>3, <2>5, LeaseAssumption, BoundsAssumption
    DEF TypeOK, ClockOrder, Holding, Exists, NoCandidate, Job, Claim, Candidate
  <2>7. LeasesApart'
    BY <1>0, <2>3, <2>5 DEF LeasesApart, Holding
  <2>8. LockIsLatest'
    BY <1>0, <2>3, <2>5 DEF LockIsLatest, Holding
  <2>9. GenerationMarksNewWork'
    BY <1>0, <2>1, <2>3, <2>5, LeaseAssumption
    DEF GenerationMarksNewWork, Holding, Owns, Exists, TypeOK, Claim
  <2>10. NoLostRequest'
    BY <2>1, <2>2, <2>5 DEF NoLostRequest, Exists
  <2> QED BY <2>4, <2>6, <2>7, <2>8, <2>9, <2>10
<1> QED BY <1>1, <1>2

(* What a worker that gives its claim back leaves behind: the other claims *)
(* as they were, and, when it owned the lock, all of them expired.         *)
LEMMA ForgetKeepsTypes ==
  ASSUME TypeOK, NEW w \in Workers, Forget(w)
  PROVE  /\ claims' \in [Workers -> Claim] /\ upTo' \in [Workers -> Nat]
         /\ claims'[w] = NoClaim
         /\ \A v \in Workers \ {w} :
              claims'[v] = claims[v] /\ upTo'[v] = upTo[v]
BY DEF TypeOK, Forget, Claim, NoClaim

LEMMA OthersExpired ==
  ASSUME IInv, NEW w \in Workers, Holding(w), row.lockedAt = claims[w].token
  PROVE  \A v \in Workers \ {w} : Holding(v) =>
           claims[v].token + ReconciliationLease < claims[w].token
BY LeaseAssumption, BoundsAssumption
DEF IInv, TypeOK, ClockOrder, LeasesApart, LockIsLatest, Job, Claim

(* The three ways a claim changes the row when it is given back: not at    *)
(* all, by deleting it, or by unlocking it.                                *)
LEMMA NotOwnedKeepsIInv ==
  ASSUME IInv, NEW w \in Workers, Forget(w),
         UNCHANGED <<now, row, asked, served>>,
         \/ UNCHANGED cand
         \/ cand' = [cand EXCEPT ![w] = NoCandidate],
         crashes' \in Nat
  PROVE  IInv'
<1> USE DEF IInv
<1>1. /\ claims' \in [Workers -> Claim] /\ upTo' \in [Workers -> Nat]
      /\ claims'[w] = NoClaim
      /\ \A v \in Workers \ {w} :
           claims'[v] = claims[v] /\ upTo'[v] = upTo[v]
  BY ForgetKeepsTypes
<1>2. /\ cand' \in [Workers -> Candidate]
      /\ \A v \in Workers : cand'[v] = cand[v] \/ cand'[v] = NoCandidate
  BY DEF TypeOK, Candidate, NoCandidate
<1>3. TypeOK'
  BY <1>1, <1>2 DEF TypeOK
<1>4. ClockOrder'
  BY <1>1, <1>2 DEF TypeOK, ClockOrder, Holding, Exists, NoClaim, NoCandidate
<1>5. LeasesApart' /\ LockIsLatest' /\ GenerationMarksNewWork'
  BY <1>1
  DEF LeasesApart, LockIsLatest, GenerationMarksNewWork, Holding, Owns, Exists
<1> QED
  BY <1>3, <1>4, <1>5 DEF NoLostRequest, Exists

LEMMA DeletedKeepsIInv ==
  ASSUME IInv, NEW w \in Workers, Holding(w), Owns(claims[w]), Forget(w),
         row' = NoJob, served' = upTo[w],
         UNCHANGED <<now, cand, asked, crashes>>
  PROVE  IInv'
<1> USE DEF IInv
<1>1. /\ claims' \in [Workers -> Claim] /\ upTo' \in [Workers -> Nat]
      /\ claims'[w] = NoClaim
      /\ \A v \in Workers \ {w} :
           claims'[v] = claims[v] /\ upTo'[v] = upTo[v]
  BY ForgetKeepsTypes
<1>2. \A v \in Workers \ {w} : Holding(v) =>
        claims[v].token + ReconciliationLease < claims[w].token
  BY OthersExpired DEF Owns
<1>3. upTo[w] = asked
  BY DEF GenerationMarksNewWork
<1>4. /\ row'.gen = 0 /\ row'.lockedAt = 0 /\ row'.runAt = 0
      /\ row' \in Job /\ ~Exists'
  BY DEF NoJob, Job, Exists
<1>5. TypeOK'
  BY <1>1, <1>4 DEF TypeOK
<1>6. ClockOrder'
  BY <1>1, <1>4, BoundsAssumption DEF TypeOK, ClockOrder, Holding, NoClaim
<1>7. LeasesApart'
  BY <1>1 DEF LeasesApart, Holding
<1>8. LockIsLatest'
  BY <1>1, <1>2, <1>4, BoundsAssumption, LeaseAssumption
  DEF LockIsLatest, Holding, TypeOK, ClockOrder, Claim
<1>9. GenerationMarksNewWork' /\ NoLostRequest'
  BY <1>3, <1>4 DEF GenerationMarksNewWork, NoLostRequest, Owns
<1> QED BY <1>5, <1>6, <1>7, <1>8, <1>9

LEMMA UnlockedKeepsIInv ==
  ASSUME IInv, NEW w \in Workers, Holding(w), Exists,
         row.lockedAt = claims[w].token, Forget(w),
         NEW t \in Nat, t >= claims[w].token,
         row' = [row EXCEPT !.lockedAt = 0, !.runAt = t],
         UNCHANGED <<now, cand, asked, served, crashes>>
  PROVE  IInv'
<1> USE DEF IInv
<1>1. /\ claims' \in [Workers -> Claim] /\ upTo' \in [Workers -> Nat]
      /\ claims'[w] = NoClaim
      /\ \A v \in Workers \ {w} :
           claims'[v] = claims[v] /\ upTo'[v] = upTo[v]
  BY ForgetKeepsTypes
<1>2. \A v \in Workers \ {w} : Holding(v) =>
        claims[v].token + ReconciliationLease < claims[w].token
  BY OthersExpired
<1>3. /\ row' \in Job /\ row'.gen = row.gen /\ row'.lockedAt = 0
      /\ row'.runAt = t /\ Exists'
  BY DEF TypeOK, Job, Exists
<1>4. TypeOK'
  BY <1>1, <1>3 DEF TypeOK
<1>5. ClockOrder'
  BY <1>1, <1>3, BoundsAssumption
  DEF TypeOK, ClockOrder, Holding, Exists, NoClaim, NoJob
<1>6. LeasesApart'
  BY <1>1 DEF LeasesApart, Holding
<1>7. LockIsLatest'
  BY <1>1, <1>2, <1>3, BoundsAssumption, LeaseAssumption
  DEF LockIsLatest, Holding, TypeOK, ClockOrder, Claim
<1>8. GenerationMarksNewWork' /\ NoLostRequest'
  BY <1>1, <1>3, <1>5
  DEF GenerationMarksNewWork, NoLostRequest, Owns, ClockOrder, Holding
<1> QED BY <1>4, <1>5, <1>6, <1>7, <1>8

(* releaseSupersededClaim unlocks a row whose generation has moved on, or  *)
(* leaves it alone.                                                        *)
LEMMA ReleasedIsUnlockedOrSame ==
  ASSUME IInv, NEW w \in Workers, Holding(w)
  PROVE  \/ Released(claims[w]) = row
         \/ /\ Exists /\ row.lockedAt = claims[w].token
            /\ row.runAt >= claims[w].token
            /\ Released(claims[w]) =
                 [row EXCEPT !.lockedAt = 0, !.runAt = row.runAt]
BY DEF IInv, TypeOK, ClockOrder, Released, Job, Claim, Exists

LEMMA CompleteKeepsIInv ==
  ASSUME IInv, NEW w \in Workers, CompleteClaim(w)
  PROVE  IInv'
<1>1. CASE Owns(claims[w])
  BY <1>1, DeletedKeepsIInv DEF CompleteClaim
<1>2. CASE ~Owns(claims[w])
  <2>1. /\ Holding(w) /\ Forget(w) /\ row' = Released(claims[w])
        /\ UNCHANGED <<now, cand, asked, served, crashes>>
    BY <1>2 DEF CompleteClaim
  <2>2. row.runAt \in Nat /\ crashes \in Nat
    BY DEF IInv, TypeOK, Job
  <2> QED
    BY <2>1, <2>2, ReleasedIsUnlockedOrSame, NotOwnedKeepsIInv,
       UnlockedKeepsIInv
<1> QED BY <1>1, <1>2

LEMMA RescheduleKeepsIInv ==
  ASSUME IInv, NEW w \in Workers, RescheduleClaim(w)
  PROVE  IInv'
<1>0. /\ Holding(w) /\ Forget(w)
      /\ UNCHANGED <<now, cand, asked, served, crashes>>
  BY DEF RescheduleClaim
<1>1. CASE Owns(claims[w])
  <2> DEFINE t == now + RetryDelay(claims[w].attempts)
  <2>1. t \in Nat /\ t >= claims[w].token
    <3>1. RetryDelay(claims[w].attempts) \in Nat \ {0}
      BY RetryDelayType DEF IInv, TypeOK, Claim
    <3> QED
      BY <3>1, BoundsAssumption DEF IInv, TypeOK, ClockOrder, Claim
  <2>2. row' = [row EXCEPT !.lockedAt = 0, !.runAt = t]
    BY <1>1 DEF RescheduleClaim
  <2>3. Exists /\ row.lockedAt = claims[w].token
    BY <1>1 DEF Owns
  <2> QED BY <1>0, <2>1, <2>2, <2>3, UnlockedKeepsIInv
<1>2. CASE ~Owns(claims[w])
  <2>1. row' = Released(claims[w])
    BY <1>2 DEF RescheduleClaim
  <2>2. row.runAt \in Nat /\ crashes \in Nat
    BY DEF IInv, TypeOK, Job
  <2> QED
    BY <1>0, <2>1, <2>2, ReleasedIsUnlockedOrSame, NotOwnedKeepsIInv,
       UnlockedKeepsIInv
<1> QED BY <1>1, <1>2

LEMMA CrashKeepsIInv ==
  ASSUME IInv, NEW w \in Workers, Crash(w)
  PROVE  IInv'
<1>1. crashes' \in Nat
  BY DEF IInv, TypeOK, Crash
<1> QED BY <1>1, NotOwnedKeepsIInv DEF Crash

LEMMA TickKeepsIInv ==
  ASSUME IInv, Tick PROVE IInv'
<1> USE DEF IInv, Tick
<1>1. TypeOK'
  BY BoundsAssumption DEF TypeOK
<1>2. ClockOrder'
  BY BoundsAssumption
  DEF TypeOK, ClockOrder, Holding, Exists, Job, Claim, Candidate
<1>3. LockIsLatest'
  BY BoundsAssumption, LeaseAssumption
  DEF TypeOK, LockIsLatest, Holding, Exists, Claim
<1> QED
  BY <1>1, <1>2, <1>3
  DEF LeasesApart, GenerationMarksNewWork, NoLostRequest, Holding, Owns, Exists
-----------------------------------------------------------------------------
LEMMA InitIInv == Init => IInv
BY BoundsAssumption
DEF Init, IInv, TypeOK, ClockOrder, LeasesApart, LockIsLatest,
    GenerationMarksNewWork, NoLostRequest, Holding, Owns, Exists, NoJob,
    NoClaim, NoCandidate, Job, Claim, Candidate

LEMMA NextIInv == IInv /\ [Next]_vars => IInv'
<1> SUFFICES ASSUME IInv, [Next]_vars PROVE IInv'
  OBVIOUS
<1>1. CASE Enqueue
  BY <1>1, EnqueueKeepsIInv DEF Enqueue
<1>2. CASE EnsureFailure
  BY <1>2, EnsureKeepsIInv
<1>3. CASE MakeDueNow
  BY <1>3, EnqueueKeepsIInv DEF MakeDueNow
<1>4. CASE Tick
  BY <1>4, TickKeepsIInv
<1>5. ASSUME NEW w \in Workers, Step(w) PROVE IInv'
  BY <1>5, ReadKeepsIInv, ClaimKeepsIInv, CompleteKeepsIInv,
     RescheduleKeepsIInv, CrashKeepsIInv DEF Step
<1>6. CASE UNCHANGED vars
  BY <1>6
  DEF vars, IInv, TypeOK, ClockOrder, LeasesApart, LockIsLatest,
      GenerationMarksNewWork, NoLostRequest, Holding, Owns, Exists
<1> QED BY <1>1, <1>2, <1>3, <1>4, <1>5, <1>6 DEF Next

(* The strengthened invariant holds in every reachable state: timestamps   *)
(* in jobs.go are ordered the way its WHERE clauses rely on.               *)
THEOREM AlwaysIInv == Spec => []IInv
BY InitIInv, NextIInv, PTL DEF Spec

(* No column of the job row or of a claim ever leaves its domain.          *)
THEOREM TypeCorrect == Spec => []TypeOK
<1>1. IInv => TypeOK
  BY DEF IInv
<1> QED BY <1>1, AlwaysIInv, PTL

(* No request for reconciliation is ever lost (CompleteClaim deletes only  *)
(* a row whose every request was made before the claim).                   *)
THEOREM NoRequestIsLost == Spec => []NoLostRequest
<1>1. IInv => NoLostRequest
  BY DEF IInv
<1> QED BY <1>1, AlwaysIInv, PTL

(* ClaimCurrent never answers yes to two workers at the same instant.      *)
THEOREM OneClaimIsCurrent == Spec => []OneCurrentClaim
<1>1. IInv => OneCurrentClaim
  <2> SUFFICES ASSUME IInv, NEW v \in Workers, NEW w \in Workers,
                      Holding(v), Holding(w), Current(claims[v]),
                      Current(claims[w]), v # w
               PROVE  FALSE
    BY DEF OneCurrentClaim
  <2>1. claims[v].token = claims[w].token /\ claims[v].token \in Nat
    BY DEF IInv, TypeOK, Current, Owns, Claim, Job
  <2> QED BY <2>1, LeaseAssumption DEF IInv, LeasesApart
<1> QED BY <1>1, AlwaysIInv, PTL
-----------------------------------------------------------------------------
(* jobs.go implements LeasedJob: each statement is one of its steps, or    *)
(* (a read, a refused claim) none.                                         *)
LEMMA RefinedInit == Init => Work!Init
<1> SUFFICES ASSUME Init PROVE Work!Init
  OBVIOUS
<1>1. JobView = Work!NoRow
  BY DEF Init, JobView, NoJob, Exists, Work!NoRow
<1>2. ClaimView = [w \in Workers |-> Work!NoClaim]
  BY DEF Init, ClaimView, NoClaim, Work!NoClaim
<1> QED BY <1>1, <1>2 DEF Init, Work!Init

(* The operators of JobRow, field by field.                                *)
LEMMA EnqueuedFields ==
  ASSUME NEW g \in Nat, NEW r, NEW t, NEW l
  PROVE  Work!Enqueued([gen |-> g, run |-> r, token |-> t, lease |-> l])
           = [gen |-> g + 1, run |-> "due", token |-> t, lease |-> l]
BY DEF Work!Enqueued

LEMMA EnsuredFields ==
  ASSUME NEW g \in Nat \ {0}, NEW r, NEW t, NEW l
  PROVE  Work!Ensured([gen |-> g, run |-> r, token |-> t, lease |-> l])
           = [gen |-> g, run |-> "due", token |-> t, lease |-> l]
BY DEF Work!Ensured, Work!Exists

(* An upsert at the present time makes the row due.                        *)
LEMMA UpsertView ==
  ASSUME IInv, now' = now, NEW g \in Nat \ {0}, row'.gen = g,
         row'.runAt = now, row'.lockedAt = row.lockedAt
  PROVE  JobView' = [gen |-> g, run |-> "due", token |-> JobView.token,
                     lease |-> JobView.lease]
BY BoundsAssumption DEF IInv, TypeOK, JobView, Exists, LeaseActive

LEMMA RefinedEnqueue ==
  ASSUME IInv, row' = UpsertReconciliation(TRUE), now' = now
  PROVE  JobView' = Work!Enqueued(JobView)
<1>1. row \in Job /\ row.gen \in Nat /\ (~Exists => row = NoJob)
  BY DEF IInv, TypeOK, ClockOrder, Job
<1>2. /\ row'.gen = row.gen + 1 /\ row.gen + 1 \in Nat \ {0}
      /\ row'.runAt = now /\ row'.lockedAt = row.lockedAt
  BY <1>1 DEF UpsertReconciliation, Exists, Job, NoJob
<1>3. JobView' = [gen |-> row.gen + 1, run |-> "due", token |-> JobView.token,
                  lease |-> JobView.lease]
  BY <1>1, <1>2, UpsertView
<1>4. Work!Enqueued(JobView)
        = [gen |-> row.gen + 1, run |-> "due", token |-> JobView.token,
           lease |-> JobView.lease]
  BY <1>1, EnqueuedFields DEF JobView
<1> QED BY <1>3, <1>4

LEMMA RefinedEnsure ==
  ASSUME IInv, row' = UpsertReconciliation(FALSE), now' = now
  PROVE  JobView' = Work!Ensured(JobView)
<1>1. row \in Job /\ row.gen \in Nat /\ (~Exists => row = NoJob)
  BY DEF IInv, TypeOK, ClockOrder, Job
<1>2. CASE Exists
  <2>1. /\ row'.gen = row.gen
        /\ row'.runAt = now /\ row'.lockedAt = row.lockedAt
    BY <1>1, <1>2 DEF UpsertReconciliation, Exists, Job
  <2>2. JobView' = [gen |-> row.gen, run |-> "due", token |-> JobView.token,
                    lease |-> JobView.lease]
    BY <1>1, <1>2, <2>1, UpsertView DEF Exists
  <2>3. Work!Ensured(JobView)
          = [gen |-> row.gen, run |-> "due", token |-> JobView.token,
             lease |-> JobView.lease]
    BY <1>1, <1>2, EnsuredFields DEF JobView, Exists
  <2> QED BY <2>2, <2>3
<1>3. CASE ~Exists
  <2>1. row' = UpsertReconciliation(TRUE)
    BY <1>3 DEF UpsertReconciliation
  <2>2. Work!Ensured(JobView) = Work!Enqueued(JobView)
    BY <1>3 DEF Work!Ensured, Work!Exists, Exists, JobView
  <2> QED BY <2>1, <2>2, RefinedEnqueue
<1> QED BY <1>2, <1>3

(* A worker gives its claim back.                                          *)
LEMMA RefinedForget ==
  ASSUME IInv, NEW w \in Workers, Forget(w)
  PROVE  Work!Drop(w)
BY DEF IInv, TypeOK, Forget, Work!Drop, ClaimView, Work!NoClaim, NoClaim, Claim

LEMMA RefinedHolding ==
  ASSUME IInv, NEW w \in Workers
  PROVE  /\ Work!Holding(w) <=> Holding(w)
         /\ ClaimView[w] = [gen |-> claims[w].gen, token |-> claims[w].token]
<1>1. ClaimView[w] = [gen |-> claims[w].gen, token |-> claims[w].token]
  BY DEF ClaimView
<1>2. Holding(w) => claims[w].gen # 0
  BY DEF IInv, ClockOrder
<1>3. ~Holding(w) => claims[w].gen = 0 /\ claims[w].token = 0
  BY DEF Holding, NoClaim
<1> QED BY <1>1, <1>2, <1>3 DEF Work!Holding, Work!NoClaim

LEMMA RefinedOwns ==
  ASSUME IInv, NEW w \in Workers
  PROVE  Work!Owns(JobView, ClaimView[w]) <=> Owns(claims[w])
BY DEF ClaimView, JobView, Work!Owns, Owns, Work!Exists, Exists

LEMMA RefinedReleased ==
  ASSUME IInv, NEW w \in Workers, Holding(w), row' = Released(claims[w]),
         now' = now
  PROVE  JobView' = Work!Released(JobView, ClaimView[w])
<1>1. row \in Job /\ claims[w] \in Claim
  BY DEF IInv, TypeOK
<1>2. /\ ClaimView[w].gen = claims[w].gen
      /\ ClaimView[w].token = claims[w].token
      /\ JobView.gen = row.gen /\ JobView.token = row.lockedAt
  BY DEF ClaimView, JobView
<1>3. CASE Exists /\ row.gen # claims[w].gen /\ row.lockedAt = claims[w].token
  <2>1. row' = [row EXCEPT !.lockedAt = 0]
    BY <1>3 DEF Released
  <2>2. /\ row'.gen = row.gen /\ row'.runAt = row.runAt /\ row'.lockedAt = 0
    BY <1>1, <2>1 DEF Job
  <2>3. JobView' = [gen |-> row.gen, run |-> JobView.run, token |-> 0,
                    lease |-> "free"]
    BY <2>2 DEF JobView, Exists
  <2>4. Work!Released(JobView, ClaimView[w])
          = Work!Unlocked(JobView)
    BY <1>2, <1>3 DEF Work!Released, Work!Exists, Exists
  <2> QED BY <2>3, <2>4 DEF JobView, Work!Unlocked
<1>4. CASE ~(Exists /\ row.gen # claims[w].gen
                /\ row.lockedAt = claims[w].token)
  <2>1. row' = row
    BY <1>4 DEF Released
  <2>2. JobView' = JobView
    BY <2>1 DEF JobView, Exists, LeaseActive
  <2>3. Work!Released(JobView, ClaimView[w]) = JobView
    BY <1>2, <1>4 DEF Work!Released, Work!Exists, Exists
  <2> QED BY <2>2, <2>3
<1> QED BY <1>3, <1>4

LEMMA RefinedComplete ==
  ASSUME IInv, NEW w \in Workers, CompleteClaim(w)
  PROVE  Work!Complete(w)
<1>1. /\ Holding(w) /\ Work!Holding(w) /\ Work!Drop(w)
      /\ UNCHANGED <<now, asked, crashes>>
  BY RefinedHolding, RefinedForget DEF CompleteClaim
<1>2. /\ JobView' = Work!Completed(JobView, ClaimView[w])
      /\ served' = IF Work!Owns(JobView, ClaimView[w]) THEN upTo[w] ELSE served
  <2>1. CASE Owns(claims[w])
    <3>1. row' = NoJob /\ served' = upTo[w]
      BY <2>1 DEF CompleteClaim
    <3>2. JobView' = Work!NoRow
      BY <3>1 DEF JobView, NoJob, Exists, Work!NoRow
    <3> QED BY <2>1, <3>1, <3>2, RefinedOwns DEF Work!Completed
  <2>2. CASE ~Owns(claims[w])
    <3>1. row' = Released(claims[w]) /\ served' = served
      BY <2>2 DEF CompleteClaim
    <3>2. JobView' = Work!Released(JobView, ClaimView[w])
      BY <1>1, <3>1, RefinedReleased
    <3> QED BY <2>2, <3>1, <3>2, RefinedOwns DEF Work!Completed
  <2> QED BY <2>1, <2>2
<1> QED BY <1>1, <1>2 DEF Work!Complete

LEMMA RefinedReschedule ==
  ASSUME IInv, NEW w \in Workers, RescheduleClaim(w)
  PROVE  Work!Reschedule(w)
<1>1. /\ Holding(w) /\ Work!Holding(w) /\ Work!Drop(w)
      /\ UNCHANGED <<now, asked, served, crashes>>
  BY RefinedHolding, RefinedForget DEF RescheduleClaim
<1>2. JobView' = Work!Rescheduled(JobView, ClaimView[w])
  <2>1. CASE Owns(claims[w])
    <3> DEFINE t == now + RetryDelay(claims[w].attempts)
    <3>1. t \in Nat /\ t > now /\ row \in Job
      <4>1. RetryDelay(claims[w].attempts) \in Nat \ {0}
        BY RetryDelayType DEF IInv, TypeOK, Claim
      <4> QED BY <4>1, BoundsAssumption DEF IInv, TypeOK
    <3>2. row' = [row EXCEPT !.lockedAt = 0, !.runAt = t]
      BY <2>1 DEF RescheduleClaim
    <3>3. row'.gen = row.gen /\ row'.lockedAt = 0 /\ row'.runAt = t
      BY <3>1, <3>2 DEF Job
    <3>4. JobView' = [gen |-> row.gen, run |-> "later", token |-> 0,
                      lease |-> "free"]
      BY <1>1, <3>1, <3>3, BoundsAssumption DEF JobView, Exists, IInv, TypeOK
    <3>5. Work!Rescheduled(JobView, ClaimView[w])
            = [Work!Unlocked(JobView) EXCEPT !.run = "later"]
      BY <2>1, RefinedOwns DEF Work!Rescheduled
    <3> QED BY <3>4, <3>5 DEF JobView, Work!Unlocked
  <2>2. CASE ~Owns(claims[w])
    <3>1. row' = Released(claims[w])
      BY <2>2 DEF RescheduleClaim
    <3>2. JobView' = Work!Released(JobView, ClaimView[w])
      BY <1>1, <3>1, RefinedReleased
    <3> QED BY <2>2, <3>2, RefinedOwns DEF Work!Rescheduled
  <2> QED BY <2>1, <2>2
<1> QED BY <1>1, <1>2 DEF Work!Reschedule

LEMMA ClaimedFields ==
  ASSUME NEW g, NEW r, NEW t, NEW l, NEW u, NEW k
  PROVE  [Work!Claimed([gen |-> g, run |-> r, token |-> t, lease |-> l], u)
            EXCEPT !.lease = k]
           = [gen |-> g, run |-> r, token |-> u, lease |-> k]
BY DEF Work!Claimed

(* A successful UPDATE takes the lease on a token nobody holds.            *)
LEMMA RefinedClaim ==
  ASSUME IInv, NEW w \in Workers, ClaimCandidate(w), ClaimMatches(w)
  PROVE  Work!Take(w)
<1> DEFINE c == cand[w]
           lease == IF LeaseActive' THEN "live" ELSE "expired"
<1>1. /\ row' = [row EXCEPT !.lockedAt = c.at, !.attempts = @ + 1]
      /\ claims' = [claims EXCEPT ![w] =
           [gen |-> c.gen, token |-> c.at, attempts |-> c.attempts + 1]]
      /\ upTo' = [upTo EXCEPT ![w] = asked]
      /\ UNCHANGED <<now, asked, served, crashes>>
      /\ c # NoCandidate
  BY DEF ClaimCandidate
<1>2. /\ row \in Job /\ c \in Candidate /\ c.gen # 0 /\ c.at \in Nat \ {0}
      /\ c.at <= now /\ now \in Nat /\ now <= MaxTime
      /\ ~Holding(w)
  BY <1>1, BoundsAssumption DEF IInv, TypeOK, ClockOrder, Candidate
<1>3. /\ row.gen = c.gen /\ row.runAt <= c.at /\ Exists
      /\ row.lockedAt = 0 \/ row.lockedAt + ReconciliationLease < c.at
  BY <1>2 DEF ClaimMatches, LeaseFreeAt, Exists
<1>4. /\ row'.gen = row.gen /\ row'.runAt = row.runAt /\ row'.lockedAt = c.at
  BY <1>1, <1>2 DEF Job
<1>5. Work!Claimable(JobView)
  <2>1. JobView.run = "due"
    BY <1>2, <1>3 DEF JobView, Job
  <2>2. JobView.lease # "live"
    BY <1>2, <1>3, LeaseAssumption DEF JobView, LeaseActive, Job
  <2>3. JobView.gen # 0
    BY <1>3 DEF JobView, Exists
  <2> QED BY <2>1, <2>2, <2>3 DEF Work!Claimable, Work!Exists, Work!LeaseFree
<1>6. c.at \in 1..MaxTime
  BY <1>2, BoundsAssumption
<1>7. Work!FreshToken(c.at)
  <2> SUFFICES ASSUME NEW v \in Workers, Work!Holding(v)
               PROVE  ClaimView[v].token # c.at
    BY DEF Work!FreshToken
  <2>1. Holding(v) /\ claims[v].token \in Nat /\ claims[v].token # 0
    BY RefinedHolding DEF IInv, TypeOK, ClockOrder, Claim
  <2>2. claims[v].token + ReconciliationLease < c.at
    BY <1>2, <1>3, <2>1, LeaseAssumption
    DEF IInv, TypeOK, LockIsLatest, ClockOrder, Job
  <2> QED BY <2>1, <2>2, LeaseAssumption DEF ClaimView
<1>8. JobView' = [Work!Claimed(JobView, c.at) EXCEPT !.lease = lease]
  <2>1. JobView' = [gen |-> row.gen, run |-> JobView.run, token |-> c.at,
                    lease |-> lease]
    BY <1>1, <1>2, <1>4 DEF JobView, Exists
  <2> QED BY <2>1, ClaimedFields DEF JobView
<1>9. ClaimView' = [ClaimView EXCEPT ![w] = Work!ClaimOn(JobView')]
  <2>1. Work!ClaimOn(JobView') = [gen |-> c.gen, token |-> c.at]
    BY <1>3, <1>4 DEF Work!ClaimOn, JobView
  <2>2. \A v \in Workers : ClaimView'[v] =
          IF v = w THEN [gen |-> c.gen, token |-> c.at] ELSE ClaimView[v]
    BY <1>1 DEF ClaimView, IInv, TypeOK
  <2> QED BY <2>1, <2>2 DEF ClaimView
<1>10. lease \in {"live", "expired"} /\ ~Work!Holding(w)
  BY <1>2, RefinedHolding
<1> QED BY <1>1, <1>5, <1>6, <1>7, <1>8, <1>9, <1>10 DEF Work!Take

(* The clock only makes the row due and the lease expire.                  *)
LEMMA RefinedTick ==
  ASSUME IInv, Tick PROVE [Work!Next]_(Work!vars)
<1>1. /\ now \in Nat /\ now' = now + 1 /\ row \in Job /\ row' = row
      /\ ClaimView' = ClaimView
      /\ UNCHANGED <<upTo, asked, served, crashes>>
  BY BoundsAssumption DEF Tick, IInv, TypeOK, ClaimView
<1>2. CASE ~Exists
  <2>1. JobView' = JobView
    BY <1>1, <1>2 DEF JobView, Exists, LeaseActive, IInv, ClockOrder, NoJob
  <2> QED BY <1>1, <2>1 DEF Work!vars
<1>3. CASE Exists
  <2> DEFINE run == JobView'.run
             ended == [JobView EXCEPT !.run = run, !.lease = "expired"]
  <2>1. run \in {JobView.run, "due"}
    BY <1>1, <1>3 DEF JobView, Exists, Job
  <2>2. \/ JobView'.lease = JobView.lease
        \/ JobView.lease = "live" /\ JobView'.lease = "expired"
    BY <1>1, LeaseAssumption DEF JobView, LeaseActive, Job
  <2>3. JobView'.gen = JobView.gen /\ JobView'.token = JobView.token
    BY <1>1 DEF JobView
  <2>4. \/ JobView' = [JobView EXCEPT !.run = run]
        \/ JobView.lease = "live" /\ JobView' = ended
    BY <2>2, <2>3 DEF JobView
  <2>5. Work!Exists(JobView)
    BY <1>3 DEF Work!Exists, Exists, JobView
  <2> QED BY <1>1, <2>1, <2>4, <2>5 DEF Work!Elapse, Work!Next
<1> QED BY <1>2, <1>3

LEMMA RefinedNext ==
  ASSUME IInv, [Next]_vars PROVE [Work!Next]_(Work!vars)
<1>1. CASE Enqueue
  BY <1>1, RefinedEnqueue DEF Enqueue, ClaimView, Work!Request, Work!Next
<1>2. CASE EnsureFailure
  BY <1>2, RefinedEnsure DEF EnsureFailure, ClaimView, Work!Ensure, Work!Next
<1>3. CASE MakeDueNow
  <2>1. Work!LeaseFree(JobView)
    BY <1>3, LeaseAssumption, BoundsAssumption
    DEF MakeDueNow, LeaseFreeAt, Work!LeaseFree, JobView, LeaseActive, IInv,
        TypeOK, ClockOrder, Job, NoJob
  <2> QED
    BY <1>3, <2>1, RefinedEnqueue
    DEF MakeDueNow, ClaimView, Work!DueNow, Work!MadeDueNow, Work!Next
<1>4. CASE Tick
  BY <1>4, RefinedTick
<1>5. ASSUME NEW w \in Workers, Step(w) PROVE [Work!Next]_(Work!vars)
  <2>1. CASE ListDue(w) \/ ReadRepository(w)
    BY <2>1 DEF ListDue, ReadRepository, ClaimView, JobView, Exists,
                LeaseActive, Work!vars
  <2>2. CASE ClaimCandidate(w)
    <3>1. CASE ClaimMatches(w)
      BY <2>2, <3>1, RefinedClaim DEF Work!Next, Work!Work
    <3>2. CASE ~ClaimMatches(w)
      BY <2>2, <3>2
      DEF ClaimCandidate, ClaimView, JobView, Exists, LeaseActive, Work!vars
    <3> QED BY <3>1, <3>2
  <2>3. CASE CompleteClaim(w)
    BY <2>3, RefinedComplete DEF Work!Next, Work!Work
  <2>4. CASE RescheduleClaim(w)
    BY <2>4, RefinedReschedule DEF Work!Next, Work!Work
  <2>5. CASE Crash(w)
    <3>1. Work!Drop(w)
      BY <2>5, RefinedForget DEF Crash
    <3> QED
      BY <2>5, <3>1
      DEF Crash, Work!Crash, Work!Next, Work!Work, JobView, Exists, LeaseActive
  <2> QED BY <1>5, <2>1, <2>2, <2>3, <2>4, <2>5 DEF Step
<1>6. CASE UNCHANGED vars
  BY <1>6 DEF vars, Work!vars, ClaimView, JobView, Exists, LeaseActive
<1> QED BY <1>1, <1>2, <1>3, <1>4, <1>5, <1>6 DEF Next

(* The SQL of jobs.go implements the coalescing, leased work item that its *)
(* callers are modelled against, for every number of workers and lease.    *)
THEOREM JobsImplementLeasedJob == Spec => ImplementsLeasedJob
BY RefinedInit, RefinedNext, AlwaysIInv, PTL
DEF Spec, ImplementsLeasedJob, Work!Spec
=============================================================================
