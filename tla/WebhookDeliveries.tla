--------------------------- MODULE WebhookDeliveries ---------------------------
(***************************************************************************)
(* The record of webhook deliveries (internal/webhook/delivery_store.go)    *)
(* and the handler that works it off (internal/web/server.go).              *)
(*                                                                         *)
(* A forge posts a body, may post it again under the same delivery id, and  *)
(* hangs up when the answer takes too long, which cancels every statement   *)
(* the handler still has to run.  The row of a delivery keeps it from being *)
(* processed twice and hands it on when its handler was cut off: a claim is *)
(* the time it was made at, and ten minutes later anybody may replace it.   *)
(*                                                                         *)
(* What Process does to pull requests and statuses is SharedHeads; here it  *)
(* is one effect, which counts.  A claim is a number: the times of two      *)
(* claims of one row are ten minutes, or a failure, and thus at least a     *)
(* nanosecond apart.  The forge is external.                                *)
(***************************************************************************)
EXTENDS Naturals, FiniteSets

CONSTANTS Ids,          \* delivery ids, or digests of bodies that came without one
          Unsupported,  \* those with an action that Process is not asked about
          Requests,     \* the handlers of concurrent posts
          NoId,
          MaxFaults,    \* bound: hangups, failures, and claims that grow old while in use
          MaxRotations  \* bound: webhook secrets replaced

ASSUME DeliveryAssumption ==
  /\ IsFiniteSet(Ids) /\ IsFiniteSet(Requests)
  /\ Unsupported \subseteq Ids /\ NoId \notin Ids
  /\ MaxFaults \in Nat /\ MaxRotations \in Nat

VARIABLES rows,       \* webhook_deliveries
          requests,   \* where each handler is, and the claim it read
          trusted,    \* the stored secret is the one the forge signs with
          claims,     \* claims made so far: the next one's time
          effects,    \* how often Process went through for a delivery
          faults, rotations

vars == <<rows, requests, trusted, claims, effects, faults, rotations>>

None == 0   \* NULL
NoRow == [recorded |-> FALSE, started |-> None, old |-> FALSE, processed |-> FALSE, error |-> ""]
Idle == [pc |-> "idle", id |-> NoId, token |-> None, error |-> "", answer |-> "none"]

Init == /\ rows = [k \in Ids |-> NoRow]
        /\ requests = [q \in Requests |-> Idle]
        /\ trusted = TRUE
        /\ claims = 0 /\ faults = 0 /\ rotations = 0
        /\ effects = [k \in Ids |-> 0]

-----------------------------------------------------------------------------
At(q, pc) == requests[q].pc = pc
To(q, pc) == requests' = [requests EXCEPT ![q].pc = pc]
\* 202 or 500; the handler is done.
Answer(q, answer) ==
    requests' = [requests EXCEPT ![q] = [Idle EXCEPT !.answer = answer]]
Fault == faults < MaxFaults /\ faults' = faults + 1
NoFault == UNCHANGED faults
ledgerOnly == <<trusted, effects, rotations>>

\* The post of a delivery that no handler is holding: the first, or a repeated one.
Post(q, k) ==
    /\ At(q, "idle")
    /\ requests' = [requests EXCEPT ![q] = [Idle EXCEPT !.pc = "received", !.id = k]]
    /\ UNCHANGED <<rows, claims, ledgerOnly>> /\ NoFault

\* handleForgejoWebhook up to the signature: what it cannot verify it drops.
VerifyHMACSHA256 == trusted
Verify(q) ==
    /\ At(q, "received")
    /\ IF VerifyHMACSHA256 THEN To(q, "verified") ELSE Answer(q, "accepted")
    /\ UNCHANGED <<rows, claims, ledgerOnly>> /\ NoFault

\* Record looks for the row first, and takes the row another one inserted since.
Recorded(k) == [NoRow EXCEPT !.recorded = TRUE]
Find(q) ==
    /\ At(q, "verified")
    /\ To(q, IF rows[requests[q].id].recorded THEN "recorded" ELSE "missing")
    /\ UNCHANGED <<rows, claims, ledgerOnly>> /\ NoFault
Insert(q) ==
    /\ At(q, "missing") /\ To(q, "recorded")
    /\ rows' = [rows EXCEPT ![requests[q].id] = IF @.recorded THEN @ ELSE Recorded(requests[q].id)]
    /\ UNCHANGED <<claims, ledgerOnly>> /\ NoFault

\* The WHERE of ClaimForProcessing.
ClaimableOnce(row) == ~row.processed /\ row.started = None       \* mutant
ClaimableAnyTime(row) == ~row.processed                          \* mutant
Claimable(row) == ~row.processed /\ (row.started = None \/ row.old)
\* claimAndProcessVerifiedPullRequestWebhook: whoever does not get the claim says accepted.
Claim(q) ==
    LET k == requests[q].id IN
    /\ At(q, "recorded")
    /\ IF Claimable(rows[k])
       THEN /\ claims' = claims + 1
            /\ rows' = [rows EXCEPT ![k].started = claims', ![k].old = FALSE, ![k].error = ""]
            /\ To(q, "claimed")
       ELSE Answer(q, "accepted") /\ UNCHANGED <<rows, claims>>
    /\ UNCHANGED ledgerOnly /\ NoFault
\* The row is read back in a statement of its own, well within ten minutes.
Reread(q) ==
    /\ At(q, "claimed")
    /\ requests' = [requests EXCEPT
         ![q].token = rows[requests[q].id].started,
         ![q].pc = IF requests[q].id \in Unsupported THEN "done" ELSE "processing",
         ![q].error = IF requests[q].id \in Unsupported THEN "unsupported" ELSE ""]
    /\ UNCHANGED <<rows, claims, ledgerOnly>> /\ NoFault

\* Process: it fails before or after it has had its effect, or goes through.
Process(q) ==
    /\ At(q, "processing")
    /\ \/ /\ effects' = [effects EXCEPT ![requests[q].id] = @ + 1]
          /\ To(q, "done") /\ NoFault
       \/ /\ \/ effects' = [effects EXCEPT ![requests[q].id] = @ + 1]
             \/ UNCHANGED effects
          /\ requests' = [requests EXCEPT ![q].pc = "failed", ![q].error = "failed"]
          /\ Fault
    /\ UNCHANGED <<rows, claims, trusted, rotations>>

\* The WHERE of MarkProcessed and MarkProcessingFailed.
AnyHolder(q) == TRUE    \* mutant
Holds(q) == rows[requests[q].id].started = requests[q].token
Release(row, error) == [row EXCEPT !.started = None, !.old = FALSE, !.error = error]
MarkProcessed(q) ==
    /\ At(q, "done")
    /\ IF Holds(q)
       THEN /\ rows' = [rows EXCEPT ![requests[q].id] =
                          [Release(@, requests[q].error) EXCEPT !.processed = TRUE]]
            /\ Answer(q, "accepted")
       ELSE Answer(q, "error") /\ UNCHANGED rows
    /\ UNCHANGED <<claims, ledgerOnly>> /\ NoFault
MarkProcessingFailed(q) ==
    /\ At(q, "failed")
    /\ rows' = [rows EXCEPT ![requests[q].id] =
         IF Holds(q) THEN [Release(@, requests[q].error) EXCEPT !.processed = FALSE] ELSE @]
    /\ Answer(q, "error")
    /\ UNCHANGED <<claims, ledgerOnly>> /\ NoFault

Handler(q) == \/ Verify(q) \/ Find(q) \/ Insert(q) \/ Claim(q) \/ Reread(q) \/ Process(q)
              \/ MarkProcessed(q) \/ MarkProcessingFailed(q)

\* The forge hangs up, a statement fails or the process stops: nothing more
\* is written, and the claim stays.
Hangup(q) == /\ requests[q].pc # "idle" /\ Answer(q, "none") /\ Fault
             /\ UNCHANGED <<rows, claims, ledgerOnly>>

\* Ten minutes pass over a claim; a handler that is still at it is slow.
InUse(k) == \E q \in Requests : requests[q].pc # "idle" /\ requests[q].id = k
                                /\ requests[q].token = rows[k].started
GrowsOld(k) == /\ rows[k].started # None /\ ~rows[k].old
               /\ \A q \in Requests : requests[q].id = k => ~At(q, "claimed")
               /\ rows' = [rows EXCEPT ![k].old = TRUE]
               /\ IF InUse(k) THEN Fault ELSE NoFault
               /\ UNCHANGED <<requests, claims, ledgerOnly>>

\* SetWebhookSecret here, or the forge's own setting.
Rotate == /\ rotations < MaxRotations /\ rotations' = rotations + 1
          /\ trusted' = ~trusted
          /\ UNCHANGED <<rows, requests, claims, effects, faults>>

Next == \/ \E q \in Requests : Handler(q) \/ Hangup(q) \/ \E k \in Ids : Post(q, k)
        \/ \E k \in Ids : GrowsOld(k)
        \/ Rotate
Spec == Init /\ [][Next]_vars

\* Handlers run and time passes; and, of the forge, that it posts a delivery
\* again and again.  A post that is always dropped teaches nothing, hence SF on
\* the verified ones.
FairSpec == /\ Spec
            /\ \A q \in Requests : WF_vars(Handler(q))
            /\ \A k \in Ids : WF_vars(GrowsOld(k))
            /\ \A k \in Ids : SF_vars(\E q \in Requests : Post(q, k) /\ trusted)

-----------------------------------------------------------------------------
(* deliveryProcessingConditions: what the page says of a row.               *)
ProcessingState(row) ==
    CASE row.processed -> IF row.error = "" THEN "processed" ELSE "processed_with_error"
      [] ~row.processed /\ row.started # None -> "processing"
      [] OTHER -> IF row.error = "" THEN "received" ELSE "retryable_failure"

RowsOK == \A k \in Ids :
    /\ rows[k] \in [recorded : BOOLEAN, started : 0..claims, old : BOOLEAN,
                    processed : BOOLEAN, error : {"", "unsupported", "failed"}]
    /\ ~rows[k].recorded => rows[k] = NoRow

\* A claim is held by one handler: two that read the same time would both write.
OneHolder == \A k \in Ids, q, p \in Requests :
    LET Has(x) == requests[x].id = k /\ requests[x].token # None /\ Holds(x) IN
    Has(q) /\ Has(p) => q = p

\* The page tells the truth: a row says processed only if Process went through,
\* and with an error only if the action is not one that Process is asked about.
ShownIsTrue == \A k \in Ids : LET s == ProcessingState(rows[k]) IN
    /\ s = "processed" => effects[k] > 0 /\ k \notin Unsupported
    /\ s = "processed_with_error" => k \in Unsupported /\ effects[k] = 0

\* The effect of a delivery is had once, and once more for each time a handler
\* failed, was cut off or outlasted its claim; never because it was posted again.
RepeatsAreFaults == \A k \in Ids : effects[k] <= faults + 1

\* The ledger of deliveries is kept: the domains, one holder for a claim, a page
\* that tells the truth and no effect that a repeated post alone could double.
LedgerIsKept == RowsOK /\ OneHolder /\ ShownIsTrue /\ RepeatsAreFaults

\* A row is inserted once and is final once it is processed: no slow handler,
\* late failure or repeated post takes the outcome back.
OutcomesAreFinal ==
    [][\A k \in Ids : /\ rows[k].processed => rows'[k] = rows[k]
                      /\ rows[k].recorded => rows'[k].recorded
                      /\ effects'[k] > effects[k] =>
                           (~rows[k].processed \/ faults > 0)]_vars

\* accepted, when it is said of a delivery that was verified, means that it is
\* processed or in somebody's hands.
AcceptedIsInHand ==
    [][\A q \in Requests : (requests[q].pc \notin {"idle", "received"} /\ requests'[q].answer = "accepted")
          => LET row == rows'[requests[q].id] IN
             row.processed \/ (row.started # None /\ ~row.old)]_vars

\* What the forge was told and what the row says is never taken back.
OutcomesAreKept == OutcomesAreFinal /\ AcceptedIsInHand

\* A delivery that the forge keeps posting, under a secret that stays the right
\* one, is processed in the end, whoever was cut off in between.
RedeliveredIsProcessed ==
    \A k \in Ids : <>[]trusted => <>(rows[k].processed)
=============================================================================
