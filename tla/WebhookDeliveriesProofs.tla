----------------------- MODULE WebhookDeliveriesProofs -----------------------
(***************************************************************************)
(* Proofs about the record of webhook deliveries, for any number of        *)
(* deliveries and handlers, however often the forge repeats itself, hangs  *)
(* up, or a handler outlasts its claim.                                    *)
(*                                                                         *)
(* Safety rests on two facts.  A claim is one handler's (ClaimsFit), and   *)
(* an effect has to be earned: every effect after the first is paid for by *)
(* a fault (EffectsAreOwed), which counts the effects a delivery has had,  *)
(* the handlers that may still have one, and the claim that may still be   *)
(* made without a further fault.                                           *)
(***************************************************************************)
EXTENDS WebhookDeliveries, FiniteSetTheorems, TLAPS

Working == {"processing", "done", "failed"}
Steps == {"idle", "received", "verified", "missing", "recorded", "claimed"} \cup Working
NoError == ""
Errors == {NoError, "unsupported", "failed"}
Row == [recorded : BOOLEAN, started : Nat, old : BOOLEAN, processed : BOOLEAN, error : Errors]
Request == [pc : Steps, id : Ids \cup {NoId}, token : Nat, error : Errors,
            answer : {"none", "accepted", "error"}]

TypesOK ==
  /\ rows \in [Ids -> Row] /\ requests \in [Requests -> Request]
  /\ claims \in Nat /\ faults \in Nat /\ effects \in [Ids -> Nat]

(* What a row says, whatever the handlers do.                              *)
RowFits(k) ==
  /\ rows[k].started <= claims
  /\ ~rows[k].recorded => rows[k] = NoRow
  /\ rows[k].processed => rows[k].started = None
  /\ rows[k].processed => (rows[k].error = NoError <=> k \notin Unsupported)
  /\ rows[k].processed /\ k \notin Unsupported => effects[k] > 0
  /\ k \in Unsupported => effects[k] = 0

(* What a handler knows at each of its steps.                              *)
RequestFits(q) ==
  /\ requests[q].pc # "idle" => requests[q].id \in Ids /\ requests[q].answer = "none"
  /\ requests[q].token <= claims
  /\ requests[q].token # None <=> requests[q].pc \in Working
  /\ requests[q].pc \in {"recorded", "claimed"} \cup Working => rows[requests[q].id].recorded
  /\ requests[q].pc = "processing" =>
       requests[q].id \notin Unsupported /\ requests[q].error = NoError
  /\ requests[q].pc = "done" => (requests[q].error = NoError <=> requests[q].id \notin Unsupported)
  /\ requests[q].pc = "done" /\ requests[q].id \notin Unsupported => effects[requests[q].id] > 0

(* A claim that was made and not read back is the newest one of its row,   *)
(* and no two handlers have read the same one.                             *)
ClaimFits(q, p) == requests[q].id = requests[p].id =>
  /\ requests[q].pc = "claimed" =>
       /\ rows[requests[q].id].started # None /\ ~rows[requests[q].id].old
       /\ requests[p].token # rows[requests[q].id].started
       /\ requests[p].pc = "claimed" => q = p
  /\ requests[q].token = requests[p].token /\ requests[q].token # None => q = p

RowsFit == \A k \in Ids : RowFits(k)
RequestsFit == \A q \in Requests : RequestFits(q)
ClaimsFit == \A q, p \in Requests : ClaimFits(q, p)

(* The handlers that may still have an effect, and whether another one may *)
(* come to be without a fault: unless the row is processed, or its claim   *)
(* is young and its handler on the way to processing it.                   *)
Pending(k) == {q \in Requests : requests[q].id = k /\ requests[q].pc = "processing"}
Secures(q, k) ==
  /\ requests[q].id = k /\ requests[q].pc \in {"processing", "done"}
  /\ requests[q].token = rows[k].started /\ ~rows[k].old
Secured(k) == \E q \in Requests : Secures(q, k)
Settled(k) == rows[k].processed \/ Secured(k)
Spare(k) == IF Settled(k) THEN 0 ELSE 1

Owed(k) == effects[k] + Cardinality(Pending(k)) + Spare(k) <= faults + 1

EffectsAreOwed == \A k \in Ids : Owed(k)

IInv == TypesOK /\ RowsFit /\ RequestsFit /\ ClaimsFit /\ EffectsAreOwed
-----------------------------------------------------------------------------
(* What the steps do to a handler and to a row, field by field.            *)
Only(q) ==
  /\ requests' \in [Requests -> Request]
  /\ \A p \in Requests \ {q} : requests'[p] = requests[p]
Kept(q) ==
  /\ Only(q) /\ requests'[q].id = requests[q].id /\ requests'[q].answer = requests[q].answer
Moved(q, pc) ==
  /\ Kept(q) /\ requests'[q].pc = pc
  /\ requests'[q].token = requests[q].token /\ requests'[q].error = requests[q].error
Over(q, answer) ==
  /\ Only(q) /\ requests'[q].pc = "idle" /\ requests'[q].token = None
  /\ requests'[q].answer = answer
OnlyRow(k) == rows' \in [Ids -> Row] /\ \A j \in Ids \ {k} : rows'[j] = rows[j]
Tallies == <<effects, faults>>

(* A handler that only moves on.                                           *)
LEMMA ToChanges ==
  ASSUME TypesOK, NEW q \in Requests, NEW pc \in Steps, To(q, pc)
  PROVE  Moved(q, pc)
BY DEF TypesOK, Request, To, Only, Kept, Moved

(* A handler that answers is done.                                         *)
LEMMA AnswerChanges ==
  ASSUME TypesOK, NEW q \in Requests, NEW answer \in {"none", "accepted", "error"},
         Answer(q, answer)
  PROVE  Over(q, answer)
<1> DEFINE over == [Idle EXCEPT !.answer = answer]
<1>1. over \in Request /\ over.pc = "idle" /\ over.token = None /\ over.answer = answer
  BY DEF Idle, Request, None, Steps, Errors, NoError
<1> QED BY <1>1 DEF TypesOK, Answer, Over, Only

(* A post gives an idle handler a delivery.                                *)
LEMMA PostChanges ==
  ASSUME TypesOK, NEW q \in Requests, NEW k \in Ids, Post(q, k)
  PROVE  /\ requests[q].pc = "idle"
         /\ Only(q) /\ requests'[q].pc = "received" /\ requests'[q].id = k
         /\ requests'[q].token = None /\ requests'[q].answer = "none"
         /\ UNCHANGED <<rows, claims, Tallies>>
<1> DEFINE new == [Idle EXCEPT !.pc = "received", !.id = k]
<1>1. /\ new \in Request /\ new.pc = "received" /\ new.id = k
      /\ new.token = None /\ new.answer = "none"
  BY DEF Idle, Request, None, Steps, Errors, NoError
<1> QED BY <1>1 DEF TypesOK, Post, At, Only, ledgerOnly, NoFault, Tallies

(* Up to the record, the handler only reads.                               *)
LEMMA ReadChanges ==
  ASSUME TypesOK, NEW q \in Requests, Verify(q) \/ Find(q)
  PROVE  /\ requests[q].pc \in {"received", "verified"}
         /\ \/ Over(q, "accepted") /\ requests[q].pc = "received"
            \/ Moved(q, "verified") \/ Moved(q, "missing")
            \/ Moved(q, "recorded") /\ rows[requests[q].id].recorded
         /\ UNCHANGED <<rows, claims, Tallies>>
<1>1. CASE Verify(q)
  BY <1>1, ToChanges, AnswerChanges DEF Verify, At, Steps, ledgerOnly, NoFault, Tallies
<1>2. CASE Find(q)
  BY <1>2, ToChanges DEF Find, At, Steps, ledgerOnly, NoFault, Tallies
<1> QED BY <1>1, <1>2

(* The insert makes a row, or leaves the one that came before it.          *)
LEMMA InsertChanges ==
  ASSUME TypesOK, NEW q \in Requests, Insert(q), requests[q].id \in Ids
  PROVE  LET k == requests[q].id IN
         /\ requests[q].pc = "missing" /\ Moved(q, "recorded")
         /\ OnlyRow(k) /\ rows'[k].recorded
         /\ \/ rows[k].recorded /\ rows'[k] = rows[k]
            \/ /\ ~rows[k].recorded
               /\ rows'[k].started = None /\ ~rows'[k].old /\ ~rows'[k].processed
         /\ UNCHANGED <<claims, Tallies>>
<1> DEFINE new == [NoRow EXCEPT !.recorded = TRUE]
<1>1. new \in Row /\ new.recorded /\ new.started = None /\ ~new.old /\ ~new.processed
  BY DEF NoRow, None, Row, Errors, NoError
<1>2. Moved(q, "recorded")
  BY ToChanges DEF Insert, Steps
<1> HIDE DEF new
<1>3. rows' = [rows EXCEPT ![requests[q].id] =
                 IF rows[requests[q].id].recorded THEN rows[requests[q].id] ELSE new]
  BY DEF Insert, Recorded, new
<1> QED BY <1>1, <1>2, <1>3
        DEF TypesOK, Insert, At, OnlyRow, Row, ledgerOnly, NoFault, Tallies

(* A claim takes a row that nobody has or whose claim has grown old.       *)
LEMMA ClaimChanges ==
  ASSUME TypesOK, NEW q \in Requests, Claim(q), requests[q].id \in Ids
  PROVE  LET k == requests[q].id IN
         /\ requests[q].pc = "recorded"
         /\ \/ /\ Claimable(rows[k]) /\ Moved(q, "claimed")
               /\ claims' = claims + 1 /\ OnlyRow(k)
               /\ rows'[k].started = claims' /\ ~rows'[k].old
               /\ rows'[k].processed = rows[k].processed /\ rows'[k].recorded = rows[k].recorded
            \/ ~Claimable(rows[k]) /\ Over(q, "accepted") /\ UNCHANGED <<rows, claims>>
         /\ UNCHANGED Tallies
<1>1. CASE Claimable(rows[requests[q].id])
  <2>1. Moved(q, "claimed") /\ claims' = claims + 1
    BY <1>1, ToChanges DEF Claim, Steps
  <2>2. rows' = [rows EXCEPT ![requests[q].id].started = claims',
                             ![requests[q].id].old = FALSE, ![requests[q].id].error = ""]
    BY <1>1 DEF Claim
  <2>3. claims' \in Nat
    BY <2>1 DEF TypesOK
  <2> DEFINE new == [rows[requests[q].id] EXCEPT !.started = claims', !.old = FALSE, !.error = ""]
  <2>4. /\ new \in Row /\ new.started = claims' /\ ~new.old
        /\ new.processed = rows[requests[q].id].processed
        /\ new.recorded = rows[requests[q].id].recorded
    BY <2>3 DEF TypesOK, Row, Errors, NoError
  <2>5. rows' = [rows EXCEPT ![requests[q].id] = new]
    BY <2>2 DEF TypesOK
  <2> HIDE DEF new
  <2>6. OnlyRow(requests[q].id) /\ rows'[requests[q].id] = new
    BY <2>4, <2>5 DEF TypesOK, OnlyRow
  <2>7. requests[q].pc = "recorded" /\ UNCHANGED Tallies
    BY DEF Claim, At, ledgerOnly, NoFault, Tallies
  <2> QED BY <1>1, <2>1, <2>4, <2>6, <2>7
<1>2. CASE ~Claimable(rows[requests[q].id])
  BY <1>2, AnswerChanges DEF Claim, At, ledgerOnly, NoFault, Tallies
<1> QED BY <1>1, <1>2

(* Reading the claim back is where a handler learns its token.             *)
LEMMA RereadChanges ==
  ASSUME TypesOK, NEW q \in Requests, Reread(q), requests[q].id \in Ids
  PROVE  /\ requests[q].pc = "claimed" /\ Kept(q)
         /\ requests'[q].token = rows[requests[q].id].started
         /\ IF requests[q].id \in Unsupported
              THEN requests'[q].pc = "done" /\ requests'[q].error = "unsupported"
              ELSE requests'[q].pc = "processing" /\ requests'[q].error = NoError
         /\ UNCHANGED <<rows, claims, Tallies>>
<1>1. rows[requests[q].id].started \in Nat
  BY DEF TypesOK, Row
<1> QED
  BY <1>1
  DEF TypesOK, Request, Steps, Working, Errors, NoError, Reread, At, Only, Kept, ledgerOnly,
              NoFault, Tallies

(* Process has one effect, or fails with or without it.                    *)
LEMMA ProcessChanges ==
  ASSUME TypesOK, NEW q \in Requests, Process(q), requests[q].id \in Ids
  PROVE  LET k == requests[q].id IN
         /\ requests[q].pc = "processing" /\ Kept(q) /\ requests'[q].token = requests[q].token
         /\ effects' \in [Ids -> Nat] /\ \A j \in Ids \ {k} : effects'[j] = effects[j]
         /\ \/ /\ requests'[q].pc = "done" /\ requests'[q].error = requests[q].error
               /\ effects'[k] = effects[k] + 1 /\ faults' = faults
            \/ /\ requests'[q].pc = "failed"
               /\ effects'[k] \in {effects[k], effects[k] + 1} /\ faults' = faults + 1
         /\ UNCHANGED <<rows, claims>>
<1>1. CASE To(q, "done") /\ effects' = [effects EXCEPT ![requests[q].id] = @ + 1] /\ NoFault
  BY <1>1, ToChanges DEF TypesOK, Process, At, Moved, Steps, Working, NoFault
<1>2. CASE /\ \/ effects' = [effects EXCEPT ![requests[q].id] = @ + 1]
              \/ UNCHANGED effects
           /\ requests' = [requests EXCEPT ![q].pc = "failed", ![q].error = "failed"]
           /\ Fault
  <2>1. Kept(q) /\ requests'[q].pc = "failed" /\ requests'[q].token = requests[q].token
    BY <1>2 DEF TypesOK, Request, Steps, Working, Errors, Only, Kept
  <2> QED BY <1>2, <2>1 DEF TypesOK, Process, At, Fault
<1> QED BY <1>1, <1>2 DEF Process

(* What is written of a released row, whichever way its handler reports.   *)
LEMMA ReleasedRow ==
  ASSUME NEW row \in Row, NEW e \in Errors, NEW b \in BOOLEAN
  PROVE  LET new == [Release(row, e) EXCEPT !.processed = b] IN
         /\ new \in Row /\ new.started = None /\ ~new.old
         /\ new.error = e /\ new.recorded = row.recorded
         /\ new.processed <=> b
<1> DEFINE free == Release(row, e)
<1>1. /\ free \in Row /\ free.started = None /\ ~free.old
      /\ free.error = e /\ free.recorded = row.recorded
  BY DEF Release, Row, None
<1> HIDE DEF free
<1>2. LET new == [free EXCEPT !.processed = b] IN
      /\ new \in Row /\ new.started = free.started /\ new.old = free.old
      /\ new.error = free.error /\ new.recorded = free.recorded
      /\ new.processed <=> b
  BY <1>1 DEF Row
<1> QED BY <1>1, <1>2 DEF free

(* Both ways to report release the claim, if it is still the handler's.    *)
LEMMA MarkChanges ==
  ASSUME TypesOK, NEW q \in Requests, requests[q].id \in Ids,
         MarkProcessed(q) \/ MarkProcessingFailed(q)
  PROVE  LET k == requests[q].id IN
         /\ MarkProcessed(q) => requests[q].pc = "done"
         /\ MarkProcessingFailed(q) => requests[q].pc = "failed"
         /\ MarkProcessed(q) /\ Holds(q) => Over(q, "accepted")
         /\ ~(MarkProcessed(q) /\ Holds(q)) => Over(q, "error")
         /\ IF Holds(q)
              THEN /\ OnlyRow(k) /\ rows'[k].started = None /\ ~rows'[k].old
                   /\ rows'[k].error = requests[q].error
                   /\ rows'[k].recorded = rows[k].recorded
                   /\ rows'[k].processed <=> MarkProcessed(q)
              ELSE UNCHANGED rows
         /\ UNCHANGED <<claims, Tallies>>
<1> DEFINE k == requests[q].id
           new(b) == [Release(rows[k], requests[q].error) EXCEPT !.processed = b]
<1>1. \A b \in BOOLEAN :
        /\ new(b) \in Row /\ new(b).started = None /\ ~new(b).old
        /\ new(b).error = requests[q].error /\ new(b).recorded = rows[k].recorded
        /\ new(b).processed <=> b
  <2>1. rows[k] \in Row /\ requests[q].error \in Errors
    BY DEF TypesOK, Request
  <2> HIDE DEF k
  <2> QED BY <2>1, ReleasedRow
<1>2. /\ \/ MarkProcessed(q) /\ requests[q].pc = "done" /\ ~MarkProcessingFailed(q)
         \/ MarkProcessingFailed(q) /\ requests[q].pc = "failed" /\ ~MarkProcessed(q)
      /\ UNCHANGED <<claims, Tallies>>
  BY DEF MarkProcessed, MarkProcessingFailed, At, ledgerOnly, NoFault, Tallies
<1>3. CASE Holds(q)
  <2>1. \/ MarkProcessed(q) /\ rows' = [rows EXCEPT ![k] = new(TRUE)] /\ Over(q, "accepted")
        \/ ~MarkProcessed(q) /\ rows' = [rows EXCEPT ![k] = new(FALSE)] /\ Over(q, "error")
    BY <1>2, <1>3, AnswerChanges DEF MarkProcessed, MarkProcessingFailed, TypesOK
  <2> HIDE DEF new
  <2>2. \/ MarkProcessed(q) /\ rows'[k] = new(TRUE) /\ OnlyRow(k) /\ Over(q, "accepted")
        \/ ~MarkProcessed(q) /\ rows'[k] = new(FALSE) /\ OnlyRow(k) /\ Over(q, "error")
    BY <1>1, <2>1 DEF TypesOK, OnlyRow
  <2>3. (new(TRUE).processed <=> TRUE) /\ (new(FALSE).processed <=> FALSE)
    BY <1>1
  <2>4. \A b \in BOOLEAN :
          /\ new(b).started = None /\ ~new(b).old
          /\ new(b).error = requests[q].error /\ new(b).recorded = rows[k].recorded
    BY <1>1
  <2> QED BY <1>2, <1>3, <2>2, <2>3, <2>4
<1>4. CASE ~Holds(q)
  <2>1. Over(q, "error")
    BY <1>2, <1>4, AnswerChanges DEF MarkProcessed, MarkProcessingFailed
  <2>2. UNCHANGED rows
    BY <1>2, <1>4 DEF MarkProcessed, MarkProcessingFailed, TypesOK
  <2> QED BY <1>2, <1>4, <2>1, <2>2
<1> QED BY <1>3, <1>4

(* A handler that is cut off is counted as a fault.                        *)
LEMMA HangupChanges ==
  ASSUME TypesOK, NEW q \in Requests, Hangup(q)
  PROVE  /\ requests[q].pc # "idle" /\ Over(q, "none")
         /\ faults' = faults + 1 /\ UNCHANGED <<rows, claims, effects>>
BY AnswerChanges DEF Hangup, Fault, ledgerOnly

(* A claim grows old, at a fault if its handler is still at it.            *)
LEMMA GrowsOldChanges ==
  ASSUME TypesOK, NEW k \in Ids, GrowsOld(k)
  PROVE  /\ rows[k].started # None /\ ~rows[k].old
         /\ \A q \in Requests : requests[q].id = k => requests[q].pc # "claimed"
         /\ OnlyRow(k) /\ rows'[k].old
         /\ rows'[k].recorded = rows[k].recorded /\ rows'[k].started = rows[k].started
         /\ rows'[k].processed = rows[k].processed /\ rows'[k].error = rows[k].error
         /\ IF InUse(k) THEN faults' = faults + 1 ELSE faults' = faults
         /\ UNCHANGED <<requests, claims, effects>>
BY DEF TypesOK, Row, GrowsOld, At, OnlyRow, Fault, NoFault, ledgerOnly
(* Past the door, a handler has a delivery.                                *)
LEMMA Named ==
  ASSUME RequestsFit, NEW q \in Requests
  PROVE  /\ requests[q].pc # "idle" => requests[q].id \in Ids
         /\ Insert(q) \/ Claim(q) \/ Reread(q) \/ Process(q)
              \/ MarkProcessed(q) \/ MarkProcessingFailed(q) => requests[q].id \in Ids
BY DEF RequestsFit, RequestFits, At, Insert, Claim, Reread, Process, MarkProcessed,
       MarkProcessingFailed

(* The fields of rows and handlers, one by one.                            *)
LEMMA Fields ==
  ASSUME TypesOK
  PROVE  /\ claims \in Nat /\ faults \in Nat
         /\ \A k \in Ids :
              /\ rows[k].recorded \in BOOLEAN /\ rows[k].started \in Nat /\ rows[k].old \in BOOLEAN
              /\ rows[k].processed \in BOOLEAN /\ rows[k].error \in Errors /\ effects[k] \in Nat
         /\ \A q \in Requests :
              /\ requests[q].pc \in Steps /\ requests[q].id \in Ids \cup {NoId}
              /\ requests[q].token \in Nat /\ requests[q].error \in Errors
              /\ requests[q].answer \in {"none", "accepted", "error"}
BY DEF TypesOK, Row, Request

(* What a step does not concern stays fit.                                 *)
LEMMA RowKept ==
  ASSUME TypesOK, NEW j \in Ids, RowFits(j), rows'[j] = rows[j], effects'[j] = effects[j],
         claims' \in {claims, claims + 1}
  PROVE  RowFits(j)'
<1>1. claims \in Nat /\ claims' \in Nat /\ claims <= claims' /\ rows[j].started \in Nat
  BY Fields
<1> QED BY <1>1 DEF RowFits, None

LEMMA RequestKept ==
  ASSUME TypesOK, NEW p \in Requests, RequestFits(p), requests'[p] = requests[p],
         claims' \in {claims, claims + 1},
         \A j \in Ids : /\ rows[j].recorded => rows'[j].recorded
                        /\ effects'[j] \in {effects[j], effects[j] + 1}
  PROVE  RequestFits(p)'
<1>1. claims \in Nat /\ claims' \in Nat /\ claims <= claims' /\ requests[p].token \in Nat
  BY Fields
<1>2. \A j \in Ids : effects[j] \in Nat /\ effects'[j] \in Nat /\ effects[j] <= effects'[j]
  BY Fields
<1> QED BY <1>1, <1>2 DEF RequestFits, Working, None

(* The domains.                                                            *)
LEMMA TypesStep ==
  ASSUME TypesOK, RequestsFit, [Next]_vars
  PROVE  TypesOK'
<1> SUFFICES ASSUME Next PROVE TypesOK'
  BY DEF vars, TypesOK, Only, Kept, Moved, Over, OnlyRow, Tallies
<1>1. ASSUME NEW q \in Requests, NEW k \in Ids, Post(q, k) PROVE TypesOK'
  BY <1>1, PostChanges DEF TypesOK, Only, Kept, Moved, Over, OnlyRow, Tallies
<1>2. ASSUME NEW q \in Requests, Verify(q) \/ Find(q) PROVE TypesOK'
  BY <1>2, ReadChanges DEF TypesOK, Only, Kept, Moved, Over, OnlyRow, Tallies
<1>3. ASSUME NEW q \in Requests, Insert(q) PROVE TypesOK'
  BY <1>3, InsertChanges, Named DEF TypesOK, Only, Kept, Moved, Over, OnlyRow, Tallies
<1>4. ASSUME NEW q \in Requests, Claim(q) PROVE TypesOK'
  BY <1>4, ClaimChanges, Named DEF TypesOK, Only, Kept, Moved, Over, OnlyRow, Tallies
<1>5. ASSUME NEW q \in Requests, Reread(q) PROVE TypesOK'
  BY <1>5, RereadChanges, Named DEF TypesOK, Only, Kept, Moved, Over, OnlyRow, Tallies
<1>6. ASSUME NEW q \in Requests, Process(q) PROVE TypesOK'
  BY <1>6, ProcessChanges, Named DEF TypesOK, Only, Kept, Moved, Over, OnlyRow, Tallies
<1>7. ASSUME NEW q \in Requests, MarkProcessed(q) \/ MarkProcessingFailed(q) PROVE TypesOK'
  BY <1>7, MarkChanges, Named DEF TypesOK, Only, Kept, Moved, Over, OnlyRow, Tallies
<1>8. ASSUME NEW q \in Requests, Hangup(q) PROVE TypesOK'
  BY <1>8, HangupChanges DEF TypesOK, Only, Kept, Moved, Over, OnlyRow, Tallies
<1>9. ASSUME NEW k \in Ids, GrowsOld(k) PROVE TypesOK'
  BY <1>9, GrowsOldChanges DEF TypesOK, Only, Kept, Moved, Over, OnlyRow, Tallies
<1>10. ASSUME Rotate PROVE TypesOK'
  BY <1>10 DEF Rotate, TypesOK, Only, Kept, Moved, Over, OnlyRow, Tallies
<1> QED BY <1>1, <1>2, <1>3, <1>4, <1>5, <1>6, <1>7, <1>8, <1>9,
  <1>10 DEF Next, Handler

(* Rows stay fit: the step that writes one keeps what a row says.          *)
LEMMA RowsStep ==
  ASSUME TypesOK, RowsFit, RequestsFit, [Next]_vars
  PROVE  RowsFit'
<1> SUFFICES ASSUME Next PROVE RowsFit'
  BY DEF vars, RowsFit, RowFits
<1>1. ASSUME NEW q \in Requests, NEW k \in Ids, Post(q, k) PROVE RowsFit'
  <2>1. UNCHANGED <<rows, claims, effects>>
    BY <1>1, PostChanges DEF Tallies
  <2> QED BY <2>1 DEF RowsFit, RowFits
<1>2. ASSUME NEW q \in Requests, Verify(q) \/ Find(q) PROVE RowsFit'
  <2>1. UNCHANGED <<rows, claims, effects>>
    BY <1>2, ReadChanges DEF Tallies
  <2> QED BY <2>1 DEF RowsFit, RowFits
<1>3. ASSUME NEW q \in Requests, Insert(q) PROVE RowsFit'
  <2> SUFFICES ASSUME NEW j \in Ids PROVE RowFits(j)'
    BY DEF RowsFit
  <2>1. RowFits(j) /\ RequestFits(q)
    BY DEF RowsFit, RequestsFit
  <2>2. CASE j = requests[q].id
    <3>1. CASE rows'[j] = rows[j]
      BY <1>3, <2>1, <2>2, <3>1, InsertChanges, Named, RowKept DEF Tallies
    <3>2. CASE rows'[j] # rows[j]
      <4>1. /\ rows'[j].recorded /\ rows'[j].started = None /\ ~rows'[j].processed
            /\ claims' = claims /\ effects' = effects
        BY <1>3, <2>2, <3>2, InsertChanges, Named DEF Tallies
      <4>2. claims \in Nat
        BY Fields
      <4> QED BY <2>1, <4>1, <4>2 DEF RowFits, None
    <3> QED BY <3>1, <3>2
  <2>3. CASE j # requests[q].id
    <3>1. rows'[j] = rows[j] /\ effects'[j] = effects[j] /\ claims' \in {claims, claims + 1}
      BY <1>3, <2>3, InsertChanges, Named DEF OnlyRow, Tallies
    <3> QED BY <2>1, <3>1, RowKept
  <2> QED BY <2>2, <2>3
<1>4. ASSUME NEW q \in Requests, Claim(q) PROVE RowsFit'
  <2> SUFFICES ASSUME NEW j \in Ids PROVE RowFits(j)'
    BY DEF RowsFit
  <2>1. RowFits(j) /\ RequestFits(q)
    BY DEF RowsFit, RequestsFit
  <2>2. CASE j = requests[q].id
    <3>1. CASE ~Claimable(rows[j])
      BY <1>4, <2>1, <2>2, <3>1, ClaimChanges, Named, RowKept DEF Tallies
    <3>2. CASE Claimable(rows[j])
      <4>1. requests[q].pc = "recorded" /\ rows[j].recorded
        BY <1>4, <2>1, <2>2, ClaimChanges, Named DEF RequestFits
      <4>2. claims \in Nat /\ claims' = claims + 1
        BY <1>4, <2>2, <3>2, Fields, ClaimChanges, Named
      <4>3. /\ rows'[j].recorded /\ rows'[j].started = claims' /\ ~rows'[j].processed
            /\ effects' = effects
        BY <1>4, <2>2, <3>2, <4>1, ClaimChanges, Named DEF Claimable, Tallies
      <4> QED BY <4>2, <2>1, <4>3 DEF RowFits, None
    <3> QED BY <3>1, <3>2
  <2>3. CASE j # requests[q].id
    <3>1. rows'[j] = rows[j] /\ effects'[j] = effects[j] /\ claims' \in {claims, claims + 1}
      BY <1>4, <2>3, ClaimChanges, Named DEF OnlyRow, Tallies
    <3> QED BY <2>1, <3>1, RowKept
  <2> QED BY <2>2, <2>3
<1>5. ASSUME NEW q \in Requests, Reread(q) PROVE RowsFit'
  <2>1. UNCHANGED <<rows, claims, effects>>
    BY <1>5, RereadChanges, Named DEF Tallies
  <2> QED BY <2>1 DEF RowsFit, RowFits
<1>6. ASSUME NEW q \in Requests, Process(q) PROVE RowsFit'
  <2> SUFFICES ASSUME NEW j \in Ids PROVE RowFits(j)'
    BY DEF RowsFit
  <2>1. RowFits(j) /\ RequestFits(q)
    BY DEF RowsFit, RequestsFit
  <2>2. CASE j = requests[q].id
    <3>1. effects[j] \in Nat /\ effects'[j] \in {effects[j], effects[j] + 1} /\ claims \in Nat
      BY <1>6, <2>2, Fields, ProcessChanges, Named
    <3>2. j \notin Unsupported /\ UNCHANGED <<rows, claims>>
      BY <1>6, <2>1, <2>2, ProcessChanges, Named DEF RequestFits
    <3> QED BY <3>1, <3>2, <2>1 DEF RowFits, None
  <2>3. CASE j # requests[q].id
    <3>1. rows'[j] = rows[j] /\ effects'[j] = effects[j] /\ claims' \in {claims, claims + 1}
      BY <1>6, <2>3, ProcessChanges, Named DEF OnlyRow, Tallies
    <3> QED BY <2>1, <3>1, RowKept
  <2> QED BY <2>2, <2>3
<1>7. ASSUME NEW q \in Requests, MarkProcessed(q) \/ MarkProcessingFailed(q) PROVE RowsFit'
  <2> SUFFICES ASSUME NEW j \in Ids PROVE RowFits(j)'
    BY DEF RowsFit
  <2>1. RowFits(j) /\ RequestFits(q)
    BY DEF RowsFit, RequestsFit
  <2>2. CASE j = requests[q].id
    <3>1. CASE ~Holds(q)
      BY <1>7, <2>1, <2>2, <3>1, MarkChanges, Named, RowKept DEF Tallies
    <3>2. CASE Holds(q)
      <4>1. /\ requests[q].pc \in {"done", "failed"} /\ rows[j].recorded
            /\ MarkProcessed(q) => requests[q].pc = "done"
        BY <1>7, <2>1, <2>2, MarkChanges, Named DEF RequestFits, Working
      <4>2. /\ rows'[j].started = None /\ rows'[j].recorded
            /\ rows'[j].error = requests[q].error
            /\ \/ rows'[j].processed /\ requests[q].pc = "done"
               \/ ~rows'[j].processed
            /\ claims' = claims /\ effects' = effects
        BY <1>7, <2>2, <3>2, <4>1, MarkChanges, Named DEF Tallies
      <4>3. claims \in Nat
        BY Fields
      <4> QED BY <4>3, <2>1, <2>2, <4>1, <4>2 DEF RowFits, RequestFits, None
    <3> QED BY <3>1, <3>2
  <2>3. CASE j # requests[q].id
    <3>1. rows'[j] = rows[j] /\ effects'[j] = effects[j] /\ claims' \in {claims, claims + 1}
      BY <1>7, <2>3, MarkChanges, Named DEF OnlyRow, Tallies
    <3> QED BY <2>1, <3>1, RowKept
  <2> QED BY <2>2, <2>3
<1>8. ASSUME NEW q \in Requests, Hangup(q) PROVE RowsFit'
  <2>1. UNCHANGED <<rows, claims, effects>>
    BY <1>8, HangupChanges DEF Tallies
  <2> QED BY <2>1 DEF RowsFit, RowFits
<1>9. ASSUME NEW k \in Ids, GrowsOld(k) PROVE RowsFit'
  <2> SUFFICES ASSUME NEW j \in Ids PROVE RowFits(j)'
    BY DEF RowsFit
  <2>1. RowFits(j)
    BY DEF RowsFit, RequestsFit
  <2>2. CASE j = k
    <3>1. rows[j].recorded
      <4>1. NoRow.started = None
        BY DEF NoRow
      <4> QED BY <1>9, <2>1, <2>2, <4>1, GrowsOldChanges DEF RowFits
    <3>2. /\ rows'[j].recorded = rows[j].recorded /\ rows'[j].started = rows[j].started
          /\ rows'[j].processed = rows[j].processed /\ rows'[j].error = rows[j].error
          /\ claims' = claims /\ effects' = effects
      BY <1>9, <2>2, GrowsOldChanges
    <3>3. claims \in Nat /\ rows[j].recorded \in BOOLEAN /\ rows[j].processed \in BOOLEAN
      BY Fields
    <3> QED BY <3>3, <3>1, <3>2, <2>1 DEF RowFits, None
  <2>3. CASE j # k
    <3>1. rows'[j] = rows[j] /\ effects'[j] = effects[j] /\ claims' \in {claims, claims + 1}
      BY <1>9, <2>3, GrowsOldChanges DEF OnlyRow, Tallies
    <3> QED BY <2>1, <3>1, RowKept
  <2> QED BY <2>2, <2>3
<1>10. ASSUME Rotate PROVE RowsFit'
  BY <1>10 DEF Rotate, RowsFit, RowFits
<1> QED BY <1>1, <1>2, <1>3, <1>4, <1>5, <1>6, <1>7, <1>8, <1>9,
  <1>10 DEF Next, Handler

(* Handlers stay fit: the others lose nothing by a step of one of them.    *)
LEMMA RequestsStep ==
  ASSUME TypesOK, RowsFit, RequestsFit, ClaimsFit, [Next]_vars
  PROVE  RequestsFit'
<1> SUFFICES ASSUME Next PROVE RequestsFit'
  BY DEF vars, RequestsFit, RequestFits, Working
<1>1. ASSUME NEW q \in Requests, NEW k \in Ids, Post(q, k) PROVE RequestsFit'
  <2> SUFFICES ASSUME NEW p \in Requests PROVE RequestFits(p)'
    BY DEF RequestsFit
  <2>1. RequestFits(p) /\ RequestFits(q) /\ (\A j \in Ids : RowFits(j)) /\ ClaimFits(q, q)
    BY DEF RequestsFit, RowsFit, ClaimsFit
  <2>2. CASE p = q
    BY <1>1, <2>1, <2>2, Fields, PostChanges DEF RequestFits, None, Working, Only, Tallies
  <2>3. CASE p # q
    <3>1. /\ requests'[p] = requests[p] /\ claims' \in {claims, claims + 1}
          /\ \A j \in Ids : /\ rows[j].recorded => rows'[j].recorded
                            /\ effects'[j] \in {effects[j], effects[j] + 1}
      BY <1>1, <2>1, <2>3, Fields, PostChanges DEF RequestFits, Working, Only, Tallies
    <3> QED BY <2>1, <3>1, RequestKept
  <2> QED BY <2>2, <2>3
<1>2. ASSUME NEW q \in Requests, Verify(q) \/ Find(q) PROVE RequestsFit'
  <2> SUFFICES ASSUME NEW p \in Requests PROVE RequestFits(p)'
    BY DEF RequestsFit
  <2>1. RequestFits(p) /\ RequestFits(q) /\ (\A j \in Ids : RowFits(j)) /\ ClaimFits(q, q)
    BY DEF RequestsFit, RowsFit, ClaimsFit
  <2>2. CASE p = q
    BY <1>2, <2>1, <2>2, Fields, ReadChanges
    DEF RequestFits, None, Working, Only, Kept, Moved, Over, Tallies
  <2>3. CASE p # q
    <3>1. /\ requests'[p] = requests[p] /\ claims' \in {claims, claims + 1}
          /\ \A j \in Ids : /\ rows[j].recorded => rows'[j].recorded
                            /\ effects'[j] \in {effects[j], effects[j] + 1}
      BY <1>2, <2>1, <2>3, Fields, ReadChanges
      DEF RequestFits, Working, Only, Kept, Moved, Over, Tallies
    <3> QED BY <2>1, <3>1, RequestKept
  <2> QED BY <2>2, <2>3
<1>3. ASSUME NEW q \in Requests, Insert(q) PROVE RequestsFit'
  <2> SUFFICES ASSUME NEW p \in Requests PROVE RequestFits(p)'
    BY DEF RequestsFit
  <2>1. RequestFits(p) /\ RequestFits(q) /\ (\A j \in Ids : RowFits(j)) /\ ClaimFits(q, q)
    BY DEF RequestsFit, RowsFit, ClaimsFit
  <2>2. CASE p = q
    BY <1>3, <2>1, <2>2, Fields, InsertChanges, Named
    DEF RequestFits, None, Working, Only, Kept, Moved, OnlyRow, Tallies
  <2>3. CASE p # q
    <3>1. /\ requests'[p] = requests[p] /\ claims' \in {claims, claims + 1}
          /\ \A j \in Ids : /\ rows[j].recorded => rows'[j].recorded
                            /\ effects'[j] \in {effects[j], effects[j] + 1}
      BY <1>3, <2>1, <2>3, Fields, InsertChanges, Named
      DEF RequestFits, Working, Only, Kept, Moved, OnlyRow, Tallies
    <3> QED BY <2>1, <3>1, RequestKept
  <2> QED BY <2>2, <2>3
<1>4. ASSUME NEW q \in Requests, Claim(q) PROVE RequestsFit'
  <2> SUFFICES ASSUME NEW p \in Requests PROVE RequestFits(p)'
    BY DEF RequestsFit
  <2>1. RequestFits(p) /\ RequestFits(q) /\ (\A j \in Ids : RowFits(j)) /\ ClaimFits(q, q)
    BY DEF RequestsFit, RowsFit, ClaimsFit
  <2>2. CASE p = q
    BY <1>4, <2>1, <2>2, Fields, ClaimChanges, Named
    DEF RequestFits, None, Working, Only, Kept, Moved, Over, OnlyRow, Tallies
  <2>3. CASE p # q
    <3>1. /\ requests'[p] = requests[p] /\ claims' \in {claims, claims + 1}
          /\ \A j \in Ids : /\ rows[j].recorded => rows'[j].recorded
                            /\ effects'[j] \in {effects[j], effects[j] + 1}
      BY <1>4, <2>1, <2>3, Fields, ClaimChanges, Named
      DEF RequestFits, Working, Only, Kept, Moved, Over, OnlyRow, Tallies
    <3> QED BY <2>1, <3>1, RequestKept
  <2> QED BY <2>2, <2>3
<1>5. ASSUME NEW q \in Requests, Reread(q) PROVE RequestsFit'
  <2> SUFFICES ASSUME NEW p \in Requests PROVE RequestFits(p)'
    BY DEF RequestsFit
  <2>1. RequestFits(p) /\ RequestFits(q) /\ (\A j \in Ids : RowFits(j)) /\ ClaimFits(q, q)
    BY DEF RequestsFit, RowsFit, ClaimsFit
  <2>2. CASE p = q
    <3>1. requests[q].pc = "claimed" /\ requests[q].id \in Ids /\ rows[requests[q].id].started # None
      BY <1>5, <2>1, RereadChanges, Named DEF ClaimFits
    <3>2. /\ rows[requests[q].id].started \in Nat /\ claims \in Nat /\ claims' = claims
          /\ requests'[q].token = rows[requests[q].id].started /\ requests'[q].id = requests[q].id
          /\ requests'[q].answer = requests[q].answer /\ rows' = rows
      BY <1>5, <3>1, Fields, RereadChanges DEF Kept
    <3>3. IF requests[q].id \in Unsupported
            THEN requests'[q].pc = "done" /\ requests'[q].error # NoError
            ELSE requests'[q].pc = "processing" /\ requests'[q].error = NoError
      BY <1>5, <3>1, RereadChanges DEF NoError
    <3> QED BY <3>2, <3>1, <3>3, <2>1, <2>2 DEF RequestFits, RowFits, None, Working
  <2>3. CASE p # q
    <3>1. requests'[p] = requests[p] /\ UNCHANGED <<rows, claims, effects>>
      BY <1>5, <2>3, RereadChanges, Named DEF Kept, Only, Tallies
    <3> QED BY <2>1, <3>1, Fields, RequestKept
  <2> QED BY <2>2, <2>3
<1>6. ASSUME NEW q \in Requests, Process(q) PROVE RequestsFit'
  <2> SUFFICES ASSUME NEW p \in Requests PROVE RequestFits(p)'
    BY DEF RequestsFit
  <2>1. RequestFits(p) /\ RequestFits(q) /\ (\A j \in Ids : RowFits(j)) /\ ClaimFits(q, q)
    BY DEF RequestsFit, RowsFit, ClaimsFit
  <2>2. CASE p = q
    BY <1>6, <2>1, <2>2, Fields, ProcessChanges, Named
    DEF RequestFits, None, Working, Only, Kept
  <2>3. CASE p # q
    <3>1. /\ requests'[p] = requests[p] /\ claims' \in {claims, claims + 1}
          /\ \A j \in Ids : /\ rows[j].recorded => rows'[j].recorded
                            /\ effects'[j] \in {effects[j], effects[j] + 1}
      BY <1>6, <2>1, <2>3, Fields, ProcessChanges, Named DEF RequestFits, Working, Only, Kept
    <3> QED BY <2>1, <3>1, RequestKept
  <2> QED BY <2>2, <2>3
<1>7. ASSUME NEW q \in Requests, MarkProcessed(q) \/ MarkProcessingFailed(q) PROVE RequestsFit'
  <2> SUFFICES ASSUME NEW p \in Requests PROVE RequestFits(p)'
    BY DEF RequestsFit
  <2>1. RequestFits(p) /\ RequestFits(q) /\ (\A j \in Ids : RowFits(j)) /\ ClaimFits(q, q)
    BY DEF RequestsFit, RowsFit, ClaimsFit
  <2>2. CASE p = q
    BY <1>7, <2>1, <2>2, Fields, MarkChanges, Named
    DEF RequestFits, None, Working, Only, Over, OnlyRow, Tallies
  <2>3. CASE p # q
    <3>1. /\ requests'[p] = requests[p] /\ claims' \in {claims, claims + 1}
          /\ \A j \in Ids : /\ rows[j].recorded => rows'[j].recorded
                            /\ effects'[j] \in {effects[j], effects[j] + 1}
      BY <1>7, <2>1, <2>3, Fields, MarkChanges, Named
      DEF RequestFits, Working, Only, Over, OnlyRow, Tallies
    <3> QED BY <2>1, <3>1, RequestKept
  <2> QED BY <2>2, <2>3
<1>8. ASSUME NEW q \in Requests, Hangup(q) PROVE RequestsFit'
  <2> SUFFICES ASSUME NEW p \in Requests PROVE RequestFits(p)'
    BY DEF RequestsFit
  <2>1. RequestFits(p) /\ RequestFits(q) /\ (\A j \in Ids : RowFits(j)) /\ ClaimFits(q, q)
    BY DEF RequestsFit, RowsFit, ClaimsFit
  <2>2. CASE p = q
    BY <1>8, <2>1, <2>2, Fields, HangupChanges DEF RequestFits, None, Working, Only, Over
  <2>3. CASE p # q
    <3>1. /\ requests'[p] = requests[p] /\ claims' \in {claims, claims + 1}
          /\ \A j \in Ids : /\ rows[j].recorded => rows'[j].recorded
                            /\ effects'[j] \in {effects[j], effects[j] + 1}
      BY <1>8, <2>1, <2>3, Fields, HangupChanges DEF RequestFits, Working, Only, Over
    <3> QED BY <2>1, <3>1, RequestKept
  <2> QED BY <2>2, <2>3
<1>9. ASSUME NEW k \in Ids, GrowsOld(k) PROVE RequestsFit'
  <2>1. /\ UNCHANGED <<requests, claims, effects>>
        /\ \A j \in Ids : rows'[j].recorded = rows[j].recorded
    BY <1>9, GrowsOldChanges DEF OnlyRow
  <2> QED BY <2>1 DEF RequestsFit, RequestFits, Working
<1>10. ASSUME Rotate PROVE RequestsFit'
  BY <1>10 DEF Rotate, RequestsFit, RequestFits, Working
<1> QED BY <1>1, <1>2, <1>3, <1>4, <1>5, <1>6, <1>7, <1>8, <1>9,
  <1>10 DEF Next, Handler

(* Claims stay apart: a new one is newer than all, and one that was read is*)
(* not read again.                                                         *)
LEMMA ClaimsStep ==
  ASSUME TypesOK, RowsFit, RequestsFit, ClaimsFit, [Next]_vars
  PROVE  ClaimsFit'
<1> SUFFICES ASSUME Next PROVE ClaimsFit'
  BY DEF vars, ClaimsFit, ClaimFits
<1>1. ASSUME NEW q \in Requests, NEW k \in Ids, Post(q, k) PROVE ClaimsFit'
  <2> SUFFICES ASSUME NEW p \in Requests, NEW r \in Requests PROVE ClaimFits(p, r)'
    BY DEF ClaimsFit
  <2>1. /\ RequestFits(p) /\ RequestFits(q) /\ RequestFits(r) /\ \A j \in Ids : RowFits(j)
        /\ ClaimFits(p, r) /\ ClaimFits(p, p) /\ ClaimFits(r, r) 
        /\ ClaimFits(p, q) /\ ClaimFits(q, p) /\ ClaimFits(q, r)
    BY DEF RequestsFit, RowsFit, ClaimsFit
  <2> QED
    BY <1>1, <2>1, Fields, PostChanges
    DEF ClaimFits, RequestFits, None, Working, Only, Tallies
<1>2. ASSUME NEW q \in Requests, Verify(q) \/ Find(q) PROVE ClaimsFit'
  <2> SUFFICES ASSUME NEW p \in Requests, NEW r \in Requests PROVE ClaimFits(p, r)'
    BY DEF ClaimsFit
  <2>1. /\ RequestFits(p) /\ RequestFits(q) /\ RequestFits(r) /\ \A j \in Ids : RowFits(j)
        /\ ClaimFits(p, r) /\ ClaimFits(p, p) /\ ClaimFits(r, r) 
        /\ ClaimFits(p, q) /\ ClaimFits(q, p) /\ ClaimFits(q, r)
    BY DEF RequestsFit, RowsFit, ClaimsFit
  <2> QED
    BY <1>2, <2>1, Fields, ReadChanges, Named
    DEF ClaimFits, RequestFits, None, Working, Only, Kept, Moved, Over, Tallies
<1>3. ASSUME NEW q \in Requests, Insert(q) PROVE ClaimsFit'
  <2> SUFFICES ASSUME NEW p \in Requests, NEW r \in Requests PROVE ClaimFits(p, r)'
    BY DEF ClaimsFit
  <2>1. /\ RequestFits(p) /\ RequestFits(q) /\ RequestFits(r) /\ \A j \in Ids : RowFits(j)
        /\ ClaimFits(p, r) /\ ClaimFits(p, p) /\ ClaimFits(r, r) 
        /\ ClaimFits(p, q) /\ ClaimFits(q, p) /\ ClaimFits(q, r)
    BY DEF RequestsFit, RowsFit, ClaimsFit
  <2> QED
    BY <1>3, <2>1, Fields, InsertChanges, Named
    DEF ClaimFits, RequestFits, None, Working, Only, Kept, Moved, OnlyRow, Tallies
<1>4. ASSUME NEW q \in Requests, Claim(q) PROVE ClaimsFit'
  <2> SUFFICES ASSUME NEW p \in Requests, NEW r \in Requests PROVE ClaimFits(p, r)'
    BY DEF ClaimsFit
  <2>1. /\ RequestFits(p) /\ RequestFits(q) /\ RequestFits(r) /\ \A j \in Ids : RowFits(j)
        /\ ClaimFits(p, r) /\ ClaimFits(p, p) /\ ClaimFits(r, r) 
        /\ ClaimFits(p, q) /\ ClaimFits(q, p) /\ ClaimFits(q, r)
    BY DEF RequestsFit, RowsFit, ClaimsFit
  <2>2. CASE ~Claimable(rows[requests[q].id])
    BY <1>4, <2>1, <2>2, Fields, ClaimChanges, Named
    DEF ClaimFits, RequestFits, None, Working, Only, Over
  <2>3. CASE Claimable(rows[requests[q].id])
    <3>1. /\ claims \in Nat /\ claims' = claims + 1
          /\ requests[p].token \in Nat /\ requests[r].token \in Nat
          /\ requests[p].token <= claims /\ requests[r].token <= claims
      BY <1>4, <2>1, <2>3, Fields, ClaimChanges, Named DEF RequestFits
    <3>2. /\ requests'[p].id = requests[p].id /\ requests'[r].id = requests[r].id
          /\ requests'[p].token = requests[p].token /\ requests'[r].token = requests[r].token
          /\ requests'[q].pc = "claimed" /\ requests[q].token = None
          /\ p # q => requests'[p].pc = requests[p].pc
          /\ r # q => requests'[r].pc = requests[r].pc
      BY <1>4, <2>1, <2>3, ClaimChanges, Named DEF Moved, Kept, Only, RequestFits, Working
    <3>3. /\ \A j \in Ids \ {requests[q].id} : rows'[j] = rows[j]
          /\ rows'[requests[q].id].started = claims' /\ ~rows'[requests[q].id].old
          /\ rows[requests[q].id].started = None \/ rows[requests[q].id].old
          /\ requests[q].id \in Ids
          /\ requests[p].pc = "claimed" => requests[p].id \in Ids
      BY <1>4, <2>1, <2>3, ClaimChanges, Named DEF OnlyRow, Claimable
    <3>4. /\ requests[p].id = requests[q].id => requests[p].pc # "claimed"
          /\ requests[r].id = requests[q].id => requests[r].pc # "claimed"
      BY <3>3, <2>1 DEF ClaimFits
    <3>5. requests[p].pc = "claimed" => rows'[requests[p].id] = rows[requests[p].id]
      BY <3>3, <3>4
    <3>6. CASE p = q
      BY <3>1, <3>2, <3>3, <3>4, <3>6, <2>1 DEF ClaimFits, None
    <3>7. CASE p # q
      BY <3>1, <3>2, <3>3, <3>4, <3>5, <3>7, <2>1 DEF ClaimFits, None
    <3> QED BY <3>6, <3>7
  <2> QED BY <2>2, <2>3
<1>5. ASSUME NEW q \in Requests, Reread(q) PROVE ClaimsFit'
  <2> SUFFICES ASSUME NEW p \in Requests, NEW r \in Requests PROVE ClaimFits(p, r)'
    BY DEF ClaimsFit
  <2>1. /\ RequestFits(p) /\ RequestFits(q) /\ RequestFits(r) /\ \A j \in Ids : RowFits(j)
        /\ ClaimFits(p, r) /\ ClaimFits(p, p) /\ ClaimFits(r, r) 
        /\ ClaimFits(p, q) /\ ClaimFits(q, p) /\ ClaimFits(q, r)
    BY DEF RequestsFit, RowsFit, ClaimsFit
  <2>2. /\ requests[q].pc = "claimed" /\ requests[q].id \in Ids
        /\ requests'[q].id = requests[q].id /\ requests'[q].pc # "claimed"
        /\ requests'[q].token = rows[requests[q].id].started
        /\ p # q => requests'[p] = requests[p]
        /\ r # q => requests'[r] = requests[r]
        /\ rows' = rows
    BY <1>5, RereadChanges, Named DEF Kept, Only
  <2> QED BY <2>1, <2>2 DEF ClaimFits
<1>6. ASSUME NEW q \in Requests, Process(q) PROVE ClaimsFit'
  <2> SUFFICES ASSUME NEW p \in Requests, NEW r \in Requests PROVE ClaimFits(p, r)'
    BY DEF ClaimsFit
  <2>1. /\ RequestFits(p) /\ RequestFits(q) /\ RequestFits(r) /\ \A j \in Ids : RowFits(j)
        /\ ClaimFits(p, r) /\ ClaimFits(p, p) /\ ClaimFits(r, r) 
        /\ ClaimFits(p, q) /\ ClaimFits(q, p) /\ ClaimFits(q, r)
    BY DEF RequestsFit, RowsFit, ClaimsFit
  <2> QED
    BY <1>6, <2>1, Fields, ProcessChanges, Named
    DEF ClaimFits, RequestFits, None, Working, Only, Kept
<1>7. ASSUME NEW q \in Requests, MarkProcessed(q) \/ MarkProcessingFailed(q) PROVE ClaimsFit'
  <2> SUFFICES ASSUME NEW p \in Requests, NEW r \in Requests PROVE ClaimFits(p, r)'
    BY DEF ClaimsFit
  <2>1. /\ RequestFits(p) /\ RequestFits(q) /\ RequestFits(r) /\ \A j \in Ids : RowFits(j)
        /\ ClaimFits(p, r) /\ ClaimFits(p, p) /\ ClaimFits(r, r) 
        /\ ClaimFits(p, q) /\ ClaimFits(q, p) /\ ClaimFits(q, r)
    BY DEF RequestsFit, RowsFit, ClaimsFit
  <2> QED
    BY <1>7, <2>1, Fields, MarkChanges, Named
    DEF ClaimFits, RequestFits, Holds, None, Working, Only, Over, OnlyRow, Tallies
<1>8. ASSUME NEW q \in Requests, Hangup(q) PROVE ClaimsFit'
  <2> SUFFICES ASSUME NEW p \in Requests, NEW r \in Requests PROVE ClaimFits(p, r)'
    BY DEF ClaimsFit
  <2>1. /\ RequestFits(p) /\ RequestFits(q) /\ RequestFits(r) /\ \A j \in Ids : RowFits(j)
        /\ ClaimFits(p, r) /\ ClaimFits(p, p) /\ ClaimFits(r, r) 
        /\ ClaimFits(p, q) /\ ClaimFits(q, p) /\ ClaimFits(q, r)
    BY DEF RequestsFit, RowsFit, ClaimsFit
  <2> QED
    BY <1>8, <2>1, Fields, HangupChanges, Named
    DEF ClaimFits, RequestFits, None, Working, Only, Over
<1>9. ASSUME NEW k \in Ids, GrowsOld(k) PROVE ClaimsFit'
  <2>1. /\ UNCHANGED requests
        /\ \A p \in Requests : requests[p].pc = "claimed" => rows'[requests[p].id] = rows[requests[p].id]
    BY <1>9, GrowsOldChanges, Named DEF OnlyRow
  <2> QED BY <2>1 DEF ClaimsFit, ClaimFits
<1>10. ASSUME Rotate PROVE ClaimsFit'
  BY <1>10 DEF Rotate, ClaimsFit, ClaimFits
<1> QED BY <1>1, <1>2, <1>3, <1>4, <1>5, <1>6, <1>7, <1>8, <1>9,
  <1>10 DEF Next, Handler

-----------------------------------------------------------------------------
(* The handlers that may still have an effect are finitely many.           *)
LEMMA PendingIsFinite ==
  ASSUME NEW k \in Ids
  PROVE  IsFiniteSet(Pending(k)) /\ Cardinality(Pending(k)) \in Nat
<1>1. Pending(k) \subseteq Requests
  BY DEF Pending
<1> QED BY <1>1, FS_Subset, FS_CardinalityType, DeliveryAssumption

(* The claim that may still be made counts for one effect at most.         *)
LEMMA SpareIsSmall == \A k \in Ids : /\ Spare(k) \in {0, 1}
                                     /\ Settled(k) => Spare(k) = 0
                                     /\ ~Settled(k) => Spare(k) = 1
BY DEF Spare

(* What is owed does not grow when no handler comes to an effect, and a    *)
(* settled row comes open by a fault only.                                 *)
LEMMA OwedKept ==
  ASSUME TypesOK, NEW k \in Ids, Owed(k), effects'[k] = effects[k],
         Pending(k)' \subseteq Pending(k),
         \/ faults' = faults /\ (Settled(k) => Settled(k)')
         \/ faults' = faults + 1
  PROVE  Owed(k)'
<1>1. /\ effects[k] \in Nat /\ faults \in Nat
      /\ Cardinality(Pending(k)) \in Nat /\ Cardinality(Pending(k)') \in Nat
      /\ Cardinality(Pending(k)') <= Cardinality(Pending(k))
  BY Fields, PendingIsFinite, FS_Subset, FS_CardinalityType
<1>2. /\ Spare(k) \in {0, 1} /\ Spare(k)' \in {0, 1}
      /\ Settled(k) => Spare(k) = 0
      /\ ~Settled(k) => Spare(k) = 1
      /\ Settled(k)' => Spare(k)' = 0
  BY DEF Spare
<1> DEFINE s == Spare(k)  t == Spare(k)'  c == Cardinality(Pending(k))  d == Cardinality(Pending(k)')
<1>3. s \in 0..1 /\ t \in 0..1 /\ c \in Nat /\ d \in Nat /\ d <= c /\ (faults' = faults => t <= s)
      /\ faults' \in {faults, faults + 1}
  BY <1>1, <1>2
<1>4. effects[k] + c + s <= faults + 1
  BY DEF Owed
<1> HIDE DEF s, t, c, d
<1>5. effects'[k] + d + t <= faults' + 1
  BY <1>1, <1>3, <1>4
<1> QED BY <1>5 DEF Owed, t, d

(* The effect of a delivery stays owed: Reread puts the spare effect of an *)
(* open row into the hands of its handler, Process brings it about, and    *)
(* whatever opens a settled row again is counted as a fault.               *)
LEMMA EffectsStep ==
  ASSUME IInv, [Next]_vars
  PROVE  EffectsAreOwed'
<1> USE DEF IInv
<1> SUFFICES ASSUME NEW j \in Ids PROVE Owed(j)'
  BY DEF EffectsAreOwed
<1>0. /\ TypesOK /\ RequestsFit /\ Owed(j) /\ RowFits(j)
      /\ \A p \in Requests : RequestFits(p)
      /\ \A q, p \in Requests : ClaimFits(q, p)
  BY DEF EffectsAreOwed, RowsFit, RequestsFit, ClaimsFit
<1>1. ASSUME NEW q \in Requests, NEW k \in Ids, Post(q, k) PROVE Owed(j)'
  <2>1. /\ requests[q].pc = "idle" /\ requests'[q].pc = "received"
        /\ \A p \in Requests \ {q} : requests'[p] = requests[p]
        /\ effects' = effects /\ faults' = faults /\ rows' = rows
    BY <1>0, <1>1, PostChanges DEF Only, Tallies
  <2>2. Pending(j)' \subseteq Pending(j)
    BY <2>1 DEF Pending
  <2>3. Settled(j) => Settled(j)'
    BY <2>1 DEF Settled, Secured, Secures
  <2> QED BY <1>0, <2>1, <2>2, <2>3, OwedKept
<1>2. ASSUME NEW q \in Requests, Verify(q) \/ Find(q) PROVE Owed(j)'
  <2>1. /\ requests[q].pc \in {"received", "verified"} /\ requests'[q].pc # "processing"
        /\ \A p \in Requests \ {q} : requests'[p] = requests[p]
        /\ effects' = effects /\ faults' = faults /\ rows' = rows
    BY <1>0, <1>2, ReadChanges DEF Over, Moved, Kept, Only, Tallies
  <2>2. Pending(j)' \subseteq Pending(j)
    BY <2>1 DEF Pending
  <2>3. Settled(j) => Settled(j)'
    BY <2>1 DEF Settled, Secured, Secures
  <2> QED BY <1>0, <2>1, <2>2, <2>3, OwedKept
<1>3. ASSUME NEW q \in Requests, Insert(q) PROVE Owed(j)'
  <2>1. /\ requests[q].pc = "missing" /\ requests'[q].pc = "recorded"
        /\ \A p \in Requests \ {q} : requests'[p] = requests[p]
        /\ effects' = effects /\ faults' = faults
        /\ rows[j].recorded => rows'[j] = rows[j]
    BY <1>0, <1>3, Named, InsertChanges DEF Moved, Kept, Only, OnlyRow, Tallies
  <2>2. Pending(j)' \subseteq Pending(j)
    BY <2>1 DEF Pending
  <2>3. ~rows[j].recorded => ~Settled(j)
    <3>1. ~rows[j].recorded => ~rows[j].processed
      <4>1. ~NoRow.processed
        BY DEF NoRow
      <4> QED BY <1>0, <4>1 DEF RowFits
    <3>2. ~rows[j].recorded => ~Secured(j)
      BY <1>0 DEF RequestFits, Working, Secured, Secures
    <3> QED BY <3>1, <3>2 DEF Settled
  <2>4. Settled(j) => Settled(j)'
    BY <2>1, <2>3 DEF Settled, Secured, Secures
  <2> QED BY <1>0, <2>1, <2>2, <2>4, OwedKept
<1>4. ASSUME NEW q \in Requests, Claim(q) PROVE Owed(j)'
  <2>1. /\ requests[q].pc = "recorded" /\ requests'[q].pc # "processing"
        /\ \A p \in Requests \ {q} : requests'[p] = requests[p]
        /\ effects' = effects /\ faults' = faults
        /\ ~Claimable(rows[j]) => rows'[j] = rows[j]
    BY <1>0, <1>4, Named, ClaimChanges DEF Over, Moved, Kept, Only, OnlyRow, Tallies
  <2>2. Pending(j)' \subseteq Pending(j)
    BY <2>1 DEF Pending
  <2>3. Claimable(rows[j]) => ~Settled(j)
    <3> SUFFICES ASSUME Claimable(rows[j]), NEW p \in Requests, Secures(p, j) PROVE FALSE
      BY DEF Settled, Secured, Claimable
    <3> QED BY <1>0 DEF Claimable, Secures, RequestFits, Working, None
  <2>4. Settled(j) => Settled(j)'
    BY <2>1, <2>3 DEF Settled, Secured, Secures
  <2> QED BY <1>0, <2>1, <2>2, <2>4, OwedKept
<1>5. ASSUME NEW q \in Requests, Reread(q) PROVE Owed(j)'
  <2>1. /\ requests[q].pc = "claimed" /\ requests[q].id \in Ids /\ requests'[q].id = requests[q].id
        /\ requests'[q].token = rows[requests[q].id].started
        /\ \A p \in Requests \ {q} : requests'[p] = requests[p]
        /\ effects' = effects /\ faults' = faults /\ rows' = rows
        /\ requests'[q].pc \in {"processing", "done"}
    BY <1>0, <1>5, Named, RereadChanges DEF Kept, Only, Tallies
  <2>2. Settled(j) => Settled(j)'
    BY <2>1 DEF Settled, Secured, Secures
  <2>3. CASE requests[q].id # j \/ requests'[q].pc = "done"
    <3>1. Pending(j)' \subseteq Pending(j)
      BY <2>1, <2>3 DEF Pending
    <3> QED BY <1>0, <2>1, <2>2, <3>1, OwedKept
  <2>4. CASE requests[q].id = j /\ requests'[q].pc = "processing"
    <3>1. rows[j].started # None /\ ~rows[j].old
      BY <1>0, <2>1, <2>4 DEF ClaimFits
    <3>2. ~Settled(j)
      <4>1. ~rows[j].processed
        BY <1>0, <3>1 DEF RowFits
      <4>2. \A p \in Requests : ~Secures(p, j)
        BY <1>0, <2>1, <2>4 DEF ClaimFits, Secures
      <4> QED BY <4>1, <4>2 DEF Settled, Secured
    <3>3. Settled(j)'
      BY <2>1, <2>4, <3>1 DEF Settled, Secured, Secures
    <3>4. Pending(j)' = Pending(j) \cup {q} /\ q \notin Pending(j)
      BY <2>1, <2>4 DEF Pending
    <3>5. Cardinality(Pending(j)') = Cardinality(Pending(j)) + 1
      BY <3>4, PendingIsFinite, FS_AddElement
    <3>6. Spare(j) = 1 /\ Spare(j)' = 0
      BY <3>2, <3>3 DEF Spare
    <3>7. Cardinality(Pending(j)) \in Nat /\ effects[j] \in Nat /\ faults \in Nat
      BY <1>0, Fields, PendingIsFinite
    <3> QED BY <3>7, <1>0, <2>1, <3>5, <3>6 DEF Owed
  <2> QED BY <2>1, <2>3, <2>4
<1>6. ASSUME NEW q \in Requests, Process(q) PROVE Owed(j)'
  <2>1. /\ requests[q].pc = "processing" /\ requests'[q].id = requests[q].id
        /\ requests'[q].token = requests[q].token /\ requests[q].id \in Ids
        /\ requests'[q].pc \in {"done", "failed"}
        /\ \A p \in Requests \ {q} : requests'[p] = requests[p]
        /\ rows' = rows
        /\ requests[q].id # j => effects'[j] = effects[j]
        /\ \/ faults' = faults /\ requests'[q].pc = "done"
           \/ faults' = faults + 1
    BY <1>0, <1>6, Named, ProcessChanges DEF Kept, Only
  <2>2. faults' = faults => (Settled(j) => Settled(j)')
    <3>1. faults \in Nat
      BY <1>0, Fields
    <3> QED BY <2>1, <3>1 DEF Settled, Secured, Secures
  <2>3. CASE requests[q].id # j
    <3>1. Pending(j)' \subseteq Pending(j)
      BY <2>1, <2>3 DEF Pending
    <3>2. effects'[j] = effects[j]
      BY <2>1, <2>3
    <3> QED BY <1>0, <2>1, <2>2, <3>1, <3>2, OwedKept
  <2>4. CASE requests[q].id = j
    <3>1. Pending(j)' = Pending(j) \ {q} /\ q \in Pending(j)
      BY <2>1, <2>4 DEF Pending
    <3>2. Cardinality(Pending(j)') = Cardinality(Pending(j)) - 1
      BY <3>1, PendingIsFinite, FS_RemoveElement
    <3>3. effects'[j] \in {effects[j], effects[j] + 1}
      BY <1>0, <1>6, <2>1, <2>4, ProcessChanges
    <3>4. /\ Spare(j) \in {0, 1} /\ Spare(j)' \in {0, 1}
          /\ faults' = faults => Spare(j)' = Spare(j) \/ Spare(j)' = 0
      BY <2>2 DEF Spare
    <3>5. /\ Cardinality(Pending(j)) \in Nat /\ effects[j] \in Nat /\ faults \in Nat
          /\ faults' \in {faults, faults + 1}
      BY <1>0, <2>1, Fields, PendingIsFinite
    <3> DEFINE s == Spare(j)  t == Spare(j)'
               c == Cardinality(Pending(j))  d == Cardinality(Pending(j)')
    <3>6. /\ s \in 0..1 /\ t \in 0..1 /\ c \in Nat /\ d = c - 1 /\ (faults' = faults => t <= s)
      BY <3>2, <3>4, <3>5
    <3>7. effects[j] + c + s <= faults + 1
      BY <1>0 DEF Owed
    <3> HIDE DEF s, t, c, d
    <3>8. effects'[j] + d + t <= faults' + 1
      BY <3>5, <3>6, <3>3, <3>7
    <3> QED BY <3>8 DEF Owed, t, d
  <2> QED BY <2>3, <2>4
<1>7. ASSUME NEW q \in Requests, MarkProcessed(q) \/ MarkProcessingFailed(q) PROVE Owed(j)'
  <2>1. /\ requests[q].pc \in {"done", "failed"} /\ requests'[q].pc = "idle"
        /\ requests[q].id \in Ids
        /\ \A p \in Requests \ {q} : requests'[p] = requests[p]
        /\ effects' = effects /\ faults' = faults
        /\ requests[q].id # j \/ ~Holds(q) => rows'[j] = rows[j]
    BY <1>0, <1>7, Named, MarkChanges DEF Over, Only, OnlyRow, Tallies
  <2>2. Pending(j)' \subseteq Pending(j)
    BY <2>1 DEF Pending
  <2>3. Settled(j) => Settled(j)'
    <3>1. CASE requests[q].id # j \/ ~Holds(q)
      <4>1. \A p \in Requests : Secures(p, j) => p # q
        BY <3>1 DEF Secures, Holds
      <4> QED BY <2>1, <3>1, <4>1 DEF Settled, Secured, Secures
    <3>2. CASE requests[q].id = j /\ Holds(q) /\ MarkProcessed(q)
      <4>1. rows'[j].processed
        BY <1>0, <2>1, <3>2, MarkChanges
      <4> QED BY <4>1 DEF Settled
    <3>3. CASE requests[q].id = j /\ Holds(q) /\ ~MarkProcessed(q)
      <4>1. requests[q].pc = "failed" /\ requests[q].token = rows[j].started
            /\ requests[q].token # None
        BY <1>0, <1>7, <2>1, <3>3, MarkChanges DEF Holds, RequestFits, Working
      <4>2. ~rows[j].processed
        BY <1>0, <4>1 DEF RowFits
      <4>3. \A p \in Requests : ~Secures(p, j)
        BY <1>0, <3>3, <4>1 DEF ClaimFits, Secures
      <4> QED BY <4>2, <4>3 DEF Settled, Secured
    <3> QED BY <3>1, <3>2, <3>3
  <2> QED BY <1>0, <2>1, <2>2, <2>3, OwedKept
<1>8. ASSUME NEW q \in Requests, Hangup(q) PROVE Owed(j)'
  <2>1. /\ requests'[q].pc = "idle" /\ \A p \in Requests \ {q} : requests'[p] = requests[p]
        /\ effects' = effects /\ faults' = faults + 1
    BY <1>0, <1>8, HangupChanges DEF Over, Only
  <2>2. Pending(j)' \subseteq Pending(j)
    BY <2>1 DEF Pending
  <2> QED BY <1>0, <2>1, <2>2, OwedKept
<1>9. ASSUME NEW k \in Ids, GrowsOld(k) PROVE Owed(j)'
  <2>1. /\ requests' = requests /\ effects' = effects
        /\ j # k => rows'[j] = rows[j]
        /\ rows'[k].processed = rows[k].processed
        /\ IF InUse(k) THEN faults' = faults + 1 ELSE faults' = faults
    BY <1>0, <1>9, GrowsOldChanges DEF OnlyRow
  <2>2. Pending(j)' \subseteq Pending(j)
    BY <2>1 DEF Pending
  <2>3. Settled(j) /\ (j # k \/ ~InUse(k)) => Settled(j)'
    <3>1. CASE j # k
      BY <2>1, <3>1 DEF Settled, Secured, Secures
    <3>2. CASE j = k /\ ~InUse(k)
      <4>1. \A p \in Requests : ~Secures(p, j)
        BY <3>2 DEF InUse, Secures
      <4> QED BY <2>1, <3>2, <4>1 DEF Settled, Secured
    <3> QED BY <3>1, <3>2
  <2>4. \/ faults' = faults /\ (Settled(j) => Settled(j)')
        \/ faults' = faults + 1
    BY <2>1, <2>3
  <2> QED BY <1>0, <2>1, <2>2, <2>4, OwedKept
<1>10. ASSUME Rotate \/ UNCHANGED vars PROVE Owed(j)'
  <2>1. UNCHANGED <<rows, requests, effects, faults>>
    BY <1>10 DEF Rotate, vars
  <2>2. Pending(j)' \subseteq Pending(j)
    BY <2>1 DEF Pending
  <2>3. Settled(j) => Settled(j)'
    BY <2>1 DEF Settled, Secured, Secures
  <2> QED BY <1>0, <2>1, <2>2, <2>3, OwedKept
<1> QED BY <1>1, <1>2, <1>3, <1>4, <1>5, <1>6, <1>7, <1>8, <1>9, <1>10 DEF Next, Handler

-----------------------------------------------------------------------------
(* Nothing is recorded and nobody is at work.                              *)
LEMMA InitEstablishes ==
  ASSUME Init
  PROVE  IInv
<1>1. /\ Idle \in Request /\ Idle.pc = "idle" /\ Idle.id = NoId /\ Idle.token = None
      /\ NoRow \in Row /\ ~NoRow.processed /\ NoRow.started = None
  BY DEF Idle, Request, NoRow, Row, None, Steps, Errors, NoError
<1>2. TypesOK
  BY <1>1 DEF Init, TypesOK
<1>3. RowsFit
  BY <1>1 DEF Init, RowsFit, RowFits, None
<1>4. RequestsFit
  BY <1>1 DEF Init, RequestsFit, RequestFits, None, Working
<1>5. ClaimsFit
  BY <1>1 DEF Init, ClaimsFit, ClaimFits, None
<1>6. ASSUME NEW k \in Ids PROVE Owed(k)
  <2>1. Pending(k) = {}
    BY <1>1 DEF Init, Pending
  <2>2. Cardinality(Pending(k)) = 0
    BY <2>1, FS_EmptySet
  <2>3. Spare(k) \in {0, 1} /\ effects[k] = 0 /\ faults = 0
    BY DEF Spare, Init
  <2> QED BY <2>2, <2>3 DEF Owed
<1> QED BY <1>2, <1>3, <1>4, <1>5, <1>6 DEF IInv, EffectsAreOwed

(* The steps, put together.                                                *)
LEMMA NextPreserves ==
  ASSUME IInv, [Next]_vars
  PROVE  IInv'
BY TypesStep, RowsStep, RequestsStep, ClaimsStep, EffectsStep DEF IInv

(* Rows, handlers, claims and effects stay in step with one another         *)
(* (delivery_store.go, handleForgejoWebhook).                              *)
THEOREM InductiveInvariant == Spec => []IInv
BY InitEstablishes, NextPreserves, PTL DEF Spec
-----------------------------------------------------------------------------
(* The ledger of deliveries is kept: a claim has one holder, the page      *)
(* tells the truth about every row, and the effect of a delivery is        *)
(* repeated no more often than handlers failed, were cut off or outlasted  *)
(* their claim (delivery_store.go, deliveryProcessingConditions).          *)
THEOREM LedgerStaysKept == Spec => []LedgerIsKept
<1>1. ASSUME IInv PROVE LedgerIsKept
  <2> USE <1>1 DEF IInv
  <2>1. RowsOK
    <3> SUFFICES ASSUME NEW k \in Ids
                 PROVE  /\ rows[k] \in [recorded : BOOLEAN, started : 0..claims, old : BOOLEAN,
                                        processed : BOOLEAN, error : {"", "unsupported", "failed"}]
                        /\ ~rows[k].recorded => rows[k] = NoRow
      BY DEF RowsOK
    <3>1. rows[k].started \in Nat /\ claims \in Nat /\ rows[k].started <= claims
      BY Fields DEF RowsFit, RowFits
    <3>2. rows[k] \in Row /\ rows[k].started \in 0..claims
      BY <3>1 DEF TypesOK
    <3> DEFINE started == 0..claims
    <3>3. rows[k] \in Row /\ rows[k].started \in started
      BY <3>2
    <3> HIDE DEF started
    <3>4. rows[k] \in [recorded : BOOLEAN, started : started, old : BOOLEAN,
                       processed : BOOLEAN, error : {"", "unsupported", "failed"}]
      BY <3>3 DEF Row, Errors, NoError
    <3>5. ~rows[k].recorded => rows[k] = NoRow
      BY DEF RowsFit, RowFits
    <3> QED BY <3>4, <3>5 DEF started
  <2>2. OneHolder
    <3> SUFFICES ASSUME NEW k \in Ids, NEW q \in Requests, NEW p \in Requests,
                        requests[q].id = k, requests[q].token # None, Holds(q),
                        requests[p].id = k, requests[p].token # None, Holds(p)
                 PROVE  q = p
      BY DEF OneHolder
    <3> QED BY DEF ClaimsFit, ClaimFits, Holds
  <2>3. ShownIsTrue
    <3> SUFFICES ASSUME NEW k \in Ids
                 PROVE  LET s == ProcessingState(rows[k]) IN
                        /\ s = "processed" => effects[k] > 0 /\ k \notin Unsupported
                        /\ s = "processed_with_error" => k \in Unsupported /\ effects[k] = 0
      BY DEF ShownIsTrue
    <3>1. /\ ProcessingState(rows[k]) = "processed" => rows[k].processed /\ rows[k].error = ""
          /\ ProcessingState(rows[k]) = "processed_with_error" =>
               rows[k].processed /\ rows[k].error # ""
      BY Zenon DEF ProcessingState
    <3>2. RowFits(k)
      BY DEF RowsFit
    <3>3. rows[k].error = "" <=> rows[k].error = NoError
      BY DEF NoError
    <3> QED BY <3>1, <3>2, <3>3 DEF RowFits
  <2>4. RepeatsAreFaults
    <3> SUFFICES ASSUME NEW k \in Ids PROVE effects[k] <= faults + 1
      BY DEF RepeatsAreFaults
    <3>1. /\ effects[k] \in Nat /\ faults \in Nat /\ Cardinality(Pending(k)) \in Nat
          /\ Spare(k) \in {0, 1}
      BY Fields, PendingIsFinite, SpareIsSmall
    <3> QED BY <3>1 DEF EffectsAreOwed, Owed
  <2> QED BY <2>1, <2>2, <2>3, <2>4 DEF LedgerIsKept
<1> QED BY <1>1, InductiveInvariant, PTL

(* A row is inserted once, what a processed row says is final, and an      *)
(* effect on a processed row takes a fault.                                *)
Final(k) ==
  /\ rows[k].processed => rows'[k] = rows[k]
  /\ rows[k].recorded => rows'[k].recorded
  /\ effects'[k] > effects[k] => (~rows[k].processed \/ faults > 0)

LEMMA StepIsFinal ==
  ASSUME IInv, [Next]_vars, NEW k \in Ids
  PROVE  Final(k)
<1> USE DEF IInv
<1>0. /\ TypesOK /\ RequestsFit /\ RowFits(k) /\ Owed(k)
      /\ effects[k] \in Nat /\ faults \in Nat
      /\ \A q \in Requests : RequestFits(q)
      /\ rows[k].recorded \in BOOLEAN /\ rows[k].processed \in BOOLEAN
  BY Fields DEF RowsFit, RequestsFit, EffectsAreOwed
<1>1. CASE rows'[k] = rows[k] /\ effects'[k] = effects[k]
  BY <1>0, <1>1 DEF Final
<1>2. ASSUME NEW q \in Requests, NEW j \in Ids, Post(q, j) PROVE Final(k)
  BY <1>0, <1>1, <1>2, PostChanges DEF Tallies
<1>3. ASSUME NEW q \in Requests, Verify(q) \/ Find(q) PROVE Final(k)
  BY <1>0, <1>1, <1>3, ReadChanges DEF Tallies
<1>4. ASSUME NEW q \in Requests, Insert(q) PROVE Final(k)
  <2>1. /\ effects' = effects
        /\ \/ ~rows[k].recorded /\ rows'[k].recorded
           \/ rows'[k] = rows[k]
    BY <1>0, <1>4, Named, InsertChanges DEF OnlyRow, Tallies
  <2>2. ~rows[k].recorded => ~rows[k].processed
    <3>1. ~NoRow.processed
      BY DEF NoRow
    <3> QED BY <1>0, <3>1 DEF RowFits
  <2> QED BY <1>0, <1>1, <2>1, <2>2 DEF Final
<1>5. ASSUME NEW q \in Requests, Claim(q) PROVE Final(k)
  <2>1. /\ effects' = effects
        /\ \/ rows'[k] = rows[k]
           \/ ~rows[k].processed /\ rows'[k].recorded = rows[k].recorded
    BY <1>0, <1>5, Named, ClaimChanges DEF OnlyRow, Claimable, Tallies
  <2> QED BY <1>0, <1>1, <2>1 DEF Final
<1>6. ASSUME NEW q \in Requests, Reread(q) PROVE Final(k)
  BY <1>0, <1>1, <1>6, Named, RereadChanges DEF Tallies
<1>7. ASSUME NEW q \in Requests, Process(q) PROVE Final(k)
  <2>1. rows' = rows /\ requests[q].pc = "processing"
        /\ (requests[q].id # k => effects'[k] = effects[k])
        /\ effects'[k] \in Nat
    BY <1>0, <1>7, Named, ProcessChanges
  <2>2. CASE requests[q].id # k
    BY <1>1, <2>1, <2>2
  <2>3. CASE requests[q].id = k /\ rows[k].processed
    <3>1. effects[k] > 0
      BY <1>0, <2>1, <2>3 DEF RowFits, RequestFits
    <3>2. q \in Pending(k)
      BY <2>1, <2>3 DEF Pending
    <3>3. Cardinality(Pending(k)) # 0 /\ Cardinality(Pending(k)) \in Nat
      BY <3>2, PendingIsFinite, FS_EmptySet
    <3>4. Spare(k) \in {0, 1}
      BY SpareIsSmall
    <3>5. faults > 0
      BY <1>0, <3>1, <3>3, <3>4 DEF Owed
    <3> QED BY <2>1, <3>5 DEF Final
  <2>4. CASE ~rows[k].processed
    BY <2>1, <2>4 DEF Final
  <2> QED BY <1>0, <2>2, <2>3, <2>4
<1>8. ASSUME NEW q \in Requests, MarkProcessed(q) \/ MarkProcessingFailed(q) PROVE Final(k)
  <2>1. effects' = effects
    BY <1>0, <1>8, Named, MarkChanges DEF Tallies
  <2>2. CASE requests[q].id # k \/ ~Holds(q)
    <3>1. rows'[k] = rows[k]
      BY <1>0, <1>8, <2>2, Named, MarkChanges DEF OnlyRow
    <3> QED BY <1>1, <2>1, <3>1
  <2>3. CASE requests[q].id = k /\ Holds(q)
    <3>1. requests[q].pc \in Working /\ rows[k].started = requests[q].token
          /\ rows'[k].recorded = rows[k].recorded
      BY <1>0, <1>8, <2>3, MarkChanges DEF Holds, Working
    <3>2. ~rows[k].processed
      BY <1>0, <3>1 DEF RowFits, RequestFits
    <3> QED BY <1>0, <2>1, <3>1, <3>2 DEF Final
  <2> QED BY <2>2, <2>3
<1>9. ASSUME NEW q \in Requests, Hangup(q) PROVE Final(k)
  BY <1>0, <1>1, <1>9, HangupChanges
<1>10. ASSUME NEW j \in Ids, GrowsOld(j) PROVE Final(k)
  <2>1. /\ effects' = effects
        /\ \/ rows'[k] = rows[k]
           \/ rows[k].started # None /\ rows'[k].recorded = rows[k].recorded
    BY <1>0, <1>10, GrowsOldChanges DEF OnlyRow
  <2> QED BY <1>0, <1>1, <2>1 DEF Final, RowFits
<1>11. CASE Rotate \/ UNCHANGED vars
  BY <1>1, <1>11 DEF Rotate, vars
<1> QED
  BY <1>2, <1>3, <1>4, <1>5, <1>6, <1>7, <1>8, <1>9, <1>10, <1>11 DEF Next, Handler

(* Who is told accepted after the signature was verified leaves a row that *)
(* is processed or claimed and young.                                      *)
InHand(q) == LET row == rows'[requests[q].id] IN
  row.processed \/ (row.started # None /\ ~row.old)
Accepted(q) ==
  requests[q].pc \notin {"idle", "received"} /\ requests'[q].answer = "accepted"

LEMMA AcceptedStepIsInHand ==
  ASSUME IInv, [Next]_vars, NEW q \in Requests, Accepted(q)
  PROVE  InHand(q)
<1> USE DEF IInv
<1>0. /\ TypesOK /\ RequestsFit /\ requests[q].answer = "none" /\ requests[q].id \in Ids
      /\ requests'[q].answer = "accepted" /\ requests[q].pc \notin {"idle", "received"}
      /\ \A k \in Ids : rows[k].processed \in BOOLEAN /\ rows[k].old \in BOOLEAN
  BY Fields DEF Accepted, RequestsFit, RequestFits
<1>1. ASSUME NEW p \in Requests, NEW k \in Ids, Post(p, k) PROVE InHand(q)
  BY <1>0, <1>1, PostChanges DEF Only
<1>2. ASSUME NEW p \in Requests, Verify(p) \/ Find(p) PROVE InHand(q)
  BY <1>0, <1>2, ReadChanges DEF Moved, Kept, Over, Only
<1>3. ASSUME NEW p \in Requests, Insert(p) PROVE InHand(q)
  BY <1>0, <1>3, Named, InsertChanges DEF Moved, Kept, Only
<1>4. ASSUME NEW p \in Requests, Claim(p) PROVE InHand(q)
  <2>1. p = q /\ ~Claimable(rows[requests[q].id]) /\ rows' = rows
    BY <1>0, <1>4, Named, ClaimChanges DEF Moved, Kept, Over, Only
  <2> QED BY <1>0, <2>1 DEF Claimable, InHand
<1>5. ASSUME NEW p \in Requests, Reread(p) PROVE InHand(q)
  BY <1>0, <1>5, Named, RereadChanges DEF Kept, Only
<1>6. ASSUME NEW p \in Requests, Process(p) PROVE InHand(q)
  BY <1>0, <1>6, Named, ProcessChanges DEF Kept, Only
<1>7. ASSUME NEW p \in Requests, MarkProcessed(p) \/ MarkProcessingFailed(p) PROVE InHand(q)
  <2>1. p = q /\ MarkProcessed(q) /\ Holds(q)
    BY <1>0, <1>7, Named, MarkChanges DEF Over, Only
  <2>2. rows'[requests[q].id].processed
    BY <1>0, <2>1, MarkChanges
  <2> QED BY <2>2 DEF InHand
<1>8. ASSUME NEW p \in Requests, Hangup(p) PROVE InHand(q)
  BY <1>0, <1>8, HangupChanges DEF Over, Only
<1>9. CASE (\E k \in Ids : GrowsOld(k)) \/ Rotate \/ UNCHANGED vars
  <2>1. requests' = requests
    BY <1>0, <1>9, GrowsOldChanges DEF Rotate, vars
  <2> QED BY <1>0, <2>1
<1> QED BY <1>1, <1>2, <1>3, <1>4, <1>5, <1>6, <1>7, <1>8, <1>9 DEF Next, Handler

(* What the forge was told and what the row says is never taken back, by   *)
(* no slow handler, late failure or repeated post.                         *)
THEOREM OutcomesStayKept == Spec => OutcomesAreKept
<1>1. IInv /\ [Next]_vars =>
        [\A k \in Ids : /\ rows[k].processed => rows'[k] = rows[k]
                        /\ rows[k].recorded => rows'[k].recorded
                        /\ effects'[k] > effects[k] =>
                             (~rows[k].processed \/ faults > 0)]_vars
  BY StepIsFinal DEF Final
<1>2. IInv /\ [Next]_vars =>
        [\A q \in Requests :
           (requests[q].pc \notin {"idle", "received"} /\ requests'[q].answer = "accepted")
             => LET row == rows'[requests[q].id] IN
                row.processed \/ (row.started # None /\ ~row.old)]_vars
  BY AcceptedStepIsInHand DEF Accepted, InHand
<1>3. Spec => OutcomesAreFinal
  BY <1>1, InductiveInvariant, PTL DEF Spec, OutcomesAreFinal
<1>4. Spec => AcceptedIsInHand
  BY <1>2, InductiveInvariant, PTL DEF Spec, AcceptedIsInHand
<1> QED BY <1>3, <1>4 DEF OutcomesAreKept

==============================================================================
