------------------------------- MODULE Payments -------------------------------
(* PaymentService (backend/app/services/payments.py): request threads of      *)
(* several workers work on the payment attempts of an order in PostgreSQL     *)
(* while the provider keeps its own records, which commit independently.      *)
(*                                                                            *)
(* One database transaction of the code is the steps between taking and       *)
(* releasing the order's row lock; what it staged is computed from the stored *)
(* rows, which the lock protects, and from the snapshots the call has read,   *)
(* and becomes visible at the commit step.                                    *)
EXTENDS PaymentDomain, Naturals, FiniteSets, Sequences

CONSTANTS
    Procs,          \* request threads
    Attempts,       \* the payment attempts that can be created
    Requests,       \* creation requests: [key, order, terms, description]
    Events,         \* provider event IDs
    MaxGeneration,  \* bound: prepay generations of one attempt
    ProviderMoves,  \* <<from, to>>: trade-state changes made at the provider
    Anomalies,      \* signed notifications that contradict the records
    GatewayFaults,  \* the provider calls that may fail
    None

ASSUME PaymentsAssumption ==
    /\ MaxGeneration \in Nat \ {0}
    /\ None \notin Attempts \cup Procs \cup Requests \cup Events
    /\ ProviderMoves \subseteq TradeStates \X TradeStates
    /\ Anomalies \subseteq {"amount", "transaction", "order"}
    /\ GatewayFaults \subseteq {"query", "prepay", "rejected", "close"}
    /\ \A r \in Requests : r = [key |-> r.key, order |-> r.order, terms |-> r.terms,
                               description |-> r.description]

VARIABLES
    attempts,   \* payment_attempts with their state history
    provider,   \* the provider's record of each merchant order
    inbox,      \* payment_provider_events, keyed by event ID
    lock,       \* the row locks of an order's attempts, taken in ascending ID
    calls       \* the request every thread is executing

vars == <<attempts, provider, inbox, lock, calls>>

Orders == {r.order : r \in Requests}

\* A row of the table; prepay is the generation of its prepay ID, tx stands for
\* the transaction ID with its success time (both immutable, both set together).
NoAttempt == [status |-> "absent", req |-> None, prepay |-> 0, tx |-> None,
              review |-> "none", closeReason |-> "none", history |-> <<>>]

\* expired: the newest prepay generation past its expiry; paid: a transaction ID
\* and a success time are recorded, whatever the trade state is by now.
NoRecord == [state |-> "unknown", generation |-> 0, expired |-> 0, paid |-> FALSE]

IdleCall == [pc |-> "idle", attempt |-> None, req |-> None, seen |-> {},
             event |-> None, snap |-> None, generation |-> 0,
             verdict |-> "none", retried |-> FALSE]

Init ==
    /\ attempts = [a \in Attempts |-> NoAttempt]
    /\ provider = [a \in Attempts |-> NoRecord]
    /\ inbox = [e \in Events |-> None]
    /\ lock = [o \in Orders |-> None]
    /\ calls = [p \in Procs |-> IdleCall]

Exists(table, a) == table[a].status # "absent"

Siblings(table, a) ==
    {b \in Attempts \ {a} : Exists(table, b) /\ table[b].req.order = table[a].req.order}

OfOrder(o) == {a \in Attempts : Exists(attempts, a) /\ attempts[a].req.order = o}

HasKey(k) == {a \in Attempts : Exists(attempts, a) /\ attempts[a].req.key = k}

-----------------------------------------------------------------------------
(* Applying an authoritative snapshot to the table.                          *)

\* Mutant: the transaction is not compared with the one already recorded.
RejectsMutableTransaction(table, a, snap) ==
    \/ ~snap.amountOk
    \/ /\ StatusFor(snap.state) = "succeeded"
       /\ \E b \in Attempts \ {a} : table[b].tx = snap.tx

\* _apply_snapshot raises before it stages anything.
Rejects(table, a, snap) ==
    \/ ~snap.amountOk
    \/ /\ StatusFor(snap.state) = "succeeded"
       /\ \/ table[a].tx \notin {None, snap.tx}
          \/ \E b \in Attempts \ {a} : table[b].tx = snap.tx

\* Mutant: the event is recorded after the status was overwritten.
LogOverwritten(row, to) == [row EXCEPT !.history = Append(@, <<to, to>>)]

\* Only events that change a status or flag a review are kept; the events that
\* merely note an observation repeat without bound.
Log(row, to) == [row EXCEPT !.history = Append(@, <<row.status, to>>)]

\* _mark_for_review: a no-op when the row is already flagged for this reason.
MarkForReview(row, reason) ==
    IF row.review = reason THEN row
    ELSE [Log(row, row.status) EXCEPT !.review = reason]

\* Mutant: a late success keeps the reason the merchant closed the attempt for.
MoveKeepsCloseReason(row, target, tx) ==
    [Log(row, target) EXCEPT !.status = target,
                             !.tx = IF target = "succeeded" THEN tx ELSE @]

Move(row, target, tx) ==
    LET moved == [Log(row, target) EXCEPT !.status = target]
    IN IF target = "succeeded"
       THEN [moved EXCEPT !.tx = tx, !.closeReason = "none"] ELSE moved

\* Mutant: a retry that is still payable is not looked at.
RelatedSucceeded(table, a, target) ==
    {b \in Siblings(table, a) : target = "succeeded" /\ table[b].status = "succeeded"}

Related(table, a, target) ==
    {b \in Siblings(table, a) :
        target = "succeeded" /\ table[b].status \in Active \cup {"succeeded"}}

ReviewReason(table, related) ==
    IF \E b \in related : table[b].status = "succeeded"
    THEN "multiple_successful_attempts" ELSE "success_with_active_attempt"

\* Mutant: the anomaly is recorded before the transition that revealed it.
SettleReviewFirst(row, snap, related, reason) ==
    LET target == StatusFor(snap.state)
        marked == IF related = {} THEN row ELSE MarkForReview(row, reason)
    IN IF DecideTransition(row.status, target, TRUE) = "apply"
          /\ ~(row.status = "created" /\ target = "pending" /\ row.prepay = 0)
       THEN Move(marked, target, snap.tx) ELSE marked

\* What the observed row itself becomes. A created attempt whose prepay is not
\* recovered stays created: only _ensure_prepay may make it pending. (A succeeded
\* row always has its transaction, so a repeated success has nothing to fill in.)
Settle(row, snap, related, reason) ==
    LET target  == StatusFor(snap.state)
        decided == IF row.status = "created" /\ target = "pending" /\ row.prepay = 0
                   THEN "ignore" ELSE DecideTransition(row.status, target, TRUE)
        settled == IF decided = "apply" THEN Move(row, target, snap.tx) ELSE row
    IN IF related = {} THEN settled ELSE MarkForReview(settled, reason)

\* Mutant: only the observed attempt is flagged, not its siblings.
AppliedMarksOne(table, a, snap) ==
    LET related == Related(table, a, StatusFor(snap.state))
        reason  == ReviewReason(table, related)
    IN [table EXCEPT ![a] = Settle(@, snap, related, reason)]

Applied(table, a, snap) ==
    LET related == Related(table, a, StatusFor(snap.state))
        reason  == ReviewReason(table, related)
    IN [b \in Attempts |->
           IF b = a THEN Settle(table[a], snap, related, reason)
           ELSE IF b \in related THEN MarkForReview(table[b], reason)
           ELSE table[b]]

-----------------------------------------------------------------------------
(* Requests, transactions and locks.                                         *)

At(p, pc) == calls[p].pc = pc

Goto(p, pc) == calls' = [calls EXCEPT ![p].pc = pc]

\* Mutant: the session is kept open, with its locks.
UnlockedNever(p) == lock

Unlocked(p) == [o \in Orders |-> IF lock[o] = p THEN None ELSE lock[o]]

\* Commit or rollback, and the end of the request.
EndCall(p) ==
    /\ calls' = [calls EXCEPT ![p] = IdleCall]
    /\ lock' = Unlocked(p)

\* Commit, and a second transaction that makes sure the attempt has a prepay.
ThenEnsurePrepay(p, a) ==
    /\ calls' = [calls EXCEPT ![p] = [IdleCall EXCEPT !.pc = "prepay_lock", !.attempt = a]]
    /\ lock' = Unlocked(p)

\* Mutant: SELECT without FOR UPDATE.
ReadOrder(p, o) == UNCHANGED lock

\* Every row of an order is locked in ascending ID order, so the first row's
\* lock is the order's lock.
LockOrder(p, o) ==
    /\ lock[o] = None
    /\ lock' = [lock EXCEPT ![o] = p]

OrderOf(p) == attempts[calls[p].attempt].req.order

QuerySnapshot(a) ==
    [state |-> provider[a].state,
     tx |-> IF provider[a].state \in PaidStates THEN a ELSE None,
     amountOk |-> TRUE]

\* gateway.query_payment answered; the snapshot is kept for a later step.
Query(p, next) ==
    /\ provider[calls[p].attempt].state # "unknown"
    /\ calls' = [calls EXCEPT ![p].pc = next, ![p].snap = QuerySnapshot(calls[p].attempt)]

\* The provider does not know the order, or cannot be reached.
QueryFails(p) ==
    provider[calls[p].attempt].state = "unknown" \/ "query" \in GatewayFaults

Observed(p) == Applied(attempts, calls[p].attempt, calls[p].snap)

Contradicts(p) == Rejects(attempts, calls[p].attempt, calls[p].snap)

StatusAfter(p) == Observed(p)[calls[p].attempt].status

-----------------------------------------------------------------------------
(* create_mock_attempt                                                       *)

CreateLookup(p, r) ==
    /\ At(p, "idle")
    /\ HasKey(r.key) = {}
    /\ calls' = [calls EXCEPT ![p].pc = "create_read", ![p].req = r]
    /\ UNCHANGED <<attempts, provider, inbox, lock>>

\* The key is known: the same request gets the same attempt, another one an error.
CreateReplayed(p, r) ==
    /\ At(p, "idle")
    /\ \E a \in HasKey(r.key) : attempts[a].req = r /\ ThenEnsurePrepay(p, a)
    /\ UNCHANGED <<attempts, provider, inbox>>

\* SELECT ... FOR UPDATE takes its snapshot when it starts: the rows it returns
\* are those that existed then, even if it waits for their locks. Without rows
\* there is nothing to wait for and nothing to lock.
CreateRead(p) ==
    LET seen == OfOrder(calls[p].req.order) IN
    /\ At(p, "create_read")
    /\ calls' = [calls EXCEPT
            ![p].pc = IF seen = {} THEN "create_insert" ELSE "create_lock",
            ![p].seen = seen]
    /\ UNCHANGED <<attempts, provider, inbox, lock>>

\* _validate_new_attempt on the rows the lock statement returned: the owner, amount
\* and currency (terms) must agree, the description need not.
Admits(r, prior) ==
    \A a \in prior :
        /\ attempts[a].req.terms = r.terms
        /\ attempts[a].status \in {"closed", "failed"}

CreateLock(p) ==
    LET r == calls[p].req IN
    /\ At(p, "create_lock")
    /\ lock[r.order] = None
    /\ IF Admits(r, calls[p].seen)
       THEN LockOrder(p, r.order) /\ Goto(p, "create_insert")
       ELSE EndCall(p)
    /\ UNCHANGED <<attempts, provider, inbox>>

\* Mutant: no partial unique index on the active attempts of an order.
InsertableWithoutIndex(r) == HasKey(r.key) = {}

\* Mutant: no unique constraint on owner and idempotency key.
InsertableWithAnyKey(r) == \A b \in OfOrder(r.order) : attempts[b].status \notin Active

\* The unique constraints, evaluated at commit against committed rows.
Insertable(r) ==
    /\ HasKey(r.key) = {}
    /\ \A b \in OfOrder(r.order) : attempts[b].status \notin Active

NewAttempt(r) ==
    [NoAttempt EXCEPT !.status = "created", !.req = r, !.history = <<<<"none", "created">>>>]

CreateInsert(p) ==
    LET r == calls[p].req IN
    /\ At(p, "create_insert")
    /\ Insertable(r)
    /\ \E a \in Attempts :
          /\ ~Exists(attempts, a)
          /\ attempts' = [attempts EXCEPT ![a] = NewAttempt(r)]
          /\ ThenEnsurePrepay(p, a)
    /\ UNCHANGED <<provider, inbox>>

\* IntegrityError: either this very request won elsewhere, or it is a conflict.
CreateConflict(p) ==
    LET r == calls[p].req IN
    /\ At(p, "create_insert")
    /\ ~Insertable(r)
    /\ IF \E a \in HasKey(r.key) : attempts[a].req = r
       THEN \E a \in HasKey(r.key) : attempts[a].req = r /\ ThenEnsurePrepay(p, a)
       ELSE EndCall(p)
    /\ UNCHANGED <<attempts, provider, inbox>>

\* Bound: all of Attempts are in use; the model gives the request up.
CreateOutOfBound(p) ==
    /\ At(p, "create_insert")
    /\ \A a \in Attempts : Exists(attempts, a)
    /\ EndCall(p)
    /\ UNCHANGED <<attempts, provider, inbox>>

-----------------------------------------------------------------------------
(* _ensure_prepay, the second transaction of create and reconcile, and the   *)
(* whole of refresh_prepay                                                   *)

Refresh(p, a) ==
    /\ At(p, "idle")
    /\ Exists(attempts, a)
    /\ ThenEnsurePrepay(p, a)
    /\ UNCHANGED <<attempts, provider, inbox>>

PrepayExpired(a) == attempts[a].prepay <= provider[a].expired

PrepayLock(p) ==
    LET a == calls[p].attempt
        row == attempts[a] IN
    /\ At(p, "prepay_lock")
    /\ lock[row.req.order] = None
    /\ CASE row.status = "created" ->
              LockOrder(p, row.req.order) /\ Goto(p, "prepay_create")
         [] row.status = "pending" /\ PrepayExpired(a) ->
              LockOrder(p, row.req.order) /\ Goto(p, "prepay_query")
         [] OTHER -> EndCall(p)
    /\ UNCHANGED <<attempts, provider, inbox>>

PrepayQuery(p) ==
    /\ At(p, "prepay_query")
    /\ \/ Query(p, "prepay_observe") /\ UNCHANGED lock
       \/ QueryFails(p) /\ EndCall(p)
    /\ UNCHANGED <<attempts, provider, inbox>>

\* An expired prepay is only replaced while the provider still says unpaid.
PrepayObserve(p) ==
    /\ At(p, "prepay_observe")
    /\ CASE Contradicts(p) -> EndCall(p) /\ UNCHANGED attempts
         [] ~Contradicts(p) /\ StatusAfter(p) = "pending" ->
              Goto(p, "prepay_create") /\ UNCHANGED <<attempts, lock>>
         [] OTHER -> attempts' = Observed(p) /\ EndCall(p)
    /\ UNCHANGED <<provider, inbox>>

\* Mutant: every call renews the prepay.
PrepaidAlwaysRenewed(record) ==
    IF record.state = "unknown"
    THEN [NoRecord EXCEPT !.state = "NOTPAY", !.generation = 1]
    ELSE [record EXCEPT !.generation = @ + 1]

\* gateway.create_prepay: idempotent per merchant order, except that it renews
\* an expired prepay of an unpaid one.
Prepaid(record) ==
    IF record.state = "unknown"
    THEN [NoRecord EXCEPT !.state = "NOTPAY", !.generation = 1]
    ELSE IF record.state = "NOTPAY" /\ record.expired = record.generation
    THEN [record EXCEPT !.generation = @ + 1]
    ELSE record

PrepayCreate(p) ==
    LET a == calls[p].attempt
        record == Prepaid(provider[a]) IN
    /\ At(p, "prepay_create")
    /\ provider' = [provider EXCEPT ![a] = record]
    /\ calls' = [calls EXCEPT ![p].pc = "prepay_result", ![p].generation = record.generation,
                              ![p].snap = [state |-> record.state, tx |-> None, amountOk |-> TRUE]]
    /\ UNCHANGED <<attempts, inbox, lock>>

\* A retryable error: nothing but its code is stored, and the provider may have
\* acted on the call whose answer was lost.
PrepayUnanswered(p) ==
    LET a == calls[p].attempt IN
    /\ At(p, "prepay_create")
    /\ "prepay" \in GatewayFaults
    /\ provider' \in {provider, [provider EXCEPT ![a] = Prepaid(@)]}
    /\ EndCall(p)
    /\ UNCHANGED <<attempts, inbox>>

\* An error that is not retryable fails the attempt, if the policy lets it.
PrepayRejected(p) ==
    LET a == calls[p].attempt IN
    /\ At(p, "prepay_create")
    /\ "rejected" \in GatewayFaults
    /\ DecideTransition(attempts[a].status, "failed", FALSE) = "apply"
    /\ attempts' = [attempts EXCEPT ![a] = Move(@, "failed", None)]
    /\ EndCall(p)
    /\ UNCHANGED <<provider, inbox>>

\* Mutant: the prepay ID that made the attempt payable is not stored with it.
WithPrepayForgotten(p) == [attempts EXCEPT ![calls[p].attempt].prepay = 0]

\* The table with the prepay result staged.
WithPrepay(p) == [attempts EXCEPT ![calls[p].attempt].prepay = calls[p].generation]

\* The provider waits for the payment: created becomes pending.
PrepayStore(p) ==
    LET a == calls[p].attempt IN
    /\ At(p, "prepay_result")
    /\ calls[p].snap.state = "NOTPAY"
    /\ attempts' = IF attempts[a].status = "created"
                   THEN [WithPrepay(p) EXCEPT ![a] = Move(@, "pending", None)]
                   ELSE WithPrepay(p)
    /\ EndCall(p)
    /\ UNCHANGED <<provider, inbox>>

\* The order moved on at the provider. A failure of this query is not caught.
PrepayLateQuery(p) ==
    /\ At(p, "prepay_result")
    /\ calls[p].snap.state # "NOTPAY"
    /\ \/ Query(p, "prepay_late") /\ UNCHANGED lock
       \/ QueryFails(p) /\ EndCall(p)
    /\ UNCHANGED <<attempts, provider, inbox>>

\* The session does not flush on its own, and a success re-reads all rows of the
\* order under the lock: the prepay staged before is then overwritten and lost.
StagedPrepay(p) ==
    IF StatusFor(calls[p].snap.state) = "succeeded" THEN attempts ELSE WithPrepay(p)

PrepayLate(p) ==
    LET a == calls[p].attempt IN
    /\ At(p, "prepay_late")
    /\ IF Contradicts(p) THEN UNCHANGED attempts
       ELSE attempts' = Applied(StagedPrepay(p), a, calls[p].snap)
    /\ EndCall(p)
    /\ UNCHANGED <<provider, inbox>>

EnsurePrepay(p) ==
    \/ PrepayLock(p) \/ PrepayQuery(p) \/ PrepayObserve(p)
    \/ PrepayCreate(p) \/ PrepayUnanswered(p) \/ PrepayRejected(p)
    \/ PrepayStore(p) \/ PrepayLateQuery(p) \/ PrepayLate(p)

-----------------------------------------------------------------------------
(* reconcile                                                                 *)

Reconcile(p, a) ==
    /\ At(p, "idle")
    /\ Exists(attempts, a)
    /\ LockOrder(p, attempts[a].req.order)
    /\ calls' = [calls EXCEPT ![p].pc = "reconcile_query", ![p].attempt = a]
    /\ UNCHANGED <<attempts, provider, inbox>>

ReconcileQuery(p) ==
    /\ At(p, "reconcile_query")
    /\ \/ Query(p, "reconcile_apply") /\ UNCHANGED lock
       \/ QueryFails(p) /\ EndCall(p)
    /\ UNCHANGED <<attempts, provider, inbox>>

\* A prepay whose local half was lost is recovered in a second transaction.
ReconcileApply(p) ==
    LET a == calls[p].attempt IN
    /\ At(p, "reconcile_apply")
    /\ IF Contradicts(p)
       THEN EndCall(p) /\ UNCHANGED attempts
       ELSE /\ attempts' = Observed(p)
            /\ IF StatusAfter(p) = "created" /\ calls[p].snap.state = "NOTPAY"
               THEN ThenEnsurePrepay(p, a) ELSE EndCall(p)
    /\ UNCHANGED <<provider, inbox>>

-----------------------------------------------------------------------------
(* close: query first, close what is unpaid, confirm before storing it       *)

Close(p, a) ==
    /\ At(p, "idle")
    /\ Exists(attempts, a)
    /\ attempts[a].status \in Active
    /\ LockOrder(p, attempts[a].req.order)
    /\ calls' = [calls EXCEPT ![p].pc = "close_query", ![p].attempt = a]
    /\ UNCHANGED <<attempts, provider, inbox>>

CloseQuery(p) ==
    /\ At(p, "close_query")
    /\ \/ Query(p, "close_observe") /\ UNCHANGED lock
       \/ QueryFails(p) /\ EndCall(p)
    /\ UNCHANGED <<attempts, provider, inbox>>

CloseObserve(p) ==
    /\ At(p, "close_observe")
    /\ CASE Contradicts(p) -> EndCall(p) /\ UNCHANGED attempts
         [] ~Contradicts(p) /\ StatusAfter(p) \in Active ->
              Goto(p, "close_call") /\ UNCHANGED <<attempts, lock>>
         [] OTHER -> attempts' = Observed(p) /\ EndCall(p)
    /\ UNCHANGED <<provider, inbox>>

\* gateway.close_payment leaves a paid order alone.
ClosedAt(record) ==
    IF record.state \in PaidStates THEN record ELSE [record EXCEPT !.state = "CLOSED"]

\* The call may fail before or after it took effect.
CloseCall(p) ==
    LET a == calls[p].attempt
        done == [provider EXCEPT ![a] = ClosedAt(@)] IN
    /\ At(p, "close_call")
    /\ \/ provider' = done /\ Goto(p, "close_confirm")
       \/ /\ "close" \in GatewayFaults
          /\ provider' \in {provider, done}
          /\ Goto(p, "close_recover")
    /\ UNCHANGED <<attempts, inbox, lock>>

CloseConfirm(p) ==
    /\ At(p, "close_confirm")
    /\ \/ Query(p, "close_commit")
       \/ QueryFails(p) /\ Goto(p, "close_recover")
    /\ UNCHANGED <<attempts, provider, inbox, lock>>

\* Query once more, so that a payment which won the race is not lost.
CloseRecover(p) ==
    /\ At(p, "close_recover")
    /\ \/ Query(p, "close_recovered") /\ UNCHANGED lock
       \/ QueryFails(p) /\ EndCall(p)
    /\ UNCHANGED <<attempts, provider, inbox>>

\* Mutant: the provider's confirmation is taken for granted.
CloseOutcomeAssumed(p) ==
    [attempts EXCEPT ![calls[p].attempt] =
        [Move(@, "closed", None) EXCEPT !.closeReason = "merchant_requested"]]

\* The rows with the last snapshot applied and the merchant's reason stored.
CloseOutcome(p) ==
    IF StatusAfter(p) = "closed"
    THEN [Observed(p) EXCEPT ![calls[p].attempt].closeReason = "merchant_requested"]
    ELSE Observed(p)

\* Anything but closed or succeeded is rolled back.
CloseCommit(p) ==
    /\ At(p, "close_commit") \/ At(p, "close_recovered")
    /\ IF ~Contradicts(p) /\ CloseOutcome(p)[calls[p].attempt].status \in {"closed", "succeeded"}
       THEN attempts' = CloseOutcome(p) ELSE UNCHANGED attempts
    /\ EndCall(p)
    /\ UNCHANGED <<provider, inbox>>

-----------------------------------------------------------------------------
(* process_notification                                                      *)

\* What a verified body can say: the truth of a paid order, however late and
\* however often it is delivered, or one of the anomalies the service rejects.
\* Attempt None is a merchant order number no local attempt has.
Notifications(e) ==
    {[event |-> e, attempt |-> a, snap |-> [state |-> "SUCCESS", tx |-> t, amountOk |-> ok]] :
        a \in Attempts \cup {None}, t \in Attempts, ok \in BOOLEAN}

Deliverable(m) ==
    /\ IF m.attempt = None THEN "order" \in Anomalies ELSE provider[m.attempt].paid
    /\ m.snap.tx = m.attempt \/ m.attempt = None \/ "transaction" \in Anomalies
    /\ m.snap.amountOk \/ "amount" \in Anomalies

\* An event ID found in the inbox is answered from the inbox.
NotifyLookup(p, m) ==
    /\ At(p, "idle")
    /\ Deliverable(m)
    /\ inbox[m.event] = None
    /\ calls' = [calls EXCEPT ![p] = [IdleCall EXCEPT
            !.pc = "notify_lock", !.attempt = m.attempt, !.event = m.event, !.snap = m.snap]]
    /\ UNCHANGED <<attempts, provider, inbox, lock>>

Receipt(p, result) ==
    [attempt |-> calls[p].attempt, snap |-> calls[p].snap, result |-> result]

\* Mutant: no unique constraint on the event ID.
StoredTwice(p, result) == inbox' = [inbox EXCEPT ![calls[p].event] = Receipt(p, result)]

\* The receipt's unique constraint: the second writer of an event ID rolls back.
Stored(p, result) ==
    inbox' = [inbox EXCEPT ![calls[p].event] = IF @ = None THEN Receipt(p, result) ELSE @]

NotifyUnmatched(p) ==
    /\ At(p, "notify_lock")
    /\ calls[p].attempt = None
    /\ Stored(p, "ignored")
    /\ EndCall(p)
    /\ UNCHANGED <<attempts, provider>>

NotifyLock(p) ==
    /\ At(p, "notify_lock")
    /\ calls[p].attempt # None
    /\ LockOrder(p, OrderOf(p))
    /\ Goto(p, "notify_apply")
    /\ UNCHANGED <<attempts, provider, inbox>>

NotifyApply(p) ==
    /\ At(p, "notify_apply")
    /\ calls' = [calls EXCEPT ![p].pc = "notify_commit",
                              ![p].verdict = IF Contradicts(p) THEN "rejected" ELSE "processed"]
    /\ UNCHANGED <<attempts, provider, inbox, lock>>

\* Mutant: no unique constraint on the transaction ID.
TransactionNeverTaken(p) == FALSE

\* Another transaction attached the same transaction ID since the check.
TransactionTaken(p) ==
    /\ calls[p].verdict = "processed"
    /\ \E b \in Attempts \ {calls[p].attempt} : attempts[b].tx = calls[p].snap.tx

\* Receipt and transition commit together, or the receipt alone when rejected.
NotifyCommit(p) ==
    /\ At(p, "notify_commit")
    /\ ~TransactionTaken(p)
    /\ IF inbox[calls[p].event] = None /\ calls[p].verdict = "processed"
       THEN attempts' = Observed(p) ELSE UNCHANGED attempts
    /\ Stored(p, calls[p].verdict)
    /\ EndCall(p)
    /\ UNCHANGED provider

\* IntegrityError on the transaction ID: start again once, then give up.
NotifyRetry(p) ==
    /\ At(p, "notify_commit")
    /\ TransactionTaken(p)
    /\ IF calls[p].retried \/ inbox[calls[p].event] # None
       THEN EndCall(p)
       ELSE /\ calls' = [calls EXCEPT ![p].pc = "notify_lock", ![p].verdict = "none",
                                      ![p].retried = TRUE]
            /\ lock' = Unlocked(p)
    /\ UNCHANGED <<attempts, provider, inbox>>

-----------------------------------------------------------------------------
(* The provider, time and crashes                                            *)

\* The customer pays, the order is closed or times out; set_trade_state does
\* the same by hand. The transaction ID and the success time stay.
SetTradeState(a, to) ==
    /\ <<provider[a].state, to>> \in ProviderMoves
    /\ provider' = [provider EXCEPT ![a].state = to, ![a].paid = @ \/ to \in PaidStates]
    /\ UNCHANGED <<attempts, inbox, lock, calls>>

\* The current prepay passes its expiry time. Bound: MaxGeneration.
Expire(a) ==
    /\ provider[a].expired < provider[a].generation
    /\ provider[a].generation < MaxGeneration
    /\ provider' = [provider EXCEPT ![a].expired = provider[a].generation]
    /\ UNCHANGED <<attempts, inbox, lock, calls>>

\* The worker dies or the connection drops: PostgreSQL rolls back and unlocks.
Crash(p) ==
    /\ ~At(p, "idle")
    /\ EndCall(p)
    /\ UNCHANGED <<attempts, provider, inbox>>

Begin(p) ==
    \/ \E r \in Requests : CreateLookup(p, r) \/ CreateReplayed(p, r)
    \/ \E a \in Attempts : Refresh(p, a) \/ Reconcile(p, a) \/ Close(p, a)
    \/ \E e \in Events : \E m \in Notifications(e) : NotifyLookup(p, m)

Continue(p) ==
    \/ CreateRead(p) \/ CreateLock(p) \/ CreateInsert(p) \/ CreateConflict(p)
    \/ CreateOutOfBound(p)
    \/ EnsurePrepay(p)
    \/ ReconcileQuery(p) \/ ReconcileApply(p)
    \/ CloseQuery(p) \/ CloseObserve(p) \/ CloseCall(p) \/ CloseConfirm(p)
    \/ CloseRecover(p) \/ CloseCommit(p)
    \/ NotifyUnmatched(p) \/ NotifyLock(p) \/ NotifyApply(p) \/ NotifyCommit(p)
    \/ NotifyRetry(p)

Next ==
    \/ \E p \in Procs : Begin(p) \/ Continue(p) \/ Crash(p)
    \/ \E a \in Attempts : Expire(a) \/ \E to \in TradeStates : SetTradeState(a, to)

Spec == Init /\ [][Next]_vars

-----------------------------------------------------------------------------
(* Fairness. A started request keeps running: its thread is scheduled, and   *)
(* PostgreSQL queues the waiters of a row lock, so the lock it waits for is  *)
(* granted as often as it is released.                                       *)

FairSpec == Spec /\ \A p \in Procs : SF_vars(Continue(p))

-----------------------------------------------------------------------------
(* Properties.                                                               *)

Reviews == {"none", "success_with_active_attempt", "multiple_successful_attempts"}

Rows ==
    [status : Statuses \cup {"absent"}, req : Requests \cup {None},
     prepay : 0..MaxGeneration, tx : Attempts \cup {None}, review : Reviews,
     closeReason : {"none", "merchant_requested"},
     history : Seq((Statuses \cup {"none"}) \X Statuses)]

Snapshots == [state : TradeStates, tx : Attempts \cup {None}, amountOk : BOOLEAN]

Records ==
    [state : TradeStates \cup {"unknown"}, generation : 0..MaxGeneration,
     expired : 0..MaxGeneration, paid : BOOLEAN]

Receipts ==
    [attempt : Attempts \cup {None}, snap : Snapshots,
     result : {"processed", "ignored", "rejected"}]

\* The steps taken while the call holds its order's row lock.
LockedPcs ==
    {"prepay_query", "prepay_observe", "prepay_create", "prepay_result", "prepay_late",
     "reconcile_query", "reconcile_apply",
     "close_query", "close_observe", "close_call", "close_confirm", "close_recover",
     "close_recovered", "close_commit", "notify_apply", "notify_commit"}

FreePcs == {"idle", "create_read", "create_lock", "create_insert", "prepay_lock", "notify_lock"}

Calls ==
    [pc : LockedPcs \cup FreePcs, attempt : Attempts \cup {None},
     req : Requests \cup {None}, seen : SUBSET Attempts, event : Events \cup {None},
     snap : Snapshots \cup {None}, generation : 0..MaxGeneration,
     verdict : {"none", "processed", "rejected"}, retried : BOOLEAN]

\* Every variable has its type.
TypeOK ==
    /\ attempts \in [Attempts -> Rows]
    /\ provider \in [Attempts -> Records]
    /\ inbox \in [Events -> Receipts \cup {None}]
    /\ lock \in [Orders -> Procs \cup {None}]
    /\ calls \in [Procs -> Calls]

\* The steps that use the snapshot the call has read.
SnapPcs ==
    {"prepay_observe", "prepay_result", "prepay_late", "reconcile_apply", "close_observe",
     "close_commit", "close_recovered", "notify_lock", "notify_apply", "notify_commit"}

\* What a call has read stays true while it works: its attempt exists, its
\* request and snapshot are there when they are used, and from the lock statement
\* to the commit the lock of the attempt's order is its own.
CallConsistent(p) ==
    LET c == calls[p] IN
    /\ c.pc \in {"create_read", "create_lock", "create_insert"} => c.req \in Requests
    /\ c.pc \in LockedPcs \cup {"prepay_lock"} => c.attempt \in Attempts
    /\ c.attempt \in Attempts => Exists(attempts, c.attempt)
    /\ c.pc \in SnapPcs => c.snap \in Snapshots
    /\ c.pc \in {"notify_lock", "notify_apply", "notify_commit"} => c.event \in Events
    /\ c.pc = "notify_commit" => c.verdict # "none"
    /\ c.pc \in LockedPcs => lock[attempts[c.attempt].req.order] = p

\* The provider knows only orders of stored attempts.
RecordConsistent(a) ==
    /\ provider[a].state # "unknown" => Exists(attempts, a)
    /\ provider[a].paid => provider[a].state # "unknown"
    /\ provider[a].expired < MaxGeneration

CallsConsistent ==
    /\ \A a \in Attempts : RecordConsistent(a)
    /\ \A a \in Attempts : Exists(attempts, a) => attempts[a].req \in Requests
    /\ \A p \in Procs : CallConsistent(p)

SameOrder(a, b) ==
    Exists(attempts, a) /\ Exists(attempts, b) /\ attempts[a].req.order = attempts[b].req.order

\* An order never has two active attempts (created or pending), whoever creates,
\* retries, closes or settles them concurrently.
OneActiveAttempt ==
    \A a, b \in Attempts :
        /\ SameOrder(a, b)
        /\ attempts[a].status \in Active /\ attempts[b].status \in Active
        => a = b

\* One idempotency key names one attempt, whatever requests raced with it.
OneAttemptPerKey ==
    \A a, b \in Attempts :
        /\ Exists(attempts, a) /\ Exists(attempts, b)
        /\ attempts[a].req.key = attempts[b].req.key
        => a = b

\* When the provider charged an order twice, both successes are kept and both
\* carry the strongest review reason, in whichever order they were learnt.
DoubleSuccessUnderReview ==
    \A a, b \in Attempts :
        /\ a # b /\ SameOrder(a, b)
        /\ attempts[a].status = "succeeded" /\ attempts[b].status = "succeeded"
        => attempts[a].review = "multiple_successful_attempts"

\* An attempt is succeeded exactly when it carries a transaction, no two
\* attempts share one, and the provider did record a payment of that attempt.
SuccessIsProven ==
    \A a \in Attempts :
        /\ attempts[a].status = "succeeded" <=> attempts[a].tx # None
        /\ attempts[a].tx # None => provider[a].paid
        /\ \A b \in Attempts \ {a} : attempts[a].tx # None => attempts[a].tx # attempts[b].tx

\* A pending attempt is payable: its prepay is one the provider issued. A created
\* one has none, however often its creation at the provider was interrupted.
PrepayIsIssued ==
    \A a \in Attempts :
        /\ attempts[a].status = "created" => attempts[a].prepay = 0
        /\ attempts[a].status = "pending" => attempts[a].prepay > 0
        /\ attempts[a].prepay <= provider[a].generation

\* Close and payment race, but no attempt is ever stored as closed that the
\* provider did not finally close (where the provider's end states are final).
ClosedMeansUnpaid ==
    \A a \in Attempts : attempts[a].status = "closed" => provider[a].state = "CLOSED"

\* The merchant's reason is kept only by an attempt that is still closed.
CloseReasonOfClosed ==
    \A a \in Attempts : attempts[a].closeReason # "none" => attempts[a].status = "closed"

\* A receipt says "processed" only if its transaction is the one the attempt has,
\* and a notification of another amount or transaction is never processed.
ReceiptsBacked ==
    \A e \in Events :
        inbox[e] # None /\ inbox[e].result = "processed" =>
            /\ attempts[inbox[e].attempt].status = "succeeded"
            /\ attempts[inbox[e].attempt].tx = inbox[e].snap.tx
            /\ inbox[e].snap.amountOk

\* The append-only history of an attempt is a chain from its creation to its
\* present status.
HistoryIsChain ==
    \A a \in Attempts :
        LET h == attempts[a].history IN
        Exists(attempts, a) =>
            /\ Len(h) > 0 /\ h[1][1] = "none" /\ h[Len(h)][2] = attempts[a].status
            /\ \A i \in 2..Len(h) : h[i][1] = h[i - 1][2]

\* An anomaly is recorded after the success that revealed it: among the review
\* entries of an order there is always one made by an attempt already succeeded.
ReviewFollowsSuccess ==
    \A a \in Attempts : attempts[a].review # "none" =>
        \E b \in Attempts :
            /\ SameOrder(a, b)
            /\ \E i \in DOMAIN attempts[b].history :
                    attempts[b].history[i] = <<"succeeded", "succeeded">>

\* Success is final with its transaction, and a closed or failed attempt can
\* only ever be corrected to succeeded.
SuccessNeverRegresses ==
    [][\A a \in Attempts :
        /\ attempts[a].status = "succeeded" =>
               attempts'[a].status = "succeeded" /\ attempts'[a].tx = attempts[a].tx
        /\ attempts[a].status \in {"closed", "failed"} =>
               attempts'[a].status \in {attempts[a].status, "succeeded"}]_vars

\* Rows of an existing attempt change only when a transaction holding its order's
\* lock commits, which is what lets a call compute its writes from stored rows.
RowsChangeUnderLock ==
    [][\A a \in Attempts :
        Exists(attempts, a) /\ attempts'[a] # attempts[a] =>
            /\ lock[attempts[a].req.order] # None
            /\ lock'[attempts[a].req.order] = None]_vars

\* A receipt is never changed or replaced by a redelivery or a reused event ID.
ReceiptsFinal ==
    [][\A e \in Events : inbox[e] # None => inbox'[e] = inbox[e]]_vars

\* A further attempt is added to an order only as a retry: every earlier attempt
\* is closed or failed and has the same owner, amount and currency.
RetryOnlyAfterEnd ==
    [][\A a, b \in Attempts :
        /\ ~Exists(attempts, a) /\ Exists(attempts, b)
        /\ attempts'[a].status # "absent"
        /\ attempts'[a].req.order = attempts[b].req.order
        => /\ attempts[b].status \in {"closed", "failed"}
           /\ attempts'[a].req.terms = attempts[b].req.terms]_vars

\* Every request ends and gives its locks back: nobody waits forever.
EveryCallEnds == \A p \in Procs : ~At(p, "idle") ~> At(p, "idle")

ReconcileAnswered(a) == \E p \in Procs : calls[p].attempt = a /\ ReconcileApply(p)

\* Reconciliation is enough: an attempt that is reconciled, and answered by the
\* provider, again and again has its payment recorded, though every notification
\* is lost and whatever refreshing, closing and crashing has made of the attempt in
\* between. That somebody goes on reconciling is a condition of the property and not
\* assumed of the code, which reconciles only on request (payments.py:137-152).
PaidIsRecorded ==
    \A a \in Attempts :
        []<><<ReconcileAnswered(a)>>_vars =>
            (provider[a].paid ~> attempts[a].status = "succeeded")

=============================================================================
