------------------------- MODULE PaymentsSafetyProofs -------------------------
(* Safety of the payment service for every value of the constants: what one   *)
(* step may do to the rows of payment_attempts, and the properties that follow.*)
EXTENDS PaymentsProofs

\* The policy of one row in one commit: the request is kept, and the status and
\* the transaction change only by an allowed transition, success bringing the
\* transaction.
RowPolicy(old, new) ==
    /\ new.req = old.req
    /\ new.status \in Statuses
    /\ \/ new.status = old.status /\ new.tx = old.tx
       \/ /\ DecideTransition(old.status, new.status, TRUE) = "apply"
          /\ new.status # "succeeded" => new.tx = old.tx

\* The rows of order o follow the policy and no other row changes.
OrderPolicy(table, o) ==
    \A a \in Attempts :
        IF Exists(attempts, a) /\ attempts[a].req.order = o
        THEN RowPolicy(attempts[a], table[a])
        ELSE table[a] = attempts[a]

\* A transaction that held the lock of order o commits its rows.
Committed(o) ==
    /\ lock[o] # None /\ lock'[o] = None
    /\ OrderPolicy(attempts', o)

\* What any step does to the rows.
RowsStep ==
    \/ UNCHANGED attempts
    \/ \E o \in Orders : Committed(o)
    \/ \E p \in Procs : CreateInsert(p)

-----------------------------------------------------------------------------

LEMMA ProcNotNone == None \notin Procs
BY PaymentsAssumption

\* The end of a transaction frees the lock of the order it worked on.
LEMMA EndFrees ==
    ASSUME Inv, NEW p \in Procs, calls[p].pc \in LockedPcs, lock' = Unlocked(p)
    PROVE  LET o == attempts[calls[p].attempt].req.order IN
           o \in Orders /\ lock[o] # None /\ lock'[o] = None
BY LockedCall, ProcNotNone DEF Unlocked

\* Keeping a row's status and transaction follows the policy.
LEMMA SameFollows ==
    ASSUME Inv, NEW o, NEW table,
           \A a \in Attempts :
              /\ Exists(attempts, a) /\ attempts[a].req.order = o =>
                    /\ table[a].req = attempts[a].req
                    /\ table[a].status = attempts[a].status /\ table[a].tx = attempts[a].tx
              /\ ~(Exists(attempts, a) /\ attempts[a].req.order = o) => table[a] = attempts[a]
    PROVE  OrderPolicy(table, o)
BY DEF Inv, TypeOK, OrderPolicy, RowPolicy, Exists, Rows

\* One row of the order is replaced by a row that follows the policy.
LEMMA OneRowFollows ==
    ASSUME Inv, NEW a \in Attempts, Exists(attempts, a), NEW row,
           RowPolicy(attempts[a], row)
    PROVE  OrderPolicy([attempts EXCEPT ![a] = row], attempts[a].req.order)
<1>1. attempts \in [Attempts -> Rows]
  BY DEF Inv, TypeOK
<1>2. \A b \in Attempts \ {a} : Exists(attempts, b) => RowPolicy(attempts[b], attempts[b])
  BY <1>1 DEF RowPolicy, Exists, Rows
<1> QED
  BY <1>1, <1>2 DEF OrderPolicy

\* A table in which at most another prepay is staged for attempt a.
Staged(table, a) ==
    /\ table \in [Attempts -> Rows]
    /\ \A b \in Attempts : /\ table[b].status = attempts[b].status
                           /\ table[b].req = attempts[b].req
                           /\ table[b].tx = attempts[b].tx
                           /\ b # a => table[b] = attempts[b]

\* An applied snapshot follows the policy, whatever prepay was staged before it.
LEMMA AppliedFollows ==
    ASSUME Inv, NEW a \in Attempts, Exists(attempts, a), NEW snap \in Snapshots,
           NEW table, Staged(table, a)
    PROVE  OrderPolicy(Applied(table, a, snap), attempts[a].req.order)
<1> DEFINE o == attempts[a].req.order
           new == Applied(table, a, snap)
           target == StatusFor(snap.state)
<1>0. /\ table \in [Attempts -> Rows]
      /\ \A b \in Attempts : /\ table[b].status = attempts[b].status
                             /\ table[b].req = attempts[b].req
                             /\ table[b].tx = attempts[b].tx
                             /\ b # a => table[b] = attempts[b]
  BY DEF Staged
<1>1. attempts \in [Attempts -> Rows] /\ Exists(table, a)
  BY <1>0 DEF Inv, TypeOK, Exists
<1>2. \A b \in Attempts : new[b].req = table[b].req
  BY <1>0, <1>1, AppliedType
<1>8. \A b \in Attempts : b # a => new[b].status = table[b].status /\ new[b].tx = table[b].tx
  BY <1>0, <1>1, AppliedType
<1>9. ASSUME NEW b \in Attempts, b # a, b \notin Siblings(table, a)
      PROVE  new[b] = table[b]
  BY <1>9 DEF Applied, Related
<1>10. new[a].status \in Statuses
  BY <1>0, <1>1, AppliedType
<1>7. \/ new[a].status = table[a].status /\ new[a].tx = table[a].tx
      \/ /\ new[a].status = target
         /\ DecideTransition(table[a].status, target, TRUE) = "apply"
         /\ new[a].tx = IF target = "succeeded" THEN snap.tx ELSE table[a].tx
  BY <1>0, <1>1, AppliedType
<1> HIDE DEF new, target
<1>3. RowPolicy(attempts[a], new[a])
  BY <1>0, <1>2, <1>7, <1>10 DEF RowPolicy
<1>4. ASSUME NEW b \in Attempts, b # a, Exists(attempts, b), attempts[b].req.order = o
      PROVE  RowPolicy(attempts[b], new[b])
  <2>1. /\ new[b].req = attempts[b].req /\ new[b].status = attempts[b].status
        /\ new[b].tx = attempts[b].tx
    BY <1>0, <1>2, <1>4, <1>8
  <2>2. attempts[b].status \in Statuses
    BY <1>1, <1>4 DEF Exists, Rows
  <2> QED
    BY <2>1, <2>2 DEF RowPolicy
<1>5. ASSUME NEW b \in Attempts, ~(Exists(attempts, b) /\ attempts[b].req.order = o)
      PROVE  new[b] = attempts[b]
  <2>1. b # a
    BY <1>5
  <2>2. b \notin Siblings(table, a)
    BY <1>0, <1>5 DEF Siblings, Exists
  <2> QED
    BY <1>0, <2>1, <2>2, <1>9
<1>6. \A b \in Attempts :
         IF Exists(attempts, b) /\ attempts[b].req.order = o
         THEN RowPolicy(attempts[b], new[b]) ELSE new[b] = attempts[b]
  BY <1>3, <1>4, <1>5
<1> QED
  BY <1>6 DEF OrderPolicy, new

LEMMA ObservedFollows ==
    ASSUME Inv, NEW p \in Procs, calls[p].pc \in LockedPcs, calls[p].pc \in SnapPcs
    PROVE  OrderPolicy(Observed(p), attempts[calls[p].attempt].req.order)
<1>1. Staged(attempts, calls[p].attempt)
  BY DEF Staged, Inv, TypeOK
<1> QED
  BY <1>1, LockedCall, AppliedFollows DEF Observed

\* A call that works under its lock and commits rows that follow the policy.
LEMMA CommitRows ==
    ASSUME Inv, NEW p \in Procs, calls[p].pc \in LockedPcs, lock' = Unlocked(p),
           OrderPolicy(attempts', attempts[calls[p].attempt].req.order)
    PROVE  RowsStep
BY EndFrees DEF RowsStep, Committed

LEMMA SameRows == UNCHANGED attempts => RowsStep
BY DEF RowsStep

LEMMA PrepayRows ==
    ASSUME Inv, NEW p \in Procs, EnsurePrepay(p)
    PROVE  RowsStep
<1> DEFINE a == calls[p].attempt
<1>1. CASE PrepayLock(p) \/ PrepayQuery(p) \/ PrepayCreate(p) \/ PrepayUnanswered(p)
           \/ PrepayLateQuery(p)
  BY <1>1, SameRows
     DEF PrepayLock, PrepayQuery, PrepayCreate, PrepayUnanswered, PrepayLateQuery
<1>2. CASE PrepayObserve(p)
  <2>1. calls[p].pc \in LockedPcs /\ calls[p].pc \in SnapPcs
    BY <1>2 DEF PrepayObserve, At, LockedPcs, SnapPcs
  <2>2. UNCHANGED attempts \/ (attempts' = Observed(p) /\ lock' = Unlocked(p))
    BY <1>2 DEF PrepayObserve, EndCall
  <2> QED
    BY <2>1, <2>2, ObservedFollows, CommitRows, SameRows
<1>3. CASE PrepayRejected(p)
  <2>1. calls[p].pc \in LockedPcs
    BY <1>3 DEF PrepayRejected, At, LockedPcs
  <2>2. a \in Attempts /\ Exists(attempts, a) /\ attempts[a] \in Rows
    BY <2>1, LockedCall DEF Inv, TypeOK
  <2>3. attempts[a].status \in Statuses
    BY <2>2 DEF Rows, Exists
  <2> DEFINE row == Move(attempts[a], "failed", None)
  <2>4. row.status = "failed" /\ row.req = attempts[a].req /\ row.tx = attempts[a].tx
    BY <2>2, <2>3, MoveType DEF Statuses
  <2>5. DecideTransition(attempts[a].status, "failed", TRUE) = "apply"
    BY <1>3 DEF PrepayRejected, DecideTransition
  <2>6. attempts' = [attempts EXCEPT ![a] = row] /\ lock' = Unlocked(p)
    BY <1>3 DEF PrepayRejected, EndCall
  <2> HIDE DEF row
  <2>7. RowPolicy(attempts[a], row)
    BY <2>4, <2>5 DEF RowPolicy, Statuses
  <2> QED
    BY <2>1, <2>2, <2>6, <2>7, OneRowFollows, CommitRows
<1>4. CASE PrepayStore(p)
  <2>1. calls[p].pc \in LockedPcs
    BY <1>4 DEF PrepayStore, At, LockedPcs
  <2>2. a \in Attempts /\ Exists(attempts, a) /\ attempts \in [Attempts -> Rows]
    BY <2>1, LockedCall DEF Inv, TypeOK
  <2> DEFINE staged == [attempts[a] EXCEPT !.prepay = calls[p].generation]
             row == IF attempts[a].status = "created" THEN Move(staged, "pending", None)
                    ELSE staged
  <2>3. /\ staged \in Rows
        /\ staged.status = attempts[a].status /\ staged.req = attempts[a].req
        /\ staged.tx = attempts[a].tx
        /\ WithPrepay(p) = [attempts EXCEPT ![a] = staged]
    BY <2>1, WithPrepayType
  <2>4. attempts[a].status \in Statuses
    BY <2>2 DEF Rows, Exists
  <2>5. attempts' = [attempts EXCEPT ![a] = row] /\ lock' = Unlocked(p)
    BY <1>4, <2>2, <2>3 DEF PrepayStore, EndCall
  <2> HIDE DEF staged
  <2>6. /\ row.req = attempts[a].req /\ row.tx = attempts[a].tx
        /\ row.status = IF attempts[a].status = "created" THEN "pending"
                        ELSE attempts[a].status
    BY <2>3, <2>4, MoveType DEF Statuses
  <2>7. DecideTransition("created", "pending", TRUE) = "apply"
    BY DEF DecideTransition, AllowedTransitions
  <2> HIDE DEF row
  <2>8. RowPolicy(attempts[a], row)
    BY <2>4, <2>6, <2>7 DEF RowPolicy, Statuses
  <2> QED
    BY <2>1, <2>2, <2>5, <2>8, OneRowFollows, CommitRows
<1>5. CASE PrepayLate(p)
  <2>1. calls[p].pc \in LockedPcs /\ calls[p].pc \in SnapPcs
    BY <1>5 DEF PrepayLate, At, LockedPcs, SnapPcs
  <2>2. /\ a \in Attempts /\ Exists(attempts, a) /\ calls[p].snap \in Snapshots
        /\ attempts \in [Attempts -> Rows]
    BY <2>1, LockedCall DEF Inv, TypeOK
  <2> DEFINE staged == StagedPrepay(p)
  <2>3. Staged(staged, a)
    BY <2>1, <2>2, WithPrepayType DEF StagedPrepay, Staged
  <2>4. /\ lock' = Unlocked(p)
        /\ UNCHANGED attempts \/ attempts' = Applied(staged, a, calls[p].snap)
    BY <1>5 DEF PrepayLate, EndCall
  <2> HIDE DEF staged
  <2>5. OrderPolicy(Applied(staged, a, calls[p].snap), attempts[a].req.order)
    BY <2>2, <2>3, AppliedFollows
  <2> QED
    BY <2>1, <2>4, <2>5, CommitRows, SameRows
<1> QED
  BY <1>1, <1>2, <1>3, <1>4, <1>5 DEF EnsurePrepay

LEMMA CreateRows ==
    ASSUME Inv, NEW p \in Procs, Create(p)
    PROVE  RowsStep
BY DEF Create, RowsStep, CreateLookup, CreateReplayed, CreateRead, CreateLock, CreateConflict,
       CreateOutOfBound

LEMMA ReconcileRows ==
    ASSUME Inv, NEW p \in Procs, ReconcileCall(p)
    PROVE  RowsStep
<1>1. CASE ReconcileApply(p)
  <2>1. calls[p].pc \in LockedPcs /\ calls[p].pc \in SnapPcs
    BY <1>1 DEF ReconcileApply, At, LockedPcs, SnapPcs
  <2>2. UNCHANGED attempts \/ (attempts' = Observed(p) /\ lock' = Unlocked(p))
    BY <1>1 DEF ReconcileApply, EndCall, ThenEnsurePrepay
  <2> QED
    BY <2>1, <2>2, ObservedFollows, CommitRows, SameRows
<1>2. CASE UNCHANGED attempts
  BY <1>2, SameRows
<1> QED
  BY <1>1, <1>2 DEF ReconcileCall, Refresh, Reconcile, ReconcileQuery

\* The merchant's close reason touches neither status nor transaction.
LEMMA CloseOutcomeFollows ==
    ASSUME Inv, NEW p \in Procs, calls[p].pc \in LockedPcs, calls[p].pc \in SnapPcs
    PROVE  OrderPolicy(CloseOutcome(p), attempts[calls[p].attempt].req.order)
<1> DEFINE a == calls[p].attempt
           o == attempts[a].req.order
           new == Observed(p)
           marked == [new EXCEPT ![a] = [new[a] EXCEPT !.closeReason = "merchant_requested"]]
<1>1. OrderPolicy(new, o)
  BY ObservedFollows
<1>2. new \in [Attempts -> Rows] /\ a \in Attempts /\ Exists(attempts, a)
  BY ObservedKept, LockedCall
<1>3. CloseOutcome(p) = marked \/ CloseOutcome(p) = new
  BY DEF CloseOutcome
<1> HIDE DEF new, a
<1>4. /\ marked[a].status = new[a].status /\ marked[a].tx = new[a].tx
      /\ marked[a].req = new[a].req
  BY <1>2 DEF Rows
<1>5. \A b \in Attempts \ {a} : marked[b] = new[b]
  BY <1>2
<1> HIDE DEF marked
<1>6. OrderPolicy(marked, o)
  <2>1. ASSUME NEW b \in Attempts, RowPolicy(attempts[b], new[b])
        PROVE  RowPolicy(attempts[b], marked[b])
    BY <1>4, <1>5, <2>1 DEF RowPolicy
  <2>2. Exists(attempts, a) /\ attempts[a].req.order = o
    BY <1>2
  <2> QED
    BY <1>1, <1>5, <2>1, <2>2 DEF OrderPolicy
<1> QED
  BY <1>1, <1>3, <1>6 DEF a, new

LEMMA CloseRows ==
    ASSUME Inv, NEW p \in Procs, CloseCallStep(p)
    PROVE  RowsStep
<1>1. CASE CloseObserve(p)
  <2>1. calls[p].pc \in LockedPcs /\ calls[p].pc \in SnapPcs
    BY <1>1 DEF CloseObserve, At, LockedPcs, SnapPcs
  <2>2. UNCHANGED attempts \/ (attempts' = Observed(p) /\ lock' = Unlocked(p))
    BY <1>1 DEF CloseObserve, EndCall
  <2> QED
    BY <2>1, <2>2, ObservedFollows, CommitRows, SameRows
<1>2. CASE CloseCommit(p)
  <2>1. calls[p].pc \in LockedPcs /\ calls[p].pc \in SnapPcs
    BY <1>2 DEF CloseCommit, At, LockedPcs, SnapPcs
  <2>2. UNCHANGED attempts \/ (attempts' = CloseOutcome(p) /\ lock' = Unlocked(p))
    BY <1>2 DEF CloseCommit, EndCall
  <2> QED
    BY <2>1, <2>2, CloseOutcomeFollows, CommitRows, SameRows
<1>3. CASE UNCHANGED attempts
  BY <1>3, SameRows
<1> QED
  BY <1>1, <1>2, <1>3
     DEF CloseCallStep, Close, CloseQuery, CloseCall, CloseConfirm, CloseRecover

LEMMA NotifyRows ==
    ASSUME Inv, NEW p \in Procs, Notify(p)
    PROVE  RowsStep
<1>1. CASE NotifyCommit(p)
  <2>1. calls[p].pc \in LockedPcs /\ calls[p].pc \in SnapPcs
    BY <1>1 DEF NotifyCommit, At, LockedPcs, SnapPcs
  <2>2. UNCHANGED attempts \/ (attempts' = Observed(p) /\ lock' = Unlocked(p))
    BY <1>1 DEF NotifyCommit, EndCall
  <2> QED
    BY <2>1, <2>2, ObservedFollows, CommitRows, SameRows
<1>2. CASE UNCHANGED attempts
  BY <1>2, SameRows
<1> QED
  BY <1>1, <1>2 DEF Notify, NotifyLookup, NotifyUnmatched, NotifyLock, NotifyApply, NotifyRetry

\* Every step adds one attempt, or commits the rows of one locked order by the
\* policy, or leaves the rows alone.
LEMMA NextRows == Inv /\ [Next]_vars => RowsStep
<1> SUFFICES ASSUME Inv, [Next]_vars PROVE RowsStep
  OBVIOUS
<1>1. ASSUME NEW p \in Procs, Begin(p) \/ Continue(p) PROVE RowsStep
  <2>1. Create(p) \/ EnsurePrepay(p) \/ ReconcileCall(p) \/ CloseCallStep(p) \/ Notify(p)
    BY <1>1 DEF Begin, Continue, Create, ReconcileCall, CloseCallStep, Notify
  <2> QED
    BY <2>1, CreateRows, PrepayRows, ReconcileRows, CloseRows, NotifyRows
<1>2. ASSUME NEW p \in Procs, Crash(p) PROVE RowsStep
  BY <1>2, SameRows DEF Crash
<1>3. ASSUME NEW a \in Attempts, Expire(a) \/ \E to \in TradeStates : SetTradeState(a, to)
      PROVE  RowsStep
  BY <1>3, SameRows DEF Expire, SetTradeState
<1>4. CASE UNCHANGED vars
  BY <1>4, SameRows DEF vars
<1> QED
  BY <1>1, <1>2, <1>3, <1>4 DEF Next

-----------------------------------------------------------------------------
(* What follows for single steps.                                            *)

\* A row that exists before and after a commit follows the policy or is untouched.
LEMMA RowStep ==
    ASSUME Inv, RowsStep, NEW a \in Attempts, Exists(attempts, a)
    PROVE  RowPolicy(attempts[a], attempts'[a])
<1>1. attempts[a] \in Rows /\ attempts[a].status \in Statuses
  BY DEF Inv, TypeOK, Rows, Exists
<1>2. CASE attempts'[a] = attempts[a]
  BY <1>1, <1>2 DEF RowPolicy
<1>3. CASE UNCHANGED attempts
  BY <1>2, <1>3
<1>4. ASSUME NEW o \in Orders, Committed(o) PROVE RowPolicy(attempts[a], attempts'[a])
  BY <1>2, <1>4 DEF Committed, OrderPolicy
<1>5. ASSUME NEW p \in Procs, CreateInsert(p) PROVE attempts'[a] = attempts[a]
  BY <1>5 DEF CreateInsert
<1> QED
  BY <1>2, <1>3, <1>4, <1>5 DEF RowsStep

\* A row that appears is a new attempt that the unique constraints admitted.
LEMMA NewRow ==
    ASSUME Inv, RowsStep, NEW a \in Attempts, ~Exists(attempts, a), Exists(attempts', a)
    PROVE  \E r \in Requests : /\ Insertable(r)
                               /\ attempts' = [attempts EXCEPT ![a] = NewAttempt(r)]
<1>1. CASE UNCHANGED attempts
  BY <1>1
<1>2. ASSUME NEW o \in Orders, Committed(o) PROVE FALSE
  BY <1>2 DEF Committed, OrderPolicy, Exists
<1>3. ASSUME NEW p \in Procs, CreateInsert(p)
      PROVE  \E r \in Requests : /\ Insertable(r)
                                 /\ attempts' = [attempts EXCEPT ![a] = NewAttempt(r)]
  <2> DEFINE r == calls[p].req
  <2>1. r \in Requests /\ attempts \in [Attempts -> Rows]
    BY <1>3 DEF CreateInsert, At, Inv, TypeOK, CallsConsistent, CallConsistent
  <2>2. PICK b \in Attempts : attempts' = [attempts EXCEPT ![b] = NewAttempt(r)]
    BY <1>3 DEF CreateInsert
  <2>3. a = b
    BY <2>1, <2>2 DEF Exists
  <2> QED
    BY <1>3, <2>1, <2>2, <2>3 DEF CreateInsert
<1> QED
  BY <1>1, <1>2, <1>3 DEF RowsStep

\* Success is final with its transaction, and a closed or failed attempt is only
\* ever corrected to succeeded, whichever call (reconcile, close, refresh or a
\* notification) brings whatever observation in whatever order.
THEOREM SuccessIsFinal == Spec => SuccessNeverRegresses
<1> DEFINE Step(a) ==
        /\ attempts[a].status = "succeeded" =>
               attempts'[a].status = "succeeded" /\ attempts'[a].tx = attempts[a].tx
        /\ attempts[a].status \in {"closed", "failed"} =>
               attempts'[a].status \in {attempts[a].status, "succeeded"}
<1>1. ASSUME Inv, [Next]_vars, NEW a \in Attempts PROVE Step(a)
  <2>1. CASE Exists(attempts, a)
    <3>1. RowPolicy(attempts[a], attempts'[a])
      BY <1>1, <2>1, NextRows, RowStep
    <3> QED
      BY <3>1 DEF RowPolicy, DecideTransition, AllowedTransitions
  <2>2. CASE ~Exists(attempts, a)
    BY <2>2 DEF Exists
  <2> QED
    BY <2>1, <2>2
<1>2. Inv /\ [Next]_vars => [\A a \in Attempts : Step(a)]_vars
  BY <1>1
<1> QED
  BY <1>2, Consistent, PTL DEF Spec, SuccessNeverRegresses

\* The row of an existing attempt changes only in a step that commits a
\* transaction holding the row locks of its order (_lock_order_attempts), so what
\* a call computed from the rows it read is still right when it is stored.
THEOREM LockProtectsRows == Spec => RowsChangeUnderLock
<1> DEFINE Step(a) ==
        Exists(attempts, a) /\ attempts'[a] # attempts[a] =>
            /\ lock[attempts[a].req.order] # None
            /\ lock'[attempts[a].req.order] = None
<1>1. ASSUME Inv, [Next]_vars, NEW a \in Attempts PROVE Step(a)
  <2>1. CASE UNCHANGED attempts
    BY <2>1
  <2>2. ASSUME NEW o \in Orders, Committed(o) PROVE Step(a)
    BY <2>2 DEF Committed, OrderPolicy
  <2>3. ASSUME NEW p \in Procs, CreateInsert(p) PROVE Step(a)
    BY <2>3 DEF CreateInsert
  <2> QED
    BY <1>1, <2>1, <2>2, <2>3, NextRows DEF RowsStep
<1>2. Inv /\ [Next]_vars => [\A a \in Attempts : Step(a)]_vars
  BY <1>1
<1> QED
  BY <1>2, Consistent, PTL DEF Spec, RowsChangeUnderLock

-----------------------------------------------------------------------------
(* Uniqueness, and the receipts.                                             *)

\* An attempt that is active after a step was active before it or is new.
LEMMA ActiveBefore ==
    ASSUME Inv, RowsStep, NEW a \in Attempts, Exists(attempts, a),
           attempts'[a].status \in Active
    PROVE  attempts[a].status \in Active
<1>1. RowPolicy(attempts[a], attempts'[a]) /\ attempts[a].status \in Statuses
  BY RowStep DEF Inv, TypeOK, Rows, Exists
<1> QED
  BY <1>1 DEF RowPolicy, DecideTransition, AllowedTransitions, Active, Statuses

\* An order never has two active attempts: the partial unique index admits a new
\* one only next to ended ones, and the policy never makes an ended one active.
THEOREM OneActiveAlways == Spec => []OneActiveAttempt
<1>1. Init => OneActiveAttempt
  BY DEF Init, OneActiveAttempt, SameOrder, Exists, NoAttempt
<1>2. ASSUME Inv, OneActiveAttempt, [Next]_vars PROVE OneActiveAttempt'
  <2>1. RowsStep
    BY <1>2, NextRows
  <2>2. SUFFICES ASSUME NEW a \in Attempts, NEW b \in Attempts, SameOrder(a, b)',
                        attempts'[a].status \in Active, attempts'[b].status \in Active,
                        a # b
                 PROVE  FALSE
    BY DEF OneActiveAttempt
  <2>3. Exists(attempts', a) /\ Exists(attempts', b)
        /\ attempts'[a].req.order = attempts'[b].req.order
    BY <2>2 DEF SameOrder, Exists
  <2>4. attempts \in [Attempts -> Rows]
    BY <1>2 DEF Inv, TypeOK
  <2>5. CASE Exists(attempts, a) /\ Exists(attempts, b)
    <3>1. attempts[a].status \in Active /\ attempts[b].status \in Active
      BY <1>2, <2>1, <2>2, <2>5, ActiveBefore
    <3>2. attempts'[a].req = attempts[a].req /\ attempts'[b].req = attempts[b].req
      BY <1>2, <2>1, <2>5, RowStep DEF RowPolicy
    <3> QED
      BY <1>2, <2>2, <2>3, <2>5, <3>1, <3>2 DEF OneActiveAttempt, SameOrder
  <2>6. ASSUME NEW x \in Attempts, NEW y \in Attempts, x # y, ~Exists(attempts, x),
               Exists(attempts', x), Exists(attempts', y), attempts'[y].status \in Active,
               attempts'[x].req.order = attempts'[y].req.order
        PROVE  FALSE
    <3>1. PICK r \in Requests : /\ Insertable(r)
                                /\ attempts' = [attempts EXCEPT ![x] = NewAttempt(r)]
      BY <1>2, <2>1, <2>6, NewRow
    <3>2. attempts'[x].req = r /\ attempts'[y] = attempts[y]
      BY <2>4, <2>6, <3>1 DEF NewAttempt, NoAttempt
    <3>3. Exists(attempts, y)
      BY <2>6, <3>2 DEF Exists
    <3>4. y \in OfOrder(r.order)
      BY <2>6, <3>2, <3>3 DEF OfOrder
    <3> QED
      BY <2>6, <3>1, <3>2, <3>4 DEF Insertable
  <2> QED
    BY <2>2, <2>3, <2>5, <2>6
<1>3. Inv /\ OneActiveAttempt /\ [Next]_vars => OneActiveAttempt'
  BY <1>2
<1> QED
  BY <1>1, <1>3, Consistent, PTL DEF Spec

\* One idempotency key names one attempt: the unique constraint is evaluated at
\* the commit of create, and no later commit changes a row's request.
THEOREM OneKeyAlways == Spec => []OneAttemptPerKey
<1>1. Init => OneAttemptPerKey
  BY DEF Init, OneAttemptPerKey, Exists, NoAttempt
<1>2. ASSUME Inv, OneAttemptPerKey, [Next]_vars PROVE OneAttemptPerKey'
  <2>1. RowsStep
    BY <1>2, NextRows
  <2>2. SUFFICES ASSUME NEW a \in Attempts, NEW b \in Attempts,
                        Exists(attempts', a), Exists(attempts', b),
                        attempts'[a].req.key = attempts'[b].req.key, a # b
                 PROVE  FALSE
    BY DEF OneAttemptPerKey, Exists
  <2>3. attempts \in [Attempts -> Rows]
    BY <1>2 DEF Inv, TypeOK
  <2>4. CASE Exists(attempts, a) /\ Exists(attempts, b)
    <3>1. attempts'[a].req = attempts[a].req /\ attempts'[b].req = attempts[b].req
      BY <1>2, <2>1, <2>4, RowStep DEF RowPolicy
    <3> QED
      BY <1>2, <2>2, <2>4, <3>1 DEF OneAttemptPerKey
  <2>5. ASSUME NEW x \in Attempts, NEW y \in Attempts, x # y, ~Exists(attempts, x),
               Exists(attempts', x), Exists(attempts', y),
               attempts'[x].req.key = attempts'[y].req.key
        PROVE  FALSE
    <3>1. PICK r \in Requests : /\ Insertable(r)
                                /\ attempts' = [attempts EXCEPT ![x] = NewAttempt(r)]
      BY <1>2, <2>1, <2>5, NewRow
    <3>2. attempts'[x].req = r /\ attempts'[y] = attempts[y]
      BY <2>3, <2>5, <3>1 DEF NewAttempt, NoAttempt
    <3>3. Exists(attempts, y)
      BY <2>5, <3>2 DEF Exists
    <3>4. y \in HasKey(r.key)
      BY <2>5, <3>2, <3>3 DEF HasKey
    <3> QED
      BY <3>1, <3>4 DEF Insertable
  <2> QED
    BY <2>2, <2>4, <2>5
<1>3. Inv /\ OneAttemptPerKey /\ [Next]_vars => OneAttemptPerKey'
  BY <1>2
<1> QED
  BY <1>1, <1>3, Consistent, PTL DEF Spec

\* A receipt is final: process_notification never replaces the row of an event
\* ID, however often and with whatever content the ID is delivered again.
THEOREM ReceiptsAreFinal == Spec => ReceiptsFinal
<1> DEFINE Step(e) == inbox[e] # None => inbox'[e] = inbox[e]
<1>1. ASSUME Inv, [Next]_vars, NEW e \in Events PROVE Step(e)
  <2>0. inbox \in [Events -> Receipts \cup {None}]
    BY <1>1 DEF Inv, TypeOK
  <2>1. CASE UNCHANGED inbox
    BY <2>1
  <2>2. ASSUME NEW p \in Procs, NEW result, Stored(p, result) PROVE Step(e)
    BY <2>0, <2>2 DEF Stored
  <2>3. ASSUME NEW p \in Procs, Begin(p) \/ Continue(p)
        PROVE  UNCHANGED inbox \/ \E result : Stored(p, result)
    <3>1. CASE Create(p)
      BY <3>1 DEF Create, CreateLookup, CreateReplayed, CreateRead, CreateLock,
                  CreateInsert, CreateConflict, CreateOutOfBound
    <3>2. CASE EnsurePrepay(p)
      BY <3>2 DEF EnsurePrepay, PrepayLock, PrepayQuery, PrepayObserve, PrepayCreate,
                  PrepayUnanswered, PrepayRejected, PrepayStore, PrepayLateQuery, PrepayLate
    <3>3. CASE ReconcileCall(p)
      BY <3>3 DEF ReconcileCall, Refresh, Reconcile, ReconcileQuery, ReconcileApply
    <3>4. CASE CloseCallStep(p)
      BY <3>4 DEF CloseCallStep, Close, CloseQuery, CloseObserve, CloseCall, CloseConfirm,
                  CloseRecover, CloseCommit
    <3>5. CASE Notify(p)
      BY <3>5 DEF Notify, NotifyLookup, NotifyUnmatched, NotifyLock, NotifyApply,
                  NotifyCommit, NotifyRetry
    <3> QED
      BY <2>3, <3>1, <3>2, <3>3, <3>4, <3>5
         DEF Begin, Continue, Create, ReconcileCall, CloseCallStep, Notify
  <2>4. ASSUME NEW p \in Procs, Crash(p) PROVE UNCHANGED inbox
    BY <2>4 DEF Crash
  <2>5. ASSUME NEW a \in Attempts, Expire(a) \/ \E to \in TradeStates : SetTradeState(a, to)
        PROVE  UNCHANGED inbox
    BY <2>5 DEF Expire, SetTradeState
  <2>6. CASE UNCHANGED vars
    BY <2>1, <2>6 DEF vars
  <2> QED
    BY <1>1, <2>1, <2>2, <2>3, <2>4, <2>5, <2>6 DEF Next
<1>2. Inv /\ [Next]_vars => [\A e \in Events : Step(e)]_vars
  BY <1>1
<1> QED
  BY <1>2, Consistent, PTL DEF Spec, ReceiptsFinal

=============================================================================
