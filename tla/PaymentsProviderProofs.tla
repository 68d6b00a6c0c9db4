----------------------- MODULE PaymentsProviderProofs -----------------------
(* What the service stores about a payment is backed by the provider's record *)
(* of it: successes, receipts, prepay IDs and closes. The invariant says what *)
(* a call may rely on between reading an answer of the provider and using it: *)
(* the record may have moved on, but only where it can.                       *)
EXTENDS PaymentsReviewProofs

\* The steps that use the answer to a query, and those that carry a notification.
Answered ==
    {"prepay_observe", "prepay_late", "reconcile_apply", "close_observe", "close_commit",
     "close_recovered"}
Notifying == {"notify_lock", "notify_apply", "notify_commit"}

RecordTells(r) ==
    /\ r.state \in PaidStates => r.paid
    /\ r.generation > 0 <=> r.state # "unknown"

RecordsTell == \A a \in Attempts : RecordTells(provider[a])

\* What the call knows of the record r and of the row of its attempt.
Knowing(c, row, r) ==
    /\ /\ c.pc \in Answered \cup Notifying /\ c.attempt \in Attempts
       /\ c.snap.state \in PaidStates
       => c.snap.tx # None /\ r.paid
    /\ c.pc \in Notifying => c.snap.state = "SUCCESS"
    /\ c.pc \in {"close_observe", "close_call"} => r.state # "unknown"
    /\ c.pc \in {"prepay_result", "prepay_late"} =>
          c.generation > 0 /\ c.generation <= r.generation
    /\ c.pc = "notify_commit" /\ c.verdict = "processed" =>
          c.snap.amountOk /\ row.tx \in {None, c.snap.tx}

Knows(p) == Knowing(calls[p], attempts[calls[p].attempt], provider[calls[p].attempt])

CallsKnow == \A p \in Procs : Knows(p)

-----------------------------------------------------------------------------
(* The provider's records.                                                   *)

\* A record only moves on: a payment and an issued prepay stay recorded, and an
\* order the provider knows stays known.
MovesOn(old, new) ==
    /\ old.paid => new.paid
    /\ old.generation <= new.generation
    /\ old.state # "unknown" => new.state # "unknown"

LEMMA PrepaidTells ==
    ASSUME NEW r \in Records, r.expired < MaxGeneration, RecordTells(r),
           r.paid => r.state # "unknown"
    PROVE  RecordTells(Prepaid(r)) /\ MovesOn(r, Prepaid(r)) /\ Prepaid(r).generation > 0
<1>1. CASE r.state = "unknown"
  <2>1. Prepaid(r) = [state |-> "NOTPAY", generation |-> 1, expired |-> 0, paid |-> FALSE]
    BY <1>1 DEF Prepaid, NoRecord
  <2>2. r.generation = 0 /\ ~r.paid
    BY <1>1 DEF RecordTells, Records
  <2> QED
    BY <1>1, <2>1, <2>2 DEF RecordTells, MovesOn, PaidStates
<1>2. CASE r.state = "NOTPAY" /\ r.expired = r.generation
  BY <1>2 DEF Prepaid, Records, RecordTells, MovesOn, PaidStates
<1>3. CASE r.state # "unknown" /\ ~(r.state = "NOTPAY" /\ r.expired = r.generation)
  BY <1>3 DEF Prepaid, Records, RecordTells, MovesOn
<1> QED
  BY <1>1, <1>2, <1>3

LEMMA ClosedTells ==
    ASSUME NEW r \in Records, RecordTells(r), r.state # "unknown"
    PROVE  RecordTells(ClosedAt(r)) /\ MovesOn(r, ClosedAt(r))
BY DEF Records, RecordTells, MovesOn, ClosedAt, PaidStates

RecordsMoveOn ==
    /\ RecordsTell'
    /\ \A a \in Attempts : MovesOn(provider[a], provider'[a])

LEMMA RecordsStay ==
    ASSUME Inv, RecordsTell, UNCHANGED provider
    PROVE  RecordsMoveOn
BY DEF RecordsMoveOn, RecordsTell, MovesOn, Inv, TypeOK, Records

LEMMA OneRecord ==
    ASSUME Inv, RecordsTell, NEW a \in Attempts, NEW r, RecordTells(r),
           MovesOn(provider[a], r), provider' = [provider EXCEPT ![a] = r]
    PROVE  RecordsMoveOn
<1>1. provider \in [Attempts -> Records]
  BY DEF Inv, TypeOK
<1>2. provider'[a] = r /\ \A b \in Attempts \ {a} : provider'[b] = provider[b]
  BY <1>1
<1>3. \A b \in Attempts : MovesOn(provider[b], provider[b])
  BY <1>1 DEF MovesOn, Records
<1> QED
  BY <1>2, <1>3 DEF RecordsMoveOn, RecordsTell

LEMMA NextRecords ==
    ASSUME Inv, RecordsTell, CallsKnow, [Next]_vars
    PROVE  RecordsMoveOn
<1>0. \A a \in Attempts : /\ provider[a] \in Records /\ RecordTells(provider[a])
                          /\ provider[a].expired < MaxGeneration
                          /\ provider[a].paid => provider[a].state # "unknown"
  BY DEF Inv, TypeOK, CallsConsistent, RecordConsistent, RecordsTell
<1>1. ASSUME NEW p \in Procs, calls[p].pc = "prepay_create",
             provider' = [provider EXCEPT ![calls[p].attempt] = Prepaid(@)]
      PROVE  RecordsMoveOn
  <2> DEFINE a == calls[p].attempt
  <2>1. a \in Attempts
    BY <1>1, LockedCall DEF LockedPcs
  <2>2. provider' = [provider EXCEPT ![a] = Prepaid(provider[a])]
    BY <1>1
  <2>3. RecordTells(Prepaid(provider[a])) /\ MovesOn(provider[a], Prepaid(provider[a]))
    BY <1>0, <2>1, PrepaidTells
  <2> QED
    BY <2>1, <2>2, <2>3, OneRecord
<1>2. ASSUME NEW p \in Procs, EnsurePrepay(p) PROVE RecordsMoveOn
  <2>1. CASE UNCHANGED provider
    BY <2>1, RecordsStay
  <2>2. CASE PrepayCreate(p) \/ PrepayUnanswered(p)
    BY <1>1, <2>1, <2>2 DEF PrepayCreate, PrepayUnanswered, At
  <2> QED
    BY <1>2, <2>1, <2>2
       DEF EnsurePrepay, PrepayLock, PrepayQuery, PrepayObserve, PrepayRejected,
           PrepayStore, PrepayLateQuery, PrepayLate
<1>3. ASSUME NEW p \in Procs, CloseCallStep(p) PROVE RecordsMoveOn
  <2>1. CASE UNCHANGED provider
    BY <2>1, RecordsStay
  <2>2. CASE CloseCall(p)
    <3> DEFINE a == calls[p].attempt
    <3>1. a \in Attempts /\ calls[p].pc = "close_call"
      BY <2>2, LockedCall DEF CloseCall, At, LockedPcs
    <3>2. provider[a].state # "unknown"
      BY <3>1 DEF CallsKnow, Knows, Knowing
    <3>3. RecordTells(ClosedAt(provider[a])) /\ MovesOn(provider[a], ClosedAt(provider[a]))
      BY <1>0, <3>1, <3>2, ClosedTells
    <3>4. \/ provider' = [provider EXCEPT ![a] = ClosedAt(provider[a])]
          \/ UNCHANGED provider
      BY <2>2 DEF CloseCall
    <3> QED
      BY <2>1, <3>1, <3>3, <3>4, OneRecord
  <2> QED
    BY <1>3, <2>1, <2>2
       DEF CloseCallStep, Close, CloseQuery, CloseObserve, CloseConfirm, CloseRecover,
           CloseCommit
<1>4. ASSUME NEW p \in Procs, Begin(p) \/ Continue(p) PROVE RecordsMoveOn
  <2>1. CASE UNCHANGED provider
    BY <2>1, RecordsStay
  <2>2. CASE Create(p)
    BY <2>1, <2>2
       DEF Create, CreateLookup, CreateReplayed, CreateRead, CreateLock, CreateInsert,
           CreateConflict, CreateOutOfBound
  <2>3. CASE ReconcileCall(p)
    BY <2>1, <2>3 DEF ReconcileCall, Refresh, Reconcile, ReconcileQuery, ReconcileApply
  <2>4. CASE Notify(p)
    BY <2>1, <2>4 DEF Notify, NotifyLookup, NotifyUnmatched, NotifyLock, NotifyApply,
                      NotifyCommit, NotifyRetry
  <2> QED
    BY <1>2, <1>3, <1>4, <2>2, <2>3, <2>4
       DEF Begin, Continue, Create, ReconcileCall, CloseCallStep, Notify
<1>5. ASSUME NEW a \in Attempts, Expire(a) PROVE RecordsMoveOn
  <2> DEFINE r == [provider[a] EXCEPT !.expired = provider[a].generation]
  <2>1. RecordTells(r) /\ MovesOn(provider[a], r)
    BY <1>0 DEF RecordTells, MovesOn, Records
  <2>2. provider' = [provider EXCEPT ![a] = r]
    BY <1>0, <1>5 DEF Expire, Inv, TypeOK
  <2> QED
    BY <2>1, <2>2, OneRecord
<1>6. ASSUME NEW a \in Attempts, NEW to \in TradeStates, SetTradeState(a, to)
      PROVE  RecordsMoveOn
  <2> DEFINE r == [provider[a] EXCEPT !.state = to, !.paid = @ \/ to \in PaidStates]
  <2>1. provider[a].state # "unknown" /\ to # "unknown"
    BY <1>6, PaymentsAssumption DEF SetTradeState, TradeStates
  <2> DEFINE paid == provider[a].paid \/ to \in PaidStates
  <2>4. r.state = to /\ r.generation = provider[a].generation /\ r.paid = paid
    BY <1>0 DEF Records
  <2>5. (provider[a].paid => paid) /\ (to \in PaidStates => paid)
    OBVIOUS
  <2> HIDE DEF r, paid
  <2>6. RecordTells(r)
    BY <1>0, <2>1, <2>4, <2>5 DEF RecordTells
  <2>7. MovesOn(provider[a], r)
    BY <1>0, <2>1, <2>4, <2>5 DEF MovesOn, Records
  <2>2. RecordTells(r) /\ MovesOn(provider[a], r)
    BY <2>6, <2>7
  <2> USE DEF r
  <2>3. provider' = [provider EXCEPT ![a] = r]
    BY <1>6 DEF SetTradeState, Inv, TypeOK
  <2> HIDE DEF r
  <2> QED
    BY <2>2, <2>3, OneRecord
<1>7. CASE UNCHANGED vars \/ \E p \in Procs : Crash(p)
  BY <1>7, RecordsStay DEF vars, Crash
<1> QED
  BY <1>4, <1>5, <1>6, <1>7 DEF Next

-----------------------------------------------------------------------------
(* The rows.                                                                 *)

\* A row backed by its record, but for the prepay ID of a created attempt, which
\* is staged a moment before the attempt moves on.
Backed(row, r) ==
    /\ row.status = "succeeded" <=> row.tx # None
    /\ row.tx # None => r.paid
    /\ row.status = "pending" => row.prepay > 0
    /\ row.prepay <= r.generation

OwnTransactions(table) ==
    \A a, b \in Attempts : a # b /\ table[a].tx # None => table[a].tx # table[b].tx

TableBacked(table, records) ==
    /\ \A a \in Attempts : /\ Backed(table[a], records[a])
                           /\ table[a].status = "created" => table[a].prepay = 0
    /\ OwnTransactions(table)

LEMMA StaysBacked ==
    ASSUME NEW table \in [Attempts -> Rows], TableBacked(table, provider), Inv, RecordsMoveOn,
           provider' \in [Attempts -> Records]
    PROVE  TableBacked(table, provider')
<1>1. \A a \in Attempts : /\ table[a].prepay \in Nat
                          /\ provider[a].generation \in Nat /\ provider'[a].generation \in Nat
  BY DEF Inv, TypeOK, Records, Rows
<1> QED
  BY <1>1 DEF TableBacked, Backed, RecordsMoveOn, MovesOn

\* One row of a backed table is replaced, without a new transaction.
LEMMA OneBacked ==
    ASSUME Inv, TableBacked(attempts, provider), NEW a \in Attempts, NEW row,
           row.tx = attempts[a].tx \/ row.tx = None, Backed(row, provider[a]),
           row.status = "created" => row.prepay = 0
    PROVE  TableBacked([attempts EXCEPT ![a] = row], provider)
<1> DEFINE new == [attempts EXCEPT ![a] = row]
<1>1. new[a] = row /\ \A b \in Attempts \ {a} : new[b] = attempts[b]
  BY DEF Inv, TypeOK
<1> HIDE DEF new
<1>2. OwnTransactions(new)
  BY <1>1 DEF TableBacked, OwnTransactions
<1>3. TableBacked(new, provider)
  BY <1>1, <1>2 DEF TableBacked
<1> QED
  BY <1>3 DEF new

\* With a prepay ID staged, no observation leaves an attempt created.
LEMMA CreatedMoves ==
    ASSUME NEW table \in [Attempts -> Rows], NEW a \in Attempts, NEW snap \in Snapshots,
           table[a].status = "created", table[a].prepay # 0
    PROVE  Applied(table, a, snap)[a].status # "created"
<1> DEFINE row == table[a]
           target == StatusFor(snap.state)
           related == Related(table, a, target)
           reason == ReviewReason(table, related)
           moved == Move(row, target, snap.tx)
<1>1. target \in AllowedTransitions["created"] /\ target # "created" /\ target \in Statuses
  BY DEF Snapshots, TradeStates, StatusFor, PaidStates, AllowedTransitions, Statuses
<1>2. DecideTransition(row.status, target, TRUE) = "apply"
  BY <1>1 DEF DecideTransition
<1>3. row \in Rows /\ row.status \in Statuses /\ reason \in Reviews
      /\ snap.tx \in Attempts \cup {None}
  BY ReviewReasonType DEF Statuses, Snapshots
<1>4. Settle(row, snap, related, reason)
        = IF related = {} THEN moved ELSE MarkForReview(moved, reason)
  BY <1>2 DEF Settle
<1>5. Applied(table, a, snap)[a] = Settle(row, snap, related, reason)
  BY DEF Applied
<1> HIDE DEF target, reason, related
<1>6. moved \in Rows /\ moved.status = target
  BY <1>1, <1>3, MoveType
<1> HIDE DEF moved
<1>7. MarkForReview(moved, reason).status = target
  BY <1>1, <1>3, <1>6, MarkType
<1> QED
  BY <1>1, <1>4, <1>5, <1>6, <1>7

\* What an applied snapshot leaves alone.
LEMMA AppliedKeeps ==
    ASSUME NEW table \in [Attempts -> Rows], NEW a \in Attempts, Exists(table, a),
           NEW snap \in Snapshots
    PROVE  LET new == Applied(table, a, snap) IN
           \A b \in Attempts :
              /\ new[b].prepay = table[b].prepay
              /\ b # a => new[b].status = table[b].status /\ new[b].tx = table[b].tx
<1> DEFINE new == Applied(table, a, snap)
<1>1. \A b \in Attempts :
         /\ new[b].req = table[b].req
         /\ new[b].prepay = table[b].prepay
         /\ b # a => new[b].status = table[b].status /\ new[b].tx = table[b].tx
         /\ b # a /\ b \notin Siblings(table, a) => new[b] = table[b]
  BY AppliedType
<1> HIDE DEF new
<1>2. \A b \in Attempts :
         /\ new[b].prepay = table[b].prepay
         /\ b # a => new[b].status = table[b].status /\ new[b].tx = table[b].tx
  BY <1>1
<1> QED
  BY <1>2 DEF new

\* Applying a snapshot that was not rejected keeps the table backed: a success
\* brings a transaction no other attempt has, of an order the provider saw paid.
LEMMA AppliedBacked ==
    ASSUME NEW table \in [Attempts -> Rows], NEW records \in [Attempts -> Records],
           NEW a \in Attempts, Exists(table, a), NEW snap \in Snapshots,
           \A b \in Attempts : Backed(table[b], records[b]),
           \A b \in Attempts \ {a} : table[b].status = "created" => table[b].prepay = 0,
           OwnTransactions(table),
           StatusFor(snap.state) = "succeeded" =>
              /\ snap.tx # None /\ records[a].paid
              /\ table[a].tx \in {None, snap.tx}
              /\ \A b \in Attempts \ {a} : table[b].tx # snap.tx
    PROVE  TableBacked(Applied(table, a, snap), records)
<1> DEFINE target == StatusFor(snap.state)
           new == Applied(table, a, snap)
           row == new[a]
<1>1. \A b \in Attempts : new[b].prepay = table[b].prepay
  BY AppliedKeeps
<1>2. \A b \in Attempts : b # a => new[b].status = table[b].status /\ new[b].tx = table[b].tx
  BY AppliedKeeps
<1>3. \/ row.status = table[a].status /\ row.tx = table[a].tx
      \/ /\ row.status = target
         /\ DecideTransition(table[a].status, target, TRUE) = "apply"
         /\ target = "pending" => table[a].prepay # 0 \/ table[a].status # "created"
         /\ row.tx = IF target = "succeeded" THEN snap.tx ELSE table[a].tx
  BY AppliedType
<1>4. table[a].status = "created" /\ table[a].prepay # 0 => row.status # "created"
  BY CreatedMoves
<1>5. target \in Statuses \ {"created"}
  BY DEF Snapshots, TradeStates, StatusFor, PaidStates, Statuses
<1>6. table[a].prepay \in Nat /\ table[a].status \in Statuses
  BY DEF Rows, Exists
<1> HIDE DEF new, target
<1>7. DecideTransition(table[a].status, target, TRUE) = "apply" =>
        /\ table[a].status # "succeeded"
        /\ target = "pending" => table[a].status = "created"
  BY <1>5, <1>6 DEF DecideTransition, AllowedTransitions, Statuses
<1>8. Backed(row, records[a]) /\ (row.status = "created" => row.prepay = 0)
  <2>1. CASE row.status = table[a].status /\ row.tx = table[a].tx
    BY <1>1, <1>4, <2>1 DEF Backed
  <2>2. CASE /\ row.status = target
             /\ DecideTransition(table[a].status, target, TRUE) = "apply"
             /\ target = "pending" => table[a].prepay # 0 \/ table[a].status # "created"
             /\ row.tx = IF target = "succeeded" THEN snap.tx ELSE table[a].tx
    <3>1. table[a].tx = None
      BY <1>7, <2>2 DEF Backed
    <3>2. row.prepay = table[a].prepay /\ row.prepay <= records[a].generation
      BY <1>1 DEF Backed
    <3>3. row.status = "succeeded" <=> row.tx # None
      BY <2>2, <3>1 DEF target
    <3>4. row.tx # None => records[a].paid
      BY <2>2, <3>1 DEF target
    <3>5. row.status = "pending" => row.prepay > 0
      BY <1>6, <1>7, <2>2, <3>2
    <3> QED
      BY <1>5, <2>2, <3>2, <3>3, <3>4, <3>5 DEF Backed
  <2> QED
    BY <1>3, <2>1, <2>2
<1>9. \A b \in Attempts \ {a} : /\ Backed(new[b], records[b])
                                /\ new[b].status = "created" => new[b].prepay = 0
  BY <1>1, <1>2 DEF Backed
<1>10. row.tx \in {table[a].tx, snap.tx}
       /\ (row.tx # None /\ row.tx # table[a].tx =>
             \A b \in Attempts \ {a} : table[b].tx # row.tx)
  BY <1>3 DEF target
<1>11. OwnTransactions(new)
  BY <1>2, <1>10 DEF OwnTransactions
<1> QED
  BY <1>8, <1>9, <1>11 DEF TableBacked, new

\* The snapshot of the call does not contradict the stored transactions.
Fits(p) ==
    LET a == calls[p].attempt
        snap == calls[p].snap IN
    StatusFor(snap.state) = "succeeded" =>
        /\ attempts[a].tx \in {None, snap.tx}
        /\ \A b \in Attempts \ {a} : attempts[b].tx # snap.tx

LEMMA NotContradicted == \A p \in Procs : ~Contradicts(p) => Fits(p)
BY DEF Contradicts, Rejects, Fits

LEMMA PaidIsSuccess ==
    ASSUME NEW snap \in Snapshots, StatusFor(snap.state) = "succeeded"
    PROVE  snap.state \in PaidStates
BY DEF Snapshots, TradeStates, StatusFor, PaidStates

\* What a call under its lock may rely on when it applies its snapshot.
LEMMA ProvenCall ==
    ASSUME Inv, CallsKnow, NEW p \in Procs, calls[p].pc \in LockedPcs,
           calls[p].pc \in Answered \cup {"notify_commit"}, Fits(p)
    PROVE  LET a == calls[p].attempt
               snap == calls[p].snap IN
           /\ a \in Attempts /\ Exists(attempts, a) /\ snap \in Snapshots
           /\ StatusFor(snap.state) = "succeeded" =>
                 /\ snap.tx # None /\ provider[a].paid
                 /\ attempts[a].tx \in {None, snap.tx}
                 /\ \A b \in Attempts \ {a} : attempts[b].tx # snap.tx
<1>1. /\ calls[p].attempt \in Attempts /\ Exists(attempts, calls[p].attempt)
      /\ calls[p].snap \in Snapshots
  BY LockedCall DEF Answered, SnapPcs
<1>2. calls[p].snap.state \in PaidStates =>
        calls[p].snap.tx # None /\ provider[calls[p].attempt].paid
  BY <1>1 DEF CallsKnow, Knows, Knowing, Notifying
<1> QED
  BY <1>1, <1>2, PaidIsSuccess DEF Fits

LEMMA ObservedBacked ==
    ASSUME Inv, CallsKnow, TableBacked(attempts, provider),
           NEW p \in Procs, calls[p].pc \in LockedPcs,
           calls[p].pc \in Answered \cup {"notify_commit"}, Fits(p)
    PROVE  TableBacked(Observed(p), provider)
<1> DEFINE a == calls[p].attempt
           snap == calls[p].snap
<1>1. /\ a \in Attempts /\ Exists(attempts, a) /\ snap \in Snapshots
      /\ StatusFor(snap.state) = "succeeded" =>
            /\ snap.tx # None /\ provider[a].paid
            /\ attempts[a].tx \in {None, snap.tx}
            /\ \A b \in Attempts \ {a} : attempts[b].tx # snap.tx
  BY ProvenCall
<1>2. attempts \in [Attempts -> Rows] /\ provider \in [Attempts -> Records]
  BY DEF Inv, TypeOK
<1>3. /\ \A b \in Attempts : Backed(attempts[b], provider[b])
      /\ \A b \in Attempts \ {a} : attempts[b].status = "created" => attempts[b].prepay = 0
      /\ OwnTransactions(attempts)
  BY DEF TableBacked
<1> HIDE DEF a, snap
<1>4. TableBacked(Applied(attempts, a, snap), provider)
  BY <1>1, <1>2, <1>3, AppliedBacked
<1> QED
  BY <1>4 DEF Observed, a, snap

\* The late answer of _ensure_prepay, applied with the issued prepay ID staged.
LEMMA LateBacked ==
    ASSUME Inv, CallsKnow, TableBacked(attempts, provider), NEW p \in Procs,
           calls[p].pc = "prepay_late", Fits(p)
    PROVE  TableBacked(Applied(WithPrepay(p), calls[p].attempt, calls[p].snap), provider)
<1> DEFINE a == calls[p].attempt
           snap == calls[p].snap
           g == calls[p].generation
           table == WithPrepay(p)
           row == [attempts[a] EXCEPT !.prepay = g]
<1>1. /\ a \in Attempts /\ Exists(attempts, a) /\ snap \in Snapshots
      /\ StatusFor(snap.state) = "succeeded" =>
            /\ snap.tx # None /\ provider[a].paid
            /\ attempts[a].tx \in {None, snap.tx}
            /\ \A b \in Attempts \ {a} : attempts[b].tx # snap.tx
  BY ProvenCall DEF LockedPcs, Answered
<1>2. attempts \in [Attempts -> Rows] /\ provider \in [Attempts -> Records]
  BY DEF Inv, TypeOK
<1>3. g > 0 /\ g <= provider[a].generation
  BY DEF CallsKnow, Knows, Knowing
<1>4. /\ row.status = attempts[a].status /\ row.tx = attempts[a].tx /\ row.prepay = g
      /\ table = [attempts EXCEPT ![a] = row] /\ table \in [Attempts -> Rows]
  BY WithPrepayType DEF LockedPcs
<1> HIDE DEF row, table
<1>5. table[a] = row /\ \A b \in Attempts \ {a} : table[b] = attempts[b]
  BY <1>1, <1>2, <1>4
<1>6. Exists(table, a) /\ OwnTransactions(table)
  BY <1>1, <1>4, <1>5 DEF Exists, TableBacked, OwnTransactions
<1>7. \A b \in Attempts : Backed(table[b], provider[b])
  BY <1>3, <1>4, <1>5 DEF TableBacked, Backed
<1>8. \A b \in Attempts \ {a} : table[b].status = "created" => table[b].prepay = 0
  BY <1>5 DEF TableBacked
<1>9. StatusFor(snap.state) = "succeeded" =>
        /\ snap.tx # None /\ provider[a].paid
        /\ table[a].tx \in {None, snap.tx}
        /\ \A b \in Attempts \ {a} : table[b].tx # snap.tx
  BY <1>1, <1>4, <1>5
<1> HIDE DEF a, snap, g
<1>10. TableBacked(Applied(table, a, snap), provider)
  BY <1>1, <1>2, <1>4, <1>6, <1>7, <1>8, <1>9, AppliedBacked
<1> QED
  BY <1>10 DEF table, a, snap

\* The merchant's close reason says nothing a record could back.
LEMMA OutcomeBacked ==
    ASSUME Inv, CallsKnow, TableBacked(attempts, provider), NEW p \in Procs,
           calls[p].pc \in {"close_commit", "close_recovered"}, Fits(p)
    PROVE  TableBacked(CloseOutcome(p), provider)
<1> DEFINE a == calls[p].attempt
           new == Observed(p)
           row == [new[a] EXCEPT !.closeReason = "merchant_requested"]
           marked == [new EXCEPT ![a] = row]
<1>1. calls[p].pc \in LockedPcs /\ calls[p].pc \in SnapPcs /\ calls[p].pc \in Answered
  BY DEF LockedPcs, SnapPcs, Answered
<1>2. TableBacked(new, provider)
  BY <1>1, ObservedBacked
<1>3. a \in Attempts /\ new \in [Attempts -> Rows]
  BY <1>1, ObservedKept, LockedCall
<1>4. CloseOutcome(p) \in {marked, new}
  BY DEF CloseOutcome
<1> HIDE DEF new
<1>5. row.status = new[a].status /\ row.tx = new[a].tx /\ row.prepay = new[a].prepay
  BY <1>3 DEF Rows
<1> HIDE DEF row
<1>6. marked[a] = row /\ \A b \in Attempts \ {a} : marked[b] = new[b]
  BY <1>3
<1> HIDE DEF marked
<1>7. TableBacked(marked, provider)
  BY <1>2, <1>5, <1>6 DEF TableBacked, Backed, OwnTransactions
<1> QED
  BY <1>2, <1>4, <1>7

LEMMA NextBacked ==
    ASSUME Inv, RecordsTell, CallsKnow, TableBacked(attempts, provider), [Next]_vars
    PROVE  TableBacked(attempts', provider')
<1>1. CASE UNCHANGED attempts
  <2>1. RecordsMoveOn /\ Inv'
    BY NextRecords, NextInv
  <2>2. attempts \in [Attempts -> Rows] /\ provider' \in [Attempts -> Records]
    BY <2>1 DEF Inv, TypeOK
  <2>3. TableBacked(attempts, provider')
    BY <2>1, <2>2, StaysBacked
  <2> QED
    BY <1>1, <2>3
<1>2. ASSUME NEW p \in Procs, CreateInsert(p) PROVE TableBacked(attempts', provider')
  <2>1. PICK a \in Attempts : attempts' = [attempts EXCEPT ![a] = NewAttempt(calls[p].req)]
    BY <1>2 DEF CreateInsert
  <2> DEFINE row == NewAttempt(calls[p].req)
  <2>2. row.tx = None /\ row.prepay = 0 /\ row.status = "created"
    BY DEF NewAttempt, NoAttempt
  <2>3. provider[a].generation \in Nat
    BY DEF Inv, TypeOK, Records
  <2> HIDE DEF row
  <2>4. Backed(row, provider[a])
    BY <2>2, <2>3 DEF Backed
  <2>5. TableBacked([attempts EXCEPT ![a] = row], provider)
    BY <2>2, <2>4, OneBacked
  <2> QED
    BY <1>2, <2>1, <2>5 DEF CreateInsert, row
<1>3. ASSUME NEW p \in Procs, EnsurePrepay(p) PROVE TableBacked(attempts', provider')
  <2> DEFINE a == calls[p].attempt
  <2>0. calls[p].pc \in LockedPcs =>
          /\ a \in Attempts /\ Exists(attempts, a) /\ attempts[a] \in Rows
          /\ attempts[a].status \in Statuses /\ attempts \in [Attempts -> Rows]
          /\ Backed(attempts[a], provider[a])
          /\ (attempts[a].status = "created" => attempts[a].prepay = 0)
    BY LockedCall DEF Inv, TypeOK, Rows, Exists, TableBacked
  <2>1. CASE PrepayObserve(p)
    <3>1. calls[p].pc \in LockedPcs /\ calls[p].pc \in Answered
      BY <2>1 DEF PrepayObserve, At, LockedPcs, Answered
    <3>2. UNCHANGED attempts \/ (attempts' = Observed(p) /\ Fits(p))
      BY <2>1, NotContradicted DEF PrepayObserve
    <3>3. UNCHANGED provider
      BY <2>1 DEF PrepayObserve
    <3> QED
      BY <1>1, <3>1, <3>2, <3>3, ObservedBacked
  <2>2. CASE PrepayRejected(p)
    <3> DEFINE row == Move(attempts[a], "failed", None)
    <3>1. calls[p].pc \in LockedPcs
      BY <2>2 DEF PrepayRejected, At, LockedPcs
    <3>2. attempts' = [attempts EXCEPT ![a] = row] /\ UNCHANGED provider
      BY <2>2 DEF PrepayRejected
    <3>3. row.status = "failed" /\ row.tx = attempts[a].tx /\ row.prepay = attempts[a].prepay
      BY <2>0, <3>1, MoveType DEF Statuses
    <3>4. attempts[a].status # "succeeded"
      BY <2>2 DEF PrepayRejected, DecideTransition, AllowedTransitions
    <3> HIDE DEF row
    <3>5. Backed(row, provider[a])
      BY <2>0, <3>1, <3>3, <3>4 DEF Backed
    <3>6. TableBacked([attempts EXCEPT ![a] = row], provider)
      BY <2>0, <3>1, <3>3, <3>5, OneBacked
    <3> QED
      BY <3>2, <3>6
  <2>3. CASE PrepayStore(p)
    <3> DEFINE g == calls[p].generation
               staged == [attempts[a] EXCEPT !.prepay = g]
               row == IF attempts[a].status = "created" THEN Move(staged, "pending", None)
                      ELSE staged
    <3>1. calls[p].pc \in LockedPcs /\ calls[p].pc = "prepay_result"
      BY <2>3 DEF PrepayStore, At, LockedPcs
    <3>2. g > 0 /\ g <= provider[a].generation
      BY <3>1 DEF CallsKnow, Knows, Knowing
    <3>3. /\ staged \in Rows /\ staged.prepay = g
          /\ staged.status = attempts[a].status /\ staged.tx = attempts[a].tx
          /\ WithPrepay(p) = [attempts EXCEPT ![a] = staged]
      BY <3>1, WithPrepayType
    <3>4. attempts' = [attempts EXCEPT ![a] = row] /\ UNCHANGED provider
      BY <2>0, <2>3, <3>1, <3>3 DEF PrepayStore
    <3> HIDE DEF staged, g
    <3>5. /\ row.tx = attempts[a].tx /\ row.prepay = g
          /\ row.status = IF attempts[a].status = "created" THEN "pending"
                          ELSE attempts[a].status
      BY <2>0, <3>1, <3>3, MoveType DEF Statuses
    <3> HIDE DEF row
    <3>6. Backed(row, provider[a]) /\ row.status # "created"
      BY <2>0, <3>1, <3>2, <3>5 DEF Backed
    <3>7. TableBacked([attempts EXCEPT ![a] = row], provider)
      BY <2>0, <3>1, <3>5, <3>6, OneBacked
    <3> QED
      BY <3>4, <3>7
  <2>4. CASE PrepayLate(p)
    <3>1. calls[p].pc \in LockedPcs /\ calls[p].pc \in Answered /\ calls[p].pc = "prepay_late"
      BY <2>4 DEF PrepayLate, At, LockedPcs, Answered
    <3>2. \/ UNCHANGED attempts
          \/ Fits(p) /\ attempts' = Observed(p)
          \/ Fits(p) /\ attempts' = Applied(WithPrepay(p), a, calls[p].snap)
      BY <2>4, NotContradicted DEF PrepayLate, StagedPrepay, Observed
    <3>3. UNCHANGED provider
      BY <2>4 DEF PrepayLate
    <3> QED
      BY <1>1, <3>1, <3>2, <3>3, ObservedBacked, LateBacked
  <2> QED
    BY <1>1, <1>3, <2>1, <2>2, <2>3, <2>4
       DEF EnsurePrepay, PrepayLock, PrepayQuery, PrepayCreate, PrepayUnanswered,
           PrepayLateQuery
<1>4. ASSUME NEW p \in Procs, CloseCallStep(p) PROVE TableBacked(attempts', provider')
  <2>1. CASE CloseObserve(p)
    <3>1. calls[p].pc \in LockedPcs /\ calls[p].pc \in Answered
      BY <2>1 DEF CloseObserve, At, LockedPcs, Answered
    <3>2. UNCHANGED attempts \/ (attempts' = Observed(p) /\ Fits(p))
      BY <2>1, NotContradicted DEF CloseObserve
    <3>3. UNCHANGED provider
      BY <2>1 DEF CloseObserve
    <3> QED
      BY <1>1, <3>1, <3>2, <3>3, ObservedBacked
  <2>2. CASE CloseCommit(p)
    <3>1. calls[p].pc \in {"close_commit", "close_recovered"}
      BY <2>2 DEF CloseCommit, At
    <3>2. UNCHANGED attempts \/ (attempts' = CloseOutcome(p) /\ Fits(p))
      BY <2>2, NotContradicted DEF CloseCommit
    <3>3. UNCHANGED provider
      BY <2>2 DEF CloseCommit
    <3> QED
      BY <1>1, <3>1, <3>2, <3>3, OutcomeBacked
  <2> QED
    BY <1>1, <1>4, <2>1, <2>2
       DEF CloseCallStep, Close, CloseQuery, CloseCall, CloseConfirm, CloseRecover
<1>5. ASSUME NEW p \in Procs, ReconcileApply(p) PROVE TableBacked(attempts', provider')
  <2>1. calls[p].pc \in LockedPcs /\ calls[p].pc \in Answered
    BY <1>5 DEF ReconcileApply, At, LockedPcs, Answered
  <2>2. UNCHANGED attempts \/ (attempts' = Observed(p) /\ Fits(p))
    BY <1>5, NotContradicted DEF ReconcileApply
  <2>3. UNCHANGED provider
    BY <1>5 DEF ReconcileApply
  <2> QED
    BY <1>1, <2>1, <2>2, <2>3, ObservedBacked
<1>6. ASSUME NEW p \in Procs, NotifyCommit(p) PROVE TableBacked(attempts', provider')
  <2>1. calls[p].pc \in LockedPcs /\ calls[p].pc = "notify_commit"
    BY <1>6 DEF NotifyCommit, At, LockedPcs
  <2>2. CASE UNCHANGED attempts
    BY <1>1, <2>2
  <2>3. CASE attempts' = Observed(p) /\ calls[p].verdict = "processed"
    <3>1. attempts[calls[p].attempt].tx \in {None, calls[p].snap.tx}
      BY <2>1, <2>3 DEF CallsKnow, Knows, Knowing
    <3>2. Fits(p)
      BY <1>6, <2>3, <3>1 DEF NotifyCommit, TransactionTaken, Fits
    <3>3. UNCHANGED provider
      BY <1>6 DEF NotifyCommit
    <3> QED
      BY <2>1, <2>3, <3>2, <3>3, ObservedBacked
  <2> QED
    BY <1>6, <2>2, <2>3 DEF NotifyCommit
<1>7. ASSUME NEW p \in Procs, Begin(p) \/ Continue(p) PROVE TableBacked(attempts', provider')
  <2>1. CASE Create(p)
    BY <1>1, <1>2, <2>1
       DEF Create, CreateLookup, CreateReplayed, CreateRead, CreateLock, CreateConflict,
           CreateOutOfBound
  <2>2. CASE ReconcileCall(p)
    BY <1>1, <1>5, <2>2 DEF ReconcileCall, Refresh, Reconcile, ReconcileQuery
  <2>3. CASE Notify(p)
    BY <1>1, <1>6, <2>3
       DEF Notify, NotifyLookup, NotifyUnmatched, NotifyLock, NotifyApply, NotifyRetry
  <2> QED
    BY <1>3, <1>4, <1>7, <2>1, <2>2, <2>3
       DEF Begin, Continue, Create, ReconcileCall, CloseCallStep, Notify
<1>8. ASSUME \/ UNCHANGED vars \/ \E p \in Procs : Crash(p)
             \/ \E a \in Attempts : Expire(a) \/ \E to \in TradeStates : SetTradeState(a, to)
      PROVE  TableBacked(attempts', provider')
  BY <1>1, <1>8 DEF vars, Crash, Expire, SetTradeState
<1> QED
  BY <1>7, <1>8 DEF Next

-----------------------------------------------------------------------------
(* The calls.                                                                *)

\* A call that does not move still knows what it knew: records only move on, and
\* the row it works on is protected by its lock.
LEMMA OthersKnow ==
    ASSUME Inv, Inv', RecordsMoveOn, RowsStep, CallsKnow, NEW q \in Procs,
           calls'[q] = calls[q]
    PROVE  Knows(q)'
<1> DEFINE c == calls[q]
           a == c.attempt
<1>1. Knowing(c, attempts[a], provider[a])
  BY DEF CallsKnow, Knows
<1>2. CASE a \in Attempts
  <2>1. MovesOn(provider[a], provider'[a])
    BY <1>2 DEF RecordsMoveOn
  <2>2. provider[a].generation \in Nat /\ provider'[a].generation \in Nat /\ c.generation \in Nat
    BY <1>2 DEF Inv, TypeOK, Records, Calls
  <2>3. c.pc = "notify_commit" => attempts'[a].tx = attempts[a].tx
    <3>1. SUFFICES ASSUME c.pc = "notify_commit" PROVE attempts'[a] = attempts[a]
      OBVIOUS
    <3>2. /\ Exists(attempts, a) /\ attempts'[a].req.order = attempts[a].req.order
      BY <1>2, RowStep DEF Inv, CallsConsistent, CallConsistent, RowPolicy
    <3>3. lock'[attempts[a].req.order] = q
      <4>1. CallConsistent(q)'
        BY DEF Inv, CallsConsistent
      <4> QED
        BY <3>1, <3>2, <4>1 DEF CallConsistent, LockedPcs
    <3>4. ASSUME NEW o \in Orders, Committed(o) PROVE attempts'[a] = attempts[a]
      BY <1>2, <3>3, <3>4, ProcNotNone DEF Committed, OrderPolicy
    <3>5. ASSUME NEW p \in Procs, CreateInsert(p) PROVE attempts'[a] = attempts[a]
      BY <3>2, <3>5 DEF CreateInsert
    <3> QED
      BY <3>4, <3>5 DEF RowsStep
  <2> HIDE DEF c, a
  <2>4. Knowing(c, attempts'[a], provider'[a])
    BY <1>1, <2>1, <2>2, <2>3 DEF Knowing, MovesOn
  <2> QED
    BY <2>4 DEF Knows, c, a
<1>3. CASE a \notin Attempts
  <2>1. c.pc \notin LockedPcs
    BY <1>3 DEF Inv, CallsConsistent, CallConsistent
  <2> HIDE DEF c, a
  <2>2. Knowing(c, attempts'[a], provider'[a])
    BY <1>1, <1>3, <2>1 DEF Knowing, LockedPcs, a
  <2> QED
    BY <2>2 DEF Knows, c, a
<1> QED
  BY <1>2, <1>3

\* The steps at which a call relies on something it has read.
Relying == Answered \cup Notifying \cup {"prepay_result", "close_call"}

LEMMA IdleKnows ==
    ASSUME NEW p, calls'[p].pc \notin Relying
    PROVE  Knows(p)'
BY DEF Knows, Knowing, Relying, Answered, Notifying

LEMMA EndKnows ==
    ASSUME Inv, NEW p \in Procs, EndCall(p) \/ \E a \in Attempts : ThenEnsurePrepay(p, a)
    PROVE  Knows(p)'
<1>0. calls \in [Procs -> Calls]
  BY DEF Inv, TypeOK
<1>1. calls'[p].pc \in {"idle", "prepay_lock"}
  <2>1. CASE EndCall(p)
    BY <1>0, <2>1 DEF EndCall, IdleCall
  <2>2. ASSUME NEW a \in Attempts, ThenEnsurePrepay(p, a) PROVE calls'[p].pc = "prepay_lock"
    BY <1>0, <2>2 DEF ThenEnsurePrepay, IdleCall
  <2> QED
    BY <2>1, <2>2
<1> QED
  BY <1>1, IdleKnows DEF Relying, Answered, Notifying

\* An answered query: the record's present state, and its transaction if paid.
LEMMA AskedKnows ==
    ASSUME Inv, RecordsTell, CallsKnow, NEW p \in Procs, calls[p].pc \in LockedPcs,
           NEW next \in Answered, Query(p, next), UNCHANGED provider,
           next = "prepay_late" => calls[p].pc = "prepay_result"
    PROVE  Knows(p)'
<1> DEFINE a == calls[p].attempt
           c == calls'[p]
<1>1. a \in Attempts /\ calls[p] \in Calls /\ calls \in [Procs -> Calls]
  BY LockedCall DEF Inv, TypeOK
<1>2. /\ c.pc = next /\ c.attempt = a /\ c.snap = QuerySnapshot(a)
      /\ c.generation = calls[p].generation
      /\ provider[a].state # "unknown"
  BY <1>1 DEF Query, Calls
<1>3. RecordTells(provider[a])
  BY <1>1 DEF RecordsTell
<1>4. c.snap.state \in PaidStates => c.snap.tx # None /\ provider[a].paid
  BY <1>1, <1>2, <1>3, PaymentsAssumption DEF QuerySnapshot, RecordTells
<1>5. next = "prepay_late" => c.generation > 0 /\ c.generation <= provider[a].generation
  BY <1>2 DEF CallsKnow, Knows, Knowing
<1>6. Knowing(c, attempts'[a], provider[a])
  <2> HIDE DEF c, a
  <2> QED
    BY <1>2, <1>4, <1>5 DEF Knowing, Answered, Notifying
<1> QED
  BY <1>2, <1>6 DEF Knows

LEMMA PrepayKnows ==
    ASSUME Inv, RecordsTell, CallsKnow, NEW p \in Procs, EnsurePrepay(p)
    PROVE  Knows(p)'
<1>0. calls \in [Procs -> Calls]
  BY DEF Inv, TypeOK
<1>1. ASSUME NEW pc, pc \notin Relying, Goto(p, pc) PROVE Knows(p)'
  BY <1>0, <1>1, IdleKnows DEF Goto, Calls
<1>2. CASE PrepayLock(p)
  BY <1>1, <1>2, EndKnows DEF PrepayLock, Relying, Answered, Notifying
<1>3. CASE PrepayQuery(p)
  BY <1>3, AskedKnows, EndKnows DEF PrepayQuery, At, LockedPcs, Answered
<1>4. CASE PrepayObserve(p)
  BY <1>1, <1>4, EndKnows DEF PrepayObserve, Relying, Answered, Notifying
<1>5. CASE PrepayCreate(p)
  <2> DEFINE a == calls[p].attempt
             r == Prepaid(provider[a])
             c == calls'[p]
  <2>1. a \in Attempts
    BY <1>5, LockedCall DEF PrepayCreate, At, LockedPcs
  <2>2. /\ provider[a] \in Records /\ provider[a].expired < MaxGeneration
        /\ RecordTells(provider[a]) /\ (provider[a].paid => provider[a].state # "unknown")
        /\ provider \in [Attempts -> Records]
    BY <2>1 DEF Inv, TypeOK, CallsConsistent, RecordConsistent, RecordsTell
  <2>3. r \in Records /\ r.generation > 0
    BY <2>2, PrepaidType, PrepaidTells
  <2>4. provider' = [provider EXCEPT ![a] = r]
    BY <1>5 DEF PrepayCreate
  <2>5. c.pc = "prepay_result" /\ c.generation = r.generation /\ c.attempt = a
    BY <1>0, <1>5 DEF PrepayCreate, Calls
  <2> HIDE DEF r, a, c
  <2>6. provider'[a].generation = r.generation /\ r.generation \in Nat
    BY <2>1, <2>2, <2>3, <2>4 DEF Records
  <2>7. Knowing(c, attempts'[a], provider'[a])
    BY <2>3, <2>5, <2>6 DEF Knowing, Answered, Notifying
  <2> QED
    BY <2>5, <2>7 DEF Knows, c
<1>6. CASE PrepayUnanswered(p) \/ PrepayRejected(p) \/ PrepayStore(p) \/ PrepayLate(p)
  BY <1>6, EndKnows DEF PrepayUnanswered, PrepayRejected, PrepayStore, PrepayLate
<1>7. CASE PrepayLateQuery(p)
  BY <1>7, AskedKnows, EndKnows DEF PrepayLateQuery, At, LockedPcs, Answered
<1> QED
  BY <1>2, <1>3, <1>4, <1>5, <1>6, <1>7 DEF EnsurePrepay

LEMMA CloseKnows ==
    ASSUME Inv, RecordsTell, CallsKnow, NEW p \in Procs, CloseCallStep(p)
    PROVE  Knows(p)'
<1>0. calls \in [Procs -> Calls]
  BY DEF Inv, TypeOK
<1>1. ASSUME NEW pc, pc \notin Relying, Goto(p, pc) PROVE Knows(p)'
  BY <1>0, <1>1, IdleKnows DEF Goto, Calls
<1>2. ASSUME NEW a \in Attempts, Close(p, a) PROVE Knows(p)'
  <2>1. calls'[p].pc = "close_query"
    BY <1>0, <1>2 DEF Close, Calls
  <2> QED
    BY <2>1, IdleKnows DEF Relying, Answered, Notifying
<1>3. CASE CloseQuery(p)
  BY <1>3, AskedKnows, EndKnows DEF CloseQuery, At, LockedPcs, Answered
<1>4. CASE CloseObserve(p)
  <2>1. CASE Goto(p, "close_call") /\ UNCHANGED provider
    <3>1. provider[calls[p].attempt].state # "unknown"
      BY <1>4 DEF CloseObserve, At, CallsKnow, Knows, Knowing
    <3>2. calls'[p].pc = "close_call" /\ calls'[p].attempt = calls[p].attempt
      BY <1>0, <2>1 DEF Goto, Calls
    <3> QED
      BY <2>1, <3>1, <3>2 DEF Knows, Knowing, Answered, Notifying
  <2> QED
    BY <1>4, <2>1, EndKnows DEF CloseObserve
<1>5. CASE CloseCall(p)
  BY <1>1, <1>5 DEF CloseCall, Relying, Answered, Notifying
<1>6. CASE CloseConfirm(p)
  <2>1. CASE Query(p, "close_commit")
    BY <1>6, <2>1, AskedKnows DEF CloseConfirm, At, LockedPcs, Answered
  <2> QED
    BY <1>1, <1>6, <2>1 DEF CloseConfirm, Relying, Answered, Notifying
<1>7. CASE CloseRecover(p)
  BY <1>7, AskedKnows, EndKnows DEF CloseRecover, At, LockedPcs, Answered
<1>8. CASE CloseCommit(p)
  BY <1>8, EndKnows DEF CloseCommit
<1> QED
  BY <1>2, <1>3, <1>4, <1>5, <1>6, <1>7, <1>8 DEF CloseCallStep

\* What a notification says of a known order is that it was paid.
LEMMA NotifyKnows ==
    ASSUME Inv, RecordsTell, CallsKnow, NEW p \in Procs, Notify(p)
    PROVE  Knows(p)'
<1>0. calls \in [Procs -> Calls] /\ calls[p] \in Calls /\ Knows(p)
  BY DEF Inv, TypeOK, CallsKnow
<1>1. ASSUME NEW e \in Events, NEW m \in Notifications(e), NotifyLookup(p, m) PROVE Knows(p)'
  <2>1. /\ m.attempt \in Attempts \cup {None}
        /\ m.snap.tx \in Attempts /\ m.snap.state = "SUCCESS"
    BY DEF Notifications
  <2>2. m.attempt \in Attempts => provider[m.attempt].paid
    BY <1>1, PaymentsAssumption DEF NotifyLookup, Deliverable
  <2>3. calls'[p].pc = "notify_lock" /\ calls'[p].attempt = m.attempt /\ calls'[p].snap = m.snap
    BY <1>0, <1>1 DEF NotifyLookup, IdleCall
  <2>4. UNCHANGED provider
    BY <1>1 DEF NotifyLookup
  <2> QED
    BY <2>1, <2>2, <2>3, <2>4, PaymentsAssumption DEF Knows, Knowing, Answered, Notifying
<1>2. CASE NotifyUnmatched(p) \/ NotifyCommit(p)
  BY <1>2, EndKnows DEF NotifyUnmatched, NotifyCommit
<1>3. CASE NotifyLock(p)
  <2>1. /\ calls'[p].pc = "notify_apply" /\ calls'[p].attempt = calls[p].attempt
        /\ calls'[p].snap = calls[p].snap
    BY <1>0, <1>3 DEF NotifyLock, Goto, Calls
  <2>2. calls[p].pc = "notify_lock" /\ UNCHANGED provider
    BY <1>3 DEF NotifyLock, At
  <2> QED
    BY <1>0, <2>1, <2>2 DEF Knows, Knowing, Answered, Notifying
<1>4. CASE NotifyApply(p)
  <2> DEFINE a == calls[p].attempt
             c == calls'[p]
  <2>1. /\ c.pc = "notify_commit" /\ c.attempt = a /\ c.snap = calls[p].snap
        /\ c.verdict = IF Contradicts(p) THEN "rejected" ELSE "processed"
    BY <1>0, <1>4 DEF NotifyApply, Calls
  <2>2. calls[p].pc = "notify_apply" /\ UNCHANGED <<provider, attempts>>
    BY <1>4 DEF NotifyApply, At
  <2>3. calls[p].snap.state = "SUCCESS"
    BY <1>0, <2>2 DEF Knows, Knowing, Notifying
  <2>4. ~Contradicts(p) => c.snap.amountOk /\ attempts[a].tx \in {None, c.snap.tx}
    BY <2>1, <2>3 DEF Contradicts, Rejects, StatusFor, PaidStates
  <2>5. a \in Attempts /\ c.snap.state \in PaidStates => c.snap.tx # None /\ provider[a].paid
    BY <1>0, <2>1, <2>2 DEF Knows, Knowing, Notifying
  <2> HIDE DEF c, a
  <2>6. Knowing(c, attempts[a], provider[a])
    BY <2>1, <2>3, <2>4, <2>5 DEF Knowing, Answered, Notifying
  <2> QED
    BY <2>1, <2>2, <2>6 DEF Knows, c
<1>5. CASE NotifyRetry(p)
  <2>1. CASE calls' = [calls EXCEPT ![p].pc = "notify_lock", ![p].verdict = "none",
                                    ![p].retried = TRUE]
    <3>1. /\ calls'[p].pc = "notify_lock" /\ calls'[p].attempt = calls[p].attempt
          /\ calls'[p].snap = calls[p].snap
      BY <1>0, <2>1 DEF Calls
    <3>2. calls[p].pc = "notify_commit" /\ UNCHANGED provider
      BY <1>5 DEF NotifyRetry, At
    <3> QED
      BY <1>0, <3>1, <3>2 DEF Knows, Knowing, Answered, Notifying
  <2> QED
    BY <1>5, <2>1, EndKnows DEF NotifyRetry
<1> QED
  BY <1>1, <1>2, <1>3, <1>4, <1>5 DEF Notify

LEMMA CreateKnows ==
    ASSUME Inv, NEW p \in Procs, Create(p)
    PROVE  Knows(p)'
<1>0. calls \in [Procs -> Calls] /\ calls[p] \in Calls
  BY DEF Inv, TypeOK
<1>1. \/ calls'[p].pc \in {"create_read", "create_insert", "create_lock"}
      \/ EndCall(p) \/ \E a \in Attempts : ThenEnsurePrepay(p, a)
  <2>1. ASSUME NEW r \in Requests, CreateLookup(p, r) PROVE calls'[p].pc = "create_read"
    BY <1>0, <2>1 DEF CreateLookup, Calls
  <2>2. ASSUME NEW r \in Requests, CreateReplayed(p, r)
        PROVE  \E a \in Attempts : ThenEnsurePrepay(p, a)
    BY <2>2 DEF CreateReplayed, HasKey
  <2>3. CASE CreateRead(p)
    BY <1>0, <2>3 DEF CreateRead, Calls
  <2>4. CASE CreateLock(p)
    BY <1>0, <2>4 DEF CreateLock, Goto, Calls
  <2>5. CASE CreateInsert(p) \/ CreateConflict(p) \/ CreateOutOfBound(p)
    BY <2>5 DEF CreateInsert, CreateConflict, CreateOutOfBound, HasKey
  <2> QED
    BY <2>1, <2>2, <2>3, <2>4, <2>5 DEF Create
<1> QED
  BY <1>1, IdleKnows, EndKnows DEF Relying, Answered, Notifying

LEMMA ReconcileKnows ==
    ASSUME Inv, RecordsTell, CallsKnow, NEW p \in Procs, ReconcileCall(p)
    PROVE  Knows(p)'
<1>0. calls \in [Procs -> Calls] /\ calls[p] \in Calls
  BY DEF Inv, TypeOK
<1>1. ASSUME NEW a \in Attempts, Refresh(p, a) PROVE Knows(p)'
  BY <1>1, EndKnows DEF Refresh
<1>2. ASSUME NEW a \in Attempts, Reconcile(p, a) PROVE Knows(p)'
  <2>1. calls'[p].pc = "reconcile_query"
    BY <1>0, <1>2 DEF Reconcile, Calls
  <2> QED
    BY <2>1, IdleKnows DEF Relying, Answered, Notifying
<1>3. CASE ReconcileQuery(p)
  BY <1>3, AskedKnows, EndKnows DEF ReconcileQuery, At, LockedPcs, Answered
<1>4. CASE ReconcileApply(p)
  <2>1. calls[p].attempt \in Attempts
    BY <1>4, LockedCall DEF ReconcileApply, At, LockedPcs
  <2> QED
    BY <1>4, <2>1, EndKnows DEF ReconcileApply
<1> QED
  BY <1>1, <1>2, <1>3, <1>4 DEF ReconcileCall

\* A step of one call leaves the others alone.
LEMMA OneCall ==
    ASSUME Inv, NEW p \in Procs, Begin(p) \/ Continue(p) \/ Crash(p),
           NEW q \in Procs \ {p}
    PROVE  calls'[q] = calls[q]
<1>0. calls \in [Procs -> Calls]
  BY DEF Inv, TypeOK
<1>1. ASSUME EndCall(p) \/ \E a : ThenEnsurePrepay(p, a) PROVE calls'[q] = calls[q]
  BY <1>0, <1>1 DEF EndCall, ThenEnsurePrepay
<1>2. ASSUME \E pc : Goto(p, pc) \/ Query(p, pc) PROVE calls'[q] = calls[q]
  BY <1>0, <1>2 DEF Goto, Query
<1>3. CASE Create(p)
  BY <1>0, <1>1, <1>2, <1>3
     DEF Create, CreateLookup, CreateReplayed, CreateRead, CreateLock, CreateInsert,
         CreateConflict, CreateOutOfBound
<1>4. CASE EnsurePrepay(p)
  BY <1>0, <1>1, <1>2, <1>4
     DEF EnsurePrepay, PrepayLock, PrepayQuery, PrepayObserve, PrepayCreate,
         PrepayUnanswered, PrepayRejected, PrepayStore, PrepayLateQuery, PrepayLate
<1>5. CASE ReconcileCall(p)
  BY <1>0, <1>1, <1>2, <1>5 DEF ReconcileCall, Refresh, Reconcile, ReconcileQuery, ReconcileApply
<1>6. CASE CloseCallStep(p)
  BY <1>0, <1>1, <1>2, <1>6
     DEF CloseCallStep, Close, CloseQuery, CloseObserve, CloseCall, CloseConfirm,
         CloseRecover, CloseCommit
<1>7. CASE Notify(p)
  BY <1>0, <1>1, <1>2, <1>7
     DEF Notify, NotifyLookup, NotifyUnmatched, NotifyLock, NotifyApply, NotifyCommit,
         NotifyRetry
<1>8. CASE Crash(p)
  BY <1>1, <1>8 DEF Crash
<1> QED
  BY <1>3, <1>4, <1>5, <1>6, <1>7, <1>8
     DEF Begin, Continue, Create, ReconcileCall, CloseCallStep, Notify

LEMMA NextKnows ==
    ASSUME Inv, RecordsTell, CallsKnow, [Next]_vars
    PROVE  CallsKnow'
<1>1. Inv' /\ RecordsMoveOn /\ RowsStep
  BY NextInv, NextRecords, NextRows
<1>2. SUFFICES ASSUME NEW q \in Procs PROVE Knows(q)'
  BY DEF CallsKnow
<1>3. CASE calls'[q] = calls[q]
  BY <1>1, <1>3, OthersKnow
<1>4. ASSUME NEW p \in Procs, Begin(p) \/ Continue(p) \/ Crash(p) PROVE Knows(q)'
  <2>1. CASE q # p
    BY <1>3, <1>4, <2>1, OneCall
  <2>2. CASE q = p /\ Crash(p)
    BY <2>2, EndKnows DEF Crash
  <2>3. CASE q = p /\ (Begin(p) \/ Continue(p))
    <3>1. Create(p) \/ EnsurePrepay(p) \/ ReconcileCall(p) \/ CloseCallStep(p) \/ Notify(p)
      BY <2>3 DEF Begin, Continue, Create, ReconcileCall, CloseCallStep, Notify
    <3> QED
      BY <2>3, <3>1, CreateKnows, PrepayKnows, ReconcileKnows, CloseKnows, NotifyKnows
  <2> QED
    BY <1>4, <2>1, <2>2, <2>3
<1>5. CASE \/ UNCHANGED vars
           \/ \E a \in Attempts : Expire(a) \/ \E to \in TradeStates : SetTradeState(a, to)
  BY <1>3, <1>5 DEF vars, Expire, SetTradeState
<1> QED
  BY <1>4, <1>5 DEF Next

-----------------------------------------------------------------------------
(* The receipts.                                                             *)

ReceiptBacked(e) ==
    inbox[e] # None /\ inbox[e].result = "processed" =>
        /\ inbox[e].attempt \in Attempts
        /\ attempts[inbox[e].attempt].status = "succeeded"
        /\ attempts[inbox[e].attempt].tx = inbox[e].snap.tx
        /\ inbox[e].snap.amountOk

LEMMA ReceiptStays ==
    ASSUME Inv, RowsStep, NEW e \in Events, ReceiptBacked(e), inbox'[e] = inbox[e]
    PROVE  ReceiptBacked(e)'
<1>1. SUFFICES ASSUME inbox[e] # None, inbox[e].result = "processed"
               PROVE  /\ attempts'[inbox[e].attempt].status = "succeeded"
                      /\ attempts'[inbox[e].attempt].tx = attempts[inbox[e].attempt].tx
  BY DEF ReceiptBacked
<1>2. inbox[e].attempt \in Attempts /\ attempts[inbox[e].attempt].status = "succeeded"
  BY <1>1 DEF ReceiptBacked
<1>3. RowPolicy(attempts[inbox[e].attempt], attempts'[inbox[e].attempt])
  BY <1>2, RowStep DEF Exists
<1> QED
  BY <1>2, <1>3 DEF RowPolicy, DecideTransition, AllowedTransitions

\* A success that does not contradict the stored transaction is then the stored
\* one, whether it was known before or is learnt now.
LEMMA ProcessedIsStored ==
    ASSUME Inv, CallsKnow, TableBacked(attempts, provider), NEW p \in Procs,
           calls[p].pc = "notify_commit", calls[p].verdict = "processed",
           attempts' = Observed(p)
    PROVE  /\ calls[p].attempt \in Attempts /\ calls[p].snap.amountOk
           /\ attempts'[calls[p].attempt].status = "succeeded"
           /\ attempts'[calls[p].attempt].tx = calls[p].snap.tx
<1> DEFINE a == calls[p].attempt
           snap == calls[p].snap
           new == Applied(attempts, a, snap)
<1>1. /\ a \in Attempts /\ Exists(attempts, a) /\ snap \in Snapshots
      /\ attempts \in [Attempts -> Rows]
  BY LockedCall DEF LockedPcs, SnapPcs, Inv, TypeOK
<1>2. /\ snap.state = "SUCCESS" /\ snap.amountOk
      /\ attempts[a].tx \in {None, snap.tx}
  BY DEF CallsKnow, Knows, Knowing, Notifying
<1>3. StatusFor(snap.state) = "succeeded"
  BY <1>2 DEF StatusFor, PaidStates
<1>4. attempts[a].status = "succeeded" <=> attempts[a].tx # None
  BY <1>1 DEF TableBacked, Backed
<1>5. attempts' = new
  BY DEF Observed
<1> HIDE DEF a, snap
<1>6. new[a].status = "succeeded"
  BY <1>1, <1>3, AppliedShape
<1>7. \/ new[a].status = attempts[a].status /\ new[a].tx = attempts[a].tx
      \/ new[a].tx = snap.tx
  BY <1>1, <1>3, AppliedType
<1> QED
  BY <1>1, <1>2, <1>4, <1>5, <1>6, <1>7 DEF a, snap

LEMMA NextReceipts ==
    ASSUME Inv, CallsKnow, TableBacked(attempts, provider),
           \A e \in Events : ReceiptBacked(e), [Next]_vars
    PROVE  \A e \in Events : ReceiptBacked(e)'
<1> SUFFICES ASSUME NEW e \in Events PROVE ReceiptBacked(e)'
  OBVIOUS
<1>0. RowsStep /\ inbox \in [Events -> Receipts \cup {None}]
  BY NextRows DEF Inv, TypeOK
<1>1. CASE inbox'[e] = inbox[e]
  BY <1>0, <1>1, ReceiptStays
<1>2. ASSUME NEW p \in Procs, NotifyUnmatched(p) PROVE ReceiptBacked(e)'
  <2>1. \/ inbox'[e] = inbox[e]
        \/ inbox'[e] = Receipt(p, "ignored")
    BY <1>0, <1>2 DEF NotifyUnmatched, Stored
  <2> QED
    BY <1>1, <2>1 DEF ReceiptBacked, Receipt
<1>3. ASSUME NEW p \in Procs, NotifyCommit(p) PROVE ReceiptBacked(e)'
  <2> DEFINE verdict == calls[p].verdict
  <2>1. calls[p].pc = "notify_commit" /\ Stored(p, verdict)
    BY <1>3 DEF NotifyCommit, At
  <2>2. \/ inbox'[e] = inbox[e]
        \/ /\ inbox'[e] = Receipt(p, verdict)
           /\ inbox[calls[p].event] = None
    BY <1>0, <2>1 DEF Stored
  <2>3. CASE inbox'[e] = Receipt(p, verdict) /\ inbox[calls[p].event] = None
    <3>1. CASE verdict = "processed"
      <4>1. attempts' = Observed(p)
        BY <1>3, <2>3, <3>1 DEF NotifyCommit
      <4>2. /\ calls[p].attempt \in Attempts /\ calls[p].snap.amountOk
            /\ attempts'[calls[p].attempt].status = "succeeded"
            /\ attempts'[calls[p].attempt].tx = calls[p].snap.tx
        BY <2>1, <3>1, <4>1, ProcessedIsStored
      <4> QED
        BY <2>3, <4>2 DEF ReceiptBacked, Receipt
    <3>2. CASE verdict # "processed"
      BY <2>3, <3>2 DEF ReceiptBacked, Receipt
    <3> QED
      BY <3>1, <3>2
  <2> QED
    BY <1>1, <2>2, <2>3
<1>4. ASSUME NEW p \in Procs, Begin(p) \/ Continue(p) \/ Crash(p) PROVE ReceiptBacked(e)'
  <2>1. CASE UNCHANGED inbox
    BY <1>1, <2>1
  <2>2. CASE Create(p)
    BY <2>1, <2>2
       DEF Create, CreateLookup, CreateReplayed, CreateRead, CreateLock, CreateInsert,
           CreateConflict, CreateOutOfBound
  <2>3. CASE EnsurePrepay(p)
    BY <2>1, <2>3
       DEF EnsurePrepay, PrepayLock, PrepayQuery, PrepayObserve, PrepayCreate,
           PrepayUnanswered, PrepayRejected, PrepayStore, PrepayLateQuery, PrepayLate
  <2>4. CASE ReconcileCall(p)
    BY <2>1, <2>4 DEF ReconcileCall, Refresh, Reconcile, ReconcileQuery, ReconcileApply
  <2>5. CASE CloseCallStep(p)
    BY <2>1, <2>5
       DEF CloseCallStep, Close, CloseQuery, CloseObserve, CloseCall, CloseConfirm,
           CloseRecover, CloseCommit
  <2>6. CASE Notify(p)
    BY <1>2, <1>3, <2>1, <2>6 DEF Notify, NotifyLookup, NotifyLock, NotifyApply, NotifyRetry
  <2> QED
    BY <1>4, <2>1, <2>2, <2>3, <2>4, <2>5, <2>6
       DEF Begin, Continue, Create, ReconcileCall, CloseCallStep, Notify, Crash
<1>5. CASE \/ UNCHANGED vars
           \/ \E a \in Attempts : Expire(a) \/ \E to \in TradeStates : SetTradeState(a, to)
  BY <1>1, <1>5 DEF vars, Expire, SetTradeState
<1> QED
  BY <1>4, <1>5 DEF Next

-----------------------------------------------------------------------------
(* The theorems.                                                             *)

ProviderBacks ==
    /\ RecordsTell
    /\ CallsKnow
    /\ TableBacked(attempts, provider)
    /\ \A e \in Events : ReceiptBacked(e)

LEMMA ProviderAlways == Spec => []ProviderBacks
<1>1. Init => ProviderBacks
  <2> SUFFICES ASSUME Init PROVE ProviderBacks
    OBVIOUS
  <2>1. RecordsTell
    BY DEF Init, NoRecord, RecordsTell, RecordTells, PaidStates
  <2>2. CallsKnow
    BY DEF Init, IdleCall, CallsKnow, Knows, Knowing, Answered, Notifying
  <2>3. TableBacked(attempts, provider)
    BY DEF Init, NoAttempt, NoRecord, TableBacked, Backed, OwnTransactions
  <2>4. \A e \in Events : ReceiptBacked(e)
    BY DEF Init, ReceiptBacked
  <2> QED
    BY <2>1, <2>2, <2>3, <2>4 DEF ProviderBacks
<1>2. Inv /\ ProviderBacks /\ [Next]_vars => ProviderBacks'
  <2> SUFFICES ASSUME Inv, ProviderBacks, [Next]_vars PROVE ProviderBacks'
    OBVIOUS
  <2>1. /\ RecordsTell /\ CallsKnow /\ TableBacked(attempts, provider)
        /\ \A e \in Events : ReceiptBacked(e)
    BY DEF ProviderBacks
  <2>2. RecordsTell'
    BY <2>1, NextRecords DEF RecordsMoveOn
  <2>3. CallsKnow'
    BY <2>1, NextKnows
  <2>4. TableBacked(attempts', provider')
    BY <2>1, NextBacked
  <2>5. \A e \in Events : ReceiptBacked(e)'
    BY <2>1, NextReceipts
  <2> QED
    BY <2>2, <2>3, <2>4, <2>5 DEF ProviderBacks
<1> QED
  BY <1>1, <1>2, Consistent, PTL DEF Spec

\* An attempt is succeeded exactly when it has a transaction, which no other
\* attempt has, and the provider did record a payment of it: no answer that got
\* old, no retry and no signed notification with foreign content stores another.
THEOREM SuccessAlwaysProven == Spec => []SuccessIsProven
<1>1. ProviderBacks => SuccessIsProven
  BY DEF ProviderBacks, TableBacked, Backed, OwnTransactions, SuccessIsProven
<1> QED
  BY <1>1, ProviderAlways, PTL

\* A pending attempt always has a prepay ID the provider issued for it, a created
\* one never, wherever its creation at the provider was interrupted.
THEOREM PrepayAlwaysIssued == Spec => []PrepayIsIssued
<1>1. ProviderBacks => PrepayIsIssued
  BY DEF ProviderBacks, TableBacked, Backed, PrepayIsIssued
<1> QED
  BY <1>1, ProviderAlways, PTL

\* A receipt that says "processed" is backed by the success it brought, for ever.
THEOREM ReceiptsAlwaysBacked == Spec => []ReceiptsBacked
<1>1. ProviderBacks => ReceiptsBacked
  BY DEF ProviderBacks, ReceiptBacked, ReceiptsBacked
<1> QED
  BY <1>1, ProviderAlways, PTL

-----------------------------------------------------------------------------
(* Closing.                                                                  *)

\* The provider does not reopen or charge an order it has closed.
ClosedIsFinal == \A m \in ProviderMoves : m[1] = "CLOSED" => m[2] = "CLOSED"

\* Who has read that an order was closed is still right when using it.
SeesClosed ==
    \A p \in Procs :
        calls[p].pc \in Answered /\ calls[p].snap.state = "CLOSED" =>
            provider[calls[p].attempt].state = "CLOSED"

ClosedStays ==
    \A a \in Attempts : provider[a].state = "CLOSED" => provider'[a].state = "CLOSED"

LEMMA NextClosedStays ==
    ASSUME ClosedIsFinal, Inv, [Next]_vars
    PROVE  ClosedStays
<1>0. provider \in [Attempts -> Records]
  BY DEF Inv, TypeOK
<1>1. CASE UNCHANGED provider
  BY <1>1 DEF ClosedStays
<1>2. ASSUME NEW p \in Procs, PrepayCreate(p) \/ PrepayUnanswered(p) PROVE ClosedStays
  <2> DEFINE a == calls[p].attempt
  <2>1. CASE provider' = [provider EXCEPT ![a] = Prepaid(provider[a])]
    BY <1>0, <2>1 DEF ClosedStays, Prepaid
  <2> QED
    BY <1>1, <1>2, <2>1 DEF PrepayCreate, PrepayUnanswered
<1>3. ASSUME NEW p \in Procs, CloseCall(p) PROVE ClosedStays
  <2> DEFINE a == calls[p].attempt
  <2>1. ASSUME NEW r \in Records, r.state = "CLOSED" PROVE ClosedAt(r).state = "CLOSED"
    BY <2>1 DEF ClosedAt, Records
  <2>2. CASE provider' = [provider EXCEPT ![a] = ClosedAt(provider[a])]
    BY <1>0, <2>1, <2>2 DEF ClosedStays
  <2> QED
    BY <1>1, <1>3, <2>2 DEF CloseCall
<1>4. ASSUME NEW p \in Procs, Begin(p) \/ Continue(p) PROVE ClosedStays
  <2>1. CASE Create(p)
    BY <1>1, <2>1
       DEF Create, CreateLookup, CreateReplayed, CreateRead, CreateLock, CreateInsert,
           CreateConflict, CreateOutOfBound
  <2>2. CASE EnsurePrepay(p)
    BY <1>1, <1>2, <2>2
       DEF EnsurePrepay, PrepayLock, PrepayQuery, PrepayObserve, PrepayRejected,
           PrepayStore, PrepayLateQuery, PrepayLate
  <2>3. CASE ReconcileCall(p)
    BY <1>1, <2>3 DEF ReconcileCall, Refresh, Reconcile, ReconcileQuery, ReconcileApply
  <2>4. CASE CloseCallStep(p)
    BY <1>1, <1>3, <2>4
       DEF CloseCallStep, Close, CloseQuery, CloseObserve, CloseConfirm, CloseRecover,
           CloseCommit
  <2>5. CASE Notify(p)
    BY <1>1, <2>5 DEF Notify, NotifyLookup, NotifyUnmatched, NotifyLock, NotifyApply,
                      NotifyCommit, NotifyRetry
  <2> QED
    BY <1>4, <2>1, <2>2, <2>3, <2>4, <2>5
       DEF Begin, Continue, Create, ReconcileCall, CloseCallStep, Notify
<1>5. ASSUME NEW a \in Attempts, Expire(a) PROVE ClosedStays
  BY <1>0, <1>5 DEF Expire, ClosedStays, Records
<1>6. ASSUME NEW a \in Attempts, NEW to \in TradeStates, SetTradeState(a, to)
      PROVE  ClosedStays
  <2>1. provider[a].state = "CLOSED" => to = "CLOSED"
    BY <1>6 DEF SetTradeState, ClosedIsFinal
  <2>2. /\ provider'[a].state = to
        /\ \A b \in Attempts \ {a} : provider'[b] = provider[b]
    BY <1>0, <1>6 DEF SetTradeState, Records
  <2> QED
    BY <2>1, <2>2 DEF ClosedStays
<1>7. CASE UNCHANGED vars \/ \E p \in Procs : Crash(p)
  BY <1>1, <1>7 DEF vars, Crash
<1> QED
  BY <1>4, <1>5, <1>6, <1>7 DEF Next

\* An answered query tells of the closing while it is read.
LEMMA AskedClosed ==
    ASSUME Inv, NEW p \in Procs, NEW next, Query(p, next), UNCHANGED provider,
           calls'[p].snap.state = "CLOSED"
    PROVE  provider'[calls'[p].attempt].state = "CLOSED"
<1>1. calls'[p].attempt = calls[p].attempt /\ calls'[p].snap = QuerySnapshot(calls[p].attempt)
  BY DEF Query, Inv, TypeOK, Calls
<1> QED
  BY <1>1 DEF QuerySnapshot

\* A call is at a step that uses an answer because it has just read it.
LEMMA AnswerIsFresh ==
    ASSUME Inv, NEW p \in Procs, Begin(p) \/ Continue(p) \/ Crash(p),
           calls'[p].pc \in Answered
    PROVE  UNCHANGED provider /\ \E next : Query(p, next)
<1>0. calls \in [Procs -> Calls]
  BY DEF Inv, TypeOK
<1>1. ~EndCall(p) /\ \A a : ~ThenEnsurePrepay(p, a)
  <2>1. ~EndCall(p)
    BY <1>0 DEF EndCall, IdleCall, Answered
  <2>2. ASSUME NEW a, ThenEnsurePrepay(p, a) PROVE FALSE
    <3>1. calls'[p].pc = "prepay_lock"
      BY <1>0, <2>2 DEF ThenEnsurePrepay, IdleCall
    <3> QED
      BY <3>1 DEF Answered
  <2> QED
    BY <2>1, <2>2
<1>2. ASSUME NEW pc, Goto(p, pc) PROVE pc \in Answered
  BY <1>0, <1>2 DEF Goto, Calls
<1>3. CASE Create(p)
  <2>1. ASSUME NEW r \in Requests PROVE ~CreateLookup(p, r) /\ ~CreateReplayed(p, r)
    BY <1>0, <1>1 DEF CreateLookup, CreateReplayed, Calls, Answered
  <2>2. ~CreateRead(p)
    BY <1>0 DEF CreateRead, Calls, Answered
  <2>3. ~CreateLock(p) /\ ~CreateInsert(p) /\ ~CreateConflict(p) /\ ~CreateOutOfBound(p)
    BY <1>1, <1>2 DEF CreateLock, CreateInsert, CreateConflict, CreateOutOfBound, Answered
  <2> QED
    BY <1>3, <2>1, <2>2, <2>3 DEF Create
<1>4. CASE EnsurePrepay(p)
  <2>1. ~PrepayCreate(p)
    BY <1>0 DEF PrepayCreate, Calls, Answered
  <2>2. ~PrepayLock(p) /\ ~PrepayObserve(p)
    BY <1>1, <1>2 DEF PrepayLock, PrepayObserve, Answered
  <2> QED
    BY <1>1, <1>4, <2>1, <2>2
       DEF EnsurePrepay, PrepayQuery, PrepayUnanswered, PrepayRejected, PrepayStore,
           PrepayLateQuery, PrepayLate
<1>5. CASE ReconcileCall(p)
  <2>1. ASSUME NEW a \in Attempts PROVE ~Reconcile(p, a) /\ ~Refresh(p, a)
    BY <1>0, <1>1 DEF Reconcile, Refresh, Calls, Answered
  <2> QED
    BY <1>1, <1>5, <2>1 DEF ReconcileCall, ReconcileQuery, ReconcileApply
<1>6. CASE CloseCallStep(p)
  <2>1. ASSUME NEW a \in Attempts PROVE ~Close(p, a)
    BY <1>0 DEF Close, Calls, Answered
  <2>2. ~CloseObserve(p) /\ ~CloseCall(p)
    BY <1>1, <1>2 DEF CloseObserve, CloseCall, Answered
  <2>3. ~Goto(p, "close_recover")
    BY <1>2 DEF Answered
  <2> QED
    BY <1>1, <1>6, <2>1, <2>2, <2>3
       DEF CloseCallStep, CloseQuery, CloseConfirm, CloseRecover, CloseCommit
<1>7. CASE Notify(p)
  <2>1. ASSUME NEW e \in Events, NEW m \in Notifications(e) PROVE ~NotifyLookup(p, m)
    BY <1>0 DEF NotifyLookup, IdleCall, Answered
  <2>2. ~NotifyApply(p)
    BY <1>0 DEF NotifyApply, Calls, Answered
  <2>3. ~NotifyRetry(p)
    BY <1>0, <1>1 DEF NotifyRetry, Calls, Answered
  <2>4. ~NotifyUnmatched(p) /\ ~NotifyLock(p) /\ ~NotifyCommit(p)
    BY <1>1, <1>2 DEF NotifyUnmatched, NotifyLock, NotifyCommit, Answered
  <2> QED
    BY <1>7, <2>1, <2>2, <2>3, <2>4 DEF Notify
<1>8. CASE Crash(p)
  BY <1>1, <1>8 DEF Crash
<1> QED
  BY <1>3, <1>4, <1>5, <1>6, <1>7, <1>8
     DEF Begin, Continue, Create, ReconcileCall, CloseCallStep, Notify

LEMMA NextSeesClosed ==
    ASSUME ClosedIsFinal, Inv, SeesClosed, [Next]_vars
    PROVE  SeesClosed'
<1>1. ClosedStays /\ Inv'
  BY NextClosedStays, NextInv
<1>2. SUFFICES ASSUME NEW q \in Procs, calls'[q].pc \in Answered,
                      calls'[q].snap.state = "CLOSED"
               PROVE  provider'[calls'[q].attempt].state = "CLOSED"
  BY DEF SeesClosed
<1>3. CASE calls'[q] = calls[q]
  <2>1. calls[q].attempt \in Attempts
    BY <1>2, <1>3, LockedCall DEF Answered, LockedPcs
  <2> QED
    BY <1>1, <1>2, <1>3, <2>1 DEF SeesClosed, ClosedStays
<1>4. ASSUME NEW p \in Procs, Begin(p) \/ Continue(p) \/ Crash(p)
      PROVE  provider'[calls'[q].attempt].state = "CLOSED"
  <2>1. CASE q # p
    BY <1>3, <1>4, <2>1, OneCall
  <2>2. CASE q = p
    <3>1. UNCHANGED provider /\ \E next : Query(p, next)
      BY <1>2, <1>4, <2>2, AnswerIsFresh
    <3> QED
      BY <1>2, <2>2, <3>1, AskedClosed
  <2> QED
    BY <2>1, <2>2
<1>5. CASE \/ UNCHANGED vars
           \/ \E a \in Attempts : Expire(a) \/ \E to \in TradeStates : SetTradeState(a, to)
  BY <1>3, <1>5 DEF vars, Expire, SetTradeState
<1> QED
  BY <1>4, <1>5 DEF Next

\* A row is newly closed only by a snapshot that says so.
LEMMA AppliedCloses ==
    ASSUME NEW table \in [Attempts -> Rows], NEW a \in Attempts, Exists(table, a),
           NEW snap \in Snapshots, NEW b \in Attempts,
           Applied(table, a, snap)[b].status = "closed"
    PROVE  table[b].status = "closed" \/ (b = a /\ snap.state = "CLOSED")
<1> DEFINE target == StatusFor(snap.state)
           new == Applied(table, a, snap)
<1>1. new[a].status = table[a].status \/ new[a].status = target
  BY AppliedType
<1>2. b # a => new[b].status = table[b].status
  BY AppliedKeeps
<1>3. target = "closed" => snap.state = "CLOSED"
  BY DEF Snapshots, TradeStates, StatusFor, PaidStates
<1> HIDE DEF new, target
<1> QED
  BY <1>1, <1>2, <1>3 DEF new

\* A row was closed already or is that of an order closed at the provider.
ClosedOrWas(table) ==
    \A b \in Attempts :
        table[b].status = "closed" =>
            attempts[b].status = "closed" \/ provider[b].state = "CLOSED"

LEMMA SnapshotCloses ==
    ASSUME Inv, CallsKnow, SeesClosed, NEW p \in Procs, calls[p].pc \in LockedPcs,
           calls[p].pc \in Answered \cup {"notify_commit"}, NEW table \in [Attempts -> Rows],
           \A b \in Attempts : table[b].status = attempts[b].status
    PROVE  ClosedOrWas(Applied(table, calls[p].attempt, calls[p].snap))
<1> DEFINE a == calls[p].attempt
           snap == calls[p].snap
<1>1. a \in Attempts /\ Exists(table, a) /\ snap \in Snapshots
  BY LockedCall DEF Answered, SnapPcs, Exists
<1>2. snap.state = "CLOSED" => provider[a].state = "CLOSED"
  BY DEF SeesClosed, CallsKnow, Knows, Knowing, Notifying
<1> HIDE DEF a, snap
<1>3. ASSUME NEW b \in Attempts, Applied(table, a, snap)[b].status = "closed"
      PROVE  table[b].status = "closed" \/ (b = a /\ snap.state = "CLOSED")
  BY <1>1, <1>3, AppliedCloses
<1>4. ClosedOrWas(Applied(table, a, snap))
  BY <1>2, <1>3 DEF ClosedOrWas
<1> QED
  BY <1>4 DEF a, snap

LEMMA ObservedCloses ==
    ASSUME Inv, CallsKnow, SeesClosed, NEW p \in Procs, calls[p].pc \in LockedPcs,
           calls[p].pc \in Answered \cup {"notify_commit"}
    PROVE  ClosedOrWas(Observed(p))
BY SnapshotCloses DEF Observed, Inv, TypeOK

LEMMA NextCloses ==
    ASSUME Inv, CallsKnow, SeesClosed, [Next]_vars
    PROVE  ClosedOrWas(attempts')
<1>0. attempts \in [Attempts -> Rows]
  BY DEF Inv, TypeOK
<1>1. CASE UNCHANGED attempts
  BY <1>1 DEF ClosedOrWas
<1>2. ASSUME NEW a \in Attempts, NEW row, row.status # "closed" \/ row.status = attempts[a].status,
             attempts' = [attempts EXCEPT ![a] = row]
      PROVE  ClosedOrWas(attempts')
  BY <1>0, <1>2 DEF ClosedOrWas
<1>3. ASSUME NEW p \in Procs, CreateInsert(p) PROVE ClosedOrWas(attempts')
  <2>1. PICK a \in Attempts : attempts' = [attempts EXCEPT ![a] = NewAttempt(calls[p].req)]
    BY <1>3 DEF CreateInsert
  <2>2. NewAttempt(calls[p].req).status = "created"
    BY DEF NewAttempt, NoAttempt
  <2> QED
    BY <1>2, <2>1, <2>2
<1>4. ASSUME NEW p \in Procs, EnsurePrepay(p) PROVE ClosedOrWas(attempts')
  <2> DEFINE a == calls[p].attempt
             staged == [attempts[a] EXCEPT !.prepay = calls[p].generation]
  <2>0. calls[p].pc \in LockedPcs =>
          /\ a \in Attempts /\ Exists(attempts, a) /\ attempts[a] \in Rows
          /\ attempts[a].status \in Statuses
    BY <1>0, LockedCall DEF Rows, Exists
  <2>1. CASE PrepayObserve(p)
    <3>1. calls[p].pc \in LockedPcs /\ calls[p].pc \in Answered
      BY <2>1 DEF PrepayObserve, At, LockedPcs, Answered
    <3> QED
      BY <1>1, <2>1, <3>1, ObservedCloses DEF PrepayObserve
  <2>2. CASE PrepayRejected(p)
    <3> DEFINE row == Move(attempts[a], "failed", None)
    <3>1. calls[p].pc \in LockedPcs
      BY <2>2 DEF PrepayRejected, At, LockedPcs
    <3>2. attempts' = [attempts EXCEPT ![a] = row]
      BY <2>2 DEF PrepayRejected
    <3>3. row.status = "failed"
      BY <2>0, <3>1, MoveType DEF Statuses
    <3> HIDE DEF row
    <3> QED
      BY <1>2, <2>0, <3>1, <3>2, <3>3
  <2>3. CASE PrepayStore(p)
    <3> DEFINE row == IF attempts[a].status = "created" THEN Move(staged, "pending", None)
                      ELSE staged
    <3>1. calls[p].pc \in LockedPcs /\ calls[p].pc = "prepay_result"
      BY <2>3 DEF PrepayStore, At, LockedPcs
    <3>2. /\ staged \in Rows /\ staged.status = attempts[a].status
          /\ WithPrepay(p) = [attempts EXCEPT ![a] = staged]
      BY <3>1, WithPrepayType
    <3>3. attempts' = [attempts EXCEPT ![a] = row]
      BY <1>0, <2>0, <2>3, <3>1, <3>2 DEF PrepayStore
    <3> HIDE DEF staged
    <3>4. row.status = "pending" \/ row.status = attempts[a].status
      BY <2>0, <3>1, <3>2, MoveType DEF Statuses
    <3> HIDE DEF row
    <3> QED
      BY <1>2, <2>0, <3>1, <3>3, <3>4
  <2>4. CASE PrepayLate(p)
    <3>1. calls[p].pc \in LockedPcs /\ calls[p].pc \in Answered
      BY <2>4 DEF PrepayLate, At, LockedPcs, Answered
    <3>2. /\ WithPrepay(p) \in [Attempts -> Rows]
          /\ \A b \in Attempts : WithPrepay(p)[b].status = attempts[b].status
      <4>1. /\ WithPrepay(p) = [attempts EXCEPT ![a] = staged]
            /\ staged.status = attempts[a].status /\ WithPrepay(p) \in [Attempts -> Rows]
        BY <3>1, WithPrepayType
      <4> HIDE DEF staged
      <4> QED
        BY <1>0, <4>1
    <3>3. \/ UNCHANGED attempts
          \/ attempts' = Observed(p)
          \/ attempts' = Applied(WithPrepay(p), a, calls[p].snap)
      BY <2>4 DEF PrepayLate, StagedPrepay, Observed
    <3>4. ClosedOrWas(Applied(WithPrepay(p), a, calls[p].snap))
      BY <3>1, <3>2, SnapshotCloses
    <3> QED
      BY <1>1, <3>1, <3>3, <3>4, ObservedCloses
  <2> QED
    BY <1>1, <1>4, <2>1, <2>2, <2>3, <2>4
       DEF EnsurePrepay, PrepayLock, PrepayQuery, PrepayCreate, PrepayUnanswered,
           PrepayLateQuery
<1>5. ASSUME NEW p \in Procs, CloseCallStep(p) PROVE ClosedOrWas(attempts')
  <2>1. CASE CloseObserve(p)
    <3>1. calls[p].pc \in LockedPcs /\ calls[p].pc \in Answered
      BY <2>1 DEF CloseObserve, At, LockedPcs, Answered
    <3> QED
      BY <1>1, <2>1, <3>1, ObservedCloses DEF CloseObserve
  <2>2. CASE CloseCommit(p)
    <3> DEFINE a == calls[p].attempt
               new == Observed(p)
               marked == [new EXCEPT ![a].closeReason = "merchant_requested"]
    <3>1. calls[p].pc \in LockedPcs /\ calls[p].pc \in SnapPcs /\ calls[p].pc \in Answered
      BY <2>2 DEF CloseCommit, At, LockedPcs, SnapPcs, Answered
    <3>2. ClosedOrWas(new) /\ new \in [Attempts -> Rows] /\ a \in Attempts
      BY <3>1, ObservedCloses, ObservedKept, LockedCall
    <3>3. UNCHANGED attempts \/ attempts' = new \/ attempts' = marked
      BY <2>2 DEF CloseCommit, CloseOutcome
    <3> HIDE DEF new
    <3>4. \A b \in Attempts : marked[b].status = new[b].status
      BY <3>2 DEF Rows
    <3> HIDE DEF marked
    <3> QED
      BY <1>1, <3>2, <3>3, <3>4 DEF ClosedOrWas
  <2> QED
    BY <1>1, <1>5, <2>1, <2>2
       DEF CloseCallStep, Close, CloseQuery, CloseCall, CloseConfirm, CloseRecover
<1>6. ASSUME NEW p \in Procs, ReconcileCall(p) PROVE ClosedOrWas(attempts')
  <2>1. CASE ReconcileApply(p)
    <3>1. calls[p].pc \in LockedPcs /\ calls[p].pc \in Answered
      BY <2>1 DEF ReconcileApply, At, LockedPcs, Answered
    <3> QED
      BY <1>1, <2>1, <3>1, ObservedCloses DEF ReconcileApply
  <2> QED
    BY <1>1, <1>6, <2>1 DEF ReconcileCall, Refresh, Reconcile, ReconcileQuery
<1>7. ASSUME NEW p \in Procs, Notify(p) PROVE ClosedOrWas(attempts')
  <2>1. CASE NotifyCommit(p)
    <3>1. calls[p].pc \in LockedPcs /\ calls[p].pc = "notify_commit"
      BY <2>1 DEF NotifyCommit, At, LockedPcs
    <3> QED
      BY <1>1, <2>1, <3>1, ObservedCloses DEF NotifyCommit
  <2> QED
    BY <1>1, <1>7, <2>1
       DEF Notify, NotifyLookup, NotifyUnmatched, NotifyLock, NotifyApply, NotifyRetry
<1>8. ASSUME NEW p \in Procs, Begin(p) \/ Continue(p) PROVE ClosedOrWas(attempts')
  <2>1. CASE Create(p)
    BY <1>1, <1>3, <2>1
       DEF Create, CreateLookup, CreateReplayed, CreateRead, CreateLock, CreateConflict,
           CreateOutOfBound
  <2> QED
    BY <1>4, <1>5, <1>6, <1>7, <1>8, <2>1
       DEF Begin, Continue, Create, ReconcileCall, CloseCallStep, Notify
<1>9. CASE \/ UNCHANGED vars \/ \E p \in Procs : Crash(p)
           \/ \E a \in Attempts : Expire(a) \/ \E to \in TradeStates : SetTradeState(a, to)
  BY <1>1, <1>9 DEF vars, Crash, Expire, SetTradeState
<1> QED
  BY <1>8, <1>9 DEF Next

LEMMA ClosingAlways ==
    ASSUME ClosedIsFinal
    PROVE  Spec => [](SeesClosed /\ ClosedMeansUnpaid)
<1>1. Init => SeesClosed /\ ClosedMeansUnpaid
  BY DEF Init, IdleCall, NoAttempt, SeesClosed, ClosedMeansUnpaid, Answered
<1>2. /\ Inv /\ ProviderBacks /\ SeesClosed /\ ClosedMeansUnpaid
      /\ [Next]_vars
      => SeesClosed' /\ ClosedMeansUnpaid'
  <2> SUFFICES ASSUME Inv, CallsKnow, SeesClosed, ClosedMeansUnpaid, [Next]_vars
               PROVE  SeesClosed' /\ ClosedMeansUnpaid'
    BY DEF ProviderBacks
  <2>1. SeesClosed'
    BY NextSeesClosed
  <2>2. ClosedOrWas(attempts') /\ ClosedStays
    BY NextCloses, NextClosedStays
  <2>3. ClosedMeansUnpaid'
    BY <2>2 DEF ClosedOrWas, ClosedStays, ClosedMeansUnpaid
  <2> QED
    BY <2>1, <2>3
<1> QED
  BY <1>1, <1>2, Consistent, ProviderAlways, PTL DEF Spec

\* Close and payment race, but no attempt is stored as closed that the provider
\* did not close, if an order closed at the provider is neither reopened nor paid
\* there (nothing in the service could keep a closed row true otherwise).
THEOREM ClosedAlwaysUnpaid ==
    ASSUME ClosedIsFinal
    PROVE  Spec => []ClosedMeansUnpaid
BY ClosingAlways, PTL

=============================================================================
