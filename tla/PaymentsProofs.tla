---------------------------- MODULE PaymentsProofs ----------------------------
(* Machine-checked theorems about Payments.                                   *)
EXTENDS Payments, TLAPS

Inv == TypeOK /\ CallsConsistent

\* The canonical status of every trade state is a status.
LEMMA StatusForType == \A s \in TradeStates : StatusFor(s) \in Statuses
BY DEF TradeStates, StatusFor, Statuses, PaidStates

LEMMA DecideType ==
    \A c, t, b : DecideTransition(c, t, b) \in {"noop", "apply", "ignore"}
BY DEF DecideTransition

\* Logging, flagging and moving a row keep it a row.
LEMMA LogType ==
    ASSUME NEW row \in Rows, row.status \in Statuses, NEW to \in Statuses
    PROVE  /\ Log(row, to) \in Rows
           /\ Log(row, to).status = row.status
           /\ Log(row, to).req = row.req
           /\ Log(row, to).tx = row.tx
           /\ Log(row, to).prepay = row.prepay
<1>1. row.history \in Seq((Statuses \cup {"none"}) \X Statuses)
  BY DEF Rows
<1>2. Append(row.history, <<row.status, to>>) \in Seq((Statuses \cup {"none"}) \X Statuses)
  BY <1>1
<1> QED
  BY <1>2 DEF Log, Rows

LEMMA MarkType ==
    ASSUME NEW row \in Rows, row.status \in Statuses, NEW reason \in Reviews
    PROVE  /\ MarkForReview(row, reason) \in Rows
           /\ MarkForReview(row, reason).status = row.status
           /\ MarkForReview(row, reason).req = row.req
           /\ MarkForReview(row, reason).tx = row.tx
           /\ MarkForReview(row, reason).prepay = row.prepay
<1> DEFINE logged == Log(row, row.status)
<1>1. /\ logged \in Rows /\ logged.status = row.status /\ logged.req = row.req
      /\ logged.tx = row.tx /\ logged.prepay = row.prepay
  BY LogType
<1> HIDE DEF logged
<1>2. [logged EXCEPT !.review = reason] \in Rows
  BY <1>1 DEF Rows
<1>3. MarkForReview(row, reason) = IF row.review = reason THEN row
                                   ELSE [logged EXCEPT !.review = reason]
  BY DEF MarkForReview, logged
<1> QED
  BY <1>1, <1>2, <1>3 DEF Rows

LEMMA MoveType ==
    ASSUME NEW row \in Rows, row.status \in Statuses, NEW target \in Statuses,
           NEW tx \in Attempts \cup {None}
    PROVE  /\ Move(row, target, tx) \in Rows
           /\ Move(row, target, tx).status = target
           /\ Move(row, target, tx).req = row.req
           /\ Move(row, target, tx).prepay = row.prepay
           /\ Move(row, target, tx).tx = IF target = "succeeded" THEN tx ELSE row.tx
<1> DEFINE moved == [Log(row, target) EXCEPT !.status = target]
           paid  == [moved EXCEPT !.tx = tx, !.closeReason = "none"]
<1>1. /\ moved \in Rows /\ moved.status = target /\ moved.req = row.req
      /\ moved.tx = row.tx /\ moved.prepay = row.prepay
  BY LogType DEF Rows
<1> HIDE DEF moved
<1>2. /\ paid \in Rows /\ paid.status = target /\ paid.req = row.req
      /\ paid.tx = tx /\ paid.prepay = row.prepay
  BY <1>1 DEF Rows
<1>3. Move(row, target, tx) = IF target = "succeeded" THEN paid ELSE moved
  BY DEF Move, moved
<1> QED
  BY <1>1, <1>2, <1>3

\* A row of the same request and prepay, whose status and transaction follow the
\* transition policy for the observed trade state.
SettledRow(row, snap, new) ==
    LET target == StatusFor(snap.state) IN
    /\ new \in Rows
    /\ new.status \in Statuses
    /\ new.req = row.req
    /\ new.prepay = row.prepay
    /\ \/ new.status = row.status /\ new.tx = row.tx
       \/ /\ new.status = target
          /\ DecideTransition(row.status, target, TRUE) = "apply"
          /\ target = "pending" => row.prepay # 0 \/ row.status # "created"
          /\ new.tx = IF target = "succeeded" THEN snap.tx ELSE row.tx

\* An observation makes such a row of the observed row.
LEMMA SettleType ==
    ASSUME NEW row \in Rows, row.status \in Statuses, NEW snap \in Snapshots,
           NEW related, NEW reason \in Reviews
    PROVE  SettledRow(row, snap, Settle(row, snap, related, reason))
<1> DEFINE target == StatusFor(snap.state)
           ignored == row.status = "created" /\ target = "pending" /\ row.prepay = 0
           applies == ~ignored /\ DecideTransition(row.status, target, TRUE) = "apply"
           moved == Move(row, target, snap.tx)
           settled == IF applies THEN moved ELSE row
           new == Settle(row, snap, related, reason)
<1>1. target \in Statuses /\ snap.tx \in Attempts \cup {None}
  BY StatusForType DEF Snapshots
<1> HIDE DEF target
<1>2. /\ moved \in Rows /\ moved.status = target /\ moved.req = row.req
      /\ moved.prepay = row.prepay
      /\ moved.tx = IF target = "succeeded" THEN snap.tx ELSE row.tx
  BY <1>1, MoveType
<1> HIDE DEF moved
<1>3. new = IF related = {} THEN settled ELSE MarkForReview(settled, reason)
  BY DEF Settle, target, moved
<1>4. settled \in Rows /\ settled.status \in Statuses
  BY <1>1, <1>2
<1>5. /\ MarkForReview(settled, reason) \in Rows
      /\ MarkForReview(settled, reason).status = settled.status
      /\ MarkForReview(settled, reason).req = settled.req
      /\ MarkForReview(settled, reason).tx = settled.tx
      /\ MarkForReview(settled, reason).prepay = settled.prepay
  BY <1>4, MarkType
<1>6. /\ new \in Rows /\ new.status = settled.status /\ new.req = settled.req
      /\ new.tx = settled.tx /\ new.prepay = settled.prepay
  BY <1>3, <1>4, <1>5
<1> HIDE DEF new
<1>7. SettledRow(row, snap, new)
  <2>1. CASE applies
    BY <1>1, <1>2, <1>6, <2>1 DEF target, SettledRow
  <2>2. CASE ~applies
    BY <1>1, <1>2, <1>6, <2>2 DEF target, SettledRow
  <2> QED
    BY <2>1, <2>2
<1> QED
  BY <1>7 DEF new

LEMMA RelatedType ==
    ASSUME NEW table, NEW a \in Attempts, NEW target
    PROVE  Related(table, a, target) \subseteq Siblings(table, a)
BY DEF Related

LEMMA ReviewReasonType == \A table, related : ReviewReason(table, related) \in Reviews
BY DEF ReviewReason, Reviews

\* What settling attempt a makes of the table.
AppliedTable(table, a, snap, new) ==
    LET target == StatusFor(snap.state) IN
    /\ new \in [Attempts -> Rows]
    /\ new[a].status \in Statuses
    /\ \A b \in Attempts :
          /\ new[b].req = table[b].req
          /\ new[b].prepay = table[b].prepay
          /\ b # a => new[b].status = table[b].status /\ new[b].tx = table[b].tx
          /\ b # a /\ b \notin Siblings(table, a) => new[b] = table[b]
    /\ \/ new[a].status = table[a].status /\ new[a].tx = table[a].tx
       \/ /\ new[a].status = target
          /\ DecideTransition(table[a].status, target, TRUE) = "apply"
          /\ target = "pending" => table[a].prepay # 0 \/ table[a].status # "created"
          /\ new[a].tx = IF target = "succeeded" THEN snap.tx ELSE table[a].tx

\* Applying a snapshot keeps the table a table: no attempt appears, vanishes or
\* changes its request or prepay, and no other attempt changes its status or
\* transaction or is touched at all unless it belongs to the same order.
LEMMA AppliedIs ==
    ASSUME NEW table \in [Attempts -> Rows], NEW a \in Attempts, Exists(table, a),
           NEW snap \in Snapshots
    PROVE  AppliedTable(table, a, snap, Applied(table, a, snap))
<1> DEFINE target == StatusFor(snap.state)
           related == Related(table, a, target)
           reason == ReviewReason(table, related)
           new == Applied(table, a, snap)
<1>1. reason \in Reviews
  BY ReviewReasonType
<1>2. related \subseteq Siblings(table, a)
  BY RelatedType
<1> HIDE DEF reason, related
<1>3. new = [b \in Attempts |->
               IF b = a THEN Settle(table[a], snap, related, reason)
               ELSE IF b \in related THEN MarkForReview(table[b], reason) ELSE table[b]]
  BY DEF Applied, reason, related
<1> HIDE DEF new
<1>4. /\ table[a] \in Rows
      /\ table[a].status \in Statuses
  BY DEF Rows, Exists
<1> DEFINE settled == Settle(table[a], snap, related, reason)
<1>5. /\ settled \in Rows /\ settled.status \in Statuses
      /\ settled.req = table[a].req /\ settled.prepay = table[a].prepay
      /\ \/ settled.status = table[a].status /\ settled.tx = table[a].tx
         \/ /\ settled.status = target
            /\ DecideTransition(table[a].status, target, TRUE) = "apply"
            /\ target = "pending" => table[a].prepay # 0 \/ table[a].status # "created"
            /\ settled.tx = IF target = "succeeded" THEN snap.tx ELSE table[a].tx
  <2>1. SettledRow(table[a], snap, settled)
    BY <1>1, <1>4, SettleType
  <2> HIDE DEF settled
  <2> QED
    BY <2>1 DEF SettledRow
<1>6. \A b \in related :
        /\ MarkForReview(table[b], reason) \in Rows
        /\ MarkForReview(table[b], reason).status = table[b].status
        /\ MarkForReview(table[b], reason).req = table[b].req
        /\ MarkForReview(table[b], reason).tx = table[b].tx
        /\ MarkForReview(table[b], reason).prepay = table[b].prepay
  <2> TAKE b \in related
  <2>1. table[b] \in Rows /\ table[b].status \in Statuses
    BY <1>2 DEF Siblings, Exists, Rows
  <2> QED
    BY <1>1, <2>1, MarkType
<1> HIDE DEF settled, target
<1>7. new[a] = settled
  BY <1>3 DEF settled
<1>8. \A b \in Attempts \ {a} :
        new[b] = IF b \in related THEN MarkForReview(table[b], reason) ELSE table[b]
  BY <1>3
<1>9. new \in [Attempts -> Rows]
  BY <1>3, <1>5, <1>6 DEF settled
<1>10. \A b \in Attempts :
         /\ new[b].req = table[b].req
         /\ new[b].prepay = table[b].prepay
         /\ b # a => new[b].status = table[b].status /\ new[b].tx = table[b].tx
         /\ b # a /\ b \notin Siblings(table, a) => new[b] = table[b]
  BY <1>2, <1>5, <1>6, <1>7, <1>8
<1> QED
  <2>1. AppliedTable(table, a, snap, new)
    BY <1>5, <1>7, <1>9, <1>10 DEF AppliedTable, target
  <2> QED
    BY <2>1 DEF new

LEMMA AppliedType ==
    ASSUME NEW table \in [Attempts -> Rows], NEW a \in Attempts, Exists(table, a),
           NEW snap \in Snapshots
    PROVE  LET new == Applied(table, a, snap)
               target == StatusFor(snap.state) IN
           /\ new \in [Attempts -> Rows]
           /\ new[a].status \in Statuses
           /\ \A b \in Attempts :
                 /\ new[b].req = table[b].req
                 /\ new[b].prepay = table[b].prepay
                 /\ b # a => new[b].status = table[b].status /\ new[b].tx = table[b].tx
                 /\ b # a /\ b \notin Siblings(table, a) => new[b] = table[b]
           /\ \/ new[a].status = table[a].status /\ new[a].tx = table[a].tx
              \/ /\ new[a].status = target
                 /\ DecideTransition(table[a].status, target, TRUE) = "apply"
                 /\ target = "pending" => table[a].prepay # 0 \/ table[a].status # "created"
                 /\ new[a].tx = IF target = "succeeded" THEN snap.tx ELSE table[a].tx
BY AppliedIs DEF AppliedTable

LEMMA AppliedKeepsRows ==
    ASSUME NEW table \in [Attempts -> Rows], NEW a \in Attempts, Exists(table, a),
           NEW snap \in Snapshots
    PROVE  /\ Applied(table, a, snap) \in [Attempts -> Rows]
           /\ Applied(table, a, snap)[a].status \in Statuses
           /\ \A b \in Attempts :
                 /\ Applied(table, a, snap)[b].req = table[b].req
                 /\ b # a => Applied(table, a, snap)[b].status = table[b].status
<1> DEFINE new == Applied(table, a, snap)
<1>1. AppliedTable(table, a, snap, new)
  BY AppliedIs
<1> HIDE DEF new
<1>2. new \in [Attempts -> Rows] /\ new[a].status \in Statuses
      /\ \A b \in Attempts :
            new[b].req = table[b].req /\ (b # a => new[b].status = table[b].status)
  BY <1>1 DEF AppliedTable
<1> QED
  BY <1>2 DEF new

-----------------------------------------------------------------------------
(* The inductive invariant: one call moves, the others keep what they rely on. *)

TableKept ==
    /\ attempts' \in [Attempts -> Rows]
    /\ \A a \in Attempts :
          /\ Exists(attempts, a) => Exists(attempts', a) /\ attempts'[a].req = attempts[a].req
          /\ Exists(attempts', a) => attempts'[a].req \in Requests

RecordsKept ==
    /\ provider' \in [Attempts -> Records]
    /\ \A a \in Attempts : RecordConsistent(a)'

LocksKept(p) ==
    /\ lock' \in [Orders -> Procs \cup {None}]
    /\ \A o \in Orders : lock[o] \notin {None, p} => lock'[o] = lock[o]

\* The call of p moves to a consistent state, the other calls do not move.
CallMoves(p) ==
    /\ calls' \in [Procs -> Calls]
    /\ \A q \in Procs \ {p} : calls'[q] = calls[q]
    /\ CallConsistent(p)'

\* A step of one call that keeps the table, the records, the inbox and the other
\* calls' locks keeps the invariant.
LEMMA Frame ==
    ASSUME Inv, NEW p \in Procs, TableKept, RecordsKept, LocksKept(p), CallMoves(p),
           inbox' \in [Events -> Receipts \cup {None}]
    PROVE  Inv'
<1>1. TypeOK'
  BY DEF TypeOK, TableKept, RecordsKept, LocksKept, CallMoves
<1>2. ASSUME NEW q \in Procs \ {p} PROVE CallConsistent(q)'
  <2> DEFINE c == calls[q]
  <2>1. calls'[q] = c /\ c \in Calls
    BY DEF CallMoves, Inv, TypeOK
  <2>2. CallConsistent(q)
    BY DEF Inv, CallsConsistent
  <2>3. c.attempt \in Attempts =>
           /\ Exists(attempts', c.attempt)
           /\ attempts'[c.attempt].req = attempts[c.attempt].req
           /\ attempts[c.attempt].req.order \in Orders
    BY <2>2 DEF CallConsistent, TableKept, Inv, CallsConsistent, Orders
  <2>4. q # None /\ q # p
    BY PaymentsAssumption
  <2>5. c.pc \in LockedPcs =>
           lock'[attempts'[c.attempt].req.order] = q
    BY <2>2, <2>3, <2>4 DEF CallConsistent, LocksKept
  <2> HIDE DEF c
  <2> QED
    BY <2>1, <2>2, <2>3, <2>5 DEF CallConsistent, c
<1>3. CallsConsistent'
  BY <1>2 DEF CallsConsistent, TableKept, RecordsKept, CallMoves
<1> QED
  BY <1>1, <1>3 DEF Inv

LEMMA InitInv == Init => Inv
<1> SUFFICES ASSUME Init PROVE Inv
  OBVIOUS
<1>1. NoAttempt \in Rows
  <2>1. <<>> \in Seq((Statuses \cup {"none"}) \X Statuses)
    OBVIOUS
  <2> QED
    BY <2>1, PaymentsAssumption DEF NoAttempt, Rows, Reviews
<1>2. NoRecord \in Records
  BY PaymentsAssumption DEF NoRecord, Records
<1>3. IdleCall \in Calls
  BY PaymentsAssumption DEF IdleCall, Calls, FreePcs
<1>4. TypeOK
  BY <1>1, <1>2, <1>3 DEF Init, TypeOK
<1>5. CallsConsistent
  BY PaymentsAssumption DEF Init, CallsConsistent, CallConsistent, RecordConsistent,
     NoAttempt, NoRecord, IdleCall, Exists, LockedPcs, SnapPcs
<1> QED
  BY <1>4, <1>5 DEF Inv

\* Ending a call, with or without a commit, moves only that call and its locks.
LEMMA EndCallMoves ==
    ASSUME Inv, NEW p \in Procs, EndCall(p)
    PROVE  LocksKept(p) /\ CallMoves(p)
<1>1. IdleCall \in Calls
  BY PaymentsAssumption DEF IdleCall, Calls, FreePcs
<1>2. calls \in [Procs -> Calls] /\ lock \in [Orders -> Procs \cup {None}]
  BY DEF Inv, TypeOK
<1>3. LocksKept(p)
  BY <1>2 DEF LocksKept, EndCall, Unlocked
<1>4. calls' \in [Procs -> Calls] /\ calls'[p] = IdleCall
      /\ \A q \in Procs \ {p} : calls'[q] = calls[q]
  BY <1>1, <1>2 DEF EndCall
<1>5. CallConsistent(p)'
  BY <1>4, PaymentsAssumption DEF CallConsistent, IdleCall, LockedPcs, SnapPcs
<1> QED
  BY <1>3, <1>4, <1>5 DEF CallMoves

\* The hand-over to the second transaction, for an attempt that exists by then.
LEMMA ThenEnsurePrepayMoves ==
    ASSUME Inv, NEW p \in Procs, NEW a \in Attempts, ThenEnsurePrepay(p, a),
           Exists(attempts', a)
    PROVE  LocksKept(p) /\ CallMoves(p)
<1> DEFINE c == [IdleCall EXCEPT !.pc = "prepay_lock", !.attempt = a]
<1>1. c \in Calls /\ c.pc = "prepay_lock" /\ c.attempt = a
  <2>1. IdleCall \in Calls
    BY PaymentsAssumption DEF IdleCall, Calls, FreePcs
  <2>2. "prepay_lock" \in LockedPcs \cup FreePcs
    BY DEF FreePcs
  <2> HIDE DEF IdleCall
  <2> QED
    BY <2>1, <2>2 DEF Calls
<1>2. calls \in [Procs -> Calls] /\ lock \in [Orders -> Procs \cup {None}]
  BY DEF Inv, TypeOK
<1>3. LocksKept(p)
  BY <1>2 DEF LocksKept, ThenEnsurePrepay, Unlocked
<1> HIDE DEF c
<1>4. calls' \in [Procs -> Calls] /\ calls'[p] = c
      /\ \A q \in Procs \ {p} : calls'[q] = calls[q]
  BY <1>1, <1>2 DEF ThenEnsurePrepay, c
<1>5. CallConsistent(p)'
  BY <1>1, <1>4 DEF CallConsistent, LockedPcs, SnapPcs
<1> QED
  BY <1>3, <1>4, <1>5 DEF CallMoves

LEMMA TableSame == Inv /\ UNCHANGED attempts => TableKept
BY DEF Inv, TypeOK, CallsConsistent, TableKept

LEMMA RecordsSame == Inv /\ TableKept /\ UNCHANGED provider => RecordsKept
BY DEF Inv, TypeOK, CallsConsistent, RecordConsistent, TableKept, RecordsKept

LEMMA LocksSame == ASSUME Inv, NEW p, UNCHANGED lock PROVE LocksKept(p)
BY DEF Inv, TypeOK, LocksKept

LEMMA LockOrderKeeps ==
    ASSUME Inv, NEW p \in Procs, NEW o \in Orders, LockOrder(p, o)
    PROVE  LocksKept(p) /\ lock'[o] = p
BY DEF Inv, TypeOK, LockOrder, LocksKept

\* What the call of p has when it works under the lock.
LEMMA LockedCall ==
    ASSUME Inv, NEW p \in Procs, calls[p].pc \in LockedPcs
    PROVE  /\ calls[p] \in Calls
           /\ calls[p].attempt \in Attempts
           /\ Exists(attempts, calls[p].attempt)
           /\ attempts[calls[p].attempt].req \in Requests
           /\ attempts[calls[p].attempt].req.order \in Orders
           /\ lock[attempts[calls[p].attempt].req.order] = p
           /\ calls[p].pc \in SnapPcs => calls[p].snap \in Snapshots
BY DEF Inv, TypeOK, CallsConsistent, CallConsistent, Orders

\* An answered query moves the call to any later step of the same transaction.
LEMMA QueryMoves ==
    ASSUME Inv, NEW p \in Procs, calls[p].pc \in LockedPcs, NEW next \in LockedPcs,
           next \notin {"notify_apply", "notify_commit"}, Query(p, next),
           UNCHANGED <<attempts, lock>>
    PROVE  CallMoves(p)
<1> DEFINE a == calls[p].attempt
           snap == QuerySnapshot(a)
<1>1. /\ a \in Attempts /\ Exists(attempts, a) /\ calls[p] \in Calls
      /\ lock[attempts[a].req.order] = p
  BY LockedCall
<1>2. snap \in Snapshots
  <2>1. provider[a].state \in TradeStates
    BY <1>1 DEF Inv, TypeOK, Records, Query
  <2> QED
    BY <1>1, <2>1 DEF QuerySnapshot, Snapshots
<1> HIDE DEF snap
<1>3. /\ calls' \in [Procs -> Calls]
      /\ calls'[p].pc = next /\ calls'[p].attempt = a /\ calls'[p].snap = snap
      /\ \A q \in Procs \ {p} : calls'[q] = calls[q]
  BY <1>1, <1>2 DEF Query, Inv, TypeOK, Calls, snap
<1> HIDE DEF a
<1>4. CallConsistent(p)'
  BY <1>1, <1>2, <1>3 DEF CallConsistent, LockedPcs
<1> QED
  BY <1>3, <1>4 DEF CallMoves

\* A call under the lock goes to a later step of the same transaction.
LEMMA GotoMoves ==
    ASSUME Inv, NEW p \in Procs, calls[p].pc \in LockedPcs \cup {"prepay_lock", "notify_lock"},
           calls[p].attempt \in Attempts,
           NEW next \in LockedPcs, next # "notify_commit", Goto(p, next),
           next \in SnapPcs => calls[p].snap \in Snapshots,
           next = "notify_apply" => calls[p].event \in Events,
           UNCHANGED attempts,
           lock'[attempts[calls[p].attempt].req.order] = p
    PROVE  CallMoves(p)
<1> DEFINE a == calls[p].attempt
<1>1. a \in Attempts /\ Exists(attempts, a) /\ calls[p] \in Calls
  BY DEF Inv, TypeOK, CallsConsistent, CallConsistent
<1>2. /\ calls' \in [Procs -> Calls]
      /\ calls'[p].pc = next /\ calls'[p].attempt = a
      /\ calls'[p].snap = calls[p].snap /\ calls'[p].event = calls[p].event
      /\ \A q \in Procs \ {p} : calls'[q] = calls[q]
  BY <1>1 DEF Goto, Inv, TypeOK, Calls
<1> HIDE DEF a
<1>3. CallConsistent(p)'
  BY <1>1, <1>2 DEF CallConsistent, LockedPcs, a
<1> QED
  BY <1>2, <1>3 DEF CallMoves

\* Committing what was observed keeps the table.
LEMMA ObservedKept ==
    ASSUME Inv, NEW p \in Procs, calls[p].pc \in LockedPcs, calls[p].pc \in SnapPcs
    PROVE  /\ Observed(p) \in [Attempts -> Rows]
           /\ \A a \in Attempts :
                 /\ Exists(attempts, a) <=> Exists(Observed(p), a)
                 /\ Observed(p)[a].req = attempts[a].req
           /\ StatusAfter(p) \in Statuses
<1> DEFINE a == calls[p].attempt
           snap == calls[p].snap
           new == Applied(attempts, a, snap)
<1>1. /\ a \in Attempts /\ Exists(attempts, a) /\ snap \in Snapshots
      /\ attempts \in [Attempts -> Rows]
  BY LockedCall DEF Inv, TypeOK
<1> HIDE DEF a, snap
<1>2. /\ new \in [Attempts -> Rows]
      /\ new[a].status \in Statuses
      /\ \A b \in Attempts : /\ new[b].req = attempts[b].req
                             /\ b # a => new[b].status = attempts[b].status
  BY <1>1, AppliedType
<1>3. "absent" \notin Statuses
  BY DEF Statuses
<1> HIDE DEF new
<1>4. \A b \in Attempts : Exists(attempts, b) <=> Exists(new, b)
  BY <1>1, <1>2, <1>3 DEF Exists
<1> QED
  BY <1>2, <1>4 DEF Observed, StatusAfter, new, a, snap

\* create_prepay keeps a record a record, and it knows the order afterwards.
LEMMA PrepaidType ==
    ASSUME NEW r \in Records, r.expired < MaxGeneration
    PROVE  /\ Prepaid(r) \in Records
           /\ Prepaid(r).state \in TradeStates
           /\ Prepaid(r).expired < MaxGeneration
           /\ r.state = "unknown" => ~Prepaid(r).paid
           /\ r.state # "unknown" => r.generation <= Prepaid(r).generation
<1>1. CASE r.state = "unknown"
  <2>1. 0 \in 0..MaxGeneration /\ 1 \in 0..MaxGeneration /\ 0 < MaxGeneration
    BY PaymentsAssumption
  <2>2. Prepaid(r) = [state |-> "NOTPAY", generation |-> 1, expired |-> 0, paid |-> FALSE]
    BY <1>1 DEF Prepaid, NoRecord
  <2> QED
    BY <1>1, <2>1, <2>2 DEF Records, TradeStates
<1>2. CASE r.state = "NOTPAY" /\ r.expired = r.generation
  <2>1. r.generation + 1 \in 0..MaxGeneration
    BY <1>2, PaymentsAssumption DEF Records
  <2> QED
    BY <1>2, <2>1 DEF Prepaid, Records, TradeStates
<1>3. CASE r.state # "unknown" /\ ~(r.state = "NOTPAY" /\ r.expired = r.generation)
  BY <1>3 DEF Prepaid, Records, TradeStates
<1> QED
  BY <1>1, <1>2, <1>3

\* A step that ends the call and leaves the stores alone.
LEMMA EndCallInv ==
    ASSUME Inv, NEW p \in Procs, EndCall(p), UNCHANGED <<attempts, provider, inbox>>
    PROVE  Inv'
<1>1. TableKept
  BY TableSame
<1> QED
  BY <1>1, RecordsSame, EndCallMoves, Frame DEF Inv, TypeOK

\* A step that ends the call with a commit to the table.
LEMMA CommitInv ==
    ASSUME Inv, NEW p \in Procs, EndCall(p), TableKept, UNCHANGED <<provider, inbox>>
    PROVE  Inv'
BY RecordsSame, EndCallMoves, Frame DEF Inv, TypeOK

\* Query steps: the answer is kept under the lock, or the call ends.
LEMMA QueryStepInv ==
    ASSUME Inv, NEW p \in Procs, calls[p].pc \in LockedPcs, NEW next \in LockedPcs,
           next \notin {"notify_apply", "notify_commit"},
           \/ Query(p, next) /\ UNCHANGED lock
           \/ EndCall(p),
           UNCHANGED <<attempts, provider, inbox>>
    PROVE  Inv'
<1>1. CASE Query(p, next) /\ UNCHANGED lock
  <2>1. CallMoves(p)
    BY <1>1, QueryMoves
  <2> QED
    BY <1>1, <2>1, TableSame, RecordsSame, LocksSame, Frame DEF Inv, TypeOK
<1>2. CASE EndCall(p)
  BY <1>2, EndCallInv
<1> QED
  BY <1>1, <1>2

LEMMA GotoInv ==
    ASSUME Inv, NEW p \in Procs, calls[p].pc \in LockedPcs,
           NEW next \in LockedPcs, next \notin {"notify_apply", "notify_commit"},
           next \in SnapPcs => calls[p].snap \in Snapshots,
           Goto(p, next), UNCHANGED <<attempts, inbox, lock>>, RecordsKept
    PROVE  Inv'
<1>1. calls[p].attempt \in Attempts /\ lock'[attempts[calls[p].attempt].req.order] = p
  BY LockedCall
<1>2. CallMoves(p)
  BY <1>1, GotoMoves
<1> QED
  BY <1>2, TableSame, LocksSame, Frame DEF Inv, TypeOK

\* The lock statement of a call that has its attempt.
LEMMA LockInv ==
    ASSUME Inv, NEW p \in Procs, calls[p].pc \in {"prepay_lock", "notify_lock"},
           calls[p].attempt \in Attempts,
           NEW next \in LockedPcs, next # "notify_commit",
           next \in SnapPcs => calls[p].pc = "notify_lock",
           next = "notify_apply" => calls[p].pc = "notify_lock",
           LockOrder(p, attempts[calls[p].attempt].req.order), Goto(p, next),
           UNCHANGED <<attempts, provider, inbox>>
    PROVE  Inv'
<1> DEFINE o == attempts[calls[p].attempt].req.order
<1>1. /\ o \in Orders
      /\ calls[p].pc = "notify_lock" =>
            calls[p].snap \in Snapshots /\ calls[p].event \in Events
  BY DEF Inv, CallsConsistent, CallConsistent, Orders, SnapPcs
<1>2. LocksKept(p) /\ lock'[o] = p
  BY <1>1, LockOrderKeeps
<1>3. CallMoves(p)
  BY <1>1, <1>2, GotoMoves
<1> QED
  BY <1>2, <1>3, TableSame, RecordsSame, Frame DEF Inv, TypeOK

-----------------------------------------------------------------------------
(* One lemma per operation: its steps keep the invariant.                     *)

\* A stored attempt that keeps its request keeps the table.
LEMMA RowKept ==
    ASSUME Inv, NEW a \in Attempts, Exists(attempts, a), NEW row \in Rows,
           row.status \in Statuses, row.req = attempts[a].req,
           attempts' = [attempts EXCEPT ![a] = row]
    PROVE  TableKept
BY DEF Inv, TypeOK, CallsConsistent, TableKept, Exists, Statuses

\* Staging a prepay result changes the prepay of the call's attempt only.
LEMMA WithPrepayType ==
    ASSUME Inv, NEW p \in Procs, calls[p].pc \in LockedPcs
    PROVE  LET a == calls[p].attempt
               row == [attempts[a] EXCEPT !.prepay = calls[p].generation] IN
           /\ row \in Rows /\ row.prepay = calls[p].generation
           /\ row.status = attempts[a].status /\ row.req = attempts[a].req
           /\ row.tx = attempts[a].tx
           /\ WithPrepay(p) = [attempts EXCEPT ![a] = row]
           /\ WithPrepay(p) \in [Attempts -> Rows]
           /\ \A b \in Attempts : /\ WithPrepay(p)[b].status = attempts[b].status
                                  /\ WithPrepay(p)[b].req = attempts[b].req
                                  /\ WithPrepay(p)[b].tx = attempts[b].tx
<1> DEFINE a == calls[p].attempt
           g == calls[p].generation
           old == attempts[a]
           row == [old EXCEPT !.prepay = g]
<1>1. a \in Attempts /\ g \in 0..MaxGeneration /\ attempts \in [Attempts -> Rows]
  BY LockedCall DEF Calls, Inv, TypeOK
<1>2. old \in Rows
  BY <1>1
<1>3. WithPrepay(p) = [attempts EXCEPT ![a] = row]
  BY <1>1 DEF WithPrepay
<1> HIDE DEF old, g
<1>4. row \in Rows /\ row.prepay = g /\ row.status = old.status /\ row.req = old.req
      /\ row.tx = old.tx
  BY <1>1, <1>2 DEF Rows
<1> HIDE DEF row, a
<1>5. /\ WithPrepay(p) \in [Attempts -> Rows]
      /\ WithPrepay(p)[a] = row
      /\ \A b \in Attempts \ {a} : WithPrepay(p)[b] = attempts[b]
  BY <1>1, <1>3, <1>4
<1> QED
  BY <1>3, <1>4, <1>5 DEF old, row, a, g

LEMMA EnsurePrepayInv ==
    ASSUME Inv, NEW p \in Procs, EnsurePrepay(p)
    PROVE  Inv'
<1> DEFINE a == calls[p].attempt
<1>1. CASE PrepayLock(p)
  <2>1. a \in Attempts /\ calls[p].pc = "prepay_lock"
    BY <1>1 DEF PrepayLock, At, Inv, CallsConsistent, CallConsistent
  <2>2. CASE EndCall(p)
    BY <1>1, <2>2, EndCallInv DEF PrepayLock
  <2>3. CASE LockOrder(p, attempts[a].req.order) /\ Goto(p, "prepay_create")
    BY <1>1, <2>1, <2>3, LockInv DEF PrepayLock, LockedPcs, SnapPcs
  <2>4. CASE LockOrder(p, attempts[a].req.order) /\ Goto(p, "prepay_query")
    BY <1>1, <2>1, <2>4, LockInv DEF PrepayLock, LockedPcs, SnapPcs
  <2> QED
    BY <1>1, <2>2, <2>3, <2>4 DEF PrepayLock
<1>2. CASE PrepayQuery(p)
  BY <1>2, QueryStepInv DEF PrepayQuery, At, LockedPcs
<1>3. CASE PrepayObserve(p)
  <2>1. calls[p].pc \in LockedPcs /\ calls[p].pc \in SnapPcs
    BY <1>3 DEF PrepayObserve, At, LockedPcs, SnapPcs
  <2>2. CASE EndCall(p) /\ UNCHANGED attempts
    BY <1>3, <2>2, EndCallInv DEF PrepayObserve
  <2>3. CASE Goto(p, "prepay_create") /\ UNCHANGED <<attempts, lock>>
    <3>1. RecordsKept
      BY <1>3, <2>3, TableSame, RecordsSame DEF PrepayObserve
    <3> QED
      BY <1>3, <2>1, <2>3, <3>1, GotoInv DEF PrepayObserve, LockedPcs, SnapPcs
  <2>4. CASE attempts' = Observed(p) /\ EndCall(p)
    <3>1. TableKept
      BY <2>1, <2>4, ObservedKept DEF TableKept, Inv, CallsConsistent
    <3> QED
      BY <1>3, <2>4, <3>1, CommitInv DEF PrepayObserve
  <2> QED
    BY <1>3, <2>2, <2>3, <2>4 DEF PrepayObserve
<1>4. CASE PrepayCreate(p)
  <2>1. /\ calls[p] \in Calls /\ a \in Attempts /\ Exists(attempts, a)
        /\ lock[attempts[a].req.order] = p
    BY <1>4, LockedCall DEF PrepayCreate, At, LockedPcs
  <2> DEFINE r == Prepaid(provider[a])
             snap == [state |-> r.state, tx |-> None, amountOk |-> TRUE]
  <2>2. /\ r \in Records /\ r.state \in TradeStates /\ r.expired < MaxGeneration
    BY <2>1, PrepaidType DEF Inv, TypeOK, CallsConsistent, RecordConsistent
  <2>3. TableKept
    BY <1>4, TableSame DEF PrepayCreate
  <2> HIDE DEF r
  <2>4. provider' = [provider EXCEPT ![a] = r]
    BY <1>4 DEF PrepayCreate, r
  <2>5. RecordsKept
    BY <2>1, <2>2, <2>3, <2>4 DEF RecordsKept, RecordConsistent, TableKept, Inv, TypeOK,
       CallsConsistent, TradeStates
  <2>6. snap \in Snapshots /\ r.generation \in 0..MaxGeneration
    BY <2>2 DEF Snapshots, Records
  <2> HIDE DEF snap
  <2>7. /\ calls' \in [Procs -> Calls]
        /\ calls'[p].pc = "prepay_result" /\ calls'[p].attempt = a /\ calls'[p].snap = snap
        /\ \A q \in Procs \ {p} : calls'[q] = calls[q]
    BY <1>4, <2>1, <2>6 DEF PrepayCreate, Inv, TypeOK, Calls, LockedPcs, r, snap
  <2> HIDE DEF a
  <2>8. CallMoves(p)
    BY <1>4, <2>1, <2>6, <2>7 DEF CallMoves, CallConsistent, PrepayCreate, LockedPcs, a
  <2> QED
    BY <1>4, <2>3, <2>5, <2>8, LocksSame, Frame DEF PrepayCreate, Inv, TypeOK
<1>5. CASE PrepayUnanswered(p)
  <2>1. a \in Attempts /\ Exists(attempts, a)
    BY <1>5, LockedCall DEF PrepayUnanswered, At, LockedPcs
  <2> DEFINE r == Prepaid(provider[a])
  <2>2. /\ r \in Records /\ r.state \in TradeStates /\ r.expired < MaxGeneration
    BY <2>1, PrepaidType DEF Inv, TypeOK, CallsConsistent, RecordConsistent
  <2>3. TableKept
    BY <1>5, TableSame DEF PrepayUnanswered
  <2>4. provider' = provider \/ provider' = [provider EXCEPT ![a] = r]
    BY <1>5 DEF PrepayUnanswered
  <2> HIDE DEF r
  <2>5. RecordsKept
    BY <2>1, <2>2, <2>3, <2>4, RecordsSame DEF RecordsKept, RecordConsistent, TableKept, Inv,
       TypeOK, CallsConsistent, TradeStates
  <2> QED
    BY <1>5, <2>3, <2>5, EndCallMoves, Frame DEF PrepayUnanswered, Inv, TypeOK
<1>6. CASE PrepayRejected(p)
  <2>1. a \in Attempts /\ Exists(attempts, a)
    BY <1>6, LockedCall DEF PrepayRejected, At, LockedPcs
  <2>2. attempts[a] \in Rows /\ attempts[a].status \in Statuses
    BY <2>1 DEF Inv, TypeOK, Rows, Exists
  <2> DEFINE row == Move(attempts[a], "failed", None)
  <2>3. row \in Rows /\ row.status = "failed" /\ row.req = attempts[a].req
    BY <2>2, MoveType DEF Statuses
  <2> HIDE DEF row
  <2>4. attempts' = [attempts EXCEPT ![a] = row]
    BY <1>6 DEF PrepayRejected, row
  <2>5. TableKept
    BY <2>1, <2>3, <2>4, RowKept DEF Statuses
  <2> QED
    BY <1>6, <2>5, CommitInv DEF PrepayRejected
<1>7. CASE PrepayStore(p)
  <2>1. a \in Attempts /\ Exists(attempts, a) /\ calls[p] \in Calls
    BY <1>7, LockedCall DEF PrepayStore, At, LockedPcs
  <2> DEFINE staged == [attempts[a] EXCEPT !.prepay = calls[p].generation]
             moved == Move(staged, "pending", None)
             row == IF attempts[a].status = "created" THEN moved ELSE staged
  <2>2. staged \in Rows /\ staged.status = attempts[a].status /\ staged.req = attempts[a].req
    BY <1>7, WithPrepayType DEF PrepayStore, At, LockedPcs
  <2>3. staged.status \in Statuses
    BY <2>1, <2>2 DEF Exists, Rows
  <2>9. WithPrepay(p) = [attempts EXCEPT ![a] = staged]
    BY <1>7, WithPrepayType DEF PrepayStore, At, LockedPcs
  <2>10. [WithPrepay(p) EXCEPT ![a] = Move(@, "pending", None)] = [attempts EXCEPT ![a] = moved]
    BY <2>1, <2>9 DEF Inv, TypeOK
  <2> HIDE DEF staged
  <2>4. moved \in Rows /\ moved.status = "pending" /\ moved.req = staged.req
    BY <2>2, <2>3, MoveType DEF Statuses
  <2>5. attempts' = [attempts EXCEPT ![a] = row]
    BY <1>7, <2>9, <2>10 DEF PrepayStore
  <2> HIDE DEF moved
  <2>6. row \in Rows /\ row.status \in Statuses /\ row.req = attempts[a].req
    BY <2>2, <2>3, <2>4 DEF Statuses
  <2> HIDE DEF row
  <2>7. TableKept
    BY <2>1, <2>5, <2>6, RowKept
  <2> QED
    BY <1>7, <2>7, CommitInv DEF PrepayStore
<1>8. CASE PrepayLateQuery(p)
  BY <1>8, QueryStepInv DEF PrepayLateQuery, At, LockedPcs
<1>9. CASE PrepayLate(p)
  <2>1. /\ a \in Attempts /\ Exists(attempts, a) /\ calls[p] \in Calls
        /\ calls[p].snap \in Snapshots
    BY <1>9, LockedCall DEF PrepayLate, At, LockedPcs, SnapPcs
  <2> DEFINE staged == StagedPrepay(p)
             new == Applied(staged, a, calls[p].snap)
  <2>2. /\ staged \in [Attempts -> Rows]
        /\ \A b \in Attempts : staged[b].status = attempts[b].status
                              /\ staged[b].req = attempts[b].req
    BY <1>9, WithPrepayType DEF PrepayLate, StagedPrepay, At, LockedPcs, Inv, TypeOK
  <2> HIDE DEF staged
  <2>3. Exists(staged, a)
    BY <2>1, <2>2 DEF Exists
  <2>4. /\ new \in [Attempts -> Rows] /\ new[a].status \in Statuses
        /\ \A b \in Attempts : /\ new[b].req = staged[b].req
                               /\ b # a => new[b].status = staged[b].status
    BY <2>1, <2>2, <2>3, AppliedKeepsRows
  <2>5. attempts' = new \/ UNCHANGED attempts
    BY <1>9 DEF PrepayLate, staged
  <2> HIDE DEF new
  <2>6. TableKept
    <3>1. CASE UNCHANGED attempts
      BY <3>1, TableSame
    <3>2. CASE attempts' = new
      <4> HIDE DEF a
      <4>1. \A b \in Attempts : new[b].status = "absent" <=> attempts[b].status = "absent"
        BY <2>1, <2>2, <2>4 DEF Exists, Statuses
      <4>2. \A b \in Attempts : new[b].req = attempts[b].req
        BY <2>2, <2>4
      <4> QED
        BY <2>4, <3>2, <4>1, <4>2 DEF TableKept, Inv, CallsConsistent, Exists
    <3> QED
      BY <2>5, <3>1, <3>2
  <2> QED
    BY <1>9, <2>6, CommitInv DEF PrepayLate
<1> QED
  BY <1>1, <1>2, <1>3, <1>4, <1>5, <1>6, <1>7, <1>8, <1>9 DEF EnsurePrepay

\* Handing over to _ensure_prepay without a commit.
LEMMA HandOverInv ==
    ASSUME Inv, NEW p \in Procs, NEW a \in Attempts, Exists(attempts, a),
           ThenEnsurePrepay(p, a), UNCHANGED <<attempts, provider, inbox>>
    PROVE  Inv'
<1>1. Exists(attempts', a)
  OBVIOUS
<1>2. LocksKept(p) /\ CallMoves(p)
  BY <1>1, ThenEnsurePrepayMoves
<1> QED
  BY <1>2, TableSame, RecordsSame, Frame DEF Inv, TypeOK

Create(p) ==
    \/ \E r \in Requests : CreateLookup(p, r) \/ CreateReplayed(p, r)
    \/ CreateRead(p) \/ CreateLock(p) \/ CreateInsert(p) \/ CreateConflict(p)
    \/ CreateOutOfBound(p)

LEMMA CreateInv ==
    ASSUME Inv, NEW p \in Procs, Create(p)
    PROVE  Inv'
<1>0. calls[p] \in Calls /\ CallConsistent(p) /\ calls \in [Procs -> Calls]
  BY DEF Inv, TypeOK, CallsConsistent
<1>1. CASE \E r \in Requests : CreateLookup(p, r)
  <2>1. PICK r \in Requests : CreateLookup(p, r)
    BY <1>1
  <2>2. /\ calls' \in [Procs -> Calls]
        /\ calls'[p].pc = "create_read" /\ calls'[p].req = r
        /\ calls'[p].attempt = calls[p].attempt
        /\ \A q \in Procs \ {p} : calls'[q] = calls[q]
    BY <1>0, <2>1 DEF CreateLookup, Calls, FreePcs
  <2>3. CallMoves(p)
    BY <1>0, <2>1, <2>2 DEF CallMoves, CallConsistent, CreateLookup, LockedPcs, SnapPcs
  <2> QED
    BY <2>1, <2>3, TableSame, RecordsSame, LocksSame, Frame DEF CreateLookup, Inv, TypeOK
<1>2. CASE \E r \in Requests : CreateReplayed(p, r)
  <2>1. PICK r \in Requests : CreateReplayed(p, r)
    BY <1>2
  <2>2. PICK a \in HasKey(r.key) : ThenEnsurePrepay(p, a)
    BY <2>1 DEF CreateReplayed
  <2>3. a \in Attempts /\ Exists(attempts, a)
    BY <2>2 DEF HasKey
  <2> QED
    BY <2>1, <2>2, <2>3, HandOverInv DEF CreateReplayed
<1>3. CASE CreateRead(p)
  <2>1. /\ calls' \in [Procs -> Calls]
        /\ calls'[p].pc \in {"create_insert", "create_lock"} /\ calls'[p].req = calls[p].req
        /\ calls'[p].attempt = calls[p].attempt
        /\ \A q \in Procs \ {p} : calls'[q] = calls[q]
    <3> DEFINE seen == OfOrder(calls[p].req.order)
    <3>1. seen \in SUBSET Attempts
      BY DEF OfOrder
    <3> HIDE DEF seen
    <3>2. calls' = [calls EXCEPT ![p].pc = IF seen = {} THEN "create_insert" ELSE "create_lock",
                                 ![p].seen = seen]
      BY <1>3 DEF CreateRead, seen
    <3> QED
      BY <1>0, <3>1, <3>2 DEF Calls, FreePcs
  <2>2. CallMoves(p)
    BY <1>0, <1>3, <2>1 DEF CallMoves, CallConsistent, CreateRead, At, LockedPcs, SnapPcs
  <2> QED
    BY <1>3, <2>2, TableSame, RecordsSame, LocksSame, Frame DEF CreateRead, Inv, TypeOK
<1>4. CASE CreateLock(p)
  <2> DEFINE o == calls[p].req.order
  <2>1. calls[p].req \in Requests /\ o \in Orders
    BY <1>0, <1>4 DEF CreateLock, At, CallConsistent, Orders
  <2>2. CASE EndCall(p)
    BY <1>4, <2>2, EndCallInv DEF CreateLock
  <2>3. CASE LockOrder(p, o) /\ Goto(p, "create_insert")
    <3>1. LocksKept(p)
      BY <2>1, <2>3, LockOrderKeeps
    <3>2. /\ calls' \in [Procs -> Calls]
          /\ calls'[p].pc = "create_insert" /\ calls'[p].req = calls[p].req
          /\ calls'[p].attempt = calls[p].attempt
          /\ \A q \in Procs \ {p} : calls'[q] = calls[q]
      BY <1>0, <2>3 DEF Goto, Calls, FreePcs
    <3>3. CallMoves(p)
      BY <1>0, <1>4, <2>1, <3>2 DEF CallMoves, CallConsistent, CreateLock, At, LockedPcs, SnapPcs
    <3> QED
      BY <1>4, <3>1, <3>3, TableSame, RecordsSame, Frame DEF CreateLock, Inv, TypeOK
  <2> QED
    BY <1>4, <2>2, <2>3 DEF CreateLock
<1>5. CASE CreateInsert(p)
  <2> DEFINE r == calls[p].req
             row == NewAttempt(r)
  <2>1. r \in Requests
    BY <1>0, <1>5 DEF CreateInsert, At, CallConsistent
  <2>2. PICK a \in Attempts : /\ ~Exists(attempts, a)
                              /\ attempts' = [attempts EXCEPT ![a] = row]
                              /\ ThenEnsurePrepay(p, a)
    BY <1>5 DEF CreateInsert
  <2>3. row \in Rows /\ row.status = "created" /\ row.req = r
    <3>1. <<<<"none", "created">>>> \in Seq((Statuses \cup {"none"}) \X Statuses)
      BY DEF Statuses
    <3>2. 0 \in 0..MaxGeneration
      BY PaymentsAssumption
    <3> QED
      BY <2>1, <3>1, <3>2 DEF NewAttempt, NoAttempt, Rows, Reviews, Statuses
  <2> HIDE DEF row
  <2>4. TableKept /\ Exists(attempts', a)
    BY <2>1, <2>2, <2>3 DEF TableKept, Exists, Inv, TypeOK, CallsConsistent
  <2>5. LocksKept(p) /\ CallMoves(p)
    BY <2>2, <2>4, ThenEnsurePrepayMoves
  <2> QED
    BY <1>5, <2>4, <2>5, RecordsSame, Frame DEF CreateInsert, Inv, TypeOK
<1>6. CASE CreateConflict(p)
  <2>1. CASE EndCall(p)
    BY <1>6, <2>1, EndCallInv DEF CreateConflict
  <2>2. CASE \E a \in HasKey(calls[p].req.key) : ThenEnsurePrepay(p, a)
    <3>1. PICK a \in HasKey(calls[p].req.key) : ThenEnsurePrepay(p, a)
      BY <2>2
    <3>2. a \in Attempts /\ Exists(attempts, a)
      BY <3>1 DEF HasKey
    <3> QED
      BY <1>6, <3>1, <3>2, HandOverInv DEF CreateConflict
  <2> QED
    BY <1>6, <2>1, <2>2 DEF CreateConflict
<1>7. CASE CreateOutOfBound(p)
  BY <1>7, EndCallInv DEF CreateOutOfBound
<1> QED
  BY <1>1, <1>2, <1>3, <1>4, <1>5, <1>6, <1>7 DEF Create

\* The first step of reconcile and of close: the attempt's order is locked.
LEMMA BeginLockedInv ==
    ASSUME Inv, NEW p \in Procs, NEW a \in Attempts, Exists(attempts, a),
           NEW pc \in LockedPcs, pc \notin SnapPcs,
           LockOrder(p, attempts[a].req.order),
           calls' = [calls EXCEPT ![p].pc = pc, ![p].attempt = a],
           UNCHANGED <<attempts, provider, inbox>>
    PROVE  Inv'
<1>1. attempts[a].req.order \in Orders
  BY DEF Inv, CallsConsistent, Orders
<1>2. LocksKept(p) /\ lock'[attempts[a].req.order] = p
  BY <1>1, LockOrderKeeps
<1>3. /\ calls' \in [Procs -> Calls]
      /\ calls'[p].pc = pc /\ calls'[p].attempt = a
      /\ \A q \in Procs \ {p} : calls'[q] = calls[q]
  <2>1. calls \in [Procs -> Calls] /\ calls[p] \in Calls
    BY DEF Inv, TypeOK
  <2>2. pc \in LockedPcs \cup FreePcs
    OBVIOUS
  <2> QED
    BY <2>1, <2>2 DEF Calls
<1>4. CallMoves(p)
  BY <1>2, <1>3 DEF CallMoves, CallConsistent, LockedPcs, SnapPcs
<1> QED
  BY <1>2, <1>4, TableSame, RecordsSame, Frame DEF Inv, TypeOK

ReconcileCall(p) ==
    \/ \E a \in Attempts : Refresh(p, a) \/ Reconcile(p, a)
    \/ ReconcileQuery(p) \/ ReconcileApply(p)

LEMMA ReconcileInv ==
    ASSUME Inv, NEW p \in Procs, ReconcileCall(p)
    PROVE  Inv'
<1>1. CASE \E a \in Attempts : Refresh(p, a)
  BY <1>1, HandOverInv DEF Refresh
<1>2. CASE \E a \in Attempts : Reconcile(p, a)
  <2>1. PICK a \in Attempts : Reconcile(p, a)
    BY <1>2
  <2> QED
    BY <2>1, BeginLockedInv DEF Reconcile, LockedPcs, SnapPcs
<1>3. CASE ReconcileQuery(p)
  BY <1>3, QueryStepInv DEF ReconcileQuery, At, LockedPcs
<1>4. CASE ReconcileApply(p)
  <2> DEFINE a == calls[p].attempt
  <2>1. calls[p].pc \in LockedPcs /\ calls[p].pc \in SnapPcs
    BY <1>4 DEF ReconcileApply, At, LockedPcs, SnapPcs
  <2>2. a \in Attempts /\ Exists(attempts, a)
    BY <2>1, LockedCall
  <2>3. CASE EndCall(p) /\ UNCHANGED attempts
    BY <1>4, <2>3, EndCallInv DEF ReconcileApply
  <2>4. CASE attempts' = Observed(p)
    <3>1. TableKept /\ Exists(attempts', a)
      BY <2>1, <2>2, <2>4, ObservedKept DEF TableKept, Inv, CallsConsistent
    <3>2. LocksKept(p) /\ CallMoves(p)
      BY <1>4, <2>2, <3>1, EndCallMoves, ThenEnsurePrepayMoves DEF ReconcileApply
    <3> QED
      BY <1>4, <3>1, <3>2, RecordsSame, Frame DEF ReconcileApply, Inv, TypeOK
  <2> QED
    BY <1>4, <2>3, <2>4 DEF ReconcileApply
<1> QED
  BY <1>1, <1>2, <1>3, <1>4 DEF ReconcileCall

CloseCallStep(p) ==
    \/ \E a \in Attempts : Close(p, a)
    \/ CloseQuery(p) \/ CloseObserve(p) \/ CloseCall(p) \/ CloseConfirm(p)
    \/ CloseRecover(p) \/ CloseCommit(p)

LEMMA CloseInv ==
    ASSUME Inv, NEW p \in Procs, CloseCallStep(p)
    PROVE  Inv'
<1> DEFINE a == calls[p].attempt
<1>1. CASE \E b \in Attempts : Close(p, b)
  <2>1. PICK b \in Attempts : Close(p, b)
    BY <1>1
  <2> QED
    BY <2>1, BeginLockedInv DEF Close, LockedPcs, SnapPcs
<1>2. CASE CloseQuery(p)
  BY <1>2, QueryStepInv DEF CloseQuery, At, LockedPcs
<1>3. CASE CloseObserve(p)
  <2>1. calls[p].pc \in LockedPcs /\ calls[p].pc \in SnapPcs
    BY <1>3 DEF CloseObserve, At, LockedPcs, SnapPcs
  <2>2. CASE EndCall(p) /\ UNCHANGED attempts
    BY <1>3, <2>2, EndCallInv DEF CloseObserve
  <2>3. CASE Goto(p, "close_call") /\ UNCHANGED <<attempts, lock>>
    <3>1. RecordsKept
      BY <1>3, <2>3, TableSame, RecordsSame DEF CloseObserve
    <3> QED
      BY <1>3, <2>1, <2>3, <3>1, GotoInv DEF CloseObserve, LockedPcs, SnapPcs
  <2>4. CASE attempts' = Observed(p) /\ EndCall(p)
    <3>1. TableKept
      BY <2>1, <2>4, ObservedKept DEF TableKept, Inv, CallsConsistent
    <3> QED
      BY <1>3, <2>4, <3>1, CommitInv DEF CloseObserve
  <2> QED
    BY <1>3, <2>2, <2>3, <2>4 DEF CloseObserve
<1>4. CASE CloseCall(p)
  <2>1. calls[p].pc \in LockedPcs /\ a \in Attempts /\ Exists(attempts, a)
    BY <1>4, LockedCall DEF CloseCall, At, LockedPcs
  <2> DEFINE r == ClosedAt(provider[a])
  <2>2. provider[a] \in Records /\ RecordConsistent(a)
    BY <2>1 DEF Inv, TypeOK, CallsConsistent
  <2>3. /\ r \in Records /\ r.state # "unknown" /\ r.expired = provider[a].expired
    BY <2>2 DEF ClosedAt, Records, TradeStates, PaidStates
  <2>4. provider' = provider \/ provider' = [provider EXCEPT ![a] = r]
    BY <1>4 DEF CloseCall
  <2> HIDE DEF r
  <2>5. RecordsKept
    <3>1. TableKept
      BY <1>4, TableSame DEF CloseCall
    <3>2. CASE provider' = provider
      BY <3>1, <3>2, RecordsSame
    <3>3. CASE provider' = [provider EXCEPT ![a] = r]
      BY <1>4, <2>1, <2>2, <2>3, <3>3 DEF CloseCall, RecordsKept, RecordConsistent, Inv, TypeOK,
         CallsConsistent
    <3> QED
      BY <2>4, <3>2, <3>3
  <2>6. CASE Goto(p, "close_confirm")
    BY <1>4, <2>1, <2>5, <2>6, GotoInv DEF CloseCall, LockedPcs, SnapPcs
  <2>7. CASE Goto(p, "close_recover")
    BY <1>4, <2>1, <2>5, <2>7, GotoInv DEF CloseCall, LockedPcs, SnapPcs
  <2> QED
    BY <1>4, <2>6, <2>7 DEF CloseCall
<1>5. CASE CloseConfirm(p)
  <2>1. calls[p].pc \in LockedPcs
    BY <1>5 DEF CloseConfirm, At, LockedPcs
  <2>2. CASE Query(p, "close_commit")
    BY <1>5, <2>1, <2>2, QueryStepInv DEF CloseConfirm, LockedPcs
  <2>3. CASE Goto(p, "close_recover")
    <3>1. RecordsKept
      BY <1>5, TableSame, RecordsSame DEF CloseConfirm
    <3> QED
      BY <1>5, <2>1, <2>3, <3>1, GotoInv DEF CloseConfirm, LockedPcs, SnapPcs
  <2> QED
    BY <1>5, <2>2, <2>3 DEF CloseConfirm
<1>6. CASE CloseRecover(p)
  BY <1>6, QueryStepInv DEF CloseRecover, At, LockedPcs
<1>7. CASE CloseCommit(p)
  <2>1. /\ calls[p].pc \in LockedPcs /\ calls[p].pc \in SnapPcs
        /\ a \in Attempts /\ Exists(attempts, a)
    BY <1>7, LockedCall DEF CloseCommit, At, LockedPcs, SnapPcs
  <2>2. CASE UNCHANGED attempts
    BY <1>7, <2>2, EndCallInv DEF CloseCommit
  <2>3. CASE attempts' = CloseOutcome(p)
    <3> DEFINE old == Observed(p)
               row == [old[a] EXCEPT !.closeReason = "merchant_requested"]
               new == [old EXCEPT ![a].closeReason = "merchant_requested"]
    <3>1. /\ old \in [Attempts -> Rows]
          /\ \A b \in Attempts :
                /\ Exists(attempts, b) <=> Exists(old, b)
                /\ old[b].req = attempts[b].req
      BY <2>1, ObservedKept
    <3> HIDE DEF old
    <3>2. row \in Rows /\ row.status = old[a].status /\ row.req = old[a].req
      <4>1. old[a] \in Rows
        BY <2>1, <3>1
      <4> HIDE DEF a
      <4> QED
        BY <4>1 DEF Rows
    <3>3. new = [old EXCEPT ![a] = row]
      BY <2>1, <3>1
    <3> HIDE DEF row, new, a
    <3>4. /\ new \in [Attempts -> Rows]
          /\ \A b \in Attempts :
                new[b].status = old[b].status /\ new[b].req = old[b].req
      BY <2>1, <3>1, <3>2, <3>3
    <3>5. attempts' = old \/ attempts' = new
      BY <2>3 DEF CloseOutcome, old, new, a
    <3>6. TableKept
      BY <3>1, <3>4, <3>5 DEF TableKept, Exists, Inv, CallsConsistent
    <3> QED
      BY <1>7, <3>6, CommitInv DEF CloseCommit
  <2> QED
    BY <1>7, <2>2, <2>3 DEF CloseCommit
<1> QED
  BY <1>1, <1>2, <1>3, <1>4, <1>5, <1>6, <1>7 DEF CloseCallStep

Notify(p) ==
    \/ \E e \in Events : \E m \in Notifications(e) : NotifyLookup(p, m)
    \/ NotifyUnmatched(p) \/ NotifyLock(p) \/ NotifyApply(p) \/ NotifyCommit(p)
    \/ NotifyRetry(p)

\* What an inbox write adds is a receipt.
LEMMA StoredType ==
    ASSUME Inv, NEW p \in Procs, NEW result \in {"processed", "ignored", "rejected"},
           calls[p].snap \in Snapshots, Stored(p, result)
    PROVE  inbox' \in [Events -> Receipts \cup {None}]
<1>1. Receipt(p, result) \in Receipts
  BY DEF Receipt, Receipts, Inv, TypeOK, Calls
<1> HIDE DEF Receipt
<1> QED
  BY <1>1 DEF Stored, Inv, TypeOK

LEMMA NotifyInv ==
    ASSUME Inv, NEW p \in Procs, Notify(p)
    PROVE  Inv'
<1>0. calls[p] \in Calls /\ CallConsistent(p) /\ calls \in [Procs -> Calls]
  BY DEF Inv, TypeOK, CallsConsistent
<1>1. CASE \E e \in Events : \E m \in Notifications(e) : NotifyLookup(p, m)
  <2>0. PICK e \in Events : \E m \in Notifications(e) : NotifyLookup(p, m)
    BY <1>1
  <2>1. PICK m \in Notifications(e) : NotifyLookup(p, m)
    BY <2>0
  <2>2. /\ m.event = e /\ m.attempt \in Attempts \cup {None}
        /\ m.snap \in Snapshots
    BY <2>1 DEF Notifications, Snapshots, TradeStates
  <2>3. m.attempt \in Attempts => Exists(attempts, m.attempt)
    BY <2>1, PaymentsAssumption DEF NotifyLookup, Deliverable, Inv, CallsConsistent,
       RecordConsistent
  <2> DEFINE c == [IdleCall EXCEPT !.pc = "notify_lock", !.attempt = m.attempt,
                                   !.event = m.event, !.snap = m.snap]
  <2>4. c \in Calls /\ c.pc = "notify_lock" /\ c.attempt = m.attempt
        /\ c.event = e /\ c.snap = m.snap
    <3>1. IdleCall \in Calls
      BY PaymentsAssumption DEF IdleCall, Calls, FreePcs
    <3>2. "notify_lock" \in LockedPcs \cup FreePcs
      BY DEF FreePcs
    <3> HIDE DEF IdleCall
    <3> QED
      BY <2>2, <3>1, <3>2 DEF Calls
  <2> HIDE DEF c
  <2>5. /\ calls' \in [Procs -> Calls] /\ calls'[p] = c
        /\ \A q \in Procs \ {p} : calls'[q] = calls[q]
    BY <1>0, <2>1, <2>4 DEF NotifyLookup, c
  <2>6. CallMoves(p)
    BY <2>1, <2>2, <2>3, <2>4, <2>5 DEF CallMoves, CallConsistent, NotifyLookup, LockedPcs
  <2> QED
    BY <2>1, <2>6, TableSame, RecordsSame, LocksSame, Frame DEF NotifyLookup, Inv, TypeOK
<1>2. CASE NotifyUnmatched(p)
  <2>1. calls[p].snap \in Snapshots
    BY <1>0, <1>2 DEF NotifyUnmatched, At, CallConsistent, SnapPcs
  <2>2. inbox' \in [Events -> Receipts \cup {None}]
    BY <1>2, <2>1, StoredType DEF NotifyUnmatched
  <2> QED
    BY <1>2, <2>2, TableSame, RecordsSame, EndCallMoves, Frame DEF NotifyUnmatched
<1>3. CASE NotifyLock(p)
  <2>1. calls[p].attempt \in Attempts /\ calls[p].pc = "notify_lock"
    BY <1>0, <1>3 DEF NotifyLock, At, Calls
  <2> QED
    BY <1>3, <2>1, LockInv DEF NotifyLock, OrderOf, LockedPcs
<1>4. CASE NotifyApply(p)
  <2>1. calls[p].pc \in LockedPcs /\ calls[p].pc \in SnapPcs /\ calls[p].pc = "notify_apply"
    BY <1>4 DEF NotifyApply, At, LockedPcs, SnapPcs
  <2>2. PICK v \in {"rejected", "processed"} :
           calls' = [calls EXCEPT ![p].pc = "notify_commit", ![p].verdict = v]
    BY <1>4 DEF NotifyApply
  <2>3. /\ calls' \in [Procs -> Calls]
        /\ calls'[p].pc = "notify_commit" /\ calls'[p].verdict = v
        /\ calls'[p].attempt = calls[p].attempt /\ calls'[p].event = calls[p].event
        /\ calls'[p].snap = calls[p].snap
        /\ \A q \in Procs \ {p} : calls'[q] = calls[q]
    BY <1>0, <2>2 DEF Calls, LockedPcs
  <2>4. CallMoves(p)
    BY <1>0, <1>4, <2>1, <2>3 DEF CallMoves, CallConsistent, NotifyApply, LockedPcs, SnapPcs
  <2> QED
    BY <1>4, <2>4, TableSame, RecordsSame, LocksSame, Frame DEF NotifyApply, Inv, TypeOK
<1>5. CASE NotifyCommit(p)
  <2>1. calls[p].pc \in LockedPcs /\ calls[p].pc \in SnapPcs
    BY <1>5 DEF NotifyCommit, At, LockedPcs, SnapPcs
  <2>2. calls[p].verdict \in {"processed", "ignored", "rejected"} /\ calls[p].snap \in Snapshots
    BY <1>0, <1>5, <2>1 DEF NotifyCommit, At, CallConsistent, Calls
  <2>3. inbox' \in [Events -> Receipts \cup {None}]
    BY <1>5, <2>2, StoredType DEF NotifyCommit
  <2>4. TableKept
    <3>1. CASE UNCHANGED attempts
      BY <3>1, TableSame
    <3>2. CASE attempts' = Observed(p)
      BY <2>1, <3>2, ObservedKept DEF TableKept, Inv, CallsConsistent
    <3> QED
      BY <1>5, <3>1, <3>2 DEF NotifyCommit
  <2> QED
    BY <1>5, <2>3, <2>4, RecordsSame, EndCallMoves, Frame DEF NotifyCommit
<1>6. CASE NotifyRetry(p)
  <2>1. CASE EndCall(p)
    BY <1>6, <2>1, EndCallInv DEF NotifyRetry
  <2>2. CASE /\ calls' = [calls EXCEPT ![p].pc = "notify_lock", ![p].verdict = "none",
                                       ![p].retried = TRUE]
             /\ lock' = Unlocked(p)
    <3>1. /\ calls' \in [Procs -> Calls]
          /\ calls'[p].pc = "notify_lock"
          /\ calls'[p].attempt = calls[p].attempt /\ calls'[p].event = calls[p].event
          /\ calls'[p].snap = calls[p].snap
          /\ \A q \in Procs \ {p} : calls'[q] = calls[q]
      BY <1>0, <2>2 DEF Calls, FreePcs
    <3>2. CallMoves(p)
      BY <1>0, <1>6, <3>1 DEF CallMoves, CallConsistent, NotifyRetry, At, LockedPcs, SnapPcs
    <3>3. LocksKept(p)
      BY <2>2 DEF LocksKept, Unlocked, Inv, TypeOK
    <3> QED
      BY <1>6, <3>2, <3>3, TableSame, RecordsSame, Frame DEF NotifyRetry, Inv, TypeOK
  <2> QED
    BY <1>6, <2>1, <2>2 DEF NotifyRetry
<1> QED
  BY <1>1, <1>2, <1>3, <1>4, <1>5, <1>6 DEF Notify

-----------------------------------------------------------------------------
(* The theorems.                                                             *)

\* The provider's own moves and the passing of time keep the records records.
LEMMA ProviderInv ==
    ASSUME Inv, NEW a \in Attempts, Expire(a) \/ \E to \in TradeStates : SetTradeState(a, to)
    PROVE  Inv'
<1>1. /\ provider[a] \in Records /\ RecordConsistent(a)
      /\ provider \in [Attempts -> Records]
  BY DEF Inv, TypeOK, CallsConsistent
<1>2. provider' \in [Attempts -> Records] /\ \A b \in Attempts : RecordConsistent(b)'
  <2>1. CASE Expire(a)
    <3>1. /\ provider'[a] = [provider[a] EXCEPT !.expired = provider[a].generation]
          /\ \A b \in Attempts \ {a} : provider'[b] = provider[b]
      BY <1>1, <2>1 DEF Expire
    <3>2. /\ provider'[a] \in Records
          /\ provider'[a].state = provider[a].state /\ provider'[a].paid = provider[a].paid
          /\ provider'[a].expired < MaxGeneration
      BY <1>1, <2>1, <3>1 DEF Expire, Records
    <3> QED
      BY <1>1, <2>1, <3>1, <3>2 DEF Expire, Inv, CallsConsistent, RecordConsistent
  <2>2. CASE \E to \in TradeStates : SetTradeState(a, to)
    <3>1. PICK to \in TradeStates : SetTradeState(a, to)
      BY <2>2
    <3>2. provider[a].state # "unknown" /\ to # "unknown"
      BY <3>1, PaymentsAssumption DEF SetTradeState, TradeStates
    <3>3. /\ provider'[a].state = to
          /\ provider'[a].expired = provider[a].expired
          /\ provider'[a] \in Records
          /\ \A b \in Attempts \ {a} : provider'[b] = provider[b]
      BY <1>1, <3>1 DEF SetTradeState, Records
    <3> QED
      BY <1>1, <3>1, <3>2, <3>3 DEF SetTradeState, Inv, CallsConsistent, RecordConsistent
  <2> QED
    BY <2>1, <2>2
<1>3. UNCHANGED <<attempts, inbox, lock, calls>>
  BY DEF Expire, SetTradeState
<1>4. TypeOK'
  BY <1>2, <1>3 DEF Inv, TypeOK
<1>5. CallsConsistent'
  BY <1>2, <1>3 DEF Inv, CallsConsistent, CallConsistent
<1> QED
  BY <1>4, <1>5 DEF Inv

LEMMA NextInv == Inv /\ [Next]_vars => Inv'
<1> SUFFICES ASSUME Inv, [Next]_vars PROVE Inv'
  OBVIOUS
<1>1. ASSUME NEW p \in Procs, Begin(p) \/ Continue(p) PROVE Inv'
  <2>1. Create(p) \/ EnsurePrepay(p) \/ ReconcileCall(p) \/ CloseCallStep(p) \/ Notify(p)
    BY <1>1 DEF Begin, Continue, Create, ReconcileCall, CloseCallStep, Notify
  <2> QED
    BY <2>1, CreateInv, EnsurePrepayInv, ReconcileInv, CloseInv, NotifyInv
<1>2. ASSUME NEW p \in Procs, Crash(p) PROVE Inv'
  BY <1>2, EndCallInv DEF Crash
<1>3. ASSUME UNCHANGED vars PROVE Inv'
  BY <1>3 DEF vars, Inv, TypeOK, CallsConsistent, CallConsistent, RecordConsistent
<1> QED
  BY <1>1, <1>2, <1>3, ProviderInv DEF Next

\* Every reachable state is well typed and every call's view of the stores is
\* consistent: the attempt a request works on exists, a snapshot is there when it
\* is used, and from the lock statement to the commit of create, refresh,
\* reconcile, close and process_notification the order's lock is the caller's.
THEOREM Consistent == Spec => []Inv
<1>1. Init => Inv
  BY InitInv
<1>2. Inv /\ [Next]_vars => Inv'
  BY NextInv
<1> QED
  BY <1>1, <1>2, PTL DEF Spec

\* Every variable of the payment service has its type in every reachable state,
\* for any number of threads, attempts, requests, events and prepay generations.
THEOREM TypeCorrect == Spec => []TypeOK
<1>1. Inv => TypeOK
  BY DEF Inv
<1> QED
  BY <1>1, Consistent, PTL

\* What a call has read stays true until its commit (its attempt exists, its
\* snapshot is there, the lock of the order is its own), whatever other requests,
\* crashes and provider faults happen meanwhile.
THEOREM CallsStayConsistent == Spec => []CallsConsistent
<1>1. Inv => CallsConsistent
  BY DEF Inv
<1> QED
  BY <1>1, Consistent, PTL

=============================================================================
