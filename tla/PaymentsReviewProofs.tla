------------------------ MODULE PaymentsReviewProofs ------------------------
(* What a commit writes into the rows of payment_attempts beyond status and   *)
(* transaction: history, review and close reason. From it follow the          *)
(* properties that relate several attempts of an order, and that Payments     *)
(* implements PaymentLifecycle.                                               *)
EXTENDS PaymentsSafetyProofs, PaymentsRefinement

\* What one row tells by itself: its history leads from its creation to its
\* status, and only a closed row keeps the merchant's reason.
RowTells(row) ==
    LET h == row.history IN
    /\ Len(h) > 0 /\ h[1][1] = "none" /\ h[Len(h)][2] = row.status
    /\ \A i \in 2..Len(h) : h[i][1] = h[i - 1][2]
    /\ row.closeReason # "none" => row.status = "closed"

\* The history of a row is append-only.
Grown(old, new) ==
    \A i \in DOMAIN old.history :
        i \in DOMAIN new.history /\ new.history[i] = old.history[i]

Confirmed(row) == \E i \in DOMAIN row.history : row.history[i] = <<"succeeded", "succeeded">>

-----------------------------------------------------------------------------
(* One row.                                                                  *)

LEMMA GrownTrans ==
    ASSUME NEW r, NEW s, NEW t, Grown(r, s), Grown(s, t)
    PROVE  Grown(r, t)
BY DEF Grown

LEMMA GrownConfirmed ==
    ASSUME NEW r, NEW s, Grown(r, s), Confirmed(r)
    PROVE  Confirmed(s)
BY DEF Grown, Confirmed

\* Logging appends the present status and the next one.
LEMMA LogShape ==
    ASSUME NEW row \in Rows, row.status \in Statuses, NEW to \in Statuses
    PROVE  LET new == Log(row, to) IN
           /\ new \in Rows
           /\ new.status = row.status /\ new.review = row.review
           /\ new.closeReason = row.closeReason
           /\ Len(new.history) = Len(row.history) + 1
           /\ new.history[Len(row.history) + 1] = <<row.status, to>>
           /\ Grown(row, new)
           /\ \A i \in 1..Len(row.history) : new.history[i] = row.history[i]
<1> DEFINE h == row.history
           e == <<row.status, to>>
<1>1. h \in Seq((Statuses \cup {"none"}) \X Statuses) /\ Len(h) \in Nat
  BY DEF Rows
<1>2. e \in (Statuses \cup {"none"}) \X Statuses
  OBVIOUS
<1>3. Log(row, to).history = Append(h, e)
  BY DEF Log, Rows
<1>4. /\ Log(row, to) \in Rows /\ Log(row, to).status = row.status
      /\ Log(row, to).review = row.review /\ Log(row, to).closeReason = row.closeReason
  BY LogType DEF Log, Rows
<1> HIDE DEF e, h
<1>5. /\ Len(Append(h, e)) = Len(h) + 1
      /\ Append(h, e)[Len(h) + 1] = e
      /\ \A i \in 1..Len(h) : Append(h, e)[i] = h[i]
      /\ DOMAIN h = 1..Len(h) /\ DOMAIN Append(h, e) = 1..(Len(h) + 1)
  BY <1>1, <1>2
<1> QED
  BY <1>1, <1>3, <1>4, <1>5 DEF Grown, e, h

LEMMA LogTells ==
    ASSUME NEW row \in Rows, row.status \in Statuses, NEW to \in Statuses, RowTells(row)
    PROVE  LET h == Log(row, to).history IN
           /\ Len(h) > 0 /\ h[1][1] = "none" /\ h[Len(h)][2] = to
           /\ \A i \in 2..Len(h) : h[i][1] = h[i - 1][2]
<1> DEFINE old == row.history
           h == Log(row, to).history
<1>1. /\ Len(old) \in Nat /\ Len(old) > 0 /\ Len(h) = Len(old) + 1
      /\ h[Len(old) + 1] = <<row.status, to>>
      /\ \A i \in 1..Len(old) : h[i] = old[i]
      /\ old[1][1] = "none" /\ old[Len(old)][2] = row.status
      /\ \A i \in 2..Len(old) : old[i][1] = old[i - 1][2]
  BY LogShape DEF RowTells, Rows
<1> HIDE DEF old, h
<1>2. h[1][1] = "none" /\ h[Len(h)][2] = to
  BY <1>1
<1>3. ASSUME NEW i \in 2..Len(h) PROVE h[i][1] = h[i - 1][2]
  <2>1. CASE i = Len(old) + 1
    BY <1>1, <2>1
  <2>2. CASE i # Len(old) + 1
    <3>1. i \in 2..Len(old) /\ i \in 1..Len(old) /\ i - 1 \in 1..Len(old)
      BY <1>1, <2>2
    <3> QED
      BY <1>1, <3>1
  <2> QED
    BY <2>1, <2>2
<1> QED
  BY <1>1, <1>2, <1>3 DEF h

LEMMA MarkShape ==
    ASSUME NEW row \in Rows, row.status \in Statuses, NEW reason \in Reviews
    PROVE  LET new == MarkForReview(row, reason) IN
           /\ new \in Rows
           /\ new.status = row.status /\ new.review = reason
           /\ new.closeReason = row.closeReason
           /\ Grown(row, new)
           /\ RowTells(row) => RowTells(new)
           /\ row.review # reason /\ row.status = "succeeded" => Confirmed(new)
<1> DEFINE logged == Log(row, row.status)
           marked == [logged EXCEPT !.review = reason]
           new == MarkForReview(row, reason)
<1>1. new = IF row.review = reason THEN row ELSE marked
  BY DEF MarkForReview
<1>2. /\ logged \in Rows /\ logged.status = row.status
      /\ logged.closeReason = row.closeReason
      /\ Len(logged.history) = Len(row.history) + 1
      /\ logged.history[Len(row.history) + 1] = <<row.status, row.status>>
      /\ Grown(row, logged)
  BY LogShape
<1>3. RowTells(row) =>
         LET h == logged.history IN
         /\ Len(h) > 0 /\ h[1][1] = "none" /\ h[Len(h)][2] = row.status
         /\ \A i \in 2..Len(h) : h[i][1] = h[i - 1][2]
  BY LogTells
<1> HIDE DEF logged
<1>4. /\ marked \in Rows /\ marked.status = row.status /\ marked.review = reason
      /\ marked.closeReason = row.closeReason /\ marked.history = logged.history
  BY <1>2 DEF Rows
<1> HIDE DEF marked, new
<1>5. Grown(row, row) /\ Grown(row, marked)
  BY <1>2, <1>4 DEF Grown
<1>6. RowTells(row) => RowTells(marked)
  BY <1>3, <1>4 DEF RowTells
<1>7. row.status = "succeeded" => Confirmed(marked)
  <2>1. Len(row.history) + 1 \in DOMAIN logged.history
    BY <1>2 DEF Rows
  <2> QED
    BY <1>2, <1>4, <2>1 DEF Confirmed
<1> QED
  BY <1>1, <1>4, <1>5, <1>6, <1>7 DEF new

LEMMA MoveShape ==
    ASSUME NEW row \in Rows, row.status \in Statuses, NEW target \in Statuses,
           NEW tx \in Attempts \cup {None}
    PROVE  LET new == Move(row, target, tx) IN
           /\ new \in Rows
           /\ new.status = target /\ new.review = row.review
           /\ Grown(row, new)
           /\ /\ RowTells(row)
              /\ DecideTransition(row.status, target, TRUE) = "apply"
              => RowTells(new)
<1> DEFINE logged == Log(row, target)
           moved == [logged EXCEPT !.status = target]
           paid == [moved EXCEPT !.tx = tx, !.closeReason = "none"]
           new == Move(row, target, tx)
<1>1. new = IF target = "succeeded" THEN paid ELSE moved
  BY DEF Move
<1>2. /\ logged \in Rows /\ logged.review = row.review
      /\ logged.closeReason = row.closeReason /\ Grown(row, logged)
  BY LogShape
<1>3. RowTells(row) =>
         LET h == logged.history IN
         /\ Len(h) > 0 /\ h[1][1] = "none" /\ h[Len(h)][2] = target
         /\ \A i \in 2..Len(h) : h[i][1] = h[i - 1][2]
  BY LogTells
<1> HIDE DEF logged
<1>4. /\ moved \in Rows /\ moved.status = target /\ moved.review = row.review
      /\ moved.closeReason = row.closeReason /\ moved.history = logged.history
  BY <1>2 DEF Rows
<1>5. /\ paid \in Rows /\ paid.status = target /\ paid.review = row.review
      /\ paid.closeReason = "none" /\ paid.history = logged.history
  BY <1>2 DEF Rows
<1> HIDE DEF moved, paid, new
<1>6. Grown(row, moved) /\ Grown(row, paid)
  BY <1>2, <1>4, <1>5 DEF Grown
<1>7. RowTells(row) => RowTells(paid)
  BY <1>3, <1>5 DEF RowTells
<1>8. /\ RowTells(row)
      /\ DecideTransition(row.status, target, TRUE) = "apply"
      /\ target # "succeeded"
      => RowTells(moved)
  BY <1>3, <1>4 DEF RowTells, DecideTransition, AllowedTransitions, Statuses
<1> QED
  BY <1>1, <1>4, <1>5, <1>6, <1>7, <1>8 DEF new

\* Closing for the merchant and staging a prepay ID say nothing else of the row.
LEMMA FieldShape ==
    ASSUME NEW row \in Rows, row.status \in Statuses, NEW g \in 0..MaxGeneration
    PROVE  /\ LET new == [row EXCEPT !.prepay = g] IN
              /\ new \in Rows
              /\ new.status = row.status /\ new.req = row.req /\ new.review = row.review
              /\ Grown(row, new)
              /\ RowTells(row) => RowTells(new)
           /\ LET new == [row EXCEPT !.closeReason = "merchant_requested"] IN
              /\ new \in Rows
              /\ new.status = row.status /\ new.req = row.req /\ new.review = row.review
              /\ Grown(row, new)
              /\ RowTells(row) /\ row.status = "closed" => RowTells(new)
<1>1. LET new == [row EXCEPT !.prepay = g] IN
      /\ new \in Rows
      /\ new.status = row.status /\ new.req = row.req /\ new.review = row.review
      /\ new.history = row.history /\ new.closeReason = row.closeReason
  BY DEF Rows
<1>2. LET new == [row EXCEPT !.closeReason = "merchant_requested"] IN
      /\ new \in Rows
      /\ new.status = row.status /\ new.req = row.req /\ new.review = row.review
      /\ new.history = row.history
  BY DEF Rows
<1> QED
  BY <1>1, <1>2 DEF Grown, RowTells

\* An observation settles the observed row by the policy and flags it when the
\* order has another attempt that is paid or payable.
LEMMA SettleShape ==
    ASSUME NEW row \in Rows, row.status \in Statuses, NEW snap \in Snapshots,
           NEW related, NEW reason \in Reviews
    PROVE  LET new == Settle(row, snap, related, reason) IN
           /\ new \in Rows
           /\ new.review = IF related = {} THEN row.review ELSE reason
           /\ Grown(row, new)
           /\ RowTells(row) => RowTells(new)
           /\ /\ related # {} /\ new.status = "succeeded" /\ row.review # reason
              => Confirmed(new)
<1> DEFINE target == StatusFor(snap.state)
           ignored == row.status = "created" /\ target = "pending" /\ row.prepay = 0
           applies == ~ignored /\ DecideTransition(row.status, target, TRUE) = "apply"
           moved == Move(row, target, snap.tx)
           settled == IF applies THEN moved ELSE row
           marked == MarkForReview(settled, reason)
           new == Settle(row, snap, related, reason)
<1>1. target \in Statuses /\ snap.tx \in Attempts \cup {None}
  BY StatusForType DEF Snapshots
<1> HIDE DEF target
<1>2. /\ moved \in Rows /\ moved.status = target /\ moved.review = row.review
      /\ Grown(row, moved)
      /\ RowTells(row) /\ applies => RowTells(moved)
  BY <1>1, MoveShape
<1> HIDE DEF moved
<1>3. new = IF related = {} THEN settled ELSE marked
  BY DEF Settle, target, moved
<1>4. /\ settled \in Rows /\ settled.status \in Statuses /\ settled.review = row.review
      /\ Grown(row, settled)
      /\ RowTells(row) => RowTells(settled)
  BY <1>1, <1>2 DEF Grown
<1> HIDE DEF settled
<1>5. /\ marked \in Rows /\ marked.status = settled.status /\ marked.review = reason
      /\ Grown(settled, marked)
      /\ RowTells(settled) => RowTells(marked)
      /\ settled.review # reason /\ settled.status = "succeeded" => Confirmed(marked)
  BY <1>4, MarkShape
<1> HIDE DEF marked
<1>6. Grown(row, marked)
  BY <1>4, <1>5, GrownTrans
<1> HIDE DEF new
<1> QED
  BY <1>3, <1>4, <1>5, <1>6 DEF new

\* A success is applied to every row but one that already succeeded.
LEMMA SuccessApplies ==
    \A s \in Statuses \ {"succeeded"} : DecideTransition(s, "succeeded", TRUE) = "apply"
BY DEF Statuses, DecideTransition, AllowedTransitions

\* What an applied snapshot does to every row of the table.
LEMMA AppliedShape ==
    ASSUME NEW table \in [Attempts -> Rows], NEW a \in Attempts, Exists(table, a),
           NEW snap \in Snapshots
    PROVE  LET new == Applied(table, a, snap)
               target == StatusFor(snap.state)
               related == Related(table, a, target)
               reason == ReviewReason(table, related) IN
           /\ \A b \in Attempts :
                 /\ new[b].review = IF related # {} /\ b \in related \cup {a} THEN reason
                                    ELSE table[b].review
                 /\ Grown(table[b], new[b])
                 /\ Exists(table, b) /\ RowTells(table[b]) => RowTells(new[b])
           /\ target = "succeeded" => new[a].status = "succeeded"
           /\ related # {} /\ new[a].status = "succeeded" /\ table[a].review # reason
              => Confirmed(new[a])
<1> DEFINE target == StatusFor(snap.state)
           related == Related(table, a, target)
           reason == ReviewReason(table, related)
           new == Applied(table, a, snap)
           settled == Settle(table[a], snap, related, reason)
<1>1. reason \in Reviews
  BY ReviewReasonType
<1>2. related \subseteq Siblings(table, a) /\ related \subseteq Attempts \ {a}
  BY RelatedType DEF Siblings
<1>3. new = [b \in Attempts |->
               IF b = a THEN settled
               ELSE IF b \in related THEN MarkForReview(table[b], reason) ELSE table[b]]
  BY DEF Applied
<1>4. table[a] \in Rows /\ table[a].status \in Statuses
  BY DEF Rows, Exists
<1>5. target = "succeeded" => new[a].status = "succeeded"
  <2>1. SettledRow(table[a], snap, settled)
    BY <1>1, <1>4, SettleType
  <2>2. SUFFICES ASSUME target = "succeeded" PROVE settled.status = "succeeded"
    BY <1>3
  <2>3. CASE table[a].status = "succeeded"
    <3> HIDE DEF settled
    <3> QED
      BY <2>1, <2>2, <2>3 DEF SettledRow
  <2>4. CASE table[a].status # "succeeded"
    <3>1. DecideTransition(table[a].status, target, TRUE) = "apply"
      BY <1>4, <2>2, <2>4, SuccessApplies
    <3> DEFINE moved == Move(table[a], target, snap.tx)
    <3>4. "succeeded" \in Statuses /\ snap.tx \in Attempts \cup {None}
      BY DEF Snapshots, Statuses
    <3>2. moved \in Rows /\ moved.status = "succeeded"
      BY <1>4, <2>2, <3>4, MoveShape
    <3>3. MarkForReview(moved, reason).status = "succeeded"
      <4> HIDE DEF moved, reason
      <4> QED
        BY <1>1, <3>2, MarkShape DEF Statuses
    <3> QED
      BY <2>2, <3>1, <3>2, <3>3 DEF Settle
  <2> QED
    BY <2>3, <2>4
<1> HIDE DEF reason, related
<1>6. /\ settled.review = IF related = {} THEN table[a].review ELSE reason
      /\ Grown(table[a], settled)
      /\ RowTells(table[a]) => RowTells(settled)
      /\ related # {} /\ settled.status = "succeeded" /\ table[a].review # reason
         => Confirmed(settled)
  BY <1>1, <1>4, SettleShape
<1> HIDE DEF settled
<1>7. \A b \in related :
        /\ MarkForReview(table[b], reason).review = reason
        /\ Grown(table[b], MarkForReview(table[b], reason))
        /\ RowTells(table[b]) => RowTells(MarkForReview(table[b], reason))
  <2> TAKE b \in related
  <2>1. table[b] \in Rows /\ table[b].status \in Statuses
    BY <1>2 DEF Siblings, Exists, Rows
  <2> QED
    BY <1>1, <2>1, MarkShape
<1> HIDE DEF new
<1>8. ASSUME NEW b \in Attempts
      PROVE  /\ new[b].review = IF related # {} /\ b \in related \cup {a} THEN reason
                                ELSE table[b].review
             /\ Grown(table[b], new[b])
             /\ RowTells(table[b]) => RowTells(new[b])
  <2>1. CASE b = a
    BY <1>3, <1>6, <2>1
  <2>2. CASE b \in related
    BY <1>2, <1>3, <1>7, <2>2
  <2>3. CASE b # a /\ b \notin related
    BY <1>3, <2>3 DEF Grown
  <2> QED
    BY <2>1, <2>2, <2>3
<1>9. new[a] = settled
  BY <1>3
<1> HIDE DEF target
<1> QED
  BY <1>5, <1>6, <1>8, <1>9 DEF new, target, related, reason

-----------------------------------------------------------------------------
(* One step.                                                                 *)

\* A commit makes the table new by learning of attempt a: its status follows the
\* policy, the others keep theirs, and a success that is not alone flags all of
\* its rivals with itself.
Learns(new, a) ==
    \E related \in {{}, Related(attempts, a, "succeeded")} :
        LET reason == ReviewReason(attempts, related)
            from == attempts[a].status
            to == new[a].status IN
        /\ to = from \/ DecideTransition(from, to, TRUE) = "apply"
        /\ to \in Statuses
        /\ related # {} => to = "succeeded"
        /\ to = "succeeded" /\ to # from => related = Related(attempts, a, "succeeded")
        /\ \A b \in Attempts :
              /\ b # a => new[b].status = attempts[b].status
              /\ new[b].req = attempts[b].req
              /\ new[b].review = IF related # {} /\ b \in related \cup {a} THEN reason
                                 ELSE attempts[b].review
              /\ Grown(attempts[b], new[b])
              /\ Exists(attempts, b) /\ RowTells(attempts[b]) => RowTells(new[b])
        /\ related # {} /\ attempts[a].review # reason => Confirmed(new[a])

TableStep ==
    \/ UNCHANGED attempts
    \/ \E p \in Procs : CreateInsert(p)
    \/ \E a \in Attempts : Exists(attempts, a) /\ Learns(attempts', a)

\* The table with another prepay ID staged for a.
Restaged(a, g) == [attempts EXCEPT ![a] = [attempts[a] EXCEPT !.prepay = g]]

LEMMA RestagedShape ==
    ASSUME Inv, NEW a \in Attempts, Exists(attempts, a), NEW g \in 0..MaxGeneration
    PROVE  LET table == Restaged(a, g) IN
           /\ table \in [Attempts -> Rows] /\ Exists(table, a)
           /\ \A b \in Attempts :
                 /\ table[b].status = attempts[b].status
                 /\ table[b].req = attempts[b].req
                 /\ table[b].review = attempts[b].review
                 /\ Grown(attempts[b], table[b])
                 /\ RowTells(attempts[b]) => RowTells(table[b])
<1> DEFINE row == [attempts[a] EXCEPT !.prepay = g]
<1>1. attempts \in [Attempts -> Rows] /\ attempts[a].status \in Statuses
  BY DEF Inv, TypeOK, Exists, Rows
<1>2. /\ row \in Rows
      /\ row.status = attempts[a].status /\ row.req = attempts[a].req
      /\ row.review = attempts[a].review
      /\ Grown(attempts[a], row)
      /\ RowTells(attempts[a]) => RowTells(row)
  BY <1>1, FieldShape
<1> HIDE DEF row
<1>3. Restaged(a, g) = [attempts EXCEPT ![a] = row]
  BY DEF Restaged, row
<1>4. \A b \in Attempts : Grown(attempts[b], attempts[b])
  BY DEF Grown
<1> QED
  BY <1>1, <1>2, <1>3, <1>4 DEF Exists

\* Rivals are found by status and order alone.
LEMMA RelatedSame ==
    ASSUME NEW table, NEW a \in Attempts, NEW target, Exists(attempts, a),
           \A b \in Attempts : table[b].status = attempts[b].status
                               /\ table[b].req = attempts[b].req
    PROVE  /\ Related(table, a, target) = Related(attempts, a, target)
           /\ ReviewReason(table, Related(table, a, target))
                = ReviewReason(attempts, Related(attempts, a, target))
           /\ target # "succeeded" => Related(attempts, a, target) = {}
<1>1. Siblings(table, a) = Siblings(attempts, a)
  BY DEF Siblings, Exists
<1>2. Siblings(attempts, a) \subseteq Attempts
  BY DEF Siblings
<1>3. Related(table, a, target) = Related(attempts, a, target)
  BY <1>1, <1>2 DEF Related
<1>4. Related(attempts, a, target) \subseteq Attempts
  BY <1>2 DEF Related
<1>5. ReviewReason(table, Related(attempts, a, target))
        = ReviewReason(attempts, Related(attempts, a, target))
  BY <1>4 DEF ReviewReason
<1>6. target # "succeeded" => Related(attempts, a, target) = {}
  BY DEF Related
<1> QED
  BY <1>3, <1>5, <1>6

\* Applying a snapshot, whatever prepay ID was staged before, is learning.
LEMMA AppliedLearns ==
    ASSUME Inv, NEW a \in Attempts, Exists(attempts, a), NEW snap \in Snapshots,
           NEW g \in 0..MaxGeneration
    PROVE  Learns(Applied(Restaged(a, g), a, snap), a)
<1> DEFINE table == Restaged(a, g)
           target == StatusFor(snap.state)
           new == Applied(table, a, snap)
           related == Related(attempts, a, target)
           reason == ReviewReason(attempts, related)
<1>1. /\ table \in [Attempts -> Rows] /\ Exists(table, a)
      /\ \A b \in Attempts :
            /\ table[b].status = attempts[b].status
            /\ table[b].req = attempts[b].req
            /\ table[b].review = attempts[b].review
            /\ Grown(attempts[b], table[b])
            /\ RowTells(attempts[b]) => RowTells(table[b])
  BY RestagedShape
<1> HIDE DEF table
<1>2. /\ Related(table, a, target) = related
      /\ ReviewReason(table, related) = reason
      /\ target # "succeeded" => related = {}
  BY <1>1, RelatedSame
<1>9. table \in [Attempts -> Rows] /\ Exists(table, a)
  BY <1>1
<1>10. new[a].status \in Statuses
  BY <1>9, AppliedType
<1>11. \A b \in Attempts : new[b].req = table[b].req
  BY <1>9, AppliedType
<1>12. \A b \in Attempts : b # a => new[b].status = table[b].status
  BY <1>9, AppliedType
<1>13. \/ new[a].status = table[a].status
       \/ /\ new[a].status = target
          /\ DecideTransition(table[a].status, target, TRUE) = "apply"
  BY <1>9, AppliedType
<1>3. /\ new[a].status \in Statuses
      /\ \A b \in Attempts : /\ new[b].req = table[b].req
                             /\ b # a => new[b].status = table[b].status
      /\ \/ new[a].status = table[a].status
         \/ /\ new[a].status = target
            /\ DecideTransition(table[a].status, target, TRUE) = "apply"
  BY <1>10, <1>11, <1>12, <1>13
<1> DEFINE rel == Related(table, a, target)
           why == ReviewReason(table, rel)
<1>14. /\ \A b \in Attempts :
             /\ new[b].review = IF rel # {} /\ b \in rel \cup {a} THEN why
                                ELSE table[b].review
             /\ Grown(table[b], new[b])
             /\ Exists(table, b) /\ RowTells(table[b]) => RowTells(new[b])
       /\ target = "succeeded" => new[a].status = "succeeded"
       /\ rel # {} /\ new[a].status = "succeeded" /\ table[a].review # why
          => Confirmed(new[a])
  <2> HIDE DEF rel, why
  <2> QED
    BY <1>9, AppliedShape DEF rel, why
<1>15. rel = related /\ why = reason
  BY <1>2
<1> HIDE DEF rel, why, new, target, reason, related
<1>4. /\ \A b \in Attempts :
            /\ new[b].review = IF related # {} /\ b \in related \cup {a} THEN reason
                               ELSE table[b].review
            /\ Grown(table[b], new[b])
            /\ Exists(table, b) /\ RowTells(table[b]) => RowTells(new[b])
      /\ target = "succeeded" => new[a].status = "succeeded"
      /\ related # {} /\ new[a].status = "succeeded" /\ table[a].review # reason
         => Confirmed(new[a])
  BY <1>14, <1>15
<1> USE DEF related
<1> HIDE DEF new, target, reason
<1>5. related \in {{}, Related(attempts, a, "succeeded")}
  BY <1>2
<1>6. \A b \in Attempts :
        /\ Grown(attempts[b], new[b])
        /\ Exists(attempts, b) /\ RowTells(attempts[b]) => RowTells(new[b])
  BY <1>1, <1>4, GrownTrans DEF Exists
<1>7. new[a].status = "succeeded" /\ new[a].status # attempts[a].status =>
        related = Related(attempts, a, "succeeded")
  BY <1>1, <1>3
<1> HIDE DEF related
<1>8. Learns(new, a)
  BY <1>1, <1>2, <1>3, <1>4, <1>5, <1>6, <1>7 DEF Learns, reason
<1> QED
  BY <1>8 DEF new, table

\* So is storing the merchant's close reason with the confirmed close.
LEMMA ReasonLearns ==
    ASSUME Inv, NEW a \in Attempts, Exists(attempts, a), NEW table \in [Attempts -> Rows],
           Learns(table, a), table[a].status = "closed"
    PROVE  Learns([table EXCEPT ![a] = [table[a] EXCEPT !.closeReason = "merchant_requested"]], a)
<1> DEFINE row == [table[a] EXCEPT !.closeReason = "merchant_requested"]
           new == [table EXCEPT ![a] = row]
<1>1. /\ row.status = "closed" /\ row.req = table[a].req /\ row.review = table[a].review
      /\ Grown(table[a], row)
      /\ RowTells(table[a]) => RowTells(row)
  <2>1. 0 \in 0..MaxGeneration /\ table[a] \in Rows /\ table[a].status \in Statuses
    BY PaymentsAssumption DEF Statuses
  <2>2. /\ row.status = table[a].status /\ row.req = table[a].req
        /\ row.review = table[a].review
        /\ Grown(table[a], row)
        /\ RowTells(table[a]) /\ table[a].status = "closed" => RowTells(row)
    BY <2>1, FieldShape
  <2> HIDE DEF row
  <2> QED
    BY <2>2
<1> HIDE DEF row
<1>2. new[a] = row /\ \A b \in Attempts \ {a} : new[b] = table[b]
  OBVIOUS
<1> HIDE DEF new
<1>3. PICK related \in {{}, Related(attempts, a, "succeeded")} :
        LET reason == ReviewReason(attempts, related)
            from == attempts[a].status
            to == table[a].status IN
        /\ to = from \/ DecideTransition(from, to, TRUE) = "apply"
        /\ to \in Statuses
        /\ related # {} => to = "succeeded"
        /\ to = "succeeded" /\ to # from => related = Related(attempts, a, "succeeded")
        /\ \A b \in Attempts :
              /\ b # a => table[b].status = attempts[b].status
              /\ table[b].req = attempts[b].req
              /\ table[b].review = IF related # {} /\ b \in related \cup {a} THEN reason
                                   ELSE attempts[b].review
              /\ Grown(attempts[b], table[b])
              /\ Exists(attempts, b) /\ RowTells(attempts[b]) => RowTells(table[b])
  BY DEF Learns
<1>4. related = {}
  BY <1>3
<1>5. Grown(attempts[a], row)
  BY <1>1, <1>3, GrownTrans
<1>6. new[a].status = table[a].status
  BY <1>1, <1>2
<1>7. \A b \in Attempts :
        /\ b # a => new[b].status = attempts[b].status
        /\ new[b].req = attempts[b].req
        /\ new[b].review = attempts[b].review
        /\ Grown(attempts[b], new[b])
        /\ Exists(attempts, b) /\ RowTells(attempts[b]) => RowTells(new[b])
  BY <1>1, <1>2, <1>3, <1>4, <1>5
<1>8. Learns(new, a)
  BY <1>3, <1>4, <1>6, <1>7 DEF Learns
<1> QED
  BY <1>8 DEF new, row

\* So is a step of a payable attempt to pending or failed, with or without a new
\* prepay ID, and the storing of a prepay ID.
LEMMA MoveLearns ==
    ASSUME Inv, NEW a \in Attempts, Exists(attempts, a), NEW g \in 0..MaxGeneration,
           NEW to \in {"pending", "failed"},
           DecideTransition(attempts[a].status, to, TRUE) = "apply"
    PROVE  Learns([attempts EXCEPT ![a] = Move([attempts[a] EXCEPT !.prepay = g], to, None)], a)
<1> DEFINE staged == [attempts[a] EXCEPT !.prepay = g]
           row == Move(staged, to, None)
           new == [attempts EXCEPT ![a] = row]
<1>1. attempts \in [Attempts -> Rows] /\ attempts[a].status \in Statuses
  BY DEF Inv, TypeOK, Exists, Rows
<1>2. /\ staged \in Rows /\ staged.status = attempts[a].status
      /\ staged.req = attempts[a].req /\ staged.review = attempts[a].review
      /\ Grown(attempts[a], staged)
      /\ RowTells(attempts[a]) => RowTells(staged)
  BY <1>1, FieldShape
<1> HIDE DEF staged
<1>3. /\ row.status = to /\ row.review = staged.review /\ row.req = staged.req
      /\ Grown(staged, row)
      /\ RowTells(staged) => RowTells(row)
  <2>1. /\ to \in Statuses /\ None \in Attempts \cup {None}
        /\ staged \in Rows /\ staged.status \in Statuses
        /\ DecideTransition(staged.status, to, TRUE) = "apply"
    BY <1>1, <1>2 DEF Statuses
  <2>2. /\ row.status = to /\ row.review = staged.review
        /\ Grown(staged, row)
        /\ RowTells(staged) => RowTells(row)
    BY <2>1, MoveShape
  <2>3. row.req = staged.req
    BY <2>1, MoveType
  <2> HIDE DEF row
  <2> QED
    BY <2>2, <2>3
<1> HIDE DEF row
<1>4. new[a] = row /\ \A b \in Attempts \ {a} : new[b] = attempts[b]
  BY <1>1
<1> HIDE DEF new
<1>5. Grown(attempts[a], row) /\ \A b \in Attempts : Grown(attempts[b], attempts[b])
  BY <1>2, <1>3, GrownTrans DEF Grown
<1>6. \A b \in Attempts :
        /\ b # a => new[b].status = attempts[b].status
        /\ new[b].req = attempts[b].req
        /\ new[b].review = attempts[b].review
        /\ Grown(attempts[b], new[b])
        /\ Exists(attempts, b) /\ RowTells(attempts[b]) => RowTells(new[b])
  BY <1>2, <1>3, <1>4, <1>5
<1>7. new[a].status = to /\ to \in Statuses /\ to # "succeeded"
  BY <1>3, <1>4 DEF Statuses
<1>8. Learns(new, a)
  BY <1>6, <1>7 DEF Learns
<1> QED
  BY <1>8 DEF new, row, staged

LEMMA RestagedLearns ==
    ASSUME Inv, NEW a \in Attempts, Exists(attempts, a), NEW g \in 0..MaxGeneration
    PROVE  Learns(Restaged(a, g), a)
<1>1. attempts[a].status \in Statuses
  BY DEF Inv, TypeOK, Exists, Rows
<1>2. LET table == Restaged(a, g) IN
      \A b \in Attempts :
          /\ table[b].status = attempts[b].status
          /\ table[b].req = attempts[b].req
          /\ table[b].review = attempts[b].review
          /\ Grown(attempts[b], table[b])
          /\ RowTells(attempts[b]) => RowTells(table[b])
  BY RestagedShape
<1> QED
  BY <1>1, <1>2 DEF Learns

-----------------------------------------------------------------------------
(* Every step.                                                               *)

\* What a call observed under its lock is learning of its attempt.
LEMMA ObservedLearns ==
    ASSUME Inv, NEW p \in Procs, calls[p].pc \in LockedPcs, calls[p].pc \in SnapPcs
    PROVE  LET a == calls[p].attempt IN
           /\ a \in Attempts /\ Exists(attempts, a)
           /\ Learns(Observed(p), a)
<1> DEFINE a == calls[p].attempt
           g == attempts[a].prepay
<1>1. a \in Attempts /\ Exists(attempts, a) /\ calls[p].snap \in Snapshots
  BY LockedCall
<1>2. attempts \in [Attempts -> Rows] /\ g \in 0..MaxGeneration
  BY <1>1 DEF Inv, TypeOK, Rows
<1>3. Restaged(a, g) = attempts
  <2>1. [attempts[a] EXCEPT !.prepay = g] = attempts[a]
    BY <1>1, <1>2 DEF Rows
  <2> QED
    BY <1>1, <1>2, <2>1 DEF Restaged
<1> HIDE DEF g
<1>4. Learns(Applied(Restaged(a, g), a, calls[p].snap), a)
  BY <1>1, <1>2, AppliedLearns
<1> QED
  BY <1>1, <1>3, <1>4 DEF Observed

LEMMA LearnsStep ==
    ASSUME NEW a \in Attempts, Exists(attempts, a), Learns(attempts', a)
    PROVE  TableStep
BY DEF TableStep

LEMMA SameStep == UNCHANGED attempts => TableStep
BY DEF TableStep

LEMMA ObservedStep ==
    ASSUME Inv, NEW p \in Procs, calls[p].pc \in LockedPcs, calls[p].pc \in SnapPcs,
           UNCHANGED attempts \/ attempts' = Observed(p)
    PROVE  TableStep
BY ObservedLearns, LearnsStep, SameStep

LEMMA PrepayStep ==
    ASSUME Inv, NEW p \in Procs, EnsurePrepay(p)
    PROVE  TableStep
<1> DEFINE a == calls[p].attempt
           g == calls[p].generation
<1>0. calls[p].pc \in LockedPcs =>
        /\ a \in Attempts /\ Exists(attempts, a) /\ g \in 0..MaxGeneration
        /\ attempts \in [Attempts -> Rows]
        /\ attempts[a] \in Rows /\ attempts[a].status \in Statuses
  BY LockedCall DEF Calls, Inv, TypeOK, Exists, Rows
<1>1. CASE PrepayLock(p) \/ PrepayQuery(p) \/ PrepayCreate(p) \/ PrepayUnanswered(p)
           \/ PrepayLateQuery(p)
  BY <1>1, SameStep
     DEF PrepayLock, PrepayQuery, PrepayCreate, PrepayUnanswered, PrepayLateQuery
<1>2. CASE PrepayObserve(p)
  <2>1. calls[p].pc \in LockedPcs /\ calls[p].pc \in SnapPcs
    BY <1>2 DEF PrepayObserve, At, LockedPcs, SnapPcs
  <2>2. UNCHANGED attempts \/ attempts' = Observed(p)
    BY <1>2 DEF PrepayObserve
  <2> QED
    BY <2>1, <2>2, ObservedStep
<1>3. CASE PrepayRejected(p)
  <2> DEFINE kept == attempts[a].prepay
  <2>1. calls[p].pc \in LockedPcs
    BY <1>3 DEF PrepayRejected, At, LockedPcs
  <2>2. kept \in 0..MaxGeneration /\ [attempts[a] EXCEPT !.prepay = kept] = attempts[a]
    BY <1>0, <2>1 DEF Rows
  <2>3. DecideTransition(attempts[a].status, "failed", TRUE) = "apply"
    BY <1>3 DEF PrepayRejected, DecideTransition
  <2>4. attempts' = [attempts EXCEPT ![a] = Move(attempts[a], "failed", None)]
    BY <1>3 DEF PrepayRejected
  <2> HIDE DEF kept
  <2>5. Learns([attempts EXCEPT ![a] = Move([attempts[a] EXCEPT !.prepay = kept],
                                             "failed", None)], a)
    BY <1>0, <2>1, <2>2, <2>3, MoveLearns
  <2>6. Learns(attempts', a)
    BY <2>2, <2>4, <2>5
  <2> QED
    BY <1>0, <2>1, <2>6, LearnsStep
<1>4. CASE PrepayStore(p)
  <2>1. calls[p].pc \in LockedPcs
    BY <1>4 DEF PrepayStore, At, LockedPcs
  <2> DEFINE staged == [attempts[a] EXCEPT !.prepay = g]
  <2>2. WithPrepay(p) = Restaged(a, g) /\ Restaged(a, g)[a] = staged
    BY <1>0, <2>1, WithPrepayType DEF Restaged
  <2>3. CASE attempts[a].status = "created"
    <3>1. attempts' = [attempts EXCEPT ![a] = Move(staged, "pending", None)]
      BY <1>0, <1>4, <2>1, <2>2, <2>3 DEF PrepayStore, Restaged
    <3>2. DecideTransition(attempts[a].status, "pending", TRUE) = "apply"
      BY <2>3 DEF DecideTransition, AllowedTransitions
    <3>3. Learns([attempts EXCEPT ![a] = Move(staged, "pending", None)], a)
      BY <1>0, <2>1, <3>2, MoveLearns
    <3>4. Learns(attempts', a)
      BY <3>1, <3>3
    <3> QED
      BY <1>0, <2>1, <3>4, LearnsStep
  <2>4. CASE attempts[a].status # "created"
    <3>1. attempts' = Restaged(a, g)
      BY <1>4, <2>2, <2>4 DEF PrepayStore
    <3>2. Learns(attempts', a)
      BY <1>0, <2>1, <3>1, RestagedLearns
    <3> QED
      BY <1>0, <2>1, <3>2, LearnsStep
  <2> QED
    BY <2>3, <2>4
<1>5. CASE PrepayLate(p)
  <2>1. calls[p].pc \in LockedPcs /\ calls[p].pc \in SnapPcs
    BY <1>5 DEF PrepayLate, At, LockedPcs, SnapPcs
  <2>2. calls[p].snap \in Snapshots
    BY <2>1, LockedCall
  <2>3. CASE UNCHANGED attempts
    BY <2>3, SameStep
  <2>4. CASE attempts' = Observed(p)
    BY <2>1, <2>4, ObservedStep
  <2>5. CASE attempts' = Applied(Restaged(a, g), a, calls[p].snap)
    <3>1. Learns(attempts', a)
      BY <1>0, <2>1, <2>2, <2>5, AppliedLearns
    <3> QED
      BY <1>0, <2>1, <3>1, LearnsStep
  <2>6. WithPrepay(p) = Restaged(a, g)
    BY <1>0, <2>1, WithPrepayType DEF Restaged
  <2> QED
    BY <1>5, <2>3, <2>4, <2>5, <2>6 DEF PrepayLate, StagedPrepay, Observed
<1> QED
  BY <1>1, <1>2, <1>3, <1>4, <1>5 DEF EnsurePrepay

LEMMA CloseCommitStep ==
    ASSUME Inv, NEW p \in Procs, CloseCommit(p)
    PROVE  TableStep
<1> DEFINE a == calls[p].attempt
           new == Observed(p)
           marked == [new EXCEPT ![a] = [new[a] EXCEPT !.closeReason = "merchant_requested"]]
<1>1. calls[p].pc \in LockedPcs /\ calls[p].pc \in SnapPcs
  BY DEF CloseCommit, At, LockedPcs, SnapPcs
<1>2. UNCHANGED attempts \/ attempts' = CloseOutcome(p)
  BY DEF CloseCommit
<1>3. a \in Attempts /\ Exists(attempts, a) /\ Learns(new, a)
  BY <1>1, ObservedLearns
<1>4. new \in [Attempts -> Rows]
  BY <1>1, ObservedKept
<1>5. CloseOutcome(p) = IF new[a].status = "closed" THEN marked ELSE new
  BY DEF CloseOutcome, StatusAfter
<1> HIDE DEF new, a
<1>6. new[a].status = "closed" => Learns(marked, a)
  BY <1>3, <1>4, ReasonLearns
<1>7. UNCHANGED attempts \/ Learns(attempts', a)
  BY <1>2, <1>3, <1>5, <1>6
<1> QED
  BY <1>3, <1>7, LearnsStep, SameStep

\* Every step adds one attempt, or learns of one attempt, or leaves the table alone.
LEMMA NextTable == Inv /\ [Next]_vars => TableStep
<1> SUFFICES ASSUME Inv, [Next]_vars PROVE TableStep
  OBVIOUS
<1>1. ASSUME NEW p \in Procs, Begin(p) \/ Continue(p) PROVE TableStep
  <2>1. CASE Create(p)
    BY <2>1 DEF Create, TableStep, CreateLookup, CreateReplayed, CreateRead, CreateLock,
                CreateConflict, CreateOutOfBound
  <2>2. CASE EnsurePrepay(p)
    BY <2>2, PrepayStep
  <2>3. CASE ReconcileCall(p)
    <3>1. CASE ReconcileApply(p)
      <4>1. calls[p].pc \in LockedPcs /\ calls[p].pc \in SnapPcs
        BY <3>1 DEF ReconcileApply, At, LockedPcs, SnapPcs
      <4>2. UNCHANGED attempts \/ attempts' = Observed(p)
        BY <3>1 DEF ReconcileApply
      <4> QED
        BY <4>1, <4>2, ObservedStep
    <3> QED
      BY <2>3, <3>1, SameStep DEF ReconcileCall, Refresh, Reconcile, ReconcileQuery
  <2>4. CASE CloseCallStep(p)
    <3>1. CASE CloseObserve(p)
      <4>1. calls[p].pc \in LockedPcs /\ calls[p].pc \in SnapPcs
        BY <3>1 DEF CloseObserve, At, LockedPcs, SnapPcs
      <4>2. UNCHANGED attempts \/ attempts' = Observed(p)
        BY <3>1 DEF CloseObserve
      <4> QED
        BY <4>1, <4>2, ObservedStep
    <3> QED
      BY <2>4, <3>1, CloseCommitStep, SameStep
         DEF CloseCallStep, Close, CloseQuery, CloseCall, CloseConfirm, CloseRecover
  <2>5. CASE Notify(p)
    <3>1. CASE NotifyCommit(p)
      <4>1. calls[p].pc \in LockedPcs /\ calls[p].pc \in SnapPcs
        BY <3>1 DEF NotifyCommit, At, LockedPcs, SnapPcs
      <4>2. UNCHANGED attempts \/ attempts' = Observed(p)
        BY <3>1 DEF NotifyCommit
      <4> QED
        BY <4>1, <4>2, ObservedStep
    <3> QED
      BY <2>5, <3>1, SameStep
         DEF Notify, NotifyLookup, NotifyUnmatched, NotifyLock, NotifyApply, NotifyRetry
  <2> QED
    BY <1>1, <2>1, <2>2, <2>3, <2>4, <2>5
       DEF Begin, Continue, Create, ReconcileCall, CloseCallStep, Notify
<1>2. ASSUME NEW p \in Procs, Crash(p) PROVE TableStep
  BY <1>2, SameStep DEF Crash
<1>3. ASSUME NEW a \in Attempts, Expire(a) \/ \E to \in TradeStates : SetTradeState(a, to)
      PROVE  TableStep
  BY <1>3, SameStep DEF Expire, SetTradeState
<1>4. CASE UNCHANGED vars
  BY <1>4, SameStep DEF vars
<1> QED
  BY <1>1, <1>2, <1>3, <1>4 DEF Next

-----------------------------------------------------------------------------
(* What follows for the histories, the close reasons and the reviews.        *)

\* An attempt that does not exist has the row of none: nothing was written to it.
BlankRows == \A a \in Attempts : ~Exists(attempts, a) => attempts[a] = NoAttempt

LEMMA BlankStep == Inv /\ BlankRows /\ [Next]_vars => BlankRows'
<1> SUFFICES ASSUME Inv, BlankRows, [Next]_vars, NEW a \in Attempts, ~Exists(attempts', a)
             PROVE  attempts'[a] = NoAttempt
  BY DEF BlankRows, Exists
<1>1. RowsStep
  BY NextRows
<1>2. ~Exists(attempts, a)
  BY <1>1, RowStep DEF RowPolicy, Exists, Statuses
<1>3. CASE UNCHANGED attempts
  BY <1>2, <1>3 DEF BlankRows
<1>4. ASSUME NEW o \in Orders, Committed(o) PROVE attempts'[a] = NoAttempt
  BY <1>2, <1>4 DEF Committed, OrderPolicy, BlankRows
<1>5. ASSUME NEW p \in Procs, CreateInsert(p) PROVE attempts'[a] = NoAttempt
  <2>1. PICK b \in Attempts : attempts' = [attempts EXCEPT ![b] = NewAttempt(calls[p].req)]
    BY <1>5 DEF CreateInsert
  <2>2. attempts \in [Attempts -> Rows]
    BY DEF Inv, TypeOK
  <2>3. NewAttempt(calls[p].req).status = "created"
    BY DEF NewAttempt, NoAttempt
  <2>4. a # b
    BY <2>1, <2>2, <2>3 DEF Exists
  <2> QED
    BY <1>2, <2>1, <2>2, <2>4 DEF BlankRows
<1> QED
  BY <1>1, <1>3, <1>4, <1>5 DEF RowsStep

\* What every stored row tells by itself.
RowsTell == \A a \in Attempts : Exists(attempts, a) => RowTells(attempts[a])

LEMMA NewTells ==
    ASSUME NEW r
    PROVE  /\ RowTells(NewAttempt(r))
           /\ NewAttempt(r).review = "none" /\ NewAttempt(r).closeReason = "none"
           /\ NewAttempt(r).status = "created" /\ NewAttempt(r).req = r
BY DEF RowTells, NewAttempt, NoAttempt

\* A creation adds a new row in the place of none.
LEMMA InsertShape ==
    ASSUME Inv, NEW p \in Procs, CreateInsert(p)
    PROVE  \E a \in Attempts, r \in Requests :
              /\ ~Exists(attempts, a) /\ Insertable(r)
              /\ attempts'[a] = NewAttempt(r)
              /\ \A b \in Attempts \ {a} : attempts'[b] = attempts[b]
<1> DEFINE r == calls[p].req
<1>1. r \in Requests /\ attempts \in [Attempts -> Rows]
  BY DEF CreateInsert, At, Inv, TypeOK, CallsConsistent, CallConsistent
<1>2. PICK a \in Attempts : /\ ~Exists(attempts, a)
                            /\ attempts' = [attempts EXCEPT ![a] = NewAttempt(r)]
  BY DEF CreateInsert
<1>3. Insertable(r)
  BY DEF CreateInsert
<1> QED
  BY <1>1, <1>2, <1>3

LEMMA RowsTellStep == Inv /\ RowsTell /\ [Next]_vars => RowsTell'
<1> SUFFICES ASSUME Inv, RowsTell, [Next]_vars, NEW a \in Attempts, Exists(attempts', a)
             PROVE  RowTells(attempts'[a])
  BY DEF RowsTell, Exists, RowTells
<1>1. TableStep
  BY NextTable
<1>2. CASE attempts'[a] = attempts[a]
  BY <1>2 DEF RowsTell, Exists
<1>3. ASSUME NEW p \in Procs, CreateInsert(p) PROVE RowTells(attempts'[a])
  BY <1>2, <1>3, InsertShape, NewTells
<1>4. ASSUME NEW x \in Attempts, Exists(attempts, x), Learns(attempts', x)
      PROVE  RowTells(attempts'[a])
  <2>1. Exists(attempts, a)
    BY <1>4 DEF Learns, Exists
  <2> QED
    BY <1>4, <2>1 DEF Learns, RowsTell
<1> QED
  BY <1>1, <1>2, <1>3, <1>4 DEF TableStep

LEMMA RowsAlwaysTell == Spec => [](BlankRows /\ RowsTell)
<1>1. Init => BlankRows /\ RowsTell
  BY DEF Init, BlankRows, RowsTell, Exists, NoAttempt
<1> QED
  BY <1>1, BlankStep, RowsTellStep, Consistent, PTL DEF Spec

\* The history of every attempt is a chain from its creation to its present
\* status, whatever calls, retries and late observations wrote to it.
THEOREM HistoryAlwaysChain == Spec => []HistoryIsChain
<1>1. RowsTell => HistoryIsChain
  BY DEF RowsTell, RowTells, HistoryIsChain
<1> QED
  BY <1>1, RowsAlwaysTell, PTL

\* The merchant's close reason never outlives the close: a success learnt later
\* by any path clears it in the same commit.
THEOREM CloseReasonAlwaysOfClosed == Spec => []CloseReasonOfClosed
<1>1. BlankRows /\ RowsTell => CloseReasonOfClosed
  BY DEF BlankRows, NoAttempt, RowsTell, RowTells, CloseReasonOfClosed
<1> QED
  BY <1>1, RowsAlwaysTell, PTL

LEMMA SameOrderKept ==
    ASSUME Inv, [Next]_vars, NEW a \in Attempts, NEW b \in Attempts, SameOrder(a, b)
    PROVE  SameOrder(a, b)'
<1>1. RowPolicy(attempts[a], attempts'[a]) /\ RowPolicy(attempts[b], attempts'[b])
  BY NextRows, RowStep DEF SameOrder
<1> QED
  BY <1>1 DEF RowPolicy, SameOrder, Exists, Statuses

\* An anomaly is recorded after the success that revealed it: wherever a review
\* flag stands, an attempt of the order was flagged when it had succeeded.
THEOREM ReviewAlwaysFollowsSuccess == Spec => []ReviewFollowsSuccess
<1> DEFINE Shown(a) == \E b \in Attempts : SameOrder(a, b) /\ Confirmed(attempts[b])
           Follows == \A a \in Attempts : attempts[a].review # "none" => Shown(a)
<1>1. ReviewFollowsSuccess <=> Follows
  BY DEF ReviewFollowsSuccess, Confirmed
<1>2. Init => Follows
  BY DEF Init, NoAttempt
<1>3. ASSUME Inv, BlankRows, Follows, [Next]_vars, NEW a \in Attempts,
             attempts'[a].review # "none"
      PROVE  \E b \in Attempts : SameOrder(a, b)' /\ Confirmed(attempts'[b])
  <2>1. TableStep
    BY <1>3, NextTable
  <2>2. ASSUME NEW b \in Attempts, NEW c \in Attempts, attempts[b].review # "none",
               SameOrder(a, b) \/ a = b,
               \A d \in Attempts : Exists(attempts, d) => Grown(attempts[d], attempts'[d])
        PROVE  \E d \in Attempts : SameOrder(a, d)' /\ Confirmed(attempts'[d])
    <3>1. PICK d \in Attempts : SameOrder(b, d) /\ Confirmed(attempts[d])
      BY <1>3, <2>2
    <3>2. SameOrder(a, d)
      BY <2>2, <3>1 DEF SameOrder
    <3>3. SameOrder(a, d)'
      BY <1>3, <3>2, SameOrderKept
    <3>4. Confirmed(attempts'[d])
      BY <2>2, <3>1, GrownConfirmed DEF SameOrder
    <3> QED
      BY <3>3, <3>4
  <2>3. \A d \in Attempts : Grown(attempts[d], attempts[d])
    BY DEF Grown
  <2>4. CASE UNCHANGED attempts
    BY <1>3, <2>2, <2>3, <2>4
  <2>5. ASSUME NEW p \in Procs, CreateInsert(p)
        PROVE  \E b \in Attempts : SameOrder(a, b)' /\ Confirmed(attempts'[b])
    <3>1. PICK x \in Attempts, r \in Requests :
             /\ ~Exists(attempts, x) /\ attempts'[x] = NewAttempt(r)
             /\ \A b \in Attempts \ {x} : attempts'[b] = attempts[b]
      BY <1>3, <2>5, InsertShape
    <3>2. a # x
      BY <1>3, <3>1, NewTells
    <3>3. attempts[a].review # "none"
      BY <1>3, <3>1, <3>2
    <3>4. \A d \in Attempts : Exists(attempts, d) => Grown(attempts[d], attempts'[d])
      BY <2>3, <3>1
    <3> QED
      BY <2>2, <3>3, <3>4
  <2>6. ASSUME NEW x \in Attempts, Exists(attempts, x), Learns(attempts', x)
        PROVE  \E b \in Attempts : SameOrder(a, b)' /\ Confirmed(attempts'[b])
    <3>1. PICK related \in {{}, Related(attempts, x, "succeeded")} :
            LET reason == ReviewReason(attempts, related) IN
            /\ \A b \in Attempts :
                 /\ attempts'[b].review = IF related # {} /\ b \in related \cup {x} THEN reason
                                          ELSE attempts[b].review
                 /\ Grown(attempts[b], attempts'[b])
            /\ related # {} /\ attempts[x].review # reason => Confirmed(attempts'[x])
      BY <2>6 DEF Learns
    <3>2. CASE attempts[a].review # "none"
      BY <2>2, <3>1, <3>2
    <3>3. CASE attempts[a].review = "none"
      <4>1. related # {} /\ a \in related \cup {x}
        BY <1>3, <3>1, <3>3
      <4>2. SameOrder(a, x)
        BY <2>6, <3>1, <4>1 DEF Related, Siblings, SameOrder
      <4>3. CASE attempts[x].review # ReviewReason(attempts, related)
        <5>1. Confirmed(attempts'[x])
          BY <3>1, <4>1, <4>3
        <5> QED
          BY <1>3, <4>2, <5>1, SameOrderKept
      <4>4. CASE attempts[x].review = ReviewReason(attempts, related)
        <5>1. attempts[x].review # "none"
          BY <4>4 DEF ReviewReason
        <5> QED
          BY <2>2, <3>1, <4>2, <5>1
      <4> QED
        BY <4>3, <4>4
    <3> QED
      BY <3>2, <3>3
  <2> QED
    BY <2>1, <2>4, <2>5, <2>6 DEF TableStep
<1>4. Inv /\ BlankRows /\ Follows /\ [Next]_vars => Follows'
  BY <1>3 DEF Confirmed
<1> HIDE DEF Follows
<1>5. Spec => []Follows
  BY <1>2, <1>4, RowsAlwaysTell, Consistent, PTL DEF Spec
<1> QED
  BY <1>1, <1>5, PTL

\* When an order was charged twice, both attempts carry the strongest review
\* reason from the commit on that learns of the second success.
THEOREM DoubleSuccessAlwaysReviewed == Spec => []DoubleSuccessUnderReview
<1> DEFINE multiple == "multiple_successful_attempts"
           Paid(a) == attempts[a].status = "succeeded"
<1>1. Init => DoubleSuccessUnderReview
  BY DEF Init, DoubleSuccessUnderReview, SameOrder, Exists, NoAttempt
<1>2. ASSUME Inv, DoubleSuccessUnderReview, [Next]_vars,
             NEW a \in Attempts, NEW b \in Attempts, a # b, SameOrder(a, b)',
             attempts'[a].status = "succeeded", attempts'[b].status = "succeeded"
      PROVE  attempts'[a].review = multiple
  <2>1. TableStep
    BY <1>2, NextTable
  <2>2. CASE UNCHANGED attempts
    BY <1>2, <2>2 DEF DoubleSuccessUnderReview, SameOrder, Exists
  <2>3. ASSUME NEW p \in Procs, CreateInsert(p) PROVE attempts'[a].review = multiple
    <3>1. PICK x \in Attempts, r \in Requests :
             /\ attempts'[x] = NewAttempt(r)
             /\ \A c \in Attempts \ {x} : attempts'[c] = attempts[c]
      BY <1>2, <2>3, InsertShape
    <3>2. a # x /\ b # x
      BY <1>2, <3>1, NewTells
    <3>3. attempts'[a] = attempts[a] /\ attempts'[b] = attempts[b]
      BY <3>1, <3>2
    <3> QED
      BY <1>2, <3>3 DEF DoubleSuccessUnderReview, SameOrder, Exists
  <2>4. ASSUME NEW x \in Attempts, Exists(attempts, x), Learns(attempts', x)
        PROVE  attempts'[a].review = multiple
    <3>1. PICK related \in {{}, Related(attempts, x, "succeeded")} :
            LET reason == ReviewReason(attempts, related) IN
            /\ attempts'[x].status = "succeeded" /\ attempts'[x].status # attempts[x].status =>
                  related = Related(attempts, x, "succeeded")
            /\ related # {} => attempts'[x].status = "succeeded"
            /\ \A c \in Attempts :
                 /\ c # x => attempts'[c].status = attempts[c].status
                 /\ attempts'[c].req = attempts[c].req
                 /\ attempts'[c].review = IF related # {} /\ c \in related \cup {x} THEN reason
                                          ELSE attempts[c].review
      BY <2>4 DEF Learns
    <3>2. Exists(attempts, a) /\ Exists(attempts, b) /\ SameOrder(a, b)
      BY <1>2, <2>4, <3>1 DEF SameOrder, Exists
    <3>3. ASSUME related = Related(attempts, x, "succeeded"), a = x \/ b = x
          PROVE  attempts'[a].review = multiple
      <4>1. PICK c \in {a, b} : c # x
        BY <1>2
      <4>2. attempts[c].status = "succeeded" /\ c \in related
        BY <1>2, <3>1, <3>2, <3>3, <4>1 DEF Related, Siblings, SameOrder
      <4>3. ReviewReason(attempts, related) = multiple
        BY <4>2 DEF ReviewReason
      <4> QED
        BY <3>1, <3>3, <4>1, <4>2, <4>3
    <3>4. CASE attempts[a].status # "succeeded" \/ attempts[b].status # "succeeded"
      BY <1>2, <3>1, <3>3, <3>4
    <3>5. CASE attempts[a].status = "succeeded" /\ attempts[b].status = "succeeded"
      <4>1. attempts[a].review = multiple
        BY <1>2, <3>2, <3>5 DEF DoubleSuccessUnderReview
      <4>2. CASE related = {} \/ a \notin related \cup {x}
        BY <3>1, <4>1, <4>2
      <4>3. CASE a \in related
        BY <3>1, <3>5, <4>3 DEF ReviewReason
      <4>4. CASE related # {} /\ a = x
        BY <3>1, <3>3, <4>4
      <4> QED
        BY <4>2, <4>3, <4>4
    <3> QED
      BY <3>4, <3>5
  <2> QED
    BY <2>1, <2>2, <2>3, <2>4 DEF TableStep
<1>3. Inv /\ DoubleSuccessUnderReview /\ [Next]_vars => DoubleSuccessUnderReview'
  BY <1>2 DEF DoubleSuccessUnderReview
<1> QED
  BY <1>1, <1>3, Consistent, PTL DEF Spec

-----------------------------------------------------------------------------
(* The refinement: every commit is a step of the abstract life cycle.        *)

\* Learning of an attempt is a transition the policy allows, or finding the
\* rivals of a known success, or nothing that is seen from outside.
LEMMA LearnsRefines ==
    ASSUME Inv, NEW a \in Attempts, Exists(attempts, a), Learns(attempts', a)
    PROVE  Lifecycle!Next \/ UNCHANGED Lifecycle!vars
<1> DEFINE rivals == Related(attempts, a, "succeeded")
           from == attempts[a].status
           to == attempts'[a].status
           flagged == {b \in Attempts : attempts[b].review # "none"}
           flaggedNext == {b \in Attempts : attempts'[b].review # "none"}
<1>1. PICK related \in {{}, rivals} :
        LET reason == ReviewReason(attempts, related) IN
        /\ to = from \/ DecideTransition(from, to, TRUE) = "apply"
        /\ to \in Statuses
        /\ related # {} => to = "succeeded"
        /\ to = "succeeded" /\ to # from => related = rivals
        /\ \A b \in Attempts :
              /\ b # a => attempts'[b].status = attempts[b].status
              /\ attempts'[b].req = attempts[b].req
              /\ attempts'[b].review = IF related # {} /\ b \in related \cup {a} THEN reason
                                       ELSE attempts[b].review
  BY DEF Learns
<1>2. rivals \subseteq Attempts
  BY DEF Related, Siblings
<1>3. flaggedNext = IF related = {} THEN flagged ELSE flagged \cup related \cup {a}
  BY <1>1, <1>2 DEF ReviewReason
<1>4. Lifecycle!Rivals(a) = rivals
  BY DEF Lifecycle!Rivals, Lifecycle!OfOrder, Lifecycle!Present, Lifecycle!Active, Related,
         Siblings, Exists, Active
<1>5. [b \in Attempts |-> attempts'[b].req] = [b \in Attempts |-> attempts[b].req]
  BY <1>1
<1>6. [b \in Attempts |-> attempts'[b].status]
        = [[b \in Attempts |-> attempts[b].status] EXCEPT ![a] = to]
  BY <1>1
<1>7. CASE to = from
  <2>1. [b \in Attempts |-> attempts'[b].status] = [b \in Attempts |-> attempts[b].status]
    BY <1>1, <1>7
  <2>2. CASE related = {}
    BY <1>3, <1>5, <2>1, <2>2 DEF Lifecycle!vars, flagged, flaggedNext
  <2>3. CASE related # {}
    <3>1. related = rivals /\ from = "succeeded"
      BY <1>1, <1>7, <2>3
    <3>2. flaggedNext = flagged \cup Lifecycle!Suspects(a)
      BY <1>3, <1>4, <2>3, <3>1 DEF Lifecycle!Suspects
    <3>3. Lifecycle!Review(a)
      BY <1>5, <2>1, <3>1, <3>2 DEF Lifecycle!Review, flagged, flaggedNext
    <3> QED
      BY <3>3 DEF Lifecycle!Next
  <2> QED
    BY <2>2, <2>3
<1>8. CASE to # from
  <2>1. PICK t \in Statuses : t = to
    BY <1>1
  <2>2. t \in AllowedTransitions[from]
    BY <1>1, <1>8, <2>1 DEF DecideTransition
  <2>3. flaggedNext = IF t = "succeeded" THEN flagged \cup Lifecycle!Suspects(a) ELSE flagged
    BY <1>1, <1>3, <1>4, <1>8, <2>1 DEF Lifecycle!Suspects
  <2>4. Lifecycle!Learn(a, t)
    BY <1>5, <1>6, <2>1, <2>3 DEF Lifecycle!Learn, flagged, flaggedNext
  <2>5. Lifecycle!Present(a)
    BY DEF Lifecycle!Present, Exists
  <2>6. t \in Lifecycle!AllowedTransitions[[b \in Attempts |-> attempts[b].status][a]]
    BY <2>2 DEF AllowedTransitions, Lifecycle!AllowedTransitions
  <2> QED
    BY <2>4, <2>5, <2>6 DEF Lifecycle!Next
<1> QED
  BY <1>7, <1>8

LEMMA InsertRefines ==
    ASSUME Inv, BlankRows, NEW p \in Procs, CreateInsert(p)
    PROVE  Lifecycle!Next
<1>1. PICK a \in Attempts, r \in Requests :
        /\ ~Exists(attempts, a) /\ Insertable(r)
        /\ attempts'[a] = NewAttempt(r)
        /\ \A b \in Attempts \ {a} : attempts'[b] = attempts[b]
  BY InsertShape
<1>2. /\ attempts'[a].status = "created" /\ attempts'[a].req = r
      /\ attempts'[a].review = "none" /\ attempts[a].review = "none"
  BY <1>1, NewTells DEF BlankRows, NoAttempt
<1>3. /\ [b \in Attempts |-> attempts'[b].status]
           = [[b \in Attempts |-> attempts[b].status] EXCEPT ![a] = "created"]
      /\ [b \in Attempts |-> attempts'[b].req]
           = [[b \in Attempts |-> attempts[b].req] EXCEPT ![a] = r]
  BY <1>1, <1>2
<1>4. {b \in Attempts : attempts'[b].review # "none"}
        = {b \in Attempts : attempts[b].review # "none"}
  BY <1>1, <1>2
<1>5. \A b \in Attempts : Exists(attempts, b) => attempts[b].req.key # r.key
  BY <1>1 DEF Insertable, HasKey
<1>6. \A b \in OfOrder(r.order) : attempts[b].status \notin Active
  BY <1>1 DEF Insertable
<1>7. Lifecycle!OfOrder(r.order) = OfOrder(r.order)
  BY DEF Lifecycle!OfOrder, Lifecycle!Present, OfOrder, Exists
<1>8. Lifecycle!Create(a, r)
  BY <1>1, <1>3, <1>4, <1>5, <1>6, <1>7
     DEF Lifecycle!Create, Lifecycle!Present, Exists, OfOrder, Lifecycle!Active, Active
<1> QED
  BY <1>8 DEF Lifecycle!Next

\* The service implements the life cycle it promises: no interleaving, crash,
\* retry or observation commits anything else to the attempts of an order.
THEOREM PaymentsImplementLifecycle == Spec => ImplementsLifecycle
<1>1. Init => Lifecycle!Init
  BY DEF Init, Lifecycle!Init, NoAttempt
<1>2. ASSUME Inv, BlankRows, [Next]_vars PROVE Lifecycle!Next \/ UNCHANGED Lifecycle!vars
  <2>1. TableStep
    BY <1>2, NextTable
  <2>2. CASE UNCHANGED attempts
    BY <2>2 DEF Lifecycle!vars
  <2> QED
    BY <1>2, <2>1, <2>2, InsertRefines, LearnsRefines DEF TableStep
<1>3. Inv /\ BlankRows /\ [Next]_vars => [Lifecycle!Next]_(Lifecycle!vars)
  BY <1>2
<1> QED
  BY <1>1, <1>3, RowsAlwaysTell, Consistent, PTL DEF Spec, ImplementsLifecycle, Lifecycle!Spec

=============================================================================
