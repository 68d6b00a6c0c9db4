---------------------------- MODULE ShopCommerce ----------------------------
(* Coupons, their claims and the record of outside orders                    *)
(* (backend/app/services/shop_commerce.py). Customers claim coupons while    *)
(* administrators edit them; an order is recorded under the reference of the *)
(* system it comes from, which may report it again.                          *)
EXTENDS MiniSessions, CartQuote

CONSTANTS
    Coupons,        \* IDs
    Definitions,    \* what a coupon is created from: a whole row
    Edits,          \* partial updates of a coupon
    Payloads,       \* order records as reported: [ref, customer, completed, items]
    Tolerance,      \* an order may be completed this far in the future
    Carts,          \* the carts that are quoted
    InitialCoupons

VARIABLES
    coupons,    \* ID -> None or a row
    claims,     \* [customer, coupon, at]
    holders,    \* coupon -> the thread that holds FOR UPDATE
    orders,     \* rows
    answered    \* history: the reports that were accepted

commerceVars == <<coupons, claims, holders, orders, answered>>

\* The rows of the tables.
Coupon == [min : Int, discount : Int, starts : Int, expires : Int, active : BOOLEAN]
Order == [ref : {r.ref : r \in Payloads}, customer : {r.customer : r \in Payloads},
          completed : Int, items : {r.items : r \in Payloads}, voided : Int \cup {None}]

\* CouponCreate.validate_definition.
ValidDefinition(d) == d.min > 0 /\ d.discount \in 1..d.min /\ d.starts < d.expires

\* Times and amounts are integers, and no row is None.
ASSUME ShopCommerceAssumption ==
    /\ None \notin Procs /\ None \notin Coupon
    /\ Tolerance \in Nat
    /\ Definitions \subseteq Coupon
    /\ \A edit \in Edits : \A f \in DOMAIN edit :
          edit[f] \in IF f = "active" THEN BOOLEAN ELSE Int
    /\ \A r \in Payloads : r.completed \in Int \cup {None}
    /\ \A rows \in InitialCoupons :
          /\ rows \in [Coupons -> Coupon \cup {None}]
          /\ \A c \in Coupons : rows[c] # None => ValidDefinition(rows[c])
    /\ \A cart \in Carts : CartAccepted(cart) => Subtotal(cart) \in Int

CommerceInit ==
    /\ coupons \in InitialCoupons
    /\ claims = {}
    /\ holders = [c \in Coupons |-> None]
    /\ orders = <<>>
    /\ answered = {}

-----------------------------------------------------------------------------
(* Coupons                                                                   *)

CreateCoupon(p, c, d) ==
    /\ coupons[c] = None
    /\ ValidDefinition(d)
    /\ Spend(p)
    /\ coupons' = [coupons EXCEPT ![c] = d]
    /\ UNCHANGED <<calls, claims, holders, orders, answered>>

\* Mutant: nobody waits for the row of a coupon.
NeverHeld(c) == TRUE

\* FOR UPDATE, and the update statement, wait for the row.
Unheld(c) == holders[c] = None

Merged(row, edit) == [f \in DOMAIN row |-> IF f \in DOMAIN edit THEN edit[f] ELSE row[f]]

\* Mutant: the fields of an edit are not validated with the rest of the row.
AnyEdit(row, edit) == TRUE

ValidEdit(row, edit) == ValidDefinition(Merged(row, edit))

\* update_coupon: lock, validate the merged row, commit.
UpdateCoupon(p, c, edit) ==
    /\ coupons[c] # None /\ Unheld(c)
    /\ ValidEdit(coupons[c], edit)
    /\ Spend(p)
    /\ coupons' = [coupons EXCEPT ![c] = Merged(@, edit)]
    /\ UNCHANGED <<calls, claims, holders, orders, answered>>

ClaimCoupon(p, s, c) ==
    /\ BeginAs(p, s, "claim_lock", [customer |-> sessions[s].customer, coupon |-> c])
    /\ UNCHANGED commerceVars

HasClaimed(customer, c) == \E k \in claims : k.customer = customer /\ k.coupon = c

\* The row is locked and read; only a coupon in its window can be claimed.
ClaimLock(p) ==
    LET c == calls[p].req.coupon IN
    /\ At(p, "claim_lock") /\ Unheld(c)
    /\ coupons[c] # None /\ ~HasClaimed(calls[p].req.customer, c) /\ InWindow(coupons[c], now)
    /\ holders' = [holders EXCEPT ![c] = p]
    /\ Continue(p, "claim_commit", [at |-> now])
    /\ UNCHANGED <<coupons, claims, orders, answered>>

\* No such coupon, not in its window, or claimed before: nothing is stored.
ClaimAnswered(p) ==
    LET c == calls[p].req.coupon IN
    /\ At(p, "claim_lock") /\ Unheld(c)
    /\ coupons[c] # None => HasClaimed(calls[p].req.customer, c) \/ ~InWindow(coupons[c], now)
    /\ EndCall(p)
    /\ UNCHANGED commerceVars

\* The constraint on customer and coupon answers with the stored claim.
ClaimCommit(p) ==
    LET req == calls[p].req IN
    /\ At(p, "claim_commit")
    /\ claims' = IF HasClaimed(req.customer, req.coupon) THEN claims
                 ELSE claims \cup {[customer |-> req.customer, coupon |-> req.coupon,
                                    at |-> calls[p].got.at]}
    /\ holders' = [holders EXCEPT ![req.coupon] = None]
    /\ EndCall(p)
    /\ UNCHANGED <<coupons, orders, answered>>

-----------------------------------------------------------------------------
(* Recorded orders; items is a bag of lines [product, quantity, price]: how   *)
(* many times each is listed, in whatever order                              *)

Reported(ref) == {i \in DOMAIN orders : orders[i].ref = ref}

\* Mutant: which lines occur is compared, not how often.
SameLines(order, payload) ==
    /\ order.customer = payload.customer
    /\ payload.completed \in {None, order.completed}
    /\ DOMAIN order.items = DOMAIN payload.items

\* _ensure_same_order: the sorted lines are equal exactly when the bags are.
SameOrder(order, payload) ==
    /\ order.customer = payload.customer
    /\ payload.completed \in {None, order.completed}
    /\ order.items = payload.items

CompletedAt(payload) == IF payload.completed = None THEN now ELSE payload.completed

OrderTotal(items) ==
    MapThenSumSet(LAMBDA line : items[line] * line.quantity * line.price, DOMAIN items)

Recordable(payload) ==
    /\ CompletedAt(payload) <= now + Tolerance
    /\ payload.customer \in DOMAIN customers \cup {None}
    /\ OrderTotal(payload.items) <= MaxAmount
    /\ \A line \in DOMAIN payload.items : line.product \in DOMAIN Catalogue

Answer(payload) ==
    answered' = IF \E i \in Reported(payload.ref) : SameOrder(orders[i], payload)
                THEN answered \cup {payload} ELSE answered

\* The reference is looked up and the report is checked.
RecordOrder(p, payload) ==
    /\ IF Reported(payload.ref) # {}
       THEN Answer(payload) /\ Spend(p) /\ UNCHANGED calls
       ELSE /\ Recordable(payload)
            /\ Begin(p, "order_commit", [report |-> payload, completed |-> CompletedAt(payload)])
            /\ UNCHANGED answered
    /\ UNCHANGED <<coupons, claims, holders, orders>>

\* The unique constraint.
Conflicts(ref) == Reported(ref)

OrderCommit(p) ==
    LET report == calls[p].req.report IN
    /\ At(p, "order_commit")
    /\ Conflicts(report.ref) = {}
    /\ orders' = Append(orders, [ref |-> report.ref, customer |-> report.customer,
           completed |-> calls[p].req.completed, items |-> report.items, voided |-> None])
    /\ answered' = answered \cup {report}
    /\ EndCall(p)
    /\ UNCHANGED <<coupons, claims, holders>>

\* IntegrityError: the report is answered as a repetition of the order that won.
OrderConflict(p) ==
    LET report == calls[p].req.report IN
    /\ At(p, "order_commit")
    /\ Conflicts(report.ref) # {}
    /\ Answer(report)
    /\ EndCall(p)
    /\ UNCHANGED <<coupons, claims, holders, orders>>

\* void_order: under the order's lock, once.
VoidOrder(p, i) ==
    /\ orders[i].voided = None
    /\ Spend(p)
    /\ LET completed == orders[i].completed
       IN orders' = [orders EXCEPT ![i].voided = IF now < completed THEN completed ELSE now]
    /\ UNCHANGED <<calls, coupons, claims, holders, answered>>

CommerceStep(p) ==
    /\ \/ \E c \in Coupons, d \in Definitions : CreateCoupon(p, c, d)
       \/ \E c \in Coupons, edit \in Edits : UpdateCoupon(p, c, edit)
       \/ \E s \in DOMAIN sessions, c \in Coupons : ClaimCoupon(p, s, c)
       \/ ClaimLock(p)
       \/ ClaimAnswered(p)
       \/ ClaimCommit(p)
       \/ \E payload \in Payloads : RecordOrder(p, payload)
       \/ OrderCommit(p)
       \/ OrderConflict(p)
       \/ \E i \in DOMAIN orders : VoidOrder(p, i)
    /\ UNCHANGED <<sessionVars, now>>

-----------------------------------------------------------------------------
(* Correctness                                                               *)

\* The tables hold rows their checks accept: a stored coupon is valid as a whole,
\* whatever partial updates made of it.
CommerceTypeOK ==
    /\ coupons \in [Coupons -> Coupon \cup {None}]
    /\ \A c \in Coupons : coupons[c] # None => ValidDefinition(coupons[c])
    /\ claims \subseteq [customer : DOMAIN customers, coupon : Coupons, at : Time]
    /\ \A k \in claims : coupons[k.coupon] # None
    /\ holders \in [Coupons -> Procs \cup {None}]
    /\ orders \in Seq(Order) /\ answered \subseteq Payloads

\* "Serialize claims against admin edits to the coupon validity window": when a
\* claim is stored, the coupon as it is stored then was active and open at the
\* time of the claim (shop_commerce.py:212-245, 266-286).
ClaimedWhileValid ==
    [][\A k \in claims' \ claims : InWindow(coupons[k.coupon], k.at)]_claims

\* An outside order that was reported and accepted any number of times, at once
\* or later, is one order, and it is the order of every accepted report: nobody
\* is told that a different record was stored (shop_commerce.py:308-386). An
\* order is not voided before it was completed (389-402).
OrderRecordedOnce ==
    /\ \A report \in answered :
          LET rows == {i \in DOMAIN orders : orders[i].ref = report.ref} IN
          /\ Cardinality(rows) = 1
          /\ \A i \in rows :
                /\ orders[i].customer = report.customer /\ orders[i].items = report.items
                /\ report.completed # None => orders[i].completed = report.completed
    /\ \A i \in DOMAIN orders :
          orders[i].voided # None => orders[i].voided >= orders[i].completed

\* Whatever was edited and claimed before, no quotation charges less than nothing
\* or discounts a cart the shop would not sell, and a discount is that of a coupon
\* the customer holds (shop_cart.py:92-202, shop_commerce.py:266-286).
QuoteCoherent ==
    \A cart \in Carts, i \in DOMAIN customers, c \in {d \in Coupons : coupons[d] # None} :
        LET quoted == Quote(cart, <<coupons[c]>>, HasClaimed(i, c), now)
            plain == Quote(cart, <<>>, FALSE, now) IN
        quoted # Refused =>
            /\ plain # Refused /\ plain[1].total = quoted[1].subtotal
            /\ 0 <= quoted[1].total /\ quoted[1].total < plain[1].total
            /\ plain[1].total <= MaxAmount
            /\ \E k \in claims : k.customer = i /\ k.coupon = c
=============================================================================
