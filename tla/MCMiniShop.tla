----------------------------- MODULE MCMiniShop -----------------------------
(* A small instance of MiniShop for TLC.                                     *)
EXTENDS MiniShop, TLC

CONSTANTS p1, p2, k0, k1, k2, a, b, m1, m2, m3, c1, c2

\* Two codes of one identity that is new, or inactive.
Owners == k0 :> "member" @@ k1 :> "guest" @@ k2 :> "guest"
Member == [who |-> "member", active |-> TRUE]
Populations == {<<Member>>, <<Member, [who |-> "guest", active |-> FALSE]>>}
Opened == {<<[customer |-> 1, code |-> k0, expires |-> 2, revoked |-> None]>>}

\* The table is full: a client with one event about to expire, and one at its limit.
Tables == {a :> <<-3>> @@ b :> <<-2, -1>>}

Definition(min, discount, expires) ==
    [min |-> min, discount |-> discount, starts |-> 0, expires |-> expires, active |-> TRUE]
NewCoupons == {Definition(1, 1, 2)}
OneCoupon == {[c \in Coupons |-> IF c = c1 THEN Definition(4, 3, 2) ELSE None]}
\* The last one is refused: the discount would exceed the minimum.
CouponEdits == {[active |-> FALSE], [expires |-> 1], [min |-> 2]}

Line(price) == [product |-> "x", quantity |-> 1, price |-> price]
Report(customer, completed, items) ==
    [ref |-> "r", customer |-> customer, completed |-> completed, items |-> items]
\* The same order, with a time and for a customer, and with its line listed twice.
Reports == {Report(None, None, Line(1) :> 1), Report(None, 1, Line(1) :> 1),
            Report(1, None, Line(1) :> 1), Report(None, None, Line(1) :> 2)}

\* A sparse SKU (no size) and an add-on that changes the price.
Products ==
    "x" :> [published |-> TRUE, soldOut |-> FALSE,
            document |-> "size" :> [mode |-> "single", min |-> 0, max |-> 1, options |-> "l" :> 0]
                         @@ "extra" :> [mode |-> "multiple", min |-> 0, max |-> 2,
                                        options |-> "egg" :> 2 @@ "less" :> -3],
            skus |-> <<[code |-> "S", active |-> TRUE, attributes |-> <<>>, price |-> 2, stock |-> 2],
                       [code |-> "L", active |-> TRUE, attributes |-> "size" :> "l",
                        price |-> 4, stock |-> 1]>>]

CartLine(sku, size, extra, quantity) ==
    [product |-> "x", sku |-> sku, selections |-> "size" :> size @@ "extra" :> extra,
     quantity |-> quantity]
QuotedCarts ==
    {<<CartLine("S", {}, {}, 1)>>,
     <<CartLine("S", {}, {"egg"}, 1)>>,
     <<CartLine("S", {}, {"less"}, 1)>>,
     <<CartLine("L", {"l"}, {}, 1), CartLine("S", {}, {}, 2)>>,
     <<CartLine("S", {"l"}, {}, 1)>>}

SavedMedia ==
    {[kind |-> "carousel", category |-> None, active |-> TRUE],
     [kind |-> "category", category |-> "drinks", active |-> TRUE],
     [kind |-> "announcement", category |-> None, active |-> FALSE]}
Shown == [kind |-> "announcement", category |-> None, active |-> TRUE, by |-> None]
Pages == {[i \in MediaIds |-> IF i = m1 THEN Shown ELSE None]}

Symmetry == Permutations({p1, p2}) \cup Permutations({k1, k2}) \cup Permutations({m2, m3})
=============================================================================
