------------------------------ MODULE CartQuote ------------------------------
(* The quotation of a cart (backend/app/services/shop_cart.py) as a value: it *)
(* reads the products, the coupon the customer has chosen and the time, and   *)
(* writes nothing.                                                            *)
(*                                                                            *)
(* A product is [published (in an active category, too), soldOut, document,   *)
(* skus]: the document maps a specification's code to [mode, min, max,        *)
(* options (option -> price difference)], and the skus are [code, active,     *)
(* attributes (specification -> option), price, stock], the default one first. *)
(* A cart line is [product, sku, selections (specification -> options), quantity]. *)
EXTENDS Integers, FiniteSets, Sequences, FiniteSetsExt

CONSTANTS
    Catalogue,  \* product code -> product
    MaxAmount   \* 2^31 - 1 in the code

ASSUME CartQuoteAssumption == MaxAmount \in Nat

Refused == <<>>

Selected(line, c) == IF c \in DOMAIN line.selections THEN line.selections[c] ELSE {}

AtMost(s) == IF s.mode = "single" THEN 1 ELSE s.max

\* Every specification's selection is within its options and bounds.
SelectionsFit(product, line) ==
    /\ DOMAIN line.selections \subseteq DOMAIN product.document
    /\ \A c \in DOMAIN product.document :
          LET s == product.document[c] IN
          /\ Selected(line, c) \subseteq DOMAIN s.options
          /\ Cardinality(Selected(line, c)) \in s.min..AtMost(s)

ActiveSkus(product) == SelectSeq(product.skus, LAMBDA sku : sku.active)

\* The dimensions that tell the active SKUs apart.
Variants(product) ==
    UNION {DOMAIN ActiveSkus(product)[i].attributes : i \in DOMAIN ActiveSkus(product)}

\* A SKU without a dimension stands for selecting nothing of it.
Matches(product, sku, line) ==
    \A c \in Variants(product) :
        Selected(line, c) = IF c \in DOMAIN sku.attributes THEN {sku.attributes[c]} ELSE {}

\* _resolve_sku: the first active SKU that matches must be the one named.
Resolved(product, line) ==
    LET matching == SelectSeq(ActiveSkus(product), LAMBDA sku : Matches(product, sku, line))
    IN IF SelectionsFit(product, line) /\ matching # <<>> /\ Head(matching).code = line.sku
       THEN <<Head(matching)>> ELSE Refused

\* _unit_price: options that are no attribute of the SKU change the price.
UnitPrice(product, sku, line) ==
    LET Delta(c) == MapThenSumSet(LAMBDA o : product.document[c].options[o], Selected(line, c))
        amount == sku.price
            + MapThenSumSet(Delta, DOMAIN product.document \ DOMAIN sku.attributes)
    IN IF amount < 0 THEN 0 ELSE amount

ForSale(x) ==
    /\ x \in DOMAIN Catalogue
    /\ Catalogue[x].published /\ ~Catalogue[x].soldOut

SkuOf(line) == Resolved(Catalogue[line.product], line)

LineTotal(line) == UnitPrice(Catalogue[line.product], Head(SkuOf(line)), line) * line.quantity

Subtotal(cart) == MapThenSumSet(LAMBDA i : LineTotal(cart[i]), DOMAIN cart)

\* Lines of one SKU share its stock.
Wanted(cart, i) ==
    MapThenSumSet(LAMBDA j : cart[j].quantity,
        {j \in DOMAIN cart : cart[j].product = cart[i].product /\ SkuOf(cart[j]) = SkuOf(cart[i])})

CartAccepted(cart) ==
    /\ \A i \in DOMAIN cart : ForSale(cart[i].product) /\ SkuOf(cart[i]) # Refused
    /\ \A i \in DOMAIN cart : Wanted(cart, i) <= Head(SkuOf(cart[i])).stock
    /\ Subtotal(cart) <= MaxAmount

InWindow(coupon, time) == coupon.active /\ coupon.starts <= time /\ time < coupon.expires

\* Mutant: the minimum spend is not looked at.
EligibleByWindow(coupon, subtotal, time) == InWindow(coupon, time)

\* _evaluate_coupon.
Eligible(coupon, subtotal, time) == InWindow(coupon, time) /\ subtotal >= coupon.min

\* quote_cart: chosen is <<>>, or the row of the chosen coupon, which the
\* customer has to have claimed. The evaluations of the other coupons are left
\* out, as is their cap.
Quote(cart, chosen, claimed, time) ==
    LET discount == IF chosen = <<>> THEN 0 ELSE Head(chosen).discount
    IN IF /\ chosen # <<>> => claimed
          /\ CartAccepted(cart)
          /\ chosen # <<>> => Eligible(Head(chosen), Subtotal(cart), time)
       THEN <<[subtotal |-> Subtotal(cart), discount |-> discount,
               total |-> Subtotal(cart) - discount]>>
       ELSE Refused
=============================================================================
