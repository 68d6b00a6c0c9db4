----------------------------- MODULE CatalogRules -----------------------------
(* The rules of a product as values (backend/app/schemas/catalog.py,          *)
(* services/catalog.py and services/catalog_excel.py): its specification      *)
(* document, its SKUs, its images and the merge of a workbook into them.      *)
(*                                                                            *)
(* A document maps specification codes to [mode, required, min, max, options, *)
(* defaults]; a SKU is [code, attributes, active, default], attributes mapping *)
(* specification codes to option codes; images map object keys to roles.      *)
EXTENDS Integers, FiniteSets, Sequences

CONSTANTS
    Limits,     \* role -> how many images of that role a product may have
    Documents,  \* the specification documents in use
    SkuCodes, Attributes,   \* the codes and the attribute maps of SKUs
    None

ASSUME CatalogRulesAssumption ==
    /\ \A role \in DOMAIN Limits : Limits[role] \in Nat
    /\ "cover" \in DOMAIN Limits /\ Limits["cover"] = 1
    /\ <<>> \in Attributes

Roles == DOMAIN Limits
Sku == [code : SkuCodes, attributes : Attributes, active : BOOLEAN, default : BOOLEAN]

\* The fields of f, and those of g that f does not have.
Over(f, g) == [k \in DOMAIN f \cup DOMAIN g |-> IF k \in DOMAIN f THEN f[k] ELSE g[k]]

-----------------------------------------------------------------------------
(* Specifications                                                            *)

\* ProductSpecification.validate_selection_contract.
ValidSpecification(s) ==
    LET size == Cardinality(s.options) IN
    /\ s.required <=> s.min > 0
    /\ s.min <= s.max /\ s.min <= size
    /\ s.mode = "single" => s.max <= 1 /\ Cardinality(s.defaults) <= 1
    /\ s.options # {} => s.max <= size
    /\ Cardinality(s.defaults) <= s.max

ValidDocument(document) == \A c \in DOMAIN document : ValidSpecification(document[c])

\* Documents written before options existed cannot say what a SKU may refer to.
IsLegacy(document) ==
    DOMAIN document # {} /\ \A c \in DOMAIN document : document[c].options = {}

\* A specification without options accepts every option code.
Known(document, code, option) ==
    /\ code \in DOMAIN document
    /\ document[code].options = {} \/ option \in document[code].options

ReferencesResolve(document, skus) ==
    \/ IsLegacy(document)
    \/ \A i \in DOMAIN skus : \A c \in DOMAIN skus[i].attributes :
           Known(document, c, skus[i].attributes[c])

-----------------------------------------------------------------------------
(* SKUs, in the order they are stored in                                     *)

\* The error the code answers with: no product is left without SKUs.
Refused == <<>>

Codes(skus) == {skus[i].code : i \in DOMAIN skus}

IsActiveDefault(sku) == sku.active /\ sku.default

ActiveDefaults(skus) == {i \in DOMAIN skus : IsActiveDefault(skus[i])}

\* A product without SKUs gets one, named after the product.
DefaultSku(x) == [code |-> x, attributes |-> <<>>, active |-> TRUE, default |-> TRUE]

FirstActive(skus) == CHOOSE i \in DOMAIN skus :
    skus[i].active /\ \A j \in 1..(i - 1) : ~skus[j].active

\* Without an active default the first active SKU becomes it.
WithDefault(skus) ==
    IF ActiveDefaults(skus) # {} THEN skus
    ELSE [skus EXCEPT ![FirstActive(skus)].default = TRUE]

HasActive(skus) == \E i \in DOMAIN skus : skus[i].active

\* What _sync_skus makes of the SKUs of a request: they replace the stored ones.
SyncedSkus(x, inputs) ==
    IF inputs = <<>> THEN <<DefaultSku(x)>>
    ELSE IF \/ Cardinality(Codes(inputs)) # Len(inputs)
            \/ ~HasActive(inputs)
            \/ Cardinality(ActiveDefaults(inputs)) > 1
    THEN Refused ELSE WithDefault(inputs)

\* The stored SKUs overlaid with those of a workbook, which come after them; a
\* default among the latter takes the place of the stored one.
Overlaid(skus, incoming) ==
    LET replaced(sku) == {i \in DOMAIN incoming : incoming[i].code = sku.code}
        kept(sku) == IF ActiveDefaults(incoming) = {} THEN sku ELSE [sku EXCEPT !.default = FALSE]
        added == {i \in DOMAIN incoming : incoming[i].code \notin Codes(skus)}
        place(i) == Len(skus) + Cardinality({j \in added : j <= i})
    IN [n \in 1..(Len(skus) + Cardinality(added)) |->
            IF n > Len(skus) THEN incoming[CHOOSE i \in added : place(i) = n]
            ELSE IF replaced(skus[n]) = {} THEN kept(skus[n])
            ELSE incoming[CHOOSE i \in replaced(skus[n]) : TRUE]]

\* _final_skus: unlike a request, a workbook adds to the stored SKUs. (A code
\* appears once in a workbook: _parse_skus refuses the second row.)
FinalSkus(x, skus, incoming) ==
    LET merged == Overlaid(skus, incoming) IN
    IF Cardinality(ActiveDefaults(incoming)) > 1 THEN Refused
    ELSE IF merged = <<>> THEN <<DefaultSku(x)>>
    ELSE IF ~HasActive(merged) \/ Cardinality(ActiveDefaults(merged)) > 1 THEN Refused
    ELSE WithDefault(merged)

-----------------------------------------------------------------------------
(* Images                                                                    *)

OfRole(images, role) == {k \in DOMAIN images : images[k] = role}

Count(images, role) == Cardinality(OfRole(images, role))

\* validate_image_capacity, before one more image is added.
HasCapacity(images, role) == Count(images, role) < Limits[role]

WithinLimits(images) == \A role \in DOMAIN Limits : Count(images, role) <= Limits[role]

\* The images of product x once the rows of a workbook are applied: a row gives
\* a new image its role and an attached one another role.
FinalRoles(x, images, rows) ==
    LET named == {r \in rows : r.code = x}
    IN Over([k \in {r.key : r \in named} |-> (CHOOSE r \in named : r.key = k).role], images)

(* A workbook: rows maps product codes to [status, category, document], skus  *)
(* maps them to SKUs, images is a set of [code, key, role, staged].           *)
Affected(workbook) ==
    DOMAIN workbook.rows \cup DOMAIN workbook.skus \cup {r.code : r \in workbook.images}

MayBePublished(categoryActive, images) == categoryActive /\ Count(images, "cover") = 1

=============================================================================
