------------------------------- MODULE Catalog -------------------------------
(* CatalogService and the image handlers (backend/app/services/catalog.py,    *)
(* api/routes/admin_catalog.py): administrators' requests change categories   *)
(* and products concurrently. Every request that changes a row locks it, reads *)
(* it again, validates what it is about to write and commits; what it knows   *)
(* of other rows it has read without a lock.                                  *)
EXTENDS CatalogRules

CONSTANTS
    Procs,          \* request threads
    Categories,     \* the IDs of categories; one that was deleted is not used again
    Products,       \* the product codes that can be in use
    ObjectKeys,     \* the keys image objects are stored under
    CategoryChanges,    \* partial updates of a category
    ProductInputs,      \* what a product is created from
    ProductChanges,     \* partial updates of a product
    InitialCategories, InitialProducts,     \* the tables the instance starts with
    MaxCalls,       \* bound: requests made in one behaviour
    LateCreation,   \* may a product be created behind the locks of an import?
    Gone            \* marks the ID of a category that was deleted

Statuses == {"draft", "published", "archived"}

\* The rows of the tables. A product's SKUs and images are part of it.
Category == [parent : Categories \cup {None}, active : BOOLEAN]
ImageMaps == UNION {[keys -> Roles] : keys \in SUBSET ObjectKeys}
Product == [status : Statuses, category : Categories, document : Documents,
            skus : Seq(Sku), images : ImageMaps]

Stored(table) == {r \in DOMAIN table : table[r] \notin {None, Gone}}

\* The categories met on the way up from c, c included: the least set with c that
\* has with a category its parent.
Above(table, c) ==
    LET closed == {S \in SUBSET Categories :
                      \A d \in S \cap Stored(table) : table[d].parent \in S \cup {None}}
    IN {d \in Categories : \A S \in closed : c \in S => d \in S}

IsTree(table) ==
    \A c \in Stored(table) :
        LET parent == table[c].parent IN
        parent # None => parent \in Stored(table) /\ c \notin Above(table, parent)

\* The unique index on SKU codes.
CodesFree(table, x, skus) ==
    \A y \in Stored(table) \ {x} : Codes(table[y].skus) \cap Codes(skus) = {}

\* What the validation of a product establishes, apart from its category.
SkusMatch(row) ==
    /\ ValidDocument(row.document)
    /\ ReferencesResolve(row.document, row.skus)
    /\ Cardinality(ActiveDefaults(row.skus)) = 1

ImagesMatch(row) ==
    /\ WithinLimits(row.images)
    /\ row.status = "published" => Count(row.images, "cover") = 1

ASSUME CatalogAssumption ==
    /\ MaxCalls \in Nat
    /\ LateCreation \in BOOLEAN
    /\ None \notin Procs \cup Categories \cup Products \cup Product
    /\ Gone \notin Product \cup {None}
    /\ {None, Gone} \cap Category = {}
    /\ Categories \cap Products = {} /\ Products \subseteq SkuCodes
    /\ IsFiniteSet(ObjectKeys)

\* Requests of the API, as their schemas let them pass.
ASSUME CatalogInputsAssumption ==
    /\ \A change \in CategoryChanges :
          /\ DOMAIN change \subseteq {"parent", "active"}
          /\ "parent" \in DOMAIN change => change.parent \in Categories \cup {None}
          /\ "active" \in DOMAIN change => change.active \in BOOLEAN
    /\ ProductInputs \subseteq
          [status : Statuses, category : Categories, document : Documents, skus : Seq(Sku)]
    /\ \A change \in ProductChanges :
          /\ DOMAIN change \subseteq {"status", "category", "document", "skus"}
          /\ "status" \in DOMAIN change => change.status \in Statuses
          /\ "category" \in DOMAIN change => change.category \in Categories
          /\ "document" \in DOMAIN change => change.document \in Documents
          /\ "skus" \in DOMAIN change => change.skus \in Seq(Sku)

\* The instance starts with tables that earlier requests can have left.
ASSUME InitialTablesAssumption ==
    /\ \A table \in InitialCategories :
          table \in [Categories -> Category \cup {None, Gone}] /\ IsTree(table)
    /\ \A table \in InitialProducts :
          /\ table \in [Products -> Product \cup {None}]
          /\ \A x \in Stored(table) :
                SkusMatch(table[x]) /\ ImagesMatch(table[x]) /\ CodesFree(table, x, table[x].skus)
          /\ \A cats \in InitialCategories, x \in Stored(table) :
                table[x].category \in Stored(cats)

VARIABLES
    categories, \* ID -> None, Gone or a Category
    products,   \* code -> None or a Product
    locks,      \* row -> the thread that holds FOR UPDATE
    calls,      \* the request every thread is executing
    left        \* requests that may still be made

catalogVars == <<categories, products, locks, calls, left>>

\* rows: what the lock statement selects; seen and job belong to an import.
IdleCall == [pc |-> "idle", req |-> None, rows |-> {}, seen |-> None, job |-> None]

CatalogInit ==
    /\ categories \in InitialCategories
    /\ products \in InitialProducts
    /\ locks = [r \in Categories \cup Products |-> None]
    /\ calls = [p \in Procs |-> IdleCall]
    /\ left = MaxCalls

At(p, pc) == calls[p].pc = pc

Begin(p, pc, req, rows) ==
    /\ At(p, "idle") /\ left > 0
    /\ left' = left - 1
    /\ calls' = [calls EXCEPT ![p] = [IdleCall EXCEPT !.pc = pc, !.req = req, !.rows = rows]]

Goto(p, pc) == calls' = [calls EXCEPT ![p].pc = pc] /\ UNCHANGED left

Release(p) ==
    /\ locks' = [r \in DOMAIN locks |-> IF locks[r] = p THEN None ELSE locks[r]]
    /\ UNCHANGED left

\* Commit or rollback: the request is answered and its locks are released.
EndCall(p) == calls' = [calls EXCEPT ![p] = IdleCall] /\ Release(p)

Lock(p, rows) == locks' = [r \in DOMAIN locks |-> IF r \in rows THEN p ELSE locks[r]]

\* A locking statement, and every write, waits for the rows.
RowsFree(p, rows) == \A r \in rows : locks[r] \in {None, p}

\* A foreign key to r can be written: the check waits for a FOR UPDATE of r.
Referable(p, r) == r # None => locks[r] \in {None, p}

CategoryPresent(c) == c # None => c \in Stored(categories)

-----------------------------------------------------------------------------
(* Categories                                                                *)

CreateCategory(p, c, parent) ==
    /\ CategoryPresent(parent)
    /\ Begin(p, "category_create", [code |-> c, parent |-> parent], {})
    /\ UNCHANGED <<categories, products, locks>>

\* A category that exists and a parent deleted meanwhile are found by the constraints.
CreateCategoryCommit(p) ==
    LET c == calls[p].req.code
        parent == calls[p].req.parent IN
    /\ At(p, "category_create")
    /\ Referable(p, parent)
    /\ categories' = IF categories[c] = None /\ CategoryPresent(parent)
                     THEN [categories EXCEPT ![c] = [parent |-> parent, active |-> TRUE]]
                     ELSE categories
    /\ EndCall(p)
    /\ UNCHANGED products

\* Mutant: re-parenting locks nothing.
NoRows(c) == {}

\* "A deterministic table-wide row lock": every row the statement finds.
TableRows(c) == Stored(categories)

UpdateCategory(p, c, change) ==
    /\ c \in Stored(categories)
    /\ Begin(p, "category_lock", [code |-> c, change |-> change], TableRows(c))
    /\ UNCHANGED <<categories, products, locks>>

\* A category may become a top one, or a child of one that it is not above.
MayMove(c, parent) ==
    parent # None => parent \in Stored(categories) /\ c \notin Above(categories, parent)

\* The rows are read again once they are locked.
CategoryLock(p) ==
    LET c == calls[p].req.code
        change == calls[p].req.change IN
    /\ At(p, "category_lock")
    /\ RowsFree(p, calls[p].rows)
    /\ IF /\ c \in Stored(categories)
          /\ "parent" \in DOMAIN change => MayMove(c, change.parent)
       THEN Lock(p, calls[p].rows) /\ Goto(p, "category_commit")
       ELSE EndCall(p)
    /\ UNCHANGED <<categories, products>>

UpdateCategoryCommit(p) ==
    LET c == calls[p].req.code
        change == calls[p].req.change IN
    /\ At(p, "category_commit")
    /\ RowsFree(p, {c})
    /\ "parent" \in DOMAIN change => Referable(p, change.parent)
    /\ categories' = IF /\ c \in Stored(categories)
                        /\ "parent" \in DOMAIN change => CategoryPresent(change.parent)
                     THEN [categories EXCEPT ![c] = Over(change, @)]
                     ELSE categories
    /\ EndCall(p)
    /\ UNCHANGED products

InUse(c) ==
    \/ \E d \in Stored(categories) : categories[d].parent = c
    \/ \E x \in Stored(products) : products[x].category = c

DeleteCategory(p, c) ==
    /\ c \in Stored(categories)
    /\ RowsFree(p, {c})
    /\ ~InUse(c)
    /\ Begin(p, "category_delete", [code |-> c], {c})
    /\ Lock(p, {c})
    /\ UNCHANGED <<categories, products>>

\* Nothing can have begun to refer to the locked row.
DeleteCategoryCommit(p) ==
    /\ At(p, "category_delete")
    /\ categories' = [categories EXCEPT ![calls[p].req.code] = Gone]
    /\ EndCall(p)
    /\ UNCHANGED products

-----------------------------------------------------------------------------
(* Products                                                                  *)

\* Is some import between its lock statement and its commit about to write x?
ImportAhead(p, x) ==
    \E q \in Procs \ {p} :
        /\ calls[q].pc \in {"import_lock", "import_reparse", "import_select"}
        /\ x \in Affected(calls[q].req.workbook)

\* A product begins without images, so it cannot be created as published.
CreateProduct(p, x, input) ==
    LET skus == SyncedSkus(x, input.skus) IN
    /\ CategoryPresent(input.category)
    /\ ValidDocument(input.document)
    /\ skus # Refused /\ ReferencesResolve(input.document, skus)
    /\ input.status # "published"
    /\ Begin(p, "product_create",
             [code |-> x, row |-> Over([skus |-> skus, images |-> <<>>], input)], {})
    /\ UNCHANGED <<categories, products, locks>>

CreateProductCommit(p) ==
    LET x == calls[p].req.code
        row == calls[p].req.row IN
    /\ At(p, "product_create")
    /\ Referable(p, row.category)
    /\ ~LateCreation => ~ImportAhead(p, x)
    /\ products' = IF /\ products[x] = None /\ CategoryPresent(row.category)
                      /\ CodesFree(products, x, row.skus)
                   THEN [products EXCEPT ![x] = row]
                   ELSE products
    /\ EndCall(p)
    /\ UNCHANGED categories

\* What update_product makes of a stored row and the fields a request sets.
Updated(x, row, change) ==
    LET skus == IF "skus" \in DOMAIN change THEN SyncedSkus(x, change.skus) ELSE row.skus
    IN Over([skus |-> skus], Over(change, row))

\* The checks of the request by itself, then those of the row it results in.
Acceptable(x, change) ==
    LET row == Updated(x, products[x], change) IN
    /\ "document" \in DOMAIN change => ValidDocument(change.document)
    /\ CategoryPresent(row.category)
    /\ row.skus # Refused
    /\ ReferencesResolve(row.document, row.skus)
    /\ row.status = "published" => MayBePublished(categories[row.category].active, row.images)

\* Mutant: the row is read and validated without its lock.
UpdateProductUnlocked(p, x, change) ==
    /\ products[x] # None
    /\ Acceptable(x, change)
    /\ Begin(p, "product_commit", [code |-> x, change |-> change], {})
    /\ UNCHANGED <<categories, products, locks>>

UpdateProduct(p, x, change) ==
    /\ products[x] # None
    /\ RowsFree(p, {x})
    /\ Acceptable(x, change)
    /\ Begin(p, "product_commit", [code |-> x, change |-> change], {x})
    /\ Lock(p, {x})
    /\ UNCHANGED <<categories, products>>

\* Only the fields that were set are written; the category is protected by its
\* foreign key, not by a lock: it may have been deactivated or deleted.
UpdateProductCommit(p) ==
    LET x == calls[p].req.code
        change == calls[p].req.change IN
    /\ At(p, "product_commit")
    /\ RowsFree(p, {x})
    /\ "category" \in DOMAIN change => Referable(p, change.category)
    /\ products' = IF /\ products[x] # None
                      /\ "category" \in DOMAIN change => CategoryPresent(change.category)
                      /\ "skus" \in DOMAIN change =>
                            CodesFree(products, x, SyncedSkus(x, change.skus))
                   THEN [products EXCEPT ![x] = Updated(x, @, change)]
                   ELSE products
    /\ EndCall(p)
    /\ UNCHANGED categories

\* Mutant: the status is looked at before the row is locked.
DeleteProductUnlocked(p, x) ==
    /\ products[x] # None
    /\ products[x].status # "published"
    /\ Begin(p, "product_delete", [code |-> x], {})
    /\ UNCHANGED <<categories, products, locks>>

DeleteProduct(p, x) ==
    /\ products[x] # None
    /\ RowsFree(p, {x})
    /\ products[x].status # "published"
    /\ Begin(p, "product_delete", [code |-> x], {x})
    /\ Lock(p, {x})
    /\ UNCHANGED <<categories, products>>

\* A statement that waits for the row will not find it; a product created with the
\* same code later is another row.
DeleteProductCommit(p) ==
    /\ At(p, "product_delete")
    /\ RowsFree(p, {calls[p].req.code})
    /\ products' = [products EXCEPT ![calls[p].req.code] = None]
    /\ calls' = [q \in Procs |-> IF q = p THEN IdleCall
                    ELSE [calls[q] EXCEPT !.rows = @ \ {calls[p].req.code}]]
    /\ Release(p)
    /\ UNCHANGED categories

-----------------------------------------------------------------------------
(* Images of a product                                                       *)

FreshKeys == ObjectKeys \ UNION {DOMAIN products[x].images : x \in Stored(products)}

\* The capacity is looked at before the object is stored ...
UploadImage(p, x, role) ==
    /\ products[x] # None
    /\ HasCapacity(products[x].images, role)
    /\ Begin(p, "image_lock", [code |-> x, role |-> role], {x})
    /\ UNCHANGED <<categories, products, locks>>

\* Mutant: only before.
ImageLockUnchecked(p) ==
    /\ At(p, "image_lock")
    /\ RowsFree(p, calls[p].rows)
    /\ IF calls[p].req.code \in calls[p].rows
       THEN Lock(p, calls[p].rows) /\ Goto(p, "image_commit")
       ELSE EndCall(p)
    /\ UNCHANGED <<categories, products>>

\* ... and again under the lock.
ImageLock(p) ==
    LET x == calls[p].req.code IN
    /\ At(p, "image_lock")
    /\ RowsFree(p, {x})
    /\ IF x \in calls[p].rows /\ HasCapacity(products[x].images, calls[p].req.role)
       THEN Lock(p, {x}) /\ Goto(p, "image_commit")
       ELSE EndCall(p)
    /\ UNCHANGED <<categories, products>>

\* The unique index on covers.
OneCover(images) == Count(images, "cover") <= 1

\* Bound: a new object needs one of ObjectKeys.
UploadImageCommit(p) ==
    LET x == calls[p].req.code IN
    /\ At(p, "image_commit")
    /\ \E key \in FreshKeys :
          LET images == Over([k \in {key} |-> calls[p].req.role], products[x].images)
          IN products' = IF OneCover(images) THEN [products EXCEPT ![x].images = images]
                         ELSE products
    /\ EndCall(p)
    /\ UNCHANGED categories

DeleteImage(p, x, key) ==
    /\ products[x] # None /\ key \in DOMAIN products[x].images
    /\ RowsFree(p, {x})
    /\ ~(products[x].status = "published" /\ products[x].images[key] = "cover")
    /\ Begin(p, "image_delete", [code |-> x, key |-> key], {x})
    /\ Lock(p, {x})
    /\ UNCHANGED <<categories, products>>

DeleteImageCommit(p) ==
    LET x == calls[p].req.code
        images == products[x].images IN
    /\ At(p, "image_delete")
    /\ products' = [products EXCEPT ![x].images =
                        [k \in DOMAIN images \ {calls[p].req.key} |-> images[k]]]
    /\ EndCall(p)
    /\ UNCHANGED categories

-----------------------------------------------------------------------------

CategoryStep(p) ==
    \/ \E c \in Categories :
          \/ \E parent \in Categories \cup {None} : CreateCategory(p, c, parent)
          \/ \E change \in CategoryChanges : UpdateCategory(p, c, change)
          \/ DeleteCategory(p, c)
    \/ CreateCategoryCommit(p) \/ CategoryLock(p) \/ UpdateCategoryCommit(p)
    \/ DeleteCategoryCommit(p)

ProductStep(p) ==
    \/ \E x \in Products :
          \/ \E input \in ProductInputs : CreateProduct(p, x, input)
          \/ \E change \in ProductChanges : UpdateProduct(p, x, change)
          \/ DeleteProduct(p, x)
    \/ CreateProductCommit(p) \/ UpdateProductCommit(p) \/ DeleteProductCommit(p)

ImageStep(p) ==
    \/ \E x \in Products :
          \/ \E role \in DOMAIN Limits : UploadImage(p, x, role)
          \/ \E key \in ObjectKeys : DeleteImage(p, x, key)
    \/ ImageLock(p) \/ UploadImageCommit(p) \/ DeleteImageCommit(p)

CatalogStep(p) == CategoryStep(p) \/ ProductStep(p) \/ ImageStep(p)

-----------------------------------------------------------------------------

\* The category tree stays a tree, however re-parentings, creations and deletions
\* interleave, and no category or product refers to a category that is gone.
TreeIsAcyclic ==
    /\ IsTree(categories)
    /\ \A x \in Stored(products) : products[x].category \in Stored(categories)

\* A published product has exactly one cover and no product has more images of
\* a role than its limit: uploads, deletions, publications and imports race.
ImageContract == \A x \in Stored(products) : ImagesMatch(products[x])

\* The attributes of stored SKUs refer to the stored document and exactly one
\* active SKU is the default, although a request may bring only one of the two
\* and an import merges them with what is stored. A code names one SKU.
SkusMatchSpecifications ==
    \A x \in Stored(products) :
        SkusMatch(products[x]) /\ CodesFree(products, x, products[x].skus)

\* A product leaves the catalog only from a state in which it is not published.
PublishedNeverDeleted ==
    [][\A x \in Products :
        products[x] # None /\ products[x].status = "published" => products'[x] # None]_products

=============================================================================
