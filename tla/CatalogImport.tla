---------------------------- MODULE CatalogImport ----------------------------
(* import_catalog (backend/app/services/catalog_excel.py) beside the requests *)
(* of Catalog: an import records a job under the administrator's idempotency  *)
(* key, validates the workbook, locks the products it names, validates again, *)
(* and applies everything with the job's completion in one transaction. A     *)
(* worker fails the jobs whose lease has run out, whether or not their import *)
(* is still running.                                                          *)
EXTENDS Catalog, Functions

CONSTANTS
    Imports,    \* the import requests: [key (or None), workbook, dry]
    Jobs        \* bound: import jobs that can be recorded

\* The rows of import_jobs; applied counts the transactions that stored the workbook.
Job == [req : Imports, status : {"pending", "validated", "completed", "failed"}, applied : Nat]

\* A workbook gives a product one row, a SKU code one row and an image key one
\* row, and staged objects have keys of their own.
ASSUME CatalogImportAssumption ==
    /\ None \notin Job /\ Gone \notin Job
    /\ \A req \in Imports :
          LET w == req.workbook IN
          /\ DOMAIN req = {"key", "workbook", "dry"} /\ req.dry \in BOOLEAN
          /\ Affected(w) \subseteq Products
          /\ \A x \in DOMAIN w.rows :
                w.rows[x] \in [status : Statuses, category : Categories, document : Documents]
          /\ \A x \in DOMAIN w.skus : w.skus[x] \in Seq(Sku)
          /\ IsFiniteSet(w.images)
          /\ \A r \in w.images :
                /\ r.role \in Roles /\ r.staged \in BOOLEAN
                /\ r.staged => r.key \notin ObjectKeys
                /\ \A other \in w.images : other.key = r.key => other = r

VARIABLE jobs   \* job -> None or [req, status, applied]

vars == <<categories, products, locks, calls, left, jobs>>

\* Mutant: a job begins with a status that the table does not know.
NewJobQueued(req) == [req |-> req, status |-> "queued", applied |-> 0]

NewJob(req) == [req |-> req, status |-> "pending", applied |-> 0]

Init == CatalogInit /\ jobs = [j \in Jobs |-> None]

WithKey(key) == {j \in Stored(jobs) : key # None /\ jobs[j].req.key = key}

-----------------------------------------------------------------------------
(* The job and its idempotency key                                           *)

\* A key that is taken answers with its job, as _resolve_idempotent_import does:
\* nothing is imported.
Import(p, req) ==
    /\ WithKey(req.key) = {}
    /\ Begin(p, "import_insert", req, {})
    /\ UNCHANGED <<categories, products, locks, jobs>>

\* Mutant: no unique index on creator and key.
NotIndexed(req) == TRUE

Insertable(req) == WithKey(req.key) = {}

ImportInsert(p) ==
    LET req == calls[p].req IN
    /\ At(p, "import_insert")
    /\ \E j \in Jobs \ Stored(jobs) :
          /\ Insertable(req)
          /\ jobs' = [jobs EXCEPT ![j] = NewJob(req)]
          /\ calls' = [calls EXCEPT ![p].pc = "import_parse", ![p].job = j]
    /\ UNCHANGED <<categories, products, locks, left>>

\* IntegrityError: the request answers for the job that won.
ImportInsertConflict(p) ==
    /\ At(p, "import_insert")
    /\ ~Insertable(calls[p].req)
    /\ EndCall(p)
    /\ UNCHANGED <<categories, products, jobs>>

-----------------------------------------------------------------------------
(* Reading a workbook against the catalog                                    *)

\* The row a workbook results in. Its SKU rows alone keep the rest as it is seen.
FinalRow(x, seen, workbook) ==
    LET stored == IF seen = None THEN [skus |-> <<>>, images |-> <<>>] ELSE seen
        incoming == IF x \in DOMAIN workbook.skus THEN workbook.skus[x] ELSE <<>>
    IN IF x \in DOMAIN workbook.rows
       THEN Over([skus |-> FinalSkus(x, stored.skus, incoming), images |-> stored.images],
                 workbook.rows[x])
       ELSE IF x \in DOMAIN workbook.skus
       THEN [stored EXCEPT !.skus = FinalSkus(x, @, incoming)]
       ELSE stored

\* _parse_products and ProductCreate for a row of the Products sheet, or for a
\* product known only by its SKU rows.
RowParses(x, workbook) ==
    LET row == FinalRow(x, products[x], workbook) IN
    /\ x \notin DOMAIN workbook.rows => products[x] # None
    /\ row.skus # Refused
    /\ ValidDocument(row.document)
    /\ ReferencesResolve(row.document, row.skus)
    /\ CodesFree(products, x, row.skus)
    /\ x \in DOMAIN workbook.rows =>
          /\ CategoryPresent(row.category)
          /\ row.status = "published" => categories[row.category].active

Owners(key) == {x \in Stored(products) : key \in DOMAIN products[x].images}

\* An image row names a staged object or one attached to its own product. (What
\* the storage holds beyond that is the subject of ObjectOutbox.)
ImageRowParses(r, workbook) ==
    /\ r.code \in DOMAIN workbook.rows \cup Stored(products)
    /\ ~r.staged => Owners(r.key) = {r.code}

RolesAfter(x, workbook) ==
    FinalRoles(x, IF products[x] = None THEN <<>> ELSE products[x].images, workbook.images)

\* _validate_image_limits.
ImagesParse(x, workbook) ==
    LET images == RolesAfter(x, workbook)
        status == IF x \in DOMAIN workbook.rows THEN workbook.rows[x].status
                  ELSE products[x].status IN
    /\ WithinLimits(images)
    /\ status = "published" => Count(images, "cover") = 1

Parses(workbook) ==
    /\ \A x \in DOMAIN workbook.rows \cup DOMAIN workbook.skus : RowParses(x, workbook)
    /\ \A r \in workbook.images : ImageRowParses(r, workbook)
    /\ \A x \in Affected(workbook) : ImagesParse(x, workbook)

-----------------------------------------------------------------------------
(* The import                                                                *)

SetStatus(j, status) == jobs' = [jobs EXCEPT ![j].status = status]

\* _fail_import_job: whatever was staged is rolled back.
Fail(p) ==
    /\ SetStatus(calls[p].job, "failed")
    /\ EndCall(p)
    /\ UNCHANGED <<categories, products>>

\* The first pass; the promotion intents are committed before any lock is asked
\* for, and the lock statement finds the named products that exist by now.
ImportParse(p) ==
    LET workbook == calls[p].req.workbook IN
    /\ At(p, "import_parse")
    /\ Parses(workbook)
    /\ ~calls[p].req.dry
    /\ calls' = [calls EXCEPT ![p].pc = "import_lock",
                              ![p].rows = Affected(workbook) \cap Stored(products)]
    /\ UNCHANGED <<categories, products, locks, left, jobs>>

ImportParseFails(p) ==
    /\ At(p, "import_parse")
    /\ ~Parses(calls[p].req.workbook)
    /\ Fail(p)

ImportDryRun(p) ==
    /\ At(p, "import_parse")
    /\ Parses(calls[p].req.workbook)
    /\ calls[p].req.dry
    /\ SetStatus(calls[p].job, "validated")
    /\ EndCall(p)
    /\ UNCHANGED <<categories, products>>

ImportLock(p) ==
    /\ At(p, "import_lock")
    /\ RowsFree(p, calls[p].rows)
    /\ Lock(p, calls[p].rows)
    /\ Goto(p, "import_reparse")
    /\ UNCHANGED <<categories, products, jobs>>

\* The second pass decides what will be written.
ImportReparse(p) ==
    LET workbook == calls[p].req.workbook IN
    /\ At(p, "import_reparse")
    /\ IF Parses(workbook)
       THEN /\ calls' = [calls EXCEPT ![p].pc = "import_select",
                                      ![p].seen = [x \in Affected(workbook) |-> products[x]]]
            /\ UNCHANGED <<categories, products, locks, left, jobs>>
       ELSE Fail(p)

\* Staged objects are copied to fresh keys.
Copied(images, copies) ==
    {[code |-> r.code, key |-> IF r.staged THEN copies[r.key] ELSE r.key, role |-> r.role] :
        r \in images}

\* What is stored for x: the fields that the second pass computed, and the image
\* rows over the images x has now.
Applied(x, seen, workbook, copies) ==
    LET now == IF products[x] = None THEN <<>> ELSE products[x].images
        written == IF x \in DOMAIN workbook.rows \cup DOMAIN workbook.skus
                   THEN FinalRow(x, seen, workbook) ELSE products[x]
    IN [written EXCEPT !.images = FinalRoles(x, now, Copied(workbook.images, copies))]

StagedKeys(workbook) == {r.key : r \in {s \in workbook.images : s.staged}}

\* Every image row finds its product: written by the workbook, or stored.
OwnersFound(workbook) ==
    \A r \in workbook.images :
        r.code \in DOMAIN workbook.rows \cup DOMAIN workbook.skus \cup Stored(products)

\* A category that a row does not refer to yet is referred to by a foreign key.
ReferencesFree(p, table) ==
    \A x \in Stored(table) :
        \/ x \in Stored(products) /\ products[x].category = table[x].category
        \/ Referable(p, table[x].category)

\* The constraints of the database, and the categories that must still be there.
Storable(table) ==
    \A x \in Stored(table) :
        /\ CategoryPresent(table[x].category)
        /\ OneCover(table[x].images)
        /\ CodesFree(table, x, table[x].skus)

\* _apply_import selects the rows again, FOR UPDATE, and commits with the job. A
\* row that was not there when the locks were taken is picked up here.
ImportApply(p) ==
    LET workbook == calls[p].req.workbook
        j == calls[p].job IN
    /\ At(p, "import_select")
    /\ RowsFree(p, Affected(workbook))
    /\ \A x \in Affected(workbook) : products[x] = None /\ ~LateCreation => ~ImportAhead(p, x)
    /\ IF OwnersFound(workbook)
       THEN \E copies \in Injection(StagedKeys(workbook), FreshKeys) :
               LET table == [x \in Products |->
                                 IF x \in Affected(workbook)
                                 THEN Applied(x, calls[p].seen[x], workbook, copies)
                                 ELSE products[x]] IN
               /\ ReferencesFree(p, table)
               /\ IF Storable(table)
                  THEN /\ products' = table
                       /\ jobs' = [jobs EXCEPT ![j].status = "completed", ![j].applied = @ + 1]
                       /\ EndCall(p)
                       /\ UNCHANGED categories
                  ELSE Fail(p)
       ELSE Fail(p)

\* The object storage is not available while the workbook is read or applied.
ImportStorageFails(p) ==
    /\ \E pc \in {"import_parse", "import_reparse", "import_select"} : At(p, pc)
    /\ calls[p].req.workbook.images # {}
    /\ Fail(p)

ImportStep(p) ==
    \/ \E req \in Imports : Import(p, req)
    \/ ImportInsert(p) \/ ImportInsertConflict(p)
    \/ ImportParse(p) \/ ImportParseFails(p) \/ ImportDryRun(p)
    \/ ImportLock(p) \/ ImportReparse(p) \/ ImportApply(p) \/ ImportStorageFails(p)

\* Mutant: the worker does not look at the status of the job.
RecoverAny(j) ==
    /\ jobs[j] # None
    /\ SetStatus(j, "failed")
    /\ UNCHANGED catalogVars

\* recover_stale_import_jobs: the lease is over; the import may still run.
Recover(j) ==
    /\ jobs[j] # None /\ jobs[j].status = "pending"
    /\ SetStatus(j, "failed")
    /\ UNCHANGED catalogVars

\* A worker process dies: its transaction is rolled back.
Crash(p) ==
    /\ ~At(p, "idle")
    /\ EndCall(p)
    /\ UNCHANGED <<categories, products, jobs>>

\* Bound: no request is left to be made.
Done ==
    /\ left = 0
    /\ \A p \in Procs : At(p, "idle")
    /\ UNCHANGED vars

Next ==
    \/ \E p \in Procs : CatalogStep(p) /\ UNCHANGED jobs
    \/ \E p \in Procs : ImportStep(p) \/ Crash(p)
    \/ \E j \in Jobs : Recover(j)
    \/ Done

Spec == Init /\ [][Next]_vars

-----------------------------------------------------------------------------

TypeOK ==
    /\ categories \in [Categories -> Category \cup {None, Gone}]
    /\ products \in [Products -> Product \cup {None}]
    /\ locks \in [Categories \cup Products -> Procs \cup {None}]
    /\ left \in 0..MaxCalls
    /\ jobs \in [Jobs -> Job \cup {None}]

\* One idempotency key is imported at most once, however often its request is
\* repeated, at once or after a failure nobody heard of.
ImportAppliedOnce ==
    \A key \in {r.key : r \in Imports} \ {None} :
        /\ Cardinality(WithKey(key)) <= 1
        /\ \A j \in WithKey(key) : jobs[j].applied <= 1

\* A job says completed exactly when its workbook was stored; a dry run never
\* stores anything. Failure and the end of the lease cannot hide an import.
JobTellsTruth ==
    \A j \in Stored(jobs) :
        /\ jobs[j].status = "completed" <=> jobs[j].applied > 0
        /\ jobs[j].req.dry => jobs[j].applied = 0

\* "Reparse while the affected product locks are held so image/SKU validation
\* observes the final state": what an import overwrites is what it validated.
ValidationObservesFinalState ==
    [][\A p \in Procs :
        At(p, "import_select") /\ products' # products /\ calls'[p].pc = "idle" =>
            \A x \in Affected(calls[p].req.workbook) : products[x] = calls[p].seen[x]]_vars

=============================================================================
