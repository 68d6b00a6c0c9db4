----------------------------- MODULE OutboxProofs -----------------------------
(* Proofs about ObjectOutbox, for every set of threads, workers, keys and job  *)
(* rows, every choice of who may die, and every quota.                        *)
EXTENDS ObjectOutbox, FiniteSetTheorems, TLAPS

-----------------------------------------------------------------------------
(* The invariants                                                            *)

\* The steps at which the key of a call will still be stored or referred to, those
\* at which it is given up, and those at which a job is being run.
Storing == {"put", "attach", "copy", "promote"}
Bringing == Storing \cup {"stage_put"}
GivingUp == {"abandon", "requeue", "import_failed"}
Cleaners == {"check", "delete", "done", "failed"}

CallFits(c) ==
    /\ c.pc \in Bringing \cup GivingUp \cup Cleaners => c.job \in Slots
    /\ c.pc \in Bringing \cup {"reattach"} => c.key \in Keys
    /\ c.pc \in Storing => c.key \notin StagedKeys
    /\ c.pc = "stage_put" => c.key \in StagedKeys
    /\ c.pc = "reattach" => c.key \in Reattach
    /\ c.pc \in {"copy", "promote"} => c.source \in StagedKeys
    /\ c.pc \in {"idle", "stage", "reattach"} => c.todo = {} /\ c.job = None

Fitting == \A p \in Procs : CallFits(calls[p])

Intended(k, staged) ==
    IF staged THEN [Row(k, "pending", FALSE) EXCEPT !.expiry = TRUE] ELSE Row(k, "intent", FALSE)

\* While q brings an object in, the row it has committed for it is its own and not
\* due, no other row that matters has the key, and nobody else knows it.
Owns(q) ==
    LET k == calls[q].key
        j == calls[q].job IN
    calls[q].pc \in Bringing =>
        /\ k \notin refs \cup shown
        /\ jobs[j] = Intended(k, At(q, "stage_put"))
        /\ \A p \in Procs \ {q} : j \notin Held(p) /\ k \notin {calls[p].key, calls[p].source}
        /\ \A i \in Slots \ {j} : jobs[i].key = k => i \in Free
        /\ At(q, "stage_put") => k \notin objects
        /\ calls[q].pc \in {"attach", "promote"} => k \in objects

\* An open job that nobody is about to complete.
Covered(k) == \E j \in OpenJobs(k) : \A p \in Procs : At(p, "done") => calls[p].job # j

OutboxInv ==
    /\ TypeOK /\ Fitting
    /\ Prompt => /\ \A q \in Procs : Owns(q)
                 /\ \A k \in objects \ refs : Covered(k)

\* What a run is about to delete is not referred to, nor will it be.
Deletable(p) == At(p, "delete") => jobs[calls[p].job].key \notin refs

AttachInv == refs \subseteq objects /\ \A p \in Procs : Deletable(p)

\* A completed row is only opened again by those who never worked on a staged key.
Harmless(p) ==
    LET c == calls[p] IN
    /\ c.pc = "stage" => quota = p /\ Cardinality(ExpiryJobs) < Quota
    /\ c.pc \in Storing \cup GivingUp => ~jobs[c.job].expiry
    /\ ~c.claimed => \A j \in c.todo : ~jobs[j].expiry
    /\ c.pc # "failed"

QuotaInv == StagingWithinQuota /\ \A p \in Procs : Harmless(p)

-----------------------------------------------------------------------------
(* Rows and calls                                                            *)

JobRow == [status : Open \cup {"completed"}, key : Keys \cup {None}, due : BOOLEAN, expiry : BOOLEAN]
JobTable == [Slots -> JobRow]

Pcs == {"idle", "put", "attach", "abandon", "requeue", "stage", "stage_put", "copy", "promote",
        "import_failed", "reattach", "run", "check", "delete", "done", "failed"}
Call == [pc : Pcs, key : Keys \cup {None}, job : Slots \cup {None}, source : Keys \cup {None},
         todo : SUBSET Slots, claimed : BOOLEAN]

LEMMA TypeIs ==
    TypeOK <=> /\ objects \subseteq Keys /\ refs \subseteq Keys /\ shown \subseteq Reattach
               /\ jobs \in JobTable /\ quota \in Threads \cup {None}
               /\ calls \in [Procs -> Call]
BY DEF TypeOK, JobTable, JobRow, Call, Pcs

LEMMA TypeIsNext ==
    TypeOK' <=> /\ objects' \subseteq Keys /\ refs' \subseteq Keys /\ shown' \subseteq Reattach
                /\ jobs' \in JobTable /\ quota' \in Threads \cup {None}
                /\ calls' \in [Procs -> Call]
BY DEF TypeOK, JobTable, JobRow, Call, Pcs

LEMMA RowIs ==
    ASSUME NEW k \in Keys, NEW status \in Open, NEW due \in BOOLEAN
    PROVE  Row(k, status, due) \in JobRow
BY DEF Row, JobRow

LEMMA RewrittenIs ==
    ASSUME NEW row \in JobRow
    PROVE  /\ Completed(row) \in JobRow /\ Requeued(row) \in JobRow
           /\ [row EXCEPT !.status = "processing", !.due = FALSE] \in JobRow
           /\ [row EXCEPT !.status = "failed", !.due = FALSE] \in JobRow
           /\ [row EXCEPT !.due = TRUE] \in JobRow
BY DEF JobRow, Completed, Requeued, Open

LEMMA IdleIs == IdleCall \in Call /\ CallFits(IdleCall)
BY DEF IdleCall, Call, Pcs, CallFits, Bringing, Storing, GivingUp, Cleaners

\* A row for each key in a free slot of its own, the other rows as they were.
LEMMA EnqueuedIs ==
    ASSUME NEW keys \in SUBSET Keys, NEW slotOf \in Placements(keys), NEW table \in JobTable
    PROVE  /\ Enqueued(table, slotOf) \in JobTable
           /\ \A k \in keys : slotOf[k] \in Free /\ Enqueued(table, slotOf)[slotOf[k]] = Row(k, "pending", TRUE)
           /\ \A j \in Slots : \/ \E k \in keys : slotOf[k] = j
                               \/ Enqueued(table, slotOf)[j] = table[j]
<1>1. slotOf \in [keys -> Free] /\ DOMAIN slotOf = keys
      /\ \A k1, k2 \in keys : slotOf[k1] = slotOf[k2] => k1 = k2
  BY DEF Placements
<1>2. Free \subseteq Slots
  BY DEF Free
<1>3. ASSUME NEW k \in keys
      PROVE  Enqueued(table, slotOf)[slotOf[k]] = Row(k, "pending", TRUE)
  <2> DEFINE chosen == CHOOSE l \in keys : slotOf[l] = slotOf[k]
  <2>1. chosen \in keys /\ slotOf[chosen] = slotOf[k]
    OBVIOUS
  <2>2. chosen = k
    BY <1>1, <2>1
  <2>3. Enqueued(table, slotOf)[slotOf[k]] = Row(chosen, "pending", TRUE)
    BY <1>1, <1>2 DEF Enqueued
  <2> QED
    BY <2>2, <2>3
<1>4. ASSUME NEW j \in Slots, \A k \in keys : slotOf[k] # j
      PROVE  Enqueued(table, slotOf)[j] = table[j]
  BY <1>1, <1>4 DEF Enqueued
<1>5. ASSUME NEW j \in Slots PROVE Enqueued(table, slotOf)[j] \in JobRow
  <2>1. CASE \E k \in keys : slotOf[k] = j
    <3>1. PICK k \in keys : slotOf[k] = j
      BY <2>1
    <3>2. Row(k, "pending", TRUE) \in JobRow
      BY RowIs DEF Open
    <3> QED
      BY <1>3, <3>1, <3>2
  <2>2. CASE \A k \in keys : slotOf[k] # j
    BY <1>4, <2>2 DEF JobTable
  <2> QED
    BY <2>1, <2>2
<1>6. Enqueued(table, slotOf) = [j \in Slots |-> Enqueued(table, slotOf)[j]]
  BY DEF Enqueued
<1>7. Enqueued(table, slotOf) \in JobTable
  BY <1>5, <1>6 DEF JobTable
<1> QED
  BY <1>1, <1>3, <1>4, <1>7

-----------------------------------------------------------------------------
(* Steps                                                                     *)

Basic == TypeOK /\ Fitting

\* A step of p leaves the calls of the others alone.
Alone(p) == \A q \in Procs \ {p} : calls'[q] = calls[q]

SameUse(i) == jobs'[i].key = jobs[i].key /\ jobs'[i].expiry = jobs[i].expiry

\* May be taken by a worker or an administrator.
Takeable(i) == jobs[i].status \in Open /\ (jobs[i].due \/ jobs[i].status = "failed")

\* An expiry that a cancellation or an import ends.
Endable(p, i) ==
    i \in ExpiryJobs /\ (jobs[i].key = calls[p].source \/ (Prompt => ~BeingStaged(jobs[i].key)))

\* What a step of p may do at all. It writes rows that it holds or may take, ends
\* expiries, and uses free rows for the keys in K.
Respects(p, K) ==
    /\ Alone(p)
    /\ \A i \in Slots : \/ jobs'[i] = jobs[i]
                        \/ i \in Free /\ jobs'[i].key \in K
                        \/ SameUse(i) /\ (i \in Held(p) \/ Takeable(i) \/ Endable(p, i))
    /\ \A i \in Slots : i \in Held(p)' => \/ i \in Held(p) \/ Takeable(i)
                                          \/ i \in Free /\ jobs'[i].key \in K
    /\ calls'[p].key \in {calls[p].key, None} \cup K \cup shown
    /\ calls'[p].source \in {calls[p].source, None} \cup K
    /\ refs' \cup shown' \subseteq refs \cup shown \cup {calls[p].key}
    /\ \A k \in Keys : \/ k \in objects' <=> k \in objects
                       \/ k = calls[p].key
                       \/ At(p, "delete") /\ k = jobs[calls[p].job].key

\* Nobody else brings in one of the keys.
Unowned(p, K) == \A q \in Procs \ {p} : calls[q].pc \in Bringing => calls[q].key \notin K

LEMMA CallMoves ==
    ASSUME Basic, NEW p \in Procs, NEW c \in Call, CallFits(c), calls' = [calls EXCEPT ![p] = c]
    PROVE  /\ calls' \in [Procs -> Call] /\ Fitting'
           /\ calls'[p] = c /\ Alone(p)
<1>1. calls \in [Procs -> Call] /\ Fitting
  BY TypeIs DEF Basic
<1>2. calls' \in [Procs -> Call] /\ calls'[p] = c /\ Alone(p)
  BY <1>1 DEF Alone
<1>3. ASSUME NEW q \in Procs PROVE CallFits(calls'[q])
  BY <1>1, <1>2 DEF Fitting, Alone
<1> QED
  BY <1>2, <1>3 DEF Fitting

\* Others' calls and rows survive: a row somebody else holds keeps its key.
LEMMA HeldKeep ==
    ASSUME NEW p \in Procs, NEW K, Respects(p, K), NEW q \in Procs, NEW i \in Slots, i \in Held(q)
    PROVE  SameUse(i)
<1>1. i \notin Free
  BY DEF Free
<1> QED
  BY <1>1 DEF Respects, SameUse

\* While q brings its object in, no step of another thread disturbs it.
LEMMA OwnsStays ==
    ASSUME Basic, Prompt, NEW p \in Procs, NEW q \in Procs \ {p}, Owns(q), calls[q].pc \in Bringing,
           NEW K, Respects(p, K), calls[q].key \notin K, TypeOK'
    PROVE  Owns(q)'
<1> DEFINE k == calls[q].key
           j == calls[q].job
           jj == calls'[q].job
           kk == calls'[q].key
<1>1. /\ k \notin refs \cup shown
      /\ jobs[j] = Intended(k, At(q, "stage_put"))
      /\ \A r \in Procs \ {q} : j \notin Held(r) /\ k \notin {calls[r].key, calls[r].source}
      /\ \A i \in Slots \ {j} : jobs[i].key = k => i \in Free
      /\ At(q, "stage_put") => k \notin objects
      /\ calls[q].pc \in {"attach", "promote"} => k \in objects
  BY DEF Owns
<1>2. j \in Slots /\ k \in Keys /\ k # None
  BY TypeIs, OutboxAssumption DEF Basic, Fitting, CallFits
<1>3. calls'[q] = calls[q] /\ jj = j /\ kk = k
  BY DEF Respects, Alone
<1>4. /\ jobs[j].key = k /\ jobs[j].status \in Open \ {"failed"} /\ ~jobs[j].due
      /\ jobs[j].expiry <=> At(q, "stage_put")
  BY <1>1 DEF Intended, Row, Open
<1>5. j \notin Free /\ ~Takeable(j) /\ ~Endable(p, j) /\ j \notin Held(p)
  BY <1>1, <1>4 DEF Free, Takeable, Endable, BeingStaged, ExpiryJobs, Open
<1>6. jobs'[j] = jobs[j] /\ j \notin Held(p)'
  BY <1>2, <1>5 DEF Respects
<1>7. ASSUME NEW r \in Procs \ {q} PROVE j \notin Held(r)' /\ k \notin {calls'[r].key, calls'[r].source}
  <2>1. CASE r = p
    BY <1>1, <1>2, <1>6, <2>1 DEF Respects
  <2>2. CASE r # p
    BY <1>1, <2>2 DEF Respects, Alone, Held
  <2> QED
    BY <2>1, <2>2
<1>8. ASSUME NEW i \in Slots \ {j}, jobs'[i].key = k PROVE i \in Free'
  <2>1. jobs[i].key = k /\ i \in Free
    BY <1>1, <1>8 DEF Respects, SameUse
  <2>2. ~Takeable(i) /\ ~Endable(p, i) /\ \A r \in Procs : i \notin Held(r)
    BY <2>1 DEF Free, Takeable, Endable, ExpiryJobs, Open
  <2>3. jobs'[i] = jobs[i] /\ i \notin Held(p)'
    BY <1>8, <2>1, <2>2 DEF Respects
  <2>4. \A r \in Procs \ {p} : i \notin Held(r)'
    BY <2>2 DEF Respects, Alone, Held
  <2> QED
    BY <2>1, <2>3, <2>4 DEF Free
<1>9. k \notin refs' \cup shown'
  BY <1>1, <1>2 DEF Respects
<1>10. k \in objects' <=> k \in objects
  <2>1. k # calls[p].key
    BY <1>1
  <2>2. ASSUME At(p, "delete"), k = jobs[calls[p].job].key PROVE FALSE
    <3>1. calls[p].job \in Slots /\ calls[p].job \in Held(p)
      BY <2>2, OutboxAssumption DEF Basic, Fitting, CallFits, At, Cleaners, Held
    <3>2. calls[p].job # j /\ calls[p].job \notin Free
      BY <1>1, <3>1 DEF Free
    <3> QED
      BY <1>1, <2>2, <3>1, <3>2
  <2> QED
    BY <1>2, <2>1, <2>2 DEF Respects
<1> QED
  BY <1>1, <1>3, <1>6, <1>7, <1>8, <1>9, <1>10 DEF Owns, At, Intended, Row

\* A job that covers a key goes on covering it unless it ends or is about to.
LEMMA CoverStays ==
    ASSUME NEW p \in Procs, Alone(p), NEW k, Covered(k),
           \A j \in OpenJobs(k) : ~(At(p, "done") /\ calls[p].job = j) =>
               /\ jobs'[j].status \in Open /\ jobs'[j].key = k
               /\ ~(calls'[p].pc = "done" /\ calls'[p].job = j)
    PROVE  Covered(k)'
<1>1. PICK j \in OpenJobs(k) : \A q \in Procs : At(q, "done") => calls[q].job # j
  BY DEF Covered
<1>2. j \in Slots /\ jobs'[j].status \in Open /\ jobs'[j].key = k /\ ~(calls'[p].pc = "done" /\ calls'[p].job = j)
  BY <1>1 DEF OpenJobs
<1>3. \A q \in Procs : calls'[q].pc = "done" => calls'[q].job # j
  BY <1>1, <1>2 DEF Alone, At
<1> QED
  BY <1>2, <1>3 DEF Covered, OpenJobs, At

\* A new row covers its key.
LEMMA CoverNew ==
    ASSUME Basic, NEW p \in Procs, Alone(p), NEW k, NEW i \in Free,
           jobs'[i].key = k, jobs'[i].status \in Open, calls'[p].pc # "done"
    PROVE  Covered(k)'
<1>1. i \in Slots /\ \A q \in Procs : i \notin Held(q)
  BY DEF Free
<1>2. ASSUME NEW q \in Procs, calls'[q].pc = "done" PROVE calls'[q].job # i
  <2>1. q # p /\ calls'[q] = calls[q]
    BY <1>2 DEF Alone
  <2>2. calls[q].job # i
    BY <1>1, OutboxAssumption DEF Held
  <2> QED
    BY <2>1, <2>2
<1> QED
  BY <1>1, <1>2 DEF Covered, OpenJobs, At

-----------------------------------------------------------------------------
(* How calls move                                                            *)

Moved(p, c) == calls' \in [Procs -> Call] /\ Fitting' /\ Alone(p) /\ calls'[p] = c

Running(todo, claimed) ==
    IF todo = {} THEN IdleCall ELSE [IdleCall EXCEPT !.pc = "run", !.todo = todo, !.claimed = claimed]

LEMMA CallIs ==
    ASSUME Basic, NEW p \in Procs
    PROVE  /\ calls[p] \in Call /\ CallFits(calls[p])
           /\ calls[p] = [pc |-> calls[p].pc, key |-> calls[p].key, job |-> calls[p].job,
                          source |-> calls[p].source, todo |-> calls[p].todo,
                          claimed |-> calls[p].claimed]
<1>1. calls[p] \in Call /\ CallFits(calls[p])
  BY TypeIs DEF Basic, Fitting
<1> QED
  BY <1>1 DEF Call

LEMMA GotoMoves ==
    ASSUME Basic, NEW p \in Procs, NEW pc \in Pcs, Goto(p, pc),
           CallFits([calls[p] EXCEPT !.pc = pc])
    PROVE  Moved(p, [calls[p] EXCEPT !.pc = pc])
<1> DEFINE c == [calls[p] EXCEPT !.pc = pc]
<1>1. c \in Call
  BY CallIs DEF Call
<1>2. calls' = [calls EXCEPT ![p] = c]
  BY DEF Goto
<1> HIDE DEF c
<1>3. CallFits(c)
  BY DEF c
<1>4. Moved(p, c)
  BY <1>1, <1>2, <1>3, CallMoves DEF Moved
<1> QED
  BY <1>4 DEF c

LEMMA EndMoves ==
    ASSUME Basic, NEW p \in Procs, EndCall(p)
    PROVE  Moved(p, IdleCall)
BY IdleIs, CallMoves DEF EndCall, Moved

LEMMA RunningIs ==
    ASSUME NEW todo \in SUBSET Slots, NEW claimed \in BOOLEAN
    PROVE  Running(todo, claimed) \in Call /\ CallFits(Running(todo, claimed))
BY IdleIs DEF Running, IdleCall, Call, Pcs, CallFits, Bringing, Storing, GivingUp, Cleaners

LEMMA RunMoves ==
    ASSUME Basic, NEW p \in Procs, NEW todo \in SUBSET Slots, NEW claimed \in BOOLEAN,
           Run(p, todo, claimed)
    PROVE  Moved(p, Running(todo, claimed))
<1>1. calls' = [calls EXCEPT ![p] = Running(todo, claimed)]
  BY DEF Run, Running
<1> QED
  BY <1>1, RunningIs, CallMoves DEF Moved

\* What an idle or running call holds, and that it is about no key.
LEMMA RunningHolds ==
    ASSUME NEW p \in Procs, NEW todo \in SUBSET Slots, NEW claimed \in BOOLEAN,
           Moved(p, Running(todo, claimed))
    PROVE  /\ calls'[p].key = None /\ calls'[p].source = None
           /\ calls'[p].pc \in {"idle", "run"} /\ calls'[p].job = None
           /\ calls'[p].todo = todo /\ Held(p)' = todo
           /\ todo # {} => calls'[p].claimed = claimed
<1> DEFINE c == Running(todo, claimed)
<1>1. /\ c.key = None /\ c.source = None /\ c.pc \in {"idle", "run"} /\ c.job = None
      /\ c.todo = todo /\ (todo # {} => c.claimed = claimed)
  BY DEF Running, IdleCall
<1>2. calls'[p] = c
  BY DEF Moved
<1> HIDE DEF c
<1>3. Held(p)' = todo
  BY <1>1, <1>2 DEF Held
<1> QED
  BY <1>1, <1>2, <1>3

LEMMA IdleHolds ==
    ASSUME NEW p \in Procs, Moved(p, IdleCall)
    PROVE  /\ calls'[p].key = None /\ calls'[p].source = None
           /\ calls'[p].pc = "idle" /\ calls'[p].job = None
           /\ calls'[p].todo = {} /\ Held(p)' = {}
BY DEF Moved, IdleCall, Held

\* Only the step counter moves: the call is about the same key and rows.
LEMMA GotoHolds ==
    ASSUME Basic, NEW p \in Procs, NEW pc, Moved(p, [calls[p] EXCEPT !.pc = pc])
    PROVE  /\ calls'[p].key = calls[p].key /\ calls'[p].source = calls[p].source
           /\ calls'[p].pc = pc /\ calls'[p].job = calls[p].job
           /\ calls'[p].todo = calls[p].todo /\ calls'[p].claimed = calls[p].claimed
           /\ Held(p)' = Held(p)
<1>1. calls'[p] = [calls[p] EXCEPT !.pc = pc]
  BY DEF Moved
<1> QED
  BY <1>1, CallIs DEF Held

-----------------------------------------------------------------------------
(* What is enough for the invariant of the outbox                            *)

LEMMA StepSound ==
    ASSUME OutboxInv, NEW p \in Procs, TypeOK', Fitting', NEW K, Respects(p, K),
           Prompt => /\ Unowned(p, K) /\ Owns(p)'
                     /\ \A k \in objects' \ refs' : Covered(k)'
    PROVE  OutboxInv'
<1>1. ASSUME Prompt, NEW q \in Procs PROVE Owns(q)'
  <2>1. CASE q = p
    BY <1>1, <2>1
  <2>2. CASE q # p /\ calls[q].pc \in Bringing
    BY <1>1, <2>2, OwnsStays DEF OutboxInv, Basic, Unowned
  <2>3. CASE q # p /\ calls[q].pc \notin Bringing
    BY <2>3 DEF Owns, Respects, Alone
  <2> QED
    BY <2>1, <2>2, <2>3
<1> QED
  BY <1>1 DEF OutboxInv

\* Keys that nobody brings in: those of rows, stored staged ones, one's own source.
LEMMA UnownedKeys ==
    ASSUME OutboxInv, Prompt, NEW p \in Procs, NEW K,
           \A k \in K : \/ k \in refs \/ k \in StagedKeys \cap objects
                        \/ k \in StagedKeys /\ ~BeingStaged(k)
                        \/ k = calls[p].source \/ Fresh(k)
    PROVE  Unowned(p, K)
<1>1. ASSUME NEW q \in Procs \ {p}, calls[q].pc \in Bringing, calls[q].key \in K PROVE FALSE
  <2> DEFINE k == calls[q].key
  <2>1. /\ k \notin refs /\ k # calls[p].source
        /\ At(q, "stage_put") => k \notin objects
    BY <1>1 DEF OutboxInv, Owns
  <2>2. ~At(q, "stage_put") => k \notin StagedKeys
    BY <1>1 DEF OutboxInv, Fitting, CallFits, Bringing, At
  <2>3. ~Fresh(k)
    BY DEF Fresh
  <2>4. At(q, "stage_put") => BeingStaged(k)
    BY DEF BeingStaged
  <2> QED
    BY <1>1, <2>1, <2>2, <2>3, <2>4
<1> QED
  BY <1>1 DEF Unowned

\* Keys stay covered by a step that ends no job but p's own, when that was done.
LEMMA CoversStay ==
    ASSUME OutboxInv, Prompt, NEW p \in Procs, Alone(p), NEW k \in objects \ refs,
           \A j \in OpenJobs(k) : ~(At(p, "done") /\ calls[p].job = j) =>
               /\ jobs'[j].status \in Open /\ jobs'[j].key = k
               /\ ~(calls'[p].pc = "done" /\ calls'[p].job = j)
    PROVE  Covered(k)'
<1>1. Covered(k)
  BY DEF OutboxInv
<1> QED
  BY <1>1, CoverStays

\* A step that touches nothing but p's call, which stores and refers to nothing.
LEMMA QuietSound ==
    ASSUME OutboxInv, NEW p \in Procs, NEW c, Moved(p, c),
           UNCHANGED <<objects, refs, shown, jobs>>, quota' \in Threads \cup {None},
           c.pc \notin Bringing \cup {"done"}, c.key \in {calls[p].key, None} \cup shown,
           c.source \in {calls[p].source, None}, Held(p)' \subseteq Held(p)
    PROVE  OutboxInv'
<1>1. TypeOK' /\ Fitting'
  <2>1. calls' \in [Procs -> Call] /\ Fitting'
    BY DEF Moved
  <2> QED
    BY <2>1, TypeIs, TypeIsNext DEF OutboxInv
<1>2. Respects(p, {})
  BY DEF Respects, Moved
<1>3. ASSUME Prompt PROVE Owns(p)'
  BY DEF Owns, Moved
<1>4. ASSUME Prompt, NEW k \in objects' \ refs' PROVE Covered(k)'
  BY <1>4, CoversStay DEF Moved, OpenJobs
<1>5. Unowned(p, {})
  BY DEF Unowned
<1> QED
  BY <1>1, <1>2, <1>3, <1>4, <1>5, StepSound

-----------------------------------------------------------------------------
(* Steps that change nothing but the call                                    *)

LEMMA GotoFits ==
    ASSUME Basic, NEW p \in Procs, NEW pc \in GivingUp \cup {"stage"},
           pc = "stage" => At(p, "idle") /\ calls[p].todo = {} /\ calls[p].job = None,
           pc # "stage" => calls[p].pc \in Bringing \cup GivingUp
    PROVE  CallFits([calls[p] EXCEPT !.pc = pc]) /\ pc \in Pcs
<1> DEFINE c == [calls[p] EXCEPT !.pc = pc]
<1>1. /\ c.pc = pc /\ c.job = calls[p].job /\ c.todo = calls[p].todo
      /\ c.source = calls[p].source /\ c.key = calls[p].key
  BY CallIs
<1>2. CallFits(calls[p])
  BY CallIs
<1> HIDE DEF c
<1>3. CallFits(c)
  BY <1>1, <1>2 DEF CallFits, Bringing, Storing, GivingUp, Cleaners, At
<1>4. pc \in Pcs
  BY DEF Pcs, GivingUp
<1> QED
  BY <1>3, <1>4 DEF c

LEMMA GiveUpSound ==
    ASSUME OutboxInv, NEW p \in Procs, calls[p].pc \in Bringing \cup GivingUp,
           NEW pc \in GivingUp, Goto(p, pc), UNCHANGED <<objects, refs, shown, jobs, quota>>
    PROVE  OutboxInv' /\ Moved(p, [calls[p] EXCEPT !.pc = pc])
<1> DEFINE c == [calls[p] EXCEPT !.pc = pc]
<1>1. Basic
  BY DEF OutboxInv, Basic
<1>2. CallFits([calls[p] EXCEPT !.pc = pc]) /\ pc \in Pcs
  BY <1>1, GotoFits DEF GivingUp
<1>3. Moved(p, [calls[p] EXCEPT !.pc = pc])
  BY <1>1, <1>2, GotoMoves
<1>4. /\ calls'[p].key = calls[p].key /\ calls'[p].source = calls[p].source
      /\ calls'[p].pc = pc /\ Held(p)' = Held(p)
  BY <1>1, <1>3, GotoHolds
<1>5. Moved(p, calls'[p])
  BY <1>3 DEF Moved
<1>6. quota' \in Threads \cup {None}
  BY <1>1, TypeIs DEF Basic
<1>7. calls'[p].pc \notin Bringing \cup {"done"}
  BY <1>4 DEF GivingUp, Bringing, Storing
<1>8. UNCHANGED <<objects, refs, shown, jobs>>
  OBVIOUS
<1>9. OutboxInv'
  BY <1>4, <1>5, <1>6, <1>7, <1>8, QuietSound
<1> QED
  BY <1>3, <1>9

LEMMA EndSound ==
    ASSUME OutboxInv, NEW p \in Procs, EndCall(p),
           UNCHANGED <<objects, refs, shown, jobs>>, quota' \in Threads \cup {None}
    PROVE  OutboxInv' /\ Moved(p, IdleCall)
<1>1. Basic
  BY DEF OutboxInv, Basic
<1>2. Moved(p, IdleCall)
  BY <1>1, EndMoves
<1>3. IdleCall.pc = "idle" /\ IdleCall.key = None /\ IdleCall.source = None /\ Held(p)' = {}
  BY <1>2, IdleHolds DEF IdleCall
<1>4. IdleCall.pc \notin Bringing \cup {"done"}
  BY <1>3 DEF Bringing, Storing
<1>5. UNCHANGED <<objects, refs, shown, jobs>>
  OBVIOUS
<1> HIDE DEF IdleCall
<1> QED
  BY <1>2, <1>3, <1>4, <1>5, QuietSound

LEMMA AttachFailsSound == ASSUME OutboxInv, NEW p \in Procs, AttachFails(p) PROVE OutboxInv'
BY GiveUpSound DEF AttachFails, At, Bringing, Storing, GivingUp

LEMMA ImportConflictsSound ==
    ASSUME OutboxInv, NEW p \in Procs, ImportConflicts(p) PROVE OutboxInv'
BY GiveUpSound DEF ImportConflicts, At, Bringing, Storing, GivingUp

LEMMA AbandonSound == ASSUME OutboxInv, NEW p \in Procs, Abandon(p) PROVE OutboxInv'
<1>1. CASE EndCall(p)
  <2>1. quota' \in Threads \cup {None}
    BY TypeIs DEF Abandon, OutboxInv
  <2> QED
    BY <1>1, <2>1, EndSound DEF Abandon
<1>2. CASE Goto(p, "requeue")
  BY <1>2, GiveUpSound DEF Abandon, At, GivingUp
<1> QED
  BY <1>1, <1>2 DEF Abandon

LEMMA CrashSound == ASSUME OutboxInv, NEW p \in Procs, Crash(p) PROVE OutboxInv'
<1>1. quota' \in Threads \cup {None}
  BY TypeIs DEF Crash, OutboxInv
<1> QED
  BY <1>1, EndSound DEF Crash

\* A call begins that knows of nothing but a key that was shown.
LEMMA BeginSound ==
    ASSUME OutboxInv, NEW p \in Procs, NEW c \in Call, CallFits(c),
           calls' = [calls EXCEPT ![p] = c],
           UNCHANGED <<objects, refs, shown, jobs>>, quota' \in Threads \cup {None},
           c.pc \in {"stage", "reattach"}, c.key \in {calls[p].key, None} \cup shown,
           c.source \in {calls[p].source, None}, c.todo = {}, c.job = None
    PROVE  OutboxInv' /\ Moved(p, c)
<1>1. Basic
  BY DEF OutboxInv, Basic
<1>2. Moved(p, c)
  BY <1>1, CallMoves DEF Moved
<1>3. Held(p)' = {}
  BY <1>2 DEF Moved, Held
<1>4. c.pc \notin Bringing \cup {"done"}
  BY DEF Bringing, Storing
<1>5. UNCHANGED <<objects, refs, shown, jobs>>
  OBVIOUS
<1> QED
  BY <1>2, <1>3, <1>4, <1>5, QuietSound

LEMMA ReattachStatSound ==
    ASSUME OutboxInv, NEW p \in Procs, NEW k \in Reattach, ReattachStat(p, k) PROVE OutboxInv'
<1> DEFINE c == [IdleCall EXCEPT !.pc = "reattach", !.key = k]
<1>1. k \in Keys /\ k \in shown
  BY TypeIs, OutboxAssumption DEF ReattachStat, OutboxInv
<1>2. /\ c.pc = "reattach" /\ c.key = k /\ c.source = None /\ c.todo = {} /\ c.job = None
      /\ c \in Call
  BY <1>1 DEF IdleCall, Call, Pcs
<1>3. calls' = [calls EXCEPT ![p] = c]
  BY DEF ReattachStat
<1>4. quota' \in Threads \cup {None}
  BY TypeIs DEF ReattachStat, OutboxInv
<1>5. UNCHANGED <<objects, refs, shown, jobs>>
  BY DEF ReattachStat
<1> HIDE DEF c
<1>6. CallFits(c)
  BY <1>1, <1>2 DEF CallFits, Bringing, Storing, GivingUp, Cleaners
<1> QED
  BY <1>1, <1>2, <1>3, <1>4, <1>5, <1>6, BeginSound

LEMMA StageCountSound == ASSUME OutboxInv, NEW p \in Procs, StageCount(p) PROVE OutboxInv'
<1>1. Basic /\ At(p, "idle") /\ UNCHANGED <<objects, refs, shown, jobs>> /\ Goto(p, "stage")
  BY DEF StageCount, OutboxInv, Basic
<1>2. calls[p].todo = {} /\ calls[p].job = None
  BY <1>1, CallIs DEF CallFits, At
<1>3. CallFits([calls[p] EXCEPT !.pc = "stage"]) /\ "stage" \in Pcs
  BY <1>1, <1>2, GotoFits
<1>4. Moved(p, [calls[p] EXCEPT !.pc = "stage"])
  BY <1>1, <1>3, GotoMoves
<1>5. /\ calls'[p].key = calls[p].key /\ calls'[p].source = calls[p].source
      /\ calls'[p].pc = "stage" /\ Held(p)' = Held(p)
  BY <1>1, <1>4, GotoHolds
<1>6. Moved(p, calls'[p])
  BY <1>4 DEF Moved
<1>7. quota' \in Threads \cup {None}
  BY <1>1, TypeIs DEF StageCount, Basic
<1>8. calls'[p].pc \notin Bringing \cup {"done"}
  BY <1>5 DEF Bringing, Storing
<1> QED
  BY <1>1, <1>5, <1>6, <1>7, <1>8, QuietSound

-----------------------------------------------------------------------------
(* A new object is announced                                                 *)

\* A call that brings in a fresh key, with a new row for it.
LEMMA BringSound ==
    ASSUME OutboxInv, NEW p \in Procs, NEW c \in Call, CallFits(c), NEW k \in Keys, NEW j \in Free,
           At(p, "idle") \/ At(p, "stage"), Fresh(k), c.key = k, c.job = j, c.todo = {},
           c.pc \in {"put", "copy", "stage_put"},
           c.source = None \/ c.source \in StagedKeys \cap objects,
           calls' = [calls EXCEPT ![p] = c],
           jobs' = [jobs EXCEPT ![j] = Intended(k, c.pc = "stage_put")],
           quota' \in Threads \cup {None}, UNCHANGED <<objects, refs, shown>>
    PROVE  OutboxInv' /\ Moved(p, c)
<1> DEFINE row == Intended(k, c.pc = "stage_put")
           K == {k} \cup ({c.source} \ {None})
<1>1. Basic
  BY DEF OutboxInv, Basic
<1>2. Moved(p, c)
  BY <1>1, CallMoves DEF Moved
<1>3. row \in JobRow /\ row.key = k
  BY DEF Intended, Row, JobRow, Open
<1>4. j \in Slots /\ \A q \in Procs : j \notin Held(q)
  BY DEF Free
<1> HIDE DEF row
<1>5. jobs \in JobTable /\ jobs' = [jobs EXCEPT ![j] = row]
  BY <1>1, TypeIs DEF Basic, row
<1>6. jobs' \in JobTable /\ jobs'[j] = row /\ \A i \in Slots \ {j} : jobs'[i] = jobs[i]
  BY <1>3, <1>4, <1>5 DEF JobTable
<1>7. TypeOK' /\ Fitting'
  <2>1. calls' \in [Procs -> Call] /\ Fitting'
    BY <1>2 DEF Moved
  <2> QED
    BY <1>1, <1>6, <2>1, TypeIs, TypeIsNext DEF Basic
<1>8. calls'[p] = c /\ Alone(p)
  BY <1>2 DEF Moved
<1>9. Held(p)' = {j}
  BY <1>4, <1>8, OutboxAssumption DEF Held
<1>10. Respects(p, K)
  <2>1. ASSUME NEW i \in Slots, jobs'[i] # jobs[i] PROVE i \in Free /\ jobs'[i].key \in K
    <3>1. i = j
      BY <1>6, <2>1
    <3> QED
      BY <1>3, <1>6, <3>1
  <2>2. ASSUME NEW i \in Slots, i \in Held(p)' PROVE i \in Free /\ jobs'[i].key \in K
    <3>1. i = j
      BY <1>9, <2>2
    <3> QED
      BY <1>3, <1>6, <3>1
  <2>3. c.key \in K /\ c.source \in {None} \cup K
    OBVIOUS
  <2> HIDE DEF K
  <2> QED
    BY <1>8, <2>1, <2>2, <2>3 DEF Respects
<1>11. ASSUME Prompt PROVE Unowned(p, K)
  <2>1. \A l \in K : l \in StagedKeys \cap objects \/ Fresh(l)
    OBVIOUS
  <2> HIDE DEF K
  <2> QED
    BY <1>11, <2>1, UnownedKeys
<1>12. Owns(p)'
  <2>1. k \notin objects \cup refs \cup shown
    BY DEF Fresh
  <2>2. ASSUME NEW q \in Procs \ {p} PROVE j \notin Held(q)' /\ k \notin {calls'[q].key, calls'[q].source}
    <3>1. calls'[q] = calls[q] /\ k \notin {calls[q].key, calls[q].source}
      BY <1>8 DEF Alone, Fresh
    <3> QED
      BY <1>4, <3>1 DEF Held
  <2>3. ASSUME NEW i \in Slots \ {j}, jobs'[i].key = k PROVE i \in Free'
    <3>1. jobs'[i] = jobs[i] /\ jobs[i].key = k
      BY <1>6, <2>3
    <3>2. \A q \in Procs : i \notin Held(q)
      BY <3>1 DEF Fresh
    <3>3. jobs[i].status = "completed"
      BY <1>5, <3>1 DEF Fresh, OpenJobs, JobTable, JobRow
    <3>4. \A q \in Procs : i \notin Held(q)'
      <4>1. i \notin Held(p)'
        BY <1>9, <2>3
      <4>2. \A q \in Procs \ {p} : i \notin Held(q)'
        BY <1>8, <3>2 DEF Alone, Held
      <4> QED
        BY <4>1, <4>2
    <3> QED
      BY <3>1, <3>3, <3>4 DEF Free
  <2>4. jobs'[calls'[p].job] = Intended(k, At(p, "stage_put")')
    BY <1>6, <1>8 DEF At, row
  <2>5. calls'[p].key = k /\ calls'[p].job = j /\ calls'[p].pc \notin {"attach", "promote"}
    BY <1>8
  <2>6. k \notin objects' \cup refs' \cup shown'
    BY <2>1
  <2> HIDE DEF K
  <2> QED
    BY <2>2, <2>3, <2>4, <2>5, <2>6 DEF Owns
<1>13. ASSUME Prompt, NEW l \in objects' \ refs' PROVE Covered(l)'
  <2>1. ASSUME NEW i \in OpenJobs(l)
        PROVE  jobs'[i].status \in Open /\ jobs'[i].key = l /\ calls'[p].pc # "done"
    <3>1. i \in Slots \ {j}
      BY <2>1 DEF OpenJobs, Free, Open
    <3> QED
      BY <1>6, <1>8, <2>1, <3>1 DEF OpenJobs
  <2> QED
    BY <1>8, <1>13, <2>1, CoversStay
<1> QED
  BY <1>2, <1>7, <1>10, <1>11, <1>12, <1>13, StepSound

LEMMA UploadIntentSound ==
    ASSUME OutboxInv, NEW p \in Procs, NEW k \in Keys, UploadIntent(p, k) PROVE OutboxInv'
<1>p. PICK j \in Free :
        /\ jobs' = [jobs EXCEPT ![j] = Row(k, "intent", FALSE)]
        /\ calls' = [calls EXCEPT ![p] = [IdleCall EXCEPT !.pc = "put", !.key = k, !.job = j]]
  BY DEF UploadIntent
<1> DEFINE c == [IdleCall EXCEPT !.pc = "put", !.key = k, !.job = j]
<1>1. /\ c.pc = "put" /\ c.key = k /\ c.job = j /\ c.source = None /\ c.todo = {}
      /\ c \in Call
  BY DEF IdleCall, Call, Pcs, Free
<1>2. calls' = [calls EXCEPT ![p] = c]
  BY <1>p
<1> HIDE DEF c
<1>3. CallFits(c)
  <2>1. k \notin StagedKeys /\ j \in Slots
    BY DEF UploadIntent, Free
  <2> QED
    BY <1>1, <2>1 DEF CallFits, Bringing, Storing, GivingUp, Cleaners
<1>4. quota' \in Threads \cup {None} /\ UNCHANGED <<objects, refs, shown>> /\ At(p, "idle") /\ Fresh(k)
  BY TypeIs DEF UploadIntent, OutboxInv
<1>5. jobs' = [jobs EXCEPT ![j] = Intended(k, c.pc = "stage_put")]
  BY <1>p, <1>1 DEF Intended
<1> QED
  BY <1>1, <1>2, <1>3, <1>4, <1>5, BringSound

LEMMA StageCommitSound == ASSUME OutboxInv, NEW p \in Procs, StageCommit(p) PROVE OutboxInv'
<1>p. PICK k \in StagedKeys, j \in Free :
        /\ Fresh(k)
        /\ jobs' = [jobs EXCEPT ![j] = [Row(k, "pending", FALSE) EXCEPT !.expiry = TRUE]]
        /\ calls' = [calls EXCEPT ![p] = [IdleCall EXCEPT !.pc = "stage_put", !.key = k, !.job = j]]
  BY DEF StageCommit
<1> DEFINE c == [IdleCall EXCEPT !.pc = "stage_put", !.key = k, !.job = j]
<1>0. k \in Keys
  BY OutboxAssumption
<1>1. /\ c.pc = "stage_put" /\ c.key = k /\ c.job = j /\ c.source = None /\ c.todo = {}
      /\ c \in Call
  BY <1>0 DEF IdleCall, Call, Pcs, Free
<1>2. calls' = [calls EXCEPT ![p] = c]
  BY <1>p
<1> HIDE DEF c
<1>3. CallFits(c)
  <2>1. j \in Slots
    BY DEF Free
  <2> QED
    BY <1>0, <1>1, <2>1 DEF CallFits, Bringing, Storing, GivingUp, Cleaners
<1>4. quota' \in Threads \cup {None} /\ UNCHANGED <<objects, refs, shown>> /\ At(p, "stage") /\ Fresh(k)
  BY <1>p, TypeIs DEF StageCommit, OutboxInv
<1>5. jobs' = [jobs EXCEPT ![j] = Intended(k, c.pc = "stage_put")]
  BY <1>p, <1>1 DEF Intended
<1> QED
  BY <1>0, <1>1, <1>2, <1>3, <1>4, <1>5, BringSound

LEMMA ImportIntentSound ==
    ASSUME OutboxInv, NEW p \in Procs, NEW s \in StagedKeys, NEW k \in Keys, ImportIntent(p, s, k)
    PROVE  OutboxInv'
<1>p. PICK j \in Free :
        /\ jobs' = [jobs EXCEPT ![j] = Row(k, "intent", FALSE)]
        /\ calls' = [calls EXCEPT ![p] =
               [IdleCall EXCEPT !.pc = "copy", !.key = k, !.job = j, !.source = s]]
  BY DEF ImportIntent
<1> DEFINE c == [IdleCall EXCEPT !.pc = "copy", !.key = k, !.job = j, !.source = s]
<1>1. /\ c.pc = "copy" /\ c.key = k /\ c.job = j /\ c.source = s /\ c.todo = {}
      /\ c \in Call
  BY OutboxAssumption DEF IdleCall, Call, Pcs, Free
<1>2. calls' = [calls EXCEPT ![p] = c]
  BY <1>p
<1> HIDE DEF c
<1>3. CallFits(c)
  <2>1. k \notin StagedKeys /\ j \in Slots
    BY DEF ImportIntent, Free
  <2> QED
    BY <1>1, <2>1 DEF CallFits, Bringing, Storing, GivingUp, Cleaners
<1>4. quota' \in Threads \cup {None} /\ UNCHANGED <<objects, refs, shown>> /\ At(p, "idle") /\ Fresh(k)
      /\ s \in StagedKeys \cap objects
  BY TypeIs DEF ImportIntent, OutboxInv
<1>5. jobs' = [jobs EXCEPT ![j] = Intended(k, c.pc = "stage_put")]
  BY <1>p, <1>1 DEF Intended
<1> QED
  BY <1>1, <1>2, <1>3, <1>4, <1>5, BringSound

-----------------------------------------------------------------------------
(* An object is stored                                                       *)

\* The row of a call that brings in its key covers that key.
LEMMA OwnCovers ==
    ASSUME OutboxInv, Prompt, NEW p \in Procs, calls[p].pc \in Bringing
    PROVE  Covered(calls[p].key)
<1> DEFINE k == calls[p].key
           j == calls[p].job
<1>1. j \in Slots
  BY DEF OutboxInv, Fitting, CallFits
<1>2. jobs[j].status \in Open /\ jobs[j].key = k
  <2>1. jobs[j] = Intended(k, At(p, "stage_put"))
    BY DEF OutboxInv, Owns
  <2>2. \A staged \in BOOLEAN : Intended(k, staged).status \in Open /\ Intended(k, staged).key = k
    BY DEF Intended, Row, Open
  <2>3. At(p, "stage_put") \in BOOLEAN
    BY DEF At
  <2> QED
    BY <2>1, <2>2, <2>3
<1>3. ASSUME NEW q \in Procs, At(q, "done") PROVE calls[q].job # j
  <2>1. q # p
    BY <1>3 DEF At, Bringing, Storing
  <2>2. j \notin Held(q)
    BY <2>1 DEF OutboxInv, Owns
  <2> QED
    BY <1>1, <2>2, OutboxAssumption DEF Held
<1> QED
  BY <1>1, <1>2, <1>3 DEF Covered, OpenJobs

LEMMA PutSound ==
    ASSUME OutboxInv, NEW p \in Procs, calls[p].pc \in {"put", "copy", "stage_put"},
           NEW c, Moved(p, c), Held(p)' \subseteq Held(p),
           c.key \in {calls[p].key, None}, c.source \in {calls[p].source, None},
           c.pc \notin Bringing \cup {"done"} \/
               (c.pc \in {"attach", "promote"} /\ c.key = calls[p].key /\ c.job = calls[p].job
                   /\ calls[p].pc # "stage_put" /\ calls[p].key \in objects'),
           objects' \in {objects, objects \cup {calls[p].key}},
           UNCHANGED <<refs, shown, jobs, quota>>
    PROVE  OutboxInv'
<1>1. calls'[p] = c /\ Alone(p) /\ calls' \in [Procs -> Call] /\ Fitting'
  BY DEF Moved
<1>2. calls[p].key \in Keys /\ calls[p].job \in Slots /\ calls[p].pc \in Bringing
  BY DEF OutboxInv, Fitting, CallFits, Bringing, Storing
<1>3. TypeOK'
  BY <1>1, <1>2, TypeIs, TypeIsNext DEF OutboxInv
<1>4. Respects(p, {})
  BY <1>1 DEF Respects
<1>5. ASSUME Prompt PROVE Owns(p)'
  <2>1. Owns(p)
    BY <1>5 DEF OutboxInv
  <2>2. CASE c.pc \notin Bringing
    BY <1>1, <2>2 DEF Owns
  <2>3. CASE c.pc \in {"attach", "promote"} /\ c.key = calls[p].key /\ c.job = calls[p].job
             /\ calls[p].pc # "stage_put" /\ calls[p].key \in objects'
    <3>1. /\ calls'[p].key = calls[p].key /\ calls'[p].job = calls[p].job
          /\ calls'[p].pc \in {"attach", "promote"} /\ calls[p].pc # "stage_put"
          /\ calls[p].key \in objects'
      BY <1>1, <2>3
    <3>2. \A q \in Procs \ {p} : Held(q)' = Held(q) /\ calls'[q] = calls[q]
      BY <1>1 DEF Alone, Held
    <3>3. \A i \in Free : i \in Free'
      <4>1. ASSUME NEW i \in Free, NEW q \in Procs PROVE i \notin Held(q)'
        BY <3>2 DEF Free
      <4> QED
        BY <4>1 DEF Free
    <3>4. ~At(p, "stage_put") /\ ~At(p, "stage_put")'
      BY <3>1 DEF At
    <3>5. /\ calls[p].key \notin refs \cup shown
          /\ jobs[calls[p].job] = Intended(calls[p].key, At(p, "stage_put"))
          /\ \A q \in Procs \ {p} : calls[p].job \notin Held(q)
                 /\ calls[p].key \notin {calls[q].key, calls[q].source}
          /\ \A i \in Slots \ {calls[p].job} : jobs[i].key = calls[p].key => i \in Free
      BY <1>2, <2>1 DEF Owns
    <3>6. jobs'[calls'[p].job] = Intended(calls'[p].key, At(p, "stage_put")')
      <4>1. jobs[calls[p].job] = Intended(calls[p].key, FALSE)
        BY <3>4, <3>5 DEF Intended
      <4> QED
        BY <3>1, <3>4, <4>1 DEF Intended, Row
    <3>7. calls'[p].key \notin refs' \cup shown'
      BY <3>1, <3>5
    <3>8. \A q \in Procs \ {p} : calls'[p].job \notin Held(q)'
              /\ calls'[p].key \notin {calls'[q].key, calls'[q].source}
      BY <3>1, <3>2, <3>5
    <3>9. \A i \in Slots \ {calls'[p].job} : jobs'[i].key = calls'[p].key => i \in Free'
      BY <3>1, <3>3, <3>5
    <3> QED
      BY <3>1, <3>4, <3>6, <3>7, <3>8, <3>9 DEF Owns
  <2> QED
    BY <2>2, <2>3
<1>6. ASSUME Prompt, NEW k \in objects' \ refs' PROVE Covered(k)'
  <2>1. Covered(k)
    BY <1>2, <1>6, OwnCovers DEF OutboxInv
  <2>2. c.pc # "done"
    OBVIOUS
  <2> QED
    BY <1>1, <2>1, <2>2, CoverStays DEF OpenJobs
<1>7. Unowned(p, {})
  BY DEF Unowned
<1> QED
  BY <1>1, <1>3, <1>4, <1>5, <1>6, <1>7, StepSound

\* The storage has taken the object, or fails; the call goes on or gives up.
LEMMA StoresSound ==
    ASSUME OutboxInv, NEW p \in Procs, NEW pc \in {"attach", "promote", "abandon", "import_failed"},
           calls[p].pc \in {"put", "copy", "stage_put"}, Goto(p, pc),
           pc = "attach" => calls[p].pc = "put" /\ calls[p].key \in objects',
           pc = "promote" => calls[p].pc = "copy" /\ calls[p].key \in objects',
           objects' \in {objects, objects \cup {calls[p].key}},
           UNCHANGED <<refs, shown, jobs, quota>>
    PROVE  OutboxInv' /\ Moved(p, [calls[p] EXCEPT !.pc = pc])
<1> DEFINE c == [calls[p] EXCEPT !.pc = pc]
<1>1. Basic
  BY DEF OutboxInv, Basic
<1>2. /\ c.pc = pc /\ c.job = calls[p].job /\ c.todo = calls[p].todo
      /\ c.source = calls[p].source /\ c.key = calls[p].key
  BY <1>1, CallIs
<1>3. CallFits(calls[p])
  BY <1>1, CallIs
<1> HIDE DEF c
<1>4. CallFits(c)
  BY <1>2, <1>3 DEF CallFits, Bringing, Storing, GivingUp, Cleaners
<1>5. CallFits([calls[p] EXCEPT !.pc = pc]) /\ pc \in Pcs
  BY <1>4 DEF c, Pcs
<1>6. Moved(p, [calls[p] EXCEPT !.pc = pc])
  BY <1>1, <1>5, GotoMoves
<1>7. Held(p)' = Held(p)
  BY <1>1, <1>6, GotoHolds
<1>8. Moved(p, c)
  BY <1>6 DEF c
<1>9. \/ c.pc \notin Bringing \cup {"done"}
      \/ /\ c.pc \in {"attach", "promote"} /\ c.key = calls[p].key /\ c.job = calls[p].job
         /\ calls[p].pc # "stage_put" /\ calls[p].key \in objects'
  BY <1>2 DEF Bringing, Storing
<1>10. UNCHANGED <<refs, shown, jobs, quota>>
  OBVIOUS
<1>11. OutboxInv'
  BY <1>2, <1>7, <1>8, <1>9, <1>10, PutSound
<1> QED
  BY <1>6, <1>11

LEMMA UploadPutSound == ASSUME OutboxInv, NEW p \in Procs, UploadPut(p) PROVE OutboxInv'
<1>1. calls[p].pc = "put" /\ UNCHANGED <<refs, shown, jobs, quota>>
  BY DEF UploadPut, Put, At
<1>2. CASE Goto(p, "attach") /\ objects' = objects \cup {calls[p].key}
  BY <1>1, <1>2, StoresSound
<1>3. CASE Goto(p, "abandon") /\ objects' \in {objects, objects \cup {calls[p].key}}
  BY <1>1, <1>3, StoresSound
<1> QED
  BY <1>2, <1>3 DEF UploadPut, Put

LEMMA ImportCopySound == ASSUME OutboxInv, NEW p \in Procs, ImportCopy(p) PROVE OutboxInv'
<1>1. calls[p].pc = "copy" /\ UNCHANGED <<refs, shown, jobs, quota>>
  BY DEF ImportCopy, At
<1>2. CASE Goto(p, "promote") /\ objects' = objects \cup {calls[p].key}
  BY <1>1, <1>2, StoresSound
<1>3. CASE Goto(p, "import_failed") /\ objects' \in {objects, objects \cup {calls[p].key}}
  BY <1>1, <1>3, StoresSound
<1> QED
  BY <1>2, <1>3 DEF ImportCopy

LEMMA StagePutSound == ASSUME OutboxInv, NEW p \in Procs, StagePut(p) PROVE OutboxInv'
<1>1. calls[p].pc = "stage_put" /\ UNCHANGED <<refs, shown, jobs, quota>>
  BY DEF StagePut, Put, At
<1>2. CASE EndCall(p) /\ objects' = objects \cup {calls[p].key}
  <2>1. Moved(p, IdleCall)
    BY <1>2, EndMoves DEF OutboxInv, Basic
  <2>2. Held(p)' = {} /\ IdleCall.pc = "idle" /\ IdleCall.key = None /\ IdleCall.source = None
    BY <2>1, IdleHolds DEF IdleCall
  <2>3. IdleCall.pc \notin Bringing \cup {"done"}
    BY <2>2 DEF Bringing, Storing
  <2> HIDE DEF IdleCall
  <2>4. calls[p].pc \in {"put", "copy", "stage_put"} /\ objects' \in {objects, objects \cup {calls[p].key}}
    BY <1>1, <1>2
  <2> QED
    BY <1>1, <2>1, <2>2, <2>3, <2>4, PutSound
<1>3. CASE Goto(p, "abandon") /\ objects' \in {objects, objects \cup {calls[p].key}}
  BY <1>1, <1>3, StoresSound
<1> QED
  BY <1>2, <1>3 DEF StagePut, Put

-----------------------------------------------------------------------------
(* Jobs are run                                                              *)

LEMMA JobHeld ==
    ASSUME OutboxInv, NEW p \in Procs, calls[p].pc \in Bringing \cup GivingUp \cup Cleaners
    PROVE  calls[p].job \in Slots /\ calls[p].job \in Held(p)
<1>1. calls[p].job \in Slots
  BY DEF OutboxInv, Fitting, CallFits
<1> QED
  BY <1>1, OutboxAssumption DEF Held

\* A step that at most removes the object of the job it runs; "done" is reached
\* when that object is in use or gone.
LEMMA CheckSound ==
    ASSUME OutboxInv, NEW p \in Procs, NEW c, Moved(p, c), Held(p)' \subseteq Held(p),
           c.key \in {calls[p].key, None}, c.source \in {calls[p].source, None},
           c.pc \notin Bringing, UNCHANGED <<refs, shown, jobs, quota>>,
           \/ UNCHANGED objects
           \/ At(p, "delete") /\ objects' = objects \ {jobs[calls[p].job].key},
           c.pc = "done" => \/ jobs[c.job].key \in refs \/ jobs[c.job].key \notin objects'
    PROVE  OutboxInv'
<1>1. calls'[p] = c /\ Alone(p) /\ calls' \in [Procs -> Call] /\ Fitting'
  BY DEF Moved
<1>2. TypeOK' /\ objects' \subseteq objects
  BY <1>1, TypeIs, TypeIsNext DEF OutboxInv
<1>3. Respects(p, {})
  <2>1. \A k \in Keys : (k \in objects' <=> k \in objects) \/ (At(p, "delete") /\ k = jobs[calls[p].job].key)
    OBVIOUS
  <2> QED
    BY <1>1, <2>1 DEF Respects
<1>4. Owns(p)'
  BY <1>1 DEF Owns
<1>5. ASSUME Prompt, NEW k \in objects' \ refs' PROVE Covered(k)'
  <2>1. ASSUME NEW i \in OpenJobs(k), c.pc = "done", c.job = i PROVE FALSE
    <3>1. jobs[i].key = k
      BY DEF OpenJobs
    <3> QED
      BY <1>5, <2>1, <3>1
  <2>2. k \in objects \ refs
    BY <1>2, <1>5
  <2> QED
    BY <1>1, <1>5, <2>1, <2>2, CoversStay DEF OpenJobs
<1>6. Unowned(p, {})
  BY DEF Unowned
<1> QED
  BY <1>1, <1>2, <1>3, <1>4, <1>5, <1>6, StepSound

\* A step that rewrites a row the call holds, and ends it only when it is done.
LEMMA RowSound ==
    ASSUME OutboxInv, NEW p \in Procs, NEW c, Moved(p, c), Held(p)' \subseteq Held(p),
           c.key \in {calls[p].key, None}, c.source \in {calls[p].source, None},
           c.pc \notin Bringing \cup {"done"}, UNCHANGED <<objects, refs, shown, quota>>,
           NEW j \in Slots, j \in Held(p), NEW row \in JobRow,
           row.key = jobs[j].key, row.expiry = jobs[j].expiry,
           jobs' = [jobs EXCEPT ![j] = row],
           row = jobs[j] \/ row.status \in Open \/ (At(p, "done") /\ calls[p].job = j)
    PROVE  OutboxInv'
<1>1. calls'[p] = c /\ Alone(p) /\ calls' \in [Procs -> Call] /\ Fitting'
  BY DEF Moved
<1>2. jobs \in JobTable
  BY TypeIs DEF OutboxInv
<1>3. jobs' \in JobTable /\ jobs'[j] = row /\ \A i \in Slots \ {j} : jobs'[i] = jobs[i]
  BY <1>2 DEF JobTable
<1>4. TypeOK'
  BY <1>1, <1>3, TypeIs, TypeIsNext DEF OutboxInv
<1>5. Respects(p, {})
  <2>1. ASSUME NEW i \in Slots, jobs'[i] # jobs[i] PROVE SameUse(i) /\ i \in Held(p)
    <3>1. i = j
      BY <1>3, <2>1
    <3> QED
      BY <1>3, <3>1 DEF SameUse
  <2> QED
    BY <1>1, <2>1 DEF Respects
<1>6. Owns(p)'
  BY <1>1 DEF Owns
<1>7. ASSUME Prompt, NEW k \in objects' \ refs' PROVE Covered(k)'
  <2>1. ASSUME NEW i \in OpenJobs(k), ~(At(p, "done") /\ calls[p].job = i)
        PROVE  jobs'[i].status \in Open /\ jobs'[i].key = k
    <3>1. i \in Slots /\ jobs[i].key = k /\ jobs[i].status \in Open
      BY <2>1 DEF OpenJobs
    <3>2. CASE i = j
      BY <1>3, <2>1, <3>1, <3>2
    <3>3. CASE i # j
      BY <1>3, <3>1, <3>3
    <3> QED
      BY <3>2, <3>3
  <2> QED
    BY <1>1, <1>7, <2>1, CoversStay
<1>8. Unowned(p, {})
  BY DEF Unowned
<1> QED
  BY <1>1, <1>4, <1>5, <1>6, <1>7, <1>8, StepSound

LEMMA AbandonRequeueSound == ASSUME OutboxInv, NEW p \in Procs, AbandonRequeue(p) PROVE OutboxInv'
<1> DEFINE j == calls[p].job
           c == Running({j}, FALSE)
<1>1. calls[p].pc = "requeue" /\ j \in Slots /\ j \in Held(p)
  BY JobHeld DEF AbandonRequeue, At, GivingUp
<1>2. jobs[j] \in JobRow
  BY <1>1, TypeIs DEF OutboxInv, JobTable
<1>3. Requeued(jobs[j]) \in JobRow /\ Requeued(jobs[j]).key = jobs[j].key
      /\ Requeued(jobs[j]).expiry = jobs[j].expiry /\ Requeued(jobs[j]).status \in Open
  BY <1>2 DEF JobRow, Requeued, Open
<1>4. jobs' = [jobs EXCEPT ![j] = Requeued(jobs[j])] /\ UNCHANGED <<objects, refs, shown, quota>>
  BY DEF AbandonRequeue
<1>5. Moved(p, c)
  BY <1>1, RunMoves DEF AbandonRequeue, OutboxInv, Basic
<1>6. c.key = None /\ c.source = None /\ c.pc \in {"idle", "run"} /\ Held(p)' = {j}
  <2>1. calls'[p] = c
    BY <1>5 DEF Moved
  <2> HIDE DEF c
  <2> QED
    BY <1>1, <1>5, <2>1, RunningHolds DEF c
<1>7. c.pc \notin Bringing \cup {"done"}
  BY <1>6 DEF Bringing, Storing
<1> HIDE DEF c, j
<1>8. Held(p)' \subseteq Held(p)
  BY <1>1, <1>6
<1> QED
  BY <1>1, <1>3, <1>4, <1>5, <1>6, <1>7, <1>8, RowSound

LEMMA ImportFailSound == ASSUME OutboxInv, NEW p \in Procs, ImportFail(p) PROVE OutboxInv'
<1> DEFINE j == calls[p].job
           row == IF jobs[j].status = "completed" THEN jobs[j] ELSE Requeued(jobs[j])
<1>1. calls[p].pc = "import_failed" /\ j \in Slots /\ j \in Held(p)
  BY JobHeld DEF ImportFail, At, GivingUp
<1>2. jobs[j] \in JobRow
  BY <1>1, TypeIs DEF OutboxInv, JobTable
<1>3. row \in JobRow /\ row.key = jobs[j].key /\ row.expiry = jobs[j].expiry
      /\ (row = jobs[j] \/ row.status \in Open)
  BY <1>2 DEF JobRow, Requeued, Open
<1>4. jobs' = [jobs EXCEPT ![j] = row] /\ UNCHANGED <<objects, refs, shown, quota>>
  BY DEF ImportFail
<1>5. Moved(p, IdleCall)
  BY EndMoves DEF ImportFail, OutboxInv, Basic
<1>6. IdleCall.key = None /\ IdleCall.source = None /\ IdleCall.pc = "idle" /\ Held(p)' = {}
  BY <1>5, IdleHolds DEF IdleCall
<1>7. IdleCall.pc \notin Bringing \cup {"done"}
  BY <1>6 DEF Bringing, Storing
<1> HIDE DEF row, j, IdleCall
<1> QED
  BY <1>1, <1>3, <1>4, <1>5, <1>6, <1>7, RowSound

\* A job is taken out of the list and becomes the one the call works on.
LEMMA WorksOn ==
    ASSUME OutboxInv, NEW p \in Procs, NEW j \in Slots, j \in Held(p),
           NEW pc \in {"check", "delete", "done"},
           calls' = [calls EXCEPT ![p].pc = pc, ![p].job = j, ![p].todo = @ \ {j}]
    PROVE  /\ Moved(p, calls'[p]) /\ Held(p)' \subseteq Held(p)
           /\ calls'[p].key = calls[p].key /\ calls'[p].source = calls[p].source
           /\ calls'[p].pc = pc /\ calls'[p].job = j
           /\ calls'[p].todo = calls[p].todo \ {j} /\ calls'[p].claimed = calls[p].claimed
<1> DEFINE c == [calls[p] EXCEPT !.pc = pc, !.job = j, !.todo = @ \ {j}]
<1>1. Basic
  BY DEF OutboxInv, Basic
<1>2. /\ c.pc = pc /\ c.job = j /\ c.todo = calls[p].todo \ {j} /\ c.claimed = calls[p].claimed
      /\ c.source = calls[p].source /\ c.key = calls[p].key
  BY <1>1, CallIs
<1>3. c \in Call
  BY <1>1, CallIs DEF Call, Pcs
<1>4. calls' = [calls EXCEPT ![p] = c]
  <2>1. calls \in [Procs -> Call]
    BY <1>1, TypeIs DEF Basic
  <2> QED
    BY <2>1
<1> HIDE DEF c
<1>5. CallFits(c)
  BY <1>2 DEF CallFits, Bringing, Storing, GivingUp, Cleaners
<1>6. Moved(p, c) /\ calls'[p] = c
  BY <1>1, <1>3, <1>4, <1>5, CallMoves DEF Moved
<1>7. Held(p)' \subseteq Held(p)
  BY <1>2, <1>6, OutboxAssumption DEF Held
<1> QED
  BY <1>2, <1>6, <1>7

LEMMA RunStartSound ==
    ASSUME OutboxInv, NEW p \in Procs, NEW j \in Slots, RunStart(p, j) PROVE OutboxInv'
<1> DEFINE row == [jobs[j] EXCEPT !.status = "processing", !.due = FALSE]
<1>1. j \in Held(p)
  BY DEF RunStart, Held
<1>2. jobs \in JobTable /\ jobs[j] \in JobRow
  BY TypeIs DEF OutboxInv, JobTable
<1>3. row \in JobRow /\ row.key = jobs[j].key /\ row.expiry = jobs[j].expiry /\ row.status \in Open
  BY <1>2 DEF JobRow, Open
<1>4. jobs' = [jobs EXCEPT ![j] = row] /\ UNCHANGED <<objects, refs, shown, quota>>
  BY <1>2 DEF RunStart, JobTable
<1>5. calls' = [calls EXCEPT ![p].pc = "check", ![p].job = j, ![p].todo = @ \ {j}]
  BY DEF RunStart
<1> HIDE DEF row
<1>6. /\ Moved(p, calls'[p]) /\ Held(p)' \subseteq Held(p)
      /\ calls'[p].key = calls[p].key /\ calls'[p].source = calls[p].source
      /\ calls'[p].pc = "check"
  BY <1>1, <1>5, WorksOn
<1>7. calls'[p].pc \notin Bringing \cup {"done"}
  BY <1>6 DEF Bringing, Storing
<1> QED
  BY <1>1, <1>3, <1>4, <1>6, <1>7, RowSound

LEMMA RunCheckSound ==
    ASSUME OutboxInv, NEW p \in Procs, NEW j \in Slots, RunCheck(p, j) PROVE OutboxInv'
<1> DEFINE pc == IF jobs[j].key \in refs THEN "done" ELSE "delete"
<1>1. j \in Held(p)
  BY OutboxAssumption DEF RunCheck, Held
<1>2. calls' = [calls EXCEPT ![p].pc = pc, ![p].job = j, ![p].todo = @ \ {j}]
      /\ UNCHANGED <<objects, refs, shown, jobs, quota>>
  BY DEF RunCheck
<1>3. pc \in {"check", "delete", "done"} /\ pc \notin Bringing /\ (pc = "done" => jobs[j].key \in refs)
  BY DEF Bringing, Storing
<1> HIDE DEF pc
<1>4. /\ Moved(p, calls'[p]) /\ Held(p)' \subseteq Held(p)
      /\ calls'[p].key = calls[p].key /\ calls'[p].source = calls[p].source
      /\ calls'[p].pc = pc /\ calls'[p].job = j
  BY <1>1, <1>2, <1>3, WorksOn
<1> QED
  BY <1>2, <1>3, <1>4, CheckSound

LEMMA CleanerGoes ==
    ASSUME OutboxInv, NEW p \in Procs, calls[p].pc \in Cleaners, NEW pc \in Cleaners, Goto(p, pc)
    PROVE  Moved(p, [calls[p] EXCEPT !.pc = pc])
<1> DEFINE c == [calls[p] EXCEPT !.pc = pc]
<1>1. Basic
  BY DEF OutboxInv, Basic
<1>2. /\ c.pc = pc /\ c.job = calls[p].job /\ c.todo = calls[p].todo
      /\ c.source = calls[p].source /\ c.key = calls[p].key
  BY <1>1, CallIs
<1>3. CallFits(calls[p])
  BY <1>1, CallIs
<1> HIDE DEF c
<1>4. CallFits(c)
  BY <1>2, <1>3 DEF CallFits, Bringing, Storing, GivingUp, Cleaners
<1>5. CallFits([calls[p] EXCEPT !.pc = pc]) /\ pc \in Pcs
  BY <1>4 DEF c, Pcs, Cleaners
<1> QED
  BY <1>1, <1>5, GotoMoves

\* The job's object is removed, or is not and the job has failed.
LEMMA DeletionSound ==
    ASSUME OutboxInv, NEW p \in Procs, At(p, "delete"), NEW pc \in {"done", "failed"}, Goto(p, pc),
           UNCHANGED objects \/ objects' = objects \ {jobs[calls[p].job].key},
           pc = "done" => objects' = objects \ {jobs[calls[p].job].key},
           UNCHANGED <<refs, shown, jobs, quota>>
    PROVE  OutboxInv' /\ Moved(p, [calls[p] EXCEPT !.pc = pc])
<1> DEFINE c == [calls[p] EXCEPT !.pc = pc]
<1>1. Basic
  BY DEF OutboxInv, Basic
<1>2. Moved(p, [calls[p] EXCEPT !.pc = pc])
  BY CleanerGoes DEF At, Cleaners
<1>3. /\ calls'[p].key = calls[p].key /\ calls'[p].source = calls[p].source
      /\ calls'[p].pc = pc /\ calls'[p].job = calls[p].job /\ Held(p)' = Held(p)
  BY <1>1, <1>2, GotoHolds
<1>4. Moved(p, calls'[p])
  BY <1>2 DEF Moved
<1>5. calls'[p].pc \notin Bringing
  BY <1>3 DEF Bringing, Storing
<1>6. calls'[p].pc = "done" => jobs[calls'[p].job].key \notin objects'
  BY <1>3
<1>7. UNCHANGED <<refs, shown, jobs, quota>>
  OBVIOUS
<1>8. OutboxInv'
  BY <1>3, <1>4, <1>5, <1>6, <1>7, CheckSound
<1> QED
  BY <1>2, <1>8

LEMMA RunDeleteSound == ASSUME OutboxInv, NEW p \in Procs, RunDelete(p) PROVE OutboxInv'
BY DeletionSound DEF RunDelete

LEMMA RunDeleteFailsSound ==
    ASSUME OutboxInv, NEW p \in Procs, RunDeleteFails(p) PROVE OutboxInv'
BY DeletionSound DEF RunDeleteFails

\* After a job the call takes the next one, or ends.
LEMMA NextJobMoves ==
    ASSUME OutboxInv, NEW p \in Procs, NextJob(p)
    PROVE  /\ Moved(p, calls'[p]) /\ Held(p)' \subseteq Held(p)
           /\ calls'[p].key \in {calls[p].key, None} /\ calls'[p].source \in {calls[p].source, None}
           /\ calls'[p].pc \in {"idle", "run"} /\ calls'[p].todo = calls[p].todo
           /\ calls[p].todo # {} => calls'[p].claimed = calls[p].claimed
<1> DEFINE c == IF calls[p].todo = {} THEN IdleCall ELSE [calls[p] EXCEPT !.pc = "run", !.job = None]
<1>1. Basic
  BY DEF OutboxInv, Basic
<1>2. CASE calls[p].todo = {}
  <2>1. EndCall(p)
    <3>1. calls \in [Procs -> Call]
      BY <1>1, TypeIs DEF Basic
    <3> QED
      BY <1>2, <3>1 DEF NextJob, EndCall
  <2>2. Moved(p, IdleCall)
    BY <1>1, <2>1, EndMoves
  <2>3. Moved(p, calls'[p])
    BY <2>2 DEF Moved
  <2> QED
    BY <1>2, <2>2, <2>3, IdleHolds
<1>3. CASE calls[p].todo # {}
  <2> DEFINE d == [calls[p] EXCEPT !.pc = "run", !.job = None]
  <2>1. /\ d.pc = "run" /\ d.job = None /\ d.todo = calls[p].todo /\ d.claimed = calls[p].claimed
        /\ d.source = calls[p].source /\ d.key = calls[p].key
    BY <1>1, CallIs
  <2>2. d \in Call
    BY <1>1, CallIs DEF Call, Pcs
  <2>3. calls' = [calls EXCEPT ![p] = d]
    <3>1. calls \in [Procs -> Call]
      BY <1>1, TypeIs DEF Basic
    <3> QED
      BY <1>3, <3>1 DEF NextJob
  <2> HIDE DEF d
  <2>4. CallFits(d)
    BY <2>1 DEF CallFits, Bringing, Storing, GivingUp, Cleaners
  <2>5. Moved(p, d) /\ calls'[p] = d
    BY <1>1, <2>2, <2>3, <2>4, CallMoves DEF Moved
  <2>6. Held(p)' \subseteq Held(p)
    BY <2>1, <2>5 DEF Held
  <2> QED
    BY <2>1, <2>5, <2>6
<1> QED
  BY <1>2, <1>3

LEMMA RunFinishSound == ASSUME OutboxInv, NEW p \in Procs, RunFinish(p) PROVE OutboxInv'
<1> DEFINE j == calls[p].job
           row == IF At(p, "done") THEN Completed(jobs[j])
                  ELSE [jobs[j] EXCEPT !.status = "failed", !.due = FALSE]
<1>1. j \in Slots /\ j \in Held(p)
  BY JobHeld DEF RunFinish, At, Cleaners
<1>2. jobs[j] \in JobRow
  BY <1>1, TypeIs DEF OutboxInv, JobTable
<1>3. row \in JobRow /\ row.key = jobs[j].key /\ row.expiry = jobs[j].expiry
      /\ (row.status \in Open \/ At(p, "done"))
  BY <1>2 DEF JobRow, Completed, Open
<1>4. jobs' = [jobs EXCEPT ![j] = row] /\ UNCHANGED <<objects, refs, shown, quota>>
  BY DEF RunFinish
<1>5. /\ Moved(p, calls'[p]) /\ Held(p)' \subseteq Held(p)
      /\ calls'[p].key \in {calls[p].key, None} /\ calls'[p].source \in {calls[p].source, None}
      /\ calls'[p].pc \in {"idle", "run"}
  BY NextJobMoves DEF RunFinish
<1>6. calls'[p].pc \notin Bringing \cup {"done"}
  BY <1>5 DEF Bringing, Storing
<1>7. At(p, "done") => calls[p].job = j
  OBVIOUS
<1> HIDE DEF row, j
<1> QED
  BY <1>1, <1>3, <1>4, <1>5, <1>6, <1>7, RowSound

-----------------------------------------------------------------------------
(* References come and go                                                    *)

LEMMA Entered ==
    ASSUME NEW keys \in SUBSET Keys, NEW slotOf \in Placements(keys), NEW table \in JobTable,
           jobs' = Enqueued(table, slotOf)
    PROVE  /\ jobs' \in JobTable
           /\ \A k \in keys : /\ slotOf[k] \in Free /\ ~jobs'[slotOf[k]].expiry
                              /\ jobs'[slotOf[k]].key = k /\ jobs'[slotOf[k]].status \in Open
           /\ \A j \in Slots : (\E k \in keys : slotOf[k] = j) \/ jobs'[j] = table[j]
<1> DEFINE new == Enqueued(table, slotOf)
<1>1. /\ new \in JobTable
      /\ \A k \in keys : slotOf[k] \in Free /\ new[slotOf[k]] = Row(k, "pending", TRUE)
      /\ \A j \in Slots : (\E k \in keys : slotOf[k] = j) \/ new[j] = table[j]
  BY EnqueuedIs
<1>2. \A k \in keys : /\ Row(k, "pending", TRUE).key = k /\ Row(k, "pending", TRUE).status \in Open
                     /\ ~Row(k, "pending", TRUE).expiry
  BY DEF Row, Open
<1>3. jobs' = new
  OBVIOUS
<1> HIDE DEF new
<1>4. ASSUME NEW k \in keys
      PROVE  /\ slotOf[k] \in Free /\ ~jobs'[slotOf[k]].expiry
             /\ jobs'[slotOf[k]].key = k /\ jobs'[slotOf[k]].status \in Open
  <2>1. slotOf[k] \in Free /\ jobs'[slotOf[k]] = Row(k, "pending", TRUE)
    BY <1>1, <1>3
  <2> QED
    BY <1>2, <2>1
<1> QED
  BY <1>1, <1>3, <1>4

\* References are removed, jobs for them are entered, and an upload's own key may
\* be referred to in the same commit.
LEMMA ReplaceSound ==
    ASSUME OutboxInv, NEW p \in Procs, NEW c, Moved(p, c), c.pc \notin Bringing \cup {"done"},
           c.key \in {calls[p].key, None}, c.source \in {calls[p].source, None},
           NEW old \in SUBSET refs, NEW slotOf \in Placements(old), NEW table,
           jobs' = Enqueued(table, slotOf), NEW added \in SUBSET {calls[p].key},
           IF added = {} THEN table = jobs
           ELSE At(p, "attach") /\ table = [jobs EXCEPT ![calls[p].job] = Completed(@)],
           Refer((refs \ old) \cup added), UNCHANGED <<objects, quota>>,
           \A i \in Slots : i \in Held(p)' => i \in Held(p) \/ \E k \in old : slotOf[k] = i
    PROVE  OutboxInv'
<1> DEFINE j == calls[p].job
           k == calls[p].key
<1>1. calls'[p] = c /\ Alone(p) /\ calls' \in [Procs -> Call] /\ Fitting'
  BY DEF Moved
<1>2. jobs \in JobTable /\ refs \subseteq Keys /\ objects \subseteq Keys
  BY TypeIs DEF OutboxInv
<1>3. added # {} => j \in Slots /\ j \in Held(p) /\ k \in Keys
  BY JobHeld DEF OutboxInv, Fitting, CallFits, At, Bringing, Storing
<1>4. table \in JobTable /\ \A i \in Slots : \/ table[i] = jobs[i]
                                             \/ added # {} /\ i = j /\ table[i] = Completed(jobs[j])
  <2>1. CASE added = {}
    BY <1>2, <2>1
  <2>2. CASE added # {}
    <3>1. table = [jobs EXCEPT ![j] = Completed(jobs[j])] /\ j \in Slots
      BY <1>3, <2>2
    <3>2. jobs[j] \in JobRow
      BY <1>2, <1>3, <2>2 DEF JobTable
    <3>3. Completed(jobs[j]) \in JobRow
      BY <3>2, RewrittenIs
    <3> QED
      BY <1>2, <2>2, <3>1, <3>3 DEF JobTable
  <2> QED
    BY <2>1, <2>2
<1>5. \A i \in Slots : table[i] = jobs[i] \/ (table[i].key = jobs[i].key /\ table[i].expiry = jobs[i].expiry /\ i \in Held(p))
  <2>1. added # {} => jobs[j] \in JobRow
    BY <1>2, <1>3 DEF JobTable
  <2>2. added # {} => Completed(jobs[j]).key = jobs[j].key /\ Completed(jobs[j]).expiry = jobs[j].expiry
    BY <2>1 DEF Completed, JobRow
  <2> QED
    BY <1>3, <1>4, <2>2
<1>6. /\ jobs' \in JobTable
      /\ \A l \in old : slotOf[l] \in Free
      /\ \A i \in Slots : (\E l \in old : slotOf[l] = i) \/ jobs'[i] = table[i]
  BY <1>2, <1>4, Entered
<1>7. \A l \in old : jobs'[slotOf[l]].key = l /\ jobs'[slotOf[l]].status \in Open
  BY <1>2, <1>4, Entered
<1>8. TypeOK'
  <2>1. refs' \subseteq Keys /\ shown' \subseteq Reattach
    BY <1>2, <1>3, TypeIs DEF Refer, OutboxInv
  <2> QED
    BY <1>1, <1>6, <2>1, TypeIs, TypeIsNext DEF OutboxInv
<1>9. Respects(p, refs)
  <2>1. ASSUME NEW i \in Slots
        PROVE  \/ jobs'[i] = jobs[i]
               \/ i \in Free /\ jobs'[i].key \in refs
               \/ SameUse(i) /\ i \in Held(p)
    <3>1. CASE \E l \in old : slotOf[l] = i
      <4>1. PICK l \in old : slotOf[l] = i
        BY <3>1
      <4>2. i \in Free /\ jobs'[i].key = l
        BY <1>6, <1>7, <4>1
      <4> QED
        BY <4>2
    <3>2. CASE jobs'[i] = table[i]
      BY <1>5, <3>2 DEF SameUse
    <3> QED
      BY <1>6, <3>1, <3>2
  <2>2. ASSUME NEW i \in Slots, i \in Held(p)'
        PROVE  i \in Held(p) \/ (i \in Free /\ jobs'[i].key \in refs)
    <3>1. CASE i \in Held(p)
      BY <3>1
    <3>2. CASE i \notin Held(p)
      <4>1. PICK l \in old : slotOf[l] = i
        BY <2>2, <3>2
      <4>2. i \in Free /\ jobs'[i].key = l
        BY <1>6, <1>7, <4>1
      <4> QED
        BY <4>2
    <3> QED
      BY <3>1, <3>2
  <2>3. refs' \cup shown' \subseteq refs \cup shown \cup {k}
    BY DEF Refer
  <2> QED
    BY <1>1, <2>1, <2>2, <2>3 DEF Respects
<1>10. ASSUME Prompt, NEW l \in objects' \ refs' PROVE Covered(l)'
  <2>1. CASE l \in old
    <3>1. slotOf[l] \in Free /\ jobs'[slotOf[l]].key = l /\ jobs'[slotOf[l]].status \in Open
      BY <1>6, <1>7, <2>1
    <3> QED
      BY <1>1, <3>1, CoverNew DEF OutboxInv, Basic
  <2>2. CASE l \notin old
    <3>1. l \in objects \ refs /\ (added # {} => l # k)
      BY <1>10, <2>2 DEF Refer
    <3>2. ASSUME NEW i \in OpenJobs(l) PROVE jobs'[i].status \in Open /\ jobs'[i].key = l
      <4>1. i \in Slots /\ jobs[i].status \in Open /\ jobs[i].key = l
        BY DEF OpenJobs
      <4>2. i \notin Free
        BY <4>1 DEF Free, Open
      <4>3. jobs'[i] = table[i]
        BY <1>6, <4>1, <4>2
      <4>4. ASSUME added # {} PROVE i # j
        <5>1. calls[p].pc \in Bringing
          BY <4>4 DEF At, Bringing, Storing
        <5>2. jobs[j] = Intended(k, At(p, "stage_put"))
          BY <1>10, <5>1 DEF OutboxInv, Owns
        <5>3. jobs[j].key = k
          BY <5>2 DEF Intended, Row
        <5> QED
          BY <3>1, <4>1, <4>4, <5>3
      <4> QED
        BY <1>4, <4>1, <4>3, <4>4
    <3> QED
      BY <1>1, <1>10, <3>1, <3>2, CoversStay
  <2> QED
    BY <2>1, <2>2
<1>11. Owns(p)'
  BY <1>1 DEF Owns
<1>12. Prompt => Unowned(p, refs)
  BY UnownedKeys
<1> QED
  BY <1>1, <1>8, <1>9, <1>10, <1>11, <1>12, StepSound

LEMMA PlacedIs ==
    ASSUME NEW keys, NEW slotOf \in Placements(keys)
    PROVE  {slotOf[k] : k \in keys} \in SUBSET Slots
BY DEF Placements, Free

LEMMA AttachSound == ASSUME OutboxInv, NEW p \in Procs, Attach(p) PROVE OutboxInv'
<1>0. PICK old \in {{}} \cup {{k} : k \in refs} : \E slotOf \in Placements(old) :
          /\ Refer((refs \ old) \cup {calls[p].key})
          /\ jobs' = Enqueued([jobs EXCEPT ![calls[p].job] = Completed(@)], slotOf)
          /\ Run(p, {slotOf[k] : k \in old}, FALSE)
  BY DEF Attach
<1>1. PICK slotOf \in Placements(old) :
          /\ Refer((refs \ old) \cup {calls[p].key})
          /\ jobs' = Enqueued([jobs EXCEPT ![calls[p].job] = Completed(@)], slotOf)
          /\ Run(p, {slotOf[k] : k \in old}, FALSE)
  BY <1>0
<1> DEFINE todo == {slotOf[k] : k \in old}
           c == Running(todo, FALSE)
           table == [jobs EXCEPT ![calls[p].job] = Completed(@)]
<1>2. todo \in SUBSET Slots /\ old \in SUBSET refs
  BY PlacedIs
<1>3. Run(p, todo, FALSE) /\ jobs' = Enqueued(table, slotOf) /\ Refer((refs \ old) \cup {calls[p].key})
  BY <1>1
<1>4. \A i \in todo : \E k \in old : slotOf[k] = i
  OBVIOUS
<1> HIDE DEF todo
<1>5. Moved(p, c)
  BY <1>2, <1>3, RunMoves DEF OutboxInv, Basic
<1>6. c.key = None /\ c.source = None /\ c.pc \in {"idle", "run"} /\ Held(p)' = todo
  <2>1. calls'[p] = c
    BY <1>5 DEF Moved
  <2>2. todo \in SUBSET Slots /\ FALSE \in BOOLEAN /\ Moved(p, Running(todo, FALSE))
    BY <1>2, <1>5
  <2>3. /\ calls'[p].key = None /\ calls'[p].source = None
        /\ calls'[p].pc \in {"idle", "run"} /\ Held(p)' = todo
    BY <2>2, RunningHolds
  <2> HIDE DEF c
  <2> QED
    BY <2>1, <2>3
<1>7. c.pc \notin Bringing \cup {"done"}
  BY <1>6 DEF Bringing, Storing
<1>8. At(p, "attach") /\ UNCHANGED <<objects, quota>>
  BY DEF Attach
<1>9. \A i \in Slots : i \in Held(p)' => i \in Held(p) \/ \E k \in old : slotOf[k] = i
  BY <1>4, <1>6
<1>10. table = [jobs EXCEPT ![calls[p].job] = Completed(@)]
  OBVIOUS
<1> HIDE DEF c, table
<1> DEFINE added == {calls[p].key}
<1>11. added \in SUBSET {calls[p].key} /\ added # {} /\ Refer((refs \ old) \cup added)
  BY <1>3
<1>12. IF added = {} THEN table = jobs
       ELSE At(p, "attach") /\ table = [jobs EXCEPT ![calls[p].job] = Completed(@)]
  BY <1>8, <1>10, <1>11
<1> HIDE DEF added
<1> QED
  BY <1>2, <1>3, <1>5, <1>6, <1>7, <1>8, <1>9, <1>11, <1>12, ReplaceSound

LEMMA DeleteSound ==
    ASSUME OutboxInv, NEW p \in Procs, NEW keys \in SUBSET Keys, NEW run \in BOOLEAN,
           Delete(p, keys, run)
    PROVE  OutboxInv'
<1>1. PICK slotOf \in Placements(keys) :
          /\ jobs' = Enqueued(jobs, slotOf)
          /\ IF run THEN Run(p, {slotOf[k] : k \in keys}, FALSE) ELSE UNCHANGED calls
  BY DEF Delete
<1> DEFINE todo == {slotOf[k] : k \in keys}
<1>2. todo \in SUBSET Slots /\ keys \in SUBSET refs /\ At(p, "idle") /\ UNCHANGED <<objects, quota>>
  BY PlacedIs DEF Delete
<1>3. \A i \in todo : \E k \in keys : slotOf[k] = i
  OBVIOUS
<1>4. (IF run THEN Run(p, todo, FALSE) ELSE UNCHANGED calls) /\ jobs' = Enqueued(jobs, slotOf)
  BY <1>1
<1> HIDE DEF todo
<1>5. Basic
  BY DEF OutboxInv, Basic
<1>6. /\ Moved(p, calls'[p]) /\ calls'[p].pc \in {"idle", "run"}
      /\ calls'[p].key \in {calls[p].key, None} /\ calls'[p].source \in {calls[p].source, None}
      /\ Held(p)' = Held(p) \/ Held(p)' = todo
  <2>1. CASE run
    <3>1. Moved(p, Running(todo, FALSE))
      BY <1>2, <1>4, <1>5, <2>1, RunMoves
    <3>2. Moved(p, calls'[p])
      BY <3>1 DEF Moved
    <3> QED
      BY <1>2, <3>1, <3>2, RunningHolds
  <2>2. CASE ~run
    <3>1. UNCHANGED calls
      BY <1>4, <2>2
    <3>2. Moved(p, calls'[p])
      BY <1>5, <3>1, TypeIs DEF Moved, Basic, Fitting, Alone
    <3> QED
      BY <1>2, <3>1, <3>2 DEF Held, At
  <2> QED
    BY <2>1, <2>2
<1>7. calls'[p].pc \notin Bringing \cup {"done"}
  BY <1>6 DEF Bringing, Storing
<1>8. \A i \in Slots : i \in Held(p)' => i \in Held(p) \/ \E k \in keys : slotOf[k] = i
  BY <1>3, <1>6
<1> DEFINE added == {}
<1>9. added \in SUBSET {calls[p].key} /\ added = {} /\ Refer((refs \ keys) \cup added)
  BY DEF Delete
<1>10. IF added = {} THEN jobs = jobs
       ELSE At(p, "attach") /\ jobs = [jobs EXCEPT ![calls[p].job] = Completed(@)]
  OBVIOUS
<1> HIDE DEF added
<1> QED
  BY <1>1, <1>2, <1>4, <1>6, <1>7, <1>8, <1>9, <1>10, ReplaceSound

LEMMA ReattachCommitSound == ASSUME OutboxInv, NEW p \in Procs, ReattachCommit(p) PROVE OutboxInv'
<1>1. Moved(p, IdleCall)
  BY EndMoves DEF ReattachCommit, OutboxInv, Basic
<1>2. calls'[p] = IdleCall /\ Alone(p) /\ calls' \in [Procs -> Call] /\ Fitting'
  BY <1>1 DEF Moved
<1>3. IdleCall.key = None /\ IdleCall.source = None /\ IdleCall.pc = "idle" /\ Held(p)' = {}
  BY <1>1, IdleHolds DEF IdleCall
<1>4. calls[p].key \in Keys
  BY DEF ReattachCommit, OutboxInv, Fitting, CallFits, At
<1>5. refs' = refs \cup {calls[p].key} /\ shown' = shown \cup (refs' \cap Reattach)
      /\ UNCHANGED <<objects, jobs, quota>>
  BY DEF ReattachCommit, Refer
<1> HIDE DEF IdleCall
<1>6. TypeOK'
  BY <1>2, <1>4, <1>5, TypeIs, TypeIsNext DEF OutboxInv
<1>7. Respects(p, {})
  BY <1>2, <1>3, <1>5 DEF Respects
<1>8. Owns(p)'
  BY <1>2, <1>3 DEF Owns, Bringing, Storing
<1>9. ASSUME Prompt, NEW k \in objects' \ refs' PROVE Covered(k)'
  <2>1. k \in objects \ refs /\ IdleCall.pc # "done"
    BY <1>3, <1>5, <1>9
  <2> QED
    BY <1>2, <1>5, <1>9, <2>1, CoversStay DEF OpenJobs
<1>10. Unowned(p, {})
  BY DEF Unowned
<1> QED
  BY <1>2, <1>6, <1>7, <1>8, <1>9, <1>10, StepSound

-----------------------------------------------------------------------------
(* Expiries end and a new row takes over                                     *)

\* The expiries of s and the rows in own are completed, and a new row is for s.
EndsExpiries(s, own, new) ==
    jobs' = [i \in Slots |->
        IF i = new THEN Row(s, "pending", TRUE)
        ELSE IF i \in own \/ i \in OpenJobs(s) \cap ExpiryJobs THEN Completed(jobs[i])
        ELSE jobs[i]]

LEMMA TakenOver ==
    ASSUME OutboxInv, NEW p \in Procs, NEW c, Moved(p, c), c.pc \notin Bringing \cup {"done"},
           c.key = None, c.source = None,
           NEW s \in StagedKeys, s = calls[p].source \/ (Prompt => ~BeingStaged(s)),
           NEW new \in Free, Held(p)' \subseteq Held(p) \cup {new},
           NEW own \in SUBSET {calls[p].job}, NEW added \in SUBSET {calls[p].key},
           own # {} => At(p, "promote") /\ added # {}, added # {} => At(p, "promote"),
           EndsExpiries(s, own, new),
           refs' = refs \cup added, shown' \subseteq Reattach,
           shown' \subseteq shown \cup refs', UNCHANGED <<objects, quota>>
    PROVE  OutboxInv'
<1> DEFINE ended(i) == i \in own \/ i \in OpenJobs(s) \cap ExpiryJobs
<1>1. calls'[p] = c /\ Alone(p) /\ calls' \in [Procs -> Call] /\ Fitting'
  BY DEF Moved
<1>2. jobs \in JobTable /\ refs \subseteq Keys /\ s \in Keys
  BY TypeIs, OutboxAssumption DEF OutboxInv
<1>3. added # {} => calls[p].key \in Keys /\ calls[p].job \in Slots /\ calls[p].job \in Held(p)
  BY JobHeld DEF OutboxInv, Fitting, CallFits, At, Bringing, Storing
<1>4. new \in Slots /\ jobs'[new] = Row(s, "pending", TRUE)
  BY DEF Free, EndsExpiries
<1>5. \A i \in Slots \ {new} : jobs'[i] = IF ended(i) THEN Completed(jobs[i]) ELSE jobs[i]
  BY DEF EndsExpiries
<1>6. jobs' = [i \in Slots |-> jobs'[i]]
  BY DEF EndsExpiries
<1> HIDE DEF ended
<1>7. Row(s, "pending", TRUE) \in JobRow /\ Row(s, "pending", TRUE).key = s
      /\ Row(s, "pending", TRUE).status \in Open
  BY <1>2, RowIs DEF Open, Row
<1>8. \A i \in Slots : /\ jobs[i] \in JobRow /\ Completed(jobs[i]) \in JobRow
                       /\ Completed(jobs[i]).key = jobs[i].key
                       /\ Completed(jobs[i]).expiry = jobs[i].expiry
  <2>1. \A i \in Slots : jobs[i] \in JobRow
    BY <1>2 DEF JobTable
  <2> QED
    BY <2>1, RewrittenIs DEF Completed, JobRow
<1>9. jobs' \in JobTable
  BY <1>4, <1>5, <1>6, <1>7, <1>8 DEF JobTable
<1>10. TypeOK'
  <2>1. refs' \subseteq Keys
    BY <1>2, <1>3
  <2> QED
    BY <1>1, <1>9, <2>1, TypeIs, TypeIsNext DEF OutboxInv
<1>11. Respects(p, {s})
  <2>1. ASSUME NEW i \in Slots
        PROVE  \/ jobs'[i] = jobs[i]
               \/ i \in Free /\ jobs'[i].key \in {s}
               \/ SameUse(i) /\ (i \in Held(p) \/ Endable(p, i))
    <3>1. CASE i = new
      BY <1>4, <1>7, <3>1
    <3>2. CASE i # new /\ ended(i)
      <4>1. SameUse(i)
        BY <1>5, <1>8, <3>2 DEF SameUse
      <4>2. i \in Held(p) \/ Endable(p, i)
        BY <1>3, <3>2 DEF ended, Endable, OpenJobs
      <4> QED
        BY <4>1, <4>2
    <3>3. CASE i # new /\ ~ended(i)
      BY <1>5, <3>3
    <3> QED
      BY <3>1, <3>2, <3>3
  <2>2. ASSUME NEW i \in Slots, i \in Held(p)'
        PROVE  i \in Held(p) \/ (i \in Free /\ jobs'[i].key \in {s})
    BY <1>4, <1>7, <2>2
  <2>3. refs' \cup shown' \subseteq refs \cup shown \cup {calls[p].key}
    OBVIOUS
  <2> QED
    BY <1>1, <2>1, <2>2, <2>3 DEF Respects
<1>12. ASSUME Prompt, NEW l \in objects' \ refs' PROVE Covered(l)'
  <2>1. CASE l = s
    BY <1>1, <1>4, <1>7, <2>1, CoverNew DEF OutboxInv, Basic
  <2>2. CASE l # s
    <3>1. ASSUME NEW i \in OpenJobs(l) PROVE jobs'[i].status \in Open /\ jobs'[i].key = l
      <4>1. i \in Slots /\ jobs[i].status \in Open /\ jobs[i].key = l
        BY DEF OpenJobs
      <4>2. i # new
        BY <4>1 DEF Free, Open
      <4>3. i \notin OpenJobs(s)
        BY <2>2, <4>1 DEF OpenJobs
      <4>4. ASSUME i \in own PROVE FALSE
        <5>1. calls[p].pc \in Bringing /\ i = calls[p].job /\ l # calls[p].key
          BY <1>12, <4>4 DEF At, Bringing, Storing
        <5>2. jobs[i] = Intended(calls[p].key, At(p, "stage_put"))
          BY <1>12, <5>1 DEF OutboxInv, Owns
        <5>3. jobs[i].key = calls[p].key
          BY <5>2 DEF Intended, Row
        <5> QED
          BY <4>1, <5>1, <5>3
      <4> QED
        BY <1>5, <4>1, <4>2, <4>3, <4>4 DEF ended
    <3>2. l \in objects \ refs
      BY <1>12
    <3> QED
      BY <1>1, <1>12, <3>1, <3>2, CoversStay
  <2> QED
    BY <2>1, <2>2
<1>13. Owns(p)'
  BY <1>1 DEF Owns
<1>14. Prompt => Unowned(p, {s})
  BY UnownedKeys
<1> QED
  BY <1>1, <1>10, <1>11, <1>12, <1>13, <1>14, StepSound

LEMMA StageCancelSound ==
    ASSUME OutboxInv, NEW p \in Procs, NEW k \in StagedKeys, StageCancel(p, k) PROVE OutboxInv'
<1>1. PICK j \in Free :
          /\ jobs' = [i \in Slots |->
                 IF i = j THEN Row(k, "pending", TRUE)
                 ELSE IF i \in OpenJobs(k) \cap ExpiryJobs THEN Completed(jobs[i])
                 ELSE jobs[i]]
          /\ Run(p, {j}, FALSE)
  BY DEF StageCancel
<1>2. UNCHANGED <<objects, refs, shown, quota>> /\ (Prompt => ~BeingStaged(k)) /\ Basic
  BY DEF StageCancel, OutboxInv, Basic
<1>3. {j} \in SUBSET Slots /\ FALSE \in BOOLEAN
  BY DEF Free
<1>4. Moved(p, Running({j}, FALSE))
  BY <1>1, <1>2, <1>3, RunMoves
<1>5. /\ calls'[p].key = None /\ calls'[p].source = None
      /\ calls'[p].pc \in {"idle", "run"} /\ Held(p)' = {j} /\ Moved(p, calls'[p])
  BY <1>3, <1>4, RunningHolds DEF Moved
<1>6. calls'[p].pc \notin Bringing \cup {"done"}
  BY <1>5 DEF Bringing, Storing
<1> DEFINE own == {}
<1>7. EndsExpiries(k, own, j)
  BY <1>1 DEF EndsExpiries
<1>8. own \in SUBSET {calls[p].job} /\ own \in SUBSET {calls[p].key} /\ own = {}
  OBVIOUS
<1>9. refs' = refs \cup own /\ shown' \subseteq Reattach /\ shown' \subseteq shown \cup refs'
  BY <1>2, TypeIs DEF Basic
<1> HIDE DEF own
<1> QED
  BY <1>2, <1>5, <1>6, <1>7, <1>8, <1>9, TakenOver

LEMMA ImportPromoteSound == ASSUME OutboxInv, NEW p \in Procs, ImportPromote(p) PROVE OutboxInv'
<1> DEFINE s == calls[p].source
           own == {calls[p].job}
           added == {calls[p].key}
<1>0. PICK new \in Free :
          jobs' = [i \in Slots |->
              IF i = new THEN Row(s, "pending", TRUE)
              ELSE IF i = calls[p].job \/ i \in OpenJobs(s) \cap ExpiryJobs
                   THEN Completed(jobs[i])
              ELSE jobs[i]]
  BY DEF ImportPromote
<1>1. EndsExpiries(s, own, new)
  BY <1>0 DEF EndsExpiries
<1>2. UNCHANGED <<objects, quota>> /\ At(p, "promote") /\ refs' = refs \cup added
      /\ shown' = shown \cup (refs' \cap Reattach)
  BY DEF ImportPromote, Refer
<1>3. Moved(p, IdleCall)
  BY EndMoves DEF ImportPromote, OutboxInv, Basic
<1>4. IdleCall.key = None /\ IdleCall.source = None /\ IdleCall.pc = "idle" /\ Held(p)' = {}
  BY <1>3, IdleHolds DEF IdleCall
<1>5. IdleCall.pc \notin Bringing \cup {"done"}
  BY <1>4 DEF Bringing, Storing
<1>6. s \in StagedKeys /\ s = calls[p].source
  BY <1>2 DEF At, OutboxInv, Fitting, CallFits
<1>7. shown' \subseteq Reattach /\ shown' \subseteq shown \cup refs'
  BY <1>2, TypeIs DEF OutboxInv
<1>8. own \in SUBSET {calls[p].job} /\ added \in SUBSET {calls[p].key} /\ added # {}
      /\ Held(p)' \subseteq Held(p) \cup {new}
  BY <1>4
<1> HIDE DEF own, added, s, IdleCall
<1> QED
  BY <1>1, <1>2, <1>3, <1>4, <1>5, <1>6, <1>7, <1>8, TakenOver

-----------------------------------------------------------------------------
(* Claims and the passing of time                                            *)

LEMMA ClaimSound ==
    ASSUME OutboxInv, NEW p \in Procs, NEW taken \in SUBSET Slots,
           \A j \in taken : Takeable(j), Claim(p, taken)
    PROVE  OutboxInv'
<1>1. Moved(p, Running(taken, TRUE))
  BY RunMoves DEF Claim, OutboxInv, Basic
<1>2. /\ calls'[p].key = None /\ calls'[p].source = None
      /\ calls'[p].pc \in {"idle", "run"} /\ Held(p)' = taken
  BY <1>1, RunningHolds
<1>3. Alone(p) /\ calls' \in [Procs -> Call] /\ Fitting'
  BY <1>1 DEF Moved
<1>4. jobs \in JobTable /\ UNCHANGED <<objects, refs, shown, quota>>
  BY TypeIs DEF OutboxInv, Claim
<1>5. \A i \in Slots : jobs'[i] = IF i \in taken /\ jobs[i].status # "processing"
                                  THEN [jobs[i] EXCEPT !.status = "processing", !.due = FALSE]
                                  ELSE jobs[i]
  BY DEF Claim
<1>6. ASSUME NEW i \in Slots
      PROVE  /\ jobs'[i] \in JobRow /\ SameUse(i) /\ (i \notin taken => jobs'[i] = jobs[i])
             /\ jobs[i].status \in Open => jobs'[i].status \in Open
  <2>1. jobs[i] \in JobRow
    BY <1>4 DEF JobTable
  <2> DEFINE row == [jobs[i] EXCEPT !.status = "processing", !.due = FALSE]
  <2>2. row \in JobRow /\ row.key = jobs[i].key /\ row.expiry = jobs[i].expiry /\ row.status \in Open
    BY <2>1 DEF JobRow, Open
  <2> HIDE DEF row
  <2>3. jobs'[i] = row \/ jobs'[i] = jobs[i]
    BY <1>5 DEF row
  <2>4. i \notin taken => jobs'[i] = jobs[i]
    BY <1>5
  <2> QED
    BY <2>1, <2>2, <2>3, <2>4 DEF SameUse
<1>7. jobs' \in JobTable
  <2>1. jobs' = [i \in Slots |-> jobs'[i]]
    BY DEF Claim
  <2> QED
    BY <1>6, <2>1 DEF JobTable
<1>8. TypeOK'
  BY <1>3, <1>4, <1>7, TypeIs, TypeIsNext DEF OutboxInv
<1>9. Respects(p, {})
  BY <1>2, <1>3, <1>4, <1>6 DEF Respects
<1>10. Owns(p)'
  BY <1>2 DEF Owns, Bringing, Storing
<1>11. ASSUME Prompt, NEW k \in objects' \ refs' PROVE Covered(k)'
  <2>1. \A i \in OpenJobs(k) : jobs'[i].status \in Open /\ jobs'[i].key = k
    BY <1>6 DEF OpenJobs, SameUse
  <2>2. k \in objects \ refs /\ calls'[p].pc # "done"
    BY <1>2, <1>4, <1>11
  <2> QED
    BY <1>3, <1>11, <2>1, <2>2, CoversStay
<1>12. Unowned(p, {})
  BY DEF Unowned
<1> QED
  BY <1>3, <1>8, <1>9, <1>10, <1>11, <1>12, StepSound

LEMMA WorkerClaimSound ==
    ASSUME OutboxInv, NEW p \in Procs, NEW taken \in SUBSET Slots, WorkerClaim(p, taken)
    PROVE  OutboxInv'
BY ClaimSound DEF WorkerClaim, Claimable, Takeable

LEMMA AdminRetrySound ==
    ASSUME OutboxInv, NEW p \in Procs, NEW j \in Slots, AdminRetry(p, j) PROVE OutboxInv'
<1>1. {j} \in SUBSET Slots /\ Claim(p, {j}) /\ \A i \in {j} : Takeable(i)
  BY DEF AdminRetry, Claimable, Takeable, Open
<1> QED
  BY <1>1, ClaimSound

LEMMA RipenIs ==
    ASSUME OutboxInv, NEW j \in Slots, Ripen(j)
    PROVE  /\ UNCHANGED <<objects, refs, shown, quota, calls>> /\ jobs' \in JobTable
           /\ \A i \in Slots : /\ jobs'[i].status = jobs[i].status /\ jobs'[i].key = jobs[i].key
                               /\ jobs'[i].expiry = jobs[i].expiry /\ (i # j => jobs'[i] = jobs[i])
<1>1. jobs \in JobTable /\ jobs[j] \in JobRow
  BY TypeIs DEF OutboxInv, JobTable
<1> DEFINE row == [jobs[j] EXCEPT !.due = TRUE]
<1>2. jobs' = [jobs EXCEPT ![j] = row] /\ UNCHANGED <<objects, refs, shown, quota, calls>>
  BY <1>1 DEF Ripen, JobTable
<1>3. /\ row \in JobRow /\ row.status = jobs[j].status /\ row.key = jobs[j].key
      /\ row.expiry = jobs[j].expiry
  BY <1>1 DEF JobRow
<1> HIDE DEF row
<1> QED
  BY <1>1, <1>2, <1>3 DEF JobTable

LEMMA RipenSound == ASSUME OutboxInv, NEW j \in Slots, Ripen(j) PROVE OutboxInv'
<1>1. /\ UNCHANGED <<objects, refs, shown, quota, calls>> /\ jobs' \in JobTable
      /\ \A i \in Slots : /\ jobs'[i].status = jobs[i].status /\ jobs'[i].key = jobs[i].key
                          /\ (i # j => jobs'[i] = jobs[i])
  BY RipenIs
<1>2. TypeOK' /\ Fitting'
  BY <1>1, TypeIs, TypeIsNext DEF OutboxInv, Fitting
<1>3. Free' = Free
  BY <1>1 DEF Free, Held
<1>4. ASSUME Prompt, NEW q \in Procs PROVE Owns(q)'
  <2>1. CASE calls[q].pc \notin Bringing
    BY <1>1, <2>1 DEF Owns
  <2>2. CASE calls[q].pc \in Bringing
    <3>1. calls[q].job \in Slots /\ calls[q].job \in Held(q)
      BY <2>2, JobHeld
    <3>2. jobs'[calls[q].job] = jobs[calls[q].job]
      BY <1>1, <1>4, <3>1 DEF Ripen
    <3>3. \A r \in Procs : Held(r)' = Held(r)
      BY <1>1 DEF Held
    <3>4. Owns(q)
      BY <1>4 DEF OutboxInv
    <3> QED
      BY <1>1, <1>3, <2>2, <3>1, <3>2, <3>3, <3>4 DEF Owns, At
  <2> QED
    BY <2>1, <2>2
<1>5. ASSUME Prompt, NEW k \in objects' \ refs' PROVE Covered(k)'
  <2>1. Covered(k)
    BY <1>1, <1>5 DEF OutboxInv
  <2> QED
    BY <1>1, <2>1 DEF Covered, OpenJobs, At
<1> QED
  BY <1>2, <1>4, <1>5 DEF OutboxInv

LEMMA StutterSound == ASSUME OutboxInv, UNCHANGED vars PROVE OutboxInv'
<1>1. UNCHANGED <<objects, refs, shown, jobs, quota, calls>>
  BY DEF vars
<1>2. TypeOK' /\ Fitting'
  BY <1>1, TypeIs, TypeIsNext DEF OutboxInv, Fitting
<1>3. Free' = Free /\ \A r \in Procs : Held(r)' = Held(r)
  BY <1>1 DEF Free, Held
<1>4. ASSUME Prompt, NEW q \in Procs PROVE Owns(q)'
  <2>1. Owns(q)
    BY <1>4 DEF OutboxInv
  <2> QED
    BY <1>1, <1>3, <2>1 DEF Owns, At
<1>5. ASSUME Prompt, NEW k \in objects' \ refs' PROVE Covered(k)'
  <2>1. Covered(k)
    BY <1>1, <1>5 DEF OutboxInv
  <2> QED
    BY <1>1, <2>1 DEF Covered, OpenJobs, At
<1> QED
  BY <1>2, <1>4, <1>5 DEF OutboxInv

-----------------------------------------------------------------------------
(* The invariant of the outbox                                               *)

LEMMA InitSound == Init => OutboxInv
<1> SUFFICES ASSUME Init PROVE OutboxInv
  OBVIOUS
<1>1. FreeSlot \in JobRow
  BY DEF FreeSlot, JobRow
<1>2. TypeOK
  BY <1>1, TypeIs, IdleIs DEF Init, JobTable
<1>3. Fitting
  BY IdleIs DEF Init, Fitting
<1>4. \A q \in Procs : Owns(q)
  BY DEF Init, Owns, IdleCall, Bringing, Storing
<1> QED
  BY <1>2, <1>3, <1>4 DEF OutboxInv, Init

LEMMA NextSound == OutboxInv /\ [Next]_vars => OutboxInv'
<1> SUFFICES ASSUME OutboxInv, [Next]_vars PROVE OutboxInv'
  OBVIOUS
<1>1. ASSUME NEW p \in Procs, Upload(p) PROVE OutboxInv'
  BY <1>1, UploadIntentSound, UploadPutSound, AttachSound, AttachFailsSound, AbandonSound,
     AbandonRequeueSound DEF Upload
<1>2. ASSUME NEW p \in Procs, Staging(p) PROVE OutboxInv'
  BY <1>2, StageCountSound, StageCommitSound, StagePutSound, StageCancelSound DEF Staging
<1>3. ASSUME NEW p \in Procs, Import(p) PROVE OutboxInv'
  BY <1>3, ImportIntentSound, ImportCopySound, ImportPromoteSound, ImportConflictsSound,
     ImportFailSound, ReattachStatSound, ReattachCommitSound DEF Import
<1>4. ASSUME NEW p \in Procs, Cleaning(p) PROVE OutboxInv'
  BY <1>4, RunStartSound, RunCheckSound, RunDeleteSound, RunDeleteFailsSound, RunFinishSound,
     AdminRetrySound, WorkerClaimSound DEF Cleaning
<1> QED
  BY <1>1, <1>2, <1>3, <1>4, CrashSound, DeleteSound, RipenSound, StutterSound DEF Next

\* What every state of the outbox satisfies: well-formed rows and calls, and, when
\* live processes are done with their jobs within the grace, an upload that owns
\* the row of its intent (_record_object_cleanup_intent) and an open job for every
\* unused object.
THEOREM OutboxInvariant == Spec => []OutboxInv
<1>1. Init => OutboxInv
  BY InitSound
<1>2. OutboxInv /\ [Next]_vars => OutboxInv'
  BY NextSound
<1> QED
  BY <1>1, <1>2, PTL DEF Spec

\* Rows, keys and calls keep their types (models/object_cleanup_job.py).
THEOREM TypeCorrect == Spec => []TypeOK
<1>1. OutboxInv => TypeOK
  BY DEF OutboxInv
<1> QED
  BY <1>1, OutboxInvariant, PTL

\* Provided that live processes are done with a job before the worker may take it
\* from them, an object nothing refers to always has an open job, whatever fails
\* or dies between the commit of an intent, the storage calls and the commit of the
\* reference (upload_product_image, run_object_cleanup_jobs).
THEOREM NoLeaks == ASSUME Prompt PROVE Spec => []NothingLeaks
<1>1. OutboxInv => NothingLeaks
  BY DEF OutboxInv, NothingLeaks, Covered
<1> QED
  BY <1>1, OutboxInvariant, PTL

-----------------------------------------------------------------------------
(* What a step does to calls, rows, references and objects                   *)

\* Only rows that are free are put to another use.
RowsKept == \A i \in Slots \ Free : SameUse(i)

\* What matters for the objects that rows refer to.
Shaped(p) ==
    /\ Alone(p) /\ RowsKept
    /\ \/ refs' \subseteq refs
       \/ calls[p].pc \in {"attach", "promote", "reattach"} /\ refs' \subseteq refs \cup {calls[p].key}
    /\ \/ objects \subseteq objects'
       \/ At(p, "delete") /\ objects \ {jobs[calls[p].job].key} \subseteq objects' /\ refs' \subseteq refs
    /\ calls'[p].pc = "delete" =>
          refs' \subseteq refs /\ jobs'[calls'[p].job].key \notin refs

LEMMA CallStep ==
    ASSUME Basic, NEW p \in Procs
    PROVE  /\ \A c : calls' = [calls EXCEPT ![p] = c] => Alone(p) /\ calls'[p] = c
           /\ \A pc : Goto(p, pc) => Alone(p) /\ calls'[p].pc = pc
           /\ EndCall(p) => Alone(p) /\ calls'[p].pc = "idle"
           /\ \A todo, claimed : Run(p, todo, claimed) => Alone(p) /\ calls'[p].pc \in {"idle", "run"}
<1>1. calls \in [Procs -> Call]
  BY TypeIs DEF Basic
<1>2. ASSUME NEW c, calls' = [calls EXCEPT ![p] = c] PROVE Alone(p) /\ calls'[p] = c
  BY <1>1, <1>2 DEF Alone
<1>3. ASSUME NEW pc, Goto(p, pc) PROVE Alone(p) /\ calls'[p].pc = pc
  <2>1. calls' = [calls EXCEPT ![p] = [calls[p] EXCEPT !.pc = pc]]
    BY <1>3 DEF Goto
  <2>2. Alone(p) /\ calls'[p] = [calls[p] EXCEPT !.pc = pc]
    BY <1>2, <2>1
  <2> QED
    BY <2>2, CallIs
<1>4. ASSUME EndCall(p) PROVE Alone(p) /\ calls'[p].pc = "idle"
  BY <1>2, <1>4 DEF EndCall, IdleCall
<1>5. ASSUME NEW todo, NEW claimed, Run(p, todo, claimed)
      PROVE  Alone(p) /\ calls'[p].pc \in {"idle", "run"}
  <2> DEFINE c == IF todo = {} THEN IdleCall
                  ELSE [IdleCall EXCEPT !.pc = "run", !.todo = todo, !.claimed = claimed]
  <2>1. calls' = [calls EXCEPT ![p] = c]
    BY <1>5 DEF Run
  <2>2. c.pc \in {"idle", "run"}
    BY DEF IdleCall
  <2> HIDE DEF c
  <2> QED
    BY <1>2, <2>1, <2>2
<1> QED
  BY <1>2, <1>3, <1>4, <1>5

LEMMA RowStep ==
    ASSUME OutboxInv, NEW j \in Slots, NEW row, jobs' = [jobs EXCEPT ![j] = row],
           j \in Free \/ (row.key = jobs[j].key /\ row.expiry = jobs[j].expiry)
    PROVE  RowsKept
<1>1. jobs \in JobTable
  BY TypeIs DEF OutboxInv
<1>2. jobs'[j] = row /\ \A i \in Slots \ {j} : jobs'[i] = jobs[i]
  BY <1>1 DEF JobTable
<1> QED
  BY <1>2 DEF RowsKept, SameUse

LEMMA SameRows == ASSUME UNCHANGED jobs PROVE RowsKept
BY DEF RowsKept, SameUse

LEMMA CallsBegin ==
    ASSUME OutboxInv, NEW p \in Procs
    PROVE  /\ \A k \in Keys : UploadIntent(p, k) => Shaped(p)
           /\ \A s \in StagedKeys, k \in Keys : ImportIntent(p, s, k) => Shaped(p)
           /\ \A k \in Reattach : ReattachStat(p, k) => Shaped(p)
           /\ StageCount(p) => Shaped(p)
           /\ StageCommit(p) => Shaped(p)
<1>0. Basic /\ Free \subseteq Slots
  BY DEF OutboxInv, Basic, Free
<1>1. ASSUME NEW k \in Keys, UploadIntent(p, k) PROVE Shaped(p)
  <2>p. PICK j \in Free :
          /\ jobs' = [jobs EXCEPT ![j] = Row(k, "intent", FALSE)]
          /\ calls' = [calls EXCEPT ![p] = [IdleCall EXCEPT !.pc = "put", !.key = k, !.job = j]]
    BY <1>1 DEF UploadIntent
  <2>1. RowsKept
    BY <1>0, <2>p, RowStep
  <2>2. Alone(p) /\ calls'[p] = [IdleCall EXCEPT !.pc = "put", !.key = k, !.job = j]
    BY <1>0, <2>p, CallStep
  <2>3. calls'[p].pc # "delete"
    BY <2>2 DEF IdleCall
  <2> QED
    BY <1>1, <2>1, <2>2, <2>3 DEF Shaped, UploadIntent
<1>2. ASSUME NEW s \in StagedKeys, NEW k \in Keys, ImportIntent(p, s, k) PROVE Shaped(p)
  <2>p. PICK j \in Free :
          /\ jobs' = [jobs EXCEPT ![j] = Row(k, "intent", FALSE)]
          /\ calls' = [calls EXCEPT ![p] =
                 [IdleCall EXCEPT !.pc = "copy", !.key = k, !.job = j, !.source = s]]
    BY <1>2 DEF ImportIntent
  <2>1. RowsKept
    BY <1>0, <2>p, RowStep
  <2>2. Alone(p) /\ calls'[p] = [IdleCall EXCEPT !.pc = "copy", !.key = k, !.job = j, !.source = s]
    BY <1>0, <2>p, CallStep
  <2>3. calls'[p].pc # "delete"
    BY <2>2 DEF IdleCall
  <2> QED
    BY <1>2, <2>1, <2>2, <2>3 DEF Shaped, ImportIntent
<1>3. ASSUME NEW k \in Reattach, ReattachStat(p, k) PROVE Shaped(p)
  <2>1. Alone(p) /\ calls'[p] = [IdleCall EXCEPT !.pc = "reattach", !.key = k]
    BY <1>0, <1>3, CallStep DEF ReattachStat
  <2>2. calls'[p].pc # "delete"
    BY <2>1 DEF IdleCall
  <2> QED
    BY <1>3, <2>1, <2>2, SameRows DEF Shaped, ReattachStat
<1>4. ASSUME StageCount(p) PROVE Shaped(p)
  BY <1>0, <1>4, CallStep, SameRows DEF Shaped, StageCount
<1>5. ASSUME StageCommit(p) PROVE Shaped(p)
  <2>p. PICK k \in StagedKeys, j \in Free :
          /\ jobs' = [jobs EXCEPT ![j] = [Row(k, "pending", FALSE) EXCEPT !.expiry = TRUE]]
          /\ calls' = [calls EXCEPT ![p] = [IdleCall EXCEPT !.pc = "stage_put", !.key = k, !.job = j]]
    BY <1>5 DEF StageCommit
  <2>1. RowsKept
    BY <1>0, <2>p, RowStep
  <2>2. Alone(p) /\ calls'[p] = [IdleCall EXCEPT !.pc = "stage_put", !.key = k, !.job = j]
    BY <1>0, <2>p, CallStep
  <2>3. calls'[p].pc # "delete"
    BY <2>2 DEF IdleCall
  <2> QED
    BY <1>5, <2>1, <2>2, <2>3 DEF Shaped, StageCommit
<1> QED
  BY <1>1, <1>2, <1>3, <1>4, <1>5

LEMMA CallsGoOn ==
    ASSUME OutboxInv, NEW p \in Procs
    PROVE  /\ UploadPut(p) => Shaped(p)
           /\ AttachFails(p) => Shaped(p)
           /\ Abandon(p) => Shaped(p)
           /\ StagePut(p) => Shaped(p)
           /\ ImportCopy(p) => Shaped(p)
           /\ ImportConflicts(p) => Shaped(p)
           /\ ReattachCommit(p) => Shaped(p)
           /\ RunDelete(p) => Shaped(p)
           /\ RunDeleteFails(p) => Shaped(p)
           /\ Crash(p) => Shaped(p)
<1>0. Basic
  BY DEF OutboxInv, Basic
<1>1. ASSUME UploadPut(p) PROVE Shaped(p)
  BY <1>0, <1>1, CallStep, SameRows DEF Shaped, UploadPut, Put
<1>2. ASSUME AttachFails(p) PROVE Shaped(p)
  BY <1>0, <1>2, CallStep, SameRows DEF Shaped, AttachFails
<1>3. ASSUME Abandon(p) PROVE Shaped(p)
  BY <1>0, <1>3, CallStep, SameRows DEF Shaped, Abandon
<1>4. ASSUME StagePut(p) PROVE Shaped(p)
  BY <1>0, <1>4, CallStep, SameRows DEF Shaped, StagePut, Put
<1>5. ASSUME ImportCopy(p) PROVE Shaped(p)
  BY <1>0, <1>5, CallStep, SameRows DEF Shaped, ImportCopy
<1>6. ASSUME ImportConflicts(p) PROVE Shaped(p)
  BY <1>0, <1>6, CallStep, SameRows DEF Shaped, ImportConflicts
<1>7. ASSUME ReattachCommit(p) PROVE Shaped(p)
  BY <1>0, <1>7, CallStep, SameRows DEF Shaped, ReattachCommit, Refer, At
<1>8. ASSUME RunDelete(p) PROVE Shaped(p)
  BY <1>0, <1>8, CallStep, SameRows DEF Shaped, RunDelete
<1>9. ASSUME RunDeleteFails(p) PROVE Shaped(p)
  BY <1>0, <1>9, CallStep, SameRows DEF Shaped, RunDeleteFails
<1>10. ASSUME Crash(p) PROVE Shaped(p)
  BY <1>0, <1>10, CallStep, SameRows DEF Shaped, Crash
<1> QED
  BY <1>1, <1>2, <1>3, <1>4, <1>5, <1>6, <1>7, <1>8, <1>9, <1>10

\* New rows take free slots only.
LEMMA EnqueuedKept ==
    ASSUME OutboxInv, NEW keys \in SUBSET Keys, NEW slotOf \in Placements(keys),
           NEW table \in JobTable, jobs' = Enqueued(table, slotOf),
           \A i \in Slots : table[i].key = jobs[i].key /\ table[i].expiry = jobs[i].expiry
    PROVE  RowsKept
<1>1. ASSUME NEW i \in Slots \ Free PROVE jobs'[i] = table[i]
  <2>1. \A k \in keys : slotOf[k] \in Free
    BY Entered
  <2>2. (\E k \in keys : slotOf[k] = i) \/ jobs'[i] = table[i]
    BY Entered
  <2> QED
    BY <2>1, <2>2
<1> QED
  BY <1>1 DEF RowsKept, SameUse

LEMMA AttachShaped == ASSUME OutboxInv, NEW p \in Procs, Attach(p) PROVE Shaped(p)
<1> DEFINE j == calls[p].job
           table == [jobs EXCEPT ![j] = Completed(@)]
<1>0. PICK old \in {{}} \cup {{k} : k \in refs} : \E slotOf \in Placements(old) :
          /\ Refer((refs \ old) \cup {calls[p].key})
          /\ jobs' = Enqueued(table, slotOf)
          /\ Run(p, {slotOf[k] : k \in old}, FALSE)
  BY DEF Attach
<1>1. PICK slotOf \in Placements(old) :
          /\ Refer((refs \ old) \cup {calls[p].key})
          /\ jobs' = Enqueued(table, slotOf)
          /\ Run(p, {slotOf[k] : k \in old}, FALSE)
  BY <1>0
<1>2. Alone(p) /\ calls'[p].pc \in {"idle", "run"}
  BY <1>1, CallStep DEF OutboxInv, Basic
<1>3. jobs \in JobTable /\ refs \subseteq Keys /\ j \in Slots
  BY TypeIs, JobHeld DEF OutboxInv, Attach, At, Bringing, Storing
<1>4. jobs[j] \in JobRow
  BY <1>3 DEF JobTable
<1>5. /\ Completed(jobs[j]) \in JobRow /\ Completed(jobs[j]).key = jobs[j].key
      /\ Completed(jobs[j]).expiry = jobs[j].expiry
  BY <1>4, RewrittenIs DEF Completed, JobRow
<1>6. table \in JobTable
      /\ \A i \in Slots : table[i].key = jobs[i].key /\ table[i].expiry = jobs[i].expiry
  <2>1. table = [jobs EXCEPT ![j] = Completed(jobs[j])]
    OBVIOUS
  <2> HIDE DEF table, j
  <2> QED
    BY <1>3, <1>5, <2>1 DEF JobTable
<1>7. old \in SUBSET Keys /\ jobs' = Enqueued(table, slotOf)
  BY <1>1, <1>3
<1> HIDE DEF table
<1>8. RowsKept
  BY <1>6, <1>7, EnqueuedKept
<1>9. refs' \subseteq refs \cup {calls[p].key} /\ calls[p].pc = "attach" /\ UNCHANGED objects
  BY <1>1 DEF Refer, Attach, At
<1> QED
  BY <1>2, <1>8, <1>9 DEF Shaped

LEMMA DeleteShaped ==
    ASSUME OutboxInv, NEW p \in Procs, NEW keys \in SUBSET Keys, NEW run \in BOOLEAN,
           Delete(p, keys, run)
    PROVE  Shaped(p)
<1>1. PICK slotOf \in Placements(keys) :
          /\ jobs' = Enqueued(jobs, slotOf)
          /\ IF run THEN Run(p, {slotOf[k] : k \in keys}, FALSE) ELSE UNCHANGED calls
  BY DEF Delete
<1>2. Alone(p) /\ calls'[p].pc \in {"idle", "run"}
  <2>1. CASE run
    BY <1>1, <2>1, CallStep DEF OutboxInv, Basic
  <2>2. CASE ~run
    BY <1>1, <2>2 DEF Delete, At, Alone
  <2> QED
    BY <2>1, <2>2
<1>3. jobs \in JobTable
  BY TypeIs DEF OutboxInv
<1>4. RowsKept
  BY <1>1, <1>3, EnqueuedKept
<1>5. refs' \subseteq refs /\ UNCHANGED objects
  BY DEF Delete, Refer
<1> QED
  BY <1>2, <1>4, <1>5 DEF Shaped

\* The rows a cancellation or an import ends are as they were but for the status.
LEMMA EndedKept ==
    ASSUME OutboxInv, NEW s \in Keys, NEW new \in Free, NEW own, EndsExpiries(s, own, new)
    PROVE  RowsKept
<1>1. ASSUME NEW i \in Slots \ Free PROVE SameUse(i)
  <2>1. jobs'[i] \in {jobs[i], Completed(jobs[i])}
    BY <1>1 DEF EndsExpiries
  <2>2. jobs[i] \in JobRow
    BY TypeIs DEF OutboxInv, JobTable
  <2>3. Completed(jobs[i]).key = jobs[i].key /\ Completed(jobs[i]).expiry = jobs[i].expiry
    BY <2>2 DEF Completed, JobRow
  <2> QED
    BY <2>1, <2>3 DEF SameUse
<1> QED
  BY <1>1 DEF RowsKept

LEMMA StageCancelShaped ==
    ASSUME OutboxInv, NEW p \in Procs, NEW k \in StagedKeys, StageCancel(p, k) PROVE Shaped(p)
<1>1. PICK j \in Free : EndsExpiries(k, {}, j) /\ Run(p, {j}, FALSE)
  BY DEF StageCancel, EndsExpiries
<1>2. k \in Keys
  BY OutboxAssumption
<1>3. RowsKept
  BY <1>1, <1>2, EndedKept
<1>4. Alone(p) /\ calls'[p].pc \in {"idle", "run"}
  BY <1>1, CallStep DEF OutboxInv, Basic
<1> QED
  BY <1>3, <1>4 DEF Shaped, StageCancel

LEMMA ImportPromoteShaped ==
    ASSUME OutboxInv, NEW p \in Procs, ImportPromote(p) PROVE Shaped(p)
<1>1. PICK new \in Free : EndsExpiries(calls[p].source, {calls[p].job}, new)
  BY DEF ImportPromote, EndsExpiries
<1>2. calls[p].source \in Keys
  BY OutboxAssumption DEF ImportPromote, At, OutboxInv, Fitting, CallFits
<1>3. RowsKept
  BY <1>1, <1>2, EndedKept
<1>4. Alone(p) /\ calls'[p].pc = "idle"
  BY CallStep DEF ImportPromote, OutboxInv, Basic
<1>5. refs' \subseteq refs \cup {calls[p].key} /\ calls[p].pc = "promote" /\ UNCHANGED objects
  BY DEF ImportPromote, Refer, At
<1> QED
  BY <1>3, <1>4, <1>5 DEF Shaped

LEMMA RowsRewritten ==
    ASSUME OutboxInv, NEW p \in Procs
    PROVE  /\ AbandonRequeue(p) => Shaped(p)
           /\ ImportFail(p) => Shaped(p)
           /\ \A j \in Slots : RunStart(p, j) => Shaped(p)
           /\ \A j \in Slots : RunCheck(p, j) => Shaped(p)
           /\ RunFinish(p) => Shaped(p)
<1> DEFINE j == calls[p].job
<1>0. Basic /\ jobs \in JobTable /\ calls \in [Procs -> Call]
  BY TypeIs DEF OutboxInv, Basic
<1>1. ASSUME NEW i \in Slots
      PROVE  /\ Requeued(jobs[i]).key = jobs[i].key /\ Requeued(jobs[i]).expiry = jobs[i].expiry
             /\ Completed(jobs[i]).key = jobs[i].key /\ Completed(jobs[i]).expiry = jobs[i].expiry
  <2>1. jobs[i] \in JobRow
    BY <1>0 DEF JobTable
  <2> QED
    BY <2>1 DEF Requeued, Completed, JobRow
<1>2. ASSUME AbandonRequeue(p) PROVE Shaped(p)
  <2>1. j \in Slots
    BY <1>2, JobHeld DEF AbandonRequeue, At, GivingUp
  <2>2. jobs' = [jobs EXCEPT ![j] = Requeued(jobs[j])]
    BY <1>2 DEF AbandonRequeue
  <2>3. RowsKept
    BY <1>1, <2>1, <2>2, RowStep
  <2>4. Alone(p) /\ calls'[p].pc \in {"idle", "run"}
    BY <1>0, <1>2, CallStep DEF AbandonRequeue
  <2> QED
    BY <1>2, <2>3, <2>4 DEF Shaped, AbandonRequeue
<1>3. ASSUME ImportFail(p) PROVE Shaped(p)
  <2>1. j \in Slots
    BY <1>3, JobHeld DEF ImportFail, At, GivingUp
  <2> DEFINE row == IF jobs[j].status = "completed" THEN jobs[j] ELSE Requeued(jobs[j])
  <2>2. jobs' = [jobs EXCEPT ![j] = row]
    BY <1>3 DEF ImportFail
  <2>3. row.key = jobs[j].key /\ row.expiry = jobs[j].expiry
    BY <1>1, <2>1
  <2> HIDE DEF row
  <2>4. RowsKept
    BY <2>1, <2>2, <2>3, RowStep
  <2>5. Alone(p) /\ calls'[p].pc = "idle"
    BY <1>0, <1>3, CallStep DEF ImportFail
  <2> QED
    BY <1>3, <2>4, <2>5 DEF Shaped, ImportFail
<1>4. ASSUME NEW i \in Slots, RunStart(p, i) PROVE Shaped(p)
  <2> DEFINE row == [jobs[i] EXCEPT !.status = "processing", !.due = FALSE]
  <2>1. jobs' = [jobs EXCEPT ![i] = row]
    BY <1>0, <1>4 DEF RunStart, JobTable
  <2>2. row.key = jobs[i].key /\ row.expiry = jobs[i].expiry
    BY <1>0 DEF JobTable, JobRow
  <2> HIDE DEF row
  <2>3. RowsKept
    BY <2>1, <2>2, RowStep
  <2>4. Alone(p) /\ calls'[p].pc = "check"
    BY <1>4, WorksOn DEF RunStart, Held, Moved
  <2> QED
    BY <1>4, <2>3, <2>4 DEF Shaped, RunStart
<1>5. ASSUME NEW i \in Slots, RunCheck(p, i) PROVE Shaped(p)
  <2> DEFINE pc == IF jobs[i].key \in refs THEN "done" ELSE "delete"
  <2>1. calls' = [calls EXCEPT ![p].pc = pc, ![p].job = i, ![p].todo = @ \ {i}]
        /\ UNCHANGED <<objects, refs, shown, jobs, quota>>
    BY <1>5 DEF RunCheck
  <2>2. pc \in {"check", "delete", "done"} /\ i \in Held(p) /\ (pc = "delete" => jobs[i].key \notin refs)
    BY <1>5, OutboxAssumption DEF RunCheck, Held
  <2> HIDE DEF pc
  <2>3. Alone(p) /\ calls'[p].pc = pc /\ calls'[p].job = i
    BY <2>1, <2>2, WorksOn DEF Moved
  <2> QED
    BY <2>1, <2>2, <2>3, SameRows DEF Shaped
<1>6. ASSUME RunFinish(p) PROVE Shaped(p)
  <2>1. j \in Slots
    BY <1>6, JobHeld DEF RunFinish, At, Cleaners
  <2> DEFINE row == IF At(p, "done") THEN Completed(jobs[j])
                    ELSE [jobs[j] EXCEPT !.status = "failed", !.due = FALSE]
  <2>2. jobs' = [jobs EXCEPT ![j] = row]
    BY <1>6 DEF RunFinish
  <2>3. row.key = jobs[j].key /\ row.expiry = jobs[j].expiry
    <3>1. jobs[j] \in JobRow
      BY <1>0, <2>1 DEF JobTable
    <3> QED
      BY <1>1, <2>1, <3>1 DEF JobRow
  <2> HIDE DEF row
  <2>4. RowsKept
    BY <2>1, <2>2, <2>3, RowStep
  <2>5. Alone(p) /\ calls'[p].pc \in {"idle", "run"}
    BY <1>6, NextJobMoves DEF RunFinish, Moved
  <2> QED
    BY <1>6, <2>4, <2>5 DEF Shaped, RunFinish
<1> QED
  BY <1>2, <1>3, <1>4, <1>5, <1>6

LEMMA ClaimShaped ==
    ASSUME OutboxInv, NEW p \in Procs, NEW taken \in SUBSET Slots, Claim(p, taken) PROVE Shaped(p)
<1>1. ASSUME NEW i \in Slots PROVE SameUse(i)
  <2>1. jobs[i] \in JobRow
    BY TypeIs DEF OutboxInv, JobTable
  <2> DEFINE row == [jobs[i] EXCEPT !.status = "processing", !.due = FALSE]
  <2>2. row.key = jobs[i].key /\ row.expiry = jobs[i].expiry
    BY <2>1 DEF JobRow
  <2> HIDE DEF row
  <2>3. jobs'[i] = row \/ jobs'[i] = jobs[i]
    BY DEF Claim, row
  <2> QED
    BY <2>2, <2>3 DEF SameUse
<1>2. RowsKept
  BY <1>1 DEF RowsKept
<1>3. Alone(p) /\ calls'[p].pc \in {"idle", "run"}
  BY CallStep DEF Claim, OutboxInv, Basic
<1> QED
  BY <1>2, <1>3 DEF Shaped, Claim

LEMMA StepShaped ==
    ASSUME OutboxInv, NEW p \in Procs,
           \/ Upload(p) \/ Staging(p) \/ Import(p) \/ Cleaning(p) \/ Crash(p)
           \/ \E keys \in SUBSET Keys, run \in BOOLEAN : Delete(p, keys, run)
    PROVE  Shaped(p)
<1>1. CASE Upload(p)
  BY <1>1, CallsBegin, CallsGoOn, AttachShaped, RowsRewritten DEF Upload
<1>2. CASE Staging(p)
  BY <1>2, CallsBegin, CallsGoOn, StageCancelShaped DEF Staging
<1>3. CASE Import(p)
  BY <1>3, CallsBegin, CallsGoOn, ImportPromoteShaped, RowsRewritten DEF Import
<1>4. CASE Cleaning(p)
  <2>1. ASSUME NEW j \in Slots, AdminRetry(p, j) PROVE Shaped(p)
    <3>1. {j} \in SUBSET Slots /\ Claim(p, {j})
      BY <2>1 DEF AdminRetry
    <3> QED
      BY <3>1, ClaimShaped
  <2>2. ASSUME NEW taken \in SUBSET Slots, WorkerClaim(p, taken) PROVE Shaped(p)
    BY <2>2, ClaimShaped DEF WorkerClaim
  <2> QED
    BY <1>4, <2>1, <2>2, CallsGoOn, RowsRewritten DEF Cleaning
<1> QED
  BY <1>1, <1>2, <1>3, <1>4, CallsGoOn, DeleteShaped

-----------------------------------------------------------------------------
(* What rows refer to is stored                                              *)

\* A job somebody else works on keeps its key, which nobody brings in.
LEMMA OthersDeletable ==
    ASSUME OutboxInv, AttachInv, Prompt, NEW p \in Procs, Shaped(p), NEW q \in Procs \ {p},
           Reattach = {}
    PROVE  Deletable(q)'
<1> DEFINE i == calls[q].job
           k == jobs[i].key
<1>1. SUFFICES ASSUME calls'[q].pc = "delete" PROVE jobs'[calls'[q].job].key \notin refs'
  BY DEF Deletable, At
<1>2. calls'[q] = calls[q] /\ At(q, "delete")
  BY <1>1 DEF Shaped, Alone, At
<1>3. i \in Slots /\ i \in Held(q) /\ k \notin refs
  BY <1>2, JobHeld DEF At, Cleaners, AttachInv, Deletable
<1>4. i \notin Free
  BY <1>3 DEF Free
<1>5. jobs'[i].key = k
  BY <1>3, <1>4 DEF Shaped, RowsKept, SameUse
<1>6. ASSUME calls[p].pc \in {"attach", "promote"} PROVE k # calls[p].key
  <2>1. calls[p].pc \in Bringing
    BY <1>6 DEF Bringing, Storing
  <2>2. i \in Slots \ {calls[p].job} /\ \A l \in Slots \ {calls[p].job} : jobs[l].key = calls[p].key => l \in Free
    BY <1>3, <2>1 DEF OutboxInv, Owns
  <2> HIDE DEF i
  <2> QED
    BY <1>4, <2>2
<1>7. calls[p].pc # "reattach"
  BY DEF OutboxInv, Fitting, CallFits
<1> HIDE DEF k, i
<1>8. k \notin refs'
  BY <1>3, <1>6, <1>7 DEF Shaped
<1> QED
  BY <1>2, <1>5, <1>8 DEF i

LEMMA AttachStep ==
    ASSUME OutboxInv, AttachInv, Prompt, Reattach = {}, NEW p \in Procs, Shaped(p)
    PROVE  AttachInv' /\ \A k \in objects \ objects' : k \notin refs
<1>1. calls[p].pc # "reattach"
  BY DEF OutboxInv, Fitting, CallFits
<1>2. calls[p].pc \in {"attach", "promote"} => calls[p].key \in objects
  BY DEF OutboxInv, Owns, Bringing, Storing
<1>3. At(p, "delete") => jobs[calls[p].job].key \notin refs
  BY DEF AttachInv, Deletable
<1>4. \A k \in objects \ objects' : k \notin refs
  BY <1>3 DEF Shaped
<1>5. refs' \subseteq objects'
  BY <1>1, <1>2, <1>4 DEF Shaped, AttachInv, At
<1>6. Deletable(p)'
  BY DEF Deletable, Shaped, At
<1>7. \A q \in Procs \ {p} : Deletable(q)'
  BY OthersDeletable
<1> QED
  BY <1>4, <1>5, <1>6, <1>7 DEF AttachInv

LEMMA AttachNext ==
    ASSUME OutboxInv, AttachInv, Prompt, Reattach = {}, [Next]_vars
    PROVE  AttachInv' /\ \A k \in objects \ objects' : k \notin refs
<1>1. CASE \E p \in Procs : \/ Upload(p) \/ Staging(p) \/ Import(p) \/ Cleaning(p) \/ Crash(p)
                            \/ \E keys \in SUBSET Keys, run \in BOOLEAN : Delete(p, keys, run)
  <2>1. PICK p \in Procs : \/ Upload(p) \/ Staging(p) \/ Import(p) \/ Cleaning(p) \/ Crash(p)
                           \/ \E keys \in SUBSET Keys, run \in BOOLEAN : Delete(p, keys, run)
    BY <1>1
  <2>2. Shaped(p)
    BY <2>1, StepShaped
  <2> QED
    BY <2>2, AttachStep
<1>2. ASSUME NEW j \in Slots, Ripen(j) PROVE AttachInv' /\ UNCHANGED objects
  <2>1. /\ UNCHANGED <<objects, refs, calls>>
        /\ \A i \in Slots : jobs'[i].key = jobs[i].key
    BY <1>2, RipenIs
  <2>2. ASSUME NEW q \in Procs, At(q, "delete") PROVE calls[q].job \in Slots
    BY <2>2, JobHeld DEF At, Cleaners
  <2> QED
    BY <2>1, <2>2 DEF AttachInv, Deletable, At
<1>3. CASE UNCHANGED vars
  BY <1>3 DEF vars, AttachInv, Deletable, At
<1> QED
  BY <1>1, <1>2, <1>3 DEF Next

\* What rows refer to, and what is about to be deleted, in every state.
THEOREM AttachInvariant == ASSUME Prompt, Reattach = {} PROVE Spec => []AttachInv
<1>1. Init => AttachInv
  BY DEF Init, AttachInv, Deletable, At, IdleCall
<1>2. OutboxInv /\ AttachInv /\ [Next]_vars => AttachInv'
  BY AttachNext
<1> QED
  BY <1>1, <1>2, OutboxInvariant, PTL DEF Spec

\* Provided that live processes are done with a job within its grace, and that no
\* workbook names a key again whose image was deleted, no committed row refers to
\* an object that clean-up has taken away (attach after put, run_object_cleanup_jobs).
THEOREM NoDangling == ASSUME Prompt, Reattach = {} PROVE Spec => []NothingDangles
<1>1. AttachInv => NothingDangles
  BY DEF AttachInv, NothingDangles
<1> QED
  BY <1>1, AttachInvariant, PTL

\* Under the same conditions "never delete a key that is currently referenced"
\* holds of run_object_cleanup_jobs at every step, though the reference is looked at
\* in one transaction and the deletion happens after it.
THEOREM ReferencedIsKept == ASSUME Prompt, Reattach = {} PROVE Spec => NeverDeletesReferenced
<1>1. OutboxInv /\ AttachInv /\ [Next]_vars => [\A k \in objects \ objects' : k \notin refs]_vars
  BY AttachNext
<1> QED
  BY <1>1, OutboxInvariant, AttachInvariant, PTL DEF Spec, NeverDeletesReferenced

-----------------------------------------------------------------------------
(* The quota of staged uploads                                               *)

\* What a step does to the expiries, the lock and p's own call.
Sparing(p) ==
    /\ ExpiryJobs' \subseteq ExpiryJobs
    /\ \/ quota' = quota
       \/ quota = None /\ quota' = p
       \/ quota = p /\ quota' = None
    /\ Harmless(p)'

LEMMA IdleHarmless == ASSUME NEW p \in Procs, calls'[p] = IdleCall PROVE Harmless(p)'
BY DEF Harmless, IdleCall, Storing, GivingUp

LEMMA EndHarmless == ASSUME OutboxInv, NEW p \in Procs, EndCall(p) PROVE Harmless(p)'
<1>1. calls'[p] = IdleCall
  BY EndMoves DEF Moved, OutboxInv, Basic
<1> QED
  BY <1>1, IdleHarmless

LEMMA RunHarmless ==
    ASSUME OutboxInv, NEW p \in Procs, NEW todo \in SUBSET Slots, NEW claimed \in BOOLEAN,
           Run(p, todo, claimed), ~claimed => \A i \in todo : ~jobs'[i].expiry
    PROVE  Harmless(p)'
<1>1. Moved(p, Running(todo, claimed))
  BY RunMoves DEF OutboxInv, Basic
<1>2. /\ calls'[p].pc \in {"idle", "run"} /\ calls'[p].todo = todo
      /\ todo # {} => calls'[p].claimed = claimed
  BY <1>1, RunningHolds
<1>3. calls'[p].pc \notin Storing \cup GivingUp \cup {"stage", "failed"}
  BY <1>2 DEF Storing, GivingUp
<1>4. ~calls'[p].claimed => \A i \in calls'[p].todo : ~jobs'[i].expiry
  BY <1>2
<1> QED
  BY <1>3, <1>4 DEF Harmless

LEMMA GotoHarmless ==
    ASSUME OutboxInv, NEW p \in Procs, Harmless(p), NEW pc \in Pcs \ {"stage", "failed"},
           Goto(p, pc), UNCHANGED jobs,
           pc \in Storing \cup GivingUp => calls[p].pc \in Storing \cup GivingUp
    PROVE  Harmless(p)'
<1>1. Basic
  BY DEF OutboxInv, Basic
<1>2. calls' = [calls EXCEPT ![p] = [calls[p] EXCEPT !.pc = pc]]
  BY DEF Goto
<1>3. calls'[p] = [calls[p] EXCEPT !.pc = pc]
  BY <1>1, <1>2, CallStep
<1>4. /\ calls'[p].pc = pc /\ calls'[p].job = calls[p].job /\ calls'[p].todo = calls[p].todo
      /\ calls'[p].claimed = calls[p].claimed
  BY <1>1, <1>3, CallIs
<1> QED
  BY <1>4 DEF Harmless

LEMMA SameExpiries == ASSUME UNCHANGED jobs PROVE ExpiryJobs' \subseteq ExpiryJobs
BY DEF ExpiryJobs

\* A row that is rewritten becomes no open expiry unless it was one.
LEMMA RowExpiries ==
    ASSUME OutboxInv, NEW j \in Slots, NEW row, jobs' = [jobs EXCEPT ![j] = row],
           row.expiry /\ row.status \in Open => j \in ExpiryJobs
    PROVE  ExpiryJobs' \subseteq ExpiryJobs
<1>1. jobs \in JobTable
  BY TypeIs DEF OutboxInv
<1>2. jobs'[j] = row /\ \A i \in Slots \ {j} : jobs'[i] = jobs[i]
  BY <1>1 DEF JobTable
<1> QED
  BY <1>2 DEF ExpiryJobs

LEMMA BeginSparing ==
    ASSUME OutboxInv, NEW p \in Procs
    PROVE  /\ \A k \in Keys : UploadIntent(p, k) => Sparing(p)
           /\ \A s \in StagedKeys, k \in Keys : ImportIntent(p, s, k) => Sparing(p)
           /\ \A k \in Reattach : ReattachStat(p, k) => Sparing(p)
           /\ StageCount(p) => Sparing(p)
<1>0. Basic /\ Free \subseteq Slots /\ jobs \in JobTable
  BY TypeIs DEF OutboxInv, Basic, Free
<1>1. ASSUME NEW k \in Keys, NEW j \in Free, jobs' = [jobs EXCEPT ![j] = Row(k, "intent", FALSE)]
      PROVE  ExpiryJobs' \subseteq ExpiryJobs /\ ~jobs'[j].expiry
  <2>1. ~Row(k, "intent", FALSE).expiry
    BY DEF Row
  <2>2. jobs'[j] = Row(k, "intent", FALSE)
    BY <1>0, <1>1 DEF JobTable
  <2> QED
    BY <1>0, <1>1, <2>1, <2>2, RowExpiries
<1>2. ASSUME NEW k \in Keys, UploadIntent(p, k) PROVE Sparing(p)
  <2>p. PICK j \in Free :
          /\ jobs' = [jobs EXCEPT ![j] = Row(k, "intent", FALSE)]
          /\ calls' = [calls EXCEPT ![p] = [IdleCall EXCEPT !.pc = "put", !.key = k, !.job = j]]
    BY <1>2 DEF UploadIntent
  <2>1. calls'[p] = [IdleCall EXCEPT !.pc = "put", !.key = k, !.job = j]
    BY <1>0, <2>p, CallStep
  <2>2. calls'[p].pc = "put" /\ calls'[p].job = j /\ calls'[p].todo = {}
    BY <2>1 DEF IdleCall
  <2>3. ExpiryJobs' \subseteq ExpiryJobs /\ ~jobs'[j].expiry
    BY <1>1, <2>p
  <2>4. Harmless(p)'
    BY <2>2, <2>3 DEF Harmless
  <2> QED
    BY <1>2, <2>3, <2>4 DEF Sparing, UploadIntent
<1>3. ASSUME NEW s \in StagedKeys, NEW k \in Keys, ImportIntent(p, s, k) PROVE Sparing(p)
  <2>p. PICK j \in Free :
          /\ jobs' = [jobs EXCEPT ![j] = Row(k, "intent", FALSE)]
          /\ calls' = [calls EXCEPT ![p] =
                 [IdleCall EXCEPT !.pc = "copy", !.key = k, !.job = j, !.source = s]]
    BY <1>3 DEF ImportIntent
  <2>1. calls'[p] = [IdleCall EXCEPT !.pc = "copy", !.key = k, !.job = j, !.source = s]
    BY <1>0, <2>p, CallStep
  <2>2. calls'[p].pc = "copy" /\ calls'[p].job = j /\ calls'[p].todo = {}
    BY <2>1 DEF IdleCall
  <2>3. ExpiryJobs' \subseteq ExpiryJobs /\ ~jobs'[j].expiry
    BY <1>1, <2>p
  <2>4. Harmless(p)'
    BY <2>2, <2>3 DEF Harmless
  <2> QED
    BY <1>3, <2>3, <2>4 DEF Sparing, ImportIntent
<1>4. ASSUME NEW k \in Reattach, ReattachStat(p, k) PROVE Sparing(p)
  <2>1. calls'[p] = [IdleCall EXCEPT !.pc = "reattach", !.key = k]
    BY <1>0, <1>4, CallStep DEF ReattachStat
  <2>2. calls'[p].pc = "reattach" /\ calls'[p].todo = {}
    BY <2>1 DEF IdleCall
  <2>3. Harmless(p)'
    BY <2>2 DEF Harmless, Storing, GivingUp
  <2> QED
    BY <1>4, <2>3, SameExpiries DEF Sparing, ReattachStat
<1>5. ASSUME StageCount(p) PROVE Sparing(p)
  <2>1. calls' = [calls EXCEPT ![p] = [calls[p] EXCEPT !.pc = "stage"]]
    BY <1>5 DEF StageCount, Goto
  <2>2. calls'[p] = [calls[p] EXCEPT !.pc = "stage"]
    BY <1>0, <2>1, CallStep
  <2>3. calls'[p].pc = "stage" /\ calls'[p].todo = calls[p].todo
    BY <1>0, <2>2, CallIs
  <2>4. calls[p].todo = {}
    BY <1>0, <1>5, CallIs DEF StageCount, At, CallFits
  <2>5. quota = None /\ quota' = p /\ UNCHANGED jobs /\ Cardinality(ExpiryJobs) < Quota
    BY <1>5 DEF StageCount
  <2>6. ExpiryJobs' = ExpiryJobs
    BY <2>5 DEF ExpiryJobs
  <2>7. Harmless(p)'
    BY <2>3, <2>4, <2>5, <2>6 DEF Harmless, Storing, GivingUp
  <2> QED
    BY <2>5, <2>6, <2>7 DEF Sparing
<1> QED
  BY <1>2, <1>3, <1>4, <1>5

LEMMA GoOnSparing ==
    ASSUME OutboxInv, NEW p \in Procs, Harmless(p), StorageFaults \cap {"put", "delete"} = {}
    PROVE  /\ UploadPut(p) => Sparing(p)
           /\ AttachFails(p) => Sparing(p)
           /\ Abandon(p) => Sparing(p)
           /\ StagePut(p) => Sparing(p)
           /\ ImportCopy(p) => Sparing(p)
           /\ ImportConflicts(p) => Sparing(p)
           /\ ReattachCommit(p) => Sparing(p)
           /\ RunDelete(p) => Sparing(p)
           /\ ~RunDeleteFails(p)
           /\ Crash(p) => Sparing(p)
<1>1. ASSUME EndCall(p) PROVE Harmless(p)'
  BY <1>1, EndHarmless
<1>2. ASSUME NEW pc \in {"attach", "abandon", "requeue", "promote", "import_failed"}, Goto(p, pc),
             UNCHANGED jobs, calls[p].pc \in Storing \cup GivingUp
      PROVE  Harmless(p)'
  BY <1>2, GotoHarmless DEF Pcs
<1>3. UploadPut(p) => Sparing(p)
  BY <1>2, SameExpiries DEF UploadPut, Put, At, Storing, Sparing
<1>4. AttachFails(p) => Sparing(p)
  BY <1>2, SameExpiries DEF AttachFails, At, Storing, Sparing
<1>5. Abandon(p) => Sparing(p)
  BY <1>1, <1>2, SameExpiries DEF Abandon, At, GivingUp, Sparing
<1>6. StagePut(p) => Sparing(p)
  BY <1>1, SameExpiries DEF StagePut, Put, Sparing
<1>7. ImportCopy(p) => Sparing(p)
  BY <1>2, SameExpiries DEF ImportCopy, At, Storing, Sparing
<1>8. ImportConflicts(p) => Sparing(p)
  BY <1>2, SameExpiries DEF ImportConflicts, At, Storing, Sparing
<1>9. ReattachCommit(p) => Sparing(p)
  BY <1>1, SameExpiries DEF ReattachCommit, Sparing
<1>10. RunDelete(p) => Sparing(p)
  BY GotoHarmless, SameExpiries DEF RunDelete, Pcs, Storing, GivingUp, Sparing
<1>11. ~RunDeleteFails(p)
  BY DEF RunDeleteFails
<1>12. Crash(p) => Sparing(p)
  BY <1>1, SameExpiries DEF Crash, Sparing
<1> QED
  BY <1>3, <1>4, <1>5, <1>6, <1>7, <1>8, <1>9, <1>10, <1>11, <1>12

\* New rows are no expiries.
LEMMA EnqueuedExpiries ==
    ASSUME NEW keys \in SUBSET Keys, NEW slotOf \in Placements(keys),
           NEW table \in JobTable, jobs' = Enqueued(table, slotOf),
           \A i \in Slots : table[i].expiry /\ table[i].status \in Open => i \in ExpiryJobs
    PROVE  ExpiryJobs' \subseteq ExpiryJobs /\ \A i \in {slotOf[k] : k \in keys} : ~jobs'[i].expiry
<1>1. \A k \in keys : ~jobs'[slotOf[k]].expiry
  BY Entered
<1>2. \A i \in Slots : (\E k \in keys : slotOf[k] = i) \/ jobs'[i] = table[i]
  BY Entered
<1>3. ASSUME NEW i \in Slots, jobs'[i].expiry, jobs'[i].status \in Open PROVE i \in ExpiryJobs
  <2>1. ~\E k \in keys : slotOf[k] = i
    BY <1>1, <1>3
  <2> QED
    BY <1>2, <1>3, <2>1
<1>4. ExpiryJobs' \subseteq ExpiryJobs
  BY <1>3 DEF ExpiryJobs
<1> QED
  BY <1>1, <1>4

LEMMA AttachSparing ==
    ASSUME OutboxInv, NEW p \in Procs, Harmless(p), Attach(p) PROVE Sparing(p)
<1> DEFINE j == calls[p].job
           table == [jobs EXCEPT ![j] = Completed(@)]
<1>0. PICK old \in {{}} \cup {{k} : k \in refs} : \E slotOf \in Placements(old) :
          /\ jobs' = Enqueued(table, slotOf)
          /\ Run(p, {slotOf[k] : k \in old}, FALSE)
  BY DEF Attach
<1>1. PICK slotOf \in Placements(old) :
          /\ jobs' = Enqueued(table, slotOf)
          /\ Run(p, {slotOf[k] : k \in old}, FALSE)
  BY <1>0
<1>2. jobs \in JobTable /\ refs \subseteq Keys /\ j \in Slots
  BY TypeIs, JobHeld DEF OutboxInv, Attach, At, Bringing, Storing
<1>3. jobs[j] \in JobRow
  BY <1>2 DEF JobTable
<1>4. Completed(jobs[j]) \in JobRow /\ Completed(jobs[j]).status \notin Open
  BY <1>3, RewrittenIs DEF Completed, JobRow, Open
<1>5. table \in JobTable
      /\ \A i \in Slots : table[i].expiry /\ table[i].status \in Open => i \in ExpiryJobs
  <2>1. table = [jobs EXCEPT ![j] = Completed(jobs[j])]
    OBVIOUS
  <2> HIDE DEF table, j
  <2> QED
    BY <1>2, <1>4, <2>1 DEF JobTable, ExpiryJobs
<1>6. old \in SUBSET Keys /\ jobs' = Enqueued(table, slotOf)
  BY <1>1, <1>2
<1> HIDE DEF table
<1>7. ExpiryJobs' \subseteq ExpiryJobs /\ \A i \in {slotOf[k] : k \in old} : ~jobs'[i].expiry
  BY <1>5, <1>6, EnqueuedExpiries
<1>8. {slotOf[k] : k \in old} \in SUBSET Slots
  BY PlacedIs
<1>9. Harmless(p)'
  BY <1>1, <1>7, <1>8, RunHarmless
<1> QED
  BY <1>7, <1>9 DEF Sparing, Attach

LEMMA DeleteSparing ==
    ASSUME OutboxInv, NEW p \in Procs, NEW keys \in SUBSET Keys, NEW run \in BOOLEAN,
           Delete(p, keys, run)
    PROVE  Sparing(p)
<1>1. PICK slotOf \in Placements(keys) :
          /\ jobs' = Enqueued(jobs, slotOf)
          /\ IF run THEN Run(p, {slotOf[k] : k \in keys}, FALSE) ELSE UNCHANGED calls
  BY DEF Delete
<1>2. jobs \in JobTable
  BY TypeIs DEF OutboxInv
<1>3. ExpiryJobs' \subseteq ExpiryJobs /\ \A i \in {slotOf[k] : k \in keys} : ~jobs'[i].expiry
  BY <1>1, <1>2, EnqueuedExpiries DEF ExpiryJobs
<1>4. Harmless(p)'
  <2>1. CASE run
    <3>1. {slotOf[k] : k \in keys} \in SUBSET Slots
      BY PlacedIs
    <3> QED
      BY <1>1, <1>3, <2>1, <3>1, RunHarmless
  <2>2. CASE ~run
    <3>1. calls'[p].pc = "idle" /\ calls'[p].todo = {}
      BY <1>1, <2>2, CallIs DEF Delete, At, OutboxInv, Basic, CallFits
    <3> QED
      BY <3>1 DEF Harmless, Storing, GivingUp
  <2> QED
    BY <2>1, <2>2
<1> QED
  BY <1>3, <1>4 DEF Sparing, Delete

LEMMA EndedExpiries ==
    ASSUME OutboxInv, NEW s \in Keys, NEW new \in Free, NEW own, EndsExpiries(s, own, new)
    PROVE  ExpiryJobs' \subseteq ExpiryJobs /\ ~jobs'[new].expiry
<1>1. jobs \in JobTable /\ new \in Slots
  BY TypeIs DEF OutboxInv, Free
<1>2. ~jobs'[new].expiry
  <2>1. jobs'[new] = Row(s, "pending", TRUE)
    BY <1>1 DEF EndsExpiries
  <2> QED
    BY <2>1 DEF Row
<1>3. ASSUME NEW i \in Slots \ {new}, jobs'[i].status \in Open PROVE jobs'[i] = jobs[i]
  <2>1. jobs'[i] \in {jobs[i], Completed(jobs[i])}
    BY DEF EndsExpiries
  <2>2. jobs[i] \in JobRow
    BY <1>1 DEF JobTable
  <2>3. Completed(jobs[i]).status \notin Open
    BY <2>2 DEF Completed, JobRow, Open
  <2> QED
    BY <1>3, <2>1, <2>3
<1> QED
  BY <1>2, <1>3 DEF ExpiryJobs

LEMMA StageCancelSparing ==
    ASSUME OutboxInv, NEW p \in Procs, NEW k \in StagedKeys, StageCancel(p, k) PROVE Sparing(p)
<1>1. PICK j \in Free : EndsExpiries(k, {}, j) /\ Run(p, {j}, FALSE)
  BY DEF StageCancel, EndsExpiries
<1>2. k \in Keys /\ {j} \in SUBSET Slots
  BY OutboxAssumption DEF Free
<1>3. ExpiryJobs' \subseteq ExpiryJobs /\ ~jobs'[j].expiry
  BY <1>1, <1>2, EndedExpiries
<1>4. Harmless(p)'
  BY <1>1, <1>2, <1>3, RunHarmless
<1> QED
  BY <1>3, <1>4 DEF Sparing, StageCancel

LEMMA ImportPromoteSparing ==
    ASSUME OutboxInv, NEW p \in Procs, ImportPromote(p) PROVE Sparing(p)
<1>1. PICK new \in Free : EndsExpiries(calls[p].source, {calls[p].job}, new)
  BY DEF ImportPromote, EndsExpiries
<1>2. calls[p].source \in Keys
  BY OutboxAssumption DEF ImportPromote, At, OutboxInv, Fitting, CallFits
<1>3. ExpiryJobs' \subseteq ExpiryJobs
  BY <1>1, <1>2, EndedExpiries
<1>4. Harmless(p)'
  BY EndHarmless DEF ImportPromote
<1> QED
  BY <1>3, <1>4 DEF Sparing, ImportPromote

LEMMA RowsSparing ==
    ASSUME OutboxInv, NEW p \in Procs, Harmless(p)
    PROVE  /\ AbandonRequeue(p) => Sparing(p)
           /\ ImportFail(p) => Sparing(p)
           /\ \A j \in Slots : RunStart(p, j) => Sparing(p)
           /\ \A j \in Slots : RunCheck(p, j) => Sparing(p)
           /\ RunFinish(p) => Sparing(p)
<1> DEFINE j == calls[p].job
<1>0. Basic /\ jobs \in JobTable
  BY TypeIs DEF OutboxInv, Basic
<1>1. ASSUME NEW i \in Slots
      PROVE  /\ Requeued(jobs[i]).expiry = jobs[i].expiry
             /\ Completed(jobs[i]).status \notin Open
  <2>1. jobs[i] \in JobRow
    BY <1>0 DEF JobTable
  <2> QED
    BY <2>1 DEF Requeued, Completed, JobRow, Open
<1>2. ASSUME AbandonRequeue(p) PROVE Sparing(p)
  <2>1. j \in Slots /\ ~jobs[j].expiry
    BY <1>2, JobHeld DEF AbandonRequeue, At, GivingUp, Harmless
  <2>2. jobs' = [jobs EXCEPT ![j] = Requeued(jobs[j])] /\ ~Requeued(jobs[j]).expiry
    BY <1>1, <1>2, <2>1 DEF AbandonRequeue
  <2>3. ExpiryJobs' \subseteq ExpiryJobs
    BY <2>1, <2>2, RowExpiries
  <2>4. ~jobs'[j].expiry
    BY <1>0, <2>1, <2>2 DEF JobTable
  <2>5. {j} \in SUBSET Slots /\ Run(p, {j}, FALSE) /\ \A i \in {j} : ~jobs'[i].expiry
    BY <1>2, <2>1, <2>4 DEF AbandonRequeue
  <2>6. Harmless(p)'
    BY <2>5, RunHarmless
  <2> QED
    BY <1>2, <2>3, <2>6 DEF Sparing, AbandonRequeue
<1>3. ASSUME ImportFail(p) PROVE Sparing(p)
  <2>1. j \in Slots /\ ~jobs[j].expiry
    BY <1>3, JobHeld DEF ImportFail, At, GivingUp, Harmless
  <2> DEFINE row == IF jobs[j].status = "completed" THEN jobs[j] ELSE Requeued(jobs[j])
  <2>2. jobs' = [jobs EXCEPT ![j] = row]
    BY <1>3 DEF ImportFail
  <2>3. ~row.expiry
    BY <1>1, <2>1
  <2> HIDE DEF row
  <2>4. ExpiryJobs' \subseteq ExpiryJobs
    BY <2>1, <2>2, <2>3, RowExpiries
  <2>5. Harmless(p)'
    BY <1>3, EndHarmless DEF ImportFail
  <2> QED
    BY <1>3, <2>4, <2>5 DEF Sparing, ImportFail
<1>4. ASSUME NEW i \in Slots, RunStart(p, i) PROVE Sparing(p)
  <2> DEFINE row == [jobs[i] EXCEPT !.status = "processing", !.due = FALSE]
  <2>1. ~calls[p].claimed /\ i \in calls[p].todo /\ \A l \in calls[p].todo : ~jobs[l].expiry
    BY <1>4 DEF RunStart, Harmless
  <2>2. jobs' = [jobs EXCEPT ![i] = row]
    BY <1>0, <1>4 DEF RunStart, JobTable
  <2>3. ~row.expiry
    BY <1>0, <2>1 DEF JobTable, JobRow
  <2> HIDE DEF row
  <2>4. ExpiryJobs' \subseteq ExpiryJobs
    BY <2>2, <2>3, RowExpiries
  <2>5. /\ calls'[p].pc = "check" /\ calls'[p].todo = calls[p].todo \ {i}
    BY <1>4, WorksOn DEF RunStart, Held
  <2>6. \A l \in calls[p].todo : l \in Slots
    BY <1>0, CallIs DEF Call
  <2>7. \A l \in calls'[p].todo : ~jobs'[l].expiry
    BY <1>0, <2>1, <2>2, <2>5, <2>6 DEF JobTable
  <2>8. Harmless(p)'
    BY <2>5, <2>7 DEF Harmless, Storing, GivingUp
  <2> QED
    BY <1>4, <2>4, <2>8 DEF Sparing, RunStart
<1>5. ASSUME NEW i \in Slots, RunCheck(p, i) PROVE Sparing(p)
  <2> DEFINE pc == IF jobs[i].key \in refs THEN "done" ELSE "delete"
  <2>1. calls' = [calls EXCEPT ![p].pc = pc, ![p].job = i, ![p].todo = @ \ {i}]
        /\ UNCHANGED <<objects, refs, shown, jobs, quota>>
    BY <1>5 DEF RunCheck
  <2>2. pc \in {"check", "delete", "done"} /\ i \in Held(p)
    BY <1>5, OutboxAssumption DEF RunCheck, Held
  <2>3. pc \notin Storing \cup GivingUp \cup {"stage", "failed"}
    BY <2>2 DEF Storing, GivingUp
  <2> HIDE DEF pc
  <2>4. /\ calls'[p].pc = pc /\ calls'[p].todo = calls[p].todo \ {i}
        /\ calls'[p].claimed = calls[p].claimed
    BY <2>1, <2>2, WorksOn
  <2>5. Harmless(p)'
    BY <2>1, <2>3, <2>4 DEF Harmless
  <2> QED
    BY <2>1, <2>5, SameExpiries DEF Sparing
<1>6. ASSUME RunFinish(p) PROVE Sparing(p)
  <2>1. At(p, "done") /\ j \in Slots
    BY <1>6, JobHeld DEF RunFinish, At, Cleaners, Harmless
  <2>2. jobs' = [jobs EXCEPT ![j] = Completed(jobs[j])]
    BY <1>6, <2>1 DEF RunFinish
  <2>3. ExpiryJobs' \subseteq ExpiryJobs
    BY <1>1, <2>1, <2>2, RowExpiries
  <2>4. /\ calls'[p].pc \in {"idle", "run"} /\ calls'[p].todo = calls[p].todo
        /\ calls[p].todo # {} => calls'[p].claimed = calls[p].claimed
    BY <1>6, NextJobMoves DEF RunFinish
  <2>5. calls'[p].pc \notin Storing \cup GivingUp \cup {"stage", "failed"}
    BY <2>4 DEF Storing, GivingUp
  <2>6. \A i \in Slots : ~jobs[i].expiry => ~jobs'[i].expiry
    <3>1. jobs[j] \in JobRow
      BY <1>0, <2>1 DEF JobTable
    <3>2. Completed(jobs[j]).expiry = jobs[j].expiry
      BY <3>1 DEF Completed, JobRow
    <3> HIDE DEF j
    <3> QED
      BY <1>0, <2>1, <2>2, <3>2 DEF JobTable
  <2>7. \A i \in calls[p].todo : i \in Slots
    BY <1>0, CallIs DEF Call
  <2>8. Harmless(p)'
    BY <2>4, <2>5, <2>6, <2>7 DEF Harmless
  <2> QED
    BY <1>6, <2>3, <2>8 DEF Sparing, RunFinish
<1> QED
  BY <1>2, <1>3, <1>4, <1>5, <1>6

LEMMA ClaimSparing ==
    ASSUME OutboxInv, NEW p \in Procs, NEW taken \in SUBSET Slots, Claim(p, taken),
           \A j \in taken : Takeable(j)
    PROVE  Sparing(p)
<1>1. ASSUME NEW i \in Slots, jobs'[i].expiry, jobs'[i].status \in Open PROVE i \in ExpiryJobs
  <2>1. jobs[i] \in JobRow
    BY TypeIs DEF OutboxInv, JobTable
  <2> DEFINE row == [jobs[i] EXCEPT !.status = "processing", !.due = FALSE]
  <2>2. row.expiry = jobs[i].expiry
    BY <2>1 DEF JobRow
  <2> HIDE DEF row
  <2>3. (i \in taken /\ jobs'[i] = row) \/ jobs'[i] = jobs[i]
    BY DEF Claim, row
  <2> QED
    BY <1>1, <2>2, <2>3 DEF ExpiryJobs, Takeable
<1>2. ExpiryJobs' \subseteq ExpiryJobs
  BY <1>1 DEF ExpiryJobs
<1>3. Harmless(p)'
  BY RunHarmless DEF Claim
<1> QED
  BY <1>2, <1>3 DEF Sparing, Claim

LEMMA StepSparing ==
    ASSUME OutboxInv, NEW p \in Procs, Harmless(p), StorageFaults \cap {"put", "delete"} = {},
           \/ Upload(p) \/ Staging(p) \/ Import(p) \/ Cleaning(p) \/ Crash(p)
           \/ \E keys \in SUBSET Keys, run \in BOOLEAN : Delete(p, keys, run)
    PROVE  StageCommit(p) \/ Sparing(p)
<1>1. CASE Upload(p)
  BY <1>1, BeginSparing, GoOnSparing, AttachSparing, RowsSparing DEF Upload
<1>2. CASE Staging(p)
  BY <1>2, BeginSparing, GoOnSparing, StageCancelSparing DEF Staging
<1>3. CASE Import(p)
  BY <1>3, BeginSparing, GoOnSparing, ImportPromoteSparing, RowsSparing DEF Import
<1>4. CASE Cleaning(p)
  <2>1. ASSUME NEW j \in Slots, AdminRetry(p, j) PROVE Sparing(p)
    <3>1. {j} \in SUBSET Slots /\ Claim(p, {j}) /\ \A i \in {j} : Takeable(i)
      BY <2>1 DEF AdminRetry, Claimable, Takeable, Open
    <3> QED
      BY <3>1, ClaimSparing
  <2>2. ASSUME NEW taken \in SUBSET Slots, WorkerClaim(p, taken) PROVE Sparing(p)
    BY <2>2, ClaimSparing DEF WorkerClaim, Claimable, Takeable
  <2> QED
    BY <1>4, <2>1, <2>2, GoOnSparing, RowsSparing DEF Cleaning
<1> QED
  BY <1>1, <1>2, <1>3, <1>4, GoOnSparing, DeleteSparing

\* Fewer expiries are no more than the quota.
LEMMA FewerExpiries ==
    ASSUME ExpiryJobs' \subseteq ExpiryJobs
    PROVE  /\ Cardinality(ExpiryJobs) \in Nat /\ Cardinality(ExpiryJobs') \in Nat
           /\ Cardinality(ExpiryJobs') <= Cardinality(ExpiryJobs)
<1>1. IsFiniteSet(ExpiryJobs)
  BY OutboxAssumption, FS_Subset DEF ExpiryJobs
<1> QED
  BY <1>1, FS_Subset, FS_CardinalityType

\* What a call holds is as harmless after a step of another, which the lock keeps
\* from staging.
LEMMA OthersHarmless ==
    ASSUME OutboxInv, NEW p \in Procs, NEW q \in Procs \ {p}, Harmless(q), Alone(p), RowsKept,
           At(q, "stage") => quota' = q /\ Cardinality(ExpiryJobs') < Quota
    PROVE  Harmless(q)'
<1>1. calls'[q] = calls[q]
  BY DEF Alone
<1>2. \A i \in Slots : i \in Held(q) => SameUse(i)
  BY DEF RowsKept, Free
<1>3. calls[q].pc \in Storing \cup GivingUp => calls[q].job \in Slots /\ SameUse(calls[q].job)
  BY <1>2, JobHeld DEF Bringing
<1>4. \A i \in calls[q].todo : i \in Slots /\ SameUse(i)
  BY <1>2, CallIs DEF Held, Call, OutboxInv, Basic
<1> QED
  BY <1>1, <1>3, <1>4 DEF Harmless, SameUse, At

LEMMA SparingStep ==
    ASSUME OutboxInv, QuotaInv, NEW p \in Procs, Shaped(p), Sparing(p) PROVE QuotaInv'
<1>1. /\ Cardinality(ExpiryJobs) \in Nat /\ Cardinality(ExpiryJobs') \in Nat
      /\ Cardinality(ExpiryJobs') <= Cardinality(ExpiryJobs) /\ Quota \in Nat
  BY FewerExpiries, OutboxAssumption DEF Sparing
<1>2. StagingWithinQuota'
  BY <1>1 DEF StagingWithinQuota, QuotaInv
<1>3. ASSUME NEW q \in Procs \ {p} PROVE Harmless(q)'
  <2>1. Harmless(q)
    BY DEF QuotaInv
  <2>2. ASSUME At(q, "stage") PROVE quota' = q /\ Cardinality(ExpiryJobs') < Quota
    <3>1. quota = q /\ Cardinality(ExpiryJobs) < Quota
      BY <2>1, <2>2 DEF Harmless, At
    <3>2. quota' = q
      BY <3>1, OutboxAssumption DEF Sparing
    <3> QED
      BY <1>1, <3>1, <3>2
  <2> QED
    BY <2>1, <2>2, OthersHarmless DEF Shaped
<1> QED
  BY <1>2, <1>3 DEF QuotaInv, Sparing

\* The one step that adds an expiry, under the lock and below the quota.
LEMMA StageCommitStep ==
    ASSUME OutboxInv, QuotaInv, NEW p \in Procs, Shaped(p), StageCommit(p) PROVE QuotaInv'
<1>p. PICK k \in StagedKeys, j \in Free :
        /\ jobs' = [jobs EXCEPT ![j] = [Row(k, "pending", FALSE) EXCEPT !.expiry = TRUE]]
        /\ calls' = [calls EXCEPT ![p] = [IdleCall EXCEPT !.pc = "stage_put", !.key = k, !.job = j]]
  BY DEF StageCommit
<1>1. quota = p /\ Cardinality(ExpiryJobs) < Quota
  BY DEF StageCommit, At, QuotaInv, Harmless
<1>2. ExpiryJobs' \subseteq ExpiryJobs \cup {j}
  <2>1. jobs \in JobTable
    BY TypeIs DEF OutboxInv
  <2>2. \A i \in Slots \ {j} : jobs'[i] = jobs[i]
    BY <1>p, <2>1 DEF JobTable
  <2> QED
    BY <2>2 DEF ExpiryJobs
<1>3. IsFiniteSet(ExpiryJobs)
  BY OutboxAssumption, FS_Subset DEF ExpiryJobs
<1>4. /\ Cardinality(ExpiryJobs) \in Nat /\ IsFiniteSet(ExpiryJobs \cup {j})
      /\ Cardinality(ExpiryJobs \cup {j}) \in Nat
      /\ Cardinality(ExpiryJobs \cup {j}) <= Cardinality(ExpiryJobs) + 1
  <2>1. Cardinality(ExpiryJobs) \in Nat
    BY <1>3, FS_CardinalityType
  <2>2. IsFiniteSet(ExpiryJobs \cup {j})
        /\ \/ Cardinality(ExpiryJobs \cup {j}) = Cardinality(ExpiryJobs)
           \/ Cardinality(ExpiryJobs \cup {j}) = Cardinality(ExpiryJobs) + 1
    <3>1. CASE j \in ExpiryJobs
      BY <1>3, <3>1, FS_AddElement
    <3>2. CASE j \notin ExpiryJobs
      BY <1>3, <3>2, FS_AddElement
    <3> QED
      BY <3>1, <3>2
  <2> QED
    BY <2>1, <2>2
<1>5. Cardinality(ExpiryJobs') \in Nat
      /\ Cardinality(ExpiryJobs') <= Cardinality(ExpiryJobs \cup {j})
  BY <1>2, <1>4, FS_Subset, FS_CardinalityType
<1>6. StagingWithinQuota'
  BY <1>1, <1>4, <1>5, OutboxAssumption DEF StagingWithinQuota
<1>7. Harmless(p)'
  <2>1. calls'[p] = [IdleCall EXCEPT !.pc = "stage_put", !.key = k, !.job = j]
    BY <1>p, CallStep DEF OutboxInv, Basic
  <2>2. calls'[p].pc = "stage_put" /\ calls'[p].todo = {}
    BY <2>1 DEF IdleCall
  <2> QED
    BY <2>2 DEF Harmless, Storing, GivingUp
<1>8. ASSUME NEW q \in Procs \ {p} PROVE Harmless(q)'
  <2>1. Harmless(q) /\ ~At(q, "stage")
    BY <1>1 DEF QuotaInv, Harmless, At
  <2> QED
    BY <2>1, OthersHarmless DEF Shaped
<1> QED
  BY <1>6, <1>7, <1>8 DEF QuotaInv

LEMMA QuotaNext ==
    ASSUME OutboxInv, QuotaInv, StorageFaults \cap {"put", "delete"} = {}, [Next]_vars
    PROVE  QuotaInv'
<1>1. CASE \E p \in Procs : \/ Upload(p) \/ Staging(p) \/ Import(p) \/ Cleaning(p) \/ Crash(p)
                            \/ \E keys \in SUBSET Keys, run \in BOOLEAN : Delete(p, keys, run)
  <2>1. PICK p \in Procs : \/ Upload(p) \/ Staging(p) \/ Import(p) \/ Cleaning(p) \/ Crash(p)
                           \/ \E keys \in SUBSET Keys, run \in BOOLEAN : Delete(p, keys, run)
    BY <1>1
  <2>2. Shaped(p) /\ (StageCommit(p) \/ Sparing(p))
    BY <2>1, StepShaped, StepSparing DEF QuotaInv
  <2> QED
    BY <2>2, SparingStep, StageCommitStep
<1>2. ASSUME NEW j \in Slots, Ripen(j) PROVE QuotaInv'
  <2>1. /\ UNCHANGED <<quota, calls>>
        /\ \A i \in Slots : jobs'[i].status = jobs[i].status /\ jobs'[i].expiry = jobs[i].expiry
    BY <1>2, RipenIs
  <2>2. ExpiryJobs' = ExpiryJobs
    BY <2>1 DEF ExpiryJobs
  <2>3. ASSUME NEW q \in Procs PROVE Harmless(q)'
    <3>1. calls[q].pc \in Storing \cup GivingUp => calls[q].job \in Slots
      BY JobHeld DEF Bringing
    <3>2. \A i \in calls[q].todo : i \in Slots
      BY CallIs DEF Call, OutboxInv, Basic
    <3>3. Harmless(q)
      BY DEF QuotaInv
    <3> QED
      BY <2>1, <2>2, <3>1, <3>2, <3>3 DEF Harmless
  <2> QED
    BY <2>2, <2>3 DEF QuotaInv, StagingWithinQuota
<1>3. CASE UNCHANGED vars
  BY <1>3 DEF vars, QuotaInv, StagingWithinQuota, Harmless, ExpiryJobs
<1> QED
  BY <1>1, <1>2, <1>3 DEF Next

\* The open expiry jobs, the lock and the calls, in every state.
THEOREM QuotaInvariant ==
    ASSUME StorageFaults \cap {"put", "delete"} = {} PROVE Spec => []QuotaInv
<1>1. Init => QuotaInv
  <2> SUFFICES ASSUME Init PROVE QuotaInv
    OBVIOUS
  <2>1. ExpiryJobs = {}
    BY DEF Init, ExpiryJobs, FreeSlot, Open
  <2>2. Cardinality(ExpiryJobs) = 0
    BY <2>1, FS_EmptySet
  <2>3. \A p \in Procs : Harmless(p)
    BY DEF Init, Harmless, IdleCall, Storing, GivingUp
  <2> QED
    BY <2>2, <2>3, OutboxAssumption DEF QuotaInv, StagingWithinQuota
<1>2. OutboxInv /\ QuotaInv /\ [Next]_vars => QuotaInv'
  BY QuotaNext
<1> QED
  BY <1>1, <1>2, OutboxInvariant, PTL DEF Spec

\* As long as no put and no deletion fails, concurrent staged uploads never exceed
\* the quota they count under the advisory lock (upload_staged_product_image): no
\* other step opens an expiry row again that has been completed.
THEOREM StagingQuota ==
    ASSUME StorageFaults \cap {"put", "delete"} = {} PROVE Spec => []StagingWithinQuota
<1>1. QuotaInv => StagingWithinQuota
  BY DEF QuotaInv
<1> QED
  BY <1>1, QuotaInvariant, PTL
=============================================================================
