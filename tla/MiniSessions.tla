---------------------------- MODULE MiniSessions ----------------------------
(* Customers of the Mini Program and their sessions                          *)
(* (backend/app/services/mini_auth.py, api/routes/mini_auth.py). A login     *)
(* counts against the client's rate limit, exchanges the one-time code for an *)
(* identity at WeChat, and stores the session, with the customer when the    *)
(* identity is new; what it has looked up may be out of date when it commits, *)
(* and the unique constraints decide. A session is a bearer token, named here *)
(* by its row. App IDs are left out: one Mini Program is configured.          *)
EXTENDS RateLimiter

CONSTANTS
    Procs,          \* request threads
    Clients,        \* keys of the rate limiter
    Identities,     \* what WeChat knows people by
    Codes,          \* login codes
    CodeOwner,      \* code -> the identity WeChat answers for it
    SessionTtl,     \* lifetime of a session, in ticks
    InitialCustomers, InitialSessions, InitialLimits,   \* where the instance starts
    MaxTime,        \* bound: the clock
    MaxCalls        \* bound: requests made in one behaviour

ASSUME MiniSessionsAssumption ==
    /\ {MaxTime, MaxCalls} \subseteq Nat /\ SessionTtl \in Nat \ {0}
    /\ CodeOwner \in [Codes -> Identities]

Time == 0..MaxTime

\* The rows of the tables. IDs count from 1.
Customer == [who : Identities, active : BOOLEAN]
Session == [customer : Nat \ {0}, code : Codes, expires : Int, revoked : Time \cup {None}]

\* The constraints of the tables, and whose the sessions are.
Exclusive(cs, ss) ==
    /\ \A s, t \in DOMAIN ss : ss[s].code = ss[t].code => s = t
    /\ \A i, j \in DOMAIN cs : cs[i].who = cs[j].who => i = j
    /\ \A s \in DOMAIN ss :
          ss[s].customer \in DOMAIN cs /\ cs[ss[s].customer].who = CodeOwner[ss[s].code]

\* A table that calls of the limiter have left behind.
LimiterTable(table) ==
    /\ DOMAIN table \subseteq Clients /\ IsFiniteSet(DOMAIN table)
    /\ Cardinality(DOMAIN table) <= MaxKeys
    /\ table \in [DOMAIN table -> Seq(Int)]
    /\ \A k \in DOMAIN table : Len(table[k]) \in 1..Limit

ASSUME InitialSessionsAssumption ==
    /\ \A cs \in InitialCustomers, ss \in InitialSessions :
          cs \in Seq(Customer) /\ ss \in Seq(Session) /\ Exclusive(cs, ss)
    /\ \A table \in InitialLimits : LimiterTable(table)

VARIABLES
    customers,  \* rows [who, active]
    sessions,   \* rows [customer, code, expires, revoked]
    limiter,    \* the login limiter's table
    granted,    \* history: key -> its counted logins since it was last given up
    now,
    calls,      \* the request every thread is executing
    left        \* requests that may still be made

sessionVars == <<customers, sessions, limiter, granted>>

\* got: what the request has read; again: it is on its second attempt.
IdleCall == [pc |-> "idle", req |-> None, got |-> None, again |-> FALSE]

SessionsInit ==
    /\ customers \in InitialCustomers
    /\ sessions \in InitialSessions
    /\ limiter \in InitialLimits
    /\ granted = [k \in Clients |-> IF k \in DOMAIN limiter THEN limiter[k] ELSE <<>>]
    /\ now = 0
    /\ calls = [p \in Procs |-> IdleCall]
    /\ left = MaxCalls

At(p, pc) == calls[p].pc = pc

\* A request that one transaction decides is one step.
Spend(p) == At(p, "idle") /\ left > 0 /\ left' = left - 1

Begin(p, pc, req) ==
    /\ Spend(p)
    /\ calls' = [calls EXCEPT ![p] = [IdleCall EXCEPT !.pc = pc, !.req = req]]

Continue(p, pc, got) ==
    /\ calls' = [calls EXCEPT ![p].pc = pc, ![p].got = got]
    /\ UNCHANGED left

EndCall(p) == calls' = [calls EXCEPT ![p] = IdleCall] /\ UNCHANGED left

-----------------------------------------------------------------------------
(* Login                                                                     *)

\* The keys that may be given up: the table is full of keys with live events and
\* nobody's reach further back.
Evictable ==
    LET live == LiveKeys(limiter, now)
        since(k) == Head(Kept(limiter[k], now)) IN
    {k \in live : Cardinality(live) >= MaxKeys /\ \A l \in live : since(k) <= since(l)}

Login(p, client, code) ==
    /\ Spend(p)
    /\ \E outcome \in Consume(limiter, client, now) :
          /\ limiter' = outcome.table
          /\ granted' = [k \in Clients |->
                 IF k \in Evictable \ DOMAIN outcome.table THEN <<>>
                 ELSE IF k = client /\ outcome.retry = None THEN Append(granted[k], now)
                 ELSE granted[k]]
          /\ IF outcome.retry = None
             THEN calls' = [calls EXCEPT ![p].pc = "login_lookup", ![p].req = [code |-> code]]
             ELSE UNCHANGED calls
    /\ UNCHANGED <<customers, sessions, now>>

CodeUsed(code) == \E s \in DOMAIN sessions : sessions[s].code = code

\* WeChat names the code's owner, and the code has no session yet.
LoginLookup(p) ==
    /\ At(p, "login_lookup")
    /\ ~CodeUsed(calls[p].req.code)
    /\ Continue(p, "login_customer", [at |-> now])
    /\ UNCHANGED <<sessionVars, now>>

\* WeChat refuses, or cannot be reached, or the code has a session.
LoginRefused(p) ==
    /\ At(p, "login_lookup")
    /\ EndCall(p)
    /\ UNCHANGED <<sessionVars, now>>

Rows(who) == {i \in DOMAIN customers : customers[i].who = who}

\* The head of the retry loop: the customer of the identity, if there is one.
LoginCustomer(p) ==
    LET known == Rows(CodeOwner[calls[p].req.code]) IN
    /\ At(p, "login_customer")
    /\ IF \E i \in known : ~customers[i].active
       THEN EndCall(p)
       ELSE Continue(p, "login_commit", [at |-> calls[p].got.at,
                customer |-> IF known = {} THEN None ELSE CHOOSE i \in known : TRUE])
    /\ UNCHANGED <<sessionVars, now>>

\* Mutant: customers without the unique constraint on their identity.
NeverTaken(who) == FALSE

IdentityTaken(who) == Rows(who) # {}

Creating(p) == calls[p].got.customer = None

\* The customer, when new, and the session are committed together.
LoginCommit(p) ==
    LET code == calls[p].req.code
        who == CodeOwner[code]
        read == calls[p].got IN
    /\ At(p, "login_commit")
    /\ ~CodeUsed(code)
    /\ Creating(p) => ~IdentityTaken(who)
    /\ customers' = IF Creating(p) THEN Append(customers, [who |-> who, active |-> TRUE])
                    ELSE customers
    /\ sessions' = Append(sessions,
           [customer |-> IF Creating(p) THEN Len(customers) + 1 ELSE read.customer,
            code |-> code, expires |-> read.at + SessionTtl, revoked |-> None])
    /\ EndCall(p)
    /\ UNCHANGED <<limiter, granted, now>>

\* IntegrityError: a used code is refused; when another login has created the
\* customer the loop runs once more, and anything else is raised ("error").
LoginConflict(p) ==
    LET code == calls[p].req.code IN
    /\ At(p, "login_commit")
    /\ CodeUsed(code) \/ (Creating(p) /\ IdentityTaken(CodeOwner[code]))
    /\ IF CodeUsed(code) THEN EndCall(p)
       ELSE /\ calls' = [calls EXCEPT ![p].again = TRUE,
                   ![p].pc = IF calls[p].again THEN "error" ELSE "login_customer"]
            /\ UNCHANGED left
    /\ UNCHANGED <<sessionVars, now>>

-----------------------------------------------------------------------------
(* Using and revoking a session                                              *)

Authenticated(s) ==
    /\ sessions[s].revoked = None
    /\ customers[sessions[s].customer].active
    /\ sessions[s].expires > now

\* Every request of a customer authenticates first, and acts in later steps.
BeginAs(p, s, pc, req) == Authenticated(s) /\ Begin(p, pc, req)

Logout(p, s) == BeginAs(p, s, "logout", [session |-> s]) /\ UNCHANGED <<sessionVars, now>>

\* Mutant: the update overwrites an earlier revocation.
AnySession(s) == TRUE

\* The condition of the update statement.
Unrevoked(s) == sessions[s].revoked = None

LogoutCommit(p) ==
    LET s == calls[p].req.session IN
    /\ At(p, "logout")
    /\ sessions' = IF Unrevoked(s) THEN [sessions EXCEPT ![s].revoked = now] ELSE sessions
    /\ EndCall(p)
    /\ UNCHANGED <<customers, limiter, granted, now>>

SessionsStep(p) ==
    \/ \E client \in Clients, code \in Codes : Login(p, client, code)
    \/ LoginLookup(p)
    \/ LoginRefused(p)
    \/ LoginCustomer(p)
    \/ LoginCommit(p)
    \/ LoginConflict(p)
    \/ \E s \in DOMAIN sessions : Logout(p, s)
    \/ LogoutCommit(p)

-----------------------------------------------------------------------------
(* Correctness                                                               *)

SessionsTypeOK ==
    /\ customers \in Seq(Customer) /\ sessions \in Seq(Session)
    /\ \A s \in DOMAIN sessions : sessions[s].customer \in DOMAIN customers
    /\ DOMAIN limiter \subseteq Clients /\ limiter \in [DOMAIN limiter -> Seq(Int) \ {<<>>}]
    /\ granted \in [Clients -> Seq(Int)]
    /\ now \in Time /\ left \in 0..MaxCalls

\* However logins interleave, a code opens at most one session, an identity has
\* one customer, and the session belongs to the identity of its code. A first
\* login that loses the race for its customer succeeds on its second attempt:
\* no login ends in an unhandled IntegrityError (mini_auth.py:54-111).
LoginIsExclusive ==
    /\ Exclusive(customers, sessions)
    /\ \A p \in Procs : ~At(p, "error")

\* A session that was revoked stays revoked, since the moment of the first
\* logout, although concurrent logouts had all authenticated before it
\* (mini_auth.py:136-145).
FirstRevocationStands ==
    [][\A s \in DOMAIN sessions : sessions[s].revoked # None => sessions'[s] = sessions[s]]_sessions

\* The limiter keeps its promises to a client it has not had to give up: at most
\* Limit logins are counted in any window, and a client that is refused and waits for
\* the seconds of Retry-After is not refused again, while a second less would
\* have been too short. The table never outgrows its bound (rate_limit.py).
LimitHonest ==
    /\ Cardinality(DOMAIN limiter) <= MaxKeys
    /\ \A k \in Clients : Len(Kept(granted[k], now)) <= Limit
    /\ \A k \in DOMAIN limiter :
          LET events == Kept(limiter[k], now)
              wait == RetryAfter(events, now) * PerSecond IN
          Len(events) >= Limit =>
              /\ Len(Kept(events, now + wait)) < Limit
              /\ Len(Kept(events, now + wait - PerSecond)) >= Limit
=============================================================================
