--------------------------- MODULE MiniShopProofs ---------------------------
(* Proofs about MiniShop, for every number of threads, clients, codes and     *)
(* coupons, every table the instance may start from, and every clock.         *)
EXTENDS MiniShop, RateLimiterProofs

-----------------------------------------------------------------------------
(* The calls                                                                 *)

Shaped ==
    /\ DOMAIN calls = Procs
    /\ \A p \in Procs :
          /\ DOMAIN calls[p] = {"pc", "req", "got", "again"}
          /\ calls[p].again \in BOOLEAN
          /\ At(p, "idle") => calls[p].again = FALSE

\* A step moves one thread: p's call becomes one at pc.
Moves(p, pc) ==
    /\ Shaped'
    /\ \A q \in Procs \ {p} : calls'[q] = calls[q]
    /\ calls'[p].pc = pc

LEMMA BeginMoves ==
    ASSUME Shaped, NEW p \in Procs, NEW pc, NEW req, Begin(p, pc, req)
    PROVE  Moves(p, pc) /\ calls'[p].req = req /\ calls'[p].again = FALSE /\ At(p, "idle")
<1> DEFINE c == [IdleCall EXCEPT !.pc = pc, !.req = req]
<1>1. /\ DOMAIN c = {"pc", "req", "got", "again"}
      /\ c.pc = pc /\ c.req = req /\ c.again = FALSE
  BY DEF IdleCall
<1> HIDE DEF c
<1>2. calls' = [calls EXCEPT ![p] = c] /\ At(p, "idle")
  BY DEF Begin, Spend, c
<1>3. /\ DOMAIN calls' = Procs /\ calls'[p] = c
      /\ \A q \in Procs \ {p} : calls'[q] = calls[q]
  BY <1>2 DEF Shaped
<1>4. Shaped'
  BY <1>1, <1>3 DEF Shaped, At
<1> QED
  BY <1>1, <1>2, <1>3, <1>4 DEF Moves

LEMMA EndMoves ==
    ASSUME Shaped, NEW p \in Procs, EndCall(p)
    PROVE  Moves(p, "idle")
<1>1. /\ DOMAIN calls' = Procs /\ calls'[p] = IdleCall
      /\ \A q \in Procs \ {p} : calls'[q] = calls[q]
  BY DEF EndCall, Shaped
<1>2. /\ DOMAIN IdleCall = {"pc", "req", "got", "again"}
      /\ IdleCall.pc = "idle" /\ IdleCall.again = FALSE
  BY DEF IdleCall
<1>3. Shaped'
  BY <1>1, <1>2 DEF Shaped, At
<1> QED
  BY <1>1, <1>2, <1>3 DEF Moves

LEMMA ContinueMoves ==
    ASSUME Shaped, NEW p \in Procs, NEW pc, NEW got, pc # "idle", Continue(p, pc, got)
    PROVE  /\ Moves(p, pc) /\ calls'[p].got = got
           /\ calls'[p].req = calls[p].req /\ calls'[p].again = calls[p].again
<1>1. calls' = [calls EXCEPT ![p] = [calls[p] EXCEPT !.pc = pc, !.got = got]]
  BY DEF Continue, Shaped
<1> DEFINE c == [calls[p] EXCEPT !.pc = pc, !.got = got]
<1>2. /\ DOMAIN c = {"pc", "req", "got", "again"}
      /\ c.pc = pc /\ c.got = got /\ c.req = calls[p].req /\ c.again = calls[p].again
  BY DEF Shaped
<1> HIDE DEF c
<1>3. /\ DOMAIN calls' = Procs /\ calls'[p] = c
      /\ \A q \in Procs \ {p} : calls'[q] = calls[q]
  BY <1>1 DEF Shaped, c
<1>4. Shaped'
  BY <1>2, <1>3 DEF Shaped, At
<1> QED
  BY <1>2, <1>3, <1>4 DEF Moves

-----------------------------------------------------------------------------
(* Sessions                                                                  *)

\* What a login or a logout has read stays true until it commits: customers are
\* not deleted, and on its second attempt a login finds the one that beat it.
SessionCall(p) ==
    LET c == calls[p] IN
    /\ c.pc # "error"
    /\ c.pc = "login_lookup" => c.again = FALSE
    /\ c.pc \in {"login_lookup", "login_customer", "login_commit"} => c.req.code \in Codes
    /\ c.pc \in {"login_customer", "login_commit"} => c.got.at \in Time
    /\ c.pc = "login_customer" /\ c.again => Rows(CodeOwner[c.req.code]) # {}
    /\ c.pc = "login_commit" => \/ c.got.customer = None /\ c.again = FALSE
                                \/ c.got.customer \in Rows(CodeOwner[c.req.code])
    /\ c.pc = "logout" => c.req.session \in DOMAIN sessions

SessionsInv ==
    /\ customers \in Seq(Customer) /\ sessions \in Seq(Session)
    /\ Exclusive(customers, sessions)
    /\ now \in Time /\ left \in 0..MaxCalls
    /\ Shaped
    /\ \A p \in Procs : SessionCall(p)

SessionPcs == {"idle", "login_lookup", "login_customer", "login_commit", "logout"}

\* What a step of the sessions leaves to the others.
Grows ==
    /\ DOMAIN customers \subseteq DOMAIN customers' /\ DOMAIN sessions \subseteq DOMAIN sessions'
    /\ \A i \in DOMAIN customers : customers'[i] = customers[i]

\* A step that does not touch a call, or starts one that is none of the sessions'.
LEMMA SessionCallStays ==
    ASSUME Shaped, Shaped', Grows, NEW p \in Procs, SessionCall(p),
           calls'[p] = calls[p] \/ calls'[p].pc \notin SessionPcs \cup {"error"} \/ calls'[p].pc = "idle"
    PROVE  SessionCall(p)'
<1>1. CASE calls'[p] = calls[p]
  <2>1. \A who : Rows(who) \subseteq Rows(who)'
    BY DEF Rows, Grows
  <2> DEFINE who == CodeOwner[calls[p].req.code]
  <2>2. Rows(CodeOwner[calls[p].req.code]) \subseteq Rows(CodeOwner[calls[p].req.code])'
    BY <1>1 DEF Rows, Grows
  <2> QED
    BY <1>1, <2>2 DEF SessionCall, Grows
<1>2. CASE calls'[p].pc \notin SessionPcs \cup {"error"} \/ calls'[p].pc = "idle"
  BY <1>2 DEF SessionCall, SessionPcs
<1> QED
  BY <1>1, <1>2

LEMMA NamesDiffer == None \notin Nat /\ Time \subseteq Nat
  BY RateLimiterAssumption, MiniSessionsAssumption DEF Time

\* A Seq's index set and elements.
LEMMA RowsAreTyped ==
    ASSUME NEW S, NEW s \in Seq(S)
    PROVE  /\ Len(s) \in Nat /\ DOMAIN s = 1..Len(s) /\ \A i \in DOMAIN s : s[i] \in S
           /\ DOMAIN s \subseteq Nat \ {0}
<1>1. Len(s) \in Nat /\ DOMAIN s = 1..Len(s)
  BY LenProperties
<1>2. \A i \in DOMAIN s : s[i] \in S
  BY <1>1, ElementOfSeq
<1> QED
  BY <1>1, <1>2

LEMMA RowIsAdded ==
    ASSUME NEW S, NEW s \in Seq(S), NEW x \in S
    PROVE  /\ Append(s, x) \in Seq(S) /\ DOMAIN Append(s, x) = DOMAIN s \cup {Len(s) + 1}
           /\ Append(s, x)[Len(s) + 1] = x /\ \A i \in DOMAIN s : Append(s, x)[i] = s[i]
           /\ Len(s) + 1 \notin DOMAIN s
<1>1. /\ Append(s, x) \in Seq(S) /\ Len(Append(s, x)) = Len(s) + 1
      /\ Append(s, x)[Len(s) + 1] = x /\ \A i \in 1..Len(s) : Append(s, x)[i] = s[i]
  BY AppendProperties
<1> DEFINE t == Append(s, x)
<1>2. /\ Len(s) \in Nat /\ DOMAIN s = 1..Len(s)
  BY LenProperties
<1>3. DOMAIN t = 1..Len(t)
  BY <1>1, LenProperties
<1>4. t \in Seq(S) /\ Len(t) = Len(s) + 1 /\ t[Len(s) + 1] = x /\ \A i \in 1..Len(s) : t[i] = s[i]
  BY <1>1
<1> HIDE DEF t
<1> QED
  BY <1>2, <1>3, <1>4 DEF t

LEMMA RowIsChanged ==
    ASSUME NEW S, NEW s \in Seq(S), NEW i \in DOMAIN s, NEW x \in S
    PROVE  /\ [s EXCEPT ![i] = x] \in Seq(S) /\ DOMAIN [s EXCEPT ![i] = x] = DOMAIN s
           /\ [s EXCEPT ![i] = x][i] = x
           /\ \A j \in DOMAIN s \ {i} : [s EXCEPT ![i] = x][j] = s[j]
  BY ExceptSeq, LenProperties

LEMMA SessionsStart == Init => SessionsInv
<1> SUFFICES ASSUME Init PROVE SessionsInv
  OBVIOUS
<1>1. /\ customers \in InitialCustomers /\ sessions \in InitialSessions
      /\ calls = [p \in Procs |-> IdleCall] /\ now = 0 /\ left = MaxCalls
  BY DEF Init, SessionsInit
<1>2. customers \in Seq(Customer) /\ sessions \in Seq(Session) /\ Exclusive(customers, sessions)
  BY <1>1, InitialSessionsAssumption
<1>3. now \in Time /\ left \in 0..MaxCalls
  BY <1>1, MiniSessionsAssumption DEF Time
<1>4. Shaped
  BY <1>1 DEF Shaped, At, IdleCall
<1>5. \A p \in Procs : SessionCall(p)
  BY <1>1 DEF SessionCall, IdleCall
<1> QED
  BY <1>2, <1>3, <1>4, <1>5 DEF SessionsInv

LEMMA SessionsKept ==
    ASSUME SessionsInv, NEW p \in Procs, NEW pc, Moves(p, pc), SessionCall(p)',
           Grows, customers' \in Seq(Customer), sessions' \in Seq(Session),
           Exclusive(customers', sessions'), now' \in Time, left' \in 0..MaxCalls
    PROVE  SessionsInv'
<1>1. Shaped /\ Shaped' /\ \A q \in Procs \ {p} : SessionCall(q) /\ calls'[q] = calls[q]
  BY DEF SessionsInv, Moves
<1>2. \A q \in Procs \ {p} : SessionCall(q)'
  BY <1>1, SessionCallStays
<1> QED
  BY <1>1, <1>2 DEF SessionsInv

LEMMA SpendCounts ==
    ASSUME NEW p, left \in 0..MaxCalls, Spend(p)
    PROVE  left' \in 0..MaxCalls
  BY MiniSessionsAssumption DEF Spend

\* A call that is over, and a request that begins where nothing is remembered.
LEMMA SessionsStepKeeps ==
    ASSUME SessionsInv, NEW p \in Procs, SessionsStep(p)
    PROVE  SessionsInv' /\ Grows /\ \A q \in Procs : calls'[q] = calls[q] \/ calls'[q].pc \in SessionPcs
<1> DEFINE Here == \E pc \in SessionPcs : Moves(p, pc)
<1>1. /\ Shaped /\ customers \in Seq(Customer) /\ sessions \in Seq(Session)
      /\ Exclusive(customers, sessions) /\ now \in Time /\ left \in 0..MaxCalls /\ SessionCall(p)
  BY DEF SessionsInv
<1>2. /\ DOMAIN customers = 1..Len(customers) /\ Len(customers) \in Nat
      /\ \A i \in DOMAIN customers : customers[i] \in Customer
      /\ DOMAIN sessions = 1..Len(sessions) /\ Len(sessions) \in Nat
      /\ \A i \in DOMAIN sessions : sessions[i] \in Session
  BY <1>1, RowsAreTyped
<1>3. ASSUME UNCHANGED <<customers, sessions, now>>
      PROVE  Grows /\ customers' \in Seq(Customer) /\ sessions' \in Seq(Session)
             /\ Exclusive(customers', sessions') /\ now' \in Time
  BY <1>1, <1>3 DEF Grows
<1>4. ASSUME NEW client \in Clients, NEW code \in Codes, Login(p, client, code)
      PROVE  SessionsInv' /\ Grows
             /\ \A q \in Procs : calls'[q] = calls[q] \/ calls'[q].pc \in SessionPcs
  <2>1. /\ UNCHANGED <<customers, sessions, now>> /\ Spend(p)
        /\ \/ calls' = [calls EXCEPT ![p].pc = "login_lookup", ![p].req = [code |-> code]]
           \/ calls' = calls
    BY <1>4 DEF Login
  <2>2. left' \in 0..MaxCalls
    BY <1>1, <2>1, SpendCounts
  <2>3. CASE calls' = calls
    <3>1. Moves(p, "idle")
      BY <1>1, <2>1, <2>3 DEF Moves, Shaped, Spend, At
    <3>2. SessionCall(p)'
      BY <1>1, <1>3, <2>1, <2>3, <3>1, SessionCallStays DEF Moves
    <3> QED
      BY <1>3, <2>1, <2>2, <2>3, <3>1, <3>2, SessionsKept
  <2>4. CASE calls' = [calls EXCEPT ![p].pc = "login_lookup", ![p].req = [code |-> code]]
    <3> DEFINE c == [calls[p] EXCEPT !.pc = "login_lookup", !.req = [code |-> code]]
    <3>1. /\ DOMAIN c = {"pc", "req", "got", "again"}
          /\ c.pc = "login_lookup" /\ c.req.code = code /\ c.again = FALSE
      BY <1>1, <2>1 DEF Shaped, Spend
    <3>2. calls' = [calls EXCEPT ![p] = c]
      BY <1>1, <2>4 DEF Shaped
    <3> HIDE DEF c
    <3>3. DOMAIN calls' = Procs /\ calls'[p] = c /\ \A q \in Procs \ {p} : calls'[q] = calls[q]
      BY <1>1, <3>2 DEF Shaped
    <3>4. Moves(p, "login_lookup")
      BY <1>1, <3>1, <3>3 DEF Moves, Shaped, At
    <3>5. SessionCall(p)'
      BY <1>4, <3>1, <3>3 DEF SessionCall
    <3> QED
      BY <1>3, <2>1, <2>2, <3>4, <3>5, SessionsKept DEF Moves, SessionPcs
  <2> QED
    BY <2>1, <2>3, <2>4
<1>5. ASSUME LoginLookup(p) PROVE SessionsInv' /\ Grows /\ Here
  <2>1. /\ UNCHANGED <<customers, sessions, now, left>> /\ At(p, "login_lookup")
        /\ Continue(p, "login_customer", [at |-> now])
    BY <1>5 DEF LoginLookup, Continue, sessionVars
  <2>2. /\ Moves(p, "login_customer") /\ calls'[p].got = [at |-> now]
        /\ calls'[p].req = calls[p].req /\ calls'[p].again = calls[p].again
    BY <1>1, <2>1, ContinueMoves
  <2>3. SessionCall(p)'
    BY <1>1, <2>1, <2>2 DEF SessionCall, At, Moves
  <2> QED
    BY <1>1, <1>3, <2>1, <2>2, <2>3, SessionsKept DEF SessionPcs
<1>6. ASSUME LoginRefused(p) \/ (LoginCustomer(p) /\ EndCall(p)) \/ (LoginConflict(p) /\ EndCall(p))
      PROVE SessionsInv' /\ Grows /\ Here
  <2>1. UNCHANGED <<customers, sessions, now, left>> /\ EndCall(p)
    BY <1>6 DEF LoginRefused, LoginCustomer, LoginConflict, EndCall, sessionVars
  <2>2. Moves(p, "idle")
    BY <1>1, <2>1, EndMoves
  <2>3. SessionCall(p)'
    BY <2>2 DEF SessionCall, Moves
  <2> QED
    BY <1>1, <1>3, <2>1, <2>2, <2>3, SessionsKept DEF SessionPcs
<1>7. ASSUME LoginCustomer(p), ~EndCall(p) PROVE SessionsInv' /\ Grows /\ Here
  <2> DEFINE known == Rows(CodeOwner[calls[p].req.code])
             found == IF known = {} THEN None ELSE CHOOSE i \in known : TRUE
             got == [at |-> calls[p].got.at, customer |-> found]
  <2>1. /\ UNCHANGED <<customers, sessions, now, left>> /\ At(p, "login_customer")
        /\ Continue(p, "login_commit", got)
    BY <1>7 DEF LoginCustomer, Continue, sessionVars
  <2>2. (known = {} /\ found = None) \/ found \in known
    OBVIOUS
  <2>3. got.at = calls[p].got.at /\ got.customer = found
    OBVIOUS
  <2> HIDE DEF found, got
  <2>5. /\ Moves(p, "login_commit") /\ calls'[p].got = got
        /\ calls'[p].req = calls[p].req /\ calls'[p].again = calls[p].again
    BY <1>1, <2>1, ContinueMoves
  <2>6. calls[p].again = FALSE \/ known # {}
    BY <1>1, <2>1 DEF SessionCall, At, Shaped
  <2>7. Rows(CodeOwner[calls[p].req.code])' = known
    BY <2>1, <2>5 DEF Rows
  <2>8. SessionCall(p)'
    BY <1>1, <2>1, <2>2, <2>3, <2>5, <2>6, <2>7 DEF SessionCall, At, Moves
  <2> QED
    BY <1>1, <1>3, <2>1, <2>5, <2>8, SessionsKept DEF SessionPcs
<1>8. ASSUME LoginCommit(p) PROVE SessionsInv' /\ Grows /\ Here
  <2> DEFINE code == calls[p].req.code
             who == CodeOwner[code]
             person == [who |-> who, active |-> TRUE]
             customer == IF Creating(p) THEN Len(customers) + 1 ELSE calls[p].got.customer
             session == [customer |-> customer, code |-> code,
                         expires |-> calls[p].got.at + SessionTtl, revoked |-> None]
  <2>1. /\ UNCHANGED <<now, left>> /\ At(p, "login_commit") /\ EndCall(p)
        /\ ~CodeUsed(code) /\ (Creating(p) => Rows(who) = {})
        /\ customers' = IF Creating(p) THEN Append(customers, person) ELSE customers
        /\ sessions' = Append(sessions, session)
    BY <1>8 DEF LoginCommit, EndCall, IdentityTaken
  <2>2. code \in Codes /\ who \in Identities /\ calls[p].got.at \in Nat /\ SessionTtl \in Nat
    BY <1>1, <2>1, NamesDiffer, MiniSessionsAssumption DEF SessionCall, At
  <2>3. ~Creating(p) => customer \in DOMAIN customers /\ customers[customer].who = who
    BY <1>1, <2>1 DEF SessionCall, At, Creating, Rows
  <2>4. person \in Customer /\ person.who = who
    BY <2>2 DEF Customer
  <2>5. customer \in Nat \ {0}
    BY <1>1, <1>2, <2>3, RowsAreTyped
  <2>6. session \in Session /\ session.code = code /\ session.customer = customer
    BY <2>2, <2>5 DEF Session
  <2> HIDE DEF person, session
  <2>7. /\ customers' \in Seq(Customer) /\ DOMAIN customers \subseteq DOMAIN customers'
        /\ \A i \in DOMAIN customers : customers'[i] = customers[i]
        /\ customer \in DOMAIN customers' /\ customers'[customer].who = who
        /\ \A i \in DOMAIN customers' \ DOMAIN customers : i = customer /\ Creating(p)
    <3>1. CASE Creating(p)
      <4>1. customers' = Append(customers, person) /\ customer = Len(customers) + 1
        BY <2>1, <3>1
      <4> HIDE DEF customer
      <4> QED
        BY <1>1, <2>4, <4>1, <3>1, RowIsAdded
    <3>2. CASE ~Creating(p)
      BY <1>1, <2>1, <2>3, <3>2
    <3> QED
      BY <3>1, <3>2
  <2> HIDE DEF customer
  <2>8. /\ sessions' \in Seq(Session) /\ DOMAIN sessions' = DOMAIN sessions \cup {Len(sessions) + 1}
        /\ \A s \in DOMAIN sessions : sessions'[s] = sessions[s]
        /\ sessions'[Len(sessions) + 1] = session
    BY <1>1, <2>1, <2>6, RowIsAdded
  <2>9. Exclusive(customers', sessions')
    <3>1. ASSUME NEW s \in DOMAIN sessions', NEW t \in DOMAIN sessions',
                 sessions'[s].code = sessions'[t].code
          PROVE  s = t
      <4>1. \A r \in DOMAIN sessions : sessions[r].code # code
        BY <2>1 DEF CodeUsed
      <4>2. \A r \in DOMAIN sessions : sessions'[r].code = sessions[r].code
        BY <2>8
      <4>3. sessions'[Len(sessions) + 1].code = code
        BY <2>6, <2>8
      <4>4. \A q, r \in DOMAIN sessions : sessions[q].code = sessions[r].code => q = r
        BY <1>1 DEF Exclusive
      <4> HIDE DEF code
      <4> DEFINE top == Len(sessions) + 1
      <4> HIDE DEF top
      <4>5. s \in DOMAIN sessions \cup {top} /\ t \in DOMAIN sessions \cup {top}
        BY <2>8 DEF top
      <4>6. sessions'[top].code = code
        BY <4>3 DEF top
      <4> QED
        BY <3>1, <4>1, <4>2, <4>4, <4>5, <4>6
    <3>2. ASSUME NEW i \in DOMAIN customers', NEW j \in DOMAIN customers',
                 customers'[i].who = customers'[j].who
          PROVE  i = j
      <4>1. \A k, l \in DOMAIN customers : customers[k].who = customers[l].who => k = l
        BY <1>1 DEF Exclusive
      <4>2. \A k \in DOMAIN customers' \ DOMAIN customers :
               customers'[k].who = who /\ \A l \in DOMAIN customers : customers[l].who # who
        BY <2>1, <2>7 DEF Rows
      <4>3. \A k \in DOMAIN customers : customers'[k].who = customers[k].who
        BY <2>7
      <4> HIDE DEF who
      <4>4. CASE i \in DOMAIN customers /\ j \in DOMAIN customers
        BY <3>2, <4>1, <4>3, <4>4
      <4>5. CASE i \notin DOMAIN customers /\ j \notin DOMAIN customers
        BY <2>7, <4>5
      <4> QED
        BY <3>2, <4>2, <4>3, <4>4, <4>5
    <3>3. ASSUME NEW s \in DOMAIN sessions'
          PROVE  /\ sessions'[s].customer \in DOMAIN customers'
                 /\ customers'[sessions'[s].customer].who = CodeOwner[sessions'[s].code]
      BY <1>1, <2>6, <2>7, <2>8 DEF Exclusive
    <3> QED
      BY <3>1, <3>2, <3>3 DEF Exclusive
  <2>10. Grows
    BY <2>7, <2>8 DEF Grows
  <2>11. Moves(p, "idle")
    BY <1>1, <2>1, EndMoves
  <2>12. SessionCall(p)'
    BY <2>11 DEF SessionCall, Moves
  <2> QED
    BY <1>1, <2>1, <2>7, <2>8, <2>9, <2>10, <2>11, <2>12, SessionsKept DEF SessionPcs
<1>9. ASSUME LoginConflict(p), ~EndCall(p) PROVE SessionsInv' /\ Grows /\ Here
  <2> DEFINE who == CodeOwner[calls[p].req.code]
  <2>1. /\ UNCHANGED <<customers, sessions, now, left>> /\ At(p, "login_commit")
        /\ Creating(p) /\ Rows(who) # {}
    BY <1>9 DEF LoginConflict, sessionVars, IdentityTaken
  <2>2. calls[p].again = FALSE
    BY <1>1, <2>1, <1>2, NamesDiffer DEF SessionCall, At, Creating, Rows
  <2>3. calls' = [calls EXCEPT ![p].again = TRUE, ![p].pc = "login_customer"]
    BY <1>9, <2>2 DEF LoginConflict
  <2> DEFINE c == [calls[p] EXCEPT !.again = TRUE, !.pc = "login_customer"]
  <2>9. /\ DOMAIN c = {"pc", "req", "got", "again"}
        /\ c.pc = "login_customer" /\ c.again = TRUE /\ c.req = calls[p].req /\ c.got = calls[p].got
    BY <1>1 DEF Shaped
  <2>4. calls' = [calls EXCEPT ![p] = c]
    BY <1>1, <2>3 DEF Shaped
  <2> HIDE DEF c
  <2>5. DOMAIN calls' = Procs /\ calls'[p] = c /\ \A q \in Procs \ {p} : calls'[q] = calls[q]
    BY <1>1, <2>4 DEF Shaped
  <2>6. Moves(p, "login_customer")
    BY <1>1, <2>9, <2>5 DEF Moves, Shaped, At
  <2>7. Rows(CodeOwner[calls[p].req.code])' = Rows(who)
    BY <2>1, <2>9, <2>5 DEF Rows
  <2>8. SessionCall(p)'
    BY <1>1, <2>1, <2>9, <2>5, <2>7 DEF SessionCall, At
  <2> QED
    BY <1>1, <1>3, <2>1, <2>6, <2>8, SessionsKept DEF SessionPcs
<1>10. ASSUME NEW s \in DOMAIN sessions, Logout(p, s) PROVE SessionsInv' /\ Grows /\ Here
  <2>1. /\ UNCHANGED <<customers, sessions, now>> /\ Begin(p, "logout", [session |-> s]) /\ Spend(p)
    BY <1>10 DEF Logout, BeginAs, Begin, sessionVars
  <2>2. left' \in 0..MaxCalls
    BY <1>1, <2>1, SpendCounts
  <2>3. Moves(p, "logout") /\ calls'[p].req = [session |-> s]
    BY <1>1, <2>1, BeginMoves
  <2>4. SessionCall(p)'
    BY <2>1, <2>3 DEF SessionCall, Moves
  <2> QED
    BY <1>3, <2>1, <2>2, <2>3, <2>4, SessionsKept DEF SessionPcs
<1>11. ASSUME LogoutCommit(p) PROVE SessionsInv' /\ Grows /\ Here
  <2> DEFINE s == calls[p].req.session
             row == [sessions[s] EXCEPT !.revoked = now]
  <2>1. /\ UNCHANGED <<customers, now, left>> /\ At(p, "logout") /\ EndCall(p)
        /\ sessions' = IF Unrevoked(s) THEN [sessions EXCEPT ![s].revoked = now] ELSE sessions
    BY <1>11 DEF LogoutCommit, EndCall
  <2>2. s \in DOMAIN sessions
    BY <1>1, <2>1 DEF SessionCall, At
  <2>3. row \in Session /\ row.code = sessions[s].code /\ row.customer = sessions[s].customer
    BY <1>1, <1>2, <2>2 DEF Session
  <2>4. sessions' = sessions \/ sessions' = [sessions EXCEPT ![s] = row]
    BY <2>1
  <2> HIDE DEF row
  <2>5. /\ sessions' \in Seq(Session) /\ DOMAIN sessions' = DOMAIN sessions
        /\ \A t \in DOMAIN sessions : /\ sessions'[t].code = sessions[t].code
                                     /\ sessions'[t].customer = sessions[t].customer
    <3>1. CASE sessions' = sessions
      BY <1>1, <3>1
    <3>2. CASE sessions' = [sessions EXCEPT ![s] = row]
      BY <1>1, <2>2, <2>3, <3>2, RowIsChanged
    <3> QED
      BY <2>4, <3>1, <3>2
  <2>6. Exclusive(customers', sessions')
    <3>1. Exclusive(customers, sessions) /\ customers' = customers
      BY <1>1, <2>1
    <3>2. \A t, u \in DOMAIN sessions' : sessions'[t].code = sessions'[u].code => t = u
      BY <2>5, <3>1 DEF Exclusive
    <3>3. \A t \in DOMAIN sessions' :
              /\ sessions'[t].customer \in DOMAIN customers'
              /\ customers'[sessions'[t].customer].who = CodeOwner[sessions'[t].code]
      BY <2>5, <3>1 DEF Exclusive
    <3> QED
      BY <3>1, <3>2, <3>3 DEF Exclusive
  <2>7. Grows
    BY <2>1, <2>5 DEF Grows
  <2>8. Moves(p, "idle")
    BY <1>1, <2>1, EndMoves
  <2>9. SessionCall(p)'
    BY <2>8 DEF SessionCall, Moves
  <2> QED
    BY <1>1, <2>1, <2>5, <2>6, <2>7, <2>8, <2>9, SessionsKept DEF SessionPcs
<1>12. Here => \A q \in Procs : calls'[q] = calls[q] \/ calls'[q].pc \in SessionPcs
  BY DEF Moves
<1> QED
  BY <1>4, <1>5, <1>6, <1>7, <1>8, <1>9, <1>10, <1>11, <1>12 DEF SessionsStep

-----------------------------------------------------------------------------
(* The limiter                                                               *)

\* The table remembers of every client exactly the logins that still count.
LimiterInv ==
    /\ DOMAIN limiter \subseteq Clients /\ IsTable(limiter)
    /\ granted \in [Clients -> Log]
    /\ \A k \in Clients : /\ Kept(granted[k], now) = Counted(limiter, k, now)
                          /\ Len(Kept(granted[k], now)) <= Limit

LEMMA KeptIsShort ==
    ASSUME NEW e \in Log, NEW t \in Int
    PROVE  Kept(e, t) \in Log /\ Len(Kept(e, t)) \in Nat /\ Len(e) \in Nat /\ Len(Kept(e, t)) <= Len(e)
<1>1. PICK n \in Nat : Len(Kept(e, t)) = Len(e) - n
  BY KeptShape
<1>2. Kept(e, t) \in Log /\ Len(Kept(e, t)) \in Nat /\ Len(e) \in Nat
  BY KeptShape, LenProperties DEF Log
<1> QED
  BY <1>1, <1>2

LEMMA LimiterStart == Init => LimiterInv
<1> SUFFICES ASSUME Init PROVE LimiterInv
  OBVIOUS
<1>1. /\ limiter \in InitialLimits /\ now = 0
      /\ granted = [k \in Clients |-> IF k \in DOMAIN limiter THEN limiter[k] ELSE <<>>]
  BY DEF Init, SessionsInit
<1>2. LimiterTable(limiter)
  BY <1>1, InitialSessionsAssumption
<1>3. \A k \in DOMAIN limiter : limiter[k] \in Log /\ Len(limiter[k]) \in 1..Limit /\ limiter[k] # <<>>
  BY <1>2, EmptySeq DEF LimiterTable, Log
<1>4. IsTable(limiter)
  <2>1. Cardinality(DOMAIN limiter) \in Nat /\ MaxKeys \in Nat
    BY <1>2, FS_CardinalityType, RateLimiterAssumption DEF LimiterTable
  <2> QED
    BY <1>2, <1>3, <2>1 DEF IsTable, LimiterTable, Log
<1>5. <<>> \in Log /\ Len(<<>>) = 0 /\ Kept(<<>>, 0) = <<>>
  BY KeptNothing, EmptySeq
<1>6. granted \in [Clients -> Log]
  BY <1>1, <1>3, <1>5
<1>7. ASSUME NEW k \in Clients
      PROVE  Kept(granted[k], now) = Counted(limiter, k, now) /\ Len(Kept(granted[k], now)) <= Limit
  <2>1. CASE k \in DOMAIN limiter
    <3>1. granted[k] = limiter[k] /\ Limit \in Nat
      BY <1>1, <2>1, RateLimiterAssumption
    <3>2. Len(Kept(limiter[k], 0)) <= Len(limiter[k]) /\ Len(Kept(limiter[k], 0)) \in Nat
      BY <1>3, <2>1, KeptIsShort
    <3>3. Len(Kept(limiter[k], 0)) <= Limit
      BY <1>3, <2>1, <3>1, <3>2
    <3> QED
      BY <1>1, <2>1, <3>1, <3>3 DEF Counted
  <2>2. CASE k \notin DOMAIN limiter
    BY <1>1, <1>5, <2>2, RateLimiterAssumption DEF Counted
  <2> QED
    BY <2>1, <2>2
<1> QED
  BY <1>2, <1>4, <1>6, <1>7 DEF LimiterInv, LimiterTable

LEMMA LimiterTicks ==
    ASSUME LimiterInv, now \in Nat, now' = now + 1, UNCHANGED <<limiter, granted>>
    PROVE  LimiterInv'
<1>1. now \in Int /\ now + 1 \in Int /\ now <= now + 1
  OBVIOUS
<1>2. ASSUME NEW k \in Clients
      PROVE  /\ Kept(granted[k], now + 1) = Counted(limiter, k, now + 1)
             /\ Len(Kept(granted[k], now + 1)) <= Limit
  <2> DEFINE e == granted[k]
             c == Kept(e, now)
  <2>1. e \in Log /\ c = Counted(limiter, k, now) /\ Len(c) <= Limit
    BY DEF LimiterInv
  <2>2. Kept(e, now + 1) = Kept(c, now + 1)
    BY <1>1, <2>1, KeptLater
  <2>3. Kept(Counted(limiter, k, now), now + 1) = Counted(limiter, k, now + 1)
    BY <1>1, KeptLater, KeptNothing DEF LimiterInv, IsTable, Counted
  <2>4. c \in Log
    BY <1>1, <2>1, KeptShape
  <2> HIDE DEF c
  <2>5. Len(Kept(c, now + 1)) <= Len(c) /\ Len(Kept(c, now + 1)) \in Nat /\ Len(c) \in Nat
    BY <1>1, <2>4, KeptIsShort
  <2>6. Len(Kept(c, now + 1)) <= Limit
    BY <2>1, <2>5, RateLimiterAssumption
  <2> QED
    BY <2>1, <2>2, <2>3, <2>6
<1> QED
  BY <1>2 DEF LimiterInv

LEMMA LoginCounts ==
    ASSUME LimiterInv, now \in Int, NEW p, NEW client \in Clients, NEW code, Login(p, client, code)
    PROVE  LimiterInv'
<1>1. PICK outcome \in Consume(limiter, client, now) :
         /\ limiter' = outcome.table
         /\ granted' = [k \in Clients |->
                IF k \in Evictable \ DOMAIN outcome.table THEN <<>>
                ELSE IF k = client /\ outcome.retry = None THEN Append(granted[k], now)
                ELSE granted[k]]
  BY DEF Login
<1>2. now' = now
  BY DEF Login
<1>3. /\ DOMAIN limiter \subseteq Clients /\ IsTable(limiter) /\ granted \in [Clients -> Log]
      /\ \A k \in Clients : /\ Kept(granted[k], now) = Counted(limiter, k, now)
                            /\ Len(Kept(granted[k], now)) <= Limit
  BY DEF LimiterInv
<1> DEFINE t == outcome.table
           before == Counted(limiter, client, now)
<1>4. /\ IsTable(t) /\ client \in DOMAIN t /\ DOMAIN t \subseteq DOMAIN limiter \cup {client}
      /\ before \in Log
      /\ outcome.retry = None => Len(before) < Limit /\ Kept(t[client], now) = Append(before, now)
      /\ outcome.retry # None => Kept(t[client], now) = before
      /\ \A k \in DOMAIN t \ {client} : Kept(t[k], now) = Kept(limiter[k], now)
      /\ \A k \in DOMAIN limiter \ DOMAIN t :
            Kept(limiter[k], now) = <<>> \/ k \in GivenUp(limiter, now)
  BY <1>3, ConsumeCounts
<1>5. Evictable = GivenUp(limiter, now)
  BY DEF Evictable, GivenUp
<1>6. \A k \in GivenUp(limiter, now) : Kept(limiter[k], now) # <<>> /\ k \in DOMAIN limiter
  BY DEF GivenUp, LiveKeys
<1>7. <<>> \in Log /\ Kept(<<>>, now) = <<>> /\ Len(<<>>) = 0 /\ Limit \in Nat \ {0}
  BY KeptNothing, EmptySeq, RateLimiterAssumption
<1> HIDE DEF t, before
<1>8. limiter' = t /\ DOMAIN t \subseteq Clients
  BY <1>1, <1>3, <1>4 DEF t
<1>9. \A k \in Clients :
         granted'[k] = IF k \in GivenUp(limiter, now) \ DOMAIN t THEN <<>>
                       ELSE IF k = client /\ outcome.retry = None THEN Append(granted[k], now)
                       ELSE granted[k]
  BY <1>1, <1>5 DEF t
<1>10. granted' \in [Clients -> Log]
  <2>1. \A k \in Clients : Append(granted[k], now) \in Log /\ granted[k] \in Log
    BY <1>3, AppendProperties DEF Log
  <2>2. granted' = [k \in Clients |-> granted'[k]]
    BY <1>1
  <2>3. \A k \in Clients : granted'[k] \in Log
    BY <1>7, <1>9, <2>1
  <2> QED
    BY <2>2, <2>3
<1>11. ASSUME NEW k \in Clients
       PROVE  Kept(granted'[k], now) = Counted(t, k, now) /\ Len(Kept(granted'[k], now)) <= Limit
  <2>1. CASE k = client
    <3>1. k \in DOMAIN t /\ Counted(t, k, now) = Kept(t[client], now)
      BY <1>4, <2>1 DEF Counted
    <3>2. granted[k] \in Log /\ Kept(granted[k], now) = before
      BY <1>3, <2>1 DEF before
    <3>3. CASE outcome.retry = None
      <4>1. granted'[k] = Append(granted[k], now)
        BY <1>9, <2>1, <3>1, <3>3
      <4>2. Kept(granted'[k], now) = Append(before, now)
        BY <3>2, <4>1, KeptCounts
      <4>3. Len(Append(before, now)) = Len(before) + 1 /\ Len(before) \in Nat
        BY <1>4, AppendProperties, LenProperties DEF Log
      <4>4. Len(Append(before, now)) <= Limit
        BY <1>4, <1>7, <3>3, <4>3
      <4> QED
        BY <1>4, <3>1, <3>3, <4>2, <4>4
    <3>4. CASE outcome.retry # None
      BY <1>3, <1>4, <1>9, <2>1, <3>1, <3>2, <3>4
    <3> QED
      BY <3>3, <3>4
  <2>2. CASE k # client /\ k \in DOMAIN t
    BY <1>3, <1>4, <1>9, <2>2 DEF Counted
  <2>3. CASE k # client /\ k \notin DOMAIN t
    <3>1. Counted(t, k, now) = <<>>
      BY <2>3 DEF Counted
    <3>2. CASE k \in GivenUp(limiter, now)
      BY <1>7, <1>9, <2>3, <3>1, <3>2
    <3>3. CASE k \notin GivenUp(limiter, now)
      <4>1. granted'[k] = granted[k]
        BY <1>9, <2>3, <3>3
      <4>2. Counted(limiter, k, now) = <<>>
        BY <1>4, <2>3, <3>3 DEF Counted
      <4> QED
        BY <1>3, <3>1, <4>1, <4>2
    <3> QED
      BY <3>2, <3>3
  <2> QED
    BY <2>1, <2>2, <2>3
<1> QED
  BY <1>2, <1>4, <1>8, <1>10, <1>11 DEF LimiterInv

\* Refusals tell the truth.
LEMMA LimiterIsHonest == ASSUME LimiterInv, now \in Int PROVE LimitHonest
<1>1. ASSUME NEW k \in DOMAIN limiter, Len(Kept(limiter[k], now)) >= Limit
      PROVE  LET events == Kept(limiter[k], now)
                 wait == RetryAfter(events, now) * PerSecond IN
             /\ Len(Kept(events, now + wait)) < Limit
             /\ Len(Kept(events, now + wait - PerSecond)) >= Limit
  <2> DEFINE e == Kept(limiter[k], now)
             wait == RetryAfter(e, now) * PerSecond
  <2>1. limiter[k] \in Log /\ k \in Clients
    BY DEF LimiterInv, IsTable
  <2>2. e \in Log /\ Len(e) \in Nat
    BY <2>1, KeptIsShort
  <2>3. Len(e) <= Limit
    BY <2>1 DEF LimiterInv, Counted
  <2>4. PICK n \in Nat : /\ SplitsAt(limiter[k], now, n) /\ Len(e) = Len(limiter[k]) - n
                         /\ \A i \in 1..Len(e) : e[i] = limiter[k][n + i]
    BY <2>1, KeptShape
  <2>5. Len(limiter[k]) \in Nat /\ Limit \in Nat \ {0}
    BY <2>1, KeptIsShort, RateLimiterAssumption
  <2> HIDE DEF e
  <2>6. Len(e) = Limit /\ Len(e) > 0
    BY <1>1, <2>2, <2>3, <2>5 DEF e
  <2>7. e[1] = limiter[k][n + 1] /\ n < Len(limiter[k])
    BY <2>2, <2>4, <2>5, <2>6
  <2>8. e[1] > now - Window
    BY <2>4, <2>7 DEF SplitsAt
  <2>9. Len(Kept(e, now + wait)) < Len(e) /\ Len(Kept(e, now + wait - PerSecond)) = Len(e)
    BY <2>2, <2>6, <2>8, RetryAfterIsExact
  <2> QED
    BY <2>5, <2>6, <2>9 DEF e
<1>2. Cardinality(DOMAIN limiter) <= MaxKeys
  BY RateLimiterAssumption DEF LimiterInv, IsTable
<1>3. \A k \in Clients : Len(Kept(granted[k], now)) <= Limit
  BY DEF LimiterInv
<1> QED
  BY <1>1, <1>2, <1>3 DEF LimitHonest

-----------------------------------------------------------------------------
(* Coupons and their claims                                                  *)

CommercePcs == {"claim_lock", "claim_commit", "order_commit"}

\* A claim between its lock and its commit holds its coupon, which was open when
\* the claim was made; an order to be stored is the one that was reported.
CommerceCall(p) ==
    LET c == calls[p] IN
    /\ c.pc \in {"claim_lock", "claim_commit"} =>
          c.req.customer \in DOMAIN customers /\ c.req.coupon \in Coupons
    /\ c.pc = "claim_commit" =>
          /\ holders[c.req.coupon] = p /\ coupons[c.req.coupon] # None
          /\ c.got.at \in Time /\ InWindow(coupons[c.req.coupon], c.got.at)
    /\ c.pc = "order_commit" =>
          /\ c.req.report \in Payloads /\ c.req.completed \in Int
          /\ c.req.report.completed # None => c.req.completed = c.req.report.completed

CouponsInv ==
    /\ coupons \in [Coupons -> Coupon \cup {None}]
    /\ \A c \in Coupons : coupons[c] # None => ValidDefinition(coupons[c])
    /\ claims \subseteq [customer : DOMAIN customers, coupon : Coupons, at : Time]
    /\ \A k \in claims : coupons[k.coupon] # None
    /\ holders \in [Coupons -> Procs \cup {None}]

\* A reported order is stored as it was reported.
Records(order, report) ==
    /\ order.ref = report.ref
    /\ order.customer = report.customer /\ order.items = report.items
    /\ report.completed # None => order.completed = report.completed

OrdersInv ==
    /\ orders \in Seq(Order) /\ answered \subseteq Payloads
    /\ \A i, j \in DOMAIN orders : orders[i].ref = orders[j].ref => i = j
    /\ \A i \in DOMAIN orders : orders[i].voided # None => orders[i].voided >= orders[i].completed
    /\ \A report \in answered : \E i \in DOMAIN orders : Records(orders[i], report)

CommerceInv == CouponsInv /\ OrdersInv /\ \A p \in Procs : CommerceCall(p)

\* A step that leaves a thread's call and the coupons it holds alone.
LEMMA CommerceCallStays ==
    ASSUME Grows, NEW p \in Procs, CommerceCall(p),
           calls'[p] = calls[p] \/ calls'[p].pc \notin CommercePcs,
           \A c \in Coupons : holders[c] = p => holders'[c] = p /\ coupons'[c] = coupons[c]
    PROVE  CommerceCall(p)'
<1>1. CASE calls'[p] = calls[p]
  BY <1>1 DEF CommerceCall, Grows
<1>2. CASE calls'[p].pc \notin CommercePcs
  BY <1>2 DEF CommerceCall, CommercePcs
<1> QED
  BY <1>1, <1>2

LEMMA CommerceCallsStay ==
    ASSUME Grows, NEW p \in Procs, CommerceInv, Moves(p, calls'[p].pc), CommerceCall(p)',
           \A q \in Procs \ {p}, c \in Coupons :
               holders[c] = q => holders'[c] = q /\ coupons'[c] = coupons[c]
    PROVE  \A q \in Procs : CommerceCall(q)'
<1>1. ASSUME NEW q \in Procs \ {p} PROVE CommerceCall(q)'
  BY CommerceCallStays DEF CommerceInv, Moves
<1> QED
  BY <1>1

LEMMA CommerceStart == Init => CommerceInv
<1> SUFFICES ASSUME Init PROVE CommerceInv
  OBVIOUS
<1>1. /\ coupons \in InitialCoupons /\ claims = {} /\ holders = [c \in Coupons |-> None]
      /\ orders = <<>> /\ answered = {} /\ calls = [p \in Procs |-> IdleCall]
  BY DEF Init, SessionsInit, CommerceInit
<1>2. CouponsInv
  BY <1>1, ShopCommerceAssumption DEF CouponsInv
<1>3. orders \in Seq(Order) /\ DOMAIN orders = {}
  BY <1>1, EmptySeq
<1>4. OrdersInv
  BY <1>1, <1>3 DEF OrdersInv
<1>5. \A p \in Procs : CommerceCall(p)
  BY <1>1 DEF CommerceCall, IdleCall
<1> QED
  BY <1>2, <1>4, <1>5 DEF CommerceInv

\* What other steps leave of it.
LEMMA CommerceUntouched ==
    ASSUME CommerceInv, Grows, UNCHANGED commerceVars,
           \A q \in Procs : calls'[q] = calls[q] \/ calls'[q].pc \notin CommercePcs
    PROVE  CommerceInv'
<1>1. CouponsInv'
  BY DEF CommerceInv, CouponsInv, commerceVars, Grows
<1>2. OrdersInv'
  BY DEF CommerceInv, OrdersInv, commerceVars
<1>3. ASSUME NEW q \in Procs PROVE CommerceCall(q)'
  BY CommerceCallStays DEF CommerceInv, commerceVars
<1> QED
  BY <1>1, <1>2, <1>3 DEF CommerceInv

\* A partial update of a row is a row.
LEMMA MergedIsCoupon ==
    ASSUME NEW row \in Coupon, NEW edit \in Edits
    PROVE  Merged(row, edit) \in Coupon
<1> DEFINE m == Merged(row, edit)
<1>1. DOMAIN row = {"min", "discount", "starts", "expires", "active"}
  BY DEF Coupon
<1>2. m = [f \in DOMAIN row |-> IF f \in DOMAIN edit THEN edit[f] ELSE row[f]]
  BY DEF Merged
<1>3. /\ row.min \in Int /\ row.discount \in Int /\ row.starts \in Int /\ row.expires \in Int
      /\ row.active \in BOOLEAN
  BY DEF Coupon
<1>4. \A f \in DOMAIN edit : edit[f] \in IF f = "active" THEN BOOLEAN ELSE Int
  BY ShopCommerceAssumption
<1> HIDE DEF m
<1>5. \A f \in DOMAIN row \ {"active"} : m[f] \in Int
  BY <1>1, <1>2, <1>3, <1>4
<1>6. m["active"] \in BOOLEAN
  BY <1>1, <1>2, <1>3, <1>4
<1>7. m = [min |-> m["min"], discount |-> m["discount"], starts |-> m["starts"],
           expires |-> m["expires"], active |-> m["active"]]
  BY <1>1, <1>2
<1>8. m \in [min : Int, discount : Int, starts : Int, expires : Int, active : BOOLEAN]
  BY <1>1, <1>5, <1>6, <1>7
<1> QED
  BY <1>8 DEF m, Coupon

\* What a step of commerce or the store does to the calls and to the count.
Quiet(p, pcs) ==
    /\ left' \in 0..MaxCalls
    /\ (calls' = calls /\ At(p, "idle")) \/ \E pc \in pcs \cup {"idle"} : Moves(p, pc)

LEMMA SpendIsQuiet ==
    ASSUME SessionsInv, NEW p \in Procs, NEW pcs, Spend(p), UNCHANGED calls
    PROVE  Quiet(p, pcs) /\ Moves(p, "idle") /\ calls'[p].pc = "idle"
<1>1. left' \in 0..MaxCalls /\ At(p, "idle")
  BY SpendCounts DEF SessionsInv, Spend
<1>2. Moves(p, "idle")
  BY <1>1 DEF SessionsInv, Moves, Shaped, At
<1> QED
  BY <1>1, <1>2 DEF Quiet, Moves

LEMMA BeginIsQuiet ==
    ASSUME SessionsInv, NEW p \in Procs, NEW pcs, NEW pc \in pcs, NEW req, Begin(p, pc, req)
    PROVE  Quiet(p, pcs) /\ Moves(p, pc) /\ calls'[p].pc = pc /\ calls'[p].req = req
<1>1. left' \in 0..MaxCalls
  BY SpendCounts DEF SessionsInv, Begin
<1>2. Moves(p, pc) /\ calls'[p].req = req
  BY BeginMoves DEF SessionsInv
<1> QED
  BY <1>1, <1>2 DEF Quiet, Moves

LEMMA EndIsQuiet ==
    ASSUME SessionsInv, NEW p \in Procs, NEW pcs, EndCall(p)
    PROVE  Quiet(p, pcs) /\ Moves(p, "idle") /\ calls'[p].pc = "idle"
<1>1. left' \in 0..MaxCalls
  BY DEF SessionsInv, EndCall
<1>2. Moves(p, "idle")
  BY EndMoves DEF SessionsInv
<1> QED
  BY <1>1, <1>2 DEF Quiet, Moves

LEMMA ContinueIsQuiet ==
    ASSUME SessionsInv, NEW p \in Procs, NEW pcs, NEW pc \in pcs, NEW got, pc # "idle",
           Continue(p, pc, got)
    PROVE  /\ Quiet(p, pcs) /\ Moves(p, pc) /\ calls'[p].pc = pc
           /\ calls'[p].req = calls[p].req /\ calls'[p].got = got
<1>1. left' \in 0..MaxCalls
  BY DEF SessionsInv, Continue
<1>2. Moves(p, pc) /\ calls'[p].req = calls[p].req /\ calls'[p].got = got
  BY ContinueMoves DEF SessionsInv
<1> QED
  BY <1>1, <1>2 DEF Quiet, Moves

LEMMA QuietKeepsSessions ==
    ASSUME SessionsInv, NEW p \in Procs, NEW pcs, Quiet(p, pcs), UNCHANGED <<sessionVars, now>>,
           pcs \cap (SessionPcs \cup {"error"}) \subseteq {"idle"}
    PROVE  /\ SessionsInv' /\ Grows
           /\ \A q \in Procs : calls'[q] = calls[q] \/ calls'[q].pc \in pcs \cup {"idle"}
<1>1. Grows /\ UNCHANGED <<customers, sessions, now>>
  BY DEF Grows, sessionVars
<1>2. CASE calls' = calls /\ At(p, "idle")
  <2>1. Moves(p, "idle")
    BY <1>2 DEF Moves, SessionsInv, Shaped, At
  <2>2. SessionCall(p)'
    BY <1>1, <1>2, <2>1, SessionCallStays DEF SessionsInv, Moves
  <2> QED
    BY <1>1, <1>2, <2>1, <2>2, SessionsKept DEF SessionsInv, Quiet
<1>3. ASSUME NEW pc \in pcs \cup {"idle"}, Moves(p, pc)
      PROVE  /\ SessionsInv'
             /\ \A q \in Procs : calls'[q] = calls[q] \/ calls'[q].pc \in pcs \cup {"idle"}
  <2>1. SessionCall(p)'
    BY <1>1, <1>3, SessionCallStays DEF SessionsInv, Moves
  <2> QED
    BY <1>1, <1>3, <2>1, SessionsKept DEF SessionsInv, Quiet, Moves
<1> QED
  BY <1>1, <1>2, <1>3 DEF Quiet

\* Creating and editing coupons; nobody edits one that is being claimed.
LEMMA CouponEditsKeep ==
    ASSUME SessionsInv, CommerceInv, NEW p \in Procs, NEW c \in Coupons, NEW row \in Coupon,
           ValidDefinition(row), coupons[c] = None \/ Unheld(c), Spend(p),
           coupons' = [coupons EXCEPT ![c] = row],
           UNCHANGED <<calls, claims, holders, orders, answered, sessionVars, now>>
    PROVE  Quiet(p, CommercePcs) /\ CommerceInv'
<1>1. Quiet(p, CommercePcs) /\ Moves(p, "idle") /\ calls'[p].pc = "idle"
  BY SpendIsQuiet
<1>2. Grows /\ CouponsInv /\ OrdersInv
  BY DEF Grows, sessionVars, CommerceInv
<1>3. /\ DOMAIN coupons = Coupons /\ coupons'[c] = row /\ row # None
      /\ \A d \in Coupons \ {c} : coupons'[d] = coupons[d]
  BY <1>2, ShopCommerceAssumption DEF CouponsInv
<1>4. CouponsInv'
  BY <1>2, <1>3 DEF CouponsInv, sessionVars
<1>5. OrdersInv'
  BY <1>2 DEF OrdersInv
<1>6. CommerceCall(p)'
  BY <1>1 DEF CommerceCall
<1>7. ASSUME NEW q \in Procs PROVE CommerceCall(q)'
  <2>1. CommerceCall(q) /\ q # None
    BY ShopCommerceAssumption DEF CommerceInv
  <2>2. CASE calls[q].pc = "claim_commit"
    <3>1. calls[q].req.coupon \in Coupons \ {c}
      BY <2>1, <2>2 DEF CommerceCall, Unheld
    <3> QED
      BY <1>2, <1>3, <2>1, <2>2, <3>1 DEF CommerceCall, sessionVars
  <2>3. CASE calls[q].pc # "claim_commit"
    BY <2>1, <2>3 DEF CommerceCall, sessionVars
  <2> QED
    BY <2>2, <2>3
<1> QED
  BY <1>1, <1>4, <1>5, <1>7 DEF CommerceInv

LEMMA CouponsStepKeeps ==
    ASSUME SessionsInv, CommerceInv, NEW p \in Procs, CommerceStep(p), UNCHANGED <<orders, answered>>,
           \/ \E c \in Coupons, d \in Definitions : CreateCoupon(p, c, d)
           \/ \E c \in Coupons, edit \in Edits : UpdateCoupon(p, c, edit)
           \/ \E s \in DOMAIN sessions, c \in Coupons : ClaimCoupon(p, s, c)
           \/ ClaimLock(p) \/ ClaimAnswered(p) \/ ClaimCommit(p)
    PROVE  Quiet(p, CommercePcs) /\ CommerceInv'
<1>1. UNCHANGED <<customers, sessions, limiter, granted, now>>
  BY DEF CommerceStep, sessionVars
<1>2. Grows /\ CouponsInv /\ OrdersInv /\ CommerceCall(p) /\ now \in Time
      /\ None \notin Procs
  BY <1>1, ShopCommerceAssumption DEF Grows, CommerceInv, SessionsInv
<1>3. OrdersInv'
  BY <1>2 DEF OrdersInv
<1>4. ASSUME NEW c \in Coupons, NEW d \in Definitions, CreateCoupon(p, c, d)
      PROVE  Quiet(p, CommercePcs) /\ CommerceInv'
  <2>1. d \in Coupon
    BY ShopCommerceAssumption
  <2> QED
    BY <1>1, <1>4, <2>1, CouponEditsKeep DEF CreateCoupon, sessionVars
<1>5. ASSUME NEW c \in Coupons, NEW edit \in Edits, UpdateCoupon(p, c, edit)
      PROVE  Quiet(p, CommercePcs) /\ CommerceInv'
  <2>1. coupons[c] \in Coupon /\ coupons' = [coupons EXCEPT ![c] = Merged(coupons[c], edit)]
    BY <1>2, <1>5 DEF UpdateCoupon, CouponsInv
  <2>2. Merged(coupons[c], edit) \in Coupon
    BY <2>1, MergedIsCoupon
  <2> QED
    BY <1>1, <1>5, <2>1, <2>2, CouponEditsKeep DEF UpdateCoupon, ValidEdit, sessionVars
<1>6. ASSUME NEW s \in DOMAIN sessions, NEW c \in Coupons, ClaimCoupon(p, s, c)
      PROVE  Quiet(p, CommercePcs) /\ CommerceInv'
  <2> DEFINE req == [customer |-> sessions[s].customer, coupon |-> c]
  <2>1. Begin(p, "claim_lock", req) /\ UNCHANGED commerceVars
    BY <1>6 DEF ClaimCoupon, BeginAs
  <2>2. req.customer \in DOMAIN customers /\ req.coupon = c
    BY DEF SessionsInv, Exclusive
  <2> HIDE DEF req
  <2>3. /\ Quiet(p, CommercePcs) /\ Moves(p, "claim_lock")
        /\ calls'[p].pc = "claim_lock" /\ calls'[p].req = req
    BY <2>1, BeginIsQuiet DEF CommercePcs
  <2>4. CommerceCall(p)'
    BY <1>1, <2>2, <2>3 DEF CommerceCall
  <2>5. \A q \in Procs : CommerceCall(q)'
    BY <1>2, <2>1, <2>3, <2>4, CommerceCallsStay DEF commerceVars
  <2>6. CouponsInv'
    BY <1>1, <1>2, <2>1 DEF CouponsInv, commerceVars
  <2> QED
    BY <1>3, <2>3, <2>5, <2>6 DEF CommerceInv
<1>7. ASSUME ClaimLock(p) PROVE Quiet(p, CommercePcs) /\ CommerceInv'
  <2> DEFINE c == calls[p].req.coupon
  <2>1. /\ At(p, "claim_lock") /\ holders[c] = None /\ coupons[c] # None /\ InWindow(coupons[c], now)
        /\ holders' = [holders EXCEPT ![c] = p] /\ UNCHANGED <<coupons, claims>>
        /\ Continue(p, "claim_commit", [at |-> now])
    BY <1>7 DEF ClaimLock, Unheld
  <2>2. c \in Coupons /\ calls[p].req.customer \in DOMAIN customers
    BY <1>2, <2>1 DEF CommerceCall, At
  <2>3. /\ Quiet(p, CommercePcs) /\ Moves(p, "claim_commit") /\ calls'[p].pc = "claim_commit"
        /\ calls'[p].req = calls[p].req /\ calls'[p].got = [at |-> now]
    BY <2>1, ContinueIsQuiet DEF CommercePcs
  <2>4. /\ holders' \in [Coupons -> Procs \cup {None}] /\ holders'[c] = p
        /\ \A d \in Coupons \ {c} : holders'[d] = holders[d]
    BY <1>2, <2>1, <2>2 DEF CouponsInv
  <2>5. CommerceCall(p)'
    BY <1>1, <1>2, <2>1, <2>2, <2>3, <2>4 DEF CommerceCall
  <2>6. \A q \in Procs \ {p}, d \in Coupons :
            holders[d] = q => holders'[d] = q /\ coupons'[d] = coupons[d]
    BY <1>2, <2>1, <2>4
  <2>7. \A q \in Procs : CommerceCall(q)'
    BY <1>2, <2>3, <2>5, <2>6, CommerceCallsStay
  <2>8. CouponsInv'
    BY <1>1, <1>2, <2>1, <2>4 DEF CouponsInv
  <2> QED
    BY <1>3, <2>3, <2>7, <2>8 DEF CommerceInv
<1>8. ASSUME ClaimAnswered(p) PROVE Quiet(p, CommercePcs) /\ CommerceInv'
  <2>1. EndCall(p) /\ UNCHANGED commerceVars
    BY <1>8 DEF ClaimAnswered
  <2>2. Quiet(p, CommercePcs) /\ Moves(p, "idle") /\ calls'[p].pc = "idle"
    BY <2>1, EndIsQuiet
  <2>3. CommerceCall(p)'
    BY <2>2 DEF CommerceCall
  <2>4. \A q \in Procs : CommerceCall(q)'
    BY <1>2, <2>1, <2>2, <2>3, CommerceCallsStay DEF commerceVars
  <2>5. CouponsInv'
    BY <1>1, <1>2, <2>1 DEF CouponsInv, commerceVars
  <2> QED
    BY <1>3, <2>2, <2>4, <2>5 DEF CommerceInv
<1>9. ASSUME ClaimCommit(p) PROVE Quiet(p, CommercePcs) /\ CommerceInv'
  <2> DEFINE c == calls[p].req.coupon
             claim == [customer |-> calls[p].req.customer, coupon |-> c, at |-> calls[p].got.at]
  <2>1. /\ At(p, "claim_commit") /\ EndCall(p)
        /\ claims' = claims \/ claims' = claims \cup {claim}
        /\ holders' = [holders EXCEPT ![c] = None] /\ UNCHANGED coupons
    BY <1>9 DEF ClaimCommit
  <2>2. /\ c \in Coupons /\ calls[p].req.customer \in DOMAIN customers
        /\ holders[c] = p /\ coupons[c] # None /\ calls[p].got.at \in Time
    BY <1>2, <2>1 DEF CommerceCall, At
  <2>3. Quiet(p, CommercePcs) /\ Moves(p, "idle") /\ calls'[p].pc = "idle"
    BY <2>1, EndIsQuiet
  <2>4. /\ holders' \in [Coupons -> Procs \cup {None}]
        /\ \A d \in Coupons \ {c} : holders'[d] = holders[d]
    BY <1>2, <2>1, <2>2 DEF CouponsInv
  <2>5. CommerceCall(p)'
    BY <2>3 DEF CommerceCall
  <2>6. \A q \in Procs \ {p}, d \in Coupons :
            holders[d] = q => holders'[d] = q /\ coupons'[d] = coupons[d]
    BY <2>1, <2>2, <2>4
  <2>7. \A q \in Procs : CommerceCall(q)'
    BY <1>2, <2>3, <2>5, <2>6, CommerceCallsStay
  <2>8. claim \in [customer : DOMAIN customers, coupon : Coupons, at : Time] /\ claim.coupon = c
    BY <2>2
  <2> HIDE DEF claim
  <2>9. CouponsInv'
    BY <1>1, <1>2, <2>1, <2>2, <2>4, <2>8 DEF CouponsInv
  <2> QED
    BY <1>3, <2>3, <2>7, <2>9 DEF CommerceInv
<1> QED
  BY <1>4, <1>5, <1>6, <1>7, <1>8, <1>9

-----------------------------------------------------------------------------
(* Recorded orders                                                           *)

\* A report is accepted only as a repetition of the order that is stored.
LEMMA AnswersAgree ==
    ASSUME OrdersInv, NEW report \in Payloads, Answer(report), UNCHANGED orders
    PROVE  OrdersInv'
<1>1. ASSUME NEW i \in Reported(report.ref), SameOrder(orders[i], report)
      PROVE  i \in DOMAIN orders /\ Records(orders[i], report)
  BY <1>1 DEF Reported, SameOrder, Records
<1>2. CASE answered' = answered
  BY <1>2 DEF OrdersInv
<1>3. CASE /\ answered' = answered \cup {report}
           /\ \E i \in Reported(report.ref) : SameOrder(orders[i], report)
  BY <1>1, <1>3 DEF OrdersInv
<1> QED
  BY <1>2, <1>3 DEF Answer

LEMMA OrdersStepKeeps ==
    ASSUME SessionsInv, CommerceInv, NEW p \in Procs, CommerceStep(p),
           \/ \E payload \in Payloads : RecordOrder(p, payload)
           \/ OrderCommit(p) \/ OrderConflict(p)
           \/ \E i \in DOMAIN orders : VoidOrder(p, i)
    PROVE  Quiet(p, CommercePcs) /\ CommerceInv'
<1>1. /\ UNCHANGED <<customers, sessions, limiter, granted, now>>
      /\ UNCHANGED <<coupons, claims, holders>>
  BY DEF CommerceStep, sessionVars, RecordOrder, OrderCommit, OrderConflict, VoidOrder
<1>2. Grows /\ CouponsInv /\ OrdersInv /\ CommerceCall(p) /\ now \in Nat /\ None \notin Nat
  BY <1>1, NamesDiffer DEF Grows, CommerceInv, SessionsInv
<1>3. CouponsInv'
  BY <1>1, <1>2 DEF CouponsInv
<1>4. ASSUME Moves(p, calls'[p].pc), CommerceCall(p)' PROVE \A q \in Procs : CommerceCall(q)'
  BY <1>1, <1>2, <1>4, CommerceCallsStay
<1>5. \A i \in DOMAIN orders : orders[i] \in Order
  BY <1>2, RowsAreTyped DEF OrdersInv
<1>6. ASSUME NEW payload \in Payloads, RecordOrder(p, payload)
      PROVE  Quiet(p, CommercePcs) /\ CommerceInv'
  <2>1. CASE Reported(payload.ref) # {}
    <3>1. Answer(payload) /\ Spend(p) /\ UNCHANGED <<calls, orders>>
      BY <1>6, <2>1 DEF RecordOrder
    <3>2. Quiet(p, CommercePcs) /\ Moves(p, "idle") /\ calls'[p].pc = "idle"
      BY <3>1, SpendIsQuiet
    <3>3. CommerceCall(p)'
      BY <3>2 DEF CommerceCall
    <3>4. OrdersInv'
      BY <1>2, <3>1, AnswersAgree
    <3> QED
      BY <1>3, <1>4, <3>2, <3>3, <3>4 DEF CommerceInv
  <2>2. CASE Reported(payload.ref) = {}
    <3> DEFINE req == [report |-> payload, completed |-> CompletedAt(payload)]
    <3>1. Begin(p, "order_commit", req) /\ UNCHANGED <<orders, answered>>
      BY <1>6, <2>2 DEF RecordOrder
    <3>2. /\ req.report = payload /\ req.completed \in Int
          /\ payload.completed # None => req.completed = payload.completed
      BY <1>2, ShopCommerceAssumption DEF CompletedAt
    <3> HIDE DEF req
    <3>3. /\ Quiet(p, CommercePcs) /\ Moves(p, "order_commit")
          /\ calls'[p].pc = "order_commit" /\ calls'[p].req = req
      BY <3>1, BeginIsQuiet DEF CommercePcs
    <3>4. CommerceCall(p)'
      BY <3>2, <3>3 DEF CommerceCall
    <3>5. OrdersInv'
      BY <1>2, <3>1 DEF OrdersInv
    <3> QED
      BY <1>3, <1>4, <3>3, <3>4, <3>5 DEF CommerceInv
  <2> QED
    BY <2>1, <2>2
<1>7. ASSUME OrderCommit(p) PROVE Quiet(p, CommercePcs) /\ CommerceInv'
  <2> DEFINE report == calls[p].req.report
             completed == calls[p].req.completed
             row == [ref |-> report.ref, customer |-> report.customer,
                     completed |-> completed, items |-> report.items, voided |-> None]
  <2>1. /\ At(p, "order_commit") /\ EndCall(p) /\ Reported(report.ref) = {}
        /\ orders' = Append(orders, row) /\ answered' = answered \cup {report}
    BY <1>7 DEF OrderCommit, Conflicts
  <2>2. /\ report \in Payloads /\ completed \in Int
        /\ report.completed # None => completed = report.completed
    BY <1>2, <2>1 DEF CommerceCall, At
  <2>3. /\ row \in Order /\ row.ref = report.ref /\ row.voided = None
        /\ Records(row, report)
    BY <2>2 DEF Order, Records
  <2> HIDE DEF row
  <2> DEFINE top == Len(orders) + 1
  <2>4. /\ orders' \in Seq(Order) /\ DOMAIN orders' = DOMAIN orders \cup {top}
        /\ \A i \in DOMAIN orders : orders'[i] = orders[i]
        /\ orders'[top] = row /\ top \notin DOMAIN orders
    BY <1>2, <2>1, <2>3, RowIsAdded DEF OrdersInv
  <2> HIDE DEF top
  <2>5. \A i \in DOMAIN orders : orders[i].ref # report.ref
    BY <2>1 DEF Reported
  <2>6. \A i, j \in DOMAIN orders' : orders'[i].ref = orders'[j].ref => i = j
    BY <1>2, <2>3, <2>4, <2>5 DEF OrdersInv
  <2>7. \A i \in DOMAIN orders' :
            orders'[i].voided # None => orders'[i].voided >= orders'[i].completed
    BY <1>2, <2>3, <2>4 DEF OrdersInv
  <2>8. \A r \in answered' : \E i \in DOMAIN orders' : Records(orders'[i], r)
    BY <1>2, <2>1, <2>3, <2>4 DEF OrdersInv
  <2>9. OrdersInv'
    BY <1>2, <2>1, <2>2, <2>4, <2>6, <2>7, <2>8 DEF OrdersInv, Records
  <2>10. Quiet(p, CommercePcs) /\ Moves(p, "idle") /\ calls'[p].pc = "idle"
    BY <2>1, EndIsQuiet
  <2>11. CommerceCall(p)'
    BY <2>10 DEF CommerceCall
  <2> QED
    BY <1>3, <1>4, <2>9, <2>10, <2>11 DEF CommerceInv
<1>8. ASSUME OrderConflict(p) PROVE Quiet(p, CommercePcs) /\ CommerceInv'
  <2>1. At(p, "order_commit") /\ EndCall(p) /\ Answer(calls[p].req.report) /\ UNCHANGED orders
    BY <1>8 DEF OrderConflict
  <2>2. calls[p].req.report \in Payloads
    BY <1>2, <2>1 DEF CommerceCall, At
  <2>3. OrdersInv'
    BY <1>2, <2>1, <2>2, AnswersAgree
  <2>4. Quiet(p, CommercePcs) /\ Moves(p, "idle") /\ calls'[p].pc = "idle"
    BY <2>1, EndIsQuiet
  <2>5. CommerceCall(p)'
    BY <2>4 DEF CommerceCall
  <2> QED
    BY <1>3, <1>4, <2>3, <2>4, <2>5 DEF CommerceInv
<1>9. ASSUME NEW i \in DOMAIN orders, VoidOrder(p, i)
      PROVE  Quiet(p, CommercePcs) /\ CommerceInv'
  <2> DEFINE completed == orders[i].completed
             time == IF now < completed THEN completed ELSE now
             row == [orders[i] EXCEPT !.voided = time]
  <2>1. /\ Spend(p) /\ UNCHANGED <<calls, answered>>
        /\ orders' = [orders EXCEPT ![i] = row]
    BY <1>9 DEF VoidOrder
  <2>2. completed \in Int /\ time \in Int /\ time >= completed
    BY <1>2, <1>5 DEF Order
  <2> HIDE DEF time
  <2>3. /\ row \in Order /\ row.voided = time /\ row.completed = completed
        /\ row.ref = orders[i].ref /\ row.customer = orders[i].customer /\ row.items = orders[i].items
    BY <1>5, <2>2 DEF Order
  <2> HIDE DEF row, completed
  <2>4. /\ orders' \in Seq(Order) /\ DOMAIN orders' = DOMAIN orders /\ orders'[i] = row
        /\ \A j \in DOMAIN orders \ {i} : orders'[j] = orders[j]
    BY <1>2, <2>1, <2>3, RowIsChanged DEF OrdersInv
  <2>5. \A j \in DOMAIN orders :
            /\ orders'[j].ref = orders[j].ref /\ orders'[j].customer = orders[j].customer
            /\ orders'[j].completed = orders[j].completed /\ orders'[j].items = orders[j].items
    BY <2>3, <2>4 DEF completed
  <2>6. \A k, j \in DOMAIN orders' : orders'[k].ref = orders'[j].ref => k = j
    BY <1>2, <2>4, <2>5 DEF OrdersInv
  <2>7. \A j \in DOMAIN orders' :
            orders'[j].voided # None => orders'[j].voided >= orders'[j].completed
    BY <1>2, <2>2, <2>3, <2>4 DEF OrdersInv
  <2>8. \A r \in answered' : \E j \in DOMAIN orders' : Records(orders'[j], r)
    BY <1>2, <2>1, <2>4, <2>5 DEF OrdersInv, Records
  <2>9. OrdersInv'
    BY <1>2, <2>1, <2>4, <2>6, <2>7, <2>8 DEF OrdersInv, Records
  <2>10. Quiet(p, CommercePcs) /\ Moves(p, "idle") /\ calls'[p].pc = "idle"
    BY <2>1, SpendIsQuiet
  <2>11. CommerceCall(p)'
    BY <2>10 DEF CommerceCall
  <2> QED
    BY <1>3, <1>4, <2>9, <2>10, <2>11 DEF CommerceInv
<1> QED
  BY <1>6, <1>7, <1>8, <1>9

LEMMA CommerceStepKeeps ==
    ASSUME SessionsInv, CommerceInv, NEW p \in Procs, CommerceStep(p)
    PROVE  /\ SessionsInv' /\ CommerceInv' /\ Grows
           /\ \A q \in Procs : calls'[q] = calls[q] \/ calls'[q].pc \in CommercePcs \cup {"idle"}
<1>1. Quiet(p, CommercePcs) /\ CommerceInv'
  <2>1. CASE \/ \E payload \in Payloads : RecordOrder(p, payload)
             \/ OrderCommit(p) \/ OrderConflict(p)
             \/ \E i \in DOMAIN orders : VoidOrder(p, i)
    BY <2>1, OrdersStepKeeps
  <2>2. CASE \/ \E c \in Coupons, d \in Definitions : CreateCoupon(p, c, d)
             \/ \E c \in Coupons, edit \in Edits : UpdateCoupon(p, c, edit)
             \/ \E s \in DOMAIN sessions, c \in Coupons : ClaimCoupon(p, s, c)
             \/ ClaimLock(p) \/ ClaimAnswered(p) \/ ClaimCommit(p)
    <3>1. UNCHANGED <<orders, answered>>
      BY <2>2 DEF CreateCoupon, UpdateCoupon, ClaimCoupon, ClaimLock, ClaimAnswered,
                  ClaimCommit, commerceVars
    <3> QED
      BY <2>2, <3>1, CouponsStepKeeps
  <2> QED
    BY <2>1, <2>2 DEF CommerceStep
<1>2. UNCHANGED <<sessionVars, now>>
  BY DEF CommerceStep
<1>3. CommercePcs \cap (SessionPcs \cup {"error"}) \subseteq {"idle"}
  BY DEF CommercePcs, SessionPcs
<1> QED
  BY <1>1, <1>2, <1>3, QuietKeepsSessions

LEMMA OrdersAreRecordedOnce == ASSUME CommerceInv PROVE OrderRecordedOnce
<1>1. ASSUME NEW report \in answered
      PROVE  LET rows == {i \in DOMAIN orders : orders[i].ref = report.ref} IN
             /\ Cardinality(rows) = 1
             /\ \A i \in rows :
                   /\ orders[i].customer = report.customer /\ orders[i].items = report.items
                   /\ report.completed # None => orders[i].completed = report.completed
  <2> DEFINE rows == {i \in DOMAIN orders : orders[i].ref = report.ref}
  <2>1. PICK i \in DOMAIN orders : Records(orders[i], report)
    BY DEF CommerceInv, OrdersInv
  <2>2. rows = {i}
    BY <2>1 DEF CommerceInv, OrdersInv, Records
  <2>3. Cardinality({i}) = 1
    BY FS_Singleton
  <2> QED
    BY <2>1, <2>2, <2>3 DEF Records
<1> QED
  BY <1>1 DEF OrderRecordedOnce, CommerceInv, OrdersInv

\* The minimum of a valid coupon covers its discount.
LEMMA QuotesCohere == ASSUME CommerceInv PROVE QuoteCoherent
<1> SUFFICES ASSUME NEW cart \in Carts, NEW i \in DOMAIN customers,
                    NEW c \in {d \in Coupons : coupons[d] # None},
                    Quote(cart, <<coupons[c]>>, HasClaimed(i, c), now) # Refused
             PROVE  LET quoted == Quote(cart, <<coupons[c]>>, HasClaimed(i, c), now)
                        plain == Quote(cart, <<>>, FALSE, now) IN
                    /\ plain # Refused /\ plain[1].total = quoted[1].subtotal
                    /\ 0 <= quoted[1].total /\ quoted[1].total < plain[1].total
                    /\ plain[1].total <= MaxAmount
                    /\ \E k \in claims : k.customer = i /\ k.coupon = c
  BY DEF QuoteCoherent
<1> DEFINE row == coupons[c]
           sum == Subtotal(cart)
           quoted == Quote(cart, <<row>>, HasClaimed(i, c), now)
           plain == Quote(cart, <<>>, FALSE, now)
<1>1. row \in Coupon /\ ValidDefinition(row)
  BY DEF CommerceInv, CouponsInv
<1>2. <<row>> # <<>> /\ Head(<<row>>) = row
  OBVIOUS
<1>3. HasClaimed(i, c) /\ CartAccepted(cart) /\ Eligible(row, sum, now)
  BY <1>2 DEF Quote
<1> DEFINE q == [subtotal |-> sum, discount |-> row.discount, total |-> sum - row.discount]
           r == [subtotal |-> sum, discount |-> 0, total |-> sum - 0]
<1>4. quoted = <<q>>
  BY <1>2, <1>3 DEF Quote
<1>5. plain = <<r>>
  BY <1>3 DEF Quote
<1>11. q.subtotal = sum /\ q.total = sum - row.discount /\ r.total = sum - 0
  OBVIOUS
<1> HIDE DEF q, r
<1>12. quoted[1] = q /\ plain[1] = r /\ plain # <<>>
  <2> HIDE DEF quoted, plain
  <2> QED
    BY <1>4, <1>5
<1>6. sum \in Int /\ sum <= MaxAmount /\ sum >= row.min
  BY <1>3, ShopCommerceAssumption DEF CartAccepted, Eligible
<1> HIDE DEF sum
<1>7. /\ quoted[1].subtotal = sum /\ quoted[1].total = sum - row.discount
      /\ plain[1].total = sum - 0 /\ plain # Refused
  <2> HIDE DEF quoted, plain
  <2> QED
    BY <1>11, <1>12 DEF Refused
<1> HIDE DEF quoted, plain
<1>8. row.min \in Int /\ row.discount \in Int /\ row.discount >= 1 /\ row.discount <= row.min
  BY <1>1 DEF Coupon, ValidDefinition
<1>9. /\ sum - 0 = sum /\ 0 <= sum - row.discount /\ sum - row.discount < sum
  BY <1>6, <1>8
<1>10. \E k \in claims : k.customer = i /\ k.coupon = c
  BY <1>3 DEF HasClaimed
<1> QED
  BY <1>6, <1>7, <1>9, <1>10 DEF quoted, plain

-----------------------------------------------------------------------------
(* The shop's page                                                           *)

StorePcs == {"store_patch", "media_intent", "media_attach"}

\* Who a request to change the page is made for, and the media to be saved.
StoreCall(p) ==
    LET c == calls[p] IN
    /\ c.pc = "store_patch" => c.req.by \in DOMAIN customers
    /\ c.pc \in {"media_intent", "media_attach"} =>
          /\ c.req.by \in DOMAIN customers \cup {None}
          /\ c.req.media.kind \in Kinds /\ c.req.media.active \in BOOLEAN
          /\ CategoryFits(c.req.media)

PageInv ==
    /\ {owner, author} \subseteq DOMAIN customers \cup {None}
    /\ media \in [MediaIds -> MediaRow \cup {None}]
    /\ \A i \in MediaIds : media[i] # None => CategoryFits(media[i])
    /\ SlotsHold(media)

StoreInv == PageInv /\ \A p \in Procs : StoreCall(p)

LEMMA SlotsAreFinite ==
    ASSUME NEW shown, NEW kind, NEW category
    PROVE  /\ IsFiniteSet(InSlot(shown, kind, category))
           /\ Cardinality(InSlot(shown, kind, category)) \in Nat
<1>1. InSlot(shown, kind, category) \subseteq MediaIds
  BY DEF InSlot
<1> QED
  BY <1>1, ShopStoreAssumption, FS_Subset, FS_CardinalityType

\* One medium is set and some are removed: the page stays within its limits when
\* the one takes a free place in the carousel, or the only one of its slot.
LEMMA SlotsStillHold ==
    ASSUME NEW old, NEW new \in [MediaIds -> MediaRow \cup {None}], SlotsHold(old),
           NEW i \in MediaIds, \A j \in MediaIds \ {i} : new[j] \in {old[j], None},
           new[i] # None /\ new[i].active =>
               IF new[i].kind = "carousel" THEN Cardinality(InSlot(old, "carousel", None)) < CarouselLimit
               ELSE InSlot(new, new[i].kind, new[i].category) \subseteq {i}
    PROVE  SlotsHold(new)
<1>1. ASSUME NEW k, NEW c, i \notin InSlot(new, k, c)
      PROVE  Cardinality(InSlot(new, k, c)) <= Cardinality(InSlot(old, k, c))
  <2>1. InSlot(new, k, c) \subseteq InSlot(old, k, c)
    BY <1>1 DEF InSlot
  <2> QED
    BY <2>1, SlotsAreFinite, FS_Subset
<1>2. ASSUME NEW k, NEW c, i \in InSlot(new, k, c), k # "carousel"
      PROVE  Cardinality(InSlot(new, k, c)) <= 1
  <2>1. new[i] # None /\ new[i].active /\ new[i].kind = k /\ new[i].category = c
    BY <1>2 DEF InSlot
  <2>2. InSlot(new, k, c) = {i}
    BY <1>2, <2>1
  <2>3. Cardinality({i}) = 1
    BY FS_Singleton
  <2> QED
    BY <2>2, <2>3
<1>3. ASSUME i \in InSlot(new, "carousel", None)
      PROVE  Cardinality(InSlot(new, "carousel", None)) <= CarouselLimit
  <2> DEFINE O == InSlot(old, "carousel", None)
             N == InSlot(new, "carousel", None)
  <2>1. Cardinality(O) < CarouselLimit
    BY <1>3 DEF InSlot
  <2>2. N \subseteq O \cup {i}
    BY DEF InSlot
  <2>3. IsFiniteSet(O) /\ Cardinality(O) \in Nat /\ Cardinality(N) \in Nat
    BY SlotsAreFinite
  <2> HIDE DEF O, N
  <2>4. IsFiniteSet(O \cup {i}) /\ Cardinality(O \cup {i}) \in {Cardinality(O), Cardinality(O) + 1}
    BY <2>3, FS_AddElement
  <2>5. Cardinality(N) <= Cardinality(O \cup {i})
    BY <2>2, <2>4, FS_Subset
  <2>6. Cardinality(N) <= CarouselLimit
    BY <2>1, <2>3, <2>4, <2>5, ShopStoreAssumption
  <2> QED
    BY <2>6 DEF N
<1>4. \A k, c : Cardinality(InSlot(old, k, c)) \in Nat /\ Cardinality(InSlot(new, k, c)) \in Nat
  BY SlotsAreFinite
<1>5. Cardinality(InSlot(new, "carousel", None)) <= CarouselLimit
  <2>1. CASE i \in InSlot(new, "carousel", None)
    BY <1>3, <2>1
  <2>2. CASE i \notin InSlot(new, "carousel", None)
    <3>1. Cardinality(InSlot(new, "carousel", None)) <= Cardinality(InSlot(old, "carousel", None))
      BY <1>1, <2>2
    <3> QED
      BY <1>4, <3>1, ShopStoreAssumption DEF SlotsHold
  <2> QED
    BY <2>1, <2>2
<1>6. ASSUME NEW k, NEW c, k # "carousel", Cardinality(InSlot(old, k, c)) <= 1
      PROVE  Cardinality(InSlot(new, k, c)) <= 1
  <2>1. CASE i \in InSlot(new, k, c)
    BY <1>2, <1>6, <2>1
  <2>2. CASE i \notin InSlot(new, k, c)
    <3>1. Cardinality(InSlot(new, k, c)) <= Cardinality(InSlot(old, k, c))
      BY <1>1, <2>2
    <3> QED
      BY <1>4, <1>6, <3>1
  <2> QED
    BY <2>1, <2>2
<1>7. Cardinality(InSlot(new, "announcement", None)) <= 1
  BY <1>6 DEF SlotsHold
<1>8. ASSUME NEW c \in ShopCategories PROVE Cardinality(InSlot(new, "category", c)) <= 1
  BY <1>6 DEF SlotsHold
<1> QED
  BY <1>5, <1>7, <1>8 DEF SlotsHold

LEMMA StoreStart == Init => StoreInv
<1> SUFFICES ASSUME Init PROVE StoreInv
  OBVIOUS
<1>1. /\ owner = None /\ author = None /\ media \in InitialMedia
      /\ calls = [p \in Procs |-> IdleCall]
  BY DEF Init, SessionsInit, StoreInit
<1>2. PageInv
  BY <1>1, ShopStoreAssumption DEF PageInv
<1>3. \A p \in Procs : StoreCall(p)
  BY <1>1 DEF StoreCall, IdleCall
<1> QED
  BY <1>2, <1>3 DEF StoreInv

LEMMA StoreCallStays ==
    ASSUME Grows, NEW p \in Procs, StoreCall(p), calls'[p] = calls[p] \/ calls'[p].pc \notin StorePcs
    PROVE  StoreCall(p)'
<1>1. CASE calls'[p] = calls[p]
  BY <1>1 DEF StoreCall, Grows
<1>2. CASE calls'[p].pc \notin StorePcs
  BY <1>2 DEF StoreCall, StorePcs
<1> QED
  BY <1>1, <1>2

\* What other steps leave of it.
LEMMA StoreUntouched ==
    ASSUME StoreInv, Grows, UNCHANGED storeVars,
           \A q \in Procs : calls'[q] = calls[q] \/ calls'[q].pc \notin StorePcs
    PROVE  StoreInv'
<1>1. PageInv'
  BY DEF StoreInv, PageInv, storeVars, Grows
<1>2. ASSUME NEW q \in Procs PROVE StoreCall(q)'
  BY StoreCallStays DEF StoreInv
<1> QED
  BY <1>1, <1>2 DEF StoreInv

\* What a change of the page has to observe.
PageStep ==
    /\ SlotsHold(media')
    /\ author' # author => owner = author'
    /\ \A i \in MediaIds : media'[i] # media[i] /\ media'[i] # None /\ media'[i].by # None =>
           owner = media'[i].by \/ media[i] # None

LEMMA PageIsKept ==
    ASSUME StoreInv, NEW p \in Procs, Moves(p, calls'[p].pc), StoreCall(p)', PageInv', Grows
    PROVE  StoreInv'
<1>1. ASSUME NEW q \in Procs \ {p} PROVE StoreCall(q)'
  BY StoreCallStays DEF StoreInv, Moves
<1> QED
  BY <1>1 DEF StoreInv

LEMMA MediaStepKeeps ==
    ASSUME PageInv, NEW i \in MediaIds, NEW new \in [MediaIds -> MediaRow \cup {None}],
           UNCHANGED <<owner, author, customers>>, media' = new, SlotsHold(new),
           \A j \in MediaIds \ {i} : new[j] \in {media[j], None},
           new[i] # None => CategoryFits(new[i]),
           new[i] # None => new[i].by = None \/ owner = new[i].by \/ media[i] # None
    PROVE  PageInv' /\ PageStep
<1>1. \A j \in MediaIds : new[j] # None => CategoryFits(new[j])
  BY DEF PageInv
<1> QED
  BY <1>1 DEF PageInv, PageStep

LEMMA StoreStepKeeps ==
    ASSUME SessionsInv, StoreInv, NEW p \in Procs, StoreStep(p)
    PROVE  Quiet(p, StorePcs) /\ StoreInv' /\ PageStep
<1>1. UNCHANGED <<customers, sessions, limiter, granted, now>>
  BY DEF StoreStep, sessionVars
<1>2. Grows /\ PageInv /\ StoreCall(p) /\ None \notin Nat
  BY <1>1, NamesDiffer DEF Grows, StoreInv
<1>3. DOMAIN customers \subseteq Nat \ {0}
  BY RowsAreTyped DEF SessionsInv
<1>4. ASSUME UNCHANGED storeVars PROVE PageInv' /\ PageStep
  BY <1>1, <1>2, <1>4 DEF PageInv, PageStep, storeVars
<1>5. ASSUME NEW customer \in DOMAIN customers \cup {None}, AssignOwner(p, customer)
      PROVE  Quiet(p, StorePcs) /\ StoreInv' /\ PageStep
  <2>1. Spend(p) /\ owner' = customer /\ UNCHANGED <<calls, author, media>>
    BY <1>5 DEF AssignOwner
  <2>2. PageInv' /\ PageStep
    BY <1>1, <1>2, <2>1 DEF PageInv, PageStep
  <2>3. Quiet(p, StorePcs) /\ Moves(p, "idle") /\ calls'[p].pc = "idle"
    BY <2>1, SpendIsQuiet
  <2>4. StoreCall(p)'
    BY <2>3 DEF StoreCall
  <2> QED
    BY <1>2, <2>2, <2>3, <2>4, PageIsKept
<1>6. ASSUME NEW s \in DOMAIN sessions, PatchStore(p, s)
      PROVE  Quiet(p, StorePcs) /\ StoreInv' /\ PageStep
  <2> DEFINE req == [by |-> sessions[s].customer]
  <2>1. Begin(p, "store_patch", req) /\ UNCHANGED storeVars
    BY <1>6 DEF PatchStore, OwnerBegins, BeginAs
  <2>2. req.by \in DOMAIN customers
    BY DEF SessionsInv, Exclusive
  <2> HIDE DEF req
  <2>3. /\ Quiet(p, StorePcs) /\ Moves(p, "store_patch") /\ calls'[p].pc = "store_patch"
        /\ calls'[p].req = req
    BY <2>1, BeginIsQuiet DEF StorePcs
  <2>4. StoreCall(p)'
    BY <1>1, <2>2, <2>3 DEF StoreCall
  <2> QED
    BY <1>2, <1>4, <2>1, <2>3, <2>4, PageIsKept
<1>7. ASSUME NEW s \in DOMAIN sessions, UploadAnnouncement(p, s)
      PROVE  Quiet(p, StorePcs) /\ StoreInv' /\ PageStep
  <2> DEFINE req == [by |-> sessions[s].customer, media |-> Announcement]
  <2>1. Begin(p, "media_intent", req) /\ UNCHANGED storeVars
    BY <1>7 DEF UploadAnnouncement, OwnerBegins, BeginAs
  <2>2. req.by \in DOMAIN customers
    BY DEF SessionsInv, Exclusive
  <2>3. req.media.kind \in Kinds /\ req.media.active \in BOOLEAN /\ CategoryFits(req.media)
    BY DEF Announcement, Kinds, CategoryFits
  <2> HIDE DEF req
  <2>4. /\ Quiet(p, StorePcs) /\ Moves(p, "media_intent") /\ calls'[p].pc = "media_intent"
        /\ calls'[p].req = req
    BY <2>1, BeginIsQuiet DEF StorePcs
  <2>5. StoreCall(p)'
    BY <1>1, <2>2, <2>3, <2>4 DEF StoreCall
  <2> QED
    BY <1>2, <1>4, <2>1, <2>4, <2>5, PageIsKept
<1>8. ASSUME PatchStoreCommit(p) PROVE Quiet(p, StorePcs) /\ StoreInv' /\ PageStep
  <2> DEFINE by == calls[p].req.by
  <2>1. /\ At(p, "store_patch") /\ EndCall(p) /\ UNCHANGED <<owner, media>>
        /\ author' = IF MayChange(by) THEN by ELSE author
    BY <1>8 DEF PatchStoreCommit
  <2>2. by \in DOMAIN customers /\ by # None
    BY <1>2, <1>3, <2>1 DEF StoreCall, At
  <2>3. MayChange(by) => owner = by
    BY <2>2 DEF MayChange
  <2>4. PageInv' /\ PageStep
    BY <1>1, <1>2, <2>1, <2>2, <2>3 DEF PageInv, PageStep
  <2>5. Quiet(p, StorePcs) /\ Moves(p, "idle") /\ calls'[p].pc = "idle"
    BY <2>1, EndIsQuiet
  <2>6. StoreCall(p)'
    BY <2>5 DEF StoreCall
  <2> QED
    BY <1>2, <2>4, <2>5, <2>6, PageIsKept
<1>9. ASSUME NEW m \in Media, SaveMedia(p, m) PROVE Quiet(p, StorePcs) /\ StoreInv' /\ PageStep
  <2> DEFINE req == [by |-> None, media |-> m]
  <2>1. Begin(p, "media_intent", req) /\ UNCHANGED storeVars
    BY <1>9 DEF SaveMedia
  <2>2. req.by = None /\ req.media = m
    OBVIOUS
  <2> HIDE DEF req
  <2>3. m.kind \in Kinds /\ m.active \in BOOLEAN /\ CategoryFits(m)
    BY ShopStoreAssumption
  <2>4. /\ Quiet(p, StorePcs) /\ Moves(p, "media_intent") /\ calls'[p].pc = "media_intent"
        /\ calls'[p].req = req
    BY <2>1, BeginIsQuiet DEF StorePcs
  <2>5. StoreCall(p)'
    BY <1>1, <2>2, <2>3, <2>4 DEF StoreCall
  <2> QED
    BY <1>2, <1>4, <2>1, <2>4, <2>5, PageIsKept
<1>10. ASSUME MediaIntent(p) \/ MediaFailed(p) PROVE Quiet(p, StorePcs) /\ StoreInv' /\ PageStep
  <2>1. /\ At(p, "media_intent") \/ At(p, "media_attach")
        /\ UNCHANGED storeVars
        /\ Continue(p, "media_attach", None) \/ EndCall(p)
    BY <1>10 DEF MediaIntent, MediaFailed
  <2>2. CASE Continue(p, "media_attach", None)
    <3>1. /\ Quiet(p, StorePcs) /\ Moves(p, "media_attach") /\ calls'[p].pc = "media_attach"
          /\ calls'[p].req = calls[p].req
      BY <2>2, ContinueIsQuiet DEF StorePcs
    <3>2. StoreCall(p)'
      BY <1>1, <1>2, <2>1, <3>1 DEF StoreCall, At
    <3> QED
      BY <1>2, <1>4, <2>1, <3>1, <3>2, PageIsKept
  <2>3. CASE EndCall(p)
    <3>1. Quiet(p, StorePcs) /\ Moves(p, "idle") /\ calls'[p].pc = "idle"
      BY <2>3, EndIsQuiet
    <3>2. StoreCall(p)'
      BY <3>1 DEF StoreCall
    <3> QED
      BY <1>2, <1>4, <2>1, <3>1, <3>2, PageIsKept
  <2> QED
    BY <2>1, <2>2, <2>3
<1>11. ASSUME MediaAttach(p) PROVE Quiet(p, StorePcs) /\ StoreInv' /\ PageStep
  <2> DEFINE req == calls[p].req
             m == req.media
             row == [kind |-> m.kind, category |-> m.category, active |-> m.active, by |-> req.by]
  <2>1. /\ At(p, "media_attach") /\ MaySave(req) /\ EndCall(p) /\ UNCHANGED <<owner, author>>
        /\ \E i \in MediaIds \ Stored :
              media' = [j \in MediaIds |->
                  IF j = i THEN row ELSE IF j \in Replaced(m) THEN None ELSE media[j]]
    BY <1>11 DEF MediaAttach, StillAccepted
  <2>2. PICK i \in MediaIds \ Stored :
           media' = [j \in MediaIds |->
               IF j = i THEN row ELSE IF j \in Replaced(m) THEN None ELSE media[j]]
    BY <2>1
  <2>3. /\ req.by \in DOMAIN customers \cup {None} /\ m.kind \in Kinds /\ m.active \in BOOLEAN
        /\ CategoryFits(m)
    BY <1>2, <2>1 DEF StoreCall, At
  <2>4. /\ m.kind = "category" => m.category \in ShopCategories
        /\ m.kind = "carousel" /\ m.active => Cardinality(InSlot(media, "carousel", None)) < CarouselLimit
        /\ req.by # None => owner = req.by
    BY <2>1 DEF MaySave, MayChange, TargetValid, Carousel
  <2>5. m.category \in ShopCategories \cup {None}
    BY <2>3, <2>4 DEF CategoryFits
  <2>6. /\ row \in MediaRow /\ row.kind = m.kind /\ row.category = m.category
        /\ row.active = m.active /\ row.by = req.by
    BY <1>3, <2>3, <2>5 DEF MediaRow
  <2>7. CategoryFits(row)
    BY <2>3, <2>6 DEF CategoryFits
  <2> HIDE DEF row
  <2> DEFINE new == [j \in MediaIds |->
                 IF j = i THEN row ELSE IF j \in Replaced(m) THEN None ELSE media[j]]
  <2>8. /\ new \in [MediaIds -> MediaRow \cup {None}] /\ new[i] = row
        /\ \A j \in MediaIds \ {i} : new[j] = IF j \in Replaced(m) THEN None ELSE media[j]
    BY <1>2, <2>6 DEF PageInv
  <2>9. media' = new
    BY <2>2
  <2> HIDE DEF new
  <2>10. ASSUME m.active, m.kind # "carousel"
         PROVE  InSlot(new, m.kind, m.category) \subseteq {i}
    <3>1. Replaced(m) = InSlot(media, m.kind, m.category)
      BY <2>10 DEF Replaced
    <3>2. ASSUME NEW j \in InSlot(new, m.kind, m.category), j # i PROVE FALSE
      <4>1. j \in MediaIds /\ new[j] # None /\ new[j].active /\ new[j].kind = m.kind
            /\ new[j].category = m.category
        BY DEF InSlot
      <4>2. j \notin Replaced(m) /\ new[j] = media[j]
        BY <2>8, <3>2, <4>1
      <4> QED
        BY <3>1, <4>1, <4>2 DEF InSlot
    <3> QED
      BY <3>2
  <2>11. SlotsHold(new)
    <3>1. \A j \in MediaIds \ {i} : new[j] \in {media[j], None}
      BY <2>8
    <3>2. new[i] # None /\ new[i].active =>
              IF new[i].kind = "carousel"
              THEN Cardinality(InSlot(media, "carousel", None)) < CarouselLimit
              ELSE InSlot(new, new[i].kind, new[i].category) \subseteq {i}
      BY <2>4, <2>6, <2>8, <2>10
    <3>3. SlotsHold(media)
      BY <1>2 DEF PageInv
    <3> QED
      BY <2>8, <3>1, <3>2, <3>3, SlotsStillHold
  <2>12. PageInv' /\ PageStep
    <3>1. \A j \in MediaIds \ {i} : new[j] \in {media[j], None}
      BY <2>8
    <3>2. new[i].by = None \/ owner = new[i].by
      BY <2>4, <2>6, <2>8
    <3>3. UNCHANGED <<owner, author, customers>>
      BY <1>1, <2>1
    <3> QED
      BY <1>2, <2>7, <2>8, <2>9, <2>11, <3>1, <3>2, <3>3, MediaStepKeeps
  <2>13. Quiet(p, StorePcs) /\ Moves(p, "idle") /\ calls'[p].pc = "idle"
    BY <2>1, EndIsQuiet
  <2>14. StoreCall(p)'
    BY <2>13 DEF StoreCall
  <2> QED
    BY <1>2, <2>12, <2>13, <2>14, PageIsKept
<1>12. ASSUME NEW i \in MediaIds, NEW active \in BOOLEAN, SetActive(p, i, active)
       PROVE  Quiet(p, StorePcs) /\ StoreInv' /\ PageStep
  <2> DEFINE m == media[i]
             row == [m EXCEPT !.active = active]
             new == [media EXCEPT ![i] = row]
  <2>1. /\ m # None /\ Spend(p) /\ UNCHANGED <<calls, owner, author>> /\ media' = new
        /\ active => /\ TargetValid([m EXCEPT !.active = TRUE])
                     /\ m.kind # "carousel" => InSlot(media, m.kind, m.category) = {}
    BY <1>12 DEF SetActive
  <2>2. m \in MediaRow /\ CategoryFits(m) /\ media \in [MediaIds -> MediaRow \cup {None}]
    BY <1>2, <2>1 DEF PageInv
  <2>3. /\ row \in MediaRow /\ row.kind = m.kind /\ row.category = m.category
        /\ row.active = active /\ row.by = m.by
    BY <2>2 DEF MediaRow
  <2>4. active /\ m.kind = "carousel" => Cardinality(InSlot(media, "carousel", None)) < CarouselLimit
    <3> DEFINE t == [m EXCEPT !.active = TRUE]
    <3>1. t.kind = m.kind /\ t.active = TRUE
      BY <2>2 DEF MediaRow
    <3> HIDE DEF t
    <3> QED
      BY <2>1, <3>1 DEF TargetValid, Carousel, t
  <2>5. CategoryFits(row)
    BY <2>2, <2>3 DEF CategoryFits
  <2> HIDE DEF row
  <2>6. /\ new \in [MediaIds -> MediaRow \cup {None}] /\ new[i] = row
        /\ \A j \in MediaIds \ {i} : new[j] = media[j]
    BY <2>2, <2>3
  <2> HIDE DEF new
  <2>7. ASSUME active, m.kind # "carousel" PROVE InSlot(new, m.kind, m.category) \subseteq {i}
    <3>1. ASSUME NEW j \in InSlot(new, m.kind, m.category), j # i PROVE FALSE
      BY <2>1, <2>6, <2>7, <3>1 DEF InSlot
    <3> QED
      BY <3>1
  <2>8. SlotsHold(new)
    <3>1. \A j \in MediaIds \ {i} : new[j] \in {media[j], None}
      BY <2>6
    <3>2. new[i] # None /\ new[i].active =>
              IF new[i].kind = "carousel"
              THEN Cardinality(InSlot(media, "carousel", None)) < CarouselLimit
              ELSE InSlot(new, new[i].kind, new[i].category) \subseteq {i}
      BY <2>3, <2>4, <2>6, <2>7
    <3>3. SlotsHold(media)
      BY <1>2 DEF PageInv
    <3> QED
      BY <2>6, <3>1, <3>2, <3>3, SlotsStillHold
  <2>9. PageInv' /\ PageStep
    <3>1. \A j \in MediaIds \ {i} : new[j] \in {media[j], None}
      BY <2>6
    <3>2. UNCHANGED <<owner, author, customers>>
      BY <1>1, <2>1
    <3> QED
      BY <1>2, <2>1, <2>5, <2>6, <2>8, <3>1, <3>2, MediaStepKeeps
  <2>10. Quiet(p, StorePcs) /\ Moves(p, "idle") /\ calls'[p].pc = "idle"
    BY <2>1, SpendIsQuiet
  <2>11. StoreCall(p)'
    BY <2>10 DEF StoreCall
  <2> QED
    BY <1>2, <2>9, <2>10, <2>11, PageIsKept
<1>13. ASSUME NEW i \in MediaIds, DeleteMedia(p, i)
       PROVE  Quiet(p, StorePcs) /\ StoreInv' /\ PageStep
  <2> DEFINE new == [media EXCEPT ![i] = None]
  <2>1. Spend(p) /\ UNCHANGED <<calls, owner, author>> /\ media' = new
    BY <1>13 DEF DeleteMedia
  <2>2. /\ new \in [MediaIds -> MediaRow \cup {None}] /\ new[i] = None
        /\ \A j \in MediaIds \ {i} : new[j] = media[j]
    BY <1>2 DEF PageInv
  <2> HIDE DEF new
  <2>3. SlotsHold(media)
    BY <1>2 DEF PageInv
  <2>4. \A j \in MediaIds \ {i} : new[j] \in {media[j], None}
    BY <2>2
  <2>5. SlotsHold(new)
    BY <2>2, <2>3, <2>4, SlotsStillHold
  <2>6. UNCHANGED <<owner, author, customers>>
    BY <1>1, <2>1
  <2>7. PageInv' /\ PageStep
    BY <1>2, <2>1, <2>2, <2>4, <2>5, <2>6, MediaStepKeeps
  <2>8. Quiet(p, StorePcs) /\ Moves(p, "idle") /\ calls'[p].pc = "idle"
    BY <2>1, SpendIsQuiet
  <2>9. StoreCall(p)'
    BY <2>8 DEF StoreCall
  <2> QED
    BY <1>2, <2>7, <2>8, <2>9, PageIsKept
<1> QED
  BY <1>5, <1>6, <1>7, <1>8, <1>9, <1>10, <1>11, <1>12, <1>13 DEF StoreStep

-----------------------------------------------------------------------------
(* The whole shop                                                            *)

ShopInv == SessionsInv /\ LimiterInv /\ CommerceInv /\ StoreInv

LEMMA SessionsStepKeepsLimiter ==
    ASSUME SessionsInv, LimiterInv, NEW p \in Procs, SessionsStep(p)
    PROVE  LimiterInv'
<1>1. now \in Int
  BY NamesDiffer DEF SessionsInv
<1>2. CASE \E client \in Clients, code \in Codes : Login(p, client, code)
  BY <1>1, <1>2, LoginCounts
<1>3. CASE UNCHANGED <<limiter, granted, now>>
  BY <1>3 DEF LimiterInv
<1> QED
  BY <1>2, <1>3 DEF SessionsStep, LoginLookup, LoginRefused, LoginCustomer, LoginCommit,
                    LoginConflict, Logout, LogoutCommit, sessionVars

LEMMA QuietStep ==
    ASSUME SessionsInv, UNCHANGED <<sessionVars, calls, left>>, now' \in Time
    PROVE  SessionsInv' /\ Grows
<1>1. Grows
  BY DEF Grows, sessionVars
<1>2. ASSUME NEW q \in Procs PROVE SessionCall(q)'
  BY <1>1, SessionCallStays DEF SessionsInv, Shaped, At
<1> QED
  BY <1>1, <1>2 DEF SessionsInv, sessionVars, Shaped, At

LEMMA ShopStep == ShopInv /\ [Next]_vars => ShopInv'
<1> SUFFICES ASSUME ShopInv, [Next]_vars PROVE ShopInv'
  OBVIOUS
<1> USE DEF ShopInv
<1>1. ASSUME NEW p \in Procs, SessionsStep(p), UNCHANGED <<commerceVars, storeVars>>
      PROVE  ShopInv'
  <2>1. /\ SessionsInv' /\ Grows
        /\ \A q \in Procs : calls'[q] = calls[q] \/ calls'[q].pc \in SessionPcs
    BY <1>1, SessionsStepKeeps
  <2>2. \A q \in Procs : /\ calls'[q] = calls[q] \/ calls'[q].pc \notin CommercePcs
                         /\ calls'[q] = calls[q] \/ calls'[q].pc \notin StorePcs
    BY <2>1 DEF SessionPcs, CommercePcs, StorePcs
  <2>3. CommerceInv'
    BY <1>1, <2>1, <2>2, CommerceUntouched
  <2>4. StoreInv'
    BY <1>1, <2>1, <2>2, StoreUntouched
  <2>5. LimiterInv'
    BY <1>1, SessionsStepKeepsLimiter
  <2> QED
    BY <2>1, <2>3, <2>4, <2>5
<1>2. ASSUME NEW p \in Procs, CommerceStep(p), UNCHANGED storeVars PROVE ShopInv'
  <2>1. /\ SessionsInv' /\ CommerceInv' /\ Grows
        /\ \A q \in Procs : calls'[q] = calls[q] \/ calls'[q].pc \in CommercePcs \cup {"idle"}
    BY <1>2, CommerceStepKeeps
  <2>2. \A q \in Procs : calls'[q] = calls[q] \/ calls'[q].pc \notin StorePcs
    BY <2>1 DEF CommercePcs, StorePcs
  <2>3. StoreInv'
    BY <1>2, <2>1, <2>2, StoreUntouched
  <2>4. LimiterInv'
    BY <1>2 DEF LimiterInv, CommerceStep, sessionVars
  <2> QED
    BY <2>1, <2>3, <2>4
<1>3. ASSUME NEW p \in Procs, StoreStep(p), UNCHANGED commerceVars PROVE ShopInv'
  <2>1. Quiet(p, StorePcs) /\ StoreInv'
    BY <1>3, StoreStepKeeps
  <2>2. UNCHANGED <<sessionVars, now>>
    BY <1>3 DEF StoreStep
  <2>3. StorePcs \cap (SessionPcs \cup {"error"}) \subseteq {"idle"}
    BY DEF StorePcs, SessionPcs
  <2>4. /\ SessionsInv' /\ Grows
        /\ \A q \in Procs : calls'[q] = calls[q] \/ calls'[q].pc \in StorePcs \cup {"idle"}
    BY <2>1, <2>2, <2>3, QuietKeepsSessions
  <2>5. \A q \in Procs : calls'[q] = calls[q] \/ calls'[q].pc \notin CommercePcs
    BY <2>4 DEF CommercePcs, StorePcs
  <2>6. CommerceInv'
    BY <1>3, <2>4, <2>5, CommerceUntouched
  <2>7. LimiterInv'
    BY <2>2 DEF LimiterInv, sessionVars
  <2> QED
    BY <2>1, <2>4, <2>6, <2>7
<1>4. ASSUME Tick \/ UNCHANGED vars PROVE ShopInv'
  <2>1. /\ UNCHANGED <<sessionVars, commerceVars, storeVars, calls, left>>
        /\ now \in Nat /\ MaxTime \in Nat
        /\ now' = now \/ (now < MaxTime /\ now' = now + 1)
    <3>1. now \in Time
      BY DEF SessionsInv
    <3>2. now \in Nat /\ MaxTime \in Nat
      BY <3>1, NamesDiffer, MiniSessionsAssumption
    <3>3. CASE Tick
      BY <3>2, <3>3 DEF Tick
    <3>4. CASE UNCHANGED vars
      BY <3>2, <3>4 DEF vars
    <3> QED
      BY <1>4, <3>3, <3>4
  <2>2. now' \in Time
    BY <2>1 DEF SessionsInv, Time
  <2>3. SessionsInv' /\ Grows
    BY <2>1, <2>2, QuietStep
  <2>4. CommerceInv'
    BY <2>1, <2>3, CommerceUntouched
  <2>5. StoreInv'
    BY <2>1, <2>3, StoreUntouched
  <2>6. CASE now' = now
    BY <2>1, <2>3, <2>4, <2>5, <2>6 DEF LimiterInv, sessionVars
  <2>7. CASE now' = now + 1
    <3>1. LimiterInv'
      BY <2>1, <2>7, LimiterTicks DEF sessionVars
    <3> QED
      BY <2>3, <2>4, <2>5, <3>1
  <2> QED
    BY <2>1, <2>6, <2>7
<1> QED
  BY <1>1, <1>2, <1>3, <1>4 DEF Next, Done

\* The inductive invariant of the Mini Program's shop: what every request has read
\* of sessions, the limiter, claims, orders and media agrees with the tables.
THEOREM ShopIsConsistent == Spec => []ShopInv
<1>1. Init => ShopInv
  BY SessionsStart, LimiterStart, CommerceStart, StoreStart DEF ShopInv
<1> QED
  BY <1>1, ShopStep, PTL DEF Spec

\* Every table keeps its type, whatever requests meet: sessions, the limiter's
\* table, coupons and claims, orders and media (the services of the Mini Program).
THEOREM ShopTypes == Spec => []TypeOK
<1>1. ASSUME ShopInv PROVE TypeOK
  <2>1. SessionsTypeOK
    <3>1. \A s \in DOMAIN sessions : sessions[s].customer \in DOMAIN customers
      BY <1>1 DEF ShopInv, SessionsInv, Exclusive
    <3> QED
      BY <1>1, <3>1 DEF ShopInv, SessionsInv, LimiterInv, IsTable, Log, SessionsTypeOK
  <2>2. CommerceTypeOK
    BY <1>1 DEF ShopInv, CommerceInv, CouponsInv, OrdersInv, CommerceTypeOK
  <2>3. StoreTypeOK
    BY <1>1 DEF ShopInv, StoreInv, PageInv, StoreTypeOK, Stored
  <2> QED
    BY <2>1, <2>2, <2>3 DEF TypeOK
<1> QED
  BY <1>1, ShopIsConsistent, PTL

\* A code opens one session and an identity has one customer, however many logins
\* race, and none ends in an unhandled conflict (mini_auth.py:54-111).
THEOREM LoginAlwaysExclusive == Spec => []LoginIsExclusive
<1>1. ASSUME ShopInv PROVE LoginIsExclusive
  BY <1>1 DEF ShopInv, SessionsInv, SessionCall, LoginIsExclusive, At
<1> QED
  BY <1>1, ShopIsConsistent, PTL

\* The limit is kept in every window and Retry-After is exact, for every limit,
\* window, table size and resolution of the clock (rate_limit.py).
THEOREM LimitAlwaysHonest == Spec => []LimitHonest
<1>1. ASSUME ShopInv PROVE LimitHonest
  BY <1>1, NamesDiffer, LimiterIsHonest DEF ShopInv, SessionsInv
<1> QED
  BY <1>1, ShopIsConsistent, PTL

\* However often an outside order is reported, it is one order, as it was reported
\* (shop_commerce.py:308-386).
THEOREM OrdersAlwaysRecordedOnce == Spec => []OrderRecordedOnce
<1>1. ASSUME ShopInv PROVE OrderRecordedOnce
  BY <1>1, OrdersAreRecordedOnce DEF ShopInv
<1> QED
  BY <1>1, ShopIsConsistent, PTL

\* No quotation charges less than nothing, for every catalogue, cart and coupon
\* (shop_cart.py:92-202).
THEOREM QuoteAlwaysCoherent == Spec => []QuoteCoherent
<1>1. ASSUME ShopInv PROVE QuoteCoherent
  BY <1>1, QuotesCohere DEF ShopInv
<1> QED
  BY <1>1, ShopIsConsistent, PTL

\* Of any number of logouts that had all authenticated, the first one stands
\* (mini_auth.py:136-145).
THEOREM FirstRevocationAlwaysStands == Spec => FirstRevocationStands
<1> DEFINE Stands == \A s \in DOMAIN sessions : sessions[s].revoked # None => sessions'[s] = sessions[s]
<1>1. ASSUME ShopInv, [Next]_vars PROVE [Stands]_sessions
  <2>1. ASSUME NEW p \in Procs, LoginCommit(p) PROVE Stands
    <3>1. PICK x : sessions' = Append(sessions, x)
      BY <2>1 DEF LoginCommit
    <3>2. Len(sessions) \in Nat /\ DOMAIN sessions = 1..Len(sessions)
      BY <1>1, RowsAreTyped DEF ShopInv, SessionsInv
    <3>3. \A s \in DOMAIN sessions : Append(sessions, x)[s] = sessions[s]
      BY <1>1, <3>2 DEF ShopInv, SessionsInv
    <3> QED
      BY <3>1, <3>3
  <2>2. ASSUME NEW p \in Procs, LogoutCommit(p) PROVE Stands
    BY <2>2 DEF LogoutCommit, Unrevoked
  <2>3. CASE UNCHANGED sessions
    BY <2>3
  <2>4. ASSUME NEW p \in Procs, SessionsStep(p) PROVE [Stands]_sessions
    <3>1. LoginCommit(p) \/ LogoutCommit(p) \/ UNCHANGED sessions
      BY <2>4 DEF SessionsStep, Login, LoginLookup, LoginRefused, LoginCustomer, LoginConflict,
                  Logout, sessionVars
    <3> QED
      BY <2>1, <2>2, <2>3, <3>1
  <2> QED
    BY <1>1, <2>3, <2>4 DEF Next, CommerceStep, StoreStep, Tick, Done, vars, sessionVars
<1> QED
  BY <1>1, ShopIsConsistent, PTL DEF Spec, FirstRevocationStands

\* A claim is only stored for a coupon that was open when it was made: the row
\* lock keeps edits out until the claim commits (shop_commerce.py:212-245).
THEOREM ClaimAlwaysValid == Spec => ClaimedWhileValid
<1> DEFINE Valid == \A k \in claims' \ claims : InWindow(coupons[k.coupon], k.at)
<1>1. ASSUME ShopInv, [Next]_vars PROVE [Valid]_claims
  <2>1. ASSUME NEW p \in Procs, ClaimCommit(p) PROVE Valid
    <3> DEFINE claim == [customer |-> calls[p].req.customer, coupon |-> calls[p].req.coupon,
                         at |-> calls[p].got.at]
    <3>1. At(p, "claim_commit") /\ claims' \subseteq claims \cup {claim}
      BY <2>1 DEF ClaimCommit
    <3>2. InWindow(coupons[calls[p].req.coupon], calls[p].got.at)
      BY <1>1, <3>1 DEF ShopInv, CommerceInv, CommerceCall, At
    <3> QED
      BY <3>1, <3>2
  <2>2. CASE UNCHANGED claims
    BY <2>2
  <2>3. ASSUME NEW p \in Procs, CommerceStep(p) PROVE [Valid]_claims
    <3>1. ClaimCommit(p) \/ UNCHANGED claims
      BY <2>3 DEF CommerceStep, CreateCoupon, UpdateCoupon, ClaimCoupon, ClaimLock,
                  ClaimAnswered, RecordOrder, OrderCommit, OrderConflict, VoidOrder, commerceVars
    <3> QED
      BY <2>1, <2>2, <3>1
  <2> QED
    BY <1>1, <2>2, <2>3 DEF Next, Tick, Done, vars, commerceVars
<1> QED
  BY <1>1, ShopIsConsistent, PTL DEF Spec, ClaimedWhileValid

\* The page never outgrows its slots, and what a customer stores is stored while
\* that customer owns the shop, although the upload lies between two transactions
\* (shop_store.py:101-131, 330-491).
THEOREM PageContractAlwaysHolds == Spec => ShopPageContract
<1>1. ASSUME ShopInv, [Next]_vars PROVE [PageStep]_<<owner, author, media>>
  <2>1. ASSUME NEW p \in Procs, StoreStep(p) PROVE PageStep
    BY <1>1, <2>1, StoreStepKeeps DEF ShopInv
  <2>2. CASE UNCHANGED storeVars
    BY <2>2 DEF storeVars
  <2> QED
    BY <1>1, <2>1, <2>2 DEF Next, Tick, Done, vars, storeVars
<1>2. [][PageStep]_<<owner, author, media>> => ShopPageContract
  BY DEF PageStep, ShopPageContract
<1> QED
  BY <1>1, <1>2, ShopIsConsistent, PTL DEF Spec

=============================================================================
