--------------------------- MODULE PaymentLifecycle ---------------------------
(* What PaymentService promises about the payment attempts of an order, seen  *)
(* from outside: no requests in progress, no locks, no provider. An order has *)
(* at most one active attempt, a key names one attempt, a payment is final,   *)
(* and whoever learns that an order was paid beside another attempt that is   *)
(* paid or still payable leaves all of them flagged for review, in one step.  *)
EXTENDS PaymentDomain

CONSTANTS Attempts, Requests, None

VARIABLES
    status,     \* of each attempt, or "absent"
    request,    \* the request that created it
    flagged     \* the attempts under manual review

vars == <<status, request, flagged>>

Init ==
    /\ status = [a \in Attempts |-> "absent"]
    /\ request = [a \in Attempts |-> None]
    /\ flagged = {}

Present(a) == status[a] # "absent"

OfOrder(o) == {a \in Attempts : Present(a) /\ request[a].order = o}

Rivals(a) ==
    {b \in OfOrder(request[a].order) \ {a} : status[b] \in Active \cup {"succeeded"}}

Create(a, r) ==
    /\ ~Present(a)
    /\ request' = [request EXCEPT ![a] = r]
    /\ \A b \in Attempts : Present(b) => request[b].key # r.key
    /\ \A b \in OfOrder(r.order) : status[b] \notin Active
    /\ status' = [status EXCEPT ![a] = "created"]
    /\ UNCHANGED flagged

\* The attempts to look at once a is known to be paid.
Suspects(a) == IF Rivals(a) = {} THEN {} ELSE Rivals(a) \cup {a}

\* A closed or failed attempt may still turn out paid; nothing follows a success.
Learn(a, to) ==
    /\ status' = [status EXCEPT ![a] = to]
    /\ flagged' = IF to = "succeeded" THEN flagged \cup Suspects(a) ELSE flagged
    /\ UNCHANGED request

\* Hearing of a known success again finds the rivals that came after it.
Review(a) ==
    /\ status[a] = "succeeded"
    /\ flagged' = flagged \cup Suspects(a)
    /\ UNCHANGED <<status, request>>

Next ==
    \E a \in Attempts :
        \/ \E r \in Requests : Create(a, r)
        \/ Present(a) /\ \E to \in AllowedTransitions[status[a]] : Learn(a, to)
        \/ Review(a)

Spec == Init /\ [][Next]_vars

=============================================================================
