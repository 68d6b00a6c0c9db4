----------------------------- MODULE RateLimiter -----------------------------
(* SlidingWindowRateLimiter (backend/app/core/rate_limit.py) as values: a     *)
(* table maps a client's key to the times of its counted events, oldest first. *)
(* Every call runs under one lock, so a call is an operator on the table.     *)
(* Times are clock ticks, PerSecond of them in a second: the clock is finer   *)
(* than the whole seconds of Retry-After.                                     *)
EXTENDS Integers, FiniteSets, Sequences

CONSTANTS Limit, Window, MaxKeys, PerSecond, None

ASSUME RateLimiterAssumption ==
    /\ {Limit, Window, MaxKeys, PerSecond} \subseteq Nat \ {0}
    /\ None \notin Nat

\* The events at the head that are expired; one at the cutoff is.
Expired(events, now) ==
    {i \in DOMAIN events : \A j \in 1..i : events[j] <= now - Window}

\* _discard_expired.
Kept(events, now) == SubSeq(events, Cardinality(Expired(events, now)) + 1, Len(events))

\* _retry_after: whole seconds, rounded up, until the oldest event expires.
RetryAfter(events, now) ==
    LET seconds == (Head(events) + Window - now + PerSecond - 1) \div PerSecond
    IN IF seconds < 1 THEN 1 ELSE seconds

LiveKeys(table, now) == {k \in DOMAIN table : Kept(table[k], now) # <<>>}

\* Mutant: any key may be given up.
AnyKey(table) == DOMAIN table

OldestKeys(table) ==
    {k \in DOMAIN table : \A l \in DOMAIN table : Head(table[k]) <= Head(table[l])}

\* _make_room, called before a key is added: a full table is purged and, when it
\* is still full, gives up a key whose oldest event is the oldest. The tables it
\* may return: keys with equal oldest events are told apart by insertion order.
MakeRoom(table, now) ==
    LET purged == [k \in LiveKeys(table, now) |-> Kept(table[k], now)]
    IN IF Cardinality(DOMAIN table) < MaxKeys THEN {table}
       ELSE IF Cardinality(DOMAIN purged) < MaxKeys THEN {purged}
       ELSE {[k \in DOMAIN purged \ {dropped} |-> purged[k]] : dropped \in OldestKeys(purged)}

Put(table, key, events) ==
    [k \in DOMAIN table \cup {key} |-> IF k = key THEN events ELSE table[k]]

\* consume: an event is counted, or refused with the seconds to wait.
Consume(table, key, now) ==
    LET Counted(t) ==
            LET events == IF key \in DOMAIN t THEN Kept(t[key], now) ELSE <<>>
            IN IF Len(events) >= Limit
               THEN [table |-> Put(t, key, events), retry |-> RetryAfter(events, now)]
               ELSE [table |-> Put(t, key, Append(events, now)), retry |-> None]
    IN {Counted(t) : t \in IF key \in DOMAIN table THEN {table} ELSE MakeRoom(table, now)}
=============================================================================
