-------------------------- MODULE RateLimiterProofs --------------------------
(* Lemmas about the operators of RateLimiter: what is dropped from a client's *)
(* events, what room is made by, and how long Retry-After is. They hold for   *)
(* every limit, window and resolution of the clock.                           *)
EXTENDS RateLimiter, FiniteSetTheorems, SequenceTheorems, TLAPS

Log == Seq(Int)

\* The first n events, and no more, are expired.
SplitsAt(events, now, n) ==
    /\ n \in 0..Len(events)
    /\ \A i \in 1..n : events[i] <= now - Window
    /\ n < Len(events) => events[n + 1] > now - Window

\* Wherever the events split, Kept is what follows.
LEMMA KeptFollows ==
    ASSUME NEW e \in Log, NEW now \in Int, NEW n, SplitsAt(e, now, n)
    PROVE  Kept(e, now) = SubSeq(e, n + 1, Len(e))
<1>1. n \in Nat /\ Len(e) \in Nat /\ DOMAIN e = 1..Len(e) /\ \A i \in 1..Len(e) : e[i] \in Int
  BY LenProperties, ElementOfSeq DEF Log, SplitsAt
<1>2. Expired(e, now) = 1..n
  <2>1. ASSUME NEW i \in 1..n PROVE i \in Expired(e, now)
    BY <1>1, <2>1 DEF Expired, SplitsAt
  <2>2. ASSUME NEW i \in Expired(e, now) PROVE i \in 1..n
    <3>1. i \in 1..Len(e) /\ \A j \in 1..i : e[j] <= now - Window
      BY <1>1 DEF Expired
    <3>2. CASE i > n
      <4>1. n < Len(e) /\ n + 1 \in 1..i /\ n + 1 \in 1..Len(e)
        BY <1>1, <3>1, <3>2
      <4> QED
        BY <1>1, <3>1, <4>1, RateLimiterAssumption DEF SplitsAt
    <3> QED
      BY <1>1, <3>1, <3>2
  <2> QED
    BY <2>1, <2>2
<1>3. Cardinality(1..n) = n
  BY <1>1, FS_Interval
<1> QED
  BY <1>2, <1>3 DEF Kept

\* There is such a place: every event before an expired one is expired.
LEMMA Splits ==
    ASSUME NEW e \in Log, NEW now \in Int
    PROVE  \E n \in Nat : SplitsAt(e, now, n)
<1> DEFINE E == Expired(e, now)
           n == Cardinality(E)
<1>1. Len(e) \in Nat /\ DOMAIN e = 1..Len(e)
  BY LenProperties DEF Log
<1>2. E \subseteq 1..Len(e)
  BY <1>1 DEF Expired
<1>3. IsFiniteSet(1..Len(e)) /\ Cardinality(1..Len(e)) = Len(e)
  <2> DEFINE len == Len(e)
  <2>1. len \in Nat
    BY <1>1
  <2> HIDE DEF len
  <2>2. IsFiniteSet(1..len) /\ Cardinality(1..len) = len
    BY <2>1, FS_Interval
  <2> QED
    BY <2>2 DEF len
<1>4. IsFiniteSet(E) /\ n <= Len(e)
  BY <1>2, <1>3, FS_Subset
<1>5. n \in Nat
  BY <1>4, FS_CardinalityType
<1>6. \A i \in E : \A j \in 1..i : j \in E
  BY <1>1, <1>2 DEF Expired
<1> HIDE DEF E
<1>7. ASSUME NEW i \in E PROVE i <= n
  <2>1. i \in Nat /\ Cardinality(1..i) = i
    BY <1>2, <1>7, FS_Interval
  <2>2. (1..i) \in SUBSET E
    BY <1>6, <1>7
  <2> QED
    BY <1>4, <2>1, <2>2, FS_Subset
<1>8. E = 1..n
  <2>1. E \in SUBSET (1..n)
    BY <1>2, <1>7, <1>5
  <2>2. IsFiniteSet(1..n) /\ Cardinality(1..n) = n
    BY <1>5, FS_Interval
  <2> HIDE DEF n
  <2>3. Cardinality(E) = n
    BY DEF n
  <2> QED
    BY <2>1, <2>2, <2>3, FS_Subset
<1> HIDE DEF n
<1>9. SplitsAt(e, now, n)
  <2>1. \A i \in 1..n : e[i] <= now - Window
    BY <1>5, <1>8 DEF E, Expired
  <2>2. ASSUME n < Len(e), ~(e[n + 1] > now - Window) PROVE FALSE
    <3>1. n + 1 \in 1..Len(e) /\ e[n + 1] \in Int
      BY <1>1, <1>5, <2>2, ElementOfSeq DEF Log
    <3>2. \A j \in 1..(n + 1) : e[j] <= now - Window
      BY <1>5, <2>1, <2>2, <3>1, RateLimiterAssumption
    <3>3. n + 1 \in E
      BY <1>1, <3>1, <3>2 DEF E, Expired
    <3> QED
      BY <1>5, <1>8, <3>3
  <2> QED
    BY <1>4, <1>5, <2>1, <2>2 DEF SplitsAt
<1> QED
  BY <1>5, <1>9

\* What is left of a log is its end, beginning with the first live event.
LEMMA KeptShape ==
    ASSUME NEW e \in Log, NEW now \in Int
    PROVE  /\ Kept(e, now) \in Log
           /\ \E n \in Nat :
                 /\ SplitsAt(e, now, n) /\ Len(Kept(e, now)) = Len(e) - n
                 /\ \A i \in 1..Len(Kept(e, now)) : Kept(e, now)[i] = e[n + i]
<1>1. PICK n \in Nat : SplitsAt(e, now, n)
  BY Splits
<1>2. Kept(e, now) = SubSeq(e, n + 1, Len(e))
  BY <1>1, KeptFollows
<1>3. /\ Len(e) \in Nat /\ n <= Len(e)
      /\ \A i \in 1..Len(e) : e[i] \in Int
  BY <1>1, LenProperties, ElementOfSeq DEF Log, SplitsAt
<1>4. \A i \in (n + 1)..Len(e) : e[i] \in Int
  BY <1>3
<1>5. n + 1 \in Int /\ Len(e) \in Int
  BY <1>3
<1>6. /\ SubSeq(e, n + 1, Len(e)) \in Seq(Int)
      /\ Len(SubSeq(e, n + 1, Len(e))) = IF n + 1 <= Len(e) THEN Len(e) - (n + 1) + 1 ELSE 0
      /\ \A i \in 1..(Len(e) - (n + 1) + 1) : SubSeq(e, n + 1, Len(e))[i] = e[(n + 1) + i - 1]
  BY <1>4, <1>5, SubSeqProperties
<1> DEFINE k == Kept(e, now)
<1>7. k \in Log /\ Len(k) = Len(e) - n /\ \A i \in 1..Len(k) : k[i] = e[n + i]
  <2> HIDE DEF k
  <2>1. k = SubSeq(e, n + 1, Len(e))
    BY <1>2 DEF k
  <2> QED
    BY <1>3, <1>6, <2>1 DEF Log
<1> QED
  BY <1>1, <1>7

\* Time passing, what was dropped before need not be looked at again.
LEMMA KeptLater ==
    ASSUME NEW e \in Log, NEW now \in Int, NEW later \in Int, now <= later
    PROVE  Kept(Kept(e, now), later) = Kept(e, later)
<1> DEFINE k == Kept(e, now)
           l == Kept(e, later)
<1>1. PICK n \in Nat : /\ SplitsAt(e, now, n) /\ Len(k) = Len(e) - n
                       /\ \A i \in 1..Len(k) : k[i] = e[n + i]
  BY KeptShape
<1>2. PICK m \in Nat : /\ SplitsAt(e, later, m) /\ Len(l) = Len(e) - m
                       /\ \A i \in 1..Len(l) : l[i] = e[m + i]
  BY KeptShape
<1>3. k \in Log /\ l \in Log /\ Len(e) \in Nat /\ Len(k) \in Nat
      /\ \A i \in 1..Len(e) : e[i] \in Int
  BY KeptShape, LenProperties, ElementOfSeq DEF Log
<1> HIDE DEF k, l
<1>4. n <= m
  <2> SUFFICES ASSUME m < n PROVE FALSE
    BY <1>1, <1>2
  <2>1. m < Len(e) /\ m + 1 \in 1..n /\ m + 1 \in 1..Len(e)
    BY <1>1, <1>3 DEF SplitsAt
  <2>2. e[m + 1] > later - Window /\ e[m + 1] <= now - Window
    BY <1>1, <1>2, <2>1 DEF SplitsAt
  <2> QED
    BY <1>3, <2>1, <2>2, RateLimiterAssumption
<1>5. SplitsAt(k, later, m - n)
  <2>1. m - n \in 0..Len(k)
    BY <1>1, <1>2, <1>3, <1>4 DEF SplitsAt
  <2>2. ASSUME NEW i \in 1..(m - n) PROVE k[i] = e[n + i] /\ n + i \in 1..m
    <3>1. i \in 1..Len(k) /\ n + i \in 1..m
      BY <1>3, <1>4, <2>1
    <3> QED
      BY <1>1, <3>1
  <2>3. m - n < Len(k) => k[(m - n) + 1] = e[m + 1] /\ m < Len(e)
    <3> SUFFICES ASSUME m - n < Len(k) PROVE k[(m - n) + 1] = e[m + 1] /\ m < Len(e)
      OBVIOUS
    <3>1. (m - n) + 1 \in 1..Len(k) /\ n + ((m - n) + 1) = m + 1 /\ m < Len(e)
      BY <1>1, <1>3, <1>4
    <3> QED
      BY <1>1, <3>1
  <2> QED
    BY <1>2, <2>1, <2>2, <2>3 DEF SplitsAt
<1>6. Kept(k, later) = SubSeq(k, (m - n) + 1, Len(k))
  BY <1>3, <1>5, KeptFollows
<1> DEFINE a == (m - n) + 1
           s == SubSeq(k, a, Len(k))
<1>7. /\ s \in Seq(Int) /\ Len(s) = Len(k) - (m - n)
      /\ \A i \in 1..Len(s) : s[i] = k[(m - n) + i]
  <2>1. a = (m - n) + 1 /\ a \in Int /\ Len(k) \in Int /\ m - n <= Len(k)
    BY <1>3, <1>5 DEF SplitsAt
  <2>2. \A i \in a..Len(k) : k[i] \in Int
    BY <1>3, <1>4, ElementOfSeq DEF Log
  <2> HIDE DEF a
  <2>3. /\ s \in Seq(Int)
        /\ Len(s) = IF a <= Len(k) THEN Len(k) - a + 1 ELSE 0
        /\ \A i \in 1..(Len(k) - a + 1) : s[i] = k[a + i - 1]
    BY <2>1, <2>2, SubSeqProperties
  <2> HIDE DEF s
  <2>4. Len(s) = Len(k) - (m - n)
    BY <2>1, <2>3
  <2>5. ASSUME NEW i \in 1..Len(s) PROVE s[i] = k[(m - n) + i]
    <3>1. i \in 1..(Len(k) - a + 1) /\ a + i - 1 = (m - n) + i
      BY <2>1, <2>4
    <3> QED
      BY <2>3, <3>1
  <2> QED
    BY <2>3, <2>4, <2>5
<1> HIDE DEF s
<1>8. Len(s) = Len(l) /\ \A i \in 1..Len(s) : s[i] = l[i]
  <2>1. Len(s) = Len(e) - m
    BY <1>1, <1>3, <1>7
  <2>2. ASSUME NEW i \in 1..Len(s) PROVE s[i] = l[i]
    <3>1. (m - n) + i \in 1..Len(k) /\ n + ((m - n) + i) = m + i /\ i \in 1..Len(l)
      BY <1>1, <1>2, <1>3, <1>4, <2>1
    <3>2. s[i] = k[(m - n) + i] /\ k[(m - n) + i] = e[m + i] /\ l[i] = e[m + i]
      BY <1>1, <1>2, <1>7, <3>1
    <3> QED
      BY <3>2
  <2> QED
    BY <1>2, <2>1, <2>2
<1>9. s = l
  BY <1>3, <1>7, <1>8, SeqEqual DEF Log
<1> QED
  BY <1>6, <1>9 DEF s, k, l

\* An event of this instant is live.
LEMMA KeptCounts ==
    ASSUME NEW e \in Log, NEW now \in Int
    PROVE  Kept(Append(e, now), now) = Append(Kept(e, now), now)
<1> DEFINE f == Append(e, now)
           k == Kept(e, now)
           l == Kept(f, now)
<1>1. PICK n \in Nat : /\ SplitsAt(e, now, n) /\ Len(k) = Len(e) - n
                       /\ \A i \in 1..Len(k) : k[i] = e[n + i]
  BY KeptShape
<1>2. /\ f \in Log /\ Len(f) = Len(e) + 1 /\ f[Len(e) + 1] = now
      /\ \A i \in 1..Len(e) : f[i] = e[i]
      /\ k \in Log /\ Len(e) \in Nat /\ Len(k) \in Nat
  BY KeptShape, LenProperties, AppendProperties DEF Log
<1> HIDE DEF f, k
<1>3. SplitsAt(f, now, n)
  <2>1. n \in 0..Len(e) /\ n \in 0..Len(f) /\ n < Len(f)
    BY <1>1, <1>2 DEF SplitsAt
  <2>2. \A i \in 1..n : f[i] <= now - Window
    BY <1>1, <1>2, <2>1 DEF SplitsAt
  <2>3. f[n + 1] > now - Window
    <3>1. CASE n < Len(e)
      <4>1. n + 1 \in 1..Len(e)
        BY <1>2, <3>1
      <4> QED
        BY <1>1, <1>2, <3>1, <4>1 DEF SplitsAt
    <3>2. CASE n = Len(e)
      BY <1>2, <3>2, RateLimiterAssumption
    <3> QED
      BY <2>1, <3>1, <3>2
  <2> QED
    BY <2>1, <2>2, <2>3 DEF SplitsAt
<1>4. l = SubSeq(f, n + 1, Len(f))
  BY <1>2, <1>3, KeptFollows
<1> HIDE DEF l
<1>5. /\ l \in Log /\ Len(l) = Len(k) + 1
      /\ \A i \in 1..Len(l) : l[i] = f[n + i]
  <2>1. \A i \in (n + 1)..Len(f) : f[i] \in Int
    BY <1>2, ElementOfSeq DEF Log
  <2>2. n + 1 \in Int /\ Len(f) \in Int /\ n + 1 <= Len(f)
    <3>1. n \in Nat /\ n <= Len(e)
      BY <1>1, <1>2 DEF SplitsAt
    <3> QED
      BY <1>2, <3>1
  <2> DEFINE b == n + 1
  <2>3. b = n + 1 /\ b \in Int /\ \A i \in b..Len(f) : f[i] \in Int
    BY <2>1, <2>2
  <2> HIDE DEF b
  <2>4. /\ l \in Seq(Int)
        /\ Len(l) = IF b <= Len(f) THEN Len(f) - b + 1 ELSE 0
        /\ \A i \in 1..(Len(f) - b + 1) : l[i] = f[b + i - 1]
    <3>1. l = SubSeq(f, b, Len(f))
      BY <1>4 DEF b
    <3> QED
      BY <2>2, <2>3, <3>1, SubSeqProperties
  <2>5. Len(l) = Len(k) + 1
    BY <1>1, <1>2, <2>2, <2>3, <2>4
  <2>6. ASSUME NEW i \in 1..Len(l) PROVE l[i] = f[n + i]
    <3>1. i \in 1..(Len(f) - b + 1) /\ b + i - 1 = n + i
      BY <1>1, <1>2, <2>3, <2>5
    <3> QED
      BY <2>4, <3>1
  <2> QED
    BY <2>4, <2>5, <2>6 DEF Log
<1> DEFINE a == Append(k, now)
<1>6. /\ a \in Log /\ Len(a) = Len(k) + 1 /\ a[Len(k) + 1] = now
      /\ \A i \in 1..Len(k) : a[i] = k[i]
  BY <1>2, AppendProperties DEF Log
<1> HIDE DEF a
<1>7. ASSUME NEW i \in 1..Len(l) PROVE l[i] = a[i]
  <2>1. CASE i \in 1..Len(k)
    <3>1. n + i \in 1..Len(e)
      BY <1>1, <1>2, <2>1 DEF SplitsAt
    <3>2. l[i] = f[n + i] /\ f[n + i] = e[n + i] /\ a[i] = k[i] /\ k[i] = e[n + i]
      BY <1>1, <1>2, <1>5, <1>6, <2>1, <3>1
    <3> QED
      BY <3>2
  <2>2. CASE i = Len(k) + 1
    <3>1. n + i = Len(e) + 1
      BY <1>1, <1>2, <2>2
    <3>2. l[i] = f[n + i] /\ a[i] = now
      BY <1>5, <1>6, <2>2
    <3> QED
      BY <1>2, <3>1, <3>2
  <2> QED
    BY <1>2, <1>5, <2>1, <2>2
<1>8. l = a
  BY <1>5, <1>6, <1>7, SeqEqual DEF Log
<1> QED
  BY <1>8 DEF l, a, f, k

LEMMA KeptNothing == ASSUME NEW now \in Int PROVE Kept(<<>>, now) = <<>> /\ <<>> \in Log
<1>1. <<>> \in Log /\ Len(<<>>) = 0
  BY EmptySeq DEF Log
<1>2. SplitsAt(<<>>, now, 0)
  BY <1>1 DEF SplitsAt
<1>3. Kept(<<>>, now) = SubSeq(<<>>, 0 + 1, Len(<<>>))
  BY <1>1, <1>2, KeptFollows
<1>4. SubSeq(<<>>, 1, 0) = <<>>
  BY SubSeqEmpty
<1> QED
  BY <1>1, <1>3, <1>4

\* Live events stay until the first of them expires.
LEMMA KeptAsIs ==
    ASSUME NEW e \in Log, NEW now \in Int, Len(e) > 0, e[1] > now - Window
    PROVE  Len(Kept(e, now)) = Len(e)
<1>1. PICK n \in Nat : SplitsAt(e, now, n) /\ Len(Kept(e, now)) = Len(e) - n
  BY KeptShape
<1>2. e[1] \in Int /\ Len(e) \in Nat
  BY LenProperties, ElementOfSeq DEF Log
<1>3. n = 0
  <2> SUFFICES ASSUME n > 0 PROVE FALSE
    BY <1>1
  <2>1. e[1] <= now - Window
    BY <1>1 DEF SplitsAt
  <2> QED
    BY <1>2, <2>1, RateLimiterAssumption
<1> QED
  BY <1>1, <1>2, <1>3

LEMMA KeptLess ==
    ASSUME NEW e \in Log, NEW now \in Int, Len(e) > 0, e[1] <= now - Window
    PROVE  Len(Kept(e, now)) < Len(e)
<1>1. PICK n \in Nat : SplitsAt(e, now, n) /\ Len(Kept(e, now)) = Len(e) - n
  BY KeptShape
<1>2. e[1] \in Int /\ Len(e) \in Nat
  BY LenProperties, ElementOfSeq DEF Log
<1>3. n # 0
  BY <1>1, <1>2, RateLimiterAssumption DEF SplitsAt
<1> QED
  BY <1>1, <1>2, <1>3

\* Retry-After is the wait until the oldest event expires, and no second more.
LEMMA RetryAfterIsExact ==
    ASSUME NEW e \in Log, NEW now \in Int, Len(e) > 0, e[1] > now - Window
    PROVE  LET wait == RetryAfter(e, now) * PerSecond IN
           /\ wait \in Int
           /\ Len(Kept(e, now + wait)) < Len(e)
           /\ Len(Kept(e, now + wait - PerSecond)) = Len(e)
<1> DEFINE x == e[1] + Window - now
           q == (x + PerSecond - 1) \div PerSecond
           wait == RetryAfter(e, now) * PerSecond
<1>1. e[1] \in Int /\ Head(e) = e[1] /\ PerSecond \in Nat \ {0} /\ Window \in Nat \ {0}
  BY ElementOfSeq, RateLimiterAssumption, LenProperties DEF Log
<1>2. x \in Nat \ {0}
  BY <1>1
<1> DEFINE y == x + PerSecond - 1
<1>3. y \in Nat /\ y >= PerSecond
  BY <1>1, <1>2
<1> HIDE DEF x, y
<1>4. (y \div PerSecond) * PerSecond <= y /\ y < (y \div PerSecond) * PerSecond + PerSecond
  BY <1>1, <1>3
<1>5. (y \div PerSecond) \in Int /\ (y \div PerSecond) * PerSecond \in Int
  BY <1>1, <1>3
<1> USE DEF y
<1>6. q \in Int /\ q * PerSecond >= x /\ q * PerSecond < x + PerSecond
  BY <1>1, <1>2, <1>4, <1>5
<1> HIDE DEF q, y
<1>7. q >= 1
  <2> SUFFICES ASSUME q <= 0 PROVE FALSE
    BY <1>6
  <2> DEFINE r == q * PerSecond
  <2>1. r <= 0 /\ r \in Int
    BY <1>1, <1>6
  <2>2. r >= x
    BY <1>6
  <2> HIDE DEF r
  <2> QED
    BY <1>2, <2>1, <2>2
<1>8. RetryAfter(e, now) = q
  BY <1>1, <1>6, <1>7 DEF RetryAfter, q, x
<1>9. wait \in Int /\ wait >= x /\ wait < x + PerSecond
  BY <1>1, <1>6, <1>8
<1> HIDE DEF wait
<1>10. e[1] <= (now + wait) - Window /\ now + wait \in Int
  BY <1>1, <1>9 DEF x
<1>11. e[1] > (now + wait - PerSecond) - Window /\ now + wait - PerSecond \in Int
  BY <1>1, <1>9 DEF x
<1>12. Len(Kept(e, now + wait)) < Len(e)
  BY <1>10, KeptLess
<1>13. Len(Kept(e, now + wait - PerSecond)) = Len(e)
  BY <1>11, KeptAsIs
<1> QED
  BY <1>9, <1>12, <1>13 DEF wait

-----------------------------------------------------------------------------
(* The table                                                                 *)

IsTable(table) ==
    /\ IsFiniteSet(DOMAIN table) /\ Cardinality(DOMAIN table) \in 0..MaxKeys
    /\ table \in [DOMAIN table -> Log \ {<<>>}]

\* The keys a full table may give up.
GivenUp(table, now) ==
    {k \in LiveKeys(table, now) :
        /\ Cardinality(LiveKeys(table, now)) >= MaxKeys
        /\ \A l \in LiveKeys(table, now) : Head(Kept(table[k], now)) <= Head(Kept(table[l], now))}

\* t has what counts in table, except for keys that were given up.
Thinned(table, t, now) ==
    /\ DOMAIN t \subseteq DOMAIN table
    /\ \A k \in DOMAIN t : Kept(t[k], now) = Kept(table[k], now)
    /\ \A k \in DOMAIN table \ DOMAIN t : Kept(table[k], now) = <<>> \/ k \in GivenUp(table, now)

\* Room is made for one key, at the expense of expired ones and at most one other.
LEMMA RoomIsMade ==
    ASSUME NEW table, IsTable(table), NEW now \in Int, NEW t \in MakeRoom(table, now)
    PROVE  /\ IsTable(t) /\ Cardinality(DOMAIN t) < MaxKeys
           /\ Thinned(table, t, now)
<1> DEFINE live == LiveKeys(table, now)
           purged == [k \in live |-> Kept(table[k], now)]
<1>1. /\ MaxKeys \in Nat \ {0} /\ IsFiniteSet(DOMAIN table) /\ Cardinality(DOMAIN table) \in 0..MaxKeys
      /\ \A k \in DOMAIN table : table[k] \in Log /\ table[k] # <<>>
  BY RateLimiterAssumption DEF IsTable
<1>2. live \in SUBSET DOMAIN table /\ \A k \in DOMAIN table \ live : Kept(table[k], now) = <<>>
  BY DEF LiveKeys
<1>3. \A k \in live : Kept(table[k], now) \in Log /\ Kept(table[k], now) # <<>>
  BY <1>1, <1>2, KeptShape DEF LiveKeys
<1>4. IsFiniteSet(live) /\ Cardinality(live) \in Nat /\ Cardinality(live) <= MaxKeys
  BY <1>1, <1>2, FS_Subset, FS_CardinalityType
<1>5. DOMAIN purged = live /\ \A k \in live : purged[k] = Kept(table[k], now)
  OBVIOUS
<1>6. \A k \in live : Kept(Kept(table[k], now), now) = Kept(table[k], now)
  BY <1>1, <1>2, KeptLater
<1> HIDE DEF live, purged
<1>7. CASE Cardinality(DOMAIN table) < MaxKeys
  <2>1. t = table
    BY <1>7 DEF MakeRoom
  <2> QED
    BY <1>7, <2>1 DEF Thinned
<1>8. CASE Cardinality(DOMAIN table) >= MaxKeys /\ Cardinality(live) < MaxKeys
  <2>1. t = purged
    <3>1. ~(Cardinality(DOMAIN table) < MaxKeys)
      BY <1>1, <1>8
    <3> QED
      BY <1>5, <1>8, <3>1 DEF MakeRoom, purged, live
  <2>2. DOMAIN t = live /\ \A k \in live : t[k] = Kept(table[k], now)
    BY <1>5, <2>1
  <2>3. IsTable(t)
    <3>1. t \in [live -> Log \ {<<>>}]
      BY <1>3, <2>1 DEF purged
    <3>2. Cardinality(DOMAIN t) \in 0..MaxKeys
      BY <1>1, <1>4, <2>2
    <3> QED
      BY <1>4, <2>2, <3>1, <3>2 DEF IsTable
  <2>4. Thinned(table, t, now)
    BY <1>2, <1>6, <2>2 DEF Thinned
  <2> QED
    BY <1>8, <2>2, <2>3, <2>4
<1>9. CASE Cardinality(DOMAIN table) >= MaxKeys /\ Cardinality(live) >= MaxKeys
  <2>1. PICK dropped \in OldestKeys(purged) : t = [k \in live \ {dropped} |-> purged[k]]
    <3>1. ~(Cardinality(DOMAIN table) < MaxKeys) /\ ~(Cardinality(live) < MaxKeys)
      BY <1>1, <1>4, <1>9
    <3> QED
      BY <1>5, <3>1 DEF MakeRoom, purged, live
  <2>2. /\ dropped \in live
        /\ \A l \in live : Head(Kept(table[dropped], now)) <= Head(Kept(table[l], now))
    BY <1>5 DEF OldestKeys
  <2>3. dropped \in GivenUp(table, now)
    BY <1>9, <2>2 DEF GivenUp, live
  <2>4. DOMAIN t = live \ {dropped} /\ \A k \in live \ {dropped} : t[k] = Kept(table[k], now)
    BY <1>5, <2>1
  <2>5. IsFiniteSet(DOMAIN t) /\ Cardinality(DOMAIN t) = Cardinality(live) - 1
    BY <1>4, <2>2, <2>4, FS_RemoveElement
  <2>6. Cardinality(DOMAIN t) \in 0..MaxKeys /\ Cardinality(DOMAIN t) < MaxKeys
    BY <1>1, <1>4, <1>9, <2>5
  <2>7. t \in [live \ {dropped} -> Log \ {<<>>}]
    BY <1>3, <1>5, <2>1
  <2>8. IsTable(t)
    BY <2>4, <2>5, <2>6, <2>7 DEF IsTable
  <2>9. Thinned(table, t, now)
    BY <1>2, <1>6, <2>3, <2>4 DEF Thinned
  <2> QED
    BY <2>6, <2>8, <2>9
<1> QED
  BY <1>1, <1>4, <1>7, <1>8, <1>9

\* What a client's next event is counted with.
Counted(table, key, now) == IF key \in DOMAIN table THEN Kept(table[key], now) ELSE <<>>

LEMMA RetryAfterIsPositive ==
    ASSUME NEW e \in Log, NEW now \in Int, e # <<>>
    PROVE  RetryAfter(e, now) \in Nat \ {0}
<1>1. Head(e) \in Int /\ PerSecond \in Nat \ {0} /\ Window \in Nat \ {0}
  BY EmptySeq, LenProperties, ElementOfSeq, RateLimiterAssumption DEF Log
<1> DEFINE y == Head(e) + Window - now + PerSecond - 1
           q == y \div PerSecond
<1>2. y \in Int
  BY <1>1
<1> HIDE DEF y
<1>3. q \in Int
  BY <1>1, <1>2
<1>4. RetryAfter(e, now) = IF q < 1 THEN 1 ELSE q
  BY DEF RetryAfter, y
<1> HIDE DEF q
<1> QED
  BY <1>3, <1>4

\* One call: the client's event is counted below the limit and refused at it, and
\* every other client keeps what counts unless it is given up.
LEMMA ConsumeCounts ==
    ASSUME NEW table, IsTable(table), NEW now \in Int, NEW key,
           NEW outcome \in Consume(table, key, now)
    PROVE  LET t == outcome.table
               before == Counted(table, key, now) IN
           /\ IsTable(t) /\ key \in DOMAIN t /\ DOMAIN t \subseteq DOMAIN table \cup {key}
           /\ before \in Log
           /\ outcome.retry = None => Len(before) < Limit /\ Kept(t[key], now) = Append(before, now)
           /\ outcome.retry # None => Kept(t[key], now) = before
           /\ \A k \in DOMAIN t \ {key} : Kept(t[k], now) = Kept(table[k], now)
           /\ \A k \in DOMAIN table \ DOMAIN t :
                 Kept(table[k], now) = <<>> \/ k \in GivenUp(table, now)
<1> DEFINE before == Counted(table, key, now)
<1>1. before \in Log /\ Kept(before, now) = before /\ Len(before) \in Nat
  <2>1. CASE key \in DOMAIN table
    BY <2>1, KeptShape, KeptLater, LenProperties DEF IsTable, Counted, Log
  <2>2. CASE key \notin DOMAIN table
    BY <2>2, KeptNothing, LenProperties DEF Counted, Log
  <2> QED
    BY <2>1, <2>2
<1>2. PICK r \in IF key \in DOMAIN table THEN {table} ELSE MakeRoom(table, now) :
         LET events == IF key \in DOMAIN r THEN Kept(r[key], now) ELSE <<>> IN
         outcome = IF Len(events) >= Limit
                   THEN [table |-> Put(r, key, events), retry |-> RetryAfter(events, now)]
                   ELSE [table |-> Put(r, key, Append(events, now)), retry |-> None]
  BY DEF Consume
<1>3. /\ IsTable(r) /\ Thinned(table, r, now)
      /\ key \notin DOMAIN table => Cardinality(DOMAIN r) < MaxKeys
      /\ key \in DOMAIN table => r = table
  <2>1. CASE key \in DOMAIN table
    BY <1>2, <2>1 DEF Thinned
  <2>2. CASE key \notin DOMAIN table
    BY <1>2, <2>2, RoomIsMade
  <2> QED
    BY <2>1, <2>2
<1>4. before = IF key \in DOMAIN r THEN Kept(r[key], now) ELSE <<>>
  BY <1>3 DEF Counted, Thinned
<1> HIDE DEF before
<1> DEFINE events == IF Len(before) >= Limit THEN before ELSE Append(before, now)
<1>5. /\ outcome.table = Put(r, key, events)
      /\ outcome.retry = IF Len(before) >= Limit THEN RetryAfter(before, now) ELSE None
  BY <1>2, <1>4
<1>6. Limit \in Nat \ {0} /\ None \notin Nat
  BY RateLimiterAssumption
<1>7. Len(before) >= Limit => before # <<>> /\ RetryAfter(before, now) # None
  BY <1>1, <1>6, EmptySeq, RetryAfterIsPositive
<1>8. /\ events \in Log \ {<<>>}
      /\ Kept(events, now) = events
  <2>1. CASE Len(before) >= Limit
    BY <1>1, <1>7, <2>1
  <2>2. CASE ~(Len(before) >= Limit)
    <3> DEFINE a == Append(before, now)
    <3>1. a \in Log /\ Len(a) = Len(before) + 1
      BY <1>1, AppendProperties DEF Log
    <3>2. Kept(a, now) = Append(Kept(before, now), now)
      BY <1>1, KeptCounts
    <3>3. Kept(a, now) = a
      BY <1>1, <3>2
    <3>4. events = a
      BY <2>2
    <3> HIDE DEF a, events
    <3>5. a # <<>>
      BY <1>1, <3>1, EmptySeq
    <3> QED
      BY <3>1, <3>3, <3>4, <3>5
  <2> QED
    BY <2>1, <2>2
<1>9. outcome.retry = None <=> ~(Len(before) >= Limit)
  BY <1>5, <1>7
<1>10. outcome.retry = None => Len(before) < Limit /\ events = Append(before, now)
  BY <1>1, <1>6, <1>9
<1>11. outcome.retry # None => events = before
  BY <1>9
<1> HIDE DEF events
<1> DEFINE t == outcome.table
<1>12. /\ DOMAIN t = DOMAIN r \cup {key} /\ t[key] = events
       /\ \A k \in DOMAIN r \ {key} : t[k] = r[k]
       /\ t = [k \in DOMAIN r \cup {key} |-> IF k = key THEN events ELSE r[k]]
  BY <1>5 DEF Put
<1> HIDE DEF t
<1>13. IsTable(t)
  <2>1. \A k \in DOMAIN r : r[k] \in Log \ {<<>>}
    BY <1>3 DEF IsTable
  <2>2. t \in [DOMAIN t -> Log \ {<<>>}]
    BY <1>8, <1>12, <2>1
  <2>3. /\ IsFiniteSet(DOMAIN r) /\ Cardinality(DOMAIN r) \in 0..MaxKeys /\ MaxKeys \in Nat
        /\ key \notin DOMAIN r => Cardinality(DOMAIN r) < MaxKeys
    BY <1>3, RateLimiterAssumption DEF IsTable
  <2>4. /\ IsFiniteSet(DOMAIN t)
        /\ Cardinality(DOMAIN t) = IF key \in DOMAIN r THEN Cardinality(DOMAIN r)
                                   ELSE Cardinality(DOMAIN r) + 1
    BY <1>12, <2>3, FS_AddElement
  <2>5. Cardinality(DOMAIN t) \in 0..MaxKeys
    BY <2>3, <2>4
  <2> QED
    BY <2>2, <2>4, <2>5 DEF IsTable
<1>14. \A k \in DOMAIN t \ {key} : Kept(t[k], now) = Kept(table[k], now)
  BY <1>3, <1>12 DEF Thinned
<1>15. \A k \in DOMAIN table \ DOMAIN t : Kept(table[k], now) = <<>> \/ k \in GivenUp(table, now)
  BY <1>3, <1>12 DEF Thinned
<1>16. DOMAIN t \subseteq DOMAIN table \cup {key} /\ key \in DOMAIN t
  BY <1>3, <1>12 DEF Thinned
<1> QED
  BY <1>1, <1>8, <1>10, <1>11, <1>12, <1>13, <1>14, <1>15, <1>16 DEF t, before

=============================================================================
