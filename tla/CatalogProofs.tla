---------------------------- MODULE CatalogProofs ----------------------------
(* Proofs about CatalogImport, for every set of threads, categories, products, *)
(* object keys and jobs, all limits, and all requests their schemas let pass.  *)
EXTENDS CatalogImport, FiniteSetTheorems, SequenceTheorems, TLAPS

-----------------------------------------------------------------------------
(* Positions                                                                 *)

\* The cardinalities of a finite set and of its subsets are comparable.
LEMMA Smaller ==
    ASSUME NEW S, IsFiniteSet(S), NEW T \in SUBSET S
    PROVE  /\ IsFiniteSet(T) /\ Cardinality(T) \in Nat /\ Cardinality(S) \in Nat
           /\ Cardinality(T) <= Cardinality(S)
           /\ T # S => Cardinality(T) < Cardinality(S)
           /\ T # {} => Cardinality(T) >= 1
<1>1. IsFiniteSet(T) /\ Cardinality(T) <= Cardinality(S) /\ (Cardinality(S) = Cardinality(T) => S = T)
  BY FS_Subset
<1>2. Cardinality(T) \in Nat
  BY <1>1, FS_CardinalityType
<1>3. Cardinality(S) \in Nat
  BY FS_CardinalityType
<1>4. T # {} => Cardinality(T) # 0
  BY <1>1, FS_EmptySet
<1> QED
  BY <1>1, <1>2, <1>3, <1>4

\* A set of positions has a first one. Were each preceded by another, the numbers
\* of predecessors would map the set into fewer numbers than it has members.
LEMMA FirstPosition ==
    ASSUME NEW n \in Nat, NEW S \in SUBSET (1..n), S # {}
    PROVE  \E m \in S : \A k \in S : m <= k
<1> DEFINE below(k) == {j \in S : j < k}
           size == [k \in S |-> Cardinality(below(k))]
<1>1. IsFiniteSet(S) /\ Cardinality(S) \in Nat
  <2>1. IsFiniteSet(1..n)
    BY FS_Interval
  <2> QED
    BY <2>1, Smaller
<1>2. ASSUME NEW k \in S
      PROVE  IsFiniteSet(below(k)) /\ Cardinality(below(k)) \in Nat
             /\ Cardinality(below(k)) < Cardinality(S)
  <2>1. below(k) \in SUBSET S /\ below(k) # S
    OBVIOUS
  <2> HIDE DEF below
  <2> QED
    BY <1>1, <2>1, Smaller
<1>3. ASSUME NEW j \in S, NEW k \in S, j < k
      PROVE  Cardinality(below(j)) < Cardinality(below(k))
  <2>a. \A i \in S : i \in Int
    OBVIOUS
  <2>b. \A i \in S : i < j => i < k
    BY <1>3, <2>a
  <2>c. j \in below(k) /\ j \notin below(j)
    BY <1>3, <2>a
  <2>1. below(j) \in SUBSET below(k) /\ below(j) # below(k)
    BY <2>b, <2>c
  <2>2. IsFiniteSet(below(k))
    BY <1>2
  <2> HIDE DEF below
  <2> QED
    BY <2>1, <2>2, Smaller
<1> SUFFICES ASSUME \A m \in S : \E k \in S : k < m PROVE FALSE
  OBVIOUS
<1>4. ASSUME NEW k \in S PROVE Cardinality(below(k)) \in 1..(Cardinality(S) - 1)
  <2>1. below(k) # {}
    OBVIOUS
  <2> HIDE DEF below
  <2> QED
    BY <1>1, <1>2, <2>1, FS_EmptySet
<1>5. size \in [S -> 1..(Cardinality(S) - 1)]
  BY <1>4
<1>6. IsFiniteSet(1..(Cardinality(S) - 1)) /\ Cardinality(1..(Cardinality(S) - 1)) < Cardinality(S)
  <2> DEFINE c == Cardinality(S)
  <2>1. c \in Nat /\ c # 0
    BY <1>1, FS_EmptySet
  <2> HIDE DEF c
  <2>2. IsFiniteSet(1..(c - 1)) /\ Cardinality(1..(c - 1)) = c - 1
    BY <2>1, FS_Interval
  <2> QED
    BY <2>1, <2>2 DEF c
<1>7. PICK j \in S, k \in S : j # k /\ size[j] = size[k]
  <2> DEFINE T == 1..(Cardinality(S) - 1)
  <2>1. IsFiniteSet(T) /\ Cardinality(T) < Cardinality(S) /\ size \in [S -> T]
    BY <1>5, <1>6
  <2> HIDE DEF T, size
  <2> QED
    BY <1>1, <2>1, FS_PigeonHole
<1>8. Cardinality(below(j)) = Cardinality(below(k))
  BY <1>7
<1> HIDE DEF below, size
<1> QED
  BY <1>2, <1>3, <1>7, <1>8

\* The members of a set of positions are numbered by how many do not come later.
LEMMA Numbered ==
    ASSUME NEW n \in Nat, NEW S \in SUBSET (1..n)
    PROVE  /\ Cardinality(S) \in Nat
           /\ \A i \in 1..Cardinality(S) :
                 \E k \in S : Cardinality({j \in S : j <= k}) = i
<1> DEFINE upto(k) == {j \in S : j <= k}
           place == [k \in S |-> Cardinality(upto(k))]
<1>1. IsFiniteSet(S) /\ Cardinality(S) \in Nat
  <2>1. IsFiniteSet(1..n)
    BY FS_Interval
  <2> QED
    BY <2>1, Smaller
<1>2. ASSUME NEW k \in S
      PROVE  IsFiniteSet(upto(k)) /\ Cardinality(upto(k)) \in 1..Cardinality(S)
  <2>1. upto(k) \in SUBSET S /\ k \in upto(k)
    OBVIOUS
  <2> HIDE DEF upto
  <2>2. upto(k) # {}
    BY <2>1
  <2>3. IsFiniteSet(upto(k)) /\ Cardinality(upto(k)) \in Nat /\ Cardinality(upto(k)) <= Cardinality(S)
        /\ Cardinality(upto(k)) >= 1
    BY <1>1, <2>1, <2>2, Smaller
  <2> QED
    BY <1>1, <2>3
<1>3. ASSUME NEW j \in S, NEW k \in S, j < k
      PROVE  Cardinality(upto(j)) < Cardinality(upto(k))
  <2>a. \A i \in S : i \in Int
    OBVIOUS
  <2>b. \A i \in S : i <= j => i <= k
    BY <1>3, <2>a
  <2>c. k \in upto(k) /\ k \notin upto(j)
    BY <1>3, <2>a
  <2>1. upto(j) \in SUBSET upto(k) /\ upto(j) # upto(k)
    BY <2>b, <2>c
  <2>2. IsFiniteSet(upto(k))
    BY <1>2
  <2> HIDE DEF upto
  <2> QED
    BY <2>1, <2>2, Smaller
<1> DEFINE places == 1..Cardinality(S)
<1>4. place \in [S -> places] /\ \A j, k \in S : place[j] = place[k] => j = k
  <2>1. place \in [S -> places]
    BY <1>2
  <2>2. ASSUME NEW j \in S, NEW k \in S, place[j] = place[k] PROVE j = k
    <3>1. Cardinality(upto(j)) = Cardinality(upto(k)) /\ Cardinality(upto(j)) \in Nat
      BY <1>1, <1>2, <2>2
    <3> HIDE DEF upto, place
    <3> QED
      BY <1>1, <1>3, <3>1
  <2> QED
    BY <2>1, <2>2
<1>5. IsFiniteSet(places) /\ Cardinality(places) = Cardinality(S)
  <2> DEFINE c == Cardinality(S)
  <2>1. c \in Nat
    BY <1>1
  <2> HIDE DEF c
  <2>2. IsFiniteSet(1..c) /\ Cardinality(1..c) = c
    BY <2>1, FS_Interval
  <2> QED
    BY <2>2 DEF c
<1> HIDE DEF place, places
<1>6. place \in Injection(S, places)
  BY <1>4 DEF Injection, IsInjective
<1>7. place \in Surjection(S, places)
  BY <1>5, <1>6, FS_Injection
<1>8. \A i \in places : \E k \in S : place[k] = i
  BY <1>7 DEF Surjection
<1> QED
  BY <1>1, <1>8 DEF place, places

-----------------------------------------------------------------------------
(* SKUs                                                                      *)

LEMMA SequenceOf ==
    ASSUME NEW S, NEW n \in Nat, NEW s, DOMAIN s = 1..n, \A i \in 1..n : s[i] \in S,
           s = [i \in 1..n |-> s[i]]
    PROVE  s \in Seq(S) /\ Len(s) = n
  BY SMTT(10)

LEMMA ActiveDefaultsFinite ==
    ASSUME NEW skus \in Seq(Sku)
    PROVE  /\ IsFiniteSet(ActiveDefaults(skus)) /\ Cardinality(ActiveDefaults(skus)) \in Nat
           /\ ActiveDefaults(skus) # {} => Cardinality(ActiveDefaults(skus)) >= 1
<1>1. DOMAIN skus = 1..Len(skus) /\ Len(skus) \in Nat
  BY LenProperties
<1> DEFINE n == Len(skus)
<1>2. n \in Nat /\ ActiveDefaults(skus) \in SUBSET (1..n)
  BY <1>1 DEF ActiveDefaults
<1> HIDE DEF n
<1>3. IsFiniteSet(1..n)
  BY <1>2, FS_Interval
<1>4. IsFiniteSet(ActiveDefaults(skus))
  BY <1>2, <1>3, FS_Subset
<1>5. Cardinality(ActiveDefaults(skus)) \in Nat
  BY <1>4, FS_CardinalityType
<1> QED
  BY <1>4, <1>5, FS_EmptySet

LEMMA FirstActiveIs ==
    ASSUME NEW skus \in Seq(Sku), HasActive(skus)
    PROVE  FirstActive(skus) \in DOMAIN skus /\ skus[FirstActive(skus)].active
<1> DEFINE S == {i \in DOMAIN skus : skus[i].active}
           n == Len(skus)
<1>1. DOMAIN skus = 1..n /\ n \in Nat
  BY LenProperties
<1>2. S \in SUBSET (1..n) /\ S # {}
  BY <1>1 DEF HasActive
<1> HIDE DEF n
<1>3. PICK m \in S : \A k \in S : m <= k
  <2> HIDE DEF S
  <2> QED
    BY <1>1, <1>2, FirstPosition
<1>4. m \in DOMAIN skus /\ skus[m].active /\ \A j \in 1..(m - 1) : ~skus[j].active
  <2>1. m \in 1..n /\ \A j \in 1..(m - 1) : j \in 1..n /\ j < m
    BY <1>1, <1>2
  <2> QED
    BY <1>1, <1>2, <1>3, <2>1
<1> QED
  BY <1>4 DEF FirstActive

LEMMA WithDefaultIs ==
    ASSUME NEW skus \in Seq(Sku), HasActive(skus), Cardinality(ActiveDefaults(skus)) <= 1
    PROVE  WithDefault(skus) \in Seq(Sku) /\ Cardinality(ActiveDefaults(WithDefault(skus))) = 1
<1>1. CASE ActiveDefaults(skus) # {}
  <2>1. WithDefault(skus) = skus
    BY <1>1 DEF WithDefault
  <2>2. Cardinality(ActiveDefaults(skus)) \in Nat /\ Cardinality(ActiveDefaults(skus)) >= 1
    BY <1>1, ActiveDefaultsFinite
  <2> QED
    BY <2>1, <2>2
<1>2. CASE ActiveDefaults(skus) = {}
  <2> DEFINE i == FirstActive(skus)
             sku == [skus[i] EXCEPT !.default = TRUE]
             result == [skus EXCEPT ![i] = sku]
  <2>1. i \in DOMAIN skus /\ skus[i].active
    BY FirstActiveIs
  <2>2. WithDefault(skus) = result
    BY <1>2 DEF WithDefault
  <2>3. skus[i] \in Sku
    BY <2>1, ElementOfSeq
  <2>4. sku \in Sku /\ sku.active /\ sku.default
    BY <2>1, <2>3 DEF Sku
  <2> HIDE DEF i, sku
  <2>5. result \in Seq(Sku) /\ DOMAIN result = DOMAIN skus /\ result[i] = sku
        /\ \A j \in DOMAIN skus : j # i => result[j] = skus[j]
    <3>1. result \in Seq(Sku)
      BY <2>1, <2>4, ExceptSeq
    <3> QED
      BY <2>1, <3>1
  <2>6. ActiveDefaults(result) = {i}
    <3> HIDE DEF result
    <3> QED
      BY <1>2, <2>1, <2>4, <2>5 DEF ActiveDefaults, IsActiveDefault
  <2>7. Cardinality({i}) = 1
    BY FS_Singleton
  <2> QED
    BY <2>2, <2>5, <2>6, <2>7
<1> QED
  BY <1>1, <1>2

LEMMA DefaultSkuIs ==
    ASSUME NEW x \in Products
    PROVE  <<DefaultSku(x)>> \in Seq(Sku) /\ Cardinality(ActiveDefaults(<<DefaultSku(x)>>)) = 1
<1> DEFINE sku == DefaultSku(x)
<1>1. sku \in Sku /\ sku.active /\ sku.default
  BY CatalogAssumption, CatalogRulesAssumption DEF DefaultSku, Sku
<1> HIDE DEF sku
<1> DEFINE one == <<sku>>
<1>2. one \in Seq(Sku) /\ DOMAIN one = {1} /\ one[1] = sku
  BY <1>1
<1>3. ActiveDefaults(one) = {1}
  <2> HIDE DEF one
  <2> QED
    BY <1>1, <1>2 DEF ActiveDefaults, IsActiveDefault
<1>4. Cardinality({1}) = 1
  BY FS_Singleton
<1> QED
  BY <1>2, <1>3, <1>4 DEF sku

\* Whatever _sync_skus accepts has one active default.
LEMMA SyncedIs ==
    ASSUME NEW x \in Products, NEW inputs \in Seq(Sku), SyncedSkus(x, inputs) # Refused
    PROVE  /\ SyncedSkus(x, inputs) \in Seq(Sku)
           /\ Cardinality(ActiveDefaults(SyncedSkus(x, inputs))) = 1
<1>1. CASE inputs = <<>>
  BY <1>1, DefaultSkuIs DEF SyncedSkus
<1>2. CASE inputs # <<>>
  <2>1. HasActive(inputs) /\ ~(Cardinality(ActiveDefaults(inputs)) > 1)
        /\ SyncedSkus(x, inputs) = WithDefault(inputs)
    BY <1>2 DEF SyncedSkus
  <2>2. Cardinality(ActiveDefaults(inputs)) <= 1
    BY <2>1, ActiveDefaultsFinite
  <2> QED
    BY <2>1, <2>2, WithDefaultIs
<1> QED
  BY <1>1, <1>2

LEMMA OverlaidIs ==
    ASSUME NEW skus \in Seq(Sku), NEW incoming \in Seq(Sku)
    PROVE  Overlaid(skus, incoming) \in Seq(Sku)
<1> DEFINE replaced(sku) == {i \in DOMAIN incoming : incoming[i].code = sku.code}
           kept(sku) == IF ActiveDefaults(incoming) = {} THEN sku ELSE [sku EXCEPT !.default = FALSE]
           added == {i \in DOMAIN incoming : incoming[i].code \notin Codes(skus)}
           place(i) == Len(skus) + Cardinality({j \in added : j <= i})
           total == Len(skus) + Cardinality(added)
           value(n) == IF n > Len(skus) THEN incoming[CHOOSE i \in added : place(i) = n]
                       ELSE IF replaced(skus[n]) = {} THEN kept(skus[n])
                       ELSE incoming[CHOOSE i \in replaced(skus[n]) : TRUE]
<1>1. DOMAIN skus = 1..Len(skus) /\ Len(skus) \in Nat
  BY LenProperties
<1>2. DOMAIN incoming = 1..Len(incoming) /\ Len(incoming) \in Nat
  BY LenProperties
<1>3. added \in SUBSET (1..Len(incoming))
  BY <1>2
<1>4. Cardinality(added) \in Nat
      /\ \A i \in 1..Cardinality(added) : \E k \in added : Cardinality({j \in added : j <= k}) = i
  <2> HIDE DEF added
  <2> QED
    BY <1>2, <1>3, Numbered
<1>5. \A i \in DOMAIN incoming : incoming[i] \in Sku
  BY ElementOfSeq
<1>6. \A i \in DOMAIN skus : skus[i] \in Sku
  BY ElementOfSeq
<1>7. ASSUME NEW n \in 1..total PROVE value(n) \in Sku
  <2>1. CASE n > Len(skus)
    <3>1. n - Len(skus) \in 1..Cardinality(added)
      <4> HIDE DEF added
      <4> QED
        BY <1>1, <1>4, <2>1
    <3>2. PICK k \in added : Cardinality({j \in added : j <= k}) = n - Len(skus)
      BY <1>4, <3>1
    <3>3. place(k) = n
      <4> HIDE DEF added
      <4> QED
        BY <1>1, <1>4, <3>1, <3>2
    <3> DEFINE chosen == CHOOSE i \in added : place(i) = n
    <3>4. chosen \in added
      <4> HIDE DEF added, place
      <4> QED
        BY <3>2, <3>3
    <3>5. value(n) = incoming[chosen]
      BY <2>1
    <3> HIDE DEF chosen
    <3> QED
      BY <1>5, <3>4, <3>5
  <2>2. CASE ~(n > Len(skus))
    <3>1. n \in DOMAIN skus
      <4> HIDE DEF added
      <4> QED
        BY <1>1, <1>4, <2>2
    <3>2. CASE replaced(skus[n]) = {}
      <4>1. kept(skus[n]) \in Sku
        BY <1>6, <3>1 DEF Sku
      <4> QED
        BY <2>2, <3>2, <4>1
    <3>3. CASE replaced(skus[n]) # {}
      <4> DEFINE chosen == CHOOSE i \in replaced(skus[n]) : TRUE
      <4>1. chosen \in replaced(skus[n])
        BY <3>3
      <4>2. value(n) = incoming[chosen]
        BY <2>2, <3>3
      <4> HIDE DEF chosen
      <4> QED
        BY <1>5, <4>1, <4>2
    <3> QED
      BY <3>2, <3>3
  <2> QED
    BY <2>1, <2>2
<1>8. total \in Nat
  <2> HIDE DEF added
  <2> QED
    BY <1>1, <1>4
<1>9. Overlaid(skus, incoming) = [n \in 1..total |-> value(n)]
  BY DEF Overlaid
<1> HIDE DEF total, value
<1> QED
  BY <1>7, <1>8, <1>9

\* Whatever _final_skus accepts has one active default.
LEMMA FinalSkusIs ==
    ASSUME NEW x \in Products, NEW skus \in Seq(Sku), NEW incoming \in Seq(Sku),
           FinalSkus(x, skus, incoming) # Refused
    PROVE  /\ FinalSkus(x, skus, incoming) \in Seq(Sku)
           /\ Cardinality(ActiveDefaults(FinalSkus(x, skus, incoming))) = 1
<1> DEFINE merged == Overlaid(skus, incoming)
<1>1. merged \in Seq(Sku)
  BY OverlaidIs
<1> DEFINE many(s) == Cardinality(ActiveDefaults(s)) > 1
<1>2. FinalSkus(x, skus, incoming) =
        IF many(incoming) THEN Refused
        ELSE IF merged = <<>> THEN <<DefaultSku(x)>>
        ELSE IF ~HasActive(merged) \/ many(merged) THEN Refused
        ELSE WithDefault(merged)
  BY DEF FinalSkus
<1> HIDE DEF merged, many
<1>3. CASE merged = <<>>
  <2>1. FinalSkus(x, skus, incoming) = <<DefaultSku(x)>>
    BY <1>2, <1>3
  <2> QED
    BY <2>1, DefaultSkuIs
<1>4. CASE merged # <<>>
  <2>1. HasActive(merged) /\ ~many(merged) /\ FinalSkus(x, skus, incoming) = WithDefault(merged)
    BY <1>2, <1>4
  <2>2. Cardinality(ActiveDefaults(merged)) \in Nat
    BY <1>1, ActiveDefaultsFinite
  <2>3. Cardinality(ActiveDefaults(merged)) <= 1
    BY <2>1, <2>2 DEF many
  <2> QED
    BY <1>1, <2>1, <2>3, WithDefaultIs
<1> QED
  BY <1>3, <1>4

-----------------------------------------------------------------------------
(* Images                                                                    *)

LEMMA ImageMapIs ==
    ASSUME NEW images \in ImageMaps
    PROVE  /\ DOMAIN images \in SUBSET ObjectKeys
           /\ images \in [DOMAIN images -> Roles]
           /\ \A role : IsFiniteSet(OfRole(images, role)) /\ Count(images, role) \in Nat
<1>1. DOMAIN images \in SUBSET ObjectKeys /\ images \in [DOMAIN images -> Roles]
  BY DEF ImageMaps
<1>2. ASSUME NEW role PROVE IsFiniteSet(OfRole(images, role)) /\ Count(images, role) \in Nat
  <2>1. OfRole(images, role) \in SUBSET ObjectKeys
    BY <1>1 DEF OfRole
  <2>2. IsFiniteSet(ObjectKeys)
    BY CatalogAssumption
  <2> QED
    BY <2>1, <2>2, Smaller DEF Count
<1> QED
  BY <1>1, <1>2

LEMMA MakesImageMap ==
    ASSUME NEW K \in SUBSET ObjectKeys, NEW f \in [K -> Roles]
    PROVE  f \in ImageMaps
  BY DEF ImageMaps

LEMMA NoImages == <<>> \in ImageMaps /\ DOMAIN <<>> = {} /\ \A role : Count(<<>>, role) = 0
<1>1. <<>> \in [{} -> Roles] /\ DOMAIN <<>> = {}
  OBVIOUS
<1>2. ASSUME NEW role PROVE Count(<<>>, role) = 0
  <2>1. OfRole(<<>>, role) = {}
    BY <1>1 DEF OfRole
  <2> QED
    BY <2>1, FS_EmptySet DEF Count
<1> QED
  BY <1>1, <1>2, MakesImageMap

\* One more image of a role.
PlusKey(images, key, role) == Over([k \in {key} |-> role], images)
MinusKey(images, key) == [k \in DOMAIN images \ {key} |-> images[k]]

LEMMA KeyAdded ==
    ASSUME NEW images \in ImageMaps, NEW key \in ObjectKeys \ DOMAIN images, NEW role \in Roles,
           NEW result, result = PlusKey(images, key, role)
    PROVE  /\ result \in ImageMaps
           /\ Count(result, role) = Count(images, role) + 1
           /\ \A other \in Roles \ {role} : Count(result, other) = Count(images, other)
<1>0. result = [k \in DOMAIN images \cup {key} |-> result[k]]
  BY DEF Over, PlusKey
<1>1. DOMAIN result = DOMAIN images \cup {key} /\ result[key] = role
      /\ \A k \in DOMAIN images : result[k] = images[k]
  BY DEF Over, PlusKey
<1>2. DOMAIN images \in SUBSET ObjectKeys /\ images \in [DOMAIN images -> Roles]
  BY ImageMapIs
<1>3. result \in ImageMaps
  <2> DEFINE K == DOMAIN images \cup {key}
  <2>1. K \in SUBSET ObjectKeys
    BY <1>2
  <2>2. ASSUME NEW k \in K PROVE result[k] \in Roles
    <3>1. CASE k = key
      BY <1>1, <3>1
    <3>2. CASE k \in DOMAIN images
      <4>1. result[k] = images[k]
        BY <1>1, <3>2
      <4>2. images[k] \in Roles
        BY <1>2, <3>2
      <4> QED
        BY <4>1, <4>2
    <3> QED
      BY <3>1, <3>2
  <2>3. result = [k \in K |-> result[k]]
    BY <1>0
  <2> HIDE DEF K
  <2>4. result \in [K -> Roles]
    BY <2>2, <2>3
  <2> QED
    BY <2>1, <2>4, MakesImageMap
<1>4. OfRole(result, role) = OfRole(images, role) \cup {key} /\ key \notin OfRole(images, role)
  BY <1>1 DEF OfRole
<1>5. \A other \in Roles \ {role} : OfRole(result, other) = OfRole(images, other)
  BY <1>1 DEF OfRole
<1>6. Cardinality(OfRole(images, role) \cup {key}) = Cardinality(OfRole(images, role)) + 1
  <2>1. IsFiniteSet(OfRole(images, role))
    BY ImageMapIs
  <2> QED
    BY <1>4, <2>1, FS_AddElement
<1> QED
  BY <1>3, <1>4, <1>5, <1>6 DEF Count

\* One image less, of a role that is not the cover's unless it was one.
LEMMA KeyRemoved ==
    ASSUME NEW images \in ImageMaps, NEW key,
           NEW result, result = MinusKey(images, key)
    PROVE  /\ result \in ImageMaps
           /\ \A role \in Roles : Count(result, role) <= Count(images, role)
           /\ \A role \in Roles : images[key] # role => Count(result, role) = Count(images, role)
<1>1. DOMAIN images \in SUBSET ObjectKeys /\ images \in [DOMAIN images -> Roles]
  BY ImageMapIs
<1>2. result \in ImageMaps
  <2> DEFINE K == DOMAIN images \ {key}
  <2>1. K \in SUBSET ObjectKeys /\ result \in [K -> Roles]
    BY <1>1 DEF MinusKey
  <2> QED
    BY <2>1, MakesImageMap
<1>3. ASSUME NEW role \in Roles PROVE Count(result, role) <= Count(images, role)
  <2>1. OfRole(result, role) \in SUBSET OfRole(images, role)
    BY DEF OfRole, MinusKey
  <2>2. IsFiniteSet(OfRole(images, role))
    BY ImageMapIs
  <2> QED
    BY <2>1, <2>2, Smaller DEF Count
<1>4. ASSUME NEW role \in Roles, images[key] # role PROVE Count(result, role) = Count(images, role)
  <2>1. OfRole(result, role) = OfRole(images, role)
    BY <1>4 DEF OfRole, MinusKey
  <2> QED
    BY <2>1 DEF Count
<1> QED
  BY <1>2, <1>3, <1>4

\* Two maps that a bijection of their keys relates have as many images of a role.
LEMMA SameCount ==
    ASSUME NEW A \in ImageMaps, NEW F, NEW g \in [DOMAIN A -> DOMAIN F],
           \A k \in DOMAIN A : F[g[k]] = A[k],
           \A k, l \in DOMAIN A : g[k] = g[l] => k = l,
           \A k \in DOMAIN F : \E l \in DOMAIN A : g[l] = k,
           NEW role
    PROVE  Count(A, role) = Count(F, role)
<1> DEFINE S == OfRole(A, role)
           T == OfRole(F, role)
           h == [k \in S |-> g[k]]
<1>1. h \in [S -> T] /\ \A k, l \in S : h[k] = h[l] => k = l
  BY DEF OfRole
<1>2. \A k \in T : \E l \in S : h[l] = k
  BY DEF OfRole
<1>3. IsFiniteSet(S)
  BY ImageMapIs
<1> HIDE DEF S, T, h
<1>4. ExistsBijection(S, T)
  BY <1>1, <1>2 DEF ExistsBijection, Bijection, Injection, IsInjective, Surjection
<1>5. Cardinality(S) = Cardinality(T)
  BY <1>3, <1>4, FS_Bijection
<1> QED
  BY <1>5 DEF S, T, Count

Named(x, rows) == {r \in rows : r.code = x}
KeysOf(rows) == {r.key : r \in rows}
IsMap(f) == f = [k \in DOMAIN f |-> f[k]]

Consistent(rows) == \A r, s \in rows : r.key = s.key => r.role = s.role

\* F has the roles that rows give, and those of images for the other keys.
GivesRoles(F, rows, images) ==
    /\ DOMAIN F = KeysOf(rows) \cup DOMAIN images
    /\ IsMap(F)
    /\ \A r \in rows : F[r.key] = r.role
    /\ \A k \in DOMAIN images : k \notin KeysOf(rows) => F[k] = images[k]

\* The roles once rows are applied that do not contradict each other.
LEMMA FinalRolesIs ==
    ASSUME NEW x, NEW images, NEW rows, Consistent(Named(x, rows))
    PROVE  GivesRoles(FinalRoles(x, images, rows), Named(x, rows), images)
<1> DEFINE named == Named(x, rows)
           keys == {r.key : r \in named}
           given == [k \in keys |-> (CHOOSE r \in named : r.key = k).role]
           F == FinalRoles(x, images, rows)
<1>1. F = Over(given, images)
  BY DEF FinalRoles, Named
<1>2. DOMAIN given = keys
  OBVIOUS
<1>3. ASSUME NEW r \in named PROVE given[r.key] = r.role
  <2> DEFINE chosen == CHOOSE s \in named : s.key = r.key
  <2>1. chosen \in named /\ chosen.key = r.key
    OBVIOUS
  <2>2. given[r.key] = chosen.role
    OBVIOUS
  <2> HIDE DEF chosen
  <2> QED
    BY <2>1, <2>2 DEF Consistent
<1>4. \A r \in named : r.key \in keys
  OBVIOUS
<1>7. keys = KeysOf(named)
  BY DEF KeysOf
<1> HIDE DEF given, keys, F, named
<1>5. /\ DOMAIN F = keys \cup DOMAIN images
      /\ IsMap(F)
      /\ \A k \in keys : F[k] = given[k]
      /\ \A k \in DOMAIN images : k \notin keys => F[k] = images[k]
  BY <1>1, <1>2 DEF Over, IsMap
<1>6. \A r \in named : F[r.key] = r.role
  BY <1>3, <1>4, <1>5
<1> QED
  BY <1>5, <1>6, <1>7 DEF F, named, GivesRoles

\* The image rows of a workbook, as CatalogImportAssumption has them.
ImageRows == {images \in SUBSET UNION {req.workbook.images : req \in Imports} :
    \A r \in images : /\ r.role \in Roles /\ r.staged \in BOOLEAN
                      /\ r.staged => r.key \notin ObjectKeys
                      /\ \A s \in images : s.key = r.key => s = r}

Staged(images) == {r.key : r \in {s \in images : s.staged}}

\* Copies of the staged objects, under keys of their own ...
Copies(images, copies) ==
    /\ copies \in [Staged(images) -> ObjectKeys]
    /\ \A r \in images : ~r.staged => r.key \in ObjectKeys

\* ... that no two rows of the workbook share.
Renames(images, copies) ==
    /\ Copies(images, copies)
    /\ \A k, l \in Staged(images) : copies[k] = copies[l] => k = l
    /\ \A r, s \in images : r.staged /\ ~s.staged => copies[r.key] # s.key

LEMMA CopiedRows ==
    ASSUME NEW images \in ImageRows, NEW copies, Renames(images, copies)
    PROVE  Consistent(Copied(images, copies))
<1> DEFINE key(r) == IF r.staged THEN copies[r.key] ELSE r.key
           row(r) == [code |-> r.code, key |-> key(r), role |-> r.role]
<1>1. ASSUME NEW r \in images, NEW s \in images, key(r) = key(s) PROVE r = s
  <2>1. r.staged => r.key \in Staged(images)
    BY DEF Staged
  <2>2. s.staged => s.key \in Staged(images)
    BY DEF Staged
  <2>3. r.key = s.key
    BY <1>1, <2>1, <2>2 DEF ImageRows, Renames, Copies
  <2> QED
    BY <2>3 DEF ImageRows
<1>2. \A r \in images : row(r).key = key(r) /\ row(r).role = r.role
  OBVIOUS
<1>3. Copied(images, copies) = {row(r) : r \in images}
  BY DEF Copied
<1> HIDE DEF key, row
<1> QED
  BY <1>1, <1>2, <1>3 DEF Consistent

\* What an import stores: the keys are those of a product's images, ...
LEMMA AppliedImagesTyped ==
    ASSUME NEW x, NEW now \in ImageMaps, NEW images \in ImageRows,
           NEW copies, Copies(images, copies)
    PROVE  FinalRoles(x, now, Copied(images, copies)) \in ImageMaps
<1> DEFINE copied == Copied(images, copies)
           named == Named(x, copied)
           keys == {r.key : r \in named}
           given == [k \in keys |-> (CHOOSE r \in named : r.key = k).role]
           F == FinalRoles(x, now, copied)
<1>1. ASSUME NEW r \in copied PROVE r.key \in ObjectKeys /\ r.role \in Roles
  <2>1. PICK s \in images : r = [code |-> s.code, key |-> IF s.staged THEN copies[s.key] ELSE s.key,
                                 role |-> s.role]
    BY DEF Copied
  <2>2. r.key = (IF s.staged THEN copies[s.key] ELSE s.key) /\ r.role = s.role
    BY <2>1
  <2>3. s.staged => s.key \in Staged(images)
    BY DEF Staged
  <2> QED
    BY <2>2, <2>3 DEF ImageRows, Copies
<1> HIDE DEF copied
<1>2. keys \in SUBSET ObjectKeys /\ \A r \in named : r.role \in Roles
  BY <1>1 DEF Named
<1>3. F = Over(given, now)
  BY DEF FinalRoles, Named
<1> HIDE DEF named
<1>4. ASSUME NEW k \in keys PROVE given[k] \in Roles
  <2> DEFINE chosen == CHOOSE r \in named : r.key = k
  <2>1. chosen \in named
    OBVIOUS
  <2>2. given[k] = chosen.role
    OBVIOUS
  <2> HIDE DEF chosen
  <2> QED
    BY <1>2, <2>1, <2>2
<1>5. DOMAIN given = keys
  OBVIOUS
<1>6. DOMAIN now \in SUBSET ObjectKeys /\ now \in [DOMAIN now -> Roles]
  BY ImageMapIs
<1> HIDE DEF keys, given, F
<1>7. F \in [keys \cup DOMAIN now -> Roles]
  BY <1>3, <1>4, <1>5, <1>6 DEF Over
<1> QED
  BY <1>2, <1>6, <1>7, MakesImageMap DEF F, copied

\* The copies go beside the images of x, the other rows name one of them.
Placed(x, now, images, copies) ==
    /\ \A k \in Staged(images) : copies[k] \notin DOMAIN now
    /\ \A r \in images : r.code = x /\ ~r.staged => r.key \in DOMAIN now

\* ... and there are as many of each role as the validation counted.
LEMMA AppliedImagesCounted ==
    ASSUME NEW x, NEW now \in ImageMaps, NEW images \in ImageRows,
           NEW copies, Renames(images, copies), Placed(x, now, images, copies)
    PROVE  \A role : Count(FinalRoles(x, now, Copied(images, copies)), role)
                          = Count(FinalRoles(x, now, images), role)
<1> DEFINE A == FinalRoles(x, now, Copied(images, copies))
           F == FinalRoles(x, now, images)
           named == Named(x, images)
           key(r) == IF r.staged THEN copies[r.key] ELSE r.key
           after(r) == [code |-> r.code, key |-> key(r), role |-> r.role]
           copied == Named(x, Copied(images, copies))
<1>1. A \in ImageMaps
  BY AppliedImagesTyped DEF Renames
<1>2. Consistent(copied)
  BY CopiedRows DEF Consistent, Named
<1>3. \A r, s \in images : r.key = s.key => r = s
  BY DEF ImageRows
<1>4. /\ DOMAIN F = KeysOf(named) \cup DOMAIN now
      /\ \A r \in named : F[r.key] = r.role
      /\ \A k \in DOMAIN now : k \notin KeysOf(named) => F[k] = now[k]
  <2>1. Consistent(Named(x, images))
    BY <1>3 DEF Consistent, Named
  <2>2. GivesRoles(FinalRoles(x, now, images), Named(x, images), now)
    BY <2>1, FinalRolesIs
  <2> QED
    BY <2>2 DEF GivesRoles
<1>5. /\ DOMAIN A = KeysOf(copied) \cup DOMAIN now
      /\ \A r \in copied : A[r.key] = r.role
      /\ \A k \in DOMAIN now : k \notin KeysOf(copied) => A[k] = now[k]
  <2>1. GivesRoles(A, copied, now)
    BY <1>2, FinalRolesIs
  <2> QED
    BY <2>1 DEF GivesRoles
<1>6. /\ KeysOf(copied) = {key(r) : r \in named}
      /\ \A r \in named : \E s \in copied : s.key = key(r) /\ s.role = r.role
  <2>1. \A r : after(r).code = r.code /\ after(r).key = key(r) /\ after(r).role = r.role
    OBVIOUS
  <2>2. Copied(images, copies) = {after(r) : r \in images}
    BY DEF Copied
  <2> HIDE DEF key, after
  <2>3. copied = {after(r) : r \in named}
    BY <2>1, <2>2 DEF Named
  <2> HIDE DEF copied, named
  <2> QED
    BY <2>1, <2>3 DEF KeysOf
<1>7. /\ DOMAIN A = {key(r) : r \in named} \cup DOMAIN now
      /\ \A r \in named : A[key(r)] = r.role
      /\ \A k \in DOMAIN now : k \notin {key(r) : r \in named} => A[k] = now[k]
  <2> HIDE DEF A, copied, named, key
  <2>1. DOMAIN A = {key(r) : r \in named} \cup DOMAIN now
    BY <1>5, <1>6
  <2>2. \A r \in named : A[key(r)] = r.role
    BY <1>5, <1>6
  <2>3. \A k \in DOMAIN now : k \notin {key(r) : r \in named} => A[k] = now[k]
    BY <1>5, <1>6
  <2> QED
    BY <2>1, <2>2, <2>3
<1>8. \A k \in DOMAIN now : k \in ObjectKeys
  BY ImageMapIs
<1>9. \A r \in named : /\ r \in images
                       /\ r.staged => r.key \in Staged(images) /\ r.key \notin ObjectKeys
                       /\ r.staged => key(r) = copies[r.key] /\ key(r) \notin DOMAIN now
                       /\ ~r.staged => key(r) = r.key /\ key(r) \in DOMAIN now
  BY DEF ImageRows, Staged, Named, Placed
<1>10. \A r, s \in named : key(r) = key(s) => r = s
  <2>1. ASSUME NEW r \in named, NEW s \in named, key(r) = key(s) PROVE r.key = s.key
    <3> HIDE DEF named, key
    <3> QED
      BY <1>9, <2>1 DEF Renames, Copies
  <2> QED
    BY <1>3, <1>9, <2>1
<1> DEFINE origin(k) == CHOOSE r \in named : key(r) = k
           g == [k \in DOMAIN A |-> IF k \in DOMAIN now THEN k ELSE origin(k).key]
<1> HIDE DEF A, F, named, key
<1>11. ASSUME NEW k \in DOMAIN A, k \notin DOMAIN now
       PROVE  /\ origin(k) \in named /\ key(origin(k)) = k /\ origin(k).staged
              /\ g[k] = origin(k).key
  <2>1. \E r \in named : key(r) = k
    BY <1>7, <1>11
  <2>2. origin(k) \in named /\ key(origin(k)) = k
    BY <2>1
  <2>3. origin(k).staged
    BY <1>9, <1>11, <2>2
  <2> QED
    BY <1>11, <2>2, <2>3
<1>12. \A k \in DOMAIN now : k \in DOMAIN A /\ g[k] = k
  BY <1>7
<1> HIDE DEF g, origin
<1>13. ASSUME NEW k \in DOMAIN A PROVE g[k] \in DOMAIN F /\ F[g[k]] = A[k]
  <2>1. CASE k \notin DOMAIN now
    BY <1>4, <1>7, <1>11, <2>1 DEF KeysOf
  <2>2. CASE k \in DOMAIN now
    <3>1. g[k] = k /\ k \in DOMAIN F
      BY <1>4, <1>12, <2>2
    <3>2. ASSUME NEW r \in named, key(r) = k \/ r.key = k PROVE key(r) = k /\ r.key = k
      BY <1>8, <1>9, <2>2, <3>2
    <3>3. CASE \E r \in named : key(r) = k
      BY <1>4, <1>7, <3>1, <3>2, <3>3
    <3>4. CASE ~\E r \in named : key(r) = k
      <4>1. k \notin KeysOf(named) /\ k \notin {key(r) : r \in named}
        BY <3>2, <3>4 DEF KeysOf
      <4> QED
        BY <1>4, <1>7, <2>2, <3>1, <4>1
    <3> QED
      BY <3>3, <3>4
  <2> QED
    BY <2>1, <2>2
<1>14. ASSUME NEW k \in DOMAIN A, NEW l \in DOMAIN A, g[k] = g[l] PROVE k = l
  <2>1. CASE k \in DOMAIN now /\ l \in DOMAIN now
    BY <1>12, <1>14, <2>1
  <2>2. CASE k \in DOMAIN now /\ l \notin DOMAIN now
    BY <1>8, <1>9, <1>11, <1>12, <1>14, <2>2
  <2>3. CASE k \notin DOMAIN now /\ l \in DOMAIN now
    BY <1>8, <1>9, <1>11, <1>12, <1>14, <2>3
  <2>4. CASE k \notin DOMAIN now /\ l \notin DOMAIN now
    <3>1. origin(k) \in images /\ origin(l) \in images /\ origin(k).key = origin(l).key
      BY <1>9, <1>11, <1>14, <2>4
    <3>2. origin(k) = origin(l)
      BY <1>3, <3>1
    <3> QED
      BY <1>11, <2>4, <3>2
  <2> QED
    BY <2>1, <2>2, <2>3, <2>4
<1>15. ASSUME NEW k \in DOMAIN F PROVE \E l \in DOMAIN A : g[l] = k
  <2>1. CASE k \in DOMAIN now
    BY <1>12, <2>1
  <2>2. CASE k \notin DOMAIN now
    <3>1. PICK r \in named : r.key = k
      BY <1>4, <2>2 DEF KeysOf
    <3>2. r.staged /\ key(r) \in DOMAIN A /\ key(r) \notin DOMAIN now
      BY <1>7, <1>9, <2>2, <3>1
    <3>3. origin(key(r)) = r
      BY <1>10, <1>11, <3>2
    <3> QED
      BY <1>11, <3>1, <3>2, <3>3
  <2> QED
    BY <2>1, <2>2
<1>16. g \in [DOMAIN A -> DOMAIN F]
  BY <1>13 DEF g
<1>17. \A role : Count(A, role) = Count(F, role)
  BY <1>1, <1>13, <1>14, <1>15, <1>16, SameCount
<1> QED
  BY <1>17 DEF A, F

-----------------------------------------------------------------------------
(* The category tree                                                         *)

Tables == [Categories -> Category \cup {None, Gone}]

Closed(table, S) ==
    /\ S \in SUBSET Categories
    /\ \A d \in S \cap Stored(table) : table[d].parent \in S \cup {None}

LEMMA StoredCategory ==
    ASSUME NEW table \in Tables
    PROVE  /\ Stored(table) \in SUBSET Categories
           /\ \A c \in Stored(table) : table[c] \in Category /\ table[c].parent \in Categories \cup {None}
           /\ None \notin Categories
  BY CatalogAssumption DEF Tables, Stored, Category

\* Above is the least closed set.
LEMMA AboveIs ==
    ASSUME NEW table \in Tables, NEW c \in Categories
    PROVE  /\ c \in Above(table, c) /\ Closed(table, Above(table, c))
           /\ \A S : Closed(table, S) /\ c \in S => Above(table, c) \subseteq S
<1>1. Above(table, c) = {d \in Categories : \A S : Closed(table, S) /\ c \in S => d \in S}
  BY DEF Above, Closed
<1> DEFINE up == {d \in Categories : \A S : Closed(table, S) /\ c \in S => d \in S}
<1>2. c \in up /\ \A S : Closed(table, S) /\ c \in S => up \subseteq S
  OBVIOUS
<1>3. ASSUME NEW d \in up \cap Stored(table), table[d].parent # None PROVE table[d].parent \in up
  <2>1. table[d].parent \in Categories
    BY <1>3, StoredCategory
  <2>2. ASSUME NEW S, Closed(table, S), c \in S PROVE table[d].parent \in S
    BY <1>3, <2>2 DEF Closed
  <2> QED
    BY <2>1, <2>2
<1>4. Closed(table, up)
  BY <1>3 DEF Closed
<1> QED
  BY <1>1, <1>2, <1>4

\* In a tree, all that is above a stored category is stored.
LEMMA AboveIsStored ==
    ASSUME NEW table \in Tables, IsTree(table), NEW c \in Categories
    PROVE  Above(table, c) \subseteq Stored(table) \cup {c}
<1>1. Closed(table, Stored(table) \cup {c})
  BY StoredCategory DEF Closed, IsTree
<1> QED
  BY <1>1, AboveIs

LEMMA TreeGrows ==
    ASSUME NEW table \in Tables, IsTree(table), NEW c \in Categories, table[c] = None,
           NEW row \in Category, row.parent # None => row.parent \in Stored(table),
           NEW grown, grown = [table EXCEPT ![c] = row]
    PROVE  /\ grown \in Tables /\ IsTree(grown)
           /\ \A b \in Categories : table[b] # None => Above(grown, b) \subseteq Above(table, b)
<1>1. grown \in Tables
  BY DEF Tables
<1>2. Stored(grown) = Stored(table) \cup {c} /\ c \notin Stored(table) /\ grown[c] = row
      /\ \A d \in Stored(table) : grown[d] = table[d]
  BY CatalogAssumption DEF Tables, Stored
<1>3. ASSUME NEW b \in Categories, table[b] # None PROVE Above(grown, b) \subseteq Above(table, b)
  <2>1. c \notin Above(table, b)
    BY <1>2, <1>3, AboveIsStored
  <2>2. Closed(table, Above(table, b)) /\ b \in Above(table, b)
    BY AboveIs
  <2>3. Closed(grown, Above(table, b))
    BY <1>2, <2>1, <2>2 DEF Closed
  <2> QED
    BY <1>1, <2>2, <2>3, AboveIs
<1>4. ASSUME NEW d \in Stored(grown), grown[d].parent # None
      PROVE  grown[d].parent \in Stored(grown) /\ d \notin Above(grown, grown[d].parent)
  <2> DEFINE e == grown[d].parent
  <2>1. e \in Stored(table) /\ d \notin Above(table, e)
    <3>1. CASE d = c
      <4>1. e \in Stored(table)
        BY <1>2, <1>4, <3>1
      <4>2. c \notin Above(table, e)
        BY <1>2, <4>1, AboveIsStored, StoredCategory
      <4> QED
        BY <3>1, <4>1, <4>2
    <3>2. CASE d # c
      <4>1. d \in Stored(table) /\ grown[d] = table[d]
        BY <1>2, <3>2
      <4> QED
        BY <1>4, <4>1 DEF IsTree
    <3> QED
      BY <3>1, <3>2
  <2> HIDE DEF e
  <2>2. e \in Categories /\ table[e] # None
    BY <2>1, StoredCategory DEF Stored
  <2> QED
    BY <1>2, <1>3, <2>1, <2>2 DEF e
<1> QED
  BY <1>1, <1>3, <1>4 DEF IsTree

LEMMA TreeShrinks ==
    ASSUME NEW table \in Tables, IsTree(table), NEW c \in Stored(table),
           \A d \in Stored(table) : table[d].parent # c,
           NEW shrunk, shrunk = [table EXCEPT ![c] = Gone]
    PROVE  /\ shrunk \in Tables /\ IsTree(shrunk)
           /\ \A b \in Categories : Above(shrunk, b) \subseteq Above(table, b)
<1>1. shrunk \in Tables
  BY DEF Tables
<1>2. Stored(shrunk) = Stored(table) \ {c} /\ \A d \in Stored(shrunk) : shrunk[d] = table[d]
  BY CatalogAssumption DEF Tables, Stored
<1>3. ASSUME NEW b \in Categories PROVE Above(shrunk, b) \subseteq Above(table, b)
  <2>1. Closed(table, Above(table, b)) /\ b \in Above(table, b)
    BY AboveIs
  <2>2. Closed(shrunk, Above(table, b))
    BY <1>2, <2>1 DEF Closed
  <2> QED
    BY <1>1, <2>1, <2>2, AboveIs
<1>4. ASSUME NEW d \in Stored(shrunk), shrunk[d].parent # None
      PROVE  shrunk[d].parent \in Stored(shrunk) /\ d \notin Above(shrunk, shrunk[d].parent)
  <2> DEFINE e == shrunk[d].parent
  <2>1. d \in Stored(table) /\ e = table[d].parent /\ e # c
    BY <1>2
  <2>2. e \in Stored(table) /\ d \notin Above(table, e)
    BY <1>4, <2>1 DEF IsTree
  <2> HIDE DEF e
  <2> QED
    BY <1>2, <1>3, <2>1, <2>2, StoredCategory DEF e
<1> QED
  BY <1>1, <1>3, <1>4 DEF IsTree

\* A category is moved under one it is not above.
LEMMA TreeMoves ==
    ASSUME NEW table \in Tables, IsTree(table), NEW c \in Stored(table),
           NEW row \in Category,
           row.parent # None => row.parent \in Stored(table) /\ c \notin Above(table, row.parent),
           NEW moved, moved = [table EXCEPT ![c] = row]
    PROVE  moved \in Tables /\ IsTree(moved) /\ Stored(moved) = Stored(table)
<1> DEFINE to == row.parent
<1>1. moved \in Tables
  BY DEF Tables
<1>2. Stored(moved) = Stored(table) /\ moved[c] = row /\ \A d \in Stored(table) \ {c} : moved[d] = table[d]
  BY CatalogAssumption DEF Tables, Stored
<1>3. to \in Categories \cup {None}
  BY DEF Category
<1>4. ASSUME to # None
      PROVE  c \notin Above(table, to) /\ to \in Above(table, to) /\ Closed(table, Above(table, to))
  BY <1>3, <1>4, AboveIs
<1>5. ASSUME NEW d \in Stored(moved), moved[d].parent # None
      PROVE  moved[d].parent \in Stored(moved) /\ d \notin Above(moved, moved[d].parent)
  <2> DEFINE e == moved[d].parent
             up == Above(table, e)
  <2>1. CASE d = c
    <3>1. e = to /\ to \in Stored(table) /\ to \in Categories /\ c \notin up
      BY <1>2, <1>3, <1>5, <2>1
    <3>2. Closed(table, up) /\ e \in up
      BY <1>4, <1>5, <3>1
    <3>3. Closed(moved, up)
      BY <1>2, <3>1, <3>2 DEF Closed
    <3>4. Above(moved, e) \subseteq up
      <4> HIDE DEF up, e
      <4> QED
        BY <1>1, <3>1, <3>2, <3>3, AboveIs
    <3> QED
      BY <1>2, <2>1, <3>1, <3>4
  <2>2. CASE d # c
    <3>1. d \in Stored(table) /\ e = table[d].parent
      BY <1>2, <2>2
    <3>2. e \in Stored(table) /\ d \notin up
      BY <1>5, <3>1 DEF IsTree
    <3>3. e \in Categories
      BY <3>2, StoredCategory
    <3> HIDE DEF e
    <3>4. Closed(table, up) /\ e \in up
      BY <3>3, AboveIs
    <3>5. CASE c \notin up
      <4>1. Closed(moved, up)
        BY <1>2, <3>4, <3>5 DEF Closed
      <4>2. Above(moved, e) \subseteq up
        <5> HIDE DEF up
        <5> QED
          BY <1>1, <3>3, <3>4, <4>1, AboveIs
      <4> QED
        BY <1>2, <3>2, <4>2 DEF e
    <3>6. CASE c \in up
      <4> DEFINE above == IF to = None THEN {} ELSE Above(table, to)
      <4>1. Closed(table, above) /\ c \notin above /\ (to # None => to \in above)
        BY <1>4 DEF Closed
      <4> HIDE DEF above
      <4>2. Closed(moved, up \cup above)
        BY <1>2, <3>4, <4>1 DEF Closed
      <4>3. Above(moved, e) \subseteq up \cup above
        <5> HIDE DEF up
        <5> QED
          BY <1>1, <3>3, <3>4, <4>2, AboveIs
      <4>4. d \notin above
        <5>1. SUFFICES ASSUME d \in above PROVE FALSE
          OBVIOUS
        <5>2. e \in above
          BY <3>1, <3>2, <3>3, <4>1, <5>1, StoredCategory DEF Closed
        <5>3. up \subseteq above
          BY <3>3, <4>1, <5>2, AboveIs
        <5> QED
          BY <3>6, <4>1, <5>3
      <4> QED
        BY <1>2, <3>2, <4>3, <4>4 DEF e
    <3> QED
      BY <3>5, <3>6
  <2> QED
    BY <2>1, <2>2
<1> QED
  BY <1>1, <1>2, <1>5 DEF IsTree

-----------------------------------------------------------------------------
(* Rows                                                                      *)

LEMMA ProductIs ==
    ASSUME NEW row \in Product
    PROVE  /\ row.status \in Statuses /\ row.category \in Categories /\ row.document \in Documents
           /\ row.skus \in Seq(Sku) /\ row.images \in ImageMaps
           /\ DOMAIN row = {"status", "category", "document", "skus", "images"}
  BY DEF Product

\* The fields a request sets over those of the stored row.
LEMMA UpdatedFields ==
    ASSUME NEW x, NEW row \in Product, NEW change \in ProductChanges
    PROVE  LET result == Updated(x, row, change) IN
           /\ result = [status |-> result.status, category |-> result.category,
                        document |-> result.document, skus |-> result.skus, images |-> result.images]
           /\ result.status \in Statuses /\ result.category \in Categories
           /\ result.document \in Documents /\ result.images = row.images
           /\ result.skus = IF "skus" \in DOMAIN change THEN SyncedSkus(x, change.skus) ELSE row.skus
           /\ result.category = IF "category" \in DOMAIN change THEN change.category ELSE row.category
<1> DEFINE skus == IF "skus" \in DOMAIN change THEN SyncedSkus(x, change.skus) ELSE row.skus
           result == Over([skus |-> skus], Over(change, row))
<1>1. result = Updated(x, row, change)
  BY DEF Updated
<1>2. /\ DOMAIN change \subseteq {"status", "category", "document", "skus"}
      /\ "status" \in DOMAIN change => change.status \in Statuses
      /\ "category" \in DOMAIN change => change.category \in Categories
      /\ "document" \in DOMAIN change => change.document \in Documents
  BY CatalogInputsAssumption
<1>3. /\ row.status \in Statuses /\ row.category \in Categories /\ row.document \in Documents
      /\ DOMAIN row = {"status", "category", "document", "skus", "images"}
  BY ProductIs
<1> HIDE DEF skus
<1>4. DOMAIN result = {"status", "category", "document", "skus", "images"}
  BY <1>2, <1>3 DEF Over
<1>5. result.skus = skus /\ result.images = row.images
  BY <1>2, <1>3 DEF Over
<1>6. /\ result.status = IF "status" \in DOMAIN change THEN change.status ELSE row.status
      /\ result.category = IF "category" \in DOMAIN change THEN change.category ELSE row.category
      /\ result.document = IF "document" \in DOMAIN change THEN change.document ELSE row.document
  BY <1>2, <1>3 DEF Over
<1>7. result = [k \in DOMAIN result |-> result[k]]
  BY DEF Over
<1> HIDE DEF result
<1>8. result = [status |-> result.status, category |-> result.category,
                document |-> result.document, skus |-> result.skus, images |-> result.images]
  BY <1>4, <1>7
<1> QED
  BY <1>1, <1>2, <1>3, <1>5, <1>6, <1>8 DEF skus

\* An update that is accepted results in a row with one active default.
LEMMA UpdatedIs ==
    ASSUME NEW x \in Products, NEW row \in Product, NEW change \in ProductChanges,
           Updated(x, row, change).skus # Refused,
           Cardinality(ActiveDefaults(row.skus)) = 1
    PROVE  /\ Updated(x, row, change) \in Product
           /\ Updated(x, row, change).images = row.images
           /\ Cardinality(ActiveDefaults(Updated(x, row, change).skus)) = 1
           /\ Updated(x, row, change).category =
                 IF "category" \in DOMAIN change THEN change.category ELSE row.category
           /\ Updated(x, row, change).skus =
                 IF "skus" \in DOMAIN change THEN SyncedSkus(x, change.skus) ELSE row.skus
           /\ "document" \notin DOMAIN change => Updated(x, row, change).document = row.document
<1> DEFINE result == Updated(x, row, change)
<1>1. /\ result = [status |-> result.status, category |-> result.category,
                   document |-> result.document, skus |-> result.skus, images |-> result.images]
      /\ result.status \in Statuses /\ result.category \in Categories
      /\ result.document \in Documents /\ result.images = row.images
      /\ result.skus = IF "skus" \in DOMAIN change THEN SyncedSkus(x, change.skus) ELSE row.skus
      /\ result.category = IF "category" \in DOMAIN change THEN change.category ELSE row.category
  BY UpdatedFields
<1>2. result.skus \in Seq(Sku) /\ Cardinality(ActiveDefaults(result.skus)) = 1
  <2>1. CASE "skus" \in DOMAIN change
    <3>1. change.skus \in Seq(Sku)
      BY <2>1, CatalogInputsAssumption
    <3> QED
      BY <1>1, <2>1, <3>1, SyncedIs
  <2>2. CASE "skus" \notin DOMAIN change
    BY <1>1, <2>2, ProductIs
  <2> QED
    BY <2>1, <2>2
<1>3. row.images \in ImageMaps
  BY ProductIs
<1>4. "document" \notin DOMAIN change => result.document = row.document
  <2>1. DOMAIN change \subseteq {"status", "category", "document", "skus"}
    BY CatalogInputsAssumption
  <2>2. DOMAIN row = {"status", "category", "document", "skus", "images"}
    BY ProductIs
  <2> QED
    BY <2>1, <2>2 DEF Updated, Over
<1> HIDE DEF result
<1>5. result \in Product
  BY <1>1, <1>2, <1>3 DEF Product
<1> QED
  BY <1>1, <1>2, <1>4, <1>5 DEF result

\* A workbook as CatalogImportAssumption has it.
LEMMA WorkbookIs ==
    ASSUME NEW req \in Imports
    PROVE  /\ Affected(req.workbook) \subseteq Products
           /\ DOMAIN req.workbook.rows \subseteq Affected(req.workbook)
           /\ DOMAIN req.workbook.skus \subseteq Affected(req.workbook)
           /\ \A r \in req.workbook.images : r.code \in Affected(req.workbook)
           /\ \A x \in DOMAIN req.workbook.rows :
                 req.workbook.rows[x] \in [status : Statuses, category : Categories, document : Documents]
           /\ \A x \in DOMAIN req.workbook.skus : req.workbook.skus[x] \in Seq(Sku)
           /\ req.workbook.images \in ImageRows
           /\ req.dry \in BOOLEAN
<1> DEFINE w == req.workbook
<1>1. /\ req.dry \in BOOLEAN
      /\ Affected(w) \subseteq Products
      /\ \A x \in DOMAIN w.rows :
            w.rows[x] \in [status : Statuses, category : Categories, document : Documents]
      /\ \A x \in DOMAIN w.skus : w.skus[x] \in Seq(Sku)
      /\ \A r \in w.images :
            /\ r.role \in Roles /\ r.staged \in BOOLEAN
            /\ r.staged => r.key \notin ObjectKeys
            /\ \A other \in w.images : other.key = r.key => other = r
  BY CatalogImportAssumption
<1>2. w.images \in ImageRows
  BY <1>1 DEF ImageRows
<1>3. /\ DOMAIN w.rows \subseteq Affected(w) /\ DOMAIN w.skus \subseteq Affected(w)
      /\ \A r \in w.images : r.code \in Affected(w)
  BY DEF Affected
<1> QED
  BY <1>1, <1>2, <1>3

LEMMA FinalRowIs ==
    ASSUME NEW req \in Imports, NEW seen \in Product \cup {None},
           NEW x \in DOMAIN req.workbook.rows \cup DOMAIN req.workbook.skus,
           x \notin DOMAIN req.workbook.rows => seen # None,
           FinalRow(x, seen, req.workbook).skus # Refused
    PROVE  /\ FinalRow(x, seen, req.workbook) \in Product
           /\ Cardinality(ActiveDefaults(FinalRow(x, seen, req.workbook).skus)) = 1
           /\ FinalRow(x, seen, req.workbook).status =
                 IF x \in DOMAIN req.workbook.rows THEN req.workbook.rows[x].status ELSE seen.status
<1> DEFINE w == req.workbook
           stored == IF seen = None THEN [skus |-> <<>>, images |-> <<>>] ELSE seen
           incoming == IF x \in DOMAIN w.skus THEN w.skus[x] ELSE <<>>
           skus == FinalSkus(x, stored.skus, incoming)
           result == FinalRow(x, seen, w)
<1>1. x \in Products
  BY WorkbookIs
<1>2. stored.skus \in Seq(Sku) /\ stored.images \in ImageMaps
  BY ProductIs, NoImages
<1>3. incoming \in Seq(Sku)
  BY WorkbookIs
<1>4. CASE x \in DOMAIN w.rows
  <2> DEFINE row == w.rows[x]
             fixed == [skus |-> skus, images |-> stored.images]
  <2>1. row.status \in Statuses /\ row.category \in Categories /\ row.document \in Documents
        /\ DOMAIN row = {"status", "category", "document"}
    BY <1>4, WorkbookIs
  <2>2. result = Over(fixed, row)
    BY <1>4 DEF FinalRow
  <2> HIDE DEF row, result, skus, stored
  <2>3. DOMAIN result = {"status", "category", "document", "skus", "images"}
    BY <2>1, <2>2 DEF Over
  <2>4. result.skus = skus /\ result.images = stored.images
    BY <2>1, <2>2 DEF Over
  <2>5. result.status = row.status /\ result.category = row.category /\ result.document = row.document
    BY <2>1, <2>2 DEF Over
  <2>6. result = [k \in DOMAIN result |-> result[k]]
    BY <2>2 DEF Over
  <2>7. result = [status |-> result.status, category |-> result.category,
                  document |-> result.document, skus |-> result.skus, images |-> result.images]
    BY <2>3, <2>6
  <2>8. skus # Refused
    BY <2>4 DEF result
  <2>9. skus \in Seq(Sku) /\ Cardinality(ActiveDefaults(skus)) = 1
    BY <1>1, <1>2, <1>3, <2>8, FinalSkusIs DEF skus
  <2>10. result \in Product
    BY <1>2, <2>1, <2>4, <2>5, <2>7, <2>9 DEF Product
  <2> QED
    BY <1>4, <2>4, <2>5, <2>9, <2>10 DEF result, row
<1>5. CASE x \notin DOMAIN w.rows
  <2>1. seen \in Product /\ stored = seen
    BY <1>5
  <2>2. result = [seen EXCEPT !.skus = skus]
    <3>1. x \in DOMAIN w.skus
      BY <1>5
    <3> QED
      BY <1>5, <2>1, <3>1 DEF FinalRow
  <2> HIDE DEF skus, result, stored
  <2>3. result.skus = skus /\ result.status = seen.status
    BY <2>1, <2>2, ProductIs
  <2>4. skus # Refused
    BY <2>3 DEF result
  <2>5. skus \in Seq(Sku) /\ Cardinality(ActiveDefaults(skus)) = 1
    BY <1>1, <1>2, <1>3, <2>4, FinalSkusIs DEF skus
  <2>6. result \in Product
    BY <2>1, <2>2, <2>5 DEF Product
  <2> QED
    BY <1>5, <2>3, <2>5, <2>6 DEF result
<1> QED
  BY <1>4, <1>5

-----------------------------------------------------------------------------
(* The invariant. A call between its locking statement and its commit holds   *)
(* the rows it selected; what it validated is still true of them, because a   *)
(* row is changed by its holder only. What an import found absent stays absent *)
(* when no product is created behind its locks.                              *)

Reparenting == {"category_lock", "category_commit"}
Importing == {"import_insert", "import_parse", "import_lock", "import_reparse", "import_select"}
Running == {"import_parse", "import_lock", "import_reparse", "import_select"}
Ahead == {"import_lock", "import_reparse", "import_select"}
Locking == {"category_commit", "category_delete", "product_commit", "product_delete",
            "image_commit", "image_delete", "import_reparse", "import_select"}

IsCall(c) == c = [pc |-> c.pc, req |-> c.req, rows |-> c.rows, seen |-> c.seen, job |-> c.job]

RequestFits(c) ==
    /\ c.pc = "category_create" => c.req \in [code : Categories, parent : Categories \cup {None}]
    /\ c.pc \in Reparenting => c.req \in [code : Categories, change : CategoryChanges]
    /\ c.pc = "category_delete" => c.req \in [code : Categories]
    /\ c.pc = "product_create" => c.req \in [code : Products, row : Product]
    /\ c.pc = "product_commit" => c.req \in [code : Products, change : ProductChanges]
    /\ c.pc = "product_delete" => c.req \in [code : Products]
    /\ c.pc \in {"image_lock", "image_commit"} => c.req \in [code : Products, role : Roles]
    /\ c.pc = "image_delete" => c.req \in [code : Products, key : ObjectKeys]
    /\ c.pc \in Importing => c.req \in Imports

\* The rows that a statement selected: a product is among them until it is deleted.
RowsFit(c) ==
    /\ c.rows \subseteq Categories \cup Products
    /\ \A r \in c.rows \cap Categories : categories[r] # None
    /\ \A r \in c.rows \cap Products : products[r] # None
    /\ c.pc \in Reparenting \cup {"category_delete"} => c.req.code \in c.rows
    /\ c.pc \in {"product_commit", "product_delete", "image_commit", "image_delete"} =>
          c.req.code \in c.rows
    /\ c.pc = "image_lock" => c.rows \subseteq {c.req.code}

Holding(p) == calls[p].pc \in Locking => \A r \in calls[p].rows : locks[r] = p

\* Of two re-parentings one selected every row of the other that is still stored.
Nested == \A p, q \in Procs :
    calls[p].pc \in Reparenting /\ calls[q].pc \in Reparenting =>
        \/ calls[p].rows \cap Stored(categories) \subseteq calls[q].rows
        \/ calls[q].rows \cap Stored(categories) \subseteq calls[p].rows

CategoryCall(c) ==
    /\ c.pc = "category_commit" =>
          /\ c.req.code \in Stored(categories)
          /\ "parent" \in DOMAIN c.req.change /\ c.req.change.parent # None =>
                /\ categories[c.req.change.parent] # None
                /\ c.req.code \notin Above(categories, c.req.change.parent)
    /\ c.pc = "category_delete" => c.req.code \in Stored(categories) /\ ~InUse(c.req.code)

CoverIfPublished(row) == row.status = "published" => Count(row.images, "cover") = 1

\* The row that a request decided to store.
Decided(row) == row \in Product /\ SkusMatch(row) /\ CoverIfPublished(row)

ProductCall(c) ==
    /\ c.pc = "product_create" => Decided(c.req.row) /\ c.req.row.images = <<>>
    /\ c.pc = "product_commit" => Decided(Updated(c.req.code, products[c.req.code], c.req.change))
    /\ c.pc = "product_delete" => products[c.req.code].status # "published"
    /\ c.pc = "image_commit" => HasCapacity(products[c.req.code].images, c.req.role)
    /\ c.pc = "image_delete" =>
          /\ c.req.key \in DOMAIN products[c.req.code].images
          /\ ~(/\ products[c.req.code].status = "published"
               /\ products[c.req.code].images[c.req.key] = "cover")

\* What the second pass of an import computed can be stored, ...
Computed(c) ==
    LET w == c.req.workbook IN
    /\ c.seen \in [Affected(w) -> Product \cup {None}]
    /\ \A x \in DOMAIN w.rows \cup DOMAIN w.skus :
          /\ FinalRow(x, c.seen[x], w) \in Product /\ SkusMatch(FinalRow(x, c.seen[x], w))
          /\ x \notin DOMAIN w.rows => c.seen[x] # None
          /\ FinalRow(x, c.seen[x], w).status =
                IF x \in DOMAIN w.rows THEN w.rows[x].status ELSE c.seen[x].status
    /\ \A r \in w.images : ~r.staged => r.key \in ObjectKeys

\* ... and is about what is stored.
UpToDate(c) ==
    LET w == c.req.workbook IN
    /\ \A x \in Affected(w) : products[x] = c.seen[x] /\ ImagesParse(x, w)
    /\ \A r \in w.images : ~r.staged =>
          products[r.code] # None /\ r.key \in DOMAIN products[r.code].images

ImportCall(c) ==
    /\ c.pc \in Ahead /\ ~LateCreation =>
          \A x \in Affected(c.req.workbook) : products[x] # None => x \in c.rows
    /\ c.pc = "import_select" => Computed(c)
    /\ c.pc = "import_select" /\ ~LateCreation => UpToDate(c)

CallSound(p) ==
    /\ IsCall(calls[p]) /\ RequestFits(calls[p]) /\ RowsFit(calls[p]) /\ Holding(p)
    /\ CategoryCall(calls[p]) /\ ProductCall(calls[p]) /\ ImportCall(calls[p])

JobSound(j) ==
    /\ jobs[j].status = "completed" <=> jobs[j].applied = 1
    /\ jobs[j].applied \in {0, 1}
    /\ jobs[j].req.dry => jobs[j].applied = 0

OneJobPerKey == \A i, j \in Stored(jobs) :
    jobs[i].req.key # None /\ jobs[i].req.key = jobs[j].req.key => i = j

\* An import that runs has a job of its own, which it has not applied yet.
RunsJob(p) == calls[p].pc \in Running =>
    /\ calls[p].job \in Stored(jobs)
    /\ jobs[calls[p].job].req = calls[p].req
    /\ jobs[calls[p].job].applied = 0
    /\ calls[p].pc \in Ahead => ~calls[p].req.dry

OwnJobs == \A p, q \in Procs :
    calls[p].pc \in Running /\ calls[q].pc \in Running /\ p # q => calls[p].job # calls[q].job

JobsSound ==
    /\ \A j \in Stored(jobs) : JobSound(j)
    /\ OneJobPerKey
    /\ \A p \in Procs : RunsJob(p)
    /\ OwnJobs

IInv ==
    /\ TypeOK /\ calls = [p \in Procs |-> calls[p]]
    /\ \A p \in Procs : CallSound(p)
    /\ Nested
    /\ TreeIsAcyclic
    /\ SkusMatchSpecifications
    /\ ~LateCreation => ImageContract
    /\ JobsSound

-----------------------------------------------------------------------------
(* What a step of one thread leaves to the calls of the others               *)

Others(p) ==
    /\ calls' = [q \in Procs |-> calls'[q]]
    /\ \A q \in Procs \ {p} :
          /\ IsCall(calls[q])'
          /\ calls'[q].pc = calls[q].pc /\ calls'[q].req = calls[q].req
          /\ calls'[q].seen = calls[q].seen /\ calls'[q].job = calls[q].job
          /\ calls'[q].rows \subseteq calls[q].rows
          /\ \A r \in calls[q].rows \ calls'[q].rows :
                r \in Products /\ locks[r] = p /\ products'[r] = None

Keeps(p) == \A r \in Categories \cup Products : \A q \in Procs \ {p} :
    locks[r] = q => locks'[r] = q

\* No step deletes a published product.
Kept == \A x \in Products :
    products[x] # None /\ products[x].status = "published" => products'[x] # None

\* Products that another thread holds stay, products an import found absent too.
Writes(p) ==
    /\ Kept
    /\ \A x \in Products : \A q \in Procs \ {p} :
          locks[x] = q /\ products[x] # None => products'[x] = products[x]
    /\ \A x \in Products : \A q \in Procs \ {p} :
          x \in calls'[q].rows /\ products[x] # None => products'[x] # None
    /\ ~LateCreation => \A q \in Procs \ {p} : calls[q].pc \in Ahead =>
          \A x \in Affected(calls[q].req.workbook) : products[x] = None => products'[x] = None
    /\ \A c \in Categories : categories[c] # None => categories'[c] # None

LEMMA HeldProductStays ==
    ASSUME NEW p \in Procs, NEW q \in Procs \ {p}, CallSound(q), Others(p), Keeps(p), Writes(p),
           calls[q].pc \in Locking, NEW x \in calls[q].rows, x \in Products
    PROVE  /\ locks[x] = q /\ x \in calls'[q].rows
           /\ products[x] # None /\ products'[x] = products[x]
<1>1. locks[x] = q
  BY DEF CallSound, Holding
<1>2. products[x] # None
  BY DEF CallSound, RowsFit
<1>3. x \in calls'[q].rows
  BY <1>1 DEF Others
<1> QED
  BY <1>1, <1>2, <1>3 DEF Writes

LEMMA OthersRequest ==
    ASSUME NEW p \in Procs, NEW q \in Procs \ {p}, CallSound(q), Others(p)
    PROVE  IsCall(calls[q])' /\ RequestFits(calls[q])'
  BY DEF CallSound, Others, RequestFits, Reparenting, Importing

LEMMA OthersRows ==
    ASSUME NEW p \in Procs, NEW q \in Procs \ {p}, CallSound(q), Others(p), Keeps(p), Writes(p)
    PROVE  RowsFit(calls[q])' /\ Holding(q)'
<1>1. RowsFit(calls[q]) /\ Holding(q) /\ RequestFits(calls[q])
  BY DEF CallSound
<1>2. /\ calls'[q].pc = calls[q].pc /\ calls'[q].req = calls[q].req
      /\ calls'[q].rows \subseteq calls[q].rows
      /\ \A r \in calls[q].rows \ calls'[q].rows : r \in Products /\ locks[r] = p
  BY DEF Others
<1>3. calls'[q].rows \subseteq Categories \cup Products
  BY <1>1, <1>2 DEF RowsFit
<1>4. \A r \in calls'[q].rows \cap Categories : categories'[r] # None
  BY <1>1, <1>2 DEF RowsFit, Writes
<1>5. \A r \in calls'[q].rows \cap Products : products'[r] # None
  BY <1>1, <1>2 DEF RowsFit, Writes
<1>6. ASSUME calls'[q].pc \in Reparenting \cup {"category_delete"} PROVE calls'[q].req.code \in calls'[q].rows
  <2>1. calls[q].req.code \in calls[q].rows /\ calls[q].req.code \in Categories
    BY <1>1, <1>2, <1>6 DEF RowsFit, RequestFits, Reparenting
  <2> QED
    BY <1>2, <2>1, CatalogAssumption
<1>7. ASSUME calls'[q].pc \in {"product_commit", "product_delete", "image_commit", "image_delete"}
      PROVE  calls'[q].req.code \in calls'[q].rows
  <2>1. calls[q].req.code \in calls[q].rows /\ calls[q].req.code \in Products
    BY <1>1, <1>2, <1>7 DEF RowsFit, RequestFits
  <2>2. calls[q].pc \in Locking
    BY <1>2, <1>7 DEF Locking
  <2> QED
    BY <1>2, <2>1, <2>2, HeldProductStays
<1>8. calls'[q].pc = "image_lock" => calls'[q].rows \subseteq {calls'[q].req.code}
  BY <1>1, <1>2 DEF RowsFit
<1>9. Holding(q)'
  BY <1>1, <1>2, <1>3 DEF Holding, Keeps
<1> QED
  BY <1>3, <1>4, <1>5, <1>6, <1>7, <1>8, <1>9 DEF RowsFit

LEMMA OthersProductCall ==
    ASSUME NEW p \in Procs, NEW q \in Procs \ {p}, CallSound(q), Others(p), Keeps(p), Writes(p)
    PROVE  ProductCall(calls[q])'
<1>1. calls'[q].pc = calls[q].pc /\ calls'[q].req = calls[q].req
  BY DEF Others
<1>2. ProductCall(calls[q]) /\ RequestFits(calls[q]) /\ RowsFit(calls[q])
  BY DEF CallSound
<1>3. CASE calls[q].pc \in {"product_commit", "product_delete", "image_commit", "image_delete"}
  <2>1. calls[q].req.code \in calls[q].rows /\ calls[q].req.code \in Products
    BY <1>2, <1>3 DEF RowsFit, RequestFits
  <2>2. calls[q].pc \in Locking
    BY <1>3 DEF Locking
  <2>3. products'[calls[q].req.code] = products[calls[q].req.code]
    BY <2>1, <2>2, HeldProductStays
  <2> QED
    BY <1>1, <1>2, <1>3, <2>3 DEF ProductCall
<1>4. CASE calls[q].pc \notin {"product_commit", "product_delete", "image_commit", "image_delete"}
  BY <1>1, <1>2, <1>4 DEF ProductCall
<1> QED
  BY <1>3, <1>4

LEMMA OthersImportCall ==
    ASSUME NEW p \in Procs, NEW q \in Procs \ {p}, CallSound(q), Others(p), Keeps(p), Writes(p)
    PROVE  ImportCall(calls[q])'
<1> DEFINE c == calls[q]
<1>1. /\ calls'[q].pc = c.pc /\ calls'[q].req = c.req /\ calls'[q].seen = c.seen
      /\ calls'[q].rows \subseteq c.rows
      /\ \A r \in c.rows \ calls'[q].rows : r \in Products /\ locks[r] = p /\ products'[r] = None
  BY DEF Others
<1>2. ImportCall(c) /\ RequestFits(c)
  BY DEF CallSound
<1>3. c.pc = "import_select" => Computed(c)'
  BY <1>1, <1>2 DEF ImportCall, Computed
<1>4. ASSUME c.pc \in Ahead, ~LateCreation, NEW x \in Affected(c.req.workbook), products'[x] # None
      PROVE  x \in calls'[q].rows
  <2>1. products[x] # None
    BY <1>4 DEF Writes
  <2>2. x \in c.rows
    BY <1>2, <1>4, <2>1 DEF ImportCall
  <2> QED
    BY <1>1, <1>4, <2>2
<1>5. ASSUME c.pc = "import_select", ~LateCreation PROVE UpToDate(c)'
  <2>1. c.pc \in Ahead /\ c.pc \in Locking /\ c.req \in Imports
    BY <1>2, <1>5 DEF Ahead, Locking, RequestFits, Importing
  <2>2. ASSUME NEW x \in Affected(c.req.workbook) PROVE products'[x] = products[x]
    <3>1. x \in Products
      BY <2>1, WorkbookIs
    <3>2. CASE products[x] = None
      BY <1>5, <2>1, <3>2 DEF Writes
    <3>3. CASE products[x] # None
      <4>1. x \in c.rows
        BY <1>2, <1>5, <2>1, <3>3 DEF ImportCall
      <4> QED
        BY <2>1, <3>1, <4>1, HeldProductStays
    <3> QED
      BY <3>2, <3>3
  <2>3. UpToDate(c)
    BY <1>2, <1>5 DEF ImportCall
  <2>4. \A r \in c.req.workbook.images : r.code \in Affected(c.req.workbook)
    BY <2>1, WorkbookIs
  <2>5. \A x \in Affected(c.req.workbook) : products'[x] = c.seen[x] /\ ImagesParse(x, c.req.workbook)'
    BY <1>1, <2>2, <2>3 DEF UpToDate, ImagesParse, RolesAfter
  <2>6. \A r \in c.req.workbook.images : ~r.staged =>
            products'[r.code] # None /\ r.key \in DOMAIN products'[r.code].images
    BY <2>2, <2>3, <2>4 DEF UpToDate
  <2> QED
    BY <1>1, <2>5, <2>6 DEF UpToDate
<1> QED
  BY <1>1, <1>3, <1>4, <1>5 DEF ImportCall

\* A reference to a category that is held is not made.
References(p) == \A x \in Products : products'[x] # None =>
    \/ products[x] # None /\ products'[x].category = products[x].category
    \/ locks[products'[x].category] \in {None, p}

LEMMA OthersCategoryCall ==
    ASSUME NEW p \in Procs, NEW q \in Procs \ {p}, CallSound(q), Others(p),
           UNCHANGED categories, References(p), TypeOK, TypeOK'
    PROVE  CategoryCall(calls[q])'
<1>1. calls'[q].pc = calls[q].pc /\ calls'[q].req = calls[q].req
  BY DEF Others
<1>2. CategoryCall(calls[q]) /\ RequestFits(calls[q]) /\ RowsFit(calls[q]) /\ Holding(q)
  BY DEF CallSound
<1>3. ASSUME calls[q].pc = "category_delete" PROVE ~InUse(calls[q].req.code)'
  <2>0. PICK c \in Categories : c = calls[q].req.code
    BY <1>2, <1>3 DEF RequestFits
  <2>1. locks[c] = q /\ ~InUse(c)
    BY <1>2, <1>3, <2>0 DEF RowsFit, Holding, Locking, CategoryCall
  <2>2. q # None /\ q # p
    BY CatalogAssumption
  <2>3. ASSUME NEW x \in Products, products'[x] # None, products'[x].category = c PROVE FALSE
    <3>1. locks[products'[x].category] = q
      BY <2>1, <2>3
    <3>2. products[x] # None /\ products[x].category = c
      BY <2>2, <2>3, <3>1 DEF References
    <3>3. x \in Stored(products)
      BY <3>2, CatalogAssumption DEF TypeOK, Stored
    <3> QED
      BY <2>1, <3>2, <3>3 DEF InUse
  <2>4. Stored(products)' \subseteq Products /\ \A x \in Stored(products)' : products'[x] # None
    BY DEF TypeOK, Stored
  <2>5. ~InUse(c)'
    BY <2>1, <2>3, <2>4 DEF InUse
  <2> QED
    BY <1>1, <2>0, <2>5
<1>4. calls[q].pc = "category_delete" => calls[q].req.code \in Stored(categories)'
  BY <1>2 DEF CategoryCall
<1> QED
  BY <1>1, <1>2, <1>3, <1>4 DEF CategoryCall

\* How a step of p may change the rows it selected for a re-parenting.
Selects(p) == calls'[p].pc \in Reparenting =>
    \/ calls[p].pc \in Reparenting /\ calls'[p].rows = calls[p].rows
    \/ calls'[p].rows = Stored(categories)'

LEMMA NestedStays ==
    ASSUME IInv, NEW p \in Procs, Others(p), Selects(p), TypeOK',
           \A c \in Categories : c \in Stored(categories)' /\ categories[c] # None =>
               c \in Stored(categories)
    PROVE  Nested'
<1> DEFINE is(q) == calls[q].pc \in Reparenting
           known(q) == calls[q].rows \cap Stored(categories)
<1>1. \A q \in Procs : RowsFit(calls[q])
  BY DEF IInv, CallSound
<1>2. Categories \cap Products = {} /\ Stored(categories)' \in SUBSET Categories
  BY CatalogAssumption DEF TypeOK, Stored
<1>3. ASSUME NEW q \in Procs \ {p}, is(q)'
      PROVE  /\ is(q) /\ known(q)' \subseteq known(q)
             /\ \A r \in Categories : r \in calls[q].rows => r \in calls'[q].rows
  BY <1>1, <1>2, <1>3 DEF Others, RowsFit
<1>4. ASSUME NEW q \in Procs, NEW r \in Procs, is(q)', is(r)'
      PROVE  known(q)' \subseteq calls'[r].rows \/ known(r)' \subseteq calls'[q].rows
  <2>1. CASE q # p /\ r # p
    BY <1>2, <1>3, <1>4, <2>1 DEF IInv, Nested
  <2>2. CASE q = r
    BY <2>2
  <2>3. CASE q = p /\ r # p
    <3>1. CASE calls[p].pc \in Reparenting /\ calls'[p].rows = calls[p].rows
      <4>1. known(p)' \subseteq known(p)
        BY <1>1, <1>2, <3>1 DEF RowsFit
      <4> QED
        BY <1>2, <1>3, <1>4, <2>3, <3>1, <4>1 DEF IInv, Nested
    <3>2. CASE calls'[p].rows = Stored(categories)'
      BY <2>3, <3>2
    <3> QED
      BY <1>4, <2>3, <3>1, <3>2 DEF Selects
  <2>4. CASE q # p /\ r = p
    <3>1. CASE calls[p].pc \in Reparenting /\ calls'[p].rows = calls[p].rows
      <4>1. known(p)' \subseteq known(p)
        BY <1>1, <1>2, <3>1 DEF RowsFit
      <4> QED
        BY <1>2, <1>3, <1>4, <2>4, <3>1, <4>1 DEF IInv, Nested
    <3>2. CASE calls'[p].rows = Stored(categories)'
      BY <2>4, <3>2
    <3> QED
      BY <1>4, <2>4, <3>1, <3>2 DEF Selects
  <2> QED
    BY <2>1, <2>2, <2>3, <2>4
<1> QED
  BY <1>4 DEF Nested

\* How a step of p that leaves the jobs alone may go on with its import.
Continues(p) == calls'[p].pc \in Running =>
    /\ calls[p].pc \in Running /\ calls'[p].job = calls[p].job /\ calls'[p].req = calls[p].req
    /\ calls'[p].pc \in Ahead => ~calls[p].req.dry

LEMMA AllContinue ==
    ASSUME IInv, NEW p \in Procs, Others(p), Continues(p)
    PROVE  \A q \in Procs : Continues(q)
<1>1. \A q \in Procs : RunsJob(q)
  BY DEF IInv, JobsSound
<1>2. ASSUME NEW q \in Procs, q # p PROVE Continues(q)
  BY <1>1, <1>2 DEF Continues, Others, RunsJob
<1> QED
  BY <1>2

LEMMA JobsStay ==
    ASSUME IInv, \A q \in Procs : Continues(q), UNCHANGED jobs
    PROVE  JobsSound'
<1>1. JobsSound
  BY DEF IInv
<1>2. \A q \in Procs : RunsJob(q)'
  BY <1>1 DEF JobsSound, RunsJob, Continues
<1>3. OwnJobs'
  BY <1>1 DEF JobsSound, OwnJobs, Continues
<1> QED
  BY <1>1, <1>2, <1>3 DEF JobsSound, JobSound, OneJobPerKey

\* A step is sound when what it does itself is.
LEMMA StepSound ==
    ASSUME IInv, NEW p \in Procs, Others(p), Keeps(p), Writes(p), TypeOK', CallSound(p)',
           \A q \in Procs \ {p} : CategoryCall(calls[q])',
           Nested', TreeIsAcyclic', SkusMatchSpecifications', ~LateCreation => ImageContract',
           JobsSound'
    PROVE  IInv' /\ Kept
<1>1. ASSUME NEW q \in Procs \ {p} PROVE CallSound(q)'
  <2>1. CallSound(q)
    BY DEF IInv
  <2>2. IsCall(calls[q])' /\ RequestFits(calls[q])'
    BY <2>1, OthersRequest
  <2>3. RowsFit(calls[q])' /\ Holding(q)'
    BY <2>1, OthersRows
  <2>4. ProductCall(calls[q])'
    BY <2>1, OthersProductCall
  <2>5. ImportCall(calls[q])'
    BY <2>1, OthersImportCall
  <2> QED
    BY <2>2, <2>3, <2>4, <2>5 DEF CallSound
<1>2. \A q \in Procs : CallSound(q)'
  BY <1>1
<1>3. (calls = [q \in Procs |-> calls[q]])'
  BY DEF Others
<1> QED
  BY <1>2, <1>3 DEF IInv, Writes

\* A step that changes neither the categories nor the products.
LEMMA CalmStep ==
    ASSUME IInv, NEW p \in Procs, Others(p), Keeps(p), UNCHANGED <<categories, products>>,
           locks' \in [Categories \cup Products -> Procs \cup {None}], left' \in 0..MaxCalls,
           CallSound(p)', Selects(p), jobs' \in [Jobs -> Job \cup {None}], JobsSound'
    PROVE  IInv' /\ Kept
<1>1. TypeOK'
  BY DEF IInv, TypeOK
<1>2. Writes(p)
  <2>1. ASSUME NEW x \in Products, NEW q \in Procs \ {p}, x \in calls'[q].rows PROVE products[x] # None
    BY <2>1 DEF IInv, CallSound, RowsFit, Others
  <2> QED
    BY <2>1 DEF Writes, Kept
<1>3. References(p)
  BY DEF References
<1>4. \A q \in Procs \ {p} : CategoryCall(calls[q])'
  <2>1. ASSUME NEW q \in Procs \ {p} PROVE CategoryCall(calls[q])'
    <3>1. CallSound(q) /\ TypeOK
      BY DEF IInv
    <3> QED
      BY <1>1, <1>3, <3>1, OthersCategoryCall
  <2> QED
    BY <2>1
<1>5. Nested'
  <2>1. \A c \in Categories : c \in Stored(categories)' /\ categories[c] # None => c \in Stored(categories)
    OBVIOUS
  <2> QED
    BY <1>1, <2>1, NestedStays
<1>6. TreeIsAcyclic' /\ SkusMatchSpecifications' /\ (~LateCreation => ImageContract')
  BY DEF IInv, TreeIsAcyclic, SkusMatchSpecifications, ImageContract, IsTree
<1> QED
  BY <1>1, <1>2, <1>4, <1>5, <1>6, StepSound

\* A step that changes neither table nor job.
LEMMA QuietStep ==
    ASSUME IInv, NEW p \in Procs, Others(p), Keeps(p), UNCHANGED <<categories, products, jobs>>,
           locks' \in [Categories \cup Products -> Procs \cup {None}], left' \in 0..MaxCalls,
           CallSound(p)', Selects(p), Continues(p)
    PROVE  IInv' /\ Kept
<1>1. JobsSound'
  BY AllContinue, JobsStay
<1>2. jobs' \in [Jobs -> Job \cup {None}]
  BY DEF IInv, TypeOK
<1> QED
  BY <1>1, <1>2, CalmStep

-----------------------------------------------------------------------------
(* Requests begin, go on and end                                             *)

LockTable == [Categories \cup Products -> Procs \cup {None}]

LEMMA IdleSound ==
    ASSUME NEW p \in Procs, calls'[p] = IdleCall
    PROVE  CallSound(p)' /\ Selects(p) /\ Continues(p)
<1>1. /\ IdleCall.pc = "idle" /\ IdleCall.rows = {}
      /\ IdleCall = [pc |-> IdleCall.pc, req |-> IdleCall.req, rows |-> IdleCall.rows,
                     seen |-> IdleCall.seen, job |-> IdleCall.job]
  BY DEF IdleCall
<1> HIDE DEF IdleCall
<1>2. CallSound(p)'
  <2>1. IsCall(calls[p])'
    BY <1>1 DEF IsCall
  <2>2. calls'[p].pc = "idle" /\ calls'[p].rows = {}
    BY <1>1
  <2>3. RequestFits(calls[p])' /\ RowsFit(calls[p])' /\ Holding(p)'
    BY <2>2 DEF RequestFits, RowsFit, Holding, Reparenting, Importing, Locking
  <2>4. CategoryCall(calls[p])' /\ ProductCall(calls[p])' /\ ImportCall(calls[p])'
    BY <2>2 DEF CategoryCall, ProductCall, ImportCall, Ahead
  <2> QED
    BY <2>1, <2>3, <2>4 DEF CallSound
<1> QED
  BY <1>1, <1>2 DEF Selects, Continues, Reparenting, Running

\* Only p's call changes.
Alone(p) == calls' = [q \in Procs |-> calls'[q]] /\ \A q \in Procs \ {p} : calls'[q] = calls[q]

LEMMA OthersAlone == ASSUME IInv, NEW p \in Procs, Alone(p) PROVE Others(p)
<1>1. \A q \in Procs : IsCall(calls[q])
  BY DEF IInv, CallSound
<1> QED
  BY <1>1 DEF Alone, Others, IsCall

LEMMA Releases ==
    ASSUME IInv, NEW p \in Procs, Release(p)
    PROVE  Keeps(p) /\ locks' \in LockTable /\ left' = left /\ left' \in 0..MaxCalls
<1>1. locks \in LockTable /\ left \in 0..MaxCalls
  BY DEF IInv, TypeOK, LockTable
<1> QED
  BY <1>1 DEF Release, Keeps, LockTable

LEMMA CallEnds ==
    ASSUME IInv, NEW p \in Procs, EndCall(p)
    PROVE  /\ Others(p) /\ calls'[p] = IdleCall
           /\ Keeps(p) /\ locks' \in LockTable /\ left' \in 0..MaxCalls
<1>1. calls = [q \in Procs |-> calls[q]]
  BY DEF IInv
<1>2. calls' = [calls EXCEPT ![p] = IdleCall] /\ Release(p)
  BY DEF EndCall
<1>3. Alone(p) /\ calls'[p] = IdleCall
  BY <1>1, <1>2 DEF Alone
<1> QED
  BY <1>2, <1>3, OthersAlone, Releases

LEMMA CallBegins ==
    ASSUME IInv, NEW p \in Procs, NEW pc, NEW req, NEW rows, Begin(p, pc, req, rows)
    PROVE  /\ Others(p) /\ calls[p].pc = "idle" /\ left' \in 0..MaxCalls
           /\ calls'[p].pc = pc /\ calls'[p].req = req /\ calls'[p].rows = rows
           /\ IsCall(calls[p])'
<1>1. calls = [q \in Procs |-> calls[q]] /\ left \in 0..MaxCalls /\ MaxCalls \in Nat
  BY CatalogAssumption DEF IInv, TypeOK
<1>2. /\ calls[p].pc = "idle" /\ left > 0 /\ left' = left - 1
      /\ calls' = [calls EXCEPT ![p] = [IdleCall EXCEPT !.pc = pc, !.req = req, !.rows = rows]]
  BY DEF Begin, At
<1>3. [IdleCall EXCEPT !.pc = pc, !.req = req, !.rows = rows]
      = [pc |-> pc, req |-> req, rows |-> rows, seen |-> None, job |-> None]
  <2> DEFINE one == [IdleCall EXCEPT !.pc = pc]
             two == [one EXCEPT !.req = req]
             three == [two EXCEPT !.rows = rows]
  <2>1. one = [pc |-> pc, req |-> None, rows |-> {}, seen |-> None, job |-> None]
    BY DEF IdleCall
  <2> HIDE DEF one
  <2>2. two = [pc |-> pc, req |-> req, rows |-> {}, seen |-> None, job |-> None]
    BY <2>1
  <2> HIDE DEF two
  <2>3. three = [pc |-> pc, req |-> req, rows |-> rows, seen |-> None, job |-> None]
    BY <2>2
  <2>4. three = [IdleCall EXCEPT !.pc = pc, !.req = req, !.rows = rows]
    BY DEF one, two
  <2> QED
    BY <2>3, <2>4
<1>4. Alone(p) /\ calls'[p] = [pc |-> pc, req |-> req, rows |-> rows, seen |-> None, job |-> None]
  BY <1>1, <1>2, <1>3 DEF Alone
<1>5. left' \in 0..MaxCalls
  BY <1>1, <1>2
<1>6. /\ calls'[p].pc = pc /\ calls'[p].req = req /\ calls'[p].rows = rows
      /\ IsCall(calls[p])'
  BY <1>4 DEF IsCall
<1> QED
  BY <1>2, <1>4, <1>5, <1>6, OthersAlone

LEMMA CallGoes ==
    ASSUME IInv, NEW p \in Procs, NEW pc, Goto(p, pc)
    PROVE  /\ Others(p) /\ left' \in 0..MaxCalls /\ IsCall(calls[p])'
           /\ calls'[p].pc = pc /\ calls'[p].req = calls[p].req /\ calls'[p].rows = calls[p].rows
           /\ calls'[p].seen = calls[p].seen /\ calls'[p].job = calls[p].job
<1>1. calls = [q \in Procs |-> calls[q]] /\ left \in 0..MaxCalls /\ IsCall(calls[p])
  BY DEF IInv, TypeOK, CallSound
<1>2. calls' = [calls EXCEPT ![p].pc = pc] /\ left' = left
  BY DEF Goto
<1>3. Alone(p) /\ calls'[p] = [calls[p] EXCEPT !.pc = pc]
  BY <1>1, <1>2 DEF Alone
<1>4. [calls[p] EXCEPT !.pc = pc] = [pc |-> pc, req |-> calls[p].req, rows |-> calls[p].rows,
                                     seen |-> calls[p].seen, job |-> calls[p].job]
  BY <1>1 DEF IsCall
<1>5. /\ IsCall(calls[p])'
      /\ calls'[p].pc = pc /\ calls'[p].req = calls[p].req /\ calls'[p].rows = calls[p].rows
      /\ calls'[p].seen = calls[p].seen /\ calls'[p].job = calls[p].job
  BY <1>3, <1>4 DEF IsCall
<1> QED
  BY <1>1, <1>2, <1>3, <1>5, OthersAlone

LEMMA LockKeeps ==
    ASSUME IInv, NEW p \in Procs, NEW rows, RowsFree(p, rows), Lock(p, rows)
    PROVE  /\ Keeps(p) /\ locks' \in LockTable
           /\ \A r \in rows : r \in Categories \cup Products => locks'[r] = p
<1>1. locks \in LockTable
  BY DEF IInv, TypeOK, LockTable
<1> QED
  BY <1>1, CatalogAssumption DEF LockTable, RowsFree, Lock, Keeps

LEMMA LocksStay ==
    ASSUME IInv, NEW p \in Procs, UNCHANGED locks PROVE Keeps(p) /\ locks' \in LockTable
  BY DEF IInv, TypeOK, LockTable, Keeps

\* Nothing but the locks and the calls changes when a call ends without writing.
LEMMA EndsQuietly ==
    ASSUME IInv, NEW p \in Procs, EndCall(p), UNCHANGED <<categories, products, jobs>>
    PROVE  IInv' /\ Kept
  BY CallEnds, IdleSound, QuietStep DEF LockTable

-----------------------------------------------------------------------------
(* Steps that write nothing                                                  *)

LEMMA StoredProduct ==
    ASSUME TypeOK
    PROVE  /\ Stored(products) = {x \in Products : products[x] # None}
           /\ \A x \in Products : products[x] # None => products[x] \in Product
  BY CatalogAssumption DEF TypeOK, Stored

LEMMA StoredCategories ==
    ASSUME TypeOK
    PROVE  /\ Stored(categories) \in SUBSET Categories /\ categories \in Tables
           /\ \A c \in Stored(categories) :
                 /\ categories[c] # None /\ categories[c] \in Category
                 /\ categories[c].parent \in Categories \cup {None}
  BY StoredCategory DEF TypeOK, Stored, Tables

LEMMA BeginsQuietly ==
    ASSUME IInv, NEW p \in Procs, NEW pc, NEW req, NEW rows, Begin(p, pc, req, rows),
           UNCHANGED <<categories, products, jobs>>, Keeps(p), locks' \in LockTable,
           RequestFits(calls[p])', RowsFit(calls[p])', Holding(p)',
           CategoryCall(calls[p])', ProductCall(calls[p])',
           pc \notin Ahead, pc \notin Running,
           pc \in Reparenting => rows = Stored(categories)
    PROVE  IInv' /\ Kept
<1>1. Others(p) /\ left' \in 0..MaxCalls
  BY CallBegins
<1>2. calls'[p].pc = pc /\ calls'[p].rows = rows /\ IsCall(calls[p])'
  BY CallBegins
<1>3. Selects(p) /\ Continues(p)
  BY <1>2 DEF Selects, Continues
<1>4. ImportCall(calls[p])'
  BY <1>2 DEF ImportCall, Ahead
<1>5. CallSound(p)'
  BY <1>2, <1>4 DEF CallSound
<1> QED
  BY <1>1, <1>3, <1>5, QuietStep DEF LockTable

LEMMA CreateCategorySound ==
    ASSUME IInv, NEW p \in Procs, NEW c \in Categories, NEW parent \in Categories \cup {None},
           CreateCategory(p, c, parent), UNCHANGED jobs
    PROVE  IInv' /\ Kept
<1> DEFINE req == [code |-> c, parent |-> parent]
<1>1. Begin(p, "category_create", req, {}) /\ UNCHANGED <<categories, products, locks>>
  BY DEF CreateCategory
<1>2. calls'[p].pc = "category_create" /\ calls'[p].req = req /\ calls'[p].rows = {}
  BY <1>1, CallBegins
<1>3. RequestFits(calls[p])'
  BY <1>2 DEF RequestFits, Reparenting, Importing
<1>4. RowsFit(calls[p])' /\ Holding(p)' /\ CategoryCall(calls[p])' /\ ProductCall(calls[p])'
  BY <1>2 DEF RowsFit, Holding, CategoryCall, ProductCall, Reparenting, Locking
<1>5. Keeps(p) /\ locks' \in LockTable
  BY <1>1, LocksStay
<1> HIDE DEF req
<1> QED
  BY <1>1, <1>3, <1>4, <1>5, BeginsQuietly DEF Ahead, Running, Reparenting

LEMMA UpdateCategorySound ==
    ASSUME IInv, NEW p \in Procs, NEW c \in Categories, NEW change \in CategoryChanges,
           UpdateCategory(p, c, change), UNCHANGED jobs
    PROVE  IInv' /\ Kept
<1> DEFINE req == [code |-> c, change |-> change]
           rows == Stored(categories)
<1>1. /\ Begin(p, "category_lock", req, rows) /\ UNCHANGED <<categories, products, locks>>
      /\ c \in rows
  BY DEF UpdateCategory, TableRows
<1>2. calls'[p].pc = "category_lock" /\ calls'[p].req = req /\ calls'[p].rows = rows
  <2> HIDE DEF req, rows
  <2> QED
    BY <1>1, CallBegins
<1>3. RequestFits(calls[p])'
  BY <1>2 DEF RequestFits, Reparenting, Importing
<1>4. rows \in SUBSET Categories /\ (\A r \in rows : categories[r] # None) /\ Categories \cap Products = {}
  BY StoredCategories, CatalogAssumption DEF IInv
<1>5. RowsFit(calls[p])' /\ Holding(p)' /\ CategoryCall(calls[p])' /\ ProductCall(calls[p])'
  <2> HIDE DEF rows
  <2> QED
    BY <1>1, <1>2, <1>4 DEF RowsFit, Holding, CategoryCall, ProductCall, Reparenting, Locking
<1>6. Keeps(p) /\ locks' \in LockTable
  BY <1>1, LocksStay
<1> HIDE DEF req
<1> QED
  BY <1>1, <1>3, <1>5, <1>6, BeginsQuietly DEF Ahead, Running, Reparenting

LEMMA DeleteCategorySound ==
    ASSUME IInv, NEW p \in Procs, NEW c \in Categories, DeleteCategory(p, c), UNCHANGED jobs
    PROVE  IInv' /\ Kept
<1> DEFINE req == [code |-> c]
<1>1. /\ Begin(p, "category_delete", req, {c}) /\ UNCHANGED <<categories, products>>
      /\ c \in Stored(categories) /\ RowsFree(p, {c}) /\ Lock(p, {c}) /\ ~InUse(c)
  BY DEF DeleteCategory
<1>2. calls'[p].pc = "category_delete" /\ calls'[p].req = req /\ calls'[p].rows = {c}
  <2> HIDE DEF req
  <2> QED
    BY <1>1, CallBegins
<1>3. RequestFits(calls[p])'
  BY <1>2 DEF RequestFits, Reparenting, Importing
<1>4. categories[c] # None /\ c \notin Products
  BY <1>1, StoredCategories, CatalogAssumption DEF IInv
<1>5. Keeps(p) /\ locks' \in LockTable /\ locks'[c] = p
  BY <1>1, LockKeeps
<1>6. RowsFit(calls[p])' /\ Holding(p)' /\ ProductCall(calls[p])'
  BY <1>1, <1>2, <1>4, <1>5 DEF RowsFit, Holding, ProductCall, Reparenting, Locking
<1>7. CategoryCall(calls[p])'
  <2>1. ~InUse(c)' /\ c \in Stored(categories)'
    BY <1>1 DEF InUse
  <2>2. calls'[p].req.code = c
    BY <1>2
  <2> QED
    BY <1>2, <2>1, <2>2 DEF CategoryCall
<1> HIDE DEF req
<1> QED
  BY <1>1, <1>3, <1>5, <1>6, <1>7, BeginsQuietly DEF Ahead, Running, Reparenting

LEMMA DeleteProductSound ==
    ASSUME IInv, NEW p \in Procs, NEW x \in Products, DeleteProduct(p, x), UNCHANGED jobs
    PROVE  IInv' /\ Kept
<1> DEFINE req == [code |-> x]
<1>1. /\ Begin(p, "product_delete", req, {x}) /\ UNCHANGED <<categories, products>>
      /\ products[x] # None /\ RowsFree(p, {x}) /\ Lock(p, {x}) /\ products[x].status # "published"
  BY DEF DeleteProduct
<1>2. calls'[p].pc = "product_delete" /\ calls'[p].req = req /\ calls'[p].rows = {x}
  <2> HIDE DEF req
  <2> QED
    BY <1>1, CallBegins
<1>3. RequestFits(calls[p])'
  BY <1>2 DEF RequestFits, Reparenting, Importing
<1>4. x \notin Categories
  BY CatalogAssumption
<1>5. Keeps(p) /\ locks' \in LockTable /\ locks'[x] = p
  BY <1>1, LockKeeps
<1>6. RowsFit(calls[p])' /\ Holding(p)' /\ CategoryCall(calls[p])' /\ ProductCall(calls[p])'
  BY <1>1, <1>2, <1>4, <1>5 DEF RowsFit, Holding, CategoryCall, ProductCall, Reparenting, Locking
<1> HIDE DEF req
<1> QED
  BY <1>1, <1>3, <1>5, <1>6, BeginsQuietly DEF Ahead, Running, Reparenting

LEMMA UploadImageSound ==
    ASSUME IInv, NEW p \in Procs, NEW x \in Products, NEW role \in Roles,
           UploadImage(p, x, role), UNCHANGED jobs
    PROVE  IInv' /\ Kept
<1> DEFINE req == [code |-> x, role |-> role]
<1>1. /\ Begin(p, "image_lock", req, {x}) /\ UNCHANGED <<categories, products, locks>>
      /\ products[x] # None
  BY DEF UploadImage
<1>2. calls'[p].pc = "image_lock" /\ calls'[p].req = req /\ calls'[p].rows = {x}
  <2> HIDE DEF req
  <2> QED
    BY <1>1, CallBegins
<1>3. RequestFits(calls[p])'
  BY <1>2 DEF RequestFits, Reparenting, Importing
<1>4. x \notin Categories
  BY CatalogAssumption
<1>5. RowsFit(calls[p])' /\ Holding(p)' /\ CategoryCall(calls[p])' /\ ProductCall(calls[p])'
  BY <1>1, <1>2, <1>4 DEF RowsFit, Holding, CategoryCall, ProductCall, Reparenting, Locking
<1>6. Keeps(p) /\ locks' \in LockTable
  BY <1>1, LocksStay
<1> HIDE DEF req
<1> QED
  BY <1>1, <1>3, <1>5, <1>6, BeginsQuietly DEF Ahead, Running, Reparenting

LEMMA DeleteImageSound ==
    ASSUME IInv, NEW p \in Procs, NEW x \in Products, NEW key \in ObjectKeys,
           DeleteImage(p, x, key), UNCHANGED jobs
    PROVE  IInv' /\ Kept
<1> DEFINE req == [code |-> x, key |-> key]
<1>1. /\ Begin(p, "image_delete", req, {x}) /\ UNCHANGED <<categories, products>>
      /\ products[x] # None /\ key \in DOMAIN products[x].images
      /\ RowsFree(p, {x}) /\ Lock(p, {x})
      /\ ~(products[x].status = "published" /\ products[x].images[key] = "cover")
  BY DEF DeleteImage
<1>2. calls'[p].pc = "image_delete" /\ calls'[p].req = req /\ calls'[p].rows = {x}
  <2> HIDE DEF req
  <2> QED
    BY <1>1, CallBegins
<1>3. RequestFits(calls[p])'
  BY <1>2 DEF RequestFits, Reparenting, Importing
<1>4. x \notin Categories
  BY CatalogAssumption
<1>5. Keeps(p) /\ locks' \in LockTable /\ locks'[x] = p
  BY <1>1, LockKeeps
<1>6. RowsFit(calls[p])' /\ Holding(p)' /\ CategoryCall(calls[p])'
  BY <1>1, <1>2, <1>4, <1>5 DEF RowsFit, Holding, CategoryCall, Reparenting, Locking
<1>7. ProductCall(calls[p])'
  BY <1>1, <1>2 DEF ProductCall
<1> HIDE DEF req
<1> QED
  BY <1>1, <1>3, <1>5, <1>6, <1>7, BeginsQuietly DEF Ahead, Running, Reparenting

LEMMA ImportSound ==
    ASSUME IInv, NEW p \in Procs, NEW req \in Imports, Import(p, req)
    PROVE  IInv' /\ Kept
<1>1. Begin(p, "import_insert", req, {}) /\ UNCHANGED <<categories, products, locks, jobs>>
  BY DEF Import
<1>2. calls'[p].pc = "import_insert" /\ calls'[p].req = req /\ calls'[p].rows = {}
  BY <1>1, CallBegins
<1>3. RequestFits(calls[p])'
  BY <1>2 DEF RequestFits, Reparenting, Importing
<1>4. RowsFit(calls[p])' /\ Holding(p)' /\ CategoryCall(calls[p])' /\ ProductCall(calls[p])'
  BY <1>2 DEF RowsFit, Holding, CategoryCall, ProductCall, Reparenting, Locking
<1>5. Keeps(p) /\ locks' \in LockTable
  BY <1>1, LocksStay
<1> QED
  BY <1>1, <1>3, <1>4, <1>5, BeginsQuietly DEF Ahead, Running, Reparenting

\* A product begins without images, and with SKUs that fit its document.
LEMMA CreatedIs ==
    ASSUME NEW x \in Products, NEW input \in ProductInputs, NEW skus,
           skus = SyncedSkus(x, input.skus), skus # Refused,
           ValidDocument(input.document), ReferencesResolve(input.document, skus),
           input.status # "published",
           NEW row, row = Over([skus |-> skus, images |-> <<>>], input)
    PROVE  Decided(row) /\ row \in Product /\ row.images = <<>> /\ row.category = input.category
<1>1. /\ input.status \in Statuses /\ input.category \in Categories /\ input.document \in Documents
      /\ input.skus \in Seq(Sku) /\ DOMAIN input = {"status", "category", "document", "skus"}
  BY CatalogInputsAssumption
<1>2. skus \in Seq(Sku) /\ Cardinality(ActiveDefaults(skus)) = 1
  BY <1>1, SyncedIs
<1> DEFINE fixed == [skus |-> skus, images |-> <<>>]
<1>3. DOMAIN row = {"status", "category", "document", "skus", "images"}
  BY <1>1 DEF Over
<1>4. row.skus = skus /\ row.images = <<>>
  BY <1>1 DEF Over
<1>5. row.status = input.status /\ row.category = input.category /\ row.document = input.document
  BY <1>1 DEF Over
<1>6. row = [k \in DOMAIN row |-> row[k]]
  BY DEF Over
<1>7. row = [status |-> row.status, category |-> row.category, document |-> row.document,
             skus |-> row.skus, images |-> row.images]
  BY <1>3, <1>6
<1>8. row \in Product
  BY <1>1, <1>2, <1>4, <1>5, <1>7, NoImages DEF Product
<1>9. SkusMatch(row) /\ CoverIfPublished(row)
  BY <1>2, <1>4, <1>5 DEF SkusMatch, CoverIfPublished
<1> QED
  BY <1>4, <1>5, <1>8, <1>9 DEF Decided

LEMMA CreateProductSound ==
    ASSUME IInv, NEW p \in Procs, NEW x \in Products, NEW input \in ProductInputs,
           CreateProduct(p, x, input), UNCHANGED jobs
    PROVE  IInv' /\ Kept
<1> DEFINE skus == SyncedSkus(x, input.skus)
           row == Over([skus |-> skus, images |-> <<>>], input)
           req == [code |-> x, row |-> row]
<1>1. /\ Begin(p, "product_create", req, {}) /\ UNCHANGED <<categories, products, locks>>
      /\ ValidDocument(input.document) /\ skus # Refused
      /\ ReferencesResolve(input.document, skus) /\ input.status # "published"
  BY DEF CreateProduct
<1>2. Decided(row) /\ row \in Product /\ row.images = <<>>
  <2> HIDE DEF skus
  <2>1. skus = SyncedSkus(x, input.skus)
    BY DEF skus
  <2> QED
    BY <1>1, <2>1, CreatedIs
<1> HIDE DEF skus, row
<1>3. req \in [code : Products, row : Product] /\ req.row = row
  BY <1>2
<1> HIDE DEF req
<1>4. calls'[p].pc = "product_create" /\ calls'[p].req = req /\ calls'[p].rows = {}
  BY <1>1, CallBegins
<1>5. RequestFits(calls[p])'
  BY <1>3, <1>4 DEF RequestFits, Reparenting, Importing
<1>6. RowsFit(calls[p])' /\ Holding(p)' /\ CategoryCall(calls[p])'
  BY <1>4 DEF RowsFit, Holding, CategoryCall, Reparenting, Locking
<1>7. ProductCall(calls[p])'
  BY <1>2, <1>3, <1>4 DEF ProductCall
<1>8. Keeps(p) /\ locks' \in LockTable
  BY <1>1, LocksStay
<1> QED
  BY <1>1, <1>5, <1>6, <1>7, <1>8, BeginsQuietly DEF Ahead, Running, Reparenting

LEMMA AcceptableIs ==
    ASSUME IInv, NEW x \in Products, products[x] # None, NEW change \in ProductChanges,
           Acceptable(x, change)
    PROVE  Decided(Updated(x, products[x], change))
<1> DEFINE row == Updated(x, products[x], change)
<1>1. products[x] \in Product /\ x \in Stored(products)
  BY StoredProduct DEF IInv
<1>2. SkusMatch(products[x])
  BY <1>1 DEF IInv, SkusMatchSpecifications
<1>3. /\ "document" \in DOMAIN change => ValidDocument(change.document)
      /\ row.skus # Refused /\ ReferencesResolve(row.document, row.skus)
      /\ row.status = "published" => MayBePublished(categories[row.category].active, row.images)
  BY DEF Acceptable
<1>4. Cardinality(ActiveDefaults(products[x].skus)) = 1 /\ ValidDocument(products[x].document)
  BY <1>2 DEF SkusMatch
<1>5. /\ row \in Product /\ Cardinality(ActiveDefaults(row.skus)) = 1
      /\ "document" \notin DOMAIN change => row.document = products[x].document
  BY <1>1, <1>3, <1>4, UpdatedIs
<1>6. "document" \in DOMAIN change => row.document = change.document
  BY DEF Updated, Over
<1> HIDE DEF row
<1>7. SkusMatch(row)
  BY <1>3, <1>4, <1>5, <1>6 DEF SkusMatch
<1>8. CoverIfPublished(row)
  BY <1>3 DEF CoverIfPublished, MayBePublished
<1> QED
  BY <1>5, <1>7, <1>8 DEF Decided, row

LEMMA UpdateProductSound ==
    ASSUME IInv, NEW p \in Procs, NEW x \in Products, NEW change \in ProductChanges,
           UpdateProduct(p, x, change), UNCHANGED jobs
    PROVE  IInv' /\ Kept
<1> DEFINE req == [code |-> x, change |-> change]
<1>1. /\ Begin(p, "product_commit", req, {x}) /\ UNCHANGED <<categories, products>>
      /\ products[x] # None /\ RowsFree(p, {x}) /\ Lock(p, {x}) /\ Acceptable(x, change)
  BY DEF UpdateProduct
<1>2. calls'[p].pc = "product_commit" /\ calls'[p].req = req /\ calls'[p].rows = {x}
  <2> HIDE DEF req
  <2> QED
    BY <1>1, CallBegins
<1>3. RequestFits(calls[p])'
  BY <1>2 DEF RequestFits, Reparenting, Importing
<1>4. x \notin Categories
  BY CatalogAssumption
<1>5. Keeps(p) /\ locks' \in LockTable /\ locks'[x] = p
  BY <1>1, LockKeeps
<1>6. RowsFit(calls[p])' /\ Holding(p)' /\ CategoryCall(calls[p])'
  BY <1>1, <1>2, <1>4, <1>5 DEF RowsFit, Holding, CategoryCall, Reparenting, Locking
<1>7. ProductCall(calls[p])'
  <2>1. Decided(Updated(x, products[x], change))
    BY <1>1, AcceptableIs
  <2>2. calls'[p].req.code = x /\ calls'[p].req.change = change /\ products' = products
    BY <1>1, <1>2
  <2>3. Decided(Updated(calls'[p].req.code, products'[calls'[p].req.code], calls'[p].req.change))
    BY <2>1, <2>2
  <2> QED
    BY <1>2, <2>3 DEF ProductCall
<1> HIDE DEF req
<1> QED
  BY <1>1, <1>3, <1>5, <1>6, <1>7, BeginsQuietly DEF Ahead, Running, Reparenting

\* A step of a call that only takes locks, or notes what it read.
LEMMA GoesQuietly ==
    ASSUME IInv, NEW p \in Procs, NEW pc, Goto(p, pc),
           UNCHANGED <<categories, products, jobs>>, Keeps(p), locks' \in LockTable,
           RequestFits(calls[p])', RowsFit(calls[p])', Holding(p)',
           CategoryCall(calls[p])', ProductCall(calls[p])', ImportCall(calls[p])',
           pc \in Running => calls[p].pc \in Ahead,
           pc \in Reparenting => calls[p].pc \in Reparenting
    PROVE  IInv' /\ Kept
<1>1. /\ Others(p) /\ left' \in 0..MaxCalls /\ IsCall(calls[p])'
      /\ calls'[p].pc = pc /\ calls'[p].req = calls[p].req /\ calls'[p].rows = calls[p].rows
      /\ calls'[p].seen = calls[p].seen /\ calls'[p].job = calls[p].job
  BY CallGoes
<1>2. calls[p].pc \in Ahead => ~calls[p].req.dry
  BY DEF IInv, JobsSound, RunsJob, Running, Ahead
<1>3. Selects(p) /\ Continues(p)
  BY <1>1, <1>2 DEF Selects, Continues, Running, Ahead
<1>4. CallSound(p)'
  BY <1>1 DEF CallSound
<1> QED
  BY <1>1, <1>3, <1>4, QuietStep DEF LockTable

LEMMA CategoryLockSound ==
    ASSUME IInv, NEW p \in Procs, CategoryLock(p), UNCHANGED jobs
    PROVE  IInv' /\ Kept
<1> DEFINE rows == calls[p].rows
           locking == /\ calls[p].req.code \in Stored(categories)
                      /\ "parent" \in DOMAIN calls[p].req.change =>
                            MayMove(calls[p].req.code, calls[p].req.change.parent)
<1>1. /\ calls[p].pc = "category_lock" /\ RowsFree(p, rows) /\ UNCHANGED <<categories, products>>
      /\ IF locking THEN Lock(p, rows) /\ Goto(p, "category_commit") ELSE EndCall(p)
  BY DEF CategoryLock, At
<1>2. CASE ~locking
  BY <1>1, <1>2, EndsQuietly
<1>3. CASE locking
  <2>1. Lock(p, rows) /\ Goto(p, "category_commit")
    BY <1>1, <1>3
  <2>2. /\ calls'[p].pc = "category_commit" /\ calls'[p].req = calls[p].req
        /\ calls'[p].rows = calls[p].rows
    BY <2>1, CallGoes
  <2>3. RequestFits(calls[p]) /\ RowsFit(calls[p])
    BY DEF IInv, CallSound
  <2>4. Keeps(p) /\ locks' \in LockTable /\ \A r \in rows : r \in Categories \cup Products => locks'[r] = p
    BY <1>1, <2>1, LockKeeps
  <2>5. RequestFits(calls[p])' /\ RowsFit(calls[p])'
    BY <1>1, <2>2, <2>3 DEF RequestFits, RowsFit, Reparenting, Importing
  <2>6. Holding(p)'
    BY <2>2, <2>3, <2>4 DEF Holding, RowsFit
  <2>7. ProductCall(calls[p])' /\ ImportCall(calls[p])'
    BY <2>2 DEF ProductCall, ImportCall, Ahead
  <2>8. ASSUME "parent" \in DOMAIN calls[p].req.change, calls[p].req.change.parent # None
        PROVE  /\ categories[calls[p].req.change.parent] # None
               /\ calls[p].req.code \notin Above(categories, calls[p].req.change.parent)
    BY <1>3, <2>8, StoredCategories DEF MayMove, IInv
  <2>9. CategoryCall(calls[p])'
    BY <1>1, <1>3, <2>2, <2>8 DEF CategoryCall
  <2> QED
    BY <1>1, <2>1, <2>4, <2>5, <2>6, <2>7, <2>9, GoesQuietly DEF Running, Reparenting
<1> QED
  BY <1>2, <1>3

LEMMA ImageLockSound ==
    ASSUME IInv, NEW p \in Procs, ImageLock(p), UNCHANGED jobs
    PROVE  IInv' /\ Kept
<1> DEFINE x == calls[p].req.code
           fits == x \in calls[p].rows /\ HasCapacity(products[x].images, calls[p].req.role)
<1>1. /\ calls[p].pc = "image_lock" /\ RowsFree(p, {x}) /\ UNCHANGED <<categories, products>>
      /\ IF fits THEN Lock(p, {x}) /\ Goto(p, "image_commit") ELSE EndCall(p)
  BY DEF ImageLock, At
<1>2. CASE ~fits
  BY <1>1, <1>2, EndsQuietly
<1>3. CASE fits
  <2>1. Lock(p, {x}) /\ Goto(p, "image_commit")
    BY <1>1, <1>3
  <2>2. calls'[p].pc = "image_commit" /\ calls'[p].req = calls[p].req /\ calls'[p].rows = calls[p].rows
    BY <2>1, CallGoes
  <2>3. RequestFits(calls[p]) /\ RowsFit(calls[p])
    BY DEF IInv, CallSound
  <2>4. x \in Products /\ calls[p].rows = {x}
    BY <1>1, <1>3, <2>3 DEF RequestFits, RowsFit
  <2>5. Keeps(p) /\ locks' \in LockTable /\ locks'[x] = p
    BY <1>1, <2>1, <2>4, LockKeeps
  <2>6. RequestFits(calls[p])' /\ RowsFit(calls[p])'
    BY <1>1, <1>3, <2>2, <2>3 DEF RequestFits, RowsFit, Reparenting, Importing
  <2>7. Holding(p)' /\ CategoryCall(calls[p])' /\ ImportCall(calls[p])'
    BY <2>2, <2>4, <2>5 DEF Holding, CategoryCall, ImportCall, Ahead
  <2>8. ProductCall(calls[p])'
    BY <1>1, <1>3, <2>2 DEF ProductCall
  <2> QED
    BY <1>1, <2>1, <2>5, <2>6, <2>7, <2>8, GoesQuietly DEF Running, Reparenting
<1> QED
  BY <1>2, <1>3

LEMMA ImportLockSound ==
    ASSUME IInv, NEW p \in Procs, ImportLock(p)
    PROVE  IInv' /\ Kept
<1> DEFINE rows == calls[p].rows
<1>1. /\ calls[p].pc = "import_lock" /\ RowsFree(p, rows) /\ UNCHANGED <<categories, products, jobs>>
      /\ Lock(p, rows) /\ Goto(p, "import_reparse")
  BY DEF ImportLock, At
<1>2. /\ calls'[p].pc = "import_reparse" /\ calls'[p].req = calls[p].req
      /\ calls'[p].rows = calls[p].rows
  BY <1>1, CallGoes
<1>3. RequestFits(calls[p]) /\ RowsFit(calls[p]) /\ ImportCall(calls[p])
  BY DEF IInv, CallSound
<1>4. Keeps(p) /\ locks' \in LockTable /\ \A r \in rows : r \in Categories \cup Products => locks'[r] = p
  BY <1>1, LockKeeps
<1>5. RequestFits(calls[p])' /\ RowsFit(calls[p])'
  BY <1>1, <1>2, <1>3 DEF RequestFits, RowsFit, Reparenting, Importing
<1>6. Holding(p)' /\ CategoryCall(calls[p])' /\ ProductCall(calls[p])'
  BY <1>2, <1>3, <1>4 DEF Holding, RowsFit, CategoryCall, ProductCall
<1>7. ImportCall(calls[p])'
  BY <1>1, <1>2, <1>3 DEF ImportCall, Ahead
<1> QED
  BY <1>1, <1>4, <1>5, <1>6, <1>7, GoesQuietly DEF Ahead, Reparenting

LEMMA ConflictSound ==
    ASSUME IInv, NEW p \in Procs, ImportInsertConflict(p)
    PROVE  IInv' /\ Kept
  BY EndsQuietly DEF ImportInsertConflict

LEMMA CrashSound ==
    ASSUME IInv, NEW p \in Procs, Crash(p)
    PROVE  IInv' /\ Kept
  BY EndsQuietly DEF Crash

\* The lock statement of an import finds the products it names that are stored.
LEMMA ImportParseSound ==
    ASSUME IInv, NEW p \in Procs, ImportParse(p)
    PROVE  IInv' /\ Kept
<1> DEFINE rows == Affected(calls[p].req.workbook) \cap Stored(products)
           one == [calls EXCEPT ![p].pc = "import_lock"]
<1>1. /\ calls[p].pc = "import_parse" /\ ~calls[p].req.dry
      /\ UNCHANGED <<categories, products, locks, left, jobs>>
      /\ calls' = [one EXCEPT ![p].rows = rows]
  BY DEF ImportParse, At
<1>2. calls = [q \in Procs |-> calls[q]] /\ left \in 0..MaxCalls /\ IsCall(calls[p])
  BY DEF IInv, TypeOK, CallSound
<1>3. RequestFits(calls[p]) /\ TypeOK
  BY DEF IInv, CallSound
<1>4. /\ one = [q \in Procs |-> one[q]] /\ \A q \in Procs \ {p} : one[q] = calls[q]
      /\ one[p] = [pc |-> "import_lock", req |-> calls[p].req, rows |-> calls[p].rows,
                   seen |-> calls[p].seen, job |-> calls[p].job]
  BY <1>2 DEF IsCall
<1>5. PICK given : given = rows
  OBVIOUS
<1>6. calls' = [one EXCEPT ![p].rows = given]
  BY <1>1, <1>5
<1>7. Alone(p) /\ calls'[p] = [pc |-> "import_lock", req |-> calls[p].req, rows |-> given,
                               seen |-> calls[p].seen, job |-> calls[p].job]
  <2> HIDE DEF one, rows
  <2> QED
    BY <1>4, <1>6 DEF Alone
<1>8. /\ calls'[p].pc = "import_lock" /\ calls'[p].req = calls[p].req /\ calls'[p].rows = given
      /\ calls'[p].job = calls[p].job /\ IsCall(calls[p])'
  BY <1>7 DEF IsCall
<1>9. given \subseteq Products /\ \A x \in given : products[x] # None
  BY <1>3, <1>5, StoredProduct
<1>10. RequestFits(calls[p])' /\ Holding(p)' /\ CategoryCall(calls[p])' /\ ProductCall(calls[p])'
  BY <1>1, <1>3, <1>8 DEF RequestFits, Reparenting, Importing, Holding, Locking, CategoryCall, ProductCall
<1>11. RowsFit(calls[p])'
  BY <1>1, <1>8, <1>9, CatalogAssumption DEF RowsFit, Reparenting
<1>12. ImportCall(calls[p])'
  <2>1. calls[p].req \in Imports
    BY <1>1, <1>3 DEF RequestFits, Importing
  <2>2. Affected(calls[p].req.workbook) \subseteq Products
    BY <2>1, WorkbookIs
  <2>3. \A x \in Affected(calls[p].req.workbook) : products[x] # None => x \in given
    BY <1>3, <1>5, <2>2, StoredProduct
  <2> QED
    BY <1>1, <1>8, <2>3 DEF ImportCall
<1>13. CallSound(p)'
  BY <1>8, <1>10, <1>11, <1>12 DEF CallSound
<1>14. Selects(p) /\ Continues(p)
  BY <1>1, <1>8 DEF Selects, Continues, Reparenting, Running
<1>15. Others(p) /\ Keeps(p) /\ locks' \in LockTable /\ left' \in 0..MaxCalls
  BY <1>1, <1>2, <1>7, OthersAlone, LocksStay
<1> QED
  BY <1>1, <1>13, <1>14, <1>15, QuietStep DEF LockTable

\* What a pass over a workbook that parses establishes.
LEMMA ParsedIs ==
    ASSUME TypeOK, NEW c, c.req \in Imports, Parses(c.req.workbook),
           c.seen = [x \in Affected(c.req.workbook) |-> products[x]]
    PROVE  Computed(c) /\ UpToDate(c)
<1> DEFINE w == c.req.workbook
<1>1. /\ Affected(w) \subseteq Products
      /\ DOMAIN w.rows \subseteq Affected(w) /\ DOMAIN w.skus \subseteq Affected(w)
      /\ \A r \in w.images : r.code \in Affected(w)
  BY WorkbookIs
<1>2. /\ \A x \in DOMAIN w.rows \cup DOMAIN w.skus : RowParses(x, w)
      /\ \A r \in w.images : ImageRowParses(r, w)
      /\ \A x \in Affected(w) : ImagesParse(x, w)
  BY DEF Parses
<1>3. \A x \in Affected(w) : c.seen[x] = products[x] /\ c.seen[x] \in Product \cup {None}
  BY <1>1 DEF TypeOK
<1>4. c.seen \in [Affected(w) -> Product \cup {None}]
  BY <1>3
<1>5. ASSUME NEW x \in DOMAIN w.rows \cup DOMAIN w.skus
      PROVE  /\ FinalRow(x, c.seen[x], w) \in Product /\ SkusMatch(FinalRow(x, c.seen[x], w))
             /\ x \notin DOMAIN w.rows => c.seen[x] # None
             /\ FinalRow(x, c.seen[x], w).status =
                   IF x \in DOMAIN w.rows THEN w.rows[x].status ELSE c.seen[x].status
  <2> DEFINE row == FinalRow(x, c.seen[x], w)
  <2>1. c.seen[x] = products[x] /\ c.seen[x] \in Product \cup {None}
    BY <1>1, <1>3
  <2>2. /\ x \notin DOMAIN w.rows => c.seen[x] # None
        /\ row.skus # Refused /\ ValidDocument(row.document) /\ ReferencesResolve(row.document, row.skus)
    BY <1>2, <2>1 DEF RowParses
  <2>3. /\ row \in Product /\ Cardinality(ActiveDefaults(row.skus)) = 1
        /\ row.status = IF x \in DOMAIN w.rows THEN w.rows[x].status ELSE c.seen[x].status
    BY <2>1, <2>2, FinalRowIs
  <2> HIDE DEF row
  <2>4. SkusMatch(row)
    BY <2>2, <2>3 DEF SkusMatch
  <2> QED
    BY <2>2, <2>3, <2>4 DEF row
<1>6. ASSUME NEW r \in w.images, ~r.staged
      PROVE  /\ products[r.code] # None /\ r.key \in DOMAIN products[r.code].images
             /\ r.key \in ObjectKeys
  <2>1. r.code \in Owners(r.key)
    BY <1>2, <1>6 DEF ImageRowParses
  <2>2. /\ r.code \in Products /\ products[r.code] # None /\ products[r.code] \in Product
        /\ r.key \in DOMAIN products[r.code].images
    BY <2>1, StoredProduct DEF Owners
  <2>3. products[r.code].images \in ImageMaps
    BY <2>2, ProductIs
  <2> QED
    BY <2>2, <2>3, ImageMapIs
<1>7. Computed(c)
  BY <1>4, <1>5, <1>6 DEF Computed
<1>8. UpToDate(c)
  BY <1>2, <1>3, <1>6 DEF UpToDate
<1> QED
  BY <1>7, <1>8

LEMMA ReparsedSound ==
    ASSUME IInv, NEW p \in Procs, ImportReparse(p), Parses(calls[p].req.workbook)
    PROVE  IInv' /\ Kept
<1> DEFINE seen == [x \in Affected(calls[p].req.workbook) |-> products[x]]
           one == [calls EXCEPT ![p].pc = "import_select"]
<1>1. /\ calls[p].pc = "import_reparse"
      /\ UNCHANGED <<categories, products, locks, left, jobs>>
      /\ calls' = [one EXCEPT ![p].seen = seen]
  BY DEF ImportReparse, At
<1>2. calls = [q \in Procs |-> calls[q]] /\ left \in 0..MaxCalls /\ IsCall(calls[p]) /\ TypeOK
  BY DEF IInv, TypeOK, CallSound
<1>3. RequestFits(calls[p]) /\ RowsFit(calls[p]) /\ Holding(p) /\ ImportCall(calls[p])
  BY DEF IInv, CallSound
<1>4. /\ one = [q \in Procs |-> one[q]] /\ \A q \in Procs \ {p} : one[q] = calls[q]
      /\ one[p] = [pc |-> "import_select", req |-> calls[p].req, rows |-> calls[p].rows,
                   seen |-> calls[p].seen, job |-> calls[p].job]
  BY <1>2 DEF IsCall
<1>5. PICK given : given = seen
  OBVIOUS
<1>6. calls' = [one EXCEPT ![p].seen = given]
  BY <1>1, <1>5
<1>7. Alone(p) /\ calls'[p] = [pc |-> "import_select", req |-> calls[p].req, rows |-> calls[p].rows,
                               seen |-> given, job |-> calls[p].job]
  <2> HIDE DEF one, seen
  <2> QED
    BY <1>4, <1>6 DEF Alone
<1>8. /\ calls'[p].pc = "import_select" /\ calls'[p].req = calls[p].req
      /\ calls'[p].rows = calls[p].rows /\ calls'[p].seen = given
      /\ calls'[p].job = calls[p].job /\ IsCall(calls[p])'
  BY <1>7 DEF IsCall
<1>9. RequestFits(calls[p])' /\ CategoryCall(calls[p])' /\ ProductCall(calls[p])'
  BY <1>1, <1>3, <1>8 DEF RequestFits, Reparenting, Importing, CategoryCall, ProductCall
<1>10. RowsFit(calls[p])' /\ Holding(p)'
  BY <1>1, <1>3, <1>8 DEF RowsFit, Reparenting, Holding, Locking
<1>11. Computed(calls[p])' /\ UpToDate(calls[p])'
  <2>1. PICK c : c = calls'[p]
    OBVIOUS
  <2>2. c.req \in Imports /\ c.req = calls[p].req
    BY <1>1, <1>3, <1>8, <2>1 DEF RequestFits, Importing
  <2>3. c.seen = [x \in Affected(c.req.workbook) |-> products[x]]
    BY <1>5, <1>8, <2>1, <2>2
  <2>4. Parses(c.req.workbook)
    BY <2>2
  <2>5. Computed(c) /\ UpToDate(c)
    BY <1>2, <2>2, <2>3, <2>4, ParsedIs
  <2>6. UpToDate(c)'
    BY <1>1, <2>5 DEF UpToDate, ImagesParse, RolesAfter
  <2>7. Computed(c)'
    BY <2>5
  <2> QED
    BY <2>1, <2>6, <2>7 DEF Computed, UpToDate
<1>12. ImportCall(calls[p])'
  BY <1>1, <1>3, <1>8, <1>11 DEF ImportCall, Ahead
<1>13. CallSound(p)'
  BY <1>8, <1>9, <1>10, <1>12 DEF CallSound
<1>14. Selects(p) /\ Continues(p)
  <2>1. calls[p].pc \in Ahead /\ calls[p].pc \in Running
    BY <1>1 DEF Ahead, Running
  <2>2. ~calls[p].req.dry
    BY <2>1 DEF IInv, JobsSound, RunsJob
  <2> QED
    BY <1>8, <2>1, <2>2 DEF Selects, Continues, Reparenting
<1>15. Others(p) /\ Keeps(p) /\ locks' \in LockTable /\ left' \in 0..MaxCalls
  BY <1>1, <1>2, <1>7, OthersAlone, LocksStay
<1> QED
  BY <1>1, <1>13, <1>14, <1>15, QuietStep DEF LockTable

-----------------------------------------------------------------------------
(* The jobs                                                                  *)

LEMMA StoredJobs ==
    ASSUME TypeOK
    PROVE  /\ Stored(jobs) = {j \in Jobs : jobs[j] # None}
           /\ \A j \in Stored(jobs) : jobs[j] \in Job
<1>1. \A j \in Jobs : jobs[j] \in Job \cup {None}
  BY DEF TypeOK
<1>2. Gone \notin Job \cup {None}
  BY CatalogAssumption, CatalogImportAssumption
<1> QED
  BY <1>1, <1>2 DEF TypeOK, Stored

\* A job that has not been applied gets a status that does not say it was.
LEMMA StatusSet ==
    ASSUME IInv, \A q \in Procs : Continues(q), NEW j \in Stored(jobs), jobs[j].applied = 0,
           NEW status \in {"validated", "failed"}, SetStatus(j, status)
    PROVE  JobsSound' /\ jobs' \in [Jobs -> Job \cup {None}]
<1>1. JobsSound /\ jobs \in [Jobs -> Job \cup {None}]
  BY DEF IInv, TypeOK
<1>2. j \in Jobs /\ jobs[j] \in Job /\ Stored(jobs) = {i \in Jobs : jobs[i] # None}
  BY StoredJobs DEF IInv
<1>3. PICK row : row = [jobs[j] EXCEPT !.status = status]
  OBVIOUS
<1>4. /\ row \in Job /\ row.status = status /\ row.applied = jobs[j].applied
      /\ row.req = jobs[j].req
  BY <1>2, <1>3 DEF Job
<1>5. jobs' = [jobs EXCEPT ![j] = row]
  BY <1>3 DEF SetStatus
<1>6. row \notin {None, Gone}
  BY <1>4, CatalogImportAssumption
<1>7. jobs' \in [Jobs -> Job \cup {None}]
  BY <1>1, <1>4, <1>5
<1>8. /\ Stored(jobs)' = Stored(jobs) /\ jobs'[j] = row
      /\ \A i \in Jobs \ {j} : jobs'[i] = jobs[i]
  BY <1>1, <1>2, <1>5, <1>6 DEF Stored
<1>9. \A i \in Stored(jobs)' : jobs'[i].req = jobs[i].req /\ jobs'[i].applied = jobs[i].applied
  BY <1>2, <1>4, <1>8
<1>10. \A i \in Stored(jobs)' : JobSound(i)'
  BY <1>1, <1>2, <1>4, <1>8 DEF JobsSound, JobSound
<1>11. OneJobPerKey'
  BY <1>1, <1>8, <1>9 DEF JobsSound, OneJobPerKey
<1>12. \A q \in Procs : RunsJob(q)'
  BY <1>1, <1>8, <1>9 DEF JobsSound, RunsJob, Continues
<1>13. OwnJobs'
  BY <1>1 DEF JobsSound, OwnJobs, Continues
<1> QED
  BY <1>7, <1>10, <1>11, <1>12, <1>13 DEF JobsSound

\* A call that runs an import ends, and its job says how.
LEMMA EndsWithStatus ==
    ASSUME IInv, NEW p \in Procs, calls[p].pc \in Running, EndCall(p),
           UNCHANGED <<categories, products>>,
           NEW status \in {"validated", "failed"}, SetStatus(calls[p].job, status)
    PROVE  IInv' /\ Kept
<1>1. /\ Others(p) /\ calls'[p] = IdleCall
      /\ Keeps(p) /\ locks' \in LockTable /\ left' \in 0..MaxCalls
  BY CallEnds
<1>2. CallSound(p)' /\ Selects(p) /\ Continues(p)
  BY <1>1, IdleSound
<1>3. \A q \in Procs : Continues(q)
  BY <1>1, <1>2, AllContinue
<1>4. PICK j : j = calls[p].job
  OBVIOUS
<1>5. j \in Stored(jobs) /\ jobs[j].applied = 0
  BY <1>4 DEF IInv, JobsSound, RunsJob
<1>6. JobsSound' /\ jobs' \in [Jobs -> Job \cup {None}]
  BY <1>3, <1>4, <1>5, StatusSet
<1> QED
  BY <1>1, <1>2, <1>6, CalmStep DEF LockTable

LEMMA FailSound ==
    ASSUME IInv, NEW p \in Procs, calls[p].pc \in Running, Fail(p)
    PROVE  IInv' /\ Kept
  BY EndsWithStatus DEF Fail

LEMMA ParseFailsSound ==
    ASSUME IInv, NEW p \in Procs, ImportParseFails(p)
    PROVE  IInv' /\ Kept
  BY FailSound DEF ImportParseFails, At, Running

LEMMA StorageFailsSound ==
    ASSUME IInv, NEW p \in Procs, ImportStorageFails(p)
    PROVE  IInv' /\ Kept
  BY FailSound DEF ImportStorageFails, At, Running

LEMMA DryRunSound ==
    ASSUME IInv, NEW p \in Procs, ImportDryRun(p)
    PROVE  IInv' /\ Kept
  BY EndsWithStatus DEF ImportDryRun, At, Running

LEMMA ImportReparseSound ==
    ASSUME IInv, NEW p \in Procs, ImportReparse(p)
    PROVE  IInv' /\ Kept
<1>1. CASE Parses(calls[p].req.workbook)
  BY <1>1, ReparsedSound
<1>2. CASE ~Parses(calls[p].req.workbook)
  BY <1>2, FailSound DEF ImportReparse, At, Running
<1> QED
  BY <1>1, <1>2

\* A key that no job has gets a job, which only the new import runs.
LEMMA ImportInsertSound ==
    ASSUME IInv, NEW p \in Procs, ImportInsert(p)
    PROVE  IInv' /\ Kept
<1>1. PICK req : req = calls[p].req
  OBVIOUS
<1>2. PICK j \in Jobs \ Stored(jobs) :
          /\ Insertable(req)
          /\ jobs' = [jobs EXCEPT ![j] = NewJob(req)]
          /\ calls' = [calls EXCEPT ![p].pc = "import_parse", ![p].job = j]
  BY <1>1 DEF ImportInsert
<1>3. /\ calls[p].pc = "import_insert"
      /\ UNCHANGED <<categories, products, locks, left>>
  BY DEF ImportInsert, At
<1>4. calls = [q \in Procs |-> calls[q]] /\ left \in 0..MaxCalls /\ IsCall(calls[p])
  BY DEF IInv, TypeOK, CallSound
<1>5. RequestFits(calls[p]) /\ RowsFit(calls[p]) /\ TypeOK /\ JobsSound
  BY DEF IInv, CallSound
<1> DEFINE one == [calls EXCEPT ![p].pc = "import_parse"]
<1>6. /\ one = [q \in Procs |-> one[q]] /\ \A q \in Procs \ {p} : one[q] = calls[q]
      /\ one[p] = [pc |-> "import_parse", req |-> calls[p].req, rows |-> calls[p].rows,
                   seen |-> calls[p].seen, job |-> calls[p].job]
  BY <1>4 DEF IsCall
<1>7. calls' = [one EXCEPT ![p].job = j]
  BY <1>2
<1>8. Alone(p) /\ calls'[p] = [pc |-> "import_parse", req |-> calls[p].req, rows |-> calls[p].rows,
                               seen |-> calls[p].seen, job |-> j]
  <2> HIDE DEF one
  <2> QED
    BY <1>6, <1>7 DEF Alone
<1>9. /\ calls'[p].pc = "import_parse" /\ calls'[p].req = req /\ calls'[p].rows = calls[p].rows
      /\ calls'[p].job = j /\ IsCall(calls[p])'
  BY <1>1, <1>8 DEF IsCall
<1>10. RequestFits(calls[p])' /\ Holding(p)' /\ CategoryCall(calls[p])' /\ ProductCall(calls[p])'
  BY <1>1, <1>3, <1>5, <1>9 DEF RequestFits, Reparenting, Importing, Holding, Locking, CategoryCall, ProductCall
<1>11. RowsFit(calls[p])' /\ ImportCall(calls[p])'
  BY <1>3, <1>5, <1>9 DEF RowsFit, Reparenting, ImportCall, Ahead
<1>12. CallSound(p)' /\ Selects(p)
  BY <1>9, <1>10, <1>11 DEF CallSound, Selects, Reparenting
<1>13. Others(p) /\ Keeps(p) /\ locks' \in LockTable /\ left' \in 0..MaxCalls
  BY <1>3, <1>4, <1>8, OthersAlone, LocksStay
<1>14. req \in Imports /\ WithKey(req.key) = {}
  BY <1>1, <1>2, <1>3, <1>5 DEF RequestFits, Importing, Insertable
<1>15. PICK row : row = NewJob(req)
  OBVIOUS
<1>16. row \in Job /\ row.req = req /\ row.status = "pending" /\ row.applied = 0
  BY <1>14, <1>15 DEF NewJob, Job
<1>17. row \notin {None, Gone}
  BY <1>16, CatalogImportAssumption
<1>18. /\ jobs \in [Jobs -> Job \cup {None}] /\ jobs' = [jobs EXCEPT ![j] = row]
       /\ Stored(jobs) = {i \in Jobs : jobs[i] # None}
  BY <1>2, <1>5, <1>15, StoredJobs DEF TypeOK
<1>19. jobs' \in [Jobs -> Job \cup {None}]
  BY <1>16, <1>18
<1>20. /\ Stored(jobs)' = Stored(jobs) \cup {j} /\ jobs'[j] = row
       /\ \A i \in Stored(jobs) : jobs'[i] = jobs[i] /\ i # j
  BY <1>2, <1>17, <1>18 DEF Stored
<1>21. \A i \in Stored(jobs)' : JobSound(i)'
  BY <1>5, <1>16, <1>20 DEF JobsSound, JobSound
<1>22. OneJobPerKey'
  <2>1. \A i \in Stored(jobs) : req.key # None => jobs[i].req.key # req.key
    BY <1>14 DEF WithKey
  <2> QED
    BY <1>5, <1>16, <1>20, <2>1 DEF JobsSound, OneJobPerKey
<1>23. ASSUME NEW q \in Procs \ {p}
       PROVE  /\ calls'[q].pc = calls[q].pc /\ calls'[q].req = calls[q].req
              /\ calls'[q].job = calls[q].job
  BY <1>13 DEF Others
<1>24. \A q \in Procs : RunsJob(q)'
  <2>1. ASSUME NEW q \in Procs \ {p} PROVE RunsJob(q)'
    BY <1>5, <1>20, <1>23 DEF JobsSound, RunsJob
  <2>2. RunsJob(p)'
    BY <1>9, <1>16, <1>20 DEF RunsJob, Ahead
  <2> QED
    BY <2>1, <2>2
<1>25. OwnJobs'
  <2>1. \A q \in Procs \ {p} : calls'[q].pc \in Running => calls'[q].job \in Stored(jobs)
    BY <1>5, <1>23 DEF JobsSound, RunsJob
  <2>2. ASSUME NEW q \in Procs, NEW r \in Procs, q # r, calls'[q].pc \in Running, calls'[r].pc \in Running
        PROVE  calls'[q].job # calls'[r].job
    <3>1. CASE q # p /\ r # p
      BY <1>5, <1>23, <2>2, <3>1 DEF JobsSound, OwnJobs
    <3>2. CASE q = p \/ r = p
      BY <1>9, <1>20, <2>1, <2>2, <3>2
    <3> QED
      BY <3>1, <3>2
  <2> QED
    BY <2>2 DEF OwnJobs
<1>26. JobsSound'
  BY <1>21, <1>22, <1>24, <1>25 DEF JobsSound
<1> QED
  BY <1>3, <1>12, <1>13, <1>19, <1>26, CalmStep DEF LockTable

\* What a call relies on does not involve the jobs.
LEMMA SameCallSound ==
    ASSUME NEW q \in Procs, CallSound(q), UNCHANGED <<categories, products, locks, calls>>
    PROVE  CallSound(q)'
<1>1. IsCall(calls[q])' /\ RequestFits(calls[q])' /\ RowsFit(calls[q])' /\ Holding(q)'
  BY DEF CallSound, IsCall, RequestFits, RowsFit, Holding
<1>2. CategoryCall(calls[q])'
  BY DEF CallSound, CategoryCall, InUse
<1>3. ProductCall(calls[q])'
  BY DEF CallSound, ProductCall
<1>4. ImportCall(calls[q])'
  BY DEF CallSound, ImportCall, Computed, UpToDate, ImagesParse, RolesAfter
<1> QED
  BY <1>1, <1>2, <1>3, <1>4 DEF CallSound

LEMMA RecoverSound ==
    ASSUME IInv, NEW j \in Jobs, Recover(j)
    PROVE  IInv' /\ Kept
<1>1. /\ jobs[j] # None /\ jobs[j].status = "pending" /\ SetStatus(j, "failed")
      /\ UNCHANGED <<categories, products, locks, calls, left>>
  BY DEF Recover, catalogVars
<1>2. JobsSound /\ TypeOK
  BY DEF IInv
<1>3. j \in Stored(jobs)
  BY <1>1, <1>2, StoredJobs
<1>4. jobs[j].applied = 0
  BY <1>1, <1>2, <1>3 DEF JobsSound, JobSound
<1>5. \A q \in Procs : Continues(q)
  BY <1>1, <1>2 DEF Continues, JobsSound, RunsJob
<1>6. JobsSound' /\ jobs' \in [Jobs -> Job \cup {None}]
  BY <1>1, <1>3, <1>4, <1>5, StatusSet
<1>7. TypeOK'
  BY <1>1, <1>2, <1>6 DEF TypeOK
<1>8. \A q \in Procs : CallSound(q)'
  BY <1>1, SameCallSound DEF IInv
<1>9. (calls = [p \in Procs |-> calls[p]])' /\ Nested'
  BY <1>1 DEF IInv, Nested
<1>10. TreeIsAcyclic' /\ SkusMatchSpecifications' /\ (~LateCreation => ImageContract')
  BY <1>1 DEF IInv, TreeIsAcyclic, SkusMatchSpecifications, ImageContract, IsTree
<1> QED
  BY <1>1, <1>6, <1>7, <1>8, <1>9, <1>10 DEF IInv, Kept

-----------------------------------------------------------------------------
(* Commits to the categories                                                 *)

LEMMA CategoryWriteSound ==
    ASSUME IInv, NEW p \in Procs, EndCall(p), UNCHANGED <<products, jobs>>,
           categories' \in Tables, IsTree(categories'),
           \A x \in Stored(products) : products[x].category \in Stored(categories'),
           \A c \in Categories : categories[c] # None =>
               categories'[c] # None /\ (c \in Stored(categories') => c \in Stored(categories)),
           \A q \in Procs \ {p} : CategoryCall(calls[q])'
    PROVE  IInv' /\ Kept
<1>1. /\ Others(p) /\ calls'[p] = IdleCall
      /\ Keeps(p) /\ locks' \in LockTable /\ left' \in 0..MaxCalls
  BY CallEnds
<1>2. CallSound(p)' /\ Selects(p) /\ Continues(p)
  BY <1>1, IdleSound
<1>3. TypeOK'
  BY <1>1 DEF IInv, TypeOK, LockTable, Tables
<1>4. Writes(p)
  <2>1. ASSUME NEW x \in Products, NEW q \in Procs \ {p}, x \in calls'[q].rows PROVE products[x] # None
    BY <1>1, <2>1 DEF IInv, CallSound, RowsFit, Others
  <2> QED
    BY <2>1 DEF Writes, Kept
<1>5. Nested'
  <2>1. \A c \in Categories : c \in Stored(categories)' /\ categories[c] # None => c \in Stored(categories)
    OBVIOUS
  <2> QED
    BY <1>1, <1>2, <1>3, <2>1, NestedStays
<1>6. JobsSound'
  BY <1>1, <1>2, AllContinue, JobsStay
<1>7. TreeIsAcyclic' /\ SkusMatchSpecifications' /\ (~LateCreation => ImageContract')
  BY DEF IInv, TreeIsAcyclic, SkusMatchSpecifications, ImageContract
<1> QED
  BY <1>1, <1>2, <1>3, <1>4, <1>5, <1>6, <1>7, StepSound

\* The rows that a deletion or a re-parenting locked are not another call's.
LEMMA HeldCategory ==
    ASSUME IInv, NEW q \in Procs, calls[q].pc \in {"category_commit", "category_delete"}
    PROVE  /\ calls[q].req.code \in Categories /\ calls[q].req.code \in Stored(categories)
           /\ calls[q].req.code \in calls[q].rows /\ locks[calls[q].req.code] = q
           /\ \A p \in Procs \ {q} : locks[calls[q].req.code] \notin {None, p}
<1>1. RequestFits(calls[q]) /\ RowsFit(calls[q]) /\ Holding(q) /\ CategoryCall(calls[q])
  BY DEF IInv, CallSound
<1>2. calls[q].req.code \in calls[q].rows /\ calls[q].pc \in Locking
  BY <1>1 DEF RowsFit, Reparenting, Locking
<1>3. calls[q].req.code \in Categories
  BY <1>1 DEF RequestFits, Reparenting
<1>4. calls[q].req.code \in Stored(categories)
  BY <1>1 DEF CategoryCall
<1> QED
  BY <1>1, <1>2, <1>3, <1>4, CatalogAssumption DEF Holding

LEMMA CreateCategoryCommitSound ==
    ASSUME IInv, NEW p \in Procs, CreateCategoryCommit(p), UNCHANGED jobs
    PROVE  IInv' /\ Kept
<1> DEFINE c == calls[p].req.code
           parent == calls[p].req.parent
           row == [parent |-> parent, active |-> TRUE]
           fits == categories[c] = None /\ CategoryPresent(parent)
<1>1. /\ calls[p].pc = "category_create" /\ Referable(p, parent)
      /\ categories' = IF fits THEN [categories EXCEPT ![c] = row] ELSE categories
      /\ EndCall(p) /\ UNCHANGED products
  BY DEF CreateCategoryCommit, At
<1>2. CASE ~fits
  BY <1>1, <1>2, EndsQuietly
<1>3. CASE fits
  <2>1. c \in Categories /\ parent \in Categories \cup {None} /\ row \in Category /\ row.parent = parent
    BY <1>1 DEF IInv, CallSound, RequestFits, Category
  <2>2. PICK table : table = categories
    OBVIOUS
  <2>3. PICK grown : grown = categories'
    OBVIOUS
  <2>4. /\ table \in Tables /\ IsTree(table) /\ table[c] = None
        /\ parent # None => parent \in Stored(table)
        /\ grown = [table EXCEPT ![c] = row]
    BY <1>1, <1>3, <2>2, <2>3 DEF IInv, TypeOK, TreeIsAcyclic, Tables, CategoryPresent
  <2> HIDE DEF row
  <2>5. PICK new : new = row
    OBVIOUS
  <2>6. PICK d : d = c
    OBVIOUS
  <2>7. new \in Category /\ new.parent = parent /\ d \in Categories /\ grown = [table EXCEPT ![d] = new]
        /\ table[d] = None
    BY <2>1, <2>4, <2>5, <2>6
  <2>8. /\ grown \in Tables /\ IsTree(grown)
        /\ \A b \in Categories : table[b] # None => Above(grown, b) \subseteq Above(table, b)
    BY <2>4, <2>7, TreeGrows
  <2>9. /\ grown[d] = new /\ \A b \in Categories \ {d} : grown[b] = table[b]
        /\ \A b \in Categories : table[b] # None => b # d
    BY <2>4, <2>7 DEF Tables
  <2>10. new \notin {None, Gone}
    BY <2>7, CatalogAssumption
  <2>11. /\ Stored(grown) = Stored(table) \cup {d} /\ Stored(table) \subseteq Categories
         /\ \A b \in Stored(table) : table[b] # None
    BY <2>4, <2>7, <2>9, <2>10 DEF Tables, Stored
  <2>12. ASSUME NEW q \in Procs \ {p} PROVE CategoryCall(calls[q])'
    <3>1. calls'[q].pc = calls[q].pc /\ calls'[q].req = calls[q].req
      BY <1>1, CallEnds DEF Others
    <3>2. CategoryCall(calls[q]) /\ RequestFits(calls[q])
      BY DEF IInv, CallSound
    <3>3. CASE calls[q].pc = "category_commit"
      <4>1. calls[q].req.code \in Stored(grown)
        BY <2>2, <2>11, <3>2, <3>3 DEF CategoryCall
      <4>2. ASSUME "parent" \in DOMAIN calls[q].req.change, calls[q].req.change.parent # None
            PROVE  /\ grown[calls[q].req.change.parent] # None
                   /\ calls[q].req.code \notin Above(grown, calls[q].req.change.parent)
        <5>1. calls[q].req.change \in CategoryChanges
          BY <3>2, <3>3 DEF RequestFits, Reparenting
        <5>2. calls[q].req.change.parent \in Categories
          BY <4>2, <5>1, CatalogInputsAssumption
        <5>3. /\ table[calls[q].req.change.parent] # None
              /\ calls[q].req.code \notin Above(table, calls[q].req.change.parent)
          BY <2>2, <3>2, <3>3, <4>2 DEF CategoryCall
        <5> QED
          BY <2>8, <2>9, <5>2, <5>3
      <4> QED
        BY <2>3, <3>1, <3>3, <4>1, <4>2 DEF CategoryCall
    <3>4. CASE calls[q].pc = "category_delete"
      <4>1. /\ calls[q].req.code \in Stored(table)
            /\ locks[calls[q].req.code] \notin {None, p} /\ calls[q].req.code # None
        BY <2>2, <3>4, HeldCategory, CatalogAssumption
      <4>2. parent # calls[q].req.code
        BY <1>1, <4>1 DEF Referable
      <4>3. ~InUse(calls[q].req.code)
        BY <3>2, <3>4 DEF CategoryCall
      <4>4. \A b \in Stored(grown) : grown[b].parent # calls[q].req.code
        BY <2>2, <2>7, <2>9, <2>11, <4>2, <4>3 DEF InUse
      <4>5. (~InUse(calls[q].req.code))'
        BY <1>1, <2>3, <3>1, <4>3, <4>4 DEF InUse
      <4> QED
        BY <2>3, <2>11, <3>1, <3>4, <4>1, <4>5 DEF CategoryCall
    <3> QED
      BY <3>1, <3>3, <3>4 DEF CategoryCall
  <2>13. \A x \in Stored(products) : products[x].category \in Stored(grown)
    BY <2>2, <2>11 DEF IInv, TreeIsAcyclic
  <2>14. \A b \in Categories : categories[b] # None =>
             categories'[b] # None /\ (b \in Stored(categories') => b \in Stored(categories))
    BY <2>2, <2>3, <2>9, <2>11
  <2> QED
    BY <1>1, <2>3, <2>8, <2>12, <2>13, <2>14, CategoryWriteSound
<1> QED
  BY <1>2, <1>3

LEMMA DeleteCategoryCommitSound ==
    ASSUME IInv, NEW p \in Procs, DeleteCategoryCommit(p), UNCHANGED jobs
    PROVE  IInv' /\ Kept
<1>1. /\ calls[p].pc = "category_delete" /\ EndCall(p) /\ UNCHANGED products
      /\ categories' = [categories EXCEPT ![calls[p].req.code] = Gone]
  BY DEF DeleteCategoryCommit, At
<1>2. PICK c : c = calls[p].req.code
  OBVIOUS
<1>3. PICK table : table = categories
  OBVIOUS
<1>4. PICK shrunk : shrunk = categories'
  OBVIOUS
<1>5. /\ table \in Tables /\ IsTree(table) /\ c \in Stored(table) /\ c \in Categories
      /\ shrunk = [table EXCEPT ![c] = Gone] /\ locks[c] = p
  BY <1>1, <1>2, <1>3, <1>4, HeldCategory DEF IInv, TypeOK, TreeIsAcyclic, Tables
<1>6. /\ \A d \in Stored(table) : table[d].parent # c
      /\ \A x \in Stored(products) : products[x].category # c
  BY <1>1, <1>2, <1>3 DEF IInv, CallSound, CategoryCall, InUse
<1>7. /\ shrunk \in Tables /\ IsTree(shrunk)
      /\ \A b \in Categories : Above(shrunk, b) \subseteq Above(table, b)
  BY <1>5, <1>6, TreeShrinks
<1>8. /\ shrunk[c] = Gone /\ Gone # None /\ \A b \in Categories \ {c} : shrunk[b] = table[b]
      /\ Stored(shrunk) = Stored(table) \ {c} /\ Stored(table) \subseteq Categories
  BY <1>5, CatalogAssumption DEF Tables, Stored
<1>9. ASSUME NEW q \in Procs \ {p} PROVE CategoryCall(calls[q])'
  <2>1. calls'[q].pc = calls[q].pc /\ calls'[q].req = calls[q].req
    BY <1>1, CallEnds DEF Others
  <2>2. CategoryCall(calls[q]) /\ RequestFits(calls[q])
    BY DEF IInv, CallSound
  <2>3. CASE calls[q].pc \in {"category_commit", "category_delete"}
    <3>1. calls[q].req.code \in Stored(shrunk)
      BY <1>3, <1>5, <1>8, <2>3, HeldCategory
    <3>2. ASSUME calls[q].pc = "category_commit", "parent" \in DOMAIN calls[q].req.change,
                 calls[q].req.change.parent # None
          PROVE  /\ shrunk[calls[q].req.change.parent] # None
                 /\ calls[q].req.code \notin Above(shrunk, calls[q].req.change.parent)
      <4>1. calls[q].req.change \in CategoryChanges
        BY <2>2, <3>2 DEF RequestFits, Reparenting
      <4>2. calls[q].req.change.parent \in Categories
        BY <3>2, <4>1, CatalogInputsAssumption
      <4>3. /\ table[calls[q].req.change.parent] # None
            /\ calls[q].req.code \notin Above(table, calls[q].req.change.parent)
        BY <1>3, <2>2, <3>2 DEF CategoryCall
      <4> QED
        BY <1>7, <1>8, <4>2, <4>3
    <3>3. ASSUME calls[q].pc = "category_delete" PROVE (~InUse(calls[q].req.code))'
      <4>1. ~InUse(calls[q].req.code)
        BY <2>2, <3>3 DEF CategoryCall
      <4>2. \A b \in Stored(shrunk) : b \in Stored(table) /\ shrunk[b] = table[b]
        BY <1>8
      <4> QED
        <5>1. ~\E b \in Stored(shrunk) : shrunk[b].parent = calls[q].req.code
          BY <1>3, <4>1, <4>2 DEF InUse
        <5>2. ~\E x \in Stored(products) : products[x].category = calls[q].req.code
          BY <4>1 DEF InUse
        <5> QED
          BY <1>1, <1>4, <2>1, <5>1, <5>2 DEF InUse
    <3> QED
      BY <1>4, <2>1, <3>1, <3>2, <3>3 DEF CategoryCall
  <2>4. CASE calls[q].pc \notin {"category_commit", "category_delete"}
    BY <2>1, <2>4 DEF CategoryCall
  <2> QED
    BY <2>3, <2>4
<1>10. \A x \in Stored(products) : products[x].category \in Stored(shrunk)
  BY <1>3, <1>6, <1>8 DEF IInv, TreeIsAcyclic
<1>11. \A b \in Categories : categories[b] # None =>
           categories'[b] # None /\ (b \in Stored(categories') => b \in Stored(categories))
  BY <1>3, <1>4, <1>8
<1> QED
  BY <1>1, <1>4, <1>7, <1>9, <1>10, <1>11, CategoryWriteSound

\* Two re-parentings are never between their locks and their commits at once.
LEMMA OneReparenting ==
    ASSUME IInv, NEW p \in Procs, NEW q \in Procs \ {p}, calls[p].pc = "category_commit"
    PROVE  calls[q].pc # "category_commit"
<1> SUFFICES ASSUME calls[q].pc = "category_commit" PROVE FALSE
  OBVIOUS
<1>1. \A r \in {p, q} : /\ calls[r].req.code \in calls[r].rows \cap Stored(categories)
                        /\ Holding(r) /\ calls[r].pc \in Locking
  BY HeldCategory DEF IInv, CallSound, Locking
<1>2. \/ calls[p].rows \cap Stored(categories) \subseteq calls[q].rows
      \/ calls[q].rows \cap Stored(categories) \subseteq calls[p].rows
  BY DEF IInv, Nested, Reparenting
<1>3. PICK r : r \in calls[p].rows /\ r \in calls[q].rows
  BY <1>1, <1>2
<1> QED
  BY <1>1, <1>3 DEF Holding

LEMMA UpdateCategoryCommitSound ==
    ASSUME IInv, NEW p \in Procs, UpdateCategoryCommit(p), UNCHANGED jobs
    PROVE  IInv' /\ Kept
<1> DEFINE c == calls[p].req.code
           change == calls[p].req.change
           fits == /\ c \in Stored(categories)
                   /\ "parent" \in DOMAIN change => CategoryPresent(change.parent)
<1>1. /\ calls[p].pc = "category_commit"
      /\ "parent" \in DOMAIN change => Referable(p, change.parent)
      /\ categories' = IF fits THEN [categories EXCEPT ![c] = Over(change, @)] ELSE categories
      /\ EndCall(p) /\ UNCHANGED products
  BY DEF UpdateCategoryCommit, At
<1>2. CASE ~fits
  BY <1>1, <1>2, EndsQuietly
<1>3. CASE fits
  <2>1. PICK table : table = categories
    OBVIOUS
  <2>2. PICK moved : moved = categories'
    OBVIOUS
  <2>3. PICK new : new = Over(change, table[c])
    OBVIOUS
  <2>4. PICK d : d = c
    OBVIOUS
  <2>5. /\ table \in Tables /\ IsTree(table) /\ d \in Stored(table) /\ d \in Categories
        /\ moved = [table EXCEPT ![d] = new] /\ locks[d] = p
    BY <1>1, <1>3, <2>1, <2>2, <2>3, <2>4, HeldCategory DEF IInv, TypeOK, TreeIsAcyclic, Tables
  <2>6. change \in CategoryChanges
    BY <1>1 DEF IInv, CallSound, RequestFits, Reparenting
  <2>7. /\ table[d] \in Category /\ table[d].parent \in Categories \cup {None}
        /\ table[d].active \in BOOLEAN /\ DOMAIN table[d] = {"parent", "active"}
    BY <2>5, StoredCategory DEF Category
  <2>8. /\ DOMAIN change \subseteq {"parent", "active"}
        /\ "parent" \in DOMAIN change => change.parent \in Categories \cup {None}
        /\ "active" \in DOMAIN change => change.active \in BOOLEAN
    BY <2>6, CatalogInputsAssumption
  <2> HIDE DEF change
  <2>9. /\ new = [k \in {"parent", "active"} |-> new[k]]
        /\ new.parent = IF "parent" \in DOMAIN change THEN change.parent ELSE table[d].parent
        /\ new.active = IF "active" \in DOMAIN change THEN change.active ELSE table[d].active
    BY <2>3, <2>4, <2>7, <2>8 DEF Over
  <2>10. new = [parent |-> new.parent, active |-> new.active]
    BY <2>9
  <2>11. new.parent \in Categories \cup {None} /\ new.active \in BOOLEAN
    BY <2>7, <2>8, <2>9
  <2>12. new \in Category
    BY <2>10, <2>11 DEF Category
  <2>13. new.parent # None => new.parent \in Stored(table) /\ d \notin Above(table, new.parent)
    <3>1. CASE "parent" \in DOMAIN change
      <4>1. /\ CategoryPresent(change.parent)
            /\ change.parent # None => c \notin Above(categories, change.parent)
        BY <1>1, <1>3, <3>1 DEF IInv, CallSound, CategoryCall, change
      <4> QED
        BY <2>1, <2>4, <2>9, <3>1, <4>1 DEF CategoryPresent
    <3>2. CASE "parent" \notin DOMAIN change
      BY <2>5, <2>9, <3>2 DEF IsTree
    <3> QED
      BY <3>1, <3>2
  <2>14. moved \in Tables /\ IsTree(moved) /\ Stored(moved) = Stored(table)
    BY <2>5, <2>12, <2>13, TreeMoves
  <2>15. moved[d] = new /\ \A b \in Categories \ {d} : moved[b] = table[b]
    BY <2>5 DEF Tables
  <2>16. ASSUME NEW q \in Procs \ {p} PROVE CategoryCall(calls[q])'
    <3>1. calls'[q].pc = calls[q].pc /\ calls'[q].req = calls[q].req
      BY <1>1, CallEnds DEF Others
    <3>2. CategoryCall(calls[q])
      BY DEF IInv, CallSound
    <3>3. calls[q].pc # "category_commit"
      BY <1>1, OneReparenting
    <3>4. ASSUME calls[q].pc = "category_delete"
          PROVE  calls[q].req.code \in Stored(moved) /\ (~InUse(calls[q].req.code))'
      <4>1. PICK e : e = calls[q].req.code
        OBVIOUS
      <4>2. e \in Stored(table) /\ locks[e] \notin {None, p} /\ e # None /\ ~InUse(e)
        BY <2>1, <3>2, <3>4, <4>1, HeldCategory, CatalogAssumption DEF CategoryCall
      <4>3. "parent" \in DOMAIN change => change.parent # e
        BY <1>1, <4>2 DEF Referable, change
      <4>4. \A b \in Stored(moved) : moved[b].parent # e
        BY <2>1, <2>5, <2>9, <2>14, <2>15, <4>2, <4>3, StoredCategory DEF InUse
      <4>5. (~InUse(e))'
        BY <1>1, <2>2, <4>2, <4>4 DEF InUse
      <4> QED
        BY <2>14, <3>1, <4>1, <4>2, <4>5
    <3> QED
      BY <2>2, <3>1, <3>3, <3>4 DEF CategoryCall
  <2>17. \A x \in Stored(products) : products[x].category \in Stored(moved)
    BY <2>1, <2>14 DEF IInv, TreeIsAcyclic
  <2>18. \A b \in Categories : categories[b] # None =>
             categories'[b] # None /\ (b \in Stored(categories') => b \in Stored(categories))
    BY <2>1, <2>2, <2>12, <2>14, <2>15, CatalogAssumption
  <2> QED
    BY <1>1, <2>2, <2>14, <2>16, <2>17, <2>18, CategoryWriteSound
<1> QED
  BY <1>2, <1>3

-----------------------------------------------------------------------------
(* Commits to the products                                                   *)

\* What a transaction that writes products must have made sure of.
LEMMA TableWriteSound ==
    ASSUME IInv, NEW p \in Procs, Others(p), Keeps(p), locks' \in LockTable,
           left' \in 0..MaxCalls, calls'[p] = IdleCall, UNCHANGED categories,
           products' \in [Products -> Product \cup {None}],
           \A x \in Products : \/ products'[x] = products[x] \/ products[x] = None
                               \/ locks[x] \in {None, p},
           \A x \in Products : products[x] # None /\ products'[x] = None =>
               /\ products[x].status # "published"
               /\ \A q \in Procs \ {p} : x \notin calls'[q].rows,
           ~LateCreation => \A x \in Products :
               products[x] = None /\ products'[x] # None => ~ImportAhead(p, x),
           \A x \in Products : products'[x] # None =>
               /\ products'[x].category \in Stored(categories)
               /\ SkusMatch(products'[x]) /\ CodesFree(products', x, products'[x].skus)
               /\ ~LateCreation => ImagesMatch(products'[x]),
           References(p), jobs' \in [Jobs -> Job \cup {None}], JobsSound'
    PROVE  IInv' /\ Kept
<1>1. CallSound(p)' /\ Selects(p)
  BY IdleSound
<1>2. TypeOK'
  BY DEF IInv, TypeOK, LockTable
<1>3. Writes(p)
  <2>1. ASSUME NEW x \in Products, NEW q \in Procs \ {p}, locks[x] = q, products[x] # None
        PROVE  products'[x] = products[x]
    BY <2>1, CatalogAssumption
  <2>2. ASSUME ~LateCreation, NEW q \in Procs \ {p}, calls[q].pc \in Ahead,
               NEW x \in Affected(calls[q].req.workbook), products[x] = None
        PROVE  products'[x] = None
    <3>1. calls[q].req \in Imports
      BY <2>2 DEF IInv, CallSound, RequestFits, Ahead, Importing
    <3>2. x \in Products
      BY <3>1, WorkbookIs
    <3>3. ImportAhead(p, x)
      BY <2>2 DEF ImportAhead, Ahead
    <3> QED
      BY <2>2, <3>2, <3>3
  <2> QED
    BY <2>1, <2>2 DEF Writes, Kept
<1>4. \A q \in Procs \ {p} : CategoryCall(calls[q])'
  <2>1. ASSUME NEW q \in Procs \ {p} PROVE CategoryCall(calls[q])'
    <3>1. CallSound(q) /\ TypeOK
      BY DEF IInv
    <3> QED
      BY <1>2, <3>1, OthersCategoryCall
  <2> QED
    BY <2>1
<1>5. Nested'
  <2>1. \A c \in Categories : c \in Stored(categories)' /\ categories[c] # None => c \in Stored(categories)
    OBVIOUS
  <2> QED
    BY <1>1, <1>2, <2>1, NestedStays
<1>6. Stored(products)' \subseteq Products /\ \A x \in Stored(products)' : products'[x] # None
  BY <1>2 DEF TypeOK, Stored
<1>7. TreeIsAcyclic'
  BY <1>6 DEF IInv, TreeIsAcyclic, IsTree
<1>8. SkusMatchSpecifications'
  BY <1>6 DEF SkusMatchSpecifications
<1>9. ~LateCreation => ImageContract'
  BY <1>6 DEF ImageContract
<1> QED
  BY <1>1, <1>2, <1>3, <1>4, <1>5, <1>7, <1>8, <1>9, StepSound

\* A commit that stores one row.
LEMMA ProductWriteSound ==
    ASSUME IInv, NEW p \in Procs, EndCall(p), UNCHANGED <<categories, jobs>>,
           NEW x \in Products, NEW row \in Product, products' = [products EXCEPT ![x] = row],
           products[x] = None \/ locks[x] \in {None, p},
           row.category \in Stored(categories),
           \/ products[x] # None /\ products[x].category = row.category
           \/ locks[row.category] \in {None, p},
           SkusMatch(row), ~LateCreation => ImagesMatch(row), CodesFree(products, x, row.skus),
           ~LateCreation /\ products[x] = None => ~ImportAhead(p, x)
    PROVE  IInv' /\ Kept
<1>1. /\ Others(p) /\ calls'[p] = IdleCall
      /\ Keeps(p) /\ locks' \in LockTable /\ left' \in 0..MaxCalls
  BY CallEnds
<1>2. TypeOK /\ products \in [Products -> Product \cup {None}]
  BY DEF IInv, TypeOK
<1>3. /\ products'[x] = row /\ \A y \in Products \ {x} : products'[y] = products[y]
      /\ row # None /\ row # Gone
  BY <1>2, CatalogAssumption
<1>4. products' \in [Products -> Product \cup {None}]
  BY <1>2
<1>5. Stored(products') = Stored(products) \cup {x}
  BY <1>2, <1>3, <1>4 DEF Stored
<1>6. \A y \in Stored(products) \ {x} :
          /\ y \in Products /\ products[y].category \in Stored(categories)
          /\ SkusMatch(products[y]) /\ CodesFree(products, y, products[y].skus)
          /\ ~LateCreation => ImagesMatch(products[y])
  BY <1>2, StoredProduct DEF IInv, TreeIsAcyclic, SkusMatchSpecifications, ImageContract
<1>7. CodesFree(products', x, row.skus)
  BY <1>3, <1>5, <1>6 DEF CodesFree
<1>8. ASSUME NEW y \in Stored(products) \ {x} PROVE CodesFree(products', y, products[y].skus)
  <2>1. \A z \in Stored(products) \ {x, y} :
            z \in Products /\ Codes(products[z].skus) \cap Codes(products[y].skus) = {}
    BY <1>6 DEF CodesFree
  <2>2. Codes(row.skus) \cap Codes(products[y].skus) = {}
    BY DEF CodesFree
  <2> HIDE DEF Codes
  <2> QED
    BY <1>3, <1>5, <2>1, <2>2 DEF CodesFree
<1>9. \A y \in Products : products'[y] # None =>
          /\ products'[y].category \in Stored(categories)
          /\ SkusMatch(products'[y]) /\ CodesFree(products', y, products'[y].skus)
          /\ ~LateCreation => ImagesMatch(products'[y])
  <2>1. ASSUME NEW y \in Products \ {x}, products'[y] # None PROVE y \in Stored(products) \ {x}
    BY <1>2, <1>3, <2>1, StoredProduct
  <2> QED
    BY <1>3, <1>6, <1>7, <1>8, <2>1
<1>10. References(p)
  BY <1>3 DEF References
<1>11. jobs' \in [Jobs -> Job \cup {None}] /\ JobsSound'
  <2>1. \A q \in Procs : Continues(q)
    BY <1>1, IdleSound, AllContinue
  <2> QED
    BY <2>1, JobsStay DEF IInv, TypeOK
<1>12. \A y \in Products : \/ products'[y] = products[y] \/ products[y] = None
                           \/ locks[y] \in {None, p}
  BY <1>3
<1>13. \A y \in Products : products[y] # None /\ products'[y] = None =>
           /\ products[y].status # "published"
           /\ \A q \in Procs \ {p} : y \notin calls'[q].rows
  BY <1>3
<1>14. ~LateCreation => \A y \in Products :
           products[y] = None /\ products'[y] # None => ~ImportAhead(p, y)
  BY <1>3
<1> QED
  BY <1>1, <1>4, <1>9, <1>10, <1>11, <1>12, <1>13, <1>14, TableWriteSound

LEMMA CreateProductCommitSound ==
    ASSUME IInv, NEW p \in Procs, CreateProductCommit(p), UNCHANGED jobs
    PROVE  IInv' /\ Kept
<1> DEFINE x == calls[p].req.code
           row == calls[p].req.row
           fits == /\ products[x] = None /\ CategoryPresent(row.category)
                   /\ CodesFree(products, x, row.skus)
<1>1. /\ calls[p].pc = "product_create" /\ Referable(p, row.category)
      /\ ~LateCreation => ~ImportAhead(p, x)
      /\ products' = IF fits THEN [products EXCEPT ![x] = row] ELSE products
      /\ EndCall(p) /\ UNCHANGED categories
  BY DEF CreateProductCommit, At
<1>2. CASE ~fits
  BY <1>1, <1>2, EndsQuietly
<1>3. CASE fits
  <2>1. x \in Products /\ row \in Product
    BY <1>1 DEF IInv, CallSound, RequestFits
  <2>2. Decided(row) /\ row.images = <<>>
    BY <1>1 DEF IInv, CallSound, ProductCall
  <2>3. row.category \in Categories /\ row.category # None
    BY <2>1, ProductIs, CatalogAssumption
  <2>4. row.category \in Stored(categories) /\ locks[row.category] \in {None, p}
    BY <1>1, <1>3, <2>3 DEF CategoryPresent, Referable
  <2>5. SkusMatch(row)
    BY <2>2 DEF Decided
  <2>6. WithinLimits(row.images)
    BY <2>2, NoImages, CatalogRulesAssumption DEF WithinLimits
  <2>7. ImagesMatch(row)
    BY <2>2, <2>6 DEF ImagesMatch, Decided, CoverIfPublished
  <2>8. products' = [products EXCEPT ![x] = row] /\ products[x] = None /\ CodesFree(products, x, row.skus)
    BY <1>1, <1>3
  <2> HIDE DEF x, row
  <2> QED
    BY <1>1, <2>1, <2>4, <2>5, <2>7, <2>8, ProductWriteSound
<1> QED
  BY <1>2, <1>3

\* The product that a request has locked.
LEMMA HeldProduct ==
    ASSUME IInv, NEW p \in Procs,
           calls[p].pc \in {"product_commit", "product_delete", "image_commit", "image_delete"}
    PROVE  /\ calls[p].req.code \in Products /\ locks[calls[p].req.code] = p
           /\ products[calls[p].req.code] # None /\ products[calls[p].req.code] \in Product
           /\ products[calls[p].req.code].category \in Stored(categories)
           /\ SkusMatch(products[calls[p].req.code])
           /\ CodesFree(products, calls[p].req.code, products[calls[p].req.code].skus)
           /\ ~LateCreation => ImagesMatch(products[calls[p].req.code])
<1>1. RequestFits(calls[p]) /\ RowsFit(calls[p]) /\ Holding(p) /\ TypeOK
  BY DEF IInv, CallSound
<1>2. calls[p].pc \in Locking
  BY DEF Locking
<1>3. calls[p].req.code \in Products /\ calls[p].req.code \in calls[p].rows
  BY <1>1 DEF RequestFits, RowsFit
<1>4. locks[calls[p].req.code] = p /\ products[calls[p].req.code] # None
  BY <1>1, <1>2, <1>3 DEF Holding, RowsFit
<1>5. calls[p].req.code \in Stored(products) /\ products[calls[p].req.code] \in Product
  BY <1>1, <1>3, <1>4, StoredProduct
<1> QED
  BY <1>3, <1>4, <1>5 DEF IInv, TreeIsAcyclic, SkusMatchSpecifications, ImageContract

LEMMA UpdateProductCommitSound ==
    ASSUME IInv, NEW p \in Procs, UpdateProductCommit(p), UNCHANGED jobs
    PROVE  IInv' /\ Kept
<1> DEFINE x == calls[p].req.code
           change == calls[p].req.change
           fits == /\ products[x] # None
                   /\ "category" \in DOMAIN change => CategoryPresent(change.category)
                   /\ "skus" \in DOMAIN change => CodesFree(products, x, SyncedSkus(x, change.skus))
<1>1. /\ calls[p].pc = "product_commit"
      /\ "category" \in DOMAIN change => Referable(p, change.category)
      /\ products' = IF fits THEN [products EXCEPT ![x] = Updated(x, @, change)] ELSE products
      /\ EndCall(p) /\ UNCHANGED categories
  BY DEF UpdateProductCommit, At
<1>2. CASE ~fits
  BY <1>1, <1>2, EndsQuietly
<1>3. CASE fits
  <2>1. PICK old : old = products[x]
    OBVIOUS
  <2>2. PICK row : row = Updated(x, old, change)
    OBVIOUS
  <2>3. change \in ProductChanges
    BY <1>1 DEF IInv, CallSound, RequestFits
  <2>4. /\ x \in Products /\ locks[x] = p /\ products[x] # None /\ old \in Product
        /\ old.category \in Stored(categories) /\ CodesFree(products, x, old.skus)
        /\ ~LateCreation => ImagesMatch(old)
    BY <1>1, <2>1, HeldProduct
  <2>5. Decided(row)
    BY <1>1, <2>1, <2>2 DEF IInv, CallSound, ProductCall
  <2>6. /\ row.images = old.images
        /\ row.skus = IF "skus" \in DOMAIN change THEN SyncedSkus(x, change.skus) ELSE old.skus
        /\ row.category = IF "category" \in DOMAIN change THEN change.category ELSE old.category
    BY <2>2, <2>3, <2>4, UpdatedFields
  <2>7. row \in Product /\ SkusMatch(row) /\ CoverIfPublished(row)
    BY <2>5 DEF Decided
  <2>8. "category" \in DOMAIN change => change.category \in Categories /\ change.category # None
    BY <2>3, CatalogInputsAssumption, CatalogAssumption
  <2>9. /\ row.category \in Stored(categories)
        /\ \/ old.category = row.category
           \/ locks[row.category] \in {None, p}
    BY <1>1, <1>3, <2>4, <2>6, <2>8 DEF CategoryPresent, Referable
  <2>10. CodesFree(products, x, row.skus)
    BY <1>3, <2>4, <2>6
  <2>11. ~LateCreation => ImagesMatch(row)
    BY <2>4, <2>6, <2>7 DEF ImagesMatch, CoverIfPublished
  <2>12. products' = [products EXCEPT ![x] = row]
    BY <1>1, <1>3, <2>1, <2>2
  <2> HIDE DEF x
  <2> QED
    BY <1>1, <2>1, <2>4, <2>7, <2>9, <2>10, <2>11, <2>12, ProductWriteSound
<1> QED
  BY <1>2, <1>3

\* A row that gets other images is otherwise the same.
LEMMA ImagesReplaced ==
    ASSUME NEW row \in Product, NEW images \in ImageMaps, NEW new, new = [row EXCEPT !.images = images]
    PROVE  /\ new \in Product /\ new.status = row.status /\ new.category = row.category
           /\ new.document = row.document /\ new.skus = row.skus /\ new.images = images
  BY DEF Product

LEMMA ImageWriteSound ==
    ASSUME IInv, NEW p \in Procs, calls[p].pc \in {"image_commit", "image_delete"},
           EndCall(p), UNCHANGED <<categories, jobs>>, NEW images \in ImageMaps,
           products' = [products EXCEPT ![calls[p].req.code].images = images],
           ~LateCreation =>
               /\ WithinLimits(images)
               /\ products[calls[p].req.code].status = "published" => Count(images, "cover") = 1
    PROVE  IInv' /\ Kept
<1>1. PICK x : x = calls[p].req.code
  OBVIOUS
<1>2. PICK old : old = products[x]
  OBVIOUS
<1>3. PICK row : row = [old EXCEPT !.images = images]
  OBVIOUS
<1>4. /\ x \in Products /\ locks[x] = p /\ products[x] # None /\ old \in Product
      /\ old.category \in Stored(categories) /\ CodesFree(products, x, old.skus) /\ SkusMatch(old)
  BY <1>1, <1>2, HeldProduct
<1>5. /\ row \in Product /\ row.status = old.status /\ row.category = old.category
      /\ row.document = old.document /\ row.skus = old.skus /\ row.images = images
  BY <1>3, <1>4, ImagesReplaced
<1>6. SkusMatch(row)
  BY <1>4, <1>5 DEF SkusMatch
<1>7. ~LateCreation => ImagesMatch(row)
  BY <1>1, <1>2, <1>5 DEF ImagesMatch
<1>8. products' = [products EXCEPT ![x] = row]
  BY <1>1, <1>2, <1>3
<1> QED
  BY <1>2, <1>4, <1>5, <1>6, <1>7, <1>8, ProductWriteSound

LEMMA UploadImageCommitSound ==
    ASSUME IInv, NEW p \in Procs, UploadImageCommit(p), UNCHANGED jobs
    PROVE  IInv' /\ Kept
<1> DEFINE x == calls[p].req.code
           role == calls[p].req.role
           with(key) == Over([k \in {key} |-> role], products[x].images)
<1>1. /\ calls[p].pc = "image_commit" /\ EndCall(p) /\ UNCHANGED categories
      /\ \E key \in FreshKeys :
            products' = IF OneCover(with(key)) THEN [products EXCEPT ![x].images = with(key)]
                        ELSE products
  BY DEF UploadImageCommit, At
<1>2. PICK key \in FreshKeys :
          products' = IF OneCover(with(key)) THEN [products EXCEPT ![x].images = with(key)]
                      ELSE products
  BY <1>1
<1>3. CASE ~OneCover(with(key))
  BY <1>1, <1>2, <1>3, EndsQuietly
<1>4. CASE OneCover(with(key))
  <2>1. PICK old : old = products[x].images
    OBVIOUS
  <2>2. PICK images : images = with(key)
    OBVIOUS
  <2>3. /\ x \in Products /\ products[x] # None /\ products[x] \in Product
        /\ ~LateCreation => ImagesMatch(products[x])
    BY <1>1, HeldProduct
  <2>4. old \in ImageMaps
    BY <2>1, <2>3, ProductIs
  <2>5. key \in ObjectKeys \ DOMAIN old
    BY <2>1, <2>3, StoredProduct DEF FreshKeys, IInv
  <2>6. role \in Roles
    BY <1>1 DEF IInv, CallSound, RequestFits
  <2>7. PICK r : r = role
    OBVIOUS
  <2>8. images = PlusKey(old, key, r)
    BY <2>1, <2>2, <2>7 DEF PlusKey
  <2>9. /\ images \in ImageMaps /\ Count(images, r) = Count(old, r) + 1
        /\ \A other \in Roles \ {r} : Count(images, other) = Count(old, other)
    BY <2>4, <2>5, <2>6, <2>7, <2>8, KeyAdded
  <2>10. Count(old, r) < Limits[r] /\ Count(old, r) \in Nat /\ Limits[r] \in Nat
    BY <1>1, <2>1, <2>4, <2>6, <2>7, ImageMapIs, CatalogRulesAssumption
       DEF IInv, CallSound, ProductCall, HasCapacity, Roles
  <2>11. ASSUME ~LateCreation
         PROVE  /\ WithinLimits(images)
                /\ products[x].status = "published" => Count(images, "cover") = 1
    <3>1. /\ WithinLimits(old)
          /\ products[x].status = "published" => Count(old, "cover") = 1
      BY <2>1, <2>3, <2>11 DEF ImagesMatch
    <3>2. Count(images, r) <= Limits[r]
      BY <2>9, <2>10
    <3>3. WithinLimits(images)
      BY <2>9, <3>1, <3>2 DEF WithinLimits, Roles
    <3>4. r = "cover" => Count(old, "cover") # 1
      BY <2>10, CatalogRulesAssumption
    <3>5. "cover" \in Roles
      BY CatalogRulesAssumption DEF Roles
    <3> QED
      BY <2>9, <3>1, <3>3, <3>4, <3>5
  <2>12. products' = [products EXCEPT ![x].images = images]
    BY <1>2, <1>4, <2>2
  <2> HIDE DEF with
  <2> QED
    BY <1>1, <2>9, <2>11, <2>12, ImageWriteSound
<1> QED
  BY <1>3, <1>4

LEMMA DeleteImageCommitSound ==
    ASSUME IInv, NEW p \in Procs, DeleteImageCommit(p), UNCHANGED jobs
    PROVE  IInv' /\ Kept
<1> DEFINE x == calls[p].req.code
           key == calls[p].req.key
           without == [k \in DOMAIN products[x].images \ {key} |-> products[x].images[k]]
<1>1. /\ calls[p].pc = "image_delete" /\ EndCall(p) /\ UNCHANGED categories
      /\ products' = [products EXCEPT ![x].images = without]
  BY DEF DeleteImageCommit, At
<1>2. PICK old : old = products[x].images
  OBVIOUS
<1>3. PICK images : images = without
  OBVIOUS
<1>4. PICK k : k = key
  OBVIOUS
<1>5. /\ x \in Products /\ products[x] # None /\ products[x] \in Product
      /\ ~LateCreation => ImagesMatch(products[x])
  BY <1>1, HeldProduct
<1>6. old \in ImageMaps
  BY <1>2, <1>5, ProductIs
<1>7. images = MinusKey(old, k)
  BY <1>2, <1>3, <1>4 DEF MinusKey
<1>8. /\ images \in ImageMaps /\ \A role \in Roles : Count(images, role) <= Count(old, role)
      /\ \A role \in Roles : old[k] # role => Count(images, role) = Count(old, role)
  BY <1>6, <1>7, KeyRemoved
<1>9. ~(products[x].status = "published" /\ old[k] = "cover")
  BY <1>1, <1>2, <1>4 DEF IInv, CallSound, ProductCall
<1>10. ASSUME ~LateCreation
       PROVE  /\ WithinLimits(images)
              /\ products[x].status = "published" => Count(images, "cover") = 1
  <2>1. /\ WithinLimits(old)
        /\ products[x].status = "published" => Count(old, "cover") = 1
    BY <1>2, <1>5, <1>10 DEF ImagesMatch
  <2>2. \A role \in Roles : Count(images, role) \in Nat /\ Count(old, role) \in Nat /\ Limits[role] \in Nat
    BY <1>6, <1>8, ImageMapIs, CatalogRulesAssumption DEF Roles
  <2>3. WithinLimits(images)
    BY <1>8, <2>1, <2>2 DEF WithinLimits, Roles
  <2>4. "cover" \in Roles
    BY CatalogRulesAssumption DEF Roles
  <2> QED
    BY <1>8, <1>9, <2>1, <2>3, <2>4
<1>11. products' = [products EXCEPT ![x].images = images]
  BY <1>1, <1>3
<1> HIDE DEF without
<1> QED
  BY <1>1, <1>8, <1>10, <1>11, ImageWriteSound

LEMMA DeleteProductCommitSound ==
    ASSUME IInv, NEW p \in Procs, DeleteProductCommit(p), UNCHANGED jobs
    PROVE  IInv' /\ Kept
<1>1. PICK x : x = calls[p].req.code
  OBVIOUS
<1>2. /\ calls[p].pc = "product_delete" /\ Release(p) /\ UNCHANGED categories
      /\ products' = [products EXCEPT ![x] = None]
      /\ calls' = [q \in Procs |-> IF q = p THEN IdleCall
                      ELSE [calls[q] EXCEPT !.rows = @ \ {x}]]
  BY <1>1 DEF DeleteProductCommit, At
<1>3. x \in Products /\ locks[x] = p /\ products[x] # None
  BY <1>1, <1>2, HeldProduct
<1>4. TypeOK /\ products \in [Products -> Product \cup {None}]
  BY DEF IInv, TypeOK
<1>5. /\ products'[x] = None /\ \A y \in Products \ {x} : products'[y] = products[y]
      /\ products' \in [Products -> Product \cup {None}]
  BY <1>2, <1>3, <1>4
<1>6. ASSUME NEW q \in Procs \ {p}
      PROVE  /\ IsCall(calls[q])'
             /\ calls'[q].pc = calls[q].pc /\ calls'[q].req = calls[q].req
             /\ calls'[q].seen = calls[q].seen /\ calls'[q].job = calls[q].job
             /\ calls'[q].rows = calls[q].rows \ {x}
  <2>1. IsCall(calls[q])
    BY DEF IInv, CallSound
  <2>2. calls'[q] = [calls[q] EXCEPT !.rows = @ \ {x}]
    BY <1>2
  <2>3. calls'[q] = [pc |-> calls[q].pc, req |-> calls[q].req, rows |-> calls[q].rows \ {x},
                     seen |-> calls[q].seen, job |-> calls[q].job]
    BY <2>1, <2>2 DEF IsCall
  <2> QED
    BY <2>3 DEF IsCall
<1>7. Others(p)
  <2>1. calls' = [q \in Procs |-> calls'[q]]
    BY <1>2
  <2> QED
    BY <1>3, <1>5, <1>6, <2>1 DEF Others
<1>8. calls'[p] = IdleCall
  BY <1>2
<1>9. Keeps(p) /\ locks' \in LockTable /\ left' \in 0..MaxCalls
  BY <1>2, Releases
<1>10. \A y \in Products : \/ products'[y] = products[y] \/ products[y] = None
                           \/ locks[y] \in {None, p}
  BY <1>3, <1>5
<1>11. \A y \in Products : products[y] # None /\ products'[y] = None =>
           /\ products[y].status # "published"
           /\ \A q \in Procs \ {p} : y \notin calls'[q].rows
  <2>1. products[x].status # "published"
    BY <1>1, <1>2 DEF IInv, CallSound, ProductCall
  <2> QED
    BY <1>5, <1>6, <2>1
<1>12. \A y \in Products : products'[y] # None => products[y] # None /\ products'[y] = products[y]
  BY <1>5
<1>13. Stored(products') \subseteq Stored(products)
       /\ \A y \in Stored(products') : y \in Products /\ products'[y] = products[y]
  BY <1>4, <1>5, <1>12 DEF Stored
<1>14. ASSUME NEW y \in Products, products'[y] # None
       PROVE  /\ products'[y].category \in Stored(categories)
              /\ SkusMatch(products'[y]) /\ CodesFree(products', y, products'[y].skus)
              /\ ~LateCreation => ImagesMatch(products'[y])
  <2>1. y \in Stored(products) /\ products'[y] = products[y]
    BY <1>4, <1>12, <1>14, StoredProduct
  <2>2. /\ products[y].category \in Stored(categories)
        /\ SkusMatch(products[y]) /\ CodesFree(products, y, products[y].skus)
        /\ ~LateCreation => ImagesMatch(products[y])
    BY <2>1 DEF IInv, TreeIsAcyclic, SkusMatchSpecifications, ImageContract
  <2>3. CodesFree(products', y, products[y].skus)
    BY <1>13, <2>2 DEF CodesFree
  <2> QED
    BY <2>1, <2>2, <2>3
<1>15. References(p)
  BY <1>12 DEF References
<1>16. jobs' \in [Jobs -> Job \cup {None}] /\ JobsSound'
  <2>1. \A q \in Procs : Continues(q)
    BY <1>7, <1>8, IdleSound, AllContinue
  <2> QED
    BY <2>1, JobsStay DEF IInv, TypeOK
<1>17. ~LateCreation => \A y \in Products :
           products[y] = None /\ products'[y] # None => ~ImportAhead(p, y)
  BY <1>12
<1> QED
  BY <1>2, <1>5, <1>7, <1>8, <1>9, <1>10, <1>11, <1>14, <1>15, <1>16, <1>17, TableWriteSound

-----------------------------------------------------------------------------
(* The commit of an import                                                   *)

LEMMA KeysAreFresh ==
    ASSUME TypeOK
    PROVE  /\ FreshKeys \subseteq ObjectKeys
           /\ \A x \in Products : products[x] # None =>
                 \A key \in FreshKeys : key \notin DOMAIN products[x].images
  BY StoredProduct DEF FreshKeys

\* The row that an import stores for x is the one that its validation was about.
LEMMA AppliedIs ==
    ASSUME IInv, NEW p \in Procs, calls[p].pc = "import_select",
           NEW w, w = calls[p].req.workbook, OwnersFound(w),
           NEW copies \in Injection(StagedKeys(w), FreshKeys),
           NEW x \in Affected(w), NEW row, row = Applied(x, calls[p].seen[x], w, copies)
    PROVE  row \in Product /\ SkusMatch(row) /\ (~LateCreation => ImagesMatch(row))
<1>1. PICK seen : seen = calls[p].seen[x]
  OBVIOUS
<1>2. PICK now : now = IF products[x] = None THEN <<>> ELSE products[x].images
  OBVIOUS
<1>3. PICK written : written = IF x \in DOMAIN w.rows \cup DOMAIN w.skus
                               THEN FinalRow(x, seen, w) ELSE products[x]
  OBVIOUS
<1>4. PICK roles : roles = FinalRoles(x, now, Copied(w.images, copies))
  OBVIOUS
<1>5. row = [written EXCEPT !.images = roles]
  BY <1>1, <1>2, <1>3, <1>4 DEF Applied
<1>6. calls[p].req \in Imports /\ Computed(calls[p]) /\ (~LateCreation => UpToDate(calls[p])) /\ TypeOK
  BY DEF IInv, CallSound, RequestFits, Importing, ImportCall
<1>7. /\ Affected(w) \subseteq Products /\ w.images \in ImageRows
      /\ DOMAIN w.rows \subseteq Affected(w) /\ DOMAIN w.skus \subseteq Affected(w)
  BY <1>6, WorkbookIs
<1>8. x \in Products /\ (products[x] # None => products[x] \in Product /\ x \in Stored(products))
  BY <1>6, <1>7, StoredProduct
<1>9. now \in ImageMaps
  BY <1>2, <1>8, ProductIs, NoImages
<1>10. /\ copies \in [Staged(w.images) -> ObjectKeys]
       /\ \A k, l \in Staged(w.images) : copies[k] = copies[l] => k = l
       /\ \A k \in Staged(w.images) : copies[k] \in FreshKeys
  BY <1>6, KeysAreFresh DEF Injection, IsInjective, StagedKeys, Staged
<1>11. Copies(w.images, copies)
  BY <1>6, <1>10 DEF Copies, Computed
<1>12. roles \in ImageMaps
  BY <1>4, <1>7, <1>9, <1>11, AppliedImagesTyped
<1>13. x \in DOMAIN w.rows \cup DOMAIN w.skus \/ products[x] # None
  <2>1. x \notin DOMAIN w.rows \cup DOMAIN w.skus => x \in Stored(products)
    BY DEF Affected, OwnersFound
  <2> QED
    BY <1>6, <2>1, StoredProduct
<1>14. written \in Product /\ SkusMatch(written)
  <2>1. CASE x \in DOMAIN w.rows \cup DOMAIN w.skus
    BY <1>1, <1>3, <1>6, <2>1 DEF Computed
  <2>2. CASE x \notin DOMAIN w.rows \cup DOMAIN w.skus
    BY <1>3, <1>8, <1>13, <2>2 DEF IInv, SkusMatchSpecifications
  <2> QED
    BY <2>1, <2>2
<1>15. /\ row \in Product /\ row.status = written.status /\ row.category = written.category
       /\ row.document = written.document /\ row.skus = written.skus /\ row.images = roles
  BY <1>5, <1>12, <1>14, ImagesReplaced
<1>16. SkusMatch(row)
  BY <1>14, <1>15 DEF SkusMatch
<1>17. ASSUME ~LateCreation PROVE ImagesMatch(row)
  <2>1. products[x] = seen /\ ImagesParse(x, w)
    BY <1>1, <1>6, <1>17 DEF UpToDate
  <2>2. \A r \in w.images : ~r.staged =>
            r.code \in Products /\ products[r.code] # None /\ r.key \in DOMAIN products[r.code].images
    BY <1>6, <1>7, <1>17, WorkbookIs DEF UpToDate
  <2>3. \A y \in Products : products[y] # None =>
            \A key \in FreshKeys : key \notin DOMAIN products[y].images
    BY <1>6, KeysAreFresh
  <2>4. Renames(w.images, copies)
    <3>1. ASSUME NEW r \in w.images, NEW s \in w.images, r.staged, ~s.staged PROVE copies[r.key] # s.key
      <4>1. r.key \in Staged(w.images)
        BY <3>1 DEF Staged
      <4> QED
        BY <1>10, <2>2, <2>3, <3>1, <4>1
    <3> QED
      BY <1>10, <1>11, <3>1 DEF Renames
  <2>5. Placed(x, now, w.images, copies)
    <3>1. \A k \in Staged(w.images) : copies[k] \notin DOMAIN now
      BY <1>2, <1>8, <1>10, <2>3, NoImages
    <3>2. \A r \in w.images : r.code = x /\ ~r.staged => r.key \in DOMAIN now
      BY <1>2, <2>2
    <3> QED
      BY <3>1, <3>2 DEF Placed
  <2>6. PICK counted : counted = FinalRoles(x, now, w.images)
    OBVIOUS
  <2>7. \A role : Count(roles, role) = Count(counted, role)
    BY <1>4, <1>7, <1>9, <2>4, <2>5, <2>6, AppliedImagesCounted
  <2>8. /\ WithinLimits(counted)
        /\ (IF x \in DOMAIN w.rows THEN w.rows[x].status ELSE products[x].status) = "published" =>
               Count(counted, "cover") = 1
    BY <1>2, <2>1, <2>6 DEF ImagesParse, RolesAfter
  <2>9. row.status = IF x \in DOMAIN w.rows THEN w.rows[x].status ELSE products[x].status
    <3>1. CASE x \in DOMAIN w.rows \cup DOMAIN w.skus
      <4>1. FinalRow(x, seen, w).status =
                IF x \in DOMAIN w.rows THEN w.rows[x].status ELSE seen.status
        BY <1>1, <1>6, <3>1 DEF Computed
      <4> QED
        BY <1>3, <1>15, <2>1, <3>1, <4>1
    <3>2. CASE x \notin DOMAIN w.rows \cup DOMAIN w.skus
      BY <1>3, <1>15, <3>2
    <3> QED
      BY <3>1, <3>2
  <2> QED
    BY <1>15, <2>7, <2>8, <2>9 DEF ImagesMatch, WithinLimits
<1> QED
  BY <1>15, <1>16, <1>17

\* The job of an import that commits says so; no other call runs it.
LEMMA JobCompleted ==
    ASSUME IInv, NEW p \in Procs, calls[p].pc = "import_select", EndCall(p),
           NEW j, j = calls[p].job,
           jobs' = [jobs EXCEPT ![j].status = "completed", ![j].applied = @ + 1]
    PROVE  JobsSound' /\ jobs' \in [Jobs -> Job \cup {None}]
<1>1. JobsSound /\ TypeOK /\ jobs \in [Jobs -> Job \cup {None}]
  BY DEF IInv, TypeOK
<1>2. calls[p].pc \in Running /\ calls[p].pc \in Ahead
  BY DEF Running, Ahead
<1>3. j \in Stored(jobs) /\ jobs[j].applied = 0 /\ ~jobs[j].req.dry
  BY <1>1, <1>2 DEF JobsSound, RunsJob
<1>4. j \in Jobs /\ jobs[j] \in Job /\ Stored(jobs) = {i \in Jobs : jobs[i] # None}
  BY <1>1, <1>3, StoredJobs
<1> DEFINE one == [jobs EXCEPT ![j].status = "completed"]
<1>5. PICK half : half = [jobs[j] EXCEPT !.status = "completed"]
  OBVIOUS
<1>6. half = [req |-> jobs[j].req, status |-> "completed", applied |-> 0]
  BY <1>3, <1>4, <1>5 DEF Job
<1>7. PICK row : row = [half EXCEPT !.applied = @ + 1]
  OBVIOUS
<1>8. row = [req |-> jobs[j].req, status |-> "completed", applied |-> 1]
  BY <1>6, <1>7
<1>9. row \in Job /\ row.status = "completed" /\ row.applied = 1 /\ row.req = jobs[j].req
  BY <1>4, <1>8 DEF Job
<1>10. row \notin {None, Gone}
  BY <1>9, CatalogImportAssumption
<1>11. one[j] = half /\ DOMAIN one = Jobs /\ \A i \in Jobs \ {j} : one[i] = jobs[i]
  BY <1>1, <1>4, <1>5
<1>12. jobs' = [one EXCEPT ![j].applied = @ + 1]
  OBVIOUS
<1> HIDE DEF one
<1>13. jobs'[j] = row /\ DOMAIN jobs' = Jobs /\ \A i \in Jobs \ {j} : jobs'[i] = jobs[i]
  BY <1>4, <1>7, <1>11, <1>12
<1>14. jobs' \in [Jobs -> Job \cup {None}]
  <2>1. jobs' = [i \in Jobs |-> jobs'[i]]
    BY <1>11, <1>12
  <2>2. \A i \in Jobs : jobs'[i] \in Job \cup {None}
    BY <1>1, <1>9, <1>13
  <2> QED
    BY <2>1, <2>2
<1>15. Stored(jobs') = Stored(jobs)
  <2>1. jobs[j] \notin {None, Gone}
    BY <1>3 DEF Stored
  <2> QED
    BY <1>1, <1>10, <1>13, <2>1 DEF Stored
<1>16. /\ \A i \in Stored(jobs) : jobs'[i].req = jobs[i].req
       /\ \A i \in Stored(jobs) \ {j} : jobs'[i] = jobs[i]
  BY <1>4, <1>9, <1>13
<1>17. \A i \in Stored(jobs') : JobSound(i)'
  <2>1. JobSound(j)'
    BY <1>3, <1>9, <1>13 DEF JobSound
  <2>2. ASSUME NEW i \in Stored(jobs) \ {j} PROVE JobSound(i)'
    <3>1. JobSound(i) /\ jobs'[i] = jobs[i]
      BY <1>1, <1>16 DEF JobsSound
    <3> QED
      BY <3>1 DEF JobSound
  <2> QED
    BY <1>15, <2>1, <2>2
<1>18. OneJobPerKey'
  <2>1. OneJobPerKey
    BY <1>1 DEF JobsSound
  <2>2. \A i \in Stored(jobs') : i \in Stored(jobs) /\ jobs'[i].req = jobs[i].req
    BY <1>15, <1>16
  <2>3. ASSUME NEW i \in Stored(jobs'), NEW k \in Stored(jobs'),
               jobs'[i].req.key # None, jobs'[i].req.key = jobs'[k].req.key
        PROVE  i = k
    <3>1. jobs[i].req.key # None /\ jobs[i].req.key = jobs[k].req.key
      BY <2>2, <2>3
    <3> QED
      BY <2>1, <2>2, <3>1 DEF OneJobPerKey
  <2> QED
    BY <2>3 DEF OneJobPerKey
<1>19. \A q \in Procs : Continues(q)
  BY CallEnds, IdleSound, AllContinue
<1>20. calls'[p].pc \notin Running
  BY CallEnds DEF IdleCall, Running
<1>21. ASSUME NEW q \in Procs, calls'[q].pc \in Running
       PROVE  /\ calls[q].pc \in Running /\ calls[q].job \in Stored(jobs) \ {j}
              /\ calls'[q].job = calls[q].job /\ calls'[q].req = calls[q].req
              /\ calls'[q].pc \in Ahead => ~calls[q].req.dry
  <2>1. q # p
    BY <1>20, <1>21
  <2>2. /\ calls[q].pc \in Running
        /\ calls'[q].job = calls[q].job /\ calls'[q].req = calls[q].req
        /\ calls'[q].pc \in Ahead => ~calls[q].req.dry
    BY <1>19, <1>21 DEF Continues
  <2>3. calls[q].job \in Stored(jobs)
    BY <1>1, <2>2 DEF JobsSound, RunsJob
  <2>4. calls[q].job # j
    BY <1>1, <1>2, <2>1, <2>2 DEF JobsSound, OwnJobs
  <2> QED
    BY <2>2, <2>3, <2>4
<1>22. \A q \in Procs : RunsJob(q)'
  <2>1. ASSUME NEW q \in Procs, calls'[q].pc \in Running
        PROVE  /\ calls'[q].job \in Stored(jobs') /\ jobs'[calls'[q].job].req = calls'[q].req
               /\ jobs'[calls'[q].job].applied = 0
               /\ calls'[q].pc \in Ahead => ~calls'[q].req.dry
    <3>1. PICK i : i = calls[q].job
      OBVIOUS
    <3>2. /\ calls[q].pc \in Running /\ i \in Stored(jobs) \ {j}
          /\ calls'[q].job = i /\ calls'[q].req = calls[q].req
          /\ calls'[q].pc \in Ahead => ~calls[q].req.dry
      BY <1>21, <2>1, <3>1
    <3>3. jobs[i].req = calls[q].req /\ jobs[i].applied = 0
      BY <1>1, <3>1, <3>2 DEF JobsSound, RunsJob
    <3>4. jobs'[i] = jobs[i] /\ i \in Stored(jobs')
      BY <1>15, <1>16, <3>2
    <3> QED
      BY <3>2, <3>3, <3>4
  <2> QED
    BY <2>1 DEF RunsJob
<1>23. OwnJobs'
  BY <1>1, <1>21 DEF JobsSound, OwnJobs
<1> QED
  BY <1>14, <1>17, <1>18, <1>22, <1>23 DEF JobsSound

LEMMA ImportApplySound ==
    ASSUME IInv, NEW p \in Procs, ImportApply(p)
    PROVE  IInv' /\ Kept
<1> DEFINE tableOf(w, copies) ==
        [x \in Products |-> IF x \in Affected(w) THEN Applied(x, calls[p].seen[x], w, copies)
                            ELSE products[x]]
<1>1. PICK w : w = calls[p].req.workbook
  OBVIOUS
<1>2. /\ calls[p].pc = "import_select" /\ RowsFree(p, Affected(w))
      /\ \A x \in Affected(w) : products[x] = None /\ ~LateCreation => ~ImportAhead(p, x)
  BY <1>1 DEF ImportApply, At
<1>3. CASE Fail(p)
  BY <1>2, <1>3, FailSound DEF Running
<1>4. CASE ~Fail(p)
  <2>1. /\ OwnersFound(w)
        /\ \E copies \in Injection(StagedKeys(w), FreshKeys) :
              /\ ReferencesFree(p, tableOf(w, copies))
              /\ Storable(tableOf(w, copies))
              /\ products' = tableOf(w, copies)
              /\ jobs' = [jobs EXCEPT ![calls[p].job].status = "completed",
                                      ![calls[p].job].applied = @ + 1]
              /\ EndCall(p)
              /\ UNCHANGED categories
    BY <1>1, <1>4 DEF ImportApply
  <2>2. PICK copies \in Injection(StagedKeys(w), FreshKeys) :
              /\ ReferencesFree(p, tableOf(w, copies))
              /\ Storable(tableOf(w, copies))
              /\ products' = tableOf(w, copies)
              /\ jobs' = [jobs EXCEPT ![calls[p].job].status = "completed",
                                      ![calls[p].job].applied = @ + 1]
              /\ EndCall(p)
              /\ UNCHANGED categories
    BY <2>1
  <2>3. PICK table : table = tableOf(w, copies)
    OBVIOUS
  <2>4. /\ \A x \in Affected(w) \cap Products : table[x] = Applied(x, calls[p].seen[x], w, copies)
        /\ \A x \in Products \ Affected(w) : table[x] = products[x]
        /\ table = [x \in Products |-> table[x]] /\ products' = table
        /\ ReferencesFree(p, table) /\ Storable(table)
    BY <2>2, <2>3
  <2> HIDE DEF tableOf
  <2>5. Affected(w) \subseteq Products /\ TypeOK
    BY <1>1, <1>2, WorkbookIs DEF IInv, CallSound, RequestFits, Importing
  <2>6. ASSUME NEW x \in Affected(w)
        PROVE  /\ table[x] \in Product /\ SkusMatch(table[x])
               /\ ~LateCreation => ImagesMatch(table[x])
    <3>1. PICK row : row = Applied(x, calls[p].seen[x], w, copies)
      OBVIOUS
    <3>2. row \in Product /\ SkusMatch(row) /\ (~LateCreation => ImagesMatch(row))
      BY <1>1, <1>2, <2>1, <3>1, AppliedIs
    <3> QED
      BY <2>4, <2>5, <3>1, <3>2
  <2>7. \A x \in Products : table[x] \in Product \cup {None}
    BY <2>4, <2>6 DEF IInv, TypeOK
  <2>8. products' \in [Products -> Product \cup {None}]
    BY <2>4, <2>7
  <2>9. \A x \in Affected(w) : table[x] # None
    BY <2>6, CatalogAssumption
  <2>10. Stored(table) = {x \in Products : table[x] # None}
    BY <2>4, <2>7, CatalogAssumption DEF Stored
  <2>11. \A x \in Products : \/ products'[x] = products[x] \/ products[x] = None
                             \/ locks[x] \in {None, p}
    BY <1>2, <2>4 DEF RowsFree
  <2>12. \A x \in Products : products[x] # None /\ products'[x] = None =>
             /\ products[x].status # "published"
             /\ \A q \in Procs \ {p} : x \notin calls'[q].rows
    BY <2>4, <2>9
  <2>13. ~LateCreation => \A x \in Products :
             products[x] = None /\ products'[x] # None => ~ImportAhead(p, x)
    BY <1>2, <2>4
  <2>14. ASSUME NEW x \in Products, products'[x] # None
         PROVE  /\ products'[x].category \in Stored(categories)
                /\ SkusMatch(products'[x]) /\ CodesFree(products', x, products'[x].skus)
                /\ ~LateCreation => ImagesMatch(products'[x])
    <3>1. x \in Stored(table) /\ products'[x] = table[x] /\ table[x] \in Product
      BY <2>4, <2>7, <2>10, <2>14
    <3>2. CategoryPresent(table[x].category) /\ CodesFree(table, x, table[x].skus)
      BY <2>4, <3>1 DEF Storable
    <3>3. table[x].category \in Categories /\ table[x].category # None
      BY <3>1, ProductIs, CatalogAssumption
    <3>4. table[x].category \in Stored(categories)
      BY <3>2, <3>3 DEF CategoryPresent
    <3>5. SkusMatch(table[x]) /\ (~LateCreation => ImagesMatch(table[x]))
      <4>1. CASE x \in Affected(w)
        BY <2>6, <4>1
      <4>2. CASE x \notin Affected(w)
        <5>1. table[x] = products[x] /\ products[x] # None
          BY <2>4, <2>14, <3>1, <4>2
        <5>2. x \in Stored(products)
          BY <2>5, <5>1, StoredProduct
        <5> QED
          BY <5>1, <5>2 DEF IInv, SkusMatchSpecifications, ImageContract
      <4> QED
        BY <4>1, <4>2
    <3> QED
      BY <2>4, <3>1, <3>2, <3>4, <3>5
  <2>15. References(p)
    <3>1. ASSUME NEW x \in Products, products'[x] # None
          PROVE  \/ products[x] # None /\ products'[x].category = products[x].category
                 \/ locks[products'[x].category] \in {None, p}
      <4>1. x \in Stored(table) /\ products'[x] = table[x] /\ table[x] \in Product
        BY <2>4, <2>7, <2>10, <3>1
      <4>2. table[x].category # None
        BY <4>1, ProductIs, CatalogAssumption
      <4>3. \/ x \in Stored(products) /\ products[x].category = table[x].category
            \/ Referable(p, table[x].category)
        BY <2>4, <4>1 DEF ReferencesFree
      <4> QED
        BY <2>5, <4>1, <4>2, <4>3, StoredProduct DEF Referable
    <3> QED
      BY <3>1 DEF References
  <2>16. jobs' \in [Jobs -> Job \cup {None}] /\ JobsSound'
    BY <1>2, <2>2, JobCompleted
  <2>17. /\ Others(p) /\ calls'[p] = IdleCall
         /\ Keeps(p) /\ locks' \in LockTable /\ left' \in 0..MaxCalls
    BY <2>2, CallEnds
  <2> QED
    BY <2>2, <2>8, <2>11, <2>12, <2>13, <2>14, <2>15, <2>16, <2>17, TableWriteSound
<1> QED
  BY <1>3, <1>4

-----------------------------------------------------------------------------
(* The invariant holds                                                       *)

LEMMA InitSound == Init => IInv
<1> SUFFICES ASSUME Init PROVE IInv
  OBVIOUS
<1>1. /\ categories \in InitialCategories /\ products \in InitialProducts
      /\ locks = [r \in Categories \cup Products |-> None]
      /\ calls = [p \in Procs |-> IdleCall] /\ left = MaxCalls
      /\ jobs = [j \in Jobs |-> None]
  BY DEF Init, CatalogInit
<1>2. /\ categories \in [Categories -> Category \cup {None, Gone}] /\ IsTree(categories)
      /\ products \in [Products -> Product \cup {None}]
      /\ \A x \in Stored(products) :
            /\ SkusMatch(products[x]) /\ ImagesMatch(products[x])
            /\ CodesFree(products, x, products[x].skus)
            /\ products[x].category \in Stored(categories)
  BY <1>1, InitialTablesAssumption
<1>3. TypeOK
  BY <1>1, <1>2, CatalogAssumption DEF TypeOK
<1>4. \A p \in Procs : calls[p] = IdleCall
  BY <1>1
<1>5. /\ IdleCall.pc = "idle" /\ IdleCall.rows = {}
      /\ IdleCall = [pc |-> IdleCall.pc, req |-> IdleCall.req, rows |-> IdleCall.rows,
                     seen |-> IdleCall.seen, job |-> IdleCall.job]
  BY DEF IdleCall
<1>6. \A p \in Procs : calls[p].pc = "idle" /\ calls[p].rows = {} /\ IsCall(calls[p])
  <2> HIDE DEF IdleCall
  <2> QED
    BY <1>4, <1>5 DEF IsCall
<1>7. ASSUME NEW p \in Procs PROVE CallSound(p)
  <2>1. calls[p].pc = "idle" /\ calls[p].rows = {} /\ IsCall(calls[p])
    BY <1>6
  <2>2. RequestFits(calls[p]) /\ RowsFit(calls[p]) /\ Holding(p)
    BY <2>1 DEF RequestFits, RowsFit, Holding, Reparenting, Importing, Locking
  <2>3. CategoryCall(calls[p]) /\ ProductCall(calls[p]) /\ ImportCall(calls[p])
    BY <2>1 DEF CategoryCall, ProductCall, ImportCall, Ahead
  <2> QED
    BY <2>1, <2>2, <2>3 DEF CallSound
<1>8. Nested
  BY <1>6 DEF Nested, Reparenting
<1>9. TreeIsAcyclic /\ SkusMatchSpecifications /\ ImageContract
  BY <1>2 DEF TreeIsAcyclic, SkusMatchSpecifications, ImageContract
<1>10. JobsSound
  <2>1. Stored(jobs) = {}
    BY <1>1 DEF Stored
  <2> QED
    BY <1>6, <2>1 DEF JobsSound, OneJobPerKey, RunsJob, OwnJobs, Running
<1>11. calls = [p \in Procs |-> calls[p]]
  BY <1>1
<1> QED
  BY <1>3, <1>7, <1>8, <1>9, <1>10, <1>11 DEF IInv

LEMMA StutterSound == IInv /\ UNCHANGED vars => IInv' /\ Kept
<1> SUFFICES ASSUME IInv, UNCHANGED vars PROVE IInv' /\ Kept
  OBVIOUS
<1>1. UNCHANGED <<categories, products, locks, calls, left, jobs>>
  BY DEF vars
<1>2. TypeOK' /\ (calls = [p \in Procs |-> calls[p]])'
  BY <1>1 DEF IInv, TypeOK
<1>3. \A p \in Procs : CallSound(p)'
  BY <1>1, SameCallSound DEF IInv
<1>4. Nested' /\ TreeIsAcyclic' /\ SkusMatchSpecifications' /\ (~LateCreation => ImageContract')
  BY <1>1 DEF IInv, Nested, TreeIsAcyclic, IsTree, SkusMatchSpecifications, ImageContract
<1>5. JobsSound'
  BY <1>1 DEF IInv, JobsSound, JobSound, OneJobPerKey, RunsJob, OwnJobs
<1> QED
  BY <1>1, <1>2, <1>3, <1>4, <1>5 DEF IInv, Kept

LEMMA CategoryStepSound ==
    ASSUME IInv, NEW p \in Procs, CategoryStep(p), UNCHANGED jobs
    PROVE  IInv' /\ Kept
  BY CreateCategorySound, UpdateCategorySound, DeleteCategorySound, CreateCategoryCommitSound,
     CategoryLockSound, UpdateCategoryCommitSound, DeleteCategoryCommitSound DEF CategoryStep

LEMMA ProductStepSound ==
    ASSUME IInv, NEW p \in Procs, ProductStep(p), UNCHANGED jobs
    PROVE  IInv' /\ Kept
  BY CreateProductSound, UpdateProductSound, DeleteProductSound, CreateProductCommitSound,
     UpdateProductCommitSound, DeleteProductCommitSound DEF ProductStep

LEMMA ImageStepSound ==
    ASSUME IInv, NEW p \in Procs, ImageStep(p), UNCHANGED jobs
    PROVE  IInv' /\ Kept
  BY UploadImageSound, DeleteImageSound, ImageLockSound, UploadImageCommitSound,
     DeleteImageCommitSound DEF ImageStep, Roles

LEMMA ImportStepSound ==
    ASSUME IInv, NEW p \in Procs, ImportStep(p)
    PROVE  IInv' /\ Kept
  BY ImportSound, ImportInsertSound, ConflictSound, ImportParseSound, ParseFailsSound, DryRunSound,
     ImportLockSound, ImportReparseSound, ImportApplySound, StorageFailsSound DEF ImportStep

LEMMA NextSound == IInv /\ [Next]_vars => IInv' /\ Kept
<1> SUFFICES ASSUME IInv, [Next]_vars PROVE IInv' /\ Kept
  OBVIOUS
<1>1. ASSUME NEW p \in Procs, CatalogStep(p), UNCHANGED jobs PROVE IInv' /\ Kept
  BY <1>1, CategoryStepSound, ProductStepSound, ImageStepSound DEF CatalogStep
<1>2. ASSUME NEW p \in Procs, ImportStep(p) PROVE IInv' /\ Kept
  BY <1>2, ImportStepSound
<1>3. ASSUME NEW p \in Procs, Crash(p) PROVE IInv' /\ Kept
  BY <1>3, CrashSound
<1>4. ASSUME NEW j \in Jobs, Recover(j) PROVE IInv' /\ Kept
  BY <1>4, RecoverSound
<1>5. CASE UNCHANGED vars
  BY <1>5, StutterSound
<1> QED
  BY <1>1, <1>2, <1>3, <1>4, <1>5 DEF Next, Done

\* The inductive invariant of the catalog: types, what every call has selected,
\* locked and validated (CatalogService, _apply_import), and who runs which job.
THEOREM InvariantHolds == Spec => []IInv
  BY InitSound, NextSound, PTL DEF Spec

\* Types. Rows are locked by threads, jobs are those of requests, and the rows the
\* tables hold are products and categories.
THEOREM TypeCorrect == Spec => []TypeOK
<1>1. IInv => TypeOK
  BY DEF IInv
<1> QED
  BY <1>1, InvariantHolds, PTL

\* However creations, re-parentings and deletions interleave, the category tree
\* stays a tree and nothing refers to a category that is gone.
THEOREM TreeStaysATree == Spec => []TreeIsAcyclic
<1>1. IInv => TreeIsAcyclic
  BY DEF IInv
<1> QED
  BY <1>1, InvariantHolds, PTL

\* Stored SKUs refer to the stored document, one active SKU is the default and no
\* two products share a code: requests and imports, late creations included.
THEOREM SkusAlwaysMatch == Spec => []SkusMatchSpecifications
<1>1. IInv => SkusMatchSpecifications
  BY DEF IInv
<1> QED
  BY <1>1, InvariantHolds, PTL

\* When no product is created behind the locks of an import, image limits are kept
\* and a published product has its cover.
THEOREM ImagesWithinContract == ASSUME ~LateCreation PROVE Spec => []ImageContract
<1>1. IInv => ImageContract
  BY DEF IInv
<1> QED
  BY <1>1, InvariantHolds, PTL

\* No key has two jobs, and none of its jobs was applied twice.
THEOREM KeysAppliedOnce == Spec => []ImportAppliedOnce
<1>1. IInv => ImportAppliedOnce
  <2> SUFFICES ASSUME IInv, NEW key \in {r.key : r \in Imports} \ {None}
               PROVE  Cardinality(WithKey(key)) <= 1 /\ \A j \in WithKey(key) : jobs[j].applied <= 1
    BY DEF ImportAppliedOnce
  <2>1. \A i, j \in WithKey(key) : i = j
    BY DEF IInv, JobsSound, OneJobPerKey, WithKey
  <2>2. WithKey(key) = {} \/ \E j : WithKey(key) = {j}
    BY <2>1
  <2>3. Cardinality(WithKey(key)) <= 1
    <3>1. CASE WithKey(key) = {}
      BY <3>1, FS_EmptySet
    <3>2. ASSUME NEW j, WithKey(key) = {j} PROVE Cardinality(WithKey(key)) <= 1
      <4>1. Cardinality({j}) = 1
        BY FS_Singleton
      <4> QED
        BY <3>2, <4>1
    <3> QED
      BY <2>2, <3>1, <3>2
  <2>4. \A j \in WithKey(key) : jobs[j].applied <= 1
    BY DEF IInv, JobsSound, JobSound, WithKey
  <2> QED
    BY <2>3, <2>4
<1> QED
  BY <1>1, InvariantHolds, PTL

\* A job is completed exactly when its workbook was stored; a dry run never is.
THEOREM JobsTellTheTruth == Spec => []JobTellsTruth
<1>1. IInv => JobTellsTruth
  BY DEF IInv, JobsSound, JobSound, JobTellsTruth
<1> QED
  BY <1>1, InvariantHolds, PTL

\* A published product is never deleted: the status is read under the lock that
\* the deletion still holds when it commits.
THEOREM PublishedProductsStay == Spec => PublishedNeverDeleted
<1>1. IInv /\ [Next]_vars =>
          [\A x \in Products :
              products[x] # None /\ products[x].status = "published" => products'[x] # None]_products
  BY NextSound DEF Kept
<1> QED
  BY <1>1, InvariantHolds, PTL DEF Spec, PublishedNeverDeleted
=============================================================================
