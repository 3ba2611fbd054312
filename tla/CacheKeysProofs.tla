--------------------------- MODULE CacheKeysProofs ---------------------------
(***************************************************************************)
(* What CacheKeys keeps for any endpoints, requests, jobs and bounds, and  *)
(* for lists of items of any length: only what is declared gets a key, a   *)
(* key gives a request the response to what it asks for, and requests that *)
(* ask for the same share a key.                                           *)
(***************************************************************************)
EXTENDS CacheKeys, FiniteSetTheorems, FunctionTheorems, TLAPS

-----------------------------------------------------------------------------
(* InOrder enumerates: x is at the place that says how many members come   *)
(* no later, which is a bijection because sets and counts are finite.      *)

TotalOrder(S, R) ==
  /\ \A x \in S : <<x, x>> \in R
  /\ \A x, y \in S : <<x, y>> \in R \/ <<y, x>> \in R
  /\ \A x, y \in S : <<x, y>> \in R /\ <<y, x>> \in R => x = y
  /\ \A x, y, z \in S : <<x, y>> \in R /\ <<y, z>> \in R => <<x, z>> \in R

LEMMA InOrderEnumerates ==
  ASSUME NEW S, IsFiniteSet(S), NEW R, TotalOrder(S, R)
  PROVE  /\ Cardinality(S) \in Nat
         /\ InOrder(S, R) \in [1..Cardinality(S) -> S]
         /\ \A x \in S : \E n \in 1..Cardinality(S) : InOrder(S, R)[n] = x
         /\ \A m, n \in 1..Cardinality(S) : m < n =>
              /\ InOrder(S, R)[m] # InOrder(S, R)[n]
              /\ <<InOrder(S, R)[m], InOrder(S, R)[n]>> \in R
<1> DEFINE UpTo(x) == {y \in S : <<y, x>> \in R}
           N == Cardinality(S)
           rank == [x \in S |-> Cardinality(UpTo(x))]
           at == InOrder(S, R)
<1>1. N \in Nat
  BY FS_CardinalityType
<1>2. ASSUME NEW x \in S PROVE IsFiniteSet(UpTo(x)) /\ rank[x] \in 1..N
  <2>1. IsFiniteSet(UpTo(x)) /\ Cardinality(UpTo(x)) <= N
    BY FS_Subset, UpTo(x) \in SUBSET S
  <2>2. Cardinality(UpTo(x)) \in Nat
    BY <2>1, FS_CardinalityType
  <2>3. x \in UpTo(x)
    BY DEF TotalOrder
  <2>4. Cardinality(UpTo(x)) # 0
    BY <2>1, <2>3, FS_EmptySet
  <2> QED BY <1>1, <2>1, <2>2, <2>4
<1>3. ASSUME NEW x \in S, NEW y \in S, x # y, <<x, y>> \in R PROVE rank[x] < rank[y]
  <2>1. UpTo(x) \in SUBSET UpTo(y)
    BY <1>3 DEF TotalOrder
  <2>2. y \in UpTo(y) \ UpTo(x)
    BY <1>3 DEF TotalOrder
  <2>3. Cardinality(UpTo(x)) <= Cardinality(UpTo(y)) /\ Cardinality(UpTo(x)) # Cardinality(UpTo(y))
    BY <1>2, <2>1, <2>2, FS_Subset
  <2> QED BY <1>2, <2>3
<1>4. rank \in Injection(S, 1..N)
  <2>1. rank \in [S -> 1..N]
    BY <1>2
  <2>2. ASSUME NEW x \in S, NEW y \in S, rank[x] = rank[y] PROVE x = y
    <3>1. rank[x] \in Int /\ ~ (rank[x] < rank[y]) /\ ~ (rank[y] < rank[x])
      BY <1>1, <1>2, <2>2
    <3>2. <<x, y>> \in R \/ <<y, x>> \in R
      BY DEF TotalOrder
    <3> HIDE DEF rank
    <3> QED BY <1>3, <3>1, <3>2
  <2> QED BY <2>1, <2>2, Fun_IsInj
<1>5. rank \in Surjection(S, 1..N)
  <2>1. IsFiniteSet(1..N) /\ Cardinality(1..N) = N
    BY <1>1, FS_Interval
  <2> QED BY <1>4, <2>1, FS_Injection
<1>6. ASSUME NEW n \in 1..N PROVE at[n] \in S /\ rank[at[n]] = n
  <2>1. \E x \in S : Cardinality(UpTo(x)) = n
    BY <1>5 DEF Surjection
  <2>2. at[n] = CHOOSE x \in S : Cardinality(UpTo(x)) = n
    BY DEF InOrder
  <2>3. at[n] \in S /\ Cardinality(UpTo(at[n])) = n
    BY <2>1, <2>2
  <2> QED BY <2>3
<1>7. at \in [1..N -> S]
  BY <1>6 DEF InOrder
<1> HIDE DEF rank, at
<1>8. ASSUME NEW x \in S PROVE \E n \in 1..N : at[n] = x
  <2>1. rank[x] \in 1..N
    BY <1>2
  <2>2. at[rank[x]] \in S /\ rank[at[rank[x]]] = rank[x]
    BY <1>6, <2>1
  <2>3. at[rank[x]] = x
    BY <1>4, <2>2, Fun_InjectionProperties
  <2> QED BY <2>1, <2>3
<1>9. ASSUME NEW m \in 1..N, NEW n \in 1..N, m < n
      PROVE  at[m] # at[n] /\ <<at[m], at[n]>> \in R
  <2>1. at[m] # at[n]
    BY <1>1, <1>6, <1>9
  <2>2. ~ (<<at[n], at[m]>> \in R)
    BY <1>1, <1>3, <1>6, <1>9, <2>1
  <2> QED BY <1>6, <2>1, <2>2 DEF TotalOrder
<1> QED BY <1>1, <1>7, <1>8, <1>9 DEF at

\* The order of positions.
LEMMA PositionsAreOrdered ==
  ASSUME NEW P \in SUBSET Nat
  PROVE  TotalOrder(P, {r \in P \X P : r[1] <= r[2]})
BY DEF TotalOrder

\* A non-empty set of positions has a first one.
LEMMA FirstPosition ==
  ASSUME NEW n \in Nat, NEW P \in SUBSET (1..n), P # {}
  PROVE  \E i \in P : \A j \in P : i <= j
<1> DEFINE R == {r \in P \X P : r[1] <= r[2]}
<1>1. IsFiniteSet(P) /\ P \in SUBSET Nat
  <2>1. IsFiniteSet(1..n)
    BY FS_Interval
  <2>2. IsFiniteSet(P)
    BY <2>1, FS_Subset
  <2> QED BY <2>2
<1>2. TotalOrder(P, R) /\ \A i, j : <<i, j>> \in R => i <= j
  BY <1>1, PositionsAreOrdered
<1>3. Cardinality(P) \in Nat /\ Cardinality(P) # 0
  BY <1>1, FS_CardinalityType, FS_EmptySet
<1>4. 1 \in 1..Cardinality(P)
  BY <1>3
<1> HIDE DEF R
<1>5. InOrder(P, R)[1] \in P
  BY <1>1, <1>2, <1>4, InOrderEnumerates
<1>6. ASSUME NEW j \in P PROVE InOrder(P, R)[1] <= j
  <2>1. PICK m \in 1..Cardinality(P) : InOrder(P, R)[m] = j
    BY <1>1, <1>2, InOrderEnumerates
  <2>2. m = 1 \/ <<InOrder(P, R)[1], j>> \in R
    BY <1>1, <1>2, <1>3, <1>4, <2>1, InOrderEnumerates
  <2>3. InOrder(P, R)[1] \in Nat
    BY <1>1, <1>5
  <2> QED BY <1>2, <2>1, <2>2, <2>3
<1> QED BY <1>5, <1>6

-----------------------------------------------------------------------------
(* normalize_body: what remains of a list is what it lists, each item once *)
(* and in ascending order, and that is the same for lists of the same.     *)

Ascending(s) == \A i, j \in DOMAIN s : i < j => s[i] < s[j]

\* Select takes the items at the positions it is given, and keeps their order.
LEMMA SelectKeeps ==
  ASSUME NEW s \in Seq(Int), NEW P \in SUBSET (DOMAIN s)
  PROVE  /\ Select(s, P) \in Seq(Int)
         /\ Range(Select(s, P)) = {s[i] : i \in P}
         /\ (\A i, j \in P : i < j => s[i] < s[j]) => Ascending(Select(s, P))
<1> DEFINE R == {r \in P \X P : r[1] <= r[2]}
           at == InOrder(P, R)
           N == Cardinality(P)
<1>1. IsFiniteSet(P) /\ P \in SUBSET Nat
  <2>1. DOMAIN s = 1..Len(s) /\ IsFiniteSet(1..Len(s))
    BY FS_Interval
  <2>2. IsFiniteSet(P)
    BY <2>1, FS_Subset
  <2> QED BY <2>1, <2>2
<1>2. TotalOrder(P, R) /\ \A i, j : <<i, j>> \in R => i <= j
  BY <1>1, PositionsAreOrdered
<1>3. Select(s, P) = [n \in 1..N |-> s[at[n]]]
  BY DEF Select
<1> HIDE DEF R
<1>4. /\ N \in Nat
      /\ at \in [1..N -> P]
      /\ \A x \in P : \E n \in 1..N : at[n] = x
      /\ \A m, n \in 1..N : m < n => at[m] # at[n] /\ <<at[m], at[n]>> \in R
  BY <1>1, <1>2, InOrderEnumerates
<1> HIDE DEF at, N
<1>5. ASSUME NEW i \in P PROVE s[i] \in Int
  OBVIOUS
<1>6. Select(s, P) \in Seq(Int)
  BY <1>3, <1>4, <1>5
<1>7. Range(Select(s, P)) = {s[i] : i \in P}
  <2>1. Range(Select(s, P)) = {s[at[n]] : n \in 1..N}
    BY <1>3 DEF Range
  <2> QED BY <1>4, <2>1
<1>8. ASSUME \A i, j \in P : i < j => s[i] < s[j],
             NEW m \in 1..N, NEW n \in 1..N, m < n
      PROVE  s[at[m]] < s[at[n]]
  <2>1. at[m] \in P /\ at[n] \in P /\ at[m] # at[n] /\ at[m] <= at[n]
    BY <1>2, <1>4, <1>8
  <2>2. at[m] < at[n]
    BY <1>1, <2>1
  <2> QED BY <1>8, <2>1, <2>2
<1> QED BY <1>3, <1>6, <1>7, <1>8 DEF Ascending

LEMMA SortedSorts ==
  ASSUME NEW s \in Seq(Int)
  PROVE  /\ Sorted(s) \in Seq(Int)
         /\ Range(Sorted(s)) = Range(s)
         /\ \A i, j \in DOMAIN Sorted(s) : i < j => Sorted(s)[i] <= Sorted(s)[j]
<1> DEFINE D == DOMAIN s
           R == {r \in D \X D : s[r[1]] < s[r[2]] \/ (s[r[1]] = s[r[2]] /\ r[1] <= r[2])}
           at == InOrder(D, R)
<1>1. Len(s) \in Nat /\ D = 1..Len(s) /\ \A i \in D : s[i] \in Int
  OBVIOUS
<1>2. IsFiniteSet(D) /\ Cardinality(D) = Len(s)
  BY <1>1, FS_Interval
<1>3. \A i, j : <<i, j>> \in R <=>
        i \in D /\ j \in D /\ (s[i] < s[j] \/ (s[i] = s[j] /\ i <= j))
  OBVIOUS
<1>4. Sorted(s) = [n \in D |-> s[at[n]]]
  BY DEF Sorted
<1> HIDE DEF R, D
<1>5. TotalOrder(D, R)
  <2>1. \A i \in D : i \in Nat /\ s[i] \in Int
    BY <1>1
  <2>2. \A i \in D : <<i, i>> \in R
    BY <1>3, <2>1
  <2>3. ASSUME NEW i \in D, NEW j \in D PROVE <<i, j>> \in R \/ <<j, i>> \in R
    <3>1. i \in Nat /\ j \in Nat /\ s[i] \in Int /\ s[j] \in Int
      BY <2>1
    <3>2. s[i] < s[j] \/ s[j] < s[i] \/ (s[i] = s[j] /\ (i <= j \/ j <= i))
      BY <3>1
    <3> QED BY <1>3, <3>2
  <2>4. ASSUME NEW i \in D, NEW j \in D, <<i, j>> \in R, <<j, i>> \in R PROVE i = j
    <3>1. i \in Nat /\ j \in Nat /\ s[i] \in Int /\ s[j] \in Int
      BY <2>1
    <3>2. /\ s[i] < s[j] \/ (s[i] = s[j] /\ i <= j)
          /\ s[j] < s[i] \/ (s[j] = s[i] /\ j <= i)
      BY <1>3, <2>4
    <3> QED BY <3>1, <3>2
  <2>5. ASSUME NEW i \in D, NEW j \in D, NEW k \in D, <<i, j>> \in R, <<j, k>> \in R
        PROVE  <<i, k>> \in R
    <3>1. /\ i \in Nat /\ j \in Nat /\ k \in Nat
          /\ s[i] \in Int /\ s[j] \in Int /\ s[k] \in Int
      BY <2>1
    <3>2. /\ s[i] < s[j] \/ (s[i] = s[j] /\ i <= j)
          /\ s[j] < s[k] \/ (s[j] = s[k] /\ j <= k)
      BY <1>3, <2>5
    <3>3. s[i] < s[k] \/ (s[i] = s[k] /\ i <= k)
      BY <3>1, <3>2
    <3> QED BY <1>3, <3>3
  <2> QED BY <2>2, <2>3, <2>4, <2>5 DEF TotalOrder
<1>6. /\ at \in [D -> D]
      /\ \A x \in D : \E n \in D : at[n] = x
      /\ \A m, n \in D : m < n => <<at[m], at[n]>> \in R
  <2>1. 1..Cardinality(D) = D
    BY <1>1, <1>2
  <2>2. /\ at \in [1..Cardinality(D) -> D]
        /\ \A x \in D : \E n \in 1..Cardinality(D) : at[n] = x
        /\ \A m, n \in 1..Cardinality(D) : m < n => <<at[m], at[n]>> \in R
    BY <1>2, <1>5, InOrderEnumerates
  <2> QED BY <2>1, <2>2, Zenon
<1> HIDE DEF at
<1>7. Sorted(s) \in Seq(Int)
  <2>1. \A n \in D : s[at[n]] \in Int
    BY <1>1, <1>6
  <2> QED BY <1>1, <1>4, <2>1
<1>8. Range(Sorted(s)) = Range(s)
  BY <1>4, <1>6 DEF Range, D
<1>9. ASSUME NEW m \in D, NEW n \in D, m < n PROVE s[at[m]] <= s[at[n]]
  <2>1. s[at[m]] \in Int /\ s[at[n]] \in Int
    BY <1>1, <1>6
  <2>2. s[at[m]] < s[at[n]] \/ s[at[m]] = s[at[n]]
    BY <1>3, <1>6, <1>9
  <2> QED BY <2>1, <2>2
<1> QED BY <1>4, <1>7, <1>8, <1>9
LEMMA NormalBody ==
  ASSUME NEW b \in Seq(Int)
  PROVE  /\ NormalizeBody(b) \in Seq(Int)
         /\ Range(NormalizeBody(b)) = Range(b)
         /\ Ascending(NormalizeBody(b))
<1> DEFINE s == Sorted(b)
           P == Unseen(s)
<1>1. /\ s \in Seq(Int) /\ Range(s) = Range(b)
      /\ \A i, j \in DOMAIN s : i < j => s[i] <= s[j]
  BY SortedSorts
<1>2. NormalizeBody(b) = Select(s, P)
  BY BodiesAssumption DEF NormalizeBody
<1> HIDE DEF s
<1>3. /\ Len(s) \in Nat /\ DOMAIN s = 1..Len(s)
      /\ \A i \in DOMAIN s : i \in Nat /\ s[i] \in Int
  BY <1>1
<1>4. P \in SUBSET (DOMAIN s)
  BY DEF Unseen
<1>5. ASSUME NEW i \in P, NEW j \in P, i < j PROVE s[i] < s[j]
  <2>1. i \in DOMAIN s /\ j \in DOMAIN s /\ i \in 1..(j - 1)
    BY <1>3, <1>4, <1>5
  <2>2. s[i] # s[j]
    BY <2>1 DEF Unseen
  <2>3. s[i] <= s[j]
    BY <1>1, <1>5, <2>1
  <2> QED BY <1>3, <2>1, <2>2, <2>3
<1>6. ASSUME NEW j \in DOMAIN s PROVE \E i \in P : s[i] = s[j]
  <2> DEFINE Q == {i \in DOMAIN s : s[i] = s[j]}
  <2>1. Q \in SUBSET (1..Len(s)) /\ Q # {}
    BY <1>3
  <2>2. PICK i \in Q : \A k \in Q : i <= k
    BY <1>3, <2>1, FirstPosition
  <2>3. \A k \in 1..(i - 1) : s[k] # s[i]
    BY <1>3, <2>2
  <2>4. i \in P
    BY <2>2, <2>3 DEF Unseen
  <2> QED BY <2>2, <2>4
<1>7. {s[i] : i \in P} = Range(s)
  BY <1>4, <1>6 DEF Range
<1> HIDE DEF P
<1> QED BY <1>1, <1>2, <1>4, <1>5, <1>7, SelectKeeps

\* Up to its length, an ascending list of the same items is the same list.
LEMMA AscendingAgree ==
  ASSUME NEW s \in Seq(Int), NEW t \in Seq(Int), Ascending(s), Ascending(t), Range(s) = Range(t)
  PROVE  \A i \in DOMAIN s : i \in DOMAIN t /\ s[i] = t[i]
<1> DEFINE Q == {i \in DOMAIN s : ~ (i \in DOMAIN t /\ s[i] = t[i])}
<1>1. /\ Len(s) \in Nat /\ DOMAIN s = 1..Len(s) /\ \A i \in DOMAIN s : s[i] \in Int
      /\ Len(t) \in Nat /\ DOMAIN t = 1..Len(t) /\ \A i \in DOMAIN t : t[i] \in Int
  OBVIOUS
<1>2. /\ \A i \in DOMAIN s : \E j \in DOMAIN t : t[j] = s[i]
      /\ \A j \in DOMAIN t : \E i \in DOMAIN s : s[i] = t[j]
  BY DEF Range
<1>3. /\ \A i, j \in DOMAIN s : i < j => s[i] < s[j]
      /\ \A i, j \in DOMAIN t : i < j => t[i] < t[j]
  BY DEF Ascending
<1>4. SUFFICES ASSUME Q # {} PROVE FALSE
  OBVIOUS
<1>5. PICK i \in Q : \A k \in Q : i <= k
  BY <1>1, <1>4, FirstPosition
<1>6. i \in DOMAIN s /\ i \in Nat /\ s[i] \in Int
  BY <1>1
<1>7. ASSUME NEW k \in DOMAIN s, k < i PROVE k \in DOMAIN t /\ s[k] = t[k]
  <2>1. ~ (i <= k)
    BY <1>1, <1>6, <1>7
  <2> QED BY <1>5, <2>1
<1>8. PICK j \in DOMAIN t : t[j] = s[i]
  BY <1>2, <1>6
<1>9. ~ (j < i)
  <2>1. SUFFICES ASSUME j < i PROVE FALSE
    OBVIOUS
  <2>2. j \in DOMAIN s
    BY <1>1, <1>6, <2>1
  <2>3. s[j] = t[j] /\ s[j] < s[i]
    BY <1>3, <1>6, <1>7, <2>1, <2>2
  <2> QED BY <1>6, <1>8, <2>3
<1>10. i \in DOMAIN t /\ i < j /\ t[i] \in Int
  <2>1. i \in DOMAIN t
    BY <1>1, <1>6, <1>9
  <2>2. i # j
    BY <1>8, <2>1
  <2> QED BY <1>1, <1>6, <1>9, <2>1, <2>2
<1>11. t[i] < s[i]
  BY <1>3, <1>8, <1>10
<1>12. PICK m \in DOMAIN s : s[m] = t[i]
  BY <1>2, <1>10
<1>13. m \in Nat /\ m < i
  <2>1. m \in Nat /\ m # i
    BY <1>1, <1>6, <1>11, <1>12
  <2>2. ~ (i < m)
    BY <1>3, <1>6, <1>10, <1>11, <1>12
  <2> QED BY <1>6, <2>1, <2>2
<1>14. m \in DOMAIN t /\ t[m] = t[i] /\ t[m] < t[i]
  BY <1>3, <1>7, <1>10, <1>12, <1>13
<1> QED BY <1>10, <1>14

LEMMA NormalBodiesOfTheSameItems ==
  ASSUME NEW b \in Seq(Int), NEW c \in Seq(Int), Range(b) = Range(c)
  PROVE  NormalizeBody(b) = NormalizeBody(c)
<1> DEFINE s == NormalizeBody(b)
           t == NormalizeBody(c)
<1>1. /\ s \in Seq(Int) /\ Ascending(s)
      /\ t \in Seq(Int) /\ Ascending(t) /\ Range(s) = Range(t)
  BY NormalBody
<1> HIDE DEF s, t
<1>2. \A i \in DOMAIN s : i \in DOMAIN t /\ s[i] = t[i]
  BY <1>1, AscendingAgree
<1>3. \A i \in DOMAIN t : i \in DOMAIN s
  BY <1>1, AscendingAgree
<1>4. DOMAIN s = DOMAIN t
  BY <1>2, <1>3
<1>5. s = [i \in DOMAIN s |-> s[i]] /\ t = [i \in DOMAIN t |-> t[i]]
  BY <1>1
<1> QED BY <1>2, <1>4, <1>5 DEF s, t

\* Normalizing twice is normalizing once.
LEMMA NormalizeBodyIdempotent ==
  ASSUME NEW b \in Seq(Int) \cup {NoBody}
  PROVE  NormalizeBody(NormalizeBody(b)) = NormalizeBody(b)
<1>1. CASE b = NoBody
  BY <1>1 DEF NormalizeBody
<1>2. CASE b \in Seq(Int)
  BY <1>2, NormalBody, NormalBodiesOfTheSameItems
<1> QED BY <1>1, <1>2

-----------------------------------------------------------------------------
(* A key, of Redis or of the archive, denotes what is asked for under it:  *)
(* the method it may lack shows in its body.                               *)

Denotes(k) ==
  [version |-> k.version, path |-> k.path,
   method |-> IF k.hash[2] = NoBody THEN "GET" ELSE "POST",
   datasource |-> k.datasource, params |-> k.hash[1], items |-> Items(k.hash[2])]

LEMMA AcceptedBody ==
  ASSUME NEW q \in Requests, Accepted(q)
  PROVE  /\ NormalizeBody(NormalizeBody(q.body)) = NormalizeBody(q.body)
         /\ Items(NormalizeBody(q.body)) = Items(q.body)
         /\ q.method = IF NormalizeBody(q.body) = NoBody THEN "GET" ELSE "POST"
<1>1. q.body \in Seq(Int) \cup {NoBody}
  BY BodiesAssumption
<1>2. NormalizeBody(NormalizeBody(q.body)) = NormalizeBody(q.body)
  BY <1>1, NormalizeBodyIdempotent
<1>3. CASE q.method = "GET" /\ q.body = NoBody
  BY <1>2, <1>3 DEF NormalizeBody, Items
<1>4. CASE q.method = "POST" /\ q.body \in Seq(Int)
  <2>1. NormalizeBody(q.body) \in Seq(Int) /\ Range(NormalizeBody(q.body)) = Range(q.body)
    BY <1>4, NormalBody
  <2>2. NormalizeBody(q.body) # NoBody /\ q.body # NoBody
    BY <1>4, <2>1, BodiesAssumption
  <2> QED BY <1>2, <1>4, <2>1, <2>2 DEF Items
<1> QED BY <1>1, <1>3, <1>4, BodiesAssumption DEF Accepted

\* The proxy's keys denote what is asked for.
LEMMA KeysDenoteWhatIsAsked ==
  ASSUME NEW q \in Requests, Accepted(q)
  PROVE  Denotes(Key(q)) = Asks(q) /\ Denotes(ArchiveId(q)) = Asks(q)
<1>1. NormalizeParams(NormalizeParams(q.params)) = NormalizeParams(q.params)
  BY DEF NormalizeParams, Restrict
<1>2. Denotes(Key(q)) = Asks(q)
  BY AcceptedBody DEF Denotes, Key, CacheKey, QueryHash, NormalizeParams, Asks, ProxyParams
<1>3. Denotes(ArchiveId(q)) = Asks(q)
  BY <1>1, AcceptedBody DEF Denotes, ArchiveId, QueryHash, NormalizeParams, Asks, ProxyParams
<1> QED BY <1>2, <1>3

\* What ESI is sent with a datasource asks for that datasource and for the
\* other parameters.
LEMMA WithDatasourceMeans ==
  ASSUME NEW params, NEW d, {"datasource"} \cap DOMAIN params = {}
  PROVE  LET sent == WithDatasource(params, d) IN
         /\ d = IF "datasource" \in DOMAIN sent THEN sent["datasource"] ELSE "tranquility"
         /\ Restrict(sent, DOMAIN sent \ {"datasource"}) = Restrict(params, DOMAIN params)
BY DEF WithDatasource, Put, Restrict

\* So does what the proxy asks of ESI for it ...
LEMMA EsiRequestMeans ==
  ASSUME NEW q \in Requests, Accepted(q)
  PROVE  Means(EsiRequest(q)) = Asks(q)
<1> DEFINE sent == WithDatasource(NormalizeParams(q.params), Datasource(q))
<1>1. DOMAIN NormalizeParams(q.params) = DOMAIN q.params \ ProxyParams
  BY DEF NormalizeParams, Restrict
<1>2. /\ Datasource(q) = IF "datasource" \in DOMAIN sent THEN sent["datasource"]
                         ELSE "tranquility"
      /\ Restrict(sent, DOMAIN sent \ {"datasource"})
         = Restrict(NormalizeParams(q.params), DOMAIN NormalizeParams(q.params))
  BY <1>1, WithDatasourceMeans DEF ProxyParams
<1>3. Restrict(NormalizeParams(q.params), DOMAIN NormalizeParams(q.params))
      = Restrict(q.params, DOMAIN q.params \ {"page", "datasource"})
  BY DEF NormalizeParams, Restrict, ProxyParams
<1>4. EsiRequest(q) = [version |-> q.version, path |-> q.path, method |-> q.method,
                       params |-> sent, body |-> NormalizeBody(q.body)]
  BY DEF EsiRequest
<1> HIDE DEF sent
<1> QED BY <1>2, <1>3, <1>4, AcceptedBody DEF Means, Asks, ProxyParams

\* ... and the collector's keys denote what it asks ESI for, but for the
\* version of an alias.
LEMMA WarmKeysDenoteWhatIsFetched ==
  ASSUME NEW job \in Jobs
  PROVE  /\ \A v : Denotes(WarmKey(job, v)) = [Means(Fetch(job)) EXCEPT !.version = v]
         /\ Denotes(WarmId(job)) = Means(Fetch(job))
         /\ Means(Fetch(job)).version = job.version
<1> DEFINE sent == WithDatasource(job.params, default)
<1>1. DOMAIN job.params \cap {"page", "datasource"} = {} /\ job.method = "GET" /\ job.body = NoBody
  BY JobsAssumption
<1>2. /\ default = IF "datasource" \in DOMAIN sent THEN sent["datasource"] ELSE "tranquility"
      /\ Restrict(sent, DOMAIN sent \ {"datasource"}) = Restrict(job.params, DOMAIN job.params)
  <2>1. {"datasource"} \cap DOMAIN job.params = {}
    BY <1>1
  <2> QED BY <2>1, WithDatasourceMeans
<1>3. NormalizeParams(job.params) = Restrict(job.params, DOMAIN job.params)
  BY <1>1 DEF NormalizeParams, ProxyParams
<1>4. NormalizeBody(NoBody) = NoBody
  BY DEF NormalizeBody
<1>5. Fetch(job) = [version |-> job.version, path |-> job.path, method |-> job.method,
                    params |-> sent, body |-> job.body]
  BY DEF Fetch
<1> HIDE DEF sent
<1>6. Means(Fetch(job)) = [version |-> job.version, path |-> job.path, method |-> "GET",
                           datasource |-> default,
                           params |-> Restrict(job.params, DOMAIN job.params), items |-> {}]
  BY <1>1, <1>2, <1>5 DEF Means, Items
<1>7. ASSUME NEW v
      PROVE  Denotes(WarmKey(job, v))
             = [version |-> v, path |-> job.path, method |-> "GET", datasource |-> default,
                params |-> Restrict(job.params, DOMAIN job.params), items |-> {}]
  BY <1>1, <1>3, <1>4 DEF Denotes, WarmKey, CacheKey, QueryHash, Items
<1>8. Denotes(WarmId(job))
      = [version |-> job.version, path |-> job.path, method |-> "GET", datasource |-> default,
         params |-> Restrict(job.params, DOMAIN job.params), items |-> {}]
  BY <1>1, <1>3, <1>4 DEF Denotes, WarmId, QueryHash, Items
<1>9. ASSUME NEW v PROVE Denotes(WarmKey(job, v)) = [Means(Fetch(job)) EXCEPT !.version = v]
  BY <1>6, <1>7
<1> QED BY <1>6, <1>8, <1>9

-----------------------------------------------------------------------------
(* The inductive invariant: whatever is kept was put there for a request   *)
(* that was let in or by a job, under its own key.                         *)

ForRequest(k, e) == \E q \in Requests : Accepted(q) /\ k = Key(q) /\ e = EsiRequest(q)

ForJob(k, e) ==
  \E job \in Jobs : \E v \in Aliases(job) : k = WarmKey(job, v) /\ e = Fetch(job)

RowForRequest(k, e) ==
  \E q \in Requests : Accepted(q) /\ k = ArchiveId(q) /\ e = EsiRequest(q)

RowForJob(k, e) == \E job \in Jobs : k = WarmId(job) /\ e = Fetch(job)

Explained ==
  /\ default \in Datasources
  /\ \A k \in DOMAIN cache : ForRequest(k, cache[k]) \/ ForJob(k, cache[k])
  /\ \A k \in DOMAIN archive : RowForRequest(k, archive[k]) \/ RowForJob(k, archive[k])

LEMMA SameDefault ==
  ASSUME default' = default
  PROVE  /\ \A k, e : ForRequest(k, e)' <=> ForRequest(k, e)
         /\ \A k, e : ForJob(k, e)' <=> ForJob(k, e)
         /\ \A k, e : RowForRequest(k, e)' <=> RowForRequest(k, e)
         /\ \A k, e : RowForJob(k, e)' <=> RowForJob(k, e)
<1>1. \A q : Datasource(q)' = Datasource(q)
  BY DEF Datasource
<1>2. \A q : Accepted(q)' <=> Accepted(q)
  BY <1>1 DEF Accepted
<1>3. \A q : Key(q)' = Key(q) /\ ArchiveId(q)' = ArchiveId(q)
  BY <1>1 DEF Key, ArchiveId
<1>4. \A q : EsiRequest(q)' = EsiRequest(q)
  BY <1>1 DEF EsiRequest, WithDatasource
<1>5. \A job : Fetch(job)' = Fetch(job) /\ WarmId(job)' = WarmId(job)
  BY DEF Fetch, WithDatasource, WarmId
<1>6. \A job, v : WarmKey(job, v)' = WarmKey(job, v)
  BY DEF WarmKey
<1>7. \A k, e : ForRequest(k, e)' <=> ForRequest(k, e)
  BY <1>2, <1>3, <1>4 DEF ForRequest
<1>8. \A k, e : ForJob(k, e)' <=> ForJob(k, e)
  BY <1>5, <1>6 DEF ForJob
<1>9. \A k, e : RowForRequest(k, e)' <=> RowForRequest(k, e)
  BY <1>2, <1>3, <1>4 DEF RowForRequest
<1>10. \A k, e : RowForJob(k, e)' <=> RowForJob(k, e)
  BY <1>5 DEF RowForJob
<1> QED BY <1>7, <1>8, <1>9, <1>10

LEMMA InitExplained == Init => Explained
BY DEF Init, NoKeys, Explained

LEMMA ServeExplained ==
  ASSUME Explained, NEW q \in Requests, Serve(q)
  PROVE  Explained'
<1>1. /\ Accepted(q) /\ default' = default
      /\ cache' = Put(cache, {Key(q)}, EsiRequest(q))
      /\ archive' \in {archive, Put(archive, {ArchiveId(q)}, EsiRequest(q))}
  BY DEF Serve
<1>2. ASSUME NEW k \in DOMAIN cache' PROVE ForRequest(k, cache'[k]) \/ ForJob(k, cache'[k])
  <2>1. CASE k = Key(q)
    <3>1. cache'[k] = EsiRequest(q)
      BY <1>1, <2>1 DEF Put
    <3> QED BY <1>1, <2>1, <3>1 DEF ForRequest
  <2>2. CASE k # Key(q)
    <3>1. k \in DOMAIN cache /\ cache'[k] = cache[k]
      BY <1>1, <2>2 DEF Put
    <3> QED BY <3>1 DEF Explained
  <2> QED BY <2>1, <2>2
<1>3. ASSUME NEW k \in DOMAIN archive'
      PROVE  RowForRequest(k, archive'[k]) \/ RowForJob(k, archive'[k])
  <2>1. CASE archive' = archive \/ k # ArchiveId(q)
    <3>1. k \in DOMAIN archive /\ archive'[k] = archive[k]
      BY <1>1, <2>1 DEF Put
    <3> QED BY <3>1 DEF Explained
  <2>2. CASE archive' # archive /\ k = ArchiveId(q)
    <3>1. archive'[k] = EsiRequest(q)
      BY <1>1, <2>2 DEF Put
    <3> QED BY <1>1, <2>2, <3>1 DEF RowForRequest
  <2> QED BY <2>1, <2>2
<1> QED BY <1>1, <1>2, <1>3, SameDefault DEF Explained

LEMMA WarmExplained ==
  ASSUME Explained, NEW job \in Jobs, Warm(job)
  PROVE  Explained'
<1> DEFINE K == {WarmKey(job, v) : v \in Aliases(job)}
<1>1. /\ default' = default
      /\ cache' = Put(cache, K, Fetch(job))
      /\ archive' = Put(archive, {WarmId(job)}, Fetch(job))
  BY DEF Warm
<1>2. \A k \in K : \E v \in Aliases(job) : k = WarmKey(job, v)
  OBVIOUS
<1> HIDE DEF K
<1>3. ASSUME NEW k \in DOMAIN cache' PROVE ForRequest(k, cache'[k]) \/ ForJob(k, cache'[k])
  <2>1. CASE k \in K
    <3>1. cache'[k] = Fetch(job)
      BY <1>1, <2>1 DEF Put
    <3> QED BY <1>2, <2>1, <3>1 DEF ForJob
  <2>2. CASE k \notin K
    <3>1. k \in DOMAIN cache /\ cache'[k] = cache[k]
      BY <1>1, <2>2 DEF Put
    <3> QED BY <3>1 DEF Explained
  <2> QED BY <2>1, <2>2
<1>4. ASSUME NEW k \in DOMAIN archive'
      PROVE  RowForRequest(k, archive'[k]) \/ RowForJob(k, archive'[k])
  <2>1. CASE k = WarmId(job)
    <3>1. archive'[k] = Fetch(job)
      BY <1>1, <2>1 DEF Put
    <3> QED BY <2>1, <3>1 DEF RowForJob
  <2>2. CASE k # WarmId(job)
    <3>1. k \in DOMAIN archive /\ archive'[k] = archive[k]
      BY <1>1, <2>2 DEF Put
    <3> QED BY <3>1 DEF Explained
  <2> QED BY <2>1, <2>2
<1> QED BY <1>1, <1>3, <1>4, SameDefault DEF Explained

LEMMA ExpireExplained ==
  ASSUME Explained, NEW k \in DOMAIN cache, Expire(k)
  PROVE  Explained'
<1>1. default' = default /\ archive' = archive
  BY DEF Expire
<1>2. \A other \in DOMAIN cache' : other \in DOMAIN cache /\ cache'[other] = cache[other]
  BY DEF Expire, Restrict
<1> QED BY <1>1, <1>2, SameDefault DEF Explained

\* Whatever is kept in Redis or in the archive was put there for a request
\* that the allowlist let in, or by the collector, under its own key.
THEOREM Invariance == Spec => []Explained
<1>1. ASSUME Explained, [Next]_vars PROVE Explained'
  <2>1. ASSUME NEW q \in Requests, Serve(q) PROVE Explained'
    BY <1>1, <2>1, ServeExplained
  <2>2. ASSUME NEW job \in Jobs, Warm(job) PROVE Explained'
    BY <1>1, <2>2, WarmExplained
  <2>3. ASSUME NEW k \in DOMAIN cache, Expire(k) PROVE Explained'
    BY <1>1, <2>3, ExpireExplained
  <2>4. CASE UNCHANGED vars
    BY <1>1, <2>4, SameDefault DEF vars, Explained
  <2> QED BY <1>1, <2>1, <2>2, <2>3, <2>4 DEF Next
<1> QED BY <1>1, InitExplained, PTL DEF Spec

-----------------------------------------------------------------------------
(* What follows. *)

\* A request and a key for it are of a declared endpoint, with its parameters.
LEMMA KeysAreDeclared ==
  ASSUME NEW q \in Requests, Accepted(q), NEW k \in {Key(q), ArchiveId(q)}
  PROVE  /\ k.version \in Versions /\ k.path \in DOMAIN Endpoints /\ k.datasource \in Datasources
         /\ DOMAIN k.hash[1] \subseteq Endpoints[k.path].allowed
         /\ Endpoints[k.path].required \subseteq DOMAIN k.hash[1]
<1>1. /\ q.version \in Versions /\ q.path \in DOMAIN Endpoints /\ Datasource(q) \in Datasources
      /\ DOMAIN q.params \ ProxyParams \subseteq Endpoints[q.path].allowed
      /\ Endpoints[q.path].required \subseteq DOMAIN q.params \ ProxyParams
  BY CacheKeysAssumption DEF Accepted, CheckParams, ProxyParams
<1>2. /\ k.version = q.version /\ k.path = q.path /\ k.datasource = Datasource(q)
      /\ DOMAIN k.hash[1] = DOMAIN q.params \ ProxyParams
  BY DEF Key, ArchiveId, CacheKey, QueryHash, NormalizeParams, Restrict
<1> QED BY <1>1, <1>2

LEMMA WarmKeysAreDeclared ==
  ASSUME NEW job \in Jobs, default \in Datasources,
         NEW k \in {WarmKey(job, v) : v \in Aliases(job)} \cup {WarmId(job)}
  PROVE  /\ k.version \in Versions /\ k.path \in DOMAIN Endpoints /\ k.datasource \in Datasources
         /\ DOMAIN k.hash[1] \subseteq Endpoints[k.path].allowed
         /\ Endpoints[k.path].required \subseteq DOMAIN k.hash[1]
<1>1. /\ job.version \in Versions /\ WarmVersions \subseteq Versions
      /\ job.path \in DOMAIN Endpoints
      /\ Endpoints[job.path].required \subseteq DOMAIN job.params
      /\ DOMAIN job.params \subseteq Endpoints[job.path].allowed
      /\ DOMAIN job.params \cap ProxyParams = {}
  BY JobsAssumption DEF ProxyParams
<1>2. /\ k.version \in Aliases(job) /\ k.path = job.path /\ k.datasource = default
      /\ DOMAIN k.hash[1] = DOMAIN job.params \ ProxyParams
  BY DEF WarmKey, WarmId, CacheKey, QueryHash, NormalizeParams, Restrict, Aliases
<1> QED BY <1>1, <1>2 DEF Aliases

\* Nothing that the allowlist does not declare is kept in Redis or in the
\* archive, nor anything that lacks a required parameter.
THEOREM TypeCorrect == Spec => []TypeOK
<1>1. Explained => TypeOK
  <2> SUFFICES ASSUME Explained, NEW k \in DOMAIN cache \cup DOMAIN archive
               PROVE  /\ k.version \in Versions /\ k.path \in DOMAIN Endpoints
                      /\ k.datasource \in Datasources
                      /\ DOMAIN k.hash[1] \subseteq Endpoints[k.path].allowed
                      /\ Endpoints[k.path].required \subseteq DOMAIN k.hash[1]
    BY DEF Explained, TypeOK
  <2>1. CASE \E q \in Requests : Accepted(q) /\ k \in {Key(q), ArchiveId(q)}
    BY <2>1, KeysAreDeclared
  <2>2. CASE \E job \in Jobs :
               k \in {WarmKey(job, v) : v \in Aliases(job)} \cup {WarmId(job)}
    BY <2>2, WarmKeysAreDeclared DEF Explained
  <2> QED BY <2>1, <2>2 DEF Explained, ForRequest, ForJob, RowForRequest, RowForJob
<1> QED BY <1>1, Invariance, PTL

\* A request that finds its key in Redis gets the response to what it asks for;
\* under a warmed alias, possibly that of the version the collector calls.
THEOREM HitsAnswer == Spec => []HitsAnswerTheRequest
<1>1. Explained => HitsAnswerTheRequest
  <2> SUFFICES ASSUME Explained, NEW q \in Requests, Accepted(q), Key(q) \in DOMAIN cache
               PROVE  LET answer == Means(cache[Key(q)]) IN
                        \/ answer = Asks(q)
                        \/ /\ q.version \in WarmVersions
                           /\ \E job \in Jobs : answer = [Asks(q) EXCEPT !.version = job.version]
    BY DEF HitsAnswerTheRequest
  <2>1. CASE ForRequest(Key(q), cache[Key(q)])
    BY <2>1, KeysDenoteWhatIsAsked, EsiRequestMeans DEF ForRequest
  <2>2. CASE ForJob(Key(q), cache[Key(q)])
    <3>1. PICK job \in Jobs : \E v \in Aliases(job) :
            Key(q) = WarmKey(job, v) /\ cache[Key(q)] = Fetch(job)
      BY <2>2 DEF ForJob
    <3> PICK v \in Aliases(job) : Key(q) = WarmKey(job, v) /\ cache[Key(q)] = Fetch(job)
      BY <3>1
    <3>2. /\ Asks(q) = [Means(Fetch(job)) EXCEPT !.version = v]
          /\ Means(Fetch(job)).version = job.version
      BY KeysDenoteWhatIsAsked, WarmKeysDenoteWhatIsFetched
    <3>3. q.version = v /\ Means(Fetch(job)) = [Asks(q) EXCEPT !.version = job.version]
      BY <3>2 DEF Asks, Means
    <3>4. CASE v = job.version
      BY <3>2, <3>4 DEF Means
    <3>5. CASE v \in WarmVersions
      BY <3>3, <3>5
    <3> QED BY <3>4, <3>5 DEF Aliases
  <2> QED BY <2>1, <2>2 DEF Explained
<1> QED BY <1>1, Invariance, PTL

\* A row of the archive gives a request only what was the response to what it
\* asks for, though its key has no method.
THEOREM FallbacksAnswer == Spec => []FallbacksAnswerTheRequest
<1>1. Explained => FallbacksAnswerTheRequest
  <2> SUFFICES ASSUME Explained, NEW q \in Requests, Accepted(q), ArchiveId(q) \in DOMAIN archive
               PROVE  Means(archive[ArchiveId(q)]) = Asks(q)
    BY DEF FallbacksAnswerTheRequest
  <2>1. CASE RowForRequest(ArchiveId(q), archive[ArchiveId(q)])
    BY <2>1, KeysDenoteWhatIsAsked, EsiRequestMeans DEF RowForRequest
  <2>2. CASE RowForJob(ArchiveId(q), archive[ArchiveId(q)])
    BY <2>2, KeysDenoteWhatIsAsked, WarmKeysDenoteWhatIsFetched DEF RowForJob
  <2> QED BY <2>1, <2>2 DEF Explained
<1> QED BY <1>1, Invariance, PTL

\* Two requests that ask for the same have the same key.
LEMMA SameRequestSameKey ==
  ASSUME NEW q \in Requests, NEW other \in Requests, Accepted(q), Accepted(other),
         Asks(q) = Asks(other)
  PROVE  Key(q) = Key(other)
<1>1. /\ q.version = other.version /\ q.path = other.path /\ q.method = other.method
      /\ Datasource(q) = Datasource(other) /\ Items(q.body) = Items(other.body)
      /\ NormalizeParams(q.params) = NormalizeParams(other.params)
  BY DEF Asks, NormalizeParams, ProxyParams
<1>2. NormalizeBody(q.body) = NormalizeBody(other.body)
  <2>1. CASE q.body = NoBody /\ other.body = NoBody
    BY <2>1
  <2>2. CASE q.body \in Seq(Int) /\ other.body \in Seq(Int)
    <3>1. Range(q.body) = Range(other.body)
      BY <1>1, <2>2, BodiesAssumption DEF Items
    <3> QED BY <2>2, <3>1, NormalBodiesOfTheSameItems
  <2> QED BY <1>1, <2>1, <2>2, BodiesAssumption DEF Accepted
<1> QED BY <1>1, <1>2 DEF Key, CacheKey, QueryHash

\* A request that asks for what a job fetches has the job's key.
LEMMA SameFetchSameKey ==
  ASSUME NEW q \in Requests, Accepted(q), NEW job \in Jobs,
         Asks(q) = [Means(Fetch(job)) EXCEPT !.version = q.version]
  PROVE  Key(q) = WarmKey(job, q.version)
<1>1. Denotes(WarmKey(job, q.version)) = Asks(q)
  BY WarmKeysDenoteWhatIsFetched
<1>2. job.method = "GET" /\ job.body = NoBody /\ NormalizeBody(NoBody) = NoBody
  BY JobsAssumption DEF NormalizeBody
<1>3. /\ q.method = "GET" /\ q.path = job.path /\ Datasource(q) = default
      /\ NormalizeParams(q.params) = NormalizeParams(job.params)
  BY <1>1, <1>2 DEF Denotes, WarmKey, CacheKey, QueryHash, Asks, NormalizeParams, ProxyParams
<1>4. q.body = NoBody
  BY <1>3, BodiesAssumption
<1> QED BY <1>2, <1>3, <1>4 DEF Key, WarmKey, CacheKey, QueryHash

\* Requests that ask for the same share a key, through the proxy or the
\* collector: with the default datasource named or not, with any page, with the
\* items of the body in any order and number.
THEOREM EquivalentShare == Spec => []EquivalentRequestsShare
<1>1. Explained => EquivalentRequestsShare
  <2> SUFFICES ASSUME Explained, NEW q \in Requests, NEW k \in DOMAIN cache, Accepted(q),
                      k.version = q.version,
                      [Means(cache[k]) EXCEPT !.version = q.version] = Asks(q)
               PROVE  Key(q) = k
    BY DEF EquivalentRequestsShare
  <2>1. CASE ForRequest(k, cache[k])
    <3>1. PICK other \in Requests :
            Accepted(other) /\ k = Key(other) /\ cache[k] = EsiRequest(other)
      BY <2>1 DEF ForRequest
    <3>2. Means(cache[k]) = Asks(other) /\ other.version = q.version
      BY <3>1, EsiRequestMeans DEF Key, CacheKey
    <3>3. Asks(q) = Asks(other)
      BY <3>2 DEF Asks
    <3> QED BY <3>1, <3>3, SameRequestSameKey
  <2>2. CASE ForJob(k, cache[k])
    <3>1. PICK job \in Jobs : \E v \in Aliases(job) :
            k = WarmKey(job, v) /\ cache[k] = Fetch(job)
      BY <2>2 DEF ForJob
    <3>2. k = WarmKey(job, q.version) /\ cache[k] = Fetch(job)
      BY <3>1 DEF WarmKey, CacheKey
    <3> QED BY <3>1, <3>2, SameFetchSameKey
  <2> QED BY <2>1, <2>2 DEF Explained
<1> QED BY <1>1, Invariance, PTL
=============================================================================
