-------------------------- MODULE BudgetService_proofs --------------------------
(***************************************************************************)
(* For any costs, durations, engagement and number of operations under     *)
(* way: chunks stay in order and within the cap, the cache and the         *)
(* database never disagree in the origin's favour, every spend is backed   *)
(* by what was earned, and the service implements BudgetLedger.            *)
(***************************************************************************)
EXTENDS BudgetService, SequenceTheorems, WellFoundedInduction, TLAPS

-----------------------------------------------------------------------------
(* Sums, and the least of some numbers *)

\* Arguments by induction take the least counterexample instead.
LEMMA Smallest ==
    ASSUME NEW T \in SUBSET Nat, T # {}
    PROVE  \E n \in T : \A m \in T : n <= m
<1>1. PICK n \in T : \A m \in T : <<m, n>> \notin OpToRel(<, Nat)
  BY NatLessThanWellFounded, WFMin
<1>2. \A m \in T : ~(m < n)
  BY <1>1 DEF OpToRel
<1>. QED
  BY <1>2

\* The sums of natural numbers: the recursion defines a function, and its values are natural.
LEMMA SumsDef ==
    ASSUME NEW a \in Seq(Nat)
    PROVE  /\ Sums(a) \in [0..Len(a) -> Nat]
           /\ Sums(a)[0] = 0
           /\ \A n \in 1..Len(a) : Sums(a)[n] = Sums(a)[n - 1] + a[n]
<1>. DEFINE IsSum(s, k) ==
                /\ s \in [0..k -> Nat]
                /\ s = [n \in 0..k |-> IF n = 0 THEN 0 ELSE s[n - 1] + a[n]]
<1>1. Len(a) \in Nat /\ \A n \in 1..Len(a) : a[n] \in Nat
  BY LenProperties, ElementOfSeq
<1>2. \A k \in 0..Len(a) : \E s : IsSum(s, k)
  <2>. SUFFICES ASSUME \E k \in 0..Len(a) : ~ \E s : IsSum(s, k) PROVE FALSE
    OBVIOUS
  <2>. DEFINE Bad == {k \in 0..Len(a) : ~ \E s : IsSum(s, k)}
  <2>1. PICK k \in Bad : \A m \in Bad : k <= m
    <3>. HIDE DEF IsSum
    <3>1. Bad \subseteq Nat /\ Bad # {}
      BY <1>1
    <3>. HIDE DEF Bad
    <3>. QED
      BY <3>1, Smallest
  <2>2. k # 0
    <3>1. IsSum([n \in 0..0 |-> 0], 0)
      OBVIOUS
    <3>. QED
      BY <3>1, <2>1
  <2>3. k - 1 \in 0..Len(a) /\ k \in 1..Len(a) /\ k - 1 < k
    BY <1>1, <2>2
  <2>4. PICK s : IsSum(s, k - 1)
    <3>. HIDE DEF IsSum
    <3>. QED
      BY <2>1, <2>3
  <2>. DEFINE t == [n \in 0..k |-> IF n = k THEN s[k - 1] + a[k] ELSE s[n]]
  <2>5. IsSum(t, k)
    <3>1. t \in [0..k -> Nat]
      BY <1>1, <2>3, <2>4
    <3>2. ASSUME NEW n \in 0..k PROVE t[n] = IF n = 0 THEN 0 ELSE t[n - 1] + a[n]
      <4>1. CASE n = k
        BY <4>1, <2>3, <1>1
      <4>2. CASE n # k
        BY <4>2, <2>3, <2>4, <1>1
      <4>. QED BY <4>1, <4>2
    <3>. HIDE DEF t
    <3>. QED
      BY <3>1, <3>2
  <2>. QED
    BY <2>5
<1>3. PICK s : IsSum(s, Len(a))
  <2>. HIDE DEF IsSum
  <2>. QED BY <1>1, <1>2
<1>4. Sums(a) = [n \in 0..Len(a) |-> IF n = 0 THEN 0 ELSE Sums(a)[n - 1] + a[n]]
  BY <1>3 DEF Sums
<1>. DEFINE sums == Sums(a)
<1>5. /\ DOMAIN sums = 0..Len(a) /\ sums = [n \in 0..Len(a) |-> sums[n]]
      /\ \A n \in 0..Len(a) : sums[n] = IF n = 0 THEN 0 ELSE sums[n - 1] + a[n]
  <2>. DEFINE step == [n \in 0..Len(a) |-> IF n = 0 THEN 0 ELSE sums[n - 1] + a[n]]
  <2>1. /\ DOMAIN step = 0..Len(a) /\ step = [n \in 0..Len(a) |-> step[n]]
        /\ \A n \in 0..Len(a) : step[n] = IF n = 0 THEN 0 ELSE sums[n - 1] + a[n]
    <3>. HIDE DEF sums
    <3>. QED
      OBVIOUS
  <2>2. sums = step
    BY <1>4
  <2>. HIDE DEF step, sums
  <2>. QED
    BY <2>1, <2>2
<1>. HIDE DEF sums
<1>6. sums[0] = 0 /\ \A n \in 1..Len(a) : sums[n] = sums[n - 1] + a[n]
  BY <1>1, <1>5
<1>7. \A n \in 0..Len(a) : sums[n] \in Nat
  <2>. DEFINE Bad == {n \in 0..Len(a) : sums[n] \notin Nat}
  <2>. SUFFICES ASSUME Bad # {} PROVE FALSE
    OBVIOUS
  <2>1. PICK k \in Bad : \A m \in Bad : k <= m
    <3>1. Bad \in SUBSET Nat
      BY <1>1
    <3>. HIDE DEF Bad
    <3>. QED
      BY <3>1, Smallest
  <2>2. k # 0
    BY <1>6
  <2>3. k - 1 \in 0..Len(a) /\ k \in 1..Len(a) /\ k - 1 < k
    BY <1>1, <2>2
  <2>4. sums[k - 1] \in Nat
    BY <2>1, <2>3
  <2>5. a[k] \in Nat /\ sums[k] = sums[k - 1] + a[k] /\ sums[k] \notin Nat
    BY <1>1, <1>6, <2>1, <2>3
  <2>. HIDE DEF sums
  <2>. QED
    BY <2>4, <2>5
<1>8. sums \in [0..Len(a) -> Nat]
  BY <1>5, <1>7
<1>. QED
  BY <1>6, <1>8 DEF sums

\* Where two sequences run parallel, so do their sums.
Parallel(a, i, b, j, m) ==
    i + m <= Len(a) /\ j + m <= Len(b) /\ \A n \in 1..m : a[i + n] = b[j + n]
SumsAgree(a, i, b, j, m) == Sums(a)[i + m] - Sums(a)[i] = Sums(b)[j + m] - Sums(b)[j]

\* Where two lists agree from some places on, so do the increases of their sums.
LEMMA SumsParallel ==
    ASSUME NEW a \in Seq(Nat), NEW b \in Seq(Nat), NEW i \in Nat, NEW j \in Nat, NEW m \in Nat,
           Parallel(a, i, b, j, m)
    PROVE  SumsAgree(a, i, b, j, m)
<1>. DEFINE s == Sums(a)
            t == Sums(b)
            Bad == {n \in 0..m : s[i + n] - s[i] # t[j + n] - t[j]}
<1>1. /\ Len(a) \in Nat /\ Len(b) \in Nat
      /\ \A n \in 0..Len(a) : s[n] \in Nat
      /\ \A n \in 0..Len(b) : t[n] \in Nat
      /\ \A n \in 1..Len(a) : s[n] = s[n - 1] + a[n]
      /\ \A n \in 1..Len(b) : t[n] = t[n - 1] + b[n]
      /\ \A n \in 1..Len(a) : a[n] \in Nat
      /\ \A n \in 1..Len(b) : b[n] \in Nat
  BY SumsDef, LenProperties, ElementOfSeq
<1>. HIDE DEF s, t
<1>. USE DEF Parallel
<1>2. ASSUME Bad # {} PROVE FALSE
  <2>1. PICK k \in Bad : \A n \in Bad : k <= n
    <3>1. Bad \in SUBSET Nat
      OBVIOUS
    <3>. HIDE DEF Bad
    <3>. QED
      BY <1>2, <3>1, Smallest
  <2>2. k \in 0..m /\ s[i + k] - s[i] # t[j + k] - t[j]
    OBVIOUS
  <2>3. s[i] \in Nat /\ t[j] \in Nat
    BY <1>1
  <2>4. k # 0
    BY <2>2, <2>3
  <2>5. k - 1 \notin Bad
    <3>. HIDE DEF Bad
    <3>. QED
      BY <2>1, <2>2
  <2>6. k - 1 \in 0..m
    BY <2>2, <2>4
  <2>7. s[i + (k - 1)] - s[i] = t[j + (k - 1)] - t[j]
    BY <2>5, <2>6
  <2>. HIDE DEF Bad
  <2>8. k \in 1..m /\ i + k \in 1..Len(a) /\ j + k \in 1..Len(b)
    <3>1. Len(a) \in Nat /\ Len(b) \in Nat
      BY LenProperties
    <3>2. k \in 1..m
      BY <2>2, <2>4
    <3>. QED
      BY <3>1, <3>2
  <2>9. a[i + k] = b[j + k] /\ a[i + k] \in Nat
    BY <1>1, <2>8
  <2>10. i + k - 1 = i + (k - 1) /\ j + k - 1 = j + (k - 1)
    BY <2>8
  <2>11. s[i + k] = s[i + (k - 1)] + a[i + k] /\ t[j + k] = t[j + (k - 1)] + b[j + k]
    BY <1>1, <2>8, <2>10
  <2>12. i + (k - 1) \in 0..Len(a) /\ j + (k - 1) \in 0..Len(b)
    BY <1>1, <2>8
  <2>13. s[i + (k - 1)] \in Nat /\ t[j + (k - 1)] \in Nat
    BY <1>1, <2>12
  <2>14. s[i + k] - s[i] = t[j + k] - t[j]
    <3>1. PICK x \in Nat, y \in Nat, p \in Nat, q \in Nat, e \in Nat :
              /\ x = s[i + (k - 1)] /\ y = t[j + (k - 1)] /\ p = s[i] /\ q = t[j]
              /\ e = a[i + k] /\ e = b[j + k]
      BY <2>3, <2>9, <2>13
    <3>2. s[i + k] = x + e /\ t[j + k] = y + e
      BY <2>11, <3>1
    <3>3. x - p = y - q
      BY <2>7, <3>1
    <3>4. x + e - p = y + e - q
      BY <3>3
    <3>5. s[i + k] - s[i] = x + e - p /\ t[j + k] - t[j] = y + e - q
      <4>1. s[i] = p /\ t[j] = q
        BY <3>1
      <4>. QED
        BY <3>2, <4>1
    <3>. QED
      BY <3>4, <3>5
  <2>. QED
    BY <2>2, <2>14
<1>3. m \in 0..m /\ m \notin Bad
  <2>. HIDE DEF Bad
  <2>. QED
    BY <1>2
<1>. QED
  BY <1>3 DEF s, t, SumsAgree
-----------------------------------------------------------------------------
(* Entries and their chunks *)

\* What an entry is made of.
LEMMA ChunksFacts ==
    ASSUME NEW info \in BudgetInfo
    PROVE  /\ info.chunks \in Seq(Chunk) /\ info.lastAward \in Nat
           /\ info = [chunks |-> info.chunks, lastAward |-> info.lastAward]
           /\ Len(info.chunks) \in Nat /\ DOMAIN info.chunks = 1..Len(info.chunks)
           /\ \A i \in DOMAIN info.chunks :
                 /\ info.chunks[i] \in Chunk
                 /\ info.chunks[i].amount \in Nat /\ info.chunks[i].expiration \in Nat
<1>1. info.chunks \in Seq(Chunk) /\ info.lastAward \in Nat
  BY DEF BudgetInfo
<1>2. info = [chunks |-> info.chunks, lastAward |-> info.lastAward]
  BY DEF BudgetInfo
<1>3. Len(info.chunks) \in Nat /\ DOMAIN info.chunks = 1..Len(info.chunks)
  BY <1>1, LenProperties
<1>4. \A i \in DOMAIN info.chunks : info.chunks[i] \in Chunk
  BY <1>1, <1>3, ElementOfSeq
<1>. QED
  BY <1>1, <1>2, <1>3, <1>4 DEF Chunk

\* The amounts of an entry's chunks, and that Total is the last of their sums.
LEMMA AmountsFacts ==
    ASSUME NEW info \in BudgetInfo
    PROVE  /\ Amounts(info) \in Seq(Nat) /\ Len(Amounts(info)) = Len(info.chunks)
           /\ \A i \in DOMAIN info.chunks : Amounts(info)[i] = info.chunks[i].amount
           /\ \A i \in 0..Len(info.chunks) : Sums(Amounts(info))[i] \in Nat
           /\ Total(info) \in Nat /\ Total(info) = Sums(Amounts(info))[Len(info.chunks)]
<1>1. /\ Len(info.chunks) \in Nat /\ DOMAIN info.chunks = 1..Len(info.chunks)
      /\ \A i \in DOMAIN info.chunks : info.chunks[i].amount \in Nat
  BY ChunksFacts
<1>2. Amounts(info) = [i \in 1..Len(info.chunks) |-> info.chunks[i].amount]
  BY <1>1 DEF Amounts
<1>3. Amounts(info) \in Seq(Nat) /\ Len(Amounts(info)) = Len(info.chunks)
  BY <1>1, <1>2
<1>4. \A i \in DOMAIN info.chunks : Amounts(info)[i] = info.chunks[i].amount
  BY <1>1, <1>2
<1>5. \A i \in 0..Len(info.chunks) : Sums(Amounts(info))[i] \in Nat
  BY <1>3, SumsDef
<1>. QED
  BY <1>1, <1>3, <1>4, <1>5 DEF Total

\* Without its first k chunks an entry is worth what they come to less.
LEMMA TotalOfSuffix ==
    ASSUME NEW info \in BudgetInfo, NEW rest \in BudgetInfo, NEW k \in 0..Len(info.chunks),
           Len(rest.chunks) = Len(info.chunks) - k,
           \A i \in 1..Len(rest.chunks) : rest.chunks[i].amount = info.chunks[i + k].amount
    PROVE  Total(info) = Total(rest) + Sums(Amounts(info))[k]
<1>. DEFINE a == Amounts(info)
            b == Amounts(rest)
            m == Len(rest.chunks)
<1>1. /\ Len(info.chunks) \in Nat /\ DOMAIN info.chunks = 1..Len(info.chunks)
      /\ m \in Nat /\ DOMAIN rest.chunks = 1..m
  BY ChunksFacts
<1>2. /\ a \in Seq(Nat) /\ Len(a) = Len(info.chunks)
      /\ b \in Seq(Nat) /\ Len(b) = m
      /\ \A i \in DOMAIN info.chunks : a[i] = info.chunks[i].amount
      /\ \A i \in DOMAIN rest.chunks : b[i] = rest.chunks[i].amount
      /\ Total(info) = Sums(a)[Len(info.chunks)] /\ Total(rest) = Sums(b)[m]
      /\ Total(info) \in Nat /\ Total(rest) \in Nat /\ Sums(a)[k] \in Nat
  BY AmountsFacts
<1>. HIDE DEF a, b
<1>3. PICK z \in Nat : z = 0
  OBVIOUS
<1>4. \A i \in 1..m : a[k + i] = b[z + i]
  <2>. SUFFICES ASSUME NEW i \in 1..m PROVE a[k + i] = b[z + i]
    OBVIOUS
  <2>1. i + k \in DOMAIN info.chunks /\ k + i = i + k /\ z + i = i
    BY <1>1, <1>3
  <2>. QED
    BY <1>1, <1>2, <2>1
<1>5. k + m <= Len(a) /\ z + m <= Len(b) /\ k \in Nat
  BY <1>1, <1>2, <1>3
<1>p. Parallel(a, k, b, z, m)
  BY <1>4, <1>5 DEF Parallel
<1>. HIDE DEF m
<1>6. Sums(a)[k + m] - Sums(a)[k] = Sums(b)[z + m] - Sums(b)[z]
  <2>1. SumsAgree(a, k, b, z, m)
    BY <1>1, <1>2, <1>5, <1>p, SumsParallel
  <2>. QED
    BY <2>1 DEF SumsAgree
<1>7. k + m = Len(info.chunks) /\ z + m = m
  BY <1>1, <1>3 DEF m
<1>8. Sums(b)[z] = 0
  BY <1>2, <1>3, SumsDef
<1>9. Total(info) - Sums(a)[k] = Total(rest) - 0
  BY <1>2, <1>6, <1>7, <1>8
<1>. QED
  BY <1>2, <1>9 DEF a

\* A chunk added at the end adds its amount.
LEMMA TotalOfAppend ==
    ASSUME NEW info \in BudgetInfo, NEW more \in BudgetInfo, NEW chunk \in Chunk,
           more.chunks = Append(info.chunks, chunk)
    PROVE  Total(more) = Total(info) + chunk.amount
<1>. DEFINE a == Amounts(info)
            b == Amounts(more)
            m == Len(info.chunks)
<1>1. /\ info.chunks \in Seq(Chunk) /\ m \in Nat /\ DOMAIN info.chunks = 1..m
      /\ DOMAIN more.chunks = 1..Len(more.chunks)
  BY ChunksFacts
<1>2. /\ Len(more.chunks) = m + 1 /\ more.chunks[m + 1] = chunk
      /\ \A i \in 1..m : more.chunks[i] = info.chunks[i]
  BY <1>1, AppendProperties
<1>3. /\ a \in Seq(Nat) /\ Len(a) = m
      /\ b \in Seq(Nat) /\ Len(b) = m + 1
      /\ \A i \in 1..m : a[i] = info.chunks[i].amount
      /\ \A i \in 1..(m + 1) : b[i] = more.chunks[i].amount
      /\ Total(info) = Sums(a)[m] /\ Total(more) = Sums(b)[m + 1]
      /\ Total(info) \in Nat /\ Total(more) \in Nat
  BY <1>1, <1>2, AmountsFacts
<1>. HIDE DEF a, b, m
<1>4. PICK z \in Nat : z = 0
  OBVIOUS
<1>5. \A i \in 1..m : b[z + i] = a[z + i]
  <2>. SUFFICES ASSUME NEW i \in 1..m PROVE b[z + i] = a[z + i]
    OBVIOUS
  <2>1. z + i = i /\ i \in 1..(m + 1)
    BY <1>1, <1>4
  <2>. QED
    BY <1>2, <1>3, <2>1
<1>6. Parallel(b, z, a, z, m)
  <2>1. z + m <= Len(b) /\ z + m <= Len(a)
    BY <1>1, <1>3, <1>4
  <2>. QED
    BY <1>5, <2>1 DEF Parallel
<1>7. Sums(b)[z + m] - Sums(b)[z] = Sums(a)[z + m] - Sums(a)[z]
  <2>1. SumsAgree(b, z, a, z, m)
    BY <1>1, <1>3, <1>6, SumsParallel
  <2>. QED
    BY <2>1 DEF SumsAgree
<1>8. /\ Sums(a)[z] = 0 /\ Sums(b)[z] = 0 /\ z + m = m
      /\ m \in 0..Len(b)
  BY <1>1, <1>3, <1>4, SumsDef
<1>9. Sums(b)[m] \in Nat
  BY <1>3, <1>8, SumsDef
<1>10. Sums(b)[m] - 0 = Total(info) - 0
  BY <1>3, <1>7, <1>8
<1>11. Sums(b)[m] = Total(info)
  BY <1>3, <1>9, <1>10
<1>12. m + 1 \in 1..Len(b) /\ m + 1 - 1 = m /\ b[m + 1] = chunk.amount
  BY <1>1, <1>2, <1>3
<1>13. Sums(b)[m + 1] = Sums(b)[m + 1 - 1] + b[m + 1]
  BY <1>3, <1>12, SumsDef
<1>. QED
  BY <1>3, <1>11, <1>12, <1>13

\* Erasing all chunks before the first of some places.
LEMMA FromFacts ==
    ASSUME NEW chunks \in Seq(Chunk), NEW places \in SUBSET DOMAIN chunks, places # {}
    PROVE  /\ Min(places) \in places /\ \A i \in places : Min(places) <= i
           /\ From(chunks, places) \in Seq(Chunk)
           /\ Len(From(chunks, places)) = Len(chunks) - (Min(places) - 1)
           /\ \A i \in 1..Len(From(chunks, places)) :
                 From(chunks, places)[i] = chunks[i + (Min(places) - 1)]
<1>1. Len(chunks) \in Nat /\ DOMAIN chunks = 1..Len(chunks)
      /\ \A i \in DOMAIN chunks : chunks[i] \in Chunk
  BY LenProperties, ElementOfSeq
<1>2. Min(places) \in places /\ \A i \in places : Min(places) <= i
  <2>1. \E n \in places : \A i \in places : n <= i
    BY <1>1, Smallest
  <2>. QED
    BY <2>1 DEF Min
<1>. DEFINE m == Min(places)
<1>3. m \in 1..Len(chunks)
  BY <1>1, <1>2
<1>4. From(chunks, places) = SubSeq(chunks, m, Len(chunks))
  BY DEF From
<1>. HIDE DEF m
<1>5. /\ SubSeq(chunks, m, Len(chunks)) \in Seq(Chunk)
      /\ Len(SubSeq(chunks, m, Len(chunks))) = Len(chunks) - m + 1
      /\ \A i \in 1..(Len(chunks) - m + 1) :
            SubSeq(chunks, m, Len(chunks))[i] = chunks[m + i - 1]
  BY <1>1, <1>3, SubSeqProperties
<1>6. Len(chunks) - m + 1 = Len(chunks) - (m - 1)
  BY <1>1, <1>3
<1>7. \A i \in 1..(Len(chunks) - m + 1) : m + i - 1 = i + (m - 1)
  BY <1>1, <1>3
<1>. QED
  BY <1>2, <1>4, <1>5, <1>6, <1>7 DEF m
-----------------------------------------------------------------------------
(* What expiry and spends leave of an entry *)

\* The first k chunks are gone, and the others keep their expiration and gain nothing.
Trimmed(rest, info, k) ==
    /\ k \in 0..Len(info.chunks) /\ Len(rest.chunks) = Len(info.chunks) - k
    /\ rest.lastAward = info.lastAward
    /\ \A i \in 1..Len(rest.chunks) :
          /\ rest.chunks[i].expiration = info.chunks[i + k].expiration
          /\ rest.chunks[i].amount <= info.chunks[i + k].amount

\* Expired chunks are erased from the front, and the chunk left in front has not expired.
LEMMA WithoutExpiredFacts ==
    ASSUME NEW info \in BudgetInfo
    PROVE  /\ WithoutExpired(info) \in BudgetInfo
           /\ \E k \in 0..Len(info.chunks) :
                 /\ Trimmed(WithoutExpired(info), info, k)
                 /\ \A i \in 1..k : Expired(info.chunks[i])
                 /\ \A i \in 1..Len(WithoutExpired(info).chunks) :
                       WithoutExpired(info).chunks[i] = info.chunks[i + k]
                 /\ WithoutExpired(info).chunks # <<>> =>
                       k + 1 \in DOMAIN info.chunks /\ ~Expired(info.chunks[k + 1])
<1>. DEFINE chunks == info.chunks
            live == {i \in DOMAIN chunks : ~Expired(chunks[i])}
            rest == [chunks |-> From(chunks, live), lastAward |-> info.lastAward]
<1>1. /\ chunks \in Seq(Chunk) /\ info.lastAward \in Nat
      /\ Len(chunks) \in Nat /\ DOMAIN chunks = 1..Len(chunks)
      /\ \A i \in DOMAIN chunks : chunks[i].amount \in Nat
      /\ info = [chunks |-> info.chunks, lastAward |-> info.lastAward]
  BY ChunksFacts
<1>2. WithoutExpired(info) = rest
  BY <1>1 DEF WithoutExpired
<1>3. live \in SUBSET DOMAIN chunks
  OBVIOUS
<1>4. CASE live = {}
  <2>1. From(chunks, live) = <<>> /\ Len(<<>>) = 0 /\ <<>> \in Seq(Chunk)
    BY <1>4, EmptySeq DEF From
  <2>2. rest \in BudgetInfo /\ rest.chunks = <<>> /\ rest.lastAward = info.lastAward
    BY <1>1, <2>1 DEF BudgetInfo
  <2>3. \A i \in 1..Len(chunks) : Expired(info.chunks[i])
    BY <1>1, <1>4
  <2>4. /\ Len(rest.chunks) = Len(info.chunks) - Len(chunks)
        /\ Len(chunks) \in 0..Len(info.chunks)
    BY <1>1, <2>1, <2>2
  <2>5. \A i \in 1..Len(rest.chunks) : FALSE
    BY <2>1, <2>2
  <2>6. Trimmed(rest, info, Len(chunks))
    BY <2>2, <2>4, <2>5 DEF Trimmed
  <2>. HIDE DEF rest
  <2>. QED
    BY <1>2, <2>2, <2>3, <2>4, <2>5, <2>6
<1>5. CASE live # {}
  <2>. DEFINE k == Min(live) - 1
  <2>1. /\ Min(live) \in live /\ \A i \in live : Min(live) <= i
        /\ From(chunks, live) \in Seq(Chunk)
        /\ Len(From(chunks, live)) = Len(chunks) - k
        /\ \A i \in 1..Len(From(chunks, live)) : From(chunks, live)[i] = chunks[i + k]
    <3>. HIDE DEF live, chunks
    <3>. QED
      BY <1>1, <1>3, <1>5, FromFacts
  <2>2. k \in 0..Len(chunks) /\ k + 1 = Min(live)
    BY <1>1, <2>1
  <2>3. k + 1 \in DOMAIN info.chunks /\ ~Expired(info.chunks[k + 1])
    BY <2>1, <2>2
  <2>4. \A i \in 1..k : Expired(info.chunks[i])
    <3>. SUFFICES ASSUME NEW i \in 1..k, ~Expired(chunks[i]) PROVE FALSE
      OBVIOUS
    <3>1. i \in live
      BY <1>1, <2>2
    <3>2. i \in Int /\ k \in Int /\ i <= k /\ Min(live) = k + 1
      BY <2>2
    <3>3. Min(live) <= i
      BY <2>1, <3>1
    <3>. HIDE DEF live, k
    <3>. QED
      BY <3>2, <3>3
  <2>5. rest \in BudgetInfo /\ rest.chunks = From(chunks, live)
        /\ rest.lastAward = info.lastAward
    BY <1>1, <2>1 DEF BudgetInfo
  <2>. HIDE DEF rest, live, k
  <2>6. \A i \in 1..Len(rest.chunks) :
          /\ rest.chunks[i] = chunks[i + k]
          /\ i + k \in DOMAIN chunks
    BY <1>1, <2>1, <2>2, <2>5
  <2>7. Trimmed(rest, info, k)
    BY <1>1, <2>1, <2>2, <2>5, <2>6 DEF Trimmed
  <2>. QED
    BY <1>2, <2>2, <2>3, <2>4, <2>5, <2>6, <2>7
<1>. QED
  BY <1>4, <1>5

\* A spend that is covered takes exactly its amount out of the entry.
LEMMA SpendFacts ==
    ASSUME NEW info \in BudgetInfo, NEW amount \in Nat, Total(info) >= amount
    PROVE  /\ Spend(info, amount) \in BudgetInfo
           /\ \E k \in 0..Len(info.chunks) : Trimmed(Spend(info, amount), info, k)
           /\ Total(Spend(info, amount)) + amount = Total(info)
<1>. DEFINE chunks == info.chunks
            a == Amounts(info)
            sums == Sums(a)
            larger == {i \in DOMAIN chunks : sums[i] > amount}
            kept == IF larger = {} THEN <<>>
                    ELSE [From(chunks, larger) EXCEPT ![1].amount = sums[Min(larger)] - amount]
            rest == [chunks |-> kept, lastAward |-> info.lastAward]
            b == Amounts(rest)
<1>1. /\ chunks \in Seq(Chunk) /\ info.lastAward \in Nat
      /\ Len(chunks) \in Nat /\ DOMAIN chunks = 1..Len(chunks)
      /\ \A i \in DOMAIN chunks : chunks[i] \in Chunk
      /\ \A i \in DOMAIN chunks : chunks[i].amount \in Nat /\ chunks[i].expiration \in Nat
      /\ info = [chunks |-> info.chunks, lastAward |-> info.lastAward]
  BY ChunksFacts
<1>2. Spend(info, amount) = rest
  <2>1. Spend(info, amount) = [info EXCEPT !.chunks = kept]
    BY Zenon DEF Spend
  <2>. HIDE DEF kept
  <2>. QED
    BY <1>1, <2>1
<1>3. /\ a \in Seq(Nat) /\ Len(a) = Len(chunks)
      /\ \A i \in DOMAIN chunks : a[i] = chunks[i].amount
      /\ \A i \in 0..Len(chunks) : sums[i] \in Nat
      /\ Total(info) \in Nat /\ Total(info) = sums[Len(chunks)]
      /\ sums[0] = 0 /\ \A i \in 1..Len(chunks) : sums[i] = sums[i - 1] + a[i]
  BY AmountsFacts, SumsDef
<1>. HIDE DEF a, sums
<1>4. CASE larger = {}
  <2>1. kept = <<>> /\ Len(<<>>) = 0 /\ <<>> \in Seq(Chunk)
    BY <1>4, EmptySeq
  <2>2. rest \in BudgetInfo /\ rest.chunks = <<>> /\ rest.lastAward = info.lastAward
    BY <1>1, <2>1 DEF BudgetInfo
  <2>3. Total(rest) = 0
    <3>1. b \in Seq(Nat) /\ Len(b) = 0 /\ Total(rest) = Sums(b)[0]
      BY <2>1, <2>2, AmountsFacts
    <3>. HIDE DEF b
    <3>. QED
      BY <3>1, SumsDef
  <2>4. Total(info) <= amount
    <3>1. CASE Len(chunks) = 0
      BY <1>3, <3>1
    <3>2. CASE Len(chunks) # 0
      <4>1. Len(chunks) \in DOMAIN chunks
        BY <1>1, <3>2
      <4>2. ~(sums[Len(chunks)] > amount)
        BY <1>4, <4>1
      <4>. QED
        BY <1>3, <4>2
    <3>. QED
      BY <3>1, <3>2
  <2>5. Total(rest) + amount = Total(info)
    BY <1>3, <2>3, <2>4
  <2>6. /\ Len(rest.chunks) = Len(info.chunks) - Len(chunks)
        /\ Len(chunks) \in 0..Len(info.chunks)
    BY <1>1, <2>1, <2>2
  <2>7. \A i \in 1..Len(rest.chunks) : FALSE
    BY <2>1, <2>2
  <2>8. Trimmed(rest, info, Len(chunks))
    BY <2>2, <2>6, <2>7 DEF Trimmed
  <2>. HIDE DEF rest
  <2>. QED
    BY <1>2, <2>2, <2>5, <2>6, <2>8
<1>5. CASE larger # {}
  <2>. DEFINE m == Min(larger)
              k == m - 1
              from == From(chunks, larger)
              left == sums[m] - amount
  <2>1. larger \in SUBSET DOMAIN chunks
    OBVIOUS
  <2>2. /\ m \in larger /\ \A i \in larger : m <= i
        /\ from \in Seq(Chunk) /\ Len(from) = Len(chunks) - k
        /\ \A i \in 1..Len(from) : from[i] = chunks[i + k]
    <3>. HIDE DEF larger, chunks
    <3>. QED
      BY <1>1, <1>5, <2>1, FromFacts
  <2>3. m \in 1..Len(chunks) /\ sums[m] \in Nat /\ sums[m] > amount
    BY <1>1, <1>3, <2>2
  <2>4. k \in 0..Len(chunks) /\ k + 1 = m /\ sums[k] \in Nat
    <3>1. k \in 0..Len(chunks) /\ k + 1 = m
      BY <1>1, <2>3
    <3>. QED
      BY <1>3, <3>1
  <2>5. sums[k] <= amount
    <3>1. CASE k = 0
      BY <1>3, <3>1
    <3>2. CASE k # 0
      <4>1. k \in DOMAIN chunks /\ ~(m <= k)
        BY <1>1, <2>3, <2>4, <3>2
      <4>2. k \notin larger
        BY <2>2, <4>1
      <4>. HIDE DEF k
      <4>. QED
        BY <2>4, <4>1, <4>2
    <3>. QED
      BY <3>1, <3>2
  <2>. HIDE DEF m, k
  <2>6. sums[m] = sums[k] + chunks[m].amount /\ chunks[m] \in Chunk /\ chunks[m].amount \in Nat
    BY <1>1, <1>3, <2>3 DEF k
  <2>7. left \in Nat /\ left <= chunks[m].amount
    <3>1. PICK x \in Nat, y \in Nat, z \in Nat :
              x = sums[m] /\ y = sums[k] /\ z = chunks[m].amount
      BY <2>3, <2>4, <2>6
    <3>2. x = y + z /\ x > amount /\ y <= amount
      BY <2>3, <2>5, <2>6, <3>1
    <3>3. x - amount \in Nat /\ x - amount <= z
      BY <3>2
    <3>. QED
      BY <3>1, <3>3
  <2>8. 1 \in 1..Len(from) /\ 1 + k = m /\ Len(from) \in Nat
    BY <1>1, <2>2, <2>3, <2>4
  <2>. HIDE DEF larger, from, left
  <2>9. from[1] = chunks[m]
    BY <2>2, <2>8
  <2>. DEFINE first == [chunks[m] EXCEPT !.amount = left]
  <2>10. /\ first \in Chunk /\ first.amount = left
         /\ first.expiration = chunks[m].expiration
    BY <2>6, <2>7 DEF Chunk
  <2>11. kept = [from EXCEPT ![1] = first]
    BY <1>5, <2>9 DEF from, left, m
  <2>. HIDE DEF first, kept
  <2>12. /\ kept \in Seq(Chunk) /\ Len(kept) = Len(from)
         /\ \A i \in 1..Len(from) : kept[i] = IF i = 1 THEN first ELSE from[i]
    BY <2>2, <2>8, <2>10, <2>11, ExceptSeq
  <2>13. rest \in BudgetInfo /\ rest.chunks = kept /\ rest.lastAward = info.lastAward
    BY <1>1, <2>12 DEF BudgetInfo
  <2>. HIDE DEF rest
  <2>14. Trimmed(rest, info, k)
    <3>1. ASSUME NEW i \in 1..Len(kept)
          PROVE  /\ kept[i].expiration = chunks[i + k].expiration
                 /\ kept[i].amount <= chunks[i + k].amount
      <4>1. CASE i = 1
        BY <2>7, <2>8, <2>10, <2>12, <3>1, <4>1
      <4>2. CASE i # 1
        <5>1. kept[i] = chunks[i + k] /\ i + k \in DOMAIN chunks
          BY <1>1, <2>2, <2>4, <2>12, <3>1, <4>2
        <5>2. chunks[i + k].amount \in Nat
          BY <1>1, <5>1
        <5>. QED
          BY <5>1, <5>2
      <4>. QED
        BY <4>1, <4>2
    <3>. QED
      BY <2>2, <2>4, <2>12, <2>13, <3>1 DEF Trimmed
  <2>15. Total(rest) + amount = Total(info)
    <3>1. /\ b \in Seq(Nat) /\ Len(b) = Len(kept)
          /\ \A i \in 1..Len(kept) : b[i] = kept[i].amount
          /\ Total(rest) \in Nat /\ Total(rest) = Sums(b)[Len(kept)]
          /\ Len(kept) \in Nat
      BY <2>13, AmountsFacts, ChunksFacts
    <3>. HIDE DEF b
    <3>2. Sums(b)[1] = left
      <4>1. Sums(b)[0] = 0 /\ Sums(b)[1] = Sums(b)[1 - 1] + b[1]
        BY <2>8, <2>12, <3>1, SumsDef
      <4>2. b[1] = left
        BY <2>8, <2>10, <2>12, <3>1
      <4>. QED
        BY <2>7, <4>1, <4>2
    <3>. DEFINE n == Len(chunks) - m
    <3>3. n \in Nat /\ m + n = Len(chunks) /\ 1 + n = Len(kept) /\ m \in Nat
      BY <1>1, <2>2, <2>3, <2>4, <2>12
    <3>4. Parallel(a, m, b, 1, n)
      <4>1. ASSUME NEW i \in 1..n PROVE a[m + i] = b[1 + i]
        <5>1. /\ 1 + i \in 1..Len(kept) /\ 1 + i # 1 /\ (1 + i) + k = m + i
              /\ m + i \in DOMAIN chunks
          <6>1. i \in Nat /\ 1 <= i /\ i <= n /\ n \in Nat
            BY <3>3, <4>1
          <6>. HIDE DEF n
          <6>2. k \in Int /\ m \in Int /\ k + 1 = m /\ m + n = Len(chunks) /\ 1 + n = Len(kept)
            BY <2>3, <2>4, <3>3
          <6>. QED
            BY <1>1, <3>3, <6>1, <6>2
        <5>2. kept[1 + i] = chunks[m + i]
          <6>1. kept[1 + i] = from[1 + i]
            BY <2>12, <5>1
          <6>2. from[1 + i] = chunks[(1 + i) + k]
            BY <2>2, <2>12, <5>1
          <6>. QED
            BY <5>1, <6>1, <6>2
        <5>. QED
          BY <1>3, <3>1, <5>1, <5>2
      <4>. HIDE DEF n
      <4>. QED
        BY <1>3, <3>1, <3>3, <4>1 DEF Parallel
    <3>. HIDE DEF n
    <3>5. SumsAgree(a, m, b, 1, n)
      BY <1>3, <3>1, <3>3, <3>4, SumsParallel
    <3>6. sums[m + n] - sums[m] = Sums(b)[1 + n] - Sums(b)[1]
      BY <3>5 DEF SumsAgree, sums
    <3>7. Total(info) - sums[m] = Total(rest) - left
      BY <1>3, <3>1, <3>2, <3>3, <3>6
    <3>8. PICK x \in Nat, y \in Nat, z \in Nat :
              x = Total(info) /\ y = sums[m] /\ z = Total(rest)
      BY <1>3, <2>3, <3>1
    <3>9. left = y - amount
      BY <3>8 DEF left
    <3>10. x - y = z - (y - amount)
      BY <3>7, <3>8, <3>9
    <3>11. z + amount = x
      BY <3>10
    <3>. QED
      BY <3>8, <3>11
  <2>. QED
    BY <1>2, <2>4, <2>13, <2>14, <2>15
<1>. QED
  BY <1>4, <1>5
-----------------------------------------------------------------------------
(* Sound entries, and how one follows another *)

\* Awards are in the order they were made, and each is for the time since the last one.
Sound(info, hour) ==
    /\ info \in BudgetInfo
    /\ ChunksInOrder(info) /\ AwardsCapped(info)
    /\ \A i \in DOMAIN info.chunks : info.chunks[i].expiration <= info.lastAward + Duration
    /\ info.lastAward <= hour

\* What is live and could already be in the old entry is not more in the new one ...
Within(old, new, hour) ==
    /\ old.lastAward <= new.lastAward
    /\ \A time \in Nat : hour < time /\ time <= old.lastAward + Duration =>
          AmountAt(new, time) <= AmountAt(old, time)
\* ... or it is the same.
Kept(old, new, hour) ==
    /\ old.lastAward <= new.lastAward
    /\ \A time \in Nat : hour < time /\ time <= old.lastAward + Duration =>
          AmountAt(new, time) = AmountAt(old, time)

\* What the entry holds and what was spent before it does not exceed what was earned by then.
Backed(info, spent) == Total(info) + spent <= HourlyMaximum * (Duration + info.lastAward)

\* What the assumptions on the constants come to.
LEMMA ConstantsFacts ==
    /\ Duration \in Nat \ {0} /\ HourlyMaximum \in Nat
    /\ \A hourly \in HourlyBudgets : hourly \in Nat /\ hourly <= HourlyMaximum
    /\ OperationCost \in Nat /\ NotCached \notin BudgetInfo
<1>1. Duration \in Nat \ {0}
  <2>. \A x, y \in Nat \ {0} : x * y \in Nat \ {0}
    OBVIOUS
  <2>. QED
    BY BudgetAssumption DEF Duration
<1>2. HourlyMaximum \in HourlyBudgets /\ \A hourly \in HourlyBudgets : hourly <= HourlyMaximum
  BY BudgetAssumption DEF HourlyMaximum
<1>3. NotCached \notin BudgetInfo
  BY BudgetAssumption DEF BudgetInfo, Chunk
<1>. QED
  BY <1>1, <1>2, <1>3, BudgetAssumption

\* In an entry in order the expiration names the chunk.
LEMMA AmountAtFacts ==
    ASSUME NEW info \in BudgetInfo, ChunksInOrder(info)
    PROVE  /\ \A i \in DOMAIN info.chunks :
                 AmountAt(info, info.chunks[i].expiration) = info.chunks[i].amount
           /\ \A time : (\A i \in DOMAIN info.chunks : info.chunks[i].expiration # time)
                          => AmountAt(info, time) = 0
           /\ \A time : AmountAt(info, time) \in Nat
<1>. DEFINE At(time) == {i \in DOMAIN info.chunks : info.chunks[i].expiration = time}
<1>1. /\ Len(info.chunks) \in Nat /\ DOMAIN info.chunks = 1..Len(info.chunks)
      /\ \A i \in DOMAIN info.chunks :
            info.chunks[i].amount \in Nat /\ info.chunks[i].expiration \in Nat
  BY ChunksFacts
<1>2. ASSUME NEW i \in DOMAIN info.chunks, NEW j \in DOMAIN info.chunks,
             info.chunks[i].expiration = info.chunks[j].expiration
      PROVE  i = j
  <2>1. i \in Nat /\ j \in Nat
    BY <1>1
  <2>2. ~(i < j) /\ ~(j < i)
    BY <1>1, <1>2 DEF ChunksInOrder
  <2>. QED
    BY <2>1, <2>2
<1>3. ASSUME NEW time, At(time) = {}
      PROVE  AmountAt(info, time) = 0
  BY <1>3 DEF AmountAt
<1>4. ASSUME NEW time, NEW i \in At(time)
      PROVE  AmountAt(info, time) = info.chunks[i].amount
  <2>1. At(time) = {i}
    BY <1>2
  <2>2. AmountAt(info, time) = info.chunks[CHOOSE j \in {i} : TRUE].amount
    BY <2>1 DEF AmountAt
  <2>. QED
    BY <2>2
<1>5. \A i \in DOMAIN info.chunks :
         AmountAt(info, info.chunks[i].expiration) = info.chunks[i].amount
  BY <1>4
<1>6. \A time : (\A i \in DOMAIN info.chunks : info.chunks[i].expiration # time)
                  => AmountAt(info, time) = 0
  BY <1>3
<1>7. ASSUME NEW time PROVE AmountAt(info, time) \in Nat
  <2>1. CASE At(time) = {}
    BY <1>3, <2>1
  <2>2. CASE At(time) # {}
    <3>1. PICK i \in At(time) : TRUE
      BY <2>2
    <3>. QED
      BY <1>1, <1>4, <3>1
  <2>. QED
    BY <2>1, <2>2
<1>. QED
  BY <1>5, <1>6, <1>7

\* Chunks erased from the front, or less in the first one left, keep an entry sound.
LEMMA TrimmedFacts ==
    ASSUME NEW info, Sound(info, now), NEW rest \in BudgetInfo, NEW k, Trimmed(rest, info, k)
    PROVE  Sound(rest, now) /\ \A time : AmountAt(rest, time) <= AmountAt(info, time)
<1>0. info \in BudgetInfo
  BY DEF Sound
<1>1. /\ Len(info.chunks) \in Nat /\ DOMAIN info.chunks = 1..Len(info.chunks)
      /\ Len(rest.chunks) \in Nat /\ DOMAIN rest.chunks = 1..Len(rest.chunks)
      /\ info.lastAward \in Nat
      /\ \A i \in DOMAIN info.chunks :
            info.chunks[i].amount \in Nat /\ info.chunks[i].expiration \in Nat
      /\ \A i \in DOMAIN rest.chunks :
            rest.chunks[i].amount \in Nat /\ rest.chunks[i].expiration \in Nat
  BY <1>0, ChunksFacts
<1>2. k \in Nat /\ rest.lastAward = info.lastAward
  BY <1>1 DEF Trimmed
<1>3. \A i \in DOMAIN rest.chunks :
         /\ i \in Nat /\ i + k \in DOMAIN info.chunks
         /\ rest.chunks[i].expiration = info.chunks[i + k].expiration
         /\ rest.chunks[i].amount <= info.chunks[i + k].amount
  <2>. SUFFICES ASSUME NEW i \in DOMAIN rest.chunks
                PROVE  i \in Nat /\ i + k \in DOMAIN info.chunks
    BY <1>1 DEF Trimmed
  <2>1. i \in 1..Len(rest.chunks) /\ Len(rest.chunks) = Len(info.chunks) - k
    BY <1>1 DEF Trimmed
  <2>. QED
    BY <1>1, <1>2, <2>1
<1>4. ChunksInOrder(rest)
  <2>1. ASSUME NEW i \in DOMAIN rest.chunks, NEW j \in DOMAIN rest.chunks, i < j
        PROVE  rest.chunks[i].expiration < rest.chunks[j].expiration
    <3>1. i + k < j + k
      BY <1>2, <1>3, <2>1
    <3>2. info.chunks[i + k].expiration < info.chunks[j + k].expiration
      BY <1>3, <3>1 DEF Sound, ChunksInOrder
    <3>. QED
      BY <1>3, <3>2
  <2>. QED
    BY <2>1 DEF ChunksInOrder
<1>5. AwardsCapped(rest)
  <2>1. ASSUME NEW i \in DOMAIN rest.chunks
        PROVE  rest.chunks[i].amount <= Duration * HourlyMaximum
    <3>1. info.chunks[i + k].amount <= Duration * HourlyMaximum
      BY <1>3 DEF Sound, AwardsCapped
    <3>2. /\ rest.chunks[i].amount <= info.chunks[i + k].amount
          /\ rest.chunks[i].amount \in Nat /\ info.chunks[i + k].amount \in Nat
      BY <1>1, <1>3
    <3>3. Duration * HourlyMaximum \in Nat
      BY ConstantsFacts
    <3>. QED
      BY <3>1, <3>2, <3>3
  <2>. QED
    BY <2>1 DEF AwardsCapped
<1>6. Sound(rest, now)
  BY <1>2, <1>3, <1>4, <1>5 DEF Sound
<1>7. ASSUME NEW time PROVE AmountAt(rest, time) <= AmountAt(info, time)
  <2>1. ChunksInOrder(info) /\ AmountAt(info, time) \in Nat
    BY <1>0, AmountAtFacts DEF Sound
  <2>2. CASE \E i \in DOMAIN rest.chunks : rest.chunks[i].expiration = time
    <3>1. PICK i \in DOMAIN rest.chunks : rest.chunks[i].expiration = time
      BY <2>2
    <3>2. AmountAt(rest, time) = rest.chunks[i].amount
      BY <1>4, <3>1, AmountAtFacts
    <3>3. AmountAt(info, time) = info.chunks[i + k].amount
      BY <1>0, <1>3, <2>1, <3>1, AmountAtFacts
    <3>. QED
      BY <1>3, <3>2, <3>3
  <2>3. CASE \A i \in DOMAIN rest.chunks : rest.chunks[i].expiration # time
    <3>1. AmountAt(rest, time) = 0
      BY <1>4, <2>3, AmountAtFacts
    <3>. QED
      BY <2>1, <3>1
  <2>. QED
    BY <2>2, <2>3
<1>. QED
  BY <1>6, <1>7

\* What a spend leaves is sound, and no chunk of it is larger.
LEMMA SpendSound ==
    ASSUME NEW info, Sound(info, now), NEW amount \in Nat, Total(info) >= amount
    PROVE  /\ Sound(Spend(info, amount), now) /\ Within(info, Spend(info, amount), now)
           /\ \A spent \in Nat : Backed(info, spent) =>
                 Backed(Spend(info, amount), spent + amount)
<1>. DEFINE rest == Spend(info, amount)
<1>1. info \in BudgetInfo
  BY DEF Sound
<1>2. PICK k \in 0..Len(info.chunks) :
         rest \in BudgetInfo /\ Trimmed(rest, info, k) /\ Total(rest) + amount = Total(info)
  BY <1>1, SpendFacts
<1>3. rest.lastAward = info.lastAward /\ info.lastAward \in Nat
  BY <1>1, <1>2, ChunksFacts DEF Trimmed
<1>. HIDE DEF rest
<1>4. Sound(rest, now) /\ \A time : AmountAt(rest, time) <= AmountAt(info, time)
  BY <1>2, TrimmedFacts
<1>5. Within(info, rest, now)
  BY <1>3, <1>4 DEF Within
<1>6. ASSUME NEW spent \in Nat, Backed(info, spent) PROVE Backed(rest, spent + amount)
  <2>1. Total(rest) \in Nat /\ Total(info) \in Nat
    BY <1>1, <1>2, AmountsFacts
  <2>2. Total(rest) + (spent + amount) = Total(info) + spent
    BY <1>2, <2>1
  <2>. QED
    BY <1>3, <1>6, <2>2 DEF Backed
<1>. QED
  BY <1>4, <1>5, <1>6 DEF rest
-----------------------------------------------------------------------------
(* Awards *)

\* More whole days than the duration has are at least the duration.
LEMMA WholeDays ==
    ASSUME NEW hours \in Nat, hours \div HoursPerDay > DurationInDays
    PROVE  hours >= Duration
<1>1. HoursPerDay \in Nat \ {0} /\ DurationInDays \in Nat
  BY BudgetAssumption
<1>. DEFINE days == hours \div HoursPerDay
<1>2. days \in Nat /\ hours >= HoursPerDay * days
  BY <1>1
<1>. HIDE DEF days
<1>3. \A x, y, z \in Nat : y <= z => x * y <= x * z
  OBVIOUS
<1>4. HoursPerDay * DurationInDays <= HoursPerDay * days
  <2>1. DurationInDays <= days
    BY <1>1, <1>2 DEF days
  <2>. QED
    BY <1>1, <1>2, <1>3, <2>1
<1>5. HoursPerDay * DurationInDays = Duration /\ HoursPerDay * DurationInDays \in Nat
      /\ HoursPerDay * days \in Nat
  BY <1>1, <1>2 DEF Duration
<1>. QED
  BY <1>2, <1>4, <1>5

\* Hours are awarded at most once: no more than passed since the last award, or the duration.
LEMMA ElapsedFacts ==
    ASSUME NEW info, Sound(info, now), now \in Nat, now - info.lastAward <= Duration
    PROVE  /\ Elapsed(info) \in Nat /\ Elapsed(info) <= Duration
           /\ Elapsed(info) <= now - info.lastAward
<1>1. /\ info \in BudgetInfo /\ info.lastAward \in Nat /\ info.lastAward <= now
      /\ info # NotCached /\ Duration \in Nat
  BY ConstantsFacts, ChunksFacts DEF Sound
<1>. DEFINE since == now - info.lastAward
<1>2. since \in Nat /\ since <= Duration
  BY <1>1
<1>3. Elapsed(info) = IF since \div HoursPerDay > DurationInDays THEN Duration ELSE since
  BY <1>1 DEF Elapsed
<1>. HIDE DEF since
<1>4. CASE since \div HoursPerDay > DurationInDays
  BY <1>1, <1>2, <1>3, <1>4, WholeDays DEF since
<1>5. CASE ~(since \div HoursPerDay > DurationInDays)
  BY <1>1, <1>2, <1>3, <1>5 DEF since
<1>. QED
  BY <1>4, <1>5

\* Products of natural numbers grow with their factors.
LEMMA Products ==
    /\ \A x, y \in Nat : x * y \in Nat
    /\ \A w, x, y, z \in Nat : w <= x /\ y <= z => w * y <= x * z
    /\ \A x, y, z \in Nat : x * (y + z) = x * y + x * z
<1>1. \A x, y \in Nat : x * y \in Nat
  OBVIOUS
<1>2. \A x, y, z \in Nat : x * (y + z) = x * y + x * z
  OBVIOUS
<1>3. ASSUME NEW w \in Nat, NEW x \in Nat, NEW y \in Nat, NEW z \in Nat, w <= x, y <= z
      PROVE  w * y <= x * z
  <2>1. PICK u \in Nat, v \in Nat : x = w + u /\ z = y + v
    <3>1. x - w \in Nat /\ z - y \in Nat /\ x = w + (x - w) /\ z = y + (z - y)
      BY <1>3
    <3>. QED
      BY <3>1
  <2>2. x * z = (w + u) * y + (w + u) * v
    BY <2>1
  <2>3. (w + u) * y = w * y + u * y
    OBVIOUS
  <2>4. w * y \in Nat /\ u * y \in Nat /\ (w + u) * v \in Nat
    OBVIOUS
  <2>5. x * z = w * y + (u * y + (w + u) * v)
    BY <2>2, <2>3, <2>4
  <2>. QED
    BY <2>4, <2>5
<1>. QED
  BY <1>1, <1>2, <1>3

\* The first award of an origin: one chunk for the whole duration.
LEMMA NewEntry ==
    ASSUME NEW hourly \in HourlyBudgets, now \in Nat
    PROVE  /\ Sound(AddEngagementBudget(NotCached, hourly), now)
           /\ AddEngagementBudget(NotCached, hourly).lastAward = now
           /\ Total(AddEngagementBudget(NotCached, hourly)) = Duration * hourly
           /\ Duration * hourly \in Nat /\ Duration * hourly <= Duration * HourlyMaximum
<1>. DEFINE award == [amount |-> Duration * hourly, expiration |-> now + Duration]
            info == [chunks |-> Append(<<>>, award), lastAward |-> now]
            none == [chunks |-> <<>>, lastAward |-> now]
<1>1. /\ Duration \in Nat \ {0} /\ hourly \in Nat /\ hourly <= HourlyMaximum
      /\ HourlyMaximum \in Nat
  BY ConstantsFacts
<1>2. Duration * hourly \in Nat /\ Duration * hourly <= Duration * HourlyMaximum
  <2>1. Duration <= Duration
    BY <1>1
  <2>. QED
    BY <1>1, <2>1, Products
<1>3. AddEngagementBudget(NotCached, hourly) = info
  BY <1>1 DEF AddEngagementBudget, Elapsed
<1>4. award \in Chunk /\ <<>> \in Seq(Chunk)
  BY <1>1, <1>2 DEF Chunk
<1>5. /\ info.chunks \in Seq(Chunk) /\ Len(info.chunks) = 1 /\ info.chunks[1] = award
      /\ DOMAIN info.chunks = 1..1
  BY <1>4
<1>6. info \in BudgetInfo /\ none \in BudgetInfo
  BY <1>4, <1>5 DEF BudgetInfo
<1>7. Total(info) = Duration * hourly
  <2>1. info.chunks = Append(none.chunks, award)
    OBVIOUS
  <2>2. Total(none) = 0
    <3>1. none.chunks = <<>> /\ Len(<<>>) = 0
      BY EmptySeq
    <3>. HIDE DEF none
    <3>2. Amounts(none) \in Seq(Nat) /\ Total(none) = Sums(Amounts(none))[0]
      BY <1>6, <3>1, AmountsFacts
    <3>. QED
      BY <3>2, SumsDef
  <2>. HIDE DEF info, none
  <2>3. Total(info) = Total(none) + award.amount
    BY <1>4, <1>6, <2>1, TotalOfAppend
  <2>. QED
    BY <1>2, <2>2, <2>3
<1>8. /\ award.amount = Duration * hourly /\ award.expiration = now + Duration
      /\ info.lastAward = now
  OBVIOUS
<1>. HIDE DEF info, award
<1>9. ChunksInOrder(info) /\ AwardsCapped(info)
  <2>1. \A i \in DOMAIN info.chunks : i = 1
    BY <1>5
  <2>. QED
    BY <1>2, <1>5, <1>8, <2>1 DEF ChunksInOrder, AwardsCapped
<1>10. \A i \in DOMAIN info.chunks : info.chunks[i].expiration <= info.lastAward + Duration
  <2>1. \A i \in DOMAIN info.chunks : info.chunks[i] = award
    BY <1>5
  <2>. QED
    BY <1>1, <1>8, <2>1
<1>. QED
  BY <1>2, <1>3, <1>6, <1>7, <1>8, <1>9, <1>10 DEF Sound

\* A later award changes no live chunk, and is backed by the hours since the last one.
LEMMA AwardFacts ==
    ASSUME NEW info, Sound(info, now), now \in Nat, now - info.lastAward <= Duration,
           NEW hourly \in HourlyBudgets
    PROVE  /\ Sound(AddEngagementBudget(info, hourly), now)
           /\ Kept(info, AddEngagementBudget(info, hourly), now)
           /\ \A spent \in Nat : Backed(info, spent) =>
                 Backed(AddEngagementBudget(info, hourly), spent)
<1>. DEFINE e == Elapsed(info)
            n == Len(info.chunks)
            award == [amount |-> e * hourly, expiration |-> now + Duration]
            more == [chunks |-> Append(info.chunks, award), lastAward |-> now]
<1>1. /\ info \in BudgetInfo /\ info # NotCached
      /\ info.chunks \in Seq(Chunk) /\ info.lastAward \in Nat /\ info.lastAward <= now
      /\ n \in Nat /\ DOMAIN info.chunks = 1..n
      /\ \A i \in DOMAIN info.chunks :
            info.chunks[i].amount \in Nat /\ info.chunks[i].expiration \in Nat
      /\ ChunksInOrder(info)
  BY ConstantsFacts, ChunksFacts DEF Sound
<1>2. /\ Duration \in Nat \ {0} /\ hourly \in Nat /\ hourly <= HourlyMaximum
      /\ HourlyMaximum \in Nat
  BY ConstantsFacts
<1>3. e \in Nat /\ e <= Duration /\ e <= now - info.lastAward
  BY ElapsedFacts
<1>4. AddEngagementBudget(info, hourly) = IF e < 1 THEN info ELSE more
  BY <1>1 DEF AddEngagementBudget
<1>5. CASE e < 1
  <2>1. Kept(info, info, now)
    BY <1>1 DEF Kept
  <2>. HIDE DEF e, more
  <2>. QED
    BY <1>4, <1>5, <2>1
<1>6. CASE ~(e < 1)
  <2>1. info.lastAward < now
    BY <1>1, <1>3, <1>6
  <2>. HIDE DEF e
  <2>2. e * hourly \in Nat /\ e * hourly <= Duration * HourlyMaximum
    BY <1>2, <1>3, Products
  <2>3. /\ award \in Chunk
        /\ award.amount = e * hourly /\ award.expiration = now + Duration
    BY <1>2, <2>2 DEF Chunk
  <2>. HIDE DEF award
  <2>4. /\ Append(info.chunks, award) \in Seq(Chunk)
        /\ Len(Append(info.chunks, award)) = n + 1
        /\ Append(info.chunks, award)[n + 1] = award
        /\ \A i \in 1..n : Append(info.chunks, award)[i] = info.chunks[i]
    BY <1>1, <2>3, AppendProperties
  <2>5. /\ more \in BudgetInfo /\ more.lastAward = now
        /\ more.chunks = Append(info.chunks, award)
    BY <2>4 DEF BudgetInfo
  <2>. HIDE DEF more, n
  <2>6. Total(more) = Total(info) + e * hourly
    BY <1>1, <2>3, <2>5, TotalOfAppend
  <2>7. DOMAIN more.chunks = 1..(n + 1)
    BY <2>4, <2>5, ChunksFacts
  <2>8. \A i \in DOMAIN more.chunks :
          \/ i \in DOMAIN info.chunks /\ more.chunks[i] = info.chunks[i]
          \/ i = n + 1 /\ more.chunks[i] = award
    BY <1>1, <2>4, <2>5, <2>7
  <2>9. \A i \in DOMAIN info.chunks :
          /\ i \in Nat /\ i <= n
          /\ i \in DOMAIN more.chunks /\ more.chunks[i] = info.chunks[i]
          /\ info.chunks[i].expiration <= info.lastAward + Duration
          /\ info.chunks[i].expiration < now + Duration
    <3>. SUFFICES ASSUME NEW i \in DOMAIN info.chunks
                  PROVE  /\ i \in Nat /\ i <= n
                         /\ i \in DOMAIN more.chunks /\ more.chunks[i] = info.chunks[i]
                         /\ info.chunks[i].expiration <= info.lastAward + Duration
                         /\ info.chunks[i].expiration < now + Duration
      OBVIOUS
    <3>1. i \in Nat /\ i <= n /\ i \in 1..(n + 1)
      BY <1>1
    <3>2. info.chunks[i].expiration <= info.lastAward + Duration
      BY DEF Sound
    <3>3. info.chunks[i].expiration < now + Duration
      BY <1>1, <1>2, <2>1, <3>2
    <3>. QED
      BY <1>1, <2>4, <2>5, <2>7, <3>1, <3>2, <3>3
  <2>10. ChunksInOrder(more)
    <3>1. ASSUME NEW i \in DOMAIN more.chunks, NEW j \in DOMAIN more.chunks, i < j
          PROVE  more.chunks[i].expiration < more.chunks[j].expiration
      <4>1. i \in DOMAIN info.chunks
        BY <1>1, <2>7, <3>1
      <4>2. CASE j \in DOMAIN info.chunks
        BY <1>1, <2>9, <3>1, <4>1, <4>2 DEF ChunksInOrder
      <4>3. CASE j = n + 1 /\ more.chunks[j] = award
        BY <2>3, <2>9, <4>1, <4>3
      <4>. QED
        BY <2>8, <4>2, <4>3
    <3>. QED
      BY <3>1 DEF ChunksInOrder
  <2>11. AwardsCapped(more)
    BY <2>2, <2>3, <2>8 DEF AwardsCapped, Sound
  <2>12. \A i \in DOMAIN more.chunks : more.chunks[i].expiration <= more.lastAward + Duration
    <3>1. \A i \in DOMAIN info.chunks : info.chunks[i].expiration <= now + Duration
      BY <1>1, <1>2, <2>9
    <3>2. award.expiration <= now + Duration
      BY <1>2, <2>3
    <3>. QED
      BY <2>5, <2>8, <3>1, <3>2
  <2>13. Sound(more, now)
    BY <2>5, <2>10, <2>11, <2>12 DEF Sound
  <2>14. Kept(info, more, now)
    <3>1. ASSUME NEW time \in Nat, time <= info.lastAward + Duration
          PROVE  AmountAt(more, time) = AmountAt(info, time)
      <4>1. CASE \E i \in DOMAIN info.chunks : info.chunks[i].expiration = time
        <5>1. PICK i \in DOMAIN info.chunks : info.chunks[i].expiration = time
          BY <4>1
        <5>2. AmountAt(info, time) = info.chunks[i].amount
          BY <1>1, <5>1, AmountAtFacts
        <5>3. AmountAt(more, time) = more.chunks[i].amount
          BY <2>5, <2>9, <2>10, <5>1, AmountAtFacts
        <5>. QED
          BY <2>9, <5>2, <5>3
      <4>2. CASE \A i \in DOMAIN info.chunks : info.chunks[i].expiration # time
        <5>1. award.expiration # time
          BY <1>1, <1>2, <2>1, <2>3, <3>1
        <5>2. \A i \in DOMAIN more.chunks : more.chunks[i].expiration # time
          BY <2>8, <4>2, <5>1
        <5>3. AmountAt(more, time) = 0
          BY <2>5, <2>10, <5>2, AmountAtFacts
        <5>4. AmountAt(info, time) = 0
          BY <1>1, <4>2, AmountAtFacts
        <5>. QED
          BY <5>3, <5>4
      <4>. QED
        BY <4>1, <4>2
    <3>. QED
      BY <1>1, <2>1, <2>5, <3>1 DEF Kept
  <2>15. ASSUME NEW spent \in Nat, Backed(info, spent) PROVE Backed(more, spent)
    <3>. DEFINE since == now - info.lastAward
    <3>1. since \in Nat /\ e <= since /\ Duration + now = (Duration + info.lastAward) + since
      BY <1>1, <1>2, <1>3
    <3>. HIDE DEF since
    <3>2. e * hourly <= HourlyMaximum * since /\ HourlyMaximum * since \in Nat
      <4>1. e * hourly <= since * HourlyMaximum
        BY <1>2, <1>3, <3>1, Products
      <4>. QED
        BY <1>2, <3>1, <4>1, Products
    <3>3. Duration + info.lastAward \in Nat
      BY <1>1, <1>2
    <3>4. HourlyMaximum * (Duration + now)
            = HourlyMaximum * (Duration + info.lastAward) + HourlyMaximum * since
      <4>1. PICK x \in Nat : x = Duration + info.lastAward
        BY <3>3
      <4>2. HourlyMaximum * (x + since) = HourlyMaximum * x + HourlyMaximum * since
        BY <1>2, <3>1, Products
      <4>3. Duration + now = x + since
        BY <3>1, <4>1
      <4>. HIDE DEF since
      <4>. QED
        BY <4>1, <4>2, <4>3
    <3>5. HourlyMaximum * (Duration + info.lastAward) \in Nat
      BY <1>2, <3>3, Products
    <3>6. /\ Total(info) \in Nat
          /\ Total(info) + spent <= HourlyMaximum * (Duration + info.lastAward)
      BY <1>1, <2>15, AmountsFacts DEF Backed
    <3>7. Total(more) + spent = (Total(info) + spent) + e * hourly
      BY <2>2, <2>6, <3>6
    <3>8. Total(more) + spent <= HourlyMaximum * (Duration + now)
      BY <2>2, <3>2, <3>4, <3>5, <3>6, <3>7
    <3>. QED
      BY <2>5, <3>8 DEF Backed
  <2>. QED
    BY <1>4, <1>6, <2>13, <2>14, <2>15
<1>. QED
  BY <1>5, <1>6

\* SyncLoadedCache makes a sound entry of whatever was loaded.
LEMMA SyncedFacts ==
    ASSUME NEW info, info = NotCached \/ Sound(info, now), now \in Nat,
           NEW hourly \in HourlyBudgets
    PROVE  /\ Sound(Synced(info, hourly), now)
           /\ info # NotCached =>
                 /\ Kept(info, Synced(info, hourly), now)
                 /\ \A spent \in Nat :
                       Backed(info, spent) => Backed(Synced(info, hourly), spent)
           /\ info = NotCached => Backed(Synced(info, hourly), 0)
<1>. DEFINE new == AddEngagementBudget(NotCached, hourly)
<1>1. Duration \in Nat \ {0} /\ HourlyMaximum \in Nat
  BY ConstantsFacts
<1>2. /\ Sound(new, now) /\ new.lastAward = now /\ Total(new) = Duration * hourly
      /\ Duration * hourly \in Nat /\ Duration * hourly <= Duration * HourlyMaximum
  BY NewEntry
<1>3. /\ HourlyMaximum * (Duration + now) = Duration * HourlyMaximum + HourlyMaximum * now
      /\ HourlyMaximum * now \in Nat /\ Duration * HourlyMaximum \in Nat
  <2>1. HourlyMaximum * Duration = Duration * HourlyMaximum
    BY <1>1
  <2>. QED
    BY <1>1, <2>1, Products
<1>4. CASE info = NotCached
  <2>1. Synced(info, hourly) = new
    BY <1>4 DEF Synced, CleanupExpiredBudget
  <2>2. Backed(new, 0)
    BY <1>2, <1>3 DEF Backed
  <2>. HIDE DEF new
  <2>. QED
    BY <1>2, <1>4, <2>1, <2>2
<1>5. CASE info # NotCached /\ Lapsed(info)
  <2>1. Synced(info, hourly) = new
    BY <1>5 DEF Synced, CleanupExpiredBudget
  <2>2. info \in BudgetInfo /\ info.lastAward \in Nat /\ info.lastAward < now - Duration
    BY <1>5, ChunksFacts DEF Sound, Lapsed
  <2>. HIDE DEF new
  <2>3. Kept(info, new, now)
    <3>1. /\ info.lastAward <= now
          /\ \A time \in Nat : ~(now < time /\ time <= info.lastAward + Duration)
      BY <1>1, <2>2
    <3>. QED
      BY <1>2, <3>1 DEF Kept
  <2>4. ASSUME NEW spent \in Nat, Backed(info, spent) PROVE Backed(new, spent)
    <3>1. Duration + info.lastAward \in Nat /\ Duration + info.lastAward <= now
      BY <1>1, <2>2
    <3>2. /\ HourlyMaximum * (Duration + info.lastAward) <= HourlyMaximum * now
          /\ HourlyMaximum * (Duration + info.lastAward) \in Nat
      <4>1. HourlyMaximum <= HourlyMaximum
        BY <1>1
      <4>. QED
        BY <1>1, <3>1, <4>1, Products
    <3>3. /\ Total(info) \in Nat
          /\ Total(info) + spent <= HourlyMaximum * (Duration + info.lastAward)
      BY <2>2, <2>4, AmountsFacts DEF Backed
    <3>4. spent <= HourlyMaximum * now
      BY <1>3, <3>2, <3>3
    <3>5. Total(new) + spent <= HourlyMaximum * (Duration + now)
      BY <1>2, <1>3, <3>4
    <3>. QED
      BY <1>2, <3>5 DEF Backed
  <2>. QED
    BY <1>2, <1>5, <2>1, <2>3, <2>4
<1>6. CASE info # NotCached /\ ~Lapsed(info)
  <2>. DEFINE rest == WithoutExpired(info)
  <2>1. Synced(info, hourly) = AddEngagementBudget(rest, hourly)
    BY <1>6 DEF Synced, CleanupExpiredBudget
  <2>2. /\ Sound(info, now) /\ info \in BudgetInfo /\ ChunksInOrder(info)
        /\ info.lastAward \in Nat /\ info.lastAward <= now
        /\ Len(info.chunks) \in Nat /\ DOMAIN info.chunks = 1..Len(info.chunks)
        /\ \A i \in DOMAIN info.chunks :
              info.chunks[i].amount \in Nat /\ info.chunks[i].expiration \in Nat
    BY <1>6, ChunksFacts DEF Sound
  <2>3. rest \in BudgetInfo
    BY <2>2, WithoutExpiredFacts
  <2>4. PICK k \in 0..Len(info.chunks) :
          /\ Trimmed(rest, info, k)
          /\ \A i \in 1..k : Expired(info.chunks[i])
          /\ \A i \in 1..Len(rest.chunks) : rest.chunks[i] = info.chunks[i + k]
          /\ rest.chunks # <<>> =>
                k + 1 \in DOMAIN info.chunks /\ ~Expired(info.chunks[k + 1])
    BY <2>2, WithoutExpiredFacts
  <2>5. rest.lastAward = info.lastAward /\ Len(rest.chunks) = Len(info.chunks) - k
    BY <2>4 DEF Trimmed
  <2>6. ~(rest.chunks = <<>> /\ info.lastAward < now - Duration)
    BY <1>6 DEF Lapsed
  <2>. HIDE DEF rest
  <2>7. Sound(rest, now) /\ \A time : AmountAt(rest, time) <= AmountAt(info, time)
    BY <2>2, <2>3, <2>4, TrimmedFacts
  <2>8. now - rest.lastAward <= Duration
    <3>1. CASE rest.chunks = <<>>
      BY <1>1, <2>2, <2>5, <2>6, <3>1
    <3>2. CASE rest.chunks # <<>>
      <4>1. k + 1 \in DOMAIN info.chunks /\ ~(info.chunks[k + 1].expiration <= now)
        BY <2>4, <3>2 DEF Expired
      <4>2. info.chunks[k + 1].expiration <= info.lastAward + Duration
        BY <2>2, <4>1 DEF Sound
      <4>3. info.chunks[k + 1].expiration \in Nat
        BY <2>2, <4>1
      <4>. QED
        BY <1>1, <2>2, <2>5, <4>1, <4>2, <4>3
    <3>. QED
      BY <3>1, <3>2
  <2>9. Kept(info, rest, now)
    <3>1. ASSUME NEW time \in Nat, now < time
          PROVE  AmountAt(rest, time) = AmountAt(info, time)
      <4>1. AmountAt(rest, time) \in Nat
        BY <2>3, <2>7, AmountAtFacts DEF Sound
      <4>2. CASE \E i \in DOMAIN info.chunks : info.chunks[i].expiration = time
        <5>1. PICK i \in DOMAIN info.chunks : info.chunks[i].expiration = time
          BY <4>2
        <5>2. ~(i \in 1..k)
          <6>1. ~Expired(info.chunks[i])
            BY <3>1, <5>1 DEF Expired
          <6>. QED
            BY <2>4, <6>1
        <5>3. i - k \in 1..Len(rest.chunks) /\ (i - k) + k = i
          BY <2>2, <2>5, <5>2
        <5>4. i - k \in DOMAIN rest.chunks /\ rest.chunks[i - k] = info.chunks[i]
          BY <2>3, <2>4, <5>3, ChunksFacts
        <5>5. AmountAt(info, time) = info.chunks[i].amount
          BY <2>2, <5>1, AmountAtFacts
        <5>6. AmountAt(rest, time) = rest.chunks[i - k].amount
          BY <2>3, <2>7, <5>1, <5>4, AmountAtFacts DEF Sound
        <5>. QED
          BY <5>4, <5>5, <5>6
      <4>3. CASE \A i \in DOMAIN info.chunks : info.chunks[i].expiration # time
        <5>1. AmountAt(info, time) = 0
          BY <2>2, <4>3, AmountAtFacts
        <5>. QED
          BY <2>7, <4>1, <5>1
      <4>. QED
        BY <4>2, <4>3
    <3>. QED
      BY <2>2, <2>5, <3>1 DEF Kept
  <2>10. ASSUME NEW spent \in Nat, Backed(info, spent) PROVE Backed(rest, spent)
    <3>1. Total(info) = Total(rest) + Sums(Amounts(info))[k]
      <4>1. \A i \in 1..Len(rest.chunks) : rest.chunks[i].amount = info.chunks[i + k].amount
        BY <2>4
      <4>. QED
        BY <2>2, <2>3, <2>5, <4>1, TotalOfSuffix
    <3>2. Total(info) \in Nat /\ Total(rest) \in Nat /\ Sums(Amounts(info))[k] \in Nat
      BY <2>2, <2>3, AmountsFacts
    <3>3. Total(rest) + spent <= Total(info) + spent
      BY <3>1, <3>2
    <3>4. HourlyMaximum * (Duration + info.lastAward) \in Nat
      <4>1. Duration + info.lastAward \in Nat
        BY <1>1, <2>2
      <4>. QED
        BY <1>1, <4>1, Products
    <3>. QED
      BY <2>5, <2>10, <3>2, <3>3, <3>4 DEF Backed
  <2>11. /\ Sound(AddEngagementBudget(rest, hourly), now)
         /\ Kept(rest, AddEngagementBudget(rest, hourly), now)
         /\ \A spent \in Nat : Backed(rest, spent) =>
               Backed(AddEngagementBudget(rest, hourly), spent)
    BY <2>7, <2>8, AwardFacts
  <2>. DEFINE more == AddEngagementBudget(rest, hourly)
  <2>. HIDE DEF more
  <2>12. Kept(info, more, now)
    <3>1. Kept(rest, more, now)
      BY <2>11 DEF more
    <3>. QED
      BY <2>5, <2>9, <3>1 DEF Kept
  <2>. QED
    BY <1>6, <2>1, <2>10, <2>11, <2>12 DEF more
<1>. QED
  BY <1>4, <1>5, <1>6

\* A sound entry has its types.
LEMMA SoundFacts ==
    ASSUME NEW info, NEW hour, Sound(info, hour)
    PROVE  /\ info \in BudgetInfo /\ info # NotCached /\ info \in Entries
           /\ info.lastAward \in Nat /\ info.lastAward <= hour
           /\ \A time : AmountAt(info, time) \in Nat
<1>1. info \in BudgetInfo /\ ChunksInOrder(info) /\ info.lastAward <= hour
  BY DEF Sound
<1>. QED
  BY <1>1, ConstantsFacts, ChunksFacts, AmountAtFacts DEF Entries

\* Following another entry, in the origin's disfavour or exactly, is transitive.
LEMMA FollowsTransitive ==
    ASSUME NEW hour, NEW a, Sound(a, hour), NEW b, Sound(b, hour), NEW c, Sound(c, hour)
    PROVE  /\ Within(a, b, hour) /\ Within(b, c, hour) => Within(a, c, hour)
           /\ Kept(a, b, hour) /\ Kept(b, c, hour) => Kept(a, c, hour)
           /\ Kept(a, b, hour) => Within(a, b, hour)
           /\ Kept(a, a, hour)
<1>1. /\ a.lastAward \in Nat /\ b.lastAward \in Nat /\ c.lastAward \in Nat
      /\ \A time : /\ AmountAt(a, time) \in Nat /\ AmountAt(b, time) \in Nat
                   /\ AmountAt(c, time) \in Nat
      /\ Duration \in Nat
  BY SoundFacts, ConstantsFacts
<1>2. ASSUME a.lastAward <= b.lastAward, b.lastAward <= c.lastAward
      PROVE  /\ a.lastAward <= c.lastAward
             /\ \A time \in Nat :
                   time <= a.lastAward + Duration => time <= b.lastAward + Duration
  BY <1>1, <1>2
<1>3. ASSUME Within(a, b, hour), Within(b, c, hour) PROVE Within(a, c, hour)
  <2>1. a.lastAward <= b.lastAward /\ b.lastAward <= c.lastAward
    BY <1>3 DEF Within
  <2>2. ASSUME NEW time \in Nat, hour < time, time <= a.lastAward + Duration
        PROVE  AmountAt(c, time) <= AmountAt(a, time)
    <3>1. AmountAt(b, time) <= AmountAt(a, time)
      BY <1>3, <2>2 DEF Within
    <3>2. AmountAt(c, time) <= AmountAt(b, time)
      BY <1>2, <1>3, <2>1, <2>2 DEF Within
    <3>. QED
      BY <1>1, <3>1, <3>2
  <2>. QED
    BY <1>2, <2>1, <2>2 DEF Within
<1>4. ASSUME Kept(a, b, hour), Kept(b, c, hour) PROVE Kept(a, c, hour)
  <2>1. a.lastAward <= b.lastAward /\ b.lastAward <= c.lastAward
    BY <1>4 DEF Kept
  <2>. QED
    BY <1>2, <1>4, <2>1 DEF Kept
<1>5. Kept(a, b, hour) => Within(a, b, hour)
  BY <1>1 DEF Kept, Within
<1>6. Kept(a, a, hour)
  BY <1>1 DEF Kept
<1>. QED
  BY <1>3, <1>4, <1>5, <1>6

-----------------------------------------------------------------------------
(* Queues and what their spends come to *)

\* The sums of a list without its first number.
LEMMA SumsOfTail ==
    ASSUME NEW a \in Seq(Nat), NEW b \in Seq(Nat), Len(a) = Len(b) + 1,
           \A i \in 1..Len(b) : b[i] = a[i + 1]
    PROVE  \A n \in 0..Len(b) : Sums(a)[n + 1] = Sums(b)[n] + a[1]
<1>1. /\ Len(a) \in Nat /\ Len(b) \in Nat /\ 1 \in 1..Len(a)
      /\ \A i \in 0..Len(a) : Sums(a)[i] \in Nat
      /\ \A i \in 0..Len(b) : Sums(b)[i] \in Nat
  <2>1. Len(a) \in Nat /\ Len(b) \in Nat
    BY LenProperties
  <2>2. /\ \A i \in 0..Len(a) : Sums(a)[i] \in Nat
        /\ \A i \in 0..Len(b) : Sums(b)[i] \in Nat
    BY SumsDef
  <2>3. 1 \in 1..Len(a)
    BY <2>1
  <2>. QED
    BY <2>1, <2>2, <2>3
<1>2. PICK z \in Nat, one \in Nat : z = 0 /\ one = 1
  OBVIOUS
<1>3. Sums(b)[z] = 0 /\ Sums(a)[one] = a[1] /\ a[1] \in Nat
  <2>1. a[1] \in Nat
    BY <1>1, ElementOfSeq
  <2>2. Sums(a)[0] = 0 /\ Sums(a)[1] = Sums(a)[1 - 1] + a[1] /\ Sums(b)[0] = 0
    BY <1>1, SumsDef
  <2>. QED
    BY <1>2, <2>1, <2>2
<1>. SUFFICES ASSUME NEW n \in 0..Len(b) PROVE Sums(a)[n + 1] = Sums(b)[n] + a[1]
  OBVIOUS
<1>4. Parallel(a, one, b, z, n)
  <2>1. ASSUME NEW i \in 1..n PROVE a[one + i] = b[z + i]
    <3>1. i \in 1..Len(b) /\ one + i = i + 1 /\ z + i = i
      BY <1>1, <1>2
    <3>. QED
      BY <3>1
  <2>2. one + n <= Len(a) /\ z + n <= Len(b)
    BY <1>1, <1>2
  <2>. QED
    BY <2>1, <2>2 DEF Parallel
<1>5. SumsAgree(a, one, b, z, n)
  <2>1. n \in Nat
    BY <1>1
  <2>. QED
    BY <1>4, <2>1, SumsParallel
<1>6. Sums(a)[one + n] - Sums(a)[one] = Sums(b)[z + n] - Sums(b)[z]
  BY <1>5 DEF SumsAgree
<1>7. one + n = n + 1 /\ z + n = n /\ n + 1 \in 0..Len(a)
  BY <1>1, <1>2
<1>8. Sums(a)[n + 1] - a[1] = Sums(b)[n] - 0
  BY <1>3, <1>6, <1>7
<1>9. PICK x \in Nat, y \in Nat : x = Sums(a)[n + 1] /\ y = Sums(b)[n]
  BY <1>1, <1>7
<1>10. x - a[1] = y - 0
  BY <1>8, <1>9
<1>11. x = y + a[1]
  BY <1>3, <1>10
<1>. QED
  BY <1>9, <1>11

\* The sums of a list with one more number.
LEMMA SumsOfAppend ==
    ASSUME NEW a \in Seq(Nat), NEW b \in Seq(Nat), Len(b) = Len(a) + 1,
           \A i \in 1..Len(a) : b[i] = a[i]
    PROVE  /\ \A n \in 0..Len(a) : Sums(b)[n] = Sums(a)[n]
           /\ Sums(b)[Len(a) + 1] = Sums(a)[Len(a)] + b[Len(a) + 1]
<1>1. /\ Len(a) \in Nat /\ Len(b) \in Nat
      /\ \A i \in 0..Len(a) : Sums(a)[i] \in Nat
      /\ \A i \in 0..Len(b) : Sums(b)[i] \in Nat
  BY LenProperties, SumsDef
<1>2. PICK z \in Nat : z = 0
  OBVIOUS
<1>3. Sums(a)[z] = 0 /\ Sums(b)[z] = 0
  BY <1>2, SumsDef
<1>4. ASSUME NEW n \in 0..Len(a) PROVE Sums(b)[n] = Sums(a)[n]
  <2>1. Parallel(b, z, a, z, n)
    <3>1. ASSUME NEW i \in 1..n PROVE b[z + i] = a[z + i]
      <4>1. i \in 1..Len(a) /\ z + i = i
        BY <1>1, <1>2
      <4>. QED
        BY <4>1
    <3>2. z + n <= Len(a) /\ z + n <= Len(b)
      BY <1>1, <1>2
    <3>. QED
      BY <3>1, <3>2 DEF Parallel
  <2>2. SumsAgree(b, z, a, z, n)
    <3>1. n \in Nat
      BY <1>1
    <3>. QED
      BY <2>1, <3>1, SumsParallel
  <2>3. Sums(b)[z + n] - Sums(b)[z] = Sums(a)[z + n] - Sums(a)[z]
    BY <2>2 DEF SumsAgree
  <2>4. z + n = n /\ n \in 0..Len(b)
    BY <1>1, <1>2
  <2>5. Sums(b)[n] - 0 = Sums(a)[n] - 0
    BY <1>3, <2>3, <2>4
  <2>6. PICK x \in Nat, y \in Nat : x = Sums(b)[n] /\ y = Sums(a)[n]
    BY <1>1, <2>4
  <2>7. x - 0 = y - 0
    BY <2>5, <2>6
  <2>. QED
    BY <2>6, <2>7
<1>5. Sums(b)[Len(a) + 1] = Sums(a)[Len(a)] + b[Len(a) + 1]
  <2>1. Len(a) + 1 \in 1..Len(b) /\ Len(a) + 1 - 1 = Len(a) /\ Len(a) \in 0..Len(a)
    BY <1>1
  <2>2. PICK m \in 1..Len(b) : m = Len(a) + 1 /\ m - 1 = Len(a)
    BY <2>1
  <2>3. Sums(b)[m] = Sums(b)[m - 1] + b[m]
    BY <2>2, SumsDef
  <2>. QED
    BY <1>4, <2>1, <2>2, <2>3
<1>. QED
  BY <1>4, <1>5

\* What the spends among some tasks, or among some replies, come to.
CostOf(task) == IF task.next = "AfterWrite" THEN OperationCost ELSE 0
Costs(queue) == [i \in DOMAIN queue |-> CostOf(queue[i])]
Due(queue, n) == Sums(Costs(queue))[n]
PaidBy(reply) == IF reply.next = "AfterWrite" /\ reply.success THEN OperationCost ELSE 0
Payments(queue) == [i \in DOMAIN queue |-> PaidBy(queue[i])]
Received(queue) == Sums(Payments(queue))[Len(queue)]

\* The members of a queue.
LEMMA QueueFacts ==
    ASSUME NEW S, NEW queue \in Seq(S)
    PROVE  /\ Len(queue) \in Nat /\ DOMAIN queue = 1..Len(queue)
           /\ \A i \in DOMAIN queue : queue[i] \in S
BY LenProperties, ElementOfSeq

\* A queue with one more member.
LEMMA AppendedFacts ==
    ASSUME NEW S, NEW queue \in Seq(S), NEW task \in S, NEW more, more = Append(queue, task)
    PROVE  /\ more \in Seq(S) /\ Len(more) = Len(queue) + 1
           /\ DOMAIN more = 1..(Len(queue) + 1) /\ more[Len(queue) + 1] = task
           /\ \A i \in DOMAIN queue : i \in DOMAIN more /\ more[i] = queue[i]
           /\ \A i \in DOMAIN more : i \in DOMAIN queue \/ i = Len(queue) + 1
<1>1. Len(queue) \in Nat /\ DOMAIN queue = 1..Len(queue)
  BY QueueFacts
<1>2. /\ more \in Seq(S) /\ Len(more) = Len(queue) + 1 /\ more[Len(queue) + 1] = task
      /\ \A i \in 1..Len(queue) : more[i] = queue[i]
  BY AppendProperties
<1>3. DOMAIN more = 1..(Len(queue) + 1)
  BY <1>2, QueueFacts
<1>. QED
  BY <1>1, <1>2, <1>3

\* A queue without its first member.
LEMMA RestFacts ==
    ASSUME NEW S, NEW queue \in Seq(S), queue # <<>>
    PROVE  /\ Head(queue) \in S /\ Head(queue) = queue[1] /\ 1 \in DOMAIN queue
           /\ Tail(queue) \in Seq(S) /\ Len(queue) = Len(Tail(queue)) + 1
           /\ \A i \in DOMAIN Tail(queue) :
                 i + 1 \in DOMAIN queue /\ Tail(queue)[i] = queue[i + 1]
           /\ \A i \in DOMAIN queue : i # 1 => i - 1 \in DOMAIN Tail(queue) /\ (i - 1) + 1 = i
<1>1. Len(queue) \in Nat \ {0} /\ DOMAIN queue = 1..Len(queue)
  BY QueueFacts, EmptySeq
<1>2. /\ Head(queue) \in S /\ Tail(queue) \in Seq(S) /\ Len(Tail(queue)) = Len(queue) - 1
      /\ \A i \in 1..Len(Tail(queue)) : Tail(queue)[i] = queue[i + 1]
  BY HeadTailProperties
<1>3. DOMAIN Tail(queue) = 1..Len(Tail(queue))
  BY <1>2, QueueFacts
<1>4. Head(queue) = queue[1]
  OBVIOUS
<1>. QED
  BY <1>1, <1>2, <1>3, <1>4

\* What the queued tasks spend, for each prefix of the queue.
LEMMA CostsFacts ==
    ASSUME NEW queue \in Seq(Tasks)
    PROVE  /\ Costs(queue) \in Seq(Nat) /\ Len(Costs(queue)) = Len(queue)
           /\ \A i \in DOMAIN queue : Costs(queue)[i] = CostOf(queue[i])
           /\ \A n \in 0..Len(queue) : Due(queue, n) \in Nat
           /\ Due(queue, 0) = 0
<1>1. Len(queue) \in Nat /\ DOMAIN queue = 1..Len(queue)
  BY QueueFacts
<1>2. \A i \in DOMAIN queue : CostOf(queue[i]) \in Nat
  BY ConstantsFacts DEF CostOf
<1>3. Costs(queue) = [i \in 1..Len(queue) |-> CostOf(queue[i])]
  BY <1>1 DEF Costs
<1>4. Costs(queue) \in Seq(Nat) /\ Len(Costs(queue)) = Len(queue)
  BY <1>1, <1>2, <1>3
<1>. QED
  BY <1>1, <1>3, <1>4, SumsDef DEF Due

\* What the queued replies report as spent.
LEMMA PaymentsFacts ==
    ASSUME NEW queue \in Seq(Replies)
    PROVE  /\ Payments(queue) \in Seq(Nat) /\ Len(Payments(queue)) = Len(queue)
           /\ \A i \in DOMAIN queue : Payments(queue)[i] = PaidBy(queue[i])
           /\ Received(queue) \in Nat /\ Received(<<>>) = 0
<1>1. Len(queue) \in Nat /\ DOMAIN queue = 1..Len(queue)
  BY QueueFacts
<1>2. \A i \in DOMAIN queue : PaidBy(queue[i]) \in Nat
  BY ConstantsFacts DEF PaidBy
<1>3. Payments(queue) = [i \in 1..Len(queue) |-> PaidBy(queue[i])]
  BY <1>1 DEF Payments
<1>4. Payments(queue) \in Seq(Nat) /\ Len(Payments(queue)) = Len(queue)
  BY <1>1, <1>2, <1>3
<1>5. Received(queue) \in Nat
  BY <1>1, <1>4, SumsDef DEF Received
<1>6. Received(<<>>) = 0
  <2>1. Payments(<<>>) \in Seq(Nat) /\ Len(<<>>) = 0
    BY DEF Payments
  <2>. QED
    BY <2>1, SumsDef DEF Received
<1>. QED
  BY <1>1, <1>3, <1>4, <1>5, <1>6

\* A task that joins the queue is due after all others.
LEMMA DueAppend ==
    ASSUME NEW queue \in Seq(Tasks), NEW task \in Tasks
    PROVE  /\ \A n \in 0..Len(queue) : Due(Append(queue, task), n) = Due(queue, n)
           /\ Due(Append(queue, task), Len(queue) + 1) = Due(queue, Len(queue)) + CostOf(task)
<1>. DEFINE more == Append(queue, task)
<1>1. /\ more \in Seq(Tasks) /\ Len(more) = Len(queue) + 1
      /\ DOMAIN more = 1..(Len(queue) + 1) /\ more[Len(queue) + 1] = task
      /\ \A i \in DOMAIN queue : i \in DOMAIN more /\ more[i] = queue[i]
  BY AppendedFacts
<1>. HIDE DEF more
<1>2. Len(queue) \in Nat /\ DOMAIN queue = 1..Len(queue)
  BY QueueFacts
<1>3. /\ Costs(queue) \in Seq(Nat) /\ Len(Costs(queue)) = Len(queue)
      /\ Costs(more) \in Seq(Nat) /\ Len(Costs(more)) = Len(queue) + 1
      /\ \A i \in DOMAIN queue : Costs(more)[i] = Costs(queue)[i]
      /\ Costs(more)[Len(queue) + 1] = CostOf(task)
  <2>1. Len(queue) + 1 \in DOMAIN more
    BY <1>1, <1>2
  <2>. QED
    BY <1>1, <2>1, CostsFacts
<1>4. /\ \A n \in 0..Len(queue) : Sums(Costs(more))[n] = Sums(Costs(queue))[n]
      /\ Sums(Costs(more))[Len(queue) + 1]
            = Sums(Costs(queue))[Len(queue)] + Costs(more)[Len(queue) + 1]
  <2>1. \A i \in 1..Len(Costs(queue)) : Costs(more)[i] = Costs(queue)[i]
    BY <1>2, <1>3
  <2>2. Len(Costs(more)) = Len(Costs(queue)) + 1
    BY <1>3
  <2>3. /\ \A n \in 0..Len(Costs(queue)) : Sums(Costs(more))[n] = Sums(Costs(queue))[n]
        /\ Sums(Costs(more))[Len(Costs(queue)) + 1]
             = Sums(Costs(queue))[Len(Costs(queue))] + Costs(more)[Len(Costs(queue)) + 1]
    BY <1>3, <2>1, <2>2, SumsOfAppend
  <2>. QED
    BY <1>3, <2>3
<1>. QED
  BY <1>3, <1>4 DEF Due, more

\* When the first task leaves, what is due before each other shrinks by its cost.
LEMMA DueTail ==
    ASSUME NEW queue \in Seq(Tasks), queue # <<>>
    PROVE  \A n \in 0..Len(Tail(queue)) :
              Due(queue, n + 1) = Due(Tail(queue), n) + CostOf(Head(queue))
<1>. DEFINE rest == Tail(queue)
<1>1. /\ rest \in Seq(Tasks) /\ Len(queue) = Len(rest) + 1
      /\ Head(queue) = queue[1] /\ 1 \in DOMAIN queue
      /\ \A i \in DOMAIN rest : i + 1 \in DOMAIN queue /\ rest[i] = queue[i + 1]
  BY RestFacts
<1>. HIDE DEF rest
<1>2. Len(rest) \in Nat /\ DOMAIN rest = 1..Len(rest)
  BY <1>1, QueueFacts
<1>3. /\ Costs(queue) \in Seq(Nat) /\ Costs(rest) \in Seq(Nat)
      /\ Len(Costs(queue)) = Len(Costs(rest)) + 1 /\ Len(Costs(rest)) = Len(rest)
      /\ Costs(queue)[1] = CostOf(Head(queue))
      /\ \A i \in 1..Len(Costs(rest)) : Costs(rest)[i] = Costs(queue)[i + 1]
  <2>1. /\ Costs(queue) \in Seq(Nat) /\ Len(Costs(queue)) = Len(queue)
        /\ Costs(rest) \in Seq(Nat) /\ Len(Costs(rest)) = Len(rest)
        /\ \A i \in DOMAIN queue : Costs(queue)[i] = CostOf(queue[i])
        /\ \A i \in DOMAIN rest : Costs(rest)[i] = CostOf(rest[i])
    BY <1>1, CostsFacts
  <2>2. \A i \in DOMAIN rest : Costs(rest)[i] = Costs(queue)[i + 1]
    BY <1>1, <2>1
  <2>. QED
    BY <1>1, <1>2, <2>1, <2>2
<1>4. \A n \in 0..Len(Costs(rest)) :
         Sums(Costs(queue))[n + 1] = Sums(Costs(rest))[n] + Costs(queue)[1]
  BY <1>3, SumsOfTail
<1>. QED
  BY <1>3, <1>4 DEF Due, rest

\* A reply that joins the queue adds what it reports.
LEMMA ReceivedAppend ==
    ASSUME NEW queue \in Seq(Replies), NEW reply \in Replies
    PROVE  Received(Append(queue, reply)) = Received(queue) + PaidBy(reply)
<1>. DEFINE more == Append(queue, reply)
<1>1. /\ more \in Seq(Replies) /\ Len(more) = Len(queue) + 1
      /\ DOMAIN more = 1..(Len(queue) + 1) /\ more[Len(queue) + 1] = reply
      /\ \A i \in DOMAIN queue : i \in DOMAIN more /\ more[i] = queue[i]
  BY AppendedFacts
<1>. HIDE DEF more
<1>2. Len(queue) \in Nat /\ DOMAIN queue = 1..Len(queue)
  BY QueueFacts
<1>3. /\ Payments(queue) \in Seq(Nat) /\ Len(Payments(queue)) = Len(queue)
      /\ Payments(more) \in Seq(Nat) /\ Len(Payments(more)) = Len(Payments(queue)) + 1
      /\ \A i \in 1..Len(Payments(queue)) : Payments(more)[i] = Payments(queue)[i]
      /\ Payments(more)[Len(queue) + 1] = PaidBy(reply)
  <2>1. Len(queue) + 1 \in DOMAIN more
    BY <1>1, <1>2
  <2>2. \A i \in DOMAIN queue : Payments(more)[i] = Payments(queue)[i]
    BY <1>1, PaymentsFacts
  <2>. QED
    BY <1>1, <1>2, <2>1, <2>2, PaymentsFacts
<1>4. Sums(Payments(more))[Len(Payments(queue)) + 1]
        = Sums(Payments(queue))[Len(Payments(queue))]
            + Payments(more)[Len(Payments(queue)) + 1]
  BY <1>3, SumsOfAppend
<1>. QED
  BY <1>1, <1>3, <1>4 DEF Received, more

\* A reply that leaves takes what it reports.
LEMMA ReceivedTail ==
    ASSUME NEW queue \in Seq(Replies), queue # <<>>
    PROVE  Received(queue) = Received(Tail(queue)) + PaidBy(Head(queue))
<1>. DEFINE rest == Tail(queue)
<1>1. /\ rest \in Seq(Replies) /\ Len(queue) = Len(rest) + 1
      /\ Head(queue) = queue[1] /\ 1 \in DOMAIN queue
      /\ \A i \in DOMAIN rest : i + 1 \in DOMAIN queue /\ rest[i] = queue[i + 1]
  BY RestFacts
<1>. HIDE DEF rest
<1>2. Len(rest) \in Nat /\ DOMAIN rest = 1..Len(rest)
  BY <1>1, QueueFacts
<1>3. /\ Payments(queue) \in Seq(Nat) /\ Payments(rest) \in Seq(Nat)
      /\ Len(Payments(queue)) = Len(Payments(rest)) + 1 /\ Len(Payments(rest)) = Len(rest)
      /\ Payments(queue)[1] = PaidBy(Head(queue))
      /\ \A i \in 1..Len(Payments(rest)) : Payments(rest)[i] = Payments(queue)[i + 1]
  <2>1. /\ Payments(queue) \in Seq(Nat) /\ Len(Payments(queue)) = Len(queue)
        /\ Payments(rest) \in Seq(Nat) /\ Len(Payments(rest)) = Len(rest)
        /\ \A i \in DOMAIN queue : Payments(queue)[i] = PaidBy(queue[i])
        /\ \A i \in DOMAIN rest : Payments(rest)[i] = PaidBy(rest[i])
    BY <1>1, PaymentsFacts
  <2>2. \A i \in DOMAIN rest : Payments(rest)[i] = Payments(queue)[i + 1]
    BY <1>1, <2>1
  <2>. QED
    BY <1>1, <1>2, <2>1, <2>2
<1>4. \A n \in 0..Len(Payments(rest)) :
         Sums(Payments(queue))[n + 1] = Sums(Payments(rest))[n] + Payments(queue)[1]
  BY <1>3, SumsOfTail
<1>5. Len(rest) \in 0..Len(Payments(rest))
  BY <1>2, <1>3
<1>6. Sums(Payments(queue))[Len(rest) + 1]
        = Sums(Payments(rest))[Len(rest)] + Payments(queue)[1]
  BY <1>4, <1>5
<1>. QED
  BY <1>1, <1>3, <1>6 DEF Received, rest
-----------------------------------------------------------------------------
(* The invariant of cache, database and tasks *)

Update(task) == task.next # "AddToCache"
Latest(queue, i) == Update(queue[i]) /\ \A j \in DOMAIN queue : i < j => ~Update(queue[j])

\* Only a cached entry is written, and every entry anywhere is sound.
CoreSound(hour, entry, stored, queue) ==
    /\ entry = NotCached \/ Sound(entry, hour)
    /\ stored = NotCached \/ Sound(stored, hour)
    /\ \A i \in DOMAIN queue : Update(queue[i]) =>
          entry # NotCached /\ Sound(queue[i].value, hour)

\* The cache has followed from what is stored, and from all that is being written ...
CoreFollows(hour, entry, stored, queue) ==
    /\ entry # NotCached /\ stored # NotCached => Within(stored, entry, hour)
    /\ \A i \in DOMAIN queue : Update(queue[i]) => Within(queue[i].value, entry, hour)

\* ... without a spend since the last write, or since the entry was loaded.
CoreKept(hour, entry, stored, queue) ==
    /\ entry # NotCached /\ stored # NotCached /\ (\A i \in DOMAIN queue : ~Update(queue[i]))
         => Kept(stored, entry, hour)
    /\ \A i \in DOMAIN queue : Latest(queue, i) => Kept(queue[i].value, entry, hour)

\* Every entry is backed by earnings beside the spends up to it: those of the tasks before
\* a written one, and of all tasks for the cache.
CoreBacked(entry, stored, queue, spent) ==
    /\ IF stored = NotCached THEN spent = 0 ELSE Backed(stored, spent)
    /\ \A i \in DOMAIN queue : Update(queue[i]) =>
          Backed(queue[i].value, spent + Due(queue, i))
    /\ IF entry = NotCached THEN Due(queue, Len(queue)) = 0
       ELSE Backed(entry, spent + Due(queue, Len(queue)))

Core(hour, entry, stored, queue, spent, failed) ==
    /\ queue \in Seq(Tasks) /\ spent \in Nat
    /\ CoreSound(hour, entry, stored, queue)
    /\ CoreFollows(hour, entry, stored, queue)
    /\ ~failed => CoreKept(hour, entry, stored, queue)
    /\ CoreBacked(entry, stored, queue, spent)

\* What backs some spends backs fewer.
LEMMA BackedFacts ==
    ASSUME NEW info \in BudgetInfo, NEW spent \in Nat, NEW less \in Nat, less <= spent,
           Backed(info, spent)
    PROVE  Backed(info, less)
<1>1. Total(info) \in Nat /\ info.lastAward \in Nat
  BY AmountsFacts, ChunksFacts
<1>2. HourlyMaximum * (Duration + info.lastAward) \in Nat
  <2>1. Duration + info.lastAward \in Nat /\ HourlyMaximum \in Nat
    BY <1>1, ConstantsFacts
  <2>. QED
    BY <2>1, Products
<1>. QED
  BY <1>1, <1>2 DEF Backed

\* A sync of the cached entry.
LEMMA CoreSync ==
    ASSUME NEW hour \in Nat, NEW entry, NEW stored, NEW queue, NEW spent, NEW failed,
           Core(hour, entry, stored, queue, spent, failed), entry # NotCached,
           NEW next, Sound(next, hour), Kept(entry, next, hour),
           \A some \in Nat : Backed(entry, some) => Backed(next, some)
    PROVE  Core(hour, next, stored, queue, spent, failed)
<1>1. Sound(entry, hour) /\ next # NotCached /\ Within(entry, next, hour)
  BY SoundFacts, FollowsTransitive DEF Core, CoreSound
<1>2. CoreSound(hour, next, stored, queue)
  BY <1>1 DEF Core, CoreSound
<1>3. CoreFollows(hour, next, stored, queue)
  <2>1. ASSUME stored # NotCached PROVE Within(stored, next, hour)
    <3>1. Sound(stored, hour) /\ Within(stored, entry, hour)
      BY <2>1 DEF Core, CoreSound, CoreFollows
    <3>. QED
      BY <1>1, <3>1, FollowsTransitive
  <2>2. ASSUME NEW i \in DOMAIN queue, Update(queue[i])
        PROVE  Within(queue[i].value, next, hour)
    <3>1. Sound(queue[i].value, hour) /\ Within(queue[i].value, entry, hour)
      BY <2>2 DEF Core, CoreSound, CoreFollows
    <3>. QED
      BY <1>1, <3>1, FollowsTransitive
  <2>. QED
    BY <2>1, <2>2 DEF CoreFollows
<1>4. ASSUME ~failed PROVE CoreKept(hour, next, stored, queue)
  <2>1. ASSUME stored # NotCached, \A i \in DOMAIN queue : ~Update(queue[i])
        PROVE  Kept(stored, next, hour)
    <3>1. Sound(stored, hour) /\ Kept(stored, entry, hour)
      BY <1>4, <2>1 DEF Core, CoreSound, CoreKept
    <3>. QED
      BY <1>1, <3>1, FollowsTransitive
  <2>2. ASSUME NEW i \in DOMAIN queue, Latest(queue, i)
        PROVE  Kept(queue[i].value, next, hour)
    <3>1. Sound(queue[i].value, hour) /\ Kept(queue[i].value, entry, hour)
      BY <1>4, <2>2 DEF Core, CoreSound, CoreKept, Latest
    <3>. QED
      BY <1>1, <3>1, FollowsTransitive
  <2>. QED
    BY <2>1, <2>2 DEF CoreKept
<1>5. CoreBacked(next, stored, queue, spent)
  <2>1. spent + Due(queue, Len(queue)) \in Nat
    BY CostsFacts, QueueFacts DEF Core
  <2>2. Backed(next, spent + Due(queue, Len(queue)))
    BY <2>1 DEF Core, CoreBacked
  <2>. QED
    BY <1>1, <2>2 DEF Core, CoreBacked
<1>. QED
  BY <1>2, <1>3, <1>4, <1>5 DEF Core

\* A sync of what was loaded from the database.
LEMMA CoreLoad ==
    ASSUME NEW hour \in Nat, NEW stored, NEW queue, NEW spent, NEW failed,
           Core(hour, NotCached, stored, queue, spent, failed),
           NEW next, Sound(next, hour),
           stored # NotCached =>
              /\ Kept(stored, next, hour)
              /\ \A some \in Nat : Backed(stored, some) => Backed(next, some),
           stored = NotCached => Backed(next, 0)
    PROVE  Core(hour, next, stored, queue, spent, failed)
<1>1. next # NotCached /\ \A i \in DOMAIN queue : ~Update(queue[i])
  BY SoundFacts DEF Core, CoreSound
<1>2. CoreSound(hour, next, stored, queue)
  BY <1>1 DEF Core, CoreSound
<1>3. ASSUME stored # NotCached
      PROVE  Kept(stored, next, hour) /\ Within(stored, next, hour)
  <2>1. Sound(stored, hour)
    BY <1>3 DEF Core, CoreSound
  <2>. QED
    BY <1>3, <2>1, FollowsTransitive
<1>4. CoreFollows(hour, next, stored, queue) /\ CoreKept(hour, next, stored, queue)
  BY <1>1, <1>3 DEF CoreFollows, CoreKept, Latest
<1>5. CoreBacked(next, stored, queue, spent)
  <2>1. Due(queue, Len(queue)) = 0 /\ spent \in Nat
    BY DEF Core, CoreBacked
  <2>2. spent + Due(queue, Len(queue)) = spent
    BY <2>1
  <2>3. Backed(next, spent)
    BY <2>1 DEF Core, CoreBacked
  <2>. QED
    BY <1>1, <2>2, <2>3 DEF Core, CoreBacked
<1>. QED
  BY <1>2, <1>4, <1>5 DEF Core

\* The cached entry changes in the origin's disfavour at most, and is written.
LEMMA CoreWrite ==
    ASSUME NEW hour \in Nat, NEW entry, NEW stored, NEW queue, NEW spent, NEW failed,
           Core(hour, entry, stored, queue, spent, failed), entry # NotCached,
           NEW next, Sound(next, hour), Within(entry, next, hour),
           NEW task \in Tasks, Update(task), task.value = next,
           Backed(next, spent + (Due(queue, Len(queue)) + CostOf(task)))
    PROVE  Core(hour, next, stored, Append(queue, task), spent, failed)
<1>. DEFINE more == Append(queue, task)
            n == Len(queue)
<1>1. /\ queue \in Seq(Tasks) /\ n \in Nat /\ DOMAIN queue = 1..n
      /\ Sound(entry, hour) /\ next # NotCached
  BY SoundFacts, QueueFacts DEF Core, CoreSound
<1>2. /\ more \in Seq(Tasks) /\ Len(more) = n + 1 /\ DOMAIN more = 1..(n + 1)
      /\ more[n + 1] = task /\ n + 1 \in DOMAIN more
      /\ \A i \in DOMAIN queue : i \in DOMAIN more /\ more[i] = queue[i]
      /\ \A i \in DOMAIN more : i \in DOMAIN queue \/ i = n + 1
  <2>1. /\ more \in Seq(Tasks) /\ Len(more) = n + 1 /\ DOMAIN more = 1..(n + 1)
        /\ more[n + 1] = task
        /\ \A i \in DOMAIN queue : i \in DOMAIN more /\ more[i] = queue[i]
        /\ \A i \in DOMAIN more : i \in DOMAIN queue \/ i = n + 1
    BY <1>1, AppendedFacts
  <2>. HIDE DEF more
  <2>. QED
    BY <1>1, <2>1
<1>3. /\ \A i \in 0..n : Due(more, i) = Due(queue, i)
      /\ Due(more, n + 1) = Due(queue, n) + CostOf(task)
  BY <1>1, DueAppend
<1>. HIDE DEF more, n
<1>4. CoreSound(hour, next, stored, more)
  BY <1>1, <1>2 DEF Core, CoreSound
<1>5. CoreFollows(hour, next, stored, more)
  <2>1. ASSUME stored # NotCached PROVE Within(stored, next, hour)
    <3>1. Sound(stored, hour) /\ Within(stored, entry, hour)
      BY <2>1 DEF Core, CoreSound, CoreFollows
    <3>. QED
      BY <1>1, <3>1, FollowsTransitive
  <2>2. ASSUME NEW i \in DOMAIN more, Update(more[i])
        PROVE  Within(more[i].value, next, hour)
    <3>1. CASE i \in DOMAIN queue
      <4>1. Sound(queue[i].value, hour) /\ Within(queue[i].value, entry, hour)
        BY <1>2, <2>2, <3>1 DEF Core, CoreSound, CoreFollows
      <4>. QED
        BY <1>1, <1>2, <3>1, <4>1, FollowsTransitive
    <3>2. CASE i = n + 1
      BY <1>2, <3>2, FollowsTransitive
    <3>. QED
      BY <1>2, <3>1, <3>2
  <2>. QED
    BY <2>1, <2>2 DEF CoreFollows
<1>6. CoreKept(hour, next, stored, more)
  <2>1. ASSUME NEW i \in DOMAIN more, Latest(more, i) PROVE more[i].value = next
    <3>1. CASE i \in DOMAIN queue
      <4>1. i < n + 1
        BY <1>1, <3>1
      <4>. QED
        BY <1>2, <2>1, <4>1 DEF Latest
    <3>2. CASE i = n + 1
      BY <1>2, <3>2
    <3>. QED
      BY <1>2, <3>1, <3>2
  <2>2. Kept(next, next, hour)
    BY FollowsTransitive
  <2>. QED
    BY <1>2, <2>1, <2>2 DEF CoreKept
<1>7. CoreBacked(next, stored, more, spent)
  <2>1. ASSUME NEW i \in DOMAIN more, Update(more[i])
        PROVE  Backed(more[i].value, spent + Due(more, i))
    <3>1. CASE i \in DOMAIN queue
      <4>1. i \in 0..n
        BY <1>1, <3>1
      <4>. QED
        BY <1>2, <1>3, <2>1, <3>1, <4>1 DEF Core, CoreBacked
    <3>2. CASE i = n + 1
      BY <1>2, <1>3, <3>2 DEF n
    <3>. QED
      BY <1>2, <3>1, <3>2
  <2>2. Backed(next, spent + Due(more, Len(more)))
    BY <1>2, <1>3 DEF n
  <2>. QED
    BY <1>1, <2>1, <2>2 DEF Core, CoreBacked
<1>. QED
  BY <1>2, <1>4, <1>5, <1>6, <1>7 DEF Core, more

\* A read is queued.
LEMMA CoreRead ==
    ASSUME NEW hour \in Nat, NEW entry, NEW stored, NEW queue, NEW spent, NEW failed,
           Core(hour, entry, stored, queue, spent, failed),
           NEW task \in Tasks, ~Update(task)
    PROVE  Core(hour, entry, stored, Append(queue, task), spent, failed)
<1>. DEFINE more == Append(queue, task)
            n == Len(queue)
<1>1. queue \in Seq(Tasks) /\ n \in Nat /\ DOMAIN queue = 1..n
  BY QueueFacts DEF Core
<1>2. /\ more \in Seq(Tasks) /\ Len(more) = n + 1 /\ DOMAIN more = 1..(n + 1)
      /\ more[n + 1] = task
      /\ \A i \in DOMAIN queue : i \in DOMAIN more /\ more[i] = queue[i]
      /\ \A i \in DOMAIN more : i \in DOMAIN queue \/ i = n + 1
  BY <1>1, AppendedFacts
<1>3. /\ \A i \in 0..n : Due(more, i) = Due(queue, i)
      /\ Due(more, n + 1) = Due(queue, n) + CostOf(task)
  BY <1>1, DueAppend
<1>4. Due(queue, n) \in Nat /\ CostOf(task) = 0
  BY <1>1, CostsFacts DEF CostOf, Update
<1>. HIDE DEF more, n
<1>5. \A i \in DOMAIN more : Update(more[i]) =>
         i \in DOMAIN queue /\ more[i] = queue[i] /\ Due(more, i) = Due(queue, i)
  <2>. SUFFICES ASSUME NEW i \in DOMAIN more, Update(more[i])
                PROVE  i \in DOMAIN queue /\ more[i] = queue[i] /\ Due(more, i) = Due(queue, i)
    OBVIOUS
  <2>1. i \in DOMAIN queue /\ more[i] = queue[i]
    BY <1>2
  <2>2. i \in 0..n
    BY <1>1, <2>1
  <2>. QED
    BY <1>3, <2>1, <2>2
<1>6. Due(more, Len(more)) = Due(queue, Len(queue))
  BY <1>2, <1>3, <1>4 DEF n
<1>7. \A i \in DOMAIN more : Latest(more, i) => Latest(queue, i)
  BY <1>2, <1>5 DEF Latest
<1>8. (\A i \in DOMAIN more : ~Update(more[i])) => \A i \in DOMAIN queue : ~Update(queue[i])
  BY <1>2
<1>9. CoreSound(hour, entry, stored, more) /\ CoreFollows(hour, entry, stored, more)
  BY <1>5 DEF Core, CoreSound, CoreFollows
<1>10. ~failed => CoreKept(hour, entry, stored, more)
  BY <1>5, <1>7, <1>8 DEF Core, CoreKept, Latest
<1>11. CoreBacked(entry, stored, more, spent)
  BY <1>5, <1>6 DEF Core, CoreBacked
<1>. QED
  BY <1>2, <1>9, <1>10, <1>11 DEF Core, more

\* The first task has been executed: a read, a write, or a write that failed.
LEMMA CoreTask ==
    ASSUME NEW hour \in Nat, NEW entry, NEW stored, NEW queue, NEW spent, NEW failed,
           Core(hour, entry, stored, queue, spent, failed), queue # <<>>
    PROVE  /\ ~Update(Head(queue)) => Core(hour, entry, stored, Tail(queue), spent, failed)
           /\ Update(Head(queue)) =>
                 /\ Core(hour, entry, Head(queue).value, Tail(queue),
                         spent + CostOf(Head(queue)), failed)
                 /\ Core(hour, entry, stored, Tail(queue), spent, TRUE)
<1>. DEFINE rest == Tail(queue)
            head == Head(queue)
            n == Len(rest)
<1>1. queue \in Seq(Tasks) /\ spent \in Nat
  BY DEF Core
<1>2. /\ head \in Tasks /\ head = queue[1] /\ 1 \in DOMAIN queue
      /\ rest \in Seq(Tasks) /\ Len(queue) = n + 1
      /\ \A i \in DOMAIN rest : i + 1 \in DOMAIN queue /\ rest[i] = queue[i + 1]
      /\ \A i \in DOMAIN queue : i # 1 => i - 1 \in DOMAIN rest /\ (i - 1) + 1 = i
  BY <1>1, RestFacts
<1>3. \A i \in 0..n : Due(queue, i + 1) = Due(rest, i) + CostOf(head)
  BY <1>1, DueTail
<1>. HIDE DEF rest, head
<1>4. n \in Nat /\ DOMAIN rest = 1..n
  BY <1>2, QueueFacts
<1>5. /\ \A i \in 0..n : Due(rest, i) \in Nat
      /\ Due(queue, 0) = 0 /\ CostOf(head) \in Nat
  BY <1>1, <1>2, CostsFacts, ConstantsFacts DEF CostOf
<1>. HIDE DEF n
<1>6. \A i \in DOMAIN rest : i \in 0..n
  BY <1>4
<1>7. /\ n \in 0..n /\ 0 \in 0..n
      /\ Due(queue, Len(queue)) = Due(rest, Len(rest)) + CostOf(head)
  BY <1>2, <1>3, <1>4 DEF n
<1>8. Due(queue, 1) = CostOf(head)
  <2>1. Due(queue, 0 + 1) = Due(rest, 0) + CostOf(head) /\ 0 + 1 = 1
    BY <1>3, <1>7
  <2>2. Due(rest, 0) = 0
    BY <1>2, CostsFacts
  <2>. QED
    BY <1>5, <2>1, <2>2
<1>9. \A i \in DOMAIN rest : Latest(rest, i) => Latest(queue, i + 1)
  <2>. SUFFICES ASSUME NEW i \in DOMAIN rest, Latest(rest, i) PROVE Latest(queue, i + 1)
    OBVIOUS
  <2>1. ASSUME NEW j \in DOMAIN queue, i + 1 < j PROVE ~Update(queue[j])
    <3>1. i \in Nat /\ j \in Nat /\ j # 1
      BY <1>1, <1>4, <2>1, QueueFacts
    <3>2. j - 1 \in DOMAIN rest /\ queue[j] = rest[j - 1] /\ i < j - 1
      BY <1>2, <2>1, <3>1
    <3>. QED
      BY <3>2 DEF Latest
  <2>. QED
    BY <1>2, <2>1 DEF Latest
<1>10. ASSUME \A i \in DOMAIN rest : ~Update(rest[i]), NEW j \in DOMAIN queue, 1 < j
       PROVE  ~Update(queue[j])
  <2>1. j \in Nat /\ j # 1
    BY <1>1, <1>10, QueueFacts
  <2>2. j - 1 \in DOMAIN rest /\ queue[j] = rest[j - 1]
    BY <1>2, <2>1
  <2>. QED
    BY <1>10, <2>2
<1>11. /\ \A i \in DOMAIN rest : Update(rest[i]) =>
             /\ entry # NotCached /\ Sound(rest[i].value, hour)
             /\ Within(rest[i].value, entry, hour)
             /\ Backed(rest[i].value, spent + (Due(rest, i) + CostOf(head)))
       /\ ~failed => \A i \in DOMAIN rest : Latest(rest, i) => Kept(rest[i].value, entry, hour)
  <2>1. ASSUME NEW i \in DOMAIN rest, Update(rest[i])
        PROVE  /\ entry # NotCached /\ Sound(rest[i].value, hour)
               /\ Within(rest[i].value, entry, hour)
               /\ Backed(rest[i].value, spent + (Due(rest, i) + CostOf(head)))
    <3>1. /\ i + 1 \in DOMAIN queue /\ rest[i] = queue[i + 1]
          /\ Due(queue, i + 1) = Due(rest, i) + CostOf(head)
      BY <1>2, <1>3, <1>6
    <3>2. Backed(queue[i + 1].value, spent + Due(queue, i + 1))
      BY <2>1, <3>1 DEF Core, CoreBacked
    <3>. QED
      BY <2>1, <3>1, <3>2 DEF Core, CoreSound, CoreFollows
  <2>2. ASSUME ~failed, NEW i \in DOMAIN rest, Latest(rest, i)
        PROVE  Kept(rest[i].value, entry, hour)
    BY <1>2, <1>9, <2>2 DEF Core, CoreKept
  <2>. QED
    BY <2>1, <2>2
<1>12. entry = NotCached \/ Sound(entry, hour)
  BY DEF Core, CoreSound
<1>13. stored = NotCached \/ Sound(stored, hour)
  BY DEF Core, CoreSound
<1>14. CoreSound(hour, entry, stored, rest) /\ CoreFollows(hour, entry, stored, rest)
  BY <1>11 DEF Core, CoreSound, CoreFollows
\* The backing without what the head costs.
<1>15. CoreBacked(entry, stored, rest, spent)
  <2>1. ASSUME NEW i \in DOMAIN rest, Update(rest[i])
        PROVE  Backed(rest[i].value, spent + Due(rest, i))
    <3>1. Due(rest, i) \in Nat
      BY <1>5, <1>6
    <3>2. rest[i].value \in BudgetInfo
      BY <1>11, <2>1, SoundFacts
    <3>3. /\ spent + (Due(rest, i) + CostOf(head)) \in Nat /\ spent + Due(rest, i) \in Nat
          /\ spent + Due(rest, i) <= spent + (Due(rest, i) + CostOf(head))
      BY <1>1, <1>5, <3>1
    <3>. QED
      BY <1>11, <2>1, <3>2, <3>3, BackedFacts
  <2>2. Due(rest, Len(rest)) \in Nat
    BY <1>5, <1>7 DEF n
  <2>3. CASE entry = NotCached
    <3>1. Due(rest, Len(rest)) + CostOf(head) = 0
      BY <1>7, <2>3 DEF Core, CoreBacked
    <3>2. Due(rest, Len(rest)) = 0
      BY <1>5, <2>2, <3>1
    <3>. QED
      BY <2>1, <2>3, <3>2 DEF Core, CoreBacked
  <2>4. CASE entry # NotCached
    <3>1. entry \in BudgetInfo
      BY <1>12, <2>4, SoundFacts
    <3>2. Backed(entry, spent + (Due(rest, Len(rest)) + CostOf(head)))
      BY <1>7, <2>4 DEF Core, CoreBacked
    <3>3. /\ spent + (Due(rest, Len(rest)) + CostOf(head)) \in Nat
          /\ spent + Due(rest, Len(rest)) \in Nat
          /\ spent + Due(rest, Len(rest)) <= spent + (Due(rest, Len(rest)) + CostOf(head))
      BY <1>1, <1>5, <2>2
    <3>4. Backed(entry, spent + Due(rest, Len(rest)))
      BY <3>1, <3>2, <3>3, BackedFacts
    <3>. QED
      BY <2>1, <2>4, <3>4 DEF Core, CoreBacked
  <2>. QED
    BY <2>3, <2>4
<1>16. ASSUME ~Update(head) PROVE Core(hour, entry, stored, rest, spent, failed)
  <2>1. ASSUME ~failed PROVE CoreKept(hour, entry, stored, rest)
    <3>1. (\A i \in DOMAIN rest : ~Update(rest[i]))
            => \A j \in DOMAIN queue : ~Update(queue[j])
      <4>1. \A j \in DOMAIN queue : j = 1 \/ 1 < j
        BY <1>1, QueueFacts
      <4>. QED
        BY <1>2, <1>10, <1>16, <4>1
    <3>. QED
      BY <1>11, <2>1, <3>1 DEF Core, CoreKept
  <2>. QED
    BY <1>1, <1>2, <1>14, <1>15, <2>1 DEF Core
<1>17. ASSUME Update(head)
       PROVE  /\ Core(hour, entry, head.value, rest, spent + CostOf(head), failed)
              /\ Core(hour, entry, stored, rest, spent, TRUE)
  <2>1. /\ entry # NotCached /\ Sound(head.value, hour) /\ Within(head.value, entry, hour)
        /\ Backed(head.value, spent + CostOf(head)) /\ head.value # NotCached
    <3>1. /\ entry # NotCached /\ Sound(queue[1].value, hour)
          /\ Within(queue[1].value, entry, hour)
          /\ Backed(queue[1].value, spent + Due(queue, 1))
      BY <1>2, <1>17 DEF Core, CoreSound, CoreFollows, CoreBacked
    <3>. QED
      BY <1>2, <1>8, <3>1, SoundFacts
  <2>2. /\ CoreSound(hour, entry, head.value, rest)
        /\ CoreFollows(hour, entry, head.value, rest)
    BY <1>11, <1>12, <2>1 DEF CoreSound, CoreFollows
  <2>3. ASSUME ~failed PROVE CoreKept(hour, entry, head.value, rest)
    <3>1. ASSUME \A i \in DOMAIN rest : ~Update(rest[i])
          PROVE  Kept(head.value, entry, hour)
      <4>1. Latest(queue, 1)
        BY <1>2, <1>10, <1>17, <3>1 DEF Latest
      <4>. QED
        BY <1>2, <2>3, <4>1 DEF Core, CoreKept
    <3>. QED
      BY <1>11, <2>3, <3>1 DEF CoreKept
  <2>4. CoreBacked(entry, head.value, rest, spent + CostOf(head))
    <3>1. ASSUME NEW i \in DOMAIN rest, Update(rest[i])
          PROVE  Backed(rest[i].value, (spent + CostOf(head)) + Due(rest, i))
      <4>1. Due(rest, i) \in Nat
        BY <1>5, <1>6
      <4>2. (spent + CostOf(head)) + Due(rest, i) = spent + (Due(rest, i) + CostOf(head))
        BY <1>1, <1>5, <4>1
      <4>3. Backed(rest[i].value, spent + (Due(rest, i) + CostOf(head)))
        BY <1>11, <3>1
      <4>. QED
        BY <4>2, <4>3
    <3>2. Backed(entry, (spent + CostOf(head)) + Due(rest, Len(rest)))
      <4>1. Due(rest, Len(rest)) \in Nat
        BY <1>5, <1>7 DEF n
      <4>2. (spent + CostOf(head)) + Due(rest, Len(rest))
              = spent + (Due(rest, Len(rest)) + CostOf(head))
        BY <1>1, <1>5, <4>1
      <4>3. Backed(entry, spent + (Due(rest, Len(rest)) + CostOf(head)))
        BY <1>7, <2>1 DEF Core, CoreBacked
      <4>. QED
        BY <4>2, <4>3
    <3>. QED
      BY <2>1, <3>1, <3>2 DEF CoreBacked
  <2>5. spent + CostOf(head) \in Nat
    BY <1>1, <1>5
  <2>. QED
    BY <1>1, <1>2, <1>14, <1>15, <2>2, <2>3, <2>4, <2>5 DEF Core
<1>. QED
  BY <1>16, <1>17 DEF rest, head

\* An hour passes.
LEMMA CoreTick ==
    ASSUME NEW hour \in Nat, NEW entry, NEW stored, NEW queue, NEW spent, NEW failed,
           Core(hour, entry, stored, queue, spent, failed)
    PROVE  Core(hour + 1, entry, stored, queue, spent, failed)
<1>1. ASSUME NEW info, Sound(info, hour) PROVE Sound(info, hour + 1)
  <2>1. info.lastAward \in Nat /\ info.lastAward <= hour
    BY <1>1, SoundFacts
  <2>. QED
    BY <1>1, <2>1 DEF Sound
<1>2. \A time \in Nat : hour + 1 < time => hour < time
  OBVIOUS
<1>3. \A a, b : /\ Within(a, b, hour) => Within(a, b, hour + 1)
                /\ Kept(a, b, hour) => Kept(a, b, hour + 1)
  BY <1>2 DEF Within, Kept
<1>4. CoreSound(hour + 1, entry, stored, queue)
  BY <1>1 DEF Core, CoreSound
<1>5. CoreFollows(hour + 1, entry, stored, queue)
  BY <1>3 DEF Core, CoreFollows
<1>6. ~failed => CoreKept(hour + 1, entry, stored, queue)
  BY <1>3 DEF Core, CoreKept
<1>. QED
  BY <1>4, <1>5, <1>6 DEF Core

\* A restart forgets the cache, the tasks, and spends that were not reported yet.
LEMMA CoreRestart ==
    ASSUME NEW hour \in Nat, NEW entry, NEW stored, NEW queue, NEW spent, NEW failed,
           Core(hour, entry, stored, queue, spent, failed), NEW less \in Nat, less <= spent
    PROVE  Core(hour, NotCached, stored, <<>>, less, FALSE)
<1>1. <<>> \in Seq(Tasks) /\ Len(<<>>) = 0 /\ Due(<<>>, 0) = 0 /\ DOMAIN <<>> = {}
  <2>1. <<>> \in Seq(Tasks) /\ Len(<<>>) = 0
    BY EmptySeq
  <2>2. Due(<<>>, 0) = 0
    BY <2>1, CostsFacts
  <2>. QED
    BY <2>1, <2>2
<1>2. IF stored = NotCached THEN less = 0 ELSE Backed(stored, less)
  <2>1. CASE stored = NotCached
    BY <2>1 DEF Core, CoreBacked
  <2>2. CASE stored # NotCached
    <3>1. stored \in BudgetInfo /\ Backed(stored, spent) /\ spent \in Nat
      BY <2>2, SoundFacts DEF Core, CoreSound, CoreBacked
    <3>. QED
      BY <2>2, <3>1, BackedFacts
  <2>. QED
    BY <2>1, <2>2
<1>3. CoreSound(hour, NotCached, stored, <<>>)
  BY <1>1 DEF Core, CoreSound
<1>4. CoreFollows(hour, NotCached, stored, <<>>) /\ CoreKept(hour, NotCached, stored, <<>>)
  BY <1>1 DEF CoreFollows, CoreKept
<1>5. CoreBacked(NotCached, stored, <<>>, less)
  BY <1>1, <1>2 DEF CoreBacked
<1>. QED
  BY <1>1, <1>3, <1>4, <1>5 DEF Core
-----------------------------------------------------------------------------
(* The steps of the service *)

\* What was stored for spends: those reported, and those whose reply is on its way.
Spent == OperationCost * paid + Received(replies)

\* While nothing is cached, replies can only bring what is stored.
RepliesMatch(entry, stored, queue) ==
    entry = NotCached =>
        \A i \in DOMAIN queue :
            /\ queue[i].next = "AddToCache"
            /\ queue[i].success => queue[i].value = stored

OuterOK ==
    /\ now \in 0..MaxHours /\ replies \in Seq(Replies)
    /\ reservations \in Nat /\ paid \in Nat /\ consumed \in Nat
    /\ writeFailed \in BOOLEAN

BudgetInv ==
    /\ OuterOK
    /\ Core(now, cache, db, tasks, Spent, writeFailed)
    /\ RepliesMatch(cache, db, replies)
    /\ reservations + consumed <= paid

\* With a synced entry in the cache an operation reads it, or spends and queues the write.
LEMMA AfterSyncStep ==
    ASSUME now \in Nat, NEW op \in Operations, NEW spent, NEW info, info # NotCached,
           Core(now, info, db, tasks, spent, writeFailed), AfterSync(op, info)
    PROVE  /\ Core(now, cache', db, tasks', spent, writeFailed) /\ cache' # NotCached
           /\ UNCHANGED <<reservations, paid, consumed>>
<1>1. CASE op # "get" /\ Total(info) >= OperationCost
  <2>. DEFINE rest == Spend(info, OperationCost)
              task == [op |-> op, next |-> "AfterWrite", value |-> rest]
  <2>1. /\ cache' = rest /\ tasks' = Append(tasks, task)
        /\ UNCHANGED <<reservations, paid, consumed>>
    BY <1>1 DEF AfterSync, SpendBudgetAfterSync, history
  <2>2. /\ Sound(info, now) /\ spent \in Nat /\ tasks \in Seq(Tasks)
        /\ Backed(info, spent + Due(tasks, Len(tasks)))
    BY DEF Core, CoreSound, CoreBacked
  <2>3. OperationCost \in Nat /\ Due(tasks, Len(tasks)) \in Nat
    BY <2>2, ConstantsFacts, CostsFacts, QueueFacts
  <2>4. /\ Sound(rest, now) /\ Within(info, rest, now)
        /\ Backed(rest, (spent + Due(tasks, Len(tasks))) + OperationCost)
    BY <1>1, <2>2, <2>3, SpendSound
  <2>. HIDE DEF rest
  <2>5. rest # NotCached /\ rest \in Entries
    BY <2>4, SoundFacts
  <2>6. /\ task \in Tasks /\ Update(task) /\ task.value = rest
        /\ CostOf(task) = OperationCost
    BY <2>5 DEF Tasks, Continuations, Update, CostOf
  <2>. HIDE DEF task
  <2>7. (spent + Due(tasks, Len(tasks))) + OperationCost
          = spent + (Due(tasks, Len(tasks)) + CostOf(task))
    BY <2>2, <2>3, <2>6
  <2>8. Core(now, rest, db, Append(tasks, task), spent, writeFailed)
    BY <2>4, <2>6, <2>7, CoreWrite
  <2>. QED
    BY <2>1, <2>5, <2>8
<1>2. CASE ~(op # "get" /\ Total(info) >= OperationCost)
  <2>1. cache' = info /\ UNCHANGED <<tasks, reservations, paid, consumed>>
    BY <1>2 DEF AfterSync, history
  <2>. QED
    BY <2>1
<1>. QED
  BY <1>1, <1>2

\* An operation on the cached entry, or on the one loaded while nothing was cached.
LEMMA SyncStep ==
    ASSUME now \in Nat, NEW op \in Operations, NEW spent,
           Core(now, cache, db, tasks, spent, writeFailed),
           NEW info, info = IF cache # NotCached THEN cache ELSE db,
           SyncLoadedCache(op, info)
    PROVE  /\ Core(now, cache', db, tasks', spent, writeFailed) /\ cache' # NotCached
           /\ UNCHANGED <<reservations, paid, consumed>>
<1>1. PICK hourly \in HourlyBudgets :
         IF Lapsed(info)
         THEN /\ cache' = Synced(info, hourly)
              /\ tasks' = Append(tasks, [op |-> op, next |-> "AfterSync",
                                         value |-> Synced(info, hourly)])
              /\ UNCHANGED <<reservations, history>>
         ELSE AfterSync(op, Synced(info, hourly))
  BY DEF SyncLoadedCache
<1>. DEFINE synced == Synced(info, hourly)
            task == [op |-> op, next |-> "AfterSync", value |-> synced]
<1>2. info = NotCached \/ Sound(info, now)
  BY DEF Core, CoreSound
<1>3. /\ Sound(synced, now)
      /\ info # NotCached =>
            /\ Kept(info, synced, now)
            /\ \A some \in Nat : Backed(info, some) => Backed(synced, some)
      /\ info = NotCached => Backed(synced, 0)
  BY <1>2, SyncedFacts
<1>. HIDE DEF synced
<1>4. synced # NotCached /\ synced \in Entries
  BY <1>3, SoundFacts
<1>5. Core(now, synced, db, tasks, spent, writeFailed)
  <2>1. CASE cache # NotCached
    BY <1>3, <2>1, CoreSync
  <2>2. CASE cache = NotCached
    BY <1>3, <2>2, CoreLoad
  <2>. QED
    BY <2>1, <2>2
<1>6. CASE Lapsed(info)
  <2>1. /\ cache' = synced /\ tasks' = Append(tasks, task)
        /\ UNCHANGED <<reservations, paid, consumed>>
    BY <1>1, <1>6 DEF synced, history
  <2>2. task \in Tasks /\ Update(task) /\ task.value = synced /\ CostOf(task) = 0
    BY <1>4 DEF Tasks, Continuations, Update, CostOf
  <2>. HIDE DEF task
  <2>3. Within(synced, synced, now)
    BY <1>3, FollowsTransitive
  <2>4. /\ spent \in Nat /\ tasks \in Seq(Tasks)
        /\ Backed(synced, spent + Due(tasks, Len(tasks)))
    BY <1>4, <1>5 DEF Core, CoreBacked
  <2>5. Due(tasks, Len(tasks)) \in Nat
    BY <2>4, CostsFacts, QueueFacts
  <2>6. Due(tasks, Len(tasks)) = Due(tasks, Len(tasks)) + CostOf(task)
    BY <2>2, <2>5
  <2>7. Core(now, synced, db, Append(tasks, task), spent, writeFailed)
    <3>1. Backed(synced, spent + (Due(tasks, Len(tasks)) + CostOf(task)))
      BY <2>4, <2>6
    <3>. QED
      BY <1>3, <1>4, <1>5, <2>2, <2>3, <3>1, CoreWrite
  <2>. QED
    BY <1>4, <2>1, <2>7
<1>7. CASE ~Lapsed(info)
  <2>1. AfterSync(op, synced)
    BY <1>1, <1>7 DEF synced
  <2>. QED
    BY <1>4, <1>5, <2>1, AfterSyncStep
<1>. QED
  BY <1>6, <1>7

\* An operation starts: on the cached entry, or by queueing a read.
LEMMA SyncCacheStep ==
    ASSUME BudgetInv, NEW op \in Operations, SyncCache(op),
           UNCHANGED <<now, db, replies, writeFailed>>
    PROVE  BudgetInv' /\ UNCHANGED <<paid, consumed>>
<1>1. /\ now \in Nat /\ Core(now, cache, db, tasks, Spent, writeFailed)
      /\ RepliesMatch(cache, db, replies)
  BY DEF BudgetInv, OuterOK
<1>2. CASE cache = NotCached
  <2>. DEFINE task == [op |-> op, next |-> "AddToCache", value |-> NotCached]
  <2>1. tasks' = Append(tasks, task) /\ UNCHANGED <<cache, reservations, paid, consumed>>
    BY <1>2 DEF SyncCache, history
  <2>2. task \in Tasks /\ ~Update(task)
    BY DEF Tasks, Continuations, Entries, Update
  <2>. HIDE DEF task
  <2>3. Core(now, cache, db, Append(tasks, task), Spent, writeFailed)
    BY <1>1, <2>2, CoreRead
  <2>. QED
    BY <2>1, <2>3 DEF BudgetInv, OuterOK, Spent
<1>3. CASE cache # NotCached
  <2>1. SyncLoadedCache(op, cache)
    BY <1>3 DEF SyncCache
  <2>2. /\ Core(now, cache', db, tasks', Spent, writeFailed) /\ cache' # NotCached
        /\ UNCHANGED <<reservations, paid, consumed>>
    BY <1>1, <1>3, <2>1, SyncStep
  <2>. QED
    BY <2>2 DEF BudgetInv, OuterOK, Spent, RepliesMatch
<1>. QED
  BY <1>2, <1>3

\* A consumed reservation had been paid for and was not consumed before.
LEMMA ConsumeStep ==
    ASSUME BudgetInv, Consume
    PROVE  BudgetInv' /\ (consumed' # consumed =>
              paid' = paid /\ consumed' = consumed + 1 /\ consumed < paid)
<1>1. CASE reservations > 0
  <2>1. /\ reservations' = reservations - 1 /\ consumed' = consumed + 1
        /\ UNCHANGED <<now, cache, db, tasks, replies, paid, writeFailed>>
    BY <1>1 DEF Consume, TakeReservation
  <2>2. /\ reservations \in Nat /\ consumed \in Nat /\ paid \in Nat
        /\ reservations + consumed <= paid
    BY DEF BudgetInv, OuterOK
  <2>3. /\ reservations' \in Nat /\ consumed' \in Nat /\ reservations' + consumed' <= paid
        /\ consumed < paid
    BY <1>1, <2>1, <2>2
  <2>. QED
    BY <2>1, <2>3 DEF BudgetInv, OuterOK, Spent
<1>2. CASE ~(reservations > 0)
  <2>1. SyncCache("consume") /\ UNCHANGED <<now, db, replies, writeFailed>>
    BY <1>2 DEF Consume
  <2>2. "consume" \in Operations
    BY DEF Operations
  <2>. QED
    BY <2>1, <2>2, SyncCacheStep
<1>. QED
  BY <1>1, <1>2

\* The types of what has been spent.
LEMMA SpentTypes ==
    ASSUME BudgetInv
    PROVE  /\ OperationCost * paid \in Nat
           /\ OperationCost * (paid + 1) = OperationCost * paid + OperationCost
           /\ Received(replies) \in Nat /\ Spent \in Nat
<1>1. paid \in Nat /\ OperationCost \in Nat
  BY ConstantsFacts DEF BudgetInv, OuterOK
<1>2. Received(replies) \in Nat
  BY PaymentsFacts DEF BudgetInv, OuterOK
<1>3. OperationCost * (paid + 1) = OperationCost * paid + OperationCost * 1
  BY <1>1, Products
<1>. QED
  BY <1>1, <1>2, <1>3, Products DEF Spent

\* A reply leaves the queue, and the spends it reports become paid ones.
LEMMA HandleReplyStep ==
    ASSUME BudgetInv, HandleReply
    PROVE  BudgetInv' /\ (UNCHANGED <<paid, consumed>>
              \/ (paid' = paid + 1 /\ consumed' \in {consumed, consumed + 1}
                    /\ OperationCost * (paid + 1) <= Spent))
<1>. DEFINE reply == Head(replies)
<1>1. /\ replies # <<>> /\ replies' = Tail(replies) /\ UNCHANGED <<now, db, writeFailed>>
      /\ \/ reply.next = "AddToCache" /\ AddToCache(reply)
         \/ reply.next = "AfterSync" /\ AfterSyncWrite(reply)
         \/ reply.next = "AfterWrite" /\ AfterWrite(reply)
         \/ reply.next \notin Continuations
  BY DEF HandleReply, Continuations
<1>2. /\ now \in Nat /\ replies \in Seq(Replies)
      /\ Core(now, cache, db, tasks, Spent, writeFailed)
      /\ RepliesMatch(cache, db, replies)
      /\ reservations \in Nat /\ paid \in Nat /\ consumed \in Nat
      /\ reservations + consumed <= paid
  BY DEF BudgetInv, OuterOK
<1>3. /\ reply \in Replies /\ reply = replies[1] /\ 1 \in DOMAIN replies
      /\ Tail(replies) \in Seq(Replies)
      /\ \A i \in DOMAIN Tail(replies) :
            i + 1 \in DOMAIN replies /\ Tail(replies)[i] = replies[i + 1]
  BY <1>1, <1>2, RestFacts
<1>4. Received(replies) = Received(Tail(replies)) + PaidBy(reply)
  BY <1>1, <1>2, ReceivedTail
<1>5. Received(Tail(replies)) \in Nat
  BY <1>3, PaymentsFacts
<1>. HIDE DEF reply
<1>6. /\ reply.next \in Continuations /\ reply.op \in Operations /\ reply.success \in BOOLEAN
  BY <1>3 DEF Replies
<1>7. RepliesMatch(cache, db, replies')
  BY <1>1, <1>2, <1>3 DEF RepliesMatch
<1>8. cache = NotCached =>
         reply.next = "AddToCache" /\ (reply.success => reply.value = db)
  BY <1>2, <1>3 DEF RepliesMatch
<1>9. ASSUME UNCHANGED <<reservations, paid, consumed>>, PaidBy(reply) = 0,
             Core(now, cache', db, tasks', Spent, writeFailed),
             cache' # NotCached \/ cache' = cache
      PROVE  BudgetInv'
  <2>1. Spent' = Spent
    <3>1. Received(replies') = Received(replies)
      BY <1>1, <1>4, <1>5, <1>9
    <3>. QED
      BY <1>9, <3>1 DEF Spent
  <2>2. RepliesMatch(cache', db, replies')
    BY <1>7, <1>9 DEF RepliesMatch
  <2>. QED
    BY <1>1, <1>3, <1>9, <2>1, <2>2 DEF BudgetInv, OuterOK
<1>10. CASE reply.next = "AddToCache" /\ AddToCache(reply)
  <2>1. PaidBy(reply) = 0
    BY <1>10 DEF PaidBy
  <2>2. CASE reply.success
    <3>1. SyncLoadedCache(reply.op, Loaded(reply.value))
      BY <1>10, <2>2 DEF AddToCache
    <3>2. Loaded(reply.value) = IF cache # NotCached THEN cache ELSE db
      BY <1>8, <2>2 DEF Loaded
    <3>3. /\ Core(now, cache', db, tasks', Spent, writeFailed) /\ cache' # NotCached
          /\ UNCHANGED <<reservations, paid, consumed>>
      BY <1>2, <1>6, <3>1, <3>2, SyncStep
    <3>. QED
      BY <1>9, <2>1, <3>3
  <2>3. CASE ~reply.success
    <3>1. UNCHANGED <<cache, tasks, reservations, paid, consumed>>
      BY <1>10, <2>3 DEF AddToCache, history
    <3>2. Core(now, cache', db, tasks', Spent, writeFailed)
      BY <1>2, <3>1
    <3>. QED
      BY <1>9, <2>1, <3>1, <3>2
  <2>. QED
    BY <2>2, <2>3
<1>11. CASE reply.next = "AfterSync" /\ AfterSyncWrite(reply)
  <2>1. PaidBy(reply) = 0 /\ cache # NotCached
    BY <1>8, <1>11 DEF PaidBy
  <2>2. CASE reply.success
    <3>1. AfterSync(reply.op, cache)
      BY <1>11, <2>2 DEF AfterSyncWrite
    <3>2. /\ Core(now, cache', db, tasks', Spent, writeFailed) /\ cache' # NotCached
          /\ UNCHANGED <<reservations, paid, consumed>>
      BY <1>2, <1>6, <2>1, <3>1, AfterSyncStep
    <3>. QED
      BY <1>9, <2>1, <3>2
  <2>3. CASE ~reply.success
    <3>1. UNCHANGED <<cache, tasks, reservations, paid, consumed>>
      BY <1>11, <2>3 DEF AfterSyncWrite, history
    <3>2. Core(now, cache', db, tasks', Spent, writeFailed)
      BY <1>2, <3>1
    <3>. QED
      BY <1>9, <2>1, <3>1, <3>2
  <2>. QED
    BY <2>2, <2>3
<1>12. CASE reply.next = "AfterWrite" /\ AfterWrite(reply)
  <2>1. UNCHANGED <<cache, tasks>>
    BY <1>12 DEF AfterWrite
  <2>2. CASE reply.success
    <3>1. /\ paid' = paid + 1
          /\ reservations' = IF reply.op = "reserve" THEN reservations + 1 ELSE reservations
          /\ consumed' = IF reply.op = "consume" THEN consumed + 1 ELSE consumed
      BY <1>12, <2>2 DEF AfterWrite
    <3>2. PaidBy(reply) = OperationCost
      BY <1>12, <2>2 DEF PaidBy
    <3>3. /\ OperationCost * paid \in Nat /\ OperationCost \in Nat
          /\ OperationCost * (paid + 1) = OperationCost * paid + OperationCost
      BY SpentTypes, ConstantsFacts
    <3>4. Spent' = Spent /\ OperationCost * (paid + 1) <= Spent
      <4>1. Spent = OperationCost * paid + (Received(Tail(replies)) + OperationCost)
        BY <1>4, <3>2 DEF Spent
      <4>2. Spent' = (OperationCost * paid + OperationCost) + Received(Tail(replies))
        BY <1>1, <3>1, <3>3 DEF Spent
      <4>. QED
        BY <1>5, <3>3, <4>1, <4>2
    <3>5. /\ reservations' \in Nat /\ consumed' \in Nat /\ paid' \in Nat
          /\ reservations' + consumed' <= paid'
          /\ consumed' \in {consumed, consumed + 1}
      <4>1. CASE reply.op = "reserve"
        BY <1>2, <3>1, <4>1
      <4>2. CASE reply.op = "consume"
        BY <1>2, <3>1, <4>2
      <4>3. CASE reply.op \notin {"reserve", "consume"}
        BY <1>2, <3>1, <4>3
      <4>. QED
        BY <4>1, <4>2, <4>3
    <3>6. BudgetInv'
      <4>1. Core(now, cache, db, tasks, Spent', writeFailed)
        BY <1>2, <3>4
      <4>2. RepliesMatch(cache', db', replies')
        BY <1>1, <1>7, <2>1
      <4>. QED
        BY <1>1, <1>3, <2>1, <3>5, <4>1, <4>2 DEF BudgetInv, OuterOK
    <3>. QED
      BY <3>1, <3>4, <3>5, <3>6
  <2>3. CASE ~reply.success
    <3>1. UNCHANGED <<reservations, paid, consumed>> /\ PaidBy(reply) = 0
      BY <1>12, <2>3 DEF AfterWrite, history, PaidBy
    <3>2. Core(now, cache', db, tasks', Spent, writeFailed)
      BY <1>2, <2>1
    <3>. QED
      BY <1>9, <2>1, <3>1, <3>2
  <2>. QED
    BY <2>2, <2>3
<1>. QED
  BY <1>1, <1>6, <1>10, <1>11, <1>12

\* The database reads, or writes with or without success, and its reply joins the queue.
LEMMA RunTaskStep ==
    ASSUME BudgetInv, RunTask
    PROVE  BudgetInv' /\ UNCHANGED <<paid, consumed>>
<1>. DEFINE task == Head(tasks)
            Reply(value, success) ==
                [op |-> task.op, next |-> task.next, value |-> value, success |-> success]
<1>1. /\ tasks # <<>> /\ tasks' = Tail(tasks)
      /\ UNCHANGED <<now, cache, reservations, paid, consumed>>
      /\ GetEntry(task) \/ UpdateEntries(task)
  BY DEF RunTask, history
<1>2. /\ now \in Nat /\ replies \in Seq(Replies) /\ tasks \in Seq(Tasks)
      /\ Core(now, cache, db, tasks, Spent, writeFailed)
      /\ RepliesMatch(cache, db, replies)
      /\ cache \in Entries /\ db \in Entries
  BY SoundFacts DEF BudgetInv, OuterOK, Core, CoreSound, Entries
<1>3. task \in Tasks /\ task = tasks[1] /\ 1 \in DOMAIN tasks
  BY <1>1, <1>2, RestFacts
<1>4. /\ ~Update(task) => Core(now, cache, db, Tail(tasks), Spent, writeFailed)
      /\ Update(task) =>
            /\ Core(now, cache, task.value, Tail(tasks), Spent + CostOf(task), writeFailed)
            /\ Core(now, cache, db, Tail(tasks), Spent, TRUE)
  <2>1. now \in Nat
    BY <1>2
  <2>. QED
    BY <1>1, <1>2, <2>1, CoreTask
<1>. HIDE DEF task
<1>5. \A value \in Entries : \A success \in BOOLEAN : Reply(value, success) \in Replies
  BY <1>3 DEF Tasks, Replies
<1>6. ASSUME NEW value \in Entries, NEW success \in BOOLEAN,
             replies' = ReplyTo(task, value, success)
      PROVE  /\ replies' = Append(replies, Reply(value, success))
             /\ replies' \in Seq(Replies)
             /\ Spent' = Spent + PaidBy(Reply(value, success))
             /\ PaidBy(Reply(value, success)) = IF success THEN CostOf(task) ELSE 0
  <2>1. replies' = Append(replies, Reply(value, success))
    BY <1>6 DEF ReplyTo
  <2>2. PaidBy(Reply(value, success)) = IF success THEN CostOf(task) ELSE 0
    BY DEF PaidBy, CostOf
  <2>3. Reply(value, success) \in Replies
    BY <1>5
  <2>. HIDE DEF Reply
  <2>4. replies' \in Seq(Replies)
    BY <1>2, <2>1, <2>3, AppendedFacts
  <2>5. Received(replies') = Received(replies) + PaidBy(Reply(value, success))
    BY <1>2, <2>1, <2>3, ReceivedAppend
  <2>6. /\ OperationCost * paid \in Nat /\ Received(replies) \in Nat
        /\ PaidBy(Reply(value, success)) \in Nat
    BY SpentTypes, ConstantsFacts DEF PaidBy
  <2>7. Spent' = OperationCost * paid + Received(replies')
    BY <1>1 DEF Spent
  <2>8. Spent' = Spent + PaidBy(Reply(value, success))
    BY <2>5, <2>6, <2>7 DEF Spent
  <2>. QED
    BY <2>1, <2>2, <2>4, <2>8
<1>7. CASE GetEntry(task)
  <2>1. ~Update(task) /\ UNCHANGED <<db, writeFailed>> /\ CostOf(task) = 0
    BY <1>7 DEF GetEntry, Update, CostOf
  <2>2. PICK value \in Entries, success \in BOOLEAN :
          /\ replies' = ReplyTo(task, value, success)
          /\ success => value = db
    <3>1. NotCached \in Entries
      BY DEF Entries
    <3>. QED
      BY <1>2, <1>7, <3>1 DEF GetEntry
  <2>3. /\ replies' = Append(replies, Reply(value, success))
        /\ replies' \in Seq(Replies) /\ Spent' = Spent + 0
    BY <1>6, <2>1, <2>2
  <2>4. Spent' = Spent
    BY <2>3, SpentTypes
  <2>5. RepliesMatch(cache, db, replies')
    <3>. DEFINE reply == Reply(value, success)
    <3>1. reply.next = "AddToCache" /\ (reply.success => reply.value = db)
      BY <1>7, <2>2 DEF GetEntry
    <3>2. reply \in Replies
      BY <1>5
    <3>. HIDE DEF reply, Reply
    <3>3. /\ replies'[Len(replies) + 1] = reply
          /\ \A i \in DOMAIN replies : replies'[i] = replies[i]
          /\ \A i \in DOMAIN replies' : i \in DOMAIN replies \/ i = Len(replies) + 1
      <4>1. replies' = Append(replies, reply)
        BY <2>3 DEF reply
      <4>. QED
        BY <1>2, <3>2, <4>1, AppendedFacts
    <3>. QED
      BY <1>2, <3>1, <3>3 DEF RepliesMatch
  <2>. QED
    BY <1>1, <1>4, <2>1, <2>3, <2>4, <2>5 DEF BudgetInv, OuterOK
<1>8. CASE UpdateEntries(task)
  <2>1. Update(task) /\ cache # NotCached
    BY <1>2, <1>3, <1>8 DEF UpdateEntries, Update, Core, CoreSound
  <2>2. NotCached \in Entries /\ TRUE \in BOOLEAN /\ FALSE \in BOOLEAN
    BY DEF Entries
  <2>3. CASE /\ db' = task.value /\ replies' = ReplyTo(task, NotCached, TRUE)
             /\ UNCHANGED writeFailed
    <3>1. replies' \in Seq(Replies) /\ Spent' = Spent + CostOf(task)
      BY <1>6, <2>2, <2>3
    <3>2. RepliesMatch(cache', db', replies')
      BY <1>1, <2>1 DEF RepliesMatch
    <3>3. Core(now', cache', db', tasks', Spent', writeFailed')
      BY <1>1, <1>4, <2>1, <2>3, <3>1
    <3>. QED
      BY <1>1, <2>3, <3>1, <3>2, <3>3 DEF BudgetInv, OuterOK
  <2>4. CASE /\ replies' = ReplyTo(task, NotCached, FALSE) /\ writeFailed' = TRUE
             /\ UNCHANGED db
    <3>1. replies' \in Seq(Replies) /\ Spent' = Spent + 0
      BY <1>6, <2>2, <2>4
    <3>2. Spent' = Spent
      BY <3>1, SpentTypes
    <3>3. RepliesMatch(cache', db', replies')
      BY <1>1, <2>1 DEF RepliesMatch
    <3>4. Core(now', cache', db', tasks', Spent', writeFailed')
      BY <1>1, <1>4, <2>1, <2>4, <3>2
    <3>. QED
      BY <1>1, <2>4, <3>1, <3>3, <3>4 DEF BudgetInv, OuterOK
  <2>. QED
    BY <1>1, <1>8, <2>3, <2>4 DEF UpdateEntries
<1>. QED
  BY <1>1, <1>7, <1>8

\* An hour more only lets more chunks expire.
LEMMA TickStep ==
    ASSUME BudgetInv, Tick
    PROVE  BudgetInv' /\ UNCHANGED <<paid, consumed>> /\ now' = now + 1
<1>1. /\ now < MaxHours /\ now' = now + 1
      /\ UNCHANGED <<db, cache, tasks, replies, reservations, writeFailed, paid, consumed>>
  BY DEF Tick, memory, history
<1>2. now \in Nat /\ now' \in 0..MaxHours
  BY <1>1, BudgetBoundsAssumption DEF BudgetInv, OuterOK
<1>3. Core(now + 1, cache, db, tasks, Spent, writeFailed)
  BY <1>2, CoreTick DEF BudgetInv
<1>. QED
  BY <1>1, <1>2, <1>3 DEF BudgetInv, OuterOK, Spent

\* A restart forgets everything but what is stored and what was performed.
LEMMA RestartStep ==
    ASSUME BudgetInv, Restart
    PROVE  BudgetInv' /\ UNCHANGED <<now, paid, consumed>>
<1>1. /\ cache' = NotCached /\ tasks' = <<>> /\ replies' = <<>> /\ reservations' = 0
      /\ writeFailed' = FALSE /\ UNCHANGED <<now, db, paid, consumed>>
  BY DEF Restart, history
<1>2. <<>> \in Seq(Replies) /\ DOMAIN <<>> = {}
  OBVIOUS
<1>3. Received(<<>>) = 0
  BY <1>2, PaymentsFacts
<1>4. Spent' \in Nat /\ Spent' <= Spent
  <2>1. Spent' = OperationCost * paid + 0
    BY <1>1, <1>3 DEF Spent
  <2>. QED
    BY <2>1, SpentTypes DEF Spent
<1>5. Core(now, NotCached, db, <<>>, Spent', FALSE)
  <2>1. now \in Nat
    BY DEF BudgetInv, OuterOK
  <2>2. PICK less \in Nat : less = Spent'
    BY <1>4
  <2>3. Core(now, NotCached, db, <<>>, less, FALSE)
    BY <1>4, <2>1, <2>2, CoreRestart DEF BudgetInv
  <2>. QED
    BY <2>2, <2>3
<1>6. reservations' + consumed <= paid
  BY <1>1 DEF BudgetInv, OuterOK
<1>. QED
  BY <1>1, <1>2, <1>5, <1>6 DEF BudgetInv, OuterOK, RepliesMatch

LEMMA InitBudget == Init => BudgetInv
<1>. SUFFICES ASSUME Init PROVE BudgetInv
  OBVIOUS
<1>1. <<>> \in Seq(Replies) /\ <<>> \in Seq(Tasks) /\ DOMAIN <<>> = {} /\ Len(<<>>) = 0
  OBVIOUS
<1>2. Spent = 0
  <2>1. Received(<<>>) = 0 /\ OperationCost * 0 = 0
    <3>1. Received(<<>>) = 0
      BY <1>1, PaymentsFacts
    <3>2. \A cost \in Nat : cost * 0 = 0
      OBVIOUS
    <3>. QED
      BY <3>1, <3>2, ConstantsFacts
  <2>. QED
    BY <2>1 DEF Init, Spent
<1>3. Due(<<>>, 0) = 0
  BY <1>1, CostsFacts
<1>4. Core(now, cache, db, tasks, Spent, writeFailed)
  BY <1>1, <1>2, <1>3 DEF Init, Core, CoreSound, CoreFollows, CoreKept, CoreBacked
<1>5. 0 \in 0..MaxHours
  BY BudgetBoundsAssumption
<1>6. OuterOK
  BY <1>1, <1>5 DEF Init, OuterOK
<1>7. RepliesMatch(cache, db, replies)
  BY <1>1 DEF Init, RepliesMatch
<1>8. reservations + consumed <= paid
  BY DEF Init
<1>. QED
  BY <1>4, <1>6, <1>7, <1>8 DEF BudgetInv

LEMMA NextBudget == BudgetInv /\ [Next]_vars => BudgetInv'
<1>. SUFFICES ASSUME BudgetInv, [Next]_vars PROVE BudgetInv'
  OBVIOUS
<1>1. CASE GetBudget \/ Reserve
  <2>1. PICK op \in Operations : SyncCache(op)
    BY <1>1 DEF GetBudget, Reserve, Operations
  <2>. QED
    BY <1>1, <2>1, SyncCacheStep DEF GetBudget, Reserve
<1>2. CASE Consume
  BY <1>2, ConsumeStep
<1>3. CASE HandleReply
  BY <1>3, HandleReplyStep
<1>4. CASE RunTask
  BY <1>4, RunTaskStep
<1>5. CASE Tick
  BY <1>5, TickStep
<1>6. CASE Restart
  BY <1>6, RestartStep
<1>7. CASE UNCHANGED vars
  BY <1>7 DEF vars, memory, history, BudgetInv, OuterOK, Spent
<1>. QED
  BY <1>1, <1>2, <1>3, <1>4, <1>5, <1>6, <1>7 DEF Next

\* The inductive invariant: entries are sound wherever they are, the cache has followed from
\* all that is stored or being stored, and every entry is backed beside the spends before it.
THEOREM BudgetInvariant == Spec => []BudgetInv
<1>. QED
  BY InitBudget, NextBudget, PTL DEF Spec

\* Whatever the engagement and however operations overlap, no award is for more than the
\* duration of a budget, and chunks stay in the order of expiry their removal relies on.
THEOREM InOrder == Spec => []BudgetsInOrder
<1>1. BudgetInv => BudgetsInOrder
  <2>. SUFFICES ASSUME BudgetInv PROVE BudgetsInOrder
    OBVIOUS
  <2>1. /\ OuterOK /\ tasks \in Seq(Tasks)
        /\ cache = NotCached \/ Sound(cache, now)
        /\ db = NotCached \/ Sound(db, now)
    BY DEF BudgetInv, Core, CoreSound
  <2>2. TypeOK
    BY <2>1, SoundFacts DEF TypeOK, OuterOK, Entries
  <2>3. \A info \in {cache, db} \ {NotCached} : ChunksInOrder(info) /\ AwardsCapped(info)
    BY <2>1 DEF Sound
  <2>. QED
    BY <2>2, <2>3 DEF BudgetsInOrder
<1>. QED
  BY <1>1, BudgetInvariant, PTL

\* Loads that overlap with spends bring nothing back, and once all is written the database
\* holds exactly what is live in the cache, unless a write has failed.
THEOREM CacheMatches == Spec => []CacheMatchesDatabase
<1>1. BudgetInv => CacheMatchesDatabase
  <2>. SUFFICES ASSUME BudgetInv, cache # NotCached, db # NotCached, ~UpdatesUnderWay,
                       NEW i \in DOMAIN db.chunks, ~Expired(db.chunks[i])
                PROVE  /\ AmountAt(cache, db.chunks[i].expiration) <= db.chunks[i].amount
                       /\ ~writeFailed =>
                            AmountAt(cache, db.chunks[i].expiration) = db.chunks[i].amount
    BY DEF CacheMatchesDatabase
  <2>. DEFINE time == db.chunks[i].expiration
  <2>1. Sound(db, now) /\ Within(db, cache, now)
    BY DEF BudgetInv, Core, CoreSound, CoreFollows
  <2>2. ~writeFailed => Kept(db, cache, now)
    BY DEF BudgetInv, Core, CoreKept, UpdatesUnderWay, Update
  <2>3. db \in BudgetInfo /\ ChunksInOrder(db) /\ time <= db.lastAward + Duration
    BY <2>1 DEF Sound
  <2>4. time \in Nat /\ AmountAt(db, time) = db.chunks[i].amount
    BY <2>3, ChunksFacts, AmountAtFacts
  <2>5. now < time
    <3>1. now \in Nat /\ ~(time <= now)
      BY DEF BudgetInv, OuterOK, Expired
    <3>. QED
      BY <2>4, <3>1
  <2>. HIDE DEF time
  <2>6. AmountAt(cache, time) <= AmountAt(db, time)
    BY <2>1, <2>3, <2>4, <2>5 DEF Within
  <2>7. ~writeFailed => AmountAt(cache, time) = AmountAt(db, time)
    BY <2>2, <2>3, <2>4, <2>5 DEF Kept
  <2>. QED
    BY <2>4, <2>6, <2>7 DEF time
<1>. QED
  BY <1>1, BudgetInvariant, PTL

\* What has been spent never exceeds what full engagement earns until now.
LEMMA SpentIsEarned ==
    ASSUME BudgetInv, Spent # 0
    PROVE  Spent <= HourlyMaximum * (Duration + now)
<1>1. db # NotCached /\ Backed(db, Spent) /\ Sound(db, now) /\ Spent \in Nat /\ now \in Nat
  BY DEF BudgetInv, OuterOK, Core, CoreSound, CoreBacked
<1>2. db \in BudgetInfo /\ db.lastAward \in Nat /\ db.lastAward <= now
  BY <1>1, SoundFacts
<1>3. Total(db) \in Nat /\ HourlyMaximum \in Nat /\ Duration \in Nat
  BY <1>2, AmountsFacts, ConstantsFacts
<1>4. PICK x \in Nat, y \in Nat : x = Duration + db.lastAward /\ y = Duration + now
  BY <1>1, <1>2, <1>3
<1>5. x <= y
  BY <1>1, <1>2, <1>3, <1>4
<1>6. HourlyMaximum * x <= HourlyMaximum * y /\ HourlyMaximum * x \in Nat
      /\ HourlyMaximum * y \in Nat
  <2>1. HourlyMaximum <= HourlyMaximum
    BY <1>3
  <2>. QED
    BY <1>3, <1>5, <2>1, Products
<1>7. Total(db) + Spent <= HourlyMaximum * x
  BY <1>1, <1>4 DEF Backed
<1>. QED
  BY <1>1, <1>3, <1>4, <1>6, <1>7

\* The service keeps the ledger for any costs, durations and engagement: over overlapping
\* operations, failed writes and restarts, an operation is performed only if it was paid for,
\* and paid for only out of what was earned.
THEOREM LedgerKept == Spec => ImplementsLedger
<1>1. Init => Ledger!LedgerInit
  BY DEF Init, Ledger!LedgerInit
<1>2. BudgetInv /\ [Next]_vars => [Ledger!LedgerNext]_(Ledger!ledgerVars)
  <2>. SUFFICES ASSUME BudgetInv, [Next]_vars
                PROVE  [Ledger!LedgerNext]_(Ledger!ledgerVars)
    OBVIOUS
  <2>. USE DEF Ledger!ledgerVars, Ledger!LedgerNext
  <2>1. CASE GetBudget \/ Reserve
    <3>1. PICK op \in Operations : SyncCache(op)
      BY <2>1 DEF GetBudget, Reserve, Operations
    <3>2. UNCHANGED <<now, paid, consumed>>
      BY <2>1, <3>1, SyncCacheStep DEF GetBudget, Reserve
    <3>. QED
      BY <3>2
  <2>2. CASE Consume
    <3>1. UNCHANGED now
      BY <2>2 DEF Consume
    <3>2. CASE consumed' = consumed
      <4>1. UNCHANGED paid
        <5>1. CASE reservations > 0
          BY <2>2, <5>1 DEF Consume, TakeReservation
        <5>2. CASE ~(reservations > 0)
          <6>1. "consume" \in Operations
            BY DEF Operations
          <6>. QED
            BY <2>2, <5>2, <6>1, SyncCacheStep DEF Consume
        <5>. QED
          BY <5>1, <5>2
      <4>. QED
        BY <3>1, <3>2, <4>1
    <3>3. CASE consumed' # consumed
      <4>1. paid' = paid /\ consumed' = consumed + 1 /\ consumed < paid
        BY <2>2, <3>3, ConsumeStep
      <4>. QED
        BY <3>1, <4>1 DEF Ledger!ConsumeReserved
    <3>. QED
      BY <3>2, <3>3
  <2>3. CASE HandleReply
    <3>1. UNCHANGED now
      BY <2>3 DEF HandleReply
    <3>2. CASE UNCHANGED <<paid, consumed>>
      BY <3>1, <3>2
    <3>3. CASE /\ paid' = paid + 1 /\ consumed' \in {consumed, consumed + 1}
               /\ OperationCost * (paid + 1) <= Spent
      <4>1. OperationCost * (paid + 1) \in Nat \ {0} /\ Spent \in Nat
        <5>1. OperationCost \in Nat \ {0}
          BY BudgetAssumption
        <5>. QED
          BY <5>1, SpentTypes
      <4>2. Spent <= HourlyMaximum * (Duration + now)
        <5>1. Spent # 0
          BY <3>3, <4>1
        <5>. QED
          BY <5>1, SpentIsEarned
      <4>3. HourlyMaximum * (Duration + now) \in Nat
        <5>1. HourlyMaximum \in Nat /\ Duration + now \in Nat
          BY ConstantsFacts DEF BudgetInv, OuterOK
        <5>. QED
          BY <5>1, Products
      <4>4. OperationCost * (paid + 1) <= HourlyMaximum * (Duration + now)
        BY <3>3, <4>1, <4>2, <4>3
      <4>. QED
        BY <3>1, <3>3, <4>4
           DEF Ledger!Reserve, Ledger!ConsumeDirectly, Ledger!Earned
    <3>. QED
      BY <2>3, <3>2, <3>3, HandleReplyStep
  <2>4. CASE RunTask
    <3>1. UNCHANGED <<now, paid, consumed>>
      BY <2>4, RunTaskStep DEF RunTask
    <3>. QED
      BY <3>1
  <2>5. CASE Tick
    BY <2>5, TickStep DEF Ledger!Earn
  <2>6. CASE Restart
    <3>1. UNCHANGED <<now, paid, consumed>>
      BY <2>6, RestartStep
    <3>. QED
      BY <3>1
  <2>7. CASE UNCHANGED vars
    BY <2>7 DEF vars, history
  <2>. QED
    BY <2>1, <2>2, <2>3, <2>4, <2>5, <2>6, <2>7 DEF Next
<1>. QED
  BY <1>1, <1>2, BudgetInvariant, PTL DEF Spec, ImplementsLedger, Ledger!LedgerSpec

\* A spend that is covered takes exactly its amount from what the chunks come to, however
\* many it erases and whichever it takes the rest of: the DCHECK that the bill is settled.
THEOREM ExactSpend ==
    ASSUME NEW info \in BudgetInfo, NEW amount \in Nat, Total(info) >= amount
    PROVE  Total(Spend(info, amount)) = Total(info) - amount
<1>1. Total(Spend(info, amount)) + amount = Total(info) /\ Spend(info, amount) \in BudgetInfo
  BY SpendFacts
<1>2. Total(Spend(info, amount)) \in Nat /\ Total(info) \in Nat
  BY <1>1, AmountsFacts
<1>. QED
  BY <1>1, <1>2

================================================================================
