------------------------ MODULE ProcessSingleton_proofs ------------------------
(***************************************************************************)
(* The browser that serves starts, for any number of connections and       *)
(* descriptors: no task of its two threads meets a reader that was         *)
(* deleted, no descriptor is shared or lost while reads succeed, and no    *)
(* acknowledged request is forgotten.                                      *)
(*                                                                         *)
(* The starts, for any number of processes, retries and mishaps: a second  *)
(* browser gets in only where a lock was taken away, none does while       *)
(* nothing goes wrong, and no start quits before its request was accepted. *)
(***************************************************************************)
EXTENDS ProcessSingleton, SingletonWatcher,
        SequenceTheorems, FiniteSetTheorems, WellFoundedInduction, TLAPS

-----------------------------------------------------------------------------
(* Sequences *)

LEMMA SeqFacts ==
    ASSUME NEW S, NEW s \in Seq(S)
    PROVE  /\ Len(s) \in Nat /\ DOMAIN s = 1..Len(s) /\ ToSet(s) \subseteq S
           /\ \A i \in DOMAIN s : s[i] \in S
<1>1. Len(s) \in Nat /\ DOMAIN s = 1..Len(s)
  BY LenProperties
<1>2. \A i \in DOMAIN s : s[i] \in S
  BY <1>1, ElementOfSeq
<1>. QED
  BY <1>1, <1>2 DEF ToSet

LEMMA TailFacts ==
    ASSUME NEW S, NEW s \in Seq(S), s # <<>>
    PROVE  /\ Head(s) \in S /\ Tail(s) \in Seq(S)
           /\ ToSet(s) = {Head(s)} \cup ToSet(Tail(s))
           /\ IsInjective(s) => IsInjective(Tail(s)) /\ Head(s) \notin ToSet(Tail(s))
<1>1. /\ Head(s) \in S /\ Tail(s) \in Seq(S) /\ Len(Tail(s)) = Len(s) - 1
      /\ \A i \in 1..Len(Tail(s)) : Tail(s)[i] = s[i + 1]
  BY HeadTailProperties
<1>2. Len(s) \in Nat \ {0} /\ DOMAIN s = 1..Len(s) /\ DOMAIN Tail(s) = 1..Len(Tail(s))
  BY <1>1, LenProperties, EmptySeq
<1>3. 1 \in DOMAIN s /\ s[1] = Head(s)
  BY <1>2
<1>4. \A i \in DOMAIN Tail(s) : i + 1 \in DOMAIN s /\ Tail(s)[i] = s[i + 1] /\ i + 1 # 1
  BY <1>1, <1>2
<1>5. \A i \in DOMAIN s : i = 1 \/ (i - 1 \in DOMAIN Tail(s) /\ Tail(s)[i - 1] = s[i])
  BY <1>1, <1>2
<1>6. ToSet(s) = {Head(s)} \cup ToSet(Tail(s))
  <2>1. \A i \in DOMAIN s : s[i] = Head(s) \/ s[i] \in ToSet(Tail(s))
    BY <1>3, <1>5 DEF ToSet
  <2>2. \A i \in DOMAIN Tail(s) : Tail(s)[i] \in ToSet(s)
    BY <1>4 DEF ToSet
  <2>3. Head(s) \in ToSet(s)
    BY <1>3 DEF ToSet
  <2>. QED
    BY <2>1, <2>2, <2>3 DEF ToSet
<1>7. ASSUME IsInjective(s)
      PROVE  IsInjective(Tail(s)) /\ Head(s) \notin ToSet(Tail(s))
  <2>1. ASSUME NEW i \in DOMAIN Tail(s), NEW j \in DOMAIN Tail(s), Tail(s)[i] = Tail(s)[j]
        PROVE  i = j
    <3>1. i + 1 = j + 1
      BY <1>4, <1>7, <2>1 DEF IsInjective
    <3>. QED
      BY <1>1, <1>2, <3>1
  <2>2. \A i \in DOMAIN Tail(s) : Tail(s)[i] # s[1]
    BY <1>3, <1>4, <1>7 DEF IsInjective
  <2>. QED
    BY <1>3, <2>1, <2>2 DEF IsInjective, ToSet
<1>. QED
  BY <1>1, <1>6, <1>7

LEMMA AppendFacts ==
    ASSUME NEW S, NEW s \in Seq(S), NEW e \in S
    PROVE  /\ Append(s, e) \in Seq(S) /\ ToSet(Append(s, e)) = ToSet(s) \cup {e}
           /\ IsInjective(s) /\ e \notin ToSet(s) => IsInjective(Append(s, e))
<1>. DEFINE q == Append(s, e)
            n == Len(s) + 1
<1>1. /\ q \in Seq(S) /\ Len(q) = n /\ q[n] = e
      /\ \A i \in 1..Len(s) : q[i] = s[i]
  BY AppendProperties
<1>. HIDE DEF q
<1>2. Len(s) \in Nat /\ DOMAIN s = 1..Len(s) /\ DOMAIN q = 1..n
  BY <1>1, LenProperties
<1>3. DOMAIN q = DOMAIN s \cup {n} /\ \A i \in DOMAIN s : q[i] = s[i]
  BY <1>1, <1>2
<1>. HIDE DEF n
<1>4. ToSet(q) = ToSet(s) \cup {e}
  BY <1>1, <1>3 DEF ToSet
<1>5. IsInjective(s) /\ e \notin ToSet(s) => IsInjective(q)
  BY <1>1, <1>3 DEF IsInjective, ToSet
<1>. QED
  BY <1>1, <1>4, <1>5 DEF q

LEMMA ConcatFacts ==
    ASSUME NEW S, NEW s \in Seq(S), NEW t \in Seq(S)
    PROVE  /\ s \o t \in Seq(S) /\ ToSet(s \o t) = ToSet(s) \cup ToSet(t)
           /\ IsInjective(s) /\ IsInjective(t) /\ ToSet(s) \cap ToSet(t) = {}
                => IsInjective(s \o t)
<1>. DEFINE w == s \o t
<1>1. /\ w \in Seq(S) /\ Len(w) = Len(s) + Len(t)
      /\ \A i \in 1..(Len(s) + Len(t)) : w[i] = IF i <= Len(s) THEN s[i] ELSE t[i - Len(s)]
  BY ConcatProperties
<1>. HIDE DEF w
<1>2. /\ Len(s) \in Nat /\ Len(t) \in Nat
      /\ DOMAIN s = 1..Len(s) /\ DOMAIN t = 1..Len(t) /\ DOMAIN w = 1..(Len(s) + Len(t))
  BY <1>1, LenProperties
<1>3. \A i \in DOMAIN w : \/ i \in DOMAIN s /\ i <= Len(s) /\ w[i] = s[i]
                          \/ i - Len(s) \in DOMAIN t /\ i > Len(s) /\ w[i] = t[i - Len(s)]
  BY <1>1, <1>2
<1>4. /\ \A i \in DOMAIN s : i \in DOMAIN w /\ w[i] = s[i]
      /\ \A i \in DOMAIN t : i + Len(s) \in DOMAIN w /\ w[i + Len(s)] = t[i]
  BY <1>1, <1>2
<1>5. ToSet(w) = ToSet(s) \cup ToSet(t)
  BY <1>3, <1>4 DEF ToSet
<1>6. ASSUME IsInjective(s), IsInjective(t), ToSet(s) \cap ToSet(t) = {},
             NEW i \in DOMAIN w, NEW j \in DOMAIN w, w[i] = w[j]
      PROVE  i = j
  <2>1. /\ \A a \in DOMAIN s : s[a] \in ToSet(s)
        /\ \A a \in DOMAIN t : t[a] \in ToSet(t)
    BY DEF ToSet
  <2>2. CASE i <= Len(s) /\ j <= Len(s)
    BY <1>2, <1>3, <1>6, <2>2 DEF IsInjective
  <2>3. CASE i > Len(s) /\ j > Len(s)
    <3>1. i - Len(s) = j - Len(s)
      BY <1>2, <1>3, <1>6, <2>3 DEF IsInjective
    <3>. QED
      BY <1>2, <3>1
  <2>4. CASE i <= Len(s) /\ j > Len(s)
    <3>1. w[i] \in ToSet(s) /\ w[j] \in ToSet(t)
      BY <1>2, <1>3, <2>1, <2>4
    <3>. QED
      BY <1>6, <3>1
  <2>5. CASE i > Len(s) /\ j <= Len(s)
    <3>1. w[j] \in ToSet(s) /\ w[i] \in ToSet(t)
      BY <1>2, <1>3, <2>1, <2>5
    <3>. QED
      BY <1>6, <3>1
  <2>. QED
    BY <1>2, <2>2, <2>3, <2>4, <2>5
<1>7. IsInjective(s) /\ IsInjective(t) /\ ToSet(s) \cap ToSet(t) = {} => IsInjective(w)
  BY <1>6 DEF IsInjective
<1>. QED
  BY <1>1, <1>5, <1>7 DEF w

-----------------------------------------------------------------------------
(* What Unlock replays *)

LEMMA Smallest ==
    ASSUME NEW T \in SUBSET Nat, T # {}
    PROVE  \E n \in T : \A m \in T : n <= m
<1>1. PICK n \in T : \A m \in T : <<m, n>> \notin OpToRel(<, Nat)
  BY NatLessThanWellFounded, WFMin
<1>2. \A m \in T : ~(m < n)
  BY <1>1 DEF OpToRel
<1>. QED
  BY <1>2

\* Counting the elements of a set of numbers up to each of them numbers them.
LEMMA Ranks ==
    ASSUME NEW T \in SUBSET Nat, IsFiniteSet(T),
           NEW rank, rank = [i \in T |-> Cardinality({j \in T : j <= i})]
    PROVE  /\ rank \in [T -> 1..Cardinality(T)]
           /\ \A i, j \in T : i < j <=> rank[i] < rank[j]
           /\ \A n \in 1..Cardinality(T) : \E i \in T : rank[i] = n
<1>. DEFINE upto(i) == {j \in T : j <= i}
<1>1. ASSUME NEW i \in T
      PROVE  /\ IsFiniteSet(upto(i)) /\ Cardinality(upto(i)) \in Nat
             /\ Cardinality(upto(i)) <= Cardinality(T) /\ Cardinality(upto(i)) # 0
  <2>1. upto(i) \in SUBSET T /\ i \in upto(i)
    OBVIOUS
  <2>2. IsFiniteSet(upto(i)) /\ Cardinality(upto(i)) <= Cardinality(T)
    BY <2>1, FS_Subset
  <2>. HIDE DEF upto
  <2>3. Cardinality(upto(i)) \in Nat /\ (Cardinality(upto(i)) = 0 <=> upto(i) = {})
    BY <2>2, FS_CardinalityType, FS_EmptySet
  <2>. QED
    BY <2>1, <2>2, <2>3
<1>2. Cardinality(T) \in Nat
  BY FS_CardinalityType
<1>3. \A i \in T : rank[i] = Cardinality(upto(i))
  OBVIOUS
<1>4. rank \in [T -> 1..Cardinality(T)]
  <2>1. \A i \in T : Cardinality(upto(i)) \in 1..Cardinality(T)
    <3>. HIDE DEF upto
    <3>. QED
      BY <1>1, <1>2
  <2>. QED
    BY <2>1
<1>5. ASSUME NEW i \in T, NEW j \in T, i < j
      PROVE  rank[i] < rank[j]
  <2>1. upto(i) \in SUBSET upto(j) /\ j \in upto(j) /\ j \notin upto(i)
    <3>1. i \in Nat /\ j \in Nat /\ ~(j <= i) /\ j <= j
      BY <1>5
    <3>2. \A m \in T : m <= i => m <= j
      BY <1>5, <3>1
    <3>. QED
      BY <3>1, <3>2
  <2>. HIDE DEF upto
  <2>2. Cardinality(upto(i)) <= Cardinality(upto(j)) /\ Cardinality(upto(i)) # Cardinality(upto(j))
    BY <1>1, <2>1, FS_Subset
  <2>. QED
    BY <1>1, <1>3, <2>2
<1>6. \A i, j \in T : i < j <=> rank[i] < rank[j]
  <2>. SUFFICES ASSUME NEW i \in T, NEW j \in T, rank[i] < rank[j]
                PROVE  i < j
    BY <1>5
  <2>1. i \in Nat /\ j \in Nat /\ rank[i] \in Nat /\ rank[j] \in Nat
    BY <1>2, <1>4
  <2>2. i # j /\ ~(j < i)
    BY <1>5, <2>1
  <2>. QED
    BY <2>1, <2>2
<1>7. \A n \in 1..Cardinality(T) : \E i \in T : rank[i] = n
  <2>1. ASSUME NEW i \in T, NEW j \in T, rank[i] = rank[j]
        PROVE  i = j
    <3>1. ~(i < j) /\ ~(j < i)
      BY <1>2, <1>4, <1>6, <2>1
    <3>. QED
      BY <3>1
  <2>2. rank \in Injection(T, 1..Cardinality(T))
    BY <1>4, <2>1 DEF Injection, IsInjective
  <2>3. IsFiniteSet(1..Cardinality(T)) /\ Cardinality(1..Cardinality(T)) = Cardinality(T)
    BY <1>2, FS_Interval
  <2>4. rank \in Surjection(T, 1..Cardinality(T))
    BY <2>2, <2>3, FS_Injection
  <2>. QED
    BY <2>4 DEF Surjection
<1>. QED
  BY <1>4, <1>6, <1>7

\* Every saved request is replayed, none of them twice, and in the order of arrival.
LEMMA ReplayFacts ==
    ASSUME NEW S, NEW s \in Seq(S)
    PROVE  /\ Replay(s) \in Seq(S) /\ ToSet(Replay(s)) = ToSet(s) /\ IsInjective(Replay(s))
           /\ \A m, n \in DOMAIN Replay(s) : m < n =>
                 \E i, j \in FirstArrivals(s) : i < j /\ Replay(s)[m] = s[i] /\ Replay(s)[n] = s[j]
<1>. DEFINE T == FirstArrivals(s)
            rank == [i \in T |-> Cardinality({j \in T : j <= i})]
            nth(n) == CHOOSE i \in T : Cardinality({j \in T : j <= i}) = n
            R == Replay(s)
<1>1. Len(s) \in Nat /\ DOMAIN s = 1..Len(s) /\ \A i \in DOMAIN s : s[i] \in S
  BY SeqFacts
<1>2. T \in SUBSET DOMAIN s /\ T \in SUBSET Nat /\ IsFiniteSet(T) /\ Cardinality(T) \in Nat
  <2>1. T \in SUBSET DOMAIN s
    BY DEF FirstArrivals
  <2>2. IsFiniteSet(DOMAIN s)
    BY <1>1, FS_Interval
  <2>. HIDE DEF T
  <2>. QED
    BY <1>1, <2>1, <2>2, FS_Subset, FS_CardinalityType
<1>3. R = [n \in 1..Cardinality(T) |-> s[nth(n)]]
  BY DEF Replay
<1>. HIDE DEF T
<1>4. /\ rank \in [T -> 1..Cardinality(T)]
      /\ \A i, j \in T : i < j <=> rank[i] < rank[j]
      /\ \A n \in 1..Cardinality(T) : \E i \in T : rank[i] = n
  BY <1>2, Ranks
<1>5. ASSUME NEW n \in 1..Cardinality(T)
      PROVE  nth(n) \in T /\ rank[nth(n)] = n
  <2>1. \E i \in T : Cardinality({j \in T : j <= i}) = n
    BY <1>4
  <2>2. nth(n) \in T /\ Cardinality({j \in T : j <= nth(n)}) = n
    BY <2>1
  <2>. HIDE DEF nth
  <2>. QED
    BY <2>2
<1>. HIDE DEF rank, nth
<1>6. \A i \in T : rank[i] \in 1..Cardinality(T) /\ nth(rank[i]) = i
  <2>. SUFFICES ASSUME NEW i \in T
                PROVE  rank[i] \in 1..Cardinality(T) /\ nth(rank[i]) = i
    OBVIOUS
  <2>1. rank[i] \in 1..Cardinality(T)
    BY <1>4
  <2>2. nth(rank[i]) \in T /\ rank[nth(rank[i])] = rank[i]
    BY <1>5, <2>1
  <2>3. nth(rank[i]) \in Nat /\ i \in Nat /\ rank[i] \in Nat
    BY <1>2, <2>1, <2>2
  <2>4. ~(nth(rank[i]) < i) /\ ~(i < nth(rank[i]))
    BY <1>4, <2>2, <2>3
  <2>. QED
    BY <2>1, <2>3, <2>4
<1>. HIDE DEF R
<1>7. DOMAIN R = 1..Cardinality(T) /\ \A n \in DOMAIN R : R[n] = s[nth(n)] /\ nth(n) \in T
  BY <1>3, <1>5
<1>8. R \in Seq(S)
  <2>1. R \in [1..Cardinality(T) -> S]
    BY <1>1, <1>2, <1>3, <1>5
  <2>. QED
    BY <1>2, <2>1, SeqDef
<1>9. \A i \in DOMAIN s : \E k \in T : s[k] = s[i]
  <2>. SUFFICES ASSUME NEW i \in DOMAIN s
                PROVE  \E k \in T : s[k] = s[i]
    OBVIOUS
  <2>. DEFINE same == {k \in DOMAIN s : s[k] = s[i]}
  <2>1. same \in SUBSET Nat /\ same # {}
    BY <1>1
  <2>2. PICK k \in same : \A m \in same : k <= m
    BY <2>1, Smallest
  <2>3. \A j \in 1..(k - 1) : j \in DOMAIN s /\ ~(k <= j)
    BY <1>1, <2>2
  <2>4. k \in FirstArrivals(s)
    BY <2>2, <2>3 DEF FirstArrivals
  <2>. QED
    BY <2>2, <2>4 DEF T
<1>10. ToSet(R) = ToSet(s)
  <2>1. \A r \in ToSet(R) : r \in ToSet(s)
    BY <1>2, <1>7 DEF ToSet
  <2>2. ASSUME NEW r \in ToSet(s)
        PROVE  r \in ToSet(R)
    <3>1. PICK i \in DOMAIN s : r = s[i]
      BY <2>2 DEF ToSet
    <3>2. PICK k \in T : s[k] = r
      BY <1>9, <3>1
    <3>3. rank[k] \in DOMAIN R /\ R[rank[k]] = r
      BY <1>6, <1>7, <3>2
    <3>. QED
      BY <3>3 DEF ToSet
  <2>. QED
    BY <2>1, <2>2
<1>11. IsInjective(R)
  <2>. SUFFICES ASSUME NEW m \in DOMAIN R, NEW n \in DOMAIN R, R[m] = R[n]
                PROVE  m = n
    BY DEF IsInjective
  <2>1. /\ nth(m) \in T /\ nth(n) \in T /\ s[nth(m)] = s[nth(n)]
        /\ nth(m) \in Nat /\ nth(n) \in Nat /\ nth(m) >= 1 /\ nth(n) >= 1
    BY <1>1, <1>2, <1>7
  <2>2. \A i \in T : \A j \in 1..(i - 1) : s[j] # s[i]
    BY DEF T, FirstArrivals
  <2>3. ~(nth(m) < nth(n)) /\ ~(nth(n) < nth(m))
    BY <2>1, <2>2
  <2>4. nth(m) = nth(n)
    BY <2>1, <2>3
  <2>. QED
    BY <1>5, <1>7, <2>4
<1>12. ASSUME NEW m \in DOMAIN R, NEW n \in DOMAIN R, m < n
       PROVE  \E i, j \in T : i < j /\ R[m] = s[i] /\ R[n] = s[j]
  <2>1. nth(m) < nth(n)
    BY <1>4, <1>5, <1>7, <1>12
  <2>. QED
    BY <1>7, <2>1
<1>. QED
  BY <1>8, <1>10, <1>11, <1>12 DEF R, T

-----------------------------------------------------------------------------
(* The invariant *)

\* Tasks are for readers that exist, one task for each, and a timer runs only for a
\* reader without one.
Tasks == ToSet(uiTasks) \cup ToSet(ioTasks)
TasksInv ==
    /\ IsInjective(uiTasks) /\ IsInjective(ioTasks)
    /\ ToSet(uiTasks) \cap ToSet(ioTasks) = {}
    /\ Tasks \subseteq readers
    /\ timers \subseteq readers \ Tasks
    /\ watched \subseteq timers
    /\ \A c \in readers : input[c] # "unborn"

\* Until a read fails, the open descriptors and the readers belong to each other.
DescriptorsInv ==
    NoReadFailed =>
        /\ \A c \in readers : socket[fd[c]] = c
        /\ \A f \in Fds : socket[f] # Closed => socket[f] \in readers /\ fd[socket[f]] = f

WatcherInv == WatcherTypeOK /\ TasksInv /\ DescriptorsInv /\ AcknowledgedIsKept

LEMMA InitWatcher == WatcherInit => WatcherInv
<1>. SUFFICES ASSUME WatcherInit PROVE WatcherInv
  OBVIOUS
<1>1. /\ <<>> \in Seq(Conns) /\ <<>> \in Seq(Requests)
      /\ ToSet(<<>>) = {} /\ IsInjective(<<>>)
  BY EmptySeq DEF ToSet, IsInjective
<1>2. WatcherTypeOK
  <2>1. 1 \in Fds
    BY WatcherBoundsAssumption DEF Fds
  <2>2. socket \in [Fds -> Conns \cup {Closed}] /\ fd \in [Conns -> Fds]
    BY <2>1 DEF WatcherInit
  <2>. QED
    BY <1>1, <2>2 DEF WatcherInit, WatcherTypeOK
<1>3. TasksInv
  BY <1>1 DEF WatcherInit, TasksInv, Tasks
<1>4. DescriptorsInv
  BY DEF WatcherInit, DescriptorsInv
<1>5. AcknowledgedIsKept
  BY DEF WatcherInit, AcknowledgedIsKept
<1>. QED
  BY <1>2, <1>3, <1>4, <1>5 DEF WatcherInv

\* What was acknowledged stays kept when nothing is answered and nothing is dropped.
LEMMA KeptPreserves ==
    ASSUME AcknowledgedIsKept, NoReadFailed' => NoReadFailed,
           UNCHANGED <<request, answer>>,
           ToSet(opened) \cup ToSet(saved) \subseteq ToSet(opened') \cup ToSet(saved'),
           shown \subseteq shown'
    PROVE  AcknowledgedIsKept'
BY DEF AcknowledgedIsKept

-----------------------------------------------------------------------------
(* The IO thread *)

LEMMA AcceptStep ==
    ASSUME WatcherInv, NEW c \in Conns, Accept(c)
    PROVE  WatcherInv'
<1>. USE DEF WatcherInv
<1>1. PICK f \in Fds : /\ socket[f] = Closed
                       /\ socket' = [socket EXCEPT ![f] = c]
                       /\ fd' = [fd EXCEPT ![c] = f]
  BY DEF Accept
<1>2. /\ input[c] = "unborn" /\ input' = [input EXCEPT ![c] = "waiting"]
      /\ readers' = readers \cup {c} /\ timers' = timers \cup {c} /\ watched' = watched \cup {c}
      /\ UNCHANGED <<request, uiTasks, ioTasks, locked, saved, dialog, closing, opened, shown,
                     answer>>
  BY DEF Accept, ui
<1>3. c \notin readers /\ c # Closed
  BY <1>2, ClosedAssumption DEF TasksInv
<1>4. WatcherTypeOK'
  BY <1>1, <1>2 DEF WatcherTypeOK
<1>5. /\ \A d \in Conns : d # c => fd'[d] = fd[d] /\ input'[d] = input[d]
      /\ fd'[c] = f /\ input'[c] = "waiting"
      /\ \A g \in Fds : g # f => socket'[g] = socket[g]
      /\ socket'[f] = c
  BY <1>1, <1>2 DEF WatcherTypeOK
<1>6. TasksInv'
  BY <1>2, <1>3, <1>5 DEF TasksInv, Tasks, WatcherTypeOK
<1>7. NoReadFailed' => NoReadFailed
  BY <1>2, <1>5 DEF NoReadFailed
<1>8. DescriptorsInv'
  <2>. SUFFICES ASSUME NoReadFailed
                PROVE  /\ \A d \in readers' : socket'[fd'[d]] = d
                       /\ \A g \in Fds : socket'[g] # Closed =>
                             socket'[g] \in readers' /\ fd'[socket'[g]] = g
    BY <1>7 DEF DescriptorsInv
  <2>1. ASSUME NEW d \in readers
        PROVE  socket'[fd'[d]] = d
    <3>1. d \in Conns /\ d # c /\ fd[d] \in Fds /\ socket[fd[d]] = d /\ d # Closed
      BY <1>3, ClosedAssumption DEF DescriptorsInv, WatcherTypeOK
    <3>2. fd[d] # f
      BY <1>1, <3>1
    <3>. QED
      BY <1>5, <3>1, <3>2
  <2>2. ASSUME NEW g \in Fds, g # f, socket'[g] # Closed
        PROVE  socket'[g] \in readers' /\ fd'[socket'[g]] = g
    <3>1. socket'[g] = socket[g] /\ socket[g] \in readers /\ fd[socket[g]] = g
      BY <1>5, <2>2 DEF DescriptorsInv
    <3>2. socket[g] \in Conns /\ socket[g] # c
      BY <1>3, <3>1 DEF WatcherTypeOK
    <3>. QED
      BY <1>2, <1>5, <3>1, <3>2
  <2>. QED
    BY <1>2, <1>5, <2>1, <2>2
<1>9. AcknowledgedIsKept'
  <2>. HIDE DEF WatcherInv
  <2>. QED
    BY <1>2, <1>7, KeptPreserves DEF WatcherInv
<1>. QED
  BY <1>4, <1>6, <1>8, <1>9

LEMMA ArriveStep ==
    ASSUME WatcherInv, NEW c \in Conns, Arrive(c)
    PROVE  WatcherInv'
<1>. USE DEF WatcherInv
<1>1. PICK kind \in {"valid", "invalid", "error"} : input' = [input EXCEPT ![c] = kind]
  BY DEF Arrive
<1>2. /\ UNCHANGED <<socket, fd, request, readers, timers, watched, uiTasks, ioTasks, locked, saved,
                     dialog, closing, opened, shown, answer>>
      /\ input[c] = "waiting"
  BY DEF Arrive, ui
<1>3. WatcherTypeOK'
  BY <1>1, <1>2 DEF WatcherTypeOK
<1>4. \A d \in Conns : /\ input'[d] = "unborn" => input[d] = "unborn"
                       /\ input[d] = "error" => input'[d] = "error"
  BY <1>1, <1>2 DEF WatcherTypeOK
<1>5. TasksInv'
  BY <1>2, <1>4 DEF TasksInv, Tasks, WatcherTypeOK
<1>6. NoReadFailed' => NoReadFailed
  BY <1>4 DEF NoReadFailed
<1>7. DescriptorsInv'
  BY <1>2, <1>6 DEF DescriptorsInv
<1>8. AcknowledgedIsKept'
  <2>. HIDE DEF WatcherInv
  <2>. QED
    BY <1>2, <1>6, KeptPreserves DEF WatcherInv
<1>. QED
  BY <1>3, <1>5, <1>7, <1>8

\* A reader without a task, or whose task is being run, is deleted.
LEMMA RemovePreserves ==
    ASSUME WatcherInv, NEW c \in Conns, c \in readers, RemoveSocketReader(c),
           UNCHANGED <<fd, input, request, locked, saved, dialog, closing, opened, shown, answer>>,
           uiTasks' \in Seq(Conns), ioTasks' \in Seq(Conns),
           IsInjective(uiTasks'), IsInjective(ioTasks'),
           ToSet(uiTasks') \subseteq ToSet(uiTasks) \ {c},
           ToSet(ioTasks') \subseteq ToSet(ioTasks) \ {c}
    PROVE  WatcherInv'
<1>. USE DEF WatcherInv
<1>1. /\ socket' = [socket EXCEPT ![fd[c]] = Closed]
      /\ readers' = readers \ {c} /\ timers' = timers \ {c} /\ watched' = watched \ {c}
  BY DEF RemoveSocketReader, CloseSocket
<1>2. WatcherTypeOK'
  BY <1>1 DEF WatcherTypeOK
<1>3. TasksInv'
  BY <1>1 DEF TasksInv, Tasks
<1>4. NoReadFailed' <=> NoReadFailed
  BY DEF NoReadFailed
<1>5. DescriptorsInv'
  <2>. SUFFICES ASSUME NoReadFailed
                PROVE  /\ \A d \in readers' : socket'[fd[d]] = d
                       /\ \A g \in Fds : socket'[g] # Closed =>
                             socket'[g] \in readers' /\ fd[socket'[g]] = g
    BY <1>4 DEF DescriptorsInv
  <2>1. fd[c] \in Fds /\ socket[fd[c]] = c
    BY DEF DescriptorsInv, WatcherTypeOK
  <2>2. \A g \in Fds : socket'[g] = IF g = fd[c] THEN Closed ELSE socket[g]
    BY <1>1, <2>1 DEF WatcherTypeOK
  <2>3. ASSUME NEW d \in readers'
        PROVE  socket'[fd[d]] = d
    <3>1. d \in readers /\ d # c /\ fd[d] \in Fds /\ socket[fd[d]] = d
      BY <1>1, <2>3 DEF DescriptorsInv, WatcherTypeOK
    <3>. QED
      BY <2>1, <2>2, <3>1
  <2>4. ASSUME NEW g \in Fds, socket'[g] # Closed
        PROVE  socket'[g] \in readers' /\ fd[socket'[g]] = g
    <3>1. g # fd[c] /\ socket'[g] = socket[g] /\ socket[g] \in readers /\ fd[socket[g]] = g
      BY <2>2, <2>4 DEF DescriptorsInv
    <3>. QED
      BY <1>1, <3>1
  <2>. QED
    BY <2>3, <2>4
<1>6. AcknowledgedIsKept'
  <2>. HIDE DEF WatcherInv
  <2>. QED
    BY <1>4, KeptPreserves DEF WatcherInv
<1>. QED
  BY <1>2, <1>3, <1>5, <1>6

LEMMA ReadStep ==
    ASSUME WatcherInv, NEW c \in Conns, Read(c)
    PROVE  WatcherInv'
<1>. USE DEF WatcherInv
<1>1. /\ c \in watched /\ c \in timers /\ c \in readers /\ c \notin Tasks
      /\ UNCHANGED <<fd, input, request, ioTasks, locked, saved, dialog, closing, opened, shown,
                     answer>>
  BY DEF Read, TasksInv, ui
<1>2. NoReadFailed' <=> NoReadFailed
  BY <1>1 DEF NoReadFailed
<1>3. AcknowledgedIsKept'
  <2>. HIDE DEF WatcherInv
  <2>. QED
    BY <1>1, <1>2, KeptPreserves DEF WatcherInv
<1>4. CASE input[c] = "error"
  <2>1. /\ socket' = [socket EXCEPT ![fd[c]] = Closed]
        /\ UNCHANGED <<readers, timers, watched, uiTasks>>
    BY <1>4 DEF Read, CloseSocket
  <2>2. WatcherTypeOK'
    BY <1>1, <2>1 DEF WatcherTypeOK
  <2>3. TasksInv'
    BY <1>1, <2>1 DEF TasksInv, Tasks
  <2>4. DescriptorsInv'
    BY <1>2, <1>4 DEF DescriptorsInv, NoReadFailed
  <2>. QED
    BY <1>3, <2>2, <2>3, <2>4
<1>5. CASE input[c] = "invalid"
  <2>1. RemoveSocketReader(c) /\ UNCHANGED uiTasks
    BY <1>5 DEF Read
  <2>2. /\ uiTasks' \in Seq(Conns) /\ ioTasks' \in Seq(Conns)
        /\ IsInjective(uiTasks') /\ IsInjective(ioTasks')
        /\ ToSet(uiTasks') \subseteq ToSet(uiTasks) \ {c}
        /\ ToSet(ioTasks') \subseteq ToSet(ioTasks) \ {c}
    BY <1>1, <2>1 DEF WatcherTypeOK, TasksInv, Tasks
  <2>. HIDE DEF WatcherInv
  <2>. QED
    BY <1>1, <2>1, <2>2, RemovePreserves
<1>6. CASE input[c] = "valid"
  <2>1. /\ uiTasks' = Append(uiTasks, c) /\ timers' = timers \ {c} /\ watched' = watched \ {c}
        /\ UNCHANGED <<readers, socket>>
    BY <1>6 DEF Read, PostMessage
  <2>2. /\ uiTasks' \in Seq(Conns) /\ ToSet(uiTasks') = ToSet(uiTasks) \cup {c}
        /\ IsInjective(uiTasks')
    BY <1>1, <2>1, AppendFacts DEF WatcherTypeOK, TasksInv, Tasks
  <2>3. WatcherTypeOK'
    BY <1>1, <2>1, <2>2 DEF WatcherTypeOK
  <2>4. TasksInv'
    BY <1>1, <2>1, <2>2 DEF TasksInv, Tasks
  <2>5. DescriptorsInv'
    BY <1>1, <1>2, <2>1 DEF DescriptorsInv
  <2>. QED
    BY <1>3, <2>3, <2>4, <2>5
<1>. QED
  BY <1>4, <1>5, <1>6 DEF Read

LEMMA TimerFiresStep ==
    ASSUME WatcherInv, NEW c \in Conns, TimerFires(c)
    PROVE  WatcherInv'
<1>1. /\ c \in readers /\ c \notin Tasks /\ RemoveSocketReader(c)
      /\ UNCHANGED <<fd, input, request, uiTasks, ioTasks, locked, saved, dialog, closing, opened,
                     shown, answer>>
  BY DEF WatcherInv, TasksInv, TimerFires, ui
<1>2. /\ uiTasks' \in Seq(Conns) /\ ioTasks' \in Seq(Conns)
      /\ IsInjective(uiTasks') /\ IsInjective(ioTasks')
      /\ ToSet(uiTasks') \subseteq ToSet(uiTasks) \ {c}
      /\ ToSet(ioTasks') \subseteq ToSet(ioTasks) \ {c}
  BY <1>1 DEF WatcherInv, WatcherTypeOK, TasksInv, Tasks
<1>. QED
  BY <1>1, <1>2, RemovePreserves

LEMMA RunIoTaskStep ==
    ASSUME WatcherInv, RunIoTask
    PROVE  WatcherInv'
<1>. DEFINE c == Head(ioTasks)
<1>1. /\ ioTasks # <<>> /\ RemoveSocketReader(c) /\ ioTasks' = Tail(ioTasks)
      /\ UNCHANGED <<fd, input, request, uiTasks, locked, saved, dialog, closing, opened, shown,
                     answer>>
  BY DEF RunIoTask, ui
<1>2. /\ c \in Conns /\ ioTasks' \in Seq(Conns) /\ IsInjective(ioTasks')
      /\ ToSet(ioTasks) = {c} \cup ToSet(ioTasks') /\ c \notin ToSet(ioTasks')
  BY <1>1, TailFacts DEF WatcherInv, WatcherTypeOK, TasksInv
<1>. HIDE DEF c
<1>3. c \in readers /\ c \notin ToSet(uiTasks)
  BY <1>2 DEF WatcherInv, TasksInv, Tasks
<1>4. uiTasks' \in Seq(Conns) /\ IsInjective(uiTasks')
  BY <1>1 DEF WatcherInv, WatcherTypeOK, TasksInv
<1>. QED
  BY <1>1, <1>2, <1>3, <1>4, RemovePreserves

-----------------------------------------------------------------------------
(* The UI thread *)

\* A request is acknowledged when it is on its way to a window, or a dialog stands for it.
LEMMA HandleMessageStep ==
    ASSUME WatcherInv, HandleMessage
    PROVE  WatcherInv'
<1>. USE DEF WatcherInv
<1>. DEFINE c == Head(uiTasks)
            message == IF Refused THEN "shutdown" ELSE "ack"
<1>1. /\ uiTasks # <<>> /\ uiTasks' = Tail(uiTasks) /\ ioTasks' = Append(ioTasks, c)
      /\ Notify(c) /\ FinishWithACK(c, message)
      /\ UNCHANGED <<socket, fd, input, request, readers, timers, watched, locked, dialog, closing>>
  BY DEF HandleMessage, io
<1>2. /\ c \in Conns /\ uiTasks' \in Seq(Conns) /\ IsInjective(uiTasks')
      /\ ToSet(uiTasks) = {c} \cup ToSet(uiTasks') /\ c \notin ToSet(uiTasks')
  BY <1>1, TailFacts DEF WatcherTypeOK, TasksInv
<1>3. message \in {"ack", "shutdown"}
  OBVIOUS
<1>. HIDE DEF c, message
<1>4. c \in readers /\ c \notin ToSet(ioTasks)
  BY <1>2 DEF TasksInv, Tasks
<1>5. /\ ioTasks' \in Seq(Conns) /\ ToSet(ioTasks') = ToSet(ioTasks) \cup {c}
      /\ IsInjective(ioTasks')
  BY <1>1, <1>2, <1>4, AppendFacts DEF WatcherTypeOK, TasksInv
<1>6. request[c] \in Requests
  BY <1>2 DEF WatcherTypeOK
<1>7. /\ saved' \in Seq(Requests) /\ opened' \in Seq(Requests) /\ shown' \subseteq Conns
      /\ ToSet(saved) \subseteq ToSet(saved') /\ ToSet(opened) \subseteq ToSet(opened')
      /\ shown \subseteq shown'
      /\ ~Refused => request[c] \in ToSet(opened') \cup ToSet(saved') \/ c \in shown'
  <2>1. /\ saved \in Seq(Requests) /\ Append(saved, request[c]) \in Seq(Requests)
        /\ ToSet(Append(saved, request[c])) = ToSet(saved) \cup {request[c]}
        /\ opened \in Seq(Requests) /\ Append(opened, request[c]) \in Seq(Requests)
        /\ ToSet(Append(opened, request[c])) = ToSet(opened) \cup {request[c]}
    BY <1>6, AppendFacts DEF WatcherTypeOK
  <2>2. CASE dialog
    <3>1. shown' = shown \cup {c} /\ UNCHANGED <<saved, opened>>
      BY <1>1, <2>2 DEF Notify
    <3>. QED
      BY <1>2, <2>1, <3>1 DEF WatcherTypeOK
  <2>3. CASE ~dialog /\ locked
    <3>1. saved' = Append(saved, request[c]) /\ UNCHANGED <<opened, shown>>
      BY <1>1, <2>3 DEF Notify
    <3>. QED
      BY <2>1, <3>1 DEF WatcherTypeOK
  <2>4. CASE ~dialog /\ ~locked
    <3>1. /\ opened' = IF closing THEN opened ELSE Append(opened, request[c])
          /\ UNCHANGED <<saved, shown>>
      BY <1>1, <2>4 DEF Notify
    <3>. QED
      BY <2>1, <2>4, <3>1 DEF WatcherTypeOK, Refused
  <2>. QED
    BY <2>2, <2>3, <2>4
<1>8. /\ answer' \in [Conns -> {"none", "ack", "shutdown"}]
      /\ \A d \in Conns : answer'[d] = IF d = socket[fd[c]] THEN message ELSE answer[d]
  BY <1>1, <1>3 DEF FinishWithACK, WatcherTypeOK
<1>9. WatcherTypeOK'
  BY <1>1, <1>2, <1>5, <1>7, <1>8 DEF WatcherTypeOK
<1>10. TasksInv'
  BY <1>1, <1>2, <1>4, <1>5 DEF TasksInv, Tasks
<1>11. NoReadFailed' <=> NoReadFailed
  BY <1>1 DEF NoReadFailed
<1>12. DescriptorsInv'
  BY <1>1, <1>11 DEF DescriptorsInv
<1>13. AcknowledgedIsKept'
  <2>. SUFFICES ASSUME NoReadFailed, NEW d \in Conns, answer'[d] = "ack"
                PROVE  request[d] \in ToSet(opened') \cup ToSet(saved') \/ d \in shown'
    BY <1>1, <1>11 DEF AcknowledgedIsKept
  <2>1. socket[fd[c]] = c
    BY <1>4 DEF DescriptorsInv
  <2>2. CASE d = c
    <3>1. ~Refused
      BY <1>8, <2>1, <2>2 DEF message
    <3>. QED
      BY <1>7, <2>2, <3>1
  <2>3. CASE d # c
    BY <1>7, <1>8, <2>1, <2>3 DEF AcknowledgedIsKept
  <2>. QED
    BY <2>2, <2>3
<1>. QED
  BY <1>9, <1>10, <1>12, <1>13

LEMMA UnlockStep ==
    ASSUME WatcherInv, Unlock
    PROVE  WatcherInv'
<1>. USE DEF WatcherInv
<1>1. /\ locked' = FALSE /\ opened' = opened \o Replay(saved) /\ saved' = <<>>
      /\ UNCHANGED <<socket, fd, input, request, readers, timers, watched, uiTasks, ioTasks, dialog,
                     closing, shown, answer>>
  BY DEF Unlock, io
<1>2. Replay(saved) \in Seq(Requests) /\ ToSet(Replay(saved)) = ToSet(saved)
  BY ReplayFacts DEF WatcherTypeOK
<1>3. /\ opened' \in Seq(Requests) /\ ToSet(opened') = ToSet(opened) \cup ToSet(saved)
  BY <1>1, <1>2, ConcatFacts DEF WatcherTypeOK
<1>4. saved' \in Seq(Requests)
  BY <1>1, EmptySeq
<1>5. WatcherTypeOK'
  BY <1>1, <1>3, <1>4 DEF WatcherTypeOK
<1>6. TasksInv'
  BY <1>1 DEF TasksInv, Tasks
<1>7. NoReadFailed' <=> NoReadFailed
  BY <1>1 DEF NoReadFailed
<1>8. DescriptorsInv'
  BY <1>1, <1>7 DEF DescriptorsInv
<1>9. AcknowledgedIsKept'
  <2>. HIDE DEF WatcherInv
  <2>. QED
    BY <1>1, <1>3, <1>7, KeptPreserves DEF WatcherInv
<1>. QED
  BY <1>5, <1>6, <1>8, <1>9

-----------------------------------------------------------------------------
(* The theorems *)

LEMMA NextWatcher == WatcherInv /\ [WatcherNext]_watcherVars => WatcherInv'
<1>. SUFFICES ASSUME WatcherInv, [WatcherNext]_watcherVars PROVE WatcherInv'
  OBVIOUS
<1>1. ASSUME NEW c \in Conns, Accept(c) \/ Arrive(c) \/ Read(c) \/ TimerFires(c)
      PROVE  WatcherInv'
  BY <1>1, AcceptStep, ArriveStep, ReadStep, TimerFiresStep
<1>2. CASE RunIoTask
  BY <1>2, RunIoTaskStep
<1>3. CASE HandleMessage
  BY <1>3, HandleMessageStep
<1>4. CASE Unlock
  BY <1>4, UnlockStep
<1>5. CASE SetActiveModalDialog \/ ShutDown \/ UNCHANGED watcherVars
  <2>1. /\ UNCHANGED <<socket, fd, input, request, readers, timers, watched, uiTasks, ioTasks,
                       saved, opened, shown, answer>>
        /\ locked' \in BOOLEAN /\ dialog' \in BOOLEAN /\ closing' \in BOOLEAN
    <3>1. locked \in BOOLEAN /\ dialog \in BOOLEAN /\ closing \in BOOLEAN
      BY DEF WatcherInv, WatcherTypeOK
    <3>. QED
      BY <1>5, <3>1 DEF SetActiveModalDialog, ShutDown, watcherVars, io, ui
  <2>2. WatcherTypeOK'
    BY <2>1 DEF WatcherInv, WatcherTypeOK
  <2>3. TasksInv' /\ (NoReadFailed' <=> NoReadFailed)
    BY <2>1 DEF WatcherInv, TasksInv, Tasks, NoReadFailed
  <2>4. DescriptorsInv'
    BY <2>1, <2>3 DEF WatcherInv, DescriptorsInv
  <2>5. AcknowledgedIsKept'
    BY <2>1, <2>3, KeptPreserves DEF WatcherInv
  <2>. QED
    BY <2>2, <2>3, <2>4, <2>5 DEF WatcherInv
<1>. QED
  BY <1>1, <1>2, <1>3, <1>4, <1>5 DEF WatcherNext

\* The inductive invariant: one task for each reader and no timer behind it, and the open
\* descriptors and the readers belong to each other until a read fails.
THEOREM WatcherInvariant == WatcherSpec => []WatcherInv
<1>. QED
  BY InitWatcher, NextWatcher, PTL DEF WatcherSpec

\* HandleMessage and FinishWithACK never meet a reader that its timer, or an earlier task,
\* has deleted.
THEOREM ReadersOutliveTasks == WatcherSpec => []TasksHaveReaders
<1>1. WatcherInv => TasksHaveReaders
  <2>. SUFFICES ASSUME WatcherInv PROVE TasksHaveReaders
    OBVIOUS
  <2>1. uiTasks \in Seq(Conns) /\ ioTasks \in Seq(Conns)
    BY DEF WatcherInv, WatcherTypeOK
  <2>2. /\ ToSet(uiTasks \o ioTasks) = ToSet(uiTasks) \cup ToSet(ioTasks)
        /\ IsInjective(uiTasks \o ioTasks)
    BY <2>1, ConcatFacts DEF WatcherInv, TasksInv
  <2>. QED
    BY <2>2 DEF WatcherInv, TasksInv, Tasks, TasksHaveReaders
<1>. QED
  BY <1>1, WatcherInvariant, PTL

\* Until a read fails, every reader's descriptor is its own connection's, and no other
\* descriptor is open.
THEOREM OwnDescriptors == WatcherSpec => []DescriptorsOwned
<1>1. WatcherInv => DescriptorsOwned
  BY DEF WatcherInv, DescriptorsInv, DescriptorsOwned
<1>. QED
  BY <1>1, WatcherInvariant, PTL

\* A start that was told its request is accepted, and has quit, finds it opened, saved for
\* the end of the start-up, or in front of a dialog: Unlock replays every saved request.
THEOREM AcknowledgedKept == WatcherSpec => []AcknowledgedIsKept
<1>1. WatcherInv => AcknowledgedIsKept
  BY DEF WatcherInv
<1>. QED
  BY <1>1, WatcherInvariant, PTL

\* "Only replay each message once": Unlock opens each saved request, none of them twice, and
\* in the order in which they first arrived.
THEOREM ReplayedOnce ==
    ASSUME NEW messages \in Seq(Requests)
    PROVE  /\ ToSet(Replay(messages)) = ToSet(messages) /\ IsInjective(Replay(messages))
           /\ \A m, n \in DOMAIN Replay(messages) : m < n =>
                 \E i, j \in FirstArrivals(messages) :
                    i < j /\ Replay(messages)[m] = messages[i] /\ Replay(messages)[n] = messages[j]
BY ReplayFacts

-----------------------------------------------------------------------------
(* ProcessSingleton *)

USE NamesAssumption, LocksAssumption, BoundsAssumption
USE DEF links, client, history, vars

\* The places of a step, one by one.
LEMMA PlacesListed ==
    /\ Creating \subseteq Places /\ Owning \subseteq Places /\ Gone \subseteq Places
    /\ Notifying \subseteq Places /\ Killing \subseteq Places /\ Asking \subseteq Places
    /\ {"idle", "create", "cleaned"} \subseteq Places
BY DEF Places

LEMMA TypeInitial == Init => TypeOK
BY DEF Init, TypeOK, Links, Places

\* A step goes to a place, and the next places of a start are places.
LEMMA GotoType ==
    ASSUME pc \in [Procs -> Places], NEW p \in Procs, NEW place \in Places, Goto(p, place)
    PROVE  pc' \in [Procs -> Places]
BY DEF Goto

LEMMA NextPlaces ==
    ASSUME NEW p \in Procs
    PROVE  ProcessNone(p) \in Places /\ KillOrGiveUp(p) \in Places
BY DEF ProcessNone, KillOrGiveUp, Places, Killing, Gone

LEMMA SecondRoundType ==
    ASSUME TypeOK, NEW p \in Procs, StartSecondRound(p)
    PROVE  /\ pc' \in [Procs -> Places] /\ round' \in [Procs -> {1, 2}]
           /\ retries' \in [Procs -> 0..RetryAttempts]
           /\ victim' \in [Procs -> Procs \cup {NoOne}] /\ peer' = peer
BY DEF TypeOK, StartSecondRound, Goto, Places, Notifying

\* TypeOK alone is not inductive: whom a request goes to is known from the
\* connection that was made.
PeerKnown == \A p \in Procs : pc[p] \in {"send", "await"} => peer[p] \in Procs

LEMMA TypeStep == TypeOK /\ PeerKnown /\ [Next]_vars => TypeOK'
<1> SUFFICES ASSUME TypeOK, PeerKnown, [Next]_vars PROVE TypeOK'
  OBVIOUS
<1>1. ASSUME NEW p \in Procs, Launch(p) PROVE TypeOK'
  BY <1>1 DEF TypeOK, Launch, Goto, Places, Notifying
<1>2. ASSUME NEW p \in Procs, ReadSocketLink(p) PROVE TypeOK'
  BY <1>2 DEF TypeOK, ReadSocketLink, Goto, Places, Notifying
<1>3. ASSUME NEW p \in Procs, ConnectSocket(p) PROVE TypeOK'
  BY <1>3 DEF TypeOK, ConnectSocket, Hangup, Links, Goto, Places, Notifying
<1>4. ASSUME NEW p \in Procs, ParseLock(p) PROVE TypeOK'
  <2>. UNCHANGED <<lock, socketLink, cookieLink, round, peer, victim, reply, requests,
                   served, displaced, mishaps>>
    BY <1>4 DEF ParseLock
  <2>1. CASE RetryLater(p)
    <3>1. pc' \in [Procs -> Places]
      BY <2>1, NextPlaces DEF TypeOK, RetryLater, Goto, Places, Notifying
    <3>2. retries' \in [Procs -> 0..RetryAttempts]
      BY <2>1 DEF TypeOK, RetryLater
    <3>3. troubled' \in BOOLEAN
      BY <2>1, Zenon DEF TypeOK, RetryLater
    <3> QED BY <3>1, <3>2, <3>3 DEF TypeOK
  <2>2. CASE \E place \in {ProcessNone(p), "dialog", "unlink"} :
               Goto(p, place) /\ UNCHANGED retries /\ troubled' \in {troubled, TRUE}
    <3>1. pc' \in [Procs -> Places]
      BY <2>2, NextPlaces DEF TypeOK, Goto, Places, Notifying, Asking
    <3>2. retries' = retries /\ troubled' \in BOOLEAN
      BY <2>2, Zenon DEF TypeOK
    <3> QED BY <3>1, <3>2 DEF TypeOK
  <2>3. RetryLater(p) \/ \E place \in {ProcessNone(p), "dialog", "unlink"} :
               Goto(p, place) /\ UNCHANGED retries /\ troubled' \in {troubled, TRUE}
    BY <1>4 DEF ParseLock
  <2> QED BY <2>1, <2>2, <2>3
<1>5. ASSUME NEW p \in Procs, UnlinkLock(p) PROVE TypeOK'
  BY <1>5, NextPlaces DEF TypeOK, UnlinkLock, Displace, Links, Goto
<1>6. ASSUME NEW p \in Procs, SendRequest(p) PROVE TypeOK'
  <2>1. CASE Alive(peer[p])
    <3>1. peer[p] \in Procs
      BY <1>6 DEF SendRequest, PeerKnown
    <3> QED BY <1>6, <2>1, <3>1 DEF TypeOK, SendRequest, Goto, Places, Notifying
  <2>2. CASE ~Alive(peer[p])
    BY <1>6, <2>2, NextPlaces DEF TypeOK, SendRequest, Hangup, Links, Goto
  <2> QED BY <2>1, <2>2
<1>7. ASSUME NEW p \in Procs, ReadReply(p) PROVE TypeOK'
  BY <1>7, NextPlaces DEF TypeOK, ReadReply, Hangup, Links, Goto, Places, Gone
<1>8. ASSUME NEW p \in Procs, ReadFails(p) PROVE TypeOK'
  BY <1>8, NextPlaces DEF TypeOK, ReadFails, Hangup, Links, Goto
<1>9. ASSUME NEW p \in Procs, ParseLockToKill(p) PROVE TypeOK'
  <2>1. Pids \subseteq Procs \cup {NoOne}
    BY DEF Pids
  <2> QED BY <1>9, <2>1 DEF TypeOK, ParseLockToKill, Goto, Places, Killing, Asking
<1>10. ASSUME NEW p \in Procs, UnlinkToKill(p) PROVE TypeOK'
  BY <1>10 DEF TypeOK, UnlinkToKill, Displace, Links, Goto, Places, Killing
<1>11. ASSUME NEW p \in Procs, KillProcess(p) PROVE TypeOK'
  <2>1. "create" \in Places /\ "killed" \in Places
    BY DEF Places, Gone
  <2> QED BY <1>11, <2>1 DEF TypeOK, KillProcess
<1>12. ASSUME NEW p \in Procs, CreateLock(p) PROVE TypeOK'
  BY <1>12, SecondRoundType DEF TypeOK, CreateLock, Links, Goto, Places, Creating
<1>13. ASSUME NEW p \in Procs, ClearLinks(p) PROVE TypeOK'
  BY <1>13 DEF TypeOK, ClearLinks, Links, Goto, Places, Creating
<1>14. ASSUME NEW p \in Procs, LinkSocket(p) PROVE TypeOK'
  BY <1>14, SecondRoundType DEF TypeOK, LinkSocket, Links, Goto, Places, Creating
<1>15. ASSUME NEW p \in Procs, LinkCookie(p) PROVE TypeOK'
  BY <1>15, SecondRoundType DEF TypeOK, LinkCookie, Links, Goto, Places, Creating
<1>16. ASSUME NEW p \in Procs, Listen(p) PROVE TypeOK'
  BY <1>16 DEF TypeOK, Listen, Goto, Places, Owning
<1>17. ASSUME NEW p \in Procs, CreateFails(p) PROVE TypeOK'
  BY <1>17, SecondRoundType DEF TypeOK, CreateFails
<1>18. ASSUME NEW s \in Procs, NotificationCallback(s) PROVE TypeOK'
  <2>1. PICK r \in requests :
          /\ requests' = requests \ {r}
          /\ served' = IF pc[s] = "running" THEN served \cup {r[1]} ELSE served
          /\ reply' = IF pc[r[1]] = "await" /\ round[r[1]] = r[2] /\ peer[r[1]] = s
                        THEN [reply EXCEPT ![r[1]] = IF pc[s] = "running" THEN "ack"
                                                     ELSE "shutdown"]
                        ELSE reply
    BY <1>18 DEF NotificationCallback
  <2>2. r[1] \in Procs
    BY DEF TypeOK
  <2> QED BY <1>18, <2>1, <2>2 DEF TypeOK, NotificationCallback
<1>19. ASSUME NEW p \in Procs, BeginShutdown(p) PROVE TypeOK'
  BY <1>19 DEF TypeOK, BeginShutdown, Goto, Places, Owning
<1>20. ASSUME NEW p \in Procs, QuitLoop(p) PROVE TypeOK'
  BY <1>20 DEF TypeOK, QuitLoop, Goto, Places, Owning
<1>21. ASSUME NEW p \in Procs, CleanupLinks(p) PROVE TypeOK'
  BY <1>21 DEF TypeOK, CleanupLinks, Links, Goto, Places, Owning
<1>22. ASSUME NEW p \in Procs, CleanupLock(p) PROVE TypeOK'
  BY <1>22 DEF TypeOK, CleanupLock, Displace, Links, Goto, Places
<1>23. ASSUME NEW p \in Procs, Exit(p) PROVE TypeOK'
  BY <1>23 DEF TypeOK, Exit, Goto, Places, Gone
<1>24. ASSUME NEW p \in Procs, Crash(p) PROVE TypeOK'
  BY <1>24 DEF TypeOK, Crash, Goto, Places, Gone
<1>25. CASE UNCHANGED vars
  BY <1>25 DEF TypeOK
<1>26. ASSUME NEW p \in Procs, ClearCookie(p) PROVE TypeOK'
  BY <1>26 DEF TypeOK, ClearCookie, Links, Goto, Places, Creating
<1>27. ASSUME NEW p \in Procs, CleanupCookie(p) PROVE TypeOK'
  BY <1>27 DEF TypeOK, CleanupCookie, Links, Goto, Places, Owning
<1>28. ASSUME NEW p \in Procs, DisplayProfileInUseError(p) PROVE TypeOK'
  BY <1>28 DEF TypeOK, DisplayProfileInUseError, Goto, Places, Notifying, Gone
<1> QED
  BY <1>1, <1>2, <1>3, <1>4, <1>5, <1>6, <1>7, <1>8, <1>9, <1>10, <1>11, <1>12, <1>13,
     <1>14, <1>15, <1>16, <1>17, <1>18, <1>19, <1>20, <1>21, <1>22, <1>23, <1>24, <1>25,
     <1>26, <1>27, <1>28 DEF Next, StartStep, BrowserStep

\* What a step of p leaves to the others: their places, unless p kills one, and
\* all they know.
Frame(p) ==
    \A q \in Procs \ {p} :
        /\ pc'[q] = pc[q] \/ (pc[p] = "signal" /\ q = victim[p] /\ pc'[q] = "killed")
        /\ round'[q] = round[q] /\ peer'[q] = peer[q] /\ victim'[q] = victim[q]

Action(p) ==
    \/ Launch(p) \/ StartStep(p) \/ DisplayProfileInUseError(p) \/ CreateFails(p)
    \/ BrowserStep(p) \/ Crash(p)

LEMMA Frames == ASSUME TypeOK, NEW p \in Procs, Action(p) PROVE Frame(p)
<1> USE DEF Frame, TypeOK
<1>1. CASE Launch(p) \/ DisplayProfileInUseError(p) \/ Crash(p) \/ CreateFails(p)
  BY <1>1 DEF Launch, DisplayProfileInUseError, Crash, CreateFails, StartSecondRound, Goto
<1>2. CASE BrowserStep(p)
  BY <1>2 DEF BrowserStep, NotificationCallback, BeginShutdown, QuitLoop, CleanupLinks,
              CleanupCookie, CleanupLock, Exit, Goto
<1>3. CASE ReadSocketLink(p) \/ ConnectSocket(p) \/ UnlinkLock(p)
  BY <1>3 DEF ReadSocketLink, ConnectSocket, UnlinkLock, Hangup, Goto
<1>4. CASE ParseLock(p)
  BY <1>4 DEF ParseLock, RetryLater, Goto
<1>5. CASE SendRequest(p) \/ ReadReply(p) \/ ReadFails(p)
  BY <1>5 DEF SendRequest, ReadReply, ReadFails, Hangup, Goto
<1>6. CASE ParseLockToKill(p)
  BY <1>6 DEF ParseLockToKill, Goto
<1>7. CASE UnlinkToKill(p) \/ KillProcess(p)
  BY <1>7 DEF UnlinkToKill, KillProcess, Goto
<1>8. CASE CreateLock(p) \/ ClearLinks(p) \/ ClearCookie(p) \/ LinkSocket(p) \/ LinkCookie(p)
           \/ Listen(p)
  BY <1>8 DEF CreateLock, ClearLinks, ClearCookie, LinkSocket, LinkCookie, Listen, StartSecondRound,
              Goto
<1> QED BY <1>1, <1>2, <1>3, <1>4, <1>5, <1>6, <1>7, <1>8 DEF Action, StartStep

\* Between the lock's creation and its removal, the lock leads to its holder
\* unless another process took it away.
LockKept == \A p \in Procs : HoldsLock(p) /\ p \notin displaced => lock = p

LEMMA LockKeptStep ==
    ASSUME TypeOK, LockKept, NEW p \in Procs, Action(p), Frame(p)
    PROVE  LockKept'
<1> USE DEF LockKept, Frame, HoldsLock, Creating, Owning
<1>1. CASE UNCHANGED <<lock, displaced>> /\ (HoldsLock(p)' => HoldsLock(p))
  BY <1>1
<1>2. CASE lock' = NoOne /\ Displace(p) /\ ~HoldsLock(p)'
  BY <1>2 DEF Displace
<1>3. CASE lock \in {NoOne, p} /\ lock' = p /\ UNCHANGED displaced
  BY <1>3
<1>4. CASE Launch(p) \/ DisplayProfileInUseError(p) \/ Crash(p) \/ CreateFails(p)
  BY <1>1, <1>4 DEF Launch, DisplayProfileInUseError, Crash, CreateFails, StartSecondRound, Goto, TypeOK
<1>5. CASE BrowserStep(p)
  BY <1>1, <1>2, <1>5 DEF BrowserStep, NotificationCallback, BeginShutdown, QuitLoop, CleanupLinks,
              CleanupCookie, CleanupLock, Exit, Goto, TypeOK
<1>6. CASE StartStep(p)
  <2>1. CASE ReadSocketLink(p) \/ ConnectSocket(p) \/ ParseLock(p) \/ SendRequest(p)
             \/ ReadReply(p) \/ ReadFails(p) \/ ParseLockToKill(p) \/ KillProcess(p)
    <3>1. UNCHANGED <<lock, displaced>>
      BY <2>1 DEF ReadSocketLink, ConnectSocket, ParseLock, SendRequest, ReadReply, ReadFails,
                  ParseLockToKill, KillProcess
    <3>2. ~HoldsLock(p)'
      BY <2>1 DEF ReadSocketLink, ConnectSocket, ParseLock, RetryLater, SendRequest, ReadReply,
                  ReadFails, ParseLockToKill, KillProcess, ProcessNone, KillOrGiveUp, Goto, TypeOK
    <3> QED BY <1>1, <3>1, <3>2
  <2>2. CASE UnlinkLock(p) \/ UnlinkToKill(p)
    BY <1>2, <2>2 DEF UnlinkLock, UnlinkToKill, ProcessNone, Goto, TypeOK
  <2>3. CASE CreateLock(p)
    BY <1>1, <1>3, <2>3 DEF CreateLock, StartSecondRound, Goto, TypeOK
  <2>4. CASE ClearLinks(p) \/ ClearCookie(p) \/ LinkSocket(p) \/ LinkCookie(p) \/ Listen(p)
    BY <1>1, <2>4 DEF ClearLinks, ClearCookie, LinkSocket, LinkCookie, Listen, StartSecondRound,
                      Goto, TypeOK
  <2> QED BY <1>6, <2>1, <2>2, <2>3, <2>4 DEF StartStep
<1> QED BY <1>4, <1>5, <1>6 DEF Action

\* What is known on the way to an answer and to a kill.
ReplyRead == \A p \in Procs : reply[p] # "none" => pc[p] \in {"await", "crashed", "killed"}
AckIsServed == \A p \in Procs : reply[p] = "ack" => p \in served
ClientInv == PeerKnown /\ ReplyRead /\ AckIsServed /\ NotifiedWasServed /\ SecondRoundIsGentle

LEMMA ClientStep ==
    ASSUME TypeOK, ClientInv, NEW p \in Procs, Action(p), Frame(p)
    PROVE  ClientInv'
<1> USE DEF ClientInv, PeerKnown, ReplyRead, AckIsServed, NotifiedWasServed,
            SecondRoundIsGentle, Frame, TypeOK, Killing
<1>1. CASE NotificationCallback(p)
  <2>1. PICK r \in requests :
          /\ served' = IF pc[p] = "running" THEN served \cup {r[1]} ELSE served
          /\ reply' = IF pc[r[1]] = "await" /\ round[r[1]] = r[2] /\ peer[r[1]] = p
                        THEN [reply EXCEPT ![r[1]] = IF pc[p] = "running" THEN "ack"
                                                     ELSE "shutdown"]
                        ELSE reply
    BY <1>1 DEF NotificationCallback
  <2>2. r[1] \in Procs /\ UNCHANGED <<pc, round, peer>>
    BY <1>1 DEF NotificationCallback
  <2> QED BY <2>1, <2>2
<1>2. CASE ReadReply(p)
  BY <1>2 DEF ReadReply, ProcessNone, Hangup, Goto
<1>3. CASE reply' = reply /\ served' = served /\ pc[p] \notin {"await", "crashed", "killed"}
           /\ (pc'[p] \in {"send", "await"} => peer'[p] \in Procs)
           /\ (pc'[p] = "notified" => pc[p] = "notified")
           /\ (pc'[p] \in Killing => round'[p] = 1)
  BY <1>3
<1>4. CASE ReadFails(p)
  BY <1>4 DEF ReadFails, KillOrGiveUp, Hangup, Goto
<1>5. CASE Launch(p) \/ DisplayProfileInUseError(p) \/ CreateFails(p)
  BY <1>3, <1>5 DEF Launch, DisplayProfileInUseError, Asking, CreateFails, StartSecondRound, Goto
<1>6. CASE Crash(p)
  BY <1>6 DEF Crash, Goto
<1>7. CASE BeginShutdown(p) \/ QuitLoop(p) \/ CleanupLinks(p) \/ CleanupCookie(p)
           \/ CleanupLock(p) \/ Exit(p)
  BY <1>3, <1>7 DEF BeginShutdown, QuitLoop, CleanupLinks, CleanupCookie, CleanupLock, Exit, Goto
<1>8. CASE ReadSocketLink(p) \/ ConnectSocket(p) \/ ParseLock(p) \/ UnlinkLock(p) \/ SendRequest(p)
  BY <1>3, <1>8 DEF ReadSocketLink, ConnectSocket, Reaches, ParseLock, RetryLater, UnlinkLock,
              SendRequest, ProcessNone, KillOrGiveUp, Hangup, Goto
<1>9. CASE ParseLockToKill(p) \/ UnlinkToKill(p) \/ KillProcess(p)
  BY <1>3, <1>9 DEF ParseLockToKill, UnlinkToKill, KillProcess, Goto
<1>10. CASE CreateLock(p) \/ ClearLinks(p) \/ ClearCookie(p) \/ LinkSocket(p) \/ LinkCookie(p)
           \/ Listen(p)
  BY <1>3, <1>10 DEF CreateLock, ClearLinks, ClearCookie, LinkSocket, LinkCookie, Listen, StartSecondRound,
              Goto
<1> QED
  BY <1>1, <1>2, <1>4, <1>5, <1>6, <1>7, <1>8, <1>9, <1>10 DEF Action, StartStep, BrowserStep


\* While nothing goes wrong: locks lead to their holders and nobody removes
\* another's, an owner finds the links it must make free, whoever is waited for
\* listens, a request is waited for until it is answered, and a start whose
\* request was accepted quits.
NoViolence ==
    /\ displaced = {}
    /\ \A p \in Procs : pc[p] \notin Killing \cup Asking \cup {"unlink", "crashed", "killed"}
LockHeld == lock # NoOne => lock \in Procs /\ HoldsLock(lock)
LinksFree ==
    \A p \in Procs : /\ pc[p] \in {"clearCookie", "linkSocket"} => socketLink = NoOne
                     /\ pc[p] \in {"linkSocket", "linkCookie"} => cookieLink = NoOne
PeersListen ==
    \A p \in Procs : pc[p] \in {"send", "await"} /\ reply[p] = "none" => Listening(peer[p])
RequestsAwaited ==
    \A r \in requests : /\ pc[r[1]] = "await" /\ reply[r[1]] = "none"
                        /\ round[r[1]] = r[2] /\ peer[r[1]] = r[3]
ServedQuit ==
    \A p \in served : pc[p] = "notified" \/ (pc[p] = "await" /\ reply[p] = "ack")
Calm == ~troubled =>
    NoViolence /\ LockHeld /\ LinksFree /\ PeersListen /\ RequestsAwaited /\ ServedQuit

\* A step that only moves p on: what the places before and after must satisfy.
Moves(p) ==
    /\ UNCHANGED <<reply, served, displaced, requests>>
    /\ pc[p] \notin {"await", "notified"}
    /\ pc'[p] \notin Killing \cup Asking \cup {"unlink", "crashed", "killed", "await"}
    /\ Listening(p)' \/ ~Listening(p) \/ \A c \in Procs : ~WaitsFor(c, p)

LEMMA MovesCalm ==
    ASSUME TypeOK, ClientInv, Calm, ~troubled, NEW p \in Procs, Moves(p),
           \A q \in Procs \ {p} : pc'[q] = pc[q] /\ round'[q] = round[q] /\ peer'[q] = peer[q],
           pc'[p] = "send" => peer'[p] \in Procs /\ Listening(peer[p])'
    PROVE  NoViolence' /\ PeersListen' /\ RequestsAwaited' /\ ServedQuit'
<1>1. NoViolence'
  BY DEF Calm, Moves, NoViolence
<1>2. PeersListen'
  <2> SUFFICES ASSUME NEW q \in Procs, pc'[q] \in {"send", "await"}, reply'[q] = "none"
               PROVE  Listening(peer[q])'
    BY DEF PeersListen
  <2>1. CASE q = p
    BY <2>1 DEF Moves
  <2>2. CASE q # p
    <3>1. peer'[q] = peer[q] /\ peer[q] \in Procs /\ Listening(peer[q])
      BY <2>2 DEF Calm, PeersListen, ClientInv, PeerKnown, Moves
    <3>2. peer[q] = p => WaitsFor(q, p)
      BY <2>2, <3>1 DEF WaitsFor, Moves
    <3> QED BY <3>1, <3>2 DEF Moves, Listening
  <2> QED BY <2>1, <2>2
<1>3. RequestsAwaited'
  <2> SUFFICES ASSUME NEW r \in requests
               PROVE  /\ pc'[r[1]] = "await" /\ reply'[r[1]] = "none"
                      /\ round'[r[1]] = r[2] /\ peer'[r[1]] = r[3]
    BY DEF RequestsAwaited, Moves
  <2>1. r[1] \in Procs /\ r[1] # p
    BY DEF TypeOK, Calm, RequestsAwaited, Moves
  <2> QED BY <2>1 DEF Calm, RequestsAwaited, Moves
<1>4. ServedQuit'
  BY DEF TypeOK, Calm, ServedQuit, Moves
<1> QED BY <1>1, <1>2, <1>3, <1>4


\* Who may change the links, and how the lock stays with its holder.
LEMMA LinksCalm ==
    ASSUME TypeOK, LockKept, LockKept', Calm, ~troubled, NEW p \in Procs, displaced' = {},
           \A q \in Procs \ {p} : pc'[q] = pc[q],
           lock' = lock \/ lock' = p \/ lock' = NoOne,
           socketLink' \in {socketLink, NoOne} \/ HoldsLock(p),
           cookieLink' \in {cookieLink, NoOne} \/ HoldsLock(p),
           lock' = p => HoldsLock(p)',
           pc'[p] \in {"clearCookie", "linkSocket"} => socketLink' = NoOne,
           pc'[p] \in {"linkSocket", "linkCookie"} => cookieLink' = NoOne
    PROVE  LockHeld' /\ LinksFree'
<1>1. LockHeld'
  BY DEF LockHeld, HoldsLock, Calm
<1>2. ASSUME NEW q \in Procs \ {p}, pc[q] \in {"clearCookie", "linkSocket", "linkCookie"} PROVE ~HoldsLock(p)
  <2>1. lock = q /\ displaced = {}
    BY <1>2 DEF LockKept, HoldsLock, Creating, Calm, NoViolence
  <2> QED BY <2>1 DEF LockKept
<1>3. LinksFree'
  BY <1>2 DEF LinksFree, Calm
<1> QED BY <1>1, <1>3

LEMMA CalmStep ==
    ASSUME TypeOK, ClientInv, LockKept, LockKept', Calm, NEW p \in Procs, Action(p), Frame(p)
    PROVE  Calm'
<1> SUFFICES ASSUME ~troubled'
             PROVE  /\ NoViolence' /\ LockHeld' /\ LinksFree'
                    /\ PeersListen' /\ RequestsAwaited' /\ ServedQuit'
  BY DEF Calm
<1>1. ~troubled
  BY DEF Action, StartStep, BrowserStep, Launch, ReadSocketLink, ConnectSocket, ParseLock,
         RetryLater, UnlinkLock, SendRequest, ReadReply, ReadFails, ParseLockToKill, UnlinkToKill,
         KillProcess, CreateLock, ClearLinks, ClearCookie, LinkSocket, LinkCookie, Listen, CreateFails,
         NotificationCallback, BeginShutdown, QuitLoop, CleanupLinks, CleanupCookie, CleanupLock,
         Exit, Crash, DisplayProfileInUseError
<1>2. /\ NoViolence /\ LockHeld /\ LinksFree /\ PeersListen /\ RequestsAwaited /\ ServedQuit
  BY <1>1 DEF Calm
<1>3. \A q \in Procs \ {p} : pc'[q] = pc[q] /\ round'[q] = round[q] /\ peer'[q] = peer[q]
  BY <1>2 DEF Frame, NoViolence, Killing, Asking
<1> DEFINE linksMoved ==
             /\ lock' = lock \/ lock' = p \/ lock' = NoOne
             /\ socketLink' \in {socketLink, NoOne} \/ HoldsLock(p)
             /\ cookieLink' \in {cookieLink, NoOne} \/ HoldsLock(p)
             /\ lock' = p => HoldsLock(p)'
             /\ pc'[p] \in {"clearCookie", "linkSocket"} => socketLink' = NoOne
             /\ pc'[p] \in {"linkSocket", "linkCookie"} => cookieLink' = NoOne
           moved == Moves(p) /\ linksMoved
                    /\ (pc'[p] = "send" => peer'[p] \in Procs /\ Listening(peer[p])')
<1>4. CASE moved
  <2>1. displaced' = {}
    BY <1>2, <1>4 DEF Moves, NoViolence
  <2> QED BY <1>1, <1>3, <1>4, <2>1, MovesCalm, LinksCalm
<1>5. HoldsLock(p) => lock = p
  BY <1>2 DEF LockKept, NoViolence
<1>6. lock = p => HoldsLock(p)
  BY <1>2 DEF LockHeld
<1> USE DEF HoldsLock, Creating, Owning, Listening, Goto, TypeOK
<1>7. CASE Launch(p) \/ ReadSocketLink(p)
  BY <1>4, <1>6, <1>7 DEF Launch, ReadSocketLink, Moves, Killing, Asking
<1>8. CASE ConnectSocket(p)
  <2>1. CASE Reaches(p)
    BY <1>4, <1>6, <1>8, <2>1 DEF ConnectSocket, Reaches, Moves, Killing, Asking
  <2>2. CASE ~Reaches(p)
    BY <1>4, <1>6, <1>8, <2>2 DEF ConnectSocket, Hangup, Moves, Killing, Asking
  <2> QED BY <2>1, <2>2
<1>9. CASE ParseLock(p)
  <2>1. lock \in Procs => HeldBy(p, lock)
    BY <1>2, <1>9 DEF ParseLock, LockHeld, HeldBy, Alive, Gone
  <2>2. pc' \in {[pc EXCEPT ![p] = place] : place \in {"connect", "create", "lockError"}}
    BY <1>2, <1>9, <2>1 DEF ParseLock, RetryLater, LockHeld, ProcessNone
  <2> QED BY <1>4, <1>6, <1>9, <2>2 DEF ParseLock, Moves, Killing, Asking
<1>10. CASE CreateLock(p)
  <2>1. CASE lock \in {NoOne, p}
    BY <1>4, <1>10, <2>1 DEF CreateLock, Moves, Killing, Asking
  <2>2. CASE lock \notin {NoOne, p}
    BY <1>4, <1>10, <2>2 DEF CreateLock, StartSecondRound, Moves, Killing, Asking
  <2> QED BY <2>1, <2>2
<1>11. CASE ClearLinks(p) \/ Listen(p) \/ BeginShutdown(p) \/ QuitLoop(p) \/ CleanupLinks(p)
            \/ CleanupCookie(p)
  BY <1>4, <1>11 DEF ClearLinks, Listen, BeginShutdown, QuitLoop, CleanupLinks, CleanupCookie, Moves, Killing, Asking
<1>12. CASE ClearCookie(p) \/ LinkSocket(p) \/ LinkCookie(p)
  BY <1>2, <1>4, <1>12 DEF ClearCookie, LinkSocket, LinkCookie, LinksFree, Moves, Killing, Asking
<1>13. CASE CleanupLock(p)
  <2>1. displaced' = displaced
    BY <1>5, <1>13 DEF CleanupLock, Displace
  <2> QED BY <1>4, <1>13, <2>1 DEF CleanupLock, Moves, Killing, Asking
<1>14. CASE Exit(p)
  <2>1. \A c \in Procs : ~WaitsFor(c, p)
    BY <1>14 DEF Exit
  <2> QED BY <1>4, <1>6, <1>14, <2>1 DEF Exit, Moves, Killing, Asking
<1>15. UNCHANGED <<links, displaced>> /\ ~HoldsLock(p)' /\ pc[p] \in {"send", "await"}
         => LockHeld' /\ LinksFree'
  BY <1>1, <1>3, <1>6, <1>2, LinksCalm DEF NoViolence
<1>16. CASE SendRequest(p)
  <2>1. pc[p] = "send" /\ reply[p] = "none" /\ peer[p] \in Procs /\ Listening(peer[p])
    BY <1>2, <1>16 DEF SendRequest, ClientInv, ReplyRead, PeerKnown, PeersListen
  <2>2. /\ requests' = requests \cup {<<p, round[p], peer[p]>>} /\ Goto(p, "await")
        /\ UNCHANGED <<links, round, peer, reply, displaced, served>>
    BY <1>16, <2>1 DEF SendRequest, Alive, Gone
  <2>3. NoViolence' /\ PeersListen'
    BY <1>2, <2>1, <2>2 DEF NoViolence, PeersListen, Killing, Asking
  <2>4. RequestsAwaited'
    <3> SUFFICES ASSUME NEW r \in requests'
                 PROVE  /\ pc'[r[1]] = "await" /\ reply'[r[1]] = "none"
                        /\ round'[r[1]] = r[2] /\ peer'[r[1]] = r[3]
      BY DEF RequestsAwaited
    <3>1. CASE r \in requests
      BY <1>2, <2>1, <2>2, <3>1 DEF RequestsAwaited
    <3>2. CASE r = <<p, round[p], peer[p]>>
      BY <2>1, <2>2, <3>2
    <3> QED BY <2>2, <3>1, <3>2
  <2>5. ServedQuit'
    BY <1>2, <2>1, <2>2 DEF ServedQuit
  <2> QED BY <1>15, <2>1, <2>2, <2>3, <2>4, <2>5
<1>17. CASE ReadReply(p)
  <2>1. /\ pc[p] = "await" /\ reply[p] # "none" /\ reply' = [reply EXCEPT ![p] = "none"]
        /\ UNCHANGED <<links, round, requests, displaced, served>>
        /\ pc' = [pc EXCEPT ![p] = IF reply[p] = "ack" THEN "notified" ELSE ProcessNone(p)]
    BY <1>17 DEF ReadReply
  <2>2. pc'[p] \in {"notified", "create", "lockError"}
    BY <2>1 DEF ProcessNone
  <2>3. NoViolence' /\ PeersListen'
    BY <1>2, <1>3, <2>1, <2>2 DEF NoViolence, PeersListen, Killing, Asking, ClientInv, PeerKnown
  <2>4. RequestsAwaited'
    <3>1. \A r \in requests : r[1] \in Procs /\ r[1] # p
      BY <1>2, <2>1 DEF RequestsAwaited
    <3> QED BY <1>2, <1>3, <2>1, <3>1 DEF RequestsAwaited
  <2>5. ServedQuit'
    BY <1>2, <1>3, <2>1 DEF ServedQuit
  <2> QED BY <1>15, <2>1, <2>2, <2>3, <2>4, <2>5
<1>18. CASE NotificationCallback(p)
  <2>1. PICK r \in requests :
          /\ r[3] = p
          /\ requests' = requests \ {r}
          /\ served' = IF pc[p] = "running" THEN served \cup {r[1]} ELSE served
          /\ reply' = IF pc[r[1]] = "await" /\ round[r[1]] = r[2] /\ peer[r[1]] = p
                        THEN [reply EXCEPT ![r[1]] = IF pc[p] = "running" THEN "ack"
                                                     ELSE "shutdown"]
                        ELSE reply
    BY <1>18 DEF NotificationCallback
  <2>2. /\ r[1] \in Procs /\ pc[r[1]] = "await" /\ reply[r[1]] = "none"
        /\ reply' = [reply EXCEPT ![r[1]] = IF pc[p] = "running" THEN "ack" ELSE "shutdown"]
    BY <1>2, <2>1 DEF RequestsAwaited
  <2>3. UNCHANGED <<links, pc, round, peer, displaced>>
    BY <1>18 DEF NotificationCallback
  <2>4. NoViolence' /\ LockHeld' /\ LinksFree'
    BY <1>2, <2>3 DEF NoViolence, LockHeld, LinksFree
  <2>5. PeersListen'
    BY <1>2, <2>2, <2>3 DEF PeersListen
  <2>6. RequestsAwaited'
    <3>1. \A q \in requests : q = <<q[1], q[2], q[3]>>
      OBVIOUS
    <3>2. \A q \in requests : q # r => q[1] # r[1]
      BY <1>2, <3>1 DEF RequestsAwaited
    <3> QED BY <1>2, <2>1, <2>2, <2>3, <3>2 DEF RequestsAwaited
  <2>7. ServedQuit'
    <3>1. r[1] \notin served
      BY <1>2, <2>2 DEF ServedQuit
    <3> QED BY <1>2, <2>1, <2>2, <2>3, <3>1 DEF ServedQuit
  <2> QED BY <2>4, <2>5, <2>6, <2>7
<1>19. CASE ReadFails(p) \/ CreateFails(p) \/ Crash(p)
  BY <1>19 DEF ReadFails, CreateFails, Crash
<1>20. CASE UnlinkLock(p) \/ ParseLockToKill(p) \/ UnlinkToKill(p) \/ KillProcess(p)
            \/ DisplayProfileInUseError(p)
  BY <1>2, <1>20 DEF UnlinkLock, ParseLockToKill, UnlinkToKill, KillProcess,
                     DisplayProfileInUseError, NoViolence, Killing, Asking
<1> QED
  BY <1>7, <1>8, <1>9, <1>10, <1>11, <1>12, <1>13, <1>14, <1>16, <1>17, <1>18, <1>19, <1>20
     DEF Action, StartStep, BrowserStep


\* The inductive invariant: types, what clients know, the lock, and the calm.
SingletonInv == TypeOK /\ ClientInv /\ LockKept /\ Calm

LEMMA SingletonInitial == Init => SingletonInv
<1> SUFFICES ASSUME Init PROVE SingletonInv
  OBVIOUS
<1>1. TypeOK
  BY TypeInitial
<1>2. ClientInv
  BY DEF Init, ClientInv, PeerKnown, ReplyRead, AckIsServed, NotifiedWasServed,
         SecondRoundIsGentle, Killing
<1>3. LockKept
  BY DEF Init, LockKept, HoldsLock, Creating, Owning
<1>4. Calm
  BY DEF Init, Calm, NoViolence, LockHeld, LinksFree, PeersListen, RequestsAwaited, ServedQuit,
         Killing, Asking
<1> QED BY <1>1, <1>2, <1>3, <1>4 DEF SingletonInv

LEMMA SingletonStep == SingletonInv /\ [Next]_vars => SingletonInv'
<1> SUFFICES ASSUME SingletonInv, [Next]_vars PROVE SingletonInv'
  OBVIOUS
<1> USE DEF SingletonInv
<1>1. TypeOK'
  BY TypeStep DEF ClientInv
<1>2. ASSUME NEW p \in Procs, Action(p) PROVE SingletonInv'
  <2>1. Frame(p)
    BY <1>2, Frames
  <2>2. LockKept' /\ ClientInv'
    BY <1>2, <2>1, LockKeptStep, ClientStep
  <2> QED BY <1>1, <1>2, <2>1, <2>2, CalmStep
<1>3. CASE UNCHANGED vars
  BY <1>1, <1>3 DEF ClientInv, PeerKnown, ReplyRead, AckIsServed, NotifiedWasServed,
         SecondRoundIsGentle, LockKept, HoldsLock, Calm, NoViolence, LockHeld, LinksFree,
         PeersListen, Listening, RequestsAwaited, ServedQuit
<1> QED BY <1>2, <1>3 DEF Next, Action

LEMMA SingletonInvariant == Spec => []SingletonInv
BY SingletonInitial, SingletonStep, PTL DEF Spec

\* Type correctness, whatever goes wrong.
THEOREM TypeCorrect == Spec => []TypeOK
<1>1. SingletonInv => TypeOK
  BY DEF SingletonInv
<1> QED BY <1>1, SingletonInvariant, PTL

\* However many processes start, crash, hang or kill: the lock never admits two
\* browsers, only the removal of a lock does.
THEOREM Sharing == Spec => []SharersAreDisplaced
<1>1. SingletonInv => SharersAreDisplaced
  BY DEF SingletonInv, LockKept, SharersAreDisplaced, HoldsLock, Owners
<1> QED BY <1>1, SingletonInvariant, PTL

\* As long as nothing goes wrong, the profile has one browser and it is safe.
THEOREM MutualExclusion == Spec => []AtMostOneUntroubled
<1>1. SingletonInv => AtMostOneUntroubled
  <2> SUFFICES ASSUME SingletonInv, ~troubled
               PROVE  Cardinality(Owners) <= 1 /\ \A p \in Procs : pc[p] # "killed"
    BY DEF AtMostOneUntroubled
  <2>1. Owners \subseteq {lock}
    BY DEF SingletonInv, LockKept, Calm, NoViolence, HoldsLock, Owners
  <2>2. Cardinality({lock}) = 1 /\ IsFiniteSet({lock})
    BY FS_Singleton
  <2>3. Cardinality(Owners) <= 1
    BY <2>1, <2>2, FS_Subset
  <2> QED BY <2>3 DEF SingletonInv, Calm, NoViolence
<1> QED BY <1>1, SingletonInvariant, PTL

\* A start quits only after its request was accepted, whatever goes wrong.
THEOREM NotifiedServed == Spec => []NotifiedWasServed
<1>1. SingletonInv => NotifiedWasServed
  BY DEF SingletonInv, ClientInv
<1> QED BY <1>1, SingletonInvariant, PTL

\* As long as nothing goes wrong, no request is opened by two browsers.
THEOREM ServedOnce == Spec => []ServedOnceUntroubled
<1>1. SingletonInv => ServedOnceUntroubled
  BY DEF SingletonInv, Calm, ServedQuit, ServedOnceUntroubled, Owners, Owning
<1> QED BY <1>1, SingletonInvariant, PTL

\* The two together: what the lock promises as long as nothing goes wrong.
THEOREM UntroubledSafety == Spec => []UntroubledIsSafe
<1>1. AtMostOneUntroubled /\ ServedOnceUntroubled => UntroubledIsSafe
  BY DEF UntroubledIsSafe
<1> QED BY <1>1, MutualExclusion, ServedOnce, PTL

\* A process whose Create failed kills nobody, whatever goes wrong.
THEOREM GentleSecondRound == Spec => []SecondRoundIsGentle
<1>1. SingletonInv => SecondRoundIsGentle
  BY DEF SingletonInv, ClientInv
<1> QED BY <1>1, SingletonInvariant, PTL


================================================================================
