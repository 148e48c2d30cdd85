------------------------ MODULE PepperFlashSettings_proofs ------------------------
(***************************************************************************)
(* No request to the Flash settings is lost, answered twice or sent out of *)
(* order, and detaching is the last that happens to a core, for any number *)
(* of requests.                                                            *)
(***************************************************************************)
EXTENDS PepperFlashSettings, SequenceTheorems, TLAPS

-----------------------------------------------------------------------------
(* Sequences *)

LEMMA TailFacts ==
    ASSUME NEW S, NEW s \in Seq(S), s # <<>>
    PROVE  /\ Head(s) \in S /\ Tail(s) \in Seq(S)
           /\ 1 \in DOMAIN s /\ s[1] = Head(s)
           /\ \A i \in DOMAIN Tail(s) : i + 1 \in DOMAIN s /\ Tail(s)[i] = s[i + 1]
           /\ Range(s) = {Head(s)} \cup Range(Tail(s))
<1>1. /\ Head(s) \in S /\ Tail(s) \in Seq(S) /\ Len(Tail(s)) = Len(s) - 1
      /\ \A i \in 1..Len(Tail(s)) : Tail(s)[i] = s[i + 1]
  BY HeadTailProperties
<1>2. Len(s) \in Nat \ {0} /\ DOMAIN s = 1..Len(s) /\ DOMAIN Tail(s) = 1..Len(Tail(s))
  BY <1>1, LenProperties, EmptySeq
<1>3. 1 \in DOMAIN s /\ s[1] = Head(s)
  BY <1>2
<1>4. \A i \in DOMAIN Tail(s) : i + 1 \in DOMAIN s /\ Tail(s)[i] = s[i + 1]
  BY <1>1, <1>2
<1>5. \A i \in DOMAIN s : i = 1 \/ (i - 1 \in DOMAIN Tail(s) /\ Tail(s)[i - 1] = s[i])
  BY <1>1, <1>2
<1>6. Range(s) = {Head(s)} \cup Range(Tail(s))
  BY <1>3, <1>4, <1>5 DEF Range
<1>. QED
  BY <1>1, <1>3, <1>4, <1>6

LEMMA AppendFacts ==
    ASSUME NEW S, NEW s \in Seq(S), NEW e \in S
    PROVE  /\ Append(s, e) \in Seq(S)
           /\ DOMAIN Append(s, e) = DOMAIN s \cup {Len(s) + 1}
           /\ \A i \in DOMAIN s : i \in Nat /\ i < Len(s) + 1 /\ Append(s, e)[i] = s[i]
           /\ Append(s, e)[Len(s) + 1] = e /\ Len(s) \in Nat
           /\ Range(Append(s, e)) = Range(s) \cup {e}
<1>1. /\ Append(s, e) \in Seq(S) /\ Len(Append(s, e)) = Len(s) + 1
      /\ \A i \in 1..Len(s) : Append(s, e)[i] = s[i]
      /\ Append(s, e)[Len(s) + 1] = e
  BY AppendProperties
<1>2. Len(s) \in Nat /\ DOMAIN s = 1..Len(s) /\ DOMAIN Append(s, e) = 1..(Len(s) + 1)
  BY <1>1, LenProperties
<1>3. DOMAIN Append(s, e) = DOMAIN s \cup {Len(s) + 1}
  BY <1>2
<1>4. Range(Append(s, e)) = Range(s) \cup {e}
  BY <1>1, <1>2, <1>3 DEF Range
<1>. QED
  BY <1>1, <1>2, <1>3, <1>4

\* The indices of a sequence.
LEMMA IndexFacts ==
    ASSUME NEW S, NEW s \in Seq(S)
    PROVE  /\ DOMAIN s \subseteq Nat \ {0} /\ \A i \in DOMAIN s : s[i] \in S
           /\ Range(s) \subseteq S
           /\ \A i \in DOMAIN s : 1..(i - 1) \subseteq DOMAIN s
<1>1. Len(s) \in Nat /\ DOMAIN s = 1..Len(s)
  BY LenProperties
<1>2. \A i \in DOMAIN s : s[i] \in S
  BY <1>1, ElementOfSeq
<1>. QED
  BY <1>1, <1>2 DEF Range

-----------------------------------------------------------------------------
(* The invariant *)

\* Tasks of the IO thread: requests come in the order of their ids, a core that is
\* detached gets nothing else afterwards, and each core is initialized once.
InOrder(s) ==
    \A i, j \in DOMAIN s :
        i < j /\ s[i].kind = "request" /\ s[j].kind = "request" => s[i].id < s[j].id
DetachedLast(s) ==
    \A i, j \in DOMAIN s :
        i < j /\ s[i].kind = "detach" /\ s[i].core = s[j].core => s[j].kind = "detach"
InitializedOnce(s) ==
    \A i, j \in DOMAIN s :
        s[i].kind = "initialize" /\ s[j].kind = "initialize" /\ s[i].core = s[j].core => i = j

\* No request is in two answers on their way.
PostedOnce(s) == \A i, j \in DOMAIN s : \A r \in s[i].ids : r \in s[j].ids => i = j

Increasing(s) == \A i, j \in DOMAIN s : i < j => s[i] < s[j]

\* Where a request may be before its answer: in a task of the IO thread, held by a
\* core, or in a task of the UI thread.
Asked(r) == \E t \in Range(io) : t.kind = "request" /\ t.id = r
Held(c, r) == r \in Range(queued[c]) \/ r \in unreplied[c]
Posted(r) == \E t \in Range(ui) : r \in t.ids
HasLeft(r) ==
    \/ answers[r] > 0 \/ Posted(r)
    \/ \E c \in Cores : Held(c, r) \/ r \in Range(sent[c])

IoInv ==
    /\ InOrder(io) /\ DetachedLast(io) /\ InitializedOnce(io)
    /\ \A t \in Range(io) :
          /\ t.core <= cores
          /\ t.kind = "request" => t.id \in 1..made
          /\ t.kind = "initialize" =>
                state[t.core] = "uninitialized" /\ t.core \notin connecting
          /\ t.kind = "detach" =>
                core # t.core /\ (alive => state[t.core] \in {"error", "detached"})
          /\ t.kind # "detach" => state[t.core] # "detached"

UiInv ==
    \A t \in Range(ui) :
       /\ t.core <= cores
       /\ t.kind = "error" => state[t.core] \in {"error", "detached"}
       /\ t.kind = "completed" => \E r \in Requests : t.ids = {r}

\* The IO thread takes requests in order, and one it has taken is in one place only.
PlacesInv ==
    /\ \A r \in Requests : HasLeft(r) =>
          r <= made /\ \A t \in Range(io) : t.kind = "request" => r < t.id
    /\ PostedOnce(ui)
    /\ \A r \in Requests : Posted(r) => answers[r] = 0 /\ \A c \in Cores : ~Held(c, r)
    /\ \A r \in Requests : \A c \in Cores : Held(c, r) =>
          answers[r] = 0 /\ \A d \in Cores : Held(d, r) => c = d
    /\ AnsweredOnce
    /\ alive => \A r \in 1..made :
          answers[r] = 0 => Asked(r) \/ Posted(r) \/ \E c \in Cores : Held(c, r)

OrderInv == \A c \in Cores : Increasing(queued[c]) /\ Increasing(sent[c])

\* A core that failed holds nothing, a channel is opened for a core once, and
\* a core is the manager's until a task to detach it is posted.
CoreInv ==
    /\ \A c \in Cores :
          /\ state[c] = "error" => queued[c] = <<>> /\ unreplied[c] = {}
          /\ alive /\ state[c] = "detached" => queued[c] = <<>> /\ unreplied[c] = {}
          /\ c \in connecting => state[c] \in {"uninitialized", "detached"}
          /\ channel[c] # "none" => c \notin connecting /\ state[c] # "uninitialized"
          /\ c > cores => state[c] = "uninitialized" /\ c \notin connecting
    /\ cores <= made
    /\ core # 0 => state[core] # "detached"
    /\ \A c \in 1..cores :
          \/ core = c \/ state[c] = "detached"
          \/ \E t \in Range(io) : t.kind = "detach" /\ t.core = c

FlashInv == TypeOK /\ IoInv /\ UiInv /\ PlacesInv /\ OrderInv /\ CoreInv

LEMMA TaskTypes ==
    ASSUME TypeOK
    PROVE  /\ Range(io) \subseteq IoTasks /\ Range(ui) \subseteq UiTasks
           /\ \A t \in Range(io) : /\ t.core \in Cores
                                   /\ t.kind \in {"initialize", "request", "detach"}
           /\ \A t \in Range(ui) : /\ t.core \in Cores /\ t.kind \in {"error", "completed"}
                                   /\ t.ids \subseteq Requests
           /\ \A c \in Cores : /\ Range(queued[c]) \subseteq Requests
                               /\ Range(sent[c]) \subseteq Requests
<1>1. Range(io) \subseteq IoTasks
  BY IndexFacts DEF TypeOK
<1>2. Range(ui) \subseteq UiTasks
  BY IndexFacts DEF TypeOK
<1>3. \A s \in Seq(Requests) : Range(s) \subseteq Requests
  BY IndexFacts
<1>4. \A c \in Cores : queued[c] \in Seq(Requests) /\ sent[c] \in Seq(Requests)
  BY DEF TypeOK
<1>. QED
  BY <1>1, <1>2, <1>3, <1>4 DEF IoTasks, UiTasks

-----------------------------------------------------------------------------
(* Tasks taken and posted *)

LEMMA IoTail ==
    ASSUME NEW s \in Seq(IoTasks), s # <<>>,
           InOrder(s), DetachedLast(s), InitializedOnce(s)
    PROVE  /\ InOrder(Tail(s)) /\ DetachedLast(Tail(s)) /\ InitializedOnce(Tail(s))
           /\ \A t \in Range(Tail(s)) :
                 /\ Head(s).kind = "request" /\ t.kind = "request" => Head(s).id < t.id
                 /\ Head(s).kind = "detach" /\ t.core = Head(s).core => t.kind = "detach"
                 /\ Head(s).kind = "initialize" /\ t.core = Head(s).core
                       => t.kind # "initialize"
<1>1. /\ 1 \in DOMAIN s /\ s[1] = Head(s)
      /\ \A i \in DOMAIN Tail(s) : i + 1 \in DOMAIN s /\ Tail(s)[i] = s[i + 1]
      /\ Tail(s) \in Seq(IoTasks)
  BY TailFacts
<1>2. DOMAIN Tail(s) \subseteq Nat \ {0}
  BY <1>1, IndexFacts
<1>3. InOrder(Tail(s))
  BY <1>1, <1>2 DEF InOrder
<1>4. DetachedLast(Tail(s))
  BY <1>1, <1>2 DEF DetachedLast
<1>5. InitializedOnce(Tail(s))
  BY <1>1, <1>2 DEF InitializedOnce
<1>6. ASSUME NEW t \in Range(Tail(s))
      PROVE  /\ Head(s).kind = "request" /\ t.kind = "request" => Head(s).id < t.id
             /\ Head(s).kind = "detach" /\ t.core = Head(s).core => t.kind = "detach"
             /\ Head(s).kind = "initialize" /\ t.core = Head(s).core
                   => t.kind # "initialize"
  <2>1. PICK i \in DOMAIN Tail(s) : t = Tail(s)[i]
    BY DEF Range
  <2>2. i + 1 \in DOMAIN s /\ t = s[i + 1] /\ 1 < i + 1
    BY <1>1, <1>2, <2>1
  <2>. QED
    BY <1>1, <2>2 DEF InOrder, DetachedLast, InitializedOnce
<1>. QED
  BY <1>3, <1>4, <1>5, <1>6

LEMMA IoAppend ==
    ASSUME NEW s \in Seq(IoTasks), NEW e \in IoTasks,
           InOrder(s), DetachedLast(s), InitializedOnce(s),
           \A t \in Range(s) :
              /\ t.kind = "request" /\ e.kind = "request" => t.id < e.id
              /\ t.kind = "detach" /\ t.core = e.core => e.kind = "detach"
              /\ t.kind = "initialize" /\ e.kind = "initialize" => t.core # e.core
    PROVE  InOrder(Append(s, e)) /\ DetachedLast(Append(s, e)) /\ InitializedOnce(Append(s, e))
<1>. DEFINE q == Append(s, e)
            n == Len(s) + 1
<1>1. /\ DOMAIN q = DOMAIN s \cup {n} /\ q[n] = e /\ n \in Nat
      /\ \A i \in DOMAIN s : i \in Nat /\ i < n /\ q[i] = s[i]
  BY AppendFacts
<1>2. \A i \in DOMAIN s : s[i] \in Range(s)
  BY DEF Range
<1>. HIDE DEF q, n
<1>3. InOrder(q)
  BY <1>1, <1>2 DEF InOrder
<1>4. DetachedLast(q)
  BY <1>1, <1>2 DEF DetachedLast
<1>5. InitializedOnce(q)
  BY <1>1, <1>2 DEF InitializedOnce
<1>. QED
  BY <1>3, <1>4, <1>5 DEF q

LEMMA UiTail ==
    ASSUME NEW s \in Seq(UiTasks), s # <<>>, PostedOnce(s)
    PROVE  /\ PostedOnce(Tail(s))
           /\ \A t \in Range(Tail(s)) : t.ids \cap Head(s).ids = {}
<1>1. /\ 1 \in DOMAIN s /\ s[1] = Head(s)
      /\ \A i \in DOMAIN Tail(s) : i + 1 \in DOMAIN s /\ Tail(s)[i] = s[i + 1]
      /\ Tail(s) \in Seq(UiTasks)
  BY TailFacts
<1>2. DOMAIN Tail(s) \subseteq Nat \ {0}
  BY <1>1, IndexFacts
<1>3. PostedOnce(Tail(s))
  BY <1>1, <1>2 DEF PostedOnce
<1>4. ASSUME NEW t \in Range(Tail(s))
      PROVE  t.ids \cap Head(s).ids = {}
  <2>1. PICK i \in DOMAIN Tail(s) : t = Tail(s)[i]
    BY DEF Range
  <2>2. i + 1 \in DOMAIN s /\ t = s[i + 1] /\ 1 # i + 1
    BY <1>1, <1>2, <2>1
  <2>. QED
    BY <1>1, <2>2 DEF PostedOnce
<1>. QED
  BY <1>3, <1>4

LEMMA UiAppend ==
    ASSUME NEW s \in Seq(UiTasks), NEW e \in UiTasks, PostedOnce(s),
           \A t \in Range(s) : t.ids \cap e.ids = {}
    PROVE  PostedOnce(Append(s, e))
<1>. DEFINE q == Append(s, e)
            n == Len(s) + 1
<1>1. /\ DOMAIN q = DOMAIN s \cup {n} /\ q[n] = e
      /\ \A i \in DOMAIN s : q[i] = s[i]
  BY AppendFacts
<1>2. \A i \in DOMAIN s : s[i] \in Range(s)
  BY DEF Range
<1>. HIDE DEF q, n
<1>3. PostedOnce(q)
  BY <1>1, <1>2 DEF PostedOnce
<1>. QED
  BY <1>3 DEF q

LEMMA IncreasingAppend ==
    ASSUME NEW s \in Seq(Requests), NEW r \in Requests, Increasing(s),
           \A q \in Range(s) : q < r
    PROVE  Increasing(Append(s, r))
<1>. DEFINE q == Append(s, r)
            n == Len(s) + 1
<1>1. /\ DOMAIN q = DOMAIN s \cup {n} /\ q[n] = r /\ n \in Nat
      /\ \A i \in DOMAIN s : i \in Nat /\ i < n /\ q[i] = s[i]
  BY AppendFacts
<1>2. \A i \in DOMAIN s : s[i] \in Range(s)
  BY DEF Range
<1>. HIDE DEF q, n
<1>3. Increasing(q)
  BY <1>1, <1>2 DEF Increasing
<1>. QED
  BY <1>3 DEF q

-----------------------------------------------------------------------------
(* The initial state *)

LEMMA InitFlash == Init => FlashInv
<1>. SUFFICES ASSUME Init PROVE FlashInv
  OBVIOUS
<1>. USE BoundAssumption
<1>1. /\ <<>> \in Seq(UiTasks) /\ <<>> \in Seq(IoTasks) /\ <<>> \in Seq(Requests)
      /\ DOMAIN <<>> = {} /\ Range(<<>>) = {}
  BY EmptySeq DEF Range
<1>2. TypeOK
  BY <1>1 DEF Init, TypeOK, Cores, Requests
<1>3. IoInv /\ UiInv
  BY <1>1 DEF Init, IoInv, UiInv, InOrder, DetachedLast, InitializedOnce
<1>4. OrderInv
  BY <1>1 DEF Init, OrderInv, Increasing
<1>5. CoreInv
  BY <1>1 DEF Init, CoreInv, Cores
<1>6. PlacesInv
  <2>1. \A r \in Requests : ~HasLeft(r) /\ ~Posted(r) /\ answers[r] = 0
    BY <1>1 DEF Init, HasLeft, Posted, Held
  <2>2. \A r \in Requests : \A c \in Cores : ~Held(c, r)
    BY <1>1 DEF Init, Held
  <2>3. PostedOnce(ui)
    BY <1>1 DEF Init, PostedOnce
  <2>4. 1..made = {}
    BY DEF Init
  <2>. QED
    BY <2>1, <2>2, <2>3, <2>4 DEF PlacesInv, AnsweredOnce
<1>. QED
  BY <1>2, <1>3, <1>4, <1>5, <1>6 DEF FlashInv

-----------------------------------------------------------------------------
(* The manager *)

\* A task for a core of the manager's, which is neither detached nor about to be.
LEMMA MakeRequestStep ==
    ASSUME FlashInv, MakeRequest
    PROVE  FlashInv'
<1>. USE DEF FlashInv
<1>1. /\ alive /\ made \in Nat /\ made < MaxRequests /\ made' = made + 1 /\ made' \in 0..MaxRequests
      /\ cores \in Nat /\ core \in 0..cores /\ cores <= made
      /\ UNCHANGED <<alive, ui, state, queued, unreplied, connecting, channel, sent, replied,
                     answers>>
      /\ made + 1 \in Requests
  BY BoundAssumption DEF MakeRequest, TypeOK, CoreInv, work, broker, Requests
<1>2. io \in Seq(IoTasks) /\ Range(io) \subseteq IoTasks
  BY IndexFacts DEF TypeOK
<1>. DEFINE c == IF core = 0 THEN cores + 1 ELSE core
            s == IF core = 0 THEN Append(io, IoTask("initialize", c, 0)) ELSE io
            e == IoTask("request", c, made + 1)
<1>3. /\ c \in Cores /\ c <= cores' /\ cores' \in Nat /\ cores' <= made' /\ core' = c
      /\ cores <= cores'
      /\ core = 0 => cores' = cores + 1
      /\ core # 0 => cores' = cores
  <2>1. CASE core = 0
    <3>1. core' = cores + 1 /\ cores' = cores + 1
      BY <2>1 DEF MakeRequest, EnsureCoreExists
    <3>. QED
      BY <1>1, <2>1, <3>1, BoundAssumption DEF Cores
  <2>2. CASE core # 0
    <3>1. core' = core /\ cores' = cores
      BY <2>2 DEF MakeRequest, EnsureCoreExists
    <3>. QED
      BY <1>1, <2>2, <3>1, BoundAssumption DEF Cores
  <2>. QED
    BY <2>1, <2>2
<1>4. IoTask("initialize", c, 0) \in IoTasks /\ e \in IoTasks
  BY <1>1, <1>3, BoundAssumption DEF IoTask, IoTasks, Requests
<1>5. s \in Seq(IoTasks)
  BY <1>2, <1>4, AppendProperties
<1>6. io' = Append(s, e)
  <2>1. CASE core # 0
    BY <2>1 DEF MakeRequest, EnsureCoreExists
  <2>2. CASE core = 0
    <3>1. io' = io \o <<IoTask("initialize", c, 0), e>>
      BY <2>2 DEF MakeRequest, EnsureCoreExists
    <3>. HIDE DEF e, c
    <3>2. Append(Append(io, IoTask("initialize", c, 0)), e)
              = io \o <<IoTask("initialize", c, 0), e>>
      BY <1>2, <1>4
    <3>. QED
      BY <2>2, <3>1, <3>2
  <2>. QED
    BY <2>1, <2>2
<1>7. \A t \in Range(io) :
         /\ t.core <= cores /\ t.core \in Cores /\ t.kind \in {"initialize", "request", "detach"}
         /\ t.kind = "request" => t.id < made + 1
         /\ core # 0 /\ t.kind = "detach" => t.core # c
         /\ t.core = c => core # 0
  BY <1>1, <1>2, <1>3 DEF IoInv, IoTasks, Cores
<1>8. /\ state[c] # "detached" /\ state[c] \in {"uninitialized", "initialized", "error", "detached"}
      /\ core = 0 => state[c] = "uninitialized" /\ c \notin connecting
  BY <1>1, <1>3 DEF CoreInv, TypeOK
<1>9. /\ core = 0 => Range(s) = Range(io) \cup {IoTask("initialize", c, 0)}
      /\ core # 0 => Range(s) = Range(io)
      /\ Range(io') = Range(s) \cup {e} /\ io' \in Seq(IoTasks)
      /\ Range(io) \subseteq Range(io') /\ e \in Range(io')
  <2>. DEFINE g == IoTask("initialize", c, 0)
  <2>1. Append(s, e) \in Seq(IoTasks) /\ Range(Append(s, e)) = Range(s) \cup {e}
    <3>. HIDE DEF s, e
    <3>. QED
      BY <1>4, <1>5, AppendFacts
  <2>2. Range(Append(io, g)) = Range(io) \cup {g}
    <3>. HIDE DEF g
    <3>. QED
      BY <1>2, <1>4, AppendFacts DEF g
  <2>3. core = 0 => s = Append(io, g)
    OBVIOUS
  <2>4. core # 0 => s = io
    OBVIOUS
  <2>. HIDE DEF s, e, g
  <2>. QED
    BY <1>6, <2>1, <2>2, <2>3, <2>4 DEF g
<1>. HIDE DEF c, s
<1>10. InOrder(s) /\ DetachedLast(s) /\ InitializedOnce(s)
  <2>1. CASE core # 0
    BY <2>1 DEF IoInv, s
  <2>2. CASE core = 0
    <3>1. s = Append(io, IoTask("initialize", c, 0))
      BY <2>2 DEF s
    <3>2. \A t \in Range(io) : t.core # c
      BY <1>7, <2>2
    <3>. DEFINE g == IoTask("initialize", c, 0)
    <3>3. g.kind = "initialize" /\ g.core = c
      BY DEF IoTask
    <3>. HIDE DEF g
    <3>. QED
      BY <1>2, <1>4, <3>1, <3>2, <3>3, IoAppend DEF IoInv, g
  <2>. QED
    BY <2>1, <2>2
<1>11. e.kind = "request" /\ e.core = c /\ e.id = made + 1
  BY DEF IoTask
<1>12. \A t \in Range(s) :
          /\ t.kind = "request" => t.id < e.id
          /\ t.kind = "detach" => t.core # e.core
  BY <1>1, <1>7, <1>9, <1>11 DEF IoTask
<1>. HIDE DEF e
<1>13. InOrder(io') /\ DetachedLast(io') /\ InitializedOnce(io')
  BY <1>4, <1>5, <1>6, <1>10, <1>11, <1>12, IoAppend
<1>14. TypeOK'
  <2>1. core' \in 0..cores' /\ cores' \in 0..MaxRequests
    BY <1>1, <1>3, BoundAssumption DEF Cores
  <2>. QED
    BY <1>1, <1>9, <2>1 DEF TypeOK
<1>15. \A t \in Range(io') :
          \/ t \in Range(io)
          \/ t = e
          \/ t.kind = "initialize" /\ t.core = c /\ core = 0
  BY <1>9 DEF IoTask
<1>16. IoInv'
  <2>. SUFFICES ASSUME NEW t \in Range(io')
                PROVE  /\ t.core <= cores'
                       /\ t.kind = "request" => t.id \in 1..made'
                       /\ t.kind = "initialize" =>
                             state'[t.core] = "uninitialized" /\ t.core \notin connecting'
                       /\ t.kind = "detach" =>
                             /\ core' # t.core
                             /\ alive' => state'[t.core] \in {"error", "detached"}
                       /\ t.kind # "detach" => state'[t.core] # "detached"
    BY <1>13 DEF IoInv
  <2>1. CASE t \in Range(io)
    <3>1. t.core \in Cores /\ t.core <= cores /\ t.core <= cores'
      BY <1>1, <1>3, <1>7, <2>1 DEF Cores
    <3>2. t.kind = "detach" => core' # t.core
      BY <1>3, <1>7, <2>1
    <3>3. t.kind = "request" => t.id \in 1..made'
      BY <1>1, <2>1 DEF IoInv
    <3>. QED
      BY <1>1, <2>1, <3>1, <3>2, <3>3 DEF IoInv
  <2>2. CASE t = e
    BY <1>1, <1>3, <1>8, <1>11, <2>2
  <2>3. CASE t.kind = "initialize" /\ t.core = c /\ core = 0
    BY <1>1, <1>3, <1>8, <2>3
  <2>. QED
    BY <1>15, <2>1, <2>2, <2>3
<1>17. UiInv'
  <2>1. \A t \in Range(ui) : t.core \in Cores
    BY TaskTypes
  <2>2. \A t \in Range(ui) : t.core <= cores'
    BY <1>1, <1>3, <2>1 DEF UiInv, Cores
  <2>. QED
    BY <1>1, <2>2 DEF UiInv
<1>18. PlacesInv'
  <2>1. /\ \A r \in Requests : (HasLeft(r)' <=> HasLeft(r)) /\ (Posted(r)' <=> Posted(r))
        /\ \A d, r : Held(d, r)' <=> Held(d, r)
    BY <1>1 DEF HasLeft, Posted, Held
  <2>2. \A r \in Requests : HasLeft(r)' =>
            r <= made' /\ \A t \in Range(io') : t.kind = "request" => r < t.id
    BY <1>1, <1>11, <1>15, <2>1 DEF PlacesInv, Requests
  <2>3. \A r : (Asked(r) => Asked(r)') /\ (r = made + 1 => Asked(r)')
    BY <1>9, <1>11 DEF Asked
  <2>4. \A r \in 1..made' : r \in 1..made \/ r = made + 1
    BY <1>1
  <2>5. \A r \in 1..made' :
            answers'[r] = 0 => Asked(r)' \/ Posted(r)' \/ \E d \in Cores : Held(d, r)'
    <3>1. \A r \in 1..made :
             answers'[r] = 0 => Asked(r)' \/ Posted(r)' \/ \E d \in Cores : Held(d, r)'
      <4>1. \A r \in 1..made : r \in Requests
        BY <1>1, BoundAssumption DEF Requests
      <4>. QED
        BY <1>1, <2>1, <2>3, <4>1 DEF PlacesInv
    <3>. QED
      BY <2>3, <2>4, <3>1
  <2>6. \A r \in Requests :
            /\ Posted(r)' => answers'[r] = 0 /\ \A d \in Cores : ~Held(d, r)'
            /\ \A d \in Cores : Held(d, r)' =>
                  answers'[r] = 0 /\ \A f \in Cores : Held(f, r)' => d = f
    BY <1>1, <2>1 DEF PlacesInv
  <2>7. PostedOnce(ui)' /\ AnsweredOnce'
    BY <1>1 DEF PlacesInv, AnsweredOnce
  <2>. QED
    BY <2>2, <2>5, <2>6, <2>7 DEF PlacesInv
<1>19. OrderInv'
  BY <1>1 DEF OrderInv
<1>20. CoreInv'
  <2>1. \A d \in 1..cores' : d \in 1..cores \/ d = core'
    <3>1. CASE core = 0
      <4>1. core' = cores + 1 /\ cores' = cores + 1
        BY <1>3, <3>1 DEF c
      <4>. QED
        BY <1>1, <4>1
    <3>2. CASE core # 0
      BY <1>3, <3>2
    <3>. QED
      BY <3>1, <3>2
  <2>2. \A d \in 1..cores : core = d => core' = d
    BY <1>1, <1>3 DEF c
  <2>3. \A d \in Cores : d > cores' => d > cores
    BY <1>1, <1>3 DEF Cores
  <2>. QED
    BY <1>1, <1>3, <1>8, <1>9, <2>1, <2>2, <2>3 DEF CoreInv
<1>. QED
  BY <1>14, <1>16, <1>17, <1>18, <1>19, <1>20

-----------------------------------------------------------------------------
(* What several steps have in common *)

\* The next task of the IO thread is taken.
LEMMA IoTaskTaken ==
    ASSUME FlashInv, io # <<>>, io' = Tail(io)
    PROVE  /\ io' \in Seq(IoTasks)
           /\ InOrder(io') /\ DetachedLast(io') /\ InitializedOnce(io')
           /\ Range(io) = {Head(io)} \cup Range(io') /\ Head(io) \in Range(io)
           /\ Head(io).core \in Cores /\ Head(io).core <= cores
           /\ \A t \in Range(io') :
                 /\ Head(io).kind = "request" /\ t.kind = "request" => Head(io).id < t.id
                 /\ Head(io).kind = "detach" /\ t.core = Head(io).core => t.kind = "detach"
                 /\ Head(io).kind = "initialize" /\ t.core = Head(io).core
                       => t.kind # "initialize"
<1>1. io \in Seq(IoTasks) /\ InOrder(io) /\ DetachedLast(io) /\ InitializedOnce(io)
  BY DEF FlashInv, TypeOK, IoInv
<1>2. /\ io' \in Seq(IoTasks) /\ Range(io) = {Head(io)} \cup Range(io')
      /\ Head(io) \in Range(io)
  BY <1>1, TailFacts
<1>3. Head(io).core \in Cores /\ Head(io).core <= cores
  BY <1>2, TaskTypes DEF FlashInv, IoInv
<1>. QED
  BY <1>1, <1>2, <1>3, IoTail

\* Requests that only move on: none comes back, and none is lost.
LEMMA PlacesKept ==
    ASSUME FlashInv, alive' => alive, UNCHANGED <<made, answers>>,
           PostedOnce(ui'),
           \A t \in Range(io') : t.kind = "request" => t \in Range(io),
           \A r \in Requests : HasLeft(r)' => HasLeft(r),
           \A r \in Requests : \A c \in Cores : Held(c, r)' => Held(c, r) /\ ~Posted(r)',
           \A r \in Requests : Posted(r)' => Posted(r) \/ \E c \in Cores : Held(c, r),
           alive' => \A r \in Requests :
               Asked(r) \/ Posted(r) \/ (\E c \in Cores : Held(c, r))
                   => Asked(r)' \/ Posted(r)' \/ \E c \in Cores : Held(c, r)'
    PROVE  PlacesInv'
<1>. USE DEF FlashInv
<1>1. \A r \in Requests : HasLeft(r)' =>
          r <= made' /\ \A t \in Range(io') : t.kind = "request" => r < t.id
  BY DEF PlacesInv
<1>2. \A r \in Requests : Posted(r)' => answers'[r] = 0 /\ \A c \in Cores : ~Held(c, r)'
  BY DEF PlacesInv
<1>3. \A r \in Requests : \A c \in Cores : Held(c, r)' =>
          answers'[r] = 0 /\ \A d \in Cores : Held(d, r)' => c = d
  BY DEF PlacesInv
<1>4. alive' => \A r \in 1..made' :
          answers'[r] = 0 => Asked(r)' \/ Posted(r)' \/ \E c \in Cores : Held(c, r)'
  <2>1. \A r \in 1..made : r \in Requests
    BY BoundAssumption DEF TypeOK, Requests
  <2>. QED
    BY <2>1 DEF PlacesInv
<1>5. AnsweredOnce'
  BY DEF PlacesInv, AnsweredOnce
<1>. QED
  BY <1>1, <1>2, <1>3, <1>4, <1>5 DEF PlacesInv

\* A core fails: whatever it holds is answered, the request it was about to send too.
LEMMA NotifyErrorPreserves ==
    ASSUME FlashInv, NEW k \in Cores, NEW ids \in SUBSET Requests,
           state[k] # "detached", k <= cores, NotifyErrorFromIOThread(k, ids),
           UNCHANGED <<manager, sent, replied, answers>>,
           io' \in Seq(IoTasks), InOrder(io'), DetachedLast(io'), InitializedOnce(io'),
           Range(io') \subseteq Range(io),
           \A t \in Range(io) : t.kind = "detach" => t \in Range(io'),
           \A t \in Range(io') : t.kind = "initialize" => t.core # k,
           \A r \in Requests : Asked(r) => Asked(r)' \/ r \in ids,
           \A r \in ids :
              /\ ~HasLeft(r) /\ r <= made
              /\ \A t \in Range(io') : t.kind = "request" => r < t.id,
           connecting' \subseteq connecting, k \notin connecting',
           channel' \in [Cores -> {"none", "open", "broken"}],
           \A d \in Cores : channel'[d] = "none" <=> channel[d] = "none"
    PROVE  FlashInv'
<1>. USE DEF FlashInv
<1>. DEFINE e == ErrorTask(k, Range(queued[k]) \cup unreplied[k] \cup ids)
<1>1. /\ state' = [state EXCEPT ![k] = "error"] /\ ui' = Append(ui, e)
      /\ queued' = [queued EXCEPT ![k] = <<>>] /\ unreplied' = [unreplied EXCEPT ![k] = {}]
  BY DEF NotifyErrorFromIOThread
<1>2. /\ queued[k] \in Seq(Requests) /\ Range(queued[k]) \subseteq Requests
      /\ unreplied[k] \subseteq Requests
  BY TaskTypes DEF TypeOK
<1>3. /\ e \in UiTasks /\ e.kind = "error" /\ e.core = k
      /\ e.ids = Range(queued[k]) \cup unreplied[k] \cup ids
  BY <1>2 DEF ErrorTask, UiTasks
<1>4. UNCHANGED <<alive, made, core, cores>>
  BY DEF manager
<1>. HIDE DEF e
<1>5. ui \in Seq(UiTasks) /\ ui' \in Seq(UiTasks) /\ Range(ui') = Range(ui) \cup {e}
  BY <1>1, <1>3, AppendFacts DEF TypeOK
<1>6. <<>> \in Seq(Requests) /\ DOMAIN <<>> = {} /\ Range(<<>>) = {}
  BY EmptySeq DEF Range
<1>7. /\ \A d \in Cores : d # k =>
            state'[d] = state[d] /\ queued'[d] = queued[d] /\ unreplied'[d] = unreplied[d]
      /\ state'[k] = "error" /\ queued'[k] = <<>> /\ unreplied'[k] = {}
  BY <1>1 DEF TypeOK
<1>8. TypeOK'
  <2>1. /\ state' \in [Cores -> {"uninitialized", "initialized", "error", "detached"}]
        /\ queued' \in [Cores -> Seq(Requests)] /\ unreplied' \in [Cores -> SUBSET Requests]
    BY <1>1, <1>6 DEF TypeOK
  <2>2. \A d \in Cores :
            /\ state'[d] = "initialized" => channel'[d] # "none" /\ queued'[d] = <<>>
            /\ state'[d] = "uninitialized" => unreplied'[d] = {}
    BY <1>7 DEF TypeOK
  <2>3. /\ alive' \in BOOLEAN /\ made' \in 0..MaxRequests
        /\ core' \in 0..cores' /\ cores' \in 0..MaxRequests
        /\ connecting' \subseteq Cores /\ sent' \in [Cores -> Seq(Requests)]
        /\ replied' \subseteq Requests /\ answers' \in [Requests -> 0..MaxRequests]
    BY <1>4 DEF TypeOK
  <2>. QED
    BY <1>5, <2>1, <2>2, <2>3 DEF TypeOK
<1>9. /\ \A d \in Cores : \A r : Held(d, r)' <=> d # k /\ Held(d, r)
      /\ \A r : Posted(r)' <=> Posted(r) \/ r \in ids \/ Held(k, r)
  <2>1. \A d \in Cores : \A r : Held(d, r)' <=> d # k /\ Held(d, r)
    BY <1>6, <1>7 DEF Held
  <2>2. \A r : Posted(r)' <=> Posted(r) \/ r \in e.ids
    BY <1>5 DEF Posted
  <2>. QED
    BY <1>3, <2>1, <2>2 DEF Held
<1>10. \A r \in ids : ~Posted(r) /\ answers[r] = 0 /\ \A d \in Cores : ~Held(d, r)
  BY DEF HasLeft, TypeOK
<1>11. PlacesInv'
  <2>1. \A r \in Requests : HasLeft(r)' <=> HasLeft(r) \/ r \in ids
    BY <1>9 DEF HasLeft
  <2>2. \A r \in Requests : HasLeft(r)' =>
            r <= made' /\ \A t \in Range(io') : t.kind = "request" => r < t.id
    BY <1>4, <2>1 DEF PlacesInv
  <2>3. PostedOnce(ui')
    <3>1. \A t \in Range(ui) : t.ids \cap e.ids = {}
      <4>1. \A r : r \in e.ids <=> r \in ids \/ Held(k, r)
        BY <1>3 DEF Held
      <4>2. \A r \in e.ids : r \in Requests
        BY <1>2, <1>3
      <4>. QED
        BY <1>10, <4>1, <4>2 DEF PlacesInv, Posted
    <3>. QED
      BY <1>1, <1>3, <1>5, <3>1, UiAppend DEF PlacesInv
  <2>4. \A r \in Requests : Posted(r)' => answers'[r] = 0 /\ \A d \in Cores : ~Held(d, r)'
    BY <1>9, <1>10 DEF PlacesInv
  <2>5. \A r \in Requests : \A d \in Cores : Held(d, r)' =>
            answers'[r] = 0 /\ \A f \in Cores : Held(f, r)' => d = f
    BY <1>9 DEF PlacesInv
  <2>6. AnsweredOnce'
    BY DEF PlacesInv, AnsweredOnce
  <2>7. alive' => \A r \in 1..made' :
            answers'[r] = 0 => Asked(r)' \/ Posted(r)' \/ \E d \in Cores : Held(d, r)'
    <3>1. \A r \in 1..made : r \in Requests
      BY BoundAssumption DEF TypeOK, Requests
    <3>. QED
      BY <1>4, <1>9, <3>1 DEF PlacesInv
  <2>. QED
    BY <2>2, <2>3, <2>4, <2>5, <2>6, <2>7 DEF PlacesInv
<1>12. IoInv'
  <2>1. \A t \in Range(io') : t.core \in Cores /\ t \in Range(io)
    BY TaskTypes
  <2>. QED
    BY <1>4, <1>7, <2>1 DEF IoInv
<1>13. UiInv'
  <2>1. \A t \in Range(ui) : t.core \in Cores
    BY TaskTypes
  <2>. QED
    BY <1>3, <1>4, <1>5, <1>7, <2>1 DEF UiInv
<1>14. OrderInv'
  BY <1>6, <1>7 DEF OrderInv, Increasing
<1>15. CoreInv'
  <2>1. /\ \A d \in Cores :
             /\ state'[d] = "error" => queued'[d] = <<>> /\ unreplied'[d] = {}
             /\ alive' /\ state'[d] = "detached" => queued'[d] = <<>> /\ unreplied'[d] = {}
             /\ d \in connecting' => state'[d] \in {"uninitialized", "detached"}
             /\ channel'[d] # "none" => d \notin connecting' /\ state'[d] # "uninitialized"
             /\ d > cores' => state'[d] = "uninitialized" /\ d \notin connecting'
    <3>. SUFFICES ASSUME NEW d \in Cores
                  PROVE  /\ state'[d] = "error" => queued'[d] = <<>> /\ unreplied'[d] = {}
                         /\ alive' /\ state'[d] = "detached"
                              => queued'[d] = <<>> /\ unreplied'[d] = {}
                         /\ d \in connecting' => state'[d] \in {"uninitialized", "detached"}
                         /\ channel'[d] # "none"
                              => d \notin connecting' /\ state'[d] # "uninitialized"
                         /\ d > cores' => state'[d] = "uninitialized" /\ d \notin connecting'
      OBVIOUS
    <3>1. CASE d = k
      BY <1>4, <1>7, <3>1 DEF TypeOK, Cores
    <3>2. CASE d # k
      BY <1>4, <1>7, <3>2 DEF CoreInv
    <3>. QED
      BY <3>1, <3>2
  <2>2. \A d \in 1..cores : d \in Cores
    BY BoundAssumption DEF TypeOK, Cores
  <2>3. core' # 0 => state'[core'] # "detached"
    BY <1>4, <1>7, <2>2 DEF CoreInv, TypeOK
  <2>. QED
    BY <1>4, <1>7, <2>1, <2>2, <2>3 DEF CoreInv
<1>. QED
  BY <1>8, <1>11, <1>12, <1>13, <1>14, <1>15

\* The last task of a core is posted.
LEMMA DetachPreserves ==
    ASSUME FlashInv, core # 0, Detach, core' = 0,
           alive' => alive /\ state[core] \in {"error", "detached"},
           UNCHANGED <<made, cores, work, broker>>
    PROVE  /\ io' \in Seq(IoTasks) /\ IoInv' /\ CoreInv'
           /\ \A t : t.kind = "request" => (t \in Range(io') <=> t \in Range(io))
<1>. USE DEF FlashInv
<1>. DEFINE e == IoTask("detach", core, 0)
<1>1. core \in Cores /\ core <= cores /\ core \in 1..cores
  BY BoundAssumption DEF TypeOK, Cores
<1>2. e \in IoTasks /\ e.kind = "detach" /\ e.core = core
  BY <1>1, BoundAssumption DEF TypeOK, IoTask, IoTasks
<1>3. io' = Append(io, e)
  BY DEF Detach
<1>. HIDE DEF e
<1>4. io' \in Seq(IoTasks) /\ Range(io') = Range(io) \cup {e}
  BY <1>2, <1>3, AppendFacts DEF TypeOK
<1>5. InOrder(io') /\ DetachedLast(io') /\ InitializedOnce(io')
  BY <1>2, <1>3, IoAppend DEF IoInv, TypeOK
<1>6. UNCHANGED <<made, cores, state, queued, unreplied, connecting, channel>>
  BY DEF work, broker
<1>7. \A t \in Range(io) : t.core \in Cores
  BY TaskTypes
<1>8. IoInv'
  <2>1. \A t \in Range(io) : t.kind = "detach" => core' # t.core
    BY <1>1, <1>7, BoundAssumption DEF Cores
  <2>2. core' # core
    BY <1>1
  <2>. QED
    BY <1>1, <1>2, <1>4, <1>5, <1>6, <2>1, <2>2 DEF IoInv
<1>9. CoreInv'
  BY <1>1, <1>2, <1>4, <1>6 DEF CoreInv
<1>. QED
  BY <1>2, <1>4, <1>8, <1>9

LEMMA DestroyManagerStep ==
    ASSUME FlashInv, DestroyManager
    PROVE  FlashInv'
<1>. USE DEF FlashInv
<1>1. /\ ~alive' /\ alive' \in BOOLEAN /\ core' = 0
      /\ UNCHANGED <<made, cores, ui, state, queued, unreplied, connecting, channel, sent, replied,
                     answers>>
      /\ UNCHANGED <<work, broker>>
  BY DEF DestroyManager, work, broker
<1>2. /\ io' \in Seq(IoTasks) /\ IoInv' /\ CoreInv'
      /\ \A t : t.kind = "request" => (t \in Range(io') <=> t \in Range(io))
  <2>1. CASE core = 0
    <3>1. UNCHANGED <<io, core>>
      BY <1>1, <2>1 DEF DestroyManager
    <3>. QED
      BY <1>1, <3>1 DEF TypeOK, IoInv, CoreInv
  <2>2. CASE core # 0
    BY <1>1, <2>2, DetachPreserves DEF DestroyManager
  <2>. QED
    BY <2>1, <2>2
<1>3. TypeOK'
  BY <1>1, <1>2 DEF TypeOK
<1>4. \A r \in Requests : \A c \in Cores : ~(Posted(r) /\ Held(c, r))
  BY DEF PlacesInv
<1>5. PlacesInv'
  <2>1. \A r : /\ HasLeft(r)' <=> HasLeft(r)
               /\ Posted(r)' <=> Posted(r)
               /\ \A c : Held(c, r)' <=> Held(c, r)
    BY <1>1 DEF HasLeft, Posted, Held
  <2>2. PostedOnce(ui')
    BY <1>1 DEF PlacesInv
  <2>3. \A t \in Range(io') : t.kind = "request" => t \in Range(io)
    BY <1>2
  <2>4. UNCHANGED <<made, answers>> /\ (alive' => alive)
    BY <1>1
  <2>. HIDE DEF FlashInv
  <2>. QED
    BY <1>1, <1>4, <2>1, <2>2, <2>3, <2>4, PlacesKept
<1>6. UiInv' /\ OrderInv'
  BY <1>1 DEF UiInv, OrderInv
<1>. QED
  BY <1>2, <1>3, <1>5, <1>6

-----------------------------------------------------------------------------
(* The core, on the IO thread *)

LEMMA InitializeStep ==
    ASSUME FlashInv, InitializeOnIOThread
    PROVE  FlashInv'
<1>. USE DEF FlashInv
<1>. DEFINE k == Head(io).core
<1>1. io # <<>> /\ io' = Tail(io) /\ Head(io).kind = "initialize"
  BY DEF InitializeOnIOThread, NextIoTask
<1>2. /\ io' \in Seq(IoTasks)
      /\ InOrder(io') /\ DetachedLast(io') /\ InitializedOnce(io')
      /\ Range(io) = {Head(io)} \cup Range(io') /\ Head(io) \in Range(io)
      /\ k \in Cores /\ k <= cores
      /\ \A t \in Range(io') : t.kind = "initialize" => t.core # k
  BY <1>1, IoTaskTaken
<1>3. state[k] = "uninitialized" /\ k \notin connecting
  BY <1>1, <1>2 DEF IoInv
<1>4. UNCHANGED <<alive, made, core, cores, answers>> /\ UNCHANGED manager
  BY DEF InitializeOnIOThread, manager
<1>5. \A t \in Range(io) : t.kind # "initialize" => t \in Range(io')
  BY <1>1, <1>2
<1>6. \A r : Asked(r)' <=> Asked(r)
  BY <1>2, <1>5 DEF Asked
<1>7. CASE NotifyErrorFromIOThread(k, {}) /\ UNCHANGED broker
  <2>1. /\ UNCHANGED <<manager, sent, replied, answers>>
        /\ connecting' \subseteq connecting /\ k \notin connecting'
        /\ channel' \in [Cores -> {"none", "open", "broken"}]
        /\ \A d \in Cores : channel'[d] = "none" <=> channel[d] = "none"
    BY <1>3, <1>4, <1>7 DEF broker, TypeOK
  <2>. HIDE DEF FlashInv, k
  <2>. QED
    BY <1>2, <1>3, <1>5, <1>6, <1>7, <2>1, NotifyErrorPreserves
<1>8. CASE connecting' = connecting \cup {k} /\ UNCHANGED <<work, ui, channel, sent, replied>>
  <2>1. UNCHANGED <<ui, state, queued, unreplied, channel, sent, replied>>
    BY <1>8 DEF work
  <2>. HIDE DEF k
  <2>2. TypeOK'
    BY <1>2, <1>4, <1>8, <2>1 DEF TypeOK
  <2>3. IoInv'
    BY <1>2, <1>4, <1>8, <2>1 DEF IoInv
  <2>4. PlacesInv'
    <3>1. \A r : /\ HasLeft(r)' <=> HasLeft(r)
                 /\ Posted(r)' <=> Posted(r)
                 /\ \A c : Held(c, r)' <=> Held(c, r)
      BY <1>4, <2>1 DEF HasLeft, Posted, Held
    <3>2. \A r \in Requests : \A c \in Cores : ~(Posted(r) /\ Held(c, r))
      BY DEF PlacesInv
    <3>3. PostedOnce(ui')
      BY <2>1 DEF PlacesInv
    <3>. HIDE DEF FlashInv
    <3>. QED
      BY <1>2, <1>4, <1>6, <3>1, <3>2, <3>3, PlacesKept
  <2>5. UiInv' /\ OrderInv'
    BY <1>4, <2>1 DEF UiInv, OrderInv
  <2>6. CoreInv'
    <3>1. \A c \in Cores :
             /\ c \in connecting' => state'[c] \in {"uninitialized", "detached"}
             /\ channel'[c] # "none" => c \notin connecting' /\ state'[c] # "uninitialized"
             /\ c > cores' => state'[c] = "uninitialized" /\ c \notin connecting'
      BY <1>2, <1>3, <1>4, <1>8, <2>1 DEF CoreInv, TypeOK, Cores
    <3>2. \A c \in 1..cores :
             (\E t \in Range(io) : t.kind = "detach" /\ t.core = c)
                 => \E t \in Range(io') : t.kind = "detach" /\ t.core = c
      BY <1>5
    <3>. QED
      BY <1>4, <2>1, <3>1, <3>2 DEF CoreInv
  <2>. QED
    BY <2>2, <2>3, <2>4, <2>5, <2>6
<1>. QED
  BY <1>7, <1>8 DEF InitializeOnIOThread

LEMMA DetachStep ==
    ASSUME FlashInv, DetachOnIOThread
    PROVE  FlashInv'
<1>. USE DEF FlashInv
<1>. DEFINE k == Head(io).core
<1>1. io # <<>> /\ io' = Tail(io) /\ Head(io).kind = "detach"
  BY DEF DetachOnIOThread, NextIoTask
<1>2. /\ io' \in Seq(IoTasks)
      /\ InOrder(io') /\ DetachedLast(io') /\ InitializedOnce(io')
      /\ Range(io) = {Head(io)} \cup Range(io') /\ Head(io) \in Range(io)
      /\ k \in Cores /\ k <= cores
      /\ \A t \in Range(io') : t.core = k => t.kind = "detach"
  BY <1>1, IoTaskTaken
<1>3. core # k /\ (alive => state[k] \in {"error", "detached"})
  BY <1>1, <1>2 DEF IoInv
<1>4. /\ UNCHANGED <<alive, made, core, cores, answers, ui, queued, unreplied, connecting, channel,
                     sent, replied>>
      /\ state' = [state EXCEPT ![k] = "detached"]
  BY DEF DetachOnIOThread, manager, broker
<1>. HIDE DEF k
<1>5. \A t \in Range(io) : t.kind = "request" => t \in Range(io')
  BY <1>1, <1>2
<1>6. \A r : Asked(r)' <=> Asked(r)
  BY <1>2, <1>5 DEF Asked
<1>7. /\ \A d \in Cores : d # k => state'[d] = state[d]
      /\ state'[k] = "detached"
  BY <1>2, <1>4 DEF TypeOK
<1>8. TypeOK'
  BY <1>2, <1>4, <1>7 DEF TypeOK
<1>9. IoInv'
  <2>1. \A t \in Range(io') : t.core \in Cores
    BY <1>2, TaskTypes
  <2>. QED
    BY <1>2, <1>4, <1>7, <2>1 DEF IoInv
<1>10. PlacesInv'
  <2>1. \A r : /\ HasLeft(r)' <=> HasLeft(r)
               /\ Posted(r)' <=> Posted(r)
               /\ \A c : Held(c, r)' <=> Held(c, r)
    BY <1>4 DEF HasLeft, Posted, Held
  <2>2. \A r \in Requests : \A c \in Cores : ~(Posted(r) /\ Held(c, r))
    BY DEF PlacesInv
  <2>3. PostedOnce(ui')
    BY <1>4 DEF PlacesInv
  <2>. HIDE DEF FlashInv
  <2>. QED
    BY <1>2, <1>4, <1>6, <2>1, <2>2, <2>3, PlacesKept
<1>11. UiInv'
  <2>1. \A t \in Range(ui) : t.core \in Cores
    BY TaskTypes
  <2>. QED
    BY <1>4, <1>7, <2>1 DEF UiInv
<1>12. OrderInv'
  BY <1>4 DEF OrderInv
<1>13. CoreInv'
  <2>1. \A c \in Cores :
           /\ state'[c] = "error" => queued'[c] = <<>> /\ unreplied'[c] = {}
           /\ alive' /\ state'[c] = "detached" => queued'[c] = <<>> /\ unreplied'[c] = {}
           /\ c \in connecting' => state'[c] \in {"uninitialized", "detached"}
           /\ channel'[c] # "none" => c \notin connecting' /\ state'[c] # "uninitialized"
           /\ c > cores' => state'[c] = "uninitialized" /\ c \notin connecting'
    BY <1>2, <1>3, <1>4, <1>7 DEF CoreInv, TypeOK, Cores
  <2>2. \A c \in 1..cores : c \in Cores
    BY BoundAssumption DEF TypeOK, Cores
  <2>3. core' # 0 => state'[core'] # "detached"
    BY <1>3, <1>4, <1>7, <2>2 DEF CoreInv, TypeOK
  <2>4. \A c \in 1..cores' :
           \/ core' = c \/ state'[c] = "detached"
           \/ \E t \in Range(io') : t.kind = "detach" /\ t.core = c
    <3>. SUFFICES ASSUME NEW c \in 1..cores, core # c, c # k, state[c] # "detached"
                  PROVE  \E t \in Range(io') : t.kind = "detach" /\ t.core = c
      BY <1>4, <1>7, <2>2
    <3>1. PICK t \in Range(io) : t.kind = "detach" /\ t.core = c
      BY DEF CoreInv
    <3>2. t \in Range(io')
      BY <1>2, <3>1 DEF k
    <3>. QED
      BY <3>1, <3>2
  <2>. QED
    BY <1>4, <2>1, <2>3, <2>4 DEF CoreInv
<1>. QED
  BY <1>8, <1>9, <1>10, <1>11, <1>12, <1>13

\* A request that was not answered yet is taken up: it waits for the channel, or is sent.
LEMMA TakeUpPreserves ==
    ASSUME FlashInv, NEW k \in Cores, NEW r \in Requests,
           k <= cores, state[k] \in {"uninitialized", "initialized"},
           ~HasLeft(r), r <= made,
           \A t \in Range(io') : t.kind = "request" => r < t.id,
           UNCHANGED <<alive, made, core, cores, ui, state, connecting, channel, answers>>,
           io' \in Seq(IoTasks), InOrder(io'), DetachedLast(io'), InitializedOnce(io'),
           Range(io') \subseteq Range(io),
           \A t \in Range(io) : t.kind = "detach" => t \in Range(io'),
           \A q \in Requests : Asked(q) => Asked(q)' \/ q = r,
           TypeOK', OrderInv',
           \A d \in Cores : d # k => queued'[d] = queued[d] /\ unreplied'[d] = unreplied[d],
           \A d \in Cores : \A q : Held(d, q)' <=> Held(d, q) \/ (d = k /\ q = r),
           \A q : HasLeft(q)' <=> HasLeft(q) \/ q = r
    PROVE  FlashInv'
<1>. USE DEF FlashInv
<1>1. IoInv'
  BY DEF IoInv
<1>2. UiInv'
  BY DEF UiInv
<1>3. PlacesInv'
  <2>1. \A q : Posted(q)' <=> Posted(q)
    BY DEF Posted
  <2>2. ~Posted(r) /\ answers[r] = 0 /\ \A d \in Cores : ~Held(d, r)
    BY DEF HasLeft, TypeOK
  <2>3. \A q \in Requests : HasLeft(q)' =>
            q <= made' /\ \A t \in Range(io') : t.kind = "request" => q < t.id
    BY DEF PlacesInv
  <2>4. PostedOnce(ui)' /\ AnsweredOnce'
    BY DEF PlacesInv, AnsweredOnce
  <2>5. \A q \in Requests :
            /\ Posted(q)' => answers'[q] = 0 /\ \A d \in Cores : ~Held(d, q)'
            /\ \A d \in Cores : Held(d, q)' =>
                  answers'[q] = 0 /\ \A f \in Cores : Held(f, q)' => d = f
    BY <2>1, <2>2 DEF PlacesInv
  <2>6. \A q \in 1..made : q \in Requests
    BY BoundAssumption DEF TypeOK, Requests
  <2>7. alive' => \A q \in 1..made' :
            answers'[q] = 0 => Asked(q)' \/ Posted(q)' \/ \E d \in Cores : Held(d, q)'
    BY <2>1, <2>6 DEF PlacesInv
  <2>. QED
    BY <2>3, <2>4, <2>5, <2>7 DEF PlacesInv
<1>4. CoreInv'
  BY DEF CoreInv
<1>. QED
  BY <1>1, <1>2, <1>3, <1>4

LEMMA HandleRequestStep ==
    ASSUME FlashInv, HandleRequest
    PROVE  FlashInv'
<1>. USE DEF FlashInv
<1>. DEFINE k == Head(io).core
            r == Head(io).id
<1>1. io # <<>> /\ io' = Tail(io) /\ Head(io).kind = "request"
  BY DEF HandleRequest, NextIoTask
<1>2. /\ io' \in Seq(IoTasks)
      /\ InOrder(io') /\ DetachedLast(io') /\ InitializedOnce(io')
      /\ Range(io) = {Head(io)} \cup Range(io') /\ Head(io) \in Range(io)
      /\ k \in Cores /\ k <= cores
      /\ \A t \in Range(io') : t.kind = "request" => r < t.id
  BY <1>1, IoTaskTaken
<1>3. r \in 1..made /\ r \in Requests /\ r <= made /\ state[k] # "detached"
  BY <1>1, <1>2, BoundAssumption DEF IoInv, TypeOK, Requests
<1>4. /\ UNCHANGED <<alive, made, core, cores, connecting, channel, replied, answers>>
      /\ UNCHANGED manager
      /\ QueueRequest(k, r) \/ SendRequest(k, r) \/ FailRequest(k, r)
  BY DEF HandleRequest, manager
<1>5. \A q \in Requests : HasLeft(q) => q < r
  BY <1>1, <1>2 DEF PlacesInv
<1>6. ~HasLeft(r)
  BY <1>3, <1>5 DEF Requests
<1>7. /\ \A t \in Range(io) : t.kind = "detach" => t \in Range(io')
      /\ Range(io') \subseteq Range(io)
  BY <1>1, <1>2
<1>8. \A q \in Requests : Asked(q) => Asked(q)' \/ q = r
  BY <1>1, <1>2 DEF Asked
<1>9. queued[k] \in Seq(Requests) /\ sent[k] \in Seq(Requests)
  BY <1>2 DEF TypeOK
<1>10. /\ \A q \in Range(queued[k]) : q \in Requests /\ q < r
       /\ \A q \in Range(sent[k]) : q \in Requests /\ q < r
  <2>1. /\ \A q \in Range(queued[k]) : q \in Requests /\ HasLeft(q)
        /\ \A q \in Range(sent[k]) : q \in Requests /\ HasLeft(q)
    BY <1>2, TaskTypes DEF HasLeft, Held
  <2>. QED
    BY <1>5, <2>1
<1>11. /\ Append(queued[k], r) \in Seq(Requests)
       /\ Range(Append(queued[k], r)) = Range(queued[k]) \cup {r}
       /\ Append(sent[k], r) \in Seq(Requests)
       /\ Range(Append(sent[k], r)) = Range(sent[k]) \cup {r}
  BY <1>3, <1>9, AppendFacts
<1>12. Increasing(Append(queued[k], r)) /\ Increasing(Append(sent[k], r))
  BY <1>2, <1>3, <1>9, <1>10, IncreasingAppend DEF OrderInv
<1>. HIDE DEF k, r
<1>13. CASE QueueRequest(k, r)
  <2>1. /\ UNCHANGED <<ui, state, unreplied, sent>> /\ state[k] = "uninitialized"
        /\ queued' = [queued EXCEPT ![k] = Append(@, r)]
    BY <1>13 DEF QueueRequest
  <2>2. /\ \A d \in Cores : d # k => queued'[d] = queued[d] /\ unreplied'[d] = unreplied[d]
        /\ queued'[k] = Append(queued[k], r)
    BY <1>2, <2>1 DEF TypeOK
  <2>3. TypeOK'
    <3>1. queued' \in [Cores -> Seq(Requests)]
      BY <1>11, <2>1 DEF TypeOK
    <3>2. \A d \in Cores : state'[d] = "initialized" => queued'[d] = <<>>
      BY <2>1, <2>2 DEF TypeOK
    <3>. QED
      BY <1>2, <1>4, <2>1, <3>1, <3>2 DEF TypeOK
  <2>4. OrderInv'
    BY <1>12, <2>1, <2>2 DEF OrderInv
  <2>5. \A d \in Cores : \A q : Held(d, q)' <=> Held(d, q) \/ (d = k /\ q = r)
    BY <1>11, <2>1, <2>2 DEF Held
  <2>6. \A q : HasLeft(q)' <=> HasLeft(q) \/ q = r
    BY <1>2, <1>4, <2>1, <2>5 DEF HasLeft, Posted
  <2>. HIDE DEF FlashInv
  <2>. QED
    BY <1>2, <1>3, <1>4, <1>6, <1>7, <1>8, <2>1, <2>2, <2>3, <2>4, <2>5, <2>6, TakeUpPreserves
       DEF r
<1>14. CASE SendRequest(k, r)
  <2>1. /\ UNCHANGED <<ui, state, queued>> /\ state[k] = "initialized"
        /\ unreplied' = [unreplied EXCEPT ![k] = @ \cup {r}]
        /\ sent' = [sent EXCEPT ![k] = Append(@, r)]
    BY <1>14 DEF SendRequest
  <2>2. /\ \A d \in Cores : d # k =>
               queued'[d] = queued[d] /\ unreplied'[d] = unreplied[d] /\ sent'[d] = sent[d]
        /\ sent'[k] = Append(sent[k], r) /\ unreplied'[k] = unreplied[k] \cup {r}
    BY <1>2, <2>1 DEF TypeOK
  <2>3. TypeOK'
    <3>1. sent' \in [Cores -> Seq(Requests)] /\ unreplied' \in [Cores -> SUBSET Requests]
      BY <1>3, <1>11, <2>1 DEF TypeOK
    <3>2. \A d \in Cores : state'[d] = "uninitialized" => unreplied'[d] = {}
      BY <2>1, <2>2 DEF TypeOK
    <3>. QED
      BY <1>2, <1>4, <2>1, <3>1, <3>2 DEF TypeOK
  <2>4. OrderInv'
    BY <1>12, <2>1, <2>2 DEF OrderInv
  <2>5. \A d \in Cores : \A q : Held(d, q)' <=> Held(d, q) \/ (d = k /\ q = r)
    BY <2>1, <2>2 DEF Held
  <2>6. \A d \in Cores : \A q : q \in Range(sent'[d]) <=> q \in Range(sent[d]) \/ (d = k /\ q = r)
    <3>1. Range(sent'[k]) = Range(sent[k]) \cup {r}
      BY <1>11, <2>2
    <3>. QED
      BY <2>2, <3>1
  <2>7. \A q : HasLeft(q)' <=> HasLeft(q) \/ q = r
    BY <1>2, <1>4, <2>1, <2>5, <2>6 DEF HasLeft, Posted
  <2>. HIDE DEF FlashInv
  <2>. QED
    BY <1>2, <1>3, <1>4, <1>6, <1>7, <1>8, <2>1, <2>2, <2>3, <2>4, <2>5, <2>7, TakeUpPreserves
       DEF r
<1>15. CASE FailRequest(k, r)
  <2>1. /\ state[k] \in {"initialized", "error"} /\ NotifyErrorFromIOThread(k, {r})
        /\ UNCHANGED <<manager, sent, replied, answers>>
    BY <1>4, <1>15 DEF FailRequest
  <2>2. \A t \in Range(io') : t.kind = "initialize" => t.core # k
    BY <1>7, <2>1 DEF IoInv
  <2>3. /\ connecting' \subseteq connecting /\ k \notin connecting'
        /\ channel' \in [Cores -> {"none", "open", "broken"}]
        /\ \A d \in Cores : channel'[d] = "none" <=> channel[d] = "none"
    BY <1>2, <1>4, <2>1 DEF CoreInv, TypeOK
  <2>4. /\ {r} \in SUBSET Requests
        /\ \A q \in Requests : Asked(q) => Asked(q)' \/ q \in {r}
        /\ \A q \in {r} : /\ ~HasLeft(q) /\ q <= made
                          /\ \A t \in Range(io') : t.kind = "request" => q < t.id
    BY <1>2, <1>3, <1>6, <1>8 DEF r
  <2>. HIDE DEF FlashInv
  <2>. QED
    BY <1>2, <1>3, <1>7, <2>1, <2>2, <2>3, <2>4, NotifyErrorPreserves DEF k
<1>. QED
  BY <1>4, <1>13, <1>14, <1>15 DEF k, r

-----------------------------------------------------------------------------
(* The channel *)

\* A channel that only closes, or is asked for no longer, moves no request.
LEMMA OnlyTheChannel ==
    ASSUME FlashInv,
           UNCHANGED <<alive, made, core, cores, ui, io, state, queued, unreplied, sent, answers>>,
           replied' \subseteq Requests, connecting' \subseteq connecting,
           channel' \in [Cores -> {"none", "open", "broken"}],
           \A d \in Cores : channel'[d] = "none" <=> channel[d] = "none"
    PROVE  FlashInv'
<1>. USE DEF FlashInv
<1>1. TypeOK'
  BY DEF TypeOK
<1>2. IoInv' /\ UiInv' /\ OrderInv'
  BY DEF IoInv, UiInv, OrderInv
<1>3. PlacesInv'
  <2>1. /\ \A r : /\ HasLeft(r)' <=> HasLeft(r)
                  /\ Posted(r)' <=> Posted(r)
                  /\ Asked(r)' <=> Asked(r)
        /\ \A d, r : Held(d, r)' <=> Held(d, r)
    BY DEF HasLeft, Posted, Asked, Held
  <2>2. PostedOnce(ui')
    BY DEF PlacesInv
  <2>3. \A r \in Requests : \A d \in Cores : Held(d, r) => ~Posted(r)
    BY DEF PlacesInv
  <2>. HIDE DEF FlashInv
  <2>. QED
    BY <2>1, <2>2, <2>3, PlacesKept
<1>4. CoreInv'
  BY DEF CoreInv
<1>. QED
  BY <1>1, <1>2, <1>3, <1>4

LEMMA PrefixFacts ==
    ASSUME NEW s \in Seq(Requests), Increasing(s), NEW m \in Nat, m <= Len(s)
    PROVE  /\ SubSeq(s, 1, m) \in Seq(Requests) /\ Increasing(SubSeq(s, 1, m))
           /\ Range(SubSeq(s, 1, m)) = {s[i] : i \in 1..m}
<1>1. Len(s) \in Nat /\ DOMAIN s = 1..Len(s) /\ \A i \in 1..Len(s) : s[i] \in Requests
  BY LenProperties, ElementOfSeq
<1>2. \A i \in 1..m : s[i] \in Requests
  BY <1>1
<1>. DEFINE q == SubSeq(s, 1, m)
<1>3. /\ q \in Seq(Requests) /\ Len(q) = IF 1 <= m THEN m - 1 + 1 ELSE 0
      /\ \A i \in 1..(m - 1 + 1) : q[i] = s[1 + i - 1]
  <2>. HIDE DEF q
  <2>. QED
    BY <1>2, SubSeqProperties DEF q
<1>. HIDE DEF q
<1>4. DOMAIN q = 1..m /\ \A i \in 1..m : q[i] = s[i] /\ i \in DOMAIN s
  <2>1. Len(q) = m
    BY <1>3
  <2>2. DOMAIN q = 1..m
    BY <1>3, <2>1, LenProperties
  <2>. QED
    BY <1>1, <1>3, <2>2
<1>5. Increasing(q)
  BY <1>4 DEF Increasing
<1>6. Range(q) = {s[i] : i \in 1..m}
  BY <1>4 DEF Range
<1>. QED
  BY <1>3, <1>5, <1>6 DEF q

LEMMA UiConcat ==
    ASSUME NEW s \in Seq(UiTasks), NEW q \in Seq(UiTasks), PostedOnce(s), PostedOnce(q),
           \A t \in Range(s), u \in Range(q) : t.ids \cap u.ids = {}
    PROVE  /\ s \o q \in Seq(UiTasks) /\ Range(s \o q) = Range(s) \cup Range(q)
           /\ PostedOnce(s \o q)
<1>. DEFINE w == s \o q
<1>1. /\ w \in Seq(UiTasks) /\ Len(w) = Len(s) + Len(q)
      /\ \A i \in 1..(Len(s) + Len(q)) : w[i] = IF i <= Len(s) THEN s[i] ELSE q[i - Len(s)]
  BY ConcatProperties
<1>. HIDE DEF w
<1>2. /\ Len(s) \in Nat /\ Len(q) \in Nat
      /\ DOMAIN s = 1..Len(s) /\ DOMAIN q = 1..Len(q) /\ DOMAIN w = 1..(Len(s) + Len(q))
  BY <1>1, LenProperties
<1>3. \A i \in DOMAIN w : \/ i \in DOMAIN s /\ i <= Len(s) /\ w[i] = s[i]
                          \/ i - Len(s) \in DOMAIN q /\ i > Len(s) /\ w[i] = q[i - Len(s)]
  BY <1>1, <1>2
<1>4. /\ \A i \in DOMAIN s : i \in DOMAIN w /\ w[i] = s[i]
      /\ \A i \in DOMAIN q : i + Len(s) \in DOMAIN w /\ w[i + Len(s)] = q[i]
  BY <1>1, <1>2
<1>5. Range(w) = Range(s) \cup Range(q)
  BY <1>3, <1>4 DEF Range
<1>6. PostedOnce(w)
  <2>. SUFFICES ASSUME NEW i \in DOMAIN w, NEW j \in DOMAIN w, NEW r \in w[i].ids, r \in w[j].ids
                PROVE  i = j
    BY DEF PostedOnce
  <2>1. /\ \A a \in DOMAIN s : s[a] \in Range(s)
        /\ \A a \in DOMAIN q : q[a] \in Range(q)
    BY DEF Range
  <2>2. \A t \in Range(s), u \in Range(q) : ~(r \in t.ids /\ r \in u.ids)
    OBVIOUS
  <2>3. CASE i <= Len(s) /\ j <= Len(s)
    BY <1>2, <1>3, <2>3 DEF PostedOnce
  <2>4. CASE i > Len(s) /\ j > Len(s)
    <3>1. i - Len(s) = j - Len(s)
      BY <1>2, <1>3, <2>4 DEF PostedOnce
    <3>. QED
      BY <1>2, <3>1
  <2>5. CASE i <= Len(s) /\ j > Len(s)
    <3>1. w[i] \in Range(s) /\ w[j] \in Range(q)
      BY <1>2, <1>3, <2>1, <2>5
    <3>. QED
      BY <2>2, <3>1
  <2>6. CASE i > Len(s) /\ j <= Len(s)
    <3>1. w[j] \in Range(s) /\ w[i] \in Range(q)
      BY <1>2, <1>3, <2>1, <2>6
    <3>. QED
      BY <2>2, <3>1
  <2>. QED
    BY <1>2, <2>3, <2>4, <2>5, <2>6
<1>. QED
  BY <1>1, <1>5, <1>6 DEF w

\* The tasks after a send that failed at the n-th of the requests in q.
FailedTasks(s, k, q, n) ==
    s \o <<ErrorTask(k, Range(SubSeq(q, 1, n)))>>
      \o [i \in 1..(Len(q) - n) |-> ErrorTask(k, {q[n + i]})]

\* Each waiting request is in one of them.
LEMMA FailedSends ==
    ASSUME NEW k \in Cores, NEW q \in Seq(Requests), Increasing(q), NEW n \in 1..Len(q),
           NEW s \in Seq(UiTasks), PostedOnce(s),
           \A t \in Range(s) : t.ids \cap Range(q) = {},
           NEW z, z = FailedTasks(s, k, q, n)
    PROVE  /\ z \in Seq(UiTasks) /\ PostedOnce(z) /\ Range(s) \subseteq Range(z)
           /\ \A t \in Range(z) : t \in Range(s) \/ (t.kind = "error" /\ t.core = k)
           /\ \A r : (\E t \in Range(z) : r \in t.ids) <=>
                         r \in Range(q) \/ \E t \in Range(s) : r \in t.ids
<1>1. /\ Len(q) \in Nat /\ n \in Nat /\ n <= Len(q) /\ 1 <= n /\ DOMAIN q = 1..Len(q)
      /\ \A i \in 1..Len(q) : q[i] \in Requests
      /\ Range(q) = {q[i] : i \in 1..Len(q)}
  BY LenProperties, ElementOfSeq DEF Range
<1>. DEFINE first == ErrorTask(k, Range(SubSeq(q, 1, n)))
            one == <<first>>
            rest == [i \in 1..(Len(q) - n) |-> ErrorTask(k, {q[n + i]})]
<1>2. /\ first.kind = "error" /\ first.core = k /\ first.ids = {q[i] : i \in 1..n}
      /\ first \in UiTasks
  <2>1. Range(SubSeq(q, 1, n)) = {q[i] : i \in 1..n}
    BY <1>1, PrefixFacts
  <2>2. {q[i] : i \in 1..n} \in SUBSET Requests
    BY <1>1
  <2>. QED
    BY <2>1, <2>2 DEF ErrorTask, UiTasks
<1>3. z = (s \o one) \o rest
  BY DEF FailedTasks
<1>. HIDE DEF first
<1>4. one \in Seq(UiTasks) /\ DOMAIN one = {1} /\ one[1] = first /\ Range(one) = {first}
  BY <1>2 DEF Range
<1>5. PostedOnce(one)
  BY <1>4 DEF PostedOnce
<1>6. /\ DOMAIN rest = 1..(Len(q) - n) /\ Len(q) - n \in Nat
      /\ \A i \in DOMAIN rest :
            /\ rest[i].kind = "error" /\ rest[i].core = k /\ rest[i].ids = {q[n + i]}
            /\ rest[i] \in UiTasks /\ n + i \in 1..Len(q) /\ n + i > n
  <2>1. \A i \in 1..(Len(q) - n) :
           n + i \in 1..Len(q) /\ n + i > n /\ {q[n + i]} \in SUBSET Requests
    BY <1>1
  <2>. QED
    BY <1>1, <2>1 DEF ErrorTask, UiTasks
<1>. HIDE DEF one, rest
<1>7. rest \in Seq(UiTasks)
  <2>1. rest = [i \in 1..(Len(q) - n) |-> ErrorTask(k, {q[n + i]})]
    BY DEF rest
  <2>2. rest \in [1..(Len(q) - n) -> UiTasks]
    BY <1>6, <2>1
  <2>. QED
    BY <1>6, <2>2, SeqDef
<1>8. ASSUME NEW i \in 1..Len(q), NEW j \in 1..Len(q), q[i] = q[j]
      PROVE  i = j
  <2>1. i \in Nat /\ j \in Nat /\ i \in DOMAIN q /\ j \in DOMAIN q /\ q[i] \in Nat
    BY <1>1, BoundAssumption DEF Requests
  <2>2. (i < j => q[i] < q[j]) /\ (j < i => q[j] < q[i])
    BY <2>1 DEF Increasing
  <2>. QED
    BY <1>8, <2>1, <2>2
<1>9. PostedOnce(rest)
  <2>. SUFFICES ASSUME NEW i \in DOMAIN rest, NEW j \in DOMAIN rest,
                       NEW r \in rest[i].ids, r \in rest[j].ids
                PROVE  i = j
    BY DEF PostedOnce
  <2>1. n + i = n + j
    <3>1. r = q[n + i] /\ r = q[n + j] /\ n + i \in 1..Len(q) /\ n + j \in 1..Len(q)
      BY <1>6
    <3>. QED
      BY <1>8, <3>1
  <2>. QED
    BY <1>1, <1>6, <2>1
<1>10. /\ \A t \in Range(rest) : /\ t.kind = "error" /\ t.core = k
                                 /\ \E j \in (n + 1)..Len(q) : t.ids = {q[j]}
       /\ \A j \in (n + 1)..Len(q) : \E t \in Range(rest) : q[j] \in t.ids
  <2>1. \A i \in DOMAIN rest : n + i \in (n + 1)..Len(q)
    BY <1>1, <1>6
  <2>2. \A j \in (n + 1)..Len(q) : j - n \in DOMAIN rest /\ n + (j - n) = j
    BY <1>1, <1>6
  <2>3. Range(rest) = {rest[i] : i \in DOMAIN rest}
    BY DEF Range
  <2>4. ASSUME NEW t \in Range(rest)
        PROVE  /\ t.kind = "error" /\ t.core = k
               /\ \E j \in (n + 1)..Len(q) : t.ids = {q[j]}
    <3>1. PICK i \in DOMAIN rest : t = rest[i]
      BY <2>3
    <3>2. t.ids = {q[n + i]} /\ n + i \in (n + 1)..Len(q)
      BY <1>6, <2>1, <3>1
    <3>. QED
      BY <1>6, <3>1, <3>2
  <2>5. ASSUME NEW j \in (n + 1)..Len(q)
        PROVE  \E t \in Range(rest) : q[j] \in t.ids
    <3>1. rest[j - n] \in Range(rest) /\ rest[j - n].ids = {q[j]}
      BY <1>6, <2>2, <2>3
    <3>. QED
      BY <3>1
  <2>. QED
    BY <2>4, <2>5
<1>11. \A i \in 1..n : i \in 1..Len(q)
  BY <1>1
<1>12. first.ids \subseteq Range(q) /\ \A t \in Range(rest) : t.ids \subseteq Range(q)
  <2>1. \A j \in (n + 1)..Len(q) : j \in 1..Len(q)
    BY <1>1
  <2>. QED
    BY <1>1, <1>2, <1>10, <1>11, <2>1
<1>13. /\ s \o one \in Seq(UiTasks) /\ Range(s \o one) = Range(s) \cup {first}
       /\ PostedOnce(s \o one)
  <2>1. \A t \in Range(s), u \in Range(one) : t.ids \cap u.ids = {}
    BY <1>4, <1>12
  <2>. QED
    BY <1>4, <1>5, <2>1, UiConcat
<1>14. \A t \in Range(rest) : t.ids \cap first.ids = {}
  <2>1. \A i \in 1..n, j \in (n + 1)..Len(q) : q[i] # q[j]
    <3>1. \A i \in 1..n, j \in (n + 1)..Len(q) : i # j /\ i \in 1..Len(q) /\ j \in 1..Len(q)
      BY <1>1
    <3>. QED
      BY <1>8, <3>1
  <2>. QED
    BY <1>2, <1>10, <2>1
<1>15. z \in Seq(UiTasks) /\ Range(z) = Range(s) \cup {first} \cup Range(rest) /\ PostedOnce(z)
  <2>1. \A t \in Range(s \o one), u \in Range(rest) : t.ids \cap u.ids = {}
    BY <1>12, <1>13, <1>14
  <2>2. /\ (s \o one) \o rest \in Seq(UiTasks) /\ PostedOnce((s \o one) \o rest)
        /\ Range((s \o one) \o rest) = Range(s \o one) \cup Range(rest)
    BY <1>7, <1>9, <1>13, <2>1, UiConcat
  <2>. QED
    BY <1>3, <1>13, <2>2
<1>16. \A j \in 1..Len(q) : j \in 1..n \/ j \in (n + 1)..Len(q)
  BY <1>1
<1>17. \A r : r \in Range(q) <=> r \in first.ids \/ \E t \in Range(rest) : r \in t.ids
  <2>1. ASSUME NEW r \in Range(q)
        PROVE  r \in first.ids \/ \E t \in Range(rest) : r \in t.ids
    <3>1. PICK j \in 1..Len(q) : r = q[j]
      BY <1>1
    <3>. QED
      BY <1>2, <1>10, <1>16, <3>1
  <2>. QED
    BY <1>12, <2>1
<1>. QED
  BY <1>2, <1>10, <1>15, <1>17

\* A channel opens: the queued requests are sent, or fail one after the other.
LEMMA ConnectsPreserves ==
    ASSUME FlashInv, NEW k \in Cores, k \in connecting, state[k] # "detached", Connects(k),
           connecting' = connecting \ {k},
           UNCHANGED <<alive, made, core, cores, io, replied, answers>>
    PROVE  FlashInv'
<1>. USE DEF FlashInv
<1>. DEFINE q == queued[k]
<1>1. /\ state[k] = "uninitialized" /\ unreplied[k] = {} /\ k <= cores
      /\ \A t \in Range(io) : t.kind = "initialize" => t.core # k
      /\ alive => \A t \in Range(io) : t.kind = "detach" => t.core # k
      /\ \A t \in Range(ui) : t.kind = "error" => t.core # k
  <2>1. state[k] = "uninitialized"
    BY DEF CoreInv, TypeOK
  <2>2. k <= cores
    BY DEF CoreInv, TypeOK, Cores
  <2>. QED
    BY <2>1, <2>2 DEF TypeOK, IoInv, UiInv
<1>2. q \in Seq(Requests) /\ Range(q) \subseteq Requests /\ Increasing(q)
  BY TaskTypes DEF TypeOK, OrderInv
<1>3. /\ channel' = [channel EXCEPT ![k] = "open"] /\ queued' = [queued EXCEPT ![k] = <<>>]
      /\ SendQueued(k)
  BY DEF Connects
<1>4. /\ \A t \in Range(io) : t.core \in Cores
      /\ \A t \in Range(ui) : t.core \in Cores
  BY TaskTypes
<1>5. <<>> \in Seq(Requests) /\ DOMAIN <<>> = {} /\ Range(<<>>) = {} /\ Increasing(<<>>)
  BY EmptySeq DEF Range, Increasing
<1>6. /\ \A d \in Cores : d # k => queued'[d] = queued[d] /\ channel'[d] = channel[d]
      /\ queued'[k] = <<>> /\ channel'[k] = "open"
      /\ queued' \in [Cores -> Seq(Requests)]
      /\ channel' \in [Cores -> {"none", "open", "broken"}]
  BY <1>3, <1>5 DEF TypeOK
<1>7. \A r : Asked(r)' <=> Asked(r)
  BY DEF Asked
<1>8. \A r \in Requests : \A d \in Cores :
         Held(d, r) => ~Posted(r) /\ (Held(k, r) => d = k)
  BY DEF PlacesInv
<1>9. \A r : Held(k, r) <=> r \in Range(q)
  BY <1>1 DEF Held
<1>10. ASSUME NEW z \in {"initialized", "error"}, state' = [state EXCEPT ![k] = z],
              unreplied' \in [Cores -> SUBSET Requests], sent' \in [Cores -> Seq(Requests)],
              \A d \in Cores : d # k => unreplied'[d] = unreplied[d] /\ sent'[d] = sent[d],
              z = "error" => unreplied'[k] = {},
              unreplied'[k] \subseteq Range(q), Range(sent'[k]) \subseteq Range(q),
              Increasing(sent'[k]),
              ui' \in Seq(UiTasks), PostedOnce(ui'),
              \A t \in Range(ui') :
                 t \in Range(ui) \/ (z = "error" /\ t.kind = "error" /\ t.core = k),
              \A r : Posted(r)' <=> Posted(r) \/ (z = "error" /\ r \in Range(q)),
              z = "initialized" => unreplied'[k] = Range(q)
       PROVE  FlashInv'
  <2>1. /\ \A d \in Cores : d # k => state'[d] = state[d]
        /\ state'[k] = z
        /\ state' \in [Cores -> {"uninitialized", "initialized", "error", "detached"}]
    BY <1>10 DEF TypeOK
  <2>2. TypeOK'
    <3>1. \A d \in Cores :
             /\ state'[d] = "initialized" => channel'[d] # "none" /\ queued'[d] = <<>>
             /\ state'[d] = "uninitialized" => unreplied'[d] = {}
      BY <1>6, <1>10, <2>1 DEF TypeOK
    <3>2. connecting' \subseteq Cores
      BY DEF TypeOK
    <3>. QED
      BY <1>6, <1>10, <2>1, <3>1, <3>2 DEF TypeOK
  <2>3. IoInv'
    BY <1>1, <1>4, <2>1 DEF IoInv
  <2>4. UiInv'
    BY <1>1, <1>4, <1>10, <2>1 DEF UiInv
  <2>5. OrderInv'
    BY <1>5, <1>6, <1>10 DEF OrderInv
  <2>6. CoreInv'
    <3>1. \A d \in Cores :
             /\ state'[d] = "error" => queued'[d] = <<>> /\ unreplied'[d] = {}
             /\ alive' /\ state'[d] = "detached" => queued'[d] = <<>> /\ unreplied'[d] = {}
             /\ d \in connecting' => state'[d] \in {"uninitialized", "detached"}
             /\ channel'[d] # "none" => d \notin connecting' /\ state'[d] # "uninitialized"
             /\ d > cores' => state'[d] = "uninitialized" /\ d \notin connecting'
      BY <1>1, <1>6, <1>10, <2>1 DEF CoreInv, TypeOK, Cores
    <3>2. \A d \in 1..cores : d \in Cores
      BY BoundAssumption DEF TypeOK, Cores
    <3>3. core' # 0 => state'[core'] # "detached"
      BY <2>1, <3>2 DEF CoreInv, TypeOK
    <3>4. \A d \in 1..cores' :
             \/ core' = d \/ state'[d] = "detached"
             \/ \E t \in Range(io') : t.kind = "detach" /\ t.core = d
      BY <1>1, <2>1, <3>2 DEF CoreInv
    <3>. QED
      BY <3>1, <3>3, <3>4 DEF CoreInv
  <2>7. PlacesInv'
    <3>1. /\ \A d \in Cores : d # k => \A r : Held(d, r)' <=> Held(d, r)
          /\ \A r : Held(k, r)' => Held(k, r) /\ z = "initialized"
          /\ z = "initialized" => \A r : Held(k, r)' <=> Held(k, r)
      BY <1>5, <1>6, <1>9, <1>10 DEF Held
    <3>2. /\ \A r : Posted(r)' <=> Posted(r) \/ (z = "error" /\ Held(k, r))
      BY <1>9, <1>10
    <3>3. \A d \in Cores : \A r \in Range(sent'[d]) : r \in Range(sent[d]) \/ Held(d, r)
      BY <1>9, <1>10
    <3>4. \A r \in Requests : HasLeft(r)' => HasLeft(r)
      <4>. SUFFICES ASSUME NEW r \in Requests, HasLeft(r)' PROVE HasLeft(r)
        OBVIOUS
      <4>1. CASE answers'[r] > 0
        BY <4>1 DEF HasLeft
      <4>2. CASE Posted(r)'
        BY <3>2, <4>2 DEF HasLeft
      <4>3. CASE \E d \in Cores : Held(d, r)' \/ r \in Range(sent'[d])
        BY <3>1, <3>3, <4>3 DEF HasLeft
      <4>. QED
        BY <4>1, <4>2, <4>3 DEF HasLeft
    <3>5. \A r \in Requests : \A d \in Cores : Held(d, r)' => Held(d, r) /\ ~Posted(r)'
      BY <1>8, <3>1, <3>2
    <3>6. \A r \in Requests : Posted(r)' => Posted(r) \/ \E d \in Cores : Held(d, r)
      BY <3>2
    <3>7. \A r \in Requests : Asked(r) \/ Posted(r) \/ (\E d \in Cores : Held(d, r))
              => Asked(r)' \/ Posted(r)' \/ \E d \in Cores : Held(d, r)'
      BY <1>7, <1>10, <3>1, <3>2
    <3>. HIDE DEF FlashInv
    <3>. QED
      BY <1>10, <3>4, <3>5, <3>6, <3>7, PlacesKept
  <2>. QED
    BY <2>2, <2>3, <2>4, <2>5, <2>6, <2>7
<1>11. CASE /\ sent' = [sent EXCEPT ![k] = queued[k]]
            /\ unreplied' = [unreplied EXCEPT ![k] = Range(queued[k])]
            /\ state' = [state EXCEPT ![k] = "initialized"]
            /\ UNCHANGED ui
  <2>1. unreplied' \in [Cores -> SUBSET Requests] /\ sent' \in [Cores -> Seq(Requests)]
    BY <1>2, <1>11 DEF TypeOK
  <2>2. /\ \A d \in Cores : d # k => unreplied'[d] = unreplied[d] /\ sent'[d] = sent[d]
        /\ sent'[k] = q /\ unreplied'[k] = Range(q)
    BY <1>11 DEF TypeOK
  <2>3. /\ ui' \in Seq(UiTasks) /\ PostedOnce(ui')
        /\ \A t \in Range(ui') : t \in Range(ui)
        /\ \A r : Posted(r)' <=> Posted(r)
    BY <1>11 DEF TypeOK, PlacesInv, Posted
  <2>. HIDE DEF FlashInv, q
  <2>4. Range(sent'[k]) = Range(q) /\ Increasing(sent'[k])
    BY <1>2, <2>2
  <2>. QED
    BY <1>10, <1>11, <2>1, <2>2, <2>3, <2>4
<1>12. CASE \E n \in 1..Len(queued[k]) :
              /\ sent' = [sent EXCEPT ![k] = SubSeq(queued[k], 1, n - 1)]
              /\ state' = [state EXCEPT ![k] = "error"]
              /\ ui' = ui \o <<ErrorTask(k, Range(SubSeq(queued[k], 1, n)))>>
                          \o [i \in 1..(Len(queued[k]) - n) |-> ErrorTask(k, {queued[k][n + i]})]
              /\ UNCHANGED unreplied
  <2>1. PICK n \in 1..Len(q) :
              /\ sent' = [sent EXCEPT ![k] = SubSeq(q, 1, n - 1)]
              /\ state' = [state EXCEPT ![k] = "error"]
              /\ ui' = ui \o <<ErrorTask(k, Range(SubSeq(q, 1, n)))>>
                          \o [i \in 1..(Len(q) - n) |-> ErrorTask(k, {q[n + i]})]
              /\ UNCHANGED unreplied
    BY <1>12
  <2>. HIDE DEF q
  <2>2. n - 1 \in Nat /\ n - 1 <= Len(q) /\ \A i \in 1..(n - 1) : i \in 1..Len(q)
    BY <1>2, LenProperties
  <2>3. /\ SubSeq(q, 1, n - 1) \in Seq(Requests) /\ Increasing(SubSeq(q, 1, n - 1))
        /\ Range(SubSeq(q, 1, n - 1)) \subseteq Range(q)
    <3>1. Range(q) = {q[i] : i \in 1..Len(q)}
      BY <1>2, LenProperties DEF Range
    <3>2. /\ SubSeq(q, 1, n - 1) \in Seq(Requests) /\ Increasing(SubSeq(q, 1, n - 1))
          /\ Range(SubSeq(q, 1, n - 1)) = {q[i] : i \in 1..(n - 1)}
      BY <1>2, <2>2, PrefixFacts
    <3>. QED
      BY <2>2, <3>1, <3>2
  <2>4. unreplied' \in [Cores -> SUBSET Requests] /\ sent' \in [Cores -> Seq(Requests)]
    BY <2>1, <2>3 DEF TypeOK
  <2>5. /\ \A d \in Cores : d # k => unreplied'[d] = unreplied[d] /\ sent'[d] = sent[d]
        /\ sent'[k] = SubSeq(q, 1, n - 1) /\ unreplied'[k] = {}
    BY <1>1, <2>1 DEF TypeOK
  <2>6. Range(sent'[k]) \subseteq Range(q) /\ Increasing(sent'[k])
    BY <2>3, <2>5
  <2>7. \A t \in Range(ui) : t.ids \cap Range(q) = {}
    BY <1>2, <1>8, <1>9 DEF Posted
  <2>8. /\ ui' \in Seq(UiTasks) /\ PostedOnce(ui')
        /\ \A t \in Range(ui') : t \in Range(ui) \/ (t.kind = "error" /\ t.core = k)
        /\ \A r : (\E t \in Range(ui') : r \in t.ids) <=>
                      r \in Range(q) \/ \E t \in Range(ui) : r \in t.ids
    <3>1. ui \in Seq(UiTasks) /\ PostedOnce(ui)
      BY DEF TypeOK, PlacesInv
    <3>2. ui' = FailedTasks(ui, k, q, n)
      BY <2>1 DEF FailedTasks
    <3>. HIDE DEF FlashInv
    <3>. QED
      BY <1>2, <2>7, <3>1, <3>2, FailedSends
  <2>9. \A r : Posted(r)' <=> Posted(r) \/ r \in Range(q)
    BY <2>8 DEF Posted
  <2>. HIDE DEF FlashInv
  <2>. QED
    BY <1>10, <2>1, <2>4, <2>5, <2>6, <2>8, <2>9
<1>. QED
  BY <1>3, <1>11, <1>12 DEF SendQueued

LEMMA ConnectToChannelStep ==
    ASSUME FlashInv, NEW c \in Cores, ConnectToChannel(c)
    PROVE  FlashInv'
<1>1. /\ c \in connecting /\ connecting' = connecting \ {c}
      /\ UNCHANGED <<alive, made, core, cores, io, replied, answers>>
      /\ UNCHANGED manager
  BY DEF ConnectToChannel, manager
<1>2. CASE state[c] = "detached"
  <2>1. UNCHANGED <<ui, state, queued, unreplied, channel, sent>>
    BY <1>2 DEF ConnectToChannel, work
  <2>. QED
    BY <1>1, <2>1, OnlyTheChannel DEF FlashInv, TypeOK
<1>3. CASE state[c] # "detached" /\ ConnectFails(c)
  <2>1. NotifyErrorFromIOThread(c, {}) /\ UNCHANGED <<channel, sent>>
    BY <1>3 DEF ConnectFails
  <2>2. /\ c <= cores
        /\ \A t \in Range(io') : t.kind = "initialize" => t.core # c
        /\ io' \in Seq(IoTasks) /\ InOrder(io') /\ DetachedLast(io') /\ InitializedOnce(io')
    BY <1>1 DEF FlashInv, CoreInv, IoInv, TypeOK, Cores
  <2>3. \A r : Asked(r)' <=> Asked(r)
    BY <1>1 DEF Asked
  <2>4. channel' \in [Cores -> {"none", "open", "broken"}]
    BY <2>1 DEF FlashInv, TypeOK
  <2>. QED
    BY <1>1, <1>3, <2>1, <2>2, <2>3, <2>4, NotifyErrorPreserves
<1>4. CASE state[c] # "detached" /\ Connects(c)
  BY <1>1, <1>4, ConnectsPreserves
<1>. QED
  BY <1>2, <1>3, <1>4 DEF ConnectToChannel

LEMMA OnChannelErrorStep ==
    ASSUME FlashInv, NEW c \in Cores, OnChannelError(c)
    PROVE  FlashInv'
<1>1. /\ channel[c] = "open" /\ channel' = [channel EXCEPT ![c] = "broken"]
      /\ NotifyErrorFromIOThread(c, {})
      /\ UNCHANGED <<alive, made, core, cores, io, connecting, sent, replied, answers>>
      /\ UNCHANGED manager
  BY DEF OnChannelError, manager
<1>2. /\ channel' \in [Cores -> {"none", "open", "broken"}]
      /\ \A d \in Cores : channel'[d] = "none" <=> channel[d] = "none"
  BY <1>1 DEF FlashInv, TypeOK
<1>3. CASE state[c] = "detached"
  <2>1. UNCHANGED <<ui, state, queued, unreplied>>
    BY <1>1, <1>3 DEF NotifyErrorFromIOThread, work
  <2>. QED
    BY <1>1, <1>2, <2>1, OnlyTheChannel DEF FlashInv, TypeOK
<1>4. CASE state[c] # "detached"
  <2>1. c \notin connecting /\ state[c] # "uninitialized" /\ c <= cores
    BY <1>1 DEF FlashInv, CoreInv, TypeOK, Cores
  <2>2. /\ \A t \in Range(io') : t.kind = "initialize" => t.core # c
        /\ io' \in Seq(IoTasks) /\ InOrder(io') /\ DetachedLast(io') /\ InitializedOnce(io')
    BY <1>1, <2>1 DEF FlashInv, IoInv, TypeOK
  <2>3. \A r : Asked(r)' <=> Asked(r)
    BY <1>1 DEF Asked
  <2>. QED
    BY <1>1, <1>2, <1>4, <2>1, <2>2, <2>3, NotifyErrorPreserves
<1>. QED
  BY <1>3, <1>4

\* A reply takes its request from the core to the UI thread.
LEMMA OnResultStep ==
    ASSUME FlashInv, NEW k \in Cores, OnResult(k)
    PROVE  FlashInv'
<1>. USE DEF FlashInv
<1>1. PICK r \in Range(sent[k]) \ replied :
         /\ replied' = replied \cup {r}
         /\ IF state[k] = "detached" \/ r \notin unreplied[k]
              THEN UNCHANGED <<unreplied, ui>>
              ELSE /\ unreplied' = [unreplied EXCEPT ![k] = @ \ {r}]
                   /\ ui' = Append(ui, [kind |-> "completed", core |-> k, ids |-> {r}])
  BY DEF OnResult
<1>2. /\ UNCHANGED <<alive, made, core, cores, io, state, queued, connecting, channel, sent,
                     answers>>
      /\ channel[k] = "open"
  BY DEF OnResult, manager
<1>3. r \in Requests /\ replied' \subseteq Requests
  BY <1>1, TaskTypes DEF TypeOK
<1>4. CASE state[k] = "detached" \/ r \notin unreplied[k]
  <2>1. UNCHANGED <<unreplied, ui>>
    BY <1>1, <1>4
  <2>2. channel' \in [Cores -> {"none", "open", "broken"}]
    BY <1>2 DEF TypeOK
  <2>. HIDE DEF FlashInv
  <2>. QED
    BY <1>2, <1>3, <2>1, <2>2, OnlyTheChannel
<1>5. CASE state[k] # "detached" /\ r \in unreplied[k]
  <2>. DEFINE e == [kind |-> "completed", core |-> k, ids |-> {r}]
  <2>1. unreplied' = [unreplied EXCEPT ![k] = @ \ {r}] /\ ui' = Append(ui, e)
    BY <1>1, <1>5
  <2>2. e \in UiTasks /\ e.kind = "completed" /\ e.core = k /\ e.ids = {r}
    BY <1>3 DEF UiTasks
  <2>. HIDE DEF e
  <2>3. ui' \in Seq(UiTasks) /\ Range(ui') = Range(ui) \cup {e}
    BY <2>1, <2>2, AppendFacts DEF TypeOK
  <2>4. /\ \A d \in Cores : d # k => unreplied'[d] = unreplied[d]
        /\ unreplied'[k] = unreplied[k] \ {r}
        /\ unreplied' \in [Cores -> SUBSET Requests]
    BY <2>1 DEF TypeOK
  <2>5. k <= cores /\ state[k] # "uninitialized" /\ state[k] # "error" /\ queued[k] = <<>>
    BY <1>2, <1>5 DEF CoreInv, TypeOK, Cores
  <2>6. Range(queued[k]) = {}
    BY <2>5, EmptySeq DEF Range
  <2>7. TypeOK'
    BY <1>2, <1>3, <2>3, <2>4, <2>5 DEF TypeOK
  <2>8. IoInv' /\ OrderInv'
    BY <1>2 DEF IoInv, OrderInv
  <2>9. UiInv'
    BY <1>2, <1>3, <2>2, <2>3, <2>5 DEF UiInv
  <2>10. CoreInv'
    BY <1>2, <2>4, <2>5 DEF CoreInv, TypeOK
  <2>11. /\ \A d \in Cores : \A q : Held(d, q)' <=> Held(d, q) /\ ~(d = k /\ q = r)
         /\ \A q : Posted(q)' <=> Posted(q) \/ q = r
         /\ \A q : Asked(q)' <=> Asked(q)
         /\ Held(k, r)
    <3>1. \A d \in Cores : \A q : Held(d, q)' <=> Held(d, q) /\ ~(d = k /\ q = r)
      BY <1>2, <2>4, <2>6 DEF Held
    <3>2. \A q : Posted(q)' <=> Posted(q) \/ q = r
      BY <2>2, <2>3 DEF Posted
    <3>. QED
      BY <1>2, <1>5, <3>1, <3>2 DEF Asked, Held
  <2>12. \A q \in Requests : \A d \in Cores :
            Held(d, q) => ~Posted(q) /\ (Held(k, q) => d = k)
    BY DEF PlacesInv
  <2>13. PlacesInv'
    <3>1. PostedOnce(ui')
      <4>1. \A t \in Range(ui) : t.ids \cap e.ids = {}
        BY <1>3, <2>2, <2>11, <2>12 DEF Posted
      <4>. QED
        BY <2>1, <2>2, <4>1, UiAppend DEF TypeOK, PlacesInv
    <3>2. \A q \in Requests : HasLeft(q)' => HasLeft(q)
      BY <1>2, <2>11 DEF HasLeft
    <3>3. \A q \in Requests : \A d \in Cores : Held(d, q)' => Held(d, q) /\ ~Posted(q)'
      BY <2>11, <2>12
    <3>4. \A q \in Requests : Posted(q)' => Posted(q) \/ \E d \in Cores : Held(d, q)
      BY <2>11
    <3>5. \A q \in Requests : Asked(q) \/ Posted(q) \/ (\E d \in Cores : Held(d, q))
              => Asked(q)' \/ Posted(q)' \/ \E d \in Cores : Held(d, q)'
      BY <2>11
    <3>. HIDE DEF FlashInv
    <3>. QED
      BY <1>2, <3>1, <3>2, <3>3, <3>4, <3>5, PlacesKept
  <2>. QED
    BY <2>7, <2>8, <2>9, <2>10, <2>13
<1>. QED
  BY <1>4, <1>5

-----------------------------------------------------------------------------
(* Answers, on the UI thread *)

LEMMA UiTaskTaken ==
    ASSUME FlashInv, ui # <<>>, ui' = Tail(ui)
    PROVE  /\ ui' \in Seq(UiTasks) /\ PostedOnce(ui')
           /\ Range(ui) = {Head(ui)} \cup Range(ui')
           /\ Head(ui) \in Range(ui) /\ Head(ui) \in UiTasks
           /\ \A r : Posted(r)' <=> Posted(r) /\ r \notin Head(ui).ids
<1>1. ui \in Seq(UiTasks) /\ PostedOnce(ui)
  BY DEF FlashInv, TypeOK, PlacesInv
<1>2. /\ ui' \in Seq(UiTasks) /\ Range(ui) = {Head(ui)} \cup Range(ui')
      /\ Head(ui) \in Range(ui) /\ Head(ui) \in UiTasks
  BY <1>1, TailFacts
<1>3. PostedOnce(ui') /\ \A t \in Range(ui') : t.ids \cap Head(ui).ids = {}
  BY <1>1, UiTail
<1>4. \A r : Posted(r)' <=> Posted(r) /\ r \notin Head(ui).ids
  BY <1>2, <1>3 DEF Posted
<1>. QED
  BY <1>2, <1>3, <1>4

\* A task that answers nothing any more is taken, or lost with the manager.
LEMMA QuietTask ==
    ASSUME FlashInv, ui # <<>>, ui' = Tail(ui),
           alive => Head(ui).ids = {},
           UNCHANGED <<alive, made, cores, state, queued, unreplied, connecting, channel, sent,
                       replied, answers>>,
           core' \in 0..cores, io' \in Seq(IoTasks), IoInv', CoreInv',
           \A t : t.kind = "request" => (t \in Range(io') <=> t \in Range(io))
    PROVE  FlashInv'
<1>1. /\ ui' \in Seq(UiTasks) /\ PostedOnce(ui') /\ Range(ui') \subseteq Range(ui)
      /\ \A r : Posted(r)' <=> Posted(r) /\ r \notin Head(ui).ids
  BY UiTaskTaken
<1>2. TypeOK'
  BY <1>1 DEF FlashInv, TypeOK
<1>3. UiInv' /\ OrderInv'
  BY <1>1 DEF FlashInv, UiInv, OrderInv
<1>4. PlacesInv'
  <2>1. \A d, r : Held(d, r)' <=> Held(d, r)
    BY DEF Held
  <2>2. \A r \in Requests : HasLeft(r)' => HasLeft(r)
    BY <1>1, <2>1 DEF HasLeft
  <2>3. \A r \in Requests : \A d \in Cores : Held(d, r) => ~Posted(r)
    BY DEF FlashInv, PlacesInv
  <2>4. \A r : Asked(r)' <=> Asked(r)
    BY DEF Asked
  <2>5. alive => \A r : Posted(r)' <=> Posted(r)
    BY <1>1
  <2>. QED
    BY <1>1, <2>1, <2>2, <2>3, <2>4, <2>5, PlacesKept
<1>. QED
  BY <1>2, <1>3, <1>4 DEF FlashInv

\* The client is told of a request, which is then nowhere any more.
LEMMA ToldPreserves ==
    ASSUME FlashInv, NEW r \in Requests, Posted(r), Told(r),
           UNCHANGED <<alive, made, core, cores, io, state, queued, unreplied, connecting, channel,
                       sent, replied>>,
           ui' \in Seq(UiTasks), PostedOnce(ui'), UiInv',
           \A q : Posted(q)' <=> Posted(q) /\ q # r
    PROVE  FlashInv'
<1>. USE DEF FlashInv
<1>1. answers[r] = 0 /\ \A c \in Cores : ~Held(c, r)
  BY DEF PlacesInv
<1>2. /\ answers' = [answers EXCEPT ![r] = 1]
      /\ answers' \in [Requests -> 0..MaxRequests]
  <2>1. answers' = [answers EXCEPT ![r] = 1]
    BY <1>1 DEF Told, TypeOK
  <2>2. 1 \in 0..MaxRequests
    BY BoundAssumption DEF Requests
  <2>. QED
    BY <2>1, <2>2 DEF TypeOK
<1>3. answers'[r] = 1 /\ \A q \in Requests : q # r => answers'[q] = answers[q]
  BY <1>2 DEF TypeOK
<1>4. TypeOK'
  BY <1>2 DEF TypeOK
<1>5. IoInv' /\ OrderInv' /\ CoreInv'
  BY DEF IoInv, OrderInv, CoreInv
<1>6. \A d, q : Held(d, q)' <=> Held(d, q)
  BY DEF Held
<1>7. \A q : Asked(q)' <=> Asked(q)
  BY DEF Asked
<1>8. PlacesInv'
  <2>1. \A q \in Requests : HasLeft(q)' => HasLeft(q)
    BY <1>3, <1>6 DEF HasLeft
  <2>2. \A q \in Requests : HasLeft(q)' =>
            q <= made' /\ \A t \in Range(io') : t.kind = "request" => q < t.id
    BY <2>1 DEF PlacesInv
  <2>3. \A q \in Requests : Posted(q)' => answers'[q] = 0 /\ \A d \in Cores : ~Held(d, q)'
    BY <1>3, <1>6 DEF PlacesInv
  <2>4. \A q \in Requests : \A d \in Cores : Held(d, q)' =>
            answers'[q] = 0 /\ \A f \in Cores : Held(f, q)' => d = f
    BY <1>1, <1>3, <1>6 DEF PlacesInv
  <2>5. AnsweredOnce'
    BY <1>3 DEF PlacesInv, AnsweredOnce
  <2>6. \A q \in 1..made : q \in Requests
    BY BoundAssumption DEF TypeOK, Requests
  <2>7. alive' => \A q \in 1..made' :
            answers'[q] = 0 => Asked(q)' \/ Posted(q)' \/ \E d \in Cores : Held(d, q)'
    BY <1>3, <1>6, <1>7, <2>6 DEF PlacesInv
  <2>. QED
    BY <2>2, <2>3, <2>4, <2>5, <2>7 DEF PlacesInv
<1>. QED
  BY <1>4, <1>5, <1>8

LEMMA NotifyCompletedStep ==
    ASSUME FlashInv, NotifyCompleted
    PROVE  FlashInv'
<1>1. /\ ui # <<>> /\ ui' = Tail(ui) /\ Head(ui).kind = "completed"
      /\ UNCHANGED <<alive, made, core, cores, io, state, queued, unreplied, connecting, channel,
                     sent, replied>>
  BY DEF NotifyCompleted, manager, work, broker
<1>2. /\ ui' \in Seq(UiTasks) /\ PostedOnce(ui') /\ Head(ui) \in Range(ui)
      /\ Range(ui) = {Head(ui)} \cup Range(ui')
      /\ \A r : Posted(r)' <=> Posted(r) /\ r \notin Head(ui).ids
  BY <1>1, UiTaskTaken
<1>3. CASE alive
  <2>1. PICK r \in Head(ui).ids : Told(r)
    BY <1>3 DEF NotifyCompleted
  <2>2. r \in Requests /\ Head(ui).ids = {r}
    BY <1>1, <1>2, <2>1 DEF FlashInv, UiInv
  <2>3. Posted(r)
    BY <1>2, <2>1 DEF Posted
  <2>4. UiInv'
    BY <1>1, <1>2 DEF FlashInv, UiInv
  <2>. QED
    BY <1>1, <1>2, <2>1, <2>2, <2>3, <2>4, ToldPreserves
<1>4. CASE ~alive
  <2>1. UNCHANGED answers
    BY <1>4 DEF NotifyCompleted
  <2>2. IoInv' /\ CoreInv' /\ core' \in 0..cores /\ io' \in Seq(IoTasks)
    BY <1>1 DEF FlashInv, IoInv, CoreInv, TypeOK
  <2>. QED
    BY <1>1, <1>4, <2>1, <2>2, QuietTask
<1>. QED
  BY <1>3, <1>4

LEMMA NotifyErrorStep ==
    ASSUME FlashInv, NotifyError
    PROVE  FlashInv'
<1>1. /\ ui # <<>> /\ Head(ui).kind = "error"
      /\ UNCHANGED <<alive, made, core, cores, io, state, queued, unreplied, connecting, channel,
                     sent, replied>>
  BY DEF NotifyError, manager, work, broker
<1>2. PICK r \in Head(ui).ids : Told(r) /\ ui' = [ui EXCEPT ![1].ids = @ \ {r}]
  BY DEF NotifyError
<1>3. ui \in Seq(UiTasks) /\ PostedOnce(ui)
  BY DEF FlashInv, TypeOK, PlacesInv
<1>4. /\ 1 \in DOMAIN ui /\ ui[1] = Head(ui) /\ Head(ui) \in Range(ui) /\ Head(ui) \in UiTasks
      /\ \A i \in DOMAIN ui : ui[i] \in Range(ui) /\ ui[i] \in UiTasks
  <2>1. 1 \in DOMAIN ui /\ ui[1] = Head(ui) /\ Head(ui) \in UiTasks
    BY <1>1, <1>3, TailFacts
  <2>2. \A i \in DOMAIN ui : ui[i] \in Range(ui) /\ ui[i] \in UiTasks
    BY <1>3, IndexFacts DEF Range
  <2>. QED
    BY <2>1, <2>2
<1>5. r \in Requests /\ Posted(r)
  BY <1>2, <1>4 DEF UiTasks, Posted
<1>. DEFINE e == [ui[1] EXCEPT !.ids = @ \ {r}]
<1>6. /\ e \in UiTasks /\ e.kind = ui[1].kind /\ e.core = ui[1].core /\ e.ids = ui[1].ids \ {r}
  BY <1>4 DEF UiTasks
<1>7. ui' = [ui EXCEPT ![1] = e]
  BY <1>2
<1>. HIDE DEF e
<1>8. /\ DOMAIN ui' = DOMAIN ui /\ ui'[1] = e
      /\ \A i \in DOMAIN ui : i # 1 => ui'[i] = ui[i]
  BY <1>4, <1>7
<1>9. ui' \in Seq(UiTasks)
  <2>1. DOMAIN ui = 1..Len(ui) /\ Len(ui) \in Nat
    BY <1>3, LenProperties
  <2>2. ui \in [1..Len(ui) -> UiTasks]
    BY <1>3, <1>4, <2>1, LenProperties
  <2>3. ui' \in [1..Len(ui) -> UiTasks]
    BY <1>6, <1>7, <2>2
  <2>. QED
    BY <2>1, <2>3, SeqDef
<1>10. PostedOnce(ui')
  <2>1. \A i \in DOMAIN ui : ui'[i].ids \subseteq ui[i].ids
    BY <1>6, <1>8
  <2>. QED
    BY <1>3, <1>8, <2>1 DEF PostedOnce
<1>11. Range(ui') = {e} \cup {ui[i] : i \in DOMAIN ui \ {1}}
  BY <1>4, <1>8 DEF Range
<1>12. UiInv'
  BY <1>1, <1>4, <1>6, <1>11 DEF FlashInv, UiInv
<1>13. \A q : Posted(q)' <=> Posted(q) /\ q # r
  <2>1. \A q : Posted(q)' <=> \E i \in DOMAIN ui' : q \in ui'[i].ids
    BY DEF Posted, Range
  <2>2. \A q : Posted(q) <=> \E i \in DOMAIN ui : q \in ui[i].ids
    BY DEF Posted, Range
  <2>3. \A i \in DOMAIN ui : i # 1 => r \notin ui[i].ids
    BY <1>2, <1>3, <1>4 DEF PostedOnce
  <2>4. \A i \in DOMAIN ui : ui'[i].ids = ui[i].ids \ {r}
    BY <1>6, <1>8, <2>3
  <2>. QED
    BY <1>8, <2>1, <2>2, <2>4
<1>. QED
  BY <1>1, <1>2, <1>5, <1>9, <1>10, <1>12, <1>13, ToldPreserves

LEMMA EndOfErrorStep ==
    ASSUME FlashInv, EndOfError
    PROVE  FlashInv'
<1>1. /\ ui # <<>> /\ ui' = Tail(ui) /\ Head(ui).kind = "error"
      /\ alive => Head(ui).ids = {}
      /\ UNCHANGED <<alive, made, cores, state, queued, unreplied, connecting, channel, sent,
                     replied, answers>>
      /\ UNCHANGED <<work, broker>>
  BY DEF EndOfError, work, broker
<1>2. CASE UNCHANGED <<core, io>>
  <2>1. IoInv' /\ CoreInv' /\ core' \in 0..cores /\ io' \in Seq(IoTasks)
    BY <1>1, <1>2 DEF FlashInv, IoInv, CoreInv, TypeOK
  <2>. QED
    BY <1>1, <1>2, <2>1, QuietTask
<1>3. CASE alive /\ Head(ui).core = core /\ core' = 0 /\ Detach
  <2>1. Head(ui) \in Range(ui) /\ Head(ui) \in UiTasks
    BY <1>1, UiTaskTaken
  <2>2. state[core] \in {"error", "detached"} /\ core # 0
    BY <1>1, <1>3, <2>1, BoundAssumption DEF FlashInv, UiInv, UiTasks, Cores
  <2>3. /\ io' \in Seq(IoTasks) /\ IoInv' /\ CoreInv'
        /\ \A t : t.kind = "request" => (t \in Range(io') <=> t \in Range(io))
    BY <1>1, <1>3, <2>2, DetachPreserves
  <2>4. core' \in 0..cores
    BY <1>3 DEF FlashInv, TypeOK
  <2>. QED
    BY <1>1, <2>3, <2>4, QuietTask
<1>. QED
  BY <1>2, <1>3 DEF EndOfError, OnError

-----------------------------------------------------------------------------
(* The theorems *)

LEMMA NextFlash == FlashInv /\ [Next]_vars => FlashInv'
<1>. SUFFICES ASSUME FlashInv, [Next]_vars PROVE FlashInv'
  OBVIOUS
<1>1. CASE MakeRequest
  BY <1>1, MakeRequestStep
<1>2. CASE DestroyManager
  BY <1>2, DestroyManagerStep
<1>3. CASE NotifyCompleted
  BY <1>3, NotifyCompletedStep
<1>4. CASE NotifyError
  BY <1>4, NotifyErrorStep
<1>5. CASE EndOfError
  BY <1>5, EndOfErrorStep
<1>6. CASE InitializeOnIOThread
  BY <1>6, InitializeStep
<1>7. CASE HandleRequest
  BY <1>7, HandleRequestStep
<1>8. CASE DetachOnIOThread
  BY <1>8, DetachStep
<1>9. ASSUME NEW c \in Cores, ConnectToChannel(c) \/ BrokerStep(c)
      PROVE  FlashInv'
  BY <1>9, ConnectToChannelStep, OnResultStep, OnChannelErrorStep DEF BrokerStep
<1>10. CASE UNCHANGED vars
  <2>1. UNCHANGED <<alive, made, core, cores, ui, io, state, queued, unreplied, connecting, channel,
                    sent, replied, answers>>
    BY <1>10 DEF vars, manager, work, broker
  <2>. QED
    BY <2>1, OnlyTheChannel DEF FlashInv, TypeOK
<1>. QED
  BY <1>1, <1>2, <1>3, <1>4, <1>5, <1>6, <1>7, <1>8, <1>9, <1>10
     DEF Next, ClientStep, UiStep, IoStep

\* The inductive invariant: where a request is on its way from the client to its answer,
\* and what the tasks of the two threads say of the core they are for.
THEOREM FlashInvariant == Spec => []FlashInv
<1>. QED
  BY InitFlash, NextFlash, PTL DEF Spec

\* No request is answered twice: a reply, a channel error and a failing send may all be on
\* their way for it, and only one of them finds it in pending_responses_.
THEOREM AnsweredAtMostOnce == Spec => []AnsweredOnce
<1>1. FlashInv => AnsweredOnce
  BY DEF FlashInv, PlacesInv
<1>. QED
  BY <1>1, FlashInvariant, PTL

\* No request is lost between the threads: not in a core that failed before the request
\* arrived, and not in one that was detached.
THEOREM NoRequestLost == Spec => []NothingLost
<1>1. FlashInv => NothingLost
  <2>. SUFFICES ASSUME FlashInv, alive, NEW r \in 1..made, answers[r] = 0
                PROVE  InIo(r) \/ InUi(r) \/ \E c \in Cores : HeldBy(c, r)
    BY DEF NothingLost
  <2>1. Asked(r) => InIo(r)
    BY DEF Asked, InIo, Range
  <2>2. Posted(r) => InUi(r)
    BY DEF Posted, InUi, Range
  <2>3. ASSUME NEW c \in Cores, Held(c, r)
        PROVE  HeldBy(c, r)
    <3>1. Range(<<>>) = {}
      BY EmptySeq DEF Range
    <3>2. state[c] # "detached"
      BY <2>3, <3>1 DEF FlashInv, CoreInv, Held
    <3>. QED
      BY <2>3, <3>2 DEF Held, HeldBy
  <2>. QED
    BY <2>1, <2>2, <2>3 DEF FlashInv, PlacesInv
<1>. QED
  BY <1>1, FlashInvariant, PTL

\* Detaching is the last that happens to a core, and a core is referenced until then.
THEOREM DetachedIsLast == Spec => []DetachIsLast
<1>1. FlashInv => DetachIsLast
  <2>. SUFFICES ASSUME FlashInv PROVE DetachIsLast
    OBVIOUS
  <2>1. NoCallAfterDetach
    <3>. SUFFICES ASSUME NEW i \in DOMAIN io, io[i].kind # "detach"
                  PROVE  /\ state[io[i].core] # "detached"
                         /\ \A j \in 1..(i - 1) :
                               ~(io[j].kind = "detach" /\ io[j].core = io[i].core)
      BY DEF NoCallAfterDetach
    <3>1. state[io[i].core] # "detached"
      BY DEF FlashInv, IoInv, Range
    <3>2. i \in Nat /\ \A j \in 1..(i - 1) : j \in DOMAIN io
      BY IndexFacts DEF FlashInv, TypeOK
    <3>3. \A j \in 1..(i - 1) : j < i
      BY <3>2
    <3>. QED
      BY <3>1, <3>2, <3>3 DEF FlashInv, IoInv, DetachedLast
  <2>2. UnreferencedIsDetached
    BY DEF FlashInv, CoreInv, UnreferencedIsDetached, Referenced, Range
  <2>. QED
    BY <2>1, <2>2 DEF FlashInv, DetachIsLast
<1>. QED
  BY <1>1, FlashInvariant, PTL

\* The broker gets the requests of a core in the order in which the client made them.
THEOREM RequestsInOrder == Spec => []SentInOrder
<1>1. FlashInv => SentInOrder
  BY DEF FlashInv, OrderInv, Increasing, SentInOrder
<1>. QED
  BY <1>1, FlashInvariant, PTL

\* "It is guaranteed that |client| won't receive any notifications after this object goes
\* away": both kinds of answer look at the manager first.
THEOREM NoAnswerAfterwards == Spec => SilentAfterwards
<1>1. [Next]_vars => [~alive => UNCHANGED answers]_vars
  BY DEF Next, ClientStep, UiStep, IoStep, BrokerStep, MakeRequest, DestroyManager,
         NotifyCompleted, NotifyError, EndOfError, InitializeOnIOThread, HandleRequest,
         DetachOnIOThread, ConnectToChannel, OnResult, OnChannelError, vars
<1>. QED
  BY <1>1, PTL DEF Spec, SilentAfterwards
===================================================================================
