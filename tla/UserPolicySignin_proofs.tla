------------------------ MODULE UserPolicySignin_proofs ------------------------
(***************************************************************************)
(* The invalidators follow the core that sign-in connects and disconnects, *)
(* and no announced change of policy is forgotten but by the two ways in   *)
(* which the code lets go of one (excused), for any number of policies and *)
(* objects.                                                                *)
(***************************************************************************)
EXTENDS UserPolicySignin, WellFoundedInduction, TLAPS

-----------------------------------------------------------------------------
(* The invariant *)

\* A client is registered, and fetches, only while the core is connected; policies
\* come in the order in which they were published.
CoreInv ==
    /\ core.registered \/ core.remote => core.connected
    /\ fetch.running => core.registered
    /\ ~store.loaded => store.policy = NoPolicy /\ ~core.registered
    /\ store.policy # NoPolicy => store.policy <= published
    /\ fetch.running => /\ fetch.content <= published /\ fetch.version <= fetch.content
                        /\ store.policy # NoPolicy => store.policy <= fetch.content

\* A change is announced once, for the object of the policy before it.
SentInv ==
    \A i \in sent : /\ 0 < i.change /\ i.change <= published
                    /\ i.object = Named(i.change - 1) /\ i.object # NoObject
                    /\ \A j \in sent : i.change = j.change => i = j

\* What the invalidator has been told of, and the versions it may give the client.
Heard(s) == s.acked \cup (IF Invalid(s) THEN {s.pending} ELSE {})
VersionOf(s, v) ==
    \/ v = 0
    \/ v < 0 /\ 0 - v <= s.unknownCount
    \/ \E i \in Heard(s) : i.kind # "unknown" /\ i.change = v

\* The flags follow service and registration; what is pending is of the registered
\* object and has a version of its own.
InvalidatorInv(s) ==
    /\ s \in InvalidatorType
    /\ s.enabled = (s.serviceEnabled /\ Registered(s)) /\ s.available = s.enabled
    /\ Registered(s) => s.serviceEnabled = serviceUp
    /\ s.refresh # "none" => Invalid(s)
    /\ Invalid(s) => /\ Registered(s) /\ s.pending.object = s.object
                     /\ s.pending.kind = "unknown" =>
                           s.version < 0 /\ 0 - s.version <= s.unknownCount
                     /\ s.pending.kind # "unknown" => s.version = s.pending.change
    /\ VersionOf(s, s.clientVersion)
    /\ Heard(s) \subseteq sent

NothingHeard(s) == s.acked = {} /\ s.highest = 0
FollowsCore(s) ==
    /\ s.state = "STARTED" => core.connected /\ s.object = ObjectOf(store.policy)
    /\ s.state # "STARTED" => ~Registered(s)
    /\ s.state = "STOPPED" => ~core.connected
    /\ s.state = "STOPPED" => store.policy = NoPolicy \/ NothingHeard(s)
    /\ s.state \in {"UNINITIALIZED", "SHUT_DOWN"} => NothingHeard(s)
    /\ ~store.loaded => NothingHeard(s)

RemoteFlags(s) ==
    /\ s \in RemoteType
    /\ s.enabled = (s.serviceEnabled /\ s.object # NoObject)
    /\ s.object # NoObject => s.serviceEnabled = serviceUp
    /\ s.state # "STARTED" => s.object = NoObject
RemoteInv ==
    /\ RemoteFlags(rc)
    /\ rc.state = "STARTED" => core.remote /\ rc.object = ObjectOf(store.policy)
    /\ rc.state = "STOPPED" => ~core.remote

\* Without an account there is neither core nor policy; a trial registration is for
\* an account still to come, the core's own for a client still to be registered.
SigninInv ==
    ~signin.down =>
        /\ signin.prohibited = core.registered
        /\ signin.posted => core.registered
        /\ signin.helper = "core" => core.connected /\ ~core.registered /\ store.loaded
        /\ signin.account = "none" => ~core.connected
        /\ signin.account = "none" /\ signin.ready =>
              store.policy = NoPolicy /\ store.loaded
        /\ signin.helper = "trial" \/ signin.dmToken =>
              signin.ready /\ signin.account = "none"
        /\ signin.dmToken => signin.helper = "none"

\* The changes acknowledged are stored already, or are of the registered object,
\* with one pending that is settled only by a fetch which brings them all.
Debt(s) == s.acked \ s.excused
Brings(content, s) == \A i \in Debt(s) : i.change <= content
DebtInv(s) ==
    /\ s.highest <= published
    /\ fetch.running => VersionOf(s, fetch.version)
    /\ Registered(s) =>
          /\ s.highest <= store.policy
          /\ ~Invalid(s) => Brings(store.policy, s)
          /\ \A i \in Debt(s) : i.change <= store.policy \/ i.object = s.object
    /\ ~Registered(s) /\ fetch.running =>
          s.highest <= fetch.content /\ Brings(fetch.content, s)
    /\ Invalid(s) /\ fetch.running /\ fetch.version = s.version =>
          Brings(fetch.content, s) /\ s.pending.change <= fetch.content

PolicyInv ==
    /\ TypeOK /\ CoreInv /\ SentInv
    /\ InvalidatorInv(inv) /\ FollowsCore(inv) /\ DebtInv(inv)
    /\ RemoteInv /\ SigninInv

-----------------------------------------------------------------------------
(* Objects of policies *)

\* Policies are numbered, so those of one object are an interval.
LEMMA DivFacts ==
    ASSUME NEW a \in Nat, NEW b \in Nat, a <= b
    PROVE  /\ a \div ContentsPerObject \in 0..a
           /\ a \div ContentsPerObject <= b \div ContentsPerObject
<1> DEFINE k == ContentsPerObject
<1>1. k \in Nat /\ k > 0
  BY PolicyAssumption
<1>2. \A x \in Nat : /\ x \div k \in Nat
                     /\ k * (x \div k) <= x /\ x < k * (x \div k) + k
  BY <1>1
<1>. QED
  BY <1>1, <1>2

LEMMA NamedType ==
    \A content \in Contents : Named(content) \in Objects \cup {NoObject}
<1> SUFFICES ASSUME NEW content \in Contents PROVE Named(content) \in Objects \cup {NoObject}
  OBVIOUS
<1>1. content \in Nat /\ content <= MaxContent /\ MaxContent \in Nat
  BY PolicyAssumption DEF Contents
<1>2. content \div ContentsPerObject \in 0..content
  BY <1>1, DivFacts
<1>. QED
  BY <1>1, <1>2 DEF Named, Objects, Contents

LEMMA ObjectType ==
    \A policy \in Contents \cup {NoPolicy} : ObjectOf(policy) \in Objects \cup {NoObject}
BY NamedType DEF ObjectOf

\* An announced change of the object of policy q is in policy p, if p is later and of
\* another object.
LEMMA ChangeOfObject ==
    ASSUME NEW p \in Contents, NEW q \in Contents, q <= p,
           NEW i \in Invalidations, 0 < i.change, i.object = Named(i.change - 1),
           i.object = Named(q), Named(q) # NoObject, Named(p) # NoObject, Named(p) # Named(q)
    PROVE  i.change <= p
<1>1. p \in Nat /\ q \in Nat /\ i.change \in Nat /\ i.change - 1 \in Nat
  BY PolicyAssumption DEF Contents, Invalidations
<1>2. SUFFICES ASSUME p <= i.change - 1 PROVE FALSE
  BY <1>1
<1>3. /\ Named(q) = q \div ContentsPerObject /\ Named(p) = p \div ContentsPerObject
      /\ Named(i.change - 1) = (i.change - 1) \div ContentsPerObject
  BY DEF Named
<1>4. /\ q \div ContentsPerObject <= p \div ContentsPerObject
      /\ p \div ContentsPerObject <= (i.change - 1) \div ContentsPerObject
  BY <1>1, <1>2, DivFacts
<1>5. q \div ContentsPerObject \in Int /\ p \div ContentsPerObject \in Int
  BY <1>1, DivFacts
<1>. QED
  BY <1>3, <1>4, <1>5

-----------------------------------------------------------------------------
(* The handlers of the invalidator *)

\* What the bookkeeping of the registration leaves alone.
Keeps(s, r) ==
    /\ r.state = s.state /\ r.version = s.version
    /\ r.unknownCount = s.unknownCount /\ r.highest = s.highest
    /\ r.excused = s.excused /\ Heard(r) = Heard(s)
    /\ r.refresh \in {"none", s.refresh} /\ r.clientVersion \in {0, s.clientVersion}

LEMMA FieldTypes ==
    ASSUME NEW s \in InvalidatorType
    PROVE  /\ \A v \in InvalidatorStates : [s EXCEPT !.state = v] \in InvalidatorType
           /\ \A v \in Objects \cup {NoObject} : [s EXCEPT !.object = v] \in InvalidatorType
           /\ \A v \in BOOLEAN : [s EXCEPT !.serviceEnabled = v] \in InvalidatorType
           /\ \A v \in Invalidations \cup {NoInvalidation} :
                 [s EXCEPT !.pending = v] \in InvalidatorType
           /\ \A v \in Int : [s EXCEPT !.version = v] \in InvalidatorType
           /\ \A v \in Nat : [s EXCEPT !.unknownCount = v] \in InvalidatorType
           /\ \A v \in Nat : [s EXCEPT !.highest = v] \in InvalidatorType
           /\ \A v \in {"none", "bare", "payload"} :
                 [s EXCEPT !.refresh = v] \in InvalidatorType
           /\ \A v \in Int : [s EXCEPT !.clientVersion = v] \in InvalidatorType
           /\ [s EXCEPT !.clientVersion = 0] \in InvalidatorType
           /\ \A v \in SUBSET Invalidations : [s EXCEPT !.acked = v] \in InvalidatorType
           /\ \A v \in SUBSET Invalidations : [s EXCEPT !.excused = v] \in InvalidatorType
BY DEF InvalidatorType

LEMMA AcknowledgeFacts ==
    ASSUME NEW s \in InvalidatorType, NEW r, r = AcknowledgeIfInvalid(s)
    PROVE  /\ r \in InvalidatorType /\ Keeps(s, r)
           /\ ~Invalid(r)
           /\ Invalid(s) \/ s.refresh = "none" => r.refresh = "none"
           /\ r.object = s.object /\ r.available = s.available
           /\ r.serviceEnabled = s.serviceEnabled /\ r.enabled = s.enabled
<1>1. CASE Invalid(s)
  <2>1. s.pending \in Invalidations
    BY <1>1 DEF Invalid, InvalidatorType
  <2>. DEFINE acked == s.acked \cup {s.pending}
              s1 == [s EXCEPT !.acked = acked]
              s2 == [s1 EXCEPT !.pending = NoInvalidation]
              s3 == [s2 EXCEPT !.clientVersion = 0]
  <2>2. r = [s3 EXCEPT !.refresh = "none"]
    BY <1>1 DEF AcknowledgeIfInvalid, AcknowledgeInvalidation, Acknowledge, InvalidatorType
  <2>3. acked \in SUBSET Invalidations
    BY <2>1 DEF InvalidatorType
  <2>4. s1 \in InvalidatorType
    BY <2>3, FieldTypes
  <2>5. s2 \in InvalidatorType
    <3>. HIDE DEF s1
    <3>. QED BY <2>4, FieldTypes
  <2>6. s3 \in InvalidatorType
    <3>. HIDE DEF s2
    <3>. QED BY <2>5, FieldTypes
  <2>7. r \in InvalidatorType
    <3>. HIDE DEF s3
    <3>. QED BY <2>2, <2>6, FieldTypes
  <2>. QED
    BY <1>1, <2>2, <2>7 DEF Keeps, Heard, Invalid, InvalidatorType
<1>2. CASE ~Invalid(s)
  BY <1>2 DEF Keeps, AcknowledgeIfInvalid, Heard, Invalid
<1>. QED
  BY <1>1, <1>2

LEMMA UpdateFacts ==
    ASSUME NEW s \in InvalidatorType, s.available = s.enabled,
           NEW r, r = UpdateInvalidationsEnabled(s)
    PROVE  /\ r \in InvalidatorType /\ Keeps(s, r)
           /\ r.enabled = (r.serviceEnabled /\ Registered(r)) /\ r.available = r.enabled
           /\ r.object = s.object /\ r.pending = s.pending /\ r.refresh = s.refresh
           /\ r.serviceEnabled = s.serviceEnabled /\ r.acked = s.acked
           /\ r.clientVersion = s.clientVersion
BY DEF Keeps, Heard, Invalid, UpdateInvalidationsEnabled, InvalidatorType, Registered

\* The invalidator becomes registered for an object, or for none.
LEMMA MoveFacts ==
    ASSUME NEW s \in InvalidatorType, s.available = s.enabled,
           NEW object \in Objects \cup {NoObject}, s.refresh # "none" => Invalid(s),
           NEW r, r = UpdateInvalidationsEnabled([AcknowledgeIfInvalid(s) EXCEPT !.object = object])
    PROVE  /\ r \in InvalidatorType /\ Keeps(s, r)
           /\ r.enabled = (r.serviceEnabled /\ Registered(r)) /\ r.available = r.enabled
           /\ r.object = object /\ ~Invalid(r) /\ r.refresh = "none"
           /\ r.serviceEnabled = s.serviceEnabled
<1> DEFINE a == AcknowledgeIfInvalid(s)
           u == [a EXCEPT !.object = object]
<1>1. /\ a \in InvalidatorType /\ Keeps(s, a) /\ ~Invalid(a) /\ a.refresh = "none"
      /\ a.available = s.available /\ a.enabled = s.enabled
      /\ a.serviceEnabled = s.serviceEnabled
  BY AcknowledgeFacts
<1> HIDE DEF a
<1>2. u \in InvalidatorType
  BY <1>1, FieldTypes
<1>3. /\ Keeps(a, u) /\ ~Invalid(u) /\ u.refresh = "none" /\ u.object = object
      /\ u.available = u.enabled /\ u.serviceEnabled = a.serviceEnabled
  BY <1>1 DEF Keeps, Heard, Invalid, InvalidatorType
<1>4. r = UpdateInvalidationsEnabled(u)
  BY DEF a
<1> HIDE DEF u
<1>5. /\ r \in InvalidatorType /\ Keeps(u, r)
      /\ r.enabled = (r.serviceEnabled /\ Registered(r)) /\ r.available = r.enabled
      /\ r.object = u.object /\ r.pending = u.pending /\ r.refresh = u.refresh
      /\ r.serviceEnabled = u.serviceEnabled
  BY <1>2, <1>3, <1>4, UpdateFacts
<1>6. Keeps(s, r)
  BY <1>1, <1>3, <1>5 DEF Keeps
<1>. QED
  BY <1>1, <1>3, <1>5, <1>6 DEF Invalid

\* Registration follows the policy; what is pending stays so just while the object does.
LEMMA RegistrationFacts ==
    ASSUME NEW s, InvalidatorInv(s), NEW policy \in Contents \cup {NoPolicy},
           serviceUp \in BOOLEAN, NEW r, r = UpdateRegistration(s, policy)
    PROVE  /\ InvalidatorInv(r) /\ Keeps(s, r) /\ r.object = ObjectOf(policy)
           /\ s.object = ObjectOf(policy) => r = s
           /\ s.object # ObjectOf(policy) => ~Invalid(r)
<1> DEFINE object == ObjectOf(policy)
<1>1. /\ s \in InvalidatorType /\ s.available = s.enabled /\ (s.refresh # "none" => Invalid(s))
      /\ object \in Objects \cup {NoObject}
  BY ObjectType DEF InvalidatorInv
<1>2. CASE s.object = object
  <2>1. r = s
    BY <1>2 DEF UpdateRegistration, Unregister, Registered
  <2>. QED
    BY <1>2, <2>1 DEF Keeps
<1>3. CASE s.object # object
  <2>1. PICK l \in InvalidatorType :
           /\ r = UpdateInvalidationsEnabled([AcknowledgeIfInvalid(l) EXCEPT !.object = object])
           /\ Keeps(s, l) /\ l.available = l.enabled /\ (l.refresh # "none" => Invalid(l))
           /\ object # NoObject => l.serviceEnabled = serviceUp
    <3>1. CASE Registered(s)
      <4>1. r = UpdateInvalidationsEnabled([AcknowledgeIfInvalid(s) EXCEPT !.object = object])
        BY <1>3, <3>1 DEF UpdateRegistration, Unregister, Register, Registered
      <4>2. Keeps(s, s) /\ s.serviceEnabled = serviceUp
        BY <3>1 DEF Keeps, InvalidatorInv
      <4>. QED
        BY <1>1, <4>1, <4>2
    <3>2. CASE ~Registered(s)
      <4> DEFINE v == [s EXCEPT !.serviceEnabled = serviceUp]
                 l == UpdateInvalidationsEnabled(v)
      <4>1. object # NoObject
        BY <1>3, <3>2 DEF Registered
      <4>2. r = UpdateInvalidationsEnabled([AcknowledgeIfInvalid(l) EXCEPT !.object = object])
        BY <1>3, <3>2, <4>1 DEF UpdateRegistration, Register, OnInvalidatorStateChange
      <4>3. v \in InvalidatorType
        BY <1>1, FieldTypes
      <4>4. /\ Keeps(s, v) /\ v.available = v.enabled /\ v.serviceEnabled = serviceUp
            /\ v.refresh = s.refresh /\ v.pending = s.pending
        BY <1>1 DEF Keeps, Heard, Invalid, InvalidatorType
      <4> HIDE DEF v
      <4>5. /\ l \in InvalidatorType /\ Keeps(v, l) /\ l.available = l.enabled
            /\ l.refresh = v.refresh /\ l.pending = v.pending
            /\ l.serviceEnabled = v.serviceEnabled
        BY <4>3, <4>4, UpdateFacts
      <4> HIDE DEF l
      <4>6. Keeps(s, l)
        BY <4>4, <4>5 DEF Keeps
      <4>. QED
        BY <1>1, <4>2, <4>4, <4>5, <4>6 DEF Invalid
    <3>. QED
      BY <3>1, <3>2
  <2>2. /\ r \in InvalidatorType /\ Keeps(l, r)
        /\ r.enabled = (r.serviceEnabled /\ Registered(r)) /\ r.available = r.enabled
        /\ r.object = object /\ ~Invalid(r) /\ r.refresh = "none"
        /\ r.serviceEnabled = l.serviceEnabled
    BY <1>1, <2>1, MoveFacts
  <2>3. Keeps(s, r)
    BY <2>1, <2>2 DEF Keeps
  <2>4. VersionOf(r, r.clientVersion) /\ Heard(r) \subseteq sent
    BY <2>3 DEF Keeps, InvalidatorInv, VersionOf
  <2>5. Registered(r) => r.serviceEnabled = serviceUp
    BY <2>1, <2>2 DEF Registered
  <2>. QED
    BY <1>3, <2>2, <2>3, <2>4, <2>5 DEF InvalidatorInv
<1>. QED
  BY <1>2, <1>3

\* What a loaded store makes of the invalidator, beside its registration.
Settles(s, loaded, r) ==
    /\ r.state = s.state /\ r.version = s.version
    /\ r.unknownCount = s.unknownCount /\ r.excused = s.excused
    /\ Heard(r) = Heard(s)
    /\ ~Registered(s) => r.highest = s.highest
    /\ r.highest \in {s.highest, loaded.version}
    /\ Invalid(r) => /\ loaded.version # s.version /\ s.object = r.object
                     /\ Invalid(s) /\ r.pending = s.pending /\ r.acked = s.acked
    /\ Invalid(s) /\ s.object = r.object /\ ~Invalid(r) => loaded.version = s.version

\* A store that is loaded settles what was fetched for, and then the registration.
LEMMA StoreLoadedFacts ==
    ASSUME NEW s, InvalidatorInv(s), NEW loaded, loaded.policy \in Contents \cup {NoPolicy},
           loaded.version \in Int, serviceUp \in BOOLEAN,
           NEW r, r = OnStoreLoaded(s, loaded)
    PROVE  /\ InvalidatorInv(r) /\ r.object = ObjectOf(loaded.policy)
           /\ Settles(s, loaded, r)
<1> DEFINE settled == IF Acknowledges(s, loaded) THEN AcknowledgeInvalidation(s) ELSE s
           handled == IF Registered(s)
                      THEN [settled EXCEPT !.highest = Larger(@, loaded.version)] ELSE s
<1>1. /\ s \in InvalidatorType /\ Keeps(s, s) /\ (s.refresh # "none" => Invalid(s))
      /\ r = UpdateRegistration(handled, loaded.policy)
  BY DEF InvalidatorInv, OnStoreLoaded, Keeps
<1>2. /\ settled \in InvalidatorType /\ Keeps(s, settled)
      /\ Invalid(settled) => settled = s /\ loaded.version # s.version
      /\ Invalid(s) /\ ~Invalid(settled) => loaded.version = s.version
      /\ settled.refresh # "none" => Invalid(settled)
      /\ settled.object = s.object /\ settled.available = s.available
      /\ settled.serviceEnabled = s.serviceEnabled /\ settled.enabled = s.enabled
  <2>1. CASE Acknowledges(s, loaded)
    <3>1. settled = AcknowledgeIfInvalid(s) /\ loaded.version = s.version /\ Invalid(s)
      BY <2>1 DEF Acknowledges, AcknowledgeIfInvalid
    <3>. HIDE DEF settled
    <3>. QED
      BY <1>1, <3>1, AcknowledgeFacts
  <2>2. CASE ~Acknowledges(s, loaded)
    BY <1>1, <2>2 DEF Acknowledges
  <2>. QED
    BY <2>1, <2>2
<1> HIDE DEF settled
<1>3. InvalidatorInv(settled)
  <2>1. VersionOf(settled, settled.clientVersion) /\ Heard(settled) \subseteq sent
    BY <1>2 DEF InvalidatorInv, Keeps, VersionOf
  <2>. QED
    BY <1>2, <2>1 DEF InvalidatorInv, Registered
<1>4. /\ InvalidatorInv(handled) /\ handled.object = s.object
      /\ handled.state = s.state /\ handled.version = s.version
      /\ handled.unknownCount = s.unknownCount /\ handled.excused = s.excused
      /\ Heard(handled) = Heard(s)
      /\ ~Registered(s) => handled.highest = s.highest
      /\ handled.highest \in {s.highest, loaded.version}
      /\ Invalid(handled) => /\ loaded.version # s.version /\ Invalid(s)
                             /\ handled.pending = s.pending /\ handled.acked = s.acked
      /\ Invalid(s) /\ ~Invalid(handled) => loaded.version = s.version
  <2>1. CASE Registered(s)
    <3>. DEFINE h == Larger(settled.highest, loaded.version)
    <3>1. h \in Nat /\ h \in {s.highest, loaded.version}
      BY <1>2 DEF Larger, InvalidatorType, Keeps
    <3>2. handled = [settled EXCEPT !.highest = h]
      BY <2>1
    <3>. HIDE DEF h, handled
    <3>3. handled \in InvalidatorType
      BY <1>2, <3>1, <3>2, FieldTypes
    <3>4. /\ handled.highest = h /\ handled.object = settled.object
          /\ handled.state = settled.state /\ handled.version = settled.version
          /\ handled.unknownCount = settled.unknownCount
          /\ handled.excused = settled.excused /\ handled.acked = settled.acked
          /\ handled.pending = settled.pending /\ handled.refresh = settled.refresh
          /\ handled.clientVersion = settled.clientVersion
          /\ handled.serviceEnabled = settled.serviceEnabled
          /\ handled.enabled = settled.enabled /\ handled.available = settled.available
      BY <1>2, <3>2 DEF InvalidatorType
    <3>5. Heard(handled) = Heard(settled) /\ (Invalid(handled) <=> Invalid(settled))
      BY <3>4 DEF Heard, Invalid
    <3>6. InvalidatorInv(handled)
      BY <1>3, <3>3, <3>4, <3>5 DEF InvalidatorInv, Registered, VersionOf
    <3>. QED
      BY <1>2, <2>1, <3>1, <3>4, <3>5, <3>6 DEF Keeps
  <2>2. CASE ~Registered(s)
    <3>1. handled = s /\ ~Invalid(s)
      BY <2>2 DEF InvalidatorInv
    <3>. HIDE DEF handled
    <3>. QED
      BY <3>1, <2>2
  <2>. QED
    BY <2>1, <2>2
<1> HIDE DEF handled
<1>5. /\ InvalidatorInv(r) /\ Keeps(handled, r) /\ r.object = ObjectOf(loaded.policy)
      /\ handled.object = ObjectOf(loaded.policy) => r = handled
      /\ handled.object # ObjectOf(loaded.policy) => ~Invalid(r)
  BY <1>1, <1>4, RegistrationFacts
<1>. QED
  BY <1>4, <1>5 DEF Keeps, Settles

-----------------------------------------------------------------------------
(* Incoming invalidations *)

LEMMA Largest ==
    ASSUME NEW bound \in Nat, NEW T \in SUBSET (0..bound), T # {}
    PROVE  \E n \in T : \A m \in T : m <= n
<1> DEFINE D == {bound - n : n \in T}
<1>0. \A n \in T : n \in Nat /\ bound - n \in Nat
  OBVIOUS
<1>1. D \in SUBSET Nat /\ D # {}
  <2>1. PICK n : n \in T
    OBVIOUS
  <2>2. bound - n \in D
    BY <2>1
  <2>. QED
    BY <1>0, <2>2
<1>2. PICK d \in D : \A e \in D : <<e, d>> \notin OpToRel(<, Nat)
  BY <1>1, NatLessThanWellFounded, WFMin
<1>3. \A e \in D : ~(e < d)
  BY <1>1, <1>2 DEF OpToRel
<1>4. PICK n \in T : d = bound - n
  OBVIOUS
<1>5. \A m \in T : m <= n
  <2> SUFFICES ASSUME NEW m \in T PROVE m <= n
    OBVIOUS
  <2>1. bound - m \in D
    OBVIOUS
  <2>. QED
    <3>1. ~(bound - m < bound - n)
      BY <1>3, <1>4, <2>1
    <3>2. m \in Nat /\ n \in Nat
      BY <1>0
    <3>. QED
      BY <3>1, <3>2
<1>. QED
  BY <1>5

LEMMA NewestFacts ==
    ASSUME NEW list \in SUBSET Invalidations, list # {}
    PROVE  /\ Newest(list) \in list
           /\ \A j \in list : \/ j.kind = "unknown"
                              \/ /\ Newest(list).kind # "unknown"
                                 /\ j.change <= Newest(list).change
<1> DEFINE known == {i \in list : i.kind # "unknown"}
           Best(i) == \A j \in list :
                         j.kind = "unknown" \/ (i.kind # "unknown" /\ j.change <= i.change)
<1>1. \E i \in list : Best(i)
  <2>1. CASE known = {}
    BY <2>1
  <2>2. CASE known # {}
    <3> DEFINE T == {i.change : i \in known}
    <3>1. T \in SUBSET (0..MaxContent) /\ T # {} /\ MaxContent \in Nat
      BY <2>2, PolicyAssumption DEF Invalidations, Contents
    <3>2. PICK n \in T : \A m \in T : m <= n
      BY <3>1, Largest
    <3>. QED
      BY <3>2
  <2>. QED
    BY <2>1, <2>2
<1>. QED
  BY <1>1 DEF Newest

\* More is acknowledged, and some of it is not owed.
Heed(s, is, js) ==
    [s EXCEPT !.acked = s.acked \cup is, !.excused = s.excused \cup js]

LEMMA HeedFacts ==
    ASSUME NEW s, InvalidatorInv(s), sent \subseteq Invalidations,
           NEW is \in SUBSET sent, NEW js \in SUBSET Invalidations
    PROVE  InvalidatorInv(Heed(s, is, js))
<1> DEFINE r == Heed(s, is, js)
           acked == s.acked \cup is
           excused == s.excused \cup js
           a == [s EXCEPT !.acked = acked]
<1>1. s \in InvalidatorType /\ acked \in SUBSET Invalidations /\ excused \in SUBSET Invalidations
  BY DEF InvalidatorInv, InvalidatorType
<1>2. r = Heed(s, is, js) /\ r = [a EXCEPT !.excused = excused]
  BY DEF Heed
<1> HIDE DEF r
<1>3. a \in InvalidatorType
  BY <1>1, FieldTypes
<1>4. r \in InvalidatorType
  <2> HIDE DEF a, excused
  <2>. QED BY <1>1, <1>2, <1>3, FieldTypes
<1>5. /\ r.acked = acked /\ r.available = s.available
      /\ r.state = s.state /\ r.object = s.object /\ r.pending = s.pending
      /\ r.version = s.version /\ r.unknownCount = s.unknownCount
      /\ r.clientVersion = s.clientVersion /\ r.refresh = s.refresh
      /\ r.serviceEnabled = s.serviceEnabled /\ r.enabled = s.enabled
  BY <1>1, <1>2 DEF Heed, InvalidatorType
<1>6. Heard(r) = Heard(s) \cup is
  BY <1>5 DEF Heard, Invalid
<1>7. VersionOf(r, r.clientVersion)
  BY <1>5, <1>6 DEF InvalidatorInv, VersionOf
<1>8. InvalidatorInv(r)
  BY <1>4, <1>5, <1>6, <1>7 DEF InvalidatorInv, Registered, Invalid
<1>. QED
  BY <1>2, <1>8

\* A version is told from all earlier ones: an invalidation is pending once only.
LEMMA FreshVersion ==
    ASSUME NEW s, InvalidatorInv(s), SentInv, sent \subseteq Invalidations,
           NEW v \in Int, VersionOf(s, v), NEW i \in sent \ s.acked,
           i.kind # "unknown" => ~Invalid(s) \/ s.version < i.change
    PROVE  /\ i.kind # "unknown" => v # i.change
           /\ v # 0 - (s.unknownCount + 1)
<1>1. s.unknownCount \in Nat /\ s.version \in Int
  BY DEF InvalidatorInv, InvalidatorType
<1>2. \A j \in sent : j.change \in Nat /\ j.change > 0
  BY PolicyAssumption DEF SentInv, Invalidations, Contents
<1>3. Heard(s) \subseteq sent
  BY DEF InvalidatorInv
<1>4. v # 0 - (s.unknownCount + 1)
  BY <1>1, <1>2, <1>3 DEF VersionOf
<1>5. ASSUME i.kind # "unknown", v = i.change PROVE FALSE
  <2>1. PICK j \in Heard(s) : j.kind # "unknown" /\ j.change = v
    BY <1>1, <1>2, <1>5 DEF VersionOf
  <2>2. j = i
    BY <1>3, <1>5, <2>1 DEF SentInv
  <2>3. Invalid(s) /\ i = s.pending
    BY <2>2 DEF Heard
  <2>. QED
    BY <1>1, <1>2, <1>5, <2>3 DEF InvalidatorInv
<1>. QED
  BY <1>4, <1>5

\* The invalidation becomes the pending one under a new version.
LEMMA PendFacts ==
    ASSUME NEW s, InvalidatorInv(s), ~Invalid(s), Registered(s), sent \subseteq Invalidations,
           NEW i \in sent, i.object = s.object, 0 < i.change,
           NEW r, r = Pend(Count(s, i), i)
    PROVE  /\ InvalidatorInv(r) /\ Invalid(r) /\ r.pending = i
           /\ r.version = IF i.kind = "unknown" THEN 0 - (s.unknownCount + 1) ELSE i.change
           /\ Heard(r) = Heard(s) \cup {i} /\ r.acked = s.acked /\ r.excused = s.excused
           /\ r.state = s.state /\ r.object = s.object /\ r.highest = s.highest
           /\ r.unknownCount \in {s.unknownCount, s.unknownCount + 1}
<1> DEFINE c == Count(s, i)
           version == IF i.kind = "unknown" THEN 0 - c.unknownCount ELSE i.change
           told == IF i.kind = "payload" THEN version ELSE c.clientVersion
           refresh == IF i.kind = "payload" THEN "payload" ELSE "bare"
           c1 == [c EXCEPT !.pending = i]
           c2 == [c1 EXCEPT !.version = version]
           c3 == [c2 EXCEPT !.clientVersion = told]
<1>1. /\ s \in InvalidatorType /\ s.unknownCount \in Nat /\ i \in Invalidations
      /\ i.change \in Nat
  BY PolicyAssumption DEF InvalidatorInv, InvalidatorType, Invalidations, Contents
<1>2. /\ c \in InvalidatorType
      /\ c.unknownCount = IF i.kind = "unknown" THEN s.unknownCount + 1 ELSE s.unknownCount
      /\ c.state = s.state /\ c.object = s.object /\ c.pending = s.pending
      /\ c.version = s.version /\ c.highest = s.highest /\ c.clientVersion = s.clientVersion
      /\ c.acked = s.acked /\ c.excused = s.excused
      /\ c.serviceEnabled = s.serviceEnabled /\ c.enabled = s.enabled
      /\ c.available = s.available
  <2>1. CASE i.kind = "unknown"
    <3> DEFINE n == s.unknownCount + 1
    <3>1. n \in Nat /\ c = [s EXCEPT !.unknownCount = n]
      BY <1>1, <2>1 DEF Count
    <3> HIDE DEF n
    <3>2. c \in InvalidatorType
      BY <1>1, <3>1, FieldTypes
    <3>3. /\ c.unknownCount = n
          /\ c.state = s.state /\ c.object = s.object /\ c.pending = s.pending
          /\ c.version = s.version /\ c.highest = s.highest
          /\ c.clientVersion = s.clientVersion
          /\ c.acked = s.acked /\ c.excused = s.excused
          /\ c.serviceEnabled = s.serviceEnabled /\ c.enabled = s.enabled
          /\ c.available = s.available
      BY <1>1, <3>1 DEF InvalidatorType
    <3>. QED
      BY <2>1, <3>2, <3>3 DEF n
  <2>2. CASE i.kind # "unknown"
    BY <1>1, <2>2 DEF Count
  <2>. QED
    BY <2>1, <2>2
<1> HIDE DEF c
<1>3. version \in Int /\ told \in Int
  BY <1>1, <1>2 DEF InvalidatorType
<1>4. r = [c3 EXCEPT !.refresh = refresh]
  BY DEF Pend, c
<1> HIDE DEF version, told
<1>5. /\ r.pending = i /\ r.version = version /\ r.clientVersion = told
      /\ r.refresh = refresh
      /\ r.unknownCount = c.unknownCount /\ r.state = c.state /\ r.object = c.object
      /\ r.highest = c.highest /\ r.acked = c.acked /\ r.excused = c.excused
      /\ r.serviceEnabled = c.serviceEnabled /\ r.enabled = c.enabled
      /\ r.available = c.available
  BY <1>2, <1>4 DEF InvalidatorType
<1>6. r \in InvalidatorType
  <2>1. c1 \in InvalidatorType
    BY <1>1, <1>2, FieldTypes
  <2> HIDE DEF c1
  <2>2. c2 \in InvalidatorType
    BY <1>3, <2>1, FieldTypes
  <2> HIDE DEF c2
  <2>3. c3 \in InvalidatorType
    BY <1>3, <2>2, FieldTypes
  <2>4. refresh \in {"none", "bare", "payload"}
    OBVIOUS
  <2> HIDE DEF c3, refresh
  <2>. QED
    BY <1>4, <2>3, <2>4, FieldTypes
<1>7. Invalid(r) /\ Heard(r) = Heard(s) \cup {i}
  BY <1>1, <1>2, <1>5, NothingPendingAssumption DEF Invalid, Heard
<1>8. VersionOf(r, told)
  <2>1. VersionOf(s, s.clientVersion)
    BY DEF InvalidatorInv
  <2>2. CASE i.kind = "payload"
    BY <1>7, <2>2 DEF VersionOf, told, version
  <2>3. CASE i.kind # "payload"
    <3>1. told = s.clientVersion /\ s.clientVersion \in Int
      BY <1>1, <1>2, <2>3 DEF told, InvalidatorType
    <3>2. s.unknownCount <= r.unknownCount /\ r.unknownCount \in Nat
      BY <1>1, <1>2, <1>5
    <3>. QED
      BY <1>1, <1>7, <2>1, <3>1, <3>2 DEF VersionOf
  <2>. QED
    BY <2>2, <2>3
<1>9. i.kind = "unknown" => version < 0 /\ 0 - version <= r.unknownCount
  BY <1>1, <1>2, <1>5 DEF version
<1>10. InvalidatorInv(r)
  BY <1>2, <1>5, <1>6, <1>7, <1>8, <1>9 DEF InvalidatorInv, Registered, version
<1>. QED
  BY <1>2, <1>5, <1>7, <1>10 DEF version

\* An expired one is acknowledged, and with it what was pending; nothing of that is owed.
LEMMA ExpiredFacts ==
    ASSUME NEW s, InvalidatorInv(s), sent \subseteq Invalidations, NEW i \in sent,
           NEW r, r = Count(DropExpired(s, i), i)
    PROVE  /\ InvalidatorInv(r) /\ ~Invalid(r)
           /\ Heard(r) = Heard(s) \cup {i}
           /\ Invalid(s) => Debt(r) = {}
           /\ ~Invalid(s) => r.acked = s.acked \cup {i} /\ r.excused = s.excused \cup {i}
           /\ r.state = s.state /\ r.object = s.object /\ r.highest = s.highest
           /\ r.unknownCount \in {s.unknownCount, s.unknownCount + 1}
<1> DEFINE a == AcknowledgeIfInvalid(s)
           excuses == {i} \cup (IF Invalid(s) THEN s.acked \cup {s.pending} ELSE {})
           d == Heed(a, {i}, excuses)
<1>1. /\ s \in InvalidatorType /\ s.unknownCount \in Nat
      /\ excuses \in SUBSET Invalidations /\ {i} \in SUBSET sent
  BY DEF InvalidatorInv, InvalidatorType, Invalid
<1>2. /\ a \in InvalidatorType /\ Keeps(s, a) /\ ~Invalid(a) /\ a.refresh = "none"
      /\ a.object = s.object /\ a.available = s.available
      /\ a.serviceEnabled = s.serviceEnabled /\ a.enabled = s.enabled
  BY <1>1, AcknowledgeFacts DEF InvalidatorInv
<1>3. a.acked = Heard(s)
  BY <1>2 DEF Keeps, Heard
<1>4. DropExpired(s, i) = d
  <2>1. DropExpired(s, i) = [Acknowledge(a, {i}) EXCEPT !.excused = @ \cup {i} \cup
                                IF Invalid(s) THEN s.acked \cup {s.pending} ELSE {}]
    BY DEF DropExpired
  <2> HIDE DEF a
  <2>2. a.excused \cup {i} \cup (IF Invalid(s) THEN s.acked \cup {s.pending} ELSE {})
            = a.excused \cup excuses
    OBVIOUS
  <2> HIDE DEF excuses
  <2>. QED
    BY <1>2, <2>1, <2>2 DEF Acknowledge, Heed, InvalidatorType
<1> HIDE DEF a
<1>5. InvalidatorInv(a)
  <2>1. VersionOf(a, a.clientVersion) /\ Heard(a) \subseteq sent
    BY <1>2 DEF InvalidatorInv, Keeps, VersionOf
  <2>. QED
    BY <1>2, <2>1 DEF InvalidatorInv, Registered
<1> HIDE DEF excuses
<1>6. /\ InvalidatorInv(d) /\ Heard(d) = Heard(a) \cup {i}
      /\ d.acked = a.acked \cup {i} /\ d.excused = a.excused \cup excuses
      /\ d.state = a.state /\ d.object = a.object /\ d.pending = a.pending
      /\ d.unknownCount = a.unknownCount /\ d.highest = a.highest
      /\ d.clientVersion = a.clientVersion
  <2> DEFINE one == {i}
  <2>1. one \in SUBSET sent /\ a \in InvalidatorType
    BY <1>2
  <2>2. d = Heed(a, one, excuses)
    OBVIOUS
  <2> HIDE DEF one, d
  <2>3. InvalidatorInv(d)
    BY <1>1, <1>5, <2>1, <2>2, HeedFacts
  <2>. QED
    BY <2>1, <2>2, <2>3 DEF one, Heed, Heard, Invalid, InvalidatorType
<1> HIDE DEF d
<1>7. /\ InvalidatorInv(r) /\ Heard(r) = Heard(d)
      /\ r.acked = d.acked /\ r.excused = d.excused
      /\ r.state = d.state /\ r.object = d.object /\ r.pending = d.pending
      /\ r.unknownCount \in {d.unknownCount, d.unknownCount + 1} /\ r.highest = d.highest
  <2>1. CASE i.kind = "unknown"
    <3> DEFINE n == d.unknownCount + 1
    <3>1. d \in InvalidatorType /\ n \in Nat /\ r = [d EXCEPT !.unknownCount = n]
      BY <1>4, <1>6, <2>1 DEF Count, InvalidatorInv, InvalidatorType
    <3>2. d.unknownCount \in Nat
      BY <3>1 DEF InvalidatorType
    <3> HIDE DEF n
    <3>3. r \in InvalidatorType
      <4>1. \A v \in Nat : [d EXCEPT !.unknownCount = v] \in InvalidatorType
        BY <3>1, FieldTypes
      <4>. QED
        BY <3>1, <4>1
    <3>4. /\ r.unknownCount = n
          /\ r.state = d.state /\ r.object = d.object /\ r.pending = d.pending
          /\ r.version = d.version /\ r.highest = d.highest
          /\ r.clientVersion = d.clientVersion /\ r.refresh = d.refresh
          /\ r.acked = d.acked /\ r.excused = d.excused
          /\ r.serviceEnabled = d.serviceEnabled /\ r.enabled = d.enabled
          /\ r.available = d.available
      BY <3>1 DEF InvalidatorType
    <3>5. Heard(r) = Heard(d) /\ (Invalid(r) <=> Invalid(d))
      BY <3>4 DEF Heard, Invalid
    <3>6. r.clientVersion \in Int /\ d.unknownCount <= r.unknownCount
      BY <3>2, <3>3, <3>4 DEF n, InvalidatorType
    <3>7. VersionOf(r, r.clientVersion)
      <4>1. VersionOf(d, r.clientVersion)
        BY <1>6, <3>4 DEF InvalidatorInv
      <4>2. r.unknownCount \in Nat
        BY <3>3 DEF InvalidatorType
      <4>. QED
        BY <3>2, <3>5, <3>6, <4>1, <4>2 DEF VersionOf
    <3>8. ~Invalid(d)
      BY <1>2, <1>6 DEF Invalid
    <3>9. InvalidatorInv(r)
      BY <1>6, <3>3, <3>4, <3>5, <3>7, <3>8 DEF InvalidatorInv, Registered
    <3>. QED
      BY <3>4, <3>5, <3>9 DEF n
  <2>2. CASE i.kind # "unknown"
    BY <1>4, <1>6, <2>2 DEF Count
  <2>. QED
    BY <2>1, <2>2
<1>8. ~Invalid(r)
  BY <1>2, <1>6, <1>7 DEF Invalid
<1>9. Invalid(s) => Debt(r) = {}
  BY <1>3, <1>6, <1>7 DEF Debt, Heard, excuses
<1>10. ~Invalid(s) => r.acked = s.acked \cup {i} /\ r.excused = s.excused \cup {i}
  BY <1>2, <1>3, <1>6, <1>7 DEF Heard, excuses, Keeps
<1>. QED
  BY <1>2, <1>6, <1>7, <1>8, <1>9, <1>10 DEF Keeps

LEMMA IncomingFacts ==
    ASSUME PolicyInv, OnIncomingInvalidation, NEW r, r = inv'
    PROVE  /\ InvalidatorInv(r) /\ FollowsCore(r) /\ DebtInv(r)
<1>1. /\ InvalidatorInv(inv) /\ inv.state = "STARTED" /\ Registered(inv)
      /\ sent \subseteq Invalidations /\ SentInv /\ DebtInv(inv) /\ FollowsCore(inv)
      /\ \A i \in sent : i.change \in Nat /\ i.change > 0 /\ i \in Invalidations
  BY PolicyAssumption
  DEF PolicyInv, OnIncomingInvalidation, TypeOK, CoreTypeOK, SentInv, Invalidations, Contents
<1>2. /\ store.policy # NoPolicy /\ store.policy \in Nat /\ store.loaded
      /\ inv.highest \in Nat /\ inv.version \in Int /\ inv.unknownCount \in Nat
  BY <1>1, PolicyAssumption
  DEF PolicyInv, TypeOK, CoreTypeOK, CoreInv, FollowsCore, Registered, ObjectOf,
      Contents, InvalidatorType
<1>3. PICK list \in (SUBSET {i \in sent \ inv.acked : i.object = inv.object}) \ {{}} :
        \E expired \in {MustBeExpired(Newest(list)), MayBeExpired(Newest(list))} :
          inv' = HandleInvalidation(
                    [Acknowledge(inv, list \ {Newest(list)}) EXCEPT
                        !.excused = @ \cup
                            IF Pends(inv, Newest(list), expired) THEN {}
                            ELSE {i \in list \ {Newest(list)} : i.kind = "unknown"}],
                    Newest(list), expired)
  BY DEF OnIncomingInvalidation
<1>22. PICK expired \in {MustBeExpired(Newest(list)), MayBeExpired(Newest(list))} :
          inv' = HandleInvalidation(
                    [Acknowledge(inv, list \ {Newest(list)}) EXCEPT
                        !.excused = @ \cup
                            IF Pends(inv, Newest(list), expired) THEN {}
                            ELSE {i \in list \ {Newest(list)} : i.kind = "unknown"}],
                    Newest(list), expired)
  BY <1>3
<1> DEFINE i == Newest(list)
           others == list \ {i}
           unknown == IF Pends(inv, i, expired) THEN {}
                      ELSE {j \in others : j.kind = "unknown"}
           a == Heed(inv, others, unknown)
<1>4. /\ i \in list
      /\ \A j \in others : j.kind = "unknown" \/ (i.kind # "unknown" /\ j.change <= i.change)
  BY <1>1, <1>3, NewestFacts
<1>5. expired \in {MustBeExpired(i), MayBeExpired(i)} /\ r = HandleInvalidation(a, i, expired)
  <2>1. [Acknowledge(inv, others) EXCEPT !.excused = @ \cup unknown] = a
    BY <1>1 DEF Acknowledge, Heed, InvalidatorInv, InvalidatorType
  <2>. QED
    BY <1>22, <2>1
<1>6. /\ others \in SUBSET sent /\ unknown \in SUBSET Invalidations
      /\ i \in sent /\ i \notin inv.acked /\ i.object = inv.object
      /\ \A j \in others : j.object = inv.object
      /\ i \notin others /\ i \in Invalidations
  BY <1>1, <1>3, <1>4
<1> HIDE DEF i
<1>7. ~Pends(inv, i, expired) =>
        \A j \in others \ unknown : i.kind # "unknown" /\ j.change <= i.change
  BY <1>4
<1> HIDE DEF others, unknown
<1>8. /\ InvalidatorInv(a) /\ Heard(a) = Heard(inv) \cup others
      /\ a.acked = inv.acked \cup others /\ a.excused = inv.excused \cup unknown
      /\ a.state = inv.state /\ a.object = inv.object /\ a.pending = inv.pending
      /\ a.version = inv.version /\ a.unknownCount = inv.unknownCount
      /\ a.highest = inv.highest /\ a.clientVersion = inv.clientVersion
  <2>1. inv \in InvalidatorType /\ a = Heed(inv, others, unknown)
    BY <1>1 DEF InvalidatorInv
  <2> HIDE DEF a
  <2>2. InvalidatorInv(a)
    BY <1>1, <1>6, <2>1, HeedFacts
  <2>. QED
    BY <2>1, <2>2 DEF Heed, Heard, Invalid, InvalidatorType
<1> HIDE DEF a
<1>9. /\ Registered(a) /\ (Invalid(a) <=> Invalid(inv))
      /\ \A j \in Debt(a) : j \in Debt(inv) \/ j \in others \ unknown
  BY <1>1, <1>8 DEF Registered, Invalid, Debt
<1>10. \A j \in Debt(a) : j.object = inv.object \/ j.change <= store.policy
  BY <1>1, <1>6, <1>9 DEF DebtInv
<1>11. SUFFICES /\ InvalidatorInv(r) /\ r.state = inv.state /\ r.object = inv.object
                /\ r.highest = inv.highest
                /\ Heard(inv) \subseteq Heard(r)
                /\ r.unknownCount \in {inv.unknownCount, inv.unknownCount + 1}
                /\ \A j \in Debt(r) : j.object = inv.object \/ j.change <= store.policy
                /\ ~Invalid(r) => Brings(store.policy, r)
                /\ Invalid(r) /\ fetch.running /\ fetch.version = r.version =>
                      Brings(fetch.content, r) /\ r.pending.change <= fetch.content
  <2>1. FollowsCore(r)
    BY <1>1, <1>2, <1>11 DEF FollowsCore
  <2>2. fetch.running => VersionOf(r, fetch.version)
    <3>1. SUFFICES ASSUME fetch.running PROVE VersionOf(r, fetch.version)
      OBVIOUS
    <3>2. VersionOf(inv, fetch.version) /\ fetch.version \in Int
      BY <1>1, <3>1 DEF DebtInv, PolicyInv, TypeOK, CoreTypeOK
    <3>. QED
      BY <1>2, <1>11, <3>2 DEF VersionOf
  <2>3. DebtInv(r)
    BY <1>1, <1>11, <2>2 DEF DebtInv, Registered
  <2>. QED
    BY <1>11, <2>1, <2>3
<1>12. fetch.running => /\ fetch.version \in Int /\ fetch.content \in Nat
                        /\ store.policy <= fetch.content /\ VersionOf(inv, fetch.version)
  BY <1>1, <1>2, PolicyAssumption
  DEF DebtInv, PolicyInv, CoreInv, TypeOK, CoreTypeOK, Contents
<1>20. Pends(inv, i, expired) => Pends(a, i, expired)
  BY <1>8, <1>9 DEF Pends
<1>21. ~Pends(a, i, expired) =>
        /\ i.kind # "unknown" \/ others \ unknown = {}
        /\ \A j \in others \ unknown : j.change <= i.change
  BY <1>7, <1>20
<1>23. i.kind # "unknown" /\ Invalid(a) /\ i.change <= a.version => ~Pends(a, i, expired)
  BY DEF Pends
<1>24. i.kind # "unknown" /\ i.change <= a.highest => ~Pends(a, i, expired)
  <2>1. i.change \in Nat /\ a.highest \in Nat
    BY <1>1, <1>2, <1>6, <1>8
  <2>. QED
    BY <2>1 DEF Pends
<1>25. expired => ~Pends(a, i, expired)
  BY DEF Pends
<1>13. CASE i.kind # "unknown" /\ Invalid(a) /\ i.change <= a.version
  <2>1. r = a
    BY <1>5, <1>13 DEF HandleInvalidation
  <2>2. ASSUME fetch.running, fetch.version = inv.version
        PROVE  Brings(fetch.content, a) /\ a.pending.change <= fetch.content
    <3>1. Brings(fetch.content, inv) /\ inv.pending.change <= fetch.content /\ inv.pending \in sent
      BY <1>1, <1>9, <1>13, <2>2 DEF DebtInv, InvalidatorInv, Heard
    <3>2. inv.version = inv.pending.change
      BY <1>1, <1>2, <1>6, <1>8, <1>9, <1>13 DEF InvalidatorInv
    <3>3. i.change <= fetch.content
      BY <1>1, <1>6, <1>8, <1>12, <1>13, <2>2, <3>1, <3>2
    <3>4. ASSUME NEW j \in others \ unknown PROVE j.change <= fetch.content
      <4>1. j.change <= i.change
        BY <1>13, <1>21, <1>23
      <4>. QED
        BY <1>1, <1>6, <1>12, <2>2, <3>3, <4>1
    <3>. QED
      BY <1>8, <1>9, <3>1, <3>4 DEF Brings
  <2>. QED
    BY <1>8, <1>9, <1>10, <1>13, <2>1, <2>2 DEF Invalid
<1>14. CASE /\ ~(i.kind # "unknown" /\ Invalid(a) /\ i.change <= a.version)
            /\ i.kind # "unknown" /\ i.change <= a.highest
  <2>1. r = Acknowledge(a, {i})
    BY <1>5, <1>14 DEF HandleInvalidation
  <2> DEFINE one == {i}
             none == {}
  <2>2. r = Heed(a, one, none)
    BY <1>8, <2>1 DEF Acknowledge, Heed, InvalidatorInv, InvalidatorType
  <2>3. one \in SUBSET sent /\ none \in SUBSET Invalidations
    BY <1>6
  <2> HIDE DEF one, none
  <2>4. /\ InvalidatorInv(r) /\ Heard(r) = Heard(a) \cup one
        /\ r.acked = a.acked \cup one /\ r.excused = a.excused \cup none
        /\ r.state = a.state /\ r.object = a.object /\ r.pending = a.pending
        /\ r.version = a.version /\ r.unknownCount = a.unknownCount
        /\ r.highest = a.highest /\ r.clientVersion = a.clientVersion
    <3>1. a \in InvalidatorType
      BY <1>8 DEF InvalidatorInv
    <3>2. InvalidatorInv(r)
      BY <1>1, <1>8, <2>2, <2>3, HeedFacts
    <3>. QED
      BY <2>2, <3>1, <3>2 DEF Heed, Heard, Invalid, InvalidatorType
  <2>5. i.change <= store.policy
    BY <1>1, <1>2, <1>6, <1>8, <1>14 DEF DebtInv
  <2>6. ASSUME NEW j \in others \ unknown PROVE j.change <= store.policy
    <3>1. j.change <= i.change
      BY <1>14, <1>21, <1>24
    <3>. QED
      BY <1>1, <1>2, <1>6, <2>5, <3>1
  <2>7. \A j \in Debt(r) : j \in Debt(inv) \/ j.change <= store.policy
    BY <1>9, <2>4, <2>5, <2>6 DEF Debt, one, none
  <2>8. ~Invalid(r) => Brings(store.policy, r)
    BY <1>1, <1>8, <2>4, <2>7 DEF DebtInv, Brings, Invalid
  <2>9. ASSUME Invalid(r), fetch.running, fetch.version = r.version
        PROVE  Brings(fetch.content, r) /\ r.pending.change <= fetch.content
    <3>1. Brings(fetch.content, inv) /\ inv.pending.change <= fetch.content
      BY <1>1, <1>8, <2>4, <2>9 DEF DebtInv, Invalid
    <3>2. \A j \in Debt(r) : j.change \in Nat
      BY <1>1, <2>4 DEF InvalidatorInv, Heard, Debt
    <3>. QED
      BY <1>2, <1>8, <1>12, <2>4, <2>7, <2>9, <3>1, <3>2 DEF Brings
  <2>. QED
    BY <1>1, <1>8, <2>4, <2>7, <2>8, <2>9 DEF DebtInv
<1>15. CASE /\ ~(i.kind # "unknown" /\ Invalid(a) /\ i.change <= a.version)
            /\ ~(i.kind # "unknown" /\ i.change <= a.highest) /\ expired
  <2>1. r = Count(DropExpired(a, i), i)
    BY <1>5, <1>15 DEF HandleInvalidation
  <2>2. /\ InvalidatorInv(r) /\ ~Invalid(r)
        /\ Heard(r) = Heard(a) \cup {i}
        /\ Invalid(a) => Debt(r) = {}
        /\ ~Invalid(a) => r.acked = a.acked \cup {i} /\ r.excused = a.excused \cup {i}
        /\ r.state = a.state /\ r.object = a.object /\ r.highest = a.highest
        /\ r.unknownCount \in {a.unknownCount, a.unknownCount + 1}
    BY <1>1, <1>6, <1>8, <2>1, ExpiredFacts
  <2>3. Brings(store.policy, r)
    <3>1. CASE Invalid(a)
      BY <2>2, <3>1 DEF Brings
    <3>2. CASE ~Invalid(a)
      <4>1. \A j \in Debt(r) : j \in Debt(inv) \/ j \in others \ unknown
        BY <1>9, <2>2, <3>2 DEF Debt
      <4>2. Brings(store.policy, inv)
        BY <1>1, <1>9, <3>2 DEF DebtInv
      <4>3. ASSUME NEW j \in others \ unknown PROVE j.change <= store.policy
        <5>1. i.kind # "unknown" /\ j.change <= i.change
          BY <1>15, <1>21, <1>25
        <5>2. i.change <= store.policy
          BY <1>5, <1>15, <5>1 DEF MayBeExpired, MustBeExpired
        <5>. QED
          BY <1>1, <1>2, <1>6, <5>1, <5>2
      <4>. QED
        BY <4>1, <4>2, <4>3 DEF Brings
    <3>. QED
      BY <3>1, <3>2
  <2>. QED
    BY <1>8, <2>2, <2>3 DEF Brings
<1>16. CASE /\ ~(i.kind # "unknown" /\ Invalid(a) /\ i.change <= a.version)
            /\ ~(i.kind # "unknown" /\ i.change <= a.highest) /\ ~expired
  <2> DEFINE b == AcknowledgeIfInvalid(a)
             c == AcknowledgeIfInvalid(Count(a, i))
  <2>1. r = Pend(Count(b, i), i)
    <3>1. r = Pend(Count(AcknowledgeIfInvalid(a), i), i)
      BY <1>5, <1>16 DEF HandleInvalidation
    <3>. QED
      BY <3>1
  <2>2. /\ b \in InvalidatorType /\ Keeps(a, b) /\ ~Invalid(b) /\ b.refresh = "none"
        /\ b.object = a.object /\ b.available = a.available
        /\ b.serviceEnabled = a.serviceEnabled /\ b.enabled = a.enabled
    BY <1>8, AcknowledgeFacts DEF InvalidatorInv
  <2> HIDE DEF b
  <2>3. InvalidatorInv(b) /\ Registered(b)
    <3>1. VersionOf(b, b.clientVersion) /\ Heard(b) \subseteq sent
      BY <1>8, <2>2 DEF InvalidatorInv, Keeps, VersionOf
    <3>. QED
      BY <1>8, <1>9, <2>2, <3>1 DEF InvalidatorInv, Registered
  <2>4. /\ InvalidatorInv(r) /\ Invalid(r) /\ r.pending = i
        /\ r.version = IF i.kind = "unknown" THEN 0 - (b.unknownCount + 1) ELSE i.change
        /\ Heard(r) = Heard(b) \cup {i} /\ r.acked = b.acked /\ r.excused = b.excused
        /\ r.state = b.state /\ r.object = b.object /\ r.highest = b.highest
        /\ r.unknownCount \in {b.unknownCount, b.unknownCount + 1}
    BY <1>1, <1>6, <1>8, <2>1, <2>2, <2>3, PendFacts
  <2>5. fetch.running => fetch.version # r.version
    <3>1. i \in sent \ a.acked
      BY <1>6, <1>8
    <3>2. i.kind # "unknown" => ~Invalid(a) \/ a.version < i.change
      BY <1>1, <1>2, <1>6, <1>8, <1>16
    <3>3. fetch.running => VersionOf(a, fetch.version)
      BY <1>8, <1>12 DEF VersionOf
    <3>4. fetch.running => /\ i.kind # "unknown" => fetch.version # i.change
                           /\ fetch.version # 0 - (a.unknownCount + 1)
      BY <1>1, <1>8, <1>12, <3>1, <3>2, <3>3, FreshVersion
    <3>. QED
      BY <2>2, <2>4, <3>4 DEF Keeps
  <2>6. \A j \in Debt(r) : j \in Debt(a) \/ j.object = inv.object
    <3>1. Invalid(a) => a.pending.object = inv.object
      BY <1>8 DEF InvalidatorInv
    <3>2. b.acked = Heard(a)
      BY <2>2 DEF Keeps, Heard
    <3>. QED
      BY <2>2, <2>4, <3>1, <3>2 DEF Debt, Heard, Keeps
  <2>. QED
    BY <1>8, <1>10, <2>2, <2>4, <2>5, <2>6 DEF Keeps
<1>. QED
  BY <1>13, <1>14, <1>15, <1>16

-----------------------------------------------------------------------------
(* The core comes and goes *)

\* An invalidator that is not registered has nothing pending.
LEMMA Unregistered ==
    ASSUME NEW s, InvalidatorInv(s), ~Registered(s)
    PROVE  ~Invalid(s) /\ s.refresh = "none" /\ s.acked = Heard(s) /\ Debt(s) = Heard(s) \ s.excused
BY DEF InvalidatorInv, Heard, Debt

\* One that starts to observe the core registers for the object of the stored policy.
LEMMA StartedFacts ==
    ASSUME PolicyInv, inv.state \in {"UNINITIALIZED", "STOPPED"},
           NEW s, s = [inv EXCEPT !.state = "STARTED"],
           NEW r, r = OnStoreLoaded(s, store)
    PROVE  /\ InvalidatorInv(r) /\ DebtInv(r) /\ ~Invalid(r)
           /\ r.state = "STARTED" /\ r.object = ObjectOf(store.policy)
           /\ NothingHeard(inv) => NothingHeard(r)
<1>1. /\ InvalidatorInv(inv) /\ inv \in InvalidatorType /\ ~Registered(inv)
      /\ DebtInv(inv) /\ serviceUp \in BOOLEAN
      /\ store.policy \in Contents \cup {NoPolicy} /\ store.version \in Int
  BY DEF PolicyInv, FollowsCore, InvalidatorInv, TypeOK, CoreTypeOK
<1>2. store.policy # NoPolicy => NothingHeard(inv) /\ store.policy \in Nat
  BY <1>1 DEF PolicyInv, FollowsCore, Contents
<1>3. /\ s.object = inv.object /\ s.serviceEnabled = inv.serviceEnabled
      /\ s.enabled = inv.enabled /\ s.available = inv.available
      /\ s.pending = inv.pending /\ s.version = inv.version
      /\ s.unknownCount = inv.unknownCount /\ s.highest = inv.highest
      /\ s.refresh = inv.refresh /\ s.clientVersion = inv.clientVersion
      /\ s.acked = inv.acked /\ s.excused = inv.excused /\ s.state = "STARTED"
  BY <1>1 DEF InvalidatorType
<1>4. s \in InvalidatorType
  BY <1>1, FieldTypes DEF InvalidatorStates
<1>5. InvalidatorInv(s) /\ ~Registered(s) /\ Heard(s) = Heard(inv)
  BY <1>1, <1>3, <1>4 DEF InvalidatorInv, Registered, Invalid, VersionOf, Heard
<1>6. ~Invalid(s) /\ Heard(s) = s.acked
  BY <1>5, Unregistered
<1>7. /\ InvalidatorInv(r) /\ r.object = ObjectOf(store.policy)
      /\ r.state = s.state /\ r.unknownCount = s.unknownCount /\ r.excused = s.excused
      /\ Heard(r) = Heard(s) /\ r.highest = s.highest /\ ~Invalid(r)
  <2>1. InvalidatorInv(r) /\ r.object = ObjectOf(store.policy) /\ Settles(s, store, r)
    BY <1>1, <1>5, StoreLoadedFacts
  <2>. QED
    BY <1>5, <1>6, <2>1 DEF Settles
<1>8. r.acked = inv.acked
  BY <1>3, <1>6, <1>7 DEF Heard
<1>9. Debt(r) = Debt(inv)
  BY <1>3, <1>7, <1>8 DEF Debt
<1>10. Registered(r) => store.policy # NoPolicy
  BY <1>7 DEF Registered, ObjectOf
<1>11. fetch.running => VersionOf(r, fetch.version)
  BY <1>1, <1>3, <1>5, <1>7 DEF DebtInv, VersionOf
<1>12. NothingHeard(inv) => Debt(r) = {} /\ r.highest = 0
  BY <1>3, <1>7, <1>8 DEF NothingHeard, Debt
<1>13. Registered(r) => r.highest <= store.policy /\ Brings(store.policy, r)
  BY <1>2, <1>10, <1>12 DEF Brings
<1>14. DebtInv(r)
  BY <1>1, <1>3, <1>7, <1>9, <1>11, <1>13 DEF DebtInv, Brings
<1>. QED
  BY <1>3, <1>7, <1>8, <1>14 DEF NothingHeard

\* One that stops is registered for nothing, and what was pending is acknowledged.
LEMMA StoppedFacts ==
    ASSUME PolicyInv, NEW r, r = OnCoreDisconnecting(inv)
    PROVE  /\ InvalidatorInv(r) /\ ~Registered(r) /\ r.highest = inv.highest
           /\ inv.state = "STARTED" => r.state = "STOPPED"
           /\ inv.state # "STARTED" => r = inv
<1>1. /\ InvalidatorInv(inv) /\ serviceUp \in BOOLEAN
      /\ inv.state # "STARTED" => ~Registered(inv)
  BY DEF PolicyInv, FollowsCore, TypeOK, CoreTypeOK
<1>2. CASE inv.state # "STARTED"
  BY <1>1, <1>2 DEF OnCoreDisconnecting
<1>3. CASE inv.state = "STARTED"
  <2> DEFINE u == Unregister(inv)
  <2>1. u = UpdateRegistration(inv, NoPolicy) /\ ObjectOf(NoPolicy) = NoObject
    BY DEF UpdateRegistration, ObjectOf
  <2>2. InvalidatorInv(u) /\ Keeps(inv, u) /\ u.object = NoObject
    BY <1>1, <2>1, RegistrationFacts
  <2>3. r = [u EXCEPT !.state = "STOPPED"]
    BY <1>3 DEF OnCoreDisconnecting
  <2> HIDE DEF u
  <2>4. u \in InvalidatorType
    BY <2>2 DEF InvalidatorInv
  <2>5. r \in InvalidatorType
    BY <2>3, <2>4, FieldTypes DEF InvalidatorStates
  <2>6. /\ r.object = u.object /\ r.serviceEnabled = u.serviceEnabled
        /\ r.enabled = u.enabled /\ r.available = u.available
        /\ r.pending = u.pending /\ r.version = u.version
        /\ r.unknownCount = u.unknownCount /\ r.highest = u.highest
        /\ r.refresh = u.refresh /\ r.clientVersion = u.clientVersion
        /\ r.acked = u.acked /\ r.excused = u.excused /\ r.state = "STOPPED"
    BY <2>3, <2>4 DEF InvalidatorType
  <2>7. InvalidatorInv(r) /\ ~Registered(r) /\ Heard(r) = Heard(u)
    BY <2>2, <2>5, <2>6 DEF InvalidatorInv, Registered, Invalid, VersionOf, Heard
  <2>. QED
    BY <1>3, <2>2, <2>6, <2>7 DEF Keeps
<1>. QED
  BY <1>2, <1>3

\* The fetched policy brings what it is acknowledged for, and whatever was announced
\* for the object of the policy before it if it names another one.
LEMMA FetchedFacts ==
    ASSUME PolicyInv, fetch.running, inv.state = "STARTED",
           NEW new, new.policy = fetch.content, new.version = fetch.version,
           NEW r, r = OnStoreLoaded(inv, new)
    PROVE  /\ InvalidatorInv(r) /\ r.state = "STARTED" /\ r.object = ObjectOf(fetch.content)
           /\ r.highest <= fetch.content
           /\ Registered(r) =>
                 /\ ~Invalid(r) => Brings(fetch.content, r)
                 /\ \A i \in Debt(r) : i.change <= fetch.content \/ i.object = r.object
<1>1. /\ InvalidatorInv(inv) /\ inv \in InvalidatorType /\ serviceUp \in BOOLEAN
      /\ DebtInv(inv) /\ SentInv /\ sent \subseteq Invalidations
      /\ fetch.content \in Contents /\ fetch.content \in Nat /\ fetch.version \in Int
      /\ fetch.version <= fetch.content /\ inv.highest \in Nat
      /\ fetch.content # NoPolicy
  BY PolicyAssumption
  DEF PolicyInv, CoreInv, TypeOK, CoreTypeOK, InvalidatorInv, InvalidatorType, Contents
<1>2. /\ InvalidatorInv(r) /\ r.object = ObjectOf(fetch.content) /\ Settles(inv, new, r)
  BY <1>1, StoreLoadedFacts
<1>3. \A i \in sent : i.change \in Nat /\ 0 < i.change /\ i \in Invalidations
  BY <1>1, PolicyAssumption DEF SentInv, Invalidations, Contents
<1>4. /\ Registered(inv) =>
            /\ store.policy # NoPolicy /\ store.policy \in Contents /\ store.policy \in Nat
            /\ store.policy <= fetch.content /\ inv.object = Named(store.policy)
            /\ Named(store.policy) # NoObject
  BY DEF PolicyInv, CoreInv, TypeOK, CoreTypeOK, FollowsCore, Registered, ObjectOf, Contents
<1>5. inv.highest <= fetch.content
  BY <1>1, <1>4 DEF DebtInv
<1>6. r.highest <= fetch.content
  BY <1>1, <1>2, <1>5 DEF Settles
<1>7. \A i \in Debt(r) : i \in sent /\ (i \in Debt(inv) \/ (Invalid(inv) /\ i = inv.pending))
  <2>1. Heard(r) = Heard(inv) /\ r.excused = inv.excused /\ Heard(inv) \subseteq sent
    BY <1>1, <1>2 DEF Settles, InvalidatorInv
  <2>. QED
    BY <2>1 DEF Debt, Heard
<1>8. ASSUME Registered(r)
      PROVE  /\ ~Invalid(r) => Brings(fetch.content, r)
             /\ \A i \in Debt(r) : i.change <= fetch.content \/ i.object = r.object
  <2>1. CASE ~Invalid(inv)
    <3>1. Brings(fetch.content, inv)
      <4>1. CASE Registered(inv)
        <5>1. Brings(store.policy, inv)
          BY <1>1, <2>1, <4>1 DEF DebtInv
        <5>2. \A i \in Debt(inv) : i.change \in Nat
          BY <1>1, <1>3 DEF InvalidatorInv, Debt, Heard
        <5>. QED
          BY <1>1, <1>4, <4>1, <5>1, <5>2 DEF Brings
      <4>2. CASE ~Registered(inv)
        BY <1>1, <4>2 DEF DebtInv
      <4>. QED
        BY <4>1, <4>2
    <3>2. Brings(fetch.content, r)
      BY <1>7, <2>1, <3>1 DEF Brings
    <3>. QED
      BY <3>2 DEF Brings
  <2>2. CASE Invalid(inv) /\ r.object = inv.object
    <3>1. Registered(inv) /\ inv.pending.object = inv.object
      BY <1>1, <2>2 DEF InvalidatorInv
    <3>2. \A i \in Debt(r) : i.change <= fetch.content \/ i.object = r.object
      <4>. SUFFICES ASSUME NEW i \in Debt(r)
                    PROVE  i.change <= fetch.content \/ i.object = r.object
        OBVIOUS
      <4>1. i.change <= store.policy \/ i.object = inv.object
        BY <1>1, <1>7, <3>1 DEF DebtInv
      <4>. QED
        BY <1>1, <1>3, <1>4, <1>7, <2>2, <3>1, <4>1
    <3>3. ASSUME ~Invalid(r) PROVE Brings(fetch.content, r)
      <4>1. fetch.version = inv.version
        BY <1>2, <2>2, <3>3 DEF Settles
      <4>2. Brings(fetch.content, inv) /\ inv.pending.change <= fetch.content
        BY <1>1, <2>2, <4>1 DEF DebtInv
      <4>. QED
        BY <1>7, <4>2 DEF Brings
    <3>. QED
      BY <3>2, <3>3
  <2>3. CASE Invalid(inv) /\ r.object # inv.object
    <3>1. Registered(inv) /\ inv.pending.object = inv.object
      BY <1>1, <2>3 DEF InvalidatorInv
    <3>2. Named(fetch.content) # NoObject /\ Named(fetch.content) # Named(store.policy)
      BY <1>1, <1>2, <1>4, <1>8, <2>3, <3>1 DEF Registered, ObjectOf
    <3>3. ASSUME NEW i \in Debt(r) PROVE i.change <= fetch.content
      <4>1. CASE i.object = inv.object
        <5>1. i.object = Named(i.change - 1) /\ 0 < i.change /\ i \in Invalidations
          BY <1>1, <1>3, <1>7, <3>3 DEF SentInv
        <5>. QED
          BY <1>1, <1>4, <3>1, <3>2, <4>1, <5>1, ChangeOfObject
      <4>2. CASE i.object # inv.object
        <5>1. i.change <= store.policy
          BY <1>1, <1>7, <3>1, <3>3, <4>2 DEF DebtInv
        <5>. QED
          BY <1>1, <1>3, <1>4, <1>7, <3>1, <3>3, <5>1
      <4>. QED
        BY <4>1, <4>2
    <3>. QED
      BY <3>3 DEF Brings
  <2>. QED
    BY <2>1, <2>2, <2>3
<1>. QED
  BY <1>2, <1>6, <1>8 DEF Settles

\* The flags follow the invalidation service while the invalidator is registered.
LEMMA ServiceFacts ==
    ASSUME NEW s, InvalidatorInv(s), NEW up \in BOOLEAN,
           NEW r, r = OnInvalidatorStateChange(s, up)
    PROVE  /\ r \in InvalidatorType /\ Keeps(s, r)
           /\ r.enabled = (up /\ Registered(r)) /\ r.available = r.enabled
           /\ r.serviceEnabled = up /\ r.object = s.object /\ r.pending = s.pending
           /\ r.refresh = s.refresh /\ r.clientVersion = s.clientVersion
           /\ r.acked = s.acked
<1> DEFINE v == [s EXCEPT !.serviceEnabled = up]
<1>1. s \in InvalidatorType /\ s.available = s.enabled
  BY DEF InvalidatorInv
<1>2. v \in InvalidatorType
  BY <1>1, FieldTypes
<1>3. /\ Keeps(s, v) /\ v.available = v.enabled /\ v.serviceEnabled = up
      /\ v.object = s.object /\ v.pending = s.pending /\ v.refresh = s.refresh
      /\ v.clientVersion = s.clientVersion /\ v.acked = s.acked
  BY <1>1 DEF Keeps, Heard, Invalid, InvalidatorType
<1>4. r = UpdateInvalidationsEnabled(v)
  BY DEF OnInvalidatorStateChange
<1> HIDE DEF v
<1>5. /\ r \in InvalidatorType /\ Keeps(v, r)
      /\ r.enabled = (r.serviceEnabled /\ Registered(r)) /\ r.available = r.enabled
      /\ r.object = v.object /\ r.pending = v.pending /\ r.refresh = v.refresh
      /\ r.serviceEnabled = v.serviceEnabled /\ r.acked = v.acked
      /\ r.clientVersion = v.clientVersion
  BY <1>2, <1>3, <1>4, UpdateFacts
<1>6. Keeps(s, r)
  BY <1>3, <1>5 DEF Keeps
<1>. QED
  BY <1>3, <1>5, <1>6

-----------------------------------------------------------------------------
(* The handlers of the remote commands invalidator *)

LEMMA ReloadFacts ==
    ASSUME NEW s, RemoteFlags(s), serviceUp \in BOOLEAN,
           NEW policy \in Contents \cup {NoPolicy}, NEW r, r = ReloadPolicyData(s, policy)
    PROVE  /\ RemoteFlags(r) /\ r.state = s.state
           /\ s.state = "STARTED" => r.object = ObjectOf(policy)
           /\ s.state # "STARTED" => r = s
<1>1. s \in RemoteType /\ ObjectOf(policy) \in Objects \cup {NoObject}
  BY ObjectType DEF RemoteFlags
<1>2. CASE s.state # "STARTED" \/ (s.object = ObjectOf(policy) /\ s.object # NoObject)
  BY <1>1, <1>2 DEF ReloadPolicyData
<1>3. CASE s.state = "STARTED" /\ ~(s.object = ObjectOf(policy) /\ s.object # NoObject)
  BY <1>1, <1>3
  DEF ReloadPolicyData, RcUnregister, RcRegister, RcOnInvalidatorStateChange,
      RcUpdateInvalidationsEnabled, RemoteType, RemoteFlags
<1>. QED
  BY <1>2, <1>3

LEMMA StartFacts ==
    ASSUME NEW s, RemoteFlags(s), serviceUp \in BOOLEAN,
           store.policy \in Contents \cup {NoPolicy}, NEW r, r = Start(s)
    PROVE  RemoteFlags(r) /\ r.state = "STARTED" /\ r.object = ObjectOf(store.policy)
<1> DEFINE t == [s EXCEPT !.state = "STARTED"]
<1>1. RemoteFlags(t) /\ t.state = "STARTED"
  BY DEF RemoteFlags, RemoteType
<1>2. r = ReloadPolicyData(t, store.policy)
  BY DEF Start
<1> HIDE DEF t
<1>. QED
  BY <1>1, <1>2, ReloadFacts

LEMMA StopFacts ==
    ASSUME NEW s, RemoteFlags(s), NEW r, r = Stop(s)
    PROVE  /\ RemoteFlags(r) /\ r.object = NoObject
           /\ r.state = IF s.state = "STARTED" THEN "STOPPED" ELSE s.state
BY DEF Stop, RcUnregister, RcUpdateInvalidationsEnabled, RemoteFlags, RemoteType

-----------------------------------------------------------------------------
(* Steps *)

\* What a step that concerns neither invalidator nor store leaves as it was.
LEMMA InvalidatorKept ==
    ASSUME NEW r, InvalidatorInv(r), inv' = r, UNCHANGED <<sent, serviceUp>>
    PROVE  InvalidatorInv(inv)'
BY DEF InvalidatorInv, VersionOf, Heard, Invalid, Registered

LEMMA RemoteKept ==
    ASSUME NEW r, RemoteFlags(r), rc' = r, UNCHANGED serviceUp
    PROVE  RemoteFlags(rc)'
BY DEF RemoteFlags

LEMMA SentKept ==
    ASSUME SentInv, UNCHANGED <<sent, published>>
    PROVE  SentInv'
BY DEF SentInv

LEMMA DebtKept ==
    ASSUME NEW r, DebtInv(r), inv' = r, UNCHANGED <<store, fetch, published>>
    PROVE  DebtInv(inv)'
BY DEF DebtInv, Brings, Debt, VersionOf, Heard, Invalid, Registered

LEMMA SigninOnly ==
    ASSUME PolicyInv, signin' \in SigninType, SigninInv',
           UNCHANGED <<core, store, fetch, wanted, published, sent, serviceUp, inv, rc>>
    PROVE  PolicyInv'
<1>1. InvalidatorInv(inv)'
  BY InvalidatorKept DEF PolicyInv
<1>2. DebtInv(inv)'
  BY DebtKept DEF PolicyInv
<1>3. SentInv'
  BY SentKept DEF PolicyInv
<1>4. RemoteFlags(rc)'
  BY RemoteKept DEF PolicyInv, RemoteInv
<1>5. TypeOK' /\ CoreInv'
  BY DEF PolicyInv, TypeOK, CoreTypeOK, CoreInv
<1>6. FollowsCore(inv)' /\ RemoteInv'
  BY <1>4 DEF PolicyInv, FollowsCore, RemoteInv, Registered, NothingHeard
<1>. QED
  BY <1>1, <1>2, <1>3, <1>5, <1>6 DEF PolicyInv

LEMMA SignInSteps ==
    ASSUME PolicyInv, ~signin.down,
           RegisterForPolicy \/ CallPolicyRegistrationCallback \/ SignInConsumer
    PROVE  PolicyInv'
<1>1. signin \in SigninType /\ SigninInv
  BY DEF PolicyInv, TypeOK
<1>2. UNCHANGED <<core, store, fetch, wanted, published, sent, serviceUp, inv, rc>>
  BY DEF RegisterForPolicy, CallPolicyRegistrationCallback, SignInConsumer, coreVars
<1>3. CASE RegisterForPolicy
  <2>1. signin' \in SigninType /\ SigninInv'
    BY <1>1, <1>2, <1>3 DEF RegisterForPolicy, SigninType, SigninInv
  <2>. QED
    BY <1>2, <2>1, SigninOnly
<1>4. CASE CallPolicyRegistrationCallback
  <2>1. signin' \in SigninType /\ SigninInv'
    BY <1>1, <1>2, <1>4 DEF CallPolicyRegistrationCallback, SigninType, SigninInv, Accounts
  <2>. QED
    BY <1>2, <2>1, SigninOnly
<1>5. CASE SignInConsumer
  <2>1. signin' \in SigninType /\ SigninInv'
    BY <1>1, <1>2, <1>5 DEF SignInConsumer, SigninType, SigninInv, Accounts
  <2>. QED
    BY <1>2, <2>1, SigninOnly
<1>. QED
  BY <1>3, <1>4, <1>5

LEMMA ShutdownStep ==
    ASSUME PolicyInv, NEW s \in SigninType, ~s.posted, ~s.dmToken,
           ShutdownUserCloudPolicyManager(s)
    PROVE  PolicyInv'
<1> DEFINE r == OnCoreDisconnecting(inv)
           q == Stop(rc)
<1>1. /\ signin' = [s EXCEPT !.helper = "none", !.prohibited = FALSE]
      /\ core' = Disconnected /\ inv' = r /\ rc' = q
      /\ store' = [loaded |-> TRUE, policy |-> NoPolicy, version |-> 0, recent |-> FALSE]
      /\ fetch' = NoFetch /\ wanted' = FALSE
      /\ UNCHANGED <<published, sent, serviceUp>>
  BY DEF ShutdownUserCloudPolicyManager, PrepareForShutdown, SigninType
<1>2. TypeOK /\ DebtInv(inv) /\ RemoteFlags(rc) /\ FollowsCore(inv)
  BY DEF PolicyInv, RemoteInv
<1>3. /\ InvalidatorInv(r) /\ ~Registered(r) /\ r.highest = inv.highest
      /\ inv.state = "STARTED" => r.state = "STOPPED"
      /\ inv.state # "STARTED" => r = inv
  BY StoppedFacts
<1>4. /\ RemoteFlags(q) /\ q.object = NoObject
      /\ q.state = IF rc.state = "STARTED" THEN "STOPPED" ELSE rc.state
  BY <1>2, StopFacts
<1> HIDE DEF r, q
<1>5. ~Invalid(r)
  BY <1>3, Unregistered
<1>6. InvalidatorInv(inv)'
  BY <1>1, <1>3, InvalidatorKept
<1>7. RemoteFlags(rc)'
  BY <1>1, <1>4, RemoteKept
<1>8. SentInv'
  BY <1>1, SentKept DEF PolicyInv
<1>9. signin' \in SigninType /\ SigninInv'
  BY <1>1 DEF SigninType, SigninInv, Disconnected
<1>10. 0 \in Contents
  BY PolicyAssumption DEF Contents
<1>11. TypeOK'
  <2>1. core' \in [connected : BOOLEAN, registered : BOOLEAN, remote : BOOLEAN]
    BY <1>1 DEF Disconnected
  <2>2. store' \in [loaded : BOOLEAN, policy : Contents \cup {NoPolicy},
                    version : Int, recent : BOOLEAN]
    BY <1>1
  <2>3. fetch' \in [running : BOOLEAN, version : Int, content : Contents]
    BY <1>1, <1>10 DEF NoFetch
  <2>4. wanted' \in BOOLEAN /\ serviceUp' \in BOOLEAN
    BY <1>1, <1>2 DEF TypeOK, CoreTypeOK
  <2>5. published' \in Contents /\ sent' \subseteq Invalidations
    BY <1>1, <1>2 DEF TypeOK, CoreTypeOK
  <2>6. inv' \in InvalidatorType /\ rc' \in RemoteType
    BY <1>6, <1>7 DEF InvalidatorInv, RemoteFlags
  <2>. QED
    BY <1>9, <2>1, <2>2, <2>3, <2>4, <2>5, <2>6 DEF TypeOK, CoreTypeOK
<1>12. CoreInv'
  BY <1>1 DEF CoreInv, Disconnected, NoFetch
<1>13. FollowsCore(inv)'
  <2>1. core'.connected = FALSE /\ store'.policy = NoPolicy /\ store'.loaded
    BY <1>1 DEF Disconnected
  <2>. QED
    BY <1>1, <1>2, <1>3, <2>1 DEF FollowsCore, Registered, NothingHeard
<1>14. DebtInv(inv)'
  BY <1>1, <1>2, <1>3, <1>5 DEF DebtInv, NoFetch, Registered, Invalid
<1>15. RemoteInv'
  BY <1>1, <1>4, <1>7 DEF RemoteInv, Disconnected
<1>. QED
  BY <1>6, <1>8, <1>9, <1>11, <1>12, <1>13, <1>14, <1>15 DEF PolicyInv

LEMMA ConnectStep ==
    ASSUME PolicyInv, ~core.connected, NEW registered \in BOOLEAN, Connect(registered),
           registered => store.loaded, wanted' \in BOOLEAN,
           UNCHANGED <<store, fetch, published, sent, serviceUp, rc>>,
           signin' \in SigninType, SigninInv'
    PROVE  PolicyInv'
<1>1. /\ core' = [connected |-> TRUE, registered |-> registered, remote |-> FALSE]
      /\ inv' = IF inv.state = "STOPPED" THEN OnRefreshSchedulerStarted(inv) ELSE inv
  BY DEF Connect
<1>2. /\ TypeOK /\ DebtInv(inv) /\ InvalidatorInv(inv) /\ RemoteFlags(rc)
      /\ FollowsCore(inv) /\ RemoteInv /\ CoreInv
      /\ inv.state \in InvalidatorStates /\ inv.state # "STARTED" /\ rc.state # "STARTED"
      /\ ~fetch.running
  BY DEF PolicyInv, RemoteInv, TypeOK, InvalidatorType, FollowsCore, CoreInv
<1>3. PICK r : /\ inv' = r /\ InvalidatorInv(r) /\ DebtInv(r)
               /\ r.state = IF inv.state = "STOPPED" THEN "STARTED" ELSE inv.state
               /\ r.state = "STARTED" => r.object = ObjectOf(store.policy)
               /\ r.state # "STARTED" => ~Registered(r)
               /\ NothingHeard(inv) => NothingHeard(r)
  <2>1. CASE inv.state = "STOPPED"
    <3> DEFINE s == [inv EXCEPT !.state = "STARTED"]
               r == OnStoreLoaded(s, store)
    <3>1. inv' = r
      BY <1>1, <2>1 DEF OnRefreshSchedulerStarted
    <3>2. /\ InvalidatorInv(r) /\ DebtInv(r)
          /\ r.state = "STARTED" /\ r.object = ObjectOf(store.policy)
          /\ NothingHeard(inv) => NothingHeard(r)
      BY <2>1, StartedFacts
    <3> HIDE DEF r
    <3>. QED
      BY <2>1, <3>1, <3>2
  <2>2. CASE inv.state # "STOPPED"
    <3>1. ~Registered(inv)
      BY <1>2 DEF FollowsCore
    <3>. QED
      BY <1>1, <1>2, <2>2, <3>1
  <2>. QED
    BY <2>1, <2>2
<1>4. InvalidatorInv(inv)'
  BY <1>3, InvalidatorKept
<1>5. DebtInv(inv)'
  BY <1>3, DebtKept
<1>6. SentInv'
  BY SentKept DEF PolicyInv
<1>7. RemoteFlags(rc)'
  BY <1>2, RemoteKept
<1>8. TypeOK'
  BY <1>1, <1>2, <1>4, <1>7 DEF TypeOK, CoreTypeOK, InvalidatorInv, RemoteFlags
<1>9. CoreInv'
  BY <1>1, <1>2 DEF CoreInv
<1>10. FollowsCore(inv)'
  <2>1. core'.connected = TRUE
    BY <1>1
  <2>. QED
    BY <1>2, <1>3, <2>1 DEF FollowsCore, Registered, NothingHeard, InvalidatorStates
<1>11. RemoteInv'
  BY <1>1, <1>2, <1>7 DEF RemoteInv
<1>. QED
  BY <1>4, <1>5, <1>6, <1>8, <1>9, <1>10, <1>11 DEF PolicyInv

LEMMA SignedInStep ==
    ASSUME PolicyInv, ~signin.down, signin.account # "none",
           NEW s \in {[signin EXCEPT !.ready = TRUE], [signin EXCEPT !.token = TRUE]},
           InitializeForSignedInUser(s)
    PROVE  PolicyInv'
<1>1. /\ signin \in SigninType /\ SigninInv /\ CoreInv /\ core.registered \in BOOLEAN
      /\ store.loaded \in BOOLEAN
  BY DEF PolicyInv, TypeOK, CoreTypeOK
<1>2. /\ s \in SigninType /\ s.account = signin.account /\ s.helper = signin.helper
      /\ s.prohibited = signin.prohibited /\ s.posted = signin.posted
      /\ s.dmToken = signin.dmToken /\ s.down = signin.down
  BY <1>1 DEF SigninType
<1> DEFINE registered == IF core.connected THEN core.registered ELSE store.policy # NoPolicy
           completed == IF store.loaded THEN OnInitializationCompleted(s, registered)
                        ELSE ProhibitSignoutIfNeeded(s, registered)
<1>3. UNCHANGED <<store, fetch, wanted, published, sent, serviceUp, rc>>
  BY DEF InitializeForSignedInUser
<1>4. registered \in BOOLEAN /\ (registered => store.loaded)
  BY <1>1 DEF CoreInv
<1>5. /\ completed \in SigninType /\ completed.account = signin.account
      /\ completed.posted = signin.posted /\ completed.dmToken = signin.dmToken
      /\ completed.down = signin.down
      /\ completed.prohibited = (signin.prohibited \/ registered)
      /\ completed.helper = signin.helper \/
            (completed.helper = "core" /\ ~registered /\ store.loaded)
  <2> DEFINE prohibits == [s EXCEPT !.prohibited = TRUE]
             registers == [s EXCEPT !.helper = "core"]
  <2>1. prohibits \in SigninType /\ registers \in SigninType
    BY <1>2 DEF SigninType
  <2>2. CASE registered
    <3>1. completed = prohibits
      BY <1>2, <2>2
      DEF OnInitializationCompleted, ProhibitSignoutIfNeeded, SigninType
    <3>. QED
      BY <1>2, <2>1, <2>2, <3>1 DEF SigninType
  <2>3. CASE ~registered
    <3>1. completed = s \/ (store.loaded /\ completed = registers)
      BY <1>2, <2>3
      DEF OnInitializationCompleted, ProhibitSignoutIfNeeded, RegisterCloudPolicyService,
          SigninType
    <3>. QED
      BY <1>2, <2>1, <2>3, <3>1 DEF SigninType
  <2>. QED
    BY <1>4, <2>2, <2>3
<1>6. CASE s.account = "consumer"
  <2>1. signin' = s /\ UNCHANGED <<core, inv>>
    BY <1>6 DEF InitializeForSignedInUser
  <2>2. SigninInv'
    BY <1>1, <1>2, <1>3, <1>6, <2>1 DEF SigninInv
  <2>. QED
    BY <1>2, <1>3, <2>1, <2>2, SigninOnly
<1>7. CASE s.account # "consumer"
  <2>1. /\ signin' = completed
        /\ IF core.connected THEN UNCHANGED <<core, inv>> ELSE Connect(registered)
    BY <1>7 DEF InitializeForSignedInUser
  <2>2. core'.connected /\ core'.registered = registered
    <3>1. Connect(registered) => core'.connected /\ core'.registered = registered
      BY DEF Connect
    <3>. QED
      BY <1>1, <2>1, <3>1 DEF CoreInv
  <2>3. core.connected \/ (~core.registered /\ signin.helper # "core")
    BY <1>1 DEF CoreInv, SigninInv
  <2>4. signin.helper # "trial" /\ ~signin.dmToken
    BY <1>1 DEF SigninInv
  <2> HIDE DEF completed
  <2>5. SigninInv'
    <3>1. ~signin.down => /\ signin.prohibited = core.registered
                          /\ signin.posted => core.registered
                          /\ signin.helper = "core" => ~core.registered /\ store.loaded
      BY <1>1 DEF SigninInv
    <3>2. core.connected => registered = core.registered
      OBVIOUS
    <3> HIDE DEF registered
    <3>3. signin'.prohibited = registered
      BY <1>1, <1>4, <1>5, <2>1, <2>3, <3>1, <3>2
    <3>4. signin'.posted => registered
      BY <1>1, <1>4, <1>5, <2>1, <2>3, <3>1, <3>2
    <3>5. signin'.helper = "core" => ~registered /\ store.loaded
      BY <1>1, <1>4, <1>5, <2>1, <2>3, <3>1, <3>2
    <3>6. signin'.account # "none" /\ ~signin'.dmToken /\ signin'.helper # "trial"
      BY <1>5, <2>1, <2>4
    <3>. QED
      BY <1>3, <2>2, <3>3, <3>4, <3>5, <3>6 DEF SigninInv
  <2>6. CASE core.connected
    BY <1>3, <1>5, <2>1, <2>5, <2>6, SigninOnly
  <2>7. CASE ~core.connected
    <3> HIDE DEF registered
    <3>1. Connect(registered) /\ signin' \in SigninType
      BY <1>5, <2>1, <2>7
    <3>2. wanted' \in BOOLEAN
      BY <1>3 DEF PolicyInv, TypeOK, CoreTypeOK
    <3>. QED
      BY <1>3, <1>4, <2>5, <2>7, <3>1, <3>2, ConnectStep
  <2>. QED
    BY <2>6, <2>7
<1>. QED
  BY <1>6, <1>7

\* The cache of a profile that starts: nothing has been heard of yet.
LEMMA StoreLoadsStep ==
    ASSUME PolicyInv, ~signin.down, StoreLoads
    PROVE  PolicyInv'
<1>1. /\ TypeOK /\ DebtInv(inv) /\ InvalidatorInv(inv) /\ RemoteFlags(rc)
      /\ FollowsCore(inv) /\ RemoteInv /\ CoreInv /\ SigninInv
      /\ ~store.loaded /\ store.policy = NoPolicy /\ ~core.registered /\ ~fetch.running
      /\ inv.acked = {} /\ inv.highest = 0 /\ ~Registered(inv)
      /\ 0 \in Contents /\ NoPolicy # 0 /\ serviceUp \in BOOLEAN
  BY PolicyAssumption
  DEF StoreLoads, PolicyInv, RemoteInv, TypeOK, CoreTypeOK, FollowsCore, CoreInv,
      NothingHeard, Registered, ObjectOf, Contents
<1> DEFINE New(p) == [store EXCEPT !.loaded = TRUE, !.policy = p]
           Client(p) == core.connected /\ (core.registered \/ p # NoPolicy)
<1>2. PICK policy \in {NoPolicy, 0} :
         /\ StoreBecomes(New(policy))
         /\ core' = [core EXCEPT !.registered = Client(policy)]
         /\ signin' = IF core.connected
                      THEN OnInitializationCompleted(signin, Client(policy)) ELSE signin
         /\ UNCHANGED <<fetch, wanted, published, sent, serviceUp>>
  BY DEF StoreLoads
<1> DEFINE new == New(policy)
           registered == core.connected /\ policy # NoPolicy
<1>3. /\ new.loaded /\ new.policy = policy /\ new.version \in Int
      /\ new \in [loaded : BOOLEAN, policy : Contents \cup {NoPolicy},
                  version : Int, recent : BOOLEAN]
  BY <1>1 DEF TypeOK, CoreTypeOK
<1>4. /\ store' = new
      /\ inv' = IF inv.state = "STARTED" THEN OnStoreLoaded(inv, new) ELSE inv
      /\ rc' = ReloadPolicyData(rc, policy)
  BY <1>2, <1>3 DEF StoreBecomes
<1>5. /\ core'.registered = registered /\ core'.connected = core.connected
      /\ core'.remote = core.remote
      /\ core' \in [connected : BOOLEAN, registered : BOOLEAN, remote : BOOLEAN]
      /\ Client(policy) = registered
  BY <1>1, <1>2 DEF TypeOK, CoreTypeOK
<1> HIDE DEF new
<1>6. PICK r : /\ inv' = r /\ InvalidatorInv(r) /\ r.state = inv.state
               /\ r.state = "STARTED" => r.object = ObjectOf(policy)
               /\ r.state # "STARTED" => ~Registered(r)
               /\ r.acked = {} /\ r.highest = 0 /\ ~Invalid(r)
  <2>1. CASE inv.state = "STARTED"
    <3> DEFINE r == OnStoreLoaded(inv, new)
    <3>1. InvalidatorInv(r) /\ r.object = ObjectOf(policy) /\ Settles(inv, new, r)
      BY <1>1, <1>3, StoreLoadedFacts
    <3> HIDE DEF r
    <3>2. ~Invalid(inv)
      BY <1>1, Unregistered
    <3>. QED
      BY <1>1, <1>4, <2>1, <3>1, <3>2 DEF Settles, Heard, r
  <2>2. CASE inv.state # "STARTED"
    BY <1>1, <1>4, <2>2, Unregistered
  <2>. QED
    BY <2>1, <2>2
<1>7. InvalidatorInv(inv)'
  BY <1>2, <1>6, InvalidatorKept
<1>8. RemoteFlags(rc)' /\ RemoteInv'
  <2> DEFINE q == ReloadPolicyData(rc, policy)
  <2>1. /\ RemoteFlags(q) /\ q.state = rc.state
        /\ rc.state = "STARTED" => q.object = ObjectOf(policy)
    BY <1>1, ReloadFacts
  <2> HIDE DEF q
  <2>2. RemoteFlags(rc)'
    BY <1>2, <1>4, <2>1, RemoteKept DEF q
  <2>. QED
    BY <1>1, <1>3, <1>4, <1>5, <2>1, <2>2 DEF RemoteInv, q
<1>9. SentInv'
  BY <1>2, SentKept DEF PolicyInv
<1>10. /\ signin' \in SigninType /\ SigninInv'
  <2>1. signin \in SigninType /\ signin.helper = "none" /\ ~signin.dmToken
        /\ ~signin.prohibited /\ ~signin.posted
        /\ (signin.account = "none" => ~signin.ready /\ ~core.connected)
    BY <1>1 DEF SigninInv, TypeOK, SigninType
  <2>2. CASE ~core.connected
    <3>1. signin' = signin /\ core'.registered = FALSE /\ core'.connected = FALSE
      BY <1>1, <1>2, <1>5, <2>2 DEF TypeOK, CoreTypeOK
    <3>2. signin.prohibited = FALSE
      BY <2>1 DEF SigninType
    <3> HIDE DEF registered
    <3>. QED
      BY <2>1, <3>1, <3>2 DEF SigninInv
  <2>3. CASE core.connected
    <3>1. signin' = OnInitializationCompleted(signin, registered)
      BY <1>2, <1>5, <2>3
    <3>2. CASE registered
      <4>1. signin' = [signin EXCEPT !.prohibited = TRUE]
        BY <2>1, <3>1, <3>2 DEF OnInitializationCompleted, ProhibitSignoutIfNeeded, SigninType
      <4>. QED
        BY <1>5, <2>1, <2>3, <3>2, <4>1 DEF SigninInv, SigninType
    <3>3. CASE ~registered
      <4>1. signin' = signin \/ signin' = [signin EXCEPT !.helper = "core"]
        BY <2>1, <3>1, <3>3
        DEF OnInitializationCompleted, RegisterCloudPolicyService, SigninType
      <4>. QED
        BY <1>3, <1>4, <1>5, <2>1, <2>3, <3>3, <4>1 DEF SigninInv, SigninType
    <3>. QED
      BY <3>2, <3>3
  <2>. QED
    BY <2>2, <2>3
<1>11. TypeOK'
  BY <1>1, <1>2, <1>3, <1>4, <1>5, <1>7, <1>8, <1>10
  DEF TypeOK, CoreTypeOK, InvalidatorInv, RemoteFlags
<1>12. CoreInv'
  <2>1. published' \in Nat /\ fetch' = fetch
    BY <1>1, <1>2, PolicyAssumption DEF TypeOK, CoreTypeOK, Contents
  <2>. QED
    BY <1>1, <1>2, <1>3, <1>4, <1>5, <2>1 DEF CoreInv
<1>13. FollowsCore(inv)'
  BY <1>1, <1>3, <1>4, <1>5, <1>6 DEF FollowsCore, NothingHeard, Registered
<1>14. DebtInv(inv)'
  <2>1. published' \in Nat /\ fetch' = fetch /\ store'.policy = policy
    BY <1>1, <1>2, <1>3, <1>4, PolicyAssumption DEF TypeOK, CoreTypeOK, Contents
  <2>2. Debt(r) = {} /\ (Registered(r) => policy = 0)
    BY <1>6 DEF Debt, Registered, ObjectOf
  <2>. QED
    BY <1>1, <1>6, <2>1, <2>2 DEF DebtInv, Brings, Debt, Registered, Invalid
<1>. QED
  BY <1>7, <1>8, <1>9, <1>10, <1>11, <1>12, <1>13, <1>14 DEF PolicyInv

LEMMA FetchedStep ==
    ASSUME PolicyInv, ~signin.down, OnPolicyFetched
    PROVE  PolicyInv'
<1>1. /\ TypeOK /\ DebtInv(inv) /\ InvalidatorInv(inv) /\ RemoteFlags(rc)
      /\ FollowsCore(inv) /\ RemoteInv /\ CoreInv /\ SigninInv
      /\ fetch.running /\ core.registered /\ core.connected
      /\ fetch.content \in Contents /\ fetch.content \in Nat /\ fetch.version \in Int
      /\ published \in Nat /\ fetch.content <= published /\ store.loaded
      /\ 0 \in Contents /\ NoPolicy # fetch.content /\ serviceUp \in BOOLEAN
  BY PolicyAssumption
  DEF OnPolicyFetched, PolicyInv, RemoteInv, TypeOK, CoreTypeOK, CoreInv, Contents
<1> DEFINE new == [loaded |-> TRUE, policy |-> fetch.content,
                   version |-> fetch.version, recent |-> TRUE]
<1>2. /\ store' = new
      /\ inv' = IF inv.state = "STARTED" THEN OnStoreLoaded(inv, new) ELSE inv
      /\ rc' = ReloadPolicyData(rc, fetch.content)
      /\ fetch' = NoFetch
      /\ UNCHANGED <<core, wanted, published, sent, serviceUp, signin>>
  BY DEF OnPolicyFetched, StoreBecomes
<1>3. /\ new.policy = fetch.content /\ new.version = fetch.version /\ new.loaded
      /\ new \in [loaded : BOOLEAN, policy : Contents \cup {NoPolicy},
                  version : Int, recent : BOOLEAN]
  BY <1>1
<1> HIDE DEF new
<1>4. PICK r : /\ inv' = r /\ InvalidatorInv(r) /\ r.state = inv.state
               /\ r.state = "STARTED" => r.object = ObjectOf(fetch.content)
               /\ r.state # "STARTED" => ~Registered(r) /\ r = inv
               /\ r.highest <= published
               /\ Registered(r) =>
                    /\ r.highest <= fetch.content
                    /\ ~Invalid(r) => Brings(fetch.content, r)
                    /\ \A i \in Debt(r) : i.change <= fetch.content \/ i.object = r.object
  <2>1. CASE inv.state = "STARTED"
    <3> DEFINE r == OnStoreLoaded(inv, new)
    <3>1. /\ InvalidatorInv(r) /\ r.state = "STARTED" /\ r.object = ObjectOf(fetch.content)
          /\ r.highest <= fetch.content
          /\ Registered(r) =>
                /\ ~Invalid(r) => Brings(fetch.content, r)
                /\ \A i \in Debt(r) : i.change <= fetch.content \/ i.object = r.object
      BY <1>1, <1>3, <2>1, FetchedFacts
    <3>2. inv' = r
      BY <1>2, <2>1
    <3> HIDE DEF r
    <3>3. r.highest \in Nat
      BY <3>1 DEF InvalidatorInv, InvalidatorType
    <3>. QED
      BY <1>1, <2>1, <3>1, <3>2, <3>3
  <2>2. CASE inv.state # "STARTED"
    <3>1. inv.highest <= published /\ ~Registered(inv)
      BY <1>1, <2>2 DEF DebtInv, FollowsCore
    <3>. QED
      BY <1>1, <1>2, <2>2, <3>1
  <2>. QED
    BY <2>1, <2>2
<1>5. InvalidatorInv(inv)'
  BY <1>2, <1>4, InvalidatorKept
<1>6. RemoteFlags(rc)' /\ RemoteInv'
  <2> DEFINE q == ReloadPolicyData(rc, fetch.content)
  <2>1. /\ RemoteFlags(q) /\ q.state = rc.state
        /\ rc.state = "STARTED" => q.object = ObjectOf(fetch.content)
    BY <1>1, ReloadFacts
  <2>2. rc' = q /\ store'.policy = fetch.content
    BY <1>2, <1>3
  <2> HIDE DEF q
  <2>3. RemoteFlags(rc)'
    BY <1>2, <2>1, <2>2, RemoteKept
  <2>. QED
    BY <1>1, <1>2, <2>1, <2>2, <2>3 DEF RemoteInv
<1>7. SentInv'
  BY <1>2, SentKept DEF PolicyInv
<1>8. SigninInv'
  <2>1. signin.account # "none"
    BY <1>1 DEF SigninInv
  <2>. QED
    BY <1>1, <1>2, <1>3, <2>1 DEF SigninInv
<1>9. TypeOK'
  BY <1>1, <1>2, <1>3, <1>5, <1>6 DEF TypeOK, CoreTypeOK, NoFetch, InvalidatorInv, RemoteFlags
<1>10. CoreInv'
  BY <1>1, <1>2, <1>3 DEF CoreInv, NoFetch
<1>11. FollowsCore(inv)'
  BY <1>1, <1>2, <1>3, <1>4 DEF FollowsCore, NothingHeard, Registered
<1>12. DebtInv(inv)'
  <2>1. store'.policy = fetch.content /\ fetch'.running = FALSE /\ published' = published
    BY <1>2, <1>3 DEF NoFetch
  <2>2. Invalid(r) => Registered(r)
    BY <1>4 DEF InvalidatorInv
  <2>. QED
    BY <1>4, <2>1, <2>2 DEF DebtInv, Brings, Debt, Registered, Invalid
<1>. QED
  BY <1>2, <1>5, <1>6, <1>7, <1>8, <1>9, <1>10, <1>11, <1>12 DEF PolicyInv

LEMMA AccountSteps ==
    ASSUME PolicyInv, ~signin.down,
           \/ InitializeOnProfileReady \/ OnRefreshTokenAvailable
           \/ GoogleSignedOut \/ RunPostedShutdown
    PROVE  PolicyInv'
<1>1. signin \in SigninType /\ SigninInv /\ CoreInv /\ core.registered \in BOOLEAN
  BY DEF PolicyInv, TypeOK, CoreTypeOK
<1>2. /\ signin.prohibited = core.registered
      /\ signin.posted => core.registered
      /\ signin.account = "none" => ~core.registered
      /\ signin.dmToken => signin.ready /\ signin.account = "none"
  BY <1>1 DEF SigninInv, CoreInv
<1>3. CASE InitializeOnProfileReady
  <2> DEFINE s == [signin EXCEPT !.ready = TRUE]
  <2>1. CASE signin.account = "none"
    <3>1. ShutdownUserCloudPolicyManager(s) /\ ~signin.ready
      BY <1>3, <2>1 DEF InitializeOnProfileReady
    <3>2. s \in SigninType /\ ~s.posted /\ ~s.dmToken
      BY <1>1, <1>2, <2>1, <3>1 DEF SigninType
    <3> HIDE DEF s
    <3>. QED
      BY <3>1, <3>2, ShutdownStep
  <2>2. CASE signin.account # "none"
    <3>1. InitializeForSignedInUser(s)
      BY <1>3, <2>2 DEF InitializeOnProfileReady
    <3>. QED
      BY <2>2, <3>1, SignedInStep
  <2>. QED
    BY <2>1, <2>2
<1>4. CASE OnRefreshTokenAvailable
  <2>1. /\ InitializeForSignedInUser([signin EXCEPT !.token = TRUE])
        /\ signin.account # "none"
    BY <1>4 DEF OnRefreshTokenAvailable
  <2>. QED
    BY <2>1, SignedInStep
<1>5. CASE GoogleSignedOut
  <2> DEFINE s == [signin EXCEPT !.account = "none", !.token = FALSE]
  <2>1. ShutdownUserCloudPolicyManager(s) /\ signin.account # "none" /\ ~signin.prohibited
    BY <1>5 DEF GoogleSignedOut
  <2>2. s \in SigninType /\ ~s.posted /\ ~s.dmToken
    BY <1>1, <1>2, <2>1 DEF SigninType, Accounts
  <2> HIDE DEF s
  <2>. QED
    BY <2>1, <2>2, ShutdownStep
<1>6. CASE RunPostedShutdown
  <2> DEFINE s == [signin EXCEPT !.posted = FALSE]
  <2>1. ShutdownUserCloudPolicyManager(s) /\ signin.posted
    BY <1>6 DEF RunPostedShutdown
  <2>2. s \in SigninType /\ ~s.posted /\ ~s.dmToken
    BY <1>1, <1>2, <2>1 DEF SigninType
  <2> HIDE DEF s
  <2>. QED
    BY <2>1, <2>2, ShutdownStep
<1>. QED
  BY <1>3, <1>4, <1>5, <1>6

LEMMA FetchPolicyForSignedInUserStep ==
    ASSUME PolicyInv, ~signin.down, FetchPolicyForSignedInUser
    PROVE  PolicyInv'
<1>1. signin \in SigninType /\ SigninInv /\ signin.dmToken
  BY DEF PolicyInv, TypeOK, FetchPolicyForSignedInUser
<1>2. /\ ~core.connected /\ store.loaded /\ signin.helper = "none"
  BY <1>1 DEF SigninInv
<1>3. /\ Connect(TRUE) /\ wanted' = TRUE
      /\ UNCHANGED <<store, fetch, published, sent, serviceUp, rc>>
      /\ signin' = [signin EXCEPT !.dmToken = FALSE, !.account = "enterprise",
                                  !.prohibited = TRUE]
  BY <1>1 DEF FetchPolicyForSignedInUser, ProhibitSignoutIfNeeded, SigninType
<1>4. core'.registered = TRUE /\ core'.connected = TRUE
  BY <1>3 DEF Connect
<1>5. signin' \in SigninType /\ SigninInv'
  BY <1>1, <1>2, <1>3, <1>4 DEF SigninType, SigninInv, Accounts
<1>. QED
  BY <1>2, <1>3, <1>5, ConnectStep

\* A step that gives neither invalidator anything to do.
LEMMA InvalidatorsIdle ==
    ASSUME PolicyInv, UNCHANGED <<store, published, sent, serviceUp, inv, rc>>,
           core'.connected = core.connected, core'.remote = core.remote,
           core' \in [connected : BOOLEAN, registered : BOOLEAN, remote : BOOLEAN],
           fetch' \in [running : BOOLEAN, version : Int, content : Contents],
           wanted' \in BOOLEAN, signin' \in SigninType,
           CoreInv', DebtInv(inv)', SigninInv'
    PROVE  PolicyInv'
<1>1. InvalidatorInv(inv)'
  BY InvalidatorKept DEF PolicyInv
<1>2. SentInv'
  BY SentKept DEF PolicyInv
<1>3. RemoteFlags(rc)'
  BY RemoteKept DEF PolicyInv, RemoteInv
<1>4. TypeOK'
  BY DEF PolicyInv, TypeOK, CoreTypeOK
<1>5. FollowsCore(inv)' /\ RemoteInv'
  BY <1>3 DEF PolicyInv, FollowsCore, RemoteInv, Registered, NothingHeard
<1>. QED
  BY <1>1, <1>2, <1>4, <1>5 DEF PolicyInv

\* While nothing is fetched, nothing is owed by a fetch.
LEMMA DebtWithoutFetch ==
    ASSUME DebtInv(inv), UNCHANGED <<store, published, inv>>, fetch'.running = FALSE
    PROVE  DebtInv(inv)'
BY DEF DebtInv, Brings, Debt, Invalid, Registered

LEMMA ClientSteps ==
    ASSUME PolicyInv, ~signin.down, OnRegistrationComplete \/ OnClientError
    PROVE  PolicyInv'
<1>1. /\ TypeOK /\ CoreInv /\ DebtInv(inv) /\ SigninInv /\ signin \in SigninType
      /\ core \in [connected : BOOLEAN, registered : BOOLEAN, remote : BOOLEAN]
      /\ 0 \in Contents
  BY PolicyAssumption DEF PolicyInv, TypeOK, CoreTypeOK, Contents
<1>2. CASE OnRegistrationComplete
  <2>1. /\ signin.helper = "core" /\ core.connected /\ ~core.registered /\ store.loaded
        /\ ~fetch.running /\ ~signin.prohibited /\ ~signin.posted
        /\ signin.account # "none" /\ ~signin.dmToken
    BY <1>1, <1>2 DEF OnRegistrationComplete, SigninInv, CoreInv
  <2>2. PICK registered \in BOOLEAN :
           /\ core' = [core EXCEPT !.registered = registered]
           /\ wanted' = (wanted \/ registered)
           /\ signin' = [ProhibitSignoutIfNeeded(signin, registered) EXCEPT !.helper = "none"]
           /\ UNCHANGED <<store, fetch, published, sent, serviceUp, inv, rc>>
    BY <1>2 DEF OnRegistrationComplete
  <2>3. signin' = [signin EXCEPT !.prohibited = registered, !.helper = "none"]
    BY <1>1, <2>1, <2>2 DEF ProhibitSignoutIfNeeded, SigninType
  <2>4. /\ core'.registered = registered /\ core'.connected = core.connected
        /\ core'.remote = core.remote
        /\ core' \in [connected : BOOLEAN, registered : BOOLEAN, remote : BOOLEAN]
    BY <1>1, <2>2
  <2>5. signin' \in SigninType /\ SigninInv'
    BY <1>1, <2>1, <2>3, <2>4 DEF SigninType, SigninInv
  <2>6. CoreInv'
    BY <1>1, <2>1, <2>2, <2>4 DEF CoreInv
  <2>7. DebtInv(inv)'
    BY <1>1, <2>2, DebtKept
  <2>8. /\ fetch' \in [running : BOOLEAN, version : Int, content : Contents]
        /\ wanted' \in BOOLEAN
    BY <1>1, <2>2 DEF TypeOK, CoreTypeOK
  <2>. QED
    BY <2>2, <2>4, <2>5, <2>6, <2>7, <2>8, InvalidatorsIdle
<1>3. CASE OnClientError
  <2>1. /\ fetch.running /\ core.registered /\ fetch' = NoFetch
        /\ signin' = [signin EXCEPT !.posted = TRUE]
        /\ UNCHANGED <<core, store, wanted, published, sent, serviceUp, inv, rc>>
    BY <1>1, <1>3 DEF OnClientError, CoreInv
  <2>2. signin' \in SigninType /\ SigninInv'
    BY <1>1, <2>1 DEF SigninType, SigninInv
  <2>3. /\ fetch' \in [running : BOOLEAN, version : Int, content : Contents]
        /\ fetch'.running = FALSE
    BY <1>1, <2>1 DEF NoFetch
  <2>4. CoreInv'
    BY <1>1, <2>1, <2>3 DEF CoreInv
  <2>5. DebtInv(inv)'
    BY <1>1, <2>1, <2>3, DebtWithoutFetch
  <2>6. wanted' \in BOOLEAN
    BY <1>1, <2>1 DEF TypeOK, CoreTypeOK
  <2>. QED
    BY <1>1, <2>1, <2>2, <2>3, <2>4, <2>5, <2>6, InvalidatorsIdle
<1>. QED
  BY <1>2, <1>3

\* A fetch carries the version the client was given, and brings what is published.
LEMMA FetchStep ==
    ASSUME PolicyInv, ~signin.down, Fetches
    PROVE  PolicyInv'
<1>1. /\ core.connected /\ core.registered /\ wanted' = FALSE
      /\ fetch' = [running |-> TRUE, version |-> inv.clientVersion, content |-> published]
      /\ UNCHANGED <<core, store, published, sent, serviceUp, inv, rc, signin>>
  BY DEF Fetches, ScheduledFetch, RegularFetch, FetchPolicy
<1>2. /\ TypeOK /\ CoreInv /\ SentInv /\ DebtInv(inv) /\ InvalidatorInv(inv) /\ SigninInv
      /\ published \in Contents /\ published \in Nat /\ inv.clientVersion \in Int
      /\ inv.unknownCount \in Nat
  BY PolicyAssumption
  DEF PolicyInv, TypeOK, CoreTypeOK, Contents, InvalidatorType
<1>3. \A i \in Heard(inv) : i.change <= published
  BY <1>2 DEF InvalidatorInv, SentInv
<1>4. inv.clientVersion <= published
  BY <1>2, <1>3 DEF InvalidatorInv, VersionOf
<1>5. Brings(published, inv) /\ (Invalid(inv) => inv.pending.change <= published)
  BY <1>3 DEF Brings, Debt, Heard
<1>6. CoreInv'
  BY <1>1, <1>2, <1>4 DEF CoreInv
<1>7. DebtInv(inv)'
  <2>1. VersionOf(inv, fetch'.version) /\ fetch'.content = published
    BY <1>1, <1>2 DEF InvalidatorInv
  <2>. QED
    BY <1>1, <1>2, <1>5, <2>1 DEF DebtInv, Brings, Debt, VersionOf, Heard, Invalid, Registered
<1>8. SigninInv'
  BY <1>1, <1>2 DEF SigninInv
<1>9. /\ core' \in [connected : BOOLEAN, registered : BOOLEAN, remote : BOOLEAN]
      /\ fetch' \in [running : BOOLEAN, version : Int, content : Contents]
      /\ signin' \in SigninType
  BY <1>1, <1>2 DEF TypeOK, CoreTypeOK
<1>. QED
  BY <1>1, <1>6, <1>7, <1>8, <1>9, InvalidatorsIdle

LEMMA ServerSteps ==
    ASSUME PolicyInv, ~signin.down, Server
    PROVE  PolicyInv'
<1>1. /\ TypeOK /\ CoreInv /\ SentInv /\ DebtInv(inv) /\ InvalidatorInv(inv) /\ SigninInv
      /\ FollowsCore(inv) /\ RemoteInv /\ RemoteFlags(rc)
      /\ UNCHANGED <<core, serviceUp, inv, rc, signin>>
      /\ signin' \in SigninType /\ published \in Nat /\ MaxContent \in Nat
      /\ 0 \in Contents
  BY PolicyAssumption
  DEF Server, Publish, FetchFails, PolicyAges, PolicyInv, RemoteInv, TypeOK, CoreTypeOK,
      Contents
<1>2. CASE \E kind \in Kinds : Publish(kind)
  <2>1. PICK kind \in Kinds : Publish(kind)
    BY <1>2
  <2> DEFINE new == [change |-> published', kind |-> kind, object |-> Named(published)]
  <2>2. /\ published < MaxContent /\ published' = published + 1
        /\ sent' = IF Named(published) = NoObject THEN sent ELSE sent \cup {new}
        /\ UNCHANGED <<store, fetch, wanted>>
    BY <2>1 DEF Publish
  <2>3. published \in Contents /\ published' \in Contents /\ sent \subseteq Invalidations
    BY <1>1, <2>2 DEF TypeOK, CoreTypeOK, Contents
  <2>4. Named(published) # NoObject => new \in Invalidations
    BY <2>3, NamedType DEF Invalidations
  <2>5. sent' \subseteq Invalidations
    BY <2>2, <2>3, <2>4
  <2>6. SentInv'
    <3>1. new.change = published + 1 /\ new.object = Named(published)
      BY <2>2
    <3>2. \A i \in sent' : i \in sent \/ (i = new /\ Named(published) # NoObject)
      BY <2>2
    <3> HIDE DEF new
    <3>3. \A i \in sent' : i.change \in Nat
      BY <2>5, PolicyAssumption DEF Invalidations, Contents
    <3>4. \A i \in sent : i.change <= published
      BY <1>1 DEF SentInv
    <3>5. ASSUME NEW i \in sent'
          PROVE  /\ 0 < i.change /\ i.change <= published'
                 /\ i.object = Named(i.change - 1) /\ i.object # NoObject
      <4>1. CASE i \in sent
        <5>1. /\ 0 < i.change /\ i.change <= published
              /\ i.object = Named(i.change - 1) /\ i.object # NoObject
          BY <1>1, <4>1 DEF SentInv
        <5>2. published' = published + 1 /\ published \in Nat /\ i.change \in Nat
          BY <1>1, <2>2, <3>3, <3>5
        <5>3. i.change <= published'
          BY <5>1, <5>2
        <5>. QED
          BY <5>1, <5>3
      <4>2. CASE i = new /\ Named(published) # NoObject
        <5>1. i.change = published + 1 /\ published' = published + 1 /\ published \in Nat
          BY <1>1, <2>2, <3>1, <4>2
        <5>2. i.change - 1 = published /\ 0 < i.change /\ i.change <= published'
          BY <5>1
        <5>3. i.object = Named(published) /\ i.object # NoObject
          BY <3>1, <4>2
        <5>. QED
          BY <5>2, <5>3
      <4>. QED
        BY <3>2, <3>5, <4>1, <4>2
    <3>6. ASSUME NEW i \in sent', NEW j \in sent', i.change = j.change PROVE i = j
      BY <1>1, <3>1, <3>2, <3>3, <3>4, <3>6 DEF SentInv
    <3>. QED
      BY <3>5, <3>6 DEF SentInv
  <2>7. InvalidatorInv(inv)'
    <3>1. sent \subseteq sent'
      BY <2>2
    <3>. QED
      BY <1>1, <3>1 DEF InvalidatorInv, VersionOf, Heard, Invalid, Registered
  <2>8. DebtInv(inv)'
    <3>1. inv.highest \in Nat
      BY <1>1 DEF InvalidatorInv, InvalidatorType
    <3>. QED
      BY <1>1, <2>2, <3>1 DEF DebtInv, Brings, Debt, VersionOf, Heard, Invalid, Registered
  <2>9. CoreInv'
    <3>1. /\ store.policy # NoPolicy => store.policy \in Nat
          /\ fetch.content \in Nat
      BY <1>1, PolicyAssumption DEF TypeOK, CoreTypeOK, Contents
    <3>. QED
      BY <1>1, <2>2, <3>1 DEF CoreInv
  <2>10. TypeOK'
    BY <1>1, <2>2, <2>3, <2>5 DEF TypeOK, CoreTypeOK
  <2>11. FollowsCore(inv)'
    BY <1>1, <2>2 DEF FollowsCore, Registered, NothingHeard
  <2>12. RemoteInv'
    BY <1>1, <2>2 DEF RemoteInv, RemoteFlags
  <2>13. SigninInv'
    BY <1>1, <2>2 DEF SigninInv
  <2>. QED
    BY <2>6, <2>7, <2>8, <2>9, <2>10, <2>11, <2>12, <2>13 DEF PolicyInv
<1>3. CASE FetchFails
  <2>1. /\ fetch' = NoFetch /\ wanted' = TRUE /\ UNCHANGED <<store, published, sent>>
    BY <1>3 DEF FetchFails
  <2>2. /\ fetch' \in [running : BOOLEAN, version : Int, content : Contents]
        /\ fetch'.running = FALSE
        /\ core' \in [connected : BOOLEAN, registered : BOOLEAN, remote : BOOLEAN]
    BY <1>1, <2>1 DEF NoFetch, TypeOK, CoreTypeOK
  <2>3. CoreInv'
    BY <1>1, <2>1, <2>2 DEF CoreInv
  <2>4. DebtInv(inv)'
    BY <1>1, <2>1, <2>2, DebtWithoutFetch
  <2>5. SigninInv'
    BY <1>1, <2>1 DEF SigninInv
  <2>. QED
    BY <1>1, <2>1, <2>2, <2>3, <2>4, <2>5, InvalidatorsIdle
<1>4. CASE PolicyAges
  <2>1. /\ store' = [store EXCEPT !.recent = FALSE]
        /\ UNCHANGED <<fetch, wanted, published, sent>>
    BY <1>4 DEF PolicyAges
  <2>2. /\ store' \in [loaded : BOOLEAN, policy : Contents \cup {NoPolicy},
                       version : Int, recent : BOOLEAN]
        /\ store'.loaded = store.loaded /\ store'.policy = store.policy
    BY <1>1, <2>1 DEF TypeOK, CoreTypeOK
  <2>3. TypeOK'
    BY <1>1, <2>1, <2>2 DEF TypeOK, CoreTypeOK
  <2>4. CoreInv' /\ SigninInv'
    BY <1>1, <2>1, <2>2 DEF CoreInv, SigninInv
  <2>5. SentInv'
    BY <1>1, <2>1, SentKept
  <2>6. InvalidatorInv(inv)'
    BY <1>1, <2>1, InvalidatorKept
  <2>7. DebtInv(inv)'
    BY <1>1, <2>1, <2>2 DEF DebtInv, Brings, Debt, VersionOf, Heard, Invalid, Registered
  <2>8. FollowsCore(inv)'
    BY <1>1, <2>2 DEF FollowsCore, Registered, NothingHeard
  <2>9. RemoteInv'
    BY <1>1, <2>2 DEF RemoteInv, RemoteFlags
  <2>. QED
    BY <2>3, <2>4, <2>5, <2>6, <2>7, <2>8, <2>9 DEF PolicyInv
<1>. QED
  BY <1>2, <1>3, <1>4 DEF Server

\* A step of the two invalidators alone.
LEMMA InvalidatorsOnly ==
    ASSUME PolicyInv, UNCHANGED <<core, store, fetch, published, sent, serviceUp, signin>>,
           wanted' \in BOOLEAN, InvalidatorInv(inv)', FollowsCore(inv)', DebtInv(inv)',
           RemoteInv'
    PROVE  PolicyInv'
<1>1. TypeOK'
  BY DEF PolicyInv, TypeOK, CoreTypeOK, InvalidatorInv, RemoteInv, RemoteFlags
<1>2. SentInv'
  BY SentKept DEF PolicyInv
<1>3. CoreInv' /\ SigninInv'
  BY DEF PolicyInv, CoreInv, SigninInv
<1>. QED
  BY <1>1, <1>2, <1>3 DEF PolicyInv

LEMMA RemoteInvKept ==
    ASSUME RemoteInv, UNCHANGED <<core, store, serviceUp, rc>>
    PROVE  RemoteInv'
BY DEF RemoteInv, RemoteFlags

LEMMA FollowsKept ==
    ASSUME NEW r, FollowsCore(r), inv' = r, UNCHANGED <<core, store>>
    PROVE  FollowsCore(inv)'
BY DEF FollowsCore, Registered, NothingHeard

LEMMA IncomingStep ==
    ASSUME PolicyInv, OnIncomingInvalidation, UNCHANGED <<coreVars, rc, signin>>
    PROVE  PolicyInv'
<1>1. /\ UNCHANGED <<core, store, fetch, published, sent, serviceUp, signin, wanted, rc>>
      /\ wanted \in BOOLEAN /\ RemoteInv
  BY DEF coreVars, PolicyInv, TypeOK, CoreTypeOK
<1>2. PICK r : r = inv' /\ InvalidatorInv(r) /\ FollowsCore(r) /\ DebtInv(r)
  BY IncomingFacts
<1>3. InvalidatorInv(inv)' /\ FollowsCore(inv)' /\ DebtInv(inv)' /\ RemoteInv'
  BY <1>1, <1>2, InvalidatorKept, FollowsKept, DebtKept, RemoteInvKept
<1>. QED
  BY <1>1, <1>3, InvalidatorsOnly

LEMMA RefreshStep ==
    ASSUME PolicyInv, Refreshes
    PROVE  PolicyInv'
<1>1. /\ UNCHANGED <<core, store, fetch, published, sent, serviceUp, signin, rc>>
      /\ wanted' = TRUE /\ RemoteInv /\ inv \in InvalidatorType
      /\ InvalidatorInv(inv) /\ FollowsCore(inv) /\ DebtInv(inv)
      /\ inv.refresh # "none"
  BY DEF Refreshes, RefreshPolicy, PolicyInv, TypeOK
<1> DEFINE version == IF inv.refresh = "bare" THEN inv.version ELSE inv.clientVersion
           s == [inv EXCEPT !.refresh = "none"]
           r == [s EXCEPT !.clientVersion = version]
<1>2. inv' = r
  BY <1>1 DEF Refreshes, RefreshPolicy, InvalidatorType
<1>3. VersionOf(inv, version) /\ version \in Int
  <2>1. CASE inv.refresh = "bare"
    <3>1. Invalid(inv) /\ inv.version \in Int
      BY <1>1 DEF InvalidatorInv, InvalidatorType
    <3>2. inv.pending \in Heard(inv)
      BY <3>1 DEF Heard
    <3>. QED
      BY <1>1, <2>1, <3>1, <3>2 DEF InvalidatorInv, VersionOf
  <2>2. CASE inv.refresh # "bare"
    BY <1>1, <2>2 DEF InvalidatorInv, InvalidatorType
  <2>. QED
    BY <2>1, <2>2
<1> HIDE DEF version
<1>4. s \in InvalidatorType
  BY <1>1, FieldTypes
<1>5. r \in InvalidatorType
  <2> HIDE DEF s
  <2>. QED BY <1>3, <1>4, FieldTypes
<1>6. /\ r.object = inv.object /\ r.serviceEnabled = inv.serviceEnabled
      /\ r.enabled = inv.enabled /\ r.available = inv.available
      /\ r.pending = inv.pending /\ r.version = inv.version
      /\ r.unknownCount = inv.unknownCount /\ r.highest = inv.highest
      /\ r.refresh = "none" /\ r.clientVersion = version
      /\ r.acked = inv.acked /\ r.excused = inv.excused /\ r.state = inv.state
  BY <1>1 DEF InvalidatorType
<1> HIDE DEF r
<1>7. InvalidatorInv(r)
  BY <1>1, <1>3, <1>5, <1>6 DEF InvalidatorInv, VersionOf, Heard, Invalid, Registered
<1>8. FollowsCore(r)
  BY <1>1, <1>6 DEF FollowsCore, Registered, NothingHeard
<1>9. DebtInv(r)
  BY <1>1, <1>6 DEF DebtInv, Brings, Debt, VersionOf, Heard, Invalid, Registered
<1>10. InvalidatorInv(inv)' /\ FollowsCore(inv)' /\ DebtInv(inv)' /\ RemoteInv'
  BY <1>1, <1>2, <1>7, <1>8, <1>9, InvalidatorKept, FollowsKept, DebtKept, RemoteInvKept
<1>. QED
  BY <1>1, <1>10, InvalidatorsOnly

LEMMA ServiceStep ==
    ASSUME PolicyInv, ~signin.down, ServiceChanges
    PROVE  PolicyInv'
<1>1. /\ UNCHANGED <<core, store, fetch, wanted, published, sent, signin>>
      /\ serviceUp' = ~serviceUp /\ serviceUp' \in BOOLEAN
      /\ TypeOK /\ CoreInv /\ SentInv /\ DebtInv(inv) /\ InvalidatorInv(inv) /\ SigninInv
      /\ FollowsCore(inv) /\ RemoteInv /\ RemoteFlags(rc) /\ rc \in RemoteType
      /\ Registered(inv) => inv.state = "STARTED"
  BY DEF ServiceChanges, PolicyInv, RemoteInv, TypeOK, CoreTypeOK, FollowsCore
<1>2. PICK r : /\ inv' = r /\ r \in InvalidatorType /\ Keeps(inv, r)
               /\ r.enabled = (r.serviceEnabled /\ Registered(r)) /\ r.available = r.enabled
               /\ Registered(r) => r.serviceEnabled = serviceUp'
               /\ r.object = inv.object /\ r.pending = inv.pending
               /\ r.refresh = inv.refresh /\ r.clientVersion = inv.clientVersion
               /\ r.acked = inv.acked
  <2>1. CASE Registered(inv)
    <3> DEFINE r == OnInvalidatorStateChange(inv, serviceUp')
    <3>1. inv' = r
      BY <1>1, <2>1 DEF ServiceChanges
    <3> DEFINE up == serviceUp'
    <3>2. up \in BOOLEAN /\ InvalidatorInv(inv)
      BY <1>1
    <3>3. /\ r \in InvalidatorType /\ Keeps(inv, r)
          /\ r.enabled = (serviceUp' /\ Registered(r)) /\ r.available = r.enabled
          /\ r.serviceEnabled = serviceUp' /\ r.object = inv.object
          /\ r.pending = inv.pending /\ r.refresh = inv.refresh
          /\ r.clientVersion = inv.clientVersion /\ r.acked = inv.acked
      BY <3>2, ServiceFacts DEF up
    <3> HIDE DEF r
    <3>. QED
      BY <3>1, <3>3
  <2>2. CASE ~Registered(inv)
    <3>1. inv' = inv /\ Keeps(inv, inv)
      BY <2>2 DEF ServiceChanges, Keeps
    <3>. QED
      BY <1>1, <2>2, <3>1 DEF InvalidatorInv
  <2>. QED
    BY <2>1, <2>2
<1>3. InvalidatorInv(inv)'
  BY <1>1, <1>2 DEF InvalidatorInv, Keeps, VersionOf, Heard, Invalid, Registered
<1>4. DebtInv(inv)'
  BY <1>1, <1>2 DEF DebtInv, Keeps, Brings, Debt, VersionOf, Heard, Invalid, Registered
<1>5. FollowsCore(inv)'
  BY <1>1, <1>2 DEF FollowsCore, Keeps, Registered, NothingHeard
<1>6. RemoteInv'
  <2>1. CASE rc.object # NoObject
    <3>1. rc' = RcOnInvalidatorStateChange(rc, serviceUp')
      BY <2>1 DEF ServiceChanges
    <3>2. /\ rc' \in RemoteType /\ rc'.state = rc.state /\ rc'.object = rc.object
          /\ rc'.serviceEnabled = serviceUp'
          /\ rc'.enabled = (serviceUp' /\ rc.object # NoObject)
      BY <1>1, <3>1
      DEF RcOnInvalidatorStateChange, RcUpdateInvalidationsEnabled, RemoteType
    <3>. QED
      BY <1>1, <3>2 DEF RemoteInv, RemoteFlags
  <2>2. CASE rc.object = NoObject
    <3>1. rc' = rc
      BY <2>2 DEF ServiceChanges
    <3>. QED
      BY <1>1, <2>2, <3>1 DEF RemoteInv, RemoteFlags
  <2>. QED
    BY <2>1, <2>2
<1>7. SentInv'
  BY <1>1, SentKept
<1>8. CoreInv' /\ SigninInv'
  BY <1>1 DEF CoreInv, SigninInv
<1>9. TypeOK'
  BY <1>1, <1>3, <1>6 DEF TypeOK, CoreTypeOK, InvalidatorInv, RemoteInv, RemoteFlags
<1>. QED
  BY <1>3, <1>4, <1>5, <1>6, <1>7, <1>8, <1>9 DEF PolicyInv

LEMMA RemoteStep ==
    ASSUME PolicyInv, ~signin.down, StartRemoteCommandsService
    PROVE  PolicyInv'
<1>1. /\ UNCHANGED <<store, fetch, wanted, published, sent, serviceUp, inv, signin>>
      /\ core' = [core EXCEPT !.remote = TRUE] /\ core.connected
      /\ rc' = IF rc.state = "STOPPED" THEN Start(rc) ELSE rc
      /\ TypeOK /\ CoreInv /\ SentInv /\ DebtInv(inv) /\ InvalidatorInv(inv) /\ SigninInv
      /\ FollowsCore(inv) /\ RemoteInv /\ RemoteFlags(rc) /\ rc \in RemoteType
      /\ serviceUp \in BOOLEAN /\ store.policy \in Contents \cup {NoPolicy}
  BY DEF StartRemoteCommandsService, PolicyInv, RemoteInv, TypeOK, CoreTypeOK
<1>2. /\ core'.connected = core.connected /\ core'.registered = core.registered
      /\ core'.remote = TRUE
      /\ core' \in [connected : BOOLEAN, registered : BOOLEAN, remote : BOOLEAN]
  BY <1>1 DEF TypeOK, CoreTypeOK
<1>3. PICK q : /\ rc' = q /\ RemoteFlags(q) /\ q.state # "STOPPED"
               /\ q.state = "STARTED" => q.object = ObjectOf(store.policy)
  <2>1. CASE rc.state = "STOPPED"
    <3> DEFINE q == Start(rc)
    <3>1. rc' = q
      BY <1>1, <2>1
    <3>2. RemoteFlags(q) /\ q.state = "STARTED" /\ q.object = ObjectOf(store.policy)
      BY <1>1, StartFacts
    <3> HIDE DEF q
    <3>. QED
      BY <3>1, <3>2
  <2>2. CASE rc.state # "STOPPED"
    BY <1>1, <2>2 DEF RemoteInv
  <2>. QED
    BY <2>1, <2>2
<1>4. RemoteFlags(rc)'
  BY <1>1, <1>3, RemoteKept
<1>5. RemoteInv'
  BY <1>1, <1>2, <1>3, <1>4 DEF RemoteInv
<1>6. InvalidatorInv(inv)' /\ DebtInv(inv)' /\ SentInv'
  BY <1>1, InvalidatorKept, DebtKept, SentKept
<1>7. FollowsCore(inv)'
  BY <1>1, <1>2 DEF FollowsCore, Registered, NothingHeard
<1>8. CoreInv' /\ SigninInv'
  BY <1>1, <1>2 DEF CoreInv, SigninInv
<1>9. TypeOK'
  BY <1>1, <1>2, <1>4 DEF TypeOK, CoreTypeOK, RemoteFlags
<1>. QED
  BY <1>5, <1>6, <1>7, <1>8, <1>9 DEF PolicyInv

\* What NewInvalidator knows and owes: nothing.
LEMMA FreshInvalidator ==
    ASSUME NEW state \in InvalidatorStates, NEW r, r = [NewInvalidator EXCEPT !.state = state]
    PROVE  /\ InvalidatorInv(r) /\ r.state = state /\ ~Registered(r) /\ ~Invalid(r)
           /\ NothingHeard(r) /\ Debt(r) = {} /\ Heard(r) = {}
<1>1. /\ r.object = NoObject /\ r.serviceEnabled = FALSE
      /\ r.enabled = FALSE /\ r.available = FALSE
      /\ r.pending = NoInvalidation /\ r.version = 0
      /\ r.unknownCount = 0 /\ r.highest = 0
      /\ r.refresh = "none" /\ r.clientVersion = 0
      /\ r.acked = {} /\ r.excused = {} /\ r.state = state
  BY DEF NewInvalidator
<1>2. NewInvalidator \in InvalidatorType
  BY DEF NewInvalidator, InvalidatorType, InvalidatorStates
<1>3. r \in InvalidatorType
  BY <1>2, FieldTypes
<1>. QED
  BY <1>1, <1>3
  DEF InvalidatorInv, VersionOf, Heard, Invalid, Registered, NothingHeard, Debt

LEMMA ShutdownProfileStep ==
    ASSUME PolicyInv, ShutdownProfile
    PROVE  PolicyInv'
<1> DEFINE q == ShutdownRemote(rc)
           r == Destroyed
<1>1. /\ signin' = [signin EXCEPT !.ready = TRUE, !.account = "none", !.token = FALSE,
                       !.helper = "none", !.dmToken = FALSE, !.posted = FALSE,
                       !.prohibited = FALSE, !.down = TRUE]
      /\ inv' = r /\ rc' = q /\ core' = Disconnected
      /\ fetch' = NoFetch /\ wanted' = FALSE
      /\ UNCHANGED <<store, published, sent, serviceUp>>
      /\ TypeOK /\ CoreInv /\ SentInv /\ RemoteFlags(rc) /\ 0 \in Contents
      /\ signin \in SigninType
  BY PolicyAssumption
  DEF ShutdownProfile, PolicyInv, RemoteInv, TypeOK, CoreTypeOK, Contents
<1>2. /\ InvalidatorInv(r) /\ r.state = "SHUT_DOWN" /\ ~Registered(r) /\ ~Invalid(r)
      /\ NothingHeard(r) /\ Debt(r) = {}
  BY FreshInvalidator DEF Destroyed, InvalidatorStates
<1>3. RemoteFlags(q) /\ q.state = "SHUT_DOWN"
  <2>1. CASE rc.state = "SHUT_DOWN"
    BY <1>1, <2>1 DEF ShutdownRemote
  <2>2. CASE rc.state # "SHUT_DOWN"
    <3> DEFINE t == Stop(rc)
    <3>1. RemoteFlags(t) /\ t.object = NoObject
      BY <1>1, StopFacts
    <3>2. q = [t EXCEPT !.state = "SHUT_DOWN"]
      BY <2>2 DEF ShutdownRemote
    <3> HIDE DEF t, q
    <3>. QED
      BY <3>1, <3>2 DEF RemoteFlags, RemoteType
  <2>. QED
    BY <2>1, <2>2
<1> HIDE DEF q, r
<1>4. signin' \in SigninType /\ signin'.down = TRUE
  BY <1>1 DEF SigninType, Accounts
<1>5. InvalidatorInv(inv)'
  BY <1>1, <1>2, InvalidatorKept
<1>6. RemoteFlags(rc)'
  BY <1>1, <1>3, RemoteKept
<1>7. SentInv'
  BY <1>1, SentKept
<1>8. TypeOK'
  <2>1. core' \in [connected : BOOLEAN, registered : BOOLEAN, remote : BOOLEAN]
    BY <1>1 DEF Disconnected
  <2>2. fetch' \in [running : BOOLEAN, version : Int, content : Contents]
    BY <1>1 DEF NoFetch
  <2>3. inv' \in InvalidatorType /\ rc' \in RemoteType
    BY <1>5, <1>6 DEF InvalidatorInv, RemoteFlags
  <2>. QED
    BY <1>1, <1>4, <2>1, <2>2, <2>3 DEF TypeOK, CoreTypeOK
<1>9. CoreInv' /\ SigninInv'
  BY <1>1, <1>4 DEF CoreInv, SigninInv, Disconnected, NoFetch
<1>10. FollowsCore(inv)'
  BY <1>1, <1>2 DEF FollowsCore, Registered, NothingHeard
<1>11. RemoteInv'
  BY <1>1, <1>3, <1>6 DEF RemoteInv
<1>12. DebtInv(inv)'
  <2>1. r.highest = 0 /\ published \in Nat
    BY <1>1, <1>2, PolicyAssumption DEF NothingHeard, TypeOK, CoreTypeOK, Contents
  <2>. QED
    BY <1>1, <1>2, <2>1 DEF DebtInv, NoFetch, Registered, Invalid
<1>. QED
  BY <1>5, <1>7, <1>8, <1>9, <1>10, <1>11, <1>12 DEF PolicyInv

LEMMA InitializeStep ==
    ASSUME PolicyInv, Initialize, InitializeRemote, UNCHANGED <<coreVars, signin>>
    PROVE  PolicyInv'
<1>1. /\ UNCHANGED <<core, store, fetch, published, sent, serviceUp, signin, wanted>>
      /\ wanted \in BOOLEAN /\ RemoteInv /\ RemoteFlags(rc) /\ InvalidatorInv(inv)
      /\ FollowsCore(inv) /\ DebtInv(inv) /\ inv \in InvalidatorType
      /\ inv.state = "UNINITIALIZED" /\ ~Registered(inv) /\ NothingHeard(inv)
      /\ serviceUp \in BOOLEAN /\ store.policy \in Contents \cup {NoPolicy}
  BY DEF coreVars, PolicyInv, RemoteInv, TypeOK, CoreTypeOK, Initialize, FollowsCore
<1>2. PICK r : /\ inv' = r /\ InvalidatorInv(r) /\ DebtInv(r) /\ FollowsCore(r)
  <2> DEFINE stopped == [inv EXCEPT !.state = "STOPPED"]
             s == [inv EXCEPT !.state = "STARTED"]
             r == OnStoreLoaded(s, store)
  <2>1. CASE core.connected
    <3>1. [stopped EXCEPT !.state = "STARTED"] = s
      BY <1>1 DEF InvalidatorType
    <3>2. inv' = r
      BY <2>1, <3>1 DEF Initialize, OnRefreshSchedulerStarted
    <3>3. /\ InvalidatorInv(r) /\ DebtInv(r) /\ NothingHeard(r)
          /\ r.state = "STARTED" /\ r.object = ObjectOf(store.policy)
      BY <1>1, StartedFacts
    <3> HIDE DEF r
    <3>4. FollowsCore(r)
      BY <2>1, <3>3 DEF FollowsCore
    <3>. QED
      BY <3>2, <3>3, <3>4
  <2>2. CASE ~core.connected
    <3>1. inv' = stopped
      BY <2>2 DEF Initialize
    <3>2. stopped \in InvalidatorType
      BY <1>1, FieldTypes DEF InvalidatorStates
    <3>3. /\ stopped.object = inv.object /\ stopped.serviceEnabled = inv.serviceEnabled
          /\ stopped.enabled = inv.enabled /\ stopped.available = inv.available
          /\ stopped.pending = inv.pending /\ stopped.version = inv.version
          /\ stopped.unknownCount = inv.unknownCount /\ stopped.highest = inv.highest
          /\ stopped.refresh = inv.refresh /\ stopped.clientVersion = inv.clientVersion
          /\ stopped.acked = inv.acked /\ stopped.excused = inv.excused
          /\ stopped.state = "STOPPED"
      BY <1>1 DEF InvalidatorType
    <3> HIDE DEF stopped
    <3>4. InvalidatorInv(stopped)
      BY <1>1, <3>2, <3>3 DEF InvalidatorInv, VersionOf, Heard, Invalid, Registered
    <3>5. DebtInv(stopped)
      BY <1>1, <3>3 DEF DebtInv, Brings, Debt, VersionOf, Heard, Invalid, Registered
    <3>6. FollowsCore(stopped)
      BY <1>1, <2>2, <3>3 DEF FollowsCore, NothingHeard, Registered
    <3>. QED
      BY <3>1, <3>4, <3>5, <3>6
  <2>. QED
    BY <2>1, <2>2
<1>3. RemoteInv'
  <2> DEFINE stopped == [rc EXCEPT !.state = "STOPPED"]
             q == Start(stopped)
  <2>1. rc.state = "SHUT_DOWN" /\ rc' = IF core.remote THEN q ELSE stopped
    BY DEF InitializeRemote
  <2>2. RemoteFlags(stopped) /\ stopped.state = "STOPPED"
    BY <1>1, <2>1 DEF RemoteFlags, RemoteType
  <2> HIDE DEF stopped
  <2>3. RemoteFlags(q) /\ q.state = "STARTED" /\ q.object = ObjectOf(store.policy)
    BY <1>1, <2>2, StartFacts
  <2> HIDE DEF q
  <2>4. RemoteFlags(rc)'
    BY <1>1, <2>1, <2>2, <2>3, RemoteKept
  <2>. QED
    BY <1>1, <2>1, <2>2, <2>3, <2>4 DEF RemoteInv
<1>4. InvalidatorInv(inv)' /\ FollowsCore(inv)' /\ DebtInv(inv)'
  BY <1>1, <1>2, InvalidatorKept, FollowsKept, DebtKept
<1>. QED
  BY <1>1, <1>3, <1>4, InvalidatorsOnly

LEMMA PolicyInit == Init => PolicyInv
<1> SUFFICES ASSUME Init PROVE PolicyInv
  OBVIOUS
<1> DEFINE fresh == [NewInvalidator EXCEPT !.state = "UNINITIALIZED"]
<1>1. /\ core = Disconnected /\ fetch = NoFetch /\ wanted = FALSE
      /\ store = [loaded |-> FALSE, policy |-> NoPolicy, version |-> 0, recent |-> FALSE]
      /\ published = 0 /\ sent = {} /\ serviceUp = TRUE
      /\ rc = [state |-> "SHUT_DOWN", object |-> NoObject,
               serviceEnabled |-> FALSE, enabled |-> FALSE]
      /\ 0 \in Contents
  BY PolicyAssumption DEF Init, CoreInit, RemoteInit, Contents
<1>2. /\ signin \in SigninType /\ signin.helper = "none" /\ ~signin.dmToken
      /\ ~signin.posted /\ signin.prohibited = FALSE /\ ~signin.ready
  BY DEF Init, SigninType
<1>3. /\ InvalidatorInv(inv) /\ inv.state = "UNINITIALIZED" /\ ~Registered(inv)
      /\ ~Invalid(inv) /\ NothingHeard(inv)
  <2>1. inv = fresh
    <3>1. inv = NewInvalidator
      BY DEF Init, InvalidatorInit
    <3>2. inv.state = "UNINITIALIZED" /\ inv \in InvalidatorType
      BY <3>1 DEF NewInvalidator, InvalidatorType, InvalidatorStates
    <3>3. fresh = [inv EXCEPT !.state = "UNINITIALIZED"]
      BY <3>1
    <3>. QED
      BY <3>2, <3>3 DEF InvalidatorType
  <2>. QED
    BY <2>1, FreshInvalidator DEF InvalidatorStates
<1>4. CoreInv /\ SentInv /\ SigninInv
  BY <1>1, <1>2 DEF CoreInv, SentInv, SigninInv, Disconnected, NoFetch
<1>5. RemoteInv
  BY <1>1 DEF RemoteInv, RemoteFlags, RemoteType
<1>6. FollowsCore(inv) /\ DebtInv(inv)
  BY <1>1, <1>3 DEF FollowsCore, DebtInv, NothingHeard, NoFetch
<1>7. TypeOK
  <2>1. core \in [connected : BOOLEAN, registered : BOOLEAN, remote : BOOLEAN]
    BY <1>1 DEF Disconnected
  <2>2. fetch \in [running : BOOLEAN, version : Int, content : Contents]
    BY <1>1 DEF NoFetch
  <2>3. inv \in InvalidatorType /\ rc \in RemoteType
    BY <1>3, <1>5 DEF InvalidatorInv, RemoteInv, RemoteFlags
  <2>4. store \in [loaded : BOOLEAN, policy : Contents \cup {NoPolicy},
                   version : Int, recent : BOOLEAN]
    BY <1>1
  <2>5. /\ wanted \in BOOLEAN /\ serviceUp \in BOOLEAN
        /\ published \in Contents /\ sent \subseteq Invalidations
    BY <1>1
  <2>. QED
    BY <1>2, <2>1, <2>2, <2>3, <2>4, <2>5 DEF TypeOK, CoreTypeOK
<1>. QED
  BY <1>3, <1>4, <1>5, <1>6, <1>7 DEF PolicyInv

LEMMA PolicyStep == PolicyInv /\ [Next]_vars => PolicyInv'
<1> SUFFICES ASSUME PolicyInv, [Next]_vars PROVE PolicyInv'
  OBVIOUS
<1>1. CASE UNCHANGED vars
  <2>1. UNCHANGED <<core, store, fetch, wanted, published, sent, serviceUp, inv, rc, signin>>
    BY <1>1 DEF vars, coreVars
  <2>2. signin' \in SigninType /\ SigninInv'
    BY <2>1 DEF PolicyInv, TypeOK, SigninInv
  <2>. QED
    BY <2>1, <2>2, SigninOnly
<1>2. CASE Next
  <2>1. ~signin.down
    BY <1>2 DEF Next
  <2>2. CASE \/ InitializeOnProfileReady \/ OnRefreshTokenAvailable
             \/ GoogleSignedOut \/ RunPostedShutdown
    BY <2>1, <2>2, AccountSteps
  <2>3. CASE RegisterForPolicy \/ CallPolicyRegistrationCallback \/ SignInConsumer
    BY <2>1, <2>3, SignInSteps
  <2>4. CASE OnRegistrationComplete \/ OnClientError
    BY <2>1, <2>4, ClientSteps
  <2>5. CASE StoreLoads
    BY <2>1, <2>5, StoreLoadsStep
  <2>6. CASE FetchPolicyForSignedInUser
    BY <2>1, <2>6, FetchPolicyForSignedInUserStep
  <2>7. CASE OnPolicyFetched
    BY <2>1, <2>7, FetchedStep
  <2>8. CASE StartRemoteCommandsService
    BY <2>1, <2>8, RemoteStep
  <2>9. CASE ServiceChanges
    BY <2>1, <2>9, ServiceStep
  <2>10. CASE ShutdownProfile
    BY <2>10, ShutdownProfileStep
  <2>11. CASE Server
    BY <2>1, <2>11, ServerSteps
  <2>12. CASE Invalidators
    BY <2>12, InitializeStep, IncomingStep, RefreshStep DEF Invalidators
  <2>13. CASE Fetches
    BY <2>1, <2>13, FetchStep
  <2>. QED
    BY <1>2, <2>2, <2>3, <2>4, <2>5, <2>6, <2>7, <2>8, <2>9, <2>10, <2>11, <2>12, <2>13
    DEF Next
<1>. QED
  BY <1>1, <1>2

\* PolicyInv is an invariant of UserPolicySigninService, of the core that it
\* connects and disconnects and of the two invalidators that observe it.
THEOREM PolicyInvariant == Spec => []PolicyInv
BY PolicyInit, PolicyStep, PTL DEF Spec

-----------------------------------------------------------------------------
(* The properties that the invariant is for *)

\* The service, the invalidators and the core agree after every step
\* (ProhibitSignout, SetInvalidationServiceAvailability, the registrations).
THEOREM ServicesAgree == Spec => []PolicyConsistent
<1>1. ASSUME PolicyInv PROVE PolicyConsistent
  <2>1. InvalidatorFollowsCore
    BY <1>1 DEF PolicyInv, InvalidatorInv, FollowsCore, InvalidatorFollowsCore,
                TypeOK, CoreTypeOK
  <2>2. RemoteFollowsCore
    BY <1>1 DEF PolicyInv, RemoteInv, RemoteFlags, RemoteFollowsCore, TypeOK, CoreTypeOK
  <2>3. SigninFollowsCore
    BY <1>1 DEF PolicyInv, SigninInv, SigninFollowsCore
  <2>. QED
    BY <1>1, <2>1, <2>2, <2>3 DEF PolicyInv, PolicyConsistent
<1>. QED
  BY <1>1, PolicyInvariant, PTL

\* Whatever CloudPolicyInvalidator has acknowledged is stored, while nothing is
\* pending that would bring it (HandleInvalidation, OnStoreLoaded): no announced
\* change of policy is lost in another way than the two that excused records, for
\* expiry and without a version beside one that is not fetched for.
THEOREM ChangesKept == Spec => []NoChangeForgotten
<1>1. ASSUME PolicyInv PROVE NoChangeForgotten
  <2>. SUFFICES ASSUME inv.state = "STARTED", Registered(inv), ~Invalid(inv),
                       NEW i \in inv.acked \ inv.excused
                PROVE  store.policy >= i.change
    BY DEF NoChangeForgotten
  <2>1. i.change <= store.policy
    BY <1>1 DEF PolicyInv, DebtInv, Brings, Debt
  <2>2. store.policy # NoPolicy
    BY <1>1 DEF PolicyInv, FollowsCore, Registered, ObjectOf
  <2>3. store.policy \in Nat /\ i.change \in Nat
    BY <1>1, <2>2, PolicyAssumption
    DEF PolicyInv, TypeOK, CoreTypeOK, InvalidatorType, Invalidations, Contents
  <2>. QED
    BY <2>1, <2>3
<1>. QED
  BY <1>1, PolicyInvariant, PTL
=============================================================================
