------------------------- MODULE CloudPolicyInvalidator -------------------------
(***************************************************************************)
(* CloudPolicyInvalidator (cloud_policy_invalidator.cc) with its client's  *)
(* invalidation info and the delayed refresh.  Everything runs on one      *)
(* thread; the handlers are functions of the invalidator's state, because  *)
(* they call each other.  Delays are abstract: a refresh scheduled comes   *)
(* some time later.                                                        *)
(***************************************************************************)
EXTENDS PolicyCore

VARIABLE inv  \* the invalidator

InvalidatorStates == {"UNINITIALIZED", "STOPPED", "STARTED", "SHUT_DOWN"}
InvalidatorType ==
    [state          : InvalidatorStates,
     object         : Objects \cup {NoObject},  \* object_id_, if is_registered_
     serviceEnabled : BOOLEAN,           \* invalidation_service_enabled_
     enabled        : BOOLEAN,           \* invalidations_enabled_
     available      : BOOLEAN,           \* what the refresh scheduler was told
     pending        : Invalidations \cup {NoInvalidation},  \* invalid_, invalidation_
     version        : Int,               \* invalidation_version_
     unknownCount   : Nat,               \* unknown_version_invalidation_count_
     highest        : Nat,               \* highest_handled_invalidation_version_
     refresh        : {"none", "bare", "payload"},  \* the RefreshPolicy task
     clientVersion  : Int,               \* the client's invalidation info
     acked          : SUBSET Invalidations,  \* acknowledged to the service
     excused        : SUBSET Invalidations]  \* history: let go unfetched, see Pends

NewInvalidator ==
    [state |-> "UNINITIALIZED", object |-> NoObject,
     serviceEnabled |-> FALSE, enabled |-> FALSE, available |-> FALSE,
     pending |-> NoInvalidation, version |-> 0, unknownCount |-> 0, highest |-> 0,
     refresh |-> "none", clientVersion |-> 0, acked |-> {}, excused |-> {}]

Registered(s) == s.object # NoObject
Invalid(s) == s.pending # NoInvalidation
Acknowledge(s, invalidations) == [s EXCEPT !.acked = @ \cup invalidations]

-----------------------------------------------------------------------------
(* Handlers *)

\* Faulty variant: the refresh that was scheduled is not cancelled.
AcknowledgeInvalidation_KeepRefresh(s) ==
    [Acknowledge(s, {s.pending}) EXCEPT !.pending = NoInvalidation, !.clientVersion = 0]

\* Once acknowledged, an invalidation leaves no version with the client and no
\* refresh behind.
AcknowledgeInvalidation(s) ==
    [Acknowledge(s, {s.pending}) EXCEPT
        !.pending = NoInvalidation, !.clientVersion = 0, !.refresh = "none"]
AcknowledgeIfInvalid(s) == IF Invalid(s) THEN AcknowledgeInvalidation(s) ELSE s

UpdateInvalidationsEnabled(s) ==
    LET enabled == s.serviceEnabled /\ Registered(s)
    IN  IF enabled = s.enabled THEN s
        ELSE [s EXCEPT !.enabled = enabled, !.available = enabled]

OnInvalidatorStateChange(s, up) ==
    UpdateInvalidationsEnabled([s EXCEPT !.serviceEnabled = up])

\* Another object ends what was pending for the one before.
Register(s, object) ==
    LET listening == IF Registered(s) THEN s ELSE OnInvalidatorStateChange(s, serviceUp)
    IN  UpdateInvalidationsEnabled(
            [AcknowledgeIfInvalid(listening) EXCEPT !.object = object])

Unregister(s) ==
    IF Registered(s)
    THEN UpdateInvalidationsEnabled([AcknowledgeIfInvalid(s) EXCEPT !.object = NoObject])
    ELSE s

\* Faulty variant: whoever is registered stays so, with the old object.
UpdateRegistration_Once(s, policy) ==
    IF ObjectOf(policy) = NoObject THEN Unregister(s)
    ELSE IF Registered(s) THEN s ELSE Register(s, ObjectOf(policy))
UpdateRegistration(s, policy) ==
    IF ObjectOf(policy) = NoObject THEN Unregister(s)
    ELSE IF s.object = ObjectOf(policy) THEN s ELSE Register(s, ObjectOf(policy))

\* OnStoreLoaded: the pending invalidation is acknowledged by a policy that was
\* fetched for exactly that version.
\* Faulty variant: any policy that arrives will do.
Acknowledges_Any(s, loaded) == Invalid(s)
Acknowledges(s, loaded) == Invalid(s) /\ loaded.version = s.version
Larger(a, b) == IF a > b THEN a ELSE b
OnStoreLoaded(s, loaded) ==
    LET settled == IF Acknowledges(s, loaded) THEN AcknowledgeInvalidation(s) ELSE s
        handled == IF Registered(s)
                   THEN [settled EXCEPT !.highest = Larger(@, loaded.version)]
                   ELSE s
    IN  UpdateRegistration(handled, loaded.policy)

\* The invalidation becomes the pending one, and its refresh is scheduled; the
\* client learns of it at once, or only with the refresh if there is no payload.
Pend(s, i) ==
    LET version == IF i.kind = "unknown" THEN 0 - s.unknownCount ELSE i.change
    IN  [s EXCEPT !.pending = i,
                  !.version = version,
                  !.clientVersion = IF i.kind = "payload" THEN version ELSE @,
                  !.refresh = IF i.kind = "payload" THEN "payload" ELSE "bare"]
Count(s, i) == IF i.kind = "unknown" THEN [s EXCEPT !.unknownCount = @ + 1] ELSE s

\* The invalidation is to be fetched for: it is neither old, nor handled already,
\* nor expired.  The history excused keeps what was acknowledged and may be lost,
\* because no fetch follows: an expired invalidation with the pending one it ends
\* (DropExpired), and those without a version that arrive together with an
\* invalidation that is not fetched for (OnIncomingInvalidation).
Pends(s, i, expired) ==
    /\ ~expired
    /\ i.kind # "unknown" => i.change > s.highest /\ ~(Invalid(s) /\ i.change <= s.version)

\* The pending invalidation is given up before the new one is found expired, and
\* with it all that its fetch would have brought.
DropExpired(s, i) ==
    [Acknowledge(AcknowledgeIfInvalid(s), {i}) EXCEPT
        !.excused = @ \cup {i} \cup IF Invalid(s) THEN s.acked \cup {s.pending} ELSE {}]

HandleInvalidation(s, i, expired) ==
    LET known == i.kind # "unknown"
    IN  IF known /\ Invalid(s) /\ i.change <= s.version THEN s
        ELSE IF known /\ i.change <= s.highest THEN Acknowledge(s, {i})
        ELSE IF expired THEN Count(DropExpired(s, i), i)
        ELSE Pend(Count(AcknowledgeIfInvalid(s), i), i)

\* An unknown version sorts before every known one.
Newest(list) ==
    CHOOSE i \in list :
        \A j \in list : j.kind = "unknown" \/ (i.kind # "unknown" /\ j.change <= i.change)

\* IsInvalidationExpired: fetched long after a known version, or just before an
\* unknown one.
MayBeExpired(i) == IF i.kind = "unknown" THEN store.recent
                   ELSE store.policy # NoPolicy /\ i.change <= store.policy
MustBeExpired(i) == i.kind = "unknown" /\ store.recent

-----------------------------------------------------------------------------
(* Steps *)

InvalidatorInit == inv = NewInvalidator

\* OnRefreshSchedulerStarted and OnCoreDisconnecting, for an observer of the core.
OnRefreshSchedulerStarted(s) == OnStoreLoaded([s EXCEPT !.state = "STARTED"], store)
OnCoreDisconnecting(s) ==
    IF s.state = "STARTED" THEN [Unregister(s) EXCEPT !.state = "STOPPED"] ELSE s

\* UserCloudPolicyInvalidator::Observe: the profile is complete.
Initialize ==
    /\ inv.state = "UNINITIALIZED"
    /\ LET stopped == [inv EXCEPT !.state = "STOPPED"]
       IN  inv' = IF core.connected THEN OnRefreshSchedulerStarted(stopped) ELSE stopped

\* Invalidations of the registered object that arrive together: all but the
\* newest are acknowledged, and it is handled.  One without a version may be newer
\* than all of them, and is acknowledged whether a fetch follows or not.
OnIncomingInvalidation ==
    /\ serviceUp /\ inv.state = "STARTED" /\ Registered(inv)
    /\ \E list \in (SUBSET {i \in sent \ inv.acked : i.object = inv.object}) \ {{}} :
          LET newest == Newest(list)
              others == list \ {newest}
              unversioned == {i \in others : i.kind = "unknown"}
          IN  \E expired \in {MustBeExpired(newest), MayBeExpired(newest)} :
                LET lost == IF Pends(inv, newest, expired) THEN {} ELSE unversioned
                    alone == [Acknowledge(inv, others) EXCEPT !.excused = @ \cup lost]
                IN  inv' = HandleInvalidation(alone, newest, expired)

\* Faulty variant: the client is not told the version it could not know.
RefreshPolicy_NoVersion ==
    /\ inv.refresh # "none"
    /\ inv' = [inv EXCEPT !.refresh = "none"]
    /\ wanted' = TRUE

\* The scheduled task: tell the client the version if it had no payload.
RefreshPolicy ==
    /\ inv.refresh # "none"
    /\ inv' = [inv EXCEPT !.refresh = "none",
                          !.clientVersion = IF inv.refresh = "bare" THEN inv.version ELSE @]
    /\ wanted' = TRUE

\* Shutdown, which cancels the scheduled refresh, and the destructor after it.
Destroyed == [NewInvalidator EXCEPT !.state = "SHUT_DOWN"]
=============================================================================
