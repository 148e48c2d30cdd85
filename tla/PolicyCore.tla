------------------------------- MODULE PolicyCore -------------------------------
(***************************************************************************)
(* What the policy components of a profile share, all of it from outside   *)
(* this repository and modelled as policy/cloud/ uses it: CloudPolicyCore  *)
(* with its client, service and refresh scheduler, CloudPolicyStore, the   *)
(* policy server and the invalidation service.                             *)
(*                                                                         *)
(* A policy is known by the number of its content; content n is announced  *)
(* by the invalidation of change n, sent for the object that content n - 1 *)
(* names.  The service keeps an invalidation until it is acknowledged, and *)
(* delivers it any number of times and in any order.                       *)
(***************************************************************************)
EXTENDS Integers, FiniteSets

CONSTANTS
    MaxContent,         \* bound: policies published by the server
    ContentsPerObject,  \* policies that name one invalidation object
    UnnamedContents,    \* policies that name none
    NoObject,           \* not registered, or no object named
    NoPolicy,           \* an empty store
    NoInvalidation      \* nothing pending

ASSUME PolicyAssumption ==
    /\ MaxContent \in Nat /\ ContentsPerObject \in Nat \ {0}
    /\ UnnamedContents \subseteq Nat
    /\ NoObject \notin Nat /\ NoPolicy \notin Nat

VARIABLES
    core,       \* connected, the client's registration, remote commands service
    store,      \* the stored policy, the invalidation version it was fetched for
    fetch,      \* the fetch under way: the version it carries, content it brings
    wanted,     \* RefreshSoon was called, or a failed fetch is to be repeated
    published,  \* the server's policy
    sent,       \* invalidations announced so far
    serviceUp   \* the invalidation service's state is INVALIDATIONS_ENABLED

coreVars == <<core, store, fetch, wanted, published, sent, serviceUp>>

Contents == 0..MaxContent
Objects == Contents
NoFetch == [running |-> FALSE, version |-> 0, content |-> 0]

\* With and without a payload, or with the version lost as well.
Kinds == {"payload", "bare", "unknown"}
Invalidations == [change : Contents, kind : Kinds, object : Objects]

\* CloudPolicyInvalidator::invalid_ tells a pending invalidation from none.
ASSUME NothingPendingAssumption == NoInvalidation \notin Invalidations

Named(content) ==
    IF content \in UnnamedContents THEN NoObject ELSE content \div ContentsPerObject
ObjectOf(policy) == IF policy = NoPolicy THEN NoObject ELSE Named(policy)

CoreTypeOK ==
    /\ core \in [connected : BOOLEAN, registered : BOOLEAN, remote : BOOLEAN]
    /\ store \in [loaded : BOOLEAN, policy : Contents \cup {NoPolicy},
                  version : Int, recent : BOOLEAN]
    /\ fetch \in [running : BOOLEAN, version : Int, content : Contents]
    /\ wanted \in BOOLEAN /\ serviceUp \in BOOLEAN
    /\ published \in Contents
    /\ sent \subseteq Invalidations

Disconnected == [connected |-> FALSE, registered |-> FALSE, remote |-> FALSE]

\* A profile starts with or without a policy in its cache, read later.
CoreInit ==
    /\ core = Disconnected
    /\ store = [loaded |-> FALSE, policy |-> NoPolicy, version |-> 0, recent |-> FALSE]
    /\ fetch = NoFetch /\ wanted = FALSE
    /\ published = 0 /\ sent = {}
    /\ serviceUp = TRUE

\* The server has a new policy and announces it to whoever listens.
Publish(kind) ==
    /\ published < MaxContent
    /\ published' = published + 1
    /\ sent' = IF Named(published) = NoObject THEN sent
               ELSE sent \cup {[change |-> published', kind |-> kind,
                                object |-> Named(published)]}
    /\ UNCHANGED <<core, store, fetch, wanted, serviceUp>>

\* The scheduler fetches because it was told to, or because it is time again; a
\* new fetch takes the place of a running one.
FetchPolicy(version) ==
    /\ core.connected /\ core.registered
    /\ fetch' = [running |-> TRUE, version |-> version, content |-> published]
    /\ wanted' = FALSE
    /\ UNCHANGED <<core, store, published, sent, serviceUp>>

FetchFails ==
    /\ fetch.running
    /\ fetch' = NoFetch /\ wanted' = TRUE
    /\ UNCHANGED <<core, store, published, sent, serviceUp>>

\* The policy fetched is no longer recent (kUnknownVersionIgnorePeriod).
PolicyAges ==
    /\ store.recent
    /\ store' = [store EXCEPT !.recent = FALSE]
    /\ UNCHANGED <<core, fetch, wanted, published, sent, serviceUp>>
=============================================================================
