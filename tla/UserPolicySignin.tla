----------------------------- MODULE UserPolicySignin -----------------------------
(***************************************************************************)
(* UserPolicySigninService (user_policy_signin_service_base.cc,            *)
(* user_policy_signin_service.cc), composed with the two invalidators that *)
(* observe the core it connects and disconnects.  Sign-in, the token       *)
(* service and the registration helper are outside; every callback of one  *)
(* task is one step.                                                       *)
(***************************************************************************)
EXTENDS CloudPolicyInvalidator, RemoteCommandsInvalidator

VARIABLE signin  \* the service and what it asks of the sign-in manager

vars == <<coreVars, inv, rc, signin>>

\* "consumer": an account that never has policy (IsNonEnterpriseUser).
Accounts == {"none", "consumer", "enterprise"}
SigninType ==
    [ready      : BOOLEAN,    \* NOTIFICATION_PROFILE_ADDED was seen
     account    : Accounts,   \* the authenticated account
     token      : BOOLEAN,    \* its refresh token is available
     helper     : {"none", "core", "trial"},  \* registration_helper_, for whose client
     dmToken    : BOOLEAN,    \* a trial registration succeeded, sign-in goes on
     posted     : BOOLEAN,    \* bound: one task to shut down is posted
     prohibited : BOOLEAN,    \* ProhibitSignout
     down       : BOOLEAN]    \* the profile is gone

Init ==
    /\ CoreInit /\ InvalidatorInit /\ RemoteInit
    /\ \E account \in Accounts :
          signin = [ready |-> FALSE, account |-> account, token |-> FALSE,
                    helper |-> "none", dmToken |-> FALSE, posted |-> FALSE,
                    prohibited |-> FALSE, down |-> FALSE]

-----------------------------------------------------------------------------
(* What the handlers share *)

ProhibitSignoutIfNeeded(s, registered) == [s EXCEPT !.prohibited = @ \/ registered]
RegisterCloudPolicyService(s) == [s EXCEPT !.helper = IF @ = "none" THEN "core" ELSE @]

\* Without a token OnRefreshTokenAvailable will come back to it.
OnInitializationCompleted(s, registered) ==
    IF registered THEN ProhibitSignoutIfNeeded(s, registered)
    ELSE IF s.token THEN RegisterCloudPolicyService(s)
    ELSE s

\* The core has a client and a service, and starts its scheduler.
Connect(registered) ==
    /\ core' = [connected |-> TRUE, registered |-> registered, remote |-> FALSE]
    /\ inv' = IF inv.state = "STOPPED" THEN OnRefreshSchedulerStarted(inv) ELSE inv

\* The cached policy, once loaded, registers the client.
InitializeForSignedInUser(s) ==
    /\ LET registered == IF core.connected THEN core.registered
                         ELSE store.policy # NoPolicy
           completed == IF store.loaded THEN OnInitializationCompleted(s, registered)
                        ELSE ProhibitSignoutIfNeeded(s, registered)
       IN  IF s.account = "consumer" THEN signin' = s /\ UNCHANGED <<core, inv>>
           ELSE /\ signin' = completed
                /\ IF core.connected THEN UNCHANGED <<core, inv>> ELSE Connect(registered)
    /\ UNCHANGED <<store, fetch, wanted, published, sent, serviceUp, rc>>

\* Faulty variant: whatever is registering for the user goes on.
PrepareForShutdown_KeepHelper(s) == s
PrepareForShutdown(s) == [s EXCEPT !.helper = "none"]

\* DisconnectAndRemovePolicy: the observers hear of it first.
ShutdownUserCloudPolicyManager(s) ==
    /\ signin' = [PrepareForShutdown(s) EXCEPT !.prohibited = FALSE]
    /\ core' = Disconnected
    /\ inv' = OnCoreDisconnecting(inv)
    /\ rc' = Stop(rc)
    /\ store' = [loaded |-> TRUE, policy |-> NoPolicy, version |-> 0, recent |-> FALSE]
    /\ fetch' = NoFetch /\ wanted' = FALSE
    /\ UNCHANGED <<published, sent, serviceUp>>

\* The store has a new policy and tells those who observe it.
StoreBecomes(new) ==
    /\ store' = new
    /\ inv' = IF inv.state = "STARTED" THEN OnStoreLoaded(inv, new) ELSE inv
    /\ rc' = ReloadPolicyData(rc, new.policy)

-----------------------------------------------------------------------------
(* Start-up and the account *)

\* The policy cached on disk, if any, has been read.
StoreLoads ==
    /\ ~store.loaded
    /\ \E policy \in {NoPolicy, 0} :
          LET registered == core.connected /\ (core.registered \/ policy # NoPolicy)
          IN  /\ StoreBecomes([store EXCEPT !.loaded = TRUE, !.policy = policy])
              /\ core' = [core EXCEPT !.registered = registered]
              /\ signin' = IF core.connected
                           THEN OnInitializationCompleted(signin, registered) ELSE signin
    /\ UNCHANGED <<fetch, wanted, published, sent, serviceUp>>

InitializeOnProfileReady ==
    /\ ~signin.ready
    /\ LET ready == [signin EXCEPT !.ready = TRUE]
       IN  IF signin.account = "none" THEN ShutdownUserCloudPolicyManager(ready)
           ELSE InitializeForSignedInUser(ready)

\* Loaded at start-up, or new after sign-in or another authentication.
OnRefreshTokenAvailable ==
    /\ signin.account # "none"
    /\ InitializeForSignedInUser([signin EXCEPT !.token = TRUE])

\* The sign-in flow first asks whether the account has policy at all.
RegisterForPolicy ==
    /\ signin.ready /\ signin.account = "none" /\ ~core.connected /\ ~signin.dmToken
    /\ signin' = [signin EXCEPT !.helper = "trial"]
    /\ UNCHANGED <<coreVars, inv, rc>>

\* An account without policy gets no token and signs in all the same.
CallPolicyRegistrationCallback ==
    /\ signin.helper = "trial"
    /\ \E dmToken \in BOOLEAN :
          signin' = [signin EXCEPT !.helper = "none", !.dmToken = dmToken,
                                   !.account = IF dmToken THEN @ ELSE "enterprise"]
    /\ UNCHANGED <<coreVars, inv, rc>>

\* With the registration of the trial the policy is fetched ahead of sign-in.
FetchPolicyForSignedInUser ==
    /\ signin.dmToken
    /\ signin' = ProhibitSignoutIfNeeded(
                     [signin EXCEPT !.dmToken = FALSE, !.account = "enterprise"], TRUE)
    /\ Connect(TRUE)
    /\ wanted' = TRUE
    /\ UNCHANGED <<store, fetch, published, sent, serviceUp, rc>>

SignInConsumer ==
    /\ signin.ready /\ signin.account = "none" /\ ~signin.dmToken
    /\ signin.helper = "none"
    /\ signin' = [signin EXCEPT !.account = "consumer"]
    /\ UNCHANGED <<coreVars, inv, rc>>

\* The DM token, or none, has come for the core's client, which then has the
\* scheduler fetch its policy.
OnRegistrationComplete ==
    /\ signin.helper = "core"
    /\ \E registered \in BOOLEAN :
          /\ core' = [core EXCEPT !.registered = registered]
          /\ wanted' = (wanted \/ registered)
          /\ signin' = [ProhibitSignoutIfNeeded(signin, registered) EXCEPT !.helper = "none"]
    /\ UNCHANGED <<store, fetch, published, sent, serviceUp, inv, rc>>

GoogleSignedOut ==
    /\ signin.account # "none" /\ signin.ready /\ ~signin.prohibited
    /\ ShutdownUserCloudPolicyManager([signin EXCEPT !.account = "none", !.token = FALSE])

-----------------------------------------------------------------------------
(* Answers of the server *)

\* DM_STATUS_SERVICE_MANAGEMENT_NOT_SUPPORTED: the account has no policy any more.
\* The service is in a callback of the client it will destroy.
OnClientError ==
    /\ fetch.running /\ ~signin.posted
    /\ fetch' = NoFetch
    /\ signin' = [signin EXCEPT !.posted = TRUE]
    /\ UNCHANGED <<core, store, wanted, published, sent, serviceUp, inv, rc>>

RunPostedShutdown ==
    /\ signin.posted
    /\ ShutdownUserCloudPolicyManager([signin EXCEPT !.posted = FALSE])

OnPolicyFetched ==
    /\ fetch.running
    /\ StoreBecomes([loaded |-> TRUE, policy |-> fetch.content,
                     version |-> fetch.version, recent |-> TRUE])
    /\ fetch' = NoFetch
    /\ UNCHANGED <<core, wanted, published, sent, serviceUp, signin>>

-----------------------------------------------------------------------------
(* The rest of the profile *)

\* The administrator's remote commands are a service of the core's own.
StartRemoteCommandsService ==
    /\ core.connected /\ ~core.remote
    /\ core' = [core EXCEPT !.remote = TRUE]
    /\ rc' = IF rc.state = "STOPPED" THEN Start(rc) ELSE rc
    /\ UNCHANGED <<store, fetch, wanted, published, sent, serviceUp, inv, signin>>

ServiceChanges ==
    /\ serviceUp' = ~serviceUp
    /\ inv' = IF inv.state = "STARTED" /\ Registered(inv)
              THEN OnInvalidatorStateChange(inv, serviceUp') ELSE inv
    /\ rc' = IF rc.object # NoObject THEN RcOnInvalidatorStateChange(rc, serviceUp') ELSE rc
    /\ UNCHANGED <<core, store, fetch, wanted, published, sent, signin>>

\* Keyed services go before those they depend on; a posted task finds no service.
ShutdownProfile ==
    /\ signin' = [signin EXCEPT !.ready = TRUE, !.account = "none", !.token = FALSE,
                     !.helper = "none", !.dmToken = FALSE, !.posted = FALSE,
                     !.prohibited = FALSE, !.down = TRUE]
    /\ inv' = Destroyed
    /\ rc' = ShutdownRemote(rc)
    /\ core' = Disconnected
    /\ fetch' = NoFetch /\ wanted' = FALSE
    /\ UNCHANGED <<store, published, sent, serviceUp>>

Refreshes == RefreshPolicy /\ UNCHANGED <<core, store, fetch, published, sent,
                                          serviceUp, rc, signin>>
ScheduledFetch == wanted /\ FetchPolicy(inv.clientVersion)
RegularFetch == ~wanted /\ FetchPolicy(inv.clientVersion)
Fetches == (ScheduledFetch \/ RegularFetch) /\ UNCHANGED <<inv, rc, signin>>

Server == /\ (\E kind \in Kinds : Publish(kind)) \/ FetchFails \/ PolicyAges
          /\ UNCHANGED <<inv, rc, signin>>

Invalidators ==
    \/ Initialize /\ InitializeRemote /\ UNCHANGED <<coreVars, signin>>
    \/ OnIncomingInvalidation /\ UNCHANGED <<coreVars, rc, signin>>
    \/ Refreshes

Next ==
    /\ ~signin.down
    /\ \/ StoreLoads \/ InitializeOnProfileReady \/ OnRefreshTokenAvailable
       \/ RegisterForPolicy \/ CallPolicyRegistrationCallback
       \/ FetchPolicyForSignedInUser \/ SignInConsumer \/ OnRegistrationComplete
       \/ GoogleSignedOut \/ OnClientError \/ RunPostedShutdown \/ OnPolicyFetched
       \/ StartRemoteCommandsService \/ ServiceChanges \/ ShutdownProfile
       \/ Server \/ Invalidators \/ Fetches

\* Tasks run; the scheduler fetches when told to, and not every fetch fails.
Fairness ==
    /\ WF_vars(~signin.down /\ Refreshes)
    /\ WF_vars(~signin.down /\ RunPostedShutdown)
    /\ WF_vars(~signin.down /\ ScheduledFetch /\ UNCHANGED <<inv, rc, signin>>)
    /\ SF_vars(~signin.down /\ OnPolicyFetched)

Spec == Init /\ [][Next]_vars /\ Fairness

-----------------------------------------------------------------------------
(* Properties *)

TypeOK == /\ CoreTypeOK
          /\ inv \in InvalidatorType /\ rc \in RemoteType /\ signin \in SigninType

\* Between Initialize and Shutdown the invalidator runs exactly while the core
\* is connected, for the object of the stored policy, and the refresh scheduler
\* knows whether invalidations arrive; a scheduled refresh is for the pending
\* invalidation, which is one of the registered object.
InvalidatorFollowsCore ==
    /\ inv.state = "STARTED" => /\ core.connected
                                /\ inv.object = ObjectOf(store.policy)
                                /\ inv.available = (serviceUp /\ Registered(inv))
    /\ inv.state = "STOPPED" => ~core.connected /\ ~Registered(inv) /\ ~inv.available
    /\ inv.refresh # "none" => Invalid(inv)
    /\ inv.state = "STARTED" /\ Invalid(inv) =>
          Registered(inv) /\ inv.pending.object = inv.object

RemoteFollowsCore ==
    /\ rc.state = "STARTED" => /\ core.remote
                               /\ rc.object = ObjectOf(store.policy)
                               /\ rc.enabled = (serviceUp /\ rc.object # NoObject)
    /\ rc.state = "STOPPED" => ~core.remote /\ rc.object = NoObject

\* Signing out is prohibited just while there is policy to be removed first; a
\* shutdown that was posted finds the very registration that it was posted for;
\* and nothing registers a client of the core that is gone or has its token.
SigninFollowsCore ==
    ~signin.down =>
        /\ signin.prohibited = core.registered
        /\ signin.posted => core.registered
        /\ signin.helper = "core" => core.connected /\ ~core.registered
        /\ signin.account = "none" /\ signin.ready =>
              ~core.connected /\ store.policy = NoPolicy

\* UserPolicySigninService, the two invalidators and the core agree in all this
\* after every step (SetInvalidationServiceAvailability, ProhibitSignout).
PolicyConsistent ==
    TypeOK /\ InvalidatorFollowsCore /\ RemoteFollowsCore /\ SigninFollowsCore

\* An invalidation is acknowledged only when the policy it announced is stored,
\* or another one is pending that will bring it (HandleInvalidation,
\* OnStoreLoaded).  Two kinds of invalidation are left out (excused), for the code
\* does lose their changes: what IsInvalidationExpired takes for old, with the
\* pending one that it ends; and those without a version that
\* OnIncomingInvalidation acknowledges beside one that it does not fetch for.
NoChangeForgotten ==
    inv.state = "STARTED" /\ Registered(inv) /\ ~Invalid(inv) =>
        \A i \in inv.acked \ inv.excused : store.policy >= i.change

\* A pending invalidation is settled by the fetch it caused, or by a later one,
\* unless the profile goes.
InvalidationsSettle == Invalid(inv) ~> (~Invalid(inv) \/ signin.down)
=============================================================================
