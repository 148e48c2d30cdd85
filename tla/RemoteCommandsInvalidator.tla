------------------------ MODULE RemoteCommandsInvalidator ------------------------
(***************************************************************************)
(* RemoteCommandsInvalidator and its Impl (remote_commands_invalidator.cc, *)
(* remote_commands_invalidator_impl.cc): an observer of the same core,     *)
(* store and invalidation service, which has commands fetched at once and  *)
(* keeps nothing pending: OnIncomingInvalidation changes no state here.    *)
(* The object of a policy's commands is numbered like the policy's.        *)
(***************************************************************************)
EXTENDS PolicyCore

VARIABLE rc  \* the invalidator

RemoteType ==
    [state          : {"SHUT_DOWN", "STOPPED", "STARTED"},
     object         : Objects \cup {NoObject},  \* object_id_, if is_registered_
     serviceEnabled : BOOLEAN,           \* invalidation_service_enabled_
     enabled        : BOOLEAN]           \* invalidations_enabled_

RemoteInit ==
    rc = [state |-> "SHUT_DOWN", object |-> NoObject,
          serviceEnabled |-> FALSE, enabled |-> FALSE]

RcUpdateInvalidationsEnabled(s) ==
    [s EXCEPT !.enabled = s.serviceEnabled /\ s.object # NoObject]
RcOnInvalidatorStateChange(s, up) ==
    RcUpdateInvalidationsEnabled([s EXCEPT !.serviceEnabled = up])
RcRegister(s, object) ==
    LET listening == IF s.object = NoObject THEN RcOnInvalidatorStateChange(s, serviceUp)
                     ELSE s
    IN  RcUpdateInvalidationsEnabled([listening EXCEPT !.object = object])
RcUnregister(s) == RcUpdateInvalidationsEnabled([s EXCEPT !.object = NoObject])

ReloadPolicyData(s, policy) ==
    IF s.state # "STARTED" THEN s
    ELSE IF ObjectOf(policy) = NoObject THEN RcUnregister(s)
    ELSE IF s.object = ObjectOf(policy) THEN s
    ELSE RcRegister(s, ObjectOf(policy))

Start(s) == ReloadPolicyData([s EXCEPT !.state = "STARTED"], store.policy)

Stop(s) == IF s.state = "STARTED" THEN [RcUnregister(s) EXCEPT !.state = "STOPPED"] ELSE s

InitializeRemote ==
    /\ rc.state = "SHUT_DOWN"
    /\ LET stopped == [rc EXCEPT !.state = "STOPPED"]
       IN  rc' = IF core.remote THEN Start(stopped) ELSE stopped

ShutdownRemote(s) == IF s.state = "SHUT_DOWN" THEN s
                     ELSE [Stop(s) EXCEPT !.state = "SHUT_DOWN"]

=============================================================================
