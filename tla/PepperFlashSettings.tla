------------------------- MODULE PepperFlashSettings --------------------------
(***************************************************************************)
(* PepperFlashSettingsManager and its Core: a manager on the UI thread     *)
(* hands requests to a core on the IO thread, which opens a channel to a   *)
(* broker process, queues the requests until it is open, and answers each  *)
(* of them through a task on the UI thread.  When anything fails the core  *)
(* answers everything it has with a failure and the manager drops it; the  *)
(* next request makes a new core.                                          *)
(*                                                                         *)
(* The six kinds of request differ in their data only, and are one here.   *)
(* A client may call the manager, or delete it, from inside an answer: a   *)
(* call between two answers of one error task is such a call.  The removal *)
(* of the old device id file on Chrome OS is left out.                     *)
(***************************************************************************)
EXTENDS Naturals, Sequences, SequencesExt

CONSTANT MaxRequests    \* bound: requests the client makes

ASSUME BoundAssumption == MaxRequests \in Nat

VARIABLES
    alive,        \* the manager exists
    made,         \* next_request_id_ - 1
    core,         \* core_: the manager's core, or 0
    cores,        \* cores made so far
    ui, io,       \* tasks posted to the two threads
    state,        \* Core::state_
    connecting,   \* cores whose OpenChannelToBroker has not called back
    channel,      \* channel_: none, open or broken
    queued,       \* pending_requests_
    unreplied,    \* pending_responses_
    sent,         \* history: the requests the broker got from each core
    replied,      \* requests the broker replied to
    answers       \* history: how often the client was told of each request

manager == <<alive, made, core, cores>>
broker == <<connecting, channel, sent, replied>>
work == <<state, queued, unreplied>>
vars == <<manager, ui, io, work, broker, answers>>

Requests == 1..MaxRequests
Cores == 1..MaxRequests

\* An error task holds the requests it still has to answer.
UiTasks == [kind : {"error", "completed"}, core : Cores, ids : SUBSET Requests]
IoTasks == [kind : {"initialize", "request", "detach"}, core : Cores, id : 0..MaxRequests]
ErrorTask(c, ids) == [kind |-> "error", core |-> c, ids |-> ids]
IoTask(k, c, r) == [kind |-> k, core |-> c, id |-> r]

\* Requests wait for a channel, and are sent on one.
TypeOK ==
    /\ alive \in BOOLEAN
    /\ made \in 0..MaxRequests
    /\ core \in 0..cores /\ cores \in 0..MaxRequests
    /\ ui \in Seq(UiTasks) /\ io \in Seq(IoTasks)
    /\ state \in [Cores -> {"uninitialized", "initialized", "error", "detached"}]
    /\ connecting \subseteq Cores
    /\ channel \in [Cores -> {"none", "open", "broken"}]
    /\ queued \in [Cores -> Seq(Requests)]
    /\ unreplied \in [Cores -> SUBSET Requests]
    /\ sent \in [Cores -> Seq(Requests)]
    /\ replied \subseteq Requests
    /\ answers \in [Requests -> 0..MaxRequests]
    /\ \A c \in Cores : /\ state[c] = "initialized" => channel[c] # "none" /\ queued[c] = <<>>
                        /\ state[c] = "uninitialized" => unreplied[c] = {}

Init ==
    /\ alive = TRUE /\ made = 0 /\ core = 0 /\ cores = 0
    /\ ui = <<>> /\ io = <<>>
    /\ state = [c \in Cores |-> "uninitialized"]
    /\ connecting = {}
    /\ channel = [c \in Cores |-> "none"]
    /\ queued = [c \in Cores |-> <<>>]
    /\ unreplied = [c \in Cores |-> {}]
    /\ sent = [c \in Cores |-> <<>>]
    /\ replied = {}
    /\ answers = [r \in Requests |-> 0]

-----------------------------------------------------------------------------
(* The manager, on the UI thread.                                             *)

\* The first request of a core posts its initialization before itself.
EnsureCoreExists ==
    IF core # 0
      THEN /\ UNCHANGED <<core, cores>>
           /\ io' = Append(io, IoTask("request", core, made + 1))
      ELSE /\ core' = cores + 1
           /\ cores' = cores + 1
           /\ io' = io \o << IoTask("initialize", cores + 1, 0),
                             IoTask("request", cores + 1, made + 1) >>

MakeRequest ==
    /\ alive
    /\ made < MaxRequests
    /\ made' = made + 1
    /\ EnsureCoreExists
    /\ UNCHANGED <<alive, ui, work, broker, answers>>

\* The reference a Detach task holds is the last one until it has run.
\* Faulty variant: the manager only lets go of its core.
Detach_NotPosted == UNCHANGED io
Detach == io' = Append(io, IoTask("detach", core, 0))

DestroyManager ==
    /\ alive
    /\ alive' = FALSE
    /\ IF core = 0 THEN UNCHANGED io ELSE Detach
    /\ core' = 0
    /\ UNCHANGED <<made, cores, ui, work, broker, answers>>

-----------------------------------------------------------------------------
(* The core, on the IO thread.                                                *)

\* NotifyErrorFromIOThread, with a request that was about to be sent.
\* Faulty variant: requests that were sent are kept for their reply.
NotifyErrorFromIOThread_KeepsSent(c, ids) ==
    IF state[c] = "detached"
      THEN UNCHANGED <<work, ui>>
      ELSE /\ state' = [state EXCEPT ![c] = "error"]
           /\ ui' = Append(ui, ErrorTask(c, Range(queued[c]) \cup unreplied[c] \cup ids))
           /\ queued' = [queued EXCEPT ![c] = <<>>]
           /\ UNCHANGED unreplied
NotifyErrorFromIOThread(c, ids) ==
    IF state[c] = "detached"
      THEN UNCHANGED <<work, ui>>
      ELSE /\ state' = [state EXCEPT ![c] = "error"]
           /\ ui' = Append(ui, ErrorTask(c, Range(queued[c]) \cup unreplied[c] \cup ids))
           /\ queued' = [queued EXCEPT ![c] = <<>>]
           /\ unreplied' = [unreplied EXCEPT ![c] = {}]

NextIoTask(kind) == io # <<>> /\ Head(io).kind = kind /\ io' = Tail(io)

\* Pepper Flash may not be in use; otherwise a channel is asked for.
InitializeOnIOThread ==
    /\ NextIoTask("initialize")
    /\ LET c == Head(io).core
       IN \/ /\ NotifyErrorFromIOThread(c, {})
             /\ UNCHANGED broker
          \/ /\ connecting' = connecting \cup {c}
             /\ UNCHANGED <<work, ui, channel, sent, replied>>
    /\ UNCHANGED <<manager, answers>>

QueueRequest(c, r) ==
    /\ state[c] = "uninitialized"
    /\ queued' = [queued EXCEPT ![c] = Append(@, r)]
    /\ UNCHANGED <<ui, state, unreplied, sent>>

SendRequest(c, r) ==
    /\ state[c] = "initialized"
    /\ unreplied' = [unreplied EXCEPT ![c] = @ \cup {r}]
    /\ sent' = [sent EXCEPT ![c] = Append(@, r)]
    /\ UNCHANGED <<ui, state, queued>>

\* The core has failed before, or sending fails.
\* Faulty variant: a request to a core that failed before is not answered.
FailRequest_Forgotten(c, r) ==
    IF state[c] = "initialized"
      THEN NotifyErrorFromIOThread(c, {r}) /\ UNCHANGED sent
      ELSE state[c] = "error" /\ UNCHANGED <<ui, work, sent>>
FailRequest(c, r) ==
    /\ state[c] \in {"initialized", "error"}
    /\ NotifyErrorFromIOThread(c, {r})
    /\ UNCHANGED sent

HandleRequest ==
    /\ NextIoTask("request")
    /\ LET c == Head(io).core
           r == Head(io).id
       IN QueueRequest(c, r) \/ SendRequest(c, r) \/ FailRequest(c, r)
    /\ UNCHANGED <<manager, connecting, channel, replied, answers>>

\* The queued requests are sent in order.  When sending fails, the ones sent
\* so far fail with it, and every later one fails on its own.
\* Faulty variant: the last request is taken first.
SendQueued_Reversed(c) ==
    /\ sent' = [sent EXCEPT ![c] = Reverse(queued[c])]
    /\ unreplied' = [unreplied EXCEPT ![c] = Range(queued[c])]
    /\ state' = [state EXCEPT ![c] = "initialized"]
    /\ UNCHANGED ui
SendQueued(c) ==
    \/ /\ sent' = [sent EXCEPT ![c] = queued[c]]
       /\ unreplied' = [unreplied EXCEPT ![c] = Range(queued[c])]
       /\ state' = [state EXCEPT ![c] = "initialized"]
       /\ UNCHANGED ui
    \/ \E n \in 1..Len(queued[c]) :
         /\ sent' = [sent EXCEPT ![c] = SubSeq(queued[c], 1, n - 1)]
         /\ state' = [state EXCEPT ![c] = "error"]
         /\ ui' = ui \o <<ErrorTask(c, Range(SubSeq(queued[c], 1, n)))>>
                     \o [i \in 1..(Len(queued[c]) - n) |-> ErrorTask(c, {queued[c][n + i]})]
         /\ UNCHANGED unreplied

\* Faulty variant: a connection that fails only changes the state.
ConnectFails_Quiet(c) ==
    /\ state' = [state EXCEPT ![c] = "error"]
    /\ UNCHANGED <<ui, queued, unreplied, channel, sent>>
ConnectFails(c) ==
    /\ NotifyErrorFromIOThread(c, {})
    /\ UNCHANGED <<channel, sent>>

Connects(c) ==
    /\ channel' = [channel EXCEPT ![c] = "open"]
    /\ SendQueued(c)
    /\ queued' = [queued EXCEPT ![c] = <<>>]

ConnectToChannel(c) ==
    /\ c \in connecting
    /\ connecting' = connecting \ {c}
    /\ IF state[c] = "detached"
         THEN UNCHANGED <<ui, work, channel, sent>>
         ELSE ConnectFails(c) \/ Connects(c)
    /\ UNCHANGED <<manager, io, replied, answers>>

\* A result for a request that waits for one completes it.
OnResult(c) ==
    /\ channel[c] = "open"
    /\ \E r \in Range(sent[c]) \ replied :
         /\ replied' = replied \cup {r}
         /\ IF state[c] = "detached" \/ r \notin unreplied[c]
              THEN UNCHANGED <<unreplied, ui>>
              ELSE /\ unreplied' = [unreplied EXCEPT ![c] = @ \ {r}]
                   /\ ui' = Append(ui, [kind |-> "completed", core |-> c, ids |-> {r}])
    /\ UNCHANGED <<manager, io, state, queued, connecting, channel, sent, answers>>

OnChannelError(c) ==
    /\ channel[c] = "open"
    /\ channel' = [channel EXCEPT ![c] = "broken"]
    /\ NotifyErrorFromIOThread(c, {})
    /\ UNCHANGED <<manager, io, connecting, sent, replied, answers>>

DetachOnIOThread ==
    /\ NextIoTask("detach")
    /\ state' = [state EXCEPT ![Head(io).core] = "detached"]
    /\ UNCHANGED <<manager, ui, queued, unreplied, broker, answers>>

-----------------------------------------------------------------------------
(* Answers, on the UI thread.                                                 *)

Told(r) == answers' = [answers EXCEPT ![r] = @ + 1]

NotifyCompleted ==
    /\ ui # <<>> /\ Head(ui).kind = "completed"
    /\ ui' = Tail(ui)
    /\ IF alive THEN \E r \in Head(ui).ids : Told(r) ELSE UNCHANGED answers
    /\ UNCHANGED <<manager, io, work, broker>>

\* One turn of NotifyError's loop; the manager is looked at on each turn.
\* Faulty variant: it is looked at only before the first.
NotifyError_CheckedOnce ==
    /\ ui # <<>> /\ Head(ui).kind = "error"
    /\ \E r \in Head(ui).ids :
         /\ Told(r)
         /\ ui' = [ui EXCEPT ![1].ids = @ \ {r}]
    /\ UNCHANGED <<manager, io, work, broker>>
NotifyError ==
    /\ ui # <<>> /\ Head(ui).kind = "error"
    /\ alive
    /\ \E r \in Head(ui).ids :
         /\ Told(r)
         /\ ui' = [ui EXCEPT ![1].ids = @ \ {r}]
    /\ UNCHANGED <<manager, io, work, broker>>

\* The manager forgets the core that failed, unless it has another by now.
\* Faulty variant: the core is detached and kept.
OnError_Kept(c) ==
    IF c = core THEN UNCHANGED core /\ Detach ELSE UNCHANGED <<core, io>>
OnError(c) ==
    IF c = core THEN core' = 0 /\ Detach ELSE UNCHANGED <<core, io>>

EndOfError ==
    /\ ui # <<>> /\ Head(ui).kind = "error"
    /\ ~alive \/ Head(ui).ids = {}
    /\ ui' = Tail(ui)
    /\ IF alive THEN OnError(Head(ui).core) ELSE UNCHANGED <<core, io>>
    /\ UNCHANGED <<alive, made, cores, work, broker, answers>>

-----------------------------------------------------------------------------
ClientStep == MakeRequest \/ DestroyManager
UiStep == NotifyCompleted \/ NotifyError \/ EndOfError
IoStep == InitializeOnIOThread \/ HandleRequest \/ DetachOnIOThread
BrokerStep(c) == OnResult(c) \/ OnChannelError(c)

Next ==
    \/ ClientStep \/ UiStep \/ IoStep
    \/ \E c \in Cores : ConnectToChannel(c) \/ BrokerStep(c)

Spec == Init /\ [][Next]_vars

\* Both threads run their tasks, opening a channel ends, and a broker that owes
\* a reply sends it or dies.
Owes(c) == Range(sent[c]) \ replied # {}
FairSpec ==
    /\ Spec
    /\ WF_vars(UiStep)
    /\ WF_vars(IoStep)
    /\ \A c \in Cores : /\ WF_vars(ConnectToChannel(c))
                        /\ WF_vars(Owes(c) /\ BrokerStep(c))

-----------------------------------------------------------------------------
(* Properties.                                                                *)

\* A request is answered at most once, although a reply, a channel error and a
\* failing send may all be on their way for it (pending_responses_ is cleared
\* with the error and looked up for a reply).
AnsweredOnce == \A r \in Requests : answers[r] <= 1

\* While the manager lives, a request it accepted and did not answer yet is in
\* one of the places that lead to an answer, and its core is not detached unless
\* the answer is already posted: no race of request, error and detach loses one.
InIo(r) == \E i \in DOMAIN io : io[i].kind = "request" /\ io[i].id = r
InUi(r) == \E i \in DOMAIN ui : r \in ui[i].ids
HeldBy(c, r) == state[c] # "detached" /\ (r \in Range(queued[c]) \/ r \in unreplied[c])
NothingLost ==
    alive => \A r \in 1..made :
               answers[r] = 0 => InIo(r) \/ InUi(r) \/ \E c \in Cores : HeldBy(c, r)

\* "Afterwards, no method should be called any more": neither a request nor the
\* initialization meets a core that was detached (the DCHECK_NEs of the handlers).
NoCallAfterDetach ==
    \A i \in DOMAIN io :
      io[i].kind # "detach" =>
        /\ state[io[i].core] # "detached"
        /\ \A j \in 1..(i - 1) : ~(io[j].kind = "detach" /\ io[j].core = io[i].core)

\* The comment in Detach: a core that handlers on the IO thread may still take a
\* reference to has one, so its count never leaves zero again.
Referenced(c) ==
    \/ core = c
    \/ c \in connecting
    \/ \E i \in DOMAIN io : io[i].core = c
    \/ \E i \in DOMAIN ui : ui[i].core = c
UnreferencedIsDetached ==
    \A c \in 1..cores : Referenced(c) \/ state[c] = "detached"

\* From detaching on a core is on its way out: no handler is called on it, and a
\* core that is not detached is kept alive (Detach, Initialize, OnError).
DetachIsLast == TypeOK /\ NoCallAfterDetach /\ UnreferencedIsDetached

\* The broker gets the requests of a core in the order in which they were made,
\* those that waited for the channel and those that did not: a reader of the
\* settings finds what was written before.
SentInOrder ==
    \A c \in Cores : \A i, j \in DOMAIN sent[c] : i < j => sent[c][i] < sent[c][j]

\* "It is guaranteed that |client| won't receive any notifications after this
\* object goes away", in the middle of a list of failures too.
SilentAfterwards == [][~alive => UNCHANGED answers]_vars

\* Every request is answered, unless the manager is destroyed before.
EveryRequestAnswered ==
    \A r \in Requests : (made >= r) ~> (answers[r] > 0 \/ ~alive)
=============================================================================
