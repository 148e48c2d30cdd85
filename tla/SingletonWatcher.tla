--------------------------- MODULE SingletonWatcher ---------------------------
(***************************************************************************)
(* How the browser that owns the singleton serves starts: LinuxWatcher and *)
(* its SocketReaders on the IO thread, HandleMessage on the UI thread, and *)
(* the callbacks behind it, ProcessSingletonModalDialogLock around         *)
(* ProcessSingletonStartupLock around the browser's own.  It details the   *)
(* NotificationCallback step of ProcessSingleton.                          *)
(*                                                                         *)
(* An action is one task on one of the two threads.  File descriptors are  *)
(* modelled because a number that was closed may be given out again.       *)
(* Partial reads only add to a reader's buffer and are left out, and so is *)
(* the truncation of requests beyond kMaxMessageLength.                    *)
(***************************************************************************)
EXTENDS Naturals, Sequences, SequencesExt

CONSTANTS
    MaxConns,     \* bound: connections, numbered in the order they are accepted
    MaxFd,        \* bound: descriptors 1..MaxFd for accepted connections
    Requests,     \* command lines with their directory
    Closed        \* a descriptor that is not open

Conns == 1..MaxConns
Fds == 1..MaxFd

ASSUME WatcherBoundsAssumption == MaxConns \in Nat /\ MaxFd \in Nat \ {0}
ASSUME ClosedAssumption == Closed \notin Conns

VARIABLES
    socket,       \* socket[fd]: the connection open as fd
    fd,           \* fd_ of each reader
    input,        \* what read() would find on a connection
    request,      \* the request a connection carries
    readers,      \* readers_: the SocketReaders that exist
    timers,       \* readers whose timer_ runs
    watched,      \* readers with a fd_watch_controller_
    uiTasks,      \* posted HandleMessage tasks, by reader
    ioTasks,      \* posted RemoveSocketReader tasks, by reader
    locked, saved,   \* ProcessSingletonStartupLock
    dialog,       \* a modal dialog is active
    closing,      \* the browser shuts down
    answer,       \* what was written on a connection
    opened,       \* history: requests the browser opened, in order
    shown         \* history: connections for which the dialog was brought up

io == <<socket, fd, input, request, readers, timers, watched>>
ui == <<locked, saved, dialog, closing, opened, shown>>
watcherVars == <<io, uiTasks, ioTasks, ui, answer>>

WatcherTypeOK ==
    /\ socket \in [Fds -> Conns \cup {Closed}]
    /\ fd \in [Conns -> Fds]
    /\ input \in [Conns -> {"unborn", "waiting", "valid", "invalid", "error"}]
    /\ request \in [Conns -> Requests]
    /\ readers \subseteq Conns /\ timers \subseteq Conns /\ watched \subseteq Conns
    /\ uiTasks \in Seq(Conns) /\ ioTasks \in Seq(Conns)
    /\ locked \in BOOLEAN /\ saved \in Seq(Requests)
    /\ dialog \in BOOLEAN /\ closing \in BOOLEAN
    /\ answer \in [Conns -> {"none", "ack", "shutdown"}]
    /\ opened \in Seq(Requests)
    /\ shown \subseteq Conns

WatcherInit ==
    /\ socket = [f \in Fds |-> Closed]
    /\ fd = [c \in Conns |-> 1]
    /\ input = [c \in Conns |-> "unborn"]
    /\ request \in [Conns -> Requests]
    /\ readers = {} /\ timers = {} /\ watched = {}
    /\ uiTasks = <<>> /\ ioTasks = <<>>
    /\ locked = TRUE /\ saved = <<>>
    /\ dialog = FALSE /\ closing = FALSE
    /\ answer = [c \in Conns |-> "none"]
    /\ opened = <<>> /\ shown = {}

-----------------------------------------------------------------------------
(* The IO thread.                                                             *)

\* LinuxWatcher::OnSocketCanReadWithoutBlocking accepts a client on the
\* lowest free descriptor; the reader starts its watch and its timer.
Accept(c) ==
    /\ input[c] = "unborn"
    /\ \A d \in 1..(c - 1) : input[d] # "unborn"
    /\ \E f \in Fds : /\ socket[f] = Closed
                      /\ \A g \in 1..(f - 1) : socket[g] # Closed
                      /\ socket' = [socket EXCEPT ![f] = c]
                      /\ fd' = [fd EXCEPT ![c] = f]
    /\ input' = [input EXCEPT ![c] = "waiting"]
    /\ readers' = readers \cup {c}
    /\ timers' = timers \cup {c}
    /\ watched' = watched \cup {c}
    /\ UNCHANGED <<request, uiTasks, ioTasks, ui, answer>>

\* The client sends its request and shuts down its side, sends something else,
\* or is killed with our bytes unread (ECONNRESET).
Arrive(c) ==
    /\ input[c] = "waiting"
    /\ \E kind \in {"valid", "invalid", "error"} : input' = [input EXCEPT ![c] = kind]
    /\ UNCHANGED <<socket, fd, request, readers, timers, watched, uiTasks, ioTasks, ui, answer>>

\* ~SocketReader closes fd_, whatever is open there, and stops timer and watch.
CloseSocket(f) == socket' = [socket EXCEPT ![f] = Closed]
\* Faulty variant: the descriptor is leaked.
RemoveSocketReader_Leak(c) ==
    /\ readers' = readers \ {c}
    /\ timers' = timers \ {c}
    /\ watched' = watched \ {c}
    /\ UNCHANGED socket
RemoveSocketReader(c) ==
    /\ CloseSocket(fd[c])
    /\ readers' = readers \ {c}
    /\ timers' = timers \ {c}
    /\ watched' = watched \ {c}

\* A whole request goes to the UI thread; the timer is stopped so that the
\* reader lives until it is answered.
\* Faulty variant: the timer keeps running.
PostMessage_TimerKept(c) ==
    /\ uiTasks' = Append(uiTasks, c)
    /\ watched' = watched \ {c}
    /\ UNCHANGED <<timers, readers, socket>>
PostMessage(c) ==
    /\ uiTasks' = Append(uiTasks, c)
    /\ timers' = timers \ {c}
    /\ watched' = watched \ {c}
    /\ UNCHANGED <<readers, socket>>

\* SocketReader::OnSocketCanReadWithoutBlocking.
Read(c) ==
    /\ c \in watched
    /\ socket[fd[c]] = c
    /\ \/ /\ input[c] = "error"              \* the reader stays, and its timer
          /\ CloseSocket(fd[c])
          /\ UNCHANGED <<readers, timers, watched, uiTasks>>
       \/ /\ input[c] = "invalid"
          /\ RemoveSocketReader(c)
          /\ UNCHANGED uiTasks
       \/ /\ input[c] = "valid"
          /\ PostMessage(c)
    /\ UNCHANGED <<fd, input, request, ioTasks, ui, answer>>

\* timer_: CleanupAndDeleteSelf.
TimerFires(c) ==
    /\ c \in timers
    /\ RemoveSocketReader(c)
    /\ UNCHANGED <<fd, input, request, uiTasks, ioTasks, ui, answer>>

\* The posted removal after an answer.
RunIoTask ==
    /\ ioTasks # <<>>
    /\ RemoveSocketReader(Head(ioTasks))
    /\ ioTasks' = Tail(ioTasks)
    /\ UNCHANGED <<fd, input, request, uiTasks, ui, answer>>

-----------------------------------------------------------------------------
(* The UI thread.                                                             *)

\* The callback chain: an active dialog takes every request, the startup lock
\* saves it, else the browser opens it unless it shuts down.
Notify(c) ==
    \/ /\ dialog
       /\ shown' = shown \cup {c}
       /\ UNCHANGED <<saved, opened>>
    \/ /\ ~dialog /\ locked
       /\ saved' = Append(saved, request[c])
       /\ UNCHANGED <<opened, shown>>
    \/ /\ ~dialog /\ ~locked
       /\ opened' = IF closing THEN opened ELSE Append(opened, request[c])
       /\ UNCHANGED <<saved, shown>>
Refused == ~dialog /\ ~locked /\ closing

\* The answer is written to whatever is open on the reader's descriptor.
FinishWithACK(c, message) ==
    answer' = [d \in Conns |-> IF d = socket[fd[c]] THEN message ELSE answer[d]]

\* LinuxWatcher::HandleMessage; FinishWithACK posts the removal of the reader.
\* Faulty variant: only accepted requests are answered.
HandleMessage_AckOnly ==
    /\ uiTasks # <<>>
    /\ LET c == Head(uiTasks)
       IN /\ Notify(c)
          /\ IF Refused THEN UNCHANGED answer ELSE FinishWithACK(c, "ack")
          /\ ioTasks' = IF Refused THEN ioTasks ELSE Append(ioTasks, c)
    /\ uiTasks' = Tail(uiTasks)
    /\ UNCHANGED <<io, locked, dialog, closing>>
HandleMessage ==
    /\ uiTasks # <<>>
    /\ LET c == Head(uiTasks)
       IN /\ Notify(c)
          /\ FinishWithACK(c, IF Refused THEN "shutdown" ELSE "ack")
          /\ ioTasks' = Append(ioTasks, c)
    /\ uiTasks' = Tail(uiTasks)
    /\ UNCHANGED <<io, locked, dialog, closing>>

\* Where a request stands that is not among the ones before it.
FirstArrivals(requests) ==
    {i \in DOMAIN requests : \A j \in 1..(i - 1) : requests[j] # requests[i]}

\* ProcessSingletonStartupLock::Unlock, from PostBrowserStart: replay every
\* saved request once, in the order of its first arrival.
\* Faulty variant: duplicates of the first saved request hide what follows them.
Replay_StopsAtDuplicate(requests) ==
    LET distinct(n) == IsInjective(SubSeq(requests, 1, n))
        n == CHOOSE k \in 0..Len(requests) :
               distinct(k) /\ \A j \in 0..Len(requests) : distinct(j) => j <= k
    IN SubSeq(requests, 1, n)
Replay(requests) ==
    LET first == FirstArrivals(requests)
        rank(i) == Cardinality({j \in first : j <= i})
    IN [n \in 1..Cardinality(first) |-> requests[CHOOSE i \in first : rank(i) = n]]
Unlock ==
    /\ locked /\ ~dialog
    /\ locked' = FALSE
    /\ opened' = opened \o Replay(saved)
    /\ saved' = <<>>
    /\ UNCHANGED <<io, uiTasks, ioTasks, dialog, closing, shown, answer>>

\* The first-run dialog comes and goes before the browser has started.
SetActiveModalDialog ==
    /\ locked
    /\ dialog' = ~dialog
    /\ UNCHANGED <<io, uiTasks, ioTasks, locked, saved, closing, opened, shown, answer>>

ShutDown ==
    /\ ~locked /\ ~closing
    /\ closing' = TRUE
    /\ UNCHANGED <<io, uiTasks, ioTasks, locked, saved, dialog, opened, shown, answer>>

WatcherNext ==
    \/ \E c \in Conns : Accept(c) \/ Arrive(c) \/ Read(c) \/ TimerFires(c)
    \/ RunIoTask \/ HandleMessage
    \/ Unlock \/ SetActiveModalDialog \/ ShutDown

WatcherSpec == WatcherInit /\ [][WatcherNext]_watcherVars
\* Both threads run their tasks, timers fire, and the browser comes up.
WatcherFairSpec ==
    /\ WatcherSpec
    /\ \A c \in Conns : WF_watcherVars(Read(c)) /\ WF_watcherVars(TimerFires(c))
    /\ WF_watcherVars(RunIoTask) /\ WF_watcherVars(HandleMessage)
    /\ WF_watcherVars(Unlock)

-----------------------------------------------------------------------------
(* Properties.                                                                *)

\* A posted task never finds its SocketReader deleted (HandleMessage and
\* FinishWithACK use the raw pointer, RemoveSocketReader erases it), and no
\* reader is in two tasks, so none is answered or deleted twice.
TasksHaveReaders ==
    /\ WatcherTypeOK
    /\ ToSet(uiTasks \o ioTasks) \subseteq readers
    /\ IsInjective(uiTasks \o ioTasks)

\* While no read() has failed, a reader's descriptor is its own connection until
\* the reader is deleted, and no other descriptor stays open.
NoReadFailed == \A c \in Conns : input[c] # "error"
DescriptorsOwned ==
    NoReadFailed => /\ \A c \in readers : socket[fd[c]] = c
                    /\ \A f \in Fds : socket[f] # Closed => socket[f] \in readers

\* An acknowledged start, which has quit by now, is not forgotten: its request
\* was opened, or is saved for Unlock, or a modal dialog was shown instead.
AcknowledgedIsKept ==
    NoReadFailed => \A c \in Conns : answer[c] = "ack" =>
        request[c] \in ToSet(opened) \cup ToSet(saved) \/ c \in shown

\* Every accepted connection is given up or answered, and its reader deleted.
EveryReaderGoes == \A c \in Conns : c \in readers ~> c \notin readers


=============================================================================
