--------------------------- MODULE ProcessSingleton ---------------------------
(***************************************************************************)
(* The POSIX process singleton: browser processes started on one profile   *)
(* directory, and the symlinks SingletonLock, SingletonSocket and          *)
(* SingletonCookie they share.  Each start tries to reach a process behind *)
(* the socket, takes the lock if there is none, and may kill a process it  *)
(* believes hung.  One action is one step another process can see: a       *)
(* system call on a shared link or on a connection, with the decision the  *)
(* code takes on its outcome.                                              *)
(*                                                                         *)
(* A link is the process it leads to.  Connections are served by the       *)
(* server's message loop (SingletonWatcher has the details); a client that *)
(* gave up may still be served, because its request stays in the socket.   *)
(* The temporary directory of a process holds its cookie while the process *)
(* listens, so it needs no variable.  Not modelled: old Chromes' sockets   *)
(* and locks that are not symlinks, and process ids used again.            *)
(***************************************************************************)
EXTENDS Naturals, FiniteSets

CONSTANTS
    Procs,          \* browser processes, each started at most once
    NoOne,          \* a missing link, no peer
    Orphan,         \* a link that leads to no Chrome, or that cannot be parsed
    Foreign,        \* a link made by a Chrome on another host
    InitialLocks,   \* what the lock may hold at first
    RetryAttempts,  \* bound in the code: kRetryAttempts
    MaxMishaps      \* bound: crashes and failures of Create

ASSUME NamesAssumption ==
    /\ {NoOne, Orphan, Foreign} \cap Procs = {}
    /\ NoOne # Orphan /\ NoOne # Foreign /\ Orphan # Foreign
ASSUME LocksAssumption == InitialLocks \subseteq {NoOne, Orphan, Foreign}
ASSUME BoundsAssumption == RetryAttempts \in Nat /\ MaxMishaps \in Nat

VARIABLES
    lock, socketLink, cookieLink,   \* where the three links lead
    pc,          \* where each process is in NotifyOtherProcessOrCreate and after
    round,       \* 1: the first NotifyOtherProcess, may kill; 2: after Create failed
    retries,     \* retries left of the loop in NotifyOtherProcessWithTimeout
    peer,        \* the process the socket link was seen to lead to
    victim,      \* the process id parsed from the lock to kill it
    reply,       \* what the peer wrote on the connection
    requests,    \* <<client, round, server>>: sent and not yet handled
    served,      \* history: processes whose request a browser accepted
    displaced,   \* history: holders whose lock another process removed
    troubled,    \* history: a crash, a failure, a time out or a lost answer
    mishaps      \* crashes and failures so far

links == <<lock, socketLink, cookieLink>>
client == <<round, retries, peer, victim>>
history == <<served, displaced, troubled, mishaps>>
vars == <<links, pc, client, reply, requests, history>>

Links == Procs \cup {NoOne, Orphan, Foreign}
Notifying == {"connect", "verify", "parse", "unlink", "send", "await"}
Killing == {"kill", "killUnlink", "signal"}
\* The person is asked about a profile that a Chrome on another host holds.
Asking == {"dialog", "killDialog"}
Creating == {"clear", "clearCookie", "linkSocket", "linkCookie", "bind"}
Owning == {"running", "closing", "cleanup", "cleanupCookie", "cleanupLock"}
Gone == {"notified", "inUse", "lockError", "exited", "crashed", "killed"}
Places == Notifying \cup Asking \cup Killing \cup Creating \cup Owning \cup Gone
            \cup {"idle", "create", "cleaned"}

TypeOK ==
    /\ lock \in Links /\ socketLink \in Links /\ cookieLink \in Links
    /\ pc \in [Procs -> Places]
    /\ round \in [Procs -> {1, 2}]
    /\ retries \in [Procs -> 0..RetryAttempts]
    /\ peer \in [Procs -> Links]
    /\ victim \in [Procs -> Procs \cup {NoOne}]
    /\ reply \in [Procs -> {"none", "ack", "shutdown"}]
    /\ requests \subseteq Procs \X {1, 2} \X Procs
    /\ served \subseteq Procs
    /\ displaced \subseteq Procs
    /\ troubled \in BOOLEAN
    /\ mishaps \in 0..MaxMishaps

Init ==
    /\ lock \in InitialLocks
    /\ socketLink = lock /\ cookieLink = lock
    /\ pc = [p \in Procs |-> "idle"]
    /\ round = [p \in Procs |-> 1]
    /\ retries = [p \in Procs |-> RetryAttempts]
    /\ peer = [p \in Procs |-> NoOne]
    /\ victim = [p \in Procs |-> NoOne]
    /\ reply = [p \in Procs |-> "none"]
    /\ requests = {}
    /\ served = {}
    /\ displaced = {}
    /\ troubled = (lock # NoOne)
    /\ mishaps = 0

Alive(p) == pc[p] \notin Gone \cup {"idle"}
\* Created the lock and did not yet remove it.
HoldsLock(p) == pc[p] \in Creating \cup Owning
\* connect() reaches the process, its cookie is in its directory.
Listening(p) == pc[p] \in Owning \cup {"cleaned"}
\* A browser that runs on the profile.
Owners == {p \in Procs : pc[p] \in Owning}

Goto(p, place) == pc' = [pc EXCEPT ![p] = place]
\* Whoever holds the lock that p removes loses it.
Displace(p) == displaced' = displaced \cup {q \in Procs \ {p} : lock = q /\ HoldsLock(q)}

-----------------------------------------------------------------------------
(* NotifyOtherProcessWithTimeout.                                             *)

Launch(p) ==
    /\ pc[p] = "idle"
    /\ Goto(p, "connect")
    /\ UNCHANGED <<links, client, reply, requests, history>>

\* ConnectSocket reads the socket link.
ReadSocketLink(p) ==
    /\ pc[p] = "connect"
    /\ peer' = [peer EXCEPT ![p] = socketLink]
    /\ Goto(p, IF socketLink = NoOne THEN "parse" ELSE "verify")
    /\ UNCHANGED <<links, round, retries, victim, reply, requests, history>>

\* The socket is closed and what was read of its link forgotten.
Hangup(p) == peer' = [peer EXCEPT ![p] = NoOne]

\* ConnectSocket compares the cookies and connects.
Reaches(p) == peer[p] \in Procs /\ cookieLink = peer[p] /\ Listening(peer[p])
ConnectSocket(p) ==
    /\ pc[p] = "verify"
    /\ IF Reaches(p) THEN Goto(p, "send") /\ UNCHANGED peer
                     ELSE Goto(p, "parse") /\ Hangup(p)
    /\ UNCHANGED <<links, round, retries, victim, reply, requests, history>>

\* The result PROCESS_NONE: Create in the first round, LOCK_ERROR after it.
ProcessNone(p) == IF round[p] = 1 THEN "create" ELSE "lockError"
\* kill_unresponsive is true in the first round only.
KillOrGiveUp(p) == IF round[p] = 1 THEN "kill" ELSE "inUse"

\* Another process that runs: try again, up to the last retry.
RetryLater(p) ==
    IF retries[p] = 0
      THEN /\ Goto(p, KillOrGiveUp(p))
           /\ troubled' = TRUE
           /\ UNCHANGED retries
      ELSE /\ retries' = [retries EXCEPT ![p] = @ - 1]
           /\ Goto(p, "connect")
           /\ UNCHANGED troubled

\* The connection failed: who has the lock decides what to do about it.  A lock
\* of another host holds a process id of that host; when some Chrome has that id
\* here, it is taken for the owner: for this start itself, or for one to wait for.
HeldBy(p, q) == q # p /\ Alive(q)
ParseLock(p) ==
    /\ pc[p] = "parse"
    /\ \/ /\ lock = NoOne
          /\ Goto(p, ProcessNone(p))
          /\ UNCHANGED <<retries, troubled>>
       \/ /\ lock = Foreign
          /\ \E place \in {"dialog", "unlink"} : Goto(p, place)
          /\ UNCHANGED <<retries, troubled>>
       \/ /\ lock = Foreign
          /\ RetryLater(p)
       \/ /\ lock = Orphan \/ (lock \in Procs /\ ~HeldBy(p, lock))
          /\ Goto(p, "unlink")
          /\ UNCHANGED <<retries, troubled>>
       \/ /\ lock \in Procs
          /\ HeldBy(p, lock)
          /\ RetryLater(p)
    /\ UNCHANGED <<links, round, peer, victim, reply, requests, served, displaced, mishaps>>

\* DisplayProfileInUseError: the person quits, or unlocks the profile.  Only the
\* dialog of NotifyOtherProcessWithTimeout then removes the lock; the one of
\* KillProcessByLockPath leaves it to Create, which will find it.
DisplayProfileInUseError(p) ==
    /\ pc[p] \in Asking
    /\ Goto(p, "inUse") \/ Goto(p, IF pc[p] = "dialog" THEN "unlink" ELSE "create")
    /\ UNCHANGED <<links, client, reply, requests, history>>

\* The lock that was parsed names nobody who could hold it: remove it.
UnlinkLock(p) ==
    /\ pc[p] = "unlink"
    /\ lock' = NoOne
    /\ Displace(p)
    /\ Goto(p, ProcessNone(p))
    /\ UNCHANGED <<socketLink, cookieLink, client, reply, requests, served, troubled, mishaps>>

\* WriteToSocket; it fails when the peer is gone.
SendRequest(p) ==
    /\ pc[p] = "send"
    /\ IF Alive(peer[p])
         THEN /\ requests' = requests \cup {<<p, round[p], peer[p]>>}
              /\ Goto(p, "await")
              /\ UNCHANGED peer
         ELSE /\ Goto(p, KillOrGiveUp(p))
              /\ Hangup(p)
              /\ UNCHANGED requests
    /\ UNCHANGED <<links, round, retries, victim, reply, history>>

\* ReadFromSocket returns the answer.
ReadReply(p) ==
    /\ pc[p] = "await"
    /\ reply[p] # "none"
    /\ Goto(p, IF reply[p] = "ack" THEN "notified" ELSE ProcessNone(p))
    /\ reply' = [reply EXCEPT ![p] = "none"]
    /\ Hangup(p)
    /\ UNCHANGED <<links, round, retries, victim, requests, history>>

\* ReadFromSocket times out, or the peer closes the connection unanswered.
\* Faulty variant: the read ends only when the peer is gone.
ReadFails_NoTimeout(p) ==
    /\ pc[p] = "await"
    /\ reply[p] = "none"
    /\ ~Alive(peer[p])
    /\ troubled' = TRUE
    /\ Goto(p, KillOrGiveUp(p))
    /\ Hangup(p)
    /\ UNCHANGED <<links, round, retries, victim, reply, requests, served, displaced, mishaps>>
ReadFails(p) ==
    /\ pc[p] = "await"
    /\ reply[p] = "none"
    /\ troubled' = TRUE
    /\ Goto(p, KillOrGiveUp(p))
    /\ Hangup(p)
    /\ UNCHANGED <<links, round, retries, victim, reply, requests, served, displaced, mishaps>>

-----------------------------------------------------------------------------
(* KillProcessByLockPath.                                                     *)

\* Without a lock, pid is never assigned: any value, so any process, or none.
Pids == IF lock \in Procs THEN {lock}
        ELSE IF lock = Orphan THEN {NoOne} ELSE Procs \cup {NoOne}
ParseLockToKill(p) ==
    /\ pc[p] = "kill"
    /\ IF lock = Foreign
         THEN Goto(p, "killDialog") /\ UNCHANGED victim
         ELSE /\ \E pid \in Pids : victim' = [victim EXCEPT ![p] = pid]
              /\ Goto(p, "killUnlink")
    /\ UNCHANGED <<links, round, retries, peer, reply, requests, history>>

\* Remove the lock first, then kill: unless it is p itself or no process.
UnlinkToKill(p) ==
    /\ pc[p] = "killUnlink"
    /\ lock' = NoOne
    /\ Displace(p)
    /\ IF victim[p] \in {NoOne, p}
         THEN Goto(p, "create") /\ victim' = [victim EXCEPT ![p] = NoOne]
         ELSE Goto(p, "signal") /\ UNCHANGED victim
    /\ UNCHANGED <<socketLink, cookieLink, round, retries, peer, reply, requests,
                   served, troubled, mishaps>>

\* kill(pid, SIGKILL); a process that is gone already is ESRCH.
KillProcess(p) ==
    /\ pc[p] = "signal"
    /\ pc' = [q \in Procs |->
                IF q = p THEN "create"
                ELSE IF q = victim[p] /\ Alive(q) THEN "killed" ELSE pc[q]]
    /\ victim' = [victim EXCEPT ![p] = NoOne]
    /\ UNCHANGED <<links, round, retries, peer, reply, requests, history>>

-----------------------------------------------------------------------------
(* Create, and what the process does with the singleton it has.               *)

\* Create failed: notify again, and this time kill nobody.
StartSecondRound(p) ==
    /\ Goto(p, "connect")
    /\ round' = [round EXCEPT ![p] = 2]
    /\ retries' = [retries EXCEPT ![p] = RetryAttempts]
    /\ victim' = [victim EXCEPT ![p] = NoOne]
    /\ UNCHANGED peer

\* symlink() is atomic: it makes the lock or finds one.
\* Faulty variant: the lock is replaced when there is one.
CreateLock_Replaced(p) ==
    /\ pc[p] = "create"
    /\ lock' = p
    /\ Goto(p, "clear")
    /\ UNCHANGED <<socketLink, cookieLink, client, reply, requests, history>>
CreateLock(p) ==
    /\ pc[p] = "create"
    /\ IF lock \in {NoOne, p}
         THEN /\ lock' = p
              /\ Goto(p, "clear")
              /\ UNCHANGED client
         ELSE /\ StartSecondRound(p)
              /\ UNCHANGED lock
    /\ UNCHANGED <<socketLink, cookieLink, reply, requests, history>>

\* A temporary directory, then the links of the last owner are removed.
\* Faulty variant: the socket link of the last owner is kept.
ClearLinks_Kept(p) ==
    /\ pc[p] = "clear"
    /\ Goto(p, "clearCookie")
    /\ UNCHANGED <<links, client, reply, requests, history>>
ClearLinks(p) ==
    /\ pc[p] = "clear"
    /\ socketLink' = NoOne
    /\ Goto(p, "clearCookie")
    /\ UNCHANGED <<lock, cookieLink, client, reply, requests, history>>

ClearCookie(p) ==
    /\ pc[p] = "clearCookie"
    /\ cookieLink' = NoOne
    /\ Goto(p, "linkSocket")
    /\ UNCHANGED <<lock, socketLink, client, reply, requests, history>>

LinkSocket(p) ==
    /\ pc[p] = "linkSocket"
    /\ IF socketLink = NoOne
         THEN /\ socketLink' = p
              /\ Goto(p, "linkCookie")
              /\ UNCHANGED client
         ELSE /\ StartSecondRound(p)
              /\ UNCHANGED socketLink
    /\ UNCHANGED <<lock, cookieLink, reply, requests, history>>

LinkCookie(p) ==
    /\ pc[p] = "linkCookie"
    /\ IF cookieLink = NoOne
         THEN /\ cookieLink' = p
              /\ Goto(p, "bind")
              /\ UNCHANGED client
         ELSE /\ StartSecondRound(p)
              /\ UNCHANGED cookieLink
    /\ UNCHANGED <<lock, socketLink, reply, requests, history>>

\* bind and listen: Create succeeds.
Listen(p) ==
    /\ pc[p] = "bind"
    /\ Goto(p, "running")
    /\ UNCHANGED <<links, client, reply, requests, history>>

\* The directory cannot be made, or bind fails; the lock stays.
CreateFails(p) ==
    /\ pc[p] \in {"clear", "bind"}
    /\ mishaps < MaxMishaps
    /\ mishaps' = mishaps + 1
    /\ troubled' = TRUE
    /\ StartSecondRound(p)
    /\ UNCHANGED <<links, reply, requests, served, displaced>>

\* The notification callback runs: accepted, or refused when shutting down.
\* The client gets the answer if it still reads this connection.
\* Faulty variant: the request is acknowledged although it is refused.
NotificationCallback_AckRefused(s) ==
    /\ pc[s] \in {"running", "closing"}
    /\ \E r \in requests :
         /\ r[3] = s
         /\ requests' = requests \ {r}
         /\ served' = IF pc[s] = "running" THEN served \cup {r[1]} ELSE served
         /\ reply' = IF pc[r[1]] = "await" /\ round[r[1]] = r[2] /\ peer[r[1]] = s
                       THEN [reply EXCEPT ![r[1]] = "ack"] ELSE reply
    /\ UNCHANGED <<links, pc, client, displaced, troubled, mishaps>>
\* Faulty variant: the client is told to start although its request was accepted.
NotificationCallback_RefuseAccepted(s) ==
    /\ pc[s] \in {"running", "closing"}
    /\ \E r \in requests :
         /\ r[3] = s
         /\ requests' = requests \ {r}
         /\ served' = served \cup {r[1]}
         /\ reply' = IF pc[r[1]] = "await" /\ round[r[1]] = r[2] /\ peer[r[1]] = s
                       THEN [reply EXCEPT ![r[1]] = IF pc[s] = "running" THEN "ack"
                                                    ELSE "shutdown"] ELSE reply
    /\ UNCHANGED <<links, pc, client, displaced, troubled, mishaps>>
NotificationCallback(s) ==
    /\ pc[s] \in {"running", "closing"}
    /\ \E r \in requests :
         /\ r[3] = s
         /\ requests' = requests \ {r}
         /\ served' = IF pc[s] = "running" THEN served \cup {r[1]} ELSE served
         /\ reply' = IF pc[r[1]] = "await" /\ round[r[1]] = r[2] /\ peer[r[1]] = s
                       THEN [reply EXCEPT ![r[1]] = IF pc[s] = "running" THEN "ack"
                                                    ELSE "shutdown"]
                       ELSE reply
    /\ UNCHANGED <<links, pc, client, displaced, troubled, mishaps>>

\* The browser begins to shut down; its message loop still runs.
\* Faulty variant: the lock is removed as soon as the shutdown begins.
BeginShutdown_Unlocks(p) ==
    /\ pc[p] = "running"
    /\ Goto(p, "closing")
    /\ lock' = NoOne
    /\ UNCHANGED <<socketLink, cookieLink, client, reply, requests, history>>
BeginShutdown(p) ==
    /\ pc[p] = "running"
    /\ Goto(p, "closing")
    /\ UNCHANGED <<links, client, reply, requests, history>>

\* The message loop ends: requests not handled by now never will be.
QuitLoop(p) ==
    /\ pc[p] = "closing"
    /\ Goto(p, "cleanup")
    /\ UNCHANGED <<links, client, reply, requests, history>>

\* Cleanup removes the links whatever they lead to.
CleanupLinks(p) ==
    /\ pc[p] = "cleanup"
    /\ socketLink' = NoOne
    /\ Goto(p, "cleanupCookie")
    /\ UNCHANGED <<lock, cookieLink, client, reply, requests, history>>

CleanupCookie(p) ==
    /\ pc[p] = "cleanupCookie"
    /\ cookieLink' = NoOne
    /\ Goto(p, "cleanupLock")
    /\ UNCHANGED <<lock, socketLink, client, reply, requests, history>>

CleanupLock(p) ==
    /\ pc[p] = "cleanupLock"
    /\ lock' = NoOne
    /\ Displace(p)
    /\ Goto(p, "cleaned")
    /\ UNCHANGED <<socketLink, cookieLink, client, reply, requests, served, troubled, mishaps>>

\* A client that still waits on this process gets no answer.
WaitsFor(c, s) == peer[c] = s /\ pc[c] \in {"send", "await"} /\ reply[c] = "none"
Exit(p) ==
    /\ pc[p] = "cleaned"
    /\ Goto(p, "exited")
    /\ troubled' = (troubled \/ \E c \in Procs : WaitsFor(c, p))
    /\ UNCHANGED <<links, client, reply, requests, served, displaced, mishaps>>

-----------------------------------------------------------------------------
(* The environment.                                                           *)

Crash(p) ==
    /\ Alive(p)
    /\ mishaps < MaxMishaps
    /\ mishaps' = mishaps + 1
    /\ troubled' = TRUE
    /\ Goto(p, "crashed")
    /\ UNCHANGED <<links, client, reply, requests, served, displaced>>

StartStep(p) ==
    \/ ReadSocketLink(p) \/ ConnectSocket(p) \/ ParseLock(p) \/ UnlinkLock(p)
    \/ SendRequest(p) \/ ReadReply(p) \/ ReadFails(p)
    \/ ParseLockToKill(p) \/ UnlinkToKill(p) \/ KillProcess(p)
    \/ CreateLock(p) \/ ClearLinks(p) \/ ClearCookie(p)
    \/ LinkSocket(p) \/ LinkCookie(p) \/ Listen(p)

BrowserStep(p) ==
    \/ NotificationCallback(p) \/ BeginShutdown(p) \/ QuitLoop(p)
    \/ CleanupLinks(p) \/ CleanupCookie(p) \/ CleanupLock(p) \/ Exit(p)

Next == \E p \in Procs :
    \/ Launch(p) \/ StartStep(p) \/ DisplayProfileInUseError(p) \/ CreateFails(p)
    \/ BrowserStep(p) \/ Crash(p)

Spec == Init /\ [][Next]_vars
\* The system runs every start, and a start waits for no process longer than its
\* time out; a browser may hang at any point, and a person may never answer.
FairSpec == Spec /\ \A p \in Procs : WF_vars(StartStep(p))

-----------------------------------------------------------------------------
(* Properties.                                                                *)

\* Of two browsers running on the profile, one had its lock taken away by
\* another process: creating the lock never lets a second one in, so every way
\* to two browsers goes through a removed lock (UnlinkPath of the lock).
SharersAreDisplaced ==
    \A p, q \in Owners : p # q => p \in displaced \/ q \in displaced

\* While nothing went wrong (no stale lock, crash, failure, time out or lost
\* answer), at most one browser runs on the profile and nobody was killed.
AtMostOneUntroubled ==
    ~troubled => /\ Cardinality(Owners) <= 1
                 /\ \A p \in Procs : pc[p] # "killed"

\* A start that reports PROCESS_NOTIFIED and quits had its request accepted by a
\* browser that was not shutting down, whatever crashed or timed out meanwhile.
NotifiedWasServed == \A p \in Procs : pc[p] = "notified" => p \in served

\* While nothing went wrong, the request of a start is not accepted by one
\* browser and then opened by a second one as well.
ServedOnceUntroubled == ~troubled => Owners \cap served = {}

\* While nothing went wrong, one browser, no victims, every request opened once
\* (NotificationCallback, Cleanup, Create).
UntroubledIsSafe == AtMostOneUntroubled /\ ServedOnceUntroubled

\* The second attempt to notify kills nobody: a process whose Create failed
\* "doesn't want to kill anything", however long it gets no answer.
SecondRoundIsGentle == \A p \in Procs : pc[p] \in Killing => round[p] = 1

\* Every start comes to a decision within its retries and time outs: it runs the
\* browser or ends, even when the processes it waits for never answer.  The one
\* thing it may wait for without a time out is the person who is asked about a
\* profile locked on another host; after the answer it goes on to decide.
Starting == Notifying \cup Killing \cup Creating \cup {"create"}
EveryStartDecides ==
    \A p \in Procs : pc[p] \in Starting ~> pc[p] \in Owning \cup Gone \cup Asking

\* A start that is the only process left on the profile takes it over, whatever
\* links a crashed or killed predecessor left behind, unless it too has a mishap.
Alone(p) == \A q \in Procs \ {p} : ~Alive(q)
LoneStartTakesOver ==
    \A p \in Procs :
      pc[p] = "connect" /\ round[p] = 1 /\ Alone(p) /\ mishaps = MaxMishaps /\ lock # Foreign
        ~> pc[p] \in Owning \/ ~Alone(p)

\* "We can be sure that no more than one copy of the application can be running
\* at once with a given data directory" (process_singleton.h:43).
AtMostOneInstance == Cardinality(Owners) <= 1


=============================================================================
