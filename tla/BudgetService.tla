------------------------------ MODULE BudgetService ------------------------------
(***************************************************************************)
(* The budget of one origin: BudgetManager (budget_manager.cc) over        *)
(* BudgetDatabase (budget_database.cc).  Origins share nothing but the     *)
(* database's task runner.  The browser's thread owns the cache and posts  *)
(* tasks to the runner, which executes them one by one and posts a reply;  *)
(* between a task and its reply other operations change the cache.  A      *)
(* restart loses cache, reservations, tasks and replies.                   *)
(*                                                                         *)
(* Time is counted in hours, the smallest award; budgets are integers.     *)
(* Origins that are not secure are refused before anything changes, and    *)
(* have no budget here.                                                    *)
(***************************************************************************)
EXTENDS Integers, SequencesExt

CONSTANTS
    OperationCost,    \* GetCost(SILENT_PUSH)
    DurationInDays,   \* kBudgetDurationInDays
    HoursPerDay,      \* 24
    HourlyBudgets,    \* what engagement scores may earn in an hour
    NotCached,        \* an origin without an entry in a map
    MaxHours,         \* bound: hours modelled
    MaxPending        \* bound: operations in flight

ASSUME BudgetAssumption ==
    /\ OperationCost \in Nat \ {0} /\ DurationInDays \in Nat \ {0}
    /\ HoursPerDay \in Nat \ {0}
    /\ HourlyBudgets \subseteq Nat
    /\ \E most \in HourlyBudgets : \A hourly \in HourlyBudgets : hourly <= most
    /\ NotCached \notin [chunks : Seq([amount : Nat, expiration : Nat]), lastAward : Nat]
ASSUME BudgetBoundsAssumption == MaxHours \in Nat /\ MaxPending \in Nat

Duration == DurationInDays * HoursPerDay
HourlyMaximum == CHOOSE h \in HourlyBudgets : \A g \in HourlyBudgets : g <= h

VARIABLES
    now,           \* clock_
    cache,         \* budget_map_: NotCached or a BudgetInfo
    db,            \* what is stored
    tasks,         \* tasks of the database's runner
    replies,       \* replies on their way to the browser's thread
    reservations,  \* reservation_map_
    paid,          \* history: spends reported as successful
    consumed,      \* history: consumes reported as successful
    writeFailed    \* history: a write of this cache has failed

memory == <<cache, tasks, replies, reservations, writeFailed>>
history == <<paid, consumed>>
vars == <<now, db, memory, history>>

Operations == {"get", "reserve", "consume"}
Chunk == [amount : Nat, expiration : Nat]
BudgetInfo == [chunks : Seq(Chunk), lastAward : Nat]
Entries == BudgetInfo \cup {NotCached}

\* A task reads the entry or replaces it by `value`; `next` is the continuation.
Continuations == {"AddToCache", "AfterSync", "AfterWrite"}
Tasks == [op : Operations, next : Continuations, value : Entries]
Replies == [op : Operations, next : Continuations, value : Entries, success : BOOLEAN]

TypeOK ==
    /\ now \in 0..MaxHours
    /\ cache \in Entries /\ db \in Entries
    /\ tasks \in Seq(Tasks) /\ replies \in Seq(Replies)
    /\ reservations \in Nat /\ paid \in Nat /\ consumed \in Nat
    /\ writeFailed \in BOOLEAN

Init ==
    /\ now = 0
    /\ cache = NotCached /\ db = NotCached
    /\ tasks = <<>> /\ replies = <<>>
    /\ reservations = 0
    /\ paid = 0 /\ consumed = 0
    /\ writeFailed = FALSE

-----------------------------------------------------------------------------
(* The entry of an origin *)

Amounts(info) == [i \in DOMAIN info.chunks |-> info.chunks[i].amount]
\* What the first n come to, for every n.
Sums(amounts) ==
    LET sum[n \in 0..Len(amounts)] == IF n = 0 THEN 0 ELSE sum[n - 1] + amounts[n]
    IN  sum
Total(info) == Sums(Amounts(info))[Len(info.chunks)]

\* The chunks left when all before the first of some places are erased.
From(chunks, places) ==
    IF places = {} THEN <<>> ELSE SubSeq(chunks, Min(places), Len(chunks))

Expired(chunk) == chunk.expiration <= now

\* CleanupExpiredBudget removes the leading expired chunks; an entry that is
\* empty then and was awarded nothing for the whole duration is removed too.
WithoutExpired(info) ==
    LET live == {i \in DOMAIN info.chunks : ~Expired(info.chunks[i])}
    IN  [info EXCEPT !.chunks = From(@, live)]
\* Faulty variant: an idle entry stays, and its next award is for all the time.
Lapsed_Never(info) == FALSE
Lapsed(info) ==
    /\ info # NotCached
    /\ WithoutExpired(info).chunks = <<>>
    /\ info.lastAward < now - Duration
CleanupExpiredBudget(info) ==
    IF info = NotCached \/ Lapsed(info) THEN NotCached ELSE WithoutExpired(info)

\* AddEngagementBudget: whole hours since the last award, up to the duration, or
\* the whole duration for a new entry.
Elapsed(info) ==
    IF info = NotCached THEN Duration
    ELSE IF (now - info.lastAward) \div HoursPerDay > DurationInDays THEN Duration
    ELSE now - info.lastAward
AddEngagementBudget(info, hourly) ==
    LET award == [amount |-> Elapsed(info) * hourly, expiration |-> now + Duration]
    IN  IF Elapsed(info) < 1 THEN info
        ELSE [chunks |-> Append(IF info = NotCached THEN <<>> ELSE info.chunks, award),
              lastAward |-> now]

\* What SyncLoadedCache makes of a loaded entry.
Synced(info, hourly) == AddEngagementBudget(CleanupExpiredBudget(info), hourly)

\* The loop of SpendBudgetAfterSync: chunks go, soonest to expire first, until
\* one is larger than what is left of the bill, and pays that.
Spend(info, amount) ==
    LET sums == Sums(Amounts(info))
        larger == {i \in DOMAIN info.chunks : sums[i] > amount}
    IN  [info EXCEPT !.chunks =
            IF larger = {} THEN <<>>
            ELSE [From(@, larger) EXCEPT ![1].amount = sums[Min(larger)] - amount]]

-----------------------------------------------------------------------------
(* The browser's thread *)

Pending == Len(tasks) + Len(replies)

\* Faulty variant: the answer does not wait for the write.
SpendBudgetAfterSync_Unwritten(op, info) ==
    /\ cache' = Spend(info, OperationCost)
    /\ paid' = paid + 1
    /\ reservations' = IF op = "reserve" THEN reservations + 1 ELSE reservations
    /\ consumed' = IF op = "consume" THEN consumed + 1 ELSE consumed
    /\ tasks' = Append(tasks, [op |-> "get", next |-> "AfterSync", value |-> cache'])

\* SpendBudgetAfterSync, when the total covers the amount: the cache is spent
\* first, and the answer waits for the write.
SpendBudgetAfterSync(op, info) ==
    /\ cache' = Spend(info, OperationCost)
    /\ tasks' = Append(tasks, [op |-> op, next |-> "AfterWrite", value |-> cache'])
    /\ UNCHANGED <<reservations, history>>

\* GetBudgetAfterSync only reports, and a spend that is not covered is refused.
AfterSync(op, info) ==
    IF op # "get" /\ Total(info) >= OperationCost
    THEN SpendBudgetAfterSync(op, info)
    ELSE cache' = info /\ UNCHANGED <<tasks, reservations, history>>

\* SyncLoadedCache: only the removal of a lapsed entry is written at once.
SyncLoadedCache(op, info) ==
    \E hourly \in HourlyBudgets :
        LET synced == Synced(info, hourly)
        IN  IF Lapsed(info)
            THEN /\ cache' = synced
                 /\ tasks' = Append(tasks, [op |-> op, next |-> "AfterSync", value |-> synced])
                 /\ UNCHANGED <<reservations, history>>
            ELSE AfterSync(op, synced)

\* SyncCache: an origin that is not cached is read from the database first.
SyncCache(op) ==
    IF cache = NotCached
    THEN /\ tasks' = Append(tasks, [op |-> op, next |-> "AddToCache", value |-> NotCached])
         /\ UNCHANGED <<cache, reservations, history>>
    ELSE SyncLoadedCache(op, cache)

GetBudget ==
    /\ Pending < MaxPending
    /\ SyncCache("get")
    /\ UNCHANGED <<now, db, replies, writeFailed>>

Reserve ==
    /\ Pending < MaxPending
    /\ SyncCache("reserve")
    /\ UNCHANGED <<now, db, replies, writeFailed>>

TakeReservation ==
    /\ reservations' = reservations - 1
    /\ consumed' = consumed + 1
    /\ UNCHANGED <<cache, tasks, paid>>

\* Consume uses a reservation if there is one, or spends.
Consume ==
    /\ Pending < MaxPending
    /\ IF reservations > 0 THEN TakeReservation ELSE SyncCache("consume")
    /\ UNCHANGED <<now, db, replies, writeFailed>>

\* AddToCache, the reply to a read.  A failed read ends the operation; an origin
\* cached in the meantime keeps its entry; nothing stored leaves it uncached.
\* Faulty variant: the loaded entry replaces the one cached in the meantime.
Loaded_Replaced(value) == IF value = NotCached THEN cache ELSE value
Loaded(value) == IF cache # NotCached THEN cache ELSE value
AddToCache(reply) ==
    IF reply.success
    THEN SyncLoadedCache(reply.op, Loaded(reply.value))
    ELSE UNCHANGED <<cache, tasks, reservations, history>>

\* The reply to SyncLoadedCache's write; by now the entry may have changed.
AfterSyncWrite(reply) ==
    IF reply.success
    THEN AfterSync(reply.op, cache)
    ELSE UNCHANGED <<cache, tasks, reservations, history>>

\* SpendBudgetAfterWrite and DidReserve or DidConsume.
AfterWrite(reply) ==
    /\ IF reply.success
       THEN /\ paid' = paid + 1
            /\ reservations' = IF reply.op = "reserve" THEN reservations + 1
                               ELSE reservations
            /\ consumed' = IF reply.op = "consume" THEN consumed + 1 ELSE consumed
       ELSE UNCHANGED <<reservations, history>>
    /\ UNCHANGED <<cache, tasks>>

HandleReply ==
    /\ replies # <<>>
    /\ LET reply == Head(replies)
       IN  CASE reply.next = "AddToCache" -> AddToCache(reply)
             [] reply.next = "AfterSync" -> AfterSyncWrite(reply)
             [] reply.next = "AfterWrite" -> AfterWrite(reply)
    /\ replies' = Tail(replies)
    /\ UNCHANGED <<now, db, writeFailed>>

-----------------------------------------------------------------------------
(* The database's task runner, the clock and restarts *)

ReplyTo(task, value, success) ==
    Append(replies, [op |-> task.op, next |-> task.next, value |-> value,
                     success |-> success])

GetEntry(task) ==
    /\ task.next = "AddToCache"
    /\ \/ replies' = ReplyTo(task, db, TRUE)
       \/ replies' = ReplyTo(task, NotCached, FALSE)
    /\ UNCHANGED <<db, writeFailed>>

UpdateEntries(task) ==
    /\ task.next # "AddToCache"
    /\ \/ /\ db' = task.value
          /\ replies' = ReplyTo(task, NotCached, TRUE)
          /\ UNCHANGED writeFailed
       \/ /\ replies' = ReplyTo(task, NotCached, FALSE)
          /\ writeFailed' = TRUE
          /\ UNCHANGED db

RunTask ==
    /\ tasks # <<>>
    /\ GetEntry(Head(tasks)) \/ UpdateEntries(Head(tasks))
    /\ tasks' = Tail(tasks)
    /\ UNCHANGED <<now, cache, reservations, history>>

Tick ==
    /\ now < MaxHours
    /\ now' = now + 1
    /\ UNCHANGED <<db, memory, history>>

Restart ==
    /\ cache' = NotCached
    /\ tasks' = <<>> /\ replies' = <<>>
    /\ reservations' = 0
    /\ writeFailed' = FALSE
    /\ UNCHANGED <<now, db, history>>

Next ==
    \/ GetBudget \/ Reserve \/ Consume
    \/ HandleReply \/ RunTask
    \/ Tick \/ Restart

Spec == Init /\ [][Next]_vars

-----------------------------------------------------------------------------
(* Properties *)

\* CleanupExpiredBudget relies on the chunks being in the order of expiry, and
\* no chunk is larger than a duration of full engagement earns.  The cap in
\* AddEngagementBudget compares whole days and would let almost a day more
\* through; it is the removal of lapsed entries that keeps awards within it.
ChunksInOrder(info) ==
    \A i, j \in DOMAIN info.chunks :
        i < j => info.chunks[i].expiration < info.chunks[j].expiration
AwardsCapped(info) ==
    \A i \in DOMAIN info.chunks : info.chunks[i].amount <= Duration * HourlyMaximum
BudgetsInOrder ==
    /\ TypeOK
    /\ \A info \in {cache, db} \ {NotCached} : ChunksInOrder(info) /\ AwardsCapped(info)

\* Cache and database never disagree in the origin's favour: what is live in the
\* database is in the cache with no more than is stored, unless a later state of
\* the cache is on its way; and while no write has failed it is exactly that.
\* Loads that overlap with spends must not bring back what was spent.
UpdatesUnderWay == \E i \in DOMAIN tasks : tasks[i].next # "AddToCache"
AmountAt(info, time) ==
    LET at == {i \in DOMAIN info.chunks : info.chunks[i].expiration = time}
    IN  IF at = {} THEN 0 ELSE info.chunks[CHOOSE i \in at : TRUE].amount
CacheMatchesDatabase ==
    cache # NotCached /\ db # NotCached /\ ~UpdatesUnderWay =>
        \A i \in DOMAIN db.chunks :
            LET chunk == db.chunks[i]
            IN  ~Expired(chunk) =>
                    /\ AmountAt(cache, chunk.expiration) <= chunk.amount
                    /\ ~writeFailed => AmountAt(cache, chunk.expiration) = chunk.amount

\* The service keeps its ledger: an operation is performed only if it was paid
\* for, and paid for only out of what engagement has earned, over concurrent
\* operations, failed writes and restarts that forget awards and reservations.
Ledger == INSTANCE BudgetLedger WITH
            InitialHours <- Duration
ImplementsLedger == Ledger!LedgerSpec
=============================================================================
