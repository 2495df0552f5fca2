----------------------------- MODULE Inventory ------------------------------
(***************************************************************************)
(* persistence.WorkerRepository: workers and their GPUs are rows of two    *)
(* tables, written in one transaction and read with separate statements;   *)
(* and the paging of every List in the system.                             *)
(*                                                                         *)
(* Writers are API goroutines serving RegisterWorker and WorkerHeartbeat   *)
(* or marking a worker LOST.  One client walks the list page by page while *)
(* they write.  PostgreSQL pages by key, (registered_at, id) greater than  *)
(* the last row seen; MemoryRepository pages by offset.  The job           *)
(* repositories page in the same two ways, by (created_at, id).            *)
(*                                                                         *)
(* registered_at is read from the clock before the transaction begins, so  *)
(* rows become visible in any order of their keys.                         *)
(***************************************************************************)
EXTENDS Integers, Sequences, FiniteSets

CONSTANTS
    Worker,          \* worker IDs, which are compared: integers here
    Time,            \* values of registered_at
    Writer,
    RegisterInput,   \* requests to register that may arrive
    Report,          \* GPU lists that heartbeats carry
    PageSizes,       \* page_size values clients ask for
    DefaultPageSize, MaxPageSize

ASSUME InventoryAssumption ==
    /\ Worker \subseteq Int /\ IsFiniteSet(Worker) /\ Time \subseteq Int
    /\ \A list \in Report \cup {in.gpus : in \in RegisterInput} :
          list \in Seq({list[i] : i \in DOMAIN list})
    /\ PageSizes \subseteq Int
    /\ DefaultPageSize \in Nat \ {0} /\ MaxPageSize \in Nat \ {0}

VARIABLES
    table,           \* table workers: ID -> row
    gpus,            \* table gpus: worker ID -> its rows, as committed
    reported,        \* history: the last GPU list of the worker that took effect
    write,           \* the transaction each writer has open
    walk             \* the client's walk through the list

vars == <<table, gpus, reported, write, walk>>

Absent == [status |-> "NONE", registered |-> 0]
Registered(w) == table[w].status # "NONE"

\* report is the GPU list of the call, todo the one that replaceGPUs is given;
\* row and rows are the transaction's own version of the worker's row and of
\* its rows in gpus.
NoWrite == [pc |-> "idle", op |-> "none", worker |-> 0, report |-> <<>>,
            todo |-> <<>>, row |-> Absent, rows |-> <<>>]

\* The empty page_token.
NoToken == <<>>

\* seen, due, repeated, calm and whole are what the properties are about.
NoWalk == [phase |-> "idle", via |-> "none", filter |-> {}, size |-> 1,
           token |-> NoToken, offset |-> 0, more |-> TRUE, fetch |-> {},
           seen |-> {}, due |-> {}, repeated |-> FALSE, calm |-> TRUE,
           whole |-> TRUE]

-----------------------------------------------------------------------------
ValidateRegister(in) ==
    /\ in.hostname \in 1..253 /\ in.cpu >= 0 /\ in.memory >= 0
    /\ Len(in.gpus) <= 64
    /\ \A i \in DOMAIN in.gpus :
          /\ in.gpus[i].index >= 0
          /\ \A k \in 1..(i - 1) : in.gpus[k].index # in.gpus[i].index
          /\ 0 <= in.gpus[i].allocated /\ in.gpus[i].allocated <= in.gpus[i].total

-----------------------------------------------------------------------------
\* The key of a worker, and the order of the list: ORDER BY registered_at, id.
Key(w) == <<table[w].registered, w>>
Before(k, l) == k[1] < l[1] \/ (k[1] = l[1] /\ k[2] < l[2])

Matching(filter) == {Key(w) : w \in {v \in Worker : table[v].status \in filter}}

Rank(k, keys) == Cardinality({l \in keys : Before(l, k)})

\* A size out of range becomes the default, it is not cut down to the maximum.
PageSizeOf(n) == IF n <= 0 \/ n > MaxPageSize THEN DefaultPageSize ELSE n

\* Starts the next page at the token's row instead of after it.
AfterSlip(keys, token) == {k \in keys : token # NoToken => ~Before(k, token)}

\* WHERE (registered_at, id) > token, if there is one.
After(keys, token) == {k \in keys : token # NoToken => Before(token, k)}

\* The page, and whether a next_page_token comes with it (List fetches one row
\* more than the page to find out): then it is the key of the page's last row.
KeysetPage(keys, token, size) ==
    {k \in After(keys, token) : Rank(k, After(keys, token)) < size}
KeysetMore(keys, token, size) == Cardinality(After(keys, token)) > size
Last(page) == CHOOSE k \in page : \A l \in page : l # k => Before(l, k)

\* Counts the next page from the start of this one.
OffsetNextSlip(keys, offset, size) == offset + size - 1

OffsetNext(keys, offset, size) == offset + size

OffsetPage(keys, offset, size) ==
    {k \in keys : Rank(k, keys) \in offset..(offset + size - 1)}
OffsetMore(keys, offset, size) == OffsetNext(keys, offset, size) < Cardinality(keys)

-----------------------------------------------------------------------------
Init ==
    /\ table = [w \in Worker |-> Absent]
    /\ gpus = [w \in Worker |-> <<>>]
    /\ reported = [w \in Worker |-> <<>>]
    /\ write = [b \in Writer |-> NoWrite]
    /\ walk = NoWalk

RowLocked(w) == \E b \in Writer : write[b].pc # "idle" /\ write[b].worker = w

\* RegisterWorker: a valid request becomes a transaction that starts with the
\* INSERT of a new row.
Register(b, w, t, in) ==
    /\ write[b].pc = "idle" /\ ValidateRegister(in)
    /\ ~Registered(w) /\ ~RowLocked(w)
    /\ write' = [write EXCEPT ![b] =
           [pc |-> "delete", op |-> "register", worker |-> w,
            report |-> in.gpus, todo |-> in.gpus,
            row |-> [status |-> "ACTIVE", registered |-> t], rows |-> <<>>]]
    /\ UNCHANGED <<table, gpus, reported, walk>>

\* Reads row and GPUs without FOR UPDATE.
UpdateSlip(b, w, op, report) ==
    /\ write[b].pc = "idle" /\ Registered(w)
    /\ write' = [write EXCEPT ![b] =
           [pc |-> "delete", op |-> op, worker |-> w, report |-> report,
            todo |-> IF report # <<>> THEN report ELSE gpus[w],
            row |-> [table[w] EXCEPT !.status = IF op = "heartbeat" THEN "ACTIVE" ELSE "LOST"],
            rows |-> gpus[w]]]
    /\ UNCHANGED <<table, gpus, reported, walk>>

\* WorkerHeartbeat or MarkLost: SELECT ... FOR UPDATE, getGPUs in the
\* transaction, the callback and the row's UPDATE.  A heartbeat that lists GPUs
\* replaces them, one that lists none (nil on the wire) and MarkLost write back
\* those just read.
Update(b, w, op, report) ==
    /\ write[b].pc = "idle" /\ Registered(w) /\ ~RowLocked(w)
    /\ write' = [write EXCEPT ![b] =
           [pc |-> "delete", op |-> op, worker |-> w, report |-> report,
            todo |-> IF report # <<>> THEN report ELSE gpus[w],
            row |-> [table[w] EXCEPT !.status = IF op = "heartbeat" THEN "ACTIVE" ELSE "LOST"],
            rows |-> gpus[w]]]
    /\ UNCHANGED <<table, gpus, reported, walk>>

\* replaceGPUs: DELETE the worker's rows, then INSERT one row after the other.
DeleteGPUs(b) ==
    /\ write[b].pc = "delete"
    /\ write' = [write EXCEPT ![b].pc = "insert", ![b].rows = <<>>]
    /\ UNCHANGED <<table, gpus, reported, walk>>

\* The row to insert next has the device_index of one inserted before.
Collides(b) ==
    LET k == write[b] IN
    /\ k.pc = "insert" /\ Len(k.rows) < Len(k.todo)
    /\ \E i \in DOMAIN k.rows : k.rows[i].index = k.todo[Len(k.rows) + 1].index

\* replaceGPUs takes a querier, which the pool is as well: its INSERTs do not
\* wait for the transaction's COMMIT.
InsertGPUSlip(b) ==
    LET k == write[b] IN
    /\ k.pc = "insert" /\ Len(k.rows) < Len(k.todo)
    /\ write' = [write EXCEPT ![b] = IF Collides(b) THEN NoWrite
           ELSE [k EXCEPT !.rows = Append(k.rows, k.todo[Len(k.rows) + 1])]]
    /\ gpus' = IF Collides(b) THEN gpus
               ELSE [gpus EXCEPT ![k.worker] = Append(k.rows, k.todo[Len(k.rows) + 1])]
    /\ UNCHANGED <<table, reported, walk>>

\* A GPU row's ID is made of worker and device_index: a repeated one violates
\* the unique index, ends the call and rolls back.
InsertGPU(b) ==
    LET k == write[b] IN
    /\ k.pc = "insert" /\ Len(k.rows) < Len(k.todo)
    /\ write' = [write EXCEPT ![b] = IF Collides(b) THEN NoWrite
           ELSE [k EXCEPT !.rows = Append(k.rows, k.todo[Len(k.rows) + 1])]]
    /\ UNCHANGED <<table, gpus, reported, walk>>

\* A statement fails, or the context ends: the transaction is rolled back.
Fails(b) ==
    /\ write[b].pc # "idle"
    /\ write' = [write EXCEPT ![b] = NoWrite]
    /\ UNCHANGED <<table, gpus, reported, walk>>

\* What a walk owes its client when the row with key k starts or stops
\* matching its filter, and whether the change was behind its position.
Noticed(k, before, after) ==
    LET ahead == walk.more /\ \A l \in walk.seen : Before(l, k) IN
    IF walk.phase = "idle" \/ before = after THEN walk
    ELSE [walk EXCEPT !.due = IF ~after THEN @ \ {k} ELSE IF ahead THEN @ \cup {k} ELSE @,
                      !.calm = @ /\ ahead]

\* COMMIT: from here on other connections see the row and its GPU rows.
Commit(b) ==
    LET k == write[b] IN
    /\ k.pc = "insert" /\ Len(k.rows) = Len(k.todo)
    /\ write' = [write EXCEPT ![b] = NoWrite]
    /\ table' = [table EXCEPT ![k.worker] = k.row]
    /\ gpus' = [gpus EXCEPT ![k.worker] = k.rows]
    /\ reported' = [reported EXCEPT ![k.worker] = IF k.report # <<>> THEN k.report ELSE @]
    /\ walk' = Noticed(<<k.row.registered, k.worker>>,
                       table[k.worker].status \in walk.filter,
                       k.row.status \in walk.filter)

-----------------------------------------------------------------------------
\* The client asks for the first page of workers whose status is in filter.
StartWalk(via, filter, n) ==
    /\ walk.phase = "idle"
    /\ walk' = [NoWalk EXCEPT !.phase = "paging", !.via = via, !.filter = filter,
                              !.size = PageSizeOf(n), !.due = Matching(filter)]
    /\ UNCHANGED <<table, gpus, reported, write>>

\* WorkerRepository.List, its first statement.
ListPostgres ==
    LET keys == Matching(walk.filter)
        page == KeysetPage(keys, walk.token, walk.size)
        more == KeysetMore(keys, walk.token, walk.size) IN
    /\ walk.phase = "paging" /\ walk.via = "postgres"
    /\ walk' = [walk EXCEPT !.phase = "fetching", !.fetch = {k[2] : k \in page},
                    !.more = more, !.token = IF more THEN Last(page) ELSE NoToken,
                    !.seen = @ \cup page, !.repeated = @ \/ page \cap walk.seen # {}]
    /\ UNCHANGED <<table, gpus, reported, write>>

\* Its GPU statements, one per worker and each on what is committed then; then
\* the page is returned.
GetGPUs(w) ==
    /\ walk.phase = "fetching" /\ w \in walk.fetch
    /\ walk' = [walk EXCEPT !.fetch = @ \ {w}, !.whole = @ /\ gpus[w] = reported[w]]
    /\ UNCHANGED <<table, gpus, reported, write>>

PageReturned ==
    /\ walk.phase = "fetching" /\ walk.fetch = {}
    /\ walk' = [walk EXCEPT !.phase = IF walk.more THEN "paging" ELSE "done"]
    /\ UNCHANGED <<table, gpus, reported, write>>

\* MemoryRepository.List, one step under its mutex.
ListMemory ==
    LET keys == Matching(walk.filter)
        page == OffsetPage(keys, walk.offset, walk.size) IN
    /\ walk.phase = "paging" /\ walk.via = "memory"
    /\ walk' = [walk EXCEPT
            !.seen = @ \cup page, !.repeated = @ \/ page \cap walk.seen # {},
            !.offset = OffsetNext(keys, walk.offset, walk.size),
            !.more = OffsetMore(keys, walk.offset, walk.size),
            !.phase = IF OffsetMore(keys, walk.offset, walk.size) THEN "paging" ELSE "done"]
    /\ UNCHANGED <<table, gpus, reported, write>>

EndWalk ==
    /\ walk.phase = "done" /\ walk' = NoWalk
    /\ UNCHANGED <<table, gpus, reported, write>>

Statuses == {"ACTIVE", "LOST"}

Next ==
    \/ \E b \in Writer :
        \/ \E w \in Worker :
            \/ \E t \in Time, in \in RegisterInput : Register(b, w, t, in)
            \/ \E report \in Report : Update(b, w, "heartbeat", report)
            \/ Update(b, w, "lost", <<>>)
        \/ DeleteGPUs(b) \/ InsertGPU(b) \/ Commit(b) \/ Fails(b)
    \/ \E via \in {"postgres", "memory"}, filter \in {{"ACTIVE"}, Statuses},
          n \in PageSizes : StartWalk(via, filter, n)
    \/ ListPostgres
    \/ \E w \in Worker : GetGPUs(w)
    \/ PageReturned
    \/ ListMemory
    \/ EndWalk

Spec == Init /\ [][Next]_vars

-----------------------------------------------------------------------------
InventoryTypeOK ==
    /\ \A w \in Worker : /\ table[w].status \in {"NONE", "ACTIVE", "LOST"}
                         /\ Registered(w) => table[w].registered \in Time
    /\ \A b \in Writer :
          /\ write[b].pc \in {"idle", "delete", "insert"}
          /\ write[b].pc # "idle" => write[b].worker \in Worker
    /\ walk.phase \in {"idle", "paging", "fetching", "done"}
    /\ walk.size \in 1..MaxPageSize \cup {DefaultPageSize}
    /\ walk.fetch \subseteq Worker

\* What a complete listing must not miss: rows that matched the filter all
\* along, or since they appeared ahead of the client's position.
Exact ==
    /\ ~walk.repeated
    /\ walk.phase = "done" => walk.due \subseteq walk.seen

\* A client that follows next_page_token through PostgreSQL's List sees every
\* worker (or job) that matched all along exactly once, however rows appear,
\* even with older keys, or change status between its pages.
KeysetWalkIsExact == walk.via = "postgres" => Exact

\* The in-memory List, which pages by offset, gives the same guarantee as long
\* as nothing changes behind the client's position.
OffsetWalkIsExact == walk.via = "memory" /\ walk.calm => Exact

\* A reader that fetches a worker's GPUs gets the list of the last registration
\* or heartbeat with GPUs that took effect, whole: not some of its rows, not the
\* rows of two lists, and not an older list that a MarkLost or an empty heartbeat
\* has written back.  List, ListActive and Get read table gpus outside any
\* transaction, between any two of the statements of replaceGPUs.
ReadersSeeTheLastReport == walk.whole

\* Marking a worker LOST writes its GPU rows anew as well, and still never
\* undoes a heartbeat that came in between: the inventory stays as it is.
MarkLostKeepsInventory ==
    [][\A b \in Writer : write[b].op = "lost" /\ write'[b] # write[b] =>
           gpus' = gpus]_vars

\* A registration that ValidateRegister lets through never fails on the
\* unique (worker_id, device_index) of table gpus.
AcceptedRegistrationsFit ==
    \A b \in Writer : write[b].op = "register" => ~Collides(b)

\* What the interface says of every List: paging in (CreatedAt, ID) order "is
\* stable even as new jobs are created".
OffsetWalkIsStable == walk.via = "memory" => Exact
=============================================================================
