--------------------------- MODULE InventoryProofs --------------------------
(***************************************************************************)
(* Proofs about Inventory, for any workers, clocks, writers, reports and   *)
(* page sizes.  Writers: whoever is replacing a worker's rows has read     *)
(* them under the row lock, nobody else replaces them, and what has been   *)
(* inserted so far is the beginning of the list to write (WriteInv).  The  *)
(* PostgreSQL walk: everything seen lies at or before the token, and       *)
(* everything still owed lies after it and matches now (WalkInv).          *)
(***************************************************************************)
EXTENDS Inventory, TLAPS

Row == [status: {"NONE", "ACTIVE", "LOST"}, registered: Int]

\* The GPU lists that calls carry, and their rows.
Lists == Report \cup {in.gpus : in \in RegisterInput} \cup {<<>>}
GPURow == UNION {{list[i] : i \in DOMAIN list} : list \in Lists}

WriteRecord ==
    [pc: {"idle", "delete", "insert"}, op: {"none", "register", "heartbeat", "lost"},
     worker: Int, report: Lists, todo: Lists, row: Row, rows: Seq(GPURow)]

Typed ==
    /\ table \in [Worker -> Row]
    /\ \A w \in Worker : Registered(w) => table[w].registered \in Time
    /\ gpus \in [Worker -> Lists]
    /\ write \in [Writer -> WriteRecord]

\* The rows inserted so far are the first ones of the list.
Begins(rows, list) ==
    Len(rows) <= Len(list) /\ \A i \in 1..Len(rows) : rows[i] = list[i]

\* What a transaction has read and is about to write.
Write(k) ==
    /\ k.pc = "idle" => k = NoWrite
    /\ k.pc # "idle" =>
          /\ k.worker \in Worker /\ k.op # "none"
          /\ k.row.status # "NONE" /\ k.row.registered \in Time
          /\ k.op = "register" => ~Registered(k.worker)
          /\ k.op # "register" => /\ Registered(k.worker)
                                  /\ k.row.registered = table[k.worker].registered
          /\ k.op = "lost" => k.report = <<>>
          /\ k.todo = IF k.report # <<>> THEN k.report ELSE gpus[k.worker]
          /\ k.op = "register" =>
                \A i, l \in DOMAIN k.todo : i < l => k.todo[i].index # k.todo[l].index
    /\ k.pc = "insert" => Begins(k.rows, k.todo)

\* Nobody else replaces the same rows.
Alone(k, l) == k.pc # "idle" /\ l.pc # "idle" => k.worker # l.worker

WriteInv ==
    /\ Typed
    /\ reported = gpus
    /\ \A w \in Worker : ~Registered(w) => gpus[w] = <<>>
    /\ \A b \in Writer : Write(write[b])
    /\ \A a, b \in Writer : a # b => Alone(write[a], write[b])

\* Every GPU list is a sequence of GPU rows.
LEMMA ListsAreSequences == Lists \subseteq Seq(GPURow)
  <1> SUFFICES ASSUME NEW list \in Lists PROVE list \in Seq(GPURow)
    OBVIOUS
  <1> DEFINE S == {list[i] : i \in DOMAIN list}
  <1>1. S \subseteq GPURow
    BY DEF GPURow
  <1>2. list \in Seq(S)
    <2>1. CASE list = <<>>
      BY <2>1
    <2>2. CASE list # <<>>
      BY <2>2, InventoryAssumption, Zenon DEF Lists
    <2> QED BY <2>1, <2>2
  <1> HIDE DEF S
  <1> QED BY <1>1, <1>2

\* One more INSERT, and the last one.
LEMMA InsertsGoOn ==
    ASSUME NEW list \in Seq(GPURow), NEW rows \in Seq(GPURow), Begins(rows, list)
    PROVE  /\ Len(rows) < Len(list) =>
                 LET more == Append(rows, list[Len(rows) + 1]) IN
                 more \in Seq(GPURow) /\ Begins(more, list)
           /\ Len(rows) = Len(list) => rows = list
  <1> DEFINE n == Len(rows)
             more == Append(rows, list[n + 1])
  <1>1. n \in Nat /\ Len(list) \in Nat /\ n <= Len(list) /\ \A i \in 1..n : rows[i] = list[i]
    BY DEF Begins
  <1>2. ASSUME n < Len(list)
        PROVE  more \in Seq(GPURow) /\ Begins(more, list)
    <2>1. list[n + 1] \in GPURow
      BY <1>1, <1>2
    <2>2. /\ more \in Seq(GPURow) /\ Len(more) = n + 1 /\ more[n + 1] = list[n + 1]
          /\ \A i \in 1..n : more[i] = rows[i]
      BY <2>1
    <2> HIDE DEF more
    <2>3. \A i \in 1..(n + 1) : more[i] = list[i]
      BY <1>1, <2>2
    <2> QED BY <1>1, <1>2, <2>2, <2>3 DEF Begins
  <1>3. n = Len(list) => rows = list
    BY <1>1
  <1> QED BY <1>2, <1>3

\* A writer's step that changes no table.
LEMMA QuietWrite ==
    ASSUME WriteInv, UNCHANGED <<table, gpus, reported>>, NEW b \in Writer, NEW k \in WriteRecord,
           write' = [write EXCEPT ![b] = k], Write(k),
           \A a \in Writer \ {b} : Alone(k, write[a])
    PROVE  WriteInv'
  <1>1. /\ write' \in [Writer -> WriteRecord] /\ write'[b] = k
        /\ \A a \in Writer \ {b} : write'[a] = write[a]
    BY DEF WriteInv, Typed
  <1>2. /\ Typed' /\ reported' = gpus'
        /\ \A w \in Worker : ~Registered(w)' => gpus'[w] = <<>>
    BY <1>1 DEF WriteInv, Typed, Registered
  <1>3. \A l : Write(l)' <=> Write(l)
    BY DEF Write, Registered
  <1>4. \A a \in Writer : Write(write'[a])
    BY <1>1 DEF WriteInv
  <1>5. \A a \in Writer : Write(write[a])'
    BY <1>3, <1>4
  <1>6. \A k1, k2 : Alone(k1, k2) => Alone(k2, k1)
    BY DEF Alone
  <1>7. \A a, c \in Writer : a # c => Alone(write'[a], write'[c])
    BY <1>1, <1>6 DEF WriteInv
  <1> QED BY <1>2, <1>5, <1>7 DEF WriteInv

\* A writer without a transaction has nothing in hand.
LEMMA NoWriteIsQuiet ==
    /\ NoWrite \in WriteRecord /\ NoWrite.pc = "idle"
    /\ Write(NoWrite) /\ \A l : Alone(NoWrite, l)
  <1>1. Absent \in Row /\ <<>> \in Lists /\ <<>> \in Seq(GPURow)
    BY DEF Absent, Row, Lists
  <1>2. NoWrite \in WriteRecord /\ NoWrite.pc = "idle"
    BY <1>1 DEF NoWrite, WriteRecord
  <1> QED BY <1>2 DEF Write, Alone

\* RegisterWorker takes an ID nobody has, with GPUs that ValidateRegister passed.
LEMMA RegisterKeeps ==
    ASSUME WriteInv, NEW b \in Writer, NEW w \in Worker, NEW t \in Time,
           NEW in \in RegisterInput, Register(b, w, t, in)
    PROVE  WriteInv'
  <1> DEFINE row == [status |-> "ACTIVE", registered |-> t]
             k == [pc |-> "delete", op |-> "register", worker |-> w, report |-> in.gpus,
                   todo |-> in.gpus, row |-> row, rows |-> <<>>]
  <1>1. /\ ValidateRegister(in) /\ ~Registered(w) /\ ~RowLocked(w)
        /\ write' = [write EXCEPT ![b] = k] /\ UNCHANGED <<table, gpus, reported>>
    BY DEF Register
  <1>2. in.gpus \in Lists /\ <<>> \in Seq(GPURow) /\ gpus[w] = <<>>
    BY <1>1 DEF Lists, WriteInv
  <1>3. row \in Row /\ row.status = "ACTIVE" /\ row.registered = t
    BY InventoryAssumption DEF Row
  <1> HIDE DEF row
  <1>4. w \in Int
    BY InventoryAssumption
  <1>5. /\ k \in WriteRecord /\ k.pc = "delete" /\ k.op = "register" /\ k.worker = w
        /\ k.row = row /\ k.todo = in.gpus /\ k.report = in.gpus
    BY <1>2, <1>3, <1>4 DEF WriteRecord
  <1> HIDE DEF k
  <1>6. \A i, l \in DOMAIN in.gpus : i < l => in.gpus[i].index # in.gpus[l].index
    <2> SUFFICES ASSUME NEW i \in DOMAIN in.gpus, NEW l \in DOMAIN in.gpus, i < l
                 PROVE  in.gpus[i].index # in.gpus[l].index
      OBVIOUS
    <2>1. in.gpus \in Seq(GPURow)
      BY <1>2, ListsAreSequences
    <2>2. i \in 1..(l - 1)
      BY <2>1
    <2> QED BY <1>1, <2>2 DEF ValidateRegister
  <1>7. Write(k)
    BY <1>1, <1>2, <1>3, <1>5, <1>6 DEF Write
  <1>8. \A a \in Writer \ {b} : Alone(k, write[a])
    BY <1>1, <1>5 DEF Alone, RowLocked
  <1> QED BY <1>1, <1>5, <1>7, <1>8, QuietWrite, Zenon

\* SELECT ... FOR UPDATE hands the newest rows to one writer.
LEMMA UpdateKeeps ==
    ASSUME WriteInv, NEW b \in Writer, NEW w \in Worker, NEW op \in {"heartbeat", "lost"},
           NEW report \in Report \cup {<<>>}, Update(b, w, op, report),
           op = "lost" => report = <<>>
    PROVE  WriteInv'
  <1> DEFINE row == [table[w] EXCEPT !.status = IF op = "heartbeat" THEN "ACTIVE" ELSE "LOST"]
             todo == IF report # <<>> THEN report ELSE gpus[w]
             k == [pc |-> "delete", op |-> op, worker |-> w, report |-> report,
                   todo |-> todo, row |-> row, rows |-> gpus[w]]
  <1>1. /\ Registered(w) /\ ~RowLocked(w) /\ UNCHANGED <<table, gpus, reported>>
        /\ write' = [write EXCEPT ![b] = k]
    BY Zenon DEF Update
  <1>2. table \in [Worker -> Row] /\ gpus[w] \in Lists
    BY DEF WriteInv, Typed
  <1>3. table[w] \in Row /\ table[w].registered \in Time /\ w \in Int
    BY <1>1, <1>2, InventoryAssumption DEF WriteInv, Typed
  <1>4. report \in Lists /\ todo \in Lists /\ gpus[w] \in Seq(GPURow)
    BY <1>2, ListsAreSequences DEF Lists
  <1>5. /\ row \in Row /\ row.status \in {"ACTIVE", "LOST"}
        /\ row.registered = table[w].registered
    BY <1>3 DEF Row
  <1> HIDE DEF row
  <1>6. /\ k \in WriteRecord /\ k.pc = "delete" /\ k.op = op /\ k.worker = w
        /\ k.report = report /\ k.row = row /\ k.todo = todo
    BY <1>3, <1>4, <1>5, Zenon DEF WriteRecord
  <1> HIDE DEF k
  <1>7. Write(k)
    BY <1>1, <1>3, <1>5, <1>6 DEF Write
  <1>8. \A a \in Writer \ {b} : Alone(k, write[a])
    BY <1>1, <1>6 DEF Alone, RowLocked
  <1> QED BY <1>1, <1>6, <1>7, <1>8, QuietWrite, Zenon

\* A failed call leaves nothing behind.
LEMMA ForgetKeeps ==
    ASSUME WriteInv, NEW b \in Writer, UNCHANGED <<table, gpus, reported>>,
           write' = [write EXCEPT ![b] = NoWrite]
    PROVE  WriteInv'
  BY NoWriteIsQuiet, QuietWrite, Zenon

\* A transaction that goes on with other rows in hand.
LEMMA StatementKeeps ==
    ASSUME WriteInv, NEW b \in Writer, UNCHANGED <<table, gpus, reported>>,
           write[b].pc # "idle", NEW rows \in Seq(GPURow), Begins(rows, write[b].todo),
           write' = [write EXCEPT ![b] = [write[b] EXCEPT !.pc = "insert", !.rows = rows]]
    PROVE  WriteInv'
  <1> DEFINE k == [write[b] EXCEPT !.pc = "insert", !.rows = rows]
  <1>1. write[b] \in WriteRecord /\ Write(write[b])
    BY DEF WriteInv, Typed
  <1>2. /\ k \in WriteRecord /\ k.pc = "insert" /\ k.op = write[b].op
        /\ k.worker = write[b].worker /\ k.report = write[b].report
        /\ k.todo = write[b].todo /\ k.row = write[b].row /\ k.rows = rows
    BY <1>1, Zenon DEF WriteRecord
  <1>3. write' = [write EXCEPT ![b] = k]
    OBVIOUS
  <1> HIDE DEF k
  <1>4. Write(k)
    BY <1>1, <1>2 DEF Write
  <1>5. \A a \in Writer \ {b} : Alone(k, write[a])
    BY <1>2 DEF WriteInv, Alone
  <1> QED BY <1>2, <1>3, <1>4, <1>5, QuietWrite, Zenon

\* After the DELETE nothing has been inserted.
LEMMA DeleteKeeps ==
    ASSUME WriteInv, NEW b \in Writer, DeleteGPUs(b)
    PROVE  WriteInv'
  <1>1. /\ write[b].pc = "delete" /\ UNCHANGED <<table, gpus, reported>>
        /\ write' = [write EXCEPT ![b] = [write[b] EXCEPT !.pc = "insert", !.rows = <<>>]]
    BY Zenon DEF DeleteGPUs
  <1>2. write[b].todo \in Seq(GPURow)
    BY ListsAreSequences DEF WriteInv, Typed, WriteRecord
  <1>3. <<>> \in Seq(GPURow) /\ Begins(<<>>, write[b].todo)
    BY <1>2 DEF Begins
  <1> QED BY <1>1, <1>3, StatementKeeps, Zenon

\* An INSERT adds the list's next row, or runs into the unique index.
LEMMA InsertKeeps ==
    ASSUME WriteInv, NEW b \in Writer, InsertGPU(b)
    PROVE  WriteInv'
  <1> DEFINE k == write[b]
             more == Append(k.rows, k.todo[Len(k.rows) + 1])
  <1>1. /\ k.pc = "insert" /\ Len(k.rows) < Len(k.todo) /\ UNCHANGED <<table, gpus, reported>>
        /\ write' = [write EXCEPT ![b] = IF Collides(b) THEN NoWrite
                                         ELSE [k EXCEPT !.rows = more]]
    BY ZenonT(40) DEF InsertGPU
  <1>2. CASE Collides(b)
    BY <1>1, <1>2, ForgetKeeps, Zenon
  <1>3. CASE ~Collides(b)
    <2>1. /\ k \in WriteRecord /\ k.todo \in Seq(GPURow) /\ k.rows \in Seq(GPURow)
          /\ Begins(k.rows, k.todo)
      BY <1>1, ListsAreSequences DEF WriteInv, Typed, WriteRecord, Write
    <2>2. more \in Seq(GPURow) /\ Begins(more, k.todo)
      BY <1>1, <2>1, InsertsGoOn
    <2> HIDE DEF more
    <2>3. [k EXCEPT !.rows = more] = [k EXCEPT !.pc = "insert", !.rows = more]
      BY <1>1, <2>1, ZenonT(40) DEF WriteRecord
    <2> QED BY <1>1, <1>3, <2>2, <2>3, StatementKeeps, Zenon
  <1> QED BY <1>2, <1>3

\* At its COMMIT a transaction has inserted the whole list, and the list is the
\* call's own or, if it has none, the one that is there.
LEMMA CommitIsWhole ==
    ASSUME WriteInv, NEW b \in Writer, Commit(b)
    PROVE  /\ write[b].worker \in Worker /\ write[b].todo \in Lists
           /\ write[b].row \in Row /\ write[b].row.status # "NONE"
           /\ write[b].row.registered \in Time
           /\ Registered(write[b].worker) =>
                 write[b].row.registered = table[write[b].worker].registered
           /\ table' = [table EXCEPT ![write[b].worker] = write[b].row]
           /\ gpus' = [gpus EXCEPT ![write[b].worker] = write[b].todo]
           /\ reported' = gpus'
           /\ write[b].op = "lost" => gpus' = gpus
           /\ write' = [write EXCEPT ![b] = NoWrite]
  <1> DEFINE k == write[b]
  <1>1. /\ k \in WriteRecord /\ Write(k) /\ reported = gpus /\ gpus \in [Worker -> Lists]
    BY DEF WriteInv, Typed
  <1>2. /\ k.pc = "insert" /\ Len(k.rows) = Len(k.todo)
        /\ write' = [write EXCEPT ![b] = NoWrite]
        /\ table' = [table EXCEPT ![k.worker] = k.row]
        /\ gpus' = [gpus EXCEPT ![k.worker] = k.rows]
        /\ reported' = [reported EXCEPT ![k.worker] =
                            IF k.report # <<>> THEN k.report ELSE reported[k.worker]]
    BY Zenon DEF Commit
  <1>3. /\ k.worker \in Worker /\ k.row.status # "NONE" /\ k.row.registered \in Time
        /\ Registered(k.worker) => k.row.registered = table[k.worker].registered
        /\ k.op = "lost" => k.report = <<>>
        /\ k.todo = IF k.report # <<>> THEN k.report ELSE gpus[k.worker]
        /\ Begins(k.rows, k.todo)
    BY <1>1, <1>2 DEF Write
  <1>4. k.todo \in Lists /\ k.row \in Row /\ k.rows \in Seq(GPURow)
    BY <1>1 DEF WriteRecord
  <1> HIDE DEF k
  <1>5. k.todo \in Seq(GPURow)
    BY <1>4, ListsAreSequences
  <1>6. k.rows = k.todo
    BY <1>2, <1>3, <1>4, <1>5, InsertsGoOn
  <1>7. reported' = gpus'
    BY <1>1, <1>2, <1>3, <1>6
  <1>8. k.op = "lost" => gpus' = gpus
    BY <1>1, <1>2, <1>3, <1>6
  <1> QED BY <1>2, <1>3, <1>4, <1>6, <1>7, <1>8, Zenon DEF k

\* A commit writes the rows that its writer alone has in hand.
LEMMA CommitKeeps ==
    ASSUME WriteInv, NEW b \in Writer, Commit(b)
    PROVE  WriteInv'
  <1> DEFINE w == write[b].worker
             k == write[b]
  <1>1. /\ Write(k) /\ k.pc # "idle" /\ write \in [Writer -> WriteRecord]
        /\ table \in [Worker -> Row] /\ gpus \in [Worker -> Lists]
    BY DEF WriteInv, Typed, Commit
  <1>2. /\ w \in Worker /\ k.todo \in Lists /\ k.row \in Row
        /\ k.row.status # "NONE" /\ k.row.registered \in Time
        /\ table' = [table EXCEPT ![w] = k.row] /\ gpus' = [gpus EXCEPT ![w] = k.todo]
        /\ reported' = gpus' /\ write' = [write EXCEPT ![b] = NoWrite]
    BY CommitIsWhole, Zenon
  <1>3. /\ table' \in [Worker -> Row] /\ table'[w] = k.row
        /\ \A v \in Worker \ {w} : table'[v] = table[v] /\ gpus'[v] = gpus[v]
        /\ gpus' \in [Worker -> Lists]
    BY <1>1, <1>2
  <1>4. /\ write' \in [Writer -> WriteRecord] /\ write'[b] = NoWrite
        /\ \A a \in Writer \ {b} : write'[a] = write[a]
    BY <1>1, <1>2, NoWriteIsQuiet
  <1> HIDE DEF w, k
  <1>5. \A v \in Worker : /\ table'[v].status # "NONE" => table'[v].registered \in Time
                          /\ table'[v].status = "NONE" => gpus'[v] = <<>>
    BY <1>2, <1>3 DEF WriteInv, Typed, Registered
  <1>6. Typed' /\ \A v \in Worker : ~Registered(v)' => gpus'[v] = <<>>
    BY <1>3, <1>4, <1>5 DEF Typed, Registered
  <1>7. ASSUME NEW a \in Writer
        PROVE  Write(write[a])'
    <2>1. CASE a = b
      <3>1. write'[a] = NoWrite
        BY <1>4, <2>1
      <3> QED BY <3>1, NoWriteIsQuiet DEF Write
    <2>2. CASE a # b
      <3> DEFINE l == write[a]
      <3>1. l' = l /\ Write(l) /\ Alone(k, l)
        BY <1>4, <2>2 DEF WriteInv, k
      <3> HIDE DEF l
      <3>2. l.pc # "idle" => l.worker \in Worker /\ l.worker # w
        BY <1>1, <3>1 DEF Write, Alone, w, k
      <3>3. l.pc # "idle" => /\ table'[l.worker] = table[l.worker]
                             /\ gpus'[l.worker] = gpus[l.worker]
        BY <1>3, <3>2
      <3>4. l.pc = "insert" => l.pc # "idle"
        OBVIOUS
      <3>5. Write(l)'
        BY <3>1, <3>3 DEF Write, Registered
      <3> QED BY <3>5 DEF l
    <2> QED BY <2>1, <2>2
  <1>8. \A a, c \in Writer : a # c => Alone(write'[a], write'[c])
    <2>1. \A l : Alone(NoWrite, l) /\ Alone(l, NoWrite)
      BY NoWriteIsQuiet DEF Alone
    <2> QED BY <1>4, <2>1 DEF WriteInv
  <1> QED BY <1>2, <1>6, <1>7, <1>8 DEF WriteInv

\* No transaction is open in the beginning.
LEMMA WriteInit == Init => WriteInv
  <1> SUFFICES ASSUME Init PROVE WriteInv
    OBVIOUS
  <1>1. Absent \in Row /\ Absent.status = "NONE" /\ <<>> \in Lists
    BY DEF Absent, Row, Lists
  <1>2. /\ \A w \in Worker : table[w] = Absent
        /\ \A b \in Writer : write[b] = NoWrite
        /\ reported = gpus
    BY DEF Init
  <1>3. Typed /\ \A w \in Worker : gpus[w] = <<>>
    BY <1>1, <1>2, NoWriteIsQuiet DEF Init, Typed, Registered
  <1> QED BY <1>1, <1>2, <1>3, NoWriteIsQuiet DEF WriteInv

\* Every step of Next keeps WriteInv.
LEMMA WriteNext == WriteInv /\ [Next]_vars => WriteInv'
  <1> SUFFICES ASSUME WriteInv, [Next]_vars PROVE WriteInv'
    OBVIOUS
  <1>1. CASE UNCHANGED <<table, gpus, reported, write>>
    <2>1. /\ Typed' /\ reported' = gpus'
          /\ \A w \in Worker : ~Registered(w)' => gpus'[w] = <<>>
      BY <1>1 DEF WriteInv, Typed, Registered
    <2>2. \A l : Write(l)' <=> Write(l)
      BY <1>1 DEF Write, Registered
    <2>3. \A b \in Writer : Write(write[b])'
      BY <1>1, <2>2 DEF WriteInv
    <2>4. \A a, b \in Writer : a # b => Alone(write'[a], write'[b])
      BY <1>1 DEF WriteInv
    <2> QED BY <2>1, <2>3, <2>4 DEF WriteInv
  <1>2. ASSUME NEW b \in Writer, NEW w \in Worker, NEW t \in Time, NEW in \in RegisterInput,
               Register(b, w, t, in)
        PROVE  WriteInv'
    BY <1>2, RegisterKeeps
  <1>3. ASSUME NEW b \in Writer, NEW w \in Worker, NEW report \in Report,
               Update(b, w, "heartbeat", report)
        PROVE  WriteInv'
    BY <1>3, UpdateKeeps
  <1>4. ASSUME NEW b \in Writer, NEW w \in Worker, Update(b, w, "lost", <<>>)
        PROVE  WriteInv'
    BY <1>4, UpdateKeeps
  <1>5. ASSUME NEW b \in Writer, DeleteGPUs(b) \/ InsertGPU(b) \/ Commit(b)
        PROVE  WriteInv'
    BY <1>5, DeleteKeeps, InsertKeeps, CommitKeeps
  <1>6. ASSUME NEW b \in Writer, Fails(b)
        PROVE  WriteInv'
    BY <1>6, ForgetKeeps, Zenon DEF Fails
  <1> QED BY <1>1, <1>2, <1>3, <1>4, <1>5, <1>6, Zenon
      DEF Next, vars, StartWalk, ListPostgres, GetGPUs, PageReturned, ListMemory, EndWalk

\* What a transaction has read under the row lock stays true until it commits,
\* and it commits the whole of the list it was given.
THEOREM WriteInvariance == Spec => []WriteInv
  BY WriteInit, WriteNext, PTL DEF Spec

\* A registration that ValidateRegister accepts never runs into the unique
\* index on (worker_id, device_index).
THEOREM RegistrationsFit == Spec => []AcceptedRegistrationsFit
  <1>1. WriteInv => AcceptedRegistrationsFit
    <2> SUFFICES ASSUME WriteInv, NEW b \in Writer, write[b].op = "register", Collides(b)
                 PROVE  FALSE
      BY Zenon DEF AcceptedRegistrationsFit
    <2> DEFINE k == write[b]
               n == Len(k.rows)
    <2>1. /\ k.pc = "insert" /\ n < Len(k.todo)
          /\ \E i \in DOMAIN k.rows : k.rows[i].index = k.todo[n + 1].index
      BY DEF Collides
    <2>2. /\ k.rows \in Seq(GPURow) /\ k.todo \in Seq(GPURow)
          /\ Begins(k.rows, k.todo)
          /\ \A i, l \in DOMAIN k.todo : i < l => k.todo[i].index # k.todo[l].index
      BY <2>1, ListsAreSequences, ZenonT(40) DEF WriteInv, Typed, WriteRecord, Write
    <2> HIDE DEF k
    <2>3. PICK i \in 1..n : k.todo[i].index = k.todo[n + 1].index
      <3>1. DOMAIN k.rows = 1..n
        BY <2>2, SMT
      <3>2. \A i \in 1..n : k.rows[i] = k.todo[i]
        BY <2>2, Zenon DEF Begins
      <3> QED BY <2>1, <3>1, <3>2, ZenonT(40)
    <2>4. i \in DOMAIN k.todo /\ n + 1 \in DOMAIN k.todo /\ i < n + 1
      BY <2>1, <2>2, <2>3
    <2> QED BY <2>2, <2>3, <2>4
  <1> QED BY <1>1, WriteInvariance, PTL

\* MarkLost's rewrite of the GPU rows never undoes a heartbeat: it writes what
\* it read under the row lock.
THEOREM MarkLostIsHarmless == Spec => MarkLostKeepsInventory
  <1>1. WriteInv /\ [Next]_vars =>
           [\A b \in Writer : write[b].op = "lost" /\ write'[b] # write[b] =>
               gpus' = gpus]_vars
    <2> SUFFICES ASSUME WriteInv, [Next]_vars, NEW b \in Writer,
                        write[b].op = "lost", write'[b] # write[b]
                 PROVE  gpus' = gpus
      BY DEF vars
    <2>1. gpus' = gpus \/ \E a \in Writer : Commit(a)
      BY ZenonT(60) DEF Next, vars, Register, Update, DeleteGPUs, InsertGPU, Fails, StartWalk,
             ListPostgres, GetGPUs, PageReturned, ListMemory, EndWalk
    <2>2. ASSUME NEW a \in Writer, Commit(a)
          PROVE  gpus' = gpus
      <3>1. /\ write' = [write EXCEPT ![a] = NoWrite]
            /\ write[a].op = "lost" => gpus' = gpus
        BY <2>2, CommitIsWhole, Zenon
      <3>2. a = b
        BY <3>1 DEF WriteInv, Typed
      <3> QED BY <3>1, <3>2
    <2> QED BY <2>1, <2>2
  <1> QED BY <1>1, WriteInvariance, PTL DEF Spec, MarkLostKeepsInventory

-----------------------------------------------------------------------------
\* Keys are ordered totally.
Keys == Int \X Int

\* Before is a strict total order of the keys.
LEMMA Order ==
    /\ \A k \in Keys : ~Before(k, k)
    /\ \A k, l, m \in Keys : Before(k, l) /\ Before(l, m) => Before(k, m)
    /\ \A k, l \in Keys : k # l => Before(k, l) \/ Before(l, k)
  BY DEF Keys, Before

WalkRecord ==
    [phase: {"idle", "paging", "fetching", "done"}, via: {"none", "postgres", "memory"},
     filter: SUBSET Statuses, size: 1..MaxPageSize \cup {DefaultPageSize},
     token: Keys \cup {NoToken}, offset: Int, more: BOOLEAN, fetch: SUBSET Worker,
     seen: SUBSET Keys, due: SUBSET Keys, repeated: BOOLEAN, calm: BOOLEAN,
     whole: BOOLEAN]

\* A row that one of the next pages will hold.
Owed(k) ==
    /\ walk.more /\ k \in Matching(walk.filter)
    /\ walk.token # NoToken => Before(walk.token, k)

Keyset ==
    /\ ~walk.repeated
    /\ walk.phase = "paging" => walk.more
    /\ walk.phase = "done" => ~walk.more
    /\ walk.more /\ walk.token = NoToken => walk.seen = {}
    /\ walk.more /\ walk.token # NoToken =>
          walk.token \in walk.seen /\ \A l \in walk.seen : l = walk.token \/ Before(l, walk.token)
    /\ \A k \in walk.due : k \in walk.seen \/ Owed(k)

WalkInv ==
    /\ walk \in WalkRecord
    /\ walk.phase = "idle" => walk = NoWalk
    /\ \A w \in walk.fetch : Registered(w)
    /\ walk.whole
    /\ walk.via = "postgres" => Keyset

IInv == WriteInv /\ WalkInv

\* The keys of the matching rows.
LEMMA MatchingKeys ==
    ASSUME WriteInv, NEW filter \in SUBSET Statuses
    PROVE  /\ Matching(filter) \in SUBSET Keys
           /\ \A k \in Matching(filter) :
                 /\ k[2] \in Worker /\ Registered(k[2]) /\ k = Key(k[2])
                 /\ table[k[2]].status \in filter
  <1> DEFINE S == {v \in Worker : table[v].status \in filter}
  <1>1. Matching(filter) = {Key(v) : v \in S}
    BY DEF Matching
  <1>2. \A v \in S : /\ v \in Worker /\ Registered(v) /\ Key(v) \in Keys
                     /\ Key(v)[2] = v
    BY InventoryAssumption DEF WriteInv, Typed, Row, Registered, Statuses, Key, Keys
  <1> QED BY <1>1, <1>2

\* A client that has not begun is owed nothing.
LEMMA NoWalkRecord ==
    /\ NoWalk \in WalkRecord /\ NoWalk.fetch = {} /\ NoWalk.whole
    /\ NoWalk.via = "none" /\ NoWalk.phase = "idle"
  <1>1. 1 \in 1..MaxPageSize /\ 0 \in Int
    BY InventoryAssumption
  <1> QED BY <1>1 DEF NoWalk, WalkRecord, NoToken

\* No key is the empty token.
LEMMA KeysAreTokens == \A k \in Keys : k # NoToken
  BY DEF Keys, NoToken

\* The first page: nothing is seen, and every matching row is owed.
LEMMA StartWalkKeeps ==
    ASSUME IInv, NEW via \in {"postgres", "memory"}, NEW filter \in SUBSET Statuses,
           NEW n \in PageSizes, StartWalk(via, filter, n)
    PROVE  WalkInv'
  <1> DEFINE size == PageSizeOf(n)
             due == Matching(filter)
  <1>1. size \in 1..MaxPageSize \cup {DefaultPageSize}
    BY InventoryAssumption DEF PageSizeOf
  <1>2. due \in SUBSET Keys
    BY MatchingKeys DEF IInv
  <1>3. /\ walk' = [NoWalk EXCEPT !.phase = "paging", !.via = via, !.filter = filter,
                                  !.size = size, !.due = due]
        /\ UNCHANGED <<table, gpus, reported, write>>
    BY DEF StartWalk
  <1> HIDE DEF size, due
  <1>4. /\ walk' \in WalkRecord /\ walk'.phase = "paging" /\ walk'.via = via
        /\ walk'.filter = filter /\ walk'.due = due /\ walk'.seen = {}
        /\ walk'.token = NoToken /\ walk'.fetch = {}
    <2>1. walk' \in WalkRecord
      BY <1>1, <1>2, <1>3, NoWalkRecord, Zenon DEF WalkRecord
    <2> QED BY <1>3, <2>1 DEF NoWalk
  <1>5. walk'.more /\ walk'.whole /\ ~walk'.repeated
    BY <1>3 DEF NoWalk
  <1>6. due' = due
    BY <1>3 DEF due, Matching, Key
  <1>7. \A k \in walk'.due : Owed(k)'
    BY <1>3, <1>4, <1>5 DEF Owed, due, Matching, Key
  <1>8. Keyset'
    BY <1>4, <1>5, <1>7 DEF Keyset
  <1> QED BY <1>4, <1>5, <1>8 DEF WalkInv

\* The client's other steps, and the walks of the in-memory repository.
LEMMA GetGPUsKeeps ==
    ASSUME IInv, NEW w \in Worker, GetGPUs(w)
    PROVE  WalkInv'
  <1> DEFINE fetch == walk.fetch \ {w}
             whole == walk.whole /\ gpus[w] = reported[w]
  <1>1. /\ walk.phase = "fetching" /\ w \in walk.fetch /\ UNCHANGED <<table, gpus, reported, write>>
        /\ walk' = [walk EXCEPT !.fetch = fetch, !.whole = whole]
    BY DEF GetGPUs
  <1>2. walk \in WalkRecord /\ \A v \in walk.fetch : Registered(v)
    BY DEF IInv, WalkInv
  <1>3. whole = TRUE
    BY <1>1, <1>2 DEF IInv, WriteInv, WalkInv
  <1>4. fetch \in SUBSET Worker
    BY <1>2 DEF WalkRecord
  <1> HIDE DEF whole
  <1>5. /\ walk' \in WalkRecord /\ walk'.phase = "fetching" /\ walk'.via = walk.via
        /\ walk'.filter = walk.filter /\ walk'.due = walk.due /\ walk'.seen = walk.seen
        /\ walk'.token = walk.token /\ walk'.fetch = fetch
        /\ walk'.more = walk.more /\ walk'.repeated = walk.repeated /\ walk'.whole = TRUE
    BY <1>1, <1>2, <1>3, <1>4, Zenon DEF WalkRecord
  <1>6. walk'.via = "postgres" => Keyset'
    BY <1>1, <1>5 DEF IInv, WalkInv, Keyset, Owed, Matching, Key
  <1>7. \A v \in walk'.fetch : Registered(v)'
    BY <1>1, <1>2, <1>5 DEF Registered
  <1> QED BY <1>5, <1>6, <1>7 DEF WalkInv

\* Returning the page changes neither what is seen nor what is owed.
LEMMA PageReturnedKeeps ==
    ASSUME IInv, PageReturned
    PROVE  WalkInv'
  <1> DEFINE phase == IF walk.more THEN "paging" ELSE "done"
  <1>1. /\ walk.phase = "fetching" /\ walk.fetch = {} /\ UNCHANGED <<table, gpus, reported, write>>
        /\ walk' = [walk EXCEPT !.phase = phase]
    BY DEF PageReturned
  <1>2. walk \in WalkRecord /\ walk.whole
    BY DEF IInv, WalkInv
  <1>3. phase \in {"paging", "done"} /\ (phase = "paging" <=> walk.more)
    OBVIOUS
  <1> HIDE DEF phase
  <1>4. /\ walk' \in WalkRecord /\ walk'.phase = phase /\ walk'.via = walk.via
        /\ walk'.filter = walk.filter /\ walk'.due = walk.due /\ walk'.seen = walk.seen
        /\ walk'.token = walk.token /\ walk'.fetch = {}
        /\ walk'.more = walk.more /\ walk'.repeated = walk.repeated /\ walk'.whole = walk.whole
    BY <1>1, <1>2, <1>3, Zenon DEF WalkRecord
  <1>5. walk'.via = "postgres" => Keyset'
    BY <1>1, <1>3, <1>4 DEF IInv, WalkInv, Keyset, Owed, Matching, Key
  <1> QED BY <1>2, <1>3, <1>4, <1>5 DEF WalkInv

\* The walk by offset keeps the walk well formed.
LEMMA ListMemoryKeeps ==
    ASSUME IInv, ListMemory
    PROVE  WalkInv'
  <1> DEFINE keys == Matching(walk.filter)
             page == OffsetPage(keys, walk.offset, walk.size)
             seen == walk.seen \cup page
             repeated == walk.repeated \/ page \cap walk.seen # {}
             offset == OffsetNext(keys, walk.offset, walk.size)
             more == OffsetMore(keys, walk.offset, walk.size)
             phase == IF more THEN "paging" ELSE "done"
  <1>1. /\ walk.via = "memory" /\ UNCHANGED <<table, gpus, reported, write>>
        /\ walk' = [walk EXCEPT !.seen = seen, !.repeated = repeated, !.offset = offset,
                                !.more = more, !.phase = phase]
    BY DEF ListMemory
  <1>2. walk \in WalkRecord /\ walk.whole /\ \A w \in walk.fetch : Registered(w)
    BY DEF IInv, WalkInv
  <1>3. keys \in SUBSET Keys
    BY <1>2, MatchingKeys DEF IInv, WalkRecord
  <1>4. /\ seen \in SUBSET Keys /\ phase \in {"paging", "done"}
        /\ repeated \in BOOLEAN /\ more \in BOOLEAN
    BY <1>2, <1>3 DEF WalkRecord, OffsetPage, OffsetMore
  <1>5. offset \in Int
    BY <1>2, InventoryAssumption DEF WalkRecord, OffsetNext
  <1> HIDE DEF keys, page, seen, repeated, offset, more, phase
  <1>6. /\ walk' \in WalkRecord /\ walk'.via = "memory" /\ walk'.phase = phase
        /\ walk'.fetch = walk.fetch /\ walk'.whole = walk.whole
    BY <1>1, <1>2, <1>4, <1>5, ZenonT(40) DEF WalkRecord
  <1> QED BY <1>1, <1>2, <1>4, <1>6 DEF WalkInv, Registered

\* A commit between two pages: the row keeps its key, so that only the row
\* itself can start or stop matching.
LEMMA CommitKeepsWalk ==
    ASSUME IInv, NEW b \in Writer, Commit(b)
    PROVE  WalkInv'
  <1> DEFINE w == write[b].worker
             row == write[b].row
             key == <<row.registered, w>>
             before == table[w].status \in walk.filter
             after == row.status \in walk.filter
             ahead == walk.more /\ \A l \in walk.seen : Before(l, key)
  <1>1. /\ w \in Worker /\ row \in Row /\ row.status # "NONE" /\ row.registered \in Time
        /\ Registered(w) => row.registered = table[w].registered
        /\ table \in [Worker -> Row]
    BY CommitIsWhole DEF IInv, WriteInv, Typed
  <1>2. table' = [table EXCEPT ![w] = row]
    BY Zenon DEF Commit
  <1>3. table'[w] = row /\ \A v \in Worker \ {w} : table'[v] = table[v]
    BY <1>1, <1>2
  <1>4. /\ walk \in WalkRecord /\ walk.filter \in SUBSET Statuses /\ walk.whole
        /\ walk.phase = "idle" => walk = NoWalk
        /\ \A v \in walk.fetch : Registered(v) /\ v \in Worker
        /\ walk.via = "postgres" => Keyset
    BY DEF IInv, WalkInv, WalkRecord
  <1>5. key \in Keys /\ key[1] = row.registered /\ key[2] = w
    BY <1>1, InventoryAssumption, Zenon DEF Keys
  <1>6. walk' = IF walk.phase = "idle" \/ before = after THEN walk
                ELSE [walk EXCEPT !.due = IF ~after THEN @ \ {key}
                                          ELSE IF ahead THEN @ \cup {key} ELSE @,
                                  !.calm = @ /\ ahead]
    BY DEF Commit, Noticed
  <1> HIDE DEF w, row
  <1>7. ASSUME NEW m \in Matching(walk.filter)
        PROVE  /\ m = key => before
               /\ (m # key \/ after) => m \in {<<table'[v].registered, v>> :
                                                v \in {u \in Worker : table'[u].status \in walk.filter}}
    <2>1. /\ m[2] \in Worker /\ Registered(m[2]) /\ m = <<table[m[2]].registered, m[2]>>
          /\ table[m[2]].status \in walk.filter
      BY <1>4, MatchingKeys DEF IInv, Key
    <2>2. CASE m[2] = w
      <3>1. m = key /\ before
        BY <1>1, <2>1, <2>2, SMTT(30)
      <3>2. after => m \in {<<table'[v].registered, v>> :
                             v \in {u \in Worker : table'[u].status \in walk.filter}}
        BY <1>1, <1>3, <3>1
      <3> QED BY <3>1, <3>2
    <2>3. CASE m[2] # w
      <3>1. m # key
        BY <1>5, <2>3, SMTT(30)
      <3> QED BY <1>3, <2>1, <2>3, <3>1
    <2> QED BY <2>2, <2>3
  <1>8. after => key \in {<<table'[v].registered, v>> :
                            v \in {u \in Worker : table'[u].status \in walk.filter}}
    BY <1>1, <1>3
  <1>9. \A v \in walk.fetch : Registered(v)'
    BY <1>1, <1>3, <1>4 DEF Registered
  <1> HIDE DEF key, before, after, ahead
  <1>10. \A filter : Matching(filter)' = {<<table'[v].registered, v>> :
                                             v \in {u \in Worker : table'[u].status \in filter}}
    BY SMTT(30) DEF Matching, Key
  <1>11. CASE walk.phase = "idle" \/ before = after
    <2>1. walk' = walk
      BY <1>6, <1>11, SMTT(30)
    <2>2. ASSUME walk.via = "postgres"
          PROVE  Keyset'
      <3>1. before = after
        BY <1>4, <1>11, <2>2, NoWalkRecord, SMTT(30)
      <3>2. \A k : Owed(k) => Owed(k)'
        BY <1>7, <1>10, <2>1, <3>1, Zenon DEF Owed
      <3> QED BY <1>4, <2>1, <2>2, <3>2, Zenon DEF Keyset
    <2> QED BY <1>4, <1>9, <2>1, <2>2 DEF WalkInv
  <1>12. CASE walk.phase # "idle" /\ before # after
    <2> DEFINE due == IF ~after THEN walk.due \ {key}
                      ELSE IF ahead THEN walk.due \cup {key} ELSE walk.due
               calm == walk.calm /\ ahead
    <2>1. walk' = [walk EXCEPT !.due = due, !.calm = calm]
      BY <1>6, <1>12, SMTT(30)
    <2>2. due \in SUBSET Keys /\ calm \in BOOLEAN
      BY <1>4, <1>5, SMTT(30) DEF WalkRecord, ahead
    <2> HIDE DEF due, calm
    <2>3. /\ walk' \in WalkRecord /\ walk'.phase = walk.phase /\ walk'.via = walk.via
          /\ walk'.filter = walk.filter /\ walk'.due = due /\ walk'.seen = walk.seen
          /\ walk'.token = walk.token /\ walk'.fetch = walk.fetch
          /\ walk'.more = walk.more /\ walk'.repeated = walk.repeated
          /\ walk'.whole = walk.whole
      BY <1>4, <2>1, <2>2, ZenonT(40) DEF WalkRecord
    <2>4. ASSUME walk.via = "postgres"
          PROVE  Keyset'
      <3>1. Keyset
        BY <1>4, <2>4, SMTT(30)
      <3>2. \A k : Owed(k) /\ k # key => Owed(k)'
        BY <1>7, <1>10, <2>3, Zenon DEF Owed
      <3>3. after => ~before
        BY <1>12 DEF before, after
      <3>4. after => ~Owed(key)
        BY <1>7, <3>3, SMTT(30) DEF Owed
      <3>5. ASSUME after, ahead, NEW k, k = key
            PROVE  Owed(k)'
        <4>1. walk.more /\ \A l \in walk.seen : Before(l, key)
          BY <3>5 DEF ahead
        <4>2. walk.token # NoToken => Before(walk.token, key)
          BY <3>1, <4>1 DEF Keyset
        <4> QED BY <1>8, <1>10, <2>3, <3>5, <4>1, <4>2, Zenon DEF Owed
      <3>6. ASSUME NEW k \in due
            PROVE  k \in walk.seen \/ Owed(k)'
        <4>1. CASE ~after
          <5>1. k \in walk.due /\ k # key
            BY <3>6, <4>1 DEF due
          <5> QED BY <3>1, <3>2, <5>1 DEF Keyset
        <4>2. CASE after /\ ahead
          <5>1. k \in walk.due \/ k = key
            BY <3>6, <4>2, SMTT(30) DEF due
          <5> QED BY <3>1, <3>2, <3>5, <4>2, <5>1 DEF Keyset
        <4>3. CASE after /\ ~ahead
          <5>1. k \in walk.due
            BY <3>6, <4>3 DEF due
          <5> QED BY <3>1, <3>2, <3>4, <4>3, <5>1 DEF Keyset
        <4> QED BY <4>1, <4>2, <4>3, SMTT(30)
      <3> QED BY <2>3, <3>1, <3>6, Zenon DEF Keyset
    <2> QED BY <1>4, <1>9, <1>12, <2>3, <2>4, Zenon DEF WalkInv
  <1> QED BY <1>11, <1>12

\* A step that touches neither the rows nor the walk.
LEMMA WalkUntouched ==
    ASSUME WalkInv, table' = table, walk' = walk
    PROVE  WalkInv'
  <1>1. Keyset => Keyset'
    BY SMTT(30) DEF Keyset, Owed, Matching, Key
  <1> QED BY <1>1 DEF WalkInv, Registered

-----------------------------------------------------------------------------
(***************************************************************************)
(* The walk by offset, while nothing has changed behind its position.      *)
(* What it has shown is a prefix of the list, as long as its offset: then  *)
(* the next page begins with the first row that it has not shown.          *)
(***************************************************************************)
Prefix(S, A) == S \subseteq A /\ \A l \in S, k \in A \ S : Before(l, k)

Positioned(keys) ==
    /\ walk.more /\ walk.offset = Cardinality(walk.seen)
    /\ Prefix(walk.seen, keys) /\ walk.due \subseteq keys

OffsetInv ==
    walk.via = "memory" /\ walk.calm =>
        /\ ~walk.repeated /\ walk.phase \in {"paging", "done"}
        /\ walk.phase = "paging" => Positioned(Matching(walk.filter))
        /\ walk.phase = "done" => ~walk.more /\ walk.due \subseteq walk.seen

\* What a commit does to a listing: only the row's own key can come or go.
LEMMA CommitMoves ==
    ASSUME IInv, NEW b \in Writer, Commit(b), NEW filter \in SUBSET Statuses
    PROVE  LET key == <<write[b].row.registered, write[b].worker>> IN
           /\ key \in Keys
           /\ Matching(filter)' \in SUBSET Keys
           /\ \A m \in Keys \ {key} : m \in Matching(filter)' <=> m \in Matching(filter)
           /\ key \in Matching(filter) <=> table[write[b].worker].status \in filter
           /\ key \in Matching(filter)' <=> write[b].row.status \in filter
  <1> DEFINE w == write[b].worker
             row == write[b].row
             key == <<row.registered, w>>
  <1>1. /\ w \in Worker /\ row \in Row /\ row.status # "NONE" /\ row.registered \in Time
        /\ Registered(w) => row.registered = table[w].registered
        /\ table \in [Worker -> Row]
    BY CommitIsWhole DEF IInv, WriteInv, Typed
  <1>2. table' = [table EXCEPT ![w] = row]
    BY Zenon DEF Commit
  <1> HIDE DEF w, row
  <1>3. table'[w] = row /\ \A v \in Worker \ {w} : table'[v] = table[v]
    BY <1>1, <1>2
  <1>4. key \in Keys /\ key[1] = row.registered /\ key[2] = w
    BY <1>1, InventoryAssumption, Zenon DEF Keys
  <1>5. \A v \in Worker : table[v].status \in filter => Registered(v)
    BY DEF Registered, Statuses
  <1> DEFINE M == {<<table[v].registered, v>> : v \in {u \in Worker : table[u].status \in filter}}
             N == {<<table'[v].registered, v>> : v \in {u \in Worker : table'[u].status \in filter}}
  <1>6. Matching(filter) = M /\ Matching(filter)' = N
    BY Zenon DEF Matching, Key
  <1>7. key \in M <=> table[w].status \in filter
    <2>1. ASSUME key \in M PROVE table[w].status \in filter
      <3>1. PICK v \in Worker : key = <<table[v].registered, v>> /\ table[v].status \in filter
        BY <2>1
      <3> QED BY <1>4, <3>1
    <2>2. ASSUME table[w].status \in filter PROVE key \in M
      BY <1>1, <1>5, <2>2
    <2> QED BY <2>1, <2>2
  <1>8. key \in N <=> row.status \in filter
    <2>1. ASSUME key \in N PROVE row.status \in filter
      <3>1. PICK v \in Worker : key = <<table'[v].registered, v>> /\ table'[v].status \in filter
        BY <2>1
      <3> QED BY <1>3, <1>4, <3>1
    <2>2. ASSUME row.status \in filter PROVE key \in N
      BY <1>1, <1>3, <2>2
    <2> QED BY <2>1, <2>2
  <1>9. \A v \in Worker : <<table'[v].registered, v>> \in Keys
    BY <1>1, <1>2, InventoryAssumption DEF Row, Keys
  <1>10. N \in SUBSET Keys
    BY <1>9
  <1>11. ASSUME NEW m \in Keys \ {key}, m \in M PROVE m \in N
    <2>1. PICK v \in Worker : m = <<table[v].registered, v>> /\ table[v].status \in filter
      BY <1>11
    <2>2. v # w
      BY <1>1, <1>5, <1>11, <2>1
    <2> QED BY <1>3, <2>1, <2>2
  <1>12. ASSUME NEW m \in Keys \ {key}, m \in N PROVE m \in M
    <2>1. PICK v \in Worker : m = <<table'[v].registered, v>> /\ table'[v].status \in filter
      BY <1>12
    <2>2. v # w
      BY <1>3, <1>12, <2>1
    <2> QED BY <1>3, <2>1, <2>2
  <1> HIDE DEF M, N, key
  <1> QED BY <1>4, <1>6, <1>7, <1>8, <1>10, <1>11, <1>12, Zenon DEF key, w, row

\* A commit ahead of the position leaves what was shown a prefix; a commit
\* behind it, or after the last page, ends the calm.
LEMMA CommitKeepsOffset ==
    ASSUME IInv, OffsetInv, NEW b \in Writer, Commit(b)
    PROVE  OffsetInv'
  <1> DEFINE key == <<write[b].row.registered, write[b].worker>>
             before == table[write[b].worker].status \in walk.filter
             after == write[b].row.status \in walk.filter
             ahead == walk.more /\ \A l \in walk.seen : Before(l, key)
             due == IF ~after THEN walk.due \ {key}
                    ELSE IF ahead THEN walk.due \cup {key} ELSE walk.due
             M == Matching(walk.filter)
             filter == walk.filter
  <1>1. walk \in WalkRecord
    BY DEF IInv, WalkInv
  <1>2. walk.filter \in SUBSET Statuses /\ walk.seen \in SUBSET Keys /\ walk.due \in SUBSET Keys
    BY <1>1 DEF WalkRecord
  <1>3. walk' = IF walk.phase = "idle" \/ before = after THEN walk
                ELSE [walk EXCEPT !.due = due, !.calm = walk.calm /\ ahead]
    BY DEF Commit, Noticed
  <1>4. /\ key \in Keys /\ M \in SUBSET Keys
        /\ key \in M <=> before
    BY <1>2, CommitMoves, MatchingKeys, Zenon DEF IInv
  <1>5. PICK N \in SUBSET Keys :
            /\ walk'.filter = walk.filter => N = Matching(walk.filter)'
            /\ \A m \in Keys \ {key} : m \in N <=> m \in M
            /\ key \in N <=> after
    <2> DEFINE N == {<<table'[v].registered, v>> :
                         v \in {u \in Worker : table'[u].status \in filter}}
    <2>1. ASSUME NEW f \in SUBSET Statuses, f = filter
          PROVE  /\ Matching(f)' \in SUBSET Keys
                 /\ \A m \in Keys \ {key} : m \in Matching(f)' <=> m \in M
                 /\ key \in Matching(f)' <=> after
      BY <2>1, CommitMoves
    <2>2. ASSUME NEW f, f = filter
          PROVE  Matching(f)' = N
      BY <2>2 DEF Matching, Key
    <2>3. walk'.filter = walk.filter => Matching(walk.filter)' = N
      BY Zenon DEF Matching, Key
    <2> HIDE DEF N
    <2> QED BY <1>2, <2>1, <2>2, <2>3
  <1> HIDE DEF key, before, after, ahead, M
  <1> SUFFICES ASSUME walk'.via = "memory", walk'.calm
               PROVE  /\ ~walk'.repeated /\ walk'.phase \in {"paging", "done"}
                      /\ walk'.phase = "paging" => Positioned(Matching(walk.filter))'
                      /\ walk'.phase = "done" => ~walk'.more /\ walk'.due \subseteq walk'.seen
    BY Zenon DEF OffsetInv
  <1>6. CASE walk.phase = "idle" \/ before = after
    <2>1. walk' = walk
      BY <1>3, <1>6
    <2>2. /\ ~walk.repeated /\ walk.phase \in {"paging", "done"}
          /\ walk.phase = "paging" => Positioned(M)
          /\ walk.phase = "done" => ~walk.more /\ walk.due \subseteq walk.seen
      BY <2>1 DEF OffsetInv, M
    <2>3. N = M
      <3>1. before <=> after
        <4>1. walk.phase # "idle"
          BY <2>2
        <4> QED BY <1>6, <4>1, Zenon DEF before, after
      <3>2. \A m \in Keys : m \in N <=> m \in M
        BY <1>4, <1>5, <3>1, ZenonT(40)
      <3> QED BY <1>4, <1>5, <3>2, Zenon
    <2>4. Matching(walk.filter)' = M
      BY <1>5, <2>1, <2>3, Zenon
    <2> QED BY <2>1, <2>2, <2>4, Zenon DEF Positioned
  <1>7. CASE ~(walk.phase = "idle" \/ before = after)
    <2>1. walk' = [walk EXCEPT !.due = due, !.calm = walk.calm /\ ahead]
      BY <1>3, <1>7, Zenon
    <2> HIDE DEF due
    <2>2. /\ walk'.via = walk.via /\ walk'.repeated = walk.repeated /\ walk'.phase = walk.phase
          /\ walk'.more = walk.more /\ walk'.due = due /\ walk'.seen = walk.seen
          /\ walk'.offset = walk.offset /\ walk'.filter = walk.filter
          /\ walk.calm /\ ahead
      BY <1>1, <2>1, ZenonT(40) DEF WalkRecord
    <2>3. walk.more /\ \A l \in walk.seen : Before(l, key)
      BY <2>2, Zenon DEF ahead
    <2>4. ~walk.repeated /\ walk.phase = "paging" /\ Positioned(M)
      BY <2>2, <2>3 DEF OffsetInv, M
    <2>5. key \notin walk.seen
      BY <1>4, <2>3, Order
    <2>6. Prefix(walk.seen, N)
      <3>1. Prefix(walk.seen, M)
        BY <2>4 DEF Positioned
      <3>2. walk.seen \subseteq N
        BY <1>2, <1>5, <2>5, <3>1 DEF Prefix
      <3>3. ASSUME NEW l \in walk.seen, NEW k \in N \ walk.seen
            PROVE  Before(l, k)
        <4>1. CASE k = key
          BY <2>3, <4>1
        <4>2. CASE k # key
          BY <1>5, <3>1, <4>2 DEF Prefix
        <4> QED BY <4>1, <4>2
      <3> QED BY <3>2, <3>3 DEF Prefix
    <2>7. due \subseteq N
      <3>1. walk.due \subseteq M
        BY <2>4 DEF Positioned
      <3>2. CASE ~after
        BY <1>2, <1>5, <3>1, <3>2 DEF due
      <3>3. CASE after
        BY <1>2, <1>5, <3>1, <3>3, Zenon DEF due
      <3> QED BY <3>2, <3>3
    <2>8. Matching(walk.filter)' = N
      BY <1>5, <2>2, Zenon
    <2>9. walk.offset = Cardinality(walk.seen)
      BY <2>4 DEF Positioned
    <2> QED BY <2>2, <2>3, <2>4, <2>6, <2>7, <2>8, <2>9, Zenon DEF Positioned
  <1> QED BY <1>6, <1>7, Zenon

\* A step that touches neither the rows nor the walk.
LEMMA OffsetUntouched ==
    ASSUME OffsetInv, table' = table, walk' = walk
    PROVE  OffsetInv'
  <1>1. Matching(walk.filter)' = Matching(walk.filter)
    BY DEF Matching, Key
  <1> QED BY <1>1 DEF OffsetInv, Positioned, Prefix

-----------------------------------------------------------------------------
\* From here on the facts about finite sets are used.
INSTANCE FiniteSetTheorems

\* The rank of a key in a finite set counts the keys before it.
LEMMA Ranks ==
    ASSUME NEW A \in SUBSET Keys, IsFiniteSet(A)
    PROVE  /\ Cardinality(A) \in Nat
           /\ \A k \in A : Rank(k, A) \in Nat /\ Rank(k, A) < Cardinality(A)
           /\ \A k, l \in A : Before(k, l) => Rank(k, A) < Rank(l, A)
  <1>1. Cardinality(A) \in Nat
    BY FS_CardinalityType
  <1> DEFINE Less(k) == {l \in A : Before(l, k)}
  <1>2. ASSUME NEW k \in A
        PROVE  /\ Less(k) \in SUBSET A /\ k \notin Less(k) /\ Rank(k, A) = Cardinality(Less(k))
               /\ IsFiniteSet(Less(k)) /\ Cardinality(Less(k)) \in Nat
    <2>1. Less(k) \in SUBSET A /\ k \notin Less(k)
      BY Order
    <2>2. Rank(k, A) = Cardinality(Less(k))
      BY DEF Rank
    <2> HIDE DEF Less
    <2>3. IsFiniteSet(Less(k))
      BY <2>1, FS_Subset
    <2> QED BY <2>1, <2>2, <2>3, FS_CardinalityType
  <1>3. ASSUME NEW k \in A
        PROVE  Rank(k, A) \in Nat /\ Rank(k, A) < Cardinality(A)
    <2> HIDE DEF Less
    <2>1. Cardinality(Less(k)) <= Cardinality(A) /\ Cardinality(Less(k)) # Cardinality(A)
      BY <1>2, FS_Subset
    <2> QED BY <1>1, <1>2, <2>1
  <1>4. ASSUME NEW k \in A, NEW l \in A, Before(k, l)
        PROVE  Rank(k, A) < Rank(l, A)
    <2>1. Less(k) \subseteq Less(l)
      BY <1>4, Order
    <2>2. k \in Less(l) /\ k \notin Less(k)
      BY <1>4, Order
    <2> HIDE DEF Less
    <2>3. Cardinality(Less(k)) <= Cardinality(Less(l)) /\ Cardinality(Less(k)) # Cardinality(Less(l))
      BY <1>2, <2>1, <2>2, FS_Subset
    <2> QED BY <1>2, <2>3
  <1> QED BY <1>1, <1>3, <1>4

\* Every rank below the size of the set is taken.
LEMMA RanksAreTaken ==
    ASSUME NEW A \in SUBSET Keys, IsFiniteSet(A), NEW n \in Nat, n < Cardinality(A)
    PROVE  \E k \in A : Rank(k, A) = n
  <1> DEFINE size == Cardinality(A)
             f == [k \in A |-> Rank(k, A)]
             T == 0..(size - 1)
  <1>1. size \in Nat /\ \A k \in A : Rank(k, A) \in T
    BY Ranks
  <1>2. \A k, l \in A : Rank(k, A) = Rank(l, A) => k = l
    <2> SUFFICES ASSUME NEW k \in A, NEW l \in A, k # l
                 PROVE  Rank(k, A) # Rank(l, A)
      OBVIOUS
    <2>1. Rank(k, A) \in Nat /\ Rank(l, A) \in Nat
      BY Ranks
    <2>2. Before(k, l) \/ Before(l, k)
      BY Order
    <2>3. Rank(k, A) < Rank(l, A) \/ Rank(l, A) < Rank(k, A)
      BY <2>2, Ranks
    <2> QED BY <2>1, <2>3
  <1>3. IsFiniteSet(T) /\ Cardinality(T) = size
    <2>1. 0 \in Int /\ size - 1 \in Int /\ ~(0 > size - 1) /\ (size - 1) - 0 + 1 = size
      BY <1>1
    <2>2. IsFiniteSet(T) /\ Cardinality(T) = IF 0 > size - 1 THEN 0 ELSE (size - 1) - 0 + 1
      BY <2>1, FS_Interval, Zenon
    <2> QED BY <2>1, <2>2
  <1> HIDE DEF T
  <1>4. f \in Injection(A, T)
    BY <1>1, <1>2 DEF Injection, IsInjective
  <1>5. f \in Surjection(A, T)
    BY <1>3, <1>4, FS_Injection
  <1>6. n \in T
    BY <1>1 DEF T
  <1> QED BY <1>5, <1>6, Zenon DEF Surjection

\* A page that has rows has a last one.
LEMMA LastOfPage ==
    ASSUME NEW P \in SUBSET Keys, IsFiniteSet(P), P # {}
    PROVE  Last(P) \in P /\ \A l \in P : l # Last(P) => Before(l, Last(P))
  <1> DEFINE n == Cardinality(P)
  <1>1. n \in Nat /\ n # 0
    BY FS_CardinalityType, FS_EmptySet
  <1>2. n - 1 \in Nat /\ n - 1 < n
    BY <1>1
  <1>3. PICK k \in P : Rank(k, P) = n - 1
    BY <1>2, RanksAreTaken
  <1>4. ASSUME NEW l \in P, l # k
        PROVE  Before(l, k)
    <2>1. Rank(l, P) \in Nat /\ Rank(l, P) < n
      BY Ranks
    <2>2. Before(k, l) => n - 1 < Rank(l, P)
      BY <1>3, Ranks
    <2>3. ~Before(k, l)
      BY <1>1, <2>1, <2>2
    <2> QED BY <1>4, <2>3, Order
  <1>5. \E m \in P : \A l \in P : l # m => Before(l, m)
    BY <1>4
  <1> QED BY <1>5 DEF Last

\* A page takes the first keys after the token: what it leaves out comes after
\* its last row, and it leaves out nothing if there is no more.
LEMMA PageIsPrefix ==
    ASSUME NEW keys \in SUBSET Keys, IsFiniteSet(keys), NEW token, NEW size \in Nat \ {0}
    PROVE  LET A == After(keys, token)
               page == KeysetPage(keys, token, size) IN
           /\ page \subseteq A /\ A \subseteq keys
           /\ ~KeysetMore(keys, token, size) => page = A
           /\ KeysetMore(keys, token, size) =>
                 /\ Last(page) \in page
                 /\ \A l \in page : l # Last(page) => Before(l, Last(page))
                 /\ \A k \in A \ page : Before(Last(page), k)
  <1> DEFINE A == After(keys, token)
             page == KeysetPage(keys, token, size)
  <1>1. A \in SUBSET Keys /\ A \subseteq keys /\ IsFiniteSet(A)
    BY FS_Subset DEF After
  <1>2. page = {k \in A : Rank(k, A) < size}
    BY DEF KeysetPage
  <1>3. KeysetMore(keys, token, size) <=> Cardinality(A) > size
    BY DEF KeysetMore
  <1> HIDE DEF A, page
  <1>4. Cardinality(A) \in Nat
    BY <1>1, FS_CardinalityType
  <1>5. ASSUME ~KeysetMore(keys, token, size)
        PROVE  page = A
    <2>1. \A k \in A : Rank(k, A) < size
      BY <1>1, <1>3, <1>4, <1>5, Ranks
    <2> QED BY <1>2, <2>1
  <1>6. ASSUME KeysetMore(keys, token, size)
        PROVE  /\ Last(page) \in page
               /\ \A l \in page : l # Last(page) => Before(l, Last(page))
               /\ \A k \in A \ page : Before(Last(page), k)
    <2>1. 0 \in Nat /\ 0 < Cardinality(A)
      BY <1>3, <1>4, <1>6
    <2>2. \E k \in A : Rank(k, A) = 0
      BY <1>1, <2>1, RanksAreTaken
    <2>3. page # {}
      BY <1>2, <2>2
    <2>4. page \in SUBSET Keys /\ IsFiniteSet(page)
      BY <1>1, <1>2, FS_Subset
    <2>5. Last(page) \in page /\ \A l \in page : l # Last(page) => Before(l, Last(page))
      BY <2>3, <2>4, LastOfPage
    <2>6. ASSUME NEW k \in A \ page
          PROVE  Before(Last(page), k)
      <3>1. k \in A /\ Last(page) \in A /\ k # Last(page)
        BY <1>2, <2>5
      <3>2. Rank(k, A) \in Nat /\ Rank(Last(page), A) \in Nat
        BY <1>1, <3>1, Ranks
      <3>3. ~(Rank(k, A) < size) /\ Rank(Last(page), A) < size
        BY <1>2, <2>5
      <3>4. ~Before(k, Last(page))
        BY <1>1, <3>1, <3>2, <3>3, Ranks
      <3> QED BY <1>1, <3>1, <3>4, Order
    <2> QED BY <2>5, <2>6
  <1> QED BY <1>1, <1>2, <1>5, <1>6 DEF A, page

\* There are finitely many of them.
LEMMA MatchingIsFinite == \A filter : IsFiniteSet(Matching(filter))
  <1> SUFFICES ASSUME NEW filter
               PROVE  IsFiniteSet(Matching(filter))
    OBVIOUS
  <1> DEFINE S == {v \in Worker : table[v].status \in filter}
             f == [v \in S |-> Key(v)]
  <1>1. IsFiniteSet(S)
    BY InventoryAssumption, FS_Subset
  <1>2. f \in Surjection(S, Matching(filter))
    BY DEF Surjection, Matching
  <1> QED BY <1>1, <1>2, FS_Surjection

\* A page by key is a prefix of what is owed and after the token.
LEMMA ListPostgresKeeps ==
    ASSUME IInv, ListPostgres
    PROVE  WalkInv'
  <1> DEFINE keys == Matching(walk.filter)
             A == After(keys, walk.token)
             page == KeysetPage(keys, walk.token, walk.size)
             more == KeysetMore(keys, walk.token, walk.size)
             token == IF more THEN Last(page) ELSE NoToken
             fetch == {k[2] : k \in page}
             seen == walk.seen \cup page
             repeated == walk.repeated \/ page \cap walk.seen # {}
  <1>1. /\ walk.phase = "paging" /\ walk.via = "postgres" /\ UNCHANGED <<table, gpus, reported, write>>
        /\ walk' = [walk EXCEPT !.phase = "fetching", !.fetch = fetch, !.more = more,
                        !.token = token, !.seen = seen, !.repeated = repeated]
    BY DEF ListPostgres
  <1>2. walk \in WalkRecord /\ Keyset /\ walk.more /\ walk.whole
    BY <1>1 DEF IInv, WalkInv, Keyset
  <1>3. /\ walk.filter \in SUBSET Statuses /\ walk.size \in Nat \ {0}
        /\ walk.seen \in SUBSET Keys /\ walk.due \in SUBSET Keys
        /\ walk.token \in Keys \cup {NoToken}
    BY <1>2, InventoryAssumption DEF WalkRecord
  <1>4. /\ keys \in SUBSET Keys /\ IsFiniteSet(keys)
        /\ \A k \in keys : k[2] \in Worker /\ Registered(k[2])
    BY <1>3, MatchingKeys, MatchingIsFinite, SMTT(30) DEF IInv
  <1>5. /\ page \subseteq A /\ A \subseteq keys
        /\ ~more => page = A
        /\ more => /\ Last(page) \in page
                   /\ \A l \in page : l # Last(page) => Before(l, Last(page))
                   /\ \A k \in A \ page : Before(Last(page), k)
    BY <1>3, <1>4, PageIsPrefix
  <1>6. more \in BOOLEAN
    BY DEF KeysetMore
  <1>7. A = {k \in keys : walk.token # NoToken => Before(walk.token, k)}
    BY DEF After
  <1> HIDE DEF keys, A, page, more
  <1>8. page \cap walk.seen = {}
    <2> SUFFICES ASSUME NEW k \in page, k \in walk.seen PROVE FALSE
      OBVIOUS
    <2>1. walk.token # NoToken
      BY <1>2 DEF Keyset
    <2>2. k \in Keys /\ walk.token \in Keys /\ Before(walk.token, k)
      BY <1>3, <1>4, <1>5, <1>7, <2>1
    <2>3. k = walk.token \/ Before(k, walk.token)
      BY <1>2, <2>1 DEF Keyset
    <2> QED BY <2>2, <2>3, Order
  <1>9. repeated = FALSE
    BY <1>2, <1>8 DEF Keyset
  <1>10. /\ token \in Keys \cup {NoToken} /\ seen \in SUBSET Keys
         /\ fetch \in SUBSET Worker /\ \A w \in fetch : Registered(w)
    BY <1>3, <1>4, <1>5
  <1> HIDE DEF token, seen, fetch, repeated
  <1>11. /\ walk' \in WalkRecord /\ walk'.phase = "fetching" /\ walk'.via = "postgres"
         /\ walk'.filter = walk.filter /\ walk'.due = walk.due /\ walk'.seen = seen
         /\ walk'.token = token /\ walk'.fetch = fetch
    BY <1>1, <1>2, <1>6, <1>9, <1>10, ZenonT(40) DEF WalkRecord
  <1>12. walk'.more = more /\ walk'.whole /\ walk'.repeated = FALSE
    BY <1>1, <1>2, <1>9 DEF WalkRecord
  <1>13. more => token = Last(page) /\ token \in page /\ token # NoToken
    BY <1>4, <1>5, KeysAreTokens DEF token
  <1>14. ASSUME more, NEW l \in seen
         PROVE  l = token \/ Before(l, token)
    <2>1. CASE l \in page
      BY <1>5, <1>13, <1>14, <2>1
    <2>2. CASE l \in walk.seen
      <3>1. walk.token # NoToken /\ (l = walk.token \/ Before(l, walk.token))
        BY <1>2, <2>2 DEF Keyset
      <3>2. Before(walk.token, token)
        BY <1>5, <1>7, <1>13, <1>14, <3>1
      <3>3. l \in Keys /\ walk.token \in Keys /\ token \in Keys
        BY <1>3, <1>4, <1>5, <1>13, <1>14, <2>2, <3>1
      <3> QED BY <3>1, <3>2, <3>3, Order
    <2> QED BY <1>14, <2>1, <2>2 DEF seen
  <1>15. ASSUME NEW k \in walk.due
         PROVE  k \in seen \/ (more /\ k \in keys /\ Before(token, k))
    <2>1. CASE k \in walk.seen
      BY <2>1 DEF seen
    <2>2. CASE Owed(k)
      <3>1. k \in A /\ k \in keys
        BY <1>7, <2>2 DEF Owed, keys
      <3>2. CASE k \in page
        BY <3>2 DEF seen
      <3>3. CASE k \notin page
        BY <1>5, <1>13, <3>1, <3>3
      <3> QED BY <3>2, <3>3
    <2> QED BY <1>2, <2>1, <2>2 DEF Keyset
  <1>16. Matching(walk.filter)' = keys
    BY <1>1, <1>11 DEF keys, Matching, Key
  <1>17. \A k \in walk'.due : k \in walk'.seen \/ Owed(k)'
    BY <1>11, <1>12, <1>15, <1>16 DEF Owed
  <1>18. more => token \in seen
    BY <1>13 DEF seen
  <1>19. Keyset'
    BY <1>11, <1>12, <1>13, <1>14, <1>17, <1>18 DEF Keyset
  <1>20. \A w \in walk'.fetch : Registered(w)'
    BY <1>1, <1>10, <1>11 DEF Registered
  <1> QED BY <1>11, <1>12, <1>19, <1>20 DEF WalkInv

\* Every step of Next keeps WalkInv.
LEMMA WalkNext == IInv /\ [Next]_vars => WalkInv'
  <1> SUFFICES ASSUME IInv, [Next]_vars PROVE WalkInv'
    OBVIOUS
  <1>1. CASE table' = table /\ walk' = walk
    BY <1>1, WalkUntouched, SMTT(30) DEF IInv
  <1>2. ASSUME NEW b \in Writer, Commit(b)
        PROVE  WalkInv'
    BY <1>2, CommitKeepsWalk, Zenon
  <1>3. ASSUME NEW via \in {"postgres", "memory"}, NEW filter \in {{"ACTIVE"}, Statuses},
               NEW n \in PageSizes, StartWalk(via, filter, n)
        PROVE  WalkInv'
    <2>1. filter \in SUBSET Statuses
      BY DEF Statuses
    <2> QED BY <1>3, <2>1, StartWalkKeeps
  <1>4. CASE ListPostgres \/ PageReturned \/ ListMemory
    BY <1>4, ListPostgresKeeps, PageReturnedKeeps, ListMemoryKeeps
  <1>5. ASSUME NEW w \in Worker, GetGPUs(w)
        PROVE  WalkInv'
    BY <1>5, GetGPUsKeeps
  <1>6. CASE EndWalk
    BY <1>6, NoWalkRecord DEF EndWalk, WalkInv
  <1> QED BY <1>1, <1>2, <1>3, <1>4, <1>5, <1>6, ZenonT(60)
      DEF Next, vars, Register, Update, DeleteGPUs, InsertGPU, Fails

\* The walk's position agrees with what it has shown and still owes.
THEOREM WalkInvariance == Spec => []IInv
  <1>1. Init => IInv
    BY WriteInit, NoWalkRecord DEF Init, IInv, WalkInv
  <1>2. IInv /\ [Next]_vars => IInv'
    BY WriteNext, WalkNext DEF IInv
  <1> QED BY <1>1, <1>2, PTL DEF Spec

\* The rows, the transactions and the walk stay well-typed.
THEOREM InventoryIsTyped == Spec => []InventoryTypeOK
  <1>1. IInv => InventoryTypeOK
    <2>1. IInv => \A w \in Worker : /\ table[w].status \in {"NONE", "ACTIVE", "LOST"}
                                    /\ Registered(w) => table[w].registered \in Time
      BY DEF IInv, WriteInv, Typed, Row
    <2>2. IInv => \A b \in Writer : /\ write[b].pc \in {"idle", "delete", "insert"}
                                    /\ write[b].pc # "idle" => write[b].worker \in Worker
      BY DEF IInv, WriteInv, Typed, Write, WriteRecord
    <2>3. IInv => /\ walk.phase \in {"idle", "paging", "fetching", "done"}
                  /\ walk.size \in 1..MaxPageSize \cup {DefaultPageSize}
                  /\ walk.fetch \subseteq Worker
      BY DEF IInv, WalkInv, WalkRecord
    <2> QED BY <2>1, <2>2, <2>3, Zenon DEF InventoryTypeOK
  <1> QED BY <1>1, WalkInvariance, PTL

\* Paging PostgreSQL's List by (registered_at, id) is exact, for any table,
\* page size and writes in between: no row twice, none missed that matched.
THEOREM KeysetIsExact == Spec => []KeysetWalkIsExact
  <1>1. IInv => KeysetWalkIsExact
    <2>1. IInv => (walk.via = "postgres" => Keyset)
      BY Zenon DEF IInv, WalkInv
    <2>2. Keyset => ~walk.repeated
      BY Zenon DEF Keyset
    <2>3. Keyset /\ walk.phase = "done" => walk.due \subseteq walk.seen
      BY ZenonT(40) DEF Keyset, Owed
    <2> QED BY <2>1, <2>2, <2>3, Zenon DEF KeysetWalkIsExact, Exact
  <1> QED BY <1>1, WalkInvariance, PTL

\* Reading the GPU rows outside a transaction, worker by worker, between any two
\* statements of the writers, always shows the last list that took effect, whole.
THEOREM InventoriesAreWhole == Spec => []ReadersSeeTheLastReport
  <1>1. IInv => ReadersSeeTheLastReport
    BY DEF IInv, WalkInv, ReadersSeeTheLastReport
  <1> QED BY <1>1, WalkInvariance, PTL

-----------------------------------------------------------------------------
\* In a prefix of a list are the rows whose rank is below its length.
LEMMA PrefixRanks ==
    ASSUME NEW A \in SUBSET Keys, IsFiniteSet(A), NEW S, Prefix(S, A)
    PROVE  /\ IsFiniteSet(S) /\ Cardinality(S) \in Nat
           /\ \A k \in A : k \in S <=> Rank(k, A) < Cardinality(S)
  <1>1. S \in SUBSET A /\ \A l \in S, k \in A \ S : Before(l, k)
    BY DEF Prefix
  <1>2. IsFiniteSet(S) /\ Cardinality(S) \in Nat
    BY <1>1, FS_Subset, FS_CardinalityType
  <1> DEFINE Less(k) == {l \in A : Before(l, k)}
  <1>3. ASSUME NEW k \in A
        PROVE  /\ Less(k) \in SUBSET A /\ IsFiniteSet(Less(k))
               /\ Rank(k, A) = Cardinality(Less(k)) /\ Cardinality(Less(k)) \in Nat
    <2>1. Less(k) \in SUBSET A /\ Rank(k, A) = Cardinality(Less(k))
      BY DEF Rank
    <2> HIDE DEF Less
    <2> QED BY <2>1, FS_Subset, FS_CardinalityType
  <1>4. ASSUME NEW k \in A, k \in S
        PROVE  Rank(k, A) < Cardinality(S)
    <2>1. Less(k) \in SUBSET S /\ k \notin Less(k)
      BY <1>1, <1>4, Order
    <2> HIDE DEF Less
    <2>2. Cardinality(Less(k)) <= Cardinality(S) /\ Cardinality(Less(k)) # Cardinality(S)
      BY <1>2, <1>4, <2>1, FS_Subset
    <2> QED BY <1>2, <1>3, <2>2
  <1>5. ASSUME NEW k \in A, k \notin S
        PROVE  ~(Rank(k, A) < Cardinality(S))
    <2>1. S \in SUBSET Less(k)
      BY <1>1, <1>5
    <2> HIDE DEF Less
    <2>2. Cardinality(S) <= Cardinality(Less(k))
      BY <1>3, <2>1, FS_Subset
    <2> QED BY <1>2, <1>3, <2>2
  <1> QED BY <1>2, <1>4, <1>5

\* The rows of the first n ranks are a prefix of the list, and there are n of
\* them unless the list is shorter.
LEMMA FirstRanks ==
    ASSUME NEW A \in SUBSET Keys, IsFiniteSet(A), NEW n \in Nat
    PROVE  LET P == {k \in A : Rank(k, A) < n} IN
           /\ Prefix(P, A)
           /\ n < Cardinality(A) => Cardinality(P) = n
           /\ ~(n < Cardinality(A)) => P = A
  <1> DEFINE P == {k \in A : Rank(k, A) < n}
  <1>1. ASSUME NEW l \in P, NEW k \in A \ P
        PROVE  Before(l, k)
    <2>1. /\ l \in A /\ k \in A /\ l # k /\ Rank(l, A) < n /\ ~(Rank(k, A) < n)
      OBVIOUS
    <2>2. Rank(l, A) \in Nat /\ Rank(k, A) \in Nat
      BY <2>1, Ranks
    <2>3. ~Before(k, l)
      BY <2>1, <2>2, Ranks
    <2> QED BY <2>1, <2>3, Order
  <1>2. ASSUME n < Cardinality(A)
        PROVE  Cardinality(P) = n
    <2>1. PICK m \in A : Rank(m, A) = n
      BY <1>2, RanksAreTaken
    <2>2. \A k \in A : k # m => Before(k, m) \/ Before(m, k)
      BY Order
    <2>3. \A k \in A : Rank(k, A) \in Nat /\ (Before(k, m) => Rank(k, A) < n)
                       /\ (Before(m, k) => n < Rank(k, A))
      BY <2>1, Ranks
    <2>4. \A k \in A : Rank(k, A) < n <=> Before(k, m)
      BY <2>1, <2>2, <2>3
    <2>5. P = {k \in A : Before(k, m)}
      BY <2>4
    <2> QED BY <2>1, <2>5, Zenon DEF Rank
  <1>3. ASSUME ~(n < Cardinality(A))
        PROVE  P = A
    <2>1. \A k \in A : Rank(k, A) < n
      BY <1>3, Ranks
    <2> QED BY <2>1
  <1> QED BY <1>1, <1>2, <1>3 DEF Prefix

\* The page by offset after S repeats nothing, and with it the walk has shown a
\* longer prefix of A, or everything.
PageJoins(A, S, size) ==
    LET page == OffsetPage(A, Cardinality(S), size)
        T == S \cup page IN
    /\ page \cap S = {} /\ page \subseteq A
    /\ Cardinality(S) + size < Cardinality(A) =>
          Prefix(T, A) /\ Cardinality(T) = Cardinality(S) + size
    /\ ~(Cardinality(S) + size < Cardinality(A)) => T = A

\* A page by offset begins where the last one ended.
LEMMA PageByOffset ==
    ASSUME NEW A \in SUBSET Keys, IsFiniteSet(A), NEW S, Prefix(S, A), NEW size \in Nat \ {0}
    PROVE  PageJoins(A, S, size)
  <1> DEFINE n == Cardinality(S)
             page == OffsetPage(A, n, size)
             P == {k \in A : Rank(k, A) < n + size}
  <1>1. n \in Nat /\ n + size \in Nat /\ S \subseteq A
    BY PrefixRanks DEF Prefix
  <1>2. \A k \in A : k \in S <=> Rank(k, A) < n
    BY PrefixRanks
  <1>3. \A k \in A : Rank(k, A) \in Nat
    BY Ranks
  <1>4. page = {k \in A : Rank(k, A) \in n..(n + size - 1)}
    BY DEF OffsetPage
  <1> HIDE DEF n, page
  <1>5. \A k \in A : k \in page <=> ~(Rank(k, A) < n) /\ Rank(k, A) < n + size
    BY <1>1, <1>3, <1>4
  <1>6. \A k \in A : Rank(k, A) < n => Rank(k, A) < n + size
    BY <1>1, <1>3
  <1>7. page \cap S = {} /\ page \subseteq A
    BY <1>2, <1>4, <1>5
  <1>8. S \cup page = P
    BY <1>1, <1>2, <1>5, <1>6, <1>7
  <1>9. /\ Prefix(P, A)
        /\ n + size < Cardinality(A) => Cardinality(P) = n + size
        /\ ~(n + size < Cardinality(A)) => P = A
    BY <1>1, FirstRanks
  <1> QED BY <1>7, <1>8, <1>9, ZenonT(40) DEF n, page, PageJoins

\* The walk by offset goes on from a prefix to a longer one, or ends.
LEMMA ListMemoryKeepsOffset ==
    ASSUME IInv, OffsetInv, ListMemory
    PROVE  OffsetInv'
  <1> DEFINE keys == Matching(walk.filter)
             page == OffsetPage(keys, walk.offset, walk.size)
             seen == walk.seen \cup page
             repeated == walk.repeated \/ page \cap walk.seen # {}
             offset == walk.offset + walk.size
             more == walk.offset + walk.size < Cardinality(keys)
             phase == IF more THEN "paging" ELSE "done"
  <1>1. /\ walk.phase = "paging" /\ walk.via = "memory" /\ UNCHANGED <<table, gpus, reported, write>>
        /\ walk' = [walk EXCEPT !.seen = seen, !.repeated = repeated, !.offset = offset,
                                !.more = more, !.phase = phase]
    BY Zenon DEF ListMemory, OffsetNext, OffsetMore
  <1>2. walk \in WalkRecord
    BY DEF IInv, WalkInv
  <1>3. walk.filter \in SUBSET Statuses /\ walk.size \in Nat \ {0}
    BY <1>2, InventoryAssumption DEF WalkRecord
  <1>4. keys \in SUBSET Keys /\ IsFiniteSet(keys)
    BY <1>3, MatchingKeys, MatchingIsFinite, Zenon DEF IInv
  <1>5. phase \in {"paging", "done"} /\ (phase = "paging" <=> more)
    BY Zenon
  <1> HIDE DEF keys, page, seen, repeated, offset, more, phase
  <1>6. /\ walk'.via = walk.via /\ walk'.calm = walk.calm /\ walk'.seen = seen
        /\ walk'.repeated = repeated /\ walk'.offset = offset /\ walk'.more = more
        /\ walk'.phase = phase /\ walk'.due = walk.due /\ walk'.filter = walk.filter
    BY <1>1, <1>2, ZenonT(40) DEF WalkRecord
  <1>7. Matching(walk.filter)' = keys
    BY <1>1, <1>6, Zenon DEF keys, Matching, Key
  <1> SUFFICES ASSUME walk.calm
               PROVE  /\ ~repeated
                      /\ more => offset = Cardinality(seen) /\ Prefix(seen, keys)
                                 /\ walk.due \subseteq keys
                      /\ ~more => walk.due \subseteq seen
    BY <1>5, <1>6, <1>7, Zenon DEF OffsetInv, Positioned
  <1>8. /\ ~walk.repeated /\ walk.offset = Cardinality(walk.seen)
        /\ Prefix(walk.seen, keys) /\ walk.due \subseteq keys
    BY <1>1, Zenon DEF OffsetInv, Positioned, keys
  <1>9. /\ page \cap walk.seen = {} /\ page \subseteq keys
        /\ more => Prefix(seen, keys) /\ Cardinality(seen) = walk.offset + walk.size
        /\ ~more => seen = keys
    <2>1. PageJoins(keys, walk.seen, walk.size)
      BY <1>3, <1>4, <1>8, PageByOffset, Zenon
    <2> QED BY <1>8, <2>1, Zenon DEF PageJoins, page, seen, more
  <1> QED BY <1>8, <1>9, Zenon DEF repeated, offset

\* The first page begins at offset 0, and a new walk has shown nothing.
LEMMA StartWalkKeepsOffset ==
    ASSUME NEW via, NEW filter, NEW n, StartWalk(via, filter, n)
    PROVE  OffsetInv'
  <1> DEFINE size == PageSizeOf(n)
             due == Matching(filter)
  <1>1. /\ walk' = [NoWalk EXCEPT !.phase = "paging", !.via = via, !.filter = filter,
                                  !.size = size, !.due = due]
        /\ UNCHANGED <<table, gpus, reported, write>>
    BY Zenon DEF StartWalk
  <1> HIDE DEF size, due
  <1>2. /\ walk'.phase = "paging" /\ walk'.filter = filter /\ walk'.due = due
        /\ walk'.seen = {} /\ walk'.offset = 0 /\ walk'.more /\ ~walk'.repeated
    BY <1>1 DEF NoWalk
  <1>3. Matching(walk.filter)' = due
    BY <1>1, <1>2, Zenon DEF due, Matching, Key
  <1>4. Prefix({}, due)
    BY Zenon DEF Prefix
  <1>5. Cardinality({}) = 0
    BY FS_EmptySet, Zenon
  <1> QED BY <1>2, <1>3, <1>4, <1>5, Zenon DEF OffsetInv, Positioned

\* Nothing is claimed of walks by key, or once the calm has ended.
LEMMA OtherWalks ==
    ASSUME ~(walk'.via = "memory" /\ walk'.calm)
    PROVE  OffsetInv'
  BY Zenon DEF OffsetInv

\* Every step keeps OffsetInv; the steps of a walk by key do not concern it.
LEMMA OffsetNextKeeps == IInv /\ OffsetInv /\ [Next]_vars => OffsetInv'
  <1> SUFFICES ASSUME IInv, OffsetInv, [Next]_vars PROVE OffsetInv'
    OBVIOUS
  <1>1. CASE table' = table /\ walk' = walk
    BY <1>1, OffsetUntouched, Zenon
  <1>2. ASSUME NEW b \in Writer, Commit(b)
        PROVE  OffsetInv'
    BY <1>2, CommitKeepsOffset, Zenon
  <1>3. ASSUME NEW via, NEW filter, NEW n, StartWalk(via, filter, n)
        PROVE  OffsetInv'
    BY <1>3, StartWalkKeepsOffset, Zenon
  <1>4. CASE ListMemory
    BY <1>4, ListMemoryKeepsOffset, Zenon
  <1>5. walk \in WalkRecord
    BY DEF IInv, WalkInv
  <1>6. CASE ListPostgres
    <2>1. walk.via = "postgres" /\ walk'.via = walk.via
      BY <1>5, <1>6 DEF ListPostgres, WalkRecord
    <2> QED BY <2>1, OtherWalks, Zenon
  <1>7. ASSUME PageReturned \/ \E w \in Worker : GetGPUs(w)
        PROVE  OffsetInv'
    <2>1. walk.phase = "fetching"
      BY <1>7, Zenon DEF PageReturned, GetGPUs
    <2>2. walk'.via = walk.via /\ walk'.calm = walk.calm
      <3>1. CASE PageReturned
        BY <1>5, <3>1 DEF PageReturned, WalkRecord
      <3>2. ASSUME NEW w \in Worker, GetGPUs(w)
            PROVE  walk'.via = walk.via /\ walk'.calm = walk.calm
        BY <1>5, <3>2 DEF GetGPUs, WalkRecord
      <3> QED BY <1>7, <3>1, <3>2, Zenon
    <2>3. ~(walk.via = "memory" /\ walk.calm)
      BY <2>1 DEF OffsetInv
    <2> QED BY <2>2, <2>3, OtherWalks, Zenon
  <1>8. CASE EndWalk
    BY <1>8, NoWalkRecord, OtherWalks DEF EndWalk
  <1> QED BY <1>1, <1>2, <1>3, <1>4, <1>6, <1>7, <1>8, ZenonT(60)
      DEF Next, vars, Register, Update, DeleteGPUs, InsertGPU, Fails

\* Paging MemoryRepository's List by offset is exact as long as nothing changes
\* behind the client's position, for any table, page size and writes ahead of
\* it: no row twice, none missed that matched.
THEOREM OffsetIsExact == Spec => []OffsetWalkIsExact
  <1>1. Init => OffsetInv
    BY NoWalkRecord DEF Init, OffsetInv
  <1>2. OffsetInv => OffsetWalkIsExact
    BY Zenon DEF OffsetInv, OffsetWalkIsExact, Exact
  <1> QED BY <1>1, <1>2, OffsetNextKeeps, WalkInvariance, PTL DEF Spec
=============================================================================
