-------------------------- MODULE StateStoreProofs --------------------------
(***************************************************************************)
(* Theorems about StateStore, for any sets of keys and any history.        *)
(***************************************************************************)
EXTENDS StateStore, WellFoundedInduction, TLAPS

AnySave ==
    RoomSaves \cup TokenSaves \cup Revocations \cup WorkerSaves \cup JobSaves
        \cup TaskSaves \cup ResultSaves

\* ReferencesHold is inductive with the types: no save deletes a row.
RefInv == db \in Tables /\ view \in Tables /\ ReferencesHold

\* The rows that saves write; a task's created_at comes from elsewhere.
WorkerRowOf(s) == [room |-> s.room, jti |-> s.jti]
JobRowOf(s) == [room |-> s.room, status |-> s.status, created |-> s.created]
TaskRowOf(s, c) ==
    [job |-> s.job, status |-> s.status, worker |-> s.worker, attempts |-> s.attempts,
     units |-> RequiresJson(s.units), created |-> c]

(* A save's key is one of the keys of its table, and so are its columns.    *)
LEMMA SaveTypes ==
    ASSUME NEW s \in AnySave
    PROVE  /\ s.op \in {"room", "token", "revoke", "worker", "job", "task", "result"}
           /\ s.op = "room" => s \in RoomSaves
           /\ s.op = "token" => s \in TokenSaves
           /\ s.op = "revoke" => s \in Revocations
           /\ s.op = "worker" => s \in WorkerSaves
           /\ s.op = "job" => s \in JobSaves
           /\ s.op = "task" => s \in TaskSaves
           /\ s.op = "result" => s \in ResultSaves
BY DEF AnySave, RoomSaves, TokenSaves, Revocations, WorkerSaves, JobSaves, TaskSaves, ResultSaves

\* e is d after the statement of s, which writes only in its own row of its
\* own table.
Effect(d, s, e) ==
    /\ e \in Tables
    /\ e.rooms = IF s.op = "room" THEN d.rooms \cup {s.key} ELSE d.rooms
    /\ \A k \in Jtis : e.tokens[k] =
         IF s.op = "token" /\ s.key = k THEN [room |-> s.room, revoked |-> FALSE]
         ELSE IF s.op = "revoke" /\ s.key = k /\ InTable(d.tokens, k)
              THEN [d.tokens[k] EXCEPT !.revoked = TRUE] ELSE d.tokens[k]
    /\ \A k \in WorkerKeys : e.workers[k] =
         IF s.op = "worker" /\ s.key = k THEN WorkerRowOf(s) ELSE d.workers[k]
    /\ \A k \in JobKeys : e.jobs[k] =
         IF s.op = "job" /\ s.key = k THEN JobRowOf(s) ELSE d.jobs[k]
    /\ \A k \in TaskKeys : e.tasks[k] =
         IF s.op = "task" /\ s.key = k THEN TaskRowOf(s, TaskCreated(d, s)) ELSE d.tasks[k]
    /\ \A k \in TaskKeys : e.results[k] =
         IF s.op = "result" /\ s.key = k THEN [finished |-> s.finished] ELSE d.results[k]

(* Whether or not its references exist, a save writes a row of the right   *)
(* type, and no other.                                                     *)
LEMMA Effects ==
    ASSUME NEW d \in Tables, NEW s \in AnySave
    PROVE  Effect(d, s, Applied(d, s))
<1> USE DEF Effect
<1>0. /\ d.rooms \in SUBSET Rooms /\ d.tokens \in [Jtis -> TokenRow \cup {NoRow}]
      /\ d.workers \in [WorkerKeys -> WorkerRow \cup {NoRow}]
      /\ d.jobs \in [JobKeys -> JobRow \cup {NoRow}]
      /\ d.tasks \in [TaskKeys -> TaskRow \cup {NoRow}]
      /\ d.results \in [TaskKeys -> ResultRow \cup {NoRow}]
    BY DEF Tables, Table
<1>1. CASE s.op = "room"
    <2>1. s.key \in Rooms
        BY <1>1, SaveTypes DEF RoomSaves
    <2> QED BY <1>0, <1>1, <2>1 DEF Applied, SavedRoom, Tables, Table
<1>2. CASE s.op = "token"
    <2>1. s.key \in Jtis /\ s.room \in Rooms
        BY <1>2, SaveTypes DEF TokenSaves
    <2>2. [room |-> s.room, revoked |-> FALSE] \in TokenRow
        BY <2>1 DEF TokenRow
    <2>3. Applied(d, s) = [d EXCEPT !.tokens = [@ EXCEPT ![s.key] = [room |-> s.room, revoked |-> FALSE]]]
        BY <1>2 DEF Applied, SavedToken
    <2>4. [d.tokens EXCEPT ![s.key] = [room |-> s.room, revoked |-> FALSE]] \in [Jtis -> TokenRow \cup {NoRow}]
        BY <1>0, <2>1, <2>2
    <2> QED BY <1>0, <1>2, <2>1, <2>3, <2>4 DEF Tables, Table
<1>3. CASE s.op = "revoke" /\ InTable(d.tokens, s.key)
    <2> DEFINE new == [d.tokens[s.key] EXCEPT !.revoked = TRUE]
    <2>1. s.key \in Jtis
        BY <1>3, SaveTypes DEF Revocations
    <2>2. new \in TokenRow
        BY <1>0, <1>3, <2>1 DEF TokenRow, InTable
    <2>3. Applied(d, s) = [d EXCEPT !.tokens = [@ EXCEPT ![s.key] = new]]
        BY <1>3 DEF Applied, Revoked
    <2>4. [d.tokens EXCEPT ![s.key] = new] \in [Jtis -> TokenRow \cup {NoRow}]
        BY <1>0, <2>1, <2>2
    <2>5. Applied(d, s).tokens[s.key] = [d.tokens[s.key] EXCEPT !.revoked = TRUE]
        BY <1>0, <2>1, <2>3 DEF Tables
    <2>6. \A k \in Jtis : k # s.key => Applied(d, s).tokens[k] = d.tokens[k]
        BY <1>0, <2>1, <2>3 DEF Tables
    <2>7. /\ Applied(d, s) \in Tables
          /\ Applied(d, s).rooms = d.rooms /\ Applied(d, s).workers = d.workers
          /\ Applied(d, s).jobs = d.jobs /\ Applied(d, s).tasks = d.tasks
          /\ Applied(d, s).results = d.results
        <3> HIDE DEF new
        <3> QED BY <1>0, <2>3, <2>4 DEF Tables, Table
    <2> QED BY <1>3, <2>1, <2>5, <2>6, <2>7
<1>4. CASE s.op = "revoke" /\ ~InTable(d.tokens, s.key)
    BY <1>0, <1>4 DEF Applied, Revoked
<1>5. CASE s.op = "worker"
    <2>1. s.key \in WorkerKeys /\ s.room \in Rooms /\ s.jti \in Jtis
        BY <1>5, SaveTypes DEF WorkerSaves
    <2>2. WorkerRowOf(s) \in WorkerRow
        BY <2>1 DEF WorkerRow, WorkerRowOf
    <2>3. Applied(d, s) = [d EXCEPT !.workers = [@ EXCEPT ![s.key] = WorkerRowOf(s)]]
        BY <1>5 DEF Applied, SavedWorker, WorkerRowOf
    <2>4. [d.workers EXCEPT ![s.key] = WorkerRowOf(s)] \in [WorkerKeys -> WorkerRow \cup {NoRow}]
        BY <1>0, <2>1, <2>2
    <2> QED BY <1>0, <1>5, <2>1, <2>3, <2>4 DEF Tables, Table
<1>6. CASE s.op = "job"
    <2>1. s.key \in JobKeys /\ s.room \in Rooms /\ s.status \in JobStatus /\ s.created \in Times
        BY <1>6, SaveTypes DEF JobSaves
    <2>2. JobRowOf(s) \in JobRow
        BY <2>1 DEF JobRow, JobRowOf
    <2>3. Applied(d, s) = [d EXCEPT !.jobs = [@ EXCEPT ![s.key] = JobRowOf(s)]]
        BY <1>6 DEF Applied, SavedJob, JobRowOf
    <2>4. [d.jobs EXCEPT ![s.key] = JobRowOf(s)] \in [JobKeys -> JobRow \cup {NoRow}]
        BY <1>0, <2>1, <2>2
    <2> QED BY <1>0, <1>6, <2>1, <2>3, <2>4 DEF Tables, Table
<1>7. CASE s.op = "task"
    <2> DEFINE new == TaskRowOf(s, TaskCreated(d, s))
    <2>1. /\ s.key \in TaskKeys /\ s.job \in JobKeys /\ s.status \in TaskStatus
          /\ s.worker \in WorkerKeys \cup {Null} /\ s.attempts \in Nat /\ s.created \in Times
          /\ RequiresJson(s.units) \in StoredUnits
        BY <1>7, SaveTypes, LogBoundAssumption DEF TaskSaves, Units, RequiresJson, StoredUnits
    <2>2. TaskCreated(d, s) \in Times
        BY <1>0, <2>1 DEF TaskCreated, InTable, TaskRow
    <2>3. new \in TaskRow
        BY <2>1, <2>2 DEF TaskRow, TaskRowOf
    <2>4. Applied(d, s) = [d EXCEPT !.tasks = [@ EXCEPT ![s.key] = new]]
        BY <1>7 DEF Applied, SavedTask, TaskRowOf, TaskAttempts
    <2>5. [d.tasks EXCEPT ![s.key] = new] \in [TaskKeys -> TaskRow \cup {NoRow}]
        BY <1>0, <2>1, <2>3
    <2> HIDE DEF new
    <2> QED BY <1>0, <1>7, <2>1, <2>4, <2>5 DEF Tables, Table, new
<1>8. CASE s.op = "result"
    <2>1. s.key \in TaskKeys /\ s.finished \in Times
        BY <1>8, SaveTypes DEF ResultSaves
    <2>2. [finished |-> s.finished] \in ResultRow
        BY <2>1 DEF ResultRow
    <2>3. Applied(d, s) = [d EXCEPT !.results = [@ EXCEPT ![s.key] = [finished |-> s.finished]]]
        BY <1>8 DEF Applied, SavedResult
    <2>4. [d.results EXCEPT ![s.key] = [finished |-> s.finished]] \in [TaskKeys -> ResultRow \cup {NoRow}]
        BY <1>0, <2>1, <2>2
    <2> QED BY <1>0, <1>8, <2>1, <2>3, <2>4 DEF Tables, Table
<1> QED BY <1>1, <1>2, <1>3, <1>4, <1>5, <1>6, <1>7, <1>8, SaveTypes

(* A save leaves a row: what it writes has the type of one.                *)
LEMMA RowThere ==
    ASSUME NEW d \in Tables, NEW s \in AnySave, NEW e, Effect(d, s, e)
    PROVE  /\ s.op = "token" => InTable(e.tokens, s.key)
           /\ s.op = "revoke" => (InTable(d.tokens, s.key) => InTable(e.tokens, s.key))
           /\ s.op = "worker" => InTable(e.workers, s.key)
           /\ s.op = "job" => InTable(e.jobs, s.key)
           /\ s.op = "task" => InTable(e.tasks, s.key)
<1>1. CASE s.op = "token"
    <2>1. s.key \in Jtis /\ [room |-> s.room, revoked |-> FALSE] \in TokenRow
        BY <1>1, SaveTypes DEF TokenSaves, TokenRow
    <2> QED BY <1>1, <2>1, NoRowAssumption DEF Effect, InTable
<1>2. CASE s.op = "revoke"
    <2> SUFFICES ASSUME InTable(d.tokens, s.key) PROVE InTable(e.tokens, s.key)
        BY <1>2
    <2>1. s.key \in Jtis
        BY <1>2, SaveTypes DEF Revocations
    <2>2. [d.tokens[s.key] EXCEPT !.revoked = TRUE] \in TokenRow
        <3>1. d.tokens[s.key] \in TokenRow
            BY <2>1 DEF Tables, Table, InTable
        <3> QED BY <3>1 DEF TokenRow
    <2> QED BY <1>2, <2>1, <2>2, NoRowAssumption DEF Effect, InTable
<1>3. CASE s.op = "worker"
    <2>1. s.key \in WorkerKeys /\ WorkerRowOf(s) \in WorkerRow
        BY <1>3, SaveTypes DEF WorkerSaves, WorkerRow, WorkerRowOf
    <2> QED BY <1>3, <2>1, NoRowAssumption DEF Effect, InTable
<1>4. CASE s.op = "job"
    <2>1. s.key \in JobKeys /\ JobRowOf(s) \in JobRow
        BY <1>4, SaveTypes DEF JobSaves, JobRow, JobRowOf
    <2> QED BY <1>4, <2>1, NoRowAssumption DEF Effect, InTable
<1>5. CASE s.op = "task"
    <2>1. s.key \in TaskKeys /\ s.job \in JobKeys /\ s.status \in TaskStatus
            /\ s.worker \in WorkerKeys \cup {Null} /\ s.attempts \in Nat /\ s.created \in Times
            /\ RequiresJson(s.units) \in StoredUnits
        BY <1>5, SaveTypes, LogBoundAssumption DEF TaskSaves, Units, RequiresJson, StoredUnits
    <2>2. TaskCreated(d, s) \in Times
        BY <2>1 DEF TaskCreated, InTable, TaskRow, Tables, Table
    <2>3. TaskRowOf(s, TaskCreated(d, s)) \in TaskRow
        BY <2>1, <2>2 DEF TaskRow, TaskRowOf
    <2> QED BY <1>5, <2>1, <2>3, NoRowAssumption DEF Effect, InTable
<1> QED BY <1>1, <1>2, <1>3, <1>4, <1>5

(* Every reference still has its target after a save whose own are there:  *)
(* no save deletes a row, and only save_* of its own table changes one.    *)
LEMMA ReferencesKept ==
    ASSUME NEW d \in Tables, ReferencesHoldIn(d), NEW s \in AnySave, ReferencesExist(d, s),
           NEW e, Effect(d, s, e)
    PROVE  ReferencesHoldIn(e)
<1>1. d.rooms \subseteq e.rooms
    BY DEF Effect
<1>2. /\ \A k \in Jtis : InTable(d.tokens, k) => InTable(e.tokens, k)
      /\ \A k \in WorkerKeys : InTable(d.workers, k) => InTable(e.workers, k)
      /\ \A k \in JobKeys : InTable(d.jobs, k) => InTable(e.jobs, k)
      /\ \A k \in TaskKeys : InTable(d.tasks, k) => InTable(e.tasks, k)
    <2>1. ASSUME NEW k \in Jtis, InTable(d.tokens, k) PROVE InTable(e.tokens, k)
        <3>1. CASE s.op \in {"token", "revoke"} /\ s.key = k
            BY <2>1, <3>1, RowThere
        <3>2. CASE ~(s.op \in {"token", "revoke"} /\ s.key = k)
            BY <2>1, <3>2 DEF Effect, InTable
        <3> QED BY <3>1, <3>2
    <2>2. ASSUME NEW k \in WorkerKeys, InTable(d.workers, k) PROVE InTable(e.workers, k)
        <3>1. CASE s.op = "worker" /\ s.key = k
            BY <3>1, RowThere
        <3>2. CASE ~(s.op = "worker" /\ s.key = k)
            BY <2>2, <3>2 DEF Effect, InTable
        <3> QED BY <3>1, <3>2
    <2>3. ASSUME NEW k \in JobKeys, InTable(d.jobs, k) PROVE InTable(e.jobs, k)
        <3>1. CASE s.op = "job" /\ s.key = k
            BY <3>1, RowThere
        <3>2. CASE ~(s.op = "job" /\ s.key = k)
            BY <2>3, <3>2 DEF Effect, InTable
        <3> QED BY <3>1, <3>2
    <2>4. ASSUME NEW k \in TaskKeys, InTable(d.tasks, k) PROVE InTable(e.tasks, k)
        <3>1. CASE s.op = "task" /\ s.key = k
            BY <3>1, RowThere
        <3>2. CASE ~(s.op = "task" /\ s.key = k)
            BY <2>4, <3>2 DEF Effect, InTable
        <3> QED BY <3>1, <3>2
    <2> QED BY <2>1, <2>2, <2>3, <2>4
<1>3. ASSUME NEW k \in Jtis, InTable(e.tokens, k) PROVE e.tokens[k].room \in e.rooms
    <2>1. CASE s.op = "token" /\ s.key = k
        BY <1>1, <2>1 DEF Effect, ReferencesExist
    <2>2. CASE s.op = "revoke" /\ s.key = k /\ InTable(d.tokens, k)
        <3>1. d.tokens[k] \in TokenRow /\ d.tokens[k].room \in d.rooms
            BY <2>2 DEF Tables, Table, InTable, ReferencesHoldIn
        <3>2. e.tokens[k] = [d.tokens[k] EXCEPT !.revoked = TRUE]
            BY <2>2 DEF Effect
        <3>3. e.tokens[k].room = d.tokens[k].room
            BY <3>1, <3>2 DEF TokenRow
        <3> QED BY <1>1, <3>1, <3>3
    <2>3. CASE ~(s.op = "token" /\ s.key = k)
               /\ ~(s.op = "revoke" /\ s.key = k /\ InTable(d.tokens, k))
        <3>1. e.tokens[k] = d.tokens[k]
            BY <2>3 DEF Effect
        <3> QED BY <1>1, <1>3, <3>1 DEF ReferencesHoldIn, InTable
    <2> QED BY <2>1, <2>2, <2>3
<1>4. ASSUME NEW k \in WorkerKeys, InTable(e.workers, k)
      PROVE  e.workers[k].room \in e.rooms /\ InTable(e.tokens, e.workers[k].jti)
    <2>1. CASE s.op = "worker" /\ s.key = k
        <3>1. s.room \in d.rooms /\ InTable(d.tokens, s.jti) /\ s.jti \in Jtis
            BY <2>1, SaveTypes DEF ReferencesExist, WorkerSaves
        <3>2. e.workers[k].room = s.room /\ e.workers[k].jti = s.jti
            BY <2>1 DEF Effect, WorkerRowOf
        <3> QED BY <1>1, <1>2, <3>1, <3>2
    <2>2. CASE ~(s.op = "worker" /\ s.key = k)
        <3>1. e.workers[k] = d.workers[k]
            BY <2>2 DEF Effect
        <3>2. d.workers[k] \in WorkerRow
            BY <1>4, <3>1 DEF Tables, Table, InTable
        <3>3. d.workers[k].room \in d.rooms /\ InTable(d.tokens, d.workers[k].jti)
            BY <1>4, <3>1 DEF ReferencesHoldIn, InTable
        <3> QED BY <1>1, <1>2, <3>1, <3>2, <3>3 DEF WorkerRow
    <2> QED BY <2>1, <2>2
<1>5. ASSUME NEW k \in JobKeys, InTable(e.jobs, k) PROVE e.jobs[k].room \in e.rooms
    <2>1. CASE s.op = "job" /\ s.key = k
        BY <1>1, <2>1 DEF Effect, ReferencesExist, JobRowOf
    <2>2. CASE ~(s.op = "job" /\ s.key = k)
        <3>1. e.jobs[k] = d.jobs[k]
            BY <2>2 DEF Effect
        <3> QED BY <1>1, <1>5, <3>1 DEF ReferencesHoldIn, InTable
    <2> QED BY <2>1, <2>2
<1>6. ASSUME NEW k \in TaskKeys, InTable(e.tasks, k)
      PROVE  /\ InTable(e.jobs, e.tasks[k].job)
             /\ e.tasks[k].worker # Null => InTable(e.workers, e.tasks[k].worker)
    <2>1. CASE s.op = "task" /\ s.key = k
        <3>1. /\ InTable(d.jobs, s.job) /\ s.job \in JobKeys
              /\ s.worker # Null => InTable(d.workers, s.worker) /\ s.worker \in WorkerKeys
            BY <2>1, SaveTypes DEF ReferencesExist, TaskSaves
        <3>2. e.tasks[k].job = s.job /\ e.tasks[k].worker = s.worker
            BY <2>1 DEF Effect, TaskRowOf
        <3> QED BY <1>2, <3>1, <3>2
    <2>2. CASE ~(s.op = "task" /\ s.key = k)
        <3>1. e.tasks[k] = d.tasks[k]
            BY <2>2 DEF Effect
        <3>2. d.tasks[k] \in TaskRow
            BY <1>6, <3>1 DEF Tables, Table, InTable
        <3>3. /\ InTable(d.jobs, d.tasks[k].job)
              /\ d.tasks[k].worker # Null => InTable(d.workers, d.tasks[k].worker)
            BY <1>6, <3>1 DEF ReferencesHoldIn, InTable
        <3> QED BY <1>2, <3>1, <3>2, <3>3 DEF TaskRow
    <2> QED BY <2>1, <2>2
<1>7. ASSUME NEW k \in TaskKeys, InTable(e.results, k) PROVE InTable(e.tasks, k)
    <2>1. CASE s.op = "result" /\ s.key = k
        BY <1>2, <2>1 DEF ReferencesExist
    <2>2. CASE ~(s.op = "result" /\ s.key = k)
        <3>1. e.results[k] = d.results[k]
            BY <2>2 DEF Effect
        <3> QED BY <1>2, <1>7, <3>1 DEF ReferencesHoldIn, InTable
    <2> QED BY <2>1, <2>2
<1> QED BY <1>3, <1>4, <1>5, <1>6, <1>7 DEF ReferencesHoldIn

(* Every save that passes the REFERENCES check, whichever table it is for. *)
LEMMA AnySaved ==
    ASSUME NEW d \in Tables, ReferencesHoldIn(d), NEW s \in AnySave, ReferencesExist(d, s)
    PROVE  Applied(d, s) \in Tables /\ ReferencesHoldIn(Applied(d, s))
<1>1. Effect(d, s, Applied(d, s))
    BY Effects
<1> QED BY <1>1, ReferencesKept DEF Effect

\* What the steps do: one save that returns, one whose commit raises, or a
\* transaction that is dropped.
StoreStep ==
    \/ \E s \in AnySave : Save(s) \/ (Execute(s) /\ UNCHANGED <<db, kept>>)
    \/ TransactionDropped

(* The steps of the store, by what they do to the tables.                  *)
LEMMA StepsOfStore == StoreNext => StoreStep
BY DEF StoreNext, StoreStep, AnySave, SaveRoom, SaveToken, SetTokenRevoked, SaveWorker,
       SaveJob, SaveTask, SaveResult, CommitFails

(* An empty database satisfies the invariant.                              *)
LEMMA RefInvInit == StoreInit => RefInv
BY DEF StoreInit, RefInv, EmptyTables, Empty, Tables, Table, ReferencesHold, ReferencesHoldIn,
       InTable

(* Every save, also one that raises, and every rollback preserve it.       *)
LEMMA RefInvStep == RefInv /\ [StoreNext]_storeVars => RefInv'
<1> SUFFICES ASSUME RefInv, [StoreNext]_storeVars PROVE RefInv'
    OBVIOUS
<1>1. ASSUME NEW s \in AnySave, Save(s) \/ (Execute(s) /\ UNCHANGED <<db, kept>>) PROVE RefInv'
    <2>1. view' \in Tables /\ ReferencesHoldIn(view')
        BY <1>1, AnySaved DEF RefInv, ReferencesHold, Save, Execute
    <2>2. db' = view' \/ db' = db
        BY <1>1 DEF Save, DbAfterCommit
    <2> QED BY <2>1, <2>2 DEF RefInv, ReferencesHold
<1>2. CASE TransactionDropped
    BY <1>2 DEF TransactionDropped, RefInv, ReferencesHold
<1>3. CASE UNCHANGED storeVars
    BY <1>3 DEF storeVars, RefInv, ReferencesHold
<1> QED BY <1>1, <1>2, <1>3, StepsOfStore DEF StoreStep

(* REFERENCES: no order of saves of the six tables, failed commits and     *)
(* rollbacks leaves a row whose target is missing.                         *)
THEOREM ReferencesTheorem == StoreSpec => []ReferencesHold
<1>1. RefInv => ReferencesHold
    BY DEF RefInv
<1> QED BY <1>1, RefInvInit, RefInvStep, PTL DEF StoreSpec

-----------------------------------------------------------------------------
(* What a save does to the rows of tokens is one of the abstract table's   *)
(* writes.                                                                 *)
LEMMA RowsAfterSave ==
    ASSUME NEW d \in Tables, NEW s \in AnySave, RowsOf(d) = RowsOf(view)
    PROVE  RowsOf(Applied(d, s)) \in TokenRows!Writes
<1> USE DEF Applied, TokenRows!Writes
<1>1. CASE s \in TokenSaves
    <2>1. s.op = "token" /\ s.key \in Jtis /\ s.room \in Rooms
        BY <1>1 DEF TokenSaves
    <2> DEFINE new == [room |-> s.room, revoked |-> FALSE]
    <2>2. new \in TokenRow /\ ~new.revoked
        BY <2>1 DEF TokenRow
    <2>3. new # NoRow
        BY <2>2, NoRowAssumption
    <2>4. SavedToken(d, s).tokens = [d.tokens EXCEPT ![s.key] = new]
        BY DEF SavedToken, Tables
    <2>5. d.tokens \in [Jtis -> TokenRow \cup {NoRow}]
        BY DEF Tables, Table
    <2>6. RowsOf(SavedToken(d, s)) = [RowsOf(d) EXCEPT ![s.key] = "valid"]
        <3> HIDE DEF new
        <3> QED BY <2>1, <2>2, <2>3, <2>4, <2>5 DEF RowsOf, InTable
    <2> QED BY <2>1, <2>6 DEF TokenRows!RowAfterIssue
<1>2. CASE s \in Revocations
    <2>1. s.op = "revoke" /\ s.key \in Jtis
        BY <1>2 DEF Revocations
    <2>2. d.tokens \in [Jtis -> TokenRow \cup {NoRow}]
        BY DEF Tables, Table
    <2>3. CASE InTable(d.tokens, s.key)
        <3> DEFINE new == [d.tokens[s.key] EXCEPT !.revoked = TRUE]
        <3>1. d.tokens[s.key] \in TokenRow
            BY <2>1, <2>2, <2>3 DEF InTable
        <3>2. new \in TokenRow /\ new.revoked
            BY <3>1 DEF TokenRow
        <3>3. new # NoRow
            BY <3>2, NoRowAssumption
        <3>4. Revoked(d, s).tokens = [d.tokens EXCEPT ![s.key] = new]
            BY <2>3 DEF Revoked, Tables
        <3>5. RowsOf(Revoked(d, s)) = [RowsOf(d) EXCEPT ![s.key] = "revoked"]
            <4> HIDE DEF new
            <4> QED BY <2>1, <2>2, <3>2, <3>3, <3>4 DEF RowsOf, InTable
        <3>6. RowsOf(d)[s.key] # "absent"
            BY <2>1, <2>3 DEF RowsOf
        <3> QED BY <2>1, <3>5, <3>6 DEF TokenRows!RowAfterRevoke
    <2>4. CASE ~InTable(d.tokens, s.key)
        BY <2>1, <2>4 DEF Revoked
    <2> QED BY <2>3, <2>4
<1>3. CASE s \notin TokenSaves /\ s \notin Revocations
    <2>1. s.op \in {"room", "worker", "job", "task", "result"}
        BY <1>3 DEF AnySave, RoomSaves, WorkerSaves, JobSaves, TaskSaves, ResultSaves
    <2>2. Applied(d, s).tokens = d.tokens
        BY <2>1 DEF SavedRoom, SavedWorker, SavedJob, SavedTask, SavedResult, Tables
    <2>3. RowsOf(Applied(d, s)) = RowsOf(d)
        <3> HIDE DEF Applied
        <3> QED BY <2>2 DEF RowsOf
    <2> QED BY <2>3
<1> QED BY <1>1, <1>2, <1>3

(* The store's steps are those of the abstract table of tokens.            *)
LEMMA StepIsTableStep ==
    RefInv /\ [StoreNext]_storeVars => [TokenRows!TableNext]_<<RowsOf(db), RowsOf(view)>>
<1> SUFFICES ASSUME RefInv, [StoreNext]_storeVars
             PROVE  [TokenRows!TableNext]_<<RowsOf(db), RowsOf(view)>>
    OBVIOUS
<1>1. ASSUME NEW s \in AnySave, Save(s) \/ (Execute(s) /\ UNCHANGED <<db, kept>>)
      PROVE  TokenRows!TableNext
    <2>1. RowsOf(view)' \in TokenRows!Writes
        BY <1>1, RowsAfterSave DEF RefInv, Save, Execute, RowsOf
    <2>2. RowsOf(db)' = RowsOf(view)' \/ RowsOf(db)' = RowsOf(db)
        BY <1>1 DEF Save, DbAfterCommit, RowsOf
    <2> QED BY <2>1, <2>2 DEF TokenRows!TableNext, TokenRows!Commits, TokenRows!StoreFails
<1>2. CASE TransactionDropped
    BY <1>2 DEF TransactionDropped, TokenRows!TableNext, TokenRows!TransactionLost, RowsOf
<1>3. CASE UNCHANGED storeVars
    BY <1>3 DEF storeVars, RowsOf
<1> QED BY <1>1, <1>2, <1>3, StepsOfStore DEF StoreStep

(* The store keeps what TokenService builds on: the other tables' saves    *)
(* share the transaction, and do to the tokens what TokenTable allows.     *)
THEOREM StoreImplementsTable == StoreSpec => ImplementsTokenTable
<1>1. StoreInit => TokenRows!TableInit
    BY DEF StoreInit, EmptyTables, Empty, RowsOf, InTable, TokenRows!TableInit
<1> QED BY <1>1, RefInvInit, RefInvStep, StepIsTableStep, PTL
        DEF StoreSpec, ImplementsTokenTable, TokenRows!TableSpec, TokenRows!tableVars

-----------------------------------------------------------------------------
\* Save i of the first n of h is followed by one of kind op for the same key.
Again(h, n, i, op) == \E m \in (i + 1)..n : h[m].op = op /\ h[m].key = h[i].key

\* What save i of the first n of h wrote is in d, if no later one wrote over it.
Stands(h, d, n, i) ==
    /\ h[i].op = "room" => h[i].key \in d.rooms
    /\ h[i].op = "token" =>
        Again(h, n, i, "token")
            \/ /\ InTable(d.tokens, h[i].key)
               /\ d.tokens[h[i].key].room = h[i].room
               /\ d.tokens[h[i].key].revoked => Again(h, n, i, "revoke")
    /\ h[i].op = "revoke" =>
        \/ Again(h, n, i, "token")
        \/ ~InTable(d.tokens, h[i].key)
        \/ d.tokens[h[i].key].revoked
    /\ h[i].op = "worker" =>
        Again(h, n, i, "worker") \/ d.workers[h[i].key] = WorkerRowOf(h[i])
    /\ h[i].op = "job" =>
        Again(h, n, i, "job") \/ d.jobs[h[i].key] = JobRowOf(h[i])
    /\ h[i].op = "task" =>
        /\ InTable(d.tasks, h[i].key)
        /\ Again(h, n, i, "task")
            \/ d.tasks[h[i].key] = TaskRowOf(h[i], d.tasks[h[i].key].created)
    /\ h[i].op = "result" =>
        Again(h, n, i, "result") \/ d.results[h[i].key] = [finished |-> h[i].finished]

\* d has what the first n saves of h wrote, and no job or task they did not.
Holds(h, d, n) ==
    /\ \A i \in 1..n : Stands(h, d, n, i)
    /\ \A k \in JobKeys : InTable(d.jobs, k) =>
            \E i \in 1..n : h[i].op = "job" /\ h[i].key = k
    /\ \A k \in TaskKeys : InTable(d.tasks, k) =>
            \E i \in 1..n : h[i].op = "task" /\ h[i].key = k

(* One more save: what it wrote stands, and so does what the others wrote  *)
(* in other rows.                                                          *)
LEMMA OneMoreSave ==
    ASSUME NEW d \in Tables, NEW s \in AnySave, NEW n \in Nat, NEW h, NEW g,
           \A i \in 1..n : h[i] \in AnySave /\ g[i] = h[i],
           g[n + 1] = s, Holds(h, d, n), NEW e, Effect(d, s, e)
    PROVE  Holds(g, e, n + 1)
<1>1. ASSUME NEW i \in 1..n, NEW op, Again(h, n, i, op) \/ (s.op = op /\ s.key = h[i].key)
      PROVE  Again(g, n + 1, i, op)
    <2>1. CASE Again(h, n, i, op)
        <3>1. PICK m \in (i + 1)..n : h[m].op = op /\ h[m].key = h[i].key
            BY <2>1 DEF Again
        <3>2. m \in 1..n /\ m \in (i + 1)..(n + 1)
            OBVIOUS
        <3>3. g[m] = h[m] /\ g[i] = h[i]
            BY <3>2
        <3> QED BY <3>1, <3>2, <3>3 DEF Again
    <2>2. CASE s.op = op /\ s.key = h[i].key
        <3>1. n + 1 \in (i + 1)..(n + 1) /\ g[i] = h[i]
            OBVIOUS
        <3> QED BY <2>2, <3>1 DEF Again
    <2> QED BY <1>1, <2>1, <2>2
<1>2. ASSUME NEW i \in 1..n PROVE Stands(g, e, n + 1, i)
    <2>1. g[i] = h[i] /\ h[i] \in AnySave /\ Stands(h, d, n, i)
        BY DEF Holds
    <2>2. ASSUME h[i].op = "room" PROVE h[i].key \in e.rooms
        BY <2>1, <2>2 DEF Effect, Stands
    <2>3. ASSUME h[i].op = "token"
          PROVE  Again(g, n + 1, i, "token")
                   \/ /\ InTable(e.tokens, h[i].key)
                      /\ e.tokens[h[i].key].room = h[i].room
                      /\ e.tokens[h[i].key].revoked => Again(g, n + 1, i, "revoke")
        <3>1. h[i].key \in Jtis
            BY <2>1, <2>3, SaveTypes DEF TokenSaves
        <3>2. \/ Again(h, n, i, "token")
              \/ /\ InTable(d.tokens, h[i].key)
                 /\ d.tokens[h[i].key].room = h[i].room
                 /\ d.tokens[h[i].key].revoked => Again(h, n, i, "revoke")
            BY <2>1, <2>3 DEF Stands
        <3>3. CASE Again(h, n, i, "token") \/ (s.op = "token" /\ s.key = h[i].key)
            BY <1>1, <3>3
        <3>4. CASE ~Again(h, n, i, "token") /\ s.op = "revoke" /\ s.key = h[i].key
            <4>1. d.tokens[h[i].key] \in TokenRow
                BY <3>1, <3>2, <3>4 DEF Tables, Table, InTable
            <4>2. e.tokens[h[i].key] = [d.tokens[h[i].key] EXCEPT !.revoked = TRUE]
                BY <3>1, <3>2, <3>4 DEF Effect
            <4>3. e.tokens[h[i].key].room = h[i].room /\ e.tokens[h[i].key] \in TokenRow
                <5> QED BY <3>2, <3>4, <4>1, <4>2 DEF TokenRow
            <4>4. InTable(e.tokens, h[i].key)
                <5> QED BY <4>3, NoRowAssumption DEF InTable
            <4> QED BY <1>1, <3>4, <4>3, <4>4
        <3>5. CASE /\ ~Again(h, n, i, "token")
                   /\ ~(s.op \in {"token", "revoke"} /\ s.key = h[i].key)
            <4>1. e.tokens[h[i].key] = d.tokens[h[i].key]
                BY <3>1, <3>5 DEF Effect
            <4> QED BY <1>1, <3>2, <3>5, <4>1 DEF InTable
        <3> QED BY <3>3, <3>4, <3>5
    <2>4. ASSUME h[i].op = "revoke"
          PROVE  \/ Again(g, n + 1, i, "token")
                 \/ ~InTable(e.tokens, h[i].key)
                 \/ e.tokens[h[i].key].revoked
        <3>1. h[i].key \in Jtis
            BY <2>1, <2>4, SaveTypes DEF Revocations
        <3>2. \/ Again(h, n, i, "token") \/ ~InTable(d.tokens, h[i].key)
              \/ d.tokens[h[i].key].revoked
            BY <2>1, <2>4 DEF Stands
        <3>3. CASE Again(h, n, i, "token") \/ (s.op = "token" /\ s.key = h[i].key)
            BY <1>1, <3>3
        <3>4. CASE ~Again(h, n, i, "token") /\ ~InTable(d.tokens, h[i].key)
                   /\ ~(s.op = "token" /\ s.key = h[i].key)
            <4>1. e.tokens[h[i].key] = d.tokens[h[i].key]
                BY <3>1, <3>4 DEF Effect
            <4> QED BY <3>4, <4>1 DEF InTable
        <3>5. CASE ~Again(h, n, i, "token") /\ InTable(d.tokens, h[i].key)
                   /\ ~(s.op = "token" /\ s.key = h[i].key)
            <4>1. d.tokens[h[i].key] \in TokenRow /\ d.tokens[h[i].key].revoked
                BY <3>1, <3>2, <3>5 DEF Tables, Table, InTable
            <4>2. \/ e.tokens[h[i].key] = d.tokens[h[i].key]
                  \/ e.tokens[h[i].key] = [d.tokens[h[i].key] EXCEPT !.revoked = TRUE]
                BY <3>1, <3>5 DEF Effect
            <4> QED BY <4>1, <4>2 DEF TokenRow
        <3> QED BY <3>3, <3>4, <3>5
    <2>5. ASSUME h[i].op = "worker"
          PROVE  Again(g, n + 1, i, "worker") \/ e.workers[h[i].key] = WorkerRowOf(h[i])
        <3>1. h[i].key \in WorkerKeys
            BY <2>1, <2>5, SaveTypes DEF WorkerSaves
        <3>2. Again(h, n, i, "worker") \/ d.workers[h[i].key] = WorkerRowOf(h[i])
            BY <2>1, <2>5 DEF Stands
        <3>3. CASE Again(h, n, i, "worker") \/ (s.op = "worker" /\ s.key = h[i].key)
            BY <1>1, <3>3
        <3>4. CASE ~Again(h, n, i, "worker") /\ ~(s.op = "worker" /\ s.key = h[i].key)
            BY <3>1, <3>2, <3>4 DEF Effect
        <3> QED BY <3>3, <3>4
    <2>6. ASSUME h[i].op = "job"
          PROVE  Again(g, n + 1, i, "job") \/ e.jobs[h[i].key] = JobRowOf(h[i])
        <3>1. h[i].key \in JobKeys
            BY <2>1, <2>6, SaveTypes DEF JobSaves
        <3>2. Again(h, n, i, "job") \/ d.jobs[h[i].key] = JobRowOf(h[i])
            BY <2>1, <2>6 DEF Stands
        <3>3. CASE Again(h, n, i, "job") \/ (s.op = "job" /\ s.key = h[i].key)
            BY <1>1, <3>3
        <3>4. CASE ~Again(h, n, i, "job") /\ ~(s.op = "job" /\ s.key = h[i].key)
            BY <3>1, <3>2, <3>4 DEF Effect
        <3> QED BY <3>3, <3>4
    <2>7. ASSUME h[i].op = "task"
          PROVE  /\ InTable(e.tasks, h[i].key)
                 /\ Again(g, n + 1, i, "task")
                      \/ e.tasks[h[i].key] = TaskRowOf(h[i], e.tasks[h[i].key].created)
        <3>1. h[i].key \in TaskKeys
            BY <2>1, <2>7, SaveTypes DEF TaskSaves
        <3>2. /\ InTable(d.tasks, h[i].key)
              /\ Again(h, n, i, "task")
                  \/ d.tasks[h[i].key] = TaskRowOf(h[i], d.tasks[h[i].key].created)
            BY <2>1, <2>7 DEF Stands
        <3>3. CASE s.op = "task" /\ s.key = h[i].key
            <4>1. InTable(e.tasks, s.key)
                BY <3>3, RowThere
            <4> QED BY <1>1, <3>3, <4>1
        <3>4. CASE ~(s.op = "task" /\ s.key = h[i].key)
            <4>1. e.tasks[h[i].key] = d.tasks[h[i].key]
                BY <3>1, <3>4 DEF Effect
            <4> QED BY <1>1, <3>2, <4>1 DEF InTable
        <3> QED BY <3>3, <3>4
    <2>8. ASSUME h[i].op = "result"
          PROVE  Again(g, n + 1, i, "result") \/ e.results[h[i].key] = [finished |-> h[i].finished]
        <3>1. h[i].key \in TaskKeys
            BY <2>1, <2>8, SaveTypes DEF ResultSaves
        <3>2. Again(h, n, i, "result") \/ d.results[h[i].key] = [finished |-> h[i].finished]
            BY <2>1, <2>8 DEF Stands
        <3>3. CASE Again(h, n, i, "result") \/ (s.op = "result" /\ s.key = h[i].key)
            BY <1>1, <3>3
        <3>4. CASE ~Again(h, n, i, "result") /\ ~(s.op = "result" /\ s.key = h[i].key)
            BY <3>1, <3>2, <3>4 DEF Effect
        <3> QED BY <3>3, <3>4
    <2> QED
        <3> QED BY <2>1, <2>2, <2>3, <2>4, <2>5, <2>6, <2>7, <2>8 DEF Stands
<1>3. Stands(g, e, n + 1, n + 1)
    <2>1. ASSUME s.op = "room" PROVE s.key \in e.rooms
        BY <2>1 DEF Effect
    <2>2. ASSUME s.op = "token"
          PROVE  InTable(e.tokens, s.key) /\ e.tokens[s.key].room = s.room
                    /\ ~e.tokens[s.key].revoked
        <3>1. s.key \in Jtis /\ s.room \in Rooms
            BY <2>2, SaveTypes DEF TokenSaves
        <3>2. [room |-> s.room, revoked |-> FALSE] \in TokenRow
            BY <3>1 DEF TokenRow
        <3>3. e.tokens[s.key] = [room |-> s.room, revoked |-> FALSE]
            BY <2>2, <3>1 DEF Effect
        <3>4. e.tokens[s.key].room = s.room /\ e.tokens[s.key].revoked = FALSE
            BY <3>3
        <3> QED BY <3>2, <3>3, <3>4, NoRowAssumption DEF InTable
    <2>3. ASSUME s.op = "revoke", InTable(e.tokens, s.key) PROVE e.tokens[s.key].revoked
        <3>1. s.key \in Jtis
            BY <2>3, SaveTypes DEF Revocations
        <3>2. InTable(d.tokens, s.key)
            BY <2>3, <3>1 DEF Effect, InTable
        <3>3. d.tokens[s.key] \in TokenRow
            BY <3>1, <3>2 DEF Tables, Table, InTable
        <3>4. e.tokens[s.key] = [d.tokens[s.key] EXCEPT !.revoked = TRUE]
            BY <2>3, <3>1, <3>2 DEF Effect
        <3> QED BY <3>3, <3>4 DEF TokenRow
    <2>4. ASSUME s.op = "worker" PROVE e.workers[s.key] = WorkerRowOf(s)
        <3>1. s.key \in WorkerKeys
            BY <2>4, SaveTypes DEF WorkerSaves
        <3> QED BY <2>4, <3>1 DEF Effect
    <2>5. ASSUME s.op = "job" PROVE e.jobs[s.key] = JobRowOf(s)
        <3>1. s.key \in JobKeys
            BY <2>5, SaveTypes DEF JobSaves
        <3> QED BY <2>5, <3>1 DEF Effect
    <2>6. ASSUME s.op = "task"
          PROVE  InTable(e.tasks, s.key) /\ e.tasks[s.key] = TaskRowOf(s, e.tasks[s.key].created)
        <3>1. s.key \in TaskKeys
            BY <2>6, SaveTypes DEF TaskSaves
        <3>2. e.tasks[s.key] = TaskRowOf(s, TaskCreated(d, s))
            BY <2>6, <3>1 DEF Effect
        <3>3. e.tasks[s.key].created = TaskCreated(d, s)
            BY <3>2 DEF TaskRowOf
        <3> QED BY <2>6, <3>2, <3>3, RowThere
    <2>7. ASSUME s.op = "result" PROVE e.results[s.key] = [finished |-> s.finished]
        <3>1. s.key \in TaskKeys
            BY <2>7, SaveTypes DEF ResultSaves
        <3> QED BY <2>7, <3>1 DEF Effect
    <2> QED BY <2>1, <2>2, <2>3, <2>4, <2>5, <2>6, <2>7 DEF Stands
<1>4. ASSUME NEW k \in JobKeys, InTable(e.jobs, k)
      PROVE  \E i \in 1..(n + 1) : g[i].op = "job" /\ g[i].key = k
    <2>1. CASE s.op = "job" /\ s.key = k
        BY <2>1
    <2>2. CASE ~(s.op = "job" /\ s.key = k)
        <3>1. InTable(d.jobs, k)
            BY <1>4, <2>2 DEF Effect, InTable
        <3>2. PICK i \in 1..n : h[i].op = "job" /\ h[i].key = k
            BY <3>1 DEF Holds
        <3> QED BY <3>2
    <2> QED BY <2>1, <2>2
<1>5. ASSUME NEW k \in TaskKeys, InTable(e.tasks, k)
      PROVE  \E i \in 1..(n + 1) : g[i].op = "task" /\ g[i].key = k
    <2>1. CASE s.op = "task" /\ s.key = k
        BY <2>1
    <2>2. CASE ~(s.op = "task" /\ s.key = k)
        <3>1. InTable(d.tasks, k)
            BY <1>5, <2>2 DEF Effect, InTable
        <3>2. PICK i \in 1..n : h[i].op = "task" /\ h[i].key = k
            BY <3>1 DEF Holds
        <3> QED BY <3>2
    <2> QED BY <2>1, <2>2
<1> QED
    <2>1. \A i \in 1..(n + 1) : i \in 1..n \/ i = n + 1
        OBVIOUS
    <2> QED BY <1>2, <1>3, <1>4, <1>5, <2>1 DEF Holds

(* What holds of a history holds of any with the same first n saves.       *)
LEMMA SamePrefix ==
    ASSUME NEW d, NEW n \in Nat, NEW h, NEW g, \A i \in 1..n : g[i] = h[i], Holds(h, d, n)
    PROVE  Holds(g, d, n)
<1>1. ASSUME NEW i \in 1..n, NEW op PROVE Again(g, n, i, op) <=> Again(h, n, i, op)
    <2>1. \A m \in (i + 1)..n : g[m] = h[m]
        OBVIOUS
    <2> QED BY <2>1 DEF Again
<1>2. ASSUME NEW i \in 1..n PROVE Stands(g, d, n, i)
    BY <1>1 DEF Holds, Stands
<1> QED BY <1>2 DEF Holds

\* The types, and both tables as what their saves wrote.
StoreInv ==
    /\ log \in Seq(AnySave) /\ Len(log) <= LogBound /\ kept \in 0..Len(log)
    /\ RefInv
    /\ Holds(log, db, kept)
    /\ Holds(log, view, Len(log))

(* The statement of a save keeps what the transaction holds.               *)
LEMMA Executed ==
    ASSUME StoreInv, NEW s \in AnySave, Execute(s)
    PROVE  /\ log' \in Seq(AnySave) /\ Len(log') = Len(log) + 1 /\ Len(log') <= LogBound
           /\ \A i \in 1..Len(log) : log'[i] = log[i]
           /\ Effect(view, s, view')
           /\ Holds(log', view', Len(log'))
<1> USE DEF StoreInv
<1>1. /\ log' = Append(log, s) /\ Len(log) \in Nat /\ Len(log) < LogBound
      /\ view' = Applied(view, s)
    BY DEF Execute
<1>2. /\ log' \in Seq(AnySave) /\ Len(log') = Len(log) + 1 /\ log'[Len(log) + 1] = s
      /\ \A i \in 1..Len(log) : log'[i] = log[i] /\ log[i] \in AnySave
    BY <1>1
<1>3. Effect(view, s, view')
    BY <1>1, Effects DEF RefInv
<1>4. Holds(log', view', Len(log) + 1)
    BY <1>1, <1>2, <1>3, OneMoreSave DEF RefInv
<1> QED BY <1>1, <1>2, <1>3, <1>4, LogBoundAssumption

(* An empty database has the saves of an empty history.                    *)
LEMMA StoreInvInit == StoreInit => StoreInv
<1> SUFFICES ASSUME StoreInit PROVE StoreInv
    OBVIOUS
<1>1. log = <<>> /\ kept = 0 /\ db = EmptyTables /\ view = EmptyTables
    BY DEF StoreInit
<1>2. Holds(<<>>, EmptyTables, 0)
    BY DEF Holds, EmptyTables, Empty, InTable
<1> QED BY <1>1, <1>2, RefInvInit, LogBoundAssumption DEF StoreInv

(* Every save, failed commit and rollback keeps both tables in step with   *)
(* their saves.                                                            *)
LEMMA StoreInvStep == StoreInv /\ [StoreNext]_storeVars => StoreInv'
<1> SUFFICES ASSUME StoreInv, [StoreNext]_storeVars PROVE StoreInv'
    OBVIOUS
<1>1. RefInv'
    BY RefInvStep DEF StoreInv
<1>2. ASSUME NEW s \in AnySave, Save(s) PROVE StoreInv'
    <2>1. Execute(s) /\ db' = view' /\ kept' = Len(log')
        BY <1>2 DEF Save, DbAfterCommit
    <2>2. log' \in Seq(AnySave) /\ Len(log') <= LogBound /\ Holds(log', view', Len(log'))
        BY <2>1, Executed
    <2>3. kept' \in 0..Len(log')
        BY <2>1, <2>2
    <2> QED BY <1>1, <2>1, <2>2, <2>3 DEF StoreInv
<1>3. ASSUME NEW s \in AnySave, Execute(s), UNCHANGED <<db, kept>> PROVE StoreInv'
    <2>1. /\ log' \in Seq(AnySave) /\ Len(log') = Len(log) + 1 /\ Len(log') <= LogBound
          /\ Holds(log', view', Len(log'))
          /\ \A i \in 1..Len(log) : log'[i] = log[i]
        BY <1>3, Executed
    <2>2. kept \in Nat /\ kept \in 0..Len(log') /\ \A i \in 1..kept : log'[i] = log[i]
        BY <2>1 DEF StoreInv
    <2>3. Holds(log', db, kept)
        BY <2>2, SamePrefix DEF StoreInv
    <2> QED BY <1>1, <1>3, <2>1, <2>2, <2>3 DEF StoreInv
<1>4. CASE TransactionDropped
    <2>1. kept \in 0..Len(log) /\ kept \in Nat /\ log \in Seq(AnySave)
        BY DEF StoreInv
    <2>2. log' = SubSeq(log, 1, kept) /\ view' = db /\ db' = db /\ kept' = kept
        BY <1>4 DEF TransactionDropped
    <2>3. /\ log' \in Seq(AnySave) /\ Len(log') = kept
          /\ \A i \in 1..kept : log'[i] = log[i]
        BY <2>1, <2>2
    <2>4. Holds(log', db, kept)
        BY <2>1, <2>3, SamePrefix DEF StoreInv
    <2>5. Len(log') <= LogBound
        BY <2>1, <2>3, LogBoundAssumption DEF StoreInv
    <2> QED BY <1>1, <2>1, <2>2, <2>3, <2>4, <2>5 DEF StoreInv
<1>5. CASE UNCHANGED storeVars
    BY <1>1, <1>5 DEF storeVars, StoreInv
<1> QED BY <1>2, <1>3, <1>4, <1>5, StepsOfStore DEF StoreStep

(* The invariant of the store.                                             *)
THEOREM StoreInvariant == StoreSpec => []StoreInv
BY StoreInvInit, StoreInvStep, PTL DEF StoreSpec

(* Tables of the right type, and a committed part of a bounded history.    *)
THEOREM StoreTypes == StoreSpec => []StoreTypeOK
<1>1. StoreInv => StoreTypeOK
    BY DEF StoreInv, RefInv, StoreTypeOK
<1> QED BY <1>1, StoreInvariant, PTL

-----------------------------------------------------------------------------
(* A set of naturals that is not empty has a least element.                *)
LEMMA LeastElement ==
    ASSUME NEW S \in SUBSET Nat, S # {}
    PROVE  \E m \in S : \A x \in S : m <= x
<1> DEFINE Less == OpToRel(<, Nat)
<1>1. IsWellFoundedOn(Less, Nat)
    BY NatLessThanWellFounded
<1>2. \A x \in Nat, y \in Nat : x < y => <<x, y>> \in Less
    BY DEF OpToRel
<1> HIDE DEF Less
<1>3. PICK m \in S : \A x \in S : ~(<<x, m>> \in Less)
    BY <1>1, WFMin
<1>4. ASSUME NEW x \in S PROVE m <= x
    <2>1. x \in Nat /\ m \in Nat /\ ~(x < m)
        BY <1>2, <1>3
    <2> QED BY <2>1
<1> QED BY <1>4

(* A set of indices up to n that is not empty has a greatest element.      *)
LEMMA Greatest ==
    ASSUME NEW n \in Nat, NEW S \in SUBSET (1..n), S # {}
    PROVE  Max(S) \in S /\ \A x \in S : x <= Max(S)
<1> DEFINE D == {n - x : x \in S}
<1>0. \A x \in S : x \in Nat /\ x <= n /\ n - x \in Nat
    OBVIOUS
<1>1. D \in SUBSET Nat /\ D # {}
    BY <1>0
<1> HIDE DEF D
<1>2. PICK m \in D : \A y \in D : m <= y
    BY <1>1, LeastElement
<1> USE DEF D
<1>3. PICK x \in S : m = n - x
    BY <1>2
<1>4. ASSUME NEW y \in S PROVE x >= y
    <2>1. n - y \in D
        OBVIOUS
    <2> HIDE DEF D
    <2>2. n - x <= n - y
        BY <1>2, <1>3, <2>1
    <2>3. x \in Nat /\ y \in Nat
        BY <1>0
    <2> QED BY <2>2, <2>3
<1>5. \E y \in S : \A z \in S : y >= z
    BY <1>4
<1>6. Max(S) \in S /\ \A z \in S : Max(S) >= z
    BY <1>5 DEF Max
<1> QED BY <1>6

(* The last committed save of a key: no later one is for the same row.     *)
LEMMA LastIsLast ==
    ASSUME StoreInv, NEW op, NEW k, SavesOf(op, k) # {}
    PROVE  \E i \in 1..kept :
             /\ LastSave(op, k) = log[i] /\ log[i].op = op /\ log[i].key = k
             /\ log[i] \in AnySave
             /\ ~Again(log, kept, i, op)
<1>1. kept \in Nat /\ log \in Seq(AnySave) /\ kept \in 0..Len(log)
    BY DEF StoreInv
<1>2. SavesOf(op, k) \in SUBSET (1..kept)
    BY DEF SavesOf
<1> DEFINE i == Max(SavesOf(op, k))
<1>3. i \in SavesOf(op, k) /\ \A x \in SavesOf(op, k) : x <= i
    BY <1>1, <1>2, Greatest
<1> HIDE DEF i
<1>4. i \in 1..kept /\ log[i].op = op /\ log[i].key = k
    BY <1>3 DEF SavesOf
<1>5. ~Again(log, kept, i, op)
    <2> SUFFICES ASSUME NEW m \in (i + 1)..kept, log[m].op = op, log[m].key = k PROVE FALSE
        BY <1>4 DEF Again
    <2>1. m \in 1..kept /\ m > i
        BY <1>1, <1>4
    <2> QED BY <1>3, <1>4, <2>1 DEF SavesOf
<1>6. log[i] \in AnySave
    BY <1>1, <1>4
<1> QED BY <1>4, <1>5, <1>6 DEF LastSave, i

(* A task is in its table once a save of it is committed, and as the last  *)
(* of them left it.                                                        *)
LEMMA TaskAsSaved ==
    ASSUME StoreInv, NEW k \in TaskKeys
    PROVE  /\ InTable(db.tasks, k) <=> SavesOf("task", k) # {}
           /\ InTable(db.tasks, k) =>
                /\ db.tasks[k].job = LastSave("task", k).job
                /\ db.tasks[k].status = LastSave("task", k).status
                /\ db.tasks[k].attempts = LastSave("task", k).attempts
                /\ Unreadable(db, k) <=> NotFinite(k)
<1>1. Holds(log, db, kept)
    BY DEF StoreInv
<1>2. InTable(db.tasks, k) => SavesOf("task", k) # {}
    BY <1>1 DEF Holds, SavesOf
<1>3. ASSUME SavesOf("task", k) # {}
      PROVE  /\ InTable(db.tasks, k)
             /\ db.tasks[k].job = LastSave("task", k).job
             /\ db.tasks[k].status = LastSave("task", k).status
             /\ db.tasks[k].attempts = LastSave("task", k).attempts
             /\ Unreadable(db, k) <=> NotFinite(k)
    <2>1. PICK i \in 1..kept :
             /\ LastSave("task", k) = log[i] /\ log[i].op = "task" /\ log[i].key = k
             /\ log[i] \in AnySave
             /\ ~Again(log, kept, i, "task")
        BY <1>3, LastIsLast
    <2>2. InTable(db.tasks, k) /\ db.tasks[k] = TaskRowOf(log[i], db.tasks[k].created)
        BY <1>1, <2>1 DEF Holds, Stands
    <2>3. log[i].units \in Units
        BY <2>1, SaveTypes DEF TaskSaves
    <2>4. db.tasks[k].units = RequiresJson(log[i].units)
        BY <2>2 DEF TaskRowOf
    <2>5. Unreadable(db, k) <=> NotFinite(k)
        BY <2>1, <2>3, <2>4 DEF Unreadable, NotFinite, RequiresJson, Units
    <2> QED BY <2>1, <2>2, <2>5 DEF TaskRowOf
<1> QED BY <1>2, <1>3

(* The same of a job.                                                      *)
LEMMA JobAsSaved ==
    ASSUME StoreInv, NEW k \in JobKeys
    PROVE  /\ InTable(db.jobs, k) <=> SavesOf("job", k) # {}
           /\ InTable(db.jobs, k) => db.jobs[k].status = LastSave("job", k).status
<1>1. Holds(log, db, kept)
    BY DEF StoreInv
<1>2. InTable(db.jobs, k) => SavesOf("job", k) # {}
    BY <1>1 DEF Holds, SavesOf
<1>3. ASSUME SavesOf("job", k) # {}
      PROVE  InTable(db.jobs, k) /\ db.jobs[k].status = LastSave("job", k).status
    <2>1. PICK i \in 1..kept :
             /\ LastSave("job", k) = log[i] /\ log[i].op = "job" /\ log[i].key = k
             /\ log[i] \in AnySave
             /\ ~Again(log, kept, i, "job")
        BY <1>3, LastIsLast
    <2>2. db.jobs[k] = JobRowOf(log[i])
        BY <1>1, <2>1 DEF Holds, Stands
    <2>3. JobRowOf(log[i]) \in JobRow
        BY <2>1, SaveTypes DEF JobSaves, JobRow, JobRowOf
    <2>4. InTable(db.jobs, k)
        BY <2>2, <2>3, NoRowAssumption DEF InTable
    <2> QED BY <2>1, <2>2, <2>4 DEF JobRowOf
<1> QED BY <1>2, <1>3

(* load_open_jobs: the jobs their last committed saves left open.          *)
LEMMA OpenJobsAsSaved == StoreInv => LoadOpenJobs(db) = LeftOpen
<1> SUFFICES ASSUME StoreInv, NEW k \in JobKeys PROVE k \in LoadOpenJobs(db) <=> k \in LeftOpen
    BY DEF LoadOpenJobs, LeftOpen
<1>1. CASE ~InTable(db.jobs, k)
    BY <1>1, JobAsSaved DEF LoadOpenJobs, LeftOpen
<1>2. CASE InTable(db.jobs, k)
    <2>1. db.jobs[k].status \in JobStatus
        BY <1>2 DEF StoreInv, RefInv, Tables, Table, InTable, JobRow
    <2>2. SavesOf("job", k) # {} /\ db.jobs[k].status = LastSave("job", k).status
        BY <1>2, JobAsSaved
    <2> QED BY <1>2, <2>1, <2>2 DEF LoadOpenJobs, LeftOpen, JobStatus, OPEN_JOB_STATUSES
<1> QED BY <1>1, <1>2

(* The query of load_pending_tasks: the tasks of the job their last        *)
(* committed saves left unfinished.                                        *)
LEMMA PendingRowsAsSaved ==
    ASSUME StoreInv, NEW j
    PROVE  PendingRows(db, j) = Unfinished(j)
<1> SUFFICES ASSUME NEW k \in TaskKeys PROVE k \in PendingRows(db, j) <=> k \in Unfinished(j)
    BY DEF PendingRows, Unfinished
<1>1. CASE ~InTable(db.tasks, k)
    BY <1>1, TaskAsSaved DEF PendingRows, Unfinished
<1>2. CASE InTable(db.tasks, k)
    <2>1. db.tasks[k].status \in TaskStatus
        BY <1>2 DEF StoreInv, RefInv, Tables, Table, InTable, TaskRow
    <2>2. /\ SavesOf("task", k) # {} /\ db.tasks[k].job = LastSave("task", k).job
          /\ db.tasks[k].status = LastSave("task", k).status
        BY <1>2, TaskAsSaved
    <2> QED BY <1>2, <2>1, <2>2 DEF PendingRows, Unfinished, TaskStatus, PENDING_TASK_STATUSES
<1> QED BY <1>1, <1>2

(* load_open_jobs and load_pending_tasks: whatever failed, was rolled back *)
(* or died, a restart finds exactly the jobs and the work that the last    *)
(* committed saves left unfinished, as they left it, but for the load of a *)
(* job with an estimate that is not finite, which raises.                  *)
THEOREM NoWorkLostTheorem == StoreSpec => []NoWorkLost
<1>1. ASSUME StoreInv PROVE NoWorkLost
    <2> USE <1>1
    <2>1. LoadOpenJobs(db) = LeftOpen
        BY OpenJobsAsSaved
    <2>2. ASSUME NEW j \in LeftOpen
          PROVE  LoadPendingTasks(db, j) =
                   IF \E k \in Unfinished(j) : NotFinite(k) THEN Raised
                   ELSE Returned({AsSaved(k) : k \in Unfinished(j)})
        <3>1. PendingRows(db, j) = Unfinished(j)
            BY PendingRowsAsSaved
        <3>2. ASSUME NEW k \in Unfinished(j)
              PROVE  (Unreadable(db, k) <=> NotFinite(k)) /\ LoadedTask(db, k) = AsSaved(k)
            <4>1. k \in TaskKeys /\ InTable(db.tasks, k)
                BY <3>1 DEF PendingRows
            <4> QED BY <4>1, TaskAsSaved DEF LoadedTask, AsSaved
        <3>3. {LoadedTask(db, k) : k \in Unfinished(j)} = {AsSaved(k) : k \in Unfinished(j)}
            BY <3>2
        <3> QED BY <3>1, <3>2, <3>3 DEF LoadPendingTasks
    <2> QED BY <2>1, <2>2 DEF NoWorkLost
<1> QED BY <1>1, StoreInvariant, PTL

-----------------------------------------------------------------------------
\* d agrees with db but for rows that a save after the first n writes again.
\* (No save moves created_at or deletes a row, so of tasks these agree anyway.)
AgreesBut(d, n) ==
    /\ d \in Tables
    /\ d.rooms = db.rooms
    /\ \A k \in Jtis :
        \/ d.tokens[k] = db.tokens[k]
        \/ \E m \in (n + 1)..kept : log[m].op = "token" /\ log[m].key = k
        \/ /\ InTable(d.tokens, k) /\ InTable(db.tokens, k)
           /\ d.tokens[k].room = db.tokens[k].room
           /\ db.tokens[k].revoked
           /\ \E m \in (n + 1)..kept : log[m].op = "revoke" /\ log[m].key = k
    /\ \A k \in WorkerKeys :
        \/ d.workers[k] = db.workers[k]
        \/ \E m \in (n + 1)..kept : log[m].op = "worker" /\ log[m].key = k
    /\ \A k \in JobKeys :
        \/ d.jobs[k] = db.jobs[k]
        \/ \E m \in (n + 1)..kept : log[m].op = "job" /\ log[m].key = k
    /\ \A k \in TaskKeys :
        /\ InTable(d.tasks, k) <=> InTable(db.tasks, k)
        /\ InTable(db.tasks, k) => d.tasks[k].created = db.tasks[k].created
        /\ d.tasks[k] = db.tasks[k]
            \/ \E m \in (n + 1)..kept : log[m].op = "task" /\ log[m].key = k
    /\ \A k \in TaskKeys :
        \/ d.results[k] = db.results[k]
        \/ \E m \in (n + 1)..kept : log[m].op = "result" /\ log[m].key = k

(* Replaying one more save.  What it writes is what db has, if no later    *)
(* one writes the row again: db holds what its saves wrote.                *)
LEMMA OneMoreReplayed ==
    ASSUME StoreInv, NEW n \in 1..kept, NEW d, AgreesBut(d, n - 1)
    PROVE  AgreesBut(Applied(d, log[n]), n)
<1> DEFINE s == log[n]
<1>1. kept \in Nat /\ n \in Nat /\ log \in Seq(AnySave) /\ kept \in 0..Len(log)
    BY DEF StoreInv
<1>2. s \in AnySave
    BY <1>1
<1>3. d \in Tables /\ db \in Tables
    BY DEF AgreesBut, StoreInv, RefInv
<1>4. PICK e : e = Applied(d, s) /\ Effect(d, s, e)
    BY <1>2, <1>3, Effects
<1>5. Stands(log, db, kept, n)
    BY DEF StoreInv, Holds
<1>6. (n - 1) + 1 = n
    BY <1>1
<1>7. ASSUME NEW m \in n..kept, ~(m \in (n + 1)..kept) PROVE m = n
    BY <1>1, <1>7
<1> HIDE DEF s
<1>8. AgreesBut(e, n)
    <2>1. e \in Tables
        BY <1>4 DEF Effect
    <2>2. e.rooms = db.rooms
        <3>1. d.rooms = db.rooms /\ (s.op = "room" => s.key \in db.rooms)
            BY <1>5 DEF AgreesBut, Stands, s
        <3>2. e.rooms = IF s.op = "room" THEN d.rooms \cup {s.key} ELSE d.rooms
            BY <1>4 DEF Effect
        <3>3. CASE s.op = "room"
            BY <3>1, <3>2, <3>3
        <3>4. CASE s.op # "room"
            BY <3>1, <3>2, <3>4
        <3> QED BY <3>3, <3>4
    <2>3. ASSUME NEW k \in WorkerKeys
          PROVE  \/ e.workers[k] = db.workers[k]
                 \/ \E m \in (n + 1)..kept : log[m].op = "worker" /\ log[m].key = k
        <3>1. CASE s.op = "worker" /\ s.key = k
            BY <1>4, <1>5, <3>1 DEF Effect, Stands, Again, s
        <3>2. CASE ~(s.op = "worker" /\ s.key = k)
            <4>1. e.workers[k] = d.workers[k]
                BY <1>4, <3>2 DEF Effect
            <4> QED BY <1>6, <1>7, <3>2, <4>1 DEF AgreesBut, s
        <3> QED BY <3>1, <3>2
    <2>4. ASSUME NEW k \in JobKeys
          PROVE  \/ e.jobs[k] = db.jobs[k]
                 \/ \E m \in (n + 1)..kept : log[m].op = "job" /\ log[m].key = k
        <3>1. CASE s.op = "job" /\ s.key = k
            BY <1>4, <1>5, <3>1 DEF Effect, Stands, Again, s
        <3>2. CASE ~(s.op = "job" /\ s.key = k)
            <4>1. e.jobs[k] = d.jobs[k]
                BY <1>4, <3>2 DEF Effect
            <4> QED BY <1>6, <1>7, <3>2, <4>1 DEF AgreesBut, s
        <3> QED BY <3>1, <3>2
    <2>5. ASSUME NEW k \in TaskKeys
          PROVE  \/ e.results[k] = db.results[k]
                 \/ \E m \in (n + 1)..kept : log[m].op = "result" /\ log[m].key = k
        <3>1. CASE s.op = "result" /\ s.key = k
            BY <1>4, <1>5, <3>1 DEF Effect, Stands, Again, s
        <3>2. CASE ~(s.op = "result" /\ s.key = k)
            <4>1. e.results[k] = d.results[k]
                BY <1>4, <3>2 DEF Effect
            <4> QED BY <1>6, <1>7, <3>2, <4>1 DEF AgreesBut, s
        <3> QED BY <3>1, <3>2
    <2>6. ASSUME NEW k \in TaskKeys
          PROVE  /\ InTable(e.tasks, k) <=> InTable(db.tasks, k)
                 /\ InTable(db.tasks, k) => e.tasks[k].created = db.tasks[k].created
                 /\ e.tasks[k] = db.tasks[k]
                      \/ \E m \in (n + 1)..kept : log[m].op = "task" /\ log[m].key = k
        <3>1. CASE s.op = "task" /\ s.key = k
            <4>1. InTable(db.tasks, k) /\ InTable(e.tasks, k)
                BY <1>2, <1>3, <1>4, <1>5, <3>1, RowThere DEF Stands, s
            <4>2. InTable(d.tasks, k) /\ d.tasks[k].created = db.tasks[k].created
                BY <4>1 DEF AgreesBut
            <4>3. e.tasks[k] = TaskRowOf(s, db.tasks[k].created)
                BY <1>4, <3>1, <4>2 DEF Effect, TaskCreated
            <4>4. e.tasks[k].created = db.tasks[k].created
                BY <4>3 DEF TaskRowOf
            <4>5. \/ db.tasks[k] = TaskRowOf(s, db.tasks[k].created)
                  \/ \E m \in (n + 1)..kept : log[m].op = "task" /\ log[m].key = k
                BY <1>5, <3>1 DEF Stands, Again, s
            <4> QED BY <4>1, <4>3, <4>4, <4>5
        <3>2. CASE ~(s.op = "task" /\ s.key = k)
            <4>1. e.tasks[k] = d.tasks[k]
                BY <1>4, <3>2 DEF Effect
            <4> QED BY <1>6, <1>7, <3>2, <4>1 DEF AgreesBut, InTable, s
        <3> QED BY <3>1, <3>2
    <2>7. ASSUME NEW k \in Jtis
          PROVE  \/ e.tokens[k] = db.tokens[k]
                 \/ \E m \in (n + 1)..kept : log[m].op = "token" /\ log[m].key = k
                 \/ /\ InTable(e.tokens, k) /\ InTable(db.tokens, k)
                    /\ e.tokens[k].room = db.tokens[k].room
                    /\ db.tokens[k].revoked
                    /\ \E m \in (n + 1)..kept : log[m].op = "revoke" /\ log[m].key = k
        <3> SUFFICES ASSUME ~\E m \in (n + 1)..kept : log[m].op = "token" /\ log[m].key = k
                     PROVE  \/ e.tokens[k] = db.tokens[k]
                            \/ /\ InTable(e.tokens, k) /\ InTable(db.tokens, k)
                               /\ e.tokens[k].room = db.tokens[k].room
                               /\ db.tokens[k].revoked
                               /\ \E m \in (n + 1)..kept : log[m].op = "revoke" /\ log[m].key = k
            OBVIOUS
        <3>1. InTable(db.tokens, k) => db.tokens[k] \in TokenRow
            BY <1>3 DEF Tables, Table, InTable
        <3>2. CASE s.op = "token" /\ s.key = k
            <4>1. e.tokens[k] = [room |-> s.room, revoked |-> FALSE]
                BY <1>4, <3>2 DEF Effect
            <4>2. /\ InTable(db.tokens, k) /\ db.tokens[k].room = s.room
                  /\ db.tokens[k].revoked =>
                       \E m \in (n + 1)..kept : log[m].op = "revoke" /\ log[m].key = k
                BY <1>5, <3>2 DEF Stands, Again, s
            <4>3. InTable(e.tokens, k) /\ e.tokens[k].room = s.room
                <5>1. e.tokens[k] \in TokenRow
                    BY <1>2, <3>2, <4>1, SaveTypes DEF TokenSaves, TokenRow
                <5>2. InTable(e.tokens, k)
                    BY <5>1, NoRowAssumption DEF InTable
                <5> QED BY <4>1, <5>2
            <4>4. CASE db.tokens[k].revoked
                BY <4>2, <4>3, <4>4
            <4>5. CASE ~db.tokens[k].revoked
                BY <3>1, <4>1, <4>2, <4>5 DEF TokenRow
            <4> QED BY <4>4, <4>5
        <3>3. CASE s.op = "revoke" /\ s.key = k
            <4>1. ~\E m \in n..kept : log[m].op = "token" /\ log[m].key = k
                BY <1>7, <3>3 DEF s
            <4>2. \/ d.tokens[k] = db.tokens[k]
                  \/ /\ InTable(d.tokens, k) /\ InTable(db.tokens, k)
                     /\ d.tokens[k].room = db.tokens[k].room
                     /\ db.tokens[k].revoked
                BY <1>6, <4>1 DEF AgreesBut
            <4>3. InTable(db.tokens, k) => db.tokens[k].revoked
                BY <1>5, <3>3 DEF Stands, Again, s
            <4>4. InTable(d.tokens, k) <=> InTable(db.tokens, k)
                BY <4>2 DEF InTable
            <4>5. CASE ~InTable(d.tokens, k)
                <5>1. e.tokens[k] = d.tokens[k]
                    BY <1>4, <3>3, <4>5 DEF Effect
                <5> QED BY <4>2, <4>5, <5>1
            <4>6. CASE InTable(d.tokens, k)
                <5>1. e.tokens[k] = [d.tokens[k] EXCEPT !.revoked = TRUE]
                    BY <1>4, <3>3, <4>6 DEF Effect
                <5>2. d.tokens[k] \in TokenRow /\ db.tokens[k] \in TokenRow
                    BY <1>3, <4>4, <4>6 DEF Tables, Table, InTable
                <5>3. d.tokens[k].room = db.tokens[k].room /\ db.tokens[k].revoked
                    BY <4>2, <4>3, <4>4, <4>6
                <5> QED BY <5>1, <5>2, <5>3 DEF TokenRow
            <4> QED BY <4>5, <4>6
        <3>4. CASE ~(s.op \in {"token", "revoke"} /\ s.key = k)
            <4>1. e.tokens[k] = d.tokens[k]
                BY <1>4, <3>4 DEF Effect
            <4> QED BY <1>6, <1>7, <3>4, <4>1 DEF AgreesBut, InTable, s
        <3> QED BY <3>2, <3>3, <3>4
    <2> QED BY <2>1, <2>2, <2>3, <2>4, <2>5, <2>6, <2>7 DEF AgreesBut
<1> QED BY <1>4, <1>8 DEF s

(* Replayed is the function its definition asks for: there is one.         *)
LEMMA ReplayDefined ==
    ASSUME kept \in Nat
    PROVE  \A n \in 0..kept :
             Replayed[n] = IF n = 0 THEN db ELSE Applied(Replayed[n - 1], log[n])
<1> DEFINE Step(f, n) == IF n = 0 THEN db ELSE Applied(f[n - 1], log[n])
           Upto(f, m) == \A n \in 0..m : f[n] = Step(f, n)
           None == {m \in 0..kept : ~\E f : Upto(f, m)}
<1>1. None = {}
    <2> SUFFICES ASSUME None # {} PROVE FALSE
        OBVIOUS
    <2>1. None \in SUBSET Nat
        OBVIOUS
    <2> HIDE DEF None
    <2>2. PICK m \in None : \A x \in None : m <= x
        BY <2>1, LeastElement
    <2> USE DEF None
    <2>3. m \in 0..kept /\ ~\E f : Upto(f, m)
        BY <2>2
    <2>4. CASE m = 0
        <3>1. Upto([n \in {0} |-> db], 0)
            OBVIOUS
        <3> QED BY <2>3, <2>4, <3>1
    <2>5. CASE m # 0
        <3>1. m - 1 \in 0..kept /\ ~(m <= m - 1)
            BY <2>3, <2>5
        <3>2. PICK f : Upto(f, m - 1)
            BY <2>2, <3>1
        <3> DEFINE g == [n \in 0..m |-> IF n = m THEN Applied(f[m - 1], log[m]) ELSE f[n]]
        <3>3. ASSUME NEW n \in 0..m PROVE g[n] = Step(g, n)
            <4>1. CASE n = m
                BY <2>3, <2>5, <4>1
            <4>2. CASE n # m
                <5>1. n \in 0..(m - 1) /\ (n # 0 => n - 1 \in 0..m /\ n - 1 # m)
                    BY <2>3, <4>2
                <5> QED BY <3>2, <4>2, <5>1
            <4> QED BY <4>1, <4>2
        <3>4. Upto(g, m)
            BY <3>3
        <3> HIDE DEF g
        <3> QED BY <2>3, <3>4
    <2> QED BY <2>4, <2>5
<1>2. PICK f : Upto(f, kept)
    <2>1. kept \in 0..kept
        OBVIOUS
    <2> QED BY <1>1, <2>1
<1>3. [n \in 0..kept |-> f[n]] = [n \in 0..kept |-> Step([x \in 0..kept |-> f[x]], n)]
    <2>1. ASSUME NEW n \in 0..kept PROVE f[n] = Step([x \in 0..kept |-> f[x]], n)
        <3>1. n # 0 => n - 1 \in 0..kept
            OBVIOUS
        <3> QED BY <1>2, <3>1
    <2> QED BY <2>1
<1>4. Replayed = [n \in 0..kept |-> Step(Replayed, n)]
    BY <1>3 DEF Replayed
<1> QED BY <1>4

(* "save is idempotent and safe to replay during recovery": replaying the  *)
(* whole history of a database over it, whatever it holds, changes nothing.*)
THEOREM ReplayTheorem == StoreSpec => []ReplayIsSafe
<1>1. ASSUME StoreInv PROVE ReplayIsSafe
    <2> USE <1>1
    <2>1. kept \in Nat /\ db \in Tables
        BY DEF StoreInv, RefInv
    <2> DEFINE Off == {n \in 0..kept : ~AgreesBut(Replayed[n], n)}
    <2>2. Off = {}
        <3> SUFFICES ASSUME Off # {} PROVE FALSE
            OBVIOUS
        <3>1. Off \in SUBSET Nat
            OBVIOUS
        <3> HIDE DEF Off
        <3>2. PICK m \in Off : \A x \in Off : m <= x
            BY <3>1, LeastElement
        <3> USE DEF Off
        <3>3. m \in 0..kept /\ ~AgreesBut(Replayed[m], m)
            BY <3>2
        <3>4. CASE m = 0
            <4>1. Replayed[0] = db
                BY <2>1, ReplayDefined, <3>3, <3>4
            <4>2. AgreesBut(db, 0)
                BY <2>1 DEF AgreesBut
            <4> QED BY <3>3, <3>4, <4>1, <4>2
        <3>5. CASE m # 0
            <4>1. m - 1 \in 0..kept /\ m \in 1..kept /\ ~(m <= m - 1)
                BY <2>1, <3>3, <3>5
            <4>2. AgreesBut(Replayed[m - 1], m - 1)
                BY <3>2, <4>1
            <4>3. Replayed[m] = Applied(Replayed[m - 1], log[m])
                BY <2>1, <3>3, <3>5, ReplayDefined
            <4> QED BY <3>3, <4>1, <4>2, <4>3, OneMoreReplayed
        <3> QED BY <3>4, <3>5
    <2>3. AgreesBut(Replayed[kept], kept)
        <3>1. kept \in 0..kept
            BY <2>1
        <3> QED BY <2>2, <3>1
    <2>4. ASSUME NEW d, AgreesBut(d, kept) PROVE d = db
        <3>1. (kept + 1)..kept = {}
            BY <2>1
        <3>2. /\ d.rooms = db.rooms
              /\ \A k \in Jtis : d.tokens[k] = db.tokens[k]
              /\ \A k \in WorkerKeys : d.workers[k] = db.workers[k]
              /\ \A k \in JobKeys : d.jobs[k] = db.jobs[k]
              /\ \A k \in TaskKeys : d.tasks[k] = db.tasks[k]
              /\ \A k \in TaskKeys : d.results[k] = db.results[k]
            BY <2>4, <3>1 DEF AgreesBut
        <3>3. d \in Tables
            BY <2>4 DEF AgreesBut
        <3> QED BY <2>1, <3>2, <3>3 DEF Tables, Table
    <2> QED BY <2>3, <2>4 DEF ReplayIsSafe
<1> QED BY <1>1, StoreInvariant, PTL

-----------------------------------------------------------------------------
\* The open transaction has not moved a committed task either.
CreatedKept(d, e) ==
    \A k \in TaskKeys : InTable(d.tasks, k) =>
        InTable(e.tasks, k) /\ e.tasks[k].created = d.tasks[k].created
CreatedInv == StoreInv /\ CreatedKept(db, view)

(* The statement of a save moves no created_at: it is not in DO UPDATE SET.*)
LEMMA ExecuteKeepsCreated ==
    ASSUME StoreInv, NEW s \in AnySave, Execute(s)
    PROVE  CreatedKept(view, view')
<1>1. Effect(view, s, view') /\ view \in Tables
    BY Executed DEF StoreInv, RefInv
<1>2. ASSUME NEW k \in TaskKeys, InTable(view.tasks, k)
      PROVE  InTable(view'.tasks, k) /\ view'.tasks[k].created = view.tasks[k].created
    <2>1. CASE s.op = "task" /\ s.key = k
        <3>1. InTable(view'.tasks, k)
            BY <1>1, <2>1, RowThere
        <3>2. view'.tasks[k] = TaskRowOf(s, view.tasks[k].created)
            BY <1>1, <1>2, <2>1 DEF Effect, TaskCreated
        <3> QED BY <3>1, <3>2 DEF TaskRowOf
    <2>2. CASE ~(s.op = "task" /\ s.key = k)
        <3>1. view'.tasks[k] = view.tasks[k]
            BY <1>1, <2>2 DEF Effect
        <3> QED BY <1>2, <3>1 DEF InTable
    <2> QED BY <2>1, <2>2
<1> QED BY <1>2 DEF CreatedKept

(* What each step does to the committed and the open created_at.           *)
LEMMA CreatedStep ==
    CreatedInv /\ [StoreNext]_storeVars => CreatedKept(db, db') /\ CreatedKept(db', view')
<1> SUFFICES ASSUME CreatedInv, [StoreNext]_storeVars
             PROVE  CreatedKept(db, db') /\ CreatedKept(db', view')
    OBVIOUS
<1> USE DEF CreatedInv
<1>1. \A d : CreatedKept(d, d)
    BY DEF CreatedKept
<1>2. ASSUME NEW s \in AnySave, Execute(s) PROVE CreatedKept(db, view')
    <2>1. CreatedKept(view, view')
        BY <1>2, ExecuteKeepsCreated
    <2> QED BY <2>1 DEF CreatedKept
<1>3. ASSUME NEW s \in AnySave, Save(s)
      PROVE  CreatedKept(db, db') /\ CreatedKept(db', view')
    BY <1>1, <1>2, <1>3 DEF Save, DbAfterCommit
<1>4. ASSUME NEW s \in AnySave, Execute(s), UNCHANGED <<db, kept>>
      PROVE  CreatedKept(db, db') /\ CreatedKept(db', view')
    BY <1>1, <1>2, <1>4
<1>5. CASE TransactionDropped
    BY <1>1, <1>5 DEF TransactionDropped
<1>6. CASE UNCHANGED storeVars
    BY <1>1, <1>6 DEF storeVars
<1> QED BY <1>3, <1>4, <1>5, <1>6, StepsOfStore DEF StoreStep

(* save_task: no save, failed commit or rollback moves the created_at of a *)
(* committed task, nor deletes its row.                                    *)
THEOREM CreatedAtTheorem == StoreSpec => CreatedAtStays
<1>1. StoreInit => CreatedInv
    BY StoreInvInit DEF CreatedInv, StoreInit, CreatedKept
<1>2. CreatedInv /\ [StoreNext]_storeVars => CreatedInv'
    BY StoreInvStep, CreatedStep DEF CreatedInv
<1>3. CreatedInv /\ [StoreNext]_storeVars
        => \A k \in TaskKeys : InTable(db.tasks, k) =>
              db'.tasks[k].created = db.tasks[k].created
    BY CreatedStep DEF CreatedKept
<1> QED BY <1>1, <1>2, <1>3, PTL DEF StoreSpec, CreatedAtStays
=============================================================================
