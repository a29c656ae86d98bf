----------------------------- MODULE StateStore -----------------------------
(***************************************************************************)
(* The Master's durable store: master/state.py, class StateStore.          *)
(*                                                                         *)
(* The database is a record of tables, a table a function from primary     *)
(* keys to rows or NoRow.  Every save is one statement and one commit.  A  *)
(* save that raises may have failed in the statement (a REFERENCES target  *)
(* is missing: nothing happens), in the commit (the database is busy: the  *)
(* statement stays in the open transaction, which the commit of the next   *)
(* save includes) or so that SQLite rolled the transaction back.  Columns  *)
(* that no query, constraint or property looks at are left out; so is the  *)
(* name of a room, which is UNIQUE but always equal to its id (tokens.py). *)
(* Of what a task requires, est_work_units is kept: a float that may be    *)
(* NaN or infinite, for which its JSON has null.                           *)
(*                                                                         *)
(* A save is represented by a record, so that a history of saves can be    *)
(* replayed.                                                               *)
(***************************************************************************)
EXTENDS Integers, Sequences, FiniteSetsExt

CONSTANTS
    Rooms, Jtis, WorkerKeys, JobKeys, TaskKeys,   \* primary keys
    Times,       \* created_at and updated_at values, as numbers
    MaxAttempts, \* the attempts counts a caller passes are 0..MaxAttempts
    NoRow,       \* the row of a key that is not in its table
    Null,        \* SQL NULL
    LogBound,    \* bound: saves in the history
    PendingBound \* bound: saves in the open transaction

ASSUME TimesAssumption == Times \subseteq Nat
ASSUME NullAssumption == Null \notin WorkerKeys
ASSUME LogBoundAssumption == LogBound \in Nat /\ PendingBound \in Nat /\ MaxAttempts \in Nat

VARIABLES
    db,     \* the committed tables
    view,   \* the tables as the store's connection sees them
    log,    \* history: the saves that make up view, in order
    kept    \* history: how many of them are committed

storeVars == <<db, view, log, kept>>

JobStatus == {"queued", "running", "completed", "cancelled"}
TaskStatus == {"pending", "assigned", "running", "succeeded", "failed"}
OPEN_JOB_STATUSES == {"queued", "running"}
PENDING_TASK_STATUSES == {"pending", "assigned", "running"}

Units == {"finite", "nonfinite"}
StoredUnits == {"finite", "null"}
TokenRow == [room : Rooms, revoked : BOOLEAN]
WorkerRow == [room : Rooms, jti : Jtis]
JobRow == [room : Rooms, status : JobStatus, created : Times]
TaskRow == [job : JobKeys, status : TaskStatus, worker : WorkerKeys \cup {Null},
            attempts : Nat, units : StoredUnits, created : Times]
ResultRow == [finished : Times]

ASSUME NoRowAssumption ==
    NoRow \notin TokenRow /\ NoRow \notin WorkerRow /\ NoRow \notin JobRow
        /\ NoRow \notin TaskRow /\ NoRow \notin ResultRow

Table(keys, rows) == [keys -> rows \cup {NoRow}]
Tables ==
    [rooms : SUBSET Rooms, tokens : Table(Jtis, TokenRow),
     workers : Table(WorkerKeys, WorkerRow), jobs : Table(JobKeys, JobRow),
     tasks : Table(TaskKeys, TaskRow), results : Table(TaskKeys, ResultRow)]
StoreTypeOK ==
    /\ db \in Tables
    /\ view \in Tables
    /\ kept \in 0..Len(log)
    /\ Len(log) <= LogBound

Empty(keys) == [k \in keys |-> NoRow]
EmptyTables ==
    [rooms |-> {}, tokens |-> Empty(Jtis), workers |-> Empty(WorkerKeys),
     jobs |-> Empty(JobKeys), tasks |-> Empty(TaskKeys), results |-> Empty(TaskKeys)]
StoreInit ==
    /\ db = EmptyTables
    /\ view = EmptyTables
    /\ log = <<>>
    /\ kept = 0

-----------------------------------------------------------------------------
(* The saves a caller may ask for.                                         *)
RoomSaves == [op : {"room"}, key : Rooms]
TokenSaves == [op : {"token"}, key : Jtis, room : Rooms]
Revocations == [op : {"revoke"}, key : Jtis]
WorkerSaves == [op : {"worker"}, key : WorkerKeys, room : Rooms, jti : Jtis]
JobSaves == [op : {"job"}, key : JobKeys, room : Rooms, status : JobStatus, created : Times]
TaskSaves ==
    [op : {"task"}, key : TaskKeys, job : JobKeys, status : TaskStatus,
     worker : WorkerKeys \cup {Null}, attempts : 0..MaxAttempts, units : Units,
     created : Times]
ResultSaves == [op : {"result"}, key : TaskKeys, finished : Times]

\* PRAGMA foreign_keys = ON: what the row refers to must be there.
InTable(table, k) == table[k] # NoRow
ReferencesExist_Unchecked(d, s) == s.op \in STRING
ReferencesExist(d, s) ==
    CASE s.op \in {"room", "revoke"} -> TRUE
      [] s.op = "token"  -> s.room \in d.rooms
      [] s.op = "worker" -> s.room \in d.rooms /\ InTable(d.tokens, s.jti)
      [] s.op = "job"    -> s.room \in d.rooms
      [] s.op = "task"   -> InTable(d.jobs, s.job)
                            /\ (s.worker # Null => InTable(d.workers, s.worker))
      [] s.op = "result" -> InTable(d.tasks, s.key)

\* The row an upsert leaves: excluded.*, except that a task keeps its created_at.
TaskCreated_Overwritten(d, s) == s.created
TaskCreated(d, s) == IF InTable(d.tasks, s.key) THEN d.tasks[s.key].created ELSE s.created
TaskAttempts_Added(d, s) ==
    IF InTable(d.tasks, s.key) THEN d.tasks[s.key].attempts + s.attempts ELSE s.attempts
TaskAttempts(d, s) == s.attempts

\* requires.model_dump_json(): JSON has no NaN and no infinity.
RequiresJson(u) == IF u = "nonfinite" THEN "null" ELSE u

SavedRoom(d, s) == [d EXCEPT !.rooms = @ \cup {s.key}]
SavedToken(d, s) == [d EXCEPT !.tokens[s.key] = [room |-> s.room, revoked |-> FALSE]]
Revoked_Upserts(d, s) == [d EXCEPT !.tokens[s.key] = [room |-> Null, revoked |-> TRUE]]
Revoked(d, s) ==
    IF InTable(d.tokens, s.key) THEN [d EXCEPT !.tokens[s.key].revoked = TRUE] ELSE d
SavedWorker(d, s) == [d EXCEPT !.workers[s.key] = [room |-> s.room, jti |-> s.jti]]
SavedJob(d, s) ==
    [d EXCEPT !.jobs[s.key] = [room |-> s.room, status |-> s.status, created |-> s.created]]
SavedTask(d, s) ==
    [d EXCEPT !.tasks[s.key] =
        [job |-> s.job, status |-> s.status, worker |-> s.worker,
         attempts |-> TaskAttempts(d, s), units |-> RequiresJson(s.units),
         created |-> TaskCreated(d, s)]]
SavedResult(d, s) == [d EXCEPT !.results[s.key] = [finished |-> s.finished]]

Applied(d, s) ==
    CASE s.op = "room"   -> SavedRoom(d, s)
      [] s.op = "token"  -> SavedToken(d, s)
      [] s.op = "revoke" -> Revoked(d, s)
      [] s.op = "worker" -> SavedWorker(d, s)
      [] s.op = "job"    -> SavedJob(d, s)
      [] s.op = "task"   -> SavedTask(d, s)
      [] s.op = "result" -> SavedResult(d, s)

\* The statement of a save, as the connection sees it.
Execute(s) ==
    /\ Len(log) < LogBound
    /\ ReferencesExist(view, s)
    /\ view' = Applied(view, s)
    /\ log' = Append(log, s)

\* A save that returns: its commit makes all of the transaction durable.
DbAfterCommit_TaskLeftOpen(s) == IF s.op = "task" THEN db ELSE view'
DbAfterCommit(s) == view'
Save(s) ==
    /\ Execute(s)
    /\ db' = DbAfterCommit(s)
    /\ kept' = Len(log')

SaveRoom == \E s \in RoomSaves : Save(s)
SaveToken == \E s \in TokenSaves : Save(s)
SetTokenRevoked == \E s \in Revocations : Save(s)
SaveWorker == \E s \in WorkerSaves : Save(s)
SaveJob == \E s \in JobSaves : Save(s)
SaveTask == \E s \in TaskSaves : Save(s)
SaveResult == \E s \in ResultSaves : Save(s)

\* A save whose commit raises.
CommitFails ==
    /\ Len(log) - kept < PendingBound
    /\ \E s \in RoomSaves \cup TokenSaves \cup Revocations \cup WorkerSaves
                \cup JobSaves \cup TaskSaves \cup ResultSaves : Execute(s)
    /\ UNCHANGED <<db, kept>>

\* What is not committed is gone: a save that raised rolled it back, or the
\* process died; __init__ on an existing file changes nothing.
TransactionDropped ==
    /\ kept < Len(log)
    /\ view' = db
    /\ log' = SubSeq(log, 1, kept)   \* those that made up db
    /\ UNCHANGED <<db, kept>>

StoreNext ==
    \/ SaveRoom \/ SaveToken \/ SetTokenRevoked \/ SaveWorker
    \/ SaveJob \/ SaveTask \/ SaveResult
    \/ CommitFails \/ TransactionDropped

StoreSpec == StoreInit /\ [][StoreNext]_storeVars

-----------------------------------------------------------------------------
(* What a restarted Master reads.                                          *)
LoadOpenJobs(d) == {k \in JobKeys : InTable(d.jobs, k) /\ d.jobs[k].status \in OPEN_JOB_STATUSES}

PendingRows(d, j) ==
    {k \in TaskKeys : /\ InTable(d.tasks, k)
                      /\ d.tasks[k].job = j
                      /\ d.tasks[k].status \in PENDING_TASK_STATUSES}

\* _row_to_task: what a Task keeps of its row; the scheduling state is dropped.
LoadedTask(d, k) == [id |-> k, job |-> d.tasks[k].job, attempts |-> d.tasks[k].attempts]

\* TaskRequires.model_validate_json takes no null for a float: one such row,
\* and load_pending_tasks raises for its job.
Unreadable(d, k) == d.tasks[k].units = "null"
Raised == [raised |-> TRUE, tasks |-> {}]
Returned(tasks) == [raised |-> FALSE, tasks |-> tasks]
LoadPendingTasks(d, j) ==
    IF \E k \in PendingRows(d, j) : Unreadable(d, k) THEN Raised
    ELSE Returned({LoadedTask(d, k) : k \in PendingRows(d, j)})

-----------------------------------------------------------------------------
(* Every reference has its target, in the committed tables and in those    *)
(* the connection sees, although saves of six tables come in any order and *)
(* any of them may be rolled back.  (REFERENCES, PRAGMA foreign_keys.)     *)
ReferencesHoldIn(d) ==
    /\ \A k \in Jtis : InTable(d.tokens, k) => d.tokens[k].room \in d.rooms
    /\ \A k \in WorkerKeys : InTable(d.workers, k) =>
            d.workers[k].room \in d.rooms /\ InTable(d.tokens, d.workers[k].jti)
    /\ \A k \in JobKeys : InTable(d.jobs, k) => d.jobs[k].room \in d.rooms
    /\ \A k \in TaskKeys : InTable(d.tasks, k) =>
            /\ InTable(d.jobs, d.tasks[k].job)
            /\ d.tasks[k].worker # Null => InTable(d.workers, d.tasks[k].worker)
    /\ \A k \in TaskKeys : InTable(d.results, k) => InTable(d.tasks, k)
ReferencesHold == ReferencesHoldIn(db) /\ ReferencesHoldIn(view)

(* A restarted Master finds exactly the jobs whose last committed save     *)
(* left them open and, for each, exactly the tasks whose last committed    *)
(* save left them unfinished, with the attempts they were saved with: also *)
(* a task that was assigned or running when the Master died, and none      *)
(* whose save returned is missing.  Only a task saved with a work estimate *)
(* that is not finite keeps a load from this: that job's raises.           *)
(* (_PENDING_TASK_STATUSES: they "are re-queued on restart".)              *)
SavesOf(op, k) == {i \in 1..kept : log[i].op = op /\ log[i].key = k}
LastSave(op, k) == log[Max(SavesOf(op, k))]
LeftOpen ==
    {k \in JobKeys : /\ SavesOf("job", k) # {}
                     /\ LastSave("job", k).status \notin {"completed", "cancelled"}}
Unfinished(j) ==
    {k \in TaskKeys : /\ SavesOf("task", k) # {}
                      /\ LastSave("task", k).job = j
                      /\ LastSave("task", k).status \notin {"succeeded", "failed"}}
AsSaved(k) == [id |-> k, job |-> LastSave("task", k).job, attempts |-> LastSave("task", k).attempts]
NotFinite(k) == LastSave("task", k).units = "nonfinite"
NoWorkLost ==
    /\ LoadOpenJobs(db) = LeftOpen
    /\ \A j \in LeftOpen :
         LoadPendingTasks(db, j) =
           IF \E k \in Unfinished(j) : NotFinite(k) THEN Raised
           ELSE Returned({AsSaved(k) : k \in Unfinished(j)})

(* A task keeps its place in the order of load_pending_tasks: no save ever *)
(* moves its created_at.  (save_task: created_at is not in DO UPDATE SET.) *)
CreatedAtStays ==
    [][\A k \in TaskKeys : InTable(db.tasks, k) =>
          db'.tasks[k].created = db.tasks[k].created]_storeVars

(* Replaying all saves over the database they made changes nothing.        *)
(* (module docstring: "save is idempotent and safe to replay during        *)
(* recovery".)                                                             *)
Replayed[n \in 0..kept] == IF n = 0 THEN db ELSE Applied(Replayed[n - 1], log[n])
ReplayIsSafe == Replayed[kept] = db

(* For its `tokens` table the store keeps what TokenService relies on: a   *)
(* save of any other table commits the pending rows of this one, or fails. *)
RowsOf(d) ==
    [k \in Jtis |-> IF ~InTable(d.tokens, k) THEN "absent"
                    ELSE IF d.tokens[k].revoked THEN "revoked" ELSE "valid"]
TokenRows == INSTANCE TokenTable WITH
                Tokens <- Jtis,
                StoreErrors <- {"statement", "commit", "rollback"},
                row <- RowsOf(db),
                tx <- RowsOf(view)
ImplementsTokenTable == TokenRows!TableSpec
=============================================================================
