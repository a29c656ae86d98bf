# Compute4Me: a TLA+ model of the control plane

Compute4Me lets people lend machines (Workers) to a Master that distributes
work to them. At the modelled commit the control plane exists and the
scheduling does not: the Master issues Invite Tokens, accepts Workers over a
WebSocket, counts them against the token's `max_workers`, and keeps its records
in SQLite; the Worker joins, sends heartbeats and reconnects. Paths below are
relative to `src/src/compute4me/` unless they start with `docs/` or `tests/`.

## 1. Inventory

| part | state | operations | talks to |
|---|---|---|---|
| Token service, `master/tokens.py` | in memory: revoked jtis, live count per jti; durable: the `tokens` rows | `issue`, `verify`, `revoke`, `admit`, `release`, start | calls the state store; called by the control server and by the operator |
| Control server, `master/server.py` (`ControlServer`) | `_conns`; per connection a socket, a handler task, a writer task, a send queue, a jti | `serve`, `close`, `push`, `_handle`, `_dispatch`, `_on_join`, `_writer` | token service and state store by calls; Workers by messages |
| Master certificate, `master/server.py` (`ensure_cert` ...) | two files | generate, load, (operator) rotate | its fingerprint goes into every token |
| The Master as a process, assembled as in `scripts/manual/t07_ws.py` | the fingerprint given to the token service; the pin in each token | start, stop, die, rotate | certificate, token service |
| Worker daemon, `worker/daemon.py` | where `run` is, backoff, `worker_id`, heartbeat task | `connect_once`, `run`, `_heartbeat_loop`, `verify_fingerprint`, being cancelled | the Master by messages |
| State store, `master/state.py` | seven tables, one connection with at most one open transaction | `save_*`, `set_token_revoked`, `load_*` | called by the token service and the control server |
| Wire protocol and types, `proto/messages.py`, `types.py`, `errors.py` | none | dump, validation | used by all |
| Scheduler, decomposer, cost model, failure handler, artifacts, samplers, `master/*.py` | none yet | stubs: a docstring each | |
| Runner, profiler, cache, `worker/*.py` | none yet | stubs | |
| Command line, client, SDK | none yet | `NotImplementedError`, stubs | |
| Scripts: link check, manual tests | none | tools beside the system | |

What is hard in it, and what makes each part correct:

- **Token service.** Revocation lives twice, in memory (what `verify` reads) and
  in the table (what survives). Crashes and failing saves fall between the two,
  and between the commit of a token and its return; a save that raised may still
  become durable later, with the commit of another. Correct means: a finished
  `revoke` holds for ever, the count never passes the claim, a token in use has
  its row, a revoked row stays revoked.
- **Control server.** Two tasks per connection share a queue and a socket; the
  end of a connection is a sequence of awaits any of which may raise; a join
  changes the count, the connection and the database one after the other.
  Correct means: each slot taken belongs to a registered connection and each
  connection that goes gives its slot back, nobody is admitted with a token that
  is not valid, an acknowledged Worker is on record, joins are answered.
- **Certificate and Master.** The files are written in several steps without a
  temporary file, and tokens embed the fingerprint. Correct means: one
  fingerprint between rotations, key and certificate belong together, and every
  token in use pins the certificate that is served, until the next rotation.
- **Worker daemon.** A heartbeat task beside the reader, and a loop that must
  tell transient failures from final ones and a cancel from both. Correct means:
  heartbeats carry the id of the session, backoff follows its schedule, no loss
  leaves the daemon stuck, nothing but a reject ends it, and a daemon that is told
  to stop does.
- **Wire.** Two ends of different versions. Correct means: what one end sends the
  other reads, and no frame is a message in both directions.
- **Both together.** Connections may be half open: one end knows of the loss and
  the other does not. Correct means: a Worker that believes it is joined holds a
  slot, every join is answered, and after faults the Worker is joined again.
- **State store.** Correct means: references hold, a restart finds the
  unfinished work and only that, saves can be replayed, and the `tokens` table
  behaves as the token service expects although all tables share a transaction.

`PROJECT.json` lists every such hazard at its line, with the properties that
watch it, or the reason why there is none.

## 2. Modules

| module | models | uses |
|---|---|---|
| `TokenTable` | what the store promises about its `tokens` table | |
| `TokenService` | `TokenService` over that table | extends `TokenTable` |
| `ControlServer` | `ControlServer`, one action per stretch of a task between two awaits | extends `TokenService`, implements `SlotPool` |
| `SlotPool` | what the Master promises about slots, with no tasks, sockets or tables | |
| `MasterCert` | `ensure_cert`, `_generate_cert`, `server_ssl_context` | |
| `Master` | the process: certificate, then token service; death, restart, rotation | extends `TokenService`, `MasterCert` |
| `WorkerDaemon` | `WorkerDaemon`, against a network and Master that do anything | |
| `Wire` | the messages: schemas, dumping, validation (no state) | |
| `WorkerProcess` | a daemon with the frames it writes and reads, and its cancellation | extends `WorkerDaemon`, `Wire` |
| `Fabric` | Master and Workers together, over connections that may be half open | extends `ControlServer`, `WorkerDaemon` |
| `StateStore` | `StateStore`, a save per action, with the open transaction | implements `TokenTable` |
| `MC*` | values of constants for TLC | |
| `TokenServiceProofs`, `ControlServerProofs`, `SlotPoolProofs`, `MasterProofs`, `WorkerDaemonProofs`, `WorkerProcessProofs`, `FabricProofs`, `StateStoreProofs` | theorems and their proofs | |

How they correspond to the code:

- `TokenTable`: `row` holds the committed rows and `tx` the rows as the Master's
  connection sees them. A save that returns commits all of `tx` (`Commits`). A
  save that raises (`StoreFails`) fails in one of three ways, of which
  `StoreErrors` says which occur: in the statement, which leaves no trace; in the
  commit, which leaves the statement in the open transaction; or with a rollback,
  which takes along what earlier failed saves had left there. A process that dies
  loses the transaction.
- `TokenService`: `revoked` and `live` are `_revoked` and `_live`. A token and its
  jti are one value; a token not in `handedOut` stands for a string that the
  Master's key did not sign. A call that is not interrupted is one action, since
  the methods are synchronous; the points at which a process may die in the
  middle of a call are actions of their own (`IssueThenCrash`,
  `RevokeThenCrash`), and so are calls whose save raises (`IssueFails`,
  `RevokeStoreError`). Time is the action `Expire`.
- `ControlServer`: `sock`, `handler` and `writer` are the transport and the two
  tasks of a connection. `_dispatch` and `_on_join` have no await and are one
  step (`RejectJoin`, `AckJoin`, `SaveWorkerFails`, `DispatchOther`,
  `DecodeFails`). The `finally` block of `_handle` is `ReadEnd` (cancel the
  writer), then `Deregister` (the await returned: release and pop) or
  `DieOnWriterError` (the await re-raised). `saved` is the token of the `workers`
  row that `save_worker` wrote. `wire` is what was sent, in order. A frame is a
  join, represented by its token, or `Other`: `_dispatch` drops the rest, except
  that a binary frame which is no UTF-8 ends the handler (`DecodeFails`).
- `SlotPool`: a pool of members per token. `ControlServer` implements it with
  `members[t]` the connections whose jti is `t` and `withdrawn` the tokens that
  have expired or whose `revoke` has returned.
- `MasterCert`: a file is absent, emptied (opened for writing), or holds a key or
  certificate named by a number. `pc` is where the start-up is.
- `Master`: the steps of `MasterCert` and `TokenService`, joint where the process
  starts (`Assemble`: load the files, give the fingerprint to the token service)
  and where it dies (`Halt`). `fp` is that fingerprint, `pin` the claim
  `master_cert_fp` of each token, `old` the tokens of before the last rotation.
- `WorkerDaemon`: `pc` is where `run` is (`connecting` includes the handshake,
  `awaiting` the `recv` of the reply, `joined` the read loop, `leaving` the wait
  for the cancelled heartbeat). `run` is modelled with `max_sessions=None`.
  `ReadEnds` then `EndClean`, and `EndOnHeartbeat`, are the two ends of a session:
  the read loop was first, or the heartbeat's send was. Every error that `run`
  takes for transient is a `Sleeps`; `fails` counts them since the last session
  that ended cleanly, so that what a sleep lasts can be compared with the schedule.
  `_INITIAL_BACKOFF` and `_MAX_BACKOFF` are constants of the module.
- `Wire`: a message type is its schema, a function from field paths, through
  nested models, to kind and optionality; values are classes of values (text, a
  word of a `Literal`, a whole number, a fraction, ...). `Parse` is validation
  against one of the two unions: unknown fields are ignored, missing optional
  ones read as null. `model_dump_json` writes null for a float that is not finite.
- `WorkerProcess`: `onWire` is the last message on the connection, who wrote it
  and the frame that arrives; the writer may be of this, a later or an earlier
  version, or a stranger. `told` are the Workers whose task was cancelled;
  `Cancelled` is a cancel that ends `run`, and `CancelLost` one that the `finally`
  block of `connect_once` swallows.
- `Fabric`: `peer` and `link` say who is at the far end of each connection, as
  each side sees it. Its actions conjoin those of the two modules. A step that
  needs something to fail spends one of `FaultBound` faults; a loss that follows
  from the other end being gone is free, and fair. A join is under way (`onWay`)
  until the Master receives it, which may be after its sender gave up. `Garbled`
  are the Workers whose profile holds a NaN or infinite float: the Master does not
  take their join for one (`JoinFrame`), and sends nothing back. Connects are
  refused as often as one likes while nobody serves. The daemon writes text frames,
  so `DecodeFails` has no counterpart here.
- `StateStore`: `db` is the committed database, a record of tables, and `view` the
  tables as the connection sees them; `log` the saves that made up `view`, of
  which the first `kept` are committed. Every save is one statement and one
  commit; `CommitFails` is a save whose commit raises, `TransactionDropped` the
  rollback or the death of the process. Of `requires_json` the one field is kept
  whose value it may not bring back: `est_work_units`, a float, is null in the JSON
  if it is not finite (`RequiresJson`). `LoadPendingTasks` returns the tasks or, if
  a row it selects has that null, raises for the whole job. `RowsOf` maps a database to the rows of
  `TokenTable`.

Definitions named `X_Y` just before a definition `X` (`HasRoom_OffByOne`,
`WriterAfterCancel_NotCancelled`) are plausible bugs in the code. No
specification uses them; putting one in the place of `X` makes TLC refute the
property that `PROJECT.json` names for it.

## 3. Runs

`tlc -config <cfg> <module>`. Each takes a few minutes at most with two workers.

| cfg | module | shows |
|---|---|---|
| `MCMaster` | `MCMaster` | caps, revocation and pins under any order of calls, admissions, failing saves, deaths, restarts and rotations |
| `CSSlots` | `MCControlServer` | two connections, a token with one slot and one with no cap: slots accounted for and returned to their own token, acknowledged Workers on record, refused ones hold nothing, admission only with a valid token, and `SlotPool` is implemented |
| `CSTasks` | `MCControlServer` | one connection with two joins and a push: joins are answered, lost connections deregistered, `close` ends |
| `MCWorkerDaemon` | `MCWorkerDaemon` | heartbeats, backoff, messages of other versions and of strangers, no loss leaves `run` stuck |
| `FabricAgree` | `MCFabric` | both sides agree on who is joined; with no cap a reject is for cause |
| `FabricReturn` | `MCFabric` | after faults a Worker is joined in the end and stays so, and every join settles |
| `MCStateStore` | `MCStateStore` | references, work that a restart finds or fails to load, replay, order of tasks, and `TokenTable` is implemented |

Five runs show something the documents, comments or tests say and the code does
not do; each is expected to end in a counterexample:

| cfg | property | what happens |
|---|---|---|
| `CSWriterDeath` | `ClosedIsDeregistered` | a writer that died of `ConnectionClosed` makes `_handle` skip the release and the pop |
| `CSJoinTwice` | `SlotsReturn` | a second join takes a second slot, of which one is never returned |
| `FabricHalfOpen` | `RejectedForCause` | with a cap, a Worker's own old connection makes its reconnect fail for good |
| `ToldStops` | `ToldStops` | a cancel that arrives while `connect_once` awaits its heartbeat task is swallowed (`worker/daemon.py:170`), and the daemon goes on |
| `FabricSilent` | `EveryJoinSettles` | a join whose profile holds a figure that is not finite is dropped, and its Worker waits for ever |

Two more follow from properties that hold:

- `NoWorkLost`: the load of a job raises exactly if one of its unfinished tasks was
  saved with an `est_work_units` that is not finite. `save_task` accepts such a task
  and writes null for the figure (`master/state.py:281`); the load refuses the null
  (`master/state.py:354`) and returns none of the job's tasks, although its docstring
  promises "Non-terminal Tasks for a Job; used on restart to refill the queue".
- `BackoffFollowsSchedule`: no sleep is longer than 30 s, as
  `docs/architecture/modules.md:227` says; `docs/architecture/operations.md:195`
  says "The maximum backoff is ~60s; after that, the Worker keeps trying every 60s".

More disagreements are in the models as actions or exceptions, without a property:

- `Revoke`: the code has no path from `revoke` to the connections, so Workers that
  were admitted with the token stay (`docs/architecture/operations.md:373`: "Active
  Workers using that token are kicked"). What is checked of a revocation is that it
  admits nobody any more.
- `EndOnHeartbeat`: a heartbeat that meets the closed connection first makes
  `connect_once` raise (`worker/daemon.py:141`: "returns normally when the Master
  closes the connection"), and `run` backs off as after a failed attempt.
  `BackoffFollowsSchedule` counts it as the failure that `run` takes it for.
- `WorkerDaemon`, `EndClean`: after an acknowledged session drops, `run` connects
  again without a sleep (`worker/daemon.py:114` promises backoff).
- `HandshakeFails`, `GetUnexpected`: `InvalidHandshake` and a reply that is no
  answer to the join, such as an early `push`, end `run`
  (`docs/architecture/operations.md:195`: "indefinitely until told to stop").
  `WorkersReturn` excepts them by name (`GaveUp`).
- `Wire`, `Parse`: a type that is not in the union is a `ValidationError`
  (`docs/architecture/wire-protocol.md:498` says that unknown types are ignored).
  The Master's `_dispatch` drops such a frame, but a daemon that awaits its reply
  stops.
- `ReadsAsSent` names its exception, the figure that is not finite; `FabricSilent`
  shows what follows from it.
- `MasterCert`, `LoadRaises`: a certificate file left empty by a crash is never
  generated anew. `RaisesOnlyOnTornCert` says that this is the only such case.

### Bounds and why they are enough

- `Tokens`, `Conns`, `Workers`: two competitors for one slot show every race of
  `admit` and `release`; a second token shows that a release finds its own. In
  `MCMaster` one token has a cap of two and one has none. `CSTasks` needs one
  connection only: tasks of different connections share nothing but counts.
  Daemons share nothing either. `FabricReturn` has three connections, so that a
  Worker can leave two half-open ones behind.
- `StoreErrors`: all three ways in `MCMaster` and `FabricAgree`. `{"statement"}`
  in the runs of `ControlServer` and in `FabricReturn`: there a failing save
  matters as one that raises, and what it does to the rows is what the other two
  runs, and the proofs, cover.
- `JoinLimit`: joins per connection. The daemon sends one (`FJoinArrives`), and so
  do the peers of `CSSlots`; 2 in `CSTasks` and `CSJoinTwice`, where the peer is another client.
- `InboxLimit`, `SendLimit`: frames waiting, and messages up to which `push` adds
  one. One push beside the replies is enough for every order of the two. In
  `CSSlots` there is no push: replies alone make writers die.
- `LiveBound`: bounds `TokNext` and `Master` only, where nothing else stops
  `admit` of an uncapped token: three, one more than the cap. The server's counts
  are bounded by its joins.
- `KeyBound`: four generations of keys, enough for two rotations with a start-up
  that dies in between.
- `FailBound`: where the count `fails`, a history variable, stops; it disables
  nothing. 6 in `MCWorkerDaemon`, the failure from which on the schedule stays at its
  ceiling; 0 in `Fabric`, where no property counts.
- `INITIAL_BACKOFF`, `MAX_BACKOFF`: 1 and 30 as in the code in the runs of
  `MCWorkerDaemon`; 1 and 1 in those of `Fabric`, since how long a sleep lasts does
  not change what may happen meanwhile.
- `FaultBound`: crashes, cuts, failed handshakes, failed saves and commits, and
  `close` calls in `Fabric`: two, and one where that
  is enough for a counterexample. Refused connects and losses that follow from a
  fault are not counted.
- `Garbled`: empty in the passing runs of `Fabric`, the one Worker in `FabricSilent`.
- `LogBound`: five saves, the length of the longest chain of references (room,
  token, worker, job, task); shorter chains leave room for second saves.
  `PendingBound`: one uncommitted save, since the next save that returns commits
  and the next that raises either joins it or drops it. One
  task shows which saves a load finds and when it raises; that it raises for the
  job's other tasks too is in `NoWorkLostTheorem`, which holds for any number.
- `Wire`: messages of every type, plain or with one field of another class; every
  Master message with one field missing or of another class.

Connections are symmetric in the safety runs; no run with a liveness property
uses symmetry. `CHECK_DEADLOCK FALSE` is stated where a bound on the history ends
every behaviour (`MCStateStore`: `LogBound`; `MCMaster`: `KeyBound`), and in the
`Fabric` runs in which the operator does not act, where a Master that is not
started again after the last fault leaves nothing to do.

### Fairness

- `LoopFairness`, `WDFairness`: asyncio resumes every task whose await is over,
  and timers fire. `Lose` is fair only when `close()` was called: the library then
  closes each connection.
- `FabricFairness` adds what the network and the library give: a frame sent on a
  live connection arrives, and each end learns in the end that the other is gone
  (close frame, reset, or the keepalive of `websockets`, which is on by default
  with 20 s at both ends). A Worker that can connect does.
- Nothing is assumed of peers, operators, crashes and restarts. `WorkersReturn`
  is conditional on a Master that serves from some time on.

## 4. Proofs

Checked with `tlapm`, for every value of the constants that satisfies the named
assumptions (`MaxWorkersAssumption`: a claim is a natural number or `Unlimited`;
`ConnsAssumption`: finitely many connections; the rest give bounds their types
and say that sentinels are not values).

- `TokenServiceProofs`. `RevocationIsForever` is not inductive: it says nothing of
  a Master that is down. `TokInv` adds that a finished revocation is in the table,
  that memory covers both the table and the open transaction while the process
  runs, and that the transaction extends the table; a crash then keeps the first,
  a restart rebuilds the second. `TokCap`, `TokRevocation`, `MemoryTheorem`,
  `HandedOutTheorem` and `RevokedRowTheorem` (an action property) follow. `UsesTokenTable` shows that the
  service writes its table only as `TokenTable` allows. The lemmas are stated for
  `TokStep`, without the bound of `TokNext`.
- `ControlServerProofs`. `StepIsTokStep` shows that the server uses the token
  service as `TokStep` allows, so `TokInv` carries over (`UsesTokenService`).
  `CapHolds` follows from two facts: the holders of a token are at most its live
  count (`HoldersCounted`), and the count at most the claim. The first is an
  inequality, since a second join leaves the count too high; it is preserved
  because an admission adds one to both (`AdmissionCounted`), a departure takes
  one from both (`DepartureCounted`), and because an idle connection holds
  nothing. `CapTheorem`, `TypeCorrect`, `ServerRevocation` and `AdmissionTheorem`
  (an action property) follow. `JoinLimit` is any number here.
- `SlotPoolProofs`. Here the condition of each theorem is `[]OneJoin`: no peer
  sends a second join on a connection (with one, `CSJoinTwice` is the
  counterexample). It is a condition on peers, not on the server: `JoinLimit <= 1`
  makes it true of the runs (`LimitMakesOneJoin`), and daemons make it true of
  `Fabric` (`DaemonsSendOneJoin`). `PoolInv` adds to `SlotInv` where that join is
  (`JoinOnce`) and that counts are exact. Every step then is one of four for the
  slots (`StepsOfSlots`: they stay, one is taken, one is freed, all go), from
  which the books (`AccountsTheorem`), `KeepsTheorem` and the refinement of
  `SlotPool` (`PoolTheorem`) follow. `ReplyInv` adds what queued and sent replies
  say of their connection; it gives `RejectTheorem` and `AckTheorem`.
- `MasterProofs`, first about `MasterCert`. `CertHasItsKey` is inductive only with
  the order of a generation: none runs beside a complete certificate, and the
  certificate is written when the key in memory is already on disk.
  `StableTheorem`, `PairedTheorem` and `TornTheorem` follow. Then
  `MasterImplementsParts`: a Master behaves as both its parts, so all of their
  theorems hold of it. `PinInv` says that the process serves the file it loaded,
  that keys are numbered in the order they were made, and that tokens of before
  the last rotation pin a smaller number than the key on disk or in the making;
  `PinsTheorem` and `MasterTypes` follow.
- `WorkerDaemonProofs`. `DaemonInv` says that an id is acknowledged in a session
  and only there, and that it is `worker_id`, by which the cancel finds its task.
  `HeartbeatTheorem` and `DaemonTypes` follow. `BackoffTheorem` is about the backoffs
  of the code (`CodeBackoff`: 1, 30, and a count that goes to 6 at least). The
  property speaks of sleeping daemons only and is not inductive: `OnSchedule` says of
  the others what their next sleep would be, since `run` doubles after the sleep.
- `WorkerProcessProofs`. `ProcessIsDaemon` carries the daemon's theorems over to
  the process with its messages. `FieldTravels`, `BodyTravels` and `MessageTravels`
  say of every schema, not only of those of the two unions, that what a model
  holds is accepted by its reader and read as it was written, unless a number that
  is not finite meets a required field; `VersionsCarry` that a version with more
  or fewer fields says the same. `WireInv` says that a frame on the wire is such a
  message; `ReadsTheorem` follows, and `DirectionsTheorem` from the tags.
- `FabricProofs`. `FabricImplementsParts`: Master and Workers together are a
  control server and daemons, so the theorems of both hold of them; with
  `DaemonsSendOneJoin` those of `SlotPoolProofs` do without their condition
  (`FabricPools`, `FabricReplies`). `JoinedHoldsSlot` relates the two ends and is
  not inductive: a Worker knows what it read, the Master what it wrote. `FabricInv`
  adds that a connection works for one Worker from its accept to its pop
  (`EndsAgree`), that its join is under way or was
  received, never both (`SentOnce`), that its inbox, its books and its replies hold nothing but that
  Worker's token (`ConnAgrees`: an ack in transit has its slot and its row, a
  reject its ground), and that nothing is left on one that was popped (`Blank`).
  `JoinedTheorem` follows. `RejectionTheorem` is the action property
  `RejectedForCause` for tokens without a cap, which is the property's own
  condition: with a cap, `FabricHalfOpen` is the counterexample.
- `StateStoreProofs`. No save deletes a row, so references hold with the types
  alone (`ReferencesTheorem`). `StoreImplementsTable` is the refinement of
  `TokenTable`; with `UsesTokenTable` it connects the token service's theorems to
  the store. `StoreInv` relates the tables to the history of saves: `Holds(h, d, n)`
  says that what save `i` of the first `n` wrote stands in `d`, or a later save of
  the same row wrote over it (`Again`), and that no job or task is in `d` that none
  wrote. It holds of the committed tables with the committed part of the history
  and of the open ones with all of it, so that a commit and a rollback are two
  cases of the same fact. `NoWorkLostTheorem` follows (the open jobs, then the rows
  that the query selects, then whether the load of them raises), and `ReplayTheorem`: by a
  least counterexample, since after `n` replayed saves a row differs from the
  database only if a later save of it is still to come. `CreatedAtTheorem` needs
  beside that that the open tables have moved no committed task (`CreatedInv`), as
  the next commit makes them the committed ones.

The model of messages and that of the store are written with what the provers can
reason about: schemas are joined by `Model`, a function over the union of the
domains, not by TLC's `@@`, and the replay is a recursive function over `0..kept`
(`ReplayDefined` proves that it exists), not a fold.

Every safety invariant and action property that a passing run checks is thus
stated by a theorem. Only model-checked are the liveness properties
(`JoinAnswered`, `LostIsDeregistered`, `CloseDrains`, `LostLeadsOn`, `JoinSettles`,
`WorkersReturn`): fairness and `ENABLED` are out of the provers' reach.

## 5. Not modelled

- Stubs (section 1), and the command line, which raises `NotImplementedError`.
- Cryptography, TLS and JWT encoding: a signature holds or not, a certificate
  matches the pin or not. File modes.
- Models of `types.py` that no message carries, and `errors.py`, which is a
  docstring so far.
- The `artifacts` table, which no operation touches, and columns that nothing
  reads.
- The hook `on_connected`, which tests use.
- `scripts/check_md_links.py`, a tool for the documents, and what the scripts
  under `scripts/manual/` do beside assembling a Master.

## 6. Plan

1. Prove further: what of the liveness properties is safety, such as that a
   connection which owes an answer always has a step of a task to take; that
   `StateStore` and `TokenService` composed, and not only matched over `TokenTable`,
   keep a revocation.
2. Model further: what the documents say of the scheduler, the failure handler
   and the task messages, once there is code for it; then the order of saves of a
   task and its result, which is the caller's, becomes checkable.
