# TLA+ models of the tezedge context storage and IPC layer

This directory holds TLA+ models of the parts of the repository that have
state and a protocol: the IPC protocol through which reader processes read the
writer's context store, the read-only backend built on it, the storage
statistics arithmetic, and the missing-block tracking of the shell. TLC checks
every model. `PROJECT.json` lists the components, runs, mutants, the
source-line map, the findings and the hazards.

## The system

`spec.md` describes a content-addressed store, with `EntryHash` mapping to
`ContextValue`. Exactly one **writer** process has write access to it, and
zero or more **reader** processes read it.

- **Writer.** It owns the real backend (the `StorageBackend` trait in
  `src/storage/src/storage_backend.rs`, plus its GC extension) and an
  `IpcContextListener`. `handle_incoming_connections` accepts one socket
  connection per reader and spawns one worker thread for each.
  `process_context_requests` loops:
  1. receive a `ContextRequest`;
  2. look the key up in the writer's own context index, with
     `get_context_index().unwrap()`;
  3. send one `ContextResponse`.
- **Reader.** It uses `ReadonlyIpcBackend`.
  - `connect` polls for the socket path 5 times and then connects, with
    `expect`.
  - Writes (`put`, `delete`, `merge`, `retain`, `write_batch`) are no-ops.
  - `get` and `contains` go through `IpcContextClient`. Each call does three
    steps:
    1. take `io.borrow_mut()` on a `RefCell`;
    2. send the request;
    3. `try_receive` with a 30 s timeout.

    The backend is declared `unsafe impl Sync`, so all threads of a reader
    share one `RefCell` and one connection without synchronisation.
- **`StorageBackendStats`.** Three usize byte counters with `+`, `-`, `Sum`
  and `total_as_bytes`. They are reported, not used for decisions.
- **`BlockState`** (`src/shell/src/block_state.rs`). Each received header is
  handled in order:
  1. queue its predecessor in the in-memory `missing_blocks` if
     `BlockStorage` lacks it;
  2. store the header in `BlockStorage`;
  3. store the header in `BlockMetaStorage`.

  The caller drains the queue to request blocks. After a restart,
  `hydrate()` rebuilds the queue from meta records that have no predecessor.

## Modules

| module | models | source |
|---|---|---|
| `IpcContext` | writer listener and workers, reader client and backend, the socket queues, the writer's store as it changes | `readonly_ipc.rs` |
| `MC_IpcContext` | model values: 1 or 2 connections, 1 or 2 threads, 1 or 2 hashes | |
| `Stats` | `StorageBackendStats` arithmetic as usize modulo 2^Width, against a RECURSIVE exact reference | `storage_backend.rs` |
| `MC_Stats` | | |
| `BlockState` | `process_block_header`, `drain_missing_blocks`, restart (`new`), `hydrate` | `block_state.rs` |
| `MC_BlockState` | a chain g <- b1 <- b2 <- b3 | |
| `StorageBackend` | the `StorageBackend` trait: `put`, `merge`, `delete` (each may fail with an engine fault), the default `put_batch` loop, the no-op GC defaults, and a GC-capable engine from spec §4.2 | `storage_backend.rs` 80–103 |
| `BackendContract` | abstract Backend Contract of spec §4.1/4.2/§8, atomic operations; `StorageBackend` is checked to implement it | spec only |
| `MC_StorageBackend` | 3 keys, one batch of 3 entries | |
| `GcReads` | the writer's GC-capable store (an `INSTANCE` of `BackendContract`) composed with reader processes traversing committed roots through `get_entry` | spec §1, §4.2, §6; `readonly_ipc.rs` 331–338 |
| `MC_GcReads` | 3 keys, 3 roots whose trees overlap, 1 reader | |

### IpcContext

**State.**

| variables | role |
|---|---|
| `bound`, `indexReady`, `stored`, `worker` | writer side |
| `conn`, `probes` | reader connection and the connect polling |
| `toServer`, `toClient` | one FIFO socket stream per direction |
| `flag` | the client's `RefCell` borrow flag |
| `timeouts` | receive timeouts so far, per connection |
| `pc`, `call` | each reader thread: its step, the current or last call and its result |

**How the code maps to actions.**

- **The borrow.** `borrow_mut` is split into two steps, as the unsynchronised
  code allows:
  - `BeginCall` checks that the flag is 0, or panics with "already borrowed";
  - `BorrowSet` then stores -1.

  Dropping the borrow adds 1 (`Return`). This is the release build, where the
  `debug_assert` in the `RefCell` code is compiled out.
- **Send.** `SendRequest` fails once the worker has ended.
- **Receive.** Three actions cover it:
  - `ReceiveResponse` takes the **next** response on the connection, whichever
    request it answers, and matches its kind against the call.
  - `ReceiveFail` covers the timeout, and the end of the stream after the
    worker has gone.
  - `Status` is the `match` on the received response.
- **Serve.** `ServeRequest` is one iteration of the worker loop:
  - it panics if the context index is not initialised yet (`unwrap` at line
    334);
  - otherwise the lookup may fail, and it sends the response;
  - a send to a closed connection ends the worker.

  `WorkerReceiveFail` is the `?` on `receive` after the reader has gone.
- **The writer's store.** It changes through `WriterPut` and `WriterRemove`.
  These model the writer's puts and GC removals, which are not under `src/`.
  A value is identified with its hash, which is the content-addressing
  invariant of spec §3.
- **Valid answers.** `call.valid` collects every answer the store gave to
  the call's key while the call was in flight. A correct answer is one of
  these, which is linearizability for a single read.
- **ShutdownCall.** No code of the repository sends it, so the server's
  `ShutdownCall` branch (lines 349–355) is left out.

### StorageBackend and BackendContract

One owner calls the backend (`&mut self`), so calls do not interleave. The
only multi-step operation is the default `put_batch`: a loop of `put` whose
`?` ends the call at the first engine fault (`BeginPutBatch`,
`PutBatchStep`, `PutBatchDone`). `retain`, `mark_reused` and
`start_new_cycle` are the trait's no-ops unless `GcCapable`; then they
follow spec §4.2 with a synchronous sweep (no engine is under `src/`).
`wait_for_gc_finish` changes nothing in either case and has no action.

`BackendContract` states each operation atomically; its `PutBatch` applies
some prefix of the batch. The refinement mapping
`kv <- IF inBatch THEN before ELSE kv` hides a running batch: the contract
sees the store the batch began with until the loop ends, which is then one
contract step. `ImplementsContract` (the contract's `Spec` as a PROPERTY)
is checked for the GC-capable engine (run backend_gc). With `GcCapable`
false, the three GC operations are stutters on both sides, so that case
adds nothing to check. The instance has one batch because
the contract quantifies over batches: with two, a wrong loop could leave a
store that happens to be a prefix of the other batch.

### BlockState

`BlockMetaStorage` is not in the repository. The module states its assumed
behaviour: `put_block_header` merges, in one write, two records:

- `predecessor: Some(p)` for the block;
- `predecessor: None` for p, unless p already has a predecessor.

`hydrate` queues the records whose predecessor is `None`.

`ProcessBlockHeader(b, p)` runs the function up to failure point p. The
failure points are the first `?` that fails, or the point where the process
dies:

- `contains`: nothing was done;
- `block`: the predecessor is queued;
- `meta`: the header is stored, the meta record is not;
- `none`: the call completed.

`Restart` is `BlockState::new` after the node stops. The queue is lost, and so
is what the caller had drained.

### GcReads

The writer's store is `Store == INSTANCE BackendContract` with GC on, so
every writer step is a contract operation:

- `Commit(r)` is a `put_batch` of the whole tree of a new root;
- `MarkReused(k)` marks a key of the head tree;
- `Retain` sweeps with a keep set of the head tree;
- `StartNewCycle` clears the reused keys.

A reader takes the head root (`BeginRead`) and fetches its keys one
`GetEntry` at a time. Each fetch is answered by the worker from the live
store, as `process_context_requests` does (lines 331–338). The variable
`toRead` holds what the reader still has to fetch. Nothing in the code or
the spec tells the writer which roots readers hold, so the head tree is
the only keep set the writer can supply. The module has no passing run:
with a keep set that covered the readers' roots, `ReadTreeStored` would
hold by that definition alone.

## Runs

| run | cfg | expect | what it shows |
|---|---|---|---|
| ipc_single | IpcContext_single.cfg | pass | A call on an idle connection returns an answer the store gave for its own key. This holds with one thread, 3 calls, one timeout, 2 store changes, worker panics, failed lookups and reader exit (`CleanCallAnswersCorrect`). |
| ipc_liveness | IpcContext_liveness.cfg | pass | Every `get`/`contains` returns (`CallsEventuallyReturn`), and a gone reader's worker ends (`ClosedConnectionWorkerExits`). 2 threads share the connection; there is 1 call each and 1 timeout. |
| ipc_borrow_stuck | IpcContext_borrow.cfg | violation | Two racing calls leave the borrow flag at 1 with no call running, so every later call of that reader panics (`ClientUsableWhenIdle`). |
| ipc_stale_response | IpcContext_stale.cfg | violation | After a timeout, the next call takes the late answer meant for the previous call. |
| ipc_shared_client_race | IpcContext_race.cfg | violation | Two threads both pass the borrow and swap responses. |
| backend_gc | StorageBackend_gc.cfg | pass | The default `put_batch` with failing puts, and a GC engine, implement the Backend Contract (`ImplementsContract`). |
| stats | Stats.cfg | pass | Sub undoes Add whenever Add did not overflow. Sum and `total_as_bytes` equal exact arithmetic whenever it fits. |
| ipc_worker_panic | IpcContext_worker_panic.cfg | violation | A request that reaches the worker before the context index exists panics the worker on `unwrap`, while its reader stays connected (`WorkerEndsOnlyWhenReaderGone`). |
| gc_reads_head_only | GcReads_head_only.cfg | violation | With a keep set of the head tree only: one commit, then one retain, deletes keys of the older root a reader is traversing. |
| blockstate_restart | BlockState_restart.cfg | pass | No unknown predecessor is forgotten. This holds with failures at the first two `?`, and with restarts. |
| blockstate_meta_failure | BlockState_meta_failure.cfg | violation | A failure between the header write and the meta write, followed by a restart, loses the predecessor. |

### Findings

1. **Stale response, `readonly_ipc.rs:233`.** A timed-out call leaves its
   answer in the socket. The next call on that connection returns it, so
   `get(h2)` can return `h1`'s value. Nothing discards or matches responses.
2. **Shared-client race, `readonly_ipc.rs:22-23, 229`.** The `unsafe impl
   Sync` lets two threads interleave on one connection. Each can receive the
   other's response. The unsynchronised borrow flag can also end at 1, after
   which every call panics (run ipc_borrow_stuck).
3. **Meta write after header write, `block_state.rs:32-34`.** If the meta
   write fails or the node dies between the two writes, the queued
   predecessor exists only in memory. After a restart, `hydrate` cannot find
   it again.

   This relies on the meta semantics stated above.
4. **Worker panic before the context index exists, `readonly_ipc.rs:334`.**
   `get_context_index().unwrap()` ends the worker thread. The reader stays
   connected, gets no response, and never reconnects, so every later call
   fails. Spec §4.3 and §5 say that each request gets exactly one response,
   and that a worker ends only on `ShutdownCall` or a reader disconnect.
5. **No protection of in-flight reads from GC (spec gap).** Spec §1 promises
   that GC never deletes a blob still needed by an in-flight read in another
   process. But `retain` (§4.2) keeps only `keep_set` and the reused keys,
   and readers are never reported to the writer. Run gc_reads_head_only
   shows a reader of the previous root getting `Ok(None)` for a key of its
   tree.

Also noted, with no run: the doc comment of `update_reused_keys` says it
"increases" `reused_keys_bytes`, but the code assigns the field. `Stats`
models the assignment.

### Bounds and why they suffice

- **`MaxProbes = 5`.** This is the code's own loop bound.
- **`MaxTimeouts = 1`.** One timeout is enough to leave a stale response.
- **`MaxCalls = 3` with one thread.** The sequence timeout, stale answer,
  then a further call happens within 3 calls.
- **`MaxChanges = 2`.** This lets a key be added and removed while a call is
  in flight.
- **Two hashes.** These are needed to tell answers for different keys apart.
- **Connections.** One per run. Connections share only the writer's store
  and its context index. A second reader adds no interaction beyond the
  shared store, because each worker touches only its own connection's
  queues.
- **Liveness run.** This run has no store changes (store changes cannot
  block a worker) and 1 call per thread, which keeps it under a minute.
- **Stats.** Usize is 8 bits wide, with sizes 32 and 24 and capacities
  {0,1,3,7}. Sums of two or three entries both fit in 8 bits and overflow
  them.
- **GcReads.** Three roots over three keys. Each pair of trees shares
  exactly one key, so a commit both keeps and drops keys of the previous
  tree. Three commits let a root be committed again after its keys were
  swept. One reader is enough for the violation.
- **BlockState.** 4 blocks in a chain, with 4 headers and 2 restarts. The
  headers can arrive in any order, including child-before-parent and
  repeats, so the queue gets duplicates.

### Fairness

The fairness conditions in `IpcContext` are these:

- Weak fairness for each worker thread's steps (`Accept`, `ServeRequest`,
  `WorkerReceiveFail`). They are OS threads that block only in `receive`.
- Weak fairness for connect polling.
- Weak fairness for a reader thread that is inside a call: borrow, send,
  receive and timeout. `try_receive` has a timeout, so it always returns.

There is no fairness for a thread starting a call, a reader exiting, or the
writer changing its store. Those are choices of the environment.

### Mutants

Each property of a passing run is broken by a plausible bug in the mapped
code:

| mutant | property it breaks |
|---|---|
| the polling loop runs one more time | `TypeOK` |
| the response is read without being consumed | `CleanCallAnswersCorrect` |
| no response is sent for a failed lookup | `CallsEventuallyReturn` |
| the worker retries a failed receive | `ClosedConnectionWorkerExits` |
| crossed fields in subtraction | `SubInvertsAdd` |
| the last element is dropped from Sum | `SumMatchesReference` |
| hydrate queues the wrong records | `NoMissingBlockForgotten` |
| drain skips the first hash | `NoMissingBlockForgotten` |
| `put_batch` goes on after a failed put | `ImplementsContract` |

## Not modelled

- **`ApplicationMonitor`.** Its state is two counters, which
  `block_was_applied` increments and `snapshot` resets, plus two `Instant`s.
  Its results are f32 rates over wall-clock time. Every method takes
  `&mut self`, and its callers are not in the repository. The only
  properties left are restatements of the two assignments.
- **`merge` beyond overwrite.** Spec §4.1 leaves merge semantics beyond
  overwrite to the engine. With content addressing the merged value is the
  key's one value, so `Merge(k)` changes the store as `put` does, and the
  contract sees it as its `Put`.
- **`hydrate`'s own `?` errors** (`block_state.rs:60-62`). A failing
  meta-storage iterator leaves a partly rebuilt queue and returns `Err` to
  the caller, which is not in the repository. `Hydrate` models the
  successful rebuild only.
- **A lost update between two drops of the borrow.** `Return` adds 1 to
  the flag in one step. A real drop reads and then writes, so two drops can
  also lose one of the increments. The stuck flag of ipc_borrow_stuck
  arises either way.
- **The `missing_blocks` duplicates** (hazard at `block_state.rs:42`).
  Neither the code, a comment nor the spec says the queue is a set.
  Duplicates cost repeated requests but lose nothing, and
  `NoMissingBlockForgotten` is checked with them present.
- **Reconnection.** A reader whose worker has panicked is unusable for
  good. Run ipc_worker_panic shows how that state arises. A property about
  recovery would need a promise that neither the code nor the spec makes.
- **`GcReads` with the full IPC model.** `GcReads` serves each `get_entry`
  atomically. The timeouts, stale responses and races of `IpcContext` are
  checked there, without GC. Composing the two would make the state space
  too large for TLC.
- **Watchdog application.** `main` is a straight sequence: start the stack,
  spawn the monitors, wait for Ctrl-C, clear `running`, drop the handles
  (which detaches the tasks rather than joining them), clean up. What the
  monitors do to the containers lives in `crate::monitors`, which is not in
  the repository, so the race between a detached monitor and the cleanup
  cannot be modelled from code.
- **A deferred GC sweep** (spec §9). No code of the repository describes one,
  so the GC engine is modelled with the synchronous sweep of §4.2.
- **RPC control messages and the contract counter.** These are type
  definitions.
- **`tezos/sys`, the interop benchmark and the client FFI tests.** These are
  linking, a benchmark and tests.
- **The IPC crate's framing and serialisation.** Each message is a single
  queue element.
- **`accept` errors.** They are only logged, so they are a stutter.
