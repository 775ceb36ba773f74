----------------------------- MODULE IpcContext -----------------------------
(***************************************************************************)
(* The IPC context protocol of src/tezos/new_context/src/kv_store/        *)
(* readonly_ipc.rs.  Reader processes (ReadonlyIpcBackend over an         *)
(* IpcContextClient) query the writer's context store through one socket  *)
(* connection each; the writer's IpcContextListener accepts connections   *)
(* and runs process_context_requests on one worker thread per connection. *)
(*                                                                         *)
(* The threads of a reader share its client, a RefCell behind             *)
(* `unsafe impl Sync`: its borrow flag is read and written without        *)
(* synchronisation.  borrow_mut is modelled as its two steps (check the   *)
(* flag is 0, store -1) and the drop of the borrow as flag + 1 (release   *)
(* build: the debug_assert is compiled out).  A value is identified with  *)
(* the hash it is stored under, so a get answer is a hash or NoValue.     *)
(***************************************************************************)
EXTENDS Integers, Sequences, FiniteSets

CONSTANTS
    Conns,        \* reader processes, one connection each
    Threads,      \* reader threads calling the backend
    ConnOf,       \* ConnOf[t]: the reader process thread t belongs to
    Hashes,       \* EntryHash values
    NoValue,      \* Ok(None) of get_entry
    MaxProbes,    \* try_connect polls the socket path 5 times
    MaxCalls,     \* bound: backend calls per thread
    MaxTimeouts,  \* bound: receive timeouts per connection
    MaxChanges    \* bound: changes of the writer's store

ASSUME ConnOf \in [Threads -> Conns] /\ NoValue \notin Hashes

VARIABLES
    bound,       \* the writer bound the socket path
    indexReady,  \* crate::ffi::get_context_index() returns Some
    stored,      \* keys in the writer's context store
    changes,     \* store changes so far
    worker,      \* writer-side worker thread of each connection
    conn,        \* reader side of each connection
    probes,      \* socket-path polls done by try_connect
    toServer,    \* ContextRequests in the socket, reader -> writer
    toClient,    \* ContextResponses in the socket, writer -> reader
    flag,        \* RefCell borrow flag of each client
    timeouts,    \* receive timeouts on each connection so far
    pc,          \* step of each reader thread
    call,        \* the current or last call of each thread
    calls        \* calls made by each thread

writerVars == <<bound, indexReady, stored, changes, worker>>
readerVars == <<conn, probes>>
threadVars == <<flag, timeouts, pc, call, calls>>
vars == <<writerVars, readerVars, threadVars, toServer, toClient>>

\* GetEntry and ContainsEntry; no code of the repository sends ShutdownCall.
Ops == {"get", "contains"}
Answers == Hashes \cup {NoValue} \cup BOOLEAN
\* Ok, Err(ContextError), Err(IpcError), Err(UnexpectedMessage); "write" is
\* the Ok(()) of the backend's no-op put/delete/merge/write_batch/retain.
Statuses == {"none", "pending", "ok", "context_error", "ipc_error", "unexpected", "write"}
Request == [kind : Ops, key : Hashes]
Response == [kind : Ops, ok : BOOLEAN, val : Answers]
\* A call: its request, the answers valid while it ran, whether it found the
\* connection idle, and once returned its status and value.
Call == [op : Ops, key : Hashes, valid : SUBSET Answers,
         clean : BOOLEAN, status : Statuses, val : Answers]

\* The answer the writer's store S gives to request kind op on key h.
Answer(op, h, S) == IF op = "get" THEN IF h \in S THEN h ELSE NoValue ELSE h \in S

InCall(t) == pc[t] \in {"borrowing", "sending", "receiving"}

\* Drop of the RefMut borrow and the end of the call with status st.
Return(t, st, v) ==
    /\ flag' = [flag EXCEPT ![ConnOf[t]] = @ + 1]
    /\ pc' = [pc EXCEPT ![t] = "idle"]
    /\ call' = [call EXCEPT ![t].status = st, ![t].val = v]

TypeOK ==
    /\ bound \in BOOLEAN /\ indexReady \in BOOLEAN /\ stored \subseteq Hashes
    /\ changes \in 0..MaxChanges /\ worker \in [Conns -> {"none", "running", "stopped"}]
    /\ conn \in [Conns -> {"probing", "connected", "failed", "closed"}]
    /\ probes \in [Conns -> 0..MaxProbes]
    /\ toServer \in [Conns -> Seq(Request)] /\ toClient \in [Conns -> Seq(Response)]
    /\ flag \in [Conns -> -1..Cardinality(Threads)] /\ timeouts \in [Conns -> 0..MaxTimeouts]
    /\ pc \in [Threads -> {"idle", "borrowing", "sending", "receiving", "panicked", "gone"}]
    /\ call \in [Threads -> Call] /\ calls \in [Threads -> 0..MaxCalls]

Init ==
    /\ bound = FALSE /\ indexReady = FALSE /\ stored = {} /\ changes = 0
    /\ worker = [c \in Conns |-> "none"]
    /\ conn = [c \in Conns |-> "probing"] /\ probes = [c \in Conns |-> 0]
    /\ toServer = [c \in Conns |-> <<>>] /\ toClient = [c \in Conns |-> <<>>]
    /\ flag = [c \in Conns |-> 0] /\ timeouts = [c \in Conns |-> 0]
    /\ pc = [t \in Threads |-> "idle"] /\ calls = [t \in Threads |-> 0]
    /\ call = [t \in Threads |-> [op |-> "get", key |-> CHOOSE h \in Hashes : TRUE, valid |-> {},
                                  clean |-> FALSE, status |-> "none", val |-> NoValue]]

-----------------------------------------------------------------------------
(* Writer process: binding, context initialisation, store changes.        *)

\* IpcContextListener::try_new binds the socket path.
Bind ==
    /\ ~bound /\ bound' = TRUE
    /\ UNCHANGED <<indexReady, stored, changes, worker, readerVars, threadVars, toServer, toClient>>

InitContextIndex ==
    /\ ~indexReady /\ indexReady' = TRUE
    /\ UNCHANGED <<bound, stored, changes, worker, readerVars, threadVars, toServer, toClient>>

\* The writer puts, or its garbage collector removes, a key.  A call in
\* flight may be answered from any store state it overlaps.
ChangeStore(S) ==
    /\ changes < MaxChanges /\ changes' = changes + 1 /\ stored' = S
    /\ call' = [t \in Threads |->
                  IF pc[t] = "receiving"
                  THEN [call[t] EXCEPT !.valid = @ \cup {Answer(call[t].op, call[t].key, S)}]
                  ELSE call[t]]
    /\ UNCHANGED <<bound, indexReady, worker, readerVars, flag, timeouts, pc, calls,
                   toServer, toClient>>

WriterPut(h) == h \notin stored /\ ChangeStore(stored \cup {h})
WriterRemove(h) == h \in stored /\ ChangeStore(stored \ {h})

-----------------------------------------------------------------------------
(* Reader: ReadonlyIpcBackend and IpcContextClient.                       *)

\* Variant polling with the bound 0..=5 instead of 0..5.
TryConnectProbeInclusive(c) ==
    /\ conn[c] = "probing" /\ ~bound /\ probes[c] <= MaxProbes
    /\ probes' = [probes EXCEPT ![c] = @ + 1]
    /\ UNCHANGED <<writerVars, conn, threadVars, toServer, toClient>>

\* try_connect: one turn of the polling loop, the socket path is missing.
TryConnectProbe(c) ==
    /\ conn[c] = "probing" /\ ~bound /\ probes[c] < MaxProbes
    /\ probes' = [probes EXCEPT ![c] = @ + 1]
    /\ UNCHANGED <<writerVars, conn, threadVars, toServer, toClient>>

\* connect() after the polling loop; a failure panics in `expect`.
TryConnect(c) ==
    /\ conn[c] = "probing" /\ (bound \/ probes[c] = MaxProbes)
    /\ conn' = [conn EXCEPT ![c] = IF bound THEN "connected" ELSE "failed"]
    /\ pc' = [t \in Threads |-> IF ConnOf[t] = c /\ ~bound THEN "gone" ELSE pc[t]]
    /\ UNCHANGED <<writerVars, probes, flag, timeouts, call, calls, toServer, toClient>>

\* The reader process exits or crashes; its socket is closed.
ReaderExit(c) ==
    /\ conn[c] = "connected" /\ conn' = [conn EXCEPT ![c] = "closed"]
    /\ pc' = [t \in Threads |-> IF ConnOf[t] = c THEN "gone" ELSE pc[t]]
    /\ UNCHANGED <<writerVars, probes, flag, timeouts, call, calls, toServer, toClient>>

\* put/delete/merge/write_batch/retain of the read-only backend: Ok(()).
ReadonlyWrite(t) ==
    /\ pc[t] = "idle" /\ conn[ConnOf[t]] = "connected" /\ calls[t] < MaxCalls
    /\ calls' = [calls EXCEPT ![t] = @ + 1]
    /\ call' = [call EXCEPT ![t].status = "write"]
    /\ UNCHANGED <<writerVars, readerVars, flag, timeouts, pc, toServer, toClient>>

\* get/contains up to the first half of borrow_mut:
\* the flag is checked; a non-zero flag panics "already borrowed".
BeginCall(t, op, h) ==
    /\ pc[t] = "idle" /\ conn[ConnOf[t]] = "connected" /\ calls[t] < MaxCalls
    /\ calls' = [calls EXCEPT ![t] = @ + 1]
    /\ call' = [call EXCEPT ![t] = [op |-> op, key |-> h, valid |-> {}, clean |-> FALSE,
                                    status |-> "pending", val |-> NoValue]]
    /\ pc' = [pc EXCEPT ![t] = IF flag[ConnOf[t]] = 0 THEN "borrowing" ELSE "panicked"]
    /\ UNCHANGED <<writerVars, readerVars, flag, timeouts, toServer, toClient>>

\* Second half of borrow_mut: the flag is set to -1 (not decremented).
BorrowSet(t) ==
    /\ pc[t] = "borrowing"
    /\ flag' = [flag EXCEPT ![ConnOf[t]] = -1] /\ pc' = [pc EXCEPT ![t] = "sending"]
    /\ UNCHANGED <<writerVars, readerVars, timeouts, call, calls, toServer, toClient>>

\* io.tx.send(&request)?, which fails once the worker has closed its end.
\* The call is clean when, as far as the client can know, the connection
\* is idle: no call on it has timed out and no other thread waits on it.
SendRequest(t) ==
    LET c == ConnOf[t] IN
    /\ pc[t] = "sending"
    /\ \/ worker[c] = "stopped" /\ Return(t, "ipc_error", NoValue) /\ UNCHANGED toServer
       \/ /\ worker[c] # "stopped"
          /\ toServer' = [toServer EXCEPT ![c] = Append(@, [kind |-> call[t].op, key |-> call[t].key])]
          /\ pc' = [pc EXCEPT ![t] = "receiving"]
          /\ call' = [call EXCEPT ![t].valid = {Answer(call[t].op, call[t].key, stored)},
                                  ![t].clean = timeouts[c] = 0 /\
                                      \A u \in Threads \ {t} : ConnOf[u] = c => pc[u] # "receiving"]
          /\ UNCHANGED flag
    /\ UNCHANGED <<writerVars, readerVars, timeouts, calls, toClient>>

\* The match on the received response.
Status(t, r) == CASE r.kind # call[t].op -> "unexpected"
                  [] r.ok -> "ok"
                  [] OTHER -> "context_error"

\* Variant that reads the response without taking it off the socket.
ReceiveResponsePeek(t) ==
    /\ pc[t] = "receiving" /\ toClient[ConnOf[t]] # <<>>
    /\ Return(t, Status(t, Head(toClient[ConnOf[t]])), Head(toClient[ConnOf[t]]).val)
    /\ UNCHANGED <<writerVars, readerVars, timeouts, calls, toServer, toClient>>

\* io.rx.try_receive(..)? takes the next response on the connection,
\* whichever request it answers, and matches it against the call's kind.
ReceiveResponse(t) ==
    LET c == ConnOf[t] IN
    /\ pc[t] = "receiving" /\ toClient[c] # <<>>
    /\ toClient' = [toClient EXCEPT ![c] = Tail(@)]
    /\ Return(t, Status(t, Head(toClient[c])), Head(toClient[c]).val)
    /\ UNCHANGED <<writerVars, readerVars, timeouts, calls, toServer>>

\* try_receive fails: a timeout while the worker is alive (its answer is
\* still to come), or the end of the stream once the worker has gone.
ReceiveFail(t) ==
    LET c == ConnOf[t] IN
    /\ pc[t] = "receiving" /\ toClient[c] = <<>>
    /\ \/ worker[c] = "stopped" /\ UNCHANGED timeouts
       \/ /\ worker[c] # "stopped" /\ timeouts[c] < MaxTimeouts
          /\ timeouts' = [timeouts EXCEPT ![c] = @ + 1]
    /\ Return(t, "ipc_error", NoValue)
    /\ UNCHANGED <<writerVars, readerVars, calls, toServer, toClient>>

-----------------------------------------------------------------------------
(* Writer: IpcContextListener and IpcContextServer.                       *)

\* handle_incoming_connections: accept() and spawn a worker thread.
Accept(c) ==
    /\ conn[c] \in {"connected", "closed"} /\ worker[c] = "none"
    /\ worker' = [worker EXCEPT ![c] = "running"]
    /\ UNCHANGED <<bound, indexReady, stored, changes, readerVars, threadVars, toServer, toClient>>

\* io.tx.send(&response)?: a send to a closed connection ends the worker.
SendResponse(c, resp) ==
    IF conn[c] = "closed"
    THEN worker' = [worker EXCEPT ![c] = "stopped"] /\ UNCHANGED toClient
    ELSE toClient' = [toClient EXCEPT ![c] = Append(@, resp)] /\ UNCHANGED worker

\* Variant that sends no response when the context lookup fails.
RespondOnlyOk(c, resp) ==
    IF resp.ok THEN SendResponse(c, resp) ELSE UNCHANGED <<toClient, worker>>

Respond(c, resp) == SendResponse(c, resp)

\* One iteration of the loop: receive a request, look it up in the writer's
\* own context index (unwrap() panics before it is initialised; the lookup
\* may fail), send the response.
ServeRequest(c) ==
    LET req == Head(toServer[c]) IN
    /\ worker[c] = "running" /\ toServer[c] # <<>>
    /\ toServer' = [toServer EXCEPT ![c] = Tail(@)]
    /\ \/ ~indexReady /\ worker' = [worker EXCEPT ![c] = "stopped"] /\ UNCHANGED toClient
       \/ indexReady /\ \E ok \in BOOLEAN :
             Respond(c, [kind |-> req.kind, ok |-> ok,
                         val |-> IF ok THEN Answer(req.kind, req.key, stored) ELSE NoValue])
    /\ UNCHANGED <<bound, indexReady, stored, changes, readerVars, threadVars>>

\* Variant that treats a failed receive as "no request yet" and loops.
WorkerReceiveRetry(c) ==
    worker[c] = "running" /\ toServer[c] = <<>> /\ conn[c] = "closed" /\ UNCHANGED vars

\* io.rx.receive()? fails once the reader has closed the connection.
WorkerReceiveFail(c) ==
    /\ worker[c] = "running" /\ toServer[c] = <<>> /\ conn[c] = "closed"
    /\ worker' = [worker EXCEPT ![c] = "stopped"]
    /\ UNCHANGED <<bound, indexReady, stored, changes, readerVars, threadVars, toServer, toClient>>

-----------------------------------------------------------------------------

\* Every reader has failed to connect or gone and its worker has ended; the
\* listener blocks in accept for ever.
AllReadersGone ==
    /\ \A c \in Conns : conn[c] = "failed" \/ (conn[c] = "closed" /\ worker[c] = "stopped")
    /\ UNCHANGED vars

Next ==
    \/ Bind \/ InitContextIndex \/ \E h \in Hashes : WriterPut(h) \/ WriterRemove(h)
    \/ \E c \in Conns : \/ TryConnectProbe(c) \/ TryConnect(c) \/ ReaderExit(c)
                        \/ Accept(c) \/ ServeRequest(c) \/ WorkerReceiveFail(c)
    \/ \E t \in Threads :
          \/ ReadonlyWrite(t)
          \/ \E h \in Hashes : BeginCall(t, "get", h) \/ BeginCall(t, "contains", h)
          \/ BorrowSet(t) \/ SendRequest(t) \/ ReceiveResponse(t) \/ ReceiveFail(t)
    \/ AllReadersGone

\* Worker threads, and reader threads inside a call, run.  Calls, crashes and
\* exits of readers and the writer's store changes need not happen.
Fairness ==
    /\ \A c \in Conns : /\ WF_vars(Accept(c)) /\ WF_vars(ServeRequest(c))
                        /\ WF_vars(WorkerReceiveFail(c))
                        /\ WF_vars(TryConnectProbe(c) \/ TryConnect(c))
    /\ \A t \in Threads : WF_vars(BorrowSet(t) \/ SendRequest(t) \/ ReceiveResponse(t) \/ ReceiveFail(t))

Spec == Init /\ [][Next]_vars /\ Fairness

-----------------------------------------------------------------------------
(* Properties.                                                             *)

Answered(t) == call[t].status = "ok"

\* A get_entry or contains_entry that returns Ok answers for its own key:
\* the value stored under that hash, or a membership that held at some
\* moment of the call.
AnswerMatchesRequest ==
    \A t \in Threads : Answered(t) => call[t].val \in call[t].valid

\* The same for a call that found its connection idle: the worker answers
\* requests in order, one response each, from its current store, and the
\* client takes the next response.
CleanCallAnswersCorrect ==
    \A t \in Threads : Answered(t) /\ call[t].clean => call[t].val \in call[t].valid

\* Every get_entry/contains_entry returns, with an answer or an error: the
\* worker answers each request, or it stops and the receive fails.
CallsEventuallyReturn ==
    \A t \in Threads : InCall(t) ~> ~InCall(t)

\* The worker of a reader that has gone ends: process_context_requests
\* leaves its loop when receive fails instead of blocking on a dead socket.
ClosedConnectionWorkerExits ==
    \A c \in Conns : conn[c] = "closed" ~> worker[c] = "stopped"

\* Once no thread of a reader is inside get_entry/contains_entry, its
\* client can be borrowed again: every borrow_mut has been matched by the
\* drop of its RefMut, so the next call does not panic "already borrowed".
ClientUsableWhenIdle ==
    \A c \in Conns :
        conn[c] = "connected" /\ (\A t \in Threads : ConnOf[t] = c => ~InCall(t))
            => flag[c] = 0
\* A worker ends only when its reader has gone (a failed receive or send on
\* a closed connection) or on ShutdownCall, never while its reader is still
\* connected: spec.md sections 4.3 and 5 on process_context_requests.
WorkerEndsOnlyWhenReaderGone ==
    \A c \in Conns : worker[c] = "stopped" => conn[c] # "connected"
=============================================================================
