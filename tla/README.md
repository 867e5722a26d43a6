# A verification of hpda and fflib

The repository holds two libraries and the programs of a book that use them:

* **hpda**, a pull engine for streams of rows (`include/hpda`, `hpda/src`);
* **fflib**: *functionflow*, a task runtime with work stealing
  (`include/ff/functionflow`, `fflib/src/functionflow`), *net*, message passing over
  TCP and UDP (`include/ff/net`, `fflib/src/net`), *sql*, a MySQL mapping, and *util*;
* **doc_example**, among them a distributed group-by (3.4) and an instrumented
  engine run (4).

The TLA+ modules here are translated from that source. TLC checks them on small
instances; TLAPS proves what matters most for every instance.

## Inventory

| component | state | operations | how it interacts | hard part | what makes it correct |
|---|---|---|---|---|---|
| engine (`engine.cpp`, `functor.cpp`) | registered functors, `to_process`, `processing`, `m_status` and `m_has_value` of each functor | `add_functor`, `remove_functor`, `run` | calls `process`, `done_value`, `reset_done_value` of the functors | which functor is asked when, over any graph; retries after a failed `process`; several outputs | no value dropped or taken twice; `run` returns, and only when every output has ended |
| functors (`extractor`, `processor`, `output`) | `m_data`, `m_index`, the aggregator of a groupby | `process`, `output_value`, `add_data` | read and consume their upper streams | a stream without a value is taken as ended; indices at the end; last group | an output holds exactly the rows its graph denotes |
| https extractors (`https_request.cpp`, `paged_https_extractor.cpp`, `json_to_data_batch.h`) | the request in flight and its io_service; the page and the index of the next; the rows of a page | `result`, `process`, callbacks of asio | an extractor of an engine and a processor above it | errors and partial answers; when a page counts as used | the answer is the body; every page once |
| kmeans (`algorithm`) | the points, the means, the clusters, two streams | `process`, the rounds of Lloyd's algorithm | a processor that fills raw_data functors below it | empty clusters, rows added to a stream that was asked in vain | the rounds end and improve the clusters; every row comes out |
| work queues (`work_stealing_queue.h`, `simo_queue.h`, `miso_queue.h`, `spin_steal_queue.h`) | ring, `head`, `tail` | push, pop, steal | owner and thieves without locks | races at the last element, a ring that wraps | each value comes out once, a refusal only of a full or an empty queue |
| spin lock (`spin_lock.h`) | one flag | lock, try_lock, unlock | guards paracontainers and the spin queue | | mutual exclusion |
| runtime (`runtime.cpp`, `threadpool.h`) | queues of each thread, `m_sleep_counter`, `m_bAllThreadsQuit` | schedule, take, steal, sleep, shutdown | threads, condition variable | a notification lost between the last look and the wait; shutdown | every scheduled task runs; the destructor returns |
| para, wait, groups (`para/`) | state and value of each para, the list of a group | `operator()`, `then`, `all`, `any`, `&&`, `\|\|`, `for_each`, `add`, `clear` | tasks in the runtime | values read while a para ends; lists replaced under a wait; the cutting of a range | no wait returns early, each index once, every value that is handed on was set |
| net buffers and packers (`net_buffer.cpp`, `length_packer.cpp`) | bytes, read and write index | write, read, erase, split | filled and drained by asio callbacks | fragmentation, moving indices | the packets that went in come out |
| connections (`tcp_*.cpp`, `udp_point.cpp`) | send buffer, queue of packets, socket state | send, receive, close | asio callbacks in one or more threads | sends racing completions, errors | packets in order, no send in parallel |
| nervure and hubs (`net_nervure.cpp`, `typed_pkg_hub.cpp`) | lists of connections and servers, `m_safe_to_stop`; creators, handlers and the cache of ids | run, stop, the handlers of events; dispatch of a package | owns the io_service; called by connections | stop between handlers and from several threads; connections freed under an operation | `stop` returns, a lost connection is told once, a package reaches its handlers |
| serialization (`archive.h`, `ntpackage.h`) | place in the buffer | count, write and read a package | called by the packer and the hubs | the three passes must agree | what is read is what was written |
| rows (`ntobject.h`, `ntcompact_array.h`) | shared contents; vectors of collects | `set`, `make_copy`, `push_back`, `reshape` | every functor's rows | a row is a handle | a row changes only by an operation on it |
| sql (`ff/sql/`) | the session, its transaction, `m_schema_set`; the table in the database | create, insert or replace, update, select | statements with numbered placeholders to MySQL | failure inside a transaction; order of bindings | what returned is stored, what is selected was asked for |
| doc_example/3.4 (`netio.h` ...) | `SafeQueue`, end flags | `process`, network callbacks | the engine thread and a network thread | waking the engine's thread | everything sent is delivered, both ends stop |
| doc_example/4 | sorted rows | `process` | a functor of the engine | sorting again at each call | a permutation, in order |

The remaining parts are listed in `PROJECT.json` with the reason they are left out.

## Modules

| module | models |
|---|---|
| `HpdaEngine` | `engine::run` over an arbitrary graph and arbitrary functors |
| `HpdaEngineProofs` | its invariants for every graph, and for every forest that no value is lost |
| `HpdaFunctors` | the functors of `include/hpda`: what each `process()` computes |
| `QueryFunctors` | those of doc_example/3.4 (hash splitter, worker, aggregator) and the sort of doc_example/4 |
| `HpdaPipeline` | the engine with these functors |
| `HpdaMeaning` | the rows a graph of functors denotes, without the engine |
| `HpdaDelivery` | the abstract promise: each output receives its rows in order, then `run` returns |
| `MCHpda` | the graphs TLC runs them on |
| `Deque` | the abstract promise of the work queues |
| `WorkStealingQueue` | `default_work_stealing_queue`: an owner and thieves |
| `WorkStealingQueueProofs` | that it is a deque, for every ring size and any thieves |
| `SimoQueue` | the queue with one producer and many consumers |
| `SimoQueueProofs` | that it is a fifo, for every ring size and any consumers |
| `Groups` | `paragroup`, `paracontainer`, `for_each` and the waits for all or any |
| `WaitResults` | the values `then()` of a para, of `p1 && p2` and of `p1 \|\| p2` hands on |
| `GroupsProofs` | that waits are true, no index is executed twice and the values handed on were set, for any ranges, paras and concurrency |
| `Functionflow` | `SimoQueue`, `Groups` and `WaitResults` as instances with variables of their own |
| `MCFunctionflow` | these and the work-stealing queue for TLC |
| `SpinLock`, `MCSpinLock` | `ff::spinlock` and two threads |
| `Runtime` | the runtime's threads and the paras they run: scheduling, waiting, stealing, sleep, shutdown |
| `Paras` | the abstract promise of paras, without threads or queues |
| `RuntimeProofs` | for every program that no task is lost or run twice, and that each step is one of `Paras` |
| `MCRuntime` | a program to run on it |
| `NetBuffer` | `net_buffer` and what `length_packer` does with it |
| `Channel` | the abstract promise of a connection |
| `TcpConnection` | one direction of a TCP connection, from `send` to the handlers |
| `TcpConnectionProofs` | its sender's invariant, for every use, and that it is a `Channel` |
| `MCTcp` | uses of it |
| `NetIo` | `to_net` and `from_net` of doc_example/3.4, with two threads each |
| `NetIoProofs` | that the two are a `Channel`, for any number of values |
| `NetNervure` | `net_nervure`, its servers and the life of its connections |
| `Dispatch` | from the id of a package to the handlers of the hubs |
| `UdpPoint` | `net_udp_point` |
| `Archive` | the marshaler's passes over a package |
| `HttpsRequest` | `https_request` and its client |
| `PagedExtractor` | `paged_https_extractor` with `json_to_data_batch` above it |
| `KMeans` | the k-means functor with Lloyd's algorithm and its stream |
| `Table` | the abstract promise of a vector of rows |
| `CompactArray`, `NtObject` | `ntcompact_array`; `ntobject` in the vectors of functors |
| `SqlTable` | a table of `ff/sql`, its engine and the database behind it (external) |
| `Library` | all of these from `NetIo` on, as instances with variables of their own |
| `LibraryProofs` | what is proved of those of them except `NetIo` |
| `MCLibrary` | the same and the connection of `MCTcp`, for TLC (the pages run by themselves) |

`Functionflow` and `Library` hold components that share no state, as instances (`Stream` of
`NetIo` and so on), and name their properties, so that the runs check and the theorems state
the same formulas. In `MCFunctionflow` and `MCLibrary` a variable `part`,
chosen in the first state, says which of them a behaviour is about; the variables of the
others keep one initial value. `Chosen` divides the parts of `MCLibrary` between two runs. Each module is a specification of its own and is checked and
proved as such, and its fairness is its own.

### HpdaEngine

| TLA+ | source |
|---|---|
| `queue`, `stack`, `outputs` | `to_process`, `processing`, `outputs` of `run` |
| `status`, `hasValue` | `m_status`, `m_has_value` |
| `phase` | which of the three inner loops runs, or `done` |
| `Pred`, `Outputs` | the predecessor vectors, `find_outputs` |
| `BfsExtractor`, `BfsProcessor` | one turn of the loop of lines 50-73, for each branch of line 53 |
| `PopSuccess`, `PopRetry`, `PopEnd` | one turn of the loop of lines 76-101, for each way to leave it |
| `Refill` | lines 103-110 and the test of line 48 |

`process()` is open: it may succeed or fail and take any inputs that offer a value,
so what is proved of this module holds for functors a user derives too. `outputs`
is any listing of the output functors, since `find_outputs` iterates an
`unordered_map`. `Sinks` are the functors whose `done_value` is `output_base`'s
(splits and outputs).

### HpdaFunctors, QueryFunctors and HpdaPipeline

A row is a key `k`, for the column predicates, key traits and group ids read, and a
number `n` for every other column. Each operator `...Process(f, ok, used)` is the
`process()` of one class: `ok` what it returns, `used` the inputs it consumes. The
actions `Extract`, `Descend`, `Succeed`, `Fail`, `Restart`, `Finish` are the engine's
steps with the `process()` each calls. Sources of set functors are sorted, as their
name and `test_set.cpp` require. An intersection fills the columns of its row from
each stream in turn; with two columns only the last filler is seen, which is what
the model keeps. A union row keeps, in columns the chosen stream lacks, what an
earlier stream left there: with one schema for all streams, as here, there is no
such column. In `QueryFunctors` a row is a phone `k` with a place and a time in `n`; the order
in which an `unordered_map` lists its keys is any (`Listings`), `quicksort` and its `partition`
are the code's, and `calculateDistance` is a distance on a line in place of a sphere. The aggregators run on naturals (the tests use `uint64_t`), without
overflow.

### HpdaMeaning and HpdaDelivery

`Meaning[f]` is the vector of rows `f` offers over a run, defined from the vectors of
its inputs: merges by key with multiplicities for the set functors, maximal runs of
equal keys for groupby. `ImplementsDelivery` is `HpdaDelivery!Spec` under the mapping
`expected <- Meaning`, `received <- data`, `run <- (phase = "done")` on the
`memory_output`s: safety (each step hands one row to one output, in order, or does
nothing visible; `run` returns only when all have everything) and liveness (`run`
returns). Below a groupby the group ids are left out of the mapping (`Seen`): the code
gives all groups but the last the id of the next (see the findings). `DeliversMeaning`, which
compares whole rows, is checked on graphs without a groupby.

### The work queues

| TLA+ | source |
|---|---|
| `head`, `tail`, `whead`, `array` | the members of the class |
| `own`, `thief`, `prod`, `cons` | each thread: the next access it makes (`at`) and its local variables (`h` or `t`, `val`) |
| `put`, `used`, `taken` | history of the calls, no part of the code |

An action is one access to shared memory: a load, a store or a compare-exchange, with
the computation on locals up to the next one. `head` and the array are plain members
and `tail` is a relaxed atomic, so the language gives no order; the modules take the
order of the source, which gcc -O2 for x86-64 keeps, with the fence of `pop` between
its store and its load. A slot read while it is written gives `Torn`. `head` and `tail`
are unbounded integers: they are 64 bits wide and grow by one.

`WorkStealingQueue` and `SimoQueue` implement `Deque` under the mapping `items <-` the
slots from `tail` to the end of the queue, `taken <- taken`. The end (`Top`) is `head`,
except inside `pop`: after `head` was lowered the value above it is still the queue's
until the owner has looked at `tail`. A steal is the deque's `PopFront` at its
compare-exchange; a pop is `PopBack` where it looks at `tail`, or at its own
compare-exchange.

### Runtime

| TLA+ | source |
|---|---|
| `state` | `m_iES` of each para |
| `ready`, `waiting` | `m_oQueues`, `m_oWQueues` |
| `place` | `s_id` and its thread-local copies, plus one |
| `frames` | each thread's call stack: the functions it runs on top of one another, with their next operation |
| `at` | where in the runtime's code each thread is |
| `got`, `plan`, `odd` | `pTask`, the queues `take_one_task` has still to look at, the parity of `ct` |
| `retry`, `sleepers`, `quit` | `retry_counter`, `m_sleep_counter`, `m_bAllThreadsQuit` |
| `Schedule`, `Notify`, `WakeOne`, `Register` | `schedule`, step by step, and `init_for_no_ff_thread` |
| `Wait` | `then()`: `check_if_over` and the loop of `yield_and_ret_until` |
| `Own`, `Scan`, `Grab`, `Miss` | `take_one_task` and `steal_one_task`, one queue a step, and a turn that found nothing |
| `Run`, `Again`, `Finish` | `run_task` and the `run()` of a para, with and without a condition |
| `Check`, `Lock`, `Fall`, `Rise` | the loop of `thread_run` and its wait |
| `End`, `Quit`, `NotifyAll`, `JoinWorkers` | the program's end and `~runtime` |

A program is a constant: for each task and thread the tasks it schedules and the
conditions it waits for. The queues are sequences on which an operation is one step,
which is what `WorkStealingQueue` and `SimoQueue` implement (`Deque`), but for the
steal, which looks and compares in two steps (`Scan`, `Grab`) and can fail on a queue
that is not empty. A test made while the mutex is held is one step with taking it,
since whoever needs it must wait. `Drop` forgets a local variable nobody reads again.

`ImplementsParas` is `Paras!Spec` under `status <- Status`, `returned <-` the main thread
is done. Its safety: a task is started once, only after its condition, and finished once,
after everything its function did; no wait returns early. Its liveness: `<>returned`, so
every wait in the program comes to its end and the destructor stops every worker.
`OnePlace` (a part of `RuntimeInv`) says where a scheduled task is meanwhile.

Tasks still queued when the main thread reaches `~runtime` may never run, in the code as in
`Paras`: the destructor does not wait for them. What holds is that everything waited for is run, although
`schedule` wakes a sleeper only when more than one sleeps and takes no mutex.

### NetBuffer and TcpConnection

| TLA+ | source |
|---|---|
| `data`, `write`, `read` of a buffer | `m_oBuffer`, `m_iToWriteBufIndex`, `m_iToReadBufIndex` |
| `Pack`, `Split` | `length_packer::pack` of a package, `length_packer::split` |
| `toSend`, `sendBuf`, `isSending`, `point` | `m_oToSendPkgs`, `m_oSendBuffer`, `m_bIsSending`, `m_iPointState` of the sender |
| `at` | where in `send` and `start_send` the caller and the io_service's thread are |
| `writing`, `written` | the `async_write_some` under way, and its result until `handle_pkg_sent` runs |
| `wire`, `recvBuf` | bytes in the network; `m_oRecvBuffer` of the receiver |
| `Connected` | `handle_connected` |
| `Send`, `Test` | `send` up to its push, and its test of `m_bIsSending` |
| `PackNext`, `Write`, `Clear` | a turn of the loop of `start_send`, and the two ways it ends |
| `HandleSent`, `Receive` | `handle_pkg_sent`; `handle_received_pkg` with the dispatch and the next `start_recv` |
| `HandleError` | an error of a write or of a read, and `on_conn_recv_or_send_error` |
| `Take`, `Break` | the socket |

A byte is the package it belongs to and its place in its frame; a package is a name, its
type id and contents `Length` bytes. Bytes that are no length may read as any number of
`Wrong`. `Split` gives the pieces and the indices the code leaves; a piece that is no
package's content is `garbled`.

`Uses` says how a connection is used. `threads`: `send` is called in handlers, which the
io_service runs one at a time (`pingpong`), or by a thread of its own (`to_net`). `window`:
how many packages may be under way. `partial`: whether a write may take a part of what it
is given. `ragged`: whether a read may end behind a whole package and inside the next. The
promise of `Channel` (`ImplementsChannel`: whole, once, in order, and all of them unless the
connection breaks) is checked for the uses the code supports: one package under way and any
reads (`PingPong`), and several with reads that do not cut a package behind a whole one
(`Pieces`), each from handlers and with writes that are taken whole. The others break it:
`tcp_stream` and `tcp_threads` show two of them, and partial writes are a hazard of
`net_buffer.cpp:47`: the erased front moves the bytes, and the read index moves too.

The sender's invariant holds in all uses. `SenderInv` says that the send buffer has
one owner (`OneSender`), that a queued package has somebody to send it when handlers call
`send`, and that the limit on the vector's size, which nothing resets, never stops
`start_send` for good (`RoomToPack`).

### Groups and WaitResults

| TLA+ | source |
|---|---|
| `entities`, `lists` | `m_pEntities`, shared by a group and the waits made from it |
| `call` | the variables of `for_each_impl` while it cuts (`CutRandom`, `CutGeneral`) and of the caller's own part |
| `done` | history: how often each index was executed |
| `Add`, `ClearContainer`, `ClearGroup`, `DestroyGroup` | `paracontainer::add` and `clear`, `paragroup::clear` and its destructor's wait |
| `waits`, `CheckIfOver` | `wait_all` and `wait_any` objects and their `check_if_over` |
| `impls`, `paras` | `para_impl` with its `m_iES` and `m_oRet`; `m_pImpl` of each para |
| `wait.at` | where `then()` is: it asks, picks the index, copies one value after the other, and calls |

`WaitResults` copies a value in one step, and a value that is being written is neither unset
nor set. `ToldIsSet` and `ThenIsReached` are about the function given to `then()`: it is
reached, and every value it is told of may be used. The other value of `p1 || p2` may be
read while it is written, and nothing says that it is not.

### NetIo

| TLA+ | source |
|---|---|
| `to`, `toIo`, `server`, `sent` | the caller of `process()` and of the destructor of `to_net`; its io thread; the connection behind the pointer `server`; what was sent |
| `line`, `taken` | the packages sent and not received; how many of them `start_send` took, the rest being in `m_oToSendPkgs` |
| `sending`, `write` | `m_bIsSending`; the write under way, until its handler has cleared the flag |
| `from`, `fromIo`, `client`, `queue`, `gotEnd`, `mutex` | `from_net`: caller and io thread, its connection, the `SafeQueue`, `got_end_flag` and its mutex |
| `Push`, `TestSending` | `send()` in the caller's thread: up to its push, and from its test of `m_bIsSending` |
| `Connect`, `HandleSent`, `Clear`, `ToError`, `ToErase` | the handlers of `to_net`'s connection, with `on_conn_recv_or_send_error`, which erases it |
| `FromProcess`, `Lock`, `Test`, `Wait`, `Ready`, `Take` | `process()` of `from_net` (ll. 201-221), one access a step |
| `RecvData`, `NotifyData`, `RecvEnd` | the two handlers; enqueueing and notifying are two steps, under no mutex of `process()` |
| `Stop`, `Stopping`, `InternalStop`, `FromJoin` | `stop_net_module`: `net_nervure::stop` and the join |
| `Fail`, `FromLost`, `Deaf`, `Misread` | what the network does: it breaks the connection, `from_net` learns of it, its acceptor fails and `run()` returns for want of work; a read makes `split` garble a package |

The connection is used as `tcp_stream` and `tcp_threads` show it to break: `to_net` calls `send` from its
caller's thread with any number of packages under way. So it is no channel here. A package can stay
in `m_oToSendPkgs` when the io thread clears the flag after the caller has tested it (`Left`); a
read can garble what comes behind a whole package (`Misread`, where `whole` is false); the network can fail at
any time (`failed`), and the error handlers erase the connection whose pointer `to_net` keeps. What remains
true is stated with these causes named. `FalseOnlyAtTheEnd` holds whatever the network loses, since
the end flag is lost with it. `UndefinedOnlyAtALoss` says which causes lead to the use of a connection that is
gone; one of them needs no failure: the last line of `send` of the end flag looks at
`m_bIsSending` when `from_net` may have had the flag, stopped and closed. `AChannel` is `Channel`'s
specification with these causes as breaks of it, and `BothEnd` says that, but for them, both
processors come to their end.

`early` says which processors their owner destroys before their end; `values` how many rows there are.

### NetNervure, Dispatch, UdpPoint, Archive

`NetNervure` has, for each connection, its state, the operations bound to it (`pending`) and
whether the nervure lists it. A handler that calls the program (`inside`) comes back in a step of its own
(`HandlerEnds`), which goes on to `start_recv` or `start_accept`: in between the program may send, add clients and
call `stop()`, which frees the connections and the server (`StopInHandler`). `HandleError` is
`on_conn_recv_or_send_error`, after which a connection is freed although another of its operations may be
pending. `FreedInUse` names these two causes and says that there is no other. `RunReturns` is the return of
`io_service::run()` when nothing is left to wait for, after which nothing that is posted runs.
`stopper` is the step of `stop()` a thread is at, `Wake` what `notify_one` does. `StopReturns` says that a
thread leaves `stop()`, but for the cases in which it does not: another thread that waits was told
instead, `run()` had returned without work or was called again, or a handler ran on a freed object.
`Dispatch` has the containers of each hub
and the cache of each point; `Receive` is `slice_and_dispatch_pkg` with `handle_tcp_pkg` or
`handle_udp_pkg` of each hub that is called. `UdpPoint` sends datagrams one at a time from a
queue of tasks; a received datagram is copied from behind what was received
(`udp_point.cpp:143`), so that `got` counts packages and says nothing of what they are. `Archive` counts, writes and reads the
fields of a package: numbers, strings with their size, vectors, and classes with a helper of
their own, whose `deserialize` is that of doc_example/3.4/common.h. `PassesAgree` is what the
passes owe each other at every step; a helper that returns another length than it has read
sends the fields behind it astray (`HelperIsLast`).

### HttpsRequest, PagedExtractor, KMeans

`HttpsRequest` is the chain of handlers that `result()` runs to its end, with how much of the
response each operation brings; it may fail at each step. `AnswersAreAsRead` says what the caller gets, which is
less than the body: what came along with the headers is logged (`skipped`), an error ends the answer
where it is, and a second call repeats the first. `PagedExtractor` is the engine's
drive of two functors: `ProcessPages` is `process()` of the extractor, its request included, and
`ProcessJson` that of `json_to_data_batch` with `parse_data`. Its run looks for the end that a test expects
(`Ends`) and finds a loop; `FirstPageForEver` is the invariant that explains it, and is proved. `KMeans` is the engine's drive of
`kmeans` and the stream it fills: `Collect` and `InputEnds` are its `process()`, `Round` a turn of
the loop of Lloyd's `run()`, `Finish` the rows it adds to the stream. Points are integers and
means exact fractions; the mean of no points is not a number, and comparisons with it are false.

### Table, CompactArray, NtObject, SqlTable

`CompactArray` keeps for each collect of the layout its vector, `NtObject` contents and the
handles on them. Both implement `Table`: a vector of rows in which an operation changes one row.
Indices of an array outside its vectors are no legal use and left out; `pop_back` and `clear`,
whose helpers lack a `return`, end in `crashed`, as the compiled program does with `-O2`.

In `SqlTable` a statement is the columns in the order of their placeholders, and the values are
bound in the order the code walks: `BindOrder` for a row, `BoundValues` for a condition, against
`Placeholders` and `Leaves` in the text. A condition is a finite tree (`Trees`), its operands are
conditions too, and what is said of a tree is a recursive function of it: the rows that the database
finds are `Holds`, from the comparisons of the text and the values by their numbers. The database is external: a transaction that is begun
commits the one that is open, a statement that fails changes nothing, and losing the connection
rolls back, unless it had carried out the commit whose reply is lost. `Meant` is the condition as written, without text or numbers.

## Runs

| run | module, cfg | expected | properties | what it shows |
|---|---|---|---|---|
| `hpda_set` | `MCHpda`, `MCHpda_set.cfg` | pass | `ImplementsDelivery` | An ordered_union of an intersection, a difference and a source, filtered, over every five sorted sources of at most two rows: the output receives exactly the multiset result, in order, and run() returns. |
| `hpda_split` | `MCHpda`, `MCHpda_split.cfg` | pass | `PipelineTypeOK`, `NoValueLost`, `NothingAbandoned`, `ImplementsDelivery` | A split whose streams rejoin in a concat and end in groupbys with the sum, avg, max and count aggregators and four outputs asked again until they end: every stream receives every row, every run of equal keys its aggregate, the last one included; nothing is lost although the graph is not a forest, and run() returns only with every output ended. |
| `hpda_query` | `MCHpda`, `MCHpda_query.cfg` | pass | `ForestInv`, `DistancesAreTrue`, `EndIsFinal`, `ImplementsDelivery` | The programs of doc_example/3.4, and the sort of doc_example/4 beside them, as a forest: whatever order the hash maps list their keys in, the aggregator receives the greatest distances in order, each with its phone; no ended functor is asked again, and the stack invariant holds from which the theorems draw that no offered value is overwritten. |
| `hpda_diamond` | `MCHpda`, `MCHpda_diamond.cfg` | violation | `DeliversMeaning` | The streams of a split under a union of filters rejoin, and what is above the split is stacked twice: a filter that still offers its row is asked again, fails and loses it. |
| `functionflow` | `MCFunctionflow`, `MCFunctionflow.cfg` | pass | `QueueInv`, `FailsOnlyEmpty`, `WaitsAreTrue`, `ToldIsSet`, `ImplementsDeque`, `ImplementsFifo`, `EveryIndexOnce`, `ThenIsReached` | Four parts, one a behaviour: the work-stealing queue is a deque for its owner and two thieves in a ring that fills, wraps and runs empty; simo_queue is a fifo for three consumers; a wait for a group or a container is told the truth, and for_each visits each index once; then() gets the values that were set, whichever of several waits was over first. |
| `spin_lock` | `MCSpinLock`, `MCSpinLock.cfg` | violation | `MutualExclusion` | lock() enters while another thread is inside: its loop is left when the flag was already set. |
| `runtime` | `MCRuntime`, `MCRuntime.cfg` | pass | `RuntimeInv`, `ImplementsParas` | With one, two and three threads, a foreign thread, full rings, stealing and lost notifications, each task is in one place and is run once after its condition, every wait returns and the destructor stops the threads. |
| `tcp_stream` | `MCTcp`, `MCTcp_stream.cfg` | violation | `Intact` | A read that ends behind a whole package and inside the next leaves split() a wrong read index: a package is garbled or comes twice. |
| `tcp_threads` | `MCTcp`, `MCTcp_threads.cfg` | violation | `Attended` | send() from another thread than the handlers': a package pushed between the handler's last look at the queue and its clearing of the flag stays queued. |
| `net` | `MCLibrary`, `MCLibrary_net.cfg` | pass | `FalseOnlyAtTheEnd`, `UndefinedOnlyAtALoss`, `FreedInUse`, `LostOnce`, `OnePackageToItsEndpoint`, `AChannel`, `BothEnd`, `StopReturns`, `PackagesReachHandlers`, `QueuedIsSent`, `PackageArrives`, `AnswersAreAsRead` | Six parts, one a behaviour: the distributed example's streams and their two threads over a connection that loses, garbles or leaves packages, the nervure with stop() in and outside of handlers, dispatch, UDP, the archive and an https request: each keeps what it promises in every order of its steps, and the cases in which it does not are named. |
| `data` | `MCLibrary`, `MCLibrary_data.cfg` | pass | `SenderInv`, `OneRunIsGiven`, `SelectsWhatIsAsked`, `ImplementsChannel`, `LloydConverges`, `ImplementsTable`, `RowsAreTheirOwn`, `ReturnedIsStored` | Five parts, one a behaviour: a TCP connection sent on in handlers and read so that no read ends behind a whole package and inside the next, where packages arrive whole, once and in order, all of them unless it breaks, and one write at a time is under way; kmeans, the compact array, rows as handles, and an SQL table with its transactions. |
| `pages` | `PagedExtractor`, `PagedExtractor.cfg` | violation | `Ends` | An output that reads a paged collection through json_to_data_batch never ends: the first page that gave a row is parsed again for ever. |

Each property of a passing run is also run against a faulty variant of one definition
of the code (the operators marked *faulty* in the modules), which it must refute.

**Bounds.** The graphs have up to 17 functors and sources of up to 4 rows over 2 or 3
keys. They contain every class of functor and each situation the code distinguishes:
empty sources, sources of different lengths, equal keys in and across streams, a
filter that rejects everything, several outputs in any order, shared functors,
streams rejoining at the same and at different depths. All sources within the bound
are enumerated in the initial states. Nothing else is bounded: the state of a run is
finite because the sources are. The queues run with five values through a ring of four
slots, two thieves or three consumers: the ring fills (three values), wraps (the fifth
reuses a slot), empties, and every pair of operations meets. Each value is pushed once.
The runtime runs with one, two and three threads of its own and a foreign one
(`Setups`), four tasks, rings of one task (`Room`, 255 in the code) and one try before sleep
(`Tries`, 3 in the code). The program of `MCRuntime` makes what the code
distinguishes happen: a foreign thread registers, schedules and ends with its task still
queued; the ring is full when the main thread schedules, so a task runs inside
`schedule`, and waits there in turn; a para has a condition and goes round through the
waiting queue; workers fall asleep and are stopped in every state. Two
tasks more multiply the states and add no branch. Groups have two ranges of 1 or 3 indices
and a concurrency of 2: a count below it, one with a remainder, and callers inside and outside the
team; two paras are added to a container, which may have been started or not. `WaitResults` has
two paras, void or not, and a third function, so that a para is called a second time. The connection carries three packages
of 2, 3 and 5 bytes, with lengths of 2 bytes (`Word`, 4 in the code), buffers that grow by
3 (`Inc`, 256) and packing up to 9 (`Limit`, 4096): a package is shorter than, as long
as and longer than an increment, two fill the buffer beyond the limit, and the third waits for the next
write. The network gives any number of bytes that fit the receiver's buffer.
The parts of `net` and `data`: up to 2 values in a stream (1 where a program starts late, reads garble or owners
end early; the end flag comes besides); one client, one accepted connection and two
threads that stop; three package classes, two of which share an id, in two hubs with three
handlers; three datagrams to two endpoints; packages of up to three fields of each of four
kinds; a body of up to 3 units and three calls of `result()`; up to four points in 0, 1, 2, 5 and two clusters, with `m_max_points` from 1 to
beyond the input; arrays of two rows in four layouts, with rows in one collect, in two, and
without a column; three rows that are handles; and three calls with up to two rows of three
columns for sql, with conditions that nest on both sides. In each, the bound is one more than the
least at which the next case of the code occurs. `pages` has a collection of three rows in pages of two, of
which any may fail to parse.

**Fairness.** `FairPipelineSpec` assumes weak fairness of the whole next-state
relation. `run()` is a single thread in a loop without waiting, so it is always
scheduled eventually; no fairness among choices is assumed. The queues need none: they
have safety properties only, and nobody is obliged to call them. `FairSpec` of
`Runtime` assumes that the operating system runs each thread that can run (weak fairness of
its `Step`): the code's loops are busy waits with `yield`, or waits for a notification or
a join. Spurious wake-ups may happen and are never relied on, which thread a
notification wakes is open, and a thread may be passed over at the mutex any number of
times. `FairSpec` of `TcpConnection` assumes that the threads inside `send` and `start_send` go on, that the
network takes and delivers, and that the io_service calls the handlers of what has
completed. Nobody is obliged to send, and a connection may break at any time.
`NetIo` assumes that each of its four threads goes on: weakly, but strongly for the io thread of
`from_net`, which takes a mutex its caller takes again and again when it is woken for nothing
(a mutex starves no one), and for the owner who destroys `from_net` once it has ended, since he
may also ask again. Nothing obliges the network to fail, and nothing is assumed of a connection that did.
`NetNervure` assumes that a handler of the program comes back, that the io thread, while it runs, gets to what is posted
in its turn among the handlers (strongly, since handlers come between), and that a
thread that can leave `stop()` does; `UdpPoint` that asio calls the handler of a send;
`KMeans`, `Archive`, `PagedExtractor` and a call of `result()` are loops of one thread. `Groups` assumes that a `for_each`
that has begun and a para that has begun go on. That a task is taken from the queue it assumes only
while somebody waits for the list of the group, since `schedule` wakes no worker unless two sleep
(`runtime.cpp:104`), and a wait itself runs tasks between its tests (`yield_and_ret_until`). So a range that
nobody waits for, or that the group let go of, may stay unfinished, and `EveryIndexOnce` says no more than
this. `WaitResults`, which is about functions that wait, assumes that the pool executes what it has
and that a waiting function asks again. `Dispatch`, `CompactArray`, `NtObject` and
`SqlTable` have safety properties only.

## Proofs

`HpdaEngineProofs` proves, for every finite graph in which no functor is its own
input (`GraphAssumption`) and every behaviour of the functors:

* `EngineInvariant`: `EngineInv` is inductive. It says that the queue holds exactly the
  functors marked `to_p`, once each, and what each loop of `run` finds (`LoopInv`: the
  first something queued, the second an empty queue and a non-empty stack, the third
  an empty stack unless something is queued). `NothingAbandoned` needs the last of
  these: the outer loop returns with an empty queue, hence with an empty stack, and
  then every output has ended, for otherwise `Refill` would queue it.
* `TypeCorrect`, `QueueMarked`, `ReturnsComplete`: its parts.
* `TreeInvariant`: in every part `D` of a graph that lies below the rest and in which no functor is
  read by two others (`Tree`), `TreeInv` is inductive. It adds that the functors of `D` on the
  stack are those marked `p`, once each, that each of them was asked by its reader, further down
  (`AskedByReader`), and offers nothing (`AskedWithoutValue`). The reader is what makes it
  inductive: a functor wanted by the top of the stack cannot itself be stacked, since its only
  reader would then be below it and on top at once. Above `D` the graph may split and join.
* `ForestInvariant`: the case that the whole graph is such a part (`Forest`).
* `ForestLosesNothing`, `ForestEndsForGood`: no offered value is overwritten or dropped,
  and an ended functor is never asked again.

`Forest` is necessary: `hpda_diamond` shows a graph without it that loses a row. For the
graphs with shared functors that work (`hpda_split`) `NoValueLost` is only
model-checked above the splits (below them `TreeLosesNothing` shows it), as is everything about rows (`Meaning` is recursive over the graph)
and termination (liveness).

Of the engine with its functors (`HpdaPipeline`) the same module proves, for graphs whose
processors have the inputs their constructors give them (`BuildAssumption`):

* `PipelineRunsEngine`: every behaviour of a pipeline is one of `HpdaEngine`, whatever the functors, so
  the theorems above hold of pipelines.
* `PipelineTypes`: `PipelineTypeOK` holds of every pipeline of the functors of `include/hpda` in which each
  raw_data has a reader and each stream of a split lies in a tree below it (`Plain`). That an index
  stays in its vector is not the functor's own doing: `process` of a raw_data, which the streams of a split are too, steps on at every
  call, so a stream that is asked again after it has failed leaves its vector. `PipelineInv` says why it is not: a stream
  offers nothing while it is stacked (`TreeInv`), is not asked again once it has ended, and when it
  comes up has a row before it, or its split has ended or is above it on the stack or queued
  (`StreamInv`); an open group has a row (`GroupInv`), so `avg` never divides by zero. The graph of
  `hpda_split` satisfies the hypothesis (`SplitIsPlain` in `MCHpda`), and so does that of `hpda_diamond`, which
  loses rows above its split. Query functors, which keep vectors of their own and sort them by a
  recursive quicksort, are left to the runs.

`WorkStealingQueueProofs` proves, for every `Mask`, set of values and set of thieves:

* `DequeInvariant`: `QueueInv` is inductive. `RoomInv`: no more than `Mask` values lie between
  `tail` and `Top`, so their slots differ (`SlotApart`, from `ModApart`). `OwnerInv` and
  `ThiefInv` say which remembered values may be relied on: a thief's `val` is the value at
  `tail` only if its `t` still equals `tail`, which its compare-exchange tests; between the
  owner's look and its compare-exchange `tail` can only have passed `h`.
* `StepKinds`: seen from the contents a step is quiet, publishes a value, takes the first or
  takes the last. From it follow `QueueIsDeque` (the refinement of `Deque`) and, with
  `Kept` (what was put in is inside or was handed out), `PopFailsOnlyEmpty`.

`TcpConnectionProofs` proves, for all packages with lengths of their own, every
`Limit` of more than two increments (`TcpAssumption`) and all uses:

* `SenderInvariant`: `SenderInv` is inductive. `OneSender` needs that the flag is set
  before the buffer is touched and that each of the caller, the write and the handler gives the
  buffer on as it lets go. `RoomToPack` needs `Slack`: the vector is longer than what it
  holds by at most two increments, since `pack` adds one twice and `erase_buffer` takes
  from the vector what it takes from the contents; so an empty buffer is shorter than
  `Limit`. `AttendedInHandlers` needs `Turns`: caller and handler exclude each other, and the
  flag is given back only with nothing queued.
* `SendBufferHasOneOwner`, `NothingLeftQueued`: its parts.
* `PackagesArriveIntact` and `ConnectionIsAChannel` (the refinement of `Channel` without its fairness),
  for `WholeUses`: the socket takes what it is given, and either one package is under way at a time
  or no read ends inside a package behind a whole one. `Working` and `Threading` of `MCTcp` satisfy it;
  `tcp_stream`, whose use does not, shows that the promise is then broken. `StreamInv` says
  that there is one stream of frames with the place `off` where each package begins (`Marks`,
  `Laid`), and where its parts are: the receiver's buffer begins with the first package that was not
  given out, the wire goes on from there (`Arrives`), and the sender's buffer begins where the wire
  ends, or at the write that is under way (`Leaves`). That a read then gives the packages that
  are complete, and no others, is `SplitSeparates`: the cuts of `split` are the
  places of `off` (`CutsAre`, from the last cut to the first), and what it leaves is the start of
  the next package at the front of the buffer, or nothing (`EndsWell`).

`SimoQueueProofs` proves, of `simo_queue` for every `Mask` and set of values and any consumers
(`SimoAssumption`):

* `SimoInvariant`: `SimoInv` is inductive. No more than `Mask` values lie between `tail` and
  `head` (`RoomInv`), the slots between them hold what was put in (`FilledInv`), and a consumer
  that is about to swap has the value of the slot at the `tail` it remembers, as long as `tail`
  has not moved (`ConsumerInv`).
* `QueueIsFifo`: the refinement of `Deque`. `FailsOnlyWhenEmpty`: `pop` returns false only when
  nothing is inside, although it compares with a `tail` it read earlier: `tail` only grows.

`GroupsProofs` proves, for any counts, any `Concurrency` above zero and any paras and waits
(`GroupsAssumption`):

* `GroupsInvariant`: `GroupsInv` is inductive. While `for_each_impl` cuts, the chunks of a range
  are disjoint and end where the next begins (`Cut`, `Disjoint`), an index has been executed once
  if the para that has it is over and not before (`Tally`), and what a wait that is over saw is
  still over (`Waited`).
* `WaitsTellTheTruth`; `NoIndexTwice`, the safety of `EveryIndexOnce`.
* `ToldValuesAreSet`, of `WaitResults` and without a hypothesis, by `ThenInv`: a para that is over
  has its value and stays over, and from the answer of the last question to the call nothing
  the wait refers to is replaced.

`RuntimeProofs` proves, for every program of finitely many tasks and threads that calls each
task at most once and waits only for tasks it may wait for (`ProgramAssumption`), and for every
size of the ring and every number of tries:

* `RuntimeInvariant`: `IInv` is inductive. It needs what each thread is inside: the shapes its
  stack can have (`Stacks`: an idle worker at the bottom, then tasks, each at the wait or the
  call it makes), how the place in the runtime's code follows from the top of it (`Flow`), that
  a task is in one place and only once there (`Single`, `Apart`), that a task on a stack was
  started and one below another waits (`Ran`), and that the sleepers are those in the wait
  (`SleepersCounted`).
* `NothingLostNorTwice`: `RuntimeInv`, which TLC checks on one program.
* `RuntimeRunsParas`: the safety of `ImplementsParas`.

`NetIoProofs` proves, for any number of values:

* `StreamInvariant`: `StreamInv` is inductive. As long as no read garbles a package, what `from_net` returned,
  what it has queued and what is on its way, in the network or in `m_oToSendPkgs`, follow one another
  (`InOrder`); nothing is missing while the connection works, and the end flag, wherever it is, has all before
  it (`Complete`). `got_end_flag` is believed after the queue is empty (`Locked`). A connection is lost by the network
  or behind an io service that stopped, which takes the end flag or an early owner (`Ending`).
* `FalseMeansTheEnd`, `UndefinedUseNeedsALoss`; `StreamIsAChannel`, the safety of `AChannel`.

`LibraryProofs` proves of the components of `Library`:

* `UdpPoint`: `OnePackagePerDatagram`, by `UdpInv`: a send starts with an empty buffer, since an
  error leaves a package in it but `m_bIsSending` set.
* `NetNervure`, for any connections and threads (`NervureAssumption`: no connection is named as another
  caller of the program): `LossIsToldOnce` and `FreedInUseNeedsACause`, by
  `NervureInv`: a connection that was told of is freed and off the lists; the operations bound to
  it are a connect alone, or a read with at most one write, and a write means that something was sent.
* `HttpsRequest`, for bodies of any length: `AnswersGiveWhatWasRead`, by `HttpsInv`: what it has of the
  body are the units read behind the headers, and a second call finds its io_service stopped.
* `Dispatch` (`HubAssumption`: no class is named as the mark for none): `EveryPackageReachesItsHandlers`, by
  `HubInv`: a hub that has a handler for an id has a creator for it, and one that a cache names
  handles the package.
* `NtObject` (`ObjectsAssumption`): `HandlesMakeATable`, the refinement of `Table`, by
  `ObjectsInv`: no two places of a vector share contents. `New` always finds contents nobody
  refers to, which takes counting: there are three more than places.

* `PagedExtractor` (`PagesAssumption`: sizes are numbers): `FirstPageIsAll`, by `PagesInv`: what was
  given goes round in the rows of the page (`Given`, with `ModNext`), `m_all_data` is those rows from
  then on, and the extractor is not asked again. That a page's rows can be listed in order
  (`AscendingExists`) is proved of every finite set of numbers.
* `KMeans` (`KMeansAssumption`: the number of clusters is one): `LaterRunsLoseRows`, by `KMeansInv`: the
  stream gave all it had when it was asked (`GivenAll`), or has stepped over the place of the first
  row of a later run (`SteppedOver`): kmeans is not asked for a run before the stream was asked in
  vain.
* `CompactArray` (`ArrayAssumption`: layouts have collects, and what a new element holds is a value):
  `CollectsMakeATable`, the refinement of `Table`, by `CompactInv`: each collect has as many elements
  as the first, and `Listed`, the rows put together from the collects, changes as `Table` allows.
  That `reshape` loses no row is `RowsCopied`.
* `SqlTable` (`SqlAssumption`: conditions are finite trees, the key is a column and an update names
  columns): `SelectsGiveWhatWasWritten`, by `AsWritten`: of the values of a condition, those bound to
  the placeholders of its left operand are that operand's, and so on down to the comparisons.
  `ReturnedRowsAreStored`, by `SqlInv`: while a call runs, the rows the session sees are those that were
  committed with what the rows up to `next` make of them (`Made`), whatever an earlier call that
  threw has left open.
* `Archive` (`ArchiveAssumption`: a value takes at least one byte): `PassesOfAPackageAgree`, by `ArchiveInv`:
  each field has a place, the sum of the lengths before it (`Offsets`); the bytes written lie there
  (`Written`), and what the reading pass has come to is `First` of the package. That the parts of a
  field lie side by side is `FlatOfSameLength`.

Some operators are recursive functions (`Reshaped`, `FlattenSeq`, and `Leaves`, `BoundValues`, `Holds` and
`Meant` of a condition). A function is what its equation says once one that satisfies the equation is
shown to exist (`CopyExists`, `FlatExists`, `TreeFunction`), up to a bound that is the least without
one. On trees the bound is their depth, and a statement about all conditions has a least
counterexample (`LeastCondition`).

Induction over numbers is done on sets: a set of naturals that is not empty has a least one
(`LeastNatural`, from the library's theorem on well-founded relations), so that no operator has
to be instantiated.

Some theorems state parts of invariants which the runs check as a whole, or safety of which
the runs check together with liveness: `QueueMarked`, `SendBufferHasOneOwner`,
`NothingLeftQueued`, `ConnectionIsAChannel`, `NoIndexTwice`, `RuntimeRunsParas`, `StreamIsAChannel`,
`PassesOfAPackageAgree`. `PackagesArriveIntact` states for `WholeUses` what `tcp_stream` refutes for other uses.

**Model-checked only.** All liveness properties, which the prover does not reach:
`ImplementsDelivery` and `ImplementsParas` as far as they say that `run` and the program
return, `AChannel` and `EveryIndexOnce` as far as everything arrives, `BothEnd`, `StopReturns`,
`ImplementsChannel` as far as it says that what was sent arrives unless the connection breaks,
`QueuedIsSent`, `ThenIsReached`, `LloydConverges`, `PackageArrives` as far as it says that the passes
end. What recursive definitions compute: `Meaning` of a graph of functors (hence
`DistancesAreTrue` and `ImplementsDelivery`), and `Quicksort`. `PipelineTypeOK` of graphs with query functors.

## Findings

* `hpda_diamond`: rows are lost when the streams of a split rejoin below a functor of
  several inputs. A filter between them is asked a second time while it still offers its row to that
  functor, which is on the stack twice; it fails, and `reset_done_value` drops the row
  (`engine.cpp:84`).
* `pages`: `json_to_data_batch` parses the first page that has rows again and again, and `run()` does not
  end (`json_to_data_batch.h:35`).
* `spin_lock`: `lock()` has its test inverted (`spin_lock.h:43`). Used by `paracontainer` and
  `spin_stealing_queue`.
* `tcp_stream`: `split` leaves a read index counted from where its loop began
  (`length_packer.cpp:85`), so a package that came in two reads, behind another, is followed by
  bytes that were given out before.
* `tcp_threads`: `send` from another thread than the io_service's can leave its package
  queued for good (`tcp_connection_base.cpp:73`), as `to_net` does with its end flag.

These runs refute what a comment, an example or a test says. Others are part of the modules, so that the
properties that hold are stated with them:

* `groupby` gives the aggregate of a group the id of the next (`group.h:175-179`): the groups 1, 2, 3
  come out as 2, 3, 3. The rows that `test_groupby.cpp` sums are right.
* `https_request` writes to the log what came with the headers, an error cuts the answer short, and a
  second `result()` gets nothing new, since its io_service is not reset (`AnswersAreAsRead`).
* The rows that a second run of Lloyd's adds to a stream are lost in part (`OneRunIsGiven`): when
  the input is longer than `m_max_points`. A run that finds the first means close enough at once adds no rows.
* A connection that both reads and writes can be freed while its other operation is bound to it, and
  `stop()` in a handler frees the object whose handler it is (`FreedInUse`).
* `stop()` of two threads at once wakes one of them, a nervure that was stopped does not run
  again, and one whose `run()` returned for want of work lets `stop()` wait for ever; `StopReturns` names these, although
  net_nervure.h:67 calls `stop()` thread safe.
* A lost connection is only logged by `to_net` and `from_net` (`netio.h:160`, `301`): the one goes on to use the
  pointer of an object that is gone, the other waits for ever (`UndefinedOnlyAtALoss`, `BothEnd`).
* A hub's handler that is registered after the first package of its id was received gets none if
  another hub has one; two classes with one id share their creator (`PackagesReachHandlers`).
* `udp_point.cpp:143` reads behind the bytes it received.
* `deserialize` in doc_example/3.4/common.h:71 returns the size of the object in memory: a
  field with a helper must be the last of its package (`PackageArrives`).
* `clear` and `pop_back` of `ntcompact_array` have no `return`.
* `sort::process` of doc_example/4 sorts again at each call; with equal keys a row may come out
  twice. Its quicksort is not stable.
* The streams of `hash_splitter` lose rows if there are two or more (`splitter.h:74`): one that was
  given a row and is asked when it has no new one steps over the place of the next.
* `min` of a groupby starts from 0 (`group.h:103`).
* An update whose key is the last column is no SQL; `delete_rows` has no text the server takes; the
  last column's index is never created (`table_dump.hpp:57-62`); `thread_copy` leaves
  `m_schema_set` unset (`mysql.hpp:203`); a second `create_table` throws; `insert_or_ignore_rows`
  does not compile (`table.h:96`).
* `net_buffer.cpp:47`: after a partial write the rest is sent from the wrong place.
* A para that was never started makes a wait for its container throw, and the container is
  walked while another thread adds to it, since its lock does not exclude.

## Not modelled

* A second `run()` of the same functors, and `add_functor`/`remove_functor` between runs.
* Of net: both directions of a TCP connection in one behaviour (the two share no state but the
  socket's), raw bytes as packages, the framework's routines, which run one after the other, and the log.
* In `Runtime`, programs that wait for a function beneath them on the same stack, or for a
  para never called (the code throws), foreign threads that wait before they have scheduled,
  a runtime without `ff::initialize` (the first foreign thread would get the caller's id,
  `runtime.cpp:93`), more continuations than the waiting ring holds (`runtime.cpp:134` runs them
  round and round), and the growth of the vectors of queues under their readers
  (`runtime.cpp:90`).
* A paracontainer that is added to while a wait walks it, and conditions of more than two paras
  combined; `single_assign` and the thread-local containers, which have one thread's state.
* `miso_queue`, which nothing uses (a push can leave its loop without a reservation,
  `miso_queue.h:56`), and `spin_stealing_queue`, which no build selects; memory orders weaker
  than x86-64's.
* Of kmeans the stream of the means, and floating point.
* Of sql the column types of `ff/sql/mysql/`, which convert one value, and selects of some columns.
* The computation on types in util and functionflow, the vendored decimal, protobuf (its build is
  commented out), command lines, logging and tests: no state of their own to check.

## Plan

1. hpda engine and functors (done), with the engine's invariants proved; the programs of
   doc_example/3.4 and the sort of doc_example/4 as functors (done).
2. functionflow: the queues against an abstract deque and the spin lock, with
   `QueueIsDeque` proved, the runtime with its paras against `Paras`, groups, `for_each` and what
   `then()` hands over (done).
3. net: the buffer, the packer and the TCP connection against `Channel`, with the sender's
   invariant proved; `from_net` and `to_net` over a connection that may be lost, the nervure, dispatch, UDP and the
   archive (done).
4. The https extractors, kmeans, rows and their arrays, sql (done).
5. More proofs: `SimoQueue`, `Groups`, the runtime with its paras, `NetIo`, and UDP, nervure,
   https, `then()`, dispatch and the handles (done). The types of pipelines (done). The
   pages, k-means and the compact array (done). The table of a database and the archive (done).
   The TCP connection as a `Channel` (done). Left: the types of pipelines with query functors.
