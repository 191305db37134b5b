# Verification of the MultiMarketPrices gateway

MultiMarketPrices is a market-data gateway. `BinanceMD` (`src/MDGateways`) takes clients'
subscriptions from a Kafka topic, subscribes the streams at the exchange over one
WebSocket, fetches snapshots over REST, and publishes prices, answers and its own status to
Kafka topics. These modules model its control in TLA+, check it with TLC on small instances
and prove part of it with TLAPS for every instance.

`PROJECT.json` lists the runs, the lines every definition models, the hazards and the
findings. Lines quoted below are of the files under `src/`.

## 1. Inventory

### Threads

| thread | runs |
|---|---|
| io (main) | `io_context::run`: every handler of the WebSocket session and of the REST client, each on its strand (`Binance.cpp`, end of `main`) |
| mw | `onGatewayConnected`: `PlatformComm::init`, `initializeMiddleWare`, then the loop of the individual consumer; on the way out, the exit callback. A `jthread` that the first WebSocket connection starts |
| group | the loop of the group consumer: a detached thread over an object on mw's stack |
| worker | message, answer and timer callbacks of the middleware: one FIFO. It belongs to globals of `PlatformComm.cpp`; nobody stops it before `main` returns |
| timer | heart beat, and the status re-published every 5 s |
| throttler | 5 WebSocket frames a second, handed back to the strand |

### Components

**WebSocket session** (`MDGateways/Binance/WebSockets.h`). *State*: the connection
(`m_connected`, `m_connectedOnce`), the request book (`m_liveSubscriptions`,
`m_pendingSubs`, `m_pendingUnsubs`), the command in flight (`m_inFlightComand`) and three
flags that say what kind it is. *Operations*: `subscribe`, `unsubscribe`, the chain resolve,
connect, SSL, handshake, read, write, `on_error`, retry. *Interacts*: requests from the worker
arrive as posted functions; frames go through the throttler; `m_readyCallback` tells the
gateway. *Hard*: requests, completions and failures reach the strand in any order; the replay
after a reconnect. *Correct if*: one write at a time; nothing pending is forgotten; what the
exchange was asked for is the live set; a lost connection comes back and its replay completes.

**Platform side** (`MDGateways/PlatformComm`). *State*: one state machine per partition
(`partitionFSMs`: Downloading, Operational, Revoked), the book of destination topics per key,
the counts of price publication. *Operations*: `rebalanceCallback` (group),
`msgCb` and `responseCb` (worker), `handleRequest` and the prices (worker, io), `init`.
*Interacts*: with the subscription data provider (SDP) by `sync_data_request` and
`sync_data_update`; with the exchange side by `produceControl`. *Hard*: three threads; commands
deferred during a download and replayed after it; revocation and re-assignment. *Correct if*: the book and the exchange
side stay in step; a download ends; every destination in the book is served.

**REST client** (`MDGateways/Binance/RestApi.h`, `.cpp`). *State*: the connection, `m_queue`, one
timer for both keep-alive and retry. *Operations*: `getDepth`, `getRecentTrades`,
`getExchangeInfo`, `fail`, `keepAlive`, retry. *Hard*: three places start the next request; the
shared timer; a response finds its caller by its position in the queue. *Correct if*: one
operation at a time, for the front; no stall; answers in order, at most once; the retry
survives.

**Gateway status and start-up** (`MDGateways/Binance/Binance.cpp`). *State*:
`ConnectivityState`, `publishStatusPtr`, and with it `currentStatus`, `currentDetail` of
`PlatformComm.cpp`. *Operations*: the ready callbacks, the publication, the handlers of the
REST answers, the exit callback. *Hard*: io, mw and timer publish without a lock; shutdown
runs on mw while io may be in a handler. *Correct if*: the published status is the one of the
connections, and consumers converge to it.

**Middleware** (`MiddleWare/Interface.cpp`). *State*: the loops (`m_running`, `m_killed`), the
shutdown flag, the pending request book, the worker's queue. *Operations*:
`initializeMiddleWare`, the loops, `request`, `respond`, lifecycle messages. *Hard*: a detached thread over a
stack object; a worker that outlives `main`; signals; offsets committed before the worker has run.
*Correct if*: a loop outlives its thread, told to stop it stops, it announces itself
consistently.

**Routers** (`CrazyRouters.hpp`): tables from keys to functions for prices, end-to-end messages
and request/response; the last keeps the ids it waits for (`m_pendingreqIds`). *Hard*: ids come
from clients; the io thread takes one out of the book and out of the router in two steps.
*Correct if*: an answer reaches who asked, and what waits is on its way.

**ConfigLib** (`ConfigLib/ConfigLib.cpp`). *State*: `stopFlag`, an inotify watch in a detached
thread. *Operations*: `init`, `onConfigUpdate`, `merge`, `validate`, `stop`. *Hard*: the file is
written while it is read; a load that throws ends the process. *Correct if*: what is applied is
complete and from one document, and the last save comes to be applied.

**SDPMock, DataDumper, PerformanceTests, Tests**: programs that exercise the gateway. The
answer of `SDPMock` to a sync request is what `PlatformComm` takes the SDP to do.

**Constants, TypeWrapper, UUIDGen, Logging**: no state a property is about.

**ThirdParty**: submodules (CPPFsm, MTTools, modern-cpp-kafka, NanoLog), empty in the
repository: modelled only from how `src/` uses them.

## 2. Modules

| module | models | state of the module |
|---|---|---|
| `WSSession` | `WebSockets.h`, class `session` | complete |
| `StreamService` | what the session promises to who subscribes streams | abstract specification |
| `PlatformComm` | rebalancing, `msgCb`, `responseCb`, `PerPartitionSM` | the subscription side |
| `RestClient` | `RestApi.h`, `RestApi.cpp`, the answers' handlers | `stop()` left out |
| `SnapshotService` | what the REST client promises its callers | abstract specification |
| `ReqResp` | the consumption loop and its commits, the pending request book, the request router, the handlers of price and instrument requests | complete; the REST client is `SnapshotService` |
| `Prices` | price updates, blanking, publication; commands as they pass from book to session | partitions Operational; the session is `StreamService` |
| `ConfigLib` | `ConfigLib.cpp` | a document is what the code makes of it: its sections, and what it throws at or refuses |
| `GatewayStatus` | ready callbacks, status publication | complete |
| `Lifecycle` | `initializeMiddleWare`, the loops, the end of `main` | without the traffic |
| `WSSessionProofs` | `WSSession`: safety, and that it implements `StreamService` | |
| `RestClientProofs` | `RestClient`: safety, and that it implements `SnapshotService` | |
| `PlatformCommProofs`, `ReqRespProofs`, `PricesProofs`, `ConfigLibProofs`, `GatewayStatusProofs`, `LifecycleProofs` | safety of the six | |

`MC*` modules give constants their values; `GatewayStatus` has a bound only and `Lifecycle` no
constant.

How they hang together: two components have an abstract specification, the other modules are
composed with that, and the component is shown to implement it (checked by TLC in the runs `rest`
and `ws`, proved for every value of the constants). `ReqResp` takes a step of `SnapshotService` wherever the
code calls the REST client or is called by it; `Prices` takes a step of `StreamService` wherever
the gateway subscribes, unsubscribes, connects or loses the connection. So the safety that the two show
holds with the real component in its place. What they assume of its liveness is its own property
(`EverySnapshotAnswered`, `ReplayCompletes`), and no more: the requests that race a command and
are never sent (`ws_lost`) are part of `StreamService` and so of `Prices` (`lost`). `Prices` also
assumes that the book and the exchange side are in step (`InStep` of `PlatformComm`).

### WSSession

One handler is one action: the strand runs them one at a time. A command is a record of a
method and a set of streams; the id and the JSON text are left out, since nothing in the session
reads them back. `link` says which completion the connection waits for, `throttler` and
`writing` hold the frame between `send()` and its completion, and `server` is what the frames
written on this connection ask the exchange for. A request that changes nothing ("Spurious
Sub") is a stuttering step.

An error before the first handshake calls the ready callback, which stops the `io_context`
(`Binance.cpp:531-535`): link `Stopped`. Beast is taken to allow one `async_write` and to report
one real error per connection; every other completion is `operation_aborted` and ignored
(`OnWriteAborted`). The cancelling branch of `on_handshake` is modelled and is dead:
`PendingMatchesLive`. `handleRetry` and `on_close` have no caller and are left out.

`raced` is a history variable. There are four ways in which the session forgets a request, and
it records exactly those:

1. a request joins a pending set whose batch is out; the completion clears the whole set
   (`WebSockets.h:304`);
2. a request cancels against a pending entry whose command is out;
3. a reconnect puts the stream of an interrupted SUBSCRIBE into the pending set and sends the
   command again, and an unsubscribe then cancels against the pending entry;
4. a pending unsubscribe survives a reconnect and a new subscribe cancels against it, although
   the new connection never carried the stream.

`AgreementOutsideRaces` says that for every other stream the exchange and the book agree
whenever the session is idle; run `ws_lost` shows the first way.

`StreamService` keeps of all this three things: whether the session is connected, what it has been
asked for (`live`), and what the exchange will have been asked for when it has read the frame on
its way (`asked`). A frame adds streams that are live or takes away streams that are not; a handshake
asks for all that is live, or sends first what was interrupted: one stream that may not be
wanted any more. Without this exception TLC refutes the refinement. A fourth variable has the
requests that `raced` records and nobody will send: `lost` are streams that are wanted and not
asked for, until they are given up, happen to be asked for again or a new connection replays
them (`Lost` is the refinement mapping). How long any other request waits `StreamService` does
not say: of those `ReplayCompletes` says that they are sent on a connection that lasts.

### PlatformComm

The three threads are three groups of actions. `creating` is the window in
`rebalanceCallback` between the sync request (line 98) and the storing of the machine; the answer
may be processed inside it. `worker` is the FIFO of the worker. `feed` is what the exchange side
has been told. The machine follows CPPFsm as `src/` uses it: an event that a state does not
process is dropped, a deferred one is replayed, in order, after the next transition. So a Revoke
deferred in Downloading turns the end of the download into Revoked. Commands of a partition this
gateway does not hold change only the SDP (`OtherGatewayHandles`). `handedOver`, `shared` and
`restored` are history: what a revocation, a shared key, or a download without a destination has
put out of step.

### RestClient

Public methods read `m_connected` on the worker's thread and post: `posted` is what waits on the
strand. `timer` is what `m_timer` is armed for, and `due` a keep-alive that has expired and not
run, the window in which the connection may fail. A body is one of three kinds, which is all the handlers
tell apart; one they do not accept makes them throw out of `io_context::run` (link
`Crashed`). `stop()` only posts to a context its caller has stopped, so what it posts never runs.

`made`, `answered` and `rejected` are what the callers see, and all that `SnapshotService` has.
The refinement mapping is the identity on them: connections, the queue, pings, failures and
retries are steps that the abstract specification does not see. It holds even where a body makes
a handler throw: the process ends and answers no more.

### ReqResp

Three threads. The loop polls and commits (`Poll`, `Commit`), the worker handles one record to its
end (`RunWorker`), and the io thread delivers an answer in four steps: the router finds the id
(`OnAnswer`), `respond` sends (`Respond`) and erases (`Unbook`), the router erases (`Unroute`).
Between these the worker may handle any other record. A record is its number in the log, so that
two requests with one id are two. `fate` says of a request that gets no answer why: `Duplicate`
(its id waits), `Overtaken` (its id was answered and is being taken out), `Unknown` (no such price
type or service), `Lost` (the process died after its offset was committed). A record of which the
new process reads again forgets its fate and its answers. `ListInstruments` abstracts the records
of the list to the last one.

### Prices

A subscription is a pair of a topic and a key. A key is the symbol *as the client wrote it* with
the type; `StreamOf` lower-cases the symbol (`Binance.cpp:202`), `UpdateKey` is what
`onPriceUpdate` makes of a stream (upper case, `Binance.cpp:471`). So `btc:trade` and `BTC:trade`
are two keys of the book and one stream. The session is `StreamService`; `carried` is what
the exchange sends, follows `asked` with a delay and is lost with the connection. `heard` is the last thing a topic was sent for a key.
Two variables are history. `aged` counts the tasks at the front of the worker's queue that the last
loss of the connection found there, its blanking included, and a price becomes an `OldPrice` in
`heard` when its connection is lost. `muted` has those whose stream another client's unsubscribe
has taken away; `BookKept` and `EventuallyPriced` are not about them. Requests are posted by
`Subscribe` and `Unsubscribe`, and run one by one: each is sent, kept for later or lost, as
`StreamService` says.

### ConfigLib

`Save` closes a file written in place, or moves another to its name; both raise an event.
`SaveTarget` writes the target of the link that `deploy/BinanceMD/entrypoint.sh` makes: the event
bears another name and is passed over. `BeginSave` leaves the file torn. A configuration is a
function from tags to values. After a failed first load `init` reads an empty optional
(`ConfigLib.cpp:274`): the process crashes, or goes on with garbage that has no log level and
gives up. `validate` of a document is what `validate()` makes of it: it may also throw at a part of
the wrong type, as `flatten()` does without a system section and, when the file is loaded again,
`updateLogLevel` at a level that is no string (`UpdateThrows`); what is thrown in the watching
thread ends the process. `Vetoed` are the configurations the application's validator refuses
(none in `BinanceMD`, whose validator always agrees; the run has one). Which tags a section has,
and whether a value is a string, is all that is kept of a document. `unseen` is history: the last save raised no event.

### GatewayStatus

A publication is four steps of a thread (`pc`): two assignments, the message, the sending. io
publishes from the ready callbacks, mw once, timer from then on. The assignments race; both
functions that `publishStatusPtr` holds are captureless and each status fits into the string
object itself, so each access is one step, and only the orders are examined. `overtaken` records that mw computed
its status before a change of the io thread; it is over with the io thread's next
publication. Losing REST changes `restUp` and nothing else (`RestLost`): `fail()` calls the ready
callback only before the first connection.

### Lifecycle

main, mw, the detached thread, signals and `request_stop`. `mw` follows
`initializeMiddleWare` and the exit callback line by line. The state `lost` of `group` is a
thread that starts on a loop already destroyed (`kill()` does nothing to a loop that has not
started, `Interface.cpp:114-121`). Of main's end only the joined thread is modelled. That what main
owns outlives its users is not claimed, and is not so: the worker, which belongs to globals, posts
clients' commands to a strand that is main's, and nobody joins it; the session's ready callback
holds the session (`sessHolder`, `Binance.cpp:517`), which is therefore never destroyed.

## 3. Runs

| run | instance | what it shows |
|---|---|---|
| `ws` | 3 streams | safety of the session, that it reconnects, replays what no race has lost and does not starve unsubscribes, and that it implements `StreamService` |
| `ws_lost` | 2 streams | **violated** `NoLostSubscription`: a live stream the exchange was never asked for |
| `pc_safety` | 1 partition, 1 key, 2 clients, 4 commands, 3 rebalances | book and exchange side stay in step through deferral and replay; a download that has an answer coming ends |
| `pc_stuck` | 2 partitions, 2 keys, 1 command, 3 rebalances | **violated** `DownloadHasAnswerComing`: a machine waits for an answer that will not come |
| `pc_dests` | 1 partition, 2 keys, 3 commands | **violated** `EveryDestinationServed`: one client leaves, the other's key is unsubscribed |
| `rest` | 3 snapshots, any body | one operation, for the front; no stall; every caller answered; the client implements `SnapshotService`, so answers come in order and once |
| `rest_crash` | 1 snapshot, the simulator's bodies | **violated** `NeverCrashes`: every trade snapshot ends the process |
| `gw` | 4 changes of the connections | status true outside the recorded race, detail true, no placeholder, convergence |
| `life` | complete | a started loop ends before it is destroyed, stop ends the process, destructors return, announcements consistent |
| `reqresp` | 3 requests of 2 clients sharing an id, 1 crash | answers reach who asked; nothing booked is forgotten; overtaken only in the io thread's window; every request comes to a named end |
| `prices` | 1 stream, 2 topics, a key in two spellings and one of no known type, 2 waiting tasks | no price of a lost connection is left standing; a booked key has its stream with the session or on its way there; who is subscribed hears prices again, unless silenced or lost to a race |
| `config` | 8 documents, one for each way not to be applied, 3 saves | what is applied is complete and merged by specificity; the last save that raised an event is applied |

A violated run is a finding; `PROJECT.json` quotes the line of the repository that says otherwise.

### Bounds, and why they are enough

- *Streams* (3). `WSSession` has no counters: requests, failures and reconnects are unbounded.
  Streams interact only through the sets they share a batch with; a race needs one in the batch
  and one that joins it, and three leave one that does neither. The theorems hold for any set.
- *MaxCommands* 4, *MaxRebalances* 3. Two clients can each subscribe and unsubscribe;
  assigned, revoked, assigned again is the shortest history that visits every state of a machine
  twice. `msgCb` and the machine treat keys of a partition independently, so that one key is enough for safety;
  the other runs have two.
- *MaxRequests* 3. One request under way, one queued, one posted. Pings, failures and
  reconnects are unbounded.
- *MaxChanges* 4. Each of the two connections lost and back, before, during and after mw's
  publication.
- `ReqResp`: *MaxSent* 3, *MaxCrashes* 1. One request waiting, one that reuses its id, one that
  follows; more crashes repeat the first, as nothing but the offset survives one. One id has every
  kind of request, so that each meets each in the book.
- `Prices`: *MaxTasks* 2 tasks waiting in the two queues together: each two of an update, a blanking
  and a command in either order, with others following as the queue moves on. Commands, updates and
  disconnections are unbounded, and `NoStalePrice` is proved for queues of any length.
- `ConfigLib`: *MaxSaves* 3: one before the watch, one that is handled, one meanwhile.
- `Lifecycle` has no constants and no counters: its run is complete.

`CHECK_DEADLOCK FALSE` is said where the system may stop: a stopped io_context, a bound reached,
a process that has ended.

### Fairness

- `WSSession`: weak for the throttler's release, for the completion of a write and for the retry timer: each is
  one thread that keeps running or an operation with a timeout. Strong for the steps of
  connecting: tried for ever, each succeeds some time. Nothing is assumed of requests or
  failures. `OnRetryTimer` waits for an empty throttler because the retry takes 10 s
  (`Binance.cpp:526`) and the throttler's window is 1 s (`:683`).
- `PlatformComm`: weak for the SDP's answer, for the loops and for the worker. Clients and the
  broker owe nothing.
- `RestClient`: weak for the strand and the retry; strong for the network, reading
  included. That an operation completes or fails is assumed: after `expires_never` nothing in
  the code bounds the wait (a hazard without a property).
- `ReqResp`: weak for the loop's polling, the worker and each step of the io thread. For the
  exchange's answer (`OnAnswer`) it is what `RestClient` shows under its own fairness
  (`EverySnapshotAnswered`). Nothing is assumed of commits, clients or crashes.
- `Prices`: weak for the worker and the strand; for the session to ask for what waits and was not
  lost to a race (`AskFor`), which is what `WSSession` shows (`ReplayCompletes`, with `Lost`), so
  that `EventuallyPriced` is not about requests the session has lost; for the exchange to
  carry what it was asked for; strong for the updates of a stream, since a market trades again
  and again although the queue may be full in between. Nothing of connections or commands:
  `EventuallyPriced` asks for a connection in its premise.
- `ConfigLib`: weak for the start and the watching thread.
- `GatewayStatus`, `Lifecycle`: weak for each thread. `Lifecycle` takes the synchronous close of
  the session to return (a hazard too).

## 4. Proofs

All for every value of the constants, from the assumptions the modules name: that bounds are
natural numbers, that the log level is a mandatory tag, that a key has a partition and a stream or none, that there are finitely
many keys (`KeysAssumption`; the SDP sends its records one after the other), and that "no
document" is not a document (`NoneAssumption`; an empty `optional`).

**`WSSessionProofs`** proves the four safety invariants of run `ws`, and `PendingMatchesLive`, on which
the refinement rests. None but the type invariant is inductive. `IInv`
adds *where* the outstanding command is (`Wire`: in the throttler or being written, nowhere when
nothing is in flight), *which* it is (`Flight`: a single command, a batch of subscribes or one of
unsubscribes, and for each what the streams outside races still lack) and what sending an
interrupted command again may spoil (`Replayable`). The step has a lemma per kind of
action; the writes are the heart, where a batch turns into the next. `InFlightIsReal` says that on a connection the flag which keeps the session from sending is
set exactly while a command is out, so that it is never left set for good: `ReplayCompletes` and
`UnsubsNotStarved` rest on it. `Implements` is the refinement of
`StreamService`: with at most one command out (`Wire`), `asked` is what the exchange holds and that
command (`AskedNow`), so a completed write changes nothing and the batch it starts is the step
(`BatchAsks`); that a batch is wanted is `PendingMatchesLive`. A stream that is `Lost` becomes so only
by a request that finds a command out (`CommandAlone`: where nothing is out, nothing can race), and
what an interrupted command asks for again is not among the raced ones (`Replayable`).

**`RestClientProofs`** proves `TypeOK`, `OneOperationForFront`, `NoStalledQueue` and
`RetryArmed`. The two about the queue need each other: a request may start only because a
connected client's queue is empty exactly when nothing is under way. `RetryArmed` needs its converse
(`RetryOnlyDown`). `WaitingIsServed` is the safety half of `EverySnapshotAnswered`: while the process runs and somebody
waits, an operation is under way, a step is posted, or a connection or the retry is on its way.
Its second half proves the refinement of `SnapshotService` (`ImplementsService`). A caller is known by the number
of his request, and the client answers whoever is at the front. `Ordered` says that the numbers
grow along the queue and on through what is posted, and that these are exactly the callers who wait:
so the front is the least who waits, which is what `SnapshotService` asks. `OneOperationForFront`
is what makes a response the front's.

**`GatewayStatusProofs`** proves `TypeOK`, `CurrentUnlessOvertaken`, `DetailTrue` and
`NeverInit`. A status is followed from where it is computed to where it is written: what io is
about to write is the flags' status, as only io changes them (`IoFresh`); mw's is, unless overtaken
(`MwFresh`); what is written is (`CurrentFresh`). `Started` and `Target` make a call that finds
an empty `publishStatusPtr` harmless: mw has yet to read the flags.

**`ReqRespProofs`** proves all safety properties of run `reqresp`. Answers are addressed by an id
that clients choose; the invariant is about records. It says where one can be: ahead in the log or
in the worker's queue, and nowhere else (`FreshAhead`); with the exchange, and then it is the one
booked and routed under its id (`AskersHold`); or in the io thread's hands, which holds the id until it
has let go of book and router (`IoHolds`). That the two books are read and written by two threads
is harmless because an id is refused while either has it (`RoutedWhy`, `BookedUnanswered`). The proof
takes of the REST client no more than `SnapshotService` says. `NoRequestVanishes` is the safety half of
`EveryRequestSettled`: a request with neither a last response nor a fate is in the topic, with the
worker, with the exchange, or about to be responded to, crashes included.

**`PlatformCommProofs`** proves the four invariants of run `pc_safety`. The book is changed when a
command arrives, the exchange side when the machine comes to it. While a machine downloads, a key with
a destination has a deferred command, and nothing but the download has fed a key
(`DownloadFeeds`); the last deferred command about a key agrees with the book
(`ReplayLeadsToBook`); a machine holds the events of its own partition only (`OwnEvents`), so that its
replay does not disturb another's. The three turn into `InStep` at the last record. The replay is
modelled by what it leaves (`Replay`: a key ends as the last event about it says) and not as a
fold, which the prover cannot follow; `ReplayIsOneByOne`, an assumption of `MCPlatformComm` that
TLC evaluates in its runs, compares the two on all sequences of up to four events.

**`PricesProofs`** proves `TypeOK`, `NoStalePrice` and `BookKept`. What makes the second inductive: the part of the
queue that a lost connection left there ends in its blanking (`AgedEndsInBlanking`), and nothing can be added to
it, as without a connection no update is produced (`DownIsAged`). So a reconnection while old
updates wait does no harm, and `DownIsBlanked` follows. `BookKept` is about the
other direction. The worker changes the book, the strand the streams, and requests are posted in
between: of those the last for a stream decides, and it agrees with the book unless another
client's unsubscribe has silenced it. With nothing posted the session has been asked for what is
booked (`WantedIsAskedFor`), the safety half of `EventuallyPriced`.

**`LifecycleProofs`** proves the three invariants of run `life`, and two more. Each says of one thread what only
another knows, so the invariant ties them to where mw is: which loop exists and how far the detached
thread can be (`LoopOnStack`, `LoopTold`), what has been announced (`Announced`), that signals are
caught (`SignalsCaught`), that main is gone only when mw is (`MainGoesLast`, which is `Join`'s guard
and no result), and what a stopped io_context or an `app_down` implies
(`LeavesWhenTold`). `NobodyWaitsInVain` is the safety half of `DestructorReturns`:
the destructor that acquires the semaphore finds it released, or a loop that will release it.
`TakesLeaveOnRequest` is the converse of `StopEndsProcess`.

**`ConfigLibProofs`** proves `MostSpecific`, whatever the documents and levels: the merge inserts
the most specific section first and `insert` does not overwrite (`MergeIsSpecific`). `IdleIsCurrent`
is the safety half of `LastSaveApplied`: the listener may hold a file that is no longer the file, but then
an event is waiting (`Overtaken`), and the last save is applied, with the listener, or announced
(`OnItsWay`).

Only model-checked, as it is out of the prover's reach: liveness (`Reconnects`, `ReplayCompletes`,
`UnsubsNotStarved`, `DownloadEnds`, `EverySnapshotAnswered`, `Converges`, `StopEndsProcess`,
`DestructorReturns`, `EveryRequestSettled`, `EventuallyPriced`, `LastSaveApplied`), of which the
theorems above give what does not depend on fairness. Every invariant, action property and
refinement of a passing run is proved. Not proved either: `Replay` against the code's one by one (above),
and the definitions of the violated runs, which are false.

## 5. Not modelled

- Data races as such (`partitionFSMs`, the status strings, `std::function`s replaced
  while called): the accesses are atomic steps and their orders are explored.
- The offsets of commands (`subscribe`, `unsubscribe`): `ReqResp` keeps those of requests; a command
  lost with the process is the same loss, and `PlatformComm` keeps no offsets.
- Two gateways that hand a partition over, and with it the keys a revoked partition leaves behind.
- What a stream does that the exit callback closes under a running handler (`Binance.cpp:566`) or
  a loop that is destroyed before its thread starts: `Lifecycle` reaches these states and goes on.
  The worker and the throttler after main's end (section 2).
- Four races are excluded from properties that hold otherwise, each by a history variable and each a
  hazard in `PROJECT.json`: a status computed before a change and written after it (`overtaken`,
  `CurrentUnlessOvertaken`), a client silenced by another's unsubscribe (`muted`, `BookKept` and
  `EventuallyPriced`), a request lost to a race (`lost`, `EventuallyPriced`; `ws_lost`), a save
  that raises no event (`unseen`, `LastSaveApplied`).
- A gateway whose initialisation fails after the signal handlers are installed
  (`Interface.cpp:482`): nothing reads the flag any more, so `StopEndsProcess` is about gateways
  that came up.
- Exceptions of malformed requests and commands (`json::parse` on the worker).
- The end-to-end router, and what of the routers and of the REST client nothing in `src/` calls.
- `tlapm` has no say about external code: throttler, CPPFsm, Kafka, the SDP and the exchange are
  assumptions, marked external in the map.
- JSON, logging, metrics, the Kafka client.

## 6. Plan

1. `Gateway`: `PlatformComm` with `WSSession` as its exchange side, and an abstract specification
   "the exchange carries the keys with a destination" that both meet; two gateways that hand a
   partition over.
2. Proofs: the refinements of `Gateway`, once it is there.
