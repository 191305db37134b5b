----------------------------- MODULE RestClient -----------------------------
(***************************************************************************)
(* BinanceRestClient: one persistent HTTP connection, a queue of requests  *)
(* served one at a time, a keep-alive ping and an endless reconnection     *)
(* (src/MDGateways/Binance/RestApi.h, RestApi.cpp).                        *)
(*                                                                         *)
(* Everything but the public methods runs on the strand.  Those are called *)
(* by the middleware's worker, look at m_connected from there and post     *)
(* what they queue; the posted functions wait in posted, in order.  The    *)
(* keep-alive and the retry share one timer.                               *)
(*                                                                         *)
(* Outside src/: the network, and the exchange, which answers a request    *)
(* with a JSON object, with one that lists symbols, or with another body   *)
(* (an array, an error page, nothing).                                     *)
(*                                                                         *)
(* stop() is left out: it only posts to an io_context that its caller      *)
(* stops (Binance.cpp:533-534, 565-567), so what it posts never runs.      *)
(***************************************************************************)
EXTENDS Integers, Sequences

CONSTANTS
    MaxRequests,  \* bound: snapshots the worker asks for
    Bodies        \* per kind of request, the bodies the exchange answers with

Snapshot == {"depth", "trades"}
Kind     == Snapshot \cup {"exchangeInfo", "ping"}
Body     == {"symbols", "object", "other"}

ASSUME RequestAssumption == MaxRequests \in Nat
ASSUME BodyAssumption    == Bodies \in [Kind -> SUBSET Body]

VARIABLES
    link,           \* which completion the connection waits for
    connected,      \* m_connected
    connectedOnce,  \* m_connectedOnce
    timer,          \* what m_timer is armed for
    due,            \* the keep-alive's wait is over, its handler not yet run
    posted,         \* functions posted by launch_request
    queue,          \* m_queue
    ops,            \* operations begun on m_stream and not completed
    made,           \* snapshots asked for: their ids
    answered,       \* ids whose callback has had a response, in order
    rejected,       \* ids whose callback was called at once, with no_data
    launched        \* the instrument list has arrived

clients == <<made, answered, rejected, launched>>
vars == <<link, connected, connectedOnce, timer, due, posted, queue, ops, clients>>

Ping         == [kind |-> "ping", id |-> 0]
ExchangeInfo == [kind |-> "exchangeInfo", id |-> 0]
Request      == [kind : Snapshot, id : 1..MaxRequests] \cup {Ping, ExchangeInfo}
Op           == [op : {"write", "read"}, request : Request]

Connecting == {"Resolve", "Connect", "Handshake"}
Running    == link \notin {"Stopped", "Crashed"}

-----------------------------------------------------------------------------
(* Requests.                                                               *)

(* start_next_request: the front of the queue is written.                  *)
StartNext(q) == ops' = Append(ops, [op |-> "write", request |-> Head(q)])

(* getDepth and getRecentTrades, on the worker's thread, which exists once *)
(* the instrument list has arrived.                                        *)
GetSnapshot(kind) ==
    /\ launched /\ Running
    /\ made < MaxRequests
    /\ made' = made + 1
    /\ IF connected
       THEN /\ posted' = Append(posted, [kind |-> kind, id |-> made'])
            /\ UNCHANGED rejected
       ELSE /\ rejected' = rejected \cup {made'}
            /\ UNCHANGED posted
    /\ UNCHANGED <<link, connected, connectedOnce, timer, due, queue, ops, answered,
                   launched>>

(* Faulty variant for mutation testing: the queue's length is not looked   *)
(* at.                                                                     *)
StartWheneverConnected == connected

(* A request starts when it is alone in the queue of a live connection.    *)
StartNow == Len(queue') = 1 /\ connected

(* The function launch_request posts.                                      *)
RunPosted ==
    /\ Running
    /\ posted # <<>>
    /\ queue' = Append(queue, Head(posted))
    /\ posted' = Tail(posted)
    /\ IF StartNow THEN StartNext(queue') ELSE UNCHANGED ops
    /\ UNCHANGED <<link, connected, connectedOnce, timer, due, clients>>

-----------------------------------------------------------------------------
(* Connecting and failing.                                                 *)

ConnectStep(from, to) ==
    /\ link = from
    /\ link' = to
    /\ UNCHANGED <<connected, connectedOnce, timer, due, posted, queue, ops, clients>>

OnResolve == ConnectStep("Resolve", "Connect")
OnConnect == ConnectStep("Connect", "Handshake")

(* Faulty variant for mutation testing: what waits is not started.         *)
LeaveWaiting == UNCHANGED ops

ResumeQueue == IF queue # <<>> THEN StartNext(queue) ELSE UNCHANGED ops

(* The first ready callback asks for the instrument list (Binance.cpp:620);*)
(* later ones only publish a status.                                       *)
OnHandshake ==
    /\ link = "Handshake"
    /\ link' = "Open"
    /\ connected' = TRUE
    /\ connectedOnce' = TRUE
    /\ timer' = "KeepAlive"
    /\ ResumeQueue
    /\ posted' = IF connectedOnce THEN posted ELSE Append(posted, ExchangeInfo)
    /\ UNCHANGED <<due, queue, clients>>

(* fail, of an error that is not operation_aborted: the stream is replaced,*)
(* and with it go the operations on the old one.  isFatalError ends a      *)
(* client that was never connected: close_connection empties the queue,    *)
(* which is empty before the first connection, and the ready callback      *)
(* stops the io_context.                                                   *)
Fail(fatal) ==
    /\ connected' = FALSE
    /\ ops' = <<>>
    /\ IF fatal /\ ~connectedOnce
       THEN link' = "Stopped" /\ timer' = "Off"
       ELSE link' = "Backoff" /\ timer' = "Retry"
    /\ UNCHANGED <<connectedOnce, due, posted, queue, clients>>

ConnectFails(fatal) == link \in Connecting /\ Fail(fatal)

OperationFails == /\ link = "Open"
                  /\ ops # <<>>
                  /\ Fail(FALSE)

(* The retry timer calls run().  Ten seconds have gone by, so a keep-alive *)
(* that had come due has run.                                              *)
OnRetryTimer ==
    /\ link = "Backoff"
    /\ timer = "Retry"
    /\ ~due
    /\ link' = "Resolve"
    /\ timer' = "Off"
    /\ UNCHANGED <<connected, connectedOnce, due, posted, queue, ops, clients>>

(* The keep-alive's wait ends: 30 s in which what was posted has run.      *)
KeepAliveDue ==
    /\ Running
    /\ timer = "KeepAlive"
    /\ posted = <<>>
    /\ timer' = "Off"
    /\ due' = TRUE
    /\ UNCHANGED <<link, connected, connectedOnce, posted, queue, ops, clients>>

(* Faulty variant for mutation testing: pings and rearms when down, too.   *)
KeepAliveAlways ==
    /\ timer' = "KeepAlive"
    /\ posted' = IF queue = <<>> THEN Append(posted, Ping) ELSE posted

(* keepAlive: expires_after of scheduleKeepAlive cancels whatever the      *)
(* timer was armed for.                                                    *)
KeepAlive ==
    IF connected
    THEN /\ timer' = "KeepAlive"
         /\ posted' = IF queue = <<>> THEN Append(posted, Ping) ELSE posted
    ELSE UNCHANGED <<timer, posted>>

RunKeepAlive ==
    /\ Running
    /\ due
    /\ due' = FALSE
    /\ KeepAlive
    /\ UNCHANGED <<link, connected, connectedOnce, queue, ops, clients>>

-----------------------------------------------------------------------------
(* Serving a request.                                                      *)

OnWrite ==
    /\ link = "Open"
    /\ ops # <<>> /\ Head(ops).op = "write"
    /\ ops' = Append(Tail(ops), [Head(ops) EXCEPT !.op = "read"])
    /\ UNCHANGED <<link, connected, connectedOnce, timer, due, posted, queue, clients>>

(* The callbacks take what on_read made of the body: the list of symbols,  *)
(* or the object under "data", or nothing.  The depth handler needs the    *)
(* object, the handler of the instrument list the symbols, the trades      *)
(* handler an array, which on_read never passes on (it parses an object);  *)
(* without it they throw, through on_read and out of io_context::run.      *)
Accepts(kind, body) ==
    \/ kind = "ping"
    \/ kind = "depth" /\ body = "object"
    \/ kind = "exchangeInfo" /\ body = "symbols"

(* Faulty variant for mutation testing: every response is a snapshot's.    *)
AnswerEveryKind(request) ==
    /\ answered' = Append(answered, request.id)
    /\ launched' = (launched \/ request.kind = "exchangeInfo")

Answer(request) ==
    /\ answered' = IF request.kind \in Snapshot THEN Append(answered, request.id)
                                                ELSE answered
    /\ launched' = (launched \/ request.kind = "exchangeInfo")

(* Faulty variant for mutation testing: the callback of the back is called.*)
ServeBack == /\ queue' = SubSeq(queue, 1, Len(queue) - 1)
             /\ Answer(queue[Len(queue)])
             /\ IF queue' # <<>>
                THEN ops' = Append(Tail(ops), [op |-> "write", request |-> Head(queue')])
                ELSE ops' = Tail(ops)

ServeFront == /\ Answer(Head(queue))
              /\ queue' = Tail(queue)
              /\ IF queue' # <<>>
                 THEN ops' = Append(Tail(ops), [op |-> "write", request |-> Head(queue')])
                 ELSE ops' = Tail(ops)

OnRead(body) ==
    /\ link = "Open"
    /\ ops # <<>> /\ Head(ops).op = "read"
    /\ body \in Bodies[Head(queue).kind]
    /\ Accepts(Head(queue).kind, body)
    /\ ServeFront
    /\ UNCHANGED <<link, connected, connectedOnce, timer, due, posted, made, rejected>>

OnReadThrows(body) ==
    /\ link = "Open"
    /\ ops # <<>> /\ Head(ops).op = "read"
    /\ body \in Bodies[Head(queue).kind]
    /\ ~Accepts(Head(queue).kind, body)
    /\ link' = "Crashed"
    /\ UNCHANGED <<connected, connectedOnce, timer, due, posted, queue, ops, clients>>

-----------------------------------------------------------------------------
Init ==
    /\ link = "Resolve"
    /\ connected = FALSE
    /\ connectedOnce = FALSE
    /\ timer = "Off"
    /\ due = FALSE
    /\ posted = <<>>
    /\ queue = <<>>
    /\ ops = <<>>
    /\ made = 0
    /\ answered = <<>>
    /\ rejected = {}
    /\ launched = FALSE

Next ==
    \/ \E kind \in Snapshot : GetSnapshot(kind)
    \/ RunPosted
    \/ OnResolve
    \/ OnConnect
    \/ OnHandshake
    \/ \E fatal \in BOOLEAN : ConnectFails(fatal)
    \/ OperationFails
    \/ OnRetryTimer
    \/ KeepAliveDue
    \/ RunKeepAlive
    \/ OnWrite
    \/ \E body \in Body : OnRead(body)
    \/ \E body \in Body : OnReadThrows(body)

Spec == Init /\ [][Next]_vars

(* The strand runs what is posted to it and the retry timer fires.  The    *)
(* network lets every kind of operation through eventually, if it is tried *)
(* again and again; nothing bounds the wait for an answer.                 *)
Fairness ==
    /\ WF_vars(RunPosted)
    /\ WF_vars(RunKeepAlive)
    /\ WF_vars(OnRetryTimer)
    /\ SF_vars(OnResolve)
    /\ SF_vars(OnConnect)
    /\ SF_vars(OnHandshake)
    /\ SF_vars(OnWrite)
    /\ SF_vars(\E body \in Body : OnRead(body) \/ OnReadThrows(body))

FairSpec == Spec /\ Fairness

-----------------------------------------------------------------------------
(* Types.                                                                  *)
TypeOK ==
    /\ link \in Connecting \cup {"Open", "Backoff", "Stopped", "Crashed"}
    /\ connected \in BOOLEAN
    /\ connectedOnce \in BOOLEAN
    /\ timer \in {"Off", "KeepAlive", "Retry"}
    /\ due \in BOOLEAN
    /\ posted \in Seq(Request)
    /\ queue \in Seq(Request)
    /\ ops \in Seq(Op)
    /\ made \in 0..MaxRequests
    /\ answered \in Seq(1..MaxRequests)
    /\ rejected \in SUBSET (1..MaxRequests)
    /\ launched \in BOOLEAN

(* The stream carries one operation at a time, which Beast demands, and it *)
(* is for the request at the front of the queue, whose callback on_read    *)
(* will call: a response never reaches another request's caller.           *)
OneOperationForFront ==
    /\ Len(ops) <= 1
    /\ ops # <<>> => queue # <<>> /\ ops[1].request = Head(queue)

(* A connected client serves its queue: nothing waits without an operation *)
(* under way, whichever of launch_request, on_handshake and on_read was to *)
(* start it.                                                               *)
NoStalledQueue == link = "Open" /\ queue # <<>> => ops # <<>>

(* The client implements the service its callers see: a snapshot is turned *)
(* away or answered, in the order asked for, at most once and never both,  *)
(* through any number of reconnections, whatever else shares the queue.    *)
Service == INSTANCE SnapshotService
ImplementsService == Service!Spec

(* The client that is down will come back: the timer it shares with the    *)
(* keep-alive stays armed for the retry until it fires.                    *)
RetryArmed == link = "Backoff" => timer = "Retry"

(* Every snapshot asked for is answered or turned away, unless a handler   *)
(* throws.                                                                 *)
Done(id) == id \in rejected \/ \E i \in DOMAIN answered : answered[i] = id
EverySnapshotAnswered ==
    \A id \in 1..MaxRequests : made >= id ~> Done(id) \/ link = "Crashed"

(* No answer of the exchange ends the process ("Returning a minimal valid  *)
(* object prevents crashes in BinanceMD if it ever hits this endpoint").   *)
NeverCrashes == link # "Crashed"
=============================================================================
