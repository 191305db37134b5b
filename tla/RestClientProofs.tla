-------------------------- MODULE RestClientProofs --------------------------
(* Theorems about RestClient, for any number of snapshots and any answers  *)
(* of the exchange.                                                        *)
(*                                                                         *)
(* NoStalledQueue and OneOperationForFront need each other: a request is   *)
(* started only when nothing is under way because a live connection's      *)
(* queue is empty exactly when ops is.  Both need Wire, that operations    *)
(* exist on a live connection only, and RetryArmed needs the converse:     *)
(* that a timer armed for the retry belongs to a client that is down.      *)
EXTENDS RestClient, SequenceTheorems, TLAPS

(* m_connected says whether the connection is established, and only such   *)
(* a connection has operations.                                            *)
Wire ==
    /\ connected <=> link \in {"Open", "Crashed"}
    /\ ops # <<>> => connected

(* The operation under way is the write or the read of the front.          *)
Serving(o) == ops = <<[op |-> o, request |-> Head(queue)]>>
Flight     == ops = <<>> \/ (queue # <<>> /\ \E o \in {"write", "read"} : Serving(o))

RetryOnlyDown == timer = "Retry" => link = "Backoff"

IInv ==
    /\ TypeOK
    /\ Wire
    /\ Flight
    /\ NoStalledQueue
    /\ RetryArmed
    /\ RetryOnlyDown

-----------------------------------------------------------------------------
(* The records of the module are of their types.                           *)
LEMMA RequestTypes ==
    /\ Ping \in Request
    /\ ExchangeInfo \in Request
    /\ \A k \in Snapshot, i \in 1..MaxRequests : [kind |-> k, id |-> i] \in Request
    /\ \A r \in Request : r.kind \in Snapshot => r.id \in 1..MaxRequests
    /\ \A o \in {"write", "read"}, r \in Request : [op |-> o, request |-> r] \in Op
BY DEF Request, Op, Ping, ExchangeInfo, Snapshot

(* Sequences of one element, which ops is at most.                         *)
LEMMA Singleton ==
    ASSUME NEW e
    PROVE  /\ Append(<<>>, e) = <<e>>
           /\ Head(<<e>>) = e /\ <<e>>[1] = e
           /\ Tail(<<e>>) = <<>>
           /\ Len(<<e>>) = 1 /\ <<e>> # <<>>
OBVIOUS

(* The front of a queue something is appended to, and its length.          *)
LEMMA AppendFront ==
    ASSUME NEW S, NEW s \in Seq(S), NEW e \in S
    PROVE  /\ Append(s, e) \in Seq(S)
           /\ Append(s, e) # <<>>
           /\ s = <<>> => Head(Append(s, e)) = e
           /\ s # <<>> => Head(Append(s, e)) = Head(s)
           /\ Len(Append(s, e)) = 1 <=> s = <<>>
BY AppendProperties, EmptySeq

(* The front and the rest of a queue, by the library's names.              *)
LEMMA FrontAndRest ==
    ASSUME NEW S, NEW s \in Seq(S), s # <<>>
    PROVE  Head(s) \in S /\ Tail(s) \in Seq(S)
BY HeadTailProperties

(* Nothing is under way and nothing waits at first.                        *)
LEMMA InitEstablishes == Init => IInv
<1> SUFFICES ASSUME Init PROVE IInv
  OBVIOUS
<1>1. /\ posted \in Seq(Request) /\ queue \in Seq(Request)
      /\ ops \in Seq(Op) /\ answered \in Seq(1..MaxRequests)
  BY DEF Init
<1>2. TypeOK
  <2>1. made \in 0..MaxRequests /\ rejected \in SUBSET (1..MaxRequests)
    BY RequestAssumption DEF Init
  <2> QED
    BY <1>1, <2>1, Zenon DEF Init, TypeOK, Connecting
<1> QED
  BY <1>2 DEF Init, IInv, Wire, Flight, NoStalledQueue, RetryArmed, RetryOnlyDown

-----------------------------------------------------------------------------
(* What the pieces of the actions do to ops.                               *)

(* A request is started only when nothing is under way.                    *)
LEMMA StartFront ==
    ASSUME NEW q \in Seq(Request), q # <<>>, ops = <<>>, StartNext(q)
    PROVE  /\ ops' \in Seq(Op)
           /\ ops' = <<[op |-> "write", request |-> Head(q)]>>
<1>1. Head(q) \in Request
  BY FrontAndRest
<1>2. [op |-> "write", request |-> Head(q)] \in Op
  BY <1>1, RequestTypes
<1> QED
  BY <1>2, Singleton, AppendProperties, EmptySeq DEF StartNext

(* Serving the front leaves the next one's write, or nothing.              *)
LEMMA ServeNext ==
    ASSUME IInv, ops # <<>>, ServeFront
    PROVE  /\ queue' \in Seq(Request)
           /\ ops' \in Seq(Op)
           /\ queue' = <<>> => ops' = <<>>
           /\ queue' # <<>> => ops' = <<[op |-> "write", request |-> Head(queue')]>>
<1>1. queue \in Seq(Request) /\ queue # <<>> /\ Tail(ops) = <<>>
  BY Singleton DEF IInv, TypeOK, Flight, Serving
<1>2. queue' \in Seq(Request)
  BY <1>1, FrontAndRest DEF ServeFront
<1>3. CASE queue' = <<>>
  BY <1>1, <1>2, <1>3, EmptySeq DEF ServeFront
<1>4. CASE queue' # <<>>
  <2>1. [op |-> "write", request |-> Head(queue')] \in Op
    BY <1>2, <1>4, FrontAndRest, RequestTypes
  <2>2. ops' = Append(<<>>, [op |-> "write", request |-> Head(queue')])
    BY <1>1, <1>4 DEF ServeFront
  <2>3. ops' = <<[op |-> "write", request |-> Head(queue')]>>
    BY <2>2, Singleton, Zenon
  <2>4. ops' \in Seq(Op)
    BY <2>1, <2>2, AppendProperties, EmptySeq
  <2> QED
    BY <1>2, <1>4, <2>3, <2>4
<1> QED
  BY <1>3, <1>4

-----------------------------------------------------------------------------
(* The actions, one lemma for each that does more than move the link.      *)

LEMMA StepGetSnapshot ==
    ASSUME IInv, NEW kind \in Snapshot, GetSnapshot(kind)
    PROVE  IInv'
<1>1. made' \in 1..MaxRequests
  BY RequestAssumption DEF IInv, TypeOK, GetSnapshot
<1>2. posted' \in Seq(Request)
  <2>1. [kind |-> kind, id |-> made'] \in Request
    BY <1>1, RequestTypes
  <2>2. posted \in Seq(Request) /\ Append(posted, [kind |-> kind, id |-> made']) \in Seq(Request)
    BY <2>1, AppendFront DEF IInv, TypeOK
  <2> QED
    BY <2>2 DEF GetSnapshot
<1>3. rejected' \in SUBSET (1..MaxRequests)
  BY <1>1 DEF IInv, TypeOK, GetSnapshot
<1>4. TypeOK'
  BY <1>1, <1>2, <1>3 DEF IInv, TypeOK, GetSnapshot
<1> QED
  BY <1>4 DEF IInv, GetSnapshot, Wire, Flight, Serving, NoStalledQueue, RetryArmed,
     RetryOnlyDown

LEMMA StepRunPosted ==
    ASSUME IInv, RunPosted
    PROVE  IInv'
<1>1. /\ posted \in Seq(Request) /\ queue \in Seq(Request) /\ ops \in Seq(Op)
  BY DEF IInv, TypeOK
<1>2. Head(posted) \in Request /\ posted' \in Seq(Request)
  BY <1>1, FrontAndRest DEF RunPosted
<1>3. /\ queue' \in Seq(Request) /\ queue' # <<>>
      /\ queue # <<>> => Head(queue') = Head(queue)
      /\ Len(queue') = 1 <=> queue = <<>>
  BY <1>1, <1>2, AppendFront DEF RunPosted
<1>4. CASE StartNow
  <2>1. queue = <<>>
    BY <1>3, <1>4 DEF StartNow
  <2>2. ops = <<>>
    BY <2>1 DEF IInv, Flight
  <2>3. StartNext(queue')
    BY <1>4 DEF RunPosted
  <2>4. /\ ops' \in Seq(Op)
        /\ ops' = <<[op |-> "write", request |-> Head(queue')]>>
    BY <1>3, <2>2, <2>3, StartFront
  <2>5. connected' /\ ops' # <<>>
    BY <1>4, <2>4, Singleton DEF StartNow, RunPosted
  <2>6. TypeOK'
    BY <1>2, <1>3, <2>4 DEF IInv, TypeOK, RunPosted, clients
  <2> QED
    BY <1>3, <2>4, <2>5, <2>6 DEF IInv, RunPosted, clients, Wire, Flight, Serving,
       NoStalledQueue, RetryArmed, RetryOnlyDown
<1>5. CASE ~StartNow
  <2>1. UNCHANGED ops
    BY <1>5 DEF RunPosted
  <2>2. TypeOK'
    BY <1>2, <1>3, <2>1 DEF IInv, TypeOK, RunPosted, clients
  <2>3. Flight'
    BY <1>3, <2>1 DEF IInv, Flight, Serving
  <2>4. NoStalledQueue'
    BY <1>3, <1>5, <2>1 DEF IInv, RunPosted, NoStalledQueue, StartNow, Wire
  <2> QED
    BY <2>1, <2>2, <2>3, <2>4 DEF IInv, RunPosted, clients, Wire, RetryArmed, RetryOnlyDown
<1> QED
  BY <1>4, <1>5

LEMMA StepConnecting ==
    ASSUME IInv, OnResolve \/ OnConnect \/ OnRetryTimer
    PROVE  IInv'
<1>1. /\ UNCHANGED <<connected, connectedOnce, due, posted, queue, ops, made, answered,
                     rejected, launched>>
      /\ link \notin {"Open", "Crashed"} /\ link' \in Connecting
      /\ timer' = "Off" \/ (link # "Backoff" /\ timer' = timer)
  BY DEF OnResolve, OnConnect, OnRetryTimer, ConnectStep, clients, Connecting
<1>2. TypeOK'
  BY <1>1 DEF IInv, TypeOK
<1>3. link' \notin {"Open", "Backoff", "Crashed"}
  BY <1>1 DEF Connecting
<1> QED
  BY <1>1, <1>2, <1>3 DEF IInv, Wire, Flight, Serving, NoStalledQueue, RetryArmed,
     RetryOnlyDown

LEMMA StepOnHandshake ==
    ASSUME IInv, OnHandshake
    PROVE  IInv'
<1>1. queue \in Seq(Request) /\ posted \in Seq(Request) /\ ops = <<>>
  BY DEF IInv, TypeOK, Wire, OnHandshake
<1>2. posted' \in Seq(Request)
  BY <1>1, AppendFront, RequestTypes DEF OnHandshake
<1>3. CASE queue = <<>>
  <2>1. ops' = <<>> /\ ops' \in Seq(Op)
    BY <1>1, <1>3, EmptySeq DEF OnHandshake, ResumeQueue
  <2>2. TypeOK'
    BY <1>2, <2>1 DEF IInv, TypeOK, OnHandshake, clients
  <2> QED
    BY <1>3, <2>1, <2>2 DEF IInv, OnHandshake, Wire, Flight, NoStalledQueue, RetryArmed,
       RetryOnlyDown
<1>4. CASE queue # <<>>
  <2>1. /\ ops' \in Seq(Op)
        /\ ops' = <<[op |-> "write", request |-> Head(queue)]>>
    BY <1>1, <1>4, StartFront DEF OnHandshake, ResumeQueue
  <2>2. TypeOK'
    BY <1>2, <2>1 DEF IInv, TypeOK, OnHandshake, clients
  <2>3. ops' # <<>> /\ queue' = queue
    BY <2>1, Singleton DEF OnHandshake
  <2> QED
    BY <1>4, <2>1, <2>2, <2>3 DEF IInv, OnHandshake, Wire, Flight, Serving,
       NoStalledQueue, RetryArmed, RetryOnlyDown
<1> QED
  BY <1>3, <1>4

LEMMA StepFail ==
    ASSUME IInv, NEW fatal \in BOOLEAN, Fail(fatal)
    PROVE  IInv'
<1>1. <<>> \in Seq(Op)
  BY EmptySeq
<1>2. TypeOK'
  BY <1>1 DEF IInv, TypeOK, Fail, clients
<1> QED
  BY <1>2 DEF IInv, Fail, Wire, Flight, NoStalledQueue, RetryArmed, RetryOnlyDown

LEMMA StepKeepAlive ==
    ASSUME IInv, KeepAliveDue \/ RunKeepAlive
    PROVE  IInv'
<1>1. posted' \in Seq(Request)
  <2>1. posted \in Seq(Request) /\ Append(posted, Ping) \in Seq(Request)
    BY RequestTypes, AppendFront DEF IInv, TypeOK
  <2> QED
    BY <2>1 DEF KeepAliveDue, RunKeepAlive, KeepAlive
<1>2. /\ UNCHANGED <<link, connected, connectedOnce, queue, ops, made, answered, rejected,
                     launched>>
      /\ due' \in BOOLEAN
  BY DEF KeepAliveDue, RunKeepAlive, clients
<1>3. timer' = timer \/ (timer' \in {"Off", "KeepAlive"} /\ link # "Backoff")
  BY DEF IInv, Wire, RetryArmed, KeepAliveDue, RunKeepAlive, KeepAlive
<1>4. TypeOK'
  BY <1>1, <1>2, <1>3 DEF IInv, TypeOK
<1> QED
  BY <1>2, <1>3, <1>4 DEF IInv, Wire, Flight, Serving, NoStalledQueue, RetryArmed,
     RetryOnlyDown

LEMMA StepOnWrite ==
    ASSUME IInv, OnWrite
    PROVE  IInv'
<1>1. PICK o \in {"write", "read"} : Serving(o)
  BY DEF IInv, Flight, OnWrite
<1> DEFINE w == [op |-> o, request |-> Head(queue)]
           r == [op |-> "read", request |-> Head(queue)]
<1>2. ops = <<w>> /\ queue # <<>> /\ queue \in Seq(Request)
  BY <1>1 DEF IInv, TypeOK, Flight, OnWrite, Serving
<1>3. Head(ops) = w /\ Tail(ops) = <<>>
  BY <1>2, Singleton
<1>4. [Head(ops) EXCEPT !.op = "read"] = r
  BY <1>3
<1>5. ops' = <<r>>
  BY <1>3, <1>4, Singleton DEF OnWrite
<1>6. r \in Op
  BY <1>2, FrontAndRest, RequestTypes
<1>7. ops' \in Seq(Op) /\ ops' # <<>>
  BY <1>5, <1>6, Singleton, AppendProperties, EmptySeq
<1>8. TypeOK'
  BY <1>7 DEF IInv, TypeOK, OnWrite, clients
<1>9. Flight'
  BY <1>2, <1>5 DEF Flight, Serving, OnWrite
<1> QED
  BY <1>2, <1>7, <1>8, <1>9 DEF IInv, OnWrite, Wire, NoStalledQueue, RetryArmed,
     RetryOnlyDown

(* The front's callback is called with the response to the front.          *)
LEMMA StepOnRead ==
    ASSUME IInv, NEW body \in Body, OnRead(body)
    PROVE  IInv'
<1>1. ops # <<>> /\ ServeFront
  BY DEF OnRead
<1>2. /\ queue' \in Seq(Request)
      /\ ops' \in Seq(Op)
      /\ queue' = <<>> => ops' = <<>>
      /\ queue' # <<>> => ops' = <<[op |-> "write", request |-> Head(queue')]>>
  BY <1>1, ServeNext
<1>3. queue' # <<>> => ops' # <<>>
  BY <1>2, Singleton
<1>4. answered' \in Seq(1..MaxRequests)
  <2>1. queue \in Seq(Request) /\ queue # <<>> /\ answered \in Seq(1..MaxRequests)
    BY <1>1 DEF IInv, TypeOK, Flight
  <2>2. Head(queue).kind \in Snapshot => Head(queue).id \in 1..MaxRequests
    BY <2>1, FrontAndRest, RequestTypes
  <2>3. CASE Head(queue).kind \in Snapshot
    <3>1. Append(answered, Head(queue).id) \in Seq(1..MaxRequests)
      BY <2>1, <2>2, <2>3, AppendFront
    <3> QED
      BY <3>1, <2>3, <1>1 DEF ServeFront, Answer
  <2>4. CASE Head(queue).kind \notin Snapshot
    BY <2>1, <2>4, <1>1 DEF ServeFront, Answer
  <2> QED
    BY <2>3, <2>4
<1>5. launched' \in BOOLEAN
  BY <1>1 DEF ServeFront, Answer, IInv, TypeOK
<1>6. TypeOK'
  BY <1>2, <1>4, <1>5 DEF IInv, TypeOK, OnRead
<1>7. Flight'
  BY <1>2 DEF Flight, Serving
<1>8. NoStalledQueue'
  BY <1>3 DEF NoStalledQueue
<1>9. Wire'
  BY DEF IInv, Wire, OnRead
<1> QED
  BY <1>6, <1>7, <1>8, <1>9 DEF IInv, OnRead, RetryArmed, RetryOnlyDown

LEMMA StepOnReadThrows ==
    ASSUME IInv, NEW body \in Body, OnReadThrows(body)
    PROVE  IInv'
<1>1. TypeOK'
  BY DEF IInv, TypeOK, OnReadThrows, clients
<1> QED
  BY <1>1 DEF IInv, OnReadThrows, Wire, Flight, Serving, NoStalledQueue, RetryArmed,
     RetryOnlyDown

-----------------------------------------------------------------------------
LEMMA StepPreserves == IInv /\ [Next]_vars => IInv'
<1> SUFFICES ASSUME IInv, [Next]_vars PROVE IInv'
  OBVIOUS
<1>1. CASE \E kind \in Snapshot : GetSnapshot(kind)
  BY <1>1, StepGetSnapshot
<1>2. CASE RunPosted
  BY <1>2, StepRunPosted
<1>3. CASE OnResolve \/ OnConnect \/ OnRetryTimer
  BY <1>3, StepConnecting
<1>4. CASE OnHandshake
  BY <1>4, StepOnHandshake
<1>5. CASE (\E fatal \in BOOLEAN : ConnectFails(fatal)) \/ OperationFails
  BY <1>5, StepFail DEF ConnectFails, OperationFails
<1>6. CASE KeepAliveDue \/ RunKeepAlive
  BY <1>6, StepKeepAlive
<1>7. CASE OnWrite
  BY <1>7, StepOnWrite
<1>8. CASE \E body \in Body : OnRead(body)
  BY <1>8, StepOnRead
<1>9. CASE \E body \in Body : OnReadThrows(body)
  BY <1>9, StepOnReadThrows
<1>10. CASE UNCHANGED vars
  BY <1>10 DEF vars, clients, IInv, TypeOK, Wire, Flight, Serving, NoStalledQueue,
     RetryArmed, RetryOnlyDown
<1> QED
  BY <1>1, <1>2, <1>3, <1>4, <1>5, <1>6, <1>7, <1>8, <1>9, <1>10 DEF Next

(* The inductive invariant holds in every reachable state of the client.   *)
THEOREM Invariant == Spec => []IInv
<1> QED BY InitEstablishes, StepPreserves, PTL DEF Spec

(* The variables of the client keep their types.                           *)
THEOREM TypeCorrect == Spec => []TypeOK
<1>1. IInv => TypeOK
  BY DEF IInv
<1> QED BY <1>1, Invariant, PTL

(* One operation at a time on the stream, and for the front of the queue:  *)
(* on_read hands a response to the request it answers.                     *)
THEOREM ResponseForFront == Spec => []OneOperationForFront
<1>1. IInv => OneOperationForFront
  <2> SUFFICES ASSUME Flight PROVE OneOperationForFront
    BY DEF IInv
  <2>1. CASE ops = <<>>
    BY <2>1, EmptySeq DEF OneOperationForFront
  <2>2. CASE queue # <<>> /\ \E o \in {"write", "read"} : Serving(o)
    BY <2>2, Singleton DEF OneOperationForFront, Serving
  <2> QED
    BY <2>1, <2>2 DEF Flight
<1> QED BY <1>1, Invariant, PTL

(* No path through launch_request, on_handshake and on_read forgets to     *)
(* start the next request.                                                 *)
THEOREM NothingStalls == Spec => []NoStalledQueue
<1>1. IInv => NoStalledQueue
  BY DEF IInv
<1> QED BY <1>1, Invariant, PTL

(* The keep-alive never takes m_timer from a client that waits to retry.   *)
THEOREM RetryStaysArmed == Spec => []RetryArmed
<1>1. IInv => RetryArmed
  BY DEF IInv
<1> QED BY <1>1, Invariant, PTL

-----------------------------------------------------------------------------
(* RestClient implements SnapshotService.                                  *)
(*                                                                         *)
(* A response finds its caller by its position in the queue, so the order  *)
(* of the queue, and of what is posted and will join it, is the order of   *)
(* the ids.  Pings and the instrument list may stand between the           *)
(* snapshots: the invariant speaks of pairs of snapshots, not of places.   *)

Snap(r) == r.kind \in Snapshot

(* The ids of the snapshots in a sequence of requests, and their order.    *)
Ids(s) == {s[i].id : i \in {i \in DOMAIN s : Snap(s[i])}}
Increasing(s) ==
    \A i, j \in DOMAIN s : i < j /\ Snap(s[i]) /\ Snap(s[j]) => s[i].id < s[j].id

(* What is posted joins the queue behind what is there, and what waits is  *)
(* in one of the two.                                                      *)
Lined(q, p, waits) ==
    /\ Increasing(q)
    /\ Increasing(p)
    /\ \A a \in Ids(q), b \in Ids(p) : a < b
    /\ waits = Ids(q) \cup Ids(p)

(* Nothing is answered or turned away before it is asked for.              *)
Asked ==
    /\ \A i \in DOMAIN answered : answered[i] <= made
    /\ \A id \in rejected : id <= made

Ordered == Lined(queue, posted, Service!Waiting) /\ Asked

-----------------------------------------------------------------------------
(* Elements of longer and shorter sequences.                               *)
LEMMA AppendElements ==
    ASSUME NEW S, NEW s \in Seq(S), NEW e \in S
    PROVE  /\ Len(s) \in Nat /\ DOMAIN s = 1..Len(s)
           /\ DOMAIN Append(s, e) = 1..(Len(s) + 1)
           /\ \A i \in 1..Len(s) : Append(s, e)[i] = s[i]
           /\ Append(s, e)[Len(s) + 1] = e
BY AppendProperties, LenProperties

LEMMA TailElements ==
    ASSUME NEW S, NEW s \in Seq(S), s # <<>>
    PROVE  /\ Len(s) \in Nat /\ 1 <= Len(s) /\ DOMAIN s = 1..Len(s)
           /\ Head(s) = s[1]
           /\ DOMAIN Tail(s) = 1..(Len(s) - 1)
           /\ \A i \in 1..(Len(s) - 1) : Tail(s)[i] = s[i + 1]
BY HeadTailProperties, LenProperties, EmptySeq

(* A request at the back of a sequence: after all, if it is a snapshot.    *)
LEMMA AppendIncreasing ==
    ASSUME NEW s \in Seq(Request), NEW r \in Request, Increasing(s),
           Snap(r) => \A id \in Ids(s) : id < r.id
    PROVE  /\ Increasing(Append(s, r))
           /\ Ids(Append(s, r)) = Ids(s) \cup (IF Snap(r) THEN {r.id} ELSE {})
<1> DEFINE a == Append(s, r)
           n == Len(s)
<1>1. /\ n \in Nat /\ DOMAIN s = 1..n /\ DOMAIN a = 1..(n + 1)
      /\ \A i \in 1..n : a[i] = s[i]
      /\ a[n + 1] = r
  BY AppendElements
<1> HIDE DEF a, n
<1>2. \A i \in DOMAIN a : (i \in DOMAIN s /\ a[i] = s[i]) \/ (i = n + 1 /\ a[i] = r)
  BY <1>1
<1>3. ASSUME NEW i \in DOMAIN a, NEW j \in DOMAIN a, i < j, Snap(a[i]), Snap(a[j])
      PROVE  a[i].id < a[j].id
  <2>1. i \in DOMAIN s /\ a[i] = s[i]
    BY <1>1, <1>3
  <2>2. CASE j \in DOMAIN s /\ a[j] = s[j]
    BY <1>3, <2>1, <2>2 DEF Increasing
  <2>3. CASE j = n + 1 /\ a[j] = r
    <3>1. a[i].id \in Ids(s)
      BY <1>3, <2>1 DEF Ids
    <3> QED
      BY <1>3, <2>3, <3>1
  <2> QED
    BY <1>2, <2>2, <2>3
<1>4. Ids(a) = Ids(s) \cup (IF Snap(r) THEN {r.id} ELSE {})
  <2>1. ASSUME NEW id \in Ids(a) PROVE id \in Ids(s) \/ (Snap(r) /\ id = r.id)
    BY <1>2, <2>1 DEF Ids
  <2>2. Ids(s) \subseteq Ids(a)
    BY <1>1 DEF Ids
  <2>3. Snap(r) => r.id \in Ids(a)
    BY <1>1 DEF Ids
  <2> QED
    BY <2>1, <2>2, <2>3
<1> QED
  BY <1>3, <1>4 DEF a, Increasing

(* Without its front: the front came before all, if it is a snapshot.      *)
LEMMA TailIncreasing ==
    ASSUME NEW s \in Seq(Request), s # <<>>, Increasing(s)
    PROVE  /\ Increasing(Tail(s))
           /\ Ids(s) = Ids(Tail(s)) \cup (IF Snap(Head(s)) THEN {Head(s).id} ELSE {})
           /\ Snap(Head(s)) => \A id \in Ids(Tail(s)) : Head(s).id < id
<1> DEFINE t == Tail(s)
           n == Len(s)
<1>1. /\ n \in Nat /\ 1 <= n /\ DOMAIN s = 1..n /\ DOMAIN t = 1..(n - 1)
      /\ Head(s) = s[1]
      /\ \A i \in 1..(n - 1) : t[i] = s[i + 1]
  BY TailElements
<1> HIDE DEF t, n
<1>2. \A i \in DOMAIN t : i + 1 \in DOMAIN s /\ 1 < i + 1 /\ t[i] = s[i + 1]
  BY <1>1
<1>3. \A i \in DOMAIN s : i = 1 \/ (i - 1 \in DOMAIN t /\ t[i - 1] = s[i])
  BY <1>1
<1>4. Increasing(t)
  <2> SUFFICES ASSUME NEW i \in DOMAIN t, NEW j \in DOMAIN t, i < j, Snap(t[i]), Snap(t[j])
               PROVE  t[i].id < t[j].id
    BY DEF Increasing
  <2>1. i + 1 < j + 1
    BY <1>1
  <2> QED
    BY <1>2, <2>1 DEF Increasing
<1>5. Ids(s) = Ids(t) \cup (IF Snap(Head(s)) THEN {Head(s).id} ELSE {})
  <2>1. ASSUME NEW id \in Ids(s) PROVE id \in Ids(t) \/ (Snap(Head(s)) /\ id = Head(s).id)
    BY <1>1, <1>3, <2>1 DEF Ids
  <2>2. Ids(t) \subseteq Ids(s)
    BY <1>2 DEF Ids
  <2>3. Snap(Head(s)) => Head(s).id \in Ids(s)
    BY <1>1 DEF Ids
  <2> QED
    BY <2>1, <2>2, <2>3
<1>6. Snap(Head(s)) => \A id \in Ids(t) : Head(s).id < id
  <2> SUFFICES ASSUME Snap(Head(s)), NEW i \in DOMAIN t, Snap(t[i])
               PROVE  Head(s).id < t[i].id
    BY DEF Ids
  <2> QED
    BY <1>1, <1>2 DEF Increasing
<1> QED
  BY <1>4, <1>5, <1>6 DEF t
-----------------------------------------------------------------------------
(* The steps, by what the callers see of them.                             *)

LEMMA WaitingAsked == Service!Waiting \subseteq 1..made
BY DEF Service!Waiting

LEMMA InitOrdered == Init => Ordered /\ Service!Init
<1> SUFFICES ASSUME Init PROVE Ordered /\ Service!Init
  OBVIOUS
<1>1. queue = <<>> /\ posted = <<>> /\ made = 0 /\ answered = <<>> /\ rejected = {}
  BY DEF Init
<1>2. Service!Waiting = {}
  BY <1>1 DEF Service!Waiting
<1>3. Ids(<<>>) = {} /\ Increasing(<<>>)
  BY EmptySeq DEF Ids, Increasing
<1> QED
  BY <1>1, <1>2, <1>3, EmptySeq DEF Ordered, Lined, Asked, Service!Init

(* Pings and the instrument list are none of the callers' business.        *)
LEMMA StepQuiet ==
    ASSUME IInv, Ordered, UNCHANGED <<queue, made, answered, rejected>>,
           NEW r \in {Ping, ExchangeInfo}, posted' = posted \/ posted' = Append(posted, r)
    PROVE  Ordered' /\ UNCHANGED Service!vars
<1>1. Service!Waiting' = Service!Waiting
  BY DEF Service!Waiting
<1>2. ~Snap(r) /\ r \in Request
  BY RequestTypes DEF Snap, Snapshot, Ping, ExchangeInfo
<1>3. posted \in Seq(Request) /\ Increasing(posted)
  BY DEF IInv, TypeOK, Ordered, Lined
<1>4. Increasing(posted') /\ Ids(posted') = Ids(posted)
  BY <1>2, <1>3, AppendIncreasing
<1> QED
  BY <1>1, <1>4 DEF Ordered, Lined, Asked, Service!vars

(* A new snapshot is turned away, or posted behind all that wait.          *)
LEMMA StepAsk ==
    ASSUME IInv, Ordered, NEW kind \in Snapshot, GetSnapshot(kind)
    PROVE  Ordered' /\ Service!Ask
<1> DEFINE r == [kind |-> kind, id |-> made + 1]
<1>1. /\ made \in Nat /\ made' = made + 1 /\ made' \in 1..MaxRequests
      /\ queue' = queue /\ answered' = answered
      /\ answered \in Seq(1..MaxRequests) /\ posted \in Seq(Request)
  BY RequestAssumption DEF IInv, TypeOK, GetSnapshot
<1>2. Service!Ask
  BY <1>1 DEF GetSnapshot, Service!Ask
<1>3. /\ \A i \in DOMAIN answered : answered[i] \in 1..MaxRequests /\ answered[i] <= made
      /\ rejected \subseteq 1..made
  <2>1. \A i \in DOMAIN answered : answered[i] \in 1..MaxRequests
    BY <1>1, ElementOfSeq, LenProperties
  <2>2. rejected \in SUBSET (1..MaxRequests)
    BY DEF IInv, TypeOK
  <2> QED
    BY <2>1, <2>2 DEF Ordered, Asked
<1>4. /\ \A i \in DOMAIN answered : answered[i] # made + 1
      /\ made + 1 \notin rejected
  BY <1>1, <1>3
<1>5. Asked'
  <2>1. rejected' \in {rejected, rejected \cup {made + 1}}
    BY <1>1 DEF GetSnapshot
  <2>2. \A id \in rejected' : id <= made + 1
    BY <1>1, <1>3, <2>1, made + 1 \in 1..(made + 1)
  <2>3. \A i \in DOMAIN answered : answered[i] <= made + 1
    BY <1>1, <1>3
  <2> QED
    BY <1>1, <2>2, <2>3 DEF Asked
<1>6. CASE ~connected
  <2>1. rejected' = rejected \cup {made + 1} /\ posted' = posted
    BY <1>1, <1>6 DEF GetSnapshot
  <2>2. Service!Waiting' = Service!Waiting
    BY <1>1, <2>1 DEF Service!Waiting
  <2> QED
    BY <1>1, <1>2, <1>5, <2>1, <2>2 DEF Ordered
<1>7. CASE connected
  <2>1. rejected' = rejected /\ posted' = Append(posted, r)
    BY <1>1, <1>7 DEF GetSnapshot
  <2>2. Service!Waiting' = Service!Waiting \cup {made + 1}
    BY <1>1, <1>4, <2>1 DEF Service!Waiting
  <2>3. r \in Request /\ Snap(r) /\ r.id = made + 1
    BY <1>1, RequestTypes DEF Snap
  <2>4. \A id \in Ids(queue) \cup Ids(posted) : id < made + 1
    BY <1>1, WaitingAsked DEF Ordered, Lined
  <2>5. Increasing(posted') /\ Ids(posted') = Ids(posted) \cup {made + 1}
    BY <1>1, <2>1, <2>3, <2>4, AppendIncreasing DEF Ordered, Lined
  <2>6. Lined(queue, posted', Service!Waiting')
    BY <2>2, <2>4, <2>5 DEF Ordered, Lined
  <2> QED
    BY <1>1, <1>2, <1>5, <2>6 DEF Ordered
<1> QED
  BY <1>6, <1>7

(* What is posted first joins the queue last.                              *)
LEMMA StepJoin ==
    ASSUME IInv, Ordered, RunPosted
    PROVE  Ordered' /\ UNCHANGED Service!vars
<1> DEFINE r == Head(posted)
<1>1. /\ posted \in Seq(Request) /\ posted # <<>> /\ queue \in Seq(Request)
      /\ Increasing(posted) /\ Increasing(queue)
      /\ \A a \in Ids(queue), b \in Ids(posted) : a < b
      /\ Service!Waiting = Ids(queue) \cup Ids(posted)
  BY DEF IInv, TypeOK, Ordered, Lined, RunPosted
<1>2. /\ queue' = Append(queue, r) /\ posted' = Tail(posted)
      /\ UNCHANGED <<made, answered, rejected>>
  BY DEF RunPosted, clients
<1>3. r \in Request
  BY <1>1, FrontAndRest
<1>4. /\ Increasing(posted')
      /\ Ids(posted) = Ids(posted') \cup (IF Snap(r) THEN {r.id} ELSE {})
      /\ Snap(r) => \A id \in Ids(posted') : r.id < id
  BY <1>1, <1>2, TailIncreasing
<1>5. Snap(r) => \A id \in Ids(queue) : id < r.id
  BY <1>1, <1>4
<1>6. /\ Increasing(queue')
      /\ Ids(queue') = Ids(queue) \cup (IF Snap(r) THEN {r.id} ELSE {})
  BY <1>1, <1>2, <1>3, <1>5, AppendIncreasing
<1>7. \A a \in Ids(queue'), b \in Ids(posted') : a < b
  BY <1>1, <1>4, <1>6
<1>8. Service!Waiting' = Ids(queue') \cup Ids(posted')
  <2>1. Service!Waiting' = Service!Waiting
    BY <1>2 DEF Service!Waiting
  <2> QED
    BY <1>1, <1>4, <1>6, <2>1
<1> QED
  BY <1>2, <1>4, <1>6, <1>7, <1>8 DEF Ordered, Lined, Asked, Service!vars

(* A response answers the front: the first of all that wait, if it is a    *)
(* snapshot.                                                               *)
LEMMA StepServe ==
    ASSUME IInv, Ordered, NEW body \in Body, OnRead(body)
    PROVE  Ordered' /\ [Service!Next]_Service!vars
<1> DEFINE r == Head(queue)
<1>1. /\ queue \in Seq(Request) /\ queue # <<>> /\ answered \in Seq(1..MaxRequests)
      /\ Increasing(posted) /\ Increasing(queue)
      /\ \A a \in Ids(queue), b \in Ids(posted) : a < b
      /\ Service!Waiting = Ids(queue) \cup Ids(posted)
  BY DEF IInv, TypeOK, Flight, Ordered, Lined, OnRead
<1>2. /\ queue' = Tail(queue) /\ UNCHANGED <<posted, made, rejected>>
      /\ answered' = IF Snap(r) THEN Append(answered, r.id) ELSE answered
  BY DEF OnRead, ServeFront, Answer, Snap
<1>3. /\ Increasing(queue')
      /\ Ids(queue) = Ids(queue') \cup (IF Snap(r) THEN {r.id} ELSE {})
      /\ Snap(r) => \A id \in Ids(queue') : r.id < id
  BY <1>1, <1>2, TailIncreasing
<1>4. CASE ~Snap(r)
  <2>1. UNCHANGED <<made, answered, rejected>>
    BY <1>2, <1>4
  <2>2. Service!Waiting' = Service!Waiting
    BY <2>1 DEF Service!Waiting
  <2> QED
    BY <1>1, <1>2, <1>3, <1>4, <2>1, <2>2 DEF Ordered, Lined, Asked, Service!vars
<1>5. CASE Snap(r)
  <2>1. r.id \in Service!Waiting
    BY <1>1, <1>3, <1>5
  <2>2. r.id \in 1..MaxRequests /\ made \in Nat /\ r.id <= made
    <3>1. made \in 0..MaxRequests
      BY DEF IInv, TypeOK
    <3>2. r.id \in 1..made
      BY <2>1, WaitingAsked
    <3> HIDE DEF r
    <3> QED
      BY <3>1, <3>2, RequestAssumption
  <2>3. \A other \in Service!Waiting : other = r.id \/ r.id < other
    BY <1>1, <1>3, <1>5
  <2>4. Service!Answer(r.id)
    <3>1. \A other \in Service!Waiting : other \in 1..made
      BY WaitingAsked
    <3>2. \A other \in Service!Waiting : r.id <= other
      BY <2>2, <2>3, <3>1
    <3> QED
      BY <1>2, <1>5, <2>1, <3>2 DEF Service!Answer
  <2>5. Service!Waiting' = Service!Waiting \ {r.id}
    <3>1. /\ DOMAIN answered = 1..Len(answered) /\ Len(answered) \in Nat
          /\ DOMAIN answered' = 1..(Len(answered) + 1)
          /\ \A i \in 1..Len(answered) : answered'[i] = answered[i]
          /\ answered'[Len(answered) + 1] = r.id
      BY <1>1, <1>2, <1>5, <2>2, AppendElements
    <3>2. \A id : (\A i \in DOMAIN answered' : answered'[i] # id)
                     <=> id # r.id /\ (\A i \in DOMAIN answered : answered[i] # id)
      BY <3>1
    <3>3. made' = made /\ rejected' = rejected
      BY <1>2
    <3> HIDE DEF r
    <3> QED
      BY <3>2, <3>3 DEF Service!Waiting
  <2>6. r.id \notin Ids(queue') /\ r.id \notin Ids(posted)
    BY <1>1, <1>3, <1>5, <2>2
  <2>7. Service!Waiting' = Ids(queue') \cup Ids(posted)
    BY <1>1, <1>3, <1>5, <2>5, <2>6
  <2>8. Asked'
    BY <1>1, <1>2, <1>5, <2>2 DEF Ordered, Asked
  <2>9. Ordered'
    BY <1>1, <1>2, <1>3, <2>7, <2>8 DEF Ordered, Lined
  <2> QED
    BY <2>1, <2>4, <2>9 DEF Service!Next
<1> QED
  BY <1>4, <1>5
-----------------------------------------------------------------------------
LEMMA StepOrdered ==
    IInv /\ Ordered /\ [Next]_vars => Ordered' /\ [Service!Next]_Service!vars
<1> SUFFICES ASSUME IInv, Ordered, [Next]_vars
             PROVE  Ordered' /\ [Service!Next]_Service!vars
  OBVIOUS
<1>1. CASE \E kind \in Snapshot : GetSnapshot(kind)
  BY <1>1, StepAsk DEF Service!Next
<1>2. CASE RunPosted
  BY <1>2, StepJoin
<1>3. CASE \E body \in Body : OnRead(body)
  BY <1>3, StepServe
<1>4. CASE OnHandshake
  <2>1. /\ UNCHANGED <<queue, made, answered, rejected>>
        /\ posted' = posted \/ posted' = Append(posted, ExchangeInfo)
    BY <1>4 DEF OnHandshake, clients
  <2> QED
    BY <2>1, StepQuiet
<1>5. CASE RunKeepAlive
  <2>1. /\ UNCHANGED <<queue, made, answered, rejected>>
        /\ posted' = posted \/ posted' = Append(posted, Ping)
    BY <1>5 DEF RunKeepAlive, KeepAlive, clients
  <2> QED
    BY <2>1, StepQuiet
<1>6. CASE UNCHANGED <<posted, queue, made, answered, rejected>>
  BY <1>6, StepQuiet
<1>7. UNCHANGED <<posted, queue, made, answered, rejected>>
        \/ (\E kind \in Snapshot : GetSnapshot(kind)) \/ RunPosted
        \/ (\E body \in Body : OnRead(body)) \/ OnHandshake \/ RunKeepAlive
  BY DEF Next, vars, clients, OnResolve, OnConnect, ConnectStep, ConnectFails, OperationFails,
     Fail, OnRetryTimer, KeepAliveDue, OnWrite, OnReadThrows
<1> QED
  BY <1>1, <1>2, <1>3, <1>4, <1>5, <1>6, <1>7

(* The client implements the service: whatever the network and the         *)
(* exchange do, its callers see snapshots turned away at once or answered  *)
(* in their turn, and no other step.                                       *)
THEOREM Implements == Spec => ImplementsService
<1>1. Init => Ordered /\ Service!Init
  BY InitOrdered
<1>2. IInv /\ Ordered /\ [Next]_vars => Ordered' /\ [Service!Next]_Service!vars
  BY StepOrdered
<1> QED
  BY <1>1, <1>2, Invariant, PTL DEF Spec, ImplementsService, Service!Spec

(* Nobody waits for nothing, the safety half of EverySnapshotAnswered: a   *)
(* caller who waits is in the queue or on the way there, and a queue that  *)
(* is not served belongs to a client that connects or will try again.      *)
SomebodyServes ==
    Service!Waiting # {} =>
        \/ posted # <<>>
        \/ ops # <<>>
        \/ link \in Connecting
        \/ link = "Backoff" /\ timer = "Retry"
        \/ ~Running

THEOREM WaitingIsServed == Spec => []SomebodyServes
<1>1. IInv /\ Ordered => SomebodyServes
  <2> SUFFICES ASSUME IInv, Ordered, Service!Waiting # {}, posted = <<>>,
                      link \notin Connecting, Running
               PROVE  ops # <<>> \/ (link = "Backoff" /\ timer = "Retry")
    BY DEF SomebodyServes
  <2>1. Ids(posted) = {}
    BY EmptySeq DEF Ids
  <2>2. Ids(queue) # {}
    BY <2>1 DEF Ordered, Lined
  <2>3. queue # <<>>
    BY <2>2, EmptySeq DEF Ids
  <2>4. link \in {"Open", "Backoff"}
    BY DEF IInv, TypeOK, Running
  <2> QED
    BY <2>3, <2>4 DEF IInv, NoStalledQueue, RetryArmed
<1>2. Init => Ordered
  BY InitOrdered
<1>3. IInv /\ Ordered /\ [Next]_vars => Ordered'
  BY StepOrdered
<1> QED
  BY <1>1, <1>2, <1>3, Invariant, PTL DEF Spec
=============================================================================
