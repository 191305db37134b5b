------------------------------ MODULE ReqResp ------------------------------
(***************************************************************************)
(* Requests to the gateway from the topic to the last response: the        *)
(* consumption loop and the commit of offsets, the book of pending         *)
(* requests (src/MiddleWare/Interface.cpp), the request router             *)
(* (src/CrazyRouters.hpp), the handlers (PlatformComm.cpp, Binance.cpp)    *)
(* and the REST client, for which SnapshotService stands.                  *)
(*                                                                         *)
(* Three threads: the loop pushes records to the worker, the worker        *)
(* handles them, the io thread delivers the exchange's answers.  The book  *)
(* and the router's ids are shared by the last two without a lock; each    *)
(* access is taken to be atomic.  A record stands for its number in the    *)
(* log, so that two requests with one id remain two.                       *)
(*                                                                         *)
(* Outside src/: Kafka, which keeps the committed offset, and the clients, *)
(* which choose ids and reuse them as they like.  Requests are well formed;*)
(* one of kind "unknown" asks for a price type or a service there is not.  *)
(***************************************************************************)
EXTENDS Integers, Sequences, Functions

CONSTANTS
    Requests,   \* what clients may send: a set of [id, client, kind]
    MaxSent,    \* bound: requests sent
    MaxCrashes  \* bound: times the process dies and is started again

Kind   == {"ping", "price", "instruments", "unknown"}
Record == 1..MaxSent

ASSUME BoundAssumption   == MaxSent \in Nat /\ MaxCrashes \in Nat
ASSUME RequestAssumption == \A r \in Requests : {"id", "client", "kind"} = DOMAIN r /\ r.kind \in Kind

VARIABLES
    log,        \* the topic: requests in the order sent
    polled,     \* records the loop has pushed to the worker
    committed,  \* the offset Kafka has
    worker,     \* the worker's queue
    book,       \* pendingRequestBook: by id, the record booked
    pending,    \* m_pendingreqIds of the router
    asked,      \* records for which the REST client was asked a snapshot
    answered,   \* ... what it has answered and turned away, as
    rejected,   \*     positions in asked
    io,         \* what the io thread does, and for which record
    lasts,      \* last responses sent, per record, since it was last read
    fate,       \* what became of a record that was not answered
    crashes

kafka  == <<log, polled, committed>>
books  == <<book, pending>>
rest   == <<asked, answered, rejected>>
result == <<lasts, fate>>
vars   == <<kafka, worker, books, rest, io, result, crashes>>

Service == INSTANCE SnapshotService WITH made <- Len(asked)

Idle == [step |-> "Idle", record |-> 0]

Without(f, id) == Restrict(f, DOMAIN f \ {id})
Book(id, n)    == [i \in DOMAIN book \cup {id} |-> IF i = id THEN n ELSE book[i]]

-----------------------------------------------------------------------------
(* The clients and the consumption loop.                                   *)

(* requestFunc of a client, or a retry of it.                              *)
Send(request) ==
    /\ Len(log) < MaxSent
    /\ log' = Append(log, request)
    /\ UNCHANGED <<polled, committed, worker, books, rest, io, result, crashes>>

Poll ==
    /\ polled < Len(log)
    /\ polled' = polled + 1
    /\ worker' = Append(worker, polled')
    /\ UNCHANGED <<log, committed, books, rest, io, result, crashes>>

(* Faulty variant for mutation testing: the offset of the next record is   *)
(* committed one too far.                                                  *)
CommitNext == polled + 1

Offset == polled

(* commitAsync after a batch: it does not ask whether the worker has run   *)
(* what was pushed.                                                        *)
Commit ==
    /\ committed < polled
    /\ committed' = Offset
    /\ UNCHANGED <<log, polled, worker, books, rest, io, result, crashes>>

-----------------------------------------------------------------------------
(* The worker: handleRequest and the handlers.                             *)

Turn(n, how) == fate' = [fate EXCEPT ![n] = how] /\ UNCHANGED lasts
SendLast(n)  == lasts' = [lasts EXCEPT ![n] = @ + 1] /\ UNCHANGED fate

Booked(n) == log[n].id \in DOMAIN book
Routed(n) == log[n].id \in pending

(* An id found in a book is a duplicate of a request that waits, or the    *)
(* io thread has sent its last response and not yet taken it out.          *)
Dropped(n) == IF Booked(n) /\ lasts[book[log[n].id]] = 0 THEN "Duplicate" ELSE "Overtaken"

(* The id is booked: an error is reported, the record dropped.             *)
Refuse(n) ==
    /\ Booked(n)
    /\ Turn(n, Dropped(n))
    /\ UNCHANGED <<books, rest>>

(* handleSpecialRequest: a pong, and nothing is booked.                    *)
Pong(n) ==
    /\ ~Booked(n)
    /\ log[n].kind = "ping"
    /\ SendLast(n)
    /\ UNCHANGED <<books, rest>>

(* Booked and never answered: the request handler passes over it, or the   *)
(* router returns false, which nobody looks at.                            *)
BookInVain(n) ==
    /\ ~Booked(n)
    /\ \/ log[n].kind = "unknown" /\ Turn(n, "Unknown")
       \/ log[n].kind \in {"price", "instruments"} /\ Routed(n) /\ Turn(n, "Overtaken")
    /\ book' = Book(log[n].id, n)
    /\ UNCHANGED <<pending, rest>>

(* Every record of the list and the last response, sent by the responder   *)
(* before request() returns: booked and routed no more when it does.       *)
ListInstruments(n) ==
    /\ ~Booked(n) /\ ~Routed(n)
    /\ log[n].kind = "instruments"
    /\ SendLast(n)
    /\ UNCHANGED <<books, rest>>

(* Faulty variant for mutation testing: the empty snapshot is not the last *)
(* response.                                                               *)
NullNotLast(n) ==
    /\ book' = Book(log[n].id, n)
    /\ pending' = pending \cup {log[n].id}
    /\ UNCHANGED result

(* A client that is down answers at once, with no snapshot.                *)
NullSnapShot(n) == SendLast(n) /\ UNCHANGED books

(* Faulty variant for mutation testing: the router does not note the id.   *)
WaitUnrouted(n) == book' = Book(log[n].id, n) /\ UNCHANGED <<pending, result>>

(* The request waits for the exchange.                                     *)
Wait(n) ==
    /\ book' = Book(log[n].id, n)
    /\ pending' = pending \cup {log[n].id}
    /\ UNCHANGED result

(* Faulty variant for mutation testing: an id that is booked is booked     *)
(* again.                                                                  *)
BookAgain(n) ==
    /\ log[n].kind = "price"
    /\ asked' = Append(asked, n)
    /\ Service!Ask
    /\ IF Len(asked') \in rejected' THEN NullSnapShot(n) ELSE Wait(n)

(* handlePriceRequest, through the router to getDepth or getRecentTrades.  *)
GetPrice(n) ==
    /\ ~Booked(n) /\ ~Routed(n)
    /\ log[n].kind = "price"
    /\ asked' = Append(asked, n)
    /\ Service!Ask
    /\ IF Len(asked') \in rejected' THEN NullSnapShot(n) ELSE Wait(n)

HandleRequest(n) ==
    \/ Refuse(n)
    \/ Pong(n)
    \/ BookInVain(n)
    \/ ListInstruments(n)
    \/ GetPrice(n)

RunWorker ==
    /\ worker # <<>>
    /\ worker' = Tail(worker)
    /\ HandleRequest(Head(worker))
    /\ UNCHANGED <<kafka, io, crashes>>

-----------------------------------------------------------------------------
(* The io thread: the router's response handler around respond().          *)

(* The exchange answers, and the router finds the id.                      *)
OnAnswer ==
    /\ io = Idle
    /\ UNCHANGED <<kafka, worker, books, asked, result, crashes>>
    /\ \E k \in Service!Waiting :
          /\ Service!Answer(k)
          /\ io' = IF Routed(asked[k]) THEN [step |-> "Respond", record |-> asked[k]] ELSE Idle

(* respond: the topic is the one booked under the id, which an error       *)
(* reports when there is none.                                             *)
Respond ==
    /\ io.step = "Respond"
    /\ IF Booked(io.record)
       THEN /\ SendLast(book[log[io.record].id])
            /\ io' = [io EXCEPT !.step = "Unbook"]
       ELSE /\ io' = [io EXCEPT !.step = "Unroute"]
            /\ UNCHANGED result
    /\ UNCHANGED <<kafka, worker, books, rest, crashes>>

Unbook ==
    /\ io.step = "Unbook"
    /\ book' = Without(book, log[io.record].id)
    /\ io' = [io EXCEPT !.step = "Unroute"]
    /\ UNCHANGED <<kafka, worker, pending, rest, result, crashes>>

(* Faulty variant for mutation testing: the router keeps the id.           *)
KeepRouted == pending' = pending

Forget == pending' = pending \ {log[io.record].id}

Unroute ==
    /\ io.step = "Unroute"
    /\ Forget
    /\ io' = Idle
    /\ UNCHANGED <<kafka, worker, book, rest, result, crashes>>

-----------------------------------------------------------------------------
(* The process dies and is started again at the committed offset: what was *)
(* committed and not answered is lost, what was not is read again and, if  *)
(* it had been answered, answered again.                                   *)
Crash ==
    /\ crashes < MaxCrashes
    /\ crashes' = crashes + 1
    /\ polled' = committed
    /\ worker' = <<>>
    /\ book' = <<>> /\ pending' = {}
    /\ asked' = <<>> /\ answered' = <<>> /\ rejected' = {}
    /\ io' = Idle
    /\ fate' = [n \in Record |-> CASE n > committed -> "Open"
                                   [] n <= committed /\ fate[n] = "Open" /\ lasts[n] = 0 -> "Lost"
                                   [] OTHER -> fate[n]]
    /\ lasts' = [n \in Record |-> IF n > committed THEN 0 ELSE lasts[n]]
    /\ UNCHANGED <<log, committed>>

Init ==
    /\ log = <<>> /\ polled = 0 /\ committed = 0
    /\ worker = <<>>
    /\ book = <<>> /\ pending = {}
    /\ asked = <<>> /\ Service!Init
    /\ io = Idle
    /\ lasts = [n \in Record |-> 0]
    /\ fate = [n \in Record |-> "Open"]
    /\ crashes = 0

Next ==
    \/ \E request \in Requests : Send(request)
    \/ Poll
    \/ Commit
    \/ RunWorker
    \/ OnAnswer
    \/ Respond
    \/ Unbook
    \/ Unroute
    \/ Crash

Spec == Init /\ [][Next]_vars

(* The loop polls, the worker and the io thread run.  That the exchange's  *)
(* answer comes is what RestClient promises (EverySnapshotAnswered).       *)
Fairness ==
    /\ WF_vars(Poll)
    /\ WF_vars(RunWorker)
    /\ WF_vars(OnAnswer)
    /\ WF_vars(Respond)
    /\ WF_vars(Unbook)
    /\ WF_vars(Unroute)

FairSpec == Spec /\ Fairness

-----------------------------------------------------------------------------
(* Types.                                                                  *)
TypeOK ==
    /\ log \in Seq(Requests)
    /\ polled \in 0..Len(log) /\ committed \in 0..Len(log)
    /\ worker \in Seq(Record)
    /\ DOMAIN book \subseteq {r.id : r \in Requests} /\ Range(book) \subseteq Record
    /\ pending \subseteq {r.id : r \in Requests}
    /\ asked \in Seq(Record)
    /\ answered \in Seq(1..Len(asked)) /\ rejected \subseteq 1..Len(asked)
    /\ io \in [step : {"Idle", "Respond", "Unbook", "Unroute"}, record : Record \cup {0}]
    /\ lasts \in [Record -> Nat]
    /\ fate \in [Record -> {"Open", "Duplicate", "Overtaken", "Unknown", "Lost"}]
    /\ crashes \in 0..MaxCrashes

(* A snapshot goes to the client whose request it was fetched for, though  *)
(* clients share the ids and the answer is addressed by id alone; and no   *)
(* request has two last responses, unless a crash has it read again.       *)
AnswerReachesItsAsker ==
    /\ io.step = "Respond" => Booked(io.record) /\ book[log[io.record].id] = io.record
    /\ \A n \in Record : lasts[n] <= 1

(* What is booked is on its way to an answer: with the exchange, or with   *)
(* the io thread.  Only a request that nobody serves stays for good.       *)
OnItsWay(n) ==
    \/ \E k \in Service!Waiting : asked[k] = n
    \/ io.record = n
BookedIsOnItsWay ==
    \A id \in DOMAIN book : OnItsWay(book[id]) \/ fate[book[id]] \in {"Unknown", "Overtaken"}

(* A client that reuses an id after its last response is turned away only  *)
(* while the io thread is still taking that id out of book and router.     *)
OvertakenOnlyInRace ==
    [][\A n \in Record : fate[n] # "Overtaken" /\ fate'[n] = "Overtaken"
                            => io.step \in {"Unbook", "Unroute"}]_vars

(* Every request gets its last response or a known fate: a duplicate, one  *)
(* nobody serves, one that came too soon, one lost with the process.       *)
EveryRequestSettled ==
    \A n \in Record : Len(log) >= n ~> lasts[n] > 0 \/ fate[n] # "Open"
=============================================================================
