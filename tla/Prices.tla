------------------------------- MODULE Prices -------------------------------
(***************************************************************************)
(* Prices from the exchange to the clients: onPriceUpdate and the blanking *)
(* on a lost connection (src/MDGateways/Binance/Binance.cpp), the routers  *)
(* between the two sides (src/CrazyRouters.hpp), and                       *)
(* onPriceDataFromExchange (PlatformComm.cpp), which publishes to the      *)
(* topics of the book.                                                     *)
(*                                                                         *)
(* The io thread produces updates and blankings; PlatformComm's callback   *)
(* pushes them to the worker, whose queue they share with the commands.    *)
(* Commands go the other way: the worker changes the book and posts the    *)
(* subscription to the session's strand.  The key of a command is its      *)
(* symbol as the client wrote it; streams are named in lower case and      *)
(* updates are keyed in upper case.                                        *)
(*                                                                         *)
(* The session takes part as the service it implements (StreamService,     *)
(* which WSSession refines); the exchange carries what it was asked for    *)
(* with a delay.  The partitions are taken to be Operational here          *)
(* (PlatformComm).                                                         *)
(***************************************************************************)
EXTENDS Integers, SequencesExt

CONSTANTS
    Subscriptions,  \* what clients ask for: pairs of a topic and a key
    Streams,        \* streams of the exchange
    StreamOf,       \* the stream of a key; NoStream if its type is unknown
    UpdateKey,      \* the key the updates of a stream carry
    NoStream,
    MaxTasks        \* bound: tasks that wait for the worker or the strand

Keys == {s[2] : s \in Subscriptions}

ASSUME StreamAssumption == /\ NoStream \notin Streams
                           /\ StreamOf \in [Keys -> Streams \cup {NoStream}]
                           /\ DOMAIN UpdateKey = Streams
ASSUME TasksAssumption  == MaxTasks \in Nat

VARIABLES
    up,       \* the WebSocket connection is open
    live,     \* streams the session has been asked for
    asked,    \* streams the session's frames ask the exchange for
    lost,     \* streams wanted whose request the session has forgotten
    carried,  \* streams the exchange sends on this connection
    posted,   \* subscribes and unsubscribes posted to the strand
    worker,   \* the worker's queue: commands, updates, blankings
    book,     \* symbolToDestTopics, as pairs of a topic and a key
    heard,    \* the last message to each booked topic and key
    aged,     \* history: tasks at the worker that the last loss found there
    muted     \* history: see Silenced

Session == INSTANCE StreamService

session == <<up, live, asked, lost>>
io      == <<session, carried>>
vars    == <<io, posted, worker, book, heard, aged, muted>>

Command(s, isSub) == [type |-> "command", of |-> s, isSub |-> isSub]
Update(key)       == [type |-> "update", key |-> key]
Blanking          == [type |-> "blanking"]
Task == {Command(s, b) : s \in Subscriptions, b \in BOOLEAN}
           \cup {Update(UpdateKey[s]) : s \in Streams} \cup {Blanking}

Room == Len(worker) + Len(posted) < MaxTasks

-----------------------------------------------------------------------------
(* The io thread and the exchange.                                         *)

(* onPriceUpdate: the key is made of the stream's name.                    *)
OnPriceUpdate(s) ==
    /\ up /\ Room
    /\ s \in carried
    /\ worker' = Append(worker, Update(UpdateKey[s]))
    /\ UNCHANGED <<io, posted, book, heard, aged, muted>>

(* Faulty variant for mutation testing: the blanking goes ahead of the     *)
(* updates that wait.                                                      *)
BlankFirst == worker' = <<Blanking>> \o worker

BlankAll == worker' = Append(worker, Blanking)

(* History: with the connection what was heard from it becomes old, and    *)
(* what waits for the worker will be.                                      *)
GrowOld == /\ aged' = Len(worker) + 1
           /\ heard' = [s \in Subscriptions |->
                           IF heard[s] = "Price" THEN "OldPrice" ELSE heard[s]]

(* The ready callback with an error: the connection is lost, or an attempt *)
(* to connect again fails.                                                 *)
OnDisconnected ==
    /\ Room
    /\ Session!Lose
    /\ carried' = {}
    /\ BlankAll
    /\ GrowOld
    /\ UNCHANGED <<posted, book, muted>>

(* The ready callback without one, after the first connection.             *)
OnConnected ==
    /\ Session!Connect
    /\ UNCHANGED <<carried, posted, worker, book, heard, aged, muted>>

(* subscribeTrade and its siblings, on the strand.                         *)
RunPosted ==
    /\ posted # <<>>
    /\ posted' = Tail(posted)
    /\ LET request == Head(posted)
       IN  \/ request.isSub /\ Session!Subscribe(request.stream)
           \/ ~request.isSub /\ Session!Unsubscribe(request.stream)
           \/ (request.stream \in live) = request.isSub /\ UNCHANGED session
    /\ UNCHANGED <<carried, worker, book, heard, aged, muted>>

(* The session sends what waited.  A request that was lost to a race is    *)
(* sent only if the session happens to ask for its stream again.           *)
Ask(S) ==
    /\ Session!Ask(S)
    /\ UNCHANGED <<carried, posted, worker, book, heard, aged, muted>>

GiveUp(S) ==
    /\ Session!GiveUp(S)
    /\ UNCHANGED <<carried, posted, worker, book, heard, aged, muted>>

AskFor(s) == s \notin asked \cup lost /\ \E S \in SUBSET Streams : s \in S /\ Ask(S)

(* The exchange takes up and drops streams after the session's frames.     *)
Carry(s) ==
    /\ up
    /\ s \in asked \ carried
    /\ carried' = carried \cup {s}
    /\ UNCHANGED <<session, posted, worker, book, heard, aged, muted>>

Drop(s) ==
    /\ s \in carried \ asked
    /\ carried' = carried \ {s}
    /\ UNCHANGED <<session, posted, worker, book, heard, aged, muted>>

-----------------------------------------------------------------------------
(* The worker.                                                             *)

(* A client's command arrives.                                             *)
SendCommand(s, isSub) ==
    /\ Room
    /\ worker' = Append(worker, Command(s, isSub))
    /\ UNCHANGED <<io, posted, book, heard, aged, muted>>

(* Faulty variant for mutation testing: the type is not looked up.         *)
PassAlways(s, isSub) == posted' = Append(posted, [stream |-> StreamOf[s[2]], isSub |-> isSub])

(* Faulty variant for mutation testing: the request overtakes those that   *)
(* were posted before it.                                                  *)
PassAhead(s, isSub) ==
    posted' = IF StreamOf[s[2]] = NoStream THEN posted
              ELSE <<[stream |-> StreamOf[s[2]], isSub |-> isSub]>> \o posted

(* A key of no known type is not passed on.                                *)
Pass(s, isSub) ==
    posted' = IF StreamOf[s[2]] = NoStream THEN posted
              ELSE Append(posted, [stream |-> StreamOf[s[2]], isSub |-> isSub])

Subscribe(s)   == Pass(s, TRUE)
Unsubscribe(s) == Pass(s, FALSE)

(* History.  An unsubscribe silences the stream for every other client of  *)
(* it, of whichever spelling: the session does not count.                  *)
Silenced(s, isSub) ==
    LET same == {o \in Subscriptions : StreamOf[o[2]] = StreamOf[s[2]]}
    IN  muted' = IF isSub THEN muted \ same ELSE (muted \cup same) \ {s}

(* msgCb: the book keeping, which stops a command that changes nothing.    *)
HandleCommand(s, isSub) ==
    IF (s \in book) = isSub
    THEN UNCHANGED <<book, heard, posted, muted>>
    ELSE /\ book' = IF isSub THEN book \cup {s} ELSE book \ {s}
         /\ heard' = [heard EXCEPT ![s] = "Nothing"]
         /\ IF isSub THEN Subscribe(s) ELSE Unsubscribe(s)
         /\ Silenced(s, isSub)

Price == IF aged > 0 THEN "OldPrice" ELSE "Price"

(* Faulty variant for mutation testing: the update goes to one topic.      *)
PublishOnce(key) ==
    heard' = [s \in Subscriptions |->
                 IF /\ s \in book /\ s[2] = key
                    /\ s = CHOOSE o \in book : o[2] = key
                 THEN Price ELSE heard[s]]

(* onPriceDataFromExchange of a key: to every topic the book has for it.   *)
Publish(key) ==
    heard' = [s \in Subscriptions |-> IF s \in book /\ s[2] = key THEN Price ELSE heard[s]]

(* ... of the wild card: a price_blanked for every key of the book.        *)
PublishBlanking ==
    heard' = [s \in Subscriptions |-> IF s \in book THEN "Blanked" ELSE heard[s]]

RunWorker ==
    /\ worker # <<>>
    /\ worker' = Tail(worker)
    /\ aged' = IF aged > 0 THEN aged - 1 ELSE 0
    /\ LET task == Head(worker)
       IN  \/ /\ task.type = "command"
              /\ HandleCommand(task.of, task.isSub)
           \/ /\ task.type = "update"
              /\ Publish(task.key)
              /\ UNCHANGED <<book, posted, muted>>
           \/ /\ task.type = "blanking"
              /\ PublishBlanking
              /\ UNCHANGED <<book, posted, muted>>
    /\ UNCHANGED io

-----------------------------------------------------------------------------
(* The middleware starts with the first connection: nothing is booked yet. *)
Init ==
    /\ up = TRUE
    /\ live = {} /\ asked = {} /\ lost = {} /\ carried = {}
    /\ posted = <<>> /\ worker = <<>>
    /\ book = {}
    /\ heard = [s \in Subscriptions |-> "Nothing"]
    /\ aged = 0
    /\ muted = {}

Next ==
    \/ \E s \in Streams : OnPriceUpdate(s) \/ Carry(s) \/ Drop(s)
    \/ OnDisconnected
    \/ OnConnected
    \/ RunPosted
    \/ \E S \in SUBSET Streams : Ask(S) \/ GiveUp(S)
    \/ \E s \in Subscriptions, isSub \in BOOLEAN : SendCommand(s, isSub)
    \/ RunWorker

Spec == Init /\ [][Next]_vars

(* The worker and the strand run.  What waits is sent in the end, but for  *)
(* the requests lost to a race (ReplayCompletes of WSSession says no       *)
(* more), the exchange carries it and a market trades again and again.     *)
Fairness ==
    /\ WF_vars(RunWorker)
    /\ WF_vars(RunPosted)
    /\ \A s \in Streams : /\ WF_vars(AskFor(s)) /\ WF_vars(Carry(s))
                          /\ SF_vars(OnPriceUpdate(s))

FairSpec == Spec /\ Fairness

-----------------------------------------------------------------------------
(* Types.                                                                  *)
TypeOK ==
    /\ up \in BOOLEAN
    /\ live \subseteq Streams /\ asked \subseteq Streams /\ lost \subseteq Streams
    /\ carried \subseteq Streams
    /\ posted \in Seq([stream : Streams, isSub : BOOLEAN])
    /\ worker \in Seq(Task)
    /\ book \subseteq Subscriptions
    /\ heard \in [Subscriptions -> {"Nothing", "Price", "OldPrice", "Blanked"}]
    /\ aged \in 0..Len(worker)
    /\ muted \subseteq Subscriptions

(* No client is left with a price of a connection that is gone, whether it *)
(* is still down or another is up: once the worker has come to the         *)
(* blanking, no booked topic heard such a price last, though updates       *)
(* produced before the loss were still in the worker's queue.              *)
NoStalePrice ==
    ~Contains(worker, Blanking) => \A s \in book : heard[s] # "OldPrice"

(* The book is the worker's, the streams are the strand's, and between     *)
(* them lie the posted requests, of which the last for a stream decides:   *)
(* whatever is booked and not silenced is a stream the session has been    *)
(* asked for, or the last of the requests on their way asks for it.  No    *)
(* interleaving of the worker and the strand leaves it unsubscribed.       *)
Underway(stream, isSub) ==
    {i \in DOMAIN posted : posted[i].stream = stream /\ posted[i].isSub = isSub}

Kept(stream) ==
    /\ stream \in live \/ Underway(stream, TRUE) # {}
    /\ \A i \in Underway(stream, FALSE) : \E j \in Underway(stream, TRUE) : i < j

BookKept == \A s \in book \ muted : StreamOf[s[2]] # NoStream => Kept(StreamOf[s[2]])

(* A client whose key is written as the updates are, whose stream no other *)
(* client has unsubscribed and whose request the session has not lost to a *)
(* race (WSSession's NoLostSubscription fails), hears prices on a          *)
(* connection that lasts, whatever was blanked before.                     *)
Followed(s) == /\ up
               /\ s \in book \ muted
               /\ \E stream \in Streams \ lost :
                      StreamOf[s[2]] = stream /\ UpdateKey[stream] = s[2]
EventuallyPriced ==
    \A s \in Subscriptions : <>[]Followed(s) => []<>(heard[s] = "Price")
=============================================================================
