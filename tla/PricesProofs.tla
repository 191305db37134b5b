---------------------------- MODULE PricesProofs ----------------------------
(* Theorems about Prices, for any subscriptions, streams and queue bound.  *)
(*                                                                         *)
(* The blanking is queued behind what the lost connection has left in the  *)
(* queue (AgedEndsInBlanking), and no update can be produced until there   *)
(* is another connection (DownIsAged): so while a price of a lost one is   *)
(* the last somebody heard, a blanking is on its way to him.               *)
EXTENDS Prices, SequenceTheorems, TLAPS

AgedEndsInBlanking == aged > 0 => worker[aged] = Blanking

DownIsAged ==
    ~up => \A i \in DOMAIN worker : worker[i].type = "update" => i <= aged

NothingCarried == ~up => carried = {}

(* What the history calls a price of this connection is one.               *)
PriceIsOfThisConnection == \A s \in Subscriptions : heard[s] = "Price" => up

IInv ==
    /\ TypeOK
    /\ NothingCarried
    /\ AgedEndsInBlanking
    /\ DownIsAged
    /\ PriceIsOfThisConnection
    /\ NoStalePrice
-----------------------------------------------------------------------------
(* Elements of longer and shorter sequences.                               *)
LEMMA AppendElements ==
    ASSUME NEW S, NEW s \in Seq(S), NEW e \in S
    PROVE  /\ Append(s, e) \in Seq(S)
           /\ Len(s) \in Nat /\ DOMAIN s = 1..Len(s)
           /\ DOMAIN Append(s, e) = 1..(Len(s) + 1)
           /\ \A i \in 1..Len(s) : Append(s, e)[i] = s[i]
           /\ Append(s, e)[Len(s) + 1] = e
BY AppendProperties, LenProperties

LEMMA TailElements ==
    ASSUME NEW S, NEW s \in Seq(S), s # <<>>
    PROVE  /\ Tail(s) \in Seq(S) /\ Head(s) \in S
           /\ Len(s) \in Nat /\ 1 <= Len(s) /\ DOMAIN s = 1..Len(s)
           /\ Head(s) = s[1]
           /\ DOMAIN Tail(s) = 1..(Len(s) - 1)
           /\ \A i \in 1..(Len(s) - 1) : Tail(s)[i] = s[i + 1]
BY HeadTailProperties, LenProperties, EmptySeq

(* The tasks, told apart by their type.                                    *)
LEMMA Tasks ==
    /\ Blanking \in Task /\ Blanking.type = "blanking"
    /\ \A s \in Subscriptions, b \in BOOLEAN : Command(s, b) \in Task /\ Command(s, b).type = "command"
    /\ \A s \in Streams : Update(UpdateKey[s]) \in Task
    /\ \A t \in Task : t.type = "command" => t.of \in Subscriptions /\ t.isSub \in BOOLEAN
    /\ \A t \in Task : t.type = "blanking" => t = Blanking
BY DEF Task, Command, Update, Blanking

(* A task joins the queue; the connection stays as it is.                  *)
LEMMA Joins ==
    ASSUME IInv, NEW t \in Task, worker' = Append(worker, t),
           UNCHANGED <<up, book, heard, aged>>,
           ~up => t.type # "update"
    PROVE  /\ worker' \in Seq(Task) /\ aged' \in 0..Len(worker')
           /\ AgedEndsInBlanking' /\ DownIsAged' /\ NoStalePrice'
<1> DEFINE n == Len(worker)
<1>1. /\ worker \in Seq(Task) /\ worker' \in Seq(Task) /\ n \in Nat /\ DOMAIN worker = 1..n
      /\ DOMAIN worker' = 1..(n + 1)
      /\ \A i \in 1..n : worker'[i] = worker[i]
      /\ worker'[n + 1] = t /\ aged \in 0..n
  BY AppendElements DEF IInv, TypeOK
<1>2. Len(worker') = n + 1
  BY <1>1, LenProperties
<1>3. Contains(worker, Blanking) => Contains(worker', Blanking)
  BY <1>1, <1>2 DEF Contains
<1> HIDE DEF n
<1>4. aged' \in 0..Len(worker') /\ AgedEndsInBlanking'
  BY <1>1, <1>2 DEF IInv, AgedEndsInBlanking
<1>5. DownIsAged'
  <2> SUFFICES ASSUME ~up, NEW i \in 1..(n + 1), worker'[i].type = "update"
               PROVE  i <= aged
    BY <1>1 DEF DownIsAged
  <2>1. i \in 1..n
    BY <1>1
  <2> QED
    BY <1>1, <2>1 DEF IInv, DownIsAged
<1>6. NoStalePrice'
  BY <1>3 DEF IInv, NoStalePrice
<1> QED
  BY <1>1, <1>4, <1>5, <1>6

(* The connection is lost: the blanking is the last of what grows old.     *)
LEMMA Loses ==
    ASSUME IInv, OnDisconnected
    PROVE  IInv'
<1> DEFINE n == Len(worker)
<1>1. /\ up' = FALSE /\ asked' = {} /\ lost' = {} /\ carried' = {}
      /\ worker' = Append(worker, Blanking) /\ GrowOld
      /\ UNCHANGED <<live, posted, book, muted>>
  BY DEF OnDisconnected, BlankAll, Session!Lose
<1>2. /\ worker' \in Seq(Task) /\ n \in Nat /\ DOMAIN worker' = 1..(n + 1)
      /\ worker'[n + 1] = Blanking /\ aged' = n + 1
  BY <1>1, Tasks, AppendElements DEF IInv, TypeOK, GrowOld
<1>3. Len(worker') = n + 1
  BY <1>2, LenProperties
<1> HIDE DEF n
<1>4. Contains(worker', Blanking)
  BY <1>2, <1>3 DEF Contains
<1>5. /\ heard' \in [Subscriptions -> {"Nothing", "Price", "OldPrice", "Blanked"}]
      /\ \A s \in Subscriptions : heard'[s] # "Price"
  BY <1>1 DEF IInv, TypeOK, GrowOld
<1>6. TypeOK' /\ NothingCarried'
  <2>1. TypeOK
    BY DEF IInv
  <2>2. aged' \in 0..Len(worker')
    BY <1>2, <1>3
  <2> QED
    BY <1>1, <1>2, <1>5, <2>1, <2>2 DEF TypeOK, NothingCarried
<1>7. AgedEndsInBlanking' /\ DownIsAged'
  BY <1>2 DEF AgedEndsInBlanking, DownIsAged
<1>8. PriceIsOfThisConnection' /\ NoStalePrice'
  BY <1>4, <1>5 DEF PriceIsOfThisConnection, NoStalePrice
<1> QED
  BY <1>6, <1>7, <1>8 DEF IInv

(* A task leaves the queue: what grew old gets shorter at its front.       *)
LEMMA Leaves ==
    ASSUME IInv, worker # <<>>, worker' = Tail(worker), UNCHANGED up,
           aged' = IF aged > 0 THEN aged - 1 ELSE 0
    PROVE  /\ worker' \in Seq(Task) /\ Head(worker) \in Task
           /\ aged' \in 0..Len(worker')
           /\ AgedEndsInBlanking' /\ DownIsAged'
           /\ ~up /\ Head(worker).type = "update" => aged > 0
           /\ Head(worker) # Blanking /\ aged > 0 => Contains(worker', Blanking)
           /\ Head(worker) # Blanking /\ Contains(worker, Blanking) => Contains(worker', Blanking)
<1> DEFINE n == Len(worker)
<1>1. /\ worker \in Seq(Task) /\ worker' \in Seq(Task) /\ Head(worker) \in Task
      /\ n \in Nat /\ 1 <= n /\ DOMAIN worker = 1..n /\ Head(worker) = worker[1]
      /\ DOMAIN worker' = 1..(n - 1)
      /\ \A i \in 1..(n - 1) : worker'[i] = worker[i + 1]
      /\ aged \in 0..n
  BY TailElements DEF IInv, TypeOK
<1>2. Len(worker') = n - 1
  BY <1>1, LenProperties
<1>3. Contains(worker, Blanking) <=> \E i \in 1..n : worker[i] = Blanking
  BY DEF Contains
<1> HIDE DEF n
<1>4. \A j \in 2..n : /\ j - 1 \in 1..(n - 1) /\ worker'[j - 1] = worker[j]
  <2> SUFFICES ASSUME NEW j \in 2..n PROVE j - 1 \in 1..(n - 1) /\ worker'[j - 1] = worker[j]
    OBVIOUS
  <2>1. j - 1 \in 1..(n - 1) /\ (j - 1) + 1 = j
    BY <1>1
  <2> QED
    BY <1>1, <2>1
<1>5. (\E j \in 2..n : worker[j] = Blanking) => Contains(worker', Blanking)
  BY <1>1, <1>2, <1>4 DEF Contains
<1>6. aged' \in 0..Len(worker')
  BY <1>1, <1>2
<1>7. AgedEndsInBlanking'
  <2> SUFFICES ASSUME aged' > 0 PROVE worker'[aged'] = Blanking
    BY DEF AgedEndsInBlanking
  <2>1. aged \in 2..n /\ aged' = aged - 1 /\ worker[aged] = Blanking
    BY <1>1 DEF IInv, AgedEndsInBlanking
  <2> QED
    BY <1>4, <2>1
<1>8. DownIsAged'
  <2> SUFFICES ASSUME ~up, NEW i \in 1..(n - 1), worker'[i].type = "update"
               PROVE  i <= aged'
    BY <1>1 DEF DownIsAged
  <2>1. i + 1 \in 1..n /\ worker[i + 1].type = "update"
    BY <1>1
  <2>2. i + 1 <= aged
    BY <1>1, <2>1 DEF IInv, DownIsAged
  <2> QED
    BY <1>1, <2>2
<1>9. ASSUME ~up, Head(worker).type = "update" PROVE aged > 0
  <2>1. 1 \in DOMAIN worker /\ 1 <= aged
    BY <1>1, <1>9 DEF IInv, DownIsAged
  <2> QED
    BY <1>1, <2>1
<1>10. ASSUME Head(worker) # Blanking, aged > 0 PROVE Contains(worker', Blanking)
  <2>1. worker[aged] = Blanking /\ aged # 1
    BY <1>1, <1>10 DEF IInv, AgedEndsInBlanking
  <2>2. aged \in 2..n
    BY <1>1, <1>10, <2>1
  <2> QED
    BY <1>5, <2>1, <2>2
<1>11. ASSUME Head(worker) # Blanking, Contains(worker, Blanking) PROVE Contains(worker', Blanking)
  <2>1. PICK i \in 1..n : worker[i] = Blanking
    BY <1>3, <1>11
  <2>2. i \in 2..n
    BY <1>1, <1>11, <2>1
  <2> QED
    BY <1>5, <2>1, <2>2
<1> QED
  BY <1>1, <1>6, <1>7, <1>8, <1>9, <1>10, <1>11
-----------------------------------------------------------------------------
LEMMA InitEstablishes == Init => IInv
BY EmptySeq DEF Init, IInv, TypeOK, NothingCarried, AgedEndsInBlanking, DownIsAged,
                PriceIsOfThisConnection, NoStalePrice

LEMMA StepCommand ==
    ASSUME IInv, worker # <<>>, worker' = Tail(worker), UNCHANGED io,
           aged' = IF aged > 0 THEN aged - 1 ELSE 0,
           NEW s \in Subscriptions, NEW isSub \in BOOLEAN, HandleCommand(s, isSub),
           Head(worker) # Blanking
    PROVE  IInv'
<1>1. /\ UNCHANGED <<up, live, asked, lost, carried>>
      /\ worker' \in Seq(Task) /\ aged' \in 0..Len(worker')
      /\ AgedEndsInBlanking' /\ DownIsAged'
  BY Leaves DEF io, session
<1>2. /\ book' \subseteq Subscriptions /\ muted' \subseteq Subscriptions
      /\ heard' \in [Subscriptions -> {"Nothing", "Price", "OldPrice", "Blanked"}]
      /\ \A o \in Subscriptions : heard'[o] \in {heard[o], "Nothing"}
  <2>1. /\ book \subseteq Subscriptions /\ muted \subseteq Subscriptions
        /\ heard \in [Subscriptions -> {"Nothing", "Price", "OldPrice", "Blanked"}]
    BY DEF IInv, TypeOK
  <2>2. CASE (s \in book) = isSub
    BY <2>1, <2>2 DEF HandleCommand
  <2>3. CASE (s \in book) # isSub
    <3>1. muted' \subseteq Subscriptions
      <4>1. Silenced(s, isSub)
        BY <2>3 DEF HandleCommand
      <4> QED
        BY <2>1, <4>1 DEF Silenced
    <3>2. book' \subseteq Subscriptions
      BY <2>1, <2>3 DEF HandleCommand
    <3>3. heard' = [heard EXCEPT ![s] = "Nothing"]
      BY <2>3 DEF HandleCommand
    <3> QED
      BY <2>1, <3>1, <3>2, <3>3
  <2> QED
    BY <2>2, <2>3
<1>3. posted' \in Seq([stream : Streams, isSub : BOOLEAN])
  <2>1. posted \in Seq([stream : Streams, isSub : BOOLEAN])
    BY DEF IInv, TypeOK
  <2>2. StreamOf[s[2]] # NoStream => [stream |-> StreamOf[s[2]], isSub |-> isSub] \in [stream : Streams, isSub : BOOLEAN]
    BY StreamAssumption DEF Keys
  <2>3. posted' = posted \/ Pass(s, isSub)
    BY DEF HandleCommand, Subscribe, Unsubscribe
  <2>4. StreamOf[s[2]] # NoStream =>
            Append(posted, [stream |-> StreamOf[s[2]], isSub |-> isSub])
               \in Seq([stream : Streams, isSub : BOOLEAN])
    BY <2>1, <2>2, AppendElements
  <2> QED
    BY <2>1, <2>3, <2>4 DEF Pass
<1>4. NoStalePrice'
  <2>1. \A o \in book' : heard'[o] = "OldPrice" => o \in book /\ heard[o] = "OldPrice"
    BY DEF HandleCommand, IInv, TypeOK
  <2> QED
    BY <1>1, <2>1, Leaves DEF IInv, NoStalePrice
<1>5. PriceIsOfThisConnection' /\ NothingCarried'
  BY <1>1, <1>2 DEF IInv, PriceIsOfThisConnection, NothingCarried
<1> QED
  BY <1>1, <1>2, <1>3, <1>4, <1>5 DEF IInv, TypeOK

LEMMA StepRunWorker ==
    ASSUME IInv, RunWorker
    PROVE  IInv'
<1> DEFINE task == Head(worker)
<1>1. /\ worker # <<>> /\ worker' = Tail(worker)
      /\ aged' = IF aged > 0 THEN aged - 1 ELSE 0
      /\ UNCHANGED <<io, up, live, asked, lost, carried>>
  BY DEF RunWorker, io, session
<1>2. /\ worker' \in Seq(Task) /\ task \in Task /\ aged' \in 0..Len(worker')
      /\ AgedEndsInBlanking' /\ DownIsAged'
  BY <1>1, Leaves
<1>3. CASE task.type = "command" /\ HandleCommand(task.of, task.isSub)
  <2>1. task.of \in Subscriptions /\ task.isSub \in BOOLEAN /\ task # Blanking
    BY <1>2, <1>3, Tasks
  <2> QED
    BY <1>1, <1>3, <2>1, StepCommand
<1>4. CASE task.type = "update" /\ Publish(task.key) /\ UNCHANGED <<book, posted, muted>>
  <2>1. /\ heard' \in [Subscriptions -> {"Nothing", "Price", "OldPrice", "Blanked"}]
        /\ \A s \in Subscriptions : heard'[s] \in {heard[s], Price}
    BY <1>4 DEF IInv, TypeOK, Publish, Price
  <2>2. task # Blanking
    BY <1>4, Tasks
  <2>3. Price = "OldPrice" => aged > 0
    BY DEF Price
  <2>4. Price = "Price" => up
    BY <1>1, <1>4, Leaves DEF Price
  <2>5. NoStalePrice'
    <3> SUFFICES ASSUME NEW s \in book, heard'[s] = "OldPrice"
                 PROVE  Contains(worker', Blanking)
      BY <1>4 DEF NoStalePrice
    <3>1. s \in Subscriptions
      BY DEF IInv, TypeOK
    <3>2. heard[s] = "OldPrice" \/ aged > 0
      BY <2>1, <2>3, <3>1
    <3> QED
      BY <1>1, <2>2, <3>2, Leaves DEF IInv, NoStalePrice
  <2>6. PriceIsOfThisConnection' /\ NothingCarried'
    BY <1>1, <2>1, <2>4 DEF IInv, PriceIsOfThisConnection, NothingCarried
  <2> QED
    BY <1>1, <1>2, <1>4, <2>1, <2>5, <2>6 DEF IInv, TypeOK
<1>5. CASE task.type = "blanking" /\ PublishBlanking /\ UNCHANGED <<book, posted, muted>>
  <2>1. /\ heard' \in [Subscriptions -> {"Nothing", "Price", "OldPrice", "Blanked"}]
        /\ \A s \in Subscriptions : heard'[s] \in {heard[s], "Blanked"}
        /\ \A s \in book' : heard'[s] = "Blanked"
    BY <1>5 DEF IInv, TypeOK, PublishBlanking
  <2>2. PriceIsOfThisConnection' /\ NothingCarried' /\ NoStalePrice'
    BY <1>1, <2>1 DEF IInv, PriceIsOfThisConnection, NothingCarried, NoStalePrice
  <2> QED
    BY <1>1, <1>2, <1>5, <2>1, <2>2 DEF IInv, TypeOK
<1> QED
  BY <1>3, <1>4, <1>5 DEF RunWorker

LEMMA StepPreserves == IInv /\ [Next]_vars => IInv'
<1> SUFFICES ASSUME IInv, [Next]_vars PROVE IInv'
  OBVIOUS
<1>1. TypeOK /\ NothingCarried
  BY DEF IInv
<1>2. ASSUME NEW s \in Streams, OnPriceUpdate(s) PROVE IInv'
  <2>1. /\ up /\ worker' = Append(worker, Update(UpdateKey[s])) /\ Update(UpdateKey[s]) \in Task
        /\ UNCHANGED <<up, live, asked, lost, carried, posted, book, heard, aged, muted>>
    BY <1>2, Tasks DEF OnPriceUpdate, io, session
  <2>2. /\ worker' \in Seq(Task) /\ aged' \in 0..Len(worker')
        /\ AgedEndsInBlanking' /\ DownIsAged' /\ NoStalePrice'
    BY <2>1, Joins
  <2> QED
    BY <1>1, <2>1, <2>2 DEF IInv, TypeOK, NothingCarried, PriceIsOfThisConnection
<1>3. ASSUME NEW s \in Streams, Carry(s) \/ Drop(s) PROVE IInv'
  <2>1. /\ UNCHANGED <<up, live, asked, lost, posted, worker, book, heard, aged, muted>>
        /\ carried' \subseteq Streams /\ NothingCarried'
    BY <1>1, <1>3 DEF Carry, Drop, session, TypeOK, NothingCarried
  <2> QED
    BY <1>1, <2>1 DEF IInv, TypeOK, AgedEndsInBlanking, DownIsAged,
                      PriceIsOfThisConnection, NoStalePrice
<1>4. CASE OnDisconnected
  BY <1>4, Loses
<1>5. CASE OnConnected
  <2>1. /\ up' = TRUE /\ asked' \subseteq Streams /\ lost' \subseteq Streams
        /\ UNCHANGED <<live, carried, posted, worker, book, heard, aged, muted>>
    BY <1>1, <1>5 DEF OnConnected, Session!Connect, TypeOK
  <2> QED
    BY <1>1, <2>1 DEF IInv, TypeOK, NothingCarried, AgedEndsInBlanking, DownIsAged,
                      PriceIsOfThisConnection, NoStalePrice
<1>6. CASE RunPosted
  <2>1. /\ posted # <<>> /\ posted' = Tail(posted)
        /\ UNCHANGED <<up, carried, worker, book, heard, aged, muted>>
    BY <1>6 DEF RunPosted, session, Session!Subscribe, Session!Unsubscribe
  <2>2. /\ posted' \in Seq([stream : Streams, isSub : BOOLEAN])
        /\ Head(posted) \in [stream : Streams, isSub : BOOLEAN]
    BY <1>1, <2>1, TailElements DEF TypeOK
  <2>3. live' \subseteq Streams /\ asked' \subseteq Streams /\ lost' \subseteq Streams
    BY <1>1, <1>6, <2>2 DEF RunPosted, TypeOK, session, Session!Subscribe, Session!Unsubscribe
  <2> QED
    BY <1>1, <2>1, <2>2, <2>3 DEF IInv, TypeOK, NothingCarried, AgedEndsInBlanking,
                                  DownIsAged, PriceIsOfThisConnection, NoStalePrice
<1>7. ASSUME NEW s \in Subscriptions, NEW isSub \in BOOLEAN, SendCommand(s, isSub) PROVE IInv'
  <2>1. /\ worker' = Append(worker, Command(s, isSub))
        /\ Command(s, isSub) \in Task /\ Command(s, isSub).type # "update"
        /\ UNCHANGED <<up, live, asked, lost, carried, posted, book, heard, aged, muted>>
    BY <1>7, Tasks DEF SendCommand, io, session
  <2>2. /\ worker' \in Seq(Task) /\ aged' \in 0..Len(worker')
        /\ AgedEndsInBlanking' /\ DownIsAged' /\ NoStalePrice'
    BY <2>1, Joins
  <2> QED
    BY <1>1, <2>1, <2>2 DEF IInv, TypeOK, NothingCarried, PriceIsOfThisConnection
<1>8. CASE RunWorker
  BY <1>8, StepRunWorker
<1>9. ASSUME NEW S \in SUBSET Streams, Ask(S) \/ GiveUp(S) PROVE IInv'
  <2>1. /\ asked' \subseteq Streams /\ lost' \subseteq Streams
        /\ UNCHANGED <<up, live, carried, posted, worker, book, heard, aged, muted>>
    BY <1>1, <1>9 DEF Ask, GiveUp, Session!Ask, Session!GiveUp, TypeOK
  <2> QED
    BY <1>1, <2>1 DEF IInv, TypeOK, NothingCarried, AgedEndsInBlanking, DownIsAged,
                      PriceIsOfThisConnection, NoStalePrice
<1>10. CASE UNCHANGED vars
  BY <1>10 DEF vars, io, session, IInv, TypeOK, NothingCarried, AgedEndsInBlanking,
               DownIsAged, PriceIsOfThisConnection, NoStalePrice
<1> QED
  BY <1>2, <1>3, <1>4, <1>5, <1>6, <1>7, <1>8, <1>9, <1>10 DEF Next

(* The invariant of the queue between the exchange and the topics.         *)
THEOREM Invariant == Spec => []IInv
<1> QED
  BY InitEstablishes, StepPreserves, PTL DEF Spec

(* Every variable keeps its type.                                          *)
THEOREM TypeCorrect == Spec => []TypeOK
<1>1. IInv => TypeOK
  BY DEF IInv
<1> QED
  BY <1>1, Invariant, PTL

(* Once the worker has come to the blanking, no client is left with a      *)
(* price of a lost connection, however many updates, commands, failed      *)
(* attempts to connect and new connections shared the queue with it.       *)
THEOREM NoPriceIsStale == Spec => []NoStalePrice
<1>1. IInv => NoStalePrice
  BY DEF IInv
<1> QED
  BY <1>1, Invariant, PTL

(* A gateway that is down has nobody left with a price, but of those a     *)
(* blanking is on its way to.                                              *)
NoPriceWhileDown ==
    ~up /\ ~Contains(worker, Blanking) =>
        \A s \in book : heard[s] \in {"Nothing", "Blanked"}

THEOREM DownIsBlanked == Spec => []NoPriceWhileDown
<1>1. IInv => NoPriceWhileDown
  BY DEF IInv, TypeOK, NoStalePrice, PriceIsOfThisConnection, NoPriceWhileDown
<1> QED
  BY <1>1, Invariant, PTL
-----------------------------------------------------------------------------
(* The front request is carried out.                                       *)
LEMMA KeptByStrand ==
    ASSUME TypeOK, RunPosted, NEW stream \in Streams, Kept(stream)
    PROVE  Kept(stream)'
<1> DEFINE n == Len(posted)
<1>1. /\ posted # <<>> /\ posted' = Tail(posted) /\ n \in Nat /\ 1 <= n
      /\ DOMAIN posted = 1..n /\ Head(posted) = posted[1]
      /\ DOMAIN posted' = 1..(n - 1)
      /\ \A i \in 1..(n - 1) : posted'[i] = posted[i + 1]
  BY TailElements DEF TypeOK, RunPosted
<1>2. /\ posted[1].isSub \in BOOLEAN
      /\ posted[1].stream = stream /\ posted[1].isSub => stream \in live'
      /\ posted[1].stream # stream /\ stream \in live => stream \in live'
      /\ posted[1].isSub /\ stream \in live => stream \in live'
  <2>1. Head(posted) \in [stream : Streams, isSub : BOOLEAN]
    BY <1>1, TailElements DEF TypeOK
  <2> QED
    BY <1>1, <2>1 DEF RunPosted, session, Session!Subscribe, Session!Unsubscribe
<1> HIDE DEF n
<1>3. \A b \in BOOLEAN : \A i \in Underway(stream, b) : i # 1 => i - 1 \in Underway(stream, b)'
  <2> SUFFICES ASSUME NEW b \in BOOLEAN, NEW i \in Underway(stream, b), i # 1
               PROVE  i - 1 \in Underway(stream, b)'
    OBVIOUS
  <2>1. i - 1 \in 1..(n - 1) /\ (i - 1) + 1 = i
    BY <1>1 DEF Underway
  <2> QED
    BY <1>1, <2>1 DEF Underway
<1>4. \A b \in BOOLEAN : \A i \in Underway(stream, b)' : i + 1 \in Underway(stream, b)
  BY <1>1 DEF Underway
<1>5. stream \in live' \/ Underway(stream, TRUE)' # {}
  <2>1. CASE \E j \in Underway(stream, TRUE) : j # 1
    BY <1>3, <2>1
  <2>2. CASE 1 \in Underway(stream, TRUE)
    BY <1>2, <2>2 DEF Underway
  <2>3. CASE Underway(stream, TRUE) = {}
    <3>1. stream \in live /\ 1 \notin Underway(stream, FALSE)
      BY <2>3 DEF Kept
    <3> QED
      BY <1>1, <1>2, <3>1 DEF Underway
  <2> QED
    BY <2>1, <2>2, <2>3
<1>6. ASSUME NEW i \in Underway(stream, FALSE)' PROVE \E j \in Underway(stream, TRUE)' : i < j
  <2>1. PICK j \in Underway(stream, TRUE) : i + 1 < j
    BY <1>4 DEF Kept
  <2>2. i \in 1..(n - 1) /\ j \in 1..n
    BY <1>1 DEF Underway
  <2>3. j # 1 /\ i < j - 1
    BY <1>1, <2>1, <2>2
  <2> QED
    BY <1>3, <2>3
<1> QED
  BY <1>5, <1>6 DEF Kept

(* A command that changes the book posts the request that goes with it.    *)
LEMMA KeptByWorker ==
    ASSUME TypeOK, BookKept, NEW s \in Subscriptions, NEW isSub \in BOOLEAN,
           HandleCommand(s, isSub), UNCHANGED live
    PROVE  BookKept'
<1> DEFINE n == Len(posted)
<1> DEFINE request == [stream |-> StreamOf[s[2]], isSub |-> isSub]
<1>1. CASE (s \in book) = isSub
  BY <1>1 DEF HandleCommand, BookKept, Kept, Underway
<1>2. CASE (s \in book) # isSub
  <2> SUFFICES ASSUME NEW o \in book' \ muted', StreamOf[o[2]] # NoStream
               PROVE  Kept(StreamOf[o[2]])'
    BY DEF BookKept
  <2>1. /\ Pass(s, isSub) /\ Silenced(s, isSub)
        /\ book' = IF isSub THEN book \cup {s} ELSE book \ {s}
        /\ book \subseteq Subscriptions
    BY <1>2 DEF HandleCommand, Subscribe, Unsubscribe, TypeOK
  <2>2. o \in Subscriptions
    BY <2>1
  <2>3. CASE StreamOf[o[2]] # StreamOf[s[2]]
    <3>1. o \in book \ muted
      BY <2>1, <2>2, <2>3 DEF Silenced
    <3>2. Kept(StreamOf[o[2]])
      BY <3>1 DEF BookKept
    <3>3. CASE StreamOf[s[2]] = NoStream
      BY <2>1, <3>2, <3>3 DEF Pass, Kept, Underway
    <3>4. CASE StreamOf[s[2]] # NoStream
      <4>1. request \in [stream : Streams, isSub : BOOLEAN]
        BY <3>4, StreamAssumption DEF Keys
      <4>2. posted' = Append(posted, request)
        BY <2>1, <3>4 DEF Pass
      <4>3. /\ n \in Nat /\ DOMAIN posted = 1..n /\ DOMAIN posted' = 1..(n + 1)
            /\ \A i \in 1..n : posted'[i] = posted[i]
            /\ posted'[n + 1] = request
        BY <4>1, <4>2, AppendElements DEF TypeOK
      <4> HIDE DEF n
      <4>4. \A b \in BOOLEAN : Underway(StreamOf[o[2]], b)' = Underway(StreamOf[o[2]], b)
        BY <2>3, <4>3 DEF Underway
      <4> QED
        BY <3>2, <4>4 DEF Kept
    <3> QED
      BY <3>3, <3>4
  <2>4. CASE StreamOf[o[2]] = StreamOf[s[2]]
    <3>1. isSub
      BY <2>1, <2>2, <2>4 DEF Silenced
    <3>2. posted' = Append(posted, request) /\ request \in [stream : Streams, isSub : BOOLEAN]
      BY <2>1, <2>4, StreamAssumption DEF Pass, Keys
    <3>3. /\ n \in Nat /\ DOMAIN posted' = 1..(n + 1) /\ posted'[n + 1] = request
      BY <3>2, AppendElements DEF TypeOK
    <3> HIDE DEF n
    <3>4. n + 1 \in Underway(StreamOf[o[2]], TRUE)'
      BY <2>4, <3>1, <3>3 DEF Underway
    <3>5. \A i \in Underway(StreamOf[o[2]], FALSE)' : i < n + 1
      BY <3>1, <3>3 DEF Underway
    <3> QED
      BY <3>4, <3>5 DEF Kept
  <2> QED
    BY <2>3, <2>4
<1> QED
  BY <1>1, <1>2

LEMMA BookStaysKept == IInv /\ BookKept /\ [Next]_vars => BookKept'
<1> SUFFICES ASSUME IInv, BookKept, [Next]_vars PROVE BookKept'
  OBVIOUS
<1>1. TypeOK
  BY DEF IInv
<1>2. CASE RunPosted
  <2> SUFFICES ASSUME NEW s \in book \ muted, StreamOf[s[2]] # NoStream
               PROVE  Kept(StreamOf[s[2]])'
    BY <1>2 DEF RunPosted, BookKept
  <2>1. StreamOf[s[2]] \in Streams
    BY <1>1, StreamAssumption DEF Keys, TypeOK
  <2> QED
    BY <1>1, <1>2, <2>1, KeptByStrand DEF BookKept
<1>3. CASE RunWorker
  <2>1. live' = live /\ Head(worker) \in Task
    BY <1>1, <1>3, TailElements DEF RunWorker, io, session, TypeOK
  <2>2. CASE Head(worker).type = "command" /\ HandleCommand(Head(worker).of, Head(worker).isSub)
    BY <1>1, <2>1, <2>2, Tasks, KeptByWorker
  <2>3. CASE UNCHANGED <<book, posted, muted>>
    BY <2>1, <2>3 DEF BookKept, Kept, Underway
  <2> QED
    BY <1>3, <2>2, <2>3 DEF RunWorker
<1>4. CASE UNCHANGED <<live, posted, book, muted>>
  BY <1>4 DEF BookKept, Kept, Underway
<1>5. CASE /\ ~RunPosted /\ ~RunWorker
  <2>1. UNCHANGED <<live, posted, book, muted>>
    BY <1>5 DEF Next, vars, io, session, OnPriceUpdate, Carry, Drop, OnDisconnected, OnConnected,
                Ask, GiveUp, SendCommand, Session!Lose, Session!Connect, Session!Ask, Session!GiveUp
  <2> QED
    BY <1>4, <2>1
<1> QED
  BY <1>2, <1>3, <1>5

(* The worker's book and the session's streams agree through the posted    *)
(* requests: nothing booked and not silenced is left unsubscribed.         *)
THEOREM BookIsKept == Spec => []BookKept
<1>1. Init => BookKept
  BY DEF Init, BookKept
<1> QED
  BY <1>1, Invariant, BookStaysKept, PTL DEF Spec

(* So when nothing of a stream is on its way, the session has been asked   *)
(* for it: what hearing prices in the end, EventuallyPriced, rests on.     *)
WantedIsLive ==
    \A s \in book \ muted :
        LET stream == StreamOf[s[2]]
        IN  stream # NoStream /\ (\A i \in DOMAIN posted : posted[i].stream # stream)
                => stream \in live

THEOREM WantedIsAskedFor == Spec => []WantedIsLive
<1>1. BookKept => WantedIsLive
  BY DEF BookKept, WantedIsLive, Kept, Underway
<1> QED
  BY <1>1, BookIsKept, PTL
=============================================================================
