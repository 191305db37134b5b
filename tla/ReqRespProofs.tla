--------------------------- MODULE ReqRespProofs ---------------------------
(* Theorems about ReqResp, for any set of requests and any number of them  *)
(* and of crashes.                                                         *)
(*                                                                         *)
(* An answer is addressed by an id, which clients choose; a record is one  *)
(* request.  The invariant says where a record can be: ahead, in the log   *)
(* or the worker's queue and nowhere else (FreshAhead); with the exchange, *)
(* and then booked and routed under its id (AskersHold); or in the io      *)
(* thread's hands (IoHolds).  What the router has is one of the last two   *)
(* (RoutedWhy), so that an id it refuses is one of the io thread's.        *)
EXTENDS ReqResp, SequenceTheorems, TLAPS

(* The records with the exchange.                                          *)
Asking == {asked[k] : k \in Service!Waiting}

Fresh(n) ==
    /\ lasts[n] = 0
    /\ \A id \in DOMAIN book : book[id] # n
    /\ n \notin Asking
    /\ io.record # n

FreshAhead ==
    /\ \A n \in Record : n > polled => Fresh(n)
    /\ \A i \in DOMAIN worker : Fresh(worker[i])

(* Everything that is known of has been polled, and the worker has it once.*)
Polled ==
    /\ committed <= polled
    /\ Len(log) <= MaxSent
    /\ \A i \in DOMAIN worker : worker[i] <= polled
    /\ \A i, j \in DOMAIN worker : worker[i] = worker[j] => i = j
    /\ \A n \in Asking : n <= polled
    /\ io.record <= polled
    /\ io.step = "Idle" <=> io.record = 0

AskedOnce == \A k, l \in Service!Waiting : asked[k] = asked[l] => k = l

(* A record is booked under the id it has.                                 *)
BookKeys == \A id \in DOMAIN book : book[id] <= polled /\ log[book[id]].id = id

Holds(n) == Booked(n) /\ book[log[n].id] = n /\ Routed(n)

AskersHold ==
    \A n \in Asking : /\ Holds(n)
                      /\ io.step # "Idle" => log[n].id # log[io.record].id

IoHolds ==
    /\ io.step \in {"Respond", "Unbook"} => Holds(io.record)
    /\ io.step = "Unroute" => /\ Routed(io.record)
                              /\ \A id \in DOMAIN book : book[id] # io.record

(* What is booked has no last response yet, but for the one the io thread  *)
(* has just sent.                                                          *)
BookedUnanswered ==
    \A id \in DOMAIN book :
        lasts[book[id]] = 0 \/ (io.step = "Unbook" /\ io.record = book[id])

RoutedWhy ==
    \A id \in pending : \/ \E n \in Asking : log[n].id = id
                        \/ io.step # "Idle" /\ log[io.record].id = id

(* What is booked is on its way to an answer, or booked in vain.           *)
BookedWhy ==
    \A id \in DOMAIN book : \/ book[id] \in Asking
                            \/ io.record = book[id]
                            \/ fate[book[id]] \in {"Unknown", "Overtaken"}

LastOnce == \A n \in Record : lasts[n] <= 1

IInv ==
    /\ TypeOK
    /\ FreshAhead
    /\ Polled
    /\ AskedOnce
    /\ BookKeys
    /\ AskersHold
    /\ IoHolds
    /\ BookedUnanswered
    /\ RoutedWhy
    /\ BookedWhy
    /\ LastOnce
-----------------------------------------------------------------------------
(* Elements of longer and shorter sequences.                               *)
LEMMA AppendElements ==
    ASSUME NEW S, NEW s \in Seq(S), NEW e \in S
    PROVE  /\ Append(s, e) \in Seq(S)
           /\ Len(s) \in Nat /\ DOMAIN s = 1..Len(s)
           /\ Len(Append(s, e)) = Len(s) + 1
           /\ DOMAIN Append(s, e) = 1..(Len(s) + 1)
           /\ \A i \in 1..Len(s) : Append(s, e)[i] = s[i]
           /\ Append(s, e)[Len(s) + 1] = e
BY AppendProperties, LenProperties

LEMMA TailElements ==
    ASSUME NEW S, NEW s \in Seq(S), s # <<>>
    PROVE  /\ Tail(s) \in Seq(S) /\ Head(s) \in S
           /\ Len(s) \in Nat /\ 1 <= Len(s) /\ DOMAIN s = 1..Len(s)
           /\ Head(s) = s[1]
           /\ DOMAIN Tail(s) = 1..(Len(s) - 1)
           /\ \A i \in 1..(Len(s) - 1) : Tail(s)[i] = s[i + 1]
BY HeadTailProperties, LenProperties, EmptySeq

(* Where the records of a state are.                                       *)
LEMMA Ranges ==
    ASSUME IInv
    PROVE  /\ MaxSent \in Nat /\ polled \in Nat /\ committed \in Nat /\ Len(log) \in Nat
           /\ committed <= polled /\ polled <= Len(log) /\ Len(log) <= MaxSent
           /\ DOMAIN log = 1..Len(log)
           /\ Asking \subseteq 1..polled
           /\ \A id \in DOMAIN book : book[id] \in 1..polled
           /\ \A i \in DOMAIN worker : worker[i] \in 1..polled
           /\ io.record \in 0..polled
           /\ io.step # "Idle" => io.record \in 1..polled
<1>1. /\ MaxSent \in Nat /\ polled \in 0..Len(log) /\ committed \in 0..Len(log)
      /\ log \in Seq(Requests) /\ Len(log) \in Nat /\ DOMAIN log = 1..Len(log)
      /\ committed <= polled /\ Len(log) <= MaxSent
  BY BoundAssumption, LenProperties DEF IInv, TypeOK, Polled
<1>2. Asking \subseteq 1..polled
  <2>1. asked \in Seq(Record) /\ Service!Waiting \subseteq 1..Len(asked)
    BY DEF IInv, TypeOK, Service!Waiting
  <2>2. Asking \subseteq Record
    BY <2>1, ElementOfSeq DEF Asking
  <2> QED
    BY <1>1, <2>2 DEF IInv, Polled, Record
<1>3. \A id \in DOMAIN book : book[id] \in 1..polled
  BY <1>1 DEF IInv, TypeOK, BookKeys, Range, Record
<1>4. \A i \in DOMAIN worker : worker[i] \in 1..polled
  <2>1. \A i \in DOMAIN worker : worker[i] \in Record
    BY ElementOfSeq, LenProperties DEF IInv, TypeOK
  <2> QED
    BY <1>1, <2>1 DEF IInv, Polled, Record
<1>5. io.record \in 0..polled /\ (io.step # "Idle" => io.record \in 1..polled)
  BY <1>1 DEF IInv, TypeOK, Polled, Record
<1> QED
  BY <1>1, <1>2, <1>3, <1>4, <1>5

(* Asking, when the client is asked: the record waits, or it does not.     *)
LEMMA AskAdds ==
    ASSUME IInv, NEW n \in Record, asked' = Append(asked, n), Service!Ask
    PROVE  /\ asked' \in Seq(Record)
           /\ answered' \in Seq(1..Len(asked')) /\ rejected' \subseteq 1..Len(asked')
           /\ Asking' = IF Len(asked') \in rejected' THEN Asking ELSE Asking \cup {n}
           /\ n \notin Asking => AskedOnce'
<1> DEFINE m == Len(asked)
<1>1. /\ asked \in Seq(Record) /\ asked' \in Seq(Record)
      /\ m \in Nat /\ Len(asked') = m + 1
      /\ \A i \in 1..m : asked'[i] = asked[i]
      /\ asked'[m + 1] = n
  BY AppendElements DEF IInv, TypeOK
<1>2. /\ answered' = answered /\ answered \in Seq(1..m)
      /\ rejected \subseteq 1..m
      /\ rejected' = rejected \/ rejected' = rejected \cup {m + 1}
  BY DEF IInv, TypeOK, Service!Ask
<1> HIDE DEF m
<1>3. \A i \in DOMAIN answered : answered[i] \in 1..m
  BY <1>2, ElementOfSeq, LenProperties
<1>4. answered' \in Seq(1..Len(asked')) /\ rejected' \subseteq 1..Len(asked')
  <2>1. 1..m \subseteq 1..(m + 1) /\ m + 1 \in 1..(m + 1)
    BY <1>1
  <2>2. answered \in Seq(1..(m + 1))
    BY <1>2, <1>3, <2>1, SeqDef, LenProperties
  <2> QED
    BY <1>1, <1>2, <2>1, <2>2
<1>5. m + 1 \notin rejected /\ m + 1 \notin 1..m
      /\ \A i \in DOMAIN answered : answered[i] # m + 1
  BY <1>1, <1>2, <1>3
<1>6. Service!Waiting = {k \in 1..m : k \notin rejected /\ \A i \in DOMAIN answered : answered[i] # k}
  BY DEF Service!Waiting, m
<1>7. Service!Waiting' = {k \in 1..(m + 1) : k \notin rejected' /\ \A i \in DOMAIN answered : answered[i] # k}
  BY <1>1, <1>2 DEF Service!Waiting
<1>8. Service!Waiting' = IF m + 1 \in rejected' THEN Service!Waiting
                                               ELSE Service!Waiting \cup {m + 1}
  <2>1. \A k \in 1..(m + 1) : k \in 1..m \/ k = m + 1
    BY <1>1
  <2>2. \A k \in 1..m : k \in 1..(m + 1) /\ (k \in rejected' <=> k \in rejected)
    BY <1>1, <1>2, <1>5
  <2>3. m + 1 \in 1..(m + 1)
    BY <1>1
  <2> QED
    BY <1>5, <1>6, <1>7, <2>1, <2>2, <2>3
<1>9. \A k \in Service!Waiting : k \in 1..m /\ asked'[k] = asked[k]
  BY <1>1, <1>6
<1>10. Asking' = IF Len(asked') \in rejected' THEN Asking ELSE Asking \cup {n}
  BY <1>1, <1>8, <1>9 DEF Asking
<1>11. ASSUME n \notin Asking PROVE AskedOnce'
  <2>1. \A k \in Service!Waiting : asked[k] # n
    BY <1>11 DEF Asking
  <2> QED
    BY <1>1, <1>8, <1>9, <2>1 DEF AskedOnce, IInv
<1> QED
  BY <1>1, <1>4, <1>10, <1>11

(* ... when it answers.                                                    *)
LEMMA AnswerTakes ==
    ASSUME IInv, NEW k \in Service!Waiting, Service!Answer(k), UNCHANGED asked
    PROVE  /\ answered' \in Seq(1..Len(asked')) /\ rejected' = rejected
           /\ asked[k] \in Asking
           /\ Asking' = Asking \ {asked[k]}
           /\ AskedOnce'
<1>1. /\ answered \in Seq(1..Len(asked)) /\ k \in 1..Len(asked)
      /\ answered' = Append(answered, k) /\ rejected' = rejected
  BY DEF IInv, TypeOK, Service!Answer, Service!Waiting
<1>2. /\ answered' \in Seq(1..Len(asked))
      /\ DOMAIN answered = 1..Len(answered) /\ Len(answered) \in Nat
      /\ DOMAIN answered' = 1..(Len(answered) + 1)
      /\ \A i \in 1..Len(answered) : answered'[i] = answered[i]
      /\ answered'[Len(answered) + 1] = k
  BY <1>1, AppendElements
<1>3. \A l : (\A i \in DOMAIN answered' : answered'[i] # l)
                <=> l # k /\ (\A i \in DOMAIN answered : answered[i] # l)
  BY <1>2
<1>4. Service!Waiting' = Service!Waiting \ {k}
  BY <1>1, <1>3 DEF Service!Waiting
<1>5. Asking' = Asking \ {asked[k]}
  BY <1>4 DEF Asking, AskedOnce, IInv
<1> QED
  BY <1>1, <1>2, <1>4, <1>5 DEF Asking, AskedOnce, IInv
-----------------------------------------------------------------------------
(* The steps of the clients and of the loop.                               *)

LEMMA InitEstablishes == Init => IInv
<1> SUFFICES ASSUME Init PROVE IInv
  OBVIOUS
<1>1. MaxSent \in Nat /\ Len(log) = 0 /\ Len(asked) = 0
  BY BoundAssumption, EmptySeq DEF Init
<1>2. Service!Waiting = {} /\ Asking = {}
  BY <1>1 DEF Init, Service!Init, Service!Waiting, Asking
<1>3. DOMAIN book = {} /\ Range(book) = {} /\ DOMAIN worker = {}
  BY EmptySeq DEF Init, Range
<1>4. TypeOK
  BY <1>1, <1>3, EmptySeq, BoundAssumption DEF Init, Service!Init, TypeOK, Idle
<1> QED
  BY <1>1, <1>2, <1>3, <1>4
     DEF Init, IInv, FreshAhead, Fresh, Polled, AskedOnce, BookKeys, AskersHold, IoHolds,
         BookedUnanswered, RoutedWhy, BookedWhy, LastOnce, Idle

LEMMA StepSend ==
    ASSUME IInv, NEW request \in Requests, Send(request)
    PROVE  IInv'
<1>1. /\ log' = Append(log, request) /\ Len(log) < MaxSent
      /\ UNCHANGED <<polled, committed, worker, book, pending, asked, answered, rejected, io,
                     lasts, fate, crashes>>
  BY DEF Send, books, rest, result
<1>2. /\ MaxSent \in Nat /\ polled \in Nat /\ committed \in Nat /\ Len(log) \in Nat
      /\ polled <= Len(log) /\ committed <= polled
      /\ Asking \subseteq 1..polled
      /\ \A id \in DOMAIN book : book[id] \in 1..polled
      /\ io.step # "Idle" => io.record \in 1..polled
  BY Ranges
<1>3. /\ log' \in Seq(Requests) /\ Len(log') = Len(log) + 1
      /\ \A n \in 1..polled : log'[n] = log[n]
  BY <1>1, <1>2, AppendElements DEF IInv, TypeOK
<1>4. Asking' = Asking /\ Service!Waiting' = Service!Waiting
  BY <1>1 DEF Asking, Service!Waiting
<1>5. TypeOK'
  BY <1>1, <1>2, <1>3 DEF IInv, TypeOK
<1>6. Polled' /\ FreshAhead' /\ AskedOnce' /\ BookedUnanswered' /\ BookedWhy' /\ LastOnce'
  BY <1>1, <1>2, <1>3, <1>4 DEF IInv, Polled, FreshAhead, Fresh, AskedOnce, BookedUnanswered,
     BookedWhy, LastOnce
<1>7. BookKeys'
  BY <1>1, <1>2, <1>3 DEF IInv, BookKeys
<1>8. \A n \in 1..polled : (Holds(n) <=> Holds(n)') /\ (Routed(n) => Routed(n)')
  BY <1>1, <1>3 DEF Holds, Booked, Routed
<1>9. AskersHold' /\ IoHolds' /\ RoutedWhy'
  BY <1>1, <1>2, <1>3, <1>4, <1>8 DEF IInv, AskersHold, IoHolds, RoutedWhy
<1> QED
  BY <1>5, <1>6, <1>7, <1>9 DEF IInv

LEMMA StepPoll ==
    ASSUME IInv, Poll
    PROVE  IInv'
<1>1. /\ polled < Len(log) /\ polled' = polled + 1 /\ worker' = Append(worker, polled + 1)
      /\ UNCHANGED <<log, committed, book, pending, asked, answered, rejected, io, lasts,
                     fate, crashes>>
  BY DEF Poll, books, rest, result
<1>2. /\ MaxSent \in Nat /\ polled \in Nat /\ committed \in Nat /\ Len(log) \in Nat
      /\ polled <= Len(log) /\ committed <= polled /\ Len(log) <= MaxSent
      /\ Asking \subseteq 1..polled
      /\ \A id \in DOMAIN book : book[id] \in 1..polled
      /\ \A i \in DOMAIN worker : worker[i] \in 1..polled
      /\ io.record \in 0..polled
  BY Ranges
<1>3. polled + 1 \in Record /\ Fresh(polled + 1)
  BY <1>1, <1>2 DEF IInv, FreshAhead, Record
<1>4. /\ worker \in Seq(Record) /\ worker' \in Seq(Record)
      /\ DOMAIN worker = 1..Len(worker) /\ Len(worker) \in Nat
      /\ DOMAIN worker' = 1..(Len(worker) + 1)
      /\ \A i \in 1..Len(worker) : worker'[i] = worker[i]
      /\ worker'[Len(worker) + 1] = polled + 1
  BY <1>1, <1>3, AppendElements DEF IInv, TypeOK
<1>5. \A i \in DOMAIN worker' :
          (i \in DOMAIN worker /\ worker'[i] = worker[i] /\ worker[i] \in 1..polled)
             \/ (i = Len(worker) + 1 /\ worker'[i] = polled + 1)
  BY <1>2, <1>4
<1>6. Asking' = Asking /\ Service!Waiting' = Service!Waiting
  BY <1>1 DEF Asking, Service!Waiting
<1>7. TypeOK'
  BY <1>1, <1>2, <1>4 DEF IInv, TypeOK
<1>8. \A n : Fresh(n) <=> Fresh(n)'
  BY <1>1, <1>6 DEF Fresh
<1>9. FreshAhead'
  BY <1>1, <1>2, <1>3, <1>5, <1>8 DEF IInv, FreshAhead, Record
<1>10. Polled'
  <2>1. \A i \in DOMAIN worker' : worker'[i] <= polled'
    BY <1>1, <1>2, <1>5
  <2>2. \A i, j \in DOMAIN worker' : worker'[i] = worker'[j] => i = j
    BY <1>2, <1>5 DEF IInv, Polled
  <2> QED
    BY <1>1, <1>2, <1>6, <2>1, <2>2 DEF IInv, Polled
<1>11. BookKeys'
  BY <1>1, <1>2 DEF IInv, BookKeys
<1>12. \A n : (Holds(n) <=> Holds(n)') /\ (Routed(n) => Routed(n)')
  BY <1>1 DEF Holds, Booked, Routed
<1> QED
  BY <1>1, <1>6, <1>7, <1>9, <1>10, <1>11, <1>12
     DEF IInv, AskedOnce, AskersHold, IoHolds, BookedUnanswered, RoutedWhy, BookedWhy, LastOnce

LEMMA StepCommit ==
    ASSUME IInv, Commit
    PROVE  IInv'
<1>1. /\ committed' = polled
      /\ UNCHANGED <<log, polled, worker, book, pending, asked, answered, rejected, io, lasts,
                     fate, crashes>>
  BY DEF Commit, Offset, books, rest, result
<1>2. Asking' = Asking /\ Service!Waiting' = Service!Waiting
  BY <1>1 DEF Asking, Service!Waiting
<1>3. TypeOK' /\ Polled'
  BY <1>1, <1>2, Ranges DEF IInv, TypeOK, Polled
<1> QED
  BY <1>1, <1>2, <1>3
     DEF IInv, FreshAhead, Fresh, AskedOnce, BookKeys, AskersHold, Holds, Booked, Routed,
         IoHolds, BookedUnanswered, RoutedWhy, BookedWhy, LastOnce

(* All that is read again is as it was before it was read.                 *)
LEMMA StepCrash ==
    ASSUME IInv, Crash
    PROVE  IInv'
<1>1. /\ polled' = committed /\ worker' = <<>> /\ book' = <<>> /\ pending' = {}
      /\ asked' = <<>> /\ answered' = <<>> /\ rejected' = {} /\ io' = Idle
      /\ crashes < MaxCrashes /\ crashes' = crashes + 1
      /\ lasts' = [n \in Record |-> IF n > committed THEN 0 ELSE lasts[n]]
      /\ UNCHANGED <<log, committed>>
  BY DEF Crash
<1>2. fate' \in [Record -> {"Open", "Duplicate", "Overtaken", "Unknown", "Lost"}]
  BY DEF Crash, IInv, TypeOK
<1>3. /\ DOMAIN worker' = {} /\ DOMAIN book' = {} /\ Range(book') = {} /\ Len(asked') = 0
  BY <1>1, EmptySeq DEF Range
<1>4. Service!Waiting' = {} /\ Asking' = {}
  BY <1>3 DEF Service!Waiting, Asking
<1>5. lasts' \in [Record -> Nat] /\ \A n \in Record : lasts'[n] <= 1
  BY <1>1 DEF IInv, TypeOK, LastOnce
<1>6. TypeOK'
  <2>1. crashes' \in 0..MaxCrashes
    BY <1>1, BoundAssumption DEF IInv, TypeOK
  <2> QED
    BY <1>1, <1>2, <1>3, <1>5, <2>1, EmptySeq DEF IInv, TypeOK, Idle
<1>7. Polled' /\ FreshAhead'
  BY <1>1, <1>3, <1>4, Ranges DEF IInv, Polled, FreshAhead, Fresh, Idle, Record
<1> QED
  BY <1>1, <1>3, <1>4, <1>5, <1>6, <1>7
     DEF IInv, AskedOnce, BookKeys, AskersHold, IoHolds, BookedUnanswered, RoutedWhy,
         BookedWhy, LastOnce, Idle
-----------------------------------------------------------------------------
(* The steps of the worker.                                                *)

(* The record it takes is fresh; whatever is done with it, those ahead and *)
(* those still in the queue stay as they are.                              *)
LEMMA TakeRecord ==
    ASSUME IInv, worker # <<>>, worker' = Tail(worker), NEW n, n = Head(worker),
           UNCHANGED <<kafka, io>>,
           \A m \in Record \ {n} : lasts'[m] = lasts[m],
           Asking' \subseteq Asking \cup {n},
           \A id \in DOMAIN book' : book'[id] = n \/ (id \in DOMAIN book /\ book'[id] = book[id])
    PROVE  /\ worker' \in Seq(Record)
           /\ FreshAhead'
           /\ Polled'
<1>1. /\ worker' \in Seq(Record) /\ n = worker[1]
      /\ Len(worker) \in Nat /\ 1 <= Len(worker) /\ DOMAIN worker = 1..Len(worker)
      /\ DOMAIN worker' = 1..(Len(worker) - 1)
      /\ \A i \in 1..(Len(worker) - 1) : worker'[i] = worker[i + 1]
  BY TailElements DEF IInv, TypeOK
<1>2. /\ MaxSent \in Nat /\ polled \in Nat /\ polled <= MaxSent
      /\ \A i \in DOMAIN worker : worker[i] \in 1..polled
  BY Ranges
<1>3. n \in 1..polled /\ n \in Record
  BY <1>1, <1>2 DEF Record
<1>4. \A i \in DOMAIN worker' : /\ i \in DOMAIN worker /\ i + 1 \in DOMAIN worker
                                /\ worker'[i] = worker[i + 1] /\ worker'[i] # n
                                /\ worker'[i] \in 1..polled
  <2>1. \A i, j \in DOMAIN worker : worker[i] = worker[j] => i = j
    BY DEF IInv, Polled
  <2> QED
    BY <1>1, <1>2, <2>1
<1>5. \A m \in Record \ {n} : Fresh(m) => Fresh(m)'
  BY DEF Fresh
<1>6. FreshAhead'
  <2>1. \A m \in Record : m > polled' => Fresh(m)'
    <3>1. \A m \in Record : m > polled => m # n /\ Fresh(m)
      BY <1>2, <1>3 DEF IInv, FreshAhead, Record
    <3>2. polled' = polled
      BY DEF kafka
    <3> QED
      BY <1>5, <3>1, <3>2
  <2>2. \A i \in DOMAIN worker' : worker'[i] \in Record \ {n} /\ Fresh(worker'[i])
    <3>1. \A j \in DOMAIN worker : Fresh(worker[j])
      BY DEF IInv, FreshAhead
    <3> QED
      BY <1>2, <1>4, <3>1 DEF Record
  <2>3. \A i \in DOMAIN worker' : Fresh(worker[i])'
    BY <2>2 DEF Fresh
  <2> QED
    BY <2>1, <2>3 DEF FreshAhead
<1>7. Polled'
  <2>1. \A i, j \in DOMAIN worker' : worker'[i] = worker'[j] => i = j
    <3>1. \A i, j \in DOMAIN worker : worker[i] = worker[j] => i = j
      BY DEF IInv, Polled
    <3>2. SUFFICES ASSUME NEW i \in DOMAIN worker', NEW j \in DOMAIN worker', worker'[i] = worker'[j]
                   PROVE  i = j
      OBVIOUS
    <3>3. i + 1 = j + 1
      BY <1>4, <3>1, <3>2
    <3> QED
      BY <1>1, <3>2, <3>3
  <2>2. \A i \in DOMAIN worker' : worker'[i] <= polled'
    BY <1>2, <1>4 DEF kafka
  <2>3. \A m \in Asking' : m <= polled'
    BY <1>2, <1>3 DEF IInv, Polled, kafka
  <2> QED
    BY <2>1, <2>2, <2>3 DEF IInv, Polled, kafka
<1> QED
  BY <1>1, <1>6, <1>7

LEMMA HeadIsFresh ==
    ASSUME IInv, worker # <<>>, NEW n, n = Head(worker)
    PROVE  n \in 1..polled /\ n \in Record /\ Fresh(n) /\ log[n].id \in {r.id : r \in Requests}
<1>1. n = worker[1] /\ 1 \in DOMAIN worker
  BY TailElements DEF IInv, TypeOK
<1>2. n \in 1..polled /\ n \in Record /\ n \in 1..Len(log) /\ Fresh(n)
  BY <1>1, Ranges DEF IInv, FreshAhead, Record
<1>3. log[n] \in Requests
  BY <1>2, ElementOfSeq DEF IInv, TypeOK
<1> QED
  BY <1>2, <1>3

(* The record is done with, or dropped.                                    *)
LEMMA StepDone ==
    ASSUME IInv, worker # <<>>, worker' = Tail(worker), NEW n, n = Head(worker),
           UNCHANGED <<kafka, io, crashes, books>>,
           Asking' = Asking, AskedOnce', asked' \in Seq(Record),
           answered' \in Seq(1..Len(asked')), rejected' \subseteq 1..Len(asked'),
           \/ SendLast(n)
           \/ \E how \in {"Duplicate", "Overtaken"} : Turn(n, how)
    PROVE  IInv'
<1>1. n \in Record /\ Fresh(n)
  BY HeadIsFresh
<1>2. /\ lasts' \in [Record -> Nat]
      /\ fate' \in [Record -> {"Open", "Duplicate", "Overtaken", "Unknown", "Lost"}]
      /\ \A m \in Record \ {n} : lasts'[m] = lasts[m] /\ fate'[m] = fate[m]
      /\ lasts'[n] <= 1
  <2>1. lasts \in [Record -> Nat] /\ lasts[n] = 0
        /\ fate \in [Record -> {"Open", "Duplicate", "Overtaken", "Unknown", "Lost"}]
    BY <1>1 DEF IInv, TypeOK, Fresh
  <2>2. CASE SendLast(n)
    BY <1>1, <2>1, <2>2 DEF SendLast
  <2>3. CASE \E how \in {"Duplicate", "Overtaken"} : Turn(n, how)
    <3>1. PICK how \in {"Duplicate", "Overtaken"} : Turn(n, how)
      BY <2>3
    <3> QED
      BY <1>1, <2>1, <3>1 DEF Turn
  <2> QED
    BY <2>2, <2>3
<1>3. worker' \in Seq(Record) /\ FreshAhead' /\ Polled'
  BY <1>2, TakeRecord DEF books
<1>4. TypeOK'
  BY <1>2, <1>3 DEF IInv, TypeOK, kafka, books
<1>5. \A id \in DOMAIN book : book[id] \in Record \ {n}
  BY <1>1, Ranges DEF Fresh, Record
<1>6. BookedUnanswered' /\ BookedWhy' /\ LastOnce'
  BY <1>2, <1>5 DEF IInv, BookedUnanswered, BookedWhy, LastOnce, books
<1>7. BookKeys' /\ RoutedWhy'
  BY DEF IInv, BookKeys, RoutedWhy, books, kafka
<1>8. \A m : (Holds(m) <=> Holds(m)') /\ (Routed(m) => Routed(m)')
  BY DEF Holds, Booked, Routed, books, kafka
<1>9. AskersHold' /\ IoHolds'
  BY <1>8 DEF IInv, AskersHold, IoHolds, books, kafka
<1> QED
  BY <1>3, <1>4, <1>6, <1>7, <1>9 DEF IInv

(* The id is booked, and the request has its fate.                         *)
LEMMA StepBookInVain ==
    ASSUME IInv, worker # <<>>, worker' = Tail(worker), NEW n, n = Head(worker),
           UNCHANGED <<kafka, io, crashes>>, BookInVain(n)
    PROVE  IInv'
<1> DEFINE id == log[n].id
<1>1. n \in 1..polled /\ n \in Record /\ Fresh(n) /\ id \in {r.id : r \in Requests}
  BY HeadIsFresh
<1>2. PICK how \in {"Unknown", "Overtaken"} : Turn(n, how)
  BY DEF BookInVain
<1>3. /\ fate' = [fate EXCEPT ![n] = how] /\ lasts' = lasts
      /\ book' = Book(id, n) /\ id \notin DOMAIN book
      /\ UNCHANGED <<log, polled, committed, pending, asked, answered, rejected, io, crashes>>
  BY <1>2 DEF Turn, BookInVain, Booked, kafka, rest
<1>4. /\ DOMAIN book' = DOMAIN book \cup {id} /\ book'[id] = n
      /\ \A i \in DOMAIN book : i # id /\ book'[i] = book[i] /\ book[i] # n
  BY <1>1, <1>3 DEF Book, Fresh
<1>5. Asking' = Asking /\ Service!Waiting' = Service!Waiting
  BY <1>3 DEF Asking, Service!Waiting
<1>6. worker' \in Seq(Record) /\ FreshAhead' /\ Polled'
  BY <1>3, <1>4, <1>5, TakeRecord
<1>7. /\ fate' \in [Record -> {"Open", "Duplicate", "Overtaken", "Unknown", "Lost"}]
      /\ fate'[n] \in {"Unknown", "Overtaken"}
      /\ \A m \in Record \ {n} : fate'[m] = fate[m]
  <2>1. fate \in [Record -> {"Open", "Duplicate", "Overtaken", "Unknown", "Lost"}]
    BY DEF IInv, TypeOK
  <2> QED
    BY <1>1, <1>3, <2>1
<1> HIDE DEF id
<1>8. TypeOK'
  <2>1. DOMAIN book' \subseteq {r.id : r \in Requests} /\ Range(book') \subseteq Record
    BY <1>1, <1>4 DEF IInv, TypeOK, Range
  <2> QED
    BY <1>3, <1>6, <1>7, <2>1 DEF IInv, TypeOK
<1>9. BookKeys'
  BY <1>1, <1>3, <1>4 DEF IInv, BookKeys, id
<1>10. \A i \in DOMAIN book : book[i] \in Record
  BY Ranges DEF Record
<1>11. BookedUnanswered' /\ BookedWhy' /\ LastOnce'
  BY <1>1, <1>3, <1>4, <1>5, <1>7, <1>10 DEF IInv, BookedUnanswered, BookedWhy, LastOnce, Fresh
<1>12. RoutedWhy' /\ AskedOnce'
  BY <1>3, <1>5 DEF IInv, RoutedWhy, AskedOnce
<1>13. \A m : (Holds(m) => Holds(m)') /\ (Routed(m) => Routed(m)')
  BY <1>3, <1>4 DEF Holds, Booked, Routed
<1>14. AskersHold' /\ IoHolds'
  BY <1>1, <1>3, <1>4, <1>5, <1>13 DEF IInv, AskersHold, IoHolds, Fresh
<1> QED
  BY <1>6, <1>8, <1>9, <1>11, <1>12, <1>14 DEF IInv

(* The snapshot is asked for, and the request waits for it.                *)
LEMMA StepWait ==
    ASSUME IInv, worker # <<>>, worker' = Tail(worker), NEW n, n = Head(worker),
           UNCHANGED <<kafka, io, crashes>>, ~Booked(n), ~Routed(n), Wait(n),
           Asking' = Asking \cup {n}, AskedOnce', asked' \in Seq(Record),
           answered' \in Seq(1..Len(asked')), rejected' \subseteq 1..Len(asked')
    PROVE  IInv'
<1> DEFINE id == log[n].id
<1>1. n \in 1..polled /\ n \in Record /\ Fresh(n) /\ id \in {r.id : r \in Requests}
  BY HeadIsFresh
<1>2. /\ book' = Book(id, n) /\ id \notin DOMAIN book
      /\ pending' = pending \cup {id} /\ id \notin pending
      /\ UNCHANGED <<log, polled, committed, io, lasts, fate, crashes>>
  BY DEF Wait, Booked, Routed, kafka, result
<1>3. /\ DOMAIN book' = DOMAIN book \cup {id} /\ book'[id] = n
      /\ \A i \in DOMAIN book : i # id /\ book'[i] = book[i] /\ book[i] # n
  BY <1>1, <1>2 DEF Book, Fresh
<1>4. worker' \in Seq(Record) /\ FreshAhead' /\ Polled'
  BY <1>2, <1>3, TakeRecord
<1>5. Holds(n)'
  BY <1>2, <1>3 DEF Holds, Booked, Routed, id
<1> HIDE DEF id
<1>6. TypeOK'
  <2>1. DOMAIN book' \subseteq {r.id : r \in Requests} /\ Range(book') \subseteq Record
    BY <1>1, <1>3 DEF IInv, TypeOK, Range
  <2> QED
    BY <1>1, <1>2, <1>4, <2>1 DEF IInv, TypeOK
<1>7. BookKeys'
  BY <1>1, <1>2, <1>3 DEF IInv, BookKeys, id
<1>8. BookedUnanswered' /\ BookedWhy' /\ LastOnce'
  BY <1>1, <1>2, <1>3 DEF IInv, BookedUnanswered, BookedWhy, LastOnce, Fresh
<1>9. RoutedWhy'
  BY <1>2 DEF IInv, RoutedWhy, id
<1>10. \A m : (Holds(m) => Holds(m)') /\ (Routed(m) => Routed(m)')
  BY <1>2, <1>3 DEF Holds, Booked, Routed
<1>11. io.step # "Idle" => id # log[io.record].id
  <2>1. io.step \in {"Respond", "Unbook"} => log[io.record].id \in pending
    BY DEF IInv, IoHolds, Holds, Routed
  <2>2. io.step = "Unroute" => log[io.record].id \in pending
    BY DEF IInv, IoHolds, Routed
  <2> QED
    BY <1>2, <2>1, <2>2 DEF IInv, TypeOK
<1>12. AskersHold' /\ IoHolds'
  BY <1>1, <1>2, <1>3, <1>5, <1>10, <1>11 DEF IInv, AskersHold, IoHolds, Fresh, id
<1> QED
  BY <1>4, <1>6, <1>7, <1>8, <1>9, <1>12 DEF IInv

LEMMA StepRunWorker ==
    ASSUME IInv, RunWorker
    PROVE  IInv'
<1> DEFINE n == Head(worker)
<1>1. /\ worker # <<>> /\ worker' = Tail(worker) /\ UNCHANGED <<kafka, io, crashes>>
      /\ HandleRequest(n)
  BY DEF RunWorker
<1>2. n \in Record /\ Fresh(n)
  BY <1>1, HeadIsFresh
<1> HIDE DEF n
<1>3. ASSUME UNCHANGED rest
      PROVE  /\ Asking' = Asking /\ AskedOnce' /\ asked' \in Seq(Record)
             /\ answered' \in Seq(1..Len(asked')) /\ rejected' \subseteq 1..Len(asked')
  <2>1. UNCHANGED <<asked, answered, rejected>>
    BY <1>3 DEF rest
  <2> QED
    BY <2>1 DEF Asking, AskedOnce, Service!Waiting, IInv, TypeOK
<1>4. CASE Refuse(n)
  <2>1. UNCHANGED books /\ \E how \in {"Duplicate", "Overtaken"} : Turn(n, how)
    BY <1>4 DEF Refuse, Dropped
  <2>2. UNCHANGED rest
    BY <1>4 DEF Refuse
  <2> QED
    BY <1>1, <1>3, <2>1, <2>2, StepDone DEF n
<1>5. CASE Pong(n)
  <2>1. UNCHANGED books /\ SendLast(n)
    BY <1>5 DEF Pong
  <2>2. UNCHANGED rest
    BY <1>5 DEF Pong
  <2> QED
    BY <1>1, <1>3, <2>1, <2>2, StepDone DEF n
<1>6. CASE BookInVain(n)
  BY <1>1, <1>6, StepBookInVain DEF n
<1>7. CASE ListInstruments(n)
  <2>1. UNCHANGED books /\ SendLast(n)
    BY <1>7 DEF ListInstruments
  <2>2. UNCHANGED rest
    BY <1>7 DEF ListInstruments
  <2> QED
    BY <1>1, <1>3, <2>1, <2>2, StepDone DEF n
<1>8. CASE GetPrice(n)
  <2>1. /\ ~Booked(n) /\ ~Routed(n)
        /\ asked' = Append(asked, n) /\ Service!Ask
        /\ IF Len(asked') \in rejected' THEN NullSnapShot(n) ELSE Wait(n)
    BY <1>8 DEF GetPrice
  <2>2. n \notin Asking
    BY <1>2 DEF Fresh
  <2>3. /\ asked' \in Seq(Record)
        /\ answered' \in Seq(1..Len(asked')) /\ rejected' \subseteq 1..Len(asked')
        /\ Asking' = IF Len(asked') \in rejected' THEN Asking ELSE Asking \cup {n}
        /\ AskedOnce'
    BY <1>2, <2>1, <2>2, AskAdds
  <2>4. CASE Len(asked') \in rejected'
    <3>1. SendLast(n) /\ UNCHANGED books /\ Asking' = Asking
      BY <2>1, <2>3, <2>4 DEF NullSnapShot
    <3> QED
      BY <1>1, <2>3, <3>1, StepDone DEF n
  <2>5. CASE Len(asked') \notin rejected'
    <3>1. Wait(n) /\ Asking' = Asking \cup {n}
      BY <2>1, <2>3, <2>5
    <3> QED
      BY <1>1, <2>1, <2>3, <3>1, StepWait DEF n
  <2> QED
    BY <2>4, <2>5
<1> QED
  BY <1>1, <1>4, <1>5, <1>6, <1>7, <1>8 DEF HandleRequest
-----------------------------------------------------------------------------
(* The steps of the io thread.                                             *)

LEMMA StepOnAnswer ==
    ASSUME IInv, OnAnswer
    PROVE  IInv'
<1>1. PICK k \in Service!Waiting :
          /\ Service!Answer(k)
          /\ io' = IF Routed(asked[k]) THEN [step |-> "Respond", record |-> asked[k]] ELSE Idle
  BY DEF OnAnswer
<1> DEFINE n == asked[k]
<1>2. /\ io = Idle
      /\ UNCHANGED <<log, polled, committed, worker, book, pending, asked, lasts, fate, crashes>>
  BY DEF OnAnswer, kafka, books, result
<1>3. /\ answered' \in Seq(1..Len(asked')) /\ rejected' = rejected
      /\ n \in Asking /\ Asking' = Asking \ {n} /\ AskedOnce'
  BY <1>1, <1>2, AnswerTakes
<1>4. n \in 1..polled /\ n \in Record /\ Holds(n) /\ polled \in Nat /\ polled <= MaxSent
  BY <1>3, Ranges DEF IInv, AskersHold, Record
<1>5. io' = [step |-> "Respond", record |-> n]
  BY <1>1, <1>4 DEF Holds
<1> HIDE DEF n
<1>6. io.step = "Idle" /\ io.record = 0 /\ io'.step = "Respond" /\ io'.record = n
  BY <1>2, <1>5 DEF Idle
<1>7. TypeOK'
  BY <1>2, <1>3, <1>4, <1>5 DEF IInv, TypeOK
<1>8. FreshAhead'
  <2>1. \A m : Fresh(m) => m # n
    BY <1>3 DEF Fresh
  <2>2. \A m : Fresh(m) => Fresh(m)'
    BY <1>2, <1>3, <1>6, <2>1 DEF Fresh
  <2> QED
    BY <1>2, <2>2 DEF IInv, FreshAhead
<1>9. Polled'
  BY <1>2, <1>3, <1>4, <1>6 DEF IInv, Polled
<1>10. \A m : (Holds(m) <=> Holds(m)') /\ (Routed(m) <=> Routed(m)')
  BY <1>2 DEF Holds, Booked, Routed
<1>11. AskersHold'
  <2>1. ASSUME NEW m \in Asking', log[m].id = log[n].id PROVE FALSE
    <3>1. m \in Asking /\ m # n /\ Holds(m)
      BY <1>3, <2>1 DEF IInv, AskersHold
    <3> QED
      BY <1>4, <2>1, <3>1 DEF Holds
  <2> QED
    BY <1>2, <1>3, <1>6, <1>10, <2>1 DEF IInv, AskersHold
<1>12. IoHolds'
  BY <1>4, <1>6, <1>10 DEF IoHolds
<1>13. BookKeys' /\ BookedUnanswered' /\ LastOnce'
  BY <1>2, <1>6 DEF IInv, BookKeys, BookedUnanswered, LastOnce
<1>14. RoutedWhy' /\ BookedWhy'
  <2>1. \A m \in Asking : m \in Asking' \/ m = n
    BY <1>3
  <2>2. \A id \in DOMAIN book : book[id] # 0
    BY Ranges
  <2> QED
    BY <1>2, <1>6, <2>1, <2>2 DEF IInv, RoutedWhy, BookedWhy
<1> QED
  BY <1>3, <1>7, <1>8, <1>9, <1>11, <1>12, <1>13, <1>14 DEF IInv

(* The answer goes to the topic of the record it was fetched for.          *)
LEMMA StepRespond ==
    ASSUME IInv, Respond
    PROVE  IInv'
<1> DEFINE n == io.record
<1>1. io.step = "Respond" /\ n \in 1..polled /\ n \in Record /\ Holds(n)
  BY Ranges DEF Respond, IInv, IoHolds, Record
<1>2. /\ lasts' = [lasts EXCEPT ![n] = @ + 1] /\ io' = [io EXCEPT !.step = "Unbook"]
      /\ UNCHANGED <<log, polled, committed, worker, book, pending, asked, answered, rejected,
                     fate, crashes>>
  BY <1>1 DEF Respond, SendLast, Holds, kafka, books, rest
<1>3. io'.step = "Unbook" /\ io'.record = n /\ io' \in [step : {"Idle", "Respond", "Unbook", "Unroute"}, record : Record \cup {0}]
  BY <1>2 DEF IInv, TypeOK
<1>4. lasts[n] = 0
  BY <1>1 DEF IInv, BookedUnanswered, Holds, Booked
<1>5. /\ lasts' \in [Record -> Nat] /\ lasts'[n] = 1
      /\ \A m \in Record \ {n} : lasts'[m] = lasts[m]
  BY <1>1, <1>2, <1>4 DEF IInv, TypeOK
<1> HIDE DEF n
<1>6. Asking' = Asking /\ Service!Waiting' = Service!Waiting
  BY <1>2 DEF Asking, Service!Waiting
<1>7. TypeOK'
  BY <1>2, <1>3, <1>5 DEF IInv, TypeOK
<1>8. FreshAhead'
  <2>1. \A m \in Record : Fresh(m) => Fresh(m)'
    BY <1>2, <1>3, <1>5, <1>6 DEF Fresh, n
  <2>2. \A i \in DOMAIN worker : worker[i] \in Record
    BY Ranges DEF Record
  <2> QED
    BY <1>2, <2>1, <2>2 DEF IInv, FreshAhead
<1>9. Polled'
  BY <1>1, <1>2, <1>3, <1>6 DEF IInv, Polled, n
<1>10. \A m : (Holds(m) => Holds(m)') /\ (Routed(m) => Routed(m)')
  BY <1>2 DEF Holds, Booked, Routed
<1>11. AskersHold' /\ IoHolds' /\ RoutedWhy'
  BY <1>1, <1>2, <1>3, <1>6, <1>10 DEF IInv, AskersHold, IoHolds, RoutedWhy, n
<1>12. BookedUnanswered'
  <2>1. \A id \in DOMAIN book : book[id] \in Record
    BY Ranges DEF Record
  <2> QED
    BY <1>1, <1>2, <1>3, <1>5, <2>1 DEF IInv, BookedUnanswered
<1>13. BookKeys' /\ BookedWhy' /\ LastOnce' /\ AskedOnce'
  BY <1>2, <1>3, <1>5, <1>6 DEF IInv, BookKeys, BookedWhy, LastOnce, AskedOnce, n
<1> QED
  BY <1>7, <1>8, <1>9, <1>11, <1>12, <1>13 DEF IInv

(* ... and its id is taken out of the book ...                             *)
LEMMA StepUnbook ==
    ASSUME IInv, Unbook
    PROVE  IInv'
<1> DEFINE n  == io.record
           id == log[n].id
<1>1. io.step = "Unbook" /\ n \in 1..polled /\ n \in Record /\ Holds(n)
  BY Ranges DEF Unbook, IInv, IoHolds, Record
<1>2. /\ book' = Without(book, id) /\ io' = [io EXCEPT !.step = "Unroute"]
      /\ UNCHANGED <<log, polled, committed, worker, pending, asked, answered, rejected, lasts,
                     fate, crashes>>
  BY DEF Unbook, kafka, rest, result
<1>3. io'.step = "Unroute" /\ io'.record = n /\ io' \in [step : {"Idle", "Respond", "Unbook", "Unroute"}, record : Record \cup {0}]
  BY <1>2 DEF IInv, TypeOK
<1>4. DOMAIN book' = DOMAIN book \ {id} /\ \A i \in DOMAIN book' : book'[i] = book[i]
  BY <1>2 DEF Without, Restrict
<1>5. \A i \in DOMAIN book' : book'[i] # n
  BY <1>4 DEF IInv, BookKeys
<1>6. Asking' = Asking /\ Service!Waiting' = Service!Waiting
  BY <1>2 DEF Asking, Service!Waiting
<1>7. TypeOK'
  <2>1. DOMAIN book' \subseteq {r.id : r \in Requests} /\ Range(book') \subseteq Record
    BY <1>4 DEF IInv, TypeOK, Range
  <2> QED
    BY <1>2, <1>3, <2>1 DEF IInv, TypeOK
<1>8. FreshAhead'
  <2>1. \A m : Fresh(m) => Fresh(m)'
    BY <1>2, <1>3, <1>4, <1>6 DEF Fresh
  <2> QED
    BY <1>2, <2>1 DEF IInv, FreshAhead
<1>9. Polled'
  BY <1>1, <1>2, <1>3, <1>6 DEF IInv, Polled
<1>10. ASSUME NEW m, Holds(m), log[m].id # id PROVE Holds(m)'
  BY <1>2, <1>4, <1>10 DEF Holds, Booked, Routed
<1>11. AskersHold' /\ IoHolds' /\ RoutedWhy'
  <2>1. \A m \in Asking : Holds(m) /\ log[m].id # id
    BY <1>1 DEF IInv, AskersHold
  <2>2. Routed(n)'
    BY <1>1, <1>2 DEF Holds, Routed
  <2>3. AskersHold'
    BY <1>2, <1>3, <1>6, <1>10, <2>1 DEF AskersHold
  <2>4. IoHolds'
    BY <1>3, <1>5, <2>2 DEF IoHolds, Routed
  <2>5. RoutedWhy'
    BY <1>1, <1>2, <1>3, <1>6 DEF IInv, RoutedWhy
  <2> QED
    BY <2>3, <2>4, <2>5
<1>12. BookKeys' /\ BookedUnanswered' /\ BookedWhy' /\ LastOnce' /\ AskedOnce'
  BY <1>2, <1>3, <1>4, <1>5, <1>6
     DEF IInv, BookKeys, BookedUnanswered, BookedWhy, LastOnce, AskedOnce
<1> QED
  BY <1>7, <1>8, <1>9, <1>11, <1>12 DEF IInv

(* ... and of the router.                                                  *)
LEMMA StepUnroute ==
    ASSUME IInv, Unroute
    PROVE  IInv'
<1> DEFINE n  == io.record
           id == log[n].id
<1>1. io.step = "Unroute" /\ n \in 1..polled /\ \A i \in DOMAIN book : book[i] # n
  BY Ranges DEF Unroute, IInv, IoHolds
<1>2. /\ pending' = pending \ {id} /\ io' = Idle
      /\ UNCHANGED <<log, polled, committed, worker, book, asked, answered, rejected, lasts,
                     fate, crashes>>
  BY DEF Unroute, Forget, kafka, rest, result
<1>3. io'.step = "Idle" /\ io'.record = 0
  BY <1>2 DEF Idle
<1>4. Asking' = Asking /\ Service!Waiting' = Service!Waiting
  BY <1>2 DEF Asking, Service!Waiting
<1>5. TypeOK'
  BY <1>2 DEF IInv, TypeOK, Idle
<1>6. FreshAhead'
  <2>1. \A m \in Record : Fresh(m) => Fresh(m)'
    BY <1>2, <1>3, <1>4 DEF Fresh, Record
  <2>2. \A i \in DOMAIN worker : worker[i] \in Record
    BY Ranges DEF Record
  <2> QED
    BY <1>2, <2>1, <2>2 DEF IInv, FreshAhead
<1>7. Polled'
  BY <1>2, <1>3, <1>4, Ranges DEF IInv, Polled
<1>8. AskersHold' /\ IoHolds' /\ RoutedWhy'
  <2>1. \A m \in Asking : Holds(m) /\ log[m].id # id
    BY <1>1 DEF IInv, AskersHold
  <2>2. \A m \in Asking : Holds(m)'
    BY <1>2, <2>1 DEF Holds, Booked, Routed
  <2>3. RoutedWhy'
    BY <1>2, <1>4 DEF IInv, RoutedWhy
  <2> QED
    BY <1>3, <1>4, <2>2, <2>3 DEF AskersHold, IoHolds
<1>9. BookKeys' /\ BookedUnanswered' /\ BookedWhy' /\ LastOnce' /\ AskedOnce'
  BY <1>1, <1>2, <1>4 DEF IInv, BookKeys, BookedUnanswered, BookedWhy, LastOnce, AskedOnce
<1> QED
  BY <1>5, <1>6, <1>7, <1>8, <1>9 DEF IInv
-----------------------------------------------------------------------------
LEMMA StepPreserves == IInv /\ [Next]_vars => IInv'
<1> SUFFICES ASSUME IInv, [Next]_vars PROVE IInv'
  OBVIOUS
<1>1. CASE \E request \in Requests : Send(request)
  BY <1>1, StepSend
<1>2. CASE Poll
  BY <1>2, StepPoll
<1>3. CASE Commit
  BY <1>3, StepCommit
<1>4. CASE RunWorker
  BY <1>4, StepRunWorker
<1>5. CASE OnAnswer
  BY <1>5, StepOnAnswer
<1>6. CASE Respond
  BY <1>6, StepRespond
<1>7. CASE Unbook
  BY <1>7, StepUnbook
<1>8. CASE Unroute
  BY <1>8, StepUnroute
<1>9. CASE Crash
  BY <1>9, StepCrash
<1>10. CASE UNCHANGED vars
  <2>1. UNCHANGED <<log, polled, committed, worker, book, pending, asked, answered, rejected,
                    io, lasts, fate, crashes>>
    BY <1>10 DEF vars, kafka, books, rest, result
  <2>2. Asking' = Asking /\ Service!Waiting' = Service!Waiting
    BY <2>1 DEF Asking, Service!Waiting
  <2> QED
    BY <2>1, <2>2
       DEF IInv, TypeOK, FreshAhead, Fresh, Polled, AskedOnce, BookKeys, AskersHold, Holds,
           Booked, Routed, IoHolds, BookedUnanswered, RoutedWhy, BookedWhy, LastOnce
<1> QED
  BY <1>1, <1>2, <1>3, <1>4, <1>5, <1>6, <1>7, <1>8, <1>9, <1>10 DEF Next

(* The invariant, for any requests, however many crashes there are.        *)
THEOREM Invariant == Spec => []IInv
<1> QED
  BY InitEstablishes, StepPreserves, PTL DEF Spec

(* Every variable keeps its type.                                          *)
THEOREM TypeCorrect == Spec => []TypeOK
<1>1. IInv => TypeOK
  BY DEF IInv
<1> QED
  BY <1>1, Invariant, PTL

(* When the io thread comes to send a snapshot, the topic booked under the *)
(* id is that of the request it was fetched for, and no request is sent    *)
(* two last responses between two crashes.                                 *)
THEOREM RightAsker == Spec => []AnswerReachesItsAsker
<1>1. IInv => AnswerReachesItsAsker
  BY DEF IInv, IoHolds, Holds, LastOnce, AnswerReachesItsAsker
<1> QED
  BY <1>1, Invariant, PTL

(* No entry of the book is forgotten: an answer will come for it, unless   *)
(* the request was one that nobody serves.                                 *)
THEOREM NothingForgotten == Spec => []BookedIsOnItsWay
<1>1. IInv => BookedIsOnItsWay
  BY DEF IInv, BookedWhy, BookedIsOnItsWay, OnItsWay, Asking
<1> QED
  BY <1>1, Invariant, PTL

(* Why an id was found in a book although it waits for nothing.            *)
LEMMA RaceOnly ==
    ASSUME IInv, [Next]_vars,
           NEW n \in Record, fate[n] # "Overtaken", fate'[n] = "Overtaken"
    PROVE  io.step \in {"Unbook", "Unroute"}
<1>1. fate' # fate
  OBVIOUS
<1>2. CASE RunWorker
  <2> DEFINE m == Head(worker)
  <2>1. worker # <<>> /\ HandleRequest(m)
    BY <1>2 DEF RunWorker
  <2>2. m \in Record
    BY <2>1, HeadIsFresh
  <2> HIDE DEF m
  <2>3. fate \in [Record -> {"Open", "Duplicate", "Overtaken", "Unknown", "Lost"}]
    BY DEF IInv, TypeOK
  <2>4. CASE Refuse(m)
    <3>1. Booked(m) /\ fate' = [fate EXCEPT ![m] = Dropped(m)]
      BY <2>4 DEF Refuse, Turn
    <3>2. Dropped(m) = "Overtaken"
      BY <2>2, <2>3, <3>1
    <3>3. lasts[book[log[m].id]] # 0
      BY <3>1, <3>2 DEF Dropped
    <3> QED
      BY <3>1, <3>3 DEF IInv, BookedUnanswered, Booked
  <2>5. CASE BookInVain(m)
    <3>1. ~Booked(m) /\ Routed(m)
      <4>1. CASE Turn(m, "Unknown")
        BY <2>2, <2>3, <4>1 DEF Turn
      <4> QED
        BY <2>5, <4>1 DEF BookInVain
    <3>2. \A a \in Asking : log[a].id # log[m].id
      BY <3>1 DEF IInv, AskersHold, Holds, Booked
    <3>3. io.step # "Idle" /\ log[io.record].id = log[m].id
      BY <3>1, <3>2 DEF IInv, RoutedWhy, Routed
    <3>4. io.step \notin {"Respond", "Unbook"}
      BY <3>1, <3>3 DEF IInv, IoHolds, Holds, Booked
    <3> QED
      BY <3>3, <3>4 DEF IInv, TypeOK
  <2>6. CASE Pong(m) \/ ListInstruments(m)
    BY <1>1, <2>6 DEF Pong, ListInstruments, SendLast
  <2>7. CASE GetPrice(m)
    BY <1>1, <2>7 DEF GetPrice, NullSnapShot, Wait, SendLast, result
  <2> QED
    BY <2>1, <2>4, <2>5, <2>6, <2>7 DEF HandleRequest
<1>3. CASE Crash
  BY <1>3 DEF Crash
<1>4. CASE Respond
  BY <1>1, <1>4 DEF Respond, SendLast, result
<1>5. CASE \/ \E request \in Requests : Send(request)
           \/ Poll \/ Commit \/ OnAnswer \/ Unbook \/ Unroute
  BY <1>1, <1>5 DEF Send, Poll, Commit, OnAnswer, Unbook, Unroute, result
<1>6. CASE UNCHANGED vars
  BY <1>1, <1>6 DEF vars, result
<1> QED
  BY <1>2, <1>3, <1>4, <1>5, <1>6 DEF Next

(* A request is turned away for an id that has been answered only in the   *)
(* few steps the io thread takes to forget that id.                        *)
THEOREM OvertakenByRace == Spec => OvertakenOnlyInRace
<1> DEFINE A == \A n \in Record : fate[n] # "Overtaken" /\ fate'[n] = "Overtaken"
                                    => io.step \in {"Unbook", "Unroute"}
<1>1. IInv /\ [Next]_vars => A
  BY RaceOnly
<1> QED
  BY <1>1, Invariant, PTL DEF Spec, OvertakenOnlyInRace
-----------------------------------------------------------------------------
(* Where a request can be that has neither a last response nor a fate: in  *)
(* the topic, with the worker, with the exchange, or in the io thread's    *)
(* hands before the response.                                              *)
Tracked(n) ==
    \/ n > polled
    \/ \E i \in DOMAIN worker : worker[i] = n
    \/ n \in Asking
    \/ io.record = n /\ io.step = "Respond"

Settled(n) == lasts[n] > 0 \/ fate[n] # "Open"

NoneVanishes == \A n \in 1..Len(log) : Settled(n) \/ Tracked(n)

LEMMA HandlingSettles ==
    ASSUME IInv, RunWorker, NoneVanishes
    PROVE  NoneVanishes'
<1>0. PICK n : n = Head(worker)
  OBVIOUS
<1>1. /\ worker # <<>> /\ worker' = Tail(worker) /\ HandleRequest(n)
      /\ UNCHANGED <<log, polled, committed, io>>
  BY <1>0 DEF RunWorker, kafka
<1>2. n \in Record /\ n \notin Asking /\ Fresh(n)
  BY <1>0, <1>1, HeadIsFresh DEF Fresh
<1>3. /\ Len(worker) \in Nat /\ DOMAIN worker = 1..Len(worker) /\ n = worker[1]
      /\ DOMAIN worker' = 1..(Len(worker) - 1)
      /\ \A i \in 1..(Len(worker) - 1) : worker'[i] = worker[i + 1]
  BY <1>0, <1>1, TailElements DEF IInv, TypeOK
<1>4. \A m : (\E i \in DOMAIN worker : worker[i] = m) => m = n \/ \E i \in DOMAIN worker' : worker'[i] = m
  <2> SUFFICES ASSUME NEW i \in DOMAIN worker, worker[i] # n
               PROVE  \E j \in DOMAIN worker' : worker'[j] = worker[i]
    OBVIOUS
  <2>1. i - 1 \in 1..(Len(worker) - 1) /\ (i - 1) + 1 = i
    BY <1>3
  <2> QED
    BY <1>3, <2>1
<1>5. /\ lasts \in [Record -> Nat]
      /\ fate \in [Record -> {"Open", "Duplicate", "Overtaken", "Unknown", "Lost"}]
      /\ 1..Len(log) \subseteq Record
  BY Ranges DEF IInv, TypeOK, Record
<1>6. ASSUME NEW how \in {"Duplicate", "Overtaken", "Unknown"}, Turn(n, how)
      PROVE  Settled(n)' /\ \A m \in Record : Settled(m) => Settled(m)'
  BY <1>2, <1>5, <1>6 DEF Turn, Settled
<1>7. ASSUME SendLast(n)
      PROVE  Settled(n)' /\ \A m \in Record : Settled(m) => Settled(m)'
  BY <1>2, <1>5, <1>7 DEF SendLast, Settled
<1>8. /\ \A m \in Record : Settled(m) => Settled(m)'
      /\ Settled(n)' \/ n \in Asking'
      /\ Asking \subseteq Asking'
  <2>1. UNCHANGED rest => Asking' = Asking
    BY DEF rest, Asking, Service!Waiting
  <2>2. CASE Refuse(n)
    <3>1. Dropped(n) \in {"Duplicate", "Overtaken"}
      BY DEF Dropped
    <3> QED
      BY <1>6, <2>1, <2>2, <3>1 DEF Refuse
  <2>3. CASE Pong(n) \/ ListInstruments(n)
    BY <1>7, <2>1, <2>3 DEF Pong, ListInstruments
  <2>4. CASE BookInVain(n)
    BY <1>6, <2>1, <2>4 DEF BookInVain
  <2>5. CASE GetPrice(n)
    <3>1. /\ asked' = Append(asked, n) /\ Service!Ask
          /\ IF Len(asked') \in rejected' THEN NullSnapShot(n) ELSE Wait(n)
      BY <2>5 DEF GetPrice
    <3>2. Asking' = IF Len(asked') \in rejected' THEN Asking ELSE Asking \cup {n}
      BY <1>2, <3>1, AskAdds
    <3>3. CASE Len(asked') \in rejected'
      BY <1>7, <3>1, <3>2, <3>3 DEF NullSnapShot
    <3>4. CASE Len(asked') \notin rejected'
      <4>1. UNCHANGED result
        BY <3>1, <3>4 DEF Wait
      <4> QED
        BY <3>2, <3>4, <4>1 DEF Settled, result
    <3> QED
      BY <3>3, <3>4
  <2> QED
    BY <1>1, <2>2, <2>3, <2>4, <2>5 DEF HandleRequest
<1> QED
  BY <1>1, <1>4, <1>5, <1>8 DEF NoneVanishes, Tracked

LEMMA NoneVanishesInStep == IInv /\ NoneVanishes /\ [Next]_vars => NoneVanishes'
<1> SUFFICES ASSUME IInv, NoneVanishes, [Next]_vars PROVE NoneVanishes'
  OBVIOUS
<1>1. /\ polled \in Nat /\ committed \in Nat /\ Len(log) \in Nat
      /\ committed <= polled /\ polled <= Len(log)
      /\ 1..Len(log) \subseteq Record
      /\ worker \in Seq(Record) /\ lasts \in [Record -> Nat]
  BY Ranges DEF IInv, TypeOK, Record
<1>2. UNCHANGED <<asked, answered, rejected>> => Asking' = Asking
  BY DEF Asking, Service!Waiting
<1>3. ASSUME NEW request \in Requests, Send(request) PROVE NoneVanishes'
  <2>1. /\ log' = Append(log, request) /\ log \in Seq(Requests)
        /\ UNCHANGED <<polled, worker, asked, answered, rejected, io, lasts, fate>>
    BY <1>3 DEF Send, rest, result, IInv, TypeOK
  <2>2. Len(log') = Len(log) + 1
    BY <2>1, AppendElements
  <2>3. \A n \in 1..Len(log') : n \in 1..Len(log) \/ n > polled
    BY <1>1, <2>2
  <2> QED
    BY <1>2, <2>1, <2>3 DEF NoneVanishes, Settled, Tracked
<1>4. CASE Poll
  <2>1. /\ polled' = polled + 1 /\ worker' = Append(worker, polled + 1) /\ polled + 1 \in Record
        /\ UNCHANGED <<log, asked, answered, rejected, io, lasts, fate>>
    BY <1>1, <1>4 DEF Poll, rest, result
  <2>2. /\ Len(worker) \in Nat /\ DOMAIN worker = 1..Len(worker)
        /\ DOMAIN worker' = 1..(Len(worker) + 1)
        /\ \A i \in 1..Len(worker) : worker'[i] = worker[i]
        /\ worker'[Len(worker) + 1] = polled + 1
    BY <1>1, <2>1, AppendElements
  <2>3. \A n \in 1..Len(log) : n > polled => n > polled' \/ worker'[Len(worker) + 1] = n
    BY <1>1, <2>1, <2>2
  <2>4. \A i \in DOMAIN worker : i \in DOMAIN worker' /\ worker'[i] = worker[i]
    BY <2>2
  <2>5. Len(worker) + 1 \in DOMAIN worker'
    BY <2>2
  <2> QED
    BY <1>2, <2>1, <2>3, <2>4, <2>5 DEF NoneVanishes, Settled, Tracked
<1>5. CASE RunWorker
  BY <1>5, HandlingSettles
<1>6. CASE OnAnswer
  <2>1. PICK k \in Service!Waiting :
            /\ Service!Answer(k)
            /\ io' = IF Routed(asked[k]) THEN [step |-> "Respond", record |-> asked[k]] ELSE Idle
    BY <1>6 DEF OnAnswer
  <2>2. io = Idle /\ UNCHANGED <<log, polled, worker, asked, lasts, fate>>
    BY <1>6 DEF OnAnswer, kafka, result
  <2>3. asked[k] \in Asking /\ Asking' = Asking \ {asked[k]}
    BY <2>1, <2>2, AnswerTakes
  <2>4. io' = [step |-> "Respond", record |-> asked[k]]
    BY <2>1, <2>3 DEF IInv, AskersHold, Holds
  <2>5. io.step # "Respond" /\ io'.step = "Respond" /\ io'.record = asked[k]
    BY <2>2, <2>4 DEF Idle
  <2> QED
    BY <2>2, <2>3, <2>5 DEF NoneVanishes, Settled, Tracked
<1>7. CASE Respond
  <2>1. io.step = "Respond" /\ io.record \in Record /\ Holds(io.record)
    BY <1>1, <1>7, Ranges DEF Respond, IInv, IoHolds
  <2>2. /\ lasts' = [lasts EXCEPT ![io.record] = @ + 1]
        /\ UNCHANGED <<log, polled, worker, asked, answered, rejected, fate>>
    BY <1>7, <2>1 DEF Respond, SendLast, Holds, kafka, rest
  <2>3. lasts'[io.record] > 0 /\ \A n \in Record : lasts[n] > 0 => lasts'[n] > 0
    BY <1>1, <2>1, <2>2
  <2> QED
    BY <1>1, <1>2, <2>2, <2>3 DEF NoneVanishes, Settled, Tracked
<1>8. CASE Unbook \/ Unroute
  <2>1. /\ io.step # "Respond"
        /\ UNCHANGED <<log, polled, worker, asked, answered, rejected, lasts, fate>>
    BY <1>8 DEF Unbook, Unroute, kafka, rest, result
  <2> QED
    BY <1>2, <2>1 DEF NoneVanishes, Settled, Tracked
<1>9. CASE Crash
  <2>1. /\ log' = log /\ polled' = committed
        /\ \A n \in Record : lasts'[n] = IF n > committed THEN 0 ELSE lasts[n]
    BY <1>9 DEF Crash
  <2>2. \A n \in Record : ~(n > committed) /\ fate[n] = "Open" /\ lasts[n] = 0 => fate'[n] = "Lost"
    BY <1>1, <1>9 DEF Crash, Record
  <2>3. \A n \in Record : ~(n > committed) /\ fate[n] # "Open" => fate'[n] # "Open"
    BY <1>1, <1>9 DEF Crash, Record
  <2> QED
    BY <1>1, <2>1, <2>2, <2>3 DEF NoneVanishes, Settled, Tracked
<1>10. CASE Commit \/ UNCHANGED vars
  <2>1. UNCHANGED <<log, polled, worker, asked, answered, rejected, io, lasts, fate>>
    BY <1>10 DEF Commit, vars, kafka, rest, result
  <2> QED
    BY <1>2, <2>1 DEF NoneVanishes, Settled, Tracked
<1> QED
  BY <1>3, <1>4, <1>5, <1>6, <1>7, <1>8, <1>9, <1>10 DEF Next

(* No request vanishes, whatever the crashes, the shared ids and the order *)
(* of the three threads: one with neither a last response nor a fate can   *)
(* still be found.  It is the half of EveryRequestSettled that does not    *)
(* need fairness.                                                          *)
THEOREM NoRequestVanishes == Spec => []NoneVanishes
<1>1. Init => NoneVanishes
  <2>1. Init => Len(log) = 0
    BY EmptySeq DEF Init
  <2> QED
    BY <2>1 DEF NoneVanishes
<1> QED
  BY <1>1, Invariant, NoneVanishesInStep, PTL DEF Spec
=============================================================================
