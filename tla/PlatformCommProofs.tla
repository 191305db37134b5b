------------------------- MODULE PlatformCommProofs -------------------------
(* Theorems about PlatformComm, for any partitions, any finite set of keys *)
(* and any clients, commands and rebalances.                               *)
(*                                                                         *)
(* The book is changed at once and the exchange side only when the         *)
(* download ends.  What bridges the two is the deferred queue: while a     *)
(* machine downloads, a key that has a destination has a deferred command, *)
(* and the last of them agrees with the book (DownloadFeeds,               *)
(* ReplayLeadsToBook); the replay ends in the last of them.                *)
EXTENDS PlatformComm, FiniteSetTheorems, SequenceTheorems, TLAPS

(* Nothing is known of the keys of a partition that has no machine.        *)
NotYet ==
    \A p \in Partitions : fsm[p] = "None" =>
        /\ deferred[p] = <<>>
        /\ \A k \in KeysOf(p) : dests[k] = {} /\ k \notin feed

Creating == \A p \in creating : fsm[p] = "None"

(* A machine that was never handed over has seen no Revoke.                *)
NeverRevoked ==
    \A p \in Partitions \ handedOver :
        /\ fsm[p] # "Revoked"
        /\ \A i \in DOMAIN deferred[p] : deferred[p][i] # RevokeEvent

(* A machine has the commands of its partition only.                       *)
OwnEvents ==
    \A p \in Partitions, k \in Keys : \A i \in DOMAIN deferred[p] :
        About(deferred[p][i], k) => k \in KeysOf(p)

DownloadFeeds ==
    \A p \in Partitions \ handedOver : fsm[p] = "Downloading" =>
        \A k \in KeysOf(p) :
            /\ k \in feed => k \in restored
            /\ k \notin shared /\ dests[k] # {} =>
                  \E i \in DOMAIN deferred[p] : LastAbout(deferred[p], DOMAIN deferred[p], k, i)

Machines ==
    /\ DeferredOnlyWhileDownloading
    /\ NotYet
    /\ Creating
    /\ NeverRevoked
    /\ OwnEvents
    /\ DownloadFeeds
    /\ ReplayLeadsToBook
    /\ InStep

IInv == TypeOK /\ Machines

machines == <<fsm, deferred, dests, feed, history>>
-----------------------------------------------------------------------------
(* Elements of longer and shorter sequences.                               *)
LEMMA AppendElements ==
    ASSUME NEW S, NEW s \in Seq(S), NEW e \in S
    PROVE  /\ Append(s, e) \in Seq(S) /\ Append(s, e) # <<>>
           /\ Len(s) \in Nat /\ DOMAIN s = 1..Len(s)
           /\ DOMAIN Append(s, e) = 1..(Len(s) + 1)
           /\ \A i \in 1..Len(s) : Append(s, e)[i] = s[i]
           /\ Append(s, e)[Len(s) + 1] = e
BY AppendProperties, LenProperties

LEMMA TailTypes ==
    ASSUME NEW S, NEW s \in Seq(S), s # <<>>
    PROVE  Tail(s) \in Seq(S) /\ Head(s) \in S
BY HeadTailProperties

(* An order in which the SDP sends a finite set of records.                *)
LEMMA SetToSeqType ==
    ASSUME NEW S, IsFiniteSet(S)
    PROVE  SetToSeq(S) \in Seq(S)
<1> DEFINE n == Cardinality(S)
<1>1. n \in Nat /\ ExistsBijection(1..n, S)
  BY FS_CardinalityType
<1>2. \E f \in [1..n -> S] : IsInjective(f)
  <2>1. PICK f \in Bijection(1..n, S) : TRUE
    BY <1>1 DEF ExistsBijection
  <2> QED
    BY <2>1 DEF Bijection, Injection, IsInjective
<1>3. SetToSeq(S) \in [1..n -> S]
  BY <1>2 DEF SetToSeq
<1> QED
  BY <1>1, <1>3, SeqDef

(* The tasks and the answers, told apart by their type.                    *)
LEMMA Tasks ==
    /\ Answer \subseteq Task
    /\ \A k \in Keys, d \in Dests, b \in BOOLEAN : Command(k, d, b) \in Task
    /\ \A k \in Keys : Record(k) \in Answer
    /\ \A p \in Partitions : LastRecord(p) \in Answer
    /\ \A t \in Task : t.type = "command" =>
          t.key \in Keys /\ t.dest \in Dests /\ t.isSub \in BOOLEAN
    /\ \A t \in Task : t.type = "record" => t.key \in Keys
    /\ \A t \in Task : t.type = "last" => t.partition \in Partitions
<1>1. ASSUME NEW t \in Task
      PROVE  \/ \E k \in Keys : t = Record(k)
             \/ \E p \in Partitions : t = LastRecord(p)
             \/ \E k \in Keys, d \in Dests, b \in BOOLEAN : t = Command(k, d, b)
  <2>1. t \in Answer \/ \E k \in Keys, d \in Dests, b \in BOOLEAN : t = Command(k, d, b)
    BY DEF Task
  <2> QED
    BY <2>1 DEF Answer
<1>2. \A k : Record(k).type = "record" /\ Record(k).key = k
  BY DEF Record
<1>3. \A p : LastRecord(p).type = "last" /\ LastRecord(p).partition = p
  BY DEF LastRecord
<1>4. \A k, d, b : /\ Command(k, d, b).type = "command" /\ Command(k, d, b).key = k
                  /\ Command(k, d, b).dest = d /\ Command(k, d, b).isSub = b
  BY DEF Command
<1>5. \A t \in Task : t.type = "command" =>
          t.key \in Keys /\ t.dest \in Dests /\ t.isSub \in BOOLEAN
  BY <1>1, <1>2, <1>3, <1>4
<1>6. \A t \in Task : /\ t.type = "record" => t.key \in Keys
                      /\ t.type = "last" => t.partition \in Partitions
  BY <1>1, <1>2, <1>3, <1>4
<1>7. /\ Answer \subseteq Task
      /\ \A k \in Keys, d \in Dests, b \in BOOLEAN : Command(k, d, b) \in Task
      /\ \A k \in Keys : Record(k) \in Answer
      /\ \A p \in Partitions : LastRecord(p) \in Answer
  BY DEF Task, Answer
<1> QED
  BY <1>5, <1>6, <1>7

LEMMA Events ==
    /\ RevokeEvent \in Event
    /\ \A k \in Keys, b \in BOOLEAN :
          /\ SubUnsub(k, b) \in Event
          /\ SubUnsub(k, b) # RevokeEvent
          /\ SubUnsub(k, b).key = k /\ SubUnsub(k, b).isSub = b
          /\ \A l : About(SubUnsub(k, b), l) <=> l = k
<1>1. RevokeEvent \in Event /\ \A k \in Keys, b \in BOOLEAN : SubUnsub(k, b) \in Event
  BY DEF Event
<1>2. RevokeEvent.type = "Revoke"
  BY DEF RevokeEvent
<1>3. \A k, b : /\ SubUnsub(k, b).type = "SubUnsub" /\ SubUnsub(k, b).key = k
               /\ SubUnsub(k, b).isSub = b
  BY DEF SubUnsub
<1>4. \A k, b : SubUnsub(k, b) # RevokeEvent
  BY <1>2, <1>3
<1> QED
  BY <1>1, <1>3, <1>4 DEF About

(* A command about k joins the deferred events s, which become t: it is    *)
(* the last about its key, and for the other keys the last stays the last. *)
Joined(s, t, k, b) ==
    /\ \A i \in DOMAIN t : LastAbout(t, DOMAIN t, k, i) => t[i].isSub = b
    /\ \E i \in DOMAIN t : LastAbout(t, DOMAIN t, k, i)
    /\ \A l : l # k => \A i : LastAbout(t, DOMAIN t, l, i) <=> LastAbout(s, DOMAIN s, l, i)
    /\ \A i \in DOMAIN t : (i \in DOMAIN s /\ t[i] = s[i]) \/ \A l : About(t[i], l) => l = k
    /\ \A i \in DOMAIN s : i \in DOMAIN t /\ t[i] = s[i]
    /\ (\A i \in DOMAIN s : s[i] # RevokeEvent) => \A i \in DOMAIN t : t[i] # RevokeEvent

LEMMA DeferredLast ==
    ASSUME NEW s \in Seq(Event), NEW k \in Keys, NEW b \in BOOLEAN
    PROVE  Joined(s, Append(s, SubUnsub(k, b)), k, b)
<1> DEFINE t == Append(s, SubUnsub(k, b))
           n == Len(s)
<1>1. /\ n \in Nat /\ DOMAIN s = 1..n /\ DOMAIN t = 1..(n + 1)
      /\ \A i \in 1..n : t[i] = s[i]
      /\ t[n + 1] = SubUnsub(k, b)
  BY AppendElements, Events
<1> HIDE DEF t, n
<1>2. \A i \in DOMAIN t : (i \in 1..n /\ i < n + 1 /\ t[i] = s[i]) \/ i = n + 1
  BY <1>1
<1>3. n + 1 \in DOMAIN t /\ \A i \in 1..n : i \in DOMAIN t
  BY <1>1
<1>4. \A l : About(t[n + 1], l) <=> l = k
  BY <1>1, Events
<1>5. LastAbout(t, DOMAIN t, k, n + 1)
  BY <1>1, <1>2, <1>3, <1>4 DEF LastAbout
<1>6. \A i \in DOMAIN t : LastAbout(t, DOMAIN t, k, i) => t[i].isSub = b
  <2> SUFFICES ASSUME NEW i \in DOMAIN t, LastAbout(t, DOMAIN t, k, i) PROVE t[i].isSub = b
    OBVIOUS
  <2>1. n + 1 <= i
    BY <1>3, <1>4 DEF LastAbout
  <2>2. i = n + 1
    BY <1>1, <1>2, <2>1
  <2> QED
    BY <1>1, <2>2, Events
<1>7. ASSUME NEW l, l # k PROVE \A i : LastAbout(t, DOMAIN t, l, i) <=> LastAbout(s, DOMAIN s, l, i)
  <2>1. ~About(t[n + 1], l)
    BY <1>4, <1>7
  <2> QED
    BY <1>1, <1>2, <1>3, <2>1 DEF LastAbout
<1>8. (\A i \in DOMAIN s : s[i] # RevokeEvent) => \A i \in DOMAIN t : t[i] # RevokeEvent
  BY <1>1, <1>2, Events
<1>9. \A i \in DOMAIN t : (i \in DOMAIN s /\ t[i] = s[i]) \/ \A l : About(t[i], l) => l = k
  BY <1>1, <1>2, <1>4
<1> QED
  BY <1>1, <1>3, <1>5, <1>6, <1>7, <1>8, <1>9 DEF t, Joined
-----------------------------------------------------------------------------
(* Types.                                                                  *)

LEMMA InitTypes == Init => TypeOK
<1> SUFFICES ASSUME Init PROVE TypeOK
  OBVIOUS
<1>1. fsm \in [Partitions -> States] /\ dests \in [Keys -> SUBSET Dests]
  BY DEF Init, States
<1>2. deferred \in [Partitions -> Seq(Event)]
  BY EmptySeq DEF Init
<1>3. requests \in Seq(Partitions) /\ answers \in Seq(Answer) /\ worker \in Seq(Task)
  BY EmptySeq DEF Init
<1>4. commands \in 0..MaxCommands /\ rebalances \in 0..MaxRebalances
  BY BoundAssumption DEF Init
<1> QED
  BY <1>1, <1>2, <1>3, <1>4 DEF Init, TypeOK

LEMMA HandlerTypes ==
    ASSUME TypeOK, NEW p \in Partitions
    PROVE  /\ HandleRevoke(p) => /\ fsm' \in [Partitions -> States]
                                 /\ deferred' \in [Partitions -> Seq(Event)]
           /\ HandleAssign(p) => fsm' \in [Partitions -> States]
           /\ HandleDownloadEnd(p) => /\ fsm' \in [Partitions -> States]
                                      /\ deferred' \in [Partitions -> Seq(Event)]
                                      /\ feed' \in SUBSET Keys
           /\ \A k \in Keys, b \in BOOLEAN : HandleSubUnsub(p, SubUnsub(k, b)) =>
                 /\ deferred' \in [Partitions -> Seq(Event)]
                 /\ feed' \in SUBSET Keys
<1>1. /\ fsm \in [Partitions -> States] /\ deferred \in [Partitions -> Seq(Event)]
      /\ feed \in SUBSET Keys
  BY DEF TypeOK
<1>2. \A e \in Event : Append(deferred[p], e) \in Seq(Event)
  BY <1>1, AppendElements
<1>3. \A e \in Event : [deferred EXCEPT ![p] = Append(@, e)] \in [Partitions -> Seq(Event)]
  BY <1>1, <1>2
<1>4. HandleRevoke(p) => /\ fsm' \in [Partitions -> States]
                         /\ deferred' \in [Partitions -> Seq(Event)]
  <2>1. RevokeEvent \in Event
    BY Events
  <2>2. [fsm EXCEPT ![p] = "Revoked"] \in [Partitions -> States]
    BY <1>1 DEF States
  <2> QED
    BY <1>1, <1>3, <2>1, <2>2 DEF HandleRevoke
<1>5. HandleAssign(p) => fsm' \in [Partitions -> States]
  BY <1>1 DEF HandleAssign, States
<1>6. HandleDownloadEnd(p) => /\ fsm' \in [Partitions -> States]
                              /\ deferred' \in [Partitions -> Seq(Event)]
                              /\ feed' \in SUBSET Keys
  <2>1. \A e : Replay(feed, e) \in SUBSET Keys
    BY DEF Replay
  <2>2. [deferred EXCEPT ![p] = <<>>] \in [Partitions -> Seq(Event)]
    BY <1>1, EmptySeq
  <2> QED
    BY <1>1, <2>1, <2>2 DEF HandleDownloadEnd, States
<1>7. ASSUME NEW k \in Keys, NEW b \in BOOLEAN, HandleSubUnsub(p, SubUnsub(k, b))
      PROVE  deferred' \in [Partitions -> Seq(Event)] /\ feed' \in SUBSET Keys
  <2>1. SubUnsub(k, b) \in Event /\ SubUnsub(k, b).key = k
    BY Events
  <2>2. Forward(feed, SubUnsub(k, b)) \in SUBSET Keys
    BY <1>1, <2>1 DEF Forward
  <2> QED
    BY <1>1, <1>3, <1>7, <2>1, <2>2 DEF HandleSubUnsub
<1> QED
  BY <1>4, <1>5, <1>6, <1>7

LEMMA StepTypes == TypeOK /\ [Next]_vars => TypeOK'
<1> SUFFICES ASSUME TypeOK, [Next]_vars PROVE TypeOK'
  OBVIOUS
<1>1. ASSUME rebalances < MaxRebalances, rebalances' = rebalances + 1
      PROVE  rebalances' \in 0..MaxRebalances
  BY <1>1, BoundAssumption DEF TypeOK
<1>2. ASSUME commands < MaxCommands, commands' = commands + 1
      PROVE  commands' \in 0..MaxCommands
  BY <1>2, BoundAssumption DEF TypeOK
<1>3. ASSUME NEW p \in Partitions, AssignNew(p) PROVE TypeOK'
  <2>1. requests' \in Seq(Partitions)
    BY <1>3, AppendElements DEF AssignNew, TypeOK
  <2> QED
    BY <1>1, <1>3, <2>1 DEF AssignNew, Rebalance, TypeOK, history
<1>4. ASSUME NEW p \in Partitions, StoreFsm(p) PROVE TypeOK'
  BY <1>4 DEF StoreFsm, TypeOK, States, history, bounds, queues
<1>5. ASSUME NEW p \in Partitions, AssignExisting(p) PROVE TypeOK'
  BY <1>1, <1>5, HandlerTypes DEF AssignExisting, Rebalance, TypeOK, history, queues
<1>6. ASSUME NEW p \in Partitions, Revoke(p) PROVE TypeOK'
  BY <1>1, <1>6, HandlerTypes DEF Revoke, Rebalance, TypeOK, queues
<1>7. ASSUME NEW k \in Keys, NEW d \in Dests, NEW b \in BOOLEAN, PollCommand(k, d, b) PROVE TypeOK'
  <2>1. worker' \in Seq(Task)
    BY <1>7, AppendElements, Tasks DEF PollCommand, TypeOK
  <2> QED
    BY <1>2, <1>7, <2>1 DEF PollCommand, TypeOK, history
<1>8. ASSUME NEW k \in Keys, NEW d \in Dests, NEW b \in BOOLEAN, OtherGatewayHandles(k, d, b)
      PROVE  TypeOK'
  BY <1>2, <1>8 DEF OtherGatewayHandles, TypeOK, history, queues
<1>9. CASE SdpAnswers
  <2> DEFINE p    == Head(requests)
             held == {k \in KeysOf(p) : \E d \in Dests : <<k, d>> \in sdp}
             recs == {Record(k) : k \in held}
  <2>1. p \in Partitions /\ requests' \in Seq(Partitions)
    BY <1>9, TailTypes DEF SdpAnswers, TypeOK
  <2>2. IsFiniteSet(recs) /\ recs \subseteq Answer
    <3>1. held \subseteq Keys /\ IsFiniteSet(held)
      BY KeysAssumption, FS_Subset DEF KeysOf
    <3>2. recs \subseteq Answer
      BY <3>1, Tasks
    <3>3. [k \in held |-> Record(k)] \in Surjection(held, recs)
      BY DEF Surjection
    <3> HIDE DEF recs, held
    <3> QED
      BY <3>1, <3>2, <3>3, FS_Surjection DEF ExistsSurjection
  <2> HIDE DEF recs
  <2>3. SetToSeq(recs) \in Seq(Answer)
    BY <2>2, SetToSeqType, SeqMonotonic
  <2>4. <<LastRecord(p)>> \in Seq(Answer)
    BY <2>1, Tasks
  <2>5. answers \in Seq(Answer)
    BY DEF TypeOK
  <2>6. answers \o SetToSeq(recs) \in Seq(Answer)
    BY <2>3, <2>5, ConcatProperties
  <2>7. answers \o SetToSeq(recs) \o <<LastRecord(p)>> \in Seq(Answer)
    BY <2>4, <2>6, ConcatProperties
  <2>8. answers' = answers \o SetToSeq(recs) \o <<LastRecord(p)>>
    BY <1>9 DEF SdpAnswers, recs
  <2> QED
    BY <1>9, <2>1, <2>7, <2>8 DEF SdpAnswers, TypeOK, history, bounds
<1>10. CASE StartLoop
  BY <1>10 DEF StartLoop, TypeOK, history, bounds, queues
<1>11. CASE PollAnswer
  <2>1. Head(answers) \in Task /\ answers' \in Seq(Answer)
    BY <1>11, TailTypes, Tasks DEF PollAnswer, TypeOK
  <2>2. worker' \in Seq(Task)
    BY <1>11, <2>1, AppendElements DEF PollAnswer, TypeOK
  <2> QED
    BY <1>11, <2>1, <2>2 DEF PollAnswer, TypeOK, history, bounds
<1>12. ASSUME NEW type, NextTask(type)
       PROVE  worker' \in Seq(Task) /\ Head(worker) \in Task /\ Head(worker).type = type
  BY <1>12, TailTypes DEF NextTask, TypeOK
<1>13. CASE IgnoreCommand
  BY <1>12, <1>13 DEF IgnoreCommand, TypeOK, history, bounds
<1>14. CASE ProcessCommand
  <2> DEFINE c == Head(worker)
             p == PartitionOf[c.key]
  <2>1. worker' \in Seq(Task) /\ c.key \in Keys /\ c.dest \in Dests /\ c.isSub \in BOOLEAN
    BY <1>12, <1>14, Tasks DEF ProcessCommand
  <2>2. p \in Partitions /\ HandleSubUnsub(p, SubUnsub(c.key, c.isSub))
    BY <1>14, <2>1, PartitionAssumption DEF ProcessCommand
  <2>3. deferred' \in [Partitions -> Seq(Event)] /\ feed' \in SUBSET Keys
    BY <2>1, <2>2, HandlerTypes
  <2>4. dests' \in [Keys -> SUBSET Dests] /\ sdp' \in SUBSET (Keys \X Dests) /\ shared' \in SUBSET Keys
    BY <1>14, <2>1 DEF ProcessCommand, TypeOK
  <2> QED
    BY <1>14, <2>1, <2>3, <2>4 DEF ProcessCommand, TypeOK, bounds
<1>15. CASE ProcessRecord
  <2>1. worker' \in Seq(Task) /\ Head(worker).key \in Keys
    BY <1>12, <1>15, Tasks DEF ProcessRecord
  <2>2. feed' \in SUBSET Keys /\ restored' \in SUBSET Keys
    BY <1>15, <2>1 DEF ProcessRecord, HandleRecord, TypeOK
  <2> QED
    BY <1>15, <2>1, <2>2 DEF ProcessRecord, TypeOK, bounds
<1>16. CASE ProcessLastRecord
  <2>1. worker' \in Seq(Task) /\ Head(worker).partition \in Partitions
    BY <1>12, <1>16, Tasks DEF ProcessLastRecord
  <2> QED
    BY <1>16, <2>1, HandlerTypes DEF ProcessLastRecord, TypeOK, history, bounds
<1>17. CASE UNCHANGED vars
  BY <1>17 DEF vars, TypeOK, history, bounds, queues
<1> QED
  BY <1>3, <1>4, <1>5, <1>6, <1>7, <1>8, <1>9, <1>10, <1>11, <1>13, <1>14, <1>15, <1>16, <1>17
     DEF Next

(* Every variable keeps its type, whatever the SDP answers and in whatever *)
(* order it sends its records.                                             *)
THEOREM TypeCorrect == Spec => []TypeOK
<1> QED
  BY InitTypes, StepTypes, PTL DEF Spec
-----------------------------------------------------------------------------
(* The machines, the book and the exchange side.                           *)

LEMMA InitMachines == Init => Machines
<1> SUFFICES ASSUME Init PROVE Machines
  OBVIOUS
<1>1. \A p \in Partitions : fsm[p] = "None" /\ deferred[p] = <<>> /\ DOMAIN deferred[p] = {}
  BY EmptySeq DEF Init
<1>2. creating = {} /\ feed = {} /\ \A k \in Keys : dests[k] = {}
  BY DEF Init
<1> QED
  BY <1>1, <1>2
     DEF Machines, DeferredOnlyWhileDownloading, NotYet, Creating, NeverRevoked, OwnEvents,
         DownloadFeeds, ReplayLeadsToBook, InStep, KeysOf

LEMMA SameMachines ==
    ASSUME Machines, UNCHANGED machines, Creating'
    PROVE  Machines'
BY DEF Machines, machines, history, DeferredOnlyWhileDownloading, NotYet, NeverRevoked,
       OwnEvents, DownloadFeeds, ReplayLeadsToBook, InStep

LEMMA StepStoreFsm ==
    ASSUME IInv, NEW p \in Partitions, StoreFsm(p)
    PROVE  Machines'
<1>1. /\ fsm' = [fsm EXCEPT ![p] = "Downloading"] /\ creating' = {}
      /\ UNCHANGED <<deferred, dests, feed, handedOver, shared, restored>>
      /\ fsm[p] = "None"
  BY DEF StoreFsm, IInv, Machines, Creating, history
<1>2. fsm'[p] = "Downloading" /\ \A q \in Partitions \ {p} : fsm'[q] = fsm[q]
  BY <1>1 DEF IInv, TypeOK
<1>3. deferred[p] = <<>> /\ \A k \in KeysOf(p) : dests[k] = {} /\ k \notin feed
  BY <1>1 DEF IInv, Machines, NotYet
<1>4. DownloadFeeds'
  BY <1>1, <1>2, <1>3 DEF IInv, Machines, DownloadFeeds
<1>5. InStep' /\ NotYet' /\ NeverRevoked' /\ DeferredOnlyWhileDownloading'
  BY <1>1, <1>2 DEF IInv, Machines, InStep, NotYet, NeverRevoked, DeferredOnlyWhileDownloading
<1>6. OwnEvents' /\ ReplayLeadsToBook' /\ Creating'
  BY <1>1 DEF IInv, Machines, OwnEvents, ReplayLeadsToBook, Creating
<1> QED
  BY <1>4, <1>5, <1>6 DEF Machines

LEMMA StepAssignExisting ==
    ASSUME IInv, NEW p \in Partitions, AssignExisting(p)
    PROVE  Machines'
<1>1. /\ creating = {} /\ creating' = {}
      /\ UNCHANGED <<deferred, dests, feed, handedOver, shared, restored>>
      /\ HandleAssign(p)
  BY DEF AssignExisting, Rebalance, history
<1>2. \A q \in Partitions : fsm'[q] = fsm[q] \/ (fsm[q] = "Revoked" /\ fsm'[q] = "Downloading")
  BY <1>1 DEF HandleAssign, IInv, TypeOK
<1>3. \A q \in Partitions \ handedOver : fsm'[q] = fsm[q]
  BY <1>2 DEF IInv, Machines, NeverRevoked
<1>4. DownloadFeeds' /\ InStep' /\ NeverRevoked'
  BY <1>1, <1>3 DEF IInv, Machines, DownloadFeeds, InStep, NeverRevoked
<1>5. NotYet' /\ DeferredOnlyWhileDownloading'
  BY <1>1, <1>2 DEF IInv, Machines, NotYet, DeferredOnlyWhileDownloading
<1>6. OwnEvents' /\ ReplayLeadsToBook' /\ Creating'
  BY <1>1 DEF IInv, Machines, OwnEvents, ReplayLeadsToBook, Creating
<1> QED
  BY <1>4, <1>5, <1>6 DEF Machines

(* A revoked partition is handed over: nothing more is claimed of it.      *)
LEMMA StepRevoke ==
    ASSUME IInv, NEW p \in Partitions, Revoke(p)
    PROVE  Machines'
<1>1. /\ creating = {} /\ creating' = {} /\ handedOver' = handedOver \cup {p}
      /\ UNCHANGED <<dests, feed, shared, restored>>
      /\ HandleRevoke(p)
  BY DEF Revoke, Rebalance
<1>2. /\ fsm \in [Partitions -> States] /\ deferred \in [Partitions -> Seq(Event)]
  BY DEF IInv, TypeOK
<1>3. \A q \in Partitions \ {p} : fsm'[q] = fsm[q] /\ deferred'[q] = deferred[q]
  BY <1>1, <1>2 DEF HandleRevoke
<1>4. /\ fsm'[p] # "None"
      /\ deferred'[p] = deferred[p] \/ (fsm'[p] = "Downloading" /\ deferred'[p] = Append(deferred[p], RevokeEvent))
      /\ deferred'[p] # <<>> => fsm'[p] = "Downloading"
  <2>1. deferred[p] # <<>> => fsm[p] = "Downloading"
    BY DEF IInv, Machines, DeferredOnlyWhileDownloading
  <2> QED
    BY <1>1, <1>2, <2>1 DEF HandleRevoke
<1>5. \A i \in DOMAIN deferred'[p] :
          (i \in DOMAIN deferred[p] /\ deferred'[p][i] = deferred[p][i]) \/ deferred'[p][i] = RevokeEvent
  <2>1. deferred[p] \in Seq(Event) /\ RevokeEvent \in Event
    BY <1>2, Events
  <2>2. \A i \in DOMAIN Append(deferred[p], RevokeEvent) :
            \/ i \in DOMAIN deferred[p] /\ Append(deferred[p], RevokeEvent)[i] = deferred[p][i]
            \/ Append(deferred[p], RevokeEvent)[i] = RevokeEvent
    <3> DEFINE t == Append(deferred[p], RevokeEvent)
               n == Len(deferred[p])
    <3>1. /\ n \in Nat /\ DOMAIN deferred[p] = 1..n /\ DOMAIN t = 1..(n + 1)
          /\ \A i \in 1..n : t[i] = deferred[p][i]
          /\ t[n + 1] = RevokeEvent
      BY <2>1, AppendElements
    <3> HIDE DEF t, n
    <3>2. \A i \in DOMAIN t : (i \in DOMAIN deferred[p] /\ t[i] = deferred[p][i]) \/ t[i] = RevokeEvent
      BY <3>1
    <3> QED
      BY <3>2 DEF t
  <2> QED
    BY <1>4, <2>2
<1>6. \A k : ~About(RevokeEvent, k)
  BY DEF About, RevokeEvent
<1>7. NotYet' /\ DeferredOnlyWhileDownloading'
  BY <1>1, <1>3, <1>4 DEF IInv, Machines, NotYet, DeferredOnlyWhileDownloading
<1>8. NeverRevoked' /\ DownloadFeeds' /\ ReplayLeadsToBook' /\ InStep'
  BY <1>1, <1>3 DEF IInv, Machines, NeverRevoked, DownloadFeeds, ReplayLeadsToBook, InStep
<1>9. OwnEvents'
  BY <1>3, <1>5, <1>6 DEF IInv, Machines, OwnEvents
<1> QED
  BY <1>1, <1>7, <1>8, <1>9 DEF Machines, Creating

LEMMA StepProcessRecord ==
    ASSUME IInv, ProcessRecord
    PROVE  Machines'
<1> DEFINE key == Head(worker).key
<1>1. UNCHANGED <<fsm, deferred, dests, creating, handedOver, shared>> /\ HandleRecord(key)
  BY DEF ProcessRecord
<1> HIDE DEF key
<1>2. CASE fsm[PartitionOf[key]] = "Downloading"
  <2>1. feed' = feed \cup {key} /\ restored' = restored \cup {key}
    BY <1>1, <1>2 DEF HandleRecord
  <2>2. \A p \in Partitions : \A k \in KeysOf(p) : fsm[p] # "Downloading" => k # key
    BY <1>2 DEF KeysOf
  <2>3. NotYet' /\ InStep' /\ DownloadFeeds'
    BY <1>1, <2>1, <2>2 DEF IInv, Machines, NotYet, InStep, DownloadFeeds
  <2> QED
    BY <1>1, <2>3
       DEF IInv, Machines, Creating, NeverRevoked, OwnEvents, ReplayLeadsToBook,
           DeferredOnlyWhileDownloading
<1>3. CASE fsm[PartitionOf[key]] # "Downloading"
  <2>1. UNCHANGED machines /\ Creating'
    BY <1>1, <1>3 DEF HandleRecord, machines, history, IInv, Machines, Creating
  <2> QED
    BY <2>1, SameMachines DEF IInv
<1> QED
  BY <1>2, <1>3

(* The download ends, and every key ends as the book has it.               *)
LEMMA StepProcessLastRecord ==
    ASSUME IInv, ProcessLastRecord
    PROVE  Machines'
<1> DEFINE p == Head(worker).partition
<1>1. UNCHANGED <<dests, creating, handedOver, shared, restored>> /\ HandleDownloadEnd(p)
  BY DEF ProcessLastRecord, history
<1>2. p \in Partitions
  BY TailTypes, Tasks DEF ProcessLastRecord, NextTask, IInv, TypeOK
<1> HIDE DEF p
<1>3. CASE fsm[p] = "Downloading"
  <2>1. /\ fsm' = [fsm EXCEPT ![p] = IF Revoked(deferred[p]) THEN "Revoked" ELSE "Operational"]
        /\ feed' = Replay(feed, deferred[p])
        /\ deferred' = [deferred EXCEPT ![p] = <<>>]
    BY <1>1, <1>3 DEF HandleDownloadEnd
  <2>2. /\ fsm'[p] \in {"Revoked", "Operational"} /\ deferred'[p] = <<>> /\ DOMAIN deferred'[p] = {}
        /\ \A q \in Partitions \ {p} : fsm'[q] = fsm[q] /\ deferred'[q] = deferred[q]
    BY <1>2, <2>1, EmptySeq DEF IInv, TypeOK
  <2>3. \A q \in Partitions \ {p} : \A k \in KeysOf(q) : k \in feed' <=> k \in feed
    <3> SUFFICES ASSUME NEW q \in Partitions \ {p}, NEW k \in KeysOf(q)
                 PROVE  k \in feed' <=> k \in feed
      OBVIOUS
    <3>1. k \in Keys /\ k \notin KeysOf(p)
      BY DEF KeysOf
    <3>2. \A i \in DOMAIN deferred[p] : ~About(deferred[p][i], k)
      BY <1>2, <3>1 DEF IInv, Machines, OwnEvents
    <3>3. \A i \in Replayed(deferred[p]) : i \in DOMAIN deferred[p]
      BY DEF Replayed
    <3> QED
      BY <2>1, <3>1, <3>2, <3>3 DEF Replay, LastAbout
  <2>4. ASSUME p \notin handedOver
        PROVE  /\ fsm'[p] = "Operational"
               /\ \A k \in KeysOf(p) \ shared : /\ dests[k] # {} => k \in feed'
                                                /\ k \in feed' \ restored => dests[k] # {}
    <3>1. \A i \in DOMAIN deferred[p] : deferred[p][i] # RevokeEvent
      BY <1>2, <2>4 DEF IInv, Machines, NeverRevoked
    <3>2. fsm'[p] = "Operational"
      BY <1>2, <2>1, <3>1 DEF Revoked, IInv, TypeOK
    <3>3. Replayed(deferred[p]) = DOMAIN deferred[p]
      <4>1. deferred[p] \in Seq(Event)
        BY <1>2 DEF IInv, TypeOK
      <4>2. DOMAIN deferred[p] = 1..Len(deferred[p]) /\ Len(deferred[p]) \in Nat
        BY <4>1, LenProperties
      <4>3. \A i \in DOMAIN deferred[p] : \A j \in 1..i : j \in DOMAIN deferred[p]
        BY <4>2
      <4> QED
        BY <3>1, <4>3 DEF Replayed
    <3>4. ASSUME NEW k \in KeysOf(p) \ shared, dests[k] # {}
          PROVE  k \in feed'
      <4>1. PICK i \in DOMAIN deferred[p] : LastAbout(deferred[p], DOMAIN deferred[p], k, i)
        BY <1>2, <1>3, <2>4, <3>4 DEF IInv, Machines, DownloadFeeds
      <4>2. deferred[p][i].isSub
        BY <1>2, <2>4, <3>4, <4>1 DEF IInv, Machines, ReplayLeadsToBook
      <4> QED
        BY <2>1, <3>3, <4>1, <4>2 DEF Replay, KeysOf
    <3>5. ASSUME NEW k \in KeysOf(p) \ shared, k \in feed', k \notin restored
          PROVE  dests[k] # {}
      <4>1. k \notin feed
        BY <1>2, <1>3, <2>4, <3>5 DEF IInv, Machines, DownloadFeeds
      <4>2. PICK i \in DOMAIN deferred[p] :
                LastAbout(deferred[p], DOMAIN deferred[p], k, i) /\ deferred[p][i].isSub
        BY <2>1, <3>3, <3>5, <4>1 DEF Replay
      <4> QED
        BY <1>2, <2>4, <4>2 DEF IInv, Machines, ReplayLeadsToBook
    <3> QED
      BY <3>2, <3>4, <3>5
  <2>5. InStep' /\ NeverRevoked'
    <3>1. InStep'
      BY <1>1, <2>2, <2>3, <2>4 DEF IInv, Machines, InStep
    <3>2. NeverRevoked'
      BY <1>1, <2>2, <2>4 DEF IInv, Machines, NeverRevoked
    <3> QED
      BY <3>1, <3>2
  <2>6. DownloadFeeds' /\ NotYet'
    <3>1. DownloadFeeds'
      BY <1>1, <2>2, <2>3 DEF IInv, Machines, DownloadFeeds
    <3>2. NotYet'
      BY <1>1, <2>2, <2>3 DEF IInv, Machines, NotYet
    <3> QED
      BY <3>1, <3>2
  <2>7. ReplayLeadsToBook' /\ OwnEvents' /\ DeferredOnlyWhileDownloading'
    BY <1>1, <2>2 DEF IInv, Machines, ReplayLeadsToBook, OwnEvents, DeferredOnlyWhileDownloading
  <2>8. Creating'
    BY <1>1, <1>3, <2>2 DEF IInv, TypeOK, Machines, Creating
  <2> QED
    BY <2>5, <2>6, <2>7, <2>8 DEF Machines
<1>4. CASE fsm[p] # "Downloading"
  <2>1. UNCHANGED machines /\ Creating'
    BY <1>1, <1>4 DEF HandleDownloadEnd, machines, history, ProcessLastRecord, IInv, Machines, Creating
  <2> QED
    BY <2>1, SameMachines DEF IInv
<1> QED
  BY <1>3, <1>4

(* A command: the book at once; the exchange side at once or in its turn.  *)
LEMMA StepProcessCommand ==
    ASSUME IInv, ProcessCommand
    PROVE  Machines'
<1> DEFINE c   == Head(worker)
           key == c.key
           sub == c.isSub
           p   == PartitionOf[key]
           e   == SubUnsub(key, sub)
<1>1. key \in Keys /\ c.dest \in Dests /\ sub \in BOOLEAN
  BY TailTypes, Tasks DEF ProcessCommand, NextTask, IInv, TypeOK
<1>2. p \in Partitions /\ key \in KeysOf(p)
  BY <1>1, PartitionAssumption DEF KeysOf
<1>3. /\ UNCHANGED <<fsm, creating, handedOver, restored>>
      /\ fsm[p] # "None"
      /\ HandleSubUnsub(p, e)
  BY DEF ProcessCommand, Ignored
<1>4. /\ \A k \in Keys \ {key} : dests'[k] = dests[k]
      /\ shared \subseteq shared'
      /\ key \notin shared' => (sub <=> dests'[key] # {})
  <2> DEFINE booked == IF sub THEN dests[key] \cup {c.dest} ELSE dests[key] \ {c.dest}
  <2>1. /\ dests' = [dests EXCEPT ![key] = booked]
        /\ shared' = IF ~sub /\ booked # {} THEN shared \cup {key} ELSE shared
    BY DEF ProcessCommand
  <2>2. dests'[key] = booked /\ \A k \in Keys \ {key} : dests'[k] = dests[k]
    BY <1>1, <2>1 DEF IInv, TypeOK
  <2>3. sub => booked # {}
    OBVIOUS
  <2> HIDE DEF booked
  <2> QED
    BY <1>1, <2>1, <2>2, <2>3
<1>5. /\ e \in Event /\ e.key = key /\ e.isSub = sub
  BY <1>1, Events
<1>6. /\ fsm \in [Partitions -> States] /\ deferred \in [Partitions -> Seq(Event)]
  BY DEF IInv, TypeOK
<1> HIDE DEF key, sub, p, e
<1>7. /\ deferred'[p] = deferred[p] \/ (fsm[p] = "Downloading" /\ deferred'[p] = Append(deferred[p], e))
      /\ \A q \in Partitions \ {p} : deferred'[q] = deferred[q]
      /\ feed' = feed \/ (fsm[p] = "Operational" /\ feed' = Forward(feed, e))
      /\ fsm[p] = "Downloading" => deferred'[p] = Append(deferred[p], e)
      /\ fsm[p] = "Operational" => feed' = Forward(feed, e)
  BY <1>2, <1>3, <1>6 DEF HandleSubUnsub
<1>8. /\ \A k : k # key => (k \in feed' <=> k \in feed)
      /\ fsm[p] = "Operational" => (key \in feed' <=> sub)
      /\ fsm[p] # "Operational" => feed' = feed
  BY <1>1, <1>5, <1>7 DEF Forward
<1>9. \A q \in Partitions \ {p} : \A k \in KeysOf(q) : k \in Keys \ {key}
  BY <1>2 DEF KeysOf
<1>10. /\ \A i \in DOMAIN deferred'[p] :
             (i \in DOMAIN deferred[p] /\ deferred'[p][i] = deferred[p][i])
                \/ \A l : About(deferred'[p][i], l) => l = key
       /\ \A i \in DOMAIN deferred[p] : i \in DOMAIN deferred'[p] /\ deferred'[p][i] = deferred[p][i]
       /\ \A l : l # key =>
             \A i : LastAbout(deferred'[p], DOMAIN deferred'[p], l, i)
                       <=> LastAbout(deferred[p], DOMAIN deferred[p], l, i)
       /\ (\A i \in DOMAIN deferred[p] : deferred[p][i] # RevokeEvent)
             => \A i \in DOMAIN deferred'[p] : deferred'[p][i] # RevokeEvent
       /\ fsm[p] = "Downloading" =>
             /\ \A i \in DOMAIN deferred'[p] :
                   LastAbout(deferred'[p], DOMAIN deferred'[p], key, i) => deferred'[p][i].isSub = sub
             /\ \E i \in DOMAIN deferred'[p] : LastAbout(deferred'[p], DOMAIN deferred'[p], key, i)
  <2>1. deferred[p] \in Seq(Event)
    BY <1>2, <1>6
  <2>2. CASE deferred'[p] = Append(deferred[p], e)
    <3>1. Joined(deferred[p], Append(deferred[p], SubUnsub(key, sub)), key, sub)
      BY <1>1, <2>1, DeferredLast
    <3>2. Joined(deferred[p], deferred'[p], key, sub)
      BY <2>2, <3>1 DEF e
    <3> QED
      BY <3>2 DEF Joined
  <2>3. CASE deferred'[p] = deferred[p] /\ fsm[p] # "Downloading"
    BY <2>3
  <2> QED
    BY <1>7, <2>2, <2>3
<1>11. NotYet' /\ Creating' /\ DeferredOnlyWhileDownloading'
  <2>1. \A q \in Partitions : fsm[q] = "None" => q # p
    BY <1>3
  <2>2. NotYet'
    BY <1>3, <1>4, <1>7, <1>8, <1>9, <2>1 DEF IInv, Machines, NotYet
  <2>3. DeferredOnlyWhileDownloading'
    BY <1>3, <1>7 DEF IInv, Machines, DeferredOnlyWhileDownloading
  <2> QED
    BY <1>3, <2>2, <2>3 DEF IInv, Machines, Creating
<1>12. NeverRevoked'
  BY <1>3, <1>7, <1>10 DEF IInv, Machines, NeverRevoked
<1>13. OwnEvents'
  BY <1>2, <1>7, <1>10 DEF IInv, Machines, OwnEvents
<1>14. DownloadFeeds'
  <2> SUFFICES ASSUME NEW q \in Partitions \ handedOver, fsm[q] = "Downloading", NEW k \in KeysOf(q)
               PROVE  /\ k \in feed' => k \in restored
                      /\ k \notin shared' /\ dests'[k] # {} =>
                            \E i \in DOMAIN deferred'[q] : LastAbout(deferred'[q], DOMAIN deferred'[q], k, i)
    BY <1>3 DEF DownloadFeeds
  <2>1. /\ k \in feed => k \in restored
        /\ k \notin shared /\ dests[k] # {} =>
              \E i \in DOMAIN deferred[q] : LastAbout(deferred[q], DOMAIN deferred[q], k, i)
    BY DEF IInv, Machines, DownloadFeeds
  <2>2. k \in Keys
    BY DEF KeysOf
  <2>3. CASE q # p
    BY <1>4, <1>7, <1>8, <1>9, <2>1, <2>3
  <2>4. CASE q = p /\ k # key
    BY <1>4, <1>8, <1>10, <2>1, <2>2, <2>4
  <2>5. CASE q = p /\ k = key
    BY <1>8, <1>10, <2>1, <2>5
  <2> QED
    BY <2>3, <2>4, <2>5
<1>15. ReplayLeadsToBook'
  <2> SUFFICES ASSUME NEW q \in Partitions \ handedOver, NEW k \in KeysOf(q) \ shared',
                      NEW i \in DOMAIN deferred'[q],
                      LastAbout(deferred'[q], DOMAIN deferred'[q], k, i)
               PROVE  deferred'[q][i].isSub <=> dests'[k] # {}
    BY <1>3 DEF ReplayLeadsToBook
  <2>1. \A j \in DOMAIN deferred[q] :
            LastAbout(deferred[q], DOMAIN deferred[q], k, j) => (deferred[q][j].isSub <=> dests[k] # {})
    BY <1>4 DEF IInv, Machines, ReplayLeadsToBook
  <2>2. k \in Keys
    BY DEF KeysOf
  <2>3. CASE q # p
    BY <1>4, <1>7, <1>9, <2>1, <2>3
  <2>4. CASE q = p /\ k # key
    <3>1. LastAbout(deferred[p], DOMAIN deferred[p], k, i)
      BY <1>10, <2>4
    <3>2. i \in DOMAIN deferred[p]
      BY <3>1 DEF LastAbout
    <3>3. deferred'[p][i] = deferred[p][i]
      BY <1>10, <3>2
    <3> QED
      BY <1>4, <2>1, <2>2, <2>4, <3>1, <3>2, <3>3
  <2>5. CASE q = p /\ k = key
    <3>1. deferred'[p] # <<>>
      BY <2>5, EmptySeq
    <3>2. fsm[p] = "Downloading"
      BY <1>2, <1>3, <1>11, <3>1 DEF DeferredOnlyWhileDownloading
    <3>3. deferred'[p][i].isSub = sub
      BY <1>10, <2>5, <3>2
    <3> QED
      BY <1>1, <1>4, <2>5, <3>3
  <2> QED
    BY <2>3, <2>4, <2>5
<1>16. InStep'
  <2> SUFFICES ASSUME NEW q \in Partitions \ handedOver, fsm[q] = "Operational",
                      NEW k \in KeysOf(q) \ shared'
               PROVE  /\ dests'[k] # {} => k \in feed'
                      /\ k \in feed' \ restored => dests'[k] # {}
    BY <1>3 DEF InStep
  <2>1. /\ dests[k] # {} => k \in feed
        /\ k \in feed \ restored => dests[k] # {}
    BY <1>4 DEF IInv, Machines, InStep
  <2>2. k \in Keys
    BY DEF KeysOf
  <2>3. CASE k # key
    BY <1>4, <1>8, <2>1, <2>2, <2>3
  <2>4. CASE k = key
    <3>1. q = p
      BY <1>9, <2>4
    <3> QED
      BY <1>4, <1>8, <2>4, <3>1
  <2> QED
    BY <2>3, <2>4
<1> QED
  BY <1>11, <1>12, <1>13, <1>14, <1>15, <1>16 DEF Machines
-----------------------------------------------------------------------------
LEMMA InitEstablishes == Init => IInv
BY InitTypes, InitMachines DEF IInv

LEMMA StepPreserves == IInv /\ [Next]_vars => IInv'
<1> SUFFICES ASSUME IInv, [Next]_vars PROVE IInv'
  OBVIOUS
<1>1. TypeOK'
  BY StepTypes DEF IInv
<1>2. Machines /\ Creating
  BY DEF IInv, Machines
<1>3. ASSUME NEW p \in Partitions, AssignNew(p) PROVE Machines'
  <2>1. UNCHANGED machines /\ Creating'
    BY <1>3 DEF AssignNew, machines, Creating
  <2> QED
    BY <1>2, <2>1, SameMachines
<1>4. ASSUME NEW p \in Partitions, StoreFsm(p) \/ AssignExisting(p) \/ Revoke(p) PROVE Machines'
  BY <1>4, StepStoreFsm, StepAssignExisting, StepRevoke
<1>5. ASSUME NEW k \in Keys, NEW d \in Dests, NEW b \in BOOLEAN,
             PollCommand(k, d, b) \/ OtherGatewayHandles(k, d, b)
      PROVE  Machines'
  <2>1. UNCHANGED machines /\ UNCHANGED creating
    BY <1>5 DEF PollCommand, OtherGatewayHandles, machines
  <2>2. Creating'
    BY <1>2, <2>1 DEF Creating, machines
  <2> QED
    BY <1>2, <2>1, <2>2, SameMachines
<1>6. CASE SdpAnswers \/ StartLoop \/ PollAnswer \/ IgnoreCommand \/ UNCHANGED vars
  <2>1. UNCHANGED machines /\ UNCHANGED creating
    BY <1>6 DEF SdpAnswers, StartLoop, PollAnswer, IgnoreCommand, vars, machines
  <2>2. Creating'
    BY <1>2, <2>1 DEF Creating, machines
  <2> QED
    BY <1>1, <1>2, <2>1, <2>2, SameMachines DEF IInv
<1>7. CASE ProcessCommand
  BY <1>1, <1>7, StepProcessCommand DEF IInv
<1>8. CASE ProcessRecord
  BY <1>1, <1>8, StepProcessRecord DEF IInv
<1>9. CASE ProcessLastRecord
  BY <1>1, <1>9, StepProcessLastRecord DEF IInv
<1> QED
  BY <1>1, <1>3, <1>4, <1>5, <1>6, <1>7, <1>8, <1>9 DEF Next, IInv

(* The invariant of the machines, the book and the exchange side.          *)
THEOREM Invariant == Spec => []IInv
<1> QED
  BY InitEstablishes, StepPreserves, PTL DEF Spec

(* No machine keeps a deferred event beyond its download.                  *)
THEOREM NothingLeftDeferred == Spec => []DeferredOnlyWhileDownloading
<1>1. IInv => DeferredOnlyWhileDownloading
  BY DEF IInv, Machines
<1> QED
  BY <1>1, Invariant, PTL

(* The book and the exchange side are in step once a download is over,     *)
(* whatever was deferred, in whatever order, and however the answer and    *)
(* the storing of the machine interleaved.                                 *)
THEOREM BookInStep == Spec => []InStep
<1>1. IInv => InStep
  BY DEF IInv, Machines
<1> QED
  BY <1>1, Invariant, PTL

(* The last deferred command about a key agrees with the book.             *)
THEOREM ReplayAgrees == Spec => []ReplayLeadsToBook
<1>1. IInv => ReplayLeadsToBook
  BY DEF IInv, Machines
<1> QED
  BY <1>1, Invariant, PTL
=============================================================================
