---------------------------- MODULE PlatformComm ----------------------------
(***************************************************************************)
(* The platform side of the gateway: partitions of the subscription topic  *)
(* are assigned to and revoked from this gateway, each has a state machine *)
(* that downloads the subscriptions the group already holds and then       *)
(* forwards commands to the exchange side, and msgCb keeps the book of     *)
(* which destination topics want which key                                 *)
(* (src/MDGateways/PlatformComm/PlatformComm.cpp, PerPartitionSM.h/.cpp).  *)
(*                                                                         *)
(* Three threads meet here: the group consumer's thread runs the rebalance *)
(* callback and pushes commands to the worker; the middleware thread polls *)
(* the individual topic, where the answers to sync requests arrive, and    *)
(* pushes them to the worker; the worker runs msgCb and responseCb in the  *)
(* order of its queue.                                                     *)
(*                                                                         *)
(* Outside src/: the broker (assigns, revokes, delivers commands of the    *)
(* partitions this gateway holds, while other gateways handle the rest),   *)
(* the subscription data provider "SDP" (keeps the group's subscriptions   *)
(* from the sync_data_updates and answers a request with one record per    *)
(* subscribed key and a last message), and CPPFsm (an event a state does   *)
(* not process is dropped; a deferred one is replayed, in order, after the *)
(* next transition; events are handled one at a time).                     *)
(***************************************************************************)
EXTENDS Integers, SequencesExt

CONSTANTS
    Partitions,    \* partitions of in_topic
    Keys,          \* routing keys, "<symbol>:<type>"
    Dests,         \* destination topics of the clients
    PartitionOf,   \* the partition a key's commands arrive on
    MaxCommands,   \* bound: commands delivered to this gateway or another
    MaxRebalances  \* bound: assignments and revocations

ASSUME PartitionAssumption == PartitionOf \in [Keys -> Partitions]
ASSUME KeysAssumption == IsFiniteSet(Keys)
ASSUME BoundAssumption == MaxCommands \in Nat /\ MaxRebalances \in Nat

VARIABLES
    assigned,     \* the partitions the broker gives this gateway
    creating,     \* the partition whose FSM is requested for but not stored yet
    fsm,          \* partitionFSMs: the state of each partition's machine
    deferred,     \* the events each machine has deferred
    requests,     \* sync requests the SDP has not answered
    answers,      \* answers on the individual topic, not polled
    loopStarted,  \* the individual ConsumptionLoop runs (initCallback is over)
    worker,       \* tasks pushed to the worker thread
    dests,        \* symbolToDestTopics
    feed,         \* keys the exchange side has been told to subscribe
    sdp,          \* the group's subscriptions as the SDP holds them
    commands, rebalances,          \* counters for the bounds
    handedOver, shared, restored   \* history: see InStep

queues  == <<requests, answers, worker>>
history == <<handedOver, shared, restored>>
bounds  == <<commands, rebalances>>
vars    == <<assigned, creating, fsm, deferred, queues, loopStarted,
             dests, feed, sdp, bounds, history>>

States == {"None", "Downloading", "Operational", "Revoked"}

RevokeEvent         == [type |-> "Revoke"]
SubUnsub(key, isSub) == [type |-> "SubUnsub", key |-> key, isSub |-> isSub]
Event == {RevokeEvent} \cup {SubUnsub(k, b) : k \in Keys, b \in BOOLEAN}

Command(key, dest, isSub) == [type |-> "command", key |-> key, dest |-> dest, isSub |-> isSub]
Record(key)     == [type |-> "record", key |-> key]
LastRecord(p)   == [type |-> "last", partition |-> p]
Answer  == {Record(k) : k \in Keys} \cup {LastRecord(p) : p \in Partitions}
Task    == Answer \cup {Command(k, d, b) : k \in Keys, d \in Dests, b \in BOOLEAN}

KeysOf(p) == {k \in Keys : PartitionOf[k] = p}

-----------------------------------------------------------------------------
(* The state machine: handleEvent of PerPartitionFSM.                      *)

(* Faulty variant for mutation testing: the event itself is passed on.     *)
ForwardEvent(told, event) == told \cup {event}

(* Operational: the command goes to the exchange side, which ignores a     *)
(* repeated one.                                                           *)
Forward(told, event) == IF event.isSub THEN told \cup {event.key} ELSE told \ {event.key}

Revoked(events) == \E i \in DOMAIN events : events[i] = RevokeEvent

(* The places of the deferred events that find the machine Operational     *)
(* when replayed; a deferred Revoke ends them, and Revoked drops what      *)
(* follows it.                                                             *)
Replayed(events) == {i \in DOMAIN events : \A j \in 1..i : events[j] # RevokeEvent}

About(event, key) == event.type = "SubUnsub" /\ event.key = key

LastAbout(events, places, key, i) ==
    /\ i \in places /\ About(events[i], key)
    /\ \A j \in places : About(events[j], key) => j <= i

(* Forward of all of them, in order: a key ends as the last event about it *)
(* says.                                                                   *)
Replay(told, events) ==
    {k \in Keys :
        \/ k \in told /\ \A i \in Replayed(events) : ~About(events[i], k)
        \/ \E i \in Replayed(events) :
              LastAbout(events, Replayed(events), k, i) /\ events[i].isSub}

(* Faulty variant for mutation testing: only subscribes are deferred.      *)
DeferSubscribesOnly(p, event) ==
    \/ /\ fsm[p] = "Downloading"
       /\ deferred' = IF event.isSub THEN [deferred EXCEPT ![p] = Append(@, event)]
                                     ELSE deferred
       /\ UNCHANGED feed
    \/ /\ fsm[p] = "Operational"
       /\ feed' = Forward(feed, event)
       /\ UNCHANGED deferred
    \/ /\ fsm[p] = "Revoked"
       /\ UNCHANGED <<feed, deferred>>

HandleSubUnsub(p, event) ==
    \/ /\ fsm[p] = "Downloading"
       /\ deferred' = [deferred EXCEPT ![p] = Append(@, event)]
       /\ UNCHANGED feed
    \/ /\ fsm[p] = "Operational"
       /\ feed' = Forward(feed, event)
       /\ UNCHANGED deferred
    \/ /\ fsm[p] = "Revoked"
       /\ UNCHANGED <<feed, deferred>>

HandleRevoke(p) ==
    \/ /\ fsm[p] = "Downloading"
       /\ deferred' = [deferred EXCEPT ![p] = Append(@, RevokeEvent)]
       /\ UNCHANGED fsm
    \/ /\ fsm[p] = "Operational"
       /\ fsm' = [fsm EXCEPT ![p] = "Revoked"]
       /\ UNCHANGED deferred
    \/ /\ fsm[p] = "Revoked"
       /\ UNCHANGED <<fsm, deferred>>

HandleAssign(p) ==
    fsm' = IF fsm[p] = "Revoked" THEN [fsm EXCEPT ![p] = "Downloading"] ELSE fsm

HandleRecord(key) ==
    IF fsm[PartitionOf[key]] = "Downloading"
    THEN feed' = feed \cup {key} /\ restored' = restored \cup {key}
    ELSE UNCHANGED <<feed, restored>>

(* Faulty variants for mutation testing: the deferred events are dropped,  *)
(* are kept, or an empty download is not taken for a complete one.         *)
DownloadEndDropsDeferred(p) ==
    IF fsm[p] = "Downloading"
    THEN /\ fsm' = [fsm EXCEPT ![p] = IF Revoked(deferred[p]) THEN "Revoked" ELSE "Operational"]
         /\ deferred' = [deferred EXCEPT ![p] = <<>>]
         /\ UNCHANGED feed
    ELSE UNCHANGED <<fsm, deferred, feed>>
DownloadEndKeepsDeferred(p) ==
    IF fsm[p] = "Downloading"
    THEN /\ fsm' = [fsm EXCEPT ![p] = IF Revoked(deferred[p]) THEN "Revoked" ELSE "Operational"]
         /\ feed' = Replay(feed, deferred[p])
         /\ UNCHANGED deferred
    ELSE UNCHANGED <<fsm, deferred, feed>>
DownloadEndIfRestored(p) ==
    IF fsm[p] = "Downloading" /\ KeysOf(p) \cap restored # {}
    THEN /\ fsm' = [fsm EXCEPT ![p] = IF Revoked(deferred[p]) THEN "Revoked" ELSE "Operational"]
         /\ feed' = Replay(feed, deferred[p])
         /\ deferred' = [deferred EXCEPT ![p] = <<>>]
    ELSE UNCHANGED <<fsm, deferred, feed>>

(* The last record: whatever was deferred is replayed.                     *)
HandleDownloadEnd(p) ==
    IF fsm[p] = "Downloading"
    THEN /\ fsm' = [fsm EXCEPT ![p] = IF Revoked(deferred[p]) THEN "Revoked"
                                                              ELSE "Operational"]
         /\ feed' = Replay(feed, deferred[p])
         /\ deferred' = [deferred EXCEPT ![p] = <<>>]
    ELSE UNCHANGED <<fsm, deferred, feed>>

-----------------------------------------------------------------------------
(* The group consumer's thread: rebalanceCallback, and polling.  While the *)
(* callback runs (creating) the thread does nothing else.                  *)

Rebalance == /\ creating = {}
             /\ rebalances < MaxRebalances
             /\ rebalances' = rebalances + 1

(* A partition without a machine: the sync request goes out first, and the *)
(* machine is stored after it.                                             *)
AssignNew(p) ==
    /\ Rebalance
    /\ p \notin assigned /\ fsm[p] = "None"
    /\ assigned' = assigned \cup {p}
    /\ requests' = Append(requests, p)
    /\ creating' = {p}
    /\ UNCHANGED <<fsm, deferred, answers, worker, loopStarted, dests, feed, sdp,
                   commands, history>>

StoreFsm(p) ==
    /\ p \in creating
    /\ fsm' = [fsm EXCEPT ![p] = "Downloading"]
    /\ creating' = {}
    /\ UNCHANGED <<assigned, deferred, queues, loopStarted, dests, feed, sdp,
                   bounds, history>>

AssignExisting(p) ==
    /\ Rebalance
    /\ p \notin assigned /\ fsm[p] # "None"
    /\ assigned' = assigned \cup {p}
    /\ HandleAssign(p)
    /\ UNCHANGED <<creating, deferred, queues, loopStarted, dests, feed, sdp,
                   commands, history>>

Revoke(p) ==
    /\ Rebalance
    /\ p \in assigned
    /\ assigned' = assigned \ {p}
    /\ HandleRevoke(p)
    /\ handedOver' = handedOver \cup {p}
    /\ UNCHANGED <<creating, queues, loopStarted, dests, feed, sdp, commands,
                   shared, restored>>

(* A client's command, delivered to this gateway ...                       *)
PollCommand(k, d, isSub) ==
    /\ creating = {}
    /\ PartitionOf[k] \in assigned
    /\ commands < MaxCommands
    /\ commands' = commands + 1
    /\ worker' = Append(worker, Command(k, d, isSub))
    /\ UNCHANGED <<assigned, creating, fsm, deferred, requests, answers,
                   loopStarted, dests, feed, sdp, rebalances, history>>

(* ... or to the gateway that holds its partition instead.                 *)
OtherGatewayHandles(k, d, isSub) ==
    /\ PartitionOf[k] \notin assigned
    /\ commands < MaxCommands
    /\ commands' = commands + 1
    /\ sdp' = IF isSub THEN sdp \cup {<<k, d>>} ELSE sdp \ {<<k, d>>}
    /\ UNCHANGED <<assigned, creating, fsm, deferred, queues, loopStarted, dests,
                   feed, rebalances, history>>

-----------------------------------------------------------------------------
(* The SDP and the middleware thread.                                      *)

SdpAnswers ==
    /\ requests # <<>>
    /\ LET p == Head(requests)
           held == {k \in KeysOf(p) : \E d \in Dests : <<k, d>> \in sdp}
       IN  answers' = answers \o SetToSeq({Record(k) : k \in held}) \o <<LastRecord(p)>>
    /\ requests' = Tail(requests)
    /\ UNCHANGED <<assigned, creating, fsm, deferred, worker, loopStarted, dests,
                   feed, sdp, bounds, history>>

StartLoop ==
    /\ ~loopStarted
    /\ loopStarted' = TRUE
    /\ UNCHANGED <<assigned, creating, fsm, deferred, queues, dests, feed, sdp,
                   bounds, history>>

PollAnswer ==
    /\ loopStarted
    /\ answers # <<>>
    /\ worker' = Append(worker, Head(answers))
    /\ answers' = Tail(answers)
    /\ UNCHANGED <<assigned, creating, fsm, deferred, requests, loopStarted, dests,
                   feed, sdp, bounds, history>>

-----------------------------------------------------------------------------
(* The worker thread.                                                      *)

NextTask(type) == /\ worker # <<>>
                  /\ Head(worker).type = type
                  /\ worker' = Tail(worker)

(* msgCb of a command that changes nothing: no machine for the partition,  *)
(* a duplicate subscribe or a spurious unsubscribe.                        *)
Ignored(c) == \/ fsm[PartitionOf[c.key]] = "None"
              \/ c.isSub <=> c.dest \in dests[c.key]

IgnoreCommand ==
    /\ NextTask("command")
    /\ Ignored(Head(worker))
    /\ UNCHANGED <<assigned, creating, fsm, deferred, requests, answers,
                   loopStarted, dests, feed, sdp, bounds, history>>

(* handleBookKeeping, then the machine, then the sync_data_update.         *)
ProcessCommand ==
    /\ NextTask("command")
    /\ LET c == Head(worker)
           p == PartitionOf[c.key]
           booked == IF c.isSub THEN dests[c.key] \cup {c.dest}
                                ELSE dests[c.key] \ {c.dest}
       IN  /\ ~Ignored(c)
           /\ dests' = [dests EXCEPT ![c.key] = booked]
           /\ HandleSubUnsub(p, SubUnsub(c.key, c.isSub))
           /\ sdp' = IF c.isSub THEN sdp \cup {<<c.key, c.dest>>}
                                ELSE sdp \ {<<c.key, c.dest>>}
           /\ shared' = IF ~c.isSub /\ booked # {} THEN shared \cup {c.key} ELSE shared
    /\ UNCHANGED <<assigned, creating, fsm, requests, answers, loopStarted, bounds,
                   handedOver, restored>>

ProcessRecord ==
    /\ NextTask("record")
    /\ HandleRecord(Head(worker).key)
    /\ UNCHANGED <<assigned, creating, fsm, deferred, requests, answers,
                   loopStarted, dests, sdp, bounds, handedOver, shared>>

ProcessLastRecord ==
    /\ NextTask("last")
    /\ HandleDownloadEnd(Head(worker).partition)
    /\ UNCHANGED <<assigned, creating, requests, answers, loopStarted, dests, sdp,
                   bounds, history>>

-----------------------------------------------------------------------------
(* The gateway starts in a group that may already hold subscriptions.      *)
Init ==
    /\ assigned = {}
    /\ creating = {}
    /\ fsm = [p \in Partitions |-> "None"]
    /\ deferred = [p \in Partitions |-> <<>>]
    /\ requests = <<>>
    /\ answers = <<>>
    /\ loopStarted = FALSE
    /\ worker = <<>>
    /\ dests = [k \in Keys |-> {}]
    /\ feed = {}
    /\ sdp \in SUBSET (Keys \X Dests)
    /\ commands = 0
    /\ rebalances = 0
    /\ handedOver = {}
    /\ shared = {}
    /\ restored = {}

Next ==
    \/ \E p \in Partitions : AssignNew(p)
    \/ \E p \in Partitions : StoreFsm(p)
    \/ \E p \in Partitions : AssignExisting(p)
    \/ \E p \in Partitions : Revoke(p)
    \/ \E k \in Keys, d \in Dests, isSub \in BOOLEAN : PollCommand(k, d, isSub)
    \/ \E k \in Keys, d \in Dests, isSub \in BOOLEAN : OtherGatewayHandles(k, d, isSub)
    \/ SdpAnswers
    \/ StartLoop
    \/ PollAnswer
    \/ IgnoreCommand
    \/ ProcessCommand
    \/ ProcessRecord
    \/ ProcessLastRecord

Spec == Init /\ [][Next]_vars

(* The SDP answers, the middleware thread reaches its loop and polls, the  *)
(* worker drains its queue and a callback that has begun ends.  Nothing    *)
(* makes clients send commands or the broker rebalance.                    *)
Fairness ==
    /\ WF_vars(SdpAnswers)
    /\ WF_vars(StartLoop)
    /\ WF_vars(PollAnswer)
    /\ WF_vars(IgnoreCommand \/ ProcessCommand \/ ProcessRecord \/ ProcessLastRecord)
    /\ WF_vars(\E p \in Partitions : StoreFsm(p))

FairSpec == Spec /\ Fairness

-----------------------------------------------------------------------------
(* Types.                                                                  *)
TypeOK ==
    /\ assigned \in SUBSET Partitions
    /\ creating \in SUBSET Partitions
    /\ fsm \in [Partitions -> States]
    /\ deferred \in [Partitions -> Seq(Event)]
    /\ requests \in Seq(Partitions)
    /\ answers \in Seq(Answer)
    /\ loopStarted \in BOOLEAN
    /\ worker \in Seq(Task)
    /\ dests \in [Keys -> SUBSET Dests]
    /\ feed \in SUBSET Keys
    /\ sdp \in SUBSET (Keys \X Dests)
    /\ commands \in 0..MaxCommands
    /\ rebalances \in 0..MaxRebalances
    /\ handedOver \in SUBSET Partitions
    /\ shared \in SUBSET Keys
    /\ restored \in SUBSET Keys

(* Deferred commands wait only for a download: no transition leaves one    *)
(* behind in a machine that will not replay it.                            *)
DeferredOnlyWhileDownloading ==
    \A p \in Partitions : deferred[p] # <<>> => fsm[p] = "Downloading"

(* The book and the exchange side are in step once the download is over:   *)
(* a key has a destination exactly when it has been subscribed, whatever   *)
(* was deferred and in whatever order.  Excepted, and recorded by the      *)
(* history variables, are partitions handed over, keys one of whose        *)
(* destinations has left while another stays, and (for the keys fed        *)
(* without a destination) keys the download restored.                      *)
InStep ==
    \A p \in Partitions \ handedOver :
        fsm[p] = "Operational" =>
            \A k \in KeysOf(p) \ shared :
                /\ dests[k] # {} => k \in feed
                /\ k \in feed \ restored => dests[k] # {}

(* The deferred events of a key a single client commands alternate, so     *)
(* that the book, which is changed at once, is the state the replay leads  *)
(* to: the last deferred event of a key agrees with the book.              *)
ReplayLeadsToBook ==
    \A p \in Partitions \ handedOver :
        \A k \in KeysOf(p) \ shared, i \in DOMAIN deferred[p] :
            LastAbout(deferred[p], DOMAIN deferred[p], k, i) => (deferred[p][i].isSub <=> dests[k] # {})

(* A download whose request or answer is still under way ends, once its    *)
(* machine exists.                                                         *)
AnswerUnderWay(p) ==
    \/ p \in ToSet(requests)
    \/ LastRecord(p) \in ToSet(answers) \cup ToSet(worker)

DownloadEnds ==
    \A p \in Partitions :
        fsm[p] = "Downloading" /\ AnswerUnderWay(p) ~> fsm[p] # "Downloading"

(* Whoever is downloading has asked: a partition in Downloading has its    *)
(* answer coming ("The gateway's Kafka partition rebalance fires on        *)
(* startup and immediately emits a sync_data_request").                    *)
DownloadHasAnswerComing ==
    \A p \in assigned : fsm[p] = "Downloading" => AnswerUnderWay(p)

(* Every destination in the book is served: once its partition is          *)
(* Operational, a key that has a destination topic is subscribed at the    *)
(* exchange ("The mapping will be used to route the price updates to the   *)
(* correct destination topics").                                           *)
EveryDestinationServed ==
    \A p \in Partitions \ handedOver :
        fsm[p] = "Operational" =>
            \A k \in KeysOf(p) : dests[k] # {} => k \in feed
=============================================================================
