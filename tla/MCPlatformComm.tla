--------------------------- MODULE MCPlatformComm ---------------------------
(* PlatformComm on one or two partitions, with one or two keys and two clients.   *)
EXTENDS PlatformComm, TLC

CONSTANTS p1, p2, k1, k2, d1, d2

OnePartition  == {p1}
TwoPartitions == {p1, p2}
OneKey        == {k1}
TwoKeys       == {k1, k2}
TwoDests      == {d1, d2}

AllOnOne   == [k \in Keys |-> p1]
OneOnEach  == [k \in Keys |-> IF k = k1 THEN p1 ELSE p2]

(* The machine after a deferred event, handed to it alone.                 *)
AfterEvent(machine, event) ==
    IF machine.revoked \/ event = RevokeEvent
    THEN [machine EXCEPT !.revoked = TRUE]
    ELSE [machine EXCEPT !.told = IF event.isSub THEN @ \cup {event.key} ELSE @ \ {event.key}]

OneByOne(told, events) == FoldLeft(AfterEvent, [told |-> told, revoked |-> FALSE], events).told

(* Replay leaves what handing over the events one by one leaves.           *)
ASSUME ReplayIsOneByOne ==
    \A events \in UNION {[1..n -> Event] : n \in 0..4}, told \in SUBSET Keys :
        Replay(told, events) = OneByOne(told, events)
=============================================================================
