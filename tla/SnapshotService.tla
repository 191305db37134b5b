-------------------------- MODULE SnapshotService --------------------------
(***************************************************************************)
(* What BinanceRestClient promises to who asks it for snapshots: each is   *)
(* turned away at once or waits, and those that wait are answered in the   *)
(* order asked for, each at most once.  Connections, the queue and the     *)
(* keep-alive do not show.  RestClient implements this specification, and  *)
(* ReqResp is composed with it in the client's place.                      *)
(***************************************************************************)
EXTENDS Integers, Sequences

VARIABLES
    made,      \* snapshots asked for: their ids are 1..made
    answered,  \* ids answered, in order
    rejected   \* ids turned away

vars == <<made, answered, rejected>>

(* Snapshots neither answered nor turned away.                             *)
Waiting == {id \in 1..made : /\ id \notin rejected
                             /\ \A i \in DOMAIN answered : answered[i] # id}

(* getDepth, getRecentTrades (RestApi.cpp:269-290).                        *)
Ask ==
    /\ made' = made + 1
    /\ rejected' \in {rejected, rejected \cup {made + 1}}
    /\ UNCHANGED answered

Answer(id) ==
    /\ id \in Waiting
    /\ \A other \in Waiting : id <= other
    /\ answered' = Append(answered, id)
    /\ UNCHANGED <<made, rejected>>

Init == made = 0 /\ answered = <<>> /\ rejected = {}

Next == Ask \/ \E id \in Waiting : Answer(id)

Spec == Init /\ [][Next]_vars
=============================================================================
