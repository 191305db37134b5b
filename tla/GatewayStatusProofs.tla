------------------------ MODULE GatewayStatusProofs ------------------------
(* Theorems about GatewayStatus, for any number of changes of the          *)
(* connections.                                                            *)
(*                                                                         *)
(* A status is followed from where it is computed to where it is written:  *)
(* what the io thread is about to write is the status of the flags, since  *)
(* only that thread changes them (IoFresh); so is what mw is about to      *)
(* write, unless it is overtaken (MwFresh); and so is what was written,    *)
(* once the io thread has nothing left to write (CurrentFresh).  A call    *)
(* that finds an empty publishStatusPtr is harmless because mw has yet to  *)
(* look at the flags (Target).                                             *)
EXTENDS GatewayStatus, TLAPS

Looked  == {"status", "detail", "build", "send", "done"}
Written == {"detail", "build", "send", "done"}
Flags   == CalcGwStatus(rest, ws)

(* The middleware's thread starts with the first WebSocket connection, and *)
(* the io thread has nothing to publish before the first REST one.         *)
Started ==
    /\ stage # "up" => pc["mw"] = "off"
    /\ stage = "rest" => pc["io"] = "idle"

Target == target = "publish" <=> pc["mw"] \in Looked \cup {"calc"}

IoFresh == pc["io"] \in {"call", "status"} => arg["io"].status = Flags

MwFresh == pc["mw"] = "status" /\ ~overtaken => arg["mw"].status = Flags

CurrentFresh ==
    pc["mw"] \in Written /\ pc["io"] \notin {"call", "status"} /\ ~overtaken
        => current.status = Flags

(* mw's own detail is empty, and the io thread blames a WebSocket that is  *)
(* down, in what it is about to write and in what it has written.          *)
DetailFresh ==
    /\ pc["mw"] \in {"status", "detail"} => arg["mw"].detail = ""
    /\ pc["io"] \in {"call", "status", "detail"} /\ arg["io"].detail # "" => ~ws
    /\ pc["io"] \notin {"call", "status", "detail"} /\ current.detail # "" => ~ws
    /\ target = "nothing" => current.detail = "" /\ pc["io"] \in {"idle", "call"}

(* The placeholder is gone before the first message is built.              *)
Spoken ==
    /\ current.status = "init" =>
           /\ \A t \in Thread : pc[t] \notin {"detail", "build", "send"}
           /\ pc["mw"] # "done" /\ pc["timer"] = "off"
    /\ \A t \in Thread : pc[t] \in {"call", "status", "send"} => arg[t].status # "init"
    /\ NeverInit

IInv ==
    /\ TypeOK
    /\ Started
    /\ Target
    /\ IoFresh
    /\ MwFresh
    /\ CurrentFresh
    /\ DetailFresh
    /\ Spoken

-----------------------------------------------------------------------------
(* The status of two flags is one of the three that mean something.        *)
LEMMA CalcTypes ==
    ASSUME NEW r \in BOOLEAN, NEW w \in BOOLEAN
    PROVE  CalcGwStatus(r, w) \in Status \ {"init"}
BY DEF CalcGwStatus, Status

LEMMA InitEstablishes == Init => IInv
<1> SUFFICES ASSUME Init PROVE IInv
  OBVIOUS
<1>1. TypeOK
  <2>1. current \in Msg /\ arg \in [Thread -> Msg] /\ heard \in Msg \cup {Silence}
    BY DEF Init, Msg, Status, Detail, Thread
  <2>2. /\ pc \in [Thread -> IoLabel \cup MwLabel \cup TimerLabel]
        /\ pc["io"] \in IoLabel /\ pc["mw"] \in MwLabel /\ pc["timer"] \in TimerLabel
    BY DEF Init, IoLabel, MwLabel, TimerLabel, Thread
  <2>3. changes \in 0..MaxChanges
    <3>1. changes = 0
      BY DEF Init
    <3> QED
      BY <3>1, ChangesAssumption
  <2>4. /\ stage \in {"rest", "list", "ws", "up", "stopped"}
        /\ target \in {"nothing", "publish"}
        /\ restUp \in BOOLEAN /\ rest \in BOOLEAN /\ ws \in BOOLEAN
        /\ overtaken \in BOOLEAN
    BY DEF Init
  <2> QED
    BY <2>1, <2>2, <2>3, <2>4 DEF TypeOK
<1>2. pc["io"] = "idle" /\ pc["mw"] = "off" /\ pc["timer"] = "off"
  BY DEF Init, Thread
<1>3. Started /\ Target /\ IoFresh /\ MwFresh /\ CurrentFresh
  BY <1>2 DEF Init, Started, Target, IoFresh, MwFresh, CurrentFresh, Looked, Written
<1>4. DetailFresh
  BY <1>2 DEF Init, DetailFresh
<1>5. Spoken
  BY <1>2 DEF Init, Spoken, NeverInit, Silence, Thread
<1> QED
  BY <1>1, <1>3, <1>4, <1>5 DEF IInv

-----------------------------------------------------------------------------
(* Every action keeps the types.                                           *)
LEMMA TypeStep == TypeOK /\ [Next]_vars => TypeOK'
<1> SUFFICES ASSUME TypeOK, [Next]_vars PROVE TypeOK'
  OBVIOUS
<1>1. CASE StartUp
  BY <1>1 DEF StartUp, RestConnects, ListArrives, WsConnects, StartFails, Goto, TypeOK,
         Thread, IoLabel, MwLabel, TimerLabel
<1>2. CASE Connections
  <2>0. changes' \in 0..MaxChanges
    <3>1. changes \in 0..MaxChanges /\ changes < MaxChanges /\ changes' = changes + 1
      BY <1>2 DEF Connections, WsLost, WsBack, RestLost, RestBack, Change, TypeOK
    <3> QED
      BY <3>1, ChangesAssumption
  <2>1. CASE WsLost
    <3>1. [status |-> CalcGwStatus(rest, FALSE), detail |-> "WebSocket disconnected"] \in Msg
      BY CalcTypes DEF TypeOK, Msg, Detail
    <3> QED
      BY <2>1, <2>0, <3>1 DEF WsLost, Notify, Goto, TypeOK,
         Thread, IoLabel, MwLabel, TimerLabel
  <2>2. CASE WsBack
    <3>1. [status |-> CalcGwStatus(rest, TRUE), detail |-> ""] \in Msg
      BY CalcTypes DEF TypeOK, Msg, Detail
    <3> QED
      BY <2>2, <2>0, <3>1 DEF WsBack, Notify, Goto, TypeOK,
         Thread, IoLabel, MwLabel, TimerLabel
  <2>3. CASE RestLost
    BY <2>3, <2>0 DEF RestLost, TypeOK
  <2>4. CASE RestBack
    <3>1. [status |-> CalcGwStatus(TRUE, ws), detail |-> ""] \in Msg
      BY CalcTypes DEF TypeOK, Msg, Detail
    <3> QED
      BY <2>4, <2>0, <3>1 DEF RestBack, Notify, Goto, TypeOK,
         Thread, IoLabel, MwLabel, TimerLabel
  <2> QED
    BY <1>2, <2>1, <2>2, <2>3, <2>4 DEF Connections
<1>3. CASE Call
  BY <1>3 DEF Call, Goto, links, TypeOK,
         Thread, IoLabel, MwLabel, TimerLabel
<1>4. CASE InitFails \/ SetTarget \/ Tick
  BY <1>4 DEF InitFails, SetTarget, Tick, Goto, links, TypeOK,
         Thread, IoLabel, MwLabel, TimerLabel
<1>5. CASE Calc
  <2>1. [status |-> CalcGwStatus(rest, ws), detail |-> ""] \in Msg
    BY CalcTypes DEF TypeOK, Msg, Detail
  <2> QED
    BY <1>5, <2>1 DEF Calc, Goto, links, TypeOK,
         Thread, IoLabel, MwLabel, TimerLabel
<1>6. CASE \E t \in Thread : Step(t)
  <2>1. PICK t \in Thread : Step(t)
    BY <1>6
  <2>2. CASE WriteStatus(t)
    BY <2>2 DEF WriteStatus, Goto, links, TypeOK, Msg,
         Thread, IoLabel, MwLabel, TimerLabel
  <2>3. CASE WriteDetail(t)
    BY <2>3 DEF WriteDetail, Goto, links, TypeOK, Msg,
         Thread, IoLabel, MwLabel, TimerLabel
  <2>4. CASE Build(t)
    BY <2>4 DEF Build, BuildStatusMsg, Goto, links, TypeOK,
         Thread, IoLabel, MwLabel, TimerLabel
  <2>5. CASE Send(t)
    BY <2>5 DEF Send, Sent, links, TypeOK,
         Thread, IoLabel, MwLabel, TimerLabel
  <2> QED
    BY <2>1, <2>2, <2>3, <2>4, <2>5 DEF Step
<1>7. CASE UNCHANGED vars
  BY <1>7 DEF vars, links, TypeOK
<1> QED
  BY <1>1, <1>2, <1>3, <1>4, <1>5, <1>6, <1>7 DEF Next

-----------------------------------------------------------------------------
(* A status stays the one of the flags until it is overtaken.               *)
LEMMA FreshStep ==
    IInv /\ [Next]_vars => Started' /\ Target' /\ IoFresh' /\ MwFresh' /\ CurrentFresh'
<1> SUFFICES ASSUME IInv, [Next]_vars
             PROVE  Started' /\ Target' /\ IoFresh' /\ MwFresh' /\ CurrentFresh'
  OBVIOUS
<1>0. TypeOK /\ TypeOK'
  BY TypeStep DEF IInv
<1>1. CASE StartUp
  <2>1. CASE RestConnects
    BY <1>0, <2>1 DEF RestConnects, Started, IInv, TypeOK, Thread, Target, IoFresh,
           MwFresh, CurrentFresh, Flags, Looked, Written, Msg, IoLabel, MwLabel,
           TimerLabel
  <2>2. CASE ListArrives
    BY <1>0, <2>2 DEF ListArrives, Started, IInv, TypeOK, Thread, Target, IoFresh,
           MwFresh, CurrentFresh, Flags, Looked, Written, Msg, IoLabel, MwLabel,
           TimerLabel
  <2>3. CASE WsConnects
    BY <1>0, <2>3 DEF WsConnects, Goto, Started, IInv, TypeOK, Thread, Target,
           IoFresh, MwFresh, CurrentFresh, Flags, Looked, Written, Msg, IoLabel,
           MwLabel, TimerLabel
  <2>4. CASE StartFails
    BY <1>0, <2>4 DEF StartFails, Started, IInv, TypeOK, Thread, Target, IoFresh,
           MwFresh, CurrentFresh, Flags, Looked, Written, Msg, IoLabel, MwLabel,
           TimerLabel
  <2> QED
    BY <1>1, <2>1, <2>2, <2>3, <2>4 DEF StartUp
<1>2. CASE WsLost
  BY <1>0, <1>2 DEF WsLost, Change, Notify, Goto, IInv, TypeOK, Thread, Started,
         Target, IoFresh, MwFresh, CurrentFresh, Flags, Looked, Written, Msg, IoLabel,
         MwLabel, TimerLabel
<1>3. CASE WsBack
  BY <1>0, <1>3 DEF WsBack, Change, Notify, Goto, IInv, TypeOK, Thread, Started,
         Target, IoFresh, MwFresh, CurrentFresh, Flags, Looked, Written, Msg, IoLabel,
         MwLabel, TimerLabel
<1>4. CASE RestLost
  BY <1>0, <1>4 DEF RestLost, RestLaunched, Change, IInv, TypeOK, Thread, Started,
         Target, IoFresh, MwFresh, CurrentFresh, Flags, Looked, Written, Msg, IoLabel,
         MwLabel, TimerLabel
<1>5. CASE RestBack
  BY <1>0, <1>5 DEF RestBack, RestLaunched, Change, Notify, Goto, IInv, TypeOK,
         Thread, Started, Target, IoFresh, MwFresh, CurrentFresh, Flags, Looked,
         Written, Msg, IoLabel, MwLabel, TimerLabel
<1>6. CASE Call
  BY <1>0, <1>6 DEF Call, Goto, links, IInv, TypeOK, Thread, Started, Target, IoFresh,
         MwFresh, CurrentFresh, Flags, Looked, Written, Msg, IoLabel, MwLabel,
         TimerLabel
<1>7. CASE InitFails
  BY <1>0, <1>7 DEF InitFails, Goto, links, IInv, TypeOK, Thread, Started, Target,
         IoFresh, MwFresh, CurrentFresh, Flags, Looked, Written, Msg, IoLabel,
         MwLabel, TimerLabel
<1>8. CASE SetTarget
  BY <1>0, <1>8 DEF SetTarget, Goto, links, IInv, TypeOK, Thread, Started, Target,
         IoFresh, MwFresh, CurrentFresh, Flags, Looked, Written, Msg, IoLabel,
         MwLabel, TimerLabel
<1>9. CASE Calc
  BY <1>0, <1>9 DEF Calc, Goto, links, IInv, TypeOK, Thread, Started, Target, IoFresh,
         MwFresh, CurrentFresh, Flags, Looked, Written, Msg, IoLabel, MwLabel,
         TimerLabel
<1>10. CASE Tick
  BY <1>0, <1>10 DEF Tick, Goto, links, IInv, TypeOK, Thread, Started, Target,
         IoFresh, MwFresh, CurrentFresh, Flags, Looked, Written, Msg, IoLabel,
         MwLabel, TimerLabel
<1>11. CASE \E t \in Thread : Step(t)
  <2>0. PICK t \in Thread : Step(t)
    BY <1>11
  <2>1. CASE WriteStatus(t)
    BY <1>0, <2>1 DEF WriteStatus, Goto, links, IInv, TypeOK, Thread, Started,
           Target, IoFresh, MwFresh, CurrentFresh, Flags, Looked, Written, Msg,
           IoLabel, MwLabel, TimerLabel
  <2>2. CASE WriteDetail(t)
    BY <1>0, <2>2 DEF WriteDetail, Goto, links, IInv, TypeOK, Thread, Started,
           Target, IoFresh, MwFresh, CurrentFresh, Flags, Looked, Written, Msg,
           IoLabel, MwLabel, TimerLabel
  <2>3. CASE Build(t)
    BY <1>0, <2>3 DEF Build, BuildStatusMsg, Goto, links, IInv, TypeOK, Thread,
           Started, Target, IoFresh, MwFresh, CurrentFresh, Flags, Looked, Written,
           Msg, IoLabel, MwLabel, TimerLabel
  <2>4. CASE Send(t)
    BY <1>0, <2>4 DEF Send, Sent, links, IInv, TypeOK, Thread, Started, Target,
           IoFresh, MwFresh, CurrentFresh, Flags, Looked, Written, Msg, IoLabel,
           MwLabel, TimerLabel
  <2> QED
    BY <2>0, <2>1, <2>2, <2>3, <2>4 DEF Step
<1>12. CASE UNCHANGED vars
  BY <1>12 DEF vars, links, IInv, Started, Target, IoFresh, MwFresh, CurrentFresh,
         Flags, Looked, Written, Msg, IoLabel, MwLabel, TimerLabel
<1> QED
  BY <1>1, <1>2, <1>3, <1>4, <1>5, <1>6, <1>7, <1>8, <1>9, <1>10, <1>11, <1>12 DEF
         Next, Connections

-----------------------------------------------------------------------------
(* What the io thread blames is down until it has written an empty detail. *)
LEMMA DetailStep == IInv /\ [Next]_vars => DetailFresh'
<1> SUFFICES ASSUME IInv, [Next]_vars PROVE DetailFresh'
  OBVIOUS
<1>0. TypeOK /\ TypeOK'
  BY TypeStep DEF IInv
<1>1. CASE StartUp
  <2>1. CASE RestConnects
    BY <1>0, <2>1 DEF RestConnects, Started, IInv, TypeOK, Thread, DetailFresh,
           Target, Looked, Msg, IoLabel, MwLabel, TimerLabel
  <2>2. CASE ListArrives
    BY <1>0, <2>2 DEF ListArrives, Started, IInv, TypeOK, Thread, DetailFresh,
           Target, Looked, Msg, IoLabel, MwLabel, TimerLabel
  <2>3. CASE WsConnects
    BY <1>0, <2>3 DEF WsConnects, Goto, Started, IInv, TypeOK, Thread, DetailFresh,
           Target, Looked, Msg, IoLabel, MwLabel, TimerLabel
  <2>4. CASE StartFails
    BY <1>0, <2>4 DEF StartFails, Started, IInv, TypeOK, Thread, DetailFresh,
           Target, Looked, Msg, IoLabel, MwLabel, TimerLabel
  <2> QED
    BY <1>1, <2>1, <2>2, <2>3, <2>4 DEF StartUp
<1>2. CASE WsLost
  BY <1>0, <1>2 DEF WsLost, Change, Notify, Goto, IInv, TypeOK, Thread, DetailFresh,
         Target, Looked, Msg, IoLabel, MwLabel, TimerLabel
<1>3. CASE WsBack
  BY <1>0, <1>3 DEF WsBack, Change, Notify, Goto, IInv, TypeOK, Thread, DetailFresh,
         Target, Looked, Msg, IoLabel, MwLabel, TimerLabel
<1>4. CASE RestLost
  BY <1>0, <1>4 DEF RestLost, RestLaunched, Change, IInv, TypeOK, Thread, DetailFresh,
         Target, Looked, Msg, IoLabel, MwLabel, TimerLabel
<1>5. CASE RestBack
  BY <1>0, <1>5 DEF RestBack, RestLaunched, Change, Notify, Goto, IInv, TypeOK,
         Thread, DetailFresh, Target, Looked, Msg, IoLabel, MwLabel, TimerLabel
<1>6. CASE Call
  BY <1>0, <1>6 DEF Call, Goto, links, IInv, TypeOK, Thread, DetailFresh, Target,
         Looked, Msg, IoLabel, MwLabel, TimerLabel
<1>7. CASE InitFails
  BY <1>0, <1>7 DEF InitFails, Goto, links, IInv, TypeOK, Thread, DetailFresh, Target,
         Looked, Msg, IoLabel, MwLabel, TimerLabel
<1>8. CASE SetTarget
  BY <1>0, <1>8 DEF SetTarget, Goto, links, IInv, TypeOK, Thread, DetailFresh, Target,
         Looked, Msg, IoLabel, MwLabel, TimerLabel
<1>9. CASE Calc
  BY <1>0, <1>9 DEF Calc, Goto, links, IInv, TypeOK, Thread, DetailFresh, Target,
         Looked, Msg, IoLabel, MwLabel, TimerLabel
<1>10. CASE Tick
  BY <1>0, <1>10 DEF Tick, Goto, links, IInv, TypeOK, Thread, DetailFresh, Target,
         Looked, Msg, IoLabel, MwLabel, TimerLabel
<1>11. CASE \E t \in Thread : Step(t)
  <2>0. PICK t \in Thread : Step(t)
    BY <1>11
  <2>1. CASE WriteStatus(t)
    BY <1>0, <2>1 DEF WriteStatus, Goto, links, IInv, TypeOK, Thread, DetailFresh,
           Target, Looked, Msg, IoLabel, MwLabel, TimerLabel
  <2>2. CASE WriteDetail(t)
    BY <1>0, <2>2 DEF WriteDetail, Goto, links, IInv, TypeOK, Thread, DetailFresh,
           Target, Looked, Msg, IoLabel, MwLabel, TimerLabel
  <2>3. CASE Build(t)
    BY <1>0, <2>3 DEF Build, BuildStatusMsg, Goto, links, IInv, TypeOK, Thread,
           DetailFresh, Target, Looked, Msg, IoLabel, MwLabel, TimerLabel
  <2>4. CASE Send(t)
    BY <1>0, <2>4 DEF Send, Sent, links, IInv, TypeOK, Thread, DetailFresh, Target,
           Looked, Msg, IoLabel, MwLabel, TimerLabel
  <2> QED
    BY <2>0, <2>1, <2>2, <2>3, <2>4 DEF Step
<1>12. CASE UNCHANGED vars
  BY <1>12 DEF vars, links, IInv, DetailFresh, Target, Looked, Msg, IoLabel, MwLabel,
         TimerLabel
<1> QED
  BY <1>1, <1>2, <1>3, <1>4, <1>5, <1>6, <1>7, <1>8, <1>9, <1>10, <1>11, <1>12 DEF
         Next, Connections

-----------------------------------------------------------------------------
(* No thread builds a message before the placeholder is overwritten.        *)
LEMMA SpokenStep == IInv /\ [Next]_vars => Spoken'
<1> SUFFICES ASSUME IInv, [Next]_vars PROVE Spoken'
  OBVIOUS
<1>0. TypeOK /\ TypeOK'
  BY TypeStep DEF IInv
<1>1. CASE StartUp
  <2>1. CASE RestConnects
    BY <1>0, <2>1 DEF RestConnects, Started, IInv, TypeOK, Thread, Spoken,
           NeverInit, Target, Looked, Msg, Status, CalcGwStatus, IoLabel, MwLabel,
           TimerLabel
  <2>2. CASE ListArrives
    BY <1>0, <2>2 DEF ListArrives, Started, IInv, TypeOK, Thread, Spoken, NeverInit,
           Target, Looked, Msg, Status, CalcGwStatus, IoLabel, MwLabel, TimerLabel
  <2>3. CASE WsConnects
    BY <1>0, <2>3 DEF WsConnects, Goto, Started, IInv, TypeOK, Thread, Spoken,
           NeverInit, Target, Looked, Msg, Status, CalcGwStatus, IoLabel, MwLabel,
           TimerLabel
  <2>4. CASE StartFails
    BY <1>0, <2>4 DEF StartFails, Started, IInv, TypeOK, Thread, Spoken, NeverInit,
           Target, Looked, Msg, Status, CalcGwStatus, IoLabel, MwLabel, TimerLabel
  <2> QED
    BY <1>1, <2>1, <2>2, <2>3, <2>4 DEF StartUp
<1>2. CASE WsLost
  BY <1>0, <1>2 DEF WsLost, Change, Notify, Goto, IInv, TypeOK, Thread, Spoken,
         NeverInit, Target, Looked, Msg, Status, CalcGwStatus, IoLabel, MwLabel,
         TimerLabel
<1>3. CASE WsBack
  BY <1>0, <1>3 DEF WsBack, Change, Notify, Goto, IInv, TypeOK, Thread, Spoken,
         NeverInit, Target, Looked, Msg, Status, CalcGwStatus, IoLabel, MwLabel,
         TimerLabel
<1>4. CASE RestLost
  BY <1>0, <1>4 DEF RestLost, RestLaunched, Change, IInv, TypeOK, Thread, Spoken,
         NeverInit, Target, Looked, Msg, Status, CalcGwStatus, IoLabel, MwLabel,
         TimerLabel
<1>5. CASE RestBack
  BY <1>0, <1>5 DEF RestBack, RestLaunched, Change, Notify, Goto, IInv, TypeOK,
         Thread, Spoken, NeverInit, Target, Looked, Msg, Status, CalcGwStatus,
         IoLabel, MwLabel, TimerLabel
<1>6. CASE Call
  BY <1>0, <1>6 DEF Call, Goto, links, IInv, TypeOK, Thread, Spoken, NeverInit,
         Target, Looked, Msg, Status, CalcGwStatus, IoLabel, MwLabel, TimerLabel
<1>7. CASE InitFails
  BY <1>0, <1>7 DEF InitFails, Goto, links, IInv, TypeOK, Thread, Spoken, NeverInit,
         Target, Looked, Msg, Status, CalcGwStatus, IoLabel, MwLabel, TimerLabel
<1>8. CASE SetTarget
  BY <1>0, <1>8 DEF SetTarget, Goto, links, IInv, TypeOK, Thread, Spoken, NeverInit,
         Target, Looked, Msg, Status, CalcGwStatus, IoLabel, MwLabel, TimerLabel
<1>9. CASE Calc
  BY <1>0, <1>9 DEF Calc, Goto, links, IInv, TypeOK, Thread, Spoken, NeverInit,
         Target, Looked, Msg, Status, CalcGwStatus, IoLabel, MwLabel, TimerLabel
<1>10. CASE Tick
  BY <1>0, <1>10 DEF Tick, Goto, links, IInv, TypeOK, Thread, Spoken, NeverInit,
         Target, Looked, Msg, Status, CalcGwStatus, IoLabel, MwLabel, TimerLabel
<1>11. CASE \E t \in Thread : Step(t)
  <2>0. PICK t \in Thread : Step(t)
    BY <1>11
  <2>1. CASE WriteStatus(t)
    BY <1>0, <2>1 DEF WriteStatus, Goto, links, IInv, TypeOK, Thread, Spoken,
           NeverInit, Target, Looked, Msg, Status, CalcGwStatus, IoLabel, MwLabel,
           TimerLabel
  <2>2. CASE WriteDetail(t)
    BY <1>0, <2>2 DEF WriteDetail, Goto, links, IInv, TypeOK, Thread, Spoken,
           NeverInit, Target, Looked, Msg, Status, CalcGwStatus, IoLabel, MwLabel,
           TimerLabel
  <2>3. CASE Build(t)
    BY <1>0, <2>3 DEF Build, BuildStatusMsg, Goto, links, IInv, TypeOK, Thread,
           Spoken, NeverInit, Target, Looked, Msg, Status, CalcGwStatus, IoLabel,
           MwLabel, TimerLabel
  <2>4. CASE Send(t)
    BY <1>0, <2>4 DEF Send, Sent, links, IInv, TypeOK, Thread, Spoken, NeverInit,
           Target, Looked, Msg, Status, CalcGwStatus, IoLabel, MwLabel, TimerLabel
  <2> QED
    BY <2>0, <2>1, <2>2, <2>3, <2>4 DEF Step
<1>12. CASE UNCHANGED vars
  BY <1>12 DEF vars, links, IInv, Spoken, NeverInit, Target, Looked, Msg, Status,
         CalcGwStatus, IoLabel, MwLabel, TimerLabel
<1> QED
  BY <1>1, <1>2, <1>3, <1>4, <1>5, <1>6, <1>7, <1>8, <1>9, <1>10, <1>11, <1>12 DEF
         Next, Connections

-----------------------------------------------------------------------------
(* The invariant holds of every execution.                                 *)
THEOREM Invariant == Spec => []IInv
<1>1. IInv /\ [Next]_vars => IInv'
  BY TypeStep, FreshStep, DetailStep, SpokenStep DEF IInv
<1> QED
  BY InitEstablishes, <1>1, PTL DEF Spec

(* The types, and where each of the three threads can be.                  *)
THEOREM TypeCorrect == Spec => []TypeOK
BY Invariant, PTL DEF IInv

(* However often the connections change and in whatever order the threads  *)
(* go through the unlocked publication (PlatformComm.cpp:480-485), what    *)
(* they leave in currentStatus is the status of the flags, unless mw wrote *)
(* a status that a change had overtaken.                                   *)
THEOREM StatusCurrent == Spec => []CurrentUnlessOvertaken
<1>1. IInv => CurrentUnlessOvertaken
  BY DEF IInv, CurrentFresh, CurrentUnlessOvertaken, Settled, Written, Flags
<1> QED
  BY Invariant, <1>1, PTL

(* The detail blames the WebSocket only while it is down, although mw and  *)
(* the io thread write it without a lock.                                  *)
THEOREM DetailBlamesTheDown == Spec => []DetailTrue
<1>1. IInv => DetailTrue
  BY DEF IInv, DetailFresh, DetailTrue, Settled
<1> QED
  BY Invariant, <1>1, PTL

(* The placeholder of currentStatus is never sent: the timer exists only   *)
(* once mw has published.                                                  *)
THEOREM PlaceholderNeverHeard == Spec => []NeverInit
BY Invariant, PTL DEF IInv, Spoken
=============================================================================
