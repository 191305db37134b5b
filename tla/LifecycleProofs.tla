-------------------------- MODULE LifecycleProofs --------------------------
(* Theorems about Lifecycle.                                               *)
(*                                                                         *)
(* Three threads share the end of the process, and each property says of   *)
(* one what only another knows.  The invariant follows mw from the         *)
(* outside: what it has announced, whether the group's loop exists, and    *)
(* who will release the semaphore it may wait for.                         *)
EXTENDS Lifecycle, SequenceTheorems, TLAPS

(* The loop of the group consumer exists from Spawn to the end of its      *)
(* destructor.                                                             *)
Unspawned == {"off", "init", "create"}
Spawned   == {"subscribe", "announce", "loop", "down", "exit", "stopSession", "kill", "acquire"}

LoopOnStack ==
    /\ loopAlive <=> mw \in Spawned
    /\ mw \in Unspawned => group = "none"

(* m_running and the semaphore tell how far the detached thread is: the    *)
(* loop runs and is not released, or it is being killed.                   *)
LoopTold ==
    /\ group \in {"none", "spawned"} => ~running /\ ~killed
    /\ group = "loop" => loopAlive /\ ~killed /\ (running \/ mw = "acquire")
    /\ group = "ended" => killed \/ mw = "returned"
    /\ group = "lost" => mw = "returned"

(* The destructor waits for a loop that will still release the semaphore,  *)
(* or has.                                                                 *)
NoWaitInVain == mw = "acquire" => group \in {"loop", "ended"}

(* What has been announced, by where mw is.                                *)
Both == <<"app_up", "app_down">>

Announced ==
    /\ mw \in Unspawned \cup {"subscribe", "announce"} => announced = <<>>
    /\ mw \in {"loop", "down"} => announced = <<"app_up">>
    /\ mw \in {"exit", "stopSession"} => announced = Both
    /\ mw \in {"kill", "acquire", "returned"} => announced \in {<<>>, Both}

(* From InstallHandlers on no signal ends the process.                     *)
SignalsCaught ==
    /\ mw \notin {"off", "init"} => handlers = "flag"
    /\ main = "killed" => mw \in {"off", "init"}

(* The io_context is stopped because the first connection failed, or by    *)
(* the exit callback, which follows app_down, which follows a request.     *)
LeavesWhenTold ==
    /\ stopped => mw = "off" \/ announced = Both
    /\ mw = "down" \/ announced = Both => flag

(* main waits for mw, and only for mw, before it goes.                     *)
MainGoesLast == main = "exited" => mw \in {"off", "returned"}

IInv ==
    /\ TypeOK
    /\ MainGoesLast
    /\ LoopOnStack
    /\ LoopTold
    /\ NoWaitInVain
    /\ Announced
    /\ SignalsCaught
    /\ LeavesWhenTold

-----------------------------------------------------------------------------
(* The messages in a row.                                                  *)
Message == {"app_up", "app_down"}

LEMMA UpAndDown == Append(<<"app_up">>, "app_down") = Both
<1> DEFINE a == Append(<<"app_up">>, "app_down")
<1>1. <<"app_up">> \in Seq(Message) /\ "app_down" \in Message
  BY DEF Message
<1>2. Len(<<"app_up">>) = 1
  OBVIOUS
<1>3. a \in Seq(Message) /\ Len(a) = 2 /\ a[1] = "app_up" /\ a[2] = "app_down"
  BY <1>1, <1>2, AppendProperties
<1>4. Both \in Seq(Message) /\ Len(Both) = 2 /\ Both[1] = "app_up" /\ Both[2] = "app_down"
  BY DEF Message, Both
<1> HIDE DEF a
<1>5. \A i \in 1..Len(a) : a[i] = Both[i]
  BY <1>3, <1>4
<1> QED
  BY <1>3, <1>4, <1>5, SeqEqual DEF a

LEMMA Messages ==
    /\ Append(<<>>, "app_up") = <<"app_up">>
    /\ Append(<<"app_up">>, "app_down") = Both
    /\ <<"app_up">> # Both /\ <<>> # Both /\ <<>> # <<"app_up">>
<1>1. Append(<<>>, "app_up") = <<"app_up">>
  OBVIOUS
<1>2. Len(<<>>) = 0 /\ Len(<<"app_up">>) = 1 /\ Len(Both) = 2
  BY DEF Both
<1> QED
  BY <1>1, <1>2, UpAndDown

-----------------------------------------------------------------------------
(* Every step keeps the types.                                             *)
LEMMA TypeStep == TypeOK /\ [Next]_vars => TypeOK'
<1> SUFFICES ASSUME TypeOK, [Next]_vars PROVE TypeOK'
  OBVIOUS
<1>1. CASE EnterHandler \/ LeaveHandler \/ StartMw \/ StartFails \/ RunReturns \/ Join
  BY <1>1 DEF EnterHandler, LeaveHandler, StartMw, StartFails, RunReturns, Join, io, stops, loop,
     TypeOK
<1>2. CASE Signal \/ PollRequestStop \/ HandleLifecycle
  BY <1>2 DEF Signal, PollRequestStop, HandleLifecycle, io, stops,
     loop, TypeOK
<1>3. CASE InstallHandlers \/ CreateFails \/ Spawn \/ SubscribeFails \/ InitCallback \/ LoopEnds
             \/ StopIoc \/ StopSession
  BY <1>3 DEF InstallHandlers, CreateFails, Spawn, SubscribeFails, InitCallback, LoopEnds, StopIoc,
     StopSession, Mw, io, stops, loop, TypeOK
<1>4. CASE AppUp \/ AppDown
  BY <1>4 DEF AppUp, AppDown, Mw, io, stops, loop, TypeOK
<1>5. CASE Kill \/ Acquire \/ GroupStart \/ GroupEnds
  BY <1>5 DEF Kill, Acquire, GroupStart, GroupEnds, Release, Mw, io, stops, TypeOK
<1>6. CASE UNCHANGED vars
  BY <1>6 DEF vars, io, stops, loop, TypeOK
<1> QED
  BY <1>1, <1>2, <1>3, <1>4, <1>5, <1>6 DEF Next, MwStep

-----------------------------------------------------------------------------
(* What a step may do to the position of mw, to the main thread and to     *)
(* what is announced: the parts about these follow from it.                *)
LEMMA NextMw ==
    ASSUME Next
    PROVE  \/ UNCHANGED <<mw, announced>>
           \/ /\ Up
              /\ \/ /\ <<mw, mw'>> \in {<<"off", "init">>, <<"init", "create">>,
                                       <<"create", "returned">>, <<"create", "subscribe">>,
                                       <<"subscribe", "kill">>, <<"subscribe", "announce">>,
                                       <<"loop", "down">>, <<"exit", "stopSession">>,
                                       <<"stopSession", "kill">>, <<"kill", "acquire">>,
                                       <<"kill", "returned">>, <<"acquire", "returned">>}
                    /\ announced' = announced
                 \/ mw = "announce" /\ mw' = "loop" /\ announced' = Append(announced, "app_up")
                 \/ mw = "down" /\ mw' = "exit" /\ announced' = Append(announced, "app_down")
<1>1. CASE EnterHandler \/ LeaveHandler \/ StartMw \/ StartFails \/ RunReturns \/ Join
  BY <1>1 DEF EnterHandler, LeaveHandler, StartMw, StartFails, RunReturns, Join, Up
<1>2. CASE Signal \/ PollRequestStop \/ HandleLifecycle
             \/ GroupStart \/ GroupEnds
  BY <1>2 DEF Signal, PollRequestStop, HandleLifecycle, GroupStart,
     GroupEnds
<1>3. CASE InstallHandlers \/ CreateFails \/ Spawn \/ SubscribeFails \/ InitCallback
  BY <1>3 DEF InstallHandlers, CreateFails, Spawn, SubscribeFails, InitCallback, Mw
<1>4. CASE AppUp \/ LoopEnds \/ AppDown \/ StopIoc \/ StopSession \/ Kill \/ Acquire
  BY <1>4 DEF AppUp, LoopEnds, AppDown, StopIoc, StopSession, Kill, Acquire, Mw
<1> QED
  BY <1>1, <1>2, <1>3, <1>4 DEF Next, MwStep

LEMMA AnnouncedStep == Announced /\ [Next]_vars => Announced'
<1> SUFFICES ASSUME Announced, [Next]_vars PROVE Announced'
  OBVIOUS
<1>1. CASE Next
  BY <1>1, NextMw, Messages DEF Announced, Unspawned
<1>2. CASE UNCHANGED vars
  BY <1>2 DEF vars, Announced
<1> QED
  BY <1>1, <1>2

(* main goes when mw is off or has returned, and mw goes no further.       *)
LEMMA OwnerStep == MainGoesLast /\ [Next]_vars => MainGoesLast'
<1> SUFFICES ASSUME MainGoesLast, [Next]_vars, main' = "exited"
             PROVE  mw' \in {"off", "returned"}
  BY DEF MainGoesLast
<1>1. CASE main = "exited"
  BY <1>1, NextMw DEF MainGoesLast, Up, vars
<1>2. CASE Join
  BY <1>2 DEF Join
<1>3. main = "exited" \/ Join
  BY DEF Next, MwStep, vars, io, EnterHandler, LeaveHandler, StartMw, StartFails, RunReturns,
     Signal, PollRequestStop, HandleLifecycle, InstallHandlers,
     CreateFails, Spawn, SubscribeFails,
     InitCallback, AppUp, LoopEnds, AppDown, StopIoc, StopSession, Kill, Acquire, GroupStart,
     GroupEnds
<1> QED
  BY <1>1, <1>2, <1>3

(* A signal kills before the handlers are installed, and mw goes no        *)
(* further.                                                                *)
LEMMA SignalsStep == SignalsCaught /\ [Next]_vars => SignalsCaught'
<1> SUFFICES ASSUME SignalsCaught, [Next]_vars PROVE SignalsCaught'
  OBVIOUS
<1>1. CASE Signal
  BY <1>1 DEF Signal, SignalsCaught
<1>2. CASE InstallHandlers
  BY <1>2 DEF InstallHandlers, Mw, Up, io, SignalsCaught
<1>3. CASE UNCHANGED vars
  BY <1>3 DEF vars, io, stops, SignalsCaught
<1>4. CASE Next /\ handlers' = handlers /\ main' # "killed" /\ (mw = "init" => mw' = mw)
  BY <1>4, NextMw DEF SignalsCaught, Up
<1>5. CASE Next /\ ~Signal /\ ~InstallHandlers
  <2>1. handlers' = handlers /\ (mw = "init" => mw' = mw)
    BY <1>5 DEF Next, MwStep, Mw, stops, EnterHandler, LeaveHandler, StartMw, StartFails,
       RunReturns, Join, PollRequestStop, HandleLifecycle, CreateFails,
       Spawn, SubscribeFails,
       InitCallback, AppUp, LoopEnds, AppDown, StopIoc, StopSession, Kill, Acquire, GroupStart,
       GroupEnds
  <2>2. main' # "killed" \/ UNCHANGED <<main, mw>>
    BY <1>5 DEF Next, MwStep, Mw, Up, io, EnterHandler, LeaveHandler, StartMw, StartFails,
       RunReturns, Join, PollRequestStop, HandleLifecycle, CreateFails,
       Spawn, SubscribeFails,
       InitCallback, AppUp, LoopEnds, AppDown, StopIoc, StopSession, Kill, Acquire, GroupStart,
       GroupEnds
  <2> QED
    BY <1>4, <1>5, <2>1, <2>2 DEF SignalsCaught
<1> QED
  BY <1>1, <1>2, <1>3, <1>5

(* The io_context is stopped before mw is there, or by mw after app_down;  *)
(* the flag falls before the loops look at it.                             *)
LEMMA LeavesStep ==
    ASSUME TypeOK, Announced, LeavesWhenTold, [Next]_vars
    PROVE  LeavesWhenTold'
<1>1. CASE EnterHandler \/ LeaveHandler \/ StartMw \/ StartFails \/ RunReturns \/ Join
  BY <1>1 DEF EnterHandler, LeaveHandler, StartMw, StartFails, RunReturns, Join, io, stops,
     LeavesWhenTold
<1>2. CASE Signal \/ PollRequestStop \/ HandleLifecycle
             \/ GroupStart \/ GroupEnds
  BY <1>2 DEF Signal, PollRequestStop, HandleLifecycle, GroupStart,
     GroupEnds, io, stops, Up, LeavesWhenTold
<1>3. CASE InstallHandlers
  BY <1>3, Messages DEF InstallHandlers, Mw, io, Announced, Unspawned, LeavesWhenTold
<1>4. CASE CreateFails \/ Spawn \/ SubscribeFails \/ InitCallback \/ LoopEnds \/ StopSession
             \/ Kill \/ Acquire
  BY <1>4 DEF CreateFails, Spawn, SubscribeFails, InitCallback, LoopEnds, StopSession, Kill,
     Acquire, Mw, io, stops, LeavesWhenTold
<1>5. CASE AppUp
  BY <1>5, Messages DEF AppUp, Mw, io, stops, Announced, LeavesWhenTold
<1>6. CASE AppDown
  BY <1>6, Messages DEF AppDown, Mw, io, stops, Announced, LeavesWhenTold
<1>7. CASE StopIoc
  BY <1>7, Messages DEF StopIoc, Mw, stops, Announced, LeavesWhenTold
<1>8. CASE UNCHANGED vars
  BY <1>8 DEF vars, io, stops, LeavesWhenTold
<1> QED
  BY <1>1, <1>2, <1>3, <1>4, <1>5, <1>6, <1>7, <1>8 DEF Next, MwStep

(* The life of the group's loop, from both threads: that it is running     *)
(* when the destructor looks is what makes it wait, and what it waits for  *)
(* is the end of the loop.                                                 *)
LEMMA LoopStep ==
    ASSUME TypeOK, LoopOnStack, LoopTold, NoWaitInVain, [Next]_vars
    PROVE  (LoopOnStack /\ LoopTold /\ NoWaitInVain)'
<1>1. CASE Spawn
  BY <1>1 DEF Spawn, Mw, TypeOK, LoopOnStack, LoopTold, NoWaitInVain, Unspawned, Spawned
<1>2. CASE Kill
  BY <1>2 DEF Kill, Mw, TypeOK, LoopOnStack, LoopTold, NoWaitInVain, Unspawned, Spawned
<1>3. CASE Acquire
  BY <1>3 DEF Acquire, Mw, TypeOK, LoopOnStack, LoopTold, NoWaitInVain, Unspawned, Spawned
<1>4. CASE GroupStart
  BY <1>4 DEF GroupStart, TypeOK, LoopOnStack, LoopTold, NoWaitInVain, Unspawned, Spawned
<1>5. CASE GroupEnds
  BY <1>5 DEF GroupEnds, Release, TypeOK, LoopOnStack, LoopTold, NoWaitInVain, Unspawned, Spawned
<1>6. CASE EnterHandler \/ LeaveHandler \/ StartMw \/ StartFails \/ RunReturns \/ Join
  BY <1>6 DEF EnterHandler, LeaveHandler, StartMw, StartFails, RunReturns, Join, loop,
     LoopOnStack, LoopTold, NoWaitInVain, Unspawned, Spawned
<1>7. CASE Signal \/ PollRequestStop \/ HandleLifecycle
             \/ UNCHANGED vars
  BY <1>7 DEF Signal, PollRequestStop, HandleLifecycle, vars, loop,
     LoopOnStack, LoopTold, NoWaitInVain, Unspawned, Spawned
<1>8. CASE InstallHandlers \/ CreateFails \/ SubscribeFails \/ InitCallback \/ AppUp
             \/ LoopEnds \/ AppDown \/ StopIoc \/ StopSession
  BY <1>8 DEF InstallHandlers, CreateFails, SubscribeFails, InitCallback, AppUp, LoopEnds,
     AppDown, StopIoc, StopSession, Mw, loop, LoopOnStack, LoopTold, NoWaitInVain, Unspawned,
     Spawned
<1> QED
  BY <1>1, <1>2, <1>3, <1>4, <1>5, <1>6, <1>7, <1>8 DEF Next, MwStep

-----------------------------------------------------------------------------
LEMMA InitEstablishes == Init => IInv
<1> SUFFICES ASSUME Init PROVE IInv
  OBVIOUS
<1>1. TypeOK
  <2>1. announced \in Seq({"app_up", "app_down"})
    BY DEF Init
  <2> QED
    BY <2>1 DEF Init, TypeOK
<1>2. MainGoesLast /\ SignalsCaught
  BY DEF Init, MainGoesLast, SignalsCaught
<1>3. Announced /\ LeavesWhenTold
  BY Messages DEF Init, Announced, LeavesWhenTold, Unspawned
<1>4. LoopOnStack /\ LoopTold /\ NoWaitInVain
  BY DEF Init, LoopOnStack, LoopTold, NoWaitInVain, Unspawned, Spawned
<1> QED
  BY <1>1, <1>2, <1>3, <1>4 DEF IInv

LEMMA StepPreserves == IInv /\ [Next]_vars => IInv'
BY TypeStep, OwnerStep, LoopStep, AnnouncedStep, SignalsStep, LeavesStep DEF IInv

-----------------------------------------------------------------------------
(* The inductive invariant holds in every reachable state.                 *)
THEOREM Invariant == Spec => []IInv
<1> QED BY InitEstablishes, StepPreserves, PTL DEF Spec

(* The variables keep their types.                                         *)
THEOREM TypeCorrect == Spec => []TypeOK
<1>1. IInv => TypeOK
  BY DEF IInv
<1> QED BY <1>1, Invariant, PTL

(* ~ConsumptionLoop destroys no loop that a detached thread runs.          *)
THEOREM LoopEndsBeforeItsEnd == Spec => []StartedLoopEndsFirst
<1>1. IInv => StartedLoopEndsFirst
  BY DEF IInv, LoopTold, StartedLoopEndsFirst
<1> QED BY <1>1, Invariant, PTL

(* Who hears app_up is served until he hears app_down, and hears it from   *)
(* every gateway that is gone.                                             *)
THEOREM ComesAndGoesAnnounced == Spec => []LifecycleAnnounced
<1>1. IInv => LifecycleAnnounced
  <2> SUFFICES ASSUME IInv, mw = "returned" \/ stopped \/ ~Up PROVE announced \in {<<>>, Both}
    BY DEF LifecycleAnnounced, Both
  <2>1. TypeOK /\ MainGoesLast /\ Announced /\ SignalsCaught /\ LeavesWhenTold
    BY DEF IInv
  <2>2. CASE mw = "returned"
    BY <2>1, <2>2 DEF Announced
  <2>3. CASE stopped
    BY <2>1, <2>3 DEF Announced, LeavesWhenTold, Unspawned
  <2>4. CASE main \in {"exited", "killed"}
    BY <2>1, <2>4 DEF MainGoesLast, SignalsCaught, Announced, Unspawned
  <2> QED
    BY <2>1, <2>2, <2>3, <2>4 DEF TypeOK, Up
<1> QED BY <1>1, Invariant, PTL

(* The destructor that acquires the semaphore finds it released or a loop  *)
(* that will release it: kill() found m_running set by the loop it kills.  *)
SomebodyReleases == mw = "acquire" => killed \/ group = "loop"

THEOREM NobodyWaitsInVain == Spec => []SomebodyReleases
<1>1. IInv => SomebodyReleases
  BY DEF IInv, NoWaitInVain, LoopTold, SomebodyReleases
<1> QED BY <1>1, Invariant, PTL

(* app_down is sent on request only: no error, and no end of the           *)
(* io_context, makes a gateway that is up take leave.                      *)
LeavesOnRequest == announced = <<"app_up", "app_down">> => flag

THEOREM TakesLeaveOnRequest == Spec => []LeavesOnRequest
<1>1. IInv => LeavesOnRequest
  BY DEF IInv, LeavesOnRequest, LeavesWhenTold, Both
<1> QED BY <1>1, Invariant, PTL
=============================================================================
