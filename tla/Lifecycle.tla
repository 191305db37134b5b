----------------------------- MODULE Lifecycle -----------------------------
(* The life of the process: initializeMiddleWare and its consumption loops *)
(* (src/MiddleWare/Interface.cpp), and the exit callback and the threads   *)
(* of main (src/MDGateways/Binance/Binance.cpp).                           *)
(*                                                                         *)
(* main runs the io_context and then joins mw.  mw runs                    *)
(* initializeMiddleWare, whose last part is the loop of the individual     *)
(* consumer.  group, a detached thread, runs the loop of the group         *)
(* consumer, an object on mw's stack.  The worker handles request_stop.    *)
(*                                                                         *)
(* Not modelled are the other users of what main owns: the worker, which   *)
(* posts clients' commands to the strand and belongs to globals, and the   *)
(* session, which its own ready callback holds, may outlive main.          *)
(*                                                                         *)
(* The loop of the individual consumer runs on mw itself: when it is       *)
(* destroyed it has released the semaphore its destructor acquires, and    *)
(* nothing of it is left to model.                                         *)
(***************************************************************************)
EXTENDS Sequences

VARIABLES
    main,      \* run: in io_context::run; join: waits for mw; exited; killed
    inHandler, \* the io thread is inside a completion handler
    stopped,   \* the io_context is stopped
    handlers,  \* what SIGINT and SIGTERM do: terminate the process, set the flag
    flag,      \* g_shutdownRequested
    stopMsg,   \* request_stop: not sent, in the worker's queue, handled
    mw,        \* where the middleware's thread is
    group,     \* where the detached thread is
    loopAlive, \* the group consumer's ConsumptionLoop exists
    running,   \* its m_running
    killed,    \* its semaphore m_killed
    announced  \* the lifecycle messages sent to the registrations topic

io    == <<main, inHandler, stopped>>
stops == <<handlers, flag, stopMsg>>
loop  == <<group, loopAlive, running, killed>>
vars  == <<io, stops, mw, loop, announced>>

Up == main \in {"run", "join"}

-----------------------------------------------------------------------------
(* The io thread.                                                          *)

EnterHandler ==
    /\ main = "run" /\ ~inHandler /\ ~stopped
    /\ inHandler' = TRUE
    /\ UNCHANGED <<main, stopped, stops, mw, loop, announced>>

LeaveHandler ==
    /\ main = "run" /\ inHandler
    /\ inHandler' = FALSE
    /\ UNCHANGED <<main, stopped, stops, mw, loop, announced>>

(* The first connection of the WebSocket client starts mw; an error before *)
(* it stops the io_context.                                                *)
StartMw ==
    /\ main = "run" /\ inHandler /\ ~stopped
    /\ mw = "off"
    /\ mw' = "init"
    /\ UNCHANGED <<io, stops, loop, announced>>

StartFails ==
    /\ main = "run" /\ inHandler /\ ~stopped
    /\ mw = "off"
    /\ stopped' = TRUE
    /\ UNCHANGED <<main, inHandler, stops, mw, loop, announced>>

RunReturns ==
    /\ main = "run" /\ stopped /\ ~inHandler
    /\ main' = "join"
    /\ UNCHANGED <<inHandler, stopped, stops, mw, loop, announced>>

(* The jthread, declared last in main, is joined before the io_context and *)
(* what else main owns are destroyed.                                      *)
Join ==
    /\ main = "join"
    /\ mw \in {"off", "returned"}
    /\ main' = "exited"
    /\ UNCHANGED <<inHandler, stopped, stops, mw, loop, announced>>

-----------------------------------------------------------------------------
(* Requests to stop.                                                       *)

Signal ==
    /\ Up
    /\ IF handlers = "flag"
       THEN flag' = TRUE /\ UNCHANGED main
       ELSE main' = "killed" /\ UNCHANGED flag
    /\ UNCHANGED <<inHandler, stopped, handlers, stopMsg, mw, loop, announced>>

(* Either loop may poll it, the group consumer's once the init callback    *)
(* has subscribed it.                                                      *)
PollRequestStop ==
    /\ Up
    /\ stopMsg = "none"
    /\ mw = "loop" \/ (group = "loop" /\ (mw = "announce" \/ announced # <<>>))
    /\ stopMsg' = "queued"
    /\ UNCHANGED <<io, handlers, flag, mw, loop, announced>>

HandleLifecycle ==
    /\ Up
    /\ stopMsg = "queued"
    /\ stopMsg' = "handled"
    /\ flag' = TRUE
    /\ UNCHANGED <<io, handlers, mw, loop, announced>>

-----------------------------------------------------------------------------
(* The middleware's thread.                                                *)

Mw(from, to) == Up /\ mw = from /\ mw' = to

InstallHandlers ==
    /\ Mw("init", "create")
    /\ flag' = FALSE
    /\ handlers' = "flag"
    /\ UNCHANGED <<stopMsg, io, loop, announced>>

(* Producer, consumers and topic; an exception returns.                    *)
CreateFails == Mw("create", "returned") /\ UNCHANGED <<io, stops, loop, announced>>

Spawn ==
    /\ Mw("create", "subscribe")
    /\ loopAlive' = TRUE
    /\ group' = "spawned"
    /\ UNCHANGED <<io, stops, running, killed, announced>>

(* Faulty variant for mutation testing: one way out for both.              *)
SubscribeFailsAsShutdown ==
    Mw("subscribe", "down") /\ UNCHANGED <<io, stops, loop, announced>>

(* An error of individualConsumerFunc returns; the loop is destroyed.      *)
SubscribeFails == Mw("subscribe", "kill") /\ UNCHANGED <<io, stops, loop, announced>>

InitCallback == Mw("subscribe", "announce") /\ UNCHANGED <<io, stops, loop, announced>>

(* Faulty variant for mutation testing: another message type.              *)
AppUpAsHeartBeat ==
    /\ Mw("announce", "loop")
    /\ announced' = Append(announced, "heartBeat")
    /\ UNCHANGED <<io, stops, loop>>

AppUp ==
    /\ Mw("announce", "loop")
    /\ announced' = Append(announced, "app_up")
    /\ UNCHANGED <<io, stops, loop>>

LoopEnds == flag /\ Mw("loop", "down") /\ UNCHANGED <<io, stops, loop, announced>>

AppDown ==
    /\ Mw("down", "exit")
    /\ announced' = Append(announced, "app_down")
    /\ UNCHANGED <<io, stops, loop>>

(* Faulty variant for mutation testing: the io_context is left running.    *)
LeaveIoc ==
    /\ Mw("exit", "stopSession")
    /\ UNCHANGED <<io, stops, loop, announced>>

(* The exit callback: ioc.stop(), sess->stop(), which closes the stream    *)
(* here and now, and restClient->stop(), whose handler never runs.         *)
StopIoc ==
    /\ Mw("exit", "stopSession")
    /\ stopped' = TRUE
    /\ UNCHANGED <<main, inHandler, stops, loop, announced>>

StopSession == Mw("stopSession", "kill") /\ UNCHANGED <<io, stops, loop, announced>>

(* ~ConsumptionLoop: kill() waits for the loop it finds running.           *)
Kill ==
    /\ IF running
       THEN Mw("kill", "acquire") /\ running' = FALSE /\ UNCHANGED loopAlive
       ELSE Mw("kill", "returned") /\ loopAlive' = FALSE /\ UNCHANGED running
    /\ UNCHANGED <<io, stops, group, killed, announced>>

(* Faulty variant for mutation testing: kill() does not wait.              *)
AcquireAtOnce ==
    /\ Mw("acquire", "returned")
    /\ loopAlive' = FALSE
    /\ UNCHANGED <<io, stops, group, running, killed, announced>>

Acquire ==
    /\ killed
    /\ Mw("acquire", "returned")
    /\ killed' = FALSE
    /\ loopAlive' = FALSE
    /\ UNCHANGED <<io, stops, group, running, announced>>

-----------------------------------------------------------------------------
(* The detached thread.  The use of a destroyed loop is undefined: lost.   *)

GroupStart ==
    /\ Up
    /\ group = "spawned"
    /\ IF loopAlive
       THEN group' = "loop" /\ running' = TRUE
       ELSE group' = "lost" /\ UNCHANGED running
    /\ UNCHANGED <<io, stops, mw, loopAlive, killed, announced>>

(* Faulty variant for mutation testing: the semaphore is not released.     *)
CloseOnly == UNCHANGED killed

Release == killed' = TRUE

GroupEnds ==
    /\ Up
    /\ group = "loop"
    /\ ~running \/ flag
    /\ group' = "ended"
    /\ Release
    /\ UNCHANGED <<io, stops, mw, loopAlive, running, announced>>

-----------------------------------------------------------------------------
Init ==
    /\ main = "run" /\ inHandler = FALSE /\ stopped = FALSE
    /\ handlers = "default" /\ flag = FALSE /\ stopMsg = "none"
    /\ mw = "off"
    /\ group = "none" /\ loopAlive = FALSE /\ running = FALSE /\ killed = FALSE
    /\ announced = <<>>

MwStep == \/ InstallHandlers \/ CreateFails \/ Spawn \/ SubscribeFails
          \/ InitCallback \/ AppUp \/ LoopEnds \/ AppDown
          \/ StopIoc \/ StopSession \/ Kill \/ Acquire

Next ==
    \/ EnterHandler \/ LeaveHandler \/ StartMw \/ StartFails \/ RunReturns \/ Join
    \/ Signal \/ PollRequestStop \/ HandleLifecycle
    \/ MwStep
    \/ GroupStart \/ GroupEnds

Spec == Init /\ [][Next]_vars

(* Every thread goes on; a handler returns and the closing of the session  *)
(* does not block.  Nothing is assumed of the requests to stop.            *)
Fairness ==
    /\ WF_vars(LeaveHandler)
    /\ WF_vars(RunReturns)
    /\ WF_vars(Join)
    /\ WF_vars(HandleLifecycle)
    /\ WF_vars(MwStep)
    /\ WF_vars(GroupStart)
    /\ WF_vars(GroupEnds)

FairSpec == Spec /\ Fairness

-----------------------------------------------------------------------------
(* Types.                                                                  *)
TypeOK ==
    /\ main \in {"run", "join", "exited", "killed"}
    /\ inHandler \in BOOLEAN /\ stopped \in BOOLEAN
    /\ handlers \in {"default", "flag"} /\ flag \in BOOLEAN
    /\ stopMsg \in {"none", "queued", "handled"}
    /\ mw \in {"off", "init", "create", "subscribe", "announce", "loop", "down", "exit",
               "stopSession", "kill", "acquire", "returned"}
    /\ group \in {"none", "spawned", "loop", "ended", "lost"}
    /\ loopAlive \in BOOLEAN /\ running \in BOOLEAN /\ killed \in BOOLEAN
    /\ announced \in Seq({"app_up", "app_down"})

(* A loop that has started has ended before it is destroyed ("killed via   *)
(* RAII"), on every way out of initializeMiddleWare.                       *)
StartedLoopEndsFirst == ~loopAlive => group # "loop"

(* The registrations topic hears app_up and app_down in turn: a gateway    *)
(* that was announced serves until it has said that it leaves, and it has  *)
(* once initializeMiddleWare has returned or the process is gone.          *)
LifecycleAnnounced ==
    mw = "returned" \/ stopped \/ ~Up => announced \in {<<>>, <<"app_up", "app_down">>}

(* A gateway that is up ends when it is told to, however its threads stand.*)
StopEndsProcess ==
    flag /\ announced # <<>> ~> main = "exited"

(* initializeMiddleWare that gives up halfway returns: the destructor does *)
(* not wait in vain.                                                       *)
DestructorReturns == mw = "kill" ~> mw = "returned"
=============================================================================
