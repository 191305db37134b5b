--------------------------- MODULE GatewayStatus ---------------------------
(* The status the gateway publishes: ConnectivityState and the ready       *)
(* callbacks of the two clients (src/MDGateways/Binance/Binance.cpp), and  *)
(* the publication of currentStatus and currentDetail                      *)
(* (src/MDGateways/PlatformComm/PlatformComm.cpp).                         *)
(*                                                                         *)
(* Three threads publish without a lock: io (the ready callbacks), mw (the *)
(* middleware's thread, once, when the middleware is up) and timer (every  *)
(* five seconds, when mw has published).  Each goes through pc: a call of  *)
(* what publishStatusPtr holds, the two assignments, the message built     *)
(* from what both variables hold by then, and its sending.                 *)
(*                                                                         *)
(* The assignments race.  Both functions that publishStatusPtr may hold    *)
(* are captureless and every status fits in the string object itself, so   *)
(* each is taken as one step.                                              *)
(***************************************************************************)
EXTENDS Integers

CONSTANT MaxChanges  \* bound: changes of the connections after start-up

ASSUME ChangesAssumption == MaxChanges \in Nat

VARIABLES
    stage,    \* how far start-up has come on the io thread
    restUp,   \* the REST client is connected
    rest,     \* m_restConnected
    ws,       \* m_wsConnected
    target,   \* publishStatusPtr: nothing, or the publication
    pc,       \* what each thread does next
    arg,      \* what each thread publishes: the arguments, then the message
    current,  \* currentStatus and currentDetail
    heard,    \* the last message on the status topic
    changes,  \* changes of the connections so far
    overtaken \* the io thread has changed a flag since mw read it, and has
              \* not published since mw wrote what it had computed

links == <<stage, restUp, rest, ws, changes>>
vars  == <<links, target, pc, arg, current, heard, overtaken>>

Thread == {"io", "mw", "timer"}
Status == {"init", "operational", "degraded", "disconnected"}
Detail == {"", "WebSocket disconnected"}
Msg    == [status : Status, detail : Detail]
Silence == [status |-> "none", detail |-> ""]

CalcGwStatus(r, w) == IF r /\ w THEN "operational"
                      ELSE IF r \/ w THEN "degraded" ELSE "disconnected"

Goto(t, label) == pc' = [pc EXCEPT ![t] = label]

-----------------------------------------------------------------------------
(* The io thread: start-up.  Nothing is published: publishStatusPtr holds  *)
(* an empty function until the middleware is up.                           *)

RestConnects ==
    /\ stage = "rest"
    /\ stage' = "list"
    /\ restUp' = TRUE /\ rest' = TRUE
    /\ UNCHANGED <<ws, changes, target, pc, arg, current, heard, overtaken>>

ListArrives ==
    /\ stage = "list"
    /\ pc["io"] = "idle"
    /\ restUp
    /\ stage' = "ws"
    /\ UNCHANGED <<restUp, rest, ws, changes, target, pc, arg, current, heard, overtaken>>

(* The first connection starts the middleware's thread.                    *)
WsConnects ==
    /\ stage = "ws"
    /\ pc["io"] = "idle"
    /\ stage' = "up"
    /\ ws' = TRUE
    /\ Goto("mw", "starting")
    /\ UNCHANGED <<restUp, rest, changes, target, arg, current, heard, overtaken>>

(* An error before the first connection of either client stops the         *)
(* io_context.                                                             *)
StartFails ==
    /\ stage \in {"rest", "ws"}
    /\ pc["io"] = "idle"
    /\ stage' = "stopped"
    /\ UNCHANGED <<restUp, rest, ws, changes, target, pc, arg, current, heard, overtaken>>

(* The io thread: the ready callbacks after the first ones.                *)

(* Faulty variant for mutation testing: the status before the change.      *)
NotifyOld(r, w, detail) ==
    /\ Goto("io", "call")
    /\ arg' = [arg EXCEPT !["io"] = [status |-> CalcGwStatus(rest, ws), detail |-> detail]]
    /\ overtaken' = (overtaken \/ pc["mw"] = "status")

Notify(r, w, detail) ==
    /\ Goto("io", "call")
    /\ arg' = [arg EXCEPT !["io"] = [status |-> CalcGwStatus(r, w), detail |-> detail]]
    /\ overtaken' = (overtaken \/ pc["mw"] = "status")

Change(stages) ==
    /\ stage \in stages
    /\ pc["io"] = "idle"
    /\ changes < MaxChanges
    /\ changes' = changes + 1

WsLost ==
    /\ Change({"up"})
    /\ ws' = FALSE
    /\ Notify(rest, FALSE, "WebSocket disconnected")
    /\ UNCHANGED <<stage, restUp, rest, target, current, heard>>

WsBack ==
    /\ Change({"up"})
    /\ ~ws
    /\ ws' = TRUE
    /\ Notify(rest, TRUE, "")
    /\ UNCHANGED <<stage, restUp, rest, target, current, heard>>

RestLaunched == {"list", "ws", "up"}

(* fail() calls the ready callback only before the first connection.       *)
RestLost ==
    /\ Change(RestLaunched)
    /\ restUp
    /\ restUp' = FALSE
    /\ UNCHANGED <<stage, rest, ws, target, pc, arg, current, heard, overtaken>>

RestBack ==
    /\ Change(RestLaunched)
    /\ ~restUp
    /\ restUp' = TRUE /\ rest' = TRUE
    /\ Notify(TRUE, ws, "")
    /\ UNCHANGED <<stage, ws, target, current, heard>>

Call ==
    /\ pc["io"] = "call"
    /\ Goto("io", IF target = "publish" THEN "status" ELSE "idle")
    /\ UNCHANGED <<links, target, arg, current, heard, overtaken>>

-----------------------------------------------------------------------------
(* The middleware's thread.  Without a middleware (initErrorCb) it only    *)
(* ends.                                                                   *)

InitFails ==
    /\ pc["mw"] = "starting"
    /\ Goto("mw", "failed")
    /\ UNCHANGED <<links, target, arg, current, heard, overtaken>>

(* Faulty variant for mutation testing: the timer is installed first.      *)
SetTargetAndTimer ==
    /\ pc["mw"] = "starting"
    /\ target' = "publish"
    /\ pc' = [pc EXCEPT !["mw"] = "calc", !["timer"] = "idle"]
    /\ UNCHANGED <<links, arg, current, heard, overtaken>>

SetTarget ==
    /\ pc["mw"] = "starting"
    /\ target' = "publish"
    /\ Goto("mw", "calc")
    /\ UNCHANGED <<links, arg, current, heard, overtaken>>

Calc ==
    /\ pc["mw"] = "calc"
    /\ arg' = [arg EXCEPT !["mw"] = [status |-> CalcGwStatus(rest, ws), detail |-> ""]]
    /\ Goto("mw", "status")
    /\ UNCHANGED <<links, target, current, heard, overtaken>>

-----------------------------------------------------------------------------
(* The publication, and doPublishStatus, which the timer calls alone.      *)

WriteStatus(t) ==
    /\ pc[t] = "status"
    /\ current' = [current EXCEPT !.status = arg[t].status]
    /\ overtaken' = (overtaken /\ ~(t = "io" /\ pc["mw"] # "status"))
    /\ Goto(t, "detail")
    /\ UNCHANGED <<links, target, arg, heard>>

(* Faulty variant for mutation testing: an empty detail is not written.    *)
WriteDetailIfAny(t) ==
    /\ pc[t] = "detail"
    /\ current' = IF arg[t].detail = "" THEN current
                  ELSE [current EXCEPT !.detail = arg[t].detail]
    /\ Goto(t, "build")
    /\ UNCHANGED <<links, target, arg, heard, overtaken>>

WriteDetail(t) ==
    /\ pc[t] = "detail"
    /\ current' = [current EXCEPT !.detail = arg[t].detail]
    /\ Goto(t, "build")
    /\ UNCHANGED <<links, target, arg, heard, overtaken>>

(* Faulty variant for mutation testing: the timer sends the message of the *)
(* time it was installed.                                                  *)
BuildStatusMsgOnce(t) == IF t = "timer" THEN arg["mw"] ELSE current

BuildStatusMsg(t) == current

Build(t) ==
    /\ pc[t] = "build"
    /\ arg' = [arg EXCEPT ![t] = BuildStatusMsg(t)]
    /\ Goto(t, "send")
    /\ UNCHANGED <<links, target, current, heard, overtaken>>

(* Faulty variant for mutation testing: mw, too, waits for more to publish,*)
(* and never installs the timer.                                           *)
SentAndIdle(t) == Goto(t, "idle")

(* When mw has published, it installs the timer.                           *)
Sent(t) ==
    pc' = IF t = "mw" THEN [pc EXCEPT !["mw"] = "done", !["timer"] = "idle"]
                      ELSE [pc EXCEPT ![t] = "idle"]

Send(t) ==
    /\ pc[t] = "send"
    /\ heard' = arg[t]
    /\ Sent(t)
    /\ UNCHANGED <<links, target, arg, current, overtaken>>

Tick ==
    /\ pc["timer"] = "idle"
    /\ Goto("timer", "build")
    /\ UNCHANGED <<links, target, arg, current, heard, overtaken>>

-----------------------------------------------------------------------------
Init ==
    /\ stage = "rest"
    /\ restUp = FALSE /\ rest = FALSE /\ ws = FALSE
    /\ target = "nothing"
    /\ pc = [t \in Thread |-> IF t = "io" THEN "idle" ELSE "off"]
    /\ arg = [t \in Thread |-> [status |-> "init", detail |-> ""]]
    /\ current = [status |-> "init", detail |-> ""]
    /\ heard = Silence
    /\ changes = 0
    /\ overtaken = FALSE

StartUp     == RestConnects \/ ListArrives \/ WsConnects \/ StartFails
Connections == WsLost \/ WsBack \/ RestLost \/ RestBack
Step(t)     == WriteStatus(t) \/ WriteDetail(t) \/ Build(t) \/ Send(t)

Next ==
    \/ StartUp
    \/ Connections
    \/ Call
    \/ InitFails
    \/ SetTarget
    \/ Calc
    \/ Tick
    \/ \E t \in Thread : Step(t)

Spec == Init /\ [][Next]_vars

(* A thread goes on; the timer ticks.  Nothing is assumed of start-up, of  *)
(* the connections or of the middleware's initialisation.                  *)
Fairness ==
    /\ WF_vars(Call)
    /\ WF_vars(Calc)
    /\ WF_vars(Tick)
    /\ \A t \in Thread : WF_vars(Step(t))

FairSpec == Spec /\ Fairness

-----------------------------------------------------------------------------
IoLabel    == {"idle", "call", "status", "detail", "build", "send"}
MwLabel    == {"off", "starting", "failed", "calc", "status", "detail", "build",
               "send", "done"}
TimerLabel == {"off", "idle", "build", "send"}

(* Types, and where each thread can be.                                    *)
TypeOK ==
    /\ stage \in {"rest", "list", "ws", "up", "stopped"}
    /\ restUp \in BOOLEAN /\ rest \in BOOLEAN /\ ws \in BOOLEAN
    /\ target \in {"nothing", "publish"}
    /\ pc \in [Thread -> IoLabel \cup MwLabel \cup TimerLabel]
    /\ pc["io"] \in IoLabel /\ pc["mw"] \in MwLabel /\ pc["timer"] \in TimerLabel
    /\ arg \in [Thread -> Msg]
    /\ current \in Msg
    /\ heard \in Msg \cup {Silence}
    /\ changes \in 0..MaxChanges
    /\ overtaken \in BOOLEAN

Settled == pc["io"] = "idle" /\ pc["mw"] = "done"

(* Between two publications the status is the one of the flags, whatever   *)
(* the order in which the threads went through theirs, unless mw wrote a   *)
(* status it had computed before a change the io thread has published.     *)
CurrentUnlessOvertaken ==
    Settled /\ ~overtaken => current.status = CalcGwStatus(rest, ws)

(* The detail never blames a WebSocket that is connected.                  *)
DetailTrue == Settled /\ current.detail # "" => ~ws

(* Consumers hear nothing before the gateway knows what to say.            *)
NeverInit == heard.status # "init"

(* The last message converges to the current status, although a thread may *)
(* send one it built earlier: the timer repeats it.                        *)
Converges == <>[](pc["mw"] # "done") \/ <>[](heard = current)
=============================================================================
