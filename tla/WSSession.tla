----------------------------- MODULE WSSession -----------------------------
(***************************************************************************)
(* The WebSocket session of the Binance gateway (class session,            *)
(* src/MDGateways/Binance/WebSockets.h).  Every handler of the session     *)
(* runs on one strand, so one handler is one action; what interleaves is   *)
(* the order in which requests, write completions, the throttler and       *)
(* connection failures reach that strand.                                  *)
(*                                                                         *)
(* A command is one frame handed to the throttler: SUBSCRIBE or            *)
(* UNSUBSCRIBE with the set of streams it names.  The message id and the   *)
(* JSON text are left out: nothing in the session reads them back.         *)
(*                                                                         *)
(* Outside the session, modelled from how it is used: the throttler        *)
(* (a FIFO that releases each command later, on the strand), Beast (a      *)
(* write begun on an open stream completes or fails; a connection reports  *)
(* one real error, every other completion on it is operation_aborted and   *)
(* is ignored), and the exchange (which applies the frames of a            *)
(* connection in order and forgets them when the connection ends).         *)
(***************************************************************************)
EXTENDS Integers, Sequences

CONSTANT Streams      \* the stream names, "<symbol>@trade" and "<symbol>@depth5"

ASSUME StreamsAssumption == Streams # {}

VARIABLES
    link,                   \* which completion the connection is waiting for
    connected,              \* m_connected
    connectedOnce,          \* m_connectedOnce
    ready,                  \* what m_readyCallback was last told
    inFlight,               \* m_inFlight
    pendingSubsInFlight,    \* m_PendingSubsInFlight
    pendingUnsubsInFlight,  \* m_PendingunsubsInFlight
    inFlightCommand,        \* m_inFlightComand
    live,                   \* m_liveSubscriptions
    pendingSubs,            \* m_pendingSubs
    pendingUnsubs,          \* m_pendingUnsubs
    throttler,              \* commands pushed and not yet released
    writing,                \* async_writes begun and not yet completed
    server,                 \* streams the frames written on this connection ask for
    raced                   \* history: see Raced below

flags   == <<inFlight, pendingSubsInFlight, pendingUnsubsInFlight>>
book    == <<live, pendingSubs, pendingUnsubs>>
channel == <<throttler, writing, server>>
vars    == <<link, connected, connectedOnce, ready, flags, inFlightCommand,
             book, channel, raced>>

Command   == [method : {"SUBSCRIBE", "UNSUBSCRIBE"}, params : SUBSET Streams]
NoCommand == [method |-> "NONE", params |-> {}]

SubscribeCmd(streams)   == [method |-> "SUBSCRIBE",   params |-> streams]
UnsubscribeCmd(streams) == [method |-> "UNSUBSCRIBE", params |-> streams]

Connecting == {"Resolve", "Connect", "SSLHandshake", "Handshake"}
Links      == Connecting \cup {"Open", "Backoff", "Stopped"}

(* The process is running: io_context::stop() has not ended the strand.    *)
Running == link # "Stopped"

-----------------------------------------------------------------------------
(* Sending.  send() pushes onto the throttler and sets m_inFlight; the     *)
(* parameters are the values the flags have at the call.                   *)

Send(cmd) == /\ throttler' = Append(throttler, cmd)
             /\ inFlight' = TRUE

SendPendingUnsubs(unsubs, busy, unsubBatch) ==
    IF unsubs # {}
    THEN /\ Send(UnsubscribeCmd(unsubs))
         /\ pendingUnsubsInFlight' = TRUE
    ELSE /\ inFlight' = busy
         /\ pendingUnsubsInFlight' = unsubBatch
         /\ UNCHANGED throttler

(* if(!sendPendingSubs()) sendPendingUnsubs()                              *)
SendPending(subs, unsubs, busy, subBatch, unsubBatch) ==
    IF subs # {}
    THEN /\ Send(SubscribeCmd(subs))
         /\ pendingSubsInFlight' = TRUE
         /\ pendingUnsubsInFlight' = unsubBatch
    ELSE /\ SendPendingUnsubs(unsubs, busy, unsubBatch)
         /\ pendingSubsInFlight' = subBatch

-----------------------------------------------------------------------------
(* Requests, as they reach the strand.  A request that changes nothing     *)
(* ("Spurious Sub", "Spurious Unsub") is a stuttering step.                *)

(* Faulty variant for mutation testing: only looks at the link.            *)
BusyUnlessDown == ~connected

(* A request is sent at once only by a connected session with nothing in   *)
(* flight.                                                                 *)
Busy == inFlight \/ ~connected

(* Faulty variant for mutation testing: nothing is cancelled.              *)
NeverCancel(s, candidates) == candidates

(* A request cancels against the opposite one that is still pending.       *)
CheckAndCancel(s, candidates) == candidates \ {s}

(* History variable.  A request races what the session sends when the      *)
(* session will forget it: it joins a pending set whose batch is already   *)
(* out (the completion clears the whole set), it cancels against an entry  *)
(* whose command is already out, or it cancels against an unsubscribe      *)
(* left over from an earlier connection, whose stream this connection      *)
(* does not carry.                                                         *)
RacesSub(s) ==
    IF s \in pendingUnsubs
    THEN \/ pendingUnsubsInFlight
         \/ connected /\ s \notin server /\ inFlightCommand # SubscribeCmd({s})
    ELSE pendingSubsInFlight

RacesUnsub(s) ==
    IF s \in pendingSubs
    THEN \/ pendingSubsInFlight
         \/ inFlightCommand = SubscribeCmd({s})
    ELSE pendingUnsubsInFlight

SubscribeOnStrand(s) ==
    /\ Running
    /\ s \notin live
    /\ live' = live \cup {s}
    /\ \/ /\ Busy
          /\ pendingUnsubs' = CheckAndCancel(s, pendingUnsubs)
          /\ pendingSubs' = IF s \in pendingUnsubs THEN pendingSubs
                                                   ELSE pendingSubs \cup {s}
          /\ raced' = IF RacesSub(s) THEN raced \cup {s} ELSE raced
          /\ UNCHANGED <<inFlight, inFlightCommand, throttler>>
       \/ /\ ~Busy
          /\ inFlightCommand' = SubscribeCmd({s})
          /\ Send(SubscribeCmd({s}))
          /\ raced' = raced \ {s}
          /\ UNCHANGED <<pendingSubs, pendingUnsubs>>
    /\ UNCHANGED <<link, connected, connectedOnce, ready, pendingSubsInFlight,
                   pendingUnsubsInFlight, writing, server>>

UnsubscribeOnStrand(s) ==
    /\ Running
    /\ s \in live
    /\ live' = live \ {s}
    /\ \/ /\ Busy
          /\ pendingSubs' = CheckAndCancel(s, pendingSubs)
          /\ pendingUnsubs' = IF s \in pendingSubs THEN pendingUnsubs
                                                   ELSE pendingUnsubs \cup {s}
          /\ raced' = IF RacesUnsub(s) THEN raced \cup {s} ELSE raced
          /\ UNCHANGED <<inFlight, inFlightCommand, throttler>>
       \/ /\ ~Busy
          /\ inFlightCommand' = UnsubscribeCmd({s})
          /\ Send(UnsubscribeCmd({s}))
          /\ raced' = raced \ {s}
          /\ UNCHANGED <<pendingSubs, pendingUnsubs>>
    /\ UNCHANGED <<link, connected, connectedOnce, ready, pendingSubsInFlight,
                   pendingUnsubsInFlight, writing, server>>

-----------------------------------------------------------------------------
(* The connection.                                                         *)

ConnectStep(from, to) ==
    /\ link = from
    /\ link' = to
    /\ UNCHANGED <<connected, connectedOnce, ready, flags, inFlightCommand,
                   book, channel, raced>>

OnResolve      == ConnectStep("Resolve", "Connect")
OnConnect      == ConnectStep("Connect", "SSLHandshake")
OnSslHandshake == ConnectStep("SSLHandshake", "Handshake")

(* Faulty variant for mutation testing: live streams are forgotten.        *)
NoReplay == pendingSubs

(* The replay: every live stream is cancelled against a pending            *)
(* unsubscribe or queued, then the interrupted command or the first batch  *)
(* goes out.                                                               *)
Replayed == pendingSubs \cup (live \ pendingUnsubs)

(* Faulty variant for mutation testing: an empty command goes out.         *)
ResumeAnyCommand(subs, unsubs) ==
    Send(inFlightCommand) /\ UNCHANGED <<pendingSubsInFlight, pendingUnsubsInFlight>>

(* Faulty variant for mutation testing: batches are not resumed.           *)
ResumeCommandOnly(subs, unsubs) ==
    /\ UNCHANGED <<pendingSubsInFlight, pendingUnsubsInFlight>>
    /\ \/ inFlightCommand # NoCommand /\ Send(inFlightCommand)
       \/ inFlightCommand = NoCommand /\ UNCHANGED <<inFlight, throttler>>

ResumeSending(subs, unsubs) ==
    IF inFlightCommand # NoCommand
    THEN /\ Send(inFlightCommand)
         /\ UNCHANGED <<pendingSubsInFlight, pendingUnsubsInFlight>>
    ELSE SendPending(subs, unsubs, inFlight, pendingSubsInFlight, pendingUnsubsInFlight)

OnHandshake ==
    /\ link = "Handshake"
    /\ link' = "Open"
    /\ connected' = TRUE
    /\ connectedOnce' = TRUE
    /\ ready' = "Up"
    /\ pendingUnsubs' = pendingUnsubs \ live
    /\ pendingSubs' = Replayed
    /\ ResumeSending(pendingSubs', pendingUnsubs')
    /\ raced' = raced \cap inFlightCommand.params
    /\ UNCHANGED <<inFlightCommand, live, writing, server>>

(* on_error of an error that is not operation_aborted.  classifyError      *)
(* answers Reconnect once a handshake has succeeded; before that the       *)
(* ready callback stops the io_context and the process ends, whatever the  *)
(* session does after it.                                                  *)
OnError ==
    /\ ready' = "Down"
    /\ inFlight' = FALSE
    /\ pendingSubsInFlight' = FALSE
    /\ pendingUnsubsInFlight' = FALSE
    /\ connected' = FALSE
    /\ link' = IF connectedOnce THEN "Backoff" ELSE "Stopped"
    /\ server' = {}
    /\ UNCHANGED <<connectedOnce, inFlightCommand, book, throttler, raced>>

ConnectError == /\ link \in Connecting
                /\ OnError
                /\ UNCHANGED writing

ReadError == /\ link = "Open"
             /\ OnError
             /\ UNCHANGED writing

(* Faulty variant for mutation testing: no retry when down.                *)
RetryTimerIfConnected ==
    /\ link = "Backoff" /\ connected
    /\ throttler = <<>> /\ writing = <<>>
    /\ link' = "Resolve"
    /\ UNCHANGED <<connected, connectedOnce, ready, flags, inFlightCommand,
                   book, channel, raced>>

(* The retry timer calls run().  It waits 10 s (Binance.cpp:526) and the   *)
(* throttler's window is 1 s (Binance.cpp:683), so whatever the old        *)
(* connection left in the throttler has been released, and aborted, by     *)
(* then.                                                                   *)
OnRetryTimer ==
    /\ link = "Backoff"
    /\ throttler = <<>> /\ writing = <<>>
    /\ link' = "Resolve"
    /\ UNCHANGED <<connected, connectedOnce, ready, flags, inFlightCommand,
                   book, channel, raced>>

-----------------------------------------------------------------------------
(* Writing.                                                                *)

StartWrite ==
    /\ Running
    /\ throttler # <<>>
    /\ writing' = Append(writing, Head(throttler))
    /\ throttler' = Tail(throttler)
    /\ UNCHANGED <<link, connected, connectedOnce, ready, flags,
                   inFlightCommand, book, server, raced>>

(* What the exchange holds after one more frame.                           *)
Applied(cmd) == IF cmd.method = "SUBSCRIBE" THEN server \cup cmd.params
                                            ELSE server \ cmd.params

CommandWritten ==
    /\ inFlightCommand # NoCommand
    /\ inFlightCommand' = NoCommand
    /\ SendPending(pendingSubs, pendingUnsubs, FALSE,
                   pendingSubsInFlight, pendingUnsubsInFlight)
    /\ UNCHANGED <<pendingSubs, pendingUnsubs>>

(* Faulty variant for mutation testing: unsubscribes wait.                 *)
SubsBatchOnly ==
    /\ inFlightCommand = NoCommand
    /\ pendingSubsInFlight
    /\ pendingSubsInFlight' = FALSE
    /\ inFlight' = FALSE
    /\ pendingSubs' = {}
    /\ UNCHANGED <<pendingUnsubs, inFlightCommand, throttler, pendingUnsubsInFlight>>

SubsBatchWritten ==
    /\ inFlightCommand = NoCommand
    /\ pendingSubsInFlight
    /\ pendingSubsInFlight' = FALSE
    /\ pendingSubs' = {}
    /\ SendPendingUnsubs(pendingUnsubs, FALSE, pendingUnsubsInFlight)
    /\ UNCHANGED <<pendingUnsubs, inFlightCommand>>

(* Faulty variant for mutation testing: the batch stays pending.           *)
UnsubsBatchKept ==
    /\ inFlightCommand = NoCommand
    /\ ~pendingSubsInFlight
    /\ pendingUnsubsInFlight
    /\ SendPending(pendingSubs, pendingUnsubs, FALSE, pendingSubsInFlight, FALSE)
    /\ UNCHANGED <<pendingSubs, pendingUnsubs, inFlightCommand>>

UnsubsBatchWritten ==
    /\ inFlightCommand = NoCommand
    /\ ~pendingSubsInFlight
    /\ pendingUnsubsInFlight
    /\ pendingUnsubs' = {}
    /\ SendPending(pendingSubs, {}, FALSE, pendingSubsInFlight, FALSE)
    /\ UNCHANGED <<pendingSubs, inFlightCommand>>

(* on_write without an error, on the connection the write began on.        *)
OnWrite ==
    /\ link = "Open"
    /\ writing # <<>>
    /\ writing' = Tail(writing)
    /\ server' = Applied(Head(writing))
    /\ CommandWritten \/ SubsBatchWritten \/ UnsubsBatchWritten
    /\ UNCHANGED <<link, connected, connectedOnce, ready, live, raced>>

OnWriteError ==
    /\ link = "Open"
    /\ writing # <<>>
    /\ writing' = Tail(writing)
    /\ OnError

(* The completion of a write whose connection is gone: the flags are       *)
(* reset, the error is ignored.                                            *)
OnWriteAborted ==
    /\ Running
    /\ link # "Open"
    /\ writing # <<>>
    /\ writing' = Tail(writing)
    /\ inFlight' = FALSE
    /\ pendingSubsInFlight' = FALSE
    /\ pendingUnsubsInFlight' = FALSE
    /\ UNCHANGED <<link, connected, connectedOnce, ready, inFlightCommand,
                   book, throttler, server, raced>>

-----------------------------------------------------------------------------
Init ==
    /\ link = "Resolve"
    /\ connected = FALSE
    /\ connectedOnce = FALSE
    /\ ready = "None"
    /\ inFlight = FALSE
    /\ pendingSubsInFlight = FALSE
    /\ pendingUnsubsInFlight = FALSE
    /\ inFlightCommand = NoCommand
    /\ live = {}
    /\ pendingSubs = {}
    /\ pendingUnsubs = {}
    /\ throttler = <<>>
    /\ writing = <<>>
    /\ server = {}
    /\ raced = {}

Next ==
    \/ \E s \in Streams : SubscribeOnStrand(s)
    \/ \E s \in Streams : UnsubscribeOnStrand(s)
    \/ OnResolve
    \/ OnConnect
    \/ OnSslHandshake
    \/ OnHandshake
    \/ ConnectError
    \/ ReadError
    \/ OnRetryTimer
    \/ StartWrite
    \/ OnWrite
    \/ OnWriteError
    \/ OnWriteAborted

Spec == Init /\ [][Next]_vars

(* The throttler thread and the strand keep running, Beast completes every *)
(* operation (each one has a timeout), the timer fires; and a step of the  *)
(* connection that is tried again and again does not fail every time.      *)
Fairness ==
    /\ WF_vars(StartWrite)
    /\ WF_vars(OnWrite \/ OnWriteError \/ OnWriteAborted)
    /\ WF_vars(OnRetryTimer)
    /\ SF_vars(OnResolve)
    /\ SF_vars(OnConnect)
    /\ SF_vars(OnSslHandshake)
    /\ SF_vars(OnHandshake)

FairSpec == Spec /\ Fairness

-----------------------------------------------------------------------------
(* Types: links, flags, commands and sets of streams.                      *)
TypeOK ==
    /\ link \in Links
    /\ connected \in BOOLEAN
    /\ connectedOnce \in BOOLEAN
    /\ ready \in {"None", "Up", "Down"}
    /\ inFlight \in BOOLEAN
    /\ pendingSubsInFlight \in BOOLEAN
    /\ pendingUnsubsInFlight \in BOOLEAN
    /\ inFlightCommand \in Command \cup {NoCommand}
    /\ live \in SUBSET Streams
    /\ pendingSubs \in SUBSET Streams
    /\ pendingUnsubs \in SUBSET Streams
    /\ throttler \in Seq(Command)
    /\ writing \in Seq(Command)
    /\ server \in SUBSET Streams
    /\ raced \in SUBSET Streams

(* At most one async_write is outstanding, queued or begun: Beast forbids  *)
(* a second one on the stream, and m_inFlight, reset by every error and    *)
(* every completion, is all that prevents it.                              *)
OneWriteAtATime == Len(throttler) + Len(writing) <= 1

(* A stream waits for a subscription only while it is wanted, and for an   *)
(* unsubscription only while it is not, however requests, cancellations    *)
(* and replays interleave (so the cancellation in on_handshake never       *)
(* finds anything to cancel).                                              *)
PendingMatchesLive == pendingSubs \subseteq live /\ pendingUnsubs \cap live = {}

(* A connected session with no command in flight owes the exchange         *)
(* nothing: whichever branch on_write or on_handshake takes, work that     *)
(* has queued up is sent on and never left behind.                         *)
NoStrandedWork ==
    connected /\ ~inFlight =>
        pendingSubs = {} /\ pendingUnsubs = {} /\ inFlightCommand = NoCommand

(* What the exchange is asked for is what the platform wants, for every    *)
(* stream no request of which raced a command in flight: nothing is lost   *)
(* or left over by reconnects, replays, batches and cancellations alone.   *)
AgreementOutsideRaces ==
    connected /\ ~inFlight =>
        \A s \in Streams \ raced : s \in server <=> s \in live

(* The session implements the service its callers see: whatever is         *)
(* cancelled, batched, interrupted and replayed, no frame asks for a       *)
(* stream that is not wanted or gives up one that is, when it is sent, and *)
(* a request for a wanted stream is lost by nothing but a race.            *)
OnItsWay == throttler \o writing
Asked    == IF connected /\ OnItsWay # <<>> THEN Applied(Head(OnItsWay)) ELSE server
Lost     == IF connected THEN (live \cap raced) \ Asked ELSE {}

Service == INSTANCE StreamService WITH up <- connected, asked <- Asked, lost <- Lost
ImplementsStreams == Service!Spec

(* Every subscription reaches the exchange: in an idle connected session   *)
(* each live stream has been asked for (the feature file's "Trade stream   *)
(* delivers updates to Kafka after subscribe").                            *)
NoLostSubscription == connected /\ ~inFlight => live \subseteq server

(* A lost connection comes back.                                           *)
Reconnects == link = "Backoff" ~> link = "Open"

(* Every wanted stream, those of the replay included, is asked for on a    *)
(* connection that lasts, unless it is given up or its request was lost to *)
(* a race.  This is what Prices assumes of its session.                    *)
ReplayCompletes ==
    \A s \in Streams :
        connected /\ s \in live \ Lost
            ~> s \in server \/ s \notin live \/ ~connected

(* A queued unsubscription is not starved by a stream of other requests    *)
(* as long as the connection holds.                                        *)
UnsubsNotStarved ==
    \A s \in Streams : s \in pendingUnsubs ~> s \notin pendingUnsubs \/ ~connected
=============================================================================
