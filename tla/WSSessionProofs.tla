-------------------------- MODULE WSSessionProofs --------------------------
(***************************************************************************)
(* Proofs about WSSession for every set of streams: the type invariant,    *)
(* and the safety invariants of the runs from one inductive invariant.     *)
(*                                                                         *)
(* IInv says where the one outstanding command is (Wire), how the flags    *)
(* describe it (Flight), how the pending sets relate to the live streams   *)
(* (PendingMatchesLive), and what is still owed to the exchange for the    *)
(* streams no request of which raced a command (Owed, Replayable).         *)
(***************************************************************************)
EXTENDS WSSession, TLAPS

(* Nothing is outstanding; exactly the command c is.                       *)
Quiet     == throttler = <<>> /\ writing = <<>>
OnWire(c) == \/ throttler = <<c>> /\ writing = <<>>
             \/ throttler = <<>> /\ writing = <<c>>

(* The connection and the flags agree on whether anything is in flight.    *)
Wire ==
    /\ connected <=> link = "Open"
    /\ Quiet \/ \E c \in Command : OnWire(c)
    /\ connected /\ ~inFlight => Quiet
    /\ link \in Connecting => Quiet
    /\ ~connected => ~inFlight /\ server = {}
    /\ pendingSubsInFlight \/ pendingUnsubsInFlight => inFlight

(* The command of inFlightCommand is about one stream.                     *)
OneStream ==
    inFlightCommand # NoCommand =>
        \E s \in Streams : inFlightCommand \in {SubscribeCmd({s}), UnsubscribeCmd({s})}

(* The three things a connected session can have in flight, and what is    *)
(* owed to the exchange in each.                                           *)
CommandInFlight ==
    /\ inFlightCommand # NoCommand
    /\ ~pendingSubsInFlight /\ ~pendingUnsubsInFlight
    /\ OnWire(inFlightCommand)
    /\ \A s \in Streams \ raced :
           /\ s \notin pendingSubs /\ s \notin pendingUnsubs
                  => (s \in live <=> s \in Applied(inFlightCommand))
           /\ s \in pendingSubs /\ s \in server
                  => inFlightCommand = UnsubscribeCmd({s})

SubsInFlight ==
    /\ inFlightCommand = NoCommand
    /\ pendingSubsInFlight /\ ~pendingUnsubsInFlight
    /\ \E B \in SUBSET Streams :
           /\ OnWire(SubscribeCmd(B))
           /\ \A s \in Streams \ raced :
                  /\ s \in pendingSubs <=> s \in B
                  /\ s \notin B /\ s \notin pendingUnsubs => (s \in live <=> s \in server)

UnsubsInFlight ==
    /\ inFlightCommand = NoCommand
    /\ ~pendingSubsInFlight /\ pendingUnsubsInFlight
    /\ \E B \in SUBSET Streams :
           /\ OnWire(UnsubscribeCmd(B))
           /\ \A s \in Streams \ raced :
                  /\ s \in pendingSubs => s \notin server
                  /\ s \in pendingUnsubs <=> s \in B
                  /\ s \notin pendingSubs /\ s \notin B => (s \in live <=> s \in server)

Flight ==
    connected /\ inFlight => CommandInFlight \/ SubsInFlight \/ UnsubsInFlight

(* The interrupted command, when it is sent again, changes nothing that    *)
(* the replay and the pending sets do not put right, and no request for    *)
(* the stream it gives up was lost meanwhile.                              *)
Replayable ==
    \A s \in Streams :
        /\ inFlightCommand = SubscribeCmd({s}) /\ s \notin live /\ s \notin raced
               => s \in pendingUnsubs
        /\ inFlightCommand = UnsubscribeCmd({s})
               => /\ s \notin pendingUnsubs /\ s \notin raced
                  /\ s \in live => s \in pendingSubs

IInv ==
    /\ TypeOK
    /\ Wire
    /\ OneStream
    /\ PendingMatchesLive
    /\ NoStrandedWork
    /\ Flight
    /\ Replayable
    /\ AgreementOutsideRaces

-----------------------------------------------------------------------------
(* Sequences with at most one element.                                     *)
LEMMA OneElement ==
    ASSUME NEW c
    PROVE  /\ <<c>> # <<>>
           /\ Append(<<>>, c) = <<c>>
           /\ Head(<<c>>) = c
           /\ Tail(<<c>>) = <<>>
           /\ Len(<<c>>) = 1
           /\ Len(<<>>) = 0
  OBVIOUS

LEMMA CommandTypes ==
    ASSUME NEW S \in SUBSET Streams
    PROVE  /\ SubscribeCmd(S) \in Command /\ UnsubscribeCmd(S) \in Command
           /\ SubscribeCmd(S).params = S /\ UnsubscribeCmd(S).params = S
           /\ SubscribeCmd(S).method = "SUBSCRIBE"
           /\ UnsubscribeCmd(S).method = "UNSUBSCRIBE"
           /\ SubscribeCmd(S) # NoCommand /\ UnsubscribeCmd(S) # NoCommand
  BY DEF SubscribeCmd, UnsubscribeCmd, Command, NoCommand

LEMMA NoCommandType == NoCommand \notin Command /\ NoCommand.params = {}
  BY DEF Command, NoCommand

(* send() and the batches keep the types of what they assign.              *)
LEMMA SendPendingUnsubsTypes ==
    ASSUME throttler \in Seq(Command), NEW U \in SUBSET Streams, NEW b \in BOOLEAN,
           NEW ub \in BOOLEAN, SendPendingUnsubs(U, b, ub)
    PROVE  /\ throttler' \in Seq(Command) /\ inFlight' \in BOOLEAN
           /\ pendingUnsubsInFlight' \in BOOLEAN
<1>1. CASE U = {}
  BY <1>1 DEF SendPendingUnsubs
<1>2. CASE U # {}
  BY <1>2, CommandTypes DEF SendPendingUnsubs, Send
<1> QED BY <1>1, <1>2

LEMMA SendPendingTypes ==
    ASSUME throttler \in Seq(Command), NEW S \in SUBSET Streams,
           NEW U \in SUBSET Streams,
           NEW b \in BOOLEAN, NEW sb \in BOOLEAN, NEW ub \in BOOLEAN,
           SendPending(S, U, b, sb, ub)
    PROVE  /\ throttler' \in Seq(Command) /\ inFlight' \in BOOLEAN
           /\ pendingSubsInFlight' \in BOOLEAN
           /\ pendingUnsubsInFlight' \in BOOLEAN
<1>1. CASE S = {}
  <2>1. SendPendingUnsubs(U, b, ub) /\ pendingSubsInFlight' = sb
    BY <1>1 DEF SendPending
  <2> QED BY <2>1, SendPendingUnsubsTypes
<1>2. CASE S # {}
  BY <1>2, CommandTypes DEF SendPending, Send
<1> QED BY <1>1, <1>2

-----------------------------------------------------------------------------
(* Every handler keeps the types.                                          *)
LEMMA TypeStep == TypeOK /\ [Next]_vars => TypeOK'
<1> SUFFICES ASSUME TypeOK, [Next]_vars PROVE TypeOK'
    OBVIOUS
<1> USE DEF Links, Connecting
<1>1. ASSUME NEW s \in Streams, SubscribeOnStrand(s) PROVE TypeOK'
  <2>1. SubscribeCmd({s}) \in Command
    BY CommandTypes
  <2>2. /\ throttler' \in Seq(Command) /\ inFlight' \in BOOLEAN
        /\ inFlightCommand' \in Command \cup {NoCommand}
    <3>1. CASE Busy
      BY <1>1, <3>1 DEF SubscribeOnStrand, TypeOK
    <3>2. CASE ~Busy
      <4>1. inFlightCommand' = SubscribeCmd({s}) /\ Send(SubscribeCmd({s}))
        BY <1>1, <3>2 DEF SubscribeOnStrand
      <4> QED BY <2>1, <4>1 DEF Send, TypeOK
    <3> QED BY <3>1, <3>2
  <2>3. /\ live' \in SUBSET Streams /\ pendingSubs' \in SUBSET Streams
        /\ pendingUnsubs' \in SUBSET Streams /\ raced' \in SUBSET Streams
    BY <1>1 DEF SubscribeOnStrand, CheckAndCancel, TypeOK
  <2> QED BY <1>1, <2>2, <2>3 DEF SubscribeOnStrand, TypeOK
<1>2. ASSUME NEW s \in Streams, UnsubscribeOnStrand(s) PROVE TypeOK'
  <2>1. UnsubscribeCmd({s}) \in Command
    BY CommandTypes
  <2>2. /\ throttler' \in Seq(Command) /\ inFlight' \in BOOLEAN
        /\ inFlightCommand' \in Command \cup {NoCommand}
    <3>1. CASE Busy
      BY <1>2, <3>1 DEF UnsubscribeOnStrand, TypeOK
    <3>2. CASE ~Busy
      <4>1. inFlightCommand' = UnsubscribeCmd({s}) /\ Send(UnsubscribeCmd({s}))
        BY <1>2, <3>2 DEF UnsubscribeOnStrand
      <4> QED BY <2>1, <4>1 DEF Send, TypeOK
    <3> QED BY <3>1, <3>2
  <2>3. /\ live' \in SUBSET Streams /\ pendingSubs' \in SUBSET Streams
        /\ pendingUnsubs' \in SUBSET Streams /\ raced' \in SUBSET Streams
    BY <1>2 DEF UnsubscribeOnStrand, CheckAndCancel, TypeOK
  <2> QED BY <1>2, <2>2, <2>3 DEF UnsubscribeOnStrand, TypeOK
<1>3. CASE OnResolve \/ OnConnect \/ OnSslHandshake
  BY <1>3 DEF OnResolve, OnConnect, OnSslHandshake, ConnectStep, TypeOK,
              flags, book, channel
<1>4. CASE OnHandshake
  <2>1. pendingSubs' \in SUBSET Streams /\ pendingUnsubs' \in SUBSET Streams
    BY <1>4 DEF OnHandshake, Replayed, TypeOK
  <2>2. /\ throttler' \in Seq(Command) /\ inFlight' \in BOOLEAN
        /\ pendingSubsInFlight' \in BOOLEAN /\ pendingUnsubsInFlight' \in BOOLEAN
    <3>1. CASE inFlightCommand # NoCommand
      BY <1>4, <3>1 DEF Send, OnHandshake, ResumeSending, TypeOK
    <3>2. CASE inFlightCommand = NoCommand
      BY <1>4, <2>1, <3>2, SendPendingTypes DEF OnHandshake, ResumeSending, TypeOK
    <3> QED BY <3>1, <3>2
  <2> QED BY <1>4, <2>1, <2>2 DEF OnHandshake, TypeOK
<1>5. CASE ConnectError \/ ReadError
  BY <1>5 DEF ConnectError, ReadError, OnError, TypeOK, book
<1>6. CASE OnRetryTimer
  BY <1>6 DEF OnRetryTimer, TypeOK, flags, book, channel
<1>7. CASE StartWrite
  BY <1>7 DEF StartWrite, TypeOK, flags, book
<1>8. CASE OnWrite
  <2>1. writing' \in Seq(Command) /\ Head(writing) \in Command
    BY <1>8 DEF OnWrite, TypeOK
  <2>5. server' \in SUBSET Streams
    BY <1>8, <2>1 DEF OnWrite, Applied, TypeOK, Command
  <2>2. CASE CommandWritten
    BY <1>8, <2>1, <2>5, <2>2, SendPendingTypes DEF CommandWritten, OnWrite, TypeOK
  <2>3. CASE SubsBatchWritten
    BY <1>8, <2>1, <2>5, <2>3, SendPendingUnsubsTypes DEF SubsBatchWritten, OnWrite, TypeOK
  <2>4. CASE UnsubsBatchWritten
    BY <1>8, <2>1, <2>5, <2>4, SendPendingTypes DEF UnsubsBatchWritten, OnWrite, TypeOK
  <2> QED BY <1>8, <2>2, <2>3, <2>4 DEF OnWrite
<1>9. CASE OnWriteError
  <2>1. writing' \in Seq(Command)
    BY <1>9 DEF OnWriteError, TypeOK
  <2>2. link' \in Links
    BY <1>9 DEF OnWriteError, OnError
  <2> QED BY <1>9, <2>1, <2>2 DEF OnWriteError, OnError, TypeOK, book
<1>10. CASE OnWriteAborted
  <2>1. writing' \in Seq(Command)
    BY <1>10 DEF OnWriteAborted, TypeOK
  <2> QED BY <1>10, <2>1 DEF OnWriteAborted, TypeOK, book
<1>11. CASE UNCHANGED vars
  BY <1>11 DEF vars, flags, book, channel, TypeOK
<1> QED BY <1>1, <1>2, <1>3, <1>4, <1>5, <1>6, <1>7, <1>8, <1>9, <1>10, <1>11
        DEF Next

(* The session starts well typed and every handler keeps it so.            *)
THEOREM TypeCorrect == Spec => []TypeOK
<1>1. Init => TypeOK
  <2> SUFFICES ASSUME Init PROVE TypeOK
    OBVIOUS
  <2>1. throttler \in Seq(Command) /\ writing \in Seq(Command)
    BY DEF Init
  <2> QED BY <2>1 DEF Init, TypeOK, Links, Connecting
<1> QED BY <1>1, TypeStep, PTL DEF Spec
-----------------------------------------------------------------------------
(* The command of inFlightCommand is not sent together with a batch.       *)
LEMMA CommandAlone ==
    ASSUME IInv, inFlightCommand # NoCommand
    PROVE  ~pendingSubsInFlight /\ ~pendingUnsubsInFlight
  BY DEF IInv, Wire, Flight, CommandInFlight, SubsInFlight, UnsubsInFlight

(* A request that is queued: the command in flight stays what it was.      *)
LEMMA QueuedSubscribe ==
    ASSUME IInv, TypeOK', NEW s \in Streams, SubscribeOnStrand(s),
           inFlight \/ ~connected
    PROVE  IInv'
<1> USE DEF IInv
<1>1. /\ s \notin live /\ live' = live \cup {s}
      /\ pendingUnsubs' = pendingUnsubs \ {s}
      /\ pendingSubs' = IF s \in pendingUnsubs THEN pendingSubs
                                               ELSE pendingSubs \cup {s}
      /\ raced' = IF RacesSub(s) THEN raced \cup {s} ELSE raced
      /\ UNCHANGED <<link, connected, flags, inFlightCommand, channel>>
  BY DEF SubscribeOnStrand, Busy, CheckAndCancel, flags, channel, TypeOK
<1>2. Wire' /\ OneStream'
  BY <1>1 DEF Wire, OneStream, Quiet, OnWire, flags, channel
<1>3. PendingMatchesLive'
  BY <1>1 DEF PendingMatchesLive
<1>4. NoStrandedWork' /\ AgreementOutsideRaces'
  BY <1>1 DEF NoStrandedWork, AgreementOutsideRaces, flags, TypeOK
<1>5. Replayable'
  <2>1. ASSUME inFlightCommand = UnsubscribeCmd({s}) PROVE ~RacesSub(s)
    BY <2>1, CommandAlone, CommandTypes DEF Replayable, RacesSub
  <2> QED BY <1>1, <2>1 DEF Replayable, RacesSub, PendingMatchesLive
<1>6. Flight'
  <2> SUFFICES ASSUME connected, inFlight
               PROVE  (CommandInFlight \/ SubsInFlight \/ UnsubsInFlight)'
    BY <1>1 DEF Flight, flags
  <2>1. CASE CommandInFlight
    <3>1. ASSUME NEW t \in Streams \ raced', t \notin pendingSubs',
                 t \notin pendingUnsubs'
          PROVE  t \in live' <=> t \in Applied(inFlightCommand)'
      <4>1. Applied(inFlightCommand)' = Applied(inFlightCommand)
        BY <1>1 DEF Applied, channel
      <4>2. CASE t # s
        BY <1>1, <2>1, <3>1, <4>1, <4>2 DEF CommandInFlight, TypeOK
      <4>3. CASE t = s
        <5>1. s \in pendingUnsubs /\ ~RacesSub(s)
          BY <1>1, <3>1, <4>3
        <5>2. s \in server \/ inFlightCommand = SubscribeCmd({s})
          BY <5>1 DEF RacesSub
        <5>3. inFlightCommand # UnsubscribeCmd({s})
          BY <5>1 DEF Replayable
        <5>4. PICK u \in Streams : inFlightCommand \in {SubscribeCmd({u}), UnsubscribeCmd({u})}
          BY <2>1 DEF OneStream, CommandInFlight
        <5>5. s \in Applied(inFlightCommand)
          BY <5>2, <5>3, <5>4, CommandTypes DEF Applied
        <5> QED BY <1>1, <4>1, <4>3, <5>5
      <4> QED BY <4>2, <4>3
    <3>2. ASSUME NEW t \in Streams \ raced', t \in pendingSubs', t \in server'
          PROVE  inFlightCommand' = UnsubscribeCmd({t})
      <4>1. CASE t \in pendingSubs
        BY <1>1, <2>1, <3>2, <4>1 DEF CommandInFlight, channel
      <4>2. CASE t \notin pendingSubs
        <5>1. t = s /\ s \notin pendingUnsubs /\ s \notin raced /\ s \in server
          BY <1>1, <3>2, <4>2 DEF channel
        <5>2. s \notin Applied(inFlightCommand)
          BY <1>1, <2>1, <4>2, <5>1 DEF CommandInFlight
        <5>3. PICK u \in Streams : inFlightCommand \in {SubscribeCmd({u}), UnsubscribeCmd({u})}
          BY <2>1 DEF OneStream, CommandInFlight
        <5> QED BY <1>1, <5>1, <5>2, <5>3, CommandTypes DEF Applied
      <4> QED BY <4>1, <4>2
    <3> QED BY <1>1, <2>1, <3>1, <3>2 DEF CommandInFlight, OnWire, flags, channel
  <2>2. CASE SubsInFlight
    <3>1. PICK B \in SUBSET Streams :
              /\ OnWire(SubscribeCmd(B))
              /\ \A t \in Streams \ raced :
                     /\ t \in pendingSubs <=> t \in B
                     /\ t \notin B /\ t \notin pendingUnsubs => (t \in live <=> t \in server)
      BY <2>2 DEF SubsInFlight
    <3>2. OnWire(SubscribeCmd(B))'
      BY <1>1, <3>1 DEF OnWire, channel
    <3>3. ASSUME NEW t \in Streams \ raced'
          PROVE  /\ t \in pendingSubs' <=> t \in B
                 /\ t \notin B /\ t \notin pendingUnsubs' => (t \in live' <=> t \in server')
      BY <1>1, <2>2, <3>1 DEF SubsInFlight, RacesSub, PendingMatchesLive, channel, TypeOK, SubscribeCmd, NoCommand
    <3> QED BY <1>1, <2>2, <3>2, <3>3 DEF SubsInFlight, flags
  <2>3. CASE UnsubsInFlight
    <3>1. PICK B \in SUBSET Streams :
              /\ OnWire(UnsubscribeCmd(B))
              /\ \A t \in Streams \ raced :
                     /\ t \in pendingSubs => t \notin server
                     /\ t \in pendingUnsubs <=> t \in B
                     /\ t \notin pendingSubs /\ t \notin B => (t \in live <=> t \in server)
      BY <2>3 DEF UnsubsInFlight
    <3>2. OnWire(UnsubscribeCmd(B))'
      BY <1>1, <3>1 DEF OnWire, channel
    <3>3. ASSUME NEW t \in Streams \ raced'
          PROVE  /\ t \in pendingSubs' => t \notin server'
                 /\ t \in pendingUnsubs' <=> t \in B
                 /\ t \notin pendingSubs' /\ t \notin B => (t \in live' <=> t \in server')
      BY <1>1, <2>3, <3>1 DEF UnsubsInFlight, RacesSub, PendingMatchesLive, channel, TypeOK
    <3> QED BY <1>1, <2>3, <3>2, <3>3 DEF UnsubsInFlight, flags
  <2> QED BY <2>1, <2>2, <2>3 DEF Flight
<1> QED BY <1>2, <1>3, <1>4, <1>5, <1>6
LEMMA QueuedUnsubscribe ==
    ASSUME IInv, TypeOK', NEW s \in Streams, UnsubscribeOnStrand(s),
           inFlight \/ ~connected
    PROVE  IInv'
<1> USE DEF IInv
<1>1. /\ s \in live /\ live' = live \ {s}
      /\ pendingSubs' = pendingSubs \ {s}
      /\ pendingUnsubs' = IF s \in pendingSubs THEN pendingUnsubs
                                               ELSE pendingUnsubs \cup {s}
      /\ raced' = IF RacesUnsub(s) THEN raced \cup {s} ELSE raced
      /\ UNCHANGED <<link, connected, flags, inFlightCommand, channel>>
  BY DEF UnsubscribeOnStrand, Busy, CheckAndCancel, flags, channel, TypeOK
<1>2. Wire' /\ OneStream'
  BY <1>1 DEF Wire, OneStream, Quiet, OnWire, flags, channel
<1>3. PendingMatchesLive'
  BY <1>1 DEF PendingMatchesLive
<1>4. NoStrandedWork' /\ AgreementOutsideRaces'
  BY <1>1 DEF NoStrandedWork, AgreementOutsideRaces, flags, TypeOK
<1>5. Replayable'
  <2>1. ASSUME inFlightCommand = UnsubscribeCmd({s}) PROVE ~RacesUnsub(s)
    BY <1>1, <2>1, CommandAlone, CommandTypes DEF Replayable, RacesUnsub, SubscribeCmd, UnsubscribeCmd
  <2> QED BY <1>1, <2>1 DEF Replayable, RacesUnsub, PendingMatchesLive, SubscribeCmd
<1>6. Flight'
  <2> SUFFICES ASSUME connected, inFlight
               PROVE  (CommandInFlight \/ SubsInFlight \/ UnsubsInFlight)'
    BY <1>1 DEF Flight, flags
  <2>1. CASE CommandInFlight
    <3>1. ASSUME NEW t \in Streams \ raced', t \notin pendingSubs',
                 t \notin pendingUnsubs'
          PROVE  t \in live' <=> t \in Applied(inFlightCommand)'
      <4>1. Applied(inFlightCommand)' = Applied(inFlightCommand)
        BY <1>1 DEF Applied, channel
      <4>2. CASE t # s
        BY <1>1, <2>1, <3>1, <4>1, <4>2 DEF CommandInFlight, TypeOK
      <4>3. CASE t = s
        <5>1. s \in pendingSubs /\ ~RacesUnsub(s)
          BY <1>1, <3>1, <4>3
        <5>2. inFlightCommand # SubscribeCmd({s})
          BY <5>1 DEF RacesUnsub
        <5>3. PICK u \in Streams : inFlightCommand \in {SubscribeCmd({u}), UnsubscribeCmd({u})}
          BY <2>1 DEF OneStream, CommandInFlight
        <5>4. s \notin raced
          BY <1>1, <3>1, <4>3
        <5>5. s \notin server \/ inFlightCommand = UnsubscribeCmd({s})
          BY <2>1, <5>1, <5>4 DEF CommandInFlight
        <5>6. s \notin Applied(inFlightCommand)
          BY <5>2, <5>3, <5>5, CommandTypes DEF Applied
        <5> QED BY <1>1, <4>1, <4>3, <5>6
      <4> QED BY <4>2, <4>3
    <3>2. ASSUME NEW t \in Streams \ raced', t \in pendingSubs', t \in server'
          PROVE  inFlightCommand' = UnsubscribeCmd({t})
      BY <1>1, <2>1, <3>2 DEF CommandInFlight, channel
    <3> QED BY <1>1, <2>1, <3>1, <3>2 DEF CommandInFlight, OnWire, flags, channel
  <2>2. CASE SubsInFlight
    <3>1. PICK B \in SUBSET Streams :
              /\ OnWire(SubscribeCmd(B))
              /\ \A t \in Streams \ raced :
                     /\ t \in pendingSubs <=> t \in B
                     /\ t \notin B /\ t \notin pendingUnsubs => (t \in live <=> t \in server)
      BY <2>2 DEF SubsInFlight
    <3>2. OnWire(SubscribeCmd(B))'
      BY <1>1, <3>1 DEF OnWire, channel
    <3>3. ASSUME NEW t \in Streams \ raced'
          PROVE  /\ t \in pendingSubs' <=> t \in B
                 /\ t \notin B /\ t \notin pendingUnsubs' => (t \in live' <=> t \in server')
      BY <1>1, <2>2, <3>1 DEF SubsInFlight, RacesUnsub, PendingMatchesLive, channel, TypeOK
    <3> QED BY <1>1, <2>2, <3>2, <3>3 DEF SubsInFlight, flags
  <2>3. CASE UnsubsInFlight
    <3>1. PICK B \in SUBSET Streams :
              /\ OnWire(UnsubscribeCmd(B))
              /\ \A t \in Streams \ raced :
                     /\ t \in pendingSubs => t \notin server
                     /\ t \in pendingUnsubs <=> t \in B
                     /\ t \notin pendingSubs /\ t \notin B => (t \in live <=> t \in server)
      BY <2>3 DEF UnsubsInFlight
    <3>2. OnWire(UnsubscribeCmd(B))'
      BY <1>1, <3>1 DEF OnWire, channel
    <3>3. ASSUME NEW t \in Streams \ raced'
          PROVE  /\ t \in pendingSubs' => t \notin server'
                 /\ t \in pendingUnsubs' <=> t \in B
                 /\ t \notin pendingSubs' /\ t \notin B => (t \in live' <=> t \in server')
      BY <1>1, <2>3, <3>1 DEF UnsubsInFlight, RacesUnsub, PendingMatchesLive, channel, TypeOK
    <3> QED BY <1>1, <2>3, <3>2, <3>3 DEF UnsubsInFlight, flags
  <2> QED BY <2>1, <2>2, <2>3 DEF Flight
<1> QED BY <1>2, <1>3, <1>4, <1>5, <1>6

(* A request that is sent at once: the session was idle.                   *)
LEMMA SentSubscribe ==
    ASSUME IInv, TypeOK', NEW s \in Streams, SubscribeOnStrand(s),
           ~inFlight, connected
    PROVE  IInv'
<1> USE DEF IInv
<1>1. /\ s \notin live /\ live' = live \cup {s}
      /\ inFlightCommand' = SubscribeCmd({s})
      /\ throttler' = Append(throttler, SubscribeCmd({s}))
      /\ inFlight' = TRUE
      /\ raced' = raced \ {s}
      /\ UNCHANGED <<link, connected, pendingSubs, pendingUnsubs,
                     pendingSubsInFlight, pendingUnsubsInFlight, writing, server>>
  BY DEF SubscribeOnStrand, Busy, Send
<1>2. /\ pendingSubs = {} /\ pendingUnsubs = {} /\ Quiet
      /\ ~pendingSubsInFlight /\ ~pendingUnsubsInFlight
  BY DEF NoStrandedWork, Wire
<1>3. OnWire(inFlightCommand)' /\ inFlightCommand' \in Command /\ inFlightCommand' # NoCommand
  BY <1>1, <1>2, OneElement, CommandTypes DEF OnWire, Quiet
<1>4. Wire' /\ OneStream'
  BY <1>1, <1>2, <1>3 DEF Wire, OneStream, Connecting, OnWire
<1>5. PendingMatchesLive' /\ NoStrandedWork' /\ AgreementOutsideRaces'
  BY <1>1, <1>2 DEF PendingMatchesLive, NoStrandedWork, AgreementOutsideRaces
<1>6. Replayable'
  BY <1>1, <1>2, CommandTypes DEF Replayable, SubscribeCmd, UnsubscribeCmd
<1>7. Flight'
  <2>1. Applied(inFlightCommand)' = server \cup {s}
    BY <1>1, CommandTypes DEF Applied
  <2>2. \A t \in Streams \ raced : t \in server <=> t \in live
    BY DEF AgreementOutsideRaces
  <2>3. CommandInFlight'
    BY <1>1, <1>2, <1>3, <2>1, <2>2 DEF CommandInFlight
  <2> QED BY <2>3 DEF Flight
<1> QED BY <1>4, <1>5, <1>6, <1>7

LEMMA SentUnsubscribe ==
    ASSUME IInv, TypeOK', NEW s \in Streams, UnsubscribeOnStrand(s),
           ~inFlight, connected
    PROVE  IInv'
<1> USE DEF IInv
<1>1. /\ s \in live /\ live' = live \ {s}
      /\ inFlightCommand' = UnsubscribeCmd({s})
      /\ throttler' = Append(throttler, UnsubscribeCmd({s}))
      /\ inFlight' = TRUE
      /\ raced' = raced \ {s}
      /\ UNCHANGED <<link, connected, pendingSubs, pendingUnsubs,
                     pendingSubsInFlight, pendingUnsubsInFlight, writing, server>>
  BY DEF UnsubscribeOnStrand, Busy, Send
<1>2. /\ pendingSubs = {} /\ pendingUnsubs = {} /\ Quiet
      /\ ~pendingSubsInFlight /\ ~pendingUnsubsInFlight
  BY DEF NoStrandedWork, Wire
<1>3. OnWire(inFlightCommand)' /\ inFlightCommand' \in Command /\ inFlightCommand' # NoCommand
  BY <1>1, <1>2, OneElement, CommandTypes DEF OnWire, Quiet
<1>4. Wire' /\ OneStream'
  BY <1>1, <1>2, <1>3 DEF Wire, OneStream, Connecting, OnWire
<1>5. PendingMatchesLive' /\ NoStrandedWork' /\ AgreementOutsideRaces'
  BY <1>1, <1>2 DEF PendingMatchesLive, NoStrandedWork, AgreementOutsideRaces
<1>6. Replayable'
  BY <1>1, <1>2, CommandTypes DEF Replayable, SubscribeCmd, UnsubscribeCmd
<1>7. Flight'
  <2>1. Applied(inFlightCommand)' = server \ {s}
    BY <1>1, CommandTypes DEF Applied
  <2>2. \A t \in Streams \ raced : t \in server <=> t \in live
    BY DEF AgreementOutsideRaces
  <2>3. CommandInFlight'
    BY <1>1, <1>2, <1>3, <2>1, <2>2 DEF CommandInFlight
  <2> QED BY <2>3 DEF Flight
<1> QED BY <1>4, <1>5, <1>6, <1>7
-----------------------------------------------------------------------------
(* Connection steps before the handshake, and the retry timer.             *)
LEMMA ConnectingSteps ==
    ASSUME IInv, TypeOK', OnResolve \/ OnConnect \/ OnSslHandshake \/ OnRetryTimer
    PROVE  IInv'
<1> USE DEF IInv
<1>1. /\ link # "Open" /\ link' \in Connecting /\ throttler = <<>> /\ writing = <<>>
      /\ UNCHANGED <<connected, flags, inFlightCommand, book, channel, raced>>
  BY DEF OnResolve, OnConnect, OnSslHandshake, OnRetryTimer, ConnectStep,
         Connecting, Wire, Quiet
<1>2. Wire' /\ OneStream'
  BY <1>1 DEF Wire, OneStream, Quiet, OnWire, flags, channel, Connecting
<1>3. Flight' /\ NoStrandedWork' /\ AgreementOutsideRaces'
  BY <1>1 DEF Wire, Flight, NoStrandedWork, AgreementOutsideRaces
<1>4. PendingMatchesLive' /\ Replayable'
  BY <1>1 DEF PendingMatchesLive, Replayable, book
<1> QED BY <1>2, <1>3, <1>4

(* An error closes the connection: only what is kept across connections    *)
(* remains to be shown.                                                    *)
LEMMA ErrorSteps ==
    ASSUME IInv, TypeOK', ConnectError \/ ReadError \/ OnWriteError
    PROVE  IInv'
<1> USE DEF IInv
<1>1. /\ ~connected' /\ ~inFlight' /\ ~pendingSubsInFlight' /\ ~pendingUnsubsInFlight'
      /\ server' = {} /\ link' \in {"Backoff", "Stopped"}
      /\ UNCHANGED <<inFlightCommand, book, throttler, raced>>
  BY DEF ConnectError, ReadError, OnWriteError, OnError
<1>2. writing' = writing \/ (writing # <<>> /\ writing' = Tail(writing))
  BY DEF ConnectError, ReadError, OnWriteError
<1>3. Quiet' \/ \E c \in Command : OnWire(c)'
  <2>1. CASE writing' = writing
    BY <1>1, <2>1 DEF Wire, Quiet, OnWire
  <2>2. CASE writing # <<>> /\ writing' = Tail(writing)
    BY <1>1, <2>2, OneElement DEF Wire, Quiet, OnWire
  <2> QED BY <1>2, <2>1, <2>2
<1>4. Wire' /\ OneStream'
  BY <1>1, <1>3 DEF Wire, OneStream, Connecting
<1>5. Flight' /\ NoStrandedWork' /\ AgreementOutsideRaces'
  BY <1>1 DEF Flight, NoStrandedWork, AgreementOutsideRaces
<1>6. PendingMatchesLive' /\ Replayable'
  BY <1>1 DEF PendingMatchesLive, Replayable, book
<1> QED BY <1>4, <1>5, <1>6

(* The completion of a write whose connection is gone.                     *)
LEMMA AbortedStep == ASSUME IInv, TypeOK', OnWriteAborted PROVE IInv'
<1> USE DEF IInv
<1>1. /\ ~connected' /\ ~inFlight' /\ ~pendingSubsInFlight' /\ ~pendingUnsubsInFlight'
      /\ server' = {} /\ link' = link /\ link # "Open"
      /\ writing # <<>> /\ writing' = Tail(writing)
      /\ UNCHANGED <<inFlightCommand, book, throttler, raced>>
  BY DEF OnWriteAborted, Wire
<1>2. Quiet'
  BY <1>1, OneElement DEF Wire, Quiet, OnWire
<1>3. Wire' /\ OneStream'
  BY <1>1, <1>2 DEF Wire, OneStream
<1>4. Flight' /\ NoStrandedWork' /\ AgreementOutsideRaces'
  BY <1>1 DEF Flight, NoStrandedWork, AgreementOutsideRaces
<1>5. PendingMatchesLive' /\ Replayable'
  BY <1>1 DEF PendingMatchesLive, Replayable, book
<1> QED BY <1>3, <1>4, <1>5

(* The throttler releases the outstanding command: it stays on the wire.   *)
LEMMA StartWriteStep == ASSUME IInv, TypeOK', StartWrite PROVE IInv'
<1> USE DEF IInv
<1>1. /\ throttler # <<>> /\ writing' = Append(writing, Head(throttler))
      /\ throttler' = Tail(throttler)
      /\ UNCHANGED <<link, connected, flags, inFlightCommand, book, server, raced>>
  BY DEF StartWrite
<1>2. PICK c \in Command : throttler = <<c>> /\ writing = <<>>
  BY <1>1 DEF Wire, Quiet, OnWire
<1>3. throttler' = <<>> /\ writing' = <<c>>
  BY <1>1, <1>2, OneElement
<1>4. \A d : OnWire(d) => OnWire(d)'
  BY <1>2, <1>3, OneElement DEF OnWire
<1>5. ~Quiet
  BY <1>1 DEF Quiet
<1>6. Wire' /\ OneStream'
  BY <1>1, <1>2, <1>3, <1>5 DEF Wire, OneStream, flags, OnWire
<1>7. Applied(inFlightCommand)' = Applied(inFlightCommand)
  BY <1>1 DEF Applied
<1>8. Flight'
  <2> SUFFICES ASSUME connected, inFlight
               PROVE  (CommandInFlight \/ SubsInFlight \/ UnsubsInFlight)'
    BY <1>1 DEF Flight, flags
  <2>1. CASE CommandInFlight
    <3>1. OnWire(inFlightCommand)'
      BY <1>1, <1>4, <2>1, <1>2, <1>3 DEF CommandInFlight, OnWire
    <3> QED BY <1>1, <1>7, <2>1, <3>1 DEF CommandInFlight, flags, book
  <2>2. CASE SubsInFlight
    BY <1>1, <1>4, <2>2 DEF SubsInFlight, flags, book
  <2>3. CASE UnsubsInFlight
    BY <1>1, <1>4, <2>3 DEF UnsubsInFlight, flags, book
  <2> QED BY <2>1, <2>2, <2>3 DEF Flight
<1>9. /\ NoStrandedWork' /\ AgreementOutsideRaces'
      /\ PendingMatchesLive' /\ Replayable'
  BY <1>1 DEF NoStrandedWork, AgreementOutsideRaces, PendingMatchesLive,
              Replayable, flags, book
<1> QED BY <1>6, <1>8, <1>9
-----------------------------------------------------------------------------
(* What sendPendingSubs() and sendPendingUnsubs() leave when nothing was   *)
(* outstanding: a batch of subscriptions, or one of unsubscriptions, or    *)
(* nothing, when there is nothing to send.                                 *)
SentSubs(S) ==
    /\ S # {} /\ throttler' = <<SubscribeCmd(S)>>
    /\ inFlight' /\ pendingSubsInFlight' /\ ~pendingUnsubsInFlight'

SentUnsubs(U) ==
    /\ U # {} /\ throttler' = <<UnsubscribeCmd(U)>>
    /\ inFlight' /\ ~pendingSubsInFlight' /\ pendingUnsubsInFlight'

SentNothing ==
    /\ throttler' = <<>>
    /\ ~inFlight' /\ ~pendingSubsInFlight' /\ ~pendingUnsubsInFlight'

LEMMA SendPendingUnsubsOutcome ==
    ASSUME throttler = <<>>, NEW U,
           SendPendingUnsubs(U, FALSE, FALSE), pendingSubsInFlight' = FALSE
    PROVE  SentUnsubs(U) \/ (U = {} /\ SentNothing)
  BY OneElement DEF SendPendingUnsubs, Send, SentUnsubs, SentNothing

LEMMA SendPendingOutcome ==
    ASSUME throttler = <<>>, NEW S, NEW U,
           SendPending(S, U, FALSE, FALSE, FALSE)
    PROVE  SentSubs(S) \/ (S = {} /\ SentUnsubs(U)) \/ (S = {} /\ U = {} /\ SentNothing)
<1>1. CASE S # {}
  BY <1>1, OneElement DEF SendPending, Send, SentSubs
<1>2. CASE S = {}
  <2>1. SendPendingUnsubs(U, FALSE, FALSE) /\ pendingSubsInFlight' = FALSE
    BY <1>2 DEF SendPending
  <2> QED BY <1>2, <2>1, SendPendingUnsubsOutcome
<1> QED BY <1>1, <1>2

(* Whatever is sent next, the invariant holds again when the exchange      *)
(* agrees with the session on every stream that is not pending.            *)
LEMMA BatchSent ==
    ASSUME TypeOK', writing' = <<>>, connected', link' = "Open",
           inFlightCommand' = NoCommand, PendingMatchesLive',
           \/ SentSubs(pendingSubs')
           \/ pendingSubs' = {} /\ SentUnsubs(pendingUnsubs')
           \/ pendingSubs' = {} /\ pendingUnsubs' = {} /\ SentNothing,
           \A s \in Streams \ raced' :
               s \notin pendingSubs' /\ s \notin pendingUnsubs'
                   => (s \in live' <=> s \in server')
    PROVE  IInv'
<1>1. OneStream' /\ Replayable'
  BY CommandTypes DEF OneStream, Replayable, SubscribeCmd, UnsubscribeCmd, NoCommand
<1>2. pendingSubs' \in SUBSET Streams /\ pendingUnsubs' \in SUBSET Streams
  BY DEF TypeOK
<1>3. CASE SentSubs(pendingSubs')
  <2>1. OnWire(SubscribeCmd(pendingSubs))'
    BY <1>3 DEF SentSubs, OnWire, SubscribeCmd
  <2>2. SubscribeCmd(pendingSubs)' \in Command
    BY <1>2 DEF SubscribeCmd, Command
  <2>3. Wire'
    BY <1>3, <2>1, <2>2 DEF Wire, SentSubs, Connecting
  <2>4. SubsInFlight'
    <3>1. throttler' = <<SubscribeCmd(pendingSubs')>> /\ writing' = <<>>
      BY <1>3 DEF SentSubs
    <3> QED BY <1>2, <1>3, <3>1 DEF SubsInFlight, SentSubs, OnWire
  <2> QED BY <1>1, <1>3, <2>3, <2>4 DEF IInv, Flight, SentSubs, NoStrandedWork, AgreementOutsideRaces
<1>4. CASE pendingSubs' = {} /\ SentUnsubs(pendingUnsubs')
  <2>1. OnWire(UnsubscribeCmd(pendingUnsubs))'
    BY <1>4 DEF SentUnsubs, OnWire, UnsubscribeCmd
  <2>2. UnsubscribeCmd(pendingUnsubs)' \in Command
    BY <1>2 DEF UnsubscribeCmd, Command
  <2>3. Wire'
    BY <1>4, <2>1, <2>2 DEF Wire, SentUnsubs, Connecting
  <2>4. UnsubsInFlight'
    <3>1. throttler' = <<UnsubscribeCmd(pendingUnsubs')>> /\ writing' = <<>>
      BY <1>4 DEF SentUnsubs
    <3> QED BY <1>2, <1>4, <3>1 DEF UnsubsInFlight, SentUnsubs, OnWire
  <2> QED BY <1>1, <1>4, <2>3, <2>4 DEF IInv, Flight, SentUnsubs, NoStrandedWork, AgreementOutsideRaces
<1>5. CASE pendingSubs' = {} /\ pendingUnsubs' = {} /\ SentNothing
  <2>1. Wire'
    BY <1>5 DEF Wire, SentNothing, Quiet, Connecting
  <2> QED BY <1>1, <1>5, <2>1 DEF IInv, Flight, SentNothing, NoStrandedWork, AgreementOutsideRaces
<1> QED BY <1>3, <1>4, <1>5

(* The replay of on_handshake.                                             *)
LEMMA HandshakeStep == ASSUME IInv, TypeOK', OnHandshake PROVE IInv'
<1> USE DEF IInv
<1>1. /\ ~connected /\ ~inFlight /\ ~pendingSubsInFlight /\ ~pendingUnsubsInFlight
      /\ throttler = <<>> /\ writing = <<>> /\ server = {}
  BY DEF OnHandshake, Wire, Quiet, Connecting
<1>2. /\ link' = "Open" /\ connected' /\ writing' = <<>> /\ server' = {}
      /\ pendingUnsubs' = pendingUnsubs /\ pendingSubs' = live /\ live' = live
      /\ inFlightCommand' = inFlightCommand
      /\ raced' = raced \cap inFlightCommand.params
  BY <1>1 DEF OnHandshake, Replayed, PendingMatchesLive
<1>3. PendingMatchesLive'
  BY <1>2 DEF PendingMatchesLive
<1>4. CASE inFlightCommand = NoCommand
  <2>1. SendPending(pendingSubs', pendingUnsubs', FALSE, FALSE, FALSE)
    BY <1>1, <1>4 DEF OnHandshake, ResumeSending, TypeOK
  <2>2. \/ SentSubs(pendingSubs')
        \/ pendingSubs' = {} /\ SentUnsubs(pendingUnsubs')
        \/ pendingSubs' = {} /\ pendingUnsubs' = {} /\ SentNothing
    BY <1>1, <2>1, SendPendingOutcome
  <2> QED BY <1>2, <1>3, <1>4, <2>2, BatchSent
<1>5. CASE inFlightCommand # NoCommand
  <2>1. /\ throttler' = <<inFlightCommand>> /\ inFlight'
        /\ ~pendingSubsInFlight' /\ ~pendingUnsubsInFlight'
    BY <1>1, <1>5, OneElement DEF OnHandshake, ResumeSending, Send
  <2>2. PICK u \in Streams : inFlightCommand \in {SubscribeCmd({u}), UnsubscribeCmd({u})}
    BY <1>5 DEF OneStream
  <2>3. OnWire(inFlightCommand)' /\ inFlightCommand \in Command
    BY <1>2, <2>1, <2>2, CommandTypes DEF OnWire
  <2>4. Wire' /\ OneStream'
    BY <1>2, <1>5, <2>1, <2>2, <2>3 DEF Wire, OneStream, Connecting, OnWire
  <2>5. NoStrandedWork' /\ AgreementOutsideRaces'
    BY <2>1 DEF NoStrandedWork, AgreementOutsideRaces
  <2>6. Replayable'
    BY <1>2, CommandTypes DEF Replayable, SubscribeCmd, UnsubscribeCmd
  <2>7. ASSUME NEW t \in Streams \ raced', t \notin pendingSubs', t \notin pendingUnsubs'
        PROVE  t \in live' <=> t \in Applied(inFlightCommand)'
    <3>1. t \notin live
      BY <1>2, <2>7
    <3>2. ASSUME t \in Applied(inFlightCommand)' PROVE FALSE
      <4>1. inFlightCommand = SubscribeCmd({t})
        <5>1. CASE inFlightCommand = SubscribeCmd({u})
          <6>1. Applied(inFlightCommand)' = {u}
            BY <1>2, <5>1, CommandTypes DEF Applied
          <6> QED BY <3>2, <5>1, <6>1
        <5>2. CASE inFlightCommand = UnsubscribeCmd({u})
          BY <1>2, <3>2, <5>2, CommandTypes DEF Applied
        <5> QED BY <2>2, <5>1, <5>2
      <4>2. t \notin raced
        BY <1>2, <2>7, <4>1, CommandTypes
      <4> QED BY <1>2, <2>7, <3>1, <4>1, <4>2 DEF Replayable
    <3> QED BY <1>2, <3>1, <3>2
  <2>8. CommandInFlight'
    BY <1>2, <1>5, <2>1, <2>3, <2>7 DEF CommandInFlight
  <2> QED BY <1>3, <2>4, <2>5, <2>6, <2>8 DEF Flight
<1> QED BY <1>4, <1>5

(* A completed write: what it asked for is done and the next batch goes.   *)
LEMMA WriteStep == ASSUME IInv, TypeOK', OnWrite PROVE IInv'
<1> USE DEF IInv
<1>1. connected /\ link = "Open"
  BY DEF OnWrite, Wire
<1>2. inFlight
  BY <1>1 DEF OnWrite, Wire, Quiet
<1>3. PICK c \in Command : throttler = <<>> /\ writing = <<c>>
  BY DEF OnWrite, Wire, Quiet, OnWire
<1>4. /\ writing' = <<>> /\ server' = Applied(c) /\ link' = "Open" /\ connected'
      /\ live' = live /\ raced' = raced
  BY <1>1, <1>3, OneElement DEF OnWrite
<1>5. \A d : OnWire(d) => d = c
  BY <1>3, OneElement DEF OnWire
<1>6. CASE CommandInFlight
  <2>1. /\ CommandWritten /\ inFlightCommand = c
        /\ ~pendingSubsInFlight /\ ~pendingUnsubsInFlight
    BY <1>5, <1>6 DEF CommandInFlight, OnWrite, SubsBatchWritten, UnsubsBatchWritten
  <2>2. /\ inFlightCommand' = NoCommand
        /\ pendingSubs' = pendingSubs /\ pendingUnsubs' = pendingUnsubs
        /\ SendPending(pendingSubs, pendingUnsubs, FALSE, FALSE, FALSE)
    BY <2>1 DEF CommandWritten, TypeOK
  <2>3. \/ SentSubs(pendingSubs')
        \/ pendingSubs' = {} /\ SentUnsubs(pendingUnsubs')
        \/ pendingSubs' = {} /\ pendingUnsubs' = {} /\ SentNothing
    BY <1>3, <2>2, SendPendingOutcome
  <2>4. PendingMatchesLive'
    BY <1>4, <2>2 DEF PendingMatchesLive
  <2>5. \A s \in Streams \ raced' :
            s \notin pendingSubs' /\ s \notin pendingUnsubs'
                => (s \in live' <=> s \in server')
    BY <1>4, <1>6, <2>1, <2>2 DEF CommandInFlight
  <2> QED BY <1>4, <2>2, <2>3, <2>4, <2>5, BatchSent
<1>7. CASE SubsInFlight
  <2>1. SubsBatchWritten
    BY <1>7 DEF SubsInFlight, OnWrite, CommandWritten, UnsubsBatchWritten
  <2>2. /\ inFlightCommand' = NoCommand
        /\ pendingSubs' = {} /\ pendingUnsubs' = pendingUnsubs
        /\ pendingSubsInFlight' = FALSE
        /\ SendPendingUnsubs(pendingUnsubs, FALSE, FALSE)
    BY <1>7, <2>1 DEF SubsBatchWritten, SubsInFlight, TypeOK
  <2>3. SentUnsubs(pendingUnsubs') \/ (pendingUnsubs' = {} /\ SentNothing)
    BY <1>3, <2>2, SendPendingUnsubsOutcome
  <2>4. PendingMatchesLive'
    BY <1>4, <2>2 DEF PendingMatchesLive
  <2>5. PICK B \in SUBSET Streams :
            /\ OnWire(SubscribeCmd(B))
            /\ \A s \in Streams \ raced :
                   /\ s \in pendingSubs <=> s \in B
                   /\ s \notin B /\ s \notin pendingUnsubs => (s \in live <=> s \in server)
    BY <1>7 DEF SubsInFlight
  <2>6. server' = server \cup B
    BY <1>4, <1>5, <2>5, CommandTypes DEF Applied
  <2>7. \A s \in Streams \ raced' :
            s \notin pendingSubs' /\ s \notin pendingUnsubs'
                => (s \in live' <=> s \in server')
    BY <1>4, <2>2, <2>5, <2>6 DEF PendingMatchesLive
  <2> QED BY <1>4, <2>2, <2>3, <2>4, <2>7, BatchSent
<1>8. CASE UnsubsInFlight
  <2>1. UnsubsBatchWritten
    BY <1>8 DEF UnsubsInFlight, OnWrite, CommandWritten, SubsBatchWritten
  <2>2. /\ inFlightCommand' = NoCommand
        /\ pendingSubs' = pendingSubs /\ pendingUnsubs' = {}
        /\ SendPending(pendingSubs, {}, FALSE, FALSE, FALSE)
    BY <1>8, <2>1 DEF UnsubsBatchWritten, UnsubsInFlight, TypeOK
  <2>3. \/ SentSubs(pendingSubs')
        \/ pendingSubs' = {} /\ SentUnsubs(pendingUnsubs')
        \/ pendingSubs' = {} /\ pendingUnsubs' = {} /\ SentNothing
    BY <1>3, <2>2, SendPendingOutcome
  <2>4. PendingMatchesLive'
    BY <1>4, <2>2 DEF PendingMatchesLive
  <2>5. PICK B \in SUBSET Streams :
            /\ OnWire(UnsubscribeCmd(B))
            /\ \A s \in Streams \ raced :
                   /\ s \in pendingSubs => s \notin server
                   /\ s \in pendingUnsubs <=> s \in B
                   /\ s \notin pendingSubs /\ s \notin B => (s \in live <=> s \in server)
    BY <1>8 DEF UnsubsInFlight
  <2>6. server' = server \ B
    BY <1>4, <1>5, <2>5, CommandTypes DEF Applied
  <2>7. \A s \in Streams \ raced' :
            s \notin pendingSubs' /\ s \notin pendingUnsubs'
                => (s \in live' <=> s \in server')
    BY <1>4, <2>2, <2>5, <2>6 DEF PendingMatchesLive
  <2> QED BY <1>4, <2>2, <2>3, <2>4, <2>7, BatchSent
<1> QED BY <1>1, <1>2, <1>6, <1>7, <1>8 DEF Flight

-----------------------------------------------------------------------------
LEMMA InitIInv == Init => IInv
<1> SUFFICES ASSUME Init PROVE IInv
  OBVIOUS
<1>1. TypeOK
  <2>1. throttler \in Seq(Command) /\ writing \in Seq(Command)
    BY DEF Init
  <2> QED BY <2>1 DEF Init, TypeOK, Links, Connecting
<1>2. Wire /\ OneStream /\ PendingMatchesLive /\ Flight
  BY DEF Init, Wire, OneStream, PendingMatchesLive, Flight, Quiet
<1>3. NoStrandedWork /\ AgreementOutsideRaces
  BY DEF Init, NoStrandedWork, AgreementOutsideRaces
<1>4. Replayable
  BY CommandTypes DEF Init, Replayable
<1> QED BY <1>1, <1>2, <1>3, <1>4 DEF IInv

LEMMA StepIInv == IInv /\ [Next]_vars => IInv'
<1> SUFFICES ASSUME IInv, [Next]_vars PROVE IInv'
  OBVIOUS
<1>1. TypeOK'
  BY TypeStep DEF IInv
<1>2. ASSUME NEW s \in Streams, SubscribeOnStrand(s) PROVE IInv'
  <2>1. CASE inFlight \/ ~connected
    BY <1>1, <1>2, <2>1, QueuedSubscribe
  <2>2. CASE ~inFlight /\ connected
    BY <1>1, <1>2, <2>2, SentSubscribe
  <2> QED BY <2>1, <2>2
<1>3. ASSUME NEW s \in Streams, UnsubscribeOnStrand(s) PROVE IInv'
  <2>1. CASE inFlight \/ ~connected
    BY <1>1, <1>3, <2>1, QueuedUnsubscribe
  <2>2. CASE ~inFlight /\ connected
    BY <1>1, <1>3, <2>2, SentUnsubscribe
  <2> QED BY <2>1, <2>2
<1>4. CASE UNCHANGED vars
  BY <1>4 DEF vars, flags, book, channel, IInv, TypeOK, Wire, OneStream,
              PendingMatchesLive, NoStrandedWork, AgreementOutsideRaces, Flight,
              Replayable, Quiet, OnWire, CommandInFlight, SubsInFlight,
              UnsubsInFlight, Applied
<1> QED BY <1>1, <1>2, <1>3, <1>4, ConnectingSteps, ErrorSteps, AbortedStep,
           StartWriteStep, HandshakeStep, WriteStep DEF Next

(* The invariant holds in every reachable state, for every set of streams. *)
THEOREM Invariant == Spec => []IInv
<1> QED BY InitIInv, StepIInv, PTL DEF Spec

(* m_inFlight keeps the session from starting a second async_write.        *)
THEOREM SingleWrite == Spec => []OneWriteAtATime
<1>1. IInv => OneWriteAtATime
  <2> SUFFICES ASSUME Quiet \/ \E c \in Command : OnWire(c) PROVE OneWriteAtATime
    BY DEF IInv, Wire
  <2>1. CASE Quiet
    BY <2>1 DEF Quiet, OneWriteAtATime
  <2>2. CASE \E c \in Command : OnWire(c)
    <3>1. PICK c \in Command : OnWire(c)
      BY <2>2
    <3>2. CASE throttler = <<c>> /\ writing = <<>>
      BY <3>2 DEF OneWriteAtATime
    <3>3. CASE throttler = <<>> /\ writing = <<c>>
      BY <3>3 DEF OneWriteAtATime
    <3> QED BY <3>1, <3>2, <3>3 DEF OnWire
  <2> QED BY <2>1, <2>2
<1> QED BY <1>1, Invariant, PTL

(* The pending sets agree with the live set; on_handshake's cancellation   *)
(* is dead code.                                                           *)
THEOREM PendingAgreesWithLive == Spec => []PendingMatchesLive
<1>1. IInv => PendingMatchesLive
  BY DEF IInv
<1> QED BY <1>1, Invariant, PTL

(* No queued request is left behind by an idle session.                    *)
THEOREM NothingStranded == Spec => []NoStrandedWork
<1>1. IInv => NoStrandedWork
  BY DEF IInv
<1> QED BY <1>1, Invariant, PTL

(* m_inFlight says what is: set with no frame out it would never be reset, *)
(* and every later request would wait for ever.                            *)
FlagTellsTruth == connected => (inFlight <=> throttler # <<>> \/ writing # <<>>)

THEOREM InFlightIsReal == Spec => []FlagTellsTruth
<1>1. IInv => FlagTellsTruth
  <2> SUFFICES ASSUME IInv, connected PROVE inFlight <=> throttler # <<>> \/ writing # <<>>
    BY DEF FlagTellsTruth
  <2>1. ~inFlight => Quiet
    BY DEF IInv, Wire
  <2>2. inFlight => \E c \in Command : OnWire(c)
    <3>1. inFlight => \E c : OnWire(c)
      BY DEF IInv, Flight, CommandInFlight, SubsInFlight, UnsubsInFlight
    <3>2. \A c : OnWire(c) => ~Quiet
      BY OneElement DEF OnWire, Quiet
    <3> QED BY <3>1, <3>2 DEF IInv, Wire
  <2> QED BY <2>1, <2>2, OneElement DEF Quiet, OnWire
<1> QED BY <1>1, Invariant, PTL

(* The exchange carries exactly what the platform wants, races aside.      *)
THEOREM Agreement == Spec => []AgreementOutsideRaces
<1>1. IInv => AgreementOutsideRaces
  BY DEF IInv
<1> QED BY <1>1, Invariant, PTL

-----------------------------------------------------------------------------
(* The session implements StreamService.  What the exchange will have been *)
(* asked for is what it has, and the one command on its way.               *)
LEMMA FirstOnItsWay ==
    ASSUME NEW c \in Command, NEW t, NEW w,
           (t = <<c>> /\ w = <<>>) \/ (t = <<>> /\ w = <<c>>)
    PROVE  t \o w # <<>> /\ Head(t \o w) = c
<1>1. CASE t = <<c>> /\ w = <<>>
  BY <1>1
<1>2. CASE t = <<>> /\ w = <<c>>
  BY <1>2
<1> QED BY <1>1, <1>2

AskedWithTheLast ==
    /\ ~connected => Asked = server
    /\ Quiet => Asked = server
    /\ \A c \in Command : connected /\ OnWire(c) => Asked = Applied(c)

LEMMA AskedNow == AskedWithTheLast
<1>1. Quiet => OnItsWay = <<>>
  BY DEF Quiet, OnItsWay
<1>2. ASSUME NEW c \in Command, OnWire(c)
      PROVE  OnItsWay # <<>> /\ Head(OnItsWay) = c
  BY <1>2, FirstOnItsWay DEF OnWire, OnItsWay
<1> QED BY <1>1, <1>2 DEF Asked, AskedWithTheLast

LEMMA AskedNext == AskedWithTheLast'
  BY AskedNow, PTL

(* What a batch, or nothing, does to what is asked for.                    *)
LEMMA BatchAsks ==
    ASSUME TypeOK', writing' = <<>>, connected, connected', live' = live, raced' = raced,
           PendingMatchesLive',
           \/ SentSubs(pendingSubs')
           \/ pendingSubs' = {} /\ SentUnsubs(pendingUnsubs')
           \/ pendingSubs' = {} /\ pendingUnsubs' = {} /\ SentNothing,
           Asked = server'
    PROVE  \E S \in SUBSET Streams : Service!Ask(S) \/ Service!GiveUp(S)
<1>1. pendingSubs' \in SUBSET Streams /\ pendingUnsubs' \in SUBSET Streams
  BY DEF TypeOK
<1>2. CASE SentSubs(pendingSubs')
  <2>1. OnWire(SubscribeCmd(pendingSubs))'
    BY <1>2 DEF SentSubs, OnWire, SubscribeCmd
  <2>2. Asked' = server' \cup pendingSubs'
    BY <1>1, <2>1, AskedNext DEF AskedWithTheLast, Applied, SubscribeCmd, Command
  <2>3. Service!Ask(pendingSubs')
    BY <2>2 DEF Service!Ask, PendingMatchesLive, Lost
  <2> QED BY <1>1, <2>3
<1>3. CASE pendingSubs' = {} /\ SentUnsubs(pendingUnsubs')
  <2>1. OnWire(UnsubscribeCmd(pendingUnsubs))'
    BY <1>3 DEF SentUnsubs, OnWire, UnsubscribeCmd
  <2>2. Asked' = server' \ pendingUnsubs'
    BY <1>1, <2>1, AskedNext DEF AskedWithTheLast, Applied, UnsubscribeCmd, Command
  <2>3. Service!GiveUp(pendingUnsubs')
    BY <2>2 DEF Service!GiveUp, PendingMatchesLive, Lost
  <2> QED BY <1>1, <2>3
<1>4. CASE pendingSubs' = {} /\ pendingUnsubs' = {} /\ SentNothing
  <2>1. Asked' = server'
    BY <1>4, AskedNext DEF AskedWithTheLast, Quiet, SentNothing
  <2>2. Service!Ask({})
    BY <2>1 DEF Service!Ask, Lost
  <2> QED BY <2>2
<1> QED BY <1>2, <1>3, <1>4

(* A request: an idle connected session sends it, any other keeps it.      *)
LEMMA RequestRefines ==
    ASSUME IInv, NEW s \in Streams
    PROVE  /\ SubscribeOnStrand(s) => Service!Subscribe(s)
           /\ UnsubscribeOnStrand(s) => Service!Unsubscribe(s)
<1>1. SubscribeCmd({s}) \in Command /\ UnsubscribeCmd({s}) \in Command
  BY CommandTypes
<1>2. TypeOK /\ Wire
  BY DEF IInv
<1>3. Busy <=> inFlight \/ ~connected
  BY DEF Busy
<1>4. ASSUME SubscribeOnStrand(s) PROVE Service!Subscribe(s)
  <2>1. CASE Busy
    <3>1. UNCHANGED <<throttler, writing, server, connected>>
      BY <1>4, <2>1 DEF SubscribeOnStrand
    <3>2. Asked' = Asked
      BY <3>1 DEF Asked, OnItsWay, Applied
    <3>3. raced' = IF RacesSub(s) THEN raced \cup {s} ELSE raced
      BY <1>4, <2>1 DEF SubscribeOnStrand
    <3>4. s \notin live /\ live' = live \cup {s}
      BY <1>4 DEF SubscribeOnStrand
    <3>5. \/ Lost' = Lost
          \/ connected /\ s \notin Asked /\ Lost' = Lost \cup {s}
      BY <3>1, <3>2, <3>3, <3>4 DEF Lost
    <3> QED BY <3>1, <3>2, <3>4, <3>5 DEF Service!Subscribe
  <2>2. CASE ~Busy
    <3>1. Quiet /\ connected /\ Asked = server
      BY <1>2, <1>3, <2>2, AskedNow DEF Wire, AskedWithTheLast
    <3>2. Send(SubscribeCmd({s})) /\ UNCHANGED <<writing, server, connected>>
      BY <1>4, <2>2 DEF SubscribeOnStrand
    <3>3. OnWire(SubscribeCmd({s}))'
      <4>1. throttler' = <<SubscribeCmd({s})>> /\ writing' = <<>>
        BY <3>1, <3>2, OneElement DEF Send, Quiet
      <4> QED BY <4>1 DEF OnWire, SubscribeCmd
    <3>4. Asked' = server \cup {s}
      BY <1>1, <3>1, <3>2, <3>3, AskedNext DEF AskedWithTheLast, Applied, SubscribeCmd
    <3>5. /\ s \notin live /\ live' = live \cup {s} /\ raced' = raced \ {s}
      BY <1>4, <2>2 DEF SubscribeOnStrand
    <3>6. Lost' = Lost
      BY <3>1, <3>2, <3>4, <3>5 DEF Lost
    <3> QED BY <3>1, <3>2, <3>4, <3>5, <3>6 DEF Service!Subscribe
  <2> QED BY <2>1, <2>2
<1>5. ASSUME UnsubscribeOnStrand(s) PROVE Service!Unsubscribe(s)
  <2>1. CASE Busy
    <3>1. UNCHANGED <<throttler, writing, server, connected>>
      BY <1>5, <2>1 DEF UnsubscribeOnStrand
    <3>2. Asked' = Asked
      BY <3>1 DEF Asked, OnItsWay, Applied
    <3>3. raced' = IF RacesUnsub(s) THEN raced \cup {s} ELSE raced
      BY <1>5, <2>1 DEF UnsubscribeOnStrand
    <3>4. s \in live /\ live' = live \ {s}
      BY <1>5 DEF UnsubscribeOnStrand
    <3>5. Lost' = Lost \ {s}
      BY <3>1, <3>2, <3>3, <3>4 DEF Lost
    <3> QED BY <3>1, <3>2, <3>4, <3>5 DEF Service!Unsubscribe
  <2>2. CASE ~Busy
    <3>1. Quiet /\ connected /\ Asked = server
      BY <1>2, <1>3, <2>2, AskedNow DEF Wire, AskedWithTheLast
    <3>2. Send(UnsubscribeCmd({s})) /\ UNCHANGED <<writing, server, connected>>
      BY <1>5, <2>2 DEF UnsubscribeOnStrand
    <3>3. OnWire(UnsubscribeCmd({s}))'
      <4>1. throttler' = <<UnsubscribeCmd({s})>> /\ writing' = <<>>
        BY <3>1, <3>2, OneElement DEF Send, Quiet
      <4> QED BY <4>1 DEF OnWire, UnsubscribeCmd
    <3>4. Asked' = server \ {s}
      BY <1>1, <3>1, <3>2, <3>3, AskedNext DEF AskedWithTheLast, Applied, UnsubscribeCmd
    <3>5. /\ s \in live /\ live' = live \ {s} /\ raced' = raced \ {s}
      BY <1>5, <2>2 DEF UnsubscribeOnStrand
    <3>6. Lost' = Lost \ {s}
      BY <3>1, <3>2, <3>4, <3>5 DEF Lost
    <3> QED BY <3>1, <3>2, <3>4, <3>5, <3>6 DEF Service!Unsubscribe
  <2> QED BY <2>1, <2>2
<1> QED BY <1>4, <1>5

(* The handshake: the replay is all that is live, or the one stream of the *)
(* command that was interrupted, or nothing when that was an unsubscribe.  *)
(* Either way no request is lost: raced keeps the stream of the command.   *)
LEMMA HandshakeRefines ==
    ASSUME IInv, IInv', OnHandshake PROVE Service!Connect
<1>1. /\ ~connected /\ connected' /\ throttler = <<>> /\ writing = <<>>
      /\ writing' = <<>> /\ server' = {} /\ live' = live
      /\ ~inFlight /\ ~pendingSubsInFlight /\ ~pendingUnsubsInFlight
  BY DEF IInv, OnHandshake, Wire, Quiet, Connecting
<1>2. pendingSubs' = live /\ live \in SUBSET Streams
      /\ pendingUnsubs' \in SUBSET Streams
  BY DEF IInv, OnHandshake, Replayed, PendingMatchesLive, TypeOK
<1>3. raced' = raced \cap inFlightCommand.params
  BY DEF OnHandshake
<1>4. Asked' \in {live, {}} \cup {{s} : s \in Streams} /\ Lost' = {}
  <2>1. CASE inFlightCommand # NoCommand
    <3>1. PICK u \in Streams : inFlightCommand \in {SubscribeCmd({u}), UnsubscribeCmd({u})}
      BY <2>1 DEF IInv, OneStream
    <3>2. OnWire(inFlightCommand)' /\ inFlightCommand' = inFlightCommand
      <4>1. throttler' = <<inFlightCommand>> /\ inFlightCommand' = inFlightCommand
        BY <1>1, <2>1, OneElement DEF OnHandshake, ResumeSending, Send
      <4> QED BY <1>1, <4>1 DEF OnWire
    <3>3. inFlightCommand \in Command
      BY <3>1, CommandTypes
    <3>4. Asked' = Applied(inFlightCommand)'
      BY <1>1, <3>2, <3>3, AskedNext DEF AskedWithTheLast
    <3>5. CASE inFlightCommand = SubscribeCmd({u})
      <4>1. Asked' = {u} /\ raced' \subseteq {u}
        BY <1>1, <1>3, <3>2, <3>4, <3>5 DEF Applied, SubscribeCmd
      <4> QED BY <1>1, <4>1 DEF Lost
    <3>6. CASE inFlightCommand = UnsubscribeCmd({u})
      <4>1. Asked' = {} /\ raced' \subseteq {u}
        BY <1>1, <1>3, <3>2, <3>4, <3>6 DEF Applied, UnsubscribeCmd
      <4>2. u \notin raced
        BY <3>6 DEF IInv, Replayable
      <4> QED BY <1>1, <1>3, <4>1, <4>2 DEF Lost
    <3> QED BY <3>1, <3>5, <3>6
  <2>2. CASE inFlightCommand = NoCommand
    <3>1. SendPending(pendingSubs', pendingUnsubs', FALSE, FALSE, FALSE)
      BY <1>1, <2>2 DEF IInv, OnHandshake, ResumeSending, TypeOK
    <3>2. \/ SentSubs(pendingSubs')
          \/ pendingSubs' = {} /\ SentUnsubs(pendingUnsubs')
          \/ pendingSubs' = {} /\ pendingUnsubs' = {} /\ SentNothing
      BY <1>1, <3>1, SendPendingOutcome
    <3>3. Lost' = {}
      BY <1>3, <2>2, NoCommandType DEF Lost
    <3>4. CASE SentSubs(pendingSubs')
      <4>1. OnWire(SubscribeCmd(pendingSubs))'
        BY <1>1, <3>4 DEF SentSubs, OnWire, SubscribeCmd
      <4>2. Asked' = pendingSubs'
        BY <1>1, <1>2, <4>1, AskedNext DEF AskedWithTheLast, Applied, SubscribeCmd, Command
      <4> QED BY <1>2, <3>3, <4>2
    <3>5. CASE SentUnsubs(pendingUnsubs')
      <4>1. OnWire(UnsubscribeCmd(pendingUnsubs))'
        BY <1>1, <3>5 DEF SentUnsubs, OnWire, UnsubscribeCmd
      <4>2. Asked' = {}
        BY <1>1, <1>2, <4>1, AskedNext DEF AskedWithTheLast, Applied, UnsubscribeCmd, Command
      <4> QED BY <3>3, <4>2
    <3>6. CASE SentNothing
      BY <1>1, <3>3, <3>6, AskedNext DEF AskedWithTheLast, Quiet, SentNothing
    <3> QED BY <3>2, <3>4, <3>5, <3>6
  <2> QED BY <2>1, <2>2
<1> QED BY <1>1, <1>4 DEF Service!Connect

(* A completed write: the frame was asked for already; the next one is     *)
(* asked for now.                                                          *)
LEMMA WriteRefines ==
    ASSUME IInv, IInv', OnWrite
    PROVE  \E S \in SUBSET Streams : Service!Ask(S) \/ Service!GiveUp(S)
<1>1. connected /\ connected' /\ inFlight /\ live' = live /\ raced' = raced
  BY DEF IInv, OnWrite, Wire, Quiet
<1>2. PICK c \in Command : throttler = <<>> /\ writing = <<c>>
  BY DEF IInv, OnWrite, Wire, Quiet, OnWire
<1>3. writing' = <<>> /\ server' = Applied(c)
  BY <1>2, OneElement DEF OnWrite
<1>4. Asked = server'
  BY <1>1, <1>2, <1>3, AskedNow DEF AskedWithTheLast, OnWire
<1>5. TypeOK' /\ PendingMatchesLive'
  BY DEF IInv
<1>6. \/ SentSubs(pendingSubs')
      \/ pendingSubs' = {} /\ SentUnsubs(pendingUnsubs')
      \/ pendingSubs' = {} /\ pendingUnsubs' = {} /\ SentNothing
  <2>1. CASE CommandInFlight
    <3>1. /\ pendingSubs' = pendingSubs /\ pendingUnsubs' = pendingUnsubs
          /\ SendPending(pendingSubs, pendingUnsubs, FALSE, FALSE, FALSE)
      BY <2>1 DEF CommandInFlight, OnWrite, CommandWritten, SubsBatchWritten,
                  UnsubsBatchWritten, IInv, TypeOK
    <3> QED BY <1>2, <3>1, SendPendingOutcome
  <2>2. CASE SubsInFlight
    <3>1. /\ pendingSubs' = {} /\ pendingUnsubs' = pendingUnsubs
          /\ pendingSubsInFlight' = FALSE
          /\ SendPendingUnsubs(pendingUnsubs, FALSE, FALSE)
      BY <2>2 DEF SubsInFlight, OnWrite, CommandWritten, SubsBatchWritten,
                  UnsubsBatchWritten, IInv, TypeOK
    <3> QED BY <1>2, <3>1, SendPendingUnsubsOutcome
  <2>3. CASE UnsubsInFlight
    <3>1. /\ pendingSubs' = pendingSubs /\ pendingUnsubs' = {}
          /\ SendPending(pendingSubs, {}, FALSE, FALSE, FALSE)
      BY <2>3 DEF UnsubsInFlight, OnWrite, CommandWritten, SubsBatchWritten,
                  UnsubsBatchWritten, IInv, TypeOK
    <3> QED BY <1>2, <3>1, SendPendingOutcome
  <2> QED BY <1>1, <2>1, <2>2, <2>3 DEF IInv, Flight
<1> QED BY <1>1, <1>3, <1>4, <1>5, <1>6, BatchAsks

(* The throttler and the failures: nothing is asked for, or all is gone.   *)
LEMMA FailureRefines ==
    ASSUME IInv, ConnectError \/ ReadError \/ OnWriteError PROVE Service!Lose
<1>1. ~connected' /\ connected' = FALSE /\ server' = {} /\ live' = live
  BY DEF ConnectError, ReadError, OnWriteError, OnError, book
<1>2. Asked' = {}
  BY <1>1, AskedNext DEF AskedWithTheLast
<1> QED BY <1>1, <1>2 DEF Service!Lose, Lost

LEMMA QuietSteps ==
    ASSUME IInv,
           \/ OnResolve \/ OnConnect \/ OnSslHandshake \/ OnRetryTimer
           \/ StartWrite \/ OnWriteAborted \/ UNCHANGED vars
    PROVE  UNCHANGED <<connected, live, Asked, Lost>>
<1>1. UNCHANGED <<connected, live, server, raced>>
  BY DEF OnResolve, OnConnect, OnSslHandshake, ConnectStep, OnRetryTimer,
         StartWrite, OnWriteAborted, vars, book, channel
<1>2. StartWrite => Asked' = Asked
  <2> SUFFICES ASSUME StartWrite PROVE Asked' = Asked
    OBVIOUS
  <2>1. PICK c \in Command : throttler = <<c>> /\ writing = <<>>
    BY DEF IInv, Wire, StartWrite, Quiet, OnWire
  <2>2. throttler' = <<>> /\ writing' = <<c>>
    BY <2>1, OneElement DEF StartWrite
  <2>3. OnWire(c) /\ OnWire(c)'
    BY <2>1, <2>2 DEF OnWire
  <2>4. CASE connected
    BY <1>1, <2>3, <2>4, AskedNow, AskedNext DEF AskedWithTheLast, Applied
  <2>5. CASE ~connected
    BY <1>1, <2>5, AskedNow, AskedNext DEF AskedWithTheLast
  <2> QED BY <2>4, <2>5
<1>3. OnWriteAborted => Asked' = Asked
  <2> SUFFICES ASSUME OnWriteAborted PROVE Asked' = Asked
    OBVIOUS
  <2>1. ~connected
    BY DEF IInv, Wire, OnWriteAborted
  <2> QED BY <1>1, <2>1, AskedNow, AskedNext DEF AskedWithTheLast
<1>4. OnResolve \/ OnConnect \/ OnSslHandshake \/ OnRetryTimer \/ UNCHANGED vars => Asked' = Asked
  <2> SUFFICES ASSUME OnResolve \/ OnConnect \/ OnSslHandshake \/ OnRetryTimer \/ UNCHANGED vars
               PROVE  Asked' = Asked
    OBVIOUS
  <2>1. UNCHANGED <<throttler, writing>>
    BY DEF OnResolve, OnConnect, OnSslHandshake, ConnectStep, OnRetryTimer,
                vars, channel
  <2> QED BY <1>1, <2>1 DEF Asked, OnItsWay, Applied
<1>5. Asked' = Asked
  BY <1>2, <1>3, <1>4
<1>6. Lost' = Lost
  BY <1>1, <1>5 DEF Lost
<1> QED BY <1>1, <1>5, <1>6

(* The session implements the service its callers rely on: frames ask for  *)
(* what is wanted and give up what is not, the interrupted command aside,  *)
(* and a request for what is wanted is lost by nothing but a race.         *)
THEOREM Implements == Spec => ImplementsStreams
<1>1. Init => Service!Init
  <2> SUFFICES ASSUME Init PROVE Service!Init
    OBVIOUS
  <2>1. Asked = server
    BY AskedNow DEF Init, AskedWithTheLast
  <2> QED BY <2>1 DEF Init, Service!Init, Lost
<1>2. IInv /\ IInv' /\ [Next]_vars => [Service!Next]_(Service!vars)
  <2> SUFFICES ASSUME IInv, IInv', [Next]_vars PROVE [Service!Next]_(Service!vars)
    OBVIOUS
  <2>1. ASSUME NEW s \in Streams, SubscribeOnStrand(s) \/ UnsubscribeOnStrand(s)
        PROVE  Service!Next
    BY <2>1, RequestRefines DEF Service!Next
  <2>2. CASE OnHandshake
    BY <2>2, HandshakeRefines DEF Service!Next
  <2>3. CASE OnWrite
    BY <2>3, WriteRefines DEF Service!Next
  <2>4. CASE ConnectError \/ ReadError \/ OnWriteError
    BY <2>4, FailureRefines DEF Service!Next
  <2>5. CASE \/ OnResolve \/ OnConnect \/ OnSslHandshake \/ OnRetryTimer
             \/ StartWrite \/ OnWriteAborted \/ UNCHANGED vars
    <3>1. UNCHANGED <<connected, live, Asked, Lost>>
      BY <2>5, QuietSteps
    <3> QED BY <3>1 DEF Service!vars
  <2> QED BY <2>1, <2>2, <2>3, <2>4, <2>5 DEF Next
<1> QED BY <1>1, <1>2, Invariant, PTL DEF Spec, ImplementsStreams, Service!Spec
=============================================================================
