--------------------------- MODULE StreamService ---------------------------
(***************************************************************************)
(* What the WebSocket session promises to who subscribes streams: a frame  *)
(* asks the exchange for streams that are wanted when it is sent, or gives *)
(* up streams that are not, and with the connection everything that was    *)
(* asked for is gone.  The one exception is the command that a lost        *)
(* connection interrupted: it is sent first on the next one, wanted or     *)
(* not.  A request may also be lost: the session forgets it although the   *)
(* stream is wanted, until the stream is given up or the next connection   *)
(* replays it.  Frames, batches and pending sets do not show.  WSSession   *)
(* implements this specification, and Prices is composed with it in the    *)
(* session's place.                                                        *)
(***************************************************************************)
CONSTANT Streams

VARIABLES
    up,     \* connected
    live,   \* streams the session has been asked for
    asked,  \* streams asked of the exchange, once it has read every frame
    lost    \* streams wanted whose request has been forgotten

vars == <<up, live, asked, lost>>

(* subscribeTrade and its siblings: an idle session sends at once, another *)
(* keeps the request for later, or loses it when it races what is sent.    *)
Subscribe(s) ==
    /\ s \notin live
    /\ live' = live \cup {s}
    /\ \/ UNCHANGED <<asked, lost>>
       \/ up /\ asked' = asked \cup {s} /\ UNCHANGED lost
       \/ up /\ s \notin asked /\ lost' = lost \cup {s} /\ UNCHANGED asked
    /\ UNCHANGED up

Unsubscribe(s) ==
    /\ s \in live
    /\ live' = live \ {s}
    /\ asked' \in {asked, asked \ {s}}
    /\ lost' = lost \ {s}
    /\ UNCHANGED up

(* What waited is sent on.                                                 *)
Ask(S) ==
    /\ up
    /\ S \subseteq live
    /\ asked' = asked \cup S
    /\ lost' = lost \ S
    /\ UNCHANGED <<up, live>>

GiveUp(S) ==
    /\ S \cap live = {}
    /\ asked' = asked \ S
    /\ UNCHANGED <<up, live, lost>>

(* The replay, or the interrupted command before it.                       *)
Connect ==
    /\ ~up
    /\ up' = TRUE
    /\ asked' \in {live, {}} \cup {{s} : s \in Streams}
    /\ lost' = {}
    /\ UNCHANGED live

Lose ==
    /\ up' = FALSE
    /\ asked' = {} /\ lost' = {}
    /\ UNCHANGED live

Init == up = FALSE /\ live = {} /\ asked = {} /\ lost = {}

Next ==
    \/ \E s \in Streams : Subscribe(s) \/ Unsubscribe(s)
    \/ \E S \in SUBSET Streams : Ask(S) \/ GiveUp(S)
    \/ Connect
    \/ Lose

Spec == Init /\ [][Next]_vars
=============================================================================
