------------------------------ MODULE WebLink -------------------------------
(***************************************************************************)
(* A link over a WebSocket or WebTransport channel (Shared in              *)
(* transport/web.rs): a server's channel is opened by its first read, and  *)
(* may be ended at any time from another thread.                           *)
(*                                                                         *)
(* The channel itself is coqui-web-channel's, external: it takes a close;  *)
(* a handshake that is cancelled fails unless it was done.  The bounds on  *)
(* a frame are set by the thread that sets the link up, and left out.      *)
(***************************************************************************)
CONSTANT WebEnders  \* threads that call Shared::end, once each

VARIABLES
  stopped,    \* Shared.ended
  cancelling, \* Shared.order holds the cancel of the handshake
  cancelled,  \* the handshake was cancelled
  channel,    \* Shared.channel is set
  shut,       \* the channel was closed
  opening,    \* where the first read is
  saw,        \* what it read of `ended` as it opened
  endings     \* where each end is, and what it is to do

webvars == <<stopped, cancelling, cancelled, channel, shut, opening, saw, endings>>

WebInit ==
  /\ stopped = FALSE
  /\ cancelling = FALSE
  /\ cancelled = FALSE
  /\ channel = FALSE
  /\ shut = FALSE
  /\ opening = "made"
  /\ saw = FALSE
  /\ endings = [t \in WebEnders |-> [at |-> "no", cancel |-> FALSE, close |-> FALSE]]

-----------------------------------------------------------------------------
(* The first read: on_cancel as the connection is made, then open.         *)

\* connection: the cancel is kept for `end`, or run when the link has ended.
KeepsCancel ==
  /\ opening = "made"
  /\ opening' = "start"
  /\ cancelling' = ~stopped
  /\ cancelled' = stopped
  /\ UNCHANGED <<stopped, channel, shut, saw, endings>>

\* Reader::channel: an ended link opens nothing.
OpenStarts ==
  /\ opening = "start"
  /\ opening' = IF stopped THEN "failed" ELSE "shaking"
  /\ UNCHANGED <<stopped, cancelling, cancelled, channel, shut, saw, endings>>

\* The handshake fails, cancelled or not, and always when it was cancelled
\* before it was done.
OpenFails ==
  /\ opening = "shaking"
  /\ opening' = "failed"
  /\ UNCHANGED <<stopped, cancelling, cancelled, channel, shut, saw, endings>>

SawEnded == stopped

\* Mutant of Kept: the cancel outlives the handshake.
KeptMutant == cancelling

Kept == FALSE

\* Shared::open, under `order`.
Opens ==
  /\ opening = "shaking"
  /\ opening' = "open"
  /\ cancelling' = Kept
  /\ channel' = TRUE
  /\ saw' = SawEnded
  /\ UNCHANGED <<stopped, cancelled, shut, endings>>

\* A link ended meanwhile closes the channel.
OpenEnds ==
  /\ opening = "open"
  /\ opening' = "reading"
  /\ shut' = (shut \/ saw)
  /\ UNCHANGED <<stopped, cancelling, cancelled, channel, saw, endings>>

-----------------------------------------------------------------------------
(* Shared::end: what to do is decided under `order`.                       *)

\* Mutant of Cancels: the cancel of a handshake under way is left.
CancelsMutant == FALSE

Cancels == cancelling

EndDecides(t) ==
  /\ endings[t].at = "no"
  /\ stopped' = TRUE
  /\ endings' = [endings EXCEPT ![t] = [at |-> "do", cancel |-> Cancels, close |-> channel]]
  /\ cancelling' = FALSE
  /\ UNCHANGED <<cancelled, channel, shut, opening, saw>>

EndDoes(t) ==
  /\ endings[t].at = "do"
  /\ cancelled' = (cancelled \/ endings[t].cancel)
  /\ shut' = (shut \/ endings[t].close)
  /\ endings' = [endings EXCEPT ![t].at = "done"]
  /\ UNCHANGED <<stopped, cancelling, channel, opening, saw>>

WebNext ==
  \/ KeepsCancel
  \/ OpenStarts
  \/ OpenFails
  \/ Opens
  \/ OpenEnds
  \/ \E t \in WebEnders : opening # "made" /\ (EndDecides(t) \/ EndDoes(t))

-----------------------------------------------------------------------------
(* Properties.                                                             *)

\* The channel is there once opened, and a cancel is kept only until then
\* (web.rs:63-66).
WebTypeOK ==
  /\ channel <=> opening \in {"open", "reading"}
  /\ cancelling => ~channel
  /\ shut => channel

\* Once the ends begun have come back and the first read with them, the channel
\* is closed if there is one, and a handshake found under way was cancelled
\* (web.rs:168-181).
EndReachesChannel ==
  (stopped /\ \A t \in WebEnders : endings[t].at # "do") =>
    /\ opening = "reading" => shut
    /\ opening = "shaking" => cancelled

\* The end of a web link reaches its channel, whichever side it began on.
WebEnds == WebTypeOK /\ EndReachesChannel
=============================================================================
