------------------------------- MODULE Ticker -------------------------------
(***************************************************************************)
(* The epoch thread of the wasm engine (guatiao-source-wasm engine.rs):    *)
(* while a guest's call runs it makes the engine's clock tick, which is    *)
(* all that stops a guest out of time; while none does it sleeps with no   *)
(* bound on a condition variable.  What is done under the lock is a step.  *)
(***************************************************************************)
EXTENDS Wasm, FiniteSets

CONSTANT GuestCallers

VARIABLES
  counted,   \* Ticks.running
  stopping,  \* Ticks.stop
  ticker,    \* the thread: about to look, in its idle or its timed wait, or ended
  inCall,    \* the threads between Ticker::running and the drop of its answer
  dropping   \* where Ticker's drop is

tickvars == <<counted, stopping, ticker, inCall, dropping>>

TickerInit ==
  /\ counted = 0 /\ stopping = FALSE
  /\ ticker = "looks"
  /\ inCall = {}
  /\ dropping = "no"

\* The loop, from its condition to its next wait.
TickerWaits ==
  ticker' = IF stopping THEN "ended" ELSE IF counted = 0 THEN "idle" ELSE "timed"

TickerLooks ==
  /\ ticker = "looks"
  /\ TickerWaits
  /\ UNCHANGED <<counted, stopping, inCall, dropping>>

\* The timed wait is over: increment_epoch where a call still runs, and the loop.
TickerTicks ==
  /\ ticker = "timed"
  /\ TickerWaits
  /\ UNCHANGED <<counted, stopping, inCall, dropping>>

Notified == ticker' = IF ticker = "idle" THEN "looks" ELSE ticker

\* Mutant of WakesTicker: the count is looked at before the call is in it.
WakesTickerMutant(n) == n = 2

\* Ticker::running: the first call wakes the thread from its idle wait.
WakesTicker(n) == n = 1

CallBegins(c) ==
  /\ c \notin inCall /\ dropping = "no"
  /\ counted' = counted + 1
  /\ inCall' = inCall \cup {c}
  /\ IF WakesTicker(counted') THEN Notified ELSE UNCHANGED ticker
  /\ UNCHANGED <<stopping, dropping>>

CallEnds(c) ==
  /\ c \in inCall
  /\ counted' = IF counted > 0 THEN counted - 1 ELSE 0
  /\ inCall' = inCall \ {c}
  /\ UNCHANGED <<stopping, ticker, dropping>>

\* The engine goes, and no call of it runs: stop is set under the lock, then
\* the thread is woken, then waited for.
DropStops ==
  /\ dropping = "no" /\ inCall = {}
  /\ stopping' = TRUE
  /\ dropping' = "wakes"
  /\ UNCHANGED <<counted, ticker, inCall>>

DropWakes ==
  /\ dropping = "wakes"
  /\ Notified
  /\ dropping' = "joins"
  /\ UNCHANGED <<counted, stopping, inCall>>

DropJoins ==
  /\ dropping = "joins" /\ ticker = "ended"
  /\ dropping' = "done"
  /\ UNCHANGED <<counted, stopping, ticker, inCall>>

TickerNext ==
  \/ TickerLooks \/ TickerTicks
  \/ \E c \in GuestCallers : CallBegins(c) \/ CallEnds(c)
  \/ DropStops \/ DropWakes \/ DropJoins

-----------------------------------------------------------------------------
(* What must hold.                                                         *)

\* The thread sleeps without a bound only where nobody needs it: no call runs,
\* and a drop that set `stop` has still to wake it (engine.rs:59-74, 86-94).
TickerAwake ==
  /\ counted = Cardinality(inCall)
  /\ ticker = "idle" => inCall = {} /\ dropping \in {"no", "wakes"}
  /\ ticker = "ended" => inCall = {}

\* A wasm library's calls go where they should, and end when their time is up.
WasmHolds == WasmCallsHold /\ TickerAwake
=============================================================================
