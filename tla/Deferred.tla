------------------------------ MODULE Deferred ------------------------------
(***************************************************************************)
(* A connection a listener accepted and sets up on its first read          *)
(* (transport/deferred.rs): the serving thread's set_up, the link's writer *)
(* and closers of other threads, around one locked state.                  *)
(*                                                                         *)
(* What is set up (a shared-memory or an RDMA connection, both with a      *)
(* closer) is external: it is live until its writer's shutdown or its      *)
(* closer ends it, and a set-up that an abort cuts off fails, unless it    *)
(* was past waiting.                                                       *)
(***************************************************************************)
EXTENDS Naturals

CONSTANTS
  Closers,     \* who may call Shared::close, once each
  Shutter,     \* one of them: the link's writer, in a shutdown without a connection
  HasAbort     \* whether the transport gave a way to cut its set-up off

VARIABLES
  deferred,  \* Shared.state: "pending", "ready" or "ended"
  kept,      \* State::Ready.writer is still there
  setUp,     \* where Reader::set_up is
  inner,     \* the connection set up: "none", "live" or "ended"
  cut,       \* abort was run
  held,      \* Writer.inner is there
  shutting,  \* where Writer::shutdown is: "no", "close" (Shutter is to close), "done"
  closing    \* what each closer is about to run: "no", "abort" or "close"; or "done"

fvars == <<deferred, kept, setUp, inner, cut, held, shutting, closing>>

DeferredInit ==
  /\ deferred = "pending"
  /\ kept = FALSE
  /\ setUp = "start"
  /\ inner = "none"
  /\ cut = FALSE
  /\ held = FALSE
  /\ shutting = "no"
  /\ closing = [c \in Closers |-> "no"]

-----------------------------------------------------------------------------
(* Shared::close: what to do is decided under the lock and done without.   *)

Decided == CASE deferred = "pending" -> IF HasAbort THEN "abort" ELSE "done"
             [] deferred = "ready" -> "close"
             [] deferred = "ended" -> "done"

EndedBy == IF deferred = "pending" THEN "ended" ELSE deferred

Close(c) ==
  /\ closing[c] = "no" /\ (c = Shutter => shutting = "close")
  /\ closing' = [closing EXCEPT ![c] = Decided]
  /\ deferred' = EndedBy
  /\ UNCHANGED <<kept, setUp, inner, cut, held, shutting>>

Closes(c) ==
  /\ closing[c] \in {"abort", "close"}
  /\ cut' = (cut \/ closing[c] = "abort")
  /\ inner' = IF closing[c] = "close" THEN "ended" ELSE inner
  /\ closing' = [closing EXCEPT ![c] = "done"]
  /\ UNCHANGED <<deferred, kept, setUp, held, shutting>>

-----------------------------------------------------------------------------
(* Reader::set_up.                                                         *)

Unset == UNCHANGED <<kept, cut, held, shutting, closing>>

SetUpStarts ==
  /\ setUp = "start"
  /\ setUp' = IF deferred = "ended" THEN "failed" ELSE "setting"
  /\ UNCHANGED <<deferred, inner>> /\ Unset

SetUpFails ==
  /\ setUp = "setting"
  /\ setUp' = "failed"
  /\ deferred' = "ended"
  /\ UNCHANGED inner /\ Unset

SetUpConnects ==
  /\ setUp = "setting"
  /\ setUp' = "connected"
  /\ inner' = "live"
  /\ UNCHANGED deferred /\ Unset

\* Mutant of Late: the state is not looked at again.
LateMutant == FALSE

\* Closed while it was being set up.
Late == deferred = "ended"

\* Mutant of GivenUp: the state stays what it was.
GivenUpMutant == deferred

GivenUp == "ended"

\* The connection is there: kept for the writer, or given up.
Installs(bounded) ==
  /\ setUp = "connected"
  /\ IF ~bounded \/ Late
     THEN /\ deferred' = GivenUp
          /\ setUp' = "undo"
          /\ UNCHANGED kept
     ELSE /\ deferred' = "ready"
          /\ setUp' = "reading"
          /\ kept' = TRUE
  /\ UNCHANGED <<inner, cut, held, shutting, closing>>

Undoes ==
  /\ setUp = "undo"
  /\ setUp' = "failed"
  /\ inner' = "ended"
  /\ UNCHANGED deferred /\ Unset

-----------------------------------------------------------------------------
(* Writer: inner, and shutdown.                                            *)

\* Mutant of Left: the writer stays in the state as it is taken.
LeftMutant == kept

Left == FALSE

\* inner: the writer is taken once.  A bound it refuses drops it.
Takes(bounded) ==
  /\ ~held /\ shutting = "no"
  /\ deferred = "ready" /\ kept
  /\ kept' = Left
  /\ held' = bounded
  /\ UNCHANGED <<deferred, setUp, inner, cut, shutting, closing>>

\* Without a writer, shutdown closes as a closer does.
ShutFor == "close"

Shuts(bounded) ==
  /\ shutting = "no"
  /\ IF held \/ (deferred = "ready" /\ kept /\ bounded)
     THEN /\ inner' = "ended"
          /\ held' = TRUE
          /\ kept' = FALSE
          /\ shutting' = "done"
     ELSE /\ kept' = (kept /\ deferred # "ready")
          /\ shutting' = ShutFor
          /\ UNCHANGED <<inner, held>>
  /\ UNCHANGED <<deferred, setUp, cut, closing>>

DeferredNext ==
  \/ \E c \in Closers : Close(c) \/ Closes(c)
  \/ SetUpStarts
  \/ SetUpFails
  \/ SetUpConnects
  \/ \E bounded \in BOOLEAN : Installs(bounded) \/ Takes(bounded) \/ Shuts(bounded)
  \/ Undoes

-----------------------------------------------------------------------------
(* Properties.                                                             *)

\* The parts are what they may be, a connection is ready only once set up, and
\* its writer is in one place (deferred.rs:26-36, 183).
DeferredTypeOK ==
  /\ deferred \in {"pending", "ready", "ended"}
  /\ setUp \in {"start", "setting", "connected", "undo", "reading", "failed"}
  /\ inner \in {"none", "live", "ended"}
  /\ deferred = "ready" <=> setUp = "reading"
  /\ ~(held /\ kept)
  /\ \A c \in Closers : closing[c] \in {"no", "abort", "close", "done"}

\* A closer or a shutdown that has returned leaves nothing alive: no connection
\* that is or will be served stays up, at whatever point of the set-up it came
\* (deferred.rs:45, 132, "closing it runs `abort`").
ClosedIsOver ==
  (shutting = "done" \/ \E c \in Closers : closing[c] = "done")
    => /\ ~(setUp = "reading" /\ inner = "live")
       /\ deferred = "ended" \/ inner = "ended"

\* A connection given up before it was kept is over for everyone: nobody can
\* write to it, and no close runs an abort for it any more (deferred.rs:117-140).
GivenUpIsUnused == setUp \in {"undo", "failed"} => ~held /\ ~kept /\ deferred = "ended"

\* A connection closed, or given up, before or as it is made is over.
DeferredEnds == DeferredTypeOK /\ ClosedIsOver /\ GivenUpIsUnused
=============================================================================
