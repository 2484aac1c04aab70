------------------------------- MODULE Script -------------------------------
(***************************************************************************)
(* The JavaScript engine (guatiao-source-js engine.rs, frame.rs, host.rs,  *)
(* limits.rs): one QuickJS runtime on one thread, re-entered whenever a    *)
(* script calls a host that calls a library of this engine.  Script may    *)
(* not run in the middle of another script's synchronous code but as its   *)
(* callee, so cleanup, promise reactions, the destruction of host objects  *)
(* and collections wait until no frame is open, and `settle` does them.    *)
(*                                                                         *)
(* `stack` is the thread's stack: frames of calls, of the opening, closing *)
(* and cleanup of libraries, and settling, which is no frame.  create and  *)
(* available are calls, instances are objects.  What script, hosts and the *)
(* collector do in between is external, and chosen freely.                 *)
(***************************************************************************)
EXTENDS Naturals, Sequences, FiniteSets, SequencesExt

CONSTANTS
  Scripts,        \* libraries, each opened once: a library's handle is never used again
  HostObjects,    \* objects a host hands to scripts
  MaxServed,      \* bound: objects scripts answer
  MaxReactions,   \* bound: promise reactions queued at once
  MaxStack,       \* bound: activities on the stack
  NoObject

ASSUME ScriptAssumption == NoObject \notin HostObjects

VARIABLES
  stack,
  loaded,      \* of each library: "unopened", "open" or "closed"
  objects,     \* the Library.objects of open libraries: <<library, id>>
  nextServed,  \* JsEngine.next
  heldByHost,  \* the objects of libraries that somebody in the host holds
  lateReleases,\* JsEngine.deferred
  graveyard,   \* Shared.graveyard
  collectDue,  \* JsEngine.collect_due
  reactions,   \* how many promise reactions the runtime has queued
  stop,        \* Meter's State.stopped: the call running was stopped
  where,       \* where each host object is
  ownedBy,     \* whose handle it was given to
  letGo        \* Handle.closed, or the handle was freed

scriptvars == <<stack, loaded, objects, nextServed, heldByHost, lateReleases, graveyard,
                collectDue, reactions, stop, where, ownedBy, letGo>>

engineState == <<loaded, objects, nextServed, heldByHost, lateReleases, graveyard, collectDue>>
hostState == <<where, ownedBy, letGo>>

ScriptInit ==
  /\ stack = <<>>
  /\ loaded = [l \in Scripts |-> "unopened"]
  /\ objects = {} /\ nextServed = 0 /\ heldByHost = {}
  /\ lateReleases = <<>> /\ graveyard = {} /\ collectDue = FALSE
  /\ reactions = 0 /\ stop = FALSE
  /\ where = [o \in HostObjects |-> "host"]
  /\ ownedBy = [o \in HostObjects |-> NoObject]
  /\ letGo = [o \in HostObjects |-> FALSE]

-----------------------------------------------------------------------------
Top == Last(stack)
IsFrame(a) == a.does # "settle"

\* Frames::inside and Frames::depth, of a stack.
FramesIn(s) == {i \in DOMAIN s : IsFrame(s[i])}
Depth(s) == Cardinality(FramesIn(s))
Inside == Depth(stack) > 0

\* A frame, entered by Meter::run: the stop of the call it is inside waits in it.
FrameOf(does, l, looped) ==
  [does |-> does, lib |-> l, at |-> IF does = "close" THEN "end" ELSE "script", id |-> 0,
   hit |-> FALSE, outer |-> stop, out |-> NoObject, looped |-> looped]

Enters(below, f) ==
  /\ stack' = Append(below, f)
  /\ stop' = FALSE

\* One turn of settle's loop takes all that waits, the last finds nothing.
Turn(below, due) ==
  /\ stack' = IF graveyard # {} \/ lateReleases # <<>> \/ due
              THEN Append(below, [does |-> "settle", dead |-> graveyard, late |-> lateReleases,
                                  collect |-> due])
              ELSE below
  /\ graveyard' = {} /\ lateReleases' = <<>> /\ collectDue' = FALSE
  /\ where' = [o \in HostObjects |-> IF o \in graveyard THEN "dying" ELSE where[o]]

\* leave, once the frame that was entered on `below` is closed: with no frame
\* open it settles.  `due` is what the ended activity made of collect_due.
LeavesEngine(below, due) ==
  IF Depth(below) > 0
  THEN /\ stack' = below /\ collectDue' = due
       /\ UNCHANGED <<graveyard, lateReleases, where>>
  ELSE Turn(below, due)

\* Mutant of Restored: the stop goes with the call that ends.
RestoredMutant(f) == FALSE

\* Ending: a call made inside a stopped one leaves its stop as it found it.
Restored(f) == f.outer

-----------------------------------------------------------------------------
(* What enters the engine.  A host may: with nothing on the stack, called  *)
(* by the script of a frame, or by what a settle destroys.                 *)
Enterable ==
  /\ Len(stack) < MaxStack
  /\ stack # <<>> => IF IsFrame(Top) THEN Top.at \in {"script", "reaction"} ELSE Top.dead # {}

\* open: never from inside a call.
OpensScript(l) ==
  /\ Enterable /\ ~Inside
  /\ loaded[l] = "unopened"
  /\ loaded' = [loaded EXCEPT ![l] = "opening"]
  /\ Enters(stack, FrameOf("open", l, FALSE))
  /\ UNCHANGED <<objects, nextServed, heldByHost, lateReleases, graveyard, collectDue, reactions>>
  /\ UNCHANGED hostState

\* call, on a provider (0) or an object a host holds, with a host object for
\* its argument or none.
CallsScript(l, id, o) ==
  /\ Enterable
  /\ loaded[l] = "open"
  /\ id = 0 \/ <<l, id>> \in heldByHost \cap objects
  /\ o \in {NoObject} \cup {x \in HostObjects : where[x] = "host"}
  /\ Enters(stack, FrameOf("call", l, FALSE))
  /\ where' = [x \in HostObjects |-> IF x = o THEN "handle" ELSE where[x]]
  /\ ownedBy' = [x \in HostObjects |-> IF x = o THEN l ELSE ownedBy[x]]
  /\ UNCHANGED engineState /\ UNCHANGED <<reactions, letGo>>

\* release_now: the cleanup of one object, in a frame of its own.
ReleaseNow(below, g, looped) ==
  IF g \in objects
  THEN /\ objects' = objects \ {g}
       /\ Enters(below, FrameOf("dispose", g[1], looped))
       /\ UNCHANGED <<lateReleases, graveyard, collectDue, where>>
  ELSE /\ UNCHANGED <<objects, stop>>
       /\ IF looped
          THEN stack' = below /\ UNCHANGED <<lateReleases, graveyard, collectDue, where>>
          ELSE LeavesEngine(below, collectDue)

\* Mutant of MustWait: only a call of the same library is in the way.
MustWaitMutant(g) == \E i \in DOMAIN stack : IsFrame(stack[i]) /\ stack[i].lib = g[1]

\* let_go: cleanup is script, and waits while a frame is open.
MustWait(g) == Inside

\* release or destroy, by the drop of what the host held.
ReleasesScript(g) ==
  /\ Enterable
  /\ g \in heldByHost
  /\ heldByHost' = heldByHost \ {g}
  /\ IF MustWait(g)
     THEN /\ lateReleases' = Append(lateReleases, g)
          /\ UNCHANGED <<stack, objects, graveyard, collectDue, stop, where>>
     ELSE ReleaseNow(stack, g, FALSE)
  /\ UNCHANGED <<loaded, nextServed, reactions, ownedBy, letGo>>

\* close: the library goes at once, its roots in a frame of the context.
ClosesScript(l) ==
  /\ Enterable
  /\ loaded[l] = "open"
  /\ loaded' = [loaded EXCEPT ![l] = "closed"]
  /\ objects' = {g \in objects : g[1] # l}
  /\ Enters(stack, FrameOf("close", l, FALSE))
  /\ UNCHANGED <<nextServed, heldByHost, lateReleases, graveyard, collectDue, reactions>>
  /\ UNCHANGED hostState

-----------------------------------------------------------------------------
(* What runs in a frame.                                                   *)
InFrame == stack # <<>> /\ IsFrame(Top)
RunsScript == InFrame /\ Top.at \in {"script", "reaction"} /\ ~stop
OnTop(f) == stack' = Append(Front(stack), f)

QueuesReaction ==
  /\ RunsScript /\ reactions < MaxReactions
  /\ reactions' = reactions + 1
  /\ UNCHANGED <<stack, stop>> /\ UNCHANGED engineState /\ UNCHANGED hostState

\* A handle is closed, or freed by the collector: its object is buried, unless
\* it is out for a call.
LetsHandleGo(o) ==
  /\ RunsScript
  /\ where[o] \in {"handle", "out"} /\ ~letGo[o]
  /\ letGo' = [letGo EXCEPT ![o] = TRUE]
  /\ IF where[o] = "handle"
     THEN graveyard' = graveyard \cup {o} /\ where' = [where EXCEPT ![o] = "grave"]
     ELSE UNCHANGED <<graveyard, where>>
  /\ UNCHANGED <<stack, loaded, objects, nextServed, heldByHost, lateReleases, collectDue,
                 reactions, stop, ownedBy>>

\* A slot is called with a handle for its argument: its object is taken out
\* while the others are made, which may run script.
TakesOut(o) ==
  /\ RunsScript /\ Top.out = NoObject
  /\ where[o] = "handle" /\ ownedBy[o] = Top.lib /\ ~letGo[o]
  /\ where' = [where EXCEPT ![o] = "out"]
  /\ OnTop([Top EXCEPT !.out = o])
  /\ UNCHANGED <<reactions, stop, ownedBy, letGo>> /\ UNCHANGED engineState

\* Mutant of Home: what was closed meanwhile is put back.
HomeMutant(o) == "handle"

\* Home::give_back: not for the script to have again once it was closed.
Home(o) == IF letGo[o] THEN "grave" ELSE "handle"

\* The call is refused before it took its object, or stopped.
GivesBack ==
  LET o == Top.out IN
  /\ InFrame /\ o # NoObject
  /\ where' = [where EXCEPT ![o] = Home(o)]
  /\ graveyard' = graveyard \cup (IF Home(o) = "grave" THEN {o} ELSE {})
  /\ OnTop([Top EXCEPT !.out = NoObject])
  /\ UNCHANGED <<loaded, objects, nextServed, heldByHost, lateReleases, collectDue, reactions,
                 stop, ownedBy, letGo>>

\* The host has it.
HandsOver ==
  /\ RunsScript /\ Top.out # NoObject
  /\ where' = [where EXCEPT ![Top.out] = "handed"]
  /\ OnTop([Top EXCEPT !.out = NoObject])
  /\ UNCHANGED <<reactions, stop, ownedBy, letGo>> /\ UNCHANGED engineState

\* The interrupt handler: the innermost call has spent its budget.
MeterStops ==
  /\ RunsScript
  /\ stop' = TRUE
  /\ OnTop([Top EXCEPT !.hit = TRUE])
  /\ UNCHANGED reactions /\ UNCHANGED engineState /\ UNCHANGED hostState

\* f returned; a call may have answered an object, which is kept under an id.
ScriptEnds(answers) ==
  LET g == <<Top.lib, nextServed + 1>> IN
  /\ InFrame /\ Top.at = "script" /\ Top.out = NoObject
  /\ answers => ~stop /\ Top.does = "call" /\ nextServed < MaxServed
  /\ OnTop([Top EXCEPT !.at = "end", !.id = IF answers THEN g[2] ELSE 0])
  /\ nextServed' = IF answers THEN g[2] ELSE nextServed
  /\ objects' = IF answers /\ loaded[g[1]] = "open" THEN objects \cup {g} ELSE objects
  /\ UNCHANGED <<loaded, heldByHost, lateReleases, graveyard, collectDue, reactions, stop>>
  /\ UNCHANGED hostState

\* Mutant of Drains: every frame runs what is queued.
DrainsMutant == TRUE

\* enter: the outermost frame runs the reactions before it returns.
Drains == Depth(stack) = 1

\* run_jobs: one reaction; once the call was stopped they end without running.
\* A module's own run as it loads.
RunsReaction ==
  /\ InFrame /\ Top.out = NoObject /\ reactions > 0
  /\ \/ Top.at = "end" /\ Drains
     \/ Top.does = "open" /\ Top.at = "script" /\ ~stop
  /\ reactions' = reactions - 1
  /\ OnTop([Top EXCEPT !.at = IF stop \/ @ = "script" THEN @ ELSE "reaction"])
  /\ UNCHANGED stop /\ UNCHANGED engineState /\ UNCHANGED hostState

ReactionEnds ==
  /\ InFrame /\ Top.at = "reaction" /\ Top.out = NoObject
  /\ OnTop([Top EXCEPT !.at = "end"])
  /\ UNCHANGED <<reactions, stop>> /\ UNCHANGED engineState /\ UNCHANGED hostState

FrameEnds(does) ==
  /\ InFrame /\ Top.does = does /\ Top.at = "end"
  /\ Drains => reactions = 0
  /\ stop' = Restored(Top)
  /\ UNCHANGED <<nextServed, reactions, ownedBy, letGo>>

\* call_inside and leave: a stopped call tells nobody of the object it kept.
CallReturns ==
  LET g == <<Top.lib, Top.id>> IN
  /\ FrameEnds("call")
  /\ heldByHost' = IF Top.id # 0 /\ ~stop THEN heldByHost \cup {g} ELSE heldByHost
  /\ objects' = IF stop THEN objects \ {g} ELSE objects
  /\ LeavesEngine(Front(stack), collectDue)
  /\ UNCHANGED loaded

\* release_now ends: settle's loop goes on, or let_go leaves.
DisposeReturns ==
  /\ FrameEnds("dispose")
  /\ IF Top.looped
     THEN stack' = Front(stack) /\ UNCHANGED <<collectDue, graveyard, lateReleases, where>>
     ELSE LeavesEngine(Front(stack), collectDue)
  /\ UNCHANGED <<loaded, objects, heldByHost>>

\* close ends, and so does an open that failed: a collection is due.
CloseReturns ==
  /\ FrameEnds("close")
  /\ LeavesEngine(Front(stack), TRUE)
  /\ UNCHANGED <<loaded, objects, heldByHost>>

\* open_inside: a library that did not load has its roots forgotten, as one
\* that closes.
OpenReturns(ok) ==
  /\ FrameEnds("open")
  /\ ok => ~stop
  /\ loaded' = [loaded EXCEPT ![Top.lib] = IF ok THEN "open" ELSE "closed"]
  /\ IF ok
     THEN LeavesEngine(Front(stack), collectDue)
     ELSE /\ stack' = Append(Front(stack), [FrameOf("close", Top.lib, FALSE)
                                              EXCEPT !.outer = Restored(Top)])
          /\ UNCHANGED <<collectDue, graveyard, lateReleases, where>>
  /\ UNCHANGED <<objects, heldByHost>>

-----------------------------------------------------------------------------
(* settle.                                                                 *)
Settling == stack # <<>> /\ ~IsFrame(Top)

\* drop(dead), one object.
DestroysDead ==
  /\ Settling
  /\ \E o \in Top.dead :
       /\ where' = [where EXCEPT ![o] = "gone"]
       /\ OnTop([Top EXCEPT !.dead = @ \ {o}])
  /\ UNCHANGED <<reactions, stop, ownedBy, letGo>> /\ UNCHANGED engineState

ReleasesLate ==
  /\ Settling /\ Top.dead = {} /\ Top.late # <<>>
  /\ ReleaseNow(Append(Front(stack), [Top EXCEPT !.late = Tail(@)]), Head(Top.late), TRUE)
  /\ UNCHANGED <<loaded, nextServed, heldByHost, reactions, ownedBy, letGo>>

\* run_gc: the handles of what was closed are freed.
Collects ==
  LET freed == {o \in HostObjects : where[o] = "handle" /\ loaded[ownedBy[o]] = "closed"} IN
  /\ Settling /\ Top.dead = {} /\ Top.late = <<>> /\ Top.collect
  /\ graveyard' = graveyard \cup freed
  /\ where' = [o \in HostObjects |-> IF o \in freed THEN "grave" ELSE where[o]]
  /\ letGo' = [o \in HostObjects |-> letGo[o] \/ o \in freed]
  /\ OnTop([Top EXCEPT !.collect = FALSE])
  /\ UNCHANGED <<loaded, objects, nextServed, heldByHost, lateReleases, collectDue, reactions,
                 stop, ownedBy>>

\* Mutant of SettlesAgain: once is enough.
SettlesAgainMutant ==
  /\ Settling /\ Top.dead = {} /\ Top.late = <<>> /\ ~Top.collect
  /\ stack' = Front(stack)
  /\ UNCHANGED <<reactions, stop>> /\ UNCHANGED engineState /\ UNCHANGED hostState

\* What was settled may have left more to settle.
SettlesAgain ==
  /\ Settling /\ Top.dead = {} /\ Top.late = <<>> /\ ~Top.collect
  /\ Turn(Front(stack), collectDue)
  /\ UNCHANGED <<loaded, objects, nextServed, heldByHost, reactions, stop, ownedBy, letGo>>

ScriptNext ==
  \/ \E l \in Scripts :
       \/ OpensScript(l) \/ ClosesScript(l)
       \/ \E id \in 0 .. MaxServed, o \in HostObjects \cup {NoObject} : CallsScript(l, id, o)
       \/ \E id \in 1 .. MaxServed : ReleasesScript(<<l, id>>)
  \/ \E o \in HostObjects : LetsHandleGo(o) \/ TakesOut(o)
  \/ QueuesReaction \/ GivesBack \/ HandsOver \/ MeterStops
  \/ \E b \in BOOLEAN : ScriptEnds(b) \/ OpenReturns(b)
  \/ RunsReaction \/ ReactionEnds
  \/ CallReturns \/ DisposeReturns \/ CloseReturns
  \/ DestroysDead \/ ReleasesLate \/ Collects \/ SettlesAgain

-----------------------------------------------------------------------------
(* What must hold.                                                         *)

\* Once the engine is left, nothing waits in it: no cleanup, no host object
\* that its script let go of or whose library closed, no reaction, no
\* collection, no stop (engine.rs:226-255).
NothingWaits ==
  stack = <<>> =>
    /\ lateReleases = <<>> /\ graveyard = {} /\ ~collectDue /\ reactions = 0 /\ ~stop
    /\ \A o \in HostObjects :
         \/ where[o] \in {"host", "handed", "gone"}
         \/ where[o] = "handle" /\ ~letGo[o] /\ loaded[ownedBy[o]] = "open"

\* Cleanup, reactions, the destruction of host objects and the opening of a
\* library are never in the middle of a script's synchronous code, its own
\* library's or another's (engine.rs:79-82, 208-212, 237-239).
ScriptAlone ==
  \A i \in DOMAIN stack :
    LET a == stack[i] IN
    ~IsFrame(a) \/ a.does \in {"dispose", "open"} \/ a.at = "reaction"
      => \A k \in FramesIn(stack) : i <= k

\* The stop the meter has is the innermost call's own, and each call finds its
\* own again when those inside it have returned (limits.rs:84-99, 181-185).
StopIsTheCalls ==
  \A i \in FramesIn(stack) :
    LET inmost(fs) == {k \in fs : \A j \in fs : j <= k} IN
    /\ i \in inmost(FramesIn(stack)) => stop = stack[i].hit
    /\ stack[i].outer = \E k \in inmost({j \in FramesIn(stack) : j < i}) : stack[k].hit

\* What the host holds of an open library is kept for it, and what is kept is
\* held, on its way to be released, or about to be answered.
ServedIsHeld ==
  LET late == ToSet(lateReleases) \cup
              UNION {IF IsFrame(stack[i]) THEN {<<stack[i].lib, stack[i].id>>}
                     ELSE ToSet(stack[i].late) : i \in DOMAIN stack}
  IN  /\ {g \in heldByHost : loaded[g[1]] = "open"} \subseteq objects
      /\ objects \subseteq heldByHost \cup late

\* The engine runs script where it may and leaves nothing waiting.
ScriptIsSettled == NothingWaits /\ ScriptAlone /\ StopIsTheCalls /\ ServedIsHeld
=============================================================================
