------------------------------ MODULE Handing ------------------------------
(***************************************************************************)
(* Objects that cross between a host and a Lua state (guatiao-bridge       *)
(* calling.rs, guatiao-source-lua calls.rs and served.rs, call_raw of      *)
(* guatiao's kind/runtime.rs).  A handle of the state owns an object, or   *)
(* has one lent for the call it came with.  A method called on a handle    *)
(* takes its object arguments out of their handles first, and puts those   *)
(* not handed over back after.  Calls nest: a host called calls scripts,   *)
(* and a metamethod runs while a table is prepared as an argument.         *)
(*                                                                         *)
(* All is on the state's thread.  What hosts and scripts choose to do is   *)
(* external; a host keeps what it lends until the call it lent it to is    *)
(* over.  Objects are all of one kind, and the arguments and answers that  *)
(* are no objects are left out: they only make a call refused.             *)
(***************************************************************************)
EXTENDS Naturals, Sequences, FiniteSets, SequencesExt

CONSTANTS
  HostThings,   \* objects a host has
  TableThings,  \* objects made of a script's tables
  MaxHandles,   \* bound: handles at once
  MaxNest,      \* bound: calls inside each other
  MaxObjectArgs,\* bound: object arguments of one call
  NoThing

ASSUME HandingAssumption == NoThing \notin HostThings \cup TableThings /\ MaxHandles \in Nat

VARIABLES
  handle,     \* the Handle userdata: what is held, and the object
  nest,       \* the calls running, innermost last
  owned,      \* the objects the host owns
  destroyed

handingvars == <<handle, nest, owned, destroyed>>

Things == HostThings \cup TableThings
HandleIds == 1 .. MaxHandles
NoHome == 0

NoHandle == [held |-> "unmade", thing |-> NoThing]
OfObject(o) == [held |-> "object", thing |-> o]
OfLent(o) == [held |-> "lent", thing |-> o]

HandingInit ==
  /\ handle = [h \in HandleIds |-> NoHandle]
  /\ nest = <<>>
  /\ owned = HostThings
  /\ destroyed = {}

-----------------------------------------------------------------------------
\* Frames: a script's function served to the host with the handles it was lent,
\* and a script's call of the handle `me`, preparing or running.
ServedFrame(lent) == [is |-> "served", me |-> NoHome, lent |-> lent, prepared |-> <<>>, target |-> NoThing]
Preparing(h) == [is |-> "preparing", me |-> h, lent |-> {}, prepared |-> <<>>, target |-> NoThing]

Argument(as, o, home) == [as |-> as, thing |-> o, home |-> home]

AtTop(is) == nest # <<>> /\ Last(nest).is = is
ScriptRuns == AtTop("served") \/ AtTop("preparing")
HostRuns == nest = <<>> \/ AtTop("running")
Nested(f) == nest' = Append(nest, f) /\ Len(nest) < MaxNest

\* userdata's borrow_mut is held on the handle while its method runs.
BorrowedBy(calls, h) == \E i \in DOMAIN calls : calls[i].is = "running" /\ calls[i].me = h
Borrowed(h) == BorrowedBy(nest, h)

\* What arguments hold, by how they were taken.
ThingsAs(kinds, args) == {args[i].thing : i \in {j \in DOMAIN args : args[j].as \in kinds}}

\* The objects calls that run were lent, and those the host itself has lent.
LentToHost == UNION {ThingsAs({"lent", "passed"}, nest[i].prepared) : i \in {j \in DOMAIN nest : nest[j].is = "running"}}
LentByHost == {handle[h].thing : h \in UNION {nest[i].lent : i \in DOMAIN nest}}
HostMayPart == owned \ LentByHost

\* Made so far: a table becomes an object when it is first passed.
Made == owned \cup destroyed \cup {handle[h].thing : h \in HandleIds}
          \cup UNION {ThingsAs({"object", "lent"}, nest[i].prepared) : i \in DOMAIN nest}

FreeHandles == {h \in HandleIds : handle[h] = NoHandle}

-----------------------------------------------------------------------------
\* call_table: the host calls a script, each object it hands over or lends in
\* a handle of its own.
ServeScript(taken, lent) ==
  /\ HostRuns
  /\ taken \in {{}} \cup {{o} : o \in HostMayPart}
  /\ lent \in {{}} \cup {{o} : o \in (owned \cup LentToHost) \ taken}
  /\ \E hs \in SUBSET FreeHandles :
       /\ \A h \in hs, k \in FreeHandles \ hs : h < k
       /\ \E to \in [hs -> taken \cup lent] :
            /\ \A h, k \in hs : h # k => to[h] # to[k]
            /\ \A o \in taken \cup lent : \E h \in hs : to[h] = o
            /\ handle' = [h \in HandleIds |-> IF h \notin hs THEN handle[h]
                                              ELSE IF to[h] \in taken THEN OfObject(to[h]) ELSE OfLent(to[h])]
            /\ Nested(ServedFrame({h \in hs : to[h] \in lent}))
  /\ owned' = owned \ taken
  /\ UNCHANGED destroyed

\* handle:slot(...) begins: the handle is looked at before its arguments.
StartsCall(h) ==
  /\ ScriptRuns
  /\ handle[h] # NoHandle /\ ~Borrowed(h)
  /\ Nested(Preparing(h))
  /\ UNCHANGED <<handle, owned, destroyed>>

Adds(arg) ==
  /\ AtTop("preparing")
  /\ Len(Last(nest).prepared) < MaxObjectArgs
  /\ nest' = [nest EXCEPT ![Len(nest)].prepared = Append(@, arg)]

\* Mutant of Takeable: the argument's handle is not borrowed.
TakeableMutant(h) == TRUE

\* object_arg: the handle must be free to be borrowed.
Takeable(h) == ~Borrowed(h)

\* Mutant of Emptied: an object only lent stays in its handle.
EmptiedMutant(h, as) == IF as = "lent" THEN handle ELSE [handle EXCEPT ![h].thing = NoThing]

\* argument: the object is taken out, to be handed over or lent.
Emptied(h, as) == [handle EXCEPT ![h].thing = NoThing]

PreparesOwn(h, as) ==
  /\ Takeable(h)
  /\ handle[h].held = "object" /\ handle[h].thing # NoThing
  /\ Adds(Argument(as, handle[h].thing, h))
  /\ handle' = Emptied(h, as)
  /\ UNCHANGED <<owned, destroyed>>

\* Mutant of PassedAs: an object lent to the script is handed over by it.
PassedAsMutant == {"passed", "object"}

\* argument: a lent object is passed on as lent, and never handed over.
PassedAs == {"passed"}

PreparesLent(h, as) ==
  /\ Takeable(h)
  /\ handle[h].held = "lent"
  /\ as \in PassedAs
  /\ Adds(Argument(as, handle[h].thing, h))
  /\ UNCHANGED <<handle, owned, destroyed>>

\* A table served as an object, for the call alone when it is lent.
PreparesTable(o, as) ==
  /\ o \notin Made
  /\ Adds(Argument(as, o, NoHome))
  /\ UNCHANGED <<handle, owned, destroyed>>

-----------------------------------------------------------------------------
\* PreparedArgs::drop, give_back and put_back: each object goes back into its
\* handle, one that has none or whose handle is in use is destroyed.
KeptArgs(args) == {i \in DOMAIN args : args[i].as \in {"object", "lent"}}

GoesHome(arg) == arg.home # NoHome /\ ~BorrowedBy(Front(nest), arg.home)

GivenBack(args) ==
  [h \in HandleIds |->
     IF \E i \in KeptArgs(args) : GoesHome(args[i]) /\ args[i].home = h
     THEN OfObject(args[CHOOSE i \in KeptArgs(args) : args[i].home = h].thing)
     ELSE handle[h]]

Strayed(args) == {args[i].thing : i \in {j \in KeptArgs(args) : ~GoesHome(args[j])}}

\* An argument that is refused, or whose metamethod fails: the call is not made.
RefusesArgument ==
  /\ AtTop("preparing")
  /\ handle' = GivenBack(Last(nest).prepared)
  /\ destroyed' = destroyed \cup Strayed(Last(nest).prepared)
  /\ nest' = Front(nest)
  /\ UNCHANGED owned

\* Held::call: the handle still has its object, or its lend has not ended.
StillHas(h) == handle[h].thing # NoThing

\* with_args: what is handed over is taken out, the rest stays.
LentOnly(args) == [i \in DOMAIN args |-> IF args[i].as = "object" THEN Argument("taken", NoThing, NoHome) ELSE args[i]]

\* call_slot, call_raw: the objects handed over are the callee's once it runs,
\* those lent stay in `prepared`, and the handle is borrowed.
MakesCall ==
  /\ AtTop("preparing")
  /\ LET f == Last(nest) IN
     /\ ~Borrowed(f.me) /\ StillHas(f.me)
     /\ NoThing \notin ThingsAs({"passed"}, f.prepared)
     /\ owned' = owned \cup ThingsAs({"object"}, f.prepared)
     /\ nest' = [nest EXCEPT ![Len(nest)] =
          [f EXCEPT !.is = "running", !.prepared = LentOnly(@), !.target = handle[f.me].thing]]
  /\ UNCHANGED <<handle, destroyed>>

\* The handle is in use or its object gone, a lend passed on has ended, or the
\* table does not fill the slot: refused.  with_args has moved the objects out
\* by then (unless the handle was in use), and they are dropped with the
\* arguments.
CallRefused ==
  /\ AtTop("preparing")
  /\ LET f == Last(nest)
         kept == IF Borrowed(f.me) THEN f.prepared ELSE LentOnly(f.prepared)
     IN /\ handle' = GivenBack(kept)
        /\ destroyed' = destroyed \cup Strayed(kept) \cup (ThingsAs({"object"}, f.prepared) \ ThingsAs({"object"}, kept))
  /\ nest' = Front(nest)
  /\ UNCHANGED owned

\* The callee answers, an object or none, which gets a handle; or a write-back
\* fails, and the answer is dropped.
CalleeReturns(answer) ==
  /\ AtTop("running")
  /\ answer \in {{}} \cup {{o} : o \in HostMayPart}
  /\ nest' = Front(nest)
  /\ owned' = owned \ answer
  /\ LET args == Last(nest).prepared
     IN \/ /\ FreeHandles # {} /\ answer # {}
           /\ \E o \in answer, h \in FreeHandles :
                /\ \A k \in FreeHandles : h <= k
                /\ handle' = [GivenBack(args) EXCEPT ![h] = OfObject(o)]
           /\ destroyed' = destroyed \cup Strayed(args)
        \/ /\ handle' = GivenBack(args)
           /\ destroyed' = destroyed \cup Strayed(args) \cup answer

-----------------------------------------------------------------------------
\* Mutant of LendEnds: the handles a script keeps still call.
LendEndsMutant(made, lent) == made

\* LentObject::share: the lend is over when the call is.
LendEnds(made, lent) == [h \in HandleIds |-> IF h \in lent /\ made[h].held = "lent" THEN OfLent(NoThing) ELSE made[h]]

\* outcome and hand_back: a script answers an object of a handle, a table, or
\* nothing (a refusal too), and what it was lent is over.
AnswersHandle(h) ==
  /\ AtTop("served")
  /\ ~Borrowed(h) /\ handle[h].held = "object" /\ StillHas(h)
  /\ owned' = owned \cup {handle[h].thing}
  /\ handle' = LendEnds([handle EXCEPT ![h].thing = NoThing], Last(nest).lent)
  /\ nest' = Front(nest)
  /\ UNCHANGED destroyed

AnswersTable(o) ==
  /\ AtTop("served")
  /\ o \notin Made
  /\ owned' = owned \cup {o}
  /\ handle' = LendEnds(handle, Last(nest).lent)
  /\ nest' = Front(nest)
  /\ UNCHANGED destroyed

AnswersNothing ==
  /\ AtTop("served")
  /\ handle' = LendEnds(handle, Last(nest).lent)
  /\ nest' = Front(nest)
  /\ UNCHANGED <<owned, destroyed>>

\* A handle no call refers to is collected, and what it owns destroyed.  (One
\* lent to a call that runs may be too, which nobody can tell.)
CollectsHandle(h) ==
  /\ handle[h] # NoHandle
  /\ \A i \in DOMAIN nest : nest[i].me # h /\ h \notin nest[i].lent
       /\ \A j \in DOMAIN nest[i].prepared : nest[i].prepared[j].home # h
  /\ handle' = [handle EXCEPT ![h] = NoHandle]
  /\ destroyed' = destroyed \cup (IF handle[h].held = "object" THEN {handle[h].thing} \ {NoThing} ELSE {})
  /\ UNCHANGED <<nest, owned>>

HostDestroys(o) ==
  /\ HostRuns
  /\ o \in HostMayPart
  /\ owned' = owned \ {o}
  /\ destroyed' = destroyed \cup {o}
  /\ UNCHANGED <<handle, nest>>

HandingNext ==
  \/ \E taken, lent \in SUBSET Things : ServeScript(taken, lent)
  \/ \E h \in HandleIds :
       \/ StartsCall(h) \/ AnswersHandle(h) \/ CollectsHandle(h)
       \/ \E as \in {"object", "lent"} : PreparesOwn(h, as)
       \/ \E as \in {"object", "passed"} : PreparesLent(h, as)
  \/ \E o \in TableThings, as \in {"object", "lent"} : PreparesTable(o, as)
  \/ \E o \in TableThings : AnswersTable(o)
  \/ RefusesArgument \/ MakesCall \/ CallRefused \/ AnswersNothing
  \/ \E answer \in SUBSET Things : CalleeReturns(answer)
  \/ \E o \in Things : HostDestroys(o)

-----------------------------------------------------------------------------
\* Who has an object: a handle that owns it, a call's arguments, the host, or
\* nobody any more.
Owners(o) ==
  {<<"handle", h>> : h \in {k \in HandleIds : handle[k] = OfObject(o)}}
  \cup (UNION {{<<"call", i, j>> : j \in {k \in KeptArgs(nest[i].prepared) : nest[i].prepared[k].thing = o}} : i \in DOMAIN nest})
  \cup {<<place>> : place \in {p \in {"host", "destroyed"} : o \in IF p = "host" THEN owned ELSE destroyed}}

\* However calls nest and fail, each object has one owner, or was destroyed: it
\* is never both handed over and given back, nor lost (calling.rs 79-113,
\* runtime.rs 1821-1824).
OwnedOnce == \A o \in HostThings \cup (Made \ {NoThing}) : Cardinality(Owners(o)) = 1

\* The object a method runs on stays in the handle it was called through, and
\* alive, whatever the scripts called meanwhile do with that handle: call_raw
\* uses its table until the method returns (runtime.rs 1798).
CalledStays ==
  \A i \in DOMAIN nest : nest[i].is = "running" =>
    handle[nest[i].me].thing = nest[i].target /\ nest[i].target \notin destroyed

\* A lent handle reaches its object only during the call it was lent to, while
\* who lent it still has it: the host, or a call that began before
\* (runtime.rs 1412-1425).
LentStays ==
  \A h \in HandleIds : handle[h].held = "lent" /\ handle[h].thing # NoThing =>
    \E i \in DOMAIN nest :
      /\ h \in nest[i].lent
      /\ \/ handle[h].thing \in owned
         \/ \E j \in 1 .. i - 1 : nest[j].is = "running" /\ handle[h].thing \in ThingsAs({"lent"}, nest[j].prepared)

\* The handle an argument was taken out of waits empty and unused for it, so
\* what a call was only lent, or was never made with, is never destroyed for
\* want of a place (calling.rs 173-178, calls.rs 421-429).
HomeIsFree ==
  \A i \in DOMAIN nest : \A j \in KeptArgs(nest[i].prepared) :
    LET home == nest[i].prepared[j].home
    IN home # NoHome => handle[home] = OfObject(NoThing) /\ ~Borrowed(home)

\* Objects that cross to scripts and back are owned, used and given back as
\* they should.
HandingIsSound == OwnedOnce /\ CalledStays /\ LentStays /\ HomeIsFree
=============================================================================
