---------------------------- MODULE ObjectGuard ----------------------------
(***************************************************************************)
(* The lock of an object held for the peer (link/mod.rs: enter,            *)
(* call_export, the guards of call_inner, take_export).  An inbound call   *)
(* enters the objects lent back to this side, then its target; `inside`    *)
(* says which thread is in an object, so that a call the object makes on   *)
(* itself, which comes back on the same thread, is refused instead of      *)
(* waiting for itself.                                                     *)
(*                                                                         *)
(* A thread has a stack of calls: one at its bottom, and those that run    *)
(* while it waits for an answer.  `inside` has a lock of its own, taken    *)
(* for one read or one write, and so each is a step.                       *)
(***************************************************************************)
EXTENDS Naturals, Sequences, SequencesExt

CONSTANTS
  PoolThreads,  \* threads that run inbound calls
  Objects,      \* objects held for the peer
  Calls,        \* records: `lent`, a sequence of objects, and `target`, of at most one
  MaxDepth,     \* bound: calls on one thread's stack
  Nobody

ASSUME GuardAssumption ==
  /\ Nobody \notin PoolThreads
  /\ \A c \in Calls : c.lent \in Seq(Objects) /\ c.target \in Seq(Objects) /\ Len(c.target) <= 1

VARIABLES
  owner,    \* who holds each object's lock
  inside,   \* Export::Owned.inside
  present,  \* the objects not taken out by take_export
  stack,    \* each thread's calls
  cleared,  \* history: objects whose mark another thread's leaving took away
  marked    \* history: for each thread, objects whose mark an early return left

ovars == <<owner, inside, present, stack, cleared, marked>>

GuardInit ==
  /\ owner = [o \in Objects |-> Nobody]
  /\ inside = [o \in Objects |-> Nobody]
  /\ present = Objects
  /\ stack = [t \in PoolThreads |-> <<>>]
  /\ cleared = {}
  /\ marked = [t \in PoolThreads |-> {}]

-----------------------------------------------------------------------------
Top(t) == Last(stack[t])
With(t, call) == [stack EXCEPT ![t] = Append(Front(@), call)]
At(t, pc) == stack[t] # <<>> /\ Top(t).pc = pc

\* The objects a call enters, in their order, and leaves, in theirs.
Enters(c) == c.lent \o c.target
Leaves(c) == c.target \o c.lent
Awaited(c) == Enters(c)[c.i]

\* A call comes in: to an idle thread, or to one that waits inside a call.
Begin(t, c) ==
  /\ stack[t] = <<>> \/ (At(t, "run") /\ Len(stack[t]) < MaxDepth)
  /\ \A o \in ToSet(Enters(c)) : o \in present
  /\ stack' = [stack EXCEPT ![t] = Append(@, [lent |-> c.lent, target |-> c.target,
                 i |-> 1, pc |-> IF Enters(c) = <<>> THEN "run" ELSE "check"])]
  /\ UNCHANGED <<owner, inside, present, cleared, marked>>

\* The locks a call gives up as it returns early: their marks stay.
GivesUp(t, n) ==
  LET kept == {Top(t).lent[j] : j \in 1 .. n} IN
  /\ owner' = [o \in Objects |-> IF o \in kept THEN Nobody ELSE owner[o]]
  /\ marked' = [marked EXCEPT ![t] = @ \cup kept]
  /\ stack' = [stack EXCEPT ![t] = Front(@)]

\* enter, its check: a thread inside the object is refused.  A refusal of a
\* lent object returns at once, one of the target after the others are left.
Refuses(t) ==
  /\ At(t, "check")
  /\ inside[Awaited(Top(t))] = t
  /\ IF Top(t).i > Len(Top(t).lent)
     THEN /\ stack' = With(t, [Top(t) EXCEPT !.pc = "drop", !.i = 2])
          /\ UNCHANGED <<owner, marked>>
     ELSE GivesUp(t, Top(t).i - 1)
  /\ UNCHANGED <<inside, present, cleared>>

\* Mutant of Passes: the check is left out.
PassesMutant(t) == TRUE

Passes(t) == inside[Awaited(Top(t))] # t

Checks(t) ==
  /\ At(t, "check")
  /\ Passes(t)
  /\ stack' = With(t, [Top(t) EXCEPT !.pc = "lock"])
  /\ UNCHANGED <<owner, inside, present, cleared, marked>>

\* enter, the lock.
Locks(t) ==
  /\ At(t, "lock")
  /\ owner[Awaited(Top(t))] = Nobody
  /\ owner' = [owner EXCEPT ![Awaited(Top(t))] = t]
  /\ stack' = With(t, [Top(t) EXCEPT !.pc = "mark"])
  /\ UNCHANGED <<inside, present, cleared, marked>>

\* enter, the mark; then the next object, the arguments, or the call.
Marks(t) ==
  /\ At(t, "mark")
  /\ LET c == Top(t) IN
       /\ inside' = [inside EXCEPT ![Awaited(c)] = t]
       /\ cleared' = cleared \ {Awaited(c)}
       /\ marked' = [u \in PoolThreads |-> marked[u] \ {Awaited(c)}]
       /\ stack' = With(t, [c EXCEPT !.i = @ + 1,
                              !.pc = IF c.i = Len(c.lent) THEN "args"
                                     ELSE IF c.i < Len(Enters(c)) THEN "check" ELSE "run"])
  /\ UNCHANGED <<owner, present>>

\* The arguments: a lent object that was taken out meanwhile returns early.
Argues(t) ==
  /\ At(t, "args")
  /\ IF ToSet(Top(t).lent) \subseteq present
     THEN /\ stack' = With(t, [Top(t) EXCEPT !.pc = IF Top(t).target # <<>>
                                                    THEN "check" ELSE "run"])
          /\ UNCHANGED <<owner, marked>>
     ELSE GivesUp(t, Len(Top(t).lent))
  /\ UNCHANGED <<inside, present, cleared>>

\* The call has run: the guards are dropped, the target's first.
Ran(t) ==
  /\ At(t, "run")
  /\ stack' = IF Enters(Top(t)) = <<>> THEN [stack EXCEPT ![t] = Front(@)]
              ELSE With(t, [Top(t) EXCEPT !.pc = "drop", !.i = 1])
  /\ UNCHANGED <<owner, inside, present, cleared, marked>>

\* drop(guard).
Drops(t) ==
  /\ At(t, "drop")
  /\ LET c == Top(t) IN
       IF c.i > Len(Leaves(c))
       THEN /\ stack' = [stack EXCEPT ![t] = Front(@)]
            /\ UNCHANGED owner
       ELSE /\ owner' = [owner EXCEPT ![Leaves(c)[c.i]] = Nobody]
            /\ stack' = With(t, [c EXCEPT !.pc = "clear"])
  /\ UNCHANGED <<inside, present, cleared, marked>>

\* Mutant of Cleared: the mark stays when its object is left.
ClearedMutant(o) == inside[o]

\* *lock(inside) = None.
Cleared(o) == Nobody

Clears(t) ==
  /\ At(t, "clear")
  /\ LET c == Top(t)
         o == Leaves(c)[c.i]
     IN /\ inside' = [inside EXCEPT ![o] = Cleared(o)]
        /\ cleared' = IF owner[o] \notin {t, Nobody} THEN cleared \cup {o} ELSE cleared
        /\ marked' = [u \in PoolThreads |-> marked[u] \ {o}]
        /\ stack' = With(t, [c EXCEPT !.pc = "drop", !.i = @ + 1])
  /\ UNCHANGED <<owner, present>>

\* take_export, once the object's lock is free.
Takes(o) ==
  /\ o \in present
  /\ owner[o] = Nobody
  /\ present' = present \ {o}
  /\ UNCHANGED <<owner, inside, stack, cleared, marked>>

GuardNext ==
  \/ \E t \in PoolThreads :
       \/ \E c \in Calls : Begin(t, c)
       \/ Refuses(t) \/ Checks(t) \/ Locks(t) \/ Marks(t) \/ Argues(t) \/ Ran(t) \/ Drops(t)
       \/ Clears(t)
  \/ \E o \in Objects : Takes(o)

-----------------------------------------------------------------------------
(* What must hold.                                                         *)

\* Thread t waits for the lock of an object it holds itself, for ever.
WaitsForItself(t) == At(t, "lock") /\ owner[Awaited(Top(t))] = t

\* A call an object makes on itself is refused and never waits for itself,
\* unless another thread, leaving the object late, took the mark away.
SelfCallRefused ==
  \A t \in PoolThreads : WaitsForItself(t) => Awaited(Top(t)) \in cleared

\* A call is refused as busy only where its thread is inside the object,
\* unless an early return of that thread left its mark there.
BusyIsInside ==
  \A t \in PoolThreads : At(t, "check") =>
    LET o == Awaited(Top(t)) IN
      inside[o] = t => owner[o] = t \/ o \in marked[t]

\* A call that would wait for itself is refused, and no other.
EntryIsGuarded == SelfCallRefused /\ BusyIsInside
=============================================================================
