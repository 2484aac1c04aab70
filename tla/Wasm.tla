-------------------------------- MODULE Wasm --------------------------------
(***************************************************************************)
(* Calls of wasm libraries (guatiao-source-wasm engine.rs): each library   *)
(* is a store behind a lock, called on the caller's thread.  A guest calls *)
(* back into the host, which may call any library and let go of anything   *)
(* there; what is let go of while the library is busy waits in `deferred`. *)
(* A guest that stops takes with it every object it answered.              *)
(*                                                                         *)
(* Objects a slot answered and instances `create` built go the same way    *)
(* and are one here, named by the host's id.  Taking the lock and taking   *)
(* what was deferred are one step.  The guest is external: it calls back,  *)
(* answers or stops as it likes.                                           *)
(***************************************************************************)
EXTENDS Naturals, Sequences, SequencesExt

CONSTANTS
  WasmThreads,
  WasmLibraries,
  MaxAnswered,   \* bound: objects a library answers
  MaxEntries,    \* bound: entries nested on one thread
  Unlocked

ASSUME WasmAssumption == Unlocked \notin WasmThreads /\ MaxAnswered \in [WasmLibraries -> Nat]

VARIABLES
  locked,      \* who holds each WasmLibrary.slot
  poisoned,    \* a thread panicked while it held it
  store,       \* Slot.live is some
  answers,     \* Slot.next_object
  ids,         \* Slot.objects: the ids the host has for the guest's objects
  guest,       \* the objects the guest of the current store has, by those ids
  heldIds,     \* the objects somebody in the host still holds
  lateGone,    \* WasmLibrary.deferred
  entries,     \* each thread's entries, innermost last
  lostIds      \* history: objects of a guest that stopped

wasmvars == <<locked, poisoned, store, answers, ids, guest, heldIds, lateGone, entries, lostIds>>

WasmInit ==
  /\ locked = [l \in WasmLibraries |-> Unlocked]
  /\ poisoned = [l \in WasmLibraries |-> FALSE]
  /\ store = [l \in WasmLibraries |-> TRUE]
  /\ answers = [l \in WasmLibraries |-> 0]
  /\ ids = [l \in WasmLibraries |-> {}]
  /\ guest = [l \in WasmLibraries |-> {}]
  /\ heldIds = [l \in WasmLibraries |-> {}]
  /\ lateGone = [l \in WasmLibraries |-> <<>>]
  /\ entries = [t \in WasmThreads |-> <<>>]
  /\ lostIds = [l \in WasmLibraries |-> {}]

-----------------------------------------------------------------------------
Entry(t) == Last(entries[t])
EntryIs(t, pc) == entries[t] # <<>> /\ Entry(t).pc = pc
Moves(t, e) == entries' = [entries EXCEPT ![t] = Append(Front(@), e)]

\* INSIDE: the thread is inside a library's call.
InsideOne(t) == \E i \in DOMAIN entries[t] : entries[t][i].pc \in {"settle", "told", "guest"}

\* Mutant of Discarded: the ids stay.
DiscardedMutant(l) == ids[l]

\* Slot::discard: what the host knows of the guest goes with its store.
Discarded(l) == {}

Discard(l) ==
  /\ store' = [store EXCEPT ![l] = FALSE]
  /\ ids' = [ids EXCEPT ![l] = Discarded(l)]
  /\ guest' = [guest EXCEPT ![l] = {}]

Keeps == UNCHANGED <<store, ids, guest>>

\* The lock is taken; a poisoned one by way of a discard.  A call settles what
\* was deferred first, a release does not.
TakesLock(t, below, e) ==
  LET l == e.lib IN
  /\ locked' = [locked EXCEPT ![l] = t]
  /\ IF poisoned[l] THEN Discard(l) ELSE Keeps
  /\ entries' = [entries EXCEPT ![t] = Append(below, [e EXCEPT !.pc = "settle",
                   !.todo = IF e.calls THEN lateGone[l] ELSE @])]
  /\ lateGone' = IF e.calls THEN [lateGone EXCEPT ![l] = <<>>] ELSE lateGone

\* Mutant of MayNotWait: only a thread inside this library.
MayNotWaitMutant(t, l) == locked[l] = t

\* enter: a thread inside a call is refused rather than made to wait.
MayNotWait(t, l) == InsideOne(t)

\* Mutant of RefusedEntry: what was let go of is forgotten.
RefusedEntryMutant(e) == <<>>

\* A release that is refused is deferred, in a second step; a call answers BUSY.
RefusedEntry(e) == IF e.calls THEN <<>> ELSE <<[e EXCEPT !.pc = "defer"]>>

\* enter's try_lock, from outside or from what the guest calls.
TriesLibrary(t, e) ==
  /\ entries[t] # <<>> => Entry(t).pc \in {"told", "guest"} /\ Len(entries[t]) < MaxEntries
  /\ IF locked[e.lib] = Unlocked
     THEN TakesLock(t, entries[t], e)
     ELSE /\ entries' = [entries EXCEPT ![t] =
                           @ \o (IF MayNotWait(t, e.lib) THEN RefusedEntry(e) ELSE <<e>>)]
          /\ Keeps /\ UNCHANGED <<locked, lateGone>>
  /\ UNCHANGED <<poisoned, answers, lostIds>>

\* call, create or available on a provider (0), or on an object by its id.
CallsWasm(t, l, id) ==
  /\ id = 0 \/ id \in heldIds[l]
  /\ TriesLibrary(t, [lib |-> l, pc |-> "lock", calls |-> TRUE, goal |-> id, todo |-> <<>>])
  /\ UNCHANGED heldIds

\* release or destroy, from the drop of what held the object.
ReleasesWasm(t, l, id) ==
  /\ id \in heldIds[l]
  /\ heldIds' = [heldIds EXCEPT ![l] = @ \ {id}]
  /\ TriesLibrary(t, [lib |-> l, pc |-> "lock", calls |-> FALSE, goal |-> 0, todo |-> <<id>>])

\* A thread that waited for the lock gets it.
GetsLock(t) ==
  /\ EntryIs(t, "lock")
  /\ locked[Entry(t).lib] = Unlocked
  /\ TakesLock(t, Front(entries[t]), Entry(t))
  /\ UNCHANGED <<poisoned, answers, heldIds, lostIds>>

\* let_go_or_defer's push.
Defers(t) ==
  /\ EntryIs(t, "defer")
  /\ lateGone' = [lateGone EXCEPT ![Entry(t).lib] = @ \o Entry(t).todo]
  /\ entries' = [entries EXCEPT ![t] = Front(@)]
  /\ Keeps /\ UNCHANGED <<locked, poisoned, answers, heldIds, lostIds>>

\* let_go, for the next of what was let go of: the guest is told of what it has.
LetsGo(t) ==
  LET e == Entry(t)  l == e.lib  id == Head(e.todo) IN
  /\ EntryIs(t, "settle") /\ e.todo # <<>>
  /\ ids' = [ids EXCEPT ![l] = @ \ {id}]
  /\ IF id \in ids[l] /\ store[l]
     THEN /\ guest' = [guest EXCEPT ![l] = @ \ {id}]
          /\ Moves(t, [e EXCEPT !.pc = "told"])
     ELSE /\ Moves(t, [e EXCEPT !.todo = Tail(@)])
          /\ UNCHANGED guest
  /\ UNCHANGED <<locked, poisoned, store, answers, heldIds, lateGone, lostIds>>

GuestGone(l) == Discard(l) /\ lostIds' = [lostIds EXCEPT ![l] = @ \cup ids[l]]

\* The guest heard, or stopped on it.
WasTold(t, stops) ==
  LET e == Entry(t) IN
  /\ EntryIs(t, "told")
  /\ Moves(t, [e EXCEPT !.pc = "settle", !.todo = Tail(@)])
  /\ IF stops THEN GuestGone(e.lib) ELSE Keeps /\ UNCHANGED lostIds
  /\ UNCHANGED <<locked, poisoned, answers, heldIds, lateGone>>

LeavesLibrary(t) ==
  /\ locked' = [locked EXCEPT ![Entry(t).lib] = Unlocked]
  /\ entries' = [entries EXCEPT ![t] = Front(@)]

\* A release is done; a call goes to the guest, made afresh after a stop, unless
\* its target is gone or the guest does not start.
ReachesGuest(t, starts) ==
  LET e == Entry(t)  l == e.lib IN
  /\ EntryIs(t, "settle") /\ e.todo = <<>>
  /\ IF e.calls /\ e.goal \in ids[l] \cup {0} /\ (store[l] \/ starts)
     THEN /\ Moves(t, [e EXCEPT !.pc = "guest"])
          /\ store' = [store EXCEPT ![l] = TRUE]
          /\ UNCHANGED locked
     ELSE LeavesLibrary(t) /\ UNCHANGED store
  /\ UNCHANGED <<poisoned, answers, ids, guest, heldIds, lateGone, lostIds>>

\* The guest answers nothing, or an object.
Replies(t) ==
  /\ EntryIs(t, "guest")
  /\ LeavesLibrary(t)
  /\ Keeps /\ UNCHANGED <<poisoned, answers, heldIds, lateGone, lostIds>>

RepliesObject(t) ==
  LET l == Entry(t).lib  id == answers[l] + 1 IN
  /\ EntryIs(t, "guest") /\ answers[l] < MaxAnswered[l]
  /\ LeavesLibrary(t)
  /\ answers' = [answers EXCEPT ![l] = id]
  /\ ids' = [ids EXCEPT ![l] = @ \cup {id}]
  /\ guest' = [guest EXCEPT ![l] = @ \cup {id}]
  /\ heldIds' = [heldIds EXCEPT ![l] = @ \cup {id}]
  /\ UNCHANGED <<poisoned, store, lateGone, lostIds>>

\* A trap, a limit, or a panic of the engine itself.
GuestStops(t) ==
  /\ EntryIs(t, "guest")
  /\ LeavesLibrary(t)
  /\ GuestGone(Entry(t).lib)
  /\ UNCHANGED <<poisoned, answers, heldIds, lateGone>>

EnginePanics(t) ==
  /\ EntryIs(t, "guest") \/ EntryIs(t, "told")
  /\ LeavesLibrary(t)
  /\ poisoned' = [poisoned EXCEPT ![Entry(t).lib] = TRUE]
  /\ Keeps /\ UNCHANGED <<answers, heldIds, lateGone, lostIds>>

WasmNext ==
  \E t \in WasmThreads :
    \/ \E l \in WasmLibraries : \E id \in 0 .. MaxAnswered[l] : CallsWasm(t, l, id)
    \/ \E l \in WasmLibraries : \E id \in 1 .. MaxAnswered[l] : ReleasesWasm(t, l, id)
    \/ GetsLock(t)
    \/ Defers(t)
    \/ LetsGo(t)
    \/ \E b \in BOOLEAN : WasTold(t, b) \/ ReachesGuest(t, b)
    \/ Replies(t) \/ RepliesObject(t) \/ GuestStops(t) \/ EnginePanics(t)

-----------------------------------------------------------------------------
(* What must hold.                                                         *)

\* The ids the host has for a guest's objects are the ones the guest of the
\* store it has now answered: a call and a release by id reach the object they
\* name, never one of the store made after a stop (engine.rs:163-181, 394-411).
IdsAreTheGuests == \A l \in WasmLibraries : ids[l] = guest[l] /\ (ids[l] # {} => store[l])

BeingTold(l) ==
  {id \in 1 .. MaxAnswered[l] : \E t \in WasmThreads : \E i \in DOMAIN entries[t] :
     entries[t][i].lib = l /\ id \in ToSet(entries[t][i].todo)}

\* What the host holds it can call, unless its guest stopped; and what nobody
\* holds the guest was told of, or is going to be by the next call
\* (engine.rs:423-433, 577-581).  A panic poisons the lock for good: every entry
\* after it discards, which the code does though no guest stopped.
GoneIsTold ==
  \A l \in WasmLibraries : ~poisoned[l] =>
    /\ heldIds[l] \subseteq ids[l] \cup lostIds[l]
    /\ ids[l] \ heldIds[l] \subseteq ToSet(lateGone[l]) \cup BeingTold(l)

\* A thread that waits for a library waits for one that goes on: what holds the
\* lock waits for no other (engine.rs:201-221).
HolderGoesOn ==
  \A t \in WasmThreads : EntryIs(t, "lock") =>
    LET holder == locked[Entry(t).lib] IN holder = Unlocked \/ ~EntryIs(holder, "lock")

\* A wasm library's objects are reached, and let go of, and its lock never
\* waited for in a circle.
WasmCallsHold == IdsAreTheGuests /\ GoneIsTold /\ HolderGoesOn
=============================================================================
