------------------------------ MODULE Buffers -------------------------------
(***************************************************************************)
(* The large buffers a link keeps (link/buffers.rs), given and taken by    *)
(* the threads that run its calls and handed over by its reader, while the *)
(* link goes idle (release) or ends (close).                               *)
(*                                                                         *)
(* A buffer is its capacity, KEEP_FROM or more.  `kept` and `parked` have  *)
(* a lock each; `count` is read without one.  How its threads wait follows *)
(* at the end.                                                             *)
(***************************************************************************)
EXTENDS Naturals, Sequences, SequencesExt, FiniteSets

CONSTANTS
  Users,         \* threads that give and take
  Sizes,         \* capacities of the buffers given
  KEEP_AT_MOST,
  MaxGiven       \* bound: how many buffers are given

ASSUME BuffersAssumption == Sizes \subseteq Nat /\ KEEP_AT_MOST \in Nat

VARIABLES
  keptBufs,   \* Kept.buffers
  keptBytes,  \* Kept.bytes
  keptClosed, \* Kept.closed
  keptCount,  \* Buffers.count
  parked,     \* Buffers.parked: a capacity, 0 for none
  parkLock,   \* the reader is in hand_over with `parked` locked
  user,       \* each thread's take: "idle", or "take" past its look at the count
  handing,    \* the reader's hand_over: "idle", "take" or "park"
  emptying,   \* release and close: "idle", or which of them and how far it is
  given       \* how many buffers were given

bufvars == <<keptBufs, keptBytes, keptClosed, keptCount, parked, parkLock, user, handing,
             emptying, given>>

BuffersInit ==
  /\ keptBufs = <<>>
  /\ keptBytes = 0
  /\ keptClosed = FALSE
  /\ keptCount = 0
  /\ parked = 0
  /\ parkLock = FALSE
  /\ user = [u \in Users |-> "idle"]
  /\ handing = "idle"
  /\ emptying = "idle"
  /\ given = 0

-----------------------------------------------------------------------------
\* take, past its look at the count, under the lock: the last one kept.
Popped ==
  IF keptBufs = <<>> THEN UNCHANGED <<keptBufs, keptBytes, keptCount>>
  ELSE /\ keptBufs' = Front(keptBufs)
       /\ keptBytes' = keptBytes - Last(keptBufs)
       /\ keptCount' = Len(keptBufs) - 1

TakeLooks(u) ==
  /\ user[u] = "idle" /\ keptCount > 0
  /\ user' = [user EXCEPT ![u] = "take"]
  /\ UNCHANGED <<keptBufs, keptBytes, keptClosed, keptCount, parked, parkLock, handing, emptying,
                 given>>

TakesBuffer(u) ==
  /\ user[u] = "take"
  /\ Popped
  /\ user' = [user EXCEPT ![u] = "idle"]
  /\ UNCHANGED <<keptClosed, parked, parkLock, handing, emptying, given>>

\* Mutant of Fits: the buffer itself is not counted.
FitsMutant(size) == ~keptClosed /\ keptBytes <= KEEP_AT_MOST

Fits(size) == ~keptClosed /\ keptBytes + size <= KEEP_AT_MOST

\* give.
Gives(size) ==
  /\ given < MaxGiven
  /\ given' = given + 1
  /\ IF Fits(size)
     THEN /\ keptBufs' = Append(keptBufs, size)
          /\ keptBytes' = keptBytes + size
          /\ keptCount' = Len(keptBufs) + 1
     ELSE UNCHANGED <<keptBufs, keptBytes, keptCount>>
  /\ UNCHANGED <<keptClosed, parked, parkLock, user, handing, emptying>>

-----------------------------------------------------------------------------
(* The reader: room, and hand_over of a large frame.                       *)

RoomTakes ==
  /\ handing = "idle" /\ ~parkLock /\ parked # 0
  /\ parked' = 0
  /\ UNCHANGED <<keptBufs, keptBytes, keptClosed, keptCount, parkLock, user, handing, emptying,
                 given>>

HandsOver ==
  /\ handing = "idle" /\ ~parkLock
  /\ parked = 0
  /\ parkLock' = TRUE
  /\ handing' = IF keptCount = 0 THEN "park" ELSE "take"
  /\ UNCHANGED <<keptBufs, keptBytes, keptClosed, keptCount, parked, user, emptying, given>>

HandTakes ==
  /\ handing = "take"
  /\ parked' = IF keptBufs = <<>> THEN 0 ELSE Last(keptBufs)
  /\ Popped
  /\ handing' = "park"
  /\ UNCHANGED <<keptClosed, parkLock, user, emptying, given>>

Parks ==
  /\ handing = "park"
  /\ parkLock' = FALSE
  /\ handing' = "idle"
  /\ UNCHANGED <<keptBufs, keptBytes, keptClosed, keptCount, parked, user, emptying, given>>

-----------------------------------------------------------------------------
(* release, of a link gone idle, and close, of one that ended: what is     *)
(* kept goes first, then what is parked.                                   *)

\* Mutant of Order: the parked one goes first.
OrderMutant == <<"parked", "kept">>

Order == <<"kept", "parked">>

Empties(how) ==
  /\ emptying = "idle" /\ (how = "release" => ~keptClosed)
  /\ emptying' = how
  /\ UNCHANGED <<keptBufs, keptBytes, keptClosed, keptCount, parked, parkLock, user, handing,
                 given>>

DropsKept(i) ==
  /\ Order[i] = "kept"
  /\ keptBufs' = <<>>
  /\ keptBytes' = 0
  /\ keptCount' = 0
  /\ keptClosed' = (keptClosed \/ emptying \in {"close", "close 2"})
  /\ UNCHANGED parked

DropsParked(i) ==
  /\ Order[i] = "parked"
  /\ ~parkLock
  /\ parked' = 0
  /\ UNCHANGED <<keptBufs, keptBytes, keptCount, keptClosed>>

EmptiesFirst ==
  /\ emptying \in {"release", "close"}
  /\ DropsKept(1) \/ DropsParked(1)
  /\ emptying' = IF emptying = "close" THEN "close 2" ELSE "release 2"
  /\ UNCHANGED <<parkLock, user, handing, given>>

EmptiesSecond ==
  /\ emptying \in {"release 2", "close 2"}
  /\ DropsKept(2) \/ DropsParked(2)
  /\ emptying' = "idle"
  /\ UNCHANGED <<parkLock, user, handing, given>>

BuffersNext ==
  \/ \E u \in Users : TakeLooks(u) \/ TakesBuffer(u)
  \/ \E size \in Sizes : Gives(size)
  \/ RoomTakes
  \/ HandsOver
  \/ HandTakes
  \/ Parks
  \/ \E how \in {"release", "close"} : Empties(how)
  \/ EmptiesFirst
  \/ EmptiesSecond

-----------------------------------------------------------------------------
(* Properties of buffers.                                                  *)

SumOf(f, n) == LET g[i \in 0 .. n] == IF i = 0 THEN 0 ELSE f[i] + g[i - 1] IN g[n]

\* The bytes counted are those kept and stay within the most, and the count
\* read without the lock is the number kept (buffers.rs:33-39, 70-80).
BytesAreExact ==
  /\ keptBytes = SumOf(keptBufs, Len(keptBufs))
  /\ keptBytes <= KEEP_AT_MOST
  /\ keptCount = Len(keptBufs)

\* A link that ended holds no buffer, parked ones included, however its close
\* fell in with its reader and its calls (buffers.rs:97-108).
ClosedHoldsNothing ==
  (keptClosed /\ emptying = "idle") => keptBufs = <<>> /\ parked = 0

\* Buffers are counted while the link lasts and gone after it.
BuffersAreCounted == BytesAreExact /\ ClosedHoldsNothing

-----------------------------------------------------------------------------
(***************************************************************************)
(* How long a waiting thread polls before it sleeps (link/waiting.rs):     *)
(* threads count themselves as polling with an atomic add and take it back *)
(* past the number of cores, and each wait seen moves the typical one.     *)
(* Times are nanoseconds, small here; the cap and the first are in scale.  *)
(***************************************************************************)
CONSTANTS
  Waiters,   \* threads that wait
  Cores,     \* available_parallelism
  CAP,       \* Waiting.cap
  FIRST,     \* the typical wait a link starts from
  Waited     \* how long waits last

ASSUME WaitingAssumption == IsFiniteSet(Waiters) /\ Cores \in Nat

VARIABLES
  typical,   \* Waiting.typical
  polling,   \* Waiting.polling
  waiter     \* each thread: "idle", "add", "back", "polls" or "sleeps"

waitvars == <<typical, polling, waiter>>

WaitingInit ==
  /\ typical = FIRST
  /\ polling = 0
  /\ waiter = [w \in Waiters |-> "idle"]

Least(a, b) == IF a < b THEN a ELSE b

Past == typical + typical \div 2

\* poll: nothing when polling would not pay, else counted.
PollAsks(w) ==
  /\ waiter[w] = "idle"
  /\ waiter' = [waiter EXCEPT ![w] = IF Past > CAP \/ CAP = 0 THEN "sleeps" ELSE "add"]
  /\ UNCHANGED <<typical, polling>>

\* Mutant of Crowded: as many as there are cores may poll, and one more.
CrowdedMutant == polling > Cores

Crowded == polling >= Cores

\* fetch_add: past the cores it is taken back, in a step of its own.
PollAdds(w) ==
  /\ waiter[w] = "add"
  /\ waiter' = [waiter EXCEPT ![w] = IF Crowded THEN "back" ELSE "polls"]
  /\ polling' = polling + 1
  /\ UNCHANGED typical

PollTakesBack(w) ==
  /\ waiter[w] = "back"
  /\ waiter' = [waiter EXCEPT ![w] = "sleeps"]
  /\ polling' = polling - 1
  /\ UNCHANGED typical

\* saw: a shorter wait is followed quickly, a longer one slowly.
Followed(s) ==
  LET next == IF s < typical THEN typical - (typical - s) \div 4
              ELSE typical + (Least(s, 4 * typical) - typical) \div 16
  IN IF next > 1 THEN next ELSE 1

\* A polling that ended or a sleep that was woken: how long it was is noted.
WaitEnds(w, s) ==
  /\ waiter[w] \in {"polls", "sleeps"}
  /\ polling' = IF waiter[w] = "polls" THEN polling - 1 ELSE polling
  /\ typical' = Followed(s)
  /\ waiter' = [waiter EXCEPT ![w] = "idle"]

WaitingNext ==
  \E w \in Waiters :
    \/ PollAsks(w)
    \/ PollAdds(w)
    \/ PollTakesBack(w)
    \/ \E s \in Waited : WaitEnds(w, s)

-----------------------------------------------------------------------------
(* Properties of waiting.                                                  *)

\* No more threads poll than there are cores, whatever the counter passes
\* through, and the counter is the threads counted (waiting.rs:60-66).
PollersBounded ==
  /\ Cardinality({w \in Waiters : waiter[w] = "polls"}) <= Cores
  /\ polling = Cardinality({w \in Waiters : waiter[w] \in {"polls", "back"}})

\* What the threads of a link share is bounded: the bytes of spare buffers, and
\* the waiters that spin.
SharedIsBounded == BuffersAreCounted /\ PollersBounded
=============================================================================
