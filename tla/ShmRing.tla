------------------------------ MODULE ShmRing ------------------------------
(***************************************************************************)
(* One direction of the shared-memory transport (transport/shm.rs): a byte *)
(* ring with one writer and one reader in different processes, and the     *)
(* local connection beside it (the bell) that wakes a sleeping reader and  *)
(* carries the peer's end.                                                 *)
(*                                                                         *)
(* Each atomic access of a shared counter is one action; so is each copy.  *)
(* The accesses interleave: on each side a SeqCst fence stands between the *)
(* store the other side looks for and the look at the other side's store   *)
(* (HEAD then SLEEPING, SLEEPING then HEAD), and the one store without a   *)
(* fence behind it, TAIL, only makes the writer see its room late.         *)
(* Counters are u64 that wrap: they are kept modulo Wrap, a multiple of    *)
(* Ring as 2^64 is of RING.                                                *)
(***************************************************************************)
EXTENDS Naturals, Sequences

CONSTANTS
  Byte,
  Ring,     \* RING, the bytes the ring holds
  Laps,     \* how many times the ring goes into the counters' range
  Stalls,   \* whether a write has a bound on its wait for room (RingWriter.stall)
  MaxPart,  \* bound: the most bytes one write or one read asks for
  MaxLate   \* bound: how many waits on the bell end at the read bound

Wrap == Ring * Laps

ASSUME RingAssumption ==
  /\ Ring \in Nat \ {0}
  /\ Laps \in Nat \ {0, 1}
  /\ Stalls \in BOOLEAN
  /\ MaxPart \in Nat \ {0}
  /\ MaxLate \in Nat

VARIABLES
  ring,     \* the ring's bytes
  head,     \* HEAD, stored by the writer
  tail,     \* TAIL, stored by the reader
  sleeping, \* SLEEPING
  bell,     \* wake-up bytes on the local connection
  shut,     \* the local connection has been shut down, by either side
  gone,     \* the writing side's `gone`
  w,        \* where RingWriter::write_vectored is
  parts,    \* the bytes the write was given
  n,        \* how many of them it copies
  r,        \* where RingReader::read is
  seen,     \* `head` as the read last loaded it
  out,      \* the bytes the last read copied out
  late      \* how many waits on the bell ended at the read bound

vars == <<ring, head, tail, sleeping, bell, shut, gone, w, parts, n, r, seen, out, late>>
writer == <<ring, head, w, parts, n>>
reader == <<tail, r, seen, out, late>>

WriterStates ==
  { "idle",    \* between writes
    "room",    \* waiting for room
    "copy", "publish",
    "look",    \* published; to look at SLEEPING
    "swap",    \* saw SLEEPING set; to swap it
    "ring",    \* swapped it; to write to the bell
    "failed",  \* the write failed
    "invalid" }\* refused the counters

ReaderStates ==
  { "poll",
    "doze",    \* found nothing and SPIN is over; to mark itself asleep
    "look",    \* marked asleep; a last look at HEAD
    "wake",    \* the last look found bytes; to swap SLEEPING back
    "await",   \* the writer had cleared SLEEPING: its byte is on the way
    "wait",    \* asleep on the bell
    "ending",  \* the bell ended; to look at HEAD
    "take", "store",
    "ended",   \* the read failed with the bell's end
    "invalid" }\* refused the counters

Min(a, b) == IF a < b THEN a ELSE b

\* `wrapping_add` and `wrapping_sub`.
Plus(at, k) == (at + k) % Wrap

\* Ring::held.
Held(h, t) == (h + Wrap - t) % Wrap

Init ==
  /\ ring \in [0 .. Ring - 1 -> Byte]
  /\ head = 0
  /\ tail = 0
  /\ sleeping = FALSE
  /\ bell = 0
  /\ shut = FALSE
  /\ gone = FALSE
  /\ w = "idle"
  /\ parts = <<>>
  /\ n = 0
  /\ r = "poll"
  /\ seen = 0
  /\ out = <<>>
  /\ late = 0

-----------------------------------------------------------------------------
(* RingWriter::write_vectored.                                             *)

\* A write of some bytes begins.
Write ==
  /\ w = "idle"
  /\ \E total \in 1 .. MaxPart : parts' \in [1 .. total -> Byte]
  /\ w' = "room"
  /\ UNCHANGED <<ring, head, n, sleeping, bell, shut, gone, reader>>

\* Mutant of FindRoom: the room is taken as one byte more.
FindRoomMutant ==
  /\ w = "room"
  /\ n' = Min(Ring + 1 - Held(head, tail), Len(parts))
  /\ w' = "copy"
  /\ UNCHANGED <<ring, head, parts, sleeping, bell, shut, gone, reader>>

\* Loads TAIL and finds room: as many bytes are copied as fit.
FindRoom ==
  /\ w = "room"
  /\ IF Held(head, tail) > Ring
       THEN w' = "invalid" /\ UNCHANGED n
       ELSE /\ Held(head, tail) < Ring
            /\ n' = Min(Ring - Held(head, tail), Len(parts))
            /\ w' = "copy"
  /\ UNCHANGED <<ring, head, parts, sleeping, bell, shut, gone, reader>>

\* Mutant of GiveUp: a writer without a stall bound never stops waiting.
GiveUpMutant ==
  /\ w = "room"
  /\ Held(head, tail) = Ring
  /\ Stalls
  /\ w' = "failed"
  /\ UNCHANGED <<ring, head, parts, n, sleeping, bell, shut, gone, reader>>

\* The ring is full and either the peer is gone or the stall bound passed.
GiveUp ==
  /\ w = "room"
  /\ Held(head, tail) = Ring
  /\ gone \/ Stalls
  /\ w' = "failed"
  /\ UNCHANGED <<ring, head, parts, n, sleeping, bell, shut, gone, reader>>

\* Mutant of CopyIn: what does not fit before the ring's end goes nowhere.
CopyInMutant ==
  /\ w = "copy"
  /\ ring' = [c \in 0 .. Ring - 1 |->
                IF c >= (head % Ring) /\ c < (head % Ring) + n
                  THEN parts[c - (head % Ring) + 1]
                  ELSE ring[c]]
  /\ w' = "publish"
  /\ UNCHANGED <<head, parts, n, sleeping, bell, shut, gone, reader>>

\* Ring::copy_in, in two spans when the ring's end is in the way.
CopyIn ==
  LET at == head % Ring
      first == Min(n, Ring - at)
  IN
  /\ w = "copy"
  /\ ring' = [c \in 0 .. Ring - 1 |->
                IF at <= c /\ c < at + first THEN parts[c - at + 1]
                ELSE IF c < n - first THEN parts[first + c + 1]
                ELSE ring[c]]
  /\ w' = "publish"
  /\ UNCHANGED <<head, parts, n, sleeping, bell, shut, gone, reader>>

\* Mutant of Publish: the counter does not wrap.
PublishMutant ==
  /\ w = "publish"
  /\ head' = head + n
  /\ w' = "look"
  /\ UNCHANGED <<ring, parts, n, sleeping, bell, shut, gone, reader>>

\* Stores HEAD.
Publish ==
  /\ w = "publish"
  /\ head' = Plus(head, n)
  /\ w' = "look"
  /\ UNCHANGED <<ring, parts, n, sleeping, bell, shut, gone, reader>>

\* Behind the fence: loads SLEEPING.
Look ==
  /\ w = "look"
  /\ w' = IF sleeping THEN "swap" ELSE "idle"
  /\ UNCHANGED <<ring, head, parts, n, sleeping, bell, shut, gone, reader>>

\* Mutant of Swap: the flag is stored back without looking at what it was.
SwapMutant ==
  /\ w = "swap"
  /\ w' = "ring"
  /\ sleeping' = FALSE
  /\ UNCHANGED <<ring, head, parts, n, bell, shut, gone, reader>>

\* Swaps SLEEPING back; the reader may have swapped it first.
Swap ==
  /\ w = "swap"
  /\ w' = IF sleeping THEN "ring" ELSE "idle"
  /\ sleeping' = FALSE
  /\ UNCHANGED <<ring, head, parts, n, bell, shut, gone, reader>>

\* Writes the wake-up, which fails on a bell that has ended.
RingBell ==
  /\ w = "ring"
  /\ w' = IF shut THEN "failed" ELSE "idle"
  /\ bell' = IF shut THEN bell ELSE bell + 1
  /\ UNCHANGED <<ring, head, parts, n, sleeping, shut, gone, reader>>

-----------------------------------------------------------------------------
(* RingReader::read.                                                       *)

\* Loads HEAD and finds bytes.
Poll ==
  /\ r = "poll"
  /\ head # tail
  /\ seen' = head
  /\ r' = "take"
  /\ UNCHANGED <<writer, sleeping, bell, shut, gone, tail, out, late>>

\* Loads HEAD, finds nothing, and SPIN is over.  (A load that finds nothing
\* before that changes nothing.)
SpinOver ==
  /\ r = "poll"
  /\ head = tail
  /\ r' = "doze"
  /\ UNCHANGED <<writer, sleeping, bell, shut, gone, tail, seen, out, late>>

\* Mutant of MarkAsleep: no last look behind the flag.
MarkAsleepMutant ==
  /\ r = "doze"
  /\ sleeping' = TRUE
  /\ r' = "wait"
  /\ UNCHANGED <<writer, bell, shut, gone, tail, seen, out, late>>

\* Stores SLEEPING.  HEAD was loaded before: bytes may be there by now.
MarkAsleep ==
  /\ r = "doze"
  /\ sleeping' = TRUE
  /\ r' = "look"
  /\ UNCHANGED <<writer, bell, shut, gone, tail, seen, out, late>>

\* Behind the fence: the last look at HEAD.
LastLook ==
  /\ r = "look"
  /\ r' = IF head # tail THEN "wake" ELSE "wait"
  /\ seen' = IF head # tail THEN head ELSE seen
  /\ UNCHANGED <<writer, sleeping, bell, shut, gone, tail, out, late>>

\* Mutant of Wake: waits for a byte though the flag was still set.
WakeMutant ==
  /\ r = "wake"
  /\ r' = "await"
  /\ sleeping' = FALSE
  /\ UNCHANGED <<writer, bell, shut, gone, tail, seen, out, late>>

\* The last look found bytes: swaps SLEEPING back.
Wake ==
  /\ r = "wake"
  /\ r' = IF sleeping THEN "take" ELSE "await"
  /\ sleeping' = FALSE
  /\ UNCHANGED <<writer, bell, shut, gone, tail, seen, out, late>>

\* wait_bell returns with a byte.
Hear ==
  /\ r \in {"await", "wait"}
  /\ bell > 0
  /\ bell' = bell - 1
  /\ r' = IF r = "await" THEN "take" ELSE "poll"
  /\ UNCHANGED <<writer, sleeping, shut, gone, tail, seen, out, late>>

\* wait_bell fails: the bell has ended behind its last byte.
HearEnd ==
  /\ r \in {"await", "wait"}
  /\ bell = 0
  /\ shut
  /\ r' = IF r = "await" THEN "take" ELSE "ending"
  /\ UNCHANGED <<writer, sleeping, bell, shut, gone, tail, seen, out, late>>

\* wait_bell fails at the handshake's read bound.
TimesOut ==
  /\ r \in {"await", "wait"}
  /\ late < MaxLate
  /\ late' = late + 1
  /\ r' = IF r = "await" THEN "take" ELSE "ending"
  /\ UNCHANGED <<writer, sleeping, bell, shut, gone, tail, seen, out>>

\* Mutant of FinalLook: the bell's end ends the read at once.
FinalLookMutant ==
  /\ r = "ending"
  /\ r' = "ended"
  /\ UNCHANGED <<writer, sleeping, bell, shut, gone, tail, seen, out, late>>

\* Loads HEAD once more: what was published before the end is read first.
FinalLook ==
  /\ r = "ending"
  /\ r' = IF head # tail THEN "take" ELSE "ended"
  /\ seen' = IF head # tail THEN head ELSE seen
  /\ UNCHANGED <<writer, sleeping, bell, shut, gone, tail, out, late>>

\* Ring::copy_out of as many bytes as the caller's buffer takes, in two
\* spans when the ring's end is in the way.
CopyOut ==
  /\ r = "take"
  /\ IF Held(seen, tail) > Ring
       THEN r' = "invalid" /\ UNCHANGED out
       ELSE /\ \E room \in 1 .. MaxPart :
                 LET size == Min(Held(seen, tail), room)
                     at == tail % Ring
                     first == Min(size, Ring - at)
                 IN out' = [i \in 1 .. size |->
                              IF i <= first THEN ring[at + i - 1] ELSE ring[i - first - 1]]
            /\ r' = "store"
  /\ UNCHANGED <<writer, sleeping, bell, shut, gone, tail, seen, late>>

\* Stores TAIL: the bytes' room is the writer's again.
StoreTail ==
  /\ r = "store"
  /\ tail' = Plus(tail, Len(out))
  /\ r' = "poll"
  /\ UNCHANGED <<writer, sleeping, bell, shut, gone, seen, out, late>>

-----------------------------------------------------------------------------
(* The connection's closer, on either side, and what the writing side's    *)
(* own reader learns from the bell.                                        *)

CloseHere ==
  /\ shut' = TRUE
  /\ gone' = TRUE
  /\ UNCHANGED <<writer, sleeping, bell, reader>>

CloseThere ==
  /\ shut' = TRUE
  /\ UNCHANGED <<writer, sleeping, bell, gone, reader>>

\* The bell ends, or its read fails with nothing shut.
SeeGone ==
  /\ gone' = TRUE
  /\ UNCHANGED <<writer, sleeping, bell, shut, reader>>

-----------------------------------------------------------------------------
Writing == FindRoom \/ GiveUp \/ CopyIn \/ Publish \/ Look \/ Swap \/ RingBell

Reading ==
  \/ Poll \/ SpinOver \/ MarkAsleep \/ LastLook \/ Wake
  \/ Hear \/ HearEnd \/ FinalLook \/ CopyOut \/ StoreTail

Next == Write \/ Writing \/ Reading \/ TimesOut \/ CloseHere \/ CloseThere \/ SeeGone

\* A write that has begun and the link's reader thread go on; a reader whose
\* read failed closes the connection; the writing side's own reader thread,
\* which waits on the same bell, sees its end.
Fairness ==
  /\ WF_vars(Writing)
  /\ WF_vars(Reading)
  /\ WF_vars(r = "ended" /\ CloseThere)
  /\ WF_vars(shut /\ SeeGone)

Spec == Init /\ [][Next]_vars /\ Fairness

-----------------------------------------------------------------------------
(* Properties.                                                             *)

TypeOK ==
  /\ ring \in [0 .. Ring - 1 -> Byte]
  /\ head \in 0 .. Wrap - 1
  /\ tail \in 0 .. Wrap - 1
  /\ sleeping \in BOOLEAN
  /\ bell \in Nat
  /\ shut \in BOOLEAN
  /\ gone \in BOOLEAN
  /\ w \in WriterStates
  /\ parts \in Seq(Byte)
  /\ n \in 0 .. Ring
  /\ r \in ReaderStates
  /\ seen \in 0 .. Wrap - 1
  /\ out \in Seq(Byte)
  /\ late \in 0 .. MaxLate

\* Two sides that keep to the protocol never refuse each other's counters,
\* wherever in their range the counters are when one of them wraps.
NeverRefused == w # "invalid" /\ r # "invalid"

\* No lost wake-up: a reader asleep with bytes in its ring has a wake-up on
\* the bell, or the writer is still to look at the flag or to ring, or the
\* bell has ended and that wakes it.
NoLostWakeUp ==
  r = "wait" /\ head # tail => bell > 0 \/ w \in {"look", "swap", "ring"} \/ shut

\* The reader that finds its flag cleared waits for a byte that does come.
AwaitedByteComes == r = "await" => bell > 0 \/ w = "ring" \/ shut

\* Wake-ups do not pile up on the bell, so ringing it never blocks the
\* writer: at most the one the reader waits for, and one per wait that ended
\* at the read bound.
BellBounded == bell <= 1 + late

\* The bytes published and not yet copied out.
Taken == IF r = "store" THEN Plus(tail, Len(out)) ELSE tail

Transit == [i \in 1 .. Held(head, Taken) |-> ring[Plus(Taken, i - 1) % Ring]]

Asked == IF w \in {"room", "copy", "publish"} THEN parts ELSE <<>>

S == INSTANCE ByteStream WITH Capacity <- Ring, asked <- Asked,
                              transit <- Transit, ended <- r = "ended"

\* The ring is a bounded pipe: every byte comes out once and in order, across
\* the ring's end and the counters' wrap, and no read ends before the bytes
\* published by then (a GOODBYE as the link closes) are read.
IsByteStream == S!Spec

\* Bytes in the ring are read, whether the reader polls, dozes off as they
\* are published, sleeps, or hears the bell end.
PublishedIsRead == head # tail /\ r # "ended" ~> r = "store"

\* A writer waiting for room finds some or learns that the peer is gone.
WriterGoesOn == w = "room" ~> w # "room"

\* The ring's counters are accepted at both ends, and its bell wakes a reader
\* that sleeps over bytes without ever filling.
RingIsSound == TypeOK /\ NeverRefused /\ NoLostWakeUp /\ AwaitedByteComes /\ BellBounded

\* Neither side is left waiting for the other.
RingGoesOn == PublishedIsRead /\ WriterGoesOn
=============================================================================
