--------------------------- MODULE ShmRingProofs ---------------------------
(***************************************************************************)
(* The ring of the shared-memory transport (ShmRing), proved sound and a   *)
(* bounded pipe of bytes (ByteStream) for any ring, any counter range and  *)
(* any length of a write or a read.                                        *)
(***************************************************************************)
EXTENDS ShmRing, TLAPS

-----------------------------------------------------------------------------
(* Counters modulo Wrap and cells modulo Ring.                             *)

\* A number is a multiple of the modulus and its remainder.
LEMMA Division ==
  ASSUME NEW m \in Nat \ {0}, NEW a \in Nat
  PROVE  \E q \in Nat : a = m * q + (a % m)
<1>1. a \div m \in Nat
  OBVIOUS
<1>2. a = m * (a \div m) + (a % m)
  BY Z3
<1> QED BY <1>1, <1>2

\* The remainder of a multiple and a number below the modulus is that number.
LEMMA Remainder ==
  ASSUME NEW m \in Nat \ {0}, NEW q \in Nat, NEW c \in 0 .. m - 1
  PROVE  (m * q + c) % m = c
OBVIOUS

\* Whole turns do not change a remainder.
LEMMA WholeTurns ==
  ASSUME NEW m \in Nat \ {0}, NEW k \in Nat, NEW a \in Nat
  PROVE  (a + m * k) % m = a % m
<1>1. PICK q \in Nat : a = m * q + (a % m)
  BY Division
<1>2. a % m \in 0 .. m - 1
  OBVIOUS
<1>3. a + m * k = m * (q + k) + (a % m)
  BY <1>1, <1>2
<1>4. (m * (q + k) + (a % m)) % m = a % m
  <2>1. q + k \in Nat
    OBVIOUS
  <2> QED BY <1>2, <2>1, Remainder
<1> QED BY <1>3, <1>4

\* The counters' range is some whole laps of the ring.
LEMMA WrapFacts == Wrap \in Nat /\ Wrap >= 2 * Ring /\ Wrap > 0
BY RingAssumption DEF Wrap

\* Ring::held of two counters.
LEMMA HeldIs ==
  ASSUME NEW h \in 0 .. Wrap - 1, NEW t \in 0 .. Wrap - 1
  PROVE  Held(h, t) = IF t <= h THEN h - t ELSE h + Wrap - t
BY WrapFacts DEF Held

\* A counter a step of at most a ring on.
LEMMA PlusIs ==
  ASSUME NEW a \in 0 .. Wrap - 1, NEW k \in 0 .. Ring
  PROVE  Plus(a, k) = IF a + k < Wrap THEN a + k ELSE a + k - Wrap
BY WrapFacts, RingAssumption DEF Plus

\* The cell some bytes on from a counter: past the ring's end it is at the
\* ring's start.
LEMMA CellIs ==
  ASSUME NEW a \in Nat, NEW k \in 0 .. Ring - 1
  PROVE  (a + k) % Ring = IF (a % Ring) + k < Ring THEN (a % Ring) + k
                                                  ELSE (a % Ring) + k - Ring
<1>1. PICK q \in Nat : a = Ring * q + (a % Ring)
  BY Division, RingAssumption
<1>2. a % Ring \in 0 .. Ring - 1
  BY RingAssumption
<1>3. CASE (a % Ring) + k < Ring
  <2>1. a + k = Ring * q + ((a % Ring) + k)
    BY <1>1, <1>2, RingAssumption
  <2>2. (a % Ring) + k \in 0 .. Ring - 1
    BY <1>2, <1>3, RingAssumption
  <2>3. (Ring * q + ((a % Ring) + k)) % Ring = (a % Ring) + k
    BY <2>2, Remainder, RingAssumption
  <2> QED BY <1>3, <2>1, <2>3
<1>4. CASE ~((a % Ring) + k < Ring)
  <2>1. a + k = Ring * (q + 1) + ((a % Ring) + k - Ring)
    BY <1>1, <1>2, RingAssumption
  <2>2. (a % Ring) + k - Ring \in 0 .. Ring - 1
    BY <1>2, <1>4, RingAssumption
  <2>3. (Ring * (q + 1) + ((a % Ring) + k - Ring)) % Ring = (a % Ring) + k - Ring
    <3>1. \A x \in Nat, y \in 0 .. Ring - 1 : (Ring * x + y) % Ring = y
      BY Remainder, RingAssumption
    <3>2. q + 1 \in Nat
      OBVIOUS
    <3> QED BY <2>2, <3>1, <3>2
  <2> QED BY <1>4, <2>1, <2>3
<1> QED BY <1>3, <1>4

\* Bytes less than a ring apart are in different cells.
LEMMA CellsApart ==
  ASSUME NEW a \in Nat, NEW k \in 1 .. Ring - 1
  PROVE  (a + k) % Ring # a % Ring
<1> DEFINE c == a % Ring
           d == (a + k) % Ring
<1>1. c \in 0 .. Ring - 1
  BY RingAssumption
<1>2. d = IF c + k < Ring THEN c + k ELSE c + k - Ring
  <2>1. k \in 0 .. Ring - 1
    BY RingAssumption
  <2> QED BY <2>1, CellIs
<1> HIDE DEF c, d
<1>3. d # c
  BY <1>1, <1>2, RingAssumption
<1> QED BY <1>3 DEF c, d

\* A counter that wraps stays on its cell, and so does what is counted from it.
LEMMA CellKept ==
  ASSUME NEW a \in 0 .. Wrap - 1, NEW k \in 0 .. Ring, NEW j \in Nat
  PROVE  (Plus(a, k) + j) % Ring = (a + k + j) % Ring
<1>1. CASE a + k < Wrap
  BY <1>1, PlusIs
<1>2. CASE ~(a + k < Wrap)
  <2> DEFINE b == a + k - Wrap + j
  <2>1. b \in Nat /\ a + k + j = b + Ring * Laps
    BY <1>2, WrapFacts, RingAssumption DEF Wrap
  <2>2. (b + Ring * Laps) % Ring = b % Ring
    BY <2>1, WholeTurns, RingAssumption
  <2>3. Plus(a, k) + j = b
    BY <1>2, PlusIs, WrapFacts, RingAssumption
  <2> QED BY <2>1, <2>2, <2>3
<1> QED BY <1>1, <1>2

\* What is held is a number of bytes, none exactly when the counters agree.
LEMMA HeldType ==
  ASSUME NEW h \in 0 .. Wrap - 1, NEW t \in 0 .. Wrap - 1
  PROVE  Held(h, t) \in Nat /\ (Held(h, t) = 0 <=> h = t)
BY HeldIs, WrapFacts

\* Publishing adds what it publishes to what is held.
LEMMA HeldGrows ==
  ASSUME NEW h \in 0 .. Wrap - 1, NEW t \in 0 .. Wrap - 1, NEW k \in 0 .. Ring,
         Held(h, t) + k <= Ring
  PROVE  Plus(h, k) \in 0 .. Wrap - 1 /\ Held(Plus(h, k), t) = Held(h, t) + k
<1> DEFINE p == Plus(h, k)
<1>1. p = IF h + k < Wrap THEN h + k ELSE h + k - Wrap
  BY PlusIs
<1> HIDE DEF p
<1>2. p \in 0 .. Wrap - 1
  BY <1>1, WrapFacts, RingAssumption
<1>3. /\ Held(h, t) = IF t <= h THEN h - t ELSE h + Wrap - t
      /\ Held(p, t) = IF t <= p THEN p - t ELSE p + Wrap - t
  BY <1>2, HeldIs
<1>4. Held(p, t) = Held(h, t) + k
  BY <1>1, <1>2, <1>3, WrapFacts, RingAssumption
<1> QED BY <1>2, <1>4 DEF p

\* Taking bytes out takes them from what is held.
LEMMA HeldShrinks ==
  ASSUME NEW h \in 0 .. Wrap - 1, NEW t \in 0 .. Wrap - 1, NEW k \in 0 .. Ring,
         Held(h, t) <= Ring, k <= Held(h, t)
  PROVE  Plus(t, k) \in 0 .. Wrap - 1 /\ Held(h, Plus(t, k)) = Held(h, t) - k
<1> DEFINE p == Plus(t, k)
<1>1. p = IF t + k < Wrap THEN t + k ELSE t + k - Wrap
  BY PlusIs
<1> HIDE DEF p
<1>2. p \in 0 .. Wrap - 1
  BY <1>1, WrapFacts, RingAssumption
<1>3. /\ Held(h, t) = IF t <= h THEN h - t ELSE h + Wrap - t
      /\ Held(h, p) = IF p <= h THEN h - p ELSE h + Wrap - p
  BY <1>2, HeldIs
<1>4. Held(h, p) = Held(h, t) - k
  BY <1>1, <1>2, <1>3, WrapFacts, RingAssumption
<1> QED BY <1>2, <1>4 DEF p

-----------------------------------------------------------------------------
(* The inductive invariant.                                                *)

\* What is published and not stored back fits the ring, and what a read saw
\* is part of it.
CountersFit ==
  /\ Held(head, tail) <= Ring
  /\ r \in {"wake", "await", "take", "store"} =>
       1 <= Held(seen, tail) /\ Held(seen, tail) <= Held(head, tail)
  /\ r = "store" => 1 <= Len(out) /\ Len(out) <= Held(seen, tail)

\* What a write copies fits beside what is held.
WriteFits ==
  /\ w \in {"room", "copy", "publish"} => 1 <= Len(parts)
  /\ w \in {"copy", "publish"} => 1 <= n /\ n <= Len(parts) /\ Held(head, tail) + n <= Ring

\* What a write is about to publish is in the cells it publishes.
CopiedIsThere ==
  w = "publish" => \A k \in 0 .. n - 1 : ring[(head + k) % Ring] = parts[k + 1]

\* A reader on its way to sleep has its flag up or a wake-up coming, and one
\* asleep over bytes with its flag up has a writer about to look at it.
WakeUps ==
  /\ (r \in {"look", "wake", "wait"} /\ ~sleeping) \/ r = "await" =>
       bell > 0 \/ w = "ring" \/ shut
  /\ r = "wait" /\ head # tail /\ sleeping => w \in {"look", "swap"}

One(p) == IF p THEN 1 ELSE 0

\* A flag up, a swap taken and a byte on the bell are one wake-up each: for the
\* reader's wait in progress, or for one that ended at the read bound.
BellCount ==
  /\ ~shut => bell + One(w = "ring") + One(sleeping)
                 <= late + One(r \in {"look", "wake", "wait", "await"})
  /\ bell <= 1 + late

RInv == TypeOK /\ NeverRefused /\ CountersFit /\ WriteFits /\ CopiedIsThere
          /\ WakeUps /\ BellCount
\* Every step of the writer, the reader and the closers keeps RInv.
LEMMA RingStep == RInv /\ [Next]_vars => RInv'
<1> SUFFICES ASSUME RInv, [Next]_vars PROVE RInv'
  OBVIOUS
<1>h. Held(head, tail) \in Nat /\ (Held(head, tail) = 0 <=> head = tail) /\ Held(seen, tail) \in Nat
  BY HeldType DEF RInv, TypeOK
<1>1. ASSUME Write PROVE RInv'
  <2>1. TypeOK'
    BY <1>1, RingAssumption DEF RInv, TypeOK, WriterStates, Write, reader
  <2>2. NeverRefused'
    BY <1>1, RingAssumption DEF RInv, TypeOK, NeverRefused, Write, reader
  <2>3. CountersFit'
    BY <1>1, <1>h, RingAssumption DEF RInv, TypeOK, CountersFit, Write, reader
  <2>4. WriteFits'
    BY <1>1, <1>h, RingAssumption DEF RInv, TypeOK, WriteFits, Write, reader
  <2>5. CopiedIsThere'
    BY <1>1, RingAssumption DEF RInv, TypeOK, CopiedIsThere, Write, reader
  <2>6. WakeUps'
    BY <1>1, <1>h, RingAssumption DEF RInv, TypeOK, WakeUps, CountersFit, Write, reader
  <2>7. BellCount'
    BY <1>1, RingAssumption DEF RInv, TypeOK, BellCount, One, Write, reader
  <2> QED BY <2>1, <2>2, <2>3, <2>4, <2>5, <2>6, <2>7 DEF RInv
<1>2. ASSUME FindRoom PROVE RInv'
  <2>1. TypeOK'
    BY <1>2, <1>h, RingAssumption DEF RInv, TypeOK, CountersFit, WriteFits, WriterStates, FindRoom, Min, reader
  <2>2. NeverRefused'
    BY <1>2, <1>h, RingAssumption DEF RInv, TypeOK, NeverRefused, CountersFit, FindRoom, reader
  <2>3. CountersFit'
    BY <1>2, <1>h, RingAssumption DEF RInv, TypeOK, CountersFit, FindRoom, reader, Min
  <2>4. WriteFits'
    BY <1>2, <1>h, RingAssumption DEF RInv, TypeOK, CountersFit, WriteFits, FindRoom, Min, reader
  <2>5. CopiedIsThere'
    BY <1>2, RingAssumption DEF RInv, TypeOK, CopiedIsThere, FindRoom, reader, Min
  <2>6. WakeUps'
    BY <1>2, <1>h, RingAssumption DEF RInv, TypeOK, WakeUps, CountersFit, FindRoom, reader, Min
  <2>7. BellCount'
    BY <1>2, RingAssumption DEF RInv, TypeOK, BellCount, One, FindRoom, reader, Min
  <2> QED BY <2>1, <2>2, <2>3, <2>4, <2>5, <2>6, <2>7 DEF RInv
<1>3. ASSUME GiveUp PROVE RInv'
  <2>1. TypeOK'
    BY <1>3, RingAssumption DEF RInv, TypeOK, WriterStates, GiveUp, reader
  <2>2. NeverRefused'
    BY <1>3, RingAssumption DEF RInv, TypeOK, NeverRefused, GiveUp, reader
  <2>3. CountersFit'
    BY <1>3, <1>h, RingAssumption DEF RInv, TypeOK, CountersFit, GiveUp, reader
  <2>4. WriteFits'
    BY <1>3, <1>h, RingAssumption DEF RInv, TypeOK, WriteFits, GiveUp, reader
  <2>5. CopiedIsThere'
    BY <1>3, RingAssumption DEF RInv, TypeOK, CopiedIsThere, GiveUp, reader
  <2>6. WakeUps'
    BY <1>3, <1>h, RingAssumption DEF RInv, TypeOK, WakeUps, CountersFit, GiveUp, reader
  <2>7. BellCount'
    BY <1>3, RingAssumption DEF RInv, TypeOK, BellCount, One, GiveUp, reader
  <2> QED BY <2>1, <2>2, <2>3, <2>4, <2>5, <2>6, <2>7 DEF RInv
<1>4. ASSUME CopyIn PROVE RInv'
  <2>1. TypeOK'
    <3> DEFINE at == head % Ring
               first == Min(n, Ring - at)
    <3>1. at \in 0 .. Ring - 1 /\ 1 <= n /\ n <= Len(parts) /\ n <= Ring
      BY <1>4, RingAssumption, WrapFacts DEF RInv, TypeOK, WriteFits, CopyIn
    <3> HIDE DEF at
    <3>2. first \in 0 .. n /\ first <= Ring - at
      BY <3>1, RingAssumption DEF Min, RInv, TypeOK
    <3> HIDE DEF first
    <3>3. ring' = [c \in 0 .. Ring - 1 |->
                     IF at <= c /\ c < at + first THEN parts[c - at + 1]
                     ELSE IF c < n - first THEN parts[first + c + 1]
                     ELSE ring[c]]
      BY <1>4 DEF CopyIn, at, first
    <3>4. \A i \in 1 .. Len(parts) : parts[i] \in Byte
      BY DEF RInv, TypeOK
    <3>5. \A c \in 0 .. Ring - 1 : ring[c] \in Byte
      BY DEF RInv, TypeOK
    <3>7. Len(parts) \in Nat /\ n \in Nat /\ Ring \in Nat
      BY RingAssumption DEF RInv, TypeOK
    <3>6. \A c \in 0 .. Ring - 1 : ring'[c] \in Byte
      BY <3>1, <3>2, <3>3, <3>4, <3>5, <3>7
    <3>8. ring' \in [0 .. Ring - 1 -> Byte]
      BY <3>3, <3>6
    <3> QED BY <1>4, <3>8 DEF RInv, TypeOK, WriterStates, CopyIn, reader
  <2>2. NeverRefused'
    BY <1>4, RingAssumption DEF RInv, TypeOK, NeverRefused, CopyIn, reader, Min
  <2>3. CountersFit'
    BY <1>4, <1>h, RingAssumption DEF RInv, TypeOK, CountersFit, CopyIn, reader, Min
  <2>4. WriteFits'
    BY <1>4, <1>h, RingAssumption DEF RInv, TypeOK, WriteFits, CopyIn, reader, Min
  <2>5. CopiedIsThere'
    <3> DEFINE at == head % Ring
               first == Min(n, Ring - at)
    <3> SUFFICES ASSUME NEW k \in 0 .. n - 1 PROVE ring'[(head + k) % Ring] = parts[k + 1]
      BY <1>4 DEF CopyIn, CopiedIsThere
    <3>1. at \in 0 .. Ring - 1 /\ n \in 1 .. Ring /\ head \in Nat
      BY <1>4, RingAssumption, WrapFacts DEF RInv, TypeOK, WriteFits, CopyIn
    <3>2. (head + k) % Ring = IF at + k < Ring THEN at + k ELSE at + k - Ring
      <4>1. k \in 0 .. Ring - 1
        BY <3>1, RingAssumption
      <4> QED BY <3>1, <4>1, CellIs
    <3>3. ring' = [c \in 0 .. Ring - 1 |->
                     IF at <= c /\ c < at + first THEN parts[c - at + 1]
                     ELSE IF c < n - first THEN parts[first + c + 1]
                     ELSE ring[c]]
      BY <1>4 DEF CopyIn
    <3>4. first = IF n < Ring - at THEN n ELSE Ring - at
      BY DEF Min
    <3> HIDE DEF at, first
    <3>5. CASE at + k < Ring
      <4>1. at <= at + k /\ at + k < at + first /\ at + k \in 0 .. Ring - 1 /\ (at + k) - at + 1 = k + 1
        BY <3>1, <3>4, <3>5, RingAssumption
      <4> QED BY <3>2, <3>3, <3>5, <4>1
    <3>6. CASE ~(at + k < Ring)
      <4> DEFINE c == at + k - Ring
      <4>1. c \in 0 .. Ring - 1 /\ c < at /\ c < n - first /\ first + c + 1 = k + 1
        BY <3>1, <3>4, <3>6, RingAssumption
      <4>2. ~(at <= c)
        BY <3>1, <4>1, RingAssumption
      <4>3. (head + k) % Ring = c
        BY <3>2, <3>6
      <4> HIDE DEF c
      <4> QED BY <3>3, <4>1, <4>2, <4>3
    <3> QED BY <3>5, <3>6
  <2>6. WakeUps'
    BY <1>4, <1>h, RingAssumption DEF RInv, TypeOK, WakeUps, CountersFit, CopyIn, reader, Min
  <2>7. BellCount'
    BY <1>4, RingAssumption DEF RInv, TypeOK, BellCount, One, CopyIn, reader, Min
  <2> QED BY <2>1, <2>2, <2>3, <2>4, <2>5, <2>6, <2>7 DEF RInv
<1>5. ASSUME Publish PROVE RInv'
  <2>1. TypeOK'
    <3>1. n \in 0 .. Ring /\ Held(head, tail) + n <= Ring
      BY <1>5 DEF RInv, TypeOK, WriteFits, Publish
    <3>2. Plus(head, n) \in 0 .. Wrap - 1
      BY <3>1, HeldGrows DEF RInv, TypeOK
    <3> QED BY <1>5, <3>2 DEF RInv, TypeOK, WriterStates, Publish, reader
  <2>2. NeverRefused'
    BY <1>5, RingAssumption DEF RInv, TypeOK, NeverRefused, Publish, reader
  <2>3. CountersFit'
    <3>1. n \in 0 .. Ring /\ Held(head, tail) + n <= Ring
      BY <1>5 DEF RInv, TypeOK, WriteFits, Publish
    <3>2. Held(head', tail) = Held(head, tail) + n
      BY <1>5, <3>1, HeldGrows DEF RInv, TypeOK, Publish
    <3> QED BY <1>5, <1>h, <3>1, <3>2 DEF RInv, TypeOK, CountersFit, Publish, reader
  <2>4. WriteFits'
    BY <1>5, <1>h, RingAssumption DEF RInv, TypeOK, WriteFits, Publish, reader
  <2>5. CopiedIsThere'
    BY <1>5, RingAssumption DEF RInv, TypeOK, CopiedIsThere, Publish, reader
  <2>6. WakeUps'
    BY <1>5, <1>h, RingAssumption DEF RInv, TypeOK, WakeUps, CountersFit, Publish, reader
  <2>7. BellCount'
    BY <1>5, RingAssumption DEF RInv, TypeOK, BellCount, One, Publish, reader
  <2> QED BY <2>1, <2>2, <2>3, <2>4, <2>5, <2>6, <2>7 DEF RInv
<1>6. ASSUME Look PROVE RInv'
  <2>1. TypeOK'
    BY <1>6, RingAssumption DEF RInv, TypeOK, WriterStates, Look, reader
  <2>2. NeverRefused'
    BY <1>6, RingAssumption DEF RInv, TypeOK, NeverRefused, Look, reader
  <2>3. CountersFit'
    BY <1>6, <1>h, RingAssumption DEF RInv, TypeOK, CountersFit, Look, reader
  <2>4. WriteFits'
    BY <1>6, <1>h, RingAssumption DEF RInv, TypeOK, WriteFits, Look, reader
  <2>5. CopiedIsThere'
    BY <1>6, RingAssumption DEF RInv, TypeOK, CopiedIsThere, Look, reader
  <2>6. WakeUps'
    BY <1>6, <1>h, RingAssumption DEF RInv, TypeOK, WakeUps, CountersFit, Look, reader
  <2>7. BellCount'
    BY <1>6, RingAssumption DEF RInv, TypeOK, BellCount, One, Look, reader
  <2> QED BY <2>1, <2>2, <2>3, <2>4, <2>5, <2>6, <2>7 DEF RInv
<1>7. ASSUME Swap PROVE RInv'
  <2>1. TypeOK'
    BY <1>7, RingAssumption DEF RInv, TypeOK, WriterStates, Swap, reader
  <2>2. NeverRefused'
    BY <1>7, RingAssumption DEF RInv, TypeOK, NeverRefused, Swap, reader
  <2>3. CountersFit'
    BY <1>7, <1>h, RingAssumption DEF RInv, TypeOK, CountersFit, Swap, reader
  <2>4. WriteFits'
    BY <1>7, <1>h, RingAssumption DEF RInv, TypeOK, WriteFits, Swap, reader
  <2>5. CopiedIsThere'
    BY <1>7, RingAssumption DEF RInv, TypeOK, CopiedIsThere, Swap, reader
  <2>6. WakeUps'
    BY <1>7, <1>h, RingAssumption DEF RInv, TypeOK, WakeUps, CountersFit, Swap, reader
  <2>7. BellCount'
    BY <1>7, RingAssumption DEF RInv, TypeOK, BellCount, One, Swap, reader
  <2> QED BY <2>1, <2>2, <2>3, <2>4, <2>5, <2>6, <2>7 DEF RInv
<1>8. ASSUME RingBell PROVE RInv'
  <2>1. TypeOK'
    BY <1>8, RingAssumption DEF RInv, TypeOK, WriterStates, RingBell, reader
  <2>2. NeverRefused'
    BY <1>8, RingAssumption DEF RInv, TypeOK, NeverRefused, RingBell, reader
  <2>3. CountersFit'
    BY <1>8, <1>h, RingAssumption DEF RInv, TypeOK, CountersFit, RingBell, reader
  <2>4. WriteFits'
    BY <1>8, <1>h, RingAssumption DEF RInv, TypeOK, WriteFits, RingBell, reader
  <2>5. CopiedIsThere'
    BY <1>8, RingAssumption DEF RInv, TypeOK, CopiedIsThere, RingBell, reader
  <2>6. WakeUps'
    BY <1>8, <1>h, RingAssumption DEF RInv, TypeOK, WakeUps, CountersFit, RingBell, reader
  <2>7. BellCount'
    BY <1>8, RingAssumption DEF RInv, TypeOK, BellCount, One, RingBell, reader
  <2> QED BY <2>1, <2>2, <2>3, <2>4, <2>5, <2>6, <2>7 DEF RInv
<1>9. ASSUME Poll PROVE RInv'
  <2>1. TypeOK'
    BY <1>9, RingAssumption DEF RInv, TypeOK, ReaderStates, Poll, writer
  <2>2. NeverRefused'
    BY <1>9, RingAssumption DEF RInv, TypeOK, NeverRefused, Poll, writer
  <2>3. CountersFit'
    BY <1>9, <1>h, RingAssumption DEF RInv, TypeOK, CountersFit, Poll, writer
  <2>4. WriteFits'
    BY <1>9, <1>h, RingAssumption DEF RInv, TypeOK, WriteFits, Poll, writer
  <2>5. CopiedIsThere'
    BY <1>9, RingAssumption DEF RInv, TypeOK, CopiedIsThere, Poll, writer
  <2>6. WakeUps'
    BY <1>9, <1>h, RingAssumption DEF RInv, TypeOK, WakeUps, CountersFit, Poll, writer
  <2>7. BellCount'
    BY <1>9, RingAssumption DEF RInv, TypeOK, BellCount, One, Poll, writer
  <2> QED BY <2>1, <2>2, <2>3, <2>4, <2>5, <2>6, <2>7 DEF RInv
<1>10. ASSUME SpinOver PROVE RInv'
  <2>1. TypeOK'
    BY <1>10, RingAssumption DEF RInv, TypeOK, ReaderStates, SpinOver, writer
  <2>2. NeverRefused'
    BY <1>10, RingAssumption DEF RInv, TypeOK, NeverRefused, SpinOver, writer
  <2>3. CountersFit'
    BY <1>10, <1>h, RingAssumption DEF RInv, TypeOK, CountersFit, SpinOver, writer
  <2>4. WriteFits'
    BY <1>10, <1>h, RingAssumption DEF RInv, TypeOK, WriteFits, SpinOver, writer
  <2>5. CopiedIsThere'
    BY <1>10, RingAssumption DEF RInv, TypeOK, CopiedIsThere, SpinOver, writer
  <2>6. WakeUps'
    BY <1>10, <1>h, RingAssumption DEF RInv, TypeOK, WakeUps, CountersFit, SpinOver, writer
  <2>7. BellCount'
    BY <1>10, RingAssumption DEF RInv, TypeOK, BellCount, One, SpinOver, writer
  <2> QED BY <2>1, <2>2, <2>3, <2>4, <2>5, <2>6, <2>7 DEF RInv
<1>11. ASSUME MarkAsleep PROVE RInv'
  <2>1. TypeOK'
    BY <1>11, RingAssumption DEF RInv, TypeOK, ReaderStates, MarkAsleep, writer
  <2>2. NeverRefused'
    BY <1>11, RingAssumption DEF RInv, TypeOK, NeverRefused, MarkAsleep, writer
  <2>3. CountersFit'
    BY <1>11, <1>h, RingAssumption DEF RInv, TypeOK, CountersFit, MarkAsleep, writer
  <2>4. WriteFits'
    BY <1>11, <1>h, RingAssumption DEF RInv, TypeOK, WriteFits, MarkAsleep, writer
  <2>5. CopiedIsThere'
    BY <1>11, RingAssumption DEF RInv, TypeOK, CopiedIsThere, MarkAsleep, writer
  <2>6. WakeUps'
    BY <1>11, <1>h, RingAssumption DEF RInv, TypeOK, WakeUps, CountersFit, MarkAsleep, writer
  <2>7. BellCount'
    BY <1>11, RingAssumption DEF RInv, TypeOK, BellCount, One, MarkAsleep, writer
  <2> QED BY <2>1, <2>2, <2>3, <2>4, <2>5, <2>6, <2>7 DEF RInv
<1>12. ASSUME LastLook PROVE RInv'
  <2>1. TypeOK'
    BY <1>12, RingAssumption DEF RInv, TypeOK, ReaderStates, LastLook, writer
  <2>2. NeverRefused'
    BY <1>12, RingAssumption DEF RInv, TypeOK, NeverRefused, LastLook, writer
  <2>3. CountersFit'
    BY <1>12, <1>h, RingAssumption DEF RInv, TypeOK, CountersFit, LastLook, writer
  <2>4. WriteFits'
    BY <1>12, <1>h, RingAssumption DEF RInv, TypeOK, WriteFits, LastLook, writer
  <2>5. CopiedIsThere'
    BY <1>12, RingAssumption DEF RInv, TypeOK, CopiedIsThere, LastLook, writer
  <2>6. WakeUps'
    BY <1>12, <1>h, RingAssumption DEF RInv, TypeOK, WakeUps, CountersFit, LastLook, writer
  <2>7. BellCount'
    BY <1>12, RingAssumption DEF RInv, TypeOK, BellCount, One, LastLook, writer
  <2> QED BY <2>1, <2>2, <2>3, <2>4, <2>5, <2>6, <2>7 DEF RInv
<1>13. ASSUME Wake PROVE RInv'
  <2>1. TypeOK'
    BY <1>13, RingAssumption DEF RInv, TypeOK, ReaderStates, Wake, writer
  <2>2. NeverRefused'
    BY <1>13, RingAssumption DEF RInv, TypeOK, NeverRefused, Wake, writer
  <2>3. CountersFit'
    BY <1>13, <1>h, RingAssumption DEF RInv, TypeOK, CountersFit, Wake, writer
  <2>4. WriteFits'
    BY <1>13, <1>h, RingAssumption DEF RInv, TypeOK, WriteFits, Wake, writer
  <2>5. CopiedIsThere'
    BY <1>13, RingAssumption DEF RInv, TypeOK, CopiedIsThere, Wake, writer
  <2>6. WakeUps'
    BY <1>13, <1>h, RingAssumption DEF RInv, TypeOK, WakeUps, CountersFit, Wake, writer
  <2>7. BellCount'
    BY <1>13, RingAssumption DEF RInv, TypeOK, BellCount, One, Wake, writer
  <2> QED BY <2>1, <2>2, <2>3, <2>4, <2>5, <2>6, <2>7 DEF RInv
<1>14. ASSUME Hear PROVE RInv'
  <2>1. TypeOK'
    BY <1>14, RingAssumption DEF RInv, TypeOK, ReaderStates, Hear, writer
  <2>2. NeverRefused'
    BY <1>14, RingAssumption DEF RInv, TypeOK, NeverRefused, Hear, writer
  <2>3. CountersFit'
    BY <1>14, <1>h, RingAssumption DEF RInv, TypeOK, CountersFit, Hear, writer
  <2>4. WriteFits'
    BY <1>14, <1>h, RingAssumption DEF RInv, TypeOK, WriteFits, Hear, writer
  <2>5. CopiedIsThere'
    BY <1>14, RingAssumption DEF RInv, TypeOK, CopiedIsThere, Hear, writer
  <2>6. WakeUps'
    BY <1>14, <1>h, RingAssumption DEF RInv, TypeOK, WakeUps, CountersFit, Hear, writer
  <2>7. BellCount'
    BY <1>14, RingAssumption DEF RInv, TypeOK, BellCount, One, Hear, writer
  <2> QED BY <2>1, <2>2, <2>3, <2>4, <2>5, <2>6, <2>7 DEF RInv
<1>15. ASSUME HearEnd PROVE RInv'
  <2>1. TypeOK'
    BY <1>15, RingAssumption DEF RInv, TypeOK, ReaderStates, HearEnd, writer
  <2>2. NeverRefused'
    BY <1>15, RingAssumption DEF RInv, TypeOK, NeverRefused, HearEnd, writer
  <2>3. CountersFit'
    BY <1>15, <1>h, RingAssumption DEF RInv, TypeOK, CountersFit, HearEnd, writer
  <2>4. WriteFits'
    BY <1>15, <1>h, RingAssumption DEF RInv, TypeOK, WriteFits, HearEnd, writer
  <2>5. CopiedIsThere'
    BY <1>15, RingAssumption DEF RInv, TypeOK, CopiedIsThere, HearEnd, writer
  <2>6. WakeUps'
    BY <1>15, <1>h, RingAssumption DEF RInv, TypeOK, WakeUps, CountersFit, HearEnd, writer
  <2>7. BellCount'
    BY <1>15, RingAssumption DEF RInv, TypeOK, BellCount, One, HearEnd, writer
  <2> QED BY <2>1, <2>2, <2>3, <2>4, <2>5, <2>6, <2>7 DEF RInv
<1>16. ASSUME FinalLook PROVE RInv'
  <2>1. TypeOK'
    BY <1>16, RingAssumption DEF RInv, TypeOK, ReaderStates, FinalLook, writer
  <2>2. NeverRefused'
    BY <1>16, RingAssumption DEF RInv, TypeOK, NeverRefused, FinalLook, writer
  <2>3. CountersFit'
    BY <1>16, <1>h, RingAssumption DEF RInv, TypeOK, CountersFit, FinalLook, writer
  <2>4. WriteFits'
    BY <1>16, <1>h, RingAssumption DEF RInv, TypeOK, WriteFits, FinalLook, writer
  <2>5. CopiedIsThere'
    BY <1>16, RingAssumption DEF RInv, TypeOK, CopiedIsThere, FinalLook, writer
  <2>6. WakeUps'
    BY <1>16, <1>h, RingAssumption DEF RInv, TypeOK, WakeUps, CountersFit, FinalLook, writer
  <2>7. BellCount'
    BY <1>16, RingAssumption DEF RInv, TypeOK, BellCount, One, FinalLook, writer
  <2> QED BY <2>1, <2>2, <2>3, <2>4, <2>5, <2>6, <2>7 DEF RInv
<1>17. ASSUME CopyOut PROVE RInv'
  <2>1. TypeOK'
    <3>1. ~(Held(seen, tail) > Ring)
      BY <1>17, <1>h, RingAssumption DEF RInv, TypeOK, CountersFit, CopyOut
    <3>2. PICK room \in 1 .. MaxPart :
            LET size == Min(Held(seen, tail), room)
                at == tail % Ring
                first == Min(size, Ring - at)
            IN out' = [i \in 1 .. size |->
                         IF i <= first THEN ring[at + i - 1] ELSE ring[i - first - 1]]
      BY <1>17, <3>1 DEF CopyOut
    <3> DEFINE size == Min(Held(seen, tail), room)
               at == tail % Ring
               first == Min(size, Ring - at)
    <3>3. out' = [i \in 1 .. size |->
                    IF i <= first THEN ring[at + i - 1] ELSE ring[i - first - 1]]
      BY <3>2
    <3>4. size \in 1 .. Ring /\ at \in 0 .. Ring - 1
      BY <1>17, <1>h, <3>1, RingAssumption, WrapFacts DEF RInv, TypeOK, CountersFit, CopyOut, Min
    <3>5. first = IF size < Ring - at THEN size ELSE Ring - at
      BY DEF Min
    <3> HIDE DEF size, at, first
    <3>6. \A i \in 1 .. size : IF i <= first THEN at + i - 1 \in 0 .. Ring - 1
                                             ELSE i - first - 1 \in 0 .. Ring - 1
      BY <3>4, <3>5, RingAssumption
    <3>7. \A c \in 0 .. Ring - 1 : ring[c] \in Byte
      BY DEF RInv, TypeOK
    <3>8. out' \in Seq(Byte)
      BY <3>3, <3>4, <3>6, <3>7, RingAssumption
    <3>9. r' = "store"
      BY <1>17, <3>1 DEF CopyOut
    <3> QED BY <1>17, <3>8, <3>9 DEF RInv, TypeOK, ReaderStates, CopyOut, writer
  <2>2. NeverRefused'
    BY <1>17, <1>h, RingAssumption DEF RInv, TypeOK, NeverRefused, CountersFit, CopyOut, writer
  <2>3. CountersFit'
    <3>1. ~(Held(seen, tail) > Ring)
      BY <1>17, <1>h, RingAssumption DEF RInv, TypeOK, CountersFit, CopyOut
    <3>2. PICK size \in 1 .. Held(seen, tail) : Len(out') = size
      BY <1>17, <1>h, <3>1, RingAssumption DEF RInv, TypeOK, CountersFit, CopyOut, Min
    <3> QED BY <1>17, <1>h, <3>2 DEF RInv, TypeOK, CountersFit, CopyOut, writer
  <2>4. WriteFits'
    BY <1>17, <1>h, RingAssumption DEF RInv, TypeOK, WriteFits, CopyOut, writer, Min
  <2>5. CopiedIsThere'
    BY <1>17, RingAssumption DEF RInv, TypeOK, CopiedIsThere, CopyOut, writer, Min
  <2>6. WakeUps'
    BY <1>17, <1>h, RingAssumption DEF RInv, TypeOK, WakeUps, CountersFit, CopyOut, writer, Min
  <2>7. BellCount'
    BY <1>17, RingAssumption DEF RInv, TypeOK, BellCount, One, CopyOut, writer, Min
  <2> QED BY <2>1, <2>2, <2>3, <2>4, <2>5, <2>6, <2>7 DEF RInv
<1>18. ASSUME StoreTail PROVE RInv'
  <2>a. Len(out) \in 0 .. Ring /\ Len(out) <= Held(head, tail) /\ Held(head, tail) <= Ring
    BY <1>18, <1>h, RingAssumption DEF RInv, TypeOK, CountersFit, StoreTail
  <2>b. tail' \in 0 .. Wrap - 1 /\ Held(head, tail') = Held(head, tail) - Len(out)
    BY <1>18, <2>a, HeldShrinks DEF RInv, TypeOK, StoreTail
  <2>c. Held(head, tail') <= Held(head, tail)
    BY <1>h, <2>a, <2>b
  <2>1. TypeOK'
    BY <1>18, <2>b DEF RInv, TypeOK, ReaderStates, StoreTail, writer
  <2>2. NeverRefused'
    BY <1>18, RingAssumption DEF RInv, TypeOK, NeverRefused, StoreTail, writer
  <2>3. CountersFit'
    <3>1. Held(head', tail') <= Ring /\ r' = "poll"
      BY <1>18, <1>h, <2>a, <2>b, RingAssumption DEF StoreTail, writer
    <3> QED BY <3>1 DEF CountersFit
  <2>4. WriteFits'
    <3>1. Held(head, tail') \in Nat /\ UNCHANGED <<head, w, parts, n>>
      BY <1>18, <1>h, <2>a, <2>b DEF StoreTail, writer
    <3> QED BY <1>h, <2>c, <3>1, RingAssumption DEF RInv, TypeOK, WriteFits
  <2>5. CopiedIsThere'
    BY <1>18, RingAssumption DEF RInv, TypeOK, CopiedIsThere, StoreTail, writer
  <2>6. WakeUps'
    BY <1>18, <1>h, RingAssumption DEF RInv, TypeOK, WakeUps, CountersFit, StoreTail, writer
  <2>7. BellCount'
    BY <1>18, RingAssumption DEF RInv, TypeOK, BellCount, One, StoreTail, writer
  <2> QED BY <2>1, <2>2, <2>3, <2>4, <2>5, <2>6, <2>7 DEF RInv
<1>19. ASSUME TimesOut PROVE RInv'
  <2>1. TypeOK'
    BY <1>19, RingAssumption DEF RInv, TypeOK, ReaderStates, TimesOut, writer
  <2>2. NeverRefused'
    BY <1>19, RingAssumption DEF RInv, TypeOK, NeverRefused, TimesOut, writer
  <2>3. CountersFit'
    BY <1>19, <1>h, RingAssumption DEF RInv, TypeOK, CountersFit, TimesOut, writer
  <2>4. WriteFits'
    BY <1>19, <1>h, RingAssumption DEF RInv, TypeOK, WriteFits, TimesOut, writer
  <2>5. CopiedIsThere'
    BY <1>19, RingAssumption DEF RInv, TypeOK, CopiedIsThere, TimesOut, writer
  <2>6. WakeUps'
    BY <1>19, <1>h, RingAssumption DEF RInv, TypeOK, WakeUps, CountersFit, TimesOut, writer
  <2>7. BellCount'
    BY <1>19, RingAssumption DEF RInv, TypeOK, BellCount, One, TimesOut, writer
  <2> QED BY <2>1, <2>2, <2>3, <2>4, <2>5, <2>6, <2>7 DEF RInv
<1>20. ASSUME CloseHere PROVE RInv'
  <2>1. TypeOK'
    BY <1>20, RingAssumption DEF RInv, TypeOK, CloseHere, writer, reader
  <2>2. NeverRefused'
    BY <1>20, RingAssumption DEF RInv, TypeOK, NeverRefused, CloseHere, writer, reader
  <2>3. CountersFit'
    BY <1>20, <1>h, RingAssumption DEF RInv, TypeOK, CountersFit, CloseHere, writer, reader
  <2>4. WriteFits'
    BY <1>20, <1>h, RingAssumption DEF RInv, TypeOK, WriteFits, CloseHere, writer, reader
  <2>5. CopiedIsThere'
    BY <1>20, RingAssumption DEF RInv, TypeOK, CopiedIsThere, CloseHere, writer, reader
  <2>6. WakeUps'
    BY <1>20, <1>h, RingAssumption DEF RInv, TypeOK, WakeUps, CountersFit, CloseHere, writer, reader
  <2>7. BellCount'
    BY <1>20, RingAssumption DEF RInv, TypeOK, BellCount, One, CloseHere, writer, reader
  <2> QED BY <2>1, <2>2, <2>3, <2>4, <2>5, <2>6, <2>7 DEF RInv
<1>21. ASSUME CloseThere PROVE RInv'
  <2>1. TypeOK'
    BY <1>21, RingAssumption DEF RInv, TypeOK, CloseThere, writer, reader
  <2>2. NeverRefused'
    BY <1>21, RingAssumption DEF RInv, TypeOK, NeverRefused, CloseThere, writer, reader
  <2>3. CountersFit'
    BY <1>21, <1>h, RingAssumption DEF RInv, TypeOK, CountersFit, CloseThere, writer, reader
  <2>4. WriteFits'
    BY <1>21, <1>h, RingAssumption DEF RInv, TypeOK, WriteFits, CloseThere, writer, reader
  <2>5. CopiedIsThere'
    BY <1>21, RingAssumption DEF RInv, TypeOK, CopiedIsThere, CloseThere, writer, reader
  <2>6. WakeUps'
    BY <1>21, <1>h, RingAssumption DEF RInv, TypeOK, WakeUps, CountersFit, CloseThere, writer, reader
  <2>7. BellCount'
    BY <1>21, RingAssumption DEF RInv, TypeOK, BellCount, One, CloseThere, writer, reader
  <2> QED BY <2>1, <2>2, <2>3, <2>4, <2>5, <2>6, <2>7 DEF RInv
<1>22. ASSUME SeeGone PROVE RInv'
  <2>1. TypeOK'
    BY <1>22, RingAssumption DEF RInv, TypeOK, SeeGone, writer, reader
  <2>2. NeverRefused'
    BY <1>22, RingAssumption DEF RInv, TypeOK, NeverRefused, SeeGone, writer, reader
  <2>3. CountersFit'
    BY <1>22, <1>h, RingAssumption DEF RInv, TypeOK, CountersFit, SeeGone, writer, reader
  <2>4. WriteFits'
    BY <1>22, <1>h, RingAssumption DEF RInv, TypeOK, WriteFits, SeeGone, writer, reader
  <2>5. CopiedIsThere'
    BY <1>22, RingAssumption DEF RInv, TypeOK, CopiedIsThere, SeeGone, writer, reader
  <2>6. WakeUps'
    BY <1>22, <1>h, RingAssumption DEF RInv, TypeOK, WakeUps, CountersFit, SeeGone, writer, reader
  <2>7. BellCount'
    BY <1>22, RingAssumption DEF RInv, TypeOK, BellCount, One, SeeGone, writer, reader
  <2> QED BY <2>1, <2>2, <2>3, <2>4, <2>5, <2>6, <2>7 DEF RInv
<1>23. CASE UNCHANGED vars
  BY <1>23 DEF vars, RInv, TypeOK, NeverRefused, CountersFit, WriteFits, CopiedIsThere, WakeUps, BellCount, One
<1> QED
  BY <1>1, <1>2, <1>3, <1>4, <1>5, <1>6, <1>7, <1>8, <1>9, <1>10, <1>11, <1>12, <1>13, <1>14, <1>15, <1>16, <1>17, <1>18, <1>19, <1>20, <1>21, <1>22, <1>23 DEF Next, Writing, Reading

\* Every state of the ring satisfies RInv.
LEMMA RingInv == Spec => []RInv
<1>1. Init => RInv
  <2> SUFFICES ASSUME Init PROVE RInv
    OBVIOUS
  <2>1. TypeOK
    <3>1. 0 \in 0 .. Wrap - 1 /\ 0 \in 0 .. Ring /\ 0 \in 0 .. MaxLate
      BY WrapFacts, RingAssumption
    <3>2. sleeping \in BOOLEAN /\ shut \in BOOLEAN /\ gone \in BOOLEAN
      BY DEF Init
    <3>3. bell \in Nat /\ parts \in Seq(Byte) /\ out \in Seq(Byte)
      BY DEF Init
    <3>4. w \in WriterStates /\ r \in ReaderStates
      BY DEF Init, WriterStates, ReaderStates
    <3> QED BY <3>1, <3>2, <3>3, <3>4 DEF Init, TypeOK
  <2>2. CountersFit
    <3>1. Held(0, 0) = 0
      BY WrapFacts, HeldType
    <3> QED BY <3>1, RingAssumption DEF Init, CountersFit
  <2>3. WakeUps /\ NeverRefused /\ WriteFits /\ CopiedIsThere
    BY DEF Init, WakeUps, NeverRefused, WriteFits, CopiedIsThere
  <2>4. BellCount
    BY RingAssumption DEF Init, BellCount, One
  <2> QED BY <2>1, <2>2, <2>3, <2>4 DEF RInv
<1> QED BY <1>1, RingStep, PTL DEF Spec

\* The ring's counters are accepted at both ends wherever they wrap, a reader
\* that sleeps over bytes is woken, and its bell never fills (transport/shm.rs):
\* for any ring, counter range, and length of writes and reads.
THEOREM RingSound == Spec => []RingIsSound
<1>1. RInv => RingIsSound
  BY DEF RInv, RingIsSound, NoLostWakeUp, AwaitedByteComes, BellBounded, WakeUps, BellCount, TypeOK
<1> QED BY <1>1, RingInv, PTL

-----------------------------------------------------------------------------
(* The ring implements ByteStream.                                         *)

\* What a read has copied out is behind what is still in transit.
LEMMA TakenIs ==
  ASSUME RInv
  PROVE  /\ Taken \in 0 .. Wrap - 1
         /\ Held(head, Taken) \in Nat
         /\ Held(head, Taken) <= Held(head, tail)
         /\ Held(head, Taken) <= Ring
         /\ head = Plus(Taken, Held(head, Taken))
<1>1. Held(head, tail) \in Nat /\ Held(head, tail) <= Ring /\ tail \in 0 .. Wrap - 1
      /\ head \in 0 .. Wrap - 1 /\ Ring \in Nat
  BY HeldType, RingAssumption DEF RInv, TypeOK, CountersFit
<1>2. Taken \in 0 .. Wrap - 1 /\ Held(head, Taken) <= Held(head, tail)
  <2>1. CASE r = "store"
    <3>1. Len(out) \in 0 .. Ring /\ Len(out) <= Held(head, tail)
      BY <1>1, <2>1, HeldType DEF RInv, TypeOK, CountersFit
    <3>2. /\ Plus(tail, Len(out)) \in 0 .. Wrap - 1
          /\ Held(head, Plus(tail, Len(out))) = Held(head, tail) - Len(out)
      BY <1>1, <3>1, HeldShrinks
    <3> QED BY <1>1, <2>1, <3>1, <3>2 DEF Taken
  <2>2. CASE r # "store"
    BY <1>1, <2>2 DEF Taken
  <2> QED BY <2>1, <2>2
<1>3. Held(head, Taken) \in Nat /\ Held(head, Taken) <= Ring
  BY <1>1, <1>2, HeldType
<1>4. head = Plus(Taken, Held(head, Taken))
  <2> DEFINE t == Taken
             d == Held(head, t)
  <2>1. d = IF t <= head THEN head - t ELSE head + Wrap - t
    BY <1>1, <1>2, HeldIs
  <2>2. Plus(t, d) = IF t + d < Wrap THEN t + d ELSE t + d - Wrap
    BY <1>1, <1>2, <1>3, PlusIs
  <2>3. t \in 0 .. Wrap - 1
    BY <1>2
  <2> HIDE DEF t, d
  <2>4. head = Plus(t, d)
    BY <1>1, <2>1, <2>2, <2>3, WrapFacts
  <2> QED BY <2>4 DEF t, d
<1> QED BY <1>2, <1>3, <1>4

\* The bytes in transit are in the cells from the first not taken on.
LEMMA CellsOf ==
  ASSUME NEW cells, NEW t \in 0 .. Wrap - 1, NEW m \in 0 .. Ring
  PROVE  [i \in 1 .. m |-> cells[Plus(t, i - 1) % Ring]]
           = [i \in 1 .. m |-> cells[(t + (i - 1)) % Ring]]
<1>1. ASSUME NEW i \in 1 .. m
      PROVE  Plus(t, i - 1) % Ring = (t + (i - 1)) % Ring
  <2>1. i - 1 \in 0 .. Ring
    BY RingAssumption
  <2>2. (Plus(t, i - 1) + 0) % Ring = (t + (i - 1) + 0) % Ring
    BY <2>1, CellKept
  <2>3. Plus(t, i - 1) \in Nat
    BY <2>1, PlusIs, WrapFacts, RingAssumption
  <2> QED BY <2>1, <2>2, <2>3, WrapFacts
<1> QED BY <1>1

\* The cells a write is about to fill follow those of the bytes in transit.
LEMMA CellsBehind ==
  ASSUME RInv, NEW k \in Nat
  PROVE  (head + k) % Ring = (Taken + Held(head, Taken) + k) % Ring
<1>1. Held(head, Taken) \in 0 .. Ring
  BY TakenIs, RingAssumption
<1>2. (Plus(Taken, Held(head, Taken)) + k) % Ring = (Taken + Held(head, Taken) + k) % Ring
  BY <1>1, TakenIs, CellKept
<1> QED BY <1>2, TakenIs

\* What is in transit depends on the ring, HEAD and what was taken alone.
LEMMA TransitKept ==
  ASSUME UNCHANGED <<ring, head>>, Taken' = Taken
  PROVE  Transit' = Transit
BY DEF Transit

\* Ring::copy_in writes to no cell but those of the bytes it copies.
LEMMA CopyInTouches ==
  ASSUME RInv, CopyIn, NEW c \in 0 .. Ring - 1
  PROVE  ring'[c] = ring[c] \/ \E k \in 0 .. n - 1 : (head + k) % Ring = c
<1> DEFINE at == head % Ring
           first == Min(n, Ring - at)
<1>1. at \in 0 .. Ring - 1 /\ n \in 1 .. Ring /\ head \in Nat
  BY RingAssumption, WrapFacts DEF RInv, TypeOK, WriteFits, CopyIn
<1>2. ASSUME NEW k \in 0 .. n - 1
      PROVE  (head + k) % Ring = IF at + k < Ring THEN at + k ELSE at + k - Ring
  <2>1. k \in 0 .. Ring - 1
    BY <1>1, RingAssumption
  <2> QED BY <1>1, <2>1, CellIs
<1>3. ring'[c] = IF at <= c /\ c < at + first THEN parts[c - at + 1]
                 ELSE IF c < n - first THEN parts[first + c + 1]
                 ELSE ring[c]
  BY DEF CopyIn
<1>4. first = IF n < Ring - at THEN n ELSE Ring - at
  BY DEF Min
<1> HIDE DEF at, first
<1>5. CASE at <= c /\ c < at + first
  <2>1. c - at \in 0 .. n - 1 /\ at + (c - at) < Ring /\ at + (c - at) = c
    BY <1>1, <1>4, <1>5, RingAssumption
  <2>2. (head + (c - at)) % Ring = c
    BY <1>2, <2>1
  <2> QED BY <2>1, <2>2
<1>6. CASE ~(at <= c /\ c < at + first) /\ c < n - first
  <2>1. /\ first + c \in 0 .. n - 1
        /\ ~(at + (first + c) < Ring)
        /\ at + (first + c) - Ring = c
    BY <1>1, <1>4, <1>6, RingAssumption
  <2>2. (head + (first + c)) % Ring = c
    BY <1>2, <2>1
  <2> QED BY <2>1, <2>2
<1> QED BY <1>3, <1>5, <1>6

\* Copying in leaves the bytes in transit alone.
LEMMA CopyInIsQuiet == ASSUME RInv, CopyIn PROVE Transit' = Transit
<1> DEFINE H == Held(head, Taken)
<1>1. UNCHANGED <<head, tail, out, r>> /\ Taken' = Taken
  BY DEF CopyIn, reader, Taken
<1>2. H \in 0 .. Ring /\ H + n <= Ring /\ n \in Nat /\ Taken \in 0 .. Wrap - 1 /\ Taken \in Nat
  <2>1. Held(head, tail) \in Nat /\ Held(head, tail) + n <= Ring /\ n \in Nat
    BY HeldType, RingAssumption DEF RInv, TypeOK, WriteFits, CopyIn
  <2>2. H \in Nat /\ H <= Held(head, tail) /\ Taken \in 0 .. Wrap - 1
    BY TakenIs
  <2> QED BY <2>1, <2>2, WrapFacts, RingAssumption
<1>3. ASSUME NEW i \in 1 .. H
      PROVE  ring'[(Taken + (i - 1)) % Ring] = ring[(Taken + (i - 1)) % Ring]
  <2> DEFINE c == (Taken + (i - 1)) % Ring
  <2>1. c \in 0 .. Ring - 1
    BY <1>2, RingAssumption
  <2>2. ASSUME NEW k \in 0 .. n - 1 PROVE (head + k) % Ring # c
    <3> DEFINE a == Taken + (i - 1)
               d == H + k - (i - 1)
    <3>1. a \in Nat /\ d \in 1 .. Ring - 1 /\ a + d = Taken + H + k /\ k \in Nat
      BY <1>2, RingAssumption
    <3>2. (head + k) % Ring = (Taken + H + k) % Ring
      BY <3>1, CellsBehind
    <3>3. (a + d) % Ring # a % Ring
      <4> HIDE DEF a, d
      <4> QED BY <3>1, CellsApart
    <3> QED BY <3>1, <3>2, <3>3
  <2> HIDE DEF c
  <2>3. ring'[c] = ring[c]
    BY <2>1, <2>2, CopyInTouches
  <2> QED BY <2>3 DEF c
<1>4. Transit = [i \in 1 .. H |-> ring[(Taken + (i - 1)) % Ring]]
  BY <1>2, CellsOf DEF Transit
<1>5. Transit' = [i \in 1 .. H |-> ring'[(Taken + (i - 1)) % Ring]]
  BY <1>1, <1>2, CellsOf DEF Transit
<1> QED BY <1>3, <1>4, <1>5

\* Publishing sends the bytes copied behind those in transit.
LEMMA PublishSends == ASSUME RInv, Publish PROVE S!Send
<1> DEFINE H == Held(head, Taken)
<1>1. UNCHANGED <<ring, tail, out, r>> /\ Taken' = Taken
  BY DEF Publish, reader, Taken
<1>2. H \in 0 .. Ring /\ H + n <= Ring /\ n \in 1 .. Len(parts) /\ n \in 0 .. Ring
      /\ Taken \in 0 .. Wrap - 1 /\ Taken \in Nat
  <2>1. Held(head, tail) \in Nat /\ Held(head, tail) + n <= Ring /\ n \in 0 .. Ring /\ n \in 1 .. Len(parts)
    BY HeldType, RingAssumption DEF RInv, TypeOK, WriteFits, Publish
  <2>2. H \in Nat /\ H <= Held(head, tail) /\ Taken \in 0 .. Wrap - 1
    BY TakenIs
  <2> QED BY <2>1, <2>2, WrapFacts, RingAssumption
<1>3. Held(head', Taken) = H + n
  <2>1. head \in 0 .. Wrap - 1 /\ head' = Plus(head, n)
    BY DEF RInv, TypeOK, Publish
  <2> QED BY <1>2, <2>1, HeldGrows
<1>4. Transit = [i \in 1 .. H |-> ring[(Taken + (i - 1)) % Ring]]
  BY <1>2, CellsOf DEF Transit
<1>5. Transit' = [i \in 1 .. H + n |-> ring[(Taken + (i - 1)) % Ring]]
  <2>1. H + n \in 0 .. Ring
    BY <1>2, RingAssumption
  <2> QED BY <1>1, <1>2, <1>3, <2>1, CellsOf DEF Transit
<1>6. ASSUME NEW i \in 1 .. H + n, ~(i <= H)
      PROVE  ring[(Taken + (i - 1)) % Ring] = parts[i - H]
  <2> DEFINE k == i - 1 - H
  <2>1. k \in 0 .. n - 1 /\ k \in Nat /\ Taken + H + k = Taken + (i - 1) /\ k + 1 = i - H
    BY <1>2, <1>6
  <2>2. (head + k) % Ring = (Taken + H + k) % Ring
    BY <2>1, CellsBehind
  <2>3. ring[(head + k) % Ring] = parts[k + 1]
    BY <2>1 DEF RInv, CopiedIsThere, Publish
  <2> QED BY <2>1, <2>2, <2>3
<1>7. Len(Transit) = H /\ Asked = parts /\ Asked' = <<>>
  BY <1>2, <1>4 DEF Asked, Publish
<1>8. Transit' = [i \in 1 .. H + n |-> IF i <= H THEN Transit[i] ELSE Asked[i - H]]
  BY <1>2, <1>4, <1>5, <1>6, <1>7
<1> HIDE DEF H
<1> QED BY <1>1, <1>2, <1>7, <1>8 DEF S!Send

\* Copying out receives the oldest bytes in transit.
LEMMA CopyOutReceives == ASSUME RInv, CopyOut PROVE S!Receive
<1> DEFINE H == Held(head, tail)
<1>1. UNCHANGED <<ring, head, tail, w, parts>> /\ r = "take" /\ Taken = tail
  BY DEF CopyOut, writer, Taken
<1>2. H \in 0 .. Ring /\ Held(seen, tail) \in 1 .. H /\ tail \in 0 .. Wrap - 1 /\ tail \in Nat
      /\ head \in 0 .. Wrap - 1
  BY <1>1, HeldType, WrapFacts, RingAssumption DEF RInv, TypeOK, CountersFit
<1>3. ~(Held(seen, tail) > Ring) /\ r' = "store"
  BY <1>2, RingAssumption DEF CopyOut
<1>4. PICK room \in 1 .. MaxPart :
        LET size == Min(Held(seen, tail), room)
            at == tail % Ring
            first == Min(size, Ring - at)
        IN out' = [i \in 1 .. size |->
                     IF i <= first THEN ring[at + i - 1] ELSE ring[i - first - 1]]
  BY <1>3 DEF CopyOut
<1> DEFINE size == Min(Held(seen, tail), room)
           at == tail % Ring
           first == Min(size, Ring - at)
<1>5. out' = [i \in 1 .. size |->
                IF i <= first THEN ring[at + i - 1] ELSE ring[i - first - 1]]
  BY <1>4
<1>6. size \in 1 .. H /\ size \in 0 .. Ring /\ size \in Nat
  BY <1>2, RingAssumption DEF Min
<1>7. at \in 0 .. Ring - 1 /\ first = IF size < Ring - at THEN size ELSE Ring - at
  BY <1>2, RingAssumption DEF Min
<1>8. ASSUME NEW i \in 1 .. size
      PROVE  (tail + (i - 1)) % Ring = IF i <= first THEN at + i - 1 ELSE i - first - 1
  <2>1. i - 1 \in 0 .. Ring - 1
    BY <1>2, <1>6, RingAssumption
  <2>2. (tail + (i - 1)) % Ring = IF at + (i - 1) < Ring THEN at + (i - 1) ELSE at + (i - 1) - Ring
    BY <1>2, <2>1, CellIs
  <2> HIDE DEF at, first, size
  <2> QED BY <1>6, <1>7, <2>1, <2>2, RingAssumption
<1> HIDE DEF size, at, first
<1>9. out' = [i \in 1 .. size |-> ring[(tail + (i - 1)) % Ring]]
  BY <1>5, <1>8
<1>10. Transit = [i \in 1 .. H |-> ring[(tail + (i - 1)) % Ring]]
  BY <1>1, <1>2, CellsOf DEF Transit
<1>11. Len(out') = size /\ Taken' = Plus(tail, size)
  BY <1>1, <1>3, <1>6, <1>9 DEF Taken
<1>12. Plus(tail, size) \in 0 .. Wrap - 1 /\ Held(head, Plus(tail, size)) = H - size
  BY <1>2, <1>6, HeldShrinks
<1>13. Transit' = [i \in 1 .. H - size |-> ring[(Plus(tail, size) + (i - 1)) % Ring]]
  <2>1. H - size \in 0 .. Ring
    BY <1>2, <1>6, RingAssumption
  <2> QED BY <1>1, <1>11, <1>12, <2>1, CellsOf DEF Transit
<1>14. ASSUME NEW i \in 1 .. H - size
       PROVE  (Plus(tail, size) + (i - 1)) % Ring = (tail + ((size + i) - 1)) % Ring
  <2>1. i - 1 \in Nat /\ tail + size + (i - 1) = tail + ((size + i) - 1)
    BY <1>2, <1>6
  <2> QED BY <1>2, <1>6, <2>1, CellKept
<1>15. Transit' = [i \in 1 .. H - size |-> Transit[size + i]]
  <2>1. \A i \in 1 .. H - size : size + i \in 1 .. H
    BY <1>2, <1>6
  <2> QED BY <1>10, <1>13, <1>14, <2>1
<1>16. out' = [i \in 1 .. size |-> Transit[i]]
  <2>1. \A i \in 1 .. size : i \in 1 .. H
    BY <1>2, <1>6
  <2> QED BY <1>9, <1>10, <2>1
<1>17. Len(Transit) = H /\ UNCHANGED Asked
  BY <1>1, <1>2, <1>10 DEF Asked
<1> HIDE DEF H
<1> QED BY <1>1, <1>3, <1>6, <1>15, <1>16, <1>17 DEF S!Receive

\* A step that touches neither the ring, its counters nor what was copied out
\* is no step of the pipe.
LEMMA QuietSteps ==
  ASSUME RInv,
         \/ Look \/ Swap \/ RingBell
         \/ Poll \/ SpinOver \/ MarkAsleep \/ LastLook \/ Wake \/ Hear \/ HearEnd
         \/ TimesOut \/ CloseHere \/ CloseThere \/ SeeGone
  PROVE  UNCHANGED S!vars
<1>1. UNCHANGED <<ring, head, tail, parts, out>>
  BY DEF Look, Swap, RingBell, Poll, SpinOver, MarkAsleep, LastLook, Wake, Hear, HearEnd,
         TimesOut, CloseHere, CloseThere, SeeGone, writer, reader
<1>2. /\ r = "store" <=> r' = "store"
      /\ r = "ended" <=> r' = "ended"
      /\ w \in {"room", "copy", "publish"} <=> w' \in {"room", "copy", "publish"}
  BY DEF Look, Swap, RingBell, Poll, SpinOver, MarkAsleep, LastLook, Wake, Hear, HearEnd,
         TimesOut, CloseHere, CloseThere, SeeGone, writer, reader
<1>3. Taken' = Taken /\ Asked' = Asked
  BY <1>1, <1>2 DEF Taken, Asked
<1> QED BY <1>1, <1>2, <1>3, TransitKept DEF S!vars

\* Every step of the ring is a step of the pipe or none.
LEMMA PipeStep == ASSUME RInv, [Next]_vars PROVE [S!Next]_S!vars
<1>1. CASE Write
  <2>1. Asked = <<>> /\ Asked' \in Seq(Byte)
    BY <1>1 DEF Write, Asked
  <2>2. UNCHANGED <<ring, head, out, r>> /\ Taken' = Taken
    BY <1>1 DEF Write, reader, Taken
  <2> QED BY <2>1, <2>2, TransitKept DEF S!Next, S!Ask
<1>2. CASE FindRoom
  <2>1. w' \in {"copy", "invalid"} /\ w = "room"
    BY <1>2 DEF FindRoom
  <2>2. w' # "invalid"
    BY <1>2, RingStep DEF RInv, NeverRefused, Next, Writing
  <2>3. UNCHANGED <<ring, head, out, r>> /\ Taken' = Taken /\ Asked' = Asked
    BY <1>2, <2>1, <2>2 DEF FindRoom, reader, Taken, Asked
  <2> QED BY <2>3, TransitKept DEF S!vars
<1>3. CASE GiveUp
  <2>1. UNCHANGED <<ring, head, out, r>> /\ Taken' = Taken /\ Asked' = <<>>
    BY <1>3 DEF GiveUp, reader, Taken, Asked
  <2> QED BY <2>1, TransitKept DEF S!Next, S!GiveUp
<1>4. CASE CopyIn
  <2>1. UNCHANGED <<out, r>> /\ Asked' = Asked
    BY <1>4 DEF CopyIn, reader, Asked
  <2> QED BY <1>4, <2>1, CopyInIsQuiet DEF S!vars
<1>5. CASE Publish
  BY <1>5, PublishSends DEF S!Next
<1>6. CASE FinalLook
  <2>1. UNCHANGED <<ring, head, out, tail>> /\ Taken' = Taken /\ Asked' = Asked /\ Taken = tail
    BY <1>6 DEF FinalLook, writer, Taken, Asked
  <2>2. Transit' = Transit
    BY <2>1, TransitKept
  <2>3. CASE head # tail
    <3>1. r = "ending" /\ r' = "take"
      BY <1>6, <2>3 DEF FinalLook
    <3> QED BY <2>1, <2>2, <3>1 DEF S!vars
  <2>4. CASE head = tail
    <3>1. r' = "ended"
      BY <1>6, <2>4 DEF FinalLook
    <3>2. Held(head, Taken) = 0
      BY <2>1, <2>4, HeldType DEF RInv, TypeOK
    <3>3. Transit = <<>>
      BY <3>2 DEF Transit
    <3> QED BY <2>1, <2>2, <3>1, <3>3 DEF S!Next, S!End
  <2> QED BY <2>3, <2>4
<1>7. CASE CopyOut
  BY <1>7, CopyOutReceives DEF S!Next
<1>8. CASE StoreTail
  <2>1. UNCHANGED <<ring, head, out, w, parts>> /\ Taken' = Taken /\ r = "store" /\ r' = "poll"
    BY <1>8 DEF StoreTail, writer, Taken
  <2>2. Asked' = Asked
    BY <2>1 DEF Asked
  <2> QED BY <2>1, <2>2, TransitKept DEF S!vars
<1>9. CASE UNCHANGED vars
  <2>1. UNCHANGED <<ring, head, out, r>> /\ Taken' = Taken /\ Asked' = Asked
    BY <1>9 DEF vars, Taken, Asked
  <2> QED BY <2>1, TransitKept DEF S!vars
<1> QED
  BY <1>1, <1>2, <1>3, <1>4, <1>5, <1>6, <1>7, <1>8, <1>9, QuietSteps DEF Next, Writing, Reading

\* The ring is a bounded pipe (IsByteStream): every byte published comes out once
\* and in order, across the ring's end and the counters' wrap, and no read ends
\* before what was published is read (transport/shm.rs, copy_in and copy_out).
THEOREM RingIsPipe == Spec => IsByteStream
<1>1. Init => S!Init
  <2> SUFFICES ASSUME Init PROVE S!Init
    OBVIOUS
  <2>1. Taken = 0 /\ Asked = <<>> /\ r # "ended" /\ out = <<>>
    BY DEF Init, Taken, Asked
  <2>2. Held(0, 0) = 0
    BY WrapFacts, HeldType
  <2>3. Transit = <<>>
    BY <2>1, <2>2 DEF Init, Transit
  <2> QED BY <2>1, <2>3 DEF S!Init
<1>2. RInv /\ [Next]_vars => [S!Next]_S!vars
  BY PipeStep
<1> QED BY <1>1, <1>2, RingInv, PTL DEF Spec, IsByteStream, S!Spec
=============================================================================
