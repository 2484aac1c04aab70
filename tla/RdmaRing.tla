------------------------------ MODULE RdmaRing ------------------------------
(***************************************************************************)
(* Frames over RDMA (transport/rdma/ring.rs).  Each side writes into the   *)
(* other's inbox from a staging area, by requests its queue pair carries   *)
(* out in order and later; a data write uses up a receive the peer posted, *)
(* and waits for one (rnr_retry is infinite, verbs.rs).  The reader writes *)
(* how far it read into the counter of the writer, through the same send   *)
(* queue its own side's data goes through.                                 *)
(*                                                                         *)
(* A byte is its number in the stream; positions are kept modulo           *)
(* 2^32, here Modulus.  Frames do not matter here: a write offers any      *)
(* number of bytes, a read takes any number of those held.  `sends` is     *)
(* locked for a reap and a post: what a waiter in `post` reaps is reaped   *)
(* by the step that ends the wait.                                         *)
(***************************************************************************)
EXTENDS Naturals, Sequences, FiniteSets

CONSTANTS
  RING,          \* bytes an inbox and a staging area hold
  Modulus,       \* 2^32: a whole number of rings
  CHUNK,         \* the largest single write
  CREDIT_EVERY,  \* how far a reader reads before it tells the writer
  SENDS,         \* requests a send queue holds
  RECVS,         \* receives kept posted
  RdmaScopes     \* bounds: how many bytes each side writes, in what sizes, and who ends the link

ASSUME RingAssumption ==
  /\ RING \in Nat \ {0} /\ Modulus \in Nat /\ Modulus % RING = 0 /\ Modulus > RING
  /\ CHUNK \in Nat \ {0} /\ CREDIT_EVERY \in 1 .. RING
  /\ SENDS \in Nat \ {0} /\ RECVS \in Nat \ {0}
  /\ \A b \in RdmaScopes : b.sizes \subseteq Nat \ {0}

Sides == {1, 2}
PeerOf(s) == 3 - s
Slots == 0 .. RING - 1
Positions == 0 .. Modulus - 1
Plus(p, n) == (p + n) % Modulus               \* wrapping_add
Minus(p, q) == (p + Modulus - q) % Modulus    \* wrapping_sub

CREDIT == Modulus         \* a request that was a position
FAILED == Modulus + 1     \* one with a status other than success

VARIABLES
  bounds,   \* one of RdmaScopes
  writer,   \* each side's Writer: where it is, head, and `n`, what it is posting
  reader,   \* each side's Reader: where it is, head, tail, told, ended
  staging,  \* each side's staging area
  inbox,    \* each side's inbox
  counter,  \* the word after it, the peer's to write
  sendq,    \* requests posted and not carried out
  sendcq,   \* requests carried out and not reaped: the position of a data
            \* write, or one of the two below
  completed,
  recvs,    \* receives posted
  recvcq,   \* receives completed and not reaped: a length, or 0 for a flush
  gone,     \* Shared.gone
  side,     \* the TCP connection beside the link has been shut down
  closed,   \* how each side ended the link: "no", "clean" or "cut"
  up,       \* each side's queue pair is there
  sent,     \* history: bytes each side's writer posted
  got       \* history: bytes each side's reader took

rvars == <<bounds, writer, reader, staging, inbox, counter, sendq, sendcq, completed, recvs,
           recvcq, gone, side, closed, up, sent, got>>

RdmaInit ==
  /\ bounds \in RdmaScopes
  /\ writer = [s \in Sides |-> [at |-> "idle", head |-> 0, n |-> 0]]
  /\ reader = [s \in Sides |-> [at |-> "read", head |-> 0, tail |-> 0, told |-> 0,
                                ended |-> FALSE]]
  /\ staging = [s \in Sides |-> [i \in Slots |-> 0]]
  /\ inbox = [s \in Sides |-> [i \in Slots |-> 0]]
  /\ counter = [s \in Sides |-> 0]
  /\ sendq = [s \in Sides |-> <<>>]
  /\ sendcq = [s \in Sides |-> <<>>]
  /\ completed = [s \in Sides |-> 0]
  /\ recvs = [s \in Sides |-> RECVS]
  /\ recvcq = [s \in Sides |-> <<>>]
  /\ gone = [s \in Sides |-> FALSE]
  /\ side = FALSE
  /\ closed = [s \in Sides |-> "no"]
  /\ up = [s \in Sides |-> TRUE]
  /\ sent = [s \in Sides |-> 0]
  /\ got = [s \in Sides |-> 0]

-----------------------------------------------------------------------------
(* Shared: reap, post, end.                                                *)

Failed(s) == \E i \in 1 .. Len(sendcq[s]) : sendcq[s][i] = FAILED

\* reap: the position of the last data write completed, if any completed.
Marks(s) == {i \in 1 .. Len(sendcq[s]) : sendcq[s][i] \in Positions}
Completed(s) ==
  IF Marks(s) = {} THEN completed[s]
  ELSE sendcq[s][CHOOSE i \in Marks(s) : \A j \in Marks(s) : j <= i]

\* A failure stays: it is kept in the completion queue rather than a field.
Reap(s) ==
  /\ completed' = [completed EXCEPT ![s] = Completed(s)]
  /\ sendcq' = [sendcq EXCEPT ![s] = IF Failed(s) THEN <<FAILED>> ELSE <<>>]

\* What keeps `post` from posting, for good.
PostFails(s) == Failed(s) \/ (Len(sendq[s]) = SENDS /\ gone[s])

\* Mutant of Post: the send queue is never full.
PostMutant(s, request) ==
  /\ ~Failed(s)
  /\ Reap(s)
  /\ sendq' = [sendq EXCEPT ![s] = Append(@, request)]

Posts(s) == ~Failed(s) /\ Len(sendq[s]) < SENDS

Post(s, request) ==
  /\ Posts(s)
  /\ Reap(s)
  /\ sendq' = [sendq EXCEPT ![s] = Append(@, request)]

\* A reader waiting in `post` has `sends` locked as long as it waits.  One that
\* has not come to the lock yet might as well not have taken its bytes yet.
Spins(s) == reader[s].at = "credit" /\ ~Posts(s) /\ ~PostFails(s)

End(s, how) ==
  /\ gone' = [gone EXCEPT ![s] = TRUE]
  /\ side' = TRUE
  /\ closed' = [closed EXCEPT ![s] = IF @ = "no" THEN how ELSE @]

-----------------------------------------------------------------------------
(* The writer.                                                             *)

\* Mutant of Used: only what has not been carried out counts.
UsedMutant(s) == Minus(writer[s].head, Completed(s))

\* room: what both the peer's counter and the completions leave.
Used(s) == LET unread == Minus(writer[s].head, counter[s])
               unsent == Minus(writer[s].head, Completed(s))
           IN IF unread > unsent THEN unread ELSE unsent

Refused(s) == Minus(writer[s].head, counter[s]) > RING

\* write_some, up to the copy into staging.
Stage(s, n) ==
  /\ writer[s].at = "idle" /\ ~Spins(s)
  /\ ~gone[s] /\ ~Failed(s) /\ ~Refused(s)
  /\ LET head == writer[s].head
         at == head % RING IN
       /\ n <= RING - Used(s) /\ n <= RING - at /\ n <= CHUNK /\ sent[s] + n <= bounds.limit[s]
       /\ staging' = [staging EXCEPT ![s] = [i \in Slots |->
            IF i \in at .. at + n - 1 THEN sent[s] + 1 + (i - at) ELSE @[i]]]
       /\ writer' = [writer EXCEPT ![s] = [at |-> "post", head |-> head, n |-> n]]
  /\ Reap(s)
  /\ UNCHANGED <<reader, inbox, counter, sendq, recvs, recvcq, gone, side, closed, up, sent, got>>

\* write_some, the post.
PostData(s) ==
  LET w == writer[s] IN
  /\ w.at = "post"
  /\ Post(s, [kind |-> "data", at |-> w.head % RING, n |-> w.n, end |-> Plus(w.head, w.n)])
  /\ writer' = [writer EXCEPT ![s] = [at |-> "idle", head |-> Plus(w.head, w.n), n |-> 0]]
  /\ sent' = [sent EXCEPT ![s] = @ + w.n]
  /\ UNCHANGED <<reader, staging, inbox, counter, recvs, recvcq, gone, side, closed, up, got>>

\* A write that fails: the link is gone, a request failed, the peer's position
\* is not one this side wrote, or the peer took nothing in for too long.
WriteFails(s) ==
  LET full == Used(s) >= RING IN
  /\ writer[s].at \in {"idle", "post"} /\ ~Spins(s)
  /\ IF writer[s].at = "post" THEN PostFails(s) ELSE gone[s] \/ Failed(s) \/ Refused(s) \/ full
  /\ writer' = [writer EXCEPT ![s].at =
                  IF @ = "idle" /\ ~gone[s] /\ ~Failed(s) /\ Refused(s) THEN "refused" ELSE "failed"]
  /\ UNCHANGED <<reader, staging, inbox, counter, sendq, sendcq, completed, recvs, recvcq,
                 gone, side, closed, up, sent, got>>

\* Mutant of SendsFlushed: the side channel is shut while writes are on their way.
SendsFlushedMutant(s) == TRUE

SendsFlushed(s) == sendq[s] = <<>> \/ Failed(s)

\* Writer::shutdown: what was posted lands first, unless the deadline passes; but
\* it looks under `sends`, however late that is.
Shutdown(s, late) ==
  /\ writer[s].at \in {"idle", "failed", "refused"} /\ ~Spins(s)
  /\ closed[s] = "no" /\ s \in bounds.ends
  /\ late \/ SendsFlushed(s)
  /\ Reap(s)
  /\ End(s, IF late \/ Failed(s) THEN "cut" ELSE "clean")
  /\ writer' = [writer EXCEPT ![s].at = "shut"]
  /\ UNCHANGED <<reader, staging, inbox, counter, sendq, recvs, recvcq, up, sent, got>>

\* Connection.closer, from another thread.
CloseNow(s) ==
  /\ closed[s] = "no" /\ s \in bounds.ends
  /\ End(s, "cut")
  /\ UNCHANGED <<writer, reader, staging, inbox, counter, sendq, sendcq, completed, recvs,
                 recvcq, up, sent, got>>

-----------------------------------------------------------------------------
(* The reader.                                                             *)

HeldBytes(s) == Minus(reader[s].head, reader[s].tail)

Total(f, n) == LET g[i \in 0 .. n] == IF i = 0 THEN 0 ELSE f[i] + g[i - 1] IN g[n]

\* drain, called with nothing held: every receive completed is posted again.
Drain(s) ==
  LET n == Total(recvcq[s], Len(recvcq[s]))
      data == {i \in 1 .. Len(recvcq[s]) : recvcq[s][i] > 0} IN
  /\ reader[s].at = "read" /\ HeldBytes(s) = 0
  /\ recvcq[s] # <<>>
  /\ reader' = [reader EXCEPT ![s].head = Plus(@, n),
                              ![s].ended = @ \/ Cardinality(data) < Len(recvcq[s]),
                              ![s].at = IF n > RING THEN "refused" ELSE @]
  /\ recvs' = [recvs EXCEPT ![s] = @ + Cardinality(data)]
  /\ recvcq' = [recvcq EXCEPT ![s] = <<>>]
  /\ UNCHANGED <<writer, staging, inbox, counter, sendq, sendcq, completed, gone, side, closed,
                 up, sent, got>>

\* fill, woken by the side channel.
SeesEnd(s) ==
  /\ reader[s].at = "read" /\ HeldBytes(s) = 0
  /\ side /\ ~reader[s].ended
  /\ reader' = [reader EXCEPT ![s].ended = TRUE]
  /\ gone' = [gone EXCEPT ![s] = TRUE]
  /\ UNCHANGED <<writer, staging, inbox, counter, sendq, sendcq, completed, recvs, recvcq, side,
                 closed, up, sent, got>>

Drained(s) == recvcq[s] = <<>>

\* fill, its last look at the completions: the link's end.
ReadEnds(s) ==
  /\ reader[s].at = "read" /\ HeldBytes(s) = 0
  /\ reader[s].ended /\ Drained(s)
  /\ reader' = [reader EXCEPT ![s].at = "end"]
  /\ UNCHANGED <<writer, staging, inbox, counter, sendq, sendcq, completed, recvs, recvcq, gone,
                 side, closed, up, sent, got>>

\* Mutant of Due: a reader tells the writer every ring it read.
DueMutant(tail, told) == Minus(tail, told) > RING

Due(tail, told) == Minus(tail, told) >= CREDIT_EVERY

\* Mutant of Told: the writer is told what landed.
ToldMutant(r, n) == r.head

Told(r, n) == Plus(r.tail, n)

\* take: bytes are copied out, and at every so many the writer is to be told.
Take(s, n) ==
  LET r == reader[s] IN
  /\ r.at = "read"
  /\ n <= HeldBytes(s) /\ n <= RING - (r.tail % RING)
  /\ reader' = [reader EXCEPT ![s].tail = Plus(@, n),
                  ![s].told = IF Due(Plus(r.tail, n), @) THEN Told(r, n) ELSE @,
                  ![s].at = IF Due(Plus(r.tail, n), r.told) THEN "credit" ELSE @]
  /\ got' = [got EXCEPT ![s] = @ + n]
  /\ UNCHANGED <<writer, staging, inbox, counter, sendq, sendcq, completed, recvs, recvcq, gone,
                 side, closed, up, sent>>

\* take, the post of the position.
PostCredit(s) ==
  /\ reader[s].at = "credit"
  /\ Post(s, [kind |-> "credit", at |-> 0, n |-> 0, end |-> reader[s].told])
  /\ reader' = [reader EXCEPT ![s].at = "read"]
  /\ UNCHANGED <<writer, staging, inbox, counter, recvs, recvcq, gone, side, closed, up, sent, got>>

CreditFails(s) ==
  /\ reader[s].at = "credit"
  /\ PostFails(s)
  /\ reader' = [reader EXCEPT ![s].at = "failed"]
  /\ UNCHANGED <<writer, staging, inbox, counter, sendq, sendcq, completed, recvs, recvcq, gone,
                 side, closed, up, sent, got>>

-----------------------------------------------------------------------------
(* The queue pairs.                                                        *)

Carries(s) ==
  /\ up[s] /\ up[PeerOf(s)] /\ sendq[s] # <<>>
  /\ Head(sendq[s]).kind = "data" => recvs[PeerOf(s)] > 0

\* The oldest request of a side is carried out: the bytes leave staging now.
Execute(s) ==
  LET p == PeerOf(s)
      q == Head(sendq[s]) IN
  /\ Carries(s)
  /\ IF q.kind = "data"
     THEN /\ inbox' = [inbox EXCEPT ![p] = [i \in Slots |->
               IF i \in q.at .. q.at + q.n - 1 THEN staging[s][i] ELSE @[i]]]
          /\ recvs' = [recvs EXCEPT ![p] = @ - 1]
          /\ recvcq' = [recvcq EXCEPT ![p] = Append(@, q.n)]
          /\ sendcq' = [sendcq EXCEPT ![s] = Append(@, q.end)]
          /\ UNCHANGED counter
     ELSE /\ counter' = [counter EXCEPT ![p] = q.end]
          /\ sendcq' = [sendcq EXCEPT ![s] = Append(@, CREDIT)]
          /\ UNCHANGED <<inbox, recvs, recvcq>>
  /\ sendq' = [sendq EXCEPT ![s] = Tail(@)]
  /\ UNCHANGED <<writer, reader, staging, completed, gone, side, closed, up, sent, got>>

\* The peer's queue pair is no more: what is posted fails, and the receives
\* posted here are flushed.
Break(s) ==
  /\ up[s] /\ ~up[PeerOf(s)] /\ sendq[s] # <<>>
  /\ sendq' = [sendq EXCEPT ![s] = <<>>]
  /\ sendcq' = [sendcq EXCEPT ![s] = Append(@, FAILED)]
  /\ recvcq' = [recvcq EXCEPT ![s] = Append(@, 0)]
  /\ recvs' = [recvs EXCEPT ![s] = 0]
  /\ UNCHANGED <<writer, reader, staging, inbox, counter, completed, gone, side, closed, up,
                 sent, got>>

\* The last of a side's reader, writer and closer is dropped, and its queue
\* pair with them.
DropLink(s) ==
  /\ up[s]
  /\ closed[s] # "no" /\ writer[s].at \notin {"idle", "post"}
  /\ reader[s].at \in {"end", "failed", "refused"}
  /\ up' = [up EXCEPT ![s] = FALSE]
  /\ UNCHANGED <<writer, reader, staging, inbox, counter, sendq, sendcq, completed, recvs, recvcq,
                 gone, side, closed, sent, got>>

\* A step that carries bytes or positions on is there to be taken: Execute,
\* PostData or PostCredit, Take or Drain.
CanMove(s) ==
  \/ Carries(s)
  \/ Posts(s) /\ (writer[s].at = "post" \/ reader[s].at = "credit")
  \/ reader[s].at = "read" /\ (HeldBytes(s) > 0 \/ ~Drained(s))

RdmaStep == \E s \in Sides :
  \/ \E n \in bounds.sizes : Stage(s, n)
  \/ PostData(s)
  \/ WriteFails(s)
  \/ \E late \in BOOLEAN : Shutdown(s, late)
  \/ CloseNow(s)
  \/ Drain(s)
  \/ SeesEnd(s)
  \/ ReadEnds(s)
  \/ \E n \in 1 .. RING : Take(s, n)
  \/ PostCredit(s)
  \/ CreditFails(s)
  \/ Execute(s)
  \/ Break(s)
  \/ DropLink(s)

RdmaNext == RdmaStep /\ UNCHANGED bounds

-----------------------------------------------------------------------------
(* Properties.                                                             *)

\* Every position is one of the modulus, a queue holds no more than it was made
\* for, and every receive is posted, completed or flushed (ring.rs:156, 249).
RdmaTypeOK ==
  \A s \in Sides :
    /\ writer[s].head \in Positions /\ reader[s].head \in Positions
    /\ reader[s].tail \in Positions /\ counter[s] \in Positions /\ completed[s] \in Positions
    /\ Len(sendq[s]) + Len(sendcq[s]) <= SENDS + 1
    /\ recvs[s] + Len(recvcq[s]) <= RECVS + 1
    /\ gone[s] \in BOOLEAN /\ up[s] \in BOOLEAN /\ closed[s] \in {"no", "clean", "cut"}

\* The bytes a reader holds are those the writer wrote at these positions, in
\* their order: no write leaves staging after a later one took its place there,
\* and none lands on bytes not read (ring.rs:15-18, room).
HeldIsWritten ==
  \A s \in Sides : reader[s].at # "refused" =>
    \A i \in 0 .. HeldBytes(s) - 1 : inbox[s][(reader[s].tail + i) % RING] = got[s] + 1 + i

\* Two sides that both keep to this code never refuse each other's positions,
\* wherever the count wraps (ring.rs:215, 399).
PositionsAccepted ==
  \A s \in Sides : writer[s].at # "refused" /\ reader[s].at # "refused"

\* A reader that reports the link's end after its peer shut down in time has
\* read every byte the peer wrote (ring.rs:480, 294).
CleanEndIsComplete ==
  \A s \in Sides :
    (reader[s].at = "end" /\ closed[PeerOf(s)] = "clean" /\ closed[s] = "no")
      => got[s] = sent[PeerOf(s)]

\* Each side's send queue is full of data writes that wait for a receive, and
\* its reader, which would post one, waits to post a position behind them.
CircularWait ==
  \A s \in Sides :
    /\ Len(sendq[s]) = SENDS /\ reader[s].at = "credit"
    /\ recvs[s] = 0

\* A link nobody ended stands still only when there is nothing left to do: no
\* byte is held or on its way and both writers have room; or in the circular
\* wait of both readers in `post` (ring.rs:172-190, 318).
StandstillIsQueues ==
  (/\ \A s \in Sides : /\ closed[s] = "no" /\ writer[s].at \in {"idle", "post"}
                       /\ reader[s].at \in {"read", "credit"}
   /\ \A s \in Sides : ~CanMove(s))
  => \/ CircularWait
     \/ \A s \in Sides : sendq[s] = <<>> /\ HeldBytes(s) = 0 /\ Used(s) < RING

\* The bytes written are the bytes read, positions are accepted as they wrap,
\* and nobody waits but for room the peer can give.
RdmaIsSound == RdmaTypeOK /\ HeldIsWritten /\ PositionsAccepted /\ CleanEndIsComplete /\ StandstillIsQueues
=============================================================================
