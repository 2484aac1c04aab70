------------------------------- MODULE Gate -------------------------------
(***************************************************************************)
(* The link's writer and the frames waiting for it (link/gate.rs).         *)
(*                                                                         *)
(* Each member of Frames is one frame with the thread that sends it; that  *)
(* thread may find the writer free and become the one that writes what the *)
(* others queue, and a caller may later take its frame back (Inner::cancel *)
(* at its deadline).  One more thread ends the link (Inner::end): it       *)
(* closes the gate and shuts the writer down if nobody is writing.         *)
(*                                                                         *)
(* Each critical section of the gate's lock is one action, and so is each  *)
(* write of a frame, which may fail after any part of its frame has gone.  *)
(* A panicking write fails as an erring one does.                          *)
(***************************************************************************)
EXTENDS Naturals, Sequences

CONSTANTS Frames, Ender, Nobody

ASSUME GateAssumption == Ender \notin Frames /\ Nobody \notin Frames \cup {Ender}

VARIABLES
  holder,  \* the thread that has taken State.writer, or Nobody
  queued,  \* State.queued
  closed,  \* State.closed
  batch,   \* what the holder has taken to write
  pc,      \* where each frame's sending is
  ender,   \* where the thread in Inner::end is
  wire,    \* the frames handed whole to the transport
  broken,  \* a write on the transport has failed
  shut,    \* the writer has been shut down
  order    \* history: the frames in the order they were accepted

vars == <<holder, queued, closed, batch, pc, ender, wire, broken, shut, order>>

Threads == Frames \cup {Ender}

PcStates ==
  { "new",       \* not sent
    "copying",   \* send_parts found the writer taken and copies the tail
    "writing",   \* in drain, or in send_parts with the writer
    "failing",   \* its write failed; about to record it
    "sent",      \* the send returned Ok
    "retracted", \* retract returned true
    "late",      \* retract returned false
    "refused",   \* Unsent::Closed
    "failed" }   \* Unsent::Failed

EnderStates == {"idle", "closing", "shutting", "ended"}

Init ==
  /\ holder = Nobody
  /\ queued = <<>>
  /\ closed = FALSE
  /\ batch = <<>>
  /\ pc = [f \in Frames |-> "new"]
  /\ ender = "idle"
  /\ wire = <<>>
  /\ broken = FALSE
  /\ shut = FALSE
  /\ order = <<>>

-----------------------------------------------------------------------------
(* A thread that sends: Gate::send, send_with_tail, send_parts.            *)

\* Gate::queue under the lock, the gate closed.
Refuse(f) ==
  /\ pc[f] \in {"new", "copying"}
  /\ closed
  /\ pc' = [pc EXCEPT ![f] = "refused"]
  /\ UNCHANGED <<holder, queued, closed, batch, ender, wire, broken, shut, order>>

\* Gate::queue under the lock: the frame is queued, and its thread takes the
\* writer if it is free, else leaves the frame for the thread writing.
Queue(f) ==
  /\ pc[f] \in {"new", "copying"}
  /\ ~closed
  /\ queued' = Append(queued, f)
  /\ order' = Append(order, f)
  /\ holder' = IF holder = Nobody THEN f ELSE holder
  /\ pc' = [pc EXCEPT ![f] = IF holder = Nobody THEN "writing" ELSE "sent"]
  /\ UNCHANGED <<closed, batch, ender, wire, broken, shut>>

\* Mutant of SendParts: the frame goes at once though the writer is taken.
SendPartsMutant(f) ==
  /\ pc[f] = "new"
  /\ ~closed
  /\ wire' = Append(wire, f)
  /\ order' = Append(order, f)
  /\ pc' = [pc EXCEPT ![f] = "sent"]
  /\ UNCHANGED <<holder, queued, closed, batch, ender, broken, shut>>

\* Gate::send_parts under the lock, the writer free: the frame is written
\* from where it lies, before anything queued meanwhile.
SendParts(f) ==
  /\ pc[f] = "new"
  /\ ~closed
  /\ holder = Nobody
  /\ holder' = f
  /\ batch' = <<f>>
  /\ order' = Append(order, f)
  /\ pc' = [pc EXCEPT ![f] = "writing"]
  /\ UNCHANGED <<queued, closed, ender, wire, broken, shut>>

\* Gate::send_parts under the lock, the writer taken: the tail is copied
\* outside the lock and the frame then queued (or refused).
CopyParts(f) ==
  /\ pc[f] = "new"
  /\ ~closed
  /\ holder # Nobody
  /\ pc' = [pc EXCEPT ![f] = "copying"]
  /\ UNCHANGED <<holder, queued, closed, batch, ender, wire, broken, shut, order>>

-----------------------------------------------------------------------------
(* The thread that has the writer: Gate::drain, write_batch, failed.       *)

\* One frame of the batch goes, in order.
WriteFrame(f) ==
  /\ holder = f
  /\ pc[f] = "writing"
  /\ batch # <<>>
  /\ wire' = Append(wire, Head(batch))
  /\ batch' = Tail(batch)
  /\ UNCHANGED <<holder, queued, closed, pc, ender, broken, shut, order>>

\* A write errs or panics: the rest of the batch is dropped with it.
WriteFails(f) ==
  /\ holder = f
  /\ pc[f] = "writing"
  /\ batch # <<>>
  /\ wire' \in {wire, Append(wire, Head(batch))}
  /\ batch' = <<>>
  /\ broken' = TRUE
  /\ pc' = [pc EXCEPT ![f] = "failing"]
  /\ UNCHANGED <<holder, queued, closed, ender, shut, order>>

\* Mutant of Failed: the writer is lost with the thread whose write failed.
FailedMutant(f) ==
  /\ holder = f
  /\ pc[f] = "failing"
  /\ closed' = TRUE
  /\ queued' = <<>>
  /\ pc' = [pc EXCEPT ![f] = "failed"]
  /\ UNCHANGED <<holder, batch, ender, wire, broken, shut, order>>

\* Gate::failed under the lock.
Failed(f) ==
  /\ holder = f
  /\ pc[f] = "failing"
  /\ closed' = TRUE
  /\ queued' = <<>>
  /\ holder' = Nobody
  /\ pc' = [pc EXCEPT ![f] = "failed"]
  /\ UNCHANGED <<batch, ender, wire, broken, shut, order>>

\* Mutant of TakeBatch: the queue is copied and emptied only after the write.
TakeBatchMutant(f) ==
  /\ holder = f
  /\ pc[f] = "writing"
  /\ batch = <<>>
  /\ queued # <<>>
  /\ batch' = <<Head(queued)>>
  /\ UNCHANGED <<holder, queued, closed, pc, ender, wire, broken, shut, order>>

\* Gate::drain under the lock: everything queued is the next batch.
TakeBatch(f) ==
  /\ holder = f
  /\ pc[f] = "writing"
  /\ batch = <<>>
  /\ queued # <<>>
  /\ batch' = queued
  /\ queued' = <<>>
  /\ UNCHANGED <<holder, closed, pc, ender, wire, broken, shut, order>>

\* Mutant of GiveBack: the queue is not looked at again under the lock.
GiveBackMutant(f) ==
  /\ holder = f
  /\ pc[f] = "writing"
  /\ batch = <<>>
  /\ holder' = Nobody
  /\ pc' = [pc EXCEPT ![f] = "sent"]
  /\ UNCHANGED <<queued, closed, batch, ender, wire, broken, shut, order>>

\* Gate::drain under the lock: nothing is queued and the writer goes back.
GiveBack(f) ==
  /\ holder = f
  /\ pc[f] = "writing"
  /\ batch = <<>>
  /\ queued = <<>>
  /\ holder' = Nobody
  /\ pc' = [pc EXCEPT ![f] = "sent"]
  /\ UNCHANGED <<queued, closed, batch, ender, wire, broken, shut, order>>

-----------------------------------------------------------------------------
(* Gate::retract, by a caller at its deadline, and the link's end.         *)

\* `state.queued.remove(at)` for the frame's position.
Without(f) ==
  LET at == CHOOSE i \in 1 .. Len(queued) : queued[i] = f
  IN [i \in 1 .. Len(queued) - 1 |-> IF i < at THEN queued[i] ELSE queued[i + 1]]

InQueue(f) == \E i \in 1 .. Len(queued) : queued[i] = f

\* The frame is still queued: it never reaches the peer.
Retract(f) ==
  /\ pc[f] = "sent"
  /\ InQueue(f)
  /\ queued' = Without(f)
  /\ pc' = [pc EXCEPT ![f] = "retracted"]
  /\ UNCHANGED <<holder, closed, batch, ender, wire, broken, shut, order>>

\* It is not: written, being written, or given up with a failed write.
RetractLate(f) ==
  /\ pc[f] = "sent"
  /\ ~InQueue(f)
  /\ pc' = [pc EXCEPT ![f] = "late"]
  /\ UNCHANGED <<holder, queued, closed, batch, ender, wire, broken, shut, order>>

\* Mutant of Close: the queue is cleared under a thread that is writing.
CloseMutant ==
  /\ ender = "idle"
  /\ closed' = TRUE
  /\ queued' = <<>>
  /\ ender' = "closing"
  /\ UNCHANGED <<holder, batch, pc, wire, broken, shut, order>>

\* Gate::close under the lock.
Close ==
  /\ ender = "idle"
  /\ closed' = TRUE
  /\ queued' = IF holder = Nobody THEN <<>> ELSE queued
  /\ ender' = "closing"
  /\ UNCHANGED <<holder, batch, pc, wire, broken, shut, order>>

\* Mutant of ShutDown: the writer is shut down under a thread that is writing.
ShutDownMutant ==
  /\ ender = "closing"
  /\ shut' = TRUE
  /\ ender' = "ended"
  /\ UNCHANGED <<holder, queued, closed, batch, pc, wire, broken, order>>

\* Gate::try_with(shutdown), the writer free: it is taken and shut down.
ShutDown ==
  /\ ender = "closing"
  /\ holder = Nobody
  /\ holder' = Ender
  /\ shut' = TRUE
  /\ ender' = "shutting"
  /\ UNCHANGED <<queued, closed, batch, pc, wire, broken, order>>

\* Gate::try_with, the writer taken: it is left to the thread writing.
SkipShutDown ==
  /\ ender = "closing"
  /\ holder # Nobody
  /\ ender' = "ended"
  /\ UNCHANGED <<holder, queued, closed, batch, pc, wire, broken, shut, order>>

\* try_with's drain: what was queued meanwhile is written, then the writer
\* goes back.  A failure here is the link ending anyway.
EnderDrains ==
  /\ ender = "shutting"
  /\ holder' = Nobody
  /\ wire' = wire \o queued
  /\ queued' = <<>>
  /\ ender' = "ended"
  /\ UNCHANGED <<closed, batch, pc, broken, shut, order>>

-----------------------------------------------------------------------------
\* The steps a thread takes on its own once it has started to send.
Sending(f) ==
  \/ pc[f] = "copying" /\ (Refuse(f) \/ Queue(f))
  \/ WriteFrame(f)
  \/ WriteFails(f)
  \/ Failed(f)
  \/ TakeBatch(f)
  \/ GiveBack(f)

Ending == ShutDown \/ SkipShutDown \/ EnderDrains

Next ==
  \/ \E f \in Frames :
       \/ pc[f] = "new" /\ (Refuse(f) \/ Queue(f) \/ SendParts(f) \/ CopyParts(f))
       \/ Sending(f)
       \/ Retract(f)
       \/ RetractLate(f)
  \/ Close
  \/ Ending

\* A thread inside a send goes on: the lock is never held across a write,
\* and a write returns or fails.
Fairness == (\A f \in Frames : WF_vars(Sending(f))) /\ WF_vars(Ending)

Spec == Init /\ [][Next]_vars /\ Fairness

-----------------------------------------------------------------------------
(* Properties.                                                             *)

TypeOK ==
  /\ holder \in Threads \cup {Nobody}
  /\ queued \in Seq(Frames)
  /\ closed \in BOOLEAN
  /\ batch \in Seq(Frames)
  /\ pc \in [Frames -> PcStates]
  /\ ender \in EnderStates
  /\ wire \in Seq(Frames)
  /\ broken \in BOOLEAN
  /\ shut \in BOOLEAN
  /\ order \in Seq(Frames)
  /\ Len(wire) + Len(batch) + Len(queued) <= Len(order)

\* No frame is left without a thread to write it: while the writer is free
\* nothing is queued, which is why close() may clear the queue then and
\* send_parts may write its frame at once without overtaking a queued one.
FreeMeansEmpty == holder = Nobody => queued = <<>> /\ batch = <<>>

\* One thread at a time has the writer, and it is a thread inside a send
\* (or the link's end): the writer is never lost with a thread that left.
OneWriter ==
  /\ \A f \in Frames : pc[f] \in {"writing", "failing"} <=> holder = f
  /\ ender = "shutting" <=> holder = Ender

\* What has gone and what still goes, in order.
Sent == wire \o batch \o queued

\* retract() told its caller the frame never reached the peer: it did not
\* and never will, so the caller sends no CANCEL for it.
RetractedNeverGoes ==
  \A f \in Frames : pc[f] = "retracted" => \A i \in 1 .. Len(Sent) : Sent[i] # f

\* f was accepted before g.
Before(f, g) == \E a, b \in 1 .. Len(order) : a < b /\ order[a] = f /\ order[b] = g

\* Until a write fails, what has gone and what waits are exactly the frames
\* accepted and not taken back, each once and in the order they were accepted:
\* none is lost, duplicated or overtaken, whichever threads write and whatever
\* is taken back or closed meanwhile.
InOrder ==
  /\ \A a, b \in 1 .. Len(order) : order[a] = order[b] => a = b
  /\ ~broken =>
       /\ \A i, k \in 1 .. Len(Sent) : i < k => Before(Sent[i], Sent[k])
       /\ {Sent[i] : i \in 1 .. Len(Sent)}
            = {f \in {order[a] : a \in 1 .. Len(order)} : pc[f] # "retracted"}

\* A frame accepted before a close is written behind it (a GOODBYE queued
\* behind a write in progress), unless it is taken back or a write fails.
AcceptedGoes ==
  \A f \in Frames :
    pc[f] \in {"writing", "sent"} ~>
      \/ \E i \in 1 .. Len(wire) : wire[i] = f
      \/ pc[f] = "retracted"
      \/ broken

\* Nothing is written after the writer is shut down.
QuietAfterShutdown == [][shut => wire' = wire]_vars

\* The gate implements Outbox: the batch is the older part of what pends.
Pending == IF broken THEN <<>> ELSE batch \o queued

O == INSTANCE Outbox WITH pending <- Pending, open <- ~closed

\* Whatever threads share the writing, the peer sees one ordered outbox.
ImplementsOutbox == O!Spec

\* The writer is with a thread that will write all that waits, or is free with
\* nothing waiting.
GateIsExact == TypeOK /\ FreeMeansEmpty /\ OneWriter

\* What goes on the wire is what was accepted and not taken back, in order.
WireIsInOrder == InOrder /\ RetractedNeverGoes
=============================================================================
