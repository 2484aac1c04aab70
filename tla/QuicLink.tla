------------------------------ MODULE QuicLink ------------------------------
(***************************************************************************)
(* A server's QUIC link (transport/quic.rs: Ending, Shared, Pending::run,  *)
(* LinkWrite): its handshake on the serving thread, its writer, and the    *)
(* threads that end it, by the closer (shut) or by the writer's shutdown   *)
(* (close).                                                                *)
(*                                                                         *)
(* quinn is external: a connection is live until closed, cleanly or        *)
(* abruptly; written bytes are one unit, acknowledged later; a future      *)
(* wakes the handshake as it becomes ready.                                *)
(***************************************************************************)
EXTENDS Naturals, FiniteSets

CONSTANTS
  Shutters,    \* threads that run the closer (Shared::shut), once each
  WriterT,     \* the thread with the link's writer: writes, then Shared::close
  FreeLock     \* nobody

ASSUME QuicAssumption == WriterT \notin Shutters /\ FreeLock \notin Shutters \cup {WriterT}

VARIABLES
  ended,     \* Ending.ended
  waker,     \* Ending.waiting holds the handshake's waker
  shake,     \* where Pending::run is: in which wait, and at which point of it
  arrived,   \* the connection is known to run: "none", "live", "clean" or "abrupt"
  conn,      \* Shared.conn is set
  stream,    \* Shared.send is set
  lock,      \* who holds Shared.send
  ender,     \* where each ending thread is
  writes,    \* where the writer is: "idle", "writing"
  unacked,   \* bytes were written that the peer has not acknowledged
  lost,      \* bytes were written that the peer will never get
  expired    \* CLOSE_WAIT passed before the peer acknowledged

qvars == <<ended, waker, shake, arrived, conn, stream, lock, ender, writes, unacked, lost,
           expired>>

Enders == Shutters \cup {WriterT}

QuicInit ==
  /\ ended = FALSE
  /\ waker = FALSE
  /\ shake = <<"run", "start">>
  /\ arrived = "none"
  /\ conn = FALSE
  /\ stream = FALSE
  /\ lock = FreeLock
  /\ ender = [t \in Enders |-> "no"]
  /\ writes = "idle"
  /\ unacked = FALSE
  /\ lost = FALSE
  /\ expired = FALSE

\* Closing a live connection: what is not acknowledged is lost.
CloseAs(how) ==
  /\ arrived' = IF arrived = "live" THEN how ELSE arrived
  /\ lost' = (lost \/ (arrived = "live" /\ unacked))

-----------------------------------------------------------------------------
(* Pending::run: two waits, each through Ending::or_ended.                 *)

Waits == {"connect", "accept"}
Asleep == shake \in {<<w, "asleep">> : w \in Waits}
Idling == UNCHANGED <<lock, ender, writes, unacked, expired>>

Begins ==
  /\ shake = <<"run", "start">>
  /\ shake' = IF ended THEN <<"run", "over">> ELSE <<"connect", "check">>
  /\ UNCHANGED <<ended, waker, arrived, conn, stream, lost>> /\ Idling

\* The link was ended while the handshake waits: a connection there is closed.
Stops(closes) ==
  /\ shake' = <<"run", "over">>
  /\ IF closes THEN CloseAs("abrupt") ELSE UNCHANGED <<arrived, lost>>
  /\ UNCHANGED <<ended, waker, conn, stream>> /\ Idling

\* or_ended: the check, the waker left, the second look, then the future.
Checks(w) ==
  /\ shake = <<w, "check">>
  /\ IF ended THEN Stops(w = "accept")
     ELSE /\ shake' = <<w, "leave">>
          /\ UNCHANGED <<ended, waker, arrived, conn, stream, lost>> /\ Idling

Leaves(w) ==
  /\ shake = <<w, "leave">>
  /\ waker' = TRUE
  /\ shake' = <<w, "look">>
  /\ UNCHANGED <<ended, arrived, conn, stream, lost>> /\ Idling

\* Mutant of SeesEnded: the second look is left out.
SeesEndedMutant == FALSE

SeesEnded == ended

Looks(w) ==
  /\ shake = <<w, "look">>
  /\ IF SeesEnded THEN Stops(w = "accept")
     ELSE /\ shake' = <<w, "asleep">>
          /\ UNCHANGED <<ended, waker, arrived, conn, stream, lost>> /\ Idling

\* The future is ready: the connection, or the stream; or the wait timed out.
Connected ==
  /\ shake = <<"connect", "asleep">>
  /\ shake' = <<"accept", "check">>
  /\ arrived' = "live"
  /\ UNCHANGED <<ended, waker, conn, stream, lost>> /\ Idling

Accepted ==
  /\ shake = <<"accept", "asleep">>
  /\ shake' = <<"run", "open">>
  /\ UNCHANGED <<ended, waker, arrived, conn, stream, lost>> /\ Idling

TimesOut(w) ==
  /\ shake = <<w, "asleep">>
  /\ Stops(TRUE)

\* Shared::open: the stream, then the connection.
OpensStream ==
  /\ shake = <<"run", "open">> /\ lock = FreeLock
  /\ stream' = TRUE
  /\ shake' = <<"run", "keep">>
  /\ UNCHANGED <<ended, waker, arrived, conn, lost>> /\ Idling

OpensConn ==
  /\ shake = <<"run", "keep">>
  /\ conn' = TRUE
  /\ shake' = <<"run", "last">>
  /\ UNCHANGED <<ended, waker, arrived, stream, lost>> /\ Idling

\* Mutant of EndedMeanwhile: the connection is used without another look.
EndedMeanwhileMutant == FALSE

\* Ended between the stream arriving and the connection being kept.
EndedMeanwhile == ended

LastLook ==
  /\ shake = <<"run", "last">>
  /\ IF EndedMeanwhile THEN Stops(TRUE)
     ELSE /\ shake' = <<"run", "reading">>
          /\ UNCHANGED <<ended, waker, arrived, conn, stream, lost>> /\ Idling

-----------------------------------------------------------------------------
(* LinkWrite::send, under the lock of the stream.  A server's link writes  *)
(* nothing before its first read came back (Link::server).                 *)

Still == UNCHANGED <<ended, waker, shake, conn, stream>>

WriteStarts ==
  /\ writes = "idle" /\ ender[WriterT] = "no"
  /\ shake = <<"run", "reading">> /\ lock = FreeLock
  /\ lock' = WriterT
  /\ writes' = "writing"
  /\ UNCHANGED <<arrived, ender, unacked, lost, expired>> /\ Still

\* A write that comes to its end, or fails with the connection.
WriteEnds ==
  /\ writes = "writing"
  /\ writes' = "idle"
  /\ lock' = FreeLock
  /\ unacked' = (unacked \/ arrived = "live")
  /\ UNCHANGED <<arrived, ender, lost, expired>> /\ Still

Acked ==
  /\ arrived = "live" /\ unacked
  /\ unacked' = FALSE
  /\ UNCHANGED <<arrived, lock, ender, writes, lost, expired>> /\ Still

-----------------------------------------------------------------------------
(* Shared::shut and Shared::close: Ending::end first, in its two steps.    *)

\* Moves the ending thread t from one point to another.
To(t, from, to) == ender[t] = from /\ ender' = [ender EXCEPT ![t] = to]

Ends1(t) ==
  /\ To(t, "no", "wake")
  /\ t = WriterT => writes = "idle"
  /\ ended' = TRUE
  /\ UNCHANGED <<waker, shake, arrived, conn, stream, lock, writes, unacked, lost, expired>>

\* The waker, if it was left, polls the handshake again.
Wakes(t) ==
  /\ To(t, "wake", "stream")
  /\ waker' = FALSE
  /\ shake' = IF waker /\ Asleep THEN <<shake[1], "check">> ELSE shake
  /\ UNCHANGED <<ended, arrived, conn, stream, lock, writes, unacked, lost, expired>>

\* Mutant of Holds: the lock is not kept through the wait.
HoldsMutant(t) == FreeLock

Holds(t) == t

\* finish: the stream is finished; the thread waits holding the lock.
Finishes(t) ==
  /\ To(t, "stream", "finish")
  /\ lock = FreeLock
  /\ lock' = Holds(t)
  /\ UNCHANGED <<arrived, writes, unacked, lost, expired>> /\ Still

\* Mutant of Flushed: the connection closes without the wait.
FlushedMutant(late) == TRUE

\* The peer acknowledged, the connection is gone, or CLOSE_WAIT passed.
Flushed(late) == ~unacked \/ ~stream \/ arrived # "live" \/ late

Finished(t, late) ==
  /\ To(t, "finish", "done")
  /\ Flushed(late)
  /\ lock' = FreeLock
  /\ IF conn THEN CloseAs("clean") ELSE UNCHANGED <<arrived, lost>>
  /\ expired' = (expired \/ late)
  /\ UNCHANGED <<writes, unacked>> /\ Still

\* shut, with the stream in another's hands: the connection closes at once.
Cuts(t) ==
  /\ To(t, "stream", "done")
  /\ t \in Shutters /\ lock # FreeLock
  /\ IF conn THEN CloseAs("abrupt") ELSE UNCHANGED <<arrived, lost>>
  /\ UNCHANGED <<lock, writes, unacked, expired>> /\ Still

QuicNext ==
  \/ Begins
  \/ \E w \in Waits : Checks(w) \/ Leaves(w) \/ Looks(w) \/ TimesOut(w)
  \/ Connected
  \/ Accepted
  \/ OpensStream
  \/ OpensConn
  \/ LastLook
  \/ WriteStarts
  \/ WriteEnds
  \/ Acked
  \/ \E t \in Enders :
       \/ Ends1(t)
       \/ Wakes(t)
       \/ Finishes(t)
       \/ \E late \in BOOLEAN : Finished(t, late)
       \/ Cuts(t)

-----------------------------------------------------------------------------
(* Properties.                                                             *)

\* The stream and the connection are kept in their order, and the stream is in
\* the hands of one write or one finish at a time (quic.rs:556, 597, 842).
QuicTypeOK ==
  /\ ended \in BOOLEAN /\ waker \in BOOLEAN /\ unacked \in BOOLEAN /\ lost \in BOOLEAN
  /\ arrived \in {"none", "live", "clean", "abrupt"}
  /\ conn => stream
  /\ Cardinality({t \in Enders : ender[t] = "finish"}) <= 1
  /\ (\E t \in Enders : ender[t] = "finish") => writes = "idle"

\* A handshake is never left asleep once the link was ended and whoever ended
\* it has gone past waking it (quic.rs:174-201).
HandshakeIsWoken ==
  (ended /\ \A t \in Enders : ender[t] \notin {"wake"})
    => ~Asleep

\* Once an end has come back and the handshake with it, no connection is left
\* live, wherever in the handshake the end came (quic.rs:755-758).
EndedIsClosed ==
  ((\E t \in Enders : ender[t] = "done") /\ shake \in {<<"run", "reading">>, <<"run", "over">>})
    => arrived # "live"

\* A link that closed cleanly, its wait not run out, delivered every byte
\* written (quic.rs:589-607).
CleanIsDelivered == arrived = "clean" /\ ~expired => ~lost

\* However a link over QUIC ends, everyone learns of it and what was written
\* first is delivered.
QuicEnds == QuicTypeOK /\ HandshakeIsWoken /\ EndedIsClosed /\ CleanIsDelivered
=============================================================================
