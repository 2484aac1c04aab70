---------------------------- MODULE OutsideProofs ----------------------------
(***************************************************************************)
(* How connections end (Deferred, WebLink, QuicLink), proved for any       *)
(* number of threads that end them; what a race of addresses answers       *)
(* (QuicRace), for any number of addresses; what a ring over RDMA delivers *)
(* (RdmaRing), for a ring, queues and writes of any size; what a bridge    *)
(* files and closes (Bridge), for any builds and edits; and when a         *)
(* JavaScript engine runs script (Script), for any libraries, objects,     *)
(* numbers and depth of calls.                                             *)
(***************************************************************************)
EXTENDS Deferred, WebLink, QuicLink, QuicRace, RdmaRing, Bridge, Script, FiniteSetTheorems,
        FunctionTheorems, SequenceTheorems, WellFoundedInduction, TLAPS

-----------------------------------------------------------------------------
(* Deferred.                                                               *)

\* What the parts of a deferred connection are.
DeferredParts ==
  /\ closing \in [Closers -> {"no", "abort", "close", "done"}]
  /\ shutting \in {"no", "close", "done"}
  /\ kept \in BOOLEAN /\ held \in BOOLEAN /\ cut \in BOOLEAN

\* What is set up when, which decides what a closer finds.
SetUpOrder ==
  /\ setUp \in {"start", "setting"} => inner = "none"
  /\ setUp \in {"undo", "failed"} => deferred = "ended"
  /\ held \/ kept => setUp = "reading"
  /\ shutting = "done" => inner = "ended" /\ setUp = "reading"

\* What each closer was to do, and what is over once it did.
CloserOrder ==
  \A c \in Closers :
    /\ closing[c] = "close" => setUp = "reading"
    /\ closing[c] = "abort" => deferred = "ended"
    /\ closing[c] = "done" => deferred = "ended" \/ (inner = "ended" /\ setUp = "reading")

DInv == DeferredTypeOK /\ DeferredParts /\ SetUpOrder /\ CloserOrder

\* Closers at every step of a set-up find the state these say.
LEMMA DeferredInv == DeferredInit /\ [][DeferredNext]_fvars => []DInv
<1>1. DeferredInit => DInv
  BY DEF DeferredInit, DInv, DeferredTypeOK, DeferredParts, SetUpOrder, CloserOrder
<1>2. DInv /\ [DeferredNext]_fvars => DInv'
  <2> SUFFICES ASSUME DInv, [DeferredNext]_fvars PROVE DInv'
    OBVIOUS
  <2> USE DEF DInv, DeferredTypeOK, DeferredParts, SetUpOrder, CloserOrder
  <2>1. ASSUME NEW c \in Closers, Close(c) PROVE DInv'
    BY <2>1 DEF Close, Decided, EndedBy
  <2>2. ASSUME NEW c \in Closers, Closes(c) PROVE DInv'
    BY <2>2 DEF Closes
  <2>3. CASE SetUpStarts \/ SetUpFails \/ SetUpConnects
    BY <2>3 DEF SetUpStarts, SetUpFails, SetUpConnects, Unset
  <2>4. ASSUME NEW b \in BOOLEAN, Installs(b) PROVE DInv'
    BY <2>4 DEF Installs, GivenUp, Late
  <2>5. ASSUME NEW b \in BOOLEAN, Takes(b) PROVE DInv'
    BY <2>5 DEF Takes, Left
  <2>6. ASSUME NEW b \in BOOLEAN, Shuts(b) PROVE DInv'
    BY <2>6 DEF Shuts, ShutFor
  <2>7. CASE Undoes
    BY <2>7 DEF Undoes, Unset
  <2>8. CASE UNCHANGED fvars
    BY <2>8 DEF fvars
  <2> QED BY <2>1, <2>2, <2>3, <2>4, <2>5, <2>6, <2>7, <2>8 DEF DeferredNext
<1> QED BY <1>1, <1>2, PTL

\* However many closers come and at whatever step of the set-up, a connection
\* closed or given up is over (DeferredEnds).
THEOREM DeferredIsOver == DeferredInit /\ [][DeferredNext]_fvars => []DeferredEnds
<1>1. DInv => DeferredEnds
  BY DEF DInv, DeferredTypeOK, DeferredParts, SetUpOrder, CloserOrder, DeferredEnds, ClosedIsOver,
     GivenUpIsUnused
<1> QED BY <1>1, DeferredInv, PTL

-----------------------------------------------------------------------------
(* WebLink.                                                                *)

\* What the parts of a web link are.
WebParts ==
  /\ stopped \in BOOLEAN /\ cancelling \in BOOLEAN /\ cancelled \in BOOLEAN
  /\ channel \in BOOLEAN /\ shut \in BOOLEAN /\ saw \in BOOLEAN
  /\ opening \in {"made", "start", "shaking", "failed", "open", "reading"}
  /\ endings \in [WebEnders -> [at : {"no", "do", "done"}, cancel : BOOLEAN, close : BOOLEAN]]

\* Until an end takes it or the channel is open, the cancel is there to take.
CancelIsKept ==
  /\ cancelling => ~stopped
  /\ opening = "made" => ~stopped
  /\ opening \in {"start", "shaking"} => cancelling \/ stopped

\* What is still to be closed or cancelled, somebody is about to.
SomebodyWill ==
  /\ \A t \in WebEnders : endings[t].close => channel
  /\ stopped /\ opening = "open" =>
       shut \/ saw \/ \E t \in WebEnders : endings[t].at = "do" /\ endings[t].close
  /\ stopped /\ opening = "reading" =>
       shut \/ \E t \in WebEnders : endings[t].at = "do" /\ endings[t].close
  /\ stopped /\ opening = "shaking" =>
       cancelled \/ \E t \in WebEnders : endings[t].at = "do" /\ endings[t].cancel

WInv == WebTypeOK /\ WebParts /\ CancelIsKept /\ SomebodyWill

\* An end that comes before, during or after the first read leaves one of them
\* to close what is open.
LEMMA WebInv == WebInit /\ [][WebNext]_webvars => []WInv
<1>1. WebInit => WInv
  <2> SUFFICES ASSUME WebInit PROVE WInv
    OBVIOUS
  <2>1. WebParts
    BY DEF WebInit, WebParts
  <2>2. WebTypeOK /\ CancelIsKept /\ SomebodyWill
    BY DEF WebInit, WebTypeOK, CancelIsKept, SomebodyWill
  <2> QED BY <2>1, <2>2 DEF WInv
<1>2. WInv /\ [WebNext]_webvars => WInv'
  <2> SUFFICES ASSUME WInv, [WebNext]_webvars PROVE WInv'
    OBVIOUS
  <2> USE DEF WInv, WebTypeOK, WebParts, CancelIsKept, SomebodyWill
  <2>1. CASE KeepsCancel
    BY <2>1 DEF KeepsCancel
  <2>2. CASE OpenStarts \/ OpenFails
    BY <2>2 DEF OpenStarts, OpenFails
  <2>3. CASE Opens
    BY <2>3 DEF Opens, Kept, SawEnded
  <2>4. CASE OpenEnds
    BY <2>4 DEF OpenEnds
  <2>5. ASSUME NEW t \in WebEnders, opening # "made", EndDecides(t) PROVE WInv'
    BY <2>5 DEF EndDecides, Cancels
  <2>6. ASSUME NEW t \in WebEnders, opening # "made", EndDoes(t) PROVE WInv'
    BY <2>6 DEF EndDoes
  <2>7. CASE UNCHANGED webvars
    BY <2>7 DEF webvars
  <2> QED BY <2>1, <2>2, <2>3, <2>4, <2>5, <2>6, <2>7 DEF WebNext
<1> QED BY <1>1, <1>2, PTL

\* With any number of threads that end it, the end of a web link reaches its
\* channel or its handshake (WebEnds).
THEOREM WebIsOver == WebInit /\ [][WebNext]_webvars => []WebEnds
<1>1. WInv => WebEnds
  BY DEF WInv, WebTypeOK, WebParts, CancelIsKept, SomebodyWill, WebEnds, EndReachesChannel
<1> QED BY <1>1, WebInv, PTL

-----------------------------------------------------------------------------
(* QuicLink.                                                               *)

\* What the parts of a QUIC link are.
QuicParts ==
  /\ ended \in BOOLEAN /\ waker \in BOOLEAN /\ unacked \in BOOLEAN /\ lost \in BOOLEAN
  /\ conn \in BOOLEAN /\ stream \in BOOLEAN /\ expired \in BOOLEAN
  /\ arrived \in {"none", "live", "clean", "abrupt"}
  /\ writes \in {"idle", "writing"}
  /\ ender \in [Enders -> {"no", "wake", "stream", "finish", "done"}]

\* Where the handshake is tells what it has set and what has become of the
\* connection.
ShakeOrder ==
  /\ shake \in {<<"run", x>> : x \in {"start", "over", "open", "keep", "last", "reading"}}
              \cup (Waits \X {"check", "leave", "look", "asleep"})
  /\ shake \in {<<"run", "keep">>, <<"run", "last">>, <<"run", "reading">>} => stream
  /\ shake \in {<<"run", "last">>, <<"run", "reading">>} => conn
  /\ conn => stream
  /\ shake = <<"run", "start">> \/ shake \in ({"connect"} \X {"check", "leave", "look", "asleep"})
       => arrived = "none"
  /\ shake = <<"run", "over">> => arrived # "live"

\* The handshake sleeps only with its waker left, and only where the link has
\* not ended or whoever ended it is about to wake it.
SleepIsHeard ==
  /\ ended <=> \E t \in Enders : ender[t] # "no"
  /\ \A w \in Waits : shake = <<w, "look">> /\ ~ended => waker
  /\ Asleep => waker
  /\ Asleep /\ ended => \E t \in Enders : ender[t] = "wake"

\* The stream's lock is with the thread that finishes it or writes to it.
StreamIsHeld ==
  /\ \A t \in Enders : ender[t] = "finish" => lock = t
  /\ writes = "writing" => lock = WriterT /\ ender[WriterT] = "no"

\* An end that came back closed the connection, or the handshake will.
EndCloses ==
  /\ shake = <<"run", "reading">> /\ (\E t \in Enders : ender[t] = "done") => arrived # "live"
  /\ arrived \in {"none", "live"} => ~lost
  /\ arrived = "clean" /\ ~expired => ~lost

QInv == QuicParts /\ ShakeOrder /\ SleepIsHeard /\ StreamIsHeld /\ EndCloses
\* Every step of the handshake, of the writer and of the ends keeps QInv.
LEMMA QuicStep == QInv /\ [QuicNext]_qvars => QInv'
<1> SUFFICES ASSUME QInv, [QuicNext]_qvars PROVE QInv'
  OBVIOUS
<1>1. ASSUME Begins PROVE QInv'
  <2>1. QuicParts'
    BY <1>1, QuicAssumption DEF QInv, QuicParts, Begins, Idling
  <2>2. ShakeOrder'
    BY <1>1, QuicAssumption DEF QInv, QuicParts, ShakeOrder, Waits, Begins, Idling
  <2>3. SleepIsHeard'
    BY <1>1, QuicAssumption DEF QInv, QuicParts, ShakeOrder, SleepIsHeard, Asleep, Waits, Begins, Idling
  <2>4. StreamIsHeld'
    BY <1>1, QuicAssumption DEF QInv, QuicParts, StreamIsHeld, Enders, Begins, Idling
  <2>5. EndCloses'
    BY <1>1, QuicAssumption DEF QInv, QuicParts, ShakeOrder, SleepIsHeard, EndCloses, Waits, Begins, Idling
  <2> QED BY <2>1, <2>2, <2>3, <2>4, <2>5 DEF QInv
<1>2. ASSUME NEW w \in Waits, Checks(w) PROVE QInv'
  <2>1. QuicParts'
    BY <1>2, QuicAssumption DEF QInv, QuicParts, Checks, Stops, CloseAs, Idling
  <2>2. ShakeOrder'
    BY <1>2, QuicAssumption DEF QInv, QuicParts, ShakeOrder, Waits, Checks, Stops, CloseAs, Idling
  <2>3. SleepIsHeard'
    BY <1>2, QuicAssumption DEF QInv, QuicParts, ShakeOrder, SleepIsHeard, Asleep, Waits, Checks, Stops, CloseAs, Idling
  <2>4. StreamIsHeld'
    BY <1>2, QuicAssumption DEF QInv, QuicParts, StreamIsHeld, Enders, Checks, Stops, CloseAs, Idling
  <2>5. EndCloses'
    BY <1>2, QuicAssumption DEF QInv, QuicParts, ShakeOrder, SleepIsHeard, EndCloses, Waits, Checks, Stops, CloseAs, Idling
  <2> QED BY <2>1, <2>2, <2>3, <2>4, <2>5 DEF QInv
<1>3. ASSUME NEW w \in Waits, Leaves(w) PROVE QInv'
  <2>1. QuicParts'
    BY <1>3, QuicAssumption DEF QInv, QuicParts, Leaves, Idling
  <2>2. ShakeOrder'
    BY <1>3, QuicAssumption DEF QInv, QuicParts, ShakeOrder, Waits, Leaves, Idling
  <2>3. SleepIsHeard'
    BY <1>3, QuicAssumption DEF QInv, QuicParts, ShakeOrder, SleepIsHeard, Asleep, Waits, Leaves, Idling
  <2>4. StreamIsHeld'
    BY <1>3, QuicAssumption DEF QInv, QuicParts, StreamIsHeld, Enders, Leaves, Idling
  <2>5. EndCloses'
    BY <1>3, QuicAssumption DEF QInv, QuicParts, ShakeOrder, SleepIsHeard, EndCloses, Waits, Leaves, Idling
  <2> QED BY <2>1, <2>2, <2>3, <2>4, <2>5 DEF QInv
<1>4. ASSUME NEW w \in Waits, Looks(w) PROVE QInv'
  <2>1. QuicParts'
    BY <1>4, QuicAssumption DEF QInv, QuicParts, Looks, SeesEnded, Stops, CloseAs, Idling
  <2>2. ShakeOrder'
    BY <1>4, QuicAssumption DEF QInv, QuicParts, ShakeOrder, Waits, Looks, SeesEnded, Stops, CloseAs, Idling
  <2>3. SleepIsHeard'
    BY <1>4, QuicAssumption DEF QInv, QuicParts, ShakeOrder, SleepIsHeard, Asleep, Waits, Looks, SeesEnded, Stops, CloseAs, Idling
  <2>4. StreamIsHeld'
    BY <1>4, QuicAssumption DEF QInv, QuicParts, StreamIsHeld, Enders, Looks, SeesEnded, Stops, CloseAs, Idling
  <2>5. EndCloses'
    BY <1>4, QuicAssumption DEF QInv, QuicParts, ShakeOrder, SleepIsHeard, EndCloses, Waits, Looks, SeesEnded, Stops, CloseAs, Idling
  <2> QED BY <2>1, <2>2, <2>3, <2>4, <2>5 DEF QInv
<1>5. ASSUME NEW w \in Waits, TimesOut(w) PROVE QInv'
  <2>1. QuicParts'
    BY <1>5, QuicAssumption DEF QInv, QuicParts, TimesOut, Stops, CloseAs, Idling
  <2>2. ShakeOrder'
    BY <1>5, QuicAssumption DEF QInv, QuicParts, ShakeOrder, Waits, TimesOut, Stops, CloseAs, Idling
  <2>3. SleepIsHeard'
    BY <1>5, QuicAssumption DEF QInv, QuicParts, ShakeOrder, SleepIsHeard, Asleep, Waits, TimesOut, Stops, CloseAs, Idling
  <2>4. StreamIsHeld'
    BY <1>5, QuicAssumption DEF QInv, QuicParts, StreamIsHeld, Enders, TimesOut, Stops, CloseAs, Idling
  <2>5. EndCloses'
    BY <1>5, QuicAssumption DEF QInv, QuicParts, ShakeOrder, SleepIsHeard, EndCloses, Waits, TimesOut, Stops, CloseAs, Idling
  <2> QED BY <2>1, <2>2, <2>3, <2>4, <2>5 DEF QInv
<1>6. ASSUME Connected PROVE QInv'
  <2>1. QuicParts'
    BY <1>6, QuicAssumption DEF QInv, QuicParts, Connected, Idling
  <2>2. ShakeOrder'
    BY <1>6, QuicAssumption DEF QInv, QuicParts, ShakeOrder, Waits, Connected, Idling
  <2>3. SleepIsHeard'
    BY <1>6, QuicAssumption DEF QInv, QuicParts, ShakeOrder, SleepIsHeard, Asleep, Waits, Connected, Idling
  <2>4. StreamIsHeld'
    BY <1>6, QuicAssumption DEF QInv, QuicParts, StreamIsHeld, Enders, Connected, Idling
  <2>5. EndCloses'
    BY <1>6, QuicAssumption DEF QInv, QuicParts, ShakeOrder, SleepIsHeard, EndCloses, Waits, Connected, Idling
  <2> QED BY <2>1, <2>2, <2>3, <2>4, <2>5 DEF QInv
<1>7. ASSUME Accepted PROVE QInv'
  <2>1. QuicParts'
    BY <1>7, QuicAssumption DEF QInv, QuicParts, Accepted, Idling
  <2>2. ShakeOrder'
    BY <1>7, QuicAssumption DEF QInv, QuicParts, ShakeOrder, Waits, Accepted, Idling
  <2>3. SleepIsHeard'
    BY <1>7, QuicAssumption DEF QInv, QuicParts, ShakeOrder, SleepIsHeard, Asleep, Waits, Accepted, Idling
  <2>4. StreamIsHeld'
    BY <1>7, QuicAssumption DEF QInv, QuicParts, StreamIsHeld, Enders, Accepted, Idling
  <2>5. EndCloses'
    BY <1>7, QuicAssumption DEF QInv, QuicParts, ShakeOrder, SleepIsHeard, EndCloses, Waits, Accepted, Idling
  <2> QED BY <2>1, <2>2, <2>3, <2>4, <2>5 DEF QInv
<1>8. ASSUME OpensStream PROVE QInv'
  <2>1. QuicParts'
    BY <1>8, QuicAssumption DEF QInv, QuicParts, OpensStream, Idling
  <2>2. ShakeOrder'
    BY <1>8, QuicAssumption DEF QInv, QuicParts, ShakeOrder, Waits, OpensStream, Idling
  <2>3. SleepIsHeard'
    BY <1>8, QuicAssumption DEF QInv, QuicParts, ShakeOrder, SleepIsHeard, Asleep, Waits, OpensStream, Idling
  <2>4. StreamIsHeld'
    BY <1>8, QuicAssumption DEF QInv, QuicParts, StreamIsHeld, Enders, OpensStream, Idling
  <2>5. EndCloses'
    BY <1>8, QuicAssumption DEF QInv, QuicParts, ShakeOrder, SleepIsHeard, EndCloses, Waits, OpensStream, Idling
  <2> QED BY <2>1, <2>2, <2>3, <2>4, <2>5 DEF QInv
<1>9. ASSUME OpensConn PROVE QInv'
  <2>1. QuicParts'
    BY <1>9, QuicAssumption DEF QInv, QuicParts, OpensConn, Idling
  <2>2. ShakeOrder'
    BY <1>9, QuicAssumption DEF QInv, QuicParts, ShakeOrder, Waits, OpensConn, Idling
  <2>3. SleepIsHeard'
    BY <1>9, QuicAssumption DEF QInv, QuicParts, ShakeOrder, SleepIsHeard, Asleep, Waits, OpensConn, Idling
  <2>4. StreamIsHeld'
    BY <1>9, QuicAssumption DEF QInv, QuicParts, StreamIsHeld, Enders, OpensConn, Idling
  <2>5. EndCloses'
    BY <1>9, QuicAssumption DEF QInv, QuicParts, ShakeOrder, SleepIsHeard, EndCloses, Waits, OpensConn, Idling
  <2> QED BY <2>1, <2>2, <2>3, <2>4, <2>5 DEF QInv
<1>10. ASSUME LastLook PROVE QInv'
  <2>1. QuicParts'
    BY <1>10, QuicAssumption DEF QInv, QuicParts, LastLook, EndedMeanwhile, Stops, CloseAs, Idling
  <2>2. /\ shake' = <<"run", "over">> \/ shake' = <<"run", "reading">>
        /\ shake' = <<"run", "over">> => arrived' # "live"
        /\ shake' = <<"run", "reading">> => conn
        /\ UNCHANGED <<ended, waker, conn, stream, ender, expired>>
    <3>1. CASE ended
      BY <1>10, <3>1 DEF LastLook, EndedMeanwhile, Stops, CloseAs, Idling
    <3>2. CASE ~ended
      BY <1>10, <3>2 DEF LastLook, EndedMeanwhile, Idling, QInv, ShakeOrder
    <3> QED BY <3>1, <3>2
  <2>3. ShakeOrder'
    BY <2>2 DEF QInv, ShakeOrder, Waits
  <2>4. SleepIsHeard'
    BY <2>2 DEF QInv, SleepIsHeard, Asleep, Waits
  <2>5. StreamIsHeld'
    BY <1>10, QuicAssumption DEF QInv, QuicParts, StreamIsHeld, Enders, LastLook, EndedMeanwhile, Stops, CloseAs, Idling
  <2>6. EndCloses'
    BY <1>10, QuicAssumption DEF QInv, QuicParts, ShakeOrder, SleepIsHeard, EndCloses, Waits, LastLook, EndedMeanwhile, Stops, CloseAs, Idling
  <2> QED BY <2>1, <2>3, <2>4, <2>5, <2>6 DEF QInv
<1>11. ASSUME WriteStarts PROVE QInv'
  <2>1. QuicParts'
    BY <1>11, QuicAssumption DEF QInv, QuicParts, WriteStarts, Still
  <2>2. ShakeOrder'
    BY <1>11, QuicAssumption DEF QInv, QuicParts, ShakeOrder, Waits, WriteStarts, Still
  <2>3. SleepIsHeard'
    BY <1>11, QuicAssumption DEF QInv, QuicParts, ShakeOrder, SleepIsHeard, Asleep, Waits, WriteStarts, Still
  <2>4. StreamIsHeld'
    BY <1>11, QuicAssumption DEF QInv, QuicParts, StreamIsHeld, Enders, WriteStarts, Still
  <2>5. EndCloses'
    BY <1>11, QuicAssumption DEF QInv, QuicParts, ShakeOrder, SleepIsHeard, EndCloses, Waits, WriteStarts, Still
  <2> QED BY <2>1, <2>2, <2>3, <2>4, <2>5 DEF QInv
<1>12. ASSUME WriteEnds PROVE QInv'
  <2>1. QuicParts'
    BY <1>12, QuicAssumption DEF QInv, QuicParts, WriteEnds, Still
  <2>2. ShakeOrder'
    BY <1>12, QuicAssumption DEF QInv, QuicParts, ShakeOrder, Waits, WriteEnds, Still
  <2>3. SleepIsHeard'
    BY <1>12, QuicAssumption DEF QInv, QuicParts, ShakeOrder, SleepIsHeard, Asleep, Waits, WriteEnds, Still
  <2>4. StreamIsHeld'
    BY <1>12, QuicAssumption DEF QInv, QuicParts, StreamIsHeld, Enders, WriteEnds, Still
  <2>5. EndCloses'
    BY <1>12, QuicAssumption DEF QInv, QuicParts, ShakeOrder, SleepIsHeard, EndCloses, Waits, WriteEnds, Still
  <2> QED BY <2>1, <2>2, <2>3, <2>4, <2>5 DEF QInv
<1>13. ASSUME Acked PROVE QInv'
  <2>1. QuicParts'
    BY <1>13, QuicAssumption DEF QInv, QuicParts, Acked, Still
  <2>2. ShakeOrder'
    BY <1>13, QuicAssumption DEF QInv, QuicParts, ShakeOrder, Waits, Acked, Still
  <2>3. SleepIsHeard'
    BY <1>13, QuicAssumption DEF QInv, QuicParts, ShakeOrder, SleepIsHeard, Asleep, Waits, Acked, Still
  <2>4. StreamIsHeld'
    BY <1>13, QuicAssumption DEF QInv, QuicParts, StreamIsHeld, Enders, Acked, Still
  <2>5. EndCloses'
    BY <1>13, QuicAssumption DEF QInv, QuicParts, ShakeOrder, SleepIsHeard, EndCloses, Waits, Acked, Still
  <2> QED BY <2>1, <2>2, <2>3, <2>4, <2>5 DEF QInv
<1>14. ASSUME NEW t \in Enders, Ends1(t) PROVE QInv'
  <2>1. QuicParts'
    BY <1>14, QuicAssumption DEF QInv, QuicParts, Ends1, To
  <2>2. ShakeOrder'
    BY <1>14, QuicAssumption DEF QInv, QuicParts, ShakeOrder, Waits, Ends1, To
  <2>3. SleepIsHeard'
    BY <1>14, QuicAssumption DEF QInv, QuicParts, ShakeOrder, SleepIsHeard, Asleep, Waits, Ends1, To
  <2>4. StreamIsHeld'
    BY <1>14, QuicAssumption DEF QInv, QuicParts, StreamIsHeld, Enders, Ends1, To
  <2>5. EndCloses'
    BY <1>14, QuicAssumption DEF QInv, QuicParts, ShakeOrder, SleepIsHeard, EndCloses, Waits, Ends1, To
  <2> QED BY <2>1, <2>2, <2>3, <2>4, <2>5 DEF QInv
<1>15. ASSUME NEW t \in Enders, Wakes(t) PROVE QInv'
  <2>1. QuicParts'
    BY <1>15, QuicAssumption DEF QInv, QuicParts, Wakes, To
  <2>2. ShakeOrder'
    <3>1. CASE waker /\ Asleep
      <4>1. PICK w \in Waits : shake = <<w, "asleep">>
        BY <3>1 DEF Asleep
      <4> QED BY <4>1, <1>15, <3>1 DEF QInv, ShakeOrder, Waits, Wakes
    <3>2. CASE ~(waker /\ Asleep)
      BY <1>15, <3>2 DEF QInv, ShakeOrder, Wakes
    <3> QED BY <3>1, <3>2
  <2>3. SleepIsHeard'
    BY <1>15, QuicAssumption DEF QInv, QuicParts, ShakeOrder, SleepIsHeard, Asleep, Waits, Wakes, To
  <2>4. StreamIsHeld'
    BY <1>15, QuicAssumption DEF QInv, QuicParts, StreamIsHeld, Enders, Wakes, To
  <2>5. EndCloses'
    BY <1>15, QuicAssumption DEF QInv, QuicParts, ShakeOrder, SleepIsHeard, EndCloses, Waits, Wakes, To
  <2> QED BY <2>1, <2>2, <2>3, <2>4, <2>5 DEF QInv
<1>16. ASSUME NEW t \in Enders, Finishes(t) PROVE QInv'
  <2>1. QuicParts'
    BY <1>16, QuicAssumption DEF QInv, QuicParts, Finishes, To, Holds, Still
  <2>2. ShakeOrder'
    BY <1>16, QuicAssumption DEF QInv, QuicParts, ShakeOrder, Waits, Finishes, To, Holds, Still
  <2>3. SleepIsHeard'
    BY <1>16, QuicAssumption DEF QInv, QuicParts, ShakeOrder, SleepIsHeard, Asleep, Waits, Finishes, To, Holds, Still
  <2>4. StreamIsHeld'
    BY <1>16, QuicAssumption DEF QInv, QuicParts, StreamIsHeld, Enders, Finishes, To, Holds, Still
  <2>5. EndCloses'
    BY <1>16, QuicAssumption DEF QInv, QuicParts, ShakeOrder, SleepIsHeard, EndCloses, Waits, Finishes, To, Holds, Still
  <2> QED BY <2>1, <2>2, <2>3, <2>4, <2>5 DEF QInv
<1>17. ASSUME NEW t \in Enders, NEW late \in BOOLEAN, Finished(t, late) PROVE QInv'
  <2>1. QuicParts'
    BY <1>17, QuicAssumption DEF QInv, QuicParts, Finished, To, Flushed, CloseAs, Still
  <2>2. ShakeOrder'
    BY <1>17, QuicAssumption DEF QInv, QuicParts, ShakeOrder, Waits, Finished, To, Flushed, CloseAs, Still
  <2>3. SleepIsHeard'
    BY <1>17, QuicAssumption DEF QInv, QuicParts, ShakeOrder, SleepIsHeard, Asleep, Waits, Finished, To, Flushed, CloseAs, Still
  <2>4. StreamIsHeld'
    BY <1>17, QuicAssumption DEF QInv, QuicParts, StreamIsHeld, Enders, Finished, To, Flushed, CloseAs, Still
  <2>5. EndCloses'
    BY <1>17, QuicAssumption DEF QInv, QuicParts, ShakeOrder, SleepIsHeard, EndCloses, Waits, Finished, To, Flushed, CloseAs, Still
  <2> QED BY <2>1, <2>2, <2>3, <2>4, <2>5 DEF QInv
<1>18. ASSUME NEW t \in Enders, Cuts(t) PROVE QInv'
  <2>1. QuicParts'
    BY <1>18, QuicAssumption DEF QInv, QuicParts, Cuts, To, CloseAs, Still
  <2>2. ShakeOrder'
    BY <1>18, QuicAssumption DEF QInv, QuicParts, ShakeOrder, Waits, Cuts, To, CloseAs, Still
  <2>3. SleepIsHeard'
    BY <1>18, QuicAssumption DEF QInv, QuicParts, ShakeOrder, SleepIsHeard, Asleep, Waits, Cuts, To, CloseAs, Still
  <2>4. StreamIsHeld'
    BY <1>18, QuicAssumption DEF QInv, QuicParts, StreamIsHeld, Enders, Cuts, To, CloseAs, Still
  <2>5. EndCloses'
    BY <1>18, QuicAssumption DEF QInv, QuicParts, ShakeOrder, SleepIsHeard, EndCloses, Waits, Cuts, To, CloseAs, Still
  <2> QED BY <2>1, <2>2, <2>3, <2>4, <2>5 DEF QInv
<1>19. CASE UNCHANGED qvars
  BY <1>19 DEF qvars, QInv, QuicParts, ShakeOrder, SleepIsHeard, StreamIsHeld, EndCloses, Asleep
<1> QED
  BY <1>1, <1>2, <1>3, <1>4, <1>5, <1>6, <1>7, <1>8, <1>9, <1>10, <1>11, <1>12, <1>13, <1>14, <1>15, <1>16, <1>17, <1>18, <1>19 DEF QuicNext

\* Every state a QUIC link reaches satisfies QInv.
LEMMA QuicInv == QuicInit /\ [][QuicNext]_qvars => []QInv
<1>1. QuicInit => QInv
  <2> SUFFICES ASSUME QuicInit PROVE QInv
    OBVIOUS
  <2>1. QuicParts
    BY DEF QuicInit, QuicParts
  <2>2. ShakeOrder
    BY DEF QuicInit, ShakeOrder, Waits
  <2>3. SleepIsHeard
    BY DEF QuicInit, SleepIsHeard, Asleep, Waits
  <2>4. StreamIsHeld
    BY DEF QuicInit, StreamIsHeld
  <2>5. EndCloses
    BY DEF QuicInit, EndCloses
  <2> QED BY <2>1, <2>2, <2>3, <2>4, <2>5 DEF QInv
<1> QED BY <1>1, QuicStep, PTL

\* However a link over QUIC ends (quic.rs: Ending, Shared, Pending::run), the
\* handshake is woken, no connection stays live and what was written before a
\* clean close was delivered: for any number of threads that shut it.
THEOREM QuicIsOver == QuicInit /\ [][QuicNext]_qvars => []QuicEnds
<1>1. ASSUME QInv PROVE QuicEnds
  <2> DEFINE F == {t \in Enders : ender[t] = "finish"}
  <2>1. Cardinality(F) <= 1
    <3>1. CASE F = {}
      BY <3>1, FS_EmptySet
    <3>2. CASE F # {}
      <4>1. F = {lock}
        BY <1>1, <3>2 DEF QInv, StreamIsHeld
      <4> QED BY <4>1, FS_Singleton
    <3> QED BY <3>1, <3>2
  <2>2. QuicTypeOK
    BY <1>1, <2>1 DEF QInv, QuicParts, ShakeOrder, QuicTypeOK, StreamIsHeld
  <2>3. HandshakeIsWoken
    BY <1>1 DEF QInv, SleepIsHeard, HandshakeIsWoken
  <2>4. EndedIsClosed
    BY <1>1 DEF QInv, ShakeOrder, EndCloses, EndedIsClosed
  <2>5. CleanIsDelivered
    BY <1>1 DEF QInv, EndCloses, CleanIsDelivered
  <2> QED BY <2>2, <2>3, <2>4, <2>5 DEF QuicEnds
<1> QED BY <1>1, QuicInv, PTL

-----------------------------------------------------------------------------
(* QuicRace.                                                               *)

AttemptStates == {"no", "check", "leave", "look", "asleep", "linked", "failed", "refused", "stopped"}
Came == {"linked", "failed", "refused"}

RaceParts ==
  /\ started \in 0 .. Cardinality(Addresses)
  /\ attempt \in [Addresses -> AttemptStates]
  /\ results \in Seq(Addresses)
  /\ answered \subseteq Addresses
  /\ race \in {"next", "wait", "linked", "refused", "failed", "expired"}
  /\ isOver \in BOOLEAN /\ slot \in {0} \cup Addresses
  /\ wakes \in {"no", "flag", "wake", "done"}
  /\ links \subseteq Addresses

\* Addresses are tried in order; each comes to the channel once.
TriedInOrder ==
  /\ \A a \in Addresses : a > started => attempt[a] = "no"
  /\ \A a \in answered : a <= started
  /\ \A i \in 1 .. Len(results) : results[i] <= started /\ results[i] \notin answered
  /\ \A i, j \in 1 .. Len(results) : results[i] = results[j] => i = j

\* While the race runs none is stopped, and what came to an end is in the
\* channel or was heard to have failed; the links up are those in the channel.
HeardOrWaiting ==
  /\ wakes = "no" <=> Runs
  /\ isOver => ~Runs
  /\ Runs =>
       /\ \A a \in answered : attempt[a] = "failed"
       /\ \A a \in Addresses : attempt[a] # "stopped"
       /\ \A i \in 1 .. Len(results) : attempt[results[i]] \in Came
       /\ \A a \in links : attempt[a] = "linked"
       /\ \A i \in 1 .. Len(results) : attempt[results[i]] = "linked" => results[i] \in links

RaceInv == RaceParts /\ TriedInOrder /\ HeardOrWaiting
           /\ (\A a \in links : attempt[a] = "linked") /\ AnswerIsRight

\* An attempt that goes on to a point before its end, or ends, keeps RaceInv.
LEMMA AttemptMovesOn ==
  ASSUME RaceInv, NEW a \in Addresses, attempt[a] \in {"check", "leave", "look", "asleep"},
         NEW to \in {"check", "leave", "look", "asleep"}, AttemptMoves(a, to), slot' \in {0} \cup Addresses
  PROVE  RaceInv'
<1> USE DEF RaceInv, RaceParts, TriedInOrder, HeardOrWaiting
<1>1. /\ attempt' = [attempt EXCEPT ![a] = to]
      /\ UNCHANGED <<started, results, answered, race, isOver, wakes, links>>
  BY DEF AttemptMoves
<1>2. RaceParts'
  BY <1>1 DEF AttemptStates
<1>3. TriedInOrder'
  BY <1>1
<1>4. HeardOrWaiting' /\ (\A b \in links : attempt[b] = "linked")'
  BY <1>1 DEF Runs, Came
<1>5. AnswerIsRight'
  BY <1>1 DEF AnswerIsRight
<1> QED BY <1>2, <1>3, <1>4, <1>5

LEMMA AttemptIsOver ==
  ASSUME RaceInv, NEW a \in Addresses, attempt[a] \in {"check", "leave", "look", "asleep"},
         NEW r \in Came \cup {"stopped"}, r = "stopped" => isOver, AttemptEnds(a, r), slot' = slot
  PROVE  RaceInv'
<1> USE RaceAssumption DEF RaceInv, RaceParts, TriedInOrder, HeardOrWaiting
<1>1. /\ attempt' = [attempt EXCEPT ![a] = r]
      /\ UNCHANGED <<started, answered, race, isOver, wakes>>
  BY DEF AttemptEnds
<1>2. CASE ~Runs
  <2>1. UNCHANGED <<results, links>>
    BY <1>2 DEF AttemptEnds
  <2>2. RaceParts' /\ TriedInOrder'
    BY <1>1, <2>1 DEF AttemptStates, Came
  <2>3. HeardOrWaiting' /\ (\A b \in links : attempt[b] = "linked")'
    BY <1>1, <1>2, <2>1 DEF Runs
  <2>4. AnswerIsRight'
    BY <1>1, <2>1 DEF AnswerIsRight
  <2> QED BY <2>2, <2>3, <2>4
<1>3. CASE Runs
  <2>1. /\ results' = Append(results, a)
        /\ links' = IF r = "linked" THEN links \cup {a} ELSE links
        /\ r \in Came
    BY <1>3 DEF AttemptEnds
  <2>2. /\ a <= started /\ a \notin answered
        /\ \A i \in 1 .. Len(results) : results[i] # a
    <3>1. a <= started
      <4> QED BY FS_CardinalityType
    <3> QED BY <1>3, <3>1 DEF Came
  <2>3. /\ Len(results') = Len(results) + 1 /\ results' \in Seq(Addresses)
        /\ results'[Len(results) + 1] = a
        /\ \A i \in 1 .. Len(results) : results'[i] = results[i]
    BY <2>1
  <2>4. RaceParts'
    BY <1>1, <2>1, <2>3 DEF AttemptStates, Came
  <2>5. TriedInOrder'
    <3>1. (\A b \in Addresses : b > started => attempt[b] = "no")'
      BY <1>1, <2>2
    <3>2. (\A i \in 1 .. Len(results) : results[i] <= started /\ results[i] \notin answered)'
      BY <1>1, <2>2, <2>3
    <3>3. (\A i, j \in 1 .. Len(results) : results[i] = results[j] => i = j)'
      BY <2>2, <2>3
    <3> QED BY <1>1, <3>1, <3>2, <3>3
  <2>6. HeardOrWaiting' /\ (\A b \in links : attempt[b] = "linked")'
    <3>1. \A b \in Addresses : b # a => attempt'[b] = attempt[b]
      BY <1>1
    <3>2. attempt'[a] = r
      BY <1>1
    <3>3. \A i \in 1 .. Len(results') : i \in 1 .. Len(results) \/ results'[i] = a
      BY <2>3
    <3>4. Runs' /\ wakes' = wakes /\ isOver' = isOver /\ answered' = answered
      BY <1>1, <1>3 DEF Runs
    <3>5. \A i \in 1 .. Len(results') : attempt'[results'[i]] \in Came
      BY <1>3, <2>1, <2>2, <2>3, <3>1, <3>2, <3>3
    <3>6. \A i \in 1 .. Len(results') : attempt'[results'[i]] = "linked" => results'[i] \in links'
      BY <1>3, <2>1, <2>2, <2>3, <3>1, <3>2, <3>3
    <3>7. \A b \in links' : attempt'[b] = "linked"
      BY <1>3, <2>1, <3>1, <3>2
    <3>8. /\ \A b \in answered : attempt'[b] = "failed"
          /\ \A b \in Addresses : attempt'[b] # "stopped"
      BY <1>3, <2>1, <2>2, <3>1, <3>2 DEF Came
    <3> QED BY <1>3, <3>4, <3>5, <3>6, <3>7, <3>8
  <2>7. AnswerIsRight'
    BY <1>1, <1>3 DEF AnswerIsRight, Runs
  <2> QED BY <2>4, <2>5, <2>6, <2>7
<1> QED BY <1>2, <1>3

\* Every step of the race and of its attempts keeps RaceInv.
LEMMA RaceStep == RaceInv /\ [RaceNext]_racevars => RaceInv'
<1> SUFFICES ASSUME RaceInv, [RaceNext]_racevars PROVE RaceInv'
  OBVIOUS
<1>a. Cardinality(Addresses) \in Nat /\ \A a \in Addresses : a \in Nat
  BY RaceAssumption, FS_CardinalityType
<1>1. ASSUME NEW spawned \in BOOLEAN, Starts(spawned) PROVE RaceInv'
  <2> USE RaceAssumption DEF RaceInv, RaceParts, TriedInOrder, HeardOrWaiting
  <2> DEFINE n == started + 1
  <2>1. /\ race = "next" /\ n \in Addresses /\ n <= Cardinality(Addresses)
        /\ attempt' = [attempt EXCEPT ![n] = IF spawned THEN "check" ELSE "failed"]
        /\ started' = n /\ answered' = (IF spawned THEN answered ELSE answered \cup {n})
        /\ race' \in {"wait", "next"}
        /\ UNCHANGED <<results, isOver, slot, wakes, links>>
    BY <1>1, <1>a DEF Starts, Unstarted
  <2>2. attempt[n] = "no"
    BY <2>1, <1>a
  <2>3. RaceParts'
    BY <2>1, <1>a DEF AttemptStates
  <2>4. TriedInOrder'
    <3>1. \A a \in Addresses : a > n => attempt'[a] = "no"
      BY <2>1, <1>a
    <3>2. \A a \in answered' : a <= n
      BY <2>1, <1>a
    <3>3. \A i \in 1 .. Len(results) : results[i] <= n /\ results[i] # n /\ results[i] \in Addresses
      BY <2>1, <1>a
    <3> QED BY <2>1, <3>1, <3>2, <3>3
  <2>5. HeardOrWaiting' /\ (\A b \in links : attempt[b] = "linked")'
    BY <2>1, <2>2 DEF Runs, Came
  <2>6. AnswerIsRight'
    BY <2>1 DEF AnswerIsRight
  <2> QED BY <2>3, <2>4, <2>5, <2>6
<1>2. ASSUME GoesOn \/ NextIsDue PROVE RaceInv'
  BY <1>2 DEF RaceInv, RaceParts, TriedInOrder, HeardOrWaiting, GoesOn, NextIsDue, Runs, AnswerIsRight
<1>3. ASSUME Hears PROVE RaceInv'
  <2> USE DEF RaceInv, RaceParts, TriedInOrder, HeardOrWaiting
  <2> DEFINE a == Head(results)
  <2>1. /\ race = "wait" /\ results # <<>> /\ results' = Tail(results)
        /\ answered' = answered \cup {a}
        /\ UNCHANGED <<started, attempt, isOver, slot>>
    BY <1>3 DEF Hears, Rest
  <2>2. /\ a \in Addresses /\ a = results[1] /\ a <= started /\ a \notin answered
        /\ Len(results) \in Nat /\ Len(results) >= 1
        /\ attempt[a] \in Came /\ (attempt[a] = "linked" => a \in links)
    BY <2>1 DEF Runs
  <2>3. /\ Len(results') = Len(results) - 1 /\ results' \in Seq(Addresses)
        /\ \A i \in 1 .. Len(results') : results'[i] = results[i + 1] /\ i + 1 \in 1 .. Len(results)
    BY <2>1, <2>2
  <2>4. TriedInOrder'
    BY <2>1, <2>2, <2>3
  <2>5. CASE Final(attempt[a])
    <3>1. race' = attempt[a] /\ links' = links \cap {a} /\ wakes' = "flag"
      BY <1>3, <2>5 DEF Hears, Answers
    <3>2. attempt[a] \in {"linked", "refused"}
      BY <2>5 DEF Final
    <3>3. RaceParts'
      BY <2>1, <2>2, <2>3, <3>1, <3>2
    <3>4. HeardOrWaiting' /\ (\A b \in links : attempt[b] = "linked")'
      BY <2>1, <3>1, <3>2 DEF Runs
    <3>5. AnswerIsRight'
      BY <2>1, <2>2, <3>1, <3>2 DEF AnswerIsRight
    <3> QED BY <2>4, <3>3, <3>4, <3>5
  <2>6. CASE ~Final(attempt[a])
    <3>1. race' = "next" /\ links' = links /\ wakes' = wakes
      BY <1>3, <2>6 DEF Hears
    <3>2. RaceParts'
      BY <2>1, <2>2, <2>3, <3>1
    <3>3. HeardOrWaiting' /\ (\A b \in links : attempt[b] = "linked")'
      BY <2>1, <2>3, <3>1, <2>2, <2>6 DEF Runs, Final, Came
    <3>4. AnswerIsRight'
      BY <3>1 DEF AnswerIsRight
    <3> QED BY <2>4, <3>2, <3>3, <3>4
  <2> QED BY <2>5, <2>6
<1>4. ASSUME GivesUp PROVE RaceInv'
  <2> USE DEF RaceInv, RaceParts, TriedInOrder, HeardOrWaiting
  <2>1. /\ race = "next" /\ race' = "failed" /\ wakes' = "flag" /\ links' = {}
        /\ UNCHANGED <<started, attempt, results, answered, isOver, slot>>
    BY <1>4 DEF GivesUp, Answers
  <2>2. AnswerIsRight'
    BY <2>1, <1>4, <1>a, RaceAssumption, FS_Subset, FS_CardinalityType
      DEF AnswerIsRight, Runs, GivesUp, Unstarted, Running, RaceInv, RaceParts
  <2> QED BY <2>1, <2>2 DEF Runs
<1>5. ASSUME Expires PROVE RaceInv'
  <2> USE DEF RaceInv, RaceParts, TriedInOrder, HeardOrWaiting
  <2>1. /\ race = "wait" /\ race' = "expired" /\ wakes' = "flag" /\ links' = {}
        /\ UNCHANGED <<started, attempt, results, answered, isOver, slot>>
    BY <1>5 DEF Expires, Answers
  <2>2. AnswerIsRight'
    BY <2>1, <1>5, <1>a DEF AnswerIsRight, Expires, Unstarted
  <2> QED BY <2>1, <2>2 DEF Runs
<1>6. ASSUME SetsOver PROVE RaceInv'
  BY <1>6 DEF RaceInv, RaceParts, TriedInOrder, HeardOrWaiting, SetsOver, Runs, AnswerIsRight
<1>7. ASSUME WakesOne PROVE RaceInv'
  <2> USE DEF RaceInv, RaceParts, TriedInOrder, HeardOrWaiting
  <2>1. /\ wakes = "wake" /\ wakes' = "done" /\ slot' = 0
        /\ UNCHANGED <<started, results, answered, race, isOver, links>>
        /\ attempt' \in [Addresses -> AttemptStates]
    BY <1>7 DEF WakesOne, AttemptStates
  <2>2. \A a \in Addresses : attempt'[a] = attempt[a] \/ (attempt[a] = "asleep" /\ attempt'[a] = "check")
    BY <1>7 DEF WakesOne
  <2>3. RaceParts' /\ TriedInOrder'
    BY <2>1, <2>2
  <2>4. HeardOrWaiting' /\ (\A b \in links : attempt[b] = "linked")'
    BY <2>1, <2>2 DEF Runs
  <2>5. AnswerIsRight'
    BY <2>1, <2>2 DEF AnswerIsRight
  <2> QED BY <2>3, <2>4, <2>5
<1>8. ASSUME NEW a \in Addresses, Polls(a) PROVE RaceInv'
  <2>1. CASE isOver
    BY <1>8, <2>1, AttemptIsOver DEF Polls
  <2>2. CASE ~isOver
    BY <1>8, <2>2, AttemptMovesOn DEF Polls, RaceInv, RaceParts
  <2> QED BY <2>1, <2>2
<1>9. ASSUME NEW a \in Addresses, LeavesWaker(a) PROVE RaceInv'
  BY <1>9, AttemptMovesOn DEF LeavesWaker
<1>10. ASSUME NEW a \in Addresses, LooksAgain(a) PROVE RaceInv'
  <2>1. CASE isOver
    BY <1>10, <2>1, AttemptIsOver DEF LooksAgain
  <2>2. CASE ~isOver
    BY <1>10, <2>2, AttemptMovesOn DEF LooksAgain, RaceInv, RaceParts
  <2> QED BY <2>1, <2>2
<1>11. ASSUME NEW a \in Addresses, NEW r \in {"linked", "failed", "refused"}, Comes(a, r)
       PROVE RaceInv'
  BY <1>11, AttemptIsOver DEF Comes, Came
<1>12. CASE UNCHANGED racevars
  BY <1>12 DEF RaceInv, RaceParts, TriedInOrder, HeardOrWaiting, racevars, Runs, AnswerIsRight
<1> QED BY <1>1, <1>2, <1>3, <1>4, <1>5, <1>6, <1>7, <1>8, <1>9, <1>10, <1>11, <1>12 DEF RaceNext

\* A connect that races the addresses of a name (quic.rs: QuicConnect::race)
\* answers what its attempts came to: it fails only when every one failed, and
\* keeps the one link it answers with. For any number of addresses.
THEOREM RaceIsRight == RaceInit /\ [][RaceNext]_racevars => []RaceAnswers
<1>1. RaceInit => RaceInv
  <2> SUFFICES ASSUME RaceInit PROVE RaceInv
    OBVIOUS
  <2>1. RaceParts
    <3>1. results \in Seq(Addresses)
      BY DEF RaceInit
    <3>2. attempt \in [Addresses -> AttemptStates] /\ slot \in {0} \cup Addresses
      BY DEF RaceInit, AttemptStates
    <3>3. /\ started \in 0 .. Cardinality(Addresses)
          /\ answered \subseteq Addresses /\ links \subseteq Addresses
      BY RaceAssumption, FS_CardinalityType DEF RaceInit
    <3>4. /\ race \in {"next", "wait", "linked", "refused", "failed", "expired"}
          /\ wakes \in {"no", "flag", "wake", "done"}
          /\ isOver \in BOOLEAN
      BY DEF RaceInit
    <3> QED BY <3>1, <3>2, <3>3, <3>4 DEF RaceParts
  <2>2. TriedInOrder /\ HeardOrWaiting
    BY DEF RaceInit, TriedInOrder, HeardOrWaiting, Runs
  <2>3. (\A a \in links : attempt[a] = "linked") /\ AnswerIsRight
    BY DEF RaceInit, AnswerIsRight
  <2> QED BY <2>1, <2>2, <2>3 DEF RaceInv
<1>2. RaceInv => RaceAnswers
  <2> SUFFICES ASSUME RaceInv PROVE RaceTypeOK
    BY DEF RaceInv, RaceAnswers
  <2> USE DEF RaceInv, RaceParts, TriedInOrder
  <2>1. answered \cup ToSet(results) \subseteq 1 .. started
    <3>1. ASSUME NEW a \in ToSet(results) PROVE a \in 1 .. started
      <4>1. PICK i \in DOMAIN results : a = results[i]
        BY DEF ToSet
      <4> QED BY RaceAssumption, FS_CardinalityType, <4>1
    <3> QED BY RaceAssumption, FS_CardinalityType, <3>1
  <2>2. answered \cap ToSet(results) = {}
    BY DEF ToSet
  <2> QED BY <2>1, <2>2 DEF RaceTypeOK
<1> QED BY <1>1, <1>2, RaceStep, PTL

-----------------------------------------------------------------------------
(* RdmaRing: positions modulo Modulus and places modulo RING.              *)

\* The position of a byte of the stream, and the place it has in a ring.
Counted(a) == a % Modulus
Place(a) == a % RING

\* A number is a multiple of the modulus and its remainder.
LEMMA Division ==
  ASSUME NEW m \in Nat \ {0}, NEW a \in Nat
  PROVE  \E q \in Nat : a = m * q + (a % m)
<1>1. a \div m \in Nat
  OBVIOUS
<1>2. a = m * (a \div m) + (a % m)
  BY Z3
<1> QED BY <1>1, <1>2

\* The remainder of a multiple and a number below the modulus is that number.
LEMMA Remainder ==
  ASSUME NEW m \in Nat \ {0}, NEW q \in Nat, NEW c \in 0 .. m - 1
  PROVE  (m * q + c) % m = c
OBVIOUS

\* Whole turns do not change a remainder.
LEMMA WholeTurns ==
  ASSUME NEW m \in Nat \ {0}, NEW k \in Nat, NEW a \in Nat
  PROVE  (a + m * k) % m = a % m
<1>1. PICK q \in Nat : a = m * q + (a % m)
  BY Division
<1>2. a % m \in 0 .. m - 1
  OBVIOUS
<1>3. a + m * k = m * (q + k) + (a % m)
  BY <1>1, <1>2
<1>4. (m * (q + k) + (a % m)) % m = a % m
  <2>1. q + k \in Nat
    OBVIOUS
  <2> QED BY <1>2, <2>1, Remainder
<1> QED BY <1>3, <1>4

\* A number some steps on, modulo the same.
LEMMA StepsOn ==
  ASSUME NEW m \in Nat \ {0}, NEW a \in Nat, NEW k \in Nat
  PROVE  ((a % m) + k) % m = (a + k) % m
<1>1. PICK q \in Nat : a = m * q + (a % m)
  BY Division
<1> DEFINE c == a % m
<1>2. c \in Nat /\ a = m * q + c
  BY <1>1
<1> HIDE DEF c
<1>3. a + k = (c + k) + m * q
  BY <1>2
<1>4. c + k \in Nat
  BY <1>2
<1>5. ((c + k) + m * q) % m = (c + k) % m
  BY <1>4, WholeTurns
<1> QED BY <1>3, <1>5 DEF c

\* The remainder of a number a part of the modulus on from another.
LEMMA RemainderIs ==
  ASSUME NEW m \in Nat \ {0}, NEW a \in Nat, NEW k \in 0 .. m - 1
  PROVE  (a + k) % m = IF (a % m) + k < m THEN (a % m) + k ELSE (a % m) + k - m
<1> DEFINE c == a % m
<1>1. c \in 0 .. m - 1
  OBVIOUS
<1>2. (a + k) % m = (c + k) % m
  <2>1. k \in Nat
    OBVIOUS
  <2> QED BY <2>1, StepsOn, Zenon
<1> HIDE DEF c
<1>3. CASE c + k < m
  BY <1>2, <1>3, <1>1, Remainder DEF c
<1>4. CASE ~(c + k < m)
  <2> DEFINE y == c + k - m
  <2>1. y \in 0 .. m - 1 /\ m * 1 + y = c + k
    BY <1>1, <1>4
  <2> HIDE DEF y
  <2>2. (a + k) % m = y
    BY <1>2, <2>1, Remainder
  <2> QED BY <1>4, <2>2 DEF c, y
<1> QED BY <1>3, <1>4

\* What the modulus is.
LEMMA ModulusFacts ==
  /\ RING \in Nat \ {0} /\ Modulus \in Nat \ {0} /\ Modulus > RING
  /\ \E j \in Nat : Modulus = RING * j
<1>1. RING \in Nat \ {0} /\ Modulus \in Nat \ {0} /\ Modulus > RING
  BY RingAssumption
<1>2. PICK j \in Nat : Modulus = RING * j + (Modulus % RING)
  BY <1>1, Division
<1>3. Modulus % RING = 0
  BY RingAssumption
<1> QED BY <1>1, <1>2, <1>3

LEMMA CountedType ==
  ASSUME NEW a \in Nat
  PROVE  Counted(a) \in Positions /\ Place(a) \in Slots
BY ModulusFacts DEF Counted, Place, Positions, Slots

\* A position has the place of its byte.
LEMMA PlaceOfCounted ==
  ASSUME NEW a \in Nat
  PROVE  Counted(a) % RING = Place(a)
<1>1. PICK j \in Nat : Modulus = RING * j
  BY ModulusFacts
<1>2. PICK q \in Nat : a = Modulus * q + Counted(a)
  BY ModulusFacts, Division DEF Counted
<1> DEFINE c == Counted(a)
<1>3. c \in Nat /\ a = Modulus * q + c
  BY <1>2, CountedType DEF Positions
<1> HIDE DEF c
<1>4. a = c + RING * (j * q) /\ j * q \in Nat
  <2>1. j * q \in Nat
    OBVIOUS
  <2> DEFINE y == j * q
  <2>2. Modulus * q = RING * y /\ y \in Nat /\ RING \in Nat
    BY <1>1, ModulusFacts, <2>1
  <2>3. Modulus * q \in Nat
    BY ModulusFacts
  <2> HIDE DEF y
  <2>4. a = c + RING * y
    BY <1>3, <2>2, <2>3
  <2> QED BY <2>1, <2>4 DEF y
<1>5. (c + RING * (j * q)) % RING = c % RING
  BY <1>3, <1>4, WholeTurns, ModulusFacts
<1> QED BY <1>4, <1>5 DEF c, Place

\* The position some bytes on.
LEMMA CountedOn ==
  ASSUME NEW a \in Nat, NEW k \in Nat
  PROVE  Plus(Counted(a), k) = Counted(a + k)
BY StepsOn, ModulusFacts DEF Plus, Counted

\* What is between two positions no more than a ring apart.
LEMMA CountedApart ==
  ASSUME NEW a \in Nat, NEW b \in Nat, b <= a, a - b <= RING
  PROVE  Minus(Counted(a), Counted(b)) = a - b
<1> DEFINE j == a - b
           c == Counted(a)
           d == Counted(b)
<1>1. j \in 0 .. Modulus - 1 /\ a = b + j
  BY ModulusFacts
<1>2. c \in 0 .. Modulus - 1 /\ d \in 0 .. Modulus - 1
  BY CountedType DEF Positions
<1> HIDE DEF j
<1>3. c = IF d + j < Modulus THEN d + j ELSE d + j - Modulus
  BY <1>1, RemainderIs, ModulusFacts DEF Counted
<1> HIDE DEF c, d
<1>4. (c + Modulus - d) % Modulus = j
  BY <1>1, <1>2, <1>3, ModulusFacts, Remainder
<1> QED BY <1>4 DEF Minus, c, d, j

\* Bytes that follow each other before the ring's end do so in it.
LEMMA PlaceOn ==
  ASSUME NEW a \in Nat, NEW k \in Nat, Place(a) + k < RING
  PROVE  Place(a + k) = Place(a) + k
<1>1. k \in 0 .. RING - 1
  BY CountedType, ModulusFacts DEF Slots
<1> QED BY <1>1, RemainderIs, ModulusFacts DEF Place

\* Bytes less than a ring apart have different places.
LEMMA PlacesApart ==
  ASSUME NEW a \in Nat, NEW b \in Nat, a < b, b - a < RING
  PROVE  Place(a) # Place(b)
<1> DEFINE k == b - a
           c == Place(a)
           d == Place(b)
<1>1. k \in 0 .. RING - 1 /\ k # 0 /\ b = a + k
  BY ModulusFacts
<1>2. c \in 0 .. RING - 1
  BY CountedType DEF Slots
<1> HIDE DEF k
<1>3. d = IF c + k < RING THEN c + k ELSE c + k - RING
  BY <1>1, RemainderIs, ModulusFacts DEF Place
<1> HIDE DEF c, d
<1>4. c # d
  BY <1>1, <1>2, <1>3, ModulusFacts
<1> QED BY <1>4 DEF c, d

\* A ring written over with n bytes from a place on.
Overlaid(f, h, at, n) == [i \in Slots |-> IF i \in at .. at + n - 1 THEN h[i] ELSE f[i]]

\* Bytes lo to hi of the stream are in their places.
InPlace(f, lo, hi) == \A k \in lo .. hi - 1 : f[Place(k)] = k + 1

LEMMA FewerInPlace ==
  ASSUME NEW f, NEW lo \in Int, NEW hi \in Int, NEW l \in Int, NEW h \in Int,
         InPlace(f, lo, hi), lo <= l, h <= hi
  PROVE  InPlace(f, l, h)
<1> SUFFICES ASSUME NEW k \in l .. h - 1 PROVE f[Place(k)] = k + 1
  BY DEF InPlace
<1>1. k \in lo .. hi - 1
  OBVIOUS
<1> QED BY <1>1 DEF InPlace

\* A window of bytes in their places stays one as some are written after it.
LEMMA WindowGrows ==
  ASSUME NEW f, NEW h, NEW lo \in Nat, NEW a \in Nat, NEW n \in Nat,
         lo <= a, a + n - lo <= RING, Place(a) + n <= RING,
         InPlace(f, lo, a), InPlace(h, a, a + n)
  PROVE  InPlace(Overlaid(f, h, Place(a), n), lo, a + n)
<1> USE DEF Overlaid, InPlace
<1> TAKE k \in lo .. a + n - 1
<1> DEFINE at == Place(a)
           g == [i \in Slots |-> IF i \in at .. at + n - 1 THEN h[i] ELSE f[i]]
<1>1. at \in 0 .. RING - 1 /\ Place(k) \in Slots /\ k \in Nat
  BY CountedType DEF Slots
<1>2. CASE a <= k
  <2>1. k - a \in Nat /\ k - a < n /\ at + (k - a) < RING /\ k = a + (k - a)
    BY <1>1, <1>2, ModulusFacts
  <2>2. Place(k) \in at .. at + n - 1
    BY <1>1, <2>1, PlaceOn
  <2>3. k \in a .. a + n - 1
    BY <1>2
  <2> QED BY <1>1, <2>2, <2>3
<1>3. CASE k < a
  <2>1. Place(k) \notin at .. at + n - 1
    <3> SUFFICES ASSUME Place(k) \in at .. at + n - 1 PROVE FALSE
      OBVIOUS
    <3> DEFINE j == Place(k) - at
    <3>1. j \in Nat /\ at + j < RING /\ Place(k) = at + j /\ j < n
      <4> DEFINE y == Place(k)
      <4> HIDE DEF at, y
      <4> QED BY <1>1, ModulusFacts DEF y, Slots
    <3> HIDE DEF j
    <3>2. Place(a + j) = at + j
      BY <3>1, PlaceOn
    <3>3. a + j \in Nat /\ k < a + j /\ (a + j) - k < RING
      BY <1>1, <1>3, <3>1, ModulusFacts
    <3> QED BY <1>1, <3>1, <3>2, <3>3, PlacesApart
  <2>2. k \in lo .. a - 1
    BY <1>3
  <2> QED BY <1>1, <2>1, <2>2
<1> QED BY <1>1, <1>2, <1>3

\* A function from 0 on that agrees with another where it begins, and at each
\* step if it did before, agrees everywhere: otherwise take the least place
\* where it does not.
LEMMA AgreeOn ==
  ASSUME NEW n \in Nat, NEW S \in SUBSET (0 .. n), 0 \in S,
         \A i \in 1 .. n : i - 1 \in S => i \in S
  PROVE  n \in S
<1> DEFINE Apart == {i \in 0 .. n : i \notin S}
           R == OpToRel(<, Nat)
<1> SUFFICES ASSUME n \notin S PROVE FALSE
  OBVIOUS
<1>1. \A x, y \in Nat : <<y, x>> \in R <=> y < x
  BY DEF OpToRel
<1>2. Apart \subseteq Nat /\ Apart # {}
  <2>1. n \in Apart
    OBVIOUS
  <2> QED BY <2>1
<1>3. PICK x \in Apart : \A y \in Apart : <<y, x>> \notin R
  <2>1. IsWellFoundedOn(R, Nat)
    BY NatLessThanWellFounded
  <2> HIDE DEF R, Apart
  <2> QED BY <1>2, <2>1, WFMin
<1>4. x \in 0 .. n /\ x \notin S
  OBVIOUS
<1>5. x # 0
  BY <1>4
<1>6. x \in 1 .. n
  BY <1>4, <1>5
<1>7. x - 1 \in Apart /\ x - 1 \in Nat /\ x \in Nat /\ x - 1 < x
  BY <1>6, <1>4
<1> HIDE DEF R, Apart
<1> QED BY <1>1, <1>3, <1>7

\* A set of numbers up to n has a last.
LEMMA HasLastOf ==
  ASSUME NEW n \in Nat, NEW S \in SUBSET (1 .. n), S # {}
  PROVE  \E i \in S : \A j \in S : j <= i
<1> SUFFICES ASSUME \A i \in S : \E j \in S : ~(j <= i) PROVE FALSE
  OBVIOUS
<1> DEFINE Beyond == {k \in 0 .. n : \E j \in S : j >= k}
<1>1. Beyond \in SUBSET (0 .. n)
  OBVIOUS
<1>2. 0 \in Beyond
  <2>1. PICK j \in S : j \in 1 .. n
    OBVIOUS
  <2> QED BY <2>1
<1>3. \A k \in 1 .. n : k - 1 \in Beyond => k \in Beyond
  <2> TAKE k \in 1 .. n
  <2> HAVE k - 1 \in Beyond
  <2>1. PICK i \in S : i >= k - 1 /\ i \in 1 .. n
    OBVIOUS
  <2>2. PICK j \in S : ~(j <= i) /\ j \in 1 .. n
    BY <2>1
  <2>3. j >= k
    BY <2>1, <2>2
  <2> QED BY <2>3
<1>4. n \in Beyond
  <2> HIDE DEF Beyond
  <2> QED BY <1>1, <1>2, <1>3, AgreeOn
<1>5. PICK i \in S : i >= n /\ i \in 1 .. n
  BY <1>4
<1>6. PICK j \in S : ~(j <= i) /\ j \in 1 .. n
  BY <1>5
<1> QED BY <1>5, <1>6

\* The total of what a path rises by at each step is what it rises by.
LEMMA TotalIs ==
  ASSUME NEW f, NEW n \in Nat, NEW r \in [Nat -> Nat],
         \A i \in 1 .. n : f[i] \in Nat /\ r[i] = r[i - 1] + f[i],
         \A i \in 0 .. n : r[0] <= r[i]
  PROVE  Total(f, n) = r[n] - r[0]
<1> DEFINE F(g) == [i \in 0 .. n |-> IF i = 0 THEN 0 ELSE f[i] + g[i - 1]]
           w == [i \in 0 .. n |-> r[i] - r[0]]
           g == CHOOSE g : g = F(g)
<1>1. w = F(w)
  <2>1. \A i \in 0 .. n : w[i] = IF i = 0 THEN 0 ELSE f[i] + w[i - 1]
    <3> TAKE i \in 0 .. n
    <3>1. CASE i = 0
      BY <3>1
    <3>2. CASE i # 0
      <4>1. i \in 1 .. n /\ i - 1 \in 0 .. n
        BY <3>2
      <4>2. w[i] = r[i] - r[0] /\ w[i - 1] = r[i - 1] - r[0]
        BY <4>1
      <4> HIDE DEF w
      <4>3. w[i] = f[i] + w[i - 1]
        BY <4>2, <4>1
      <4> QED BY <3>2, <4>3
    <3> QED BY <3>1, <3>2
  <2> QED BY <2>1
<1>2. g = F(g)
  <2> HIDE DEF w, F
  <2> QED BY <1>1
<1> HIDE DEF g
<1> DEFINE S == {i \in 0 .. n : g[i] = w[i]}
<1>3. 0 \in S
  BY <1>2
<1>4. \A i \in 1 .. n : i - 1 \in S => i \in S
  <2> TAKE i \in 1 .. n
  <2> HAVE i - 1 \in S
  <2>1. i \in 0 .. n /\ i - 1 \in 0 .. n /\ i # 0
    OBVIOUS
  <2>2. g[i] = f[i] + g[i - 1]
    BY <1>2, <2>1
  <2>3. w[i] = f[i] + w[i - 1]
    BY <1>1, <2>1
  <2> QED BY <2>1, <2>2, <2>3
<1>5. n \in S
  <2>1. S \in SUBSET (0 .. n)
    OBVIOUS
  <2> HIDE DEF S
  <2> QED BY <1>3, <1>4, <2>1, AgreeOn
<1>6. Total(f, n) = g[n]
  BY DEF Total, g
<1> QED BY <1>5, <1>6

-----------------------------------------------------------------------------
(* RdmaRing: its inductive invariant.                                      *)

\* What a send queue holds.
Requests == [kind : {"data", "credit"}, at : Slots, n : 0 .. RING, end : Positions]

\* What the parts of a link are.
RdmaParts ==
  /\ bounds \in RdmaScopes
  /\ writer \in [Sides -> [at : {"idle", "post", "failed", "shut"}, head : Positions, n : 0 .. RING]]
  /\ reader \in [Sides -> [at : {"read", "credit", "end", "failed"}, head : Positions,
                           tail : Positions, told : Positions, ended : BOOLEAN]]
  /\ staging \in [Sides -> [Slots -> Nat]] /\ inbox \in [Sides -> [Slots -> Nat]]
  /\ counter \in [Sides -> Positions] /\ completed \in [Sides -> Positions]
  /\ sendq \in [Sides -> Seq(Requests)] /\ sendcq \in [Sides -> Seq(0 .. Modulus + 1)]
  /\ recvs \in [Sides -> Nat] /\ recvcq \in [Sides -> Seq(Nat)]
  /\ gone \in [Sides -> BOOLEAN] /\ up \in [Sides -> BOOLEAN]
  /\ closed \in [Sides -> {"no", "clean", "cut"}]
  /\ sent \in [Sides -> Nat] /\ got \in [Sides -> Nat]

\* Some side has ended the link.
SomeClosed == \E z \in Sides : closed[z] # "no"

\* What each queue holds at most, and what a failure and an end leave behind.
SettledAt(s) ==
  /\ Failed(s) => ~up[PeerOf(s)] /\ sendq[s] = <<>>
  /\ ~up[s] => closed[s] # "no"
  /\ reader[s].ended => SomeClosed
  /\ reader[s].at = "end" => reader[s].ended
  /\ \A i \in 1 .. Len(recvcq[s]) : recvcq[s][i] = 0 => Failed(s)
  /\ Len(sendq[s]) <= SENDS /\ Len(sendq[s]) + Len(sendcq[s]) <= SENDS + 1
  /\ recvs[s] + Len(recvcq[s]) <= RECVS + 1
  /\ ~Failed(s) => recvs[s] + Len(recvcq[s]) = RECVS
  /\ closed[s] = "clean" => writer[s].at = "shut"

Settled == (side => SomeClosed) /\ (\A s \in Sides : SettledAt(s))

Rising(f, n) == \A i, j \in 0 .. n : i <= j => f[i] <= f[j]

\* The last position completed, reaped or not.
LastDone(s, v) ==
  \/ Marks(s) = {} /\ completed[s] = v
  \/ \E i \in Marks(s) : (\A j \in Marks(s) : j <= i) /\ sendcq[s][i] = v

\* What a writer staged and has not posted.
Staged(s) == IF writer[s].at = "post" THEN writer[s].n ELSE 0

(* For each side: q, how many of its bytes are posted, and t, how far its    *)
(* peer was told it read, once so many of its requests are carried out; r,   *)
(* how many bytes its reader heard of once it took so many completions; d,   *)
(* how far it read when it last was to tell.                                 *)

\* Requests carry a side's bytes on, and how far it read.
Asked(s, q, t) ==
  \A i \in 1 .. Len(sendq[s]) :
    \/ /\ sendq[s][i].kind = "data" /\ sendq[s][i].n \in 1 .. RING
       /\ sendq[s][i].at = Place(q[s][i - 1]) /\ sendq[s][i].at + sendq[s][i].n <= RING
       /\ q[s][i] = q[s][i - 1] + sendq[s][i].n /\ sendq[s][i].end = Counted(q[s][i])
       /\ t[s][i] = t[s][i - 1]
    \/ /\ sendq[s][i].kind = "credit"
       /\ q[s][i] = q[s][i - 1] /\ sendq[s][i].end = Counted(t[s][i])

\* A writer's bytes are in staging until they are carried out, and all it
\* wrote and the peer did not read fits the ring.
Written(s, q, t) ==
  /\ writer[s].head = Counted(sent[s])
  /\ LastDone(s, Counted(q[s][0]))
  /\ Rising(q[s], Len(sendq[s]))
  /\ q[s][Len(sendq[s])] <= sent[s]
  /\ ~Failed(s) => q[s][Len(sendq[s])] = sent[s]
  /\ InPlace(staging[s], q[s][0], sent[s] + Staged(s))
  /\ writer[s].at = "post" => writer[s].n \in 1 .. RING /\ Place(sent[s]) + writer[s].n <= RING
  /\ sent[s] + Staged(s) <= t[PeerOf(s)][0] + RING
  /\ counter[s] = Counted(t[PeerOf(s)][0])
  /\ closed[s] = "clean" => q[s][0] = sent[s]

\* A reader tells its peer, and not much later than it should.
Telling(s, t, d) ==
  /\ Rising(t[s], Len(sendq[s]))
  /\ t[s][Len(sendq[s])] <= d[s]
  /\ ~Failed(s) /\ reader[s].at = "read" => t[s][Len(sendq[s])] = d[s]
  /\ d[s] <= got[s] /\ got[s] < d[s] + CREDIT_EVERY
  /\ reader[s].told = Counted(d[s]) /\ reader[s].tail = Counted(got[s])

\* What landed and was not read is in its place in the inbox.
Landed(s, q, r) ==
  /\ reader[s].head = Counted(r[s][0])
  /\ got[s] <= r[s][0]
  /\ Rising(r[s], Len(recvcq[s]))
  /\ \A i \in 1 .. Len(recvcq[s]) : r[s][i] = r[s][i - 1] + recvcq[s][i]
  /\ r[s][Len(recvcq[s])] = q[PeerOf(s)][0]
  /\ InPlace(inbox[s], got[s], q[PeerOf(s)][0])

Chained(q, t, r, d) ==
  \A s \in Sides : Asked(s, q, t) /\ Written(s, q, t) /\ Telling(s, t, d) /\ Landed(s, q, r)

Paths == [Sides -> [Nat -> Nat]]

RdmaInv ==
  /\ RdmaParts /\ Settled /\ CleanEndIsComplete
  /\ \E q, t, r \in Paths, d \in [Sides -> Nat] : Chained(q, t, r, d)

-----------------------------------------------------------------------------
LEMMA SideFacts ==
  ASSUME NEW s \in Sides
  PROVE  /\ PeerOf(s) \in Sides /\ PeerOf(s) # s /\ PeerOf(PeerOf(s)) = s
         /\ \A z \in Sides : z = s \/ z = PeerOf(s)
BY DEF Sides, PeerOf

\* The position completed last is what Completed finds.
LEMMA CompletedIs ==
  ASSUME NEW s \in Sides, NEW v, RdmaParts, LastDone(s, v)
  PROVE  Completed(s) = v
<1>1. CASE Marks(s) = {} /\ completed[s] = v
  BY <1>1 DEF Completed
<1>2. CASE Marks(s) # {}
  <2>1. PICK i \in Marks(s) : (\A j \in Marks(s) : j <= i) /\ sendcq[s][i] = v
    BY <1>2 DEF LastDone
  <2> DEFINE c == CHOOSE k \in Marks(s) : \A j \in Marks(s) : j <= k
  <2>2. c \in Marks(s) /\ \A j \in Marks(s) : j <= c
    BY <2>1
  <2>3. Marks(s) \subseteq Nat
    BY DEF Marks
  <2> HIDE DEF c
  <2>4. c = i
    BY <2>1, <2>2, <2>3
  <2>5. Completed(s) = sendcq[s][c]
    BY <1>2 DEF Completed, c
  <2> QED BY <2>1, <2>4, <2>5
<1> QED BY <1>1, <1>2 DEF LastDone

\* How far each step of a byte's way has come.
LEMMA OnItsWay ==
  ASSUME RdmaParts, NEW q \in Paths, NEW t \in Paths, NEW r \in Paths, NEW d \in [Sides -> Nat],
         Chained(q, t, r, d), NEW s \in Sides, NEW p, p = PeerOf(s)
  PROVE  /\ t[p][0] \in Nat /\ q[s][0] \in Nat /\ r[p][0] \in Nat /\ d[p] \in Nat
         /\ t[p][0] <= d[p] /\ d[p] <= got[p] /\ got[p] <= r[p][0]
         /\ r[p][0] <= q[s][0] /\ q[s][0] <= sent[s]
         /\ sent[s] + Staged(s) <= t[p][0] + RING /\ Staged(s) \in 0 .. RING
<1>1. p \in Sides /\ PeerOf(p) = s
  BY SideFacts
<1>2. Len(sendq[s]) \in Nat /\ Len(sendq[p]) \in Nat /\ Len(recvcq[p]) \in Nat
  <2>1. sendq[s] \in Seq(Requests) /\ sendq[p] \in Seq(Requests) /\ recvcq[p] \in Seq(Nat)
    BY <1>1 DEF RdmaParts
  <2> QED BY <2>1
<1>3. /\ \A i \in Nat : q[s][i] \in Nat /\ t[p][i] \in Nat /\ r[p][i] \in Nat
      /\ d[p] \in Nat /\ got[p] \in Nat /\ sent[s] \in Nat
  <2>1. q[s] \in [Nat -> Nat] /\ t[p] \in [Nat -> Nat] /\ r[p] \in [Nat -> Nat]
    BY <1>1, Zenon DEF Paths
  <2> QED BY <2>1, <1>1 DEF RdmaParts
<1>4. t[p][0] <= t[p][Len(sendq[p])] /\ t[p][Len(sendq[p])] <= d[p] /\ d[p] <= got[p]
  BY <1>1, <1>2 DEF Chained, Telling, Rising
<1>5. got[p] <= r[p][0] /\ r[p][0] <= r[p][Len(recvcq[p])] /\ r[p][Len(recvcq[p])] = q[s][0]
  <2>1. got[p] <= r[p][0] /\ Rising(r[p], Len(recvcq[p])) /\ r[p][Len(recvcq[p])] = q[s][0]
    BY <1>1 DEF Chained, Landed
  <2> QED BY <1>2, <2>1 DEF Rising
<1>6. q[s][0] <= q[s][Len(sendq[s])] /\ q[s][Len(sendq[s])] <= sent[s]
  BY <1>2 DEF Chained, Written, Rising
<1>7. Staged(s) \in 0 .. RING
  <2>1. writer[s].n \in 0 .. RING
    BY DEF RdmaParts
  <2>2. 0 \in 0 .. RING
    BY ModulusFacts
  <2>3. Staged(s) = writer[s].n \/ Staged(s) = 0
    BY DEF Staged
  <2> QED BY <2>1, <2>2, <2>3
<1>8. sent[s] + Staged(s) <= t[p][0] + RING
  BY DEF Chained, Written
<1>9. /\ t[p][0] \in Nat /\ q[s][0] \in Nat /\ r[p][0] \in Nat
      /\ t[p][Len(sendq[p])] \in Nat /\ q[s][Len(sendq[s])] \in Nat
  BY <1>2, <1>3
<1>10. t[p][0] <= d[p]
  BY <1>3, <1>4, <1>9
<1>11. q[s][0] <= sent[s]
  BY <1>3, <1>6, <1>9
<1>12. d[p] \in Nat
  BY <1>3
<1> QED BY <1>4, <1>5, <1>7, <1>8, <1>9, <1>10, <1>11, <1>12

\* What the counters a side looks at say of the ring.
LEMMA RoomIs ==
  ASSUME RdmaParts, NEW q \in Paths, NEW t \in Paths, NEW r \in Paths, NEW d \in [Sides -> Nat],
         Chained(q, t, r, d), NEW s \in Sides, NEW p, p = PeerOf(s)
  PROVE  /\ Minus(writer[s].head, counter[s]) = sent[s] - t[p][0]
         /\ Minus(writer[s].head, Completed(s)) = sent[s] - q[s][0]
         /\ HeldBytes(p) = r[p][0] - got[p]
         /\ Minus(reader[p].tail, reader[p].told) = got[p] - d[p]
         /\ ~Refused(s)
         /\ Used(s) = IF t[p][0] < q[s][0] THEN sent[s] - t[p][0] ELSE sent[s] - q[s][0]
<1>1. p \in Sides /\ PeerOf(p) = s
  BY SideFacts
<1>2. /\ writer[s].head = Counted(sent[s]) /\ counter[s] = Counted(t[p][0])
      /\ Completed(s) = Counted(q[s][0])
  BY CompletedIs DEF Chained, Written
<1>3. /\ reader[p].head = Counted(r[p][0]) /\ reader[p].tail = Counted(got[p])
      /\ reader[p].told = Counted(d[p])
  BY <1>1 DEF Chained, Landed, Telling
<1>4. /\ t[p][0] \in Nat /\ q[s][0] \in Nat /\ r[p][0] \in Nat /\ d[p] \in Nat
      /\ t[p][0] <= d[p] /\ d[p] <= got[p] /\ got[p] <= r[p][0]
      /\ r[p][0] <= q[s][0] /\ q[s][0] <= sent[s]
      /\ sent[s] <= t[p][0] + RING /\ sent[s] \in Nat /\ got[p] \in Nat /\ RING \in Nat
  <2>1. sent[s] \in Nat /\ got[p] \in Nat /\ RING \in Nat
    BY <1>1, ModulusFacts DEF RdmaParts
  <2> QED BY OnItsWay, <2>1
<1>5. Minus(writer[s].head, counter[s]) = sent[s] - t[p][0]
  BY <1>2, <1>4, CountedApart
<1>6. Minus(writer[s].head, Completed(s)) = sent[s] - q[s][0]
  BY <1>2, <1>4, CountedApart
<1>7. HeldBytes(p) = r[p][0] - got[p]
  BY <1>3, <1>4, CountedApart DEF HeldBytes
<1>8. Minus(reader[p].tail, reader[p].told) = got[p] - d[p]
  BY <1>3, <1>4, CountedApart
<1>9. ~Refused(s)
  BY <1>4, <1>5 DEF Refused
<1>10. Used(s) = IF t[p][0] < q[s][0] THEN sent[s] - t[p][0] ELSE sent[s] - q[s][0]
  BY <1>4, <1>5, <1>6 DEF Used
<1> QED BY <1>5, <1>6, <1>7, <1>8, <1>9, <1>10

-----------------------------------------------------------------------------
(* RdmaRing: what a step that leaves a part alone keeps of it.             *)

\* A side's requests stay what they are.
LEMMA AskedSame ==
  ASSUME NEW z \in Sides, NEW q, NEW t, Asked(z, q, t), sendq'[z] = sendq[z]
  PROVE  Asked(z, q, t)'
BY DEF Asked

\* A writer that stages nothing more keeps what it wrote.
LEMMA WrittenSame ==
  ASSUME RdmaParts, NEW z \in Sides, NEW q \in Paths, NEW t \in Paths, Written(z, q, t),
         writer'[z].head = writer[z].head, writer'[z] = writer[z] \/ writer'[z].at # "post",
         LastDone(z, Counted(q[z][0]))', sendq'[z] = sendq[z], Failed(z)' <=> Failed(z),
         staging'[z] = staging[z], sent'[z] = sent[z], counter'[z] = counter[z],
         closed'[z] = "clean" => closed[z] = "clean"
  PROVE  Written(z, q, t)'
<1>1. writer[z].n \in 0 .. RING /\ sent[z] \in Nat
  BY DEF RdmaParts
<1>2. Staged(z) \in Nat /\ Staged(z)' \in Nat /\ Staged(z)' <= Staged(z)
  BY <1>1, ModulusFacts DEF Staged
<1>3. q[z][0] \in Nat /\ t[PeerOf(z)][0] \in Nat
  <2>1. q[z] \in [Nat -> Nat] /\ t[PeerOf(z)] \in [Nat -> Nat]
    BY SideFacts, Zenon DEF Paths
  <2> QED BY <2>1
<1>4. /\ writer[z].head = Counted(sent[z]) /\ Rising(q[z], Len(sendq[z]))
      /\ q[z][Len(sendq[z])] <= sent[z] /\ (~Failed(z) => q[z][Len(sendq[z])] = sent[z])
      /\ InPlace(staging[z], q[z][0], sent[z] + Staged(z))
      /\ writer[z].at = "post" => writer[z].n \in 1 .. RING /\ Place(sent[z]) + writer[z].n <= RING
      /\ sent[z] + Staged(z) <= t[PeerOf(z)][0] + RING
      /\ counter[z] = Counted(t[PeerOf(z)][0])
      /\ closed[z] = "clean" => q[z][0] = sent[z]
  BY DEF Written
<1>5. InPlace(staging'[z], q[z][0], sent'[z] + Staged(z)')
  BY <1>4, <1>1, <1>2, <1>3, FewerInPlace
<1>6. sent'[z] + Staged(z)' <= t[PeerOf(z)][0] + RING
  BY <1>1, <1>2, <1>3, <1>4, ModulusFacts
<1>7. writer'[z].at = "post" => writer'[z].n \in 1 .. RING /\ Place(sent'[z]) + writer'[z].n <= RING
  BY <1>4
<1>8. closed'[z] = "clean" => q[z][0] = sent'[z]
  BY <1>4
<1> QED BY <1>4, <1>5, <1>6, <1>7, <1>8 DEF Written

\* A reader that tells and takes nothing keeps what it told.
LEMMA TellingSame ==
  ASSUME NEW z \in Sides, NEW t, NEW d, Telling(z, t, d),
         sendq'[z] = sendq[z], Failed(z)' <=> Failed(z), got'[z] = got[z],
         reader'[z].told = reader[z].told, reader'[z].tail = reader[z].tail,
         reader'[z].at = "read" => reader[z].at = "read"
  PROVE  Telling(z, t, d)'
BY DEF Telling

\* What landed stays where it is.
LEMMA LandedSame ==
  ASSUME NEW z \in Sides, NEW q, NEW r, Landed(z, q, r), got'[z] = got[z],
         reader'[z].head = reader[z].head, recvcq'[z] = recvcq[z], inbox'[z] = inbox[z]
  PROVE  Landed(z, q, r)'
BY DEF Landed

\* Completions not looked at stay.
LEMMA DoneSame ==
  ASSUME NEW z \in Sides, sendcq'[z] = sendcq[z], completed'[z] = completed[z]
  PROVE  (Failed(z)' <=> Failed(z)) /\ (\A v : LastDone(z, v) => LastDone(z, v)')
<1>1. Marks(z)' = Marks(z)
  BY DEF Marks
<1> QED BY <1>1 DEF Failed, LastDone

\* Reaping keeps a failure, and what was completed last.
LEMMA Reaps ==
  ASSUME RdmaParts, NEW s \in Sides, Reap(s)
  PROVE  /\ completed' \in [Sides -> Positions] /\ sendcq' \in [Sides -> Seq(0 .. Modulus + 1)]
         /\ Len(sendcq'[s]) = IF Failed(s) THEN 1 ELSE 0
         /\ \A z \in Sides : z # s => sendcq'[z] = sendcq[z]
         /\ \A z \in Sides : Failed(z)' <=> Failed(z)
         /\ \A z \in Sides : \A v : LastDone(z, v) => LastDone(z, v)'
<1>1. sendcq'[s] = (IF Failed(s) THEN <<FAILED>> ELSE <<>>) /\ completed'[s] = Completed(s)
  BY DEF Reap, RdmaParts
<1>2. \A z \in Sides : z # s => sendcq'[z] = sendcq[z] /\ completed'[z] = completed[z]
  BY DEF Reap, RdmaParts
<1>3. Failed(s)' <=> Failed(s)
  <2>1. CASE Failed(s)
    BY <2>1, <1>1 DEF Failed
  <2>2. CASE ~Failed(s)
    BY <2>2, <1>1 DEF Failed
  <2> QED BY <2>1, <2>2
<1>4. Marks(s)' = {}
  BY <1>1, ModulusFacts DEF Marks, FAILED, Positions
<1>5. Completed(s) \in Positions
  <2>1. CASE Marks(s) = {}
    BY <2>1 DEF Completed, RdmaParts
  <2>2. CASE Marks(s) # {} /\ LastDone(s, Completed(s))
    BY <2>2, CompletedIs DEF LastDone, Marks
  <2>3. CASE Marks(s) # {} /\ ~LastDone(s, Completed(s))
    <3> DEFINE n == Len(sendcq[s])
    <3>1. Marks(s) \in SUBSET (1 .. n) /\ n \in Nat
      BY DEF Marks, RdmaParts
    <3> HIDE DEF n
    <3>2. PICK i \in Marks(s) : \A j \in Marks(s) : j <= i
      BY <2>3, <3>1, HasLastOf
    <3>3. LastDone(s, sendcq[s][i])
      BY <3>2 DEF LastDone
    <3>4. Completed(s) = sendcq[s][i]
      BY <3>3, CompletedIs
    <3> QED BY <2>3, <3>3, <3>4
  <2> QED BY <2>1, <2>2, <2>3
<1>6. completed' \in [Sides -> Positions]
  BY <1>5 DEF Reap, RdmaParts
<1>7. sendcq' \in [Sides -> Seq(0 .. Modulus + 1)]
  <2>1. <<FAILED>> \in Seq(0 .. Modulus + 1) /\ <<>> \in Seq(0 .. Modulus + 1)
    BY ModulusFacts DEF FAILED
  <2> QED BY <2>1 DEF Reap, RdmaParts
<1>8. Len(sendcq'[s]) = IF Failed(s) THEN 1 ELSE 0
  BY <1>1
<1>9. \A z \in Sides : (Failed(z)' <=> Failed(z)) /\ (\A v : LastDone(z, v) => LastDone(z, v)')
  <2> TAKE z \in Sides
  <2>1. CASE z = s
    BY <1>3, <1>1, <1>4, CompletedIs, <2>1 DEF LastDone
  <2>2. CASE z # s
    BY <1>2, <2>2, DoneSame
  <2> QED BY <2>1, <2>2
<1> QED BY <1>2, <1>6, <1>7, <1>8, <1>9


LEMMA ClosesNow ==
  ASSUME RdmaInv, NEW s \in Sides, CloseNow(s), UNCHANGED bounds
  PROVE  RdmaInv'
<1> PICK q \in Paths, t \in Paths, r \in Paths, d \in [Sides -> Nat] : Chained(q, t, r, d)
  BY DEF RdmaInv
<1>0. RdmaParts /\ Settled /\ CleanEndIsComplete /\ closed[s] = "no"
  BY DEF RdmaInv, CloseNow
<1>1. /\ UNCHANGED <<bounds, writer, reader, staging, inbox, counter, sendq, sendcq, completed, recvs,
                     recvcq, up, sent, got>>
      /\ gone' = [gone EXCEPT ![s] = TRUE]
      /\ closed' = [closed EXCEPT ![s] = "cut"]
  BY <1>0 DEF CloseNow, End, RdmaParts
<1>2. RdmaParts'
  BY <1>0, <1>1 DEF RdmaParts
<1>3. \A z \in Sides : (Failed(z)' <=> Failed(z)) /\ (\A v : LastDone(z, v) => LastDone(z, v)')
  BY <1>1, DoneSame
<1>4. closed'[s] = "cut" /\ \A z \in Sides : z # s => closed'[z] = closed[z]
  BY <1>0, <1>1 DEF RdmaParts
<1>5. Settled'
  <2>1. SomeClosed'
    BY <1>4 DEF SomeClosed
  <2>2. ASSUME NEW z \in Sides PROVE SettledAt(z)'
    BY <1>1, <1>3, <1>4, <2>1, <1>0 DEF SettledAt, Settled
  <2> QED BY <2>1, <2>2 DEF Settled
<1>6. CleanEndIsComplete'
  BY <1>0, <1>1, <1>4, SideFacts DEF CleanEndIsComplete
<1>7. Chained(q, t, r, d)'
  <2>1. ASSUME NEW z \in Sides
        PROVE  Asked(z, q, t)' /\ Written(z, q, t)' /\ Telling(z, t, d)' /\ Landed(z, q, r)'
    <3>1. Asked(z, q, t) /\ Written(z, q, t) /\ Telling(z, t, d) /\ Landed(z, q, r)
      BY DEF Chained
    <3>2. Asked(z, q, t)'
      BY <1>1, <3>1, AskedSame
    <3>3. Written(z, q, t)'
      BY <1>0, <1>1, <1>3, <3>1, <1>4, WrittenSame DEF Written
    <3>4. Telling(z, t, d)'
      BY <1>1, <1>3, <3>1, TellingSame
    <3>5. Landed(z, q, r)'
      BY <1>1, <3>1, LandedSame
    <3> QED BY <3>2, <3>3, <3>4, <3>5
  <2> QED BY <2>1 DEF Chained
<1> QED BY <1>2, <1>5, <1>6, <1>7 DEF RdmaInv

\* A reader that finds the side channel ended.
LEMMA SeesItsEnd ==
  ASSUME RdmaInv, NEW s \in Sides, SeesEnd(s), UNCHANGED bounds
  PROVE  RdmaInv'
<1> PICK q \in Paths, t \in Paths, r \in Paths, d \in [Sides -> Nat] : Chained(q, t, r, d)
  BY DEF RdmaInv
<1>0. RdmaParts /\ Settled /\ CleanEndIsComplete
  BY DEF RdmaInv
<1>1. /\ UNCHANGED <<bounds, writer, staging, inbox, counter, sendq, sendcq, completed, recvs, recvcq,
                     side, closed, up, sent, got>>
      /\ reader' = [reader EXCEPT ![s].ended = TRUE]
      /\ gone' = [gone EXCEPT ![s] = TRUE] /\ side
  BY DEF SeesEnd
<1>2. RdmaParts'
  <2>1. reader[s] \in [at : {"read", "credit", "end", "failed"}, head : Positions,
               tail : Positions, told : Positions, ended : BOOLEAN]
    BY <1>0 DEF RdmaParts
  <2>2. reader' \in [Sides -> [at : {"read", "credit", "end", "failed"}, head : Positions,
                              tail : Positions, told : Positions, ended : BOOLEAN]]
    BY <1>0, <2>1, <1>1 DEF RdmaParts
  <2> QED BY <1>0, <1>1, <2>2 DEF RdmaParts
<1>3. \A z \in Sides : (Failed(z)' <=> Failed(z)) /\ (\A v : LastDone(z, v) => LastDone(z, v)')
  BY <1>1, DoneSame
<1>4. /\ reader'[s].ended = TRUE
      /\ reader'[s].at = reader[s].at
      /\ reader'[s].head = reader[s].head
      /\ reader'[s].tail = reader[s].tail
      /\ reader'[s].told = reader[s].told
      /\ \A z \in Sides : z # s => reader'[z] = reader[z]
  BY <1>0, <1>1 DEF RdmaParts
<1>5. Settled'
  <2>1. SomeClosed' <=> SomeClosed
    BY <1>1 DEF SomeClosed
  <2>2. ASSUME NEW z \in Sides PROVE SettledAt(z)'
    BY <1>1, <1>3, <1>4, <1>0, <2>1 DEF SettledAt, Settled
  <2> QED BY <1>0, <1>1, <2>1, <2>2 DEF Settled
<1>6. CleanEndIsComplete'
  BY <1>0, <1>1, <1>4, SideFacts DEF CleanEndIsComplete
<1>7. Chained(q, t, r, d)'
  <2>1. ASSUME NEW z \in Sides
        PROVE  Asked(z, q, t)' /\ Written(z, q, t)' /\ Telling(z, t, d)' /\ Landed(z, q, r)'
    <3>1. Asked(z, q, t) /\ Written(z, q, t) /\ Telling(z, t, d) /\ Landed(z, q, r)
      BY DEF Chained
    <3>2. /\ reader'[z].head = reader[z].head /\ reader'[z].tail = reader[z].tail
          /\ reader'[z].told = reader[z].told /\ (reader'[z].at = "read" => reader[z].at = "read")
      BY <1>4
    <3>3. Asked(z, q, t)'
      BY <1>1, <3>1, AskedSame
    <3>4. Written(z, q, t)'
      BY <1>0, <1>1, <1>3, <3>1, <3>2, WrittenSame DEF Written
    <3>5. Telling(z, t, d)'
      BY <1>1, <1>3, <3>1, <3>2, TellingSame
    <3>6. Landed(z, q, r)'
      BY <1>1, <3>1, <3>2, LandedSame
    <3> QED BY <3>3, <3>4, <3>5, <3>6
  <2> QED BY <2>1 DEF Chained
<1> QED BY <1>2, <1>5, <1>6, <1>7 DEF RdmaInv

\* A position that cannot be posted.
LEMMA FailsToTell ==
  ASSUME RdmaInv, NEW s \in Sides, CreditFails(s), UNCHANGED bounds
  PROVE  RdmaInv'
<1> PICK q \in Paths, t \in Paths, r \in Paths, d \in [Sides -> Nat] : Chained(q, t, r, d)
  BY DEF RdmaInv
<1>0. RdmaParts /\ Settled /\ CleanEndIsComplete
  BY DEF RdmaInv
<1>1. /\ UNCHANGED <<bounds, writer, staging, inbox, counter, sendq, sendcq, completed, recvs, recvcq,
                     gone, side, closed, up, sent, got>>
      /\ reader' = [reader EXCEPT ![s].at = "failed"]
  BY DEF CreditFails
<1>2. RdmaParts'
  <2>1. reader[s] \in [at : {"read", "credit", "end", "failed"}, head : Positions,
               tail : Positions, told : Positions, ended : BOOLEAN]
    BY <1>0 DEF RdmaParts
  <2>2. reader' \in [Sides -> [at : {"read", "credit", "end", "failed"}, head : Positions,
                              tail : Positions, told : Positions, ended : BOOLEAN]]
    BY <1>0, <2>1, <1>1 DEF RdmaParts
  <2> QED BY <1>0, <1>1, <2>2 DEF RdmaParts
<1>3. \A z \in Sides : (Failed(z)' <=> Failed(z)) /\ (\A v : LastDone(z, v) => LastDone(z, v)')
  BY <1>1, DoneSame
<1>4. /\ reader'[s].at = "failed"
      /\ reader'[s].head = reader[s].head
      /\ reader'[s].tail = reader[s].tail
      /\ reader'[s].told = reader[s].told
      /\ reader'[s].ended = reader[s].ended
      /\ \A z \in Sides : z # s => reader'[z] = reader[z]
  BY <1>0, <1>1 DEF RdmaParts
<1>5. Settled'
  <2>1. SomeClosed' <=> SomeClosed
    BY <1>1 DEF SomeClosed
  <2>2. ASSUME NEW z \in Sides PROVE SettledAt(z)'
    BY <1>1, <1>3, <1>4, <2>1, <1>0 DEF SettledAt, Settled
  <2> QED BY <1>0, <1>1, <2>1, <2>2 DEF Settled
<1>6. CleanEndIsComplete'
  BY <1>0, <1>1, <1>4, SideFacts DEF CleanEndIsComplete
<1>7. Chained(q, t, r, d)'
  <2>1. ASSUME NEW z \in Sides
        PROVE  Asked(z, q, t)' /\ Written(z, q, t)' /\ Telling(z, t, d)' /\ Landed(z, q, r)'
    <3>1. Asked(z, q, t) /\ Written(z, q, t) /\ Telling(z, t, d) /\ Landed(z, q, r)
      BY DEF Chained
    <3>2. /\ reader'[z].head = reader[z].head /\ reader'[z].tail = reader[z].tail
          /\ reader'[z].told = reader[z].told /\ (reader'[z].at = "read" => reader[z].at = "read")
      BY <1>4
    <3>3. Asked(z, q, t)'
      BY <1>1, <3>1, AskedSame
    <3>4. Written(z, q, t)'
      BY <1>0, <1>1, <1>3, <3>1, <3>2, WrittenSame DEF Written
    <3>5. Telling(z, t, d)'
      BY <1>1, <1>3, <3>1, <3>2, TellingSame
    <3>6. Landed(z, q, r)'
      BY <1>1, <3>1, <3>2, LandedSame
    <3> QED BY <3>3, <3>4, <3>5, <3>6
  <2> QED BY <2>1 DEF Chained
<1> QED BY <1>2, <1>5, <1>6, <1>7 DEF RdmaInv

\* A reader that reports the link's end has taken all that landed, and after a
\* clean end that is all there is.
LEMMA ReadsItsEnd ==
  ASSUME RdmaInv, NEW s \in Sides, ReadEnds(s), UNCHANGED bounds
  PROVE  RdmaInv'
<1> PICK q \in Paths, t \in Paths, r \in Paths, d \in [Sides -> Nat] : Chained(q, t, r, d)
  BY DEF RdmaInv
<1>0. RdmaParts /\ Settled /\ CleanEndIsComplete
  BY DEF RdmaInv
<1>1. /\ UNCHANGED <<bounds, writer, staging, inbox, counter, sendq, sendcq, completed, recvs, recvcq,
                     gone, side, closed, up, sent, got>>
      /\ reader' = [reader EXCEPT ![s].at = "end"]
      /\ HeldBytes(s) = 0 /\ recvcq[s] = <<>>
  BY DEF ReadEnds, Drained
<1>b. reader[s].ended
  BY DEF ReadEnds
<1>2. RdmaParts'
  <2>1. reader[s] \in [at : {"read", "credit", "end", "failed"}, head : Positions,
               tail : Positions, told : Positions, ended : BOOLEAN]
    BY <1>0 DEF RdmaParts
  <2>2. reader' \in [Sides -> [at : {"read", "credit", "end", "failed"}, head : Positions,
                              tail : Positions, told : Positions, ended : BOOLEAN]]
    BY <1>0, <2>1, <1>1 DEF RdmaParts
  <2> QED BY <1>0, <1>1, <2>2 DEF RdmaParts
<1>3. \A z \in Sides : (Failed(z)' <=> Failed(z)) /\ (\A v : LastDone(z, v) => LastDone(z, v)')
  BY <1>1, DoneSame
<1>4. /\ reader'[s].at = "end"
      /\ reader'[s].head = reader[s].head
      /\ reader'[s].tail = reader[s].tail
      /\ reader'[s].told = reader[s].told
      /\ reader'[s].ended = reader[s].ended
      /\ \A z \in Sides : z # s => reader'[z] = reader[z]
  BY <1>0, <1>1 DEF RdmaParts
<1>5. Settled'
  <2>1. SomeClosed' <=> SomeClosed
    BY <1>1 DEF SomeClosed
  <2>2. ASSUME NEW z \in Sides PROVE SettledAt(z)'
    BY <1>b, <1>1, <1>3, <1>4, <2>1, <1>0 DEF SettledAt, Settled
  <2> QED BY <1>0, <1>1, <2>1, <2>2 DEF Settled
<1>6. closed[PeerOf(s)] = "clean" => got[s] = sent[PeerOf(s)]
  <2> DEFINE p == PeerOf(s)
  <2>1. p \in Sides /\ PeerOf(p) = s
    BY SideFacts
  <2> HIDE DEF p
  <2>2. HeldBytes(s) = r[s][0] - got[s] /\ got[s] <= r[s][0] /\ r[s][0] \in Nat
    BY <1>0, <2>1, RoomIs, OnItsWay
  <2>3. r[s][0] = q[p][0]
    BY <1>1 DEF Chained, Landed, p
  <2>4. closed[p] = "clean" => q[p][0] = sent[p]
    BY <2>1 DEF Chained, Written
  <2>5. got[s] \in Nat
    BY <1>0 DEF RdmaParts
  <2> QED BY <1>1, <2>2, <2>3, <2>4, <2>5 DEF p
<1>7. CleanEndIsComplete'
  BY <1>0, <1>1, <1>4, <1>6 DEF CleanEndIsComplete
<1>8. Chained(q, t, r, d)'
  <2>1. ASSUME NEW z \in Sides
        PROVE  Asked(z, q, t)' /\ Written(z, q, t)' /\ Telling(z, t, d)' /\ Landed(z, q, r)'
    <3>1. Asked(z, q, t) /\ Written(z, q, t) /\ Telling(z, t, d) /\ Landed(z, q, r)
      BY DEF Chained
    <3>2. /\ reader'[z].head = reader[z].head /\ reader'[z].tail = reader[z].tail
          /\ reader'[z].told = reader[z].told /\ (reader'[z].at = "read" => reader[z].at = "read")
      BY <1>4
    <3>3. Asked(z, q, t)'
      BY <1>1, <3>1, AskedSame
    <3>4. Written(z, q, t)'
      BY <1>0, <1>1, <1>3, <3>1, <3>2, WrittenSame DEF Written
    <3>5. Telling(z, t, d)'
      BY <1>1, <1>3, <3>1, <3>2, TellingSame
    <3>6. Landed(z, q, r)'
      BY <1>1, <3>1, <3>2, LandedSame
    <3> QED BY <3>3, <3>4, <3>5, <3>6
  <2> QED BY <2>1 DEF Chained
<1> QED BY <1>2, <1>5, <1>7, <1>8 DEF RdmaInv

\* A side's queue pair is dropped after its end.
LEMMA DropsItsLink ==
  ASSUME RdmaInv, NEW s \in Sides, DropLink(s), UNCHANGED bounds
  PROVE  RdmaInv'
<1> PICK q \in Paths, t \in Paths, r \in Paths, d \in [Sides -> Nat] : Chained(q, t, r, d)
  BY DEF RdmaInv
<1>0. RdmaParts /\ Settled /\ CleanEndIsComplete
  BY DEF RdmaInv
<1>1. /\ UNCHANGED <<bounds, writer, reader, staging, inbox, counter, sendq, sendcq, completed, recvs,
                     recvcq, gone, side, closed, sent, got>>
      /\ up' = [up EXCEPT ![s] = FALSE] /\ closed[s] # "no"
  BY DEF DropLink
<1>2. RdmaParts'
  BY <1>0, <1>1 DEF RdmaParts
<1>3. \A z \in Sides : (Failed(z)' <=> Failed(z)) /\ (\A v : LastDone(z, v) => LastDone(z, v)')
  BY <1>1, DoneSame
<1>4. up'[s] = FALSE /\ \A z \in Sides : z # s => up'[z] = up[z]
  BY <1>0, <1>1 DEF RdmaParts
<1>5. Settled'
  <2>1. SomeClosed' <=> SomeClosed
    BY <1>1 DEF SomeClosed
  <2>2. ASSUME NEW z \in Sides PROVE SettledAt(z)'
    <3>1. SettledAt(z)
      BY <1>0 DEF Settled
    <3>2. ~up[PeerOf(z)] => ~up'[PeerOf(z)]
      BY <1>4, SideFacts
    <3>3. ~up'[z] => closed[z] # "no"
      BY <1>1, <1>4, <3>1 DEF SettledAt
    <3> QED BY <1>1, <1>3, <2>1, <3>1, <3>2, <3>3 DEF SettledAt
  <2> QED BY <1>0, <1>1, <2>1, <2>2 DEF Settled
<1>6. CleanEndIsComplete'
  BY <1>0, <1>1 DEF CleanEndIsComplete
<1>7. Chained(q, t, r, d)'
  <2>1. ASSUME NEW z \in Sides
        PROVE  Asked(z, q, t)' /\ Written(z, q, t)' /\ Telling(z, t, d)' /\ Landed(z, q, r)'
    <3>1. Asked(z, q, t) /\ Written(z, q, t) /\ Telling(z, t, d) /\ Landed(z, q, r)
      BY DEF Chained
    <3>2. closed'[z] = "clean" => closed[z] = "clean"
      BY <1>1
    <3>3. Asked(z, q, t)'
      BY <1>1, <3>1, AskedSame
    <3>4. Written(z, q, t)'
      BY <1>0, <1>1, <1>3, <3>1, <3>2, WrittenSame DEF Written
    <3>5. Telling(z, t, d)'
      BY <1>1, <1>3, <3>1, <3>2, TellingSame
    <3>6. Landed(z, q, r)'
      BY <1>1, <3>1, <3>2, LandedSame
    <3> QED BY <3>3, <3>4, <3>5, <3>6
  <2> QED BY <2>1 DEF Chained
<1> QED BY <1>2, <1>5, <1>6, <1>7 DEF RdmaInv

\* A write that fails does so for another reason than the peer's position.
LEMMA FailsToWrite ==
  ASSUME RdmaInv, NEW s \in Sides, WriteFails(s), UNCHANGED bounds
  PROVE  RdmaInv'
<1> PICK q \in Paths, t \in Paths, r \in Paths, d \in [Sides -> Nat] : Chained(q, t, r, d)
  BY DEF RdmaInv
<1>0. RdmaParts /\ Settled /\ CleanEndIsComplete
  BY DEF RdmaInv
<1>a. ~Refused(s)
  <2>1. PeerOf(s) \in Sides
    BY SideFacts
  <2> QED BY <1>0, <2>1, RoomIs
<1>1. /\ UNCHANGED <<bounds, reader, staging, inbox, counter, sendq, sendcq, completed, recvs, recvcq,
                     gone, side, closed, up, sent, got>>
      /\ writer' = [writer EXCEPT ![s].at = "failed"]
      /\ writer[s].at \in {"idle", "post"}
  BY <1>0, <1>a DEF WriteFails, RdmaParts
<1>2. RdmaParts'
  <2>1. writer[s] \in [at : {"idle", "post", "failed", "shut"}, head : Positions, n : 0 .. RING]
    BY <1>0 DEF RdmaParts
  <2>2. writer' \in [Sides -> [at : {"idle", "post", "failed", "shut"}, head : Positions, n : 0 .. RING]]
    BY <1>0, <2>1, <1>1 DEF RdmaParts
  <2> QED BY <1>0, <1>1, <2>2 DEF RdmaParts
<1>3. \A z \in Sides : (Failed(z)' <=> Failed(z)) /\ (\A v : LastDone(z, v) => LastDone(z, v)')
  BY <1>1, DoneSame
<1>4. /\ writer'[s].at = "failed" /\ writer'[s].head = writer[s].head
      /\ \A z \in Sides : z # s => writer'[z] = writer[z]
  BY <1>0, <1>1 DEF RdmaParts
<1>5. Settled'
  <2>1. SomeClosed' <=> SomeClosed
    BY <1>1 DEF SomeClosed
  <2>2. ASSUME NEW z \in Sides PROVE SettledAt(z)'
    BY <1>1, <1>3, <1>4, <2>1, <1>0 DEF SettledAt, Settled
  <2> QED BY <1>0, <1>1, <2>1, <2>2 DEF Settled
<1>6. CleanEndIsComplete'
  BY <1>0, <1>1 DEF CleanEndIsComplete
<1>7. Chained(q, t, r, d)'
  <2>1. ASSUME NEW z \in Sides
        PROVE  Asked(z, q, t)' /\ Written(z, q, t)' /\ Telling(z, t, d)' /\ Landed(z, q, r)'
    <3>1. Asked(z, q, t) /\ Written(z, q, t) /\ Telling(z, t, d) /\ Landed(z, q, r)
      BY DEF Chained
    <3>2. writer'[z].head = writer[z].head /\ (writer'[z] = writer[z] \/ writer'[z].at # "post")
      BY <1>4
    <3>3. Asked(z, q, t)'
      BY <1>1, <3>1, AskedSame
    <3>4. Written(z, q, t)'
      BY <1>0, <1>1, <1>3, <3>1, <3>2, WrittenSame DEF Written
    <3>5. Telling(z, t, d)'
      BY <1>1, <1>3, <3>1, <3>2, TellingSame
    <3>6. Landed(z, q, r)'
      BY <1>1, <3>1, <3>2, LandedSame
    <3> QED BY <3>3, <3>4, <3>5, <3>6
  <2> QED BY <2>1 DEF Chained
<1> QED BY <1>2, <1>5, <1>6, <1>7 DEF RdmaInv

\* An end in time: all the writer wrote was carried out.
LEMMA ShutsDown ==
  ASSUME RdmaInv, NEW s \in Sides, NEW late \in BOOLEAN, Shutdown(s, late), UNCHANGED bounds
  PROVE  RdmaInv'
<1> PICK q \in Paths, t \in Paths, r \in Paths, d \in [Sides -> Nat] : Chained(q, t, r, d)
  BY DEF RdmaInv
<1>0. RdmaParts /\ Settled /\ CleanEndIsComplete
  BY DEF RdmaInv
<1>1. /\ UNCHANGED <<bounds, reader, staging, inbox, counter, sendq, recvs, recvcq, up, sent, got>>
      /\ Reap(s) /\ gone' = [gone EXCEPT ![s] = TRUE]
      /\ closed[s] = "no" /\ writer[s].at \in {"idle", "failed", "refused"}
      /\ writer' = [writer EXCEPT ![s].at = "shut"]
  BY DEF Shutdown, End
<1>2. /\ completed' \in [Sides -> Positions] /\ sendcq' \in [Sides -> Seq(0 .. Modulus + 1)]
      /\ Len(sendcq'[s]) = IF Failed(s) THEN 1 ELSE 0
      /\ \A z \in Sides : z # s => sendcq'[z] = sendcq[z]
      /\ \A z \in Sides : Failed(z)' <=> Failed(z)
      /\ \A z \in Sides : \A v : LastDone(z, v) => LastDone(z, v)'
  BY <1>0, <1>1, Reaps
<1>3. /\ closed'[s] = (IF late \/ Failed(s) THEN "cut" ELSE "clean")
      /\ closed' = [closed EXCEPT ![s] = IF late \/ Failed(s) THEN "cut" ELSE "clean"]
      /\ \A z \in Sides : z # s => closed'[z] = closed[z]
  BY <1>0, <1>1 DEF Shutdown, End, RdmaParts
<1>4. RdmaParts'
  <2>1. writer[s] \in [at : {"idle", "post", "failed", "shut"}, head : Positions, n : 0 .. RING]
    BY <1>0 DEF RdmaParts
  <2>2. closed' \in [Sides -> {"no", "clean", "cut"}]
    BY <1>0, <1>3 DEF RdmaParts
  <2>3. writer' \in [Sides -> [at : {"idle", "post", "failed", "shut"}, head : Positions, n : 0 .. RING]]
    BY <1>0, <2>1, <1>1 DEF RdmaParts
  <2>4. gone' \in [Sides -> BOOLEAN]
    BY <1>0, <1>1 DEF RdmaParts
  <2>5. completed' \in [Sides -> Positions] /\ sendcq' \in [Sides -> Seq(0 .. Modulus + 1)]
    BY <1>2
  <2> QED BY <1>0, <1>1, <2>2, <2>3, <2>4, <2>5 DEF RdmaParts
<1>5. /\ writer'[s].at = "shut" /\ writer'[s].head = writer[s].head
      /\ \A z \in Sides : z # s => writer'[z] = writer[z]
  BY <1>0, <1>1 DEF RdmaParts
<1>6. Settled'
  <2>1. SomeClosed'
    BY <1>3 DEF SomeClosed
  <2>2. ASSUME NEW z \in Sides PROVE SettledAt(z)'
    <3>1. SettledAt(z)
      BY <1>0 DEF Settled
    <3>2. Len(sendq[z]) + Len(sendcq'[z]) <= SENDS + 1
      <4>1. Len(sendq[z]) \in Nat /\ SENDS \in Nat
        BY <1>0, RingAssumption DEF RdmaParts
      <4>2. Len(sendq[z]) <= SENDS /\ Len(sendq[z]) + Len(sendcq[z]) <= SENDS + 1
        BY <3>1 DEF SettledAt
      <4>3. CASE z = s
        <5>1. \A x \in Nat : x <= SENDS => x + 0 <= SENDS + 1 /\ x + 1 <= SENDS + 1
          BY RingAssumption
        <5> QED BY <4>1, <4>2, <4>3, <1>2, <5>1
      <4>4. CASE z # s
        BY <1>2, <4>2, <4>4
      <4> QED BY <4>3, <4>4
    <3>3. closed'[z] = "clean" => writer'[z].at = "shut"
      BY <1>5, <1>3, <3>1 DEF SettledAt
    <3>4. ~up[z] => closed'[z] # "no"
      BY <1>3, <3>1 DEF SettledAt
    <3> QED BY <1>1, <1>2, <2>1, <3>1, <3>2, <3>3, <3>4 DEF SettledAt
  <2> QED BY <2>1, <2>2 DEF Settled
<1>7. CleanEndIsComplete'
  <2> SUFFICES ASSUME NEW z \in Sides, reader'[z].at = "end", closed'[PeerOf(z)] = "clean",
                      closed'[z] = "no"
               PROVE  got'[z] = sent'[PeerOf(z)]
    BY DEF CleanEndIsComplete
  <2>1. z # s /\ PeerOf(z) = s /\ closed[z] = "no" /\ reader[z].at = "end"
    BY <1>1, <1>3, SideFacts
  <2>2. SomeClosed
    BY <1>0, <2>1 DEF Settled, SettledAt
  <2>3. PICK i \in Sides : closed[i] # "no"
    BY <2>2 DEF SomeClosed
  <2> QED BY <1>1, <2>1, <2>3, SideFacts
<1>8. Chained(q, t, r, d)'
  <2>1. ASSUME NEW z \in Sides
        PROVE  Asked(z, q, t)' /\ Written(z, q, t)' /\ Telling(z, t, d)' /\ Landed(z, q, r)'
    <3>1. Asked(z, q, t) /\ Written(z, q, t) /\ Telling(z, t, d) /\ Landed(z, q, r)
      BY DEF Chained
    <3>2. LastDone(z, Counted(q[z][0]))'
      BY <1>2, <3>1 DEF Written
    <3>3. Asked(z, q, t)'
      BY <1>1, <3>1, AskedSame
    <3>4. Written(z, q, t)'
      <4>1. CASE closed'[z] = "clean" => closed[z] = "clean"
        BY <1>0, <1>1, <1>2, <3>1, <3>2, <4>1, <1>5, WrittenSame
      <4>2. CASE closed'[z] = "clean" /\ closed[z] # "clean"
        <5>1. z = s /\ ~Failed(s) /\ sendq[s] = <<>>
          BY <1>3, <4>2 DEF Shutdown, SendsFlushed
        <5>2. q[z][0] = sent[z]
          BY <3>1, <5>1 DEF Written
        <5>3. Staged(z) = 0 /\ Staged(z)' = 0
          BY <1>1, <1>5, <5>1 DEF Staged
        <5>4. writer'[z].head = writer[z].head /\ writer'[z].at # "post"
          BY <1>5, <5>1
        <5> QED BY <1>1, <1>2, <3>1, <3>2, <5>2, <5>3, <5>4 DEF Written
      <4> QED BY <4>1, <4>2
    <3>5. Telling(z, t, d)'
      BY <1>1, <1>2, <3>1, TellingSame
    <3>6. Landed(z, q, r)'
      BY <1>1, <3>1, LandedSame
    <3> QED BY <3>3, <3>4, <3>5, <3>6
  <2> QED BY <2>1 DEF Chained
<1> QED BY <1>4, <1>6, <1>7, <1>8 DEF RdmaInv


-----------------------------------------------------------------------------
(* RdmaRing: paths as requests and completions come and go.                *)

\* A path one step longer, and one that begins k steps on.
Extend(f, n, v) == [i \in Nat |-> IF i <= n THEN f[i] ELSE v]
From(f, k) == [i \in Nat |-> f[i + k]]

LEMMA ExtendIs ==
  ASSUME NEW f \in [Nat -> Nat], NEW n \in Nat, NEW v \in Nat
  PROVE  /\ Extend(f, n, v) \in [Nat -> Nat]
         /\ \A i \in 0 .. n : Extend(f, n, v)[i] = f[i]
         /\ Extend(f, n, v)[n + 1] = v
         /\ Rising(f, n) /\ f[n] <= v => Rising(Extend(f, n, v), n + 1)
<1> DEFINE g == Extend(f, n, v)
<1>1. /\ g \in [Nat -> Nat]
      /\ \A i \in 0 .. n : g[i] = f[i]
      /\ g[n + 1] = v
  BY DEF Extend
<1> HIDE DEF g
<1>2. ASSUME Rising(f, n), f[n] <= v PROVE Rising(g, n + 1)
  <2> SUFFICES ASSUME NEW i \in 0 .. n + 1, NEW j \in 0 .. n + 1, i <= j PROVE g[i] <= g[j]
    BY DEF Rising
  <2>1. CASE j \in 0 .. n
    BY <1>1, <2>1, <1>2 DEF Rising
  <2>2. CASE j = n + 1 /\ i \in 0 .. n
    <3> QED BY <1>1, <2>2, <1>2 DEF Rising
  <2>3. CASE j = n + 1 /\ i = n + 1
    BY <1>1, <2>3
  <2> QED BY <2>1, <2>2, <2>3
<1> QED BY <1>1, <1>2 DEF g

LEMMA FromIs ==
  ASSUME NEW f \in [Nat -> Nat], NEW n \in Nat, NEW k \in 0 .. n
  PROVE  /\ From(f, k) \in [Nat -> Nat]
         /\ \A i \in Nat : From(f, k)[i] = f[i + k]
         /\ Rising(f, n) => Rising(From(f, k), n - k)
<1> DEFINE g == From(f, k)
<1>1. g \in [Nat -> Nat] /\ \A i \in Nat : g[i] = f[i + k]
  BY DEF From
<1> HIDE DEF g
<1>2. ASSUME Rising(f, n) PROVE Rising(g, n - k)
  <2> SUFFICES ASSUME NEW i \in 0 .. n - k, NEW j \in 0 .. n - k, i <= j PROVE g[i] <= g[j]
    BY DEF Rising
  <2> QED BY <1>1, <1>2 DEF Rising
<1> QED BY <1>1, <1>2 DEF g

\* What a request asked for is to carry on from.
NextAsked(m, a, b, v, u) ==
  \/ /\ m.kind = "data" /\ m.n \in 1 .. RING /\ m.at = Place(a) /\ m.at + m.n <= RING
     /\ v = a + m.n /\ m.end = Counted(v) /\ u = b
  \/ m.kind = "credit" /\ v = a /\ m.end = Counted(u)

\* One more request, that carries on from the last.
LEMMA AskedMore ==
  ASSUME RdmaParts, NEW s \in Sides, NEW m \in Requests, sendq'[s] = Append(sendq[s], m),
         NEW q \in Paths, NEW t \in Paths, NEW y \in Paths, NEW x \in Paths,
         NEW n, n = Len(sendq[s]), NEW v \in Nat, NEW u \in Nat, Asked(s, q, t),
         y[s] = Extend(q[s], n, v), x[s] = Extend(t[s], n, u),
         NextAsked(m, q[s][n], t[s][n], v, u)
  PROVE  Asked(s, y, x)'
<1>1. sendq[s] \in Seq(Requests) /\ n \in Nat
  BY DEF RdmaParts
<1>2. Len(sendq'[s]) = n + 1 /\ sendq'[s][n + 1] = m /\ \A i \in 1 .. n : sendq'[s][i] = sendq[s][i]
  BY <1>1
<1>3. q[s] \in [Nat -> Nat] /\ t[s] \in [Nat -> Nat]
  BY Zenon DEF Paths
<1>4. /\ \A i \in 0 .. n : y[s][i] = q[s][i] /\ x[s][i] = t[s][i]
      /\ y[s][n + 1] = v /\ x[s][n + 1] = u
  BY <1>1 DEF Extend
<1> SUFFICES ASSUME NEW i \in 1 .. Len(sendq'[s])
             PROVE  \/ /\ sendq'[s][i].kind = "data" /\ sendq'[s][i].n \in 1 .. RING
                       /\ sendq'[s][i].at = Place(y[s][i - 1]) /\ sendq'[s][i].at + sendq'[s][i].n <= RING
                       /\ y[s][i] = y[s][i - 1] + sendq'[s][i].n /\ sendq'[s][i].end = Counted(y[s][i])
                       /\ x[s][i] = x[s][i - 1]
                    \/ /\ sendq'[s][i].kind = "credit"
                       /\ y[s][i] = y[s][i - 1] /\ sendq'[s][i].end = Counted(x[s][i])
  BY DEF Asked
<1>5. CASE i \in 1 .. n
  <2>1. y[s][i - 1] = q[s][i - 1] /\ y[s][i] = q[s][i] /\ x[s][i - 1] = t[s][i - 1] /\ x[s][i] = t[s][i]
    BY <1>4, <1>1, <1>5
  <2> QED BY <1>2, <1>5, <2>1 DEF Asked
<1>6. CASE i = n + 1
  BY <1>1, <1>2, <1>4, <1>6 DEF NextAsked
<1> QED BY <1>1, <1>2, <1>5, <1>6

\* One request fewer.
LEMMA AskedLess ==
  ASSUME RdmaParts, NEW s \in Sides, sendq[s] # <<>>, sendq'[s] = Tail(sendq[s]),
         NEW q \in Paths, NEW t \in Paths, NEW y \in Paths, NEW x \in Paths, Asked(s, q, t),
         y[s] = From(q[s], 1), x[s] = From(t[s], 1)
  PROVE  Asked(s, y, x)'
<1> DEFINE n == Len(sendq[s])
<1>1. sendq[s] \in Seq(Requests) /\ n \in Nat /\ n # 0
  BY DEF RdmaParts
<1> HIDE DEF n
<1>2. Len(sendq'[s]) = n - 1 /\ \A i \in 1 .. n - 1 : sendq'[s][i] = sendq[s][i + 1]
  BY <1>1 DEF n
<1>3. q[s] \in [Nat -> Nat] /\ t[s] \in [Nat -> Nat]
  BY Zenon DEF Paths
<1> SUFFICES ASSUME NEW i \in 1 .. Len(sendq'[s])
             PROVE  \/ /\ sendq'[s][i].kind = "data" /\ sendq'[s][i].n \in 1 .. RING
                       /\ sendq'[s][i].at = Place(y[s][i - 1]) /\ sendq'[s][i].at + sendq'[s][i].n <= RING
                       /\ y[s][i] = y[s][i - 1] + sendq'[s][i].n /\ sendq'[s][i].end = Counted(y[s][i])
                       /\ x[s][i] = x[s][i - 1]
                    \/ /\ sendq'[s][i].kind = "credit"
                       /\ y[s][i] = y[s][i - 1] /\ sendq'[s][i].end = Counted(x[s][i])
  BY DEF Asked
<1>4. i \in 1 .. n - 1 /\ i + 1 \in 1 .. n /\ i - 1 \in Nat /\ i \in Nat /\ (i - 1) + 1 = i /\ (i + 1) - 1 = i
  BY <1>1, <1>2
<1>5. y[s][i - 1] = q[s][i] /\ y[s][i] = q[s][i + 1] /\ x[s][i - 1] = t[s][i] /\ x[s][i] = t[s][i + 1]
  BY <1>3, <1>4 DEF From
<1>6. sendq'[s][i] = sendq[s][i + 1]
  BY <1>2, <1>4
<1>7. \/ /\ sendq[s][i + 1].kind = "data" /\ sendq[s][i + 1].n \in 1 .. RING
         /\ sendq[s][i + 1].at = Place(q[s][i]) /\ sendq[s][i + 1].at + sendq[s][i + 1].n <= RING
         /\ q[s][i + 1] = q[s][i] + sendq[s][i + 1].n /\ sendq[s][i + 1].end = Counted(q[s][i + 1])
         /\ t[s][i + 1] = t[s][i]
      \/ /\ sendq[s][i + 1].kind = "credit"
         /\ q[s][i + 1] = q[s][i] /\ sendq[s][i + 1].end = Counted(t[s][i + 1])
  BY <1>4 DEF Asked, n
<1> QED BY <1>5, <1>6, <1>7

\* One more completion: a data write's, or another.
LEMMA DoneData ==
  ASSUME RdmaParts, NEW s \in Sides, NEW v \in Positions, sendcq'[s] = Append(sendcq[s], v)
  PROVE  LastDone(s, v)' /\ (Failed(s)' <=> Failed(s))
<1> DEFINE n == Len(sendcq[s])
<1>1. sendcq[s] \in Seq(0 .. Modulus + 1) /\ n \in Nat
  BY DEF RdmaParts
<1> HIDE DEF n
<1>2. Len(sendcq'[s]) = n + 1 /\ sendcq'[s][n + 1] = v /\ \A i \in 1 .. n : sendcq'[s][i] = sendcq[s][i]
  BY <1>1 DEF n
<1>3. LastDone(s, v)'
  BY <1>2, <1>1 DEF LastDone, Marks
<1>4. v # FAILED
  BY ModulusFacts DEF Positions, FAILED
<1>5. Failed(s)' <=> Failed(s)
  BY <1>2, <1>4, <1>1 DEF Failed, n
<1> QED BY <1>3, <1>5

LEMMA DoneOther ==
  ASSUME RdmaParts, NEW s \in Sides, NEW v, v \notin Positions, sendcq'[s] = Append(sendcq[s], v),
         completed'[s] = completed[s]
  PROVE  (\A w : LastDone(s, w) => LastDone(s, w)') /\ (Failed(s)' <=> Failed(s) \/ v = FAILED)
<1> DEFINE n == Len(sendcq[s])
<1>1. sendcq[s] \in Seq(0 .. Modulus + 1) /\ n \in Nat
  BY DEF RdmaParts
<1> HIDE DEF n
<1>2. Len(sendcq'[s]) = n + 1 /\ sendcq'[s][n + 1] = v /\ \A i \in 1 .. n : sendcq'[s][i] = sendcq[s][i]
  BY <1>1 DEF n
<1>3. 1 .. n + 1 = (1 .. n) \cup {n + 1} /\ n + 1 \notin 1 .. n
  BY <1>1
<1>4. \A w : LastDone(s, w) => LastDone(s, w)'
  BY <1>2, <1>3 DEF LastDone, Marks, n
<1>5. Failed(s)' <=> Failed(s) \/ v = FAILED
  BY <1>2, <1>3 DEF Failed, n
<1> QED BY <1>4, <1>5

\* Bytes staged fit beside all the peer did not read, and what is on its way.
LEMMA Stages ==
  ASSUME RdmaInv, NEW s \in Sides, NEW n \in bounds.sizes, Stage(s, n), UNCHANGED bounds
  PROVE  RdmaInv'
<1> PICK q \in Paths, t \in Paths, r \in Paths, d \in [Sides -> Nat] : Chained(q, t, r, d)
  BY DEF RdmaInv
<1>0. RdmaParts /\ Settled /\ CleanEndIsComplete
  BY DEF RdmaInv
<1> DEFINE p == PeerOf(s)
           a == sent[s]
           w == writer[s].head
<1>p. p \in Sides /\ PeerOf(p) = s /\ p # s
  BY SideFacts
<1> HIDE DEF p
<1>n. n \in Nat \ {0}
  BY <1>0, RingAssumption DEF RdmaParts
<1>1. /\ UNCHANGED <<bounds, reader, inbox, counter, sendq, recvs, recvcq, gone, side, closed, up, sent, got>>
      /\ Reap(s) /\ writer[s].at = "idle"
      /\ n <= RING - Used(s) /\ n <= RING - (w % RING)
      /\ staging' = [staging EXCEPT ![s] = [i \in Slots |->
            IF i \in w % RING .. (w % RING) + n - 1 THEN a + 1 + (i - (w % RING)) ELSE staging[s][i]]]
      /\ writer' = [writer EXCEPT ![s] = [at |-> "post", head |-> w, n |-> n]]
  BY <1>0 DEF Stage, RdmaParts
<1>2. /\ completed' \in [Sides -> Positions] /\ sendcq' \in [Sides -> Seq(0 .. Modulus + 1)]
      /\ Len(sendcq'[s]) = IF Failed(s) THEN 1 ELSE 0
      /\ \A z \in Sides : z # s => sendcq'[z] = sendcq[z]
      /\ \A z \in Sides : Failed(z)' <=> Failed(z)
      /\ \A z \in Sides : \A v : LastDone(z, v) => LastDone(z, v)'
  BY <1>0, <1>1, Reaps
<1>3. /\ t[p][0] \in Nat /\ q[s][0] \in Nat /\ t[p][0] <= q[s][0] /\ q[s][0] <= a /\ a \in Nat
      /\ a <= t[p][0] + RING
  <2>1. /\ t[p][0] \in Nat /\ q[s][0] \in Nat /\ r[p][0] \in Nat /\ d[p] \in Nat
        /\ t[p][0] <= d[p] /\ d[p] <= got[p] /\ got[p] <= r[p][0]
        /\ r[p][0] <= q[s][0] /\ q[s][0] <= sent[s]
        /\ sent[s] + Staged(s) <= t[p][0] + RING /\ Staged(s) \in 0 .. RING
    BY <1>0, OnItsWay DEF p
  <2>2. a \in Nat /\ got[p] \in Nat
    BY <1>0, <1>p DEF RdmaParts
  <2>3. Staged(s) = 0
    BY <1>1 DEF Staged
  <2>4. a <= t[p][0] + RING
    BY <2>1, <2>2, <2>3, ModulusFacts
  <2>5. t[p][0] <= q[s][0]
    BY <2>1, <2>2
  <2> QED BY <2>1, <2>2, <2>4, <2>5
<1>4. w % RING = Place(a) /\ w = Counted(a)
  BY <1>3, PlaceOfCounted DEF Chained, Written
<1>5. /\ n <= RING - (a - t[p][0]) /\ n <= RING - (a - q[s][0]) /\ Place(a) + n <= RING
  <2>1. Used(s) = IF t[p][0] < q[s][0] THEN a - t[p][0] ELSE a - q[s][0]
    BY <1>0, RoomIs DEF p
  <2>2. n <= RING - Used(s) /\ n <= RING - Place(a)
    BY <1>1, <1>4
  <2>3. Place(a) + n <= RING
    BY <1>n, <1>3, CountedType, <2>2, ModulusFacts DEF Slots
  <2>4. n <= RING - (a - t[p][0])
    BY <1>n, <1>3, <2>1, <2>2, ModulusFacts
  <2>5. n <= RING - (a - q[s][0])
    BY <1>n, <1>3, <2>1, <2>2, ModulusFacts
  <2> QED BY <2>3, <2>4, <2>5
<1>6. n \in 1 .. RING
  BY <1>n, <1>3, <1>5, ModulusFacts
<1> HIDE DEF a, w
<1>7. RdmaParts'
  <2>1. w \in Positions
    BY <1>3, <1>4, CountedType
  <2>2. writer' \in [Sides -> [at : {"idle", "post", "failed", "shut"}, head : Positions, n : 0 .. RING]]
    BY <1>0, <1>1, <1>6, <2>1 DEF RdmaParts
  <2>3. staging' \in [Sides -> [Slots -> Nat]]
    <3> DEFINE g == [i \in Slots |->
            IF i \in Place(a) .. Place(a) + n - 1 THEN a + 1 + (i - Place(a)) ELSE staging[s][i]]
    <3>1. \A i \in Slots : g[i] \in Nat
      <4> TAKE i \in Slots
      <4>1. staging[s][i] \in Nat
        BY <1>0 DEF RdmaParts
      <4>2. i \in Place(a) .. Place(a) + n - 1 => a + 1 + (i - Place(a)) \in Nat
        BY <1>3, <1>n, CountedType DEF Slots
      <4> QED BY <4>1, <4>2
    <3>2. g \in [Slots -> Nat]
      BY <3>1
    <3>3. staging' = [staging EXCEPT ![s] = g]
      BY <1>1, <1>4
    <3> HIDE DEF g
    <3> QED BY <1>0, <3>2, <3>3 DEF RdmaParts
  <2>4. completed' \in [Sides -> Positions] /\ sendcq' \in [Sides -> Seq(0 .. Modulus + 1)]
    BY <1>2
  <2> QED BY <1>0, <1>1, <2>2, <2>3, <2>4 DEF RdmaParts
<1>8. /\ writer'[s] = [at |-> "post", head |-> w, n |-> n]
      /\ \A z \in Sides : z # s => writer'[z] = writer[z] /\ staging'[z] = staging[z]
  BY <1>0, <1>1 DEF RdmaParts
<1>c. closed[s] # "clean"
  BY <1>0, <1>1 DEF Settled, SettledAt
<1>9. Settled'
  <2>1. SomeClosed' <=> SomeClosed
    BY <1>1 DEF SomeClosed
  <2>2. ASSUME NEW z \in Sides PROVE SettledAt(z)'
    <3>1. SettledAt(z)
      BY <1>0 DEF Settled
    <3>2. Len(sendq[z]) + Len(sendcq'[z]) <= SENDS + 1
      <4>1. Len(sendq[z]) \in Nat /\ SENDS \in Nat
        BY <1>0, RingAssumption DEF RdmaParts
      <4>2. Len(sendq[z]) <= SENDS /\ Len(sendq[z]) + Len(sendcq[z]) <= SENDS + 1
        BY <3>1 DEF SettledAt
      <4>3. \A x \in Nat : x <= SENDS => x + 0 <= SENDS + 1 /\ x + 1 <= SENDS + 1
        BY RingAssumption
      <4>4. z = s => Len(sendcq'[z]) = 0 \/ Len(sendcq'[z]) = 1
        BY <1>2
      <4>5. z # s => sendcq'[z] = sendcq[z]
        BY <1>2
      <4> QED BY <4>1, <4>2, <4>3, <4>4, <4>5
    <3>3. closed[z] = "clean" => writer'[z].at = "shut"
      BY <1>8, <1>c, <3>1 DEF SettledAt
    <3> QED BY <1>1, <1>2, <2>1, <3>1, <3>2, <3>3 DEF SettledAt
  <2> QED BY <1>0, <1>1, <2>1, <2>2 DEF Settled
<1>10. CleanEndIsComplete'
  BY <1>0, <1>1 DEF CleanEndIsComplete
<1>11. Chained(q, t, r, d)'
  <2>1. ASSUME NEW z \in Sides
        PROVE  Asked(z, q, t)' /\ Written(z, q, t)' /\ Telling(z, t, d)' /\ Landed(z, q, r)'
    <3>1. Asked(z, q, t) /\ Written(z, q, t) /\ Telling(z, t, d) /\ Landed(z, q, r)
      BY DEF Chained
    <3>2. LastDone(z, Counted(q[z][0]))'
      BY <1>2, <3>1 DEF Written
    <3>3. Asked(z, q, t)'
      BY <1>1, <3>1, AskedSame
    <3>4. CASE z = s
      <4>1. Staged(s) = 0 /\ Staged(s)' = n
        BY <1>1, <1>8 DEF Staged
      <4>2. InPlace(staging'[s], q[s][0], a + n)
        <5> DEFINE h == [i \in Slots |-> a + 1 + (i - Place(a))]
                   f == staging[s]
                   g == Overlaid(f, h, Place(a), n)
        <5>1. InPlace(h, a, a + n)
          <6> HIDE DEF h
          <6> SUFFICES ASSUME NEW k \in a .. (a + n) - 1 PROVE h[Place(k)] = k + 1
            BY DEF InPlace
          <6>1. k - a \in Nat /\ Place(a) + (k - a) < RING /\ k \in Nat /\ k = a + (k - a)
            BY <1>3, <1>5, <1>6, CountedType, ModulusFacts DEF Slots
          <6>2. Place(a) \in 0 .. RING - 1 /\ Place(k) \in Slots
            BY <1>3, <6>1, CountedType DEF Slots
          <6>3. h[Place(k)] = a + 1 + (Place(k) - Place(a))
            BY <6>2 DEF h
          <6>4. a + 1 + (Place(k) - Place(a)) = k + 1
            BY <1>3, <6>1, PlaceOn, <6>2
          <6> QED BY <6>3, <6>4
        <5>2. staging'[s] = g
          BY <1>0, <1>1, <1>4 DEF Overlaid, RdmaParts
        <5> HIDE DEF h
        <5>3. n \in Nat /\ a + n - q[s][0] <= RING
          BY <1>3, <1>5, <1>6, ModulusFacts
        <5>4. InPlace(f, q[s][0], a)
          BY <3>1, <3>4, <1>3, <4>1 DEF Written, a
        <5> HIDE DEF f
        <5>5. InPlace(g, q[s][0], a + n)
          BY <5>1, <5>3, <5>4, <1>3, <1>5, WindowGrows
        <5> QED BY <5>2, <5>5
      <4>3. a + n <= t[p][0] + RING
        BY <1>3, <1>5, <1>6, ModulusFacts
      <4>4. closed'[s] # "clean" /\ sent'[s] = a /\ counter'[s] = counter[s] /\ sendq'[s] = sendq[s]
        BY <1>1, <1>c DEF a
      <4>5. Written(z, q, t)'
        BY <3>4, <1>2, <1>5, <1>6, <3>2, <4>1, <3>1, <1>4, <4>2, <4>3, <4>4, <1>8
          DEF Written, p, a
      <4>6. Telling(z, t, d)'
        BY <1>1, <1>2, <3>1, TellingSame
      <4>7. Landed(z, q, r)'
        BY <1>1, <3>1, LandedSame
      <4> QED BY <3>3, <4>5, <4>6, <4>7
    <3>5. CASE z # s
      <4>1. Written(z, q, t)'
        BY <1>0, <1>1, <1>2, <1>8, <3>1, <3>2, <3>5, WrittenSame
      <4>2. Telling(z, t, d)'
        BY <1>1, <1>2, <3>1, TellingSame
      <4>3. Landed(z, q, r)'
        BY <1>1, <3>1, LandedSame
      <4> QED BY <3>3, <4>1, <4>2, <4>3
    <3> QED BY <3>4, <3>5
  <2> QED BY <2>1 DEF Chained
<1> QED BY <1>7, <1>9, <1>10, <1>11 DEF RdmaInv

-----------------------------------------------------------------------------
(* RdmaRing: posting.                                                      *)

\* Paths that agree where a part looks at them are as good.
LEMMA AskedAlike ==
  ASSUME NEW z \in Sides, NEW q, NEW t, NEW y, NEW x, Asked(z, q, t), y[z] = q[z], x[z] = t[z]
  PROVE  Asked(z, y, x)
BY DEF Asked

LEMMA WrittenAlike ==
  ASSUME NEW z \in Sides, NEW q, NEW t, NEW y, NEW x, Written(z, q, t),
         y[z] = q[z], x[PeerOf(z)][0] = t[PeerOf(z)][0]
  PROVE  Written(z, y, x)
BY DEF Written

LEMMA TellingAlike ==
  ASSUME NEW z \in Sides, NEW t, NEW d, NEW x, NEW e, Telling(z, t, d), x[z] = t[z], e[z] = d[z]
  PROVE  Telling(z, x, e)
BY DEF Telling

LEMMA LandedAlike ==
  ASSUME NEW z \in Sides, NEW q, NEW r, NEW y, NEW v, Landed(z, q, r),
         y[PeerOf(z)][0] = q[PeerOf(z)][0], v[z] = r[z]
  PROVE  Landed(z, y, v)
BY DEF Landed

\* A path of one side's, one step longer.
Longer(q, s, n, v) == [q EXCEPT ![s] = Extend(q[s], n, v)]

LEMMA PathExtends ==
  ASSUME NEW q \in Paths, NEW s \in Sides, NEW n \in Nat, NEW v \in Nat
  PROVE  Longer(q, s, n, v) \in Paths /\ Longer(q, s, n, v)[s] = Extend(q[s], n, v)
<1>1. q[s] \in [Nat -> Nat]
  BY Zenon DEF Paths
<1>2. Extend(q[s], n, v) \in [Nat -> Nat]
  BY <1>1, ExtendIs
<1> QED BY <1>2 DEF Paths, Longer

LEMMA PathKept ==
  ASSUME NEW q \in Paths, NEW s \in Sides, NEW n \in Nat, NEW v \in Nat, NEW z \in Sides, z # s
  PROVE  Longer(q, s, n, v)[z] = q[z]
BY DEF Paths, Longer

LEMMA PathExtended ==
  ASSUME NEW q \in Paths, NEW s \in Sides, NEW n \in Nat, NEW v \in Nat
  PROVE  /\ Longer(q, s, n, v)[s][0] = q[s][0] /\ Longer(q, s, n, v)[s][n + 1] = v
         /\ Rising(q[s], n) /\ q[s][n] <= v => Rising(Longer(q, s, n, v)[s], n + 1)
<1>1. q[s] \in [Nat -> Nat]
  BY Zenon DEF Paths
<1> PICK f \in [Nat -> Nat] : f = q[s]
  BY <1>1
<1>a. /\ Extend(f, n, v) \in [Nat -> Nat]
      /\ \A i \in 0 .. n : Extend(f, n, v)[i] = f[i]
      /\ Extend(f, n, v)[n + 1] = v
      /\ Rising(f, n) /\ f[n] <= v => Rising(Extend(f, n, v), n + 1)
  BY ExtendIs, Zenon
<1>2. Extend(q[s], n, v)[0] = q[s][0]
  BY <1>a
<1>3. Extend(q[s], n, v)[n + 1] = v
  BY <1>a
<1>4. Rising(q[s], n) /\ q[s][n] <= v => Rising(Extend(q[s], n, v), n + 1)
  BY <1>a
<1> QED BY <1>2, <1>3, <1>4, PathExtends

\* A request posted stands last in the queue, and everything completed is reaped.
LEMMA PostsOn ==
  ASSUME RdmaParts, Settled, NEW s \in Sides, NEW m \in Requests, Post(s, m)
  PROVE  /\ sendq' \in [Sides -> Seq(Requests)]
         /\ completed' \in [Sides -> Positions] /\ sendcq' \in [Sides -> Seq(0 .. Modulus + 1)]
         /\ sendq'[s] = Append(sendq[s], m) /\ Len(sendq'[s]) = Len(sendq[s]) + 1
         /\ \A z \in Sides : z # s => sendq'[z] = sendq[z] /\ sendcq'[z] = sendcq[z]
         /\ ~Failed(s) /\ \A z \in Sides : Failed(z)' <=> Failed(z)
         /\ \A z \in Sides : \A w : LastDone(z, w) => LastDone(z, w)'
         /\ \A z \in Sides : Len(sendq'[z]) <= SENDS /\ Len(sendq'[z]) + Len(sendcq'[z]) <= SENDS + 1
<1> PICK n : n = Len(sendq[s])
  OBVIOUS
<1>1. /\ ~Failed(s) /\ Len(sendq[s]) < SENDS /\ Reap(s)
      /\ sendq' = [sendq EXCEPT ![s] = Append(@, m)]
  BY DEF Post, Posts
<1>2. sendq[s] \in Seq(Requests) /\ n \in Nat
  BY DEF RdmaParts
<1>3. /\ completed' \in [Sides -> Positions] /\ sendcq' \in [Sides -> Seq(0 .. Modulus + 1)]
      /\ Len(sendcq'[s]) = IF Failed(s) THEN 1 ELSE 0
      /\ \A z \in Sides : z # s => sendcq'[z] = sendcq[z]
      /\ \A z \in Sides : Failed(z)' <=> Failed(z)
      /\ \A z \in Sides : \A w : LastDone(z, w) => LastDone(z, w)'
  BY <1>1, Reaps
<1>4. /\ sendq'[s] = Append(sendq[s], m) /\ \A z \in Sides : z # s => sendq'[z] = sendq[z]
  BY <1>1 DEF RdmaParts
<1>5. sendq' \in [Sides -> Seq(Requests)]
  BY <1>1, <1>2 DEF RdmaParts
<1>6. Len(sendq'[s]) = n + 1 /\ n + 1 <= SENDS
  BY <1>2, <1>4, <1>1, RingAssumption
<1>7. ASSUME NEW z \in Sides PROVE Len(sendq'[z]) <= SENDS /\ Len(sendq'[z]) + Len(sendcq'[z]) <= SENDS + 1
  <2>1. CASE z = s
    BY <1>2, <1>6, <1>1, <1>3, <2>1, RingAssumption
  <2>2. CASE z # s
    BY <1>3, <1>4, <2>2 DEF SettledAt, Settled
  <2> QED BY <2>1, <2>2
<1> QED BY <1>1, <1>2, <1>3, <1>4, <1>5, <1>6, <1>7

\* It carries on from the requests before it.
LEMMA PostAsks ==
  ASSUME RdmaParts, NEW s \in Sides, NEW m \in Requests, NEW q \in Paths, NEW t \in Paths,
         NEW n \in Nat, n = Len(sendq[s]), NEW v \in Nat, NEW u \in Nat,
         NextAsked(m, q[s][n], t[s][n], v, u),
         NEW y, y = Longer(q, s, n, v), NEW x, x = Longer(t, s, n, u),
         NEW z \in Sides, Asked(z, q, t), sendq'[s] = Append(sendq[s], m), z # s => sendq'[z] = sendq[z]
  PROVE  Asked(z, y, x)'
<1>1. y \in Paths /\ y[s] = Extend(q[s], n, v)
  BY PathExtends
<1>2. x \in Paths /\ x[s] = Extend(t[s], n, u)
  BY PathExtends
<1>3. CASE z = s
  <2>1. Asked(s, q, t)
    BY <1>3
  <2>2. Asked(s, y, x)'
    BY <1>1, <1>2, <2>1, AskedMore
  <2> QED BY <1>3, <2>2
<1>4. CASE z # s
  <2>1. y[z] = q[z]
    BY <1>4, PathKept
  <2>2. x[z] = t[z]
    BY <1>4, PathKept
  <2>3. Asked(z, y, x)
    BY <2>1, <2>2, AskedAlike
  <2> QED BY <1>4, <2>3, AskedSame
<1> QED BY <1>3, <1>4

\* Bytes staged are posted in the place the peer reads them from.
LEMMA PostsData ==
  ASSUME RdmaInv, NEW s \in Sides, PostData(s), UNCHANGED bounds
  PROVE  RdmaInv'
<1> PICK q \in Paths, t \in Paths, r \in Paths, d \in [Sides -> Nat] : Chained(q, t, r, d)
  BY DEF RdmaInv
<1>0. RdmaParts /\ Settled /\ CleanEndIsComplete
  BY DEF RdmaInv
<1> DEFINE p == PeerOf(s)
<1>p. p \in Sides /\ PeerOf(p) = s /\ p # s
  BY SideFacts
<1> HIDE DEF p
<1>a. PICK a \in Nat, k \in Nat, n \in Nat : a = sent[s] /\ k = writer[s].n /\ n = Len(sendq[s])
  BY <1>0, ModulusFacts DEF RdmaParts
<1>m. PICK m : m = [kind |-> "data", at |-> writer[s].head % RING, n |-> k, end |-> Plus(writer[s].head, k)]
  OBVIOUS
<1>u. q[s][n] \in Nat /\ t[s][n] \in Nat
  <2>1. q[s] \in [Nat -> Nat] /\ t[s] \in [Nat -> Nat]
    BY Zenon DEF Paths
  <2> QED BY <2>1
<1>v. PICK v \in Nat, u \in Nat : v = a + k /\ u = t[s][n]
  BY <1>u
<1>1. /\ UNCHANGED <<bounds, reader, staging, inbox, counter, recvs, recvcq, gone, side, closed, up, got>>
      /\ writer[s].at = "post" /\ Post(s, m)
      /\ writer' = [writer EXCEPT ![s] = [at |-> "idle", head |-> Plus(writer[s].head, k), n |-> 0]]
      /\ sent' = [sent EXCEPT ![s] = a + k]
  BY <1>0, <1>a, <1>m DEF PostData, RdmaParts
<1>2. /\ Asked(s, q, t) /\ Written(s, q, t) /\ Telling(s, t, d)
      /\ \A z \in Sides : Asked(z, q, t)
  BY DEF Chained
<1>3. /\ writer[s].head = Counted(a) /\ Rising(q[s], n) /\ q[s][n] <= a
      /\ k \in 1 .. RING /\ Place(a) + k <= RING /\ InPlace(staging[s], q[s][0], a + k)
      /\ a + k <= t[p][0] + RING /\ counter[s] = Counted(t[p][0])
  <2> QED BY <1>1, <1>2, <1>a DEF Written, p, Staged
<1>4. q[s][n] = a
  <2>1. ~Failed(s)
    BY <1>1 DEF Post, Posts
  <2> QED BY <1>2, <1>a, <2>1 DEF Written
<1>5. writer[s].head % RING = Place(a) /\ Plus(writer[s].head, k) = Counted(v)
  BY <1>3, <1>v, PlaceOfCounted, CountedOn
<1>6. m \in Requests
  BY <1>3, <1>m, <1>5, CountedType, ModulusFacts DEF Requests
<1>7. NextAsked(m, q[s][n], t[s][n], v, u)
  BY <1>3, <1>m, <1>v, <1>4, <1>5 DEF NextAsked
<1>y. PICK y, x : y = Longer(q, s, n, v) /\ x = Longer(t, s, n, u)
  OBVIOUS
<1>8. /\ sendq' \in [Sides -> Seq(Requests)]
      /\ completed' \in [Sides -> Positions] /\ sendcq' \in [Sides -> Seq(0 .. Modulus + 1)]
      /\ sendq'[s] = Append(sendq[s], m) /\ Len(sendq'[s]) = Len(sendq[s]) + 1
      /\ \A z \in Sides : z # s => sendq'[z] = sendq[z] /\ sendcq'[z] = sendcq[z]
      /\ ~Failed(s) /\ \A z \in Sides : Failed(z)' <=> Failed(z)
      /\ \A z \in Sides : \A w : LastDone(z, w) => LastDone(z, w)'
      /\ \A z \in Sides : Len(sendq'[z]) <= SENDS /\ Len(sendq'[z]) + Len(sendcq'[z]) <= SENDS + 1
  BY <1>0, <1>1, <1>6, PostsOn
<1>9. \A z \in Sides : Asked(z, y, x)'
  <2> TAKE z \in Sides
  <2>1. n = Len(sendq[s]) /\ y = Longer(q, s, n, v) /\ x = Longer(t, s, n, u) /\ Asked(z, q, t)
    BY <1>2, <1>a, <1>y
  <2>2. RdmaParts /\ m \in Requests /\ sendq'[s] = Append(sendq[s], m) /\ (z # s => sendq'[z] = sendq[z])
    BY <1>0, <1>6, <1>8
  <2> QED BY <1>7, <2>1, <2>2, PostAsks
<1>10. y \in Paths /\ x \in Paths
  <2>1. y \in Paths
    BY <1>y, PathExtends
  <2>2. x \in Paths
    BY <1>y, PathExtends
  <2> QED BY <2>1, <2>2
<1>11. \A z \in Sides : z # s => y[z] = q[z]
  BY <1>y, PathKept
<1>12. \A z \in Sides : z # s => x[z] = t[z]
  BY <1>y, PathKept
<1>13. y[s][0] = q[s][0] /\ y[s][n + 1] = v /\ Rising(y[s], n + 1)
  <2>1. y[s][0] = q[s][0] /\ y[s][n + 1] = v
    BY <1>y, PathExtended
  <2>2. Rising(q[s], n) /\ q[s][n] <= v
    BY <1>v, <1>3, <1>4
  <2>3. Rising(y[s], n + 1)
    BY <1>y, <2>2, PathExtended
  <2> QED BY <2>1, <2>3
<1>14. x[s][0] = t[s][0] /\ x[s][n + 1] = u /\ Rising(x[s], n + 1)
  <2>1. x[s][0] = t[s][0] /\ x[s][n + 1] = u
    BY <1>y, PathExtended
  <2>2. Rising(t[s], n) /\ t[s][n] <= u
    BY <1>a, <1>v, <1>2 DEF Telling
  <2>3. Rising(x[s], n + 1)
    BY <1>y, <2>2, PathExtended
  <2> QED BY <2>1, <2>3
<1>15. /\ writer'[s] = [at |-> "idle", head |-> Plus(writer[s].head, k), n |-> 0] /\ sent'[s] = v
       /\ \A z \in Sides : z # s => writer'[z] = writer[z] /\ sent'[z] = sent[z]
  BY <1>a, <1>v, <1>0, <1>1 DEF RdmaParts
<1>16. RdmaParts'
  <2>1. writer' \in [Sides -> [at : {"idle", "post", "failed", "shut"}, head : Positions, n : 0 .. RING]]
    BY <1>0, <1>1, <1>5, CountedType, ModulusFacts DEF RdmaParts
  <2>2. sent' \in [Sides -> Nat]
    BY <1>0, <1>1 DEF RdmaParts
  <2> QED BY <1>0, <1>1, <1>8, <2>1, <2>2 DEF RdmaParts
<1>c. closed[s] # "clean"
  <2>1. SettledAt(s)
    BY <1>0 DEF Settled
  <2> QED BY <1>1, <2>1 DEF SettledAt
<1>17. Settled'
  <2>1. SomeClosed' <=> SomeClosed
    BY <1>1 DEF SomeClosed
  <2>2. ASSUME NEW z \in Sides PROVE SettledAt(z)'
    <3>1. SettledAt(z)
      BY <1>0 DEF Settled
    <3>2. closed[z] = "clean" => writer'[z].at = "shut"
      BY <1>15, <1>c, <3>1 DEF SettledAt
    <3>3. Failed(z)' => sendq'[z] = <<>>
      BY <1>8, <3>1 DEF SettledAt
    <3> QED BY <1>1, <1>8, <2>1, <3>1, <3>2, <3>3 DEF SettledAt
  <2> QED BY <1>0, <1>1, <2>1, <2>2 DEF Settled
<1>18. CleanEndIsComplete'
  <2> SUFFICES ASSUME NEW z \in Sides, reader'[z].at = "end", closed'[PeerOf(z)] = "clean", closed'[z] = "no"
               PROVE  got'[z] = sent'[PeerOf(z)]
    BY DEF CleanEndIsComplete
  <2>1. PeerOf(z) \in Sides /\ PeerOf(z) # s
    BY <1>1, <1>c, SideFacts
  <2>2. got[z] = sent[PeerOf(z)]
    BY <1>0, <1>1 DEF CleanEndIsComplete
  <2> QED BY <1>1, <1>15, <2>1, <2>2
<1>19. Chained(y, x, r, d)'
  <2>1. ASSUME NEW z \in Sides
        PROVE  Asked(z, y, x)' /\ Written(z, y, x)' /\ Telling(z, x, d)' /\ Landed(z, y, r)'
    <3>1. Asked(z, q, t) /\ Written(z, q, t) /\ Telling(z, t, d) /\ Landed(z, q, r)
      BY DEF Chained
    <3>2. y[PeerOf(z)][0] = q[PeerOf(z)][0] /\ x[PeerOf(z)][0] = t[PeerOf(z)][0] /\ y[z][0] = q[z][0]
      BY <1>11, <1>12, <1>13, <1>14, SideFacts
    <3>3. Landed(z, y, r)
      BY <3>1, <3>2, LandedAlike
    <3>4. Landed(z, y, r)'
      BY <1>1, <3>3, LandedSame
    <3>5. LastDone(z, Counted(y[z][0]))'
      BY <1>8, <3>1, <3>2 DEF Written
    <3>6. CASE z = s
      <4>0. Len(sendq'[s]) = n + 1
        BY <1>8, <1>a
      <4>1. InPlace(staging'[s], y[s][0], v) /\ v <= x[p][0] + RING /\ counter'[s] = Counted(x[p][0])
        BY <1>v, <1>1, <1>3, <1>12, <1>13, <1>14, <1>p
      <4>2. y[s][n + 1] <= v
        BY <1>13
      <4>3. Written(s, y, x)'
        BY <1>8, <1>13, <1>15, <4>0, <4>1, <1>5, <4>2, <1>1, <1>c, <3>5, <3>6
          DEF Written, p, Staged
      <4>4. Telling(s, x, d)'
        BY <1>1, <1>2, <1>8, <1>14, <4>0, <1>a, <1>v DEF Telling
      <4> QED BY <1>9, <3>4, <3>6, <4>3, <4>4
    <3>7. CASE z # s
      <4>1. Written(z, y, x)'
        BY <1>0, <1>1, <1>8, <1>10, <1>15, <3>5, <3>7, <1>11, <3>1, <3>2, WrittenAlike,
           WrittenSame
      <4> QED BY <1>9, <3>4, <4>1, <1>1, <1>8, <3>7, <1>12, <3>1, TellingAlike, TellingSame
    <3> QED BY <3>6, <3>7
  <2> QED BY <2>1 DEF Chained
<1> QED BY <1>16, <1>10, <1>17, <1>18, <1>19 DEF RdmaInv

\* A position told is posted behind what the writer posted.
LEMMA PostsCredit ==
  ASSUME RdmaInv, NEW s \in Sides, PostCredit(s), UNCHANGED bounds
  PROVE  RdmaInv'
<1> PICK q \in Paths, t \in Paths, r \in Paths, d \in [Sides -> Nat] : Chained(q, t, r, d)
  BY DEF RdmaInv
<1>0. RdmaParts /\ Settled /\ CleanEndIsComplete
  BY DEF RdmaInv
<1>a. PICK n \in Nat : n = Len(sendq[s])
  BY <1>0 DEF RdmaParts
<1>m. PICK m : m = [kind |-> "credit", at |-> 0, n |-> 0, end |-> reader[s].told]
  OBVIOUS
<1>u. q[s][n] \in Nat /\ t[s][n] \in Nat /\ d[s] \in Nat
  <2>1. q[s] \in [Nat -> Nat] /\ t[s] \in [Nat -> Nat]
    BY Zenon DEF Paths
  <2> QED BY <2>1
<1>v. PICK v \in Nat, u \in Nat : v = q[s][n] /\ u = d[s]
  BY <1>u
<1>1. /\ UNCHANGED <<bounds, writer, staging, inbox, counter, recvs, recvcq, gone, side, closed, up, sent, got>>
      /\ reader[s].at = "credit" /\ Post(s, m)
      /\ reader' = [reader EXCEPT ![s].at = "read"]
  BY <1>m DEF PostCredit
<1>2. /\ Asked(s, q, t) /\ Written(s, q, t) /\ Telling(s, t, d)
      /\ \A z \in Sides : Asked(z, q, t)
  BY DEF Chained
<1>3. /\ Rising(q[s], n) /\ q[s][n] <= v /\ Rising(t[s], n) /\ t[s][n] <= u
      /\ reader[s].told = Counted(u)
  BY <1>u, <1>v, <1>2, <1>a DEF Written, Telling
<1>4. m \in Requests
  BY <1>m, ModulusFacts, <1>3, CountedType DEF Requests, Slots
<1>5. NextAsked(m, q[s][n], t[s][n], v, u)
  BY <1>m, <1>v, <1>3 DEF NextAsked
<1>y. PICK y, x : y = Longer(q, s, n, v) /\ x = Longer(t, s, n, u)
  OBVIOUS
<1>6. /\ sendq' \in [Sides -> Seq(Requests)]
      /\ completed' \in [Sides -> Positions] /\ sendcq' \in [Sides -> Seq(0 .. Modulus + 1)]
      /\ sendq'[s] = Append(sendq[s], m) /\ Len(sendq'[s]) = Len(sendq[s]) + 1
      /\ \A z \in Sides : z # s => sendq'[z] = sendq[z] /\ sendcq'[z] = sendcq[z]
      /\ ~Failed(s) /\ \A z \in Sides : Failed(z)' <=> Failed(z)
      /\ \A z \in Sides : \A w : LastDone(z, w) => LastDone(z, w)'
      /\ \A z \in Sides : Len(sendq'[z]) <= SENDS /\ Len(sendq'[z]) + Len(sendcq'[z]) <= SENDS + 1
  BY <1>0, <1>1, <1>4, PostsOn
<1>7. \A z \in Sides : Asked(z, y, x)'
  <2> TAKE z \in Sides
  <2>1. n = Len(sendq[s]) /\ y = Longer(q, s, n, v) /\ x = Longer(t, s, n, u) /\ Asked(z, q, t)
    BY <1>2, <1>a, <1>y
  <2>2. RdmaParts /\ m \in Requests /\ sendq'[s] = Append(sendq[s], m) /\ (z # s => sendq'[z] = sendq[z])
    BY <1>0, <1>4, <1>6
  <2> QED BY <1>5, <2>1, <2>2, PostAsks
<1>8. y \in Paths /\ x \in Paths
  <2>1. y \in Paths
    BY <1>y, PathExtends
  <2>2. x \in Paths
    BY <1>y, PathExtends
  <2> QED BY <2>1, <2>2
<1>9. \A z \in Sides : z # s => y[z] = q[z]
  BY <1>y, PathKept
<1>10. \A z \in Sides : z # s => x[z] = t[z]
  BY <1>y, PathKept
<1>11. y[s][0] = q[s][0] /\ y[s][n + 1] = v /\ Rising(y[s], n + 1)
  BY <1>y, PathExtended, <1>3
<1>12. x[s][0] = t[s][0] /\ x[s][n + 1] = u /\ Rising(x[s], n + 1)
  BY <1>y, PathExtended, <1>3
<1>13. /\ reader'[s] = [reader[s] EXCEPT !.at = "read"]
       /\ \A z \in Sides : z # s => reader'[z] = reader[z]
  BY <1>0, <1>1 DEF RdmaParts
<1>14. reader[s] \in [at : {"read", "credit", "end", "failed"}, head : Positions,
                      tail : Positions, told : Positions, ended : BOOLEAN]
  BY <1>0 DEF RdmaParts
<1>15. /\ reader'[s].at = "read" /\ reader'[s].head = reader[s].head /\ reader'[s].tail = reader[s].tail
       /\ reader'[s].told = reader[s].told /\ reader'[s].ended = reader[s].ended
  BY <1>13, <1>14
<1>16. RdmaParts'
  <2>1. reader' \in [Sides -> [at : {"read", "credit", "end", "failed"}, head : Positions,
                              tail : Positions, told : Positions, ended : BOOLEAN]]
    BY <1>0, <1>14, <1>1 DEF RdmaParts
  <2> QED BY <1>0, <1>1, <1>6, <2>1 DEF RdmaParts
<1>17. Settled'
  <2>1. SomeClosed' <=> SomeClosed
    BY <1>1 DEF SomeClosed
  <2>2. ASSUME NEW z \in Sides PROVE SettledAt(z)'
    <3>1. SettledAt(z)
      BY <1>0 DEF Settled
    <3>2. Failed(z)' => sendq'[z] = <<>>
      BY <1>6, <3>1 DEF SettledAt
    <3>3. reader'[z].ended => SomeClosed'
      BY <1>13, <1>15, <2>1, <3>1 DEF SettledAt
    <3>4. reader'[z].at = "end" => reader'[z].ended
      BY <1>13, <1>15, <3>1 DEF SettledAt
    <3> QED BY <1>1, <1>6, <3>1, <3>2, <3>3, <3>4 DEF SettledAt
  <2> QED BY <1>0, <1>1, <2>1, <2>2 DEF Settled
<1>18. CleanEndIsComplete'
  <2> SUFFICES ASSUME NEW z \in Sides, reader'[z].at = "end", closed'[PeerOf(z)] = "clean", closed'[z] = "no"
               PROVE  got'[z] = sent'[PeerOf(z)]
    BY DEF CleanEndIsComplete
  <2> QED BY <1>1, <1>0, <1>13, <1>15 DEF CleanEndIsComplete
<1>19. Chained(y, x, r, d)'
  <2>1. ASSUME NEW z \in Sides
        PROVE  Asked(z, y, x)' /\ Written(z, y, x)' /\ Telling(z, x, d)' /\ Landed(z, y, r)'
    <3>1. Asked(z, q, t) /\ Written(z, q, t) /\ Telling(z, t, d) /\ Landed(z, q, r)
      BY DEF Chained
    <3>2. y[PeerOf(z)][0] = q[PeerOf(z)][0] /\ x[PeerOf(z)][0] = t[PeerOf(z)][0] /\ y[z][0] = q[z][0]
      BY <1>9, <1>10, <1>11, <1>12, SideFacts
    <3>3. Landed(z, y, r)'
      BY <1>1, <3>1, <3>2, LandedAlike, <1>13, <1>15, LandedSame
    <3>4. LastDone(z, Counted(y[z][0]))'
      BY <1>6, <3>1, <3>2 DEF Written
    <3>5. CASE z = s
      <4>0. Len(sendq'[s]) = n + 1
        BY <1>6, <1>a
      <4>1. Written(s, y, x)'
        BY <1>1, <1>6, <1>11, <3>4, <3>5, <4>0, <1>a, <3>1, <3>2, <1>v DEF Written, Staged
      <4>2. Telling(s, x, d)'
        BY <1>1, <1>2, <1>6, <1>12, <1>15, <4>0, <1>u, <1>v DEF Telling
      <4> QED BY <1>7, <3>3, <3>5, <4>1, <4>2
    <3>6. CASE z # s
      <4>1. Written(z, y, x)'
        BY <1>0, <1>1, <1>6, <1>8, <3>4, <3>6, <1>9, <3>1, <3>2, WrittenAlike, WrittenSame
      <4>2. Telling(z, x, d)'
        BY <1>1, <1>6, <1>13, <3>6, <1>10, <3>1, TellingAlike, TellingSame
      <4> QED BY <1>7, <3>3, <4>1, <4>2
    <3> QED BY <3>5, <3>6
  <2> QED BY <2>1 DEF Chained
<1> QED BY <1>16, <1>8, <1>17, <1>18, <1>19 DEF RdmaInv

\* What a reader takes is what it held, and it tells its peer when that is due.
LEMMA TakesBytes ==
  ASSUME RdmaInv, NEW s \in Sides, NEW n \in 1 .. RING, Take(s, n), UNCHANGED bounds
  PROVE  RdmaInv'
<1> PICK q \in Paths, t \in Paths, r \in Paths, d \in [Sides -> Nat] : Chained(q, t, r, d)
  BY DEF RdmaInv
<1>0. RdmaParts /\ Settled /\ CleanEndIsComplete
  BY DEF RdmaInv
<1>p. PICK p \in Sides : p = PeerOf(s) /\ s = PeerOf(p) /\ p # s
  BY SideFacts
<1>1. /\ UNCHANGED <<bounds, writer, staging, inbox, counter, sendq, sendcq, completed, recvs, recvcq,
                     gone, side, closed, up, sent>>
      /\ reader[s].at = "read" /\ n <= HeldBytes(s)
      /\ reader' = [reader EXCEPT ![s].tail = Plus(@, n),
                  ![s].told = IF Due(Plus(reader[s].tail, n), @) THEN Told(reader[s], n) ELSE @,
                  ![s].at = IF Due(Plus(reader[s].tail, n), reader[s].told) THEN "credit" ELSE @]
      /\ got' = [got EXCEPT ![s] = @ + n]
  BY DEF Take
<1>2. /\ Asked(s, q, t) /\ Written(s, q, t) /\ Telling(s, t, d) /\ Landed(s, q, r)
  BY DEF Chained
<1>3. /\ t[s][0] \in Nat /\ q[p][0] \in Nat /\ r[s][0] \in Nat /\ d[s] \in Nat
      /\ t[s][0] <= d[s] /\ d[s] <= got[s] /\ got[s] <= r[s][0]
      /\ r[s][0] <= q[p][0] /\ q[p][0] <= sent[p]
      /\ sent[p] + Staged(p) <= t[s][0] + RING /\ Staged(p) \in 0 .. RING
  BY <1>0, <1>p, OnItsWay
<1>4. got[s] \in Nat /\ sent[p] \in Nat /\ n \in Nat \ {0} /\ got'[s] = got[s] + n
  <2>1. got[s] \in Nat /\ sent[p] \in Nat
    BY <1>0 DEF RdmaParts
  <2>2. n \in Nat \ {0}
    BY ModulusFacts
  <2>3. got'[s] = got[s] + n
    BY <1>0, <1>1 DEF RdmaParts
  <2> QED BY <2>1, <2>2, <2>3
<1>g. PICK g \in Nat : g = got[s] + n
  BY <1>4
<1>5. g <= r[s][0] /\ d[s] <= g /\ g - d[s] <= RING /\ got[s] <= g
  BY <1>1, <1>3, <1>0, <1>p, RoomIs, <1>4, <1>g, ModulusFacts
<1>6. /\ reader[s].tail = Counted(got[s]) /\ reader[s].told = Counted(d[s])
      /\ reader[s].head = Counted(r[s][0])
  BY <1>2 DEF Telling, Landed
<1>7. Plus(reader[s].tail, n) = Counted(g)
  BY <1>4, <1>6, <1>g, CountedOn
<1>u. PICK u \in {TRUE, FALSE} : u <=> CREDIT_EVERY <= g - d[s]
  OBVIOUS
<1>8. Due(Plus(reader[s].tail, n), reader[s].told) <=> u
  <2>1. CREDIT_EVERY \in Nat
    BY RingAssumption
  <2>2. Minus(Plus(reader[s].tail, n), reader[s].told) = g - d[s]
    BY <1>6, <1>7, <1>3, <1>5, CountedApart
  <2>3. g - d[s] \in Nat
    BY <1>3, <1>5
  <2> QED BY <1>u, <2>1, <2>2, <2>3 DEF Due
<1>e. PICK e : e = [d EXCEPT ![s] = IF u THEN g ELSE d[s]]
  OBVIOUS
<1>9. /\ e \in [Sides -> Nat] /\ e[s] = (IF u THEN g ELSE d[s])
      /\ \A z \in Sides : z # s => e[z] = d[z]
  BY <1>3, <1>e
<1>10. reader[s] \in [at : {"read", "credit", "end", "failed"}, head : Positions,
                      tail : Positions, told : Positions, ended : BOOLEAN]
  BY <1>0 DEF RdmaParts
<1>11. /\ reader'[s] = [reader[s] EXCEPT !.tail = Counted(g),
                          !.told = IF u THEN Counted(g) ELSE reader[s].told,
                          !.at = IF u THEN "credit" ELSE reader[s].at]
       /\ reader' = [reader EXCEPT ![s] = [reader[s] EXCEPT !.tail = Counted(g),
                          !.told = IF u THEN Counted(g) ELSE reader[s].told,
                          !.at = IF u THEN "credit" ELSE reader[s].at]]
       /\ \A z \in Sides : z # s => reader'[z] = reader[z]
  BY <1>0, <1>1, <1>7, <1>8 DEF RdmaParts, Told
<1>12. /\ reader'[s].tail = Counted(g) /\ reader'[s].told = (IF u THEN Counted(g) ELSE reader[s].told)
       /\ reader'[s].at = (IF u THEN "credit" ELSE "read")
       /\ reader'[s].head = reader[s].head
  BY <1>1, <1>10, <1>11
<1>13. RdmaParts'
  <2>1. reader'[s] \in [at : {"read", "credit", "end", "failed"}, head : Positions,
                        tail : Positions, told : Positions, ended : BOOLEAN]
    <3>1. PICK b, k : b = (IF u THEN Counted(g) ELSE reader[s].told) /\ k = (IF u THEN "credit" ELSE reader[s].at)
      OBVIOUS
    <3>2. [reader[s] EXCEPT !.tail = Counted(g), !.told = b, !.at = k]
            \in [at : {"read", "credit", "end", "failed"}, head : Positions,
                        tail : Positions, told : Positions, ended : BOOLEAN]
      BY <1>10, CountedType, <3>1
    <3>3. reader'[s] = [reader[s] EXCEPT !.tail = Counted(g), !.told = b, !.at = k]
      BY <1>11, <3>1
    <3> QED BY <3>2, <3>3
  <2>2. reader' \in [Sides -> [at : {"read", "credit", "end", "failed"}, head : Positions,
                              tail : Positions, told : Positions, ended : BOOLEAN]]
    BY <1>0, <1>11, <2>1 DEF RdmaParts
  <2>3. got' \in [Sides -> Nat]
    <3>1. got[s] + n \in Nat
      BY <1>4
    <3> QED BY <1>0, <1>1, <3>1 DEF RdmaParts
  <2> QED BY <1>0, <1>1, <2>2, <2>3 DEF RdmaParts
<1>14. \A z \in Sides : (Failed(z)' <=> Failed(z)) /\ (\A v : LastDone(z, v) => LastDone(z, v)')
  BY <1>1, DoneSame
<1>15. Settled'
  <2>1. SomeClosed' <=> SomeClosed
    BY <1>1 DEF SomeClosed
  <2>2. ASSUME NEW z \in Sides PROVE SettledAt(z)'
    <3>1. SettledAt(z)
      BY <1>0 DEF Settled
    <3>2. reader'[z].ended => SomeClosed'
      BY <1>11, <1>10, <2>1, <3>1 DEF SettledAt
    <3>3. reader'[z].at = "end" => reader'[z].ended
      BY <1>11, <1>12, <3>1 DEF SettledAt
    <3> QED BY <1>1, <1>14, <3>1, <3>2, <3>3 DEF SettledAt
  <2> QED BY <1>0, <1>1, <2>1, <2>2 DEF Settled
<1>16. CleanEndIsComplete'
  <2> SUFFICES ASSUME NEW z \in Sides, reader'[z].at = "end", closed'[PeerOf(z)] = "clean", closed'[z] = "no"
               PROVE  got'[z] = sent'[PeerOf(z)]
    BY DEF CleanEndIsComplete
  <2>1. z # s /\ reader[z].at = "end"
    <3>1. z # s
      BY <1>12
    <3> QED BY <1>11, <3>1
  <2>2. got[z] = sent[PeerOf(z)]
    BY <1>0, <1>1, <2>1 DEF CleanEndIsComplete
  <2> QED BY <1>0, <1>1, <2>1, <2>2 DEF RdmaParts
<1>17. Chained(q, t, r, e)'
  <2>1. ASSUME NEW z \in Sides
        PROVE  Asked(z, q, t)' /\ Written(z, q, t)' /\ Telling(z, t, e)' /\ Landed(z, q, r)'
    <3>1. Asked(z, q, t) /\ Written(z, q, t) /\ Telling(z, t, d) /\ Landed(z, q, r)
      BY DEF Chained
    <3>2. Asked(z, q, t)'
      BY <1>1, <3>1, AskedSame
    <3>3. Written(z, q, t)'
      BY <1>0, <1>1, <1>14, <3>1, WrittenSame DEF Written
    <3>4. CASE z = s
      <4>1. t[s][Len(sendq[s])] <= d[s] /\ (~Failed(s) => t[s][Len(sendq[s])] = d[s])
            /\ Rising(t[s], Len(sendq[s])) /\ got[s] < d[s] + CREDIT_EVERY
        BY <1>1, <1>2 DEF Telling
      <4>2. t[s][Len(sendq[s])] \in Nat /\ CREDIT_EVERY \in Nat \ {0}
        <5>1. t[s] \in [Nat -> Nat]
          BY Zenon DEF Paths
        <5>2. Len(sendq[s]) \in Nat
          BY <1>0 DEF RdmaParts
        <5>3. t[s][Len(sendq[s])] \in Nat
          BY <5>1, <5>2
        <5>4. CREDIT_EVERY \in Nat \ {0}
          BY RingAssumption
        <5> QED BY <5>3, <5>4
      <4>3. t[s][Len(sendq[s])] <= e[s] /\ e[s] <= g
        <5>1. PICK m \in Nat, c \in Nat : m = t[s][Len(sendq[s])] /\ c = d[s]
          BY <1>3, <4>2
        <5>2. m <= c /\ c <= g
          BY <1>5, <4>1, <5>1
        <5>3. e[s] = g \/ e[s] = c
          BY <1>9, <5>1
        <5> QED BY <5>1, <5>2, <5>3
      <4>4. g < e[s] + CREDIT_EVERY
        BY <1>3, <1>u, <1>9, <4>2
      <4>5. got'[s] = g
        BY <1>4, <1>g
      <4>6. Telling(s, t, e)'
        BY <1>1, <1>12, <1>14, <4>1, <4>3, <4>4, <1>9, <1>6, <4>5 DEF Telling
      <4>7. InPlace(inbox[s], g, q[p][0])
        <5>1. InPlace(inbox[s], got[s], q[p][0])
          BY <1>2, <1>p DEF Landed
        <5> QED BY <1>3, <1>4, <1>5, <5>1, FewerInPlace
      <4>8. Landed(s, q, r)'
        BY <1>p, <1>1, <1>2, <1>5, <1>12, <4>5, <4>7 DEF Landed
      <4> QED BY <3>2, <3>3, <3>4, <4>6, <4>8
    <3>5. CASE z # s
      <4>1. got'[z] = got[z] /\ reader'[z] = reader[z]
        BY <1>0, <1>1, <1>11, <3>5 DEF RdmaParts
      <4>2. Telling(z, t, e)'
        BY <1>1, <1>14, <1>9, <3>1, <3>5, TellingAlike, <4>1, TellingSame
      <4>3. Landed(z, q, r)'
        BY <1>1, <3>1, <4>1, LandedSame
      <4> QED BY <3>2, <3>3, <4>2, <4>3
    <3> QED BY <3>4, <3>5
  <2> QED BY <2>1 DEF Chained
<1> QED BY <1>9, <1>13, <1>15, <1>16, <1>17 DEF RdmaInv

-----------------------------------------------------------------------------
(* RdmaRing: completions.                                                  *)

\* A path of one side's, that begins k steps on.
Shorter(q, s, k) == [q EXCEPT ![s] = From(q[s], k)]

LEMMA PathShortens ==
  ASSUME NEW q \in Paths, NEW s \in Sides, NEW n \in Nat, NEW k \in 0 .. n
  PROVE  /\ Shorter(q, s, k) \in Paths /\ Shorter(q, s, k)[s] = From(q[s], k)
         /\ Shorter(q, s, k)[s][0] = q[s][k] /\ Shorter(q, s, k)[s][n - k] = q[s][n]
         /\ Rising(q[s], n) => Rising(Shorter(q, s, k)[s], n - k)
<1>1. q[s] \in [Nat -> Nat]
  BY Zenon DEF Paths
<1>2. \A i \in Nat : From(q[s], k)[i] = q[s][i + k]
  BY <1>1, FromIs
<1>3. Rising(q[s], n) => Rising(From(q[s], k), n - k)
  BY <1>1, FromIs
<1>4. Shorter(q, s, k) \in Paths /\ Shorter(q, s, k)[s] = From(q[s], k)
  BY <1>1, FromIs DEF Paths, Shorter
<1>5. From(q[s], k)[0] = q[s][k] /\ From(q[s], k)[n - k] = q[s][n]
  BY <1>2
<1> QED BY <1>3, <1>4, <1>5

LEMMA PathStays ==
  ASSUME NEW q \in Paths, NEW s \in Sides, NEW k, NEW z \in Sides, z # s
  PROVE  Shorter(q, s, k)[z] = q[z]
BY DEF Paths, Shorter

\* How many receives a reader posts again: all it took, but for flushes.
LEMMA HowMany ==
  ASSUME NEW f, NEW n \in Nat, \A i \in 1 .. n : f[i] \in Nat,
         NEW c, c = Cardinality({i \in 1 .. n : f[i] > 0})
  PROVE  /\ c \in Nat /\ c <= n
         /\ (\A i \in 1 .. n : f[i] # 0) => c = n
<1> DEFINE S == {i \in 1 .. n : f[i] > 0}
<1>1. IsFiniteSet(1 .. n) /\ Cardinality(1 .. n) = n
  BY FS_Interval
<1>2. IsFiniteSet(S) /\ Cardinality(S) <= Cardinality(1 .. n)
  BY <1>1, FS_Subset
<1>3. Cardinality(S) \in Nat
  BY <1>2, FS_CardinalityType
<1>4. (\A i \in 1 .. n : f[i] # 0) => S = 1 .. n
  OBVIOUS
<1> QED BY <1>1, <1>2, <1>3, <1>4

\* What a reader learns has landed is what landed, and never more than a ring.
LEMMA DrainKeeps ==
  ASSUME RdmaInv, NEW s \in Sides, Drain(s), UNCHANGED bounds
  PROVE  RdmaInv'
<1> PICK q \in Paths, t \in Paths, r \in Paths, d \in [Sides -> Nat] : Chained(q, t, r, d)
  BY DEF RdmaInv
<1>0. RdmaParts /\ Settled /\ CleanEndIsComplete
  BY DEF RdmaInv
<1>p. PICK p \in Sides : p = PeerOf(s) /\ s = PeerOf(p) /\ p # s
  BY SideFacts
<1>k. PICK k \in Nat : k = Len(recvcq[s])
  BY <1>0 DEF RdmaParts
<1>n. PICK n : n = Total(recvcq[s], Len(recvcq[s]))
  OBVIOUS
<1>c. PICK c : c = Cardinality({i \in 1 .. Len(recvcq[s]) : recvcq[s][i] > 0})
  OBVIOUS
<1>1. /\ UNCHANGED <<bounds, writer, staging, inbox, counter, sendq, sendcq, completed, gone, side, closed,
                     up, sent, got>>
      /\ reader[s].at = "read" /\ HeldBytes(s) = 0
      /\ reader' = [reader EXCEPT ![s].head = Plus(@, n), ![s].ended = @ \/ c < Len(recvcq[s]),
                                  ![s].at = IF n > RING THEN "refused" ELSE @]
      /\ recvs' = [recvs EXCEPT ![s] = @ + c]
      /\ recvcq' = [recvcq EXCEPT ![s] = <<>>]
  BY <1>n, <1>c DEF Drain
<1>2. /\ t[s][0] \in Nat /\ q[p][0] \in Nat /\ r[s][0] \in Nat /\ d[s] \in Nat
      /\ t[s][0] <= d[s] /\ d[s] <= got[s] /\ got[s] <= r[s][0]
      /\ r[s][0] <= q[p][0] /\ q[p][0] <= sent[p]
      /\ sent[p] + Staged(p) <= t[s][0] + RING /\ Staged(p) \in 0 .. RING
  BY <1>0, <1>p, OnItsWay
<1>3. HeldBytes(s) = r[s][0] - got[s]
  BY <1>0, <1>p, RoomIs
<1>4. got[s] \in Nat /\ sent[p] \in Nat
  BY <1>0 DEF RdmaParts
<1>5. /\ \A i \in 1 .. k : recvcq[s][i] \in Nat /\ r[s][i] = r[s][i - 1] + recvcq[s][i]
      /\ Rising(r[s], k) /\ r[s][k] = q[p][0] /\ reader[s].head = Counted(r[s][0])
      /\ InPlace(inbox[s], got[s], q[p][0])
  <2>1. \A i \in 1 .. k : recvcq[s][i] \in Nat
    <3>1. recvcq[s] \in Seq(Nat)
      BY <1>0 DEF RdmaParts
    <3> QED BY <1>k, <3>1
  <2> QED BY <1>k, <1>p, <2>1 DEF Landed, Chained
<1>6. n = r[s][k] - r[s][0] /\ r[s] \in [Nat -> Nat]
  <2>1. r[s] \in [Nat -> Nat]
    BY Zenon DEF Paths
  <2>2. \A i \in 0 .. k : r[s][0] <= r[s][i]
    BY <1>5 DEF Rising
  <2>3. Total(recvcq[s], k) = r[s][k] - r[s][0]
    BY <1>5, <2>1, <2>2, TotalIs
  <2> QED BY <1>k, <1>n, <2>1, <2>3
<1>7. n \in Nat /\ n <= RING /\ r[s][0] + n = r[s][k] /\ got[s] <= r[s][k]
  <2>1. r[s][k] = q[p][0] /\ r[s][0] - got[s] = 0
    BY <1>1, <1>3, <1>5
  <2>2. n = q[p][0] - r[s][0]
    BY <1>6, <2>1
  <2>3. n \in Nat
    BY <1>2, <2>2
  <2>4. r[s][0] = got[s] /\ got[s] <= q[p][0]
    BY <1>2, <1>4, <2>1
  <2>5. n <= RING
    BY <1>2, <1>4, <2>2, <2>4, ModulusFacts
  <2>6. r[s][0] + n = r[s][k]
    BY <1>2, <2>1, <2>2
  <2> QED BY <2>1, <2>3, <2>4, <2>5, <2>6
<1>8. c \in Nat /\ c <= k /\ ((\A i \in 1 .. k : recvcq[s][i] # 0) => c = k)
  BY <1>5, <1>c, <1>k, HowMany
<1>9. Plus(reader[s].head, n) = Counted(r[s][k])
  BY <1>2, <1>5, <1>7, CountedOn
<1>e. PICK e \in BOOLEAN : e <=> c < k
  OBVIOUS
<1>10. /\ reader' = [reader EXCEPT ![s] = [reader[s] EXCEPT !.head = Counted(r[s][k]), !.ended = @ \/ e]]
       /\ reader'[s] = [reader[s] EXCEPT !.head = Counted(r[s][k]), !.ended = @ \/ e]
       /\ \A z \in Sides : z # s => reader'[z] = reader[z]
  <2>1. ~(n > RING)
    BY <1>7, ModulusFacts
  <2>2. (c < Len(recvcq[s])) <=> e
    BY <1>e, <1>k
  <2>3. reader' = [reader EXCEPT ![s] = [reader[s] EXCEPT !.head = Counted(r[s][k]), !.ended = @ \/ e]]
    BY <1>0, <1>1, <1>9, <2>1, <2>2 DEF RdmaParts
  <2> QED BY <1>0, <2>3 DEF RdmaParts
<1>11. reader[s] \in [at : {"read", "credit", "end", "failed"}, head : Positions,
                      tail : Positions, told : Positions, ended : BOOLEAN]
  BY <1>0 DEF RdmaParts
<1>12. /\ reader'[s].head = Counted(r[s][k]) /\ reader'[s].at = "read" /\ reader'[s].tail = reader[s].tail
       /\ reader'[s].told = reader[s].told
  BY <1>1, <1>10, <1>11
<1>13. recvs'[s] = recvs[s] + c /\ recvcq'[s] = <<>>
  BY <1>0, <1>1 DEF RdmaParts
<1>14. \A z \in Sides : z # s => recvs'[z] = recvs[z] /\ recvcq'[z] = recvcq[z]
  BY <1>0, <1>1 DEF RdmaParts
<1>15. RdmaParts'
  <2>1. reader' \in [Sides -> [at : {"read", "credit", "end", "failed"}, head : Positions,
                              tail : Positions, told : Positions, ended : BOOLEAN]]
    BY <1>0, <1>10, <1>11, <1>6, CountedType DEF RdmaParts
  <2>2. recvs' \in [Sides -> Nat]
    <3>1. recvs[s] + c \in Nat
      <4>1. recvs[s] \in Nat
        BY <1>0 DEF RdmaParts
      <4> QED BY <1>8, <4>1
    <3> QED BY <1>0, <1>1, <3>1 DEF RdmaParts
  <2>3. recvcq' \in [Sides -> Seq(Nat)]
    BY <1>0, <1>1 DEF RdmaParts
  <2> QED BY <1>0, <1>1, <2>1, <2>2, <2>3 DEF RdmaParts
<1>16. \A z \in Sides : (Failed(z)' <=> Failed(z)) /\ (\A v : LastDone(z, v) => LastDone(z, v)')
  BY <1>1, DoneSame
<1>17. Settled'
  <2>1. SomeClosed' <=> SomeClosed
    BY <1>1 DEF SomeClosed
  <2>2. ASSUME NEW z \in Sides PROVE SettledAt(z)'
    <3>1. SettledAt(z)
      BY <1>0 DEF Settled
    <3>2. SettledAt(p) /\ SettledAt(s)
      BY <1>0 DEF Settled
    <3>3. ~Failed(s) => c = k
      BY <1>8, <1>k, <3>2 DEF SettledAt
    <3>4. reader'[s].ended => SomeClosed
      <4>1. e => Failed(s)
        BY <1>8, <1>e, <3>3
      <4> QED BY <1>10, <1>11, <1>p, <3>2, <4>1 DEF SettledAt, SomeClosed
    <3>5. reader'[z].ended => SomeClosed'
      BY <1>10, <2>1, <3>1, <3>4 DEF SettledAt
    <3>6. reader'[z].at = "end" => reader'[z].ended
      <4>1. CASE z = s
        BY <1>12, <4>1
      <4>2. CASE z # s
        BY <1>10, <3>1, <4>2 DEF SettledAt
      <4> QED BY <4>1, <4>2
    <3>7. recvs[s] \in Nat /\ RECVS \in Nat
      BY <1>0, RingAssumption DEF RdmaParts
    <3>8. recvs'[z] + Len(recvcq'[z]) <= RECVS + 1
      <4>1. CASE z = s
        BY <1>13, <4>1, <1>8, <3>7, <1>k, <3>2 DEF SettledAt
      <4>2. CASE z # s
        BY <1>14, <3>1, <4>2 DEF SettledAt
      <4> QED BY <4>1, <4>2
    <3>9. ~Failed(z) => recvs'[z] + Len(recvcq'[z]) = RECVS
      <4>1. CASE z = s
        BY <1>13, <4>1, <1>8, <3>3, <3>7, <1>k, <3>2 DEF SettledAt
      <4>2. CASE z # s
        BY <1>14, <3>1, <4>2 DEF SettledAt
      <4> QED BY <4>1, <4>2
    <3>10. \A i \in 1 .. Len(recvcq'[z]) : recvcq'[z][i] = 0 => Failed(z)
      <4>1. CASE z = s
        BY <1>13, <4>1
      <4>2. CASE z # s
        BY <1>14, <3>1, <4>2 DEF SettledAt
      <4> QED BY <4>1, <4>2
    <3> QED BY <1>1, <1>16, <3>1, <3>5, <3>6, <3>8, <3>9, <3>10 DEF SettledAt
  <2> QED BY <1>0, <1>1, <2>1, <2>2 DEF Settled
<1>18. CleanEndIsComplete'
  <2> SUFFICES ASSUME NEW z \in Sides, reader'[z].at = "end", closed'[PeerOf(z)] = "clean", closed'[z] = "no"
               PROVE  got'[z] = sent'[PeerOf(z)]
    BY DEF CleanEndIsComplete
  <2>1. reader[z].at = "end"
    <3>1. z # s
      BY <1>12
    <3> QED BY <1>10, <3>1
  <2>2. got[z] = sent[PeerOf(z)]
    BY <1>0, <1>1, <2>1 DEF CleanEndIsComplete
  <2> QED BY <1>1, <2>2
<1>y. PICK y : y = Shorter(r, s, k)
  OBVIOUS
<1>19. y \in Paths /\ y[s][0] = r[s][k] /\ (\A z \in Sides : z # s => y[z] = r[z])
  <2>1. k \in 0 .. k
    OBVIOUS
  <2>2. y \in Paths /\ y[s][0] = r[s][k]
    BY <1>y, <2>1, PathShortens
  <2>3. \A z \in Sides : z # s => y[z] = r[z]
    BY <1>y, PathStays
  <2> QED BY <2>2, <2>3
<1>20. Chained(q, t, y, d)'
  <2>1. ASSUME NEW z \in Sides
        PROVE  Asked(z, q, t)' /\ Written(z, q, t)' /\ Telling(z, t, d)' /\ Landed(z, q, y)'
    <3>1. Asked(z, q, t) /\ Written(z, q, t) /\ Telling(z, t, d) /\ Landed(z, q, r)
      BY DEF Chained
    <3>2. Asked(z, q, t)'
      BY <1>1, <3>1, AskedSame
    <3>3. Written(z, q, t)'
      BY <1>0, <1>1, <1>16, <3>1, WrittenSame DEF Written
    <3>4. Telling(z, t, d)'
      BY <1>1, <1>10, <1>12, <1>16, <3>1, TellingSame
    <3>5. CASE z = s
      <4>1. Rising(y[s], 0)
        <5>1. y[s] \in [Nat -> Nat]
          BY <1>19, Zenon DEF Paths
        <5>2. y[s][0] <= y[s][0]
          BY <5>1
        <5>3. \A i, j \in 0 .. 0 : i = 0 /\ j = 0
          OBVIOUS
        <5> QED BY <5>2, <5>3 DEF Rising
      <4>2. Landed(s, q, y)'
        BY <1>1, <1>5, <1>p, <1>13, <4>1, <1>7, <1>12, <1>19 DEF Landed
      <4> QED BY <3>2, <3>3, <3>4, <3>5, <4>2
    <3>6. CASE z # s
      <4>1. Landed(z, q, y)'
        BY <1>1, <1>10, <1>14, <3>6, <1>19, <3>1, LandedAlike, LandedSame
      <4> QED BY <3>2, <3>3, <3>4, <4>1
    <3> QED BY <3>5, <3>6
  <2> QED BY <2>1 DEF Chained
<1> QED BY <1>15, <1>17, <1>18, <1>19, <1>20 DEF RdmaInv

\* The requests left carry on from the one carried out.
LEMMA CarriedAsks ==
  ASSUME RdmaParts, NEW s \in Sides, sendq[s] # <<>>, NEW q \in Paths, NEW t \in Paths,
         NEW n \in Nat, n = Len(sendq[s]), n # 0,
         NEW y, y = Shorter(q, s, 1), NEW x, x = Shorter(t, s, 1),
         NEW z \in Sides, Asked(z, q, t), sendq'[s] = Tail(sendq[s]), z # s => sendq'[z] = sendq[z]
  PROVE  Asked(z, y, x)'
<1>0. 1 \in 0 .. n
  OBVIOUS
<1>1. y \in Paths /\ y[s] = From(q[s], 1)
  BY <1>0, PathShortens
<1>2. x \in Paths /\ x[s] = From(t[s], 1)
  BY <1>0, PathShortens
<1>3. CASE z = s
  <2>1. Asked(s, q, t)
    BY <1>3
  <2>2. Asked(s, y, x)'
    BY <1>1, <1>2, <2>1, AskedLess
  <2> QED BY <1>3, <2>2
<1>4. CASE z # s
  <2>1. y[z] = q[z]
    BY <1>4, PathStays
  <2>2. x[z] = t[z]
    BY <1>4, PathStays
  <2>3. Asked(z, y, x)
    BY <2>1, <2>2, AskedAlike
  <2> QED BY <1>4, <2>3, AskedSame
<1> QED BY <1>3, <1>4

\* One request fewer, and one completion more.
LEMMA CarriedOne ==
  ASSUME RdmaParts, NEW s \in Sides, SettledAt(s), sendq[s] # <<>>, NEW c \in 0 .. Modulus + 1,
         sendq' = [sendq EXCEPT ![s] = Tail(@)],
         sendcq' = [sendcq EXCEPT ![s] = Append(@, c)]
  PROVE  /\ sendq' \in [Sides -> Seq(Requests)] /\ sendcq' \in [Sides -> Seq(0 .. Modulus + 1)]
         /\ sendq'[s] = Tail(sendq[s]) /\ Len(sendq'[s]) = Len(sendq[s]) - 1
         /\ sendcq'[s] = Append(sendcq[s], c)
         /\ \A z \in Sides : z # s => sendq'[z] = sendq[z] /\ sendcq'[z] = sendcq[z]
         /\ Len(sendq'[s]) <= SENDS /\ Len(sendq'[s]) + Len(sendcq'[s]) <= SENDS + 1
<1>1. sendq[s] \in Seq(Requests) /\ sendcq[s] \in Seq(0 .. Modulus + 1)
  BY DEF RdmaParts
<1>2. /\ sendq'[s] = Tail(sendq[s]) /\ sendcq'[s] = Append(sendcq[s], c)
      /\ \A z \in Sides : z # s => sendq'[z] = sendq[z] /\ sendcq'[z] = sendcq[z]
  BY DEF RdmaParts
<1>3. sendq' \in [Sides -> Seq(Requests)] /\ sendcq' \in [Sides -> Seq(0 .. Modulus + 1)]
  BY <1>1 DEF RdmaParts
<1>4. PICK a \in Nat, b \in Nat : a = Len(sendq[s]) /\ b = Len(sendcq[s]) /\ a # 0
  BY <1>1
<1>5. Len(Tail(sendq[s])) = Len(sendq[s]) - 1 /\ Len(Append(sendcq[s], c)) = Len(sendcq[s]) + 1
  BY <1>1
<1>6. a <= SENDS /\ a + b <= SENDS + 1 /\ SENDS \in Nat
  BY <1>4, RingAssumption DEF SettledAt
<1>7. a - 1 <= SENDS /\ (a - 1) + (b + 1) <= SENDS + 1
  BY <1>6
<1>8. Len(sendq'[s]) = Len(sendq[s]) - 1 /\ Len(sendq'[s]) <= SENDS /\ Len(sendq'[s]) + Len(sendcq'[s]) <= SENDS + 1
  BY <1>4, <1>2, <1>5, <1>7
<1> QED BY <1>2, <1>3, <1>8

\* What the oldest request asks for.
LEMMA FirstAsked ==
  ASSUME RdmaParts, NEW s \in Sides, sendq[s] # <<>>, NEW q \in Paths, NEW t \in Paths, Asked(s, q, t),
         Written(s, q, t), NEW n, n = Len(sendq[s]), NEW m, m = Head(sendq[s])
  PROVE  /\ n \in Nat /\ 1 <= n /\ m \in Requests
         /\ q[s][0] \in Nat /\ q[s][1] \in Nat /\ t[s][0] \in Nat /\ t[s][1] \in Nat
         /\ \/ /\ m.kind = "data" /\ m.n \in 1 .. RING
               /\ m.at = Place(q[s][0]) /\ m.at + m.n <= RING
               /\ q[s][1] = q[s][0] + m.n /\ m.end = Counted(q[s][1]) /\ t[s][1] = t[s][0]
            \/ m.kind = "credit" /\ q[s][1] = q[s][0] /\ m.end = Counted(t[s][1])
         /\ q[s][1] <= sent[s] /\ q[s][0] <= q[s][1] /\ q[s][n] <= sent[s] /\ Rising(q[s], n)
<1>1. n \in Nat /\ 1 <= n /\ m \in Requests /\ m = sendq[s][1]
  BY DEF RdmaParts
<1>2. q[s] \in [Nat -> Nat] /\ t[s] \in [Nat -> Nat]
  BY Zenon DEF Paths
<1>3. q[s][0] \in Nat /\ q[s][1] \in Nat /\ t[s][0] \in Nat /\ t[s][1] \in Nat /\ q[s][n] \in Nat
  BY <1>1, <1>2
<1>4. \/ /\ m.kind = "data" /\ m.n \in 1 .. RING
         /\ m.at = Place(q[s][0]) /\ m.at + m.n <= RING
         /\ q[s][1] = q[s][0] + m.n /\ m.end = Counted(q[s][1]) /\ t[s][1] = t[s][0]
      \/ m.kind = "credit" /\ q[s][1] = q[s][0] /\ m.end = Counted(t[s][1])
  BY <1>1 DEF Asked
<1>5. Rising(q[s], n) /\ q[s][n] <= sent[s] /\ sent[s] \in Nat
  BY DEF Written, RdmaParts
<1>6. q[s][1] <= q[s][n] /\ q[s][0] <= q[s][1]
  BY <1>1, <1>5 DEF Rising
<1>7. q[s][1] <= sent[s]
  BY <1>3, <1>5, <1>6
<1> QED BY <1>1, <1>3, <1>4, <1>5, <1>6, <1>7

\* A path rises by what each completion says.
Grows(f, c, n) == \A i \in 1 .. n : f[i] = f[i - 1] + c[i]

\* One more completion for a reader to take.
LEMMA OneMoreLanded ==
  ASSUME NEW p \in Sides, NEW r \in Paths, NEW c \in Seq(Nat), NEW k \in Nat, k = Len(c),
         NEW n \in Nat, NEW u \in Nat, u = r[p][k] + n, Grows(r[p], c, k)
  PROVE  Grows(Longer(r, p, k, u)[p], Append(c, n), k + 1)
<1> DEFINE v == Longer(r, p, k, u)
<1>1. \A i \in 1 .. k : Append(c, n)[i] = c[i]
  OBVIOUS
<1>2. v[p] = Extend(r[p], k, u)
  BY PathExtends
<1>3. v[p][k + 1] = u
  BY PathExtended
<1>4. \A i \in 0 .. k : Extend(r[p], k, u)[i] = r[p][i]
  BY DEF Extend
<1> HIDE DEF v
<1>5. ASSUME NEW i \in 1 .. k + 1 PROVE v[p][i] = v[p][i - 1] + Append(c, n)[i]
  <2>1. CASE i \in 1 .. k
    <3>1. i \in 0 .. k /\ i - 1 \in 0 .. k
      BY <2>1
    <3> QED BY <1>1, <2>1, <1>2, <1>4, <3>1 DEF Grows
  <2>2. CASE i = k + 1
    BY <1>3, <2>2, <1>2, <1>4
  <2> QED BY <2>1, <2>2
<1> QED BY <1>5 DEF Grows, v

\* Bytes land in their places: they are still in staging, and nothing the reader
\* has not taken is where they go.
LEMMA CarriesData ==
  ASSUME RdmaInv, NEW s \in Sides, Execute(s), Head(sendq[s]).kind = "data", UNCHANGED bounds
  PROVE  RdmaInv'
<1> PICK q \in Paths, t \in Paths, r \in Paths, d \in [Sides -> Nat] : Chained(q, t, r, d)
  BY DEF RdmaInv
<1>0. RdmaParts /\ Settled /\ CleanEndIsComplete
  BY DEF RdmaInv
<1>p. PICK p \in Sides : p = PeerOf(s) /\ s = PeerOf(p) /\ p # s /\ \A z \in Sides : z = s \/ z = p
  BY SideFacts
<1>m. PICK m : m = Head(sendq[s])
  OBVIOUS
<1>1. /\ UNCHANGED <<bounds, writer, reader, staging, counter, completed, gone, side, closed, up, sent, got>>
      /\ sendq[s] # <<>> /\ recvs[p] > 0 /\ m.kind = "data"
      /\ inbox' = [inbox EXCEPT ![p] = [i \in Slots |->
               IF i \in m.at .. m.at + m.n - 1 THEN staging[s][i] ELSE @[i]]]
      /\ recvs' = [recvs EXCEPT ![p] = @ - 1]
      /\ recvcq' = [recvcq EXCEPT ![p] = Append(@, m.n)]
      /\ sendcq' = [sendcq EXCEPT ![s] = Append(@, m.end)]
      /\ sendq' = [sendq EXCEPT ![s] = Tail(@)]
  BY <1>m, <1>p DEF Execute, Carries
<1>2. /\ Asked(s, q, t) /\ Written(s, q, t) /\ Telling(s, t, d) /\ Landed(p, q, r) /\ Telling(p, t, d)
  BY DEF Chained
<1>l. PICK l : l = Len(sendq[s])
  OBVIOUS
<1>3. /\ l \in Nat /\ 1 <= l /\ m \in Requests
      /\ q[s][0] \in Nat /\ q[s][1] \in Nat /\ t[s][0] \in Nat /\ t[s][1] \in Nat
      /\ \/ /\ m.kind = "data" /\ m.n \in 1 .. RING
            /\ m.at = Place(q[s][0]) /\ m.at + m.n <= RING
            /\ q[s][1] = q[s][0] + m.n /\ m.end = Counted(q[s][1]) /\ t[s][1] = t[s][0]
         \/ m.kind = "credit" /\ q[s][1] = q[s][0] /\ m.end = Counted(t[s][1])
      /\ q[s][1] <= sent[s] /\ q[s][0] <= q[s][1] /\ q[s][l] <= sent[s] /\ Rising(q[s], l)
  BY <1>0, <1>1, <1>2, <1>l, <1>m, FirstAsked
<1>n. PICK n \in Nat : n = m.n /\ n # 0
  BY <1>1, <1>3, ModulusFacts
<1>4. /\ m.at = Place(q[s][0]) /\ Place(q[s][0]) + n <= RING
      /\ q[s][1] = q[s][0] + n /\ m.end = Counted(q[s][1]) /\ t[s][1] = t[s][0]
  BY <1>1, <1>3, <1>n
<1>5. /\ t[p][0] \in Nat /\ r[p][0] \in Nat /\ d[p] \in Nat
      /\ t[p][0] <= d[p] /\ d[p] <= got[p] /\ got[p] <= r[p][0]
      /\ r[p][0] <= q[s][0] /\ q[s][0] <= sent[s]
      /\ sent[s] + Staged(s) <= t[p][0] + RING /\ Staged(s) \in 0 .. RING
  BY <1>0, <1>p, OnItsWay
<1>6. got[p] \in Nat /\ sent[s] \in Nat /\ recvs[p] \in Nat
  BY <1>0 DEF RdmaParts
<1>k. PICK k \in Nat : k = Len(recvcq[p])
  BY <1>0 DEF RdmaParts
<1>7. /\ Rising(r[p], k) /\ r[p][k] = q[s][0]
      /\ \A i \in 1 .. k : r[p][i] = r[p][i - 1] + recvcq[p][i]
  BY <1>2, <1>k, <1>p DEF Landed
<1>c. SettledAt(s) /\ SettledAt(p)
  BY <1>0 DEF Settled
<1>8. m.end \in Positions /\ m.end \in 0 .. Modulus + 1
  BY <1>3, <1>4, CountedType, ModulusFacts DEF Positions
<1>9. /\ sendq' \in [Sides -> Seq(Requests)] /\ sendcq' \in [Sides -> Seq(0 .. Modulus + 1)]
      /\ sendq'[s] = Tail(sendq[s]) /\ Len(sendq'[s]) = Len(sendq[s]) - 1
      /\ sendcq'[s] = Append(sendcq[s], m.end)
      /\ \A z \in Sides : z # s => sendq'[z] = sendq[z] /\ sendcq'[z] = sendcq[z]
      /\ Len(sendq'[s]) <= SENDS /\ Len(sendq'[s]) + Len(sendcq'[s]) <= SENDS + 1
  BY <1>0, <1>1, <1>8, <1>c, CarriedOne
<1>10. LastDone(s, Counted(q[s][1]))' /\ (Failed(s)' <=> Failed(s))
  BY <1>0, <1>4, <1>8, <1>9, DoneData
<1>11. \A z \in Sides : z # s => (Failed(z)' <=> Failed(z)) /\ (\A w : LastDone(z, w) => LastDone(z, w)')
  BY <1>1, <1>9, DoneSame
<1>12. recvcq'[p] = Append(recvcq[p], n) /\ recvs'[p] = recvs[p] - 1
  BY <1>0, <1>1, <1>n DEF RdmaParts
<1>13. \A z \in Sides : z # p => recvcq'[z] = recvcq[z] /\ recvs'[z] = recvs[z] /\ inbox'[z] = inbox[z]
  BY <1>0, <1>1 DEF RdmaParts
<1>14. inbox'[p] = Overlaid(inbox[p], staging[s], Place(q[s][0]), n)
  BY <1>0, <1>1, <1>4, <1>n DEF RdmaParts, Overlaid
<1>15. recvcq[p] \in Seq(Nat) /\ Len(recvcq'[p]) = k + 1 /\ recvcq'[p][k + 1] = n
       /\ (\A i \in 1 .. k : recvcq'[p][i] = recvcq[p][i])
  BY <1>12, <1>k, <1>0 DEF RdmaParts
<1>16. RdmaParts'
  <2>1. recvs' \in [Sides -> Nat]
    <3>1. recvs[p] - 1 \in Nat
      BY <1>1, <1>6
    <3> QED BY <1>0, <1>1, <3>1 DEF RdmaParts
  <2>2. recvcq' \in [Sides -> Seq(Nat)]
    BY <1>0, <1>15, <1>1, <1>n DEF RdmaParts
  <2>3. inbox' \in [Sides -> [Slots -> Nat]]
    <3>1. Overlaid(inbox[p], staging[s], Place(q[s][0]), n) \in [Slots -> Nat]
      BY <1>0 DEF RdmaParts, Overlaid
    <3> QED BY <1>0, <3>1, <1>1, <1>4, <1>n DEF RdmaParts, Overlaid
  <2> QED BY <1>0, <1>1, <1>9, <2>1, <2>2, <2>3 DEF RdmaParts
<1>17. Settled'
  <2>1. SomeClosed' <=> SomeClosed
    BY <1>1 DEF SomeClosed
  <2>2. ASSUME NEW z \in Sides PROVE SettledAt(z)'
    <3>1. SettledAt(z)
      BY <1>0 DEF Settled
    <3>2. Failed(z)' <=> Failed(z)
      BY <1>10, <1>11
    <3>3. Failed(z) => sendq'[z] = <<>>
      <4>1. CASE z = s
        BY <1>1, <3>1, <4>1 DEF SettledAt
      <4>2. CASE z # s
        BY <1>9, <3>1, <4>2 DEF SettledAt
      <4> QED BY <4>1, <4>2
    <3>4. Len(sendq'[z]) <= SENDS /\ Len(sendq'[z]) + Len(sendcq'[z]) <= SENDS + 1
      <4>1. CASE z = s
        BY <1>9, <4>1
      <4>2. CASE z # s
        BY <1>9, <3>1, <4>2 DEF SettledAt
      <4> QED BY <4>1, <4>2
    <3>5. /\ \A i \in 1 .. Len(recvcq'[z]) : recvcq'[z][i] = 0 => Failed(z)
          /\ recvs'[z] + Len(recvcq'[z]) = recvs[z] + Len(recvcq[z])
      <4>1. CASE z = p
        <5>1. \A i \in 1 .. k + 1 : i \in 1 .. k \/ i = k + 1
          OBVIOUS
        <5>2. \A i \in 1 .. k + 1 : recvcq'[p][i] = 0 => Failed(p)
          BY <1>15, <1>n, <5>1, <1>c, <1>k DEF SettledAt
        <5>3. (recvs[p] - 1) + (k + 1) = recvs[p] + k
          BY <1>6
        <5> QED BY <1>12, <1>15, <1>k, <4>1, <5>2, <5>3
      <4>2. CASE z # p
        BY <1>13, <3>1, <4>2 DEF SettledAt
      <4> QED BY <4>1, <4>2
    <3> QED BY <1>1, <2>1, <3>1, <3>2, <3>3, <3>4, <3>5 DEF SettledAt
  <2> QED BY <1>0, <1>1, <2>1, <2>2 DEF Settled
<1>18. CleanEndIsComplete'
  BY <1>0, <1>1 DEF CleanEndIsComplete
<1>y. PICK y, x, v : y = Shorter(q, s, 1) /\ x = Shorter(t, s, 1) /\ v = Longer(r, p, k, q[s][1])
  OBVIOUS
<1>19. \A z \in Sides : Asked(z, y, x)'
  <2> TAKE z \in Sides
  <2>1. l = Len(sendq[s]) /\ y = Shorter(q, s, 1) /\ x = Shorter(t, s, 1) /\ Asked(z, q, t) /\ l # 0 /\ l \in Nat
    BY <1>3, <1>l, <1>y DEF Chained
  <2>2. RdmaParts /\ sendq[s] # <<>> /\ sendq'[s] = Tail(sendq[s]) /\ (z # s => sendq'[z] = sendq[z])
    BY <1>0, <1>1, <1>9
  <2> QED BY <2>1, <2>2, CarriedAsks
<1>20. y \in Paths /\ y[s][0] = q[s][1] /\ y[s][l - 1] = q[s][l] /\ Rising(y[s], l - 1)
  <2>1. l \in Nat /\ 1 \in 0 .. l /\ Rising(q[s], l)
    BY <1>3
  <2>2. y = Shorter(q, s, 1)
    BY <1>y
  <2>3. Shorter(q, s, 1) \in Paths
    BY <2>1, PathShortens
  <2>4. Shorter(q, s, 1)[s][0] = q[s][1]
    BY <2>1, PathShortens
  <2>5. Shorter(q, s, 1)[s][l - 1] = q[s][l]
    BY <2>1, PathShortens
  <2>6. Rising(Shorter(q, s, 1)[s], l - 1)
    BY <2>1, PathShortens
  <2> QED BY <2>2, <2>3, <2>5, <2>6, <2>4
<1>21. x \in Paths /\ x[s][0] = t[s][1] /\ x[s][l - 1] = t[s][l] /\ Rising(x[s], l - 1)
  <2>1. l \in Nat /\ 1 \in 0 .. l /\ Rising(t[s], l)
    BY <1>2, <1>3, <1>l DEF Telling
  <2>2. x = Shorter(t, s, 1)
    BY <1>y
  <2>3. Shorter(t, s, 1) \in Paths
    BY <2>1, PathShortens
  <2>4. Shorter(t, s, 1)[s][0] = t[s][1]
    BY <2>1, PathShortens
  <2>5. Shorter(t, s, 1)[s][l - 1] = t[s][l]
    BY <2>1, PathShortens
  <2>6. Rising(Shorter(t, s, 1)[s], l - 1)
    BY <2>1, PathShortens
  <2> QED BY <2>2, <2>3, <2>5, <2>6, <2>4
<1>22. \A z \in Sides : z # s => y[z] = q[z]
  BY <1>y, PathStays
<1>23. \A z \in Sides : z # s => x[z] = t[z]
  BY <1>y, PathStays
<1>24. /\ v \in Paths /\ v[p][0] = r[p][0] /\ v[p][k + 1] = q[s][1] /\ Rising(v[p], k + 1)
       /\ \A i \in 1 .. k + 1 : v[p][i] = v[p][i - 1] + recvcq'[p][i]
  <2>1. PICK u \in Nat : u = q[s][1]
    BY <1>3
  <2>2. v = Longer(r, p, k, u)
    BY <1>y, <2>1
  <2>3. v \in Paths
    BY <2>2, PathExtends
  <2>4. v[p][0] = r[p][0] /\ v[p][k + 1] = u
    <3>1. Longer(r, p, k, u)[p][0] = r[p][0] /\ Longer(r, p, k, u)[p][k + 1] = u
      BY PathExtended
    <3> QED BY <2>2, <3>1
  <2>5. Rising(v[p], k + 1)
    BY <2>2, <1>3, <1>7, <2>1, PathExtended
  <2>6. recvcq[p] \in Seq(Nat) /\ k = Len(recvcq[p]) /\ u = r[p][k] + n /\ Grows(r[p], recvcq[p], k)
    BY <1>4, <1>7, <1>15, <1>k, <2>1 DEF Grows
  <2>7. Grows(v[p], Append(recvcq[p], n), k + 1)
    BY <2>2, <2>6, OneMoreLanded
  <2>8. \A i \in 1 .. k + 1 : v[p][i] = v[p][i - 1] + recvcq'[p][i]
    BY <1>12, <2>7 DEF Grows
  <2> QED BY <2>1, <2>3, <2>4, <2>5, <2>8
<1>25. \A z \in Sides : z # p => v[z] = r[z]
  <2>1. PICK u \in Nat : u = q[s][1] /\ v = Longer(r, p, k, u)
    BY <1>3, <1>y
  <2> TAKE z \in Sides
  <2> HAVE z # p
  <2>2. Longer(r, p, k, u)[z] = r[z]
    BY PathKept
  <2> QED BY <2>1, <2>2
<1>26. Chained(y, x, v, d)'
  <2>1. ASSUME NEW z \in Sides
        PROVE  Asked(z, y, x)' /\ Written(z, y, x)' /\ Telling(z, x, d)' /\ Landed(z, y, v)'
    <3>1. Written(z, q, t) /\ Telling(z, t, d) /\ Landed(z, q, r)
      BY DEF Chained
    <3>2. CASE z = s
      <4>1. Len(sendq'[s]) = l - 1
        BY <1>9, <1>l
      <4>2. InPlace(staging[s], y[s][0], sent[s] + Staged(s))
        <5>1. InPlace(staging[s], q[s][0], sent[s] + Staged(s))
          BY <1>2 DEF Written
        <5> QED BY <1>20, <5>1, <1>3, <1>5, <1>6, ModulusFacts, FewerInPlace
      <4>3. closed[s] = "clean" => y[s][0] = sent[s]
        BY <1>3, <1>6, <1>20, <1>2 DEF Written
      <4>4. LastDone(s, Counted(y[s][0]))' /\ (Failed(s)' <=> Failed(s))
        BY <1>10, <1>20
      <4>5. Written(s, y, x)'
        BY <1>1, <1>20, <4>1, <4>2, <4>3, <4>4, <1>2, <1>l, <1>p, <1>23 DEF Written, Staged
      <4>6. Telling(s, x, d)'
        BY <1>1, <1>2, <1>l, <1>21, <4>1, <4>4 DEF Telling
      <4>7. Landed(s, y, v)'
        BY <1>1, <1>13, <1>p, <3>1, <3>2, <1>22, <1>25, LandedAlike, LandedSame
      <4> QED BY <1>19, <3>2, <4>5, <4>6, <4>7
    <3>3. CASE z = p
      <4>1. PeerOf(z) = s /\ y[z] = q[z] /\ x[z] = t[z] /\ x[s][0] = t[s][0]
        BY <1>p, <1>4, <1>21, <1>22, <1>23, <3>3
      <4>2. LastDone(z, Counted(y[z][0]))' /\ (Failed(z)' <=> Failed(z)) /\ sendq'[z] = sendq[z]
        BY <1>p, <1>9, <1>11, <3>1, <3>3, <4>1 DEF Written
      <4>3. Written(z, y, x)'
        BY <1>0, <1>1, <1>20, <1>21, <3>1, <4>1, WrittenAlike, <4>2, WrittenSame
      <4>4. Telling(z, x, d)'
        BY <1>1, <4>2, <3>1, <4>1, TellingAlike, TellingSame
      <4>5. InPlace(inbox'[p], got[p], q[s][1])
        <5>1. InPlace(inbox[p], got[p], q[s][0])
          BY <1>2, <1>p DEF Landed
        <5>2. InPlace(staging[s], q[s][0], q[s][0] + n)
          <6>1. InPlace(staging[s], q[s][0], sent[s] + Staged(s))
            BY <1>2 DEF Written
          <6>2. q[s][0] \in Int /\ q[s][0] + n \in Int /\ sent[s] + Staged(s) \in Int /\ q[s][0] <= q[s][0]
            BY <1>3, <1>5, <1>6, ModulusFacts
          <6>3. q[s][0] + n <= sent[s] + Staged(s)
            BY <1>3, <1>4, <1>5, <1>6, ModulusFacts
          <6> QED BY <6>1, <6>2, <6>3, FewerInPlace
        <5>3. InPlace(Overlaid(inbox[p], staging[s], Place(q[s][0]), n), got[p], q[s][0] + n)
          BY <1>3, <1>4, <1>6, <1>5, ModulusFacts, <5>1, <5>2, WindowGrows
        <5> QED BY <1>4, <1>14, <5>3
      <4>6. Landed(p, y, v)'
        BY <1>1, <1>p, <1>15, <1>24, <1>2, <1>20, <4>5 DEF Landed
      <4> QED BY <1>19, <3>3, <4>3, <4>4, <4>6
    <3> QED BY <1>p, <3>2, <3>3
  <2> QED BY <2>1 DEF Chained
<1> QED BY <1>16, <1>17, <1>18, <1>20, <1>21, <1>24, <1>26 DEF RdmaInv

\* A position that lands lets the writer write only over what was read.
LEMMA CarriesCredit ==
  ASSUME RdmaInv, NEW s \in Sides, Execute(s), Head(sendq[s]).kind # "data", UNCHANGED bounds
  PROVE  RdmaInv'
<1> PICK q \in Paths, t \in Paths, r \in Paths, d \in [Sides -> Nat] : Chained(q, t, r, d)
  BY DEF RdmaInv
<1>0. RdmaParts /\ Settled /\ CleanEndIsComplete
  BY DEF RdmaInv
<1>p. PICK p \in Sides : p = PeerOf(s) /\ s = PeerOf(p) /\ p # s /\ \A z \in Sides : z = s \/ z = p
  BY SideFacts
<1>m. PICK m : m = Head(sendq[s])
  OBVIOUS
<1>1. /\ UNCHANGED <<bounds, writer, reader, staging, inbox, recvs, recvcq, completed, gone, side, closed, up,
                     sent, got>>
      /\ sendq[s] # <<>> /\ m.kind # "data"
      /\ counter' = [counter EXCEPT ![p] = m.end]
      /\ sendcq' = [sendcq EXCEPT ![s] = Append(@, CREDIT)]
      /\ sendq' = [sendq EXCEPT ![s] = Tail(@)]
  BY <1>m, <1>p DEF Execute, Carries
<1>2. /\ Asked(s, q, t) /\ Written(s, q, t) /\ Telling(s, t, d) /\ Written(p, q, t)
  BY DEF Chained
<1>l. PICK l : l = Len(sendq[s])
  OBVIOUS
<1>3. /\ l \in Nat /\ 1 <= l /\ m \in Requests
      /\ q[s][0] \in Nat /\ q[s][1] \in Nat /\ t[s][0] \in Nat /\ t[s][1] \in Nat
      /\ \/ /\ m.kind = "data" /\ m.n \in 1 .. RING
            /\ m.at = Place(q[s][0]) /\ m.at + m.n <= RING
            /\ q[s][1] = q[s][0] + m.n /\ m.end = Counted(q[s][1]) /\ t[s][1] = t[s][0]
         \/ m.kind = "credit" /\ q[s][1] = q[s][0] /\ m.end = Counted(t[s][1])
      /\ q[s][1] <= sent[s] /\ q[s][0] <= q[s][1] /\ q[s][l] <= sent[s] /\ Rising(q[s], l)
  BY <1>0, <1>1, <1>2, <1>l, <1>m, FirstAsked
<1>4. /\ q[s][1] = q[s][0] /\ m.end = Counted(t[s][1])
  BY <1>1, <1>3
<1>5. t[s][0] <= t[s][1] /\ Rising(t[s], l)
  <2>1. Rising(t[s], l)
    BY <1>2, <1>l DEF Telling
  <2> QED BY <2>1, <1>3 DEF Rising
<1>6. CREDIT \notin Positions /\ CREDIT \in 0 .. Modulus + 1 /\ CREDIT # FAILED
  BY ModulusFacts DEF Positions, CREDIT, FAILED
<1>7. /\ sendq' \in [Sides -> Seq(Requests)] /\ sendcq' \in [Sides -> Seq(0 .. Modulus + 1)]
      /\ sendq'[s] = Tail(sendq[s]) /\ Len(sendq'[s]) = Len(sendq[s]) - 1
      /\ sendcq'[s] = Append(sendcq[s], CREDIT)
      /\ \A z \in Sides : z # s => sendq'[z] = sendq[z] /\ sendcq'[z] = sendcq[z]
      /\ Len(sendq'[s]) <= SENDS /\ Len(sendq'[s]) + Len(sendcq'[s]) <= SENDS + 1
  BY <1>0, <1>1, <1>6, CarriedOne DEF Settled
<1>8. (\A w : LastDone(s, w) => LastDone(s, w)') /\ (Failed(s)' <=> Failed(s))
  BY <1>0, <1>1, <1>6, <1>7, DoneOther
<1>9. \A z \in Sides : z # s => (Failed(z)' <=> Failed(z)) /\ (\A w : LastDone(z, w) => LastDone(z, w)')
  BY <1>1, <1>7, DoneSame
<1>10. counter'[p] = Counted(t[s][1]) /\ counter'[s] = counter[s]
  BY <1>0, <1>1, <1>4, <1>p DEF RdmaParts
<1>11. RdmaParts'
  <2>1. m.end \in Positions
    BY <1>3, <1>4, CountedType
  <2> QED BY <1>0, <1>1, <1>7, <2>1 DEF RdmaParts
<1>12. Settled'
  <2>1. SomeClosed' <=> SomeClosed
    BY <1>1 DEF SomeClosed
  <2>2. ASSUME NEW z \in Sides PROVE SettledAt(z)'
    <3>1. SettledAt(z)
      BY <1>0 DEF Settled
    <3>2. Failed(z)' <=> Failed(z)
      BY <1>8, <1>9
    <3>3. Failed(z) => sendq'[z] = <<>>
      <4>1. CASE z = s
        BY <1>1, <3>1, <4>1 DEF SettledAt
      <4>2. CASE z # s
        BY <1>7, <3>1, <4>2 DEF SettledAt
      <4> QED BY <4>1, <4>2
    <3>4. Len(sendq'[z]) <= SENDS /\ Len(sendq'[z]) + Len(sendcq'[z]) <= SENDS + 1
      <4>1. CASE z = s
        BY <1>7, <4>1
      <4>2. CASE z # s
        BY <1>7, <3>1, <4>2 DEF SettledAt
      <4> QED BY <4>1, <4>2
    <3> QED BY <1>1, <2>1, <3>1, <3>2, <3>3, <3>4 DEF SettledAt
  <2> QED BY <1>0, <1>1, <2>1, <2>2 DEF Settled
<1>13. CleanEndIsComplete'
  BY <1>0, <1>1 DEF CleanEndIsComplete
<1>y. PICK y, x : y = Shorter(q, s, 1) /\ x = Shorter(t, s, 1)
  OBVIOUS
<1>14. \A z \in Sides : Asked(z, y, x)'
  <2> TAKE z \in Sides
  <2>1. l = Len(sendq[s]) /\ y = Shorter(q, s, 1) /\ x = Shorter(t, s, 1) /\ Asked(z, q, t) /\ l # 0 /\ l \in Nat
    BY <1>3, <1>l, <1>y DEF Chained
  <2>2. RdmaParts /\ sendq[s] # <<>> /\ sendq'[s] = Tail(sendq[s]) /\ (z # s => sendq'[z] = sendq[z])
    BY <1>0, <1>1, <1>7
  <2> QED BY <2>1, <2>2, CarriedAsks
<1>15. y \in Paths /\ y[s][0] = q[s][0] /\ y[s][l - 1] = q[s][l] /\ Rising(y[s], l - 1)
  <2>1. l \in Nat /\ 1 \in 0 .. l /\ Rising(q[s], l)
    BY <1>3
  <2> QED BY <1>4, <2>1, <1>y, PathShortens
<1>16. x \in Paths /\ x[s][0] = t[s][1] /\ x[s][l - 1] = t[s][l] /\ Rising(x[s], l - 1)
  <2>1. l \in Nat /\ 1 \in 0 .. l /\ Rising(t[s], l)
    BY <1>3, <1>5
  <2> QED BY <2>1, <1>y, PathShortens
<1>17. \A z \in Sides : z # s => y[z] = q[z]
  BY <1>y, PathStays
<1>18. \A z \in Sides : z # s => x[z] = t[z]
  BY <1>y, PathStays
<1>19. Chained(y, x, r, d)'
  <2>1. ASSUME NEW z \in Sides
        PROVE  Asked(z, y, x)' /\ Written(z, y, x)' /\ Telling(z, x, d)' /\ Landed(z, y, r)'
    <3>1. Written(z, q, t) /\ Telling(z, t, d) /\ Landed(z, q, r)
      BY DEF Chained
    <3>0. y[PeerOf(z)][0] = q[PeerOf(z)][0] /\ y[z][0] = q[z][0]
      BY <1>15, <1>17, SideFacts
    <3>a. Landed(z, y, r)
      BY <3>0, <3>1, LandedAlike
    <3>b. Landed(z, y, r)'
      BY <1>1, <3>a, LandedSame
    <3>d. LastDone(z, Counted(y[z][0]))' /\ (Failed(z)' <=> Failed(z))
      BY <1>8, <1>9, <3>0, <3>1 DEF Written
    <3>2. CASE z = s
      <4>1. Len(sendq'[s]) = l - 1
        BY <1>7, <1>l
      <4>2. Written(s, y, x)'
        BY <1>1, <1>10, <1>15, <3>2, <3>d, <4>1, <1>2, <1>l, <1>p, <1>18 DEF Written, Staged
      <4>3. Telling(s, x, d)'
        BY <1>1, <1>2, <1>l, <1>16, <3>2, <3>d, <4>1 DEF Telling
      <4> QED BY <1>14, <3>2, <3>b, <4>2, <4>3
    <3>3. CASE z = p
      <4>1. PeerOf(p) = s /\ y[p] = q[p] /\ x[p] = t[p]
        BY <1>p, <1>17, <1>18
      <4>2. sendq'[p] = sendq[p]
        BY <1>p, <1>7
      <4>3. Staged(p)' = Staged(p) /\ Staged(p) \in Nat /\ sent[p] \in Nat
        BY <1>0, <1>1, ModulusFacts DEF Staged, RdmaParts
      <4>4. sent[p] + Staged(p) <= x[s][0] + RING
        <5>1. sent[p] + Staged(p) <= t[s][0] + RING
          BY <1>2, <4>1 DEF Written
        <5> QED BY <1>3, <1>5, <1>16, <4>3, <5>1, ModulusFacts
      <4>5. Written(p, y, x)'
        BY <1>1, <1>2, <3>3, <3>d, <4>1, <4>2, <4>3, <4>4, <1>10, <1>16 DEF Written
      <4>6. Telling(z, x, d)'
        BY <1>1, <3>3, <3>d, <4>2, <3>1, <4>1, TellingAlike, TellingSame
      <4> QED BY <1>14, <3>3, <3>b, <4>5, <4>6
    <3> QED BY <1>p, <3>2, <3>3
  <2> QED BY <2>1 DEF Chained
<1> QED BY <1>11, <1>12, <1>13, <1>15, <1>16, <1>19 DEF RdmaInv

LEMMA RisingAtNone ==
  ASSUME NEW q \in Paths, NEW s \in Sides
  PROVE  Rising(q[s], 0)
<1>1. q[s] \in [Nat -> Nat]
  BY Zenon DEF Paths
<1>2. q[s][0] <= q[s][0]
  BY <1>1
<1>3. \A i, j \in 0 .. 0 : i = 0 /\ j = 0
  OBVIOUS
<1> QED BY <1>2, <1>3 DEF Rising

\* A queue pair that fails drops what was not carried out, and keeps what was.
LEMMA Breaks ==
  ASSUME RdmaInv, NEW s \in Sides, Break(s), UNCHANGED bounds
  PROVE  RdmaInv'
<1> PICK q \in Paths, t \in Paths, r \in Paths, d \in [Sides -> Nat] : Chained(q, t, r, d)
  BY DEF RdmaInv
<1>0. RdmaParts /\ Settled /\ CleanEndIsComplete
  BY DEF RdmaInv
<1>p. PICK p \in Sides : p = PeerOf(s) /\ s = PeerOf(p) /\ p # s /\ \A z \in Sides : z = s \/ z = p
  BY SideFacts
<1>1. /\ UNCHANGED <<bounds, writer, reader, staging, inbox, counter, completed, gone, side, closed, up,
                     sent, got>>
      /\ sendq[s] # <<>> /\ up[s] /\ ~up[p]
      /\ sendq' = [sendq EXCEPT ![s] = <<>>]
      /\ sendcq' = [sendcq EXCEPT ![s] = Append(@, FAILED)]
      /\ recvcq' = [recvcq EXCEPT ![s] = Append(@, 0)]
      /\ recvs' = [recvs EXCEPT ![s] = 0]
  BY <1>p DEF Break
<1>2. /\ Asked(s, q, t) /\ Written(s, q, t) /\ Telling(s, t, d) /\ Landed(s, q, r)
  BY DEF Chained
<1>c. SettledAt(s) /\ SettledAt(p)
  BY <1>0 DEF Settled
<1>3. FAILED \notin Positions /\ FAILED \in 0 .. Modulus + 1
  BY ModulusFacts DEF Positions, FAILED
<1>4. /\ sendq[s] \in Seq(Requests) /\ sendcq[s] \in Seq(0 .. Modulus + 1) /\ recvcq[s] \in Seq(Nat)
  BY <1>0 DEF RdmaParts
<1>5. /\ sendq'[s] = <<>> /\ sendcq'[s] = Append(sendcq[s], FAILED) /\ recvcq'[s] = Append(recvcq[s], 0)
      /\ recvs'[s] = 0
  BY <1>0, <1>1 DEF RdmaParts
<1>6. \A z \in Sides : z # s => /\ sendq'[z] = sendq[z] /\ sendcq'[z] = sendcq[z]
                                /\ recvcq'[z] = recvcq[z] /\ recvs'[z] = recvs[z]
  BY <1>0, <1>1 DEF RdmaParts
<1>k. PICK k \in Nat, l \in Nat, c \in Nat : k = Len(recvcq[s]) /\ l = Len(sendq[s]) /\ c = Len(sendcq[s]) /\ l # 0
  BY <1>1, <1>4
<1>7. /\ Len(sendq'[s]) = 0 /\ Len(sendcq'[s]) = c + 1 /\ Len(recvcq'[s]) = k + 1
      /\ recvcq'[s][k + 1] = 0 /\ \A i \in 1 .. k : recvcq'[s][i] = recvcq[s][i]
  BY <1>4, <1>5, <1>k
<1>8. (\A w : LastDone(s, w) => LastDone(s, w)') /\ Failed(s)'
  BY <1>0, <1>1, <1>3, <1>5, DoneOther
<1>9. \A z \in Sides : z # s => (Failed(z)' <=> Failed(z)) /\ (\A w : LastDone(z, w) => LastDone(z, w)')
  BY <1>1, <1>6, DoneSame
<1>10. RdmaParts'
  <2>1. <<>> \in Seq(Requests) /\ Append(sendcq[s], FAILED) \in Seq(0 .. Modulus + 1)
        /\ Append(recvcq[s], 0) \in Seq(Nat)
    BY <1>3, <1>4
  <2> QED BY <1>0, <1>1, <2>1 DEF RdmaParts
<1>11. Settled'
  <2>1. SomeClosed' <=> SomeClosed
    BY <1>1 DEF SomeClosed
  <2>2. SettledAt(s)'
    <3>1. l <= SENDS /\ l + c <= SENDS + 1 /\ SENDS \in Nat
      BY <1>c, <1>k, RingAssumption DEF SettledAt
    <3>2. 0 <= SENDS /\ 0 + (c + 1) <= SENDS + 1
      <4>1. l # 0
        BY <1>k
      <4> QED BY <3>1, <4>1
    <3>3. recvs[s] + k = RECVS /\ recvs[s] \in Nat /\ RECVS \in Nat
      BY <1>0, <1>c, <1>1, <1>k, RingAssumption DEF SettledAt, RdmaParts
    <3>4. Len(sendq'[s]) <= SENDS /\ Len(sendq'[s]) + Len(sendcq'[s]) <= SENDS + 1
          /\ recvs'[s] + Len(recvcq'[s]) <= RECVS + 1
      BY <1>5, <1>7, <3>2, <3>3
    <3>5. ~up'[PeerOf(s)]
      BY <1>1, <1>p
    <3> QED BY <1>1, <1>5, <1>8, <1>c, <2>1, <3>4, <3>5 DEF SettledAt
  <2>3. SettledAt(p)'
    <3>1. /\ p # s /\ sendq'[p] = sendq[p] /\ sendcq'[p] = sendcq[p]
          /\ recvcq'[p] = recvcq[p] /\ recvs'[p] = recvs[p]
      BY <1>6, <1>p
    <3> QED BY <1>1, <1>c, <2>1, <3>1, <1>9, <1>p DEF SettledAt
  <2>4. \A z \in Sides : SettledAt(z)'
    BY <1>p, <2>2, <2>3
  <2> QED BY <1>0, <1>1, <2>1, <2>4 DEF Settled
<1>12. CleanEndIsComplete'
  BY <1>0, <1>1 DEF CleanEndIsComplete
<1>u. PICK u \in Nat : u = r[s][k]
  <2>1. r[s] \in [Nat -> Nat]
    BY Zenon DEF Paths
  <2> QED BY <2>1
<1>y. PICK v : v = Longer(r, s, k, u)
  OBVIOUS
<1>13. /\ v \in Paths /\ v[s][0] = r[s][0] /\ v[s][k + 1] = u /\ Rising(v[s], k + 1)
       /\ \A i \in 1 .. k + 1 : v[s][i] = v[s][i - 1] + recvcq'[s][i]
  <2>1. v \in Paths
    BY <1>y, PathExtends
  <2>2. v[s][0] = r[s][0] /\ v[s][k + 1] = u
    BY <1>y, PathExtended
  <2>3. Rising(r[s], k) /\ r[s][k] <= u
    BY <1>2, <1>k, <1>u DEF Landed
  <2>4. Rising(v[s], k + 1)
    BY <1>y, <2>3, PathExtended
  <2>5. k = Len(recvcq[s]) /\ u = r[s][k] + 0 /\ Grows(r[s], recvcq[s], k) /\ 0 \in Nat
    BY <1>2, <1>k, <1>u DEF Landed, Grows
  <2>6. Grows(v[s], Append(recvcq[s], 0), k + 1)
    BY <1>4, <1>y, <2>5, OneMoreLanded
  <2>7. \A i \in 1 .. k + 1 : v[s][i] = v[s][i - 1] + recvcq'[s][i]
    BY <1>5, <2>6 DEF Grows
  <2> QED BY <2>1, <2>2, <2>4, <2>7
<1>14. \A z \in Sides : z # s => v[z] = r[z]
  <2> TAKE z \in Sides
  <2> HAVE z # s
  <2>1. Longer(r, s, k, u)[z] = r[z]
    BY PathKept
  <2> QED BY <1>y, <2>1
<1>15. Chained(q, t, v, d)'
  <2>1. ASSUME NEW z \in Sides
        PROVE  Asked(z, q, t)' /\ Written(z, q, t)' /\ Telling(z, t, d)' /\ Landed(z, q, v)'
    <3>1. Asked(z, q, t) /\ Written(z, q, t) /\ Telling(z, t, d) /\ Landed(z, q, r)
      BY DEF Chained
    <3>2. CASE z = s
      <4>1. Asked(s, q, t)'
        BY <1>7 DEF Asked
      <4>2. q[s][0] <= sent[s] /\ t[s][0] <= d[s]
        <5>1. q[s] \in [Nat -> Nat] /\ t[s] \in [Nat -> Nat]
          BY Zenon DEF Paths
        <5>2. q[s][0] <= q[s][l] /\ t[s][0] <= t[s][l] /\ q[s][l] <= sent[s] /\ t[s][l] <= d[s]
          BY <1>2, <1>k DEF Written, Telling, Rising
        <5>3. sent[s] \in Nat /\ d[s] \in Nat
          BY <1>0 DEF RdmaParts
        <5>4. q[s][0] \in Nat /\ q[s][l] \in Nat /\ t[s][0] \in Nat /\ t[s][l] \in Nat
          BY <5>1
        <5> QED BY <5>2, <5>3, <5>4
      <4>3. Rising(q[s], 0) /\ Rising(t[s], 0)
        BY RisingAtNone
      <4>4. Written(s, q, t)'
        BY <1>1, <1>2, <1>7, <1>8, <4>2, <4>3 DEF Written, Staged
      <4>5. Telling(s, t, d)'
        BY <1>1, <1>2, <1>7, <1>8, <4>2, <4>3 DEF Telling
      <4>6. v[s][k + 1] = q[PeerOf(s)][0]
        BY <1>2, <1>k, <1>u, <1>13 DEF Landed
      <4>7. Landed(s, q, v)'
        BY <1>1, <1>2, <1>7, <1>13, <4>6 DEF Landed
      <4> QED BY <3>2, <4>1, <4>4, <4>5, <4>7
    <3>3. CASE z # s
      <4>1. Asked(z, q, t)'
        BY <1>6, <3>1, <3>3, AskedSame
      <4>2. Written(z, q, t)'
        BY <1>0, <1>1, <1>6, <1>9, <3>1, <3>3, WrittenSame DEF Written
      <4>3. Telling(z, t, d)'
        BY <1>1, <1>6, <1>9, <3>1, <3>3, TellingSame
      <4>4. Landed(z, q, v)'
        BY <1>1, <1>6, <3>3, <1>14, <3>1, LandedAlike, LandedSame
      <4> QED BY <4>1, <4>2, <4>3, <4>4
    <3> QED BY <3>2, <3>3
  <2> QED BY <2>1 DEF Chained
<1> QED BY <1>10, <1>11, <1>12, <1>13, <1>15 DEF RdmaInv

-----------------------------------------------------------------------------
(* RdmaRing: the invariant holds, and what it says.                        *)

\* A link begins with nothing written.
LEMMA RdmaBegins == RdmaInit => RdmaInv
<1> SUFFICES ASSUME RdmaInit PROVE RdmaInv
  OBVIOUS
<1>z. PICK z : z = [s \in Sides |-> [i \in Nat |-> 0]]
  OBVIOUS
<1>d. PICK d : d = [s \in Sides |-> 0]
  OBVIOUS
<1>1. z \in Paths /\ d \in [Sides -> Nat]
  BY <1>z, <1>d DEF Paths
<1>2. Counted(0) = 0 /\ 0 \in Positions /\ 0 \in 0 .. RING
  BY ModulusFacts DEF Counted, Positions
<1>3. ASSUME NEW s \in Sides
      PROVE  /\ writer[s].head = 0 /\ writer[s].at = "idle" /\ reader[s].at = "read" /\ ~reader[s].ended
             /\ reader[s].head = 0 /\ reader[s].tail = 0 /\ reader[s].told = 0 /\ counter[s] = 0
             /\ sendq[s] = <<>> /\ sendcq[s] = <<>> /\ completed[s] = 0 /\ recvs[s] = RECVS /\ recvcq[s] = <<>>
             /\ closed[s] = "no" /\ up[s] = TRUE /\ sent[s] = 0 /\ got[s] = 0
  BY DEF RdmaInit
<1>e. /\ 1 .. 0 = {}
      /\ \A s \in Sides : Len(sendq[s]) = 0 /\ Len(sendcq[s]) = 0 /\ Len(recvcq[s]) = 0
  BY DEF RdmaInit
<1>4. RdmaParts
  <2>1. /\ bounds \in RdmaScopes
        /\ counter \in [Sides -> Positions] /\ completed \in [Sides -> Positions]
        /\ gone \in [Sides -> BOOLEAN] /\ up \in [Sides -> BOOLEAN]
        /\ closed \in [Sides -> {"no", "clean", "cut"}]
        /\ sent \in [Sides -> Nat] /\ got \in [Sides -> Nat]
    BY <1>2 DEF RdmaInit
  <2>2. /\ sendq \in [Sides -> Seq(Requests)] /\ sendcq \in [Sides -> Seq(0 .. Modulus + 1)]
        /\ recvs \in [Sides -> Nat] /\ recvcq \in [Sides -> Seq(Nat)]
    BY RingAssumption DEF RdmaInit
  <2>3. staging \in [Sides -> [Slots -> Nat]] /\ inbox \in [Sides -> [Slots -> Nat]]
    BY DEF RdmaInit
  <2>4. writer \in [Sides -> [at : {"idle", "post", "failed", "shut"}, head : Positions, n : 0 .. RING]]
    BY <1>2 DEF RdmaInit
  <2>5. reader \in [Sides -> [at : {"read", "credit", "end", "failed"}, head : Positions,
                           tail : Positions, told : Positions, ended : BOOLEAN]]
    BY <1>2 DEF RdmaInit
  <2> QED BY <2>1, <2>2, <2>3, <2>4, <2>5 DEF RdmaParts
<1>5. \A s \in Sides : ~Failed(s) /\ Marks(s) = {}
  <2> TAKE s \in Sides
  <2> QED BY <1>e DEF Failed, Marks
<1>6. Settled
  <2>1. ~side
    BY DEF RdmaInit
  <2>2. ASSUME NEW s \in Sides PROVE SettledAt(s)
    <3>1. /\ Len(sendq[s]) = 0 /\ Len(sendcq[s]) = 0 /\ Len(recvcq[s]) = 0 /\ recvs[s] = RECVS /\ 1 .. 0 = {}
      BY <1>3, <1>e
    <3>2. /\ Len(sendq[s]) <= SENDS /\ Len(sendq[s]) + Len(sendcq[s]) <= SENDS + 1
          /\ recvs[s] + Len(recvcq[s]) <= RECVS + 1 /\ recvs[s] + Len(recvcq[s]) = RECVS
      BY <3>1, RingAssumption
    <3>3. \A i \in 1 .. Len(recvcq[s]) : recvcq[s][i] = 0 => Failed(s)
      BY <3>1
    <3> QED BY <1>3, <1>5, <3>2, <3>3 DEF SettledAt
  <2> QED BY <2>1, <2>2 DEF Settled
<1>7. CleanEndIsComplete
  BY <1>3, SideFacts DEF CleanEndIsComplete
<1>8. Chained(z, z, z, d)
  <2>1. ASSUME NEW s \in Sides
        PROVE  Asked(s, z, z) /\ Written(s, z, z) /\ Telling(s, z, d) /\ Landed(s, z, z)
    <3>1. Len(sendq[s]) = 0 /\ Len(recvcq[s]) = 0 /\ 1 .. 0 = {}
      BY <1>e
    <3>2. z[s][0] = 0 /\ z[PeerOf(s)][0] = 0 /\ d[s] = 0
      BY <1>z, <1>d, SideFacts
    <3>3. Rising(z[s], 0)
      BY <1>1, RisingAtNone
    <3>4. Staged(s) = 0
      BY <1>3 DEF Staged
    <3>5. \A f : InPlace(f, 0, 0)
      BY DEF InPlace
    <3>6. 0 + 0 = 0 /\ 0 <= 0 /\ 0 + 0 <= 0 + RING /\ 0 < 0 + CREDIT_EVERY
      BY RingAssumption
    <3>7. Asked(s, z, z)
      BY <3>1 DEF Asked
    <3>8. Written(s, z, z)
      <4>1. writer[s].head = Counted(0) /\ LastDone(s, Counted(0)) /\ counter[s] = Counted(0)
        BY <1>2, <1>3, <1>5 DEF LastDone
      <4>2. InPlace(staging[s], 0, 0 + 0) /\ 0 <= 0 + RING
        BY <3>5, <3>6
      <4>3. writer[s].at # "post" /\ closed[s] # "clean" /\ sent[s] = 0
        BY <1>3
      <4> QED BY <3>1, <3>2, <3>3, <3>4, <3>6, <4>1, <4>2, <4>3 DEF Written
    <3>9. Telling(s, z, d)
      BY <1>2, <1>3, <3>1, <3>2, <3>3, <3>6 DEF Telling
    <3>10. Landed(s, z, z)
      BY <1>2, <1>3, <3>1, <3>2, <3>3, <3>5, <3>6 DEF Landed
    <3> QED BY <3>7, <3>8, <3>9, <3>10
  <2> QED BY <2>1 DEF Chained
<1> QED BY <1>1, <1>4, <1>6, <1>7, <1>8 DEF RdmaInv

LEMMA RdmaWaits == RdmaInv /\ UNCHANGED rvars => RdmaInv'
<1> SUFFICES ASSUME RdmaInv, UNCHANGED rvars PROVE RdmaInv'
  OBVIOUS
<1> PICK q \in Paths, t \in Paths, r \in Paths, d \in [Sides -> Nat] : Chained(q, t, r, d)
  BY DEF RdmaInv
<1>0. RdmaParts /\ Settled /\ CleanEndIsComplete
  BY DEF RdmaInv
<1>1. UNCHANGED <<bounds, writer, reader, staging, inbox, counter, sendq, sendcq, completed, recvs,
                  recvcq, gone, side, closed, up, sent, got>>
  BY DEF rvars
<1>2. RdmaParts'
  BY <1>0, <1>1 DEF RdmaParts
<1>3. \A z \in Sides : (Failed(z)' <=> Failed(z)) /\ (\A v : LastDone(z, v) => LastDone(z, v)')
  BY <1>1, DoneSame
<1>4. Settled'
  <2>1. SomeClosed' <=> SomeClosed
    BY <1>1 DEF SomeClosed
  <2>2. ASSUME NEW z \in Sides PROVE SettledAt(z)'
    BY <1>1, <1>3, <2>1, <1>0 DEF SettledAt, Settled
  <2> QED BY <1>0, <1>1, <2>1, <2>2 DEF Settled
<1>5. CleanEndIsComplete'
  BY <1>0, <1>1 DEF CleanEndIsComplete
<1>6. Chained(q, t, r, d)'
  <2>1. ASSUME NEW z \in Sides
        PROVE  Asked(z, q, t)' /\ Written(z, q, t)' /\ Telling(z, t, d)' /\ Landed(z, q, r)'
    <3>1. Asked(z, q, t) /\ Written(z, q, t) /\ Telling(z, t, d) /\ Landed(z, q, r)
      BY DEF Chained
    <3>2. Asked(z, q, t)'
      BY <1>1, <3>1, AskedSame
    <3>3. Written(z, q, t)'
      BY <1>0, <1>1, <1>3, <3>1, WrittenSame DEF Written
    <3>4. Telling(z, t, d)'
      BY <1>1, <1>3, <3>1, TellingSame
    <3>5. Landed(z, q, r)'
      BY <1>1, <3>1, LandedSame
    <3> QED BY <3>2, <3>3, <3>4, <3>5
  <2> QED BY <2>1 DEF Chained
<1> QED BY <1>2, <1>4, <1>5, <1>6 DEF RdmaInv

LEMMA RdmaSteps == RdmaInv /\ [RdmaNext]_rvars => RdmaInv'
<1> SUFFICES ASSUME RdmaInv, RdmaNext PROVE RdmaInv'
  BY RdmaWaits
<1>1. UNCHANGED bounds
  BY DEF RdmaNext
<1> PICK s \in Sides :
      \/ \E n \in bounds.sizes : Stage(s, n)
      \/ PostData(s) \/ WriteFails(s) \/ (\E late \in BOOLEAN : Shutdown(s, late)) \/ CloseNow(s)
      \/ Drain(s) \/ SeesEnd(s) \/ ReadEnds(s) \/ (\E n \in 1 .. RING : Take(s, n))
      \/ PostCredit(s) \/ CreditFails(s) \/ Execute(s) \/ Break(s) \/ DropLink(s)
  BY DEF RdmaNext, RdmaStep
<1>2. ASSUME NEW n \in bounds.sizes, Stage(s, n) PROVE RdmaInv'
  BY <1>1, <1>2, Stages
<1>3. CASE PostData(s)
  BY <1>1, <1>3, PostsData
<1>4. CASE WriteFails(s)
  BY <1>1, <1>4, FailsToWrite
<1>5. ASSUME NEW late \in BOOLEAN, Shutdown(s, late) PROVE RdmaInv'
  BY <1>1, <1>5, ShutsDown
<1>6. CASE CloseNow(s)
  BY <1>1, <1>6, ClosesNow
<1>7. CASE Drain(s)
  BY <1>1, <1>7, DrainKeeps
<1>8. CASE SeesEnd(s)
  BY <1>1, <1>8, SeesItsEnd
<1>9. CASE ReadEnds(s)
  BY <1>1, <1>9, ReadsItsEnd
<1>10. ASSUME NEW n \in 1 .. RING, Take(s, n) PROVE RdmaInv'
  BY <1>1, <1>10, TakesBytes
<1>11. CASE PostCredit(s)
  BY <1>1, <1>11, PostsCredit
<1>12. CASE CreditFails(s)
  BY <1>1, <1>12, FailsToTell
<1>13. CASE Execute(s)
  BY <1>1, <1>13, CarriesData, CarriesCredit
<1>14. CASE Break(s)
  BY <1>1, <1>14, Breaks
<1>15. CASE DropLink(s)
  BY <1>1, <1>15, DropsItsLink
<1> QED BY <1>2, <1>3, <1>4, <1>5, <1>6, <1>7, <1>8, <1>9, <1>10, <1>11, <1>12, <1>13, <1>14, <1>15

-----------------------------------------------------------------------------
(* RdmaRing: what the invariant says.                                      *)

\* A ring holds the bytes its reader is to take, where it looks for them.
LEMMA HeldAreWritten == RdmaInv => HeldIsWritten
<1> SUFFICES ASSUME RdmaInv, NEW p \in Sides, NEW i \in 0 .. HeldBytes(p) - 1
             PROVE  inbox[p][(reader[p].tail + i) % RING] = got[p] + 1 + i
  BY DEF HeldIsWritten
<1>1. PICK q \in Paths, t \in Paths, r \in Paths, d \in [Sides -> Nat] : Chained(q, t, r, d)
  BY DEF RdmaInv
<1>2. RdmaParts
  BY DEF RdmaInv
<1>3. PICK s \in Sides : s = PeerOf(p) /\ p = PeerOf(s)
  BY SideFacts
<1>4. reader[p].tail = Counted(got[p]) /\ InPlace(inbox[p], got[p], q[s][0])
  BY <1>1, <1>3 DEF Chained, Telling, Landed
<1>5. got[p] \in Nat
  BY <1>2 DEF RdmaParts
<1>6. PICK g \in Nat : g = got[p]
  BY <1>5
<1>7. i \in Nat /\ g + i \in g .. q[s][0] - 1
  BY <1>1, <1>2, <1>3, RoomIs, OnItsWay, <1>6
<1>8. (Counted(g) + i) % RING = Place(g + i)
  <2>1. PICK c \in Nat : c = Counted(g)
    BY CountedType DEF Positions
  <2>2. (c + i) % RING = ((c % RING) + i) % RING
    BY <1>7, <2>1, StepsOn, ModulusFacts
  <2>3. c % RING = Place(g)
    BY <2>1, PlaceOfCounted
  <2>4. (Place(g) + i) % RING = Place(g + i)
    BY <1>7, StepsOn, ModulusFacts DEF Place
  <2> QED BY <2>1, <2>2, <2>3, <2>4
<1>9. inbox[p][Place(g + i)] = g + i + 1
  BY <1>4, <1>6, <1>7 DEF InPlace
<1> QED BY <1>4, <1>6, <1>7, <1>8, <1>9

\* A side with both queue pairs there moves what it can, or says why not.
LEMMA StandsStill ==
  ASSUME RdmaInv, NEW s \in Sides, NEW p \in Sides, p = PeerOf(s),
         closed[s] = "no", closed[p] = "no", ~CanMove(s), ~CanMove(p),
         reader[s].at \in {"read", "credit"}, reader[p].at \in {"read", "credit"}
  PROVE  /\ ~Failed(s)
         /\ sendq[s] = <<>> \/ recvs[p] = 0
         /\ recvs[p] = 0 => reader[p].at = "credit"
         /\ reader[s].at = "credit" => Len(sendq[s]) = SENDS /\ sendq[s] # <<>>
<1>1. RdmaParts /\ SettledAt(s) /\ SettledAt(p) /\ PeerOf(p) = s
  BY SideFacts DEF RdmaInv, Settled
<1>2. up[s] /\ up[p]
  BY <1>1 DEF SettledAt
<1>3. ~Failed(s) /\ ~Failed(p)
  BY <1>1, <1>2 DEF SettledAt
<1>4. sendq[s] = <<>> \/ recvs[p] = 0
  BY <1>1, <1>2 DEF CanMove, Carries, RdmaParts
<1>5. ASSUME recvs[p] = 0 PROVE reader[p].at = "credit"
  <2>1. recvcq[p] # <<>>
    BY <1>5, <1>1, <1>3, RingAssumption DEF SettledAt, RdmaParts
  <2> QED BY <2>1 DEF CanMove, Drained
<1>6. ASSUME reader[s].at = "credit" PROVE Len(sendq[s]) = SENDS /\ sendq[s] # <<>>
  <2> QED BY <1>1, RingAssumption, <1>3, <1>6 DEF CanMove, Posts, RdmaParts, SettledAt
<1> QED BY <1>3, <1>4, <1>5, <1>6

\* A side with nothing to carry, whose peer read all it wrote, has room.
LEMMA RoomLeft ==
  ASSUME RdmaInv, NEW s \in Sides, NEW p \in Sides, p = PeerOf(s), ~Failed(s), ~Failed(p),
         reader[p].at = "read", sendq[s] = <<>>, sendq[p] = <<>>, recvcq[p] = <<>>,
         HeldBytes(p) = 0
  PROVE  Used(s) < RING
<1>1. PICK q \in Paths, t \in Paths, r \in Paths, d \in [Sides -> Nat] : Chained(q, t, r, d)
  BY DEF RdmaInv
<1>2. RdmaParts /\ PeerOf(p) = s
  BY SideFacts DEF RdmaInv
<1>3. q[s][Len(sendq[s])] = sent[s] /\ t[p][Len(sendq[p])] = d[p] /\ got[p] < d[p] + CREDIT_EVERY
  BY <1>1 DEF Chained, Written, Telling
<1>4. /\ HeldBytes(p) = r[p][0] - got[p]
      /\ Used(s) = IF t[p][0] < q[s][0] THEN sent[s] - t[p][0] ELSE sent[s] - q[s][0]
  BY <1>1, <1>2, RoomIs
<1>5. t[p][0] \in Nat /\ q[s][0] \in Nat /\ r[p][0] \in Nat /\ d[p] \in Nat
  BY <1>1, <1>2, OnItsWay
<1>6. sent[s] \in Nat /\ got[p] \in Nat
  BY <1>2 DEF RdmaParts
<1>7. CREDIT_EVERY \in 1 .. RING /\ RING \in Nat \ {0}
  BY RingAssumption
<1>8. q[s][0] = sent[s] /\ t[p][0] = d[p] /\ r[p][0] = q[s][0]
  BY <1>3, <1>1, <1>2 DEF Chained, Landed
<1>9. r[p][0] = got[p]
  BY <1>4, <1>5, <1>6
<1>10. PICK e \in Nat, a \in Nat : e = d[p] /\ a = sent[s]
  BY <1>5, <1>6
<1>11. a < e + CREDIT_EVERY
  BY <1>3, <1>8, <1>9, <1>10
<1>12. Used(s) = (IF e < a THEN a - e ELSE a - a)
  BY <1>4, <1>8, <1>10
<1> QED BY <1>7, <1>11, <1>12

LEMMA StandsStillAsItShould == RdmaInv => StandstillIsQueues
<1> SUFFICES ASSUME RdmaInv,
                    \A s \in Sides : closed[s] = "no" /\ reader[s].at \in {"read", "credit"} /\ ~CanMove(s)
             PROVE  \/ CircularWait
                    \/ \A s \in Sides : sendq[s] = <<>> /\ HeldBytes(s) = 0 /\ Used(s) < RING
  BY DEF StandstillIsQueues
<1>1. ASSUME NEW s \in Sides
      PROVE  /\ PeerOf(s) \in Sides /\ ~Failed(s)
             /\ sendq[s] = <<>> \/ recvs[PeerOf(s)] = 0
             /\ recvs[PeerOf(s)] = 0 => reader[PeerOf(s)].at = "credit"
             /\ reader[s].at = "credit" => Len(sendq[s]) = SENDS /\ sendq[s] # <<>>
  <2>1. PICK p \in Sides : p = PeerOf(s)
    BY SideFacts
  <2> QED BY <2>1, StandsStill
<1>2. ASSUME NEW s \in Sides, reader[s].at = "credit" PROVE CircularWait
  <2>1. PICK p \in Sides : p = PeerOf(s) /\ s = PeerOf(p) /\ \A z \in Sides : z = s \/ z = p
    BY SideFacts
  <2>2. ASSUME NEW z \in Sides
        PROVE  Len(sendq[z]) = SENDS /\ reader[z].at = "credit" /\ recvs[z] = 0
    BY <1>2, <2>1, <1>1
  <2> QED BY <2>2 DEF CircularWait
<1>3. ASSUME \A s \in Sides : reader[s].at = "read"
      PROVE  \A s \in Sides : sendq[s] = <<>> /\ HeldBytes(s) = 0 /\ Used(s) < RING
  <2>1. ASSUME NEW p \in Sides PROVE HeldBytes(p) = 0 /\ recvcq[p] = <<>>
    <3>1. HeldBytes(p) \in Nat
      <4>1. reader[p].head \in Nat /\ reader[p].tail \in Positions
        BY DEF Positions, RdmaInv, RdmaParts
      <4>2. Modulus \in Nat \ {0}
        BY ModulusFacts
      <4>3. reader[p].head + Modulus - reader[p].tail \in Nat
        BY <4>1, <4>2 DEF Positions
      <4> QED BY <4>2, <4>3 DEF HeldBytes, Minus
    <3> QED BY <1>3, <3>1 DEF CanMove, Drained
  <2>2. ASSUME NEW s \in Sides PROVE sendq[s] = <<>>
    BY <1>1, <1>3
  <2>3. ASSUME NEW s \in Sides PROVE Used(s) < RING
    <3>1. PICK p \in Sides : p = PeerOf(s)
      BY <1>1
    <3> QED BY <2>1, <2>2, <3>1, <1>1, <1>3, RoomLeft
  <2> QED BY <2>1, <2>2, <2>3
<1> QED BY <1>2, <1>3

LEMMA RdmaInvSays == RdmaInv => RdmaIsSound
<1> SUFFICES ASSUME RdmaInv PROVE RdmaIsSound
  OBVIOUS
<1>1. RdmaParts /\ Settled
  BY DEF RdmaInv
<1>2. ASSUME NEW s \in Sides
      PROVE  /\ writer[s] \in [at : {"idle", "post", "failed", "shut"}, head : Positions, n : 0 .. RING]
             /\ reader[s] \in [at : {"read", "credit", "end", "failed"}, head : Positions,
                               tail : Positions, told : Positions, ended : BOOLEAN]
  BY <1>1 DEF RdmaParts
<1>3. RdmaTypeOK
  <2> SUFFICES ASSUME NEW s \in Sides
               PROVE  /\ writer[s].head \in Positions /\ reader[s].head \in Positions
                      /\ reader[s].tail \in Positions /\ counter[s] \in Positions
                      /\ completed[s] \in Positions
                      /\ Len(sendq[s]) + Len(sendcq[s]) <= SENDS + 1
                      /\ recvs[s] + Len(recvcq[s]) <= RECVS + 1
                      /\ gone[s] \in BOOLEAN /\ up[s] \in BOOLEAN
                      /\ closed[s] \in {"no", "clean", "cut"}
    BY DEF RdmaTypeOK
  <2>1. writer[s].head \in Positions /\ reader[s].head \in Positions /\ reader[s].tail \in Positions
    BY <1>2
  <2>2. counter[s] \in Positions /\ completed[s] \in Positions
    BY <1>1 DEF RdmaParts
  <2>3. gone[s] \in BOOLEAN /\ up[s] \in BOOLEAN
    BY <1>1 DEF RdmaParts
  <2>4. closed[s] \in {"no", "clean", "cut"}
    BY <1>1 DEF RdmaParts
  <2>5. Len(sendq[s]) + Len(sendcq[s]) <= SENDS + 1 /\ recvs[s] + Len(recvcq[s]) <= RECVS + 1
    BY <1>1 DEF Settled, SettledAt
  <2> QED BY <2>1, <2>2, <2>3, <2>4, <2>5
<1>4. PositionsAccepted
  <2>1. ASSUME NEW s \in Sides PROVE writer[s].at # "refused" /\ reader[s].at # "refused"
    BY <1>2
  <2> QED BY <2>1 DEF PositionsAccepted
<1> QED BY <1>3, <1>4, HeldAreWritten, StandsStillAsItShould DEF RdmaInv, RdmaIsSound

\* Whatever the sizes of the writes and the order in which the queue pairs
\* carry them out, and wherever the counts wrap: what a reader holds is what
\* was written there, positions are never refused, an orderly end is no
\* earlier than the last byte, and a link stands still only with nothing to do
\* or in the circular wait of both readers (Writer, Reader and Shared of
\* ring.rs, every step of them).
THEOREM RdmaNeverTears == RdmaInit /\ [][RdmaNext]_rvars => []RdmaIsSound
<1>1. RdmaInit => RdmaInv
  BY RdmaBegins
<1>2. RdmaInv /\ [RdmaNext]_rvars => RdmaInv'
  BY RdmaSteps
<1>3. RdmaInv => RdmaIsSound
  BY RdmaInvSays
<1> QED BY <1>1, <1>2, <1>3, PTL

-----------------------------------------------------------------------------
(* Bridge.                                                                 *)

\* A number of a finite set is at the place that as many as are no larger say,
\* so all but k of them are past the k first.
LEMMA PastTheFirst ==
  ASSUME NEW S \in SUBSET Nat, IsFiniteSet(S), NEW k \in Nat, k <= Cardinality(S)
  PROVE  Cardinality({b \in S : Cardinality({c \in S : c <= b}) > k}) = Cardinality(S) - k
<1>1. PICK n \in Nat : n = Cardinality(S)
  BY FS_CardinalityType
<1> DEFINE U(b) == {c \in S : c <= b}
<1>2. PICK r : r = [b \in S |-> Cardinality(U(b))]
  OBVIOUS
<1>3. ASSUME NEW b \in S PROVE IsFiniteSet(U(b)) /\ r[b] \in 1 .. n
  <2>1. U(b) \in SUBSET S /\ b \in U(b)
    OBVIOUS
  <2>2. IsFiniteSet(U(b)) /\ Cardinality(U(b)) <= n
    BY <1>1, <2>1, FS_Subset
  <2>3. Cardinality(U(b)) \in Nat /\ Cardinality(U(b)) # 0
    BY <2>1, <2>2, FS_CardinalityType, FS_EmptySet
  <2>4. r[b] = Cardinality(U(b))
    BY <1>2
  <2> HIDE DEF U
  <2> QED BY <1>1, <2>2, <2>3, <2>4
<1>4. ASSUME NEW b \in S, NEW c \in S, b < c PROVE r[b] # r[c]
  <2>0. b \in Nat /\ c \in Nat
    OBVIOUS
  <2>1. U(b) \in SUBSET U(c) /\ c \in U(c) /\ c \notin U(b)
    <3>1. ASSUME NEW x \in U(b) PROVE x \in U(c)
      BY <1>4, <2>0
    <3>2. c \in U(c) /\ c \notin U(b)
      BY <1>4, <2>0
    <3> HIDE DEF U
    <3> QED BY <3>1, <3>2
  <2>2. Cardinality(U(b)) # Cardinality(U(c))
    BY <1>3, <2>1, FS_Subset
  <2> QED BY <1>2, <2>2
<1> HIDE DEF U
<1>5. r \in Injection(S, 1 .. n)
  <2>1. \A b, c \in S : b # c => r[b] # r[c]
    <3> SUFFICES ASSUME NEW b \in S, NEW c \in S, b # c PROVE r[b] # r[c]
      OBVIOUS
    <3> QED BY <1>4
  <2> QED BY <1>2, <1>3, <2>1 DEF Injection, IsInjective
<1>6. r \in Surjection(S, 1 .. n)
  BY <1>1, <1>5, FS_Interval, FS_Injection
<1>7. PICK T \in SUBSET S : T = {b \in S : r[b] > k}
  OBVIOUS
<1>8. PICK q : q = [b \in T |-> r[b]]
  OBVIOUS
<1>9. q \in Bijection(T, k + 1 .. n)
  <2>1. q \in [T -> k + 1 .. n]
    <3> SUFFICES ASSUME NEW b \in T PROVE r[b] \in k + 1 .. n
      BY <1>8
    <3> QED BY <1>3, <1>7
  <2>2. q \in Injection(T, k + 1 .. n)
    <3> QED BY <2>1, <1>7, <1>8, <1>5 DEF Injection, IsInjective
  <2>3. \A i \in k + 1 .. n : \E b \in T : q[b] = i
    <3> SUFFICES ASSUME NEW i \in k + 1 .. n PROVE \E b \in T : q[b] = i
      OBVIOUS
    <3>1. i \in 1 .. n /\ i > k
      OBVIOUS
    <3>2. PICK b \in S : r[b] = i
      BY <1>6, <3>1 DEF Surjection
    <3> QED BY <1>7, <1>8, <3>1, <3>2
  <2> QED BY <2>1, <2>2, <2>3 DEF Bijection, Surjection
<1>10. IsFiniteSet(T)
  BY <1>7, FS_Subset
<1>11. Cardinality(k + 1 .. n) = Cardinality(T)
  BY <1>9, <1>10, FS_Bijection DEF ExistsBijection
<1>12. Cardinality(k + 1 .. n) = n - k
  BY <1>1, FS_Interval
<1>13. {b \in S : Cardinality(U(b)) > k} = T
  BY <1>2, <1>7
<1> QED BY <1>1, <1>11, <1>12, <1>13 DEF U

\* As many of `files` are filed under each stamp as builds of `known` were
\* listed under it.
FiledFor(files, known, made) ==
  \A s \in Stamps :
    Cardinality({b \in DOMAIN files : files[b] = s}) =
    Cardinality({b \in known : made[b].stamp = s})

\* Closing keeps the books, whatever is closed of what the registry has.
LEMMA ClosedIs ==
  ASSUME NEW files, NEW known, NEW past \in SUBSET known, NEW made,
         DOMAIN files \in SUBSET Nat, IsFiniteSet(DOMAIN files), IsFiniteSet(known),
         \A b \in DOMAIN files : files[b] \in Stamps,
         FiledFor(files, known, made)
  PROVE  /\ DOMAIN Closed(files, past, made) \in SUBSET DOMAIN files
         /\ \A b \in DOMAIN Closed(files, past, made) :
              Closed(files, past, made)[b] = files[b]
         /\ FiledFor(Closed(files, past, made), known \ past, made)
<1> DEFINE asked(b) == {g \in past : NamedBy(files[b], made[g].stamp)}
<1>1. PICK stays : stays = {b \in DOMAIN files :
                     Cardinality(FoundBy(files, b)) > Cardinality(asked(b))}
  OBVIOUS
<1>2. PICK left : left = [b \in stays |-> files[b]]
  OBVIOUS
<1>3. Closed(files, past, made) = left
  BY <1>1, <1>2 DEF Closed
<1>4. DOMAIN left = stays /\ stays \in SUBSET DOMAIN files /\ \A b \in stays : left[b] = files[b]
  BY <1>1, <1>2
<1>5. ASSUME NEW s \in Stamps
      PROVE  Cardinality({b \in DOMAIN left : left[b] = s}) =
             Cardinality({b \in known \ past : made[b].stamp = s})
  <2>1. PICK S \in SUBSET DOMAIN files : S = {b \in DOMAIN files : files[b] = s}
    OBVIOUS
  <2>2. PICK H \in SUBSET known : H = {b \in known : made[b].stamp = s}
    OBVIOUS
  <2>3. PICK G \in SUBSET H : G = {g \in past : made[g].stamp = s}
    BY <2>2
  <2>4. IsFiniteSet(S) /\ IsFiniteSet(H) /\ IsFiniteSet(G)
    BY FS_Subset
  <2>5. Cardinality(S) = Cardinality(H)
    BY <2>1, <2>2 DEF FiledFor
  <2>6. PICK k \in Nat : k = Cardinality(G)
    BY <2>4, FS_CardinalityType
  <2>7. ASSUME NEW b \in S PROVE b \in stays <=> Cardinality({c \in S : c <= b}) > k
    <3>1. asked(b) = G
      BY <2>1, <2>3 DEF NamedBy
    <3>2. FoundBy(files, b) = {c \in S : c <= b}
      BY <2>1 DEF FoundBy, NamedBy
    <3> HIDE DEF asked
    <3> QED BY <1>1, <2>6, <3>1, <3>2
  <2>8. {b \in DOMAIN left : left[b] = s} = {b \in S : Cardinality({c \in S : c <= b}) > k}
    BY <1>4, <2>1, <2>7
  <2>9. Cardinality({b \in S : Cardinality({c \in S : c <= b}) > k}) = Cardinality(S) - k
    BY <2>4, <2>5, <2>6, FS_Subset, PastTheFirst
  <2>10. {b \in known \ past : made[b].stamp = s} = H \ G
    BY <2>2, <2>3
  <2>11. Cardinality(H \ G) = Cardinality(H) - Cardinality(G)
    <3>1. Cardinality(H \ G) = Cardinality(H) - Cardinality(H \cap G)
      BY <2>4, FS_Difference
    <3> QED BY <3>1
  <2> QED BY <2>5, <2>6, <2>8, <2>9, <2>10, <2>11
<1>6. FiledFor(left, known \ past, made)
  BY <1>5 DEF FiledFor
<1> QED BY <1>3, <1>4, <1>6

\* What the registry has of the source: it tells it of each when it lets go.
Registered == retired \cup ({served} \ {0})

BuildsTyped ==
  /\ manifest \in Stamps \cup {Absent} /\ latest \in Stamps \cup {Absent}
  /\ tried \in Stamps \cup {Absent} /\ refresh \in Stamps \cup {Absent}
  /\ builds \in Seq([stamp : Stamps, code : Stamps])
  /\ served \in 0 .. Len(builds) /\ retired \in SUBSET (1 .. Len(builds))
  /\ served \notin retired
  /\ handled \in SUBSET Registered

\* A build is filed under what it was listed under.
FiledAsListed ==
  /\ DOMAIN filed \in SUBSET (1 .. Len(builds))
  /\ \A b \in DOMAIN filed : filed[b] = builds[b].stamp

\* What is being opened is what was listed last; when nothing is, that was
\* tried, and the build served is of what was tried.
TriedAsListed ==
  /\ refresh # Absent => refresh = latest
  /\ refresh = Absent => tried = latest
  /\ served # 0 => latest # Absent /\ (builds[served].stamp = tried \/ refusal)

BInv == BuildsTyped /\ FiledAsListed /\ EveryBuildFiled /\ TriedAsListed

\* Every build was listed with a content, and opened with one.
LEMMA BuildsAre ==
  ASSUME BInv, NEW b \in 1 .. Len(builds)
  PROVE  builds[b].stamp \in Stamps /\ builds[b].code \in Stamps
<1>1. builds[b] \in [stamp : Stamps, code : Stamps]
  BY ElementOfSeq DEF BInv, BuildsTyped
<1> QED BY <1>1

\* The books a registry and its source keep say what the property says.
LEMMA BInvImplies == BInv => BuildsAreFiled
<1> SUFFICES ASSUME BInv PROVE BuildsAreFiled
  OBVIOUS
<1>0. /\ Len(builds) \in Nat /\ DOMAIN builds = 1 .. Len(builds)
      /\ \A b \in 1 .. Len(builds) : builds[b].stamp \in Stamps /\ builds[b].code \in Stamps
      /\ handled \in SUBSET Registered
      /\ Registered \in SUBSET (1 .. Len(builds))
      /\ handled \cup ({served} \ {0}) \in SUBSET Registered
  <2>1. Len(builds) \in Nat /\ DOMAIN builds = 1 .. Len(builds)
    BY DEF BInv, BuildsTyped
  <2>2. \A b \in 1 .. Len(builds) : builds[b].stamp \in Stamps /\ builds[b].code \in Stamps
    BY <2>1, BuildsAre
  <2>3. handled \in SUBSET Registered /\ served \in 0 .. Len(builds)
        /\ \A b \in retired : b \in 1 .. Len(builds)
    BY DEF BInv, BuildsTyped
  <2>4. \A b \in Registered : b \in 1 .. Len(builds)
    BY <2>1, <2>3 DEF Registered
  <2>5. \A b \in handled \cup ({served} \ {0}) : b \in Registered
    BY <2>3 DEF Registered
  <2> QED BY <2>1, <2>2, <2>3, <2>4, <2>5
<1>1. ASSUME NEW b \in Registered, b \notin EngineOpen
      PROVE  \E c \in DOMAIN builds : c # b /\ builds[c].stamp = builds[b].stamp
  <2>1. PICK s \in Stamps : s = builds[b].stamp
    BY <1>0
  <2>2. IsFiniteSet(1 .. Len(builds))
    BY <1>0, FS_Interval
  <2>3. PICK H \in SUBSET (1 .. Len(builds)) : H = {c \in Registered : builds[c].stamp = s}
    BY <1>0
  <2>4. PICK F \in SUBSET (1 .. Len(builds)) : F = {c \in EngineOpen : filed[c] = s}
    BY DEF BInv, FiledAsListed, EngineOpen
  <2>5. F # {}
    BY <2>1, <2>2, <2>3, <2>4, FS_Subset, FS_EmptySet DEF BInv, EveryBuildFiled, Registered
  <2>6. PICK c \in F : TRUE
    BY <2>5
  <2>7. c # b /\ builds[c].stamp = s
    BY <1>1, <2>4 DEF BInv, FiledAsListed, EngineOpen
  <2> QED BY <1>0, <2>1, <2>4, <2>7
<1>2. HeldIsOpen
  BY <1>0, <1>1 DEF HeldIsOpen
<1>3. ServedIsFresh
  BY DEF BInv, TriedAsListed, ServedIsFresh
<1> QED BY <1>2, <1>3 DEF BInv, BuildsAreFiled

\* A step that closes what is retired and not held keeps the books.
LEMMA ClosingKeepsBooks ==
  ASSUME BInv, builds' = builds, filed' = Closed(filed, Unheld, builds),
         Registered' = Registered \ Unheld
  PROVE  FiledAsListed' /\ EveryBuildFiled'
<1>1. PICK known : known = Registered
  OBVIOUS
<1>2. PICK past : past = Unheld
  OBVIOUS
<1>3. PICK files : files = filed
  OBVIOUS
<1>4. PICK made : made = builds
  OBVIOUS
<1>5. PICK n \in Nat : n = Len(builds)
  BY DEF BInv, BuildsTyped
<1>6. DOMAIN files \in SUBSET (1 .. n) /\ \A b \in DOMAIN files : files[b] = made[b].stamp
  BY <1>3, <1>4, <1>5 DEF BInv, FiledAsListed
<1>7. \A b \in known : b \in 1 .. n
  BY <1>1, <1>5 DEF BInv, BuildsTyped, Registered
<1>8. past \in SUBSET known
  BY <1>1, <1>2 DEF Registered, Unheld
<1>9. IsFiniteSet(1 .. n) /\ \A b \in 1 .. n : b \in Nat
  BY FS_Interval
<1>10. FiledFor(files, known, made)
  BY <1>1, <1>3, <1>4 DEF BInv, EveryBuildFiled, EngineOpen, FiledFor, Registered
<1>11. \A b \in DOMAIN files : files[b] \in Stamps
  BY <1>4, <1>5, BuildsAre, <1>6
<1>12. /\ DOMAIN Closed(files, past, made) \in SUBSET DOMAIN files
       /\ \A b \in DOMAIN Closed(files, past, made) :
            Closed(files, past, made)[b] = files[b]
       /\ FiledFor(Closed(files, past, made), known \ past, made)
  BY <1>8, <1>6, <1>9, FS_Subset, <1>7, <1>10, <1>11, ClosedIs
<1>13. filed' = Closed(files, past, made) /\ builds' = made /\ Registered' = known \ past
  BY <1>1, <1>2, <1>3, <1>4
<1>14. FiledAsListed'
  BY <1>4, <1>5, <1>6, <1>12, <1>13 DEF FiledAsListed
<1>15. EveryBuildFiled'
  BY <1>12, <1>13 DEF EveryBuildFiled, EngineOpen, FiledFor, Registered
<1> QED BY <1>14, <1>15

\* What is opened is filed under what it was listed under.
LEMMA OpenKeepsBooks ==
  ASSUME BridgeAssumption, BInv, NEW taken \in BOOLEAN, RefreshOpen(taken)
  PROVE  BInv'
<1>1. /\ refresh \in Stamps /\ manifest \in Stamps /\ refresh = latest /\ refresh # Absent
      /\ Len(builds) \in Nat
  BY BridgeAssumption DEF BInv, BuildsTyped, TriedAsListed, RefreshOpen
<1>2. PICK n \in Nat : n = Len(builds)
  BY <1>1
<1>3. PICK made : made = Append(builds, [stamp |-> refresh, code |-> manifest])
  OBVIOUS
<1>4. /\ made \in Seq([stamp : Stamps, code : Stamps]) /\ Len(made) = n + 1
      /\ made[n + 1].stamp = refresh
      /\ \A b \in 1 .. n : made[b] = builds[b]
  BY <1>1, <1>2, <1>3 DEF BInv, BuildsTyped
<1>5. PICK with : with = [b \in EngineOpen \cup {n + 1} |-> IF b = n + 1 THEN FiledAs ELSE filed[b]]
  OBVIOUS
<1>6. PICK past : past = (IF served # 0 THEN Unheld ELSE {}) \cup (IF taken THEN {} ELSE {n + 1})
  OBVIOUS
<1>7. /\ builds' = made /\ filed' = Closed(with, past, made)
      /\ served' = IF taken THEN n + 1 ELSE 0
      /\ retired' = IF served # 0 THEN (retired \ Unheld) \cup {served} ELSE retired
      /\ tried' = refresh /\ refusal' = ~taken /\ refresh' = Absent
      /\ manifest' = manifest /\ latest' = latest /\ handled' = handled
  BY <1>2, <1>3, <1>5, <1>6 DEF RefreshOpen
<1>8. /\ served \in 0 .. n /\ retired \in SUBSET (1 .. n) /\ served \notin retired
      /\ handled \in SUBSET (retired \cup ({served} \ {0}))
      /\ DOMAIN filed \in SUBSET (1 .. n) /\ \A b \in DOMAIN filed : filed[b] = builds[b].stamp
      /\ \A b \in 1 .. n : builds[b].stamp \in Stamps
  <2>1. served \in 0 .. n /\ retired \in SUBSET (1 .. n) /\ served \notin retired
    BY <1>2 DEF BInv, BuildsTyped
  <2>2. handled \in SUBSET (retired \cup ({served} \ {0}))
    BY DEF BInv, BuildsTyped, Registered
  <2>3. DOMAIN filed \in SUBSET (1 .. n) /\ \A b \in DOMAIN filed : filed[b] = builds[b].stamp
    BY <1>2 DEF BInv, FiledAsListed
  <2>4. \A b \in 1 .. n : builds[b].stamp \in Stamps
    BY <1>2, BuildsAre
  <2> QED BY <2>1, <2>2, <2>3, <2>4
<1>9. PICK known \in SUBSET (1 .. n) : known = Registered
  <2>1. \A b \in Registered : b \in 1 .. n
    BY <1>8 DEF Registered
  <2> QED BY <2>1
<1>10. n + 1 \notin 1 .. n /\ (1 .. n + 1) = (1 .. n) \cup {n + 1} /\ n + 1 # 0
  OBVIOUS
<1>11. /\ DOMAIN with = DOMAIN filed \cup {n + 1}
       /\ DOMAIN with \in SUBSET (1 .. n + 1)
       /\ \A b \in DOMAIN with : with[b] = made[b].stamp /\ with[b] \in Stamps
  <2> QED BY <1>1, <1>4, <1>8, <1>10, <1>5 DEF EngineOpen, FiledAs
<1>12. FiledFor(with, known \cup {n + 1}, made)
  <2> SUFFICES ASSUME NEW s \in Stamps
               PROVE  Cardinality({b \in DOMAIN with : with[b] = s}) =
                      Cardinality({b \in known \cup {n + 1} : made[b].stamp = s})
    BY DEF FiledFor
  <2>1. PICK F \in SUBSET (1 .. n) : F = {b \in DOMAIN filed : filed[b] = s}
    BY <1>8
  <2>2. PICK H \in SUBSET (1 .. n) : H = {b \in known : builds[b].stamp = s}
    OBVIOUS
  <2>3. Cardinality(F) = Cardinality(H)
    BY <1>9, <2>1, <2>2 DEF BInv, EveryBuildFiled, EngineOpen, Registered
  <2>4. IsFiniteSet(F) /\ IsFiniteSet(H)
    <3>1. IsFiniteSet(1 .. n)
      BY FS_Interval
    <3> QED BY <3>1, FS_Subset
  <2>5. PICK x \in SUBSET {n + 1} : x = IF s = refresh THEN {n + 1} ELSE {}
    OBVIOUS
  <2>6. {b \in DOMAIN with : with[b] = s} = F \cup x
    BY <1>4, <1>8, <1>10, <1>11, <2>1, <2>5
  <2>7. {b \in known \cup {n + 1} : made[b].stamp = s} = H \cup x
    BY <1>4, <1>10, <2>2, <2>5
  <2>8. Cardinality(F \cup {n + 1}) = Cardinality(F) + 1 /\ Cardinality(H \cup {n + 1}) = Cardinality(H) + 1
    BY <1>10, <2>4, FS_AddElement
  <2>9. x = {n + 1} \/ x = {}
    BY <2>5
  <2> QED BY <2>3, <2>6, <2>7, <2>8, <2>9
<1>13. IsFiniteSet(1 .. n + 1) /\ (1 .. n + 1) \in SUBSET Nat
  BY FS_Interval
<1>14. IsFiniteSet(DOMAIN with) /\ IsFiniteSet(known \cup {n + 1}) /\ DOMAIN with \in SUBSET Nat
  BY <1>10, <1>11, <1>13, FS_Subset
<1>15. /\ DOMAIN filed' \in SUBSET DOMAIN with
       /\ \A b \in DOMAIN filed' : filed'[b] = with[b]
       /\ FiledFor(filed', (known \cup {n + 1}) \ past, made)
  <2>1. PICK both : both = known \cup {n + 1}
    OBVIOUS
  <2>2. past \in SUBSET both /\ IsFiniteSet(both) /\ FiledFor(with, both, made)
    BY <1>12, <1>6, <1>9, <1>14, <2>1 DEF Unheld, Registered
  <2>3. /\ DOMAIN Closed(with, past, made) \in SUBSET DOMAIN with
        /\ \A b \in DOMAIN Closed(with, past, made) : Closed(with, past, made)[b] = with[b]
        /\ FiledFor(Closed(with, past, made), both \ past, made)
    BY <1>14, <2>2, <1>11, ClosedIs
  <2> QED BY <1>7, <2>1, <2>3
<1>16. retired' \cup ({served'} \ {0}) = (known \cup {n + 1}) \ past
  BY <1>6, <1>7, <1>8, <1>9, <1>10 DEF Registered, Unheld
<1>17. EveryBuildFiled'
  BY <1>7, <1>15, <1>16 DEF EveryBuildFiled, EngineOpen, FiledFor
<1>18. FiledAsListed'
  BY <1>4, <1>7, <1>11, <1>15 DEF FiledAsListed
<1>19. BuildsTyped'
  <2>1. served' \in 0 .. n + 1 /\ retired' \in SUBSET (1 .. n + 1) /\ served' \notin retired'
    <3>1. served' \in 0 .. n + 1
      BY <1>7
    <3>2. \A b \in retired' : b \in 1 .. n
      BY <1>7, <1>8
    <3>3. served' \notin retired'
      BY <1>7, <1>10, <3>2
    <3> QED BY <1>10, <3>1, <3>2, <3>3
  <2> QED BY <1>1, <1>4, <1>7, <2>1, <1>8 DEF BInv, BuildsTyped, Registered, Unheld
<1>20. TriedAsListed'
  BY <1>1, <1>4, <1>7 DEF TriedAsListed
<1> QED BY <1>17, <1>18, <1>19, <1>20 DEF BInv

LEMMA BridgeInduction ==
  /\ BridgeInit => BInv
  /\ BInv /\ [BridgeNext]_bridgevars => BInv'
<1>0. BridgeAssumption
  BY BridgeAssumption
<1>1. BridgeInit => BInv
  <2> SUFFICES ASSUME BridgeInit PROVE BInv
    OBVIOUS
  <2>1. Len(builds) = 0 /\ DOMAIN filed = {} /\ retired \cup ({served} \ {0}) = {}
    BY DEF BridgeInit
  <2>2. EveryBuildFiled
    BY <2>1 DEF EveryBuildFiled, EngineOpen
  <2> QED BY <2>1, <2>2 DEF BridgeInit, BInv, BuildsTyped, FiledAsListed, TriedAsListed, Registered
<1>2. BInv /\ [BridgeNext]_bridgevars => BInv'
  <2> SUFFICES ASSUME BInv, [BridgeNext]_bridgevars PROVE BInv'
    OBVIOUS
  <2>0. /\ Len(builds) \in Nat /\ served \notin retired
        /\ handled \in SUBSET (retired \cup ({served} \ {0}))
    BY DEF BInv, BuildsTyped, Registered
  <2>1. ASSUME NEW content \in Stamps \cup {Absent}, Edits(content) PROVE BInv'
    BY <2>1 DEF Edits, BInv, BuildsTyped, FiledAsListed, EveryBuildFiled, EngineOpen, TriedAsListed, Registered
  <2>2. CASE Handles \/ \E b \in handled : Lets(b)
    <3>1. UNCHANGED <<manifest, latest, filed, builds, served, retired, tried, refusal, refresh>>
      BY <2>2 DEF Handles, Lets
    <3>2. \A b \in handled' : b \in Registered
      BY <2>0, <2>2 DEF Handles, Lets, Registered
    <3> QED BY <3>1, <3>2 DEF BInv, BuildsTyped, FiledAsListed, EveryBuildFiled, EngineOpen, TriedAsListed, Registered
  <2>3. CASE RefreshList
    <3>1. Registered' = Registered \ Unheld
      BY <2>0, <2>3 DEF RefreshList, Registered, Unheld
    <3>2. FiledAsListed' /\ EveryBuildFiled'
      BY <2>3, <3>1, ClosingKeepsBooks DEF RefreshList
    <3>3. handled' \in SUBSET Registered'
      BY <2>0, <2>3, <3>1 DEF RefreshList, Registered, Unheld
    <3>4. BuildsTyped'
      <4>1. served \in 0 .. Len(builds) /\ \A b \in retired : b \in 1 .. Len(builds)
        BY DEF BInv, BuildsTyped
      <4>2. served' \in 0 .. Len(builds) /\ served' \notin retired'
            /\ \A b \in retired' : b \in 1 .. Len(builds)
        BY <2>3, <2>0, <4>1 DEF RefreshList, Unheld
      <4>3. builds' = builds /\ manifest' = manifest
        BY <2>3 DEF RefreshList
      <4>4. latest' \in Stamps \cup {Absent} /\ tried' \in Stamps \cup {Absent}
            /\ refresh' \in Stamps \cup {Absent}
        BY <2>3 DEF RefreshList, BInv, BuildsTyped
      <4> QED BY <3>3, <4>2, <4>3, <4>4 DEF BInv, BuildsTyped
    <3>5. TriedAsListed'
      BY <1>0, <2>3 DEF RefreshList, BInv, TriedAsListed, Tried
    <3> QED BY <3>2, <3>4, <3>5 DEF BInv
  <2>4. CASE RefreshRefused
    BY <2>4 DEF RefreshRefused, BInv, BuildsTyped, FiledAsListed, EveryBuildFiled, EngineOpen, TriedAsListed, Registered
  <2>5. ASSUME NEW taken \in BOOLEAN, RefreshOpen(taken) PROVE BInv'
    BY <1>0, <2>5, OpenKeepsBooks
  <2>6. CASE HostRetires \/ HostCollects
    <3>1. Registered' = Registered \ Unheld
      BY <2>0, <2>6 DEF HostRetires, HostCollects, Registered, Unheld
    <3>2. FiledAsListed' /\ EveryBuildFiled'
      BY <2>6, <3>1, ClosingKeepsBooks DEF HostRetires, HostCollects
    <3>3. handled' \in SUBSET Registered'
      BY <2>0, <2>6, <3>1 DEF HostRetires, HostCollects, Registered, Unheld
    <3>4. BuildsTyped'
      <4>1. served \in 0 .. Len(builds) /\ \A b \in retired : b \in 1 .. Len(builds)
        BY DEF BInv, BuildsTyped
      <4>2. served' \in 0 .. Len(builds) /\ served' \notin retired'
            /\ \A b \in retired' : b \in 1 .. Len(builds)
        BY <2>6, <2>0, <4>1 DEF HostRetires, HostCollects, Unheld
      <4>3. builds' = builds /\ manifest' = manifest
        BY <2>6 DEF HostRetires, HostCollects
      <4>4. latest' \in Stamps \cup {Absent} /\ tried' \in Stamps \cup {Absent}
            /\ refresh' \in Stamps \cup {Absent}
        BY <2>6 DEF HostRetires, HostCollects, BInv, BuildsTyped
      <4> QED BY <3>3, <4>2, <4>3, <4>4 DEF BInv, BuildsTyped
    <3>5. TriedAsListed'
      BY <2>6 DEF HostRetires, HostCollects, BInv, TriedAsListed
    <3> QED BY <3>2, <3>4, <3>5 DEF BInv
  <2>7. CASE UNCHANGED bridgevars
    BY <2>7 DEF bridgevars, BInv, BuildsTyped, FiledAsListed, EveryBuildFiled, EngineOpen, TriedAsListed, Registered
  <2> QED BY <2>1, <2>2, <2>3, <2>4, <2>5, <2>6, <2>7 DEF BridgeNext
<1> QED BY <1>1, <1>2

\* However a manifest is edited while a registry refreshes from it, retires and
\* collects: each build the registry has is filed under the stamp it closes it
\* by, the engine closes nothing held but for another of its stamp, and what is
\* served is what was listed (guatiao-bridge source.rs:169, 268).
THEOREM BridgeIsFiled == BridgeInit /\ [][BridgeNext]_bridgevars => []BuildsAreFiled
<1>1. BridgeInit => BInv
  BY BridgeInduction
<1>2. BInv /\ [BridgeNext]_bridgevars => BInv'
  BY BridgeInduction
<1> QED BY <1>1, <1>2, BInvImplies, PTL

-----------------------------------------------------------------------------
(* Script.  The invariant is of values it is given, so that an activity may *)
(* end first and the engine be left after.                                  *)

ScriptFrames ==
  [does : {"open", "call", "close", "dispose"}, lib : Scripts, at : {"script", "end", "reaction"},
   id : Nat, hit : BOOLEAN, outer : BOOLEAN, out : HostObjects \cup {NoObject}, looped : BOOLEAN]
ScriptSettles ==
  [does : {"settle"}, dead : SUBSET HostObjects, late : Seq(Scripts \X Nat), collect : BOOLEAN]
Activities == ScriptFrames \cup ScriptSettles

ScriptPlaces == {"host", "handle", "grave", "out", "handed", "dying", "gone"}

ScriptTyped(s, ld, ob, ns, hh, lr, gy, cd, re, st, wh, ow, lg) ==
  /\ s \in Seq(Activities) /\ ld \in [Scripts -> {"unopened", "opening", "open", "closed"}]
  /\ ob \in SUBSET (Scripts \X Nat) /\ ns \in Nat /\ hh \in SUBSET (Scripts \X Nat)
  /\ lr \in Seq(Scripts \X Nat) /\ gy \in SUBSET HostObjects /\ cd \in BOOLEAN
  /\ re \in Nat /\ st \in BOOLEAN /\ wh \in [HostObjects -> ScriptPlaces]
  /\ ow \in [HostObjects -> Scripts \cup {NoObject}] /\ lg \in [HostObjects -> BOOLEAN]

\* Where no frame is open: below the n + 1st, in the whole of s.
NoneOpen(s, n) == \A k \in 1 .. n : ~IsFrame(s[k])

\* What runs only where no frame is below it.
RunsAlone(a) == ~IsFrame(a) \/ a.does \in {"dispose", "open"} \/ a.at = "reaction"

\* Whether the activity at n is a frame whose call was stopped.
HitAt(s, n) == n > 0 /\ IsFrame(s[n]) /\ s[n].hit = TRUE

\* Settling is below all frames, so the call that a frame above n is inside is
\* the one right below it.  What settle released is not the first to be entered.
EnteredAt(a, s, n) == (a.outer = TRUE <=> HitAt(s, n)) /\ (a.looped = TRUE => n > 0)

StackIs(s, re, st) ==
  /\ \A i \in 1 .. Len(s) : RunsAlone(s[i]) => NoneOpen(s, i - 1)
  /\ \A i \in 1 .. Len(s) : IsFrame(s[i]) => EnteredAt(s[i], s, i - 1)
  /\ st = TRUE <=> HitAt(s, Len(s))
  /\ NoneOpen(s, Len(s)) => re = 0

\* A frame about to answer an object, and one waiting to be released.
ToAnswer(s, g) == \E i \in 1 .. Len(s) : IsFrame(s[i]) /\ s[i].id # 0 /\ g = <<s[i].lib, s[i].id>>
WaitsLate(s, lr, g) ==
  \/ \E k \in 1 .. Len(lr) : lr[k] = g
  \/ \E i \in 1 .. Len(s) : ~IsFrame(s[i]) /\ \E k \in 1 .. Len(s[i].late) : s[i].late[k] = g

FrameFits(a, ld, ob, ns, hh) ==
  /\ a.at = "end" => a.out = NoObject
  /\ a.id # 0 => /\ a.does = "call" /\ a.at # "script" /\ a.id <= ns
                 /\ <<a.lib, a.id>> \notin hh
                 /\ ld[a.lib] = "open" => <<a.lib, a.id>> \in ob
  /\ a.does = "open" => ld[a.lib] = "opening"
  /\ a.does = "call" => ld[a.lib] \in {"open", "closed"}

\* An object of a library is held, about to be answered or to be released, one
\* of the three, under a number of its own.
ServedFits(s, ld, ob, ns, hh, lr) ==
  /\ \A i \in 1 .. Len(s) : IsFrame(s[i]) => FrameFits(s[i], ld, ob, ns, hh)
  /\ \A i, j \in 1 .. Len(s) :
       IsFrame(s[i]) /\ IsFrame(s[j]) /\ s[i].id # 0 /\ s[i].id = s[j].id => i = j
  /\ \A g \in Scripts \X Nat : WaitsLate(s, lr, g) => g[2] <= ns /\ g \notin hh /\ ~ToAnswer(s, g)
  /\ \A g \in hh : /\ g[2] \in 1 .. ns /\ ld[g[1]] \in {"open", "closed"}
                   /\ ld[g[1]] = "open" => g \in ob
  /\ \A g \in ob : g[2] \in 1 .. ns /\ (g \in hh \/ WaitsLate(s, lr, g) \/ ToAnswer(s, g))

\* A collection is still to come.
CollectionDue(s, cd) ==
  \/ cd = TRUE
  \/ \E i \in 1 .. Len(s) : IF IsFrame(s[i]) THEN s[i].does = "close" ELSE s[i].collect = TRUE

\* An object taken out for a frame's call, or about to be destroyed.
HoldsIn(a, o) == IF IsFrame(a) THEN a.out = o ELSE o \in a.dead
PlaceIn(a) == IF IsFrame(a) THEN "out" ELSE "dying"

\* Where a host's object is, and what will still be done with it.
ObjectFits(s, ld, gy, cd, wh, ow, lg, o) ==
  /\ wh[o] \in {"host", "handle"} => lg[o] = FALSE
  /\ wh[o] = "grave" <=> o \in gy
  /\ wh[o] \in {"out", "dying"} => \E i \in 1 .. Len(s) : HoldsIn(s[i], o)
  /\ wh[o] \in {"handle", "out"} => /\ ow[o] \in Scripts /\ ld[ow[o]] \in {"open", "closed"}
                                    /\ ld[ow[o]] = "closed" => CollectionDue(s, cd)

HostFits(s, ld, gy, cd, wh, ow, lg) ==
  /\ \A o \in HostObjects : ObjectFits(s, ld, gy, cd, wh, ow, lg, o)
  /\ \A o \in HostObjects : \A i \in 1 .. Len(s) : HoldsIn(s[i], o) => wh[o] = PlaceIn(s[i])
  /\ \A o \in HostObjects : \A i, j \in 1 .. Len(s) : HoldsIn(s[i], o) /\ HoldsIn(s[j], o) => i = j

ScriptIs(s, ld, ob, ns, hh, lr, gy, cd, re, st, wh, ow, lg) ==
  /\ ScriptTyped(s, ld, ob, ns, hh, lr, gy, cd, re, st, wh, ow, lg)
  /\ StackIs(s, re, st)
  /\ ServedFits(s, ld, ob, ns, hh, lr)
  /\ HostFits(s, ld, gy, cd, wh, ow, lg)

\* Nothing is left to settle.
SettledWhen(s, lr, gy, cd) == Len(s) = 0 => Len(lr) = 0 /\ gy = {} /\ cd = FALSE

ScriptInv ==
  /\ ScriptIs(stack, loaded, objects, nextServed, heldByHost, lateReleases, graveyard, collectDue,
              reactions, stop, where, ownedBy, letGo)
  /\ SettledWhen(stack, lateReleases, graveyard, collectDue)

-----------------------------------------------------------------------------
\* t is s but for what is above the nth, one activity at most in both.
TopOnly(t, s, n) ==
  /\ t \in Seq(Activities) /\ n \in Nat /\ n <= Len(s) /\ Len(s) <= n + 1
  /\ n <= Len(t) /\ Len(t) <= n + 1
  /\ \A i \in 1 .. n : t[i] = s[i]

LEMMA TopIs ==
  ASSUME NEW s \in Seq(Activities), NEW t, NEW n, TopOnly(t, s, n)
  PROVE  /\ n \in Nat /\ Len(s) \in Nat /\ Len(t) \in Nat /\ n + 1 \in 1 .. n + 1
         /\ \A i \in 1 .. Len(t) : i \in 1 .. n \/ (i = n + 1 /\ Len(t) = n + 1)
         /\ \A i \in 1 .. Len(s) : i \in 1 .. n \/ (i = n + 1 /\ Len(s) = n + 1)
         /\ \A i \in 1 .. n : i \in 1 .. Len(s) /\ i \in 1 .. Len(t) /\ t[i] = s[i]
<1>1. t \in Seq(Activities) /\ n \in Nat
  BY DEF TopOnly
<1>2. PICK p \in Nat : p = Len(t)
  BY <1>1
<1>3. PICK q \in Nat : q = Len(s)
  OBVIOUS
<1>4. /\ \A i \in 1 .. p : i \in 1 .. n \/ (i = n + 1 /\ p = n + 1)
      /\ \A i \in 1 .. q : i \in 1 .. n \/ (i = n + 1 /\ q = n + 1)
      /\ \A i \in 1 .. n : i \in 1 .. q /\ i \in 1 .. p
      /\ n + 1 \in 1 .. n + 1
  BY <1>1, <1>2, <1>3 DEF TopOnly
<1>5. \A i \in 1 .. n : t[i] = s[i]
  BY DEF TopOnly
<1> QED BY <1>1, <1>2, <1>3, <1>4, <1>5

LEMMA ActivityIs ==
  ASSUME NEW a \in Activities
  PROVE  (IsFrame(a) => a \in ScriptFrames) /\ (~IsFrame(a) => a \in ScriptSettles)
BY DEF Activities, ScriptFrames, ScriptSettles, IsFrame

LEMMA ActivitiesAre ==
  ASSUME NEW s \in Seq(Activities)
  PROVE  /\ Len(s) \in Nat
         /\ \A i \in 1 .. Len(s) : s[i] \in Activities
OBVIOUS

LEMMA Grown ==
  ASSUME NEW s \in Seq(Activities), NEW a \in Activities
  PROVE  /\ Append(s, a) \in Seq(Activities) /\ TopOnly(Append(s, a), s, Len(s))
         /\ Len(Append(s, a)) = Len(s) + 1 /\ Append(s, a)[Len(s) + 1] = a
BY DEF TopOnly

LEMMA Shrunk ==
  ASSUME NEW s \in Seq(Activities), s # <<>>
  PROVE  \E n \in Nat : /\ Len(s) = n + 1 /\ Last(s) = s[n + 1] /\ s[n + 1] \in Activities
                        /\ Front(s) \in Seq(Activities) /\ Len(Front(s)) = n
                        /\ \A i \in 1 .. n : Front(s)[i] = s[i]
                        /\ TopOnly(Front(s), s, n)
<1>1. PICK n \in Nat : Len(s) = n + 1
  BY EmptySeq, Len(s) - 1 \in Nat
<1>2. Front(s) = SubSeq(s, 1, n) /\ Last(s) = s[n + 1] /\ s[n + 1] \in Activities
  BY <1>1 DEF Front, Last
<1>3. /\ SubSeq(s, 1, n) \in Seq(Activities) /\ Len(SubSeq(s, 1, n)) = n
      /\ \A i \in 1 .. n : SubSeq(s, 1, n)[i] = s[i]
  BY <1>1
<1> QED BY <1>1, <1>2, <1>3 DEF TopOnly

LEMMA Retopped ==
  ASSUME NEW s \in Seq(Activities), s # <<>>, NEW a \in Activities
  PROVE  \E n \in Nat : /\ Len(s) = n + 1 /\ Last(s) = s[n + 1] /\ s[n + 1] \in Activities
                        /\ TopOnly(Append(Front(s), a), s, n)
                        /\ Len(Append(Front(s), a)) = n + 1 /\ Append(Front(s), a)[n + 1] = a
<1>1. PICK n \in Nat : /\ Len(s) = n + 1 /\ Last(s) = s[n + 1] /\ s[n + 1] \in Activities
                       /\ Front(s) \in Seq(Activities) /\ Len(Front(s)) = n
                       /\ \A i \in 1 .. n : Front(s)[i] = s[i]
  BY Shrunk
<1>2. PICK f \in Seq(Activities) : f = Front(s)
  BY <1>1
<1>3. /\ Append(f, a) \in Seq(Activities) /\ Len(Append(f, a)) = n + 1 /\ Append(f, a)[n + 1] = a
      /\ \A i \in 1 .. n : Append(f, a)[i] = s[i]
  BY <1>1, <1>2
<1> QED BY <1>1, <1>2, <1>3 DEF TopOnly

LEMMA StackKept ==
  ASSUME NEW s \in Seq(Activities), NEW t, NEW n, NEW re, NEW re2, NEW st, NEW st2,
         StackIs(s, re, st), TopOnly(t, s, n),
         Len(t) = n + 1 /\ RunsAlone(t[n + 1]) => NoneOpen(s, n),
         Len(t) = n + 1 /\ IsFrame(t[n + 1]) => EnteredAt(t[n + 1], s, n),
         st2 = TRUE <=> HitAt(t, Len(t)),
         NoneOpen(t, Len(t)) => re2 = 0
  PROVE  StackIs(t, re2, st2)
<1>1. n \in Nat /\ Len(s) \in Nat /\ Len(t) \in Nat
  BY TopIs
<1>2. \A i \in 1 .. Len(t) : i \in 1 .. n \/ (i = n + 1 /\ Len(t) = n + 1)
  BY TopIs
<1>3. \A i \in 1 .. n : i \in 1 .. Len(s) /\ t[i] = s[i]
  BY TopIs
<1>4. \A i \in 1 .. n + 1 : (NoneOpen(t, i - 1) <=> NoneOpen(s, i - 1)) /\ (HitAt(t, i - 1) <=> HitAt(s, i - 1))
  BY <1>1, <1>3 DEF NoneOpen, HitAt
<1>5. \A i \in 1 .. Len(t) : RunsAlone(t[i]) => NoneOpen(t, i - 1)
  <2> SUFFICES ASSUME NEW i \in 1 .. Len(t), RunsAlone(t[i]) PROVE NoneOpen(t, i - 1)
    OBVIOUS
  <2>1. CASE i \in 1 .. n
    BY <2>1, <1>1, <1>3, <1>4 DEF StackIs
  <2>2. CASE i = n + 1 /\ Len(t) = n + 1
    BY <2>2, <1>1, <1>4
  <2> QED BY <1>2, <2>1, <2>2
<1>6. \A i \in 1 .. Len(t) : IsFrame(t[i]) => EnteredAt(t[i], t, i - 1)
  <2> SUFFICES ASSUME NEW i \in 1 .. Len(t), IsFrame(t[i]) PROVE EnteredAt(t[i], t, i - 1)
    OBVIOUS
  <2>1. CASE i \in 1 .. n
    BY <2>1, <1>1, <1>3, <1>4 DEF StackIs, EnteredAt
  <2>2. CASE i = n + 1 /\ Len(t) = n + 1
    BY <2>2, <1>1, <1>4 DEF EnteredAt
  <2> QED BY <1>2, <2>1, <2>2
<1> QED BY <1>5, <1>6 DEF StackIs

\* What frames carry at the top is carried there before and after.
CarriesOn(t, s, n) ==
  /\ Len(t) = n + 1 /\ IsFrame(t[n + 1]) /\ t[n + 1].id # 0 =>
       Len(s) = n + 1 /\ IsFrame(s[n + 1]) /\ s[n + 1].id = t[n + 1].id /\ s[n + 1].lib = t[n + 1].lib
  /\ Len(s) = n + 1 /\ IsFrame(s[n + 1]) /\ s[n + 1].id # 0 =>
       Len(t) = n + 1 /\ IsFrame(t[n + 1]) /\ s[n + 1].id = t[n + 1].id /\ s[n + 1].lib = t[n + 1].lib

LEMMA CarriedKept ==
  ASSUME NEW s \in Seq(Activities), NEW t, NEW n, TopOnly(t, s, n), CarriesOn(t, s, n)
  PROVE  /\ \A g : ToAnswer(t, g) <=> ToAnswer(s, g)
         /\ \A i \in 1 .. Len(t) : IsFrame(t[i]) /\ t[i].id # 0 =>
              i \in 1 .. Len(s) /\ IsFrame(s[i]) /\ s[i].id = t[i].id
<1>1. \A i \in 1 .. Len(s) : i \in 1 .. n \/ (i = n + 1 /\ Len(s) = n + 1)
  BY TopIs
<1>2. \A i \in 1 .. n : i \in 1 .. Len(s) /\ i \in 1 .. Len(t) /\ t[i] = s[i]
  BY TopIs
<1>3. n + 1 \in 1 .. n + 1
  BY TopIs
<1>4. \A i \in 1 .. Len(t) : IsFrame(t[i]) /\ t[i].id # 0 =>
        i \in 1 .. Len(s) /\ IsFrame(s[i]) /\ s[i].id = t[i].id /\ s[i].lib = t[i].lib
  BY TopIs, <1>2, <1>3 DEF CarriesOn
<1>5. ASSUME NEW g PROVE ToAnswer(t, g) <=> ToAnswer(s, g)
  BY <1>4, <1>1, <1>2, <1>3 DEF ToAnswer, CarriesOn
<1> QED BY <1>4, <1>5

LEMMA ServedKept ==
  ASSUME NEW s \in Seq(Activities), NEW t, NEW n, NEW ld, NEW ob \in SUBSET (Scripts \X Nat), NEW ns, NEW hh,
         NEW lr, NEW lr2, ServedFits(s, ld, ob, ns, hh, lr), TopOnly(t, s, n), CarriesOn(t, s, n),
         Len(t) = n + 1 /\ IsFrame(t[n + 1]) => FrameFits(t[n + 1], ld, ob, ns, hh),
         \A g \in Scripts \X Nat : WaitsLate(t, lr2, g) => WaitsLate(s, lr, g),
         \A g \in ob : WaitsLate(s, lr, g) => WaitsLate(t, lr2, g)
  PROVE  ServedFits(t, ld, ob, ns, hh, lr2)
<1>1. n \in Nat /\ Len(s) \in Nat /\ Len(t) \in Nat
  BY TopIs
<1>2. \A i \in 1 .. Len(t) : i \in 1 .. n \/ (i = n + 1 /\ Len(t) = n + 1)
  BY TopIs
<1>3. /\ \A g : ToAnswer(t, g) <=> ToAnswer(s, g)
      /\ \A i \in 1 .. Len(t) : IsFrame(t[i]) /\ t[i].id # 0 =>
           i \in 1 .. Len(s) /\ IsFrame(s[i]) /\ s[i].id = t[i].id
  BY CarriedKept
<1>4. \A i \in 1 .. Len(t) : IsFrame(t[i]) => FrameFits(t[i], ld, ob, ns, hh)
  <2> SUFFICES ASSUME NEW i \in 1 .. Len(t), IsFrame(t[i]) PROVE FrameFits(t[i], ld, ob, ns, hh)
    OBVIOUS
  <2>1. CASE i \in 1 .. n
    BY <2>1, TopIs DEF ServedFits
  <2>2. CASE i = n + 1 /\ Len(t) = n + 1
    BY <2>2
  <2> QED BY <1>2, <2>1, <2>2
<1>5. \A i, j \in 1 .. Len(t) :
        IsFrame(t[i]) /\ IsFrame(t[j]) /\ t[i].id # 0 /\ t[i].id = t[j].id => i = j
  BY <1>3 DEF ServedFits
<1>6. \A g \in Scripts \X Nat : WaitsLate(t, lr2, g) => g[2] <= ns /\ g \notin hh /\ ~ToAnswer(t, g)
  BY <1>3 DEF ServedFits
<1>7. \A g \in ob : g[2] \in 1 .. ns /\ (g \in hh \/ WaitsLate(t, lr2, g) \/ ToAnswer(t, g))
  BY <1>3 DEF ServedFits
<1> QED BY <1>4, <1>5, <1>6, <1>7 DEF ServedFits

\* What holds an object at the top holds it before and after, where it is needed.
MindsOn(t, s, n, wh) ==
  \A o \in HostObjects :
    /\ wh[o] \in {"out", "dying"} /\ Len(s) = n + 1 /\ HoldsIn(s[n + 1], o) =>
         Len(t) = n + 1 /\ HoldsIn(t[n + 1], o)
    /\ Len(t) = n + 1 /\ HoldsIn(t[n + 1], o) =>
         Len(s) = n + 1 /\ HoldsIn(s[n + 1], o) /\ PlaceIn(s[n + 1]) = PlaceIn(t[n + 1])

\* An activity a collection comes after.
Collecting(a) == IF IsFrame(a) THEN a.does = "close" ELSE a.collect = TRUE

LEMMA DueKept ==
  ASSUME NEW s \in Seq(Activities), NEW t, NEW n, NEW cd, NEW cd2, TopOnly(t, s, n), CollectionDue(s, cd),
         cd = TRUE => cd2 = TRUE \/ (Len(t) = n + 1 /\ Collecting(t[n + 1])),
         Len(s) = n + 1 /\ Collecting(s[n + 1]) => cd2 = TRUE \/ (Len(t) = n + 1 /\ Collecting(t[n + 1]))
  PROVE  CollectionDue(t, cd2)
<1>1. n \in Nat /\ Len(s) \in Nat /\ Len(t) \in Nat /\ n + 1 \in 1 .. n + 1
  BY TopIs
<1>2. CASE cd2 = TRUE \/ (Len(t) = n + 1 /\ Collecting(t[n + 1]))
  BY <1>1, <1>2 DEF CollectionDue, Collecting
<1>3. CASE \E i \in 1 .. n : Collecting(s[i])
  <2>1. PICK i \in 1 .. n : Collecting(s[i])
    BY <1>3
  <2> QED BY <1>1, <2>1, TopIs DEF CollectionDue, Collecting
<1>4. \A i \in 1 .. Len(s) : i \in 1 .. n \/ (i = n + 1 /\ Len(s) = n + 1)
  BY TopIs
<1> QED BY <1>2, <1>3, <1>4 DEF CollectionDue, Collecting

LEMMA HostKept ==
  ASSUME NEW s \in Seq(Activities), NEW t, NEW n, NEW ld, NEW gy, NEW cd, NEW cd2, NEW wh, NEW ow, NEW lg,
         HostFits(s, ld, gy, cd, wh, ow, lg), TopOnly(t, s, n), MindsOn(t, s, n, wh),
         \/ CollectionDue(s, cd) => CollectionDue(t, cd2)
         \/ \A o \in HostObjects : wh[o] \in {"handle", "out"} => ld[ow[o]] # "closed"
  PROVE  HostFits(t, ld, gy, cd2, wh, ow, lg)
<1>1. n \in Nat /\ Len(s) \in Nat /\ Len(t) \in Nat /\ n + 1 \in 1 .. n + 1
  BY TopIs
<1>2. ASSUME NEW o \in HostObjects PROVE ObjectFits(t, ld, gy, cd2, wh, ow, lg, o)
  <2>1. ObjectFits(s, ld, gy, cd, wh, ow, lg, o)
    BY DEF HostFits
  <2>2. wh[o] \in {"out", "dying"} => \E i \in 1 .. Len(t) : HoldsIn(t[i], o)
    <3> SUFFICES ASSUME wh[o] \in {"out", "dying"} PROVE \E i \in 1 .. Len(t) : HoldsIn(t[i], o)
      OBVIOUS
    <3>1. PICK i \in 1 .. Len(s) : HoldsIn(s[i], o)
      BY <2>1 DEF ObjectFits
    <3> QED BY <1>1, TopIs, <3>1 DEF MindsOn
  <2> QED BY <2>1, <2>2 DEF ObjectFits
<1>3. ASSUME NEW o \in HostObjects, NEW i \in 1 .. Len(t), HoldsIn(t[i], o)
      PROVE  i \in 1 .. Len(s) /\ HoldsIn(s[i], o) /\ PlaceIn(s[i]) = PlaceIn(t[i])
  <2>1. CASE i \in 1 .. n
    BY <1>3, <2>1, TopIs
  <2>2. CASE i = n + 1 /\ Len(t) = n + 1
    BY <1>1, <1>3, <2>2 DEF MindsOn
  <2> QED BY TopIs, <2>1, <2>2
<1>4. \A o \in HostObjects : \A i \in 1 .. Len(t) : HoldsIn(t[i], o) => wh[o] = PlaceIn(t[i])
  BY <1>3 DEF HostFits
<1>5. \A o \in HostObjects : \A i, j \in 1 .. Len(t) : HoldsIn(t[i], o) /\ HoldsIn(t[j], o) => i = j
  BY <1>3 DEF HostFits
<1> QED BY <1>2, <1>4, <1>5 DEF HostFits

Put(wh, o, p) == [wh EXCEPT ![o] = p]

\* One object is taken by the activity on top, or let go of by it.
LEMMA HostMoves ==
  ASSUME NEW s \in Seq(Activities), NEW t, NEW n, NEW ld, NEW gy, NEW gy2, NEW cd,
         NEW wh \in [HostObjects -> ScriptPlaces], NEW ow, NEW lg,
         HostFits(s, ld, gy, cd, wh, ow, lg), TopOnly(t, s, n), Len(s) = n + 1, Len(t) = n + 1,
         NEW o \in HostObjects, NEW p \in ScriptPlaces,
         IsFrame(t[n + 1]) <=> IsFrame(s[n + 1]), Collecting(s[n + 1]) => Collecting(t[n + 1]),
         \A x \in HostObjects : x # o => (HoldsIn(t[n + 1], x) <=> HoldsIn(s[n + 1], x)) /\ (x \in gy2 <=> x \in gy),
         \A i \in 1 .. n : ~HoldsIn(s[i], o),
         HoldsIn(t[n + 1], o) => p = PlaceIn(t[n + 1]),
         ObjectFits(t, ld, gy2, cd, Put(wh, o, p), ow, lg, o)
  PROVE  HostFits(t, ld, gy2, cd, Put(wh, o, p), ow, lg)
<1>1. \A i \in 1 .. n + 1 : i \in 1 .. n \/ i = n + 1
  BY TopIs
<1>2. \A i \in 1 .. n : i \in 1 .. Len(t) /\ i \in 1 .. Len(s) /\ t[i] = s[i]
  BY TopIs
<1>3. \A x \in HostObjects : x # o => Put(wh, o, p)[x] = wh[x]
  BY DEF Put
<1>4. Put(wh, o, p)[o] = p
  BY DEF Put
<1>5. \A x \in HostObjects : x # o => \A i \in 1 .. Len(t) : HoldsIn(t[i], x) <=> HoldsIn(s[i], x)
  BY <1>1, <1>2
<1>6. ASSUME NEW x \in HostObjects PROVE ObjectFits(t, ld, gy2, cd, Put(wh, o, p), ow, lg, x)
  <2>1. CASE x = o
    BY <2>1
  <2>2. CASE x # o
    <3>1. ObjectFits(s, ld, gy, cd, wh, ow, lg, x)
      BY DEF HostFits
    <3>2. CollectionDue(s, cd) => CollectionDue(t, cd)
      BY DueKept
    <3>3. (\E i \in 1 .. Len(s) : HoldsIn(s[i], x)) => \E i \in 1 .. Len(t) : HoldsIn(t[i], x)
      BY <1>5, <2>2
    <3>4. Put(wh, o, p)[x] = wh[x] /\ (x \in gy2 <=> x \in gy)
      BY <1>3, <2>2
    <3> QED BY <3>1, <3>2, <3>3, <3>4 DEF ObjectFits
  <2> QED BY <2>1, <2>2
<1>a. ASSUME NEW x \in HostObjects, NEW i \in 1 .. Len(t), HoldsIn(t[i], x)
      PROVE  Put(wh, o, p)[x] = PlaceIn(t[i])
  <2>1. CASE x = o
    BY <1>4, <1>a, <2>1, <1>1, <1>2
  <2>2. CASE x # o
    BY <1>3, <1>5, <1>1, <1>2, <1>a, <2>2 DEF HostFits, PlaceIn
  <2> QED BY <2>1, <2>2
<1>b. ASSUME NEW x \in HostObjects, NEW i \in 1 .. Len(t), NEW j \in 1 .. Len(t), HoldsIn(t[i], x), HoldsIn(t[j], x)
      PROVE  i = j
  <2>1. CASE x = o
    BY <1>1, <1>2, <1>b, <2>1
  <2>2. CASE x # o
    BY <1>5, <1>b, <2>2 DEF HostFits
  <2> QED BY <2>1, <2>2
<1> QED BY <1>6, <1>a, <1>b DEF HostFits

LEMMA TopEither ==
  ASSUME NEW s \in Seq(Activities), NEW t, NEW n, TopOnly(t, s, n)
  PROVE  t \in Seq(Activities) /\ TopOnly(s, t, n)
BY DEF TopOnly

LEMMA LateFrom ==
  ASSUME NEW s \in Seq(Activities), NEW t, NEW n, NEW lr, NEW lr2, NEW g, TopOnly(t, s, n),
         \A k \in 1 .. Len(lr2) : lr2[k] = g => WaitsLate(s, lr, g),
         Len(t) = n + 1 /\ ~IsFrame(t[n + 1]) =>
           \A k \in 1 .. Len(t[n + 1].late) : t[n + 1].late[k] = g => WaitsLate(s, lr, g),
         WaitsLate(t, lr2, g)
  PROVE  WaitsLate(s, lr, g)
<1>1. CASE \E k \in 1 .. Len(lr2) : lr2[k] = g
  BY <1>1
<1>2. ASSUME NEW i \in 1 .. Len(t), ~IsFrame(t[i]), NEW k \in 1 .. Len(t[i].late), t[i].late[k] = g
      PROVE  WaitsLate(s, lr, g)
  <2>1. CASE i \in 1 .. n
    <3>1. i \in 1 .. Len(s) /\ t[i] = s[i]
      BY <2>1, TopIs
    <3> QED BY <1>2, <3>1 DEF WaitsLate
  <2>2. CASE i = n + 1 /\ Len(t) = n + 1
    BY <1>2, <2>2
  <2> QED BY <2>1, <2>2, TopIs
<1> QED BY <1>1, <1>2 DEF WaitsLate

\* A frame is entered on top.
LEMMA PushesFrame ==
  ASSUME ScriptAssumption, NEW s, NEW ld, NEW ob, NEW ns, NEW hh, NEW lr, NEW gy, NEW cd, NEW re, NEW st, NEW wh, NEW ow, NEW lg,
         ScriptIs(s, ld, ob, ns, hh, lr, gy, cd, re, st, wh, ow, lg),
         NEW a \in ScriptFrames, a.id = 0, a.hit = FALSE, a.outer = st, a.out = NoObject, a.looped = TRUE => Len(s) # 0,
         a.does = "open" => ld[a.lib] = "opening", a.does = "call" => ld[a.lib] \in {"open", "closed"},
         RunsAlone(a) => NoneOpen(s, Len(s))
  PROVE  ScriptIs(Append(s, a), ld, ob, ns, hh, lr, gy, cd, re, FALSE, wh, ow, lg)
<1>1. s \in Seq(Activities) /\ a \in Activities /\ IsFrame(a) /\ ob \in SUBSET (Scripts \X Nat)
  BY DEF ScriptIs, ScriptTyped, Activities, ScriptFrames, IsFrame
<1>2. PICK t : t = Append(s, a)
  OBVIOUS
<1>3. PICK n : n = Len(s)
  OBVIOUS
<1>4. t \in Seq(Activities) /\ TopOnly(t, s, n) /\ Len(t) = n + 1 /\ t[n + 1] = a /\ n \in Nat
  BY <1>1, <1>2, <1>3, Grown
<1>5. StackIs(t, re, FALSE)
  <2>1. EnteredAt(a, s, n)
    BY <1>3, <1>4 DEF ScriptIs, StackIs, EnteredAt
  <2>2. ~HitAt(t, Len(t))
    BY <1>4 DEF HitAt
  <2>3. ~NoneOpen(t, Len(t))
    BY <1>1, <1>4 DEF NoneOpen
  <2>4. StackIs(s, re, st)
    BY DEF ScriptIs
  <2> QED BY <1>1, <1>3, <1>4, <2>1, <2>2, <2>3, <2>4, StackKept
<1>6. ServedFits(t, ld, ob, ns, hh, lr)
  <2>1. CarriesOn(t, s, n)
    BY <1>3, <1>4 DEF CarriesOn
  <2>2. FrameFits(a, ld, ob, ns, hh)
    BY DEF FrameFits
  <2>3. ASSUME NEW g, WaitsLate(t, lr, g) PROVE WaitsLate(s, lr, g)
    <3>1. \A k \in 1 .. Len(lr) : lr[k] = g => WaitsLate(s, lr, g)
      BY DEF WaitsLate
    <3> QED BY <1>1, <1>4, <2>3, <3>1, LateFrom
  <2>4. ASSUME NEW g, WaitsLate(s, lr, g) PROVE WaitsLate(t, lr, g)
    <3>1. \A k \in 1 .. Len(lr) : lr[k] = g => WaitsLate(t, lr, g)
      BY DEF WaitsLate
    <3> QED BY <1>4, <2>4, <1>1, <1>3, TopEither, <3>1, LateFrom
  <2>5. ServedFits(s, ld, ob, ns, hh, lr)
    BY DEF ScriptIs
  <2> QED BY <1>1, <1>4, <2>1, <2>2, <2>3, <2>4, <2>5, ServedKept
<1>7. HostFits(t, ld, gy, cd, wh, ow, lg)
  <2>1. MindsOn(t, s, n, wh)
    BY <1>1, <1>3, <1>4 DEF MindsOn, HoldsIn, ScriptAssumption
  <2>2. CollectionDue(s, cd) => CollectionDue(t, cd)
    <3>1. Len(s) # n + 1
      BY <1>3, <1>4
    <3> QED BY <1>1, <1>4, <3>1, DueKept
  <2>3. HostFits(s, ld, gy, cd, wh, ow, lg)
    BY DEF ScriptIs
  <2> QED BY <1>1, <1>4, <2>1, <2>2, <2>3, HostKept
<1>8. ScriptTyped(t, ld, ob, ns, hh, lr, gy, cd, re, FALSE, wh, ow, lg)
  BY <1>4 DEF ScriptIs, ScriptTyped
<1> QED BY <1>2, <1>5, <1>6, <1>7, <1>8 DEF ScriptIs

\* The objects of hosts, when what is on top changes and holds what it held.
LEMMA HostStays ==
  ASSUME NEW s, NEW ld, NEW ob, NEW ns, NEW hh, NEW lr, NEW gy, NEW cd, NEW re, NEW st, NEW wh, NEW ow, NEW lg,
         ScriptIs(s, ld, ob, ns, hh, lr, gy, cd, re, st, wh, ow, lg),
         s # <<>>, NEW a \in Activities, IsFrame(a) <=> IsFrame(Last(s)),
         \A o \in HostObjects : HoldsIn(a, o) <=> HoldsIn(Last(s), o),
         \/ Collecting(Last(s)) => Collecting(a)
         \/ \A o \in HostObjects : wh[o] \in {"handle", "out"} => ld[ow[o]] # "closed"
  PROVE  HostFits(Append(Front(s), a), ld, gy, cd, wh, ow, lg)
<1>1. s \in Seq(Activities) /\ HostFits(s, ld, gy, cd, wh, ow, lg)
  BY DEF ScriptIs, ScriptTyped
<1>2. PICK t : t = Append(Front(s), a)
  OBVIOUS
<1>3. PICK n \in Nat : /\ Len(s) = n + 1 /\ Last(s) = s[n + 1] /\ s[n + 1] \in Activities
                       /\ TopOnly(t, s, n) /\ Len(t) = n + 1 /\ t[n + 1] = a
  BY <1>1, <1>2, Retopped
<1>4. MindsOn(t, s, n, wh)
  BY <1>3 DEF MindsOn, PlaceIn
<1>5. ASSUME Collecting(Last(s)) => Collecting(a), CollectionDue(s, cd) PROVE CollectionDue(t, cd)
  BY <1>1, <1>3, <1>5, DueKept
<1> QED BY <1>1, <1>2, <1>3, <1>4, <1>5, HostKept

\* The frame on top goes on, or another takes its place.
LEMMA ChangesFrame ==
  ASSUME NEW s, NEW ld, NEW ob, NEW ns, NEW hh, NEW lr, NEW gy, NEW cd, NEW re, NEW st, NEW wh, NEW ow, NEW lg,
         ScriptIs(s, ld, ob, ns, hh, lr, gy, cd, re, st, wh, ow, lg),
         s # <<>>, IsFrame(Last(s)), NEW a \in ScriptFrames, NEW re2 \in Nat,
         a.outer = Last(s).outer, a.looped = TRUE => Last(s).looped = TRUE, a.id = Last(s).id, a.lib = Last(s).lib, FrameFits(a, ld, ob, ns, hh),
         Last(s).does = "close" => a.does = "close",
         RunsAlone(a) => RunsAlone(Last(s)) \/ NoneOpen(s, Len(s) - 1),
         NEW gy2 \in SUBSET HostObjects, NEW wh2 \in [HostObjects -> ScriptPlaces],
         HostFits(Append(Front(s), a), ld, gy2, cd, wh2, ow, lg)
  PROVE  ScriptIs(Append(Front(s), a), ld, ob, ns, hh, lr, gy2, cd, re2, a.hit, wh2, ow, lg)
<1>1. s \in Seq(Activities) /\ a \in Activities /\ IsFrame(a) /\ ob \in SUBSET (Scripts \X Nat)
  BY DEF ScriptIs, ScriptTyped, Activities, ScriptFrames, IsFrame
<1>2. PICK t : t = Append(Front(s), a)
  OBVIOUS
<1>3. PICK n \in Nat : /\ Len(s) = n + 1 /\ Last(s) = s[n + 1] /\ s[n + 1] \in Activities
                       /\ TopOnly(t, s, n) /\ Len(t) = n + 1 /\ t[n + 1] = a
  BY <1>1, <1>2, Retopped
<1>4. t \in Seq(Activities) /\ n + 1 \in 1 .. Len(s) /\ n + 1 \in 1 .. Len(t) /\ (n + 1) - 1 = n /\ Len(s) - 1 = n
  BY <1>3 DEF TopOnly
<1>5. StackIs(t, re2, a.hit)
  <2>1. StackIs(s, re, st)
    BY DEF ScriptIs
  <2>2. EnteredAt(a, s, n)
    BY <1>3, <1>4, <2>1 DEF StackIs, EnteredAt
  <2>3. a.hit = TRUE <=> HitAt(t, Len(t))
    BY <1>1, <1>3 DEF HitAt
  <2>4. ~NoneOpen(t, Len(t))
    BY <1>1, <1>3, <1>4 DEF NoneOpen
  <2>5. RunsAlone(a) => NoneOpen(s, n)
    BY <1>3, <1>4, <2>1 DEF StackIs
  <2> QED BY <1>1, <1>3, <2>1, <2>2, <2>3, <2>4, <2>5, StackKept
<1>6. ServedFits(t, ld, ob, ns, hh, lr)
  <2>1. CarriesOn(t, s, n)
    BY <1>1, <1>3 DEF CarriesOn
  <2>2. ASSUME NEW g, WaitsLate(t, lr, g) PROVE WaitsLate(s, lr, g)
    <3>1. \A k \in 1 .. Len(lr) : lr[k] = g => WaitsLate(s, lr, g)
      BY DEF WaitsLate
    <3> QED BY <1>1, <1>3, <2>2, <3>1, LateFrom
  <2>3. ASSUME NEW g, WaitsLate(s, lr, g) PROVE WaitsLate(t, lr, g)
    <3>1. \A k \in 1 .. Len(lr) : lr[k] = g => WaitsLate(t, lr, g)
      BY DEF WaitsLate
    <3> QED BY <1>3, <1>4, <2>3, <1>1, TopEither, <3>1, LateFrom
  <2>4. ServedFits(s, ld, ob, ns, hh, lr)
    BY DEF ScriptIs
  <2> QED BY <1>1, <1>3, <2>1, <2>2, <2>3, <2>4, ServedKept
<1>7. HostFits(t, ld, gy2, cd, wh2, ow, lg)
  BY <1>2
<1>8. ScriptTyped(t, ld, ob, ns, hh, lr, gy2, cd, re2, a.hit, wh2, ow, lg)
  BY <1>4 DEF ScriptIs, ScriptTyped, ScriptFrames
<1> QED BY <1>2, <1>5, <1>6, <1>7, <1>8 DEF ScriptIs

\* A frame that answers nothing any more, and has nothing out, closes.
LEMMA PopsFrame ==
  ASSUME ScriptAssumption,
         NEW s, NEW ld, NEW ob, NEW ns, NEW hh, NEW lr, NEW gy, NEW cd, NEW re, NEW st, NEW wh, NEW ow, NEW lg,
         ScriptIs(s, ld, ob, ns, hh, lr, gy, cd, re, st, wh, ow, lg),
         s # <<>>, IsFrame(Last(s)), Last(s).id = 0, Last(s).out = NoObject,
         NEW cd2 \in BOOLEAN, cd2 = TRUE \/ (cd2 = cd /\ Last(s).does # "close"),
         NoneOpen(s, Len(s) - 1) => re = 0
  PROVE  ScriptIs(Front(s), ld, ob, ns, hh, lr, gy, cd2, re, Last(s).outer, wh, ow, lg)
<1>1. s \in Seq(Activities) /\ ob \in SUBSET (Scripts \X Nat)
  BY DEF ScriptIs, ScriptTyped
<1>2. PICK t : t = Front(s)
  OBVIOUS
<1>3. PICK n \in Nat : /\ Len(s) = n + 1 /\ Last(s) = s[n + 1] /\ s[n + 1] \in Activities
                       /\ TopOnly(t, s, n) /\ Len(t) = n /\ t \in Seq(Activities)
                       /\ \A i \in 1 .. n : t[i] = s[i]
  BY <1>1, <1>2, Shrunk
<1>4. n + 1 \in 1 .. Len(s) /\ Len(s) - 1 = n /\ (n + 1) - 1 = n /\ Len(t) # n + 1
  BY <1>3
<1>5. StackIs(t, re, Last(s).outer)
  <2>1. StackIs(s, re, st)
    BY DEF ScriptIs
  <2>2. Last(s).outer = TRUE <=> HitAt(t, Len(t))
    BY <1>3, <1>4, <2>1 DEF StackIs, EnteredAt, HitAt
  <2>3. NoneOpen(t, Len(t)) => re = 0
    BY <1>3, <1>4 DEF NoneOpen
  <2> QED BY <1>1, <1>3, <1>4, <2>1, <2>2, <2>3, StackKept
<1>6. ServedFits(t, ld, ob, ns, hh, lr)
  <2>1. CarriesOn(t, s, n)
    BY <1>3, <1>4 DEF CarriesOn
  <2>2. ASSUME NEW g, WaitsLate(t, lr, g) PROVE WaitsLate(s, lr, g)
    BY <1>1, <1>3, <1>4, <2>2, LateFrom DEF WaitsLate
  <2>3. ASSUME NEW g, WaitsLate(s, lr, g) PROVE WaitsLate(t, lr, g)
    BY <1>3, <1>4, <2>3, <1>1, TopEither, LateFrom DEF WaitsLate
  <2>4. ServedFits(s, ld, ob, ns, hh, lr)
    BY DEF ScriptIs
  <2> QED BY <1>1, <1>3, <1>4, <2>1, <2>2, <2>3, <2>4, ServedKept
<1>7. HostFits(t, ld, gy, cd2, wh, ow, lg)
  <2>1. MindsOn(t, s, n, wh)
    BY <1>3, <1>4 DEF MindsOn, HoldsIn, ScriptAssumption
  <2>2. CollectionDue(s, cd) => CollectionDue(t, cd2)
    BY <1>1, <1>3, DueKept DEF Collecting
  <2>3. HostFits(s, ld, gy, cd, wh, ow, lg)
    BY DEF ScriptIs
  <2> QED BY <1>1, <1>3, <2>1, <2>2, <2>3, HostKept
<1>8. ScriptTyped(t, ld, ob, ns, hh, lr, gy, cd2, re, Last(s).outer, wh, ow, lg)
  BY <1>3, ActivityIs DEF ScriptIs, ScriptTyped, ScriptFrames
<1> QED BY <1>2, <1>5, <1>6, <1>7, <1>8 DEF ScriptIs

\* What settling has done is struck off: objects of hosts that are dying no
\* more, a release whose object is kept no more, a collection that left nothing.
LEMMA ChangesSettle ==
  ASSUME NEW s, NEW ld, NEW ob, NEW ns, NEW hh, NEW lr, NEW gy, NEW cd, NEW re, NEW st, NEW wh, NEW ow, NEW lg,
         ScriptIs(s, ld, ob, ns, hh, lr, gy, cd, re, st, wh, ow, lg),
         s # <<>>, ~IsFrame(Last(s)), NEW a \in ScriptSettles,
         \A k \in 1 .. Len(a.late) : \E m \in 1 .. Len(Last(s).late) : a.late[k] = Last(s).late[m],
         \A m \in 1 .. Len(Last(s).late) :
           Last(s).late[m] \notin ob \/ \E k \in 1 .. Len(a.late) : a.late[k] = Last(s).late[m],
         NEW wh2 \in [HostObjects -> ScriptPlaces], HostFits(Append(Front(s), a), ld, gy, cd, wh2, ow, lg)
  PROVE  ScriptIs(Append(Front(s), a), ld, ob, ns, hh, lr, gy, cd, re, st, wh2, ow, lg)
<1>1. s \in Seq(Activities) /\ a \in Activities /\ ~IsFrame(a) /\ ob \in SUBSET (Scripts \X Nat)
  BY DEF ScriptIs, ScriptTyped, Activities, ScriptSettles, IsFrame
<1>2. PICK t : t = Append(Front(s), a)
  OBVIOUS
<1>3. PICK n \in Nat : /\ Len(s) = n + 1 /\ Last(s) = s[n + 1] /\ s[n + 1] \in Activities
                       /\ TopOnly(t, s, n) /\ Len(t) = n + 1 /\ t[n + 1] = a
  BY <1>1, <1>2, Retopped
<1>4. t \in Seq(Activities) /\ n + 1 \in 1 .. Len(s) /\ n + 1 \in 1 .. Len(t) /\ (n + 1) - 1 = n
  BY <1>3 DEF TopOnly
<1>5. StackIs(t, re, st)
  <2>1. StackIs(s, re, st)
    BY DEF ScriptIs
  <2>2. NoneOpen(s, n)
    BY <1>3, <1>4, <2>1 DEF StackIs, RunsAlone
  <2>3. st = TRUE <=> HitAt(t, Len(t))
    BY <2>1, <1>1, <1>3 DEF StackIs, HitAt
  <2>4. re = 0
    BY <2>1, <1>3, <2>2 DEF StackIs, NoneOpen
  <2> QED BY <1>1, <1>3, <2>1, <2>2, <2>3, <2>4, StackKept
<1>6. ServedFits(t, ld, ob, ns, hh, lr)
  <2>1. CarriesOn(t, s, n)
    BY <1>1, <1>3 DEF CarriesOn
  <2>2. ASSUME NEW m \in 1 .. Len(s[n + 1].late) PROVE WaitsLate(s, lr, s[n + 1].late[m])
    BY <1>3, <1>4 DEF WaitsLate
  <2>3. ASSUME NEW g, WaitsLate(t, lr, g) PROVE WaitsLate(s, lr, g)
    <3>1. \A k \in 1 .. Len(lr) : lr[k] = g => WaitsLate(s, lr, g)
      BY DEF WaitsLate
    <3> QED BY <1>1, <1>3, <2>3, <3>1, <2>2, LateFrom
  <2>4. ASSUME NEW g \in ob, WaitsLate(s, lr, g) PROVE WaitsLate(t, lr, g)
    <3>1. TopOnly(s, t, n)
      BY <1>1, <1>3, TopEither
    <3>2. \A k \in 1 .. Len(lr) : lr[k] = g => WaitsLate(t, lr, g)
      BY DEF WaitsLate
    <3>3. \A k \in 1 .. Len(a.late) : WaitsLate(t, lr, a.late[k])
      BY <1>1, <1>3, <1>4 DEF WaitsLate
    <3>4. \A k \in 1 .. Len(s[n + 1].late) : s[n + 1].late[k] = g => WaitsLate(t, lr, g)
      BY <1>3, <3>3
    <3> QED BY <1>3, <1>4, <2>4, <3>1, <3>2, <3>4, LateFrom
  <2>5. ServedFits(s, ld, ob, ns, hh, lr)
    BY DEF ScriptIs
  <2> QED BY <1>1, <1>3, <2>1, <2>3, <2>4, <2>5, ServedKept
<1>7. HostFits(t, ld, gy, cd, wh2, ow, lg)
  BY <1>2
<1>8. ScriptTyped(t, ld, ob, ns, hh, lr, gy, cd, re, st, wh2, ow, lg)
  BY <1>4 DEF ScriptIs, ScriptTyped
<1> QED BY <1>2, <1>5, <1>6, <1>7, <1>8 DEF ScriptIs

\* Settling ends, with nothing left of what it took.
LEMMA PopsSettle ==
  ASSUME NEW s, NEW ld, NEW ob, NEW ns, NEW hh, NEW lr, NEW gy, NEW cd, NEW re, NEW st, NEW wh, NEW ow, NEW lg,
         ScriptIs(s, ld, ob, ns, hh, lr, gy, cd, re, st, wh, ow, lg),
         s # <<>>, ~IsFrame(Last(s)), Last(s).dead = {}, Last(s).late = <<>>, Last(s).collect = FALSE
  PROVE  ScriptIs(Front(s), ld, ob, ns, hh, lr, gy, cd, re, st, wh, ow, lg) /\ NoneOpen(Front(s), Len(Front(s)))
<1>1. s \in Seq(Activities) /\ ob \in SUBSET (Scripts \X Nat)
  BY DEF ScriptIs, ScriptTyped
<1>2. PICK t : t = Front(s)
  OBVIOUS
<1>3. PICK n \in Nat : /\ Len(s) = n + 1 /\ Last(s) = s[n + 1] /\ s[n + 1] \in Activities
                       /\ TopOnly(t, s, n) /\ Len(t) = n /\ t \in Seq(Activities)
                       /\ \A i \in 1 .. n : t[i] = s[i]
  BY <1>1, <1>2, Shrunk
<1>4. n + 1 \in 1 .. Len(s) /\ Len(s) - 1 = n /\ (n + 1) - 1 = n /\ Len(t) # n + 1
  BY <1>3
<1>a. NoneOpen(s, n) /\ NoneOpen(t, n) /\ re = 0 /\ ~st
  <2>1. StackIs(s, re, st) /\ st \in BOOLEAN
    BY DEF ScriptIs, ScriptTyped
  <2>2. NoneOpen(s, n)
    BY <1>3, <1>4, <2>1 DEF StackIs, RunsAlone
  <2>3. NoneOpen(s, Len(s))
    BY <1>3, <2>2 DEF NoneOpen
  <2>4. ~HitAt(s, Len(s))
    BY <1>3 DEF HitAt
  <2>5. NoneOpen(t, n)
    BY <1>3, <2>2 DEF NoneOpen
  <2> QED BY <2>1, <2>2, <2>3, <2>4, <2>5 DEF StackIs
<1>5. StackIs(t, re, st)
  <2>1. st = TRUE <=> HitAt(t, Len(t))
    BY <1>a, <1>3 DEF HitAt, NoneOpen
  <2> QED BY <1>1, <1>3, <1>4, <1>a, <2>1, StackKept DEF ScriptIs
<1>6. ServedFits(t, ld, ob, ns, hh, lr)
  <2>1. CarriesOn(t, s, n)
    BY <1>3, <1>4 DEF CarriesOn
  <2>2. ASSUME NEW g, WaitsLate(t, lr, g) PROVE WaitsLate(s, lr, g)
    BY <1>1, <1>3, <1>4, <2>2, LateFrom DEF WaitsLate
  <2>3. ASSUME NEW g, WaitsLate(s, lr, g) PROVE WaitsLate(t, lr, g)
    <3>1. TopOnly(s, t, n)
      BY <1>1, <1>3, TopEither
    <3>2. \A k \in 1 .. Len(lr) : lr[k] = g => WaitsLate(t, lr, g)
      BY DEF WaitsLate
    <3>3. ~\E k \in 1 .. Len(s[n + 1].late) : TRUE
      BY <1>3
    <3> QED BY <1>3, <1>4, <2>3, <3>1, <3>2, <3>3, LateFrom
  <2>4. ServedFits(s, ld, ob, ns, hh, lr)
    BY DEF ScriptIs
  <2> QED BY <1>1, <1>3, <1>4, <2>1, <2>2, <2>3, <2>4, ServedKept
<1>7. HostFits(t, ld, gy, cd, wh, ow, lg)
  <2>1. MindsOn(t, s, n, wh)
    BY <1>3, <1>4 DEF MindsOn, HoldsIn
  <2>2. CollectionDue(s, cd) => CollectionDue(t, cd)
    BY <1>1, <1>3, DueKept DEF Collecting
  <2>3. HostFits(s, ld, gy, cd, wh, ow, lg)
    BY DEF ScriptIs
  <2> QED BY <1>1, <1>3, <2>1, <2>2, <2>3, HostKept
<1>8. ScriptTyped(t, ld, ob, ns, hh, lr, gy, cd, re, st, wh, ow, lg)
  BY <1>3 DEF ScriptIs, ScriptTyped
<1> QED BY <1>2, <1>3, <1>5, <1>6, <1>7, <1>8, <1>a DEF ScriptIs

\* With no frame open settling takes all that waits.
SettleOf(gy, lr, cd) == [does |-> "settle", dead |-> gy, late |-> lr, collect |-> cd]
DyingOf(wh, gy) == [o \in HostObjects |-> IF o \in gy THEN "dying" ELSE wh[o]]

LEMMA PushesSettle ==
  ASSUME NEW s, NEW ld, NEW ob, NEW ns, NEW hh, NEW lr, NEW gy, NEW cd, NEW re, NEW st, NEW wh, NEW ow, NEW lg,
         ScriptIs(s, ld, ob, ns, hh, lr, gy, cd, re, st, wh, ow, lg), NoneOpen(s, Len(s))
  PROVE  ScriptIs(Append(s, SettleOf(gy, lr, cd)), ld, ob, ns, hh, <<>>, {}, FALSE, re, st, DyingOf(wh, gy), ow, lg)
<1> PICK a : a = SettleOf(gy, lr, cd)
  OBVIOUS
<1> PICK wh2 : wh2 = DyingOf(wh, gy)
  OBVIOUS
<1> USE DEF SettleOf, DyingOf
<1>1. s \in Seq(Activities) /\ a \in Activities /\ ~IsFrame(a) /\ ob \in SUBSET (Scripts \X Nat)
  BY DEF ScriptIs, ScriptTyped, Activities, ScriptSettles, IsFrame
<1>2. PICK t : t = Append(s, a)
  OBVIOUS
<1>3. PICK n : n = Len(s)
  OBVIOUS
<1>4. t \in Seq(Activities) /\ TopOnly(t, s, n) /\ Len(t) = n + 1 /\ t[n + 1] = a /\ n \in Nat
  BY <1>1, <1>2, <1>3, Grown
<1>b. n + 1 \in 1 .. Len(t) /\ Len(s) # n + 1
  BY <1>3, <1>4
<1>5. StackIs(t, re, st)
  <2>1. StackIs(s, re, st)
    BY DEF ScriptIs
  <2>2. ~HitAt(s, Len(s)) /\ ~HitAt(t, Len(t))
    BY <1>1, <1>3, <1>4 DEF HitAt, NoneOpen
  <2>3. (st = TRUE <=> HitAt(t, Len(t))) /\ re = 0
    BY <2>1, <2>2 DEF StackIs
  <2> QED BY <1>1, <1>3, <1>4, <2>1, <2>3, StackKept
<1>6. ServedFits(t, ld, ob, ns, hh, <<>>)
  <2>1. CarriesOn(t, s, n)
    BY <1>1, <1>4, <1>b DEF CarriesOn
  <2>2. ASSUME NEW g, WaitsLate(t, <<>>, g) PROVE WaitsLate(s, lr, g)
    <3>1. \A k \in 1 .. Len(a.late) : a.late[k] = g => WaitsLate(s, lr, g)
      BY DEF WaitsLate
    <3> QED BY <1>1, <1>4, <2>2, <3>1, LateFrom
  <2>3. ASSUME NEW g, WaitsLate(s, lr, g) PROVE WaitsLate(t, <<>>, g)
    <3>1. \A k \in 1 .. Len(lr) : lr[k] = g => WaitsLate(t, <<>>, g)
      BY <1>1, <1>4, <1>b DEF WaitsLate
    <3> QED BY <1>4, <1>b, <2>3, <1>1, TopEither, <3>1, LateFrom
  <2>4. ServedFits(s, ld, ob, ns, hh, lr)
    BY DEF ScriptIs
  <2> QED BY <1>1, <1>4, <2>1, <2>2, <2>3, <2>4, ServedKept
<1>7. HostFits(t, ld, {}, FALSE, wh2, ow, lg)
  <2>1. HostFits(s, ld, gy, cd, wh, ow, lg)
    BY DEF ScriptIs
  <2>2. CollectionDue(s, cd) => CollectionDue(t, FALSE)
    <3>1. cd = TRUE => Collecting(t[n + 1])
      BY <1>1, <1>4 DEF Collecting
    <3> QED BY <1>1, <1>4, <1>b, <3>1, DueKept
  <2>3. \A i \in 1 .. Len(t) : i \in 1 .. n \/ i = n + 1
    BY <1>4
  <2>4. \A i \in 1 .. n : i \in 1 .. Len(t) /\ i \in 1 .. Len(s) /\ t[i] = s[i]
    BY <1>1, <1>4, TopIs
  <2>5. \A o \in HostObjects : (HoldsIn(t[n + 1], o) <=> o \in gy) /\ PlaceIn(t[n + 1]) = "dying"
    BY <1>1, <1>4 DEF HoldsIn, PlaceIn
  <2>6. ASSUME NEW o \in HostObjects, o \in gy
        PROVE  wh2[o] = "dying" /\ wh[o] = "grave" /\ \A i \in 1 .. n : ~HoldsIn(t[i], o)
    <3>1. wh[o] = "grave"
      BY <2>1, <2>6 DEF HostFits, ObjectFits
    <3>2. ASSUME NEW i \in 1 .. n, HoldsIn(s[i], o) PROVE FALSE
      BY <1>3, <2>1, <2>4, <3>1, <3>2 DEF HostFits, PlaceIn
    <3> QED BY <2>4, <2>6, <3>1, <3>2
  <2>7. ASSUME NEW o \in HostObjects, o \notin gy
        PROVE  wh2[o] = wh[o] /\ ~HoldsIn(t[n + 1], o)
    BY <2>5, <2>7
  <2>8. ASSUME NEW o \in HostObjects PROVE ObjectFits(t, ld, {}, FALSE, wh2, ow, lg, o)
    <3>1. CASE o \in gy
      BY <1>b, <2>5, <2>6, <3>1 DEF ObjectFits
    <3>2. CASE o \notin gy
      BY <2>2, <2>7, <3>2, <2>1, <1>3, <2>4 DEF ObjectFits, HostFits
    <3> QED BY <3>1, <3>2
  <2>9. ASSUME NEW o \in HostObjects, NEW i \in 1 .. Len(t), HoldsIn(t[i], o) PROVE wh2[o] = PlaceIn(t[i])
    <3>1. CASE i \in 1 .. n
      BY <2>4, <2>7, <3>1, <2>6, <2>9, <2>1 DEF HostFits
    <3>2. CASE i = n + 1
      BY <2>5, <2>6, <2>9, <3>2
    <3> QED BY <2>3, <3>1, <3>2
  <2>a. ASSUME NEW o \in HostObjects, NEW i \in 1 .. Len(t), NEW j \in 1 .. Len(t), HoldsIn(t[i], o), HoldsIn(t[j], o)
        PROVE  i = j
    <3>1. CASE o \in gy
      BY <2>3, <2>6, <2>a, <3>1
    <3>2. CASE o \notin gy
      BY <2>1, <2>4, <2>a, <2>3, <2>7, <3>2 DEF HostFits
    <3> QED BY <3>1, <3>2
  <2> QED BY <2>8, <2>9, <2>a DEF HostFits
<1>8. ScriptTyped(t, ld, ob, ns, hh, <<>>, {}, FALSE, re, st, wh2, ow, lg)
  BY <1>4 DEF ScriptIs, ScriptTyped, ScriptPlaces
<1> QED BY <1>2, <1>5, <1>6, <1>7, <1>8 DEF ScriptIs

LEMMA DepthIs ==
  ASSUME NEW s \in Seq(Activities)
  PROVE  /\ Depth(s) > 0 <=> ~NoneOpen(s, Len(s))
         /\ s # <<>> /\ IsFrame(Last(s)) => (Depth(s) = 1 <=> NoneOpen(s, Len(s) - 1))
<1>1. PICK p \in Nat : p = Len(s)
  OBVIOUS
<1>2. FramesIn(s) = {i \in 1 .. p : IsFrame(s[i])}
  BY <1>1 DEF FramesIn
<1>3. IsFiniteSet(FramesIn(s)) /\ Cardinality(FramesIn(s)) \in Nat
  <2>1. IsFiniteSet(1 .. p)
    BY <1>1, FS_Interval
  <2> QED BY <2>1, <1>2, FS_Subset, FS_CardinalityType
<1>4. Cardinality(FramesIn(s)) = 0 <=> FramesIn(s) = {}
  BY <1>3, FS_EmptySet
<1>5. FramesIn(s) = {} <=> NoneOpen(s, Len(s))
  BY <1>1, <1>2 DEF NoneOpen
<1>6. ASSUME s # <<>>, IsFrame(Last(s))
      PROVE  Depth(s) = 1 <=> NoneOpen(s, Len(s) - 1)
  <2>1. PICK n \in Nat : Len(s) = n + 1 /\ Last(s) = s[n + 1]
    BY <1>6, Shrunk
  <2>2. n + 1 \in FramesIn(s) /\ Len(s) - 1 = n /\ p = n + 1
    BY <1>1, <1>2, <1>6, <2>1
  <2>3. Cardinality(FramesIn(s)) = 1 <=> \E x : FramesIn(s) = {x}
    BY <1>3, FS_Singleton
  <2>4. ASSUME FramesIn(s) = {n + 1} PROVE NoneOpen(s, n)
    BY <1>2, <2>4, <2>2 DEF NoneOpen
  <2>5. ASSUME NoneOpen(s, n) PROVE FramesIn(s) = {n + 1}
    BY <1>2, <2>2, <2>5 DEF NoneOpen
  <2>6. (\E x : FramesIn(s) = {x}) <=> FramesIn(s) = {n + 1}
    BY <2>2
  <2> QED BY <2>2, <2>3, <2>4, <2>5, <2>6 DEF Depth
<1> QED BY <1>3, <1>4, <1>5, <1>6 DEF Depth

\* A turn of settling, on a stack without frames.
LEMMA TurnIs ==
  ASSUME NEW b, NEW ld, NEW ob, NEW ns, NEW hh, NEW re, NEW st, NEW ow, NEW lg, NEW due,
         ScriptIs(b, ld, ob, ns, hh, lateReleases, graveyard, due, re, st, where, ow, lg),
         NoneOpen(b, Len(b)), Turn(b, due)
  PROVE  /\ ScriptIs(stack', ld, ob, ns, hh, lateReleases', graveyard', collectDue', re, st, where', ow, lg)
         /\ SettledWhen(stack', lateReleases', graveyard', collectDue')
<1>1. /\ graveyard' = {} /\ lateReleases' = <<>> /\ collectDue' = FALSE
      /\ where' = [o \in HostObjects |-> IF o \in graveyard THEN "dying" ELSE where[o]]
  BY DEF Turn
<1>2. SettledWhen(stack', lateReleases', graveyard', collectDue')
  BY <1>1 DEF SettledWhen
<1>3. due \in BOOLEAN /\ where \in [HostObjects -> ScriptPlaces]
  BY DEF ScriptIs, ScriptTyped
<1>4. CASE graveyard # {} \/ lateReleases # <<>> \/ due
  <2>1. ScriptIs(Append(b, SettleOf(graveyard, lateReleases, due)), ld, ob, ns, hh, <<>>, {}, FALSE,
                 re, st, DyingOf(where, graveyard), ow, lg)
    BY PushesSettle
  <2>2. ScriptIs(stack', ld, ob, ns, hh, lateReleases', graveyard', collectDue', re, st, where', ow, lg)
    BY <1>1, <2>1, <1>4 DEF SettleOf, DyingOf, Turn
  <2> QED BY <1>2, <2>2
<1>5. CASE graveyard = {} /\ lateReleases = <<>> /\ due = FALSE
  <2>1. stack' = b
    BY <1>5 DEF Turn
  <2> QED BY <1>1, <1>2, <1>5, <2>1, <1>3
<1> QED BY <1>3, <1>4, <1>5

\* The engine is left, by an activity that ended on b.
LEMMA LeavesIs ==
  ASSUME NEW b, NEW ld, NEW ob, NEW ns, NEW hh, NEW re, NEW st, NEW ow, NEW lg, NEW due,
         ScriptIs(b, ld, ob, ns, hh, lateReleases, graveyard, due, re, st, where, ow, lg),
         LeavesEngine(b, due)
  PROVE  /\ ScriptIs(stack', ld, ob, ns, hh, lateReleases', graveyard', collectDue', re, st, where', ow, lg)
         /\ SettledWhen(stack', lateReleases', graveyard', collectDue')
<1>1. b \in Seq(Activities)
  BY DEF ScriptIs, ScriptTyped
<1>2. CASE Depth(b) > 0
  BY <1>2, <1>1, DepthIs DEF SettledWhen, LeavesEngine, NoneOpen
<1>3. CASE ~(Depth(b) > 0)
  <2>1. Turn(b, due)
    BY <1>3 DEF LeavesEngine
  <2>2. NoneOpen(b, Len(b))
    BY <1>1, <1>3, DepthIs
  <2> QED BY <2>1, <2>2, TurnIs
<1> QED BY <1>2, <1>3

\* What is known of the activity on top.
LEMMA TopNow ==
  ASSUME ScriptInv, stack # <<>>
  PROVE  /\ Top \in Activities /\ Top = Last(stack) /\ stack \in Seq(Activities)
         /\ IsFrame(Top) => /\ Top \in ScriptFrames
                            /\ FrameFits(Top, loaded, objects, nextServed, heldByHost)
                            /\ Drains <=> NoneOpen(stack, Len(stack) - 1)
                            /\ stop = Top.hit
                            /\ EnteredAt(Top, stack, Len(stack) - 1)
         /\ ~IsFrame(Top) => Top \in ScriptSettles /\ NoneOpen(stack, Len(stack))
         /\ RunsAlone(Top) => NoneOpen(stack, Len(stack) - 1)
         /\ Len(stack) \in 1 .. Len(stack) /\ stack[Len(stack)] = Top
<1>1. /\ stack \in Seq(Activities) /\ StackIs(stack, reactions, stop) /\ stop \in BOOLEAN
      /\ ServedFits(stack, loaded, objects, nextServed, heldByHost, lateReleases)
  BY DEF ScriptInv, ScriptIs, ScriptTyped
<1>2. PICK n \in Nat : Len(stack) = n + 1 /\ Last(stack) = stack[n + 1] /\ stack[n + 1] \in Activities
  BY <1>1, Shrunk
<1>3. PICK a \in Activities : a = Top
  BY <1>2 DEF Top
<1>4. n + 1 \in 1 .. Len(stack) /\ Len(stack) - 1 = n /\ (n + 1) - 1 = n /\ stack[n + 1] = a
  BY <1>2, <1>3 DEF Top
<1>5. RunsAlone(a) => NoneOpen(stack, n)
  BY <1>1, <1>4 DEF StackIs
<1>6. (IsFrame(a) => a \in ScriptFrames) /\ (~IsFrame(a) => a \in ScriptSettles)
  BY ActivityIs
<1>7. ASSUME IsFrame(a)
      PROVE  /\ FrameFits(a, loaded, objects, nextServed, heldByHost)
             /\ Drains <=> NoneOpen(stack, n)
             /\ stop = a.hit
             /\ EnteredAt(a, stack, n)
  <2>1. FrameFits(a, loaded, objects, nextServed, heldByHost)
    BY <1>1, <1>4, <1>7 DEF ServedFits
  <2>2. Drains <=> NoneOpen(stack, n)
    BY <1>1, <1>2, <1>4, <1>7, DepthIs DEF Drains
  <2>3. stop = a.hit
    <3>1. stop = TRUE <=> HitAt(stack, Len(stack))
      BY <1>1 DEF StackIs
    <3>2. HitAt(stack, Len(stack)) <=> a.hit = TRUE
      BY <1>2, <1>4, <1>7 DEF HitAt
    <3>3. a.hit \in BOOLEAN
      BY <1>6, <1>7 DEF ScriptFrames
    <3> QED BY <1>1, <3>1, <3>2, <3>3
  <2>4. EnteredAt(a, stack, n)
    BY <1>1, <1>4, <1>7 DEF StackIs
  <2> QED BY <2>1, <2>2, <2>3, <2>4
<1>8. ASSUME ~IsFrame(a) PROVE NoneOpen(stack, Len(stack))
  BY <1>2, <1>4, <1>8, <1>5 DEF NoneOpen, RunsAlone
<1> QED BY <1>1, <1>2, <1>3, <1>4, <1>5, <1>6, <1>7, <1>8

-----------------------------------------------------------------------------
\* Script: its actions.
EntryOf(f, does, l, looped) ==
  /\ f \in ScriptFrames /\ f.does = does /\ f.lib = l /\ f.id = 0 /\ f.hit = FALSE
  /\ f.outer = stop /\ f.out = NoObject /\ f.at # "reaction" /\ IsFrame(f)
  /\ RunsAlone(f) <=> does \in {"dispose", "open"}
  /\ f.looped = TRUE => looped = TRUE

LEMMA FrameOfIs ==
  ASSUME stop \in BOOLEAN, NEW does \in {"open", "call", "close", "dispose"}, NEW l \in Scripts, NEW looped \in BOOLEAN,
         NEW f, f = FrameOf(does, l, looped)
  PROVE  EntryOf(f, does, l, looped)
<1>1. /\ f \in ScriptFrames /\ f.does = does /\ f.lib = l /\ f.id = 0 /\ f.hit = FALSE
      /\ f.outer = stop /\ f.out = NoObject /\ f.at # "reaction" /\ f.looped = looped
  BY DEF FrameOf, ScriptFrames
<1>2. IsFrame(f) /\ (RunsAlone(f) <=> does \in {"dispose", "open"})
  BY <1>1 DEF IsFrame, RunsAlone
<1> QED BY <1>1, <1>2 DEF EntryOf

\* A frame is entered, and what is as it was is.
LEMMA EntersIs ==
  ASSUME ScriptAssumption,
         NEW b, NEW ld, NEW ob, NEW ns, NEW hh, NEW lr, NEW gy, NEW cd, NEW re, NEW wh, NEW ow, NEW lg,
         ScriptIs(b, ld, ob, ns, hh, lr, gy, cd, re, stop, wh, ow, lg),
         NEW does \in {"open", "call", "close", "dispose"}, NEW l \in Scripts, NEW looped \in BOOLEAN,
         does = "open" => ld[l] = "opening", does = "call" => ld[l] \in {"open", "closed"},
         does \in {"dispose", "open"} => NoneOpen(b, Len(b)), looped = TRUE => Len(b) # 0,
         Enters(b, FrameOf(does, l, looped))
  PROVE  /\ ScriptIs(stack', ld, ob, ns, hh, lr, gy, cd, re, stop', wh, ow, lg)
         /\ Len(stack') # 0 /\ stack' = Append(b, FrameOf(does, l, looped))
<1>1. stop \in BOOLEAN /\ b \in Seq(Activities)
  BY DEF ScriptIs, ScriptTyped
<1>2. PICK f : f = FrameOf(does, l, looped)
  OBVIOUS
<1>3. /\ f \in ScriptFrames /\ f.does = does /\ f.lib = l /\ f.id = 0 /\ f.hit = FALSE
      /\ f.outer = stop /\ f.out = NoObject
      /\ RunsAlone(f) <=> does \in {"dispose", "open"}
      /\ f.looped = TRUE => Len(b) # 0
  <2>1. EntryOf(f, does, l, looped)
    BY <1>1, <1>2, FrameOfIs
  <2> QED BY <2>1 DEF EntryOf
<1>4. ScriptIs(Append(b, f), ld, ob, ns, hh, lr, gy, cd, re, FALSE, wh, ow, lg)
  BY <1>3, PushesFrame
<1>5. stack' = Append(b, f) /\ stop' = FALSE
  BY <1>2 DEF Enters
<1>6. Len(Append(b, f)) # 0
  BY <1>1, <1>3, Grown DEF Activities
<1> QED BY <1>2, <1>4, <1>5, <1>6

LEMMA OpensScriptKeeps ==
  ASSUME ScriptAssumption, ScriptInv, NEW l \in Scripts, OpensScript(l)
  PROVE  ScriptInv'
<1>1. /\ ScriptIs(stack, loaded, objects, nextServed, heldByHost, lateReleases, graveyard, collectDue,
                  reactions, stop, where, ownedBy, letGo)
      /\ loaded \in [Scripts -> {"unopened", "opening", "open", "closed"}]
      /\ heldByHost \in SUBSET (Scripts \X Nat) /\ stack \in Seq(Activities)
  BY DEF ScriptInv, ScriptIs, ScriptTyped
<1>2. PICK ld : ld = [loaded EXCEPT ![l] = "opening"]
  OBVIOUS
<1>3. /\ ld \in [Scripts -> {"unopened", "opening", "open", "closed"}] /\ ld[l] = "opening"
      /\ loaded[l] = "unopened" /\ \A m \in Scripts : m # l => ld[m] = loaded[m]
  BY <1>1, <1>2 DEF OpensScript
<1>4. ScriptIs(stack, ld, objects, nextServed, heldByHost, lateReleases, graveyard, collectDue,
               reactions, stop, where, ownedBy, letGo)
  <2>1. ServedFits(stack, ld, objects, nextServed, heldByHost, lateReleases)
    <3>1. ASSUME NEW i \in 1 .. Len(stack), IsFrame(stack[i])
          PROVE  FrameFits(stack[i], ld, objects, nextServed, heldByHost)
      BY <1>3, <1>1, <3>1, ActivityIs, ActivitiesAre
        DEF FrameFits, ScriptFrames, ScriptIs, ServedFits
    <3> QED BY <1>1, <3>1, <1>3 DEF ScriptIs, ServedFits
  <2>2. HostFits(stack, ld, graveyard, collectDue, where, ownedBy, letGo)
    <3>1. ASSUME NEW o \in HostObjects
          PROVE  ObjectFits(stack, ld, graveyard, collectDue, where, ownedBy, letGo, o)
      BY <1>3, <1>1 DEF ObjectFits, ScriptIs, HostFits
    <3> QED BY <1>1, <3>1 DEF ScriptIs, HostFits
  <2> QED BY <1>1, <1>3, <2>1, <2>2 DEF ScriptIs, ScriptTyped
<1>5. /\ ScriptIs(stack', ld, objects, nextServed, heldByHost, lateReleases, graveyard, collectDue,
                  reactions, stop', where, ownedBy, letGo)
      /\ Len(stack') # 0
  BY <1>3, <1>4, <1>1, DepthIs, EntersIs DEF OpensScript, Inside
<1>6. /\ loaded' = ld /\ objects' = objects /\ nextServed' = nextServed /\ heldByHost' = heldByHost
      /\ lateReleases' = lateReleases /\ graveyard' = graveyard /\ collectDue' = collectDue
      /\ reactions' = reactions /\ where' = where /\ ownedBy' = ownedBy /\ letGo' = letGo
  BY <1>2 DEF OpensScript, hostState
<1> QED BY <1>5, <1>6 DEF ScriptInv, SettledWhen

LEMMA CallsScriptKeeps ==
  ASSUME ScriptAssumption, ScriptInv, NEW l \in Scripts, NEW id, NEW o \in HostObjects \cup {NoObject}, CallsScript(l, id, o)
  PROVE  ScriptInv'
<1>1. /\ ScriptIs(stack, loaded, objects, nextServed, heldByHost, lateReleases, graveyard, collectDue,
                  reactions, stop, where, ownedBy, letGo)
      /\ loaded[l] = "open" /\ Enters(stack, FrameOf("call", l, FALSE))
  BY DEF ScriptInv, CallsScript
<1>2. /\ ScriptIs(stack', loaded, objects, nextServed, heldByHost, lateReleases, graveyard, collectDue,
                  reactions, stop', where, ownedBy, letGo)
      /\ Len(stack') # 0
  BY <1>1, EntersIs
<1>3. /\ where' = [x \in HostObjects |-> IF x = o THEN "handle" ELSE where[x]]
      /\ ownedBy' = [x \in HostObjects |-> IF x = o THEN l ELSE ownedBy[x]]
      /\ o \in HostObjects => where[o] = "host"
  BY DEF CallsScript, ScriptAssumption
<1>4. where' \in [HostObjects -> ScriptPlaces] /\ ownedBy' \in [HostObjects -> Scripts \cup {NoObject}]
  BY <1>3, <1>1 DEF ScriptPlaces, ScriptIs, ScriptTyped
<1>5. HostFits(stack', loaded, graveyard, collectDue, where', ownedBy', letGo)
  <2>1. HostFits(stack', loaded, graveyard, collectDue, where, ownedBy, letGo)
    BY <1>2 DEF ScriptIs
  <2>2. ASSUME NEW x \in HostObjects
        PROVE  ObjectFits(stack', loaded, graveyard, collectDue, where', ownedBy', letGo, x)
    <3>1. ObjectFits(stack', loaded, graveyard, collectDue, where, ownedBy, letGo, x)
      BY <2>1 DEF HostFits
    <3>2. CASE x = o
      BY <1>1, <3>1, <1>3, <3>2 DEF ObjectFits
    <3>3. CASE x # o
      BY <3>1, <1>3, <3>3 DEF ObjectFits
    <3> QED BY <3>2, <3>3
  <2>3. ASSUME NEW x \in HostObjects, NEW i \in 1 .. Len(stack'), HoldsIn(stack'[i], x)
        PROVE  where'[x] = PlaceIn(stack'[i])
    BY <1>3, <2>1, <2>3 DEF HostFits, PlaceIn
  <2> QED BY <2>1, <2>2, <2>3 DEF HostFits
<1>6. /\ loaded' = loaded /\ objects' = objects /\ nextServed' = nextServed /\ heldByHost' = heldByHost
      /\ lateReleases' = lateReleases /\ graveyard' = graveyard /\ collectDue' = collectDue
      /\ reactions' = reactions /\ letGo' = letGo
  BY DEF CallsScript, engineState
<1> QED BY <1>2, <1>4, <1>5, <1>6 DEF ScriptInv, ScriptIs, ScriptTyped, SettledWhen

\* An object is kept no more, that no frame is about to answer.
LEMMA ObjectGone ==
  ASSUME NEW s, NEW ld, NEW ob, NEW ns, NEW hh, NEW lr, NEW gy, NEW cd, NEW re, NEW st, NEW wh, NEW ow, NEW lg,
         ScriptIs(s, ld, ob, ns, hh, lr, gy, cd, re, st, wh, ow, lg),
         NEW g \in Scripts \X Nat, ~ToAnswer(s, g)
  PROVE  ScriptIs(s, ld, ob \ {g}, ns, hh \ {g}, lr, gy, cd, re, st, wh, ow, lg)
<1>1. ServedFits(s, ld, ob, ns, hh, lr)
  BY DEF ScriptIs
<1>2. ASSUME NEW i \in 1 .. Len(s), IsFrame(s[i]) PROVE FrameFits(s[i], ld, ob \ {g}, ns, hh \ {g})
  BY <1>1, <1>2 DEF FrameFits, ToAnswer, ServedFits
<1>3. ServedFits(s, ld, ob \ {g}, ns, hh \ {g}, lr)
  BY <1>1, <1>2 DEF ServedFits
<1> QED BY <1>3 DEF ScriptIs, ScriptTyped

\* release_now, when what it releases is held no more.
LEMMA ReleaseNowIs ==
  ASSUME ScriptAssumption, NEW b, NEW g \in Scripts \X Nat, NEW hh, NEW re, NEW ow, NEW lg, NEW looped \in BOOLEAN,
         ScriptIs(b, loaded, objects \ {g}, nextServed, hh, lateReleases, graveyard, collectDue, re, stop, where, ow, lg),
         NoneOpen(b, Len(b)), looped => Len(b) # 0, ReleaseNow(b, g, looped)
  PROVE  /\ ScriptIs(stack', loaded, objects', nextServed, hh, lateReleases', graveyard', collectDue', re, stop', where', ow, lg)
         /\ SettledWhen(stack', lateReleases', graveyard', collectDue')
<1>1. CASE g \in objects
  <2>1. /\ objects' = objects \ {g} /\ Enters(b, FrameOf("dispose", g[1], looped))
        /\ lateReleases' = lateReleases /\ graveyard' = graveyard /\ collectDue' = collectDue /\ where' = where
    BY <1>1 DEF ReleaseNow
  <2>2. g[1] \in Scripts
    OBVIOUS
  <2>3. /\ ScriptIs(stack', loaded, objects \ {g}, nextServed, hh, lateReleases, graveyard, collectDue, re, stop', where, ow, lg)
        /\ Len(stack') # 0
    BY <2>1, <2>2, EntersIs
  <2> QED BY <2>1, <2>3 DEF SettledWhen
<1>2. CASE g \notin objects
  <2>1. objects' = objects /\ stop' = stop /\ objects \ {g} = objects
    BY <1>2 DEF ReleaseNow
  <2>2. ScriptIs(b, loaded, objects, nextServed, hh, lateReleases, graveyard, collectDue, re, stop, where, ow, lg)
    BY <2>1
  <2>3. CASE looped
    BY <2>1, <2>2, <2>3, <1>2 DEF SettledWhen, ReleaseNow
  <2>4. CASE ~looped
    BY <2>1, <2>2, <1>2, <2>4, LeavesIs DEF ReleaseNow
  <2> QED BY <2>3, <2>4
<1> QED BY <1>1, <1>2

LEMMA ReleasesScriptKeeps ==
  ASSUME ScriptAssumption, ScriptInv, NEW g, ReleasesScript(g)
  PROVE  ScriptInv'
<1>1. /\ ScriptIs(stack, loaded, objects, nextServed, heldByHost, lateReleases, graveyard, collectDue,
                  reactions, stop, where, ownedBy, letGo)
      /\ heldByHost \in SUBSET (Scripts \X Nat) /\ stack \in Seq(Activities) /\ g \in heldByHost
      /\ lateReleases \in Seq(Scripts \X Nat)
  BY DEF ScriptInv, ScriptIs, ScriptTyped, ReleasesScript
<1>2. ServedFits(stack, loaded, objects, nextServed, heldByHost, lateReleases)
  BY <1>1 DEF ScriptIs
<1>3. g \in Scripts \X Nat
  BY <1>1
<1>4. ~ToAnswer(stack, g)
  <2>1. ASSUME NEW i \in 1 .. Len(stack), IsFrame(stack[i]), stack[i].id # 0 PROVE <<stack[i].lib, stack[i].id>> # g
    BY <1>1, <1>2, <2>1 DEF ServedFits, FrameFits
  <2> QED BY <2>1 DEF ToAnswer
<1>5. /\ heldByHost' = heldByHost \ {g} /\ loaded' = loaded /\ nextServed' = nextServed
      /\ reactions' = reactions /\ ownedBy' = ownedBy /\ letGo' = letGo
  BY DEF ReleasesScript
<1>6. CASE MustWait(g)
  <2>1. /\ lateReleases' = Append(lateReleases, g) /\ stack' = stack /\ objects' = objects
        /\ graveyard' = graveyard /\ collectDue' = collectDue /\ stop' = stop /\ where' = where
    BY <1>6 DEF ReleasesScript
  <2>2. PICK lr \in Seq(Scripts \X Nat) : lr = Append(lateReleases, g)
    <3>1. PICK S : S = Scripts \X Nat
      OBVIOUS
    <3>2. Append(lateReleases, g) \in Seq(S)
      BY <1>1, <1>3, <3>1
    <3> QED BY <3>1, <3>2
  <2>3. PICK p \in Nat : p = Len(lateReleases)
    BY <1>1
  <2>4. \A x : WaitsLate(stack, lr, x) <=> x = g \/ WaitsLate(stack, lateReleases, x)
    <3>1. \A k \in 1 .. p + 1 : k \in 1 .. p \/ k = p + 1
      OBVIOUS
    <3>2. p + 1 \in 1 .. p + 1 /\ \A k \in 1 .. p : k \in 1 .. p + 1
      OBVIOUS
    <3>3. \A x : (\E k \in 1 .. Len(lr) : lr[k] = x) <=> x = g \/ \E k \in 1 .. p : lateReleases[k] = x
      BY <1>1, <1>3, <2>2, <2>3, <3>1, <3>2
    <3> QED BY <2>3, <3>3 DEF WaitsLate
  <2>5. ServedFits(stack, loaded, objects, nextServed, heldByHost \ {g}, lr)
    <3>1. ASSUME NEW i \in 1 .. Len(stack), IsFrame(stack[i])
          PROVE  FrameFits(stack[i], loaded, objects, nextServed, heldByHost \ {g})
      BY <1>2, <3>1 DEF ServedFits, FrameFits
    <3>2. \A x \in Scripts \X Nat : WaitsLate(stack, lr, x) =>
            x[2] <= nextServed /\ x \notin heldByHost \ {g} /\ ~ToAnswer(stack, x)
      BY <1>2, <1>4, <2>4, <1>1 DEF ServedFits
    <3>3. \A x \in objects : x[2] \in 1 .. nextServed /\ (x \in heldByHost \ {g} \/ WaitsLate(stack, lr, x) \/ ToAnswer(stack, x))
      BY <1>2, <2>4 DEF ServedFits
    <3> QED BY <1>2, <3>1, <3>2, <3>3 DEF ServedFits
  <2>6. ScriptIs(stack, loaded, objects, nextServed, heldByHost \ {g}, lr, graveyard, collectDue,
                 reactions, stop, where, ownedBy, letGo)
    BY <1>1, <2>2, <2>5 DEF ScriptIs, ScriptTyped
  <2>7. Len(stack) # 0
    BY <1>1, <1>6, DepthIs DEF NoneOpen, MustWait, Inside
  <2> QED BY <1>5, <2>1, <2>2, <2>6, <2>7 DEF ScriptInv, SettledWhen
<1>7. CASE ~MustWait(g)
  <2>1. NoneOpen(stack, Len(stack))
    BY <1>1, <1>7, DepthIs DEF MustWait, Inside
  <2>2. ScriptIs(stack, loaded, objects \ {g}, nextServed, heldByHost \ {g}, lateReleases, graveyard, collectDue,
                 reactions, stop, where, ownedBy, letGo)
    BY <1>1, <1>3, <1>4, ObjectGone
  <2>3. /\ ScriptIs(stack', loaded, objects', nextServed, heldByHost \ {g}, lateReleases', graveyard', collectDue',
                    reactions, stop', where', ownedBy, letGo)
        /\ SettledWhen(stack', lateReleases', graveyard', collectDue')
    BY <1>3, <1>7, <2>1, <2>2, ReleaseNowIs DEF ReleasesScript
  <2> QED BY <1>5, <2>3 DEF ScriptInv
<1> QED BY <1>6, <1>7

LEMMA ClosesScriptKeeps ==
  ASSUME ScriptAssumption, ScriptInv, NEW l \in Scripts, ClosesScript(l)
  PROVE  ScriptInv'
<1>1. /\ ScriptIs(stack, loaded, objects, nextServed, heldByHost, lateReleases, graveyard, collectDue,
                  reactions, stop, where, ownedBy, letGo)
      /\ loaded[l] = "open" /\ Enters(stack, FrameOf("close", l, FALSE)) /\ stop \in BOOLEAN
      /\ stack \in Seq(Activities) /\ loaded \in [Scripts -> {"unopened", "opening", "open", "closed"}]
      /\ heldByHost \in SUBSET (Scripts \X Nat)
  BY DEF ScriptInv, ClosesScript, ScriptIs, ScriptTyped
<1>2. /\ ScriptIs(stack', loaded, objects, nextServed, heldByHost, lateReleases, graveyard, collectDue,
                  reactions, stop', where, ownedBy, letGo)
      /\ Len(stack') # 0 /\ stack' = Append(stack, FrameOf("close", l, FALSE))
  BY <1>1, EntersIs
<1>3. /\ loaded' = [loaded EXCEPT ![l] = "closed"] /\ objects' = {g \in objects : g[1] # l}
      /\ nextServed' = nextServed /\ heldByHost' = heldByHost
      /\ lateReleases' = lateReleases /\ graveyard' = graveyard /\ collectDue' = collectDue
      /\ reactions' = reactions /\ where' = where /\ ownedBy' = ownedBy /\ letGo' = letGo
  BY DEF ClosesScript, hostState
<1>a. PICK ld \in [Scripts -> {"unopened", "opening", "open", "closed"}] : ld = [loaded EXCEPT ![l] = "closed"]
  BY <1>1
<1>4. /\ loaded' \in [Scripts -> {"unopened", "opening", "open", "closed"}] /\ loaded'[l] = "closed"
      /\ \A m \in Scripts : m # l => loaded'[m] = loaded[m]
  <2>1. loaded' = ld
    BY <1>3, <1>a
  <2> QED BY <1>1, <1>a, <2>1
<1>5. stack' \in Seq(Activities) /\ ServedFits(stack', loaded, objects, nextServed, heldByHost, lateReleases)
  BY <1>2 DEF ScriptIs, ScriptTyped
<1>6. ServedFits(stack', loaded', objects', nextServed, heldByHost, lateReleases)
  <2>1. ASSUME NEW i \in 1 .. Len(stack'), IsFrame(stack'[i])
        PROVE  FrameFits(stack'[i], loaded', objects', nextServed, heldByHost)
    BY <1>1, <1>3, <1>4, <1>5, <2>1, ActivityIs, ActivitiesAre
      DEF FrameFits, ScriptFrames, ServedFits
  <2> QED BY <1>3, <1>5, <2>1, <1>4, <1>1 DEF ServedFits
<1>7. CollectionDue(stack', collectDue)
  <2>1. PICK f : f = FrameOf("close", l, FALSE)
    OBVIOUS
  <2>2. f \in ScriptFrames /\ IsFrame(f) /\ f.does = "close"
    <3>1. EntryOf(f, "close", l, FALSE)
      BY <1>1, <2>1, FrameOfIs
    <3> QED BY <3>1 DEF EntryOf
  <2>3. PICK n \in Nat : n = Len(stack)
    BY <1>1
  <2>4. stack' = Append(stack, f) /\ f \in Activities
    BY <1>2, <2>1, <2>2 DEF Activities
  <2>5. Len(stack') = n + 1 /\ stack'[n + 1] = f /\ n + 1 \in 1 .. n + 1
    BY <1>1, <2>3, <2>4, Grown
  <2> QED BY <2>2, <2>5 DEF CollectionDue
<1>8. HostFits(stack', loaded', graveyard, collectDue, where, ownedBy, letGo)
  <2>1. HostFits(stack', loaded, graveyard, collectDue, where, ownedBy, letGo)
    BY <1>2 DEF ScriptIs
  <2>2. ASSUME NEW x \in HostObjects
        PROVE  ObjectFits(stack', loaded', graveyard, collectDue, where, ownedBy, letGo, x)
    BY <1>4, <1>7, <2>1 DEF ObjectFits, HostFits
  <2> QED BY <2>1, <2>2 DEF HostFits
<1>9. objects' \in SUBSET (Scripts \X Nat)
  BY <1>1, <1>3 DEF ScriptIs, ScriptTyped
<1> QED BY <1>2, <1>3, <1>4, <1>6, <1>8, <1>9 DEF ScriptInv, ScriptIs, ScriptTyped, SettledWhen

\* The frame on top goes on.
LEMMA FrameGoesOn ==
  ASSUME ScriptInv, stack # <<>>, IsFrame(Top), NEW a \in ScriptFrames, NEW re2 \in Nat,
         a.does = Top.does, a.lib = Top.lib, a.id = Top.id, a.outer = Top.outer, a.looped = Top.looped,
         a.at = "end" => a.out = NoObject, a.at = "script" => Top.at = "script",
         a.at = "reaction" => Top.at = "reaction" \/ Drains,
         NEW gy2 \in SUBSET HostObjects, NEW wh2 \in [HostObjects -> ScriptPlaces],
         HostFits(Append(Front(stack), a), loaded, gy2, collectDue, wh2, ownedBy, letGo)
  PROVE  /\ ScriptIs(Append(Front(stack), a), loaded, objects, nextServed, heldByHost, lateReleases,
                     gy2, collectDue, re2, a.hit, wh2, ownedBy, letGo)
         /\ Len(Append(Front(stack), a)) # 0
<1>1. /\ ScriptIs(stack, loaded, objects, nextServed, heldByHost, lateReleases, graveyard, collectDue,
                  reactions, stop, where, ownedBy, letGo)
      /\ stack \in Seq(Activities)
  BY DEF ScriptInv, ScriptIs, ScriptTyped
<1>2. /\ Top = Last(stack) /\ Top \in ScriptFrames
      /\ FrameFits(Top, loaded, objects, nextServed, heldByHost)
      /\ Drains <=> NoneOpen(stack, Len(stack) - 1)
  BY TopNow
<1>3. RunsAlone(a) => RunsAlone(Last(stack)) \/ NoneOpen(stack, Len(stack) - 1)
  <2>1. IsFrame(a)
    BY DEF ScriptFrames, IsFrame
  <2>2. CASE a.does \in {"dispose", "open"}
    BY <1>2, <2>2 DEF RunsAlone
  <2>3. CASE a.at = "reaction"
    BY <1>2, <2>3 DEF RunsAlone
  <2> QED BY <2>1, <2>2, <2>3 DEF RunsAlone
<1>4. ScriptIs(Append(Front(stack), a), loaded, objects, nextServed, heldByHost, lateReleases,
               gy2, collectDue, re2, a.hit, wh2, ownedBy, letGo)
  BY <1>1, <1>2, <1>3, ChangesFrame DEF FrameFits
<1>5. a \in Activities
  BY DEF Activities
<1>6. Len(Append(Front(stack), a)) # 0
  <2>1. PICK n \in Nat : Len(Append(Front(stack), a)) = n + 1
    BY <1>1, <1>5, Retopped
  <2> QED BY <2>1
<1> QED BY <1>4, <1>6

\* What the activity on top holds, and what none holds.
LEMMA TopHolds ==
  ASSUME ScriptInv, stack # <<>>, NEW o \in HostObjects, HoldsIn(Top, o) \/ where[o] \notin {"out", "dying"}
  PROVE  /\ HoldsIn(Top, o) => where[o] = PlaceIn(Top) /\ o \notin graveyard
         /\ \A i \in 1 .. Len(stack) - 1 : ~HoldsIn(stack[i], o)
<1>1. HostFits(stack, loaded, graveyard, collectDue, where, ownedBy, letGo) /\ stack \in Seq(Activities)
  BY DEF ScriptInv, ScriptIs, ScriptTyped
<1>2. Len(stack) \in 1 .. Len(stack) /\ stack[Len(stack)] = Top /\ Len(stack) \in Nat
  BY <1>1, TopNow
<1>3. ASSUME HoldsIn(Top, o) PROVE where[o] = PlaceIn(Top) /\ o \notin graveyard
  BY <1>1, <1>2, <1>3 DEF HostFits, ObjectFits, PlaceIn
<1>4. ASSUME NEW i \in 1 .. Len(stack) - 1, HoldsIn(stack[i], o) PROVE FALSE
  <2>1. i \in 1 .. Len(stack) /\ i # Len(stack)
    BY <1>2
  <2>2. CASE HoldsIn(Top, o)
    BY <1>1, <1>2, <1>4, <2>1, <2>2 DEF HostFits
  <2>3. CASE where[o] \notin {"out", "dying"}
    BY <2>3, <1>1, <1>4, <2>1 DEF PlaceIn, HostFits
  <2> QED BY <2>2, <2>3
<1> QED BY <1>3, <1>4

\* An object of a host is moved by what is on top.
LEMMA TopMoves ==
  ASSUME ScriptInv, stack # <<>>, NEW a \in Activities, IsFrame(a) <=> IsFrame(Top), Collecting(Top) => Collecting(a),
         NEW o \in HostObjects, NEW p \in ScriptPlaces, NEW gy2,
         \A x \in HostObjects : x # o => (HoldsIn(a, x) <=> HoldsIn(Top, x)) /\ (x \in gy2 <=> x \in graveyard),
         HoldsIn(Top, o) \/ where[o] \notin {"out", "dying"},
         HoldsIn(a, o) => p = PlaceIn(a), p \in {"out", "dying"} => HoldsIn(a, o),
         p \in {"host", "handle"} => letGo[o] = FALSE, p = "grave" <=> o \in gy2,
         p \in {"handle", "out"} => where[o] \in {"handle", "out"}
  PROVE  HostFits(Append(Front(stack), a), loaded, gy2, collectDue, Put(where, o, p), ownedBy, letGo)
<1>1. /\ HostFits(stack, loaded, graveyard, collectDue, where, ownedBy, letGo)
      /\ stack \in Seq(Activities) /\ where \in [HostObjects -> ScriptPlaces]
  BY DEF ScriptInv, ScriptIs, ScriptTyped
<1>2. PICK t : t = Append(Front(stack), a)
  OBVIOUS
<1>3. PICK n \in Nat : /\ Len(stack) = n + 1 /\ Last(stack) = stack[n + 1]
                       /\ TopOnly(t, stack, n) /\ Len(t) = n + 1 /\ t[n + 1] = a
  BY <1>1, <1>2, Retopped
<1>4. stack[n + 1] = Top /\ n + 1 \in 1 .. Len(t) /\ Len(stack) - 1 = n
  BY <1>3 DEF Top
<1>5. CollectionDue(stack, collectDue) => CollectionDue(t, collectDue)
  BY <1>1, <1>3, <1>4, DueKept
<1>6. Put(where, o, p)[o] = p
  BY <1>1 DEF Put
<1>7. ObjectFits(t, loaded, gy2, collectDue, Put(where, o, p), ownedBy, letGo, o)
  <2>1. p \in {"out", "dying"} => \E i \in 1 .. Len(t) : HoldsIn(t[i], o)
    BY <1>3, <1>4
  <2> QED BY <1>6, <2>1, <1>5, <1>1 DEF ObjectFits, HostFits
<1>a. HostFits(t, loaded, gy2, collectDue, Put(where, o, p), ownedBy, letGo)
  BY <1>1, <1>3, <1>4, TopHolds, <1>7, HostMoves
<1> QED BY <1>2, <1>a

\* An object of a host is as it was, when what is on top goes on.
LEMMA TopStays ==
  ASSUME ScriptInv, stack # <<>>, NEW a \in Activities, IsFrame(a) <=> IsFrame(Top), Collecting(Top) => Collecting(a),
         \A x \in HostObjects : HoldsIn(a, x) <=> HoldsIn(Top, x)
  PROVE  HostFits(Append(Front(stack), a), loaded, graveyard, collectDue, where, ownedBy, letGo)
<1>1. ScriptIs(stack, loaded, objects, nextServed, heldByHost, lateReleases, graveyard, collectDue,
               reactions, stop, where, ownedBy, letGo)
  BY DEF ScriptInv
<1>2. Top = Last(stack)
  BY DEF Top
<1> QED BY <1>1, <1>2, HostStays

\* The invariant after a step that changed nothing but the stack, the reactions,
\* the stop, and the places of objects.
LEMMA HoldsAfter ==
  ASSUME NEW t, NEW gy2, NEW re2, NEW st2, NEW wh2,
         ScriptIs(t, loaded, objects, nextServed, heldByHost, lateReleases, gy2, collectDue, re2, st2, wh2, ownedBy, letGo),
         Len(t) # 0, stack' = t, graveyard' = gy2, reactions' = re2, stop' = st2, where' = wh2,
         UNCHANGED <<loaded, objects, nextServed, heldByHost, lateReleases, collectDue, ownedBy, letGo>>
  PROVE  ScriptInv'
BY DEF ScriptInv, SettledWhen

LEMMA QueuesReactionKeeps ==
  ASSUME ScriptInv, QueuesReaction
  PROVE  ScriptInv'
<1>1. /\ ScriptIs(stack, loaded, objects, nextServed, heldByHost, lateReleases, graveyard, collectDue,
                  reactions, stop, where, ownedBy, letGo)
      /\ stack \in Seq(Activities) /\ reactions \in Nat
  BY DEF ScriptInv, ScriptIs, ScriptTyped
<1>2. ~NoneOpen(stack, Len(stack)) /\ Len(stack) # 0
  BY <1>1, TopNow DEF NoneOpen, QueuesReaction, RunsScript, InFrame
<1>3. ScriptIs(stack, loaded, objects, nextServed, heldByHost, lateReleases, graveyard, collectDue,
               reactions + 1, stop, where, ownedBy, letGo)
  BY <1>1, <1>2 DEF ScriptIs, ScriptTyped, StackIs
<1>4. /\ stack' = stack /\ reactions' = reactions + 1 /\ stop' = stop /\ graveyard' = graveyard /\ where' = where
      /\ UNCHANGED <<loaded, objects, nextServed, heldByHost, lateReleases, collectDue, ownedBy, letGo>>
  BY DEF QueuesReaction, engineState, hostState
<1> QED BY <1>2, <1>3, <1>4, HoldsAfter

LEMMA LetsHandleGoKeeps ==
  ASSUME ScriptInv, NEW o \in HostObjects, LetsHandleGo(o)
  PROVE  ScriptInv'
<1>1. /\ ScriptIs(stack, loaded, objects, nextServed, heldByHost, lateReleases, graveyard, collectDue,
                  reactions, stop, where, ownedBy, letGo)
      /\ stack \in Seq(Activities) /\ where \in [HostObjects -> ScriptPlaces] /\ letGo \in [HostObjects -> BOOLEAN]
      /\ graveyard \in SUBSET HostObjects
      /\ HostFits(stack, loaded, graveyard, collectDue, where, ownedBy, letGo)
  BY DEF ScriptInv, ScriptIs, ScriptTyped
<1>2. PICK lg : lg = [letGo EXCEPT ![o] = TRUE]
  OBVIOUS
<1>3. lg \in [HostObjects -> BOOLEAN] /\ \A x \in HostObjects : x # o => lg[x] = letGo[x]
  BY <1>1, <1>2
<1>4. /\ stack' = stack /\ loaded' = loaded /\ objects' = objects /\ nextServed' = nextServed
      /\ heldByHost' = heldByHost /\ lateReleases' = lateReleases /\ collectDue' = collectDue
      /\ reactions' = reactions /\ stop' = stop /\ ownedBy' = ownedBy /\ letGo' = lg
      /\ where[o] \in {"handle", "out"} /\ Len(stack) # 0
  BY <1>1, <1>2, EmptySeq DEF LetsHandleGo, RunsScript, InFrame
<1>5. CASE where[o] = "handle"
  <2>1. PICK wh : wh = [where EXCEPT ![o] = "grave"]
    OBVIOUS
  <2>2. wh \in [HostObjects -> ScriptPlaces] /\ wh[o] = "grave" /\ \A x \in HostObjects : x # o => wh[x] = where[x]
    BY <1>1, <2>1 DEF ScriptPlaces
  <2>3. ASSUME NEW x \in HostObjects PROVE ObjectFits(stack, loaded, graveyard \cup {o}, collectDue, wh, ownedBy, lg, x)
    <3>1. CASE x = o
      BY <2>2, <3>1 DEF ObjectFits
    <3>2. CASE x # o
      BY <1>1, <1>3, <2>2, <3>2 DEF ObjectFits, HostFits
    <3> QED BY <3>1, <3>2
  <2>4. ASSUME NEW x \in HostObjects, NEW i \in 1 .. Len(stack), HoldsIn(stack[i], x) PROVE wh[x] = PlaceIn(stack[i])
    BY <1>5, <2>2, <1>1, <2>4 DEF HostFits, PlaceIn
  <2>5. ScriptIs(stack, loaded, objects, nextServed, heldByHost, lateReleases, graveyard \cup {o}, collectDue,
                 reactions, stop, wh, ownedBy, lg)
    BY <1>1, <1>3, <2>2, <2>3, <2>4 DEF ScriptIs, ScriptTyped, HostFits
  <2>6. where' = wh /\ graveyard' = graveyard \cup {o}
    BY <1>5, <2>1 DEF LetsHandleGo
  <2> QED BY <1>4, <2>5, <2>6 DEF ScriptInv, SettledWhen
<1>6. CASE where[o] # "handle"
  <2>1. where' = where /\ graveyard' = graveyard /\ where[o] = "out"
    BY <1>4, <1>6 DEF LetsHandleGo
  <2>2. ASSUME NEW x \in HostObjects PROVE ObjectFits(stack, loaded, graveyard, collectDue, where, ownedBy, lg, x)
    BY <1>1, <1>3, <2>1 DEF ObjectFits, HostFits
  <2>3. ScriptIs(stack, loaded, objects, nextServed, heldByHost, lateReleases, graveyard, collectDue,
                 reactions, stop, where, ownedBy, lg)
    BY <1>1, <1>3, <2>2 DEF ScriptIs, ScriptTyped, HostFits
  <2> QED BY <1>4, <2>1, <2>3 DEF ScriptInv, SettledWhen
<1> QED BY <1>5, <1>6

\* The frame on top, when script of it runs or it is unwound.
LEMMA FrameNow ==
  ASSUME ScriptInv, InFrame
  PROVE  /\ stack # <<>> /\ IsFrame(Top) /\ Top \in ScriptFrames /\ Top \in Activities /\ stop = Top.hit
         /\ FrameFits(Top, loaded, objects, nextServed, heldByHost)
         /\ Drains <=> NoneOpen(stack, Len(stack) - 1)
         /\ \A x \in HostObjects : HoldsIn(Top, x) <=> Top.out = x
         /\ stack \in Seq(Activities) /\ where \in [HostObjects -> ScriptPlaces] /\ letGo \in [HostObjects -> BOOLEAN]
         /\ graveyard \in SUBSET HostObjects /\ reactions \in Nat /\ stop \in BOOLEAN
         /\ HostFits(stack, loaded, graveyard, collectDue, where, ownedBy, letGo)
<1>1. stack # <<>> /\ IsFrame(Top)
  BY DEF InFrame
<1>2. /\ Top \in ScriptFrames /\ stop = Top.hit /\ Top \in Activities
      /\ FrameFits(Top, loaded, objects, nextServed, heldByHost)
      /\ Drains <=> NoneOpen(stack, Len(stack) - 1)
  BY <1>1, TopNow
<1>3. \A x \in HostObjects : HoldsIn(Top, x) <=> Top.out = x
  BY <1>1 DEF HoldsIn
<1> QED BY <1>1, <1>2, <1>3 DEF ScriptInv, ScriptIs, ScriptTyped

\* A frame that differs from the one on top in where it is, what it has out, and
\* whether it was stopped.
AsBefore(a) ==
  /\ a \in ScriptFrames /\ a \in Activities /\ IsFrame(a) /\ a.does = Top.does /\ a.lib = Top.lib /\ a.id = Top.id
  /\ a.outer = Top.outer /\ a.looped = Top.looped
  /\ \A x \in HostObjects : HoldsIn(a, x) <=> a.out = x
  /\ PlaceIn(a) = "out" /\ (Collecting(Top) => Collecting(a))

FrameWith(at, out, hit) == [Top EXCEPT !.at = at, !.out = out, !.hit = hit]

LEMMA FrameAs ==
  ASSUME ScriptInv, InFrame, NEW at \in {"script", "end", "reaction"}, NEW out \in HostObjects \cup {NoObject}, NEW hit \in BOOLEAN
  PROVE  /\ AsBefore(FrameWith(at, out, hit)) /\ FrameWith(at, out, hit).at = at
         /\ FrameWith(at, out, hit).out = out /\ FrameWith(at, out, hit).hit = hit
<1>0. PICK a : a = FrameWith(at, out, hit)
  OBVIOUS
<1>1. Top \in ScriptFrames /\ IsFrame(Top)
  BY FrameNow
<1>2. /\ a \in ScriptFrames /\ a.does = Top.does /\ a.lib = Top.lib /\ a.id = Top.id
      /\ a.outer = Top.outer /\ a.looped = Top.looped /\ a.at = at /\ a.out = out /\ a.hit = hit
  BY <1>0, <1>1 DEF ScriptFrames, FrameWith
<1>3. AsBefore(a)
  BY <1>1, <1>2 DEF AsBefore, HoldsIn, PlaceIn, Collecting, ScriptFrames, IsFrame, Activities
<1> QED BY <1>0, <1>2, <1>3

LEMMA TakesOutKeeps ==
  ASSUME ScriptAssumption, ScriptInv, NEW o \in HostObjects, TakesOut(o)
  PROVE  ScriptInv'
<1>1. /\ InFrame /\ Top.out = NoObject /\ where[o] = "handle" /\ ~letGo[o] /\ Top.at \in {"script", "reaction"}
      /\ where' = Put(where, o, "out") /\ stack' = Append(Front(stack), [Top EXCEPT !.out = o])
      /\ graveyard' = graveyard /\ reactions' = reactions /\ stop' = stop
      /\ UNCHANGED <<loaded, objects, nextServed, heldByHost, lateReleases, collectDue, ownedBy, letGo>>
  BY DEF TakesOut, RunsScript, OnTop, Put, engineState
<1>2. PICK a : a = FrameWith(Top.at, o, Top.hit)
  OBVIOUS
<1>3. AsBefore(a) /\ a.at = Top.at /\ a.out = o /\ a.hit = Top.hit
  BY <1>1, <1>2, FrameNow, FrameAs DEF ScriptFrames
<1>4. HostFits(Append(Front(stack), a), loaded, graveyard, collectDue, Put(where, o, "out"), ownedBy, letGo)
  <2>1. o \notin graveyard
    BY <1>1, FrameNow DEF HostFits, ObjectFits
  <2>2. "out" \in ScriptPlaces /\ HoldsIn(a, o) /\ stack # <<>> /\ where[o] \in {"handle", "out"}
    BY <1>1, <1>3, FrameNow DEF AsBefore, ScriptPlaces
  <2>3. a \in Activities /\ (IsFrame(a) <=> IsFrame(Top)) /\ (Collecting(Top) => Collecting(a)) /\ PlaceIn(a) = "out"
    BY <1>1, <1>3, FrameNow DEF AsBefore
  <2>4. \A x \in HostObjects : x # o => (HoldsIn(a, x) <=> HoldsIn(Top, x)) /\ (x \in graveyard <=> x \in graveyard)
    BY <1>1, <1>3, FrameNow DEF AsBefore, ScriptAssumption
  <2>5. HoldsIn(Top, o) \/ where[o] \notin {"out", "dying"}
    BY <1>1
  <2>6. "out" = "grave" <=> o \in graveyard
    BY <2>1
  <2> QED BY <2>2, <2>3, <2>4, <2>5, <2>6, TopMoves
<1>5. PICK wh \in [HostObjects -> ScriptPlaces] : wh = Put(where, o, "out")
  BY <1>1, FrameNow DEF Put, ScriptPlaces
<1>6. /\ ScriptIs(Append(Front(stack), a), loaded, objects, nextServed, heldByHost, lateReleases, graveyard, collectDue,
                  reactions, stop, wh, ownedBy, letGo)
      /\ Len(Append(Front(stack), a)) # 0
  <2>1. stack # <<>> /\ IsFrame(Top) /\ reactions \in Nat /\ graveyard \in SUBSET HostObjects /\ stop = Top.hit
    BY <1>1, FrameNow
  <2>2. ScriptInv
    OBVIOUS
  <2>3. /\ ScriptIs(Append(Front(stack), a), loaded, objects, nextServed, heldByHost, lateReleases, graveyard, collectDue,
                    reactions, a.hit, wh, ownedBy, letGo)
        /\ Len(Append(Front(stack), a)) # 0
    BY <1>4, <1>5, <2>1, <1>1, <1>3, <2>2, FrameGoesOn DEF AsBefore
  <2> QED BY <1>3, <2>1, <2>3
<1>7. stack' = Append(Front(stack), a) /\ where' = wh
  BY <1>1, <1>2, FrameNow, <1>5 DEF ScriptFrames, FrameWith
<1> QED BY <1>1, <1>6, <1>7, HoldsAfter

\* What was out for the frame on top is there no more.
LEMMA OutReturns ==
  ASSUME ScriptAssumption, ScriptInv, InFrame, NEW o \in HostObjects, o = Top.out, NEW p \in {"grave", "handle", "handed"},
         p = "handle" => ~letGo[o], NEW gy2 \in SUBSET HostObjects,
         gy2 = IF p = "grave" THEN graveyard \cup {o} ELSE graveyard,
         stack' = Append(Front(stack), [Top EXCEPT !.out = NoObject]), where' = Put(where, o, p), graveyard' = gy2,
         reactions' = reactions, stop' = stop,
         UNCHANGED <<loaded, objects, nextServed, heldByHost, lateReleases, collectDue, ownedBy, letGo>>
  PROVE  ScriptInv'
<1>1. PICK a : a = FrameWith(Top.at, NoObject, Top.hit)
  OBVIOUS
<1>2. AsBefore(a) /\ a.at = Top.at /\ a.out = NoObject /\ a.hit = Top.hit
  BY <1>1, FrameNow, FrameAs DEF ScriptFrames
<1>3. HoldsIn(Top, o) /\ where[o] = "out" /\ o \notin graveyard
  BY FrameNow, TopHolds DEF PlaceIn
<1>4. HostFits(Append(Front(stack), a), loaded, gy2, collectDue, Put(where, o, p), ownedBy, letGo)
  <2>1. \A x \in HostObjects : x # o => (HoldsIn(a, x) <=> HoldsIn(Top, x)) /\ (x \in gy2 <=> x \in graveyard)
    BY <1>2, FrameNow DEF AsBefore, ScriptAssumption
  <2>2. p \in ScriptPlaces /\ stack # <<>> /\ ~HoldsIn(a, o)
    BY <1>2, FrameNow DEF AsBefore, ScriptAssumption, ScriptPlaces
  <2>3. a \in Activities /\ (IsFrame(a) <=> IsFrame(Top)) /\ (Collecting(Top) => Collecting(a))
    BY <1>2, FrameNow DEF AsBefore
  <2>4. p = "grave" <=> o \in gy2
    BY <1>3
  <2>5. /\ p \in {"host", "handle"} => letGo[o] = FALSE
        /\ p \in {"handle", "out"} => where[o] \in {"handle", "out"}
        /\ p \in {"out", "dying"} => HoldsIn(a, o)
    BY <1>3, FrameNow
  <2> QED BY <1>3, <2>1, <2>2, <2>3, <2>4, <2>5, TopMoves
<1>5. PICK wh \in [HostObjects -> ScriptPlaces] : wh = Put(where, o, p)
  BY FrameNow DEF Put, ScriptPlaces
<1>6. /\ ScriptIs(Append(Front(stack), a), loaded, objects, nextServed, heldByHost, lateReleases, gy2, collectDue,
                  reactions, stop, wh, ownedBy, letGo)
      /\ Len(Append(Front(stack), a)) # 0
  <2>1. stack # <<>> /\ IsFrame(Top) /\ reactions \in Nat /\ stop = Top.hit
    BY FrameNow
  <2> QED BY <1>2, <2>1, <1>4, <1>5, FrameGoesOn DEF AsBefore
<1>7. stack' = Append(Front(stack), a) /\ where' = wh
  BY <1>1, FrameNow, <1>5 DEF ScriptFrames, FrameWith
<1> QED BY <1>6, <1>7, HoldsAfter

LEMMA GivesBackKeeps ==
  ASSUME ScriptAssumption, ScriptInv, GivesBack
  PROVE  ScriptInv'
<1>1. PICK o : o = Top.out
  OBVIOUS
<1>2. InFrame /\ o # NoObject
  BY <1>1 DEF GivesBack
<1>3. o \in HostObjects /\ letGo[o] \in BOOLEAN /\ graveyard \in SUBSET HostObjects
  BY <1>1, <1>2, FrameNow DEF ScriptFrames
<1>4. PICK p : p = Home(o)
  OBVIOUS
<1>5. p \in {"grave", "handle", "handed"} /\ (p = "handle" => ~letGo[o])
  BY <1>3, <1>4 DEF Home
<1>6. /\ where' = Put(where, o, p) /\ graveyard' = graveyard \cup (IF p = "grave" THEN {o} ELSE {})
      /\ stack' = Append(Front(stack), [Top EXCEPT !.out = NoObject]) /\ reactions' = reactions /\ stop' = stop
      /\ UNCHANGED <<loaded, objects, nextServed, heldByHost, lateReleases, collectDue, ownedBy, letGo>>
  BY <1>1, <1>4 DEF GivesBack, OnTop, Put
<1>7. PICK gy2 \in SUBSET HostObjects : gy2 = IF p = "grave" THEN graveyard \cup {o} ELSE graveyard
  BY <1>3
<1>8. graveyard' = gy2
  BY <1>6, <1>7
<1> QED BY <1>1, <1>2, <1>3, <1>5, <1>6, <1>7, <1>8, OutReturns

LEMMA HandsOverKeeps ==
  ASSUME ScriptAssumption, ScriptInv, HandsOver
  PROVE  ScriptInv'
<1>1. PICK o : o = Top.out
  OBVIOUS
<1>2. InFrame /\ o # NoObject
  BY <1>1 DEF HandsOver, RunsScript
<1>3. o \in HostObjects /\ graveyard \in SUBSET HostObjects
  BY <1>1, <1>2, FrameNow DEF ScriptFrames
<1>4. /\ where' = Put(where, o, "handed") /\ graveyard' = graveyard
      /\ stack' = Append(Front(stack), [Top EXCEPT !.out = NoObject]) /\ reactions' = reactions /\ stop' = stop
      /\ UNCHANGED <<loaded, objects, nextServed, heldByHost, lateReleases, collectDue, ownedBy, letGo>>
  BY <1>1 DEF HandsOver, OnTop, Put, engineState
<1>5. PICK gy2 \in SUBSET HostObjects : gy2 = IF "handed" = "grave" THEN graveyard \cup {o} ELSE graveyard
  BY <1>3
<1>6. graveyard' = gy2
  BY <1>4, <1>5
<1>7. PICK p \in {"grave", "handle", "handed"} : p = "handed"
  OBVIOUS
<1> QED BY <1>1, <1>2, <1>3, <1>4, <1>5, <1>6, <1>7, OutReturns

\* The frame on top goes on, with what it had out.
LEMMA TopGoesOn ==
  ASSUME ScriptInv, InFrame, NEW at \in {"script", "end", "reaction"}, NEW hit \in BOOLEAN, NEW re2 \in Nat,
         NEW a, a = FrameWith(at, Top.out, hit),
         at = "end" => Top.out = NoObject, at = "script" => Top.at = "script",
         at = "reaction" => Top.at = "reaction" \/ Drains,
         stack' = Append(Front(stack), a), reactions' = re2, stop' = hit,
         UNCHANGED <<loaded, objects, nextServed, heldByHost, lateReleases, graveyard, collectDue, where, ownedBy, letGo>>
  PROVE  ScriptInv'
<1>1. AsBefore(a) /\ a.at = at /\ a.out = Top.out /\ a.hit = hit
  <2>1. Top.out \in HostObjects \cup {NoObject}
    BY FrameNow DEF ScriptFrames
  <2> QED BY <2>1, FrameAs
<1>2. HostFits(Append(Front(stack), a), loaded, graveyard, collectDue, where, ownedBy, letGo)
  BY <1>1, FrameNow, TopStays DEF AsBefore
<1>3. /\ ScriptIs(Append(Front(stack), a), loaded, objects, nextServed, heldByHost, lateReleases, graveyard, collectDue,
                  re2, hit, where, ownedBy, letGo)
      /\ Len(Append(Front(stack), a)) # 0
  <2>1. stack # <<>> /\ IsFrame(Top) /\ graveyard \in SUBSET HostObjects /\ where \in [HostObjects -> ScriptPlaces]
    BY FrameNow
  <2> QED BY <1>1, <1>2, <2>1, FrameGoesOn DEF AsBefore
<1> QED BY <1>3, HoldsAfter

LEMMA MeterStopsKeeps ==
  ASSUME ScriptInv, MeterStops
  PROVE  ScriptInv'
<1>1. /\ InFrame /\ Top.at \in {"script", "reaction"} /\ stack' = Append(Front(stack), [Top EXCEPT !.hit = TRUE])
      /\ reactions' = reactions /\ stop' = TRUE
      /\ UNCHANGED <<loaded, objects, nextServed, heldByHost, lateReleases, graveyard, collectDue, where, ownedBy, letGo>>
  BY DEF MeterStops, RunsScript, OnTop, engineState, hostState
<1>2. PICK a : a = FrameWith(Top.at, Top.out, TRUE)
  OBVIOUS
<1>3. Top.at \in {"script", "end", "reaction"} /\ reactions \in Nat /\ stack' = Append(Front(stack), a)
  BY <1>1, <1>2, FrameNow DEF ScriptFrames, FrameWith
<1>4. /\ Top.at = "end" => Top.out = NoObject
      /\ Top.at = "script" => Top.at = "script"
      /\ Top.at = "reaction" => Top.at = "reaction" \/ Drains
  BY <1>1
<1> QED BY <1>1, <1>2, <1>3, <1>4, TopGoesOn

LEMMA RunsReactionKeeps ==
  ASSUME ScriptInv, RunsReaction
  PROVE  ScriptInv'
<1>0. InFrame /\ Top.out = NoObject /\ Top.hit \in BOOLEAN /\ stop = Top.hit /\ Top \in ScriptFrames
  BY FrameNow DEF RunsReaction, ScriptFrames
<1>a. PICK at : at = IF stop \/ Top.at = "script" THEN Top.at ELSE "reaction"
  OBVIOUS
<1>1. /\ stack' = Append(Front(stack), [Top EXCEPT !.at = at])
      /\ reactions' = reactions - 1 /\ reactions > 0 /\ stop' = Top.hit
      /\ \/ Top.at = "end" /\ Drains
         \/ Top.at = "script" /\ ~stop
      /\ UNCHANGED <<loaded, objects, nextServed, heldByHost, lateReleases, graveyard, collectDue, where, ownedBy, letGo>>
  BY <1>0, <1>a DEF RunsReaction, OnTop, engineState, hostState
<1>2. PICK a : a = FrameWith(at, Top.out, Top.hit)
  OBVIOUS
<1>3. PICK re2 \in Nat : re2 = reactions - 1
  BY <1>0, <1>1, FrameNow
<1>4. /\ at \in {"script", "end", "reaction"}
      /\ at = "end" => Top.out = NoObject
      /\ at = "script" => Top.at = "script"
      /\ at = "reaction" => Top.at = "reaction" \/ Drains
      /\ stack' = Append(Front(stack), a) /\ reactions' = re2
  BY <1>0, <1>1, <1>a, <1>2, <1>3 DEF ScriptFrames, FrameWith
<1> QED BY <1>0, <1>1, <1>2, <1>4, TopGoesOn

LEMMA ReactionEndsKeeps ==
  ASSUME ScriptInv, ReactionEnds
  PROVE  ScriptInv'
<1>1. /\ InFrame /\ Top.out = NoObject /\ stack' = Append(Front(stack), [Top EXCEPT !.at = "end"])
      /\ reactions' = reactions /\ stop' = stop
      /\ UNCHANGED <<loaded, objects, nextServed, heldByHost, lateReleases, graveyard, collectDue, where, ownedBy, letGo>>
  BY DEF ReactionEnds, OnTop, engineState, hostState
<1>2. PICK a : a = FrameWith("end", Top.out, Top.hit)
  OBVIOUS
<1>3. Top.hit \in BOOLEAN /\ stop' = Top.hit /\ reactions \in Nat /\ stack' = Append(Front(stack), a)
  BY <1>1, <1>2, FrameNow DEF ScriptFrames, FrameWith
<1>4. "end" = "end" => Top.out = NoObject
  BY <1>1
<1>5. PICK at \in {"script", "end", "reaction"} : at = "end"
  OBVIOUS
<1> QED BY <1>1, <1>2, <1>3, <1>4, <1>5, TopGoesOn

\* What a call answers is kept under a number of its own.
LEMMA KeptAsAnswer ==
  ASSUME NEW s, NEW ld, NEW ob, NEW ns, NEW hh, NEW lr, NEW gy, NEW cd, NEW re, NEW st, NEW wh, NEW ow, NEW lg,
         ScriptIs(s, ld, ob, ns, hh, lr, gy, cd, re, st, wh, ow, lg),
         s # <<>>, IsFrame(Last(s)), Last(s).id = 0, Last(s).does = "call",
         NEW a \in ScriptFrames, a.does = "call", a.lib = Last(s).lib, a.id = ns + 1, a.at = "end", a.out = NoObject,
         a.outer = Last(s).outer, a.looped = Last(s).looped, a.hit = Last(s).hit,
         NEW ob2, ob2 = IF ld[a.lib] = "open" THEN ob \cup {<<a.lib, ns + 1>>} ELSE ob,
         HostFits(Append(Front(s), a), ld, gy, cd, wh, ow, lg)
  PROVE  ScriptIs(Append(Front(s), a), ld, ob2, ns + 1, hh, lr, gy, cd, re, st, wh, ow, lg)
<1>1. s \in Seq(Activities) /\ a \in Activities /\ IsFrame(a) /\ ob \in SUBSET (Scripts \X Nat) /\ ns \in Nat
  BY DEF ScriptIs, ScriptTyped, Activities, ScriptFrames, IsFrame
<1>2. PICK t : t = Append(Front(s), a)
  OBVIOUS
<1>3. PICK n \in Nat : /\ Len(s) = n + 1 /\ Last(s) = s[n + 1] /\ s[n + 1] \in Activities
                       /\ TopOnly(t, s, n) /\ Len(t) = n + 1 /\ t[n + 1] = a
  BY <1>1, <1>2, Retopped
<1>4. t \in Seq(Activities) /\ n + 1 \in 1 .. Len(s) /\ n + 1 \in 1 .. Len(t) /\ (n + 1) - 1 = n
  BY <1>3 DEF TopOnly
<1>5. StackIs(t, re, st)
  <2>1. StackIs(s, re, st)
    BY DEF ScriptIs
  <2>2. EnteredAt(a, s, n)
    BY <1>3, <1>4, <2>1 DEF StackIs, EnteredAt
  <2>3. ~NoneOpen(t, Len(t)) /\ ~RunsAlone(a)
    BY <1>1, <1>3, <1>4 DEF NoneOpen, RunsAlone
  <2>4. st = TRUE <=> HitAt(t, Len(t))
    BY <2>1, <1>1, <1>3 DEF StackIs, HitAt
  <2> QED BY <1>1, <1>3, <2>1, <2>2, <2>3, <2>4, StackKept
<1>6. ServedFits(s, ld, ob, ns, hh, lr)
  BY DEF ScriptIs
<1>7. \A i \in 1 .. n : i \in 1 .. Len(s) /\ i \in 1 .. Len(t) /\ t[i] = s[i]
  BY <1>3 DEF TopOnly
<1>8. /\ \A i \in 1 .. Len(t) : i \in 1 .. n \/ i = n + 1
      /\ \A i \in 1 .. Len(s) : i \in 1 .. n \/ i = n + 1
  BY <1>3
<1>9. \A i \in 1 .. n : IsFrame(s[i]) => s[i].id \in Nat /\ FrameFits(s[i], ld, ob, ns, hh) /\ s[i].id # ns + 1
  <2> SUFFICES ASSUME NEW i \in 1 .. n, IsFrame(s[i])
               PROVE  s[i].id \in Nat /\ FrameFits(s[i], ld, ob, ns, hh) /\ s[i].id # ns + 1
    OBVIOUS
  <2>1. s[i].id \in Nat /\ FrameFits(s[i], ld, ob, ns, hh)
    BY <1>6, <1>7, <1>1, ActivityIs, ActivitiesAre DEF ScriptFrames, ServedFits
  <2>2. s[i].id # 0 => s[i].id <= ns
    BY <2>1 DEF FrameFits
  <2> QED BY <1>1, <2>1, <2>2
<1>a. PICK g : g = <<a.lib, ns + 1>>
  OBVIOUS
<1>b. g[2] = ns + 1 /\ ob \subseteq ob2 /\ ob2 \subseteq ob \cup {g} /\ (ld[a.lib] = "open" => g \in ob2) /\ g \in Scripts \X Nat
  BY <1>1, <1>a DEF ScriptFrames
<1>c. g \notin hh
  BY <1>b, <1>6, <1>1 DEF ServedFits
<1>d. \A x : ToAnswer(t, x) <=> x = g \/ ToAnswer(s, x)
  <2>1. ASSUME NEW x, NEW i \in 1 .. Len(t), IsFrame(t[i]), t[i].id # 0, x = <<t[i].lib, t[i].id>> PROVE x = g \/ ToAnswer(s, x)
    BY <1>3, <1>7, <1>8, <1>a, <2>1 DEF ToAnswer
  <2>2. ASSUME NEW x, NEW i \in 1 .. Len(s), IsFrame(s[i]), s[i].id # 0, x = <<s[i].lib, s[i].id>> PROVE ToAnswer(t, x)
    BY <1>3, <1>7, <1>8, <2>2 DEF ToAnswer
  <2>3. ToAnswer(t, g)
    BY <1>1, <1>3, <1>4, <1>a DEF ToAnswer
  <2> QED BY <2>1, <2>2, <2>3 DEF ToAnswer
<1>e. \A x : WaitsLate(t, lr, x) <=> WaitsLate(s, lr, x)
  <2>1. ASSUME NEW x, WaitsLate(t, lr, x) PROVE WaitsLate(s, lr, x)
    <3>1. \A k \in 1 .. Len(lr) : lr[k] = x => WaitsLate(s, lr, x)
      BY DEF WaitsLate
    <3> QED BY <1>1, <1>3, <2>1, <3>1, LateFrom
  <2>2. ASSUME NEW x, WaitsLate(s, lr, x) PROVE WaitsLate(t, lr, x)
    <3>1. \A k \in 1 .. Len(lr) : lr[k] = x => WaitsLate(t, lr, x)
      BY DEF WaitsLate
    <3> QED BY <1>3, <1>4, <2>2, <1>1, TopEither, <3>1, LateFrom
  <2> QED BY <2>1, <2>2
<1>f. ServedFits(t, ld, ob2, ns + 1, hh, lr)
  <2>1. ASSUME NEW i \in 1 .. Len(t), IsFrame(t[i]) PROVE FrameFits(t[i], ld, ob2, ns + 1, hh)
    <3>1. CASE i \in 1 .. n
      BY <1>b, <1>7, <1>9, <2>1, <3>1, <1>1 DEF FrameFits
    <3>2. CASE i = n + 1
      <4>1. FrameFits(Last(s), ld, ob, ns, hh)
        BY <1>3, <1>4, <1>6 DEF ServedFits
      <4>2. ld[a.lib] \in {"open", "closed"}
        BY <4>1 DEF FrameFits
      <4>3. ns + 1 <= ns + 1
        BY <1>1
      <4> QED BY <1>3, <1>a, <1>b, <1>c, <3>2, <4>2, <4>3 DEF FrameFits
    <3> QED BY <1>8, <3>1, <3>2
  <2>2. ASSUME NEW i \in 1 .. Len(t), NEW j \in 1 .. Len(t), IsFrame(t[i]), IsFrame(t[j]), t[i].id # 0, t[i].id = t[j].id
        PROVE  i = j
    <3>1. CASE i \in 1 .. n /\ j \in 1 .. n
      BY <1>6, <1>7, <2>2, <3>1 DEF ServedFits
    <3>2. CASE i = n + 1 /\ j \in 1 .. n
      BY <1>3, <1>7, <1>9, <2>2, <3>2
    <3>3. CASE i \in 1 .. n /\ j = n + 1
      BY <1>3, <1>7, <1>9, <2>2, <3>3
    <3> QED BY <1>8, <3>1, <3>2, <3>3
  <2>3. ASSUME NEW x \in Scripts \X Nat, WaitsLate(t, lr, x) PROVE x[2] <= ns + 1 /\ x \notin hh /\ ~ToAnswer(t, x)
    BY <1>b, <1>d, <1>6, <1>e, <2>3, <1>1 DEF ServedFits
  <2>4. 1 .. ns \subseteq 1 .. ns + 1 /\ ns + 1 \in 1 .. ns + 1
    BY <1>1
  <2>5. \A x \in hh : x[2] \in 1 .. ns + 1 /\ ld[x[1]] \in {"open", "closed"} /\ (ld[x[1]] = "open" => x \in ob2)
    BY <1>6, <1>b, <2>4 DEF ServedFits
  <2>6. \A x \in ob2 : x[2] \in 1 .. ns + 1 /\ (x \in hh \/ WaitsLate(t, lr, x) \/ ToAnswer(t, x))
    BY <1>6, <1>b, <1>d, <1>e, <2>4 DEF ServedFits
  <2> QED BY <2>1, <2>2, <2>3, <2>5, <2>6 DEF ServedFits
<1>g. ScriptTyped(t, ld, ob2, ns + 1, hh, lr, gy, cd, re, st, wh, ow, lg)
  BY <1>1, <1>4, <1>b DEF ScriptIs, ScriptTyped
<1>h. HostFits(t, ld, gy, cd, wh, ow, lg)
  BY <1>2
<1> QED BY <1>2, <1>5, <1>f, <1>g, <1>h DEF ScriptIs

LEMMA ScriptEndsKeeps ==
  ASSUME ScriptInv, NEW b \in BOOLEAN, ScriptEnds(b)
  PROVE  ScriptInv'
<1>1. /\ InFrame /\ Top.at = "script" /\ Top.out = NoObject
      /\ b => ~stop /\ Top.does = "call"
      /\ stack' = Append(Front(stack), [Top EXCEPT !.at = "end", !.id = IF b THEN nextServed + 1 ELSE 0])
      /\ nextServed' = IF b THEN nextServed + 1 ELSE nextServed
      /\ objects' = IF b /\ loaded[Top.lib] = "open" THEN objects \cup {<<Top.lib, nextServed + 1>>} ELSE objects
      /\ UNCHANGED <<loaded, heldByHost, lateReleases, graveyard, collectDue, reactions, stop, where, ownedBy, letGo>>
  BY DEF ScriptEnds, OnTop, hostState
<1>2. /\ Top \in ScriptFrames /\ IsFrame(Top) /\ Top.id = 0 /\ stop = Top.hit /\ reactions \in Nat /\ Top.hit \in BOOLEAN
  BY <1>1, FrameNow DEF FrameFits, ScriptFrames
<1>3. CASE ~b
  <2>1. PICK a : a = FrameWith("end", Top.out, Top.hit)
    OBVIOUS
  <2>2. stop' = Top.hit /\ reactions' = reactions /\ stack' = Append(Front(stack), a)
    BY <1>1, <1>2, <1>3, <2>1 DEF ScriptFrames, FrameWith
  <2>3. UNCHANGED <<loaded, objects, nextServed, heldByHost, lateReleases, graveyard, collectDue, where, ownedBy, letGo>>
    BY <1>1, <1>3
  <2>4. PICK at \in {"script", "end", "reaction"} : at = "end"
    OBVIOUS
  <2> QED BY <1>1, <1>2, <2>1, <2>2, <2>3, <2>4, TopGoesOn
<1>4. CASE b
  <2>1. PICK a : a = [Top EXCEPT !.at = "end", !.id = nextServed + 1]
    OBVIOUS
  <2>a. nextServed \in Nat /\ Top = Last(stack) /\ stack # <<>>
    BY <1>1, FrameNow DEF ScriptInv, ScriptIs, ScriptTyped, Top
  <2>2. /\ a \in ScriptFrames /\ a.does = "call" /\ a.lib = Top.lib /\ a.id = nextServed + 1 /\ a.at = "end"
        /\ a.out = NoObject /\ a.outer = Top.outer /\ a.looped = Top.looped /\ a.hit = Top.hit
    <3>1. PICK m \in Nat : m = nextServed + 1
      BY <2>a
    <3> QED BY <3>1, <1>1, <1>2, <1>4, <2>1 DEF ScriptFrames
  <2>3. a \in Activities /\ IsFrame(a)
    BY <2>2 DEF Activities, ScriptFrames, IsFrame
  <2>4. PICK ob2 : ob2 = IF loaded[a.lib] = "open" THEN objects \cup {<<a.lib, nextServed + 1>>} ELSE objects
    OBVIOUS
  <2>5. ScriptIs(Append(Front(stack), a), loaded, ob2, nextServed + 1, heldByHost, lateReleases, graveyard, collectDue,
                 reactions, stop, where, ownedBy, letGo)
    BY <2>2, <1>2, <2>3, <2>a, <1>1, <1>4, TopStays, <2>4, KeptAsAnswer
      DEF ScriptInv, HoldsIn, Collecting
  <2>6. stack' = Append(Front(stack), a) /\ nextServed' = nextServed + 1 /\ objects' = ob2
    BY <1>1, <1>4, <2>1, <2>2, <2>4
  <2>b. Len(Append(Front(stack), a)) # 0
    <3>1. PICK n \in Nat : Len(Append(Front(stack), a)) = n + 1
      BY <2>3, <2>a, <1>1, FrameNow, Retopped
    <3> QED BY <3>1
  <2> QED BY <1>1, <2>5, <2>6, <2>b DEF ScriptInv, SettledWhen
<1> QED BY <1>3, <1>4

-----------------------------------------------------------------------------
\* Script: the ends of frames.

\* The number of an answer is given on, to the host or to nobody.
LEMMA AnswerGoes ==
  ASSUME NEW s, NEW ld, NEW ob, NEW ns, NEW hh, NEW lr, NEW gy, NEW cd, NEW re, NEW st, NEW wh, NEW ow, NEW lg,
         ScriptIs(s, ld, ob, ns, hh, lr, gy, cd, re, st, wh, ow, lg),
         s # <<>>, IsFrame(Last(s)), Last(s).id # 0,
         NEW g, g = <<Last(s).lib, Last(s).id>>,
         NEW a \in ScriptFrames, a = [Last(s) EXCEPT !.id = 0],
         NEW ob2, NEW hh2, \/ hh2 = hh \cup {g} /\ ob2 = ob
                           \/ hh2 = hh /\ ob2 = ob \ {g}
  PROVE  ScriptIs(Append(Front(s), a), ld, ob2, ns, hh2, lr, gy, cd, re, st, wh, ow, lg)
<1>1. s \in Seq(Activities) /\ a \in Activities /\ IsFrame(a) /\ ob \in SUBSET (Scripts \X Nat) /\ ns \in Nat
  BY DEF ScriptIs, ScriptTyped, Activities, ScriptFrames, IsFrame
<1>2. PICK t : t = Append(Front(s), a)
  OBVIOUS
<1>3. PICK n \in Nat : /\ Len(s) = n + 1 /\ Last(s) = s[n + 1] /\ s[n + 1] \in Activities
                       /\ TopOnly(t, s, n) /\ Len(t) = n + 1 /\ t[n + 1] = a
  BY <1>1, <1>2, Retopped
<1>4. t \in Seq(Activities) /\ n + 1 \in 1 .. Len(s) /\ n + 1 \in 1 .. Len(t) /\ (n + 1) - 1 = n
  BY <1>3 DEF TopOnly
<1>0. /\ Last(s) \in ScriptFrames /\ a.does = Last(s).does /\ a.lib = Last(s).lib /\ a.at = Last(s).at /\ a.id = 0
      /\ a.hit = Last(s).hit /\ a.outer = Last(s).outer /\ a.out = Last(s).out /\ a.looped = Last(s).looped
  BY <1>3, ActivityIs DEF ScriptFrames
<1>5. StackIs(t, re, st)
  <2>1. StackIs(s, re, st)
    BY DEF ScriptIs
  <2>2. EnteredAt(a, s, n)
    BY <1>0, <1>3, <1>4, <2>1 DEF StackIs, EnteredAt
  <2>3. ~NoneOpen(t, Len(t))
    BY <1>1, <1>3, <1>4 DEF NoneOpen
  <2>4. st = TRUE <=> HitAt(t, Len(t))
    BY <2>1, <1>0, <1>1, <1>3 DEF StackIs, HitAt
  <2>5. RunsAlone(a) => NoneOpen(s, n)
    BY <1>4, <2>1, <1>0, <1>1, <1>3 DEF StackIs, RunsAlone
  <2> QED BY <1>1, <1>3, <2>1, <2>2, <2>3, <2>4, <2>5, StackKept
<1>6. ServedFits(s, ld, ob, ns, hh, lr)
  BY DEF ScriptIs
<1>7. \A i \in 1 .. n : i \in 1 .. Len(s) /\ i \in 1 .. Len(t) /\ t[i] = s[i] /\ i # n + 1
  BY <1>1, <1>3, TopIs
<1>8. /\ \A i \in 1 .. Len(t) : i \in 1 .. n \/ i = n + 1
      /\ \A i \in 1 .. Len(s) : i \in 1 .. n \/ i = n + 1
  BY <1>3
<1>9. \A i \in 1 .. n : IsFrame(s[i]) /\ s[i].id # 0 => <<s[i].lib, s[i].id>> # g
  <2> SUFFICES ASSUME NEW i \in 1 .. n, IsFrame(s[i]), s[i].id # 0, <<s[i].lib, s[i].id>> = g PROVE FALSE
    OBVIOUS
  <2> QED BY <1>4, <1>6, <1>3, <1>7 DEF ServedFits
<1>a. /\ g \in Scripts \X Nat /\ g \notin hh /\ g[2] \in 1 .. ns /\ ld[g[1]] \in {"open", "closed"}
      /\ ld[g[1]] = "open" => g \in ob
  <2>1. FrameFits(Last(s), ld, ob, ns, hh)
    BY <1>3, <1>4, <1>6 DEF ServedFits
  <2>2. Last(s).id \in Nat /\ Last(s).lib \in Scripts
    BY <1>0 DEF ScriptFrames
  <2>3. Last(s).id \in 1 .. ns
    BY <1>1, <2>1, <2>2 DEF FrameFits
  <2> QED BY <2>1, <2>2, <2>3 DEF FrameFits
<1>b. ToAnswer(s, g)
  BY <1>3, <1>4 DEF ToAnswer
<1>d. \A x : ToAnswer(t, x) <=> x # g /\ ToAnswer(s, x)
  <2>1. ASSUME NEW x, NEW i \in 1 .. Len(t), IsFrame(t[i]), t[i].id # 0, x = <<t[i].lib, t[i].id>> PROVE x # g /\ ToAnswer(s, x)
    BY <1>7, <1>9, <2>1, <1>0, <1>3, <1>8 DEF ToAnswer
  <2>2. ASSUME NEW x, NEW i \in 1 .. Len(s), IsFrame(s[i]), s[i].id # 0, x = <<s[i].lib, s[i].id>>, x # g PROVE ToAnswer(t, x)
    BY <1>7, <2>2, <1>3, <1>8 DEF ToAnswer
  <2> QED BY <2>1, <2>2 DEF ToAnswer
<1>e. \A x : WaitsLate(t, lr, x) <=> WaitsLate(s, lr, x)
  <2>1. ASSUME NEW x, WaitsLate(t, lr, x) PROVE WaitsLate(s, lr, x)
    <3>1. \A k \in 1 .. Len(lr) : lr[k] = x => WaitsLate(s, lr, x)
      BY DEF WaitsLate
    <3> QED BY <1>1, <1>3, <2>1, <3>1, LateFrom
  <2>2. ASSUME NEW x, WaitsLate(s, lr, x) PROVE WaitsLate(t, lr, x)
    <3>1. \A k \in 1 .. Len(lr) : lr[k] = x => WaitsLate(t, lr, x)
      BY DEF WaitsLate
    <3> QED BY <1>3, <1>4, <2>2, <1>1, TopEither, <3>1, LateFrom
  <2> QED BY <2>1, <2>2
<1>f. ServedFits(t, ld, ob2, ns, hh2, lr)
  <2>1. ASSUME NEW i \in 1 .. Len(t), IsFrame(t[i]) PROVE FrameFits(t[i], ld, ob2, ns, hh2)
    <3>1. CASE i \in 1 .. n
      BY <1>6, <1>7, <1>9, <2>1, <3>1 DEF FrameFits, ServedFits
    <3>2. CASE i = n + 1
      <4>1. FrameFits(Last(s), ld, ob, ns, hh)
        BY <1>3, <1>4, <1>6 DEF ServedFits
      <4> QED BY <1>0, <1>3, <3>2, <4>1 DEF FrameFits
    <3> QED BY <1>8, <3>1, <3>2
  <2>2. \A i, j \in 1 .. Len(t) : IsFrame(t[i]) /\ IsFrame(t[j]) /\ t[i].id # 0 /\ t[i].id = t[j].id => i = j
    <3>1. ASSUME NEW i \in 1 .. Len(t), IsFrame(t[i]), t[i].id # 0 PROVE i \in 1 .. Len(s) /\ t[i] = s[i]
      BY <1>0, <1>3, <1>7, <1>8, <3>1
    <3> QED BY <1>6, <3>1 DEF ServedFits
  <2>3. ASSUME NEW x \in Scripts \X Nat, WaitsLate(t, lr, x) PROVE x[2] <= ns /\ x \notin hh2 /\ ~ToAnswer(t, x)
    BY <1>b, <1>d, <1>6, <1>e, <2>3 DEF ServedFits
  <2>4. \A x \in hh2 : x[2] \in 1 .. ns /\ ld[x[1]] \in {"open", "closed"} /\ (ld[x[1]] = "open" => x \in ob2)
    BY <1>6, <1>a DEF ServedFits
  <2>5. \A x \in ob2 : x[2] \in 1 .. ns /\ (x \in hh2 \/ WaitsLate(t, lr, x) \/ ToAnswer(t, x))
    BY <1>6, <1>d, <1>e DEF ServedFits
  <2> QED BY <2>1, <2>2, <2>3, <2>4, <2>5 DEF ServedFits
<1>g. ScriptTyped(t, ld, ob2, ns, hh2, lr, gy, cd, re, st, wh, ow, lg)
  BY <1>4, <1>a DEF ScriptIs, ScriptTyped
<1>h. HostFits(t, ld, gy, cd, wh, ow, lg)
  BY <1>1, <1>2, <1>0, HostStays DEF HoldsIn, Collecting
<1> QED BY <1>2, <1>5, <1>f, <1>g, <1>h DEF ScriptIs

\* A stack with another top, without it.
LEMMA FrontOf ==
  ASSUME NEW s \in Seq(Activities), s # <<>>, NEW a \in Activities
  PROVE  /\ Front(Append(Front(s), a)) = Front(s) /\ Last(Append(Front(s), a)) = a
         /\ Append(Front(s), a) # <<>> /\ Len(Append(Front(s), a)) = Len(s)
         /\ NoneOpen(Append(Front(s), a), Len(s) - 1) <=> NoneOpen(s, Len(s) - 1)
<1>1. PICK f \in Seq(Activities) : f = Front(s)
  BY Shrunk
<1>2. PICK n \in Nat : Len(s) = n + 1 /\ Len(f) = n /\ \A i \in 1 .. n : f[i] = s[i]
  BY <1>1, Shrunk
<1>3. PICK t \in Seq(Activities) : t = Append(f, a)
  BY Grown
<1>4. Len(t) = n + 1 /\ t[n + 1] = a /\ (\A i \in 1 .. n : t[i] = f[i]) /\ t # <<>>
  BY <1>2, <1>3
<1>5. PICK u \in Seq(Activities) : u = Front(t)
  BY <1>4, Shrunk
<1>6. Len(u) = n /\ (\A i \in 1 .. n : u[i] = t[i]) /\ Last(t) = a
  <2>1. PICK m \in Nat : Len(t) = m + 1 /\ Last(t) = t[m + 1] /\ Len(u) = m /\ \A i \in 1 .. m : u[i] = t[i]
    BY <1>4, <1>5, Shrunk
  <2>2. m = n
    BY <1>4, <2>1
  <2> QED BY <1>4, <2>1, <2>2
<1>7. u = f
  BY <1>2, <1>4, <1>6, SeqEqual
<1>8. NoneOpen(t, n) <=> NoneOpen(s, n)
  BY <1>2, <1>4 DEF NoneOpen
<1>9. Len(s) - 1 = n
  BY <1>2
<1> QED BY <1>1, <1>2, <1>3, <1>4, <1>5, <1>6, <1>7, <1>8, <1>9

\* A frame ends that answers nothing; what it found when it was entered is back.
LEMMA FrameEndsIs ==
  ASSUME ScriptAssumption, ScriptInv, NEW does, FrameEnds(does), does # "call", NEW cd2 \in BOOLEAN,
         cd2 = TRUE \/ (cd2 = collectDue /\ does # "close")
  PROVE  /\ ScriptIs(Front(stack), loaded, objects, nextServed, heldByHost, lateReleases, graveyard, cd2,
                     reactions', stop', where, ownedBy, letGo)
         /\ reactions' = reactions /\ nextServed' = nextServed /\ ownedBy' = ownedBy /\ letGo' = letGo
         /\ Top \in ScriptFrames /\ (Top.looped = TRUE => Len(Front(stack)) # 0) /\ Top.does = does
<1>1. /\ InFrame /\ Top.does = does /\ Top.at = "end" /\ (Drains => reactions = 0) /\ stop' = Top.outer
      /\ reactions' = reactions /\ nextServed' = nextServed /\ ownedBy' = ownedBy /\ letGo' = letGo
  BY DEF FrameEnds, Restored
<1>2. /\ ScriptIs(stack, loaded, objects, nextServed, heldByHost, lateReleases, graveyard, collectDue,
                  reactions, stop, where, ownedBy, letGo)
      /\ Top = Last(stack)
  BY DEF ScriptInv, Top
<1>3. /\ stack # <<>> /\ IsFrame(Top) /\ Top \in ScriptFrames /\ stack \in Seq(Activities) /\ Top.id = 0 /\ Top.out = NoObject
      /\ Drains <=> NoneOpen(stack, Len(stack) - 1)
  BY <1>1, FrameNow DEF FrameFits
<1>4. ScriptIs(Front(stack), loaded, objects, nextServed, heldByHost, lateReleases, graveyard, cd2,
               reactions, Last(stack).outer, where, ownedBy, letGo)
  BY <1>2, <1>3, <1>1, PopsFrame
<1>5. Top.looped = TRUE => Len(Front(stack)) # 0
  <2>1. EnteredAt(Top, stack, Len(stack) - 1)
    BY <1>3, TopNow
  <2>2. PICK n \in Nat : Len(stack) = n + 1 /\ Len(Front(stack)) = n
    BY <1>3, Shrunk
  <2>3. Len(stack) - 1 = n
    BY <2>2
  <2> QED BY <2>1, <2>2, <2>3 DEF EnteredAt
<1> QED BY <1>1, <1>2, <1>3, <1>4, <1>5

LEMMA DisposeReturnsKeeps ==
  ASSUME ScriptAssumption, ScriptInv, DisposeReturns
  PROVE  ScriptInv'
<1>1. FrameEnds("dispose") /\ loaded' = loaded /\ objects' = objects /\ heldByHost' = heldByHost
  BY DEF DisposeReturns
<1>2. /\ ScriptIs(Front(stack), loaded, objects, nextServed, heldByHost, lateReleases, graveyard, collectDue,
                  reactions', stop', where, ownedBy, letGo)
      /\ reactions' = reactions /\ nextServed' = nextServed /\ ownedBy' = ownedBy /\ letGo' = letGo
      /\ Top \in ScriptFrames /\ (Top.looped = TRUE => Len(Front(stack)) # 0)
  <2>1. "dispose" # "call" /\ "dispose" # "close"
    OBVIOUS
  <2> QED BY <1>1, <2>1, FrameEndsIs DEF ScriptInv, ScriptIs, ScriptTyped
<1>3. CASE Top.looped
  BY <1>1, <1>2, <1>3 DEF ScriptInv, SettledWhen, DisposeReturns, ScriptFrames
<1>4. CASE ~Top.looped
  <2>1. /\ ScriptIs(stack', loaded, objects, nextServed, heldByHost, lateReleases', graveyard', collectDue',
                    reactions', stop', where', ownedBy, letGo)
        /\ SettledWhen(stack', lateReleases', graveyard', collectDue')
    <3>1. PICK re : re = reactions'
      OBVIOUS
    <3>2. PICK st : st = stop'
      OBVIOUS
    <3>3. /\ ScriptIs(stack', loaded, objects, nextServed, heldByHost, lateReleases', graveyard', collectDue',
                      re, st, where', ownedBy, letGo)
          /\ SettledWhen(stack', lateReleases', graveyard', collectDue')
      BY <1>4, <1>2, <3>1, <3>2, LeavesIs DEF DisposeReturns
    <3> QED BY <3>1, <3>2, <3>3
  <2> QED BY <1>1, <1>2, <2>1 DEF ScriptInv
<1> QED BY <1>3, <1>4

LEMMA CloseReturnsKeeps ==
  ASSUME ScriptAssumption, ScriptInv, CloseReturns
  PROVE  ScriptInv'
<1>1. /\ FrameEnds("close") /\ loaded' = loaded /\ objects' = objects /\ heldByHost' = heldByHost
      /\ LeavesEngine(Front(stack), TRUE)
  BY DEF CloseReturns
<1>2. /\ ScriptIs(Front(stack), loaded, objects, nextServed, heldByHost, lateReleases, graveyard, TRUE,
                  reactions', stop', where, ownedBy, letGo)
      /\ reactions' = reactions /\ nextServed' = nextServed /\ ownedBy' = ownedBy /\ letGo' = letGo
  BY <1>1, FrameEndsIs
<1>3. PICK re : re = reactions'
  OBVIOUS
<1>4. PICK st : st = stop'
  OBVIOUS
<1>5. /\ ScriptIs(stack', loaded, objects, nextServed, heldByHost, lateReleases', graveyard', collectDue',
                  re, st, where', ownedBy, letGo)
      /\ SettledWhen(stack', lateReleases', graveyard', collectDue')
  BY <1>1, <1>2, <1>3, <1>4, LeavesIs
<1> QED BY <1>1, <1>2, <1>3, <1>4, <1>5 DEF ScriptInv

LEMMA CallReturnsKeeps ==
  ASSUME ScriptAssumption, ScriptInv, CallReturns
  PROVE  ScriptInv'
<1>g. PICK g : g = <<Top.lib, Top.id>>
  OBVIOUS
<1>1. /\ InFrame /\ Top.does = "call" /\ Top.at = "end" /\ (Drains => reactions = 0) /\ stop' = Top.outer
      /\ reactions' = reactions /\ nextServed' = nextServed /\ ownedBy' = ownedBy /\ letGo' = letGo /\ loaded' = loaded
      /\ heldByHost' = IF Top.id # 0 /\ ~stop THEN heldByHost \cup {g} ELSE heldByHost
      /\ objects' = IF stop THEN objects \ {g} ELSE objects
      /\ LeavesEngine(Front(stack), collectDue)
  BY <1>g DEF CallReturns, FrameEnds, Restored
<1>2. /\ ScriptIs(stack, loaded, objects, nextServed, heldByHost, lateReleases, graveyard, collectDue,
                  reactions, stop, where, ownedBy, letGo)
      /\ Top = Last(stack) /\ collectDue \in BOOLEAN
  BY DEF ScriptInv, Top, ScriptIs, ScriptTyped
<1>3. /\ stack # <<>> /\ IsFrame(Top) /\ Top \in ScriptFrames /\ stack \in Seq(Activities) /\ Top.out = NoObject
      /\ Drains <=> NoneOpen(stack, Len(stack) - 1)
  BY <1>1, FrameNow DEF FrameFits
<1>4. PICK hh2 : hh2 = IF Top.id # 0 /\ ~stop THEN heldByHost \cup {g} ELSE heldByHost
  OBVIOUS
<1>5. PICK ob2 : ob2 = IF stop THEN objects \ {g} ELSE objects
  OBVIOUS
<1>6. PICK outer : outer = Top.outer
  OBVIOUS
<1>7. ScriptIs(Front(stack), loaded, ob2, nextServed, hh2, lateReleases, graveyard, collectDue,
               reactions, outer, where, ownedBy, letGo)
  <2>1. CASE Top.id = 0
    <3>1. ScriptIs(Front(stack), loaded, objects, nextServed, heldByHost, lateReleases, graveyard, collectDue,
                   reactions, Last(stack).outer, where, ownedBy, letGo)
      BY <1>2, <1>3, <1>1, <2>1, PopsFrame
    <3>2. objects \ {g} = objects
      <4> QED BY <1>2, <1>g, <2>1 DEF ScriptIs, ServedFits
    <3>3. hh2 = heldByHost /\ ob2 = objects
      BY <1>4, <1>5, <2>1, <3>2
    <3> QED BY <1>2, <1>6, <3>1, <3>3
  <2>2. CASE Top.id # 0
    <3>1. PICK a : a = [Last(stack) EXCEPT !.id = 0]
      OBVIOUS
    <3>2. /\ a \in ScriptFrames /\ a.does = "call" /\ a.id = 0 /\ a.out = NoObject /\ a.outer = outer
          /\ a \in Activities /\ IsFrame(a)
      BY <1>1, <1>2, <1>3, <1>6, <3>1 DEF Activities, ScriptFrames, IsFrame
    <3>3. PICK t : t = Append(Front(stack), a)
      OBVIOUS
    <3>4. \/ hh2 = heldByHost \cup {g} /\ ob2 = objects
          \/ hh2 = heldByHost /\ ob2 = objects \ {g}
      BY <1>4, <1>5, <2>2
    <3>5. ScriptIs(t, loaded, ob2, nextServed, hh2, lateReleases, graveyard, collectDue,
                   reactions, stop, where, ownedBy, letGo)
      BY <3>3, <1>2, <1>3, <3>1, <3>2, <3>4, <1>g, <2>2, AnswerGoes
    <3>6. /\ Front(t) = Front(stack) /\ Last(t) = a /\ t # <<>> /\ Len(t) = Len(stack)
          /\ NoneOpen(t, Len(stack) - 1) <=> NoneOpen(stack, Len(stack) - 1)
      BY <1>3, <3>2, <3>3, FrontOf
    <3>7. ScriptIs(Front(t), loaded, ob2, nextServed, hh2, lateReleases, graveyard, collectDue,
                   reactions, Last(t).outer, where, ownedBy, letGo)
      BY <1>2, <3>5, <3>6, <1>1, <1>3, <3>2, PopsFrame
    <3> QED BY <3>2, <3>6, <3>7
  <2> QED BY <2>1, <2>2
<1>8. /\ ScriptIs(stack', loaded, ob2, nextServed, hh2, lateReleases', graveyard', collectDue',
                  reactions, outer, where', ownedBy, letGo)
      /\ SettledWhen(stack', lateReleases', graveyard', collectDue')
  BY <1>1, <1>7, LeavesIs
<1>9. heldByHost' = hh2 /\ objects' = ob2 /\ stop' = outer
  BY <1>1, <1>4, <1>5, <1>6
<1> QED BY <1>1, <1>8, <1>9 DEF ScriptInv

\* A library that was opening is open, or is given up.
LEMMA LoadedIs ==
  ASSUME NEW s, NEW ld, NEW ob, NEW ns, NEW hh, NEW lr, NEW gy, NEW cd, NEW re, NEW st, NEW wh, NEW ow, NEW lg,
         ScriptIs(s, ld, ob, ns, hh, lr, gy, cd, re, st, wh, ow, lg), NoneOpen(s, Len(s)),
         NEW l \in Scripts, ld[l] = "opening", NEW v \in {"open", "closed"}, NEW ld2, ld2 = [ld EXCEPT ![l] = v]
  PROVE  ScriptIs(s, ld2, ob, ns, hh, lr, gy, cd, re, st, wh, ow, lg)
<1>1. ld \in [Scripts -> {"unopened", "opening", "open", "closed"}] /\ hh \in SUBSET (Scripts \X Nat)
  BY DEF ScriptIs, ScriptTyped
<1>2. ld2 \in [Scripts -> {"unopened", "opening", "open", "closed"}] /\ \A m \in Scripts : m # l => ld2[m] = ld[m]
  BY <1>1
<1>3. ServedFits(s, ld2, ob, ns, hh, lr)
  <2>1. ServedFits(s, ld, ob, ns, hh, lr)
    BY DEF ScriptIs
  <2>2. \A i \in 1 .. Len(s) : IsFrame(s[i]) => FrameFits(s[i], ld2, ob, ns, hh)
    BY DEF NoneOpen
  <2>3. \A g \in hh : ld2[g[1]] = ld[g[1]]
    BY <1>2, <1>1, <2>1 DEF ServedFits
  <2> QED BY <2>1, <2>2, <2>3 DEF ServedFits
<1>4. HostFits(s, ld2, gy, cd, wh, ow, lg)
  <2>1. HostFits(s, ld, gy, cd, wh, ow, lg)
    BY DEF ScriptIs
  <2>2. ASSUME NEW o \in HostObjects PROVE ObjectFits(s, ld2, gy, cd, wh, ow, lg, o)
    <3> QED BY <2>1, <1>2 DEF ObjectFits, HostFits
  <2> QED BY <2>1, <2>2 DEF HostFits
<1> QED BY <1>2, <1>3, <1>4 DEF ScriptIs, ScriptTyped

LEMMA OpenReturnsKeeps ==
  ASSUME ScriptAssumption, ScriptInv, NEW ok \in BOOLEAN, OpenReturns(ok)
  PROVE  ScriptInv'
<1>1. /\ FrameEnds("open") /\ objects' = objects /\ heldByHost' = heldByHost
      /\ loaded' = [loaded EXCEPT ![Top.lib] = IF ok THEN "open" ELSE "closed"]
      /\ stop' = Top.outer /\ InFrame /\ Top.does = "open"
  BY DEF OpenReturns, FrameEnds, Restored
<1>2. /\ ScriptIs(Front(stack), loaded, objects, nextServed, heldByHost, lateReleases, graveyard, collectDue,
                  reactions', stop', where, ownedBy, letGo)
      /\ reactions' = reactions /\ nextServed' = nextServed /\ ownedBy' = ownedBy /\ letGo' = letGo
      /\ Top \in ScriptFrames
  BY <1>1, FrameEndsIs DEF ScriptInv, ScriptIs, ScriptTyped
<1>3. PICK outer : outer = Top.outer
  OBVIOUS
<1>4. PICK b : b = Front(stack)
  OBVIOUS
<1>5. PICK l \in Scripts : l = Top.lib
  BY <1>2 DEF ScriptFrames
<1>6. NoneOpen(b, Len(b)) /\ loaded[l] = "opening" /\ outer = FALSE /\ b \in Seq(Activities)
  <2>1. /\ stack # <<>> /\ IsFrame(Top) /\ stack \in Seq(Activities)
        /\ FrameFits(Top, loaded, objects, nextServed, heldByHost) /\ RunsAlone(Top) /\ Top \in ScriptFrames
    BY <1>1, FrameNow DEF RunsAlone
  <2>2. NoneOpen(stack, Len(stack) - 1) /\ EnteredAt(Top, stack, Len(stack) - 1)
    BY <2>1, TopNow
  <2>3. PICK n \in Nat : Len(stack) = n + 1 /\ Len(b) = n /\ (\A i \in 1 .. n : b[i] = stack[i]) /\ b \in Seq(Activities)
    BY <1>4, <2>1, Shrunk
  <2>4. Len(stack) - 1 = n
    BY <2>3
  <2>5. NoneOpen(b, Len(b))
    BY <2>2, <2>3, <2>4 DEF NoneOpen
  <2>6. outer = FALSE
    BY <1>3, <2>1, <2>2, <2>4 DEF EnteredAt, ScriptFrames, HitAt, NoneOpen
  <2> QED BY <1>1, <1>5, <2>1, <2>3, <2>5, <2>6 DEF FrameFits
<1>7. PICK v \in {"open", "closed"} : v = IF ok THEN "open" ELSE "closed"
  OBVIOUS
<1>a. PICK ld : ld = [loaded EXCEPT ![l] = v]
  OBVIOUS
<1>b. ScriptIs(b, ld, objects, nextServed, heldByHost, lateReleases, graveyard, collectDue,
               reactions, outer, where, ownedBy, letGo)
  BY <1>1, <1>2, <1>3, <1>4, <1>6, <1>a, LoadedIs
<1>c. loaded' = ld /\ stop' = outer
  BY <1>1, <1>3, <1>5, <1>7, <1>a
<1>d. CASE ok
  BY <1>1, <1>2, <1>c, <1>b, <1>4, <1>d, LeavesIs DEF ScriptInv, OpenReturns
<1>e. CASE ~ok
  <2>1. PICK a : a = [FrameOf("close", l, FALSE) EXCEPT !.outer = Restored(Top)]
    OBVIOUS
  <2>2. /\ stack' = Append(b, a) /\ collectDue' = collectDue /\ graveyard' = graveyard
        /\ lateReleases' = lateReleases /\ where' = where
    BY <1>4, <1>5, <1>e, <2>1 DEF OpenReturns
  <2>3. /\ a \in ScriptFrames /\ a.does = "close" /\ a.id = 0 /\ a.hit = FALSE /\ a.outer = outer
        /\ a.out = NoObject /\ a.looped = FALSE /\ a.at = "end"
    BY <1>3, <1>6, <2>1 DEF FrameOf, ScriptFrames, Restored
  <2>4. a \in Activities /\ ~RunsAlone(a)
    BY <2>3 DEF Activities, RunsAlone, IsFrame
  <2>5. ScriptIs(Append(b, a), ld, objects, nextServed, heldByHost, lateReleases, graveyard, collectDue,
                 reactions, FALSE, where, ownedBy, letGo)
    BY <1>b, <2>3, <2>4, PushesFrame
  <2>6. Len(Append(b, a)) # 0
    BY <1>6, <2>4, Grown
  <2> QED BY <1>1, <1>2, <1>6, <1>c, <2>2, <2>5, <2>6 DEF ScriptInv, SettledWhen
<1> QED BY <1>d, <1>e

-----------------------------------------------------------------------------
\* Script: settling.
LEMMA SettleNow ==
  ASSUME ScriptInv, Settling
  PROVE  /\ stack # <<>> /\ ~IsFrame(Top) /\ Top \in ScriptSettles /\ Top \in Activities /\ Top = Last(stack)
         /\ NoneOpen(stack, Len(stack)) /\ stack \in Seq(Activities) /\ where \in [HostObjects -> ScriptPlaces]
         /\ \A x \in HostObjects : HoldsIn(Top, x) <=> x \in Top.dead
         /\ ScriptIs(stack, loaded, objects, nextServed, heldByHost, lateReleases, graveyard, collectDue,
                     reactions, stop, where, ownedBy, letGo)
<1>1. stack # <<>> /\ ~IsFrame(Top)
  BY DEF Settling
<1>2. /\ Top \in ScriptSettles /\ Top \in Activities /\ Top = Last(stack) /\ NoneOpen(stack, Len(stack))
      /\ stack \in Seq(Activities)
  BY <1>1, TopNow
<1>3. \A x \in HostObjects : HoldsIn(Top, x) <=> x \in Top.dead
  BY <1>1 DEF HoldsIn
<1> QED BY <1>1, <1>2, <1>3 DEF ScriptInv, ScriptIs, ScriptTyped

\* What is left of what settling took.
SettlesOn(a, dead, late, collect) ==
  /\ a \in ScriptSettles /\ a \in Activities /\ ~IsFrame(a) /\ a.dead = dead /\ a.late = late /\ a.collect = collect
  /\ \A x \in HostObjects : HoldsIn(a, x) <=> x \in dead

SettleWith(dead, late, collect) == [Top EXCEPT !.dead = dead, !.late = late, !.collect = collect]

LEMMA SettleAs ==
  ASSUME ScriptInv, Settling, NEW dead \in SUBSET HostObjects, NEW late \in Seq(Scripts \X Nat), NEW collect \in BOOLEAN
  PROVE  SettlesOn(SettleWith(dead, late, collect), dead, late, collect)
<1>0. PICK a : a = SettleWith(dead, late, collect)
  OBVIOUS
<1>1. SettlesOn(a, dead, late, collect)
  BY <1>0, SettleNow DEF SettlesOn, HoldsIn, ScriptSettles, IsFrame, Activities, SettleWith
<1> QED BY <1>0, <1>1

LEMMA LongAgain ==
  ASSUME NEW s \in Seq(Activities), s # <<>>, NEW a \in Activities
  PROVE  Len(Append(Front(s), a)) # 0
<1>1. PICK n \in Nat : Len(Append(Front(s), a)) = n + 1
  BY Retopped
<1> QED BY <1>1

LEMMA DestroysDeadKeeps ==
  ASSUME ScriptAssumption, ScriptInv, DestroysDead
  PROVE  ScriptInv'
<1>1. Settling
  BY DEF DestroysDead
<1>2. PICK o \in Top.dead : where' = Put(where, o, "gone") /\ stack' = Append(Front(stack), [Top EXCEPT !.dead = Top.dead \ {o}])
  BY DEF DestroysDead, OnTop, Put
<1>3. o \in HostObjects /\ Top.dead \in SUBSET HostObjects /\ Top.late \in Seq(Scripts \X Nat) /\ Top.collect \in BOOLEAN
  BY <1>1, <1>2, SettleNow DEF ScriptSettles
<1>4. PICK dead \in SUBSET HostObjects : dead = Top.dead \ {o}
  BY <1>3
<1>5. PICK a : a = SettleWith(dead, Top.late, Top.collect)
  OBVIOUS
<1>6. SettlesOn(a, dead, Top.late, Top.collect)
  BY <1>1, <1>3, <1>5, SettleAs
<1>7. stack # <<>> /\ ~IsFrame(Top) /\ HoldsIn(Top, o)
  BY <1>1, <1>2, <1>3, SettleNow
<1>a. HostFits(Append(Front(stack), a), loaded, graveyard, collectDue, Put(where, o, "gone"), ownedBy, letGo)
  <2>1. a \in Activities /\ (IsFrame(a) <=> IsFrame(Top)) /\ (Collecting(Top) => Collecting(a)) /\ ~HoldsIn(a, o)
    BY <1>3, <1>4, <1>6, <1>7 DEF SettlesOn, Collecting
  <2>2. \A x \in HostObjects : x # o => (HoldsIn(a, x) <=> HoldsIn(Top, x)) /\ (x \in graveyard <=> x \in graveyard)
    BY <1>1, <1>4, <1>6, SettleNow DEF SettlesOn
  <2>3. "gone" \in ScriptPlaces /\ ("gone" = "grave" <=> o \in graveyard)
    BY <1>7, <1>3, TopHolds DEF ScriptPlaces, PlaceIn
  <2> QED BY <1>3, <1>7, <2>1, <2>2, <2>3, TopMoves
<1>b. PICK wh \in [HostObjects -> ScriptPlaces] : wh = Put(where, o, "gone")
  BY <1>1, SettleNow DEF Put, ScriptPlaces
<1>c. ScriptIs(Append(Front(stack), a), loaded, objects, nextServed, heldByHost, lateReleases, graveyard, collectDue,
               reactions, stop, wh, ownedBy, letGo)
  <2>1. HostFits(Append(Front(stack), a), loaded, graveyard, collectDue, wh, ownedBy, letGo)
    BY <1>a, <1>b
  <2>2. /\ a \in ScriptSettles /\ ~IsFrame(Last(stack)) /\ a.late = Last(stack).late
        /\ ScriptIs(stack, loaded, objects, nextServed, heldByHost, lateReleases, graveyard, collectDue,
                    reactions, stop, where, ownedBy, letGo)
    BY <1>1, <1>6, SettleNow DEF SettlesOn
  <2>3. /\ \A k \in 1 .. Len(a.late) : \E m \in 1 .. Len(Last(stack).late) : a.late[k] = Last(stack).late[m]
        /\ \A m \in 1 .. Len(Last(stack).late) :
             Last(stack).late[m] \notin objects \/ \E k \in 1 .. Len(a.late) : a.late[k] = Last(stack).late[m]
    BY <2>2
  <2> QED BY <1>7, <2>1, <2>2, <2>3, ChangesSettle
<1>d. Len(Append(Front(stack), a)) # 0
  BY <1>1, <1>6, SettleNow, LongAgain DEF SettlesOn
<1>e. /\ stack' = Append(Front(stack), a) /\ where' = wh /\ graveyard' = graveyard /\ reactions' = reactions /\ stop' = stop
      /\ UNCHANGED <<loaded, objects, nextServed, heldByHost, lateReleases, collectDue, ownedBy, letGo>>
  BY <1>2, <1>1, <1>4, <1>5, SettleNow, <1>b
    DEF DestroysDead, engineState, ScriptSettles, SettleWith
<1> QED BY <1>c, <1>d, <1>e, HoldsAfter

LEMMA ReleasesLateKeeps ==
  ASSUME ScriptAssumption, ScriptInv, ReleasesLate
  PROVE  ScriptInv'
<1>1. /\ Settling /\ Top.dead = {} /\ Top.late # <<>>
      /\ ReleaseNow(Append(Front(stack), [Top EXCEPT !.late = Tail(Top.late)]), Head(Top.late), TRUE)
      /\ UNCHANGED <<loaded, nextServed, heldByHost, reactions, ownedBy, letGo>>
  BY DEF ReleasesLate
<1>2. /\ stack # <<>> /\ ~IsFrame(Top) /\ Top \in ScriptSettles /\ Top = Last(stack) /\ stack \in Seq(Activities)
      /\ NoneOpen(stack, Len(stack))
      /\ ScriptIs(stack, loaded, objects, nextServed, heldByHost, lateReleases, graveyard, collectDue,
                  reactions, stop, where, ownedBy, letGo)
  BY <1>1, SettleNow
<1>3. PICK late \in Seq(Scripts \X Nat) : late = Top.late
  BY <1>2 DEF ScriptSettles
<1>4. PICK g : g = Head(late)
  OBVIOUS
<1>5. PICK rest : rest = Tail(late)
  OBVIOUS
<1>6. PICK q \in Nat : Len(late) = q + 1
  <2>1. Len(late) \in Nat /\ Len(late) # 0
    BY <1>1, <1>3, EmptySeq
  <2>2. PICK m \in Nat : m = Len(late)
    BY <2>1
  <2>3. m - 1 \in Nat /\ m = (m - 1) + 1
    BY <2>1, <2>2
  <2> QED BY <2>2, <2>3
<1>7. /\ rest \in Seq(Scripts \X Nat) /\ Len(rest) = q /\ g = late[1] /\ \A k \in 1 .. q : rest[k] = late[k + 1]
      /\ g \in Scripts \X Nat
  <2>1. late # <<>>
    BY <1>1, <1>3
  <2> QED BY <1>4, <1>5, <1>6, <2>1
<1>8. PICK a : a = SettleWith({}, rest, Top.collect)
  OBVIOUS
<1>9. SettlesOn(a, {}, rest, Top.collect)
  <2>1. Top.collect \in BOOLEAN /\ {} \in SUBSET HostObjects
    BY <1>2 DEF ScriptSettles
  <2> QED BY <1>1, <1>7, <1>8, <2>1, SettleAs
<1>b. /\ \A k \in 1 .. q : k + 1 \in 1 .. q + 1
      /\ \A m \in 1 .. q + 1 : m = 1 \/ (m - 1 \in 1 .. q /\ (m - 1) + 1 = m)
      /\ 1 \in 1 .. q + 1
  OBVIOUS
<1>c. g \notin heldByHost /\ ~ToAnswer(stack, g)
  <2>1. WaitsLate(stack, lateReleases, g)
    BY <1>2, <1>3, <1>6, <1>7, <1>b, TopNow DEF WaitsLate
  <2> QED BY <1>2, <1>7, <2>1 DEF ScriptIs, ServedFits
<1>d. ScriptIs(stack, loaded, objects \ {g}, nextServed, heldByHost, lateReleases, graveyard, collectDue,
               reactions, stop, where, ownedBy, letGo)
  <2>1. ScriptIs(stack, loaded, objects \ {g}, nextServed, heldByHost \ {g}, lateReleases, graveyard, collectDue,
                 reactions, stop, where, ownedBy, letGo)
    BY <1>2, <1>7, <1>c, ObjectGone
  <2> QED BY <2>1, <1>c
<1>e. PICK b : b = Append(Front(stack), a)
  OBVIOUS
<1>f. ScriptIs(b, loaded, objects \ {g}, nextServed, heldByHost, lateReleases, graveyard, collectDue,
               reactions, stop, where, ownedBy, letGo)
  <2>1. a \in ScriptSettles /\ ~IsFrame(Last(stack)) /\ a.late = rest /\ Last(stack).late = late
    BY <1>2, <1>3, <1>9 DEF SettlesOn
  <2>2. \A k \in 1 .. Len(a.late) : \E m \in 1 .. Len(Last(stack).late) : a.late[k] = Last(stack).late[m]
    BY <1>6, <1>7, <1>b, <2>1
  <2>3. ASSUME NEW m \in 1 .. Len(Last(stack).late)
        PROVE  Last(stack).late[m] \notin objects \ {g} \/ \E k \in 1 .. Len(a.late) : a.late[k] = Last(stack).late[m]
    <3>1. CASE m = 1
      BY <1>7, <2>1, <3>1
    <3>2. CASE m - 1 \in 1 .. q /\ (m - 1) + 1 = m
      BY <2>1, <1>7, <3>2
    <3> QED BY <1>6, <1>b, <2>1, <3>1, <3>2
  <2>4. ScriptIs(Append(Front(stack), a), loaded, objects \ {g}, nextServed, heldByHost, lateReleases, graveyard, collectDue,
                 reactions, stop, where, ownedBy, letGo)
    BY <1>2, <1>d, <1>9, <1>1, SettleNow, TopStays, <2>1, <2>2, <2>3, ChangesSettle
      DEF SettlesOn, Collecting
  <2> QED BY <1>e, <2>4
<1>g. NoneOpen(b, Len(b)) /\ Len(b) # 0
  <2>1. a \in Activities /\ ~IsFrame(a)
    BY <1>9 DEF SettlesOn
  <2>2. PICK n \in Nat : /\ Len(stack) = n + 1 /\ TopOnly(b, stack, n) /\ Len(b) = n + 1 /\ b[n + 1] = a
    BY <1>2, <1>e, <2>1, Retopped
  <2>3. \A i \in 1 .. n : b[i] = stack[i]
    BY <1>2, <2>2, TopIs
  <2>4. (\A i \in 1 .. n + 1 : i \in 1 .. n \/ i = n + 1) /\ \A i \in 1 .. n : i \in 1 .. n + 1
    OBVIOUS
  <2> QED BY <1>2, <2>1, <2>2, <2>3, <2>4 DEF NoneOpen
<1>h. /\ ScriptIs(stack', loaded, objects', nextServed, heldByHost, lateReleases', graveyard', collectDue', reactions, stop', where', ownedBy, letGo)
      /\ SettledWhen(stack', lateReleases', graveyard', collectDue')
  <2>1. ReleaseNow(b, g, TRUE)
    BY <1>1, <1>3, <1>4, <1>2, <1>5, <1>8, <1>e DEF ScriptSettles, SettleWith
  <2> QED BY <1>7, <1>f, <1>g, <2>1, ReleaseNowIs
<1> QED BY <1>1, <1>h DEF ScriptInv

LEMMA CollectsKeeps ==
  ASSUME ScriptAssumption, ScriptInv, Collects
  PROVE  ScriptInv'
<1>1. PICK freed : freed = {o \in HostObjects : where[o] = "handle" /\ loaded[ownedBy[o]] = "closed"}
  OBVIOUS
<1>2. /\ Settling /\ Top.dead = {} /\ Top.late = <<>> /\ Top.collect
      /\ graveyard' = graveyard \cup freed
      /\ where' = [o \in HostObjects |-> IF o \in freed THEN "grave" ELSE where[o]]
      /\ letGo' = [o \in HostObjects |-> letGo[o] \/ o \in freed]
      /\ stack' = Append(Front(stack), [Top EXCEPT !.collect = FALSE])
      /\ UNCHANGED <<loaded, objects, nextServed, heldByHost, lateReleases, collectDue, reactions, stop, ownedBy>>
  BY <1>1 DEF Collects, OnTop
<1>3. /\ stack # <<>> /\ ~IsFrame(Top) /\ Top \in ScriptSettles /\ Top = Last(stack) /\ stack \in Seq(Activities)
      /\ NoneOpen(stack, Len(stack)) /\ where \in [HostObjects -> ScriptPlaces]
      /\ ScriptIs(stack, loaded, objects, nextServed, heldByHost, lateReleases, graveyard, collectDue,
                  reactions, stop, where, ownedBy, letGo)
  BY <1>2, SettleNow
<1>4. /\ HostFits(stack, loaded, graveyard, collectDue, where, ownedBy, letGo)
      /\ graveyard \in SUBSET HostObjects /\ letGo \in [HostObjects -> BOOLEAN]
  BY <1>3 DEF ScriptIs, ScriptTyped
<1>5. PICK wh : wh = [o \in HostObjects |-> IF o \in freed THEN "grave" ELSE where[o]]
  OBVIOUS
<1>6. PICK lg : lg = [o \in HostObjects |-> letGo[o] \/ o \in freed]
  OBVIOUS
<1>7. /\ wh \in [HostObjects -> ScriptPlaces] /\ lg \in [HostObjects -> BOOLEAN] /\ graveyard \cup freed \in SUBSET HostObjects
  <2>1. lg \in [HostObjects -> BOOLEAN]
    BY <1>4, <1>6, Zenon
  <2> QED BY <1>1, <1>4, <1>3, <1>5, <2>1 DEF ScriptPlaces
<1>8. ASSUME NEW o \in HostObjects, o \notin freed PROVE wh[o] = where[o] /\ lg[o] = letGo[o]
  <2>1. lg[o] = (letGo[o] \/ o \in freed) /\ letGo[o] \in BOOLEAN
    BY <1>4, <1>6, Zenon
  <2> QED BY <1>8, <1>5, <2>1
<1>9. \A o \in HostObjects : where[o] # "out"
  <2> SUFFICES ASSUME NEW o \in HostObjects, where[o] = "out" PROVE FALSE
    OBVIOUS
  <2>1. PICK i \in 1 .. Len(stack) : HoldsIn(stack[i], o)
    BY <1>4 DEF HostFits, ObjectFits
  <2>2. PlaceIn(stack[i]) = "dying"
    BY <1>3 DEF PlaceIn, NoneOpen
  <2>3. where[o] = PlaceIn(stack[i])
    BY <1>4, <2>1 DEF HostFits
  <2> QED BY <2>2, <2>3
<1>a. HostFits(stack, loaded, graveyard \cup freed, collectDue, wh, ownedBy, lg)
  <2>1. ASSUME NEW o \in HostObjects PROVE ObjectFits(stack, loaded, graveyard \cup freed, collectDue, wh, ownedBy, lg, o)
    <3>1. CASE o \in freed
      BY <3>1, <1>5 DEF ObjectFits
    <3>2. CASE o \notin freed
      BY <1>4, <1>8, <3>2 DEF ObjectFits, HostFits
    <3> QED BY <3>1, <3>2
  <2>2. ASSUME NEW o \in HostObjects, NEW i \in 1 .. Len(stack), HoldsIn(stack[i], o) PROVE wh[o] = PlaceIn(stack[i])
    BY <1>8, <1>4, <2>2, <1>1 DEF HostFits, PlaceIn
  <2> QED BY <1>4, <2>1, <2>2 DEF HostFits
<1>c. \A o \in HostObjects : wh[o] \in {"handle", "out"} => loaded[ownedBy[o]] # "closed"
  <2> SUFFICES ASSUME NEW o \in HostObjects, wh[o] \in {"handle", "out"} PROVE loaded[ownedBy[o]] # "closed"
    OBVIOUS
  <2>1. o \notin freed
    BY <1>5
  <2>2. where[o] = "handle"
    BY <1>8, <1>9, <2>1
  <2> QED BY <1>1, <2>1, <2>2
<1>d. PICK a : a = SettleWith({}, <<>>, FALSE)
  OBVIOUS
<1>e. SettlesOn(a, {}, <<>>, FALSE)
  <2>1. {} \in SUBSET HostObjects /\ <<>> \in Seq(Scripts \X Nat) /\ FALSE \in BOOLEAN
    OBVIOUS
  <2> QED BY <1>2, <1>d, <2>1, SettleAs
<1>g. PICK gy2 : gy2 = graveyard \cup freed
  OBVIOUS
<1>h. ScriptIs(Append(Front(stack), a), loaded, objects, nextServed, heldByHost, lateReleases, gy2, collectDue,
               reactions, stop, wh, ownedBy, lg)
  <2>0. ScriptIs(stack, loaded, objects, nextServed, heldByHost, lateReleases, gy2, collectDue, reactions, stop, wh, ownedBy, lg)
    BY <1>3, <1>7, <1>a, <1>g DEF ScriptIs, ScriptTyped
  <2>1. /\ a \in ScriptSettles /\ a \in Activities /\ ~IsFrame(a) /\ ~IsFrame(Last(stack)) /\ Len(a.late) = 0 /\ Len(Last(stack).late) = 0
        /\ \A o \in HostObjects : HoldsIn(a, o) <=> HoldsIn(Last(stack), o)
    BY <1>2, <1>3, <1>e, SettleNow DEF SettlesOn
  <2>2. HostFits(Append(Front(stack), a), loaded, gy2, collectDue, wh, ownedBy, lg)
    BY <1>3, <1>c, <2>0, <2>1, HostStays
  <2>3. /\ \A k \in 1 .. Len(a.late) : \E m \in 1 .. Len(Last(stack).late) : a.late[k] = Last(stack).late[m]
        /\ \A m \in 1 .. Len(Last(stack).late) :
             Last(stack).late[m] \notin objects \/ \E k \in 1 .. Len(a.late) : a.late[k] = Last(stack).late[m]
    BY <2>1
  <2> QED BY <1>3, <1>7, <2>0, <2>1, <2>2, <2>3, ChangesSettle
<1>i. Len(Append(Front(stack), a)) # 0
  BY <1>3, <1>e, LongAgain DEF SettlesOn
<1>j. stack' = Append(Front(stack), a) /\ graveyard' = gy2 /\ where' = wh /\ letGo' = lg
  BY <1>2, <1>5, <1>6, <1>3, <1>d, <1>g DEF ScriptSettles, SettleWith
<1> QED BY <1>2, <1>h, <1>i, <1>j DEF ScriptInv, SettledWhen

LEMMA SettlesAgainKeeps ==
  ASSUME ScriptAssumption, ScriptInv, SettlesAgain
  PROVE  ScriptInv'
<1>1. /\ Settling /\ Top.dead = {} /\ Top.late = <<>> /\ ~Top.collect /\ Turn(Front(stack), collectDue)
      /\ UNCHANGED <<loaded, objects, nextServed, heldByHost, reactions, stop, ownedBy, letGo>>
  BY DEF SettlesAgain
<1>2. PICK b : b = Front(stack)
  OBVIOUS
<1>3. ScriptIs(b, loaded, objects, nextServed, heldByHost, lateReleases, graveyard, collectDue,
               reactions, stop, where, ownedBy, letGo) /\ NoneOpen(b, Len(b))
  BY <1>1, SettleNow, <1>2, PopsSettle DEF ScriptSettles
<1>4. /\ ScriptIs(stack', loaded, objects, nextServed, heldByHost, lateReleases', graveyard', collectDue', reactions, stop, where', ownedBy, letGo)
      /\ SettledWhen(stack', lateReleases', graveyard', collectDue')
  BY <1>1, <1>2, <1>3, TurnIs
<1> QED BY <1>1, <1>4 DEF ScriptInv

-----------------------------------------------------------------------------
\* Script: what must hold.
LEMMA ScriptStarts ==
  ASSUME ScriptInit
  PROVE  ScriptInv
<1>1. /\ stack = <<>> /\ Len(stack) = 0 /\ objects = {} /\ nextServed = 0 /\ heldByHost = {} /\ lateReleases = <<>>
      /\ Len(lateReleases) = 0 /\ graveyard = {} /\ collectDue = FALSE /\ reactions = 0 /\ stop = FALSE
      /\ loaded \in [Scripts -> {"unopened", "opening", "open", "closed"}]
      /\ where \in [HostObjects -> ScriptPlaces] /\ ownedBy \in [HostObjects -> Scripts \cup {NoObject}]
      /\ letGo \in [HostObjects -> BOOLEAN]
      /\ \A o \in HostObjects : where[o] = "host" /\ letGo[o] = FALSE
  BY DEF ScriptInit, ScriptPlaces
<1>2. /\ \A i \in 1 .. Len(stack) : FALSE
      /\ \A k \in 1 .. Len(lateReleases) : FALSE
  BY <1>1
<1>3. StackIs(stack, reactions, stop)
  BY <1>1, <1>2 DEF StackIs, HitAt
<1>4. ServedFits(stack, loaded, objects, nextServed, heldByHost, lateReleases)
  BY <1>1, <1>2 DEF ServedFits, WaitsLate
<1>5. HostFits(stack, loaded, graveyard, collectDue, where, ownedBy, letGo)
  BY <1>1, <1>2 DEF HostFits, ObjectFits
<1>6. ScriptTyped(stack, loaded, objects, nextServed, heldByHost, lateReleases, graveyard, collectDue,
                  reactions, stop, where, ownedBy, letGo)
  <2>1. stack \in Seq(Activities) /\ lateReleases \in Seq(Scripts \X Nat)
    BY <1>1
  <2> QED BY <1>1, <2>1 DEF ScriptTyped
<1>7. SettledWhen(stack, lateReleases, graveyard, collectDue)
  BY <1>1 DEF SettledWhen
<1> QED BY <1>3, <1>4, <1>5, <1>6, <1>7 DEF ScriptInv, ScriptIs

LEMMA ScriptGoesOn ==
  ASSUME ScriptAssumption, ScriptInv, [ScriptNext]_scriptvars
  PROVE  ScriptInv'
<1>1. ASSUME NEW l \in Scripts, OpensScript(l) PROVE ScriptInv'
  BY <1>1, OpensScriptKeeps
<1>2. ASSUME NEW l \in Scripts, ClosesScript(l) PROVE ScriptInv'
  BY <1>2, ClosesScriptKeeps
<1>3. ASSUME NEW l \in Scripts, NEW id \in 0 .. MaxServed, NEW o \in HostObjects \cup {NoObject}, CallsScript(l, id, o)
      PROVE  ScriptInv'
  BY <1>3, CallsScriptKeeps
<1>4. ASSUME NEW l \in Scripts, NEW id \in 1 .. MaxServed, ReleasesScript(<<l, id>>) PROVE ScriptInv'
  BY <1>4, ReleasesScriptKeeps
<1>5. ASSUME NEW o \in HostObjects, LetsHandleGo(o) PROVE ScriptInv'
  BY <1>5, LetsHandleGoKeeps
<1>6. ASSUME NEW o \in HostObjects, TakesOut(o) PROVE ScriptInv'
  BY <1>6, TakesOutKeeps
<1>7. ASSUME NEW b \in BOOLEAN, ScriptEnds(b) PROVE ScriptInv'
  BY <1>7, ScriptEndsKeeps
<1>8. ASSUME NEW b \in BOOLEAN, OpenReturns(b) PROVE ScriptInv'
  BY <1>8, OpenReturnsKeeps
<1>9. CASE UNCHANGED scriptvars
  BY <1>9 DEF scriptvars, ScriptInv
<1>a. QueuesReaction => ScriptInv'
  BY QueuesReactionKeeps
<1>b. GivesBack => ScriptInv'
  BY GivesBackKeeps
<1>c. HandsOver => ScriptInv'
  BY HandsOverKeeps
<1>d. MeterStops => ScriptInv'
  BY MeterStopsKeeps
<1>e. RunsReaction => ScriptInv'
  BY RunsReactionKeeps
<1>f. ReactionEnds => ScriptInv'
  BY ReactionEndsKeeps
<1>g. CallReturns => ScriptInv'
  BY CallReturnsKeeps
<1>h. DisposeReturns => ScriptInv'
  BY DisposeReturnsKeeps
<1>i. CloseReturns => ScriptInv'
  BY CloseReturnsKeeps
<1>j. DestroysDead => ScriptInv'
  BY DestroysDeadKeeps
<1>k. ReleasesLate => ScriptInv'
  BY ReleasesLateKeeps
<1>l. Collects => ScriptInv'
  BY CollectsKeeps
<1>m. SettlesAgain => ScriptInv'
  BY SettlesAgainKeeps
<1> QED BY <1>1, <1>2, <1>3, <1>4, <1>5, <1>6, <1>7, <1>8, <1>9, <1>a, <1>b, <1>c, <1>d, <1>e, <1>f, <1>g,
           <1>h, <1>i, <1>j, <1>k, <1>l, <1>m DEF ScriptNext

LEMMA NothingIsLeft ==
  ASSUME ScriptInv
  PROVE  NothingWaits
<1> SUFFICES ASSUME stack = <<>>
             PROVE  /\ lateReleases = <<>> /\ graveyard = {} /\ ~collectDue /\ reactions = 0 /\ ~stop
                    /\ \A o \in HostObjects :
                         \/ where[o] \in {"host", "handed", "gone"}
                         \/ where[o] = "handle" /\ ~letGo[o] /\ loaded[ownedBy[o]] = "open"
  BY DEF NothingWaits
<1>1. /\ Len(stack) = 0 /\ \A i \in 1 .. Len(stack) : FALSE
  OBVIOUS
<1>2. Len(lateReleases) = 0 /\ graveyard = {} /\ collectDue = FALSE
  BY <1>1 DEF ScriptInv, SettledWhen
<1>3. lateReleases = <<>>
  BY <1>2, EmptySeq DEF ScriptInv, ScriptIs, ScriptTyped
<1>4. reactions = 0 /\ ~stop
  BY <1>1 DEF StackIs, NoneOpen, HitAt, ScriptInv, ScriptIs, ScriptTyped
<1>5. ASSUME NEW o \in HostObjects
      PROVE  \/ where[o] \in {"host", "handed", "gone"}
             \/ where[o] = "handle" /\ ~letGo[o] /\ loaded[ownedBy[o]] = "open"
  BY <1>1, <1>2
    DEF ObjectFits, ScriptPlaces, ScriptInv, ScriptIs, ScriptTyped, HostFits, CollectionDue
<1> QED BY <1>2, <1>3, <1>4, <1>5

LEMMA FrameIn ==
  ASSUME ScriptInv
  PROVE  /\ Len(stack) \in Nat /\ StackIs(stack, reactions, stop) /\ stop \in BOOLEAN
         /\ \A i : i \in FramesIn(stack) <=> i \in 1 .. Len(stack) /\ IsFrame(stack[i])
         /\ \A i \in FramesIn(stack) : stack[i] \in ScriptFrames /\ stack[i].hit \in BOOLEAN /\ stack[i].outer \in BOOLEAN
<1>1. stack \in Seq(Activities) /\ StackIs(stack, reactions, stop) /\ stop \in BOOLEAN
  BY DEF ScriptInv, ScriptIs, ScriptTyped
<1>2. \A i : i \in FramesIn(stack) <=> i \in 1 .. Len(stack) /\ IsFrame(stack[i])
  BY <1>1 DEF FramesIn
<1>3. \A i \in FramesIn(stack) : stack[i] \in ScriptFrames
  BY <1>1, <1>2, ActivityIs, ActivitiesAre
<1> QED BY <1>1, <1>2, <1>3 DEF ScriptFrames

LEMMA AloneIs ==
  ASSUME ScriptInv
  PROVE  ScriptAlone
<1>1. ASSUME NEW i \in 1 .. Len(stack), RunsAlone(stack[i]), NEW k \in FramesIn(stack) PROVE i <= k
  <2>1. ASSUME ~(i <= k) PROVE FALSE
    BY <1>1, FrameIn, <2>1 DEF NoneOpen, StackIs
  <2> QED BY <2>1
<1>2. DOMAIN stack = 1 .. Len(stack)
  BY DEF ScriptInv, ScriptIs, ScriptTyped
<1> QED BY <1>1, <1>2 DEF ScriptAlone, RunsAlone

LEMMA StopsAre ==
  ASSUME ScriptInv
  PROVE  StopIsTheCalls
<1>1. ASSUME NEW i \in FramesIn(stack), \A j \in FramesIn(stack) : j <= i
      PROVE  stop = stack[i].hit
  <2>1. i \in 1 .. Len(stack) /\ IsFrame(stack[i]) /\ Len(stack) \in Nat /\ Len(stack) \in 1 .. Len(stack)
    BY <1>1, FrameIn
  <2>2. i = Len(stack)
    <3>1. CASE IsFrame(stack[Len(stack)])
      BY <2>1, <1>1, <3>1, FrameIn
    <3>2. CASE ~IsFrame(stack[Len(stack)])
      BY <2>1, <3>2, FrameIn DEF NoneOpen, StackIs, RunsAlone
    <3> QED BY <3>1, <3>2
  <2>3. stop = TRUE <=> stack[i].hit = TRUE
    <3>1. i > 0
      BY <2>1
    <3> QED BY <2>1, <2>2, FrameIn, <3>1 DEF HitAt, StackIs
  <2> QED BY <1>1, <2>3, FrameIn
<1>2. ASSUME NEW i \in FramesIn(stack), NEW fs, fs = {j \in FramesIn(stack) : j < i}
      PROVE  stack[i].outer = TRUE <=> \E k \in {k \in fs : \A j \in fs : j <= k} : stack[k].hit
  <2>1. i \in 1 .. Len(stack) /\ IsFrame(stack[i]) /\ Len(stack) \in Nat
    BY <1>2, FrameIn
  <2>2. stack[i].outer = TRUE <=> HitAt(stack, i - 1)
    BY <2>1, FrameIn DEF StackIs, EnteredAt
  <2>3. \A j \in fs : j \in 1 .. i - 1 /\ IsFrame(stack[j]) /\ stack[j].hit \in BOOLEAN
    BY <1>2, <2>1, FrameIn
  <2>4. CASE i - 1 \in fs
    <3>1. \A k \in {k \in fs : \A j \in fs : j <= k} : k = i - 1
      BY <2>1, <2>3, <2>4
    <3>2. i - 1 \in {k \in fs : \A j \in fs : j <= k}
      BY <2>1, <2>3, <2>4
    <3>3. HitAt(stack, i - 1) <=> stack[i - 1].hit
      BY <2>1, <2>3, <2>4 DEF HitAt
    <3> QED BY <2>2, <3>1, <3>2, <3>3
  <2>5. CASE i - 1 \notin fs
    <3>1. ~HitAt(stack, i - 1)
      <4>1. ASSUME i - 1 > 0, IsFrame(stack[i - 1]) PROVE FALSE
        BY <1>2, <2>5, <4>1, <2>1, FrameIn
      <4> QED BY <4>1 DEF HitAt
    <3>2. ASSUME NEW k \in fs PROVE FALSE
      <4>1. k \in 1 .. i - 1 /\ IsFrame(stack[k]) /\ k # i - 1
        BY <2>3, <2>5
      <4>2. i - 1 \in 1 .. Len(stack) /\ i - 1 < i /\ k \in 1 .. (i - 1) - 1
        BY <2>1, <4>1
      <4>3. NoneOpen(stack, (i - 1) - 1)
        BY <4>2, <1>2, <2>5, FrameIn DEF StackIs, RunsAlone
      <4> QED BY <4>1, <4>2, <4>3 DEF NoneOpen
    <3> QED BY <2>2, <3>1, <3>2
  <2> QED BY <2>4, <2>5
<1>3. ASSUME NEW i \in FramesIn(stack), NEW fs, fs = {j \in FramesIn(stack) : j < i}
      PROVE  stack[i].outer = \E k \in {k \in fs : \A j \in fs : j <= k} : stack[k].hit
  BY <1>3, FrameIn, <1>2
<1> QED BY <1>1, <1>3 DEF StopIsTheCalls

LEMMA ServedAre ==
  ASSUME ScriptInv
  PROVE  ServedIsHeld
<1>1. /\ stack \in Seq(Activities) /\ lateReleases \in Seq(Scripts \X Nat)
      /\ ServedFits(stack, loaded, objects, nextServed, heldByHost, lateReleases)
  BY DEF ScriptInv, ScriptIs, ScriptTyped
<1>2. PICK late : late = ToSet(lateReleases) \cup
              (UNION {IF IsFrame(stack[i]) THEN {<<stack[i].lib, stack[i].id>>}
                     ELSE ToSet(stack[i].late) : i \in DOMAIN stack})
  OBVIOUS
<1>3. DOMAIN stack = 1 .. Len(stack) /\ DOMAIN lateReleases = 1 .. Len(lateReleases)
  BY <1>1
<1>4. ASSUME NEW g, WaitsLate(stack, lateReleases, g) PROVE g \in late
  <2>1. CASE \E k \in 1 .. Len(lateReleases) : lateReleases[k] = g
    BY <1>2, <1>3, <2>1 DEF ToSet
  <2>2. ASSUME NEW i \in 1 .. Len(stack), ~IsFrame(stack[i]), NEW k \in 1 .. Len(stack[i].late), stack[i].late[k] = g
        PROVE  g \in late
    <3>1. g \in ToSet(stack[i].late)
      BY <2>2, <1>1, ActivityIs, ActivitiesAre DEF ToSet, ScriptSettles
    <3> QED BY <1>2, <1>3, <2>2, <3>1
  <2> QED BY <1>4, <2>1, <2>2 DEF WaitsLate
<1>5. ASSUME NEW g, ToAnswer(stack, g) PROVE g \in late
  <2>1. PICK i \in 1 .. Len(stack) : IsFrame(stack[i]) /\ g = <<stack[i].lib, stack[i].id>>
    BY <1>5 DEF ToAnswer
  <2> QED BY <1>2, <1>3, <2>1
<1>6. objects \subseteq heldByHost \cup late
  BY <1>1, <1>4, <1>5 DEF ServedFits
<1>7. {g \in heldByHost : loaded[g[1]] = "open"} \subseteq objects
  BY <1>1 DEF ServedFits
<1> QED BY <1>2, <1>6, <1>7 DEF ServedIsHeld

\* The engine runs script only where none is being run, a call finds its own
\* stop again, what hosts hold is kept and nothing else for ever, and when the
\* engine is left nothing waits in it, however deep calls, cleanup and settling
\* were in each other.
THEOREM ScriptsSettle ==
  ScriptInit /\ [][ScriptNext]_scriptvars => []ScriptIsSettled
<1>1. ScriptInit => ScriptInv
  BY ScriptStarts
<1>2. ScriptInv /\ [ScriptNext]_scriptvars => ScriptInv'
  BY ScriptAssumption, ScriptGoesOn
<1>3. ScriptInv => ScriptIsSettled
  BY NothingIsLeft, AloneIs, StopsAre, ServedAre DEF ScriptIsSettled
<1> QED BY <1>1, <1>2, <1>3, PTL
===============================================================================
