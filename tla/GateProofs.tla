---------------------------- MODULE GateProofs ----------------------------
(***************************************************************************)
(* The gate's safety for any number of frames, and that it implements      *)
(* Outbox.                                                                 *)
(*                                                                         *)
(* FreeMeansEmpty and OneWriter need to know what the link's end and a     *)
(* failed write leave behind: EndedState and BrokenState.                  *)
(***************************************************************************)
EXTENDS Gate, SequenceTheorems, TLAPS

\* After Gate::close nothing more is accepted, and the end has the writer
\* only while nothing is left to write.
EndedState ==
  /\ ender # "idle" => closed
  /\ holder = Ender => queued = <<>> /\ batch = <<>>
  /\ shut => closed /\ holder \in {Ender, Nobody}

\* A failed write's thread is the only one with the writer until it has
\* recorded the failure; then the gate is closed and empty for good.
BrokenState ==
  /\ \A f \in Frames : pc[f] = "failing" => broken
  /\ broken => /\ batch = <<>>
               /\ \A f \in Frames : pc[f] # "writing"
               /\ holder \in {Ender, Nobody} => closed /\ queued = <<>>

GInv == TypeOK /\ FreeMeansEmpty /\ OneWriter /\ EndedState /\ BrokenState

\* retract() removes one entry of the queue.
LEMMA WithoutFacts ==
  ASSUME TypeOK, NEW f \in Frames, InQueue(f)
  PROVE  \E at \in 1 .. Len(queued) :
           /\ Without(f) = [i \in 1 .. Len(queued) - 1 |->
                              IF i < at THEN queued[i] ELSE queued[i + 1]]
           /\ Without(f) \in Seq(Frames)
           /\ Len(Without(f)) = Len(queued) - 1
<1> DEFINE at == CHOOSE i \in 1 .. Len(queued) : queued[i] = f
<1>1. at \in 1 .. Len(queued)
  BY DEF InQueue
<1>2. Without(f) = [i \in 1 .. Len(queued) - 1 |->
                      IF i < at THEN queued[i] ELSE queued[i + 1]]
  BY DEF Without
<1> HIDE DEF at
<1>3. Without(f) \in Seq(Frames) /\ Len(Without(f)) = Len(queued) - 1
  BY <1>1, <1>2 DEF TypeOK
<1> WITNESS at \in 1 .. Len(queued)
<1> QED BY <1>2, <1>3

\* Gate::new starts with the writer free and nothing queued.
LEMMA InitGInv == Init => GInv
<1> SUFFICES ASSUME Init PROVE GInv
  OBVIOUS
<1>1. TypeOK
  <2>1. /\ queued \in Seq(Frames) /\ batch \in Seq(Frames)
        /\ wire \in Seq(Frames) /\ order \in Seq(Frames)
    BY DEF Init
  <2>2. Len(wire) + Len(batch) + Len(queued) <= Len(order)
    BY DEF Init
  <2>3. /\ holder \in Threads \cup {Nobody} /\ pc \in [Frames -> PcStates] /\ ender \in EnderStates
        /\ closed \in BOOLEAN /\ broken \in BOOLEAN /\ shut \in BOOLEAN
    BY DEF Init, PcStates, EnderStates
  <2> QED BY <2>1, <2>2, <2>3 DEF TypeOK
<1>2. FreeMeansEmpty /\ OneWriter /\ EndedState /\ BrokenState
  BY GateAssumption DEF Init, FreeMeansEmpty, OneWriter, EndedState, BrokenState
<1> QED BY <1>1, <1>2 DEF GInv

\* Refuse keeps the inductive invariant.
LEMMA RefuseKeeps ==
  ASSUME GInv, NEW f \in Frames, Refuse(f)
  PROVE  GInv'
<1>1. TypeOK'
  BY GateAssumption DEF GInv, TypeOK, PcStates, Refuse
<1>2. FreeMeansEmpty'
  BY GateAssumption DEF GInv, TypeOK, FreeMeansEmpty, Refuse
<1>3. OneWriter'
  BY GateAssumption DEF GInv, TypeOK, OneWriter, Refuse
<1>4. EndedState'
  BY GateAssumption DEF GInv, TypeOK, EndedState, Refuse
<1>5. BrokenState'
  BY GateAssumption DEF GInv, TypeOK, BrokenState, Refuse
<1> QED BY <1>1, <1>2, <1>3, <1>4, <1>5 DEF GInv

\* Queue keeps the inductive invariant.
LEMMA QueueKeeps ==
  ASSUME GInv, NEW f \in Frames, Queue(f)
  PROVE  GInv'
<1>1. TypeOK'
  BY GateAssumption DEF GInv, TypeOK, PcStates, Threads, Queue
<1>2. FreeMeansEmpty'
  BY GateAssumption DEF GInv, TypeOK, FreeMeansEmpty, Queue
<1>3. OneWriter'
  BY GateAssumption DEF GInv, TypeOK, OneWriter, Queue
<1>4. EndedState'
  BY GateAssumption DEF GInv, TypeOK, EndedState, FreeMeansEmpty, OneWriter, Queue
<1>5. BrokenState'
  BY GateAssumption DEF GInv, TypeOK, BrokenState, Queue
<1> QED BY <1>1, <1>2, <1>3, <1>4, <1>5 DEF GInv

\* SendParts keeps the inductive invariant.
LEMMA SendPartsKeeps ==
  ASSUME GInv, NEW f \in Frames, SendParts(f)
  PROVE  GInv'
<1>1. TypeOK'
  BY GateAssumption DEF GInv, TypeOK, PcStates, Threads, SendParts
<1>2. FreeMeansEmpty'
  BY GateAssumption DEF GInv, TypeOK, FreeMeansEmpty, SendParts
<1>3. OneWriter'
  BY GateAssumption DEF GInv, TypeOK, OneWriter, SendParts
<1>4. EndedState'
  BY GateAssumption DEF GInv, TypeOK, EndedState, SendParts
<1>5. BrokenState'
  BY GateAssumption DEF GInv, TypeOK, BrokenState, SendParts
<1> QED BY <1>1, <1>2, <1>3, <1>4, <1>5 DEF GInv

\* CopyParts keeps the inductive invariant.
LEMMA CopyPartsKeeps ==
  ASSUME GInv, NEW f \in Frames, CopyParts(f)
  PROVE  GInv'
<1>1. TypeOK'
  BY GateAssumption DEF GInv, TypeOK, PcStates, CopyParts
<1>2. FreeMeansEmpty'
  BY GateAssumption DEF GInv, TypeOK, FreeMeansEmpty, CopyParts
<1>3. OneWriter'
  BY GateAssumption DEF GInv, TypeOK, OneWriter, CopyParts
<1>4. EndedState'
  BY GateAssumption DEF GInv, TypeOK, EndedState, CopyParts
<1>5. BrokenState'
  BY GateAssumption DEF GInv, TypeOK, BrokenState, CopyParts
<1> QED BY <1>1, <1>2, <1>3, <1>4, <1>5 DEF GInv

\* WriteFrame keeps the inductive invariant.
LEMMA WriteFrameKeeps ==
  ASSUME GInv, NEW f \in Frames, WriteFrame(f)
  PROVE  GInv'
<1>1. TypeOK'
  BY GateAssumption DEF GInv, TypeOK, PcStates, WriteFrame
<1>2. FreeMeansEmpty'
  BY GateAssumption DEF GInv, TypeOK, FreeMeansEmpty, WriteFrame
<1>3. OneWriter'
  BY GateAssumption DEF GInv, TypeOK, OneWriter, WriteFrame
<1>4. EndedState'
  BY GateAssumption DEF GInv, TypeOK, EndedState, WriteFrame
<1>5. BrokenState'
  BY GateAssumption DEF GInv, TypeOK, BrokenState, WriteFrame
<1> QED BY <1>1, <1>2, <1>3, <1>4, <1>5 DEF GInv

\* WriteFails keeps the inductive invariant.
LEMMA WriteFailsKeeps ==
  ASSUME GInv, NEW f \in Frames, WriteFails(f)
  PROVE  GInv'
<1>1. TypeOK'
  <2>1. /\ wire' \in Seq(Frames) /\ Len(wire') <= Len(wire) + Len(batch)
        /\ batch' = <<>> /\ Len(batch') = 0
    <3>1. Head(batch) \in Frames /\ Len(batch) \in Nat \ {0}
      BY EmptySeq, HeadTailProperties DEF GInv, TypeOK, WriteFails
    <3>2. CASE wire' = wire
      BY <3>1, <3>2 DEF GInv, TypeOK, WriteFails
    <3>3. CASE wire' = Append(wire, Head(batch))
      BY <3>1, <3>3, AppendProperties DEF GInv, TypeOK, WriteFails
    <3> QED BY <3>2, <3>3 DEF WriteFails
  <2>2. Len(wire') + Len(batch') + Len(queued') <= Len(order')
    BY <2>1 DEF GInv, TypeOK, WriteFails
  <2>3. pc' \in [Frames -> PcStates]
    BY DEF GInv, TypeOK, PcStates, WriteFails
  <2> QED BY <2>1, <2>2, <2>3 DEF GInv, TypeOK, WriteFails
<1>2. FreeMeansEmpty'
  BY GateAssumption DEF GInv, TypeOK, FreeMeansEmpty, WriteFails
<1>3. OneWriter'
  BY GateAssumption DEF GInv, TypeOK, OneWriter, WriteFails
<1>4. EndedState'
  BY GateAssumption DEF GInv, TypeOK, EndedState, WriteFails
<1>5. BrokenState'
  BY GateAssumption DEF GInv, TypeOK, BrokenState, FreeMeansEmpty, OneWriter, WriteFails
<1> QED BY <1>1, <1>2, <1>3, <1>4, <1>5 DEF GInv

\* Failed keeps the inductive invariant.
LEMMA FailedKeeps ==
  ASSUME GInv, NEW f \in Frames, Failed(f)
  PROVE  GInv'
<1>1. TypeOK'
  BY GateAssumption DEF GInv, TypeOK, PcStates, Failed
<1>2. FreeMeansEmpty'
  BY GateAssumption DEF GInv, TypeOK, FreeMeansEmpty, OneWriter, EndedState, BrokenState, Failed
<1>3. OneWriter'
  BY GateAssumption DEF GInv, TypeOK, OneWriter, Failed
<1>4. EndedState'
  BY GateAssumption DEF GInv, TypeOK, EndedState, Failed
<1>5. BrokenState'
  BY GateAssumption DEF GInv, TypeOK, BrokenState, Failed
<1> QED BY <1>1, <1>2, <1>3, <1>4, <1>5 DEF GInv

\* TakeBatch keeps the inductive invariant.
LEMMA TakeBatchKeeps ==
  ASSUME GInv, NEW f \in Frames, TakeBatch(f)
  PROVE  GInv'
<1>1. TypeOK'
  BY GateAssumption DEF GInv, TypeOK, PcStates, TakeBatch
<1>2. FreeMeansEmpty'
  BY GateAssumption DEF GInv, TypeOK, FreeMeansEmpty, TakeBatch
<1>3. OneWriter'
  BY GateAssumption DEF GInv, TypeOK, OneWriter, TakeBatch
<1>4. EndedState'
  BY GateAssumption DEF GInv, TypeOK, EndedState, TakeBatch
<1>5. BrokenState'
  BY GateAssumption DEF GInv, TypeOK, BrokenState, TakeBatch
<1> QED BY <1>1, <1>2, <1>3, <1>4, <1>5 DEF GInv

\* GiveBack keeps the inductive invariant.
LEMMA GiveBackKeeps ==
  ASSUME GInv, NEW f \in Frames, GiveBack(f)
  PROVE  GInv'
<1>1. TypeOK'
  BY GateAssumption DEF GInv, TypeOK, PcStates, GiveBack
<1>2. FreeMeansEmpty'
  BY GateAssumption DEF GInv, TypeOK, FreeMeansEmpty, GiveBack
<1>3. OneWriter'
  BY GateAssumption DEF GInv, TypeOK, OneWriter, GiveBack
<1>4. EndedState'
  BY GateAssumption DEF GInv, TypeOK, EndedState, GiveBack
<1>5. BrokenState'
  BY GateAssumption DEF GInv, TypeOK, BrokenState, GiveBack
<1> QED BY <1>1, <1>2, <1>3, <1>4, <1>5 DEF GInv

\* Retract keeps the inductive invariant.
LEMMA RetractKeeps ==
  ASSUME GInv, NEW f \in Frames, Retract(f)
  PROVE  GInv'
<1>0. queued # <<>>
  BY DEF GInv, TypeOK, InQueue, Retract
<1>1. TypeOK'
  BY WithoutFacts, GateAssumption DEF GInv, TypeOK, PcStates, Retract
<1>2. FreeMeansEmpty'
  BY <1>0, GateAssumption DEF GInv, TypeOK, FreeMeansEmpty, Retract
<1>3. OneWriter'
  BY <1>0, GateAssumption DEF GInv, TypeOK, OneWriter, Retract
<1>4. EndedState'
  BY <1>0, GateAssumption DEF GInv, TypeOK, EndedState, Retract
<1>5. BrokenState'
  BY <1>0, GateAssumption DEF GInv, TypeOK, BrokenState, Retract
<1> QED BY <1>1, <1>2, <1>3, <1>4, <1>5 DEF GInv

\* RetractLate keeps the inductive invariant.
LEMMA RetractLateKeeps ==
  ASSUME GInv, NEW f \in Frames, RetractLate(f)
  PROVE  GInv'
<1>1. TypeOK'
  BY GateAssumption DEF GInv, TypeOK, PcStates, RetractLate
<1>2. FreeMeansEmpty'
  BY GateAssumption DEF GInv, TypeOK, FreeMeansEmpty, RetractLate
<1>3. OneWriter'
  BY GateAssumption DEF GInv, TypeOK, OneWriter, RetractLate
<1>4. EndedState'
  BY GateAssumption DEF GInv, TypeOK, EndedState, RetractLate
<1>5. BrokenState'
  BY GateAssumption DEF GInv, TypeOK, BrokenState, RetractLate
<1> QED BY <1>1, <1>2, <1>3, <1>4, <1>5 DEF GInv

\* Close keeps the inductive invariant.
LEMMA CloseKeeps ==
  ASSUME GInv, Close
  PROVE  GInv'
<1>1. TypeOK'
  BY GateAssumption DEF GInv, TypeOK, EnderStates, FreeMeansEmpty, OneWriter, Close
<1>2. FreeMeansEmpty'
  BY GateAssumption DEF GInv, TypeOK, FreeMeansEmpty, Close
<1>3. OneWriter'
  BY GateAssumption DEF GInv, TypeOK, OneWriter, Close
<1>4. EndedState'
  BY GateAssumption DEF GInv, TypeOK, EndedState, Close
<1>5. BrokenState'
  BY GateAssumption DEF GInv, TypeOK, BrokenState, Close
<1> QED BY <1>1, <1>2, <1>3, <1>4, <1>5 DEF GInv

\* ShutDown keeps the inductive invariant.
LEMMA ShutDownKeeps ==
  ASSUME GInv, ShutDown
  PROVE  GInv'
<1>1. TypeOK'
  BY GateAssumption DEF GInv, TypeOK, EnderStates, Threads, ShutDown
<1>2. FreeMeansEmpty'
  BY GateAssumption DEF GInv, TypeOK, FreeMeansEmpty, ShutDown
<1>3. OneWriter'
  BY GateAssumption DEF GInv, TypeOK, OneWriter, ShutDown
<1>4. EndedState'
  BY GateAssumption DEF GInv, TypeOK, EndedState, FreeMeansEmpty, OneWriter, ShutDown
<1>5. BrokenState'
  BY GateAssumption DEF GInv, TypeOK, BrokenState, ShutDown
<1> QED BY <1>1, <1>2, <1>3, <1>4, <1>5 DEF GInv

\* SkipShutDown keeps the inductive invariant.
LEMMA SkipShutDownKeeps ==
  ASSUME GInv, SkipShutDown
  PROVE  GInv'
<1>1. TypeOK'
  BY GateAssumption DEF GInv, TypeOK, EnderStates, SkipShutDown
<1>2. FreeMeansEmpty'
  BY GateAssumption DEF GInv, TypeOK, FreeMeansEmpty, SkipShutDown
<1>3. OneWriter'
  BY GateAssumption DEF GInv, TypeOK, OneWriter, SkipShutDown
<1>4. EndedState'
  BY GateAssumption DEF GInv, TypeOK, EndedState, SkipShutDown
<1>5. BrokenState'
  BY GateAssumption DEF GInv, TypeOK, BrokenState, SkipShutDown
<1> QED BY <1>1, <1>2, <1>3, <1>4, <1>5 DEF GInv

\* EnderDrains keeps the inductive invariant.
LEMMA EnderDrainsKeeps ==
  ASSUME GInv, EnderDrains
  PROVE  GInv'
<1>1. TypeOK'
  BY GateAssumption DEF GInv, TypeOK, EnderStates, EnderDrains
<1>2. FreeMeansEmpty'
  BY GateAssumption DEF GInv, TypeOK, FreeMeansEmpty, OneWriter, EndedState, BrokenState, EnderDrains
<1>3. OneWriter'
  BY GateAssumption DEF GInv, TypeOK, OneWriter, EnderDrains
<1>4. EndedState'
  BY GateAssumption DEF GInv, TypeOK, EndedState, EnderDrains
<1>5. BrokenState'
  BY GateAssumption DEF GInv, TypeOK, BrokenState, FreeMeansEmpty, OneWriter, EnderDrains
<1> QED BY <1>1, <1>2, <1>3, <1>4, <1>5 DEF GInv


\* Every step of a sender, of the thread writing or of the link's end keeps
\* the inductive invariant.
LEMMA NextGInv == GInv /\ [Next]_vars => GInv'
<1> SUFFICES ASSUME GInv, [Next]_vars PROVE GInv'
  OBVIOUS
<1>1. ASSUME NEW f \in Frames,
             Refuse(f) \/ Queue(f) \/ SendParts(f) \/ CopyParts(f) \/ Retract(f) \/ RetractLate(f)
      PROVE  GInv'
  BY <1>1, RefuseKeeps, QueueKeeps, SendPartsKeeps, CopyPartsKeeps, RetractKeeps, RetractLateKeeps
<1>2. ASSUME NEW f \in Frames,
             WriteFrame(f) \/ WriteFails(f) \/ Failed(f) \/ TakeBatch(f) \/ GiveBack(f)
      PROVE  GInv'
  BY <1>2, WriteFrameKeeps, WriteFailsKeeps, FailedKeeps, TakeBatchKeeps, GiveBackKeeps
<1>3. CASE Close \/ Ending
  BY <1>3, CloseKeeps, ShutDownKeeps, SkipShutDownKeeps, EnderDrainsKeeps DEF Ending
<1>4. CASE UNCHANGED vars
  BY <1>4 DEF vars, GInv, TypeOK, FreeMeansEmpty, OneWriter, EndedState, BrokenState
<1> QED BY <1>1, <1>2, <1>3, <1>4 DEF Next, Sending

\* The inductive invariant holds in every state the gate reaches.
THEOREM Invariance == Spec => []GInv
BY InitGInv, NextGInv, PTL DEF Spec

\* The gate's state has its types, and no more frames are on the wire or
\* waiting than were accepted.
THEOREM TypeCorrect == Spec => []TypeOK
BY Invariance, PTL DEF GInv

\* No frame is left queued behind a free writer, for any number of senders.
THEOREM NothingStranded == Spec => []FreeMeansEmpty
BY Invariance, PTL DEF GInv

\* The writer is with exactly one thread inside the gate, or free.
THEOREM SingleWriter == Spec => []OneWriter
BY Invariance, PTL DEF GInv

\* GateIsExact, for every gate: the writer is with one thread or is free, and
\* no frame waits while it is free.
THEOREM GateExact == Spec => []GateIsExact
BY Invariance, PTL DEF GInv, GateIsExact

\* Nothing is written once Inner::end has shut the writer down.
THEOREM Quiet == Spec => QuietAfterShutdown
<1>1. ASSUME GInv, [Next]_vars PROVE [shut => wire' = wire]_vars
  <2> SUFFICES ASSUME shut PROVE wire' = wire
    OBVIOUS
  <2>1. /\ \A f \in Frames : pc[f] # "writing"
        /\ ender = "shutting" => queued = <<>>
    BY <1>1, GateAssumption DEF GInv, EndedState, OneWriter
  <2>2. ASSUME ender = "shutting" PROVE wire \o queued = wire
    BY <1>1, <2>1, <2>2, ConcatEmptySeq DEF GInv, TypeOK
  <2> QED
    BY <1>1, <2>1, <2>2 DEF Next, Sending, Ending, Refuse, Queue, SendParts, CopyParts,
       WriteFrame, WriteFails, Failed, TakeBatch, GiveBack, Retract, RetractLate, Close,
       ShutDown, SkipShutDown, EnderDrains, vars
<1> QED BY <1>1, Invariance, PTL DEF Spec, QuietAfterShutdown

-----------------------------------------------------------------------------
(* Refinement of Outbox.                                                   *)

\* Appending to what is queued appends to what pends.
LEMMA ConcatAppend ==
  ASSUME NEW S, NEW s \in Seq(S), NEW t \in Seq(S), NEW e \in S
  PROVE  s \o Append(t, e) = Append(s \o t, e)
BY AppendIsConcat, ConcatAssociative, ConcatProperties

\* The first of the batch is the first of what pends.
LEMMA ConcatHead ==
  ASSUME NEW S, NEW s \in Seq(S), NEW t \in Seq(S), s # <<>>
  PROVE  /\ s \o t # <<>>
         /\ Head(s \o t) = Head(s)
         /\ Tail(s \o t) = Tail(s) \o t
<1> DEFINE c == s \o t
<1>1. Len(s) \in Nat \ {0} /\ Len(t) \in Nat
  BY EmptySeq, LenProperties
<1>2. /\ c \in Seq(S) /\ Len(c) = Len(s) + Len(t)
      /\ \A i \in 1 .. Len(c) : c[i] = IF i <= Len(s) THEN s[i] ELSE t[i - Len(s)]
  BY ConcatProperties, <1>1
<1>3. c # <<>>
  BY <1>1, <1>2, EmptySeq
<1>4. Head(c) = c[1] /\ Head(s) = s[1]
  BY <1>2, <1>3
<1>5. Head(c) = Head(s)
  BY <1>1, <1>2, <1>4
<1>6. /\ Tail(c) \in Seq(S) /\ Len(Tail(c)) = Len(s) + Len(t) - 1
      /\ \A i \in 1 .. Len(Tail(c)) : Tail(c)[i] = c[i + 1]
  BY <1>1, <1>2, <1>3, HeadTailProperties
<1>7. /\ Tail(s) \in Seq(S) /\ Len(Tail(s)) = Len(s) - 1
      /\ \A i \in 1 .. Len(Tail(s)) : Tail(s)[i] = s[i + 1]
  BY <1>1, HeadTailProperties
<1>8. /\ Tail(s) \o t \in Seq(S) /\ Len(Tail(s) \o t) = Len(s) - 1 + Len(t)
      /\ \A i \in 1 .. Len(s) - 1 + Len(t) : (Tail(s) \o t)[i] =
           IF i <= Len(s) - 1 THEN Tail(s)[i] ELSE t[i - (Len(s) - 1)]
  BY <1>1, <1>7, ConcatProperties
<1> HIDE DEF c
<1>9. ASSUME NEW i \in 1 .. Len(Tail(c)) PROVE Tail(c)[i] = (Tail(s) \o t)[i]
  <2>1. i \in 1 .. Len(s) - 1 + Len(t) /\ i + 1 \in 1 .. Len(c)
    BY <1>1, <1>2, <1>6, <1>9
  <2>2. CASE i <= Len(s) - 1
    <3>1. i \in 1 .. Len(Tail(s)) /\ i + 1 <= Len(s)
      BY <1>1, <1>7, <2>1, <2>2
    <3> QED BY <1>2, <1>6, <1>7, <1>8, <2>1, <2>2, <3>1
  <2>3. CASE ~(i <= Len(s) - 1)
    <3>1. ~(i + 1 <= Len(s)) /\ (i + 1) - Len(s) = i - (Len(s) - 1)
      BY <1>1, <2>1, <2>3
    <3> QED BY <1>2, <1>6, <1>8, <2>1, <2>3, <3>1
  <2> QED BY <2>2, <2>3
<1>10. Len(Tail(c)) = Len(Tail(s) \o t)
  BY <1>1, <1>6, <1>8
<1>11. Tail(c) = Tail(s) \o t
  BY <1>6, <1>8, <1>9, <1>10, SeqEqual
<1> QED BY <1>3, <1>5, <1>11 DEF c

\* Taking an element out of what is queued takes it out of what pends.
LEMMA ConcatWithout ==
  ASSUME NEW s \in Seq(Frames), NEW t \in Seq(Frames), NEW at \in 1 .. Len(t),
         NEW u \in Seq(Frames), Len(u) = Len(t) - 1,
         \A i \in 1 .. Len(t) - 1 : u[i] = IF i < at THEN t[i] ELSE t[i + 1]
  PROVE  /\ Len(s) + at \in 1 .. Len(s \o t)
         /\ s \o u = [i \in 1 .. Len(s \o t) - 1 |->
                        IF i < Len(s) + at THEN (s \o t)[i] ELSE (s \o t)[i + 1]]
<1> DEFINE c == s \o t
           d == [i \in 1 .. Len(c) - 1 |-> IF i < Len(s) + at THEN c[i] ELSE c[i + 1]]
<1>1. Len(s) \in Nat /\ Len(t) \in Nat
  BY LenProperties
<1>2. /\ c \in Seq(Frames) /\ Len(c) = Len(s) + Len(t)
      /\ \A i \in 1 .. Len(c) : c[i] = IF i <= Len(s) THEN s[i] ELSE t[i - Len(s)]
  BY ConcatProperties, <1>1
<1>3. /\ s \o u \in Seq(Frames) /\ Len(s \o u) = Len(s) + Len(t) - 1
      /\ \A i \in 1 .. Len(s) + Len(t) - 1 :
           (s \o u)[i] = IF i <= Len(s) THEN s[i] ELSE u[i - Len(s)]
  <2>1. /\ s \o u \in Seq(Frames) /\ Len(s \o u) = Len(s) + Len(u)
        /\ \A i \in 1 .. Len(s) + Len(u) :
             (s \o u)[i] = IF i <= Len(s) THEN s[i] ELSE u[i - Len(s)]
    BY ConcatProperties
  <2>2. Len(s) + Len(u) = Len(s) + Len(t) - 1
    BY <1>1
  <2> QED BY <2>1, <2>2
<1>4. \A i \in 1 .. Len(t) - 1 : u[i] = IF i < at THEN t[i] ELSE t[i + 1]
  OBVIOUS
<1> HIDE DEF c
<1>5. \A i \in 1 .. Len(c) - 1 : c[i] \in Frames /\ c[i + 1] \in Frames
  BY <1>1, <1>2, ElementOfSeq
<1>6. d \in Seq(Frames) /\ Len(d) = Len(s) + Len(t) - 1
  BY <1>1, <1>2, <1>5
<1>7. \A i \in 1 .. Len(s) + Len(t) - 1 : d[i] = IF i < Len(s) + at THEN c[i] ELSE c[i + 1]
  BY <1>1, <1>2
<1> HIDE DEF d
<1>8. ASSUME NEW i \in 1 .. Len(s) + Len(t) - 1 PROVE (s \o u)[i] = d[i]
  <2>1. i \in Nat /\ at \in Nat /\ i \in 1 .. Len(c) /\ i + 1 \in 1 .. Len(c)
    BY <1>1, <1>2, <1>8
  <2>2. CASE i <= Len(s)
    <3>1. i < Len(s) + at
      BY <1>1, <2>1, <2>2
    <3> QED BY <1>2, <1>3, <1>7, <2>1, <2>2, <3>1
  <2>3. CASE ~(i <= Len(s)) /\ i < Len(s) + at
    <3>1. i - Len(s) \in 1 .. Len(t) - 1 /\ i - Len(s) < at
      BY <1>1, <2>1, <2>3
    <3>2. (s \o u)[i] = u[i - Len(s)] /\ u[i - Len(s)] = t[i - Len(s)]
      BY <1>3, <1>4, <2>3, <3>1
    <3>3. d[i] = c[i] /\ c[i] = t[i - Len(s)]
      BY <1>2, <1>7, <2>1, <2>3
    <3> QED BY <3>2, <3>3
  <2>4. CASE ~(i < Len(s) + at)
    <3>1. /\ i - Len(s) \in 1 .. Len(t) - 1 /\ ~(i - Len(s) < at) /\ ~(i <= Len(s))
          /\ ~(i + 1 <= Len(s)) /\ (i + 1) - Len(s) = (i - Len(s)) + 1
      BY <1>1, <2>1, <2>4
    <3>2. (s \o u)[i] = u[i - Len(s)] /\ u[i - Len(s)] = t[(i - Len(s)) + 1]
      BY <1>3, <1>4, <3>1
    <3>3. d[i] = c[i + 1] /\ c[i + 1] = t[(i + 1) - Len(s)]
      BY <1>2, <1>7, <2>1, <2>4, <3>1
    <3> QED BY <3>1, <3>2, <3>3
  <2> QED BY <2>2, <2>3, <2>4
<1>9. s \o u = d
  BY <1>3, <1>6, <1>8, SeqEqual
<1>10. Len(s) + at \in 1 .. Len(c)
  BY <1>1, <1>2
<1> QED BY <1>9, <1>10 DEF c, d

\* The initial gate is the empty outbox.
LEMMA InitRefines == Init => O!Init
<1> SUFFICES ASSUME Init PROVE O!Init
  OBVIOUS
<1>1. Pending = <<>>
  BY DEF Init, Pending
<1> QED BY <1>1 DEF Init, O!Init

\* The steps of a sender and of retract accept a frame, take one back, or
\* leave the outbox alone.
LEMMA SenderRefines ==
  ASSUME GInv, NEW f \in Frames,
         Refuse(f) \/ Queue(f) \/ SendParts(f) \/ CopyParts(f) \/ Retract(f) \/ RetractLate(f)
  PROVE  O!Next \/ UNCHANGED O!vars
<1>1. CASE Refuse(f) \/ CopyParts(f) \/ RetractLate(f)
  BY <1>1 DEF Refuse, CopyParts, RetractLate, O!vars, Pending
<1>2. CASE Queue(f)
  <2>1. CASE broken
    BY <1>2, <2>1 DEF Queue, O!vars, Pending
  <2>2. CASE ~broken
    <3>1. batch \o Append(queued, f) = Append(batch \o queued, f)
      BY ConcatAppend DEF GInv, TypeOK
    <3>2. O!Accept(f)
      BY <1>2, <2>2, <3>1 DEF Queue, O!Accept, Pending
    <3> QED BY <3>2 DEF O!Next
  <2> QED BY <2>1, <2>2
<1>3. CASE SendParts(f)
  <2>1. ~broken /\ batch = <<>> /\ queued = <<>>
    BY <1>3, GateAssumption DEF GInv, SendParts, FreeMeansEmpty, BrokenState
  <2>2. Pending = <<>> /\ Pending' = <<f>>
    <3>1. <<>> \o <<>> = <<>> /\ <<f>> \o <<>> = <<f>>
      BY ConcatEmptySeq
    <3> QED BY <1>3, <2>1, <3>1 DEF SendParts, Pending
  <2>3. O!Accept(f)
    BY <1>3, <2>1, <2>2 DEF SendParts, O!Accept
  <2> QED BY <2>3 DEF O!Next
<1>4. CASE Retract(f)
  <2>1. CASE broken
    BY <1>4, <2>1 DEF Retract, O!vars, Pending
  <2>2. CASE ~broken
    <3>1. PICK at \in 1 .. Len(queued) :
            /\ Without(f) = [i \in 1 .. Len(queued) - 1 |->
                               IF i < at THEN queued[i] ELSE queued[i + 1]]
            /\ Without(f) \in Seq(Frames)
            /\ Len(Without(f)) = Len(queued) - 1
      BY <1>4, WithoutFacts DEF GInv, Retract
    <3>2. /\ Len(batch) + at \in 1 .. Len(batch \o queued)
          /\ batch \o Without(f) =
               [i \in 1 .. Len(batch \o queued) - 1 |->
                  IF i < Len(batch) + at THEN (batch \o queued)[i]
                                         ELSE (batch \o queued)[i + 1]]
      <4>1. batch \in Seq(Frames) /\ queued \in Seq(Frames)
        BY DEF GInv, TypeOK
      <4> DEFINE u == Without(f)
      <4>2. /\ u \in Seq(Frames) /\ Len(u) = Len(queued) - 1
            /\ \A i \in 1 .. Len(queued) - 1 :
                 u[i] = IF i < at THEN queued[i] ELSE queued[i + 1]
        BY <3>1
      <4> HIDE DEF u
      <4>3. /\ Len(batch) + at \in 1 .. Len(batch \o queued)
            /\ batch \o u =
                 [i \in 1 .. Len(batch \o queued) - 1 |->
                    IF i < Len(batch) + at THEN (batch \o queued)[i]
                                           ELSE (batch \o queued)[i + 1]]
        BY <4>1, <4>2, ConcatWithout, ZenonT(90)
      <4> QED BY <4>3 DEF u
    <3>3. Pending = batch \o queued /\ Pending' = batch \o Without(f)
      BY <1>4, <2>2 DEF Retract, Pending
    <3>4. O!TakeBack
      BY <1>4, <3>2, <3>3 DEF Retract, O!TakeBack
    <3> QED BY <3>4 DEF O!Next
  <2> QED BY <2>1, <2>2
<1> QED BY <1>1, <1>2, <1>3, <1>4

\* The thread writing writes the oldest pending frame, fails, or leaves the
\* outbox alone.
LEMMA WriterRefines ==
  ASSUME GInv, NEW f \in Frames,
         WriteFrame(f) \/ WriteFails(f) \/ Failed(f) \/ TakeBatch(f) \/ GiveBack(f)
  PROVE  O!Next \/ UNCHANGED O!vars
<1>1. CASE WriteFrame(f) \/ WriteFails(f)
  <2>1. ~broken /\ Pending = batch \o queued
    BY <1>1 DEF GInv, BrokenState, WriteFrame, WriteFails, Pending
  <2>2. /\ Pending # <<>> /\ Head(Pending) = Head(batch)
        /\ Tail(Pending) = Tail(batch) \o queued
    <3>1. batch \in Seq(Frames) /\ queued \in Seq(Frames) /\ batch # <<>>
      BY <1>1 DEF GInv, TypeOK, WriteFrame, WriteFails
    <3> QED BY <2>1, <3>1, ConcatHead
  <2>3. CASE WriteFrame(f)
    <3>1. O!Write
      BY <2>1, <2>2, <2>3 DEF WriteFrame, O!Write, Pending
    <3> QED BY <3>1 DEF O!Next
  <2>4. CASE WriteFails(f)
    <3>1. O!Fail
      BY <2>2, <2>4 DEF WriteFails, O!Fail, Pending
    <3> QED BY <3>1 DEF O!Next
  <2> QED BY <1>1, <2>3, <2>4
<1>2. CASE Failed(f)
  <2>1. broken
    BY <1>2 DEF GInv, BrokenState, Failed
  <2>2. O!Close
    BY <1>2, <2>1 DEF Failed, O!Close, Pending
  <2> QED BY <2>2 DEF O!Next
<1>3. CASE TakeBatch(f)
  <2>1. <<>> \o queued = queued /\ queued \o <<>> = queued
    BY ConcatEmptySeq DEF GInv, TypeOK
  <2> QED BY <1>3, <2>1 DEF TakeBatch, O!vars, Pending
<1>4. CASE GiveBack(f)
  BY <1>4 DEF GiveBack, O!vars, Pending
<1> QED BY <1>1, <1>2, <1>3, <1>4

\* The link's end closes the outbox and otherwise leaves it alone.
LEMMA EnderRefines ==
  ASSUME GInv, Close \/ Ending
  PROVE  O!Next \/ UNCHANGED O!vars
<1>1. CASE Close
  <2>1. queued' = queued
    BY <1>1 DEF GInv, FreeMeansEmpty, Close
  <2>2. O!Close
    BY <1>1, <2>1 DEF Close, O!Close, Pending
  <2> QED BY <2>2 DEF O!Next
<1>2. CASE ShutDown \/ SkipShutDown
  BY <1>2 DEF ShutDown, SkipShutDown, O!vars, Pending
<1>3. CASE EnderDrains
  <2>1. queued = <<>> /\ wire \o <<>> = wire
    BY <1>3, ConcatEmptySeq DEF GInv, TypeOK, EndedState, OneWriter, EnderDrains
  <2> QED BY <1>3, <2>1 DEF EnderDrains, O!vars, Pending
<1> QED BY <1>1, <1>2, <1>3 DEF Ending

\* The gate implements Outbox: with any number of sending threads, retracts,
\* failures and the link's end, the peer sees one ordered outbox.
THEOREM Refinement == Spec => ImplementsOutbox
<1>1. ASSUME GInv, [Next]_vars PROVE [O!Next]_(O!vars)
  <2>1. CASE UNCHANGED vars
    BY <2>1 DEF vars, O!vars, Pending
  <2>2. CASE Next
    BY <1>1, <2>2, SenderRefines, WriterRefines, EnderRefines DEF Next, Sending
  <2> QED BY <1>1, <2>1, <2>2
<1> QED BY <1>1, InitRefines, Invariance, PTL DEF Spec, ImplementsOutbox, O!Spec

-----------------------------------------------------------------------------
(* The order of the wire.                                                  *)

\* A frame is accepted once, and the history holds exactly those accepted.
AcceptedOnce ==
  /\ \A a, b \in 1 .. Len(order) : order[a] = order[b] => a = b
  /\ \A f \in Frames : (\E a \in 1 .. Len(order) : order[a] = f)
                         <=> pc[f] \notin {"new", "copying", "refused"}

\* What goes was accepted, in this order, and was not taken back; until a write
\* fails it is all that was accepted and not taken back.
SentInOrder ==
  /\ \A i \in 1 .. Len(Sent) : pc[Sent[i]] \notin {"new", "copying", "refused", "retracted"}
  /\ \A i, k \in 1 .. Len(Sent) : i < k => Before(Sent[i], Sent[k])
  /\ ~broken => \A a \in 1 .. Len(order) :
                  pc[order[a]] # "retracted" => \E i \in 1 .. Len(Sent) : Sent[i] = order[a]

OInv == GInv /\ AcceptedOnce /\ SentInOrder

\* Three sequences in a row, whichever two are joined first.
LEMMA ThreeInARow ==
  ASSUME NEW w \in Seq(Frames), NEW h \in Seq(Frames), NEW t \in Seq(Frames)
  PROVE  w \o (h \o t) = (w \o h) \o t
BY ConcatAssociative

\* Behind a stretch of d that is dropped after p, what follows moves up by d.
LEMMA Shift ==
  ASSUME NEW p \in Nat, NEW d \in Nat, NEW w \in Nat, NEW b \in Nat, NEW q \in Nat,
         NEW i \in Nat, p + d = w + b, i > p, i <= p + q
  PROVE  /\ i - p \in 1 .. q /\ p + (i - p) = i
         /\ w + b + (i - p) = i + d /\ i + d \in 1 .. w + b + q
OBVIOUS

\* Three sequences in a row are as long as the three, each at its place.
LEMMA ThreeParts ==
  ASSUME NEW w \in Seq(Frames), NEW b \in Seq(Frames), NEW q \in Seq(Frames)
  PROVE  /\ w \o b \o q \in Seq(Frames) /\ Len(w \o b \o q) \in Nat
         /\ Len(w \o b \o q) = Len(w) + Len(b) + Len(q)
         /\ \A i \in 1 .. Len(w) : (w \o b \o q)[i] = w[i]
         /\ \A i \in 1 .. Len(b) : (w \o b \o q)[Len(w) + i] = b[i]
         /\ \A i \in 1 .. Len(q) : (w \o b \o q)[Len(w) + Len(b) + i] = q[i]
<1> DEFINE c == w \o b
<1>1. Len(w) \in Nat /\ Len(b) \in Nat /\ Len(q) \in Nat
  BY LenProperties
<1>2. /\ c \in Seq(Frames) /\ Len(c) = Len(w) + Len(b)
      /\ \A i \in 1 .. Len(w) + Len(b) :
           c[i] = IF i <= Len(w) THEN w[i] ELSE b[i - Len(w)]
  BY <1>1, ConcatProperties
<1> HIDE DEF c
<1> DEFINE s == c \o q
<1>3. /\ s \in Seq(Frames) /\ Len(s) = Len(c) + Len(q)
      /\ \A i \in 1 .. Len(c) + Len(q) : s[i] = IF i <= Len(c) THEN c[i] ELSE q[i - Len(c)]
  <2>1. c \in Seq(Frames)
    BY <1>2
  <2> QED BY <2>1, ConcatProperties
<1>4. w \o b \o q = s
  BY DEF s, c
<1> HIDE DEF s
<1>5. ASSUME NEW i \in 1 .. Len(w) PROVE s[i] = w[i]
  BY <1>1, <1>2, <1>3, <1>5
<1>6. ASSUME NEW i \in 1 .. Len(b) PROVE s[Len(w) + i] = b[i]
  <2>1. /\ Len(w) + i \in 1 .. Len(w) + Len(b) /\ ~(Len(w) + i <= Len(w))
        /\ (Len(w) + i) - Len(w) = i
    BY <1>1, <1>6
  <2> QED BY <1>1, <1>2, <1>3, <2>1
<1>7. ASSUME NEW i \in 1 .. Len(q) PROVE s[Len(w) + Len(b) + i] = q[i]
  <2>1. /\ Len(c) + i \in 1 .. Len(c) + Len(q) /\ ~(Len(c) + i <= Len(c))
        /\ (Len(c) + i) - Len(c) = i
    BY <1>1, <1>2, <1>7
  <2>2. s[Len(c) + i] = q[i]
    BY <1>3, <2>1
  <2> QED BY <1>2, <2>2
<1>8. Len(s) = Len(w) + Len(b) + Len(q) /\ Len(s) \in Nat
  BY <1>1, <1>2, <1>3
<1> QED BY <1>3, <1>4, <1>5, <1>6, <1>7, <1>8

\* What goes is a sequence of frames, as long as its three parts.
LEMMA SentIs ==
  ASSUME TypeOK
  PROVE  /\ Sent \in Seq(Frames) /\ Len(Sent) \in Nat
         /\ Len(Sent) = Len(wire) + Len(batch) + Len(queued)
         /\ \A i \in 1 .. Len(wire) : Sent[i] = wire[i]
         /\ \A i \in 1 .. Len(batch) : Sent[Len(wire) + i] = batch[i]
         /\ \A i \in 1 .. Len(queued) : Sent[Len(wire) + Len(batch) + i] = queued[i]
<1>1. wire \in Seq(Frames) /\ batch \in Seq(Frames) /\ queued \in Seq(Frames)
  BY DEF TypeOK
<1> QED BY <1>1, ThreeParts DEF Sent

\* SentIs of the next state.
LEMMA SentIsNext ==
  ASSUME TypeOK'
  PROVE  /\ Len(Sent') = Len(wire') + Len(batch') + Len(queued')
         /\ \A i \in 1 .. Len(wire') : Sent'[i] = wire'[i]
         /\ \A i \in 1 .. Len(queued') : Sent'[Len(wire') + Len(batch') + i] = queued'[i]
<1>1. wire' \in Seq(Frames) /\ batch' \in Seq(Frames) /\ queued' \in Seq(Frames)
  BY DEF TypeOK
<1> QED BY <1>1, ThreeParts DEF Sent

\* retract() removes the frame it was asked to remove.
LEMMA WithoutIs ==
  ASSUME TypeOK, NEW f \in Frames, InQueue(f)
  PROVE  \E at \in 1 .. Len(queued) :
           /\ queued[at] = f
           /\ Without(f) \in Seq(Frames) /\ Len(Without(f)) = Len(queued) - 1
           /\ \A i \in 1 .. Len(queued) - 1 :
                Without(f)[i] = IF i < at THEN queued[i] ELSE queued[i + 1]
<1> DEFINE at == CHOOSE i \in 1 .. Len(queued) : queued[i] = f
<1>1. at \in 1 .. Len(queued) /\ queued[at] = f
  BY DEF InQueue
<1>2. Without(f) = [i \in 1 .. Len(queued) - 1 |-> IF i < at THEN queued[i] ELSE queued[i + 1]]
  BY DEF Without
<1> HIDE DEF at
<1>3. Without(f) \in Seq(Frames) /\ Len(Without(f)) = Len(queued) - 1
  BY <1>1, <1>2 DEF TypeOK
<1>4. \A i \in 1 .. Len(queued) - 1 :
        Without(f)[i] = IF i < at THEN queued[i] ELSE queued[i + 1]
  BY <1>2
<1> QED BY <1>1, <1>3, <1>4

\* No frame goes twice.
LEMMA SentApart ==
  ASSUME OInv, NEW i \in 1 .. Len(Sent), NEW k \in 1 .. Len(Sent), Sent[i] = Sent[k]
  PROVE  i = k
<1>1. ASSUME NEW x \in 1 .. Len(Sent), NEW y \in 1 .. Len(Sent), x < y PROVE Sent[x] # Sent[y]
  <2>1. PICK a, b \in 1 .. Len(order) : a < b /\ order[a] = Sent[x] /\ order[b] = Sent[y]
    BY <1>1 DEF OInv, SentInOrder, Before
  <2>2. a # b
    BY <2>1
  <2> QED BY <2>1, <2>2 DEF OInv, AcceptedOnce
<1>2. Len(Sent) \in Nat
  BY SentIs DEF OInv, GInv
<1> QED BY <1>1, <1>2

\* A step that accepts no frame and takes none back keeps what goes in order.
LEMMA SameSent ==
  ASSUME OInv, Sent' = Sent, order' = order, broken' = broken,
         \A f \in Frames : /\ pc'[f] = "retracted" <=> pc[f] = "retracted"
                           /\ pc'[f] \in {"new", "copying", "refused"}
                                <=> pc[f] \in {"new", "copying", "refused"}
  PROVE  AcceptedOnce' /\ SentInOrder'
<1>1. \A i \in 1 .. Len(Sent) : Sent[i] \in Frames
  BY SentIs DEF OInv, GInv
<1>2. \A a \in 1 .. Len(order) : order[a] \in Frames
  BY DEF OInv, GInv, TypeOK
<1>3. AcceptedOnce'
  BY DEF OInv, AcceptedOnce
<1>4. \A f, g : Before(f, g) <=> Before(f, g)'
  BY DEF Before
<1>5. SentInOrder'
  BY <1>1, <1>2, <1>4 DEF OInv, SentInOrder
<1> QED BY <1>3, <1>5

\* A step that accepts a frame puts it last.
LEMMA SentGrows ==
  ASSUME OInv, NEW f \in Frames, pc[f] \in {"new", "copying"},
         NEW to \in {"writing", "sent"}, pc' = [pc EXCEPT ![f] = to],
         Sent' = Append(Sent, f), order' = Append(order, f), broken' = broken
  PROVE  AcceptedOnce' /\ SentInOrder'
<1> DEFINE n == Len(Sent)
           m == Len(order)
<1>1. /\ Sent \in Seq(Frames) /\ n \in Nat /\ order \in Seq(Frames) /\ m \in Nat
      /\ pc \in [Frames -> PcStates]
  BY SentIs DEF OInv, GInv, TypeOK
<1>2. /\ Len(Sent') = n + 1 /\ Sent'[n + 1] = f /\ \A i \in 1 .. n : Sent'[i] = Sent[i]
      /\ Len(order') = m + 1 /\ order'[m + 1] = f /\ \A a \in 1 .. m : order'[a] = order[a]
  BY <1>1
<1>3. /\ \A i \in 1 .. n : Sent[i] \in Frames
      /\ \A a \in 1 .. m : order[a] \in Frames /\ order[a] # f
  BY <1>1 DEF OInv, AcceptedOnce
<1>4. pc'[f] = to /\ \A g \in Frames \ {f} : pc'[g] = pc[g]
  BY <1>1
<1>5. \A a \in 1 .. m + 1 : a \in 1 .. m \/ a = m + 1
  BY <1>1
<1>6. \A i \in 1 .. n + 1 : i \in 1 .. n \/ i = n + 1
  BY <1>1
<1>7. m + 1 \in 1 .. m + 1 /\ n + 1 \in 1 .. n + 1 /\ (\A a \in 1 .. m : a \in 1 .. m + 1 /\ a < m + 1)
      /\ (\A i \in 1 .. n : i \in 1 .. n + 1)
  BY <1>1
<1> HIDE DEF n, m
<1>8. AcceptedOnce'
  <2>1. \A a, b \in 1 .. m + 1 : order'[a] = order'[b] => a = b
    BY <1>2, <1>3, <1>5 DEF OInv, AcceptedOnce, m
  <2>2. \A g \in Frames : (\E a \in 1 .. m + 1 : order'[a] = g) <=> (g = f \/ \E a \in 1 .. m : order[a] = g)
    BY <1>2, <1>5, <1>7
  <2>3. \A g \in Frames : (\E a \in 1 .. m + 1 : order'[a] = g)
                            <=> pc'[g] \notin {"new", "copying", "refused"}
    BY <1>4, <2>2 DEF OInv, AcceptedOnce, m
  <2> QED BY <1>2, <2>1, <2>3 DEF AcceptedOnce
<1>9. \A i \in 1 .. n : \E a \in 1 .. m : order[a] = Sent[i]
  BY <1>3 DEF OInv, AcceptedOnce, SentInOrder, n, m
<1>10. ASSUME NEW i \in 1 .. n + 1, NEW k \in 1 .. n + 1, i < k
       PROVE  \E a, b \in 1 .. m + 1 : a < b /\ order'[a] = Sent'[i] /\ order'[b] = Sent'[k]
  <2>1. i \in 1 .. n
    BY <1>1, <1>10 DEF n
  <2>2. CASE k \in 1 .. n
    <3>1. PICK a, b \in 1 .. m : a < b /\ order[a] = Sent[i] /\ order[b] = Sent[k]
      BY <1>10, <2>1, <2>2 DEF OInv, SentInOrder, Before, n, m
    <3> QED BY <1>2, <1>7, <2>1, <2>2, <3>1
  <2>3. CASE k = n + 1
    <3>1. PICK a \in 1 .. m : order[a] = Sent[i]
      BY <1>9, <2>1
    <3> QED BY <1>2, <1>7, <2>1, <2>3, <3>1
  <2> QED BY <1>6, <2>2, <2>3
<1>11. SentInOrder'
  <2>1. \A i \in 1 .. n + 1 : pc'[Sent'[i]] \notin {"new", "copying", "refused", "retracted"}
    BY <1>2, <1>3, <1>4, <1>6 DEF OInv, SentInOrder, n
  <2>2. ASSUME ~broken, NEW a \in 1 .. m + 1, pc'[order'[a]] # "retracted"
        PROVE  \E i \in 1 .. n + 1 : Sent'[i] = order'[a]
    <3>1. CASE a = m + 1
      BY <1>2, <1>7, <3>1
    <3>2. CASE a \in 1 .. m
      <4>1. pc[order[a]] # "retracted" /\ order'[a] = order[a]
        BY <1>2, <1>3, <1>4, <2>2, <3>2
      <4>2. PICK i \in 1 .. n : Sent[i] = order[a]
        BY <2>2, <3>2, <4>1 DEF OInv, SentInOrder, n, m
      <4> QED BY <1>2, <1>7, <4>1, <4>2
    <3> QED BY <1>5, <3>1, <3>2
  <2>3. (1 .. Len(Sent))' = 1 .. n + 1 /\ (1 .. Len(order))' = 1 .. m + 1
    BY <1>2
  <2>4. ASSUME NEW i \in 1 .. n + 1, NEW k \in 1 .. n + 1, i < k PROVE Before(Sent[i], Sent[k])'
    <3>1. PICK a, b \in 1 .. m + 1 : a < b /\ order'[a] = Sent'[i] /\ order'[b] = Sent'[k]
      BY <1>10, <2>4
    <3>2. a \in (1 .. Len(order))' /\ b \in (1 .. Len(order))'
      BY <2>3
    <3> QED BY <3>1, <3>2 DEF Before
  <2> QED BY <2>1, <2>2, <2>3, <2>4 DEF SentInOrder
<1> QED BY <1>8, <1>11

\* A step that drops a stretch of what goes, as failed writes do, or takes back
\* what it drops, keeps the rest in order.
LEMMA SentThins ==
  ASSUME OInv, order' = order, NEW p \in Nat, NEW d \in Nat, p + d <= Len(Sent),
         Len(Sent') = Len(Sent) - d,
         \A i \in 1 .. Len(Sent) - d : Sent'[i] = Sent[IF i <= p THEN i ELSE i + d],
         \A f \in Frames : pc'[f] \in {"new", "copying", "refused"}
                             <=> pc[f] \in {"new", "copying", "refused"},
         \A i \in 1 .. Len(Sent) - d : pc'[Sent'[i]] # "retracted",
         ~broken' => \A a \in 1 .. Len(order) :
           pc'[order[a]] # "retracted" => \E i \in 1 .. Len(Sent) - d : Sent'[i] = order[a]
  PROVE  AcceptedOnce' /\ SentInOrder'
<1> DEFINE n == Len(Sent) - d
           at(i) == IF i <= p THEN i ELSE i + d
<1>1. /\ \A i \in 1 .. Len(Sent) : Sent[i] \in Frames
      /\ Len(Sent) \in Nat
  BY SentIs DEF OInv, GInv
<1>2. AcceptedOnce'
  BY DEF OInv, AcceptedOnce
<1>3. /\ \A i \in 1 .. n : at(i) \in 1 .. Len(Sent)
      /\ \A i, k \in 1 .. n : i < k => at(i) < at(k)
  BY <1>1
<1>4. \A i \in 1 .. n : Sent'[i] = Sent[at(i)]
  OBVIOUS
<1>5. /\ \A i \in 1 .. n : pc'[Sent'[i]] # "retracted"
      /\ (1 .. Len(Sent))' = 1 .. n
      /\ ~broken' => \A a \in 1 .. Len(order) :
           pc'[order[a]] # "retracted" => \E i \in 1 .. n : Sent'[i] = order[a]
  OBVIOUS
<1> HIDE DEF n, at
<1>6. \A i, k \in 1 .. n : i < k => Before(Sent'[i], Sent'[k])
  <2>1. \A i, k \in 1 .. Len(Sent) : i < k => Before(Sent[i], Sent[k])
    BY DEF OInv, SentInOrder
  <2>2. ASSUME NEW i \in 1 .. n, NEW k \in 1 .. n, i < k PROVE Before(Sent'[i], Sent'[k])
    <3>1. PICK x \in 1 .. Len(Sent), y \in 1 .. Len(Sent) : x = at(i) /\ y = at(k) /\ x < y
      BY <1>3, <2>2
    <3>2. Before(Sent[x], Sent[y])
      BY <2>1, <3>1
    <3>3. Sent'[i] = Sent[x] /\ Sent'[k] = Sent[y]
      BY <1>4, <3>1
    <3> QED BY <3>2, <3>3
  <2> QED BY <2>2
<1>7. \A i, k \in 1 .. n : i < k => Before(Sent[i], Sent[k])'
  BY <1>6 DEF Before
<1>8. \A i \in 1 .. n : pc'[Sent'[i]] \notin {"new", "copying", "refused", "retracted"}
  BY <1>1, <1>3, <1>4, <1>5 DEF OInv, SentInOrder
<1>9. SentInOrder'
  BY <1>5, <1>7, <1>8 DEF SentInOrder
<1> QED BY <1>2, <1>9

\* Nothing has been accepted at the start.
LEMMA InitOInv == Init => OInv
<1> SUFFICES ASSUME Init PROVE OInv
  OBVIOUS
<1>1. Len(order) = 0 /\ Len(wire) = 0 /\ Len(batch) = 0 /\ Len(queued) = 0
  BY DEF Init
<1>2. GInv
  BY InitGInv
<1>3. Len(Sent) = 0
  BY <1>1, <1>2, SentIs DEF GInv
<1>4. AcceptedOnce /\ SentInOrder
  BY <1>1, <1>3 DEF Init, AcceptedOnce, SentInOrder
<1> QED BY <1>2, <1>4 DEF OInv

\* The steps of a sender and of retract keep what goes in order.
LEMMA SenderInOrder ==
  ASSUME OInv, NEW f \in Frames,
         Refuse(f) \/ Queue(f) \/ SendParts(f) \/ CopyParts(f) \/ Retract(f) \/ RetractLate(f)
  PROVE  AcceptedOnce' /\ SentInOrder'
<1>1. /\ pc \in [Frames -> PcStates] /\ TypeOK
      /\ wire \in Seq(Frames) /\ batch \in Seq(Frames) /\ queued \in Seq(Frames)
      /\ Len(wire) \in Nat /\ Len(batch) \in Nat /\ Len(queued) \in Nat
  BY DEF OInv, GInv, TypeOK
<1>2. CASE Refuse(f) \/ CopyParts(f) \/ RetractLate(f)
  <2>1. Sent' = Sent /\ order' = order /\ broken' = broken
    BY <1>2 DEF Refuse, CopyParts, RetractLate, Sent
  <2>2. \A g \in Frames : /\ pc'[g] = "retracted" <=> pc[g] = "retracted"
                          /\ pc'[g] \in {"new", "copying", "refused"}
                               <=> pc[g] \in {"new", "copying", "refused"}
    BY <1>1, <1>2 DEF Refuse, CopyParts, RetractLate
  <2> QED BY <2>1, <2>2, SameSent
<1>3. wire \o batch \in Seq(Frames)
  BY <1>1, ConcatProperties
<1>4. CASE Queue(f)
  <2>1. Sent' = Append(Sent, f)
    <3>1. wire' = wire /\ batch' = batch /\ queued' = Append(queued, f)
      BY <1>4 DEF Queue
    <3>2. (wire \o batch) \o Append(queued, f) = Append((wire \o batch) \o queued, f)
      BY <1>1, <1>3, ConcatAppend
    <3> QED BY <3>1, <3>2 DEF Sent
  <2>2. PICK to \in {"writing", "sent"} : pc' = [pc EXCEPT ![f] = to]
    BY <1>4 DEF Queue
  <2>3. order' = Append(order, f) /\ broken' = broken /\ pc[f] \in {"new", "copying"}
    BY <1>4 DEF Queue
  <2> QED BY <2>1, <2>2, <2>3, SentGrows
<1>5. CASE SendParts(f)
  <2>1. batch = <<>> /\ queued = <<>>
    BY <1>5 DEF OInv, GInv, FreeMeansEmpty, SendParts
  <2>2. Sent = wire
    BY <1>1, <2>1, ConcatEmptySeq DEF Sent
  <2>3. Sent' = Append(wire, f)
    <3>1. wire \o <<f>> = Append(wire, f) /\ wire \o <<f>> \in Seq(Frames)
      BY <1>1, AppendIsConcat, AppendProperties
    <3>2. Sent' = (wire \o <<f>>) \o <<>>
      BY <1>5, <2>1 DEF SendParts, Sent
    <3> QED BY <3>1, <3>2, ConcatEmptySeq
  <2>4. order' = Append(order, f) /\ broken' = broken /\ pc[f] \in {"new", "copying"}
        /\ pc' = [pc EXCEPT ![f] = "writing"]
    BY <1>5 DEF SendParts
  <2> QED BY <2>2, <2>3, <2>4, SentGrows
<1>6. CASE Retract(f)
  <2> DEFINE c == wire \o batch
             u == Without(f)
  <2>1. PICK at \in 1 .. Len(queued) :
          /\ queued[at] = f
          /\ u \in Seq(Frames) /\ Len(u) = Len(queued) - 1
          /\ \A i \in 1 .. Len(queued) - 1 : u[i] = IF i < at THEN queued[i] ELSE queued[i + 1]
    BY <1>1, <1>6, WithoutIs DEF Retract
  <2>2. Len(c) = Len(wire) + Len(batch) /\ c \in Seq(Frames) /\ Len(c) \in Nat
    BY <1>1, ConcatProperties
  <2>3. Sent = c \o queued /\ Sent' = c \o u
    BY <1>6 DEF Retract, Sent
  <2> HIDE DEF c, u
  <2>4. /\ Len(c) + at \in 1 .. Len(c \o queued)
        /\ c \o u = [i \in 1 .. Len(c \o queued) - 1 |->
                       IF i < Len(c) + at THEN (c \o queued)[i] ELSE (c \o queued)[i + 1]]
    <3>1. /\ c \in Seq(Frames) /\ queued \in Seq(Frames) /\ at \in 1 .. Len(queued)
          /\ u \in Seq(Frames) /\ Len(u) = Len(queued) - 1
          /\ \A i \in 1 .. Len(queued) - 1 : u[i] = IF i < at THEN queued[i] ELSE queued[i + 1]
      BY <1>1, <2>1, <2>2
    <3> QED BY <3>1, ConcatWithout, ZenonT(90)
  <2> DEFINE p == Len(c) + at - 1
  <2>5. /\ p \in Nat /\ p + 1 = Len(c) + at /\ p + 1 \in 1 .. Len(Sent) /\ p + 1 <= Len(Sent)
        /\ Len(Sent) \in Nat /\ Len(Sent) - 1 \in Nat
    BY <1>1, <2>2, <2>3, <2>4, SentIs
  <2>6. /\ Len(Sent') = Len(Sent) - 1
        /\ \A i \in 1 .. Len(Sent) - 1 : Sent'[i] = Sent[IF i <= p THEN i ELSE i + 1]
    <3>1. Sent' = [i \in 1 .. Len(Sent) - 1 |->
                       IF i < p + 1 THEN Sent[i] ELSE Sent[i + 1]]
      BY <2>3, <2>4, <2>5
    <3>2. \A i \in 1 .. Len(Sent) - 1 : i < p + 1 <=> i <= p
      BY <2>5
    <3>3. Sent' \in Seq(Frames)
      BY <2>1, <2>2, <2>3, ConcatProperties
    <3> HIDE DEF p
    <3>4. Len(Sent') = Len(Sent) - 1
      BY <2>5, <3>1, <3>3
    <3> QED BY <3>1, <3>2, <3>4
  <2>7. Sent[p + 1] = f
    BY <1>1, <2>1, <2>2, <2>5, SentIs
  <2> HIDE DEF p
  <2>8. pc'[f] = "retracted" /\ pc[f] = "sent" /\ \A g \in Frames \ {f} : pc'[g] = pc[g]
    BY <1>1, <1>6 DEF Retract
  <2>9. \A i \in 1 .. Len(Sent) - 1 :
          (IF i <= p THEN i ELSE i + 1) \in 1 .. Len(Sent) /\ (IF i <= p THEN i ELSE i + 1) # p + 1
    BY <2>5
  <2>10. \A i \in 1 .. Len(Sent) - 1 : Sent'[i] # f
    BY <2>5, <2>6, <2>7, <2>9, SentApart
  <2>11. \A i \in 1 .. Len(Sent) : Sent[i] \in Frames
    BY <1>1, SentIs
  <2>12. \A i \in 1 .. Len(Sent) - 1 : pc'[Sent'[i]] # "retracted"
    BY <2>6, <2>8, <2>9, <2>10, <2>11 DEF OInv, SentInOrder
  <2>13. ASSUME ~broken', NEW a \in 1 .. Len(order), pc'[order[a]] # "retracted"
         PROVE  \E i \in 1 .. Len(Sent) - 1 : Sent'[i] = order[a]
    <3>1. order[a] \in Frames /\ order[a] # f
      BY <2>8, <2>13 DEF OInv, GInv, TypeOK
    <3>2. ~broken /\ pc[order[a]] # "retracted"
      BY <1>6, <2>8, <2>13, <3>1 DEF Retract
    <3>3. PICK k \in 1 .. Len(Sent) : Sent[k] = order[a]
      BY <3>2 DEF OInv, SentInOrder
    <3>4. k # p + 1
      BY <2>7, <3>1, <3>3
    <3>5. CASE k <= p
      BY <2>5, <2>6, <3>3, <3>5
    <3>6. CASE ~(k <= p)
      <4>1. k - 1 \in 1 .. Len(Sent) - 1 /\ ~(k - 1 <= p) /\ (k - 1) + 1 = k
        BY <2>5, <3>4, <3>6
      <4>2. Sent'[k - 1] = Sent[k]
        BY <2>6, <4>1
      <4> QED BY <3>3, <4>1, <4>2
    <3> QED BY <3>5, <3>6
  <2>14. order' = order
    BY <1>6 DEF Retract
  <2>15. \A g \in Frames : pc'[g] \in {"new", "copying", "refused"}
                             <=> pc[g] \in {"new", "copying", "refused"}
    BY <2>8
  <2> QED BY <2>5, <2>6, <2>12, <2>13, <2>14, <2>15, SentThins
<1> QED BY <1>2, <1>4, <1>5, <1>6

\* The steps of the thread writing keep what goes in order: a batch is taken
\* whole, and a failed write drops the rest of its batch and then the queue.
LEMMA WriterInOrder ==
  ASSUME OInv, NEW f \in Frames,
         WriteFrame(f) \/ WriteFails(f) \/ Failed(f) \/ TakeBatch(f) \/ GiveBack(f)
  PROVE  AcceptedOnce' /\ SentInOrder'
<1>1. /\ pc \in [Frames -> PcStates] /\ TypeOK /\ TypeOK'
      /\ wire \in Seq(Frames) /\ batch \in Seq(Frames) /\ queued \in Seq(Frames)
      /\ Len(wire) \in Nat /\ Len(batch) \in Nat /\ Len(queued) \in Nat
  BY WriteFrameKeeps, WriteFailsKeeps, FailedKeeps, TakeBatchKeeps, GiveBackKeeps
     DEF OInv, GInv, TypeOK
<1>2. /\ order' = order
      /\ \A g \in Frames : /\ pc'[g] = "retracted" <=> pc[g] = "retracted"
                           /\ pc'[g] \in {"new", "copying", "refused"}
                                <=> pc[g] \in {"new", "copying", "refused"}
  BY <1>1 DEF WriteFrame, WriteFails, Failed, TakeBatch, GiveBack
<1>3. \A i \in 1 .. Len(Sent) : Sent[i] \in Frames /\ pc[Sent[i]] # "retracted"
  BY <1>1, SentIs DEF OInv, SentInOrder
<1>4. CASE WriteFrame(f)
  <2>1. batch = <<Head(batch)>> \o Tail(batch) /\ <<Head(batch)>> \in Seq(Frames)
        /\ Tail(batch) \in Seq(Frames) /\ Head(batch) \in Frames
    <3>1. batch # <<>> /\ Head(batch) \in Frames /\ Tail(batch) \in Seq(Frames)
      BY <1>1, <1>4, HeadTailProperties DEF WriteFrame
    <3> QED BY <1>1, <3>1
  <2> DEFINE h == <<Head(batch)>>
             t == Tail(batch)
  <2>2. Append(wire, Head(batch)) = wire \o h
    BY <1>1, <2>1, AppendIsConcat
  <2>3. batch = h \o t /\ h \in Seq(Frames) /\ t \in Seq(Frames)
    BY <2>1
  <2>4. wire' = wire \o h /\ batch' = t /\ queued' = queued /\ broken' = broken
    BY <1>4, <2>2 DEF WriteFrame
  <2> HIDE DEF h, t
  <2>5. wire \o (h \o t) = (wire \o h) \o t
    <3>1. wire \in Seq(Frames) /\ h \in Seq(Frames) /\ t \in Seq(Frames)
      BY <1>1, <2>3
    <3> QED BY <3>1, ThreeInARow
  <2>6. Sent' = Sent
    BY <2>3, <2>4, <2>5 DEF Sent
  <2> QED BY <1>2, <2>4, <2>6, SameSent
<1>5. CASE WriteFails(f)
  <2>1. batch # <<>> /\ Len(batch) \in Nat \ {0} /\ Head(batch) = batch[1] /\ Head(batch) \in Frames
    BY <1>1, <1>5, EmptySeq, HeadTailProperties DEF WriteFails
  <2>2. /\ batch' = <<>> /\ Len(batch') = 0 /\ queued' = queued /\ broken'
    BY <1>5 DEF WriteFails
  <2>3. /\ Len(wire') \in Nat /\ Len(wire') <= Len(wire) + Len(batch)
        /\ \A i \in 1 .. Len(wire') : Sent[i] = wire'[i]
    <3>1. CASE wire' = wire
      BY <1>1, <3>1, SentIs
    <3>2. CASE wire' = Append(wire, Head(batch))
      <4>1. /\ Len(wire') = Len(wire) + 1 /\ wire'[Len(wire) + 1] = batch[1]
            /\ \A i \in 1 .. Len(wire) : wire'[i] = wire[i]
        BY <1>1, <2>1, <3>2, AppendProperties
      <4>2. Sent[Len(wire) + 1] = batch[1] /\ \A i \in 1 .. Len(wire) : Sent[i] = wire[i]
        BY <1>1, <2>1, SentIs
      <4>3. \A i \in 1 .. Len(wire) + 1 : i \in 1 .. Len(wire) \/ i = Len(wire) + 1
        BY <1>1
      <4>4. Len(wire) + 1 \in Nat /\ Len(wire) + 1 <= Len(wire) + Len(batch)
        BY <1>1, <2>1
      <4> QED BY <4>1, <4>2, <4>3, <4>4
    <3> QED BY <1>5, <3>1, <3>2 DEF WriteFails
  <2> DEFINE p == Len(wire')
             d == Len(wire) + Len(batch) - p
  <2>4. /\ p \in Nat /\ d \in Nat /\ p + d <= Len(Sent) /\ p + d = Len(wire) + Len(batch)
        /\ Len(Sent) - d = p + Len(queued)
    <3>1. Len(Sent) = Len(wire) + Len(batch) + Len(queued)
      BY <1>1, SentIs
    <3>2. p \in Nat /\ p <= Len(wire) + Len(batch)
      BY <2>3
    <3> HIDE DEF p
    <3> QED BY <1>1, <3>1, <3>2
  <2>5. /\ Len(Sent') = p + Len(queued)
        /\ \A i \in 1 .. p : Sent'[i] = wire'[i]
        /\ \A i \in 1 .. Len(queued) : Sent'[p + i] = queued[i]
    <3>1. /\ Len(Sent') = Len(wire') + Len(batch') + Len(queued')
          /\ \A i \in 1 .. Len(wire') : Sent'[i] = wire'[i]
          /\ \A i \in 1 .. Len(queued') : Sent'[Len(wire') + Len(batch') + i] = queued'[i]
      BY <1>1, SentIsNext
    <3>2. p + 0 = p
      BY <2>4
    <3> QED BY <2>2, <3>1, <3>2
  <2> HIDE DEF p, d
  <2>6. ASSUME NEW i \in 1 .. p + Len(queued)
        PROVE  /\ Sent'[i] = Sent[IF i <= p THEN i ELSE i + d]
               /\ (IF i <= p THEN i ELSE i + d) \in 1 .. Len(Sent)
    <3>1. CASE i <= p
      <4>1. i \in 1 .. p /\ i \in 1 .. Len(Sent)
        BY <1>1, <2>4, <2>6, <3>1, SentIs
      <4> QED BY <2>3, <2>5, <3>1, <4>1 DEF p
    <3>2. CASE ~(i <= p)
      <4>1. /\ i - p \in 1 .. Len(queued) /\ p + (i - p) = i
            /\ Len(wire) + Len(batch) + (i - p) = i + d /\ i + d \in 1 .. Len(Sent)
        <5>1. Len(Sent) = Len(wire) + Len(batch) + Len(queued)
          BY <1>1, SentIs
        <5>2. i \in Nat /\ i <= p + Len(queued) /\ i > p
          BY <1>1, <2>4, <2>6, <3>2
        <5>3. /\ p \in Nat /\ d \in Nat /\ i \in Nat /\ p + d = Len(wire) + Len(batch)
              /\ i > p /\ i <= p + Len(queued)
              /\ Len(wire) \in Nat /\ Len(batch) \in Nat /\ Len(queued) \in Nat
          BY <1>1, <2>4, <5>2
        <5>4. /\ i - p \in 1 .. Len(queued) /\ p + (i - p) = i
              /\ Len(wire) + Len(batch) + (i - p) = i + d
              /\ i + d \in 1 .. Len(wire) + Len(batch) + Len(queued)
          <6>1. PICK w, b, q : w = Len(wire) /\ b = Len(batch) /\ q = Len(queued)
            OBVIOUS
          <6>2. /\ w \in Nat /\ b \in Nat /\ q \in Nat /\ p \in Nat /\ d \in Nat /\ i \in Nat
                /\ p + d = w + b /\ i > p /\ i <= p + q
            BY <5>3, <6>1
          <6>3. /\ i - p \in 1 .. q /\ p + (i - p) = i
                /\ w + b + (i - p) = i + d /\ i + d \in 1 .. w + b + q
            BY <6>2
          <6> QED BY <6>1, <6>3, Zenon
        <5> QED BY <5>1, <5>4, Zenon
      <4>2. Sent'[i] = queued[i - p]
        BY <2>5, <4>1
      <4>3. Sent[i + d] = queued[i - p]
        <5>1. Sent[Len(wire) + Len(batch) + (i - p)] = queued[i - p]
          BY <1>1, <4>1, SentIs
        <5> QED BY <4>1, <5>1
      <4> QED BY <3>2, <4>1, <4>2, <4>3
    <3> QED BY <3>1, <3>2
  <2>7. \A i \in 1 .. p + Len(queued) : pc'[Sent'[i]] # "retracted"
    BY <1>2, <1>3, <2>6
  <2> QED BY <1>2, <2>2, <2>4, <2>5, <2>6, <2>7, SentThins
<1>6. CASE Failed(f)
  <2>1. broken /\ broken' = broken /\ batch = <<>> /\ wire' = wire /\ batch' = <<>> /\ queued' = <<>>
    BY <1>6 DEF OInv, GInv, BrokenState, Failed
  <2>2. /\ Len(Sent) = Len(wire) + Len(queued) /\ \A i \in 1 .. Len(wire) : Sent[i] = wire[i]
    BY <1>1, <2>1, SentIs
  <2>3. Sent' = wire
    BY <1>1, <2>1, ConcatEmptySeq DEF Sent
  <2> DEFINE p == Len(wire)
             d == Len(queued)
  <2>4. /\ p \in Nat /\ d \in Nat /\ p + d <= Len(Sent) /\ Len(Sent) - d = p /\ Len(Sent') = p
        /\ \A i \in 1 .. p : i <= p /\ i \in 1 .. Len(Sent)
    BY <1>1, <2>2, <2>3
  <2>5. \A i \in 1 .. p : Sent'[i] = Sent[i]
    BY <2>2, <2>3
  <2> HIDE DEF p, d
  <2>6. \A i \in 1 .. p : pc'[Sent'[i]] # "retracted" /\ Sent'[i] = Sent[IF i <= p THEN i ELSE i + d]
    <3> SUFFICES ASSUME NEW i \in 1 .. p
                 PROVE  pc'[Sent'[i]] # "retracted" /\ Sent'[i] = Sent[IF i <= p THEN i ELSE i + d]
      OBVIOUS
    <3>1. i <= p /\ i \in 1 .. Len(Sent) /\ Sent'[i] = Sent[i]
      BY <2>4, <2>5
    <3>2. pc'[Sent[i]] # "retracted"
      BY <1>2, <1>3, <3>1
    <3> QED BY <3>1, <3>2
  <2> QED BY <1>2, <2>1, <2>4, <2>6, SentThins
<1>7. CASE TakeBatch(f)
  <2>1. batch = <<>> /\ batch' = queued /\ queued' = <<>> /\ wire' = wire /\ broken' = broken
    BY <1>7 DEF TakeBatch
  <2>2. wire \o queued \in Seq(Frames) /\ wire \o <<>> = wire
    BY <1>1, ConcatProperties, ConcatEmptySeq
  <2>3. (wire \o queued) \o <<>> = wire \o queued
    BY <2>2, ConcatEmptySeq
  <2>4. Sent' = Sent
    BY <2>1, <2>2, <2>3 DEF Sent
  <2> QED BY <1>2, <2>1, <2>4, SameSent
<1>8. CASE GiveBack(f)
  <2>1. Sent' = Sent /\ broken' = broken
    BY <1>8 DEF GiveBack, Sent
  <2> QED BY <1>2, <2>1, SameSent
<1> QED BY <1>4, <1>5, <1>6, <1>7, <1>8

\* The link's end leaves what goes as it is: it clears the queue only when the
\* writer is free, and nothing is queued then.
LEMMA EnderInOrder ==
  ASSUME OInv, Close \/ Ending
  PROVE  AcceptedOnce' /\ SentInOrder'
<1>1. /\ pc' = pc /\ order' = order /\ broken' = broken /\ batch' = batch
  BY DEF Close, Ending, ShutDown, SkipShutDown, EnderDrains
<1>2. wire' = wire /\ queued' = queued
  <2>1. CASE Close
    BY <2>1 DEF OInv, GInv, FreeMeansEmpty, Close
  <2>2. CASE ShutDown \/ SkipShutDown
    BY <2>2 DEF ShutDown, SkipShutDown
  <2>3. CASE EnderDrains
    <3>1. queued = <<>> /\ wire \o <<>> = wire
      BY <2>3, ConcatEmptySeq DEF OInv, GInv, TypeOK, EndedState, OneWriter, EnderDrains
    <3> QED BY <2>3, <3>1 DEF EnderDrains
  <2> QED BY <2>1, <2>2, <2>3 DEF Ending
<1>3. Sent' = Sent
  BY <1>1, <1>2 DEF Sent
<1> QED BY <1>1, <1>3, SameSent

\* Every step of the gate keeps what goes in order.
LEMMA NextOInv == OInv /\ [Next]_vars => OInv'
<1> SUFFICES ASSUME OInv, [Next]_vars PROVE OInv'
  OBVIOUS
<1>1. GInv'
  BY NextGInv DEF OInv
<1>2. CASE UNCHANGED vars
  <2>1. Sent' = Sent /\ order' = order /\ broken' = broken /\ pc' = pc
    BY <1>2 DEF vars, Sent
  <2> QED BY <1>1, <2>1, SameSent DEF OInv
<1>3. CASE Next
  <2>1. AcceptedOnce' /\ SentInOrder'
    BY <1>3, SenderInOrder, WriterInOrder, EnderInOrder DEF Next, Sending
  <2> QED BY <1>1, <2>1 DEF OInv
<1> QED BY <1>2, <1>3

\* The frames accepted and not taken back go each once and in the order they
\* were accepted, and a frame taken back never goes, with any number of senders,
\* retracts and failures and the link's end at any point.
THEOREM WireInOrder == Spec => []WireIsInOrder
<1>1. ASSUME OInv PROVE WireIsInOrder
  <2>1. /\ \A i \in 1 .. Len(Sent) : Sent[i] \in Frames
        /\ \A a \in 1 .. Len(order) : order[a] \in Frames
    BY <1>1, SentIs DEF OInv, GInv, TypeOK
  <2>2. RetractedNeverGoes
    BY <1>1 DEF OInv, SentInOrder, RetractedNeverGoes
  <2>3. ASSUME ~broken
        PROVE  {Sent[i] : i \in 1 .. Len(Sent)}
                 = {f \in {order[a] : a \in 1 .. Len(order)} : pc[f] # "retracted"}
    <3>1. ASSUME NEW i \in 1 .. Len(Sent)
          PROVE  pc[Sent[i]] # "retracted" /\ \E a \in 1 .. Len(order) : order[a] = Sent[i]
      BY <1>1, <2>1 DEF OInv, SentInOrder, AcceptedOnce
    <3>2. ASSUME NEW a \in 1 .. Len(order), pc[order[a]] # "retracted"
          PROVE  \E i \in 1 .. Len(Sent) : Sent[i] = order[a]
      BY <1>1, <2>3, <3>2 DEF OInv, SentInOrder
    <3>3. ASSUME NEW i \in 1 .. Len(Sent)
          PROVE  Sent[i] \in {f \in {order[a] : a \in 1 .. Len(order)} : pc[f] # "retracted"}
      BY <3>1
    <3>4. ASSUME NEW f \in {order[a] : a \in 1 .. Len(order)}, pc[f] # "retracted"
          PROVE  f \in {Sent[i] : i \in 1 .. Len(Sent)}
      <4>1. PICK a \in 1 .. Len(order) : f = order[a]
        OBVIOUS
      <4> QED BY <3>2, <3>4, <4>1
    <3> QED BY <3>3, <3>4
  <2>4. InOrder
    BY <1>1, <2>3 DEF OInv, AcceptedOnce, SentInOrder, InOrder
  <2> QED BY <2>2, <2>4 DEF WireIsInOrder
<1> QED BY <1>1, InitOInv, NextOInv, PTL DEF Spec

=============================================================================
