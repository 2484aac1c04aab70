---------------------------- MODULE PoolProofs ----------------------------
(***************************************************************************)
(* Pool's accounting, proved for every number of jobs, threads and places. *)
(*                                                                         *)
(* The counts (PlacesExact, ThreadsExact) are not inductive alone: that a  *)
(* step moves exactly one job or one thread depends on where jobs and      *)
(* threads are, which InHand, InChannel, Starting and IdleAreWaiting say.  *)
(***************************************************************************)
EXTENDS Pool, FiniteSetTheorems, SequenceTheorems, TLAPS

\* A thread has a job in hand exactly while it runs it, and no other has it.
InHand ==
  \A w \in Workers :
    /\ pc[w] = "run" => /\ task[w] \in Jobs
                        /\ job[task[w]] \in {"running", "answering"}
    /\ pc[w] # "run" => task[w] = NoJob
    /\ \A v \in Workers : task[v] = task[w] /\ task[w] # NoJob => v = w

\* A channel holds at most one job, sent to a thread that will receive it.
InChannel ==
  \A w \in Workers :
    chan[w] # <<>> =>
      /\ pc[w] \in {"first", "wait", "timedout"}
      /\ Len(chan[w]) = 1
      /\ job[chan[w][1]] = "sent"
      /\ \A v \in Workers :
           chan[v] # <<>> /\ chan[v][1] = chan[w][1] => v = w

\* A submitter that is starting a thread names one of its own, which waits.
Starting ==
  \A j \in Jobs :
    /\ job[j] \in {"spawning", "starting"} =>
         /\ starting[j] \in Workers
         /\ pc[starting[j]] = IF job[j] = "spawning" THEN "booting" ELSE "first"
         /\ chan[starting[j]] = <<>>
         /\ \A k \in Jobs : starting[k] = starting[j] => k = j
    /\ job[j] \notin {"spawning", "starting"} => starting[j] = NoWorker

\* The queue holds distinct jobs, all of them marked as queued.
InQueue ==
  \A i \in 1 .. Len(queued) :
    /\ job[queued[i]] = "queued"
    /\ \A k \in 1 .. Len(queued) : queued[k] = queued[i] => k = i

Shape == InHand /\ InChannel /\ Starting /\ InQueue /\ IdleAreWaiting

IInv == TypeOK /\ Shape /\ PlacesExact /\ ThreadsExact

\* A channel of one task: what receiving from it gives and leaves.
LEMMA OneTask ==
  ASSUME NEW s \in Seq(Jobs), Len(s) = 1
  PROVE  Head(s) = s[1] /\ s[1] \in Jobs /\ Tail(s) = <<>>
<1>1. s # <<>>
  BY EmptySeq
<1>2. Head(s) \in Jobs /\ Tail(s) \in Seq(Jobs) /\ Len(Tail(s)) = 0
  BY <1>1, HeadTailProperties
<1>3. Head(s) = s[1]
  BY <1>1
<1> QED BY <1>2, <1>3, EmptySeq

\* The idle list without its last entry.
LEMMA Popped ==
  ASSUME TypeOK, idle # <<>>, NEW t, t = [i \in 1 .. Len(idle) - 1 |-> idle[i]]
  PROVE  /\ t \in Seq(Workers)
         /\ Len(idle) \in 1 .. Len(idle)
         /\ \A i \in 1 .. Len(t) : i \in 1 .. Len(idle) /\ i # Len(idle) /\ t[i] = idle[i]
<1>1. idle \in Seq(Workers) /\ Len(idle) \in Nat /\ Len(idle) > 0
  BY EmptySeq DEF TypeOK
<1>2. t \in Seq(Workers) /\ Len(t) = Len(idle) - 1
  BY <1>1
<1> QED BY <1>1, <1>2

\* retain() keeps the other entries of the idle list, each once.
LEMMA WithoutIdleFacts ==
  ASSUME TypeOK, IdleAreWaiting, NEW w \in Workers
  PROVE  /\ WithoutIdle(w) \in Seq(Workers)
         /\ Len(WithoutIdle(w)) <= Len(idle)
         /\ \A i \in 1 .. Len(WithoutIdle(w)) : \E k \in 1 .. Len(idle) :
              WithoutIdle(w)[i] = idle[k] /\ idle[k] # w
         /\ \A i, k \in 1 .. Len(WithoutIdle(w)) :
              WithoutIdle(w)[i] = WithoutIdle(w)[k] => i = k
<1>1. CASE ~ \E i \in 1 .. Len(idle) : idle[i] = w
  BY <1>1 DEF TypeOK, IdleAreWaiting, WithoutIdle
<1>2. CASE \E i \in 1 .. Len(idle) : idle[i] = w
  <2> DEFINE at == CHOOSE i \in 1 .. Len(idle) : idle[i] = w
             cut == [i \in 1 .. Len(idle) - 1 |->
                       IF i < at THEN idle[i] ELSE idle[i + 1]]
  <2>1. at \in 1 .. Len(idle) /\ idle[at] = w
    BY <1>2
  <2>2. WithoutIdle(w) = cut
    BY <1>2 DEF WithoutIdle
  <2> HIDE DEF at
  <2>3. Len(idle) \in Nat /\ Len(idle) > 0
    BY <2>1 DEF TypeOK
  <2>4. cut \in Seq(Workers) /\ Len(cut) = Len(idle) - 1
    BY <2>1, <2>3 DEF TypeOK
  <2>5. \A i \in 1 .. Len(cut) : cut[i] = IF i < at THEN idle[i] ELSE idle[i + 1]
    BY <2>4
  <2> HIDE DEF cut
  <2> DEFINE from(i) == IF i < at THEN i ELSE i + 1
  <2>6. \A i \in 1 .. Len(cut) :
          from(i) \in 1 .. Len(idle) /\ from(i) # at /\ cut[i] = idle[from(i)]
    BY <2>1, <2>3, <2>4, <2>5
  <2>7. \A i, k \in 1 .. Len(cut) : from(i) = from(k) => i = k
    BY <2>1, <2>3, <2>4
  <2>8. \A i, k \in 1 .. Len(idle) : idle[i] = idle[k] => i = k
    BY DEF IdleAreWaiting
  <2> HIDE DEF from
  <2>9. \A i \in 1 .. Len(cut) : cut[i] # w
    BY <2>1, <2>6, <2>8
  <2>10. \A i, k \in 1 .. Len(cut) : cut[i] = cut[k] => i = k
    BY <2>6, <2>7, <2>8
  <2> QED
    BY <2>2, <2>3, <2>4, <2>6, <2>9, <2>10
<1> QED BY <1>1, <1>2

\* IdleAreWaiting survives a step whose idle list is part of the old one
\* and that leaves those threads alone.
LEMMA IdleFrom ==
  ASSUME IdleAreWaiting,
         \A i \in 1 .. Len(idle') : \E k \in 1 .. Len(idle) :
           /\ idle'[i] = idle[k]
           /\ pc'[idle[k]] = pc[idle[k]]
           /\ chan'[idle[k]] = chan[idle[k]],
         \A i, k \in 1 .. Len(idle') : idle'[i] = idle'[k] => i = k
  PROVE  IdleAreWaiting'
<1> SUFFICES ASSUME NEW i \in 1 .. Len(idle')
             PROVE  /\ pc'[idle'[i]] \in {"wait", "timedout"}
                    /\ chan'[idle'[i]] = <<>>
                    /\ \A k \in 1 .. Len(idle') : idle'[i] = idle'[k] => i = k
  BY DEF IdleAreWaiting
<1>1. PICK k \in 1 .. Len(idle) : /\ idle'[i] = idle[k]
                                  /\ pc'[idle[k]] = pc[idle[k]]
                                  /\ chan'[idle[k]] = chan[idle[k]]
  OBVIOUS
<1>2. pc[idle[k]] \in {"wait", "timedout"} /\ chan[idle[k]] = <<>>
  BY DEF IdleAreWaiting
<1> QED BY <1>1, <1>2

\* InHand survives a thread taking a job no thread has in hand.
LEMMA HandFrom ==
  ASSUME TypeOK, InHand, NEW w \in Workers, NEW j \in Jobs,
         \A v \in Workers : task[v] # j,
         task' = [task EXCEPT ![w] = j],
         job' = [job EXCEPT ![j] = "running"],
         pc' = [pc EXCEPT ![w] = "run"]
  PROVE  InHand'
<1>1. /\ task'[w] = j /\ job'[j] = "running" /\ pc'[w] = "run"
      /\ \A v \in Workers \ {w} : task'[v] = task[v] /\ pc'[v] = pc[v]
      /\ \A k \in Jobs \ {j} : job'[k] = job[k]
  BY DEF TypeOK
<1>2. \A v \in Workers \ {w} :
        /\ pc'[v] = "run" => task'[v] \in Jobs /\ job'[task'[v]] \in {"running", "answering"}
        /\ pc'[v] # "run" => task'[v] = NoJob
  BY <1>1 DEF InHand
<1>3. \A u, v \in Workers : task'[u] = task'[v] /\ task'[v] # NoJob => u = v
  BY <1>1 DEF InHand
<1> QED BY <1>1, <1>2, <1>3, PoolAssumption DEF InHand

\* TakePlace keeps jobs and threads where Shape says they are.
LEMMA TakePlaceShape ==
  ASSUME IInv, NEW j \in Jobs, TakePlace(j)
  PROVE  Shape'
<1>1. InHand'
  BY PoolAssumption DEF IInv, Shape, TypeOK, InHand, TakePlace, Submittable
<1>2. InChannel'
  BY PoolAssumption DEF IInv, Shape, TypeOK, InChannel, TakePlace, Submittable
<1>3. Starting'
  BY PoolAssumption DEF IInv, Shape, TypeOK, Starting, TakePlace, Submittable
<1>4. InQueue'
  BY PoolAssumption DEF IInv, Shape, TypeOK, InQueue, TakePlace, Submittable
<1>5. IdleAreWaiting'
  BY PoolAssumption DEF IInv, Shape, TypeOK, IdleAreWaiting, TakePlace
<1> QED BY <1>1, <1>2, <1>3, <1>4, <1>5 DEF Shape

\* RefuseFull keeps jobs and threads where Shape says they are.
LEMMA RefuseFullShape ==
  ASSUME IInv, NEW j \in Jobs, RefuseFull(j)
  PROVE  Shape'
<1>1. InHand'
  BY PoolAssumption DEF IInv, Shape, TypeOK, InHand, RefuseFull, Submittable
<1>2. InChannel'
  BY PoolAssumption DEF IInv, Shape, TypeOK, InChannel, RefuseFull, Submittable
<1>3. Starting'
  BY PoolAssumption DEF IInv, Shape, TypeOK, Starting, RefuseFull, Submittable
<1>4. InQueue'
  BY PoolAssumption DEF IInv, Shape, TypeOK, InQueue, RefuseFull, Submittable
<1>5. IdleAreWaiting'
  BY PoolAssumption DEF IInv, Shape, TypeOK, IdleAreWaiting, RefuseFull
<1> QED BY <1>1, <1>2, <1>3, <1>4, <1>5 DEF Shape

\* What SendIdle does to the state: the popped thread is alive and its
\* channel empty, so the send succeeds.
LEMMA SendIdleEffect ==
  ASSUME IInv, NEW j \in Jobs, SendIdle(j),
         NEW w, w = idle[Len(idle)]
  PROVE  /\ w \in Workers
         /\ pc[w] \in {"wait", "timedout"}
         /\ chan[w] = <<>>
         /\ idle # <<>> /\ Len(idle) \in 1 .. Len(idle)
         /\ idle' = [i \in 1 .. Len(idle) - 1 |-> idle[i]]
         /\ chan' = [chan EXCEPT ![w] = <<j>>]
         /\ job' = [job EXCEPT ![j] = "sent"]
         /\ job[j] = "placing"
         /\ UNCHANGED <<queued, starting, pc, task>>
<1>1. w \in Workers /\ pc[w] \in {"wait", "timedout"} /\ chan[w] = <<>>
  BY Popped DEF IInv, TypeOK, Shape, IdleAreWaiting, SendIdle
<1>2. Append(chan[w], j) = <<j>> /\ Receiving(w)
  BY <1>1 DEF Receiving
<1> QED BY <1>1, <1>2, Popped DEF IInv, TypeOK, SendIdle

\* SendIdle keeps jobs and threads where Shape says they are.
LEMMA SendIdleShape ==
  ASSUME IInv, NEW j \in Jobs, SendIdle(j)
  PROVE  Shape'
<1> DEFINE w == idle[Len(idle)]
<1>0. /\ w \in Workers
      /\ pc[w] \in {"wait", "timedout"}
      /\ chan[w] = <<>>
      /\ idle # <<>> /\ Len(idle) \in 1 .. Len(idle)
      /\ idle' = [i \in 1 .. Len(idle) - 1 |-> idle[i]]
      /\ chan' = [chan EXCEPT ![w] = <<j>>]
      /\ job' = [job EXCEPT ![j] = "sent"]
      /\ job[j] = "placing"
      /\ UNCHANGED <<queued, starting, pc, task>>
  BY SendIdleEffect
<1> HIDE DEF w
<1>1. InHand'
  BY <1>0 DEF IInv, Shape, TypeOK, InHand
<1>2. InChannel'
  BY <1>0 DEF IInv, Shape, TypeOK, InChannel
<1>3. Starting'
  BY <1>0 DEF IInv, Shape, TypeOK, Starting
<1>4. InQueue'
  BY <1>0 DEF IInv, Shape, TypeOK, InQueue
<1>5. IdleAreWaiting'
  <2>1. \A i \in 1 .. Len(idle') :
          i \in 1 .. Len(idle) /\ i # Len(idle) /\ idle'[i] = idle[i]
    BY <1>0, Popped DEF IInv
  <2>2. \A i, k \in 1 .. Len(idle) : idle[i] = idle[k] => i = k
    BY DEF IInv, Shape, IdleAreWaiting
  <2>3. \A i \in 1 .. Len(idle') : idle[i] # w /\ idle[i] \in Workers
    <3>1. \A i \in 1 .. Len(idle) : idle[i] \in Workers
      BY DEF IInv, TypeOK
    <3> QED BY <1>0, <2>1, <2>2, <3>1 DEF w
  <2>4. \A i \in 1 .. Len(idle') :
          pc'[idle[i]] = pc[idle[i]] /\ chan'[idle[i]] = chan[idle[i]]
    BY <1>0, <2>3 DEF IInv, TypeOK
  <2>5. \A i, k \in 1 .. Len(idle') : idle'[i] = idle'[k] => i = k
    BY <2>1, <2>2
  <2> QED BY <2>1, <2>4, <2>5, IdleFrom DEF IInv, Shape
<1> QED BY <1>1, <1>2, <1>3, <1>4, <1>5 DEF Shape

\* Enqueue keeps jobs and threads where Shape says they are.
LEMMA EnqueueShape ==
  ASSUME IInv, NEW j \in Jobs, Enqueue(j)
  PROVE  Shape'
<1>1. InHand'
  BY PoolAssumption DEF IInv, Shape, TypeOK, InHand, Enqueue
<1>2. InChannel'
  BY PoolAssumption DEF IInv, Shape, TypeOK, InChannel, Enqueue
<1>3. Starting'
  BY PoolAssumption DEF IInv, Shape, TypeOK, Starting, Enqueue
<1>4. InQueue'
  BY PoolAssumption DEF IInv, Shape, TypeOK, InQueue, Enqueue
<1>5. IdleAreWaiting'
  BY PoolAssumption DEF IInv, Shape, TypeOK, IdleAreWaiting, Enqueue
<1> QED BY <1>1, <1>2, <1>3, <1>4, <1>5 DEF Shape

\* CountThread keeps jobs and threads where Shape says they are.
LEMMA CountThreadShape ==
  ASSUME IInv, NEW j \in Jobs, NEW w \in Workers, CountThread(j, w)
  PROVE  Shape'
<1>1. InHand'
  BY PoolAssumption DEF IInv, Shape, TypeOK, InHand, CountThread
<1>2. InChannel'
  BY PoolAssumption DEF IInv, Shape, TypeOK, InChannel, CountThread
<1>3. Starting'
  <2>1. chan[w] = <<>>
    BY DEF IInv, Shape, InChannel, CountThread
  <2>2. \A k \in Jobs : starting[k] # w
    BY PoolAssumption DEF IInv, Shape, Starting, CountThread
  <2> QED BY <2>1, <2>2, PoolAssumption DEF IInv, TypeOK, Shape, Starting, CountThread
<1>4. InQueue'
  BY PoolAssumption DEF IInv, Shape, TypeOK, InQueue, CountThread
<1>5. IdleAreWaiting'
  BY PoolAssumption DEF IInv, Shape, TypeOK, IdleAreWaiting, CountThread
<1> QED BY <1>1, <1>2, <1>3, <1>4, <1>5 DEF Shape

\* SpawnThread keeps jobs and threads where Shape says they are.
LEMMA SpawnThreadShape ==
  ASSUME IInv, NEW j \in Jobs, NEW w \in Workers, SpawnThread(j, w)
  PROVE  Shape'
<1>1. InHand'
  BY PoolAssumption DEF IInv, Shape, TypeOK, InHand, SpawnThread, Starting
<1>2. InChannel'
  BY PoolAssumption DEF IInv, Shape, TypeOK, InChannel, SpawnThread
<1>3. Starting'
  BY PoolAssumption DEF IInv, Shape, TypeOK, Starting, SpawnThread
<1>4. InQueue'
  BY PoolAssumption DEF IInv, Shape, TypeOK, InQueue, SpawnThread
<1>5. IdleAreWaiting'
  BY PoolAssumption DEF IInv, Shape, TypeOK, IdleAreWaiting, SpawnThread, Starting
<1> QED BY <1>1, <1>2, <1>3, <1>4, <1>5 DEF Shape

\* SendFirst keeps jobs and threads where Shape says they are.
LEMMA SendFirstShape ==
  ASSUME IInv, NEW j \in Jobs, NEW w \in Workers, SendFirst(j, w)
  PROVE  Shape'
<1>1. InHand'
  BY PoolAssumption DEF IInv, Shape, TypeOK, InHand, SendFirst
<1>2. InChannel'
  BY PoolAssumption DEF IInv, Shape, TypeOK, InChannel, SendFirst, Starting
<1>3. Starting'
  BY PoolAssumption DEF IInv, Shape, TypeOK, Starting, SendFirst
<1>4. InQueue'
  BY PoolAssumption DEF IInv, Shape, TypeOK, InQueue, SendFirst
<1>5. IdleAreWaiting'
  <2>1. pc[w] = "first"
    BY DEF IInv, Shape, Starting, SendFirst
  <2>2. \A i \in 1 .. Len(idle) : idle[i] \in Workers /\ idle[i] # w
    <3>1. \A i \in 1 .. Len(idle) : idle[i] \in Workers
      BY DEF IInv, TypeOK
    <3> QED BY <2>1, <3>1 DEF IInv, Shape, IdleAreWaiting
  <2>3. \A i \in 1 .. Len(idle) : chan'[idle[i]] = chan[idle[i]]
    BY <2>2 DEF IInv, TypeOK, SendFirst
  <2>4. idle' = idle /\ pc' = pc
    BY DEF SendFirst
  <2> QED BY <2>3, <2>4 DEF IInv, Shape, IdleAreWaiting
<1> QED BY <1>1, <1>2, <1>3, <1>4, <1>5 DEF Shape

\* SpawnFails keeps jobs and threads where Shape says they are.
LEMMA SpawnFailsShape ==
  ASSUME IInv, NEW j \in Jobs, NEW w \in Workers, SpawnFails(j, w)
  PROVE  Shape'
<1>1. InHand'
  BY PoolAssumption DEF IInv, Shape, TypeOK, InHand, SpawnFails, Starting
<1>2. InChannel'
  BY PoolAssumption DEF IInv, Shape, TypeOK, InChannel, SpawnFails, Starting
<1>3. Starting'
  BY PoolAssumption DEF IInv, Shape, TypeOK, Starting, SpawnFails
<1>4. InQueue'
  BY PoolAssumption DEF IInv, Shape, TypeOK, InQueue, SpawnFails
<1>5. IdleAreWaiting'
  BY PoolAssumption DEF IInv, Shape, TypeOK, IdleAreWaiting, SpawnFails, Starting
<1> QED BY <1>1, <1>2, <1>3, <1>4, <1>5 DEF Shape

\* RefuseUnstarted keeps jobs and threads where Shape says they are.
LEMMA RefuseUnstartedShape ==
  ASSUME IInv, NEW j \in Jobs, RefuseUnstarted(j)
  PROVE  Shape'
<1>1. InHand'
  BY PoolAssumption DEF IInv, Shape, TypeOK, InHand, RefuseUnstarted
<1>2. InChannel'
  BY PoolAssumption DEF IInv, Shape, TypeOK, InChannel, RefuseUnstarted
<1>3. Starting'
  BY PoolAssumption DEF IInv, Shape, TypeOK, Starting, RefuseUnstarted
<1>4. InQueue'
  BY PoolAssumption DEF IInv, Shape, TypeOK, InQueue, RefuseUnstarted
<1>5. IdleAreWaiting'
  BY PoolAssumption DEF IInv, Shape, TypeOK, IdleAreWaiting, RefuseUnstarted
<1> QED BY <1>1, <1>2, <1>3, <1>4, <1>5 DEF Shape

\* Receive keeps jobs and threads where Shape says they are.
LEMMA ReceiveShape ==
  ASSUME IInv, NEW w \in Workers, Receive(w)
  PROVE  Shape'
<1>0. /\ Head(chan[w]) = chan[w][1] /\ chan[w][1] \in Jobs
      /\ job[chan[w][1]] = "sent"
      /\ Tail(chan[w]) = <<>>
  BY OneTask DEF IInv, TypeOK, Shape, InChannel, Receive
<1>1. InHand'
  <2>1. \A v \in Workers : task[v] # chan[w][1]
    BY <1>0, PoolAssumption DEF IInv, Shape, InHand
  <2> QED BY <1>0, <2>1, HandFrom DEF IInv, Shape, Receive
<1>2. InChannel'
  BY <1>0 DEF IInv, Shape, TypeOK, InChannel, Receive
<1>3. Starting'
  BY <1>0 DEF IInv, Shape, TypeOK, Starting, Receive
<1>4. InQueue'
  BY <1>0 DEF IInv, Shape, TypeOK, InQueue, Receive
<1>5. IdleAreWaiting'
  BY PoolAssumption DEF IInv, Shape, TypeOK, IdleAreWaiting, Receive
<1> QED BY <1>1, <1>2, <1>3, <1>4, <1>5 DEF Shape

\* GiveBack keeps jobs and threads where Shape says they are.
LEMMA GiveBackShape ==
  ASSUME IInv, NEW w \in Workers, GiveBack(w)
  PROVE  Shape'
<1>1. InHand'
  BY PoolAssumption DEF IInv, Shape, TypeOK, InHand, GiveBack
<1>2. InChannel'
  BY PoolAssumption DEF IInv, Shape, TypeOK, InChannel, GiveBack
<1>3. Starting'
  BY PoolAssumption DEF IInv, Shape, TypeOK, Starting, GiveBack
<1>4. InQueue'
  BY PoolAssumption DEF IInv, Shape, TypeOK, InQueue, GiveBack
<1>5. IdleAreWaiting'
  BY PoolAssumption DEF IInv, Shape, TypeOK, IdleAreWaiting, GiveBack
<1> QED BY <1>1, <1>2, <1>3, <1>4, <1>5 DEF Shape

\* Return keeps jobs and threads where Shape says they are.
LEMMA ReturnShape ==
  ASSUME IInv, NEW w \in Workers, Return(w)
  PROVE  Shape'
<1>1. InHand'
  BY PoolAssumption DEF IInv, Shape, TypeOK, InHand, Return
<1>2. InChannel'
  BY PoolAssumption DEF IInv, Shape, TypeOK, InChannel, Return
<1>3. Starting'
  BY PoolAssumption DEF IInv, Shape, TypeOK, Starting, Return
<1>4. InQueue'
  BY PoolAssumption DEF IInv, Shape, TypeOK, InQueue, Return
<1>5. IdleAreWaiting'
  BY PoolAssumption DEF IInv, Shape, TypeOK, IdleAreWaiting, Return
<1> QED BY <1>1, <1>2, <1>3, <1>4, <1>5 DEF Shape

\* TakeQueued keeps jobs and threads where Shape says they are.
LEMMA TakeQueuedShape ==
  ASSUME IInv, NEW w \in Workers, TakeQueued(w)
  PROVE  Shape'
<1>0. /\ Head(queued) = queued[1] /\ queued[1] \in Jobs
      /\ job[queued[1]] = "queued"
      /\ Len(queued') = Len(queued) - 1
      /\ \A i \in 1 .. Len(queued') :
           i + 1 \in 1 .. Len(queued) /\ queued'[i] = queued[i + 1]
  BY DEF IInv, TypeOK, Shape, InQueue, TakeQueued
<1>1. InHand'
  BY <1>0, PoolAssumption DEF IInv, Shape, TypeOK, InHand, TakeQueued
<1>2. InChannel'
  BY <1>0 DEF IInv, Shape, TypeOK, InChannel, TakeQueued
<1>3. Starting'
  BY <1>0 DEF IInv, Shape, TypeOK, Starting, TakeQueued
<1>4. InQueue'
  BY <1>0 DEF IInv, Shape, TypeOK, InQueue, TakeQueued
<1>5. IdleAreWaiting'
  BY PoolAssumption DEF IInv, Shape, TypeOK, IdleAreWaiting, TakeQueued
<1> QED BY <1>1, <1>2, <1>3, <1>4, <1>5 DEF Shape

\* GoIdle keeps jobs and threads where Shape says they are.
LEMMA GoIdleShape ==
  ASSUME IInv, NEW w \in Workers, GoIdle(w)
  PROVE  Shape'
<1>1. InHand'
  BY PoolAssumption DEF IInv, Shape, TypeOK, InHand, GoIdle
<1>2. InChannel'
  BY PoolAssumption DEF IInv, Shape, TypeOK, InChannel, GoIdle
<1>3. Starting'
  BY PoolAssumption DEF IInv, Shape, TypeOK, Starting, GoIdle
<1>4. InQueue'
  BY PoolAssumption DEF IInv, Shape, TypeOK, InQueue, GoIdle
<1>5. IdleAreWaiting'
  <2>1. /\ chan[w] = <<>>
        /\ \A i \in 1 .. Len(idle) : idle[i] # w
    BY DEF IInv, TypeOK, Shape, InChannel, IdleAreWaiting, GoIdle
  <2>2. /\ Len(idle') = Len(idle) + 1
        /\ \A i \in 1 .. Len(idle') :
             \/ i = Len(idle) + 1 /\ idle'[i] = w
             \/ i \in 1 .. Len(idle) /\ idle'[i] = idle[i]
    BY DEF IInv, TypeOK, GoIdle
  <2>3. /\ pc'[w] = "wait" /\ chan' = chan
        /\ \A i \in 1 .. Len(idle) : pc'[idle[i]] = pc[idle[i]]
    <3>1. \A i \in 1 .. Len(idle) : idle[i] \in Workers
      BY DEF IInv, TypeOK
    <3> QED BY <2>1, <3>1 DEF IInv, TypeOK, GoIdle
  <2>4. \A i \in 1 .. Len(idle) :
          /\ pc[idle[i]] \in {"wait", "timedout"}
          /\ chan[idle[i]] = <<>>
          /\ \A k \in 1 .. Len(idle) : idle[i] = idle[k] => i = k
    BY DEF IInv, Shape, IdleAreWaiting
  <2>5. \A i \in 1 .. Len(idle') :
          pc'[idle'[i]] \in {"wait", "timedout"} /\ chan'[idle'[i]] = <<>>
    BY <2>1, <2>2, <2>3, <2>4
  <2>6. \A i, k \in 1 .. Len(idle') : idle'[i] = idle'[k] => i = k
    BY <2>1, <2>2, <2>4
  <2> QED BY <2>5, <2>6 DEF IdleAreWaiting
<1> QED BY <1>1, <1>2, <1>3, <1>4, <1>5 DEF Shape

\* TimeOut keeps jobs and threads where Shape says they are.
LEMMA TimeOutShape ==
  ASSUME IInv, NEW w \in Workers, TimeOut(w)
  PROVE  Shape'
<1>1. InHand'
  BY PoolAssumption DEF IInv, Shape, TypeOK, InHand, TimeOut
<1>2. InChannel'
  BY PoolAssumption DEF IInv, Shape, TypeOK, InChannel, TimeOut
<1>3. Starting'
  BY PoolAssumption DEF IInv, Shape, TypeOK, Starting, TimeOut
<1>4. InQueue'
  BY PoolAssumption DEF IInv, Shape, TypeOK, InQueue, TimeOut
<1>5. IdleAreWaiting'
  BY PoolAssumption DEF IInv, Shape, TypeOK, IdleAreWaiting, TimeOut
<1> QED BY <1>1, <1>2, <1>3, <1>4, <1>5 DEF Shape

\* TakeLate keeps jobs and threads where Shape says they are.
LEMMA TakeLateShape ==
  ASSUME IInv, NEW w \in Workers, TakeLate(w)
  PROVE  Shape'
<1>0. /\ Head(chan[w]) = chan[w][1] /\ chan[w][1] \in Jobs
      /\ job[chan[w][1]] = "sent"
      /\ Tail(chan[w]) = <<>>
  BY OneTask DEF IInv, TypeOK, Shape, InChannel, TakeLate
<1>1. InHand'
  <2>1. \A v \in Workers : task[v] # chan[w][1]
    BY <1>0, PoolAssumption DEF IInv, Shape, InHand
  <2> QED BY <1>0, <2>1, HandFrom DEF IInv, Shape, TakeLate
<1>2. InChannel'
  BY <1>0 DEF IInv, Shape, TypeOK, InChannel, TakeLate
<1>3. Starting'
  BY <1>0 DEF IInv, Shape, TypeOK, Starting, TakeLate
<1>4. InQueue'
  BY <1>0 DEF IInv, Shape, TypeOK, InQueue, TakeLate
<1>5. IdleAreWaiting'
  <2>1. /\ idle' = WithoutIdle(w)
        /\ \A v \in Workers \ {w} : pc'[v] = pc[v] /\ chan'[v] = chan[v]
    BY DEF IInv, TypeOK, TakeLate
  <2>2. \A i \in 1 .. Len(idle) : idle[i] \in Workers
    BY DEF IInv, TypeOK
  <2>3. \A i \in 1 .. Len(idle') : \E k \in 1 .. Len(idle) :
          /\ idle'[i] = idle[k]
          /\ pc'[idle[k]] = pc[idle[k]]
          /\ chan'[idle[k]] = chan[idle[k]]
    <3> TAKE i \in 1 .. Len(idle')
    <3>1. PICK k \in 1 .. Len(idle) : idle'[i] = idle[k] /\ idle[k] # w
      <4>1. \A n \in 1 .. Len(WithoutIdle(w)) : \E k \in 1 .. Len(idle) :
              WithoutIdle(w)[n] = idle[k] /\ idle[k] # w
        BY WithoutIdleFacts DEF IInv, Shape
      <4> QED BY <2>1, <4>1
    <3> WITNESS k \in 1 .. Len(idle)
    <3> QED BY <2>1, <2>2, <3>1
  <2>4. \A i, k \in 1 .. Len(idle') : idle'[i] = idle'[k] => i = k
    BY <2>1, WithoutIdleFacts DEF IInv, Shape
  <2> QED BY <2>3, <2>4, IdleFrom DEF IInv, Shape
<1> QED BY <1>1, <1>2, <1>3, <1>4, <1>5 DEF Shape

\* Leave keeps jobs and threads where Shape says they are.
LEMMA LeaveShape ==
  ASSUME IInv, NEW w \in Workers, Leave(w)
  PROVE  Shape'
<1>1. InHand'
  BY PoolAssumption DEF IInv, Shape, TypeOK, InHand, Leave
<1>2. InChannel'
  BY PoolAssumption DEF IInv, Shape, TypeOK, InChannel, Leave
<1>3. Starting'
  BY PoolAssumption DEF IInv, Shape, TypeOK, Starting, Leave
<1>4. InQueue'
  BY PoolAssumption DEF IInv, Shape, TypeOK, InQueue, Leave
<1>5. IdleAreWaiting'
  <2>1. /\ idle' = WithoutIdle(w)
        /\ \A v \in Workers \ {w} : pc'[v] = pc[v] /\ chan'[v] = chan[v]
    BY DEF IInv, TypeOK, Leave
  <2>2. \A i \in 1 .. Len(idle) : idle[i] \in Workers
    BY DEF IInv, TypeOK
  <2>3. \A i \in 1 .. Len(idle') : \E k \in 1 .. Len(idle) :
          /\ idle'[i] = idle[k]
          /\ pc'[idle[k]] = pc[idle[k]]
          /\ chan'[idle[k]] = chan[idle[k]]
    <3> TAKE i \in 1 .. Len(idle')
    <3>1. PICK k \in 1 .. Len(idle) : idle'[i] = idle[k] /\ idle[k] # w
      <4>1. \A n \in 1 .. Len(WithoutIdle(w)) : \E k \in 1 .. Len(idle) :
              WithoutIdle(w)[n] = idle[k] /\ idle[k] # w
        BY WithoutIdleFacts DEF IInv, Shape
      <4> QED BY <2>1, <4>1
    <3> WITNESS k \in 1 .. Len(idle)
    <3> QED BY <2>1, <2>2, <3>1
  <2>4. \A i, k \in 1 .. Len(idle') : idle'[i] = idle'[k] => i = k
    BY <2>1, WithoutIdleFacts DEF IInv, Shape
  <2> QED BY <2>3, <2>4, IdleFrom DEF IInv, Shape
<1> QED BY <1>1, <1>2, <1>3, <1>4, <1>5 DEF Shape

\* WhenIdle keeps jobs and threads where Shape says they are.
LEMMA WhenIdleShape ==
  ASSUME IInv, NEW w \in Workers, WhenIdle(w)
  PROVE  Shape'
<1>1. InHand'
  BY PoolAssumption DEF IInv, Shape, TypeOK, InHand, WhenIdle
<1>2. InChannel'
  BY PoolAssumption DEF IInv, Shape, TypeOK, InChannel, WhenIdle
<1>3. Starting'
  BY PoolAssumption DEF IInv, Shape, TypeOK, Starting, WhenIdle
<1>4. InQueue'
  BY PoolAssumption DEF IInv, Shape, TypeOK, InQueue, WhenIdle
<1>5. IdleAreWaiting'
  BY PoolAssumption DEF IInv, Shape, TypeOK, IdleAreWaiting, WhenIdle
<1> QED BY <1>1, <1>2, <1>3, <1>4, <1>5 DEF Shape

\* End keeps jobs and threads where Shape says they are.
LEMMA EndShape ==
  ASSUME IInv, NEW w \in Workers, End(w)
  PROVE  Shape'
<1>1. InHand'
  BY PoolAssumption DEF IInv, Shape, TypeOK, InHand, End
<1>2. InChannel'
  BY PoolAssumption DEF IInv, Shape, TypeOK, InChannel, End
<1>3. Starting'
  BY PoolAssumption DEF IInv, Shape, TypeOK, Starting, End
<1>4. InQueue'
  BY PoolAssumption DEF IInv, Shape, TypeOK, InQueue, End
<1>5. IdleAreWaiting'
  BY PoolAssumption DEF IInv, Shape, TypeOK, IdleAreWaiting, End
<1> QED BY <1>1, <1>2, <1>3, <1>4, <1>5 DEF Shape


\* How the sets behind the two counts change when one element comes or goes.
LEMMA CountFacts ==
  ASSUME IInv
  PROVE  /\ places = Cardinality(Placed) /\ threads = Cardinality(Counted)
         /\ \A j \in Jobs \ Placed : Cardinality(Placed \cup {j}) = places + 1
         /\ \A j \in Placed : Cardinality(Placed \ {j}) = places - 1 /\ places > 0
         /\ \A w \in Workers \ Counted : Cardinality(Counted \cup {w}) = threads + 1
         /\ \A w \in Counted : Cardinality(Counted \ {w}) = threads - 1 /\ threads > 0
<1>1. IsFiniteSet(Placed) /\ IsFiniteSet(Counted)
  BY PoolAssumption, FS_Subset DEF Placed, Counted
<1>2. places = Cardinality(Placed) /\ threads = Cardinality(Counted)
  BY DEF IInv, PlacesExact, ThreadsExact
<1>3. places \in Nat /\ threads \in Nat
  BY <1>1, <1>2, FS_CardinalityType
<1>4. \A j \in Placed : Cardinality(Placed \ {j}) = places - 1 /\ places > 0
  BY <1>1, <1>2, <1>3, FS_RemoveElement, FS_CardinalityType, FS_EmptySet
<1>5. \A w \in Counted : Cardinality(Counted \ {w}) = threads - 1 /\ threads > 0
  BY <1>1, <1>2, <1>3, FS_RemoveElement, FS_CardinalityType, FS_EmptySet
<1> QED BY <1>1, <1>2, <1>4, <1>5, FS_AddElement

\* TakePlace keeps the two counts exact and within their bounds.
LEMMA TakePlaceCounts ==
  ASSUME IInv, NEW j \in Jobs, TakePlace(j)
  PROVE  TypeOK' /\ PlacesExact' /\ ThreadsExact'
<1>1. Counted' = Counted /\ Placed' = Placed \cup {j} /\ j \in Jobs \ Placed
  BY DEF IInv, TypeOK, Submittable, Placed, Counted, TakePlace
<1>2. places' = places + 1 /\ places' \in 0 .. Max /\ threads' = threads
  <2>1. places \in 0 .. Max /\ places < Max /\ Max \in Nat
    BY PoolAssumption DEF IInv, TypeOK, TakePlace
  <2> QED BY <2>1 DEF TakePlace
<1>3. PlacesExact' /\ ThreadsExact'
  BY <1>1, <1>2, CountFacts DEF PlacesExact, ThreadsExact
<1>4. TypeOK'
  BY <1>2, PoolAssumption DEF IInv, TypeOK, JobStates, PcStates, TakePlace
<1> QED BY <1>3, <1>4

\* RefuseFull keeps the two counts exact and within their bounds.
LEMMA RefuseFullCounts ==
  ASSUME IInv, NEW j \in Jobs, RefuseFull(j)
  PROVE  TypeOK' /\ PlacesExact' /\ ThreadsExact'
<1>1. Placed' = Placed /\ Counted' = Counted
  BY DEF IInv, TypeOK, Submittable, Placed, Counted, RefuseFull
<1>2. TypeOK'
  BY PoolAssumption DEF IInv, TypeOK, JobStates, PcStates, RefuseFull
<1> QED BY <1>1, <1>2 DEF IInv, PlacesExact, ThreadsExact, RefuseFull

\* SendIdle keeps the two counts exact and within their bounds.
LEMMA SendIdleCounts ==
  ASSUME IInv, NEW j \in Jobs, SendIdle(j)
  PROVE  TypeOK' /\ PlacesExact' /\ ThreadsExact'
<1>1. Placed' = Placed /\ Counted' = Counted
  BY DEF IInv, TypeOK, Receiving, Placed, Counted, SendIdle
<1>2. TypeOK'
  <2>1. idle' \in Seq(Workers)
    BY Popped DEF IInv, SendIdle
  <2>2. chan' \in [Workers -> Seq(Jobs)] /\ job' \in [Jobs -> JobStates]
    <3>1. PICK w \in Workers : /\ chan' = [chan EXCEPT ![w] = <<j>>]
                               /\ job' = [job EXCEPT ![j] = "sent"]
      BY SendIdleEffect
    <3>2. <<j>> \in Seq(Jobs)
      OBVIOUS
    <3> QED BY <3>1, <3>2 DEF IInv, TypeOK, JobStates
  <2> QED BY <2>1, <2>2 DEF IInv, TypeOK, SendIdle
<1> QED BY <1>1, <1>2 DEF IInv, PlacesExact, ThreadsExact, SendIdle

\* Enqueue keeps the two counts exact and within their bounds.
LEMMA EnqueueCounts ==
  ASSUME IInv, NEW j \in Jobs, Enqueue(j)
  PROVE  TypeOK' /\ PlacesExact' /\ ThreadsExact'
<1>1. Placed' = Placed /\ Counted' = Counted
  BY DEF IInv, TypeOK, Placed, Counted, Enqueue
<1>2. TypeOK'
  BY PoolAssumption DEF IInv, TypeOK, JobStates, PcStates, Enqueue
<1> QED BY <1>1, <1>2 DEF IInv, PlacesExact, ThreadsExact, Enqueue

\* CountThread keeps the two counts exact and within their bounds.
LEMMA CountThreadCounts ==
  ASSUME IInv, NEW j \in Jobs, NEW w \in Workers, CountThread(j, w)
  PROVE  TypeOK' /\ PlacesExact' /\ ThreadsExact'
<1>1. Placed' = Placed /\ Counted' = Counted \cup {w} /\ w \in Workers \ Counted
  BY DEF IInv, TypeOK, Placed, Counted, CountThread
<1>2. threads' = threads + 1 /\ threads' \in 0 .. Max /\ places' = places
  <2>1. threads \in 0 .. Max /\ threads < Max /\ Max \in Nat
    BY PoolAssumption DEF IInv, TypeOK, CountThread
  <2> QED BY <2>1 DEF CountThread
<1>3. PlacesExact' /\ ThreadsExact'
  BY <1>1, <1>2, CountFacts DEF PlacesExact, ThreadsExact
<1>4. TypeOK'
  BY <1>2, PoolAssumption DEF IInv, TypeOK, JobStates, PcStates, CountThread
<1> QED BY <1>3, <1>4

\* SpawnThread keeps the two counts exact and within their bounds.
LEMMA SpawnThreadCounts ==
  ASSUME IInv, NEW j \in Jobs, NEW w \in Workers, SpawnThread(j, w)
  PROVE  TypeOK' /\ PlacesExact' /\ ThreadsExact'
<1>1. Placed' = Placed /\ Counted' = Counted
  BY DEF IInv, TypeOK, Shape, Starting, Placed, Counted, SpawnThread
<1>2. TypeOK'
  BY PoolAssumption DEF IInv, TypeOK, JobStates, PcStates, SpawnThread
<1> QED BY <1>1, <1>2 DEF IInv, PlacesExact, ThreadsExact, SpawnThread

\* SendFirst keeps the two counts exact and within their bounds.
LEMMA SendFirstCounts ==
  ASSUME IInv, NEW j \in Jobs, NEW w \in Workers, SendFirst(j, w)
  PROVE  TypeOK' /\ PlacesExact' /\ ThreadsExact'
<1>1. Placed' = Placed /\ Counted' = Counted
  BY DEF IInv, TypeOK, Placed, Counted, SendFirst
<1>2. TypeOK'
  BY PoolAssumption DEF IInv, TypeOK, JobStates, PcStates, SendFirst
<1> QED BY <1>1, <1>2 DEF IInv, PlacesExact, ThreadsExact, SendFirst

\* SpawnFails keeps the two counts exact and within their bounds.
LEMMA SpawnFailsCounts ==
  ASSUME IInv, NEW j \in Jobs, NEW w \in Workers, SpawnFails(j, w)
  PROVE  TypeOK' /\ PlacesExact' /\ ThreadsExact'
<1>1. Placed' = Placed /\ Counted' = Counted \ {w} /\ w \in Counted
  BY DEF IInv, TypeOK, Shape, Starting, Placed, Counted, SpawnFails
<1>2. threads' = threads - 1 /\ threads' \in 0 .. Max /\ places' = places
  <2>1. threads \in 0 .. Max /\ threads > 0 /\ Max \in Nat
    BY <1>1, CountFacts, PoolAssumption DEF IInv, TypeOK, SpawnFails
  <2> QED BY <2>1 DEF SpawnFails
<1>3. PlacesExact' /\ ThreadsExact'
  BY <1>1, <1>2, CountFacts DEF PlacesExact, ThreadsExact
<1>4. TypeOK'
  BY <1>2, PoolAssumption DEF IInv, TypeOK, JobStates, PcStates, SpawnFails
<1> QED BY <1>3, <1>4

\* RefuseUnstarted keeps the two counts exact and within their bounds.
LEMMA RefuseUnstartedCounts ==
  ASSUME IInv, NEW j \in Jobs, RefuseUnstarted(j)
  PROVE  TypeOK' /\ PlacesExact' /\ ThreadsExact'
<1>1. Counted' = Counted /\ Placed' = Placed \ {j} /\ j \in Placed
  BY DEF IInv, TypeOK, Placed, Counted, RefuseUnstarted
<1>2. places' = places - 1 /\ places' \in 0 .. Max /\ threads' = threads
  <2>1. places \in 0 .. Max /\ places > 0 /\ Max \in Nat
    BY <1>1, CountFacts, PoolAssumption DEF IInv, TypeOK, RefuseUnstarted
  <2> QED BY <2>1 DEF RefuseUnstarted
<1>3. PlacesExact' /\ ThreadsExact'
  BY <1>1, <1>2, CountFacts DEF PlacesExact, ThreadsExact
<1>4. TypeOK'
  BY <1>2, PoolAssumption DEF IInv, TypeOK, JobStates, PcStates, RefuseUnstarted
<1> QED BY <1>3, <1>4

\* Receive keeps the two counts exact and within their bounds.
LEMMA ReceiveCounts ==
  ASSUME IInv, NEW w \in Workers, Receive(w)
  PROVE  TypeOK' /\ PlacesExact' /\ ThreadsExact'
<1>1. Placed' = Placed /\ Counted' = Counted
  BY OneTask DEF IInv, TypeOK, Shape, InChannel, Placed, Counted, Receive
<1>2. TypeOK'
  BY PoolAssumption DEF IInv, TypeOK, JobStates, PcStates, Receive
<1> QED BY <1>1, <1>2 DEF IInv, PlacesExact, ThreadsExact, Receive

\* GiveBack keeps the two counts exact and within their bounds.
LEMMA GiveBackCounts ==
  ASSUME IInv, NEW w \in Workers, GiveBack(w)
  PROVE  TypeOK' /\ PlacesExact' /\ ThreadsExact'
<1>1. Counted' = Counted /\ Placed' = Placed \ {task[w]} /\ task[w] \in Placed
  BY DEF IInv, TypeOK, Shape, InHand, Placed, Counted, GiveBack
<1>2. places' = places - 1 /\ places' \in 0 .. Max /\ threads' = threads
  <2>1. places \in 0 .. Max /\ places > 0 /\ Max \in Nat
    BY <1>1, CountFacts, PoolAssumption DEF IInv, TypeOK, GiveBack
  <2> QED BY <2>1 DEF GiveBack
<1>3. PlacesExact' /\ ThreadsExact'
  BY <1>1, <1>2, CountFacts DEF PlacesExact, ThreadsExact
<1>4. TypeOK'
  BY <1>2, PoolAssumption DEF IInv, TypeOK, JobStates, PcStates, Shape, InHand, GiveBack
<1> QED BY <1>3, <1>4

\* Return keeps the two counts exact and within their bounds.
LEMMA ReturnCounts ==
  ASSUME IInv, NEW w \in Workers, Return(w)
  PROVE  TypeOK' /\ PlacesExact' /\ ThreadsExact'
<1>1. Placed' = Placed /\ Counted' = Counted
  BY DEF IInv, TypeOK, Shape, InHand, Placed, Counted, Return
<1>2. TypeOK'
  BY PoolAssumption DEF IInv, TypeOK, JobStates, PcStates, Shape, InHand, Return
<1> QED BY <1>1, <1>2 DEF IInv, PlacesExact, ThreadsExact, Return

\* TakeQueued keeps the two counts exact and within their bounds.
LEMMA TakeQueuedCounts ==
  ASSUME IInv, NEW w \in Workers, TakeQueued(w)
  PROVE  TypeOK' /\ PlacesExact' /\ ThreadsExact'
<1>1. Placed' = Placed /\ Counted' = Counted
  BY DEF IInv, TypeOK, Shape, InQueue, Placed, Counted, TakeQueued
<1>2. TypeOK'
  BY PoolAssumption DEF IInv, TypeOK, JobStates, PcStates, TakeQueued
<1> QED BY <1>1, <1>2 DEF IInv, PlacesExact, ThreadsExact, TakeQueued

\* GoIdle keeps the two counts exact and within their bounds.
LEMMA GoIdleCounts ==
  ASSUME IInv, NEW w \in Workers, GoIdle(w)
  PROVE  TypeOK' /\ PlacesExact' /\ ThreadsExact'
<1>1. Placed' = Placed /\ Counted' = Counted
  BY DEF IInv, TypeOK, Placed, Counted, GoIdle
<1>2. TypeOK'
  BY PoolAssumption DEF IInv, TypeOK, JobStates, PcStates, GoIdle
<1> QED BY <1>1, <1>2 DEF IInv, PlacesExact, ThreadsExact, GoIdle

\* TimeOut keeps the two counts exact and within their bounds.
LEMMA TimeOutCounts ==
  ASSUME IInv, NEW w \in Workers, TimeOut(w)
  PROVE  TypeOK' /\ PlacesExact' /\ ThreadsExact'
<1>1. Placed' = Placed /\ Counted' = Counted
  BY DEF IInv, TypeOK, Placed, Counted, TimeOut
<1>2. TypeOK'
  BY PoolAssumption DEF IInv, TypeOK, JobStates, PcStates, TimeOut
<1> QED BY <1>1, <1>2 DEF IInv, PlacesExact, ThreadsExact, TimeOut

\* TakeLate keeps the two counts exact and within their bounds.
LEMMA TakeLateCounts ==
  ASSUME IInv, NEW w \in Workers, TakeLate(w)
  PROVE  TypeOK' /\ PlacesExact' /\ ThreadsExact'
<1>1. Placed' = Placed /\ Counted' = Counted
  BY OneTask DEF IInv, TypeOK, Shape, InChannel, Placed, Counted, TakeLate
<1>2. TypeOK'
  BY WithoutIdleFacts, PoolAssumption DEF IInv, TypeOK, JobStates, PcStates, Shape, TakeLate
<1> QED BY <1>1, <1>2 DEF IInv, PlacesExact, ThreadsExact, TakeLate

\* Leave keeps the two counts exact and within their bounds.
LEMMA LeaveCounts ==
  ASSUME IInv, NEW w \in Workers, Leave(w)
  PROVE  TypeOK' /\ PlacesExact' /\ ThreadsExact'
<1>1. Placed' = Placed /\ Counted' = Counted \ {w} /\ w \in Counted
  BY DEF IInv, TypeOK, Placed, Counted, Leave
<1>2. threads' = threads - 1 /\ threads' \in 0 .. Max /\ places' = places
  <2>1. threads \in 0 .. Max /\ threads > 0 /\ Max \in Nat
    BY <1>1, CountFacts, PoolAssumption DEF IInv, TypeOK, Leave
  <2> QED BY <2>1 DEF Leave
<1>3. PlacesExact' /\ ThreadsExact'
  BY <1>1, <1>2, CountFacts DEF PlacesExact, ThreadsExact
<1>4. TypeOK'
  BY <1>2, WithoutIdleFacts, PoolAssumption DEF IInv, TypeOK, JobStates, PcStates, Shape, Leave
<1> QED BY <1>3, <1>4

\* WhenIdle keeps the two counts exact and within their bounds.
LEMMA WhenIdleCounts ==
  ASSUME IInv, NEW w \in Workers, WhenIdle(w)
  PROVE  TypeOK' /\ PlacesExact' /\ ThreadsExact'
<1>1. Placed' = Placed /\ Counted' = Counted
  BY DEF IInv, TypeOK, Placed, Counted, WhenIdle
<1>2. TypeOK'
  BY PoolAssumption DEF IInv, TypeOK, JobStates, PcStates, WhenIdle
<1> QED BY <1>1, <1>2 DEF IInv, PlacesExact, ThreadsExact, WhenIdle

\* End keeps the two counts exact and within their bounds.
LEMMA EndCounts ==
  ASSUME IInv, NEW w \in Workers, End(w)
  PROVE  TypeOK' /\ PlacesExact' /\ ThreadsExact'
<1>1. Placed' = Placed /\ Counted' = Counted
  BY DEF IInv, TypeOK, Placed, Counted, End
<1>2. TypeOK'
  BY PoolAssumption DEF IInv, TypeOK, JobStates, PcStates, End
<1> QED BY <1>1, <1>2 DEF IInv, PlacesExact, ThreadsExact, End

\* Pool::new starts with nothing counted, queued or idle.
LEMMA InitIInv == Init => IInv
<1> SUFFICES ASSUME Init PROVE IInv
  OBVIOUS
<1>1. TypeOK
  <2>1. places \in 0 .. Max /\ threads \in 0 .. Max
    BY PoolAssumption DEF Init
  <2>2. idle \in Seq(Workers) /\ queued \in Seq(Jobs) /\ chan \in [Workers -> Seq(Jobs)]
    BY DEF Init
  <2>3. /\ job \in [Jobs -> JobStates] /\ starting \in [Jobs -> Workers \cup {NoWorker}]
        /\ pc \in [Workers -> PcStates] /\ task \in [Workers -> Jobs \cup {NoJob}]
        /\ kept \in BOOLEAN
    BY DEF Init, JobStates, PcStates
  <2> QED BY <2>1, <2>2, <2>3 DEF TypeOK
<1>2. Shape
  BY PoolAssumption DEF Init, Shape, InHand, InChannel, Starting, InQueue, IdleAreWaiting
<1>3. Placed = {} /\ Counted = {}
  BY DEF Init, Placed, Counted
<1>4. PlacesExact /\ ThreadsExact
  BY <1>3, FS_EmptySet DEF Init, PlacesExact, ThreadsExact
<1> QED BY <1>1, <1>2, <1>4 DEF IInv

\* Every step of a submitter or a thread keeps the inductive invariant.
LEMMA NextIInv == IInv /\ [Next]_vars => IInv'
<1> SUFFICES ASSUME IInv, [Next]_vars PROVE IInv'
  OBVIOUS
<1>1. ASSUME NEW j \in Jobs, TakePlace(j) PROVE IInv'
  BY <1>1, TakePlaceShape, TakePlaceCounts DEF IInv
<1>2. ASSUME NEW j \in Jobs, RefuseFull(j) PROVE IInv'
  BY <1>2, RefuseFullShape, RefuseFullCounts DEF IInv
<1>3. ASSUME NEW j \in Jobs, SendIdle(j) PROVE IInv'
  BY <1>3, SendIdleShape, SendIdleCounts DEF IInv
<1>4. ASSUME NEW j \in Jobs, Enqueue(j) PROVE IInv'
  BY <1>4, EnqueueShape, EnqueueCounts DEF IInv
<1>5. ASSUME NEW j \in Jobs, NEW w \in Workers, CountThread(j, w) PROVE IInv'
  BY <1>5, CountThreadShape, CountThreadCounts DEF IInv
<1>6. ASSUME NEW j \in Jobs, NEW w \in Workers, SpawnThread(j, w) PROVE IInv'
  BY <1>6, SpawnThreadShape, SpawnThreadCounts DEF IInv
<1>7. ASSUME NEW j \in Jobs, NEW w \in Workers, SendFirst(j, w) PROVE IInv'
  BY <1>7, SendFirstShape, SendFirstCounts DEF IInv
<1>8. ASSUME NEW j \in Jobs, NEW w \in Workers, SpawnFails(j, w) PROVE IInv'
  BY <1>8, SpawnFailsShape, SpawnFailsCounts DEF IInv
<1>9. ASSUME NEW j \in Jobs, RefuseUnstarted(j) PROVE IInv'
  BY <1>9, RefuseUnstartedShape, RefuseUnstartedCounts DEF IInv
<1>10. ASSUME NEW w \in Workers, Receive(w) PROVE IInv'
  BY <1>10, ReceiveShape, ReceiveCounts DEF IInv
<1>11. ASSUME NEW w \in Workers, GiveBack(w) PROVE IInv'
  BY <1>11, GiveBackShape, GiveBackCounts DEF IInv
<1>12. ASSUME NEW w \in Workers, Return(w) PROVE IInv'
  BY <1>12, ReturnShape, ReturnCounts DEF IInv
<1>13. ASSUME NEW w \in Workers, TakeQueued(w) PROVE IInv'
  BY <1>13, TakeQueuedShape, TakeQueuedCounts DEF IInv
<1>14. ASSUME NEW w \in Workers, GoIdle(w) PROVE IInv'
  BY <1>14, GoIdleShape, GoIdleCounts DEF IInv
<1>15. ASSUME NEW w \in Workers, TimeOut(w) PROVE IInv'
  BY <1>15, TimeOutShape, TimeOutCounts DEF IInv
<1>16. ASSUME NEW w \in Workers, TakeLate(w) PROVE IInv'
  BY <1>16, TakeLateShape, TakeLateCounts DEF IInv
<1>17. ASSUME NEW w \in Workers, Leave(w) PROVE IInv'
  BY <1>17, LeaveShape, LeaveCounts DEF IInv
<1>18. ASSUME NEW w \in Workers, WhenIdle(w) PROVE IInv'
  BY <1>18, WhenIdleShape, WhenIdleCounts DEF IInv
<1>19. ASSUME NEW w \in Workers, End(w) PROVE IInv'
  BY <1>19, EndShape, EndCounts DEF IInv
<1>20. CASE UNCHANGED vars
  BY <1>20 DEF vars, IInv, TypeOK, Shape, InHand, InChannel, Starting, InQueue,
     IdleAreWaiting, PlacesExact, ThreadsExact, Placed, Counted
<1> QED
  BY <1>1, <1>2, <1>3, <1>4, <1>5, <1>6, <1>7, <1>8, <1>9, <1>10,
     <1>11, <1>12, <1>13, <1>14, <1>15, <1>16, <1>17, <1>18, <1>19, <1>20 DEF Next, Submit, Work

\* The inductive invariant holds in every state the pool reaches.
THEOREM Invariance == Spec => []IInv
BY InitIInv, NextIInv, PTL DEF Spec

\* The counts and positions of Pool have their types: neither count leaves
\* 0 .. Max, whatever the number of jobs, threads and places.
THEOREM TypeCorrect == Spec => []TypeOK
BY Invariance, PTL DEF IInv

\* Every place taken by `place` is given back exactly once.
THEOREM PlacesAreExact == Spec => []PlacesExact
BY Invariance, PTL DEF IInv

\* A thread is counted from before its spawn until it leaves.
THEOREM ThreadsAreExact == Spec => []ThreadsExact
BY Invariance, PTL DEF IInv

\* The send to an idle thread under the lock never fails.
THEOREM IdleThreadsWait == Spec => []IdleAreWaiting
BY Invariance, PTL DEF IInv, Shape

\* PoolIsExact, for every pool: the counts Pool keeps are the threads and the
\* jobs there are, and the threads it lists as idle wait.
THEOREM PoolExact == Spec => []PoolIsExact
BY Invariance, PTL DEF IInv, Shape, PoolIsExact

-----------------------------------------------------------------------------
(* What the pool took is held.                                             *)

\* A job the pool took is where its state says: the converse of InHand,
\* InChannel and InQueue.
JobsHeld ==
  \A j \in Jobs :
    /\ job[j] \in {"running", "answering"} => \E w \in Workers : task[w] = j
    /\ job[j] = "sent" => \E w \in Workers : chan[w] # <<>> /\ chan[w][1] = j
    /\ job[j] = "queued" => \E i \in 1 .. Len(queued) : queued[i] = j

\* A counted thread without a job in hand is idle or has one coming.
ThreadsHold ==
  \A w \in Workers :
    /\ pc[w] \in {"wait", "timedout"} =>
         chan[w] # <<>> \/ \E i \in 1 .. Len(idle) : idle[i] = w
    /\ pc[w] = "first" =>
         chan[w] # <<>> \/ \E j \in Jobs : job[j] = "starting" /\ starting[j] = w
    /\ pc[w] = "booting" => \E j \in Jobs : job[j] = "spawning" /\ starting[j] = w

KInv == IInv /\ JobsHeld /\ ThreadsHold /\ QueuedAreServed

\* Finishing threads are finitely many.
LEMMA FinishingIsFinite ==
  /\ IsFiniteSet(Finishing) /\ Cardinality(Finishing) \in Nat
  /\ IsFiniteSet(Finishing') /\ Cardinality(Finishing') \in Nat
<1>1. Finishing \subseteq Workers /\ Finishing' \subseteq Workers
  BY DEF Finishing
<1> QED BY <1>1, PoolAssumption, FS_Subset, FS_CardinalityType

\* A step that leaves the queue alone, takes no thread from the finishing ones
\* and lists none as idle leaves every queued job its thread.
LEMMA ServedFrom ==
  ASSUME QueuedAreServed, Finishing \subseteq Finishing', UNCHANGED queued,
         queued \in Seq(Jobs), idle = <<>> => idle' = <<>>
  PROVE  QueuedAreServed'
<1>1. Cardinality(Finishing) <= Cardinality(Finishing')
  BY FinishingIsFinite, FS_Subset
<1>2. Len(queued) \in Nat
  OBVIOUS
<1> QED BY <1>1, <1>2, FinishingIsFinite DEF QueuedAreServed

\* With nothing queued nobody need be finishing.
LEMMA ServedWhenEmpty == ASSUME queued' = <<>> PROVE QueuedAreServed'
BY FinishingIsFinite DEF QueuedAreServed

\* retain() drops no entry but the thread's own.
LEMMA WithoutIdleKeeps ==
  ASSUME TypeOK, IdleAreWaiting, NEW w \in Workers,
         NEW k \in 1 .. Len(idle), idle[k] # w
  PROVE  \E i \in 1 .. Len(WithoutIdle(w)) : WithoutIdle(w)[i] = idle[k]
<1>1. CASE ~ \E i \in 1 .. Len(idle) : idle[i] = w
  BY <1>1 DEF WithoutIdle
<1>2. CASE \E i \in 1 .. Len(idle) : idle[i] = w
  <2> DEFINE at == CHOOSE i \in 1 .. Len(idle) : idle[i] = w
             cut == [i \in 1 .. Len(idle) - 1 |->
                       IF i < at THEN idle[i] ELSE idle[i + 1]]
  <2>1. at \in 1 .. Len(idle) /\ idle[at] = w
    BY <1>2
  <2>2. WithoutIdle(w) = cut
    BY <1>2 DEF WithoutIdle
  <2> HIDE DEF at
  <2>3. Len(idle) \in Nat /\ Len(idle) > 0
    BY <2>1 DEF TypeOK
  <2>4. Len(cut) = Len(idle) - 1
    BY <2>1, <2>3 DEF TypeOK
  <2>5. \A i \in 1 .. Len(cut) : cut[i] = IF i < at THEN idle[i] ELSE idle[i + 1]
    BY <2>4
  <2> HIDE DEF cut
  <2>6. CASE k < at
    <3>1. k \in 1 .. Len(cut)
      BY <2>1, <2>3, <2>4, <2>6
    <3> QED BY <2>2, <2>5, <2>6, <3>1
  <2>7. CASE ~(k < at)
    <3>1. k # at
      BY <2>1
    <3>2. k - 1 \in 1 .. Len(cut) /\ ~(k - 1 < at) /\ (k - 1) + 1 = k
      BY <2>1, <2>3, <2>4, <2>7, <3>1
    <3>3. cut[k - 1] = idle[k]
      BY <2>5, <3>2
    <3> QED BY <2>2, <3>2, <3>3
  <2> QED BY <2>6, <2>7
<1> QED BY <1>1, <1>2

\* Nothing is taken from an empty idle list.
LEMMA WithoutIdleOfNone == ASSUME NEW w, idle = <<>> PROVE WithoutIdle(w) = <<>>
BY DEF WithoutIdle

\* The queue's jobs are as many as it is long.
LEMMA QueueCount ==
  ASSUME IInv
  PROVE  LET Q == {queued[i] : i \in 1 .. Len(queued)}
         IN Q \subseteq Placed /\ IsFiniteSet(Q) /\ Cardinality(Q) = Len(queued)
<1> DEFINE Q == {queued[i] : i \in 1 .. Len(queued)}
           f == [i \in 1 .. Len(queued) |-> queued[i]]
<1>1. Len(queued) \in Nat /\ \A i \in 1 .. Len(queued) : queued[i] \in Jobs
  BY DEF IInv, TypeOK
<1>2. Q \subseteq Placed
  BY <1>1 DEF IInv, Shape, InQueue, Placed
<1>3. f \in Bijection(1 .. Len(queued), Q)
  <2>1. f \in Injection(1 .. Len(queued), Q)
    BY DEF Injection, IsInjective, IInv, Shape, InQueue
  <2>2. f \in Surjection(1 .. Len(queued), Q)
    BY DEF Surjection
  <2> QED BY <2>1, <2>2 DEF Bijection
<1>4. ExistsBijection(1 .. Len(queued), Q)
  BY <1>3 DEF ExistsBijection
<1>5. IsFiniteSet(Q) /\ Cardinality(Q) = Len(queued)
  <2>1. Cardinality(Q) = Len(queued)
    BY <1>1, <1>4, FS_CountingElements
  <2>2. IsFiniteSet(Q)
    BY <1>1, PoolAssumption, FS_Subset
  <2> QED BY <2>1, <2>2
<1> QED BY <1>2, <1>5

\* The job a counted thread that is not finishing has, or is to have.
JobOf(w) ==
  IF pc[w] = "run" THEN task[w]
  ELSE IF chan[w] # <<>> THEN chan[w][1]
  ELSE CHOOSE j \in Jobs : starting[j] = w

\* With no idle thread, threads that are not finishing have each a job of their
\* own, none of them queued.
LEMMA BusyThreads ==
  ASSUME KInv, idle = <<>>, NEW w \in Counted \ Finishing
  PROVE  /\ JobOf(w) \in Jobs
         /\ job[JobOf(w)] \in {"spawning", "starting", "sent", "running"}
         /\ \/ pc[w] = "run" /\ task[w] = JobOf(w)
            \/ chan[w] # <<>> /\ chan[w][1] = JobOf(w)
            \/ starting[JobOf(w)] = w
<1>1. w \in Workers /\ pc[w] \in {"booting", "first", "run", "wait", "timedout"}
  BY DEF KInv, IInv, TypeOK, PcStates, Counted, Finishing
<1>2. CASE pc[w] = "run"
  BY <1>1, <1>2 DEF KInv, IInv, Shape, InHand, Finishing, JobOf
<1>3. CASE pc[w] # "run" /\ chan[w] # <<>>
  <2>1. Len(chan[w]) = 1 /\ chan[w] \in Seq(Jobs) /\ job[chan[w][1]] = "sent"
    BY <1>1, <1>3 DEF KInv, IInv, Shape, TypeOK, InChannel
  <2>2. chan[w][1] \in Jobs
    BY <2>1, OneTask
  <2> QED BY <1>3, <2>1, <2>2 DEF JobOf
<1>4. CASE pc[w] # "run" /\ chan[w] = <<>>
  <2>1. \E j \in Jobs : job[j] \in {"spawning", "starting"} /\ starting[j] = w
    <3>1. pc[w] \notin {"wait", "timedout"}
      BY <1>1, <1>4 DEF KInv, ThreadsHold
    <3> QED BY <1>1, <1>4, <3>1 DEF KInv, ThreadsHold
  <2>2. JobOf(w) = CHOOSE j \in Jobs : starting[j] = w
    BY <1>4 DEF JobOf
  <2>3. JobOf(w) \in Jobs /\ starting[JobOf(w)] = w
    BY <2>1, <2>2
  <2>4. job[JobOf(w)] \in {"spawning", "starting"}
    BY <1>1, <2>3, PoolAssumption DEF KInv, IInv, Shape, Starting
  <2> QED BY <2>3, <2>4
<1> QED BY <1>2, <1>3, <1>4

\* No two of them have the same one.
LEMMA BusyApart ==
  ASSUME KInv, idle = <<>>, NEW w \in Counted \ Finishing, NEW v \in Counted \ Finishing,
         JobOf(w) = JobOf(v)
  PROVE  w = v
<1> DEFINE j == JobOf(w)
<1>1. w \in Workers /\ v \in Workers
  BY DEF Counted
<1>2. /\ j \in Jobs
      /\ \/ pc[w] = "run" /\ task[w] = j
         \/ chan[w] # <<>> /\ chan[w][1] = j
         \/ starting[j] = w
  BY BusyThreads
<1>3. \/ pc[v] = "run" /\ task[v] = j
      \/ chan[v] # <<>> /\ chan[v][1] = j
      \/ starting[j] = v
  BY BusyThreads
<1> HIDE DEF j
<1>4. \A u \in Workers : pc[u] = "run" /\ task[u] = j => job[j] \in {"running", "answering"}
  BY <1>2 DEF KInv, IInv, Shape, InHand
<1>5. \A u \in Workers : chan[u] # <<>> /\ chan[u][1] = j => job[j] = "sent"
  BY DEF KInv, IInv, Shape, InChannel
<1>6. \A u \in Workers : starting[j] = u => job[j] \in {"spawning", "starting"}
  BY <1>2, PoolAssumption DEF KInv, IInv, Shape, Starting
<1>7. CASE job[j] \in {"running", "answering"}
  BY <1>1, <1>2, <1>3, <1>5, <1>6, <1>7, PoolAssumption DEF KInv, IInv, Shape, InHand
<1>8. CASE job[j] = "sent"
  BY <1>1, <1>2, <1>3, <1>4, <1>6, <1>8 DEF KInv, IInv, Shape, InChannel
<1>9. CASE job[j] \in {"spawning", "starting"}
  BY <1>1, <1>2, <1>3, <1>4, <1>5, <1>9
<1> QED BY <1>1, <1>2, <1>4, <1>5, <1>6, <1>7, <1>8, <1>9

\* What lets `place` queue a job: with every thread counted and none idle, the
\* places leave one more finishing thread than jobs are queued.
LEMMA EnqueueIsServed ==
  ASSUME KInv, NEW j \in Jobs, Enqueue(j)
  PROVE  Len(queued) + 1 <= Cardinality(Finishing)
<1> DEFINE Q == {queued[i] : i \in 1 .. Len(queued)}
           A == Counted \ Finishing
           B == (Placed \ Q) \ {j}
           f == [w \in A |-> JobOf(w)]
<1>0. IsFiniteSet(Placed) /\ IsFiniteSet(Counted)
  BY PoolAssumption, FS_Subset DEF Placed, Counted
<1>1. /\ IsFiniteSet(Placed) /\ IsFiniteSet(Counted)
      /\ Cardinality(Placed) = places /\ Cardinality(Counted) = threads
      /\ places \in 0 .. Max /\ threads = Max /\ idle = <<>>
  BY <1>0, PoolAssumption DEF KInv, IInv, TypeOK, PlacesExact, ThreadsExact, Enqueue
<1>2. Q \subseteq Placed /\ IsFiniteSet(Q) /\ Cardinality(Q) = Len(queued)
  BY QueueCount DEF KInv
<1>3. \A k \in Q : k \in Jobs /\ job[k] = "queued"
  BY DEF KInv, IInv, TypeOK, Shape, InQueue
<1>4. j \in Placed \ Q
  BY <1>3 DEF Placed, Enqueue
<1>5. Finishing \subseteq Counted
  BY DEF Finishing, Counted
<1> HIDE DEF Q
<1>6. IsFiniteSet(B) /\ Cardinality(B) = places - Len(queued) - 1
  <2>1. IsFiniteSet(Placed \ Q) /\ Cardinality(Placed \ Q) = places - Len(queued)
    <3>1. IsFiniteSet(Placed \ Q) /\ Cardinality(Placed \ Q) = Cardinality(Placed) - Cardinality(Placed \cap Q)
      BY <1>1, FS_Difference
    <3>2. Placed \cap Q = Q
      BY <1>2
    <3> QED BY <1>1, <1>2, <3>1, <3>2
  <2> QED BY <1>4, <2>1, FS_RemoveElement
<1>7. IsFiniteSet(A) /\ Cardinality(A) = Max - Cardinality(Finishing)
  <2>1. IsFiniteSet(A) /\ Cardinality(A) = Cardinality(Counted) - Cardinality(Counted \cap Finishing)
    BY <1>1, FS_Difference
  <2>2. Counted \cap Finishing = Finishing
    BY <1>5
  <2> QED BY <1>1, <2>1, <2>2
<1>8. f \in Injection(A, B)
  <2>1. \A w \in A : JobOf(w) \in B
    <3> SUFFICES ASSUME NEW w \in A PROVE JobOf(w) \in B
      OBVIOUS
    <3>1. JobOf(w) \in Jobs /\ job[JobOf(w)] \in {"spawning", "starting", "sent", "running"}
      BY <1>1, BusyThreads
    <3> QED BY <1>3, <3>1 DEF Placed, Enqueue
  <2>2. \A w, v \in A : JobOf(w) = JobOf(v) => w = v
    BY <1>1, BusyApart
  <2> QED BY <2>1, <2>2 DEF Injection, IsInjective
<1>9. Cardinality(A) <= Cardinality(B)
  <2> HIDE DEF A, B, f
  <2> QED BY <1>6, <1>8, FS_Injection
<1>10. Len(queued) \in Nat
  BY DEF KInv, IInv, TypeOK
<1> QED BY <1>1, <1>6, <1>7, <1>9, <1>10, FinishingIsFinite, PoolAssumption

\* TakePlace keeps what the pool took held.
LEMMA TakePlaceKeeps ==
  ASSUME KInv, NEW j \in Jobs, TakePlace(j)
  PROVE  JobsHeld' /\ ThreadsHold' /\ QueuedAreServed'
<1>1. JobsHeld'
  BY PoolAssumption DEF KInv, IInv, Shape, TypeOK, JobsHeld, InHand, TakePlace, Submittable
<1>2. ThreadsHold'
  BY PoolAssumption DEF KInv, IInv, Shape, TypeOK, ThreadsHold, Starting, TakePlace, Submittable
<1>3. QueuedAreServed'
  <2>1. Finishing \subseteq Finishing'
    BY PoolAssumption DEF KInv, IInv, Shape, TypeOK, Finishing, InHand, TakePlace, Submittable
  <2> QED BY <2>1, ServedFrom DEF KInv, IInv, TypeOK, TakePlace
<1> QED BY <1>1, <1>2, <1>3

\* RefuseFull keeps what the pool took held.
LEMMA RefuseFullKeeps ==
  ASSUME KInv, NEW j \in Jobs, RefuseFull(j)
  PROVE  JobsHeld' /\ ThreadsHold' /\ QueuedAreServed'
<1>1. JobsHeld'
  BY PoolAssumption DEF KInv, IInv, Shape, TypeOK, JobsHeld, InHand, RefuseFull, Submittable
<1>2. ThreadsHold'
  BY PoolAssumption DEF KInv, IInv, Shape, TypeOK, ThreadsHold, Starting, RefuseFull, Submittable
<1>3. QueuedAreServed'
  <2>1. Finishing \subseteq Finishing'
    BY PoolAssumption DEF KInv, IInv, Shape, TypeOK, Finishing, InHand, RefuseFull, Submittable
  <2> QED BY <2>1, ServedFrom DEF KInv, IInv, TypeOK, RefuseFull
<1> QED BY <1>1, <1>2, <1>3

\* SendIdle keeps what the pool took held.
LEMMA SendIdleKeeps ==
  ASSUME KInv, NEW j \in Jobs, SendIdle(j)
  PROVE  JobsHeld' /\ ThreadsHold' /\ QueuedAreServed'
<1> DEFINE w == idle[Len(idle)]
<1>0. /\ w \in Workers
      /\ pc[w] \in {"wait", "timedout"}
      /\ chan[w] = <<>>
      /\ idle # <<>> /\ Len(idle) \in 1 .. Len(idle)
      /\ idle' = [i \in 1 .. Len(idle) - 1 |-> idle[i]]
      /\ chan' = [chan EXCEPT ![w] = <<j>>]
      /\ job' = [job EXCEPT ![j] = "sent"]
      /\ job[j] = "placing"
      /\ UNCHANGED <<queued, starting, pc, task>>
  BY SendIdleEffect DEF KInv
<1>a. Len(idle) \in Nat /\ w = idle[Len(idle)]
  BY DEF KInv, IInv, TypeOK
<1> HIDE DEF w
<1>b. chan' \in [Workers -> Seq(Jobs)] /\ chan'[w] = <<j>> /\ \A v \in Workers \ {w} : chan'[v] = chan[v]
  BY <1>0 DEF KInv, IInv, TypeOK
<1>c. \A k \in Jobs : job'[k] = IF k = j THEN "sent" ELSE job[k]
  BY <1>0 DEF KInv, IInv, TypeOK
<1>1. JobsHeld'
  <2> SUFFICES ASSUME NEW k \in Jobs
               PROVE  /\ job'[k] \in {"running", "answering"} => \E v \in Workers : task'[v] = k
                      /\ job'[k] = "sent" => \E v \in Workers : chan'[v] # <<>> /\ chan'[v][1] = k
                      /\ job'[k] = "queued" => \E i \in 1 .. Len(queued') : queued'[i] = k
    BY DEF JobsHeld
  <2>1. CASE k = j
    BY <1>0, <1>b, <1>c, <2>1
  <2>2. CASE k # j
    BY <1>0, <1>b, <1>c, <2>2 DEF KInv, JobsHeld
  <2> QED BY <2>1, <2>2
<1>2. ThreadsHold'
  <2>1. ASSUME NEW v \in Workers, NEW i \in 1 .. Len(idle), idle[i] = v, v # w
        PROVE  \E k \in 1 .. Len(idle') : idle'[k] = v
    <3>1. i # Len(idle) /\ i \in 1 .. Len(idle')
      BY <1>0, <1>a, <2>1
    <3> QED BY <1>0, <2>1, <3>1
  <2> SUFFICES ASSUME NEW v \in Workers
               PROVE  /\ pc'[v] \in {"wait", "timedout"} =>
                           chan'[v] # <<>> \/ \E i \in 1 .. Len(idle') : idle'[i] = v
                      /\ pc'[v] = "first" =>
                           chan'[v] # <<>> \/ \E k \in Jobs : job'[k] = "starting" /\ starting'[k] = v
                      /\ pc'[v] = "booting" => \E k \in Jobs : job'[k] = "spawning" /\ starting'[k] = v
    BY DEF ThreadsHold
  <2>2. CASE v = w
    BY <1>0, <1>b, <2>2
  <2>3. CASE v # w
    <3>1. chan'[v] = chan[v] /\ pc'[v] = pc[v]
      BY <1>0, <1>b, <2>3
    <3>2. ASSUME NEW k \in Jobs, job[k] \in {"starting", "spawning"} PROVE job'[k] = job[k] /\ starting'[k] = starting[k]
      BY <1>0, <1>c, <3>2
    <3> QED BY <2>1, <2>3, <3>1, <3>2 DEF KInv, ThreadsHold
  <2> QED BY <2>2, <2>3
<1>3. QueuedAreServed'
  <2>1. queued' = <<>>
    BY <1>0 DEF KInv, QueuedAreServed
  <2> QED BY <2>1, ServedWhenEmpty
<1> QED BY <1>1, <1>2, <1>3

\* Enqueue keeps what the pool took held.
LEMMA EnqueueKeeps ==
  ASSUME KInv, NEW j \in Jobs, Enqueue(j)
  PROVE  JobsHeld' /\ ThreadsHold' /\ QueuedAreServed'
<1>0. /\ Len(queued) \in Nat /\ queued' \in Seq(Jobs) /\ Len(queued') = Len(queued) + 1
      /\ queued'[Len(queued) + 1] = j
      /\ \A i \in 1 .. Len(queued) : queued'[i] = queued[i]
  BY DEF KInv, IInv, TypeOK, Enqueue
<1>1. JobsHeld'
  <2>1. (\E i \in 1 .. Len(queued') : queued'[i] = j)
        /\ \A k \in Jobs : (\E i \in 1 .. Len(queued) : queued[i] = k) => \E i \in 1 .. Len(queued') : queued'[i] = k
    BY <1>0
  <2> QED BY <2>1 DEF KInv, IInv, TypeOK, JobsHeld, Enqueue
<1>2. ThreadsHold'
  BY DEF KInv, IInv, TypeOK, ThreadsHold, Enqueue
<1>3. QueuedAreServed'
  <2>1. Len(queued) + 1 <= Cardinality(Finishing)
    BY EnqueueIsServed
  <2>2. Finishing \subseteq Finishing'
    BY PoolAssumption DEF KInv, IInv, Shape, TypeOK, Finishing, InHand, Enqueue
  <2>3. Cardinality(Finishing) <= Cardinality(Finishing')
    BY <2>2, FinishingIsFinite, FS_Subset
  <2> QED BY <1>0, <2>1, <2>3, FinishingIsFinite DEF QueuedAreServed, Enqueue
<1> QED BY <1>1, <1>2, <1>3

\* CountThread keeps what the pool took held.
LEMMA CountThreadKeeps ==
  ASSUME KInv, NEW j \in Jobs, NEW w \in Workers, CountThread(j, w)
  PROVE  JobsHeld' /\ ThreadsHold' /\ QueuedAreServed'
<1>1. JobsHeld'
  BY PoolAssumption DEF KInv, IInv, Shape, TypeOK, JobsHeld, InHand, CountThread
<1>2. ThreadsHold'
  BY PoolAssumption DEF KInv, IInv, Shape, TypeOK, ThreadsHold, Starting, CountThread
<1>3. QueuedAreServed'
  <2>1. Finishing \subseteq Finishing'
    BY PoolAssumption DEF KInv, IInv, Shape, TypeOK, Finishing, InHand, CountThread
  <2> QED BY <2>1, ServedFrom DEF KInv, IInv, TypeOK, CountThread
<1> QED BY <1>1, <1>2, <1>3

\* SpawnThread keeps what the pool took held.
LEMMA SpawnThreadKeeps ==
  ASSUME KInv, NEW j \in Jobs, NEW w \in Workers, SpawnThread(j, w)
  PROVE  JobsHeld' /\ ThreadsHold' /\ QueuedAreServed'
<1>1. JobsHeld'
  BY PoolAssumption DEF KInv, IInv, Shape, TypeOK, JobsHeld, InHand, SpawnThread
<1>2. ThreadsHold'
  <2>1. /\ pc'[w] = "first" /\ \A v \in Workers \ {w} : pc'[v] = pc[v]
        /\ job'[j] = "starting" /\ \A k \in Jobs \ {j} : job'[k] = job[k]
        /\ starting[j] = w /\ job[j] = "spawning" /\ UNCHANGED <<idle, starting, chan>>
    BY DEF KInv, IInv, TypeOK, SpawnThread
  <2> QED BY <2>1 DEF KInv, ThreadsHold
<1>3. QueuedAreServed'
  <2>1. Finishing \subseteq Finishing'
    <3>1. pc[w] = "booting" /\ pc' \in [Workers -> PcStates] /\ \A v \in Workers \ {w} : pc'[v] = pc[v]
      BY DEF KInv, IInv, Shape, TypeOK, PcStates, Starting, SpawnThread
    <3>2. \A k \in Jobs : k # j => job'[k] = job[k]
      BY DEF KInv, IInv, TypeOK, SpawnThread
    <3>3. \A v \in Workers : pc[v] = "run" => task[v] \in Jobs /\ task[v] # j
      BY DEF KInv, IInv, Shape, InHand, SpawnThread
    <3> QED BY <3>1, <3>2, <3>3 DEF Finishing, SpawnThread
  <2> QED BY <2>1, ServedFrom DEF KInv, IInv, TypeOK, SpawnThread
<1> QED BY <1>1, <1>2, <1>3

\* SendFirst keeps what the pool took held.
LEMMA SendFirstKeeps ==
  ASSUME KInv, NEW j \in Jobs, NEW w \in Workers, SendFirst(j, w)
  PROVE  JobsHeld' /\ ThreadsHold' /\ QueuedAreServed'
<1>1. JobsHeld'
  <2>1. chan[w] = <<>>
    BY DEF KInv, IInv, Shape, Starting, SendFirst
  <2>2. chan'[w] = <<j>> /\ \A v \in Workers \ {w} : chan'[v] = chan[v]
    BY <2>1 DEF KInv, IInv, TypeOK, SendFirst
  <2>3. job'[j] = "sent" /\ \A k \in Jobs \ {j} : job'[k] = job[k]
    BY DEF KInv, IInv, TypeOK, SendFirst
  <2>4. \A k \in Jobs : (\E v \in Workers : chan[v] # <<>> /\ chan[v][1] = k)
                         => \E v \in Workers : chan'[v] # <<>> /\ chan'[v][1] = k
    BY <2>1, <2>2
  <2>5. chan'[w] # <<>> /\ chan'[w][1] = j
    BY <2>2
  <2> QED BY <2>3, <2>4, <2>5 DEF KInv, JobsHeld, SendFirst
<1>2. ThreadsHold'
  BY PoolAssumption DEF KInv, IInv, Shape, TypeOK, ThreadsHold, Starting, SendFirst
<1>3. QueuedAreServed'
  <2>1. Finishing \subseteq Finishing'
    BY PoolAssumption DEF KInv, IInv, Shape, TypeOK, Finishing, InHand, SendFirst
  <2> QED BY <2>1, ServedFrom DEF KInv, IInv, TypeOK, SendFirst
<1> QED BY <1>1, <1>2, <1>3

\* SpawnFails keeps what the pool took held.
LEMMA SpawnFailsKeeps ==
  ASSUME KInv, NEW j \in Jobs, NEW w \in Workers, SpawnFails(j, w)
  PROVE  JobsHeld' /\ ThreadsHold' /\ QueuedAreServed'
<1>1. JobsHeld'
  BY PoolAssumption DEF KInv, IInv, Shape, TypeOK, JobsHeld, InHand, SpawnFails
<1>2. ThreadsHold'
  BY PoolAssumption DEF KInv, IInv, Shape, TypeOK, ThreadsHold, Starting, SpawnFails
<1>3. QueuedAreServed'
  <2>1. Finishing \subseteq Finishing'
    <3>1. pc[w] = "booting" /\ pc' \in [Workers -> PcStates] /\ \A v \in Workers \ {w} : pc'[v] = pc[v]
      BY DEF KInv, IInv, Shape, TypeOK, PcStates, Starting, SpawnFails
    <3>2. \A k \in Jobs : k # j => job'[k] = job[k]
      BY DEF KInv, IInv, TypeOK, SpawnFails
    <3>3. \A v \in Workers : pc[v] = "run" => task[v] \in Jobs /\ task[v] # j
      BY DEF KInv, IInv, Shape, InHand, SpawnFails
    <3> QED BY <3>1, <3>2, <3>3 DEF Finishing, SpawnFails
  <2> QED BY <2>1, ServedFrom DEF KInv, IInv, TypeOK, SpawnFails
<1> QED BY <1>1, <1>2, <1>3

\* RefuseUnstarted keeps what the pool took held.
LEMMA RefuseUnstartedKeeps ==
  ASSUME KInv, NEW j \in Jobs, RefuseUnstarted(j)
  PROVE  JobsHeld' /\ ThreadsHold' /\ QueuedAreServed'
<1>1. JobsHeld'
  BY PoolAssumption DEF KInv, IInv, Shape, TypeOK, JobsHeld, InHand, RefuseUnstarted
<1>2. ThreadsHold'
  BY PoolAssumption DEF KInv, IInv, Shape, TypeOK, ThreadsHold, Starting, RefuseUnstarted
<1>3. QueuedAreServed'
  <2>1. Finishing \subseteq Finishing'
    BY PoolAssumption DEF KInv, IInv, Shape, TypeOK, Finishing, InHand, RefuseUnstarted
  <2> QED BY <2>1, ServedFrom DEF KInv, IInv, TypeOK, RefuseUnstarted
<1> QED BY <1>1, <1>2, <1>3

\* Receive keeps what the pool took held.
LEMMA ReceiveKeeps ==
  ASSUME KInv, NEW w \in Workers, Receive(w)
  PROVE  JobsHeld' /\ ThreadsHold' /\ QueuedAreServed'
<1>1. JobsHeld'
  <2> DEFINE j == Head(chan[w])
  <2>1. chan[w] \in Seq(Jobs) /\ Len(chan[w]) = 1 /\ task[w] = NoJob
    BY DEF KInv, IInv, Shape, TypeOK, InHand, InChannel, Receive
  <2>2. j = chan[w][1] /\ j \in Jobs
    BY <2>1, OneTask
  <2>3. task'[w] = j /\ \A v \in Workers \ {w} : task'[v] = task[v] /\ chan'[v] = chan[v]
    BY <2>2 DEF KInv, IInv, TypeOK, Receive
  <2>4. job'[j] = "running" /\ \A k \in Jobs \ {j} : job'[k] = job[k]
    BY <2>2 DEF KInv, IInv, TypeOK, Receive
  <2> HIDE DEF j
  <2>5. \A k \in Jobs : (\E v \in Workers : task[v] = k) => \E v \in Workers : task'[v] = k
    BY <2>1, <2>3, PoolAssumption
  <2>6. \A k \in Jobs \ {j} : (\E v \in Workers : chan[v] # <<>> /\ chan[v][1] = k)
                                => \E v \in Workers : chan'[v] # <<>> /\ chan'[v][1] = k
    BY <2>2, <2>3
  <2> QED BY <2>3, <2>4, <2>5, <2>6 DEF KInv, JobsHeld, Receive
<1>2. ThreadsHold'
  BY PoolAssumption, OneTask DEF KInv, IInv, Shape, TypeOK, ThreadsHold, Starting, InChannel, Receive
<1>3. QueuedAreServed'
  <2>1. Finishing \subseteq Finishing'
    BY PoolAssumption, OneTask DEF KInv, IInv, Shape, TypeOK, Finishing, InHand, InChannel, Receive
  <2> QED BY <2>1, ServedFrom DEF KInv, IInv, TypeOK, Receive
<1> QED BY <1>1, <1>2, <1>3

\* GiveBack keeps what the pool took held.
LEMMA GiveBackKeeps ==
  ASSUME KInv, NEW w \in Workers, GiveBack(w)
  PROVE  JobsHeld' /\ ThreadsHold' /\ QueuedAreServed'
<1>1. JobsHeld'
  BY PoolAssumption DEF KInv, IInv, Shape, TypeOK, JobsHeld, InHand, GiveBack
<1>2. ThreadsHold'
  BY PoolAssumption DEF KInv, IInv, Shape, TypeOK, ThreadsHold, Starting, GiveBack
<1>3. QueuedAreServed'
  <2>1. Finishing \subseteq Finishing'
    BY PoolAssumption DEF KInv, IInv, Shape, TypeOK, Finishing, InHand, GiveBack
  <2> QED BY <2>1, ServedFrom DEF KInv, IInv, TypeOK, GiveBack
<1> QED BY <1>1, <1>2, <1>3

\* Return keeps what the pool took held.
LEMMA ReturnKeeps ==
  ASSUME KInv, NEW w \in Workers, Return(w)
  PROVE  JobsHeld' /\ ThreadsHold' /\ QueuedAreServed'
<1>1. JobsHeld'
  BY PoolAssumption DEF KInv, IInv, Shape, TypeOK, JobsHeld, InHand, Return
<1>2. ThreadsHold'
  BY PoolAssumption DEF KInv, IInv, Shape, TypeOK, ThreadsHold, InHand, Starting, Return
<1>3. QueuedAreServed'
  <2>1. Finishing \subseteq Finishing'
    <3> SUFFICES ASSUME NEW v \in Finishing PROVE v \in Finishing'
      OBVIOUS
    <3>1. CASE v = w
      BY <3>1 DEF KInv, IInv, TypeOK, Finishing, Return
    <3>2. CASE v # w
      <4>1. v \in Workers /\ pc'[v] = pc[v] /\ task'[v] = task[v]
        BY <3>2 DEF KInv, IInv, TypeOK, Finishing, Return
      <4>2. pc[v] = "run" => task[v] \in Jobs /\ task[v] # task[w]
        BY <3>2, <4>1, PoolAssumption DEF KInv, IInv, Shape, InHand
      <4>3. pc[v] = "run" => job'[task[v]] = job[task[v]]
        BY <4>2 DEF KInv, IInv, TypeOK, Return
      <4> QED BY <4>1, <4>3 DEF Finishing
    <3> QED BY <3>1, <3>2
  <2> QED BY <2>1, ServedFrom DEF KInv, IInv, TypeOK, Return
<1> QED BY <1>1, <1>2, <1>3

\* TakeQueued keeps what the pool took held.
LEMMA TakeQueuedKeeps ==
  ASSUME KInv, NEW w \in Workers, TakeQueued(w)
  PROVE  JobsHeld' /\ ThreadsHold' /\ QueuedAreServed'
<1>0. /\ Len(queued) \in Nat \ {0} /\ queued[1] \in Jobs /\ Head(queued) = queued[1]
      /\ Tail(queued) \in Seq(Jobs) /\ Len(Tail(queued)) = Len(queued) - 1
      /\ \A i \in 1 .. Len(queued) - 1 : Tail(queued)[i] = queued[i + 1]
  BY EmptySeq, HeadTailProperties DEF KInv, IInv, TypeOK, TakeQueued
<1>a. /\ pc[w] = "finish" /\ queued' = Tail(queued) /\ job[queued[1]] = "queued"
      /\ task' = [task EXCEPT ![w] = queued[1]] /\ task[w] = NoJob
      /\ job' = [job EXCEPT ![queued[1]] = "running"]
      /\ pc' = [pc EXCEPT ![w] = "run"]
      /\ UNCHANGED <<idle, starting, chan>>
  BY <1>0 DEF KInv, IInv, Shape, InHand, InQueue, TakeQueued
<1>1. JobsHeld'
  <2>1. \A k \in Jobs \ {queued[1]} : job'[k] = job[k]
    BY <1>a DEF KInv, IInv, TypeOK
  <2>2. \A k \in Jobs : (\E i \in 1 .. Len(queued) : queued[i] = k) /\ k # queued[1]
           => \E i \in 1 .. Len(queued') : queued'[i] = k
    <3> SUFFICES ASSUME NEW k \in Jobs, NEW i \in 1 .. Len(queued), queued[i] = k, k # queued[1]
                 PROVE  \E m \in 1 .. Len(queued') : queued'[m] = k
      OBVIOUS
    <3>1. i - 1 \in 1 .. Len(queued') /\ i - 1 \in 1 .. Len(queued) - 1 /\ (i - 1) + 1 = i
      BY <1>0, <1>a
    <3> QED BY <1>0, <1>a, <3>1
  <2>3. \A k \in Jobs : (\E v \in Workers : task[v] = k) => \E v \in Workers : task'[v] = k
    BY <1>a, PoolAssumption DEF KInv, IInv, TypeOK
  <2>4. task'[w] = queued[1] /\ job'[queued[1]] = "running"
    BY <1>0, <1>a DEF KInv, IInv, TypeOK
  <2> QED BY <1>a, <2>1, <2>2, <2>3, <2>4 DEF KInv, JobsHeld
<1>2. ThreadsHold'
  BY <1>0, <1>a DEF KInv, IInv, TypeOK, ThreadsHold
<1>3. QueuedAreServed'
  <2>1. Finishing \ {w} \subseteq Finishing' /\ w \in Finishing
    <3>1. w \in Finishing
      BY <1>a DEF Finishing
    <3>2. ASSUME NEW v \in Finishing, v # w PROVE v \in Finishing'
      <4>1. v \in Workers /\ pc'[v] = pc[v] /\ task'[v] = task[v]
        BY <1>a, <3>2 DEF KInv, IInv, TypeOK, Finishing
      <4>2. CASE pc[v] = "finish"
        BY <4>1, <4>2 DEF Finishing
      <4>3. CASE pc[v] = "run" /\ job[task[v]] = "answering"
        <5>1. job'[task[v]] = "answering"
          BY <1>0, <1>a, <4>1, <4>3 DEF KInv, IInv, Shape, TypeOK, InHand
        <5> QED BY <4>1, <4>3, <5>1 DEF Finishing
      <4> QED BY <3>2, <4>2, <4>3 DEF Finishing
    <3> QED BY <3>1, <3>2
  <2>2. Cardinality(Finishing \ {w}) = Cardinality(Finishing) - 1
    BY <2>1, FinishingIsFinite, FS_RemoveElement
  <2>3. Cardinality(Finishing \ {w}) <= Cardinality(Finishing')
    BY <2>1, FinishingIsFinite, FS_Subset
  <2>4. Len(queued') <= Cardinality(Finishing')
    BY <1>0, <1>a, <2>2, <2>3, FinishingIsFinite DEF KInv, QueuedAreServed
  <2>5. idle' = <<>>
    BY <1>a DEF KInv, QueuedAreServed, TakeQueued
  <2> QED BY <2>4, <2>5 DEF QueuedAreServed
<1> QED BY <1>1, <1>2, <1>3

\* GoIdle keeps what the pool took held.
LEMMA GoIdleKeeps ==
  ASSUME KInv, NEW w \in Workers, GoIdle(w)
  PROVE  JobsHeld' /\ ThreadsHold' /\ QueuedAreServed'
<1>1. JobsHeld'
  BY DEF KInv, IInv, Shape, TypeOK, JobsHeld, GoIdle
<1>2. ThreadsHold'
  <2>1. /\ Len(idle') = Len(idle) + 1 /\ Len(idle) \in Nat /\ idle'[Len(idle) + 1] = w
        /\ \A i \in 1 .. Len(idle) : idle'[i] = idle[i]
    BY DEF KInv, IInv, TypeOK, GoIdle
  <2>2. (\E i \in 1 .. Len(idle') : idle'[i] = w)
        /\ \A v \in Workers : (\E i \in 1 .. Len(idle) : idle[i] = v) => \E i \in 1 .. Len(idle') : idle'[i] = v
    BY <2>1
  <2> QED BY <2>2 DEF KInv, IInv, TypeOK, ThreadsHold, GoIdle
<1>3. QueuedAreServed'
  BY ServedWhenEmpty DEF GoIdle
<1> QED BY <1>1, <1>2, <1>3

\* TimeOut keeps what the pool took held.
LEMMA TimeOutKeeps ==
  ASSUME KInv, NEW w \in Workers, TimeOut(w)
  PROVE  JobsHeld' /\ ThreadsHold' /\ QueuedAreServed'
<1>1. JobsHeld'
  BY PoolAssumption DEF KInv, IInv, Shape, TypeOK, JobsHeld, InHand, TimeOut
<1>2. ThreadsHold'
  BY PoolAssumption DEF KInv, IInv, Shape, TypeOK, ThreadsHold, Starting, TimeOut
<1>3. QueuedAreServed'
  <2>1. Finishing \subseteq Finishing'
    BY PoolAssumption DEF KInv, IInv, Shape, TypeOK, Finishing, InHand, TimeOut
  <2> QED BY <2>1, ServedFrom DEF KInv, IInv, TypeOK, TimeOut
<1> QED BY <1>1, <1>2, <1>3

\* TakeLate keeps what the pool took held.
LEMMA TakeLateKeeps ==
  ASSUME KInv, NEW w \in Workers, TakeLate(w)
  PROVE  JobsHeld' /\ ThreadsHold' /\ QueuedAreServed'
<1>0. \A v \in Workers, i \in 1 .. Len(idle) :
        v # w /\ idle[i] = v => \E k \in 1 .. Len(idle') : idle'[k] = v
  BY WithoutIdleKeeps DEF KInv, IInv, Shape, TakeLate
<1>1. JobsHeld'
  <2> DEFINE j == Head(chan[w])
  <2>1. chan[w] \in Seq(Jobs) /\ Len(chan[w]) = 1 /\ task[w] = NoJob
    BY DEF KInv, IInv, Shape, TypeOK, InHand, InChannel, TakeLate
  <2>2. j = chan[w][1] /\ j \in Jobs
    BY <2>1, OneTask
  <2>3. task'[w] = j /\ \A v \in Workers \ {w} : task'[v] = task[v] /\ chan'[v] = chan[v]
    BY <2>2 DEF KInv, IInv, TypeOK, TakeLate
  <2>4. job'[j] = "running" /\ \A k \in Jobs \ {j} : job'[k] = job[k]
    BY <2>2 DEF KInv, IInv, TypeOK, TakeLate
  <2> HIDE DEF j
  <2>5. \A k \in Jobs : (\E v \in Workers : task[v] = k) => \E v \in Workers : task'[v] = k
    BY <2>1, <2>3, PoolAssumption
  <2>6. \A k \in Jobs \ {j} : (\E v \in Workers : chan[v] # <<>> /\ chan[v][1] = k)
                                => \E v \in Workers : chan'[v] # <<>> /\ chan'[v][1] = k
    BY <2>2, <2>3
  <2> QED BY <2>3, <2>4, <2>5, <2>6 DEF KInv, JobsHeld, TakeLate
<1>2. ThreadsHold'
  BY <1>0, PoolAssumption, OneTask DEF KInv, IInv, Shape, TypeOK, ThreadsHold, Starting, InChannel, TakeLate
<1>3. QueuedAreServed'
  <2>1. Finishing \subseteq Finishing'
    BY PoolAssumption, OneTask DEF KInv, IInv, Shape, TypeOK, Finishing, InHand, InChannel, TakeLate
  <2>2. idle = <<>> => idle' = <<>>
    BY WithoutIdleOfNone DEF TakeLate
  <2> QED BY <2>1, <2>2, ServedFrom DEF KInv, IInv, TypeOK, TakeLate
<1> QED BY <1>1, <1>2, <1>3

\* Leave keeps what the pool took held.
LEMMA LeaveKeeps ==
  ASSUME KInv, NEW w \in Workers, Leave(w)
  PROVE  JobsHeld' /\ ThreadsHold' /\ QueuedAreServed'
<1>0. \A v \in Workers, i \in 1 .. Len(idle) :
        v # w /\ idle[i] = v => \E k \in 1 .. Len(idle') : idle'[k] = v
  BY WithoutIdleKeeps DEF KInv, IInv, Shape, Leave
<1>1. JobsHeld'
  BY PoolAssumption, OneTask DEF KInv, IInv, Shape, TypeOK, JobsHeld, InHand, InChannel, Leave
<1>2. ThreadsHold'
  BY <1>0, PoolAssumption, OneTask DEF KInv, IInv, Shape, TypeOK, ThreadsHold, Starting, InChannel, Leave
<1>3. QueuedAreServed'
  <2>1. Finishing \subseteq Finishing'
    BY PoolAssumption, OneTask DEF KInv, IInv, Shape, TypeOK, Finishing, InHand, InChannel, Leave
  <2>2. idle = <<>> => idle' = <<>>
    BY WithoutIdleOfNone DEF Leave
  <2> QED BY <2>1, <2>2, ServedFrom DEF KInv, IInv, TypeOK, Leave
<1> QED BY <1>1, <1>2, <1>3

\* WhenIdle keeps what the pool took held.
LEMMA WhenIdleKeeps ==
  ASSUME KInv, NEW w \in Workers, WhenIdle(w)
  PROVE  JobsHeld' /\ ThreadsHold' /\ QueuedAreServed'
<1>1. JobsHeld'
  BY PoolAssumption DEF KInv, IInv, Shape, TypeOK, JobsHeld, InHand, WhenIdle
<1>2. ThreadsHold'
  BY PoolAssumption DEF KInv, IInv, Shape, TypeOK, ThreadsHold, Starting, WhenIdle
<1>3. QueuedAreServed'
  <2>1. Finishing \subseteq Finishing'
    BY PoolAssumption DEF KInv, IInv, Shape, TypeOK, Finishing, InHand, WhenIdle
  <2> QED BY <2>1, ServedFrom DEF KInv, IInv, TypeOK, WhenIdle
<1> QED BY <1>1, <1>2, <1>3

\* End keeps what the pool took held.
LEMMA EndKeeps ==
  ASSUME KInv, NEW w \in Workers, End(w)
  PROVE  JobsHeld' /\ ThreadsHold' /\ QueuedAreServed'
<1>1. JobsHeld'
  BY PoolAssumption DEF KInv, IInv, Shape, TypeOK, JobsHeld, InHand, End
<1>2. ThreadsHold'
  BY PoolAssumption DEF KInv, IInv, Shape, TypeOK, ThreadsHold, Starting, End
<1>3. QueuedAreServed'
  <2>1. Finishing \subseteq Finishing'
    BY PoolAssumption DEF KInv, IInv, Shape, TypeOK, Finishing, InHand, End
  <2> QED BY <2>1, ServedFrom DEF KInv, IInv, TypeOK, End
<1> QED BY <1>1, <1>2, <1>3

\* Every step keeps KInv.
LEMMA NextKInv == KInv /\ [Next]_vars => KInv'
<1> SUFFICES ASSUME KInv, [Next]_vars PROVE KInv'
  OBVIOUS
<1> DEFINE Goal == JobsHeld' /\ ThreadsHold' /\ QueuedAreServed'
<1>0. IInv'
  BY NextIInv DEF KInv
<1>1. ASSUME NEW j \in Jobs, TakePlace(j) PROVE Goal
  BY <1>1, TakePlaceKeeps
<1>2. ASSUME NEW j \in Jobs, RefuseFull(j) PROVE Goal
  BY <1>2, RefuseFullKeeps
<1>3. ASSUME NEW j \in Jobs, SendIdle(j) PROVE Goal
  BY <1>3, SendIdleKeeps
<1>4. ASSUME NEW j \in Jobs, Enqueue(j) PROVE Goal
  BY <1>4, EnqueueKeeps
<1>5. ASSUME NEW j \in Jobs, NEW w \in Workers, CountThread(j, w) PROVE Goal
  BY <1>5, CountThreadKeeps
<1>6. ASSUME NEW j \in Jobs, NEW w \in Workers, SpawnThread(j, w) PROVE Goal
  BY <1>6, SpawnThreadKeeps
<1>7. ASSUME NEW j \in Jobs, NEW w \in Workers, SendFirst(j, w) PROVE Goal
  BY <1>7, SendFirstKeeps
<1>8. ASSUME NEW j \in Jobs, NEW w \in Workers, SpawnFails(j, w) PROVE Goal
  BY <1>8, SpawnFailsKeeps
<1>9. ASSUME NEW j \in Jobs, RefuseUnstarted(j) PROVE Goal
  BY <1>9, RefuseUnstartedKeeps
<1>10. ASSUME NEW w \in Workers, Receive(w) PROVE Goal
  BY <1>10, ReceiveKeeps
<1>11. ASSUME NEW w \in Workers, GiveBack(w) PROVE Goal
  BY <1>11, GiveBackKeeps
<1>12. ASSUME NEW w \in Workers, Return(w) PROVE Goal
  BY <1>12, ReturnKeeps
<1>13. ASSUME NEW w \in Workers, TakeQueued(w) PROVE Goal
  BY <1>13, TakeQueuedKeeps
<1>14. ASSUME NEW w \in Workers, GoIdle(w) PROVE Goal
  BY <1>14, GoIdleKeeps
<1>15. ASSUME NEW w \in Workers, TimeOut(w) PROVE Goal
  BY <1>15, TimeOutKeeps
<1>16. ASSUME NEW w \in Workers, TakeLate(w) PROVE Goal
  BY <1>16, TakeLateKeeps
<1>17. ASSUME NEW w \in Workers, Leave(w) PROVE Goal
  BY <1>17, LeaveKeeps
<1>18. ASSUME NEW w \in Workers, WhenIdle(w) PROVE Goal
  BY <1>18, WhenIdleKeeps
<1>19. ASSUME NEW w \in Workers, End(w) PROVE Goal
  BY <1>19, EndKeeps
<1>20. ASSUME UNCHANGED vars PROVE Goal
  BY <1>20 DEF vars, KInv, JobsHeld, ThreadsHold, QueuedAreServed, Finishing
<1>21. Goal
  BY <1>1, <1>2, <1>3, <1>4, <1>5, <1>6, <1>7, <1>8, <1>9, <1>10, <1>11, <1>12, <1>13,
     <1>14, <1>15, <1>16, <1>17, <1>18, <1>19, <1>20 DEF Next, Submit, Work
<1> QED BY <1>0, <1>21 DEF KInv

\* Under KInv a job the pool took has one holder, any other none.
LEMMA OneHolder == ASSUME KInv PROVE AcceptedIsHeld
<1> SUFFICES ASSUME NEW j \in Jobs
             PROVE  Cardinality(Holders(j)) =
                      IF job[j] \in {"queued", "sent", "running", "answering"} THEN 1 ELSE 0
  BY DEF AcceptedIsHeld
<1>1. \A w \in Workers : task[w] = j => job[j] \in {"running", "answering"}
  BY PoolAssumption DEF KInv, IInv, Shape, InHand
<1>2. \A i \in 1 .. Len(queued) : queued[i] = j => job[j] = "queued"
  BY DEF KInv, IInv, Shape, InQueue
<1>3. \A w \in Workers : (\E i \in 1 .. Len(chan[w]) : chan[w][i] = j)
                            <=> chan[w] # <<>> /\ chan[w][1] = j
  <2> SUFFICES ASSUME NEW w \in Workers
               PROVE  (\E i \in 1 .. Len(chan[w]) : chan[w][i] = j)
                        <=> chan[w] # <<>> /\ chan[w][1] = j
    OBVIOUS
  <2>1. CASE chan[w] = <<>>
    BY <2>1
  <2>2. CASE chan[w] # <<>>
    <3>1. Len(chan[w]) = 1
      BY <2>2 DEF KInv, IInv, Shape, InChannel
    <3> QED BY <2>2, <3>1
  <2> QED BY <2>1, <2>2
<1>4. \A w \in Workers : chan[w] # <<>> /\ chan[w][1] = j =>
        job[j] = "sent" /\ pc[w] \in {"first", "wait", "timedout"}
  BY DEF KInv, IInv, Shape, InChannel
<1>5. CASE job[j] \in {"running", "answering"}
  <2>1. PICK w \in Workers : task[w] = j
    BY <1>5 DEF KInv, JobsHeld
  <2>2. \A v \in Workers : task[v] = j => v = w
    BY <2>1, PoolAssumption DEF KInv, IInv, Shape, InHand
  <2>3. Holders(j) = {<<"hand", w>>}
    BY <1>2, <1>3, <1>4, <1>5, <2>1, <2>2 DEF Holders
  <2> QED BY <1>5, <2>3, FS_Singleton
<1>6. CASE job[j] = "sent"
  <2>1. PICK w \in Workers : chan[w] # <<>> /\ chan[w][1] = j
    BY <1>6 DEF KInv, JobsHeld
  <2>2. \A v \in Workers : chan[v] # <<>> /\ chan[v][1] = j => v = w
    BY <2>1 DEF KInv, IInv, Shape, InChannel
  <2>3. Holders(j) = {<<"chan", w>>}
    BY <1>1, <1>2, <1>3, <1>4, <1>6, <2>1, <2>2 DEF Holders
  <2> QED BY <1>6, <2>3, FS_Singleton
<1>7. CASE job[j] = "queued"
  <2>1. PICK i \in 1 .. Len(queued) : queued[i] = j
    BY <1>7 DEF KInv, JobsHeld
  <2>2. \A k \in 1 .. Len(queued) : queued[k] = j => k = i
    BY <2>1 DEF KInv, IInv, Shape, InQueue
  <2>3. Holders(j) = {<<"queue", i>>}
    BY <1>1, <1>3, <1>4, <1>7, <2>1, <2>2 DEF Holders
  <2> QED BY <1>7, <2>3, FS_Singleton
<1>8. CASE job[j] \notin {"queued", "sent", "running", "answering"}
  <2>1. Holders(j) = {}
    BY <1>1, <1>2, <1>3, <1>4, <1>8 DEF Holders
  <2> QED BY <1>8, <2>1, FS_EmptySet
<1> QED BY <1>5, <1>6, <1>7, <1>8

\* JobsAreKept, for every pool: each job it took is held once by what will run
\* it, and each queued job has a finishing thread that takes it (link/pool.rs,
\* place and work), whichever threads time out or fail to start meanwhile.
THEOREM JobsKept == Spec => []JobsAreKept
<1>1. Init => KInv
  <2> SUFFICES ASSUME Init PROVE KInv
    OBVIOUS
  <2>1. JobsHeld /\ ThreadsHold
    BY DEF Init, JobsHeld, ThreadsHold
  <2>2. QueuedAreServed
    BY FinishingIsFinite DEF Init, QueuedAreServed
  <2> QED BY <2>1, <2>2, InitIInv DEF KInv
<1>2. KInv => JobsAreKept
  BY OneHolder DEF KInv, JobsAreKept
<1> QED BY <1>1, <1>2, NextKInv, PTL DEF Spec

=============================================================================
