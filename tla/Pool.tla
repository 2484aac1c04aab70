------------------------------- MODULE Pool -------------------------------
(***************************************************************************)
(* The threads a link's calls run on (link/pool.rs, struct Pool).          *)
(*                                                                         *)
(* A job takes one of Max places with an atomic update, then, under the    *)
(* pool's lock, goes to an idle thread, to a new one, or to the queue for  *)
(* a thread that has given its place back and is still finishing.  A       *)
(* thread whose wait times out leaves the idle list under the lock, looks  *)
(* at its channel once more, and only then ends.                           *)
(*                                                                         *)
(* Every critical section of the lock is one action; the atomic update of  *)
(* the places, the spawn, each send outside the lock, and the steps of a   *)
(* job are actions of their own, so a submitter and a thread interleave    *)
(* between any two of them.  A job that panics gives its place back and    *)
(* returns as one that ends does: both are GiveBack and Return.            *)
(*                                                                         *)
(* A member of Jobs is a slot for jobs: once its job has run or has been   *)
(* refused another may be submitted under the same name.  A member of      *)
(* Workers names a thread while it lives, and another later.               *)
(***************************************************************************)
EXTENDS Naturals, Sequences, FiniteSets

CONSTANTS Jobs, Workers, Max, NoJob, NoWorker

ASSUME PoolAssumption ==
  /\ IsFiniteSet(Jobs)
  /\ IsFiniteSet(Workers)
  /\ Max \in Nat \ {0}
  /\ NoJob \notin Jobs
  /\ NoWorker \notin Workers

VARIABLES
  places,   \* Pool.places: the atomic count of places taken
  threads,  \* PoolState.threads
  idle,     \* PoolState.idle: threads waiting for work, a stack
  queued,   \* PoolState.queued: jobs no thread was free for, oldest first
  job,      \* where each job is
  starting, \* the thread a submitter in `place` is starting for its job
  pc,       \* where each thread is in `work`
  task,     \* the job a thread has in hand
  chan,     \* each thread's channel of tasks
  kept      \* the link keeps buffers for its calls (what when_idle lets go)

vars == <<places, threads, idle, queued, job, starting, pc, task, chan, kept>>

JobStates ==
  { "new",       \* not submitted
    "placing",   \* holds a place; its submitter is about to take the lock
    "spawning",  \* its submitter counted a thread and is starting it
    "starting",  \* its thread has started; the job is not yet sent to it
    "dropping",  \* its thread would not start; its place is not yet back
    "queued",    \* in PoolState.queued
    "sent",      \* in a thread's channel
    "running",   \* in a thread's hand, its place still taken
    "answering", \* it has given its place back and is still finishing
    "ran",       \* it has returned
    "refused" }  \* Busy

PcStates ==
  { "none",      \* no such thread
    "booting",   \* counted in `threads`, its spawn not yet answered
    "first",     \* waits for the job it was started for
    "run",       \* has a job in hand
    "finish",    \* its job has returned; about to take the lock
    "wait",      \* in the idle list (or just popped), receiving
    "timedout",  \* its wait timed out; about to take the lock
    "last",      \* ended as the last thread; about to run when_idle
    "leaving" }  \* about to return

Init ==
  /\ places = 0
  /\ threads = 0
  /\ idle = <<>>
  /\ queued = <<>>
  /\ job = [j \in Jobs |-> "new"]
  /\ starting = [j \in Jobs |-> NoWorker]
  /\ pc = [w \in Workers |-> "none"]
  /\ task = [w \in Workers |-> NoJob]
  /\ chan = [w \in Workers |-> <<>>]
  /\ kept = FALSE

-----------------------------------------------------------------------------
(* The submitter: Pool::run, Pool::place.                                  *)

Submittable(j) == job[j] \in {"new", "ran", "refused"}

\* Mutant of TakePlace: the bound is off by one.
TakePlaceMutant(j) ==
  /\ Submittable(j)
  /\ places <= Max
  /\ places' = places + 1
  /\ job' = [job EXCEPT ![j] = "placing"]
  /\ UNCHANGED <<threads, idle, queued, starting, pc, task, chan, kept>>

\* A place is free: the atomic update takes it.
TakePlace(j) ==
  /\ Submittable(j)
  /\ places < Max
  /\ places' = places + 1
  /\ job' = [job EXCEPT ![j] = "placing"]
  /\ UNCHANGED <<threads, idle, queued, starting, pc, task, chan, kept>>

\* Every place is taken: the job is refused.
RefuseFull(j) ==
  /\ Submittable(j)
  /\ places >= Max
  /\ job' = [job EXCEPT ![j] = "refused"]
  /\ UNCHANGED <<places, threads, idle, queued, starting, pc, task, chan, kept>>

\* Whether a thread still has its receiver, so a send to it succeeds.
Receiving(w) == pc[w] \notin {"none", "last", "leaving"}

\* Under the lock: the most recent idle thread is popped and sent the job.
\* Were it gone, the send would give the job back and the loop go on.
SendIdle(j) ==
  /\ job[j] = "placing"
  /\ idle # <<>>
  /\ LET w == idle[Len(idle)] IN
       /\ idle' = [i \in 1 .. Len(idle) - 1 |-> idle[i]]
       /\ IF Receiving(w)
            THEN /\ chan' = [chan EXCEPT ![w] = Append(@, j)]
                 /\ job' = [job EXCEPT ![j] = "sent"]
            ELSE UNCHANGED <<chan, job>>
  /\ UNCHANGED <<places, threads, queued, starting, pc, task, kept>>

\* Under the lock: no thread is idle and no more may start.
Enqueue(j) ==
  /\ job[j] = "placing"
  /\ idle = <<>>
  /\ threads >= Max
  /\ queued' = Append(queued, j)
  /\ job' = [job EXCEPT ![j] = "queued"]
  /\ UNCHANGED <<places, threads, idle, starting, pc, task, chan, kept>>

\* Under the lock: a thread is counted before it is started.
CountThread(j, w) ==
  /\ job[j] = "placing"
  /\ idle = <<>>
  /\ threads < Max
  /\ pc[w] = "none"
  /\ threads' = threads + 1
  /\ pc' = [pc EXCEPT ![w] = "booting"]
  /\ starting' = [starting EXCEPT ![j] = w]
  /\ job' = [job EXCEPT ![j] = "spawning"]
  /\ UNCHANGED <<places, idle, queued, task, chan, kept>>

\* The spawn succeeds: the thread runs `work` and waits for its job.
SpawnThread(j, w) ==
  /\ job[j] = "spawning"
  /\ starting[j] = w
  /\ pc' = [pc EXCEPT ![w] = "first"]
  /\ job' = [job EXCEPT ![j] = "starting"]
  /\ UNCHANGED <<places, threads, idle, queued, starting, task, chan, kept>>

\* The job follows the spawn through the new thread's channel.
SendFirst(j, w) ==
  /\ job[j] = "starting"
  /\ starting[j] = w
  /\ chan' = [chan EXCEPT ![w] = Append(@, j)]
  /\ job' = [job EXCEPT ![j] = "sent"]
  /\ starting' = [starting EXCEPT ![j] = NoWorker]
  /\ UNCHANGED <<places, threads, idle, queued, pc, task, kept>>

\* Mutant of SpawnFails: the thread that would not start stays counted.
SpawnFailsMutant(j, w) ==
  /\ job[j] = "spawning"
  /\ starting[j] = w
  /\ pc' = [pc EXCEPT ![w] = "none"]
  /\ job' = [job EXCEPT ![j] = "dropping"]
  /\ starting' = [starting EXCEPT ![j] = NoWorker]
  /\ UNCHANGED <<places, threads, idle, queued, task, chan, kept>>

\* The spawn fails: under the lock the thread is no longer counted.
SpawnFails(j, w) ==
  /\ job[j] = "spawning"
  /\ starting[j] = w
  /\ threads' = threads - 1
  /\ pc' = [pc EXCEPT ![w] = "none"]
  /\ job' = [job EXCEPT ![j] = "dropping"]
  /\ starting' = [starting EXCEPT ![j] = NoWorker]
  /\ UNCHANGED <<places, idle, queued, task, chan, kept>>

\* Mutant of RefuseUnstarted: the place of the refused job is not given back.
RefuseUnstartedMutant(j) ==
  /\ job[j] = "dropping"
  /\ job' = [job EXCEPT ![j] = "refused"]
  /\ UNCHANGED <<places, threads, idle, queued, starting, pc, task, chan, kept>>

\* `place` returns Busy and the task it still holds drops its place.
RefuseUnstarted(j) ==
  /\ job[j] = "dropping"
  /\ places' = places - 1
  /\ job' = [job EXCEPT ![j] = "refused"]
  /\ UNCHANGED <<threads, idle, queued, starting, pc, task, chan, kept>>

-----------------------------------------------------------------------------
(* A thread: Pool::work.                                                   *)

\* The thread's receive gets a task: the first it was started for, or one
\* sent while it was idle (by polling or by waiting).
Receive(w) ==
  /\ pc[w] \in {"first", "wait"}
  /\ chan[w] # <<>>
  /\ task' = [task EXCEPT ![w] = Head(chan[w])]
  /\ chan' = [chan EXCEPT ![w] = Tail(@)]
  /\ job' = [job EXCEPT ![Head(chan[w])] = "running"]
  /\ pc' = [pc EXCEPT ![w] = "run"]
  /\ UNCHANGED <<places, threads, idle, queued, starting, kept>>

\* The job drops its Place, before its answer goes out (or as it unwinds).
GiveBack(w) ==
  /\ pc[w] = "run"
  /\ job[task[w]] = "running"
  /\ places' = places - 1
  /\ job' = [job EXCEPT ![task[w]] = "answering"]
  /\ UNCHANGED <<threads, idle, queued, starting, pc, task, chan, kept>>

\* The job writes its answer and returns; the buffers it wrote are kept.
Return(w) ==
  /\ pc[w] = "run"
  /\ job[task[w]] = "answering"
  /\ job' = [job EXCEPT ![task[w]] = "ran"]
  /\ task' = [task EXCEPT ![w] = NoJob]
  /\ pc' = [pc EXCEPT ![w] = "finish"]
  /\ kept' = TRUE
  /\ UNCHANGED <<places, threads, idle, queued, starting, chan>>

\* Under the lock: a finishing thread takes the oldest queued job.
TakeQueued(w) ==
  /\ pc[w] = "finish"
  /\ queued # <<>>
  /\ task' = [task EXCEPT ![w] = Head(queued)]
  /\ job' = [job EXCEPT ![Head(queued)] = "running"]
  /\ queued' = Tail(queued)
  /\ pc' = [pc EXCEPT ![w] = "run"]
  /\ UNCHANGED <<places, threads, idle, starting, chan, kept>>

\* Mutant of GoIdle: the thread does not look at the queue first.
GoIdleMutant(w) ==
  /\ pc[w] = "finish"
  /\ idle' = Append(idle, w)
  /\ pc' = [pc EXCEPT ![w] = "wait"]
  /\ UNCHANGED <<places, threads, queued, job, starting, task, chan, kept>>

\* Under the lock: with nothing queued it goes idle.
GoIdle(w) ==
  /\ pc[w] = "finish"
  /\ queued = <<>>
  /\ idle' = Append(idle, w)
  /\ pc' = [pc EXCEPT ![w] = "wait"]
  /\ UNCHANGED <<places, threads, queued, job, starting, task, chan, kept>>

\* The idle wait times out with nothing in the channel.
TimeOut(w) ==
  /\ pc[w] = "wait"
  /\ chan[w] = <<>>
  /\ pc' = [pc EXCEPT ![w] = "timedout"]
  /\ UNCHANGED <<places, threads, idle, queued, job, starting, task, chan, kept>>

\* Mutant of WithoutIdle: a thread that ends stays in the idle list.
WithoutIdleMutant(w) == idle

\* `state.idle.retain(|(id, _)| *id != me)`: a thread pushes itself once, so
\* at most one entry goes.
WithoutIdle(w) ==
  IF \E i \in 1 .. Len(idle) : idle[i] = w
    THEN LET at == CHOOSE i \in 1 .. Len(idle) : idle[i] = w
         IN [i \in 1 .. Len(idle) - 1 |-> IF i < at THEN idle[i] ELSE idle[i + 1]]
    ELSE idle

\* Under the lock after a timeout: the thread gives up its place in the
\* idle list; a job sent since the timeout is taken.
TakeLate(w) ==
  /\ pc[w] = "timedout"
  /\ idle' = WithoutIdle(w)
  /\ chan[w] # <<>>
  /\ task' = [task EXCEPT ![w] = Head(chan[w])]
  /\ chan' = [chan EXCEPT ![w] = Tail(@)]
  /\ job' = [job EXCEPT ![Head(chan[w])] = "running"]
  /\ pc' = [pc EXCEPT ![w] = "run"]
  /\ UNCHANGED <<places, threads, queued, starting, kept>>

\* Mutant of Leave: the thread does not look at its channel once more.
LeaveMutant(w) ==
  /\ pc[w] = "timedout"
  /\ idle' = WithoutIdle(w)
  /\ threads' = threads - 1
  /\ chan' = [chan EXCEPT ![w] = <<>>]
  /\ pc' = [pc EXCEPT ![w] = IF threads = 1 THEN "last" ELSE "leaving"]
  /\ UNCHANGED <<places, queued, job, starting, task, kept>>

\* Under the lock after a timeout, with nothing sent: the thread ends.
Leave(w) ==
  /\ pc[w] = "timedout"
  /\ idle' = WithoutIdle(w)
  /\ chan[w] = <<>>
  /\ threads' = threads - 1
  /\ pc' = [pc EXCEPT ![w] = IF threads = 1 THEN "last" ELSE "leaving"]
  /\ UNCHANGED <<places, queued, job, starting, task, chan, kept>>

\* The last thread runs when_idle, outside the lock.
WhenIdle(w) ==
  /\ pc[w] = "last"
  /\ kept' = FALSE
  /\ pc' = [pc EXCEPT ![w] = "leaving"]
  /\ UNCHANGED <<places, threads, idle, queued, job, starting, task, chan>>

\* The thread returns.
End(w) ==
  /\ pc[w] = "leaving"
  /\ pc' = [pc EXCEPT ![w] = "none"]
  /\ UNCHANGED <<places, threads, idle, queued, job, starting, task, chan, kept>>

-----------------------------------------------------------------------------
\* The steps a submitter takes once `run` is called.
Submit(j) ==
  \/ SendIdle(j)
  \/ Enqueue(j)
  \/ \E w \in Workers :
       \/ CountThread(j, w)
       \/ SpawnThread(j, w)
       \/ SendFirst(j, w)
       \/ SpawnFails(j, w)
  \/ RefuseUnstarted(j)

\* The steps of a thread.
Work(w) ==
  \/ Receive(w)
  \/ GiveBack(w)
  \/ Return(w)
  \/ TakeQueued(w)
  \/ GoIdle(w)
  \/ TimeOut(w)
  \/ TakeLate(w)
  \/ Leave(w)
  \/ WhenIdle(w)
  \/ End(w)

Next ==
  \/ \E j \in Jobs : TakePlace(j) \/ RefuseFull(j) \/ Submit(j)
  \/ \E w \in Workers : Work(w)

\* A submitter inside `run` keeps going (it waits only for the lock, never
\* for a thread), and so does a thread: jobs return and idle waits end.
Fairness ==
  /\ \A j \in Jobs : WF_vars(Submit(j))
  /\ \A w \in Workers : WF_vars(Work(w))

Spec == Init /\ [][Next]_vars /\ Fairness

-----------------------------------------------------------------------------
(* Properties.                                                             *)

TypeOK ==
  /\ places \in 0 .. Max
  /\ threads \in 0 .. Max
  /\ idle \in Seq(Workers)
  /\ queued \in Seq(Jobs)
  /\ job \in [Jobs -> JobStates]
  /\ starting \in [Jobs -> Workers \cup {NoWorker}]
  /\ pc \in [Workers -> PcStates]
  /\ task \in [Workers -> Jobs \cup {NoJob}]
  /\ chan \in [Workers -> Seq(Jobs)]
  /\ kept \in BOOLEAN

\* The jobs whose task (and so whose Place) exists.
Placed == {j \in Jobs : job[j] \in {"placing", "spawning", "starting",
                                    "dropping", "queued", "sent", "running"}}

\* The threads PoolState.threads counts.
Counted == {w \in Workers : pc[w] \notin {"none", "last", "leaving"}}

\* The threads that have given their job's place back and will take the
\* lock again before they wait.
Finishing == {w \in Workers : \/ pc[w] = "finish"
                              \/ pc[w] = "run" /\ job[task[w]] = "answering"}

\* Every place taken is given back exactly once, on every path out of
\* `place` and `work` (a refusal, a failed spawn, a queued or late job).
PlacesExact == places = Cardinality(Placed)

\* A thread is counted from before its spawn until it leaves, also when
\* the spawn fails, so the pool never starts more than Max.
ThreadsExact == threads = Cardinality(Counted)

\* What lets `place` queue a job and return: a thread that is finishing for
\* each queued job, whichever threads time out or fail to start meanwhile.
\* No thread is idle while a job is queued (the comment on queued).
QueuedAreServed ==
  /\ Len(queued) <= Cardinality(Finishing)
  /\ queued # <<>> => idle = <<>>

\* A thread in the idle list has not ended, holds no job and is listed
\* once, so the send to it under the lock never fails ("Not expected") and
\* reaches a thread that looks at its channel once more.
IdleAreWaiting ==
  \A i \in 1 .. Len(idle) :
    /\ pc[idle[i]] \in {"wait", "timedout"}
    /\ chan[idle[i]] = <<>>
    /\ \A k \in 1 .. Len(idle) : idle[i] = idle[k] => i = k

\* The places an accepted job is found in: the queue, a channel of a thread
\* that will receive it, or a thread's hand.
Holders(j) ==
  {<<"queue", i>> : i \in {i \in 1 .. Len(queued) : queued[i] = j}}
    \cup {<<"chan", w>> : w \in {w \in Workers :
            /\ pc[w] \in {"first", "wait", "timedout"}
            /\ \E i \in 1 .. Len(chan[w]) : chan[w][i] = j}}
    \cup {<<"hand", w>> : w \in {w \in Workers : task[w] = j}}

\* An accepted job is held in exactly one place until it returns: a job
\* sent to a thread whose wait just timed out is not lost with the thread.
AcceptedIsHeld ==
  \A j \in Jobs :
    Cardinality(Holders(j)) =
      IF job[j] \in {"queued", "sent", "running", "answering"} THEN 1 ELSE 0

\* A job the pool took is run, also one queued behind finishing threads or
\* sent to a thread that was timing out.
AcceptedRuns ==
  \A j \in Jobs : job[j] \in {"queued", "sent"} ~> job[j] = "running"

\* What the pool counts is what there is, and what it lists as idle can be
\* sent a job.
PoolIsExact == TypeOK /\ PlacesExact /\ ThreadsExact /\ IdleAreWaiting

\* Every job the pool took is held once, by what will run it.
JobsAreKept == QueuedAreServed /\ AcceptedIsHeld
=============================================================================
