------------------------------ MODULE Engines ------------------------------
(***************************************************************************)
(* Where an engine's calls run (guatiao-bridge thread.rs): a shared engine *)
(* on the caller's thread, a pinned one on the thread it lives on, which   *)
(* takes one job at a time from its queue while the caller waits.  What an *)
(* engine runs may call other engines, and itself, through the host.       *)
(*                                                                         *)
(* An engine's thread goes by the engine's name.  A call that panics ends  *)
(* as one that answers: caught where it ran, the thread carries on.        *)
(***************************************************************************)
EXTENDS Naturals, Sequences, FiniteSets

CONSTANTS
  PinnedEngines,
  SharedEngines,
  HostThreads,
  Callings,      \* what the engines' code may call: sets of pairs of engines
  MaxFrames      \* how deep a thread's calls nest

EngineThreads == HostThreads \cup PinnedEngines
EveryEngine == PinnedEngines \cup SharedEngines

ASSUME EnginesAssumption ==
  /\ HostThreads \cap EveryEngine = {} /\ PinnedEngines \cap SharedEngines = {}
  /\ "none" \notin EngineThreads

VARIABLES
  calling,  \* the one of Callings these engines are written as
  frames,   \* what each thread is running: engines, innermost last
  waiting,  \* the pinned engine each thread waits for, or "none"
  jobs,     \* each queue: the threads whose calls are in it
  job       \* the thread whose call an engine's thread is running, or "none"

enginevars == <<calling, frames, waiting, jobs, job>>

EnginesInit ==
  /\ calling \in Callings
  /\ frames = [t \in EngineThreads |-> <<>>]
  /\ waiting = [t \in EngineThreads |-> "none"]
  /\ jobs = [e \in PinnedEngines |-> <<>>]
  /\ job = [e \in PinnedEngines |-> "none"]

-----------------------------------------------------------------------------
Innermost(t) == frames[t][Len(frames[t])]

\* Mutant of RunsHere: every call of a pinned engine is queued.
RunsHereMutant(t, e) == e \in SharedEngines

\* run: straight in, on a thread that may.
RunsHere(t, e) == e \in SharedEngines \/ t = e

\* A host calls an engine, or what an engine runs calls one.
CallsEngine(t, e) ==
  /\ waiting[t] = "none"
  /\ IF frames[t] = <<>> THEN t \in HostThreads ELSE <<Innermost(t), e>> \in calling
  /\ Len(frames[t]) < MaxFrames
  /\ IF RunsHere(t, e)
     THEN /\ frames' = [frames EXCEPT ![t] = Append(@, e)]
          /\ UNCHANGED <<waiting, jobs>>
     ELSE /\ jobs' = [jobs EXCEPT ![e] = Append(@, t)]
          /\ waiting' = [waiting EXCEPT ![t] = e]
          /\ UNCHANGED frames
  /\ UNCHANGED <<calling, job>>

\* The engine's thread takes its next job.
TakesJob(e) ==
  /\ frames[e] = <<>>
  /\ jobs[e] # <<>>
  /\ frames' = [frames EXCEPT ![e] = <<e>>]
  /\ job' = [job EXCEPT ![e] = Head(jobs[e])]
  /\ jobs' = [jobs EXCEPT ![e] = Tail(@)]
  /\ UNCHANGED <<calling, waiting>>

\* Mutant of EndsJob: any call that ends on the engine's thread.
EndsJobMutant(t) == t \in PinnedEngines

\* What ends is the job itself, not a call made from inside it.
EndsJob(t) == t \in PinnedEngines /\ Len(frames[t]) = 1

\* A call ends; a job's answer goes to the thread that queued it.
EngineReturns(t) ==
  /\ waiting[t] = "none"
  /\ frames[t] # <<>>
  /\ frames' = [frames EXCEPT ![t] = SubSeq(@, 1, Len(@) - 1)]
  /\ IF EndsJob(t)
     THEN /\ waiting' = [w \in EngineThreads |-> IF w = job[t] THEN "none" ELSE waiting[w]]
          /\ job' = [job EXCEPT ![t] = "none"]
     ELSE UNCHANGED <<waiting, job>>
  /\ UNCHANGED <<calling, jobs>>

EnginesNext ==
  \E t \in EngineThreads :
    \/ \E e \in EveryEngine : CallsEngine(t, e)
    \/ t \in PinnedEngines /\ TakesJob(t)
    \/ EngineReturns(t)

-----------------------------------------------------------------------------
(* What must hold.                                                         *)

\* A thread that waits for an engine has its call in that engine's queue or
\* running there, once, and is answered when nothing of it runs there any more:
\* neither early nor never.
WaitIsKept ==
  \A e \in PinnedEngines :
    /\ \A t \in EngineThreads :
         Cardinality({i \in DOMAIN jobs[e] : jobs[e][i] = t}) + (IF job[e] = t THEN 1 ELSE 0)
           = IF waiting[t] = e THEN 1 ELSE 0
    /\ frames[e] # <<>> => job[e] # "none"

\* The pairs in R lead from a to b, within S: b is in every set that has what
\* comes after a and after its own members.
ComesTo(R, S, a, b) ==
  \A C \in SUBSET S :
    (\A v \in S : <<a, v>> \in R \/ (\E c \in C : <<c, v>> \in R) => v \in C) => b \in C

WaitsFor == {<<t, waiting[t]>> : t \in EngineThreads}

\* Threads wait for each other in a circle only where two pinned engines are
\* written to call each other, through whatever else: an engine that calls
\* itself, and engines that call only onwards, go on.
CircleIsWritten ==
  \A t \in {e \in PinnedEngines : waiting[e] # "none"} : ComesTo(WaitsFor, EngineThreads, t, t) =>
    \E e \in PinnedEngines \ {t} :
      /\ ComesTo(WaitsFor, EngineThreads, t, e) /\ ComesTo(WaitsFor, EngineThreads, e, t)
      /\ ComesTo(calling, EveryEngine, t, e) /\ ComesTo(calling, EveryEngine, e, t)

\* A call that waits for an engine's thread is one that thread will come to.
EngineCallsGoOn == WaitIsKept /\ CircleIsWritten
=============================================================================
