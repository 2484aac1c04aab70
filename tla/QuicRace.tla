------------------------------ MODULE QuicRace ------------------------------
(***************************************************************************)
(* A connect that tries every address of a name at once (QuicConnect::race *)
(* and Dial::connect_to in transport/quic.rs): a thread for each address,  *)
(* its handshake inside Ending::or_ended on the one Ending the race ends   *)
(* when it is over, and a channel the race reads their results from.       *)
(*                                                                         *)
(* quinn is external: a handshake links, fails or is refused whenever it   *)
(* does.  Timeouts are choices: a wait for a result ends when it does,     *)
(* and an attempt's own bound ends it as a failure.                        *)
(***************************************************************************)
EXTENDS Naturals, Sequences, SequencesExt, FiniteSets

CONSTANT Addresses  \* 1 .. n, tried in this order

ASSUME RaceAssumption ==
  IsFiniteSet(Addresses) /\ Addresses = 1 .. Cardinality(Addresses)

VARIABLES
  started,   \* how many addresses were started
  attempt,   \* where each address's thread is, or what came of it
  results,   \* the channel
  answered,  \* the addresses whose result the race took
  race,      \* where the loop is, "next" or "wait", or what it answered
  isOver,    \* Ending.ended of the race's own Ending
  slot,      \* Ending.waiting: whose waker is left, 0 for none
  wakes,     \* where Ending::end is: "no", "wake" or "done"
  links      \* connections that are up

racevars == <<started, attempt, results, answered, race, isOver, slot, wakes, links>>

RaceInit ==
  /\ started = 0
  /\ attempt = [a \in Addresses |-> "no"]
  /\ results = <<>>
  /\ answered = {}
  /\ race = "next"
  /\ isOver = FALSE
  /\ slot = 0
  /\ wakes = "no"
  /\ links = {}

Running == started - Cardinality(answered)
Unstarted == Cardinality(Addresses) - started
Runs == race \in {"next", "wait"}

-----------------------------------------------------------------------------
(* The race: at "next" it may start an address, at "wait" it hears one.    *)

\* The next address is started, or its thread is not and it has failed.
Starts(spawned) ==
  LET a == started + 1 IN
  /\ race = "next" /\ Unstarted > 0
  /\ started' = a
  /\ attempt' = [attempt EXCEPT ![a] = IF spawned THEN "check" ELSE "failed"]
  /\ answered' = IF spawned THEN answered ELSE answered \cup {a}
  /\ race' = IF spawned \/ Running > 0 THEN "wait" ELSE "next"
  /\ UNCHANGED <<results, isOver, slot, wakes, links>>

\* None is left to start, and some run.
GoesOn ==
  /\ race = "next" /\ Unstarted = 0 /\ Running > 0
  /\ race' = "wait"
  /\ UNCHANGED <<started, attempt, results, answered, isOver, slot, wakes, links>>

\* NEXT_ADDRESS passed, and the next is due.
NextIsDue ==
  /\ race = "wait" /\ Unstarted > 0 /\ results = <<>>
  /\ race' = "next"
  /\ UNCHANGED <<started, attempt, results, answered, isOver, slot, wakes, links>>

\* The race is over: its channel goes, and with it the links nobody took.
Answers(with, kept) ==
  /\ race' = with
  /\ links' = links \cap kept
  /\ wakes' = "flag"

\* Mutant of Final: any failure is the answer.
FinalMutant(r) == TRUE

\* A refusal is the answer, as a link is.
Final(r) == r \in {"linked", "refused"}

\* Mutant of Rest: what was taken stays in the channel.
RestMutant == results

Rest == Tail(results)

\* A result is taken: the first link wins, a refusal is the answer.
Hears ==
  LET a == Head(results) IN
  /\ race = "wait" /\ results # <<>>
  /\ results' = Rest
  /\ answered' = answered \cup {a}
  /\ IF Final(attempt[a])
     THEN Answers(attempt[a], {a})
     ELSE race' = "next" /\ UNCHANGED <<links, wakes>>
  /\ UNCHANGED <<started, attempt, isOver, slot>>

\* Nothing runs and nothing is left to start: the last failure is the answer.
GivesUp ==
  /\ race = "next" /\ Unstarted = 0 /\ Running = 0
  /\ Answers("failed", {})
  /\ UNCHANGED <<started, attempt, results, answered, isOver, slot>>

\* All are started, and none answers within the bound on them all.
Expires ==
  /\ race = "wait" /\ Unstarted = 0 /\ results = <<>>
  /\ Answers("expired", {})
  /\ UNCHANGED <<started, attempt, results, answered, isOver, slot>>

\* Over's drop: Ending::end.
SetsOver ==
  /\ wakes = "flag"
  /\ wakes' = "wake"
  /\ isOver' = TRUE
  /\ UNCHANGED <<started, attempt, results, answered, race, slot, links>>

\* The one waker left is woken.
WakesOne ==
  /\ wakes = "wake"
  /\ wakes' = "done"
  /\ slot' = 0
  /\ attempt' = [a \in Addresses |-> IF a = slot /\ attempt[a] = "asleep" THEN "check" ELSE attempt[a]]
  /\ UNCHANGED <<started, results, answered, race, isOver, links>>

-----------------------------------------------------------------------------
(* An attempt.                                                             *)

\* Its result goes to the channel; once the race is over it is let go.
AttemptEnds(a, r) ==
  /\ attempt' = [attempt EXCEPT ![a] = r]
  /\ IF Runs
     THEN /\ results' = Append(results, a)
          /\ links' = IF r = "linked" THEN links \cup {a} ELSE links
     ELSE UNCHANGED <<results, links>>
  /\ UNCHANGED <<started, answered, race, isOver, wakes>>

AttemptMoves(a, to) ==
  /\ attempt' = [attempt EXCEPT ![a] = to]
  /\ UNCHANGED <<started, results, answered, race, isOver, wakes, links>>

\* or_ended: the check, the waker left, the second look.
Polls(a) ==
  /\ attempt[a] = "check"
  /\ IF isOver THEN AttemptEnds(a, "stopped") ELSE AttemptMoves(a, "leave")
  /\ UNCHANGED slot

LeavesWaker(a) ==
  /\ attempt[a] = "leave"
  /\ slot' = a
  /\ AttemptMoves(a, "look")

LooksAgain(a) ==
  /\ attempt[a] = "look"
  /\ IF isOver THEN AttemptEnds(a, "stopped") ELSE AttemptMoves(a, "asleep")
  /\ UNCHANGED slot

\* The handshake, and the stream after it, come to an end of their own.
Comes(a, r) ==
  /\ attempt[a] = "asleep"
  /\ AttemptEnds(a, r)
  /\ UNCHANGED slot

RaceNext ==
  \/ \E spawned \in BOOLEAN : Starts(spawned)
  \/ GoesOn
  \/ NextIsDue
  \/ Hears
  \/ GivesUp
  \/ Expires
  \/ SetsOver
  \/ WakesOne
  \/ \E a \in Addresses :
       \/ Polls(a)
       \/ LeavesWaker(a)
       \/ LooksAgain(a)
       \/ \E r \in {"linked", "failed", "refused"} : Comes(a, r)

-----------------------------------------------------------------------------
(* Properties.                                                             *)

\* The answers taken are those of addresses started, and the channel holds the
\* others that came to an end (quic.rs:1142-1169).
RaceTypeOK ==
  /\ started \in 0 .. Cardinality(Addresses)
  /\ answered \cup ToSet(results) \subseteq 1 .. started
  /\ answered \cap ToSet(results) = {}
  /\ race \in {"next", "wait", "linked", "refused", "failed", "expired"}
  /\ links \subseteq {a \in Addresses : attempt[a] = "linked"}

\* A race that failed tried every address, and none of them linked or refused;
\* one that no attempt answers in time tried them all and keeps no link; one that linked or was refused has the one answer it took (quic.rs:1104-1107).
AnswerIsRight ==
  /\ race \in {"failed", "expired"} => started = Cardinality(Addresses) /\ links = {}
  /\ race = "failed" => \A a \in Addresses : attempt[a] = "failed"
  /\ race = "linked" => \E a \in answered : attempt[a] = "linked" /\ links = {a}
  /\ race = "refused" => (\E a \in answered : attempt[a] = "refused") /\ links = {}

\* What `Over` says of itself: it stops every attempt still in its handshake
\* when the race is over (quic.rs:1109).
EveryAttemptStops == wakes = "done" => \A a \in Addresses : attempt[a] # "asleep"

\* A race of addresses answers what its attempts came to.
RaceAnswers == RaceTypeOK /\ AnswerIsRight
=============================================================================
