----------------------------- MODULE SlotCall ------------------------------
(***************************************************************************)
(* One slot of a kind's table called (guatiao library/kind/runtime.rs and  *)
(* shim.rs): Caller::call_raw in one image, dispatch and the Serve handler *)
(* in another, each with its own allocators; or dispatch called by C.      *)
(* What is handed over exists twice while the call lasts, as the caller's  *)
(* Pending and as the callee's read of it; the answer goes into a slot of  *)
(* the caller's that names, by an empty container, where to build it.      *)
(* LentHandle, at the end, lets other threads call an object lent.  How an *)
(* object the peer calls is entered is ObjectGuard.                        *)
(*                                                                         *)
(* Arguments are of five sorts: "scalar" for all that owns nothing, trees  *)
(* and objects handed over, trees and objects lent.  The handler, the C    *)
(* caller and std's RwLock are external.                                   *)
(***************************************************************************)
EXTENDS ObjectGuard

CONSTANTS
  TableSlots,    \* the slots called: SlotDescriptions
  LendThreads,   \* threads that have a lent object's handle
  MaxReads       \* bound: calls through it inside each other on one thread

VARIABLES
  called,    \* the slot
  caller,    \* "host" for call_raw, "C" for a caller of the table's own
  step,      \* where the call is
  passed,    \* the arguments as given
  ours,      \* what the caller still does with each one handed over
  theirs,    \* what the callee did with it
  trees,     \* lent trees: "home", with parts of the callee's, or a bad key
  outSlot,   \* what `out` holds before the call: an allocator, "none" or "null"
  reply,     \* the handler's answer and the allocator it is in
  replyAt,   \* who has the answer
  spilled,   \* what was freed of a secret answer without being overwritten
  status,    \* what the slot answered
  settled    \* the lent trees went home

callvars == <<called, caller, step, passed, ours, theirs, trees, outSlot, reply, replyAt,
              spilled, status, settled>>

VARIABLES
  lend,      \* LentHandle.cell: the object while it is lent
  lender,    \* share: in `f`, waiting for the write side, or returned
  reads,     \* the calls each thread is in with the read side
  barred     \* the threads that wait for the read side

lendvars == <<lend, lender, reads, barred>>

Sorts == {"scalar", "tree", "object", "lent tree", "lent object"}
Places == DOMAIN called.args
Wiping == {"host wiping", "library wiping"}
NoReply == [what |-> "nothing", in |-> "library"]

SlotCallInit ==
  /\ called \in TableSlots
  /\ caller \in {"host", "C"}
  /\ step = "begun"
  /\ passed = [i \in Places |-> "scalar"]
  /\ ours = [i \in Places |-> "none"]
  /\ theirs = [i \in Places |-> "none"]
  /\ trees = [i \in Places |-> "home"]
  /\ outSlot = "none"
  /\ reply = NoReply
  /\ replyAt = "nobody"
  /\ spilled = "none"
  /\ status = "none"
  /\ settled = TRUE

-----------------------------------------------------------------------------
(* The caller: call_raw up to the call.                                    *)

\* What the caller gives up with an argument ("bad" is one that fits and that
\* reading it refuses, as a map with a key that is no text).
Owned(i, given) == given \in {"tree", "object"} \/ (given = "bad" /\ called.args[i] = "tree")

\* A lent object is laid out for any slot that takes an object, by value too:
\* the callee then reads one that nobody handed over, of which nothing is said.
LaidOut(i, given) ==
  \/ given = called.args[i]
  \/ given = "bad" /\ called.args[i] \in {"tree", "lent tree"}
  \/ given = "lent object" /\ called.args[i] = "object"

\* Mutant of HomeOf: this side's plain allocator for every answer.
HomeOfMutant == "host"

\* The carrier: the wiping allocator for a slot marked sensitive.
HomeOf == IF called.sensitive THEN "host wiping" ELSE "host"

\* The checks of the table, and the layout: a refusal drops what was given, once
\* and whole, since `args` or `pending` has it.
HostCalls(given, taken) ==
  /\ caller = "host" /\ step = "begun"
  /\ passed' = given
  /\ LET made == taken /\ \A i \in Places : LaidOut(i, given[i])
     IN /\ step' = IF made THEN "called" ELSE "done"
        /\ ours' = [i \in Places |-> IF ~Owned(i, given[i]) THEN "none"
                                     ELSE IF made THEN "pending" ELSE "dropped"]
  /\ outSlot' = IF called.answer = "tree" THEN HomeOf ELSE "none"
  /\ UNCHANGED <<called, caller, theirs, trees, reply, replyAt, spilled, status, settled>>

\* A caller in C: any pointer may be null, and `out` may carry its allocator.
CCalls(given, out) ==
  /\ caller = "C" /\ step = "begun"
  /\ \A i \in Places : given[i] \in CASE called.args[i] = "object" -> {"object"}
                                       [] called.args[i] = "lent object" -> {"lent object", "null"}
                                       [] OTHER -> {called.args[i], "bad", "null"}
  /\ out \in IF called.answer = "tree" THEN {"none", "null", "C"} ELSE {"none", "null"}
  /\ passed' = given
  /\ ours' = [i \in Places |-> IF Owned(i, given[i]) THEN "forgotten" ELSE "none"]
  /\ outSlot' = out
  /\ step' = "called"
  /\ UNCHANGED <<called, caller, theirs, trees, reply, replyAt, spilled, status, settled>>

-----------------------------------------------------------------------------
(* The callee: dispatch.                                                   *)

IsTaken(i) == called.args[i] \in {"tree", "object"}
Refused(i) == passed[i] \in {"bad", "null"}

\* take_arg: a tree that cannot be read is freed by what reads it.
Took(i) ==
  IF ~IsTaken(i) \/ passed[i] = "null" THEN "none"
  ELSE IF passed[i] = "bad" THEN "dropped" ELSE "held"

\* Mutant of TakesAll: the first that cannot be read ends it.
TakesAllMutant ==
  [i \in Places |-> IF \E j \in 1 .. i - 1 : IsTaken(j) /\ Refused(j) THEN "none" ELSE Took(i)]

\* All that was handed over is taken before anything is refused.
TakesAll == [i \in Places |-> Took(i)]

\* Mutant of LetGoRead: only what was not yet moved into `read`.
LetGoReadMutant(held) ==
  [i \in Places |-> IF held[i] = "held" /\ \E j \in 1 .. i : ~IsTaken(j) THEN "dropped" ELSE held[i]]

\* A refusal drops what was taken.
LetGoRead(held) == [i \in Places |-> IF held[i] = "held" THEN "dropped" ELSE held[i]]

TakesArgs ==
  /\ step = "called"
  /\ IF \E i \in Places : IsTaken(i) /\ Refused(i)
     THEN theirs' = LetGoRead(TakesAll) /\ status' = "refused" /\ step' = "returned"
     ELSE theirs' = TakesAll /\ step' = "reads" /\ UNCHANGED status
  /\ UNCHANGED <<called, caller, passed, ours, trees, outSlot, reply, replyAt, spilled, settled>>

ReadsArgs ==
  /\ step = "reads"
  /\ IF \E i \in Places : Refused(i)
     THEN theirs' = LetGoRead(theirs) /\ status' = "refused" /\ step' = "returned"
     ELSE step' = "handler" /\ UNCHANGED <<theirs, status>>
  /\ UNCHANGED <<called, caller, passed, ours, trees, outSlot, reply, replyAt, spilled, settled>>

\* What the handler leaves of its arguments, and of the trees lent to it.
HandlerUses(kept, left) ==
  /\ theirs' = [i \in Places |-> IF theirs[i] # "held" THEN theirs[i]
                                 ELSE IF i \in kept THEN "kept" ELSE "dropped"]
  /\ trees' = [i \in Places |-> IF passed[i] = "lent tree" THEN left ELSE "home"]

\* Serve::call answers; or refuses, or panics, which `catch` makes a status.  An
\* Answer::Text is a String, whose memory no allocator of ours wipes.
HandlerAnswers(kept, left, what, in) ==
  /\ step = "handler"
  /\ what = "text" => in = "library"
  /\ HandlerUses(kept, left)
  /\ reply' = [what |-> what, in |-> in]
  /\ replyAt' = "handler"
  /\ step' = "writes"
  /\ UNCHANGED <<called, caller, passed, ours, outSlot, spilled, status, settled>>

\* Mutant of Refusing: the error's own status.
RefusingMutant(says) == says

\* answer: an error that says OK is not one.
Refusing(says) == IF says = "ok" THEN "internal" ELSE says

HandlerFails(kept, left, says) ==
  /\ step = "handler"
  /\ HandlerUses(kept, left)
  /\ status' = Refusing(says)
  /\ step' = "returned"
  /\ UNCHANGED <<called, caller, passed, ours, outSlot, reply, replyAt, spilled, settled>>

\* write_answer: what each answer may be made of.
MadeOf(answer) ==
  CASE answer = "scalar" -> {"scalar", "tree"}
    [] answer = "text" -> {"text", "tree"}
    [] answer = "tree" -> {"scalar", "text", "tree"}
    [] answer = "object" -> {"object"}
    [] answer = "nothing" -> {}

\* return_alloc_or: the allocator `out` carries, or this side's.
BuiltIn ==
  IF called.answer = "tree" /\ outSlot # "none" THEN outSlot
  ELSE IF called.sensitive THEN "library wiping" ELSE "library"

\* Mutant of Overwritten: a copy is made, and what was copied just freed.
OverwrittenMutant(what) == FALSE

\* Wipe::wipe of what a secret was copied out of, by write_answer and value_ret.
\* The String that a tree is made of is only freed.
Overwritten(what) == what = "text" => called.answer # "tree"

\* A copy out of an allocator that does not wipe leaves the secret there.
Spills(what, from, to) == called.sensitive /\ from # to /\ from \notin Wiping /\ ~Overwritten(what)

WritesAnswer(fits) ==
  /\ step = "writes"
  /\ IF called.answer # "nothing" /\ (reply.what \notin MadeOf(called.answer) \/ ~fits \/ outSlot = "null")
     THEN replyAt' = "freed" /\ status' = "refused" /\ UNCHANGED <<reply, spilled>>
     ELSE /\ replyAt' = IF called.answer = "nothing" THEN "freed" ELSE "out"
          /\ reply' = [what |-> called.answer, in |-> BuiltIn]
          /\ spilled' = IF called.answer \in {"text", "tree"} /\ Spills(reply.what, reply.in, BuiltIn)
                         THEN reply.what ELSE "none"
          /\ status' = "ok"
  /\ step' = "returned"
  /\ UNCHANGED <<called, caller, passed, ours, theirs, trees, outSlot, settled>>

-----------------------------------------------------------------------------
(* The caller, once the slot has returned.                                 *)

\* Mutant of GivenUp: what was handed over stays the caller's when refused.
GivenUpMutant == IF status = "ok" THEN "forgotten" ELSE "dropped"

\* Whatever the callee answered, what was handed over is its.
GivenUp == "forgotten"

\* lent_settle: all parts are moved home, but for memory; a key that is no text
\* is removed, and told.
SettleAll(memory) ==
  /\ step = "returned" /\ caller = "host"
  /\ ours' = [i \in Places |-> IF ours[i] = "pending" THEN GivenUp ELSE ours[i]]
  /\ trees' = [i \in Places |-> IF memory \/ trees[i] = "home" THEN "home" ELSE "mixed"]
  /\ settled' = (\A i \in Places : trees[i] = "home" \/ (trees[i] = "mixed" /\ memory))
  /\ step' = "settled"
  /\ UNCHANGED <<called, caller, passed, theirs, outSlot, reply, replyAt, spilled, status>>

\* What becomes of an answer the caller lets go of: `Out` frees what owns its
\* memory, and an ObjectRaw is not such a thing.
LetGoOut == IF called.answer = "object" THEN "lost" ELSE "freed"

\* Mutant of Received: the answer is kept where the callee built it.
ReceivedMutant == reply

\* into_answer: copied into this side's, if it is not there.
Received == [reply EXCEPT !.in = HomeOf]

\* The end of call_raw: an answer, if the trees are settled and it is sound; a
\* refusal forgets `out`, which nothing was written to.
TakesAnswer(sound) ==
  /\ step = "settled"
  /\ IF status = "ok" /\ settled /\ (sound \/ called.answer \in {"object", "scalar", "nothing"})
     THEN /\ replyAt' = IF replyAt = "out" THEN "caller" ELSE replyAt
          /\ reply' = IF called.answer \in {"text", "tree"} THEN Received ELSE reply
          /\ spilled' = IF called.answer \in {"text", "tree"} /\ Spills(reply.what, reply.in, HomeOf)
                         THEN reply.what ELSE spilled
     ELSE /\ replyAt' = IF replyAt # "out" THEN replyAt ELSE IF status = "ok" THEN LetGoOut ELSE "lost"
          /\ UNCHANGED <<reply, spilled>>
  /\ step' = "done"
  /\ UNCHANGED <<called, caller, passed, ours, theirs, trees, outSlot, status, settled>>

SlotCallNext ==
  \/ \E given \in [Places -> Sorts \cup {"bad", "null"}] :
       \/ \E b \in BOOLEAN : HostCalls(given, b) /\ \A i \in Places : given[i] # "null"
       \/ \E out \in {"none", "null", "C"} : CCalls(given, out)
  \/ TakesArgs \/ ReadsArgs
  \/ \E kept \in SUBSET Places, left \in {"home", "mixed", "bad key"} :
       \/ \E what \in {"nothing", "scalar", "text", "tree", "object"}, in \in {"library", "library wiping"} :
            HandlerAnswers(kept, left, what, in)
       \/ \E says \in {"ok", "refused"} : HandlerFails(kept, left, says)
  \/ \E b \in BOOLEAN : WritesAnswer(b) \/ SettleAll(b) \/ TakesAnswer(b)

-----------------------------------------------------------------------------
(* LentObject::share, and LentHandle.                                      *)

LendInit ==
  /\ lend = TRUE
  /\ lender = "in f"
  /\ reads = [t \in LendThreads |-> 0]
  /\ barred = {}

\* A call by the handle takes the read side; where the lender waits for the write
\* side, RwLock may make it wait too.
HandleCalls(t) ==
  /\ t \notin barred /\ reads[t] < MaxReads
  /\ \/ reads' = [reads EXCEPT ![t] = IF lend THEN @ + 1 ELSE @] /\ UNCHANGED barred
     \/ lender = "ends" /\ barred' = barred \cup {t} /\ UNCHANGED reads
  /\ UNCHANGED <<lend, lender>>

HandleWaited(t) ==
  /\ t \in barred /\ lender # "ends"
  /\ barred' = barred \ {t}
  /\ reads' = [reads EXCEPT ![t] = IF lend THEN @ + 1 ELSE @]
  /\ UNCHANGED <<lend, lender>>

HandleReturns(t) ==
  /\ t \notin barred /\ reads[t] > 0
  /\ reads' = [reads EXCEPT ![t] = @ - 1]
  /\ UNCHANGED <<lend, lender, barred>>

\* `f` is over: the lend ends once no call by the handle runs.
FReturns ==
  /\ lender = "in f"
  /\ lender' = "ends"
  /\ UNCHANGED <<lend, reads, barred>>

\* Mutant of WriteSide: the cell is emptied at once.
WriteSideMutant == TRUE

WriteSide == \A t \in LendThreads : reads[t] = 0

ShareReturns ==
  /\ lender = "ends"
  /\ WriteSide
  /\ lend' = FALSE
  /\ lender' = "returned"
  /\ UNCHANGED <<reads, barred>>

LendNext ==
  \/ \E t \in LendThreads : HandleCalls(t) \/ HandleWaited(t) \/ HandleReturns(t)
  \/ FReturns \/ ShareReturns

-----------------------------------------------------------------------------
(* What must hold.                                                         *)

Over == step = "done" \/ (step = "returned" /\ caller = "C")

\* Every argument handed over is let go of once, by the caller where the call was
\* never made, by the callee where it was, however it then failed (runtime.rs
\* 1039-1055, 1828-1854).
HandedOnce ==
  \A i \in Places : Owned(i, passed[i]) =>
    /\ ours[i] = "dropped" => theirs[i] = "none"
    /\ Over => ours[i] = "dropped" \/ theirs[i] \in {"dropped", "kept"}

\* A slot says OK exactly where it has written its answer, so a caller reads none
\* that is not there and forgets none that is; one it has is its own or is freed
\* (runtime.rs 1105-1108, 1856-1869).  An object is lost where a tree lent to the
\* same call could not be settled: its ObjectRaw is dropped and its destroy never
\* called.
AnswerIsNotLost ==
  /\ step = "returned" /\ called.answer # "nothing" => (replyAt = "out" <=> status = "ok")
  /\ replyAt = "lost" => called.answer = "object" /\ ~settled

\* What the caller has after the call is in its own allocators, so the library may
\* be unloaded: the answer, and every tree it lent unless it had no memory for
\* what was put in it (shim.rs 220-226, 669-678).
NothingForeignLeft ==
  step = "done" =>
    /\ replyAt = "caller" /\ called.answer \in {"text", "tree"} => reply.in = HomeOf
    /\ \A i \in Places : trees[i] = "home" \/ ~settled

\* A sensitive answer the caller gets was overwritten wherever it has been on its
\* way, and is where it will be again (runtime.rs 1209-1240, 1973-1976).  But the
\* String of a text answered for a tree is freed as it is (runtime.rs 1278).
SecretIsWiped ==
  replyAt = "caller" /\ called.sensitive /\ called.answer \in {"text", "tree"} =>
    /\ spilled # "none" => spilled = "text" /\ called.answer = "tree"
    /\ reply.in \in Wiping

\* A call by a lent object's handle runs only while the lender waits for it
\* (runtime.rs 1419-1424, 1455-1471).
LendOutlastsCalls == (\E t \in LendThreads : reads[t] > 0) => lend /\ lender # "returned"

\* A slot's arguments and answers are handed on exactly, and lent objects called
\* only while they are lent.
SlotCallsAreExact ==
  HandedOnce /\ AnswerIsNotLost /\ NothingForeignLeft /\ SecretIsWiped /\ LendOutlastsCalls

\* Objects are entered by one call at a time, and what calls hand over, lend and
\* answer is owned and at home once they are over.
ObjectsAreGuarded == EntryIsGuarded /\ SlotCallsAreExact
=============================================================================
