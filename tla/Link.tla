-------------------------------- MODULE Link --------------------------------
(***************************************************************************)
(* The two ends of a link (link/mod.rs): calls that nest in both           *)
(* directions, the objects they hand over, lend, give back and answer,     *)
(* cancelling, refusing, releasing, and the link's end.                    *)
(*                                                                         *)
(* Both ends run the same code.  A call is made by one side, its parent is *)
(* the peer's call running on the thread that makes it; it runs on the     *)
(* peer, on a pool thread or, when it has a parent, on the thread waiting  *)
(* for that parent.  An object is named by the call that first carried it. *)
(*                                                                         *)
(* Each critical section of Inner.state is one action.  The gate is the    *)
(* ordered outbox that Gate implements: a side's frames are in the gate or *)
(* on the transport in one order, and which of them have been written is   *)
(* settled when somebody can tell.  The pool is its count of places, which *)
(* a LIST or an OPEN takes as a call does; either is a call of no parent,  *)
(* on the peer's catalog.  Only the client calls tables and asks: a host   *)
(* serves nothing but its objects.                                         *)
(***************************************************************************)
EXTENDS Naturals, Sequences, FiniteSets

CONSTANTS
  Client, Server,
  Calls,      \* bound: the calls that are made, 1 .. n, numbered as made
  Limit,      \* max_calls, of either side
  MaxQueued,  \* MAX_QUEUED
  MaxDepth,   \* MAX_DEPTH
  Timeouts,   \* whether calls have a timeout
  Ends,       \* whether the link may end
  Oversize,   \* whether a call may not encode (a body over max_frame)
  Starves,    \* whether the pool may fail to start a thread
  Requests,   \* bound: the calls that may be a LIST or an OPEN
  Passes,     \* what calls pass: a subset of PassKinds
  Answers     \* what they answer: a subset of AnswerKinds

Sides == {Client, Server}
Peer(s) == IF s = Client THEN Server ELSE Client
PassKinds == {"nothing", "new", "lent", "back"}
AnswerKinds == {"ok", "object", "error"}

ASSUME LinkAssumption ==
  /\ Client # Server
  /\ IsFiniteSet(Calls) /\ Calls = 1 .. Cardinality(Calls)
  /\ Limit \in Nat \ {0}
  /\ MaxQueued \in Nat
  /\ MaxDepth \in Nat
  /\ {Timeouts, Ends, Oversize, Starves} \subseteq BOOLEAN
  /\ Requests \subseteq Calls
  /\ Passes \subseteq PassKinds
  /\ Answers \subseteq AnswerKinds

VARIABLES
  alive,    \* State.alive of each side
  call,     \* what each call is: who made it, its parent, target, object
  at,       \* where its caller is
  run,      \* where its run on the peer is
  flag,     \* State.running: whether a running call was cancelled
  answer,   \* what a call that has run is to answer
  mail,     \* the mailbox its caller waits on
  late,     \* State.cancelled of each side
  exports,  \* State.exports of each side
  handles,  \* the handles each side's program has on the peer's objects
  wire,     \* frames each side has sent and the peer has not read
  written   \* how many of them, oldest first, are known to have left the gate

vars == <<alive, call, at, run, flag, answer, mail, late, exports, handles, wire, written>>

Table == <<"table">>
Catalog == <<"catalog">>
NoObject == <<"none">>
Arg(c) == <<"arg", c>>
Ans(c) == <<"ans", c>>
Objects == {Arg(c) : c \in Calls} \cup {Ans(c) : c \in Calls}

Unmade == [side |-> Client, parent |-> 0, target |-> Table, pass |-> "nothing",
           object |-> NoObject, level |-> 0]

CallFrame(c) == [kind |-> "call", call |-> c]
Reply(c, status) == [kind |-> "reply", call |-> c, status |-> status]
Cancel(c) == [kind |-> "cancel", call |-> c]
Release(o) == [kind |-> "release", object |-> o]
Goodbye == [kind |-> "goodbye"]
Gone == [kind |-> "gone"]

Init ==
  /\ alive = [s \in Sides |-> TRUE]
  /\ call = [c \in Calls |-> Unmade]
  /\ at = [c \in Calls |-> "unmade"]
  /\ run = [c \in Calls |-> "none"]
  /\ flag = [c \in Calls |-> FALSE]
  /\ answer = [c \in Calls |-> "ok"]
  /\ mail = [c \in Calls |-> <<>>]
  /\ late = [s \in Sides |-> {}]
  /\ exports = [s \in Sides |-> {}]
  /\ handles = [s \in Sides |-> {}]
  /\ wire = [s \in Sides |-> <<>>]
  /\ written = [s \in Sides |-> 0]

-----------------------------------------------------------------------------
(* Threads.  A thread is named by the calls on its stack.                  *)

\* The caller is inside Inner::call.
Active(c) == at[c] \in {"sending", "waiting", "timedout"}

\* The thread running c is not inside a call of its own.
RunnerFree(c) == \A d \in Calls : Active(d) => call[d].parent # c

\* The thread waiting for c is not running a call made during it.
WaiterFree(c) ==
  \A d \in Calls : run[d] \in {"running", "replying"} => call[d].parent # c

\* How many of the peer's calls run on the thread that runs c (RUNNING).
RunDepth(c) == IF call[c].parent = 0 THEN 0 ELSE call[call[c].parent].level

\* c is a LIST or an OPEN: no permit is waited for, no cancel marks it.
Asks(c) == call[c].target = Catalog

\* Permits: the side's calls in flight made during none.
InFlight(s) ==
  {d \in Calls : Active(d) /\ call[d].side = s /\ call[d].parent = 0 /\ ~Asks(d)}

\* State.running has an entry for call c.
Running(c) == run[c] = "running" /\ ~Asks(c)

\* Pool: what has a place on side s, the peer's calls, LISTs and OPENs.
Placed(s) ==
  {d \in Calls : run[d] \in {"pool", "running"} /\ call[d].side # s /\ call[d].parent = 0}

\* Pool::run: what a job is refused for, "none" if it is taken: every place is
\* taken, or the thread it needs does not start.
PoolRefusals(s) ==
  IF Cardinality(Placed(s)) >= Limit THEN {"busy"}
  ELSE IF Starves THEN {"none", "starved"}
  ELSE {"none"}

\* A handle a call is being made on is borrowed by it.
InUse(o) == \E d \in Calls : Active(d) /\ call[d].target = o

\* The mailbox of c is in State.calls.
Registered(c) == at[c] \in {"waiting", "timedout"}

\* Gate::send, refused once the gate is closed.
Sent(s, frames) == IF alive[s] THEN [wire EXCEPT ![s] = @ \o frames] ELSE wire

\* What is held for a call's lent object ends with the call (lending).
Unlent(c) ==
  [exports EXCEPT ![call[c].side] =
     IF call[c].pass = "lent" THEN @ \ {call[c].object} ELSE @]

-----------------------------------------------------------------------------
(* A call, on the side that makes it.                                      *)

\* What a thread of side s running call q (0: none) may call.
Targets(s, q) ==
  {o \in handles[s] : ~InUse(o)}
  \cup (IF s = Client THEN {Table} ELSE {})
  \cup (IF q # 0 /\ call[q].pass = "lent" THEN {call[q].object} ELSE {})

\* What call c may pass in the given way.
Passable(c, s, target, pass) ==
  CASE pass = "nothing" -> {NoObject}
    [] pass \in {"new", "lent"} -> {Arg(c)}
    [] pass = "back" -> {o \in handles[s] \ {target} : ~InUse(o)}

\* Mutant of Make: no permit is waited for.
MakeMutant(c, s, q) ==
  /\ at[c] = "unmade"
  /\ \A d \in Calls : d < c => at[d] # "unmade"
  /\ alive[s]
  /\ q # 0 => Running(q) /\ call[q].side # s /\ RunnerFree(q)
  /\ \E target \in Targets(s, q) :
       call' = [call EXCEPT ![c] =
         [side |-> s, parent |-> q, target |-> target, pass |-> "nothing",
          object |-> NoObject, level |-> IF q = 0 THEN 0 ELSE RunDepth(q) + 1]]
  /\ at' = [at EXCEPT ![c] = "sending"]
  /\ UNCHANGED <<alive, run, flag, answer, mail, late, exports, handles, wire, written>>

\* Inner::call up to exchange: the permit, and the objects it passes.
Make(c, s, q) ==
  /\ at[c] = "unmade"
  /\ \A d \in Calls : d < c => at[d] # "unmade"
  /\ alive[s]
  /\ IF q = 0
       THEN Cardinality(InFlight(s)) < Limit
       ELSE Running(q) /\ call[q].side # s /\ RunnerFree(q)
  /\ \E target \in Targets(s, q), pass \in Passes :
       \E object \in Passable(c, s, target, pass) :
         /\ call' = [call EXCEPT ![c] =
              [side |-> s, parent |-> q, target |-> target, pass |-> pass,
               object |-> object, level |-> IF q = 0 THEN 0 ELSE RunDepth(q) + 1]]
         /\ exports' = [exports EXCEPT ![s] =
              IF pass \in {"new", "lent"} THEN @ \cup {object} ELSE @]
         /\ handles' = [handles EXCEPT ![s] = @ \ (IF pass = "back" THEN {object} ELSE {})]
  /\ at' = [at EXCEPT ![c] = "sending"]
  /\ UNCHANGED <<alive, run, flag, answer, mail, late, wire, written>>

\* Inner::request: a LIST or an OPEN, whatever the calls in flight.
Ask(c) ==
  /\ c \in Requests
  /\ at[c] = "unmade"
  /\ \A d \in Calls : d < c => at[d] # "unmade"
  /\ alive[Client]
  /\ call' = [call EXCEPT ![c] =
       [side |-> Client, parent |-> 0, target |-> Catalog, pass |-> "nothing",
        object |-> NoObject, level |-> 0]]
  /\ at' = [at EXCEPT ![c] = "sending"]
  /\ UNCHANGED <<alive, run, flag, answer, mail, late, exports, handles, wire, written>>

\* exchange, request: the mailbox is registered and the frame goes to the gate.
Send(c) ==
  /\ at[c] = "sending"
  /\ alive[call[c].side]
  /\ at' = [at EXCEPT ![c] = "waiting"]
  /\ wire' = Sent(call[c].side, <<CallFrame(c)>>)
  /\ UNCHANGED <<alive, call, run, flag, answer, mail, late, exports, handles, written>>

\* exchange: never sent, since it does not encode or the link has ended;
\* what it handed, of this side's, is dropped.
Unsent(c) ==
  /\ at[c] = "sending"
  /\ ~alive[call[c].side] \/ (Oversize /\ ~Asks(c))
  /\ at' = [at EXCEPT ![c] = "done"]
  /\ exports' = [exports EXCEPT ![call[c].side] = @ \ {Arg(c)}]
  /\ UNCHANGED <<alive, call, run, flag, answer, mail, late, handles, wire, written>>

\* wait: the answer, or GONE at the link's end; an answered object becomes a
\* handle.
TakeReply(c) ==
  /\ at[c] = "waiting"
  /\ WaiterFree(c)
  /\ mail[c] # <<>>
  /\ Head(mail[c]).kind \in {"reply", "gone"}
  /\ at' = [at EXCEPT ![c] = "done"]
  /\ mail' = [mail EXCEPT ![c] = <<>>]
  /\ handles' = [handles EXCEPT ![call[c].side] =
       IF Head(mail[c]) = Reply(c, "object") THEN @ \cup {Ans(c)} ELSE @]
  /\ exports' = Unlent(c)
  /\ UNCHANGED <<alive, call, run, flag, answer, late, wire, written>>

\* wait: recv_timeout finds nothing by the deadline.
TimeOut(c) ==
  /\ Timeouts
  /\ at[c] = "waiting"
  /\ WaiterFree(c)
  /\ mail[c] = <<>>
  /\ at' = [at EXCEPT ![c] = "timedout"]
  /\ UNCHANGED <<alive, call, run, flag, answer, mail, late, exports, handles, wire, written>>

\* Where the frame of call c is among its side's, 0 if the peer has read it.
Position(c) ==
  LET frames == wire[call[c].side]
      places == {i \in 1 .. Len(frames) : frames[i] = CallFrame(c)}
  IN IF places = {} THEN 0 ELSE CHOOSE i \in places : TRUE

\* cancel, then wait's return: the mailbox goes with what is in it, the call
\* is remembered for its late answer, unless it is a LIST or an OPEN.
Forget(c) ==
  /\ at[c] = "timedout"
  /\ at' = [at EXCEPT ![c] = "done"]
  /\ mail' = [mail EXCEPT ![c] = <<>>]
  /\ late' = [late EXCEPT ![call[c].side] = IF Asks(c) THEN @ ELSE @ \cup {c}]
  /\ exports' = Unlent(c)
  /\ UNCHANGED <<alive, call, run, flag, answer, handles>>

\* cancel: the frame is still in the gate and is taken back.
Retract(c) ==
  LET s == call[c].side
  IN
  /\ Forget(c)
  /\ Position(c) > written[s]
  /\ wire' = [wire EXCEPT ![s] =
       SubSeq(@, 1, Position(c) - 1) \o SubSeq(@, Position(c) + 1, Len(@))]
  /\ UNCHANGED written

\* cancel: the frame has been written, and with it all before it; a CANCEL
\* follows it.
SendCancel(c) ==
  LET s == call[c].side
  IN
  /\ Forget(c)
  /\ wire' = Sent(s, <<Cancel(c)>>)
  /\ written' = [written EXCEPT ![s] = IF Position(c) > @ THEN Position(c) ELSE @]

\* Mutant of DropHandle: RELEASE is sent while a call on the object is open.
DropHandleMutant(s, o) ==
  /\ o \in handles[s]
  /\ wire' = Sent(s, <<Release(o)>>)
  /\ UNCHANGED <<alive, call, at, run, flag, answer, mail, late, exports, handles, written>>

\* The program drops a handle: ProxyServe::destroy, Inner::release.
DropHandle(s, o) ==
  /\ o \in handles[s]
  /\ ~InUse(o)
  /\ handles' = [handles EXCEPT ![s] = @ \ {o}]
  /\ wire' = Sent(s, <<Release(o)>>)
  /\ UNCHANGED <<alive, call, at, run, flag, answer, mail, late, exports, written>>

-----------------------------------------------------------------------------
(* A call, on the side that runs it.                                       *)

\* let_go_handed: what a call refused before running handed over.  Without
\* the target's kind the arguments cannot be read.
Readable(s, c) == call[c].target = Table \/ call[c].target \in exports[s]

LetGoExports(s, c) ==
  [exports EXCEPT ![s] =
     IF Readable(s, c) /\ call[c].pass = "back" THEN @ \ {call[c].object} ELSE @]

\* Mutant of RefusalFrames: the refusal alone.
RefusalFramesMutant(s, c, status) == <<Reply(c, status)>>

\* Mutant of RefusalFrames: what was handed is let go, and nothing answered.
RefusalFramesSilent(s, c, status) ==
  IF Readable(s, c) /\ call[c].pass = "new" THEN <<Release(call[c].object)>> ELSE <<>>

\* let_go_handed and refuse, as frames.
RefusalFrames(s, c, status) ==
  (IF Readable(s, c) /\ call[c].pass = "new" THEN <<Release(call[c].object)>> ELSE <<>>)
    \o <<Reply(c, status)>>

\* What run_inbound and serve refuse a call with before it runs, if anything.
Refusal(s, c) ==
  IF Asks(c) THEN "none"
  ELSE IF RunDepth(c) >= MaxDepth THEN "deep"
  ELSE IF call[c].target # Table /\ call[c].target \notin exports[s] THEN "letgo"
  ELSE IF call[c].pass = "back" /\ call[c].object \notin exports[s] THEN "letgo"
  ELSE "none"

\* run_inbound and serve up to the call itself: the target is found, and what
\* was handed over becomes a handle or comes back as itself.
Begin(c) ==
  LET s == Peer(call[c].side)
  IN
  IF Refusal(s, c) # "none"
    THEN /\ exports' = LetGoExports(s, c)
         /\ wire' = Sent(s, RefusalFrames(s, c, Refusal(s, c)))
         /\ run' = [run EXCEPT ![c] = "over"]
         /\ UNCHANGED handles
    ELSE /\ run' = [run EXCEPT ![c] = "running"]
         /\ handles' = [handles EXCEPT ![s] =
              IF call[c].pass = "new" THEN @ \cup {call[c].object} ELSE @]
         /\ exports' = [exports EXCEPT ![s] =
              IF call[c].pass = "back" THEN @ \ {call[c].object} ELSE @]
         /\ UNCHANGED wire

\* A pool thread takes the call.
BeginOnPool(c) ==
  /\ run[c] = "pool"
  /\ Begin(c)
  /\ UNCHANGED <<alive, call, at, flag, answer, mail, late, written>>

\* wait: the thread waiting for the parent p takes the call made during it.
BeginInWait(p) ==
  /\ at[p] = "waiting"
  /\ WaiterFree(p)
  /\ mail[p] # <<>>
  /\ Head(mail[p]).kind = "call"
  /\ mail' = [mail EXCEPT ![p] = Tail(@)]
  /\ Begin(Head(mail[p]).call)
  /\ UNCHANGED <<alive, call, at, flag, answer, late, written>>

\* serve's end: an answered object is held for the peer; a cancelled call
\* answers nothing and drops it.  answer_list's and answer_open's: no object.
\* The place is given back.
Finish(c, what) ==
  LET s == Peer(call[c].side)
      held == what = "object" /\ alive[s]
  IN
  /\ run[c] = "running"
  /\ RunnerFree(c)
  /\ Asks(c) => what # "object"
  /\ run' = [run EXCEPT ![c] = IF flag[c] THEN "over" ELSE "replying"]
  /\ answer' = [answer EXCEPT ![c] = IF what = "object" /\ ~held THEN "error" ELSE what]
  /\ exports' = [exports EXCEPT ![s] = IF held /\ ~flag[c] THEN @ \cup {Ans(c)} ELSE @]
  /\ UNCHANGED <<alive, call, at, flag, mail, late, handles, wire, written>>

\* run_inbound, answer_list, answer_open: the answer goes.
Answer(c) ==
  /\ run[c] = "replying"
  /\ run' = [run EXCEPT ![c] = "over"]
  /\ wire' = Sent(Peer(call[c].side), <<Reply(c, answer[c])>>)
  /\ UNCHANGED <<alive, call, at, flag, answer, mail, late, exports, handles, written>>

-----------------------------------------------------------------------------
(* The reader thread and the link's end.                                   *)

\* The next frame for side s is of the given kind.
Arrived(s, kind) == alive[s] /\ wire[Peer(s)] # <<>> /\ Head(wire[Peer(s)]).kind = kind

\* read_loop takes it, and sends some frames for it.
Reads(s, frames) ==
  /\ wire' = [wire EXCEPT ![Peer(s)] = Tail(@), ![s] = @ \o frames]
  /\ written' = [written EXCEPT ![Peer(s)] = IF @ = 0 THEN 0 ELSE @ - 1]

\* route: a call made during none, a LIST or an OPEN goes to the pool, or is
\* refused.
RouteCall(s) ==
  LET c == Head(wire[Peer(s)]).call
  IN
  /\ Arrived(s, "call")
  /\ call[c].parent = 0
  /\ \E why \in PoolRefusals(s) :
       /\ Reads(s, IF why = "none" THEN <<>> ELSE RefusalFrames(s, c, why))
       /\ run' = [run EXCEPT ![c] = IF why = "none" THEN "pool" ELSE "over"]
       /\ exports' = IF why = "none" THEN exports ELSE LetGoExports(s, c)
  /\ UNCHANGED <<alive, call, at, flag, answer, mail, late, handles>>

\* route: a call made during one of this side's goes to its mailbox, or is
\* refused when that is full or gone.
RouteNested(s) ==
  LET c == Head(wire[Peer(s)]).call
      p == call[c].parent
      queued == Cardinality({i \in 1 .. Len(mail[p]) : mail[p][i].kind = "call"})
      taken == Registered(p) /\ queued < MaxQueued
  IN
  /\ Arrived(s, "call")
  /\ p # 0
  /\ Reads(s, IF taken THEN <<>>
       ELSE RefusalFrames(s, c, IF Registered(p) THEN "queue" ELSE "returned"))
  /\ mail' = [mail EXCEPT ![p] = IF taken THEN Append(@, CallFrame(c)) ELSE @]
  /\ run' = [run EXCEPT ![c] = IF taken THEN @ ELSE "over"]
  /\ exports' = IF taken THEN exports ELSE LetGoExports(s, c)
  /\ UNCHANGED <<alive, call, at, flag, answer, late, handles>>

\* Mutant of RouteReply: the reply is kept for a call nobody waits for.
RouteReplyMutant(s) ==
  LET f == Head(wire[Peer(s)])
  IN
  /\ Arrived(s, "reply")
  /\ Reads(s, <<>>)
  /\ mail' = [mail EXCEPT ![f.call] = Append(@, f)]
  /\ UNCHANGED <<alive, call, at, run, flag, answer, late, exports, handles>>

\* route: a reply goes to the mailbox; one to a cancelled call is settled
\* (settle_cancelled), an object in it released.
RouteReply(s) ==
  LET f == Head(wire[Peer(s)])
      c == f.call
  IN
  /\ Arrived(s, "reply")
  /\ Reads(s, IF ~Registered(c) /\ c \in late[s] /\ f.status = "object"
                         THEN <<Release(Ans(c))>> ELSE <<>>)
  /\ mail' = [mail EXCEPT ![c] = IF Registered(c) THEN Append(@, f) ELSE @]
  /\ late' = [late EXCEPT ![s] = @ \ {c}]
  /\ UNCHANGED <<alive, call, at, run, flag, answer, exports, handles>>

\* route: CANCEL marks a call that is running.
RouteCancel(s) ==
  LET c == Head(wire[Peer(s)]).call
  IN
  /\ Arrived(s, "cancel")
  /\ Reads(s, <<>>)
  /\ flag' = [flag EXCEPT ![c] = @ \/ Running(c)]
  /\ UNCHANGED <<alive, call, at, run, answer, mail, late, exports, handles>>

\* route: RELEASE (unexport).
RouteRelease(s) ==
  /\ Arrived(s, "release")
  /\ Reads(s, <<>>)
  /\ exports' = [exports EXCEPT ![s] = @ \ {Head(wire[Peer(s)]).object}]
  /\ UNCHANGED <<alive, call, at, run, flag, answer, mail, late, handles>>

\* Mutant of End: only the calls are told.
EndMutant(s) ==
  /\ alive' = [alive EXCEPT ![s] = FALSE]
  /\ mail' = [c \in Calls |->
       IF Registered(c) /\ call[c].side = s THEN Append(mail[c], Gone) ELSE mail[c]]
  /\ UNCHANGED <<call, at, run, flag, late, exports, answer, handles>>

\* Mutant of End: the calls waiting are not told.
EndSilent(s) ==
  /\ alive' = [alive EXCEPT ![s] = FALSE]
  /\ late' = [late EXCEPT ![s] = {}]
  /\ flag' = [c \in Calls |-> flag[c] \/ (Running(c) /\ call[c].side # s)]
  /\ exports' = [exports EXCEPT ![s] = {}]
  /\ UNCHANGED <<call, at, run, answer, mail, handles>>

\* Inner::end, on whichever thread notices first: every call waiting hears
\* GONE, every call running is cancelled, every object held is dropped.
End(s) ==
  /\ alive' = [alive EXCEPT ![s] = FALSE]
  /\ late' = [late EXCEPT ![s] = {}]
  /\ flag' = [c \in Calls |-> flag[c] \/ (Running(c) /\ call[c].side # s)]
  /\ mail' = [c \in Calls |->
       IF Registered(c) /\ call[c].side = s THEN Append(mail[c], Gone) ELSE mail[c]]
  /\ exports' = [exports EXCEPT ![s] = {}]
  /\ UNCHANGED <<call, at, run, answer, handles>>

\* route: GOODBYE.
RouteGoodbye(s) == Arrived(s, "goodbye") /\ Reads(s, <<>>) /\ End(s)

\* close_from_here: GOODBYE, then the end.
CloseFromHere(s) ==
  /\ Ends
  /\ alive[s]
  /\ End(s)
  /\ wire' = Sent(s, <<Goodbye>>)
  /\ UNCHANGED written

\* A read or a write fails: what is not yet written may be lost.
LinkFails(s) ==
  /\ Ends
  /\ alive[s]
  /\ End(s)
  /\ \E k \in written[s] .. Len(wire[s]) : wire' = [wire EXCEPT ![s] = SubSeq(@, 1, k)]
  /\ UNCHANGED written

\* read_loop finds the peer's end closed.
PeerClosed(s) ==
  /\ alive[s]
  /\ ~alive[Peer(s)]
  /\ wire[Peer(s)] = <<>>
  /\ End(s)
  /\ UNCHANGED <<wire, written>>

-----------------------------------------------------------------------------
\* What the two programs do on their own.
Program ==
  \/ \E c \in Calls, s \in Sides, q \in Calls \cup {0} : Make(c, s, q)
  \/ \E c \in Calls : Ask(c)
  \/ \E s \in Sides : \E o \in handles[s] : DropHandle(s, o)

\* The thread making call c, once begun.
CallerSteps(c) ==
  Send(c) \/ Unsent(c) \/ TakeReply(c) \/ BeginInWait(c) \/ Retract(c) \/ SendCancel(c)

\* The thread running call c; every provider's function returns.
RunnerSteps(c) == BeginOnPool(c) \/ (\E what \in Answers : Finish(c, what)) \/ Answer(c)

\* The reader thread of side s.
ReaderSteps(s) ==
  \/ RouteCall(s) \/ RouteNested(s) \/ RouteReply(s) \/ RouteCancel(s)
  \/ RouteRelease(s) \/ RouteGoodbye(s) \/ PeerClosed(s)

Next ==
  \/ Program
  \/ \E c \in Calls : CallerSteps(c) \/ RunnerSteps(c) \/ TimeOut(c)
  \/ \E s \in Sides : ReaderSteps(s) \/ CloseFromHere(s) \/ LinkFails(s)

\* A thread in a call goes on, provider functions return, the readers read
\* and the gates write.  Nothing makes a program call, or the link end.
Fairness ==
  /\ \A c \in Calls : WF_vars(CallerSteps(c)) /\ WF_vars(RunnerSteps(c))
  /\ \A s \in Sides : WF_vars(ReaderSteps(s))

Spec == Init /\ [][Next]_vars /\ Fairness

-----------------------------------------------------------------------------
(* Properties.                                                             *)

Refusals == {"busy", "starved", "deep", "queue", "returned", "letgo"}

Frames ==
  {CallFrame(c) : c \in Calls} \cup {Cancel(c) : c \in Calls}
  \cup {Reply(c, status) : c \in Calls, status \in AnswerKinds \cup Refusals}
  \cup {Release(o) : o \in Objects} \cup {Goodbye}

TypeOK ==
  /\ alive \in [Sides -> BOOLEAN]
  /\ call \in [Calls -> [side : Sides, parent : Calls \cup {0},
                         target : Objects \cup {Table, Catalog}, pass : PassKinds,
                         object : Objects \cup {NoObject}, level : Nat]]
  /\ at \in [Calls -> {"unmade", "sending", "waiting", "timedout", "done"}]
  /\ run \in [Calls -> {"none", "pool", "running", "replying", "over"}]
  /\ flag \in [Calls -> BOOLEAN]
  /\ answer \in [Calls -> AnswerKinds]
  /\ mail \in [Calls -> Seq(Frames \cup {Gone})]
  /\ late \in [Sides -> SUBSET Calls]
  /\ exports \in [Sides -> SUBSET Objects]
  /\ handles \in [Sides -> SUBSET Objects]
  /\ wire \in [Sides -> Seq(Frames)]
  /\ written \in [Sides -> Nat]
  /\ \A s \in Sides : written[s] <= Len(wire[s])
  /\ \A c \in Calls : mail[c] # <<>> => Registered(c)

In(f, frames) == \E i \in 1 .. Len(frames) : frames[i] = f

\* A frame of side s is in its gate or on its way.
UnderWay(s, f) == In(f, wire[s])

\* Both sides are up.
Up == alive[Client] /\ alive[Server]

\* While the link lasts, every handle names an object still held for it:
\* nothing is let go early, whatever is cancelled, refused or given back.
HandlesAreHeld ==
  Up =>
    \A s \in Sides : handles[s] \subseteq exports[Peer(s)]

\* Nobody still waiting is told its object has been let go, though pool
\* threads start calls in any order and RELEASE overtakes a call not yet
\* begun; unless the object was lent for a call that timed out.
NoUseAfterRelease ==
  \A c \in Calls :
    (at[c] = "waiting" /\ In(Reply(c, "letgo"), mail[c]))
      => \E d \in Calls : /\ call[d].pass = "lent"
                          /\ call[d].object \in {call[c].target, call[c].object}
                          /\ at[d] = "done"

\* A side that keeps to the peer's max_calls is not refused for its calls: one
\* counts until its answer is sent, so a caller may call again the moment it has
\* an answer, and whenever a call reaches the peer its calls leave it a place.
\* Only LISTs and OPENs, which take places and wait for no permit, can leave
\* none: a side that asks nothing is never refused.
NeverTooBusy ==
  \A c \in Calls :
    /\ UnderWay(call[c].side, CallFrame(c)) /\ call[c].parent = 0 /\ ~Asks(c) =>
         Cardinality({d \in Placed(Peer(call[c].side)) : ~Asks(d)}) < Limit
    /\ \A s \in Sides : UnderWay(s, Reply(c, "busy")) =>
         \E d \in Calls : Asks(d) /\ call[d].side = Peer(s)

\* The frame of call c, or c itself, has yet to be begun by the peer.
Travels(c) ==
  \/ at[c] = "sending"
  \/ UnderWay(call[c].side, CallFrame(c))
  \/ run[c] = "pool"
  \/ call[c].parent # 0 /\ In(CallFrame(c), mail[call[c].parent])

\* Something will let go what side s holds as object o.
Accounted(s, o) ==
  \/ o \in handles[Peer(s)]
  \/ UnderWay(Peer(s), Release(o))
  \/ \E c \in Calls :
       \/ call[c].object = o /\ call[c].pass \in {"new", "back"} /\ Travels(c)
       \/ call[c].object = o /\ call[c].pass = "lent" /\ Active(c)
       \/ /\ o = Ans(c)
          /\ \/ run[c] = "replying"
             \/ UnderWay(s, Reply(c, "object"))
             \/ Registered(c) /\ In(Reply(c, "object"), mail[c])

\* No object is held that nobody will let go before the link ends.
EveryObjectAccounted ==
  Up =>
    \A s \in Sides : \A o \in exports[s] : Accounted(s, o)

\* While the link lasts, nobody waits for an answer that will never come:
\* a call waited for is on its way, runs, or its answer is on its way.
AnswerIsComing ==
  Up => \A c \in Calls : at[c] = "waiting" =>
    \/ Travels(c)
    \/ run[c] \in {"running", "replying"}
    \/ \E status \in AnswerKinds \cup Refusals :
         UnderWay(Peer(call[c].side), Reply(c, status)) \/ In(Reply(c, status), mail[c])

\* A side that has ended holds nothing for the peer, and no call on it waits
\* for what will not come: it has something to take or runs a nested call.
EndIsClean ==
  \A s \in Sides : ~alive[s] =>
    /\ exports[s] = {}
    /\ \A c \in Calls :
         call[c].side = s /\ at[c] = "waiting" /\ WaiterFree(c) => mail[c] # <<>>

\* Every call returns, however calls nest and share threads, places and
\* permits, and whether the link lasts or ends.
EveryCallReturns == \A c \in Calls : at[c] = "sending" ~> at[c] = "done"

\* Objects are held for as long as the peer may use them, and no longer.
ObjectsAreKept == HandlesAreHeld /\ EveryObjectAccounted

\* Calls leave each other room, and none is left without its answer.
CallsAreAnswered == NeverTooBusy /\ AnswerIsComing

\* Timeouts, oversize answers and the link's end leave nobody waiting, nothing
\* held, and no object let go while it is used.
EndLeavesNothing == TypeOK /\ EndIsClean /\ NoUseAfterRelease
=============================================================================
