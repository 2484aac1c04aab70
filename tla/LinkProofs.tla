----------------------------- MODULE LinkProofs -----------------------------
(***************************************************************************)
(* Theorems of Link.                                                       *)
(*                                                                         *)
(* The gates and mailboxes are sequences, but no property of a link is     *)
(* about their order: every fact here is about which frames are under way  *)
(* and which are in mail.  So the proof has three layers.  The invariant   *)
(* LinkInv says where a request, an answer, a cancel and an object can be, *)
(* over those sets; Step says what each action does to them, and every     *)
(* part of LinkInv is shown to be kept by Step; and each action of Link is *)
(* shown to be such a step, from lemmas about what appending to, taking    *)
(* from and cutting a sequence without repetitions do to its set.          *)
(*                                                                         *)
(* The part that carries the others is HasOne: at most one thing at a time *)
(* stands for an object with the peer of the side that holds it, a handle, *)
(* a RELEASE on its way, a call that hands it over or back, or an answer.  *)
(***************************************************************************)
EXTENDS Link, FiniteSetTheorems, SequenceTheorems, TLAPS

Mailed(p, f) == In(f, mail[p])

\* No frame comes twice.
Injective(q) == \A i, j \in 1 .. Len(q) : q[i] = q[j] => i = j

\* What putting sequences together, taking the first away, cutting them short and
\* taking one out do to the frames in them.
LEMMA InBoth ==
  ASSUME NEW S, NEW q \in Seq(S), NEW r \in Seq(S)
  PROVE  /\ q \o r \in Seq(S)
         /\ Len(q \o r) = Len(q) + Len(r)
         /\ \A f : In(f, q \o r) <=> In(f, q) \/ In(f, r)
<1>1. q \o r \in Seq(S) /\ Len(q \o r) = Len(q) + Len(r) /\ Len(q) \in Nat /\ Len(r) \in Nat
  OBVIOUS
<1>2. ASSUME NEW f, In(f, q) PROVE In(f, q \o r)
  BY <1>1, <1>2 DEF In
<1>3. ASSUME NEW f, In(f, r) PROVE In(f, q \o r)
  <2>1. PICK i \in 1 .. Len(r) : r[i] = f
    BY <1>3 DEF In
  <2>2. i + Len(q) \in 1 .. Len(q \o r) /\ (q \o r)[i + Len(q)] = f
    BY <1>1, <2>1
  <2> QED BY <2>2 DEF In
<1>4. ASSUME NEW f, In(f, q \o r) PROVE In(f, q) \/ In(f, r)
  <2>1. PICK i \in 1 .. Len(q \o r) : (q \o r)[i] = f
    BY <1>4 DEF In
  <2>2. CASE i <= Len(q)
    BY <1>1, <2>1, <2>2 DEF In
  <2>3. CASE i > Len(q)
    BY <1>1, <2>1, <2>3 DEF In
  <2> QED BY <1>1, <2>1, <2>2, <2>3
<1> QED BY <1>1, <1>2, <1>3, <1>4

LEMMA InjectiveBoth ==
  ASSUME NEW S, NEW q \in Seq(S), NEW r \in Seq(S), Injective(q), Injective(r),
         \A f : In(f, r) => ~In(f, q)
  PROVE  Injective(q \o r)
<1>1. Len(q \o r) = Len(q) + Len(r) /\ Len(q) \in Nat /\ Len(r) \in Nat
  OBVIOUS
<1> SUFFICES ASSUME NEW i \in 1 .. Len(q \o r), NEW j \in 1 .. Len(q \o r), (q \o r)[i] = (q \o r)[j]
             PROVE  i = j
  BY DEF Injective
<1>2. CASE i <= Len(q) /\ j <= Len(q)
  BY <1>1, <1>2 DEF Injective
<1>3. CASE i > Len(q) /\ j > Len(q)
  <2> QED BY <1>1, <1>3 DEF Injective
<1>4. CASE i <= Len(q) /\ j > Len(q)
  <2>1. j - Len(q) \in 1 .. Len(r) /\ i \in 1 .. Len(q) /\ r[j - Len(q)] = q[i]
    BY <1>1, <1>4
  <2> QED BY <2>1 DEF In
<1>5. CASE i > Len(q) /\ j <= Len(q)
  <2>1. i - Len(q) \in 1 .. Len(r) /\ j \in 1 .. Len(q) /\ r[i - Len(q)] = q[j]
    BY <1>1, <1>5
  <2> QED BY <2>1 DEF In
<1> QED BY <1>1, <1>2, <1>3, <1>4, <1>5

LEMMA InRest ==
  ASSUME NEW S, NEW q \in Seq(S), q # <<>>, Injective(q)
  PROVE  /\ Tail(q) \in Seq(S) /\ Len(Tail(q)) = Len(q) - 1 /\ Head(q) \in S /\ In(Head(q), q)
         /\ Injective(Tail(q))
         /\ \A f : In(f, Tail(q)) <=> In(f, q) /\ f # Head(q)
<1>1. /\ Tail(q) \in Seq(S) /\ Len(Tail(q)) = Len(q) - 1 /\ Len(q) \in Nat /\ Len(q) > 0
      /\ Head(q) = q[1] /\ q[1] \in S
      /\ \A i \in 1 .. Len(Tail(q)) : Tail(q)[i] = q[i + 1]
  OBVIOUS
<1>2. Injective(Tail(q))
  <2> SUFFICES ASSUME NEW i \in 1 .. Len(Tail(q)), NEW j \in 1 .. Len(Tail(q)), Tail(q)[i] = Tail(q)[j]
               PROVE  i = j
    BY DEF Injective
  <2>1. i + 1 = j + 1
    BY <1>1 DEF Injective
  <2> QED BY <2>1
<1>3. ASSUME NEW f, In(f, Tail(q)) PROVE In(f, q) /\ f # Head(q)
  <2>1. PICK i \in 1 .. Len(Tail(q)) : Tail(q)[i] = f
    BY <1>3 DEF In
  <2> QED BY <1>1, <2>1 DEF In, Injective
<1>4. ASSUME NEW f, In(f, q), f # Head(q) PROVE In(f, Tail(q))
  <2>1. PICK i \in 1 .. Len(q) : q[i] = f
    BY <1>4 DEF In
  <2> QED BY <1>1, <1>4, <2>1 DEF In
<1>5. In(Head(q), q)
  BY <1>1 DEF In
<1> QED BY <1>1, <1>2, <1>3, <1>4, <1>5

LEMMA InFirst ==
  ASSUME NEW S, NEW q \in Seq(S), NEW k \in 0 .. Len(q), Injective(q)
  PROVE  /\ SubSeq(q, 1, k) \in Seq(S) /\ Len(SubSeq(q, 1, k)) = k
         /\ Injective(SubSeq(q, 1, k))
         /\ \A f : In(f, SubSeq(q, 1, k)) => In(f, q)
<1>1. /\ SubSeq(q, 1, k) \in Seq(S) /\ Len(SubSeq(q, 1, k)) = k /\ Len(q) \in Nat
      /\ \A i \in 1 .. k : SubSeq(q, 1, k)[i] = q[i]
  OBVIOUS
<1> QED BY <1>1 DEF In, Injective

\* r is q without its element n.
Lacks(r, q, n) ==
  /\ Len(r) = Len(q) - 1
  /\ \A i \in 1 .. n - 1 : r[i] = q[i]
  /\ \A i \in n .. Len(q) - 1 : r[i] = q[i + 1]

LEMMA LacksOne ==
  ASSUME NEW S, NEW q \in Seq(S), NEW n \in 1 .. Len(q)
  PROVE  LET r == SubSeq(q, 1, n - 1) \o SubSeq(q, n + 1, Len(q))
         IN r \in Seq(S) /\ Lacks(r, q, n)
<1> DEFINE a == SubSeq(q, 1, n - 1)
           b == SubSeq(q, n + 1, Len(q))
           r == a \o b
<1>1. Len(q) \in Nat /\ n \in Nat /\ n - 1 \in 0 .. Len(q) /\ n + 1 \in 1 .. Len(q) + 1
  OBVIOUS
<1>2. a \in Seq(S) /\ Len(a) = n - 1 /\ \A i \in 1 .. n - 1 : a[i] = q[i]
  BY <1>1
<1>3. b \in Seq(S) /\ Len(b) = Len(q) - n /\ \A i \in 1 .. Len(q) - n : b[i] = q[n + i]
  <2>1. b \in Seq(S) /\ Len(b) = Len(q) - n
    BY <1>1
  <2> QED BY <2>1, <1>1
<1> HIDE DEF a, b
<1>4. r \in Seq(S) /\ Len(r) = Len(q) - 1
  BY <1>1, <1>2, <1>3, InBoth
<1>5. \A i \in 1 .. n - 1 : r[i] = q[i]
  BY <1>1, <1>2, <1>3
<1>6. ASSUME NEW i \in n .. Len(q) - 1 PROVE r[i] = q[i + 1]
  <2>1. i - Len(a) \in 1 .. Len(b) /\ r[i] = b[i - Len(a)]
    BY <1>1, <1>2, <1>3
  <2> QED BY <1>3, <2>1, <1>1, <1>2
<1>7. Lacks(r, q, n)
  BY <1>4, <1>5, <1>6 DEF Lacks
<1> QED BY <1>4, <1>7 DEF a, b

LEMMA InWithout ==
  ASSUME NEW S, NEW q \in Seq(S), NEW n \in 1 .. Len(q), Injective(q),
         NEW r \in Seq(S), Lacks(r, q, n)
  PROVE  /\ Injective(r)
         /\ \A f : In(f, r) <=> In(f, q) /\ f # q[n]
<1>1. Len(q) \in Nat /\ Len(r) = Len(q) - 1 /\ n \in Nat
  BY DEF Lacks
<1>2. ASSUME NEW f, In(f, r) PROVE In(f, q) /\ f # q[n]
  <2>1. PICK i \in 1 .. Len(r) : r[i] = f
    BY <1>2 DEF In
  <2>2. CASE i < n
    BY <1>1, <2>1, <2>2 DEF In, Injective, Lacks
  <2>3. CASE ~(i < n)
    <3> QED BY <1>1, <2>1, <2>3 DEF In, Injective, Lacks
  <2> QED BY <2>2, <2>3
<1>3. ASSUME NEW f, In(f, q), f # q[n] PROVE In(f, r)
  <2>1. PICK i \in 1 .. Len(q) : q[i] = f
    BY <1>3 DEF In
  <2>2. CASE i < n
    BY <2>1, <1>1, <2>2 DEF In, Lacks
  <2>3. CASE i > n
    <3>1. i - 1 \in n .. Len(q) - 1 /\ i - 1 \in 1 .. Len(r) /\ (i - 1) + 1 = i
      BY <1>1, <2>1, <2>3
    <3> QED BY <2>1, <3>1 DEF In, Lacks
  <2> QED BY <1>1, <1>3, <2>1, <2>2, <2>3
<1>4. Injective(r)
  <2> SUFFICES ASSUME NEW i \in 1 .. Len(r), NEW j \in 1 .. Len(r), r[i] = r[j] PROVE i = j
    BY DEF Injective
  <2> DEFINE f(k) == IF k < n THEN k ELSE k + 1
  <2>1. f(i) = f(j)
    BY <1>1 DEF Injective, Lacks
  <2> QED BY <1>1, <2>1
<1> QED BY <1>2, <1>3, <1>4

LEMMA InFew ==
  /\ \A f : ~In(f, <<>>)
  /\ \A f, g : In(f, <<g>>) <=> f = g
  /\ Injective(<<>>) /\ \A g : Injective(<<g>>)
  /\ \A g, h : g # h => Injective(<<g>> \o <<h>>)
<1>1. \A f : ~In(f, <<>>) /\ Injective(<<>>)
  BY DEF In, Injective
<1>2. \A f, g : In(f, <<g>>) <=> f = g
  BY DEF In
<1>3. \A g : Injective(<<g>>)
  BY DEF Injective
<1>4. ASSUME NEW g, NEW h, g # h PROVE Injective(<<g>> \o <<h>>)
  <2>1. <<g>> \in Seq({g, h}) /\ <<h>> \in Seq({g, h})
    OBVIOUS
  <2> QED BY <1>2, <1>3, <1>4, <2>1, InjectiveBoth
<1> QED BY <1>1, <1>2, <1>3, <1>4

\* Frames and objects differ where their kinds or names do.
LEMMA FramesDiffer ==
  /\ \A c, d : CallFrame(c) = CallFrame(d) => c = d
  /\ \A c, d : Cancel(c) = Cancel(d) => c = d
  /\ \A c, d, f, g : Reply(c, f) = Reply(d, g) => c = d /\ f = g
  /\ \A o, p : Release(o) = Release(p) => o = p
  /\ \A c : CallFrame(c).kind = "call" /\ CallFrame(c).call = c
  /\ \A c : Cancel(c).kind = "cancel" /\ Cancel(c).call = c
  /\ \A c, f : Reply(c, f).kind = "reply" /\ Reply(c, f).call = c /\ Reply(c, f).status = f
  /\ \A o : Release(o).kind = "release" /\ Release(o).object = o
  /\ Goodbye.kind = "goodbye" /\ Gone.kind = "gone"
<1>1. /\ \A c : CallFrame(c).kind = "call" /\ CallFrame(c).call = c
      /\ \A c : Cancel(c).kind = "cancel" /\ Cancel(c).call = c
      /\ \A o : Release(o).kind = "release" /\ Release(o).object = o
      /\ Goodbye.kind = "goodbye" /\ Gone.kind = "gone"
  BY DEF CallFrame, Cancel, Release, Goodbye, Gone
<1>2. \A c, f : Reply(c, f).kind = "reply" /\ Reply(c, f).call = c /\ Reply(c, f).status = f
  BY DEF Reply
<1>3. \A c, d : CallFrame(c) = CallFrame(d) => c = d
  BY <1>1
<1>4. \A c, d : Cancel(c) = Cancel(d) => c = d
  BY <1>1
<1>5. \A c, d, f, g : Reply(c, f) = Reply(d, g) => c = d /\ f = g
  BY <1>2
<1>6. \A o, p : Release(o) = Release(p) => o = p
  BY <1>1
<1> QED BY <1>1, <1>2, <1>3, <1>4, <1>5, <1>6

LEMMA FramesUnlike ==
  /\ \A c, d : CallFrame(c) = CallFrame(d) => c = d
  /\ \A c, d, f, g : Reply(c, f) = Reply(d, g) => c = d /\ f = g
  /\ \A o, p : Release(o) = Release(p) => o = p
  /\ \A c, d : Cancel(c) = Cancel(d) => c = d
  /\ \A c, d, f : CallFrame(c) # Reply(d, f)
  /\ \A c, o : CallFrame(c) # Release(o)
  /\ \A c, d : CallFrame(c) # Cancel(d)
  /\ \A c, f, o : Reply(c, f) # Release(o)
  /\ \A c, d, f : Reply(c, f) # Cancel(d)
  /\ \A c, o : Cancel(c) # Release(o)
  /\ \A c : CallFrame(c) # Goodbye /\ CallFrame(c) # Gone
  /\ \A c, f : Reply(c, f) # Goodbye /\ Reply(c, f) # Gone
  /\ \A o : Release(o) # Goodbye /\ Release(o) # Gone
  /\ \A c : Cancel(c) # Goodbye /\ Cancel(c) # Gone
  /\ Goodbye # Gone
BY FramesDiffer

LEMMA ObjectsDiffer ==
  /\ \A c, d : Arg(c) = Arg(d) => c = d
  /\ \A c, d : Ans(c) = Ans(d) => c = d
  /\ \A c, d : Arg(c) # Ans(d)
  /\ \A c : Arg(c) # NoObject /\ Ans(c) # NoObject /\ Arg(c) # Table /\ Ans(c) # Table
  /\ \A c : Arg(c) # Catalog /\ Ans(c) # Catalog
  /\ \A c \in Calls : Arg(c) \in Objects /\ Ans(c) \in Objects
  /\ NoObject \notin Objects /\ Table \notin Objects /\ Catalog \notin Objects /\ Catalog # Table
  /\ \A o \in Objects : \E c \in Calls : o = Arg(c) \/ o = Ans(c)
BY DEF Arg, Ans, NoObject, Table, Catalog, Objects

-----------------------------------------------------------------------------
(* The invariant.                                                          *)

\* What a call may be.
Records == [side : Sides, parent : Calls \cup {0}, target : Objects \cup {Table, Catalog},
            pass : PassKinds, object : Objects \cup {NoObject}, level : Nat]

\* Types, but for the sequences.
Plain ==
  /\ alive \in [Sides -> BOOLEAN]
  /\ call \in [Calls -> Records]
  /\ at \in [Calls -> {"unmade", "sending", "waiting", "timedout", "done"}]
  /\ run \in [Calls -> {"none", "pool", "running", "replying", "over"}]
  /\ flag \in [Calls -> BOOLEAN]
  /\ answer \in [Calls -> AnswerKinds]
  /\ exports \in [Sides -> SUBSET Objects]
  /\ handles \in [Sides -> SUBSET Objects]
  /\ \A p \in Calls : \A f : Mailed(p, f) => Registered(p)

\* No frame is twice in a gate or in a mailbox.
Distinct ==
  /\ \A s \in Sides : Injective(wire[s])
  /\ \A p \in Calls : Injective(mail[p])

\* What a call is, from the time it is made.
Made ==
  \A c \in Calls :
    /\ at[c] = "unmade" => call[c] = Unmade
    /\ call[c].pass \in {"new", "lent"} => call[c].object = Arg(c)
    /\ call[c].pass = "nothing" => call[c].object = NoObject
    /\ call[c].pass = "back" => call[c].object \in Objects
    /\ call[c].parent # 0 =>
         at[call[c].parent] # "unmade" /\ call[call[c].parent].side # call[c].side
    /\ Asks(c) => call[c].parent = 0 /\ call[c].pass = "nothing"

\* A call's request is in one place: not sent, in the gate or on the way, in
\* the mailbox of its parent, taken by the peer, or nowhere.
Requested ==
  \A c \in Calls :
    /\ at[c] \in {"unmade", "sending"} => run[c] = "none"
    /\ \A s \in Sides : UnderWay(s, CallFrame(c)) =>
         s = call[c].side /\ run[c] = "none" /\ at[c] \notin {"unmade", "sending"}
    /\ \A p \in Calls : Mailed(p, CallFrame(c)) =>
         /\ p = call[c].parent /\ run[c] = "none" /\ at[c] \notin {"unmade", "sending"}
         /\ \A s \in Sides : ~UnderWay(s, CallFrame(c))

Statuses == AnswerKinds \cup Refusals

\* Its answer is in one place too, and there is one.
Replied ==
  /\ \A c \in Calls, s \in Sides : \A f \in Statuses : UnderWay(s, Reply(c, f)) =>
       /\ s = Peer(call[c].side) /\ run[c] = "over"
       /\ \A g \in Statuses : UnderWay(s, Reply(c, g)) => f = g
  /\ \A c, p \in Calls : \A f \in Statuses : Mailed(p, Reply(c, f)) =>
       /\ p = c /\ run[c] = "over"
       /\ \A g \in Statuses : Mailed(p, Reply(c, g)) => f = g
       /\ \A g \in Statuses, s \in Sides : ~UnderWay(s, Reply(c, g))

\* A call made during another keeps that one running.
Nested ==
  \A c \in Calls : Active(c) /\ call[c].parent # 0 => run[call[c].parent] = "running"

\* A call is cancelled once its caller has given it up.
Cancelled ==
  /\ \A c \in Calls, s \in Sides : UnderWay(s, Cancel(c)) => at[c] = "done" /\ s = call[c].side
  /\ Up => \A c \in Calls : flag[c] => at[c] = "done"

\* The request of c has yet to be begun by the peer.
Journeys(c) ==
  \/ at[c] = "sending"
  \/ \E s \in Sides : UnderWay(s, CallFrame(c))
  \/ run[c] = "pool"
  \/ \E p \in Calls : Mailed(p, CallFrame(c))

\* The answer to c is an object and nobody has taken it.
Answering(c) ==
  \/ run[c] = "replying" /\ answer[c] = "object"
  \/ \E s \in Sides : UnderWay(s, Reply(c, "object"))
  \/ Mailed(c, Reply(c, "object"))

\* What stands for an object o with the peer of the side that holds it: a handle
\* or a RELEASE of side x, a call x that hands it over or back, or an answer to
\* the call x.
Kinds == {"handle", "release", "call", "answer"}
Bearers == Sides \cup Calls
Has(o, k, x) ==
  \/ k = "handle" /\ x \in Sides /\ o \in handles[x]
  \/ k = "release" /\ x \in Sides /\ UnderWay(x, Release(o))
  \/ k = "call" /\ x \in Calls /\ call[x].object = o /\ call[x].pass \in {"new", "back"} /\ Journeys(x)
  \/ k = "answer" /\ x \in Calls /\ o = Ans(x) /\ Answering(x)

\* The side it stands for the object on.
User(k, x) ==
  IF k \in {"handle", "release"} THEN x
  ELSE IF k = "call" /\ call[x].pass = "new" THEN Peer(call[x].side) ELSE call[x].side

\* One thing at most stands for an object.
HasOne ==
  \A o \in Objects : \A k, l \in Kinds : \A x, y \in Bearers :
    Has(o, k, x) /\ Has(o, l, y) => k = l /\ x = y

\* It was handed over before, by value.
HasReason ==
  \A o \in Objects : \A k \in Kinds : \A x \in Bearers : Has(o, k, x) =>
    \A c \in Calls :
      /\ o = Arg(c) => at[c] # "unmade" /\ call[c].pass = "new"
      /\ o = Ans(c) => run[c] \in {"replying", "over"}

\* And while the link lasts it is held.
HasHeld ==
  Up => \A o \in Objects : \A k \in Kinds : \A x \in Bearers :
          Has(o, k, x) => o \in exports[Peer(User(k, x))]

\* What is lent is held until the call is over.
LentHeld ==
  Up => \A c \in Calls :
          Active(c) /\ call[c].pass = "lent" => Arg(c) \in exports[call[c].side]

\* A call is on a table, the catalog, on a handle nobody lets go meanwhile, or on what was
\* lent to the call it is made during.
TargetsHeld ==
  \A c \in Calls : Active(c) /\ call[c].target \notin {Table, Catalog} =>
    \/ call[c].target \in handles[call[c].side]
    \/ /\ call[c].parent # 0 /\ call[call[c].parent].pass = "lent"
       /\ call[c].target = Arg(call[c].parent)

\* Who waits on a side that ended has been told.
GoneTold ==
  /\ \A s \in Sides : ~alive[s] => exports[s] = {}
  /\ \A c \in Calls : Mailed(c, Gone) => ~alive[call[c].side]
  /\ \A c \in Calls : ~alive[call[c].side] /\ at[c] = "waiting" => Mailed(c, Gone)

\* What c is on or passes was lent for a call that is over.
Excused(c) ==
  \E d \in Calls : /\ call[d].pass = "lent"
                   /\ call[d].object \in {call[c].target, call[c].object}
                   /\ at[d] = "done"
LetGoExcused ==
  \A c \in Calls : at[c] = "waiting" =>
    /\ Mailed(c, Reply(c, "letgo")) => Excused(c)
    /\ \A s \in Sides : alive[call[c].side] /\ UnderWay(s, Reply(c, "letgo")) => Excused(c)

\* A side takes its leave once.
Farewell == \A s \in Sides : UnderWay(s, Goodbye) => ~alive[s]

LinkInv ==
  /\ Plain /\ Distinct /\ Made /\ Requested /\ Replied /\ Nested /\ Cancelled
  /\ HasOne /\ HasReason /\ HasHeld /\ LentHeld /\ TargetsHeld /\ GoneTold
  /\ LetGoExcused /\ Farewell

-----------------------------------------------------------------------------
(* The steps, by what they do to the sets of frames under way and in mail. *)

WireKept == \A x \in Sides : \A f : UnderWay(x, f)' <=> UnderWay(x, f)
MailKept == \A p \in Calls : \A f : Mailed(p, f)' <=> Mailed(p, f)

\* What was in the mailbox of c goes with it.
MailDropped(c) == \A p \in Calls : \A f : Mailed(p, f)' <=> Mailed(p, f) /\ p # c

\* The request of c has been taken.
MailTaken(c) == \A p \in Calls : \A f : Mailed(p, f)' <=> Mailed(p, f) /\ f # CallFrame(c)

\* Side s sends f, if it has not ended.
WireSent(s, f) ==
  \A x \in Sides : \A g : UnderWay(x, g)' <=> UnderWay(x, g) \/ (x = s /\ alive[s] /\ g = f)

\* Side s takes f off its wire.
WireTaken(s, f) ==
  \A x \in Sides : \A g : UnderWay(x, g)' <=> UnderWay(x, g) /\ ~(x = s /\ g = f)

\* The peer has yet to begin c, which has been sent.
Waits(c) ==
  \/ UnderWay(call[c].side, CallFrame(c))
  \/ run[c] = "pool"
  \/ call[c].parent # 0 /\ Mailed(call[c].parent, CallFrame(c))

Makes(c, m) ==
  /\ at[c] = "unmade" /\ alive[m.side]
  /\ \/ m.target = Catalog /\ m.parent = 0 /\ m.pass = "nothing"
     \/ /\ m.target # Catalog /\ m.target \in Targets(m.side, m.parent)
        /\ IF m.parent = 0
             THEN Cardinality(InFlight(m.side)) < Limit
             ELSE /\ run[m.parent] = "running" /\ call[m.parent].side # m.side
                  /\ RunnerFree(m.parent)
  /\ m.pass \in {"new", "lent"} => m.object = Arg(c)
  /\ m.pass = "nothing" => m.object = NoObject
  /\ m.pass = "back" =>
       m.object \in handles[m.side] /\ m.object # m.target /\ ~InUse(m.object)
  /\ at' = [at EXCEPT ![c] = "sending"]
  /\ call' = [call EXCEPT ![c] = m]
  /\ exports' = [exports EXCEPT ![m.side] =
       IF m.pass \in {"new", "lent"} THEN @ \cup {Arg(c)} ELSE @]
  /\ handles' = [handles EXCEPT ![m.side] = IF m.pass = "back" THEN @ \ {m.object} ELSE @]
  /\ WireKept /\ MailKept
  /\ UNCHANGED <<alive, run, flag, answer>>

Sends(c) ==
  /\ at[c] = "sending" /\ alive[call[c].side]
  /\ at' = [at EXCEPT ![c] = "waiting"]
  /\ WireSent(call[c].side, CallFrame(c)) /\ MailKept
  /\ UNCHANGED <<alive, call, run, flag, answer, exports, handles>>

Drops(c) == Unsent(c) /\ WireKept /\ MailKept

Takes(c) ==
  /\ at[c] = "waiting"
  /\ \/ \E st \in Statuses : Mailed(c, Reply(c, st))
     \/ Mailed(c, Gone)
  /\ at' = [at EXCEPT ![c] = "done"]
  /\ \/ /\ Mailed(c, Reply(c, "object"))
        /\ handles' = [handles EXCEPT ![call[c].side] = @ \cup {Ans(c)}]
     \/ /\ Mailed(c, Gone) \/ ~Mailed(c, Reply(c, "object"))
        /\ handles' = handles
  /\ exports' = Unlent(c)
  /\ WireKept /\ MailDropped(c)
  /\ UNCHANGED <<alive, call, run, flag, answer>>

TimesOut(c) == TimeOut(c) /\ WireKept /\ MailKept

Forgets(c) ==
  /\ at[c] = "timedout"
  /\ at' = [at EXCEPT ![c] = "done"]
  /\ exports' = Unlent(c)
  /\ MailDropped(c)
  /\ \A x \in Sides : \A f :
       /\ UnderWay(x, f)' => UnderWay(x, f) \/ (x = call[c].side /\ f = Cancel(c))
       /\ UnderWay(x, f) /\ f # CallFrame(c) => UnderWay(x, f)'
  /\ UNCHANGED <<alive, call, run, flag, answer, handles>>

LetsGo(s, o) ==
  /\ o \in handles[s] /\ ~InUse(o)
  /\ handles' = [handles EXCEPT ![s] = @ \ {o}]
  /\ WireSent(s, Release(o)) /\ MailKept
  /\ UNCHANGED <<alive, call, at, run, flag, answer, exports>>

Refuses(s, c, st) ==
  /\ s = Peer(call[c].side) /\ st \in Refusals
  /\ Waits(c)
  /\ st = "letgo" => Refusal(s, c) = "letgo"
  /\ st = "busy" => /\ UnderWay(call[c].side, CallFrame(c)) /\ call[c].parent = 0
                    /\ Cardinality(Placed(s)) >= Limit
  /\ run' = [run EXCEPT ![c] = "over"]
  /\ exports' = LetGoExports(s, c)
  /\ \A x \in Sides : \A f : UnderWay(x, f)' <=>
       \/ UnderWay(x, f) /\ f # CallFrame(c)
       \/ /\ x = s /\ alive[s]
          /\ \/ f = Reply(c, st)
             \/ f = Release(call[c].object) /\ Readable(s, c) /\ call[c].pass = "new"
  /\ MailTaken(c)
  /\ UNCHANGED <<alive, call, at, flag, answer, handles>>

Begins(c) ==
  LET s == Peer(call[c].side)
  IN
  /\ run[c] = "pool" \/ (call[c].parent # 0 /\ Mailed(call[c].parent, CallFrame(c)))
  /\ Refusal(s, c) = "none"
  /\ run' = [run EXCEPT ![c] = "running"]
  /\ handles' = [handles EXCEPT ![s] =
       IF call[c].pass = "new" THEN @ \cup {call[c].object} ELSE @]
  /\ exports' = [exports EXCEPT ![s] =
       IF call[c].pass = "back" THEN @ \ {call[c].object} ELSE @]
  /\ WireKept /\ MailTaken(c)
  /\ UNCHANGED <<alive, call, at, flag, answer>>

Finishes(c, what) == Finish(c, what) /\ what \in AnswerKinds /\ WireKept /\ MailKept

Replies(c) ==
  /\ run[c] = "replying"
  /\ run' = [run EXCEPT ![c] = "over"]
  /\ WireSent(Peer(call[c].side), Reply(c, answer[c])) /\ MailKept
  /\ UNCHANGED <<alive, call, at, flag, answer, exports, handles>>

Queues(c) ==
  /\ UnderWay(call[c].side, CallFrame(c))
  /\ WireTaken(call[c].side, CallFrame(c))
  /\ \/ /\ call[c].parent = 0
        /\ run' = [run EXCEPT ![c] = "pool"]
        /\ MailKept
     \/ /\ call[c].parent # 0 /\ Registered(call[c].parent)
        /\ run' = run
        /\ \A p \in Calls : \A f : Mailed(p, f)' <=>
             Mailed(p, f) \/ (p = call[c].parent /\ f = CallFrame(c))
  /\ UNCHANGED <<alive, call, at, flag, answer, exports, handles>>

Delivers(c, st) ==
  /\ st \in Statuses /\ alive[call[c].side]
  /\ UnderWay(Peer(call[c].side), Reply(c, st))
  /\ \A x \in Sides : \A f : UnderWay(x, f)' <=>
       \/ UnderWay(x, f) /\ ~(x = Peer(call[c].side) /\ f = Reply(c, st))
       \/ /\ x = call[c].side /\ f = Release(Ans(c))
          /\ ~Registered(c) /\ c \in late[call[c].side] /\ st = "object"
  /\ \A p \in Calls : \A f : Mailed(p, f)' <=>
       Mailed(p, f) \/ (Registered(c) /\ p = c /\ f = Reply(c, st))
  /\ UNCHANGED <<alive, call, at, run, flag, answer, exports, handles>>

Cancels(s, c) ==
  /\ UnderWay(Peer(s), Cancel(c))
  /\ WireTaken(Peer(s), Cancel(c)) /\ MailKept
  /\ flag' = [flag EXCEPT ![c] = @ \/ Running(c)]
  /\ UNCHANGED <<alive, call, at, run, answer, exports, handles>>

Releases(s, o) ==
  /\ UnderWay(Peer(s), Release(o))
  /\ WireTaken(Peer(s), Release(o)) /\ MailKept
  /\ exports' = [exports EXCEPT ![s] = @ \ {o}]
  /\ UNCHANGED <<alive, call, at, run, flag, answer, handles>>

Falls(s) ==
  /\ alive[s]
  /\ alive' = [alive EXCEPT ![s] = FALSE]
  /\ exports' = [exports EXCEPT ![s] = {}]
  /\ flag' \in [Calls -> BOOLEAN]
  /\ \A x \in Sides : \A f : UnderWay(x, f)' => UnderWay(x, f) \/ (x = s /\ f = Goodbye)
  /\ \A p \in Calls : \A f : Mailed(p, f)' <=>
       Mailed(p, f) \/ (f = Gone /\ Registered(p) /\ call[p].side = s)
  /\ UNCHANGED <<call, at, run, answer, handles>>

Idles == WireKept /\ MailKept /\ UNCHANGED <<alive, call, at, run, flag, answer, exports, handles>>

Step ==
  \/ \E c \in Calls, m \in Records : Makes(c, m)
  \/ \E c \in Calls : Sends(c) \/ Drops(c) \/ Takes(c) \/ TimesOut(c) \/ Forgets(c)
  \/ \E s \in Sides, o \in Objects : LetsGo(s, o)
  \/ \E s \in Sides, c \in Calls, st \in Refusals : Refuses(s, c, st)
  \/ \E c \in Calls : Begins(c) \/ Replies(c) \/ Queues(c)
  \/ \E c \in Calls, what \in AnswerKinds : Finishes(c, what)
  \/ \E c \in Calls, st \in Statuses : Delivers(c, st)
  \/ \E s \in Sides, c \in Calls : Cancels(s, c)
  \/ \E s \in Sides, o \in Objects : Releases(s, o)
  \/ \E s \in Sides : Falls(s)
  \/ Idles

-----------------------------------------------------------------------------
(* Each part of the invariant.                                             *)

LEMMA Peers ==
  /\ \A s \in Sides : Peer(s) \in Sides /\ Peer(s) # s /\ Peer(Peer(s)) = s
  /\ \A s, t \in Sides : s # t => s = Peer(t)
BY LinkAssumption DEF Sides, Peer

\* The steps by name, for a fact that none of them breaks.
LEMMA MadeStep == ASSUME Plain, Made, Requested, Step PROVE Made'
<1>1. CASE \E c \in Calls, m \in Records : Makes(c, m)
  <2>1. PICK c \in Calls, m \in Records : Makes(c, m)
    BY <1>1
  <2>2. call'[c] = m /\ \A d \in Calls : d # c => call'[d] = call[d]
    BY <2>1 DEF Makes, Plain
  <2>3. at'[c] = "sending" /\ \A d \in Calls : d # c => at'[d] = at[d]
    BY <2>1 DEF Makes, Plain
  <2>4. m.parent \in Calls \cup {0}
    BY DEF Records
  <2> SUFFICES ASSUME NEW d \in Calls
               PROVE  /\ at'[d] = "unmade" => call'[d] = Unmade
                      /\ call'[d].pass \in {"new", "lent"} => call'[d].object = Arg(d)
                      /\ call'[d].pass = "nothing" => call'[d].object = NoObject
                      /\ call'[d].pass = "back" => call'[d].object \in Objects
                      /\ call'[d].parent # 0 =>
                           /\ at'[call'[d].parent] # "unmade"
                           /\ call'[call'[d].parent].side # call'[d].side
                      /\ call'[d].target = Catalog =>
                           call'[d].parent = 0 /\ call'[d].pass = "nothing"
    BY DEF Made, Asks
  <2>5. CASE d = c
    BY <2>1, <2>2, <2>3, <2>4, <2>5 DEF Makes, Requested, Records, Plain
  <2>6. CASE d # c
    BY <2>2, <2>3, <2>1, <2>6 DEF Made, Asks, Makes, Plain, Records
  <2> QED BY <2>5, <2>6
<1>2. CASE \E c \in Calls : Sends(c) \/ Drops(c) \/ Takes(c) \/ TimesOut(c) \/ Forgets(c)
  <2>1. PICK c \in Calls : Sends(c) \/ Drops(c) \/ Takes(c) \/ TimesOut(c) \/ Forgets(c)
    BY <1>2
  <2>2. call' = call /\ at[c] # "unmade"
    BY <2>1 DEF Sends, Drops, Takes, TimesOut, Forgets, Unsent, TimeOut
  <2>3. at'[c] # "unmade" /\ \A d \in Calls : d # c => at'[d] = at[d]
    BY <2>1 DEF Plain, Sends, Drops, Takes, TimesOut, Forgets, Unsent, TimeOut
  <2> QED BY <2>2, <2>3 DEF Made, Asks, Plain, Records
<1>3. ASSUME UNCHANGED <<call, at>> PROVE Made'
  BY <1>3 DEF Made, Asks
<1> QED BY <1>1, <1>2, <1>3 DEF Step, LetsGo, Refuses, Begins, Replies, Queues, Finishes, Finish,
     Delivers, Cancels, Releases, Falls, Idles

LEMMA RequestedStep == ASSUME Plain, Made, Requested, Step PROVE Requested'
<1> USE FramesUnlike, Peers DEF Plain
<1>1. ASSUME NEW c \in Calls, NEW m \in Records, Makes(c, m) PROVE Requested'
  BY <1>1 DEF Requested, Makes, WireKept, MailKept, Made, Unmade
<1>2. ASSUME NEW c \in Calls, Sends(c) PROVE Requested'
  BY <1>2 DEF Requested, Sends, WireSent, MailKept
<1>3. ASSUME NEW c \in Calls, Drops(c) PROVE Requested'
  BY <1>3 DEF Requested, Drops, Unsent, WireKept, MailKept
<1>4. ASSUME NEW c \in Calls, Takes(c) PROVE Requested'
  BY <1>4 DEF Requested, Takes, WireKept, MailDropped
<1>5. ASSUME NEW c \in Calls, TimesOut(c) PROVE Requested'
  BY <1>5 DEF Requested, TimesOut, TimeOut, WireKept, MailKept
<1>6. ASSUME NEW c \in Calls, Forgets(c) PROVE Requested'
  BY <1>6 DEF Requested, Forgets, MailDropped
<1>7. ASSUME NEW s \in Sides, NEW o \in Objects, LetsGo(s, o) PROVE Requested'
  BY <1>7 DEF Requested, LetsGo, WireSent, MailKept
<1>8. ASSUME NEW s \in Sides, NEW c \in Calls, NEW st \in Refusals, Refuses(s, c, st) PROVE Requested'
  <2>1. /\ run'[c] = "over" /\ \A d \in Calls : d # c => run'[d] = run[d]
        /\ at' = at /\ call' = call
    BY <1>8 DEF Refuses
  <2>2. at[c] \notin {"unmade", "sending"}
    BY <1>8 DEF Refuses, Waits, Requested, Records
  <2>3. \A d \in Calls, x \in Sides : UnderWay(x, CallFrame(d))' <=> UnderWay(x, CallFrame(d)) /\ d # c
    BY <1>8 DEF Refuses
  <2>4. \A d \in Calls, p \in Calls : Mailed(p, CallFrame(d))' <=> Mailed(p, CallFrame(d)) /\ d # c
    BY <1>8 DEF Refuses, MailTaken
  <2> QED BY <2>1, <2>2, <2>3, <2>4 DEF Requested
<1>9. ASSUME NEW c \in Calls, Begins(c) PROVE Requested'
  <2>1. /\ run'[c] = "running" /\ \A d \in Calls : d # c => run'[d] = run[d]
        /\ at' = at /\ call' = call
    BY <1>9 DEF Begins
  <2>2. /\ at[c] \notin {"unmade", "sending"}
        /\ \A x \in Sides : ~UnderWay(x, CallFrame(c))
    BY <1>9 DEF Begins, Requested, Records
  <2>3. \A d \in Calls, x \in Sides : UnderWay(x, CallFrame(d))' <=> UnderWay(x, CallFrame(d))
    BY <1>9 DEF Begins, WireKept
  <2>4. \A d \in Calls, p \in Calls : Mailed(p, CallFrame(d))' <=> Mailed(p, CallFrame(d)) /\ d # c
    BY <1>9 DEF Begins, MailTaken
  <2> QED BY <2>1, <2>2, <2>3, <2>4 DEF Requested
<1>10. ASSUME NEW c \in Calls, Replies(c) PROVE Requested'
  BY <1>10 DEF Requested, Replies, MailKept, WireSent
<1>11. ASSUME NEW c \in Calls, Queues(c) PROVE Requested'
  <2>1. /\ \A d \in Calls : d # c => run'[d] = run[d]
        /\ at' = at /\ call' = call
    BY <1>11 DEF Queues
  <2>2. /\ at[c] \notin {"unmade", "sending"} /\ run[c] = "none"
        /\ \A x \in Sides : UnderWay(x, CallFrame(c)) => x = call[c].side
        /\ \A p \in Calls : ~Mailed(p, CallFrame(c))
    BY <1>11 DEF Queues, Requested, Records
  <2>3. \A d \in Calls, x \in Sides : UnderWay(x, CallFrame(d))' <=> UnderWay(x, CallFrame(d)) /\ d # c
    BY <1>11, <2>2 DEF Queues, WireTaken
  <2>4. CASE run' = run
    BY <1>11, <2>1, <2>2, <2>3, <2>4 DEF Requested, Queues
  <2>5. CASE MailKept
    BY <1>11, <2>1, <2>2, <2>3, <2>5 DEF Requested, MailKept
  <2> QED BY <1>11, <2>4, <2>5 DEF Queues
<1>12. ASSUME NEW c \in Calls, NEW what \in AnswerKinds, Finishes(c, what) PROVE Requested'
  BY <1>12 DEF Requested, Finishes, Finish, MailKept, WireKept
<1>13. ASSUME NEW c \in Calls, NEW st \in Statuses, Delivers(c, st) PROVE Requested'
  BY <1>13 DEF Requested, Delivers
<1>14. ASSUME NEW s \in Sides, NEW c \in Calls, Cancels(s, c) PROVE Requested'
  BY <1>14 DEF Requested, Cancels, MailKept, WireTaken
<1>15. ASSUME NEW s \in Sides, NEW o \in Objects, Releases(s, o) PROVE Requested'
  BY <1>15 DEF Requested, Releases, MailKept, WireTaken
<1>16. ASSUME NEW s \in Sides, Falls(s) PROVE Requested'
  BY <1>16 DEF Requested, Falls
<1>17. CASE Idles
  BY <1>17 DEF Requested, Idles, WireKept, MailKept
<1> QED BY <1>1, <1>2, <1>3, <1>4, <1>5, <1>6, <1>7, <1>8, <1>9, <1>10, <1>11, <1>12, <1>13,
     <1>14, <1>15, <1>16, <1>17 DEF Step

LEMMA RepliedStep == ASSUME Plain, Requested, Replied, Step PROVE Replied'
<1> USE FramesUnlike, Peers DEF Plain
<1>1. ASSUME NEW c \in Calls, NEW m \in Records, Makes(c, m) PROVE Replied'
  BY <1>1 DEF Replied, Makes, WireKept, MailKept, Requested
<1>2. ASSUME NEW c \in Calls, Sends(c) PROVE Replied'
  BY <1>2 DEF Replied, Sends, WireSent, MailKept
<1>3. ASSUME NEW c \in Calls, Drops(c) PROVE Replied'
  BY <1>3 DEF Replied, Drops, Unsent, WireKept, MailKept
<1>4. ASSUME NEW c \in Calls, Takes(c) PROVE Replied'
  BY <1>4 DEF Replied, Takes, WireKept, MailDropped
<1>5. ASSUME NEW c \in Calls, TimesOut(c) PROVE Replied'
  BY <1>5 DEF Replied, TimesOut, TimeOut, WireKept, MailKept
<1>6. ASSUME NEW c \in Calls, Forgets(c) PROVE Replied'
  BY <1>6 DEF Replied, Forgets, MailDropped
<1>7. ASSUME NEW s \in Sides, NEW o \in Objects, LetsGo(s, o) PROVE Replied'
  BY <1>7 DEF Replied, LetsGo, WireSent, MailKept
<1>8. ASSUME NEW s \in Sides, NEW c \in Calls, NEW st \in Refusals, Refuses(s, c, st)
      PROVE  Replied'
  <2>1. /\ run[c] # "over" /\ call' = call
        /\ run'[c] = "over" /\ \A d \in Calls : d # c => run'[d] = run[d]
        /\ s = Peer(call[c].side)
    BY <1>8 DEF Refuses, Waits, Requested, Records
  <2>2. \A d \in Calls, x \in Sides : \A f \in Statuses :
          UnderWay(x, Reply(d, f))' => UnderWay(x, Reply(d, f)) \/ (d = c /\ f = st /\ x = s)
    BY <1>8 DEF Refuses
  <2>3. \A d, p \in Calls : \A f \in Statuses : Mailed(p, Reply(d, f))' => Mailed(p, Reply(d, f))
    BY <1>8 DEF Refuses, MailTaken
  <2> QED BY <2>1, <2>2, <2>3 DEF Replied
<1>9. ASSUME NEW c \in Calls, Begins(c) PROVE Replied'
  <2>1. run[c] # "over" /\ call' = call /\ \A d \in Calls : d # c => run'[d] = run[d]
    BY <1>9 DEF Begins, Requested, Records
  <2>2. \A d, p \in Calls : \A f \in Statuses : Mailed(p, Reply(d, f))' => Mailed(p, Reply(d, f))
    BY <1>9 DEF Begins, MailTaken
  <2>3. WireKept
    BY <1>9 DEF Begins
  <2> QED BY <2>1, <2>2, <2>3 DEF Replied, WireKept
<1>10. ASSUME NEW c \in Calls, Replies(c) PROVE Replied'
  BY <1>10 DEF Replied, Replies, MailKept, WireSent
<1>11. ASSUME NEW c \in Calls, Queues(c) PROVE Replied'
  <2>1. run[c] # "over" /\ call' = call /\ \A d \in Calls : d # c => run'[d] = run[d]
    BY <1>11 DEF Queues, Requested, Records
  <2>2. \A d, p \in Calls : \A f \in Statuses : Mailed(p, Reply(d, f))' => Mailed(p, Reply(d, f))
    BY <1>11 DEF Queues, MailKept
  <2>3. \A d \in Calls, x \in Sides : \A f \in Statuses :
          UnderWay(x, Reply(d, f))' => UnderWay(x, Reply(d, f))
    BY <1>11 DEF Queues, WireTaken
  <2> QED BY <2>1, <2>2, <2>3 DEF Replied
<1>12. ASSUME NEW c \in Calls, NEW what \in AnswerKinds, Finishes(c, what) PROVE Replied'
  BY <1>12 DEF Replied, Finishes, Finish, MailKept, WireKept
<1>13. ASSUME NEW c \in Calls, NEW st \in Statuses, Delivers(c, st) PROVE Replied'
  <2>1. run[c] = "over" /\ run' = run /\ call' = call
    BY <1>13 DEF Delivers, Replied, Records
  <2>2. \A d \in Calls, x \in Sides : \A f \in Statuses :
          UnderWay(x, Reply(d, f))' =>
            UnderWay(x, Reply(d, f)) /\ ~(x = Peer(call[c].side) /\ d = c /\ f = st)
    BY <1>13 DEF Delivers
  <2>3. Peer(call[c].side) \in Sides /\ UnderWay(Peer(call[c].side), Reply(c, st))
    BY <1>13 DEF Delivers, Records
  <2>4. \A d \in Calls, x \in Sides : \A f \in Statuses :
          UnderWay(x, Reply(d, f))' => d # c /\ UnderWay(x, Reply(d, f))
    BY <2>2, <2>3 DEF Replied
  <2>5. \A d, p \in Calls : \A f \in Statuses :
          Mailed(p, Reply(d, f))' => (d # c /\ Mailed(p, Reply(d, f))) \/ (p = c /\ d = c /\ f = st)
    BY <1>13, <2>3 DEF Delivers, Replied
  <2> HIDE FramesUnlike, Peers
  <2> QED BY <2>1, <2>4, <2>5 DEF Replied
<1>14. ASSUME NEW s \in Sides, NEW c \in Calls, Cancels(s, c) PROVE Replied'
  BY <1>14 DEF Replied, Cancels, MailKept, WireTaken
<1>15. ASSUME NEW s \in Sides, NEW o \in Objects, Releases(s, o) PROVE Replied'
  BY <1>15 DEF Replied, Releases, MailKept, WireTaken
<1>16. ASSUME NEW s \in Sides, Falls(s) PROVE Replied'
  BY <1>16 DEF Replied, Falls
<1>17. CASE Idles
  BY <1>17 DEF Replied, Idles, WireKept, MailKept
<1> QED BY <1>1, <1>2, <1>3, <1>4, <1>5, <1>6, <1>7, <1>8, <1>9, <1>10, <1>11, <1>12, <1>13,
     <1>14, <1>15, <1>16, <1>17 DEF Step

LEMMA NestedStep == ASSUME Plain, Made, Requested, Nested, Step PROVE Nested'
<1> USE Peers DEF Plain, Active, Records
<1>1. ASSUME NEW c \in Calls, NEW m \in Records, Makes(c, m) PROVE Nested'
  BY <1>1 DEF Nested, Makes, WireKept, MailKept, Made
<1>2. ASSUME NEW c \in Calls, Sends(c) PROVE Nested'
  BY <1>2 DEF Nested, Sends, WireSent, MailKept
<1>3. ASSUME NEW c \in Calls, Drops(c) PROVE Nested'
  BY <1>3 DEF Nested, Drops, Unsent, WireKept, MailKept
<1>4. ASSUME NEW c \in Calls, Takes(c) PROVE Nested'
  BY <1>4 DEF Nested, Takes, WireKept, MailDropped
<1>5. ASSUME NEW c \in Calls, TimesOut(c) PROVE Nested'
  BY <1>5 DEF Nested, TimesOut, TimeOut, WireKept, MailKept
<1>6. ASSUME NEW c \in Calls, Forgets(c) PROVE Nested'
  BY <1>6 DEF Nested, Forgets, MailDropped
<1>7. ASSUME NEW s \in Sides, NEW o \in Objects, LetsGo(s, o) PROVE Nested'
  BY <1>7 DEF Nested, LetsGo, WireSent, MailKept
<1>8. ASSUME NEW s \in Sides, NEW c \in Calls, NEW st \in Refusals, Refuses(s, c, st) PROVE Nested'
  BY <1>8 DEF Nested, Refuses, MailTaken, Waits, Requested
<1>9. ASSUME NEW c \in Calls, Begins(c) PROVE Nested'
  BY <1>9 DEF Nested, Begins, MailTaken, WireKept, Requested
<1>10. ASSUME NEW c \in Calls, Replies(c) PROVE Nested'
  BY <1>10 DEF Nested, Replies, MailKept, WireSent
<1>11. ASSUME NEW c \in Calls, Queues(c) PROVE Nested'
  BY <1>11 DEF Nested, Queues, MailKept, WireTaken, Requested
<1>12. ASSUME NEW c \in Calls, NEW what \in AnswerKinds, Finishes(c, what) PROVE Nested'
  BY <1>12 DEF Nested, Finishes, Finish, MailKept, WireKept, RunnerFree
<1>13. ASSUME NEW c \in Calls, NEW st \in Statuses, Delivers(c, st) PROVE Nested'
  BY <1>13 DEF Nested, Delivers
<1>14. ASSUME NEW s \in Sides, NEW c \in Calls, Cancels(s, c) PROVE Nested'
  BY <1>14 DEF Nested, Cancels, MailKept, WireTaken
<1>15. ASSUME NEW s \in Sides, NEW o \in Objects, Releases(s, o) PROVE Nested'
  BY <1>15 DEF Nested, Releases, MailKept, WireTaken
<1>16. ASSUME NEW s \in Sides, Falls(s) PROVE Nested'
  BY <1>16 DEF Nested, Falls
<1>17. CASE Idles
  BY <1>17 DEF Nested, Idles, WireKept, MailKept
<1> QED BY <1>1, <1>2, <1>3, <1>4, <1>5, <1>6, <1>7, <1>8, <1>9, <1>10, <1>11, <1>12, <1>13,
     <1>14, <1>15, <1>16, <1>17 DEF Step

LEMMA CancelledStep == ASSUME Plain, Made, Requested, Cancelled, Step PROVE Cancelled'
<1> USE FramesUnlike, Peers DEF Plain, Up, Sides
<1>1. ASSUME NEW c \in Calls, NEW m \in Records, Makes(c, m) PROVE Cancelled'
  BY <1>1 DEF Cancelled, Makes, WireKept, MailKept
<1>2. ASSUME NEW c \in Calls, Sends(c) PROVE Cancelled'
  BY <1>2 DEF Cancelled, Sends, WireSent, MailKept
<1>3. ASSUME NEW c \in Calls, Drops(c) PROVE Cancelled'
  BY <1>3 DEF Cancelled, Drops, Unsent, WireKept, MailKept
<1>4. ASSUME NEW c \in Calls, Takes(c) PROVE Cancelled'
  BY <1>4 DEF Cancelled, Takes, WireKept, MailDropped
<1>5. ASSUME NEW c \in Calls, TimesOut(c) PROVE Cancelled'
  BY <1>5 DEF Cancelled, TimesOut, TimeOut, WireKept, MailKept
<1>6. ASSUME NEW c \in Calls, Forgets(c) PROVE Cancelled'
  BY <1>6 DEF Cancelled, Forgets, MailDropped
<1>7. ASSUME NEW s \in Sides, NEW o \in Objects, LetsGo(s, o) PROVE Cancelled'
  BY <1>7 DEF Cancelled, LetsGo, WireSent, MailKept
<1>8. ASSUME NEW s \in Sides, NEW c \in Calls, NEW st \in Refusals, Refuses(s, c, st)
      PROVE  Cancelled'
  BY <1>8 DEF Cancelled, Refuses, MailTaken
<1>9. ASSUME NEW c \in Calls, Begins(c) PROVE Cancelled'
  BY <1>9 DEF Cancelled, Begins, MailTaken, WireKept
<1>10. ASSUME NEW c \in Calls, Replies(c) PROVE Cancelled'
  BY <1>10 DEF Cancelled, Replies, MailKept, WireSent
<1>11. ASSUME NEW c \in Calls, Queues(c) PROVE Cancelled'
  BY <1>11 DEF Cancelled, Queues, MailKept, WireTaken
<1>12. ASSUME NEW c \in Calls, NEW what \in AnswerKinds, Finishes(c, what) PROVE Cancelled'
  BY <1>12 DEF Cancelled, Finishes, Finish, MailKept, WireKept
<1>13. ASSUME NEW c \in Calls, NEW st \in Statuses, Delivers(c, st) PROVE Cancelled'
  BY <1>13 DEF Cancelled, Delivers
<1>14. ASSUME NEW s \in Sides, NEW c \in Calls, Cancels(s, c) PROVE Cancelled'
  BY <1>14 DEF Cancelled, Cancels, MailKept, WireTaken
<1>15. ASSUME NEW s \in Sides, NEW o \in Objects, Releases(s, o) PROVE Cancelled'
  BY <1>15 DEF Cancelled, Releases, MailKept, WireTaken
<1>16. ASSUME NEW s \in Sides, Falls(s) PROVE Cancelled'
  BY <1>16 DEF Cancelled, Falls
<1>17. CASE Idles
  BY <1>17 DEF Cancelled, Idles, WireKept, MailKept
<1> QED BY <1>1, <1>2, <1>3, <1>4, <1>5, <1>6, <1>7, <1>8, <1>9, <1>10, <1>11, <1>12, <1>13,
     <1>14, <1>15, <1>16, <1>17 DEF Step

LEMMA GoneToldStep == ASSUME Plain, Made, GoneTold, Step PROVE GoneTold'
<1> USE FramesUnlike, Peers DEF Plain, Records, Registered
<1>1. ASSUME NEW c \in Calls, NEW m \in Records, Makes(c, m) PROVE GoneTold'
  BY <1>1 DEF GoneTold, Makes, WireKept, MailKept
<1>2. ASSUME NEW c \in Calls, Sends(c) PROVE GoneTold'
  BY <1>2 DEF GoneTold, Sends, WireSent, MailKept
<1>3. ASSUME NEW c \in Calls, Drops(c) PROVE GoneTold'
  BY <1>3 DEF GoneTold, Drops, Unsent, WireKept, MailKept
<1>4. ASSUME NEW c \in Calls, Takes(c) PROVE GoneTold'
  BY <1>4 DEF GoneTold, Takes, WireKept, MailDropped, Unlent
<1>5. ASSUME NEW c \in Calls, TimesOut(c) PROVE GoneTold'
  BY <1>5 DEF GoneTold, TimesOut, TimeOut, WireKept, MailKept
<1>6. ASSUME NEW c \in Calls, Forgets(c) PROVE GoneTold'
  BY <1>6 DEF GoneTold, Forgets, MailDropped, Unlent
<1>7. ASSUME NEW s \in Sides, NEW o \in Objects, LetsGo(s, o) PROVE GoneTold'
  BY <1>7 DEF GoneTold, LetsGo, WireSent, MailKept
<1>8. ASSUME NEW s \in Sides, NEW c \in Calls, NEW st \in Refusals, Refuses(s, c, st)
      PROVE  GoneTold'
  BY <1>8 DEF GoneTold, Refuses, MailTaken, LetGoExports
<1>9. ASSUME NEW c \in Calls, Begins(c) PROVE GoneTold'
  BY <1>9 DEF GoneTold, Begins, MailTaken, WireKept
<1>10. ASSUME NEW c \in Calls, Replies(c) PROVE GoneTold'
  BY <1>10 DEF GoneTold, Replies, MailKept, WireSent
<1>11. ASSUME NEW c \in Calls, Queues(c) PROVE GoneTold'
  BY <1>11 DEF GoneTold, Queues, MailKept, WireTaken
<1>12. ASSUME NEW c \in Calls, NEW what \in AnswerKinds, Finishes(c, what) PROVE GoneTold'
  BY <1>12 DEF GoneTold, Finishes, Finish, MailKept, WireKept
<1>13. ASSUME NEW c \in Calls, NEW st \in Statuses, Delivers(c, st) PROVE GoneTold'
  BY <1>13 DEF GoneTold, Delivers
<1>14. ASSUME NEW s \in Sides, NEW c \in Calls, Cancels(s, c) PROVE GoneTold'
  BY <1>14 DEF GoneTold, Cancels, MailKept, WireTaken
<1>15. ASSUME NEW s \in Sides, NEW o \in Objects, Releases(s, o) PROVE GoneTold'
  BY <1>15 DEF GoneTold, Releases, MailKept, WireTaken
<1>16. ASSUME NEW s \in Sides, Falls(s) PROVE GoneTold'
  BY <1>16 DEF GoneTold, Falls
<1>17. CASE Idles
  BY <1>17 DEF GoneTold, Idles, WireKept, MailKept
<1> QED BY <1>1, <1>2, <1>3, <1>4, <1>5, <1>6, <1>7, <1>8, <1>9, <1>10, <1>11, <1>12, <1>13,
     <1>14, <1>15, <1>16, <1>17 DEF Step

-----------------------------------------------------------------------------
(* What stands for an object moves from one place to another.              *)

\* Nothing comes to stand for an object, but k of x for o.
Loses == \A o \in Objects : \A k \in Kinds : \A x \in Bearers : Has(o, k, x)' => Has(o, k, x)
Gets(n, l, y) ==
  \A o \in Objects : \A k \in Kinds : \A x \in Bearers :
    Has(o, k, x)' => Has(o, k, x) \/ (o = n /\ k = l /\ x = y)

\* Which then alone stands for it.
Alone(n, l, y) == \A k \in Kinds : \A x \in Bearers : Has(n, k, x)' => k = l /\ x = y

LEMMA OneStays == ASSUME HasOne, Loses PROVE HasOne'
BY DEF HasOne, Loses

LEMMA OneMoves ==
  ASSUME HasOne, NEW n \in Objects, NEW l \in Kinds, NEW y \in Bearers, Gets(n, l, y), Alone(n, l, y)
  PROVE  HasOne'
BY DEF HasOne, Gets, Alone

\* What stood for the object has gone, so nothing else does.
LEMMA MovesAlone ==
  ASSUME HasOne, NEW n \in Objects, NEW l \in Kinds, NEW y \in Bearers, Gets(n, l, y),
         NEW k \in Kinds, NEW x \in Bearers, Has(n, k, x), ~Has(n, k, x)'
  PROVE  Alone(n, l, y)
BY DEF HasOne, Gets, Alone

LEMMA LosesSome ==
  ASSUME Plain, Made, Requested, Replied, NEW c \in Calls,
         Sends(c) \/ Drops(c) \/ TimesOut(c) \/ Forgets(c) \/ Replies(c) \/ Queues(c)
  PROVE  Loses
<1> USE FramesUnlike, Peers DEF Plain, Loses, Has
<1>1. CASE Sends(c)
  BY <1>1 DEF Journeys, Answering, Sends, WireSent, MailKept
<1>2. CASE Drops(c)
  BY <1>2 DEF Journeys, Answering, Drops, Unsent, WireKept, MailKept
<1>3. CASE TimesOut(c)
  BY <1>3 DEF Journeys, Answering, TimesOut, TimeOut, WireKept, MailKept
<1>4. CASE Forgets(c)
  BY <1>4 DEF Journeys, Answering, Forgets, MailDropped
<1>5. CASE Replies(c)
  BY <1>5 DEF Journeys, Answering, Replies, WireSent, MailKept
<1>6. CASE Queues(c)
  <2>1. Journeys(c)
    BY <1>6 DEF Journeys, Queues, Records
  <2>2. \A d \in Calls : d # c => (Journeys(d)' => Journeys(d))
    BY <1>6 DEF Journeys, Queues, WireTaken, MailKept
  <2>3. \A d \in Calls : Answering(d)' => Answering(d)
    BY <1>6 DEF Answering, Queues, WireTaken, MailKept, Requested, Records
  <2>4. /\ \A o \in Objects, x \in Sides : UnderWay(x, Release(o))' => UnderWay(x, Release(o))
        /\ handles' = handles /\ call' = call
    BY <1>6 DEF Queues, WireTaken
  <2> QED BY <2>1, <2>2, <2>3, <2>4
<1> QED BY <1>1, <1>2, <1>3, <1>4, <1>5, <1>6

LEMMA LosesMore ==
  ASSUME Plain, NEW s \in Sides,
         \/ \E c \in Calls : Cancels(s, c)
         \/ \E o \in Objects : Releases(s, o)
         \/ Falls(s)
         \/ Idles
  PROVE  Loses
<1> USE FramesUnlike, Peers DEF Plain, Loses, Has
<1>1. ASSUME NEW c \in Calls, Cancels(s, c) PROVE Loses
  BY <1>1 DEF Journeys, Answering, Cancels, WireTaken, MailKept
<1>2. ASSUME NEW o \in Objects, Releases(s, o) PROVE Loses
  BY <1>2 DEF Journeys, Answering, Releases, WireTaken, MailKept
<1>3. CASE Falls(s)
  BY <1>3 DEF Journeys, Answering, Falls
<1>4. CASE Idles
  BY <1>4 DEF Journeys, Answering, Idles, WireKept, MailKept
<1> QED BY <1>1, <1>2, <1>3, <1>4

LEMMA MakesHas ==
  ASSUME Plain, Made, Requested, Replied, HasReason, NEW c \in Calls, NEW m \in Records, Makes(c, m)
  PROVE  /\ m.pass \in {"nothing", "lent"} => Loses
         /\ m.pass = "new" => Gets(Arg(c), "call", c) /\ Alone(Arg(c), "call", c)
         /\ m.pass = "back" => /\ Gets(m.object, "call", c)
                               /\ Has(m.object, "handle", m.side) /\ ~Has(m.object, "handle", m.side)'
<1> USE DEF Plain
<1>1. \A d \in Calls : d # c => (Journeys(d)' <=> Journeys(d)) /\ call'[d] = call[d]
  BY DEF Makes, Journeys, WireKept, MailKept
<1>2. \A d \in Calls : Answering(d)' => Answering(d)
  BY DEF Makes, Answering, WireKept, MailKept
<1>3. \A o \in Objects, x \in Sides : UnderWay(x, Release(o))' => UnderWay(x, Release(o))
  BY DEF Makes, WireKept
<1>4. \A o \in Objects, x \in Sides : o \in handles'[x] =>
        o \in handles[x] /\ ~(m.pass = "back" /\ o = m.object /\ x = m.side)
  BY DEF Makes, Records
<1>5. call'[c] = m
  BY DEF Makes
<1>6. Gets(m.object, "call", c)
  BY <1>1, <1>2, <1>3, <1>4, <1>5 DEF Gets, Has
<1>7. m.pass \in {"nothing", "lent"} => Loses
  BY <1>1, <1>2, <1>3, <1>4, <1>5 DEF Loses, Has
<1>8. m.pass = "new" => m.object = Arg(c)
  BY DEF Makes
<1>9. m.pass = "new" => Alone(Arg(c), "call", c)
  BY <1>6, <1>8, ObjectsDiffer DEF Gets, Alone, Makes, HasReason
<1>10. m.pass = "back" => Has(m.object, "handle", m.side) /\ ~Has(m.object, "handle", m.side)'
  BY <1>4 DEF Has, Makes, Records
<1> QED BY <1>6, <1>7, <1>8, <1>9, <1>10

LEMMA TakesHas ==
  ASSUME Plain, Made, Requested, Replied, HasOne, NEW c \in Calls, Takes(c)
  PROVE  \/ Loses
         \/ /\ Has(Ans(c), "answer", c)
            /\ Gets(Ans(c), "handle", call[c].side) /\ Alone(Ans(c), "handle", call[c].side)
<1> USE DEF Plain
<1>1. call[c].side \in Sides /\ Ans(c) \in Objects
  BY ObjectsDiffer DEF Records
<1>2. \A d \in Calls : Journeys(d)' => Journeys(d)
  BY DEF Takes, Journeys, WireKept, MailDropped
<1>3. \A d \in Calls : Answering(d)' => Answering(d)
  BY DEF Takes, Answering, WireKept, MailDropped
<1>4. \A o \in Objects, x \in Sides : UnderWay(x, Release(o))' => UnderWay(x, Release(o))
  BY DEF Takes, WireKept
<1>5. call' = call
  BY DEF Takes
<1>6. CASE handles' = handles
  BY <1>2, <1>3, <1>4, <1>5, <1>6 DEF Loses, Has
<1>7. CASE /\ Mailed(c, Reply(c, "object"))
           /\ handles' = [handles EXCEPT ![call[c].side] = @ \cup {Ans(c)}]
  <2>1. Has(Ans(c), "answer", c)
    BY <1>7 DEF Has, Answering
  <2>2. ~Answering(c)'
    BY <1>7 DEF Answering, Takes, WireKept, MailDropped, Replied, Statuses, AnswerKinds
  <2>3. ~Has(Ans(c), "answer", c)'
    BY <2>2 DEF Has
  <2>4. Gets(Ans(c), "handle", call[c].side)
    BY <1>1, <1>2, <1>3, <1>4, <1>5, <1>7 DEF Gets, Has
  <2>5. Alone(Ans(c), "handle", call[c].side)
    BY <1>1, <2>1, <2>3, <2>4, MovesAlone DEF Kinds, Bearers
  <2> QED BY <2>1, <2>4, <2>5
<1> QED BY <1>6, <1>7 DEF Takes

LEMMA LetsGoHas ==
  ASSUME Plain, HasOne, NEW s \in Sides, NEW o \in Objects, LetsGo(s, o)
  PROVE  Has(o, "handle", s) /\ Gets(o, "release", s) /\ Alone(o, "release", s)
<1> USE DEF Plain
<1>1. \A d \in Calls : Journeys(d)' => Journeys(d)
  BY FramesUnlike DEF LetsGo, Journeys, WireSent, MailKept
<1>2. Gets(o, "release", s)
  BY <1>1, FramesUnlike DEF Gets, Has, LetsGo, WireSent, Answering, MailKept
<1>3. Has(o, "handle", s) /\ ~Has(o, "handle", s)'
  BY DEF Has, LetsGo
<1> QED BY <1>2, <1>3, MovesAlone DEF Kinds, Bearers

LEMMA RefusesHas ==
  ASSUME Plain, Made, Requested, HasOne, NEW s \in Sides, NEW c \in Calls, NEW st \in Refusals,
         Refuses(s, c, st)
  PROVE  /\ call[c].pass \in {"new", "back"} => Has(call[c].object, "call", c)
         /\ \A n \in Objects : ~Has(n, "call", c)'
         /\ \/ Loses
            \/ /\ call[c].pass = "new"
               /\ Gets(Arg(c), "release", s) /\ Alone(Arg(c), "release", s)
<1> USE DEF Plain
<1>1. Journeys(c) /\ call[c].parent \in Calls \cup {0} /\ call[c].side \in Sides
  BY DEF Refuses, Waits, Journeys, Records
<1>2. ~Journeys(c)'
  <2>1. at[c] # "sending"
    BY DEF Refuses, Waits, Requested, Records
  <2>2. \A x \in Sides : ~UnderWay(x, CallFrame(c))'
    BY FramesUnlike DEF Refuses
  <2>3. \A p \in Calls : ~Mailed(p, CallFrame(c))'
    BY DEF Refuses, MailTaken
  <2> QED BY <2>1, <2>2, <2>3 DEF Journeys, Refuses
<1>3. \A d \in Calls : Journeys(d)' => Journeys(d)
  <2>1. \A d \in Calls : d # c => run'[d] = run[d] /\ at'[d] = at[d]
    BY DEF Refuses
  <2>2. \A x \in Sides, d \in Calls : UnderWay(x, CallFrame(d))' => UnderWay(x, CallFrame(d))
    BY FramesUnlike DEF Refuses
  <2>3. \A p \in Calls, d \in Calls : Mailed(p, CallFrame(d))' => Mailed(p, CallFrame(d))
    BY DEF Refuses, MailTaken
  <2> QED BY <1>1, <2>1, <2>2, <2>3 DEF Journeys
<1>4. \A d \in Calls : Answering(d)' => Answering(d)
  <2> QED BY FramesUnlike DEF Answering, Refuses, Refusals, MailTaken
<1>5. \A n \in Objects, x \in Sides : UnderWay(x, Release(n))' =>
        UnderWay(x, Release(n)) \/ (n = call[c].object /\ x = s /\ call[c].pass = "new")
  BY FramesUnlike DEF Refuses
<1>6. handles' = handles /\ call' = call
  BY DEF Refuses
<1>7. call[c].pass \in {"new", "back"} => Has(call[c].object, "call", c)
  BY <1>1 DEF Has
<1>8. \A n \in Objects : ~Has(n, "call", c)'
  BY <1>2 DEF Has
<1>9. CASE call[c].pass # "new"
  <2>1. Loses
    BY <1>3, <1>4, <1>5, <1>6, <1>9 DEF Loses, Has
  <2> QED BY <1>7, <1>8, <2>1
<1>10. CASE call[c].pass = "new"
  <2>0. call[c].object = Arg(c) /\ Arg(c) \in Objects
    BY <1>10, ObjectsDiffer DEF Made
  <2>1. Gets(Arg(c), "release", s)
    BY <1>3, <1>4, <1>5, <1>6, <2>0 DEF Gets, Has
  <2>2. Alone(Arg(c), "release", s)
    BY <1>7, <1>8, <1>10, <2>0, <2>1, MovesAlone DEF Kinds, Bearers
  <2> QED BY <1>7, <1>8, <1>10, <2>1, <2>2
<1> QED BY <1>9, <1>10

LEMMA BeginsHas ==
  ASSUME Plain, Made, Requested, HasOne, NEW c \in Calls, Begins(c)
  PROVE  /\ call[c].pass \in {"new", "back"} => Has(call[c].object, "call", c)
         /\ \A n \in Objects : ~Has(n, "call", c)'
         /\ \/ Loses
            \/ /\ call[c].pass = "new"
               /\ Gets(Arg(c), "handle", Peer(call[c].side))
               /\ Alone(Arg(c), "handle", Peer(call[c].side))
<1> USE DEF Plain
<1>1. /\ Journeys(c) /\ call[c].parent \in Calls \cup {0}
      /\ call[c].side \in Sides /\ Peer(call[c].side) \in Sides
  BY Peers DEF Begins, Journeys, Records
<1>2. ~Journeys(c)'
  <2>1. at[c] # "sending" /\ \A x \in Sides : ~UnderWay(x, CallFrame(c))
    BY DEF Begins, Requested, Records
  <2>2. \A x \in Sides : ~UnderWay(x, CallFrame(c))'
    BY <2>1 DEF Begins, WireKept
  <2>3. \A p \in Calls : ~Mailed(p, CallFrame(c))'
    BY DEF Begins, MailTaken
  <2> QED BY <2>1, <2>2, <2>3 DEF Journeys, Begins
<1>3. \A d \in Calls : Journeys(d)' => Journeys(d)
  <2>1. \A d \in Calls : d # c => run'[d] = run[d] /\ at'[d] = at[d]
    BY DEF Begins
  <2>2. \A x \in Sides, d \in Calls : UnderWay(x, CallFrame(d))' => UnderWay(x, CallFrame(d))
    BY DEF Begins, WireKept
  <2>3. \A p \in Calls, d \in Calls : Mailed(p, CallFrame(d))' => Mailed(p, CallFrame(d))
    BY DEF Begins, MailTaken
  <2> QED BY <1>1, <2>1, <2>2, <2>3 DEF Journeys
<1>4. \A d \in Calls : Answering(d)' => Answering(d)
  BY DEF Answering, Begins, MailTaken, WireKept
<1>5. \A n \in Objects, x \in Sides : UnderWay(x, Release(n))' => UnderWay(x, Release(n))
  BY DEF Begins, WireKept
<1>6. /\ call' = call
      /\ \A n \in Objects, x \in Sides : n \in handles'[x] =>
           n \in handles[x] \/ (call[c].pass = "new" /\ n = call[c].object /\ x = Peer(call[c].side))
  BY <1>1 DEF Begins
<1>7. call[c].pass \in {"new", "back"} => Has(call[c].object, "call", c)
  BY <1>1 DEF Has
<1>8. \A n \in Objects : ~Has(n, "call", c)'
  BY <1>2 DEF Has
<1>9. CASE call[c].pass # "new"
  <2>1. Loses
    BY <1>3, <1>4, <1>5, <1>6, <1>9 DEF Loses, Has
  <2> QED BY <1>7, <1>8, <2>1
<1>10. CASE call[c].pass = "new"
  <2>0. call[c].object = Arg(c) /\ Arg(c) \in Objects
    BY <1>10, ObjectsDiffer DEF Made
  <2>1. Gets(Arg(c), "handle", Peer(call[c].side))
    BY <1>3, <1>4, <1>5, <1>6, <2>0 DEF Gets, Has
  <2>2. Alone(Arg(c), "handle", Peer(call[c].side))
    BY <1>1, <1>7, <1>8, <1>10, <2>0, <2>1, MovesAlone DEF Kinds, Bearers
  <2> QED BY <1>7, <1>8, <1>10, <2>1, <2>2
<1> QED BY <1>9, <1>10

LEMMA FinishesHas ==
  ASSUME Plain, HasReason, NEW c \in Calls, NEW what \in AnswerKinds, Finishes(c, what)
  PROVE  \/ Loses
         \/ /\ Ans(c) \in exports'[Peer(call[c].side)]
            /\ Gets(Ans(c), "answer", c) /\ Alone(Ans(c), "answer", c)
<1> USE DEF Plain
<1>1. \A d \in Calls : Journeys(d)' => Journeys(d)
  BY DEF Journeys, Finishes, Finish, WireKept, MailKept
<1>2. \A d \in Calls : d # c => (Answering(d)' => Answering(d))
  BY DEF Answering, Finishes, Finish, WireKept, MailKept
<1>3. \A n \in Objects, x \in Sides : UnderWay(x, Release(n))' => UnderWay(x, Release(n))
  BY DEF Finishes, WireKept
<1>4. handles' = handles /\ call' = call
  BY DEF Finishes, Finish
<1>5. Gets(Ans(c), "answer", c)
  BY <1>1, <1>2, <1>3, <1>4 DEF Gets, Has
<1>6. \A k \in Kinds : \A x \in Bearers : ~Has(Ans(c), k, x)
  BY ObjectsDiffer DEF HasReason, Finishes, Finish
<1>7. ~Answering(c)
  BY <1>6, ObjectsDiffer DEF Has, Kinds, Bearers
<1>8. CASE Answering(c)'
  <2>1. Ans(c) \in exports'[Peer(call[c].side)]
    BY <1>7, <1>8, Peers DEF Finishes, Finish, Records, Answering, WireKept, MailKept
  <2> QED BY <1>5, <1>6, ObjectsDiffer, <2>1 DEF Gets, Alone
<1>9. CASE ~Answering(c)'
  <2>1. Loses
    BY <1>1, <1>2, <1>3, <1>4, <1>9 DEF Loses, Has
  <2> QED BY <2>1
<1> QED BY <1>8, <1>9

LEMMA DeliversHas ==
  ASSUME Plain, Made, Requested, Replied, HasOne, NEW c \in Calls, NEW st \in Statuses, Delivers(c, st)
  PROVE  \/ Loses
         \/ /\ Has(Ans(c), "answer", c)
            /\ Gets(Ans(c), "release", call[c].side) /\ Alone(Ans(c), "release", call[c].side)
<1> USE DEF Plain
<1>1. call[c].side \in Sides /\ Peer(call[c].side) \in Sides /\ Ans(c) \in Objects
  BY ObjectsDiffer, Peers DEF Records
<1>2. \A d \in Calls : Journeys(d)' => Journeys(d)
  BY FramesUnlike DEF Journeys, Delivers
<1>3. \A d \in Calls : d # c => (Answering(d)' => Answering(d))
  BY FramesUnlike DEF Answering, Delivers
<1>4. \A n \in Objects, x \in Sides : UnderWay(x, Release(n))' =>
        \/ UnderWay(x, Release(n))
        \/ n = Ans(c) /\ x = call[c].side /\ ~Registered(c) /\ st = "object"
  BY FramesUnlike DEF Delivers
<1>5. handles' = handles /\ call' = call
  BY DEF Delivers
<1>6. Answering(c)' => Answering(c)
  BY <1>1, FramesUnlike DEF Answering, Delivers
<1>7. CASE Registered(c) \/ st # "object"
  BY <1>2, <1>3, <1>4, <1>5, <1>6, <1>7 DEF Loses, Has
<1>8. CASE ~Registered(c) /\ st = "object"
  <2>1. Answering(c)
    BY <1>1, <1>8 DEF Answering, Delivers
  <2>2. ~Answering(c)'
    <3>1. \A x \in Sides : ~UnderWay(x, Reply(c, "object"))'
      BY <1>8, FramesUnlike DEF Delivers, Replied
    <3>2. ~Mailed(c, Reply(c, "object"))'
      BY <1>8 DEF Delivers
    <3>3. run'[c] # "replying"
      BY <1>1 DEF Delivers, Replied
    <3> QED BY <3>1, <3>2, <3>3 DEF Answering
  <2>3. Has(Ans(c), "answer", c) /\ ~Has(Ans(c), "answer", c)'
    BY <2>1, <2>2 DEF Has
  <2>4. Gets(Ans(c), "release", call[c].side)
    BY <1>2, <1>3, <1>4, <1>5, <1>6 DEF Gets, Has
  <2>5. Alone(Ans(c), "release", call[c].side)
    BY <1>1, <2>3, <2>4, MovesAlone DEF Kinds, Bearers
  <2> QED BY <2>3, <2>4, <2>5
<1> QED BY <1>7, <1>8

\* A call is made once, and what it is does not change; a run that is over stays
\* over.
Grows ==
  \A c \in Calls :
    /\ at[c] # "unmade" => at'[c] # "unmade" /\ call'[c] = call[c]
    /\ run[c] \in {"replying", "over"} => run'[c] \in {"replying", "over"}

LEMMA StepGrows == ASSUME Plain, Made, Requested, Step PROVE Grows
<1> USE DEF Plain, Records
<1>1. ASSUME NEW c \in Calls, NEW m \in Records, Makes(c, m) PROVE Grows
  BY <1>1 DEF Grows, Makes, WireKept, MailKept
<1>2. ASSUME NEW c \in Calls, Sends(c) PROVE Grows
  BY <1>2 DEF Grows, Sends, WireSent, MailKept
<1>3. ASSUME NEW c \in Calls, Drops(c) PROVE Grows
  BY <1>3 DEF Grows, Drops, Unsent, WireKept, MailKept
<1>4. ASSUME NEW c \in Calls, Takes(c) PROVE Grows
  BY <1>4 DEF Grows, Takes, WireKept, MailDropped
<1>5. ASSUME NEW c \in Calls, TimesOut(c) PROVE Grows
  BY <1>5 DEF Grows, TimesOut, TimeOut, WireKept, MailKept
<1>6. ASSUME NEW c \in Calls, Forgets(c) PROVE Grows
  BY <1>6 DEF Grows, Forgets, MailDropped
<1>7. ASSUME NEW s \in Sides, NEW o \in Objects, LetsGo(s, o) PROVE Grows
  BY <1>7 DEF Grows, LetsGo, WireSent, MailKept
<1>8. ASSUME NEW s \in Sides, NEW c \in Calls, NEW st \in Refusals, Refuses(s, c, st) PROVE Grows
  BY <1>8 DEF Grows, Refuses, MailTaken, Waits
<1>9. ASSUME NEW c \in Calls, Begins(c) PROVE Grows
  BY <1>9 DEF Grows, Begins, MailTaken, WireKept, Requested
<1>10. ASSUME NEW c \in Calls, Replies(c) PROVE Grows
  BY <1>10 DEF Grows, Replies, MailKept, WireSent
<1>11. ASSUME NEW c \in Calls, Queues(c) PROVE Grows
  BY <1>11 DEF Grows, Queues, MailKept, WireTaken, Requested
<1>12. ASSUME NEW c \in Calls, NEW what \in AnswerKinds, Finishes(c, what) PROVE Grows
  BY <1>12 DEF Grows, Finishes, Finish, MailKept, WireKept
<1>13. ASSUME NEW c \in Calls, NEW st \in Statuses, Delivers(c, st) PROVE Grows
  BY <1>13 DEF Grows, Delivers
<1>14. ASSUME NEW s \in Sides, NEW c \in Calls, Cancels(s, c) PROVE Grows
  BY <1>14 DEF Grows, Cancels, MailKept, WireTaken
<1>15. ASSUME NEW s \in Sides, NEW o \in Objects, Releases(s, o) PROVE Grows
  BY <1>15 DEF Grows, Releases, MailKept, WireTaken
<1>16. ASSUME NEW s \in Sides, Falls(s) PROVE Grows
  BY <1>16 DEF Grows, Falls
<1>17. CASE Idles
  BY <1>17 DEF Grows, Idles, WireKept, MailKept
<1> QED BY <1>1, <1>2, <1>3, <1>4, <1>5, <1>6, <1>7, <1>8, <1>9, <1>10, <1>11, <1>12, <1>13,
     <1>14, <1>15, <1>16, <1>17 DEF Step

\* What stands for an object names a call that was made.
LEMMA HasMade ==
  ASSUME Plain, Made, Requested, Replied,
         NEW o \in Objects, NEW k \in Kinds, NEW x \in Bearers, Has(o, k, x)
  PROVE  /\ k \in {"handle", "release"} => x \in Sides
         /\ k \in {"call", "answer"} => x \in Calls /\ at[x] # "unmade"
<1>1. CASE k = "call"
  BY <1>1 DEF Has, Made, Unmade
<1>2. CASE k = "answer"
  <2>1. x \in Calls /\ Answering(x)
    BY <1>2 DEF Has
  <2> QED BY <1>2, <2>1 DEF Requested, Answering, Replied, Statuses, AnswerKinds
<1>3. CASE k \in {"handle", "release"}
  BY <1>3 DEF Has
<1> QED BY <1>1, <1>2, <1>3 DEF Kinds

LEMMA ReasonStays == ASSUME HasReason, Loses, Grows PROVE HasReason'
BY DEF HasReason, Loses, Grows

\* What moves had its reason.
LEMMA ReasonMoves ==
  ASSUME HasReason, Grows, NEW n \in Objects, NEW l \in Kinds, NEW y \in Bearers, Gets(n, l, y),
         \/ \E k \in Kinds : \E x \in Bearers : Has(n, k, x)
         \/ \A c \in Calls :
              /\ n = Arg(c) => at'[c] # "unmade" /\ call'[c].pass = "new"
              /\ n = Ans(c) => run'[c] \in {"replying", "over"}
  PROVE  HasReason'
BY DEF HasReason, Gets, Grows

\* What a side holds no longer, nothing stands for.
Sheds ==
  \A o \in Objects, s \in Sides : o \in exports[s] /\ o \notin exports'[s] =>
    \A k \in Kinds : \A x \in Bearers : ~Has(o, k, x)'

LEMMA UserStays ==
  ASSUME Plain, Made, Requested, Replied, Grows,
         NEW o \in Objects, NEW k \in Kinds, NEW x \in Bearers, Has(o, k, x)
  PROVE  User(k, x)' = User(k, x) /\ Peer(User(k, x)) \in Sides
BY HasMade, Peers DEF User, Grows, Kinds, Plain, Records

LEMMA HeldStays ==
  ASSUME Plain, Made, Requested, Replied, HasHeld, Up' => Up, Loses, Grows, Sheds PROVE HasHeld'
<1> SUFFICES ASSUME Up', NEW o \in Objects, NEW k \in Kinds, NEW x \in Bearers, Has(o, k, x)'
             PROVE  o \in exports'[Peer(User(k, x)')]
  BY DEF HasHeld, Peer
<1>1. Has(o, k, x) /\ Up
  BY DEF Loses
<1>2. o \in exports[Peer(User(k, x))] /\ User(k, x)' = User(k, x) /\ Peer(User(k, x)) \in Sides
  BY <1>1, UserStays DEF HasHeld
<1> QED BY <1>2 DEF Sheds

LEMMA HeldMoves ==
  ASSUME Plain, Made, Requested, Replied, HasHeld, Up' => Up, Grows, Sheds,
         NEW n \in Objects, NEW l \in Kinds, NEW y \in Bearers, Gets(n, l, y),
         Up' => n \in exports'[Peer(User(l, y)')]
  PROVE  HasHeld'
<1> SUFFICES ASSUME Up', NEW o \in Objects, NEW k \in Kinds, NEW x \in Bearers, Has(o, k, x)'
             PROVE  o \in exports'[Peer(User(k, x)')]
  BY DEF HasHeld, Peer
<1>1. CASE o = n /\ k = l /\ x = y
  BY <1>1
<1>2. CASE Has(o, k, x)
  <2>1. Up
    OBVIOUS
  <2> QED BY <1>2, <2>1, UserStays DEF Sheds, HasHeld
<1> QED BY <1>1, <1>2 DEF Gets

LEMMA ObjectsStep ==
  ASSUME Plain, Made, Requested, Replied, HasOne, HasReason, Step
  PROVE  HasOne' /\ HasReason'
<1>0. Grows
  BY StepGrows
<1>1. ASSUME NEW c \in Calls, NEW m \in Records, Makes(c, m) PROVE HasOne' /\ HasReason'
  <2>1. m.pass \in {"nothing", "lent", "new", "back"} /\ m.side \in Sides /\ Arg(c) \in Objects
    BY ObjectsDiffer DEF Records, PassKinds
  <2>2. CASE m.pass \in {"nothing", "lent"}
    BY <1>0, <1>1, <2>2, MakesHas, OneStays, ReasonStays
  <2>3. CASE m.pass = "new"
    <3> QED
      BY <1>0, <2>1, <1>1, <2>3, MakesHas, ObjectsDiffer, OneMoves, ReasonMoves
        DEF Kinds, Bearers, Makes, Plain
  <2>4. CASE m.pass = "back"
    <3>1. m.object \in Objects
      BY <1>1, <2>4 DEF Makes, Plain, Records
    <3>2. /\ Gets(m.object, "call", c)
          /\ Has(m.object, "handle", m.side) /\ ~Has(m.object, "handle", m.side)'
      BY <1>1, <2>4, MakesHas
    <3>3. Alone(m.object, "call", c)
      BY <2>1, <3>1, <3>2, MovesAlone DEF Kinds, Bearers
    <3> QED BY <1>0, <2>1, <3>1, <3>2, <3>3, OneMoves, ReasonMoves DEF Kinds, Bearers
  <2> QED BY <2>1, <2>2, <2>3, <2>4
<1>2. CASE Loses
  BY <1>0, <1>2, OneStays, ReasonStays
<1>3. ASSUME NEW n \in Objects, NEW l \in Kinds, NEW y \in Bearers, Gets(n, l, y), Alone(n, l, y),
             NEW k \in Kinds, NEW x \in Bearers, Has(n, k, x)
      PROVE  HasOne' /\ HasReason'
  BY <1>0, <1>3, OneMoves, ReasonMoves
<1>4. \A c \in Calls :
           call[c].side \in Sides /\ Peer(call[c].side) \in Sides /\ Arg(c) \in Objects /\ Ans(c) \in Objects
  BY ObjectsDiffer, Peers DEF Plain, Records
<1>5. ASSUME NEW c \in Calls, Takes(c) PROVE HasOne' /\ HasReason'
  <2>1. CASE /\ Has(Ans(c), "answer", c)
             /\ Gets(Ans(c), "handle", call[c].side) /\ Alone(Ans(c), "handle", call[c].side)
    BY <1>3, <1>4, <2>1 DEF Kinds, Bearers
  <2> QED BY <1>2, <1>5, <2>1, TakesHas
<1>6. ASSUME NEW s \in Sides, NEW o \in Objects, LetsGo(s, o) PROVE HasOne' /\ HasReason'
  BY <1>3, <1>6, LetsGoHas DEF Kinds, Bearers
<1>7. ASSUME NEW s \in Sides, NEW c \in Calls, NEW st \in Refusals, Refuses(s, c, st)
      PROVE  HasOne' /\ HasReason'
  <2>1. CASE /\ call[c].pass = "new"
             /\ Gets(Arg(c), "release", s) /\ Alone(Arg(c), "release", s)
    BY <1>3, <1>4, <2>1, <1>7, RefusesHas DEF Kinds, Bearers, Made
  <2> QED BY <1>2, <1>7, <2>1, RefusesHas
<1>8. ASSUME NEW c \in Calls, Begins(c) PROVE HasOne' /\ HasReason'
  <2>1. CASE /\ call[c].pass = "new"
             /\ Gets(Arg(c), "handle", Peer(call[c].side)) /\ Alone(Arg(c), "handle", Peer(call[c].side))
    BY <1>3, <1>4, <2>1, <1>8, BeginsHas DEF Kinds, Bearers, Made
  <2> QED BY <1>2, <1>8, <2>1, BeginsHas
<1>9. ASSUME NEW c \in Calls, NEW what \in AnswerKinds, Finishes(c, what) PROVE HasOne' /\ HasReason'
  <2>1. CASE Gets(Ans(c), "answer", c) /\ Alone(Ans(c), "answer", c)
    BY <1>0, <1>4, <2>1, <1>9, ObjectsDiffer, OneMoves, ReasonMoves
      DEF Kinds, Bearers, Finishes, Finish, Plain
  <2> QED BY <1>2, <1>9, <2>1, FinishesHas
<1>10. ASSUME NEW c \in Calls, NEW st \in Statuses, Delivers(c, st) PROVE HasOne' /\ HasReason'
  <2>1. CASE /\ Has(Ans(c), "answer", c)
             /\ Gets(Ans(c), "release", call[c].side) /\ Alone(Ans(c), "release", call[c].side)
    BY <1>3, <1>4, <2>1 DEF Kinds, Bearers
  <2> QED BY <1>2, <1>10, <2>1, DeliversHas
<1>11. ASSUME NEW c \in Calls,
              Sends(c) \/ Drops(c) \/ TimesOut(c) \/ Forgets(c) \/ Replies(c) \/ Queues(c)
       PROVE  HasOne' /\ HasReason'
  BY <1>2, <1>11, LosesSome
<1>12. ASSUME NEW s \in Sides,
              (\E c \in Calls : Cancels(s, c)) \/ (\E o \in Objects : Releases(s, o)) \/ Falls(s)
       PROVE  HasOne' /\ HasReason'
  BY <1>2, <1>12, LosesMore
<1>13. CASE Idles
  BY <1>2, <1>13, LosesMore DEF Sides
<1> QED BY <1>1, <1>5, <1>6, <1>7, <1>8, <1>9, <1>10, <1>11, <1>12, <1>13 DEF Step

\* A side lets an object go when it comes back, when it was never sent, when the
\* lending ends, or when the peer says so.
LEMMA ShedsStep ==
  ASSUME Plain, Made, Requested, Replied, HasOne, HasReason, Step, Up'
  PROVE  Sheds
<1> USE DEF Plain
<1>0. Grows /\ HasReason'
  BY StepGrows, ObjectsStep
<1>1. ASSUME \A s \in Sides : exports[s] \subseteq exports'[s] PROVE Sheds
  BY <1>1 DEF Sheds
<1>2. ASSUME NEW n \in Objects, \A o \in Objects, s \in Sides :
                                     o \in exports[s] /\ o \notin exports'[s] => o = n,
             \A k \in Kinds : \A x \in Bearers : ~Has(n, k, x)'
      PROVE  Sheds
  BY <1>2 DEF Sheds
<1>3. ASSUME NEW c \in Calls, NEW m \in Records, Makes(c, m) PROVE Sheds
  BY <1>1, <1>3 DEF Makes
<1>4. ASSUME NEW c \in Calls, NEW what \in AnswerKinds, Finishes(c, what) PROVE Sheds
  BY <1>1, <1>4 DEF Finishes, Finish
<1>5. ASSUME NEW c \in Calls, Drops(c) PROVE Sheds
  <2>1. Arg(c) \in Objects /\ Loses
    BY <1>5, LosesSome, ObjectsDiffer
  <2>2. \A o \in Objects, s \in Sides : o \in exports[s] /\ o \notin exports'[s] => o = Arg(c)
    BY <1>5 DEF Drops, Unsent
  <2>3. ~Has(Arg(c), "call", c)'
    BY <1>5 DEF Has, Journeys, Drops, Unsent, Requested, WireKept, MailKept
  <2>4. ASSUME NEW k \in Kinds, NEW x \in Bearers, Has(Arg(c), k, x)' PROVE FALSE
    <3>1. Has(Arg(c), k, x)
      BY <2>1, <2>4 DEF Loses
    <3>2. call[c].pass = "new"
      BY <2>1, <3>1 DEF HasReason
    <3>3. k = "call" /\ x = c
      BY <2>1, <3>1, <1>5, <3>2 DEF HasOne, Kinds, Bearers, Has, Made, Journeys, Drops, Unsent
    <3> QED BY <2>3, <2>4, <3>3
  <2> QED BY <1>2, <2>1, <2>2, <2>4
<1>6. ASSUME NEW c \in Calls, exports' = Unlent(c), call' = call PROVE Sheds
  <2>1. CASE call[c].pass = "lent"
    <3>1. Arg(c) \in Objects /\ call[c].object = Arg(c)
      BY <2>1, ObjectsDiffer DEF Made
    <3>2. \A o \in Objects, s \in Sides : o \in exports[s] /\ o \notin exports'[s] => o = Arg(c)
      BY <1>6, <3>1 DEF Unlent
    <3>3. \A k \in Kinds : \A x \in Bearers : ~Has(Arg(c), k, x)'
      BY <1>0, <1>6, <2>1, <3>1 DEF HasReason
    <3> QED BY <1>2, <3>1, <3>2, <3>3
  <2>2. CASE call[c].pass # "lent"
    BY <1>1, <1>6, <2>2 DEF Unlent
  <2> QED BY <2>1, <2>2
<1>7. ASSUME NEW c \in Calls, NEW n \in Objects, call[c].pass = "back", call[c].object = n,
             Has(n, "call", c), ~Has(n, "call", c)', Loses,
             \A o \in Objects, s \in Sides : o \in exports[s] /\ o \notin exports'[s] => o = n
      PROVE  Sheds
  BY <1>2, <1>7 DEF HasOne, Loses, Kinds, Bearers
<1>8. ASSUME NEW s \in Sides, NEW c \in Calls, NEW st \in Refusals, Refuses(s, c, st) PROVE Sheds
  <2>1. CASE call[c].pass = "back"
    <3>1. PICK n \in Objects : n = call[c].object
      BY <2>1 DEF Made
    <3>2. Has(n, "call", c) /\ ~Has(n, "call", c)' /\ Loses
      BY <1>8, <2>1, <3>1, RefusesHas
    <3>3. \A o \in Objects, t \in Sides : o \in exports[t] /\ o \notin exports'[t] => o = n
      BY <1>8, <3>1 DEF Refuses, LetGoExports
    <3> QED BY <1>7, <2>1, <3>1, <3>2, <3>3
  <2>2. CASE call[c].pass # "back"
    BY <1>1, <1>8, <2>2 DEF Refuses, LetGoExports
  <2> QED BY <2>1, <2>2
<1>9. ASSUME NEW c \in Calls, Begins(c) PROVE Sheds
  <2>1. CASE call[c].pass = "back"
    <3>1. PICK n \in Objects : n = call[c].object
      BY <2>1 DEF Made
    <3>2. Has(n, "call", c) /\ ~Has(n, "call", c)' /\ Loses
      BY <1>9, <2>1, <3>1, BeginsHas
    <3>3. \A o \in Objects, t \in Sides : o \in exports[t] /\ o \notin exports'[t] => o = n
      BY <1>9, <3>1 DEF Begins
    <3> QED BY <1>7, <2>1, <3>1, <3>2, <3>3
  <2>2. CASE call[c].pass # "back"
    BY <1>1, <1>9, <2>2 DEF Begins
  <2> QED BY <2>1, <2>2
<1>10. ASSUME NEW s \in Sides, NEW o \in Objects, Releases(s, o) PROVE Sheds
  <2>1. Peer(s) \in Sides /\ Loses
    BY <1>10, LosesMore, Peers
  <2>2. \A k \in Kinds : \A x \in Bearers : ~Has(o, k, x)'
    BY <2>1, <1>10 DEF HasOne, Loses, Kinds, Bearers, Has, Releases, WireTaken
  <2>3. \A n \in Objects, t \in Sides : n \in exports[t] /\ n \notin exports'[t] => n = o
    BY <1>10 DEF Releases
  <2> QED BY <1>2, <2>2, <2>3
<1>11. ASSUME NEW s \in Sides, Falls(s) PROVE Sheds
  BY <1>11 DEF Falls, Up, Sides
<1>12. CASE exports' = exports
  BY <1>1, <1>12
<1> QED BY <1>3, <1>4, <1>5, <1>6, <1>8, <1>9, <1>10, <1>11, <1>12
     DEF Step, Sends, Takes, TimesOut, TimeOut, Forgets, LetsGo, Replies, Queues, Delivers, Cancels, Idles

LEMMA HeldKeeps ==
  ASSUME Plain, Made, Requested, Replied, HasHeld, Up' => Up, Grows, Sheds,
         NEW n \in Objects, NEW l \in Kinds, NEW y \in Bearers, Gets(n, l, y),
         NEW k \in Kinds, NEW x \in Bearers, Has(n, k, x), User(l, y)' = User(k, x)
  PROVE  HasHeld'
<1> SUFFICES ASSUME Up', NEW o \in Objects, NEW i \in Kinds, NEW z \in Bearers, Has(o, i, z)'
             PROVE  o \in exports'[Peer(User(i, z)')]
  BY DEF HasHeld, Peer
<1>1. Up
  OBVIOUS
<1>2. CASE Has(o, i, z)
  BY <1>1, <1>2, UserStays DEF Sheds, HasHeld
<1>3. CASE o = n /\ i = l /\ z = y
  BY <1>3, <1>1, UserStays DEF Sheds, HasHeld
<1> QED BY <1>2, <1>3 DEF Gets

LEMMA UpBefore == ASSUME Plain, Step, Up' PROVE Up
<1>1. ASSUME NEW s \in Sides, Falls(s) PROVE FALSE
  BY <1>1 DEF Falls, Up, Sides, Plain
<1>2. CASE alive' = alive
  BY <1>2 DEF Up
<1> QED BY <1>1, <1>2 DEF Step, Makes, Sends, Drops, Unsent, Takes, TimesOut, TimeOut, Forgets, LetsGo,
     Refuses, Begins, Replies, Queues, Finishes, Finish, Delivers, Cancels, Releases, Idles

LEMMA HeldStep ==
  ASSUME Plain, Made, Requested, Replied, HasOne, HasReason, HasHeld, Step
  PROVE  HasHeld'
<1> SUFFICES ASSUME Up' PROVE HasHeld'
  BY DEF HasHeld
<1>0. Grows /\ Sheds /\ Up
  BY StepGrows, ShedsStep, UpBefore
<1>1. CASE Loses
  BY <1>0, <1>1, HeldStays
<1>2. ASSUME NEW n \in Objects, NEW l \in Kinds, NEW y \in Bearers, Gets(n, l, y),
             NEW k \in Kinds, NEW x \in Bearers, Has(n, k, x), User(l, y)' = User(k, x)
      PROVE  HasHeld'
  BY <1>0, <1>2, HeldKeeps
<1>3. \A c \in Calls : /\ call[c].side \in Sides /\ Peer(call[c].side) \in Sides
                       /\ Arg(c) \in Objects /\ Ans(c) \in Objects
  BY ObjectsDiffer, Peers DEF Plain, Records
<1>4. ASSUME NEW c \in Calls, NEW m \in Records, Makes(c, m) PROVE HasHeld'
  <2>1. m.pass \in {"nothing", "lent", "new", "back"} /\ m.side \in Sides
    BY DEF Records, PassKinds
  <2>2. call'[c] = m
    BY <1>4 DEF Makes, Plain
  <2>3. CASE m.pass \in {"nothing", "lent"}
    BY <1>1, <1>4, <2>3, MakesHas
  <2>4. CASE m.pass = "new"
    <3>1. Gets(Arg(c), "call", c)
      BY <1>4, <2>4, MakesHas
    <3>2. User("call", c)' = Peer(m.side)
      BY <2>2, <2>4 DEF User
    <3>3. Arg(c) \in exports'[m.side]
      BY <1>4, <2>1, <2>4 DEF Makes, Plain
    <3> QED BY <1>0, <1>3, <2>1, <3>1, <3>2, <3>3, HeldMoves, Peers DEF Kinds, Bearers
  <2>5. CASE m.pass = "back"
    <3>1. m.object \in Objects
      BY <1>4, <2>5 DEF Makes, Plain, Records
    <3>2. Gets(m.object, "call", c) /\ Has(m.object, "handle", m.side)
      BY <1>4, <2>5, MakesHas
    <3>3. User("call", c)' = User("handle", m.side)
      BY <2>2, <2>5 DEF User
    <3> QED BY <1>2, <2>1, <3>1, <3>2, <3>3 DEF Kinds, Bearers
  <2> QED BY <2>1, <2>3, <2>4, <2>5
<1>5. ASSUME NEW c \in Calls, Takes(c) PROVE HasHeld'
  <2>1. CASE Has(Ans(c), "answer", c) /\ Gets(Ans(c), "handle", call[c].side)
    <3>1. PICK s \in Sides : s = call[c].side
      BY <1>3
    <3> QED BY <1>2, <1>3, <2>1, <3>1 DEF Kinds, Bearers, User
  <2> QED BY <1>1, <1>5, <2>1, TakesHas
<1>6. ASSUME NEW s \in Sides, NEW o \in Objects, LetsGo(s, o) PROVE HasHeld'
  <2> QED BY <1>2, <1>6, LetsGoHas DEF Kinds, Bearers, User
<1>7. ASSUME NEW s \in Sides, NEW c \in Calls, NEW st \in Refusals, Refuses(s, c, st) PROVE HasHeld'
  <2>1. CASE call[c].pass = "new" /\ Gets(Arg(c), "release", s)
    <3>1. Has(Arg(c), "call", c)
      BY <1>7, <2>1, RefusesHas DEF Made
    <3> QED BY <1>2, <1>3, <2>1, <3>1, <1>7 DEF Kinds, Bearers, User, Refuses
  <2> QED BY <1>1, <1>7, <2>1, RefusesHas
<1>8. ASSUME NEW c \in Calls, Begins(c) PROVE HasHeld'
  <2>1. CASE call[c].pass = "new" /\ Gets(Arg(c), "handle", Peer(call[c].side))
    <3>1. Has(Arg(c), "call", c)
      BY <1>8, <2>1, BeginsHas DEF Made
    <3>2. PICK s \in Sides : s = Peer(call[c].side)
      BY <1>3
    <3>3. User("handle", s)' = User("call", c)
      BY <2>1, <3>2 DEF User
    <3> QED BY <1>2, <1>3, <2>1, <3>1, <3>2, <3>3 DEF Kinds, Bearers
  <2> QED BY <1>1, <1>8, <2>1, BeginsHas
<1>9. ASSUME NEW c \in Calls, NEW what \in AnswerKinds, Finishes(c, what) PROVE HasHeld'
  <2>1. CASE Gets(Ans(c), "answer", c) /\ Ans(c) \in exports'[Peer(call[c].side)]
    BY <1>0, <1>3, <2>1, <1>9, HeldMoves DEF Kinds, Bearers, User, Finishes, Finish
  <2> QED BY <1>1, <1>9, <2>1, FinishesHas
<1>10. ASSUME NEW c \in Calls, NEW st \in Statuses, Delivers(c, st) PROVE HasHeld'
  <2>1. CASE Has(Ans(c), "answer", c) /\ Gets(Ans(c), "release", call[c].side)
    <3>1. PICK s \in Sides : s = call[c].side
      BY <1>3
    <3> QED BY <1>2, <1>3, <2>1, <3>1 DEF Kinds, Bearers, User
  <2> QED BY <1>1, <1>10, <2>1, DeliversHas
<1>11. ASSUME NEW c \in Calls,
              Sends(c) \/ Drops(c) \/ TimesOut(c) \/ Forgets(c) \/ Replies(c) \/ Queues(c)
       PROVE  HasHeld'
  BY <1>1, <1>11, LosesSome
<1>12. ASSUME NEW s \in Sides,
              (\E c \in Calls : Cancels(s, c)) \/ (\E o \in Objects : Releases(s, o)) \/ Falls(s)
       PROVE  HasHeld'
  BY <1>1, <1>12, LosesMore
<1>13. CASE Idles
  BY <1>1, <1>13, LosesMore DEF Sides
<1> QED BY <1>4, <1>5, <1>6, <1>7, <1>8, <1>9, <1>10, <1>11, <1>12, <1>13 DEF Step

\* What is let go is nobody's that is lent.
LEMMA LentStays ==
  ASSUME Plain, LentHeld, Up' => Up, call' = call, NEW n,
         \A o \in Objects, s \in Sides : o \in exports[s] /\ o \notin exports'[s] => o = n,
         \A d \in Calls : Active(d)' => Active(d),
         \A d \in Calls : Active(d)' /\ call[d].pass = "lent" => Arg(d) # n
  PROVE  LentHeld'
BY ObjectsDiffer DEF LentHeld, Plain, Records

\* What stands for an object is no lending.
LEMMA HasNotLent ==
  ASSUME HasReason, NEW n \in Objects, NEW k \in Kinds, NEW x \in Bearers, Has(n, k, x)
  PROVE  \A d \in Calls : call[d].pass = "lent" => Arg(d) # n
BY DEF HasReason

LEMMA LentHeldStep ==
  ASSUME Plain, Made, Requested, Replied, HasOne, HasReason, LentHeld, Step
  PROVE  LentHeld'
<1> USE DEF Plain, Records
<1>0. Up' => Up
  BY UpBefore
<1>1. ASSUME NEW c \in Calls, NEW m \in Records, Makes(c, m) PROVE LentHeld'
  BY <1>1 DEF LentHeld, Makes, WireKept, MailKept, Made, Active, Up, Sides, Peer
<1>2. ASSUME NEW c \in Calls, Sends(c) PROVE LentHeld'
  BY <1>2 DEF LentHeld, Sends, WireSent, MailKept, Active, Up, Sides, Peer
<1>3. ASSUME NEW c \in Calls, Drops(c) PROVE LentHeld'
  <2>1. /\ call' = call /\ at'[c] = "done" /\ at[c] # "unmade" /\ \A d \in Calls : d # c =>
                                                                       at'[d] = at[d]
        /\ \A o \in Objects, s \in Sides : o \in exports[s] /\ o \notin exports'[s] => o = Arg(c)
    BY <1>3 DEF Made, Drops, Unsent
  <2>2. \A d \in Calls : Active(d)' => Active(d) /\ d # c
    BY <2>1 DEF Active
  <2>3. \A d \in Calls : Active(d)' /\ call[d].pass = "lent" => Arg(d) # Arg(c)
    BY <2>2, ObjectsDiffer
  <2> QED BY <1>0, <2>1, <2>2, <2>3, LentStays
<1>4. ASSUME NEW c \in Calls, Takes(c) PROVE LentHeld'
  <2>1. /\ call' = call /\ at'[c] = "done" /\ at[c] # "unmade" /\ \A d \in Calls : d # c =>
                                                                       at'[d] = at[d]
        /\ \A o \in Objects, s \in Sides : o \in exports[s] /\ o \notin exports'[s] => o = Arg(c)
    BY <1>4 DEF Made, Takes, Unlent
  <2>2. \A d \in Calls : Active(d)' => Active(d) /\ d # c
    BY <2>1 DEF Active
  <2>3. \A d \in Calls : Active(d)' /\ call[d].pass = "lent" => Arg(d) # Arg(c)
    BY <2>2, ObjectsDiffer
  <2> QED BY <1>0, <2>1, <2>2, <2>3, LentStays
<1>5. ASSUME NEW c \in Calls, TimesOut(c) PROVE LentHeld'
  BY <1>5 DEF LentHeld, TimesOut, TimeOut, WireKept, MailKept, Active, Up, Sides, Peer
<1>6. ASSUME NEW c \in Calls, Forgets(c) PROVE LentHeld'
  <2>1. /\ call' = call /\ at'[c] = "done" /\ at[c] # "unmade" /\ \A d \in Calls : d # c =>
                                                                       at'[d] = at[d]
        /\ \A o \in Objects, s \in Sides : o \in exports[s] /\ o \notin exports'[s] => o = Arg(c)
    BY <1>6 DEF Made, Forgets, Unlent
  <2>2. \A d \in Calls : Active(d)' => Active(d) /\ d # c
    BY <2>1 DEF Active
  <2>3. \A d \in Calls : Active(d)' /\ call[d].pass = "lent" => Arg(d) # Arg(c)
    BY <2>2, ObjectsDiffer
  <2> QED BY <1>0, <2>1, <2>2, <2>3, LentStays
<1>7. ASSUME NEW s \in Sides, NEW o \in Objects, LetsGo(s, o) PROVE LentHeld'
  BY <1>7 DEF LentHeld, LetsGo, WireSent, MailKept, Active, Up, Sides, Peer
<1>8. ASSUME NEW s \in Sides, NEW c \in Calls, NEW st \in Refusals, Refuses(s, c, st)
      PROVE  LentHeld'
  <2>1. /\ call' = call /\ at' = at
        /\ \A o \in Objects, t \in Sides : o \in exports[t] /\ o \notin exports'[t] =>
             call[c].pass = "back" /\ o = call[c].object
    BY <1>8 DEF Refuses, LetGoExports
  <2>2. CASE call[c].pass = "back"
    <3>1. PICK n \in Objects : n = call[c].object
      BY <2>2 DEF Made
    <3>2. \A d \in Calls : call[d].pass = "lent" => Arg(d) # n
      BY <1>8, <2>2, <3>1, RefusesHas, HasNotLent DEF Kinds, Bearers
    <3> QED BY <1>0, <2>1, <3>1, <3>2, LentStays DEF Active
  <2>3. CASE call[c].pass # "back"
    BY <1>0, <2>1, <2>3, LentStays, ObjectsDiffer DEF Active
  <2> QED BY <2>2, <2>3
<1>9. ASSUME NEW c \in Calls, Begins(c) PROVE LentHeld'
  <2>1. /\ call' = call /\ at' = at
        /\ \A o \in Objects, t \in Sides : o \in exports[t] /\ o \notin exports'[t] =>
             call[c].pass = "back" /\ o = call[c].object
    BY <1>9 DEF Begins
  <2>2. CASE call[c].pass = "back"
    <3>1. PICK n \in Objects : n = call[c].object
      BY <2>2 DEF Made
    <3>2. \A d \in Calls : call[d].pass = "lent" => Arg(d) # n
      BY <1>9, <2>2, <3>1, BeginsHas, HasNotLent DEF Kinds, Bearers
    <3> QED BY <1>0, <2>1, <3>1, <3>2, LentStays DEF Active
  <2>3. CASE call[c].pass # "back"
    BY <1>0, <2>1, <2>3, LentStays, ObjectsDiffer DEF Active
  <2> QED BY <2>2, <2>3
<1>10. ASSUME NEW c \in Calls, Replies(c) PROVE LentHeld'
  BY <1>10 DEF LentHeld, Replies, MailKept, WireSent, Active, Up, Sides, Peer
<1>11. ASSUME NEW c \in Calls, Queues(c) PROVE LentHeld'
  BY <1>11 DEF LentHeld, Queues, MailKept, WireTaken, Active, Up, Sides, Peer
<1>12. ASSUME NEW c \in Calls, NEW what \in AnswerKinds, Finishes(c, what) PROVE LentHeld'
  BY <1>12 DEF LentHeld, Finishes, Finish, MailKept, WireKept, Active, Up, Sides, Peer
<1>13. ASSUME NEW c \in Calls, NEW st \in Statuses, Delivers(c, st) PROVE LentHeld'
  BY <1>13 DEF LentHeld, Delivers, Active, Up, Sides, Peer
<1>14. ASSUME NEW s \in Sides, NEW c \in Calls, Cancels(s, c) PROVE LentHeld'
  BY <1>14 DEF LentHeld, Cancels, MailKept, WireTaken, Active, Up, Sides, Peer
<1>15. ASSUME NEW s \in Sides, NEW o \in Objects, Releases(s, o) PROVE LentHeld'
  <2>1. \A d \in Calls : call[d].pass = "lent" => Arg(d) # o
    BY <1>15, Peers, HasNotLent DEF Kinds, Bearers, Has, Releases
  <2> QED BY <1>0, <2>1, <1>15, LentStays DEF Active, Releases
<1>16. ASSUME NEW s \in Sides, Falls(s) PROVE LentHeld'
  BY <1>16 DEF LentHeld, Falls, Active, Up, Sides, Peer
<1>17. CASE Idles
  BY <1>17 DEF LentHeld, Idles, Active, Up
<1> QED BY <1>1, <1>2, <1>3, <1>4, <1>5, <1>6, <1>7, <1>8, <1>9, <1>10, <1>11, <1>12, <1>13,
     <1>14, <1>15, <1>16, <1>17 DEF Step

LEMMA TargetsHeldStep == ASSUME Plain, Made, Requested, TargetsHeld, Step PROVE TargetsHeld'
<1> USE DEF Plain, Records, Active
<1>1. ASSUME NEW c \in Calls, NEW m \in Records, Makes(c, m) PROVE TargetsHeld'
  <2>1. /\ call'[c] = m /\ \A d \in Calls : d # c => call'[d] = call[d] /\ at'[d] = at[d]
        /\ at[c] = "unmade" /\ call[c].pass # "lent"
    BY <1>1 DEF Makes, Made, Unmade
  <2>2. ASSUME NEW d \in Calls, d # c, Active(d), call[d].target \notin {Table, Catalog}
        PROVE  \/ call[d].target \in handles'[call[d].side]
               \/ /\ call[d].parent # 0 /\ call'[call[d].parent].pass = "lent"
                  /\ call[d].target = Arg(call[d].parent)
    BY <1>1, <2>1, <2>2 DEF TargetsHeld, Makes, InUse
  <2>3. m.target \notin {Table, Catalog} =>
          \/ m.target \in handles'[m.side]
          \/ m.parent # 0 /\ call'[m.parent].pass = "lent" /\ m.target = Arg(m.parent)
    BY <1>1, <2>1 DEF Makes, Targets, Made
  <2> QED BY <2>1, <2>2, <2>3 DEF TargetsHeld
<1>2. ASSUME NEW c \in Calls, Sends(c) PROVE TargetsHeld'
  BY <1>2 DEF TargetsHeld, Sends, WireSent, MailKept
<1>3. ASSUME NEW c \in Calls, Drops(c) PROVE TargetsHeld'
  BY <1>3 DEF TargetsHeld, Drops, Unsent, WireKept, MailKept
<1>4. ASSUME NEW c \in Calls, Takes(c) PROVE TargetsHeld'
  BY <1>4 DEF TargetsHeld, Takes, WireKept, MailDropped
<1>5. ASSUME NEW c \in Calls, TimesOut(c) PROVE TargetsHeld'
  BY <1>5 DEF TargetsHeld, TimesOut, TimeOut, WireKept, MailKept
<1>6. ASSUME NEW c \in Calls, Forgets(c) PROVE TargetsHeld'
  BY <1>6 DEF TargetsHeld, Forgets, MailDropped
<1>7. ASSUME NEW s \in Sides, NEW o \in Objects, LetsGo(s, o) PROVE TargetsHeld'
  BY <1>7 DEF TargetsHeld, LetsGo, WireSent, MailKept, InUse
<1>8. ASSUME NEW s \in Sides, NEW c \in Calls, NEW st \in Refusals, Refuses(s, c, st)
      PROVE  TargetsHeld'
  BY <1>8 DEF TargetsHeld, Refuses, MailTaken
<1>9. ASSUME NEW c \in Calls, Begins(c) PROVE TargetsHeld'
  BY <1>9 DEF TargetsHeld, Begins, MailTaken, WireKept
<1>10. ASSUME NEW c \in Calls, Replies(c) PROVE TargetsHeld'
  BY <1>10 DEF TargetsHeld, Replies, MailKept, WireSent
<1>11. ASSUME NEW c \in Calls, Queues(c) PROVE TargetsHeld'
  BY <1>11 DEF TargetsHeld, Queues, MailKept, WireTaken
<1>12. ASSUME NEW c \in Calls, NEW what \in AnswerKinds, Finishes(c, what) PROVE TargetsHeld'
  BY <1>12 DEF TargetsHeld, Finishes, Finish, MailKept, WireKept
<1>13. ASSUME NEW c \in Calls, NEW st \in Statuses, Delivers(c, st) PROVE TargetsHeld'
  BY <1>13 DEF TargetsHeld, Delivers
<1>14. ASSUME NEW s \in Sides, NEW c \in Calls, Cancels(s, c) PROVE TargetsHeld'
  BY <1>14 DEF TargetsHeld, Cancels, MailKept, WireTaken
<1>15. ASSUME NEW s \in Sides, NEW o \in Objects, Releases(s, o) PROVE TargetsHeld'
  BY <1>15 DEF TargetsHeld, Releases, MailKept, WireTaken
<1>16. ASSUME NEW s \in Sides, Falls(s) PROVE TargetsHeld'
  BY <1>16 DEF TargetsHeld, Falls
<1>17. CASE Idles
  BY <1>17 DEF TargetsHeld, Idles, WireKept, MailKept
<1> QED BY <1>1, <1>2, <1>3, <1>4, <1>5, <1>6, <1>7, <1>8, <1>9, <1>10, <1>11, <1>12, <1>13,
     <1>14, <1>15, <1>16, <1>17 DEF Step

LEMMA LetGoExcusedStep ==
  ASSUME Plain, Made, Requested, Replied, Nested, HasOne, HasReason, HasHeld, LentHeld, TargetsHeld,
         LetGoExcused, Step
  PROVE  LetGoExcused'
<1> USE FramesUnlike, Peers DEF Plain, Records, Excused
<1>1. ASSUME NEW c \in Calls, NEW m \in Records, Makes(c, m) PROVE LetGoExcused'
  BY <1>1 DEF LetGoExcused, Makes, WireKept, MailKept
<1>2. ASSUME NEW c \in Calls, Sends(c) PROVE LetGoExcused'
  <2> QED
    BY <1>2 DEF LetGoExcused, Sends, WireSent, MailKept, Replied, Statuses, Refusals, Requested
<1>3. ASSUME NEW c \in Calls, Drops(c) PROVE LetGoExcused'
  BY <1>3 DEF LetGoExcused, Drops, Unsent, WireKept, MailKept
<1>4. ASSUME NEW c \in Calls, Takes(c) PROVE LetGoExcused'
  BY <1>4 DEF LetGoExcused, Takes, WireKept, MailDropped
<1>5. ASSUME NEW c \in Calls, TimesOut(c) PROVE LetGoExcused'
  BY <1>5 DEF LetGoExcused, TimesOut, TimeOut, WireKept, MailKept
<1>6. ASSUME NEW c \in Calls, Forgets(c) PROVE LetGoExcused'
  BY <1>6 DEF LetGoExcused, Forgets, MailDropped
<1>7. ASSUME NEW s \in Sides, NEW o \in Objects, LetsGo(s, o) PROVE LetGoExcused'
  BY <1>7 DEF LetGoExcused, LetsGo, WireSent, MailKept
<1>8. ASSUME NEW s \in Sides, NEW c \in Calls, NEW st \in Refusals, Refuses(s, c, st)
      PROVE  LetGoExcused'
  <2>1. ASSUME st = "letgo", alive[s], alive[call[c].side], at[c] = "waiting" PROVE Excused(c)
    <3>1. Up /\ s = Peer(call[c].side) /\ call[c].side \in Sides /\ Active(c) /\ Refusal(s, c) = "letgo"
          /\ call[c].target # Catalog
      BY <1>8, <2>1 DEF Up, Refuses, Sides, Peer, Active, Refusal, Asks
    <3>2. CASE call[c].target # Table /\ call[c].target \notin exports[s]
      <4>1. call[c].target \notin handles[call[c].side]
        <5> QED BY <3>1, <3>2 DEF HasHeld, User, Kinds, Bearers, Has
      <4>2. PICK q \in Calls : /\ q = call[c].parent /\ call[q].pass = "lent"
                               /\ call[c].target = Arg(q)
        BY <3>1, <3>2, <4>1 DEF TargetsHeld
      <4>3. run[q] = "running" /\ call[q].side # call[c].side /\ call[q].object = Arg(q) /\ q # 0
        BY <3>1, <3>2, <4>1, <4>2 DEF Nested, Made, TargetsHeld
      <4>4. at[q] = "done"
        BY <4>3, <3>1, <3>2, <4>2 DEF Active, Requested, LentHeld
      <4> QED BY <4>2, <4>3, <4>4
    <3>3. CASE call[c].pass = "back" /\ call[c].object \notin exports[s]
      <4>1. PICK n \in Objects : n = call[c].object
        BY <3>3 DEF Made
      <4>2. n \in exports[Peer(User("call", c))]
        BY <3>1, <1>8, <3>3, <4>1, RefusesHas DEF HasHeld, Kinds, Bearers
      <4>3. User("call", c) = call[c].side
        BY <3>3 DEF User
      <4> QED BY <3>1, <3>3, <4>1, <4>2, <4>3
    <3> QED BY <3>1, <3>2, <3>3 DEF Refusal
  <2> QED BY <1>8, <2>1 DEF LetGoExcused, Refuses, MailTaken
<1>9. ASSUME NEW c \in Calls, Begins(c) PROVE LetGoExcused'
  BY <1>9 DEF LetGoExcused, Begins, MailTaken, WireKept
<1>10. ASSUME NEW c \in Calls, Replies(c) PROVE LetGoExcused'
  BY <1>10 DEF LetGoExcused, Replies, MailKept, WireSent, AnswerKinds
<1>11. ASSUME NEW c \in Calls, Queues(c) PROVE LetGoExcused'
  BY <1>11 DEF LetGoExcused, Queues, MailKept, WireTaken
<1>12. ASSUME NEW c \in Calls, NEW what \in AnswerKinds, Finishes(c, what) PROVE LetGoExcused'
  BY <1>12 DEF LetGoExcused, Finishes, Finish, MailKept, WireKept
<1>13. ASSUME NEW c \in Calls, NEW st \in Statuses, Delivers(c, st) PROVE LetGoExcused'
  <2>1. /\ alive' = alive /\ call' = call /\ at' = at
        /\ UnderWay(Peer(call[c].side), Reply(c, st)) /\ alive[call[c].side]
    BY <1>13 DEF Delivers
  <2>2. \A d \in Calls, x \in Sides : UnderWay(x, Reply(d, "letgo"))' => UnderWay(x, Reply(d, "letgo"))
    BY <1>13 DEF Delivers
  <2>3. \A d \in Calls : Mailed(d, Reply(d, "letgo"))' =>
          Mailed(d, Reply(d, "letgo")) \/ (d = c /\ st = "letgo")
    BY <1>13 DEF Delivers
  <2>4. \A d \in Calls : Excused(d)' <=> Excused(d)
    BY <2>1 DEF Excused
  <2>5. Peer(call[c].side) \in Sides
    BY DEF Records
  <2> QED BY <2>1, <2>2, <2>3, <2>4, <2>5 DEF LetGoExcused
<1>14. ASSUME NEW s \in Sides, NEW c \in Calls, Cancels(s, c) PROVE LetGoExcused'
  BY <1>14 DEF LetGoExcused, Cancels, MailKept, WireTaken
<1>15. ASSUME NEW s \in Sides, NEW o \in Objects, Releases(s, o) PROVE LetGoExcused'
  BY <1>15 DEF LetGoExcused, Releases, MailKept, WireTaken
<1>16. ASSUME NEW s \in Sides, Falls(s) PROVE LetGoExcused'
  BY <1>16 DEF LetGoExcused, Falls
<1>17. CASE Idles
  BY <1>17 DEF LetGoExcused, Idles, WireKept, MailKept
<1> QED BY <1>1, <1>2, <1>3, <1>4, <1>5, <1>6, <1>7, <1>8, <1>9, <1>10, <1>11, <1>12, <1>13,
     <1>14, <1>15, <1>16, <1>17 DEF Step

\* Types are kept.
Typed ==
  /\ alive \in [Sides -> BOOLEAN]
  /\ call \in [Calls -> Records]
  /\ at \in [Calls -> {"unmade", "sending", "waiting", "timedout", "done"}]
  /\ run \in [Calls -> {"none", "pool", "running", "replying", "over"}]
  /\ flag \in [Calls -> BOOLEAN]
  /\ answer \in [Calls -> AnswerKinds]
  /\ exports \in [Sides -> SUBSET Objects]
  /\ handles \in [Sides -> SUBSET Objects]
MailTyped == \A p \in Calls : \A f : Mailed(p, f) => Registered(p)

LEMMA TypedStep == ASSUME Typed, Made, Step PROVE Typed'
<1> USE ObjectsDiffer, Peers DEF Records
<1>1. ASSUME NEW c \in Calls, NEW m \in Records, Makes(c, m) PROVE Typed'
  BY <1>1 DEF Typed, Makes, WireKept, MailKept
<1>2. ASSUME NEW c \in Calls, Sends(c) PROVE Typed'
  BY <1>2 DEF Typed, Sends, WireSent, MailKept
<1>3. ASSUME NEW c \in Calls, Drops(c) PROVE Typed'
  BY <1>3 DEF Typed, Drops, Unsent, WireKept, MailKept
<1>4. ASSUME NEW c \in Calls, Takes(c) PROVE Typed'
  BY <1>4 DEF Typed, Takes, WireKept, MailDropped, Unlent
<1>5. ASSUME NEW c \in Calls, TimesOut(c) PROVE Typed'
  BY <1>5 DEF Typed, TimesOut, TimeOut, WireKept, MailKept
<1>6. ASSUME NEW c \in Calls, Forgets(c) PROVE Typed'
  BY <1>6 DEF Typed, Forgets, MailDropped, Unlent
<1>7. ASSUME NEW s \in Sides, NEW o \in Objects, LetsGo(s, o) PROVE Typed'
  BY <1>7 DEF Typed, LetsGo, WireSent, MailKept
<1>8. ASSUME NEW s \in Sides, NEW c \in Calls, NEW st \in Refusals, Refuses(s, c, st) PROVE Typed'
  BY <1>8 DEF Typed, Refuses, MailTaken, LetGoExports
<1>9. ASSUME NEW c \in Calls, Begins(c) PROVE Typed'
  BY <1>9 DEF Typed, Begins, Made
<1>10. ASSUME NEW c \in Calls, Replies(c) PROVE Typed'
  BY <1>10 DEF Typed, Replies, MailKept, WireSent
<1>11. ASSUME NEW c \in Calls, Queues(c) PROVE Typed'
  BY <1>11 DEF Typed, Queues, MailKept, WireTaken
<1>12. ASSUME NEW c \in Calls, NEW what \in AnswerKinds, Finishes(c, what) PROVE Typed'
  BY <1>12 DEF Typed, Finishes, Finish, MailKept, WireKept, AnswerKinds
<1>13. ASSUME NEW c \in Calls, NEW st \in Statuses, Delivers(c, st) PROVE Typed'
  BY <1>13 DEF Typed, Delivers
<1>14. ASSUME NEW s \in Sides, NEW c \in Calls, Cancels(s, c) PROVE Typed'
  BY <1>14 DEF Typed, Cancels, MailKept, WireTaken
<1>15. ASSUME NEW s \in Sides, NEW o \in Objects, Releases(s, o) PROVE Typed'
  BY <1>15 DEF Typed, Releases, MailKept, WireTaken
<1>16. ASSUME NEW s \in Sides, Falls(s) PROVE Typed'
  BY <1>16 DEF Typed, Falls
<1>17. CASE Idles
  BY <1>17 DEF Typed, Idles, WireKept, MailKept
<1> QED BY <1>1, <1>2, <1>3, <1>4, <1>5, <1>6, <1>7, <1>8, <1>9, <1>10, <1>11, <1>12, <1>13,
     <1>14, <1>15, <1>16, <1>17 DEF Step

LEMMA MailTypedStep == ASSUME Typed, MailTyped, Step PROVE MailTyped'
<1> USE DEF Typed, Registered
<1>1. ASSUME NEW c \in Calls, NEW m \in Records, Makes(c, m) PROVE MailTyped'
  BY <1>1 DEF MailTyped, Makes, WireKept, MailKept, Registered
<1>2. ASSUME NEW c \in Calls, Sends(c) PROVE MailTyped'
  BY <1>2 DEF MailTyped, Sends, WireSent, MailKept
<1>3. ASSUME NEW c \in Calls, Drops(c) PROVE MailTyped'
  BY <1>3 DEF MailTyped, Drops, Unsent, WireKept, MailKept
<1>4. ASSUME NEW c \in Calls, Takes(c) PROVE MailTyped'
  BY <1>4 DEF MailTyped, Takes, WireKept, MailDropped
<1>5. ASSUME NEW c \in Calls, TimesOut(c) PROVE MailTyped'
  BY <1>5 DEF MailTyped, TimesOut, TimeOut, WireKept, MailKept
<1>6. ASSUME NEW c \in Calls, Forgets(c) PROVE MailTyped'
  BY <1>6 DEF MailTyped, Forgets, MailDropped
<1>7. ASSUME NEW s \in Sides, NEW o \in Objects, LetsGo(s, o) PROVE MailTyped'
  BY <1>7 DEF MailTyped, LetsGo, WireSent, MailKept
<1>8. ASSUME NEW s \in Sides, NEW c \in Calls, NEW st \in Refusals, Refuses(s, c, st)
      PROVE  MailTyped'
  BY <1>8 DEF MailTyped, Refuses, MailTaken
<1>9. ASSUME NEW c \in Calls, Begins(c) PROVE MailTyped'
  BY <1>9 DEF MailTyped, Begins, MailTaken, WireKept
<1>10. ASSUME NEW c \in Calls, Replies(c) PROVE MailTyped'
  BY <1>10 DEF MailTyped, Replies, MailKept, WireSent
<1>11. ASSUME NEW c \in Calls, Queues(c) PROVE MailTyped'
  BY <1>11 DEF MailTyped, Queues, MailKept, WireTaken
<1>12. ASSUME NEW c \in Calls, NEW what \in AnswerKinds, Finishes(c, what) PROVE MailTyped'
  BY <1>12 DEF MailTyped, Finishes, Finish, MailKept, WireKept
<1>13. ASSUME NEW c \in Calls, NEW st \in Statuses, Delivers(c, st) PROVE MailTyped'
  BY <1>13 DEF MailTyped, Delivers
<1>14. ASSUME NEW s \in Sides, NEW c \in Calls, Cancels(s, c) PROVE MailTyped'
  BY <1>14 DEF MailTyped, Cancels, MailKept, WireTaken
<1>15. ASSUME NEW s \in Sides, NEW o \in Objects, Releases(s, o) PROVE MailTyped'
  BY <1>15 DEF MailTyped, Releases, MailKept, WireTaken
<1>16. ASSUME NEW s \in Sides, Falls(s) PROVE MailTyped'
  BY <1>16 DEF MailTyped, Falls
<1>17. CASE Idles
  BY <1>17 DEF MailTyped, Idles, WireKept, MailKept
<1> QED BY <1>1, <1>2, <1>3, <1>4, <1>5, <1>6, <1>7, <1>8, <1>9, <1>10, <1>11, <1>12, <1>13,
     <1>14, <1>15, <1>16, <1>17 DEF Step

LEMMA PlainStep == ASSUME Plain, Made, Step PROVE Plain'
<1>1. Typed /\ MailTyped
  BY DEF Plain, Typed, MailTyped
<1>2. Typed' /\ MailTyped'
  BY <1>1, TypedStep, MailTypedStep
<1> QED BY <1>2 DEF Plain, Typed, MailTyped

LEMMA FarewellStep == ASSUME Plain, Farewell, Step PROVE Farewell'
<1> USE FramesUnlike DEF Plain
<1>1. ASSUME NEW c \in Calls, NEW m \in Records, Makes(c, m) PROVE Farewell'
  BY <1>1 DEF Farewell, Makes, WireKept, MailKept
<1>2. ASSUME NEW c \in Calls, Sends(c) PROVE Farewell'
  BY <1>2 DEF Farewell, Sends, WireSent, MailKept
<1>3. ASSUME NEW c \in Calls, Drops(c) PROVE Farewell'
  BY <1>3 DEF Farewell, Drops, Unsent, WireKept, MailKept
<1>4. ASSUME NEW c \in Calls, Takes(c) PROVE Farewell'
  BY <1>4 DEF Farewell, Takes, WireKept, MailDropped
<1>5. ASSUME NEW c \in Calls, TimesOut(c) PROVE Farewell'
  BY <1>5 DEF Farewell, TimesOut, TimeOut, WireKept, MailKept
<1>6. ASSUME NEW c \in Calls, Forgets(c) PROVE Farewell'
  BY <1>6 DEF Farewell, Forgets, MailDropped
<1>7. ASSUME NEW s \in Sides, NEW o \in Objects, LetsGo(s, o) PROVE Farewell'
  BY <1>7 DEF Farewell, LetsGo, WireSent, MailKept
<1>8. ASSUME NEW s \in Sides, NEW c \in Calls, NEW st \in Refusals, Refuses(s, c, st)
      PROVE  Farewell'
  BY <1>8 DEF Farewell, Refuses, MailTaken
<1>9. ASSUME NEW c \in Calls, Begins(c) PROVE Farewell'
  BY <1>9 DEF Farewell, Begins, MailTaken, WireKept
<1>10. ASSUME NEW c \in Calls, Replies(c) PROVE Farewell'
  BY <1>10 DEF Farewell, Replies, MailKept, WireSent
<1>11. ASSUME NEW c \in Calls, Queues(c) PROVE Farewell'
  BY <1>11 DEF Farewell, Queues, MailKept, WireTaken
<1>12. ASSUME NEW c \in Calls, NEW what \in AnswerKinds, Finishes(c, what) PROVE Farewell'
  BY <1>12 DEF Farewell, Finishes, Finish, MailKept, WireKept
<1>13. ASSUME NEW c \in Calls, NEW st \in Statuses, Delivers(c, st) PROVE Farewell'
  BY <1>13 DEF Farewell, Delivers
<1>14. ASSUME NEW s \in Sides, NEW c \in Calls, Cancels(s, c) PROVE Farewell'
  BY <1>14 DEF Farewell, Cancels, MailKept, WireTaken
<1>15. ASSUME NEW s \in Sides, NEW o \in Objects, Releases(s, o) PROVE Farewell'
  BY <1>15 DEF Farewell, Releases, MailKept, WireTaken
<1>16. ASSUME NEW s \in Sides, Falls(s) PROVE Farewell'
  BY <1>16 DEF Farewell, Falls
<1>17. CASE Idles
  BY <1>17 DEF Farewell, Idles, WireKept, MailKept
<1> QED BY <1>1, <1>2, <1>3, <1>4, <1>5, <1>6, <1>7, <1>8, <1>9, <1>10, <1>11, <1>12, <1>13,
     <1>14, <1>15, <1>16, <1>17 DEF Step

-----------------------------------------------------------------------------
(* The actions of Link are such steps.                                     *)

\* What Plain leaves of the types.
Sequential ==
  /\ mail \in [Calls -> Seq(Frames \cup {Gone})]
  /\ late \in [Sides -> SUBSET Calls]
  /\ wire \in [Sides -> Seq(Frames)]
  /\ written \in [Sides -> Nat]
  /\ \A s \in Sides : written[s] <= Len(wire[s])

LEMMA SomeMail == ASSUME NEW S, NEW q \in Seq(S) PROVE q # <<>> <=> \E f : In(f, q)
<1>1. CASE q = <<>>
  BY <1>1, InFew
<1>2. CASE q # <<>>
  BY <1>2 DEF In
<1> QED BY <1>1, <1>2

LEMMA TypesAre == TypeOK <=> Plain /\ Sequential
<1>1. ASSUME mail \in [Calls -> Seq(Frames \cup {Gone})]
      PROVE  (\A c \in Calls : mail[c] # <<>> => Registered(c))
               <=> (\A p \in Calls : \A f : Mailed(p, f) => Registered(p))
  BY <1>1, SomeMail DEF Mailed
<1> QED BY <1>1 DEF TypeOK, Plain, Sequential, Records

LEMMA FramesAre ==
  /\ \A c \in Calls : CallFrame(c) \in Frames /\ Cancel(c) \in Frames
  /\ \A c \in Calls, st \in Statuses : Reply(c, st) \in Frames
  /\ \A o \in Objects : Release(o) \in Frames
  /\ Goodbye \in Frames
BY DEF Frames, Statuses

\* A frame of a kind.
LEMMA FrameKinds ==
  ASSUME NEW f \in Frames \cup {Gone}
  PROVE  /\ f.kind = "call" => \E c \in Calls : f = CallFrame(c)
         /\ f.kind = "cancel" => \E c \in Calls : f = Cancel(c)
         /\ f.kind = "reply" => \E c \in Calls, st \in Statuses : f = Reply(c, st)
         /\ f.kind = "release" => \E o \in Objects : f = Release(o)
         /\ f.kind = "goodbye" => f = Goodbye
         /\ f.kind = "gone" => f = Gone
<1>1. CASE \E c \in Calls : f = CallFrame(c)
  BY <1>1, FramesDiffer
<1>2. CASE \E c \in Calls : f = Cancel(c)
  BY <1>2, FramesDiffer
<1>3. CASE \E c \in Calls, st \in Statuses : f = Reply(c, st)
  BY <1>3, FramesDiffer
<1>4. CASE \E o \in Objects : f = Release(o)
  BY <1>4, FramesDiffer
<1>5. CASE f = Goodbye \/ f = Gone
  BY <1>5, FramesDiffer
<1> QED BY <1>1, <1>2, <1>3, <1>4, <1>5 DEF Frames, Statuses

\* What goes on a wire.
Fresh(s, frames) ==
  /\ frames \in Seq(Frames) /\ Injective(frames)
  /\ \A f : In(f, frames) => ~UnderWay(s, f)

LEMMA SentIs ==
  ASSUME Sequential, Distinct, NEW s \in Sides, NEW frames, Fresh(s, frames), wire' = Sent(s, frames)
  PROVE  /\ wire' \in [Sides -> Seq(Frames)]
         /\ \A x \in Sides : Injective(wire'[x]) /\ Len(wire[x]) <= Len(wire'[x])
         /\ \A x \in Sides : \A f :
              UnderWay(x, f)' <=> UnderWay(x, f) \/ (x = s /\ alive[s] /\ In(f, frames))
<1>1. wire[s] \in Seq(Frames) /\ \A x \in Sides : Len(wire[x]) \in Nat /\ Injective(wire[x])
  BY DEF Sequential, Distinct
<1>2. CASE ~alive[s]
  BY <1>1, <1>2 DEF Sent, Sequential, UnderWay
<1>3. CASE alive[s]
  <2>1. wire' = [wire EXCEPT ![s] = wire[s] \o frames]
    BY <1>3 DEF Sent
  <2> DEFINE q == wire[s] \o frames
  <2>2. /\ q \in Seq(Frames) /\ Injective(q) /\ Len(q) = Len(wire[s]) + Len(frames)
        /\ \A f : In(f, q) <=> UnderWay(s, f) \/ In(f, frames)
    BY <1>1, InBoth, InjectiveBoth DEF Fresh, UnderWay
  <2> HIDE DEF q
  <2>3. wire'[s] = q /\ \A x \in Sides : x # s => wire'[x] = wire[x]
    BY <2>1 DEF q, Sequential
  <2>4. wire' \in [Sides -> Seq(Frames)]
    BY <2>1, <2>2 DEF q, Sequential
  <2>5. \A x \in Sides : Injective(wire'[x]) /\ Len(wire[x]) <= Len(wire'[x])
    BY <1>1, <2>2, <2>3 DEF Fresh
  <2>6. ASSUME NEW x \in Sides, NEW f
        PROVE  UnderWay(x, f)' <=> UnderWay(x, f) \/ (x = s /\ alive[s] /\ In(f, frames))
    BY <1>3, <2>2, <2>3 DEF UnderWay
  <2> QED BY <2>4, <2>5, <2>6
<1> QED BY <1>2, <1>3

LEMMA ReadsIs ==
  ASSUME Sequential, Distinct, NEW s \in Sides, NEW frames, Fresh(s, frames),
         wire[Peer(s)] # <<>>, Reads(s, frames)
  PROVE  /\ wire' \in [Sides -> Seq(Frames)]
         /\ written' \in [Sides -> Nat]
         /\ \A x \in Sides : Injective(wire'[x]) /\ written'[x] <= Len(wire'[x])
         /\ UnderWay(Peer(s), Head(wire[Peer(s)])) /\ Head(wire[Peer(s)]) \in Frames
         /\ \A x \in Sides : \A f : UnderWay(x, f)' <=>
              \/ UnderWay(x, f) /\ ~(x = Peer(s) /\ f = Head(wire[Peer(s)]))
              \/ x = s /\ In(f, frames)
<1> DEFINE t == Peer(s)
           h == Head(wire[t])
           p == wire[s] \o frames
           r == Tail(wire[t])
<1>1. t \in Sides /\ t # s /\ \A x \in Sides : x = s \/ x = t
  BY Peers
<1>2. wire[s] \in Seq(Frames) /\ wire[t] \in Seq(Frames) /\ Injective(wire[s]) /\ Injective(wire[t])
  BY <1>1 DEF Sequential, Distinct
<1>3. /\ p \in Seq(Frames) /\ Injective(p) /\ Len(p) = Len(wire[s]) + Len(frames)
      /\ \A f : In(f, p) <=> UnderWay(s, f) \/ In(f, frames)
  BY <1>2, InBoth, InjectiveBoth DEF Fresh, UnderWay
<1>4. /\ r \in Seq(Frames) /\ Injective(r) /\ Len(r) = Len(wire[t]) - 1 /\ h \in Frames
      /\ UnderWay(t, h)
      /\ \A f : In(f, r) <=> UnderWay(t, f) /\ f # h
  BY <1>2, InRest DEF UnderWay
<1>5. Len(wire[s]) \in Nat /\ Len(wire[t]) \in Nat /\ Len(wire[t]) > 0 /\ Len(frames) \in Nat
  BY <1>2 DEF Fresh
<1>6. wire' = [wire EXCEPT ![t] = r, ![s] = p]
  BY <1>1 DEF Reads, Sequential
<1>7. written' = [written EXCEPT ![t] = IF @ = 0 THEN 0 ELSE @ - 1]
  BY DEF Reads
<1> HIDE DEF t, h, p, r
<1>8. wire'[t] = r /\ wire'[s] = p /\ wire' \in [Sides -> Seq(Frames)]
  BY <1>1, <1>3, <1>4, <1>6 DEF Sequential
<1>9. /\ written' \in [Sides -> Nat] /\ written'[s] = written[s]
      /\ written'[t] = (IF written[t] = 0 THEN 0 ELSE written[t] - 1)
  BY <1>1, <1>7 DEF Sequential
<1>10. written[s] \in Nat /\ written[t] \in Nat /\ written[s] <= Len(wire[s]) /\ written[t] <= Len(wire[t])
  BY <1>1 DEF Sequential
<1>11. \A x \in Sides : Injective(wire'[x]) /\ written'[x] <= Len(wire'[x])
  <2>1. Injective(wire'[s]) /\ Injective(wire'[t])
    BY <1>3, <1>4, <1>8
  <2>2. written[s] <= Len(p)
    BY <1>3, <1>5, <1>10
  <2>3. (IF written[t] = 0 THEN 0 ELSE written[t] - 1) <= Len(r)
    BY <1>4, <1>5, <1>10
  <2> QED BY <1>1, <1>8, <1>9, <2>1, <2>2, <2>3
<1>12. ASSUME NEW x \in Sides, NEW f
       PROVE  UnderWay(x, f)' <=>
                \/ UnderWay(x, f) /\ ~(x = t /\ f = h)
                \/ x = s /\ In(f, frames)
  BY <1>1, <1>3, <1>4, <1>8 DEF UnderWay
<1> QED BY <1>4, <1>8, <1>9, <1>11, <1>12 DEF t, h

LEMMA MailSet ==
  ASSUME Sequential, Distinct, NEW p \in Calls, NEW q \in Seq(Frames \cup {Gone}), Injective(q),
         mail' = [mail EXCEPT ![p] = q]
  PROVE  /\ mail' \in [Calls -> Seq(Frames \cup {Gone})]
         /\ \A d \in Calls : Injective(mail'[d])
         /\ \A d \in Calls : \A f : Mailed(d, f)' <=> IF d = p THEN In(f, q) ELSE Mailed(d, f)
<1>1. mail'[p] = q /\ \A d \in Calls : d # p => mail'[d] = mail[d]
  BY DEF Sequential
<1>2. mail' \in [Calls -> Seq(Frames \cup {Gone})]
  BY DEF Sequential
<1>3. \A d \in Calls : Injective(mail'[d])
  BY <1>1 DEF Distinct
<1> QED BY <1>1, <1>2, <1>3 DEF Mailed

LEMMA MailGets ==
  ASSUME Sequential, Distinct, NEW p \in Calls, NEW g \in Frames \cup {Gone}, ~Mailed(p, g),
         mail' = [mail EXCEPT ![p] = Append(@, g)]
  PROVE  /\ mail' \in [Calls -> Seq(Frames \cup {Gone})]
         /\ \A d \in Calls : Injective(mail'[d])
         /\ \A d \in Calls : \A f : Mailed(d, f)' <=> Mailed(d, f) \/ (d = p /\ f = g)
<1> DEFINE q == mail[p] \o <<g>>
<1>1. mail[p] \in Seq(Frames \cup {Gone}) /\ <<g>> \in Seq(Frames \cup {Gone}) /\ Injective(mail[p])
  BY DEF Sequential, Distinct
<1>2. /\ q \in Seq(Frames \cup {Gone}) /\ Injective(q)
      /\ \A f : In(f, q) <=> Mailed(p, f) \/ f = g
  <2>1. q \in Seq(Frames \cup {Gone}) /\ \A f : In(f, q) <=> In(f, mail[p]) \/ In(f, <<g>>)
    BY <1>1, InBoth
  <2>2. Injective(<<g>>) /\ \A f : In(f, <<g>>) => ~In(f, mail[p])
    BY InFew DEF Mailed
  <2>3. Injective(q)
    BY <1>1, <2>2, InjectiveBoth
  <2> QED BY <2>1, <2>3, InFew DEF Mailed
<1>3. mail' = [mail EXCEPT ![p] = q]
  BY <1>1, AppendIsConcat
<1> HIDE DEF q
<1>4. /\ mail' \in [Calls -> Seq(Frames \cup {Gone})]
      /\ \A d \in Calls : Injective(mail'[d])
      /\ \A d \in Calls : \A f : Mailed(d, f)' <=> IF d = p THEN In(f, q) ELSE Mailed(d, f)
  BY <1>2, <1>3, MailSet
<1> QED BY <1>2, <1>4

\* Every frame a step sends is new on its wire.
LEMMA RefusalIs ==
  ASSUME LinkInv, NEW c \in Calls, NEW s, s = Peer(call[c].side), NEW st \in Refusals, Waits(c)
  PROVE  /\ Fresh(s, RefusalFrames(s, c, st))
         /\ \A f : In(f, RefusalFrames(s, c, st)) <=>
              \/ f = Reply(c, st)
              \/ f = Release(call[c].object) /\ Readable(s, c) /\ call[c].pass = "new"
<1>1. s \in Sides /\ run[c] # "over" /\ st \in Statuses /\ Journeys(c)
  BY Peers DEF LinkInv, Plain, Records, Waits, Requested, Journeys, Statuses
<1>2. ~UnderWay(s, Reply(c, st))
  BY <1>1 DEF LinkInv, Replied
<1>3. ASSUME call[c].pass = "new"
      PROVE  Release(call[c].object) \in Frames /\ ~UnderWay(s, Release(call[c].object))
  <2>1. call[c].object \in Objects
    BY <1>3, ObjectsDiffer DEF LinkInv, Made
  <2>2. UnderWay(s, Release(call[c].object)) => Has(call[c].object, "release", s)
    BY <1>1 DEF Has
  <2>3. ~Has(call[c].object, "release", s)
    BY <1>1, <2>1, <1>3 DEF LinkInv, HasOne, Kinds, Bearers, Has
  <2> QED BY <2>1, <2>2, <2>3, FramesAre
<1>4. Reply(c, st) \in Frames /\ <<Reply(c, st)>> \in Seq(Frames)
  BY <1>1, FramesAre
<1>5. CASE Readable(s, c) /\ call[c].pass = "new"
  <2> DEFINE g == Release(call[c].object)
             h == Reply(c, st)
  <2>1. g \in Frames /\ ~UnderWay(s, g) /\ h \in Frames /\ ~UnderWay(s, h) /\ g # h
    BY <1>2, <1>3, <1>4, <1>5, FramesUnlike
  <2>2. RefusalFrames(s, c, st) = <<g>> \o <<h>>
    BY <1>5 DEF RefusalFrames
  <2> HIDE DEF g, h
  <2>3. <<g>> \in Seq(Frames) /\ <<h>> \in Seq(Frames)
    BY <2>1
  <2>4. /\ <<g>> \o <<h>> \in Seq(Frames) /\ Injective(<<g>> \o <<h>>)
        /\ \A f : In(f, <<g>> \o <<h>>) <=> f = g \/ f = h
    <3>1. /\ <<g>> \o <<h>> \in Seq(Frames)
          /\ \A f : In(f, <<g>> \o <<h>>) <=> In(f, <<g>>) \/ In(f, <<h>>)
      BY <2>3, InBoth
    <3> QED BY <2>1, <3>1, InFew
  <2>5. Fresh(s, <<g>> \o <<h>>)
    BY <2>1, <2>4 DEF Fresh
  <2> QED BY <1>5, <2>2, <2>4, <2>5 DEF g, h
<1>6. CASE ~(Readable(s, c) /\ call[c].pass = "new")
  <2>1. RefusalFrames(s, c, st) = <<>> \o <<Reply(c, st)>>
    BY <1>6 DEF RefusalFrames
  <2>2. RefusalFrames(s, c, st) = <<Reply(c, st)>>
    BY <1>4, <2>1
  <2>3. Fresh(s, <<Reply(c, st)>>)
    BY <1>2, <1>4, InFew DEF Fresh
  <2> QED BY <1>6, <2>2, <2>3, InFew
<1> QED BY <1>5, <1>6

WireFit ==
  /\ wire \in [Sides -> Seq(Frames)]
  /\ written \in [Sides -> Nat]
  /\ \A s \in Sides : written[s] <= Len(wire[s])
  /\ \A s \in Sides : Injective(wire[s])
MailFit ==
  /\ mail \in [Calls -> Seq(Frames \cup {Gone})]
  /\ \A p \in Calls : Injective(mail[p])
LateFit == late \in [Sides -> SUBSET Calls]
Fit == WireFit /\ MailFit /\ LateFit

LEMMA FitIs == Fit <=> Sequential /\ Distinct
BY DEF Fit, WireFit, MailFit, LateFit, Sequential, Distinct

\* What a step leaves alone.
LEMMA WireSame == ASSUME Fit, UNCHANGED <<wire, written>> PROVE WireFit' /\ WireKept
BY DEF Fit, WireFit, WireKept, UnderWay

LEMMA MailSame == ASSUME Fit, UNCHANGED mail PROVE MailFit' /\ MailKept
BY DEF Fit, MailFit, MailKept, Mailed

LEMMA LateSame == ASSUME Fit, UNCHANGED late PROVE LateFit'
BY DEF Fit, LateFit

\* One frame is sent.
LEMMA SentOne ==
  ASSUME Fit, NEW s \in Sides, NEW g \in Frames, ~UnderWay(s, g) \/ ~alive[s],
         wire' = Sent(s, <<g>>), UNCHANGED written
  PROVE  WireFit' /\ WireSent(s, g)
<1>0. Sequential /\ Distinct
  BY FitIs
<1>1. CASE ~alive[s]
  BY <1>1, WireSame DEF WireKept, WireSent, Sent
<1>2. CASE alive[s]
  <2>1. Fresh(s, <<g>>)
    BY <1>2, InFew DEF Fresh
  <2>2. /\ wire' \in [Sides -> Seq(Frames)]
        /\ \A x \in Sides : Injective(wire'[x]) /\ Len(wire[x]) <= Len(wire'[x])
        /\ \A x \in Sides : \A f :
              UnderWay(x, f)' <=> UnderWay(x, f) \/ (x = s /\ alive[s] /\ In(f, <<g>>))
    BY <1>0, <2>1, SentIs
  <2>3. \A x \in Sides : written'[x] <= Len(wire'[x])
    <3> SUFFICES ASSUME NEW x \in Sides PROVE written'[x] <= Len(wire'[x])
      OBVIOUS
    <3> QED BY <2>2 DEF Fit, WireFit
  <2>4. WireFit'
    BY <2>2, <2>3 DEF Fit, WireFit
  <2> QED BY <2>2, <2>4, InFew DEF WireSent
<1> QED BY <1>1, <1>2

\* Every action but those of the readers and of the link's end.
LEMMA MakeStep ==
  ASSUME TypeOK, LinkInv, NEW c \in Calls, NEW s \in Sides, NEW q \in Calls \cup {0}, Make(c, s, q)
  PROVE  Fit' /\ Step
<1>1. Plain /\ Made /\ Fit
  BY TypesAre, FitIs DEF LinkInv
<1>2. WireFit' /\ WireKept /\ MailFit' /\ MailKept /\ LateFit'
  BY <1>1, WireSame, MailSame, LateSame DEF Make
<1>3. PICK target \in Targets(s, q), pass \in Passes : \E object \in Passable(c, s, target, pass) :
         /\ call' = [call EXCEPT ![c] =
              [side |-> s, parent |-> q, target |-> target, pass |-> pass,
               object |-> object, level |-> IF q = 0 THEN 0 ELSE RunDepth(q) + 1]]
         /\ exports' = [exports EXCEPT ![s] =
              IF pass \in {"new", "lent"} THEN @ \cup {object} ELSE @]
         /\ handles' = [handles EXCEPT ![s] = @ \ (IF pass = "back" THEN {object} ELSE {})]
  BY DEF Make
<1>4. PICK object \in Passable(c, s, target, pass) :
         /\ call' = [call EXCEPT ![c] =
              [side |-> s, parent |-> q, target |-> target, pass |-> pass,
               object |-> object, level |-> IF q = 0 THEN 0 ELSE RunDepth(q) + 1]]
         /\ exports' = [exports EXCEPT ![s] =
              IF pass \in {"new", "lent"} THEN @ \cup {object} ELSE @]
         /\ handles' = [handles EXCEPT ![s] = @ \ (IF pass = "back" THEN {object} ELSE {})]
  BY <1>3
<1> DEFINE level == IF q = 0 THEN 0 ELSE RunDepth(q) + 1
           m == [side |-> s, parent |-> q, target |-> target, pass |-> pass,
                 object |-> object, level |-> level]
<1>5. level \in Nat
  BY <1>1 DEF RunDepth, Plain, Records
<1>6. pass \in PassKinds
  BY LinkAssumption
<1>7. /\ pass \in {"new", "lent"} => object = Arg(c)
      /\ pass = "nothing" => object = NoObject
      /\ pass = "back" => object \in handles[s] /\ object # target /\ ~InUse(object)
  BY <1>6 DEF Passable
<1>8. m \in Records
  BY <1>5, <1>1, ObjectsDiffer, <1>6, <1>7 DEF Records, Targets, Plain, Made, PassKinds
<1> HIDE DEF level
<1>9. Makes(c, m)
  <2>1. exports' = [exports EXCEPT ![s] = IF pass \in {"new", "lent"} THEN @ \cup {Arg(c)} ELSE @]
    BY <1>4, <1>7
  <2>2. handles' = [handles EXCEPT ![s] = IF pass = "back" THEN @ \ {object} ELSE @]
    BY <1>4
  <2>3. call' = [call EXCEPT ![c] = m]
    BY <1>4 DEF level
  <2>4. /\ at[c] = "unmade" /\ alive[s]
        /\ IF q = 0 THEN Cardinality(InFlight(s)) < Limit
           ELSE run[q] = "running" /\ call[q].side # s /\ RunnerFree(q)
        /\ at' = [at EXCEPT ![c] = "sending"]
        /\ UNCHANGED <<alive, run, flag, answer>>
        /\ target # Catalog
    BY <1>1, ObjectsDiffer DEF Make, Running, Targets, Plain, Made
  <2>5. m.side = s /\ m.parent = q /\ m.target = target /\ m.pass = pass /\ m.object = object
    OBVIOUS
  <2> HIDE DEF m
  <2> QED BY <1>2, <1>7, <2>1, <2>2, <2>3, <2>4, <2>5 DEF Makes
<1> QED BY <1>2, <1>8, <1>9 DEF Fit, Step

LEMMA AskStep == ASSUME TypeOK, LinkInv, NEW c \in Calls, Ask(c) PROVE Fit' /\ Step
<1>1. Fit
  BY TypesAre, FitIs DEF LinkInv
<1>2. WireFit' /\ WireKept /\ MailFit' /\ MailKept /\ LateFit'
  BY <1>1, WireSame, MailSame, LateSame DEF Ask
<1> DEFINE m == [side |-> Client, parent |-> 0, target |-> Catalog, pass |-> "nothing",
                 object |-> NoObject, level |-> 0]
<1>3. m \in Records
  BY DEF Records, Sides, PassKinds
<1>4. /\ m.side = Client /\ m.parent = 0 /\ m.target = Catalog /\ m.pass = "nothing"
      /\ m.object = NoObject
  OBVIOUS
<1>5. call' = [call EXCEPT ![c] = m]
  BY DEF Ask
<1> HIDE DEF m
<1>6. Makes(c, m)
  <2>1. /\ exports = [exports EXCEPT ![Client] =
             IF m.pass \in {"new", "lent"} THEN @ \cup {Arg(c)} ELSE @]
        /\ handles = [handles EXCEPT ![Client] = IF m.pass = "back" THEN @ \ {m.object} ELSE @]
    BY <1>4, TypesAre DEF Plain
  <2> QED BY <1>2, <1>4, <1>5, <2>1 DEF Makes, Ask
<1> QED BY <1>2, <1>3, <1>6 DEF Fit, Step

LEMMA SendStep == ASSUME TypeOK, LinkInv, NEW c \in Calls, Send(c) PROVE Fit' /\ Step
<1>1. WireFit' /\ WireSent(call[c].side, CallFrame(c)) /\ MailFit' /\ MailKept /\ LateFit'
  BY TypesAre, FitIs, FramesAre, SentOne, MailSame, LateSame
    DEF Send, Requested, LinkInv, Plain, Records
<1> QED BY <1>1 DEF Fit, Step, Sends, Send

LEMMA UnsentStep == ASSUME TypeOK, LinkInv, NEW c \in Calls, Unsent(c) PROVE Fit' /\ Step
<1>1. Fit
  BY TypesAre, FitIs DEF LinkInv
<1>2. WireFit' /\ WireKept /\ MailFit' /\ MailKept /\ LateFit'
  BY <1>1, WireSame, MailSame, LateSame DEF Unsent
<1> QED BY <1>2 DEF Fit, Step, Drops

LEMMA TimeOutStep == ASSUME TypeOK, LinkInv, NEW c \in Calls, TimeOut(c) PROVE Fit' /\ Step
<1>1. Fit
  BY TypesAre, FitIs DEF LinkInv
<1>2. WireFit' /\ WireKept /\ MailFit' /\ MailKept /\ LateFit'
  BY <1>1, WireSame, MailSame, LateSame DEF TimeOut
<1> QED BY <1>2 DEF Fit, Step, TimesOut

\* A mailbox is emptied.
LEMMA MailGoes ==
  ASSUME Fit, NEW c \in Calls, mail' = [mail EXCEPT ![c] = <<>>]
  PROVE  MailFit' /\ MailDropped(c)
<1>1. <<>> \in Seq(Frames \cup {Gone}) /\ Injective(<<>>)
  BY InFew
<1>2. /\ mail' \in [Calls -> Seq(Frames \cup {Gone})]
      /\ \A d \in Calls : Injective(mail'[d])
      /\ \A d \in Calls : \A f : Mailed(d, f)' <=> IF d = c THEN In(f, <<>>) ELSE Mailed(d, f)
  BY <1>1, MailSet, FitIs
<1> QED BY <1>2, InFew DEF MailFit, MailDropped

LEMMA TakeStep == ASSUME TypeOK, LinkInv, NEW c \in Calls, TakeReply(c) PROVE Fit' /\ Step
<1>1. Fit /\ Replied
  BY TypesAre, FitIs DEF LinkInv
<1>2. WireFit' /\ WireKept /\ MailFit' /\ MailDropped(c) /\ LateFit'
  BY <1>1, WireSame, MailGoes, LateSame DEF TakeReply
<1> DEFINE h == Head(mail[c])
<1>3. h \in Frames \cup {Gone} /\ Mailed(c, h)
  BY <1>1, InRest DEF Mailed, TakeReply, Fit, MailFit
<1>4. h.kind \in {"reply", "gone"}
  BY DEF TakeReply
<1>5. /\ at[c] = "waiting"
      /\ at' = [at EXCEPT ![c] = "done"]
      /\ handles' = [handles EXCEPT ![call[c].side] =
           IF h = Reply(c, "object") THEN @ \cup {Ans(c)} ELSE @]
      /\ exports' = Unlent(c)
      /\ UNCHANGED <<alive, call, run, flag, answer>>
  BY DEF TakeReply
<1> HIDE DEF h
<1>6. CASE h = Gone
  BY <1>2, <1>3, <1>5, <1>6, FramesUnlike, TypesAre DEF Fit, Step, Takes, Plain
<1>7. CASE h # Gone
  <2>1. PICK d \in Calls, st \in Statuses : h = Reply(d, st)
    BY <1>3, <1>4, <1>7, FrameKinds
  <2>2. d = c /\ \A g \in Statuses : Mailed(c, Reply(c, g)) => st = g
    BY <1>1, <1>3, <2>1 DEF Replied
  <2>3. CASE st = "object"
    BY <1>2, <1>3, <1>5, <2>1, <2>2, <2>3 DEF Fit, Step, Takes
  <2>4. CASE st # "object"
    <3> QED
      BY <1>2, <1>3, <1>5, <2>1, <2>2, <2>4, FramesUnlike, TypesAre
        DEF Fit, Step, Takes, Plain, Statuses, AnswerKinds
  <2> QED BY <2>3, <2>4
<1> QED BY <1>6, <1>7

LEMMA DropStep ==
  ASSUME TypeOK, LinkInv, NEW s \in Sides, NEW o \in handles[s], DropHandle(s, o)
  PROVE  Fit' /\ Step
<1>1. Fit /\ HasOne /\ o \in Objects
  BY TypesAre, FitIs DEF LinkInv, Plain
<1>2. WireFit' /\ WireSent(s, Release(o)) /\ MailFit' /\ MailKept /\ LateFit'
  BY <1>1, FramesAre, SentOne, MailSame, LateSame DEF DropHandle, HasOne, Kinds, Bearers, Has
<1> QED BY <1>1, <1>2 DEF Fit, Step, LetsGo, DropHandle

LEMMA AnswerStep == ASSUME TypeOK, LinkInv, NEW c \in Calls, Answer(c) PROVE Fit' /\ Step
<1>1. /\ WireFit' /\ WireSent(Peer(call[c].side), Reply(c, answer[c]))
      /\ MailFit' /\ MailKept /\ LateFit'
  BY TypesAre, FitIs, Peers, FramesAre, SentOne, MailSame, LateSame
    DEF Answer, Replied, LinkInv, Plain, Records, Statuses
<1> QED BY <1>1 DEF Fit, Step, Replies, Answer

LEMMA FinishStep ==
  ASSUME TypeOK, LinkInv, NEW c \in Calls, NEW what \in Answers, Finish(c, what)
  PROVE  Fit' /\ Step
<1>1. Fit /\ what \in AnswerKinds
  BY TypesAre, FitIs, LinkAssumption DEF LinkInv
<1>2. WireFit' /\ WireKept /\ MailFit' /\ MailKept /\ LateFit'
  BY <1>1, WireSame, MailSame, LateSame DEF Finish
<1> QED BY <1>1, <1>2 DEF Fit, Step, Finishes

LEMMA ForgetIs == ASSUME TypeOK, LinkInv, NEW c \in Calls, Forget(c)
  PROVE  MailFit' /\ MailDropped(c) /\ LateFit'
<1>1. Fit
  BY TypesAre, FitIs DEF LinkInv
<1>2. MailFit' /\ MailDropped(c)
  BY <1>1, MailGoes DEF Forget
<1> QED BY <1>1, <1>2 DEF Forget, Fit, LateFit

LEMMA PositionIs == ASSUME TypeOK, LinkInv, NEW c \in Calls
  PROVE  LET n == Position(c)
             q == wire[call[c].side]
         IN n \in 0 .. Len(q) /\ (n # 0 => q[n] = CallFrame(c))
<1> DEFINE q == wire[call[c].side]
           places == {i \in 1 .. Len(q) : q[i] = CallFrame(c)}
<1>1. Len(q) \in Nat
  BY TypesAre DEF Plain, Records, Sequential
<1>2. CASE places = {}
  BY <1>1, <1>2 DEF Position
<1>3. CASE places # {}
  <2>1. Position(c) \in places
    BY <1>3 DEF Position
  <2> QED BY <1>1, <2>1
<1> QED BY <1>2, <1>3

LEMMA RetractStep == ASSUME TypeOK, LinkInv, NEW c \in Calls, Retract(c) PROVE Fit' /\ Step
<1> DEFINE s == call[c].side
           n == Position(c)
           q == wire[s]
           r == SubSeq(q, 1, n - 1) \o SubSeq(q, n + 1, Len(q))
<1>1. Fit /\ s \in Sides /\ written[s] \in Nat /\ n > written[s] /\ Forget(c)
  BY TypesAre, FitIs DEF LinkInv, Plain, Records, Sequential, Retract
<1>2. MailFit' /\ MailDropped(c) /\ LateFit'
  BY <1>1, ForgetIs
<1>3. q \in Seq(Frames) /\ Injective(q) /\ n \in 1 .. Len(q) /\ q[n] = CallFrame(c)
  BY <1>1, PositionIs DEF Fit, WireFit
<1>4. r \in Seq(Frames) /\ Lacks(r, q, n)
  BY <1>3, LacksOne
<1> HIDE DEF s, n, q, r
<1>5. Injective(r) /\ (\A f : In(f, r) <=> In(f, q) /\ f # q[n]) /\ Len(r) = Len(q) - 1
  <2> QED BY <1>4, <1>3, InWithout DEF Lacks
<1>6. wire' = [wire EXCEPT ![s] = r] /\ written' = written
  BY DEF Retract, s, n, q, r
<1>7. wire'[s] = r /\ (\A x \in Sides : x # s => wire'[x] = wire[x]) /\ wire' \in [Sides -> Seq(Frames)]
  BY <1>1, <1>4, <1>6 DEF Fit, WireFit
<1>8. WireFit'
  BY <1>1, <1>5, <1>6, <1>7, <1>3 DEF Fit, WireFit
<1>9. Forgets(c)
  BY <1>1, <1>2, <1>3, <1>5, <1>7 DEF Forgets, Forget, s, UnderWay, q
<1> QED BY <1>2, <1>8, <1>9 DEF Fit, Step

LEMMA CancelStep == ASSUME TypeOK, LinkInv, NEW c \in Calls, SendCancel(c) PROVE Fit' /\ Step
<1> DEFINE s == call[c].side
           n == Position(c)
<1>1. Fit /\ Sequential /\ Distinct /\ Cancelled /\ s \in Sides /\ Forget(c) /\ at[c] = "timedout"
  BY TypesAre, FitIs DEF LinkInv, Plain, Records, SendCancel, Forget
<1>2. MailFit' /\ MailDropped(c) /\ LateFit'
  BY <1>1, ForgetIs
<1>3. Fresh(s, <<Cancel(c)>>)
  BY <1>1, FramesAre, InFew DEF Fresh, Cancelled
<1>4. wire' = Sent(s, <<Cancel(c)>>) /\ written' = [written EXCEPT ![s] = IF n > @ THEN n ELSE @]
  BY DEF SendCancel
<1>5. /\ wire' \in [Sides -> Seq(Frames)]
      /\ \A x \in Sides : Injective(wire'[x]) /\ Len(wire[x]) <= Len(wire'[x])
      /\ \A x \in Sides : \A f :
           UnderWay(x, f)' <=> UnderWay(x, f) \/ (x = s /\ alive[s] /\ In(f, <<Cancel(c)>>))
  BY <1>1, <1>3, <1>4, SentIs
<1>6. n \in 0 .. Len(wire[s]) /\ \A x \in Sides : Len(wire[x]) \in Nat /\ Len(wire'[x]) \in Nat
  BY <1>1, <1>5, PositionIs DEF Sequential
<1> HIDE DEF s, n
<1>7. written' \in [Sides -> Nat] /\ \A x \in Sides : written'[x] <= Len(wire'[x])
  <2>1. written' \in [Sides -> Nat]
    BY <1>1, <1>4, <1>6 DEF Sequential
  <2>2. ASSUME NEW x \in Sides PROVE written'[x] <= Len(wire'[x])
    <3>1. written[x] \in Nat /\ written[x] <= Len(wire[x])
      BY DEF Sequential, s, TypeOK
    <3> QED BY <1>5, <1>6, <3>1, <1>1, <1>4 DEF Sequential
  <2> QED BY <2>1, <2>2
<1>8. WireFit'
  BY <1>5, <1>7 DEF WireFit
<1>9. Forgets(c)
  BY <1>1, <1>2, <1>5, InFew DEF Forgets, Forget, s
<1> QED BY <1>2, <1>8, <1>9 DEF Fit, Step

\* Begin, however it comes to it: the request is taken from where it was.
LEMMA BeginIs ==
  ASSUME TypeOK, LinkInv, NEW c \in Calls, Begin(c), MailTaken(c),
         run[c] = "pool" \/ (call[c].parent # 0 /\ Mailed(call[c].parent, CallFrame(c))),
         UNCHANGED <<alive, call, at, flag, answer, written>>
  PROVE  WireFit' /\ Step
<1> DEFINE s == Peer(call[c].side)
           st == Refusal(s, c)
<1>1. Fit /\ Sequential /\ Distinct /\ s \in Sides /\ Waits(c)
  BY TypesAre, FitIs, Peers DEF LinkInv, Plain, Records, Waits
<1>2. \A x \in Sides : ~UnderWay(x, CallFrame(c))
  BY TypesAre DEF LinkInv, Requested, Plain, Records
<1>3. CASE st = "none"
  <2>1. wire' = wire
    BY <1>3 DEF Begin
  <2>2. WireFit' /\ WireKept
    BY <1>1, <2>1, WireSame
  <2>3. Begins(c)
    BY <1>3, <2>2 DEF Begins, Begin
  <2> QED BY <2>2, <2>3 DEF Step
<1>4. CASE st # "none"
  <2>1. st \in Refusals /\ st # "busy"
    BY <1>4 DEF Refusals, Refusal
  <2>2. /\ exports' = LetGoExports(s, c)
        /\ wire' = Sent(s, RefusalFrames(s, c, st))
        /\ run' = [run EXCEPT ![c] = "over"]
        /\ UNCHANGED handles
    BY <1>4 DEF Begin
  <2> HIDE DEF st
  <2>3. /\ Fresh(s, RefusalFrames(s, c, st))
        /\ \A f : In(f, RefusalFrames(s, c, st)) <=>
             \/ f = Reply(c, st)
             \/ f = Release(call[c].object) /\ Readable(s, c) /\ call[c].pass = "new"
    BY <1>1, <2>1, RefusalIs
  <2> HIDE DEF s
  <2>4. /\ wire' \in [Sides -> Seq(Frames)]
        /\ \A x \in Sides : Injective(wire'[x]) /\ Len(wire[x]) <= Len(wire'[x])
        /\ \A x \in Sides : \A f : UnderWay(x, f)' <=>
             UnderWay(x, f) \/ (x = s /\ alive[s] /\ In(f, RefusalFrames(s, c, st)))
    BY <1>1, <2>2, <2>3, SentIs
  <2>5. WireFit'
    <3> SUFFICES ASSUME NEW x \in Sides PROVE written'[x] <= Len(wire'[x])
      BY <2>4 DEF Fit, WireFit, Sequential, TypeOK
    <3> QED BY <2>4, <1>1 DEF Fit, WireFit
  <2>6. Refuses(s, c, st)
    <3> QED BY <1>1, <1>2, <2>1, <2>2, <2>3, <2>4 DEF Refuses, st, s
  <2> QED BY <1>1, <2>1, <2>5, <2>6 DEF Step
<1> QED BY <1>3, <1>4

LEMMA PoolStep == ASSUME TypeOK, LinkInv, NEW c \in Calls, BeginOnPool(c) PROVE Fit' /\ Step
<1>1. Fit
  BY TypesAre, FitIs DEF LinkInv
<1>2. MailFit' /\ MailKept /\ LateFit'
  BY <1>1, MailSame, LateSame DEF BeginOnPool
<1>3. WireFit' /\ Step
  BY <1>2, BeginIs DEF BeginOnPool, MailKept, MailTaken, LinkInv, Requested
<1> QED BY <1>2, <1>3 DEF Fit

LEMMA WaitStep == ASSUME TypeOK, LinkInv, NEW p \in Calls, BeginInWait(p) PROVE Fit' /\ Step
<1> DEFINE h == Head(mail[p])
<1>1. Fit /\ Sequential /\ Distinct
  BY TypesAre, FitIs DEF LinkInv
<1>2. /\ Tail(mail[p]) \in Seq(Frames \cup {Gone}) /\ Injective(Tail(mail[p]))
      /\ h \in Frames \cup {Gone} /\ Mailed(p, h)
      /\ \A f : In(f, Tail(mail[p])) <=> Mailed(p, f) /\ f # h
  BY <1>1, InRest DEF Mailed, BeginInWait, Fit, MailFit
<1>3. PICK c \in Calls : h = CallFrame(c)
  BY <1>2, FrameKinds DEF BeginInWait
<1>4. p = call[c].parent /\ call[c].parent # 0 /\ \A d \in Calls : Mailed(d, CallFrame(c)) => d = p
  <2>1. 0 \notin Calls
    BY LinkAssumption, FS_CardinalityType
  <2> QED BY <1>2, <1>3, <2>1 DEF LinkInv, Requested
<1>5. /\ mail' \in [Calls -> Seq(Frames \cup {Gone})]
      /\ \A d \in Calls : Injective(mail'[d])
      /\ \A d \in Calls : \A f : Mailed(d, f)' <=> IF d = p THEN In(f, Tail(mail[p])) ELSE Mailed(d, f)
  BY <1>1, <1>2, MailSet DEF BeginInWait
<1>6. MailFit' /\ MailTaken(c)
  BY <1>2, <1>3, <1>4, <1>5 DEF MailFit, MailTaken
<1>7. WireFit' /\ Step
  BY <1>2, <1>3, <1>4, <1>6, FramesDiffer, BeginIs DEF BeginInWait
<1>8. LateFit'
  BY <1>1, LateSame DEF BeginInWait
<1> QED BY <1>6, <1>7, <1>8 DEF Fit

\* What a reader finds.
LEMMA ArrivedIs ==
  ASSUME TypeOK, LinkInv, NEW s \in Sides, NEW k, Arrived(s, k)
  PROVE  /\ Fit /\ Sequential /\ Distinct /\ alive[s] /\ wire[Peer(s)] # <<>> /\ Peer(s) \in Sides
         /\ Head(wire[Peer(s)]) \in Frames /\ Head(wire[Peer(s)]).kind = k
         /\ UnderWay(Peer(s), Head(wire[Peer(s)]))
<1>1. Fit /\ Sequential /\ Distinct /\ Peer(s) \in Sides
  BY TypesAre, FitIs, Peers DEF LinkInv
<1>2. alive[s] /\ wire[Peer(s)] # <<>> /\ Head(wire[Peer(s)]).kind = k
  BY DEF Arrived
<1>3. Head(wire[Peer(s)]) \in Frames /\ UnderWay(Peer(s), Head(wire[Peer(s)]))
  BY <1>2, <1>1, InRest DEF UnderWay, Fit, WireFit
<1> QED BY <1>1, <1>2, <1>3

LEMMA NothingFresh == ASSUME NEW s PROVE Fresh(s, <<>>)
<1>1. <<>> \in Seq(Frames)
  OBVIOUS
<1> QED BY <1>1, InFew DEF Fresh

\* A reader takes the frame g, and the wires are as it leaves them.
LEMMA ReadStep ==
  ASSUME TypeOK, LinkInv, NEW s \in Sides, NEW k, Arrived(s, k), NEW frames, Fresh(s, frames),
         Reads(s, frames), NEW g, g = Head(wire[Peer(s)])
  PROVE  /\ WireFit'
         /\ \A x \in Sides : \A f : UnderWay(x, f)' <=>
              \/ UnderWay(x, f) /\ ~(x = Peer(s) /\ f = g)
              \/ x = s /\ In(f, frames)
<1>1. /\ wire' \in [Sides -> Seq(Frames)]
      /\ written' \in [Sides -> Nat]
      /\ \A x \in Sides : Injective(wire'[x]) /\ written'[x] <= Len(wire'[x])
      /\ \A x \in Sides : \A f : UnderWay(x, f)' <=>
           \/ UnderWay(x, f) /\ ~(x = Peer(s) /\ f = Head(wire[Peer(s)]))
           \/ x = s /\ In(f, frames)
  BY ArrivedIs, ReadsIs
<1> QED BY <1>1 DEF WireFit

\* A request arrives.
LEMMA RequestIs ==
  ASSUME TypeOK, LinkInv, NEW s \in Sides, Arrived(s, "call")
  PROVE  \E c \in Calls :
           /\ Head(wire[Peer(s)]) = CallFrame(c) /\ Head(wire[Peer(s)]).call = c
           /\ s = Peer(call[c].side) /\ Peer(s) = call[c].side /\ call[c].side \in Sides
           /\ UnderWay(call[c].side, CallFrame(c)) /\ Waits(c)
           /\ \A x \in Sides : UnderWay(x, CallFrame(c)) => x = Peer(s)
           /\ \A p \in Calls : ~Mailed(p, CallFrame(c))
           /\ call[c].parent \in Calls \cup {0}
<1>1. /\ Head(wire[Peer(s)]) \in Frames /\ Head(wire[Peer(s)]).kind = "call"
      /\ UnderWay(Peer(s), Head(wire[Peer(s)])) /\ Peer(s) \in Sides
  BY ArrivedIs
<1>2. PICK c \in Calls : Head(wire[Peer(s)]) = CallFrame(c)
  BY <1>1, FrameKinds
<1>3. Head(wire[Peer(s)]).call = c
  BY <1>2, FramesDiffer
<1>4. call[c].side \in Sides /\ call[c].parent \in Calls \cup {0}
  BY DEF LinkInv, Plain, Records
<1>5. Peer(s) = call[c].side /\ \A p \in Calls : ~Mailed(p, CallFrame(c))
  BY <1>1, <1>2 DEF LinkInv, Requested
<1>6. \A x \in Sides : UnderWay(x, CallFrame(c)) => x = Peer(s)
  BY <1>5 DEF LinkInv, Requested
<1>7. s = Peer(call[c].side)
  BY <1>5, Peers
<1>8. UnderWay(call[c].side, CallFrame(c)) /\ Waits(c)
  BY <1>1, <1>2, <1>5 DEF Waits
<1> QED BY <1>2, <1>3, <1>4, <1>5, <1>6, <1>7, <1>8

\* The reader refuses it.
LEMMA ReadRefusal ==
  ASSUME TypeOK, LinkInv, NEW s \in Sides, NEW c \in Calls, NEW st \in Refusals, st # "letgo",
         Arrived(s, "call"), Head(wire[Peer(s)]) = CallFrame(c),
         s = Peer(call[c].side), Waits(c),
         \A x \in Sides : UnderWay(x, CallFrame(c)) => x = Peer(s),
         \A p \in Calls : ~Mailed(p, CallFrame(c)),
         st = "busy" => /\ UnderWay(call[c].side, CallFrame(c)) /\ call[c].parent = 0
                        /\ Cardinality(Placed(s)) >= Limit,
         Reads(s, RefusalFrames(s, c, st)), MailKept,
         run' = [run EXCEPT ![c] = "over"], exports' = LetGoExports(s, c),
         UNCHANGED <<alive, call, at, flag, answer, handles>>
  PROVE  WireFit' /\ Step
<1>1. /\ Fresh(s, RefusalFrames(s, c, st))
      /\ \A f : In(f, RefusalFrames(s, c, st)) <=>
           \/ f = Reply(c, st)
           \/ f = Release(call[c].object) /\ Readable(s, c) /\ call[c].pass = "new"
  BY RefusalIs
<1>2. /\ WireFit'
      /\ \A x \in Sides : \A f : UnderWay(x, f)' <=>
           \/ UnderWay(x, f) /\ ~(x = Peer(s) /\ f = CallFrame(c))
           \/ x = s /\ In(f, RefusalFrames(s, c, st))
  BY <1>1, ReadStep
<1>3. alive[s]
  BY DEF Arrived
<1>4. MailTaken(c)
  BY DEF MailKept, MailTaken
<1>5. Refuses(s, c, st)
  BY <1>4, <1>1, <1>2, <1>3 DEF Refuses
<1> QED BY <1>2, <1>5 DEF Step

\* The reader passes it on.
LEMMA ReadQueued ==
  ASSUME TypeOK, LinkInv, NEW s \in Sides, NEW c \in Calls,
         Arrived(s, "call"), Head(wire[Peer(s)]) = CallFrame(c),
         Peer(s) = call[c].side, Reads(s, <<>>)
  PROVE  WireFit' /\ WireTaken(call[c].side, CallFrame(c))
<1>1. /\ WireFit'
      /\ \A x \in Sides : \A f : UnderWay(x, f)' <=>
           \/ UnderWay(x, f) /\ ~(x = Peer(s) /\ f = CallFrame(c))
           \/ x = s /\ In(f, <<>>)
  BY NothingFresh, ReadStep
<1> QED BY <1>1, InFew DEF WireTaken

LEMMA RouteCallStep == ASSUME TypeOK, LinkInv, NEW s \in Sides, RouteCall(s) PROVE Fit' /\ Step
<1>1. Arrived(s, "call") /\ Fit
  BY ArrivedIs DEF RouteCall
<1>2. MailFit' /\ MailKept /\ LateFit'
  BY <1>1, MailSame, LateSame DEF RouteCall
<1>3. PICK c \in Calls :
           /\ Head(wire[Peer(s)]) = CallFrame(c) /\ Head(wire[Peer(s)]).call = c
           /\ s = Peer(call[c].side) /\ Peer(s) = call[c].side /\ call[c].side \in Sides
           /\ UnderWay(call[c].side, CallFrame(c)) /\ Waits(c)
           /\ \A x \in Sides : UnderWay(x, CallFrame(c)) => x = Peer(s)
           /\ \A p \in Calls : ~Mailed(p, CallFrame(c))
           /\ call[c].parent \in Calls \cup {0}
  BY <1>1, RequestIs
<1>4. PICK why \in PoolRefusals(s) :
           /\ call[c].parent = 0
           /\ Reads(s, IF why = "none" THEN <<>> ELSE RefusalFrames(s, c, why))
           /\ run' = [run EXCEPT ![c] = IF why = "none" THEN "pool" ELSE "over"]
           /\ exports' = IF why = "none" THEN exports ELSE LetGoExports(s, c)
           /\ UNCHANGED <<alive, call, at, flag, answer, mail, late, handles>>
  BY <1>3 DEF RouteCall
<1>5. CASE why # "none"
  <2>1. /\ why \in Refusals /\ why # "letgo"
        /\ why = "busy" => Cardinality(Placed(s)) >= Limit
    BY <1>5 DEF PoolRefusals, Refusals
  <2>2. Reads(s, RefusalFrames(s, c, why)) /\ run' = [run EXCEPT ![c] = "over"] /\ exports' = LetGoExports(s, c)
    BY <1>4, <1>5
  <2>3. WireFit' /\ Step
    BY <1>1, <1>2, <1>3, <1>4, <2>1, <2>2, ReadRefusal
  <2> QED BY <1>2, <2>3 DEF Fit
<1>6. CASE why = "none"
  <2> QED BY <1>2, <1>1, <1>3, <1>4, <1>6, ReadQueued DEF Fit, Step, Queues
<1> QED BY <1>5, <1>6

LEMMA RouteNestedStep == ASSUME TypeOK, LinkInv, NEW s \in Sides, RouteNested(s) PROVE Fit' /\ Step
<1>1. Arrived(s, "call") /\ Fit /\ Sequential /\ Distinct
  BY ArrivedIs DEF RouteNested
<1>2. LateFit'
  BY <1>1, LateSame DEF RouteNested
<1>3. PICK c \in Calls :
           /\ Head(wire[Peer(s)]) = CallFrame(c) /\ Head(wire[Peer(s)]).call = c
           /\ s = Peer(call[c].side) /\ Peer(s) = call[c].side /\ call[c].side \in Sides
           /\ UnderWay(call[c].side, CallFrame(c)) /\ Waits(c)
           /\ \A x \in Sides : UnderWay(x, CallFrame(c)) => x = Peer(s)
           /\ \A p \in Calls : ~Mailed(p, CallFrame(c))
           /\ call[c].parent \in Calls \cup {0}
  BY <1>1, RequestIs
<1> DEFINE p == call[c].parent
           queued == Cardinality({i \in 1 .. Len(mail[p]) : mail[p][i].kind = "call"})
           taken == Registered(p) /\ queued < MaxQueued
           st == IF Registered(p) THEN "queue" ELSE "returned"
<1>4. /\ p # 0
      /\ Reads(s, IF taken THEN <<>> ELSE RefusalFrames(s, c, st))
      /\ mail' = [mail EXCEPT ![p] = IF taken THEN Append(@, CallFrame(c)) ELSE @]
      /\ run' = [run EXCEPT ![c] = IF taken THEN @ ELSE "over"]
      /\ exports' = IF taken THEN exports ELSE LetGoExports(s, c)
      /\ UNCHANGED <<alive, call, at, flag, answer, late, handles>>
  BY <1>3 DEF RouteNested
<1>5. p \in Calls /\ CallFrame(c) \in Frames
  BY <1>3, <1>4, FramesAre
<1> HIDE DEF p
<1>6. CASE ~taken
  <2>1. st \in Refusals /\ st # "letgo" /\ st # "busy"
    BY DEF Refusals
  <2>2. mail' = mail
    BY <1>1, <1>4, <1>6 DEF Sequential
  <2>3. MailFit' /\ MailKept
    BY <1>1, <2>2, MailSame
  <2>4. Reads(s, RefusalFrames(s, c, st))
    BY <1>4, <1>6
  <2> HIDE DEF st
  <2>5. WireFit' /\ Step
    BY <1>1, <1>3, <1>4, <2>1, <2>3, <2>4, <1>6, ReadRefusal
  <2> QED BY <1>2, <2>3, <2>5 DEF Fit
<1>7. CASE taken
  <2>1. WireFit' /\ WireTaken(call[c].side, CallFrame(c))
    BY <1>1, <1>3, <1>4, <1>7, ReadQueued
  <2>2. /\ mail' \in [Calls -> Seq(Frames \cup {Gone})]
        /\ \A d \in Calls : Injective(mail'[d])
        /\ \A d \in Calls : \A f : Mailed(d, f)' <=> Mailed(d, f) \/ (d = p /\ f = CallFrame(c))
    BY <1>1, <1>3, <1>4, <1>5, <1>7, MailGets
  <2>3. MailFit'
    BY <2>2 DEF MailFit
  <2>4. Queues(c)
    BY <1>3, <1>4, <1>7, <2>1, <2>2, TypesAre DEF Queues, p, Plain
  <2> QED BY <1>2, <2>1, <2>3, <2>4 DEF Fit, Step
<1> QED BY <1>6, <1>7

LEMMA RouteReplyStep == ASSUME TypeOK, LinkInv, NEW s \in Sides, RouteReply(s) PROVE Fit' /\ Step
<1> DEFINE h == Head(wire[Peer(s)])
<1>1. Arrived(s, "reply") /\ Fit /\ Sequential /\ Distinct /\ Plain /\ alive[s]
  BY ArrivedIs, TypesAre DEF RouteReply
<1>2. h \in Frames /\ h.kind = "reply" /\ UnderWay(Peer(s), h) /\ Peer(s) \in Sides
  BY <1>1, ArrivedIs
<1>3. PICK c \in Calls, st \in Statuses : h = Reply(c, st)
  BY <1>2, FrameKinds
<1>4. h.call = c /\ h.status = st
  BY <1>3, FramesDiffer
<1> DEFINE settled == ~Registered(c) /\ c \in late[s] /\ st = "object"
           frames == IF settled THEN <<Release(Ans(c))>> ELSE <<>>
<1>5. /\ Reads(s, frames)
      /\ mail' = [mail EXCEPT ![c] = IF Registered(c) THEN Append(@, h) ELSE @]
      /\ late' = [late EXCEPT ![s] = @ \ {c}]
      /\ UNCHANGED <<alive, call, at, run, flag, answer, exports, handles>>
  BY <1>4 DEF RouteReply
<1> HIDE DEF h
<1>6. /\ Fresh(s, frames)
      /\ \A f : In(f, frames) <=> settled /\ f = Release(Ans(c))
  <2>1. CASE ~settled
    BY <2>1, NothingFresh, InFew
  <2>2. CASE settled
    <3>1. Ans(c) \in Objects /\ Release(Ans(c)) \in Frames
      BY ObjectsDiffer, FramesAre
    <3>2. ~UnderWay(s, Release(Ans(c)))
      BY <3>1, <1>2, <1>3, <2>2 DEF LinkInv, HasOne, Kinds, Bearers, Has, Answering
    <3>3. <<Release(Ans(c))>> \in Seq(Frames)
      BY <3>1
    <3> QED BY <2>2, <3>2, <3>3, InFew DEF Fresh
  <2> QED BY <2>1, <2>2
<1> HIDE DEF frames
<1>7. /\ WireFit'
      /\ \A x \in Sides : \A f : UnderWay(x, f)' <=>
           \/ UnderWay(x, f) /\ ~(x = Peer(s) /\ f = h)
           \/ x = s /\ In(f, frames)
  BY <1>1, <1>5, <1>6, ReadStep DEF h
<1>8. /\ MailFit'
      /\ \A p \in Calls : \A f : Mailed(p, f)' <=>
           Mailed(p, f) \/ (Registered(c) /\ p = c /\ f = Reply(c, st))
  <2>1. CASE ~Registered(c)
    BY <1>1, <2>1, <1>5, MailSame DEF MailKept, Sequential
  <2>2. CASE Registered(c)
    <3>1. ~Mailed(c, h)
      BY <1>2, <1>3 DEF LinkInv, Replied
    <3> QED BY <1>3, <2>2, <1>1, <1>2, <1>5, <3>1, MailGets DEF MailFit
  <2> QED BY <2>1, <2>2
<1>9. LateFit'
  BY <1>1, <1>5 DEF Fit, LateFit
<1>10. Delivers(c, st)
  BY <1>1, <1>2, <1>3, Peers, <1>5, <1>6, <1>7, <1>8
    DEF Delivers, LinkInv, Replied, Plain, Records
<1> QED BY <1>7, <1>8, <1>9, <1>10 DEF Fit, Step

LEMMA RouteCancelStep == ASSUME TypeOK, LinkInv, NEW s \in Sides, RouteCancel(s) PROVE Fit' /\ Step
<1> DEFINE h == Head(wire[Peer(s)])
<1>1. Arrived(s, "cancel") /\ Fit
  BY ArrivedIs DEF RouteCancel
<1>2. h \in Frames /\ h.kind = "cancel" /\ UnderWay(Peer(s), h)
  BY <1>1, ArrivedIs
<1>3. PICK c \in Calls : h = Cancel(c)
  BY <1>2, FrameKinds
<1>0. h.call = c
  BY <1>3, FramesDiffer
<1>4. /\ Reads(s, <<>>)
      /\ flag' = [flag EXCEPT ![c] = @ \/ Running(c)]
      /\ UNCHANGED <<alive, call, at, run, answer, mail, late, exports, handles>>
  BY <1>0 DEF RouteCancel
<1>5. MailFit' /\ MailKept /\ LateFit'
  BY <1>1, <1>4, MailSame, LateSame
<1>6. WireFit' /\ WireTaken(Peer(s), Cancel(c))
  BY <1>3, <1>1, <1>4, NothingFresh, ReadStep, InFew DEF WireTaken
<1> QED BY <1>2, <1>3, <1>4, <1>5, <1>6 DEF Fit, Step, Cancels

LEMMA RouteReleaseStep == ASSUME TypeOK, LinkInv, NEW s \in Sides, RouteRelease(s) PROVE Fit' /\ Step
<1> DEFINE h == Head(wire[Peer(s)])
<1>1. Arrived(s, "release") /\ Fit
  BY ArrivedIs DEF RouteRelease
<1>2. h \in Frames /\ h.kind = "release" /\ UnderWay(Peer(s), h)
  BY <1>1, ArrivedIs
<1>3. PICK o \in Objects : h = Release(o)
  BY <1>2, FrameKinds
<1>0. h.object = o
  BY <1>3, FramesDiffer
<1>4. /\ Reads(s, <<>>)
      /\ exports' = [exports EXCEPT ![s] = @ \ {o}]
      /\ UNCHANGED <<alive, call, at, run, flag, answer, mail, late, handles>>
  BY <1>0 DEF RouteRelease
<1>5. MailFit' /\ MailKept /\ LateFit'
  BY <1>1, <1>4, MailSame, LateSame
<1>6. WireFit' /\ WireTaken(Peer(s), Release(o))
  BY <1>3, <1>1, <1>4, NothingFresh, ReadStep, InFew DEF WireTaken
<1> QED BY <1>2, <1>3, <1>4, <1>5, <1>6 DEF Fit, Step, Releases

LEMMA EndStep ==
  ASSUME TypeOK, LinkInv, NEW s \in Sides, alive[s], End(s), WireFit',
         \A x \in Sides : \A f : UnderWay(x, f)' => UnderWay(x, f) \/ (x = s /\ f = Goodbye)
  PROVE  Fit' /\ Step
<1>1. Fit /\ Plain
  BY TypesAre, FitIs DEF LinkInv
<1> DEFINE told(p) == Registered(p) /\ call[p].side = s
<1>2. \A p \in Calls : mail'[p] = IF told(p) THEN Append(mail[p], Gone) ELSE mail[p]
  BY DEF End
<1>3. ASSUME NEW p \in Calls
      PROVE  /\ mail'[p] \in Seq(Frames \cup {Gone}) /\ Injective(mail'[p])
             /\ \A f : Mailed(p, f)' <=> Mailed(p, f) \/ (f = Gone /\ told(p))
  <2>1. mail[p] \in Seq(Frames \cup {Gone}) /\ Injective(mail[p])
    BY <1>1 DEF Fit, MailFit
  <2>2. CASE ~told(p)
    BY <1>2, <2>1, <2>2 DEF Mailed
  <2>3. CASE told(p)
    <3> DEFINE q == mail[p] \o <<Gone>>
    <3>1. <<Gone>> \in Seq(Frames \cup {Gone})
      OBVIOUS
    <3>2. q \in Seq(Frames \cup {Gone}) /\ \A f : In(f, q) <=> In(f, mail[p]) \/ In(f, <<Gone>>)
      BY <2>1, <3>1, InBoth
    <3>3. Injective(<<Gone>>) /\ \A f : In(f, <<Gone>>) => ~In(f, mail[p])
      BY <2>3, InFew DEF Mailed, LinkInv, GoneTold
    <3>4. Injective(q)
      BY <2>1, <3>1, <3>3, InjectiveBoth
    <3>5. mail'[p] = q
      <4>1. Append(mail[p], Gone) = q
        BY <2>1, AppendIsConcat
      <4> QED BY <1>2, <2>3, <4>1
    <3>6. \A f : In(f, q) <=> Mailed(p, f) \/ f = Gone
      BY <3>2, InFew DEF Mailed
    <3> HIDE DEF q
    <3> QED BY <2>3, <3>2, <3>4, <3>5, <3>6 DEF Mailed
  <2> QED BY <2>2, <2>3
<1>4. MailFit'
  <2> QED BY <1>3 DEF MailFit, End
<1>5. LateFit'
  BY <1>1 DEF End, Fit, LateFit
<1>6. Falls(s)
  BY <1>3, <1>1 DEF Falls, End, Plain
<1> QED BY <1>4, <1>5, <1>6 DEF Fit, Step

LEMMA EndsStep ==
  ASSUME TypeOK, LinkInv, NEW s \in Sides,
         RouteGoodbye(s) \/ CloseFromHere(s) \/ LinkFails(s) \/ PeerClosed(s)
  PROVE  Fit' /\ Step
<1>1. Fit /\ Plain /\ Farewell
  BY TypesAre, FitIs DEF LinkInv
<1>2. CASE RouteGoodbye(s)
  <2> QED BY <1>2, NothingFresh, ReadStep, InFew, EndStep DEF RouteGoodbye, Arrived
<1>3. CASE CloseFromHere(s)
  <2>1. alive[s] /\ End(s) /\ wire' = Sent(s, <<Goodbye>>) /\ written' = written
    BY <1>3 DEF CloseFromHere
  <2> QED BY <2>1, <1>1, FramesAre, SentOne, EndStep DEF WireSent, Farewell
<1>4. CASE LinkFails(s)
  <2>1. alive[s] /\ End(s) /\ written' = written
    BY <1>4 DEF LinkFails
  <2>2. PICK k \in written[s] .. Len(wire[s]) : wire' = [wire EXCEPT ![s] = SubSeq(@, 1, k)]
    BY <1>4 DEF LinkFails
  <2> DEFINE r == SubSeq(wire[s], 1, k)
  <2>3. wire[s] \in Seq(Frames) /\ Injective(wire[s]) /\ written[s] \in Nat
    BY <1>1 DEF Fit, WireFit
  <2>4. k \in 0 .. Len(wire[s]) /\ written[s] <= k
    BY <2>3
  <2>5. r \in Seq(Frames) /\ Len(r) = k /\ Injective(r) /\ \A f : In(f, r) => In(f, wire[s])
    BY <2>3, <2>4, InFirst
  <2>6. wire'[s] = r /\ (\A x \in Sides : x # s => wire'[x] = wire[x])
    BY <1>1, <2>2 DEF Fit, WireFit
  <2> HIDE DEF r
  <2>7. WireFit'
    BY <1>1, <2>1, <2>4, <2>5, <2>6, <2>2 DEF Fit, WireFit
  <2>8. \A x \in Sides : \A f : UnderWay(x, f)' => UnderWay(x, f)
    BY <2>5, <2>6 DEF UnderWay
  <2> QED BY <2>1, <2>7, <2>8, EndStep
<1>5. CASE PeerClosed(s)
  <2> QED BY <1>5, <1>1, WireSame, EndStep DEF WireKept, PeerClosed
<1> QED BY <1>2, <1>3, <1>4, <1>5

-----------------------------------------------------------------------------
(* The theorems.                                                           *)

\* Nothing happens.
LEMMA StutterStep == ASSUME TypeOK, LinkInv, UNCHANGED vars PROVE Fit' /\ Step
<1>1. Fit
  BY TypesAre, FitIs DEF LinkInv
<1>2. WireFit' /\ WireKept /\ MailFit' /\ MailKept /\ LateFit'
  BY <1>1, WireSame, MailSame, LateSame DEF vars
<1> QED BY <1>2 DEF Fit, Step, Idles, vars

LEMMA NextIsStep == ASSUME TypeOK, LinkInv, [Next]_vars PROVE Fit' /\ Step
<1>1. CASE Program
  BY <1>1, MakeStep, AskStep, DropStep DEF Program
<1>2. ASSUME NEW c \in Calls, CallerSteps(c) \/ RunnerSteps(c) \/ TimeOut(c) PROVE Fit' /\ Step
  BY <1>2, SendStep, UnsentStep, TakeStep, WaitStep, RetractStep, CancelStep, PoolStep, FinishStep,
     AnswerStep, TimeOutStep DEF CallerSteps, RunnerSteps
<1>3. ASSUME NEW s \in Sides, ReaderSteps(s) \/ CloseFromHere(s) \/ LinkFails(s) PROVE Fit' /\ Step
  BY <1>3, RouteCallStep, RouteNestedStep, RouteReplyStep, RouteCancelStep, RouteReleaseStep, EndsStep
     DEF ReaderSteps
<1>4. CASE UNCHANGED vars
  BY <1>4, StutterStep
<1> QED BY <1>1, <1>2, <1>3, <1>4 DEF Next

LEMMA LinkInvStep == ASSUME TypeOK, LinkInv, [Next]_vars PROVE TypeOK' /\ LinkInv'
<1>1. Fit' /\ Step
  BY NextIsStep
<1>2. /\ Plain /\ Made /\ Requested /\ Replied /\ Nested /\ Cancelled /\ HasOne /\ HasReason
      /\ HasHeld /\ LentHeld /\ TargetsHeld /\ GoneTold /\ LetGoExcused /\ Farewell
  BY DEF LinkInv
<1>3. Sequential' /\ Distinct'
  <2>1. (Fit <=> Sequential /\ Distinct)'
    BY FitIs, PTL
  <2> QED BY <1>1, <2>1
<1>4. Plain' /\ Made' /\ Requested' /\ Replied' /\ Nested' /\ Cancelled'
  BY <1>1, <1>2, PlainStep, MadeStep, RequestedStep, RepliedStep, NestedStep, CancelledStep
<1>5. HasOne' /\ HasReason' /\ HasHeld' /\ LentHeld' /\ TargetsHeld'
  BY <1>1, <1>2, ObjectsStep, HeldStep, LentHeldStep, TargetsHeldStep
<1>6. GoneTold' /\ LetGoExcused' /\ Farewell'
  BY <1>1, <1>2, GoneToldStep, LetGoExcusedStep, FarewellStep
<1>7. TypeOK'
  <2>1. (TypeOK <=> Plain /\ Sequential)'
    BY TypesAre, PTL
  <2> QED BY <1>3, <1>4, <2>1
<1> QED BY <1>3, <1>4, <1>5, <1>6, <1>7 DEF LinkInv

LEMMA LinkInvInit == ASSUME Init PROVE TypeOK /\ LinkInv
<1>1. /\ \A s \in Sides : \A f : ~UnderWay(s, f)
      /\ \A p \in Calls : \A f : ~Mailed(p, f)
  BY InFew DEF Init, UnderWay, Mailed
<1>2. Unmade \in Records
  BY DEF Unmade, Records, Sides, PassKinds
<1>3. Plain
  BY <1>1, <1>2 DEF Init, Plain, AnswerKinds
<1>4. Sequential /\ Distinct
  BY InFew DEF Init, Sequential, Distinct
<1>5. Made /\ Requested /\ Replied /\ Nested /\ Cancelled
  <2>1. Made
    BY DEF Init, Made, Unmade
  <2>2. Requested /\ Replied
    BY <1>1 DEF Init, Requested, Replied
  <2>3. Nested /\ Cancelled
    BY <1>1 DEF Init, Nested, Cancelled, Active
  <2> QED BY <2>1, <2>2, <2>3
<1>6. HasOne /\ HasReason /\ HasHeld
  BY <1>1 DEF HasOne, HasReason, HasHeld, Init, Has, Journeys, Answering
<1>7. LentHeld /\ TargetsHeld
  BY DEF Init, LentHeld, TargetsHeld, Active
<1>8. GoneTold /\ LetGoExcused /\ Farewell
  BY <1>1 DEF Init, GoneTold, LetGoExcused, Farewell
<1> QED BY <1>3, <1>4, <1>5, <1>6, <1>7, <1>8, TypesAre DEF LinkInv

\* The types and the invariant of both ends of a link hold of every run:
\* requests, answers, cancels and releases are each in one place, and one thing
\* at most stands for an object with the side that uses it.
THEOREM LinkInvariance == Spec => [](TypeOK /\ LinkInv)
<1>1. Init => TypeOK /\ LinkInv
  BY LinkInvInit
<1>2. TypeOK /\ LinkInv /\ [Next]_vars => (TypeOK /\ LinkInv)'
  BY LinkInvStep
<1> QED BY <1>1, <1>2, PTL DEF Spec

\* Inner::end leaves nobody waiting and nothing held, and no RELEASE overtakes a
\* use: whatever times out, fails, is refused or is cancelled, for any number of
\* calls, nested to any depth (EndLeavesNothing).
THEOREM EndLeaves == Spec => []EndLeavesNothing
<1>1. ASSUME TypeOK, LinkInv PROVE EndLeavesNothing
  <2>1. EndIsClean
    <3> SUFFICES ASSUME NEW s \in Sides, ~alive[s]
                 PROVE  /\ exports[s] = {}
                        /\ \A c \in Calls : call[c].side = s /\ at[c] = "waiting" => mail[c] # <<>>
      BY DEF EndIsClean
    <3> QED BY <1>1, InFew DEF Mailed, LinkInv, GoneTold
  <2>2. NoUseAfterRelease
    BY <1>1 DEF NoUseAfterRelease, LinkInv, LetGoExcused, Excused, Mailed
  <2> QED BY <1>1, <2>1, <2>2 DEF EndLeavesNothing
<1> QED BY <1>1, LinkInvariance, PTL

\* While both sides are up every handle names an object still held for it, with
\* timeouts, refusals and lost frames too (HandlesAreHeld).
THEOREM HandlesHeld == Spec => []HandlesAreHeld
<1>1. ASSUME TypeOK, LinkInv PROVE HandlesAreHeld
  <2> SUFFICES ASSUME Up, NEW s \in Sides, NEW o \in handles[s] PROVE o \in exports[Peer(s)]
    BY DEF HandlesAreHeld
  <2> QED BY <1>1 DEF LinkInv, HasHeld, Kinds, Bearers, Plain, Has, User
<1> QED BY <1>1, LinkInvariance, PTL

-----------------------------------------------------------------------------
(* Without timeouts, every call that is waited for is answered.            *)

\* Nobody gives a call up.
Untimed == \A c \in Calls : at[c] # "timedout" /\ \A s \in Sides : ~UnderWay(s, Cancel(c))

Unflagged == Up => \A c \in Calls : ~flag[c]

\* So a call nobody waits for is not on its way and does not run, unless its
\* side has ended.
Waited ==
  \A c \in Calls : alive[call[c].side] /\ at[c] # "waiting" =>
    /\ run[c] \in {"none", "over"}
    /\ \A s \in Sides : ~UnderWay(s, CallFrame(c))
    /\ \A p \in Calls : ~Mailed(p, CallFrame(c))

Coming ==
  Up => \A c \in Calls : at[c] = "waiting" =>
    \/ Journeys(c)
    \/ run[c] \in {"running", "replying"}
    \/ \E st \in Statuses : Mailed(c, Reply(c, st)) \/ \E s \in Sides : UnderWay(s, Reply(c, st))

\* The calls of side t, made during none, that its peer has to take or has taken
\* a place for, and those t counts.
Room(t) ==
  InFlight(t) \cup
  {c \in Calls : /\ call[c].side = t /\ call[c].parent = 0
                 /\ ~Asks(c)
                 /\ UnderWay(t, CallFrame(c)) \/ run[c] \in {"pool", "running"}}
Roomy == \A t \in Sides : Cardinality(Room(t)) <= Limit

LEMMA UntimedStep == ASSUME ~Timeouts, Plain, Untimed, Step PROVE Untimed'
<1> USE FramesUnlike DEF Plain
<1>1. ASSUME NEW c \in Calls, NEW m \in Records, Makes(c, m) PROVE Untimed'
  BY <1>1 DEF Untimed, Makes, WireKept, MailKept
<1>2. ASSUME NEW c \in Calls, Sends(c) PROVE Untimed'
  BY <1>2 DEF Untimed, Sends, WireSent, MailKept
<1>3. ASSUME NEW c \in Calls, Drops(c) PROVE Untimed'
  BY <1>3 DEF Untimed, Drops, Unsent, WireKept, MailKept
<1>4. ASSUME NEW c \in Calls, Takes(c) PROVE Untimed'
  BY <1>4 DEF Untimed, Takes, WireKept, MailDropped
<1>5. ASSUME NEW c \in Calls, TimesOut(c) PROVE Untimed'
  BY <1>5 DEF TimesOut, TimeOut
<1>6. ASSUME NEW c \in Calls, Forgets(c) PROVE Untimed'
  BY <1>6 DEF Forgets, Untimed
<1>7. ASSUME NEW s \in Sides, NEW o \in Objects, LetsGo(s, o) PROVE Untimed'
  BY <1>7 DEF Untimed, LetsGo, WireSent, MailKept
<1>8. ASSUME NEW s \in Sides, NEW c \in Calls, NEW st \in Refusals, Refuses(s, c, st)
      PROVE  Untimed'
  BY <1>8 DEF Untimed, Refuses, MailTaken
<1>9. ASSUME NEW c \in Calls, Begins(c) PROVE Untimed'
  BY <1>9 DEF Untimed, Begins, MailTaken, WireKept
<1>10. ASSUME NEW c \in Calls, Replies(c) PROVE Untimed'
  BY <1>10 DEF Untimed, Replies, MailKept, WireSent
<1>11. ASSUME NEW c \in Calls, Queues(c) PROVE Untimed'
  BY <1>11 DEF Untimed, Queues, MailKept, WireTaken
<1>12. ASSUME NEW c \in Calls, NEW what \in AnswerKinds, Finishes(c, what) PROVE Untimed'
  BY <1>12 DEF Untimed, Finishes, Finish, MailKept, WireKept
<1>13. ASSUME NEW c \in Calls, NEW st \in Statuses, Delivers(c, st) PROVE Untimed'
  BY <1>13 DEF Untimed, Delivers
<1>14. ASSUME NEW s \in Sides, NEW c \in Calls, Cancels(s, c) PROVE Untimed'
  BY <1>14 DEF Untimed, Cancels, MailKept, WireTaken
<1>15. ASSUME NEW s \in Sides, NEW o \in Objects, Releases(s, o) PROVE Untimed'
  BY <1>15 DEF Untimed, Releases, MailKept, WireTaken
<1>16. ASSUME NEW s \in Sides, Falls(s) PROVE Untimed'
  BY <1>16 DEF Untimed, Falls
<1>17. CASE Idles
  BY <1>17 DEF Untimed, Idles, WireKept, MailKept
<1> QED BY <1>1, <1>2, <1>3, <1>4, <1>5, <1>6, <1>7, <1>8, <1>9, <1>10, <1>11, <1>12, <1>13,
     <1>14, <1>15, <1>16, <1>17 DEF Step

LEMMA UnflaggedStep == ASSUME ~Timeouts, Plain, Untimed, Unflagged, Step PROVE Unflagged'
<1> USE DEF Plain, Up, Sides
<1>1. ASSUME NEW c \in Calls, NEW m \in Records, Makes(c, m) PROVE Unflagged'
  BY <1>1 DEF Unflagged, Makes, WireKept, MailKept
<1>2. ASSUME NEW c \in Calls, Sends(c) PROVE Unflagged'
  BY <1>2 DEF Unflagged, Sends, WireSent, MailKept
<1>3. ASSUME NEW c \in Calls, Drops(c) PROVE Unflagged'
  BY <1>3 DEF Unflagged, Drops, Unsent, WireKept, MailKept
<1>4. ASSUME NEW c \in Calls, Takes(c) PROVE Unflagged'
  BY <1>4 DEF Unflagged, Takes, WireKept, MailDropped
<1>5. ASSUME NEW c \in Calls, TimesOut(c) PROVE Unflagged'
  BY <1>5 DEF TimesOut, TimeOut
<1>6. ASSUME NEW c \in Calls, Forgets(c) PROVE Unflagged'
  BY <1>6 DEF Forgets, Untimed
<1>7. ASSUME NEW s \in Sides, NEW o \in Objects, LetsGo(s, o) PROVE Unflagged'
  BY <1>7 DEF Unflagged, LetsGo, WireSent, MailKept
<1>8. ASSUME NEW s \in Sides, NEW c \in Calls, NEW st \in Refusals, Refuses(s, c, st)
      PROVE  Unflagged'
  BY <1>8 DEF Unflagged, Refuses, MailTaken
<1>9. ASSUME NEW c \in Calls, Begins(c) PROVE Unflagged'
  BY <1>9 DEF Unflagged, Begins, MailTaken, WireKept
<1>10. ASSUME NEW c \in Calls, Replies(c) PROVE Unflagged'
  BY <1>10 DEF Unflagged, Replies, MailKept, WireSent
<1>11. ASSUME NEW c \in Calls, Queues(c) PROVE Unflagged'
  BY <1>11 DEF Unflagged, Queues, MailKept, WireTaken
<1>12. ASSUME NEW c \in Calls, NEW what \in AnswerKinds, Finishes(c, what) PROVE Unflagged'
  BY <1>12 DEF Unflagged, Finishes, Finish, MailKept, WireKept
<1>13. ASSUME NEW c \in Calls, NEW st \in Statuses, Delivers(c, st) PROVE Unflagged'
  BY <1>13 DEF Unflagged, Delivers
<1>14. ASSUME NEW s \in Sides, NEW c \in Calls, Cancels(s, c) PROVE Unflagged'
  BY <1>14 DEF Cancels, Untimed, Sides, Peer
<1>15. ASSUME NEW s \in Sides, NEW o \in Objects, Releases(s, o) PROVE Unflagged'
  BY <1>15 DEF Unflagged, Releases, MailKept, WireTaken
<1>16. ASSUME NEW s \in Sides, Falls(s) PROVE Unflagged'
  BY <1>16 DEF Unflagged, Falls
<1>17. CASE Idles
  BY <1>17 DEF Unflagged, Idles, WireKept, MailKept
<1> QED BY <1>1, <1>2, <1>3, <1>4, <1>5, <1>6, <1>7, <1>8, <1>9, <1>10, <1>11, <1>12, <1>13,
     <1>14, <1>15, <1>16, <1>17 DEF Step

LEMMA WaitedStep ==
  ASSUME ~Timeouts, Plain, Made, Requested, Replied, GoneTold, Untimed, Waited, Step
  PROVE  Waited'
<1> USE FramesUnlike, Peers DEF Plain, Records
<1>1. ASSUME NEW c \in Calls, NEW m \in Records, Makes(c, m) PROVE Waited'
  <2> QED BY <1>1 DEF Waited, Requested, WireKept, MailKept, Makes
<1>2. ASSUME NEW c \in Calls, Sends(c) PROVE Waited'
  BY <1>2 DEF Waited, Sends, WireSent, MailKept
<1>3. ASSUME NEW c \in Calls, Drops(c) PROVE Waited'
  BY <1>3 DEF Waited, Requested, WireKept, MailKept, Drops, Unsent
<1>4. ASSUME NEW c \in Calls, Takes(c) PROVE Waited'
  <2> QED BY <1>4 DEF Waited, Requested, WireKept, MailDropped, Takes, GoneTold, Replied
<1>5. ASSUME NEW c \in Calls, TimesOut(c) PROVE Waited'
  BY <1>5 DEF TimesOut, TimeOut
<1>6. ASSUME NEW c \in Calls, Forgets(c) PROVE Waited'
  BY <1>6 DEF Forgets, Untimed
<1>7. ASSUME NEW s \in Sides, NEW o \in Objects, LetsGo(s, o) PROVE Waited'
  BY <1>7 DEF Waited, LetsGo, WireSent, MailKept
<1>8. ASSUME NEW s \in Sides, NEW c \in Calls, NEW st \in Refusals, Refuses(s, c, st) PROVE Waited'
  <2> QED BY <1>8 DEF Waited, Refuses, MailTaken
<1>9. ASSUME NEW c \in Calls, Begins(c) PROVE Waited'
  <2>1. /\ call' = call /\ at' = at /\ alive' = alive
        /\ \A d \in Calls : d # c => run'[d] = run[d]
        /\ run[c] = "pool" \/ (call[c].parent # 0 /\ Mailed(call[c].parent, CallFrame(c)))
    BY <1>9 DEF Begins
  <2>2. \A d \in Calls : /\ \A x \in Sides : UnderWay(x, CallFrame(d))' => UnderWay(x, CallFrame(d))
                         /\ \A p \in Calls : Mailed(p, CallFrame(d))' => Mailed(p, CallFrame(d))
    BY <1>9 DEF Begins, WireKept, MailTaken
  <2>3. at[c] # "waiting" => ~alive[call[c].side]
    BY <2>1 DEF Waited
  <2> QED BY <2>1, <2>2, <2>3 DEF Waited
<1>10. ASSUME NEW c \in Calls, Replies(c) PROVE Waited'
  <2> QED BY <1>10 DEF Waited, Replies, WireSent, MailKept
<1>11. ASSUME NEW c \in Calls, Queues(c) PROVE Waited'
  <2>1. /\ call' = call /\ at' = at /\ alive' = alive
        /\ \A d \in Calls : d # c => run'[d] = run[d]
        /\ UnderWay(call[c].side, CallFrame(c))
    BY <1>11 DEF Queues
  <2>2. \A d \in Calls : /\ \A x \in Sides : UnderWay(x, CallFrame(d))' => UnderWay(x, CallFrame(d))
                         /\ \A p \in Calls : Mailed(p, CallFrame(d))' =>
                                 Mailed(p, CallFrame(d)) \/ d = c
    BY <1>11 DEF Queues, WireTaken, MailKept
  <2>3. at[c] # "waiting" => ~alive[call[c].side]
    BY <2>1 DEF Waited
  <2> QED BY <2>1, <2>2, <2>3 DEF Waited
<1>12. ASSUME NEW c \in Calls, NEW what \in AnswerKinds, Finishes(c, what) PROVE Waited'
  <2> QED BY <1>12 DEF Waited, WireKept, MailKept, Finishes, Finish
<1>13. ASSUME NEW c \in Calls, NEW st \in Statuses, Delivers(c, st) PROVE Waited'
  BY <1>13 DEF Waited, Delivers
<1>14. ASSUME NEW s \in Sides, NEW c \in Calls, Cancels(s, c) PROVE Waited'
  BY <1>14 DEF Waited, Cancels, MailKept, WireTaken
<1>15. ASSUME NEW s \in Sides, NEW o \in Objects, Releases(s, o) PROVE Waited'
  BY <1>15 DEF Waited, Releases, MailKept, WireTaken
<1>16. ASSUME NEW s \in Sides, Falls(s) PROVE Waited'
  BY <1>16 DEF Waited, Falls
<1>17. CASE Idles
  BY <1>17 DEF Waited, Idles, WireKept, MailKept
<1> QED BY <1>1, <1>2, <1>3, <1>4, <1>5, <1>6, <1>7, <1>8, <1>9, <1>10, <1>11, <1>12, <1>13,
     <1>14, <1>15, <1>16, <1>17 DEF Step

Comes(c) ==
  \/ Journeys(c)
  \/ run[c] \in {"running", "replying"}
  \/ \E st \in Statuses : Mailed(c, Reply(c, st)) \/ \E s \in Sides : UnderWay(s, Reply(c, st))

\* What leaves the requests, the answers and the runs where they are.
LEMMA ComingStays ==
  ASSUME Coming, Up' => Up, run' = run, \A d \in Calls : at'[d] = "waiting" => at[d] = "waiting",
         \A d \in Calls :
           /\ \A x \in Sides : UnderWay(x, CallFrame(d)) => UnderWay(x, CallFrame(d))'
           /\ \A x \in Sides : \A st \in Statuses : UnderWay(x, Reply(d, st)) =>
                   UnderWay(x, Reply(d, st))'
           /\ \A p \in Calls : Mailed(p, CallFrame(d)) => Mailed(p, CallFrame(d))'
           /\ \A st \in Statuses : Mailed(d, Reply(d, st)) => Mailed(d, Reply(d, st))'
  PROVE  Coming'
<1> SUFFICES ASSUME Up', NEW d \in Calls, at'[d] = "waiting" PROVE Comes(d)'
  BY DEF Coming, Comes
<1>1. Comes(d) /\ at[d] = "waiting"
  BY DEF Coming, Comes
<1> QED BY <1>1 DEF Comes, Journeys

\* One call at a time: c comes, and every other came and was left alone.
LEMMA ComingMoves ==
  ASSUME Coming, Up' => Up, NEW c \in Calls, Up' /\ at'[c] = "waiting" => Comes(c)',
         \A d \in Calls : d # c => run'[d] = run[d] /\ (at'[d] = "waiting" => at[d] = "waiting"),
         Up' => \A d \in Calls : d # c /\ at[d] = "waiting" =>
           /\ \A x \in Sides : UnderWay(x, CallFrame(d)) => UnderWay(x, CallFrame(d))'
           /\ \A x \in Sides : \A st \in Statuses : UnderWay(x, Reply(d, st)) =>
                   UnderWay(x, Reply(d, st))'
           /\ \A p \in Calls : Mailed(p, CallFrame(d)) => Mailed(p, CallFrame(d))'
           /\ \A st \in Statuses : Mailed(d, Reply(d, st)) => Mailed(d, Reply(d, st))'
  PROVE  Coming'
<1> SUFFICES ASSUME Up', NEW d \in Calls, at'[d] = "waiting" PROVE Comes(d)'
  BY DEF Coming, Comes
<1>1. CASE d = c
  BY <1>1
<1>2. CASE d # c
  BY <1>2 DEF Comes, Journeys, Coming
<1> QED BY <1>1, <1>2

LEMMA ComingStep == ASSUME ~Timeouts, Plain, Made, Requested, Replied, Nested, GoneTold, Untimed,
         Unflagged, Coming, Step PROVE Coming'
<1> USE FramesUnlike, Peers DEF Plain
<1>1. ASSUME NEW c \in Calls, NEW m \in Records, Makes(c, m) PROVE Coming'
  <2>1. Up' => Up
    BY <1>1, UpBefore DEF Step
  <2> QED BY <1>1, <2>1, ComingStays DEF Makes, WireKept, MailKept
<1>2. ASSUME NEW c \in Calls, Sends(c) PROVE Coming'
  <2>1. Up' => Up
    BY <1>2, UpBefore DEF Step
  <2>2. /\ run' = run /\ WireSent(call[c].side, CallFrame(c)) /\ MailKept /\ alive[call[c].side]
        /\ \A d \in Calls : d # c => at'[d] = at[d]
    BY <1>2 DEF Sends
  <2>3. Comes(c)'
    <3> QED BY <2>2 DEF Comes, Journeys, WireSent, Records
  <2> QED BY <2>1, <2>2, <2>3, ComingMoves DEF WireSent, MailKept
<1>3. ASSUME NEW c \in Calls, Drops(c) PROVE Coming'
  <2>1. Up' => Up
    BY <1>3, UpBefore DEF Step
  <2> QED BY <1>3, <2>1, ComingStays DEF Drops, Unsent, WireKept, MailKept
<1>4. ASSUME NEW c \in Calls, Takes(c) PROVE Coming'
  <2>1. Up' => Up
    BY <1>4, UpBefore DEF Step
  <2>2. /\ run' = run /\ WireKept /\ MailDropped(c) /\ at'[c] = "done"
        /\ \A d \in Calls : d # c => at'[d] = at[d]
    BY <1>4 DEF Takes
  <2>3. ASSUME Up', NEW d \in Calls, at[d] = "waiting" PROVE ~Mailed(c, CallFrame(d))
    <3>1. Mailed(c, CallFrame(d)) => c = call[d].parent /\ c # 0
      BY LinkAssumption, FS_CardinalityType DEF Requested
    <3> QED
      BY <2>3, <1>4, <2>1, <3>1 DEF Nested, Active, Takes, GoneTold, Replied, Up, Sides, Records
  <2> QED BY <2>1, <2>2, <2>3, ComingMoves DEF WireKept, MailDropped
<1>5. ASSUME NEW c \in Calls, TimesOut(c) PROVE Coming'
  BY <1>5 DEF TimesOut, TimeOut
<1>6. ASSUME NEW c \in Calls, Forgets(c) PROVE Coming'
  BY <1>6 DEF Forgets, Untimed
<1>7. ASSUME NEW s \in Sides, NEW o \in Objects, LetsGo(s, o) PROVE Coming'
  <2>1. Up' => Up
    BY <1>7, UpBefore DEF Step
  <2> QED BY <1>7, <2>1, ComingStays DEF LetsGo, WireSent, MailKept
<1>8. ASSUME NEW s \in Sides, NEW c \in Calls, NEW st \in Refusals, Refuses(s, c, st) PROVE Coming'
  <2>1. Up' => Up
    BY <1>8, UpBefore DEF Step
  <2>2. /\ run'[c] = "over" /\ at' = at /\ s = Peer(call[c].side)
        /\ \A d \in Calls : d # c => run'[d] = run[d]
    BY <1>8 DEF Refuses
  <2>3. /\ \A d \in Calls, x \in Sides : d # c /\ UnderWay(x, CallFrame(d)) =>
                UnderWay(x, CallFrame(d))'
        /\ \A d \in Calls, p \in Calls : d # c /\ Mailed(p, CallFrame(d)) => Mailed(p, CallFrame(d))'
        /\ \A d \in Calls, p \in Calls : \A f \in Statuses : Mailed(p, Reply(d, f)) =>
                Mailed(p, Reply(d, f))'
        /\ \A d \in Calls, x \in Sides : \A f \in Statuses : UnderWay(x, Reply(d, f)) =>
                UnderWay(x, Reply(d, f))'
    BY <1>8 DEF Refuses, MailTaken
  <2>4. Up' => alive[s]
    BY <2>1 DEF Up, Sides
  <2>5. Up' => Comes(c)'
    BY <1>8, <2>4 DEF Comes, Statuses, Refuses
  <2> QED BY <2>1, <2>2, <2>3, <2>5, ComingMoves
<1>9. ASSUME NEW c \in Calls, Begins(c) PROVE Coming'
  <2>1. Up' => Up
    BY <1>9, UpBefore DEF Step
  <2>2. /\ run'[c] = "running" /\ at' = at /\ WireKept /\ MailTaken(c)
        /\ \A d \in Calls : d # c => run'[d] = run[d]
    BY <1>9 DEF Begins
  <2>3. Comes(c)'
    BY <2>2 DEF Comes
  <2> QED BY <2>1, <2>2, <2>3, ComingMoves DEF WireKept, MailTaken
<1>10. ASSUME NEW c \in Calls, Replies(c) PROVE Coming'
  <2>1. Up' => Up
    BY <1>10, UpBefore DEF Step
  <2>2. /\ at' = at /\ WireSent(Peer(call[c].side), Reply(c, answer[c])) /\ MailKept
        /\ \A d \in Calls : d # c => run'[d] = run[d]
    BY <1>10 DEF Replies
  <2>3. Up' => Comes(c)'
    BY <2>1, <2>2 DEF Comes, WireSent, Up, Sides, Records, Statuses
  <2> QED BY <2>1, <2>2, <2>3, ComingMoves DEF WireSent, MailKept
<1>11. ASSUME NEW c \in Calls, Queues(c) PROVE Coming'
  <2>1. Up' => Up
    BY <1>11, UpBefore DEF Step
  <2>2. /\ at' = at /\ \A d \in Calls : d # c => run'[d] = run[d]
    BY <1>11 DEF Queues
  <2>3. /\ \A d \in Calls, x \in Sides : d # c /\ UnderWay(x, CallFrame(d)) =>
                UnderWay(x, CallFrame(d))'
        /\ \A d \in Calls, x \in Sides : \A f \in Statuses : UnderWay(x, Reply(d, f)) =>
                UnderWay(x, Reply(d, f))'
    BY <1>11 DEF Queues, WireTaken
  <2>4. \A p \in Calls : \A f : Mailed(p, f) => Mailed(p, f)'
    BY <1>11 DEF Queues, MailKept
  <2>5. Comes(c)'
    BY <1>11 DEF Queues, Comes, Journeys, Records
  <2> QED BY <2>1, <2>2, <2>3, <2>4, <2>5, ComingMoves
<1>12. ASSUME NEW c \in Calls, NEW what \in AnswerKinds, Finishes(c, what) PROVE Coming'
  <2>1. Up' => Up
    BY <1>12, UpBefore DEF Step
  <2>2. /\ at' = at /\ WireKept /\ MailKept /\ \A d \in Calls : d # c => run'[d] = run[d]
    BY <1>12 DEF Finishes, Finish
  <2>3. Up' => Comes(c)'
    BY <1>12, <2>1 DEF Comes, Finishes, Finish, Unflagged
  <2> QED BY <2>1, <2>2, <2>3, ComingMoves DEF WireKept, MailKept
<1>13. ASSUME NEW c \in Calls, NEW st \in Statuses, Delivers(c, st) PROVE Coming'
  <2>1. Up' => Up
    BY <1>13, UpBefore DEF Step
  <2>2. at' = at /\ run' = run
    BY <1>13 DEF Delivers
  <2>3. /\ \A d \in Calls, x \in Sides : UnderWay(x, CallFrame(d)) => UnderWay(x, CallFrame(d))'
        /\ \A d \in Calls, x \in Sides : \A f \in Statuses :
             d # c /\ UnderWay(x, Reply(d, f)) => UnderWay(x, Reply(d, f))'
        /\ \A p \in Calls : \A f : Mailed(p, f) => Mailed(p, f)'
    BY <1>13 DEF Delivers
  <2>4. at'[c] = "waiting" => Comes(c)'
    BY <2>2, <1>13 DEF Comes, Delivers, Registered
  <2> QED BY <2>1, <2>2, <2>3, <2>4, ComingMoves
<1>14. ASSUME NEW s \in Sides, NEW c \in Calls, Cancels(s, c) PROVE Coming'
  <2>1. Up' => Up
    BY <1>14, UpBefore DEF Step
  <2> QED BY <1>14, <2>1, ComingStays DEF Cancels, WireTaken, MailKept
<1>15. ASSUME NEW s \in Sides, NEW o \in Objects, Releases(s, o) PROVE Coming'
  <2>1. Up' => Up
    BY <1>15, UpBefore DEF Step
  <2> QED BY <1>15, <2>1, ComingStays DEF Releases, WireTaken, MailKept
<1>16. ASSUME NEW s \in Sides, Falls(s) PROVE Coming'
  BY <1>16 DEF Falls, Coming, Up, Sides
<1>17. CASE Idles
  BY <1>17 DEF Coming, Journeys, Idles, Up, WireKept, MailKept
<1> QED BY <1>1, <1>2, <1>3, <1>4, <1>5, <1>6, <1>7, <1>8, <1>9, <1>10, <1>11, <1>12, <1>13,
     <1>14, <1>15, <1>16, <1>17 DEF Step

LEMMA RoomFinite == ASSUME NEW t PROVE IsFiniteSet(Room(t)) /\ Cardinality(Room(t)) \in Nat
<1>1. IsFiniteSet(Calls) /\ Room(t) \subseteq Calls
  BY LinkAssumption DEF Room, InFlight
<1> QED BY <1>1, FS_Subset, FS_CardinalityType

\* Whatever takes no new call keeps room.
LEMMA RoomyStays ==
  ASSUME Roomy, \A t \in Sides : Room(t)' \subseteq Room(t) PROVE Roomy'
<1> SUFFICES ASSUME NEW t \in Sides PROVE Cardinality(Room(t)') <= Limit
  BY DEF Roomy
<1>1. IsFiniteSet(Room(t)) /\ Cardinality(Room(t)) \in Nat
  BY RoomFinite
<1> DEFINE R == Room(t)'
<1>2. IsFiniteSet(R) /\ Cardinality(R) <= Cardinality(Room(t)) /\ Cardinality(R) \in Nat
  <2>1. R \subseteq Room(t)
    OBVIOUS
  <2> HIDE DEF R
  <2> QED BY <1>1, <2>1, FS_Subset, FS_CardinalityType
<1> QED BY <1>1, <1>2, LinkAssumption DEF Roomy

\* A side that has not ended counts every call the peer still has room for.
LEMMA RoomCounted ==
  ASSUME Plain, Waited, NEW t \in Sides, alive[t] PROVE Room(t) = InFlight(t)
BY DEF Room, InFlight, Waited, Active, Plain, Records

LEMMA RoomyStep == ASSUME ~Timeouts, Plain, Made, Requested, Untimed, Waited, Roomy, Step PROVE Roomy'
<1> USE FramesUnlike, Peers DEF Plain
<1>0. ASSUME call' = call, \A d \in Calls : Active(d)' => Active(d),
             \A d \in Calls : call[d].parent = 0 =>
               /\ UnderWay(call[d].side, CallFrame(d))' => UnderWay(call[d].side, CallFrame(d)) \/ Active(d)
               /\ run'[d] \in {"pool", "running"} =>
                    \/ run[d] \in {"pool", "running"}
                    \/ UnderWay(call[d].side, CallFrame(d))
      PROVE  Roomy'
  <2>1. ASSUME NEW t \in Sides PROVE Room(t)' \subseteq Room(t)
    BY <1>0 DEF Room, InFlight, Asks
  <2> QED BY <2>1, RoomyStays
<1>1. ASSUME NEW c \in Calls, NEW m \in Records, Makes(c, m) PROVE Roomy'
  <2>1. /\ call'[c] = m /\ (\A d \in Calls : d # c => call'[d] = call[d]) /\ run' = run
        /\ (\A d \in Calls : d # c => at'[d] = at[d]) /\ WireKept
        /\ m.parent = 0 /\ m.target # Catalog => Cardinality(InFlight(m.side)) < Limit
        /\ alive[m.side] /\ m.side \in Sides /\ at[c] = "unmade"
    BY <1>1 DEF Makes, Records
  <2>2. run[c] = "none" /\ \A x \in Sides : ~UnderWay(x, CallFrame(c))
    BY <2>1 DEF Requested
  <2>3. ASSUME NEW t \in Sides, NEW d \in Calls, d # c PROVE d \in Room(t)' <=> d \in Room(t)
    BY <2>1, <2>3 DEF Room, InFlight, Asks, Active, WireKept
  <2>4. ASSUME NEW t \in Sides PROVE c \in Room(t)' => t = m.side /\ m.parent = 0 /\ m.target # Catalog
    BY <2>1 DEF Room, InFlight, Asks
  <2>5. ASSUME NEW t \in Sides PROVE Cardinality(Room(t)') <= Limit
    <3> DEFINE R == Room(t)'
    <3>1. IsFiniteSet(Room(t)) /\ Cardinality(Room(t)) \in Nat /\ Cardinality(Room(t)) <= Limit
      BY RoomFinite DEF Roomy
    <3>2. R \subseteq Calls /\ Room(t) \subseteq Calls
      BY DEF Room, InFlight
    <3>3. CASE c \notin R
      <4>1. R \subseteq Room(t)
        BY <2>3, <3>2, <3>3
      <4> HIDE DEF R
      <4>2. Cardinality(R) <= Cardinality(Room(t)) /\ Cardinality(R) \in Nat
        BY <3>1, <4>1, FS_Subset, FS_CardinalityType
      <4> QED BY <3>1, <4>2, LinkAssumption DEF R
    <3>4. CASE c \in R
      <4>1. R \subseteq Room(t) \cup {c}
        BY <2>3, <3>2
      <4>2. Cardinality(Room(t)) < Limit
        BY <2>1, <2>4, <3>4, RoomCounted
      <4> HIDE DEF R
      <4>3. /\ IsFiniteSet(Room(t) \cup {c}) /\ Cardinality(Room(t) \cup {c}) \in Nat
            /\ Cardinality(Room(t) \cup {c}) <= Cardinality(Room(t)) + 1
        <5>1. /\ IsFiniteSet(Room(t) \cup {c})
              /\ Cardinality(Room(t) \cup {c}) =
                   IF c \in Room(t) THEN Cardinality(Room(t)) ELSE Cardinality(Room(t)) + 1
          BY <3>1, FS_AddElement
        <5> QED BY <3>1, <5>1
      <4>4. Cardinality(R) <= Cardinality(Room(t) \cup {c}) /\ Cardinality(R) \in Nat
        BY <4>1, <4>3, FS_Subset, FS_CardinalityType
      <4> QED BY <3>1, <4>2, <4>3, <4>4, LinkAssumption DEF R
    <3> QED BY <3>3, <3>4
  <2> QED BY <2>5 DEF Roomy
<1>2. ASSUME NEW c \in Calls, Sends(c) PROVE Roomy'
  BY <1>0, <1>2 DEF Sends, WireSent, MailKept, Active, Records
<1>3. ASSUME NEW c \in Calls, Drops(c) PROVE Roomy'
  BY <1>0, <1>3 DEF Drops, Unsent, WireKept, MailKept, Active, Records
<1>4. ASSUME NEW c \in Calls, Takes(c) PROVE Roomy'
  BY <1>0, <1>4 DEF Takes, WireKept, MailDropped, Active, Records
<1>5. ASSUME NEW c \in Calls, TimesOut(c) PROVE Roomy'
  BY <1>5 DEF TimesOut, TimeOut
<1>6. ASSUME NEW c \in Calls, Forgets(c) PROVE Roomy'
  BY <1>6 DEF Forgets, Untimed
<1>7. ASSUME NEW s \in Sides, NEW o \in Objects, LetsGo(s, o) PROVE Roomy'
  BY <1>0, <1>7 DEF LetsGo, WireSent, MailKept, Active, Records
<1>8. ASSUME NEW s \in Sides, NEW c \in Calls, NEW st \in Refusals, Refuses(s, c, st) PROVE Roomy'
  BY <1>0, <1>8 DEF Refuses, MailTaken, Active, Records, Requested, Waits
<1>9. ASSUME NEW c \in Calls, Begins(c) PROVE Roomy'
  BY <1>0, <1>9 DEF Begins, MailTaken, WireKept, Active, Records, Requested, Waits
<1>10. ASSUME NEW c \in Calls, Replies(c) PROVE Roomy'
  BY <1>0, <1>10 DEF Replies, MailKept, WireSent, Active, Records
<1>11. ASSUME NEW c \in Calls, Queues(c) PROVE Roomy'
  BY <1>0, <1>11 DEF Queues, MailKept, WireTaken, Active, Records, Requested, Waits
<1>12. ASSUME NEW c \in Calls, NEW what \in AnswerKinds, Finishes(c, what) PROVE Roomy'
  BY <1>0, <1>12 DEF Finishes, Finish, MailKept, WireKept, Active, Records
<1>13. ASSUME NEW c \in Calls, NEW st \in Statuses, Delivers(c, st) PROVE Roomy'
  BY <1>0, <1>13 DEF Delivers, Active, Records
<1>14. ASSUME NEW s \in Sides, NEW c \in Calls, Cancels(s, c) PROVE Roomy'
  BY <1>0, <1>14 DEF Cancels, MailKept, WireTaken, Active, Records
<1>15. ASSUME NEW s \in Sides, NEW o \in Objects, Releases(s, o) PROVE Roomy'
  BY <1>0, <1>15 DEF Releases, MailKept, WireTaken, Active, Records
<1>16. ASSUME NEW s \in Sides, Falls(s) PROVE Roomy'
  BY <1>0, <1>16 DEF Falls, Active, Records
<1>17. CASE Idles
  BY <1>0, <1>17 DEF Idles, WireKept, MailKept, Active, Records
<1> QED BY <1>1, <1>2, <1>3, <1>4, <1>5, <1>6, <1>7, <1>8, <1>9, <1>10, <1>11, <1>12, <1>13, <1>14,
     <1>15, <1>16, <1>17
   DEF Step

\* So a call never finds the places taken by calls.
LEMMA RoomLeft ==
  ASSUME Plain, Requested, Roomy, NEW s \in Sides, NEW c \in Calls, s = Peer(call[c].side),
         UnderWay(call[c].side, CallFrame(c)), call[c].parent = 0, ~Asks(c)
  PROVE  Cardinality({d \in Placed(s) : ~Asks(d)}) < Limit
<1> DEFINE t == call[c].side
           P == {d \in Placed(s) : ~Asks(d)}
<1>1. t \in Sides /\ t = Peer(s) /\ run[c] = "none"
  BY Peers DEF Plain, Records, Requested
<1>2. c \in Room(t) /\ c \notin P /\ P \subseteq Room(t)
  <2>1. c \in Room(t)
    BY DEF Room
  <2>2. c \notin P
    BY <1>1 DEF Placed
  <2>3. ASSUME NEW d \in P PROVE d \in Room(t)
    BY <1>1, Peers DEF Placed, Room, Plain, Records
  <2> QED BY <2>1, <2>2, <2>3
<1>3. IsFiniteSet(Room(t)) /\ Cardinality(Room(t)) \in Nat /\ Cardinality(Room(t)) <= Limit
  BY <1>1, RoomFinite DEF Roomy
<1> HIDE DEF t, P
<1>4. IsFiniteSet(P) /\ Cardinality(P) \in Nat
  BY <1>2, <1>3, FS_Subset, FS_CardinalityType
<1>5. /\ Cardinality(P \cup {c}) = Cardinality(P) + 1
      /\ P \cup {c} \subseteq Room(t)
  BY <1>2, <1>4, FS_AddElement
<1>6. Cardinality(P \cup {c}) <= Cardinality(Room(t))
  BY <1>3, <1>5, FS_Subset
<1> QED BY <1>3, <1>4, <1>5, <1>6, LinkAssumption DEF P

\* Whoever is refused for want of a place, its side has asked.
Bidden ==
  \A c \in Calls, s \in Sides : UnderWay(s, Reply(c, "busy")) =>
    \E d \in Calls : Asks(d) /\ call[d].side = Peer(s)

LEMMA BusyStep == ASSUME Plain, Made, Requested, Roomy, Bidden, Step PROVE Bidden'
<1> USE FramesUnlike, Peers DEF Plain, Asks
<1>1. ASSUME NEW c \in Calls, NEW m \in Records, Makes(c, m) PROVE Bidden'
  BY <1>1, ObjectsDiffer DEF Bidden, Made, Unmade, Makes, WireKept
<1>2. ASSUME NEW c \in Calls, Sends(c) PROVE Bidden'
  BY <1>2 DEF Bidden, Sends, WireSent, MailKept
<1>3. ASSUME NEW c \in Calls, Drops(c) PROVE Bidden'
  BY <1>3 DEF Bidden, Drops, Unsent, WireKept, MailKept
<1>4. ASSUME NEW c \in Calls, Takes(c) PROVE Bidden'
  BY <1>4 DEF Bidden, Takes, WireKept, MailDropped
<1>5. ASSUME NEW c \in Calls, TimesOut(c) PROVE Bidden'
  BY <1>5 DEF Bidden, TimesOut, TimeOut, WireKept, MailKept
<1>6. ASSUME NEW c \in Calls, Forgets(c) PROVE Bidden'
  BY <1>6 DEF Bidden, Forgets, MailDropped
<1>7. ASSUME NEW s \in Sides, NEW o \in Objects, LetsGo(s, o) PROVE Bidden'
  BY <1>7 DEF Bidden, LetsGo, WireSent, MailKept
<1>8. ASSUME NEW s \in Sides, NEW c \in Calls, NEW st \in Refusals, Refuses(s, c, st)
      PROVE  Bidden'
  <2>1. CASE st = "busy" /\ \A d \in Calls : Asks(d) => call[d].side # Peer(s)
    <3> DEFINE P == {d \in Placed(s) : ~Asks(d)}
    <3>1. Placed(s) = P /\ Cardinality(Placed(s)) >= Limit
      BY <1>8, <2>1 DEF Placed, Refuses, Records
    <3>2. Cardinality(P) < Limit
      BY <1>8, <2>1, RoomLeft DEF Refuses, Records
    <3>3. P \subseteq Calls /\ IsFiniteSet(Calls) /\ Limit \in Nat
      BY LinkAssumption DEF Placed
    <3> HIDE DEF P
    <3>4. Cardinality(P) \in Nat
      BY <3>3, FS_Subset, FS_CardinalityType
    <3> QED BY <3>1, <3>2, <3>3, <3>4
  <2> QED BY <1>8, <2>1 DEF Bidden, Refuses
<1>9. ASSUME NEW c \in Calls, Begins(c) PROVE Bidden'
  BY <1>9 DEF Bidden, Begins, MailTaken, WireKept
<1>10. ASSUME NEW c \in Calls, Replies(c) PROVE Bidden'
  BY <1>10 DEF Bidden, Replies, WireSent, AnswerKinds
<1>11. ASSUME NEW c \in Calls, Queues(c) PROVE Bidden'
  BY <1>11 DEF Bidden, Queues, MailKept, WireTaken
<1>12. ASSUME NEW c \in Calls, NEW what \in AnswerKinds, Finishes(c, what) PROVE Bidden'
  BY <1>12 DEF Bidden, Finishes, Finish, MailKept, WireKept
<1>13. ASSUME NEW c \in Calls, NEW st \in Statuses, Delivers(c, st) PROVE Bidden'
  BY <1>13 DEF Bidden, Delivers
<1>14. ASSUME NEW s \in Sides, NEW c \in Calls, Cancels(s, c) PROVE Bidden'
  BY <1>14 DEF Bidden, Cancels, MailKept, WireTaken
<1>15. ASSUME NEW s \in Sides, NEW o \in Objects, Releases(s, o) PROVE Bidden'
  BY <1>15 DEF Bidden, Releases, MailKept, WireTaken
<1>16. ASSUME NEW s \in Sides, Falls(s) PROVE Bidden'
  BY <1>16 DEF Bidden, Falls
<1>17. CASE Idles
  BY <1>17 DEF Bidden, Idles, WireKept, MailKept
<1> QED BY <1>1, <1>2, <1>3, <1>4, <1>5, <1>6, <1>7, <1>8, <1>9, <1>10, <1>11, <1>12, <1>13,
     <1>14, <1>15, <1>16, <1>17 DEF Step

Patient == Untimed /\ Unflagged /\ Waited /\ Coming /\ Roomy /\ Bidden

LEMMA PatientInit == ASSUME Init PROVE Patient
<1>1. /\ \A s \in Sides : \A f : ~UnderWay(s, f)
      /\ \A p \in Calls : \A f : ~Mailed(p, f)
  BY InFew DEF Init, UnderWay, Mailed
<1>2. Untimed /\ Unflagged /\ Waited /\ Coming /\ Bidden
  BY <1>1 DEF Init, Untimed, Unflagged, Waited, Coming, Bidden
<1>3. \A t \in Sides : Room(t) = {}
  BY <1>1 DEF Init, Room, InFlight, Active
<1>4. Roomy
  <2>1. Cardinality({}) = 0 /\ Limit \in Nat
    BY FS_EmptySet, LinkAssumption
  <2> QED BY <1>3, <2>1 DEF Roomy
<1> QED BY <1>2, <1>4 DEF Patient

LEMMA PatientStep == ASSUME ~Timeouts, TypeOK, LinkInv, Patient, [Next]_vars PROVE Patient'
<1>1. Step
  BY NextIsStep
<1>2. Plain /\ Made /\ Requested /\ Replied /\ Nested /\ GoneTold
  BY DEF LinkInv
<1>3. Untimed /\ Unflagged /\ Waited /\ Coming /\ Roomy /\ Bidden
  BY DEF Patient
<1>4. Untimed' /\ Unflagged' /\ Waited' /\ Coming'
  BY <1>1, <1>2, <1>3, UntimedStep, UnflaggedStep, WaitedStep, ComingStep
<1>5. Roomy' /\ Bidden'
  BY <1>1, <1>2, <1>3, RoomyStep, BusyStep
<1> QED BY <1>4, <1>5 DEF Patient

\* Where calls have no timeout, while both sides are up every call waited for is
\* on its way, runs, or has its answer on its way, and calls leave each other a
\* place: Permits and the pool's places count calls alike, so a side is refused for
\* want of one only where it listed or opened (CallsAreAnswered).
THEOREM CallsAnswered == ASSUME ~Timeouts PROVE Spec => []CallsAreAnswered
<1>1. Init => Patient
  BY PatientInit
<1>2. TypeOK /\ LinkInv /\ Patient /\ [Next]_vars => Patient'
  BY PatientStep
<1>3. LinkInv /\ Patient => CallsAreAnswered
  <2> SUFFICES ASSUME LinkInv, Patient, Up, NEW c \in Calls, at[c] = "waiting"
               PROVE  \/ Travels(c)
                      \/ run[c] \in {"running", "replying"}
                      \/ \E status \in AnswerKinds \cup Refusals :
                           UnderWay(Peer(call[c].side), Reply(c, status)) \/ In(Reply(c, status), mail[c])
    <3>1. ASSUME LinkInv, Patient PROVE NeverTooBusy
      BY <3>1, RoomLeft, Peers DEF NeverTooBusy, Patient, Bidden, LinkInv, Plain, Records
    <3> QED BY <3>1 DEF CallsAreAnswered, AnswerIsComing
  <2>1. \/ Journeys(c)
        \/ run[c] \in {"running", "replying"}
        \/ \E st \in Statuses : Mailed(c, Reply(c, st)) \/ \E s \in Sides : UnderWay(s, Reply(c, st))
    BY DEF Patient, Coming
  <2>2. CASE Journeys(c)
    <3>1. 0 \notin Calls
      BY LinkAssumption, FS_CardinalityType
    <3> QED BY <2>2, <3>1 DEF Journeys, Travels, LinkInv, Requested, Mailed
  <2>3. ASSUME NEW st \in Statuses, NEW s \in Sides, UnderWay(s, Reply(c, st))
        PROVE  UnderWay(Peer(call[c].side), Reply(c, st))
    BY <2>3 DEF LinkInv, Replied
  <2> QED BY <2>1, <2>2, <2>3 DEF Mailed, Statuses
<1> QED BY <1>1, <1>2, <1>3, LinkInvariance, PTL DEF Spec

-----------------------------------------------------------------------------
(* Without timeouts and with every body in bounds, everything held is let go. *)

\* An answer on its way is waited for.
Awaited ==
  Up => \A c \in Calls, s \in Sides : \A st \in Statuses :
          UnderWay(s, Reply(c, st)) => at[c] = "waiting"

LEMMA AwaitedStep == ASSUME ~Timeouts, Plain, Made, Requested, Replied, GoneTold, Untimed,
         Waited, Awaited, Step PROVE Awaited'
<1> USE FramesUnlike, Peers DEF Plain
<1>1. ASSUME NEW c \in Calls, NEW m \in Records, Makes(c, m) PROVE Awaited'
  <2>1. Up' => Up
    BY <1>1, UpBefore DEF Step
  <2>2. WireKept /\ at[c] = "unmade" /\ \A d \in Calls : d # c => at'[d] = at[d]
    BY <1>1 DEF Makes
  <2>3. \A s \in Sides : \A st \in Statuses : ~UnderWay(s, Reply(c, st))
    BY <2>2 DEF Requested, Replied
  <2> QED BY <2>1, <2>2, <2>3 DEF Awaited, WireKept
<1>2. ASSUME NEW c \in Calls, Sends(c) PROVE Awaited'
  <2>1. Up' => Up
    BY <1>2, UpBefore DEF Step
  <2> QED BY <2>1, <1>2 DEF Awaited, Sends, WireSent
<1>3. ASSUME NEW c \in Calls, Drops(c) PROVE Awaited'
  <2>1. Up' => Up
    BY <1>3, UpBefore DEF Step
  <2>2. WireKept /\ at[c] = "sending" /\ \A d \in Calls : d # c => at'[d] = at[d]
    BY <1>3 DEF Drops, Unsent
  <2>3. \A s \in Sides : \A st \in Statuses : ~UnderWay(s, Reply(c, st))
    BY <2>2 DEF Requested, Replied
  <2> QED BY <2>1, <2>2, <2>3 DEF Awaited, WireKept
<1>4. ASSUME NEW c \in Calls, Takes(c) PROVE Awaited'
  <2>1. Up' => Up
    BY <1>4, UpBefore DEF Step
  <2>2. WireKept /\ \A d \in Calls : d # c => at'[d] = at[d]
    BY <1>4 DEF Takes
  <2>3. ASSUME Up' PROVE \A s \in Sides : \A st \in Statuses : ~UnderWay(s, Reply(c, st))
    BY <1>4, <2>1, <2>3 DEF Takes, GoneTold, Replied, Up, Sides, Records
  <2> QED BY <2>1, <2>2, <2>3 DEF Awaited, WireKept
<1>5. ASSUME NEW c \in Calls, TimesOut(c) PROVE Awaited'
  BY <1>5 DEF TimesOut, TimeOut
<1>6. ASSUME NEW c \in Calls, Forgets(c) PROVE Awaited'
  BY <1>6 DEF Forgets, Untimed
<1>7. ASSUME NEW s \in Sides, NEW o \in Objects, LetsGo(s, o) PROVE Awaited'
  <2>1. Up' => Up
    BY <1>7, UpBefore DEF Step
  <2> QED BY <2>1, <1>7 DEF Awaited, LetsGo, WireSent
<1>8. ASSUME NEW s \in Sides, NEW c \in Calls, NEW st \in Refusals, Refuses(s, c, st)
      PROVE  Awaited'
  <2>1. Up' => Up
    BY <1>8, UpBefore DEF Step
  <2>2. /\ at' = at
        /\ \A d \in Calls, x \in Sides : \A f \in Statuses :
             UnderWay(x, Reply(d, f))' => UnderWay(x, Reply(d, f)) \/ d = c
    BY <1>8 DEF Refuses
  <2>3. Up => at[c] = "waiting"
    BY <1>8 DEF Refuses, Waits, Waited, Up, Sides, Records
  <2> QED BY <2>1, <2>2, <2>3 DEF Awaited
<1>9. ASSUME NEW c \in Calls, Begins(c) PROVE Awaited'
  <2>1. Up' => Up
    BY <1>9, UpBefore DEF Step
  <2> QED BY <2>1, <1>9 DEF Awaited, Begins, WireKept
<1>10. ASSUME NEW c \in Calls, Replies(c) PROVE Awaited'
  <2>1. Up' => Up
    BY <1>10, UpBefore DEF Step
  <2>2. /\ at' = at
        /\ \A d \in Calls, x \in Sides : \A f \in Statuses :
             UnderWay(x, Reply(d, f))' => UnderWay(x, Reply(d, f)) \/ d = c
    BY <1>10 DEF Replies, WireSent
  <2>3. Up => at[c] = "waiting"
    BY <1>10 DEF Replies, Waited, Up, Sides, Records
  <2> QED BY <2>1, <2>2, <2>3 DEF Awaited
<1>11. ASSUME NEW c \in Calls, Queues(c) PROVE Awaited'
  <2> QED BY <1>11, UpBefore DEF Awaited, Queues, WireTaken, Step
<1>12. ASSUME NEW c \in Calls, NEW what \in AnswerKinds, Finishes(c, what) PROVE Awaited'
  <2> QED BY <1>12, UpBefore DEF Awaited, Finishes, Finish, WireKept, Step
<1>13. ASSUME NEW c \in Calls, NEW st \in Statuses, Delivers(c, st) PROVE Awaited'
  <2> QED BY <1>13, UpBefore DEF Awaited, Delivers, Step
<1>14. ASSUME NEW s \in Sides, NEW c \in Calls, Cancels(s, c) PROVE Awaited'
  <2> QED BY <1>14, UpBefore DEF Awaited, Cancels, WireTaken, Step
<1>15. ASSUME NEW s \in Sides, NEW o \in Objects, Releases(s, o) PROVE Awaited'
  <2> QED BY <1>15, UpBefore DEF Awaited, Releases, WireTaken, Step
<1>16. ASSUME NEW s \in Sides, Falls(s) PROVE Awaited'
  BY <1>16 DEF Falls, Awaited, Up, Sides
<1>17. CASE Idles
  BY <1>17 DEF Awaited, Idles, Up, WireKept, MailKept
<1> QED BY <1>1, <1>2, <1>3, <1>4, <1>5, <1>6, <1>7, <1>8, <1>9, <1>10, <1>11, <1>12, <1>13,
     <1>14, <1>15, <1>16, <1>17 DEF Step

\* Who stands for what side s holds as o, or keeps it lent.
Borne(s, o) ==
  \/ \E k \in Kinds : \E x \in Bearers : Has(o, k, x) /\ Peer(User(k, x)) = s
  \/ \E c \in Calls : o = Arg(c) /\ call[c].pass = "lent" /\ Active(c) /\ call[c].side = s
AllBorne == Up => \A s \in Sides : \A o \in exports[s] : Borne(s, o)

\* What stands for o still does, something else does on the same side, or o is
\* no longer held.
Passed(o, k, x) ==
  \/ Has(o, k, x)'
  \/ \E l \in Kinds : \E y \in Bearers : Has(o, l, y)' /\ User(l, y)' = User(k, x)
  \/ o \notin exports'[Peer(User(k, x))]

LEMMA BornePasses ==
  ASSUME Plain, Made, Requested, Replied, AllBorne, Grows, Up' => Up,
         Up' => \A o \in Objects : \A k \in Kinds : \A x \in Bearers : Has(o, k, x) => Passed(o, k, x),
         \A c \in Calls : Active(c) /\ call[c].pass = "lent" =>
           Active(c)' \/ Arg(c) \notin exports'[call[c].side],
         Up' => \A s \in Sides : \A o \in exports'[s] : o \in exports[s] \/ Borne(s, o)'
  PROVE  AllBorne'
<1> SUFFICES ASSUME Up', NEW s \in Sides, NEW o \in exports'[s], o \in exports[s] PROVE Borne(s, o)'
  BY DEF AllBorne
<1>1. Borne(s, o) /\ o \in Objects
  BY DEF AllBorne, Plain
<1>2. ASSUME NEW k \in Kinds, NEW x \in Bearers, Has(o, k, x), Peer(User(k, x)) = s PROVE Borne(s, o)'
  <2>1. Passed(o, k, x) /\ User(k, x)' = User(k, x)
    BY <1>1, <1>2, UserStays
  <2>2. CASE Has(o, k, x)'
    BY <1>2, <2>1, <2>2 DEF Borne
  <2>3. CASE \E l \in Kinds : \E y \in Bearers : Has(o, l, y)' /\ User(l, y)' = User(k, x)
    <3>1. PICK l \in Kinds, y \in Bearers : Has(o, l, y)' /\ User(l, y)' = User(k, x)
      BY <2>3
    <3> QED BY <3>1, <1>2 DEF Borne, Peer
  <2> QED BY <1>2, <2>1, <2>2, <2>3 DEF Passed
<1>3. ASSUME NEW c \in Calls, o = Arg(c), call[c].pass = "lent", Active(c), call[c].side = s
      PROVE  Borne(s, o)'
  BY <1>3 DEF Borne, Grows, Active
<1> QED BY <1>1, <1>2, <1>3 DEF Borne

\* All that stands for objects stays, but y as l for n.
Sticks(n, l, y) ==
  /\ \A x \in Sides : \A o \in Objects : o \in handles[x] =>
          o \in handles'[x] \/ (l = "handle" /\ x = y /\ o = n)
  /\ \A x \in Sides : \A o \in Objects :
       UnderWay(x, Release(o)) => UnderWay(x, Release(o))' \/ (l = "release" /\ x = y /\ o = n)
  /\ \A d \in Calls : Journeys(d) => Journeys(d)' \/ (l = "call" /\ d = y)
  /\ \A d \in Calls : Answering(d) => Answering(d)' \/ (l = "answer" /\ d = y)

LEMMA SticksPasses ==
  ASSUME Plain, Made, Requested, Replied, Grows, NEW n, NEW l, NEW y, Sticks(n, l, y),
         \A o \in Objects : Has(o, l, y) /\ (l \in {"handle", "release"} => o = n) => Passed(o, l, y)
  PROVE  \A o \in Objects : \A k \in Kinds : \A x \in Bearers : Has(o, k, x) => Passed(o, k, x)
<1> SUFFICES ASSUME NEW o \in Objects, NEW k \in Kinds, NEW x \in Bearers, Has(o, k, x)
             PROVE  Passed(o, k, x)
  OBVIOUS
<1>1. ASSUME k = l, x = y, l \in {"handle", "release"} => o = n PROVE Passed(o, k, x)
  BY <1>1
<1>2. ASSUME Has(o, k, x)' PROVE Passed(o, k, x)
  BY <1>2 DEF Passed
<1>3. CASE k = "handle"
  BY <1>1, <1>2, <1>3, HasMade DEF Has, Sticks
<1>4. CASE k = "release"
  BY <1>1, <1>2, <1>4, HasMade DEF Has, Sticks
<1>5. CASE k = "call"
  BY <1>1, <1>2, <1>5, HasMade DEF Has, Sticks, Grows
<1>6. CASE k = "answer"
  BY <1>1, <1>2, <1>6, HasMade DEF Has, Sticks
<1> QED BY <1>3, <1>4, <1>5, <1>6 DEF Kinds

\* What a call that is waited for is on, the peer can find.
LEMMA ReadableIs ==
  ASSUME Plain, Made, Nested, HasHeld, LentHeld, TargetsHeld, Waited, Up, NEW c \in Calls, Active(c),
         call[c].pass # "nothing"
  PROVE  Readable(Peer(call[c].side), c)
<1> DEFINE s == Peer(call[c].side)
           p == call[c].parent
<1>1. /\ call[c].side \in Sides /\ s \in Sides /\ p \in Calls \cup {0}
      /\ call[c].target \in Objects \cup {Table}
  BY Peers DEF Plain, Records, Made, Asks
<1>2. CASE call[c].target = Table
  BY <1>2 DEF Readable
<1>3. CASE call[c].target \in Objects /\ call[c].target \in handles[call[c].side]
  <2> QED BY <1>1, <1>3 DEF Readable, HasHeld, Kinds, Bearers, Has, User
<1>4. CASE p # 0 /\ call[p].pass = "lent" /\ call[c].target = Arg(p)
  <2>1. p \in Calls /\ run[p] = "running" /\ call[p].side # call[c].side
    BY <1>1, <1>4 DEF Nested, Made
  <2>2. call[p].side = s
    BY <1>1, <2>1, Peers DEF Plain, Records
  <2>3. alive[s]
    BY <1>1 DEF Up, Sides
  <2>4. call[c].target \in exports[s]
    BY <1>4, <2>1, <2>2, <2>3 DEF LentHeld, Waited, Active
  <2> QED BY <2>4 DEF Readable
<1> QED BY <1>1, <1>2, <1>3, <1>4, ObjectsDiffer DEF TargetsHeld

LEMMA BorneStep ==
  ASSUME ~Timeouts, ~Oversize, Plain, Made, Requested, Replied, Nested, HasHeld, LentHeld, TargetsHeld,
         GoneTold, Untimed, Unflagged, Waited, Awaited, AllBorne, Step
  PROVE  AllBorne'
<1> SUFFICES ASSUME Up' PROVE AllBorne'
  BY DEF AllBorne
<1> USE FramesUnlike, Peers DEF Plain
<1>0. Grows /\ Up /\ \A s \in Sides : alive[s] /\ alive'[s]
  BY StepGrows, UpBefore DEF Up, Sides
<1>a. ASSUME NEW n, NEW l, NEW y, Sticks(n, l, y),
             \A o \in Objects : Has(o, l, y) /\ (l \in {"handle", "release"} => o = n) =>
                  Passed(o, l, y),
             \A c \in Calls : Active(c) /\ call[c].pass = "lent" =>
               Active(c)' \/ Arg(c) \notin exports'[call[c].side],
             \A s \in Sides : \A o \in exports'[s] : o \in exports[s] \/ Borne(s, o)'
      PROVE  AllBorne'
  BY <1>0, <1>a, SticksPasses, BornePasses
<1>b. ASSUME Sticks(0, "none", 0), at' = at,
             \A s \in Sides : \A o \in exports'[s] : o \in exports[s] \/ Borne(s, o)'
      PROVE  AllBorne'
  BY <1>a, <1>b DEF Active, Has
<1>c. \A c \in Calls :
           call[c].side \in Sides /\ Peer(call[c].side) \in Sides /\ call[c].parent \in Calls \cup {0}
  BY DEF Records
<1>d. 0 \notin Calls
  BY LinkAssumption, FS_CardinalityType
<1>1. ASSUME NEW c \in Calls, NEW m \in Records, Makes(c, m) PROVE AllBorne'
  <2>1. /\ call'[c] = m /\ at'[c] = "sending" /\ (\A d \in Calls : d # c => at'[d] = at[d])
        /\ run' = run /\ answer' = answer /\ WireKept /\ MailKept /\ m.side \in Sides /\ at[c] = "unmade"
    BY <1>1 DEF Makes, Records
  <2>2. Sticks(m.object, "handle", m.side)
    <3> QED BY <2>1, <1>1 DEF Sticks, WireKept, Makes, Journeys, Answering, MailKept
  <2>3. Passed(m.object, "handle", m.side) \/ ~Has(m.object, "handle", m.side)
    <3>1. CASE m.pass = "back"
      BY <2>1, <3>1 DEF Passed, Kinds, Bearers, Has, Journeys, User
    <3>2. CASE m.pass # "back"
      BY <1>1, <3>2 DEF Passed, Has, Makes
    <3> QED BY <3>1, <3>2
  <2>4. \A s \in Sides : \A o \in exports'[s] : o \in exports[s] \/ Borne(s, o)'
    <3>1. \A s \in Sides : \A o \in exports'[s] :
            o \in exports[s] \/ (s = m.side /\ o = Arg(c) /\ m.pass \in {"new", "lent"})
      BY <1>1 DEF Makes
    <3>2. CASE m.pass = "new"
      <4>1. Has(Arg(c), "call", c)' /\ User("call", c)' = Peer(m.side)
        BY <2>1, <3>2, <1>1 DEF Has, Journeys, User, Peer, Makes
      <4>2. Borne(m.side, Arg(c))'
        <5>1. "call" \in Kinds /\ c \in Bearers
          BY DEF Kinds, Bearers
        <5> QED BY <2>1, <4>1, <5>1 DEF Borne, Peer, Sides
      <4> QED BY <3>1, <4>2
    <3>3. CASE m.pass = "lent"
      <4>1. ASSUME NEW s \in Sides, s = m.side PROVE Borne(s, Arg(c))'
        BY <2>1, <3>3, <4>1 DEF Borne, Active
      <4> QED BY <3>1, <3>3, <4>1
    <3> QED BY <3>1, <3>2, <3>3
  <2>5. \A d \in Calls : Active(d) => Active(d)'
    BY <2>1 DEF Active
  <2> QED BY <1>a, <2>2, <2>3, <2>4, <2>5
<1>2. ASSUME NEW c \in Calls, Sends(c) PROVE AllBorne'
  <2>1. /\ WireSent(call[c].side, CallFrame(c)) /\ MailKept
        /\ at'[c] = "waiting" /\ \A d \in Calls : d # c => at'[d] = at[d]
        /\ UNCHANGED <<run, answer, exports, handles>>
    BY <1>2 DEF Sends
  <2>2. Sticks(0, "none", 0)
    BY <2>1, <1>0, <1>c DEF Sticks, WireSent, Answering, MailKept, Journeys
  <2>3. \A o \in Objects : ~Has(o, "none", 0)
    BY DEF Has
  <2>4. \A d \in Calls : Active(d) => Active(d)'
    BY <2>1 DEF Active
  <2> QED BY <1>a, <2>1, <2>2, <2>3, <2>4
<1>3. ASSUME NEW c \in Calls, Drops(c) PROVE AllBorne'
  BY <1>0, <1>3, <1>c DEF Drops, Unsent
<1>4. ASSUME NEW c \in Calls, Takes(c) PROVE AllBorne'
  <2>1. /\ WireKept /\ MailDropped(c) /\ at'[c] = "done" /\ \A d \in Calls : d # c => at'[d] = at[d]
        /\ UNCHANGED <<run, answer>> /\ exports' = Unlent(c)
        /\ \A x \in Sides : handles[x] \subseteq handles'[x]
    BY <1>4 DEF Takes
  <2>2. PICK st \in Statuses : Mailed(c, Reply(c, st))
    BY <1>0, <1>4, <1>c DEF Takes, GoneTold
  <2>3. run[c] = "over" /\ \A g \in Statuses : \A s \in Sides : ~UnderWay(s, Reply(c, g))
    BY <2>2 DEF Replied
  <2>4. ASSUME NEW d \in Calls PROVE ~Mailed(c, CallFrame(d))
    <3> SUFFICES ASSUME Mailed(c, CallFrame(d)) PROVE FALSE
      OBVIOUS
    <3>1. c = call[d].parent /\ c # 0
      BY <1>d DEF Requested
    <3>2. at[d] = "waiting"
      BY <1>0, <1>c DEF Waited
    <3> QED BY <2>3, <3>1, <3>2 DEF Nested, Active
  <2>5. Sticks(0, "answer", c)
    <3>1. \A d \in Calls : Journeys(d) => Journeys(d)'
      <4> SUFFICES ASSUME NEW d \in Calls, Journeys(d) PROVE Journeys(d)'
        OBVIOUS
      <4>1. at[d] = "sending" => at'[d] = "sending"
        BY <1>4, <2>1 DEF Takes
      <4>2. \A p \in Calls : Mailed(p, CallFrame(d)) => Mailed(p, CallFrame(d))'
        BY <2>1, <2>4 DEF MailDropped
      <4> QED BY <2>1, <4>1, <4>2 DEF Journeys, WireKept
    <3> QED BY <2>1, <3>1 DEF Sticks, WireKept, Answering, MailDropped
  <2>6. ASSUME NEW o \in Objects, Has(o, "answer", c) PROVE Passed(o, "answer", c)
    <3>1. o = Ans(c) /\ Answering(c)
      BY <2>6 DEF Has
    <3>2. ~Mailed(c, Gone)
      BY <1>0, <1>c DEF GoneTold
    <3>3. PICK x \in Sides : x = call[c].side /\ Ans(c) \in handles'[x]
      BY <1>4, <1>c, <2>3, <3>1, <3>2 DEF Takes, Answering, Statuses, AnswerKinds
    <3>4. Has(o, "handle", x)' /\ User("handle", x)' = x /\ User("answer", c) = x
      BY <3>1, <3>3 DEF Has, User
    <3> QED BY <3>4 DEF Passed, Kinds, Bearers
  <2>7. \A d \in Calls : Active(d) /\ call[d].pass = "lent" =>
             Active(d)' \/ Arg(d) \notin exports'[call[d].side]
    BY <1>c, <2>1 DEF Active, Unlent, Made
  <2>8. \A s \in Sides : exports'[s] \subseteq exports[s]
    BY <2>1 DEF Unlent
  <2> QED BY <1>a, <2>5, <2>6, <2>7, <2>8
<1>5. ASSUME NEW c \in Calls, TimesOut(c) PROVE AllBorne'
  BY <1>5 DEF TimesOut, TimeOut
<1>6. ASSUME NEW c \in Calls, Forgets(c) PROVE AllBorne'
  BY <1>6 DEF Forgets, Untimed
<1>7. ASSUME NEW s \in Sides, NEW o \in Objects, LetsGo(s, o) PROVE AllBorne'
  <2>1. WireSent(s, Release(o)) /\ MailKept /\ UNCHANGED <<at, run, answer, exports>>
    BY <1>7 DEF LetsGo
  <2>2. Sticks(o, "handle", s)
    <3> QED BY <2>1, <1>7 DEF Sticks, WireSent, Journeys, Answering, MailKept, LetsGo
  <2>3. Passed(o, "handle", s)
    BY <1>0, <2>1 DEF Passed, Kinds, Bearers, Has, User, WireSent
  <2>4. \A d \in Calls : Active(d) => Active(d)'
    BY <2>1 DEF Active
  <2> QED BY <1>a, <2>1, <2>2, <2>3, <2>4
<1>8. ASSUME NEW s \in Sides, NEW c \in Calls, NEW st \in Refusals, Refuses(s, c, st) PROVE AllBorne'
  <2>1. /\ s = Peer(call[c].side) /\ Waits(c) /\ exports' = LetGoExports(s, c)
        /\ (\A d \in Calls : d # c => run'[d] = run[d]) /\ UNCHANGED <<at, answer, handles>>
    BY <1>8 DEF Refuses
  <2>2. at[c] = "waiting" /\ run[c] \in {"none", "pool"}
    BY <1>0, <1>c, <2>1 DEF Waits, Waited, Requested
  <2>3. call[c].pass # "nothing" => Readable(s, c)
    BY <1>0, <2>1, <2>2, ReadableIs DEF Active
  <2>4. Sticks(0, "call", c)
    <3>1. \A d \in Calls : d # c /\ Journeys(d) => Journeys(d)'
      BY <2>1, <1>8 DEF Journeys, Refuses, MailTaken
    <3>2. \A d \in Calls : Answering(d) => Answering(d)'
      BY <2>1, <2>2, <1>8 DEF Answering, Refuses, MailTaken
    <3>3. \A x \in Sides : \A o \in Objects : UnderWay(x, Release(o)) => UnderWay(x, Release(o))'
      BY <1>8 DEF Refuses
    <3> QED BY <2>1, <3>1, <3>2, <3>3 DEF Sticks
  <2>5. ASSUME NEW o \in Objects, Has(o, "call", c) PROVE Passed(o, "call", c)
    <3>1. o = call[c].object /\ call[c].pass \in {"new", "back"}
      BY <2>5 DEF Has
    <3>2. CASE call[c].pass = "new"
      <4> QED
        BY <2>1, <3>2, <1>0, <1>8, <2>3, <3>1 DEF Passed, Kinds, Bearers, Has, User, Refuses
    <3>3. CASE call[c].pass = "back"
      <4> QED BY <2>1, <3>3, <2>3, <3>1 DEF Passed, User, LetGoExports
    <3> QED BY <3>1, <3>2, <3>3
  <2>6. \A x \in Sides : exports'[x] \subseteq exports[x]
    BY <2>1 DEF LetGoExports
  <2>7. \A d \in Calls : Active(d) => Active(d)'
    BY <2>1 DEF Active
  <2> QED BY <1>a, <2>4, <2>5, <2>6, <2>7
<1>9. ASSUME NEW c \in Calls, Begins(c) PROVE AllBorne'
  <2> DEFINE s == Peer(call[c].side)
  <2>1. /\ run'[c] = "running" /\ (\A d \in Calls : d # c =>
                                        run'[d] = run[d]) /\ UNCHANGED <<at, answer>>
        /\ WireKept /\ MailTaken(c)
        /\ handles' = [handles EXCEPT ![s] = IF call[c].pass = "new" THEN @ \cup {call[c].object} ELSE @]
        /\ exports' = [exports EXCEPT ![s] = IF call[c].pass = "back" THEN @ \ {call[c].object} ELSE @]
    BY <1>9 DEF Begins
  <2>2. run[c] \in {"none", "pool"} /\ s \in Sides
    BY <1>9, <1>c DEF Begins, Requested
  <2> HIDE DEF s
  <2>3. Sticks(0, "call", c)
    <3>1. \A d \in Calls : d # c /\ Journeys(d) => Journeys(d)'
      BY <2>1 DEF Journeys, WireKept, MailTaken
    <3>2. \A d \in Calls : Answering(d) => Answering(d)'
      BY <2>1, <2>2 DEF Answering, WireKept, MailTaken
    <3>3. \A x \in Sides : handles[x] \subseteq handles'[x]
      BY <2>1, <2>2
    <3> QED BY <2>1, <3>1, <3>2, <3>3 DEF Sticks, WireKept
  <2>4. ASSUME NEW o \in Objects, Has(o, "call", c) PROVE Passed(o, "call", c)
    <3>1. o = call[c].object /\ call[c].pass \in {"new", "back"}
      BY <2>4 DEF Has
    <3>2. CASE call[c].pass = "new"
      <4>1. PICK x \in Sides : x = s /\ o \in handles'[x]
        BY <2>1, <2>2, <3>1, <3>2
      <4> QED BY <3>2, <4>1 DEF Passed, Kinds, Bearers, Has, User, s
    <3>3. CASE call[c].pass = "back"
      <4> QED BY <3>3, <2>1, <2>2, <3>1 DEF Passed, User, s
    <3> QED BY <3>1, <3>2, <3>3
  <2>5. \A x \in Sides : exports'[x] \subseteq exports[x]
    BY <2>1, <2>2
  <2>6. \A d \in Calls : Active(d) => Active(d)'
    BY <2>1 DEF Active
  <2> QED BY <1>a, <2>3, <2>4, <2>5, <2>6
<1>10. ASSUME NEW c \in Calls, Replies(c) PROVE AllBorne'
  <2>1. /\ WireSent(Peer(call[c].side), Reply(c, answer[c])) /\ MailKept
        /\ UNCHANGED <<at, answer, exports, handles>>
        /\ run[c] = "replying" /\ (\A d \in Calls : d # c => run'[d] = run[d])
    BY <1>10 DEF Replies
  <2>2. Answering(c) => Answering(c)'
    <3> QED BY <2>1, <1>0, <1>c DEF Answering, MailKept, WireSent
  <2>3. Sticks(0, "none", 0)
    BY <2>1, <2>2 DEF Sticks, WireSent, Answering, MailKept, Journeys
  <2> QED BY <1>b, <2>1, <2>3
<1>11. ASSUME NEW c \in Calls, Queues(c) PROVE AllBorne'
  <2>1. /\ WireTaken(call[c].side, CallFrame(c)) /\ UNCHANGED <<at, answer, exports, handles>>
        /\ (\A d \in Calls : d # c => run'[d] = run[d]) /\ UnderWay(call[c].side, CallFrame(c))
        /\ \A p \in Calls : \A f : Mailed(p, f) => Mailed(p, f)'
    BY <1>11 DEF Queues, MailKept
  <2>2. run[c] = "none"
    BY <1>c, <2>1 DEF Requested
  <2>3. Sticks(0, "none", 0)
    BY <2>1, <1>11, <1>c, <2>2 DEF Sticks, WireTaken, Answering, Journeys, Queues
  <2> QED BY <1>b, <2>1, <2>3
<1>12. ASSUME NEW c \in Calls, NEW what \in AnswerKinds, Finishes(c, what) PROVE AllBorne'
  <2> DEFINE s == Peer(call[c].side)
  <2>1. /\ WireKept /\ MailKept /\ UNCHANGED <<at, handles, call>> /\ run[c] = "running"
        /\ (\A d \in Calls : d # c => run'[d] = run[d] /\ answer'[d] = answer[d])
        /\ run'[c] = IF flag[c] THEN "over" ELSE "replying"
    BY <1>12 DEF Finishes, Finish
  <2>2. run'[c] = "replying" /\ s \in Sides
    BY <1>0, <1>c, <2>1 DEF Unflagged
  <2>3. Sticks(0, "none", 0)
    BY <2>1 DEF Sticks, WireKept, Answering, MailKept, Journeys
  <2>4. ASSUME NEW x \in Sides, NEW o \in exports'[x], o \notin exports[x] PROVE Borne(x, o)'
    <3>1. x = s /\ o = Ans(c) /\ answer'[c] = "object"
      BY <1>0, <1>12, <2>2, <2>4 DEF Finishes, Finish
    <3>2. Has(o, "answer", c)' /\ User("answer", c)' = call[c].side
      BY <2>1, <2>2, <3>1 DEF Has, Answering, User
    <3>3. Peer(User("answer", c))' = x
      BY <3>1, <3>2 DEF Peer
    <3> QED BY <3>2, <3>3 DEF Borne, Kinds, Bearers
  <2> QED BY <1>b, <2>1, <2>3, <2>4
<1>13. ASSUME NEW c \in Calls, NEW st \in Statuses, Delivers(c, st) PROVE AllBorne'
  <2>1. /\ UNCHANGED <<at, run, answer, exports, handles>> /\ UnderWay(Peer(call[c].side), Reply(c, st))
    BY <1>13 DEF Delivers
  <2>2. Registered(c)
    BY <1>0, <1>c, <2>1 DEF Awaited, Registered
  <2>3. /\ \A p \in Calls : \A f : Mailed(p, f) => Mailed(p, f)'
        /\ Mailed(c, Reply(c, st))'
    BY <1>13, <2>2 DEF Delivers
  <2>4. /\ \A d \in Calls, x \in Sides : UnderWay(x, CallFrame(d)) => UnderWay(x, CallFrame(d))'
        /\ \A x \in Sides : \A o \in Objects : UnderWay(x, Release(o)) => UnderWay(x, Release(o))'
        /\ \A d \in Calls, x \in Sides : UnderWay(x, Reply(d, "object")) =>
             UnderWay(x, Reply(d, "object"))' \/ (d = c /\ st = "object")
    BY <1>13 DEF Delivers
  <2>5. Sticks(0, "none", 0)
    BY <2>1, <2>4, <2>3 DEF Sticks, Answering, Journeys
  <2> QED BY <1>b, <2>1, <2>5
<1>14. ASSUME NEW s \in Sides, NEW c \in Calls, Cancels(s, c) PROVE AllBorne'
  BY <1>14 DEF Cancels, Untimed
<1>15. ASSUME NEW s \in Sides, NEW o \in Objects, Releases(s, o) PROVE AllBorne'
  <2>1. WireTaken(Peer(s), Release(o)) /\ MailKept /\ UNCHANGED <<at, run, answer, handles>>
    BY <1>15 DEF Releases
  <2>2. Sticks(o, "release", Peer(s))
    BY <2>1 DEF Sticks, WireTaken, Journeys, Answering, MailKept
  <2>3. o \notin exports'[s] /\ Peer(User("release", Peer(s))) = s /\ \A x \in Sides :
                                                                           exports'[x] \subseteq exports[x]
    BY <1>15 DEF Releases, User
  <2>4. Passed(o, "release", Peer(s))
    BY <2>3 DEF Passed
  <2>5. \A d \in Calls : Active(d) => Active(d)'
    BY <2>1 DEF Active
  <2> QED BY <1>a, <2>2, <2>3, <2>4, <2>5
<1>16. ASSUME NEW s \in Sides, Falls(s) PROVE AllBorne'
  BY <1>0, <1>16 DEF Falls
<1>17. CASE Idles
  <2> QED BY <1>17, <1>b DEF Idles, Sticks, WireKept, Journeys, Answering, MailKept
<1> QED BY <1>1, <1>2, <1>3, <1>4, <1>5, <1>6, <1>7, <1>8, <1>9, <1>10, <1>11, <1>12, <1>13,
     <1>14, <1>15, <1>16, <1>17 DEF Step

\* Where calls have no timeout and every body fits a frame, while both sides are
\* up each object a side holds will be let go: by a handle of the peer, a RELEASE
\* on its way, a call or an answer that carries it, or the end of the call it was
\* lent to; and each handle names a held object (ObjectsAreKept).
THEOREM ObjectsKept == ASSUME ~Timeouts, ~Oversize PROVE Spec => []ObjectsAreKept
<1> DEFINE All == LinkInv /\ Patient /\ Awaited /\ AllBorne
<1>1. Init => Awaited /\ AllBorne /\ Patient
  <2> SUFFICES ASSUME Init PROVE Awaited /\ AllBorne
    BY PatientInit
  <2> QED BY InFew DEF Init, Awaited, AllBorne, UnderWay
<1>2. TypeOK /\ All /\ [Next]_vars => (Patient /\ Awaited /\ AllBorne)'
  <2> SUFFICES ASSUME TypeOK, All, [Next]_vars PROVE Awaited' /\ AllBorne'
    BY PatientStep
  <2>1. Step
    BY NextIsStep
  <2>2. Untimed /\ Unflagged /\ Waited /\ Awaited /\ AllBorne
    BY DEF Patient
  <2>3. /\ Plain /\ Made /\ Requested /\ Replied /\ Nested /\ HasHeld /\ LentHeld /\ TargetsHeld
        /\ GoneTold
    BY DEF LinkInv
  <2>4. Awaited'
    BY <2>1, <2>2, <2>3, AwaitedStep
  <2>5. AllBorne'
    BY <2>1, <2>2, <2>3, BorneStep
  <2> QED BY <2>4, <2>5
<1>3. All => EveryObjectAccounted
  <2> SUFFICES ASSUME All, Up, NEW s \in Sides, NEW o \in exports[s] PROVE Accounted(s, o)
    BY DEF EveryObjectAccounted
  <2>0. Borne(s, o) /\ o \in Objects /\ 0 \notin Calls
    BY LinkAssumption, FS_CardinalityType DEF AllBorne, LinkInv, Plain
  <2>1. ASSUME NEW k \in Kinds, NEW x \in Bearers, Has(o, k, x), Peer(User(k, x)) = s
        PROVE  Accounted(s, o)
    <3>1. /\ k \in {"handle", "release"} => x \in Sides
          /\ k \in {"call", "answer"} => x \in Calls
      BY <2>0, <2>1, HasMade DEF LinkInv
    <3>2. CASE k \in {"handle", "release"}
      BY <2>1, <3>2, <3>1, Peers DEF Has, Accounted, User
    <3>3. CASE k = "call"
      BY <2>1, <3>1, <3>3, <2>0
        DEF Has, Accounted, Journeys, Travels, LinkInv, Requested, Mailed
    <3>4. CASE k = "answer"
      <4>1. s = Peer(call[x].side) /\ o = Ans(x) /\ Answering(x)
        BY <2>1, <3>4 DEF User, Has
      <4>2. \A y \in Sides : UnderWay(y, Reply(x, "object")) => y = s
        BY <3>1, <3>4, <4>1 DEF LinkInv, Replied, Statuses, AnswerKinds
      <4>3. Mailed(x, Reply(x, "object")) => Registered(x)
        BY <3>1, <3>4 DEF LinkInv, Plain
      <4> QED BY <3>1, <3>4, <4>1, <4>2, <4>3 DEF Accounted, Answering, Mailed
    <3> QED BY <3>2, <3>3, <3>4 DEF Kinds
  <2>2. ASSUME NEW c \in Calls, o = Arg(c), call[c].pass = "lent", Active(c) PROVE Accounted(s, o)
    BY <2>2 DEF Accounted, LinkInv, Made
  <2> QED BY <2>0, <2>1, <2>2 DEF Borne
<1> QED BY <1>1, <1>2, <1>3, LinkInvariance, HandlesHeld, PTL DEF Spec, ObjectsAreKept
=============================================================================
