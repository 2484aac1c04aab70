----------------------------- MODULE KnownKinds -----------------------------
(***************************************************************************)
(* The kinds a server knows (server.rs: Known, kinds_for, catalog, hold,   *)
(* give_kinds): those its providers' own documents describe, learned as    *)
(* each is first listed or opened, and given to the link before the answer *)
(* goes.  Two requests of one link run on two pool threads while libraries *)
(* come and go.                                                            *)
(*                                                                         *)
(* A library has one provider.  A document gives each kind a shape; two    *)
(* shapes agree when they are called alike, which is when they are equal.  *)
(***************************************************************************)
EXTENDS Naturals, FiniteSets, Functions

CONSTANTS
  Kinds,      \* names of kinds
  Providers,  \* what may be loaded
  Own,        \* Own[p]: the shapes p's own document gives, a function on some kinds
  Serves,     \* Serves[p]: the names of the kinds p has tables of
  Requests    \* the link's requests in flight at once

ASSUME KindsAssumption ==
  IsFiniteSet(Providers) /\ \A p \in Providers : DOMAIN Own[p] \subseteq Kinds

VARIABLES
  registered,  \* the providers registered now
  known,       \* Known.kinds
  linkKinds,   \* Inner.kinds of the link
  request,     \* each request: its op, where it is, and what it will answer; history: what
               \* a LIST had promised of the library an OPEN opens
  listed       \* what the last answered LIST says of each provider: its tables

kvars == <<registered, known, linkKinds, request, listed>>

NoRequest == [pc |-> "idle", op |-> "list", of |-> {}, tables |-> [p \in {} |-> {}], kinds |-> {},
              promised |-> {}]

KnownInit ==
  /\ registered = {}
  /\ known = [k \in {} |-> 0]
  /\ linkKinds = {}
  /\ request = [r \in Requests |-> NoRequest]
  /\ listed = [p \in Providers |-> {}]

-----------------------------------------------------------------------------
\* agree: the kinds both describe are called alike.
Agree(f, g) == \A k \in DOMAIN f \cap DOMAIN g : f[k] = g[k]

\* Mutant of Learn: what is not known yet is added whatever else disagrees.
LearnMutant(knows, p) ==
  [ok |-> TRUE, known |-> [k \in DOMAIN knows \cup DOMAIN Own[p] |->
                             IF k \in DOMAIN knows THEN knows[k] ELSE Own[p][k]]]

\* Mutant of Learn: a document that adds nothing is taken to disagree.
LearnFreshMutant(knows, p) ==
  [ok |-> Agree(knows, Own[p]) /\ ~(DOMAIN Own[p] \subseteq DOMAIN knows),
   known |-> IF Agree(knows, Own[p])
             THEN [k \in DOMAIN knows \cup DOMAIN Own[p] |->
                     IF k \in DOMAIN knows THEN knows[k] ELSE Own[p][k]]
             ELSE knows]

\* Known::learn: all of a document or none of it.
Learn(knows, p) ==
  IF Agree(knows, Own[p])
  THEN [ok |-> TRUE, known |-> [k \in DOMAIN knows \cup DOMAIN Own[p] |->
                                  IF k \in DOMAIN knows THEN knows[k] ELSE Own[p][k]]]
  ELSE [ok |-> FALSE, known |-> knows]

\* kinds_for of the providers of P, one after another; in which order is the
\* registry's.  What is known then, and who is served.
Orders(P) == {f \in [1 .. Cardinality(P) -> P] : \A p \in P : \E i \in DOMAIN f : f[i] = p}
Learned(order) ==
  LET upTo[i \in 0 .. Cardinality(DOMAIN order)] ==
        IF i = 0 THEN known ELSE Learn(upTo[i - 1], order[i]).known
  IN upTo
KnownAfter(order) == Learned(order)[Cardinality(DOMAIN order)]
ServedIn(order) == {order[i] : i \in {j \in DOMAIN order : Learn(Learned(order)[j - 1], order[j]).ok}}

\* Mutant of Tables: every kind known is taken to be served.
TablesMutant(p, knows) == DOMAIN knows

\* The tables of p through the kinds of `knows`: DescribedRemote::new.
Tables(p, knows) == Serves[p] \cap DOMAIN knows

Load(p) ==
  /\ p \notin registered
  /\ registered' = registered \cup {p}
  /\ UNCHANGED <<known, linkKinds, request, listed>>

Retire(p) ==
  /\ p \in registered
  /\ registered' = registered \ {p}
  /\ UNCHANGED <<known, linkKinds, request, listed>>

\* catalog, under the registry's lock: every document first, then the tables.
Catalogs(r, order) ==
  /\ request[r].pc = "idle"
  /\ known' = KnownAfter(order)
  /\ request' = [request EXCEPT ![r] =
       [pc |-> "give", op |-> "list", of |-> ServedIn(order),
        tables |-> [p \in ServedIn(order) |-> Tables(p, KnownAfter(order))],
        kinds |-> DOMAIN KnownAfter(order), promised |-> {}]]
  /\ UNCHANGED <<registered, linkKinds, listed>>

\* hold, under the registry's lock, of a library listed before.
Holds(r, p) ==
  /\ request[r].pc = "idle"
  /\ p \in registered
  /\ listed[p] # {}
  /\ LET learned == Learn(known, p) IN
       /\ known' = learned.known
       /\ request' = [request EXCEPT ![r] =
            [pc |-> "give", op |-> "open", of |-> {p},
             tables |-> [q \in {p} |-> IF learned.ok THEN Tables(p, learned.known) ELSE {}],
             kinds |-> DOMAIN learned.known, promised |-> listed[p]]]
  /\ UNCHANGED <<registered, linkKinds, listed>>

\* Mutant of Given: the kinds known when the request looked.
GivenMutant(r) == request[r].kinds

\* What give_kinds gives: every kind known now.
Given(r) == DOMAIN known

GiveKinds(r) ==
  /\ request[r].pc = "give"
  /\ linkKinds' = Given(r)
  /\ request' = [request EXCEPT ![r].pc = "given"]
  /\ UNCHANGED <<registered, known, listed>>

Answers(r) ==
  /\ request[r].pc = "given"
  /\ listed' = IF request[r].op = "open" THEN listed
               ELSE [p \in Providers |-> IF p \in request[r].of THEN request[r].tables[p] ELSE {}]
  /\ request' = [request EXCEPT ![r] = NoRequest]
  /\ UNCHANGED <<registered, known, linkKinds>>

KnownNext ==
  \/ \E p \in Providers : Load(p) \/ Retire(p)
  \/ \E r \in Requests :
       \/ \E order \in Orders(registered) : Catalogs(r, order)
       \/ \E p \in Providers : Holds(r, p)
       \/ GiveKinds(r)
       \/ Answers(r)

-----------------------------------------------------------------------------
(* What must hold.                                                         *)

\* Every part is what the code says it is.
KnownTypeOK ==
  /\ registered \subseteq Providers
  /\ linkKinds \subseteq Kinds
  /\ \A p \in Providers : listed[p] \subseteq Serves[p]

\* The link knows every kind its answers name, before they go and for good,
\* whichever of its requests finishes last.
AnsweredIsKnown ==
  /\ \A r \in Requests : request[r].pc = "given" => request[r].kinds \subseteq linkKinds
  /\ \A p \in Providers : listed[p] \subseteq linkKinds

\* A provider is served only through shapes its own document agrees with.
CalledAsDescribed ==
  \A r \in Requests : \A p \in DOMAIN request[r].tables :
    \A k \in request[r].tables[p] \cap DOMAIN Own[p] : Own[p][k] = known[k]

\* What a LIST listed of a provider an OPEN after it holds, whatever became
\* known meanwhile.
ListedIsHeld ==
  \A r \in Requests : request[r].op = "open" =>
    \A p \in request[r].of : request[r].promised \subseteq request[r].tables[p]

\* What requests that run at once answer is known, agreed with and held.
KindsAreKnown == KnownTypeOK /\ AnsweredIsKnown /\ CalledAsDescribed /\ ListedIsHeld
=============================================================================
