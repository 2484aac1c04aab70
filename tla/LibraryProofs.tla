---------------------------- MODULE LibraryProofs ----------------------------
(***************************************************************************)
(* A registry's safety for any libraries, handles and images, and that of  *)
(* the sources whose libraries run inside another: who is in which wasm    *)
(* library and what its guest is told (Wasm, Ticker), for any threads,     *)
(* libraries and depth of calls back; who waits for which engine's thread  *)
(* (Engines), for any threads, engines and depth; and who has which object *)
(* that crosses to a script and back (Handing), for any objects, handles   *)
(* and calls inside each other.                                            *)
(***************************************************************************)
EXTENDS Registry, Ticker, Engines, Handing, FiniteSetTheorems, FunctionTheorems,
        SequenceTheorems, WellFoundedInduction, TLAPS

-----------------------------------------------------------------------------
(* Registry.                                                               *)
(*                                                                         *)
(* No handle outlives its library's code because the loader's count of an  *)
(* image covers every library that is not closed, and a library is closed  *)
(* only with its holds counted to nothing and nothing of it published.     *)
(* The invariants take the libraries, the index and the counts as          *)
(* arguments: an operation goes through values of them it never assigns.   *)

InUse == {"loaded", "leaving", "kept"}

Provided == [reg : Regs, id : ProviderIds, key : ProviderKeys]

\* The libraries L whose code is in image i, and those the source has opened
\* for candidate c and has not been told are closed.
UsersOf(L, i) ==
  {r \in Regs : L[r].state \in InUse /\ L[r].place \in Files /\ Image[L[r].place] = i}

OpenedAt(L, c) == {r \in Regs : L[r].place = c /\ L[r].state # "closed"}

\* The loader counts every library in use, and the source's count is exact.
Counted(L, o, u) ==
  /\ \A i \in Images : Cardinality(UsersOf(L, i)) <= o[i]
  /\ \A c \in Candidates : u[c] = Cardinality(OpenedAt(L, c))

\* One more is counted at j, of what is counted for each member of S.
OneMore(S, j, counts, next) ==
  \A i \in S : next[i] = IF i = j THEN counts[i] + 1 ELSE counts[i]

\* Whoever has a handle has one of a library in use.
HeldAreInUse(L, h) == \A r \in Regs : h[r] > 0 => L[r].state \in InUse

\* The providers are those of loaded libraries, found by their keys.
Indexed(L, t, ps, index) ==
  /\ ps \in Seq(Provided)
  /\ DOMAIN index = {ps[i].key : i \in 1 .. Len(ps)}
  /\ \A i \in 1 .. Len(ps) :
       /\ index[ps[i].key] = i
       /\ ps[i].key = Render(t, ps[i].id, L[ps[i].reg].build)
       /\ L[ps[i].reg].state = "loaded"

\* Keys and places tell the loaded libraries apart.
Apart(L) ==
  \A r, s \in Regs :
    /\ L[r].state = "loaded" /\ L[s].state = "loaded"
    /\ L[r].key = L[s].key \/ L[r].place = L[s].place
    => r = s

\* The library being unloaded is a loaded one, and has no handle once they were
\* counted, or from the start if the host insisted.
UnloadIsQuiet ==
  op.kind = "unload" => /\ lib[op.reg].state = "loaded"
                        /\ op.step = "ask" \/ op.insist => holds[op.reg] = 0

\* A candidate the source does not serve has no library, and one that is still
\* to be looked at was listed.
ServedAreKnown ==
  /\ \A c \in Candidates, r \in Regs :
       serving[c] = None /\ lib[r].place = c => lib[r].state # "loaded"
  /\ op.kind = "refresh" => \A c \in op.todo : op.listing[c] # None

RInv ==
  /\ TypeOK
  /\ Counted(lib, opens, unclosed)
  /\ HeldAreInUse(lib, holds)
  /\ Indexed(lib, key, providers, byKey)
  /\ Apart(lib)
  /\ SnapshotAgrees
  /\ UnloadIsQuiet
  /\ ServedAreKnown

-----------------------------------------------------------------------------
(* Libraries and the counts of them.                                       *)

\* A library's fields, by its state.
LEMMA LibraryFields ==
  ASSUME NEW l \in Libraries
  PROVE  /\ l = NoLib <=> l.state = "unused"
         /\ l.state \in States
         /\ l.state # "unused" => l.place \in Places /\ l.build \in Builds /\ l.key \in LibraryKeys
         /\ l.state = "unused" => l.place = None
BY RegistryAssumption DEF Libraries, NoLib, States

\* Moving a library to another state of its life.
LEMMA LibraryMoves ==
  ASSUME NEW l \in Libraries, l.state # "unused", NEW to \in States \ {"unused"}
  PROVE  /\ [l EXCEPT !.state = to] \in Libraries
         /\ [l EXCEPT !.state = to].state = to
         /\ [l EXCEPT !.state = to].place = l.place
         /\ [l EXCEPT !.state = to].build = l.build
         /\ [l EXCEPT !.state = to].key = l.key
<1>1. l \in [place : Places, build : Builds, key : LibraryKeys, state : States \ {"unused"}]
  BY DEF Libraries, NoLib
<1> QED BY <1>1 DEF Libraries

\* Sets of registered libraries are finite.
LEMMA RegsFinite ==
  ASSUME NEW S \in SUBSET Regs
  PROVE  IsFiniteSet(S) /\ Cardinality(S) \in Nat
BY RegistryAssumption, FS_Subset, FS_CardinalityType

\* Taking a part out of a set takes its size off.
LEMMA PartOut ==
  ASSUME NEW S \in SUBSET Regs, NEW T \in SUBSET S
  PROVE  /\ Cardinality(S \ T) = Cardinality(S) - Cardinality(T)
         /\ Cardinality(T) <= Cardinality(S)
<1>1. IsFiniteSet(S) /\ IsFiniteSet(T)
  BY RegsFinite
<1>2. S \cap T = T
  OBVIOUS
<1>3. Cardinality(S \ T) = Cardinality(S) - Cardinality(S \cap T)
  BY <1>1, FS_Difference
<1>4. Cardinality(T) <= Cardinality(S)
  BY <1>1, FS_Subset
<1> QED BY <1>2, <1>3, <1>4

\* Libraries that differ only in which state of use they are in are counted alike.
LEMMA CountedAlike ==
  ASSUME NEW L, NEW M, NEW o, NEW u, Counted(L, o, u),
         \A r \in Regs : /\ M[r].place = L[r].place
                         /\ M[r].state \in InUse <=> L[r].state \in InUse
                         /\ M[r].state = "closed" <=> L[r].state = "closed"
  PROVE  Counted(M, o, u)
<1>1. \A i \in Images : UsersOf(M, i) = UsersOf(L, i)
  BY DEF UsersOf
<1>2. \A c \in Candidates : OpenedAt(M, c) = OpenedAt(L, c)
  BY DEF OpenedAt
<1> QED BY <1>1, <1>2 DEF Counted

\* Origin::close of the libraries C keeps the counts.
LEMMA ClosingCounted ==
  ASSUME TypeOK, Counted(lib, opens, unclosed), NEW C \in SUBSET Regs,
         \A r \in C : lib[r].state \in {"loaded", "leaving"}
  PROVE  /\ LibClosing(C) \in [Regs -> Libraries]
         /\ \A r \in Regs \ C : LibClosing(C)[r] = lib[r]
         /\ \A r \in C : /\ LibClosing(C)[r].state = "closed"
                         /\ LibClosing(C)[r].place = lib[r].place
                         /\ LibClosing(C)[r].build = lib[r].build
         /\ Counted(LibClosing(C), OpensClosing(C), UnclosedClosing(C))
         /\ OpensClosing(C) \in [Images -> 0 .. MaxOpens]
         /\ UnclosedClosing(C) \in [Candidates -> Nat]
         /\ \A i \in Images : OpensClosing(C)[i] <= opens[i]
<1> DEFINE M == LibClosing(C)
           cut(i) == {r \in C : lib[r].place \in Files /\ Image[lib[r].place] = i}
           shut(c) == {r \in C : lib[r].place = c}
<1>1. /\ \A r \in Regs : lib[r] \in Libraries
      /\ \A i \in Images : opens[i] \in Nat /\ opens[i] <= MaxOpens /\ opens[i] \in 0 .. MaxOpens
      /\ \A c \in Candidates : unclosed[c] \in Nat
      /\ MaxOpens \in Nat
  BY RegistryAssumption DEF TypeOK
<1>2. M \in [Regs -> Libraries] /\ \A r \in Regs \ C : M[r] = lib[r]
  BY <1>1, LibraryMoves DEF LibClosing, States
<1>3. \A r \in C : /\ M[r].state = "closed" /\ M[r].place = lib[r].place /\ M[r].build = lib[r].build
  BY <1>1, LibraryMoves DEF LibClosing, States
<1> HIDE DEF M
<1>4. ASSUME NEW i \in Images
      PROVE  /\ Cardinality(UsersOf(M, i)) = Cardinality(UsersOf(lib, i)) - Cardinality(cut(i))
             /\ Cardinality(UsersOf(M, i)) \in Nat /\ Cardinality(cut(i)) \in Nat
             /\ Cardinality(cut(i)) <= Cardinality(UsersOf(lib, i))
  <2>1. UsersOf(lib, i) \in SUBSET Regs /\ cut(i) \in SUBSET UsersOf(lib, i)
    BY DEF UsersOf, InUse
  <2>2. UsersOf(M, i) = UsersOf(lib, i) \ cut(i)
    BY <1>2, <1>3 DEF UsersOf, InUse
  <2> HIDE DEF cut
  <2>3. UsersOf(M, i) \in SUBSET Regs /\ cut(i) \in SUBSET Regs
    BY <2>1, <2>2
  <2> QED BY <2>1, <2>2, <2>3, PartOut, RegsFinite
<1>5. ASSUME NEW c \in Candidates
      PROVE  /\ Cardinality(OpenedAt(M, c)) = Cardinality(OpenedAt(lib, c)) - Cardinality(shut(c))
             /\ Cardinality(OpenedAt(M, c)) \in Nat
  <2>1. OpenedAt(lib, c) \in SUBSET Regs /\ shut(c) \in SUBSET OpenedAt(lib, c)
    BY DEF OpenedAt
  <2>2. OpenedAt(M, c) = OpenedAt(lib, c) \ shut(c)
    BY <1>2, <1>3 DEF OpenedAt
  <2> HIDE DEF shut
  <2>3. OpenedAt(M, c) \in SUBSET Regs
    BY <2>1, <2>2
  <2> QED BY <2>1, <2>2, <2>3, PartOut, RegsFinite
<1>6. OpensClosing(C) = [i \in Images |-> opens[i] - Cardinality(cut(i))]
  BY DEF OpensClosing
<1>7. UnclosedClosing(C) = [c \in Candidates |-> unclosed[c] - Cardinality(shut(c))]
  BY DEF UnclosedClosing
<1> HIDE DEF cut, shut
<1>8. \A i \in Images : /\ OpensClosing(C)[i] = opens[i] - Cardinality(cut(i))
                        /\ OpensClosing(C)[i] \in 0 .. MaxOpens
                        /\ Cardinality(UsersOf(M, i)) <= OpensClosing(C)[i]
                        /\ OpensClosing(C)[i] <= opens[i]
  <2> TAKE i \in Images
  <2>1. OpensClosing(C)[i] = opens[i] - Cardinality(cut(i))
    BY <1>6
  <2>2. Cardinality(UsersOf(lib, i)) <= opens[i]
    BY DEF Counted
  <2>3. Cardinality(UsersOf(lib, i)) \in Nat
    BY RegsFinite DEF UsersOf
  <2> QED BY <1>1, <1>4, <2>1, <2>2, <2>3
<1>9. \A c \in Candidates : /\ UnclosedClosing(C)[c] = Cardinality(OpenedAt(M, c))
                            /\ UnclosedClosing(C)[c] \in Nat
  BY <1>5, <1>7 DEF Counted
<1>10. Counted(M, OpensClosing(C), UnclosedClosing(C))
  BY <1>8, <1>9 DEF Counted
<1>11. OpensClosing(C) \in [Images -> 0 .. MaxOpens] /\ UnclosedClosing(C) \in [Candidates -> Nat]
  BY <1>6, <1>7, <1>8, <1>9
<1> QED BY <1>2, <1>3, <1>8, <1>10, <1>11 DEF M

\* A library loaded from a file, with one more handle of the loader.
LEMMA FileCounted ==
  ASSUME NEW L, NEW M, NEW o, NEW u, Counted(L, o, u),
         \A i \in Images : o[i] \in Nat,
         NEW n \in Regs, L[n] = NoLib, NEW f \in Files,
         M[n].place = f, M[n].state = "loaded",
         \A r \in Regs \ {n} : M[r] = L[r],
         NEW p, OneMore(Images, Image[f], o, p)
  PROVE  Counted(M, p, u)
<1>1. ASSUME NEW c \in Candidates PROVE OpenedAt(M, c) = OpenedAt(L, c)
  BY RegistryAssumption DEF OpenedAt, NoLib, Places
<1>2. ASSUME NEW i \in Images PROVE Cardinality(UsersOf(M, i)) <= p[i]
  <2>1. n \notin UsersOf(L, i) /\ UsersOf(L, i) \in SUBSET Regs
    BY DEF UsersOf, NoLib, InUse
  <2>2. Cardinality(UsersOf(L, i)) <= o[i] /\ o[i] \in Nat
    BY DEF Counted
  <2>3. IsFiniteSet(UsersOf(L, i)) /\ Cardinality(UsersOf(L, i)) \in Nat
    BY <2>1, RegsFinite
  <2>4. CASE i = Image[f]
    <3>1. UsersOf(M, i) = UsersOf(L, i) \cup {n}
      BY <2>1, <2>4 DEF UsersOf, InUse
    <3>2. Cardinality(UsersOf(M, i)) = Cardinality(UsersOf(L, i)) + 1
      BY <2>1, <2>3, <3>1, FS_AddElement
    <3> QED BY <2>2, <2>3, <2>4, <3>2 DEF OneMore
  <2>5. CASE i # Image[f]
    <3>1. UsersOf(M, i) = UsersOf(L, i)
      BY <2>1, <2>5 DEF UsersOf, InUse
    <3> QED BY <2>2, <2>5, <3>1 DEF OneMore
  <2> QED BY <2>4, <2>5
<1> QED BY <1>1, <1>2 DEF Counted

\* A library the host links is counted by nobody.
LEMMA LinkedCounted ==
  ASSUME NEW L, NEW M, NEW o, NEW u, Counted(L, o, u),
         NEW n \in Regs, L[n] = NoLib, NEW l \in Linked,
         M[n].place = l, M[n].state = "loaded",
         \A r \in Regs \ {n} : M[r] = L[r]
  PROVE  Counted(M, o, u)
<1>1. ASSUME NEW c \in Candidates PROVE OpenedAt(M, c) = OpenedAt(L, c)
  BY RegistryAssumption DEF OpenedAt, NoLib, Places
<1>2. ASSUME NEW i \in Images PROVE UsersOf(M, i) = UsersOf(L, i)
  BY RegistryAssumption DEF UsersOf, NoLib, Places, InUse
<1> QED BY <1>1, <1>2 DEF Counted

\* A library its source opened is one the source is still to be told of.
LEMMA CandidateCounted ==
  ASSUME NEW L, NEW M, NEW o, NEW u, Counted(L, o, u),
         NEW n \in Regs, L[n] = NoLib, NEW a \in Candidates,
         M[n].place = a, M[n].state = "loaded",
         \A r \in Regs \ {n} : M[r] = L[r],
         NEW v, OneMore(Candidates, a, u, v)
  PROVE  Counted(M, o, v)
<1>1. ASSUME NEW i \in Images PROVE UsersOf(M, i) = UsersOf(L, i)
  BY RegistryAssumption DEF UsersOf, NoLib, Places, InUse
<1>2. ASSUME NEW c \in Candidates PROVE v[c] = Cardinality(OpenedAt(M, c))
  <2>1. n \notin OpenedAt(L, c) /\ OpenedAt(L, c) \in SUBSET Regs
    BY RegistryAssumption DEF OpenedAt, NoLib, Places
  <2>2. CASE c = a
    <3>1. OpenedAt(M, c) = OpenedAt(L, c) \cup {n}
      BY <2>1, <2>2 DEF OpenedAt
    <3>2. Cardinality(OpenedAt(M, c)) = Cardinality(OpenedAt(L, c)) + 1
      BY <2>1, RegsFinite, <3>1, FS_AddElement
    <3> QED BY <2>2, <3>2 DEF Counted, OneMore
  <2>3. CASE c # a
    BY <2>3, <2>1 DEF Counted, OneMore, OpenedAt
  <2> QED BY <2>2, <2>3
<1> QED BY <1>1, <1>2 DEF Counted

-----------------------------------------------------------------------------
(* The providers and their index.                                          *)

\* Every place of a set of positions is the place of exactly one of them.
LEMMA Ranks ==
  ASSUME NEW n \in Nat, NEW K \in SUBSET (1 .. n)
  PROVE  /\ Cardinality(K) \in Nat
         /\ \A m \in 1 .. Cardinality(K) : \E i \in K : Cardinality({j \in K : j <= i}) = m
         /\ \A i \in K : Cardinality({j \in K : j <= i}) \in 1 .. Cardinality(K)
         /\ \A i, k \in K : Cardinality({j \in K : j <= i}) = Cardinality({j \in K : j <= k}) => i = k
<1> DEFINE upto(i) == {j \in K : j <= i}
           rank == [i \in K |-> Cardinality(upto(i))]
           c == Cardinality(K)
<1>1. IsFiniteSet(K) /\ c \in Nat /\ K \subseteq Nat
  <2>1. IsFiniteSet(1 .. n)
    BY FS_Interval
  <2>2. IsFiniteSet(K)
    BY <2>1, FS_Subset
  <2>3. K \subseteq Nat
    OBVIOUS
  <2> QED BY <2>2, <2>3, FS_CardinalityType
<1>2. \A i \in K : IsFiniteSet(upto(i)) /\ Cardinality(upto(i)) \in Nat /\ Cardinality(upto(i)) <= c
  <2> TAKE i \in K
  <2>1. upto(i) \in SUBSET K
    OBVIOUS
  <2> HIDE DEF upto
  <2> QED BY <1>1, <2>1, FS_Subset, FS_CardinalityType
<1>3. \A i \in K : Cardinality(upto(i)) \in 1 .. c
  <2> TAKE i \in K
  <2>1. upto(i) # {}
    BY <1>1
  <2> HIDE DEF upto
  <2>2. Cardinality(upto(i)) # 0
    BY <1>2, <2>1, FS_EmptySet
  <2> QED BY <1>1, <1>2, <2>2
<1>4. ASSUME NEW i \in K, NEW k \in K, i < k PROVE Cardinality(upto(i)) # Cardinality(upto(k))
  <2>1. \A j \in K : j <= i => j <= k
    BY <1>1, <1>4
  <2>2. upto(i) \in SUBSET upto(k)
    BY <2>1
  <2>3. k \in upto(k) /\ k \notin upto(i)
    BY <1>1, <1>4
  <2> HIDE DEF upto
  <2> QED BY <1>2, <2>3, <2>2, FS_Subset
<1>5. \A i, k \in K : Cardinality(upto(i)) = Cardinality(upto(k)) => i = k
  BY <1>1, <1>4
<1> HIDE DEF upto
<1>6. rank \in Injection(K, 1 .. c)
  BY <1>3, <1>5 DEF Injection, IsInjective
<1>7. rank \in Surjection(K, 1 .. c)
  <2> HIDE DEF rank
  <2> QED BY <1>1, FS_Interval, <1>6, FS_Injection DEF c
<1>8. \A m \in 1 .. c : \E i \in K : Cardinality(upto(i)) = m
  BY <1>7 DEF Surjection
<1> QED BY <1>1, <1>3, <1>5, <1>8 DEF upto

\* Vec::retain keeps the entries at the positions given, each once.
LEMMA RetainIs ==
  ASSUME NEW S, NEW ps \in Seq(S), NEW K \in SUBSET (1 .. Len(ps))
  PROVE  /\ Retain(ps, K) \in Seq(S)
         /\ \E m \in [1 .. Len(Retain(ps, K)) -> K] :
              /\ \A i \in 1 .. Len(Retain(ps, K)) : Retain(ps, K)[i] = ps[m[i]]
              /\ \A i, j \in 1 .. Len(Retain(ps, K)) : m[i] = m[j] => i = j
              /\ \A k \in K : \E i \in 1 .. Len(Retain(ps, K)) : m[i] = k
<1> DEFINE c == Cardinality(K)
           rank(i) == Cardinality({j \in K : j <= i})
           at(p) == CHOOSE i \in K : rank(i) = p
           m == [p \in 1 .. c |-> at(p)]
           q == Retain(ps, K)
<1>1. Len(ps) \in Nat
  OBVIOUS
<1>2. /\ c \in Nat
      /\ \A p \in 1 .. c : \E i \in K : rank(i) = p
      /\ \A i \in K : rank(i) \in 1 .. c
      /\ \A i, k \in K : rank(i) = rank(k) => i = k
  BY <1>1, Ranks
<1>3. q = [p \in 1 .. c |-> ps[at(p)]]
  BY DEF Retain
<1> HIDE DEF rank
<1>4. \A p \in 1 .. c : at(p) \in K /\ rank(at(p)) = p
  BY <1>2
<1> HIDE DEF at, c
<1>5. \A i \in K : ps[i] \in S
  OBVIOUS
<1>6. q \in [1 .. c -> S]
  BY <1>3, <1>4, <1>5
<1>7. q \in Seq(S) /\ Len(q) = c
  BY <1>2, <1>6
<1>8. m \in [1 .. c -> K] /\ \A p \in 1 .. c : m[p] = at(p) /\ q[p] = ps[m[p]]
  BY <1>3, <1>4
<1>9. ASSUME NEW k \in K PROVE \E i \in 1 .. c : m[i] = k
  BY <1>8, <1>2, <1>4
<1> HIDE DEF m, q
<1>10. \E x \in [1 .. Len(q) -> K] :
         /\ \A i \in 1 .. Len(q) : q[i] = ps[x[i]]
         /\ \A i, j \in 1 .. Len(q) : x[i] = x[j] => i = j
         /\ \A k \in K : \E i \in 1 .. Len(q) : x[i] = k
  BY <1>7, <1>8, <1>4, <1>9
<1> QED BY <1>7, <1>10 DEF q

\* The sequence of a finite set has each of its elements once.
LEMMA SetToSeqIs ==
  ASSUME NEW T, IsFiniteSet(T)
  PROVE  /\ SetToSeq(T) \in Seq(T)
         /\ \A i, j \in 1 .. Len(SetToSeq(T)) : SetToSeq(T)[i] = SetToSeq(T)[j] => i = j
         /\ \A t \in T : \E i \in 1 .. Len(SetToSeq(T)) : SetToSeq(T)[i] = t
<1> DEFINE c == Cardinality(T)
           s == SetToSeq(T)
<1>1. c \in Nat /\ ExistsBijection(1 .. c, T)
  BY FS_CardinalityType
<1>2. s \in [1 .. c -> T] /\ IsInjective(s)
  BY <1>1 DEF SetToSeq, ExistsBijection, Bijection, Injection
<1> HIDE DEF s
<1>3. s \in Injection(1 .. c, T)
  BY <1>2 DEF Injection
<1>4. s \in Surjection(1 .. c, T)
  BY <1>3, <1>1, FS_Interval, FS_Injection DEF c
<1>5. Len(s) = c /\ s \in Seq(T)
  BY <1>1, <1>2
<1>6. \A i, j \in 1 .. c : s[i] = s[j] => i = j
  BY <1>2 DEF IsInjective
<1>7. \A t \in T : \E i \in 1 .. c : s[i] = t
  BY <1>4 DEF Surjection
<1> QED BY <1>5, <1>6, <1>7 DEF s

\* The index built anew finds every provider, when no two share a key.
LEMMA IndexIs ==
  ASSUME NEW ps, NEW n \in Nat, Len(ps) = n,
         \A i, j \in 1 .. n : ps[i].key = ps[j].key => i = j
  PROVE  /\ DOMAIN Index(ps) = {ps[i].key : i \in 1 .. n}
         /\ \A i \in 1 .. n : Index(ps)[ps[i].key] = i
<1> DEFINE at(k) == CHOOSE i \in 1 .. n : ps[i].key = k /\ \A j \in i + 1 .. n : ps[j].key # k
<1>1. Index(ps) = [k \in {ps[i].key : i \in 1 .. n} |-> at(k)]
  BY DEF Index
<1>2. ASSUME NEW i \in 1 .. n PROVE at(ps[i].key) = i
  <2>1. at(ps[i].key) \in 1 .. n /\ ps[at(ps[i].key)].key = ps[i].key
    BY <1>2
  <2> HIDE DEF at
  <2> QED BY <2>1
<1> HIDE DEF at
<1> QED BY <1>1, <1>2

\* take_library leaves the providers of the other libraries, found by their keys.
LEMMA TakenOutIndexed ==
  ASSUME TypeOK, Indexed(lib, key, providers, byKey), Apart(lib),
         NEW r \in Regs, lib[r].state = "loaded",
         NEW M, \A s \in Regs \ {r} : lib[s].state = "loaded" => M[s] = lib[s]
  PROVE  Indexed(M, key, ProvidersWithout(lib[r].place), Index(ProvidersWithout(lib[r].place)))
<1> DEFINE place == lib[r].place
           K == {i \in 1 .. Len(providers) : lib[providers[i].reg].place # place}
           q == Retain(providers, K)
<1>1. /\ providers \in Seq(Provided) /\ K \in SUBSET (1 .. Len(providers))
      /\ \A i \in 1 .. Len(providers) : providers[i] \in Provided
  BY DEF Indexed
<1>2. ProvidersWithout(place) = q
  BY DEF ProvidersWithout
<1>3. \A i \in K : /\ i \in 1 .. Len(providers)
                   /\ providers[i].reg \in Regs \ {r}
                   /\ lib[providers[i].reg].state = "loaded"
                   /\ M[providers[i].reg] = lib[providers[i].reg]
                   /\ providers[i].key = Render(key, providers[i].id, lib[providers[i].reg].build)
  BY <1>1 DEF Indexed, Provided
<1> HIDE DEF K
<1>4. q \in Seq(Provided)
  BY <1>1, RetainIs
<1>5. PICK m \in [1 .. Len(q) -> K] :
        /\ \A i \in 1 .. Len(q) : q[i] = providers[m[i]]
        /\ \A i, j \in 1 .. Len(q) : m[i] = m[j] => i = j
  BY <1>1, RetainIs
<1> HIDE DEF q
<1>6. \A i, j \in 1 .. Len(q) : q[i].key = q[j].key => i = j
  BY <1>3, <1>5 DEF Indexed
<1>7. Len(q) \in Nat
  BY <1>4
<1>8. /\ DOMAIN Index(q) = {q[i].key : i \in 1 .. Len(q)}
      /\ \A i \in 1 .. Len(q) : Index(q)[q[i].key] = i
  BY <1>6, <1>7, IndexIs
<1>9. Indexed(M, key, q, Index(q))
  BY <1>4, <1>3, <1>5, <1>8 DEF Indexed
<1> QED BY <1>2, <1>9

\* What is left of a library taken out, and of those not.
LEMMA TakenOutEntries ==
  ASSUME TypeOK, Indexed(lib, key, providers, byKey), NEW place
  PROVE  \A p \in Entries(ProvidersWithout(place)) : p \in Entries(providers) /\ lib[p.reg].place # place
<1> DEFINE K == {i \in 1 .. Len(providers) : lib[providers[i].reg].place # place}
           q == Retain(providers, K)
<1>1. providers \in Seq(Provided) /\ K \in SUBSET (1 .. Len(providers))
  BY DEF Indexed
<1>2. ProvidersWithout(place) = q
  BY DEF ProvidersWithout
<1>3. \A i \in K : i \in 1 .. Len(providers) /\ lib[providers[i].reg].place # place
  OBVIOUS
<1> HIDE DEF K
<1>4. PICK m \in [1 .. Len(q) -> K] : \A i \in 1 .. Len(q) : q[i] = providers[m[i]]
  BY <1>1, RetainIs
<1> HIDE DEF q
<1> QED BY <1>2, <1>3, <1>4 DEF Entries

\* A sequence over a set is one over a wider set.
LEMMA WiderSeq ==
  ASSUME NEW S, NEW T, NEW s \in Seq(S), S \subseteq T
  PROVE  s \in Seq(T)
OBVIOUS

\* The entries of an index.
LEMMA IndexedEntries ==
  ASSUME NEW L, NEW t, NEW ps, NEW index, Indexed(L, t, ps, index)
  PROVE  /\ Len(ps) \in Nat
         /\ \A i \in 1 .. Len(ps) : /\ ps[i] \in Provided /\ ps[i].reg \in Regs
                                    /\ ps[i].id \in ProviderIds
                                    /\ L[ps[i].reg].state = "loaded"
<1>1. ps \in Seq(Provided) /\ Len(ps) \in Nat
  BY DEF Indexed
<1>2. \A i \in 1 .. Len(ps) : ps[i] \in Provided
  BY <1>1
<1>3. \A p \in Provided : p.reg \in Regs /\ p.id \in ProviderIds
  BY DEF Provided
<1>4. \A i \in 1 .. Len(ps) : L[ps[i].reg].state = "loaded"
  BY DEF Indexed
<1> QED BY <1>1, <1>2, <1>3, <1>4

\* The keys of a sequence of entries.
LEMMA KeysAre ==
  ASSUME NEW D, NEW q, NEW n,
         \A k \in D : \E i \in 1 .. n : q[i].key = k,
         \A i \in 1 .. n : q[i].key \in D
  PROVE  D = {q[i].key : i \in 1 .. n}
OBVIOUS

\* Providers under new keys behind those there are.
LEMMA JoinedIndexed ==
  ASSUME NEW L, NEW M, NEW t, NEW ps, NEW index, Indexed(L, t, ps, index),
         \A i \in 1 .. Len(ps) : M[ps[i].reg] = L[ps[i].reg],
         NEW new \in Seq(Provided),
         \A i, j \in 1 .. Len(new) : new[i].key = new[j].key => i = j,
         \A i \in 1 .. Len(new) : /\ new[i].key = Render(t, new[i].id, M[new[i].reg].build)
                                  /\ M[new[i].reg].state = "loaded",
         NEW next, DOMAIN next = DOMAIN index \cup {new[i].key : i \in 1 .. Len(new)},
         \A i \in 1 .. Len(ps) : next[ps[i].key] = i,
         \A i \in 1 .. Len(new) : next[new[i].key] = Len(ps) + i
  PROVE  Indexed(M, t, ps \o new, next)
<1> DEFINE q == ps \o new
           l == Len(ps)
           e == Len(new)
<1>1. ps \in Seq(Provided) /\ l \in Nat /\ e \in Nat
  BY DEF Indexed
<1>2. /\ q \in Seq(Provided) /\ Len(q) = l + e
      /\ \A i \in 1 .. l + e : q[i] = IF i <= l THEN ps[i] ELSE new[i - l]
  BY <1>1, ConcatProperties
<1>3. /\ \A i \in 1 .. l : /\ M[ps[i].reg] = L[ps[i].reg] /\ next[ps[i].key] = i
                           /\ ps[i].key = Render(t, ps[i].id, L[ps[i].reg].build)
                           /\ L[ps[i].reg].state = "loaded"
      /\ \A i \in 1 .. e : /\ next[new[i].key] = l + i
                           /\ new[i].key = Render(t, new[i].id, M[new[i].reg].build)
                           /\ M[new[i].reg].state = "loaded"
  BY DEF Indexed
<1>4. DOMAIN next = {ps[i].key : i \in 1 .. l} \cup {new[i].key : i \in 1 .. e}
  BY DEF Indexed
<1>5. /\ \A i \in 1 .. l : ps[i].key \in DOMAIN next
      /\ \A i \in 1 .. e : new[i].key \in DOMAIN next
  BY <1>4, Zenon
<1> HIDE DEF q, l, e
<1>6. \A i \in 1 .. l + e : \/ i \in 1 .. l /\ q[i] = ps[i]
                            \/ i - l \in 1 .. e /\ q[i] = new[i - l] /\ l + (i - l) = i
  <2> TAKE i \in 1 .. l + e
  <2>1. CASE i <= l
    BY <1>1, <1>2, <2>1
  <2>2. CASE ~(i <= l)
    BY <1>1, <1>2, <2>2
  <2> QED BY <2>1, <2>2
<1>7. \A i \in 1 .. e : l + i \in 1 .. l + e /\ q[l + i] = new[i]
  <2> TAKE i \in 1 .. e
  <2> QED BY <1>2, <1>1
<1>8. ASSUME NEW k \in DOMAIN next PROVE \E i \in 1 .. l + e : q[i].key = k
  <2>1. CASE k \in {ps[i].key : i \in 1 .. l}
    BY <1>1, <1>2, <2>1
  <2>2. CASE k \in {new[i].key : i \in 1 .. e}
    <3>1. PICK i \in 1 .. e : k = new[i].key
      BY <2>2
    <3> QED BY <1>7, <3>1
  <2> QED BY <1>4, <2>1, <2>2
<1>9. ASSUME NEW i \in 1 .. l + e
      PROVE  /\ q[i].key \in DOMAIN next
             /\ next[q[i].key] = i
             /\ q[i].key = Render(t, q[i].id, M[q[i].reg].build)
             /\ M[q[i].reg].state = "loaded"
  <2>1. CASE i \in 1 .. l /\ q[i] = ps[i]
    <3>1. ps[i].key \in DOMAIN next /\ next[ps[i].key] = i
      BY <1>3, <1>5, <2>1
    <3>2. ps[i].key = Render(t, ps[i].id, M[ps[i].reg].build) /\ M[ps[i].reg].state = "loaded"
      BY <1>3, <1>5, <2>1
    <3> QED BY <2>1, <3>1, <3>2, Zenon
  <2>2. CASE i - l \in 1 .. e /\ q[i] = new[i - l] /\ l + (i - l) = i
    <3>1. /\ new[i - l].key \in DOMAIN next /\ next[new[i - l].key] = l + (i - l)
          /\ new[i - l].key = Render(t, new[i - l].id, M[new[i - l].reg].build)
          /\ M[new[i - l].reg].state = "loaded"
      BY <1>3, <1>5, <2>2
    <3> QED BY <2>2, <3>1, Zenon
  <2> QED BY <1>6, <2>1, <2>2
<1>10. DOMAIN next = {q[i].key : i \in 1 .. l + e}
  <2>1. \A k \in DOMAIN next : \E i \in 1 .. l + e : q[i].key = k
    BY <1>8, Zenon
  <2>2. \A i \in 1 .. l + e : q[i].key \in DOMAIN next
    BY <1>9, Zenon
  <2> DEFINE D == DOMAIN next
             n == l + e
  <2>3. (\A k \in D : \E i \in 1 .. n : q[i].key = k) /\ (\A i \in 1 .. n : q[i].key \in D)
    BY <2>1, <2>2
  <2> HIDE DEF D, n
  <2>4. D = {q[i].key : i \in 1 .. n}
    BY <2>3, KeysAre
  <2> QED BY <2>4 DEF D, n
<1>11. Indexed(M, t, q, next)
  BY <1>2, <1>9, <1>10 DEF Indexed
<1> QED BY <1>11 DEF q

\* The providers absorb_file takes: each once, under a key nobody holds.
LEMMA TakenFromIs ==
  ASSUME NEW ps, NEW index, key \in KeyTemplates \cup {"id"},
         NEW b \in Builds, ~Clashes(ps, index, b), NEW n \in Regs
  PROVE  LET new == TakenFrom(n, ps, index, b)
         IN  /\ new \in Seq(Provided)
             /\ \A i, j \in 1 .. Len(new) : new[i].key = new[j].key => i = j
             /\ \A i \in 1 .. Len(new) : /\ new[i].reg = n
                                         /\ new[i].key = Render(key, new[i].id, b)
                                         /\ new[i].key \notin DOMAIN index
<1> DEFINE V == {u \in Offers[b] : Holders(ps, index, Render(key, u, b)) = {}}
           entry(v) == [reg |-> n, id |-> v, key |-> Render(key, v, b)]
           f == [v \in V |-> entry(v)]
           T == {entry(v) : v \in V}
           new == TakenFrom(n, ps, index, b)
<1>1. \A v \in V : v \in Offers[b] /\ v \in ProviderIds /\ Render(key, v, b) \notin DOMAIN index
  BY DEF Holders, ProviderIds
<1>2. IsFiniteSet(V)
  BY RegistryAssumption, FS_Subset
<1>3. new = SetToSeq(T)
  BY DEF TakenFrom
<1> HIDE DEF V, new
<1>4. f \in Surjection(V, T)
  BY DEF Surjection
<1>5. \A t \in T : /\ t.reg = n /\ t \in Provided /\ t.key = Render(key, t.id, b)
                   /\ t.key \notin DOMAIN index
  BY <1>1 DEF Provided, ProviderKeys
<1>6. \A s, t \in T : s.key = t.key => s = t
  BY <1>1 DEF Clashes
<1> HIDE DEF f, T, entry
<1>7. IsFiniteSet(T)
  BY <1>2, <1>4, FS_Surjection
<1>8. /\ new \in Seq(T)
      /\ \A i, j \in 1 .. Len(new) : new[i] = new[j] => i = j
  BY <1>3, <1>7, SetToSeqIs
<1>9. \A i \in 1 .. Len(new) : new[i] \in T
  BY <1>8
<1>10. new \in Seq(Provided)
  BY <1>5, <1>8, WiderSeq
<1>11. \A i, j \in 1 .. Len(new) : new[i].key = new[j].key => i = j
  BY <1>6, <1>8, <1>9
<1>12. \A i \in 1 .. Len(new) : /\ new[i].reg = n
                                /\ new[i].key = Render(key, new[i].id, b)
                                /\ new[i].key \notin DOMAIN index
  BY <1>5, <1>9
<1> QED BY <1>10, <1>11, <1>12 DEF new

\* The index absorb_file goes on with.
Joined(ps, index, new) ==
  [k \in DOMAIN index \cup {new[i].key : i \in 1 .. Len(new)} |->
     IF k \in DOMAIN index THEN index[k]
     ELSE Len(ps) + CHOOSE i \in 1 .. Len(new) : new[i].key = k]

\* absorb_file adds the providers whose keys nobody holds, found by their keys.
LEMMA AbsorbedIndexed ==
  ASSUME NEW L, NEW ps, NEW index, Indexed(L, key, ps, index), key \in KeyTemplates \cup {"id"},
         NEW b \in Builds, ~Clashes(ps, index, b),
         NEW n \in Regs, L[n].state # "loaded",
         NEW M, M[n].state = "loaded", M[n].build = b, \A r \in Regs \ {n} : M[r] = L[r]
  PROVE  Indexed(M, key, ps \o TakenFrom(n, ps, index, b),
                 Joined(ps, index, TakenFrom(n, ps, index, b)))
<1> DEFINE new == TakenFrom(n, ps, index, b)
           next == Joined(ps, index, new)
<1>1. /\ new \in Seq(Provided)
      /\ \A i, j \in 1 .. Len(new) : new[i].key = new[j].key => i = j
      /\ \A i \in 1 .. Len(new) : /\ new[i].reg = n
                                  /\ new[i].key = Render(key, new[i].id, b)
                                  /\ new[i].key \notin DOMAIN index
  BY TakenFromIs
<1> HIDE DEF new
<1>2. \A i \in 1 .. Len(ps) : M[ps[i].reg] = L[ps[i].reg]
  BY IndexedEntries
<1>3. DOMAIN next = DOMAIN index \cup {new[i].key : i \in 1 .. Len(new)}
  BY DEF Joined
<1>4. \A i \in 1 .. Len(ps) : next[ps[i].key] = i
  BY DEF Joined, Indexed
<1>5. \A i \in 1 .. Len(new) : next[new[i].key] = Len(ps) + i
  <2> TAKE i \in 1 .. Len(new)
  <2> QED BY <1>1 DEF Joined
<1>6. \A i \in 1 .. Len(new) : /\ new[i].key = Render(key, new[i].id, M[new[i].reg].build)
                               /\ M[new[i].reg].state = "loaded"
  BY <1>1
<1> HIDE DEF next
<1>7. Indexed(M, key, ps \o new, next)
  BY <1>1, <1>2, <1>3, <1>4, <1>5, <1>6, JoinedIndexed
<1> QED BY <1>7 DEF new, next

\* The index built anew, over providers whose keys tell them apart.
LEMMA IndexedAnew ==
  ASSUME NEW L, NEW t, NEW ps \in Seq(Provided),
         \A i, j \in 1 .. Len(ps) : ps[i].key = ps[j].key => i = j,
         \A i \in 1 .. Len(ps) : /\ ps[i].key = Render(t, ps[i].id, L[ps[i].reg].build)
                                 /\ L[ps[i].reg].state = "loaded"
  PROVE  Indexed(L, t, ps, Index(ps))
<1>1. /\ DOMAIN Index(ps) = {ps[i].key : i \in 1 .. Len(ps)}
      /\ \A i \in 1 .. Len(ps) : Index(ps)[ps[i].key] = i
  <2>1. Len(ps) \in Nat
    OBVIOUS
  <2> QED BY <2>1, IndexIs, Zenon
<1> QED BY <1>1 DEF Indexed

\* Another template renames every provider, refused where two would share a key.
LEMMA RekeyedIndexed ==
  ASSUME Indexed(lib, key, providers, byKey), TypeOK, NEW t \in KeyTemplates,
         NEW q, DOMAIN q = 1 .. Len(providers), q = [i \in DOMAIN q |-> q[i]],
         \A i \in 1 .. Len(providers) :
           q[i] = [reg |-> providers[i].reg, id |-> providers[i].id,
                   key |-> Render(t, providers[i].id, lib[providers[i].reg].build)],
         \A i, j \in 1 .. Len(q) : q[i].key = q[j].key => i = j
  PROVE  Indexed(lib, t, q, Index(q))
<1> DEFINE n == Len(providers)
<1>1. /\ n \in Nat
      /\ \A i \in 1 .. n : /\ providers[i].reg \in Regs /\ providers[i].id \in ProviderIds
                           /\ lib[providers[i].reg].state = "loaded"
  BY IndexedEntries
<1>2. \A i \in 1 .. n : lib[providers[i].reg].build \in Builds
  BY <1>1, LibraryFields DEF TypeOK
<1>3. \A i \in 1 .. n : /\ q[i].key = Render(t, q[i].id, lib[q[i].reg].build)
                        /\ lib[q[i].reg].state = "loaded"
  BY <1>1
<1>4. q \in Seq(Provided) /\ Len(q) = n
  <2>1. q \in [1 .. n -> Provided]
    BY <1>1, <1>2 DEF Provided, ProviderKeys
  <2> HIDE DEF n
  <2> QED BY <1>1, <2>1
<1> QED BY <1>3, <1>4, IndexedAnew

-----------------------------------------------------------------------------
(* The operations.                                                         *)

\* An index stays one while the loaded libraries do.
LEMMA IndexedStill ==
  ASSUME NEW L, NEW M, NEW t, NEW ps, NEW index, Indexed(L, t, ps, index),
         \A r \in Regs : L[r].state = "loaded" => M[r].state = "loaded" /\ M[r].build = L[r].build
  PROVE  Indexed(M, t, ps, index)
<1>1. \A i \in 1 .. Len(ps) : M[ps[i].reg].state = "loaded" /\ M[ps[i].reg].build = L[ps[i].reg].build
  BY IndexedEntries
<1> QED BY <1>1 DEF Indexed

\* Fewer loaded libraries are as far apart.
LEMMA ApartStill ==
  ASSUME NEW L, NEW M, Apart(L),
         \A r \in Regs : M[r].state = "loaded" =>
           L[r].state = "loaded" /\ M[r].key = L[r].key /\ M[r].place = L[r].place
  PROVE  Apart(M)
BY DEF Apart

\* How many providers of a library the registry holds is a number.
LEMMA ViewsCounted ==
  ASSUME TypeOK, NEW r
  PROVE  Cardinality(Views(r)) \in Nat
<1>1. IsFiniteSet(Views(r))
  BY FS_Interval, FS_Subset DEF Views, TypeOK
<1> QED BY <1>1, FS_CardinalityType

\* What collect closes has left and is held by nobody.
LEMMA CollectableIs ==
  ASSUME RInv, NEW C \in Collectable
  PROVE  C \in SUBSET Regs /\ \A r \in C : lib[r].state = "leaving" /\ holds[r] = 0
<1>1. C \in SUBSET Regs /\ \A r \in C : lib[r].state = "leaving" /\ StrongCount(r) <= 1
  BY DEF Collectable, Closable
<1>2. ASSUME NEW r \in C PROVE holds[r] = 0
  <2>1. holds[r] \in Nat
    BY <1>1, RegistryAssumption DEF RInv, TypeOK
  <2>2. Cardinality(Views(r)) \in Nat
    BY ViewsCounted DEF RInv
  <2> DEFINE v == Cardinality(Views(r))
             o == One(\E p \in published : p.reg = r)
  <2>3. v \in Nat /\ o \in Nat /\ 1 + v + o + holds[r] <= 1
    BY <1>1, <2>2 DEF StrongCount, One
  <2> HIDE DEF v, o
  <2> QED BY <2>1, <2>3
<1> QED BY <1>1, <1>2

\* Closing libraries that nobody holds, and that are not the loaded ones' to give
\* up, keeps everything about the libraries.
LEMMA ClosingKeeps ==
  ASSUME RInv, NEW C \in SUBSET Regs,
         \A r \in C : lib[r].state \in {"loaded", "leaving"} /\ holds[r] = 0
  PROVE  /\ LibClosing(C) \in [Regs -> Libraries]
         /\ Counted(LibClosing(C), OpensClosing(C), UnclosedClosing(C))
         /\ OpensClosing(C) \in [Images -> 0 .. MaxOpens]
         /\ UnclosedClosing(C) \in [Candidates -> Nat]
         /\ \A i \in Images : OpensClosing(C)[i] <= opens[i]
         /\ HeldAreInUse(LibClosing(C), holds)
         /\ Apart(LibClosing(C))
         /\ \A r \in Regs \ C : LibClosing(C)[r] = lib[r]
         /\ \A r \in C : /\ LibClosing(C)[r].state = "closed"
                         /\ LibClosing(C)[r].place = lib[r].place
                         /\ LibClosing(C)[r].build = lib[r].build
<1> DEFINE M == LibClosing(C)
<1>1. /\ M \in [Regs -> Libraries]
      /\ \A r \in Regs \ C : M[r] = lib[r]
      /\ \A r \in C : /\ M[r].state = "closed" /\ M[r].place = lib[r].place /\ M[r].build = lib[r].build
      /\ Counted(M, OpensClosing(C), UnclosedClosing(C))
      /\ OpensClosing(C) \in [Images -> 0 .. MaxOpens]
      /\ UnclosedClosing(C) \in [Candidates -> Nat]
      /\ \A i \in Images : OpensClosing(C)[i] <= opens[i]
  BY ClosingCounted DEF RInv
<1> HIDE DEF M
<1>2. HeldAreInUse(M, holds)
  BY <1>1 DEF RInv, HeldAreInUse
<1>3. Apart(M)
  BY <1>1, ApartStill DEF RInv
<1> QED BY <1>1, <1>2, <1>3 DEF M

\* collect leaves the loaded libraries and their index as they are.
LEMMA CollectingKeeps ==
  ASSUME RInv, NEW C \in Collectable
  PROVE  /\ LibClosing(C) \in [Regs -> Libraries]
         /\ Counted(LibClosing(C), OpensClosing(C), UnclosedClosing(C))
         /\ OpensClosing(C) \in [Images -> 0 .. MaxOpens]
         /\ UnclosedClosing(C) \in [Candidates -> Nat]
         /\ \A i \in Images : OpensClosing(C)[i] <= opens[i]
         /\ HeldAreInUse(LibClosing(C), holds)
         /\ Apart(LibClosing(C))
         /\ Indexed(LibClosing(C), key, providers, byKey)
         /\ \A r \in Regs : /\ lib[r].state # "leaving" => LibClosing(C)[r] = lib[r]
                            /\ LibClosing(C)[r].place = lib[r].place
                            /\ LibClosing(C)[r].state = "loaded" <=> lib[r].state = "loaded"
<1> DEFINE M == LibClosing(C)
<1>1. C \in SUBSET Regs /\ \A r \in C : lib[r].state = "leaving" /\ holds[r] = 0
  BY CollectableIs
<1>2. /\ M \in [Regs -> Libraries]
      /\ \A r \in Regs \ C : M[r] = lib[r]
      /\ \A r \in C : M[r].state = "closed" /\ M[r].place = lib[r].place
      /\ Counted(M, OpensClosing(C), UnclosedClosing(C))
      /\ OpensClosing(C) \in [Images -> 0 .. MaxOpens]
      /\ UnclosedClosing(C) \in [Candidates -> Nat]
      /\ \A i \in Images : OpensClosing(C)[i] <= opens[i]
      /\ HeldAreInUse(M, holds)
      /\ Apart(M)
  BY <1>1, ClosingKeeps
<1> HIDE DEF M
<1>3. \A r \in Regs : /\ lib[r].state # "leaving" => M[r] = lib[r]
                      /\ M[r].place = lib[r].place
                      /\ M[r].state = "loaded" <=> lib[r].state = "loaded"
  BY <1>1, <1>2
<1>4. Indexed(M, key, providers, byKey)
  BY <1>3, IndexedStill DEF RInv
<1> QED BY <1>2, <1>3, <1>4 DEF M

\* A library recorded beside those there are.
LEMMA AbsorbedKeeps ==
  ASSUME TypeOK, NEW L \in [Regs -> Libraries], NEW ps, NEW index, Indexed(L, key, ps, index),
         HeldAreInUse(L, holds), Apart(L),
         NEW place \in Places, \A r \in Regs : L[r].place = place => L[r].state # "loaded",
         NEW b \in Builds, Absorbs(L, ps, index, b), L[Fresh] = NoLib, Fresh \in Regs,
         Absorbed(L, ps, index, place, b)
  PROVE  /\ lib' \in [Regs -> Libraries]
         /\ lib'[Fresh].place = place /\ lib'[Fresh].state = "loaded" /\ lib'[Fresh].build = b
         /\ \A r \in Regs \ {Fresh} : lib'[r] = L[r]
         /\ HeldAreInUse(lib', holds)
         /\ Apart(lib')
         /\ Indexed(lib', key, providers', byKey')
         /\ published' = Entries(providers')
<1> DEFINE n == Fresh
           M == lib'
           rec == [place |-> place, build |-> b, state |-> "loaded", key |-> RenderLibrary(libraryKey, b)]
<1>1. M = [L EXCEPT ![n] = rec] /\ n \in Regs /\ L[n] = NoLib
  BY DEF Absorbed
<1>2. rec \in Libraries
  BY DEF TypeOK, Libraries, LibraryKeys, States
<1>3. /\ M \in [Regs -> Libraries] /\ M[n] = rec /\ \A r \in Regs \ {n} : M[r] = L[r]
  BY <1>1, <1>2
<1>4. M[n].place = place /\ M[n].state = "loaded" /\ M[n].build = b
      /\ M[n].key = RenderLibrary(libraryKey, b)
  BY <1>3
<1>5. /\ providers' = ps \o TakenFrom(n, ps, index, b)
      /\ byKey' = Joined(ps, index, TakenFrom(n, ps, index, b))
      /\ published' = Entries(providers')
  BY DEF Absorbed, Joined
<1>6. /\ \A r \in Regs : L[r].state = "loaded" => L[r].key # RenderLibrary(libraryKey, b)
      /\ ~Clashes(ps, index, b)
  BY DEF Absorbs, KeyTaken
<1> HIDE DEF M, n, rec
<1>7. HeldAreInUse(M, holds)
  BY <1>1, <1>3, <1>4 DEF HeldAreInUse, NoLib, InUse
<1>8. Apart(M)
  <2>1. ASSUME NEW r \in Regs \ {n}, M[r].state = "loaded"
        PROVE  M[r].key # M[n].key /\ M[r].place # M[n].place
    BY <1>3, <1>4, <1>6, <2>1
  <2> QED BY <1>3, <2>1 DEF Apart
<1>9. L[n].state # "loaded" /\ key \in KeyTemplates \cup {"id"}
  BY <1>1 DEF NoLib, TypeOK
<1>10. Indexed(M, key, ps \o TakenFrom(n, ps, index, b), Joined(ps, index, TakenFrom(n, ps, index, b)))
  BY <1>1, <1>3, <1>4, <1>6, <1>9, AbsorbedIndexed
<1> QED BY <1>3, <1>4, <1>5, <1>7, <1>8, <1>10 DEF M, n

\* Retiring a library takes it from the loaded ones, and nothing of it is found.
LEMMA RetiringKeeps ==
  ASSUME RInv, NEW C \in Collectable, NEW r \in Regs, lib[r].state = "loaded"
  PROVE  LET M == Retiring(LibClosing(C), r)
             ps == ProvidersWithout(lib[r].place)
         IN  /\ M \in [Regs -> Libraries]
             /\ Counted(M, OpensClosing(C), UnclosedClosing(C))
             /\ HeldAreInUse(M, holds)
             /\ Apart(M)
             /\ Indexed(M, key, ps, Index(ps))
             /\ \A s \in Regs : /\ M[s].place = lib[s].place
                                /\ M[s].state = "loaded" => s # r /\ M[s] = lib[s]
                                /\ lib[s] = NoLib => M[s] = NoLib
<1> DEFINE N == LibClosing(C)
           to == IF Closes(lib[r].place) THEN "leaving" ELSE "kept"
           M == Retiring(N, r)
           ps == ProvidersWithout(lib[r].place)
<1>1. /\ N \in [Regs -> Libraries]
      /\ Counted(N, OpensClosing(C), UnclosedClosing(C))
      /\ HeldAreInUse(N, holds)
      /\ Apart(N)
      /\ \A s \in Regs : /\ lib[s].state # "leaving" => N[s] = lib[s]
                         /\ N[s].place = lib[s].place
                         /\ N[s].state = "loaded" <=> lib[s].state = "loaded"
  BY CollectingKeeps
<1>2. M = [N EXCEPT ![r].state = to] /\ to \in {"leaving", "kept"}
  BY DEF Retiring
<1>3. N[r] = lib[r] /\ N[r] \in Libraries /\ N[r].state = "loaded"
  BY <1>1
<1> HIDE DEF N, to, M
<1>4. /\ M \in [Regs -> Libraries] /\ \A s \in Regs \ {r} : M[s] = N[s]
      /\ M[r].state = to /\ M[r].place = N[r].place
  BY <1>1, <1>2, <1>3, LibraryMoves DEF States
<1>5. Counted(M, OpensClosing(C), UnclosedClosing(C))
  <2>1. \A s \in Regs : /\ M[s].place = N[s].place
                        /\ M[s].state \in InUse <=> N[s].state \in InUse
                        /\ M[s].state = "closed" <=> N[s].state = "closed"
    BY <1>2, <1>3, <1>4 DEF InUse
  <2> QED BY <1>1, <2>1, CountedAlike
<1>6. HeldAreInUse(M, holds)
  BY <1>1, <1>2, <1>4 DEF HeldAreInUse, InUse
<1>7. \A s \in Regs : /\ M[s].place = lib[s].place
                      /\ M[s].state = "loaded" => s # r /\ M[s] = lib[s]
                      /\ lib[s] = NoLib => M[s] = NoLib
  BY <1>1, <1>2, <1>3, <1>4 DEF NoLib
<1>8. Apart(M)
  BY <1>7, ApartStill DEF RInv
<1>9. Indexed(M, key, ps, Index(ps))
  BY <1>1, <1>4, TakenOutIndexed DEF RInv
<1> QED BY <1>4, <1>5, <1>6, <1>7, <1>8, <1>9 DEF M, N

\* The invariant of the next state, from its parts.
LEMMA Assembled ==
  ASSUME alive' \in BOOLEAN, lib' \in [Regs -> Libraries],
         key' \in KeyTemplates \cup {"id"}, libraryKey' \in LibraryKeyTemplates \cup {"id"},
         holds' \in [Regs -> 0 .. MaxHolds], opens' \in [Images -> 0 .. MaxOpens],
         unclosed' \in [Candidates -> Nat],
         listed' \in Listings, serving' \in Listings, tried' \in Listings, op' \in Operations,
         Counted(lib', opens', unclosed'), HeldAreInUse(lib', holds'),
         Indexed(lib', key', providers', byKey'), Apart(lib'),
         SnapshotAgrees', UnloadIsQuiet', ServedAreKnown'
  PROVE  RInv'
<1>1. TypeOK'
  BY DEF TypeOK, Indexed, Provided
<1> QED BY <1>1 DEF RInv

\* The types, for the parts a step leaves alone.
LEMMA Types ==
  ASSUME RInv
  PROVE  /\ alive \in BOOLEAN /\ lib \in [Regs -> Libraries]
         /\ key \in KeyTemplates \cup {"id"} /\ libraryKey \in LibraryKeyTemplates \cup {"id"}
         /\ holds \in [Regs -> 0 .. MaxHolds] /\ opens \in [Images -> 0 .. MaxOpens]
         /\ unclosed \in [Candidates -> Nat]
         /\ listed \in Listings /\ serving \in Listings /\ tried \in Listings /\ op \in Operations
BY DEF RInv, TypeOK

\* No operation is under way.
LEMMA IdleIs ==
  ASSUME op = Idle
  PROVE  op.kind = "none" /\ op \in Operations
BY DEF Idle, Operations

\* Retire keeps the inductive invariant.
LEMMA RetireKeeps ==
  ASSUME RInv, NEW r \in Regs, Retire(r)
  PROVE  RInv'
<1>1. PICK C \in Collectable : /\ lib' = Retiring(LibClosing(C), r)
                               /\ opens' = OpensClosing(C)
                               /\ unclosed' = UnclosedClosing(C)
  BY DEF Retire
<1> DEFINE ps == ProvidersWithout(lib[r].place)
<1>2. providers' = ps /\ byKey' = Index(ps) /\ published' = Entries(ps)
  BY DEF Retire, TakeLibrary
<1>3. /\ UNCHANGED <<alive, key, libraryKey, holds, listed, serving, tried, op>> /\ op = Idle
  BY DEF Retire, naming, source
<1>4. /\ lib' \in [Regs -> Libraries]
      /\ Counted(lib', opens', unclosed') /\ HeldAreInUse(lib', holds') /\ Apart(lib')
      /\ Indexed(lib', key', providers', byKey')
      /\ \A s \in Regs : lib'[s].place = lib[s].place /\ (lib'[s].state = "loaded" => lib'[s] = lib[s])
  BY <1>1, <1>2, <1>3, RetiringKeeps DEF Retire, Registered
<1>5. OpensClosing(C) \in [Images -> 0 .. MaxOpens] /\ UnclosedClosing(C) \in [Candidates -> Nat]
  BY CollectingKeeps
<1> HIDE DEF ps
<1>6. SnapshotAgrees' /\ UnloadIsQuiet'
  BY <1>2, <1>3, IdleIs DEF SnapshotAgrees, UnloadIsQuiet
<1>7. ServedAreKnown'
  BY <1>3, <1>4, IdleIs DEF RInv, ServedAreKnown
<1> QED BY <1>1, <1>3, <1>4, <1>5, <1>6, <1>7, Types, Assembled

\* Collect keeps the inductive invariant.
LEMMA CollectKeeps ==
  ASSUME RInv, Collect
  PROVE  RInv'
<1>1. PICK C \in Collectable : /\ lib' = LibClosing(C)
                               /\ opens' = OpensClosing(C)
                               /\ unclosed' = UnclosedClosing(C)
  BY DEF Collect
<1>2. /\ UNCHANGED <<alive, key, libraryKey, holds, listed, serving, tried, op, providers, byKey, published>>
      /\ op = Idle
  BY DEF Collect, naming, source
<1>3. /\ lib' \in [Regs -> Libraries]
      /\ Counted(lib', opens', unclosed') /\ HeldAreInUse(lib', holds') /\ Apart(lib')
      /\ Indexed(lib', key', providers', byKey')
      /\ opens' \in [Images -> 0 .. MaxOpens] /\ unclosed' \in [Candidates -> Nat]
      /\ \A s \in Regs : lib'[s].place = lib[s].place /\ (lib'[s].state = "loaded" => lib[s].state = "loaded")
  BY <1>1, <1>2, CollectingKeeps
<1>4. SnapshotAgrees' /\ UnloadIsQuiet'
  BY <1>2, IdleIs DEF RInv, SnapshotAgrees, UnloadIsQuiet, Entries
<1>5. ServedAreKnown'
  BY <1>2, <1>3, IdleIs DEF RInv, ServedAreKnown
<1> QED BY <1>2, <1>3, <1>4, <1>5, Types, Assembled

\* UnloadBegin keeps the inductive invariant.
LEMMA UnloadBeginKeeps ==
  ASSUME RInv, NEW r \in Regs, NEW insist \in BOOLEAN, UnloadBegin(r, insist)
  PROVE  RInv'
<1>1. PICK C \in Collectable : /\ lib' = LibClosing(C)
                               /\ opens' = OpensClosing(C)
                               /\ unclosed' = UnclosedClosing(C)
  BY DEF UnloadBegin
<1>2. /\ UNCHANGED <<alive, key, libraryKey, holds, listed, serving, tried, providers, byKey>>
      /\ op = Idle /\ lib[r].state = "loaded" /\ (insist => holds[r] = 0)
      /\ op' = [kind |-> "unload", reg |-> r, insist |-> insist, step |-> "count"]
      /\ published' = EntriesWithout(r)
  BY DEF UnloadBegin, naming, source, Registered
<1>3. /\ lib' \in [Regs -> Libraries]
      /\ Counted(lib', opens', unclosed') /\ HeldAreInUse(lib', holds') /\ Apart(lib')
      /\ Indexed(lib', key', providers', byKey')
      /\ opens' \in [Images -> 0 .. MaxOpens] /\ unclosed' \in [Candidates -> Nat]
      /\ \A s \in Regs : lib'[s].place = lib[s].place /\ (lib'[s].state = "loaded" <=> lib[s].state = "loaded")
  BY <1>1, <1>2, CollectingKeeps
<1>4. op' \in Operations /\ op'.kind = "unload" /\ op'.reg = r /\ op'.step = "count" /\ op'.insist = insist
  BY <1>2 DEF Operations
<1>5. SnapshotAgrees'
  BY <1>2, <1>4 DEF SnapshotAgrees, EntriesWithout, Entries
<1>6. UnloadIsQuiet'
  BY <1>2, <1>3, <1>4 DEF UnloadIsQuiet
<1>7. ServedAreKnown'
  BY <1>2, <1>3, <1>4 DEF RInv, ServedAreKnown
<1> QED BY <1>2, <1>3, <1>4, <1>5, <1>6, <1>7, Types, Assembled

\* The inductive invariant holds at the start.
LEMMA InitRInv ==
  ASSUME Init
  PROVE  RInv
<1>1. /\ \A r \in Regs : lib[r] = NoLib /\ lib[r].state = "unused" /\ lib[r].place = None
      /\ lib \in [Regs -> Libraries]
  BY DEF Init, Libraries, NoLib
<1>2. providers = <<>> /\ Len(providers) = 0 /\ providers \in Seq(Provided) /\ DOMAIN byKey = {}
  BY DEF Init
<1>3. op.kind = "none" /\ op \in Operations
  BY IdleIs DEF Init
<1>4. TypeOK
  <2>1. providers \in Seq([reg : Regs, id : ProviderIds, key : ProviderKeys])
    BY <1>2 DEF Provided
  <2>2. /\ holds \in [Regs -> 0 .. MaxHolds] /\ opens \in [Images -> 0 .. MaxOpens]
        /\ unclosed \in [Candidates -> Nat]
    BY RegistryAssumption DEF Init
  <2>3. listed \in Listings /\ serving \in Listings /\ tried \in Listings
    BY DEF Init, Listings
  <2> QED BY <1>1, <1>3, <2>1, <2>2, <2>3 DEF Init, TypeOK
<1>5. Counted(lib, opens, unclosed)
  <2>1. \A i \in Images : UsersOf(lib, i) = {} /\ opens[i] = 0
    BY <1>1 DEF UsersOf, InUse, Init
  <2>2. \A c \in Candidates : OpenedAt(lib, c) = {} /\ unclosed[c] = 0
    BY <1>1, RegistryAssumption DEF OpenedAt, Init, Places
  <2>3. Cardinality({}) = 0
    BY FS_EmptySet
  <2> QED BY <2>1, <2>2, <2>3 DEF Counted
<1>6. HeldAreInUse(lib, holds)
  BY DEF HeldAreInUse, Init
<1>7. Indexed(lib, key, providers, byKey)
  BY <1>2 DEF Indexed
<1>8. Apart(lib)
  BY <1>1 DEF Apart
<1>9. SnapshotAgrees /\ UnloadIsQuiet /\ ServedAreKnown
  BY <1>1, <1>2, <1>3 DEF SnapshotAgrees, UnloadIsQuiet, ServedAreKnown, Entries, Init
<1> QED BY <1>4, <1>5, <1>6, <1>7, <1>8, <1>9 DEF RInv

\* A step that leaves the libraries and what is found of them alone keeps what is
\* said of them.
LEMMA LeftAlone ==
  ASSUME RInv, UNCHANGED <<alive, lib, providers, byKey, naming, opens, unclosed>>
  PROVE  /\ alive' \in BOOLEAN /\ lib' \in [Regs -> Libraries]
         /\ key' \in KeyTemplates \cup {"id"} /\ libraryKey' \in LibraryKeyTemplates \cup {"id"}
         /\ opens' \in [Images -> 0 .. MaxOpens] /\ unclosed' \in [Candidates -> Nat]
         /\ Counted(lib', opens', unclosed') /\ Apart(lib')
         /\ Indexed(lib', key', providers', byKey')
         /\ Entries(providers)' = Entries(providers)
BY DEF RInv, TypeOK, naming, Entries

\* What unload counts as others' is the handles: nothing of the library is
\* published by then.
LEMMA OthersAreHandles ==
  ASSUME RInv, UnloadAt("count")
  PROVE  /\ op.reg \in Regs /\ op.insist \in BOOLEAN
         /\ HoldsBesidesOwn(op.reg) = holds[op.reg] /\ holds[op.reg] \in Nat
<1> DEFINE r == op.reg
           v == Cardinality(Views(r))
           o == One(\E p \in published : p.reg = r)
           s == StrongCount(r)
<1>1. op.kind = "unload" /\ op \in Operations
  BY DEF UnloadAt, RInv, TypeOK
<1>2. r \in Regs /\ op.insist \in BOOLEAN
  BY <1>1 DEF Operations, Idle
<1>3. lib[r].state = "loaded" /\ holds[r] \in Nat
  BY <1>1, <1>2, RegistryAssumption DEF RInv, TypeOK, UnloadIsQuiet
<1>4. o = 0 /\ v \in Nat /\ One(lib[r].state \in {"loaded", "leaving"}) = 1
  BY <1>3, <1>1, ViewsCounted DEF RInv, One, SnapshotAgrees, EntriesWithout
<1>5. s = 1 + v + o + holds[r]
  BY <1>4 DEF StrongCount
<1>6. HoldsBesidesOwn(r) = IF s < 1 + v THEN 0 ELSE s - (1 + v)
  BY DEF HoldsBesidesOwn
<1> HIDE DEF r, v, o, s
<1>7. HoldsBesidesOwn(r) = holds[r]
  BY <1>3, <1>4, <1>5, <1>6
<1> QED BY <1>2, <1>3, <1>7 DEF r

\* Counting the holds keeps the inductive invariant.
LEMMA UnloadCountedKeeps ==
  ASSUME RInv, UnloadCounted
  PROVE  RInv'
<1>1. UnloadAt("count") /\ (HoldsBesidesOwn(op.reg) = 0 \/ op.insist)
  BY DEF UnloadCounted
<1>2. /\ UNCHANGED <<alive, lib, providers, byKey, naming, published, holds, opens, unclosed,
                     listed, serving, tried>>
      /\ op' = [op EXCEPT !.step = "ask"]
  BY DEF UnloadCounted, source
<1>3. /\ op' \in Operations /\ op'.kind = "unload" /\ op'.reg = op.reg
      /\ op'.step = "ask" /\ op'.insist = op.insist
  BY <1>2, <1>1, Types DEF Operations, UnloadAt, Idle
<1>4. op.kind = "unload" /\ lib[op.reg].state = "loaded" /\ (op.insist => holds[op.reg] = 0)
  BY <1>1 DEF RInv, UnloadIsQuiet, UnloadAt
<1>5. SnapshotAgrees'
  BY <1>2, <1>3, <1>4 DEF RInv, SnapshotAgrees, EntriesWithout, Entries
<1>6. UnloadIsQuiet'
  BY <1>2, <1>3, <1>4, <1>1, OthersAreHandles DEF UnloadIsQuiet
<1>7. ServedAreKnown'
  BY <1>2, <1>3 DEF RInv, ServedAreKnown
<1>8. HeldAreInUse(lib', holds')
  BY <1>2 DEF RInv
<1> QED BY <1>2, <1>3, <1>5, <1>6, <1>7, <1>8, Types, LeftAlone, Assembled

\* A refused unload keeps the inductive invariant.
LEMMA UnloadRefusedKeeps ==
  ASSUME RInv, UnloadRefused
  PROVE  RInv'
<1>1. /\ UNCHANGED <<alive, lib, providers, byKey, naming, holds, opens, unclosed, listed, serving, tried>>
      /\ op' = Idle /\ published' = Entries(providers)
  BY DEF UnloadRefused, source
<1>2. op' \in Operations /\ op'.kind = "none"
  BY <1>1 DEF Operations, Idle
<1>3. SnapshotAgrees' /\ UnloadIsQuiet' /\ ServedAreKnown'
  BY <1>1, <1>2 DEF RInv, SnapshotAgrees, UnloadIsQuiet, ServedAreKnown, Entries
<1>4. HeldAreInUse(lib', holds')
  BY <1>1 DEF RInv
<1> QED BY <1>1, <1>2, <1>3, <1>4, Types, LeftAlone, Assembled

\* Taking out a library that agreed to leave keeps the inductive invariant.
LEMMA UnloadAgreedKeeps ==
  ASSUME RInv, UnloadAgreed
  PROVE  RInv'
<1> DEFINE r == op.reg
           C == {r}
           ps == ProvidersWithout(lib[r].place)
<1>1. r \in Regs /\ lib[r].state = "loaded" /\ holds[r] = 0
  BY DEF RInv, UnloadIsQuiet, Operations, Idle, UnloadAgreed, UnloadAt, TypeOK
<1>2. /\ lib' = LibClosing(C) /\ opens' = OpensClosing(C) /\ unclosed' = UnclosedClosing(C)
      /\ providers' = ps /\ byKey' = Index(ps) /\ published' = Entries(ps)
      /\ UNCHANGED <<alive, key, libraryKey, holds, listed, serving, tried>> /\ op' = Idle
  BY DEF UnloadAgreed, TakeLibrary, naming, source
<1>3. C \in SUBSET Regs /\ \A s \in C : lib[s].state \in {"loaded", "leaving"} /\ holds[s] = 0
  BY <1>1
<1> HIDE DEF C
<1>4. /\ lib' \in [Regs -> Libraries]
      /\ Counted(lib', opens', unclosed') /\ HeldAreInUse(lib', holds') /\ Apart(lib')
      /\ opens' \in [Images -> 0 .. MaxOpens] /\ unclosed' \in [Candidates -> Nat]
      /\ \A s \in Regs \ C : lib'[s] = lib[s]
      /\ \A s \in C : lib'[s].state = "closed" /\ lib'[s].place = lib[s].place
  BY <1>2, <1>3, ClosingKeeps
<1> HIDE DEF r
<1>5. Indexed(lib', key, ps, Index(ps))
  BY <1>1, <1>4, TakenOutIndexed DEF RInv, C
<1>6. op' \in Operations /\ op'.kind = "none"
  BY <1>2 DEF Operations, Idle
<1> HIDE DEF ps
<1>7. SnapshotAgrees' /\ UnloadIsQuiet'
  BY <1>2, <1>6 DEF SnapshotAgrees, UnloadIsQuiet, Entries
<1>8. ServedAreKnown'
  BY <1>2, <1>3, <1>4, <1>6 DEF RInv, ServedAreKnown
<1> QED BY <1>2, <1>4, <1>5, <1>6, <1>7, <1>8, Types, Assembled

\* Dropping the registry keeps the inductive invariant.
LEMMA DropRegistryKeeps ==
  ASSUME RInv, DropRegistry
  PROVE  RInv'
<1>1. /\ UNCHANGED <<key, libraryKey, holds, opens, unclosed, listed, serving, tried, op>>
      /\ op = Idle /\ alive' = FALSE /\ providers' = <<>> /\ byKey' = <<>> /\ published' = {}
      /\ lib' = [r \in Regs |-> IF lib[r].state \in {"loaded", "leaving"}
                                  THEN [lib[r] EXCEPT !.state = "kept"] ELSE lib[r]]
  BY DEF DropRegistry, naming, source
<1>2. ASSUME NEW r \in Regs
      PROVE  /\ lib'[r] \in Libraries /\ lib'[r].place = lib[r].place /\ lib'[r].state # "loaded"
             /\ lib'[r].state \in InUse <=> lib[r].state \in InUse
             /\ lib'[r].state = "closed" <=> lib[r].state = "closed"
  <2>1. lib[r] \in Libraries
    BY Types
  <2>2. CASE lib[r].state \in {"loaded", "leaving"}
    BY <1>1, <2>2, <2>1, LibraryMoves DEF InUse, States
  <2>3. CASE lib[r].state \notin {"loaded", "leaving"}
    BY <1>1, <2>1, <2>3
  <2> QED BY <2>2, <2>3
<1>3. lib' \in [Regs -> Libraries]
  BY <1>1, <1>2
<1>4. Counted(lib', opens', unclosed')
  BY <1>1, <1>2, CountedAlike DEF RInv
<1>5. HeldAreInUse(lib', holds') /\ Apart(lib')
  BY <1>1, <1>2 DEF RInv, HeldAreInUse, Apart
<1>6. providers' \in Seq(Provided) /\ Len(providers') = 0 /\ DOMAIN byKey' = {}
  BY <1>1
<1>7. Indexed(lib', key', providers', byKey')
  BY <1>6 DEF Indexed
<1>8. SnapshotAgrees' /\ UnloadIsQuiet' /\ ServedAreKnown'
  BY <1>1, <1>2, <1>6, IdleIs DEF RInv, SnapshotAgrees, UnloadIsQuiet, ServedAreKnown, Entries
<1> QED BY <1>1, <1>3, <1>4, <1>5, <1>7, <1>8, Types, Assembled

\* A handle more on a library in use keeps the inductive invariant.
LEMMA HeldKeeps ==
  ASSUME RInv, NEW r \in Regs, lib[r].state \in InUse, holds[r] < MaxHolds,
         holds' = [holds EXCEPT ![r] = @ + 1],
         op.kind = "unload" => op.reg # r,
         UNCHANGED <<alive, lib, providers, byKey, naming, published, opens, unclosed, source, op>>
  PROVE  RInv'
<1>1. UNCHANGED <<listed, serving, tried>>
  BY DEF source
<1>2. /\ holds' \in [Regs -> 0 .. MaxHolds]
      /\ \A s \in Regs \ {r} : holds'[s] = holds[s]
  BY Types, RegistryAssumption
<1>3. HeldAreInUse(lib', holds')
  BY <1>2 DEF RInv, HeldAreInUse
<1>4. UnloadIsQuiet'
  BY <1>2, Types DEF RInv, UnloadIsQuiet, Operations, Idle
<1>5. SnapshotAgrees' /\ ServedAreKnown'
  BY <1>1 DEF RInv, SnapshotAgrees, ServedAreKnown, Entries, EntriesWithout
<1> QED BY <1>1, <1>2, <1>3, <1>4, <1>5, Types, LeftAlone, Assembled

\* What is published is of a loaded library, and not of the one being unloaded.
LEMMA PublishedAreLoaded ==
  ASSUME RInv, NEW p \in published
  PROVE  /\ p.reg \in Regs /\ lib[p.reg].state = "loaded"
         /\ op.kind = "unload" => p.reg # op.reg
<1>1. p \in Entries(providers) /\ (op.kind = "unload" => p.reg # op.reg)
  BY DEF RInv, SnapshotAgrees, EntriesWithout
<1>2. PICK i \in 1 .. Len(providers) : p = providers[i]
  BY <1>1 DEF Entries
<1>3. providers[i].reg \in Regs /\ lib[providers[i].reg].state = "loaded"
  BY IndexedEntries DEF RInv
<1> QED BY <1>1, <1>2, <1>3

\* Taking, pinning and dropping handles keep the inductive invariant.
LEMMA TakeHandleKeeps ==
  ASSUME RInv, NEW r \in Regs, TakeHandle(r)
  PROVE  RInv'
<1>1. PICK i \in 1 .. Len(providers) : providers[i].reg = r
  BY DEF TakeHandle, Views
<1>2. lib[r].state \in InUse
  BY <1>1, IndexedEntries DEF RInv, InUse
<1>3. op = Idle /\ op.kind # "unload"
  BY IdleIs DEF TakeHandle
<1> QED BY <1>2, <1>3, HeldKeeps DEF TakeHandle

LEMMA PinHandleKeeps ==
  ASSUME RInv, NEW r \in Regs, PinHandle(r)
  PROVE  RInv'
<1> DEFINE others == op.kind = "unload" => op.reg # r
<1>1. CASE \E p \in published : p.reg = r
  BY <1>1, PublishedAreLoaded, HeldKeeps DEF PinHandle, InUse
<1>2. CASE holds[r] > 0
  <2>1. lib[r].state \in InUse
    BY <1>2 DEF RInv, HeldAreInUse
  <2>2. CASE others
    BY <2>1, <2>2, HeldKeeps DEF PinHandle
  <2>3. CASE ~others
    <3>1. /\ UNCHANGED <<alive, lib, providers, byKey, naming, published, opens, unclosed,
                         listed, serving, tried, op>>
          /\ holds' = [holds EXCEPT ![r] = @ + 1] /\ holds[r] < MaxHolds
      BY DEF PinHandle, source
    <3>2. holds' \in [Regs -> 0 .. MaxHolds] /\ \A s \in Regs \ {r} : holds'[s] = holds[s]
      BY <3>1, Types, RegistryAssumption
    <3>3. HeldAreInUse(lib', holds')
      BY <2>1, <3>1, <3>2 DEF RInv, HeldAreInUse
    <3>4. UnloadIsQuiet'
      BY <1>2, <2>3, <3>1 DEF RInv, UnloadIsQuiet
    <3>5. SnapshotAgrees' /\ ServedAreKnown'
      BY <3>1 DEF RInv, SnapshotAgrees, ServedAreKnown, Entries, EntriesWithout
    <3> QED BY <3>1, <3>2, <3>3, <3>4, <3>5, Types, LeftAlone, Assembled
  <2> QED BY <2>2, <2>3
<1> QED BY <1>1, <1>2 DEF PinHandle

LEMMA DropHandleKeeps ==
  ASSUME RInv, NEW r \in Regs, DropHandle(r)
  PROVE  RInv'
<1>1. /\ UNCHANGED <<alive, lib, providers, byKey, naming, published, opens, unclosed,
                     listed, serving, tried, op>>
      /\ holds' = [holds EXCEPT ![r] = @ - 1] /\ holds[r] > 0
  BY DEF DropHandle, source
<1>2. /\ holds' \in [Regs -> 0 .. MaxHolds]
      /\ \A s \in Regs : holds[s] = 0 => holds'[s] = 0
      /\ \A s \in Regs : holds'[s] > 0 => holds[s] > 0
  BY <1>1, Types, RegistryAssumption
<1>3. HeldAreInUse(lib', holds')
  BY <1>1, <1>2 DEF RInv, HeldAreInUse
<1>4. UnloadIsQuiet'
  BY <1>1, <1>2, Types DEF RInv, UnloadIsQuiet, Operations, Idle
<1>5. SnapshotAgrees' /\ ServedAreKnown'
  BY <1>1 DEF RInv, SnapshotAgrees, ServedAreKnown, Entries, EntriesWithout
<1> QED BY <1>1, <1>2, <1>3, <1>4, <1>5, Types, LeftAlone, Assembled

\* A source that lists something else keeps the inductive invariant.
LEMMA SourceChangesKeeps ==
  ASSUME RInv, NEW c \in Candidates, SourceChanges(c)
  PROVE  RInv'
<1>1. UNCHANGED <<alive, lib, providers, byKey, naming, published, holds, opens, unclosed,
                  serving, tried, op>>
  BY DEF SourceChanges
<1>2. PICK b \in Contents[c] \cup {None} : listed' = [listed EXCEPT ![c] = b]
  BY DEF SourceChanges
<1>3. listed' \in Listings
  BY <1>2, RegistryAssumption, Types DEF Listings, Places
<1>4. SnapshotAgrees' /\ ServedAreKnown' /\ UnloadIsQuiet' /\ HeldAreInUse(lib', holds')
  BY <1>1 DEF RInv, SnapshotAgrees, ServedAreKnown, UnloadIsQuiet, Entries, EntriesWithout
<1> QED BY <1>1, <1>3, <1>4, Types, LeftAlone, Assembled

\* The keys a host sets keep the inductive invariant.
LEMMA KeyedByKeeps ==
  ASSUME RInv, NEW t \in KeyTemplates, KeyedBy(t)
  PROVE  RInv'
<1> DEFINE q == [i \in 1 .. Len(providers) |->
                   [reg |-> providers[i].reg, id |-> providers[i].id,
                    key |-> Render(t, providers[i].id, lib[providers[i].reg].build)]]
<1>1. /\ UNCHANGED <<alive, lib, libraryKey, holds, opens, unclosed, listed, serving, tried, op>>
      /\ op = Idle /\ key' = t /\ providers' = q /\ byKey' = Index(q) /\ published' = Entries(q)
      /\ \A i, j \in 1 .. Len(q) : q[i].key = q[j].key => i = j
  BY DEF KeyedBy, source
<1>2. /\ DOMAIN q = 1 .. Len(providers) /\ q = [i \in DOMAIN q |-> q[i]]
      /\ \A i \in 1 .. Len(providers) :
           q[i] = [reg |-> providers[i].reg, id |-> providers[i].id,
                   key |-> Render(t, providers[i].id, lib[providers[i].reg].build)]
  OBVIOUS
<1> HIDE DEF q
<1>3. Indexed(lib, t, q, Index(q))
  BY <1>1, <1>2, RekeyedIndexed DEF RInv
<1>4. SnapshotAgrees' /\ UnloadIsQuiet' /\ ServedAreKnown'
  BY <1>1, IdleIs DEF RInv, SnapshotAgrees, UnloadIsQuiet, ServedAreKnown, Entries
<1>5. Counted(lib', opens', unclosed') /\ HeldAreInUse(lib', holds') /\ Apart(lib')
  BY <1>1 DEF RInv
<1>6. key' \in KeyTemplates \cup {"id"}
  BY <1>1
<1> QED BY <1>1, <1>3, <1>4, <1>5, <1>6, Types, Assembled

LEMMA LibrariesKeyedByKeeps ==
  ASSUME RInv, NEW t \in LibraryKeyTemplates, LibrariesKeyedBy(t)
  PROVE  RInv'
<1>1. /\ UNCHANGED <<alive, providers, byKey, key, published, holds, opens, unclosed,
                     listed, serving, tried, op>>
      /\ op = Idle /\ libraryKey' = t
      /\ \A r, s \in Registered :
           RenderLibrary(t, lib[r].build) = RenderLibrary(t, lib[s].build) => r = s
      /\ lib' = [r \in Regs |-> IF r \in Registered
                                  THEN [lib[r] EXCEPT !.key = RenderLibrary(t, lib[r].build)]
                                  ELSE lib[r]]
  BY DEF LibrariesKeyedBy, source
<1>2. ASSUME NEW r \in Regs, lib[r].state = "loaded"
      PROVE  /\ lib'[r] \in Libraries /\ lib'[r].place = lib[r].place /\ lib'[r].state = "loaded"
             /\ lib'[r].build = lib[r].build /\ lib'[r].key = RenderLibrary(t, lib[r].build)
  <2> DEFINE k == RenderLibrary(t, lib[r].build)
  <2>1. lib'[r] = [lib[r] EXCEPT !.key = k]
    BY <1>1, <1>2 DEF Registered
  <2>2. lib[r] \in [place : Places, build : Builds, key : LibraryKeys, state : States \ {"unused"}]
    BY <1>2, Types DEF Libraries, NoLib
  <2>3. k \in LibraryKeys
    BY <2>2 DEF LibraryKeys
  <2> HIDE DEF k
  <2>4. /\ [lib[r] EXCEPT !.key = k] \in [place : Places, build : Builds, key : LibraryKeys,
                                         state : States \ {"unused"}]
        /\ [lib[r] EXCEPT !.key = k].place = lib[r].place
        /\ [lib[r] EXCEPT !.key = k].state = lib[r].state
        /\ [lib[r] EXCEPT !.key = k].build = lib[r].build
        /\ [lib[r] EXCEPT !.key = k].key = k
    BY <2>2, <2>3
  <2> QED BY <1>2, <2>1, <2>4 DEF Libraries, k
<1>3. \A r \in Regs : lib[r].state # "loaded" => lib'[r] = lib[r]
  BY <1>1 DEF Registered
<1>4. lib' \in [Regs -> Libraries]
  BY <1>1, <1>2, <1>3, Types
<1>5. \A r \in Regs : lib'[r].place = lib[r].place /\ lib'[r].state = lib[r].state
  BY <1>2, <1>3
<1>6. Counted(lib', opens', unclosed')
  BY <1>1, <1>5, CountedAlike DEF RInv
<1>7. HeldAreInUse(lib', holds')
  BY <1>1, <1>5 DEF RInv, HeldAreInUse
<1>8. Apart(lib')
  <2> SUFFICES ASSUME NEW r \in Regs, NEW s \in Regs,
                      lib'[r].state = "loaded", lib'[s].state = "loaded",
                      lib'[r].key = lib'[s].key \/ lib'[r].place = lib'[s].place
               PROVE  r = s
    BY DEF Apart
  <2>1. lib[r].state = "loaded" /\ lib[s].state = "loaded"
    BY <1>5
  <2>2. CASE lib'[r].key = lib'[s].key
    BY <1>1, <2>1, <1>2, <2>2 DEF Registered
  <2>3. CASE lib'[r].place = lib'[s].place
    BY <1>5, <2>1, <2>3 DEF RInv, Apart
  <2> QED BY <2>2, <2>3
<1>9. Indexed(lib', key', providers', byKey')
  BY <1>1, <1>2, IndexedStill DEF RInv
<1>10. SnapshotAgrees' /\ UnloadIsQuiet' /\ ServedAreKnown'
  BY <1>1, <1>5, IdleIs DEF RInv, SnapshotAgrees, UnloadIsQuiet, ServedAreKnown, Entries
<1>11. libraryKey' \in LibraryKeyTemplates \cup {"id"}
  BY <1>1
<1> QED BY <1>1, <1>4, <1>6, <1>7, <1>8, <1>9, <1>10, <1>11, Types, Assembled

\* The registration that is next, where there is room for one.
LEMMA FreshIs ==
  ASSUME Room
  PROVE  Fresh \in Regs /\ lib[Fresh] = NoLib
BY DEF Room, Fresh

\* A place with no library has none once others are collected.
LEMMA NoneAt ==
  ASSUME NEW place, At(place) = {}
  PROVE  \A r \in Regs : lib[r].place = place => lib[r].state # "loaded"
BY DEF At, Registered

\* Opening a file, passed over or not, only raises the loader's count of it.
LEMMA OpenedCounted ==
  ASSUME RInv, NEW C \in Collectable, NEW f \in Files, opens[Image[f]] < MaxOpens, NEW n \in {0, 1}
  PROVE  LET o == [OpensClosing(C) EXCEPT ![Image[f]] = @ + n]
         IN  /\ o \in [Images -> 0 .. MaxOpens]
             /\ Counted(LibClosing(C), o, UnclosedClosing(C))
             /\ \A i \in Images : o[i] = IF i = Image[f] THEN OpensClosing(C)[i] + n ELSE OpensClosing(C)[i]
<1> DEFINE p == OpensClosing(C)
           o == [p EXCEPT ![Image[f]] = @ + n]
           M == LibClosing(C)
           u == UnclosedClosing(C)
<1>1. /\ p \in [Images -> 0 .. MaxOpens] /\ Counted(M, p, u) /\ \A i \in Images : p[i] <= opens[i]
  BY CollectingKeeps
<1>2. Image[f] \in Images /\ MaxOpens \in Nat /\ opens \in [Images -> 0 .. MaxOpens]
  BY RegistryAssumption, Types
<1>3. o = [p EXCEPT ![Image[f]] = @ + n]
  OBVIOUS
<1> HIDE DEF p, M, u, o
<1>4. \A i \in Images : o[i] = IF i = Image[f] THEN p[i] + n ELSE p[i]
  BY <1>1, <1>2, <1>3
<1>5. o \in [Images -> 0 .. MaxOpens]
  <2>1. ASSUME NEW i \in Images PROVE o[i] \in 0 .. MaxOpens
    BY <1>1, <1>2, <1>4
  <2> QED BY <1>1, <1>3, <2>1
<1>6. Counted(M, o, u)
  <2>1. ASSUME NEW i \in Images PROVE Cardinality(UsersOf(M, i)) <= o[i]
    <3> DEFINE k == Cardinality(UsersOf(M, i))
    <3>1. k \in Nat
      BY RegsFinite DEF UsersOf
    <3>2. k <= p[i]
      BY <1>1 DEF Counted
    <3> HIDE DEF k
    <3>3. k <= o[i]
      BY <1>1, <1>2, <1>4, <3>1, <3>2
    <3> QED BY <3>3 DEF k
  <2> QED BY <1>1, <2>1 DEF Counted
<1> QED BY <1>4, <1>5, <1>6 DEF p, M, u, o

\* Loading a file keeps the inductive invariant.
LEMMA LoadFileKeeps ==
  ASSUME RInv, NEW f \in Files, LoadFile(f)
  PROVE  RInv'
<1>1. /\ UNCHANGED <<alive, key, libraryKey, holds, listed, serving, tried, op>> /\ op = Idle
  BY DEF LoadFile, naming, source
<1>2. PICK C \in Collectable :
        /\ unclosed' = UnclosedClosing(C)
        /\ \/ /\ lib' = LibClosing(C) /\ opens' = OpensClosing(C)
              /\ UNCHANGED <<providers, byKey, published>>
           \/ /\ At(f) = {} /\ opens[Image[f]] < MaxOpens
              /\ \E n \in {0, 1} :
                   /\ lib' = LibClosing(C) /\ opens' = [OpensClosing(C) EXCEPT ![Image[f]] = @ + n]
                   /\ UNCHANGED <<providers, byKey, published>>
           \/ /\ At(f) = {} /\ opens[Image[f]] < MaxOpens
              /\ \E b \in Contents[f] :
                   /\ Absorbs(LibClosing(C), providers, byKey, b)
                   /\ Absorbed(LibClosing(C), providers, byKey, f, b)
                   /\ opens' = [OpensClosing(C) EXCEPT ![Image[f]] = @ + 1]
  <2>1. \A b : One(b) \in {0, 1}
    BY DEF One
  <2> QED BY <2>1, Zenon DEF LoadFile
<1> DEFINE M == LibClosing(C)
           o == OpensClosing(C)
           u == UnclosedClosing(C)
<1>3. /\ M \in [Regs -> Libraries] /\ Counted(M, o, u)
      /\ o \in [Images -> 0 .. MaxOpens] /\ u \in [Candidates -> Nat]
      /\ HeldAreInUse(M, holds) /\ Apart(M) /\ Indexed(M, key, providers, byKey)
      /\ \A r \in Regs : /\ lib[r].state # "leaving" => M[r] = lib[r]
                         /\ M[r].place = lib[r].place
                         /\ M[r].state = "loaded" <=> lib[r].state = "loaded"
  BY CollectingKeeps
<1>4. ASSUME lib' = M, UNCHANGED <<providers, byKey, published>>,
             Counted(M, opens', u), opens' \in [Images -> 0 .. MaxOpens]
      PROVE  RInv'
  <2> HIDE DEF M, u, o
  <2>1. unclosed' = u
    BY <1>2 DEF u
  <2>2. SnapshotAgrees' /\ UnloadIsQuiet' /\ ServedAreKnown'
    BY <1>1, <1>3, <1>4, IdleIs DEF RInv, SnapshotAgrees, UnloadIsQuiet, ServedAreKnown, Entries
  <2> QED BY <1>1, <1>3, <1>4, <2>1, <2>2, Types, Assembled
<1>5. CASE lib' = M /\ opens' = o /\ UNCHANGED <<providers, byKey, published>>
  BY <1>3, <1>4, <1>5
<1>6. ASSUME opens[Image[f]] < MaxOpens, NEW n \in {0, 1}, lib' = M,
             opens' = [o EXCEPT ![Image[f]] = @ + n], UNCHANGED <<providers, byKey, published>>
      PROVE  RInv'
  <2> DEFINE p == [o EXCEPT ![Image[f]] = @ + n]
  <2>1. p \in [Images -> 0 .. MaxOpens] /\ Counted(M, p, u)
    BY <1>6, OpenedCounted
  <2>2. opens' = p
    BY <1>6
  <2> HIDE DEF M, u, o, p
  <2> QED BY <1>4, <1>6, <2>1, <2>2
<1>7. ASSUME At(f) = {}, opens[Image[f]] < MaxOpens, NEW b \in Contents[f],
             Absorbs(M, providers, byKey, b), Absorbed(M, providers, byKey, f, b),
             opens' = [o EXCEPT ![Image[f]] = @ + 1]
      PROVE  RInv'
  <2>1. Fresh \in Regs /\ lib[Fresh] = NoLib
    BY <1>7, FreshIs DEF Absorbed
  <2>2. /\ opens' \in [Images -> 0 .. MaxOpens]
        /\ \A i \in Images : opens'[i] = IF i = Image[f] THEN o[i] + 1 ELSE o[i]
    <3> DEFINE p == [o EXCEPT ![Image[f]] = @ + 1]
    <3>1. 1 \in {0, 1} /\ opens' = p
      BY <1>7
    <3>2. /\ p \in [Images -> 0 .. MaxOpens]
          /\ \A i \in Images : p[i] = IF i = Image[f] THEN o[i] + 1 ELSE o[i]
      BY <1>7, <3>1, OpenedCounted
    <3> HIDE DEF p
    <3> QED BY <3>1, <3>2
  <2> HIDE DEF M, u, o
  <2>3. M[Fresh] = NoLib
    BY <1>3, <2>1 DEF NoLib
  <2>4. \A r \in Regs : M[r].place = f => M[r].state # "loaded"
    BY <1>3, <1>7, NoneAt
  <2>5. TypeOK
    BY DEF RInv
  <2>6. /\ lib' \in [Regs -> Libraries]
        /\ lib'[Fresh].place = f /\ lib'[Fresh].state = "loaded"
        /\ \A r \in Regs \ {Fresh} : lib'[r] = M[r]
        /\ HeldAreInUse(lib', holds) /\ Apart(lib')
        /\ Indexed(lib', key, providers', byKey')
        /\ published' = Entries(providers')
    BY <1>3, <1>7, <2>1, RegistryAssumption, <2>3, <2>4, <2>5, AbsorbedKeeps DEF Places
  <2>7. Counted(lib', opens', u)
    <3>1. \A i \in Images : o[i] \in Nat
      BY <1>3, RegistryAssumption
    <3> DEFINE N == lib'
               p == opens'
               n == Fresh
    <3>2. /\ N[n].place = f /\ N[n].state = "loaded" /\ \A r \in Regs \ {n} : N[r] = M[r]
          /\ \A i \in Images : p[i] = IF i = Image[f] THEN o[i] + 1 ELSE o[i]
          /\ n \in Regs /\ M[n] = NoLib
      BY <2>1, <2>2, <2>3, <2>6
    <3> HIDE DEF N, p, n
    <3>3. Counted(M, o, u)
      BY <1>3
    <3>4. Counted(N, p, u)
      BY <3>1, <3>2, <3>3, FileCounted DEF OneMore
    <3> QED BY <3>4 DEF N, p
  <2>8. unclosed' = u
    BY <1>2 DEF u
  <2>9. SnapshotAgrees' /\ UnloadIsQuiet'
    BY <1>1, <2>6, IdleIs DEF SnapshotAgrees, UnloadIsQuiet, Entries
  <2>10. ServedAreKnown'
    <3>1. ASSUME NEW c \in Candidates, NEW r \in Regs, serving[c] = None, lib'[r].place = c
          PROVE  lib'[r].state # "loaded"
      BY <1>3, <2>6, <3>1, RegistryAssumption DEF RInv, ServedAreKnown
    <3> QED BY <1>1, <3>1, IdleIs DEF ServedAreKnown
  <2> QED BY <1>1, <1>3, <2>2, <2>6, <2>7, <2>8, <2>9, <2>10, Types, Assembled
<1> QED BY <1>2, <1>5, <1>6, <1>7

\* Registering a linked library keeps the inductive invariant.
LEMMA RegisterLinkedKeeps ==
  ASSUME RInv, NEW l \in Linked, RegisterLinked(l)
  PROVE  RInv'
<1>1. /\ UNCHANGED <<alive, key, libraryKey, holds, listed, serving, tried, op>> /\ op = Idle
      /\ At(l) = {}
  BY DEF RegisterLinked, naming, source
<1>2. PICK C \in Collectable, b \in Contents[l] :
        /\ Absorbs(LibClosing(C), providers, byKey, b)
        /\ Absorbed(LibClosing(C), providers, byKey, l, b)
        /\ opens' = OpensClosing(C)
        /\ unclosed' = UnclosedClosing(C)
  BY DEF RegisterLinked
<1> DEFINE M == LibClosing(C)
           o == OpensClosing(C)
           u == UnclosedClosing(C)
<1>3. /\ M \in [Regs -> Libraries] /\ Counted(M, o, u)
      /\ o \in [Images -> 0 .. MaxOpens] /\ u \in [Candidates -> Nat]
      /\ HeldAreInUse(M, holds) /\ Apart(M) /\ Indexed(M, key, providers, byKey)
      /\ \A r \in Regs : /\ lib[r].state # "leaving" => M[r] = lib[r]
                         /\ M[r].place = lib[r].place
                         /\ M[r].state = "loaded" <=> lib[r].state = "loaded"
  BY CollectingKeeps
<1>4. Fresh \in Regs /\ lib[Fresh] = NoLib
  BY <1>2, FreshIs DEF Absorbed
<1>5. /\ Absorbs(M, providers, byKey, b) /\ Absorbed(M, providers, byKey, l, b)
      /\ opens' = o /\ unclosed' = u
  BY <1>2
<1> HIDE DEF M, u, o
<1>6. M[Fresh] = NoLib /\ TypeOK
  BY <1>3, <1>4 DEF NoLib, RInv
<1>7. \A r \in Regs : M[r].place = l => M[r].state # "loaded"
  BY <1>1, <1>3, NoneAt
<1>8. /\ lib' \in [Regs -> Libraries]
      /\ lib'[Fresh].place = l /\ lib'[Fresh].state = "loaded"
      /\ \A r \in Regs \ {Fresh} : lib'[r] = M[r]
      /\ HeldAreInUse(lib', holds) /\ Apart(lib')
      /\ Indexed(lib', key, providers', byKey')
      /\ published' = Entries(providers')
  BY <1>3, <1>4, RegistryAssumption, <1>5, <1>6, <1>7, AbsorbedKeeps DEF Places
<1>9. Counted(lib', o, u)
  <2> DEFINE N == lib'
             n == Fresh
  <2>1. /\ N[n].place = l /\ N[n].state = "loaded" /\ \A r \in Regs \ {n} : N[r] = M[r]
        /\ n \in Regs /\ M[n] = NoLib
    BY <1>4, <1>6, <1>8
  <2> HIDE DEF N, n
  <2>2. Counted(N, o, u)
    BY <1>3, <2>1, LinkedCounted
  <2> QED BY <2>2 DEF N
<1>10. SnapshotAgrees' /\ UnloadIsQuiet'
  BY <1>1, <1>8, IdleIs DEF SnapshotAgrees, UnloadIsQuiet, Entries
<1>11. ServedAreKnown'
  <2>1. ASSUME NEW c \in Candidates, NEW r \in Regs, serving[c] = None, lib'[r].place = c
        PROVE  lib'[r].state # "loaded"
    BY <1>3, <1>8, <2>1, RegistryAssumption DEF RInv, ServedAreKnown
  <2> QED BY <1>1, <2>1, IdleIs DEF ServedAreKnown
<1> QED BY <1>1, <1>3, <1>5, <1>8, <1>9, <1>10, <1>11, Types, Assembled

\* What a refresh is about.
LEMMA RefreshIs ==
  ASSUME RInv, op.kind = "refresh"
  PROVE  /\ op \in [kind : {"refresh"}, listing : Listings, gone : SUBSET Candidates,
                    todo : SUBSET Candidates]
         /\ \A c \in op.todo : op.listing[c] # None
         /\ published = Entries(providers)
BY Types DEF Operations, Idle, RInv, ServedAreKnown, SnapshotAgrees

\* Listings with one entry changed.
LEMMA ListingChanged ==
  ASSUME NEW l \in Listings, NEW c \in Candidates, NEW b \in Builds \cup {None}
  PROVE  /\ [l EXCEPT ![c] = b] \in Listings
         /\ [l EXCEPT ![c] = b][c] = b
         /\ \A d \in Candidates \ {c} : [l EXCEPT ![c] = b][d] = l[d]
BY DEF Listings

\* Beginning and ending a refresh keep the inductive invariant.
LEMMA RefreshBeginKeeps ==
  ASSUME RInv, RefreshBegin
  PROVE  RInv'
<1>1. PICK C \in Collectable : /\ lib' = LibClosing(C)
                               /\ opens' = OpensClosing(C)
                               /\ unclosed' = UnclosedClosing(C)
  BY DEF RefreshBegin
<1> DEFINE gone == {c \in Candidates : tried[c] # None /\ listed[c] = None}
           todo == {c \in Candidates : listed[c] # None}
<1>2. /\ UNCHANGED <<alive, key, libraryKey, holds, listed, serving, tried, providers, byKey, published>>
      /\ op = Idle
      /\ op' = [kind |-> "refresh", listing |-> listed, gone |-> gone, todo |-> todo]
  BY DEF RefreshBegin, naming, source
<1>3. gone \in SUBSET Candidates /\ todo \in SUBSET Candidates /\ \A c \in todo : listed[c] # None
  OBVIOUS
<1> HIDE DEF gone, todo
<1>4. /\ op' \in Operations /\ op'.kind = "refresh" /\ op'.listing = listed /\ op'.todo = todo
  BY <1>2, <1>3, Types DEF Operations
<1>5. /\ lib' \in [Regs -> Libraries]
      /\ Counted(lib', opens', unclosed') /\ HeldAreInUse(lib', holds') /\ Apart(lib')
      /\ Indexed(lib', key', providers', byKey')
      /\ opens' \in [Images -> 0 .. MaxOpens] /\ unclosed' \in [Candidates -> Nat]
      /\ \A s \in Regs : lib'[s].place = lib[s].place /\ (lib'[s].state = "loaded" => lib[s].state = "loaded")
  BY <1>1, <1>2, CollectingKeeps
<1>6. SnapshotAgrees' /\ UnloadIsQuiet'
  BY <1>2, <1>4, IdleIs DEF RInv, SnapshotAgrees, UnloadIsQuiet, Entries
<1>7. ServedAreKnown'
  BY <1>2, <1>3, <1>4, <1>5 DEF RInv, ServedAreKnown
<1> QED BY <1>2, <1>4, <1>5, <1>6, <1>7, Types, Assembled

LEMMA RefreshEndKeeps ==
  ASSUME RInv, RefreshEnd
  PROVE  RInv'
<1>1. /\ UNCHANGED <<alive, lib, providers, byKey, naming, published, holds, opens, unclosed,
                     listed, serving, tried>>
      /\ op' = Idle /\ op.kind = "refresh"
  BY DEF RefreshEnd, source
<1>2. op' \in Operations /\ op'.kind = "none"
  BY <1>1 DEF Operations, Idle
<1>3. SnapshotAgrees' /\ UnloadIsQuiet' /\ ServedAreKnown' /\ HeldAreInUse(lib', holds')
  BY <1>1, <1>2 DEF RInv, SnapshotAgrees, UnloadIsQuiet, ServedAreKnown, Entries
<1> QED BY <1>1, <1>2, <1>3, Types, LeftAlone, Assembled

\* Passing a candidate by keeps the inductive invariant.
LEMMA RefreshPassesKeeps ==
  ASSUME RInv, NEW c \in Candidates, RefreshPasses(c)
  PROVE  RInv'
<1>1. /\ UNCHANGED <<alive, lib, providers, byKey, naming, published, holds, opens, unclosed,
                     listed, serving>>
      /\ op.kind = "refresh" /\ op' = [op EXCEPT !.todo = @ \ {c}]
      /\ tried' = [tried EXCEPT ![c] = op.listing[c]]
  BY DEF RefreshPasses, RefreshAt
<1>2. /\ op \in [kind : {"refresh"}, listing : Listings, gone : SUBSET Candidates, todo : SUBSET Candidates]
      /\ \A d \in op.todo : op.listing[d] # None
  BY <1>1, RefreshIs
<1>3. /\ op' \in Operations /\ op'.kind = "refresh" /\ op'.listing = op.listing
      /\ op'.todo \subseteq op.todo
  BY <1>1, <1>2 DEF Operations
<1>4. tried' \in Listings
  BY <1>1, <1>2, Types, ListingChanged DEF Listings
<1>5. SnapshotAgrees' /\ UnloadIsQuiet' /\ ServedAreKnown' /\ HeldAreInUse(lib', holds')
  BY <1>1, <1>2, <1>3 DEF RInv, SnapshotAgrees, UnloadIsQuiet, ServedAreKnown, Entries
<1> QED BY <1>1, <1>3, <1>4, <1>5, Types, LeftAlone, Assembled

\* Once the library a source serves at a candidate is retired, none is there.
LEMMA RetiredLeavesNone ==
  ASSUME RInv, NEW C \in Collectable, NEW c \in Candidates, NEW r \in Served(c)
  PROVE  /\ r \in Regs /\ lib[r].state = "loaded" /\ lib[r].place = c
         /\ \A s \in Regs : Retiring(LibClosing(C), r)[s].place = c =>
                              Retiring(LibClosing(C), r)[s].state # "loaded"
<1> DEFINE M == Retiring(LibClosing(C), r)
<1>1. r \in Regs /\ lib[r].state = "loaded" /\ lib[r].place = c
  BY DEF Served, At, Registered
<1>2. \A s \in Regs : /\ M[s].place = lib[s].place
                      /\ M[s].state = "loaded" => s # r /\ M[s] = lib[s]
  BY <1>1, RetiringKeeps
<1> HIDE DEF M
<1>3. \A s \in Regs : M[s].place = c => M[s].state # "loaded"
  BY <1>1, <1>2 DEF RInv, Apart
<1> QED BY <1>1, <1>3 DEF M

\* Retiring a vanished candidate keeps the inductive invariant.
LEMMA RefreshGoneKeeps ==
  ASSUME RInv, NEW c \in Candidates, RefreshGone(c)
  PROVE  RInv'
<1>1. /\ UNCHANGED <<alive, key, libraryKey, holds, listed>>
      /\ op.kind = "refresh" /\ op' = [op EXCEPT !.gone = @ \ {c}]
      /\ tried' = [tried EXCEPT ![c] = None] /\ serving' = [serving EXCEPT ![c] = None]
  BY DEF RefreshGone, naming
<1>2. /\ op \in [kind : {"refresh"}, listing : Listings, gone : SUBSET Candidates, todo : SUBSET Candidates]
      /\ \A d \in op.todo : op.listing[d] # None
      /\ published = Entries(providers)
  BY <1>1, RefreshIs
<1>3. op' \in Operations /\ op'.kind = "refresh" /\ op'.listing = op.listing /\ op'.todo = op.todo
  BY <1>1, <1>2 DEF Operations
<1>4. /\ tried' \in Listings /\ serving' \in Listings
      /\ \A d \in Candidates \ {c} : serving'[d] = serving[d]
  BY <1>1, Types DEF Listings
<1>5. CASE Served(c) = {}
  <2>1. UNCHANGED <<lib, opens, unclosed, providers, byKey, published>>
    BY <1>5 DEF RefreshGone
  <2>2. ServedAreKnown'
    BY <1>1, <1>2, <1>3, <1>4, <2>1, <1>5, NoneAt DEF RInv, ServedAreKnown, Served
  <2>3. SnapshotAgrees' /\ UnloadIsQuiet' /\ HeldAreInUse(lib', holds')
    BY <1>1, <1>2, <1>3, <2>1 DEF RInv, SnapshotAgrees, UnloadIsQuiet, Entries
  <2>4. UNCHANGED <<alive, lib, providers, byKey, naming, opens, unclosed>>
    BY <1>1, <2>1 DEF naming
  <2> QED BY <1>1, <1>3, <1>4, <2>2, <2>3, <2>4, Types, LeftAlone, Assembled
<1>6. CASE Served(c) # {}
  <2>1. PICK C \in Collectable, r \in Served(c) : /\ lib' = Retiring(LibClosing(C), r)
                                                  /\ opens' = OpensClosing(C)
                                                  /\ unclosed' = UnclosedClosing(C)
    BY <1>6 DEF RefreshGone
  <2>2. TakeLibrary(c)
    BY <1>6 DEF RefreshGone
  <2> DEFINE ps == ProvidersWithout(lib[r].place)
  <2>3. /\ r \in Regs /\ lib[r].state = "loaded" /\ lib[r].place = c
        /\ \A s \in Regs : lib'[s].place = c => lib'[s].state # "loaded"
    BY <2>1, RetiredLeavesNone
  <2>4. providers' = ps /\ byKey' = Index(ps) /\ published' = Entries(ps)
    BY <2>2, <2>3 DEF TakeLibrary
  <2>5. /\ lib' \in [Regs -> Libraries]
        /\ Counted(lib', opens', unclosed') /\ HeldAreInUse(lib', holds') /\ Apart(lib')
        /\ Indexed(lib', key', providers', byKey')
        /\ \A s \in Regs : lib'[s].place = lib[s].place /\ (lib'[s].state = "loaded" => lib'[s] = lib[s])
    BY <1>1, <2>1, <2>3, <2>4, RetiringKeeps
  <2>6. opens' \in [Images -> 0 .. MaxOpens] /\ unclosed' \in [Candidates -> Nat]
    BY <2>1, CollectingKeeps
  <2> HIDE DEF ps
  <2>7. SnapshotAgrees' /\ UnloadIsQuiet'
    BY <1>3, <2>4 DEF SnapshotAgrees, UnloadIsQuiet, Entries
  <2>8. ServedAreKnown'
    BY <1>2, <1>3, <1>4, <2>3, <2>5 DEF RInv, ServedAreKnown
  <2> QED BY <1>1, <1>3, <1>4, <2>5, <2>6, <2>7, <2>8, Types, Assembled
<1> QED BY <1>5, <1>6

\* The libraries, the index and the counts a refresh goes on with once it has
\* retired the old build of candidate c.
Cleared(c, L, ps, index, o, u) ==
  /\ L \in [Regs -> Libraries]
  /\ o \in [Images -> 0 .. MaxOpens] /\ u \in [Candidates -> Nat]
  /\ Counted(L, o, u) /\ HeldAreInUse(L, holds) /\ Apart(L) /\ Indexed(L, key, ps, index)
  /\ \A r \in Regs : L[r].place = c => L[r].state # "loaded"
  /\ \A r \in Regs : /\ L[r].place = lib[r].place
                     /\ L[r].state = "loaded" => L[r] = lib[r]
                     /\ lib[r] = NoLib => L[r] = NoLib

\* Of a candidate it keeps, the registry records the library and the source is
\* still to be told.
LEMMA ClearedAbsorbs ==
  ASSUME RInv, NEW c \in Candidates, NEW L, NEW ps, NEW index, NEW o, NEW u,
         Cleared(c, L, ps, index, o, u), NEW b \in Builds,
         Absorbs(L, ps, index, b), Absorbed(L, ps, index, c, b), OneMore(Candidates, c, u, unclosed')
  PROVE  /\ Fresh \in Regs /\ lib' \in [Regs -> Libraries]
         /\ lib'[Fresh].place = c /\ lib'[Fresh].state = "loaded"
         /\ \A r \in Regs \ {Fresh} : lib'[r] = L[r]
         /\ HeldAreInUse(lib', holds) /\ Apart(lib')
         /\ Indexed(lib', key, providers', byKey')
         /\ published' = Entries(providers')
         /\ Counted(lib', o, unclosed')
<1>1. Fresh \in Regs /\ L[Fresh] = NoLib
  BY FreshIs DEF Absorbed, Cleared
<1>2. /\ lib' \in [Regs -> Libraries]
      /\ lib'[Fresh].place = c /\ lib'[Fresh].state = "loaded"
      /\ \A r \in Regs \ {Fresh} : lib'[r] = L[r]
      /\ HeldAreInUse(lib', holds) /\ Apart(lib')
      /\ Indexed(lib', key, providers', byKey')
      /\ published' = Entries(providers')
  BY <1>1, AbsorbedKeeps DEF Cleared, RInv, Places
<1>3. Counted(lib', o, unclosed')
  <2> DEFINE N == lib'
             v == unclosed'
             n == Fresh
  <2>1. /\ N[n].place = c /\ N[n].state = "loaded" /\ \A r \in Regs \ {n} : N[r] = L[r]
        /\ n \in Regs /\ L[n] = NoLib
        /\ OneMore(Candidates, c, u, v)
    BY <1>1, <1>2
  <2>2. Counted(L, o, u)
    BY DEF Cleared
  <2> HIDE DEF N, v, n
  <2>3. Counted(N, o, v)
    BY <2>1, <2>2, CandidateCounted
  <2> QED BY <2>3 DEF N, v
<1> QED BY <1>1, <1>2, <1>3

\* A candidate is absorbed or closed at once, from whatever the registry has once
\* its old build is retired.
LEMMA OpenedKeeps ==
  ASSUME RInv, NEW c \in Candidates, RefreshAt(c), tried' = [tried EXCEPT ![c] = op.listing[c]],
         listed[c] # None,
         UNCHANGED <<alive, naming, holds, listed>>,
         NEW L, NEW ps, NEW index, NEW o, NEW u, Cleared(c, L, ps, index, o, u),
         NEW kept \in BOOLEAN, kept = Absorbs(L, ps, index, listed[c]),
         IF kept THEN Absorbed(L, ps, index, c, listed[c])
         ELSE lib' = L /\ providers' = ps /\ byKey' = index /\ published' = Entries(ps),
         serving' = [serving EXCEPT ![c] = IF kept THEN op.listing[c] ELSE None],
         opens' = o,
         unclosed' = [u EXCEPT ![c] = @ + One(kept)]
  PROVE  RInv'
<1>1. /\ op.kind = "refresh" /\ op' = [op EXCEPT !.todo = @ \ {c}] /\ c \in op.todo
      /\ UNCHANGED <<alive, key, libraryKey, holds, listed>>
  BY DEF RefreshAt, naming
<1>2. /\ op \in [kind : {"refresh"}, listing : Listings, gone : SUBSET Candidates, todo : SUBSET Candidates]
      /\ \A d \in op.todo : op.listing[d] # None
  BY <1>1, RefreshIs
<1>3. /\ op' \in Operations /\ op'.kind = "refresh" /\ op'.listing = op.listing
      /\ op'.todo \subseteq op.todo
  BY <1>1, <1>2 DEF Operations
<1>4. op.listing[c] \in Builds \cup {None} /\ op.listing[c] # None
  BY <1>1, <1>2 DEF Listings
<1>5. listed[c] \in Builds
  BY Types DEF Listings
<1>6. tried' \in Listings
  BY <1>4, Types, ListingChanged
<1>7. CASE kept
  <2>1. OneMore(Candidates, c, u, unclosed') /\ unclosed' \in [Candidates -> Nat]
    BY <1>7 DEF OneMore, One, Cleared
  <2>2. /\ Fresh \in Regs /\ lib' \in [Regs -> Libraries]
        /\ lib'[Fresh].place = c /\ lib'[Fresh].state = "loaded"
        /\ \A r \in Regs \ {Fresh} : lib'[r] = L[r]
        /\ HeldAreInUse(lib', holds) /\ Apart(lib')
        /\ Indexed(lib', key, providers', byKey')
        /\ published' = Entries(providers')
        /\ Counted(lib', o, unclosed')
    BY <1>5, <1>7, <2>1, ClearedAbsorbs
  <2>3. o \in [Images -> 0 .. MaxOpens] /\ \A r \in Regs : L[r].state = "loaded" => L[r] = lib[r]
    BY DEF Cleared
  <2>4. /\ serving' \in Listings /\ serving'[c] # None
        /\ \A d \in Candidates \ {c} : serving'[d] = serving[d]
    BY <1>4, <1>7, Types DEF Listings
  <2>5. SnapshotAgrees' /\ UnloadIsQuiet'
    BY <1>3, <2>2 DEF SnapshotAgrees, UnloadIsQuiet, Entries
  <2>6. ServedAreKnown'
    <3>1. ASSUME NEW d \in Candidates, NEW r \in Regs, serving'[d] = None, lib'[r].place = d
          PROVE  lib'[r].state # "loaded"
      <4> QED BY <3>1, <2>4, <2>2, <2>3 DEF RInv, ServedAreKnown
    <3> QED BY <3>1, <1>2, <1>3 DEF ServedAreKnown
  <2> QED BY <1>1, <1>3, <1>6, <2>1, <2>2, <2>3, <2>4, <2>5, <2>6, Types, Assembled
<1>8. CASE ~kept
  <2>1. lib' = L /\ providers' = ps /\ byKey' = index /\ published' = Entries(ps)
    BY <1>8
  <2>2. /\ L \in [Regs -> Libraries]
        /\ o \in [Images -> 0 .. MaxOpens] /\ u \in [Candidates -> Nat]
        /\ Counted(L, o, u) /\ HeldAreInUse(L, holds) /\ Apart(L) /\ Indexed(L, key, ps, index)
        /\ \A r \in Regs : L[r].place = c => L[r].state # "loaded"
        /\ \A r \in Regs : L[r].state = "loaded" => L[r] = lib[r]
    BY DEF Cleared
  <2>3. unclosed' = u
    BY <1>8, <2>2 DEF One
  <2>4. /\ serving' \in Listings /\ \A d \in Candidates \ {c} : serving'[d] = serving[d]
    BY <1>8, Types DEF Listings
  <2>5. SnapshotAgrees' /\ UnloadIsQuiet'
    BY <1>3, <2>1 DEF SnapshotAgrees, UnloadIsQuiet, Entries
  <2>6. ServedAreKnown'
    <3>1. ASSUME NEW d \in Candidates, NEW r \in Regs, serving'[d] = None, lib'[r].place = d
          PROVE  lib'[r].state # "loaded"
      <4>1. CASE d = c
        BY <2>1, <2>2, <3>1, <4>1
      <4>2. CASE d # c
        BY <2>1, <2>2, <3>1, <2>4, <4>2 DEF RInv, ServedAreKnown
      <4> QED BY <4>1, <4>2
    <3> QED BY <3>1, <1>2, <1>3 DEF ServedAreKnown
  <2> QED BY <1>1, <1>3, <1>6, <2>1, <2>3, <2>4, <2>5, <2>6, <2>2, Types, Assembled
<1> QED BY <1>7, <1>8

\* Opening a candidate keeps the inductive invariant.
LEMMA RefreshOpensKeeps ==
  ASSUME RInv, NEW c \in Candidates, RefreshOpens(c)
  PROVE  RInv'
<1>1. /\ RefreshAt(c) /\ tried' = [tried EXCEPT ![c] = op.listing[c]] /\ listed[c] # None
      /\ UNCHANGED <<alive, naming, holds, listed>>
  BY DEF RefreshOpens
<1> DEFINE b == listed[c]
           Opened(L, ps, index, kept, o, u) ==
             /\ IF kept THEN Absorbed(L, ps, index, c, b)
                ELSE lib' = L /\ providers' = ps /\ byKey' = index /\ published' = Entries(ps)
             /\ serving' = [serving EXCEPT ![c] = IF kept THEN op.listing[c] ELSE None]
             /\ opens' = o
             /\ unclosed' = [u EXCEPT ![c] = @ + One(kept)]
<1>2. CASE Served(c) = {}
  <2> DEFINE o == OpensClosing({})
             u == UnclosedClosing({})
             kept == Absorbs(lib, providers, byKey, b)
  <2>1. Opened(lib, providers, byKey, kept, o, u)
    BY <1>2 DEF RefreshOpens
  <2>2. Cleared(c, lib, providers, byKey, o, u)
    <3> DEFINE M == LibClosing({})
    <3>1. /\ M \in [Regs -> Libraries] /\ Counted(M, o, u)
          /\ o \in [Images -> 0 .. MaxOpens] /\ u \in [Candidates -> Nat]
          /\ \A r \in Regs : M[r] = lib[r]
      <4> DEFINE E == {}
      <4>1. E \in SUBSET Regs /\ \A r \in E : lib[r].state \in {"loaded", "leaving"}
        OBVIOUS
      <4>2. M = LibClosing(E) /\ o = OpensClosing(E) /\ u = UnclosedClosing(E) /\ Regs \ E = Regs
        OBVIOUS
      <4> HIDE DEF E, M, o, u
      <4> QED BY <4>1, <4>2, ClosingCounted DEF RInv
    <3> HIDE DEF M, o, u
    <3>2. Counted(lib, o, u)
      BY <3>1, CountedAlike
    <3>3. \A r \in Regs : lib[r].place = c => lib[r].state # "loaded"
      BY <1>2, NoneAt DEF RInv, ServedAreKnown, Served
    <3> QED BY <3>1, <3>2, <3>3, Types DEF Cleared, RInv
  <2>3. kept \in BOOLEAN
    BY DEF Absorbs
  <2> HIDE DEF o, u, kept
  <2>4. /\ IF kept THEN Absorbed(lib, providers, byKey, c, b)
           ELSE lib' = lib /\ providers' = providers /\ byKey' = byKey /\ published' = Entries(providers)
        /\ serving' = [serving EXCEPT ![c] = IF kept THEN op.listing[c] ELSE None]
        /\ opens' = o
        /\ unclosed' = [u EXCEPT ![c] = @ + One(kept)]
    BY <2>1
  <2> QED BY <1>1, <2>2, <2>3, <2>4, OpenedKeeps DEF kept
<1>3. CASE Served(c) # {}
  <2> DEFINE r == CHOOSE s \in Served(c) : TRUE
             ps == ProvidersWithout(c)
             index == Index(ps)
  <2>1. PICK C \in Collectable :
          Opened(Retiring(LibClosing(C), r), ps, index,
                 Absorbs(Retiring(LibClosing(C), r), ps, index, b), OpensClosing(C), UnclosedClosing(C))
    BY <1>3 DEF RefreshOpens
  <2> DEFINE L == Retiring(LibClosing(C), r)
             o == OpensClosing(C)
             u == UnclosedClosing(C)
             kept == Absorbs(L, ps, index, b)
  <2>2. r \in Served(c)
    BY <1>3
  <2> HIDE DEF r
  <2>3. /\ r \in Regs /\ lib[r].state = "loaded" /\ lib[r].place = c
        /\ \A s \in Regs : L[s].place = c => L[s].state # "loaded"
    BY <2>2, RetiredLeavesNone
  <2>4. /\ L \in [Regs -> Libraries] /\ Counted(L, o, u)
        /\ HeldAreInUse(L, holds) /\ Apart(L) /\ Indexed(L, key, ps, index)
        /\ \A s \in Regs : /\ L[s].place = lib[s].place
                           /\ L[s].state = "loaded" => L[s] = lib[s]
                           /\ lib[s] = NoLib => L[s] = NoLib
    <3> DEFINE q == ProvidersWithout(lib[r].place)
    <3> QED BY <2>3, RetiringKeeps
  <2>5. o \in [Images -> 0 .. MaxOpens] /\ u \in [Candidates -> Nat]
    BY CollectingKeeps
  <2>6. kept \in BOOLEAN
    BY DEF Absorbs
  <2>7. Opened(L, ps, index, kept, o, u)
    BY <2>1
  <2> HIDE DEF L, ps, index, o, u, kept
  <2>8. Cleared(c, L, ps, index, o, u)
    BY <2>3, <2>4, <2>5 DEF Cleared
  <2>9. /\ IF kept THEN Absorbed(L, ps, index, c, b)
           ELSE lib' = L /\ providers' = ps /\ byKey' = index /\ published' = Entries(ps)
        /\ serving' = [serving EXCEPT ![c] = IF kept THEN op.listing[c] ELSE None]
        /\ opens' = o
        /\ unclosed' = [u EXCEPT ![c] = @ + One(kept)]
    BY <2>7
  <2> QED BY <1>1, <2>6, <2>8, <2>9, OpenedKeeps DEF kept
<1> QED BY <1>2, <1>3

\* Every step keeps the inductive invariant.
LEMMA NextRInv ==
  ASSUME RInv, [Next]_vars
  PROVE  RInv'
<1>1. CASE UNCHANGED vars
  BY <1>1, Types, LeftAlone, Assembled
    DEF RInv, SnapshotAgrees, UnloadIsQuiet, ServedAreKnown, Entries, EntriesWithout, vars,
       naming
<1>2. CASE \E f \in Files : LoadFile(f)
  BY <1>2, LoadFileKeeps
<1>3. CASE \E l \in Linked : RegisterLinked(l)
  BY <1>3, RegisterLinkedKeeps
<1>4. CASE \E r \in Regs : Retire(r)
  BY <1>4, RetireKeeps
<1>5. CASE Collect
  BY <1>5, CollectKeeps
<1>6. CASE Unload
  BY <1>6, UnloadBeginKeeps, UnloadCountedKeeps, UnloadRefusedKeeps, UnloadAgreedKeeps
    DEF Unload, UnloadBusy, UnloadDeclined
<1>7. CASE Refresh
  BY <1>7, RefreshBeginKeeps, RefreshEndKeeps, RefreshGoneKeeps, RefreshPassesKeeps, RefreshOpensKeeps
     DEF Refresh
<1>8. CASE Handles
  BY <1>8, TakeHandleKeeps, PinHandleKeeps, DropHandleKeeps DEF Handles
<1>9. CASE DropRegistry
  BY <1>9, DropRegistryKeeps
<1>10. CASE \E t \in KeyTemplates : KeyedBy(t)
  BY <1>10, KeyedByKeeps
<1>11. CASE \E t \in LibraryKeyTemplates : LibrariesKeyedBy(t)
  BY <1>11, LibrariesKeyedByKeeps
<1>12. CASE \E c \in Candidates : SourceChanges(c)
  BY <1>12, SourceChangesKeeps
<1> QED BY <1>1, <1>2, <1>3, <1>4, <1>5, <1>6, <1>7, <1>8, <1>9, <1>10, <1>11, <1>12 DEF Next

\* The registry is always in a state the invariant describes.
THEOREM RegistryInv == Spec => []RInv
<1>1. Init => RInv
  BY InitRInv
<1>2. RInv /\ [Next]_vars => RInv'
  BY NextRInv
<1> QED BY <1>1, <1>2, PTL DEF Spec

\* Every library in use has its code: its image is counted.
LEMMA InUseReachCode ==
  ASSUME RInv, NEW r \in Regs, lib[r].state \in InUse
  PROVE  CodeIsThere(r)
<1>1. ASSUME lib[r].place \in Files
      PROVE  opens[Image[lib[r].place]] > 0
  <2> DEFINE i == Image[lib[r].place]
             U == UsersOf(lib, i)
  <2>1. i \in Images /\ opens[i] \in Nat
    BY <1>1, RegistryAssumption, Types
  <2>2. r \in U /\ U \in SUBSET Regs
    BY <1>1 DEF UsersOf
  <2>3. Cardinality(U) <= opens[i]
    BY <2>1 DEF RInv, Counted
  <2> HIDE DEF U, i
  <2>4. opens[i] > 0
    BY <2>1, <2>3, <2>2, RegsFinite, FS_EmptySet
  <2> QED BY <2>4 DEF i
<1> QED BY <1>1 DEF CodeIsThere, InUse

\* No handle, pin or answer of the services outlives its library's code, for any
\* libraries, images and handles (registry.rs, raw/lease.rs, raw/image.rs).
THEOREM HandlesReach == Spec => []HandlesReachCode
<1>1. RInv => HandlesReachCode
  <2> SUFFICES ASSUME RInv, NEW r \in Regs,
                      \/ holds[r] > 0
                      \/ \E p \in published : p.reg = r
                      \/ lib[r].state \in {"loaded", "leaving"}
               PROVE  CodeIsThere(r)
    BY DEF HandlesReachCode
  <2> QED BY PublishedAreLoaded, InUseReachCode DEF RInv, HeldAreInUse, InUse
<1> QED BY <1>1, RegistryInv, PTL

\* unload decides by the handles there really are, however they come and go while
\* it counts and asks (holds_besides_own, unload).
THEOREM CountTrue == Spec => []CountIsTrue
<1>1. RInv => CountIsHandles
  BY OthersAreHandles DEF CountIsHandles
<1>2. RInv => CountStands
  BY DEF CountStands, RInv, UnloadIsQuiet, UnloadAt
<1> QED BY <1>1, <1>2, RegistryInv, PTL DEF CountIsTrue

\* What is looked up and what libraries are shown is what is registered, whatever
\* is loaded, taken out, renamed or refreshed (absorb_file, take_library, keyed_by).
THEOREM IndexExact == Spec => []IndexIsExact
<1>1. RInv => IndexIsExact
  BY DEF IndexIsExact, RInv, Apart, LibrariesApart, Registered, Indexed, KeysAreExact
<1> QED BY <1>1, RegistryInv, PTL

\* A source is told once of each library it opened that the registry let go
\* (refresh, collect, Origin::close).
THEOREM SourceTold == Spec => []SourceIsTold
<1>1. RInv => SourceIsTold
  BY DEF RInv, Counted, SourceIsTold, OpenedAt
<1> QED BY <1>1, RegistryInv, PTL

-----------------------------------------------------------------------------
(* Wasm.                                                                   *)

\* The entries inside a library, which have its lock.
InPcs == {"settle", "told", "guest"}
EntryOf == [lib : WasmLibraries, pc : {"lock", "settle", "told", "guest", "defer"}, calls : BOOLEAN,
            goal : Nat, todo : Seq(Nat)]

InSeq(i, q) == \E k \in 1 .. Len(q) : q[k] = i
Entered(s, l) == \E k \in 1 .. Len(s) : s[k].lib = l /\ s[k].pc \in InPcs
Names(s, l, i) == \E k \in 1 .. Len(s) : s[k].lib = l /\ InSeq(i, s[k].todo)

\* What is let go of is nobody's.
LetGo(l, q, an, hd) == \A i \in 1 .. Len(q) : q[i] \in 1 .. an[l] /\ q[i] \notin hd[l]

EntryFits(t, e, lk, st, an, id, hd) ==
  /\ e.pc \in InPcs => lk[e.lib] = t
  /\ e.pc = "guest" => st[e.lib] = TRUE /\ e.todo = <<>>
  /\ e.pc = "told" => e.todo # <<>> /\ e.todo[1] \notin id[e.lib]
  /\ e.pc = "lock" => e.calls = FALSE \/ e.todo = <<>>
  /\ LetGo(e.lib, e.todo, an, hd)

\* A thread is inside each library once, and waits for a lock inside none.
Piled(s) ==
  /\ \A k \in 1 .. Len(s) : k < Len(s) => s[k].pc \in {"told", "guest"}
  /\ \A k \in 1 .. Len(s) : s[k].pc = "lock" => Len(s) = 1
  /\ \A k, m \in 1 .. Len(s) : k # m => s[k].pc \notin InPcs \/ s[m].pc \notin InPcs \/ s[k].lib # s[m].lib

StackFits(t, s, lk, st, an, id, hd) ==
  /\ Piled(s)
  /\ \A k \in 1 .. Len(s) : EntryFits(t, s[k], lk, st, an, id, hd)
  /\ \A l \in WasmLibraries : lk[l] = t => Entered(s, l)

KnowsGuest(l, st, an, id, gs, hd, lg) ==
  /\ id[l] = gs[l] /\ (id[l] # {} => st[l] = TRUE)
  /\ an[l] <= MaxAnswered[l] /\ id[l] \subseteq 1 .. an[l] /\ hd[l] \subseteq 1 .. an[l]
  /\ LetGo(l, lg[l], an, hd)

WasmTold(l, id, hd, ls, lg, ent) ==
  /\ \A i \in hd[l] : i \in id[l] \/ i \in ls[l]
  /\ \A i \in id[l] : i \in hd[l] \/ InSeq(i, lg[l]) \/ \E t \in WasmThreads : Names(ent[t], l, i)

WasmInv ==
  /\ locked \in [WasmLibraries -> WasmThreads \cup {Unlocked}]
  /\ poisoned \in [WasmLibraries -> BOOLEAN] /\ store \in [WasmLibraries -> BOOLEAN]
  /\ answers \in [WasmLibraries -> Nat]
  /\ ids \in [WasmLibraries -> SUBSET Nat] /\ guest \in [WasmLibraries -> SUBSET Nat]
  /\ heldIds \in [WasmLibraries -> SUBSET Nat] /\ lostIds \in [WasmLibraries -> SUBSET Nat]
  /\ lateGone \in [WasmLibraries -> Seq(Nat)] /\ entries \in [WasmThreads -> Seq(EntryOf)]
  /\ \A t \in WasmThreads : StackFits(t, entries[t], locked, store, answers, ids, heldIds)
  /\ \A l \in WasmLibraries : KnowsGuest(l, store, answers, ids, guest, heldIds, lateGone)
  /\ \A l \in WasmLibraries : poisoned[l] = FALSE => WasmTold(l, ids, heldIds, lostIds, lateGone, entries)

\* At most the top of a thread's entries changes, which is of one library.
Tip(s, o, n, l) ==
  /\ n \in Nat /\ s \in Seq(EntryOf)
  /\ n = Len(o) \/ (n + 1 = Len(o) /\ o[n + 1].lib = l)
  /\ \A k \in 1 .. n : s[k] = o[k]
  /\ Len(s) = n \/ (Len(s) = n + 1 /\ s[n + 1].lib = l /\ \A k \in 1 .. n : o[k].pc \in {"told", "guest"})

\* No other library changes.
Elsewhere(l, lk, po, st, an, id, gs, hd, ls, lg) ==
  /\ lk \in [WasmLibraries -> WasmThreads \cup {Unlocked}] /\ po \in [WasmLibraries -> BOOLEAN]
  /\ st \in [WasmLibraries -> BOOLEAN] /\ an \in [WasmLibraries -> Nat]
  /\ id \in [WasmLibraries -> SUBSET Nat] /\ gs \in [WasmLibraries -> SUBSET Nat]
  /\ hd \in [WasmLibraries -> SUBSET Nat] /\ ls \in [WasmLibraries -> SUBSET Nat]
  /\ lg \in [WasmLibraries -> Seq(Nat)]
  /\ \A m \in WasmLibraries : m # l => /\ lk[m] = locked[m] /\ st[m] = store[m] /\ an[m] = answers[m]
                                       /\ id[m] = ids[m] /\ hd[m] = heldIds[m]
  /\ \A m \in WasmLibraries : m # l => /\ po[m] = poisoned[m] /\ gs[m] = guest[m]
                                       /\ ls[m] = lostIds[m] /\ lg[m] = lateGone[m]

\* The library changes only for the thread that has its lock.
Alone(t, l, n, o, s, lk, st, an, id, hd) ==
  /\ an[l] >= answers[l] /\ \A i \in hd[l] : i \in heldIds[l] \/ i > answers[l]
  /\ \A u \in WasmThreads : u # t => (lk[l] = u => locked[l] = u)
  /\ \A u \in WasmThreads : u # t => (locked[l] = u => lk[l] = u /\ st[l] = store[l] /\ id[l] = ids[l])
  /\ \A k \in 1 .. n : o[k].pc \in InPcs /\ o[k].lib = l => lk[l] = locked[l] /\ st[l] = store[l] /\ id[l] = ids[l]
  /\ Len(s) = n + 1 => EntryFits(t, s[n + 1], lk, st, an, id, hd)
  /\ Len(s) = n + 1 /\ s[n + 1].pc = "lock" => n = 0
  /\ Len(s) = n + 1 /\ s[n + 1].pc \in InPcs => \A k \in 1 .. n : o[k].lib # l
  /\ lk[l] = t => Entered(s, l)

\* One thread steps, at one library, at the top of its entries.
LEMMA StackSteps ==
  ASSUME WasmInv, NEW t \in WasmThreads, NEW l \in WasmLibraries, NEW n,
         NEW o, o = entries[t], NEW s, NEW lk, NEW po, NEW st, NEW an, NEW id, NEW gs, NEW hd, NEW ls, NEW lg,
         Tip(s, o, n, l), Elsewhere(l, lk, po, st, an, id, gs, hd, ls, lg),
         Alone(t, l, n, o, s, lk, st, an, id, hd),
         KnowsGuest(l, st, an, id, gs, hd, lg),
         po[l] = FALSE => WasmTold(l, id, hd, ls, lg, [entries EXCEPT ![t] = s]),
         entries' = [entries EXCEPT ![t] = s], locked' = lk, poisoned' = po, store' = st, answers' = an,
         ids' = id, guest' = gs, heldIds' = hd, lostIds' = ls, lateGone' = lg
  PROVE  WasmInv'
<1> USE DEF Tip, Elsewhere, Alone
<1>1. /\ entries' \in [WasmThreads -> Seq(EntryOf)] /\ entries'[t] = s
      /\ \A u \in WasmThreads : u # t => entries'[u] = entries[u]
  BY DEF WasmInv
<1>2. o \in Seq(EntryOf) /\ StackFits(t, o, locked, store, answers, ids, heldIds)
      /\ answers \in [WasmLibraries -> Nat]
  BY DEF WasmInv
<1>3. PICK p, q : p = Len(s) /\ q = Len(o)
  OBVIOUS
<1>4. p \in Nat /\ q \in Nat /\ (n = q \/ n + 1 = q) /\ (p = n \/ p = n + 1)
  BY <1>2, <1>3
<1>a. ASSUME NEW u \in WasmThreads, NEW e \in EntryOf, EntryFits(u, e, locked, store, answers, ids, heldIds),
             e.pc \in InPcs /\ e.lib = l => lk[l] = locked[l] /\ st[l] = store[l] /\ id[l] = ids[l]
      PROVE  EntryFits(u, e, lk, st, an, id, hd)
  <2>1. e.lib \in WasmLibraries /\ e.todo \in Seq(Nat)
    BY DEF EntryOf
  <2>2. e.pc \in InPcs => lk[e.lib] = u
    BY <1>a, <2>1 DEF EntryFits
  <2>3. e.pc = "guest" => st[e.lib] = TRUE /\ e.todo = <<>>
    BY <1>a, <2>1 DEF EntryFits, InPcs
  <2>4. e.pc = "told" => e.todo # <<>> /\ e.todo[1] \notin id[e.lib]
    BY <1>a, <2>1 DEF EntryFits, InPcs
  <2>5. LetGo(e.lib, e.todo, an, hd)
    <3>1. SUFFICES ASSUME NEW i \in 1 .. Len(e.todo) PROVE e.todo[i] \in 1 .. an[e.lib] /\ e.todo[i] \notin hd[e.lib]
      BY DEF LetGo
    <3>2. e.todo[i] \in 1 .. answers[e.lib] /\ e.todo[i] \notin heldIds[e.lib]
      BY <1>a DEF EntryFits, LetGo
    <3>3. PICK x, a, b : x = e.todo[i] /\ a = answers[e.lib] /\ b = an[e.lib]
      OBVIOUS
    <3>4. x \in 1 .. a /\ a \in Nat /\ b \in Nat
      BY <1>2, <2>1, <3>2, <3>3
    <3>5. CASE e.lib = l
      <4>1. b >= a /\ (x \in hd[l] => x \in heldIds[l] \/ x > a)
        BY <3>3, <3>5
      <4> QED BY <3>2, <3>3, <3>4, <3>5, <4>1
    <3>6. CASE e.lib # l
      BY <3>2, <2>1, <3>6
    <3> QED BY <3>5, <3>6
  <2>6. (e.pc = "lock" => e.calls = FALSE \/ e.todo = <<>>)
    BY <1>a DEF EntryFits
  <2> QED BY <2>2, <2>3, <2>4, <2>5, <2>6 DEF EntryFits
<1>5. StackFits(t, s, lk, st, an, id, hd)
  <2>1. Piled(s)
    <3>1. ASSUME NEW k \in 1 .. p, k < p PROVE s[k].pc \in {"told", "guest"}
      <4>1. CASE p = n
        <5>1. k \in 1 .. q /\ k < q /\ k \in 1 .. n
          BY <1>4, <3>1, <4>1
        <5> QED BY <1>2, <1>3, <5>1 DEF StackFits, Piled
      <4>2. CASE p = n + 1
        <5>1. Len(s) # n
          BY <1>3, <4>2
        <5> QED BY <3>1, <4>2, <5>1
      <4> QED BY <1>4, <4>1, <4>2
    <3>2. ASSUME NEW k \in 1 .. p, s[k].pc = "lock" PROVE p = 1
      <4>1. CASE k \in 1 .. n
        <5>1. k \in 1 .. q /\ o[k].pc = "lock"
          BY <1>4, <3>2, <4>1
        <5>2. q = 1
          BY <1>2, <1>3, <5>1 DEF StackFits, Piled
        <5>3. n = 1
          BY <1>4, <4>1, <5>2
        <5>4. k = 1
          BY <5>3, <4>1
        <5>5. p = n
          <6>1. SUFFICES ASSUME p = n + 1 PROVE FALSE
            BY <1>4
          <6>2. o[k].pc \in {"told", "guest"}
            BY <4>1, <1>3, <6>1
          <6> QED BY <5>1, <6>2
        <5> QED BY <5>3, <5>5
      <4>2. CASE k \notin 1 .. n
        BY <1>4, <4>2, <1>3, <3>2
      <4> QED BY <4>1, <4>2
    <3>3. ASSUME NEW k \in 1 .. p, NEW m \in 1 .. p, k # m, s[k].pc \in InPcs, s[m].pc \in InPcs
          PROVE  s[k].lib # s[m].lib
      <4>1. CASE k \in 1 .. n /\ m \in 1 .. n
        <5>1. k \in 1 .. q /\ m \in 1 .. q /\ s[k] = o[k] /\ s[m] = o[m]
          BY <1>4, <4>1
        <5> QED BY <1>2, <1>3, <3>3, <5>1 DEF StackFits, Piled
      <4>2. CASE k \notin 1 .. n
        <5>1. p = n + 1 /\ k = n + 1 /\ m \in 1 .. n
          BY <1>4, <3>3, <4>2
        <5>2. s[k].lib = l
          BY <1>3, <5>1
        <5>3. o[m].lib # l
          BY <1>3, <3>3, <5>1
        <5> QED BY <5>1, <5>2, <5>3
      <4>3. CASE m \notin 1 .. n
        <5>1. p = n + 1 /\ m = n + 1 /\ k \in 1 .. n
          BY <1>4, <3>3, <4>3
        <5>2. s[m].lib = l
          BY <1>3, <5>1
        <5>3. o[k].lib # l
          BY <1>3, <3>3, <5>1
        <5> QED BY <5>1, <5>2, <5>3
      <4> QED BY <4>1, <4>2, <4>3
    <3> QED BY <1>3, <3>1, <3>2, <3>3 DEF Piled
  <2>2. ASSUME NEW k \in 1 .. p PROVE EntryFits(t, s[k], lk, st, an, id, hd)
    <3>1. CASE k \in 1 .. n
      <4>1. k \in 1 .. q /\ s[k] = o[k]
        BY <1>4, <3>1
      <4>2. EntryFits(t, o[k], locked, store, answers, ids, heldIds) /\ o[k] \in EntryOf
        BY <1>2, <1>3, <4>1 DEF StackFits
      <4>3. PICK e \in EntryOf : e = o[k]
        BY <4>2
      <4>4. EntryFits(t, e, lk, st, an, id, hd)
        BY <1>a, <4>2, <3>1, <4>3
      <4> QED BY <4>1, <4>3, <4>4
    <3>2. CASE k \notin 1 .. n
      BY <1>3, <1>4, <3>2
    <3> QED BY <3>1, <3>2
  <2>3. ASSUME NEW m \in WasmLibraries, lk[m] = t PROVE Entered(s, m)
    <3>1. CASE m = l
      BY <2>3, <3>1
    <3>2. CASE m # l
      <4>1. Entered(o, m)
        BY <1>2, <2>3, <3>2 DEF StackFits
      <4>2. PICK k \in 1 .. q : o[k].lib = m /\ o[k].pc \in InPcs
        BY <1>3, <4>1 DEF Entered
      <4>3. k \in 1 .. n
        <5>1. SUFFICES ASSUME k \notin 1 .. n PROVE FALSE
          OBVIOUS
        <5>2. q = n + 1 /\ k = n + 1
          BY <1>4, <5>1
        <5>3. o[n + 1].lib = l
          BY <1>3, <5>2
        <5> QED BY <3>2, <4>2, <5>2, <5>3
      <4>4. k \in 1 .. p /\ s[k] = o[k]
        BY <1>4, <4>3
      <4> QED BY <1>3, <4>2, <4>4 DEF Entered
    <3> QED BY <3>1, <3>2
  <2> QED BY <1>3, <2>1, <2>2, <2>3 DEF StackFits
<1>6. ASSUME NEW u \in WasmThreads, u # t PROVE StackFits(u, entries[u], lk, st, an, id, hd)
  <2>1. PICK v \in Seq(EntryOf) : v = entries[u]
    BY DEF WasmInv
  <2>2. StackFits(u, v, locked, store, answers, ids, heldIds)
    BY <2>1 DEF WasmInv
  <2>3. ASSUME NEW k \in 1 .. Len(v) PROVE EntryFits(u, v[k], lk, st, an, id, hd)
    <3>1. PICK e \in EntryOf : e = v[k]
      OBVIOUS
    <3>2. EntryFits(u, e, locked, store, answers, ids, heldIds)
      BY <2>2, <3>1 DEF StackFits
    <3>3. e.pc \in InPcs /\ e.lib = l => lk[l] = locked[l] /\ st[l] = store[l] /\ id[l] = ids[l]
      BY <1>6, <3>2 DEF EntryFits
    <3>4. EntryFits(u, e, lk, st, an, id, hd)
      BY <1>a, <3>2, <3>3
    <3> QED BY <3>1, <3>4
  <2>4. ASSUME NEW m \in WasmLibraries, lk[m] = u PROVE Entered(v, m)
    <3>1. locked[m] = u
      BY <1>6, <2>4
    <3> QED BY <2>2, <3>1 DEF StackFits
  <2> QED BY <2>1, <2>2, <2>3, <2>4 DEF StackFits
<1>7. ASSUME NEW u \in WasmThreads PROVE StackFits(u, entries'[u], lk, st, an, id, hd)
  BY <1>1, <1>5, <1>6
<1>8. ASSUME NEW m \in WasmLibraries PROVE KnowsGuest(m, st, an, id, gs, hd, lg)
  <2>1. CASE m # l
    BY <2>1 DEF KnowsGuest, LetGo, WasmInv
  <2> QED BY <2>1
<1>9. ASSUME NEW m \in WasmLibraries, po[m] = FALSE PROVE WasmTold(m, id, hd, ls, lg, [entries EXCEPT ![t] = s])
  <2>1. CASE m # l
    <3>1. id[m] = ids[m] /\ hd[m] = heldIds[m] /\ ls[m] = lostIds[m] /\ lg[m] = lateGone[m] /\ poisoned[m] = FALSE
      BY <1>9, <2>1
    <3>2. WasmTold(m, ids, heldIds, lostIds, lateGone, entries)
      BY <3>1 DEF WasmInv
    <3>3. ASSUME NEW i \in id[m], NEW u \in WasmThreads, Names(entries[u], m, i)
          PROVE  Names([entries EXCEPT ![t] = s][u], m, i)
      <4>1. CASE u # t
        BY <1>1, <3>3, <4>1
      <4>2. CASE u = t
        <5>1. PICK k \in 1 .. q : o[k].lib = m /\ InSeq(i, o[k].todo)
          BY <1>3, <3>3, <4>2 DEF Names
        <5>2. k \in 1 .. n
          <6>1. SUFFICES ASSUME k \notin 1 .. n PROVE FALSE
            OBVIOUS
          <6>2. q = n + 1 /\ k = n + 1
            BY <1>4, <6>1
          <6>3. o[n + 1].lib = l
            BY <1>3, <6>2
          <6> QED BY <2>1, <5>1, <6>2, <6>3
        <5>3. k \in 1 .. p /\ s[k] = o[k]
          BY <1>4, <5>2
        <5>4. Names(s, m, i)
          BY <1>3, <5>1, <5>3 DEF Names
        <5> QED BY <1>1, <4>2, <5>4
      <4> QED BY <4>1, <4>2
    <3> QED BY <3>1, <3>2, <3>3 DEF WasmTold
  <2> QED BY <1>9, <2>1
<1> QED BY <1>1, <1>7, <1>8, <1>9 DEF WasmInv

LEMMA Tops ==
  ASSUME NEW s \in Seq(EntryOf), s # <<>>
  PROVE  \E n \in Nat : /\ Len(s) = n + 1 /\ Len(Front(s)) = n /\ Front(s) \in Seq(EntryOf)
                        /\ Last(s) = s[n + 1] /\ s[n + 1] \in EntryOf
                        /\ \A k \in 1 .. n : Front(s)[k] = s[k]
<1>1. PICK n \in Nat : Len(s) = n + 1
  OBVIOUS
<1>2. Front(s) = [k \in 1 .. n |-> s[k]]
  BY <1>1 DEF Front
<1>3. Front(s) \in Seq(EntryOf) /\ Len(Front(s)) = n
  BY <1>1, <1>2
<1> QED BY <1>1, <1>2, <1>3 DEF Last

LEMMA Puts ==
  ASSUME NEW s \in Seq(EntryOf), NEW n \in Nat, Len(s) = n, NEW e \in EntryOf
  PROVE  /\ Append(s, e) \in Seq(EntryOf) /\ Len(Append(s, e)) = n + 1 /\ Append(s, e)[n + 1] = e
         /\ \A k \in 1 .. n : Append(s, e)[k] = s[k]
OBVIOUS

\* What the guest was told of, or waits to be.
WasmWaits(i, s, o, n, l, hd, lg) ==
  \/ i \in hd[l] \/ InSeq(i, lg[l]) \/ Names(s, l, i)
  \/ /\ i \in ids[l] /\ i \notin heldIds[l] /\ ~InSeq(i, lateGone[l])
     /\ Len(o) = n + 1 => ~InSeq(i, o[n + 1].todo)

LEMMA ToldStays ==
  ASSUME WasmInv, NEW t \in WasmThreads, NEW l, NEW o, NEW s, NEW n, o = entries[t], Tip(s, o, n, l),
         NEW id, NEW hd, NEW ls, NEW lg,
         WasmTold(l, ids, heldIds, lostIds, lateGone, entries),
         \A i \in hd[l] : i \in id[l] \/ i \in ls[l],
         \A i \in id[l] : WasmWaits(i, s, o, n, l, hd, lg)
  PROVE  WasmTold(l, id, hd, ls, lg, [entries EXCEPT ![t] = s])
<1> DEFINE ent == [entries EXCEPT ![t] = s]
<1>0. n \in Nat /\ entries \in [WasmThreads -> Seq(EntryOf)] /\ (Len(o) = n \/ Len(o) = n + 1)
      /\ Len(s) \in Nat /\ n <= Len(s) /\ \A k \in 1 .. n : s[k] = o[k]
  <2>1. n \in Nat /\ (Len(o) = n \/ Len(o) = n + 1) /\ (Len(s) = n \/ Len(s) = n + 1)
        /\ \A k \in 1 .. n : s[k] = o[k]
    BY DEF Tip
  <2>2. PICK p : p = Len(s)
    OBVIOUS
  <2>3. p \in Nat /\ n <= p
    BY <2>1, <2>2
  <2>4. entries \in [WasmThreads -> Seq(EntryOf)]
    BY DEF WasmInv
  <2> QED BY <2>1, <2>2, <2>3, <2>4
<1>a. ent[t] = s /\ \A u \in WasmThreads : u # t => ent[u] = entries[u]
  BY <1>0
<1> HIDE DEF ent
<1>1. ASSUME NEW i \in id[l], i \in ids[l], i \notin heldIds[l], ~InSeq(i, lateGone[l]),
             Len(o) = n + 1 => ~InSeq(i, o[n + 1].todo)
      PROVE  \E u \in WasmThreads : Names(ent[u], l, i)
  <2>1. PICK u \in WasmThreads : Names(entries[u], l, i)
    BY <1>1 DEF WasmTold
  <2>2. CASE u # t
    BY <1>a, <2>1, <2>2
  <2>3. CASE u = t
    <3>1. PICK k \in 1 .. Len(o) : o[k].lib = l /\ InSeq(i, o[k].todo)
      BY <2>1, <2>3 DEF Names
    <3>2. k \in 1 .. n
      <4>1. SUFFICES ASSUME k \notin 1 .. n PROVE FALSE
        OBVIOUS
      <4>2. PICK q : q = Len(o)
        OBVIOUS
      <4>3. q = n + 1 /\ k = n + 1
        BY <1>0, <4>1, <4>2
      <4> QED BY <1>1, <3>1, <4>2, <4>3
    <3>3. PICK p \in Nat : p = Len(s)
      BY <1>0
    <3>4. Names(s, l, i)
      BY <3>1, <3>3, <1>0, <3>2 DEF Names
    <3> QED BY <1>a, <3>4
  <2> QED BY <2>2, <2>3
<1>2. ASSUME NEW i \in id[l] PROVE i \in hd[l] \/ InSeq(i, lg[l]) \/ \E u \in WasmThreads : Names(ent[u], l, i)
  <2>1. CASE Names(s, l, i)
    BY <1>a, <2>1
  <2> QED BY <1>1, <2>1 DEF WasmWaits
<1>3. WasmTold(l, id, hd, ls, lg, ent)
  BY <1>2 DEF WasmTold
<1> QED BY <1>3 DEF ent

\* The entry a thread is inside has its library's lock, and none below is of it.
LEMMA TopIsInside ==
  ASSUME WasmInv, NEW t \in WasmThreads, NEW o, o = entries[t], o # <<>>, Last(o).pc \in InPcs
  PROVE  \E n \in Nat, e \in EntryOf :
           /\ Len(o) = n + 1 /\ Len(Front(o)) = n /\ Front(o) \in Seq(EntryOf) /\ Last(o) = e /\ o[n + 1] = e
           /\ \A k \in 1 .. n : Front(o)[k] = o[k] /\ o[k].pc \in {"told", "guest"} /\ o[k].lib # e.lib
           /\ locked[e.lib] = t /\ EntryFits(t, e, locked, store, answers, ids, heldIds)
<1>1. o \in Seq(EntryOf) /\ StackFits(t, o, locked, store, answers, ids, heldIds)
  BY DEF WasmInv
<1>2. PICK n \in Nat : /\ Len(o) = n + 1 /\ Len(Front(o)) = n /\ Front(o) \in Seq(EntryOf)
                       /\ Last(o) = o[n + 1] /\ o[n + 1] \in EntryOf
                       /\ \A k \in 1 .. n : Front(o)[k] = o[k]
  BY <1>1, Tops
<1>3. n + 1 \in 1 .. n + 1
  OBVIOUS
<1>4. EntryFits(t, o[n + 1], locked, store, answers, ids, heldIds)
  BY <1>1, <1>2, <1>3 DEF StackFits
<1>5. ASSUME NEW k \in 1 .. n PROVE o[k].pc \in {"told", "guest"} /\ o[k].lib # o[n + 1].lib
  <2>1. k \in 1 .. n + 1 /\ k < n + 1 /\ k # n + 1
    OBVIOUS
  <2>2. o[k].pc \in {"told", "guest"}
    BY <1>1, <1>2, <2>1 DEF StackFits, Piled
  <2>3. o[k].pc \in InPcs /\ o[n + 1].pc \in InPcs
    BY <1>2, <2>2 DEF InPcs
  <2> QED BY <1>1, <1>2, <1>3, <2>1, <2>2, <2>3 DEF StackFits, Piled
<1>6. locked[o[n + 1].lib] = t
  BY <1>2, <1>4 DEF EntryFits
<1> QED BY <1>2, <1>4, <1>5, <1>6

\* A thread goes on inside a library: d is its entry after e.
Inner(l, e, d, st, id, gs, ls) ==
  /\ d \in EntryOf /\ d.lib = l /\ d.pc \in InPcs
  /\ st \in [WasmLibraries -> BOOLEAN] /\ id \in [WasmLibraries -> SUBSET Nat]
  /\ gs \in [WasmLibraries -> SUBSET Nat] /\ ls \in [WasmLibraries -> SUBSET Nat]
  /\ \A m \in WasmLibraries : m # l => /\ st[m] = store[m] /\ id[m] = ids[m] /\ gs[m] = guest[m]
                                       /\ ls[m] = lostIds[m]
  /\ d.pc = "guest" => st[l] = TRUE /\ d.todo = <<>>
  /\ d.pc = "told" => d.todo # <<>> /\ d.todo[1] \notin id[l]
  /\ LetGo(l, d.todo, answers, heldIds)
  /\ id[l] = gs[l] /\ (id[l] # {} => st[l] = TRUE) /\ id[l] \subseteq ids[l]
  /\ \A i \in ids[l] : i \in heldIds[l] => i \in id[l] \/ i \in ls[l]
  /\ \A i \in lostIds[l] : i \in ls[l]
  /\ \A i \in id[l] : InSeq(i, e.todo) => InSeq(i, d.todo)

LEMMA StaysInside ==
  ASSUME WasmInv, NEW t \in WasmThreads, NEW o, o = entries[t], o # <<>>, Last(o).pc \in InPcs,
         NEW l \in WasmLibraries, l = Last(o).lib, NEW d, NEW st, NEW id, NEW gs, NEW ls,
         Inner(l, Last(o), d, st, id, gs, ls),
         entries' = [entries EXCEPT ![t] = Append(Front(o), d)],
         store' = st, ids' = id, guest' = gs, lostIds' = ls,
         UNCHANGED <<locked, poisoned, answers, heldIds, lateGone>>
  PROVE  WasmInv'
<1>1. PICK n \in Nat, e \in EntryOf :
           /\ Len(o) = n + 1 /\ Len(Front(o)) = n /\ Front(o) \in Seq(EntryOf) /\ Last(o) = e /\ o[n + 1] = e
           /\ \A k \in 1 .. n : Front(o)[k] = o[k] /\ o[k].pc \in {"told", "guest"} /\ o[k].lib # e.lib
           /\ locked[e.lib] = t /\ EntryFits(t, e, locked, store, answers, ids, heldIds)
  BY TopIsInside
<1> USE DEF Inner
<1>2. PICK s : s = Append(Front(o), d)
  OBVIOUS
<1>3. s \in Seq(EntryOf) /\ Len(s) = n + 1 /\ s[n + 1] = d /\ \A k \in 1 .. n : s[k] = o[k]
  BY <1>1, <1>2, Puts
<1>4. /\ locked \in [WasmLibraries -> WasmThreads \cup {Unlocked}] /\ poisoned \in [WasmLibraries -> BOOLEAN]
      /\ answers \in [WasmLibraries -> Nat] /\ heldIds \in [WasmLibraries -> SUBSET Nat]
      /\ lateGone \in [WasmLibraries -> Seq(Nat)] /\ entries \in [WasmThreads -> Seq(EntryOf)]
      /\ KnowsGuest(l, store, answers, ids, guest, heldIds, lateGone)
      /\ (poisoned[l] = FALSE => WasmTold(l, ids, heldIds, lostIds, lateGone, entries))
  BY DEF WasmInv
<1>5. locked[l] = t /\ e.lib = l
  BY <1>1
<1>6. KnowsGuest(l, st, answers, id, gs, heldIds, lateGone)
  BY <1>4 DEF KnowsGuest
<1>7. EntryFits(t, d, locked, st, answers, id, heldIds)
  BY <1>5 DEF EntryFits, InPcs
<1>8. n + 1 \in 1 .. n + 1
  OBVIOUS
<1>b. Tip(s, o, n, l)
  BY <1>1, <1>3, <1>5 DEF Tip
<1>9. ASSUME poisoned[l] = FALSE PROVE WasmTold(l, id, heldIds, ls, lateGone, [entries EXCEPT ![t] = s])
  <2>1. WasmTold(l, ids, heldIds, lostIds, lateGone, entries)
    BY <1>4, <1>9
  <2>2. \A i \in heldIds[l] : i \in id[l] \/ i \in ls[l]
    BY <2>1 DEF WasmTold
  <2>3. ASSUME NEW i \in id[l] PROVE WasmWaits(i, s, o, n, l, heldIds, lateGone)
    <3>1. CASE InSeq(i, e.todo)
      BY <1>3, <1>8, <1>1, <3>1 DEF WasmWaits, Names
    <3>2. CASE ~InSeq(i, e.todo)
      BY <1>1, <3>2 DEF WasmWaits
    <3> QED BY <3>1, <3>2
  <2> QED BY <1>b, <2>1, <2>2, <2>3, ToldStays
<1>a. Elsewhere(l, locked, poisoned, st, answers, id, gs, heldIds, ls, lateGone)
  BY <1>4 DEF Elsewhere
<1>c. Alone(t, l, n, o, s, locked, st, answers, id, heldIds)
  <2>1. Entered(s, l)
    BY <1>3, <1>8 DEF Entered
  <2>2. d.pc # "lock"
    BY DEF InPcs
  <2>3. \A k \in 1 .. n : o[k].lib # l
    BY <1>1, <1>5
  <2>4. answers[l] >= answers[l]
    BY <1>4
  <2> QED BY <1>3, <1>5, <1>7, <2>1, <2>2, <2>3, <2>4 DEF Alone
<1> QED BY <1>2, <1>6, <1>9, <1>a, <1>b, <1>c, StackSteps

\* A thread leaves the innermost library it is inside.
LEMMA StepsOut ==
  ASSUME WasmInv, NEW t \in WasmThreads, NEW o, o = entries[t], o # <<>>, Last(o).pc \in InPcs,
         NEW l \in WasmLibraries, l = Last(o).lib,
         NEW lk, NEW po, NEW st, NEW an, NEW id, NEW gs, NEW hd, NEW ls,
         Elsewhere(l, lk, po, st, an, id, gs, hd, ls, lateGone), lk[l] = Unlocked,
         an[l] >= answers[l], \A i \in hd[l] : i \in heldIds[l] \/ i > answers[l],
         KnowsGuest(l, st, an, id, gs, hd, lateGone),
         po[l] = FALSE => /\ poisoned[l] = FALSE /\ \A i \in hd[l] : i \in id[l] \/ i \in ls[l]
                          /\ \A i \in id[l] : i \in hd[l] \/ (i \in ids[l] /\ i \notin heldIds[l] /\ Last(o).todo = <<>>),
         entries' = [entries EXCEPT ![t] = Front(o)], locked' = lk, poisoned' = po, store' = st, answers' = an,
         ids' = id, guest' = gs, heldIds' = hd, lostIds' = ls, UNCHANGED lateGone
  PROVE  WasmInv'
<1>1. PICK n \in Nat, e \in EntryOf :
           /\ Len(o) = n + 1 /\ Len(Front(o)) = n /\ Front(o) \in Seq(EntryOf) /\ Last(o) = e /\ o[n + 1] = e
           /\ \A k \in 1 .. n : Front(o)[k] = o[k] /\ o[k].pc \in {"told", "guest"} /\ o[k].lib # e.lib
           /\ locked[e.lib] = t /\ EntryFits(t, e, locked, store, answers, ids, heldIds)
  BY TopIsInside
<1>2. PICK s : s = Front(o)
  OBVIOUS
<1>3. Tip(s, o, n, l)
  BY <1>1, <1>2 DEF Tip
<1>4. Alone(t, l, n, o, s, lk, st, an, id, hd)
  BY <1>1, WasmAssumption, <1>2 DEF Alone
<1>5. ASSUME po[l] = FALSE PROVE WasmTold(l, id, hd, ls, lateGone, [entries EXCEPT ![t] = s])
  <2>1. WasmTold(l, ids, heldIds, lostIds, lateGone, entries)
    BY <1>5 DEF WasmInv
  <2>2. \A i \in hd[l] : i \in id[l] \/ i \in ls[l]
    BY <1>5
  <2>3. ASSUME NEW i \in id[l] PROVE WasmWaits(i, s, o, n, l, hd, lateGone)
    <3>1. CASE i \in hd[l]
      BY <3>1 DEF WasmWaits
    <3>2. CASE i \in ids[l] /\ i \notin heldIds[l] /\ Last(o).todo = <<>>
      BY <3>2, <1>1 DEF WasmWaits, InSeq
    <3> QED BY <1>5, <3>1, <3>2
  <2> QED BY <1>3, <2>1, <2>2, <2>3, ToldStays
<1> QED BY <1>2, <1>3, <1>4, <1>5, StackSteps

\* An entry that is of no lock yet comes or goes: nothing of the library
\* changes but who holds what, and what is deferred.
LEMMA Outside ==
  ASSUME WasmInv, NEW t \in WasmThreads, NEW o, o = entries[t], NEW s, NEW n, NEW l \in WasmLibraries,
         Tip(s, o, n, l), Len(o) = n + 1 => o[n + 1].pc \notin InPcs,
         Len(s) = n + 1 => /\ s[n + 1].pc \in {"lock", "defer"}
                           /\ s[n + 1].pc = "lock" => n = 0 /\ (s[n + 1].calls = FALSE \/ s[n + 1].todo = <<>>)
                           /\ LetGo(l, s[n + 1].todo, answers, heldIds'),
         NEW hd, NEW lg, Elsewhere(l, locked, poisoned, store, answers, ids, guest, hd, lostIds, lg),
         hd[l] \subseteq heldIds[l], LetGo(l, lg[l], answers, hd),
         \A i \in ids[l] : WasmWaits(i, s, o, n, l, hd, lg),
         entries' = [entries EXCEPT ![t] = s], heldIds' = hd, lateGone' = lg,
         UNCHANGED <<locked, poisoned, store, answers, ids, guest, lostIds>>
  PROVE  WasmInv'
<1>1. /\ KnowsGuest(l, store, answers, ids, guest, heldIds, lateGone) /\ answers \in [WasmLibraries -> Nat]
      /\ poisoned[l] = FALSE => WasmTold(l, ids, heldIds, lostIds, lateGone, entries)
      /\ StackFits(t, o, locked, store, answers, ids, heldIds)
  BY DEF WasmInv
<1>2. KnowsGuest(l, store, answers, ids, guest, hd, lg)
  BY <1>1 DEF KnowsGuest
<1>3. ASSUME poisoned[l] = FALSE PROVE WasmTold(l, ids, hd, lostIds, lg, [entries EXCEPT ![t] = s])
  <2>1. \A i \in hd[l] : i \in ids[l] \/ i \in lostIds[l]
    BY <1>1, <1>3 DEF WasmTold
  <2> QED BY <1>1, <1>3, <2>1, ToldStays
<1>4. Alone(t, l, n, o, s, locked, store, answers, ids, hd)
  <2>1. Len(s) = n + 1 => EntryFits(t, s[n + 1], locked, store, answers, ids, hd)
    <3>1. SUFFICES ASSUME Len(s) = n + 1 PROVE EntryFits(t, s[n + 1], locked, store, answers, ids, hd)
      OBVIOUS
    <3>2. s[n + 1].lib = l
      BY <3>1 DEF Tip
    <3>3. s[n + 1].pc \notin InPcs /\ s[n + 1].pc \in {"lock", "defer"}
      BY <3>1 DEF InPcs
    <3>4. LetGo(l, s[n + 1].todo, answers, hd)
      BY <3>1
    <3> QED BY <3>1, <3>2, <3>3, <3>4 DEF EntryFits, InPcs
  <2>2. Len(s) = n + 1 => s[n + 1].pc \notin InPcs
    BY DEF InPcs
  <2>3. locked[l] = t => Entered(s, l)
    <3>1. SUFFICES ASSUME locked[l] = t PROVE Entered(s, l)
      OBVIOUS
    <3>2. PICK k \in 1 .. Len(o) : o[k].lib = l /\ o[k].pc \in InPcs
      BY <1>1, <3>1 DEF Entered, StackFits
    <3>3. PICK p, q : p = Len(s) /\ q = Len(o)
      OBVIOUS
    <3>4. n \in Nat /\ (q = n \/ q = n + 1) /\ (p = n \/ p = n + 1) /\ \A j \in 1 .. n : s[j] = o[j]
      BY <3>3 DEF Tip
    <3>5. k \in 1 .. n
      <4>1. SUFFICES ASSUME k \notin 1 .. n PROVE FALSE
        OBVIOUS
      <4> QED BY <3>2, <3>3, <3>4, <4>1
    <3>6. k \in 1 .. p /\ s[k] = o[k]
      BY <3>4, <3>5
    <3> QED BY <3>2, <3>3, <3>6 DEF Entered
  <2>4. answers[l] >= answers[l]
    BY <1>1
  <2>5. \A i \in hd[l] : i \in heldIds[l]
    OBVIOUS
  <2>6. Len(s) = n + 1 /\ s[n + 1].pc = "lock" => n = 0
    OBVIOUS
  <2> QED BY <2>1, <2>2, <2>3, <2>4, <2>5, <2>6 DEF Alone
<1> QED BY <1>2, <1>3, <1>4, StackSteps

\* What q names is let go of, or nothing is.
LetsGoOf(hd, l, q) ==
  /\ hd \in [WasmLibraries -> SUBSET Nat] /\ \A m \in WasmLibraries : m # l => hd[m] = heldIds[m]
  /\ hd[l] \subseteq heldIds[l] /\ LetGo(l, q, answers, hd)
  /\ \A i \in heldIds[l] : i \in hd[l] \/ InSeq(i, q)

\* A thread takes a library's lock, and with it, to call, what was deferred.
LEMMA TakesIt ==
  ASSUME WasmInv, NEW t \in WasmThreads, NEW o, o = entries[t], NEW n, NEW below, NEW e \in EntryOf,
         NEW l, l = e.lib, Tip(below, o, n, l), Len(below) = n, \A k \in 1 .. n : o[k].pc \in {"told", "guest"},
         Len(o) = n + 1 => o[n + 1].todo = e.todo,
         locked[l] = Unlocked, TakesLock(t, below, e), e.calls = FALSE \/ e.todo = <<>>,
         NEW hd, LetsGoOf(hd, l, e.todo), heldIds' = hd, UNCHANGED <<poisoned, answers, lostIds>>
  PROVE  WasmInv'
<1> USE DEF LetsGoOf
<1>1. /\ locked \in [WasmLibraries -> WasmThreads \cup {Unlocked}]
      /\ poisoned \in [WasmLibraries -> BOOLEAN] /\ store \in [WasmLibraries -> BOOLEAN]
      /\ answers \in [WasmLibraries -> Nat]
      /\ ids \in [WasmLibraries -> SUBSET Nat] /\ guest \in [WasmLibraries -> SUBSET Nat]
      /\ lostIds \in [WasmLibraries -> SUBSET Nat]
      /\ lateGone \in [WasmLibraries -> Seq(Nat)] /\ entries \in [WasmThreads -> Seq(EntryOf)]
      /\ KnowsGuest(l, store, answers, ids, guest, heldIds, lateGone)
      /\ poisoned[l] = FALSE => WasmTold(l, ids, heldIds, lostIds, lateGone, entries)
      /\ l \in WasmLibraries
  BY DEF WasmInv, EntryOf
<1>2. PICK lk, st, id, gs, lg : lk = locked' /\ st = store' /\ id = ids' /\ gs = guest' /\ lg = lateGone'
  OBVIOUS
<1>3. /\ poisoned[l] = TRUE => /\ st = [store EXCEPT ![l] = FALSE] /\ id = [ids EXCEPT ![l] = {}]
                               /\ gs = [guest EXCEPT ![l] = {}]
      /\ poisoned[l] = FALSE => st = store /\ id = ids /\ gs = guest
  BY <1>1, <1>2 DEF TakesLock, Discard, Discarded, Keeps
<1>4. poisoned[l] = TRUE \/ poisoned[l] = FALSE
  BY <1>1
<1>5. /\ st \in [WasmLibraries -> BOOLEAN] /\ id \in [WasmLibraries -> SUBSET Nat]
      /\ gs \in [WasmLibraries -> SUBSET Nat]
      /\ \A m \in WasmLibraries : m # l => st[m] = store[m] /\ id[m] = ids[m] /\ gs[m] = guest[m]
  <2>1. CASE poisoned[l] = TRUE
    BY <1>1, <1>3, <2>1
  <2>2. CASE poisoned[l] = FALSE
    BY <1>1, <1>3, <2>2
  <2> QED BY <1>4, <2>1, <2>2
<1>6. /\ lk \in [WasmLibraries -> WasmThreads \cup {Unlocked}] /\ lg \in [WasmLibraries -> Seq(Nat)]
      /\ lk[l] = t /\ lg[l] = (IF e.calls THEN <<>> ELSE lateGone[l])
      /\ \A m \in WasmLibraries : m # l => lk[m] = locked[m] /\ lg[m] = lateGone[m]
  BY <1>1, <1>2 DEF TakesLock
<1>7. Elsewhere(l, lk, poisoned, st, answers, id, gs, hd, lostIds, lg)
  BY <1>1, <1>5, <1>6 DEF Elsewhere
<1>8. PICK d \in EntryOf : /\ d.lib = l /\ d.pc = "settle" /\ d.todo = (IF e.calls THEN lateGone[l] ELSE e.todo)
                           /\ entries' = [entries EXCEPT ![t] = Append(below, d)]
  <2> DEFINE d == [e EXCEPT !.pc = "settle", !.todo = IF e.calls THEN lateGone[l] ELSE @]
  <2>1. d \in EntryOf /\ d.lib = l /\ d.pc = "settle" /\ d.todo = (IF e.calls THEN lateGone[l] ELSE e.todo)
    BY <1>1 DEF EntryOf
  <2>2. entries' = [entries EXCEPT ![t] = Append(below, d)]
    BY DEF TakesLock
  <2> QED BY <2>1, <2>2
<1>9. PICK s : s = Append(below, d)
  OBVIOUS
<1>10. n \in Nat /\ s \in Seq(EntryOf) /\ Len(s) = n + 1 /\ s[n + 1] = d /\ \A k \in 1 .. n : s[k] = o[k]
  BY <1>9, Puts DEF Tip
<1>11. Tip(s, o, n, l)
  <2>1. n = Len(o) \/ (n + 1 = Len(o) /\ o[n + 1].lib = l)
    BY DEF Tip
  <2>2. Len(s) = n + 1 /\ s[n + 1].lib = l /\ \A k \in 1 .. n : o[k].pc \in {"told", "guest"}
    BY <1>8, <1>10
  <2>3. n \in Nat /\ s \in Seq(EntryOf) /\ \A k \in 1 .. n : s[k] = o[k]
    BY <1>10
  <2> QED BY <2>1, <2>2, <2>3, Zenon DEF Tip
<1>12. KnowsGuest(l, st, answers, id, gs, hd, lg)
  <2>1. LetGo(l, lg[l], answers, hd)
    <3>1. LetGo(l, lateGone[l], answers, hd)
      BY <1>1 DEF LetGo, KnowsGuest
    <3>2. lg[l] = <<>> \/ lg[l] = lateGone[l]
      BY <1>6
    <3>3. LetGo(l, <<>>, answers, hd)
      BY DEF LetGo
    <3> QED BY <3>1, <3>2, <3>3
  <2>2. CASE poisoned[l] = TRUE
    <3>1. id[l] = {} /\ gs[l] = {}
      BY <1>1, <1>3, <2>2
    <3> QED BY <1>1, <2>1, <3>1 DEF KnowsGuest
  <2>3. CASE poisoned[l] = FALSE
    BY <1>1, <1>3, <2>1, <2>3 DEF KnowsGuest
  <2> QED BY <1>4, <2>2, <2>3
<1>13. n + 1 \in 1 .. n + 1
  BY <1>10
<1>14. ASSUME NEW i, InSeq(i, d.todo) PROVE Names(s, l, i)
  BY <1>8, <1>10, <1>13, <1>14 DEF Names
<1>15. ASSUME poisoned[l] = FALSE PROVE WasmTold(l, id, hd, lostIds, lg, [entries EXCEPT ![t] = s])
  <2>1. WasmTold(l, ids, heldIds, lostIds, lateGone, entries) /\ id = ids
    BY <1>1, <1>3, <1>15
  <2>2. \A i \in hd[l] : i \in id[l] \/ i \in lostIds[l]
    BY <2>1 DEF WasmTold
  <2>3. ASSUME NEW i \in id[l] PROVE WasmWaits(i, s, o, n, l, hd, lg)
    <3>1. InSeq(i, e.todo) => Names(s, l, i)
      <4>1. SUFFICES ASSUME InSeq(i, e.todo) PROVE Names(s, l, i)
        OBVIOUS
      <4> QED BY <1>14, <1>8, <4>1 DEF InSeq
    <3>2. InSeq(i, lateGone[l]) => InSeq(i, lg[l]) \/ Names(s, l, i)
      <4>1. CASE e.calls
        BY <1>8, <1>14, <4>1
      <4>2. CASE ~e.calls
        BY <1>6, <4>2
      <4> QED BY <4>1, <4>2
    <3>3. CASE i \in heldIds[l]
      BY <3>1, <3>3 DEF WasmWaits
    <3>4. CASE i \notin heldIds[l]
      BY <2>1, <3>1, <3>2, <3>4 DEF WasmWaits
    <3> QED BY <3>3, <3>4
  <2> QED BY <1>11, <2>1, <2>2, <2>3, ToldStays
<1>16. Alone(t, l, n, o, s, lk, st, answers, id, hd)
  <2>1. ASSUME NEW k \in 1 .. n PROVE o[k].lib # l
    <3>1. k \in 1 .. Len(o)
      <4>1. PICK q : q = Len(o)
        OBVIOUS
      <4> QED BY <4>1, <1>10 DEF Tip
    <3>2. locked[o[k].lib] = t
      BY <3>1 DEF StackFits, EntryFits, WasmInv, InPcs
    <3> QED BY <3>2, WasmAssumption
  <2>2. EntryFits(t, s[n + 1], lk, st, answers, id, hd)
    BY <1>6, <1>8, <1>10, <1>1 DEF EntryFits, KnowsGuest, LetGo
  <2>3. Entered(s, l)
    BY <1>8, <1>10, <1>13 DEF Entered, InPcs
  <2>4. answers[l] >= answers[l]
    BY <1>1
  <2> QED BY <1>6, <1>8, <1>10, <2>1, <2>2, <2>3, <2>4, WasmAssumption DEF Alone
<1>17. entries' = [entries EXCEPT ![t] = s]
  BY <1>8, <1>9
<1> QED BY <1>1, <1>2, <1>7, <1>11, <1>12, <1>15, <1>16, <1>17, StackSteps

\* An entry of a thread begins, or is refused.
LEMMA TriesKeeps ==
  ASSUME WasmInv, NEW t \in WasmThreads, NEW l \in WasmLibraries, NEW e \in EntryOf, e.lib = l, e.pc = "lock",
         TriesLibrary(t, e), e.calls = FALSE \/ e.todo = <<>>,
         NEW hd, LetsGoOf(hd, l, e.todo), heldIds' = hd
  PROVE  WasmInv'
<1>1. PICK o \in Seq(EntryOf) : o = entries[t]
  BY DEF WasmInv
<1>2. PICK n \in Nat : n = Len(o)
  OBVIOUS
<1>3. ASSUME NEW k \in 1 .. n PROVE o[k].pc \in {"told", "guest"}
  <2>1. o # <<>>
    BY <1>2
  <2>2. CASE k = n
    BY <1>2, <1>1, <2>1, <2>2 DEF Last, TriesLibrary, Entry
  <2>3. CASE k # n
    <3>1. k < n
      BY <2>3
    <3> QED BY <1>2, <1>1, <3>1 DEF StackFits, Piled, WasmInv
  <2> QED BY <2>2, <2>3
<1>4. UNCHANGED <<poisoned, answers, lostIds>>
  BY DEF TriesLibrary
<1>5. CASE locked[l] = Unlocked
  <2>1. TakesLock(t, o, e)
    BY <1>1, <1>5 DEF TriesLibrary
  <2>2. Tip(o, o, n, l)
    BY <1>2 DEF Tip
  <2>3. Len(o) # n + 1
    BY <1>2
  <2>4. Len(o) = n + 1 => o[n + 1].todo = e.todo
    BY <2>3
  <2>5. Len(o) = n /\ o = entries[t] /\ \A k \in 1 .. n : o[k].pc \in {"told", "guest"}
    BY <1>1, <1>2, <1>3
  <2>6. l = e.lib /\ (e.calls = FALSE \/ e.todo = <<>>) /\ locked[l] = Unlocked
    BY <1>5
  <2> QED BY <1>4, <2>1, <2>2, <2>4, <2>5, <2>6, TakesIt
<1>6. CASE locked[l] # Unlocked
  <2>1. /\ entries' = [entries EXCEPT ![t] = o \o (IF MayNotWait(t, l) THEN RefusedEntry(e) ELSE <<e>>)]
        /\ UNCHANGED <<store, ids, guest, locked, lateGone>>
    BY <1>1, <1>6 DEF TriesLibrary, Keeps
  <2>2. PICK s : s = o \o (IF MayNotWait(t, l) THEN RefusedEntry(e) ELSE <<e>>)
    OBVIOUS
  <2>3. PICK d : d = [e EXCEPT !.pc = "defer"]
    OBVIOUS
  <2>4. d \in EntryOf /\ d.lib = l /\ d.pc = "defer" /\ d.todo = e.todo
    BY <2>3 DEF EntryOf
  <2>5. \/ e.calls /\ s = o
        \/ ~e.calls /\ s = Append(o, d)
        \/ n = 0 /\ s = Append(o, e)
    <3>1. CASE ~MayNotWait(t, l)
      <4>1. n = 0
        <5>1. SUFFICES ASSUME n # 0 PROVE FALSE
          OBVIOUS
        <5> QED BY <1>1, <1>3, <3>1, <1>2, <5>1 DEF MayNotWait, InsideOne
      <4> QED BY <2>2, <3>1, <4>1
    <3>2. CASE MayNotWait(t, l) /\ e.calls
      BY <2>2, <3>2 DEF RefusedEntry
    <3>3. CASE MayNotWait(t, l) /\ ~e.calls
      BY <2>2, <2>3, <3>3 DEF RefusedEntry
    <3> QED BY <3>1, <3>2, <3>3
  <2>6. /\ Tip(s, o, n, l)
        /\ Len(s) = n + 1 => /\ s[n + 1].pc \in {"lock", "defer"} /\ s[n + 1].todo = e.todo /\ s[n + 1].lib = l
                             /\ s[n + 1].pc = "lock" => n = 0 /\ (s[n + 1].calls = FALSE \/ s[n + 1].todo = <<>>)
        /\ e.todo # <<>> => Len(s) = n + 1
    <3>1. CASE e.calls /\ s = o
      BY <1>2, <3>1 DEF Tip
    <3>2. CASE ~e.calls /\ s = Append(o, d)
      BY <1>2, <1>3, <2>4, <3>2, Puts DEF Tip
    <3>3. CASE n = 0 /\ s = Append(o, e)
      <4>1. s \in Seq(EntryOf) /\ Len(s) = n + 1 /\ s[n + 1] = e /\ \A k \in 1 .. n : s[k] = o[k]
        BY <1>2, <3>3, Puts
      <4> QED BY <1>2, <1>3, <3>3, <4>1 DEF Tip
    <3> QED BY <2>5, <3>1, <3>2, <3>3
  <2>7. Len(o) # n + 1
    BY <1>2
  <2>8. Elsewhere(l, locked, poisoned, store, answers, ids, guest, hd, lostIds, lateGone)
    BY DEF WasmInv, Elsewhere, LetsGoOf
  <2>9. LetGo(l, lateGone[l], answers, hd)
    BY DEF WasmInv, KnowsGuest, LetGo, LetsGoOf
  <2>10. \A i \in ids[l] : WasmWaits(i, s, o, n, l, hd, lateGone)
    <3>1. ASSUME NEW i \in ids[l] PROVE WasmWaits(i, s, o, n, l, hd, lateGone)
      <4>1. CASE InSeq(i, e.todo)
        <5> QED BY <2>6, <4>1 DEF WasmWaits, Names, InSeq
      <4>2. CASE ~InSeq(i, e.todo)
        BY <2>7, <4>2 DEF WasmWaits, LetsGoOf
      <4> QED BY <4>1, <4>2
    <3> QED BY <3>1
  <2>11. entries' = [entries EXCEPT ![t] = s]
    BY <2>1, <2>2
  <2>12. Len(s) = n + 1 => LetGo(l, s[n + 1].todo, answers, heldIds')
    BY <2>6 DEF LetsGoOf
  <2>13. hd[l] \subseteq heldIds[l]
    BY DEF LetsGoOf
  <2> QED BY <2>13, <1>1, <1>4, <2>1, <2>6, <2>7, <2>8, <2>9, <2>10, <2>11, <2>12, Outside
<1> QED BY <1>5, <1>6

LEMMA CallsWasmKeeps ==
  ASSUME WasmInv, NEW t \in WasmThreads, NEW l \in WasmLibraries, NEW id \in 0 .. MaxAnswered[l], CallsWasm(t, l, id)
  PROVE  WasmInv'
<1>1. MaxAnswered[l] \in Nat
  BY WasmAssumption
<1>2. PICK e : e = [lib |-> l, pc |-> "lock", calls |-> TRUE, goal |-> id, todo |-> <<>>]
  OBVIOUS
<1>3. e \in EntryOf /\ e.lib = l /\ e.pc = "lock" /\ e.todo = <<>>
  BY <1>1, <1>2 DEF EntryOf
<1>4. TriesLibrary(t, e) /\ heldIds' = heldIds
  BY <1>2 DEF CallsWasm
<1>5. LetsGoOf(heldIds, l, e.todo)
  BY <1>3 DEF LetsGoOf, LetGo, WasmInv
<1> QED BY <1>3, <1>4, <1>5, TriesKeeps

LEMMA ReleasesWasmKeeps ==
  ASSUME WasmInv, NEW t \in WasmThreads, NEW l \in WasmLibraries, NEW id \in 1 .. MaxAnswered[l], ReleasesWasm(t, l, id)
  PROVE  WasmInv'
<1>1. MaxAnswered[l] \in Nat
  BY WasmAssumption
<1>2. PICK e : e = [lib |-> l, pc |-> "lock", calls |-> FALSE, goal |-> 0, todo |-> <<id>>]
  OBVIOUS
<1>3. e \in EntryOf /\ e.lib = l /\ e.pc = "lock" /\ e.todo = <<id>> /\ e.calls = FALSE
  BY <1>1, <1>2 DEF EntryOf
<1>4. TriesLibrary(t, e) /\ heldIds' = [heldIds EXCEPT ![l] = @ \ {id}] /\ id \in heldIds[l]
  BY <1>2 DEF ReleasesWasm
<1>5. PICK hd : hd = heldIds'
  OBVIOUS
<1>6. heldIds \in [WasmLibraries -> SUBSET Nat] /\ heldIds[l] \subseteq 1 .. answers[l]
  BY DEF WasmInv, KnowsGuest
<1>7. InSeq(id, e.todo)
  BY <1>3 DEF InSeq
<1>8. LetsGoOf(hd, l, e.todo)
  BY <1>4, <1>5, <1>6, <1>3, <1>7 DEF LetsGoOf, LetGo
<1> QED BY <1>3, <1>4, <1>5, <1>8, TriesKeeps

\* What a thread with an entry at its top is like.
TopIs(t, pc, o, n, e) ==
  /\ o \in Seq(EntryOf) /\ n \in Nat /\ e \in EntryOf
  /\ o = entries[t] /\ o # <<>> /\ e = Last(o) /\ e = Entry(t) /\ e.pc = pc /\ e.lib \in WasmLibraries
  /\ Len(o) = n + 1 /\ Len(Front(o)) = n /\ Front(o) \in Seq(EntryOf) /\ o[n + 1] = e
  /\ \A k \in 1 .. n : Front(o)[k] = o[k] /\ o[k].pc \in {"told", "guest"}
  /\ EntryFits(t, e, locked, store, answers, ids, heldIds)
  /\ e.pc = "lock" => n = 0

LEMMA HasTop ==
  ASSUME WasmInv, NEW t \in WasmThreads, NEW pc, EntryIs(t, pc)
  PROVE  \E o, n, e : TopIs(t, pc, o, n, e)
<1>1. PICK o \in Seq(EntryOf) : o = entries[t]
  BY DEF WasmInv
<1>2. o # <<>> /\ Last(o).pc = pc
  BY <1>1 DEF EntryIs, Entry
<1>3. PICK n \in Nat : /\ Len(o) = n + 1 /\ Len(Front(o)) = n /\ Front(o) \in Seq(EntryOf)
                        /\ Last(o) = o[n + 1] /\ o[n + 1] \in EntryOf
                        /\ \A k \in 1 .. n : Front(o)[k] = o[k]
  BY <1>2, Tops
<1>4. StackFits(t, o, locked, store, answers, ids, heldIds)
  BY <1>1 DEF WasmInv
<1>5. EntryFits(t, o[n + 1], locked, store, answers, ids, heldIds) /\ (o[n + 1].pc = "lock" => n + 1 = 1)
  BY <1>3, <1>4 DEF StackFits, Piled
<1>6. ASSUME NEW k \in 1 .. n PROVE o[k].pc \in {"told", "guest"}
  BY <1>3, <1>4 DEF StackFits, Piled
<1>7. PICK e \in EntryOf : e = o[n + 1]
  BY <1>3
<1>8. TopIs(t, pc, o, n, e)
  BY <1>1, <1>2, <1>3, <1>5, <1>6, <1>7 DEF TopIs, Entry, EntryOf
<1> QED BY <1>8

LEMMA GetsLockKeeps ==
  ASSUME WasmInv, NEW t \in WasmThreads, GetsLock(t)
  PROVE  WasmInv'
<1>0. EntryIs(t, "lock")
  BY DEF GetsLock
<1>1. PICK o, n, e : TopIs(t, "lock", o, n, e)
  BY <1>0, HasTop
<1> USE <1>1 DEF TopIs
<1>2. PICK l, below : l = e.lib /\ below = Front(o)
  OBVIOUS
<1>3. Tip(below, o, n, l) /\ Len(below) = n /\ \A k \in 1 .. n : o[k].pc \in {"told", "guest"}
  BY <1>1, <1>2 DEF Tip
<1>4. TakesLock(t, below, e) /\ locked[l] = Unlocked
  BY <1>1, <1>2 DEF GetsLock
<1>5. e.calls = FALSE \/ e.todo = <<>>
  BY <1>1 DEF EntryFits
<1>6. LetsGoOf(heldIds, l, e.todo)
  BY <1>1, <1>2 DEF EntryFits, LetsGoOf, WasmInv
<1>7. heldIds' = heldIds /\ UNCHANGED <<poisoned, answers, lostIds>>
  BY DEF GetsLock
<1>8. Len(o) = n + 1 => o[n + 1].todo = e.todo
  BY <1>1
<1>9. o = entries[t] /\ l = e.lib
  BY <1>1, <1>2
<1> QED BY <1>3, <1>4, <1>5, <1>6, <1>7, <1>8, <1>9, TakesIt

LEMMA Catenates ==
  ASSUME NEW p \in Seq(Nat), NEW q \in Seq(Nat)
  PROVE  /\ p \o q \in Seq(Nat)
         /\ \A i : InSeq(i, p \o q) <=> InSeq(i, p) \/ InSeq(i, q)
<1>1. p \o q \in Seq(Nat) /\ Len(p \o q) = Len(p) + Len(q)
  OBVIOUS
<1>2. PICK a \in Nat, b \in Nat : a = Len(p) /\ b = Len(q)
  OBVIOUS
<1>3. /\ \A k \in 1 .. a : k \in 1 .. a + b /\ (p \o q)[k] = p[k]
      /\ \A k \in 1 .. b : k + a \in 1 .. a + b /\ (p \o q)[k + a] = q[k]
  BY <1>2
<1>4. ASSUME NEW i, InSeq(i, p \o q) PROVE InSeq(i, p) \/ InSeq(i, q)
  <2>1. PICK k \in 1 .. a + b : (p \o q)[k] = i
    BY <1>1, <1>2, <1>4 DEF InSeq
  <2>2. CASE k <= a
    <3>1. k \in 1 .. a
      BY <2>2
    <3> QED BY <1>2, <1>3, <2>1, <3>1 DEF InSeq
  <2>3. CASE k > a
    <3>1. PICK j : j = k - a
      OBVIOUS
    <3> QED BY <1>2, <1>3, <2>1, <2>3, <3>1 DEF InSeq
  <2> QED BY <2>2, <2>3
<1>5. ASSUME NEW i, InSeq(i, p) \/ InSeq(i, q) PROVE InSeq(i, p \o q)
  <2>1. CASE InSeq(i, p)
    BY <1>1, <1>2, <1>3, <2>1 DEF InSeq
  <2>2. CASE InSeq(i, q)
    BY <1>1, <1>2, <1>3, <2>2 DEF InSeq
  <2> QED BY <1>5, <2>1, <2>2
<1> QED BY <1>1, <1>4, <1>5

LEMMA DefersKeeps ==
  ASSUME WasmInv, NEW t \in WasmThreads, Defers(t)
  PROVE  WasmInv'
<1>0. EntryIs(t, "defer")
  BY DEF Defers
<1>1. PICK o, n, e : TopIs(t, "defer", o, n, e)
  BY <1>0, HasTop
<1> USE <1>1 DEF TopIs
<1>2. PICK l, s, lg : l = e.lib /\ s = Front(o) /\ lg = lateGone'
  OBVIOUS
<1>3. Tip(s, o, n, l) /\ Len(s) # n + 1
  BY <1>1, <1>2 DEF Tip
<1>4. lateGone \in [WasmLibraries -> Seq(Nat)] /\ e.todo \in Seq(Nat) /\ lateGone[l] \in Seq(Nat)
      /\ lg = [lateGone EXCEPT ![l] = @ \o e.todo] /\ l \in WasmLibraries
  BY <1>1, <1>2 DEF WasmInv, EntryOf, Defers
<1>5. lateGone[l] \o e.todo \in Seq(Nat)
      /\ \A i : InSeq(i, lateGone[l] \o e.todo) <=> InSeq(i, lateGone[l]) \/ InSeq(i, e.todo)
  BY <1>4, Catenates
<1>6. lg \in [WasmLibraries -> Seq(Nat)] /\ lg[l] = lateGone[l] \o e.todo
      /\ \A m \in WasmLibraries : m # l => lg[m] = lateGone[m]
  BY <1>4, <1>5
<1>7. Elsewhere(l, locked, poisoned, store, answers, ids, guest, heldIds, lostIds, lg)
  BY <1>6 DEF WasmInv, Elsewhere
<1>8. LetGo(l, lg[l], answers, heldIds)
  <2>1. ASSUME NEW k \in 1 .. Len(lg[l]) PROVE lg[l][k] \in 1 .. answers[l] /\ lg[l][k] \notin heldIds[l]
    <3>1. InSeq(lg[l][k], lateGone[l]) \/ InSeq(lg[l][k], e.todo)
      BY <1>5, <1>6 DEF InSeq
    <3> QED BY <1>1, <1>2, <1>4, <3>1 DEF InSeq, LetGo, WasmInv, KnowsGuest, EntryFits
  <2> QED BY <2>1 DEF LetGo
<1>9. ASSUME NEW i \in ids[l] PROVE WasmWaits(i, s, o, n, l, heldIds, lg)
  BY <1>1, <1>5, <1>6 DEF WasmWaits
<1>10. /\ entries' = [entries EXCEPT ![t] = s] /\ heldIds' = heldIds /\ lateGone' = lg
       /\ UNCHANGED <<locked, poisoned, store, answers, ids, guest, lostIds>>
  BY <1>1, <1>2 DEF Defers, Keeps
<1>11. Len(o) = n + 1 => o[n + 1].pc \notin InPcs
  BY <1>1 DEF InPcs
<1> QED BY <1>1, <1>3, <1>4, <1>7, <1>8, <1>9, <1>10, <1>11, Outside

\* What begins with its head and goes on with its tail.
LEMMA Parts ==
  ASSUME NEW q \in Seq(Nat), q # <<>>
  PROVE  /\ Tail(q) \in Seq(Nat) /\ Head(q) = q[1] /\ q[1] \in Nat
         /\ \A i : InSeq(i, q) <=> i = q[1] \/ InSeq(i, Tail(q))
<1>1. PICK n \in Nat : Len(q) = n + 1
  OBVIOUS
<1>2. Tail(q) \in Seq(Nat) /\ Len(Tail(q)) = n /\ \A k \in 1 .. n : Tail(q)[k] = q[k + 1]
  BY <1>1
<1>3. 1 \in 1 .. n + 1 /\ \A k \in 1 .. n : k + 1 \in 1 .. n + 1
  OBVIOUS
<1>4. ASSUME NEW i, InSeq(i, q) PROVE i = q[1] \/ InSeq(i, Tail(q))
  <2>1. PICK k \in 1 .. n + 1 : q[k] = i
    BY <1>1, <1>4 DEF InSeq
  <2>2. CASE k # 1
    <3>1. PICK j : j = k - 1
      OBVIOUS
    <3> QED BY <1>2, <2>1, <2>2, <3>1 DEF InSeq
  <2> QED BY <2>1, <2>2
<1>5. ASSUME NEW i, i = q[1] \/ InSeq(i, Tail(q)) PROVE InSeq(i, q)
  BY <1>1, <1>2, <1>3, <1>5 DEF InSeq
<1> QED BY <1>1, <1>2, <1>3, <1>4, <1>5

LEMMA LetsGoKeeps ==
  ASSUME WasmInv, NEW t \in WasmThreads, LetsGo(t)
  PROVE  WasmInv'
<1>0. EntryIs(t, "settle")
  BY DEF LetsGo
<1>1. PICK o, n, e : TopIs(t, "settle", o, n, e)
  BY <1>0, HasTop
<1> USE <1>1 DEF TopIs
<1>2. PICK l, id : l = e.lib /\ id = Head(e.todo)
  OBVIOUS
<1>3. /\ e.todo # <<>> /\ ids' = [ids EXCEPT ![l] = @ \ {id}]
      /\ IF id \in ids[l] /\ store[l]
         THEN guest' = [guest EXCEPT ![l] = @ \ {id}] /\ entries' = [entries EXCEPT ![t] = Append(Front(@), [e EXCEPT !.pc = "told"])]
         ELSE entries' = [entries EXCEPT ![t] = Append(Front(@), [e EXCEPT !.todo = Tail(@)])] /\ guest' = guest
      /\ UNCHANGED <<locked, poisoned, store, answers, heldIds, lateGone, lostIds>>
  BY <1>2 DEF LetsGo, Moves
<1>4. PICK hd, gs : hd = ids' /\ gs = guest'
  OBVIOUS
<1>5. l \in WasmLibraries /\ e.todo \in Seq(Nat) /\ ids \in [WasmLibraries -> SUBSET Nat]
      /\ guest \in [WasmLibraries -> SUBSET Nat] /\ store \in [WasmLibraries -> BOOLEAN]
      /\ lostIds \in [WasmLibraries -> SUBSET Nat]
      /\ KnowsGuest(l, store, answers, ids, guest, heldIds, lateGone) /\ LetGo(l, e.todo, answers, heldIds)
  BY <1>2 DEF WasmInv, EntryOf, EntryFits
<1>6. Tail(e.todo) \in Seq(Nat) /\ id = e.todo[1] /\ id \in Nat
      /\ \A i : InSeq(i, e.todo) <=> i = id \/ InSeq(i, Tail(e.todo))
  BY <1>2, <1>3, <1>5, Parts
<1>7. hd \in [WasmLibraries -> SUBSET Nat] /\ hd[l] = ids[l] \ {id} /\ \A m \in WasmLibraries : m # l => hd[m] = ids[m]
  BY <1>3, <1>4, <1>5
<1>8. gs \in [WasmLibraries -> SUBSET Nat] /\ gs[l] = hd[l] /\ \A m \in WasmLibraries : m # l => gs[m] = guest[m]
  <2>1. CASE id \in ids[l] /\ store[l]
    <3>1. gs = [guest EXCEPT ![l] = @ \ {id}] /\ guest[l] = ids[l]
      BY <1>3, <1>4, <1>5, <2>1 DEF KnowsGuest
    <3> QED BY <1>5, <1>7, <3>1
  <2>2. CASE ~(id \in ids[l] /\ store[l])
    BY <1>3, <1>4, <1>5, <1>7, <2>2 DEF KnowsGuest
  <2> QED BY <2>1, <2>2
<1>9. id \notin heldIds[l]
  <2>1. 1 \in 1 .. Len(e.todo)
    BY <1>3, <1>5
  <2> QED BY <1>5, <1>6, <2>1 DEF LetGo
<1>10. PICK d \in EntryOf : /\ d.lib = l /\ entries' = [entries EXCEPT ![t] = Append(Front(o), d)]
                            /\ \/ d.pc = "told" /\ d.todo = e.todo
                               \/ d.pc = "settle" /\ d.todo = Tail(e.todo)
  <2>1. CASE id \in ids[l] /\ store[l]
    <3>1. [e EXCEPT !.pc = "told"] \in EntryOf /\ [e EXCEPT !.pc = "told"].lib = l
          /\ [e EXCEPT !.pc = "told"].pc = "told" /\ [e EXCEPT !.pc = "told"].todo = e.todo
      BY <1>2 DEF EntryOf
    <3> QED BY <1>3, <2>1, <3>1
  <2>2. CASE ~(id \in ids[l] /\ store[l])
    <3>1. [e EXCEPT !.todo = Tail(@)] \in EntryOf /\ [e EXCEPT !.todo = Tail(@)].lib = l
          /\ [e EXCEPT !.todo = Tail(@)].pc = "settle" /\ [e EXCEPT !.todo = Tail(@)].todo = Tail(e.todo)
      BY <1>2, <1>6 DEF EntryOf
    <3> QED BY <1>3, <2>2, <3>1
  <2> QED BY <2>1, <2>2
<1>11. LetGo(l, d.todo, answers, heldIds)
  <2>1. ASSUME NEW k \in 1 .. Len(d.todo) PROVE d.todo[k] \in 1 .. answers[l] /\ d.todo[k] \notin heldIds[l]
    <3>1. InSeq(d.todo[k], e.todo)
      BY <1>6, <1>10 DEF InSeq
    <3> QED BY <1>5, <3>1 DEF InSeq, LetGo
  <2> QED BY <2>1 DEF LetGo
<1>12. Inner(l, e, d, store, hd, gs, lostIds)
  <2>1. d.pc \in InPcs /\ d.pc # "guest"
    BY <1>10 DEF InPcs
  <2>2. d.pc = "told" => d.todo # <<>> /\ d.todo[1] \notin hd[l]
    BY <1>3, <1>6, <1>7, <1>10
  <2>3. hd[l] # {} => store[l] = TRUE
    BY <1>5, <1>7 DEF KnowsGuest
  <2>4. \A i \in ids[l] : i \in heldIds[l] => i \in hd[l]
    BY <1>7, <1>9
  <2>5. \A i \in hd[l] : InSeq(i, e.todo) => InSeq(i, d.todo)
    BY <1>6, <1>7, <1>10
  <2> QED BY <1>5, <1>7, <1>8, <1>10, <1>11, <2>1, <2>2, <2>3, <2>4, <2>5 DEF Inner
<1>13. Last(o).pc \in InPcs /\ l = Last(o).lib
  BY <1>2 DEF InPcs
<1>14. store' = store /\ ids' = hd /\ guest' = gs /\ lostIds' = lostIds
       /\ UNCHANGED <<locked, poisoned, answers, heldIds, lateGone>>
  BY <1>3, <1>4
<1>15. Inner(l, Last(o), d, store, hd, gs, lostIds)
  BY <1>12
<1> QED BY <1>5, <1>10, <1>13, <1>14, <1>15, StaysInside

LEMMA WasToldKeeps ==
  ASSUME WasmInv, NEW t \in WasmThreads, NEW stops \in BOOLEAN, WasTold(t, stops)
  PROVE  WasmInv'
<1>0. EntryIs(t, "told")
  BY DEF WasTold
<1>1. PICK o, n, e : TopIs(t, "told", o, n, e)
  BY <1>0, HasTop
<1> USE <1>1 DEF TopIs
<1>2. PICK l : l = e.lib
  OBVIOUS
<1>3. /\ entries' = [entries EXCEPT ![t] = Append(Front(@), [e EXCEPT !.pc = "settle", !.todo = Tail(@)])]
      /\ IF stops THEN GuestGone(l) ELSE UNCHANGED <<store, ids, guest>> /\ UNCHANGED lostIds
      /\ UNCHANGED <<locked, poisoned, answers, heldIds, lateGone>>
  BY <1>2 DEF WasTold, Moves, Keeps
<1>4. PICK st, id, gs, ls : st = store' /\ id = ids' /\ gs = guest' /\ ls = lostIds'
  OBVIOUS
<1>5. l \in WasmLibraries /\ e.todo \in Seq(Nat) /\ e.todo # <<>> /\ e.todo[1] \notin ids[l]
      /\ ids \in [WasmLibraries -> SUBSET Nat]
      /\ guest \in [WasmLibraries -> SUBSET Nat] /\ store \in [WasmLibraries -> BOOLEAN]
      /\ lostIds \in [WasmLibraries -> SUBSET Nat]
      /\ KnowsGuest(l, store, answers, ids, guest, heldIds, lateGone) /\ LetGo(l, e.todo, answers, heldIds)
  BY <1>2 DEF WasmInv, EntryOf, EntryFits
<1>6. Tail(e.todo) \in Seq(Nat)
      /\ \A i : InSeq(i, e.todo) <=> i = e.todo[1] \/ InSeq(i, Tail(e.todo))
  BY <1>5, Parts
<1>7. PICK d \in EntryOf : /\ d.lib = l /\ entries' = [entries EXCEPT ![t] = Append(Front(o), d)]
                           /\ d.pc = "settle" /\ d.todo = Tail(e.todo)
  <2> DEFINE d == [e EXCEPT !.pc = "settle", !.todo = Tail(@)]
  <2>1. d \in EntryOf /\ d.lib = l /\ d.pc = "settle" /\ d.todo = Tail(e.todo)
    BY <1>2, <1>6 DEF EntryOf
  <2>2. entries' = [entries EXCEPT ![t] = Append(Front(o), d)]
    BY <1>3
  <2> QED BY <2>1, <2>2
<1>8. LetGo(l, d.todo, answers, heldIds)
  <2>1. ASSUME NEW k \in 1 .. Len(d.todo) PROVE d.todo[k] \in 1 .. answers[l] /\ d.todo[k] \notin heldIds[l]
    <3>1. InSeq(d.todo[k], e.todo)
      BY <1>6, <1>7 DEF InSeq
    <3> QED BY <1>5, <3>1 DEF InSeq, LetGo
  <2> QED BY <2>1 DEF LetGo
<1>9. /\ st \in [WasmLibraries -> BOOLEAN] /\ id \in [WasmLibraries -> SUBSET Nat]
      /\ gs \in [WasmLibraries -> SUBSET Nat] /\ ls \in [WasmLibraries -> SUBSET Nat]
      /\ \A m \in WasmLibraries : m # l => /\ st[m] = store[m] /\ id[m] = ids[m] /\ gs[m] = guest[m]
                                           /\ ls[m] = lostIds[m]
      /\ \/ id[l] = {} /\ gs[l] = {} /\ ls[l] = lostIds[l] \cup ids[l]
         \/ st = store /\ id = ids /\ gs = guest /\ ls = lostIds
  <2>1. CASE stops
    <3>1. st = [store EXCEPT ![l] = FALSE] /\ id = [ids EXCEPT ![l] = {}] /\ gs = [guest EXCEPT ![l] = {}]
          /\ ls = [lostIds EXCEPT ![l] = @ \cup ids[l]]
      BY <1>3, <1>4, <2>1 DEF GuestGone, Discard, Discarded
    <3> QED BY <1>5, <3>1
  <2>2. CASE ~stops
    BY <1>3, <1>4, <1>5, <2>2
  <2> QED BY <2>1, <2>2
<1>10. Inner(l, e, d, st, id, gs, ls)
  <2>1. d.pc \in InPcs /\ d.pc # "guest" /\ d.pc # "told"
    BY <1>7 DEF InPcs
  <2>2. id[l] = gs[l] /\ (id[l] # {} => st[l] = TRUE) /\ id[l] \subseteq ids[l]
    BY <1>5, <1>9 DEF KnowsGuest
  <2>3. \A i \in ids[l] : i \in heldIds[l] => i \in id[l] \/ i \in ls[l]
    BY <1>9
  <2>4. \A i \in lostIds[l] : i \in ls[l]
    BY <1>9
  <2>5. \A i \in id[l] : InSeq(i, e.todo) => InSeq(i, d.todo)
    BY <1>5, <1>6, <1>7, <1>9
  <2> QED BY <1>7, <1>8, <1>9, <2>1, <2>2, <2>3, <2>4, <2>5 DEF Inner
<1>11. Last(o).pc \in InPcs /\ l = Last(o).lib
  BY <1>2 DEF InPcs
<1>12. Inner(l, Last(o), d, st, id, gs, ls)
  BY <1>10
<1>13. store' = st /\ ids' = id /\ guest' = gs /\ lostIds' = ls
       /\ UNCHANGED <<locked, poisoned, answers, heldIds, lateGone>>
  BY <1>3, <1>4
<1> QED BY <1>5, <1>7, <1>11, <1>12, <1>13, StaysInside

LEMMA ReachesGuestKeeps ==
  ASSUME WasmInv, NEW t \in WasmThreads, NEW starts \in BOOLEAN, ReachesGuest(t, starts)
  PROVE  WasmInv'
<1>0. EntryIs(t, "settle")
  BY DEF ReachesGuest
<1>1. PICK o, n, e : TopIs(t, "settle", o, n, e)
  BY <1>0, HasTop
<1> USE <1>1 DEF TopIs
<1>2. PICK l : l = e.lib
  OBVIOUS
<1>3. /\ locked \in [WasmLibraries -> WasmThreads \cup {Unlocked}]
      /\ poisoned \in [WasmLibraries -> BOOLEAN] /\ store \in [WasmLibraries -> BOOLEAN]
      /\ answers \in [WasmLibraries -> Nat]
      /\ ids \in [WasmLibraries -> SUBSET Nat] /\ guest \in [WasmLibraries -> SUBSET Nat]
      /\ heldIds \in [WasmLibraries -> SUBSET Nat] /\ lostIds \in [WasmLibraries -> SUBSET Nat]
      /\ lateGone \in [WasmLibraries -> Seq(Nat)]
      /\ KnowsGuest(l, store, answers, ids, guest, heldIds, lateGone)
      /\ poisoned[l] = FALSE => WasmTold(l, ids, heldIds, lostIds, lateGone, entries)
      /\ l \in WasmLibraries
  BY <1>2 DEF WasmInv
<1>4. Last(o).pc \in InPcs /\ l = Last(o).lib
  BY <1>2 DEF InPcs
<1>5. PICK lk : lk = [locked EXCEPT ![l] = Unlocked]
  OBVIOUS
<1>6. lk \in [WasmLibraries -> WasmThreads \cup {Unlocked}] /\ lk[l] = Unlocked
      /\ \A m \in WasmLibraries : m # l => lk[m] = locked[m]
  BY <1>3, <1>5
<1>a. answers[l] >= answers[l]
  BY <1>3
<1>7. e.todo = <<>> /\ UNCHANGED <<poisoned, answers, ids, guest, heldIds, lateGone, lostIds>>
  BY DEF ReachesGuest
<1>8. CASE e.calls /\ e.goal \in ids[l] \cup {0} /\ (store[l] \/ starts)
  <2>1. entries' = [entries EXCEPT ![t] = Append(Front(o), [e EXCEPT !.pc = "guest"])]
        /\ store' = [store EXCEPT ![l] = TRUE] /\ UNCHANGED locked
    BY <1>2, <1>8 DEF ReachesGuest, Moves
  <2>2. PICK d, st : d = [e EXCEPT !.pc = "guest"] /\ st = store'
    OBVIOUS
  <2>3. d \in EntryOf /\ d.lib = l /\ d.pc = "guest" /\ d.todo = e.todo
    BY <1>2, <2>2 DEF EntryOf
  <2>4. st \in [WasmLibraries -> BOOLEAN] /\ st[l] = TRUE /\ \A m \in WasmLibraries : m # l => st[m] = store[m]
    BY <1>3, <2>1, <2>2
  <2>5. LetGo(l, d.todo, answers, heldIds)
    BY <1>7, <2>3 DEF LetGo
  <2>6. Inner(l, Last(o), d, st, ids, guest, lostIds)
    <3>1. d.pc \in InPcs /\ d.pc # "told"
      BY <2>3 DEF InPcs
    <3>2. ids[l] = guest[l]
      BY <1>3 DEF KnowsGuest
    <3>3. \A i \in ids[l] : InSeq(i, Last(o).todo) => InSeq(i, d.todo)
      BY <2>3
    <3> QED BY <1>3, <1>7, <2>3, <2>4, <2>5, <3>1, <3>2, <3>3 DEF Inner
  <2>7. entries' = [entries EXCEPT ![t] = Append(Front(o), d)] /\ store' = st
    BY <2>1, <2>2
  <2>8. PICK id, gs, ls : id = ids /\ gs = guest /\ ls = lostIds
    OBVIOUS
  <2>9. ids' = id /\ guest' = gs /\ lostIds' = ls /\ UNCHANGED <<locked, poisoned, answers, heldIds, lateGone>>
    BY <1>7, <2>1, <2>8
  <2>10. Inner(l, Last(o), d, st, id, gs, ls)
    BY <2>6, <2>8
  <2>11. o = entries[t] /\ o # <<>> /\ l \in WasmLibraries
    BY <1>3
  <2> QED BY <1>4, <2>7, <2>9, <2>10, <2>11, StaysInside
<1>9. CASE ~(e.calls /\ e.goal \in ids[l] \cup {0} /\ (store[l] \/ starts))
  <2>1. entries' = [entries EXCEPT ![t] = Front(o)] /\ locked' = lk /\ UNCHANGED store
    BY <1>2, <1>5, <1>9 DEF ReachesGuest, LeavesLibrary
  <2>2. Elsewhere(l, lk, poisoned, store, answers, ids, guest, heldIds, lostIds, lateGone)
    BY <1>3, <1>6 DEF Elsewhere
  <2>3. ASSUME poisoned[l] = FALSE
        PROVE  /\ \A i \in heldIds[l] : i \in ids[l] \/ i \in lostIds[l]
               /\ \A i \in ids[l] : i \in heldIds[l] \/ (i \in ids[l] /\ i \notin heldIds[l] /\ Last(o).todo = <<>>)
    BY <1>3, <1>7, <2>3 DEF WasmTold
  <2> QED BY <1>3, <1>4, <1>6, <1>7, <1>a, <2>1, <2>2, <2>3, StepsOut
<1> QED BY <1>8, <1>9

LEMMA RepliesKeeps ==
  ASSUME WasmInv, NEW t \in WasmThreads, Replies(t)
  PROVE  WasmInv'
<1>0. EntryIs(t, "guest")
  BY DEF Replies
<1>1. PICK o, n, e : TopIs(t, "guest", o, n, e)
  BY <1>0, HasTop
<1> USE <1>1 DEF TopIs
<1>2. PICK l : l = e.lib
  OBVIOUS
<1>3. /\ locked \in [WasmLibraries -> WasmThreads \cup {Unlocked}]
      /\ poisoned \in [WasmLibraries -> BOOLEAN] /\ store \in [WasmLibraries -> BOOLEAN]
      /\ answers \in [WasmLibraries -> Nat]
      /\ ids \in [WasmLibraries -> SUBSET Nat] /\ guest \in [WasmLibraries -> SUBSET Nat]
      /\ heldIds \in [WasmLibraries -> SUBSET Nat] /\ lostIds \in [WasmLibraries -> SUBSET Nat]
      /\ lateGone \in [WasmLibraries -> Seq(Nat)]
      /\ KnowsGuest(l, store, answers, ids, guest, heldIds, lateGone)
      /\ poisoned[l] = FALSE => WasmTold(l, ids, heldIds, lostIds, lateGone, entries)
      /\ l \in WasmLibraries
  BY <1>2 DEF WasmInv
<1>4. Last(o).pc \in InPcs /\ l = Last(o).lib
  BY <1>2 DEF InPcs
<1>5. PICK lk : lk = [locked EXCEPT ![l] = Unlocked]
  OBVIOUS
<1>6. lk \in [WasmLibraries -> WasmThreads \cup {Unlocked}] /\ lk[l] = Unlocked
      /\ \A m \in WasmLibraries : m # l => lk[m] = locked[m]
  BY <1>3, <1>5
<1>a. answers[l] >= answers[l]
  BY <1>3
<1>7. e.todo = <<>> /\ UNCHANGED <<poisoned, answers, heldIds, lateGone, lostIds, store, ids, guest>>
      /\ entries' = [entries EXCEPT ![t] = Front(o)] /\ locked' = lk
  BY <1>2, <1>5 DEF Replies, LeavesLibrary, Keeps, EntryFits
<1>8. Elsewhere(l, lk, poisoned, store, answers, ids, guest, heldIds, lostIds, lateGone)
  BY <1>3, <1>6 DEF Elsewhere
<1>9. ASSUME poisoned[l] = FALSE
      PROVE  /\ \A i \in heldIds[l] : i \in ids[l] \/ i \in lostIds[l]
             /\ \A i \in ids[l] : i \in heldIds[l] \/ (i \in ids[l] /\ i \notin heldIds[l] /\ Last(o).todo = <<>>)
  BY <1>3, <1>7, <1>9 DEF WasmTold
<1> QED BY <1>3, <1>4, <1>6, <1>7, <1>8, <1>9, <1>a, StepsOut

LEMMA RepliesObjectKeeps ==
  ASSUME WasmInv, NEW t \in WasmThreads, RepliesObject(t)
  PROVE  WasmInv'
<1>0. EntryIs(t, "guest")
  BY DEF RepliesObject
<1>1. PICK o, n, e : TopIs(t, "guest", o, n, e)
  BY <1>0, HasTop
<1> USE <1>1 DEF TopIs
<1>2. PICK l : l = e.lib
  OBVIOUS
<1>3. /\ locked \in [WasmLibraries -> WasmThreads \cup {Unlocked}]
      /\ poisoned \in [WasmLibraries -> BOOLEAN] /\ store \in [WasmLibraries -> BOOLEAN]
      /\ answers \in [WasmLibraries -> Nat]
      /\ ids \in [WasmLibraries -> SUBSET Nat] /\ guest \in [WasmLibraries -> SUBSET Nat]
      /\ heldIds \in [WasmLibraries -> SUBSET Nat] /\ lostIds \in [WasmLibraries -> SUBSET Nat]
      /\ lateGone \in [WasmLibraries -> Seq(Nat)]
      /\ KnowsGuest(l, store, answers, ids, guest, heldIds, lateGone)
      /\ poisoned[l] = FALSE => WasmTold(l, ids, heldIds, lostIds, lateGone, entries)
      /\ l \in WasmLibraries
  BY <1>2 DEF WasmInv
<1>4. Last(o).pc \in InPcs /\ l = Last(o).lib
  BY <1>2 DEF InPcs
<1>5. PICK lk : lk = [locked EXCEPT ![l] = Unlocked]
  OBVIOUS
<1>6. lk \in [WasmLibraries -> WasmThreads \cup {Unlocked}] /\ lk[l] = Unlocked
      /\ \A m \in WasmLibraries : m # l => lk[m] = locked[m]
  BY <1>3, <1>5
<1>a. answers[l] >= answers[l]
  BY <1>3
<1>7. PICK an, id, gs, hd : an = answers' /\ id = ids' /\ gs = guest' /\ hd = heldIds'
  OBVIOUS
<1>8. /\ e.todo = <<>> /\ store[l] = TRUE /\ UNCHANGED <<poisoned, store, lateGone, lostIds>>
      /\ entries' = [entries EXCEPT ![t] = Front(o)] /\ locked' = lk /\ answers[l] < MaxAnswered[l]
      /\ an = [answers EXCEPT ![l] = answers[l] + 1] /\ id = [ids EXCEPT ![l] = @ \cup {answers[l] + 1}]
      /\ gs = [guest EXCEPT ![l] = @ \cup {answers[l] + 1}] /\ hd = [heldIds EXCEPT ![l] = @ \cup {answers[l] + 1}]
  BY <1>2, <1>5, <1>7 DEF RepliesObject, LeavesLibrary, EntryFits
<1>9. PICK a \in Nat, b \in Nat : a = answers[l] /\ b = MaxAnswered[l]
  BY <1>3, WasmAssumption
<1>10. a + 1 \in Nat /\ a + 1 <= b /\ a + 1 >= a /\ a + 1 > a
  BY <1>8, <1>9
<1>11. an[l] = a + 1 /\ id[l] = ids[l] \cup {a + 1} /\ gs[l] = guest[l] \cup {a + 1} /\ hd[l] = heldIds[l] \cup {a + 1}
  BY <1>3, <1>8, <1>9
<1>12. Elsewhere(l, lk, poisoned, store, an, id, gs, hd, lostIds, lateGone)
  <2>1. an \in [WasmLibraries -> Nat] /\ \A m \in WasmLibraries : m # l => an[m] = answers[m]
    BY <1>3, <1>8, <1>9, <1>10
  <2>2. /\ id \in [WasmLibraries -> SUBSET Nat] /\ gs \in [WasmLibraries -> SUBSET Nat]
        /\ \A m \in WasmLibraries : m # l => id[m] = ids[m] /\ gs[m] = guest[m]
    BY <1>3, <1>8, <1>9, <1>10
  <2>3. hd \in [WasmLibraries -> SUBSET Nat] /\ \A m \in WasmLibraries : m # l => hd[m] = heldIds[m]
    BY <1>3, <1>8, <1>9, <1>10
  <2> QED BY <1>3, <1>6, <2>1, <2>2, <2>3 DEF Elsewhere
<1>13. KnowsGuest(l, store, an, id, gs, hd, lateGone)
  <2>1. ids[l] = guest[l] /\ ids[l] \subseteq 1 .. a /\ heldIds[l] \subseteq 1 .. a /\ LetGo(l, lateGone[l], answers, heldIds)
    BY <1>3, <1>9 DEF KnowsGuest
  <2>2. ASSUME NEW k \in 1 .. Len(lateGone[l]) PROVE lateGone[l][k] \in 1 .. an[l] /\ lateGone[l][k] \notin hd[l]
    <3>1. PICK x : x = lateGone[l][k]
      OBVIOUS
    <3>2. x \in 1 .. a /\ x \notin heldIds[l]
      BY <1>9, <2>1, <3>1 DEF LetGo
    <3>3. x \in 1 .. a + 1 /\ x # a + 1
      BY <3>2
    <3> QED BY <1>11, <3>1, <3>2, <3>3
  <2>3. LetGo(l, lateGone[l], an, hd)
    BY <2>2 DEF LetGo
  <2>4. an[l] <= MaxAnswered[l] /\ id[l] \subseteq 1 .. an[l] /\ hd[l] \subseteq 1 .. an[l]
    BY <1>9, <1>10, <1>11, <2>1
  <2>5. id[l] = gs[l] /\ (id[l] # {} => store[l] = TRUE)
    <3>1. store[l] = TRUE
      BY <1>8
    <3>2. id[l] = gs[l]
      BY <1>11, <2>1, Zenon
    <3> QED BY <3>1, <3>2
  <2> QED BY <2>3, <2>4, <2>5, Zenon DEF KnowsGuest
<1>14. ASSUME poisoned[l] = FALSE
       PROVE  /\ \A i \in hd[l] : i \in id[l] \/ i \in lostIds[l]
              /\ \A i \in id[l] : i \in hd[l] \/ (i \in ids[l] /\ i \notin heldIds[l] /\ Last(o).todo = <<>>)
  BY <1>3, <1>8, <1>11, <1>14 DEF WasmTold
<1>15. an[l] >= answers[l] /\ \A i \in hd[l] : i \in heldIds[l] \/ i > answers[l]
  BY <1>9, <1>10, <1>11
<1>16. answers' = an /\ ids' = id /\ guest' = gs /\ heldIds' = hd
  BY <1>7
<1>17. PICK po, st, ls : po = poisoned /\ st = store /\ ls = lostIds
  OBVIOUS
<1>18. /\ Elsewhere(l, lk, po, st, an, id, gs, hd, ls, lateGone) /\ lk[l] = Unlocked
       /\ KnowsGuest(l, st, an, id, gs, hd, lateGone)
  BY <1>6, <1>12, <1>13, <1>17
<1>19. po[l] = FALSE => /\ poisoned[l] = FALSE /\ \A i \in hd[l] : i \in id[l] \/ i \in ls[l]
                        /\ \A i \in id[l] : i \in hd[l] \/ (i \in ids[l] /\ i \notin heldIds[l] /\ Last(o).todo = <<>>)
  BY <1>14, <1>17
<1>20. /\ entries' = [entries EXCEPT ![t] = Front(o)] /\ locked' = lk /\ poisoned' = po /\ store' = st
       /\ lostIds' = ls /\ UNCHANGED lateGone
  BY <1>8, <1>17
<1>21. o = entries[t] /\ o # <<>> /\ l \in WasmLibraries
  BY <1>3
<1> HIDE <1>1
<1> QED BY <1>4, <1>15, <1>16, <1>18, <1>19, <1>20, <1>21, StepsOut

LEMMA GuestStopsKeeps ==
  ASSUME WasmInv, NEW t \in WasmThreads, GuestStops(t)
  PROVE  WasmInv'
<1>0. EntryIs(t, "guest")
  BY DEF GuestStops
<1>1. PICK o, n, e : TopIs(t, "guest", o, n, e)
  BY <1>0, HasTop
<1> USE <1>1 DEF TopIs
<1>2. PICK l : l = e.lib
  OBVIOUS
<1>3. /\ locked \in [WasmLibraries -> WasmThreads \cup {Unlocked}]
      /\ poisoned \in [WasmLibraries -> BOOLEAN] /\ store \in [WasmLibraries -> BOOLEAN]
      /\ answers \in [WasmLibraries -> Nat]
      /\ ids \in [WasmLibraries -> SUBSET Nat] /\ guest \in [WasmLibraries -> SUBSET Nat]
      /\ heldIds \in [WasmLibraries -> SUBSET Nat] /\ lostIds \in [WasmLibraries -> SUBSET Nat]
      /\ lateGone \in [WasmLibraries -> Seq(Nat)]
      /\ KnowsGuest(l, store, answers, ids, guest, heldIds, lateGone)
      /\ poisoned[l] = FALSE => WasmTold(l, ids, heldIds, lostIds, lateGone, entries)
      /\ l \in WasmLibraries
  BY <1>2 DEF WasmInv
<1>4. Last(o).pc \in InPcs /\ l = Last(o).lib
  BY <1>2 DEF InPcs
<1>5. PICK lk : lk = [locked EXCEPT ![l] = Unlocked]
  OBVIOUS
<1>6. lk \in [WasmLibraries -> WasmThreads \cup {Unlocked}] /\ lk[l] = Unlocked
      /\ \A m \in WasmLibraries : m # l => lk[m] = locked[m]
  BY <1>3, <1>5
<1>a. answers[l] >= answers[l]
  BY <1>3
<1>7. PICK st, id, gs, ls : st = store' /\ id = ids' /\ gs = guest' /\ ls = lostIds'
  OBVIOUS
<1>8. /\ UNCHANGED <<poisoned, answers, heldIds, lateGone>>
      /\ entries' = [entries EXCEPT ![t] = Front(o)] /\ locked' = lk
      /\ st = [store EXCEPT ![l] = FALSE] /\ id = [ids EXCEPT ![l] = {}]
      /\ gs = [guest EXCEPT ![l] = {}] /\ ls = [lostIds EXCEPT ![l] = @ \cup ids[l]]
  BY <1>2, <1>5, <1>7 DEF GuestStops, LeavesLibrary, GuestGone, Discard, Discarded
<1>9. id[l] = {} /\ gs[l] = {} /\ ls[l] = lostIds[l] \cup ids[l]
  BY <1>3, <1>8
<1>10. Elsewhere(l, lk, poisoned, st, answers, id, gs, heldIds, ls, lateGone)
  BY <1>3, <1>6, <1>8 DEF Elsewhere
<1>11. KnowsGuest(l, st, answers, id, gs, heldIds, lateGone)
  BY <1>3, <1>9 DEF KnowsGuest
<1>12. ASSUME poisoned[l] = FALSE
       PROVE  /\ \A i \in heldIds[l] : i \in id[l] \/ i \in ls[l]
              /\ \A i \in id[l] : i \in heldIds[l] \/ (i \in ids[l] /\ i \notin heldIds[l] /\ Last(o).todo = <<>>)
  BY <1>3, <1>9, <1>12 DEF WasmTold
<1>13. store' = st /\ ids' = id /\ guest' = gs /\ lostIds' = ls
  BY <1>7
<1> QED BY <1>3, <1>4, <1>6, <1>8, <1>10, <1>11, <1>12, <1>13, <1>a, StepsOut

LEMMA EnginePanicsKeeps ==
  ASSUME WasmInv, NEW t \in WasmThreads, EnginePanics(t)
  PROVE  WasmInv'
<1>0. PICK pc \in {"guest", "told"} : EntryIs(t, pc)
  BY DEF EnginePanics
<1>1. PICK o, n, e : TopIs(t, pc, o, n, e)
  BY <1>0, HasTop
<1> USE <1>1 DEF TopIs
<1>2. PICK l : l = e.lib
  OBVIOUS
<1>3. /\ locked \in [WasmLibraries -> WasmThreads \cup {Unlocked}]
      /\ poisoned \in [WasmLibraries -> BOOLEAN] /\ store \in [WasmLibraries -> BOOLEAN]
      /\ answers \in [WasmLibraries -> Nat]
      /\ ids \in [WasmLibraries -> SUBSET Nat] /\ guest \in [WasmLibraries -> SUBSET Nat]
      /\ heldIds \in [WasmLibraries -> SUBSET Nat] /\ lostIds \in [WasmLibraries -> SUBSET Nat]
      /\ lateGone \in [WasmLibraries -> Seq(Nat)]
      /\ KnowsGuest(l, store, answers, ids, guest, heldIds, lateGone)
      /\ poisoned[l] = FALSE => WasmTold(l, ids, heldIds, lostIds, lateGone, entries)
      /\ l \in WasmLibraries
  BY <1>2 DEF WasmInv
<1>4. Last(o).pc \in InPcs /\ l = Last(o).lib
  BY <1>0, <1>2 DEF InPcs
<1>5. PICK lk : lk = [locked EXCEPT ![l] = Unlocked]
  OBVIOUS
<1>6. lk \in [WasmLibraries -> WasmThreads \cup {Unlocked}] /\ lk[l] = Unlocked
      /\ \A m \in WasmLibraries : m # l => lk[m] = locked[m]
  BY <1>3, <1>5
<1>a. answers[l] >= answers[l]
  BY <1>3
<1>7. PICK po : po = poisoned'
  OBVIOUS
<1>8. /\ UNCHANGED <<answers, heldIds, lateGone, lostIds, store, ids, guest>>
      /\ entries' = [entries EXCEPT ![t] = Front(o)] /\ locked' = lk
      /\ po = [poisoned EXCEPT ![l] = TRUE]
  BY <1>2, <1>5, <1>7 DEF EnginePanics, LeavesLibrary, Keeps
<1>9. po[l] # FALSE
  BY <1>3, <1>8
<1>10. Elsewhere(l, lk, po, store, answers, ids, guest, heldIds, lostIds, lateGone)
  BY <1>3, <1>6, <1>8 DEF Elsewhere
<1>11. poisoned' = po
  BY <1>7
<1> QED BY <1>3, <1>4, <1>6, <1>8, <1>9, <1>10, <1>11, <1>a, StepsOut

LEMMA WasmInduction ==
  /\ WasmInit => WasmInv
  /\ WasmInv /\ [WasmNext]_wasmvars => WasmInv'
<1>1. ASSUME WasmInit PROVE WasmInv
  <2>1. ASSUME NEW t \in WasmThreads PROVE StackFits(t, <<>>, locked, store, answers, ids, heldIds)
    BY <1>1, WasmAssumption DEF StackFits, Piled, WasmInit
  <2>2. ASSUME NEW l \in WasmLibraries PROVE KnowsGuest(l, store, answers, ids, guest, heldIds, lateGone)
    BY <1>1, WasmAssumption DEF WasmInit, KnowsGuest, LetGo
  <2>3. ASSUME NEW l \in WasmLibraries PROVE WasmTold(l, ids, heldIds, lostIds, lateGone, entries)
    BY <1>1 DEF WasmInit, WasmTold
  <2>4. ASSUME NEW t \in WasmThreads PROVE StackFits(t, entries[t], locked, store, answers, ids, heldIds)
    BY <2>1, <1>1 DEF WasmInit
  <2>5. lateGone \in [WasmLibraries -> Seq(Nat)]
    BY <1>1 DEF WasmInit
  <2>6. entries \in [WasmThreads -> Seq(EntryOf)]
    BY <1>1 DEF WasmInit
  <2>7. /\ ids \in [WasmLibraries -> SUBSET Nat] /\ guest \in [WasmLibraries -> SUBSET Nat]
        /\ heldIds \in [WasmLibraries -> SUBSET Nat] /\ lostIds \in [WasmLibraries -> SUBSET Nat]
    BY <1>1 DEF WasmInit
  <2>8. /\ locked \in [WasmLibraries -> WasmThreads \cup {Unlocked}] /\ answers \in [WasmLibraries -> Nat]
        /\ poisoned \in [WasmLibraries -> BOOLEAN] /\ store \in [WasmLibraries -> BOOLEAN]
    BY <1>1 DEF WasmInit
  <2> QED BY <2>2, <2>3, <2>4, <2>5, <2>6, <2>7, <2>8 DEF WasmInv
<1>2. ASSUME WasmInv, WasmNext PROVE WasmInv'
  <2>1. PICK t \in WasmThreads :
          \/ \E l \in WasmLibraries : \E id \in 0 .. MaxAnswered[l] : CallsWasm(t, l, id)
          \/ \E l \in WasmLibraries : \E id \in 1 .. MaxAnswered[l] : ReleasesWasm(t, l, id)
          \/ GetsLock(t)
          \/ Defers(t)
          \/ LetsGo(t)
          \/ \E b \in BOOLEAN : WasTold(t, b) \/ ReachesGuest(t, b)
          \/ Replies(t) \/ RepliesObject(t) \/ GuestStops(t) \/ EnginePanics(t)
    BY <1>2 DEF WasmNext
  <2>2. CASE \E l \in WasmLibraries : \E id \in 0 .. MaxAnswered[l] : CallsWasm(t, l, id)
    BY <1>2, <2>2, CallsWasmKeeps
  <2>3. CASE \E l \in WasmLibraries : \E id \in 1 .. MaxAnswered[l] : ReleasesWasm(t, l, id)
    BY <1>2, <2>3, ReleasesWasmKeeps
  <2>4. CASE GetsLock(t)
    BY <1>2, <2>4, GetsLockKeeps
  <2>5. CASE Defers(t)
    BY <1>2, <2>5, DefersKeeps
  <2>6. CASE LetsGo(t)
    BY <1>2, <2>6, LetsGoKeeps
  <2>7. CASE \E b \in BOOLEAN : WasTold(t, b)
    BY <1>2, <2>7, WasToldKeeps
  <2>8. CASE \E b \in BOOLEAN : ReachesGuest(t, b)
    BY <1>2, <2>8, ReachesGuestKeeps
  <2>9. CASE Replies(t)
    BY <1>2, <2>9, RepliesKeeps
  <2>10. CASE RepliesObject(t)
    BY <1>2, <2>10, RepliesObjectKeeps
  <2>11. CASE GuestStops(t)
    BY <1>2, <2>11, GuestStopsKeeps
  <2>12. CASE EnginePanics(t)
    BY <1>2, <2>12, EnginePanicsKeeps
  <2> QED BY <2>1, <2>2, <2>3, <2>4, <2>5, <2>6, <2>7, <2>8, <2>9, <2>10, <2>11, <2>12
<1>3. ASSUME WasmInv, UNCHANGED wasmvars PROVE WasmInv'
  BY <1>3 DEF wasmvars, WasmInv
<1> QED BY <1>1, <1>2, <1>3

LEMMA WasmInvImplies == WasmInv => WasmCallsHold
<1> SUFFICES ASSUME WasmInv PROVE WasmCallsHold
  OBVIOUS
<1>1. IdsAreTheGuests
  BY DEF WasmInv, KnowsGuest, IdsAreTheGuests
<1>2. ASSUME NEW t \in WasmThreads, EntryIs(t, "lock")
      PROVE  locked[Entry(t).lib] = Unlocked \/ ~EntryIs(locked[Entry(t).lib], "lock")
  <2>1. SUFFICES ASSUME locked[Entry(t).lib] # Unlocked, EntryIs(locked[Entry(t).lib], "lock") PROVE FALSE
    OBVIOUS
  <2>2. PICK o, n, e : TopIs(t, "lock", o, n, e)
    BY <1>2, HasTop
  <2>3. PICK l \in WasmLibraries, u \in WasmThreads : l = Entry(t).lib /\ u = locked[l]
    BY <2>1, <2>2 DEF TopIs, WasmInv
  <2>4. EntryIs(u, "lock")
    BY <2>1, <2>3
  <2>5. PICK v, m, f : TopIs(u, "lock", v, m, f)
    BY <2>4, HasTop
  <2>6. Len(v) = 1 /\ v[1] = f /\ f.pc = "lock" /\ v = entries[u]
    BY <2>5 DEF TopIs
  <2>7. PICK k \in 1 .. 1 : v[k].pc \in InPcs
    BY <2>6, <2>3 DEF Entered, WasmInv, StackFits
  <2> QED BY <2>6, <2>7 DEF InPcs
<1>3. ASSUME NEW l \in WasmLibraries, ~poisoned[l]
      PROVE  /\ heldIds[l] \subseteq ids[l] \cup lostIds[l]
             /\ ids[l] \ heldIds[l] \subseteq ToSet(lateGone[l]) \cup BeingTold(l)
  <2>1. WasmTold(l, ids, heldIds, lostIds, lateGone, entries) /\ KnowsGuest(l, store, answers, ids, guest, heldIds, lateGone)
    BY <1>3 DEF WasmInv
  <2>2. ASSUME NEW i \in ids[l], i \notin heldIds[l] PROVE i \in ToSet(lateGone[l]) \/ i \in BeingTold(l)
    <3>1. CASE InSeq(i, lateGone[l])
      BY <3>1 DEF InSeq, ToSet, WasmInv
    <3>2. CASE \E t \in WasmThreads : Names(entries[t], l, i)
      <4>1. PICK t \in WasmThreads : Names(entries[t], l, i)
        BY <3>2
      <4>2. PICK o \in Seq(EntryOf) : o = entries[t]
        BY DEF WasmInv
      <4>3. PICK k \in 1 .. Len(o) : o[k].lib = l /\ InSeq(i, o[k].todo)
        BY <4>1, <4>2 DEF Names
      <4>4. o[k].todo \in Seq(Nat) /\ k \in DOMAIN o
        <5>1. PICK f \in EntryOf : f = o[k]
          BY <4>2
        <5>2. f.todo \in Seq(Nat)
          BY DEF EntryOf
        <5>3. DOMAIN o = 1 .. Len(o)
          BY <4>2
        <5> QED BY <5>1, <5>2, <5>3
      <4>5. i \in ToSet(o[k].todo)
        BY <4>3, <4>4 DEF InSeq, ToSet
      <4>6. i \in 1 .. MaxAnswered[l]
        BY <2>1, WasmAssumption DEF KnowsGuest, WasmInv
      <4> QED BY <4>2, <4>3, <4>4, <4>5, <4>6 DEF BeingTold
    <3> QED BY <2>1, <2>2, <3>1, <3>2 DEF WasmTold
  <2>3. heldIds[l] \subseteq ids[l] \cup lostIds[l]
    BY <2>1 DEF WasmTold
  <2> QED BY <2>2, <2>3
<1> QED BY <1>1, <1>2, <1>3 DEF WasmCallsHold, HolderGoesOn, GoneIsTold

-----------------------------------------------------------------------------
(* Ticker.                                                                 *)

TickerInv ==
  /\ IsFiniteSet(inCall) /\ counted = Cardinality(inCall)
  /\ stopping = TRUE \/ stopping = FALSE
  /\ stopping = TRUE => inCall = {} /\ dropping # "no"
  /\ dropping # "no" => stopping = TRUE
  /\ dropping \in {"no", "wakes", "joins", "done"}
  /\ ticker \in {"looks", "idle", "timed", "ended"}
  /\ ticker = "idle" => inCall = {} /\ dropping \in {"no", "wakes"}
  /\ ticker = "ended" => stopping = TRUE

LEMMA TickerInduction ==
  /\ TickerInit => TickerInv
  /\ TickerInv /\ [TickerNext]_tickvars => TickerInv'
  /\ TickerInv => TickerAwake
<1>1. TickerInit => TickerInv
  BY FS_EmptySet DEF TickerInit, TickerInv
<1>2. ASSUME TickerInv, [TickerNext]_tickvars PROVE TickerInv'
  <2> USE DEF TickerInv
  <2>1. CASE TickerLooks \/ TickerTicks
    BY <1>2, <2>1, FS_EmptySet DEF TickerLooks, TickerTicks, TickerWaits
  <2>2. ASSUME NEW c \in GuestCallers, CallBegins(c) PROVE TickerInv'
    <3>1. IsFiniteSet(inCall \cup {c}) /\ Cardinality(inCall \cup {c}) = Cardinality(inCall) + 1
      BY <1>2, <2>2, FS_AddElement DEF CallBegins
    <3>2. counted' = counted + 1 /\ inCall' = inCall \cup {c} /\ UNCHANGED <<stopping, dropping>>
      BY <2>2 DEF CallBegins
    <3>3. ticker' \in {"looks", "idle", "timed", "ended"} /\ (ticker' = "ended" => ticker = "ended") /\ ticker' # "idle"
      BY <1>2, <2>2, FS_CardinalityType, FS_EmptySet DEF CallBegins, WakesTicker, Notified
    <3>4. stopping = FALSE
      BY <1>2, <2>2 DEF CallBegins
    <3> QED BY <1>2, <2>2, <3>1, <3>2, <3>3, <3>4 DEF CallBegins
  <2>3. ASSUME NEW c \in GuestCallers, CallEnds(c) PROVE TickerInv'
    <3> QED BY <1>2, <2>3, FS_RemoveElement, FS_CardinalityType, FS_EmptySet DEF CallEnds
  <2>4. CASE DropStops
    BY <1>2, <2>4 DEF DropStops
  <2>5. CASE DropWakes
    BY <1>2, <2>5 DEF DropWakes, Notified
  <2>6. CASE DropJoins
    BY <1>2, <2>6 DEF DropJoins
  <2>7. CASE UNCHANGED tickvars
    BY <1>2, <2>7 DEF tickvars
  <2> QED BY <1>2, <2>1, <2>2, <2>3, <2>4, <2>5, <2>6, <2>7 DEF TickerNext
<1>3. TickerInv => TickerAwake
  BY DEF TickerInv, TickerAwake
<1> QED BY <1>1, <1>2, <1>3

\* However threads enter wasm libraries, guests call back, answer and stop, and
\* objects are let go of: an id names an object of the store's own guest, what
\* nobody holds the guest is told of, no circle of locks comes about, and the
\* epoch thread sleeps only while no call needs it.
THEOREM WasmIsSound ==
  WasmInit /\ TickerInit /\ [][WasmNext]_wasmvars /\ [][TickerNext]_tickvars => []WasmHolds
<1>1. WasmInit => WasmInv
  BY WasmInduction
<1>2. WasmInv /\ [WasmNext]_wasmvars => WasmInv'
  BY WasmInduction
<1>3. TickerInit => TickerInv
  BY TickerInduction
<1>4. TickerInv /\ [TickerNext]_tickvars => TickerInv'
  BY TickerInduction
<1>5. WasmInv /\ TickerInv => WasmHolds
  BY WasmInvImplies, TickerInduction DEF WasmHolds
<1> QED BY <1>1, <1>2, <1>3, <1>4, <1>5, PTL

-----------------------------------------------------------------------------
(* Engines.                                                                *)

\* Whoever waits for e is once in its queue q, or the one it runs for, j.
Queued(e, q, j, w) ==
  /\ \A i, k \in 1 .. Len(q) : i # k => q[i] # q[k]
  /\ \A i \in 1 .. Len(q) : q[i] # j /\ w[q[i]] = e
  /\ j # "none" => w[j] = e
  /\ \A t \in EngineThreads : w[t] = e => t = j \/ \E i \in 1 .. Len(q) : q[i] = t

\* What an engine's thread runs is its engine, or called on from it.
RunsItsOwn(a, q) == \A k \in 1 .. Len(q) : q[k] = a \/ ComesTo(calling, EveryEngine, a, q[k])

EnginesInv ==
  /\ frames \in [EngineThreads -> Seq(EveryEngine)]
  /\ waiting \in [EngineThreads -> PinnedEngines \cup {"none"}]
  /\ jobs \in [PinnedEngines -> Seq(EngineThreads)]
  /\ job \in [PinnedEngines -> EngineThreads \cup {"none"}]
  /\ \A e \in PinnedEngines : Queued(e, jobs[e], job[e], waiting)
  /\ \A e \in PinnedEngines : job[e] # "none" <=> frames[e] # <<>>
  /\ \A e \in PinnedEngines : RunsItsOwn(e, frames[e])
  /\ \A e \in PinnedEngines : waiting[e] # e
  /\ \A e \in PinnedEngines : waiting[e] # "none" => ComesTo(calling, EveryEngine, e, waiting[e])

LEMMA ComesNext ==
  ASSUME NEW R, NEW S, NEW a, NEW b \in S, <<a, b>> \in R
  PROVE  ComesTo(R, S, a, b)
BY DEF ComesTo

LEMMA ComesOn ==
  ASSUME NEW R, NEW S, NEW a, NEW b, NEW c \in S, ComesTo(R, S, a, b), <<b, c>> \in R
  PROVE  ComesTo(R, S, a, c)
BY DEF ComesTo

\* A set with a and with what follows each of its members has what a comes to.
LEMMA ComesInside ==
  ASSUME NEW R, NEW S, NEW C \in SUBSET S, NEW a \in C, NEW b, ComesTo(R, S, a, b),
         \A v \in S : (\E c \in C : <<c, v>> \in R) => v \in C
  PROVE  b \in C
BY DEF ComesTo

LEMMA CallsEngineKeeps ==
  ASSUME EnginesInv, NEW t \in EngineThreads, NEW e \in EveryEngine, CallsEngine(t, e)
  PROVE  EnginesInv'
<1>1. /\ frames \in [EngineThreads -> Seq(EveryEngine)]
      /\ waiting \in [EngineThreads -> PinnedEngines \cup {"none"}]
      /\ jobs \in [PinnedEngines -> Seq(EngineThreads)]
      /\ job \in [PinnedEngines -> EngineThreads \cup {"none"}]
      /\ PinnedEngines \subseteq EngineThreads /\ "none" \notin EngineThreads
  BY EnginesAssumption DEF EnginesInv, EngineThreads
<1>2. waiting[t] = "none" /\ calling' = calling /\ job' = job
  BY DEF CallsEngine
<1>3. ASSUME t \in PinnedEngines PROVE ComesTo(calling, EveryEngine, t, e)
  <2>1. PICK q \in Seq(EveryEngine) : q = frames[t]
    BY <1>1
  <2>2. q # <<>> /\ <<q[Len(q)], e>> \in calling
    BY <1>3, <2>1, EnginesAssumption DEF CallsEngine, EveryEngine, Innermost
  <2>3. Len(q) \in 1 .. Len(q)
    BY <2>2
  <2>4. q[Len(q)] = t \/ ComesTo(calling, EveryEngine, t, q[Len(q)])
    BY <1>3, <2>1, <2>3 DEF EnginesInv, RunsItsOwn
  <2>5. CASE q[Len(q)] = t
    BY <2>2, <2>5, ComesNext
  <2>6. CASE ComesTo(calling, EveryEngine, t, q[Len(q)])
    BY <2>2, <2>6, ComesOn
  <2> QED BY <2>4, <2>5, <2>6
<1>4. CASE RunsHere(t, e)
  <2>1. frames' = [frames EXCEPT ![t] = Append(@, e)] /\ UNCHANGED <<waiting, jobs>>
    BY <1>4 DEF CallsEngine
  <2>2. PICK q, s : q \in Seq(EveryEngine) /\ q = frames[t] /\ s = Append(q, e)
    BY <1>1
  <2>3. s \in Seq(EveryEngine) /\ s # <<>> /\ Len(s) = Len(q) + 1 /\ s[Len(q) + 1] = e
        /\ \A k \in 1 .. Len(q) : s[k] = q[k]
    BY <2>2
  <2>4. /\ frames' \in [EngineThreads -> Seq(EveryEngine)] /\ frames'[t] = s
        /\ \A u \in EngineThreads : u # t => frames'[u] = frames[u]
    BY <1>1, <2>3, <2>1, <2>2
  <2>5. ASSUME t \in PinnedEngines PROVE frames[t] # <<>>
    BY <2>5, EnginesAssumption DEF CallsEngine, EveryEngine
  <2>6. \A u \in PinnedEngines : job[u] # "none" <=> frames'[u] # <<>>
    BY <1>1, <2>3, <2>4, <2>5 DEF EnginesInv
  <2>7. ASSUME t \in PinnedEngines PROVE RunsItsOwn(t, s)
    <3>1. ASSUME NEW k \in 1 .. Len(s) PROVE s[k] = t \/ ComesTo(calling, EveryEngine, t, s[k])
      <4>1. CASE k \in 1 .. Len(q)
        BY <2>3, <4>1, <2>2, <2>7 DEF EnginesInv, RunsItsOwn
      <4>2. CASE k \notin 1 .. Len(q)
        <5>1. PICK n \in Nat : n = Len(q)
          OBVIOUS
        <5> QED BY <1>3, <2>7, <2>3, <5>1, <4>2
      <4> QED BY <4>1, <4>2
    <3> QED BY <3>1 DEF RunsItsOwn
  <2>8. \A u \in PinnedEngines : RunsItsOwn(u, frames[u])'
    BY <1>2, <1>1, <2>4, <2>7 DEF RunsItsOwn, EnginesInv
  <2> QED BY <1>2, <2>1, <2>4, <2>6, <2>8 DEF EnginesInv
<1>5. CASE ~RunsHere(t, e)
  <2>1. /\ jobs' = [jobs EXCEPT ![e] = Append(@, t)] /\ waiting' = [waiting EXCEPT ![t] = e] /\ frames' = frames
        /\ e \in PinnedEngines /\ t # e
    BY <1>5 DEF CallsEngine, RunsHere, EveryEngine
  <2>2. PICK q, s : q \in Seq(EngineThreads) /\ q = jobs[e] /\ s = Append(q, t)
    BY <1>1, <2>1
  <2>3. s \in Seq(EngineThreads) /\ Len(s) = Len(q) + 1 /\ s[Len(q) + 1] = t
        /\ \A k \in 1 .. Len(q) : s[k] = q[k]
    BY <2>2
  <2>4. PICK w : w = waiting'
    OBVIOUS
  <2>5. /\ w \in [EngineThreads -> PinnedEngines \cup {"none"}] /\ w[t] = e
        /\ \A u \in EngineThreads : u # t => w[u] = waiting[u]
    BY <1>1, <2>1, <2>4
  <2>6. jobs' \in [PinnedEngines -> Seq(EngineThreads)] /\ jobs'[e] = s
        /\ \A u \in PinnedEngines : u # e => jobs'[u] = jobs[u]
    BY <1>1, <2>1, <2>2, <2>3
  <2>7. ASSUME NEW d \in PinnedEngines PROVE Queued(d, jobs'[d], job[d], w)
    <3>1. PICK p \in Seq(EngineThreads), j \in EngineThreads \cup {"none"} : p = jobs[d] /\ j = job[d]
      BY <1>1
    <3>2. Queued(d, p, j, waiting)
      BY <3>1 DEF EnginesInv
    <3>3. d # "none" /\ t # j /\ \A i \in 1 .. Len(p) : p[i] # t
      BY <1>1, <1>2, <3>2 DEF Queued
    <3>4. CASE d # e
      <4>1. Queued(d, p, j, w)
        BY <3>2, <2>5, <3>3, <3>4 DEF Queued
      <4> QED BY <2>6, <3>1, <3>4, <4>1
    <3>5. CASE d = e
      <4>1. p = q
        BY <2>2, <3>1, <3>5
      <4>2. PICK n \in Nat : n = Len(q)
        OBVIOUS
      <4>3. Len(s) = n + 1 /\ s[n + 1] = t /\ \A k \in 1 .. n : s[k] = q[k] /\ s[k] # t
        BY <2>3, <3>3, <4>1, <4>2
      <4>4. \A i \in 1 .. n + 1 : i \in 1 .. n \/ i = n + 1
        OBVIOUS
      <4>5. ASSUME NEW u \in EngineThreads, w[u] = e PROVE u = j \/ \E i \in 1 .. n + 1 : s[i] = u
        <5>1. CASE u = t
          BY <4>3, <5>1
        <5>2. CASE u # t
          BY <4>3, <2>5, <3>2, <3>5, <4>1, <4>2, <4>5, <5>2 DEF Queued
        <5> QED BY <5>1, <5>2
      <4>6. Queued(e, s, j, w)
        BY <4>3, <3>2, <4>1, <4>2, <4>4, <2>5, <3>3, <3>5, <4>5 DEF Queued
      <4> QED BY <2>6, <3>1, <3>5, <4>6
    <3> QED BY <3>4, <3>5
  <2>8. \A d \in PinnedEngines : Queued(d, jobs[d], job[d], waiting)'
    BY <1>2, <2>4, <2>7 DEF Queued
  <2>9. \A d \in PinnedEngines : RunsItsOwn(d, frames[d])'
    BY <1>2, <2>1 DEF EnginesInv, RunsItsOwn
  <2>10. \A d \in PinnedEngines : waiting'[d] # d /\ (waiting'[d] # "none" => ComesTo(calling', EveryEngine, d, waiting'[d]))
    BY <1>2, <2>4, <1>1, <1>3, <2>1, <2>5 DEF EnginesInv
  <2>11. \A d \in PinnedEngines : job'[d] # "none" <=> frames'[d] # <<>>
    BY <1>2, <2>1 DEF EnginesInv
  <2>12. /\ frames' \in [EngineThreads -> Seq(EveryEngine)]
         /\ waiting' \in [EngineThreads -> PinnedEngines \cup {"none"}]
         /\ job' \in [PinnedEngines -> EngineThreads \cup {"none"}]
    BY <1>1, <1>2, <2>1, <2>4, <2>5
  <2> QED BY <2>6, <2>8, <2>9, <2>10, <2>11, <2>12 DEF EnginesInv, ComesTo
<1> QED BY <1>4, <1>5

LEMMA TakesJobKeeps ==
  ASSUME EnginesInv, NEW e \in PinnedEngines, TakesJob(e)
  PROVE  EnginesInv'
<1>1. /\ frames \in [EngineThreads -> Seq(EveryEngine)]
      /\ jobs \in [PinnedEngines -> Seq(EngineThreads)]
      /\ job \in [PinnedEngines -> EngineThreads \cup {"none"}]
      /\ PinnedEngines \subseteq EngineThreads /\ "none" \notin EngineThreads /\ e \in EveryEngine
  BY EnginesAssumption DEF EnginesInv, EngineThreads, EveryEngine
<1>2. calling' = calling /\ waiting' = waiting
  BY DEF TakesJob
<1>3. PICK q, s, h : q \in Seq(EngineThreads) /\ q = jobs[e] /\ s = Tail(q) /\ h = Head(q)
  BY <1>1
<1>4. q # <<>> /\ frames' = [frames EXCEPT ![e] = <<e>>] /\ job' = [job EXCEPT ![e] = h]
      /\ jobs' = [jobs EXCEPT ![e] = s] /\ frames[e] = <<>>
  BY <1>3 DEF TakesJob
<1>5. PICK n \in Nat : Len(q) = n + 1
  <2>1. Len(q) \in Nat /\ Len(q) # 0
    BY <1>4
  <2> QED BY <2>1
<1>6. /\ s \in Seq(EngineThreads) /\ Len(s) = n /\ h = q[1] /\ h \in EngineThreads
      /\ \A k \in 1 .. n : s[k] = q[k + 1]
  BY <1>3, <1>4, <1>5
<1>7. /\ frames' \in [EngineThreads -> Seq(EveryEngine)]
      /\ jobs' \in [PinnedEngines -> Seq(EngineThreads)]
      /\ job' \in [PinnedEngines -> EngineThreads \cup {"none"}]
      /\ frames'[e] = <<e>> /\ jobs'[e] = s /\ job'[e] = h
      /\ \A d \in PinnedEngines : d # e => frames'[d] = frames[d] /\ jobs'[d] = jobs[d] /\ job'[d] = job[d]
  BY <1>1, <1>4, <1>6
<1>8. Queued(e, s, h, waiting)
  <2>1. Queued(e, q, "none", waiting)
    BY <1>1, <1>3, <1>4 DEF EnginesInv
  <2>2. 1 \in 1 .. n + 1 /\ \A k \in 1 .. n : k + 1 \in 1 .. n + 1 /\ k + 1 # 1
    OBVIOUS
  <2>3. \A i, k \in 1 .. n : i # k => s[i] # s[k]
    BY <1>5, <1>6, <2>1, <2>2 DEF Queued
  <2>4. \A i \in 1 .. n : s[i] # h /\ waiting[s[i]] = e
    BY <1>5, <1>6, <2>1, <2>2 DEF Queued
  <2>5. waiting[h] = e
    BY <1>5, <1>6, <2>1, <2>2 DEF Queued
  <2>6. ASSUME NEW t \in EngineThreads, waiting[t] = e PROVE t = h \/ \E i \in 1 .. n : s[i] = t
    <3>1. PICK i \in 1 .. n + 1 : q[i] = t
      BY <1>1, <1>5, <2>1, <2>6 DEF Queued
    <3>2. CASE i = 1
      BY <1>6, <3>1, <3>2
    <3>3. CASE i # 1
      <4>1. i - 1 \in 1 .. n /\ (i - 1) + 1 = i
        BY <3>3
      <4> QED BY <1>6, <3>1, <4>1
    <3> QED BY <3>2, <3>3
  <2> QED BY <1>6, <2>3, <2>4, <2>5, <2>6 DEF Queued
<1>9. \A d \in PinnedEngines : Queued(d, jobs[d], job[d], waiting)'
  <2>1. ASSUME NEW d \in PinnedEngines PROVE Queued(d, jobs'[d], job'[d], waiting)
    <3>1. CASE d = e
      BY <1>7, <1>8, <3>1
    <3>2. CASE d # e
      BY <1>7, <3>2 DEF EnginesInv
    <3> QED BY <3>1, <3>2
  <2> QED BY <1>2, <2>1 DEF Queued
<1>10. \A d \in PinnedEngines : RunsItsOwn(d, frames[d])'
  <2>1. ASSUME NEW d \in PinnedEngines PROVE RunsItsOwn(d, frames'[d])
    <3>1. CASE d = e
      BY <1>7, <3>1 DEF RunsItsOwn
    <3>2. CASE d # e
      BY <1>7, <3>2 DEF EnginesInv
    <3> QED BY <3>1, <3>2
  <2> QED BY <1>2, <2>1 DEF RunsItsOwn
<1>11. \A d \in PinnedEngines : job'[d] # "none" <=> frames'[d] # <<>>
  <2>1. h # "none" /\ <<e>> # <<>>
    BY <1>1, <1>6
  <2> QED BY <1>7, <2>1 DEF EnginesInv
<1> QED BY <1>2, <1>7, <1>9, <1>10, <1>11 DEF EnginesInv, ComesTo

LEMMA EngineReturnsKeeps ==
  ASSUME EnginesInv, NEW t \in EngineThreads, EngineReturns(t)
  PROVE  EnginesInv'
<1>1. /\ frames \in [EngineThreads -> Seq(EveryEngine)]
      /\ waiting \in [EngineThreads -> PinnedEngines \cup {"none"}]
      /\ jobs \in [PinnedEngines -> Seq(EngineThreads)]
      /\ job \in [PinnedEngines -> EngineThreads \cup {"none"}]
      /\ PinnedEngines \subseteq EngineThreads /\ "none" \notin EngineThreads
  BY EnginesAssumption DEF EnginesInv, EngineThreads
<1>2. calling' = calling /\ jobs' = jobs
  BY DEF EngineReturns
<1>3. PICK q, s : q \in Seq(EveryEngine) /\ q = frames[t] /\ s = SubSeq(q, 1, Len(q) - 1)
  BY <1>1
<1>4. q # <<>> /\ frames' = [frames EXCEPT ![t] = s]
  BY <1>3 DEF EngineReturns
<1>5. PICK n \in Nat : Len(q) = n + 1
  <2>1. Len(q) \in Nat /\ Len(q) # 0
    BY <1>4
  <2> QED BY <2>1
<1>6. s \in Seq(EveryEngine) /\ Len(s) = n /\ \A k \in 1 .. n : s[k] = q[k] /\ k \in 1 .. Len(q)
  BY <1>3, <1>5
<1>7. /\ frames' \in [EngineThreads -> Seq(EveryEngine)] /\ frames'[t] = s
      /\ \A u \in EngineThreads : u # t => frames'[u] = frames[u]
  BY <1>1, <1>4, <1>6
<1>8. t \in PinnedEngines => RunsItsOwn(t, s)
  BY <1>3, <1>6 DEF EnginesInv, RunsItsOwn
<1>9. \A d \in PinnedEngines : RunsItsOwn(d, frames[d])'
  BY <1>2, <1>1, <1>7, <1>8 DEF RunsItsOwn, EnginesInv
<1>10. CASE ~EndsJob(t)
  <2>1. waiting' = waiting /\ job' = job
    BY <1>10 DEF EngineReturns
  <2>2. \A d \in PinnedEngines : Queued(d, jobs[d], job[d], waiting)'
    BY <1>2, <2>1 DEF EnginesInv, Queued
  <2>3. t \in PinnedEngines => s # <<>>
    BY <1>6, <1>3, <1>5, <1>10 DEF EndsJob
  <2>4. \A d \in PinnedEngines : job'[d] # "none" <=> frames'[d] # <<>>
    BY <1>1, <1>3, <1>4, <1>7, <2>1, <2>3 DEF EnginesInv
  <2> QED BY <1>2, <1>7, <1>9, <2>1, <2>2, <2>4 DEF EnginesInv, ComesTo
<1>11. CASE EndsJob(t)
  <2>1. t \in PinnedEngines /\ n = 0 /\ s = <<>>
    BY <1>3, <1>5, <1>6, <1>11 DEF EndsJob
  <2>2. PICK j \in EngineThreads : j = job[t]
    BY <1>1, <1>3, <1>4, <2>1 DEF EnginesInv
  <2>3. PICK w : w = waiting'
    OBVIOUS
  <2>4. w = [u \in EngineThreads |-> IF u = j THEN "none" ELSE waiting[u]] /\ job' = [job EXCEPT ![t] = "none"]
    BY <1>11, <2>2, <2>3 DEF EngineReturns
  <2>5. /\ w \in [EngineThreads -> PinnedEngines \cup {"none"}] /\ w[j] = "none"
        /\ \A u \in EngineThreads : u # j => w[u] = waiting[u]
    BY <1>1, <2>4
  <2>6. /\ job' \in [PinnedEngines -> EngineThreads \cup {"none"}] /\ job'[t] = "none"
        /\ \A d \in PinnedEngines : d # t => job'[d] = job[d]
    BY <1>1, <2>1, <2>4
  <2>7. ASSUME NEW d \in PinnedEngines PROVE Queued(d, jobs[d], job'[d], w)
    <3>1. PICK p \in Seq(EngineThreads), i \in EngineThreads \cup {"none"} : p = jobs[d] /\ i = job[d]
      BY <1>1
    <3>2. Queued(d, p, i, waiting)
      BY <3>1 DEF EnginesInv
    <3>3. d # "none"
      BY <1>1
    <3>4. CASE d = t
      <4>1. Queued(d, p, "none", w)
        <5>1. i = j
          BY <2>2, <3>1, <3>4
        <5>2. \A k \in 1 .. Len(p) : p[k] \in EngineThreads /\ p[k] # "none" /\ w[p[k]] = d
          BY <1>1, <2>5, <3>2, <5>1 DEF Queued
        <5>3. ASSUME NEW u \in EngineThreads, w[u] = d PROVE \E k \in 1 .. Len(p) : p[k] = u
          BY <3>2, <5>1, <2>5, <3>3, <5>3 DEF Queued
        <5>4. \A k, m \in 1 .. Len(p) : k # m => p[k] # p[m]
          BY <3>2 DEF Queued
        <5> QED BY <5>2, <5>3, <5>4 DEF Queued
      <4> QED BY <2>6, <3>1, <3>4, <4>1
    <3>5. CASE d # t
      <4>1. i # j /\ \A k \in 1 .. Len(p) : p[k] # j
        BY <1>1, <2>2, <3>2, <2>1, <3>5 DEF Queued, EnginesInv
      <4> QED BY <2>6, <3>1, <3>5, <2>5, <3>2, <3>3, <4>1 DEF Queued
    <3> QED BY <3>4, <3>5
  <2>8. \A d \in PinnedEngines : Queued(d, jobs[d], job[d], waiting)'
    BY <1>2, <2>3, <2>7 DEF Queued
  <2>9. \A d \in PinnedEngines : job'[d] # "none" <=> frames'[d] # <<>>
    BY <1>1, <1>7, <2>1, <2>6 DEF EnginesInv
  <2>10. \A d \in PinnedEngines : waiting'[d] # d /\ (waiting'[d] # "none" => ComesTo(calling', EveryEngine, d, waiting'[d]))
    BY <1>2, <2>3, <1>1, <2>5 DEF EnginesInv
  <2>11. jobs' \in [PinnedEngines -> Seq(EngineThreads)] /\ waiting' \in [EngineThreads -> PinnedEngines \cup {"none"}]
    BY <1>1, <1>2, <2>3, <2>5
  <2> QED BY <1>7, <1>9, <2>6, <2>8, <2>9, <2>10, <2>11 DEF EnginesInv, ComesTo
<1> QED BY <1>10, <1>11

LEMMA EnginesInduction ==
  /\ EnginesInit => EnginesInv
  /\ EnginesInv /\ [EnginesNext]_enginevars => EnginesInv'
<1>1. ASSUME EnginesInit PROVE EnginesInv
  <2>1. PinnedEngines \subseteq EngineThreads /\ "none" \notin EngineThreads
    BY EnginesAssumption DEF EngineThreads
  <2>2. /\ \A t \in EngineThreads : frames[t] = <<>> /\ waiting[t] = "none"
        /\ \A e \in PinnedEngines : jobs[e] = <<>> /\ job[e] = "none"
    BY <1>1 DEF EnginesInit
  <2>3. /\ frames \in [EngineThreads -> Seq(EveryEngine)]
        /\ waiting \in [EngineThreads -> PinnedEngines \cup {"none"}]
        /\ jobs \in [PinnedEngines -> Seq(EngineThreads)]
        /\ job \in [PinnedEngines -> EngineThreads \cup {"none"}]
    BY <1>1 DEF EnginesInit
  <2>4. \A e \in PinnedEngines : Queued(e, <<>>, "none", waiting) /\ RunsItsOwn(e, <<>>)
    BY <2>1, <2>2 DEF Queued, RunsItsOwn
  <2> QED BY <2>1, <2>2, <2>3, <2>4 DEF EnginesInv
<1>2. ASSUME EnginesInv, EnginesNext PROVE EnginesInv'
  BY <1>2, CallsEngineKeeps, TakesJobKeeps, EngineReturnsKeeps DEF EnginesNext
<1>3. ASSUME EnginesInv, UNCHANGED enginevars PROVE EnginesInv'
  BY <1>3 DEF EnginesInv, Queued, RunsItsOwn, enginevars
<1> QED BY <1>1, <1>2, <1>3

LEMMA EnginesInvImplies == EnginesInv => EngineCallsGoOn
<1> SUFFICES ASSUME EnginesInv PROVE WaitIsKept /\ CircleIsWritten
  BY DEF EngineCallsGoOn
<1>0. /\ waiting \in [EngineThreads -> PinnedEngines \cup {"none"}]
      /\ jobs \in [PinnedEngines -> Seq(EngineThreads)]
      /\ PinnedEngines \subseteq EngineThreads /\ "none" \notin EngineThreads
      /\ PinnedEngines \subseteq EveryEngine /\ EngineThreads \cap EveryEngine = PinnedEngines
  BY EnginesAssumption DEF EnginesInv, EngineThreads, EveryEngine
<1>1. WaitIsKept
  <2>1. ASSUME NEW e \in PinnedEngines, NEW t \in EngineThreads
        PROVE  Cardinality({i \in DOMAIN jobs[e] : jobs[e][i] = t}) + (IF job[e] = t THEN 1 ELSE 0)
                 = IF waiting[t] = e THEN 1 ELSE 0
    <3>1. PICK q, S : q \in Seq(EngineThreads) /\ q = jobs[e] /\ S = {i \in 1 .. Len(q) : q[i] = t}
      BY <1>0
    <3>2. Queued(e, q, job[e], waiting) /\ DOMAIN jobs[e] = 1 .. Len(q)
      BY <3>1 DEF EnginesInv
    <3>3. CASE \E i \in 1 .. Len(q) : q[i] = t
      <4>1. PICK i \in 1 .. Len(q) : q[i] = t
        BY <3>3
      <4>2. S = {i} /\ job[e] # t /\ waiting[t] = e
        BY <3>1, <3>2, <4>1 DEF Queued
      <4>3. Cardinality(S) = 1
        BY <4>2, FS_Singleton
      <4> QED BY <3>1, <3>2, <4>2, <4>3
    <3>4. CASE ~\E i \in 1 .. Len(q) : q[i] = t
      <4>1. Cardinality(S) = 0
        BY <3>1, <3>4, FS_EmptySet
      <4>2. job[e] = t <=> waiting[t] = e
        BY <1>0, <3>2, <3>4 DEF Queued
      <4> QED BY <3>1, <3>2, <4>1, <4>2
    <3> QED BY <3>3, <3>4
  <2> QED BY <2>1 DEF WaitIsKept, EnginesInv
<1>2. ASSUME NEW t \in PinnedEngines, waiting[t] # "none", ComesTo(WaitsFor, EngineThreads, t, t)
      PROVE  \E e \in PinnedEngines \ {t} :
               /\ ComesTo(WaitsFor, EngineThreads, t, e) /\ ComesTo(WaitsFor, EngineThreads, e, t)
               /\ ComesTo(calling, EveryEngine, t, e) /\ ComesTo(calling, EveryEngine, e, t)
  <2>1. PICK e \in PinnedEngines : e = waiting[t]
    BY <1>0, <1>2
  <2>2. e # t /\ e \in EngineThreads /\ t \in EngineThreads
    BY <1>0, <2>1 DEF EnginesInv
  <2>3. \A u \in EngineThreads, v \in EngineThreads : <<u, v>> \in WaitsFor <=> v = waiting[u]
    BY DEF WaitsFor
  <2>4. ComesTo(WaitsFor, EngineThreads, t, e)
    BY <2>1, <2>2, <2>3, ComesNext
  <2>5. ComesTo(WaitsFor, EngineThreads, e, t)
    <3>1. SUFFICES ASSUME NEW C \in SUBSET EngineThreads,
                          \A v \in EngineThreads : <<e, v>> \in WaitsFor \/ (\E c \in C : <<c, v>> \in WaitsFor) => v \in C
                   PROVE  t \in C
      BY DEF ComesTo
    <3>2. PICK D : D = C \cup {e}
      OBVIOUS
    <3>3. ASSUME NEW v \in EngineThreads, <<t, v>> \in WaitsFor \/ (\E c \in D : <<c, v>> \in WaitsFor) PROVE v \in D
      BY <2>1, <2>2, <2>3, <3>1, <3>2, <3>3
    <3>4. t \in D
      BY <1>2, <2>2, <3>2, <3>3 DEF ComesTo
    <3> QED BY <2>2, <3>2, <3>4
  <2>6. ComesTo(calling, EveryEngine, t, e)
    BY <1>2, <2>1 DEF EnginesInv
  <2>7. ComesTo(calling, EveryEngine, e, t)
    <3>1. SUFFICES ASSUME NEW C \in SUBSET EveryEngine,
                          \A v \in EveryEngine : <<e, v>> \in calling \/ (\E c \in C : <<c, v>> \in calling) => v \in C
                   PROVE  t \in C
      BY DEF ComesTo
    <3>2. PICK D \in SUBSET EngineThreads : D = C \cap PinnedEngines
      BY <1>0
    <3>3. ASSUME NEW u \in D \cup {e}, NEW v \in EngineThreads, <<u, v>> \in WaitsFor PROVE v \in D
      <4>1. u \in PinnedEngines /\ u \in EngineThreads /\ v = waiting[u]
        BY <1>0, <2>3, <3>2, <3>3
      <4>2. v \in PinnedEngines /\ v # "none"
        BY <1>0, <4>1
      <4>3. ComesTo(calling, EveryEngine, u, v)
        BY <4>1, <4>2 DEF EnginesInv
      <4>4. v \in C
        <5>1. CASE u = e
          BY <3>1, <4>3, <5>1 DEF ComesTo
        <5>2. CASE u # e
          BY <4>3, <3>2, <3>3, <5>2, <3>1, ComesInside
        <5> QED BY <5>1, <5>2
      <4> QED BY <3>2, <4>2, <4>4
    <3>4. t \in D
      BY <2>5, <3>3 DEF ComesTo
    <3> QED BY <3>2, <3>4
  <2> QED BY <2>2, <2>4, <2>5, <2>6, <2>7
<1> QED BY <1>1, <1>2 DEF CircleIsWritten

\* Whatever engines are written to call, on however many threads and however
\* deep: a call that waits for an engine's thread is queued there once or runs
\* there, it is answered when nothing of it runs any more, and pinned engines
\* wait for each other in a circle only if they are written in one.
THEOREM EnginesGoOn == EnginesInit /\ [][EnginesNext]_enginevars => []EngineCallsGoOn
<1>1. EnginesInit => EnginesInv
  BY EnginesInduction
<1>2. EnginesInv /\ [EnginesNext]_enginevars => EnginesInv'
  BY EnginesInduction
<1> QED BY <1>1, <1>2, EnginesInvImplies, PTL

-----------------------------------------------------------------------------
(* Handing.  The invariant is of values it is given, so that an action may *)
(* be taken in parts, through values the state never has.                  *)

HandleOf == [held : {"unmade", "object", "lent"}, thing : Things \cup {NoThing}]
ArgOf == [as : {"object", "lent", "passed", "taken"}, thing : Things \cup {NoThing},
          home : HandleIds \cup {NoHome}]
FrameOf == [is : {"served", "preparing", "running"}, me : HandleIds \cup {NoHome},
            lent : SUBSET HandleIds, prepared : Seq(ArgOf), target : Things \cup {NoThing}]

IsKept(a) == a.as \in {"object", "lent"}

\* A method runs on handle h.
RunsOn(ns, h) == \E i \in 1 .. Len(ns) : ns[i].is = "running" /\ ns[i].me = h

LendsOn(f, o) ==
  \E j \in 1 .. Len(f.prepared) : f.prepared[j].as = "lent" /\ f.prepared[j].thing = o

\* Who lent o to the call at i has it: the host, or a call that began before.
LenderHas(ns, ow, i, o) ==
  o \in ow \/ \E k \in 1 .. i - 1 : ns[k].is = "running" /\ LendsOn(ns[k], o)

\* An object in a handle that owns it is nowhere else; one lent has a lender.
HandleFits(hd, ns, ow, ds, h) ==
  /\ hd[h].held = "unmade" => hd[h].thing = NoThing
  /\ hd[h].held = "object" /\ hd[h].thing # NoThing =>
       /\ hd[h].thing \notin ow /\ hd[h].thing \notin ds
       /\ \A k \in HandleIds : k # h /\ hd[k].held = "object" => hd[k].thing # hd[h].thing
  /\ hd[h].held = "lent" /\ hd[h].thing # NoThing =>
       \E i \in 1 .. Len(ns) : h \in ns[i].lent /\ LenderHas(ns, ow, i, hd[h].thing)

\* An object taken out is nobody else's, and the handle it was in waits for it.
KeptFits(hd, ns, ow, ds, a) ==
  /\ a.thing \in Things /\ a.thing \notin ow /\ a.thing \notin ds
  /\ \A h \in HandleIds : hd[h].held = "object" => hd[h].thing # a.thing
  /\ a.home # NoHome =>
       hd[a.home].held = "object" /\ hd[a.home].thing = NoThing /\ ~RunsOn(ns, a.home)

\* What is passed on was lent to a call further out, until that ends.
PassedFits(hd, ns, i, a) ==
  /\ ns[i].is = "running" => a.thing # NoThing
  /\ a.thing # NoThing =>
       \E k \in 1 .. i - 1 : /\ a.home \in ns[k].lent
                             /\ hd[a.home].held = "lent" /\ hd[a.home].thing = a.thing

ArgFits(hd, ns, ow, ds, i, a) ==
  /\ IsKept(a) => KeptFits(hd, ns, ow, ds, a)
  /\ a.as = "passed" => PassedFits(hd, ns, i, a)

ArgsFit(hd, ns, ow, ds) ==
  \A i \in 1 .. Len(ns) : \A j \in 1 .. Len(ns[i].prepared) :
    ArgFits(hd, ns, ow, ds, i, ns[i].prepared[j])

KeptApart(a, b) ==
  IsKept(a) /\ IsKept(b) => a.thing # b.thing /\ (a.home = NoHome \/ a.home # b.home)

ArgsApart(ns) ==
  \A i, k \in 1 .. Len(ns) : \A j \in 1 .. Len(ns[i].prepared), m \in 1 .. Len(ns[k].prepared) :
    i # k \/ j # m => KeptApart(ns[i].prepared[j], ns[k].prepared[m])

\* A method's object is in the handle it was called through; a handle lent to a
\* call is that call's alone, and called inside it only.
FrameFits(hd, ns, i) ==
  /\ ns[i].is = "running" =>
       ns[i].me \in HandleIds /\ ns[i].target # NoThing /\ hd[ns[i].me].thing = ns[i].target
  /\ ns[i].is = "preparing" => ns[i].me \in HandleIds /\ hd[ns[i].me].held # "unmade"
  /\ IF ns[i].is = "served" THEN ns[i].me = NoHome /\ Len(ns[i].prepared) = 0 ELSE ns[i].lent = {}
  /\ \A h \in ns[i].lent : /\ hd[h].held = "lent"
                           /\ \A k \in 1 .. Len(ns) : ns[k].me = h => k > i
                           /\ \A k \in 1 .. Len(ns) : k # i => h \notin ns[k].lent

Somewhere(hd, ns, ow, ds, o) ==
  \/ o \in ow \/ o \in ds
  \/ \E h \in HandleIds : hd[h].held = "object" /\ hd[h].thing = o
  \/ \E i \in 1 .. Len(ns) : \E j \in 1 .. Len(ns[i].prepared) :
       IsKept(ns[i].prepared[j]) /\ ns[i].prepared[j].thing = o

HandsTyped(hd, ns, ow, ds) ==
  /\ hd \in [HandleIds -> HandleOf] /\ ns \in Seq(FrameOf)
  /\ \A o \in ow : o \in Things /\ o \notin ds
  /\ \A o \in ds : o \in Things

HandInv(hd, ns, ow, ds) ==
  /\ HandsTyped(hd, ns, ow, ds)
  /\ \A h \in HandleIds : HandleFits(hd, ns, ow, ds, h)
  /\ \A i \in 1 .. Len(ns) : FrameFits(hd, ns, i)
  /\ ArgsFit(hd, ns, ow, ds)
  /\ ArgsApart(ns)
  /\ \A o \in HostThings : Somewhere(hd, ns, ow, ds, o)

HandingInv == HandInv(handle, nest, owned, destroyed)

LEMMA FramesAre ==
  ASSUME NEW ns \in Seq(FrameOf)
  PROVE  /\ Len(ns) \in Nat
         /\ \A i \in 1 .. Len(ns) :
              /\ ns[i] \in FrameOf /\ ns[i].lent \in SUBSET HandleIds
              /\ ns[i].prepared \in Seq(ArgOf) /\ Len(ns[i].prepared) \in Nat
              /\ \A j \in 1 .. Len(ns[i].prepared) : ns[i].prepared[j] \in ArgOf
<1>1. Len(ns) \in Nat
  OBVIOUS
<1>2. ASSUME NEW i \in 1 .. Len(ns)
      PROVE  /\ ns[i] \in FrameOf /\ ns[i].lent \in SUBSET HandleIds
             /\ ns[i].prepared \in Seq(ArgOf) /\ Len(ns[i].prepared) \in Nat
             /\ \A j \in 1 .. Len(ns[i].prepared) : ns[i].prepared[j] \in ArgOf
  <2>1. ns[i] \in FrameOf
    BY ElementOfSeq
  <2>2. ns[i].lent \in SUBSET HandleIds /\ ns[i].prepared \in Seq(ArgOf)
    BY <2>1 DEF FrameOf
  <2>3. PICK args \in Seq(ArgOf) : args = ns[i].prepared
    BY <2>2
  <2>4. Len(args) \in Nat /\ \A j \in 1 .. Len(args) : args[j] \in ArgOf
    BY ElementOfSeq
  <2> QED BY <2>1, <2>2, <2>3, <2>4
<1> QED BY <1>1, <1>2

\* ns2 is ns without its innermost call, the n + 1st.
Ends(ns, ns2, n) ==
  /\ ns2 \in Seq(FrameOf) /\ n \in Nat /\ Len(ns) = n + 1 /\ Len(ns2) = n
  /\ \A i \in 1 .. n : ns2[i] = ns[i]

\* As GivenBack and Strayed: each argument a call kept is in its handle again,
\* or was destroyed.
GivesAll(args, hd, hd2, ds, ds2) ==
  /\ hd2 \in [HandleIds -> HandleOf]
  /\ \A h \in HandleIds :
       \/ hd2[h] = hd[h] /\ \A j \in 1 .. Len(args) : IsKept(args[j]) => args[j].home # h
       \/ \E j \in 1 .. Len(args) :
            IsKept(args[j]) /\ args[j].home = h /\ hd2[h] = OfObject(args[j].thing)
  /\ \A o : o \in ds2 <=> \/ o \in ds
                          \/ \E j \in 1 .. Len(args) :
                               IsKept(args[j]) /\ args[j].home = NoHome /\ args[j].thing = o

\* A call that ends gives its arguments back.
LEMMA CallIsOver ==
  ASSUME HandingAssumption, NEW hd, NEW ns, NEW ow, NEW ds, NEW hd2, NEW ns2, NEW ds2, NEW n,
         HandInv(hd, ns, ow, ds), Ends(ns, ns2, n), ns[n + 1].is # "served",
         GivesAll(ns[n + 1].prepared, hd, hd2, ds, ds2)
  PROVE  HandInv(hd2, ns2, ow, ds2)
<1>0. n \in Nat /\ n + 1 \in 1 .. n + 1 /\ \A i \in 1 .. n : i \in 1 .. n + 1 /\ i # n + 1
  BY DEF Ends
<1>1. /\ ns \in Seq(FrameOf) /\ Len(ns) = n + 1 /\ Len(ns2) = n /\ ns2 \in Seq(FrameOf)
      /\ \A i \in 1 .. n : ns2[i] = ns[i]
  BY DEF HandInv, HandsTyped, Ends
<1>2. PICK args : args = ns[n + 1].prepared
  OBVIOUS
<1>3. /\ hd \in [HandleIds -> HandleOf] /\ hd2 \in [HandleIds -> HandleOf]
      /\ \A j \in 1 .. Len(args) : args[j] \in ArgOf
      /\ \A i \in 1 .. n : \A j \in 1 .. Len(ns[i].prepared) : ns[i].prepared[j] \in ArgOf
  BY <1>0, <1>1, <1>2, FramesAre DEF HandInv, HandsTyped, GivesAll
<1>4. ASSUME NEW j \in 1 .. Len(args), IsKept(args[j])
      PROVE  KeptFits(hd, ns, ow, ds, args[j])
  BY <1>0, <1>1, <1>2, <1>4 DEF HandInv, ArgsFit, ArgFits
<1>5. ASSUME NEW j \in 1 .. Len(args), NEW m \in 1 .. Len(args), j # m
      PROVE  KeptApart(args[j], args[m])
  BY <1>0, <1>1, <1>2, <1>5 DEF HandInv, ArgsApart
<1>6. ASSUME NEW i \in 1 .. n, NEW j \in 1 .. Len(ns[i].prepared), NEW m \in 1 .. Len(args)
      PROVE  KeptApart(ns[i].prepared[j], args[m]) /\ KeptApart(args[m], ns[i].prepared[j])
  BY <1>0, <1>1, <1>2 DEF HandInv, ArgsApart
<1>7. ns[n + 1].lent = {}
  BY <1>0, <1>1 DEF HandInv, FrameFits
\* What became of a handle: it is as it was, or has what was taken out of it.
<1>8. ASSUME NEW h \in HandleIds
      PROVE  \/ hd2[h] = hd[h] /\ \A j \in 1 .. Len(args) : IsKept(args[j]) => args[j].home # h
             \/ /\ hd2[h].held = "object" /\ hd[h].held = "object" /\ hd[h].thing = NoThing
                /\ ~RunsOn(ns, h)
                /\ \E j \in 1 .. Len(args) :
                     IsKept(args[j]) /\ args[j].home = h /\ hd2[h].thing = args[j].thing
  <2>1. CASE hd2[h] = hd[h] /\ \A j \in 1 .. Len(args) : IsKept(args[j]) => args[j].home # h
    BY <2>1
  <2>2. CASE \E j \in 1 .. Len(args) :
               IsKept(args[j]) /\ args[j].home = h /\ hd2[h] = OfObject(args[j].thing)
    <3>1. PICK j \in 1 .. Len(args) :
            IsKept(args[j]) /\ args[j].home = h /\ hd2[h] = OfObject(args[j].thing)
      BY <2>2
    <3>2. h # NoHome
      BY HandingAssumption DEF HandingAssumption, HandleIds, NoHome
    <3>3. hd[h].held = "object" /\ hd[h].thing = NoThing /\ ~RunsOn(ns, h)
      BY <1>4, <3>1, <3>2 DEF KeptFits
    <3> QED BY <3>1, <3>3 DEF OfObject
  <2> QED BY <1>2, <2>1, <2>2 DEF GivesAll
<1>9. \A o : o \in ds2 <=> \/ o \in ds
                           \/ \E j \in 1 .. Len(args) :
                                IsKept(args[j]) /\ args[j].home = NoHome /\ args[j].thing = o
  BY <1>2 DEF GivesAll
<1>10. \A h : RunsOn(ns2, h) => RunsOn(ns, h)
  BY <1>0, <1>1 DEF RunsOn
<1>11. HandsTyped(hd2, ns2, ow, ds2)
  <2>1. \A o \in ow : o \in Things /\ o \notin ds
    BY DEF HandInv, HandsTyped
  <2>2. \A o \in ds2 : o \in Things
    BY <1>4, <1>9 DEF KeptFits, HandInv, HandsTyped
  <2>3. \A o \in ow : o \notin ds2
    BY <1>4, <1>9, <2>1 DEF KeptFits
  <2> QED BY <1>1, <1>3, <2>1, <2>2, <2>3 DEF HandsTyped
<1>12. ASSUME NEW h \in HandleIds PROVE HandleFits(hd2, ns2, ow, ds2, h)
  <2>1. HandleFits(hd, ns, ow, ds, h)
    BY DEF HandInv
  <2>2. hd2[h].held = "unmade" => hd2[h].thing = NoThing
    BY <1>8, <2>1 DEF HandleFits
  <2>3. ASSUME hd2[h].held = "object", hd2[h].thing # NoThing
        PROVE  /\ hd2[h].thing \notin ow /\ hd2[h].thing \notin ds2
               /\ \A k \in HandleIds : k # h /\ hd2[k].held = "object" => hd2[k].thing # hd2[h].thing
    <3>1. CASE hd2[h] = hd[h]
      <4>1. hd[h].thing \notin ow /\ hd[h].thing \notin ds
        BY <2>1, <2>3, <3>1 DEF HandleFits
      <4>2. \A j \in 1 .. Len(args) : IsKept(args[j]) => args[j].thing # hd[h].thing
        BY <1>4, <2>3, <3>1 DEF KeptFits
      <4>3. \A k \in HandleIds : k # h /\ hd2[k].held = "object" => hd2[k].thing # hd[h].thing
        BY <1>8, <4>2, <2>1, <2>3, <3>1 DEF HandleFits
      <4> QED BY <1>9, <3>1, <4>1, <4>2, <4>3
    <3>2. CASE hd2[h] # hd[h]
      <4>1. PICK j \in 1 .. Len(args) :
              IsKept(args[j]) /\ args[j].home = h /\ hd2[h].thing = args[j].thing
        BY <1>8, <3>2
      <4>2. KeptFits(hd, ns, ow, ds, args[j])
        BY <1>4, <4>1
      <4>3. \A m \in 1 .. Len(args) : m # j /\ IsKept(args[m]) => args[m].thing # args[j].thing
        BY <1>5, <4>1 DEF KeptApart
      <4>4. h # NoHome
        BY HandingAssumption DEF HandingAssumption, HandleIds, NoHome
      <4>5. args[j].thing \notin ds2
        BY <1>9, <4>1, <4>2, <4>3, <4>4 DEF KeptFits
      <4>6. \A k \in HandleIds : k # h /\ hd2[k].held = "object" => hd2[k].thing # args[j].thing
        <5> SUFFICES ASSUME NEW k \in HandleIds, k # h, hd2[k].held = "object"
                     PROVE  hd2[k].thing # args[j].thing
          OBVIOUS
        <5>1. CASE hd2[k] = hd[k]
          BY <4>2, <5>1 DEF KeptFits
        <5>2. CASE hd2[k] # hd[k]
          BY <1>8, <4>1, <4>3, <5>2
        <5> QED BY <5>1, <5>2
      <4> QED BY <4>1, <4>2, <4>5, <4>6 DEF KeptFits
    <3> QED BY <3>1, <3>2
  <2>4. ASSUME hd2[h].held = "lent", hd2[h].thing # NoThing
        PROVE  \E i \in 1 .. Len(ns2) : h \in ns2[i].lent /\ LenderHas(ns2, ow, i, hd2[h].thing)
    <3>1. hd2[h] = hd[h]
      BY <1>8, <2>4
    <3>2. PICK i \in 1 .. n + 1 : h \in ns[i].lent /\ LenderHas(ns, ow, i, hd[h].thing)
      BY <1>1, <2>1, <2>4, <3>1 DEF HandleFits
    <3>3. i \in 1 .. n
      BY <1>0, <1>7, <3>2
    <3>4. LenderHas(ns2, ow, i, hd[h].thing)
      BY <1>0, <1>1, <3>2, <3>3 DEF LenderHas
    <3> QED BY <1>1, <3>1, <3>2, <3>3, <3>4
  <2> QED BY <2>2, <2>3, <2>4 DEF HandleFits
<1>13. ASSUME NEW i \in 1 .. n PROVE FrameFits(hd2, ns2, i)
  <2>1. FrameFits(hd, ns, i) /\ ns2[i] = ns[i]
    BY <1>0, <1>1 DEF HandInv
  <2>2. ASSUME ns[i].is = "running"
        PROVE  ns[i].me \in HandleIds /\ ns[i].target # NoThing /\ hd2[ns[i].me].thing = ns[i].target
    BY <1>8, <2>1, <2>2, <1>0, <1>1 DEF FrameFits, RunsOn
  <2>3. ns[i].is = "preparing" => ns[i].me \in HandleIds /\ hd2[ns[i].me].held # "unmade"
    BY <1>8, <2>1 DEF FrameFits
  <2>4. ASSUME NEW h \in ns[i].lent
        PROVE  /\ hd2[h].held = "lent"
               /\ \A k \in 1 .. n : ns2[k].me = h => k > i
               /\ \A k \in 1 .. n : k # i => h \notin ns2[k].lent
    BY <1>0, <1>1, <1>8, <2>1, FramesAre DEF FrameFits
  <2> QED BY <1>1, <2>1, <2>2, <2>3, <2>4 DEF FrameFits
<1>14. ArgsFit(hd2, ns2, ow, ds2)
  <2> SUFFICES ASSUME NEW i \in 1 .. n, NEW j \in 1 .. Len(ns[i].prepared)
               PROVE  ArgFits(hd2, ns2, ow, ds2, i, ns[i].prepared[j])
    BY <1>1 DEF ArgsFit
  <2>1. PICK a \in ArgOf : a = ns[i].prepared[j]
    BY <1>3
  <2>2. ArgFits(hd, ns, ow, ds, i, a)
    BY <1>0, <1>1, <2>1 DEF HandInv, ArgsFit
  <2>3. \A m \in 1 .. Len(args) : KeptApart(a, args[m]) /\ KeptApart(args[m], a)
    BY <1>6, <2>1
  <2>4. ASSUME IsKept(a) PROVE KeptFits(hd2, ns2, ow, ds2, a)
    <3>1. KeptFits(hd, ns, ow, ds, a)
      BY <2>2, <2>4 DEF ArgFits
    <3>2. a.thing \notin ds2
      BY <1>9, <2>3, <2>4, <3>1 DEF KeptApart, KeptFits
    <3>3. \A h \in HandleIds : hd2[h].held = "object" => hd2[h].thing # a.thing
      BY <1>8, <2>3, <2>4, <3>1 DEF KeptApart, KeptFits
    <3>4. ASSUME a.home # NoHome
          PROVE  hd2[a.home].held = "object" /\ hd2[a.home].thing = NoThing /\ ~RunsOn(ns2, a.home)
      <4> QED BY <1>10, <3>1, <3>4, <1>8, <2>3, <2>4 DEF KeptFits, KeptApart, ArgOf
    <3> QED BY <3>1, <3>2, <3>3, <3>4 DEF KeptFits
  <2>5. ASSUME a.as = "passed" PROVE PassedFits(hd2, ns2, i, a)
    <3>1. PassedFits(hd, ns, i, a)
      BY <2>2, <2>5 DEF ArgFits
    <3>2. ASSUME a.thing # NoThing
          PROVE  \E k \in 1 .. i - 1 : /\ a.home \in ns2[k].lent
                                       /\ hd2[a.home].held = "lent" /\ hd2[a.home].thing = a.thing
      <4>1. PICK k \in 1 .. i - 1 : /\ a.home \in ns[k].lent
                                    /\ hd[a.home].held = "lent" /\ hd[a.home].thing = a.thing
        BY <3>1, <3>2 DEF PassedFits
      <4>2. k \in 1 .. n /\ ns2[k] = ns[k]
        BY <1>0, <1>1
      <4>3. a.home \in HandleIds
        BY <1>0, <1>1, <4>1, <4>2, FramesAre
      <4> QED BY <1>8, <4>1, <4>2, <4>3
    <3> QED BY <1>1, <3>1, <3>2 DEF PassedFits
  <2> QED BY <2>1, <2>4, <2>5 DEF ArgFits
<1>15. ArgsApart(ns2)
  BY <1>0, <1>1 DEF HandInv, ArgsApart
<1>16. ASSUME NEW o \in HostThings PROVE Somewhere(hd2, ns2, ow, ds2, o)
  <2>1. Somewhere(hd, ns, ow, ds, o)
    BY DEF HandInv
  <2>2. CASE \E h \in HandleIds : hd[h].held = "object" /\ hd[h].thing = o
    <3>1. PICK h \in HandleIds : hd[h].held = "object" /\ hd[h].thing = o
      BY <2>2
    <3>2. o # NoThing
      BY HandingAssumption DEF HandingAssumption
    <3>3. hd2[h] = hd[h]
      BY <1>8, <3>1, <3>2
    <3> QED BY <3>1, <3>3 DEF Somewhere
  <2>3. ASSUME NEW i \in 1 .. n + 1, NEW j \in 1 .. Len(ns[i].prepared),
               IsKept(ns[i].prepared[j]), ns[i].prepared[j].thing = o
        PROVE  Somewhere(hd2, ns2, ow, ds2, o)
    <3>1. CASE i # n + 1
      BY <1>0, <1>1, <2>3, <3>1 DEF Somewhere
    <3>2. CASE i = n + 1
      <4>1. j \in 1 .. Len(args) /\ IsKept(args[j]) /\ args[j].thing = o
        BY <1>2, <2>3, <3>2
      <4>2. CASE args[j].home = NoHome
        BY <1>9, <4>1, <4>2 DEF Somewhere
      <4>3. CASE args[j].home # NoHome
        <5>1. PICK h \in HandleIds : h = args[j].home
          BY <1>3, <4>1, <4>3 DEF ArgOf
        <5> QED BY <1>5, <1>8, <4>1, <4>3, <5>1 DEF Somewhere, KeptApart
      <4> QED BY <4>2, <4>3
    <3> QED BY <3>1, <3>2
  <2>4. CASE o \in ow \/ o \in ds
    BY <1>9, <2>4 DEF Somewhere
  <2> QED BY <1>1, <2>1, <2>2, <2>3, <2>4 DEF Somewhere
<1> QED BY <1>1, <1>11, <1>12, <1>13, <1>14, <1>15, <1>16 DEF HandInv

\* As LentOnly does to the innermost call, which is made (`over` is what the
\* callee has then) or refused (what it had is destroyed).
HandsOn(hd, ns, ns2, n, over) ==
  /\ ns2 \in Seq(FrameOf) /\ n \in Nat /\ Len(ns) = n + 1 /\ Len(ns2) = n + 1
  /\ \A i \in 1 .. n : ns2[i] = ns[i]
  /\ ns[n + 1].is = "preparing"
  /\ ns2[n + 1].me = ns[n + 1].me /\ ns2[n + 1].lent = ns[n + 1].lent
  /\ Len(ns2[n + 1].prepared) = Len(ns[n + 1].prepared)
  /\ \A j \in 1 .. Len(ns[n + 1].prepared) :
       IF ns[n + 1].prepared[j].as = "object" THEN ns2[n + 1].prepared[j].as = "taken"
       ELSE ns2[n + 1].prepared[j] = ns[n + 1].prepared[j]
  /\ IF over THEN /\ ns2[n + 1].is = "running" /\ ns2[n + 1].target = hd[ns[n + 1].me].thing
                  /\ hd[ns[n + 1].me].thing # NoThing
                  /\ \A j \in 1 .. Len(ns[n + 1].prepared) :
                       ns[n + 1].prepared[j].as = "passed" => ns[n + 1].prepared[j].thing # NoThing
     ELSE ns2[n + 1].is = "preparing"

\* What is taken out of `prepared` for good.
HandedOver(args) == {args[j].thing : j \in {k \in 1 .. Len(args) : args[k].as = "object"}}

GoesTo(args, ow, ds, ow2, ds2, over) ==
  /\ ow2 = IF over THEN ow \cup HandedOver(args) ELSE ow
  /\ ds2 = IF over THEN ds ELSE ds \cup HandedOver(args)

LEMMA ArgsGoOver ==
  ASSUME HandingAssumption, NEW hd, NEW ns, NEW ow, NEW ds, NEW ns2, NEW ow2, NEW ds2, NEW n,
         NEW over \in BOOLEAN,
         HandInv(hd, ns, ow, ds), HandsOn(hd, ns, ns2, n, over),
         GoesTo(ns[n + 1].prepared, ow, ds, ow2, ds2, over)
  PROVE  HandInv(hd, ns2, ow2, ds2)
<1>0. n \in Nat /\ n + 1 \in 1 .. n + 1 /\ \A i \in 1 .. n : i \in 1 .. n + 1 /\ i # n + 1
  BY DEF HandsOn
<1>a. /\ ow2 = IF over THEN ow \cup HandedOver(ns[n + 1].prepared) ELSE ow
      /\ ds2 = IF over THEN ds ELSE ds \cup HandedOver(ns[n + 1].prepared)
  BY DEF GoesTo
<1>1. /\ ns \in Seq(FrameOf) /\ Len(ns) = n + 1 /\ Len(ns2) = n + 1 /\ ns2 \in Seq(FrameOf)
      /\ \A i \in 1 .. n : ns2[i] = ns[i]
      /\ hd \in [HandleIds -> HandleOf]
  BY DEF HandInv, HandsTyped, HandsOn
<1>2. PICK args : args = ns[n + 1].prepared
  OBVIOUS
<1>3. PICK left : left = ns2[n + 1].prepared
  OBVIOUS
<1>4. /\ Len(left) = Len(args)
      /\ \A j \in 1 .. Len(args) : IF args[j].as = "object" THEN left[j].as = "taken" ELSE left[j] = args[j]
  BY <1>2, <1>3 DEF HandsOn
<1>5. PICK T : T = HandedOver(args)
  OBVIOUS
<1>6. \A o : o \in T <=> \E j \in 1 .. Len(args) : args[j].as = "object" /\ args[j].thing = o
  BY <1>5 DEF HandedOver
<1>7. /\ \A o : o \in ow2 \/ o \in ds2 <=> o \in ow \/ o \in ds \/ o \in T
      /\ \A o : o \in ow => o \in ow2
      /\ \A o : o \in ds => o \in ds2
  BY <1>a, <1>2, <1>5
<1>8. ASSUME NEW o \in T
      PROVE  o \in Things /\ o \notin ow /\ o \notin ds /\ \A h \in HandleIds : hd[h].held = "object" => hd[h].thing # o
  <2>1. PICK j \in 1 .. Len(args) : args[j].as = "object" /\ args[j].thing = o
    BY <1>6
  <2> QED BY <2>1, <1>0, <1>1, <1>2 DEF KeptFits, HandInv, ArgsFit, ArgFits, IsKept
<1>9. HandsTyped(hd, ns2, ow2, ds2)
  <2>1. /\ \A o \in ow : o \in Things /\ o \notin ds
        /\ \A o \in ds : o \in Things
    BY DEF HandInv, HandsTyped
  <2>2. \A o : o \in ow2 \/ o \in ds2 => o \in Things
    BY <1>7, <1>8, <2>1
  <2>3. \A o \in ow2 : o \notin ds2
    BY <1>a, <1>2, <1>5, <1>8, <2>1
  <2> QED BY <1>1, <2>2, <2>3 DEF HandsTyped
<1>10. \A i \in 1 .. n + 1 : ns2[i].lent = ns[i].lent /\ ns2[i].me = ns[i].me
  <2> SUFFICES ASSUME NEW i \in 1 .. n + 1 PROVE ns2[i].lent = ns[i].lent /\ ns2[i].me = ns[i].me
    OBVIOUS
  <2> QED BY <1>1, <1>0 DEF HandsOn
<1>11. /\ ns[n + 1].is = "preparing" /\ ns[n + 1].lent = {} /\ ns[n + 1].me \in HandleIds
       /\ hd[ns[n + 1].me].held # "unmade"
  BY <1>0, <1>1 DEF HandsOn, HandInv, FrameFits
<1>12. PICK me \in HandleIds : me = ns[n + 1].me
  BY <1>11
<1>13. ASSUME NEW h, RunsOn(ns2, h), ~RunsOn(ns, h)
       PROVE  h = me /\ hd[me].thing # NoThing
  <2>1. PICK i \in 1 .. n + 1 : ns2[i].is = "running" /\ ns2[i].me = h
    BY <1>1, <1>13 DEF RunsOn
  <2>2. i = n + 1
    BY <1>0, <1>1, <1>13, <2>1 DEF RunsOn
  <2>3. h = me
    BY <1>10, <1>12, <2>1, <2>2
  <2>4. over
    BY <2>1, <2>2 DEF HandsOn
  <2> QED BY <1>12, <2>3, <2>4 DEF HandsOn
<1>14. ASSUME NEW i \in 1 .. n + 1, NEW o, LenderHas(ns, ow, i, o) PROVE LenderHas(ns2, ow2, i, o)
  BY <1>7, <1>14, <1>0, <1>1 DEF LenderHas
<1>15. ASSUME NEW h \in HandleIds PROVE HandleFits(hd, ns2, ow2, ds2, h)
  <2>1. HandleFits(hd, ns, ow, ds, h)
    BY DEF HandInv
  <2>2. hd[h].held = "object" /\ hd[h].thing # NoThing => hd[h].thing \notin ow2 /\ hd[h].thing \notin ds2
    BY <1>7, <1>8, <2>1 DEF HandleFits
  <2>3. ASSUME hd[h].held = "lent", hd[h].thing # NoThing
        PROVE  \E i \in 1 .. Len(ns2) : h \in ns2[i].lent /\ LenderHas(ns2, ow2, i, hd[h].thing)
    <3>1. PICK i \in 1 .. n + 1 : h \in ns[i].lent /\ LenderHas(ns, ow, i, hd[h].thing)
      BY <1>1, <2>1, <2>3 DEF HandleFits
    <3> QED BY <1>1, <1>10, <1>14, <3>1
  <2> QED BY <2>1, <2>2, <2>3 DEF HandleFits
<1>16. ASSUME NEW i \in 1 .. n + 1 PROVE FrameFits(hd, ns2, i)
  <2>1. FrameFits(hd, ns, i)
    BY <1>1 DEF HandInv
  <2>2. /\ \A h \in ns2[i].lent : /\ hd[h].held = "lent"
                                  /\ \A k \in 1 .. n + 1 : ns2[k].me = h => k > i
                                  /\ \A k \in 1 .. n + 1 : k # i => h \notin ns2[k].lent
    BY <1>1, <1>10, <2>1 DEF FrameFits
  <2>3. CASE i # n + 1
    BY <1>1, <2>1, <2>2, <1>0, <2>3 DEF FrameFits
  <2>4. CASE i = n + 1
    BY <1>1, <1>11, <1>12, <2>2, <1>10, <2>4 DEF FrameFits, HandsOn
  <2> QED BY <2>3, <2>4
\* An argument that is left was there.
<1>17. ASSUME NEW i \in 1 .. n + 1, NEW j \in 1 .. Len(ns2[i].prepared)
       PROVE  /\ j \in 1 .. Len(ns[i].prepared)
              /\ IsKept(ns2[i].prepared[j]) \/ ns2[i].prepared[j].as = "passed" =>
                   ns2[i].prepared[j] = ns[i].prepared[j] /\ (i = n + 1 => ns[i].prepared[j].as # "object")
  <2>1. CASE i # n + 1
    BY <1>0, <1>1, <2>1
  <2>2. CASE i = n + 1
    BY <1>2, <1>3, <2>2, <1>4 DEF IsKept
  <2> QED BY <2>1, <2>2
<1>18. ArgsFit(hd, ns2, ow2, ds2)
  <2> SUFFICES ASSUME NEW i \in 1 .. n + 1, NEW j \in 1 .. Len(ns2[i].prepared)
               PROVE  ArgFits(hd, ns2, ow2, ds2, i, ns2[i].prepared[j])
    BY <1>1 DEF ArgsFit
  <2>1. PICK a : a = ns2[i].prepared[j]
    OBVIOUS
  <2>2. IsKept(a) \/ a.as = "passed" => ArgFits(hd, ns, ow, ds, i, a)
    BY <1>1, <1>17, <2>1 DEF HandInv, ArgsFit
  <2>3. ASSUME IsKept(a) PROVE KeptFits(hd, ns2, ow2, ds2, a)
    <3>1. KeptFits(hd, ns, ow, ds, a)
      BY <2>2, <2>3 DEF ArgFits
    <3>2. ASSUME NEW m \in 1 .. Len(args), args[m].as = "object" PROVE args[m].thing # a.thing
      <4>1. KeptApart(a, args[m])
        BY <1>0, <1>1, <1>2, <1>17, <2>1, <2>3, <3>2 DEF HandInv, ArgsApart
      <4> QED BY <2>3, <3>2, <4>1 DEF KeptApart, IsKept
    <3>3. a.thing \notin T
      BY <1>6, <3>2
    <3>4. a.home # NoHome => ~RunsOn(ns2, a.home)
      BY <1>13, <3>1 DEF KeptFits
    <3> QED BY <1>7, <3>1, <3>3, <3>4 DEF KeptFits
  <2>4. ASSUME a.as = "passed" PROVE PassedFits(hd, ns2, i, a)
    <3>1. PassedFits(hd, ns, i, a)
      BY <2>2, <2>4 DEF ArgFits
    <3>2. ns2[i].is = "running" => a.thing # NoThing
      <4>1. CASE i # n + 1
        BY <1>0, <1>1, <3>1, <4>1 DEF PassedFits
      <4>2. CASE i = n + 1
        BY <1>2, <2>4, <4>2, <1>17, <2>1 DEF HandsOn
      <4> QED BY <4>1, <4>2
    <3>3. \A k \in 1 .. i - 1 : ns2[k].lent = ns[k].lent
      BY <1>0, <1>1
    <3> QED BY <3>1, <3>2, <3>3 DEF PassedFits
  <2> QED BY <2>1, <2>3, <2>4 DEF ArgFits
<1>19. ArgsApart(ns2)
  <2> SUFFICES ASSUME NEW i \in 1 .. n + 1, NEW k \in 1 .. n + 1,
                      NEW j \in 1 .. Len(ns2[i].prepared), NEW m \in 1 .. Len(ns2[k].prepared),
                      i # k \/ j # m
               PROVE  KeptApart(ns2[i].prepared[j], ns2[k].prepared[m])
    BY <1>1 DEF ArgsApart
  <2> SUFFICES ASSUME IsKept(ns2[i].prepared[j]), IsKept(ns2[k].prepared[m])
               PROVE  KeptApart(ns2[i].prepared[j], ns2[k].prepared[m])
    BY DEF KeptApart
  <2>1. ns2[i].prepared[j] = ns[i].prepared[j] /\ ns2[k].prepared[m] = ns[k].prepared[m]
        /\ j \in 1 .. Len(ns[i].prepared) /\ m \in 1 .. Len(ns[k].prepared)
    BY <1>17
  <2> QED BY <1>1, <2>1 DEF HandInv, ArgsApart
<1>20. ASSUME NEW o \in HostThings PROVE Somewhere(hd, ns2, ow2, ds2, o)
  <2>1. ASSUME NEW i \in 1 .. n + 1, NEW j \in 1 .. Len(ns[i].prepared),
               IsKept(ns[i].prepared[j]), ns[i].prepared[j].thing = o
        PROVE  Somewhere(hd, ns2, ow2, ds2, o)
    <3>1. CASE i # n + 1
      BY <1>0, <1>1, <2>1, <3>1 DEF Somewhere
    <3>2. CASE i = n + 1
      <4>1. j \in 1 .. Len(args) /\ IsKept(args[j]) /\ args[j].thing = o
        BY <1>2, <2>1, <3>2
      <4>2. CASE args[j].as = "object"
        BY <1>6, <1>7, <4>1, <4>2 DEF Somewhere
      <4>3. CASE args[j].as # "object"
        BY <1>0, <1>1, <1>3, <4>1, <1>4, <4>3 DEF Somewhere
      <4> QED BY <4>2, <4>3
    <3> QED BY <3>1, <3>2
  <2> QED BY <1>1, <1>7, <2>1 DEF Somewhere, HandInv
<1> QED BY <1>1, <1>9, <1>15, <1>16, <1>18, <1>19, <1>20 DEF HandInv

\* A lent handle's object has its lender still if the host parts with another.
LEMMA LendersStay ==
  ASSUME NEW hd, NEW ns, NEW ow, NEW ds, NEW o, NEW h \in HandleIds,
         HandInv(hd, ns, ow, ds),
         \A i \in 1 .. Len(ns) : \A k \in ns[i].lent : hd[k].thing # o,
         hd[h].held = "lent", hd[h].thing # NoThing
  PROVE  \E i \in 1 .. Len(ns) : h \in ns[i].lent /\ LenderHas(ns, ow \ {o}, i, hd[h].thing)
<1>1. PICK i \in 1 .. Len(ns) : h \in ns[i].lent /\ LenderHas(ns, ow, i, hd[h].thing)
  BY DEF HandInv, HandleFits
<1>2. hd[h].thing # o
  BY <1>1
<1> QED BY <1>1, <1>2 DEF LenderHas

\* The host destroys what it has not lent.
LEMMA HostLets ==
  ASSUME NEW hd, NEW ns, NEW ow, NEW ds, NEW o \in ow,
         HandInv(hd, ns, ow, ds),
         \A i \in 1 .. Len(ns) : \A k \in ns[i].lent : hd[k].thing # o
  PROVE  HandInv(hd, ns, ow \ {o}, ds \cup {o})
<1>1. HandsTyped(hd, ns, ow \ {o}, ds \cup {o})
  BY DEF HandInv, HandsTyped
<1>2. ASSUME NEW h \in HandleIds PROVE HandleFits(hd, ns, ow \ {o}, ds \cup {o}, h)
  BY LendersStay DEF HandleFits, HandInv
<1>3. ArgsFit(hd, ns, ow \ {o}, ds \cup {o})
  BY DEF HandInv, ArgsFit, ArgFits, KeptFits
<1>4. ASSUME NEW p \in HostThings PROVE Somewhere(hd, ns, ow \ {o}, ds \cup {o}, p)
  BY DEF HandInv, Somewhere
<1> QED BY <1>1, <1>2, <1>3, <1>4 DEF HandInv

\* A handle nobody made is in no call.
LEMMA FreeIsUnused ==
  ASSUME HandingAssumption, NEW hd, NEW ns, NEW ow, NEW ds, NEW h \in HandleIds,
         HandInv(hd, ns, ow, ds), hd[h] = NoHandle
  PROVE  /\ \A i \in 1 .. Len(ns) : /\ h \notin ns[i].lent
                                    /\ ns[i].me # h
                                    /\ \A j \in 1 .. Len(ns[i].prepared) :
                                         IsKept(ns[i].prepared[j]) => ns[i].prepared[j].home # h
         /\ ~RunsOn(ns, h) /\ h # NoHome
<1>1. h # NoHome /\ hd[h].held = "unmade" /\ hd[h].thing = NoThing
  BY DEF HandleIds, NoHome, NoHandle
<1>2. ASSUME NEW i \in 1 .. Len(ns) PROVE h \notin ns[i].lent /\ ns[i].me # h
  <2>1. ns[i].is \in {"served", "preparing", "running"}
    BY FramesAre DEF FrameOf, HandInv, HandsTyped
  <2> QED BY <1>1, <2>1 DEF FrameFits, HandInv
<1>3. ASSUME NEW i \in 1 .. Len(ns), NEW j \in 1 .. Len(ns[i].prepared), IsKept(ns[i].prepared[j])
      PROVE  ns[i].prepared[j].home # h
  BY <1>1, <1>3 DEF HandInv, ArgsFit, ArgFits, KeptFits
<1> QED BY <1>1, <1>2, <1>3 DEF RunsOn

\* The host hands over what it has not lent, in a handle made for it.
LEMMA HostHands ==
  ASSUME HandingAssumption, NEW hd, NEW ns, NEW ow, NEW ds, NEW o \in ow, NEW h \in HandleIds,
         HandInv(hd, ns, ow, ds), hd[h] = NoHandle,
         \A i \in 1 .. Len(ns) : \A k \in ns[i].lent : hd[k].thing # o
  PROVE  HandInv([hd EXCEPT ![h] = OfObject(o)], ns, ow \ {o}, ds)
<1>1. PICK hd2 : hd2 = [hd EXCEPT ![h] = OfObject(o)]
  OBVIOUS
<1>2. /\ hd \in [HandleIds -> HandleOf] /\ ns \in Seq(FrameOf)
      /\ o \in Things /\ o \notin ds /\ o # NoThing
      /\ hd[h].held = "unmade" /\ hd[h].thing = NoThing
  BY DEF HandInv, HandsTyped, HandingAssumption, Things, NoHandle
<1>3. /\ hd2 \in [HandleIds -> HandleOf] /\ hd2[h].held = "object" /\ hd2[h].thing = o
      /\ \A k \in HandleIds : k # h => hd2[k] = hd[k]
  BY <1>1, <1>2 DEF OfObject, HandleOf
<1>4. HandsTyped(hd2, ns, ow \ {o}, ds)
  BY <1>3 DEF HandInv, HandsTyped
<1>5. \A k \in HandleIds : hd[k].held = "object" => hd[k].thing # o
  BY <1>2 DEF HandInv, HandleFits
<1>6. ASSUME NEW k \in HandleIds PROVE HandleFits(hd2, ns, ow \ {o}, ds, k)
  <2>1. HandleFits(hd, ns, ow, ds, k)
    BY DEF HandInv
  <2>2. CASE k = h
    BY <1>2, <1>3, <1>5, <2>2 DEF HandleFits
  <2>3. CASE k # h
    <3>1. hd[k].held = "lent" /\ hd[k].thing # NoThing =>
            \E i \in 1 .. Len(ns) : k \in ns[i].lent /\ LenderHas(ns, ow \ {o}, i, hd[k].thing)
      BY LendersStay
    <3> QED BY <1>3, <2>1, <2>3, <3>1, <1>5 DEF HandleFits
  <2> QED BY <2>2, <2>3
<1>7. ASSUME NEW i \in 1 .. Len(ns) PROVE FrameFits(hd2, ns, i)
  <2>1. FrameFits(hd, ns, i) /\ h \notin ns[i].lent /\ ns[i].me # h /\ ns[i].lent \in SUBSET HandleIds
    BY FreeIsUnused, FramesAre DEF HandInv, HandsTyped
  <2> QED BY <1>3, <2>1 DEF FrameFits
<1>8. ArgsFit(hd2, ns, ow \ {o}, ds)
  <2> SUFFICES ASSUME NEW i \in 1 .. Len(ns), NEW j \in 1 .. Len(ns[i].prepared)
               PROVE  ArgFits(hd2, ns, ow \ {o}, ds, i, ns[i].prepared[j])
    BY DEF ArgsFit
  <2>1. PICK a \in ArgOf : a = ns[i].prepared[j]
    BY <1>2, FramesAre
  <2>2. ArgFits(hd, ns, ow, ds, i, a)
    BY <2>1 DEF HandInv, ArgsFit
  <2>3. ASSUME IsKept(a) PROVE KeptFits(hd2, ns, ow \ {o}, ds, a)
    <3>1. KeptFits(hd, ns, ow, ds, a) /\ a.home # h
      BY <2>1, <2>2, <2>3, FreeIsUnused DEF ArgFits
    <3> QED BY <1>3, <3>1 DEF KeptFits, ArgOf
  <2>4. ASSUME a.as = "passed" PROVE PassedFits(hd2, ns, i, a)
    <3>1. ASSUME NEW k \in 1 .. i - 1, a.home \in ns[k].lent PROVE hd2[a.home] = hd[a.home]
      BY <1>3, <3>1, <1>2, FreeIsUnused, FramesAre
    <3> QED BY <2>2, <2>4, <3>1 DEF PassedFits, ArgFits
  <2> QED BY <2>1, <2>3, <2>4 DEF ArgFits
<1>9. ASSUME NEW p \in HostThings PROVE Somewhere(hd2, ns, ow \ {o}, ds, p)
  <2>1. p # NoThing
    BY DEF HandingAssumption
  <2> QED BY <1>2, <1>3, <2>1 DEF Somewhere, HandInv
<1> QED BY <1>1, <1>4, <1>6, <1>7, <1>8, <1>9 DEF HandInv

\* Between hands, o is nobody's, and all is well with the others.
BetweenHands(hd, ns, ow, ds, o) ==
  /\ HandsTyped(hd, ns, ow, ds)
  /\ \A h \in HandleIds : HandleFits(hd, ns, ow, ds, h)
  /\ \A i \in 1 .. Len(ns) : FrameFits(hd, ns, i)
  /\ ArgsFit(hd, ns, ow, ds)
  /\ ArgsApart(ns)
  /\ \A p \in HostThings : p = o \/ Somewhere(hd, ns, ow, ds, p)
  /\ o \in Things /\ o \notin ow /\ o \notin ds
  /\ \A h \in HandleIds : hd[h].held = "object" => hd[h].thing # o
  /\ \A i \in 1 .. Len(ns) : \A j \in 1 .. Len(ns[i].prepared) :
       IsKept(ns[i].prepared[j]) => ns[i].prepared[j].thing # o

\* The host takes it.
LEMMA HostGets ==
  ASSUME NEW hd, NEW ns, NEW ow, NEW ds, NEW o, BetweenHands(hd, ns, ow, ds, o)
  PROVE  HandInv(hd, ns, ow \cup {o}, ds)
<1>1. HandsTyped(hd, ns, ow \cup {o}, ds)
  BY DEF BetweenHands, HandsTyped
<1>2. ASSUME NEW h \in HandleIds PROVE HandleFits(hd, ns, ow \cup {o}, ds, h)
  BY DEF HandleFits, LenderHas, BetweenHands
<1>3. ArgsFit(hd, ns, ow \cup {o}, ds)
  BY DEF BetweenHands, ArgsFit, ArgFits, KeptFits
<1>4. ASSUME NEW p \in HostThings PROVE Somewhere(hd, ns, ow \cup {o}, ds, p)
  BY DEF BetweenHands, Somewhere
<1> QED BY <1>1, <1>2, <1>3, <1>4 DEF BetweenHands, HandInv

\* It is destroyed.
LEMMA IsDestroyed ==
  ASSUME NEW hd, NEW ns, NEW ow, NEW ds, NEW o, BetweenHands(hd, ns, ow, ds, o)
  PROVE  HandInv(hd, ns, ow, ds \cup {o})
<1>1. HandsTyped(hd, ns, ow, ds \cup {o})
  BY DEF BetweenHands, HandsTyped
<1>2. ASSUME NEW h \in HandleIds PROVE HandleFits(hd, ns, ow, ds \cup {o}, h)
  BY DEF BetweenHands, HandleFits
<1>3. ArgsFit(hd, ns, ow, ds \cup {o})
  BY DEF BetweenHands, ArgsFit, ArgFits, KeptFits
<1>4. ASSUME NEW p \in HostThings PROVE Somewhere(hd, ns, ow, ds \cup {o}, p)
  BY DEF BetweenHands, Somewhere
<1> QED BY <1>1, <1>2, <1>3, <1>4 DEF BetweenHands, HandInv

\* What no handle, argument, host or grave has is between hands.
LEMMA UnmadeIsBetween ==
  ASSUME NEW hd, NEW ns, NEW ow, NEW ds, NEW o \in Things, HandInv(hd, ns, ow, ds),
         o \notin ow, o \notin ds, \A h \in HandleIds : hd[h].thing # o,
         \A i \in 1 .. Len(ns) : \A j \in 1 .. Len(ns[i].prepared) :
           IsKept(ns[i].prepared[j]) => ns[i].prepared[j].thing # o
  PROVE  BetweenHands(hd, ns, ow, ds, o)
BY DEF HandInv, BetweenHands

\* An object is taken out of a handle no method runs on.
LEMMA TakenOut ==
  ASSUME HandingAssumption, NEW hd, NEW ns, NEW ow, NEW ds, NEW h \in HandleIds, NEW o,
         HandInv(hd, ns, ow, ds), hd[h].held = "object", hd[h].thing = o, o # NoThing, ~RunsOn(ns, h)
  PROVE  BetweenHands([hd EXCEPT ![h].thing = NoThing], ns, ow, ds, o)
<1>1. PICK hd2 : hd2 = [hd EXCEPT ![h].thing = NoThing]
  OBVIOUS
<1>2. hd \in [HandleIds -> HandleOf] /\ ns \in Seq(FrameOf) /\ hd[h] \in HandleOf
  BY DEF HandInv, HandsTyped
<1>3. /\ hd2 \in [HandleIds -> HandleOf] /\ hd2[h].held = "object" /\ hd2[h].thing = NoThing
      /\ \A k \in HandleIds : k # h => hd2[k] = hd[k]
  BY <1>1, <1>2 DEF HandleOf
<1>4. HandsTyped(hd2, ns, ow, ds)
  BY <1>3 DEF HandInv, HandsTyped
<1>5. /\ o \in Things /\ o \notin ow /\ o \notin ds
      /\ \A k \in HandleIds : k # h /\ hd[k].held = "object" => hd[k].thing # o
  BY <1>2 DEF HandInv, HandleFits, HandleOf
<1>6. ASSUME NEW k \in HandleIds PROVE HandleFits(hd2, ns, ow, ds, k)
  <2>1. CASE k = h
    BY <1>3, <2>1 DEF HandleFits
  <2>2. CASE k # h
    BY <1>3, <2>2 DEF HandleFits, HandInv
  <2> QED BY <2>1, <2>2
<1>7. ASSUME NEW i \in 1 .. Len(ns) PROVE FrameFits(hd2, ns, i)
  <2>1. FrameFits(hd, ns, i) /\ ns[i].lent \in SUBSET HandleIds
    BY FramesAre DEF HandInv, HandsTyped
  <2>2. ns[i].is = "running" => ns[i].me # h
    BY DEF RunsOn
  <2>3. \A k \in HandleIds : hd2[k].held = hd[k].held
    BY <1>3
  <2> QED BY <1>3, <2>1, <2>2, <2>3 DEF FrameFits
<1>8. ArgsFit(hd2, ns, ow, ds)
  <2> SUFFICES ASSUME NEW i \in 1 .. Len(ns), NEW j \in 1 .. Len(ns[i].prepared)
               PROVE  ArgFits(hd2, ns, ow, ds, i, ns[i].prepared[j])
    BY DEF ArgsFit
  <2>1. PICK a \in ArgOf : a = ns[i].prepared[j]
    BY <1>2, FramesAre
  <2>2. ArgFits(hd, ns, ow, ds, i, a)
    BY <2>1 DEF HandInv, ArgsFit
  <2>3. ASSUME IsKept(a) PROVE KeptFits(hd2, ns, ow, ds, a)
    BY <1>3, <2>2, <2>3 DEF KeptFits, ArgOf, HandingAssumption, Things, ArgFits
  <2>4. ASSUME a.as = "passed" PROVE PassedFits(hd2, ns, i, a)
    <3>1. ASSUME NEW k \in 1 .. i - 1, a.home \in ns[k].lent, hd[a.home].held = "lent" PROVE hd2[a.home] = hd[a.home]
      BY <1>3, <3>1, <1>2, FramesAre
    <3> QED BY <2>2, <2>4, <3>1 DEF PassedFits, ArgFits
  <2> QED BY <2>1, <2>3, <2>4 DEF ArgFits
<1>9. ASSUME NEW p \in HostThings PROVE p = o \/ Somewhere(hd2, ns, ow, ds, p)
  BY <1>3 DEF Somewhere, HandInv
<1>10. ASSUME NEW i \in 1 .. Len(ns), NEW j \in 1 .. Len(ns[i].prepared), IsKept(ns[i].prepared[j])
       PROVE  ns[i].prepared[j].thing # o
  BY <1>10 DEF HandInv, ArgsFit, ArgFits, KeptFits
<1>11. \A k \in HandleIds : hd2[k].held = "object" => hd2[k].thing # o
  BY <1>3, <1>5
<1> QED BY <1>1, <1>4, <1>5, <1>6, <1>7, <1>8, <1>9, <1>10, <1>11 DEF HandInv, BetweenHands

\* A handle no call has, of an object of nobody's or lent, is collected.
LEMMA IsCollected ==
  ASSUME HandingAssumption, NEW hd, NEW ns, NEW ow, NEW ds, NEW h \in HandleIds,
         HandInv(hd, ns, ow, ds), hd[h].held = "object" => hd[h].thing = NoThing,
         \A i \in 1 .. Len(ns) : /\ ns[i].me # h /\ h \notin ns[i].lent
                                 /\ \A j \in 1 .. Len(ns[i].prepared) : ns[i].prepared[j].home # h
  PROVE  HandInv([hd EXCEPT ![h] = NoHandle], ns, ow, ds)
<1>1. PICK hd2 : hd2 = [hd EXCEPT ![h] = NoHandle]
  OBVIOUS
<1>2. hd \in [HandleIds -> HandleOf] /\ ns \in Seq(FrameOf)
  BY DEF HandInv, HandsTyped
<1>3. /\ hd2 \in [HandleIds -> HandleOf] /\ hd2[h].held = "unmade" /\ hd2[h].thing = NoThing
      /\ \A k \in HandleIds : k # h => hd2[k] = hd[k]
  BY <1>1, <1>2 DEF HandleOf, NoHandle
<1>4. HandsTyped(hd2, ns, ow, ds)
  BY <1>3 DEF HandInv, HandsTyped
<1>5. ASSUME NEW k \in HandleIds PROVE HandleFits(hd2, ns, ow, ds, k)
  <2>1. CASE k = h
    BY <1>3, <2>1 DEF HandleFits
  <2>2. CASE k # h
    BY <1>3, <2>2 DEF HandleFits, HandInv
  <2> QED BY <2>1, <2>2
<1>6. ASSUME NEW i \in 1 .. Len(ns) PROVE FrameFits(hd2, ns, i)
  <2>1. FrameFits(hd, ns, i) /\ ns[i].lent \in SUBSET HandleIds /\ ns[i].me # h /\ h \notin ns[i].lent
    BY FramesAre DEF HandInv, HandsTyped
  <2> QED BY <1>3, <2>1 DEF FrameFits
<1>7. ArgsFit(hd2, ns, ow, ds)
  <2> SUFFICES ASSUME NEW i \in 1 .. Len(ns), NEW j \in 1 .. Len(ns[i].prepared)
               PROVE  ArgFits(hd2, ns, ow, ds, i, ns[i].prepared[j])
    BY DEF ArgsFit
  <2>1. PICK a \in ArgOf : a = ns[i].prepared[j] /\ a.home # h
    BY <1>2, FramesAre
  <2>2. ArgFits(hd, ns, ow, ds, i, a)
    BY <2>1 DEF HandInv, ArgsFit
  <2>3. IsKept(a) => KeptFits(hd2, ns, ow, ds, a)
    BY <1>3, <2>1, <2>2 DEF ArgFits, KeptFits, ArgOf
  <2>4. ASSUME a.as = "passed" PROVE PassedFits(hd2, ns, i, a)
    <3>1. ASSUME NEW k \in 1 .. i - 1, a.home \in ns[k].lent PROVE hd2[a.home] = hd[a.home]
      <4>1. a.home \in HandleIds
        BY <1>2, <3>1, FramesAre
      <4> QED BY <1>3, <2>1, <4>1
    <3> QED BY <2>2, <2>4, <3>1 DEF PassedFits, ArgFits
  <2> QED BY <2>1, <2>3, <2>4 DEF ArgFits
<1>8. ASSUME NEW p \in HostThings PROVE Somewhere(hd2, ns, ow, ds, p)
  <2>1. p # NoThing
    BY DEF HandingAssumption
  <2> QED BY <1>3, <2>1 DEF Somewhere, HandInv
<1> QED BY <1>1, <1>4, <1>5, <1>6, <1>7, <1>8 DEF HandInv

\* As Adds does to the innermost call.
AddsArg(ns, ns2, n, x) ==
  /\ ns2 \in Seq(FrameOf) /\ n \in Nat /\ Len(ns) = n + 1 /\ Len(ns2) = n + 1
  /\ \A i \in 1 .. n : ns2[i] = ns[i]
  /\ ns2[n + 1].is = ns[n + 1].is /\ ns2[n + 1].me = ns[n + 1].me
  /\ ns2[n + 1].lent = ns[n + 1].lent /\ ns2[n + 1].target = ns[n + 1].target
  /\ ns[n + 1].is = "preparing"
  /\ Len(ns2[n + 1].prepared) = Len(ns[n + 1].prepared) + 1
  /\ \A j \in 1 .. Len(ns[n + 1].prepared) : ns2[n + 1].prepared[j] = ns[n + 1].prepared[j]
  /\ ns2[n + 1].prepared[Len(ns[n + 1].prepared) + 1] = x

\* What is between hands can be an argument, and its home waits for it; what was
\* lent can be passed on.
CanBeArg(hd, ns, ow, ds, n, x) ==
  \/ /\ IsKept(x) /\ BetweenHands(hd, ns, ow, ds, x.thing)
     /\ x.home # NoHome =>
          /\ x.home \in HandleIds
          /\ hd[x.home].held = "object" /\ hd[x.home].thing = NoThing /\ ~RunsOn(ns, x.home)
          /\ \A i \in 1 .. Len(ns) : \A j \in 1 .. Len(ns[i].prepared) :
               IsKept(ns[i].prepared[j]) => ns[i].prepared[j].home # x.home
  \/ x.as = "passed" /\ HandInv(hd, ns, ow, ds) /\ PassedFits(hd, ns, n + 1, x)

LEMMA ArgAdded ==
  ASSUME HandingAssumption, NEW hd, NEW ns, NEW ow, NEW ds, NEW ns2, NEW n, NEW x,
         AddsArg(ns, ns2, n, x), CanBeArg(hd, ns, ow, ds, n, x)
  PROVE  HandInv(hd, ns2, ow, ds)
<1>0. n \in Nat /\ n + 1 \in 1 .. n + 1 /\ \A i \in 1 .. n : i \in 1 .. n + 1 /\ i # n + 1
  BY DEF AddsArg
<1>1. /\ HandsTyped(hd, ns, ow, ds)
      /\ \A h \in HandleIds : HandleFits(hd, ns, ow, ds, h)
      /\ \A i \in 1 .. Len(ns) : FrameFits(hd, ns, i)
      /\ ArgsFit(hd, ns, ow, ds)
      /\ ArgsApart(ns)
      /\ \A p \in HostThings : Somewhere(hd, ns, ow, ds, p) \/ (IsKept(x) /\ p = x.thing)
  BY DEF CanBeArg, HandInv, BetweenHands
<1>2. /\ ns \in Seq(FrameOf) /\ Len(ns) = n + 1 /\ Len(ns2) = n + 1 /\ ns2 \in Seq(FrameOf)
      /\ \A i \in 1 .. n : ns2[i] = ns[i]
      /\ hd \in [HandleIds -> HandleOf]
  BY <1>1 DEF HandsTyped, AddsArg
<1>3. PICK args : args = ns[n + 1].prepared
  OBVIOUS
<1>4. PICK more : more = ns2[n + 1].prepared
  OBVIOUS
<1>5. PICK m : m = Len(args) + 1
  OBVIOUS
<1>6. /\ Len(more) = m /\ m \in 1 .. m /\ more[m] = x
      /\ \A j \in 1 .. m : j # m => j \in 1 .. Len(args) /\ more[j] = args[j]
      /\ \A j \in 1 .. Len(args) : j \in 1 .. m /\ j # m
  BY <1>3, <1>4, <1>5, <1>0, <1>2, FramesAre DEF AddsArg
<1>7. \A i \in 1 .. n + 1 : /\ ns2[i].lent = ns[i].lent /\ ns2[i].me = ns[i].me
                            /\ ns2[i].is = ns[i].is /\ ns2[i].target = ns[i].target
  <2> SUFFICES ASSUME NEW i \in 1 .. n + 1
               PROVE  /\ ns2[i].lent = ns[i].lent /\ ns2[i].me = ns[i].me
                      /\ ns2[i].is = ns[i].is /\ ns2[i].target = ns[i].target
    OBVIOUS
  <2> QED BY <1>2, <1>0 DEF AddsArg
<1>8. ASSUME NEW i \in 1 .. n + 1, NEW o, LenderHas(ns, ow, i, o) PROVE LenderHas(ns2, ow, i, o)
  BY <1>8, <1>0, <1>2 DEF LenderHas
<1>9. HandsTyped(hd, ns2, ow, ds)
  BY <1>1, <1>2 DEF HandsTyped
<1>10. ASSUME NEW h \in HandleIds PROVE HandleFits(hd, ns2, ow, ds, h)
  <2>1. HandleFits(hd, ns, ow, ds, h)
    BY <1>1
  <2>2. ASSUME hd[h].held = "lent", hd[h].thing # NoThing
        PROVE  \E i \in 1 .. Len(ns2) : h \in ns2[i].lent /\ LenderHas(ns2, ow, i, hd[h].thing)
    <3>1. PICK i \in 1 .. n + 1 : h \in ns[i].lent /\ LenderHas(ns, ow, i, hd[h].thing)
      BY <1>2, <2>1, <2>2 DEF HandleFits
    <3> QED BY <1>2, <1>7, <1>8, <3>1
  <2> QED BY <2>1, <2>2 DEF HandleFits
<1>11. ASSUME NEW i \in 1 .. n + 1 PROVE FrameFits(hd, ns2, i)
  <2>1. FrameFits(hd, ns, i)
    BY <1>1, <1>2
  <2>2. ASSUME NEW h \in ns2[i].lent
        PROVE  /\ hd[h].held = "lent"
               /\ \A k \in 1 .. n + 1 : ns2[k].me = h => k > i
               /\ \A k \in 1 .. n + 1 : k # i => h \notin ns2[k].lent
    <3>1. /\ hd[h].held = "lent"
          /\ \A k \in 1 .. n + 1 : ns[k].me = h => k > i
          /\ \A k \in 1 .. n + 1 : k # i => h \notin ns[k].lent
      BY <1>2, <2>1, <1>7, <2>2 DEF FrameFits
    <3> QED BY <1>7, <3>1
  <2>3. ns2[i].is = "served" => Len(ns2[i].prepared) = 0
    <3>1. CASE i = n + 1
      BY <1>7, <3>1 DEF AddsArg
    <3>2. CASE i # n + 1
      BY <2>1, <1>0, <1>2, <3>2 DEF FrameFits
    <3> QED BY <3>1, <3>2
  <2>4. /\ ns2[i].lent = ns[i].lent /\ ns2[i].me = ns[i].me
        /\ ns2[i].is = ns[i].is /\ ns2[i].target = ns[i].target
    BY <1>7
  <2> QED BY <1>2, <2>1, <2>2, <2>3, <2>4 DEF FrameFits
\* An argument that is there was there, or is the new one.
<1>12. ASSUME NEW i \in 1 .. n + 1, NEW j \in 1 .. Len(ns2[i].prepared)
       PROVE  \/ /\ j \in 1 .. Len(ns[i].prepared) /\ ns2[i].prepared[j] = ns[i].prepared[j]
                 /\ (i = n + 1 => j # m)
              \/ i = n + 1 /\ j = m /\ ns2[i].prepared[j] = x
  <2>1. CASE i # n + 1
    <3>1. i \in 1 .. n
      BY <1>0, <2>1
    <3>2. ns2[i] = ns[i]
      BY <1>2, <3>1
    <3> QED BY <2>1, <3>2
  <2>2. CASE i = n + 1
    BY <1>6, <2>2, <1>3, <1>4
  <2> QED BY <2>1, <2>2
<1>13. ArgsFit(hd, ns2, ow, ds)
  <2> SUFFICES ASSUME NEW i \in 1 .. n + 1, NEW j \in 1 .. Len(ns2[i].prepared)
               PROVE  ArgFits(hd, ns2, ow, ds, i, ns2[i].prepared[j])
    BY <1>2 DEF ArgsFit
  <2>1. PICK a : a = ns2[i].prepared[j]
    OBVIOUS
  <2>2. ArgFits(hd, ns, ow, ds, i, a)
    <3>1. CASE j \in 1 .. Len(ns[i].prepared) /\ a = ns[i].prepared[j]
      BY <1>1, <1>2, <3>1 DEF ArgsFit
    <3>2. CASE i = n + 1 /\ a = x
      BY <3>2 DEF ArgFits, CanBeArg, IsKept, BetweenHands, KeptFits
    <3> QED BY <1>12, <2>1, <3>1, <3>2
  <2>3. KeptFits(hd, ns, ow, ds, a) => KeptFits(hd, ns2, ow, ds, a)
    BY <1>2, <1>7 DEF KeptFits, RunsOn
  <2>4. PassedFits(hd, ns, i, a) => PassedFits(hd, ns2, i, a)
    BY <1>7, <1>0 DEF PassedFits
  <2> QED BY <2>1, <2>2, <2>3, <2>4 DEF ArgFits
<1>14. ASSUME NEW i \in 1 .. n + 1, NEW j \in 1 .. Len(ns[i].prepared)
       PROVE  KeptApart(ns[i].prepared[j], x) /\ KeptApart(x, ns[i].prepared[j])
  <2>1. PICK a : a = ns[i].prepared[j]
    OBVIOUS
  <2>2. ASSUME IsKept(a), IsKept(x) PROVE a.thing # x.thing /\ (x.home = NoHome \/ a.home # x.home)
    BY <1>2, <2>1, <2>2 DEF CanBeArg, BetweenHands, IsKept
  <2> QED BY <2>1, <2>2 DEF KeptApart
<1>15. ArgsApart(ns2)
  <2> SUFFICES ASSUME NEW i \in 1 .. n + 1, NEW k \in 1 .. n + 1,
                      NEW j \in 1 .. Len(ns2[i].prepared), NEW q \in 1 .. Len(ns2[k].prepared),
                      i # k \/ j # q
               PROVE  KeptApart(ns2[i].prepared[j], ns2[k].prepared[q])
    BY <1>2 DEF ArgsApart
  <2>1. CASE i = n + 1 /\ j = m /\ ns2[i].prepared[j] = x
    BY <1>14, <2>1, <1>12
  <2>2. CASE k = n + 1 /\ q = m /\ ns2[k].prepared[q] = x
    BY <1>14, <2>2, <1>12
  <2>3. CASE /\ j \in 1 .. Len(ns[i].prepared) /\ ns2[i].prepared[j] = ns[i].prepared[j]
             /\ q \in 1 .. Len(ns[k].prepared) /\ ns2[k].prepared[q] = ns[k].prepared[q]
    BY <1>1, <1>2, <2>3 DEF ArgsApart
  <2> QED BY <1>12, <2>1, <2>2, <2>3
<1>16. ASSUME NEW o \in HostThings PROVE Somewhere(hd, ns2, ow, ds, o)
  <2>1. CASE IsKept(x) /\ o = x.thing
    BY <1>0, <1>2, <1>4, <1>6, <2>1 DEF Somewhere
  <2>2. ASSUME NEW i \in 1 .. n + 1, NEW j \in 1 .. Len(ns[i].prepared),
               IsKept(ns[i].prepared[j]), ns[i].prepared[j].thing = o
        PROVE  Somewhere(hd, ns2, ow, ds, o)
    <3>1. j \in 1 .. Len(ns2[i].prepared) /\ ns2[i].prepared[j] = ns[i].prepared[j]
      <4>1. CASE i # n + 1
        BY <1>0, <1>2, <4>1
      <4>2. CASE i = n + 1
        <5> QED BY <1>6, <1>3, <1>4, <4>2
      <4> QED BY <4>1, <4>2
    <3> QED BY <1>2, <2>2, <3>1 DEF Somewhere
  <2>3. CASE Somewhere(hd, ns, ow, ds, o)
    BY <1>2, <2>2, <2>3 DEF Somewhere
  <2> QED BY <1>1, <2>1, <2>3
<1> QED BY <1>2, <1>9, <1>10, <1>11, <1>13, <1>15, <1>16 DEF HandInv

\* A call begins inside the others: f, served with handles made for it that are
\* lent what the host or a call still has, or of a handle.
CallStarts(ns, ns2, n, f) ==
  /\ ns2 \in Seq(FrameOf) /\ n \in Nat /\ Len(ns) = n /\ Len(ns2) = n + 1
  /\ \A i \in 1 .. n : ns2[i] = ns[i]
  /\ ns2[n + 1] = f
  /\ f.is \in {"served", "preparing"} /\ Len(f.prepared) = 0

Lends(hd, hd2, ns, ow, n, f) ==
  /\ hd2 \in [HandleIds -> HandleOf]
  /\ \A h \in HandleIds \ f.lent : hd2[h] = hd[h]
  /\ \A h \in f.lent : /\ hd[h] = NoHandle /\ hd2[h].held = "lent"
                       /\ hd2[h].thing # NoThing => LenderHas(ns, ow, n + 1, hd2[h].thing)
  /\ IF f.is = "served" THEN f.me = NoHome
     ELSE f.me \in HandleIds /\ hd[f.me] # NoHandle /\ f.lent = {}

LEMMA CallStartsFits ==
  ASSUME HandingAssumption, NEW hd, NEW hd2, NEW ns, NEW ow, NEW ds, NEW ns2, NEW n, NEW f,
         HandInv(hd, ns, ow, ds), CallStarts(ns, ns2, n, f), Lends(hd, hd2, ns, ow, n, f)
  PROVE  HandInv(hd2, ns2, ow, ds)
<1>0. n \in Nat /\ n + 1 \in 1 .. n + 1 /\ \A i \in 1 .. n : i \in 1 .. n + 1 /\ i # n + 1
  BY DEF CallStarts
<1>1. /\ ns \in Seq(FrameOf) /\ Len(ns) = n /\ Len(ns2) = n + 1 /\ ns2 \in Seq(FrameOf)
      /\ \A i \in 1 .. n : ns2[i] = ns[i]
      /\ ns2[n + 1] = f
      /\ hd \in [HandleIds -> HandleOf]
  BY DEF HandInv, HandsTyped, CallStarts
<1>2. \A i \in 1 .. n + 1 : i \in 1 .. n \/ i = n + 1
  BY <1>0
<1>3. \A h : RunsOn(ns2, h) <=> RunsOn(ns, h)
  BY <1>0, <1>1, <1>2 DEF RunsOn, CallStarts
<1>4. ASSUME NEW h \in f.lent
      PROVE  /\ \A i \in 1 .. n : /\ h \notin ns[i].lent
                                  /\ ns[i].me # h
                                  /\ \A j \in 1 .. Len(ns[i].prepared) :
                                       IsKept(ns[i].prepared[j]) => ns[i].prepared[j].home # h
             /\ h # NoHome /\ h \in HandleIds
  <2>1. h \in HandleIds /\ hd[h] = NoHandle
    BY <1>0, <1>1, FramesAre DEF Lends
  <2> QED BY <1>1, <2>1, FreeIsUnused
<1>5. ASSUME NEW h \in HandleIds
      PROVE  \/ hd2[h] = hd[h] /\ h \notin f.lent
             \/ /\ h \in f.lent /\ hd[h].held = "unmade" /\ hd[h].thing = NoThing /\ hd2[h].held = "lent"
  BY DEF Lends, NoHandle
<1>6. HandsTyped(hd2, ns2, ow, ds)
  BY <1>1 DEF HandInv, HandsTyped, Lends
<1>7. ASSUME NEW i \in 1 .. n, NEW o, LenderHas(ns, ow, i, o) PROVE LenderHas(ns2, ow, i, o)
  BY <1>7, <1>0, <1>1 DEF LenderHas
<1>8. ASSUME NEW h \in HandleIds PROVE HandleFits(hd2, ns2, ow, ds, h)
  <2>1. HandleFits(hd, ns, ow, ds, h)
    BY DEF HandInv
  <2>2. CASE h \in f.lent
    <3>1. hd2[h].thing # NoThing => LenderHas(ns2, ow, n + 1, hd2[h].thing)
      <4> SUFFICES ASSUME hd2[h].thing # NoThing PROVE LenderHas(ns2, ow, n + 1, hd2[h].thing)
        OBVIOUS
      <4>1. CASE hd2[h].thing \in ow
        BY <4>1 DEF LenderHas
      <4>2. CASE hd2[h].thing \notin ow
        <5>1. PICK k \in 1 .. n + 1 - 1 : ns[k].is = "running" /\ LendsOn(ns[k], hd2[h].thing)
          BY <1>0, <2>2, <4>2 DEF LenderHas, Lends
        <5> QED BY <1>0, <5>1, <1>1 DEF LenderHas
      <4> QED BY <4>1, <4>2
    <3> QED BY <1>0, <1>1, <2>2, <3>1 DEF HandleFits, Lends
  <2>3. CASE h \notin f.lent
    <3>1. hd2[h] = hd[h]
      BY <1>5, <2>3
    <3>2. ASSUME hd[h].held = "lent", hd[h].thing # NoThing
          PROVE  \E i \in 1 .. Len(ns2) : h \in ns2[i].lent /\ LenderHas(ns2, ow, i, hd[h].thing)
      <4>1. PICK i \in 1 .. n : h \in ns[i].lent /\ LenderHas(ns, ow, i, hd[h].thing)
        BY <1>1, <2>1, <3>2 DEF HandleFits
      <4> QED BY <1>0, <1>1, <1>7, <4>1
    <3>3. \A k \in HandleIds : hd2[k].held = "object" => hd2[k] = hd[k]
      BY <1>5
    <3> QED BY <2>1, <3>1, <3>2, <3>3 DEF HandleFits
  <2> QED BY <2>2, <2>3
<1>9. ASSUME NEW i \in 1 .. n PROVE FrameFits(hd2, ns2, i)
  <2>1. FrameFits(hd, ns, i) /\ ns2[i] = ns[i] /\ ns[i].lent \in SUBSET HandleIds
    BY <1>0, <1>1, FramesAre DEF HandInv
  <2>2. \A h \in f.lent : h \notin ns[i].lent /\ ns[i].me # h
    BY <1>4
  <2>3. ASSUME NEW h \in ns[i].lent
        PROVE  /\ hd2[h].held = "lent"
               /\ \A k \in 1 .. n + 1 : ns2[k].me = h => k > i
               /\ \A k \in 1 .. n + 1 : k # i => h \notin ns2[k].lent
    <3>1. hd2[h].held = "lent"
      BY <1>5, <2>1, <2>2, <2>3 DEF FrameFits
    <3>2. \A k \in 1 .. n : (ns2[k].me = h => k > i) /\ (k # i => h \notin ns2[k].lent)
      BY <1>1, <2>1, <2>3 DEF FrameFits
    <3>3. n + 1 > i /\ h \notin ns2[n + 1].lent
      BY <1>0, <1>1, <2>2, <2>3
    <3> QED BY <1>2, <3>1, <3>2, <3>3
  <2>4. ns[i].me \in HandleIds => hd2[ns[i].me] = hd[ns[i].me]
    BY <1>5, <2>2
  <2> QED BY <1>1, <2>1, <2>3, <2>4 DEF FrameFits
<1>10. FrameFits(hd2, ns2, n + 1)
  <2>1. ASSUME NEW h \in f.lent
        PROVE  /\ hd2[h].held = "lent"
               /\ \A k \in 1 .. n + 1 : ns2[k].me = h => k > n + 1
               /\ \A k \in 1 .. n + 1 : k # n + 1 => h \notin ns2[k].lent
    <3> QED BY <1>2, <2>1, <1>1, <1>4 DEF Lends
  <2>2. f.is = "preparing" => f.me \in HandleIds /\ hd2[f.me].held # "unmade"
    <3> SUFFICES ASSUME f.is = "preparing" PROVE f.me \in HandleIds /\ hd2[f.me].held # "unmade"
      OBVIOUS
    <3>1. f.me \in HandleIds /\ hd[f.me] # NoHandle /\ f.lent = {}
      BY DEF Lends
    <3>2. HandleFits(hd, ns, ow, ds, f.me) /\ hd2[f.me] = hd[f.me] /\ hd[f.me] \in HandleOf
      BY <1>1, <1>5, <3>1 DEF HandInv
    <3> QED BY <3>1, <3>2 DEF HandleFits, NoHandle, HandleOf
  <2> QED BY <1>1, <2>1, <2>2 DEF FrameFits, CallStarts, Lends
<1>11. ArgsFit(hd2, ns2, ow, ds)
  <2> SUFFICES ASSUME NEW i \in 1 .. n, NEW j \in 1 .. Len(ns[i].prepared)
               PROVE  ArgFits(hd2, ns2, ow, ds, i, ns[i].prepared[j])
    <3> QED BY <1>1, <1>2 DEF ArgsFit, CallStarts
  <2>1. PICK a \in ArgOf : a = ns[i].prepared[j]
    BY <1>1, FramesAre
  <2>2. ArgFits(hd, ns, ow, ds, i, a)
    BY <1>1, <2>1 DEF HandInv, ArgsFit
  <2>3. ASSUME IsKept(a) PROVE KeptFits(hd2, ns2, ow, ds, a)
    <3>1. KeptFits(hd, ns, ow, ds, a) /\ a.home \notin f.lent
      BY <1>4, <2>1, <2>2, <2>3 DEF ArgFits
    <3>2. a.home # NoHome => a.home \in HandleIds /\ hd2[a.home] = hd[a.home]
      BY <1>5, <3>1 DEF ArgOf
    <3>3. \A h \in HandleIds : hd2[h].held = "object" => hd2[h] = hd[h]
      BY <1>5
    <3> QED BY <1>3, <3>1, <3>2, <3>3 DEF KeptFits
  <2>4. ASSUME a.as = "passed" PROVE PassedFits(hd2, ns2, i, a)
    <3>1. ASSUME NEW k \in 1 .. i - 1, a.home \in ns[k].lent PROVE hd2[a.home] = hd[a.home] /\ ns2[k] = ns[k]
      <4>1. k \in 1 .. n
        BY <1>0
      <4> QED BY <1>1, <1>5, <4>1, <1>4, <3>1, FramesAre
    <3> QED BY <1>1, <2>2, <2>4, <3>1 DEF PassedFits, ArgFits
  <2> QED BY <2>1, <2>3, <2>4 DEF ArgFits
<1>12. ArgsApart(ns2)
  <2>1. \A j \in 1 .. Len(ns2[n + 1].prepared) : FALSE
    BY <1>1 DEF CallStarts
  <2> QED BY <1>1, <1>2, <2>1 DEF HandInv, ArgsApart
<1>13. ASSUME NEW o \in HostThings PROVE Somewhere(hd2, ns2, ow, ds, o)
  <2>1. Somewhere(hd, ns, ow, ds, o)
    BY DEF HandInv
  <2>2. CASE \E h \in HandleIds : hd[h].held = "object" /\ hd[h].thing = o
    BY <1>5, <2>2 DEF Somewhere
  <2>3. CASE \E i \in 1 .. n : \E j \in 1 .. Len(ns[i].prepared) :
               IsKept(ns[i].prepared[j]) /\ ns[i].prepared[j].thing = o
    <3>0. PICK i \in 1 .. n : \E j \in 1 .. Len(ns[i].prepared) :
               IsKept(ns[i].prepared[j]) /\ ns[i].prepared[j].thing = o
      BY <2>3
    <3>1. PICK j \in 1 .. Len(ns[i].prepared) :
               IsKept(ns[i].prepared[j]) /\ ns[i].prepared[j].thing = o
      BY <3>0
    <3> QED BY <1>0, <1>1, <3>1 DEF Somewhere
  <2> QED BY <1>1, <2>1, <2>2, <2>3 DEF Somewhere
<1> QED BY <1>1, <1>2, <1>6, <1>8, <1>9, <1>10, <1>11, <1>12, <1>13 DEF HandInv

\* A served call ends, and what it was lent with it.
LEMMA ServedEnds ==
  ASSUME HandingAssumption, NEW hd, NEW ns, NEW ow, NEW ds, NEW hd2, NEW ns2, NEW n,
         HandInv(hd, ns, ow, ds), Ends(ns, ns2, n), ns[n + 1].is = "served",
         hd2 = LendEnds(hd, ns[n + 1].lent)
  PROVE  HandInv(hd2, ns2, ow, ds)
<1>0. n \in Nat /\ n + 1 \in 1 .. n + 1 /\ \A i \in 1 .. n : i \in 1 .. n + 1 /\ i # n + 1
  BY DEF Ends
<1>1. /\ ns \in Seq(FrameOf) /\ Len(ns) = n + 1 /\ Len(ns2) = n /\ ns2 \in Seq(FrameOf)
      /\ \A i \in 1 .. n : ns2[i] = ns[i]
      /\ hd \in [HandleIds -> HandleOf]
  BY DEF HandInv, HandsTyped, Ends
<1>2. PICK L : L = ns[n + 1].lent
  OBVIOUS
<1>3. /\ FrameFits(hd, ns, n + 1) /\ L \in SUBSET HandleIds
      /\ \A h \in L : /\ hd[h].held = "lent"
                      /\ \A k \in 1 .. n : ns[k].me # h /\ h \notin ns[k].lent
      /\ Len(ns[n + 1].prepared) = 0
  <2>1. FrameFits(hd, ns, n + 1) /\ L \in SUBSET HandleIds
    BY <1>0, <1>1, <1>2, FramesAre DEF HandInv
  <2>2. Len(ns[n + 1].prepared) = 0
    BY <2>1 DEF FrameFits
  <2>3. ASSUME NEW h \in L, NEW k \in 1 .. n PROVE ns[k].me # h /\ h \notin ns[k].lent
    BY <1>1, <1>2, <2>1, <1>0 DEF FrameFits
  <2> QED BY <1>2, <2>1, <2>2, <2>3 DEF FrameFits
<1>4. ASSUME NEW h \in HandleIds
      PROVE  \/ hd2[h] = hd[h] /\ h \notin L
             \/ h \in L /\ hd[h].held = "lent" /\ hd2[h].held = "lent" /\ hd2[h].thing = NoThing
  BY <1>2, <1>3 DEF LendEnds, OfLent
<1>5. HandsTyped(hd2, ns2, ow, ds)
  BY <1>1, <1>2, <1>3 DEF HandInv, HandsTyped, LendEnds, OfLent, HandleOf
<1>6. \A h : RunsOn(ns2, h) => RunsOn(ns, h)
  BY <1>0, <1>1 DEF RunsOn
<1>7. ASSUME NEW h \in HandleIds PROVE HandleFits(hd2, ns2, ow, ds, h)
  <2>1. HandleFits(hd, ns, ow, ds, h)
    BY DEF HandInv
  <2>2. CASE h \in L
    BY <1>4, <2>2 DEF HandleFits
  <2>3. CASE h \notin L
    <3>1. hd2[h] = hd[h]
      BY <1>4, <2>3
    <3>2. ASSUME hd[h].held = "lent", hd[h].thing # NoThing
          PROVE  \E i \in 1 .. Len(ns2) : h \in ns2[i].lent /\ LenderHas(ns2, ow, i, hd[h].thing)
      <4>1. PICK i \in 1 .. n + 1 : h \in ns[i].lent /\ LenderHas(ns, ow, i, hd[h].thing)
        BY <1>1, <2>1, <3>2 DEF HandleFits
      <4>2. i \in 1 .. n
        BY <1>0, <1>2, <2>3, <4>1
      <4>3. LenderHas(ns2, ow, i, hd[h].thing)
        BY <1>0, <1>1, <4>1, <4>2 DEF LenderHas
      <4> QED BY <1>1, <4>1, <4>2, <4>3
    <3>3. \A k \in HandleIds : hd2[k].held = "object" => hd2[k] = hd[k]
      BY <1>4
    <3> QED BY <2>1, <3>1, <3>2, <3>3 DEF HandleFits
  <2> QED BY <2>2, <2>3
<1>8. ASSUME NEW i \in 1 .. n PROVE FrameFits(hd2, ns2, i)
  <2>1. FrameFits(hd, ns, i) /\ ns2[i] = ns[i] /\ ns[i].lent \in SUBSET HandleIds
    BY <1>0, <1>1, FramesAre DEF HandInv
  <2>2. ASSUME NEW h \in ns[i].lent
        PROVE  /\ hd2[h].held = "lent"
               /\ \A k \in 1 .. n : ns2[k].me = h => k > i
               /\ \A k \in 1 .. n : k # i => h \notin ns2[k].lent
    BY <1>0, <1>1, <2>1, <2>2, <1>4 DEF FrameFits
  <2>3. ns[i].me \in HandleIds => hd2[ns[i].me] = hd[ns[i].me]
    BY <1>3, <1>4
  <2> QED BY <1>1, <2>1, <2>2, <2>3 DEF FrameFits
<1>9. ArgsFit(hd2, ns2, ow, ds)
  <2> SUFFICES ASSUME NEW i \in 1 .. n, NEW j \in 1 .. Len(ns[i].prepared)
               PROVE  ArgFits(hd2, ns2, ow, ds, i, ns[i].prepared[j])
    BY <1>1 DEF ArgsFit
  <2>1. PICK a \in ArgOf : a = ns[i].prepared[j]
    BY <1>0, <1>1, FramesAre
  <2>2. ArgFits(hd, ns, ow, ds, i, a)
    BY <1>0, <1>1, <2>1 DEF HandInv, ArgsFit
  <2>3. ASSUME IsKept(a) PROVE KeptFits(hd2, ns2, ow, ds, a)
    <3>1. KeptFits(hd, ns, ow, ds, a)
      BY <2>2, <2>3 DEF ArgFits
    <3>2. a.home # NoHome => a.home \in HandleIds /\ hd2[a.home] = hd[a.home]
      BY <1>4, <3>1 DEF ArgOf, KeptFits
    <3>3. \A h \in HandleIds : hd2[h].held = "object" => hd2[h] = hd[h]
      BY <1>4
    <3> QED BY <1>6, <3>1, <3>2, <3>3 DEF KeptFits
  <2>4. ASSUME a.as = "passed" PROVE PassedFits(hd2, ns2, i, a)
    <3>1. ASSUME NEW k \in 1 .. i - 1, a.home \in ns[k].lent PROVE hd2[a.home] = hd[a.home] /\ ns2[k] = ns[k]
      <4>1. k \in 1 .. n
        BY <1>0
      <4> QED BY <1>1, <1>4, <4>1, <1>0, <1>3, <3>1, FramesAre
    <3> QED BY <1>1, <2>2, <2>4, <3>1 DEF PassedFits, ArgFits
  <2> QED BY <2>1, <2>3, <2>4 DEF ArgFits
<1>10. ArgsApart(ns2)
  BY <1>0, <1>1 DEF HandInv, ArgsApart
<1>11. ASSUME NEW o \in HostThings PROVE Somewhere(hd2, ns2, ow, ds, o)
  <2>1. Somewhere(hd, ns, ow, ds, o)
    BY DEF HandInv
  <2>2. CASE \E h \in HandleIds : hd[h].held = "object" /\ hd[h].thing = o
    BY <1>4, <2>2 DEF Somewhere
  <2>3. CASE \E i \in 1 .. n + 1 : \E j \in 1 .. Len(ns[i].prepared) :
               IsKept(ns[i].prepared[j]) /\ ns[i].prepared[j].thing = o
    <3>0. PICK i \in 1 .. n + 1 : \E j \in 1 .. Len(ns[i].prepared) :
               IsKept(ns[i].prepared[j]) /\ ns[i].prepared[j].thing = o
      BY <2>3
    <3>1. PICK j \in 1 .. Len(ns[i].prepared) :
               IsKept(ns[i].prepared[j]) /\ ns[i].prepared[j].thing = o
      BY <3>0
    <3>2. i # n + 1
      BY <1>3, <3>1
    <3> QED BY <1>0, <1>1, <3>1, <3>2 DEF Somewhere
  <2> QED BY <1>1, <2>1, <2>2, <2>3 DEF Somewhere
<1> QED BY <1>1, <1>5, <1>7, <1>8, <1>9, <1>10, <1>11 DEF HandInv

LEMMA TopEnds ==
  ASSUME NEW ns \in Seq(FrameOf), ns # <<>>
  PROVE  \E n \in Nat : Len(ns) = n + 1 /\ Last(ns) = ns[n + 1] /\ Ends(ns, Front(ns), n)
<1>1. PICK n \in Nat : Len(ns) = n + 1
  BY EmptySeq
<1>2. Ends(ns, Front(ns), n)
  BY <1>1, FramesAre, SubSeqProperties DEF Ends, Front
<1>3. Last(ns) = ns[n + 1]
  BY <1>1 DEF Last
<1> QED BY <1>1, <1>2, <1>3

LEMMA CallStartsIs ==
  ASSUME NEW ns \in Seq(FrameOf), NEW f \in FrameOf, f.is \in {"served", "preparing"}, f.prepared = <<>>
  PROVE  CallStarts(ns, Append(ns, f), Len(ns), f)
<1>1. /\ Append(ns, f) \in Seq(FrameOf) /\ Len(Append(ns, f)) = Len(ns) + 1 /\ Len(ns) \in Nat
      /\ \A i \in 1 .. Len(ns) : Append(ns, f)[i] = ns[i]
      /\ Append(ns, f)[Len(ns) + 1] = f
  BY AppendProperties
<1> QED BY <1>1 DEF CallStarts

\* handle:slot(...) begins.
LEMMA StartsCallKeeps ==
  ASSUME HandingAssumption, HandingInv, NEW h \in HandleIds, StartsCall(h)
  PROVE  HandInv(handle', nest', owned', destroyed')
<1>1. PICK f : f = Preparing(h)
  OBVIOUS
<1>2. handle \in [HandleIds -> HandleOf] /\ nest \in Seq(FrameOf)
  BY DEF HandingInv, HandInv, HandsTyped
<1>3. /\ f.is = "preparing" /\ f.me = h /\ f.lent = {} /\ f.prepared = <<>> /\ f.target = NoThing
      /\ f = [is |-> "preparing", me |-> h, lent |-> {}, prepared |-> <<>>, target |-> NoThing]
  BY <1>1 DEF Preparing
<1>4. f \in FrameOf
  BY <1>3 DEF FrameOf
<1>5. PICK n : n = Len(nest)
  OBVIOUS
<1>6. HandInv(handle', nest', owned, destroyed)
  BY <1>1, <1>2, <1>3, <1>4, <1>5, CallStartsIs, CallStartsFits
    DEF HandingInv, Lends, StartsCall, Nested
<1> QED BY <1>6 DEF StartsCall

\* What the host may part with, it has not lent.
LEMMA MayPart ==
  ASSUME NEW o \in HostMayPart, nest \in Seq(FrameOf)
  PROVE  o \in owned /\ \A i \in 1 .. Len(nest) : \A k \in nest[i].lent : handle[k].thing # o
<1>1. DOMAIN nest = 1 .. Len(nest)
  OBVIOUS
<1> QED BY <1>1 DEF HostMayPart, LentByHost

\* What the host may lend is its own, or lent to it by a call that still runs.
LEMMA LentHasLender ==
  ASSUME HandingInv, NEW o \in owned \cup LentToHost, NEW n \in Nat, n = Len(nest)
  PROVE  LenderHas(nest, owned, n + 1, o)
<1>1. nest \in Seq(FrameOf) /\ DOMAIN nest = 1 .. n /\ \A k \in 1 .. n : k \in 1 .. n + 1 - 1
  BY DEF HandingInv, HandInv, HandsTyped
<1>2. CASE o \in owned
  BY <1>2 DEF LenderHas
<1>3. CASE o \in LentToHost
  <2>1. PICK i \in 1 .. n : nest[i].is = "running" /\ o \in ThingsAs({"lent", "passed"}, nest[i].prepared)
    BY <1>1, <1>3 DEF LentToHost
  <2>2. PICK args : args = nest[i].prepared
    OBVIOUS
  <2>3. PICK j \in 1 .. Len(args) : args[j].as \in {"lent", "passed"} /\ args[j].thing = o
    BY <2>1, <2>2, <1>1, FramesAre DEF ThingsAs
  <2>4. CASE args[j].as = "lent"
    BY <1>1, <2>1, <2>2, <2>3, <2>4 DEF LenderHas, LendsOn
  <2>5. CASE args[j].as = "passed"
    <3>1. PassedFits(handle, nest, i, args[j])
      BY <2>2, <2>3, <2>5 DEF HandingInv, HandInv, ArgsFit, ArgFits
    <3>2. PICK k \in 1 .. i - 1 : /\ args[j].home \in nest[k].lent /\ handle[args[j].home].held = "lent"
                                  /\ handle[args[j].home].thing = o
      BY <2>1, <2>3, <3>1 DEF PassedFits
    <3>3. k \in 1 .. n /\ o # NoThing
      BY <2>1, <2>3, <3>1 DEF PassedFits
    <3>4. PICK h \in HandleIds : h = args[j].home
      BY <1>1, <3>2, <3>3, FramesAre
    <3>5. PICK m \in 1 .. n : LenderHas(nest, owned, m, o)
      BY <3>2, <3>3, <3>4 DEF HandleFits, HandingInv, HandInv
    <3>6. \A q \in 1 .. m - 1 : q \in 1 .. n + 1 - 1
      OBVIOUS
    <3> QED BY <3>5, <3>6 DEF LenderHas
  <2> QED BY <2>3, <2>4, <2>5
<1> QED BY <1>2, <1>3

\* call_table: what the host hands over is in a handle first, then the call
\* begins with what it lends.
LEMMA ServeScriptKeeps ==
  ASSUME HandingAssumption, HandingInv, NEW taken \in SUBSET Things, NEW lent \in SUBSET Things,
         ServeScript(taken, lent)
  PROVE  HandInv(handle', nest', owned', destroyed')
<1>a. PICK hs \in SUBSET FreeHandles : \E to \in [hs -> taken \cup lent] :
        /\ \A h, k \in hs : h # k => to[h] # to[k]
        /\ \A o \in taken \cup lent : \E h \in hs : to[h] = o
        /\ handle' = [h \in HandleIds |-> IF h \notin hs THEN handle[h]
                                          ELSE IF to[h] \in taken THEN OfObject(to[h]) ELSE OfLent(to[h])]
        /\ Nested(ServedFrame({h \in hs : to[h] \in lent}))
  BY Zenon DEF ServeScript
<1>1. PICK to \in [hs -> taken \cup lent] :
        /\ \A h, k \in hs : h # k => to[h] # to[k]
        /\ \A o \in taken \cup lent : \E h \in hs : to[h] = o
        /\ handle' = [h \in HandleIds |-> IF h \notin hs THEN handle[h]
                                          ELSE IF to[h] \in taken THEN OfObject(to[h]) ELSE OfLent(to[h])]
        /\ Nested(ServedFrame({h \in hs : to[h] \in lent}))
  BY <1>a
<1>2. /\ taken \in {{}} \cup {{o} : o \in HostMayPart}
      /\ lent \in {{}} \cup {{o} : o \in (owned \cup LentToHost) \ taken}
      /\ owned' = owned \ taken /\ destroyed' = destroyed
  BY DEF ServeScript
<1>3. handle \in [HandleIds -> HandleOf] /\ nest \in Seq(FrameOf) /\ HandInv(handle, nest, owned, destroyed)
  BY DEF HandingInv, HandInv, HandsTyped
<1>4. PICK f : f = ServedFrame({h \in hs : to[h] \in lent})
  OBVIOUS
<1>5. /\ f.is = "served" /\ f.me = NoHome /\ f.prepared = <<>> /\ f.lent = {h \in hs : to[h] \in lent}
      /\ f \in FrameOf
  BY <1>4 DEF ServedFrame, FrameOf, FreeHandles
<1>6. PICK n \in Nat : n = Len(nest)
  BY <1>3
<1>7. CallStarts(nest, nest', n, f)
  BY <1>1, <1>3, <1>4, <1>5, <1>6, CallStartsIs DEF Nested
<1>8. \A h \in hs : h \in HandleIds /\ handle[h] = NoHandle
  BY DEF FreeHandles
<1>9. ASSUME NEW h \in HandleIds
      PROVE  /\ h \notin hs => handle'[h] = handle[h]
             /\ h \in hs /\ to[h] \in taken => handle'[h] = OfObject(to[h])
             /\ h \in hs /\ to[h] \notin taken => handle'[h] = OfLent(to[h])
  BY <1>1
<1>10. handle' \in [HandleIds -> HandleOf]
  <2>1. ASSUME NEW h \in HandleIds PROVE handle'[h] \in HandleOf
    <3>1. CASE h \notin hs
      BY <1>3, <1>9, <3>1
    <3>2. CASE h \in hs
      <4>1. OfObject(to[h]) \in HandleOf /\ OfLent(to[h]) \in HandleOf
        BY <3>2 DEF OfObject, OfLent, HandleOf
      <4> QED BY <1>9, <3>2, <4>1
    <3> QED BY <3>1, <3>2
  <2> QED BY <2>1, <1>1
<1>11. ASSUME NEW o \in lent PROVE LenderHas(nest, owned, n + 1, o) /\ o \notin taken
  BY <1>6, <1>2, LentHasLender
<1>12. CASE taken = {}
  <2>1. ASSUME NEW h \in f.lent
        PROVE  /\ handle[h] = NoHandle /\ handle'[h].held = "lent"
               /\ handle'[h].thing # NoThing => LenderHas(nest, owned, n + 1, handle'[h].thing)
    <3>1. h \in hs /\ to[h] \in lent /\ h \in HandleIds /\ handle[h] = NoHandle
      BY <1>5, <1>8, <2>1
    <3>2. LenderHas(nest, owned, n + 1, to[h]) /\ to[h] \notin taken
      BY <1>11, <3>1
    <3>3. handle'[h] = OfLent(to[h])
      BY <1>9, <3>1, <3>2
    <3>4. handle'[h].held = "lent" /\ handle'[h].thing = to[h]
      BY <3>3 DEF OfLent
    <3> QED BY <3>1, <3>2, <3>4
  <2>2. HandInv(handle', nest', owned, destroyed)
    BY <1>3, <1>7, <1>5, <1>10, <1>9, <1>12, <2>1, CallStartsFits DEF Lends
  <2>3. owned' = owned
    BY <1>2, <1>12
  <2> QED BY <1>2, <2>2, <2>3
<1>13. ASSUME NEW o \in HostMayPart, taken = {o} PROVE HandInv(handle', nest', owned', destroyed')
  <2>1. PICK g \in hs : to[g] = o
    BY <1>1, <1>13
  <2>2. g \in HandleIds /\ handle[g] = NoHandle
    BY <1>8
  <2>3. PICK hd1 : hd1 = [handle EXCEPT ![g] = OfObject(o)]
    OBVIOUS
  <2>4. hd1[g] = OfObject(o) /\ \A h \in HandleIds : h # g => hd1[h] = handle[h]
    BY <1>3, <2>2, <2>3
  <2>5. ASSUME NEW h \in HandleIds, h \notin f.lent PROVE handle'[h] = hd1[h]
    <3>1. CASE h = g
      BY <1>9, <1>13, <2>1, <2>2, <2>4, <3>1
    <3>2. CASE h # g
      BY <1>9, <2>4, <3>2, <1>5, <1>13, <2>5, <1>1, <2>1
    <3> QED BY <3>1, <3>2
  <2>6. ASSUME NEW h \in f.lent
        PROVE  /\ hd1[h] = NoHandle /\ handle'[h].held = "lent"
               /\ handle'[h].thing # NoThing => LenderHas(nest, owned \ {o}, n + 1, handle'[h].thing)
    <3>1. h \in hs /\ to[h] \in lent /\ h \in HandleIds
      BY <1>5, <1>8, <2>6
    <3>2. to[h] # o /\ LenderHas(nest, owned, n + 1, to[h]) /\ to[h] \notin taken
      BY <1>11, <1>13, <3>1
    <3>3. LenderHas(nest, owned \ {o}, n + 1, to[h])
      BY <3>2 DEF LenderHas
    <3>4. hd1[h] = NoHandle
      BY <1>8, <2>1, <2>4, <3>1, <3>2
    <3>5. handle'[h] = OfLent(to[h])
      BY <1>9, <3>1, <3>2
    <3>6. handle'[h].held = "lent" /\ handle'[h].thing = to[h]
      BY <3>5 DEF OfLent
    <3> QED BY <3>3, <3>4, <3>6
  <2>7. Lends(hd1, handle', nest, owned \ {o}, n, f)
    BY <1>5, <1>10, <2>5, <2>6 DEF Lends
  <2>8. HandInv(handle', nest', owned \ {o}, destroyed)
    BY <1>7, <1>3, <2>2, <2>3, MayPart, HostHands, <2>7, CallStartsFits
  <2> QED BY <1>2, <1>13, <2>8
<1> QED BY <1>2, <1>12, <1>13

LEMMA RunsIs ==
  ASSUME NEW h, nest \in Seq(FrameOf)
  PROVE  Borrowed(h) <=> RunsOn(nest, h)
<1>1. DOMAIN nest = 1 .. Len(nest)
  OBVIOUS
<1> QED BY <1>1 DEF Borrowed, BorrowedBy, RunsOn

LEMMA AddsIs ==
  ASSUME nest \in Seq(FrameOf), NEW x \in ArgOf, Adds(x)
  PROVE  \E n \in Nat : AddsArg(nest, nest', n, x)
<1>1. nest # <<>> /\ Last(nest).is = "preparing"
  BY DEF Adds, AtTop
<1>2. PICK n \in Nat : Len(nest) = n + 1 /\ Last(nest) = nest[n + 1]
  BY <1>1, TopEnds
<1>3. n + 1 \in 1 .. n + 1 /\ \A i \in 1 .. n : i \in 1 .. n + 1 /\ i # n + 1
  OBVIOUS
<1>4. PICK f \in FrameOf : f = nest[n + 1]
  BY <1>2, <1>3, FramesAre
<1>5. PICK args \in Seq(ArgOf) : args = f.prepared
  BY <1>4 DEF FrameOf
<1>6. PICK f2 : f2 = [f EXCEPT !.prepared = Append(@, x)]
  OBVIOUS
<1>7. /\ f2.is = f.is /\ f2.me = f.me /\ f2.lent = f.lent /\ f2.target = f.target
      /\ f2.prepared = Append(args, x)
  BY <1>4, <1>5, <1>6 DEF FrameOf
<1>8. /\ Append(args, x) \in Seq(ArgOf) /\ Len(Append(args, x)) = Len(args) + 1 /\ Len(args) \in Nat
      /\ \A i \in 1 .. Len(args) : Append(args, x)[i] = args[i]
      /\ Append(args, x)[Len(args) + 1] = x
  BY AppendProperties
<1>9. f2 \in FrameOf
  BY <1>4, <1>8, <1>5, <1>6 DEF FrameOf
<1>10. /\ nest' \in Seq(FrameOf) /\ Len(nest') = n + 1 /\ nest'[n + 1] = f2
       /\ \A i \in 1 .. n : nest'[i] = nest[i]
  BY <1>2, <1>3, <1>4, <1>6, <1>9, ExceptSeq DEF Adds
<1> QED BY <1>1, <1>2, <1>4, <1>5, <1>7, <1>8, <1>10 DEF AddsArg

\* argument: an object is taken out of its handle.
LEMMA PreparesOwnKeeps ==
  ASSUME HandingAssumption, HandingInv, NEW h \in HandleIds, NEW as \in {"object", "lent"}, PreparesOwn(h, as)
  PROVE  HandInv(handle', nest', owned', destroyed')
<1>1. /\ handle \in [HandleIds -> HandleOf] /\ nest \in Seq(FrameOf)
      /\ HandInv(handle, nest, owned, destroyed)
  BY DEF HandingInv, HandInv, HandsTyped
<1>2. PICK o : o = handle[h].thing
  OBVIOUS
<1>3. /\ handle[h].held = "object" /\ o # NoThing /\ handle' = [handle EXCEPT ![h].thing = NoThing]
      /\ owned' = owned /\ destroyed' = destroyed /\ Adds(Argument(as, o, h))
  BY <1>2 DEF PreparesOwn, Emptied
<1>4. ~RunsOn(nest, h)
  BY <1>1, RunsIs DEF PreparesOwn, Takeable
<1>5. BetweenHands(handle', nest, owned, destroyed, o)
  BY <1>1, <1>2, <1>3, <1>4, TakenOut
<1>6. PICK x : x = Argument(as, o, h)
  OBVIOUS
<1>7. x.as = as /\ x.thing = o /\ x.home = h /\ IsKept(x) /\ x \in ArgOf
  <2>1. o \in Things
    BY <1>5 DEF BetweenHands
  <2> QED BY <1>6, <2>1 DEF Argument, ArgOf, IsKept
<1>8. PICK n \in Nat : AddsArg(nest, nest', n, x)
  BY <1>1, <1>3, <1>6, <1>7, AddsIs
<1>9. ASSUME NEW i \in 1 .. Len(nest), NEW j \in 1 .. Len(nest[i].prepared), IsKept(nest[i].prepared[j])
      PROVE  nest[i].prepared[j].home # h
  <2>1. h # NoHome
    BY DEF HandleIds, NoHome
  <2> QED BY <1>2, <1>3, <1>1, <1>9, <2>1 DEF KeptFits, HandInv, ArgsFit, ArgFits
<1>10. HandInv(handle', nest', owned, destroyed)
  BY <1>8, <1>4, <1>5, <1>7, <1>9, <1>1, <1>3, ArgAdded DEF CanBeArg, HandleOf
<1> QED BY <1>3, <1>10

\* argument: what was lent is passed on.
LEMMA PreparesLentKeeps ==
  ASSUME HandingAssumption, HandingInv, NEW h \in HandleIds, NEW as, PreparesLent(h, as)
  PROVE  HandInv(handle', nest', owned', destroyed')
<1>1. /\ handle \in [HandleIds -> HandleOf] /\ nest \in Seq(FrameOf)
      /\ HandInv(handle, nest, owned, destroyed)
  BY DEF HandingInv, HandInv, HandsTyped
<1>2. /\ handle[h].held = "lent" /\ as = "passed" /\ Adds(Argument(as, handle[h].thing, h))
      /\ handle' = handle /\ owned' = owned /\ destroyed' = destroyed
  BY DEF PreparesLent, PassedAs
<1>3. PICK x : x = Argument(as, handle[h].thing, h)
  OBVIOUS
<1>4. x.as = "passed" /\ x.thing = handle[h].thing /\ x.home = h /\ x \in ArgOf
  BY <1>2, <1>3, <1>1 DEF Argument, ArgOf, HandleOf
<1>5. PICK n \in Nat : AddsArg(nest, nest', n, x)
  BY <1>1, <1>2, <1>3, <1>4, AddsIs
<1>6. n + 1 \in 1 .. n + 1 /\ Len(nest) = n + 1 /\ nest[n + 1].is = "preparing"
  BY <1>5 DEF AddsArg
<1>7. nest[n + 1].lent = {}
  BY <1>1, <1>6 DEF HandInv, FrameFits
<1>8. ASSUME handle[h].thing # NoThing PROVE \E k \in 1 .. n + 1 - 1 : h \in nest[k].lent
  <2>1. PICK i \in 1 .. n + 1 : h \in nest[i].lent
    BY <1>1, <1>2, <1>6, <1>8 DEF HandInv, HandleFits
  <2>2. i # n + 1
    BY <1>7, <2>1
  <2>3. i \in 1 .. n + 1 - 1
    BY <2>2
  <2> QED BY <2>1, <2>3
<1>9. HandInv(handle, nest', owned, destroyed)
  BY <1>5, <1>1, <1>4, <1>2, <1>6, <1>8, ArgAdded DEF CanBeArg, PassedFits
<1> QED BY <1>2, <1>9

\* What was not made yet is nobody's.
LEMMA UnmadeIs ==
  ASSUME HandingInv, NEW o \in TableThings, o \notin Made
  PROVE  BetweenHands(handle, nest, owned, destroyed, o)
<1>1. HandInv(handle, nest, owned, destroyed) /\ nest \in Seq(FrameOf)
  BY DEF HandingInv, HandInv, HandsTyped
<1>2. o \in Things /\ o \notin owned /\ o \notin destroyed /\ \A h \in HandleIds : handle[h].thing # o
  BY DEF Made, Things
<1>3. ASSUME NEW i \in 1 .. Len(nest), NEW j \in 1 .. Len(nest[i].prepared), IsKept(nest[i].prepared[j])
      PROVE  nest[i].prepared[j].thing # o
  <2>1. PICK args \in Seq(ArgOf) : args = nest[i].prepared
    BY <1>1, FramesAre
  <2>2. DOMAIN nest = 1 .. Len(nest) /\ DOMAIN args = 1 .. Len(args)
    BY <1>1
  <2>3. o \notin ThingsAs({"object", "lent"}, args)
    BY <2>1, <2>2 DEF Made
  <2> QED BY <1>3, <2>1, <2>2, <2>3 DEF ThingsAs, IsKept
<1> QED BY <1>1, <1>2, <1>3, UnmadeIsBetween

LEMMA PreparesTableKeeps ==
  ASSUME HandingAssumption, HandingInv, NEW o \in TableThings, NEW as \in {"object", "lent"}, PreparesTable(o, as)
  PROVE  HandInv(handle', nest', owned', destroyed')
<1>1. nest \in Seq(FrameOf)
  BY DEF HandingInv, HandInv, HandsTyped
<1>2. /\ o \notin Made /\ Adds(Argument(as, o, NoHome))
      /\ handle' = handle /\ owned' = owned /\ destroyed' = destroyed
  BY DEF PreparesTable
<1>3. PICK x : x = Argument(as, o, NoHome)
  OBVIOUS
<1>4. IsKept(x) /\ x.thing = o /\ x.home = NoHome /\ x \in ArgOf
  BY <1>3 DEF Argument, ArgOf, IsKept, Things
<1>5. PICK n \in Nat : AddsArg(nest, nest', n, x)
  BY <1>1, <1>2, <1>3, <1>4, AddsIs
<1>6. HandInv(handle, nest', owned, destroyed)
  BY <1>5, <1>4, <1>2, UnmadeIs, ArgAdded DEF CanBeArg
<1> QED BY <1>2, <1>6

\* PreparedArgs::drop: what arguments hold is back in its handle, or was
\* destroyed, when it has none.
LEMMA GivesBack ==
  ASSUME HandingAssumption, NEW ns, NEW ow, NEW ds, NEW n,
         HandInv(handle, ns, ow, ds), Ends(ns, Front(nest), n), Front(nest) \in Seq(FrameOf)
  PROVE  GivesAll(ns[n + 1].prepared, handle, GivenBack(ns[n + 1].prepared),
                  ds, ds \cup Strayed(ns[n + 1].prepared))
<1>0. n \in Nat /\ n + 1 \in 1 .. n + 1 /\ \A i \in 1 .. n : i \in 1 .. n + 1
  BY DEF Ends
<1>1. /\ handle \in [HandleIds -> HandleOf] /\ ns \in Seq(FrameOf) /\ Len(ns) = n + 1
      /\ DOMAIN Front(nest) = 1 .. n /\ \A i \in 1 .. n : Front(nest)[i] = ns[i]
  BY DEF HandInv, HandsTyped, Ends
<1>2. PICK args \in Seq(ArgOf) : args = ns[n + 1].prepared
  BY <1>0, <1>1, FramesAre
<1>3. DOMAIN args = 1 .. Len(args) /\ \A j \in 1 .. Len(args) : args[j] \in ArgOf
  BY <1>2, ElementOfSeq
<1>4. KeptArgs(args) = {j \in 1 .. Len(args) : IsKept(args[j])}
  BY <1>3 DEF KeptArgs, IsKept
<1>5. ASSUME NEW j \in KeptArgs(args) PROVE GoesHome(args[j]) <=> args[j].home # NoHome
  <2>1. ASSUME args[j].home # NoHome PROVE ~BorrowedBy(Front(nest), args[j].home)
    BY <1>0, <1>1, <1>2, <1>4, <2>1 DEF KeptFits, RunsOn, BorrowedBy, HandInv, ArgsFit, ArgFits
  <2> QED BY <2>1 DEF GoesHome
<1>6. PICK hd2 : hd2 = GivenBack(args)
  OBVIOUS
<1>7. ASSUME NEW h \in HandleIds
      PROVE  /\ \/ hd2[h] = handle[h] /\ \A j \in 1 .. Len(args) : IsKept(args[j]) => args[j].home # h
                \/ \E j \in 1 .. Len(args) :
                     IsKept(args[j]) /\ args[j].home = h /\ hd2[h] = OfObject(args[j].thing)
             /\ hd2[h] \in HandleOf
  <2>1. h # NoHome
    BY DEF HandleIds, NoHome
  <2>2. CASE \E j \in KeptArgs(args) : args[j].home = h
    <3>1. PICK j : j = CHOOSE i \in KeptArgs(args) : args[i].home = h
      OBVIOUS
    <3>2. j \in KeptArgs(args) /\ args[j].home = h
      BY <2>2, <3>1
    <3>3. hd2[h] = OfObject(args[j].thing)
      BY <1>6, <3>1, <1>5, <2>1, <3>2 DEF GivenBack
    <3>4. OfObject(args[j].thing) \in HandleOf
      BY <1>3, <1>4, <3>2 DEF OfObject, HandleOf, ArgOf
    <3> QED BY <1>4, <3>2, <3>3, <3>4
  <2>3. CASE ~ \E j \in KeptArgs(args) : args[j].home = h
    BY <1>1, <1>4, <2>3, <1>6 DEF GivenBack
  <2> QED BY <2>2, <2>3
<1>8. ASSUME NEW o
      PROVE  o \in ds \cup Strayed(args) <=>
               \/ o \in ds
               \/ \E j \in 1 .. Len(args) : IsKept(args[j]) /\ args[j].home = NoHome /\ args[j].thing = o
  BY <1>4, <1>5 DEF Strayed
<1>9. GivesAll(args, handle, hd2, ds, ds \cup Strayed(args))
  BY <1>7, <1>6, <1>8 DEF GivesAll, GivenBack
<1> QED BY <1>2, <1>6, <1>9

\* An argument is refused.
LEMMA RefusesKeeps ==
  ASSUME HandingAssumption, HandingInv, RefusesArgument
  PROVE  HandInv(handle', nest', owned', destroyed')
<1>1. HandInv(handle, nest, owned, destroyed) /\ nest \in Seq(FrameOf)
  BY DEF HandingInv, HandInv, HandsTyped
<1>2. PICK n \in Nat : Len(nest) = n + 1 /\ Last(nest) = nest[n + 1] /\ Ends(nest, Front(nest), n)
  BY <1>1, TopEnds DEF RefusesArgument, AtTop
<1>3. Front(nest) \in Seq(FrameOf) /\ nest[n + 1].is # "served"
  BY <1>2 DEF Ends, RefusesArgument, AtTop
<1>4. PICK args : args = nest[n + 1].prepared
  OBVIOUS
<1>5. HandInv(GivenBack(args), Front(nest), owned, destroyed \cup Strayed(args))
  BY <1>1, <1>2, <1>3, <1>4, GivesBack, CallIsOver
<1> QED BY <1>2, <1>4, <1>5 DEF RefusesArgument

LEMMA LentOnlyIs ==
  ASSUME NEW args \in Seq(ArgOf)
  PROVE  /\ LentOnly(args) \in Seq(ArgOf) /\ Len(LentOnly(args)) = Len(args)
         /\ \A j \in 1 .. Len(args) : IF args[j].as = "object" THEN LentOnly(args)[j].as = "taken"
                                      ELSE LentOnly(args)[j] = args[j]
<1>1. DOMAIN args = 1 .. Len(args) /\ Len(args) \in Nat
  OBVIOUS
<1>2. PICK left : left = [j \in 1 .. Len(args) |-> IF args[j].as = "object" THEN Argument("taken", NoThing, NoHome)
                                                   ELSE args[j]]
  OBVIOUS
<1>3. LentOnly(args) = left
  BY <1>1, <1>2 DEF LentOnly
<1>4. ASSUME NEW j \in 1 .. Len(args)
      PROVE  left[j] \in ArgOf /\ IF args[j].as = "object" THEN left[j].as = "taken" ELSE left[j] = args[j]
  <2>1. args[j] \in ArgOf
    BY ElementOfSeq
  <2>2. Argument("taken", NoThing, NoHome) \in ArgOf /\ Argument("taken", NoThing, NoHome).as = "taken"
    BY DEF Argument, ArgOf
  <2>3. left[j] = IF args[j].as = "object" THEN Argument("taken", NoThing, NoHome) ELSE args[j]
    BY <1>2
  <2> QED BY <2>1, <2>2, <2>3
<1>5. left \in Seq(ArgOf) /\ Len(left) = Len(args)
  <2> QED BY <1>1, <1>2, <1>4, SeqDef, LenProperties
<1> QED BY <1>3, <1>4, <1>5

\* with_args: the innermost call hands over what it does.
MayHand(hd, ns, ns2, n, over, is, t) ==
  /\ ns \in Seq(FrameOf) /\ n \in Nat /\ t \in Things \cup {NoThing}
  /\ Len(ns) = n + 1 /\ ns[n + 1].is = "preparing" /\ is = IF over THEN "running" ELSE "preparing"
  /\ over => /\ t = hd[ns[n + 1].me].thing /\ t # NoThing
             /\ \A j \in 1 .. Len(ns[n + 1].prepared) :
                  ns[n + 1].prepared[j].as = "passed" => ns[n + 1].prepared[j].thing # NoThing
  /\ ns2 = [ns EXCEPT ![n + 1] = [ns[n + 1] EXCEPT !.is = is, !.prepared = LentOnly(@), !.target = t]]

LEMMA HandsOnIs ==
  ASSUME NEW hd, NEW ns, NEW ns2, NEW n, NEW over \in BOOLEAN, NEW is, NEW t,
         MayHand(hd, ns, ns2, n, over, is, t)
  PROVE  /\ HandsOn(hd, ns, ns2, n, over)
         /\ ns2 \in Seq(FrameOf) /\ Len(ns2) = n + 1
         /\ ns2[n + 1].prepared = LentOnly(ns[n + 1].prepared)
         /\ \A i \in 1 .. n : ns2[i] = ns[i]
<1>a. /\ ns \in Seq(FrameOf) /\ n \in Nat /\ t \in Things \cup {NoThing}
      /\ Len(ns) = n + 1 /\ ns[n + 1].is = "preparing" /\ is = IF over THEN "running" ELSE "preparing"
      /\ over => /\ t = hd[ns[n + 1].me].thing /\ t # NoThing
                 /\ \A j \in 1 .. Len(ns[n + 1].prepared) :
                      ns[n + 1].prepared[j].as = "passed" => ns[n + 1].prepared[j].thing # NoThing
      /\ ns2 = [ns EXCEPT ![n + 1] = [ns[n + 1] EXCEPT !.is = is, !.prepared = LentOnly(@), !.target = t]]
  BY DEF MayHand
<1>0. n \in Nat /\ n + 1 \in 1 .. n + 1 /\ \A i \in 1 .. n : i \in 1 .. n + 1 /\ i # n + 1
  BY <1>a
<1>1. PICK f \in FrameOf : f = ns[n + 1]
  BY <1>a, <1>0, FramesAre
<1>2. PICK args \in Seq(ArgOf) : args = f.prepared
  BY <1>1 DEF FrameOf
<1>3. PICK left : left = LentOnly(args)
  OBVIOUS
<1>4. /\ left \in Seq(ArgOf) /\ Len(left) = Len(args)
      /\ \A j \in 1 .. Len(args) : IF args[j].as = "object" THEN left[j].as = "taken" ELSE left[j] = args[j]
  BY <1>3, LentOnlyIs
<1>5. PICK f2 : f2 = [f EXCEPT !.is = is, !.prepared = left, !.target = t]
  OBVIOUS
<1>6. /\ f2.is = is /\ f2.me = f.me /\ f2.lent = f.lent /\ f2.prepared = left /\ f2.target = t
      /\ f2 \in FrameOf
  BY <1>a, <1>1, <1>4, <1>5 DEF FrameOf
<1>7. /\ ns2 \in Seq(FrameOf) /\ Len(ns2) = n + 1 /\ ns2[n + 1] = f2
      /\ \A i \in 1 .. n : ns2[i] = ns[i]
  BY <1>a, <1>0, <1>1, <1>2, <1>3, <1>5, <1>6, ExceptSeq DEF FrameOf
<1>8. HandsOn(hd, ns, ns2, n, over)
  BY <1>a, <1>1, <1>2, <1>4, <1>6, <1>7 DEF HandsOn
<1> QED BY <1>1, <1>2, <1>3, <1>6, <1>7, <1>8

LEMMA HandedOverIs ==
  ASSUME NEW args \in Seq(ArgOf)
  PROVE  ThingsAs({"object"}, args) = HandedOver(args)
<1>1. DOMAIN args = 1 .. Len(args)
  OBVIOUS
<1> QED BY <1>1 DEF ThingsAs, HandedOver

\* call_slot: the method runs, and has what was handed over.
LEMMA MakesCallKeeps ==
  ASSUME HandingAssumption, HandingInv, MakesCall
  PROVE  HandInv(handle', nest', owned', destroyed')
<1>1. /\ HandInv(handle, nest, owned, destroyed) /\ nest \in Seq(FrameOf)
      /\ handle \in [HandleIds -> HandleOf]
  BY DEF HandingInv, HandInv, HandsTyped
<1>2. PICK n \in Nat : Len(nest) = n + 1 /\ Last(nest) = nest[n + 1]
  BY <1>1, TopEnds DEF MakesCall, AtTop
<1>3. n + 1 \in 1 .. n + 1
  OBVIOUS
<1>4. PICK f \in FrameOf : f = nest[n + 1]
  BY <1>1, <1>2, <1>3, FramesAre
<1>5. /\ f.is = "preparing" /\ StillHas(f.me) /\ NoThing \notin ThingsAs({"passed"}, f.prepared)
      /\ owned' = owned \cup ThingsAs({"object"}, f.prepared)
      /\ nest' = [nest EXCEPT ![Len(nest)] =
           [f EXCEPT !.is = "running", !.prepared = LentOnly(@), !.target = handle[f.me].thing]]
      /\ handle' = handle /\ destroyed' = destroyed
  BY <1>2, <1>4 DEF MakesCall, AtTop
<1>6. PICK args \in Seq(ArgOf) : args = f.prepared
  BY <1>4 DEF FrameOf
<1>7. PICK t : t = handle[f.me].thing
  OBVIOUS
<1>8. t \in Things \cup {NoThing} /\ t # NoThing
  BY <1>5, <1>7, <1>1, <1>2, <1>3, <1>4 DEF HandleOf, StillHas, HandInv, FrameFits
<1>o. PICK over \in BOOLEAN : over
  OBVIOUS
<1>9. HandsOn(handle, nest, nest', n, over)
  <2>1. nest[n + 1].is = "preparing"
    BY <1>4, <1>5
  <2>2. "running" = IF over THEN "running" ELSE "preparing"
    BY <1>o
  <2>3. MayHand(handle, nest, nest', n, over, "running", t)
    BY <1>1, <1>2, <1>8, <1>4, <1>5, <1>7, <1>6, <2>1, <2>2 DEF MayHand, ThingsAs
  <2> QED BY <2>3, HandsOnIs
<1>10. HandInv(handle, nest', owned', destroyed)
  <2>1. GoesTo(nest[n + 1].prepared, owned, destroyed, owned', destroyed, over)
    BY <1>o, <1>4, <1>5, <1>6, HandedOverIs DEF GoesTo
  <2> QED BY <1>1, <1>9, <2>1, ArgsGoOver
<1> QED BY <1>5, <1>10

\* CallRefused: the arguments go back, or are dropped when they were moved out.
LEMMA CallRefusedKeeps ==
  ASSUME HandingAssumption, HandingInv, CallRefused
  PROVE  HandInv(handle', nest', owned', destroyed')
<1>1. HandInv(handle, nest, owned, destroyed) /\ nest \in Seq(FrameOf)
  BY DEF HandingInv, HandInv, HandsTyped
<1>2. PICK n \in Nat : Len(nest) = n + 1 /\ Last(nest) = nest[n + 1] /\ Ends(nest, Front(nest), n)
  BY <1>1, TopEnds DEF CallRefused, AtTop
<1>3. PICK f \in FrameOf : f = nest[n + 1]
  BY <1>1, <1>2, FramesAre
<1>4. PICK args \in Seq(ArgOf) : args = f.prepared
  BY <1>3 DEF FrameOf
<1>5. PICK putBack : putBack = IF Borrowed(f.me) THEN args ELSE LentOnly(args)
  OBVIOUS
<1>6. /\ f.is = "preparing" /\ nest' = Front(nest) /\ owned' = owned
      /\ handle' = GivenBack(putBack)
      /\ destroyed' = destroyed \cup Strayed(putBack) \cup (ThingsAs({"object"}, args) \ ThingsAs({"object"}, putBack))
  BY <1>2, <1>3, <1>4, <1>5 DEF CallRefused, AtTop
<1>7. Front(nest) \in Seq(FrameOf) /\ Len(Front(nest)) = n /\ \A i \in 1 .. n : Front(nest)[i] = nest[i]
  BY <1>2 DEF Ends
<1>8. CASE Borrowed(f.me)
  <2>1. putBack = args /\ nest[n + 1].prepared = args /\ nest[n + 1].is # "served"
    BY <1>3, <1>4, <1>5, <1>6, <1>8
  <2>2. HandInv(GivenBack(args), Front(nest), owned, destroyed \cup Strayed(args))
    BY <1>1, <1>2, <2>1, <1>7, GivesBack, CallIsOver
  <2>3. destroyed' = destroyed \cup Strayed(args)
    BY <1>6, <2>1
  <2> QED BY <1>6, <2>1, <2>2, <2>3
<1>9. CASE ~Borrowed(f.me)
  <2>o. PICK over \in BOOLEAN : ~over
    OBVIOUS
  <2>1. PICK ns2 : ns2 = [nest EXCEPT ![n + 1] = [nest[n + 1] EXCEPT !.is = "preparing", !.prepared = LentOnly(@),
                                                                     !.target = f.target]]
    OBVIOUS
  <2>2. /\ HandsOn(handle, nest, ns2, n, over) /\ ns2 \in Seq(FrameOf) /\ Len(ns2) = n + 1
        /\ ns2[n + 1].prepared = LentOnly(nest[n + 1].prepared)
        /\ \A i \in 1 .. n : ns2[i] = nest[i]
    <3>1. MayHand(handle, nest, ns2, n, over, "preparing", f.target)
      BY <1>1, <1>2, <2>1, <1>3, <1>6, <2>o DEF MayHand, FrameOf
    <3> QED BY <3>1, HandsOnIs
  <2>3. PICK moved : moved = HandedOver(args)
    OBVIOUS
  <2>4. HandInv(handle, ns2, owned, destroyed \cup moved)
    BY <1>1, <2>2, <1>3, <1>4, <2>o, <2>3, ArgsGoOver DEF GoesTo
  <2>5. ns2[n + 1].prepared = putBack /\ putBack = LentOnly(args)
    BY <1>3, <1>4, <1>5, <1>9, <2>2
  <2>6. Ends(ns2, Front(nest), n)
    BY <1>7, <2>2 DEF Ends
  <2>7. GivesAll(putBack, handle, GivenBack(putBack), destroyed \cup moved, destroyed \cup moved \cup Strayed(putBack))
    BY <1>7, <2>4, <2>5, <2>6, GivesBack
  <2>8. HandInv(GivenBack(putBack), Front(nest), owned, destroyed \cup moved \cup Strayed(putBack))
    BY <2>4, <2>5, <2>6, <2>2, <2>7, CallIsOver DEF HandsOn
  <2>9. ThingsAs({"object"}, putBack) = {}
    <3>1. /\ putBack \in Seq(ArgOf) /\ Len(putBack) = Len(args)
          /\ \A j \in 1 .. Len(args) : IF args[j].as = "object" THEN putBack[j].as = "taken" ELSE putBack[j] = args[j]
      BY <2>5, LentOnlyIs
    <3>2. DOMAIN putBack = 1 .. Len(args)
      BY <3>1
    <3>3. \A j \in 1 .. Len(args) : putBack[j].as # "object"
      BY <3>1
    <3> QED BY <3>2, <3>3 DEF ThingsAs
  <2>10. destroyed' = destroyed \cup moved \cup Strayed(putBack)
    BY <1>6, <2>3, HandedOverIs, <2>9
  <2> QED BY <1>6, <2>8, <2>10
<1> QED BY <1>8, <1>9

\* The callee returns, with an object or none.
LEMMA ReturnsKeeps ==
  ASSUME HandingAssumption, HandingInv, NEW answer \in SUBSET Things, CalleeReturns(answer)
  PROVE  HandInv(handle', nest', owned', destroyed')
<1>1. HandInv(handle, nest, owned, destroyed) /\ nest \in Seq(FrameOf) /\ handle \in [HandleIds -> HandleOf]
  BY DEF HandingInv, HandInv, HandsTyped
<1>2. PICK n \in Nat : Len(nest) = n + 1 /\ Last(nest) = nest[n + 1] /\ Ends(nest, Front(nest), n)
  BY <1>1, TopEnds DEF CalleeReturns, AtTop
<1>3. Front(nest) \in Seq(FrameOf) /\ Len(Front(nest)) = n /\ \A i \in 1 .. n : Front(nest)[i] = nest[i]
  BY <1>2 DEF Ends
<1>4. PICK args : args = nest[n + 1].prepared
  OBVIOUS
<1>5. PICK hd1, ds1 : hd1 = GivenBack(args) /\ ds1 = destroyed \cup Strayed(args)
  OBVIOUS
<1>6. GivesAll(args, handle, hd1, destroyed, ds1)
  BY <1>1, <1>2, <1>3, <1>4, <1>5, GivesBack
\* What a call gives back changes no handle that is unmade or lent.
<1>a. ASSUME NEW h \in HandleIds, handle[h].held # "object" PROVE hd1[h] = handle[h]
  <2>1. ASSUME NEW j \in 1 .. Len(args), IsKept(args[j]) PROVE args[j].home # h
    BY <1>a, <1>1, <1>2, <1>4, <2>1 DEF KeptFits, HandInv, ArgsFit, ArgFits, HandleIds, NoHome
  <2> QED BY <1>6, <2>1 DEF GivesAll
<1>7. /\ nest[n + 1].is # "served" /\ nest' = Front(nest) /\ owned' = owned \ answer
      /\ answer \in {{}} \cup {{o} : o \in HostMayPart}
      /\ \/ /\ answer # {}
            /\ \E o \in answer, h \in FreeHandles : handle' = [hd1 EXCEPT ![h] = OfObject(o)]
            /\ destroyed' = ds1
         \/ handle' = hd1 /\ destroyed' = ds1 \cup answer
  BY <1>2, <1>4, <1>5 DEF CalleeReturns, AtTop
<1>8. HandInv(hd1, Front(nest), owned, ds1)
  BY <1>1, <1>2, <1>4, <1>6, <1>7, CallIsOver
<1>9. CASE answer = {}
  BY <1>7, <1>8, <1>9
<1>10. ASSUME NEW o \in HostMayPart, answer = {o} PROVE HandInv(handle', nest', owned', destroyed')
  <2>1. o \in owned /\ \A i \in 1 .. n + 1 : \A k \in nest[i].lent : handle[k].thing # o
    BY <1>1, <1>2, MayPart
  <2>2. ASSUME NEW i \in 1 .. Len(Front(nest)), NEW k \in Front(nest)[i].lent PROVE hd1[k].thing # o
    <3>1. i \in 1 .. n + 1 /\ k \in nest[i].lent
      BY <1>3
    <3> QED BY <2>1, <3>1, <1>a, <1>1, <1>2, FramesAre DEF HandInv, FrameFits
  <2>3. CASE handle' = hd1 /\ destroyed' = ds1 \cup answer
    BY <1>7, <1>10, <2>3, <1>8, <2>1, <2>2, HostLets
  <2>4. CASE /\ \E p \in answer, h \in FreeHandles : handle' = [hd1 EXCEPT ![h] = OfObject(p)]
             /\ destroyed' = ds1
    <3>1. PICK h \in FreeHandles : handle' = [hd1 EXCEPT ![h] = OfObject(o)]
      BY <1>10, <2>4
    <3>2. h \in HandleIds /\ handle[h] = NoHandle
      BY DEF FreeHandles
    <3>3. hd1[h] = NoHandle
      BY <1>a, <3>2 DEF NoHandle
    <3>4. HandInv(handle', Front(nest), owned \ {o}, ds1)
      BY <1>8, <2>1, <2>2, <3>1, <3>2, <3>3, HostHands
    <3> QED BY <1>7, <1>10, <2>4, <3>4
  <2> QED BY <1>7, <2>3, <2>4
<1> QED BY <1>7, <1>9, <1>10

\* hand_back: a script answers an object it owns.
LEMMA AnswersHandleKeeps ==
  ASSUME HandingAssumption, HandingInv, NEW h \in HandleIds, AnswersHandle(h)
  PROVE  HandInv(handle', nest', owned', destroyed')
<1>1. HandInv(handle, nest, owned, destroyed) /\ nest \in Seq(FrameOf)
  BY DEF HandingInv, HandInv, HandsTyped
<1>2. PICK n \in Nat : Len(nest) = n + 1 /\ Last(nest) = nest[n + 1] /\ Ends(nest, Front(nest), n)
  BY <1>1, TopEnds DEF AnswersHandle, AtTop
<1>3. PICK o, hd1 : o = handle[h].thing /\ hd1 = [handle EXCEPT ![h].thing = NoThing]
  OBVIOUS
<1>4. /\ nest[n + 1].is = "served" /\ handle[h].held = "object" /\ o # NoThing
      /\ owned' = owned \cup {o} /\ handle' = LendEnds(hd1, nest[n + 1].lent)
      /\ nest' = Front(nest) /\ destroyed' = destroyed
  BY <1>2, <1>3 DEF AnswersHandle, AtTop, StillHas
<1>5. ~RunsOn(nest, h)
  BY <1>1, RunsIs DEF AnswersHandle
<1>6. HandInv(hd1, nest, owned \cup {o}, destroyed)
  BY <1>1, <1>3, <1>4, <1>5, TakenOut, HostGets
<1>7. HandInv(handle', nest', owned', destroyed)
  BY <1>2, <1>4, <1>6, ServedEnds
<1> QED BY <1>4, <1>7

LEMMA AnswersTableKeeps ==
  ASSUME HandingAssumption, HandingInv, NEW o \in TableThings, AnswersTable(o)
  PROVE  HandInv(handle', nest', owned', destroyed')
<1>1. PICK n \in Nat : Len(nest) = n + 1 /\ Last(nest) = nest[n + 1] /\ Ends(nest, Front(nest), n)
  BY TopEnds DEF AnswersTable, AtTop, HandingInv, HandInv, HandsTyped
<1>2. /\ nest[n + 1].is = "served" /\ o \notin Made
      /\ owned' = owned \cup {o} /\ handle' = LendEnds(handle, nest[n + 1].lent)
      /\ nest' = Front(nest) /\ destroyed' = destroyed
  BY <1>1 DEF AnswersTable, AtTop
<1>3. HandInv(handle, nest, owned \cup {o}, destroyed)
  BY <1>2, UnmadeIs, HostGets
<1>4. HandInv(handle', nest', owned', destroyed)
  BY <1>1, <1>2, <1>3, ServedEnds
<1> QED BY <1>2, <1>4

LEMMA AnswersNothingKeeps ==
  ASSUME HandingAssumption, HandingInv, AnswersNothing
  PROVE  HandInv(handle', nest', owned', destroyed')
<1>1. HandInv(handle, nest, owned, destroyed) /\ nest \in Seq(FrameOf)
  BY DEF HandingInv, HandInv, HandsTyped
<1>2. PICK n \in Nat : Len(nest) = n + 1 /\ Last(nest) = nest[n + 1] /\ Ends(nest, Front(nest), n)
  BY <1>1, TopEnds DEF AnswersNothing, AtTop
<1>3. /\ nest[n + 1].is = "served" /\ handle' = LendEnds(handle, nest[n + 1].lent)
      /\ nest' = Front(nest) /\ owned' = owned /\ destroyed' = destroyed
  BY <1>2 DEF AnswersNothing, AtTop
<1>4. HandInv(handle', nest', owned, destroyed)
  BY <1>1, <1>2, <1>3, ServedEnds
<1> QED BY <1>3, <1>4

\* Collected, a handle is unmade again, and what it owned destroyed.
LEMMA CollectsKeeps ==
  ASSUME HandingAssumption, HandingInv, NEW h \in HandleIds, CollectsHandle(h)
  PROVE  HandInv(handle', nest', owned', destroyed')
<1>1. HandInv(handle, nest, owned, destroyed) /\ nest \in Seq(FrameOf) /\ handle \in [HandleIds -> HandleOf]
  BY DEF HandingInv, HandInv, HandsTyped
<1>2. \A i \in 1 .. Len(nest) :
        /\ nest[i].me # h /\ h \notin nest[i].lent
        /\ \A j \in 1 .. Len(nest[i].prepared) : nest[i].prepared[j].home # h
  <2> SUFFICES ASSUME NEW i \in 1 .. Len(nest)
               PROVE  /\ nest[i].me # h /\ h \notin nest[i].lent
                      /\ \A j \in 1 .. Len(nest[i].prepared) : nest[i].prepared[j].home # h
    OBVIOUS
  <2>1. DOMAIN nest = 1 .. Len(nest)
    BY <1>1
  <2>2. PICK args \in Seq(ArgOf) : args = nest[i].prepared
    BY <1>1, FramesAre
  <2>3. DOMAIN args = 1 .. Len(args)
    OBVIOUS
  <2> QED BY <2>1, <2>2, <2>3 DEF CollectsHandle
<1>3. PICK o, hd1 : o = handle[h].thing /\ hd1 = [handle EXCEPT ![h].thing = NoThing]
  OBVIOUS
<1>4. /\ handle' = [handle EXCEPT ![h] = NoHandle] /\ nest' = nest /\ owned' = owned
      /\ destroyed' = destroyed \cup (IF handle[h].held = "object" THEN {o} \ {NoThing} ELSE {})
  BY <1>3 DEF CollectsHandle
<1>5. CASE handle[h].held = "object" /\ o # NoThing
  <2>1. HandInv([hd1 EXCEPT ![h] = NoHandle], nest, owned, destroyed \cup {o})
    BY <1>2, <1>1, <1>3, <1>5, TakenOut, IsDestroyed, IsCollected DEF HandleOf, RunsOn
  <2>2. [hd1 EXCEPT ![h] = NoHandle] = handle'
    BY <1>1, <1>3, <1>4
  <2>3. destroyed' = destroyed \cup {o}
    BY <1>4, <1>5
  <2> QED BY <1>4, <2>1, <2>2, <2>3
<1>6. CASE ~(handle[h].held = "object" /\ o # NoThing)
  <2> QED BY <1>4, <1>1, <1>2, <1>3, <1>6, IsCollected
<1> QED BY <1>5, <1>6

LEMMA HandingStep == HandingAssumption /\ HandingInv /\ [HandingNext]_handingvars => HandingInv'
<1> SUFFICES ASSUME HandingAssumption, HandingInv, [HandingNext]_handingvars
             PROVE  HandInv(handle', nest', owned', destroyed')
  BY DEF HandingInv
<1>1. ASSUME NEW taken \in SUBSET Things, NEW lent \in SUBSET Things, ServeScript(taken, lent)
      PROVE  HandInv(handle', nest', owned', destroyed')
  BY <1>1, ServeScriptKeeps
<1>2. ASSUME NEW h \in HandleIds,
             \/ StartsCall(h) \/ AnswersHandle(h) \/ CollectsHandle(h)
             \/ \E as \in {"object", "lent"} : PreparesOwn(h, as)
             \/ \E as \in {"object", "passed"} : PreparesLent(h, as)
      PROVE  HandInv(handle', nest', owned', destroyed')
  BY <1>2, StartsCallKeeps, AnswersHandleKeeps, CollectsKeeps, PreparesOwnKeeps, PreparesLentKeeps
<1>3. ASSUME NEW o \in TableThings, NEW as \in {"object", "lent"}, PreparesTable(o, as)
      PROVE  HandInv(handle', nest', owned', destroyed')
  BY <1>3, PreparesTableKeeps
<1>4. ASSUME NEW o \in TableThings, AnswersTable(o)
      PROVE  HandInv(handle', nest', owned', destroyed')
  BY <1>4, AnswersTableKeeps
<1>5. CASE RefusesArgument \/ MakesCall \/ CallRefused \/ AnswersNothing
  BY <1>5, RefusesKeeps, MakesCallKeeps, CallRefusedKeeps, AnswersNothingKeeps
<1>6. ASSUME NEW answer \in SUBSET Things, CalleeReturns(answer)
      PROVE  HandInv(handle', nest', owned', destroyed')
  BY <1>6, ReturnsKeeps
<1>7. ASSUME NEW o \in Things, HostDestroys(o)
      PROVE  HandInv(handle', nest', owned', destroyed')
  <2>1. /\ o \in HostMayPart /\ owned' = owned \ {o} /\ destroyed' = destroyed \cup {o}
        /\ handle' = handle /\ nest' = nest
    BY <1>7 DEF HostDestroys
  <2>2. HandInv(handle, nest, owned, destroyed) /\ nest \in Seq(FrameOf)
    BY DEF HandingInv, HandInv, HandsTyped
  <2>3. HandInv(handle, nest, owned \ {o}, destroyed \cup {o})
    BY <2>2, <2>1, MayPart, HostLets
  <2> QED BY <2>1, <2>3
<1>8. CASE UNCHANGED handingvars
  BY <1>8 DEF HandingInv, handingvars
<1> QED BY <1>1, <1>2, <1>3, <1>4, <1>5, <1>6, <1>7, <1>8 DEF HandingNext

\* An object there is, is somewhere.
LEMMA MadeIsSomewhere ==
  ASSUME HandingAssumption, HandingInv, NEW o \in HostThings \cup (Made \ {NoThing})
  PROVE  o # NoThing /\ Somewhere(handle, nest, owned, destroyed, o)
<1>1. HandInv(handle, nest, owned, destroyed) /\ nest \in Seq(FrameOf) /\ handle \in [HandleIds -> HandleOf]
  BY DEF HandingInv, HandInv, HandsTyped
<1>2. CASE o \in HostThings
  BY <1>1, <1>2 DEF HandInv, HandingAssumption
<1>3. CASE o \in owned \/ o \in destroyed
  BY <1>1, <1>3 DEF HandInv, HandsTyped, HandingAssumption, Things, Somewhere
<1>4. ASSUME NEW i \in 1 .. Len(nest), LendsOn(nest[i], o), o # NoThing
      PROVE  Somewhere(handle, nest, owned, destroyed, o)
  BY <1>4 DEF LendsOn, IsKept, Somewhere
<1>5. ASSUME NEW h \in HandleIds, handle[h].thing = o, o # NoThing
      PROVE  Somewhere(handle, nest, owned, destroyed, o)
  <2>1. HandleFits(handle, nest, owned, destroyed, h) /\ handle[h].held \in {"unmade", "object", "lent"}
    BY <1>1 DEF HandInv, HandleOf
  <2>2. CASE handle[h].held = "object"
    BY <1>5, <2>2 DEF Somewhere
  <2>3. CASE handle[h].held = "lent"
    <3>1. PICK i \in 1 .. Len(nest) : LenderHas(nest, owned, i, o)
      BY <1>5, <2>1, <2>3 DEF HandleFits
    <3>2. CASE o \in owned
      BY <3>2 DEF Somewhere
    <3>3. CASE o \notin owned
      <4>1. PICK k \in 1 .. i - 1 : LendsOn(nest[k], o)
        BY <3>1, <3>3 DEF LenderHas
      <4> QED BY <1>4, <1>5, <4>1, <1>1
    <3> QED BY <3>2, <3>3
  <2> QED BY <1>5, <2>1, <2>2, <2>3 DEF HandleFits
<1>6. ASSUME NEW i \in 1 .. Len(nest), o \in ThingsAs({"object", "lent"}, nest[i].prepared), o # NoThing
      PROVE  Somewhere(handle, nest, owned, destroyed, o)
  <2>1. PICK args \in Seq(ArgOf) : args = nest[i].prepared
    BY <1>1, FramesAre
  <2>2. PICK j \in 1 .. Len(args) : args[j].as \in {"object", "lent"} /\ args[j].thing = o
    BY <1>6, <2>1 DEF ThingsAs
  <2> QED BY <2>1, <2>2 DEF Somewhere, IsKept
<1>7. ASSUME o \in Made \ {NoThing} PROVE o # NoThing /\ Somewhere(handle, nest, owned, destroyed, o)
  BY <1>3, <1>5, <1>6, <1>1, <1>7 DEF Made
<1> QED BY <1>2, <1>7

LEMMA KeptArgsIs ==
  ASSUME NEW args \in Seq(ArgOf)
  PROVE  KeptArgs(args) = {j \in 1 .. Len(args) : IsKept(args[j])}
<1>1. DOMAIN args = 1 .. Len(args)
  OBVIOUS
<1> QED BY <1>1 DEF KeptArgs, IsKept

\* Who has o, in the terms of the invariant.
HasIn(o, x) ==
  \/ \E h \in HandleIds : handle[h].held = "object" /\ handle[h].thing = o /\ x = <<"handle", h>>
  \/ \E i \in 1 .. Len(nest) : \E j \in 1 .. Len(nest[i].prepared) :
       /\ IsKept(nest[i].prepared[j]) /\ nest[i].prepared[j].thing = o
       /\ x = <<"call", i, j>>
  \/ o \in owned /\ x = <<"host">>
  \/ o \in destroyed /\ x = <<"destroyed">>

LEMMA OwnersAre ==
  ASSUME HandingInv, NEW o, NEW x
  PROVE  x \in Owners(o) <=> HasIn(o, x)
<1>1. nest \in Seq(FrameOf) /\ handle \in [HandleIds -> HandleOf]
  BY DEF HandingInv, HandInv, HandsTyped
<1> DEFINE A == {<<"handle", h>> : h \in {k \in HandleIds : handle[k] = OfObject(o)}}
           B == UNION {{<<"call", i, j>> : j \in {k \in KeptArgs(nest[i].prepared) :
                                                   nest[i].prepared[k].thing = o}} : i \in DOMAIN nest}
           C == {<<place>> : place \in {p \in {"host", "destroyed"} :
                                          o \in IF p = "host" THEN owned ELSE destroyed}}
<1>2. Owners(o) = A \cup B \cup C
  BY DEF Owners
<1>3. ASSUME NEW h \in HandleIds
      PROVE  handle[h] = OfObject(o) <=> handle[h].held = "object" /\ handle[h].thing = o
  <2>1. PICK r \in HandleOf : r = handle[h]
    BY <1>1
  <2> QED BY <2>1 DEF OfObject, HandleOf
<1>4. x \in A <=> \E h \in HandleIds : handle[h].held = "object" /\ handle[h].thing = o /\ x = <<"handle", h>>
  BY <1>3
<1>5. x \in B <=> \E i \in 1 .. Len(nest) : \E j \in 1 .. Len(nest[i].prepared) :
                    /\ IsKept(nest[i].prepared[j]) /\ nest[i].prepared[j].thing = o
                    /\ x = <<"call", i, j>>
  <2>1. \A i \in 1 .. Len(nest) :
          KeptArgs(nest[i].prepared) = {j \in 1 .. Len(nest[i].prepared) : IsKept(nest[i].prepared[j])}
    BY <1>1, FramesAre, KeptArgsIs
  <2> QED BY <2>1, <1>1
<1>6. x \in C <=> (o \in owned /\ x = <<"host">>) \/ (o \in destroyed /\ x = <<"destroyed">>)
  OBVIOUS
<1> HIDE DEF A, B, C
<1> QED BY <1>2, <1>4, <1>5, <1>6 DEF HasIn

\* Wherever it is, it is nowhere else.
LEMMA HasOne ==
  ASSUME HandingAssumption, HandingInv, NEW o, o # NoThing, Somewhere(handle, nest, owned, destroyed, o)
  PROVE  \E x : \A y : HasIn(o, y) <=> y = x
<1>1. HandInv(handle, nest, owned, destroyed) /\ nest \in Seq(FrameOf) /\ handle \in [HandleIds -> HandleOf]
  BY DEF HandingInv, HandInv, HandsTyped
<1>2. ASSUME NEW h \in HandleIds, handle[h].held = "object", handle[h].thing = o
      PROVE  /\ o \notin owned /\ o \notin destroyed
             /\ \A k \in HandleIds : handle[k].held = "object" /\ handle[k].thing = o => k = h
  BY <1>1, <1>2 DEF HandInv, HandleFits
<1>3. ASSUME NEW i \in 1 .. Len(nest), NEW j \in 1 .. Len(nest[i].prepared),
             IsKept(nest[i].prepared[j]), nest[i].prepared[j].thing = o
      PROVE  /\ o \notin owned /\ o \notin destroyed
             /\ \A h \in HandleIds : handle[h].held = "object" => handle[h].thing # o
  BY <1>1, <1>3 DEF HandInv, ArgsFit, ArgFits, KeptFits
<1>4. ASSUME NEW i \in 1 .. Len(nest), NEW j \in 1 .. Len(nest[i].prepared),
             IsKept(nest[i].prepared[j]), nest[i].prepared[j].thing = o,
             NEW k \in 1 .. Len(nest), NEW m \in 1 .. Len(nest[k].prepared),
             IsKept(nest[k].prepared[m]), nest[k].prepared[m].thing = o
      PROVE  i = k /\ j = m
  BY <1>4, <1>1 DEF KeptApart, HandInv, ArgsApart
<1>5. o \in owned => o \notin destroyed
  BY <1>1 DEF HandInv, HandsTyped
<1>6. CASE \E h \in HandleIds : handle[h].held = "object" /\ handle[h].thing = o
  <2>1. PICK h \in HandleIds : handle[h].held = "object" /\ handle[h].thing = o
    BY <1>6
  <2> QED BY <1>2, <1>3, <2>1 DEF HasIn
<1>7. CASE \E i \in 1 .. Len(nest) : \E j \in 1 .. Len(nest[i].prepared) :
             IsKept(nest[i].prepared[j]) /\ nest[i].prepared[j].thing = o
  <2>1. PICK i \in 1 .. Len(nest) : \E j \in 1 .. Len(nest[i].prepared) :
             IsKept(nest[i].prepared[j]) /\ nest[i].prepared[j].thing = o
    BY <1>7
  <2>2. PICK j \in 1 .. Len(nest[i].prepared) : IsKept(nest[i].prepared[j]) /\ nest[i].prepared[j].thing = o
    BY <2>1
  <2>3. ASSUME NEW y, HasIn(o, y) PROVE y = <<"call", i, j>>
    BY <1>4, <2>2, <1>3, <2>3 DEF HasIn
  <2>4. HasIn(o, <<"call", i, j>>)
    BY <2>2 DEF HasIn
  <2> QED BY <2>3, <2>4
<1>8. CASE o \in owned
  BY <1>2, <1>3, <1>5, <1>8 DEF HasIn
<1>9. CASE o \in destroyed
  BY <1>2, <1>3, <1>5, <1>9 DEF HasIn
<1> QED BY <1>6, <1>7, <1>8, <1>9 DEF Somewhere

LEMMA OneOwner == ASSUME HandingAssumption, HandingInv PROVE OwnedOnce
<1> SUFFICES ASSUME NEW o \in HostThings \cup (Made \ {NoThing}) PROVE Cardinality(Owners(o)) = 1
  BY DEF OwnedOnce
<1>1. PICK x : \A y : HasIn(o, y) <=> y = x
  BY MadeIsSomewhere, HasOne
<1>2. Owners(o) = {x}
  BY <1>1, OwnersAre
<1> QED BY <1>2, FS_Singleton

LEMMA CalledIsThere == ASSUME HandingInv PROVE CalledStays
<1>1. HandInv(handle, nest, owned, destroyed) /\ nest \in Seq(FrameOf) /\ handle \in [HandleIds -> HandleOf]
  BY DEF HandingInv, HandInv, HandsTyped
<1> SUFFICES ASSUME NEW i \in 1 .. Len(nest), nest[i].is = "running"
             PROVE  handle[nest[i].me].thing = nest[i].target /\ nest[i].target \notin destroyed
  BY <1>1 DEF CalledStays
<1>2. PICK h \in HandleIds : h = nest[i].me /\ nest[i].target # NoThing /\ handle[h].thing = nest[i].target
  BY <1>1 DEF HandInv, FrameFits
<1>3. HandleFits(handle, nest, owned, destroyed, h) /\ handle[h].held \in {"unmade", "object", "lent"}
  BY <1>1 DEF HandInv, HandleOf
<1>4. CASE handle[h].held = "lent"
  <2>1. PICK m \in 1 .. Len(nest) : LenderHas(nest, owned, m, nest[i].target)
    BY <1>2, <1>3, <1>4 DEF HandleFits
  <2>2. CASE nest[i].target \in owned
    BY <1>1, <1>2, <2>2 DEF HandInv, HandsTyped
  <2>3. CASE nest[i].target \notin owned
    <3>1. PICK k \in 1 .. m - 1 : LendsOn(nest[k], nest[i].target)
      BY <2>1, <2>3 DEF LenderHas
    <3>2. PICK j \in 1 .. Len(nest[k].prepared) :
            nest[k].prepared[j].as = "lent" /\ nest[k].prepared[j].thing = nest[i].target
      BY <3>1 DEF LendsOn
    <3>3. KeptFits(handle, nest, owned, destroyed, nest[k].prepared[j])
      BY <1>1, <3>2 DEF HandInv, ArgsFit, ArgFits, IsKept
    <3> QED BY <1>2, <3>2, <3>3 DEF KeptFits
  <2> QED BY <2>2, <2>3
<1> QED BY <1>2, <1>3, <1>4 DEF HandleFits

LEMMA LentIsHad == ASSUME HandingInv PROVE LentStays
<1>1. HandInv(handle, nest, owned, destroyed) /\ nest \in Seq(FrameOf)
  BY DEF HandingInv, HandInv, HandsTyped
<1> SUFFICES ASSUME NEW h \in HandleIds, handle[h].held = "lent", handle[h].thing # NoThing
             PROVE  \E i \in 1 .. Len(nest) :
                      /\ h \in nest[i].lent
                      /\ \/ handle[h].thing \in owned
                         \/ \E j \in 1 .. i - 1 : nest[j].is = "running"
                                                  /\ handle[h].thing \in ThingsAs({"lent"}, nest[j].prepared)
  BY <1>1 DEF LentStays
<1>2. PICK i \in 1 .. Len(nest) : h \in nest[i].lent /\ LenderHas(nest, owned, i, handle[h].thing)
  BY <1>1 DEF HandInv, HandleFits
<1>3. ASSUME NEW k \in 1 .. i - 1, LendsOn(nest[k], handle[h].thing)
      PROVE  handle[h].thing \in ThingsAs({"lent"}, nest[k].prepared)
  <2>1. PICK args \in Seq(ArgOf) : args = nest[k].prepared
    BY <1>1, FramesAre
  <2> QED BY <1>3, <2>1 DEF LendsOn, ThingsAs
<1> QED BY <1>2, <1>3 DEF LenderHas

LEMMA HomeWaits == ASSUME HandingInv PROVE HomeIsFree
<1>1. HandInv(handle, nest, owned, destroyed) /\ nest \in Seq(FrameOf) /\ handle \in [HandleIds -> HandleOf]
  BY DEF HandingInv, HandInv, HandsTyped
<1> SUFFICES ASSUME NEW i \in 1 .. Len(nest), NEW j \in KeptArgs(nest[i].prepared),
                    nest[i].prepared[j].home # NoHome
             PROVE  /\ handle[nest[i].prepared[j].home] = OfObject(NoThing)
                    /\ ~Borrowed(nest[i].prepared[j].home)
  BY <1>1 DEF HomeIsFree
<1>2. PICK args \in Seq(ArgOf) : args = nest[i].prepared
  BY <1>1, FramesAre
<1>3. j \in 1 .. Len(args) /\ IsKept(args[j])
  BY <1>2, KeptArgsIs
<1>4. args[j] \in ArgOf
  BY <1>3, ElementOfSeq
<1>5. PICK h \in HandleIds : h = args[j].home
  BY <1>2, <1>4 DEF ArgOf
<1>6. handle[h].held = "object" /\ handle[h].thing = NoThing /\ ~RunsOn(nest, h)
  BY <1>2, <1>1, <1>3, <1>5 DEF KeptFits, HandInv, ArgsFit, ArgFits
<1>7. handle[h] = OfObject(NoThing)
  <2>1. PICK r \in HandleOf : r = handle[h]
    BY <1>1
  <2> QED BY <1>6, <2>1 DEF OfObject, HandleOf
<1> QED BY <1>1, <1>2, <1>5, <1>6, <1>7, RunsIs

\* Objects that cross to scripts and back have one owner, stay where a method
\* runs on them, are lent no longer than they may be, and find the handle they
\* came from free (calling.rs, calls.rs and served.rs; run outside).
THEOREM ObjectsAreHanded == HandingInit /\ [][HandingNext]_handingvars => []HandingIsSound
<1> USE HandingAssumption
<1>1. HandingInit => HandingInv
  <2> SUFFICES ASSUME HandingInit PROVE HandInv(handle, nest, owned, destroyed)
    BY DEF HandingInv
  <2>1. /\ nest = <<>> /\ owned = HostThings /\ destroyed = {}
        /\ handle = [h \in HandleIds |-> NoHandle]
    BY DEF HandingInit
  <2>2. Len(nest) = 0 /\ nest \in Seq(FrameOf) /\ \A i \in 1 .. Len(nest) : FALSE
    BY <2>1
  <2>3. handle \in [HandleIds -> HandleOf] /\ \A h \in HandleIds : handle[h].held = "unmade" /\ handle[h].thing = NoThing
    BY <2>1 DEF NoHandle, HandleOf
  <2>4. HandsTyped(handle, nest, owned, destroyed)
    BY <2>1, <2>2, <2>3 DEF HandsTyped, Things
  <2>5. ASSUME NEW h \in HandleIds PROVE HandleFits(handle, nest, owned, destroyed, h)
    BY <2>3 DEF HandleFits
  <2>6. ArgsFit(handle, nest, owned, destroyed) /\ ArgsApart(nest)
    BY <2>2 DEF ArgsFit, ArgsApart
  <2>7. ASSUME NEW o \in HostThings PROVE Somewhere(handle, nest, owned, destroyed, o)
    BY <2>1 DEF Somewhere
  <2> QED BY <2>2, <2>4, <2>5, <2>6, <2>7 DEF HandInv
<1>2. HandingInv /\ [HandingNext]_handingvars => HandingInv'
  BY HandingStep
<1>3. HandingInv => HandingIsSound
  BY OneOwner, CalledIsThere, LentIsHad, HomeWaits DEF HandingIsSound
<1> QED BY <1>1, <1>2, <1>3, PTL

=============================================================================
