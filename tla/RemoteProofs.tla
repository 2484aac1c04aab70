---------------------------- MODULE RemoteProofs ----------------------------
(***************************************************************************)
(* The safety of a remote link's two sides, for any links, libraries and   *)
(* bounds.                                                                 *)
(*                                                                         *)
(* The invariant is in parts that read few variables each, so that a step  *)
(* disturbs few of them: the links being set up and ended (Settled), the   *)
(* registry served and its stamps (Stocked, Told), the frames under way    *)
(* (Carried), the client (ClientIs, Counted, KeepsOne) and what its        *)
(* registry has open (Held).                                              *)
(***************************************************************************)
EXTENDS Remote, FiniteSetTheorems, SequenceTheorems, TLAPS

\* Server::serve, before the link is there and after.
Before == {"none", "accepted", "read", "kept", "shaking", "failed"}
After == {"shaken", "held", "inserted", "looked", "served"}

\* The variables of the parts.
setting == <<scope, setup, up, shut, parting>>

SettledTypes ==
  /\ scope \in Scopes
  /\ conn \in [Links -> Before \cup After]
  /\ seen \in [Links -> Nat] /\ ends \in Nat
  /\ up \subseteq Links /\ shut \subseteq Links
  /\ live \subseteq Links /\ handshaking \subseteq Links /\ due \subseteq Links
  /\ parting \in [Links -> SUBSET {"opened", "live"}]
  /\ ender \in [pc : {"idle", "counted", "ending", "closing"}, links : SUBSET Links]

\* A link lives once its handshake is over; what ended does not live again.
LivesOnce ==
  /\ \A l \in up : conn[l] \in After /\ parting[l] = {}
  /\ \A l \in Links : parting[l] # {} => conn[l] \in After

\* A link that lives and was kept is in `live`, or end_links is about to end it;
\* one that ended leaves `live` by its end, or was never kept.
KeptWhileLive ==
  /\ \A l \in up : conn[l] \in {"inserted", "looked", "served"} =>
       l \in live \/ (ender.pc = "ending" /\ l \in ender.links)
  /\ \A l \in live \ up : conn[l] = "served" => parting[l] # {}

\* end_links misses nobody that was being served when it began: who comes to
\* look at `ends` after it finds it changed, and all others it comes to.
SeenInTime ==
  /\ \A l \in Links : seen[l] <= ends
  /\ \A l \in due : conn[l] \notin {"none", "accepted"} /\ seen[l] < ends
  /\ \A l \in due \cap up : conn[l] \in {"looked", "served"} =>
       \/ ender.pc = "counted" /\ l \in live
       \/ ender.pc = "ending" /\ l \in ender.links
  /\ scope.closer =>
       /\ \A l \in Links : conn[l] \in {"kept", "shaking", "shaken"} => l \in handshaking
       /\ \A l \in due \ shut : conn[l] = "shaking" =>
            ender.pc \in {"counted", "ending"} \/ (ender.pc = "closing" /\ l \in ender.links)

Settled == SettledTypes /\ LivesOnce /\ KeptWhileLive /\ SeenInTime

\* The registry's counts: a library registered is the last load of it, and each
\* generation counted or still to be counted is of a load.
Stocked ==
  /\ scope \in Scopes
  /\ uncounted \in [Refreshers -> SUBSET Libraries]
  /\ loaded \in [Libraries -> Nat] /\ loads \in [Libraries -> Nat] /\ generation \in [Libraries -> Nat]
  /\ \A b \in Libraries :
       /\ loads[b] <= scope.loads
       /\ loaded[b] \in {0, loads[b]}
       /\ generation[b] + Cardinality(Uncounted(b)) <= loads[b]

\* A stamp listed or held is one there was; what is held under the stamp of the
\* generation counted now is the last load.
Tells(stamp, load) ==
  /\ stamp.generation <= generation[stamp.lib]
  /\ load \in 1 .. loads[stamp.lib]
  /\ stamp.generation = generation[stamp.lib] /\ Uncounted(stamp.lib) = {} => load = loads[stamp.lib]

Told ==
  /\ \A l \in Links : \A h \in opened[l] : Tells(h.stamp, h.load)
  /\ \A j \in jobs : j.load # 0 => Tells(j.stamp, j.load)

\* The frames, the requests and the answers.
ListOrOpen == [op : {"list"}, call : CallIds, stamp : {None}] \cup [op : {"open"}, call : CallIds, stamp : Stamps]
Frames == ListOrOpen \cup [op : {"close"}, call : {0}, stamp : Stamps]
Jobs ==
  [link : Links, op : {"list"}, call : CallIds, stamp : {None}, load : {0}]
    \cup [link : Links, op : {"open"}, call : CallIds, stamp : Stamps, load : 0 .. scope.loads]

OneEach(listing) == \A s, t \in listing : s.lib = t.lib => s = t
Catalogs == {c \in SUBSET Stamps : OneEach(c)}

Carried ==
  /\ opened \in [Links -> SUBSET [stamp : Stamps, load : 1 .. scope.loads]]
  /\ wire \in [Links -> Seq(Frames)]
  /\ jobs \subseteq Jobs
  /\ replies \in [Links -> SUBSET [call : CallIds, is : {"ok", "refused"}, catalog : Catalogs]]

\* The client.
Steps == {"idle", "look", "connect", "shake", "keep", "list", "listing", "opens", "opening"}
Opened == [stamp : Stamps, generation : Nat \ {0}, link : Links,
           state : {"opening", "serving", "retired", "closed"}]

ClientIs ==
  /\ clientUp \subseteq Links /\ doomed \subseteq Links
  /\ current \in [link : Links \cup {None}, generation : Nat, saw : Nat, libraries : Catalogs]
  /\ current.link = None => current = NoCurrent
  /\ disconnects \in Nat
  /\ step \in [Threads -> Steps]
  /\ at \in [Threads -> Links \cup {None}]
  /\ \A t \in Threads : step[t] \in {"shake", "keep", "list", "listing", "opening"} => at[t] \in Links
  /\ \A t \in Threads \ {"registry"} : step[t] \in {"idle", "look", "connect", "shake", "keep"}
  /\ saw \in [Threads -> Nat]
  /\ awaited \in CallIds \cup {0}
  /\ step["registry"] \in {"listing", "opening"} => awaited # 0
  /\ todo \subseteq Listings
  /\ tried \in [Libraries -> Listings \cup {None}]
  /\ inst \in [Opens -> {Unused} \cup Opened]

\* A generation is given to a link that is no longer being made.
Making == {at[t] : t \in {x \in Threads : step[x] \in {"shake", "keep"}}}
Made == {l \in Links : conn[l] # "none"} \ Making

Counted ==
  /\ generations \in Nat
  /\ \A t \in Threads : step[t] \in {"shake", "keep"} => conn[at[t]] # "none"
  /\ \A t, u \in Threads :
       step[t] \in {"shake", "keep"} /\ step[u] \in {"shake", "keep"} /\ at[t] = at[u] => t = u
  /\ generations <= Cardinality(Made)
  /\ current.link # None => current.generation \in 1 .. generations
  /\ \A o \in Opens : inst[o].state # "unused" => inst[o].generation <= generations

KeepsOne == OneLink /\ NoneKeptPastDisconnect

\* A candidate still to be opened is one of the catalog of the peer's link, or
\* the peer has another link that lists nothing yet.
TodoIsListed ==
  /\ todo # {} => step["registry"] \in {"opens", "opening"}
  /\ \A c \in todo : current.libraries # {} =>
       c.generation = current.generation /\ c.stamp \in current.libraries

\* A generation names its link.
GenerationNamesLink ==
  \A o \in Opens : inst[o].state # "unused" /\ inst[o].generation = current.generation =>
    inst[o].link = current.link

OpeningIsOne ==
  /\ \A o, p \in Opens : inst[o].state = "opening" /\ inst[p].state = "opening" => o = p
  /\ \A o \in Opens : inst[o].state = "opening" =>
       step["registry"] = "opening" /\ inst[o].link = at["registry"]
  /\ step["registry"] = "opening" => \E o \in Opens : inst[o].state = "opening"

\* The registry has closed a library it had opened over l under this stamp.
ClosedUnder(l, stamp) ==
  \E p \in Opens : inst[p].state = "closed" /\ inst[p].link = l /\ inst[p].stamp = stamp

\* The peer holds something for link l under this stamp.
HoldsUnder(l, stamp) == \E h \in opened[l] : h.stamp = stamp

Filed(o) ==
  inst[o].link \in up => \/ ClosedUnder(inst[o].link, inst[o].stamp)
                         \/ HoldsUnder(inst[o].link, inst[o].stamp)

\* A CLOSE is of a library the registry closed.
ClosesTell ==
  \A l \in Links : \A i \in 1 .. Len(wire[l]) :
    wire[l][i].op = "close" => ClosedUnder(l, wire[l][i].stamp)

\* What has the id of the OPEN awaited is that OPEN or its answer; answered well,
\* the library is held.
Asks(o) ==
  /\ \A i \in 1 .. Len(wire[inst[o].link]) :
       wire[inst[o].link][i].call = awaited =>
         wire[inst[o].link][i].op = "open" /\ wire[inst[o].link][i].stamp = inst[o].stamp
  /\ \A j \in jobs : j.link = inst[o].link /\ j.call = awaited =>
       j.op = "open" /\ j.stamp = inst[o].stamp
  /\ \A r \in replies[inst[o].link] : r.call = awaited /\ r.is = "ok" => Filed(o)

AnswersTell ==
  /\ ClosesTell
  /\ \A o \in Opens : inst[o].state = "opening" => Asks(o)
  /\ \A o \in Opens : inst[o].state \in {"serving", "retired"} => Filed(o)

\* What has been asked over a link was asked once its handshake was over.
AskedAfter ==
  /\ \A l \in Links : replies[l] # {} => conn[l] \in After
  /\ \A j \in jobs : conn[j.link] \in After
  /\ \A o \in Opens : inst[o].state \in {"serving", "retired"} => conn[inst[o].link] \in After

Held == TodoIsListed /\ GenerationNamesLink /\ OpeningIsOne /\ AnswersTell /\ AskedAfter

RemInv == Settled /\ Stocked /\ Carried /\ ClientIs /\ Counted /\ KeepsOne /\ Held

-----------------------------------------------------------------------------
(* Setting links up and ending them.                                       *)

LEMMA SettledFirst == Init => Settled
  BY RemoteAssumption DEF Init, ServerInit, Settled, SettledTypes, LivesOnce, KeptWhileLive, SeenInTime,
     Before, After

\* What reads none of the links' state leaves it as it is.
LEMMA SettledAlone == Settled /\ UNCHANGED setting => Settled'
  BY DEF Settled, SettledTypes, LivesOnce, KeptWhileLive, SeenInTime, setting, setup

\* A step of Server::serve on one connection.
LEMMA SettledServe ==
  ASSUME Settled, NEW l \in Links,
         \/ ServeReads(l) \/ KeepCloser(l) \/ LookAgain(l) \/ Shaken(l) \/ ShakeFails(l)
         \/ DropHeld(l) \/ KeepLink(l) \/ DropEnded(l)
  PROVE  Settled'
<1> USE DEF Settled, SettledTypes, LivesOnce, KeptWhileLive, SeenInTime, registry, Before, After
<1>1. CASE ServeReads(l)
  BY <1>1 DEF ServeReads
<1>2. CASE KeepCloser(l)
  BY <1>2 DEF KeepCloser
<1>3. CASE LookAgain(l)
  BY <1>3 DEF LookAgain
<1>4. CASE Shaken(l)
  BY <1>4 DEF Shaken
<1>5. CASE ShakeFails(l)
  BY <1>5 DEF ShakeFails
<1>6. CASE DropHeld(l)
  BY <1>6 DEF DropHeld
<1>7. CASE KeepLink(l)
  BY <1>7 DEF KeepLink
<1>8. CASE DropEnded(l)
  BY <1>8 DEF DropEnded
<1> QED BY <1>1, <1>2, <1>3, <1>4, <1>5, <1>6, <1>7, <1>8

\* A link's end, by its reader or from another thread.
LEMMA SettledEnds ==
  ASSUME Settled, NEW l \in Links,
         EndMissed(l) \/ LinkEnds(l) \/ EndedOpened(l) \/ EndedLive(l) \/ EndOne(l)
  PROVE  Settled'
<1> USE DEF Settled, SettledTypes, LivesOnce, KeptWhileLive, SeenInTime, registry, Before, After,
            UpWithout, ShutWith, PartingWith
<1>1. CASE EndMissed(l)
  BY <1>1 DEF EndMissed
<1>2. CASE LinkEnds(l)
  BY <1>2 DEF LinkEnds, setup
<1>3. CASE EndedOpened(l)
  BY <1>3 DEF EndedOpened, setup
<1>4. CASE EndedLive(l)
  BY <1>4 DEF EndedLive
<1>5. CASE EndOne(l)
  BY <1>5 DEF EndOne
<1> QED BY <1>1, <1>2, <1>3, <1>4, <1>5

\* The other steps of Server::end_links.
LEMMA SettledEnder ==
  ASSUME Settled, \/ EndLinks \/ TakeLive \/ TakeClosers \/ EndLinksReturns
                  \/ \E l \in Links : CloseOne(l)
  PROVE  Settled'
<1> USE RemoteAssumption DEF Settled, SettledTypes, LivesOnce, KeptWhileLive, SeenInTime, registry, Before, After
<1>1. CASE EndLinks
  BY <1>1 DEF EndLinks
<1>2. CASE TakeLive
  BY <1>2 DEF TakeLive
<1>3. CASE TakeClosers
  BY <1>3 DEF TakeClosers
<1>4. CASE EndLinksReturns
  BY <1>4 DEF EndLinksReturns
<1>5. ASSUME NEW l \in Links, CloseOne(l) PROVE Settled'
  BY <1>5 DEF CloseOne
<1> QED BY <1>1, <1>2, <1>3, <1>4, <1>5

\* What the client does to a connection.
LEMMA SettledClient ==
  ASSUME Settled, ClientIs,
         \/ \E t \in Threads : ClientShakeFails(t) \/ \E l \in Links : Connect(t, l)
         \/ \E l \in Links : EndDoomed(l)
  PROVE  Settled'
<1> USE DEF Settled, SettledTypes, LivesOnce, KeptWhileLive, SeenInTime, registry, Before, After
<1>1. ASSUME NEW t \in Threads, ClientShakeFails(t) PROVE Settled'
  BY <1>1 DEF ClientShakeFails, setup, ClientIs
<1>2. ASSUME NEW t \in Threads, NEW l \in Links, Connect(t, l) PROVE Settled'
  BY <1>2 DEF Connect
<1>3. ASSUME NEW l \in Links, EndDoomed(l) PROVE Settled'
  BY <1>3 DEF EndDoomed, setup
<1> QED BY <1>1, <1>2, <1>3

-----------------------------------------------------------------------------
(* The registry served, and its stamps.                                    *)

LEMMA StockedFirst == Init => Stocked /\ Told
<1> SUFFICES ASSUME Init PROVE Stocked /\ Told
  OBVIOUS
<1>1. \A b \in Libraries : Cardinality(Uncounted(b)) = 0
  <2> SUFFICES ASSUME NEW b \in Libraries PROVE Cardinality(Uncounted(b)) = 0
    OBVIOUS
  <2>1. Uncounted(b) = {}
    BY DEF Init, ServerInit, Uncounted
  <2> QED BY <2>1, FS_EmptySet
<1>2. Stocked
  BY <1>1, RemoteAssumption DEF Init, ServerInit, Stocked
<1>3. Told
  BY DEF Init, ServerInit, Told
<1> QED BY <1>2, <1>3

LEMMA StockedAlone == Stocked /\ UNCHANGED registry => Stocked'
  BY DEF Stocked, registry, Uncounted

\* How many refreshes have a library still to count is a number.
LEMMA UncountedIs ==
  ASSUME NEW b PROVE IsFiniteSet(Uncounted(b)) /\ Cardinality(Uncounted(b)) \in Nat
<1>1. Uncounted(b) \subseteq Refreshers
  BY DEF Uncounted
<1> HIDE DEF Uncounted
<1> QED BY <1>1, RemoteAssumption, FS_Subset, FS_CardinalityType

LEMMA CountedIsLoaded ==
  ASSUME Stocked, NEW b \in Libraries PROVE generation[b] <= loads[b]
BY UncountedIs DEF Stocked

LEMMA StockedRefresh ==
  ASSUME Stocked, NEW t \in Refreshers, NEW new \in SUBSET Libraries, NEW gone \in SUBSET Libraries,
         Refresh(t, new, gone)
  PROVE  Stocked'
<1>1. /\ uncounted \in [Refreshers -> SUBSET Libraries] /\ uncounted[t] = {}
      /\ uncounted' = [uncounted EXCEPT ![t] = new]
      /\ scope' = scope /\ generation' = generation
  BY DEF Stocked, Refresh
<1>2. uncounted' \in [Refreshers -> SUBSET Libraries]
  BY <1>1
<1>3. ASSUME NEW b \in Libraries PROVE generation'[b] + Cardinality(Uncounted(b)') <= loads'[b]
  <2> DEFINE U == Uncounted(b)
             V == Uncounted(b)'
  <2>1. t \notin U /\ V = IF b \in new THEN U \cup {t} ELSE U
    BY <1>1 DEF Uncounted
  <2>2. IsFiniteSet(U) /\ Cardinality(U) \in Nat
    BY UncountedIs
  <2>3. generation[b] + Cardinality(U) <= loads[b] /\ generation[b] \in Nat /\ loads[b] \in Nat
    BY DEF Stocked
  <2>4. loads'[b] = loads[b] + IF b \in new THEN 1 ELSE 0
    BY DEF Refresh
  <2> HIDE DEF U, V
  <2>5. Cardinality(V) = Cardinality(U) + IF b \in new THEN 1 ELSE 0
    <3>1. CASE b \in new
      BY <2>1, <2>2, <3>1, FS_AddElement
    <3>2. CASE b \notin new
      BY <2>1, <2>2, <3>2
    <3> QED BY <3>1, <3>2
  <2>6. generation'[b] + Cardinality(V) <= loads'[b]
    BY <1>1, <2>2, <2>3, <2>4, <2>5
  <2> QED BY <2>6 DEF V
<1>4. loads' \in [Libraries -> Nat] /\ loaded' \in [Libraries -> Nat]
  BY DEF Stocked, Refresh
<1>5. ASSUME NEW b \in Libraries PROVE loads'[b] <= scope.loads /\ loaded'[b] \in {0, loads'[b]}
  BY RemoteAssumption, <1>5 DEF Stocked, Refresh
<1> QED BY <1>1, <1>2, <1>3, <1>4, <1>5 DEF Stocked

LEMMA StockedCounts ==
  ASSUME Stocked, NEW t \in Refreshers, CountRefreshed(t)
  PROVE  Stocked'
<1>1. /\ uncounted \in [Refreshers -> SUBSET Libraries] /\ uncounted' = [uncounted EXCEPT ![t] = {}]
      /\ UNCHANGED <<scope, loaded, loads>>
  BY DEF Stocked, CountRefreshed
<1>2. uncounted' \in [Refreshers -> SUBSET Libraries]
  BY <1>1
<1>3. ASSUME NEW b \in Libraries PROVE generation'[b] + Cardinality(Uncounted(b)') <= loads[b]
  <2> DEFINE U == Uncounted(b)
             V == Uncounted(b)'
  <2>1. V = U \ {t} /\ (t \in U <=> b \in uncounted[t])
    BY <1>1 DEF Uncounted
  <2>2. IsFiniteSet(U) /\ Cardinality(U) \in Nat
    BY UncountedIs
  <2>3. generation[b] + Cardinality(U) <= loads[b] /\ generation[b] \in Nat /\ loads[b] \in Nat
    BY DEF Stocked
  <2>4. generation'[b] = generation[b] + IF b \in uncounted[t] THEN 1 ELSE 0
    BY DEF CountRefreshed
  <2> HIDE DEF U, V
  <2>5. Cardinality(V) = Cardinality(U) - IF t \in U THEN 1 ELSE 0
    <3>1. CASE t \in U
      BY <2>1, <2>2, <3>1, FS_RemoveElement
    <3>2. CASE t \notin U
      <4>1. V = U
        BY <2>1, <3>2
      <4> QED BY <2>2, <3>2, <4>1
    <3> QED BY <3>1, <3>2
  <2>6. generation'[b] + Cardinality(V) <= loads[b]
    BY <2>1, <2>2, <2>3, <2>4, <2>5
  <2> QED BY <2>6 DEF V
<1>4. generation' \in [Libraries -> Nat]
  BY DEF Stocked, CountRefreshed
<1> QED BY <1>1, <1>2, <1>3, <1>4 DEF Stocked

LEMMA StockedChanging == ASSUME Stocked, Changing PROVE Stocked'
<1>1. ASSUME NEW b \in Libraries, LoadThrough(b) PROVE Stocked'
  <2>1. /\ scope' = scope /\ generation' = generation /\ uncounted' = uncounted
        /\ loads' = [loads EXCEPT ![b] = @ + 1] /\ loaded' = [loaded EXCEPT ![b] = loads[b] + 1]
        /\ loads[b] < scope.loads
    BY <1>1 DEF LoadThrough
  <2>2. ASSUME NEW d \in Libraries PROVE /\ generation[d] + Cardinality(Uncounted(d)') <= loads'[d]
                                         /\ loads'[d] <= scope.loads /\ loaded'[d] \in {0, loads'[d]}
    <3>1. Uncounted(d)' = Uncounted(d)
      BY <2>1 DEF Uncounted
    <3> QED BY <2>1, <3>1, UncountedIs, RemoteAssumption DEF Stocked
  <2> QED BY <2>1, <2>2 DEF Stocked
<1>2. ASSUME NEW b \in Libraries, RetireThrough(b) PROVE Stocked'
  BY <1>2 DEF RetireThrough, Stocked, Uncounted
<1> QED BY <1>1, <1>2, StockedRefresh, StockedCounts DEF Changing

\* A catalog lists each library once.
LEMMA CatalogIs == ASSUME Stocked PROVE Catalog \in Catalogs
<1>1. ASSUME NEW s \in Catalog
      PROVE  s \in Stamps /\ s.generation = generation[s.lib] /\ loaded[s.lib] # 0
             /\ s = [lib |-> s.lib, generation |-> generation[s.lib]]
  BY RemoteAssumption, CountedIsLoaded DEF Catalog, Stamp, Stamps, Stocked
<1>2. Catalog \subseteq Stamps
  BY <1>1
<1>3. OneEach(Catalog)
  BY <1>1 DEF OneEach
<1> QED BY <1>2, <1>3 DEF Catalogs

LEMMA CatalogTells ==
  ASSUME Stocked, NEW s \in Catalog
  PROVE  /\ s \in Stamps /\ s.lib \in Libraries
         /\ s.generation = generation[s.lib]
         /\ loaded[s.lib] = loads[s.lib] /\ loaded[s.lib] \in 1 .. scope.loads
  BY RemoteAssumption, CountedIsLoaded DEF Catalog, Stamp, Stamps, Stocked

\* Loading and counting, of one stamp and load.
LEMMA TellsChanging ==
  ASSUME Stocked, ~Reloads, Changing, NEW stamp \in Stamps, NEW load, Tells(stamp, load)
  PROVE  Tells(stamp, load)'
<1> USE RemoteAssumption DEF Tells
<1>0. stamp.lib \in Libraries /\ stamp.generation \in Nat
  BY DEF Stamps
<1> HIDE DEF Stamps
<1> USE DEF Stocked, Uncounted
<1>1. ASSUME NEW t \in Refreshers, NEW new \in SUBSET Libraries, NEW gone \in SUBSET Libraries,
             Refresh(t, new, gone)
      PROVE  Tells(stamp, load)'
  BY <1>0, <1>1 DEF Refresh
<1>2. ASSUME NEW t \in Refreshers, CountRefreshed(t) PROVE Tells(stamp, load)'
  BY <1>0, <1>2 DEF CountRefreshed
<1>3. ASSUME NEW b \in Libraries, LoadThrough(b) PROVE Tells(stamp, load)'
  BY <1>0, <1>3 DEF LoadThrough
<1>4. ASSUME NEW b \in Libraries, RetireThrough(b) PROVE Tells(stamp, load)'
  BY <1>0, <1>4 DEF RetireThrough
<1> QED BY <1>1, <1>2, <1>3, <1>4 DEF Changing

LEMMA TellsAlone ==
  ASSUME NEW stamp, NEW load, Tells(stamp, load), UNCHANGED registry
  PROVE  Tells(stamp, load)'
  BY DEF Tells, registry, Uncounted

LEMMA ToldChanging == ASSUME Stocked, Told, Carried, ~Reloads, Changing PROVE Told'
<1>1. opened' = opened /\ jobs' = jobs
  BY DEF Changing, Refresh, CountRefreshed, LoadThrough, RetireThrough, traffic
<1>2. ASSUME NEW l \in Links, NEW h \in opened[l] PROVE Tells(h.stamp, h.load)'
  BY TellsChanging DEF Carried, Told
<1>3. ASSUME NEW j \in jobs, j.load # 0 PROVE Tells(j.stamp, j.load)'
  BY <1>3, RemoteAssumption, TellsChanging DEF Carried, Told, Jobs
<1> QED BY <1>1, <1>2, <1>3 DEF Told

\* What holds what was held, on the same registry.
LEMMA ToldShrinks ==
  ASSUME Told, UNCHANGED registry,
         \A l \in Links : \A h \in opened'[l] : Tells(h.stamp, h.load),
         \A j \in jobs' : j.load # 0 => Tells(j.stamp, j.load)
  PROVE  Told'
  BY DEF Told, Tells, registry, Uncounted

LEMMA ToldAlone == Told /\ UNCHANGED <<registry, opened, jobs>> => Told'
  BY DEF Told, Tells, registry, Uncounted

LEMMA ToldAnswering == ASSUME Stocked, Told, Carried, Answering PROVE Told'
<1>0. ASSUME UNCHANGED registry, NEW j \in jobs, jobs' = jobs \ {j}, opened' = opened PROVE Told'
  BY <1>0, ToldShrinks DEF Told
<1>1. ASSUME NEW l \in Links, NEW busy \in BOOLEAN, Route(l, busy) PROVE Told'
  <2>1. \A m \in Links : opened'[m] \subseteq opened[m]
    BY <1>1 DEF Route, Close, Carried
  <2>2. \A j \in jobs' : j \in jobs \/ j.load = 0
    BY <1>1 DEF Route
  <2>3. UNCHANGED registry
    BY <1>1 DEF Route
  <2> QED BY <2>1, <2>2, <2>3, ToldShrinks DEF Told
<1>2. ASSUME NEW j \in jobs, AnswerList(j) PROVE Told'
  BY <1>0, <1>2 DEF AnswerList
<1>3. ASSUME NEW j \in jobs, Hold(j) PROVE Told'
  <2>1. CASE j.stamp \notin Catalog
    BY <1>0, <1>3, <2>1 DEF Hold
  <2>2. CASE j.stamp \in Catalog
    <3>1. j.stamp \in Stamps
      BY <2>2, CatalogTells
    <3> DEFINE k == [j EXCEPT !.load = loaded[j.stamp.lib]]
    <3>2. j \in Jobs
      BY DEF Carried
    <3>3. Tells(k.stamp, k.load)
      BY <2>2, CatalogTells, RemoteAssumption, <3>2 DEF Jobs, Tells, Stocked
    <3>4. jobs' = (jobs \ {j}) \cup {k} /\ opened' = opened /\ UNCHANGED registry
      BY <1>3, <2>2 DEF Hold
    <3> HIDE DEF k
    <3> QED BY <3>3, <3>4, ToldShrinks DEF Told
  <2> QED BY <2>1, <2>2
<1>4. ASSUME NEW j \in jobs, FileOpen(j) PROVE Told'
  <2>1. Tells(j.stamp, j.load)
    BY <1>4 DEF FileOpen, Told
  <2> DEFINE h == [stamp |-> j.stamp, load |-> j.load]
  <2>2. h.stamp = j.stamp /\ h.load = j.load
    OBVIOUS
  <2>3. \A l \in Links : opened'[l] \subseteq opened[l] \cup {h}
    BY <1>4 DEF FileOpen, Carried
  <2>4. jobs' \subseteq jobs /\ UNCHANGED registry
    BY <1>4 DEF FileOpen
  <2> HIDE DEF h
  <2> QED BY <2>1, <2>2, <2>3, <2>4, ToldShrinks DEF Told
<1> QED BY <1>1, <1>2, <1>3, <1>4 DEF Answering

-----------------------------------------------------------------------------
(* The frames under way.                                                   *)

Replies == [call : CallIds, is : {"ok", "refused"}, catalog : Catalogs]
Kept == [stamp : Stamps, load : 1 .. scope.loads]

LEMMA CarriedFirst == Init => Carried
<1> SUFFICES ASSUME Init PROVE Carried
  OBVIOUS
<1>1. <<>> \in Seq(Frames)
  OBVIOUS
<1>2. opened = [l \in Links |-> {}] /\ wire = [l \in Links |-> <<>>] /\ jobs = {} /\ replies = [l \in Links |-> {}]
  BY DEF Init, ServerInit
<1> QED BY <1>1, <1>2 DEF Carried

\* The bounds stay, so what a frame may be does.
LEMMA SameFrames ==
  ASSUME scope' = scope
  PROVE  /\ Stamps' = Stamps /\ Frames' = Frames /\ Jobs' = Jobs /\ Catalogs' = Catalogs
         /\ Listings' = Listings /\ Replies' = Replies /\ Kept' = Kept /\ Opened' = Opened
<1>1. Stamps' = Stamps
  BY DEF Stamps
<1>2. Catalogs' = Catalogs
  BY <1>1 DEF Catalogs, OneEach
<1> QED BY <1>1, <1>2 DEF Frames, ListOrOpen, Jobs, Listings, Replies, Kept, Opened

LEMMA CarriedAlone == Carried /\ UNCHANGED <<scope, traffic>> => Carried'
  BY SameFrames DEF Carried, traffic

\* Frames, requests and answers that are what they may be.
LEMMA CarriedParts ==
  ASSUME scope' = scope,
         opened' \in [Links -> SUBSET Kept], wire' \in [Links -> Seq(Frames)],
         jobs' \subseteq Jobs, replies' \in [Links -> SUBSET Replies]
  PROVE  Carried'
<1>1. /\ opened' \in [Links -> SUBSET Kept'] /\ wire' \in [Links -> Seq(Frames')]
      /\ jobs' \subseteq Jobs' /\ replies' \in [Links -> SUBSET Replies']
  BY SameFrames
<1> QED BY <1>1 DEF Carried, Kept, Replies

LEMMA CarriedIs ==
  ASSUME Carried
  PROVE  /\ opened \in [Links -> SUBSET Kept] /\ wire \in [Links -> Seq(Frames)]
         /\ jobs \subseteq Jobs /\ replies \in [Links -> SUBSET Replies]
  BY DEF Carried, Kept, Replies

\* An answer is one only where the link lives.
LEMMA AnswerIs ==
  ASSUME Carried, NEW j \in Jobs, NEW is \in {"ok", "refused"}, NEW listing \in Catalogs
  PROVE  /\ Answer(j, is, listing) \in [Links -> SUBSET Replies]
         /\ \A l \in Links : \A r \in Answer(j, is, listing)[l] :
              r \in replies[l] \/ (l = j.link /\ r.call = j.call /\ r.is = is /\ l \in up)
<1> DEFINE a == [call |-> j.call, is |-> is, catalog |-> listing]
<1>1. a \in Replies /\ a.call = j.call /\ a.is = is
  BY DEF Replies, Jobs
<1>2. replies \in [Links -> SUBSET Replies]
  BY CarriedIs
<1>3. Answer(j, is, listing) = [l \in Links |-> replies[l] \cup (IF l = j.link /\ l \in up THEN {a} ELSE {})]
  BY DEF Answer
<1> HIDE DEF a, Answer, Replies
<1> QED BY <1>1, <1>2, <1>3

LEMMA NoCatalog == {} \in Catalogs
  BY DEF Catalogs, OneEach

\* The next frame for a link's reader.
LEMMA NextFrame ==
  ASSUME Carried, NEW l \in Links, wire[l] # <<>>
  PROVE  /\ wire[l] \in Seq(Frames) /\ Head(wire[l]) \in Frames /\ Tail(wire[l]) \in Seq(Frames)
         /\ Head(wire[l]) = wire[l][1] /\ Len(wire[l]) \in Nat /\ Len(wire[l]) >= 1
         /\ \A i \in 1 .. Len(Tail(wire[l])) : i + 1 \in 1 .. Len(wire[l]) /\ Tail(wire[l])[i] = wire[l][i + 1]
<1>1. wire[l] \in Seq(Frames)
  BY DEF Carried
<1> HIDE DEF Frames
<1> QED BY <1>1

LEMMA CarriedAnswering == ASSUME Carried, Stocked, Answering PROVE Carried'
<1>0. Carried => /\ opened \in [Links -> SUBSET Kept] /\ wire \in [Links -> Seq(Frames)]
                 /\ jobs \subseteq Jobs /\ replies \in [Links -> SUBSET Replies]
  BY CarriedIs
<1>1. ASSUME NEW l \in Links, NEW busy \in BOOLEAN, Route(l, busy) PROVE Carried'
  <2> DEFINE f == Head(wire[l])
             a == [call |-> f.call, is |-> "refused", catalog |-> {}]
             j == [link |-> l, op |-> f.op, call |-> f.call, stamp |-> f.stamp, load |-> 0]
  <2>1. f \in Frames /\ Tail(wire[l]) \in Seq(Frames)
    BY <1>1, NextFrame DEF Route
  <2>2. scope' = scope
    BY <1>1 DEF Route, registry
  <2>3. wire' \in [Links -> Seq(Frames)]
    BY <1>0, <2>1, <1>1 DEF Route
  <2>4. f.op # "close" => a \in Replies
    BY <2>1, NoCatalog DEF Frames, ListOrOpen, Replies
  <2>5. f.op # "close" => j \in Jobs
    BY <2>1, RemoteAssumption, scope.loads \in Nat DEF Frames, ListOrOpen, Jobs, Stocked
  <2>6. \/ UNCHANGED <<jobs, replies>> /\ opened' = [opened EXCEPT ![l] = Close(l, f.stamp)]
        \/ f.op # "close" /\ UNCHANGED <<opened, jobs>> /\ replies' = [replies EXCEPT ![l] = @ \cup {a}]
        \/ f.op # "close" /\ UNCHANGED <<opened, replies>> /\ jobs' = jobs \cup {j}
    BY <1>1 DEF Route
  <2> HIDE DEF f, a, j, Frames, Jobs, Replies, Kept, Close
  <2>7. /\ opened' \in [Links -> SUBSET Kept] /\ jobs' \subseteq Jobs /\ replies' \in [Links -> SUBSET Replies]
    BY <1>0, <2>4, <2>5, <2>6 DEF Close
  <2> QED BY <2>2, <2>3, <2>7, CarriedParts
<1>2. ASSUME NEW j \in jobs, AnswerList(j) PROVE Carried'
  <2> QED BY <1>0, <1>2, AnswerIs, CatalogIs, CarriedParts DEF AnswerList, registry
<1>3. ASSUME NEW j \in jobs, Hold(j) PROVE Carried'
  <2>1. scope' = scope /\ opened' = opened /\ wire' = wire
    BY <1>3 DEF Hold, registry
  <2>2. CASE j.stamp \notin Catalog
    BY <1>0, <2>1, <1>3, <2>2, AnswerIs, NoCatalog, CarriedParts DEF Hold
  <2>3. CASE j.stamp \in Catalog
    <3> DEFINE k == [j EXCEPT !.load = loaded[j.stamp.lib]]
    <3>1. j \in Jobs /\ j.op = "open"
      BY <1>0, <1>3 DEF Hold
    <3>2. k \in Jobs
      BY <2>3, CatalogTells, <3>1 DEF Jobs
    <3>3. jobs' = (jobs \ {j}) \cup {k} /\ replies' = replies
      BY <1>3, <2>3 DEF Hold
    <3> HIDE DEF k
    <3>4. jobs' \subseteq Jobs
      BY <1>0, <3>2, <3>3
    <3> QED BY <1>0, <2>1, <3>3, <3>4, CarriedParts
  <2> QED BY <2>2, <2>3
<1>4. ASSUME NEW j \in jobs, FileOpen(j) PROVE Carried'
  <2> DEFINE h == [stamp |-> j.stamp, load |-> j.load]
  <2>1. j \in Jobs /\ j.op = "open" /\ j.load # 0
    BY <1>0, <1>4 DEF FileOpen
  <2>2. h \in Kept /\ j.link \in Links
    BY <2>1, RemoteAssumption, scope.loads \in Nat DEF Jobs, Kept, Stocked
  <2>3. \/ opened' = [opened EXCEPT ![j.link] = @]
        \/ opened' = [opened EXCEPT ![j.link] = @ \cup {h}]
    BY <1>4 DEF FileOpen
  <2>4. replies' \in [Links -> SUBSET Replies]
    BY <1>4, <2>1, AnswerIs, NoCatalog DEF FileOpen
  <2>5. scope' = scope /\ wire' = wire /\ jobs' \subseteq jobs
    BY <1>4 DEF FileOpen, registry
  <2> HIDE DEF h, Kept
  <2>6. opened' \in [Links -> SUBSET Kept]
    BY <1>0, <2>2, <2>3
  <2> QED BY <1>0, <2>4, <2>5, <2>6, CarriedParts
<1> QED BY <1>1, <1>2, <1>3, <1>4 DEF Answering

\* A link that ended is asked for nothing more.
LEMMA CarriedEnded == ASSUME Carried, NEW l \in Links, EndedOpened(l) PROVE Carried'
<1>1. /\ opened \in [Links -> SUBSET Kept] /\ wire \in [Links -> Seq(Frames)]
      /\ jobs \subseteq Jobs /\ replies \in [Links -> SUBSET Replies]
  BY CarriedIs
<1>2. /\ scope' = scope /\ jobs' = jobs /\ replies' = replies
      /\ opened' = [opened EXCEPT ![l] = {}] /\ wire' = [wire EXCEPT ![l] = <<>>]
  BY DEF EndedOpened, registry
<1>3. opened' \in [Links -> SUBSET Kept] /\ wire' \in [Links -> Seq(Frames)]
  BY <1>1, <1>2
<1> QED BY <1>1, <1>2, <1>3, CarriedParts

\* What the client sends and takes.
Sent(l, f) == wire' = [wire EXCEPT ![l] = Append(wire[l], f)]
Taken(l, R) == replies' = [replies EXCEPT ![l] = R]

LEMMA CarriedSent ==
  ASSUME Carried, scope' = scope, opened' = opened, jobs' = jobs, replies' = replies,
         NEW l \in Links, NEW f \in Frames, Sent(l, f)
  PROVE  Carried'
<1>1. /\ opened \in [Links -> SUBSET Kept] /\ wire \in [Links -> Seq(Frames)]
      /\ jobs \subseteq Jobs /\ replies \in [Links -> SUBSET Replies]
  BY CarriedIs
<1>2. Append(wire[l], f) \in Seq(Frames)
  <2> HIDE DEF Frames
  <2> QED BY <1>1
<1>3. wire' \in [Links -> Seq(Frames)]
  BY <1>1, <1>2 DEF Sent
<1> QED BY <1>1, <1>3, CarriedParts

LEMMA CarriedTaken ==
  ASSUME Carried, scope' = scope, opened' = opened, jobs' = jobs, wire' = wire,
         NEW l, NEW R, Taken(l, R), R \subseteq replies[l]
  PROVE  Carried'
<1>1. /\ opened \in [Links -> SUBSET Kept] /\ wire \in [Links -> Seq(Frames)]
      /\ jobs \subseteq Jobs /\ replies \in [Links -> SUBSET Replies]
  BY CarriedIs
<1>2. replies' \in [Links -> SUBSET Replies]
  BY <1>1 DEF Taken
<1> QED BY <1>1, <1>2, CarriedParts

\* What the server has read and the client has yet to.
LEMMA CarriedDrop == ASSUME Carried, NEW l, NEW r, DropReply(l, r) PROVE Carried'
<1>1. Taken(l, replies[l] \ {r}) /\ scope' = scope /\ opened' = opened /\ jobs' = jobs /\ wire' = wire
  BY DEF DropReply, Taken, registry
<1> QED BY <1>1, CarriedTaken

\* The registry's refresh.
LEMMA CarriedRefresh == ASSUME Carried, ClientIs, Refreshing PROVE Carried'
<1>1. ASSUME NEW r, Replied(r), UNCHANGED <<registry, opened, jobs, wire>> PROVE Carried'
  BY <1>1, CarriedTaken, replies[at["registry"]] \ {r} \subseteq replies[at["registry"]] DEF Replied, Taken, registry
<1>2. ASSUME Unanswered, UNCHANGED <<registry, opened, jobs, wire>> PROVE Carried'
  BY <1>2, CarriedTaken, {r \in replies[at["registry"]] : r.call # awaited} \subseteq replies[at["registry"]]
     DEF Unanswered, Taken, registry
<1>3. CASE ListFails \/ ListAnswered \/ OpenFails \/ OpenAnswered
  BY <1>1, <1>2, <1>3 DEF ListFails, ListAnswered, OpenFails, OpenAnswered
<1>4. CASE RefreshReturns \/ \E c \in todo : CannotOpen(c)
  BY <1>4, CarriedAlone DEF RefreshReturns, CannotOpen, serverVars, registry, traffic
<1>5. ASSUME NEW id \in CallIds, SendList(id) PROVE Carried'
  <2> DEFINE f == [op |-> "list", call |-> id, stamp |-> None]
  <2>1. f \in Frames
    BY DEF Frames, ListOrOpen
  <2>2. Sent(at["registry"], f) /\ UNCHANGED <<scope, opened, jobs, replies>>
    BY <1>5 DEF SendList, Request, Sent, registry
  <2>3. at["registry"] \in Links
    BY <1>5 DEF SendList, ClientIs
  <2> HIDE DEF f
  <2> QED BY <2>1, <2>2, <2>3, CarriedSent
<1>6. ASSUME NEW id \in CallIds, NEW c \in todo, SendOpen(c, id) PROVE Carried'
  <2>1. PICK s \in current.libraries : Request(current.link, "open", s, id)
    BY <1>6 DEF SendOpen
  <2> DEFINE f == [op |-> "open", call |-> id, stamp |-> s]
  <2>2. s \in Stamps /\ current.link \in Links
    BY <1>6 DEF ClientIs, Catalogs, SendOpen
  <2>3. f \in Frames
    BY <2>2 DEF Frames, ListOrOpen
  <2>4. Sent(current.link, f) /\ UNCHANGED <<scope, opened, jobs, replies>>
    BY <1>6, <2>1 DEF SendOpen, Request, Sent, registry
  <2> HIDE DEF f
  <2> QED BY <2>2, <2>3, <2>4, CarriedSent
<1>7. ASSUME NEW o \in Opens, Collect(o) PROVE Carried'
  <2>1. CASE ~ClosesOver(o)
    BY <1>7, <2>1, CarriedAlone DEF Collect, registry, traffic
  <2>2. CASE ClosesOver(o)
    <3> DEFINE f == [op |-> "close", call |-> 0, stamp |-> inst[o].stamp]
    <3>1. inst[o].stamp \in Stamps /\ current.link \in Links
      BY <1>7, <2>2 DEF ClientIs, Collect, ClosesOver, Unused, Opened
    <3>2. f \in Frames
      BY <3>1 DEF Frames
    <3>3. Sent(current.link, f) /\ UNCHANGED <<scope, opened, jobs, replies>>
      BY <1>7, <2>2 DEF Collect, Sent, registry
    <3> HIDE DEF f
    <3> QED BY <3>1, <3>2, <3>3, CarriedSent
  <2> QED BY <2>1, <2>2
<1> QED BY <1>3, <1>4, <1>5, <1>6, <1>7 DEF Refreshing

-----------------------------------------------------------------------------
(* The client.                                                             *)

LEMMA ClientFirst == Init => ClientIs /\ KeepsOne /\ Counted
<1> SUFFICES ASSUME Init PROVE ClientIs /\ KeepsOne /\ Counted
  OBVIOUS
<1>1. ClientIs
  BY NoCatalog DEF Init, ClientIs, NoCurrent, Steps, Unused, Threads
<1>2. KeepsOne
  BY DEF Init, KeepsOne, OneLink, NoneKeptPastDisconnect, NoCurrent
<1>3. Counted
  <2>1. Made = {}
    BY DEF Init, ServerInit, Made
  <2> QED BY <2>1, FS_EmptySet DEF Init, Counted, NoCurrent, Unused
<1> QED BY <1>1, <1>2, <1>3

LEMMA ClientAlone == ClientIs /\ UNCHANGED <<scope, clientVars>> => ClientIs'
<1> SUFFICES ASSUME ClientIs, UNCHANGED <<scope, clientVars>> PROVE ClientIs'
  OBVIOUS
<1>1. Catalogs' = Catalogs /\ Listings' = Listings /\ Opened' = Opened
  BY SameFrames
<1> QED BY <1>1 DEF ClientIs, clientVars

\* What the registry's side of the client is.
RegistryIs ==
  /\ awaited \in CallIds \cup {0}
  /\ step["registry"] \in {"listing", "opening"} => awaited # 0
  /\ todo \subseteq Listings
  /\ tried \in [Libraries -> Listings \cup {None}]
  /\ inst \in [Opens -> {Unused} \cup Opened]

\* What the threads' side of it is.
LinkingIs ==
  /\ clientUp \subseteq Links /\ doomed \subseteq Links
  /\ current \in [link : Links \cup {None}, generation : Nat, saw : Nat, libraries : Catalogs]
  /\ current.link = None => current = NoCurrent
  /\ disconnects \in Nat
  /\ step \in [Threads -> Steps]
  /\ at \in [Threads -> Links \cup {None}]
  /\ \A t \in Threads : step[t] \in {"shake", "keep", "list", "listing", "opening"} => at[t] \in Links
  /\ \A t \in Threads \ {"registry"} : step[t] \in {"idle", "look", "connect", "shake", "keep"}
  /\ saw \in [Threads -> Nat]

LEMMA ClientHalves ==
  /\ ClientIs <=> LinkingIs /\ RegistryIs
  /\ ClientIs' <=> LinkingIs' /\ RegistryIs'
  BY DEF ClientIs, LinkingIs, RegistryIs

LEMMA RegistryAlone ==
  ASSUME RegistryIs, UNCHANGED <<scope, awaited, todo, tried, inst>>,
         step'["registry"] \in {"listing", "opening"} => step["registry"] \in {"listing", "opening"}
  PROVE  RegistryIs'
<1>1. Listings' = Listings /\ Opened' = Opened
  BY SameFrames
<1> QED BY <1>1 DEF RegistryIs, Unused

LEMMA LinkingAlone ==
  ASSUME LinkingIs, UNCHANGED <<scope, clientUp, doomed, current, disconnects, saw>>,
         step' \in [Threads -> Steps], at' \in [Threads -> Links \cup {None}],
         \A t \in Threads : step'[t] \in {"shake", "keep", "list", "listing", "opening"} => at'[t] \in Links,
         \A t \in Threads \ {"registry"} : step'[t] = step[t]
  PROVE  LinkingIs'
<1>1. Catalogs' = Catalogs
  BY SameFrames
<1> QED BY <1>1 DEF LinkingIs, NoCurrent

\* A thread that links.
LEMMA ClientLinking ==
  ASSUME ClientIs, Counted, NEW t \in Threads, Linking(t) PROVE ClientIs'
<1> USE DEF Steps, Threads
<1>1. LinkingIs /\ RegistryIs
  BY ClientHalves
<1>2. scope' = scope /\ UNCHANGED <<awaited, todo, tried, inst>>
  BY DEF Linking, Begin, Look, ConnectFails, ClientShaken, ClientShakeFails, Keep, Connect, serverVars, registry
<1>3. RegistryIs'
  <2>1. step'["registry"] \in {"listing", "opening"} => step["registry"] \in {"listing", "opening"}
    BY <1>1 DEF Linking, Begin, Look, ConnectFails, ClientShaken, ClientShakeFails, Keep, Connect, Moves, Fails,
       LinkingIs
  <2> QED BY <1>1, <1>2, <2>1, RegistryAlone
<1>4. Catalogs' = Catalogs /\ {} \in Catalogs
  BY <1>2, SameFrames, NoCatalog
<1> HIDE DEF Catalogs, Threads
<1> USE DEF LinkingIs
<1>5. ASSUME Begin(t) PROVE LinkingIs'
  BY <1>1, <1>4, <1>5 DEF Begin, Moves, NoCurrent
<1>6. ASSUME Look(t) PROVE LinkingIs'
  BY <1>1, <1>4, <1>6 DEF Look, Moves, NoCurrent
<1>7. ASSUME ConnectFails(t) \/ ClientShakeFails(t) PROVE LinkingIs'
  BY <1>1, <1>4, <1>7 DEF ConnectFails, ClientShakeFails, Fails, NoCurrent
<1>8. ASSUME ClientShaken(t) PROVE LinkingIs'
  BY <1>1, <1>4, <1>8 DEF ClientShaken, Moves, NoCurrent
<1>9. ASSUME \E l \in Links : Connect(t, l) PROVE LinkingIs'
  BY <1>1, <1>4, <1>9 DEF Connect, Moves, NoCurrent
<1>10. ASSUME Keep(t) PROVE LinkingIs'
  <2>1. at[t] \in Links /\ generations \in Nat
    BY <1>1, <1>10 DEF Keep, Counted
  <2>2. doomed' \subseteq Links /\ clientUp' \subseteq Links /\ disconnects' \in Nat /\ saw' \in [Threads -> Nat]
    BY <1>1, <1>10, <2>1 DEF Keep, Unkept
  <2>3. /\ current' \in [link : Links \cup {None}, generation : Nat, saw : Nat, libraries : Catalogs]
        /\ current'.link = None => current' = NoCurrent
    <3>1. CASE current' = current
      BY <1>1, <3>1
    <3>2. CASE current' = [link |-> at[t], generation |-> generations + 1, saw |-> saw[t], libraries |-> {}]
      BY <1>1, <1>4, <2>1, <3>2, RemoteAssumption
    <3> QED BY <1>10, <3>1, <3>2 DEF Keep
  <2>4. /\ step' \in [Threads -> Steps] /\ at' \in [Threads -> Links \cup {None}]
        /\ \A u \in Threads : step'[u] \in {"shake", "keep", "list", "listing", "opening"} => at'[u] \in Links
        /\ \A u \in Threads \ {"registry"} : step'[u] \in {"idle", "look", "connect", "shake", "keep"}
    BY <1>1, <1>10, <2>1 DEF Keep, Moves, Refused
  <2> QED BY <1>4, <2>2, <2>3, <2>4 DEF NoCurrent
<1> QED BY <1>3, <1>5, <1>6, <1>7, <1>8, <1>9, <1>10, ClientHalves DEF Linking

\* Links end on the client's side.
LEMMA ClientEnds ==
  ASSUME ClientIs, Disconnect \/ \E l \in Links : EndDoomed(l) \/ ClientSees(l) PROVE ClientIs'
<1>1. Catalogs' = Catalogs /\ {} \in Catalogs /\ RegistryIs' /\ LinkingIs
  BY SameFrames, NoCatalog, ClientHalves, RegistryAlone
    DEF Disconnect, EndDoomed, ClientSees, serverVars, registry
<1> HIDE DEF Catalogs
<1>2. CASE Disconnect
  <2>1. LinkingIs'
    BY <1>1, <1>2 DEF LinkingIs, Disconnect, NoCurrent
  <2> QED BY <1>1, <2>1, ClientHalves
<1>3. CASE \E l \in Links : EndDoomed(l) \/ ClientSees(l)
  <2>1. LinkingIs'
    BY <1>1, <1>3 DEF LinkingIs, EndDoomed, ClientSees, NoCurrent
  <2> QED BY <1>1, <2>1, ClientHalves
<1> QED BY <1>2, <1>3

\* A generation is one of a link made.
LEMMA GenerationsBound == ASSUME Counted PROVE generations \in 0 .. Cardinality(Links)
<1>1. Made \subseteq Links /\ IsFiniteSet(Links)
  BY RemoteAssumption DEF Made
<1>2. Cardinality(Made) <= Cardinality(Links) /\ IsFiniteSet(Made)
  BY <1>1, FS_Subset
<1>3. Cardinality(Made) \in Nat /\ Cardinality(Links) \in Nat
  BY <1>1, <1>2, FS_CardinalityType
<1> HIDE DEF Made
<1> QED BY <1>2, <1>3 DEF Counted

LEMMA RegistryParts ==
  ASSUME scope' = scope, awaited' \in CallIds \cup {0},
         step'["registry"] \in {"listing", "opening"} => awaited' # 0,
         todo' \subseteq Listings, tried' \in [Libraries -> Listings \cup {None}],
         inst' \in [Opens -> {Unused} \cup Opened]
  PROVE  RegistryIs'
<1>1. /\ todo' \subseteq Listings' /\ tried' \in [Libraries -> Listings' \cup {None}]
      /\ inst' \in [Opens -> {Unused'} \cup Opened']
  BY SameFrames DEF Unused
<1> QED BY <1>1 DEF RegistryIs

\* An entry as it is retired, or registered.
LEMMA OpenedStays ==
  ASSUME NEW i \in {Unused} \cup Opened, i.state # "unused",
         NEW st \in {"opening", "serving", "retired", "closed"}
  PROVE  [i EXCEPT !.state = st] \in Opened
  BY DEF Unused, Opened

\* The library being opened.
LEMMA OpeningIs ==
  ASSUME OpeningIsOne, step["registry"] = "opening"
  PROVE  /\ Opening \in Opens /\ inst[Opening].state = "opening" /\ inst[Opening].link = at["registry"]
         /\ \A o \in Opens : inst[o].state = "opening" => o = Opening
<1>1. PICK o \in Opens : inst[o].state = "opening"
  BY DEF OpeningIsOne
<1>2. Opening \in Opens /\ inst[Opening].state = "opening"
  BY <1>1 DEF Opening
<1> QED BY <1>2 DEF OpeningIsOne

\* A refresh.
LEMMA ClientRefresh == ASSUME ClientIs, Counted, Carried, OpeningIsOne, Refreshing PROVE ClientIs'
<1> USE DEF Steps, Threads
<1>1. LinkingIs /\ RegistryIs
  BY ClientHalves
<1>2. scope' = scope
  BY DEF Refreshing, ListFails, ListAnswered, OpenFails, OpenAnswered, RefreshReturns, SendList, SendOpen, CannotOpen,
     Collect, serverVars, registry
<1>3. CASE ListFails \/ RefreshReturns
  <2>1. RegistryIs'
    BY <1>1, <1>2, <1>3, RegistryParts
      DEF RegistryIs, ListFails, RefreshReturns, Fails, LinkingIs
  <2>2. LinkingIs'
    BY <1>1, <1>2, <1>3, LinkingAlone DEF ListFails, RefreshReturns, Fails, LinkingIs
  <2> QED BY <2>1, <2>2, ClientHalves
<1>4. ASSUME NEW id \in CallIds, SendList(id) PROVE ClientIs'
  <2>1. RegistryIs'
    BY <1>1, <1>2, <1>4, RegistryParts, RemoteAssumption DEF RegistryIs, SendList, Request
  <2>2. LinkingIs'
    BY <1>1, <1>2, <1>4, LinkingAlone DEF SendList, Moves, LinkingIs
  <2> QED BY <2>1, <2>2, ClientHalves
<1>5. ASSUME NEW c \in todo, CannotOpen(c) PROVE ClientIs'
  <2>1. RegistryIs'
    BY <1>1, <1>2, <1>5, RegistryParts DEF RegistryIs, CannotOpen, Listings, Stamps
  <2>2. LinkingIs'
    BY <1>1, <1>2, <1>5, LinkingAlone DEF CannotOpen, LinkingIs
  <2> QED BY <2>1, <2>2, ClientHalves
<1>6. ASSUME NEW o \in Opens, Collect(o) PROVE ClientIs'
  <2>1. RegistryIs'
    BY <1>1, <1>2, <1>6, OpenedStays, RegistryParts DEF RegistryIs, Collect
  <2>2. LinkingIs'
    BY <1>1, <1>2, <1>6, LinkingAlone DEF Collect, LinkingIs
  <2> QED BY <2>1, <2>2, ClientHalves
<1>7. CASE OpenFails \/ OpenAnswered
  <2>1. inst' \in [Opens -> {Unused} \cup Opened]
    <3>1. CASE OpenFails
      BY <1>1, <3>1 DEF RegistryIs, OpenFails
    <3>2. CASE OpenAnswered
      <4>1. inst[Opening].state = "opening"
        BY <3>2, OpeningIs DEF OpenAnswered
      <4>2. \A o \in Opens : inst'[o] \in {inst[o]} \cup Opened
        BY <1>1, OpenedStays, <3>2, <4>1 DEF OpenAnswered, Serving, RegistryIs
      <4>3. inst' = [o \in Opens |-> inst'[o]]
        BY <3>2 DEF OpenAnswered
      <4> QED BY <1>1, <4>2, <4>3 DEF RegistryIs
    <3> QED BY <1>7, <3>1, <3>2
  <2>2. RegistryIs'
    BY <1>1, <1>2, <1>7, <2>1, RegistryParts DEF RegistryIs, LinkingIs, OpenFails, OpenAnswered, Moves
  <2>3. LinkingIs'
    BY <1>1, <1>2, <1>7, LinkingAlone DEF OpenFails, OpenAnswered, Moves, LinkingIs
  <2> QED BY <2>2, <2>3, ClientHalves
<1>8. ASSUME NEW id \in CallIds, NEW c \in todo, SendOpen(c, id) PROVE ClientIs'
  <2>1. c \in Listings /\ c.stamp.lib \in Libraries /\ current.link \in Links
    BY <1>1, <1>8 DEF RegistryIs, LinkingIs, Listings, Stamps, SendOpen
  <2>2. [stamp |-> c.stamp, generation |-> c.generation, link |-> current.link, state |-> "opening"] \in Opened
    BY <2>1 DEF Listings, Opened
  <2>3. RegistryIs'
    BY <1>2, <1>1, <1>8, <2>1, <2>2, RegistryParts, RemoteAssumption
      DEF RegistryIs, SendOpen, Request
  <2>4. LinkingIs'
    BY <1>1, <1>2, <1>8, <2>1, LinkingAlone DEF SendOpen, Moves, LinkingIs
  <2> QED BY <2>3, <2>4, ClientHalves
<1>9. CASE ListAnswered
  <2>1. PICK r \in replies[at["registry"]] :
          /\ awaited' = 0
          /\ IF current.link = at["registry"]
             THEN /\ current' = [current EXCEPT !.libraries = r.catalog]
                  /\ todo' = {Listed(s, current.generation) : s \in r.catalog} \ {tried[b] : b \in Libraries}
                  /\ \A b \in Libraries : tried'[b] \in {tried[b], None}
                  /\ tried' = [b \in Libraries |-> tried'[b]]
                  /\ \A o \in Opens : inst'[o] = inst[o] \/ (inst[o].state = "serving" /\ inst'[o] = [inst[o] EXCEPT !.state = "retired"])
                  /\ inst' = [o \in Opens |-> inst'[o]]
                  /\ Moves("registry", "opens")
                  /\ UNCHANGED at
             ELSE Fails("registry") /\ UNCHANGED <<current, todo, tried, inst>>
    BY <1>9 DEF ListAnswered, Serving
  <2>2. at["registry"] \in Links /\ r.catalog \in Catalogs
    BY <1>1, <1>9, <2>1, CarriedIs DEF LinkingIs, ListAnswered, Replies
  <2>3. UNCHANGED <<clientUp, doomed, disconnects, saw>>
    BY <1>9 DEF ListAnswered
  <2>4. CASE current.link # at["registry"]
    <3>1. RegistryIs'
      BY <1>1, <1>2, <2>1, <2>4, RegistryParts DEF RegistryIs, LinkingIs, Fails
    <3>2. LinkingIs'
      BY <1>1, <1>2, <2>1, <2>3, <2>4, LinkingAlone DEF Fails, LinkingIs
    <3> QED BY <3>1, <3>2, ClientHalves
  <2>5. CASE current.link = at["registry"]
    <3>1. current.generation \in 1 .. Cardinality(Links)
      <4>1. Cardinality(Links) \in Nat
        BY RemoteAssumption, FS_CardinalityType
      <4> QED BY <2>2, <2>5, RemoteAssumption, <4>1, GenerationsBound DEF Counted
    <3>2. inst' \in [Opens -> {Unused} \cup Opened]
      <4>1. ASSUME NEW o \in Opens PROVE inst'[o] \in {inst[o]} \cup Opened
        <5>1. inst[o].state # "unused" => [inst[o] EXCEPT !.state = "retired"] \in Opened
          BY <1>1, OpenedStays DEF RegistryIs
        <5> QED BY <5>1, <2>1, <2>5
      <4> QED BY <1>1, <2>1, <2>5, <4>1 DEF RegistryIs
    <3>3. step' = [step EXCEPT !["registry"] = "opens"] /\ at' = at
      BY <2>1, <2>5 DEF Moves
    <3>4. RegistryIs'
      BY <1>1, <1>2, <2>1, <2>2, <2>5, <3>1, <3>2, <3>3, RegistryParts
        DEF LinkingIs, RegistryIs, Listed, Listings, Catalogs
    <3>5. LinkingIs'
      BY <1>1, <2>3, <3>3, <2>2, <2>5, <1>2, <2>1, SameFrames, RemoteAssumption DEF LinkingIs
    <3> QED BY <3>4, <3>5, ClientHalves
  <2> QED BY <2>4, <2>5
<1> QED BY <1>3, <1>4, <1>5, <1>6, <1>7, <1>8, <1>9 DEF Refreshing

\* One link is kept, and none past a disconnect.
LEMMA KeepsOneAlone ==
  ASSUME KeepsOne, UNCHANGED <<clientUp, current, doomed, disconnects>>,
         \A t \in Threads : step[t] = "keep" => step'[t] = "keep" /\ at'[t] = at[t]
  PROVE  KeepsOne'
  BY DEF KeepsOne, OneLink, NoneKeptPastDisconnect

LEMMA KeepsOneLinking == ASSUME KeepsOne, ClientIs, NEW t \in Threads, Linking(t) PROVE KeepsOne'
<1> USE DEF KeepsOne, OneLink, NoneKeptPastDisconnect
<1>0. step \in [Threads -> Steps] /\ at \in [Threads -> Links \cup {None}]
  BY DEF ClientIs
<1>1. CASE Begin(t) \/ Look(t) \/ ConnectFails(t) \/ ClientShakeFails(t) \/ \E l \in Links : Connect(t, l)
  BY <1>0, <1>1, KeepsOneAlone DEF Begin, Look, ConnectFails, ClientShakeFails, Connect, Moves, Fails
<1>2. CASE ClientShaken(t)
  BY <1>0, <1>2 DEF ClientShaken, Moves
<1>3. CASE Keep(t)
  <2>1. \A u \in Threads \ {t} : step[u] = "keep" => step'[u] = "keep" /\ at'[u] = at[u]
    BY <1>0, <1>3 DEF Keep, Moves
  <2>2. CASE Refused(t) \/ current.link \in clientUp
    BY <2>1, <1>3, <2>2 DEF Keep, Unkept
  <2>3. CASE ~(Refused(t) \/ current.link \in clientUp)
    <3>1. /\ current' = [link |-> at[t], generation |-> generations + 1, saw |-> saw[t], libraries |-> {}]
          /\ disconnects = saw[t] /\ current.link \notin clientUp
      BY <1>3, <2>3 DEF Keep, Refused
    <3>2. current'.link = at[t] /\ current'.saw = saw[t]
      BY <3>1
    <3>3. doomed \subseteq doomed' /\ UNCHANGED <<clientUp, disconnects>>
      BY <1>3 DEF Keep
    <3> QED BY <2>1, <3>1, <3>2, <3>3
  <2> QED BY <2>2, <2>3
<1> QED BY <1>1, <1>2, <1>3 DEF Linking

LEMMA KeepsOneEnds ==
  ASSUME KeepsOne, Disconnect \/ \E l \in Links : EndDoomed(l) \/ ClientSees(l) PROVE KeepsOne'
<1> USE DEF KeepsOne, OneLink, NoneKeptPastDisconnect
<1>1. CASE Disconnect
  BY <1>1 DEF Disconnect, NoCurrent
<1>2. CASE \E l \in Links : EndDoomed(l) \/ ClientSees(l)
  BY <1>2 DEF EndDoomed, ClientSees
<1> QED BY <1>1, <1>2

LEMMA KeepsOneRefresh == ASSUME KeepsOne, ClientIs, Refreshing PROVE KeepsOne'
<1>0. step \in [Threads -> Steps] /\ at \in [Threads -> Links \cup {None}]
  BY DEF ClientIs
<1>1. UNCHANGED <<clientUp, doomed, disconnects>>
  BY DEF Refreshing, ListFails, ListAnswered, OpenFails, OpenAnswered, RefreshReturns, SendList, SendOpen, CannotOpen,
     Collect
<1>2. \A t \in Threads : step[t] = "keep" => step'[t] = "keep" /\ at'[t] = at[t]
  BY <1>0 DEF Refreshing, ListFails, ListAnswered, OpenFails, OpenAnswered, RefreshReturns, SendList, SendOpen,
     CannotOpen, Collect, Moves, Fails, Threads
<1>3. current'.link = current.link /\ current'.saw = current.saw
  <2>1. CASE ListAnswered
    <3> QED BY <2>1 DEF ClientIs, ListAnswered
  <2>2. CASE ~ListAnswered
    BY <2>2 DEF Refreshing, ListFails, OpenFails, OpenAnswered, RefreshReturns, SendList, SendOpen, CannotOpen, Collect
  <2> QED BY <2>1, <2>2
<1> QED BY <1>1, <1>2, <1>3 DEF KeepsOne, OneLink, NoneKeptPastDisconnect

\* Generations.
LinkMaking(t) == step[t] \in {"shake", "keep"}

\* What a thread is making has a connection, of its own.
MakingIs ==
  /\ \A t \in Threads : LinkMaking(t) => conn[at[t]] # "none"
  /\ \A t, u \in Threads : LinkMaking(t) /\ LinkMaking(u) /\ at[t] = at[u] => t = u

GenerationsAre ==
  /\ current.link # None => current.generation \in 1 .. generations
  /\ \A o \in Opens : inst[o].state # "unused" => inst[o].generation <= generations

LEMMA CountedHalves ==
  /\ Counted <=> MakingIs /\ generations \in Nat /\ generations <= Cardinality(Made) /\ GenerationsAre
  /\ Counted' <=> MakingIs' /\ generations' \in Nat /\ generations' <= Cardinality(Made)' /\ GenerationsAre'
  BY DEF Counted, MakingIs, GenerationsAre, LinkMaking

\* No connection comes or goes, and no thread begins to make a link.
LEMMA MadeStays ==
  ASSUME MakingIs, generations \in Nat, generations <= Cardinality(Made), generations' = generations,
         \A l \in Links : conn[l] # "none" => conn'[l] # "none",
         \A t \in Threads : LinkMaking(t)' => LinkMaking(t) /\ at'[t] = at[t] /\ at[t] \in Links
  PROVE  MakingIs' /\ generations' \in Nat /\ generations' <= Cardinality(Made)'
<1>1. MakingIs'
  BY DEF MakingIs, LinkMaking
<1>2. Made \subseteq Made'
  BY DEF Made, Making, LinkMaking
<1>3. IsFiniteSet(Made')
  BY FS_Subset, RemoteAssumption DEF Made
<1>4. Cardinality(Made) <= Cardinality(Made')
  BY <1>2, <1>3, FS_Subset
<1>5. Cardinality(Made) \in Nat /\ Cardinality(Made') \in Nat
  BY <1>2, <1>3, FS_Subset, FS_CardinalityType
<1>6. Cardinality(Made)' = Cardinality(Made')
  OBVIOUS
<1> HIDE DEF Made
<1> QED BY <1>1, <1>4, <1>5, <1>6

LEMMA CountedServer ==
  ASSUME Counted, Settled, ClientIs, ServerStep, UNCHANGED clientVars PROVE Counted'
<1>1. \A l \in Links : conn[l] # "none" => conn'[l] # "none"
  <2>1. CASE Changing \/ Answering
    BY <2>1 DEF Changing, Answering, Refresh, CountRefreshed, LoadThrough, RetireThrough, Route, AnswerList, Hold,
       FileOpen, setup
  <2>2. CASE EndingLinks
    BY <2>2 DEF EndingLinks, EndLinks, TakeLive, TakeClosers, EndLinksReturns, EndOne, CloseOne
  <2>3. ASSUME NEW l \in Links, Serve(l) PROVE \A m \in Links : conn[m] # "none" => conn'[m] # "none"
    BY <2>3 DEF Serve, ServeReads, KeepCloser, LookAgain, Shaken, ShakeFails, DropHeld, KeepLink, EndMissed, DropEnded,
       LinkEnds, EndedOpened, EndedLive, setup, Settled, SettledTypes
  <2> QED BY <2>1, <2>2, <2>3 DEF ServerStep
<1>2. GenerationsAre'
  BY CountedHalves DEF GenerationsAre, clientVars
<1>3. \A t \in Threads : LinkMaking(t)' => LinkMaking(t) /\ at'[t] = at[t] /\ at[t] \in Links
  BY DEF LinkMaking, clientVars, ClientIs
<1>4. generations' = generations
  BY DEF clientVars
<1> QED BY <1>1, <1>2, <1>3, <1>4, MadeStays, CountedHalves

LEMMA CountedRefresh ==
  ASSUME Counted, ClientIs, OpeningIsOne, TodoIsListed, Refreshing PROVE Counted'
<1>0. step \in [Threads -> Steps] /\ at \in [Threads -> Links \cup {None}]
      /\ inst \in [Opens -> {Unused} \cup Opened] /\ generations \in Nat
      /\ current \in [link : Links \cup {None}, generation : Nat, saw : Nat, libraries : Catalogs]
  BY DEF ClientIs, Counted
<1>1. conn' = conn /\ generations' = generations
  BY DEF Refreshing, ListFails, ListAnswered, OpenFails, OpenAnswered, RefreshReturns, SendList, SendOpen,
     CannotOpen, Collect, setup, serverVars
<1>2. \A t \in Threads : LinkMaking(t)' => LinkMaking(t) /\ at'[t] = at[t] /\ at[t] \in Links
  <2>1. \A t \in Threads : LinkMaking(t)' => LinkMaking(t) /\ at'[t] = at[t]
    BY <1>0 DEF Refreshing, ListFails, ListAnswered, OpenFails, OpenAnswered, RefreshReturns, SendList, SendOpen,
       CannotOpen, Collect, Moves, Fails, Threads, LinkMaking
  <2> QED BY <2>1 DEF LinkMaking, ClientIs
<1>3. current'.link = current.link /\ current'.generation = current.generation
  <2>1. CASE ListAnswered
    BY <1>0, <2>1 DEF ListAnswered
  <2>2. CASE ~ListAnswered
    BY <2>2 DEF Refreshing, ListFails, OpenFails, OpenAnswered, RefreshReturns, SendList, SendOpen, CannotOpen, Collect
  <2> QED BY <2>1, <2>2
<1>4. ASSUME NEW o \in Opens, inst'[o].state # "unused" PROVE inst'[o].generation <= generations
  <2>1. CASE inst'[o].generation = inst[o].generation /\ inst[o].state # "unused"
    BY <2>1 DEF Counted
  <2>2. ASSUME NEW st, inst'[o] = [inst[o] EXCEPT !.state = st], inst[o].state # "unused"
        PROVE  inst'[o].generation = inst[o].generation
    BY <1>0, <2>2 DEF Unused, Opened
  <2>3. CASE ListFails \/ RefreshReturns \/ (\E c \in todo : CannotOpen(c)) \/ (\E id \in CallIds : SendList(id))
    BY <1>4, <2>1, <2>3 DEF ListFails, RefreshReturns, CannotOpen, SendList
  <2>4. CASE ListAnswered
    BY <1>4, <2>1, <2>2, <2>4 DEF ListAnswered, Serving
  <2>5. CASE OpenFails
    BY <1>0, <1>4, <2>1, <2>5 DEF OpenFails, Unused
  <2>6. CASE OpenAnswered
    <3> QED BY <1>4, <2>1, <2>2, <2>6, OpeningIs DEF OpenAnswered, Serving
  <2>7. ASSUME NEW p \in Opens, Collect(p) PROVE inst'[o].generation <= generations
    BY <1>4, <2>1, <2>2, <1>0, <2>7 DEF Collect
  <2>8. ASSUME NEW id \in CallIds, NEW c \in todo, SendOpen(c, id) PROVE inst'[o].generation <= generations
    <3>1. c.generation = current.generation
      BY <2>8 DEF SendOpen, TodoIsListed
    <3>2. current.link # None
      BY <2>8, RemoteAssumption DEF SendOpen, ClientIs
    <3>3. current.generation <= generations
      BY <1>0, <3>2 DEF Counted
    <3>4. inst'[o] = inst[o] \/ inst'[o] = [stamp |-> c.stamp, generation |-> c.generation, link |-> current.link, state |-> "opening"]
      BY <1>0, <2>8 DEF SendOpen
    <3> QED BY <1>4, <2>1, <3>1, <3>3, <3>4
  <2> QED BY <2>3, <2>4, <2>5, <2>6, <2>7, <2>8 DEF Refreshing
<1>5. GenerationsAre'
  BY <1>1, <1>3, <1>4, CountedHalves DEF GenerationsAre
<1> QED BY <1>1, <1>2, <1>5, MadeStays, CountedHalves

LEMMA CountedLinking ==
  ASSUME Counted, Settled, ClientIs, NEW t \in Threads, Linking(t) PROVE Counted'
<1>0. /\ step \in [Threads -> Steps] /\ at \in [Threads -> Links \cup {None}]
      /\ conn \in [Links -> Before \cup After] /\ generations \in Nat
      /\ MakingIs /\ generations <= Cardinality(Made) /\ GenerationsAre
      /\ \A u \in Threads : LinkMaking(u) => at[u] \in Links
  BY CountedHalves DEF ClientIs, Settled, SettledTypes, LinkMaking
<1>1. CASE \/ Begin(t) \/ Look(t) \/ ConnectFails(t) \/ ClientShakeFails(t) \/ ClientShaken(t)
  <2>1. UNCHANGED <<conn, generations, current, inst>>
    BY <1>1 DEF Begin, Look, ConnectFails, ClientShakeFails, ClientShaken, serverVars, setup
  <2>2. \A u \in Threads : LinkMaking(u)' => LinkMaking(u) /\ at'[u] = at[u]
    BY <1>0, <1>1 DEF Begin, Look, ConnectFails, ClientShakeFails, ClientShaken, Moves, Fails, LinkMaking
  <2>3. GenerationsAre'
    BY <1>0, <2>1 DEF GenerationsAre
  <2> QED BY <1>0, <2>1, <2>2, <2>3, MadeStays, CountedHalves
<1>2. ASSUME NEW l \in Links, Connect(t, l) PROVE Counted'
  <2>1. UNCHANGED <<generations, current, inst>>
    BY <1>2 DEF Connect
  <2>2. ~LinkMaking(t) /\ LinkMaking(t)' /\ at'[t] = l
    BY <1>0, <1>2 DEF Connect, Moves, LinkMaking
  <2>3. \A u \in Threads \ {t} : (LinkMaking(u)' <=> LinkMaking(u)) /\ at'[u] = at[u]
    BY <1>0, <1>2 DEF Connect, Moves, LinkMaking
  <2>4. conn[l] = "none" /\ conn' = [conn EXCEPT ![l] = "accepted"]
    BY <1>2 DEF Connect
  <2>5. MakingIs'
    BY <1>0, <2>2, <2>3, <2>4 DEF MakingIs
  <2>6. Made' = Made
    BY <1>0, <2>2, <2>3, <2>4 DEF Made, Making, LinkMaking
  <2>7. GenerationsAre'
    BY <1>0, <2>1 DEF GenerationsAre
  <2> HIDE DEF Made
  <2> QED BY <1>0, <2>1, <2>5, <2>6, <2>7, CountedHalves
<1>3. CASE Keep(t)
  <2>1. LinkMaking(t) /\ ~LinkMaking(t)' /\ at[t] \in Links
    BY <1>0, <1>3 DEF Keep, Moves, LinkMaking
  <2>2. \A u \in Threads \ {t} : (LinkMaking(u)' <=> LinkMaking(u)) /\ at'[u] = at[u]
    BY <1>0, <1>3 DEF Keep, Moves, LinkMaking
  <2>3. conn' = conn /\ inst' = inst
    BY <1>3 DEF Keep, serverVars, setup
  <2>4. MakingIs'
    BY <1>0, <2>1, <2>2, <2>3 DEF MakingIs
  <2>5. at[t] \notin Made /\ Made' = Made \cup {at[t]}
    BY <1>0, <2>1, <2>2, <2>3 DEF Made, MakingIs, Making, LinkMaking
  <2>6. IsFiniteSet(Made)
    BY FS_Subset, RemoteAssumption DEF Made
  <2>7. Cardinality(Made') = Cardinality(Made) + 1 /\ Cardinality(Made) \in Nat
    BY <2>5, <2>6, FS_AddElement, FS_CardinalityType
  <2>8. \/ generations' = generations /\ current' = current
        \/ /\ generations' = generations + 1
           /\ current' = [link |-> at[t], generation |-> generations + 1, saw |-> saw[t], libraries |-> {}]
    BY <1>0, <1>3 DEF Keep
  <2>9. generations' \in Nat /\ generations' <= Cardinality(Made)' /\ generations <= generations'
    <3> HIDE DEF Made
    <3> QED BY <1>0, <2>7, <2>8
  <2>10. GenerationsAre'
    <3>1. ASSUME NEW o \in Opens, inst[o].state # "unused" PROVE inst[o].generation <= generations'
      <4> QED BY <1>0, <2>9, <3>1 DEF GenerationsAre, ClientIs, Unused, Opened
    <3> QED BY <2>3, <1>0, <2>8, <3>1 DEF GenerationsAre
  <2> QED BY <2>4, <2>9, <2>10, CountedHalves
<1> QED BY <1>1, <1>2, <1>3 DEF Linking

LEMMA CountedEnds ==
  ASSUME Counted, ClientIs, Disconnect \/ \E l \in Links : EndDoomed(l) \/ ClientSees(l) PROVE Counted'
<1>0. MakingIs /\ generations \in Nat /\ generations <= Cardinality(Made) /\ GenerationsAre
  BY CountedHalves
<1>1. UNCHANGED <<conn, generations, step, at, inst>> /\ (current' = current \/ current' = NoCurrent)
  BY DEF Disconnect, EndDoomed, ClientSees, serverVars, setup
<1>2. GenerationsAre'
  BY <1>0, <1>1 DEF GenerationsAre, NoCurrent
<1>3. \A u \in Threads : LinkMaking(u)' => LinkMaking(u) /\ at'[u] = at[u] /\ at[u] \in Links
  BY <1>1 DEF LinkMaking, ClientIs
<1> QED BY <1>0, <1>1, <1>2, <1>3, MadeStays, CountedHalves

LEMMA CountedAlone ==
  Counted /\ UNCHANGED <<conn, generations, step, at, current, inst>> => Counted'
<1> SUFFICES ASSUME Counted, UNCHANGED <<conn, generations, step, at, current, inst>> PROVE Counted'
  OBVIOUS
<1>1. Made' = Made
  BY DEF Made, Making
<1> HIDE DEF Made
<1> QED BY <1>1 DEF Counted

-----------------------------------------------------------------------------
(* What the registry has open.                                             *)

LEMMA HeldFirst == Init => Held
<1> SUFFICES ASSUME Init PROVE Held
  OBVIOUS
<1>1. inst = [o \in Opens |-> Unused] /\ todo = {} /\ step = [t \in Threads |-> "idle"] /\ jobs = {}
      /\ wire = [l \in Links |-> <<>>] /\ replies = [l \in Links |-> {}]
  BY DEF Init, ServerInit
<1>2. \A o \in Opens : inst[o].state = "unused"
  BY <1>1 DEF Unused
<1>3. \A l \in Links : Len(wire[l]) = 0
  BY <1>1
<1>4. step["registry"] = "idle"
  BY <1>1 DEF Threads
<1> QED BY <1>1, <1>2, <1>3, <1>4 DEF Held, TodoIsListed, GenerationNamesLink, OpeningIsOne, AnswersTell, ClosesTell, AskedAfter

\* What is closed stays so.
LEMMA ClosedStays ==
  ASSUME NEW l, NEW stamp, ClosedUnder(l, stamp),
         \A p \in Opens : inst[p].state = "closed" => inst'[p] = inst[p]
  PROVE  ClosedUnder(l, stamp)'
  BY DEF ClosedUnder

\* What is filed stays so, while its link holds it.
LEMMA FiledStays ==
  ASSUME NEW o \in Opens, Filed(o), inst'[o].link = inst[o].link, inst'[o].stamp = inst[o].stamp,
         \A p \in Opens : inst[p].state = "closed" => inst'[p] = inst[p],
         inst[o].link \in up' => /\ inst[o].link \in up
                                 /\ HoldsUnder(inst[o].link, inst[o].stamp)
                                      => HoldsUnder(inst[o].link, inst[o].stamp)' \/ ClosedUnder(inst[o].link, inst[o].stamp)'
  PROVE  Filed(o)'
<1>1. CASE ClosedUnder(inst[o].link, inst[o].stamp)
  BY <1>1, ClosedStays DEF Filed
<1>2. CASE ~ClosedUnder(inst[o].link, inst[o].stamp)
  BY <1>2 DEF Filed
<1> QED BY <1>1, <1>2

\* A frame, and where it came from.
SameFrame(f, g) == f.op = g.op /\ f.call = g.call /\ f.stamp = g.stamp
OnWire(l, f) == \E i \in 1 .. Len(wire[l]) : SameFrame(f, wire[l][i])

\* A step of the server's passes frames on and answers them.
LEMMA AnswersServer ==
  ASSUME AnswersTell, UNCHANGED clientVars, ClientIs,
         \A l \in Links : \A i \in 1 .. Len(wire'[l]) : OnWire(l, wire'[l][i]),
         \A j \in jobs' : (\E k \in jobs : k.link = j.link /\ SameFrame(j, k)) \/ OnWire(j.link, j),
         \A l \in Links : \A r \in replies'[l] :
           \/ r \in replies[l] \/ r.is # "ok"
           \/ \A o \in Opens : inst[o].state = "opening" /\ inst[o].link = l /\ r.call = awaited => Filed(o)',
         \A o \in Opens : inst[o].state # "unused" /\ Filed(o) => Filed(o)'
  PROVE  AnswersTell'
<1>0. inst' = inst /\ awaited' = awaited
  BY DEF clientVars
<1>1. ClosesTell'
  <2>1. ASSUME NEW l \in Links, NEW i \in 1 .. Len(wire'[l]), wire'[l][i].op = "close"
        PROVE  ClosedUnder(l, wire[l][i].stamp)'
    <3>1. PICK k \in 1 .. Len(wire[l]) : SameFrame(wire'[l][i], wire[l][k])
      BY DEF OnWire
    <3>2. ClosedUnder(l, wire[l][k].stamp)
      BY <2>1, <3>1 DEF AnswersTell, ClosesTell, SameFrame
    <3> QED BY <1>0, <3>1, <3>2 DEF ClosedUnder, SameFrame
  <2> QED BY <2>1 DEF ClosesTell
<1>2. ASSUME NEW o \in Opens, inst[o].state = "opening" PROVE Asks(o)'
  <2>1. Asks(o) /\ inst[o].link \in Links
    BY <1>2 DEF AnswersTell, ClientIs, Unused, Opened
  <2>2. \A f : OnWire(inst[o].link, f) /\ f.call = awaited => f.op = "open" /\ f.stamp = inst[o].stamp
    BY <2>1 DEF OnWire, SameFrame, Asks
  <2>3. \A i \in 1 .. Len(wire'[inst[o].link]) :
          wire'[inst[o].link][i].call = awaited =>
            wire'[inst[o].link][i].op = "open" /\ wire'[inst[o].link][i].stamp = inst[o].stamp
    BY <2>1, <2>2
  <2>4. \A j \in jobs' : j.link = inst[o].link /\ j.call = awaited => j.op = "open" /\ j.stamp = inst[o].stamp
    BY <2>1, <2>2 DEF SameFrame, Asks
  <2>5. \A r \in replies'[inst[o].link] : r.call = awaited /\ r.is = "ok" => Filed(o)'
    BY <1>2, <2>1 DEF Asks
  <2> QED BY <1>0, <2>3, <2>4, <2>5 DEF Asks
<1>3. \A o \in Opens : inst[o].state \in {"serving", "retired"} => Filed(o)'
  BY DEF AnswersTell
<1> QED BY <1>0, <1>1, <1>2, <1>3 DEF AnswersTell

\* A step that leaves the frames alone, and brings no link up over which there
\* was an answer.
LEMMA AnswersAlone ==
  ASSUME AnswersTell, AskedAfter, ClientIs, Carried, UNCHANGED <<traffic, clientVars>>,
         \A l \in up' : l \in up \/ conn[l] \notin After
  PROVE  AnswersTell'
<1>0. UNCHANGED <<opened, wire, jobs, replies, inst, awaited>>
  BY DEF traffic, clientVars
<1>1. ClosesTell'
  BY <1>0 DEF AnswersTell, ClosesTell, ClosedUnder
<1>2. ASSUME NEW o \in Opens, Filed(o), inst[o].state # "unused",
             replies[inst[o].link] # {} \/ inst[o].state \in {"serving", "retired"}
      PROVE  Filed(o)'
  <2>1. conn[inst[o].link] \in After
    BY <1>2 DEF AskedAfter, ClientIs, Unused, Opened
  <2> QED BY <1>0, <1>2, <2>1 DEF Filed, ClosedUnder, HoldsUnder
<1>3. ASSUME NEW o \in Opens, inst[o].state = "opening" PROVE Asks(o)'
  <2>1. Asks(o)
    BY <1>3 DEF AnswersTell
  <2> QED BY <1>0, <2>1, <1>2, <1>3 DEF Asks
<1>4. \A o \in Opens : inst[o].state \in {"serving", "retired"} => Filed(o)'
  BY <1>2 DEF AnswersTell
<1> QED BY <1>0, <1>1, <1>3, <1>4 DEF AnswersTell

\* A link whose handshake is over stays one.
LEMMA AfterStays ==
  ASSUME SettledTypes, ServerStep \/ \E t \in Threads, l \in Links : Connect(t, l), NEW l \in Links, conn[l] \in After
  PROVE  conn'[l] \in After
<1>1. CASE Changing \/ Answering
  BY <1>1 DEF Changing, Answering, Refresh, CountRefreshed, LoadThrough, RetireThrough, Route, AnswerList, Hold,
     FileOpen, setup
<1>2. CASE EndingLinks
  BY <1>2 DEF EndingLinks, EndLinks, TakeLive, TakeClosers, EndLinksReturns, EndOne, CloseOne
<1>3. ASSUME NEW m \in Links, Serve(m) PROVE conn'[l] \in After
  BY <1>3 DEF Serve, ServeReads, KeepCloser, LookAgain, Shaken, ShakeFails, DropHeld, KeepLink, EndMissed, DropEnded,
     LinkEnds, EndedOpened, EndedLive, setup, SettledTypes, After
<1>4. CASE \E t \in Threads, m \in Links : Connect(t, m)
  BY <1>4 DEF Connect, SettledTypes, After
<1> QED BY <1>1, <1>2, <1>3, <1>4 DEF ServerStep

\* The steps of the server that carry no frame.
LEMMA AnswersQuiet ==
  ASSUME AnswersTell, AskedAfter, Settled, ClientIs, Carried, UNCHANGED clientVars,
         Changing \/ EndingLinks \/ \E l \in Links : Serve(l) /\ ~EndedOpened(l)
  PROVE  AnswersTell' /\ AskedAfter'
<1>1. UNCHANGED traffic
  BY DEF Changing, Refresh, CountRefreshed, LoadThrough, RetireThrough, EndingLinks, EndLinks, TakeLive, TakeClosers,
     EndLinksReturns, EndOne, CloseOne, Serve, ServeReads, KeepCloser, LookAgain, Shaken, ShakeFails, DropHeld,
     KeepLink, EndMissed, DropEnded, LinkEnds, EndedLive
<1>2. \A l \in up' : l \in up \/ conn[l] \notin After
  <2>1. CASE Changing
    BY <2>1 DEF Changing, Refresh, CountRefreshed, LoadThrough, RetireThrough
  <2>2. CASE EndingLinks
    BY <2>2 DEF EndingLinks, EndLinks, TakeLive, TakeClosers, EndLinksReturns, EndOne, CloseOne, UpWithout
  <2>3. ASSUME NEW l \in Links, Serve(l), ~EndedOpened(l) PROVE \A m \in up' : m \in up \/ conn[m] \notin After
    BY <2>3 DEF Serve, ServeReads, KeepCloser, LookAgain, Shaken, ShakeFails, DropHeld, KeepLink, EndMissed, DropEnded,
       LinkEnds, EndedLive, UpWithout, After
  <2> QED BY <2>1, <2>2, <2>3
<1>3. AnswersTell'
  BY <1>1, <1>2, AnswersAlone
<1>4. ServerStep
  BY DEF ServerStep
<1>5. UNCHANGED <<jobs, replies, inst>>
  BY <1>1 DEF traffic, clientVars
<1>6. AskedAfter'
  <2>1. \A j \in jobs : j.link \in Links
    BY DEF Carried, Jobs
  <2> QED BY <1>4, AfterStays, <1>5, <2>1 DEF AskedAfter, ClientIs, Unused, Opened, Settled
<1> QED BY <1>3, <1>6

\* What was asked after a link that lives.
LEMMA AskedServer ==
  ASSUME AskedAfter, Settled, ClientIs, Carried, UNCHANGED clientVars, UNCHANGED conn,
         \A l \in Links : replies'[l] # {} => replies[l] # {} \/ l \in up \/ \E j \in jobs : j.link = l,
         \A j \in jobs' : j.link \in up \/ \E k \in jobs : k.link = j.link
  PROVE  AskedAfter'
<1>1. \A l \in up : conn[l] \in After
  BY DEF Settled, LivesOnce
<1>2. inst' = inst
  BY DEF clientVars
<1> QED BY <1>1, <1>2 DEF AskedAfter

LEMMA HeldEnded ==
  ASSUME AnswersTell, AskedAfter, Settled, ClientIs, Carried, UNCHANGED clientVars, NEW l \in Links, EndedOpened(l)
  PROVE  AnswersTell' /\ AskedAfter'
<1>1. /\ opened' = [opened EXCEPT ![l] = {}] /\ wire' = [wire EXCEPT ![l] = <<>>]
      /\ jobs' = jobs /\ replies' = replies /\ conn' = conn /\ up' = up
  BY DEF EndedOpened, setup
<1>2. l \notin up
  BY DEF EndedOpened, Settled, LivesOnce
<1>3. ASSUME NEW o \in Opens, inst[o].state # "unused", Filed(o) PROVE Filed(o)'
  BY <1>1, <1>2, <1>3 DEF Filed, HoldsUnder, ClosedUnder, clientVars, Carried
<1>4. \A m \in Links : \A i \in 1 .. Len(wire'[m]) : OnWire(m, wire'[m][i])
  <2>1. ASSUME NEW m \in Links, NEW i \in 1 .. Len(wire'[m]) PROVE OnWire(m, wire'[m][i])
    BY <1>1, <2>1 DEF OnWire, SameFrame, Carried
  <2> QED BY <2>1
<1>5. AnswersTell'
  BY <1>1, <1>3, <1>4, AnswersServer DEF SameFrame
<1>6. AskedAfter'
  BY <1>1, AskedServer
<1> QED BY <1>5, <1>6

LEMMA HeldRoute ==
  ASSUME AnswersTell, AskedAfter, Settled, ClientIs, Carried, UNCHANGED clientVars,
         NEW l \in Links, NEW busy \in BOOLEAN, Route(l, busy)
  PROVE  AnswersTell' /\ AskedAfter'
<1> DEFINE f == Head(wire[l])
           a == [call |-> f.call, is |-> "refused", catalog |-> {}]
           j == [link |-> l, op |-> f.op, call |-> f.call, stamp |-> f.stamp, load |-> 0]
<1>1. /\ wire' = [wire EXCEPT ![l] = Tail(wire[l])] /\ up' = up /\ conn' = conn /\ l \in up /\ wire[l] # <<>>
  BY DEF Route, setup
<1>2. \/ /\ f.op = "close" /\ UNCHANGED <<jobs, replies>>
         /\ opened' = [opened EXCEPT ![l] = Close(l, f.stamp)]
      \/ UNCHANGED <<opened, jobs>> /\ replies' = [replies EXCEPT ![l] = @ \cup {a}]
      \/ UNCHANGED <<opened, replies>> /\ jobs' = jobs \cup {j}
  BY DEF Route
<1>3. f = wire[l][1] /\ 1 \in 1 .. Len(wire[l])
      /\ \A i \in 1 .. Len(Tail(wire[l])) : i + 1 \in 1 .. Len(wire[l]) /\ Tail(wire[l])[i] = wire[l][i + 1]
  BY <1>1, NextFrame
<1>4. wire \in [Links -> Seq(Frames)] /\ opened \in [Links -> SUBSET Kept] /\ replies \in [Links -> SUBSET Replies]
  BY CarriedIs
<1>5. a.is = "refused" /\ j.link = l /\ SameFrame(j, f) /\ a.call = f.call
  BY DEF SameFrame
<1> HIDE DEF f, a, j
<1>6. \A m \in Links : \A i \in 1 .. Len(wire'[m]) : OnWire(m, wire'[m][i])
  <2>1. ASSUME NEW m \in Links, NEW i \in 1 .. Len(wire'[m]) PROVE OnWire(m, wire'[m][i])
    <3>1. CASE m # l
      BY <1>1, <1>4, <3>1 DEF OnWire, SameFrame
    <3>2. CASE m = l
      <4> QED BY <3>2, <1>3, <1>1, <1>4 DEF OnWire, SameFrame
    <3> QED BY <3>1, <3>2
  <2> QED BY <2>1
<1>7. \A k \in jobs' : k \in jobs \/ (k = j /\ OnWire(k.link, k))
  BY <1>2, <1>3, <1>5 DEF OnWire
<1>8. \A m \in Links : \A r \in replies'[m] : r \in replies[m] \/ (m = l /\ r.is # "ok")
  BY <1>2, <1>4, <1>5
<1>9. ASSUME NEW o \in Opens, inst[o].state # "unused", Filed(o) PROVE Filed(o)'
  <2>1. inst' = inst
    BY DEF clientVars
  <2>2. HoldsUnder(inst[o].link, inst[o].stamp)
           => HoldsUnder(inst[o].link, inst[o].stamp)' \/ ClosedUnder(inst[o].link, inst[o].stamp)'
    <3>1. CASE opened' = opened
      BY <2>1, <3>1 DEF HoldsUnder
    <3>2. CASE f.op = "close" /\ opened' = [opened EXCEPT ![l] = Close(l, f.stamp)]
      <4>1. CASE inst[o].link = l /\ inst[o].stamp = f.stamp
        BY <2>1, <1>3, <3>2, <4>1 DEF ClosedUnder, AnswersTell, ClosesTell
      <4>2. CASE inst[o].link # l
        BY <1>4, <2>1, <3>2, <4>2 DEF HoldsUnder
      <4>3. CASE inst[o].link = l /\ inst[o].stamp # f.stamp
        BY <1>4, <2>1, <3>2, <4>3 DEF HoldsUnder, Close
      <4> QED BY <4>1, <4>2, <4>3
    <3> QED BY <1>2, <3>1, <3>2
  <2> QED BY <1>1, <1>9, <2>1, <2>2, FiledStays
<1>10. AnswersTell'
  BY <1>6, <1>7, <1>8, <1>9, AnswersServer DEF SameFrame
<1>11. AskedAfter'
  BY <1>1, <1>5, <1>7, <1>8, AskedServer
<1> QED BY <1>10, <1>11

LEMMA HeldAnswers ==
  ASSUME AnswersTell, AskedAfter, OpeningIsOne, Settled, Stocked, ClientIs, Carried, UNCHANGED clientVars,
         NEW j \in jobs, AnswerList(j) \/ Hold(j) \/ FileOpen(j)
  PROVE  AnswersTell' /\ AskedAfter'
<1>0. j \in Jobs /\ opened \in [Links -> SUBSET Kept] /\ inst' = inst
  BY CarriedIs DEF clientVars
<1>1. wire' = wire /\ up' = up /\ conn' = conn
  BY DEF AnswerList, Hold, FileOpen, setup
<1>2. \A k \in jobs' : k \in jobs \/ (k.link = j.link /\ SameFrame(k, j))
  BY <1>0 DEF AnswerList, Hold, FileOpen, Jobs, SameFrame
<1>3. \A l \in Links : \A r \in replies'[l] :
        r \in replies[l] \/ (l = j.link /\ r.call = j.call /\ l \in up /\ (r.is = "ok" => AnswerList(j) \/ FileOpen(j)))
  <2>1. CASE AnswerList(j) \/ FileOpen(j)
    BY <1>0, <2>1, AnswerIs, CatalogIs, NoCatalog DEF AnswerList, FileOpen
  <2>2. CASE Hold(j)
    BY <1>0, <2>2, AnswerIs, NoCatalog DEF Hold
  <2> QED BY <2>1, <2>2
<1>4. ASSUME NEW o \in Opens, inst[o].state # "unused", Filed(o) PROVE Filed(o)'
  <2> QED
    BY <1>0, <1>1, <1>4
      DEF Filed, HoldsUnder, ClosedUnder, AnswerList, Hold, FileOpen, ClientIs, Unused, Opened
<1>5. ASSUME NEW l \in Links, NEW r \in replies'[l], r \notin replies[l], r.is = "ok",
             NEW o \in Opens, inst[o].state = "opening", inst[o].link = l, r.call = awaited
      PROVE  Filed(o)'
  <2>1. j.link = inst[o].link /\ j.call = awaited
    BY <1>3, <1>5
  <2>2. j.op = "open" /\ j.stamp = inst[o].stamp
    BY <1>5, <2>1 DEF AnswersTell, Asks
  <2>3. \E h \in opened'[l] : h.stamp = j.stamp
    <3> DEFINE k == [stamp |-> j.stamp, load |-> j.load]
    <3>1. k.stamp = j.stamp
      OBVIOUS
    <3>2. opened' = [opened EXCEPT ![l] = IF \E h \in opened[l] : h.stamp = j.stamp THEN opened[l] ELSE opened[l] \cup {k}]
      BY <1>5, <2>1, <1>3, <2>2 DEF FileOpen, AnswerList
    <3> HIDE DEF k
    <3>3. opened'[l] = IF \E h \in opened[l] : h.stamp = j.stamp THEN opened[l] ELSE opened[l] \cup {k}
      BY <1>0, <3>2
    <3> QED BY <3>1, <3>3
  <2> QED BY <1>0, <1>5, <2>2, <2>3 DEF Filed, HoldsUnder
<1>6. AnswersTell'
  BY <1>2, <1>4, <1>5, <1>1, AnswersServer DEF SameFrame, OnWire
<1>7. AskedAfter'
  BY <1>1, <1>2, <1>3, AskedServer
<1> QED BY <1>6, <1>7

\* Frames, answers and what is open stay.
LEMMA AnswersStay ==
  AnswersTell /\ UNCHANGED <<up, opened, wire, jobs, replies, inst, awaited>> => AnswersTell'
  BY DEF AnswersTell, ClosesTell, Asks, Filed, ClosedUnder, HoldsUnder

LEMMA AskedStays ==
  AskedAfter /\ UNCHANGED <<conn, jobs, replies, inst>> => AskedAfter'
  BY DEF AskedAfter

LEMMA HeldLinking ==
  ASSUME Held, Settled, Carried, Counted, ClientIs, NEW t \in Threads, Linking(t) PROVE Held'
<1>0. step \in [Threads -> Steps] /\ generations \in Nat
  BY DEF ClientIs, Counted
<1>1. UNCHANGED <<up, opened, wire, jobs, replies, inst, awaited, todo>>
  BY DEF Linking, Begin, Look, ConnectFails, ClientShaken, ClientShakeFails, Keep, Connect, serverVars, registry, traffic
<1>2. AnswersTell'
  BY <1>1, AnswersStay DEF Held
<1>3. AskedAfter'
  <2>1. CASE \E l \in Links : Connect(t, l)
    <3>1. \A l \in Links : conn[l] \in After => conn'[l] \in After
      BY <2>1, AfterStays DEF Settled
    <3>2. \A j \in jobs : j.link \in Links
      BY DEF Carried, Jobs
    <3>3. \A o \in Opens : inst[o].state # "unused" => inst[o].link \in Links
      BY DEF ClientIs, Unused, Opened
    <3> QED BY <1>1, <3>1, <3>2, <3>3 DEF AskedAfter, Held
  <2>2. CASE ~\E l \in Links : Connect(t, l)
    BY <1>1, <2>2, AskedStays DEF Linking, Begin, Look, ConnectFails, ClientShaken, ClientShakeFails, Keep, serverVars,
       setup, Held
  <2> QED BY <2>1, <2>2
<1>4. /\ step["registry"] \in {"opens", "opening"} => t # "registry"
      /\ t # "registry" => step'["registry"] = step["registry"] /\ at'["registry"] = at["registry"]
      /\ step'["registry"] # "opening" \/ step["registry"] = "opening"
  BY <1>0 DEF Linking, Begin, Look, ConnectFails, ClientShaken, ClientShakeFails, Keep, Connect, Moves, Fails, Steps,
     ClientIs, Threads
<1>5. OpeningIsOne'
  BY <1>1, <1>4 DEF Held, OpeningIsOne
<1>6. CASE current' = current
  BY <1>1, <1>2, <1>3, <1>4, <1>5, <1>6 DEF Held, TodoIsListed, GenerationNamesLink
<1>7. CASE current' # current
  <2>1. current'.libraries = {} /\ current'.generation = generations + 1
    BY <1>7
      DEF Linking, Begin, Look, ConnectFails, ClientShaken, ClientShakeFails, Keep, Connect
  <2>2. TodoIsListed'
    BY <1>1, <1>4, <2>1 DEF Held, TodoIsListed
  <2>3. ASSUME NEW o \in Opens, inst[o].state # "unused" PROVE inst[o].generation # generations + 1
    BY <1>0, <2>3 DEF ClientIs, Counted, Unused, Opened
  <2>4. GenerationNamesLink'
    BY <1>1, <2>1, <2>3 DEF GenerationNamesLink
  <2> QED BY <1>2, <1>3, <1>5, <2>2, <2>4 DEF Held
<1> QED BY <1>6, <1>7

LEMMA HeldEnds ==
  ASSUME Held, ClientIs, Disconnect \/ \E l \in Links : EndDoomed(l) \/ ClientSees(l) PROVE Held'
<1>1. /\ UNCHANGED <<up, opened, wire, jobs, replies, inst, awaited, todo, step, at, conn>>
      /\ current' = current \/ current' = NoCurrent
  BY DEF Disconnect, EndDoomed, ClientSees, serverVars, registry, traffic, setup
<1>2. AnswersTell' /\ AskedAfter' /\ OpeningIsOne'
  BY <1>1, AnswersStay, AskedStays DEF Held, OpeningIsOne
<1>3. TodoIsListed'
  BY <1>1 DEF Held, TodoIsListed, NoCurrent
<1>4. GenerationNamesLink'
  BY <1>1 DEF Held, GenerationNamesLink, NoCurrent, ClientIs, Unused, Opened
<1> QED BY <1>2, <1>3, <1>4 DEF Held

\* An answer nobody awaits, or one that has been taken, is gone.
LEMMA AnswersFewer ==
  ASSUME AnswersTell, ClientIs, UNCHANGED <<up, opened, wire, jobs, awaited, inst>>,
         \A l \in Links : replies'[l] \subseteq replies[l]
  PROVE  AnswersTell'
<1>1. ClosesTell'
  BY DEF AnswersTell, ClosesTell, ClosedUnder
<1>2. \A o \in Opens : Filed(o) => Filed(o)'
  BY DEF Filed, ClosedUnder, HoldsUnder
<1>3. ASSUME NEW o \in Opens, inst[o].state = "opening" PROVE Asks(o)'
  <2>1. Asks(o) /\ inst[o].link \in Links
    BY <1>3 DEF AnswersTell, ClientIs, Unused, Opened
  <2> QED BY <1>2, <2>1 DEF Asks
<1> QED BY <1>1, <1>2, <1>3 DEF AnswersTell

LEMMA HeldDrop == ASSUME Held, ClientIs, Carried, NEW l, NEW r, DropReply(l, r) PROVE Held'
<1>1. UNCHANGED <<up, opened, wire, jobs, awaited, inst, conn, todo, step, at, current>>
  BY DEF DropReply, setup, clientVars
<1>2. \A m \in Links : replies'[m] \subseteq replies[m]
  BY DEF DropReply, Carried
<1>3. AnswersTell'
  BY <1>1, <1>2, AnswersFewer DEF Held
<1>4. AskedAfter'
  BY <1>1, <1>2 DEF Held, AskedAfter
<1> QED BY <1>1, <1>3, <1>4 DEF Held, TodoIsListed, GenerationNamesLink, OpeningIsOne

\* A frame sent is the last on the wire.
LEMMA SentIs ==
  ASSUME Carried, NEW l \in Links, NEW f \in Frames, Sent(l, f)
  PROVE  \A m \in Links : \A i \in 1 .. Len(wire'[m]) :
           (OnWire(m, wire'[m][i]) /\ wire'[m][i] \in {wire[m][k] : k \in 1 .. Len(wire[m])}) \/ (m = l /\ wire'[m][i] = f)
<1> HIDE DEF Frames
<1>1. wire \in [Links -> Seq(Frames)]
  BY DEF Carried
<1>2. ASSUME NEW m \in Links, NEW i \in 1 .. Len(wire'[m])
      PROVE  (\E k \in 1 .. Len(wire[m]) : wire'[m][i] = wire[m][k]) \/ (m = l /\ wire'[m][i] = f)
  <2>1. CASE m # l
    BY <1>1, <1>2, <2>1 DEF Sent
  <2>2. CASE m = l
    <3> DEFINE w == wire[l]
    <3>1. wire'[m] = Append(w, f) /\ w \in Seq(Frames)
      BY <1>1, <2>2 DEF Sent
    <3> HIDE DEF w
    <3>2. CASE i = Len(w) + 1
      BY <2>2, <3>1, <3>2
    <3>3. CASE i # Len(w) + 1
      <4> QED BY <2>2, <1>2, <3>1, <3>3 DEF w
    <3> QED BY <3>2, <3>3
  <2> QED BY <2>1, <2>2
<1> QED BY <1>2 DEF OnWire, SameFrame

\* A step after which no OPEN is awaited.
LEMMA AnswersNoOpening ==
  ASSUME AnswersTell, UNCHANGED <<up, opened>>,
         \A l \in Links : \A i \in 1 .. Len(wire'[l]) :
           OnWire(l, wire'[l][i]) \/ wire'[l][i].op # "close" \/ ClosedUnder(l, wire[l][i].stamp)',
         \A p \in Opens : inst[p].state = "closed" => inst'[p] = inst[p],
         \A o \in Opens : inst'[o].state # "opening",
         \A o \in Opens : inst'[o].state \in {"serving", "retired"} =>
           /\ inst'[o].link = inst[o].link /\ inst'[o].stamp = inst[o].stamp
           /\ inst[o].state \in {"serving", "retired"} \/ Filed(o)
  PROVE  AnswersTell'
<1>1. ClosesTell'
  <2>1. ASSUME NEW l \in Links, NEW i \in 1 .. Len(wire'[l]), wire'[l][i].op = "close"
        PROVE  ClosedUnder(l, wire[l][i].stamp)'
    <3>1. CASE OnWire(l, wire'[l][i])
      <4>1. PICK k \in 1 .. Len(wire[l]) : SameFrame(wire'[l][i], wire[l][k])
        BY <3>1 DEF OnWire
      <4> QED BY <2>1, <4>1 DEF ClosedUnder, AnswersTell, ClosesTell, SameFrame
    <3>2. CASE ~OnWire(l, wire'[l][i])
      BY <2>1, <3>2
    <3> QED BY <3>1, <3>2
  <2> QED BY <2>1 DEF ClosesTell
<1>2. ASSUME NEW o \in Opens, inst'[o].state \in {"serving", "retired"} PROVE Filed(o)'
  <2>1. Filed(o)
    BY <1>2 DEF AnswersTell
  <2> QED BY <1>2, <2>1, FiledStays DEF HoldsUnder
<1> QED BY <1>1, <1>2 DEF AnswersTell

LEMMA NoOpening == ASSUME OpeningIsOne, step["registry"] # "opening" PROVE \A o \in Opens : inst[o].state # "opening"
  BY DEF OpeningIsOne

\* The parts of it a step of the registry's may disturb.
LEMMA AskedRefresh ==
  ASSUME AskedAfter, Carried, UNCHANGED <<conn, jobs>>,
         \A l \in Links : replies'[l] \subseteq replies[l],
         \A o \in Opens : inst'[o].state \in {"serving", "retired"} =>
           /\ inst'[o].link = inst[o].link
           /\ inst[o].state \in {"serving", "retired"} \/ (inst[o].link \in Links /\ replies[inst[o].link] # {})
  PROVE  AskedAfter'
  BY DEF AskedAfter

LEMMA RefreshShrinks ==
  ASSUME Carried, Refreshing
  PROVE  /\ \A l \in Links : replies'[l] \subseteq replies[l]
         /\ UNCHANGED <<conn, jobs, up, opened>>
<1>1. UNCHANGED <<conn, jobs, up, opened>>
  BY DEF Refreshing, ListFails, ListAnswered, OpenFails, OpenAnswered, RefreshReturns, SendList, SendOpen,
     CannotOpen, Collect, serverVars, setup, traffic
<1>2. \/ replies' = replies
      \/ \E r : replies' = [replies EXCEPT ![at["registry"]] = @ \ {r}]
      \/ replies' = [replies EXCEPT ![at["registry"]] = {r \in @ : r.call # awaited}]
  BY DEF Refreshing, ListFails, ListAnswered, OpenFails, OpenAnswered, RefreshReturns, SendList, SendOpen,
     CannotOpen, Collect, serverVars, setup, traffic, Replied, Unanswered
<1>3. DOMAIN replies = Links /\ replies = [l \in Links |-> replies[l]]
  BY DEF Carried
<1>4. \A l \in Links : replies'[l] \subseteq replies[l]
  <2>1. CASE replies' = replies
    BY <2>1
  <2>2. ASSUME NEW r, replies' = [replies EXCEPT ![at["registry"]] = @ \ {r}]
        PROVE  \A l \in Links : replies'[l] \subseteq replies[l]
    BY <1>3, <2>2
  <2>3. CASE replies' = [replies EXCEPT ![at["registry"]] = {r \in @ : r.call # awaited}]
    BY <1>3, <2>3
  <2> QED BY <1>2, <2>1, <2>2, <2>3
<1> QED BY <1>1, <1>4

\* The registry asks for the list, or is told it cannot have it.
LEMMA HeldList ==
  ASSUME Held, ClientIs, Carried, ListFails \/ \E id \in CallIds : SendList(id) PROVE Held'
<1>1. /\ \A l \in Links : replies'[l] \subseteq replies[l]
      /\ UNCHANGED <<conn, jobs, up, opened>>
  BY RefreshShrinks DEF Refreshing
<1>2. /\ UNCHANGED <<inst, todo, current>>
      /\ step["registry"] \in {"list", "listing"} /\ step'["registry"] \in {"listing", "idle"}
  BY DEF ListFails, SendList, Fails, Moves, ClientIs, Threads
<1>3. todo = {} /\ \A o \in Opens : inst[o].state # "opening"
  BY <1>2, NoOpening DEF Held, TodoIsListed
<1>4. TodoIsListed' /\ GenerationNamesLink' /\ OpeningIsOne'
  BY <1>2, <1>3 DEF Held, TodoIsListed, GenerationNamesLink, OpeningIsOne
<1>5. \A l \in Links : \A i \in 1 .. Len(wire'[l]) : OnWire(l, wire'[l][i]) \/ wire'[l][i].op # "close"
  <2>1. CASE wire' = wire
    BY <2>1 DEF OnWire, SameFrame
  <2>2. ASSUME NEW id \in CallIds, SendList(id)
        PROVE  \A l \in Links : \A i \in 1 .. Len(wire'[l]) : OnWire(l, wire'[l][i]) \/ wire'[l][i].op # "close"
    <3> DEFINE f == [op |-> "list", call |-> id, stamp |-> None]
    <3>1. f \in Frames /\ f.op # "close"
      BY DEF Frames, ListOrOpen
    <3>2. Sent(at["registry"], f) /\ at["registry"] \in Links
      BY <2>2 DEF SendList, Request, Sent, ClientIs
    <3> HIDE DEF f, Frames
    <3> QED BY <3>1, <3>2, SentIs
  <2> QED BY <2>1, <2>2 DEF ListFails
<1>6. AnswersTell'
  BY <1>1, <1>2, <1>3, <1>5, AnswersNoOpening DEF Held
<1>7. AskedAfter'
  BY <1>1, <1>2, AskedRefresh DEF Held
<1> QED BY <1>4, <1>6, <1>7 DEF Held

LEMMA HeldListed ==
  ASSUME Held, ClientIs, Carried, Counted, ListAnswered PROVE Held'
<1>0. step \in [Threads -> Steps] /\ "registry" \in Threads
      /\ current \in [link : Links \cup {None}, generation : Nat, saw : Nat, libraries : Catalogs]
      /\ inst \in [Opens -> {Unused} \cup Opened]
  BY DEF ClientIs, Threads
<1>1. /\ \A l \in Links : replies'[l] \subseteq replies[l]
      /\ UNCHANGED <<conn, jobs, up, opened>>
  BY RefreshShrinks DEF Refreshing
<1>2. wire' = wire /\ step["registry"] = "listing" /\ step'["registry"] \in {"idle", "opens"}
  BY <1>0 DEF ListAnswered, Moves, Fails
<1>3. todo = {} /\ \A o \in Opens : inst[o].state # "opening"
  BY <1>2, NoOpening DEF Held, TodoIsListed
<1>4. ASSUME NEW o \in Opens
      PROVE  \/ inst'[o] = inst[o]
             \/ /\ inst[o].state = "serving" /\ inst'[o].state = "retired"
                /\ inst'[o].link = inst[o].link /\ inst'[o].stamp = inst[o].stamp /\ inst'[o].generation = inst[o].generation
  <2> QED BY <1>0 DEF Unused, Opened, ListAnswered, Serving
<1>5. \/ UNCHANGED <<current, todo>>
      \/ /\ step'["registry"] = "opens"
         /\ \E r : /\ current' = [current EXCEPT !.libraries = r.catalog]
                   /\ todo' \subseteq {Listed(s, current.generation) : s \in r.catalog}
  BY <1>0 DEF ListAnswered, Moves
<1>6. TodoIsListed'
  <2>1. CASE UNCHANGED <<current, todo>>
    BY <1>3, <2>1 DEF TodoIsListed
  <2>2. ASSUME NEW r, current' = [current EXCEPT !.libraries = r.catalog], step'["registry"] = "opens",
               todo' \subseteq {Listed(s, current.generation) : s \in r.catalog}
        PROVE  TodoIsListed'
    <3> QED BY <2>2, <1>0 DEF TodoIsListed, Listed
  <2> QED BY <1>5, <2>1, <2>2
<1>7. GenerationNamesLink'
  BY <1>4, <1>0, <1>5 DEF Held, GenerationNamesLink
<1>8. \A o \in Opens : inst'[o].state # "opening"
  BY <1>3, <1>4
<1>9. OpeningIsOne'
  BY <1>2, <1>8 DEF OpeningIsOne
<1>10. AnswersTell'
  <2>1. \A l \in Links : \A i \in 1 .. Len(wire'[l]) : OnWire(l, wire'[l][i])
    BY <1>2 DEF OnWire, SameFrame
  <2>2. \A p \in Opens : inst[p].state = "closed" => inst'[p] = inst[p]
    BY <1>4
  <2>3. \A o \in Opens : inst'[o].state \in {"serving", "retired"} =>
          /\ inst'[o].link = inst[o].link /\ inst'[o].stamp = inst[o].stamp
          /\ inst[o].state \in {"serving", "retired"}
    BY <1>4
  <2> QED BY <1>1, <1>8, <2>1, <2>2, <2>3, AnswersNoOpening DEF Held
<1>11. AskedAfter'
  BY <1>1, <1>4, AskedRefresh DEF Held
<1> QED BY <1>6, <1>7, <1>9, <1>10, <1>11 DEF Held

LEMMA HeldPasses ==
  ASSUME Held, ClientIs, RefreshReturns \/ \E c \in todo : CannotOpen(c) PROVE Held'
<1>1. /\ UNCHANGED <<up, opened, wire, jobs, replies, inst, awaited, conn, current>>
      /\ todo' \subseteq todo /\ step["registry"] = "opens"
      /\ step'["registry"] = "opens" \/ (step'["registry"] = "idle" /\ todo' = {})
  BY
    DEF RefreshReturns, CannotOpen, serverVars, registry, traffic, setup, Fails, ClientIs,
       Threads
<1>2. AnswersTell' /\ AskedAfter'
  BY <1>1, AnswersStay, AskedStays DEF Held
<1>3. \A o \in Opens : inst[o].state # "opening"
  BY <1>1, NoOpening DEF Held
<1> QED BY <1>1, <1>2, <1>3 DEF Held, TodoIsListed, GenerationNamesLink, OpeningIsOne

\* There is room while some of what the registry opens is unused.
LEMMA RoomIs ==
  ASSUME Stocked, Room
  PROVE  /\ (CHOOSE o \in Opens : inst[o].state = "unused") \in Opens
         /\ inst[CHOOSE o \in Opens : inst[o].state = "unused"].state = "unused"
<1> DEFINE U == {o \in Opens : inst[o].state # "unused"}
<1>1. Cardinality(U) \in Nat
  BY RemoteAssumption, FS_Subset, FS_CardinalityType, U \subseteq Opens
<1>2. U # Opens
  <2>1. Cardinality(U) < scope.opens
    BY DEF Room
  <2> HIDE DEF U
  <2> QED BY RemoteAssumption, FS_CardinalityType, <1>1, <2>1 DEF Stocked
<1> QED BY <1>2

LEMMA HeldSends ==
  ASSUME Held, ClientIs, Carried, Stocked, NEW c \in todo, NEW id \in CallIds, SendOpen(c, id) PROVE Held'
<1>l. PICK l \in Links : l = current.link
  BY DEF ClientIs, SendOpen
<1> DEFINE e == [stamp |-> c.stamp, generation |-> c.generation, link |-> l, state |-> "opening"]
<1>0. step \in [Threads -> Steps] /\ "registry" \in Threads /\ at \in [Threads -> Links \cup {None}]
      /\ inst \in [Opens -> {Unused} \cup Opened] /\ id # 0
  BY RemoteAssumption DEF ClientIs, Threads, SendOpen
<1>1. PICK x \in Opens : inst[x].state = "unused" /\ inst' = [inst EXCEPT ![x] = e]
  BY <1>l, RoomIs DEF SendOpen
<1>2. PICK s \in current.libraries : s.lib = c.stamp.lib /\ Request(l, "open", s, id)
  BY <1>l DEF SendOpen
<1>3. c.generation = current.generation /\ c.stamp = s /\ s \in Stamps
  <2> QED BY <1>2 DEF OneEach, Held, TodoIsListed, ClientIs, Catalogs
<1> DEFINE f == [op |-> "open", call |-> id, stamp |-> s]
<1>4. Sent(l, f) /\ f \in Frames /\ f.op = "open" /\ f.call = id /\ f.stamp = s
  BY <1>2, <1>3 DEF Request, Sent, Frames, ListOrOpen
<1>5. e.stamp = s /\ e.generation = current.generation /\ e.link = l /\ e.state = "opening"
  BY <1>3
<1>6. awaited' = id /\ todo' \subseteq todo /\ current' = current
  BY <1>2 DEF SendOpen, Request
<1>7. UNCHANGED <<up, opened, jobs, replies, conn>> /\ at' = [at EXCEPT !["registry"] = l]
      /\ step["registry"] = "opens" /\ step'["registry"] = "opening"
  BY <1>l, <1>0 DEF SendOpen, Moves, setup
<1>8. \A o \in Opens : inst[o].state # "opening"
  BY <1>7, NoOpening DEF Held
<1>9. id \notin InUse(l)
  BY <1>2 DEF Request
<1> HIDE DEF e, f
<1>10. inst'[x] = e /\ \A o \in Opens \ {x} : inst'[o] = inst[o]
  BY <1>0, <1>1
<1>11. TodoIsListed'
  BY <1>6, <1>7 DEF Held, TodoIsListed
<1>12. GenerationNamesLink'
  BY <1>l, <1>5, <1>6, <1>10 DEF Held, GenerationNamesLink
<1>13. OpeningIsOne'
  BY <1>0, <1>1, <1>5, <1>7, <1>8, <1>10 DEF OpeningIsOne
<1>14. \A p \in Opens : inst[p].state = "closed" => inst'[p] = inst[p]
  BY <1>1, <1>10
<1>15. \A m \in Links : \A i \in 1 .. Len(wire'[m]) :
         (OnWire(m, wire'[m][i]) /\ wire'[m][i] \in {wire[m][k] : k \in 1 .. Len(wire[m])}) \/ (m = l /\ wire'[m][i] = f)
  <2> HIDE DEF Frames
  <2> QED BY <1>0, <1>4, SentIs
<1>16. ClosesTell'
  <2>1. ASSUME NEW m \in Links, NEW i \in 1 .. Len(wire'[m]), wire'[m][i].op = "close"
        PROVE  ClosedUnder(m, wire[m][i].stamp)'
    <3>1. PICK k \in 1 .. Len(wire[m]) : wire'[m][i] = wire[m][k]
      BY <1>4, <1>15, <2>1
    <3> QED BY <1>14, <3>1, <2>1 DEF ClosedUnder, Held, AnswersTell, ClosesTell
  <2> QED BY <2>1 DEF ClosesTell
<1>17. Asks(x)'
  <2>1. ASSUME NEW i \in 1 .. Len(wire'[l]), wire'[l][i].call = id
        PROVE  wire'[l][i].op = "open" /\ wire'[l][i].stamp = s
    <3>1. wire'[l][i] = f
      BY <1>0, <1>15, <1>9, <2>1 DEF InUse
    <3> QED BY <1>4, <3>1
  <2>2. inst'[x].link = l /\ inst'[x].stamp = s
    BY <1>5, <1>10
  <2>3. /\ \A i \in 1 .. Len(wire'[inst'[x].link]) :
             wire'[inst'[x].link][i].call = awaited' =>
               wire'[inst'[x].link][i].op = "open" /\ wire'[inst'[x].link][i].stamp = inst'[x].stamp
        /\ \A j \in jobs' : j.link = inst'[x].link /\ j.call = awaited' => j.op = "open" /\ j.stamp = inst'[x].stamp
        /\ \A r \in replies'[inst'[x].link] : r.call # awaited'
    BY <1>6, <1>7, <1>9, <2>1, <2>2 DEF InUse
  <2> QED BY <2>3 DEF Asks
<1>18. ASSUME NEW o \in Opens, inst'[o].state \in {"serving", "retired"} PROVE Filed(o)'
  <2>1. o # x /\ inst'[o] = inst[o]
    BY <1>5, <1>10, <1>18
  <2>2. Filed(o)
    BY <1>18, <2>1 DEF Held, AnswersTell
  <2>3. HoldsUnder(inst[o].link, inst[o].stamp) => HoldsUnder(inst[o].link, inst[o].stamp)'
    BY <1>7, <2>1 DEF HoldsUnder
  <2> QED BY <1>7, <1>14, <2>1, <2>2, <2>3, FiledStays
<1>19. AnswersTell'
  <2>1. ASSUME NEW o \in Opens, inst'[o].state = "opening" PROVE Asks(o)'
    <3>1. o = x
      BY <1>8, <1>10, <2>1
    <3> QED BY <1>17, <3>1
  <2> QED BY <1>16, <1>18, <2>1 DEF AnswersTell
<1>20. AskedAfter'
  BY <1>5, <1>7, <1>10 DEF Held, AskedAfter
<1> QED BY <1>11, <1>12, <1>13, <1>19, <1>20 DEF Held

\* The OPEN awaited is answered, or is given up.
LEMMA HeldAnswered ==
  ASSUME Held, ClientIs, Carried, OpenFails \/ OpenAnswered PROVE Held'
<1>0. step \in [Threads -> Steps] /\ "registry" \in Threads
      /\ inst \in [Opens -> {Unused} \cup Opened]
  BY DEF ClientIs, Threads
<1>1. /\ \A l \in Links : replies'[l] \subseteq replies[l]
      /\ UNCHANGED <<conn, jobs, up, opened>>
  BY RefreshShrinks DEF Refreshing
<1>2. /\ UNCHANGED <<wire, todo, current>>
      /\ step["registry"] = "opening" /\ step'["registry"] = "opens"
  BY <1>0 DEF OpenFails, OpenAnswered, Moves
<1>3. /\ Opening \in Opens /\ inst[Opening].state = "opening" /\ inst[Opening].link = at["registry"]
      /\ \A o \in Opens : inst[o].state = "opening" => o = Opening
  BY <1>2, OpeningIs DEF Held
<1>4. ASSUME NEW o \in Opens
      PROVE  \/ inst'[o] = inst[o] /\ o # Opening
             \/ inst'[o].state = "unused" /\ o = Opening
             \/ /\ inst[o].state = "serving" /\ inst'[o].state = "retired" /\ o # Opening
                /\ inst'[o].link = inst[o].link /\ inst'[o].stamp = inst[o].stamp /\ inst'[o].generation = inst[o].generation
             \/ /\ o = Opening /\ OpenAnswered /\ inst'[o].state = "serving"
                /\ inst'[o].link = inst[o].link /\ inst'[o].stamp = inst[o].stamp /\ inst'[o].generation = inst[o].generation
  <2>1. ASSUME NEW st, inst[o].state # "unused", inst'[o] = [inst[o] EXCEPT !.state = st]
        PROVE  /\ inst'[o].state = st /\ inst'[o].link = inst[o].link
               /\ inst'[o].stamp = inst[o].stamp /\ inst'[o].generation = inst[o].generation
    BY <1>0, <2>1 DEF Unused, Opened
  <2>2. CASE OpenFails
    BY <1>0, <1>3, <2>2 DEF OpenFails, Unused
  <2>3. CASE OpenAnswered
    BY <1>3, <2>1, <2>3 DEF OpenAnswered, Serving
  <2> QED BY <2>2, <2>3
<1>5. TodoIsListed'
  BY <1>2 DEF Held, TodoIsListed
<1>6. GenerationNamesLink'
  BY <1>2, <1>3, <1>4 DEF Held, GenerationNamesLink
<1>7. \A o \in Opens : inst'[o].state # "opening"
  BY <1>3, <1>4
<1>8. OpeningIsOne'
  BY <1>2, <1>7 DEF OpeningIsOne
<1>9. OpenAnswered => \E r \in replies[inst[Opening].link] : r.is = "ok" /\ r.call = awaited
  BY <1>3 DEF OpenAnswered, Replied
<1>10. AnswersTell'
  <2>1. \A l \in Links : \A i \in 1 .. Len(wire'[l]) : OnWire(l, wire'[l][i])
    BY <1>2 DEF OnWire, SameFrame
  <2>2. \A p \in Opens : inst[p].state = "closed" => inst'[p] = inst[p]
    BY <1>3, <1>4
  <2>3. \A o \in Opens : inst'[o].state \in {"serving", "retired"} =>
          /\ inst'[o].link = inst[o].link /\ inst'[o].stamp = inst[o].stamp
          /\ inst[o].state \in {"serving", "retired"} \/ Filed(o)
    BY <1>4, <1>3, <1>9 DEF Held, AnswersTell, Asks
  <2> QED BY <1>1, <1>7, <2>1, <2>2, <2>3, AnswersNoOpening DEF Held
<1>11. AskedAfter'
  <2> QED BY <1>1, <1>4, <1>9, <1>0, <1>3, AskedRefresh DEF Held, Unused, Opened
<1> QED BY <1>5, <1>6, <1>8, <1>10, <1>11 DEF Held

\* The registry closes what it has retired.
LEMMA HeldCollects ==
  ASSUME Held, ClientIs, Carried, NEW o \in Opens, Collect(o) PROVE Held'
<1>0. /\ inst \in [Opens -> {Unused} \cup Opened] /\ inst[o] \in Opened
      /\ inst[o].state = "retired" /\ step["registry"] = "idle"
  BY DEF ClientIs, Collect, Unused
<1>1. /\ \A l \in Links : replies'[l] \subseteq replies[l]
      /\ UNCHANGED <<conn, jobs, up, opened, step, at, todo, current>>
  BY RefreshShrinks DEF Refreshing, Collect
<1>2. /\ inst'[o].state = "closed" /\ inst'[o].link = inst[o].link /\ inst'[o].stamp = inst[o].stamp
      /\ inst'[o].generation = inst[o].generation
      /\ \A p \in Opens \ {o} : inst'[p] = inst[p]
  BY <1>0 DEF Collect, Opened
<1>3. \A p \in Opens : inst[p].state # "opening"
  BY <1>0, NoOpening DEF Held
<1>4. \A l \in Links : \A i \in 1 .. Len(wire'[l]) :
        OnWire(l, wire'[l][i]) \/ wire'[l][i].op # "close" \/ ClosedUnder(l, wire[l][i].stamp)'
  <2>1. CASE ~ClosesOver(o)
    BY <2>1 DEF Collect, OnWire, SameFrame
  <2>2. CASE ClosesOver(o)
    <3> DEFINE f == [op |-> "close", call |-> 0, stamp |-> inst[o].stamp]
    <3>1. Sent(current.link, f) /\ current.link \in Links /\ f.stamp = inst[o].stamp
      BY <2>2 DEF Collect, Sent, ClosesOver, ClientIs
    <3>2. f \in Frames
      BY <1>0 DEF Frames, Opened
    <3>3. inst[o].link = current.link
      BY <1>0, <2>2 DEF ClosesOver, Held, GenerationNamesLink
    <3> HIDE DEF f, Frames
    <3>4. ASSUME NEW l \in Links, NEW i \in 1 .. Len(wire'[l]), ~OnWire(l, wire'[l][i])
          PROVE  ClosedUnder(l, wire[l][i].stamp)'
      BY <1>2, <3>1, <3>3, <3>2, <3>4, SentIs DEF ClosedUnder
    <3> QED BY <3>4
  <2> QED BY <2>1, <2>2
<1>5. AnswersTell'
  <2>1. \A p \in Opens : inst[p].state = "closed" => inst'[p] = inst[p]
    BY <1>0, <1>2
  <2>2. \A p \in Opens : inst'[p].state # "opening"
    BY <1>2, <1>3
  <2>3. \A p \in Opens : inst'[p].state \in {"serving", "retired"} =>
          /\ inst'[p].link = inst[p].link /\ inst'[p].stamp = inst[p].stamp
          /\ inst[p].state \in {"serving", "retired"}
    BY <1>2
  <2> QED BY <1>1, <1>4, <2>1, <2>2, <2>3, AnswersNoOpening DEF Held
<1>6. AskedAfter'
  BY <1>1, <1>2, AskedRefresh DEF Held
<1>7. TodoIsListed' /\ GenerationNamesLink' /\ OpeningIsOne'
  BY <1>0, <1>1, <1>2, <1>3 DEF Held, TodoIsListed, GenerationNamesLink, OpeningIsOne
<1> QED BY <1>5, <1>6, <1>7 DEF Held

-----------------------------------------------------------------------------
(* All of it.                                                              *)

LEMMA RemServer == ASSUME RemInv, ServerStep, UNCHANGED clientVars PROVE RemInv'
<1> USE DEF RemInv
<1>1. Counted'
  BY CountedServer
<1>2. KeepsOne'
  BY KeepsOneAlone DEF clientVars
<1>3. TodoIsListed' /\ GenerationNamesLink' /\ OpeningIsOne'
  BY DEF Held, TodoIsListed, GenerationNamesLink, OpeningIsOne, clientVars
<1>4. scope' = scope
  BY DEF ServerStep, Changing, Answering, EndingLinks, Serve, Refresh, CountRefreshed, LoadThrough, RetireThrough, Route,
     AnswerList, Hold, FileOpen, EndLinks, TakeLive, TakeClosers, EndLinksReturns, EndOne, CloseOne, ServeReads,
     KeepCloser, LookAgain, Shaken, ShakeFails, DropHeld, KeepLink, EndMissed, DropEnded, LinkEnds, EndedOpened,
     EndedLive, registry
<1>5. ClientIs'
  BY <1>4, ClientAlone
<1>6. CASE Changing
  <2>1. UNCHANGED <<setup, up, shut, parting, traffic>>
    BY <1>6 DEF Changing, Refresh, CountRefreshed, LoadThrough, RetireThrough
  <2>2. Settled'
    BY <1>4, <2>1, SettledAlone DEF setting
  <2>3. Stocked' /\ Carried' /\ AnswersTell' /\ AskedAfter'
    BY <1>4, <1>6, <2>1, StockedChanging, CarriedAlone, AnswersQuiet DEF Held
  <2> QED BY <1>1, <1>2, <1>3, <1>5, <2>2, <2>3 DEF Held
<1>7. CASE EndingLinks
  <2>1. Settled'
    BY <1>7, SettledEnder, SettledEnds DEF EndingLinks
  <2> QED
    BY <1>1, <1>2, <1>3, <1>5, <2>1, <1>4, <1>7, StockedAlone, CarriedAlone, AnswersQuiet
      DEF Held, EndingLinks, EndLinks, TakeLive, TakeClosers, EndLinksReturns, EndOne, CloseOne
<1>8. CASE Answering
  <2>1. Settled' /\ Stocked' /\ Carried'
    BY <1>4, <1>8, SettledAlone, StockedAlone, CarriedAnswering
      DEF setting, Answering, Route, AnswerList, Hold, FileOpen
  <2> QED BY <1>1, <1>2, <1>3, <1>5, <2>1, <1>8, HeldRoute, HeldAnswers DEF Held, Answering
<1>9. ASSUME NEW l \in Links, Serve(l) PROVE RemInv'
  <2>1. UNCHANGED registry
    BY <1>9 DEF Serve, ServeReads, KeepCloser, LookAgain, Shaken, ShakeFails, DropHeld, KeepLink, EndMissed, DropEnded,
       LinkEnds, EndedOpened, EndedLive
  <2>2. Settled' /\ Stocked'
    BY <1>9, <2>1, SettledServe, SettledEnds, StockedAlone DEF Serve
  <2>3. CASE EndedOpened(l)
    BY <1>1, <1>2, <1>3, <1>5, <2>2, <2>3, CarriedEnded, HeldEnded DEF Held
  <2>4. CASE ~EndedOpened(l)
    <3>1. UNCHANGED traffic
      BY <1>9, <2>4 DEF Serve, ServeReads, KeepCloser, LookAgain, Shaken, ShakeFails, DropHeld, KeepLink, EndMissed,
         DropEnded, LinkEnds, EndedLive
    <3> QED
      BY <1>1, <1>2, <1>3, <1>5, <2>2, <1>4, <1>9, <2>4, <3>1, CarriedAlone, AnswersQuiet
        DEF Held
  <2> QED BY <2>3, <2>4
<1> QED BY <1>6, <1>7, <1>8, <1>9 DEF ServerStep

LEMMA RemClient ==
  ASSUME RemInv, \/ \E t \in Threads : Linking(t)
                 \/ Disconnect \/ \E l \in Links : EndDoomed(l) \/ ClientSees(l)
  PROVE  RemInv'
<1> USE DEF RemInv
<1>1. UNCHANGED <<registry, traffic>>
  BY DEF Linking, Begin, Look, ConnectFails, ClientShaken, ClientShakeFails, Keep, Connect, Disconnect, EndDoomed,
     ClientSees, serverVars
<1>2. Stocked' /\ Carried'
  BY <1>1, StockedAlone, CarriedAlone DEF registry
<1>3. ASSUME NEW t \in Threads, Linking(t) PROVE RemInv'
  <2>1. Settled'
    <3>1. CASE ClientShakeFails(t) \/ \E l \in Links : Connect(t, l)
      BY <3>1, SettledClient
    <3>2. CASE ~(ClientShakeFails(t) \/ \E l \in Links : Connect(t, l))
      <4>1. UNCHANGED setting
        BY <1>3, <3>2 DEF Linking, Begin, Look, ConnectFails, ClientShaken, Keep, serverVars, registry, setting
      <4> QED BY <4>1, SettledAlone
    <3> QED BY <3>1, <3>2
  <2> QED BY <1>2, <1>3, <2>1, ClientLinking, CountedLinking, KeepsOneLinking, HeldLinking
<1>4. CASE Disconnect \/ \E l \in Links : EndDoomed(l) \/ ClientSees(l)
  <2>1. Settled'
    <3>1. CASE \E l \in Links : EndDoomed(l)
      BY <3>1, SettledClient
    <3>2. CASE Disconnect \/ \E l \in Links : ClientSees(l)
      BY <3>2, SettledAlone DEF Disconnect, ClientSees, serverVars, registry, setting
    <3> QED BY <1>4, <3>1, <3>2
  <2> QED BY <1>2, <1>4, <2>1, ClientEnds, CountedEnds, KeepsOneEnds, HeldEnds
<1> QED BY <1>3, <1>4

LEMMA RemRefresh == ASSUME RemInv, Refreshing PROVE RemInv'
<1> USE DEF RemInv
<1>1. UNCHANGED <<registry, setup, up, shut, parting>>
  BY DEF Refreshing, ListFails, ListAnswered, OpenFails, OpenAnswered, RefreshReturns, SendList, SendOpen, CannotOpen,
     Collect, serverVars
<1>2. Settled' /\ Stocked'
  BY <1>1, SettledAlone, StockedAlone DEF setting, registry
<1>3. Carried' /\ ClientIs' /\ Counted' /\ KeepsOne'
  BY CarriedRefresh, ClientRefresh, CountedRefresh, KeepsOneRefresh DEF Held
<1>4. Held'
  BY HeldList, HeldListed, HeldPasses, HeldSends, HeldAnswered, HeldCollects DEF Refreshing
<1> QED BY <1>2, <1>3, <1>4

LEMMA RemDrop == ASSUME RemInv, NEW l, NEW r, DropReply(l, r) PROVE RemInv'
<1> USE DEF RemInv
<1>1. UNCHANGED <<registry, setup, up, shut, parting, clientVars>>
  BY DEF DropReply
<1>2. Settled' /\ Stocked' /\ ClientIs'
  BY <1>1, SettledAlone, StockedAlone, ClientAlone DEF setting, registry
<1>3. Counted' /\ KeepsOne'
  BY <1>1, CountedAlone, KeepsOneAlone DEF setup, clientVars
<1>4. Carried' /\ Held'
  BY CarriedDrop, HeldDrop
<1> QED BY <1>2, <1>3, <1>4

LEMMA RemStutter == ASSUME RemInv, UNCHANGED vars PROVE RemInv'
<1> USE DEF RemInv
<1>1. UNCHANGED <<registry, setup, up, shut, parting, traffic, clientVars>>
  BY DEF vars, serverVars
<1>2. Settled' /\ Stocked' /\ ClientIs' /\ Carried'
  BY <1>1, SettledAlone, StockedAlone, ClientAlone, CarriedAlone DEF setting, registry
<1>3. Counted' /\ KeepsOne'
  BY <1>1, CountedAlone, KeepsOneAlone DEF setup, clientVars
<1>4. Held'
  BY <1>1, AnswersStay, AskedStays
     DEF Held, TodoIsListed, GenerationNamesLink, OpeningIsOne, clientVars, setup, traffic
<1> QED BY <1>2, <1>3, <1>4

\* What the links, the registry and the client's records are to one another.
THEOREM RemoteInv == Spec => []RemInv
<1>1. Init => RemInv
  BY SettledFirst, StockedFirst, CarriedFirst, ClientFirst, HeldFirst DEF RemInv
<1>2. RemInv /\ [Next]_vars => RemInv'
  BY RemServer, RemClient, RemRefresh, RemDrop, RemStutter DEF Next
<1> QED BY <1>1, <1>2, PTL DEF Spec

\* An end_links ends every link that was being served when it began, and the
\* server's `live` holds the links that run and no other.
THEOREM ServerEnds == Spec => []ServerEndsLinks
<1>1. RemInv => ServerEndsLinks
  <2> SUFFICES ASSUME RemInv PROVE ServerEndsLinks
    OBVIOUS
  <2> USE DEF RemInv
  <2>1. EndLinksEndsAll
    BY DEF EndLinksEndsAll, Settled, SettledTypes, SeenInTime
  <2>2. LiveIsExact
    BY DEF LiveIsExact, Settled, SettledTypes, LivesOnce, KeptWhileLive
  <2>3. \A l \in Links : \A h \in opened[l] : h.stamp \in Stamps /\ h.load \in 1 .. scope.loads
    BY DEF Carried
  <2>4. generations <= Cardinality({l \in Links : conn[l] # "none"})
    <3> DEFINE C == {l \in Links : conn[l] # "none"}
    <3>1. Made \subseteq C /\ C \subseteq Links
      BY DEF Made
    <3>2. IsFiniteSet(C)
      BY <3>1, FS_Subset, RemoteAssumption
    <3> HIDE DEF C, Made
    <3>3. generations <= Cardinality(C)
      BY <3>1, <3>2, FS_Subset, FS_CardinalityType DEF Counted
    <3> QED BY <3>3 DEF C
  <2>5. current.link \in Links \cup {None} /\ current.libraries \subseteq Stamps
    BY DEF ClientIs, Catalogs
  <2>6. TypeOK
    BY RemoteAssumption, <2>3, <2>4, <2>5, CountedIsLoaded DEF TypeOK, Settled, SettledTypes, ClientIs, Stocked
  <2> QED BY <2>1, <2>2, <2>6 DEF ServerEndsLinks
<1> QED BY <1>1, RemoteInv, PTL

\* A peer keeps one link, and none that was begun before a disconnect.
THEOREM ClientKeeps == Spec => []ClientKeepsOne
<1>1. RemInv => ClientKeepsOne
  BY DEF RemInv, KeepsOne, ClientKeepsOne
<1> QED BY <1>1, RemoteInv, PTL

\* What is held under a stamp stays the load the stamp is of.
LEMMA ToldStep == ASSUME RemInv, Told, ~Reloads, [Next]_vars PROVE Told'
<1> USE DEF RemInv
<1>1. CASE ServerStep /\ UNCHANGED clientVars
  <2>1. CASE Changing
    BY <2>1, ToldChanging
  <2>2. CASE Answering
    BY <2>2, ToldAnswering
  <2>3. CASE EndingLinks
    BY <2>3, ToldAlone DEF EndingLinks, EndLinks, TakeLive, TakeClosers, EndLinksReturns, EndOne, CloseOne, traffic
  <2>4. ASSUME NEW l \in Links, Serve(l) PROVE Told'
    <3>1. CASE EndedOpened(l)
      BY <3>1, ToldShrinks DEF Told, EndedOpened, Carried
    <3>2. CASE ~EndedOpened(l)
      BY <2>4, <3>2, ToldAlone DEF Serve, ServeReads, KeepCloser, LookAgain, Shaken, ShakeFails, DropHeld, KeepLink,
         EndMissed, DropEnded, LinkEnds, EndedLive, traffic
    <3> QED BY <3>1, <3>2
  <2> QED BY <1>1, <2>1, <2>2, <2>3, <2>4 DEF ServerStep
<1>2. CASE \/ \E t \in Threads : Linking(t)
           \/ Disconnect \/ \E l \in Links : EndDoomed(l) \/ ClientSees(l)
  BY <1>2, ToldAlone DEF Linking, Begin, Look, ConnectFails, ClientShaken, ClientShakeFails, Keep, Connect, Disconnect,
     EndDoomed, ClientSees, serverVars, traffic
<1>3. CASE Refreshing
  BY <1>3, ToldAlone DEF Refreshing, ListFails, ListAnswered, OpenFails, OpenAnswered, RefreshReturns, SendList, SendOpen,
     CannotOpen, Collect, serverVars, traffic
<1>4. CASE \E l \in Links : \E r \in replies[l] : DropReply(l, r)
  BY <1>4, ToldAlone DEF DropReply
<1>5. CASE UNCHANGED vars
  BY <1>5, ToldAlone DEF vars, serverVars, traffic
<1> QED BY <1>1, <1>2, <1>3, <1>4, <1>5 DEF Next

\* Where no host loads again what it retired, what is open under a stamp is the
\* load it was opened as, and no close takes away what is still held.
THEOREM OpenedServed == ASSUME ~Reloads PROVE Spec => []OpenedIsServed
<1>1. Init => Told
  BY StockedFirst
<1>2. RemInv /\ Told /\ [Next]_vars => Told'
  BY ToldStep
<1>3. RemInv /\ Told => OpenedIsServed
  <2> SUFFICES ASSUME RemInv, Told PROVE OpenedIsServed
    OBVIOUS
  <2>1. StampTellsLoad
    <3>1. ASSUME NEW l \in Links, NEW h \in opened[l], h.stamp \in Catalog, Uncounted(h.stamp.lib) = {}
          PROVE  h.load = loaded[h.stamp.lib]
      <4> QED BY <3>1, CatalogTells DEF Tells, RemInv, Told
    <3> QED BY <3>1 DEF StampTellsLoad
  <2>2. HeldIsServed
    <3>1. ASSUME NEW o \in Opens, inst[o].state \in {"serving", "retired"}, ~OpenedTwice(o), inst[o].link \in up
          PROVE  \E h \in opened[inst[o].link] : h.stamp = inst[o].stamp
      <4> QED BY <3>1 DEF Filed, HoldsUnder, ClosedUnder, OpenedTwice, RemInv, Held, AnswersTell
    <3> QED BY <3>1 DEF HeldIsServed, HeldFor
  <2> QED BY <2>1, <2>2 DEF OpenedIsServed
<1> QED BY <1>1, <1>2, <1>3, RemoteInv, PTL DEF Spec
=============================================================================
