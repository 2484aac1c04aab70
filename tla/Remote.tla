------------------------------- MODULE Remote -------------------------------
(***************************************************************************)
(* The host's side of a remote link (client.rs, one peer), over Server: a  *)
(* refresh of the host's registry connects, lists and opens over a link    *)
(* while another thread connects or disconnects the same source, links     *)
(* end, and the registry closes what its handles have let go.              *)
(*                                                                         *)
(* A connection is also its link, on both sides.  `current` is Peer's, its *)
(* catalog the stamps listed.  Every step that holds Peer.current is one   *)
(* action; connecting, the handshake and each request are not.             *)
(***************************************************************************)
EXTENDS Server

CONSTANTS
  Hosts,    \* the threads that connect through a host's own calls
  Opens,    \* the libraries the host's registry ever opens
  CallIds,  \* call ids in use at once on a link
  None

Threads == {"registry"} \cup Hosts

ASSUME RemoteAssumption ==
  /\ IsFiniteSet(Links) /\ Links \subseteq Nat
  /\ None \notin Links
  /\ IsFiniteSet(Opens)
  /\ IsFiniteSet(Refreshers)
  /\ CallIds \subseteq Nat \ {0}
  /\ Reloads \in BOOLEAN
  /\ \A s \in Scopes : /\ s.loads \in Nat
                       /\ s.ends \in Nat
                       /\ s.disconnects \in Nat
                       /\ s.opens \in 0 .. Cardinality(Opens)
                       /\ s.closer \in BOOLEAN

VARIABLES
  clientUp,     \* the client's end of each link is alive
  doomed,       \* links a thread has taken and is about to end
  current,      \* Peer.current
  disconnects,  \* Peer.disconnects
  generations,  \* Peer.generations
  step,         \* where each thread is
  at,           \* the link each thread has in hand
  saw,          \* `disconnects` as each thread read it before connecting
  awaited,      \* the call the refresh waits for
  todo,         \* the candidates a refresh has still to look at
  tried,        \* SourceState.tried: the stamp last tried, as listed
  inst          \* what the registry has opened

clientVars == <<clientUp, doomed, current, disconnects, generations, step, at, saw,
                awaited, todo, tried, inst>>
vars == <<serverVars, clientVars>>

NoCurrent == [link |-> None, generation |-> 0, saw |-> 0, libraries |-> {}]
Unused == [stamp |-> None, generation |-> 0, link |-> None, state |-> "unused"]

Init ==
  /\ ServerInit
  /\ clientUp = {}
  /\ doomed = {}
  /\ current = NoCurrent
  /\ disconnects = 0
  /\ generations = 0
  /\ step = [t \in Threads |-> "idle"]
  /\ at = [t \in Threads |-> None]
  /\ saw = [t \in Threads |-> 0]
  /\ awaited = 0
  /\ todo = {}
  /\ tried = [b \in Libraries |-> None]
  /\ inst = [o \in Opens |-> Unused]

Moves(t, to) == step' = [step EXCEPT ![t] = to]

\* Peer::list or Peer::link fails: the refresh (or the host) gets the error.
Fails(t) ==
  /\ step' = [step EXCEPT ![t] = "idle"]
  /\ at' = [at EXCEPT ![t] = None]

-----------------------------------------------------------------------------
(* Peer::link.                                                             *)

\* Registry::refresh, and RemoteSource::link.
Begin(t) ==
  /\ step[t] = "idle"
  /\ t \in scope.threads
  /\ Moves(t, "look")
  /\ UNCHANGED <<serverVars, clientUp, doomed, current, disconnects, generations, at, saw,
                 awaited, todo, tried, inst>>

\* A link that lives is taken; else `disconnects` is read.  (One that comes
\* between the look and the read is as one before both.)
Look(t) ==
  /\ step[t] = "look"
  /\ IF current.link \in clientUp
     THEN /\ Moves(t, IF t = "registry" THEN "list" ELSE "idle")
          /\ at' = [at EXCEPT ![t] = IF t = "registry" THEN current.link ELSE None]
          /\ UNCHANGED saw
     ELSE /\ Moves(t, "connect")
          /\ saw' = [saw EXCEPT ![t] = disconnects]
          /\ UNCHANGED at
  /\ UNCHANGED <<serverVars, clientUp, doomed, current, disconnects, generations, awaited,
                 todo, tried, inst>>

\* Connect::connect.
Connect(t, l) ==
  /\ step[t] = "connect"
  /\ conn[l] = "none"
  /\ \A m \in Links : m < l => conn[m] # "none"
  /\ l <= scope.links
  /\ conn' = [conn EXCEPT ![l] = "accepted"]
  /\ Moves(t, "shake")
  /\ at' = [at EXCEPT ![t] = l]
  /\ UNCHANGED <<registry, seen, live, handshaking, ends, ender, due, up, shut, parting, traffic,
                 clientUp, doomed, current, disconnects, generations, saw, awaited, todo, tried, inst>>

ConnectFails(t) ==
  /\ step[t] = "connect"
  /\ scope.faulty \/ \A l \in Links : conn[l] # "none" \/ l > scope.links
  /\ Fails(t)
  /\ UNCHANGED <<serverVars, clientUp, doomed, current, disconnects, generations, saw, awaited,
                 todo, tried, inst>>

\* Link::client succeeds ...
ClientShaken(t) ==
  /\ step[t] = "shake"
  /\ conn[at[t]] \notin {"accepted", "read", "kept"}
  /\ scope.faulty \/ conn[at[t]] = "served"
  /\ at[t] \notin shut
  /\ clientUp' = clientUp \cup {at[t]}
  /\ Moves(t, "keep")
  /\ UNCHANGED <<serverVars, doomed, current, disconnects, generations, at, saw, awaited, todo,
                 tried, inst>>

\* ... or fails: refused, closed under it, or past its timeout.
ClientShakeFails(t) ==
  /\ step[t] = "shake"
  /\ at[t] \in shut \/ scope.faulty
  /\ shut' = shut \cup {at[t]}
  /\ Fails(t)
  /\ UNCHANGED <<registry, setup, up, parting, traffic, clientUp, doomed, current, disconnects,
                 generations, saw, awaited, todo, tried, inst>>

\* Mutant of Refused: whoever disconnected meanwhile is not asked about.
RefusedMutant(t) == FALSE

\* The source was disconnected while this thread connected.
Refused(t) == disconnects # saw[t]

\* Mutant of Unkept: the second of two links is left as it is.
UnkeptMutant(t) == IF Refused(t) THEN {at[t]} ELSE {}

\* The links that Keep ends: the one made, when it is not kept.
Unkept(t) == IF Refused(t) \/ current.link \in clientUp THEN {at[t]} ELSE {}

\* Peer::link under the lock: the link is kept under a new generation, unless
\* the source was disconnected, or another thread's link lives by now.
Keep(t) ==
  /\ step[t] = "keep"
  /\ LET theirs == ~Refused(t) /\ current.link \in clientUp
         kept == ~Refused(t) /\ ~theirs
         goesOn == t = "registry" /\ ~Refused(t)
     IN /\ doomed' = doomed \cup Unkept(t)
        /\ generations' = generations + IF kept THEN 1 ELSE 0
        /\ current' = IF kept THEN [link |-> at[t], generation |-> generations + 1,
                                    saw |-> saw[t], libraries |-> {}]
                      ELSE current
        /\ Moves(t, IF goesOn THEN "list" ELSE "idle")
        /\ at' = [at EXCEPT ![t] = IF ~goesOn THEN None
                                   ELSE IF theirs THEN current.link ELSE @]
  /\ UNCHANGED <<serverVars, clientUp, disconnects, saw, awaited, todo, tried, inst>>

\* Mutant of Disconnect: it takes a generation as a connection does.
DisconnectMutant ==
  /\ disconnects < scope.disconnects
  /\ disconnects' = disconnects + 1
  /\ generations' = generations + 1
  /\ doomed' = doomed \cup (clientUp \cap {current.link})
  /\ current' = NoCurrent
  /\ UNCHANGED <<serverVars, clientUp, step, at, saw, awaited, todo, tried, inst>>

\* Peer::disconnect under the lock: the link is taken, to be ended.
Disconnect ==
  /\ disconnects < scope.disconnects
  /\ disconnects' = disconnects + 1
  /\ doomed' = doomed \cup (clientUp \cap {current.link})
  /\ current' = NoCurrent
  /\ UNCHANGED <<serverVars, clientUp, generations, step, at, saw, awaited, todo, tried, inst>>

\* Link::end on the client's side.
EndDoomed(l) ==
  /\ l \in doomed
  /\ doomed' = doomed \ {l}
  /\ clientUp' = clientUp \ {l}
  /\ shut' = shut \cup {l}
  /\ UNCHANGED <<registry, setup, up, parting, traffic, current, disconnects, generations, step,
                 at, saw, awaited, todo, tried, inst>>

\* The client's reader finds the connection closed.
ClientSees(l) ==
  /\ l \in clientUp \cap shut
  /\ clientUp' = clientUp \ {l}
  /\ UNCHANGED <<serverVars, doomed, current, disconnects, generations, step, at, saw, awaited,
                 todo, tried, inst>>

-----------------------------------------------------------------------------
(* Peer::list, Peer::open and the registry's refresh over them.            *)

InUse(l) ==
  {wire[l][i].call : i \in 1 .. Len(wire[l])} \cup {j.call : j \in {k \in jobs : k.link = l}}
    \cup {r.call : r \in replies[l]}

\* Inner::request, up to the wait: a call id of its own, and its frame.
Request(l, op, stamp, id) ==
  /\ id \in CallIds \ InUse(l)
  /\ \A other \in CallIds \ InUse(l) : id <= other
  /\ awaited' = id
  /\ wire' = [wire EXCEPT ![l] = Append(@, [op |-> op, call |-> id, stamp |-> stamp])]

\* The answer has come for the call awaited.
Replied(r) ==
  /\ r \in replies[at["registry"]]
  /\ r.call = awaited
  /\ replies' = [replies EXCEPT ![at["registry"]] = @ \ {r}]

\* The wait ends without an answer: the link ended, or the time ran out.
Unanswered ==
  /\ at["registry"] \in clientUp => scope.faulty
  /\ replies' = [replies EXCEPT ![at["registry"]] = {r \in @ : r.call # awaited}]

SendList(id) ==
  /\ step["registry"] = "list"
  /\ at["registry"] \in clientUp
  /\ Request(at["registry"], "list", None, id)
  /\ Moves("registry", "listing")
  /\ UNCHANGED <<registry, setup, up, shut, parting, opened, jobs, replies, clientUp, doomed,
                 current, disconnects, generations, at, saw, todo, tried, inst>>

\* LIST fails: refused, unanswered in time, or the link is dead.
ListFails ==
  /\ \/ step["registry"] = "list" /\ at["registry"] \notin clientUp /\ Unanswered
     \/ step["registry"] = "listing" /\ Unanswered
     \/ step["registry"] = "listing" /\ \E r \in replies[at["registry"]] : r.is = "refused" /\ Replied(r)
  /\ Fails("registry")
  /\ awaited' = 0
  /\ UNCHANGED <<registry, setup, up, shut, parting, opened, jobs, wire, clientUp, doomed,
                 current, disconnects, generations, saw, todo, tried, inst>>

\* As a candidate's stamp is listed: the peer's, and the link's generation.
Listed(stamp, g) == [stamp |-> stamp, generation |-> g]

\* What the registry serves under library b's id.
Serving(b) == {o \in Opens : inst[o].state = "serving" /\ inst[o].stamp.lib = b}

\* Peer::list under the lock, for a link that is still the peer's: its
\* catalog is kept, and the registry retires what it no longer lists.
ListAnswered ==
  /\ step["registry"] = "listing"
  /\ \E r \in replies[at["registry"]] :
       /\ r.is = "ok"
       /\ Replied(r)
       /\ awaited' = 0
       /\ IF current.link = at["registry"]
          THEN LET here == {s.lib : s \in r.catalog} IN
               /\ current' = [current EXCEPT !.libraries = r.catalog]
               /\ todo' = {Listed(s, current.generation) : s \in r.catalog}
                           \ {tried[b] : b \in Libraries}
               /\ tried' = [b \in Libraries |-> IF b \in here THEN tried[b] ELSE None]
               /\ inst' = [o \in Opens |->
                             IF \E b \in Libraries \ here : o \in Serving(b)
                             THEN [inst[o] EXCEPT !.state = "retired"] ELSE inst[o]]
               /\ Moves("registry", "opens")
               /\ UNCHANGED at
          ELSE /\ Fails("registry")
               /\ UNCHANGED <<current, todo, tried, inst>>
  /\ UNCHANGED <<registry, setup, up, shut, parting, opened, jobs, wire, clientUp, doomed,
                 disconnects, generations, saw>>

\* Bound: what the registry ever opens.
Room == Cardinality({o \in Opens : inst[o].state # "unused"}) < scope.opens

\* Peer::open under the lock: the link and the entry as they are now, and
\* the OPEN.  The registry files the candidate as it was listed.
SendOpen(c, id) ==
  /\ step["registry"] = "opens"
  /\ c \in todo
  /\ Room
  /\ current.link \in clientUp
  /\ \E s \in current.libraries :
       /\ s.lib = c.stamp.lib
       /\ Request(current.link, "open", s, id)
  /\ at' = [at EXCEPT !["registry"] = current.link]
  /\ inst' = [inst EXCEPT ![CHOOSE o \in Opens : inst[o].state = "unused"] =
                [stamp |-> c.stamp, generation |-> c.generation, link |-> current.link,
                 state |-> "opening"]]
  /\ tried' = [tried EXCEPT ![c.stamp.lib] = c]
  /\ todo' = todo \ {c}
  /\ Moves("registry", "opening")
  /\ UNCHANGED <<registry, setup, up, shut, parting, opened, jobs, replies, clientUp, doomed,
                 current, disconnects, generations, saw>>

\* Peer::open with no link, no such entry or a dead link: refused, and not
\* tried again under this stamp.
CannotOpen(c) ==
  /\ step["registry"] = "opens"
  /\ c \in todo
  /\ \/ c.stamp.lib \notin {s.lib : s \in current.libraries}
     \/ current.link \notin clientUp
  /\ tried' = [tried EXCEPT ![c.stamp.lib] = c]
  /\ todo' = todo \ {c}
  /\ UNCHANGED <<serverVars, clientUp, doomed, current, disconnects, generations, step, at, saw,
                 awaited, inst>>

Opening == CHOOSE o \in Opens : inst[o].state = "opening"

\* OPEN is refused or unanswered; or it is answered, and the library cannot
\* be built of what the catalog says: the peer is not told.
OpenFails ==
  /\ step["registry"] = "opening"
  /\ \/ Unanswered
     \/ \E r \in replies[at["registry"]] : Replied(r) /\ (r.is = "ok" => scope.faulty)
  /\ awaited' = 0
  /\ inst' = [inst EXCEPT ![Opening] = Unused]
  /\ Moves("registry", "opens")
  /\ UNCHANGED <<registry, setup, up, shut, parting, opened, jobs, wire, clientUp, doomed,
                 current, disconnects, generations, at, saw, todo, tried>>

\* The library is built and registered, the build before it retired.
OpenAnswered ==
  /\ step["registry"] = "opening"
  /\ \E r \in replies[at["registry"]] : r.is = "ok" /\ Replied(r)
  /\ awaited' = 0
  /\ inst' = [o \in Opens |->
                IF o = Opening THEN [inst[o] EXCEPT !.state = "serving"]
                ELSE IF o \in Serving(inst[Opening].stamp.lib) THEN [inst[o] EXCEPT !.state = "retired"]
                ELSE inst[o]]
  /\ Moves("registry", "opens")
  /\ UNCHANGED <<registry, setup, up, shut, parting, opened, jobs, wire, clientUp, doomed,
                 current, disconnects, generations, at, saw, todo, tried>>

RefreshReturns ==
  /\ step["registry"] = "opens"
  /\ todo = {} \/ ~Room
  /\ Fails("registry")
  /\ todo' = {}
  /\ UNCHANGED <<serverVars, clientUp, doomed, current, disconnects, generations, saw, awaited,
                 tried, inst>>

\* Peer::close finds the link the library was opened over still the peer's.
ClosesOver(o) == current.generation = inst[o].generation /\ current.link \in clientUp

\* The registry collects a retired library whose handles are gone: the
\* source's close, which tells the peer over the link that opened it.
Collect(o) ==
  /\ step["registry"] = "idle"
  /\ inst[o].state = "retired"
  /\ inst' = [inst EXCEPT ![o].state = "closed"]
  /\ wire' = IF ClosesOver(o)
             THEN [wire EXCEPT ![current.link] =
                     Append(@, [op |-> "close", call |-> 0, stamp |-> inst[o].stamp])]
             ELSE wire
  /\ UNCHANGED <<registry, setup, up, shut, parting, opened, jobs, replies, clientUp, doomed,
                 current, disconnects, generations, step, at, saw, awaited, todo, tried>>

\* An answer nobody waits for any more is dropped as it is routed.
DropReply(l, r) ==
  /\ r \in replies[l]
  /\ ~(l = at["registry"] /\ r.call = awaited)
  /\ replies' = [replies EXCEPT ![l] = @ \ {r}]
  /\ UNCHANGED <<registry, setup, up, shut, parting, opened, jobs, wire, clientVars>>

-----------------------------------------------------------------------------
Linking(t) ==
  \/ Begin(t) \/ Look(t) \/ ConnectFails(t) \/ ClientShaken(t) \/ ClientShakeFails(t) \/ Keep(t)
  \/ \E l \in Links : Connect(t, l)

Refreshing ==
  \/ ListFails \/ ListAnswered \/ OpenFails \/ OpenAnswered \/ RefreshReturns
  \/ \E id \in CallIds : SendList(id) \/ \E c \in todo : SendOpen(c, id)
  \/ \E c \in todo : CannotOpen(c)
  \/ \E o \in Opens : Collect(o)

Next ==
  \/ ServerStep /\ UNCHANGED clientVars
  \/ \E t \in Threads : Linking(t)
  \/ Refreshing
  \/ Disconnect
  \/ \E l \in Links : EndDoomed(l) \/ ClientSees(l) \/ \E r \in replies[l] : DropReply(l, r)

Spec == Init /\ [][Next]_vars

-----------------------------------------------------------------------------
(* What must hold.                                                         *)

Stamps == [lib : Libraries, generation : 0 .. scope.loads]
Listings == [stamp : Stamps, generation : 1 .. Cardinality(Links)]

\* Every part is what the code says it is; a generation is given once a link.
TypeOK ==
  /\ loaded \in [Libraries -> 0 .. scope.loads]
  /\ generation \in [Libraries -> 0 .. scope.loads]
  /\ up \cup clientUp \cup shut \cup doomed \subseteq Links
  /\ live \cup handshaking \subseteq Links
  /\ \A l \in Links : \A h \in opened[l] : h.stamp \in Stamps /\ h.load \in 1 .. scope.loads
  /\ current.link \in Links \cup {None}
  /\ current.libraries \subseteq Stamps
  /\ generations <= Cardinality({l \in Links : conn[l] # "none"})
  /\ todo \subseteq Listings
  /\ tried \in [Libraries -> Listings \cup {None}]

\* Server::end_links ends every link, and every connection in its handshake,
\* that was being served when it began: once it has returned, such a link is
\* dead if `serve` has returned, and its connection is closed if `serve` still
\* waits for the client.
EndLinksEndsAll ==
  ender.pc = "idle" => \A l \in due :
    /\ conn[l] = "served" => l \notin up
    /\ conn[l] = "shaking" /\ scope.closer => l \in shut

\* Server.live holds the links that run and no other, once `serve` has
\* returned, the link's end is over and no end_links is under way.
LiveIsExact ==
  ender.pc = "idle" =>
    \A l \in Links : conn[l] = "served" /\ parting[l] = {} => (l \in live <=> l \in up)

\* A stamp tells one load from the next: what a link has open under a stamp
\* the catalog lists now is the load registered now, unless a refresh is
\* between loading and counting.
StampTellsLoad ==
  \A l \in Links : \A h \in opened[l] :
    h.stamp \in Catalog /\ Uncounted(h.stamp.lib) = {} => h.load = loaded[h.stamp.lib]

\* One link is kept: any other the client has made is being ended.
OneLink ==
  clientUp \subseteq {current.link} \cup doomed \cup {at[t] : t \in {x \in Threads : step[x] = "keep"}}

\* No link outlives a disconnect: the peer's link was begun after the last
\* one, even if it was being made when that came.
NoneKeptPastDisconnect == current.link # None => current.saw = disconnects

\* Another library was opened over the same link under the same stamp.
OpenedTwice(o) ==
  \E p \in Opens \ {o} : inst[p].link = inst[o].link /\ inst[p].stamp = inst[o].stamp

\* What the registry has open and has not closed, the peer holds for it, while
\* the link lives at both ends: no close of another library takes it away.
HeldFor(o) ==
  inst[o].state \in {"serving", "retired"} /\ inst[o].link \in clientUp \cap up =>
    \E h \in opened[inst[o].link] : h.stamp = inst[o].stamp

HeldIsServed == \A o \in Opens : OpenedTwice(o) \/ HeldFor(o)

\* The server knows the links that run and ends all of them.
ServerEndsLinks == TypeOK /\ EndLinksEndsAll /\ LiveIsExact

\* What the registry has open is served, and is the load it was opened as.
OpenedIsServed == StampTellsLoad /\ HeldIsServed

\* A peer keeps one link, begun after the last disconnect.
ClientKeepsOne == OneLink /\ NoneKeptPastDisconnect
=============================================================================
