------------------------------- MODULE Server -------------------------------
(***************************************************************************)
(* The device's side of a remote link (guatiao-source-remote/src/server.rs *)
(* and the LIST, OPEN and CLOSE of link/mod.rs): a registry's libraries,   *)
(* served over links that are set up, end and are ended from other threads.*)
(*                                                                         *)
(* Each critical section of ServerInner's locks is an action.  A library   *)
(* keeps one key and one version, so its stamp tells its generation apart  *)
(* and nothing else.  A load is numbered; a provider table is the load it  *)
(* belongs to.  Kinds and slots are in module KnownKinds.                  *)
(***************************************************************************)
EXTENDS Naturals, Sequences, FiniteSets

CONSTANTS
  Links,       \* the connections ever made, 1 .. n
  Libraries,   \* the libraries the server's registry may hold, by key
  Scopes,      \* the bounds to check within, one record of them for each behaviour
  Refreshers,  \* the threads that may be in Server::refresh
  Reloads      \* whether a host loads again through `registry()` what it retired

VARIABLES
  scope,       \* the bounds of this behaviour: `loads` of one library, `ends` (calls
               \* of end_links), the client's; whether connections have a closer;
               \* whether anything fails, lags or times out while both ends live
  loaded,      \* the load of each library registered now, 0 for none
  loads,       \* the loads of each library so far
  generation,  \* ServerInner.generations
  uncounted,   \* what each refresh has loaded and not counted yet
  conn,        \* how far `serve` has come with each connection
  seen,        \* `ends` as `serve` first read it
  up,          \* the server's end of each link is alive
  shut,        \* the connection is closed, by either side
  parting,     \* the rest of Inner::end: what `Handler::ended` has still to drop
  ends, live, handshaking,  \* ServerInner
  ender,       \* the end_links under way
  due,         \* connections being served when the last end_links began
  opened,      \* ServerInner.links: per link, the load held under each stamp
  wire,        \* frames on their way from the client, per link
  jobs,        \* LIST and OPEN on the server's pool
  replies      \* answers on their way back, per link

registry == <<scope, loaded, loads, generation, uncounted>>
setup == <<conn, seen, live, handshaking, ends, ender, due>>
traffic == <<opened, wire, jobs, replies>>
serverVars == <<registry, setup, up, shut, parting, traffic>>

ServerInit ==
  /\ scope \in Scopes
  /\ loaded = [b \in Libraries |-> 0]
  /\ loads = [b \in Libraries |-> 0]
  /\ generation = [b \in Libraries |-> 0]
  /\ uncounted = [t \in Refreshers |-> {}]
  /\ conn = [l \in Links |-> "none"]
  /\ seen = [l \in Links |-> 0]
  /\ up = {}
  /\ shut = {}
  /\ parting = [l \in Links |-> {}]
  /\ ends = 0
  /\ live = {}
  /\ handshaking = {}
  /\ ender = [pc |-> "idle", links |-> {}]
  /\ due = {}
  /\ opened = [l \in Links |-> {}]
  /\ wire = [l \in Links |-> <<>>]
  /\ jobs = {}
  /\ replies = [l \in Links |-> {}]

-----------------------------------------------------------------------------
(* The registry it serves.                                                 *)

\* ServerInner::stamp: the key and the version stay, the generation tells.
Stamp(b) == [lib |-> b, generation |-> generation[b]]

\* ServerInner::catalog: under the registry's lock, every library registered
\* under its stamp.
Catalog == {Stamp(b) : b \in {x \in Libraries : loaded[x] # 0}}

\* Server::refresh, its first statement: the registry refreshes its sources,
\* which load some libraries (anew) and retire some.
Refresh(t, new, gone) ==
  /\ uncounted[t] = {}
  /\ new # {} \/ gone # {}
  /\ gone \subseteq {b \in Libraries : loaded[b] # 0} \ new
  /\ \A b \in new : loads[b] < scope.loads
  /\ loads' = [b \in Libraries |-> loads[b] + IF b \in new THEN 1 ELSE 0]
  /\ loaded' = [b \in Libraries |-> IF b \in new THEN loads[b] + 1
                                    ELSE IF b \in gone THEN 0 ELSE loaded[b]]
  /\ uncounted' = [uncounted EXCEPT ![t] = new]
  /\ UNCHANGED <<scope, generation, setup, up, shut, parting, traffic>>

\* Mutant of CountRefreshed: the generations stay.
CountRefreshedMutant(t) ==
  /\ uncounted[t] # {}
  /\ uncounted' = [uncounted EXCEPT ![t] = {}]
  /\ UNCHANGED <<scope, loaded, loads, generation, setup, up, shut, parting, traffic>>

\* Server::refresh, the rest: the registry's lock is gone, and the
\* generations take in what it loaded, though another may have loaded since.
CountRefreshed(t) ==
  /\ uncounted[t] # {}
  /\ generation' = [b \in Libraries |-> generation[b] + IF b \in uncounted[t] THEN 1 ELSE 0]
  /\ uncounted' = [uncounted EXCEPT ![t] = {}]
  /\ UNCHANGED <<scope, loaded, loads, setup, up, shut, parting, traffic>>

\* The refreshes between loading library b and counting it.
Uncounted(b) == {t \in Refreshers : b \in uncounted[t]}

\* A host loading or registering a library through Server::registry.
LoadThrough(b) ==
  /\ loaded[b] = 0
  /\ loads[b] < scope.loads
  /\ loads[b] = 0 \/ Reloads
  /\ loaded' = [loaded EXCEPT ![b] = loads[b] + 1]
  /\ loads' = [loads EXCEPT ![b] = @ + 1]
  /\ UNCHANGED <<scope, generation, uncounted, setup, up, shut, parting, traffic>>

\* A host retiring one through Server::registry.
RetireThrough(b) ==
  /\ loaded[b] # 0
  /\ loaded' = [loaded EXCEPT ![b] = 0]
  /\ UNCHANGED <<scope, loads, generation, uncounted, setup, up, shut, parting, traffic>>

-----------------------------------------------------------------------------
(* Setting links up and ending them.                                       *)

\* Inner::end begins on the server's side of the links of L: dead, the
\* connection closed, what is held for it still to be dropped.
UpWithout(L) == up \ L
ShutWith(L) == shut \cup (L \cap up)
PartingWith(L) == [l \in Links |-> IF l \in L \cap up THEN {"opened", "live"} ELSE parting[l]]

\* Server::serve reads `ends` first.
ServeReads(l) ==
  /\ conn[l] = "accepted"
  /\ conn' = [conn EXCEPT ![l] = "read"]
  /\ seen' = [seen EXCEPT ![l] = ends]
  /\ UNCHANGED <<registry, live, handshaking, ends, ender, due, up, shut, parting, traffic>>

\* It keeps the connection's closer, where it has one.
KeepCloser(l) ==
  /\ conn[l] = "read"
  /\ conn' = [conn EXCEPT ![l] = "kept"]
  /\ handshaking' = IF scope.closer THEN handshaking \cup {l} ELSE handshaking
  /\ UNCHANGED <<registry, seen, live, ends, ender, due, up, shut, parting, traffic>>

\* Mutant of LookAgain: `ends` is not looked at again.
LookAgainMutant(l) ==
  /\ conn[l] = "kept"
  /\ conn' = [conn EXCEPT ![l] = "shaking"]
  /\ UNCHANGED <<registry, seen, live, handshaking, ends, ender, due, up, shut, parting, traffic>>

\* An end_links counted before the closer was kept may have missed it.
LookAgain(l) ==
  /\ conn[l] = "kept"
  /\ conn' = [conn EXCEPT ![l] = "shaking"]
  /\ shut' = IF scope.closer /\ ends # seen[l] THEN shut \cup {l} ELSE shut
  /\ UNCHANGED <<registry, seen, live, handshaking, ends, ender, due, up, parting, traffic>>

\* Link::server succeeds: the link lives, its reader runs.
Shaken(l) ==
  /\ conn[l] = "shaking"
  /\ l \notin shut
  /\ conn' = [conn EXCEPT ![l] = "shaken"]
  /\ up' = up \cup {l}
  /\ UNCHANGED <<registry, seen, live, handshaking, ends, ender, due, shut, parting, traffic>>

\* Link::server fails: the client is silent, refused or gone, or the
\* connection was closed under it.  Its place among the handshakes goes.
ShakeFails(l) ==
  /\ conn[l] = "shaking"
  /\ l \in shut \/ scope.faulty
  /\ conn' = [conn EXCEPT ![l] = "failed"]
  /\ shut' = shut \cup {l}
  /\ handshaking' = handshaking \ {l}
  /\ UNCHANGED <<registry, seen, live, ends, ender, due, up, parting, traffic>>

\* drop(held).
DropHeld(l) ==
  /\ conn[l] = "shaken"
  /\ conn' = [conn EXCEPT ![l] = "held"]
  /\ handshaking' = handshaking \ {l}
  /\ UNCHANGED <<registry, seen, live, ends, ender, due, up, shut, parting, traffic>>

\* The link is kept in `live`.
KeepLink(l) ==
  /\ conn[l] = "held"
  /\ conn' = [conn EXCEPT ![l] = "inserted"]
  /\ live' = live \cup {l}
  /\ UNCHANGED <<registry, seen, handshaking, ends, ender, due, up, shut, parting, traffic>>

\* end_links ran while its handshake did, and may have missed it.
EndMissed(l) ==
  /\ conn[l] = "inserted"
  /\ conn' = [conn EXCEPT ![l] = "looked"]
  /\ LET L == IF ends # seen[l] THEN {l} ELSE {} IN
       /\ up' = UpWithout(L)
       /\ shut' = ShutWith(L)
       /\ parting' = PartingWith(L)
  /\ UNCHANGED <<registry, seen, live, handshaking, ends, ender, due, traffic>>

\* Mutant of DropEnded: a link that ended before it was kept stays in `live`.
DropEndedMutant(l) ==
  /\ conn[l] = "looked"
  /\ conn' = [conn EXCEPT ![l] = "served"]
  /\ UNCHANGED <<registry, seen, live, handshaking, ends, ender, due, up, shut, parting, traffic>>

\* A link that ended before it was kept is removed here: nothing else will.
DropEnded(l) ==
  /\ conn[l] = "looked"
  /\ conn' = [conn EXCEPT ![l] = "served"]
  /\ live' = IF l \in up THEN live ELSE live \ {l}
  /\ UNCHANGED <<registry, seen, handshaking, ends, ender, due, up, shut, parting, traffic>>

\* read_loop finds the connection closed, or it fails: Inner::end.
LinkEnds(l) ==
  /\ l \in up
  /\ up' = UpWithout({l})
  /\ shut' = ShutWith({l})
  /\ parting' = PartingWith({l})
  /\ UNCHANGED <<registry, setup, traffic>>

\* Handler::ended, its first half: what the link has open goes.  Frames that
\* were on their way to its reader are read by nobody.
EndedOpened(l) ==
  /\ "opened" \in parting[l]
  /\ parting' = [parting EXCEPT ![l] = {"live"}]
  /\ opened' = [opened EXCEPT ![l] = {}]
  /\ wire' = [wire EXCEPT ![l] = <<>>]
  /\ UNCHANGED <<registry, setup, up, shut, jobs, replies>>

\* Handler::ended, its second half: the server no longer keeps the link.
EndedLive(l) ==
  /\ parting[l] = {"live"}
  /\ parting' = [parting EXCEPT ![l] = {}]
  /\ live' = live \ {l}
  /\ UNCHANGED <<registry, conn, seen, handshaking, ends, ender, due, up, shut, traffic>>

\* Server::end_links counts itself ...
EndLinks ==
  /\ ender.pc = "idle"
  /\ ends < scope.ends
  /\ ends' = ends + 1
  /\ ender' = [pc |-> "counted", links |-> {}]
  /\ due' = {l \in Links : conn[l] \notin {"none", "accepted"}}
  /\ UNCHANGED <<registry, conn, seen, live, handshaking, up, shut, parting, traffic>>

\* ... takes the links that live ...
TakeLive ==
  /\ ender.pc = "counted"
  /\ ender' = [pc |-> "ending", links |-> live]
  /\ live' = {}
  /\ UNCHANGED <<registry, conn, seen, handshaking, ends, due, up, shut, parting, traffic>>

\* ... ends each ...
EndOne(l) ==
  /\ ender.pc = "ending"
  /\ l \in ender.links
  /\ ender' = [ender EXCEPT !.links = @ \ {l}]
  /\ up' = UpWithout({l})
  /\ shut' = ShutWith({l})
  /\ parting' = PartingWith({l})
  /\ UNCHANGED <<registry, conn, seen, live, handshaking, ends, due, traffic>>

\* ... copies the closers of the connections in their handshake ...
TakeClosers ==
  /\ ender.pc = "ending"
  /\ ender.links = {}
  /\ ender' = [pc |-> "closing", links |-> handshaking]
  /\ UNCHANGED <<registry, conn, seen, live, handshaking, ends, due, up, shut, parting, traffic>>

\* ... and runs each.
CloseOne(l) ==
  /\ ender.pc = "closing"
  /\ l \in ender.links
  /\ ender' = [ender EXCEPT !.links = @ \ {l}]
  /\ shut' = shut \cup {l}
  /\ UNCHANGED <<registry, conn, seen, live, handshaking, ends, due, up, parting, traffic>>

EndLinksReturns ==
  /\ ender.pc = "closing"
  /\ ender.links = {}
  /\ ender' = [ender EXCEPT !.pc = "idle"]
  /\ UNCHANGED <<registry, conn, seen, live, handshaking, ends, due, up, shut, parting, traffic>>

-----------------------------------------------------------------------------
(* Requests.                                                               *)

\* Handler::close: what is held under the stamp goes, here on the reader.
Close(l, stamp) == {h \in opened[l] : h.stamp # stamp}

\* The link's reader routes the next frame: CLOSE at once, LIST and OPEN to
\* the pool, which may refuse them.
Route(l, busy) ==
  /\ l \in up
  /\ busy => scope.faulty
  /\ wire[l] # <<>>
  /\ wire' = [wire EXCEPT ![l] = Tail(@)]
  /\ LET f == Head(wire[l]) IN
       \/ /\ f.op = "close"
          /\ ~busy
          /\ opened' = [opened EXCEPT ![l] = Close(l, f.stamp)]
          /\ UNCHANGED <<jobs, replies>>
       \/ /\ f.op # "close"
          /\ busy
          /\ replies' = [replies EXCEPT ![l] = @ \cup
                         {[call |-> f.call, is |-> "refused", catalog |-> {}]}]
          /\ UNCHANGED <<opened, jobs>>
       \/ /\ f.op # "close"
          /\ ~busy
          /\ jobs' = jobs \cup {[link |-> l, op |-> f.op, call |-> f.call,
                                 stamp |-> f.stamp, load |-> 0]}
          /\ UNCHANGED <<opened, replies>>
  /\ UNCHANGED <<registry, setup, up, shut, parting>>

\* Inner::write: a dead link takes no answer.
Answer(j, is, listing) ==
  [l \in Links |-> replies[l] \cup
     IF l = j.link /\ l \in up THEN {[call |-> j.call, is |-> is, catalog |-> listing]} ELSE {}]

\* answer_list on a pool thread.
AnswerList(j) ==
  /\ j.op = "list"
  /\ jobs' = jobs \ {j}
  /\ replies' = Answer(j, "ok", Catalog)
  /\ UNCHANGED <<registry, setup, up, shut, parting, opened, wire>>

\* ServerInner::hold, under the registry's lock: the load registered under
\* the stamp, or no such library.
Hold(j) ==
  /\ j.op = "open"
  /\ j.load = 0
  /\ IF j.stamp \in Catalog
     THEN /\ jobs' = (jobs \ {j}) \cup {[j EXCEPT !.load = loaded[j.stamp.lib]]}
          /\ UNCHANGED replies
     ELSE /\ jobs' = jobs \ {j}
          /\ replies' = Answer(j, "refused", {})
  /\ UNCHANGED <<registry, setup, up, shut, parting, opened, wire>>

\* ServerInner::open, under the links' lock, and the answer: what the link
\* has open under the stamp already stays.
FileOpen(j) ==
  /\ j.op = "open"
  /\ j.load # 0
  /\ jobs' = jobs \ {j}
  /\ opened' = [opened EXCEPT ![j.link] =
                  IF \E h \in @ : h.stamp = j.stamp THEN @
                  ELSE @ \cup {[stamp |-> j.stamp, load |-> j.load]}]
  /\ replies' = Answer(j, "ok", {})
  /\ UNCHANGED <<registry, setup, up, shut, parting, wire>>

-----------------------------------------------------------------------------
Serve(l) ==
  \/ ServeReads(l) \/ KeepCloser(l) \/ LookAgain(l) \/ Shaken(l) \/ ShakeFails(l)
  \/ DropHeld(l) \/ KeepLink(l) \/ EndMissed(l) \/ DropEnded(l)
  \/ LinkEnds(l) \/ EndedOpened(l) \/ EndedLive(l)

EndingLinks ==
  \/ EndLinks \/ TakeLive \/ TakeClosers \/ EndLinksReturns
  \/ \E l \in Links : EndOne(l) \/ CloseOne(l)

Changing ==
  \/ \E t \in Refreshers : CountRefreshed(t) \/ \E new, gone \in SUBSET Libraries : Refresh(t, new, gone)
  \/ \E b \in Libraries : LoadThrough(b) \/ RetireThrough(b)

Answering ==
  \/ \E l \in Links, busy \in BOOLEAN : Route(l, busy)
  \/ \E j \in jobs : AnswerList(j) \/ Hold(j) \/ FileOpen(j)

ServerStep == Changing \/ EndingLinks \/ Answering \/ \E l \in Links : Serve(l)
=============================================================================
