------------------------------ MODULE Described ------------------------------
(***************************************************************************)
(* A source of the peers that manifests describe (client.rs, Described):   *)
(* every refresh of the registry reads the manifests, makes, keeps,        *)
(* replaces or drops a peer for each, lists them and opens what changed,   *)
(* while links die, manifests change and another thread disconnects.       *)
(*                                                                         *)
(* A peer serves one library; its stamp is the generation of the link it   *)
(* was listed over.  Listing one peer is a step: Remote has its parts.     *)
(* A manifest that is refused without touching a peer (a name with `/`, a  *)
(* name given twice) is as one that is absent.  Peers are numbered as they *)
(* are made, so that the later of two of one name is the greater.          *)
(***************************************************************************)
EXTENDS Naturals, FiniteSets

CONSTANTS
  Names,      \* the names manifests give
  MaxPeers,   \* bound: peers ever made
  MaxLinks,   \* bound: links ever made
  MaxEdits,   \* bound: changes of manifests
  MaxOpens    \* bound: libraries the registry holds at once

ASSUME DescribedAssumption ==
  /\ IsFiniteSet(Names)
  /\ MaxPeers \in Nat /\ MaxLinks \in Nat /\ MaxOpens \in Nat
  /\ MaxEdits \in Nat \ {0}

VARIABLES
  disk,      \* what the manifest of each name says now: a peer (its edit), nothing of one, or is gone
  edits,
  named,     \* Listing.named: the peer of each name (0 for none) and its description
  leaving,   \* Listing.leaving
  peer,      \* each Peer made
  links,     \* Described.generations
  lister,    \* the list under way: the Listing it makes, who is listed, the answers
  tried,     \* the registry's: the stamp last tried for each name, 0 for none
  holds,     \* the registry's: the libraries it has open
  ending,    \* the peers a disconnect has still to end: those named, then those leaving
  dropped,   \* history: the peers whose name no manifest gave any more
  crossed    \* history: a library was opened over another link than its stamp's

dvars == <<disk, edits, named, leaving, peer, links, lister, tried, holds, ending, dropped, crossed>>

Peers == 1 .. MaxPeers
Unmade == [link |-> 0, up |-> FALSE, lists |-> FALSE, listed |-> {}, ever |-> FALSE,
           opened |-> [g \in 1 .. MaxLinks |-> 0]]
Idle == [pc |-> "idle", todo |-> {}, failed |-> {}, made |-> 0,
         named |-> [n \in Names |-> [peer |-> 0, edit |-> 0]], leaving |-> {}]

DescribedInit ==
  /\ disk = [n \in Names |-> [says |-> "peer", edit |-> 1]]
  /\ edits = 1
  /\ named = Idle.named
  /\ leaving = {}
  /\ peer = [p \in Peers |-> Unmade]
  /\ links = 0
  /\ lister = Idle
  /\ tried = [n \in Names |-> 0]
  /\ holds = {}
  /\ ending = [named |-> {}, leaving |-> {}]
  /\ dropped = {}
  /\ crossed = FALSE

-----------------------------------------------------------------------------
\* Peer::holds.
HoldsAny(p) == \E g \in 1 .. MaxLinks : p.opened[g] > 0

\* Mutant of Disconnected: what the link listed stays.
DisconnectedMutant(P, all) ==
  [p \in Peers |-> IF p \in P THEN [all[p] EXCEPT !.up = FALSE, !.link = 0] ELSE all[p]]

\* Peer::disconnect of each peer of P.
Disconnected(P, all) ==
  [p \in Peers |-> IF p \in P THEN [all[p] EXCEPT !.up = FALSE, !.link = 0, !.lists = FALSE]
                   ELSE all[p]]

\* Someone edits, breaks or removes a manifest.
Rewrite(n, says) ==
  /\ edits < MaxEdits
  /\ edits' = edits + 1
  /\ disk' = [disk EXCEPT ![n] = [says |-> says, edit |-> edits + 1]]
  /\ UNCHANGED <<named, leaving, peer, links, lister, tried, holds, ending, dropped, crossed>>

LinkDies(p) ==
  /\ peer[p].up
  /\ peer' = [peer EXCEPT ![p].up = FALSE]
  /\ UNCHANGED <<disk, edits, named, leaving, links, lister, tried, holds, ending, dropped, crossed>>

\* Mutant of Dropped: a peer no manifest names keeps its link.
DroppedMutant == {}

\* The peers of names no manifest gives any more.
Dropped == {named[n].peer : n \in {x \in Names : disk[x].says = "none"}} \ {0}

\* The names whose peer gives way: described anew, or no longer readable as
\* a peer.
Replaced == {n \in Names : disk[n].says # "none" /\ named[n].peer # 0 /\ named[n].edit # disk[n].edit}

\* Described::list up to list_each: every name keeps its peer, gets a new one
\* or has none, from the state as it is now and the manifests as they are.
ListBegin ==
  /\ lister.pc = "idle"
  /\ LET fresh == {n \in Names : disk[n].says = "peer" /\ named[n].edit # disk[n].edit}
         number == CHOOSE f \in [fresh -> 1 .. Cardinality(fresh)] :
                     \A x, y \in fresh : x # y => f[x] # f[y]
         made == lister.made + Cardinality(fresh)
         now == [n \in Names |->
                   IF disk[n].says # "peer" THEN [peer |-> 0, edit |-> 0]
                   ELSE IF n \in fresh THEN [peer |-> lister.made + number[n], edit |-> disk[n].edit]
                   ELSE named[n]]
         goes == {[name |-> n, peer |-> named[n].peer] : n \in Replaced}
     IN /\ made <= MaxPeers
        /\ lister' = [pc |-> "listing", named |-> now, made |-> made, failed |-> {},
                      leaving |-> leaving \cup goes,
                      todo |-> {now[n].peer : n \in Names} \ {0}]
  /\ peer' = Disconnected(Dropped, peer)
  /\ dropped' = dropped \cup ({named[n].peer : n \in {x \in Names : disk[x].says = "none"}} \ {0})
  /\ UNCHANGED <<disk, edits, named, leaving, links, tried, holds, ending, crossed>>

\* Mutant of NewLink: each peer counts its own links.
NewLinkMutant(p) == peer[p].link + 1

\* The generation of a new link of peer p, counted across every peer.
NewLink(p) == links + 1

\* list_each, one peer: over its link if it lives, else over a new one.  It
\* lists its library or nothing.
PeerLists(p, lists) ==
  /\ lister.pc = "listing"
  /\ p \in lister.todo
  /\ peer[p].up \/ links < MaxLinks
  /\ LET g == IF peer[p].up THEN peer[p].link ELSE NewLink(p) IN
       /\ peer' = [peer EXCEPT ![p] = [@ EXCEPT !.up = TRUE, !.link = g, !.lists = lists,
                                               !.ever = TRUE,
                                               !.listed = IF lists THEN {g} ELSE {}]]
       /\ links' = IF peer[p].up THEN links ELSE links + 1
  /\ lister' = [lister EXCEPT !.todo = @ \ {p}]
  /\ UNCHANGED <<disk, edits, named, leaving, tried, holds, ending, dropped, crossed>>

\* A peer that cannot be reached, or whose link (a new one, if it had none)
\* cannot be listed.
PeerFails(p, connects) ==
  /\ lister.pc = "listing"
  /\ p \in lister.todo
  /\ connects => links < MaxLinks /\ ~peer[p].up
  /\ peer' = IF connects
             THEN [peer EXCEPT ![p] = [@ EXCEPT !.up = TRUE, !.link = NewLink(p), !.lists = FALSE]]
             ELSE peer
  /\ links' = links + IF connects THEN 1 ELSE 0
  /\ lister' = [lister EXCEPT !.todo = @ \ {p}, !.failed = @ \cup {p}]
  /\ UNCHANGED <<disk, edits, named, leaving, tried, holds, ending, dropped, crossed>>

\* The last of the peers in a list of those leaving, 0 for none.
LastOf(going) ==
  LET found == {e.peer : e \in going} IN
  IF found = {} THEN 0 ELSE CHOOSE p \in found : \A q \in found : q <= p

\* Mutant of ListedFor: a new peer that fails lists nothing.
ListedForMutant(n) ==
  LET p == lister.named[n].peer IN IF p = 0 THEN {} ELSE peer[p].listed

\* What is listed under name n: what its peer answered; what it answered last
\* when it fails now; and while a new peer never answered, what the peer it
\* replaces listed last, if the registry holds something of that one.
ListedFor(n) ==
  LET p == lister.named[n].peer
      was == LastOf({e \in lister.leaving : e.name = n /\ HoldsAny(peer[e.peer])})
  IN IF p = 0 THEN {}
     ELSE IF p \in lister.failed /\ ~peer[p].ever /\ was # 0 THEN peer[was].listed
     ELSE peer[p].listed

\* Mutant of Staying: a replaced peer stays for good.
StayingMutant(going, all) == going

\* Listing::let_go: the replaced peers that stay ...
Staying(going, all) == {e \in going : HoldsAny(all[e.peer])}

\* ... and those that go, their links ended.
Going(going, all) == {e.peer : e \in going \ Staying(going, all)}

\* Described::list's end: the listing is stored, and the registry retires
\* what is not listed and takes up what changed.
ListStore ==
  /\ lister.pc = "listing"
  /\ lister.todo = {}
  /\ named' = lister.named
  /\ leaving' = Staying(lister.leaving, peer)
  /\ peer' = Disconnected(Going(lister.leaving, peer), peer)
  /\ tried' = [n \in Names |-> IF ListedFor(n) = {} THEN 0 ELSE tried[n]]
  /\ holds' = {[o EXCEPT !.serving = @ /\ ListedFor(o.name) # {}] : o \in holds}
  /\ lister' = [Idle EXCEPT !.pc = "opening", !.made = lister.made,
                !.todo = {c \in [name : Names, stamp : 1 .. MaxLinks] :
                            c.stamp \in ListedFor(c.name) \ {tried[c.name]}}]
  /\ UNCHANGED <<disk, edits, links, ending, dropped, crossed>>

\* Described::open: the peer of the name, or the last of those it replaced
\* that lists the library while it does not.
Opener(n) ==
  LET p == named[n].peer
      was == LastOf({e \in leaving : e.name = n /\ peer[e.peer].lists})
  IN IF p = 0 \/ was = 0 THEN p ELSE IF peer[p].lists THEN p ELSE was

\* Registry::refresh_source opens candidate c, which is tried and kept under
\* the stamp listed; Peer::open counts it under its link's.
OpenOne(c, opens) ==
  /\ lister.pc = "opening"
  /\ c \in lister.todo
  /\ LET p == Opener(c.name)
         able == p # 0 /\ peer[p].lists /\ peer[p].up
     IN IF opens
        THEN /\ able
             /\ Cardinality(holds) < MaxOpens
             /\ peer' = [peer EXCEPT ![p].opened[peer[p].link] = @ + 1]
             /\ holds' = {[o EXCEPT !.serving = @ /\ o.name # c.name] : o \in holds}
                          \cup {[name |-> c.name, peer |-> p, stamp |-> c.stamp, serving |-> TRUE,
                                 id |-> CHOOSE i \in 1 .. MaxOpens : \A o \in holds : o.id # i]}
             /\ crossed' = (crossed \/ peer[p].link # c.stamp)
        ELSE UNCHANGED <<peer, holds, crossed>>
  /\ tried' = [tried EXCEPT ![c.name] = c.stamp]
  /\ lister' = [lister EXCEPT !.todo = @ \ {c}]
  /\ UNCHANGED <<disk, edits, named, leaving, links, ending, dropped>>

RefreshEnds ==
  /\ lister.pc = "opening"
  /\ lister.todo = {}
  /\ lister' = [lister EXCEPT !.pc = "idle"]
  /\ UNCHANGED <<disk, edits, named, leaving, peer, links, tried, holds, ending, dropped, crossed>>

\* Described::close of what the registry collects: every peer the name has or
\* had closes it, each by the stamp; then replaced peers are let go of.
CloseOne(o) ==
  /\ lister.pc = "idle"
  /\ o \in holds
  /\ ~o.serving
  /\ holds' = holds \ {o}
  /\ LET asked == ({named[o.name].peer} \ {0})
                    \cup {e.peer : e \in {x \in leaving : x.name = o.name}}
         after == [p \in Peers |->
                     IF p \in asked /\ peer[p].opened[o.stamp] > 0
                     THEN [peer[p] EXCEPT !.opened[o.stamp] = @ - 1] ELSE peer[p]]
     IN /\ leaving' = Staying(leaving, after)
        /\ peer' = Disconnected(Going(leaving, after), after)
  /\ UNCHANGED <<disk, edits, named, links, lister, tried, ending, dropped, crossed>>

\* RemoteSource::disconnect, from another thread: the peers stored now ...
DisconnectBegins ==
  /\ ending.named = {} /\ ending.leaving = {}
  /\ ending' = [named |-> {named[n].peer : n \in Names} \ {0}, leaving |-> {e.peer : e \in leaving}]
  /\ UNCHANGED <<disk, edits, named, leaving, peer, links, lister, tried, holds, dropped, crossed>>

\* ... are ended one after the other.
DisconnectsOne(p) ==
  /\ p \in (IF ending.named # {} THEN ending.named ELSE ending.leaving)
  /\ peer' = Disconnected({p}, peer)
  /\ ending' = IF ending.named # {} THEN [ending EXCEPT !.named = @ \ {p}]
               ELSE [ending EXCEPT !.leaving = @ \ {p}]
  /\ UNCHANGED <<disk, edits, named, leaving, links, lister, tried, holds, dropped, crossed>>

DescribedNext ==
  \/ \E n \in Names : \E says \in {"peer", "bad", "none"} : Rewrite(n, says)
  \/ \E p \in Peers : LinkDies(p) \/ DisconnectsOne(p)
  \/ ListBegin
  \/ \E p \in Peers, yes \in BOOLEAN : PeerLists(p, yes) \/ PeerFails(p, yes)
  \/ ListStore \/ RefreshEnds \/ DisconnectBegins
  \/ \E c \in lister.todo, opens \in BOOLEAN : OpenOne(c, opens)
  \/ \E o \in holds : CloseOne(o)

-----------------------------------------------------------------------------
(* What must hold.                                                         *)

Kept ==
  (({named[n].peer : n \in Names} \cup {lister.named[n].peer : n \in Names}) \ {0})
    \cup {e.peer : e \in leaving \cup lister.leaving}

\* Every part is what the code says it is.
DescribedTypeOK ==
  /\ named \in [Names -> [peer : 0 .. MaxPeers, edit : 0 .. MaxEdits]]
  /\ leaving \subseteq [name : Names, peer : Peers]
  /\ tried \in [Names -> 0 .. MaxLinks]
  /\ links \in 0 .. MaxLinks
  /\ \A p \in Peers : peer[p].link \in 0 .. links /\ (peer[p].lists \/ peer[p].up => peer[p].link # 0)
  /\ holds \subseteq [name : Names, peer : Peers, stamp : 1 .. MaxLinks, serving : BOOLEAN,
                  id : 1 .. MaxOpens]

\* A peer counts exactly what the registry holds of it, as long as the source
\* knows it, and the source knows it for as long as the registry holds
\* something of it, however often its description changed: a close always
\* finds the peer that opened the library, and no other.  Unless a library was
\* opened over another link than the one its stamp is of, which Opener does
\* (client.rs:668-678) when the peer listed has lost its link since and one it
\* replaced lists the library too: that one counts it under a stamp no close
\* will name.
HoldsAreCounted == ~crossed =>
  /\ \A p \in Kept, g \in 1 .. MaxLinks :
       peer[p].opened[g] = Cardinality({o \in holds : o.peer = p /\ o.stamp = g})
  /\ \A o \in holds : o.peer \in Kept \cup dropped

\* A replaced peer is kept for what the registry holds of it and no longer.
LeavingAreHeld == \A e \in leaving : HoldsAny(peer[e.peer])

\* No link outlives what the source knows of its peer: a dropped peer's and a
\* replaced one's are ended.
NoLinkLeft == \A p \in Peers : peer[p].up => p \in Kept

\* A listing that fails retires nothing: while a peer cannot be listed, or one
\* described anew cannot be yet, what is served under its name stays served
\* (as long as none was opened over another link than its stamp's).
OutageRetiresNothing ==
  [][\A o \in holds :
       ~crossed /\ lister.pc = "listing" /\ lister'.pc = "opening" /\ o.serving
       /\ lister.named[o.name].peer \in lister.failed => o \in holds']_dvars

\* A peer is kept, and its link lives, exactly as long as it is described or
\* held.
PeersAreKept == DescribedTypeOK /\ HoldsAreCounted /\ LeavingAreHeld /\ NoLinkLeft
=============================================================================
