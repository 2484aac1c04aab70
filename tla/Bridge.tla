------------------------------ MODULE Bridge ------------------------------
(***************************************************************************)
(* A language bridge's source (guatiao-bridge source.rs) under a registry  *)
(* that refreshes from it: one manifest, edited at any moment, whose       *)
(* library the engine opens and closes.  The registry names a build it     *)
(* closes by its id and the stamp it was listed under, and nothing else.   *)
(*                                                                         *)
(* A stamp stands for the content of a manifest and the newest time of its *)
(* code, so that a manifest edited back has the stamp it had.  A build is  *)
(* numbered as the engine opens it.                                        *)
(***************************************************************************)
EXTENDS Naturals, Sequences, FiniteSets

CONSTANTS
  Stamps,     \* contents of the manifest
  MaxBuilds,  \* opens of a behaviour
  Absent      \* no manifest, no build

ASSUME BridgeAssumption == Absent \notin Stamps /\ MaxBuilds \in Nat

VARIABLES
  manifest,  \* on disk: a stamp, or Absent
  latest,    \* BridgeSource.listed: the stamp last listed, or Absent
  filed,     \* BridgeSource.open: of each build, the stamp it is filed under
  builds,    \* each build made: the stamp the registry knows it by, the content opened
  served,    \* the build registered, or 0
  retired,   \* Registry.leaving, of this source
  handled,   \* the builds handles hold
  tried,   \* the source's entry of `tried`
  refusal,   \* the last open was refused
  refresh    \* the stamp a refresh is about to open, or Absent

bridgevars == <<manifest, latest, filed, builds, served, retired, handled, tried, refusal, refresh>>

BridgeInit ==
  /\ manifest \in Stamps \cup {Absent}
  /\ latest = Absent
  /\ filed = <<>>
  /\ builds = <<>>
  /\ served = 0
  /\ retired = {}
  /\ handled = {}
  /\ tried = Absent
  /\ refusal = FALSE
  /\ refresh = Absent

-----------------------------------------------------------------------------
(* BridgeSource.                                                           *)

\* Mutant of FiledAs: the stamp of what was opened.
FiledAsMutant == manifest

\* opened: the stamp last listed, or the manifest's own.
FiledAs == IF latest = Absent THEN manifest ELSE latest

\* Mutant of NamedBy: the id alone.
NamedByMutant(entry, stamp) == TRUE

\* close looks for an entry of the id and stamp.
NamedBy(entry, stamp) == entry = stamp

\* The entries that a close of what is named as entry b finds no later than b:
\* builds are filed in the order of their numbers.
FoundBy(entries, b) == {c \in DOMAIN entries : c <= b /\ NamedBy(entries[c], entries[b])}

\* What is still filed once each build of `gone` is closed: each close takes
\* the first entry it finds, so as many of a stamp go as are asked for.
Closed(entries, gone, made) ==
  LET asked(b) == {g \in gone : NamedBy(entries[b], made[g].stamp)}
      kept     == {b \in DOMAIN entries :
                     Cardinality(FoundBy(entries, b)) > Cardinality(asked(b))}
  IN [b \in kept |-> entries[b]]

\* The libraries the engine has open.
EngineOpen == DOMAIN filed

-----------------------------------------------------------------------------
(* The registry.                                                           *)

\* What collect closes: retired builds no handle holds.
Unheld == retired \ handled

\* The file is written, or removed, whatever else is going on.
Edits(content) ==
  /\ manifest # content
  /\ manifest' = content
  /\ UNCHANGED <<latest, filed, builds, served, retired, handled, tried, refusal, refresh>>

\* A handle is taken of the build registered.
Handles ==
  /\ served # 0 /\ served \notin handled
  /\ handled' = handled \cup {served}
  /\ UNCHANGED <<manifest, latest, filed, builds, served, retired, tried, refusal, refresh>>

Lets(b) ==
  /\ b \in handled
  /\ handled' = handled \ {b}
  /\ UNCHANGED <<manifest, latest, filed, builds, served, retired, tried, refusal, refresh>>

\* Mutant of Tried: an id tried before is not tried again.
TriedMutant(stamp) == tried # Absent

\* The candidate was tried at this stamp already.
Tried(stamp) == tried = stamp

\* refresh: collect, list, and what is listed no more retired.
RefreshList ==
  /\ refresh = Absent
  /\ latest' = manifest
  /\ filed' = Closed(filed, Unheld, builds)
  /\ refresh' = IF manifest # Absent /\ ~Tried(manifest) THEN manifest ELSE Absent
  /\ IF manifest = Absent
     THEN /\ tried' = Absent
          /\ served' = 0
          /\ retired' = (retired \ Unheld) \cup ({served} \ {0})
     ELSE /\ retired' = retired \ Unheld
          /\ UNCHANGED <<tried, served>>
  /\ UNCHANGED <<manifest, builds, handled, refusal>>

\* open finds no manifest, a broken one, an engine that refuses, or no tables
\* for what the engine declared, which is closed again at once.
RefreshRefused ==
  /\ refresh # Absent
  /\ tried' = refresh
  /\ refusal' = TRUE
  /\ refresh' = Absent
  /\ UNCHANGED <<manifest, latest, filed, builds, served, retired, handled>>

\* What is opened replaces the build registered, which is retired (collecting
\* first); what is opened and not taken (its id, or a skip) is closed.
RefreshOpen(taken) ==
  /\ refresh # Absent
  /\ manifest # Absent
  /\ Len(builds) < MaxBuilds
  /\ builds' = Append(builds, [stamp |-> refresh, code |-> manifest])
  /\ LET new  == Len(builds) + 1
         with == [b \in EngineOpen \cup {new} |-> IF b = new THEN FiledAs ELSE filed[b]]
         gone == (IF served # 0 THEN Unheld ELSE {}) \cup (IF taken THEN {} ELSE {new})
     IN /\ filed' = Closed(with, gone, builds')
        /\ served' = IF taken THEN new ELSE 0
        /\ retired' = IF served # 0 THEN (retired \ Unheld) \cup {served} ELSE retired
  /\ tried' = refresh
  /\ refusal' = ~taken
  /\ refresh' = Absent
  /\ UNCHANGED <<manifest, latest, handled>>

\* The host retires the library itself.
HostRetires ==
  /\ refresh = Absent
  /\ served # 0
  /\ filed' = Closed(filed, Unheld, builds)
  /\ retired' = (retired \ Unheld) \cup {served}
  /\ served' = 0
  /\ UNCHANGED <<manifest, latest, builds, handled, tried, refusal, refresh>>

HostCollects ==
  /\ refresh = Absent
  /\ Unheld # {}
  /\ filed' = Closed(filed, Unheld, builds)
  /\ retired' = retired \ Unheld
  /\ UNCHANGED <<manifest, latest, builds, served, handled, tried, refusal, refresh>>

BridgeNext ==
  \/ \E content \in Stamps \cup {Absent} : Edits(content)
  \/ Handles
  \/ \E b \in handled : Lets(b)
  \/ RefreshList
  \/ RefreshRefused
  \/ \E taken \in BOOLEAN : RefreshOpen(taken)
  \/ HostRetires
  \/ HostCollects

-----------------------------------------------------------------------------
(* What must hold.                                                         *)

\* Every build the registry has is filed once under the stamp the registry
\* closes it by, and nothing else is: no close misses, and the engine keeps no
\* library that was let go, though the manifest is edited between a listing
\* and the open after it.
EveryBuildFiled ==
  \A s \in Stamps :
    Cardinality({b \in EngineOpen : filed[b] = s}) =
    Cardinality({b \in retired \cup ({served} \ {0}) : builds[b].stamp = s})

\* The engine closes nothing that is held or served, unless the registry has
\* had two builds of one stamp: then the older goes, whichever was closed.
HeldIsOpen ==
  \A b \in handled \cup ({served} \ {0}) :
    \/ b \in EngineOpen
    \/ \E c \in DOMAIN builds : c # b /\ builds[c].stamp = builds[b].stamp

\* A refresh that ends with the manifest as it listed it serves that content,
\* or nothing, unless its open was refused, or the manifest was edited between
\* the listing and the open and then edited back.
ServedIsFresh ==
  refresh = Absent /\ manifest = latest /\ served # 0 =>
    \/ builds[served].code = manifest
    \/ refusal
    \/ builds[served].code # builds[served].stamp

\* What the registry holds the engine holds, what it closes the engine closes,
\* and what it serves is what the manifest says.
BuildsAreFiled == EveryBuildFiled /\ HeldIsOpen /\ ServedIsFresh
=============================================================================
