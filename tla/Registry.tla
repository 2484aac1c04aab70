------------------------------ MODULE Registry ------------------------------
(***************************************************************************)
(* The host's registry of libraries (library/registry.rs, raw/lease.rs,    *)
(* raw/image.rs, raw/host.rs, source.rs): loading, naming, retiring,       *)
(* unloading and collecting libraries while other threads take, clone and  *)
(* drop handles into them, and refreshing what a source serves.            *)
(*                                                                         *)
(* The registry's operations take it by `&mut`: one runs at a time, and a  *)
(* host takes no handle from it meanwhile.  Libraries run beside it all    *)
(* the time: they read the published snapshot and pin what they find, and  *)
(* drop and clone the handles they have.  An operation is split where one  *)
(* of those may come between: unload, and a refresh over its candidates.   *)
(*                                                                         *)
(* A lease is its count, worked out from who holds it.  A stamp is the     *)
(* build it stands for.  A rendered key is the tuple of its fields.        *)
(* Ranking, digests and watched directories are left out.                  *)
(***************************************************************************)
EXTENDS Naturals, Sequences, FiniteSets, SequencesExt

CONSTANTS
  Files,       \* library files, by canonical path
  Linked,      \* the names of libraries the host links
  Candidates,  \* what the source may list
  Builds,      \* builds of libraries
  Contents,    \* the builds that may be found at each place
  LibraryId, Version, Offers, \* what each build declares
  Slot,        \* whether it has an `unload` slot
  Images,
  Image,       \* the image the loader maps each file as
  Regs,        \* bound: the libraries ever registered
  MaxHolds,    \* bound: the handles on one library
  MaxOpens,    \* bound: the loader's count of one image
  KeyTemplates, LibraryKeyTemplates, \* the templates a host sets, its first ones `%id`
  None

Places == Files \cup Linked \cup Candidates

ASSUME RegistryAssumption ==
  /\ IsFiniteSet(Regs)
  /\ Files \cap Linked = {} /\ Files \cap Candidates = {} /\ Linked \cap Candidates = {}
  /\ None \notin Places
  /\ \A b \in Builds : IsFiniteSet(Offers[b])
  /\ Contents \in [Places -> SUBSET Builds]
  /\ Slot \in [Builds -> BOOLEAN]
  /\ Image \in [Files -> Images]
  /\ MaxHolds \in Nat
  /\ MaxOpens \in Nat
  /\ KeyTemplates \subseteq {"id", "library", "id@version"}
  /\ LibraryKeyTemplates \subseteq {"id", "id@version"}
  /\ None \notin Builds

VARIABLES
  alive,       \* the registry has not been dropped
  lib,         \* what each registered library is, and where it is in its life
  providers,   \* Registry.providers, in load order
  byKey,       \* Registry.by_key: a key to an index into `providers`
  key,         \* Registry.key
  libraryKey,  \* Registry.library_key
  published,   \* the snapshot's entries
  holds,       \* the handles and pins on each library, outside the registry
  opens,       \* the loader's count of each image
  unclosed,    \* what the source has opened for each candidate and not closed
  listed,      \* the build the source lists for each candidate now
  serving, tried,  \* SourceState
  op           \* the operation under way

vars == <<alive, lib, providers, byKey, key, libraryKey, published, holds, opens,
          unclosed, listed, serving, tried, op>>
naming == <<key, libraryKey>>
source == <<listed, serving, tried>>

NoLib == [place |-> None, build |-> None, key |-> <<>>, state |-> "unused"]
Idle == [kind |-> "none"]

Init ==
  /\ alive = TRUE
  /\ lib = [r \in Regs |-> NoLib]
  /\ providers = <<>>
  /\ byKey = <<>>
  /\ key = "id"
  /\ libraryKey = "id"
  /\ published = {}
  /\ holds = [r \in Regs |-> 0]
  /\ opens = [i \in Images |-> 0]
  /\ unclosed = [c \in Candidates |-> 0]
  /\ listed \in [Candidates -> Builds \cup {None}]
  /\ \A c \in Candidates : listed[c] \in Contents[c] \cup {None}
  /\ serving = [c \in Candidates |-> None]
  /\ tried = [c \in Candidates |-> None]
  /\ op = Idle

-----------------------------------------------------------------------------
(* Leases.                                                                 *)

One(b) == IF b THEN 1 ELSE 0

\* The providers of library r that the registry holds a view of.
Views(r) == {i \in 1 .. Len(providers) : providers[i].reg = r}

\* Arc::strong_count of r's lease: its record or its entry in `leaving`, the
\* registry's views, the snapshot (once, however many entries), the handles.
StrongCount(r) ==
  One(lib[r].state \in {"loaded", "leaving"}) + Cardinality(Views(r))
    + One(\E p \in published : p.reg = r) + holds[r]

\* Mutant of HoldsBesidesOwn: one of the registry's own too many.
HoldsBesidesOwnMutant(r) ==
  LET own == 2 + Cardinality(Views(r))
  IN IF StrongCount(r) < own THEN 0 ELSE StrongCount(r) - own

\* holds_besides_own.
HoldsBesidesOwn(r) ==
  LET own == 1 + Cardinality(Views(r))
  IN IF StrongCount(r) < own THEN 0 ELSE StrongCount(r) - own

\* Origin::closes.
Closes(place) == place \notin Linked

\* Mutant of Closable: a library one handle still holds is taken as free.
ClosableMutant ==
  {r \in Regs : /\ lib[r].state = "leaving"
                /\ StrongCount(r) <= 2
                /\ Slot[lib[r].build] \/ lib[r].place \in Candidates}

\* The retired libraries collect may close, if those with a slot agree: only
\* `leaving` holds them, and they have a slot or a source.
Closable ==
  {r \in Regs : /\ lib[r].state = "leaving"
                /\ StrongCount(r) <= 1
                /\ Slot[lib[r].build] \/ lib[r].place \in Candidates}

\* What collect closes, by which of the slots agree.
Collectable == {C \in SUBSET Closable : \A r \in Closable \ C : Slot[lib[r].build]}

\* The libraries, the loader's counts and the source's, once the libraries C
\* are closed (Origin::close).
LibClosing(C) == [r \in Regs |-> IF r \in C THEN [lib[r] EXCEPT !.state = "closed"] ELSE lib[r]]

OpensClosing(C) ==
  [i \in Images |-> opens[i] -
     Cardinality({r \in C : lib[r].place \in Files /\ Image[lib[r].place] = i})]

UnclosedClosing(C) ==
  [c \in Candidates |-> unclosed[c] - Cardinality({r \in C : lib[r].place = c})]

-----------------------------------------------------------------------------
(* Naming.                                                                 *)

\* KeyTemplate::render, of a provider and of a library.
Render(template, id, b) ==
  CASE template = "id" -> <<id>>
    [] template = "library" -> <<LibraryId[b]>>
    [] template = "id@version" -> <<id, Version[b]>>

RenderLibrary(template, b) ==
  CASE template = "id" -> <<LibraryId[b]>>
    [] template = "id@version" -> <<LibraryId[b], Version[b]>>

\* by_key, built anew over some providers.
Index(ps) ==
  [k \in {ps[i].key : i \in 1 .. Len(ps)} |->
     CHOOSE i \in 1 .. Len(ps) : ps[i].key = k /\ \A j \in i + 1 .. Len(ps) : ps[j].key # k]

\* The snapshot of some providers.
Entries(ps) == {ps[i] : i \in 1 .. Len(ps)}

\* publish_without.
EntriesWithout(r) == {p \in Entries(providers) : p.reg # r}

\* keyed_by: refused if two would share a key.
KeyedBy(t) ==
  LET rekey == [i \in 1 .. Len(providers) |->
                  [reg |-> providers[i].reg, id |-> providers[i].id,
                   key |-> Render(t, providers[i].id, lib[providers[i].reg].build)]]
  IN
  /\ alive /\ op = Idle
  /\ key # t
  /\ \A i, j \in 1 .. Len(rekey) : rekey[i].key = rekey[j].key => i = j
  /\ key' = t
  /\ providers' = rekey
  /\ byKey' = Index(rekey)
  /\ published' = Entries(rekey)
  /\ UNCHANGED <<alive, lib, libraryKey, holds, opens, unclosed, source, op>>

Registered == {r \in Regs : lib[r].state = "loaded"}

\* libraries_keyed_by, likewise.
LibrariesKeyedBy(t) ==
  /\ alive /\ op = Idle
  /\ libraryKey # t
  /\ \A r, s \in Registered :
       RenderLibrary(t, lib[r].build) = RenderLibrary(t, lib[s].build) => r = s
  /\ libraryKey' = t
  /\ lib' = [r \in Regs |-> IF r \in Registered
                              THEN [lib[r] EXCEPT !.key = RenderLibrary(t, lib[r].build)]
                              ELSE lib[r]]
  /\ UNCHANGED <<alive, providers, byKey, key, published, holds, opens, unclosed, source, op>>

-----------------------------------------------------------------------------
(* Loading.                                                                *)

\* absorb_file: whoever holds a key now, from what is registered.
Holders(ps, index, k) == IF k \in DOMAIN index THEN {ps[index[k]].id} ELSE {}

\* Mutant of KeyTaken: whether it is already loaded is not looked at.
KeyTakenMutant(libs, b) == FALSE

\* The library's key is taken: it is already loaded.
KeyTaken(libs, b) ==
  \E r \in Regs : libs[r].state = "loaded" /\ libs[r].key = RenderLibrary(libraryKey, b)

\* Two different providers on one key, registered or of this library.
Clashes(ps, index, b) ==
  \E u, v \in Offers[b] :
    \/ \E held \in Holders(ps, index, Render(key, v, b)) : held # v
    \/ u # v /\ Render(key, u, b) = Render(key, v, b)

Absorbs(libs, ps, index, b) == ~KeyTaken(libs, b) /\ ~Clashes(ps, index, b)

\* The providers it takes: those whose key nobody holds.
TakenFrom(r, ps, index, b) ==
  SetToSeq({[reg |-> r, id |-> v, key |-> Render(key, v, b)] :
              v \in {u \in Offers[b] : Holders(ps, index, Render(key, u, b)) = {}}})

\* The next library to be registered.
Fresh == CHOOSE r \in Regs : lib[r] = NoLib
Room == \E r \in Regs : lib[r] = NoLib

\* Records the library that opening `place` came to, published at once.
Absorbed(libs, ps, index, place, b) ==
  LET new == TakenFrom(Fresh, ps, index, b)
  IN
  /\ Room
  /\ lib' = [libs EXCEPT ![Fresh] = [place |-> place, build |-> b, state |-> "loaded",
                                     key |-> RenderLibrary(libraryKey, b)]]
  /\ providers' = ps \o new
  /\ byKey' = [k \in DOMAIN index \cup {new[i].key : i \in 1 .. Len(new)} |->
                 IF k \in DOMAIN index THEN index[k]
                 ELSE Len(ps) + CHOOSE i \in 1 .. Len(new) : new[i].key = k]
  /\ published' = Entries(ps \o new)

\* pass_over, of a file: whether its handle is given up with the mapping left,
\* which it is unless a registered library has the image.
KeepsHandle(libs, f) ==
  ~ \E r \in Regs : /\ libs[r].state = "loaded"
                    /\ libs[r].place \in Files
                    /\ Image[libs[r].place] = Image[f]

At(place) == {r \in Registered : lib[r].place = place}

\* load_file.  A file that is passed over by its path is not opened; one that
\* is no library, declines or is refused keeps its mapping.
LoadFile(f) ==
  /\ alive /\ op = Idle
  /\ \E C \in Collectable :
       LET libs == LibClosing(C)
           opened(n) == [OpensClosing(C) EXCEPT ![Image[f]] = @ + n]
       IN
       /\ unclosed' = UnclosedClosing(C)
       /\ \/ /\ At(f) # {}
             /\ C # {}
             /\ lib' = libs
             /\ opens' = OpensClosing(C)
             /\ UNCHANGED <<providers, byKey, published>>
          \/ /\ At(f) = {}
             /\ opens[Image[f]] < MaxOpens
             /\ lib' = libs
             /\ opens' = opened(1)
             /\ UNCHANGED <<providers, byKey, published>>
          \/ /\ At(f) = {}
             /\ opens[Image[f]] < MaxOpens
             /\ \E b \in Contents[f] :
                  IF Absorbs(libs, providers, byKey, b)
                    THEN /\ Absorbed(libs, providers, byKey, f, b)
                         /\ opens' = opened(1)
                    ELSE /\ lib' = libs
                         /\ opens' = opened(One(KeepsHandle(libs, f)))
                         /\ UNCHANGED <<providers, byKey, published>>
  /\ UNCHANGED <<alive, naming, holds, source, op>>

\* register_local and register_entry.
RegisterLinked(l) ==
  /\ alive /\ op = Idle
  /\ At(l) = {}
  /\ \E C \in Collectable, b \in Contents[l] :
       /\ Absorbs(LibClosing(C), providers, byKey, b)
       /\ Absorbed(LibClosing(C), providers, byKey, l, b)
       /\ opens' = OpensClosing(C)
       /\ unclosed' = UnclosedClosing(C)
  /\ UNCHANGED <<alive, naming, holds, source, op>>

-----------------------------------------------------------------------------
(* Leaving.                                                                *)

\* Vec::retain, of the entries of ps at some positions, in their order.
Retain(ps, at) ==
  [n \in 1 .. Cardinality(at) |->
     ps[CHOOSE i \in at : Cardinality({j \in at : j <= i}) = n]]

\* The providers left once the library at `place` is taken out.
ProvidersWithout(place) ==
  Retain(providers, {i \in 1 .. Len(providers) : lib[providers[i].reg].place # place})

\* Where a retired library goes: one the host links is let go at once.
Retiring(libs, r) ==
  [libs EXCEPT ![r].state = IF Closes(lib[r].place) THEN "leaving" ELSE "kept"]

\* Mutant of TakeLibrary: the index is not built anew.
TakeLibraryMutant(place) ==
  /\ providers' = ProvidersWithout(place)
  /\ byKey' = [k \in {providers'[i].key : i \in 1 .. Len(providers')} |-> byKey[k]]
  /\ published' = Entries(providers')

\* take_library.
TakeLibrary(place) ==
  /\ providers' = ProvidersWithout(place)
  /\ byKey' = Index(providers')
  /\ published' = Entries(providers')

\* retire.
Retire(r) ==
  /\ alive /\ op = Idle
  /\ r \in Registered
  /\ \E C \in Collectable :
       /\ lib' = Retiring(LibClosing(C), r)
       /\ opens' = OpensClosing(C)
       /\ unclosed' = UnclosedClosing(C)
  /\ TakeLibrary(lib[r].place)
  /\ UNCHANGED <<alive, naming, holds, source, op>>

\* collect, and every operation that comes to nothing behind its collect.
Collect ==
  /\ alive /\ op = Idle
  /\ \E C \in Collectable \ {{}} :
       /\ lib' = LibClosing(C)
       /\ opens' = OpensClosing(C)
       /\ unclosed' = UnclosedClosing(C)
  /\ UNCHANGED <<alive, providers, byKey, naming, published, holds, source, op>>

\* Mutant of UnloadBegin: the providers are not unpublished first.
UnloadBeginMutant(r, insist) ==
  /\ alive /\ op = Idle
  /\ r \in Registered
  /\ Closes(lib[r].place)
  /\ insist => holds[r] = 0
  /\ \E C \in Collectable :
       /\ lib' = LibClosing(C)
       /\ opens' = OpensClosing(C)
       /\ unclosed' = UnclosedClosing(C)
  /\ op' = [kind |-> "unload", reg |-> r, insist |-> insist, step |-> "count"]
  /\ UNCHANGED <<alive, providers, byKey, naming, published, holds, source>>

\* unload, and unload_unchecked for a host that insists, on its word that
\* nothing of the library is used: out of the snapshot first.
UnloadBegin(r, insist) ==
  /\ alive /\ op = Idle
  /\ r \in Registered
  /\ Closes(lib[r].place)
  /\ insist => holds[r] = 0
  /\ \E C \in Collectable :
       /\ lib' = LibClosing(C)
       /\ opens' = OpensClosing(C)
       /\ unclosed' = UnclosedClosing(C)
  /\ published' = EntriesWithout(r)
  /\ op' = [kind |-> "unload", reg |-> r, insist |-> insist, step |-> "count"]
  /\ UNCHANGED <<alive, providers, byKey, naming, holds, source>>

\* Mutant of UnloadRefused: a refusal leaves them out of the snapshot.
UnloadRefusedMutant ==
  /\ op' = Idle
  /\ UNCHANGED <<alive, lib, providers, byKey, naming, published, holds, opens, unclosed, source>>

\* A refusal puts the providers back.
UnloadRefused ==
  /\ published' = Entries(providers)
  /\ op' = Idle
  /\ UNCHANGED <<alive, lib, providers, byKey, naming, holds, opens, unclosed, source>>

UnloadAt(step) == op.kind = "unload" /\ op.step = step

\* The holds are counted.
UnloadCounted ==
  /\ UnloadAt("count")
  /\ HoldsBesidesOwn(op.reg) = 0 \/ op.insist
  /\ op' = [op EXCEPT !.step = "ask"]
  /\ UNCHANGED <<alive, lib, providers, byKey, naming, published, holds, opens,
                 unclosed, source>>

UnloadBusy ==
  /\ UnloadAt("count")
  /\ HoldsBesidesOwn(op.reg) > 0
  /\ ~op.insist
  /\ UnloadRefused

\* Its slot refuses, or it has none and no source stands for it.
UnloadDeclined ==
  /\ UnloadAt("ask")
  /\ \/ Slot[lib[op.reg].build]
     \/ ~op.insist /\ lib[op.reg].place \notin Candidates
  /\ UnloadRefused

\* It agrees: taken out, and closed.
UnloadAgreed ==
  /\ UnloadAt("ask")
  /\ Slot[lib[op.reg].build] \/ op.insist \/ lib[op.reg].place \in Candidates
  /\ lib' = LibClosing({op.reg})
  /\ opens' = OpensClosing({op.reg})
  /\ unclosed' = UnclosedClosing({op.reg})
  /\ TakeLibrary(lib[op.reg].place)
  /\ op' = Idle
  /\ UNCHANGED <<alive, naming, holds, source>>

\* Dropping the registry leaves every library mapped and its services gone.
DropRegistry ==
  /\ alive /\ op = Idle
  /\ alive' = FALSE
  /\ lib' = [r \in Regs |-> IF lib[r].state \in {"loaded", "leaving"}
                              THEN [lib[r] EXCEPT !.state = "kept"] ELSE lib[r]]
  /\ providers' = <<>>
  /\ byKey' = <<>>
  /\ published' = {}
  /\ UNCHANGED <<naming, holds, opens, unclosed, source, op>>

-----------------------------------------------------------------------------
(* Handles, on any thread.                                                 *)

\* The host takes a Remote, an Offer or an Instance from a provider.
TakeHandle(r) ==
  /\ alive /\ op = Idle
  /\ Views(r) # {}
  /\ holds[r] < MaxHolds
  /\ holds' = [holds EXCEPT ![r] = @ + 1]
  /\ UNCHANGED <<alive, lib, providers, byKey, naming, published, opens, unclosed, source, op>>

\* A library asks the services, get_pinned or list_pinned; and clones what it
\* has, whether or not the registry is still there.
PinHandle(r) ==
  /\ holds[r] > 0 \/ \E p \in published : p.reg = r
  /\ holds[r] < MaxHolds
  /\ holds' = [holds EXCEPT ![r] = @ + 1]
  /\ UNCHANGED <<alive, lib, providers, byKey, naming, published, opens, unclosed, source, op>>

\* Mutant of DropHandle: a pin may be given back twice.
DropHandleMutant(r) ==
  /\ holds' = [holds EXCEPT ![r] = @ - 1]
  /\ UNCHANGED <<alive, lib, providers, byKey, naming, published, opens, unclosed, source, op>>

\* A handle is dropped, a pin given back.
DropHandle(r) ==
  /\ holds[r] > 0
  /\ holds' = [holds EXCEPT ![r] = @ - 1]
  /\ UNCHANGED <<alive, lib, providers, byKey, naming, published, opens, unclosed, source, op>>

-----------------------------------------------------------------------------
(* Refreshing what the source serves.                                      *)

\* The source comes to list another build of a candidate, or none.
SourceChanges(c) ==
  /\ \E b \in (Contents[c] \cup {None}) \ {listed[c]} : listed' = [listed EXCEPT ![c] = b]
  /\ UNCHANGED <<alive, lib, providers, byKey, naming, published, holds, opens, unclosed,
                 serving, tried, op>>

\* refresh: what the source lists now, and what it listed before and no more.
RefreshBegin ==
  /\ alive /\ op = Idle
  /\ \E C \in Collectable :
       /\ lib' = LibClosing(C)
       /\ opens' = OpensClosing(C)
       /\ unclosed' = UnclosedClosing(C)
  /\ op' = [kind |-> "refresh", listing |-> listed,
            gone |-> {c \in Candidates : tried[c] # None /\ listed[c] = None},
            todo |-> {c \in Candidates : listed[c] # None}]
  /\ UNCHANGED <<alive, providers, byKey, naming, published, holds, source>>

\* The build the source serves at a candidate's place, if the registry still
\* has it.
Served(c) == IF serving[c] = None THEN {} ELSE At(c)

\* A vanished candidate is retired.
RefreshGone(c) ==
  /\ op.kind = "refresh"
  /\ c \in op.gone
  /\ op' = [op EXCEPT !.gone = @ \ {c}]
  /\ tried' = [tried EXCEPT ![c] = None]
  /\ serving' = [serving EXCEPT ![c] = None]
  /\ IF Served(c) = {}
       THEN UNCHANGED <<lib, opens, unclosed, providers, byKey, published>>
       ELSE /\ \E C \in Collectable, r \in Served(c) :
                 /\ lib' = Retiring(LibClosing(C), r)
                 /\ opens' = OpensClosing(C)
                 /\ unclosed' = UnclosedClosing(C)
            /\ TakeLibrary(c)
  /\ UNCHANGED <<alive, naming, holds, listed>>

\* The next candidate, in the order listed.
RefreshAt(c) ==
  /\ op.kind = "refresh"
  /\ op.gone = {}
  /\ c \in op.todo
  /\ op' = [op EXCEPT !.todo = @ \ {c}]

\* Tried under this stamp before, or the source refuses to open it, or what it
\* opens is refused and closed at once.
RefreshPasses(c) ==
  /\ RefreshAt(c)
  /\ tried' = [tried EXCEPT ![c] = op.listing[c]]
  /\ UNCHANGED <<alive, lib, providers, byKey, naming, published, holds, opens, unclosed,
                 listed, serving>>

\* Mutant of RefreshOpens: what is opened and passed over is not closed.
RefreshOpensMutant(c) ==
  /\ RefreshAt(c)
  /\ tried[c] # op.listing[c]
  /\ listed[c] # None
  /\ tried' = [tried EXCEPT ![c] = op.listing[c]]
  /\ \E C \in IF Served(c) = {} THEN {{}} ELSE Collectable :
       LET b == listed[c]
           libs == IF Served(c) = {} THEN lib
                   ELSE Retiring(LibClosing(C), CHOOSE r \in Served(c) : TRUE)
           ps == IF Served(c) = {} THEN providers ELSE ProvidersWithout(c)
           index == IF Served(c) = {} THEN byKey ELSE Index(ps)
           kept == Absorbs(libs, ps, index, b)
       IN
       /\ IF kept
            THEN Absorbed(libs, ps, index, c, b)
            ELSE lib' = libs /\ providers' = ps /\ byKey' = index /\ published' = Entries(ps)
       /\ serving' = [serving EXCEPT ![c] = IF kept THEN op.listing[c] ELSE None]
       /\ opens' = OpensClosing(C)
       /\ unclosed' = [UnclosedClosing(C) EXCEPT ![c] = @ + 1]
  /\ UNCHANGED <<alive, naming, holds, listed>>

\* A new candidate or a changed one: opened as it is now, the old build
\* retired, the new one absorbed or else closed at once.
RefreshOpens(c) ==
  /\ RefreshAt(c)
  /\ tried[c] # op.listing[c]
  /\ listed[c] # None
  /\ tried' = [tried EXCEPT ![c] = op.listing[c]]
  /\ \E C \in IF Served(c) = {} THEN {{}} ELSE Collectable :
       LET b == listed[c]
           libs == IF Served(c) = {} THEN lib
                   ELSE Retiring(LibClosing(C), CHOOSE r \in Served(c) : TRUE)
           ps == IF Served(c) = {} THEN providers ELSE ProvidersWithout(c)
           index == IF Served(c) = {} THEN byKey ELSE Index(ps)
           kept == Absorbs(libs, ps, index, b)
       IN
       /\ IF kept
            THEN Absorbed(libs, ps, index, c, b)
            ELSE lib' = libs /\ providers' = ps /\ byKey' = index /\ published' = Entries(ps)
       /\ serving' = [serving EXCEPT ![c] = IF kept THEN op.listing[c] ELSE None]
       /\ opens' = OpensClosing(C)
       /\ unclosed' = [UnclosedClosing(C) EXCEPT ![c] = @ + One(kept)]
  /\ UNCHANGED <<alive, naming, holds, listed>>

RefreshEnd ==
  /\ op.kind = "refresh"
  /\ op.gone = {}
  /\ op.todo = {}
  /\ op' = Idle
  /\ UNCHANGED <<alive, lib, providers, byKey, naming, published, holds, opens, unclosed, source>>

-----------------------------------------------------------------------------
Unload ==
  \/ \E r \in Regs, insist \in BOOLEAN : UnloadBegin(r, insist)
  \/ UnloadCounted \/ UnloadBusy \/ UnloadDeclined \/ UnloadAgreed

Refresh ==
  \/ RefreshBegin \/ RefreshEnd
  \/ \E c \in Candidates : RefreshGone(c) \/ RefreshPasses(c) \/ RefreshOpens(c)

Handles == \E r \in Regs : TakeHandle(r) \/ PinHandle(r) \/ DropHandle(r)

Next ==
  \/ \E f \in Files : LoadFile(f)
  \/ \E l \in Linked : RegisterLinked(l)
  \/ \E r \in Regs : Retire(r)
  \/ Collect \/ Unload \/ Refresh \/ Handles \/ DropRegistry
  \/ \E t \in KeyTemplates : KeyedBy(t)
  \/ \E t \in LibraryKeyTemplates : LibrariesKeyedBy(t)
  \/ \E c \in Candidates : SourceChanges(c)

Spec == Init /\ [][Next]_vars

-----------------------------------------------------------------------------
(* Properties.                                                             *)

States == {"unused", "loaded", "leaving", "kept", "closed"}
ProviderIds == UNION {Offers[b] : b \in Builds}

LibraryKeys == {<<>>} \cup {RenderLibrary(t, b) : t \in LibraryKeyTemplates \cup {"id"}, b \in Builds}
ProviderKeys ==
  {Render(t, id, b) : t \in KeyTemplates \cup {"id"}, id \in ProviderIds, b \in Builds}
Listings == [Candidates -> Builds \cup {None}]

Libraries ==
  {NoLib} \cup [place : Places, build : Builds, key : LibraryKeys, state : States \ {"unused"}]

Operations ==
  {Idle}
    \cup [kind : {"unload"}, reg : Regs, insist : BOOLEAN, step : {"count", "ask"}]
    \cup [kind : {"refresh"}, listing : Listings, gone : SUBSET Candidates, todo : SUBSET Candidates]

TypeOK ==
  /\ alive \in BOOLEAN
  /\ lib \in [Regs -> Libraries]
  /\ providers \in Seq([reg : Regs, id : ProviderIds, key : ProviderKeys])
  /\ key \in KeyTemplates \cup {"id"}
  /\ libraryKey \in LibraryKeyTemplates \cup {"id"}
  /\ holds \in [Regs -> 0 .. MaxHolds]
  /\ opens \in [Images -> 0 .. MaxOpens]
  /\ unclosed \in [Candidates -> Nat]
  /\ listed \in Listings /\ serving \in Listings /\ tried \in Listings
  /\ op \in Operations

\* The code of library r can be called: its image is mapped, or its source
\* has not been told that it is closed.
CodeIsThere(r) ==
  /\ lib[r].state \in {"loaded", "leaving", "kept"}
  /\ lib[r].place \in Files => opens[Image[lib[r].place]] > 0

\* No handle, pin or answer of the services outlives its library's code,
\* whatever is retired, unloaded, collected, refreshed or passed over while
\* other threads pin and drop.
HandlesReachCode ==
  \A r \in Regs :
    holds[r] > 0 \/ (\E p \in published : p.reg = r) \/ lib[r].state \in {"loaded", "leaving"}
      => CodeIsThere(r)

\* What unload counts as somebody else's is exactly the handles there are:
\* it neither refuses a library nothing uses nor closes one in use.
CountIsHandles == UnloadAt("count") => HoldsBesidesOwn(op.reg) = holds[op.reg]

\* A library whose holds were counted to nothing stays without any while its
\* slot is asked.
CountStands == UnloadAt("ask") => holds[op.reg] = 0

\* What libraries see of the registry is what it holds, but for a library
\* being unloaded; a refused unload leaves no trace.
SnapshotAgrees ==
  published = IF op.kind = "unload" THEN EntriesWithout(op.reg) ELSE Entries(providers)

\* Every provider answers to its key and no other: no two share one, the
\* index finds it, and the key is what the host's template renders now.
KeysAreExact ==
  /\ DOMAIN byKey = {providers[i].key : i \in 1 .. Len(providers)}
  /\ \A i \in 1 .. Len(providers) :
       /\ byKey[providers[i].key] = i
       /\ providers[i].key = Render(key, providers[i].id, lib[providers[i].reg].build)
       /\ lib[providers[i].reg].state = "loaded"

\* Library keys and paths tell the registered libraries apart, which is what
\* taking one out by its path relies on.
LibrariesApart ==
  \A r, s \in Registered : lib[r].key = lib[s].key \/ lib[r].place = lib[s].place => r = s

\* Each library the source opened is either still with the registry (or left
\* open by its drop) or has been closed, once.
SourceIsTold ==
  \A c \in Candidates :
    unclosed[c] = Cardinality({r \in Regs : lib[r].place = c /\ lib[r].state # "closed"})

\* "a changed one is opened and, once it loads, its old build is retired"
\* (Registry::refresh): a candidate the source still lists does not lose its
\* library to a refresh.
ChangedStaysServed ==
  [][op.kind = "refresh" => \A c \in op.todo : At(c) # {} => At(c)' # {}]_vars

\* unload decides by how many handles there really are, while they come and go.
CountIsTrue == CountIsHandles /\ CountStands

\* What is looked up and what libraries are shown is what is registered.
IndexIsExact == TypeOK /\ SnapshotAgrees /\ KeysAreExact /\ LibrariesApart
=============================================================================
