------------------------------- MODULE Merge -------------------------------
(***************************************************************************)
(* Layers of values merged, later winning, and the record of which layer   *)
(* each leaf came from (value/merge/mod.rs: merge_value, record_claims,    *)
(* Provenance).  The merge and the record are two walks of the same pair   *)
(* of values that must stay in step.                                       *)
(*                                                                         *)
(* A list position is a segment of a path by its decimal text.  Values are *)
(* far shallower than MAX_DEPTH, and allocation does not fail.             *)
(***************************************************************************)
EXTENDS Values, FiniteSets
LOCAL INSTANCE SequencesExt

CONSTANTS
  LayerValues,  \* what a layer may be
  Contexts,     \* the mode, the sub-option mergelists, and the overrides by path
  MaxLayers

VARIABLES
  ctx,          \* Context
  taken,        \* the layers folded so far
  accumulated,  \* the merge of them, or what stands for an error
  provenance    \* Provenance.leaves: the layer of each leaf path

mergevars == <<ctx, taken, accumulated, provenance>>

-----------------------------------------------------------------------------
(* Paths, and what a fold ends with when a layer fails.                    *)

MergeFails == [tag |-> "error"]

Position(i) == <<"0", "1", "2", "3", "4", "5", "6", "7", "8">>[i]
Child(path, segment) == Append(path, segment)
ModeAt(path) == IF path \in DOMAIN ctx.overrides THEN ctx.overrides[path] ELSE ctx.mode

-----------------------------------------------------------------------------
(* merge_value.                                                            *)

RECURSIVE MergeSimple(_, _)
MergeSimple(earlier, later) ==
  LET e == Of(earlier)
      l == Of(later)
  IN IF IsAbsent(later) THEN earlier
     ELSE IF IsMap(earlier) /\ IsMap(later)
     THEN MapOf([k \in DOMAIN e \cup DOMAIN l |->
                   IF k \in DOMAIN l /\ (k \in DOMAIN e => ~IsAbsent(l[k])) THEN l[k] ELSE e[k]])
     ELSE IF IsList(earlier) /\ IsList(later)
     THEN ListOf([i \in DOMAIN e \cup DOMAIN l |->
                    IF i \notin DOMAIN l THEN e[i]
                    ELSE IF i \notin DOMAIN e THEN l[i]
                    ELSE MergeSimple(e[i], l[i])])
     ELSE later

SharesAKey(a, b) == DOMAIN Of(a) \cap DOMAIN Of(b) # {}

\* The unique items that are not maps, after those there are.
ExtendedWith(items, later) ==
  FoldLeft(LAMBDA held, item : IF IsMap(item) \/ item \in {held[i] : i \in DOMAIN held}
                               THEN held ELSE Append(held, item),
           items, later)

RECURSIVE MergeValue(_, _, _), MergeMaps(_, _, _), MergeDeep(_, _, _),
          MergeSubstitute(_, _, _), Absorb(_, _, _, _), UnionLists(_, _, _)

MergeValue(earlier, later, path) ==
  IF IsAbsent(later) THEN earlier
  ELSE IF IsAbsent(earlier) THEN later
  ELSE CASE ModeAt(path) = "simple" -> MergeSimple(earlier, later)
         [] ModeAt(path) = "substitute" -> MergeSubstitute(earlier, later, path)
         [] ModeAt(path) = "deep" -> MergeDeep(earlier, later, path)

\* A map is never replaced by a scalar, nor a scalar or a list by a map.
MergeSubstitute(earlier, later, path) ==
  IF ~IsMap(earlier) THEN IF IsMap(later) THEN MergeFails ELSE later
  ELSE IF IsMap(later) THEN MergeMaps(earlier, later, path)
  ELSE IF IsList(later) THEN Absorb(earlier, Of(later), path, "substitute")
  ELSE MergeFails

MergeDeep(earlier, later, path) ==
  IF earlier = Null \/ IsScalar(later) THEN later
  ELSE IF IsList(earlier) /\ IsList(later) THEN UnionLists(Of(earlier), Of(later), path)
  ELSE IF IsMap(earlier) /\ IsMap(later) THEN MergeMaps(earlier, later, path)
  ELSE IF IsMap(earlier) /\ IsList(later) THEN Absorb(earlier, Of(later), path, "deep")
  ELSE MergeFails

\* The keys both have recurse in the mode at the child; the others stand.
MergeMaps(earlier, later, path) ==
  LET e == Of(earlier)
      l == Of(later)
      merged == [k \in DOMAIN e \cup DOMAIN l |->
                   IF k \notin DOMAIN l THEN e[k]
                   ELSE IF k \notin DOMAIN e THEN l[k]
                   ELSE MergeValue(e[k], l[k], Child(path, k))]
  IN IF \E k \in DOMAIN merged : merged[k] = MergeFails THEN MergeFails ELSE MapOf(merged)

\* absorb_list_of_maps: each item in turn, and every item a map.
Absorb(earlier, items, path, mode) ==
  IF items = <<>> THEN earlier
  ELSE IF ~IsMap(Head(items)) THEN MergeFails
  ELSE LET folded == IF mode = "substitute" THEN MergeSubstitute(earlier, Head(items), path)
                     ELSE MergeDeep(earlier, Head(items), path)
       IN IF folded = MergeFails THEN MergeFails
          ELSE Absorb(folded, Tail(items), path, mode)

\* With mergelists, maps of one position and a key in common are merged; every
\* other map of the later list is appended.
UnionLists(earlier, later, path) ==
  LET held  == ExtendedWith(earlier, later)
      meets == {i \in DOMAIN held \cap DOMAIN later :
                  /\ ctx.mergelists
                  /\ IsMap(held[i]) /\ IsMap(later[i])
                  /\ SharesAKey(held[i], later[i])}
      met   == [i \in DOMAIN held |->
                  IF i \in meets THEN MergeDeep(held[i], later[i], Child(path, Position(i)))
                  ELSE held[i]]
      rest  == SelectSeq([i \in DOMAIN later |-> <<i, later[i]>>],
                         LAMBDA p : IsMap(p[2]) /\ p[1] \notin meets)
  IN IF \E i \in DOMAIN met : met[i] = MergeFails THEN MergeFails
     ELSE ListOf(met \o [n \in DOMAIN rest |-> rest[n][2]])

-----------------------------------------------------------------------------
(* Provenance.                                                             *)

\* claim: the leaf paths of a value.  An empty map or list is a leaf, an absent
\* value is not.
RECURSIVE LeafPaths(_, _)
LeafPaths(v, path) ==
  IF IsAbsent(v) THEN {}
  ELSE IF IsScalar(v) \/ DOMAIN Of(v) = {} THEN {path}
  ELSE IF IsMap(v) THEN UNION {LeafPaths(Of(v)[k], Child(path, k)) : k \in DOMAIN Of(v)}
  ELSE UNION {LeafPaths(Of(v)[i], Child(path, Position(i))) : i \in DOMAIN Of(v)}

\* Mutant of TakenOverSimple: maps are walked key by key all the way down.
RECURSIVE TakenOverSimpleMutant(_, _, _)
TakenOverSimpleMutant(earlier, later, path) ==
  LET e == Of(earlier)
      l == Of(later)
  IN IF IsAbsent(later) THEN {}
     ELSE IF IsMap(earlier) /\ IsMap(later)
     THEN UNION {IF k \in DOMAIN e THEN TakenOverSimpleMutant(e[k], l[k], Child(path, k))
                 ELSE {<<Child(path, k), l[k]>>} : k \in DOMAIN l}
     ELSE {<<path, later>>}

\* record_simple: where the later layer takes a path outright, and with what.
RECURSIVE TakenOverSimple(_, _, _)
TakenOverSimple(earlier, later, path) ==
  LET e == Of(earlier)
      l == Of(later)
  IN IF IsAbsent(later) THEN {}
     ELSE IF IsMap(earlier) /\ IsMap(later)
     THEN {<<Child(path, k), l[k]>> : k \in {j \in DOMAIN l : ~IsAbsent(l[j])}}
     ELSE IF IsList(earlier) /\ IsList(later)
     THEN UNION {LET at == Child(path, Position(i)) IN
                   IF i \in DOMAIN e THEN TakenOverSimple(e[i], l[i], at) ELSE {<<at, l[i]>>}
                 : i \in DOMAIN l}
     ELSE {<<path, later>>}

\* record_claims, likewise.
RECURSIVE TakenOver(_, _, _)
TakenOver(earlier, later, path) ==
  LET e == Of(earlier)
      l == Of(later)
  IN IF IsAbsent(later) THEN {}
     ELSE IF ModeAt(path) = "simple" THEN TakenOverSimple(earlier, later, path)
     ELSE IF IsMap(earlier) /\ IsMap(later)
     THEN UNION {IF k \in DOMAIN e THEN TakenOver(e[k], l[k], Child(path, k))
                 ELSE {<<Child(path, k), l[k]>>} : k \in DOMAIN l}
     ELSE IF ModeAt(path) = "deep" /\ IsList(earlier) /\ IsList(later)
     THEN IF e = <<>> THEN {<<path, later>>} ELSE {}
     ELSE {<<path, later>>}

\* Mutant of Forgotten: only the path itself.
ForgottenMutant(path, replaced) == \E r \in replaced : path = r[1]

\* forget_subtree: what is recorded at or beneath a path replaced.
Forgotten(path, replaced) == \E r \in replaced : IsPrefix(r[1], path)

Recorded(replaced, label) ==
  LET claimed == UNION {LeafPaths(r[2], r[1]) : r \in replaced}
      kept    == {p \in DOMAIN provenance : ~Forgotten(p, replaced)}
  IN [p \in kept \cup claimed |-> IF p \in claimed THEN label ELSE provenance[p]]

\* source_of.
SourceOf(path) ==
  IF path \in DOMAIN provenance THEN provenance[path]
  ELSE LET found == {provenance[p] : p \in {q \in DOMAIN provenance : IsPrefix(path, q)}}
       IN IF found = {} THEN "absent"
          ELSE IF Cardinality(found) = 1 THEN CHOOSE layer \in found : TRUE ELSE "mixed"

-----------------------------------------------------------------------------
(* merge_layers_with.                                                      *)

MergeInit ==
  /\ ctx \in Contexts
  /\ taken = <<>>
  /\ accumulated = MapOf(<<>>)
  /\ provenance = <<>>

FirstLayer(layer) ==
  /\ taken = <<>>
  /\ taken' = <<layer>>
  /\ accumulated' = layer
  /\ provenance' = [p \in LeafPaths(layer, <<>>) |-> 1]
  /\ UNCHANGED ctx

NextLayer(layer) ==
  /\ taken # <<>>
  /\ Len(taken) < MaxLayers
  /\ accumulated # MergeFails
  /\ taken' = Append(taken, layer)
  /\ accumulated' = MergeValue(accumulated, layer, <<>>)
  /\ provenance' = Recorded(TakenOver(accumulated, layer, <<>>), Len(taken) + 1)
  /\ UNCHANGED ctx

MergeNext == \E layer \in LayerValues : FirstLayer(layer) \/ NextLayer(layer)

-----------------------------------------------------------------------------
(* What must hold.                                                         *)

\* What a value holds at a path; AbsentValue for nothing.
RECURSIVE ValueAt(_, _)
ValueAt(v, path) ==
  IF path = <<>> THEN v
  ELSE IF IsMap(v) /\ Head(path) \in DOMAIN Of(v) THEN ValueAt(Of(v)[Head(path)], Tail(path))
  ELSE IF IsList(v) /\ \E i \in DOMAIN Of(v) : Position(i) = Head(path)
  THEN ValueAt(Of(v)[CHOOSE i \in DOMAIN Of(v) : Position(i) = Head(path)], Tail(path))
  ELSE AbsentValue

\* Where the record does not follow the merge: beneath lists united by Deep,
\* and beneath a map that absorbed a list.
Unfollowed(path) ==
  \E n \in 0 .. Len(path) :
    LET q    == SubSeq(path, 1, n)
        tags == {ValueAt(taken[i], q).tag : i \in DOMAIN taken}
    IN \/ {"map", "list"} \subseteq tags
       \/ ModeAt(q) = "deep" /\ "list" \in tags

\* What is recorded of a path is true: the merged value has it, and where it is
\* a leaf, holds there what the layer named holds there.
AttributionIsTrue ==
  accumulated # MergeFails =>
    \A p \in DOMAIN provenance : Unfollowed(p) \/
      /\ ValueAt(accumulated, p) # AbsentValue
      /\ p \in LeafPaths(accumulated, <<>>) =>
           ValueAt(taken[provenance[p]], p) = ValueAt(accumulated, p)

\* Every leaf of the merged value is attributed to a layer.
EveryLeafAttributed ==
  taken # <<>> /\ accumulated # MergeFails =>
    \A p \in LeafPaths(accumulated, <<>>) : Unfollowed(p) \/ p \in DOMAIN provenance

\* An interior node answers the layer every leaf beneath it agrees on, and mixed
\* when they do not.  Where a layer had an empty map or list, its own leaf stays
\* recorded beneath what a later layer fills it with, and answers instead.
InteriorIsAgreed ==
  accumulated # MergeFails =>
    \A k \in {"a", "b"} :
      LET beneath == {p \in LeafPaths(accumulated, <<>>) : IsPrefix(<<k>>, p) /\ p # <<k>>}
          layers  == {provenance[p] : p \in beneath}
          emptied == \E i \in DOMAIN taken : <<k>> \in LeafPaths(taken[i], <<>>)
      IN beneath # {} /\ ~Unfollowed(<<k>>) /\ ~emptied =>
           SourceOf(<<k>>) \in IF Cardinality(layers) = 1 THEN layers ELSE {"mixed"}

\* The record says which layer each part of the merged value is from.
AttributionHolds == AttributionIsTrue /\ EveryLeafAttributed /\ InteriorIsAgreed
=============================================================================
