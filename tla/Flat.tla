-------------------------------- MODULE Flat --------------------------------
(***************************************************************************)
(* A value kept as a flat store of texts by path (guatiao-intake flat.rs): *)
(* fields written and read back, while others write keys of their own, and *)
(* the path of each leaf resolved to what the schema says of it.           *)
(*                                                                         *)
(* A path is a sequence of segments <<how, text>>: a plain name "field", a *)
(* bracketed key as the code spells it "key", the same key quoted without  *)
(* need "quoted", a position "index".  Depths are far below MAX_DEPTH.     *)
(***************************************************************************)
EXTENDS Schema
LOCAL INSTANCE SequencesExt
LOCAL INSTANCE FiniteSetsExt

CONSTANTS
  FlatRoots,    \* documents whose properties are the fields
  FlatWrites,   \* fields a caller may write, each with a value
  Bare,         \* the names that hold no separator and no bracket
  StrayKeys, StrayTexts, MaxStrays,   \* what others may write, and how often
  MaxPosition   \* the highest position a path names

VARIABLES
  flatroot,
  store,     \* from paths to texts
  kept,      \* per field, the value written last; absent when it did not fit
  touched,   \* fields others wrote under since
  strays     \* how many keys others wrote

flatvars == <<flatroot, store, kept, touched, strays>>

-----------------------------------------------------------------------------
(* Spelling.                                                               *)

Keyed(path, key) == Append(path, <<"key", key>>)
Indexed(path, at) == Append(path, <<"index", ToString(at)>>)

Named(path, name) == IF name \in Bare THEN Append(path, <<"field", name>>) ELSE Keyed(path, name)
RootPath(name) == Named(<<>>, name)

\* Mutant of AtOrUnder: the field's own key alone.
AtOrUnderMutant(key, path) == key = path

AtOrUnder(key, path) == IsPrefix(path, key)

\* clear_under.
ClearUnder(st, path) ==
  [key \in {q \in DOMAIN st : ~AtOrUnder(q, path)} |-> st[key]]

-----------------------------------------------------------------------------
(* Writing: flatten and visit.                                             *)

\* scalar_text.
HasText(v) == v.tag \in {"bool", "num", "str"}
TextFor(v) ==
  CASE v.tag = "bool" -> IF v.b THEN "true" ELSE "false"
    [] v.tag = "num" -> ToString(v.n)
    [] v.tag = "str" -> v.s

Joined(stores) ==
  [key \in UNION {DOMAIN st : st \in stores} |->
     (CHOOSE st \in stores : key \in DOMAIN st)[key]]

\* The discriminant a value carries.
TagIn(k, v) == IF IsStr(Get(v, TagOf(k))) THEN Get(v, TagOf(k)).s ELSE ""

RECURSIVE Visit(_, _, _)
VisitFields(path, fields, v) ==
  Joined({Visit(Named(path, name), fields[name], v.entries[name]) :
            name \in DOMAIN fields \cap DOMAIN v.entries})
VisitPositions(path, schemas, v) ==
  Joined({Visit(Indexed(path, i - 1), schemas[i], v.items[i]) :
            i \in DOMAIN schemas \cap DOMAIN v.items})
Visit(path, s, v) ==
  LET under(k, arms) ==
        IF arms = <<>> THEN <<>>
        ELSE (path :> TagIn(k, v)) @@ VisitFields(path, ArmFields(arms[1], TagOf(k)), v)
      as(k, kind) ==
        CASE kind = "variant" /\ IsMap(v) -> under(k, ArmsNamed(k, TagIn(k, v)))
          [] kind = "map" /\ IsMap(v) -> VisitFields(path, Fields(k), v)
          [] kind = "mapof" /\ IsMap(v) ->
               Joined({Visit(Keyed(path, key), Get(k, "additionalProperties"), v.entries[key]) :
                         key \in DOMAIN v.entries})
          [] kind = "list" /\ IsList(v) ->
               VisitPositions(path, [i \in DOMAIN v.items |-> Get(k, "items")], v)
          [] kind = "tuple" /\ IsList(v) -> VisitPositions(path, ListAt(k, "prefixItems"), v)
          [] kind \notin {"variant", "map", "mapof", "list", "tuple"} /\ HasText(v) ->
               path :> TextFor(v)
          [] OTHER -> <<>>
  IN as(Peel(s), KindOf(Peel(s)))

\* What the top of the value answers for all of it.
FieldTakes(s, v) ==
  LET as(k, kind) ==
        CASE kind = "variant" -> IsMap(v) /\ ArmsNamed(k, TagIn(k, v)) # <<>>
          [] kind \in {"map", "mapof"} -> IsMap(v)
          [] kind \in {"list", "tuple"} -> IsList(v)
          [] OTHER -> HasText(v)
  IN as(Peel(s), KindOf(Peel(s)))

-----------------------------------------------------------------------------
(* Reading: unflatten and rebuild.                                         *)

HoldsUnder(st, path) == \E key \in DOMAIN st : AtOrUnder(key, path)
Children(st, path) ==
  {key[Len(path) + 1] : key \in {q \in DOMAIN st : IsStrictPrefix(path, q)}}

\* The spellings of one key of an open map, the one flatten writes first.
Spellings(path, key) ==
  <<Keyed(path, key)>> \o
  [i \in 1 .. 3 |-> Append(path, <<(<<"field", "quoted", "index">>)[i], key>>)]

\* Mutant of Reaches: a tuple's positions close up over a gap, as a list's do.
ReachesMutant(st, path, n) == {i \in 1 .. n : HoldsUnder(st, Indexed(path, i - 1))}

\* The positions of a tuple read: up to the first that holds nothing.
Reaches(st, path, n) == {i \in 1 .. n : \A j \in 1 .. i : HoldsUnder(st, Indexed(path, j - 1))}

RECURSIVE Rebuild(_, _, _)
OrAbsent(any, v) == IF any THEN v ELSE AbsentValue
Found(read) == [at \in {q \in DOMAIN read : ~IsAbsent(read[q])} |-> read[at]]
InOrder(read) ==
  LET at(order) == [i \in DOMAIN order |-> read[order[i]]]
  IN at(SetToSortSeq(DOMAIN read, LAMBDA i, j : i < j))
RebuildFields(path, fields, st) ==
  Found([name \in DOMAIN fields |-> Rebuild(Named(path, name), fields[name], st)])
RebuildKeys(path, s, st) ==
  LET readAt(at) == IF HoldsUnder(st, at) THEN Rebuild(at, s, st) ELSE AbsentValue
      first(read) == IF read = <<>> THEN AbsentValue ELSE read[1]
      read(spelled) == SelectSeq([i \in DOMAIN spelled |-> readAt(spelled[i])],
                                 LAMBDA v : ~IsAbsent(v))
  IN Found([key \in {step[2] : step \in Children(st, path)} |-> first(read(Spellings(path, key)))])
RebuildItems(path, s, st) ==
  LET at == {i \in 0 .. MaxPosition : <<"index", ToString(i)>> \in Children(st, path)}
  IN InOrder(Found([i \in at |-> Rebuild(Indexed(path, i), s, st)]))
RebuildPositions(path, schemas, st) ==
  InOrder([i \in Reaches(st, path, Len(schemas)) |->
             Rebuild(Indexed(path, i - 1), schemas[i], st)])
Rebuild(path, s, st) ==
  LET under(k, arms) ==
        IF arms = <<>> THEN AbsentValue
        ELSE MapOf((TagOf(k) :> Str(st[path]))
                   @@ RebuildFields(path, ArmFields(arms[1], TagOf(k)), st))
      map(read) == OrAbsent(DOMAIN read # {}, MapOf(read))
      list(read) == OrAbsent(read # <<>> /\ \A i \in DOMAIN read : ~IsAbsent(read[i]), ListOf(read))
      as(k, kind) ==
        CASE kind = "variant" ->
               under(k, IF path \in DOMAIN st THEN ArmsNamed(k, st[path]) ELSE <<>>)
          [] kind = "map" -> map(RebuildFields(path, Fields(k), st))
          [] kind = "mapof" -> map(RebuildKeys(path, Get(k, "additionalProperties"), st))
          [] kind = "list" -> list(RebuildItems(path, Get(k, "items"), st))
          [] kind = "tuple" -> list(RebuildPositions(path, ListAt(k, "prefixItems"), st))
          [] OTHER -> IF path \in DOMAIN st THEN Str(st[path]) ELSE AbsentValue
  IN as(Peel(s), KindOf(Peel(s)))

Unflatten(field, st) ==
  IF HoldsUnder(st, RootPath(field)) THEN Rebuild(RootPath(field), Fields(flatroot)[field], st)
  ELSE AbsentValue

-----------------------------------------------------------------------------
(* Resolving a path.                                                       *)

SchemaOr(v) == IF IsSchema(v) THEN v ELSE AbsentValue
FieldOr(fields, name) == IF name \in DOMAIN fields THEN fields[name] ELSE AbsentValue
ElementAt(schemas, text) ==
  LET at == {i \in DOMAIN schemas : ToString(i - 1) = text}
  IN IF at = {} THEN AbsentValue ELSE SchemaOr(schemas[CHOOSE i \in at : TRUE])

\* into: one step.  An open map's schema is looked for in the field as it
\* stands, not peeled.
Into(s, segment) ==
  LET declared(k, arms) ==
        IF arms = <<>> THEN AbsentValue ELSE ArmFields(arms[1], TagOf(k))[segment[2]]
      as(k, kind) ==
        CASE kind = "map" -> FieldOr(Fields(k), segment[2])
          [] kind = "variant" ->
               declared(k, SelectSeq(ListAt(k, "oneOf"), LAMBDA arm :
                             IsMap(arm) /\ segment[2] \in DOMAIN ArmFields(arm, TagOf(k))))
          [] kind = "list" /\ segment[1] = "index" -> SchemaOr(Get(k, "items"))
          [] kind = "mapof" -> SchemaOr(Get(s, "additionalProperties"))
          [] kind = "tuple" /\ segment[1] = "index" ->
               ElementAt(ListAt(k, "prefixItems"), segment[2])
          [] OTHER -> AbsentValue
  IN as(Peel(s), KindOf(Peel(s)))

\* The text of a path of plain names, which may be a field's own name.
PlainText(path) ==
  IF \A i \in DOMAIN path : path[i][1] = "field"
  THEN FoldLeft(LAMBDA text, segment : text \o "." \o segment[2], path[1][2], Tail(path))
  ELSE "no plain name"

Resolve(root, path) ==
  LET step(s, segment) == IF IsAbsent(s) THEN s ELSE Into(s, segment)
  IN IF PlainText(path) \in DOMAIN Fields(root) THEN Fields(root)[PlainText(path)]
     ELSE FoldLeft(step, FieldOr(Fields(root), path[1][2]), Tail(path))

\* Mutant of StepIn: a member is any arm's.
StepInMutant(s, segment, walked, spelled, st) == Into(s, segment)

\* step_in: as Into, with the arm the store selects, or the default.
StepIn(s, segment, walked, spelled, st) ==
  LET stored == SelectSeq(<<walked, spelled>>, LAMBDA at : at \in DOMAIN st /\ st[at] # "")
      chosen == IF stored # <<>> THEN st[stored[1]]
                ELSE IF HasText(Get(s, "default")) THEN TextFor(Get(s, "default")) ELSE ""
      under(k, arms) ==
        IF arms = <<>> THEN AbsentValue ELSE FieldOr(ArmFields(arms[1], TagOf(k)), segment[2])
      as(k) == IF KindOf(k) # "variant" THEN Into(s, segment) ELSE under(k, ArmsNamed(k, chosen))
  IN as(Peel(s))

ResolveIn(path, st) ==
  LET walked(n) == RootPath(path[1][2]) \o SubSeq(path, 2, n)
      step(s, n) == IF IsAbsent(s) THEN s
                    ELSE StepIn(s, path[n], walked(n - 1), SubSeq(path, 1, n - 1), st)
  IN IF Len(path) = 1 /\ path[1][1] = "field" THEN FieldOr(Fields(flatroot), path[1][2])
     ELSE FoldLeft(step, FieldOr(Fields(flatroot), path[1][2]),
                   [i \in 1 .. Len(path) - 1 |-> i + 1])

IsSensitive(path) == Flag(Resolve(flatroot, path), "sensitive")

-----------------------------------------------------------------------------
(* A caller writes a field; others write keys.                             *)

FlatInit ==
  /\ store = <<>> /\ strays = 0 /\ touched = {}
  /\ kept = [field \in DOMAIN Fields(flatroot) |-> AbsentValue]

Flatten(field, v) ==
  LET s == Fields(flatroot)[field]
      path == RootPath(field)
  IN /\ store' = Visit(path, s, v) @@ ClearUnder(store, path)
     /\ kept' = [kept EXCEPT ![field] = IF FieldTakes(s, v) THEN v ELSE AbsentValue]
     /\ touched' = touched \ {field}
     /\ UNCHANGED <<flatroot, strays>>

Strays(key, text) ==
  /\ strays < MaxStrays
  /\ store' = (key :> text) @@ store
  /\ touched' = touched \cup {field \in DOMAIN kept : AtOrUnder(key, RootPath(field))}
  /\ strays' = strays + 1
  /\ UNCHANGED <<flatroot, kept>>

FlatNext ==
  \/ \E w \in FlatWrites : Flatten(w[1], w[2])
  \/ \E key \in StrayKeys, text \in StrayTexts : Strays(key, text)

-----------------------------------------------------------------------------
(* What a flat store can carry of a value, with no path in sight: texts,   *)
(* and containers that are not empty, by what is declared.                 *)

RECURSIVE Carried(_, _)
CarriedFields(fields, v) ==
  Found([name \in DOMAIN fields \cap DOMAIN v.entries |-> Carried(fields[name], v.entries[name])])
Carried(s, v) ==
  LET each(schemas) ==
        [i \in DOMAIN schemas \cap DOMAIN v.items |-> Carried(schemas[i], v.items[i])]
      map(read) == OrAbsent(DOMAIN read # {}, MapOf(read))
      list(read) == OrAbsent(read # <<>>, ListOf(read))
      whole(read) == SelectSeq(read, LAMBDA c : ~IsAbsent(c))
      upToGap(read) == SelectInSeq(read, IsAbsent)
      begun(read) == IF upToGap(read) = 0 THEN read ELSE SubSeq(read, 1, upToGap(read) - 1)
      as(k, kind) ==
        CASE kind = "variant" ->
               MapOf((TagOf(k) :> Str(TagIn(k, v)))
                     @@ CarriedFields(ArmFields(ArmsNamed(k, TagIn(k, v))[1], TagOf(k)), v))
          [] kind = "map" -> map(CarriedFields(Fields(k), v))
          [] kind = "mapof" ->
               map(CarriedFields([key \in DOMAIN v.entries |-> Get(k, "additionalProperties")], v))
          [] kind = "list" -> list(whole(each([i \in DOMAIN v.items |-> Get(k, "items")])))
          [] kind = "tuple" -> list(begun(each(ListAt(k, "prefixItems"))))
          [] OTHER -> Str(TextFor(v))
  IN IF FieldTakes(s, v) THEN as(Peel(s), KindOf(Peel(s))) ELSE AbsentValue

\* The schemas a path passes through in a value, the leaf's last.
RECURSIVE Trail(_, _, _)
Trail(s, v, path) ==
  LET text == path[1][2]
      i == CHOOSE i \in DOMAIN v.items : ToString(i - 1) = text
      below(k, kind) ==
        CASE kind = "variant" -> ArmFields(ArmsNamed(k, TagIn(k, v))[1], TagOf(k))[text]
          [] kind = "map" -> Fields(k)[text]
          [] kind = "mapof" -> Get(k, "additionalProperties")
          [] kind = "list" -> Get(k, "items")
          [] kind = "tuple" -> ListAt(k, "prefixItems")[i]
  IN IF path = <<>> THEN <<s>>
     ELSE <<s>> \o Trail(below(Peel(s), KindOf(Peel(s))),
                         IF IsMap(v) THEN v.entries[text] ELSE v.items[i], Tail(path))

-----------------------------------------------------------------------------
(* Where resolving is known to see less than flatten.                      *)

\* into does not look through what wraps an open map.
WrappedMap(s) == KindOf(Peel(s)) = "mapof" /\ ~Has(s, "additionalProperties")

\* is_sensitive has no store: of two arms with a member of one name it takes
\* the first, and of a path that spells another field's name that field.
ArmsShare(s) ==
  \E m, n \in DOMAIN ListAt(Peel(s), "oneOf") :
    m # n /\ DOMAIN ArmFields(ListAt(Peel(s), "oneOf")[m], TagOf(Peel(s)))
             \cap DOMAIN ArmFields(ListAt(Peel(s), "oneOf")[n], TagOf(Peel(s))) # {}
Ambiguous(s) == KindOf(Peel(s)) = "variant" /\ ArmsShare(s)
Shadowed(path) == Len(path) > 1 /\ PlainText(path) \in DOMAIN Fields(flatroot)

-----------------------------------------------------------------------------
(* Properties.                                                             *)

\* A field reads back as what the store can carry of the value written last,
\* whatever was there before: no key of another arm, of a longer list or of a
\* neighbour whose name begins alike is left or lost.
ReadsBack ==
  \A field \in DOMAIN kept \ touched :
    ~IsAbsent(kept[field]) =>
      Unflatten(field, store) = Carried(Fields(flatroot)[field], kept[field])

\* Whatever others wrote, what is read is declared: written again it reads
\* back the same.
ReadingSettles ==
  \A field \in DOMAIN kept :
    LET read == Unflatten(field, store)
        s == Fields(flatroot)[field]
    IN ~IsAbsent(read) =>
         /\ FieldTakes(s, read)
         /\ Unflatten(field, Visit(RootPath(field), s, read)) = read

\* Every key flatten writes resolves, with the store's arms, to the schema its
\* text was written by; a secret's key is known for one.
KeysResolve ==
  \A field \in DOMAIN kept \ touched :
    ~IsAbsent(kept[field]) =>
      \A key \in {q \in DOMAIN store : AtOrUnder(q, RootPath(field))} :
        LET trail == Trail(Fields(flatroot)[field], kept[field], Tail(key))
            passed == ToSet(Front(trail))
        IN (\A s \in passed : ~WrappedMap(s)) =>
             /\ ResolveIn(key, store) = Last(trail)
             /\ Flag(Last(trail), "sensitive") /\ ~Shadowed(key) /\ (\A s \in passed : ~Ambiguous(s))
                  => IsSensitive(key)
=============================================================================
