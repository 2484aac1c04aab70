------------------------------- MODULE Schema -------------------------------
(***************************************************************************)
(* A schema's document: what it describes (schema/read.rs), its references *)
(* inlined (schema/refs.rs), a value validated against it                  *)
(* (schema/validate.rs) and the value's secrets hidden by it               *)
(* (schema/redact.rs).                                                     *)
(*                                                                         *)
(* A document is a value, a keyword a key of its maps: `sensitive` is      *)
(* x-sensitive, `variantTag` x-variant-tag, `ref` the name a $ref points   *)
(* at.                                                                     *)
(*                                                                         *)
(* Lengths, patterns, formats and steps of a scalar are left out, and      *)
(* documents are far shallower than MAX_DEPTH.                             *)
(***************************************************************************)
EXTENDS Values, FiniteSets, TLC
LOCAL INSTANCE FiniteSetsExt
LOCAL INSTANCE SequencesExt

CONSTANTS
  Documents,       \* schemas a caller may have
  BuiltDocuments,  \* those of them with the shapes the builders write
  Subjects,        \* values a caller may have
  Numerals,        \* the numbers a text may spell
  BUDGET_FACTOR, BUDGET_FLOOR

VARIABLES
  document,
  subject,   \* the value of the call
  inlined,   \* what inline_refs made of the document
  spent,     \* Inliner.spent when it had
  judged,    \* whether validate_value, or validate_map, accepts the subject
  shown      \* what redact made of the subject

schemavars == <<document, subject, inlined, spent, judged, shown>>

-----------------------------------------------------------------------------
(* Reading: what kind of value a schema describes, once what wraps it is   *)
(* peeled off, and its fields.                                             *)

Has(v, key) == IsMap(v) /\ key \in DOMAIN v.entries
Get(v, key) == IF Has(v, key) THEN v.entries[key] ELSE AbsentValue
ListAt(v, key) == IF IsList(Get(v, key)) THEN Get(v, key).items ELSE <<>>
MembersAt(v, key) == ToSet(ListAt(v, key))
Flag(v, key) == Get(v, key) = Bool(TRUE)
IsSchema(v) == IsMap(v) \/ v = Bool(TRUE)

\* declared_type: one name, beside null or alone.
DeclaredType(k) ==
  LET as(ty, named) ==
        CASE IsAbsent(ty) -> "absent"
          [] IsStr(ty) -> ty.s
          [] IsList(ty) /\ ty.items # <<>> /\ named = <<>> -> "null"
          [] IsList(ty) /\ Len(named) = 1 /\ IsStr(named[1]) -> named[1].s
          [] OTHER -> "several"
  IN as(Get(k, "type"), SelectSeq(ListAt(k, "type"), LAMBDA t : t # Str("null")))

IsNullSchema(v) == Get(v, "type") = Str("null") \/ Get(v, "const") = Null

\* The other arm of an anyOf that is a schema and null.
NullablePair(arms) ==
  LET other == {i \in DOMAIN arms : /\ IsMap(arms[i]) /\ ~IsNullSchema(arms[i])
                                    /\ IsNullSchema(arms[3 - i])}
  IN IF Len(arms) # 2 \/ other = {} THEN AbsentValue ELSE arms[CHOOSE i \in other : TRUE]

LoneAllOf(m) ==
  LET lone(l) == IF Len(l) = 1 /\ IsSchema(l[1]) THEN l[1] ELSE AbsentValue
  IN IF \A key \in {"type", "enum", "const", "anyOf", "oneOf"} : ~Has(m, key)
     THEN lone(ListAt(m, "allOf")) ELSE AbsentValue

PeelOnce(k) ==
  LET orLone(inner) == IF IsAbsent(inner) THEN LoneAllOf(k) ELSE inner
  IN orLone(IF Has(k, "type") THEN AbsentValue ELSE NullablePair(ListAt(k, "anyOf")))

RECURSIVE Peel(_)
Peel(k) ==
  LET further(inner) == IF IsAbsent(inner) THEN k ELSE Peel(inner)
  IN further(PeelOnce(k))

ConstantArms(k) ==
  /\ ~Has(k, "variantTag") /\ ListAt(k, "oneOf") # <<>>
  /\ \A arm \in MembersAt(k, "oneOf") : Has(arm, "const")
IsEnumeration(k) == IsList(Get(k, "enum")) \/ Has(k, "const") \/ ConstantArms(k)
Members(k) ==
  IF IsList(Get(k, "enum")) THEN MembersAt(k, "enum")
  ELSE IF Has(k, "const") THEN {Get(k, "const")}
  ELSE {Get(arm, "const") : arm \in {a \in MembersAt(k, "oneOf") : Has(a, "const")}}

RECURSIVE IsNullable(_)
IsNullable(k) ==
  IF Has(k, "type")
  THEN /\ Str("null") \in MembersAt(k, "type")
       /\ IsEnumeration(k) => Null \in Members(k)
  ELSE \/ ~IsAbsent(NullablePair(ListAt(k, "anyOf")))
       \/ ~IsAbsent(LoneAllOf(k)) /\ IsNullable(LoneAllOf(k))

ObjectKind(k) ==
  IF IsStr(Get(k, "variantTag")) THEN IF Has(k, "oneOf") THEN "variant" ELSE "unknown"
  ELSE IF ~Has(k, "properties") /\ IsMap(Get(k, "additionalProperties")) THEN "mapof" ELSE "map"

\* Kind::read, of a schema peeled.
KindOf(k) ==
  LET typed(ty) ==
        CASE ty = "absent" -> IF Has(k, "anyOf") THEN "union" ELSE "unknown"
          [] ty = "array" -> IF IsList(Get(k, "prefixItems")) THEN "tuple"
                             ELSE IF Has(k, "items") THEN "list" ELSE "unknown"
          [] ty = "object" -> ObjectKind(k)
          [] ty \in {"null", "boolean", "string", "integer", "number"} -> ty
          [] OTHER -> "unknown"
  IN IF k = Bool(TRUE) THEN "unknown"
     ELSE IF ~IsMap(k) THEN "missing"
     ELSE IF Has(k, "ref") THEN "ref"
     ELSE IF IsEnumeration(k) THEN "enum" ELSE typed(DeclaredType(k))

\* fields_of: what is no schema is passed over.
Fields(owner) ==
  LET schemas(p) == [key \in {q \in DOMAIN p : IsSchema(p[q])} |-> p[key]]
  IN schemas(IF IsMap(Get(owner, "properties")) THEN Get(owner, "properties").entries ELSE <<>>)
RequiredIn(owner) == {key \in DOMAIN Fields(owner) : Str(key) \in MembersAt(owner, "required")}

TagOf(k) == Get(k, "variantTag").s
ArmValue(arm, tag) ==
  LET constant == Get(Get(Get(arm, "properties"), tag), "const")
  IN IF IsStr(constant) THEN constant.s ELSE ""
ArmsNamed(k, name) ==
  SelectSeq(ListAt(k, "oneOf"), LAMBDA arm : IsMap(arm) /\ ArmValue(arm, TagOf(k)) = name)
ArmFields(arm, tag) == [key \in DOMAIN Fields(arm) \ {tag} |-> Fields(arm)[key]]

-----------------------------------------------------------------------------
(* Validating.                                                             *)

TypeIs(name, v) ==
  CASE name = "null" -> v = Null
    [] name = "boolean" -> v.tag = "bool"
    [] name = "string" -> IsStr(v)
    [] name = "array" -> IsList(v)
    [] name = "object" -> IsMap(v)
    [] name \in {"number", "integer"} -> v.tag = "num"
    [] OTHER -> TRUE
TypeAdmits(k, v) ==
  LET ty == Get(k, "type")
      names == IF IsStr(ty) THEN {ty} ELSE {t \in MembersAt(k, "type") : IsStr(t)}
  IN names = {} \/ \E t \in names : TypeIs(t.s, v)

\* Bounds::admit.
WithinBounds(k, n) ==
  /\ Get(k, "minimum").tag = "num" => n >= Get(k, "minimum").n
  /\ Get(k, "maximum").tag = "num" => n <= Get(k, "maximum").n

Spells(text, n) == text = ToString(n)
SpelledOf(v) == IF IsStr(v) THEN v.s ELSE IF v.tag = "num" THEN ToString(v.n) ELSE "no text"

\* against: a value by its spelling alone.
RECURSIVE Against(_, _)
Against(s, text) ==
  LET as(k, kind) ==
        /\ Has(k, "not") => ~Against(Get(k, "not"), text)
        /\ CASE kind = "boolean" -> text \in {"1", "0", "true", "false", "yes", "no", ""}
             [] kind \in {"integer", "number"} ->
                  \E n \in Numerals : Spells(text, n) /\ WithinBounds(k, n)
             [] kind = "enum" -> \E m \in Members(k) : SpelledOf(m) = text
             [] kind = "variant" -> ArmsNamed(k, text) # <<>>
             [] kind = "union" -> \E arm \in MembersAt(k, "anyOf") : Against(arm, text)
             [] kind \in {"null", "missing"} -> FALSE
             [] OTHER -> TRUE
  IN as(Peel(s), KindOf(Peel(s)))

CountFits(k, v) ==
  /\ Get(k, "minItems").tag = "num" => Len(v.items) >= Get(k, "minItems").n
  /\ Get(k, "maxItems").tag = "num" => Len(v.items) <= Get(k, "maxItems").n
UniqueFits(k, v) ==
  Flag(k, "uniqueItems") => \A i, j \in DOMAIN v.items : v.items[i] = v.items[j] => i = j
NamesFit(k, v) ==
  Has(k, "propertyNames") => \A key \in DOMAIN v.entries : Against(Get(k, "propertyNames"), key)

\* What an object makes of a key it does not declare.
ElementSchema(owner) ==
  LET extra == Get(owner, "additionalProperties")
  IN IF IsMap(extra) \/ extra = Bool(FALSE) THEN extra ELSE Bool(TRUE)

\* Mutant of RestSchema: what `items` says past the positions is dropped.
RestSchemaMutant(k) == Bool(TRUE)

\* What a tuple makes of an element past its positions.
RestSchema(k) ==
  LET rest == Get(k, "items")
  IN IF IsMap(rest) \/ rest = Bool(FALSE) THEN rest ELSE Bool(TRUE)

RECURSIVE ValueAgainst(_, _)
EntriesFit(fields, owner, v, besides) ==
  /\ \A key \in DOMAIN v.entries \ besides :
       ValueAgainst(IF key \in DOMAIN fields THEN fields[key] ELSE ElementSchema(owner),
                    v.entries[key])
  /\ RequiredIn(owner) \ besides \subseteq DOMAIN v.entries

ArmFits(k, v) ==
  LET chosen == Get(v, TagOf(k))
      arms == ArmsNamed(k, IF IsStr(chosen) THEN chosen.s ELSE "")
  IN arms # <<>> /\ EntriesFit(ArmFields(arms[1], TagOf(k)), arms[1], v, {TagOf(k)})

\* value_against.
ValueAgainst(s, v) ==
  LET as(k, kind) ==
        /\ Has(k, "not") => ~ValueAgainst(Get(k, "not"), v)
        /\ CASE kind \in {"null", "boolean"} -> TypeIs(kind, v)
             [] kind \in {"integer", "number", "string"} ->
                  TypeIs(kind, v) /\ Against(s, SpelledOf(v))
             [] kind = "enum" -> TypeAdmits(k, v) /\ v \in Members(k)
             [] kind = "union" -> \E arm \in MembersAt(k, "anyOf") : ValueAgainst(arm, v)
             [] kind = "list" ->
                  /\ IsList(v) /\ CountFits(k, v)
                  /\ \A e \in ToSet(v.items) : ValueAgainst(Get(k, "items"), e)
                  /\ UniqueFits(k, v)
             [] kind = "tuple" ->
                  LET positions == ListAt(k, "prefixItems")
                  IN /\ IsList(v) /\ CountFits(k, v)
                     /\ \A i \in DOMAIN v.items :
                          ValueAgainst(IF i <= Len(positions) THEN positions[i] ELSE RestSchema(k),
                                       v.items[i])
                     /\ UniqueFits(k, v)
             [] kind = "mapof" ->
                  /\ IsMap(v) /\ NamesFit(k, v)
                  /\ \A key \in DOMAIN v.entries : ValueAgainst(ElementSchema(k), v.entries[key])
             [] kind = "map" -> IsMap(v) /\ NamesFit(k, v) /\ EntriesFit(Fields(k), k, v, {})
             [] kind = "variant" -> IsMap(v) /\ ArmFits(k, v)
             [] kind \in {"unknown", "ref"} -> TRUE
             [] kind = "missing" -> FALSE
  IN (v = Null /\ IsNullable(s)) \/ as(Peel(s), KindOf(Peel(s)))

\* validate_map: the root of an object is read as it stands, not peeled.
MapAgainst(root, v) ==
  IF KindOf(Peel(root)) \notin {"map", "unknown", "missing"} THEN ValueAgainst(root, v)
  ELSE IsMap(v) /\ EntriesFit(Fields(root), root, v, {})

-----------------------------------------------------------------------------
(* Redacting.                                                              *)

Mask == Str("***")
IsSecret(s) == Flag(s, "sensitive") \/ Flag(s, "writeOnly")

RECURSIVE MarksSecret(_)
MarksSecret(s) ==
  \/ IsSecret(s)
  \/ \E m \in MembersAt(s, "allOf") : MarksSecret(m)
  \/ ~IsAbsent(PeelOnce(s)) /\ MarksSecret(PeelOnce(s))

Fallback(v) == IF IsScalar(v) THEN v ELSE Mask

\* Mutant of Accepting: of the arms that accept a value the first decides.
AcceptingMutant(k, v) ==
  LET arms == SelectSeq(ListAt(k, "anyOf"), LAMBDA arm : ValueAgainst(arm, v))
  IN IF arms = <<>> THEN arms ELSE <<arms[1]>>

Accepting(k, v) == SelectSeq(ListAt(k, "anyOf"), LAMBDA arm : ValueAgainst(arm, v))

\* What describes each part of a container: the schema that does, TRUE for a
\* part that is kept, and nothing for one that is hidden.
ItemParts(k, kind, v) ==
  LET positions == ListAt(k, "prefixItems")
  IN [i \in DOMAIN v.items |->
        IF kind = "list" THEN Get(k, "items")
        ELSE IF i <= Len(positions) THEN positions[i] ELSE Bool(TRUE)]
EntryParts(fields, extra, v) ==
  [key \in DOMAIN v.entries |->
     IF key \in DOMAIN fields THEN fields[key] ELSE IF IsMap(extra) THEN extra ELSE AbsentValue]
VariantParts(k, v) ==
  LET chosen(tag, picked) ==
        IF ~IsStr(picked) THEN <<>>
        ELSE LET arms == ArmsNamed(k, picked.s)
             IN (tag :> Bool(TRUE)) @@ IF arms = <<>> THEN <<>> ELSE ArmFields(arms[1], tag)
  IN EntryParts(chosen(TagOf(k), Get(v, TagOf(k))), AbsentValue, v)

\* Redactor::node.
RECURSIVE Redact(_, _)
Redact(s, v) ==
  LET each(parts) ==
        [at \in DOMAIN parts |->
           IF IsAbsent(parts[at]) THEN Mask ELSE Redact(parts[at], Of(v)[at])]
      agreed(arms, made) ==
        IF arms = <<>> THEN Fallback(v)
        ELSE IF Cardinality(made) > 1 \/ \E arm \in ToSet(arms) : MarksSecret(arm) THEN Mask
        ELSE CHOOSE m \in made : TRUE
      as(k, kind) ==
        CASE kind = "ref" -> Mask
          [] kind \in {"list", "tuple"} /\ IsList(v) -> ListOf(each(ItemParts(k, kind, v)))
          [] kind \in {"map", "mapof", "variant"} /\ IsMap(v) ->
               MapOf(each(IF kind = "variant" THEN VariantParts(k, v)
                          ELSE EntryParts(IF kind = "map" THEN Fields(k) ELSE <<>>,
                                          Get(k, "additionalProperties"), v)))
          [] kind = "union" ->
               agreed(Accepting(k, v), {Redact(arm, v) : arm \in ToSet(Accepting(k, v))})
          [] OTHER -> Fallback(v)
  IN IF MarksSecret(s) THEN Mask ELSE as(Peel(s), KindOf(Peel(s)))

-----------------------------------------------------------------------------
(* Inlining references.  A copy carries what has been spent on it.         *)

\* size: a node or a key counts one, whatever its text.
RECURSIVE Size(_)
Size(v) ==
  CASE IsMap(v) -> 1 + MapThenSumSet(LAMBDA key : 1 + Size(v.entries[key]), DOMAIN v.entries)
    [] IsList(v) -> 1 + MapThenSumSet(LAMBDA i : Size(v.items[i]), DOMAIN v.items)
    [] OTHER -> 1

Budget(root) == BUDGET_FACTOR * Size(root) + BUDGET_FLOOR

DataKeywords == {"default", "const", "examples", "enum"}
NameMaps == {"properties", "defs"}

Defined(root, name) == Get(Get(root, "defs"), name)

Copy(value, cost) == [value |-> value, spent |-> cost]
Data(v, cost) == Copy(v, cost + Size(v))

\* Mutant of Affords: the budget is looked at, and what is spent is not.
AffordsMutant(root, target, cost) == Size(target) <= Budget(root)

Affords(root, target, cost) == cost + Size(target) <= Budget(root)

\* target, and whether it is followed.
Expandable(root, active, cost, v) ==
  /\ IsStr(Get(v, "ref")) /\ ~IsAbsent(Defined(root, Get(v, "ref").s))
  /\ Get(v, "ref").s \notin active
  /\ Affords(root, Defined(root, Get(v, "ref").s), cost)

\* A chain of references followed in place: its referrers, outermost first,
\* and where it ends.
RECURSIVE Follow(_, _, _, _, _)
Follow(root, active, cost, referrers, v) ==
  IF Expandable(root, active, cost, v)
  THEN Follow(root, active \cup {Get(v, "ref").s}, cost, Append(referrers, v),
              Defined(root, Get(v, "ref").s))
  ELSE [active |-> active, referrers |-> referrers, end |-> v]

RECURSIVE InlineSchema(_, _, _, _, _)

\* Every value of `keyed`, copied in turn, each as `copied` says.
Each(keyed, cost, copied(_, _)) ==
  FoldSet(LAMBDA key, out : LET c == copied(key, out.spent)
                            IN Copy([out.value EXCEPT ![key] = c.value], c.spent),
          Copy(keyed, cost), DOMAIN keyed)

\* Inliner::entry.
InlineEntry(root, active, key, v, cost) ==
  LET schemas(keyed, extra) ==
        Each(keyed, cost + 1,
             LAMBDA at, sofar : InlineSchema(root, active, keyed[at], sofar + extra, FALSE))
  IN CASE key \in DataKeywords -> Data(v, cost)
       [] key \in NameMaps /\ IsMap(v) ->
            LET out == schemas(v.entries, 1) IN Copy(MapOf(out.value), out.spent)
       [] key \notin DataKeywords /\ IsList(v) ->
            LET out == schemas(v.items, 0) IN Copy(ListOf(out.value), out.spent)
       [] OTHER -> InlineSchema(root, active, v, cost, FALSE)

\* Inliner::object.
InlineObject(root, active, m, cost, isRoot) ==
  LET kept == DOMAIN m.entries \ (IF isRoot THEN {"defs"} ELSE {})
      out == Each([key \in kept |-> m.entries[key]], cost + 1,
                  LAMBDA key, sofar :
                    InlineEntry(root, active, key, m.entries[key], sofar + 1))
  IN Copy(MapOf(out.value), out.spent)

\* What is written beside a reference goes over what it names.
LaidOver(root, active, referrer, out, outermost) ==
  LET beside == DOMAIN referrer.entries \ ({"ref"} \cup IF outermost THEN {"defs"} ELSE {})
      over == Each([key \in beside |-> referrer.entries[key]], out.spent,
                   LAMBDA key, sofar :
                     InlineEntry(root, active, key, referrer.entries[key], sofar))
  IN Copy(MapOf(over.value @@ out.value.entries), over.spent)

\* Inliner::schema and expand.
InlineSchema(root, active, v, cost, isRoot) ==
  LET f == Follow(root, active, cost, <<>>, v)
      out == IF IsMap(f.end)
             THEN InlineObject(root, f.active, f.end, cost, isRoot /\ f.referrers = <<>>)
             ELSE Data(f.end, cost)
      n == Len(f.referrers)
  IN IF ~IsMap(out.value) THEN out
     ELSE FoldLeftDomain(LAMBDA over, i :
            LaidOver(root, f.active, f.referrers[n + 1 - i], over, isRoot /\ i = n),
          out, f.referrers)

-----------------------------------------------------------------------------
(* A caller inlines a document once, then judges or shows a value by it.   *)

SchemaInit ==
  /\ subject = Null /\ inlined = AbsentValue /\ spent = 0
  /\ judged = "none" /\ shown = AbsentValue

InlineRefs ==
  /\ IsAbsent(inlined)
  /\ LET out == InlineSchema(document, {}, document, 0, TRUE)
     IN inlined' = out.value /\ spent' = out.spent
  /\ UNCHANGED <<document, subject, judged, shown>>

Uncalled == judged = "none" /\ IsAbsent(shown)

ValidateValue(v) ==
  /\ ~IsAbsent(inlined) /\ Uncalled
  /\ subject' = v
  /\ judged' = IF ValueAgainst(inlined, v) THEN "accepted" ELSE "refused"
  /\ UNCHANGED <<document, inlined, spent, shown>>

ValidateMap(v) ==
  /\ IsMap(inlined) /\ IsMap(v) /\ Uncalled
  /\ subject' = v
  /\ judged' = IF MapAgainst(inlined, v) THEN "accepted" ELSE "refused"
  /\ UNCHANGED <<document, inlined, spent, shown>>

RedactValue(v) ==
  /\ ~IsAbsent(inlined) /\ Uncalled
  /\ subject' = v
  /\ shown' = Redact(inlined, v)
  /\ UNCHANGED <<document, inlined, spent, judged>>

SchemaNext ==
  \/ InlineRefs
  \/ \E v \in Subjects : ValidateValue(v) \/ ValidateMap(v) \/ RedactValue(v)

-----------------------------------------------------------------------------
(* What a document means: every keyword applies, and a reference is the    *)
(* definition it names together with what is written beside it.            *)

RECURSIVE Valid(_, _, _)
ValidItems(root, s, v) ==
  LET positions == ListAt(s, "prefixItems")
      n == Len(positions)
  IN /\ CountFits(s, v) /\ UniqueFits(s, v)
     /\ \A i \in DOMAIN v.items :
          /\ i <= n => Valid(root, positions[i], v.items[i])
          /\ i > n /\ Has(s, "items") => Valid(root, Get(s, "items"), v.items[i])
ValidEntries(root, s, v) ==
  LET p == IF Has(s, "properties") THEN Get(s, "properties").entries ELSE <<>>
  IN /\ \A r \in MembersAt(s, "required") : r.s \in DOMAIN v.entries
     /\ \A key \in DOMAIN v.entries :
          /\ key \in DOMAIN p => Valid(root, p[key], v.entries[key])
          /\ key \notin DOMAIN p /\ Has(s, "additionalProperties") =>
               Valid(root, Get(s, "additionalProperties"), v.entries[key])
          /\ Has(s, "propertyNames") => Valid(root, Get(s, "propertyNames"), Str(key))
Valid(root, s, v) ==
  IF ~IsMap(s) THEN s = Bool(TRUE)
  ELSE /\ Has(s, "ref") => Valid(root, Defined(root, Get(s, "ref").s), v)
       /\ TypeAdmits(s, v)
       /\ Has(s, "enum") => v \in MembersAt(s, "enum")
       /\ Has(s, "const") => v = Get(s, "const")
       /\ Has(s, "not") => ~Valid(root, Get(s, "not"), v)
       /\ \A m \in MembersAt(s, "allOf") : Valid(root, m, v)
       /\ Has(s, "anyOf") => \E m \in MembersAt(s, "anyOf") : Valid(root, m, v)
       /\ Has(s, "oneOf") =>
            Cardinality({i \in DOMAIN ListAt(s, "oneOf") :
                           Valid(root, ListAt(s, "oneOf")[i], v)}) = 1
       /\ v.tag = "num" => WithinBounds(s, v.n)
       /\ IsList(v) => ValidItems(root, s, v)
       /\ IsMap(v) => ValidEntries(root, s, v)

\* The schemas that describe a value or a part of it, with the part's path:
\* of several forms those it has, and what an optional wraps even of a null.
Under(step, described) == {<<<<step>> \o d[1], d[2]>> : d \in described}
RECURSIVE Describing(_, _, _)
Describing(root, s, v) ==
  LET forms == {m \in MembersAt(s, "anyOf") \cup MembersAt(s, "oneOf") : Valid(root, m, v)}
      wrapped == IF IsAbsent(PeelOnce(s)) THEN {} ELSE {PeelOnce(s)}
      named == IF Has(s, "ref") THEN {Defined(root, Get(s, "ref").s)} ELSE {}
      positions == ListAt(s, "prefixItems")
      element(i) == IF i <= Len(positions) THEN positions[i] ELSE Get(s, "items")
      p == IF Has(s, "properties") THEN Get(s, "properties").entries ELSE <<>>
      entry(key) == IF key \in DOMAIN p THEN p[key] ELSE Get(s, "additionalProperties")
  IN {<<<<>>, s>>}
     \cup UNION {Describing(root, m, v) :
                   m \in forms \cup wrapped \cup named \cup MembersAt(s, "allOf")}
     \cup (IF IsList(v)
           THEN UNION {Under(ToString(i), Describing(root, element(i), v.items[i])) :
                         i \in DOMAIN v.items} ELSE {})
     \cup (IF IsMap(v)
           THEN UNION {Under(key, Describing(root, entry(key), v.entries[key])) :
                         key \in DOMAIN v.entries} ELSE {})

SecretPaths == {d[1] : d \in {x \in Describing(document, document, subject) : IsSecret(x[2])}}

RECURSIVE HiddenAt(_, _)
HiddenAt(v, path) ==
  \/ v = Mask
  \/ /\ path # <<>>
     /\ IF IsMap(v) THEN HiddenAt(v.entries[Head(path)], Tail(path))
        ELSE LET i == CHOOSE i \in DOMAIN v.items : ToString(i) = Head(path)
             IN HiddenAt(v.items[i], Tail(path))

-----------------------------------------------------------------------------
(* Where the readers are known not to do what a document means.            *)

RECURSIVE Parts(_)
Parts(v) ==
  {v} \cup UNION (IF IsScalar(v) THEN {} ELSE {Parts(Of(v)[at]) : at \in DOMAIN Of(v)})

\* A scalar's `not` is compared by spelling also: against takes the text of a
\* number for a text and that of a text for a number.
NotBySpelling(s) == Has(s, "not") /\ DeclaredType(s) \in {"string", "integer", "number"}

\* redact takes an element past a tuple's positions for described by nothing,
\* and what is said beside a type in allOf, anyOf or oneOf for unsaid.
Overlooked(s) ==
  \/ Has(s, "prefixItems") /\ IsMap(Get(s, "items"))
  \/ Has(s, "type") /\ ~Has(s, "variantTag") /\ \E key \in {"allOf", "anyOf", "oneOf"} : Has(s, key)

\* validate_map finds no field in a root that wraps its object.
RootIsWrapped(root) == ~Has(root, "properties") /\ ~IsAbsent(PeelOnce(root))

-----------------------------------------------------------------------------
(* Properties.                                                             *)

\* Nothing the document marks secret, at any depth, behind references and in
\* whichever form the value has, is in what redact returns.
SecretsAreHidden ==
  ~IsAbsent(shown) /\ (\A s \in Parts(document) : ~Overlooked(s)) =>
    \A path \in SecretPaths : HiddenAt(shown, path)

\* No value the document allows is refused; of the shapes the builders write
\* none is accepted that it does not allow either.
VerdictIsMeant ==
  judged # "none" =>
    /\ Valid(document, document, subject) /\ (\A s \in Parts(document) : ~NotBySpelling(s)) =>
         judged = "accepted"
    /\ judged = "accepted" /\ document \in BuiltDocuments
         /\ (IsMap(subject) => ~RootIsWrapped(document)) => Valid(document, document, subject)

\* However references multiply, what is spent on a copy passes its budget by
\* no more than the document itself.  A key beside a reference is not counted,
\* but its value is, so a copy is at most twice what was spent.
InlineIsBounded ==
  ~IsAbsent(inlined) /\ Uncalled =>
    Size(inlined) <= 2 * spent /\ spent <= Budget(document) + Size(document)
=============================================================================
