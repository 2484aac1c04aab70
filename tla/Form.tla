-------------------------------- MODULE Form --------------------------------
(***************************************************************************)
(* A form over a schema (guatiao-intake judge.rs): whether the form fits,  *)
(* and which of its fields are shown for what a person has filled in.      *)
(*                                                                         *)
(* Fields' names are bare.  Of the hints a field may have, its condition   *)
(* and the form of its own are kept; how sections are laid out is not.     *)
(***************************************************************************)
EXTENDS Flat
LOCAL INSTANCE SequencesExt

CONSTANTS
  FormRoot,    \* the document the form is over
  Forms,       \* forms a caller may have
  FormFills    \* what a person may have filled in

VARIABLES
  form,
  fits   \* what check answers

formvars == <<form, fits>>

\* A form: the ids of its sections, and hints by path; each with a condition
\* on another field and a form of its own, each a sequence of one or none.
HintsOf(f) == {f.fields[i] : i \in DOMAIN f.fields}
ConditionOf(f, path) ==
  LET at == {h \in HintsOf(f) : h.path = path}
  IN IF at = {} THEN <<>> ELSE (CHOOSE h \in at : TRUE).when

-----------------------------------------------------------------------------

\* top_level: the field a path of one segment names, however it spells it.
TopLevel(root, path) ==
  IF Len(path) = 1 THEN FieldOr(Fields(root), path[1][2]) ELSE AbsentValue
FormKey(root, path) ==
  IF IsAbsent(TopLevel(root, path)) THEN path ELSE <<<<"field", path[1][2]>>>>

\* check_condition.  A variant by its own key is compared with its tag.
ConditionFits(root, when) ==
  LET against(s, byTag) ==
        /\ ~IsAbsent(s) /\ when.values # {}
        /\ \A v \in when.values :
             IF byTag THEN IsStr(v) /\ Against(s, v.s) ELSE ValueAgainst(s, v)
      at(s) == against(s, KindOf(Peel(s)) = "variant" /\ Len(when.field) = 1)
  IN at(Resolve(root, when.field))

\* Mutant of WaitsOn: the field a condition reads is taken as it is spelled.
WaitsOnMutant(root, f) ==
  LET conditioned == {h \in HintsOf(f) : h.when # <<>>}
  IN [path \in {h.path : h \in conditioned} |-> ConditionOf(f, path)[1].field]

\* What each conditioned field waits on.
WaitsOn(root, f) ==
  LET conditioned == {h \in HintsOf(f) : h.when # <<>>}
  IN [path \in {h.path : h \in conditioned} |-> FormKey(root, ConditionOf(f, path)[1].field)]

\* find_cycle: each chain walked to its end, to one walked before, or to a
\* field it has passed.
RECURSIVE Walk(_, _, _, _)
Walk(next, at, trail, cleared) ==
  IF at \in cleared THEN [trail |-> trail, cycle |-> {}]
  ELSE IF at \in trail THEN [trail |-> trail, cycle |-> {at}]
  ELSE IF at \notin DOMAIN next THEN [trail |-> trail \cup {at}, cycle |-> {}]
  ELSE Walk(next, next[at], trail \cup {at}, cleared)

FindCycle(root, f) ==
  LET walk(sofar, h) ==
        LET w == Walk(WaitsOn(root, f), h.path, {}, sofar.cleared)
        IN IF sofar.cycle # {} THEN sofar
           ELSE [cleared |-> sofar.cleared \cup w.trail, cycle |-> w.cycle]
  IN FoldLeft(walk, [cleared |-> {}, cycle |-> {}], f.fields).cycle

\* member_schema: what a field's own form is over.
MemberSchema(s) ==
  LET as(k, kind) == CASE kind = "map" -> k
                       [] kind = "list" -> Get(k, "items")
                       [] kind = "mapof" -> Get(s, "additionalProperties")
                       [] OTHER -> AbsentValue
      schema(inner) == IF IsMap(inner) THEN inner ELSE AbsentValue
  IN schema(as(Peel(s), KindOf(Peel(s))))

\* check_at.
RECURSIVE FormFits(_, _)
FormFits(root, f) ==
  LET ownFits(s, own) == ~IsAbsent(s) /\ FormFits(s, own)
      hintFits(s, h) ==
        /\ ~IsAbsent(s)
        /\ \A when \in ToSet(h.when) : ConditionFits(root, when)
        /\ \A own \in ToSet(h.form) : ownFits(MemberSchema(s), own)
  IN /\ IsInjective(f.sections)
     /\ \A h \in HintsOf(f) : hintFits(Resolve(root, h.path), h)
     /\ FindCycle(root, f) = {}

-----------------------------------------------------------------------------
(* is_visible.                                                             *)

\* declares: the arm chosen now has the member.
Declares(root, filled, owner, member) ==
  LET chosenHas(k, picked) ==
        /\ KindOf(k) = "variant" /\ IsStr(picked)
        /\ \E arm \in ToSet(ArmsNamed(k, picked.s)) : member \in DOMAIN ArmFields(arm, TagOf(k))
      as(k) == chosenHas(k, IF IsMap(k) /\ Has(k, "variantTag")
                            THEN Get(Get(filled, owner), TagOf(k)) ELSE AbsentValue)
  IN owner \in DOMAIN Fields(root) /\ as(Peel(Fields(root)[owner]))

OrDefault(v, s) == IF IsAbsent(v) THEN Get(s, "default") ELSE v

\* Mutant of MemberNow: an arm's member is read whichever arm is chosen.
MemberNowMutant(root, filled, owner, member) == Get(Get(filled, owner), member)

MemberNow(root, filled, owner, member) ==
  IF Declares(root, filled, owner, member) THEN Get(Get(filled, owner), member) ELSE AbsentValue

\* current: what a field holds, or its default.
Current(root, filled, path) ==
  LET held(v, k) == IF KindOf(k) = "variant" /\ IsMap(v) THEN Get(v, TagOf(k)) ELSE v
      member == IF Len(path) = 2 THEN MemberNow(root, filled, path[1][2], path[2][2]) ELSE AbsentValue
      as(top) == IF IsAbsent(top) THEN OrDefault(member, Resolve(root, path))
                 ELSE held(OrDefault(Get(filled, path[1][2]), top), Peel(top))
  IN as(TopLevel(root, path))

\* The conditions a field's showing needs, along the chain it waits on; one
\* that leads back, or through a path the schema lacks, has no end.
RECURSIVE Needs(_, _, _, _)
Needs(root, f, at, seen) ==
  LET reached(end) == [end |-> end, conditions |-> {}]
      along(when) ==
        IF when = <<>> THEN reached("shown")
        ELSE [Needs(root, f, FormKey(root, when[1].field), seen \cup {at})
                EXCEPT !.conditions = @ \cup {when[1]}]
  IN IF IsAbsent(Resolve(root, at)) THEN reached("unknown")
     ELSE IF at \in seen THEN reached("hidden") ELSE along(ConditionOf(f, at))

Visible(root, f, path, filled) ==
  LET met(when) == Current(root, filled, when.field) \in when.values
      by(needs) ==
        IF needs.end = "unknown" THEN "unknown"
        ELSE IF needs.end = "shown" /\ \A when \in needs.conditions : met(when) THEN "shown"
        ELSE "hidden"
  IN by(Needs(root, f, FormKey(root, path), {}))

-----------------------------------------------------------------------------

FormInit == fits = "unchecked"

CheckForm ==
  /\ fits = "unchecked"
  /\ fits' = IF FormFits(FormRoot, form) THEN "yes" ELSE "no"
  /\ UNCHANGED form

FormNext == CheckForm

-----------------------------------------------------------------------------
(* Properties.                                                             *)

\* The conditions that no value meets though check accepts them: on a member
\* of an object, of a list or of an open map, which current does not read; and
\* those of one variant that ask for members of different arms.
NotRead(path) == IsAbsent(TopLevel(FormRoot, path)) /\
  (Len(path) # 2 \/ KindOf(Peel(FieldOr(Fields(FormRoot), path[1][2]))) # "variant")
Contradict(conditions) ==
  \E one, other \in conditions :
    /\ one # other /\ one.field[1][2] = other.field[1][2]
    /\ \A filled \in FormFills :
         ~(Current(FormRoot, filled, one.field) \in one.values
           /\ Current(FormRoot, filled, other.field) \in other.values)

\* A field of a form that fits is shown for something a person can fill in:
\* no chain of conditions leads back to itself however it is spelled, and none
\* waits for a value its field never holds.
CheckedIsShown ==
  fits = "yes" =>
    \A h \in HintsOf(form) :
      LET conditions == Needs(FormRoot, form, FormKey(FormRoot, h.path), {}).conditions
      IN (\A when \in conditions : ~NotRead(when.field)) /\ ~Contradict(conditions) =>
           \E filled \in FormFills : Visible(FormRoot, form, h.path, filled) = "shown"

\* What is shown waits on something shown: a value left in a hidden field, or
\* by an arm no longer chosen, shows nothing.
HiddenHides ==
  fits = "yes" =>
    \A h \in HintsOf(form), filled \in FormFills :
      Visible(FormRoot, form, h.path, filled) = "shown" =>
        \A when \in ToSet(h.when) :
          /\ Visible(FormRoot, form, when.field, filled) = "shown"
          /\ Len(when.field) = 2 =>
               \/ Declares(FormRoot, filled, when.field[1][2], when.field[2][2])
               \/ ~IsAbsent(Get(Resolve(FormRoot, when.field), "default"))

\* Where a chain is after n steps; nowhere past its end.
RECURSIVE WaitedFor(_, _, _)
WaitedFor(next, at, n) ==
  IF n = 0 THEN at ELSE IF at \notin DOMAIN next THEN <<>> ELSE WaitedFor(next, next[at], n - 1)

\* find_cycle finds a field that waits on itself exactly when there is one,
\* though it walks no chain twice.
CyclesAreFound ==
  LET next == WaitsOn(FormRoot, form)
      waiting == {path \in DOMAIN next :
                    \E n \in 1 .. Cardinality(DOMAIN next) : WaitedFor(next, path, n) = path}
  IN /\ FindCycle(FormRoot, form) \subseteq waiting
     /\ FindCycle(FormRoot, form) = {} => waiting = {}
=============================================================================
