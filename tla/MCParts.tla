------------------------------ MODULE MCParts ------------------------------
(***************************************************************************)
(* The parts of links and of values that meet nothing of each other's      *)
(* state, each checked by itself: `part` says which one a behaviour is     *)
(* about, and the others stay as they begin.                               *)
(***************************************************************************)
EXTENDS Handshake, Described, KnownKinds, Buffers, SlotCall,
        Merge, Encoder, Decoder, Form, TLC

VARIABLE part

linkvars == <<hvars, dvars, kvars, ovars, bufvars, waitvars, callvars, lendvars, mergevars, encvars, decvars>>
docvars == <<schemavars, flatvars, formvars>>
vars == <<part, linkvars, docvars>>

Levels == {"local", "trusted", "secure", "servertls"}
MCClients == [trust : Levels, key : {"none", "k"}, token : {"none", "blank", "t"}]
MCServers == [trust : Levels, key : {"none", "k", "other"},
              token : {"none", "blank", "t", "other"}]
Stream == [proves |-> FALSE, mutual |-> FALSE, encrypted |-> FALSE, message |-> FALSE]
MCKinds == {Stream,
            [Stream EXCEPT !.proves = TRUE, !.mutual = TRUE, !.encrypted = TRUE],
            [Stream EXCEPT !.message = TRUE],
            [Stream EXCEPT !.message = TRUE, !.proves = TRUE, !.encrypted = TRUE],
            [proves |-> TRUE, mutual |-> TRUE, encrypted |-> TRUE, message |-> TRUE]}
Trusting == [trust |-> "trusted", key |-> "none", token |-> "none"]

MCOwn == ("p" :> ("j" :> 1)) @@ ("q" :> ("k" :> 1)) @@ ("r" :> ("k" :> 2 @@ "j" :> 1))
MCServes == ("p" :> {"j"}) @@ ("q" :> {"k", "j"}) @@ ("r" :> {"k", "j"})

Lending(lent, target) == [lent |-> lent, target |-> target]
MCCalls == {Lending(<<>>, <<"a">>), Lending(<<"a">>, <<>>), Lending(<<"a", "b">>, <<>>),
            Lending(<<"b">>, <<"a">>), Lending(<<"a", "a">>, <<>>), Lending(<<>>, <<"b">>)}

SlotOf(args, answer, sensitive) == [args |-> args, answer |-> answer, sensitive |-> sensitive]
MCSlots ==
  {SlotOf(args, answer, FALSE) :
     args \in {<<>>, <<"tree", "tree">>, <<"tree", "object">>, <<"scalar", "tree">>, <<"object", "lent tree">>,
               <<"lent object", "object">>},
     answer \in {"nothing", "scalar", "text", "tree", "object"}}
  \cup {SlotOf(args, answer, TRUE) : args \in {<<>>, <<"lent tree">>}, answer \in {"text", "tree"}}

LeafValues == {AbsentValue, Null, Num(1), Num(2)}
Inner == LeafValues \cup
         {ListOf(<<>>), ListOf(<<Num(2), Num(1)>>),
          ListOf(<<MapOf("b" :> Num(1))>>), ListOf(<<MapOf("b" :> Num(2) @@ "c" :> Num(1))>>),
          MapOf(<<>>), MapOf("b" :> Num(1)), MapOf("b" :> Num(2) @@ "c" :> Num(1))}
MCLayers == {MapOf(<<>>), Num(1), AbsentValue} \cup {ListOf(<<v>>) : v \in Inner}
            \cup {MapOf("a" :> v) : v \in Inner}
            \cup {MapOf("a" :> v @@ "b" :> Num(1)) : v \in LeafValues \cup {MapOf("b" :> Num(1))}}
ModeOf(mode, lists, overrides) == [mode |-> mode, mergelists |-> lists, overrides |-> overrides]
MCContexts == {ModeOf(mode, FALSE, <<>>) : mode \in {"simple", "substitute", "deep"}}
              \cup {ModeOf("deep", TRUE, <<>>)}
              \cup {ModeOf("substitute", FALSE, <<"a">> :> mode) : mode \in {"deep", "simple"}}

\* Texts of one letter or none; all bytes up to four, and four more after the
\* beginning of a map of two entries, alone, in lists, and with a map in it.
MCEventKeys == {<<>>, <<0>>}
UpToFour == UNION {[1 .. n -> NULL .. BAD] : n \in 0 .. 4}
Begun == {<<>>, <<MAP, 2, 1>>, <<LIST, 1, MAP, 2, 1>>, <<LIST, 2, 1, MAP, 1>>,
          <<MAP, 2, 1, 0, MAP, 1>>}
MCInputs == {p \o s : p \in Begun, s \in UpToFour} \cup
            {<<LIST, 1, LIST, 1, LIST, 1, MAP, 2, 1, 0, NULL, 0, NULL>>,
             <<MAP, 2, 1, 0, MAP, 1, 0, NULL, 1, 0, NULL>>,
             <<MAP, 2, 1, 0, MAP, 1, 0, NULL, 0, NULL>>}

\* Documents for Schema: the shapes the builders write, around marked and
\* unmarked leaves and around what no builder writes, and documents with
\* references: in an optional, in a chain, in a cycle, and doubling.
\* Fields for Flat, next to one whose name spells a path under them, with what
\* is written and strayed into them; and forms for Form, over a scalar, a
\* choice with a default, a variant and a list.
Typed(name) == MapOf([type |-> Str(name)])
Marked(mark, s) == MapOf((mark :> Bool(TRUE)) @@ s.entries)
SecretText == Marked("sensitive", Typed("string"))
Ref(name) == MapOf([ref |-> Str(name)])
AnyOf(arms) == MapOf([anyOf |-> ListOf(arms)])
AllOf(arms) == MapOf([allOf |-> ListOf(arms)])
OneEach(s) == MapOf([type |-> Str("array"), items |-> s])
OpenMap(props) == MapOf([type |-> Str("object"), properties |-> MapOf(props)])
SealedMap(props, required) ==
  MapOf([type |-> Str("object"), properties |-> MapOf(props), required |-> ListOf(required),
         additionalProperties |-> Bool(FALSE)])
ArmOf(name, props) ==
  SealedMap([kind |-> MapOf([const |-> Str(name)])] @@ props, <<Str("kind")>>)

SomeOf == MapOf([enum |-> ListOf(<<Str("5"), Num(2), Null>>)])
TextOrNull == [type |-> ListOf(<<Str("string"), Str("null")>>)]
MarkedLeaves == {SecretText, Marked("writeOnly", Typed("integer"))}
SchemaLeaves ==
  MarkedLeaves \cup
  {Typed("string"), Typed("integer"), Typed("boolean"), Typed("null"), SomeOf,
   MapOf([type |-> Str("integer"), minimum |-> Num(1), maximum |-> Num(2)]),
   MapOf(TextOrNull), MapOf([enum |-> ListOf(<<Str("5"), Num(2)>>)] @@ TextOrNull),
   MapOf([oneOf |-> ListOf(<<MapOf([const |-> Str("5")]), MapOf([const |-> Num(2)])>>)])}
Unions == {AnyOf(<<a, b>>) : a \in {SecretText, SomeOf, Typed("string")},
                             b \in {SecretText, SomeOf, Typed("null"), Typed("integer")}}
Unbuilt ==
  {Bool(TRUE), Bool(FALSE), MapOf(<<>>), Typed("array"), Typed("later"),
   AllOf(<<SecretText>>), AllOf(<<Typed("string"), Marked("sensitive", MapOf(<<>>))>>),
   AllOf(<<AnyOf(<<Typed("null"), SecretText>>)>>), MapOf([not |-> Typed("string")]),
   MapOf([type |-> Str("string"), not |-> MapOf([enum |-> ListOf(<<Str("5")>>)])]),
   MapOf([type |-> Str("string"), not |-> Typed("integer")])}

Shapes(s) ==
  {s, OneEach(s), OpenMap([a |-> s]),
   SealedMap([a |-> s, b |-> Typed("integer")], <<Str("b")>>),
   MapOf([type |-> Str("object"), additionalProperties |-> s]),
   MapOf([additionalProperties |-> s] @@ OpenMap([b |-> Typed("integer")]).entries),
   MapOf([type |-> Str("array"), prefixItems |-> ListOf(<<s, Typed("integer")>>),
          items |-> Bool(FALSE)]),
   MapOf([type |-> Str("array"), prefixItems |-> ListOf(<<s>>), items |-> SecretText]),
   MapOf([minItems |-> Num(1), maxItems |-> Num(2), uniqueItems |-> Bool(TRUE)]
         @@ OneEach(s).entries),
   MapOf([type |-> Str("object"), variantTag |-> Str("kind"),
          oneOf |-> ListOf(<<ArmOf("5", [a |-> s]), ArmOf("x", [b |-> Typed("integer")])>>)]),
   AnyOf(<<OpenMap([a |-> s]), OneEach(s)>>),
   AnyOf(<<OpenMap([a |-> s]), OpenMap([a |-> Typed("string")])>>),
   AllOf(<<OpenMap([a |-> s])>>), AnyOf(<<OpenMap([a |-> s]), Typed("null")>>)}

Doc(s, defs) == MapOf([defs |-> MapOf(defs)] @@ OpenMap([a |-> s]).entries)
Pair(name) == OpenMap([a |-> Ref(name), b |-> Ref(name)])
Referring ==
  UNION {{Doc(Ref("d"), [d |-> s]), Doc(AnyOf(<<Ref("d"), Typed("null")>>), [d |-> s]),
          Doc(AllOf(<<Ref("d")>>), [d |-> s]), Doc(Ref("e"), [e |-> Ref("d"), d |-> s]),
          Doc(MapOf([ref |-> Str("e"), default |-> Ref("d")]), [e |-> OneEach(Ref("d")), d |-> s])}
         : s \in MarkedLeaves \cup {Typed("string")}} \cup
  {Doc(Ref("e"), [e |-> OpenMap([a |-> Ref("e"), b |-> SecretText])]),
   Doc(Ref("e"), [e |-> Pair("d"), d |-> Pair("f"), f |-> Pair("g"),
                  g |-> OpenMap([a |-> SecretText])]),
   MapOf([ref |-> Str("d"), defs |-> MapOf([d |-> OpenMap([a |-> SecretText])])])}

MCDocuments == UNION {Shapes(s) : s \in SchemaLeaves \cup Unions \cup Unbuilt} \cup Referring
MCBuilt == UNION {Shapes(s) : s \in SchemaLeaves}

SubjectLeaves == {Str("5"), Str("x"), Num(5), Num(2), Null}
SubjectParts == SubjectLeaves \cup {ListOf(<<Str("x")>>), MapOf([a |-> Str("x")]), Bool(TRUE)}
MCSubjects ==
  SubjectParts \cup {ListOf(<<>>), MapOf(<<>>)}
  \cup {ListOf(<<v>>) : v \in SubjectParts} \cup {ListOf(<<v, Str("x")>>) : v \in SubjectLeaves}
  \cup {ListOf(<<Num(2), Num(2)>>), ListOf(<<Str("5"), Num(2), Str("x")>>)}
  \cup {MapOf([a |-> v]) : v \in SubjectParts} \cup {MapOf([a |-> v, b |-> Num(2)]) : v \in SubjectParts}
  \cup {MapOf([kind |-> k, a |-> v]) : k \in {Str("5"), Num(5)}, v \in SubjectLeaves}
  \cup {MapOf([kind |-> Str("x"), b |-> Num(2)]),
        MapOf([a |-> MapOf([a |-> MapOf([b |-> Str("x")]),
                            b |-> MapOf([b |-> Str("x"), a |-> Str("x")])])])}

MapTo(s) == MapOf([type |-> Str("object"), additionalProperties |-> s])
Positions(schemas) == MapOf([type |-> Str("array"), prefixItems |-> ListOf(schemas)])
Chosen(arms) ==
  MapOf([type |-> Str("object"), variantTag |-> Str("kind"), oneOf |-> ListOf(arms)])
Free == Typed("string")
ArmsAlike ==
  Chosen(<<ArmOf("x", [b |-> Free]), ArmOf("y", [b |-> SecretText, c |-> OneEach(Free)]),
           ArmOf("z", <<>>)>>)
ArmsApart == Chosen(<<ArmOf("x", [b |-> SecretText]), ArmOf("y", [c |-> Free])>>)
FlatFields ==
  {OneEach(ArmsAlike), Positions(<<Free, OneEach(Free)>>), MapTo(SecretText),
   AnyOf(<<MapTo(SecretText), Typed("null")>>), AnyOf(<<ArmsApart, Typed("null")>>), ArmsAlike,
   OpenMap(("b" :> SecretText) @@ ("a.b" :> Free)), OpenMap([b |-> MapTo(OneEach(Free))])}
MCFlatRoots == {OpenMap(("a" :> s) @@ ("a.b" :> Free)) : s \in FlatFields}

FlatValues ==
  {Null, ListOf(<<Str("x"), Null>>), ListOf(<<Null, ListOf(<<Str("x")>>)>>),
   ListOf(<<Str("x"), ListOf(<<Num(2)>>)>>),
   ListOf(<<MapOf([kind |-> Str("x"), b |-> Str("t")]), Null,
            MapOf([kind |-> Str("y"), b |-> Str("t")])>>),
   MapOf(("b" :> Str("x")) @@ ("a.b" :> Str("t"))), MapOf([b |-> MapOf(<<>>)]),
   MapOf(("0" :> Str("t")) @@ ("b" :> MapOf("0" :> ListOf(<<Str("t")>>))))}
  \cup {MapOf([kind |-> Str(x), b |-> Str("t"), c |-> w]) :
          x \in {"x", "y", "z"}, w \in {ListOf(<<Str("t")>>), Null}}
MCFlatWrites == {<<"a", v>> : v \in FlatValues} \cup {<<"a.b", Str("t")>>}

FieldNamed(name) == <<<<"field", name>>>>
Steps(how, text) == FieldNamed("a") \o <<<<how, text>>>>
MCStrayKeys ==
  {FieldNamed("a"), Steps("field", "b"), Steps("quoted", "b"), Steps("key", "0"),
   Steps("index", "0"), Steps("index", "2"), Steps("field", "c") \o <<<<"index", "1">>>>,
   Steps("index", "1") \o <<<<"index", "0">>>>, Steps("index", "2") \o <<<<"field", "b">>>>}

WithDefault(text, s) == MapOf([default |-> Str(text)] @@ s.entries)
MCFormRoot ==
  OpenMap([a |-> Typed("boolean"),
           b |-> WithDefault("x", MapOf([enum |-> ListOf(<<Str("x"), Str("y")>>)])),
           v |-> Chosen(<<ArmOf("x", [b |-> SecretText]),
                          ArmOf("y", [c |-> Free, d |-> WithDefault("t", Free)])>>),
           o |-> OneEach(OpenMap([h |-> Free]))])

Part(name) == FieldNamed("v") \o FieldNamed(name)
On(path, values) == <<[field |-> path, values |-> values]>>
Conditions ==
  {<<>>, On(FieldNamed("a"), {Bool(TRUE)}), On(<<<<"key", "a">>>>, {Bool(FALSE)}),
   On(FieldNamed("b"), {Str("x")}), On(FieldNamed("b"), {Str("y"), Str("q")}),
   On(FieldNamed("v"), {Str("x")}), On(FieldNamed("v"), {Str("y")}), On(Part("b"), {Str("t")}),
   On(Part("d"), {Str("t")}), On(Part("c"), {Num(2)}), On(FieldNamed("z"), {Str("t")}),
   On(FieldNamed("o") \o <<<<"index", "0">>>> \o FieldNamed("h"), {Str("t")})}
Hint(path, when) == [path |-> path, when |-> when, form |-> <<>>]
FormOf(sections, fields) == [sections |-> sections, fields |-> fields]
InForm(path, when) ==
  <<[Hint(path, <<>>) EXCEPT !.form = <<FormOf(<<>>, <<Hint(FieldNamed("h"), when)>>)>>]>>
MCForms ==
  {FormOf(<<>>, [i \in 1 .. 3 |-> Hint(order[i], conditions[i])]) :
     order \in {<<FieldNamed("a"), FieldNamed("b"), FieldNamed("v")>>,
                <<FieldNamed("b"), Part("b"), FieldNamed("a")>>},
     conditions \in [1 .. 3 -> Conditions]}
  \cup {FormOf(sections, <<>>) : sections \in {<<"s">>, <<"s", "s">>}}
  \cup {FormOf(<<>>, InForm(FieldNamed(name), when)) : name \in {"o", "a", "z"},
          when \in {<<>>, On(FieldNamed("a"), {Bool(TRUE)}), On(FieldNamed("h"), {Str("t")})}}
MCFormFills ==
  {MapOf([a |-> Bool(x), b |-> Str(y), v |-> MapOf([kind |-> Str(k), b |-> Str("t"), c |-> Str("t")])]) :
     x \in BOOLEAN, y \in {"x", "y"}, k \in {"x", "y"}} \cup {MapOf(<<>>)}

Init ==
  /\ part \in {"handshake", "described", "kinds", "objects", "buffers", "waiting", "slots",
              "lends", "merge", "encoder", "decoder", "schema", "flat", "form"}
  /\ cfg \in IF part = "handshake" THEN [c : ClientOptions, s : ServerOptions, t : Transports]
            ELSE {[c |-> Trusting, s |-> Trusting, t |-> Stream]}
  /\ HandshakeInit
  /\ DescribedInit /\ KnownInit /\ GuardInit /\ BuffersInit /\ WaitingInit
  /\ called \in IF part = "slots" THEN TableSlots ELSE {SlotOf(<<>>, "nothing", FALSE)}
  /\ caller \in IF part = "slots" THEN {"host", "C"} ELSE {"host"}
  /\ SlotCallInit
  /\ LendInit
  /\ MergeInit /\ (part # "merge" => ctx = ModeOf("deep", FALSE, <<>>))
  /\ EncoderInit
  /\ input \in IF part = "decoder" THEN Inputs ELSE {<<>>}
  /\ DecoderInit
  /\ document \in IF part = "schema" THEN Documents ELSE {Bool(TRUE)}
  /\ SchemaInit
  /\ flatroot \in IF part = "flat" THEN FlatRoots ELSE IF part = "form" THEN {FormRoot} ELSE {MapOf(<<>>)}
  /\ FlatInit
  /\ form \in IF part = "form" THEN Forms ELSE {FormOf(<<>>, <<>>)}
  /\ FormInit

Next ==
  \/ part = "handshake" /\ HandshakeNext
       /\ UNCHANGED <<part, dvars, kvars, ovars, bufvars, waitvars, callvars, lendvars, mergevars, encvars, decvars, docvars>>
  \/ part = "described" /\ DescribedNext
       /\ UNCHANGED <<part, hvars, kvars, ovars, bufvars, waitvars, callvars, lendvars, mergevars, encvars, decvars, docvars>>
  \/ part = "kinds" /\ KnownNext
       /\ UNCHANGED <<part, hvars, dvars, ovars, bufvars, waitvars, callvars, lendvars, mergevars, encvars, decvars, docvars>>
  \/ part = "objects" /\ GuardNext
       /\ UNCHANGED <<part, hvars, dvars, kvars, bufvars, waitvars, callvars, lendvars, mergevars, encvars, decvars, docvars>>
  \/ part = "buffers" /\ BuffersNext
       /\ UNCHANGED <<part, hvars, dvars, kvars, ovars, waitvars, callvars, lendvars, mergevars, encvars, decvars, docvars>>
  \/ part = "waiting" /\ WaitingNext
       /\ UNCHANGED <<part, hvars, dvars, kvars, ovars, bufvars, callvars, lendvars, mergevars, encvars, decvars, docvars>>
  \/ part = "slots" /\ SlotCallNext
       /\ UNCHANGED <<part, hvars, dvars, kvars, ovars, bufvars, waitvars, lendvars, mergevars, encvars, decvars, docvars>>
  \/ part = "lends" /\ LendNext
       /\ UNCHANGED <<part, hvars, dvars, kvars, ovars, bufvars, waitvars, callvars, mergevars, encvars, decvars, docvars>>
  \/ part = "merge" /\ MergeNext
       /\ UNCHANGED <<part, hvars, dvars, kvars, ovars, bufvars, waitvars, callvars, lendvars, encvars, decvars, docvars>>
  \/ part = "encoder" /\ EncoderNext
       /\ UNCHANGED <<part, hvars, dvars, kvars, ovars, bufvars, waitvars, callvars, lendvars, mergevars, decvars, docvars>>
  \/ part = "decoder" /\ DecoderNext
       /\ UNCHANGED <<part, hvars, dvars, kvars, ovars, bufvars, waitvars, callvars, lendvars, mergevars, encvars, docvars>>
  \/ part = "schema" /\ SchemaNext
       /\ UNCHANGED <<part, flatvars, formvars, linkvars>>
  \/ part = "flat" /\ FlatNext
       /\ UNCHANGED <<part, schemavars, formvars, linkvars>>
  \/ part = "form" /\ FormNext
       /\ UNCHANGED <<part, schemavars, flatvars, linkvars>>

\* What is written and read as bytes, late and in parts, is what the codec says.
BytesAreTheValue ==
  /\ part = "encoder" => EncodesTheValue
  /\ part = "decoder" => VerdictIsDecodes

\* A document's references, its secrets and its verdicts are what it means;
\* what is kept flat by its paths reads back; a form over it can be filled in.
SchemaIsMeant ==
  /\ part = "schema" => SecretsAreHidden /\ VerdictIsMeant /\ InlineIsBounded
  /\ part = "flat" => ReadsBack /\ ReadingSettles /\ KeysResolve
  /\ part = "form" => CheckedIsShown /\ HiddenHides /\ CyclesAreFound

Spec == Init /\ [][Next]_vars
=============================================================================
