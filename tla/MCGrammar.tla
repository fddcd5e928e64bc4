----------------------------- MODULE MCGrammar ------------------------------
(***************************************************************************)
(* Shapes of every kind lowering knows, alone, inside one another and in   *)
(* nested scopes, and every kind it does not.                              *)
(***************************************************************************)
EXTENDS Grammar, ShapeBuild

MCSymbol == STRING

AllTerms == Terms([
   nil |-> T("nil"), n1 |-> T("number"), n2 |-> T("number"), b |-> T("bool"),
   s |-> Text(None), y |-> Sym("y"), call |-> T("call"),
   l0 |-> Seqn("list", <<>>), l1 |-> Seqn("list", <<"n1">>),
   ls |-> Seqn("list", <<"s">>), l2 |-> Seqn("list", <<"n1", "s">>),
   l3 |-> Seqn("list", <<"n1", "s", "s">>), lm |-> Seqn("list", <<"m1", "n1">>),
   lCall |-> Seqn("list", <<"n1", "call">>),
   v2 |-> Seqn("vector", <<"n1", "n2">>),
   deep1 |-> Seqn("list", <<"n1", "nil">>), deep2 |-> Seqn("list", <<"n1", "deep1">>),
   deep3 |-> Seqn("list", <<"n1", "deep2">>),
   m0 |-> Map(<<>>, <<>>), m1 |-> Map(<<"k">>, <<"n1">>),
   mA |-> Map(<<"a/k">>, <<"n1">>), mAB |-> Map(<<"a/k", "b/k">>, <<"n1", "s">>),
   mQ |-> Map(<<"k", "a/k">>, <<"n1", "n2">>),
   m2 |-> Map(<<"j", "k">>, <<"s", "n1">>), mOdd |-> Map(<<"k", None>>, <<"n1", "n1">>)])
MCTerm == AllTerms

(* Three names with a namespace; the tilde of a fourth, t~, would have to  *)
(* be escaped in a JSON pointer.                                           *)
MCLocal == ("a/k" :> "k") @@ ("b/k" :> "k") @@ ("ns/N" :> "N")
MCUnescaped == {"N", "X", "Y"}

AllShapes == Shapes([
   Any |-> N("any", <<>>), Num |-> KindIs("number"), Str |-> KindIs("string"),
   Nil |-> KindIs("nil"), Bool |-> KindIs("bool"), Vec |-> KindIs("vector"),
   Lists |-> KindIs("list"), Maps |-> KindIs("map"), Sym |-> KindIs("symbol"),
   Bytes |-> KindIs("bytes"),
   One |-> Exact("n1"), OneList |-> Exact("l2"), OneCall |-> Exact("call"),
   BadMap |-> Exact("mOdd"), BadList |-> Exact("lCall"),
   Empty |-> ListOf(<<>>, None), Pair |-> ListOf(<<"Num", "Str">>, None),
   Tail |-> ListOf(<<"Num">>, "Str"), Tails |-> ListOf(<<>>, "AnyOf"),
   AnyOf |-> N("oneOf", <<"Num", "Rec">>), Never |-> N("oneOf", <<>>),
   Rec |-> Record("fields", <<"k", "j">>, <<"Num", "Str">>, <<TRUE, FALSE>>, "allow", None),
   RecK |-> Record("fields", <<"k">>, <<"AnyOf">>, <<TRUE>>, "allow", None),
   RecA |-> Record("fields", <<"k">>, <<"Num">>, <<TRUE>>, "allow", None) @@ [name |-> "A"],
   RecOwn |-> Record("fields", <<"k">>, <<"Num">>, <<TRUE>>, "allow", None) @@ [name |-> "shape/fields"],
   RecTwice |-> Record("fields", <<"k", "k">>, <<"Num", "AnyOf">>, <<TRUE, TRUE>>, "allow", None),
   RecQ |-> Record("fields", <<"a/k">>, <<"Num">>, <<TRUE>>, "allow", None),
   RecClash |-> Record("fields", <<"a/k", "b/k">>, <<"Num", "Str">>, <<TRUE, TRUE>>, "allow", None),
   RefQ |-> Ref("ns/N"), LinkQ |-> ListOf(<<"Num", "RefQ">>, None),
   NodeQ |-> N("oneOf", <<"Nil", "LinkQ">>), NodesQ |-> Defs("RefQ", <<Def("ns/N", "NodeQ")>>),
   RefT |-> Ref("t~"), NodeT |-> Defs("RefT", <<Def("t~", "RecQ")>>),
   RefN |-> Ref("N"), RefX |-> Ref("X"), Link |-> ListOf(<<"Num", "RefN">>, None),
   NodeShape |-> N("oneOf", <<"Nil", "Link">>),
   NodeList |-> Defs("RefN", <<Def("N", "NodeShape")>>),
   Forest |-> ListOf(<<"NodeList">>, "NodeList"),
   Inner |-> Defs("RefX", <<Def("X", "Tail")>>),
   Outer |-> Defs("RefN", <<Def("N", "Inner")>>),
   Within |-> Defs("Inner", <<Def("N", "Both")>>),
   Both |-> N("oneOf", <<"Inner", "RefN", "Str">>),
   Shadow |-> Defs("RefX", <<Def("X", "Str"), Def("Y", "Inner")>>),
   Twice |-> Defs("RefX", <<Def("X", "Num"), Def("X", "Str")>>),
   Self |-> Defs("RefN", <<Def("N", "RefN")>>),
   Hidden |-> Defs("Pair", <<Def("N", "And")>>), BadDef |-> Defs("Num", <<Def("N", "OneCall")>>),
   And |-> N("and", <<"Num">>), Or |-> N("or", <<"Num">>), Best |-> N("best", <<"Num">>),
   Not |-> N("not", <<"Num">>), Cap |-> Named("capture", "x", <<"Num">>),
   NumV |-> N("number", <<>>), Rep |-> Repeats("Num", 0, None),
   Tab |-> Record("table", <<"k">>, <<"Num">>, <<TRUE>>, "allow", None),
   HasCap |-> ListOf(<<"Num">>, "Cap"), OneCap |-> N("oneOf", <<"Num", "Cap">>)])
MCNode == AllShapes

=============================================================================
