------------------------------ MODULE MCRelate ------------------------------
(* Every pair of some sixty shapes, which between them reach every branch  *)
(* of every subshape and disjointness rule, with the probe lists below     *)
(* (bounds).  An open table without fields is left out: it says that it is *)
(* total, so a list with it in its tail may accept what its rule does not  *)
(* allow for (Trusted).  Every shape but those that accept nothing at all  *)
(* accepts one of the terms.                                               *)
EXTENDS Relate, ShapeBuild

MCSymbol == STRING
MCSubclass == {<<"B", "A">>, <<"C", "B">>, <<"C", "A">>}

AllTerms == Terms([
   n1 |-> T("number"), n2 |-> T("number"), s |-> Text("n1"), nil |-> T("nil"),
   symA |-> Sym("A"), symB |-> Sym("B"),
   l0 |-> Seqn("list", <<>>), l1 |-> Seqn("list", <<"n1">>),
   ls |-> Seqn("list", <<"s">>), l2 |-> Seqn("list", <<"n1", "s">>),
   l3 |-> Seqn("list", <<"n1", "n2", "n1">>), v2 |-> Seqn("vector", <<"n1", "n2">>),
   m0 |-> Map(<<>>, <<>>), mk |-> Map(<<"k">>, <<"n1">>), mk2 |-> Map(<<"k">>, <<"n2">>),
   mks |-> Map(<<"k">>, <<"s">>),
   mjk |-> Map(<<"j", "k">>, <<"s", "n1">>), mj |-> Map(<<"j">>, <<"n1">>),
   oA |-> Obj("A", <<"k">>, <<"n1">>), oB |-> Obj("B", <<"k">>, <<"s">>)])
MCTerm == AllTerms

Atoms ==
  [Any |-> N("any", <<>>), Num |-> KindIs("number"), Str |-> KindIs("string"),
   One |-> Exact("n1"), Two |-> Exact("n2"), NumV |-> N("number", <<>>),
   Fails |-> N("fails", <<>>), RefN |-> Ref("N"), Pratt |-> N("pratt", <<"Num">>),
   ClassA |-> Named("class", "A", <<"FieldsK">>), ClassB |-> Named("class", "B", <<"FieldsK">>),
   FieldsK |-> Record("fields", <<"k">>, <<"Num">>, <<TRUE>>, "allow", None),
   Defs |-> Defs("RefN", <<Def("N", "Num")>>)]

Booleans ==
  [And0 |-> N("and", <<>>), AndNO |-> N("and", <<"Num", "One">>),
   AndON |-> N("and", <<"One", "Num">>), AndF |-> N("and", <<"Fails", "Num">>),
   AndDeep |-> N("and", <<"AndON", "Any">>),
   Or0 |-> N("or", <<>>), OrNS |-> N("or", <<"Num", "Str">>),
   BestOT |-> N("best", <<"One", "Two">>), OneOfOS |-> N("oneOf", <<"One", "Str">>),
   OrDeep |-> N("or", <<"OneOfOS", "BestOT">>),
   NotNum |-> N("not", <<"Num">>), NotOne |-> N("not", <<"One">>),
   NotOr |-> N("not", <<"OrNS">>), NotAndF |-> N("not", <<"AndF">>),
   NotNot |-> N("not", <<"NotNum">>), NotAny |-> N("not", <<"Any">>),
   CapNum |-> Named("capture", "x", <<"Num">>), CapStr |-> Named("capture", "x", <<"Str">>),
   NotCap |-> N("not", <<"CapNum">>),
   EffNum |-> N("effectful", <<"Num">>), EffOne |-> N("effectful", <<"One">>)]

Collections ==
  [L1 |-> ListOf(<<"One">>, None), LN |-> ListOf(<<"Num">>, None),
   LNS |-> ListOf(<<"Num", "Str">>, None), LTail |-> ListOf(<<"Num">>, "Num"),
   LOpen |-> ListOf(<<"Any">>, "Any"), LEff |-> ListOf(<<"EffNum">>, None),
   Rep12 |-> Repeats("Num", 1, 2), Rep0 |-> Repeats("Any", 0, None),
   Rep1 |-> Repeats("One", 1, 1), RepNil |-> Repeats("Num", 2, 1),
   NotLN |-> N("not", <<"LN">>)]

Table(keys, kids, needed, extra, rest) == Record("table", keys, kids, needed, extra, rest)
Tables ==
  [TabK |-> Table(<<"k">>, <<"Num">>, <<TRUE>>, "reject", None),
   TabKS |-> Table(<<"k">>, <<"Str">>, <<TRUE>>, "reject", None),
   TabK1 |-> Table(<<"k">>, <<"One">>, <<TRUE>>, "reject", None),
   TabK2 |-> Table(<<"k">>, <<"Two">>, <<TRUE>>, "reject", None),
   TabOpt |-> Table(<<"k">>, <<"Num">>, <<FALSE>>, "reject", None),
   TabKJ |-> Table(<<"j", "k">>, <<"Any", "Num">>, <<FALSE, TRUE>>, "reject", None),
   TabDup |-> Table(<<"k", "k">>, <<"Any", "Str">>, <<TRUE, FALSE>>, "reject", None),
   TabOpenJ |-> Table(<<"j">>, <<"Any">>, <<FALSE>>, "allow", None),
   TabOpenK |-> Table(<<"k">>, <<"Num">>, <<FALSE>>, "allow", None),
   TabNums |-> Table(<<>>, <<>>, <<>>, "shape", "Num"),
   TabKNums |-> Table(<<"k">>, <<"One">>, <<FALSE>>, "shape", "Num"),
   NotTab |-> N("not", <<"TabOpt">>),
   TabNotNum |-> Table(<<"k">>, <<"NotNum">>, <<TRUE>>, "reject", None),
   TabNotOne |-> Table(<<"k">>, <<"NotOne">>, <<TRUE>>, "reject", None)]

AllShapes == Shapes(Atoms @@ Booleans @@ Collections @@ Tables)
MCNode == AllShapes
MCCompared == DOMAIN AllShapes
(* Shapes that accept nothing, with others their own rules put them under. *)
EmptyCompared == {"Num", "OrNS", "Or0", "Rep12", "RepNil"}
Member(n, s) == [name |-> n, shape |-> s]
(* Venn sets of two and three members, with one name for several of them,  *)
(* and with a member that fails.                                           *)
AllMembers ==
  {<<Member("a", s[1]), Member("b", s[2]), Member(n, s[3])>> :
      n \in {"a", "b", "c"}, s \in {<<"Num", "One", "OrNS">>, <<"LTail", "LN", "Rep12">>,
                                   <<"One", "Fails", "Num">>, <<"Any", "NotNum", "ClassA">>}}
  \cup {<<Member("a", "Num")>>, <<Member("a", "Num"), Member("b", "Fails")>>,
        <<Member("a", "Num"), Member("a", "OrNS")>>}
MCMembers == AllMembers

MCProbes == {<<>>, <<<<"n1", "expr">>, <<"mk", "value">>>>, <<<<"s", "value">>, <<"n2", "expr">>>>}
=============================================================================
