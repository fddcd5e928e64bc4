------------------------------ MODULE MCMatch -------------------------------
(***************************************************************************)
(* A small shape graph with every kind of shape, and terms that reach      *)
(* every branch of every check, for MatchEngine.                           *)
(***************************************************************************)
EXTENDS MatchMeaning, ShapeBuild

MCSymbol == STRING

AllTerms == Terms([
   nil |-> T("nil"), n1 |-> T("number"), n2 |-> T("number"),
   s |-> Text("n1"), sBad |-> Text(None), sBroken |-> Text("broken"),
   symA |-> Sym("A"), symB |-> Sym("B"),
   l0 |-> Seqn("list", <<>>), l1 |-> Seqn("list", <<"n1">>),
   l2 |-> Seqn("list", <<"n1", "s">>), l3 |-> Seqn("list", <<"s", "n1", "n2">>),
   v2 |-> Seqn("vector", <<"n1", "n2">>),
   deep1 |-> Seqn("list", <<"n1", "nil">>),
   deep2 |-> Seqn("list", <<"n1", "deep1">>),
   deep3 |-> Seqn("list", <<"n1", "deep2">>),
   m0 |-> Map(<<>>, <<>>), m1 |-> Map(<<"k">>, <<"n1">>),
   m2 |-> Map(<<"j", "k">>, <<"s", "n1">>),
   mDup |-> Map(<<"k", "k">>, <<"n1", "s">>), mOdd |-> Map(<<"k", None>>, <<"n1", "n1">>),
   oA |-> Obj("A", <<"k">>, <<"n1">>), oB |-> Obj("B", <<"k">>, <<"oA">>),
   oDup |-> Obj("A", <<"k", "k">>, <<"n1", "n1">>),
   cA |-> Construct("B"),
   dNum |-> Sym("num"), dLost |-> Sym("lost"), dBad |-> Sym(None),
   cNum |-> Data("cell", <<"domain", "value">>, <<"dNum", "n1">>),
   cStr |-> Data("cell", <<"domain", "value", "value">>, <<"dNum", "s", "n1">>),
   cNull |-> Data("cell", <<"value", "domain">>, <<"nil", "dNum">>),
   cLost |-> Data("cell", <<"domain", "value">>, <<"dLost", "n1">>),
   cFar |-> Data("cell", <<"domain", "value">>, <<"symA", "n1">>),
   cBad |-> Data("cell", <<"domain">>, <<"dBad">>),
   cOdd |-> Data("cell", <<"domain", "domain">>, <<"dNum", "s">>),
   cells1 |-> Seqn("vector", <<"cNum", "cNull">>),
   cells2 |-> Seqn("vector", <<"cNum", "cStr", "cLost">>),
   row1 |-> Data("row", <<"cells">>, <<"cells1">>),
   row2 |-> Data("row", <<"cells">>, <<"cells2">>)])
MCTerm == AllTerms

(* B is a subclass of A.                                                   *)
MCSubclass == {<<"B", "A">>}

Simple ==
  [Any |-> N("any", <<>>), Num |-> KindIs("number"), Str |-> KindIs("string"),
   Nil |-> KindIs("nil"), One |-> Exact("n1"), NumV |-> N("number", <<>>),
   Fails |-> N("fails", <<>>),
   CapAny |-> Named("capture", "x", <<"Any">>), CapNum |-> Named("capture", "y", <<"Num">>)]

Boolean ==
  [And0 |-> N("and", <<>>), And |-> N("and", <<"CapAny", "CapNum", "One">>),
   AndFails |-> N("and", <<"Num", "Fails">>),
   Or |-> N("or", <<"Str", "CapNum", "One">>),
   OrFails |-> N("or", <<"Num", "Fails", "Any">>),
   Best |-> N("best", <<"Any", "CapNum", "One", "NumV", "And0">>),
   BestFails |-> N("best", <<"Num", "Fails">>),
   OneOf |-> N("oneOf", <<"CapNum", "Str", "Any">>),
   NotNum |-> N("not", <<"CapNum">>), NotFails |-> N("not", <<"Fails">>),
   Eff |-> N("effectful", <<"CapNum">>), Pratt |-> N("pratt", <<"And">>)]

Collections ==
  [Pair |-> ListOf(<<"CapNum", "Any">>, None), Tail |-> ListOf(<<"Any">>, "CapAny"),
   TailAny |-> ListOf(<<>>, "Any"), TailNum |-> ListOf(<<"Any">>, "Num"),
   TailFails |-> ListOf(<<"Num">>, "Fails"),
   Rep |-> Repeats("CapNum", 1, 2), RepAny |-> Repeats("OneOf", 0, None),
   RepNone |-> Repeats("NumV", 0, 0),
   TabK |-> Record("table", <<"k">>, <<"CapNum">>, <<TRUE>>, "allow", None),
   TabReject |-> Record("table", <<"k", "z">>, <<"Num", "Any">>, <<TRUE, FALSE>>, "reject", None),
   TabShape |-> Record("table", <<"k">>, <<"Any">>, <<FALSE>>, "shape", "CapNum"),
   TabAny |-> Record("table", <<>>, <<>>, <<>>, "allow", None),
   TabFails |-> Record("table", <<"z", "k">>, <<"Any", "Fails">>, <<TRUE, TRUE>>, "reject", None),
   Fields |-> Record("fields", <<"k", "j">>, <<"NumV", "CapAny">>, <<TRUE, TRUE>>, "allow", None),
   FieldsA |-> Record("fields", <<"k">>, <<"CapAny">>, <<TRUE>>, "allow", None) @@ [name |-> "A"]]

Relational ==
  [CellDoms |-> Record("cell", <<"num", "lost">>, <<"CapNum", "Fails">>, <<>>, "allow", None),
   CellBinds |-> Record("cell", <<"num">>, <<"NumV">>, <<>>, "allow", None) @@ [name |-> "v"],
   Row |-> N("row", <<"CellDoms">>), IsRow |-> Named("record", "row", <<>>)]

(* NodeList is the linked list of the crate's own tests; Shadow redefines  *)
(* the name an outer definition refers to; Self and ClassSelf refer to     *)
(* themselves without consuming any of the term.                           *)
Recursive ==
  [RefN |-> Ref("N"), RefX |-> Ref("X"), Link |-> ListOf(<<"Num", "RefN">>, None),
   NodeShape |-> N("oneOf", <<"Nil", "Link">>),
   NodeList |-> Defs("RefN", <<Def("N", "NodeShape")>>),
   RepNode |-> Repeats("RefN", 0, None),
   Forest |-> Defs("RepNode", <<Def("N", "NodeShape")>>),
   Inner |-> Defs("RefN", <<Def("X", "Num"), Def("X", "Str")>>),
   Shadow |-> Defs("OrInner", <<Def("N", "RefX"), Def("X", "Num")>>),
   OrInner |-> N("or", <<"Inner", "RefN">>),
   Dangling |-> N("oneOf", <<"RefX", "NodeList">>),
   Self |-> Defs("RefN", <<Def("N", "RefN")>>),
   SelfOr |-> Defs("RefN", <<Def("N", "LoopOr")>>),
   LoopOr |-> N("or", <<"RefN", "CapNum">>),
   DefsFails |-> Defs("RefN", <<Def("N", "AndFails")>>),
   ClassA |-> Named("class", "A", <<"FieldsK">>),
   FieldsK |-> Record("fields", <<"k">>, <<"KAny">>, <<TRUE>>, "allow", None),
   KAny |-> N("oneOf", <<"Num", "ClassA">>),
   ClassSelf |-> Named("class", "A", <<"ClassSelf">>),
   ClassOpen |-> Named("class", "B", <<>>)]

AllShapes == Shapes(Simple @@ Boolean @@ Collections @@ Relational @@ Recursive)
MCNode == AllShapes

MCPaths(path) == {Job(s, e, path) : s \in Shape, e \in Expr}

(* Bound: every term against every shape on both paths, with every share   *)
(* of a budget of three levels held already.                               *)
MCRequests == Task
MCBases == 0..MaxDepth

(* The largest sets of positive and of never rejecting shapes.             *)
NeverRejects ==
  LET never[s \in Shape] ==
        LET kids == Node[s].kids IN
        CASE Node[s].kind = "and" -> \A i \in DOMAIN kids : never[kids[i]]
          [] Node[s].kind \in {"or", "best", "oneOf"} -> \E i \in DOMAIN kids : never[kids[i]]
          [] Node[s].kind \in {"capture", "effectful", "defs"} -> never[kids[1]]
          [] OTHER -> Node[s].kind = "any"
  IN {s \in Shape : never[s]}
MCAlways == NeverRejects

Under(s) ==
  LET n == Node[s] IN
  {n.kids[i] : i \in DOMAIN n.kids} \cup {n.defs[i].shape : i \in DOMAIN n.defs}
  \cup ({n.rest} \ {None})
RECURSIVE Containing(_)
Containing(S) ==
  LET above == S \cup {s \in Shape : Under(s) \cap S # {}} IN
  IF above = S THEN S ELSE Containing(above)

Negating ==
  {s \in Shape :
     LET n == Node[s] IN
     \/ n.kind = "not"
     \/ n.kind = "list" /\ n.rest # None /\ Total[n.rest] /\ n.rest \notin MCAlways}
NotNegating == Shape \ Containing(Negating)
MCPositive == NotNegating

-----------------------------------------------------------------------------
(* Two instances on which the code does not do what it says.               *)

NotShapes == Shapes([
   RefN |-> Ref("N"), NotRef |-> N("not", <<"RefN">>), Num |-> KindIs("number"),
   OrNum |-> N("or", <<"Num", "RefN">>),
   Liar |-> Defs("RefN", <<Def("N", "NotRef")>>),
   Loop |-> Defs("RefN", <<Def("N", "OrNum")>>)])
NotNode == NotShapes

(* recursion.rs says of a self-referential shape: "Matching such a shape   *)
(* must fail closed -- reject".  An accept under the budget is then one    *)
(* that one more level of it would not take back.                          *)
ExhaustionRejects == Done /\ ret.st = "accept" => Answer(1).st = "accept"

(* Rests that are total and bind nothing for some elements.  A one-of      *)
(* binds what its choice bound; an or-shape or a table always binds (which *)
(* branch matched, which keys), but an open table makes the one-of around  *)
(* it total although that rejects what is no map and none of its choices.  *)
TailTerms == Terms([
   n |-> T("number"), s |-> Text(None), m |-> Map(<<>>, <<>>),
   bound |-> Seqn("list", <<"s", "n">>), loose |-> Seqn("list", <<"m", "s", "n">>)])
TailTerm == TailTerms
TailShapes == Shapes([
   Any |-> N("any", <<>>), Str |-> KindIs("string"), CapAny |-> Named("capture", "x", <<"Any">>),
   Open |-> Record("table", <<>>, <<>>, <<>>, "allow", None),
   StrOrBind |-> N("oneOf", <<"Str", "CapAny">>), StrOrMap |-> N("oneOf", <<"Str", "Open">>),
   OrBind |-> N("or", <<"Str", "CapAny">>),
   Binds |-> ListOf(<<>>, "StrOrBind"), Maps |-> ListOf(<<"CapAny">>, "StrOrMap"),
   Indexed |-> ListOf(<<>>, "OrBind"), Plain |-> ListOf(<<"Any">>, "CapAny")])
TailNode == TailShapes

(* list.rs says of the value path's tail walk that it "mirrors it so       *)
(* equivalent list values capture like expression forms" and stops only    *)
(* when "further total non-binding matches cannot add captures".           *)
ValuesCaptureLikeExprs ==
  Done /\ call.path = "value" /\ ret.st = "accept"
    => ret.caps = Meaning[Asking([call EXCEPT !.path = "expr"], <<>>, MaxDepth - base)].caps
=============================================================================
