----------------------------- MODULE MCNotation -----------------------------
(***************************************************************************)
(* Expressions for every rule of the grammar, well formed and not, and up  *)
(* to one level deeper than the budget; texts and edits for every class.   *)
(***************************************************************************)
EXTENDS Notation, Functions, TLC

S(space, name) == [form |-> "symbol", space |-> space, name |-> name]
L(items) == [form |-> "list", items |-> items]
N(num)   == [form |-> "number", num |-> num]

(* What a short form leaves out.                                           *)
Phrase_(p) ==
  [form |-> p.form, items |-> p.items, space |-> p.space, name |-> p.name, num |-> p.num]
Empty == [items |-> <<>>, space |-> "", name |-> "x", num |-> None]
Phrases(g) == [e \in DOMAIN g |-> Phrase_(g[e] @@ Empty)]

Sources == Phrases(
  [any |-> S("", "Any"), num |-> S("", "Number"), core |-> S("core", "Number"),
   foo |-> S("host", "foo"), x |-> S("", "x"), key |-> S("", ":x"),
   one |-> N(1), two |-> N(2), minus |-> N(None),
   nil |-> [form |-> "nil"], text |-> [form |-> "other"],
   and |-> S("", "and"), allOf |-> S("shape", "all"), hostAnd |-> S("host", "and"),
   or |-> S("", "or"), not |-> S("", "not"), capture |-> S("", "capture"),
   fields |-> S("", "fields"), list |-> S("", "list"), rest |-> S("", "list-rest"),
   repeat |-> S("", "repeat"), bounds |-> S("", "repeat-bounds"), defs |-> S("shape", "defs"),
   ref |-> S("shape", "ref"), table |-> S("", "table"), open |-> S("", "table-open"),
   closed |-> S("", "table-closed"), minusOf |-> S("", "without"),
   empty |-> L(<<>>), field |-> L(<<"key", "num">>), rows |-> L(<<"field">>),
   pair |-> L(<<"foo", "any">>), tuple |-> L(<<"hostAnd", "any">>),
   both |-> L(<<"and", "num", "core">>), spread |-> L(<<"allOf", "pair">>),
   either |-> L(<<"or", "field", "notNum">>), notNum |-> L(<<"not", "num">>),
   notTwo |-> L(<<"not", "any", "any">>),
   caught |-> L(<<"capture", "x", "any">>), caughtOne |-> L(<<"capture", "one", "any">>),
   record |-> L(<<"fields", "field">>), badRecord |-> L(<<"fields", "field", "num">>),
   listed |-> L(<<"list", "num", "caught">>), tail |-> L(<<"rest", "pair", "notNum">>),
   badTail |-> L(<<"rest", "any", "any">>),
   many |-> L(<<"repeat", "any">>), some |-> L(<<"bounds", "any", "one", "two">>),
   endless |-> L(<<"bounds", "any", "one", "nil">>), none |-> L(<<"bounds", "any", "two", "one">>),
   fewer |-> L(<<"bounds", "any", "minus", "nil">>),
   named |-> L(<<"defs", "rows", "refer">>), refer |-> L(<<"ref", "x">>),
   badRefer |-> L(<<"ref", "one">>), badNamed |-> L(<<"defs", "pair", "two">>),
   single |-> L(<<"table", "key", "any">>), opened |-> L(<<"open", "rows">>),
   shut |-> L(<<"closed", "field", "pair">>), bare |-> L(<<"open", "empty">>),
   badShut |-> L(<<"closed", "any">>), less |-> L(<<"minusOf", "any", "notNum">>),
   deep |-> L(<<"not", "either">>), deeper |-> L(<<"list", "any", "deep", "one">>),
   onlyOne |-> L(<<"list", "one", "deep">>)])
MCSource == Sources

(* The number of symbols and other leaves of an expression, and its lists. *)
Sizes ==
  LET size[e \in DOMAIN Sources] ==
        1 + FoldFunction(+, 0, [i \in DOMAIN Sources[e].items |-> size[Sources[e].items[i]]])
  IN size
MCSize == Sizes

Names == {Sources[e].name : e \in DOMAIN Sources}
MCName == Names
Bareness == [n \in Names |-> IF n = ":x" THEN "x" ELSE n]
MCBare == Bareness
MCSpelling == STRING

Live(t)    == [Nil EXCEPT !.form = "shape", !.shape = t]
Foreign(t) == [Nil EXCEPT !.form = "foreign", !.shape = t]
LiveHook(d) == [Nil EXCEPT !.form = "hook", !.items = <<d>>]
TextOf(name) == [Nil EXCEPT !.form = "text", !.word = Word("", name)]
V1 == Symbol(Word("", "v1"))
Call(class, fields) == Group("call", <<Symbol(Word("shape", class)), V1>> \o fields)

Some  == Call("Any", <<>>)
Caught == CaptureTree(Word("", "x"), Leaf)
Named == NameTree("named", Word("", "nil"))
X     == Symbol(Word("", "x"))
Floor == Call("ScoreFloorHook", <<Number(2)>>)
Row(needed, shape) == Group("list", <<X, needed, shape>>)

MCLetters ==
  {Call("ExactExpr", <<X>>), Call("ExactExpr", <<Live(Named)>>), Call("ExactExpr", <<Some>>),
   Call("ExactExpr", <<Live(Tree("not", <<Leaf>>))>>),
   Call("ExprKind", <<Symbol(Word("host", "nil"))>>), Call("ExprKind", <<Live(Named)>>),
   Call("Or", <<Group("list", <<Some, Live(Caught)>>), TextOf("best-score")>>),
   Call("Or", <<Group("list", <<Some, Live(Leaf)>>), TextOf("best-score")>>),
   Call("Table", <<Group("list", <<Row(Bool(FALSE), Some)>>), Symbol(Word("host", "reject"))>>),
   Call("Table", <<Group("list", <<Row(Bool(TRUE), Foreign(Leaf))>>), Pair(Word("", "shape"),
       Some)>>),
   Call("Table", <<Group("list", <<Row(X, Some)>>), Symbol(Word("", "allow"))>>),
   Call("Table", <<Group("list", <<X>>), Symbol(Word("", "allow"))>>),
   Call("Table", <<Group("list", <<>>), Group("list", <<Symbol(Word("", "shape")), Floor>>)>>),
   Call("Hooked", <<Some, Group("list", <<Floor, LiveHook(Call("TraceMarkHook", <<>>))>>)>>),
   Call("Hooked", <<Some, Group("list", <<Call("AcceptOnNoDiagnosticsHook", <<>>)>>)>>),
   Call("Hooked", <<Some, Group("list", <<Call("ScoreFloorHook", <<X>>)>>)>>),
   Call("Hooked", <<Some, Group("list", <<[Nil EXCEPT !.form = "hook"]>>)>>),
   Call("Hooked", <<Some, Group("list", <<Some>>)>>),
   Call("Hooked", <<Some, Group("list", <<Call("DiscardOnDiagnosticPrefixHook",
       <<TextOf("x")>>)>>)>>),
   Call("Repeat", <<Some, Number(2), Number(1)>>)}

(* What may stand in for one argument of a text.                           *)
Substitutes(d) ==
  {Symbol(Word("host", "bytes")), TextOf("string"), Some, Floor, Live(Named), Live(Leaf)} \cup
  (IF d.form = "list" THEN {} ELSE {Nil, Number(2)}) \cup
  (IF d.form \in {"call", "nil"}
   THEN {Foreign(t) : t \in {Leaf, Caught, ListTree(<<Leaf>>, <<Tree("not", <<Leaf>>)>>)}} ELSE {})

MCEdits(d) ==
  {[d EXCEPT !.form = "list"], [d EXCEPT !.items = Append(@, Nil)],
   [d EXCEPT !.items = SubSeq(@, 1, Len(@) - 1)],
   [d EXCEPT !.items[2] = Symbol(Word("", "v2"))], [d EXCEPT !.items[1] = Number(2)]} \cup
  {[d EXCEPT !.items[1] = Symbol(w)] :
     w \in {Word("host", "List"), Word("shape", "Venn"), Word("shape", "And")}} \cup
  UNION {{[d EXCEPT !.items[i] = s] : s \in Substitutes(d.items[i])} : i \in 3..Len(d.items)}
=============================================================================
