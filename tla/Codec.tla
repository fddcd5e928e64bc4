------------------------------- MODULE Codec --------------------------------
(***************************************************************************)
(* How a shape is written down and read back: encode_shape_expr turns it   *)
(* into a constructor expression, decode_shape_value and the constructors  *)
(* of the shape classes turn data into shapes.  Both recurse without a     *)
(* depth guard, and both give up at the first part they do not support.    *)
(***************************************************************************)
EXTENDS ShapeTree

CONSTANTS
  Spelling,   \* what symbols are spelt with
  Nesting     \* Bound: the levels of lists and calls a datum may have

(* A datum is an expression or a live value.  form: symbol, text, number,  *)
(* bool, nil, call or list; shape (a ShapeObject), foreign (another value  *)
(* that is a shape) or hook (a MatchHookObject); bad is no datum at all.   *)
(* items: the elements of a list, the operator and arguments of a call, or *)
(* the encoding of a hook; word: the name of a symbol, text or bool.       *)
Nil == [form |-> "nil", items |-> <<>>, word |-> None, num |-> 0, shape |-> Leaf]

Symbol(word)  == [Nil EXCEPT !.form = "symbol", !.word = word]
Bool(yes)     == [Nil EXCEPT !.form = "bool", !.num = IF yes THEN 1 ELSE 0]
Number(n)     == [Nil EXCEPT !.form = "number", !.num = n]
Group(form, items) == [Nil EXCEPT !.form = form, !.items = items]

Bad     == [Nil EXCEPT !.form = "bad"]
Refused == [Leaf EXCEPT !.kind = "refused"]

(* One part that cannot be encoded, and the whole cannot.                  *)
Sound(items, datum) == IF \E i \in DOMAIN items : items[i] = Bad THEN Bad ELSE datum
ListOf(items) == Sound(items, Group("list", items))
Make(class, fields) ==
  Sound(fields, Group("call", <<Symbol(Word("shape", class)), Symbol(Word("", "v1"))>> \o fields))

Pair(name, datum) == ListOf(<<Symbol(name), datum>>)
Pairs(names, data) == ListOf([i \in DOMAIN names |-> Pair(names[i], data[i])])

-----------------------------------------------------------------------------
(* The shapes and the data there are.                                      *)

ExprKinds ==
  {"nil", "bool", "number", "symbol", "string", "bytes", "list", "vector", "map", "set", "call",
   "infix", "prefix", "postfix", "block", "quote", "annotated", "extension"}
Strategies == {"first-match", "best-score"}
ShapeHooks == {"TraceMarkHook", "AcceptOnNoDiagnosticsHook"}

(* The classes that make shapes, with the fields each of them takes.       *)
Fields == [Any |-> 0, ExactExpr |-> 1, ExprKind |-> 1, Class |-> 1, Ref |-> 1, And |-> 1,
           Not |-> 1, List |-> 2, Table |-> 2, Or |-> 2, Defs |-> 2, Hooked |-> 2, Repeat |-> 3]

ASSUME CodecAssumption ==
  /\ Nesting \in Nat /\ None \notin [space: Spelling, name: Spelling]
  /\ {"", "shape", "v1", "allow", "reject", "ScoreFloorHook", "DiscardOnDiagnosticPrefixHook"}
       \cup ExprKinds \cup Strategies \cup ShapeHooks \cup DOMAIN Fields \subseteq Spelling

Words == [space: Spelling, name: Spelling]

(* What a hook that can be written down is written as.                     *)
IsHook(d) ==
  \/ \E class \in ShapeHooks : d = Make(class, <<>>)
  \/ /\ Len(d.items) = 3
     /\ \/ d = Make("ScoreFloorHook", <<d.items[3]>>) /\ d.items[3].form = "number"
        \/ d = Make("DiscardOnDiagnosticPrefixHook", <<d.items[3]>>) /\ d.items[3].form = "text"

(* The fields each kind of shape has; the kinds nobody writes have any.    *)
WellMade(t) ==
  /\ t.kind = "any"      => t = Leaf
  /\ t.kind = "exact"    => t = NameTree("exact", t.name) /\ t.name.form # "shape"
  /\ t.kind = "exprKind" => t = KindTree(t.arg) /\ t.arg \in ExprKinds
  /\ t.kind \in {"class", "ref", "named"} => t = NameTree(t.kind, t.name) /\ t.name \in Words
  /\ t.kind = "list"     => t = ListTree(t.kids, t.rest) /\ Len(t.rest) <= 1
  /\ t.kind = "or"       => t = OrTree(t.kids, t.arg) /\ t.arg \in Strategies
  /\ t.kind = "and"      => t = Tree("and", t.kids)
  /\ t.kind = "not"      => t = Tree("not", t.kids) /\ Len(t.kids) = 1
  /\ t.kind = "repeat"   => t = RepeatTree(t.kids[1], t.min, t.max) /\ Len(t.kids) = 1
  /\ t.kind = "defs"     =>
       t = KeyedTree("defs", t.keys, t.kids) /\ Len(t.kids) = Len(t.keys) + 1
  /\ t.kind = "hooked"   =>
       /\ t = [Tree("hooked", t.kids) EXCEPT !.marks = t.marks] /\ Len(t.kids) = 1
       /\ \A i \in DOMAIN t.marks : t.marks[i] = Bad \/ IsHook(t.marks[i])
  /\ t.kind = "table"    =>
       /\ t = [TableTree(t.keys, t.kids, t.arg) EXCEPT !.needed = t.needed, !.rest = t.rest]
       /\ Len(t.kids) = Len(t.keys) /\ Len(t.kids) = Len(t.needed)
       /\ IF t.rest = <<>> THEN t.arg \in {"allow", "reject"}
          ELSE Len(t.rest) = 1 /\ t.arg = "shape"

(* How far down in what is written of a shape its ith child is written.    *)
Sunk(kind, i) ==
  IF kind = "table" \/ (kind = "defs" /\ i > 1) THEN 3
  ELSE IF kind \in {"and", "or", "list"} THEN 2 ELSE 1

Kinds ==
  {"any", "exact", "exprKind", "class", "ref", "number", "named", "list", "table", "fields",
   "capture", "or", "and", "not", "repeat", "defs", "hooked"}
Forms ==
  {"symbol", "text", "number", "bool", "nil", "call", "list", "shape", "foreign", "hook"}

(* Shapes and data whose parts are among those given.                      *)
ShapesOf(in) ==
  [kind: Kinds, kids: Seq(in.shapes), name: Words \cup {None} \cup in.data, keys: Seq(Words),
   needed: Seq(BOOLEAN), rest: Seq(in.shapes), arg: Spelling, min: Nat, max: Nat \cup {None},
   marks: Seq(in.data \cup {Bad})]
DataOf(in) ==
  {d \in [form: Forms, items: Seq(in.data), word: Words \cup {None}, num: Nat,
          shape: in.shapes \cup {Leaf}] :
     /\ d.form \in {"symbol", "text"} => d.word \in Words
     /\ d.form \in {"shape", "foreign"} => d.shape \in in.shapes
     /\ d.form = "hook" => d.items = <<>> \/ (Len(d.items) = 1 /\ IsHook(d.items[1]))}

(* Those of at most n levels: a shape has as many as what is written of it.*)
Nested[n \in Int] ==
  LET in == Nested[n - 1] IN
  IF n <= 0 THEN [shapes |-> {}, data |-> {}]
  ELSE [shapes |->
          {t \in ShapesOf(in) :
             /\ n > 1 /\ WellMade(t)
             /\ \A i \in DOMAIN t.kids : t.kids[i] \in Nested[n - Sunk(t.kind, i)].shapes
             /\ t.kind = "table" => t.rest \in Seq(Nested[n - 2].shapes)
             /\ t.kind = "exact" => t.name \in in.data
             /\ t.marks \in Seq(Nested[n - 2].data \cup {Bad})},
        data |-> DataOf(in)]

Shapes == Nested[Nesting].shapes
Data   == Nested[Nesting].data

-----------------------------------------------------------------------------
(* Writing.                                                                *)

Count(n) == IF n = None THEN Nil ELSE Number(n)
Policy(arg, rest) ==
  IF rest = <<>> THEN Symbol(Word("", arg)) ELSE Pair(Word("", "shape"), rest[1])

(* Mutant: the tail of a list is left out.                                 *)
ListFieldsNoTail(kids, rest) == <<ListOf(kids), Nil>>

ListFields(kids, rest) == <<ListOf(kids), IF rest = <<>> THEN Nil ELSE rest[1]>>

(* What is written of a shape, given what is written of the shapes in it.  *)
WrittenAs(t, kids, rest) ==
  LET Field(i) == ListOf(<<Symbol(t.keys[i]), Bool(t.needed[i]), kids[i]>>) IN
  CASE t.kind = "any"      -> Make("Any", <<>>)
    [] t.kind = "exact"    -> Make("ExactExpr", <<t.name>>)
    [] t.kind = "exprKind" -> Make("ExprKind", <<Symbol(Word("", t.arg))>>)
    [] t.kind = "class"    -> Make("Class", <<Symbol(t.name)>>)
    [] t.kind = "ref"      -> Make("Ref", <<Symbol(t.name)>>)
    [] t.kind = "list"     -> Make("List", ListFields(kids, rest))
    [] t.kind = "table"    ->
         Make("Table", <<ListOf([i \in DOMAIN kids |-> Field(i)]), Policy(t.arg, rest)>>)
    [] t.kind = "or"       -> Make("Or", <<ListOf(kids), Symbol(Word("", t.arg))>>)
    [] t.kind = "and"      -> Make("And", <<ListOf(kids)>>)
    [] t.kind = "not"      -> Make("Not", kids)
    [] t.kind = "repeat"   -> Make("Repeat", <<kids[1], Number(t.min), Count(t.max)>>)
    [] t.kind = "defs"     -> Make("Defs", <<kids[1], Pairs(t.keys, Tail(kids))>>)
    [] t.kind = "hooked"   -> Make("Hooked", <<kids[1], ListOf(t.marks)>>)
    [] OTHER               -> Bad

Encode[t \in Shapes] ==
  LET kids == [i \in DOMAIN t.kids |-> Encode[t.kids[i]]]
      rest == [i \in DOMAIN t.rest |-> Encode[t.rest[i]]] IN
  WrittenAs(t, kids, rest)

-----------------------------------------------------------------------------
(* Reading.                                                                *)

(* What as_expr makes of a live value: the encoding a constructor gave it, *)
(* or its name when shape_value made it (of a NamedShape).                 *)
AsExpr(d) ==
  CASE d.form # "shape" -> d
    [] d.form = "shape" /\ d.shape.kind = "named" -> Symbol(d.shape.name)
    [] OTHER -> Encode[d.shape]

(* decode_symbol takes text too; what only a name is asked of, the kind of *)
(* an expression or a strategy, may stand in any namespace.                *)
WordOf(d) ==
  CASE AsExpr(d).form = "symbol" -> AsExpr(d).word
    [] d.form = "text" -> Word("", d.word.name)
    [] OTHER -> None
NameIn(d, names) == WordOf(d) # None /\ WordOf(d).name \in names

Whole(kids) == \A i \in DOMAIN kids : kids[i] # Refused

IsMake(d) == d.form \in {"call", "list"} /\ d.items # <<>> /\ Head(d.items).form = "symbol"
Versioned(args, fields) ==
  Len(args) = fields + 1 /\ WordOf(Head(args)) = Word("", "v1")

(* A hook is a live one, or what its constructor makes.                    *)
HookMade(d) ==
  LET class == Head(d.items).word
      args  == Tail(d.items) IN
  IF ~IsMake(d) \/ class.space # "shape"
  THEN Bad
  ELSE CASE class.name \in ShapeHooks /\ Versioned(args, 0) -> Make(class.name, <<>>)
         [] class.name = "ScoreFloorHook" /\ Versioned(args, 1) ->
              IF args[2].form = "number" THEN Make(class.name, <<args[2]>>) ELSE Bad
         [] class.name = "DiscardOnDiagnosticPrefixHook" /\ Versioned(args, 1) ->
              IF args[2].form = "text" THEN Make(class.name, <<args[2]>>) ELSE Bad
         [] OTHER -> Bad
HookOf(d) ==
  CASE d.form # "hook" -> HookMade(d)
    [] d.form = "hook" /\ d.items = <<>> -> Bad
    [] OTHER -> d.items[1]

(* Mutant: a constructor does not try to encode what it makes.             *)
MadeUnencoded(t) == t

(* Every constructor writes its fields down again before it is done.       *)
Made(t) == IF Encode[t] = Bad THEN Refused ELSE t

(* A list of lists of a name, what else there is, and a shape.             *)
IsRows(d, n) ==
  /\ d.form = "list"
  /\ \A i \in DOMAIN d.items :
       LET row == d.items[i] IN
       row.form = "list" /\ Len(row.items) = n /\ WordOf(row.items[1]) # None
RowNames(rows)  == [i \in DOMAIN rows |-> WordOf(rows[i].items[1])]
RowShapes(rows) == [i \in DOMAIN rows |-> rows[i].items[Len(rows[i].items)]]

IsPolicy(extra) ==
  IF extra.form = "symbol" THEN extra.word.name \in {"allow", "reject"}
  ELSE /\ extra.form = "list" /\ Len(extra.items) = 2
       /\ extra.items[1].form = "symbol" /\ extra.items[1].word.name = "shape"

(* The fields of a constructor are of the form it asks for.                *)
Proper(class, a) ==
  CASE class = "ExactExpr" -> AsExpr(a[1]) # Bad
    [] class = "ExprKind" -> NameIn(a[1], ExprKinds)
    [] class \in {"Class", "Ref"} -> WordOf(a[1]) # None
    [] class \in {"And", "List"} -> a[1].form = "list"
    [] class = "Or"     -> a[1].form = "list" /\ NameIn(a[2], Strategies)
    [] class = "Repeat" -> a[2].form = "number" /\ a[3].form \in {"nil", "number"}
    [] class = "Defs"   -> IsRows(a[2], 2)
    [] class = "Hooked" -> a[2].form = "list"
    [] class = "Table"  ->
         /\ IsRows(a[1], 3) /\ IsPolicy(AsExpr(a[2]))
         /\ \A i \in DOMAIN a[1].items : a[1].items[i].items[2].form = "bool"
    [] OTHER -> TRUE

(* The fields, and parts of them, that it reads as shapes.                 *)
Inner(class, a) ==
  CASE class \in {"And", "Or"} -> a[1].items
    [] class = "List" -> a[1].items \o (IF AsExpr(a[2]) = Nil THEN <<>> ELSE <<a[2]>>)
    [] class \in {"Not", "Repeat", "Hooked"} -> <<a[1]>>
    [] class = "Defs" -> <<a[1]>> \o RowShapes(a[2].items)
    [] class = "Table" ->
         LET extra == AsExpr(a[2]) IN
         RowShapes(a[1].items) \o (IF extra.form = "list" THEN <<extra.items[2]>> ELSE <<>>)
    [] OTHER -> <<>>

(* The shape it makes of them.                                             *)
MadeOf(class, a, shapes) ==
  LET among == SubSeq(shapes, 1, Len(a[1].items))
      after == SubSeq(shapes, Len(a[1].items) + 1, Len(shapes)) IN
  CASE class = "Any"       -> Leaf
    [] class = "ExactExpr" -> NameTree("exact", AsExpr(a[1]))
    [] class = "ExprKind"  -> KindTree(WordOf(a[1]).name)
    [] class = "Class"     -> NameTree("class", WordOf(a[1]))
    [] class = "Ref"       -> NameTree("ref", WordOf(a[1]))
    [] class = "And"       -> Tree("and", shapes)
    [] class = "Or"        -> OrTree(shapes, WordOf(a[2]).name)
    [] class = "Not"       -> Tree("not", shapes)
    [] class = "List"      -> ListTree(among, after)
    [] class = "Repeat"    ->
         RepeatTree(shapes[1], a[2].num, IF a[3] = Nil THEN None ELSE a[3].num)
    [] class = "Defs"      -> KeyedTree("defs", RowNames(a[2].items), shapes)
    [] class = "Hooked"    ->
         [Tree("hooked", shapes) EXCEPT
            !.marks = [i \in DOMAIN a[2].items |-> HookOf(a[2].items[i])]]
    [] class = "Table"     ->
         LET policy == IF after = <<>> THEN AsExpr(a[2]).word.name ELSE "shape" IN
         [TableTree(RowNames(a[1].items), among, policy) EXCEPT
            !.needed = [i \in DOMAIN among |-> a[1].items[i].items[2].num = 1], !.rest = after]

ClassOf(datum)  == Head(datum.items).word.name
FieldsOf(datum) == Tail(Tail(datum.items))
Constructs(datum) ==
  /\ IsMake(datum) /\ Head(datum.items).word.space = "shape" /\ ClassOf(datum) \in DOMAIN Fields
  /\ Versioned(Tail(datum.items), Fields[ClassOf(datum)])
  /\ Proper(ClassOf(datum), FieldsOf(datum))

(* The expression behind a value that is a shape, and what is read in it.  *)
Datum(d)  == IF d.form = "foreign" THEN Encode[d.shape] ELSE d
Inside(d) ==
  IF Constructs(Datum(d)) THEN Inner(ClassOf(Datum(d)), FieldsOf(Datum(d))) ELSE <<>>

ReadFrom(d, shapes) ==
  CASE d.form = "shape" -> d.shape
    [] d.form # "shape" /\ Constructs(Datum(d)) /\ Whole(shapes) ->
         Made(MadeOf(ClassOf(Datum(d)), FieldsOf(Datum(d)), shapes))
    [] OTHER -> Refused

Decode[d \in Data] ==
  LET inside == Inside(d) IN ReadFrom(d, [i \in DOMAIN inside |-> Decode[inside[i]]])
=============================================================================
