----------------------------- MODULE ShapeGraph -----------------------------
(***************************************************************************)
(* The static world a shape match runs over: a finite graph of shapes, the *)
(* terms (expressions, or the values that print as them) they are checked  *)
(* against, and what each kind of shape does at each turn of its own loop. *)
(* Everything here is a constant-level definition; the stack discipline of *)
(* the match itself is in MatchEngine.                                     *)
(*                                                                         *)
(* Terms answer what they are asked: that the host fails to give a value's *)
(* expression, table or number view, its class, a class's parents or its   *)
(* instance shape is left to the shapes that fail, which unwind the same   *)
(* way.  A value has one class (the code first asks a value that is itself *)
(* a class whether it is the one), and a table view only if it is a map.   *)
(***************************************************************************)
EXTENDS Integers, Sequences, FiniteSets

CONSTANTS
  Symbol,     \* the names of definitions, classes, keys and captures
  Node,       \* shape name -> record describing it (NodeType below)
  Term,       \* expression name -> record describing it (TermType below)
  Subclass,   \* pairs <<class, ancestor>> the guarded class walk answers TRUE for
  Height,     \* shape -> a number above those of the shapes it is built of
  None        \* the absent symbol, shape or expression

Shape == DOMAIN Node
Expr  == DOMAIN Term
Paths == {"expr", "value"}          \* check_expr or check_value

LeafKinds == {"any", "exprKind", "exact", "number", "record", "fails"}
AllKinds  == {"and", "list", "repeat", "table", "fields", "cell", "row"}
AnyKinds  == {"or", "oneOf"}
WrapKinds == {"capture", "effectful", "pratt"}
LoopKinds == AllKinds \cup AnyKinds \cup WrapKinds \cup {"best", "not"}
Kinds     == LeafKinds \cup LoopKinds \cup {"ref", "defs", "class"}

(***************************************************************************)
(* kids: the child shapes in the order the code visits them.  name: what a *)
(* capture binds, a ref resolves, or the class symbol; rest: the tail of a *)
(* list or the extra shape of a table; keys/needed: the field keys and     *)
(* which are required; extra: the table's extra policy; arg: the expected  *)
(* term of an exact shape or the form of an expression-kind shape.  A cell *)
(* shape has the domains of its catalog as keys, their shapes as kids and  *)
(* its binding, if any, as name; a domain whose shape does not resolve is  *)
(* one whose kid fails.  A row shape's kid is its own cell shape.          *)
(***************************************************************************)
NodeType ==
  [kind: Kinds, kids: Seq(Shape), name: Symbol \cup {None}, rest: Shape \cup {None},
   keys: Seq(Symbol), needed: Seq(BOOLEAN), extra: {"allow", "reject", "shape"},
   min: Nat, max: Nat \cup {None}, defs: Seq([name: Symbol, shape: Shape]), arg: STRING]

(* form: the expression's constructor; items: its children; keys: the map  *)
(* or object keys of those children (None for a key that is no symbol), or *)
(* the field names of a data node; class: the class it names or belongs    *)
(* to, a node's tag, a domain symbol's domain (None when no domain may be  *)
(* called so); parsed: what the Pratt parser                               *)
(* makes of a string, None for a parse error and "broken" for a failure    *)
(* that is not one.                                                        *)
TermType ==
  [form: STRING, items: Seq(Expr), keys: Seq(Symbol \cup {None}),
   class: Symbol \cup {None}, parsed: Expr \cup {None, "broken"}]

(* A graph as the constructors build it: wrappers, references and repeats  *)
(* have the one child they need, tables and field shapes a key and a       *)
(* requirement for every child, and a keyed term a key for every item.     *)
NodeOK(n) ==
  /\ n.kind \in WrapKinds \cup {"not", "defs", "repeat"} => Len(n.kids) = 1
  /\ n.kind = "row" => Len(n.kids) = 1
  /\ n.kind \in {"table", "fields"} => Len(n.keys) = Len(n.kids) /\ Len(n.needed) = Len(n.kids)
  /\ n.kind = "table" /\ n.extra = "shape" => n.rest # None
  /\ n.kind = "class" => Len(n.kids) <= 1
  /\ n.kind = "cell" => Len(n.keys) = Len(n.kids)
  /\ n.kind \in {"ref", "class", "capture", "record"} => n.name # None

TermOK(e) ==
  /\ e.form \in {"map", "object", "data"} => Len(e.keys) = Len(e.items)
  /\ e.form \notin {"map", "object", "data"} => e.keys = <<>>

(* The captures the combinators add by themselves.                         *)
OwnCaptures == {"branch-index", "negated", "repeat-count", "matched-keys"}

GraphOK ==
  /\ None \notin Shape \cup Expr \cup Symbol \cup {"broken"}
  /\ OwnCaptures \subseteq Symbol
  /\ Node \in [Shape -> NodeType] /\ \A s \in Shape : NodeOK(Node[s])
  /\ Term \in [Expr -> TermType] /\ \A e \in Expr : TermOK(Term[e])

Kind(t) == Node[t.shape].kind
Kids(t) == Node[t.shape].kids
Form(t) == Term[t.expr].form
Items(t) == Term[t.expr].items
Keys(t) == Term[t.expr].keys

Task == [shape: Shape, expr: Expr, path: Paths]
Job(s, e, p) == [shape |-> s, expr |-> e, path |-> p]

ASSUME GraphAssumption == GraphOK /\ None \notin Task

(* Shapes are built from shapes that exist: only a reference, by a name,   *)
(* and a class, by its entry in the registry, lead back up.                *)
Below(s) ==
  LET n == Node[s] IN
  IF n.kind \in {"ref", "class"} THEN {}
  ELSE {n.kids[i] : i \in DOMAIN n.kids} \cup ({n.rest} \ {None})
       \cup {n.defs[i].shape : i \in DOMAIN n.defs}

ASSUME HeightAssumption ==
  /\ Height \in [Shape -> Nat]
  /\ \A s \in Shape : \A part \in Below(s) : Height[part] < Height[s]
  /\ Shape # {} => \E tallest \in Shape : \A s \in Shape : Height[s] <= Height[tallest]

Accept(n, c) == [st |-> "accept", score |-> n, caps |-> c]
Reject == [st |-> "reject", score |-> 0, caps |-> <<>>]
Error  == [st |-> "error",  score |-> 0, caps |-> <<>>]
Verdict(b, n) == IF b THEN Accept(n, <<>>) ELSE Reject
Bind(n, e, k) == [name |-> n, of |-> e, num |-> k]

-----------------------------------------------------------------------------
(* Leaves.                                                                 *)

LeafResult(t) ==
  CASE Kind(t) = "any"      -> Accept(0, <<>>)
    [] Kind(t) = "exprKind" -> Verdict(Form(t) = Node[t.shape].arg, 10)
    [] Kind(t) = "exact"    -> Verdict(t.expr = Node[t.shape].arg, 20)
    [] Kind(t) = "number"   ->
         Verdict(Form(t) = "number", IF t.path = "value" THEN 20 ELSE 10)
    [] Kind(t) = "record"   ->
         Verdict(Form(t) = "data" /\ Term[t.expr].class = Node[t.shape].name, 100)
    [] OTHER                -> Error

(* is_total of every shape; a ref, a list, a table with fields and every   *)
(* other shape that does not override the kernel's default is not total.   *)
Total[s \in Shape] ==
  LET kids == Node[s].kids IN
  CASE Node[s].kind = "any" -> TRUE
    [] Node[s].kind = "and" -> \A i \in DOMAIN kids : Total[kids[i]]
    [] Node[s].kind \in {"or", "best", "oneOf"} -> \E i \in DOMAIN kids : Total[kids[i]]
    [] Node[s].kind \in {"capture", "effectful", "defs"} -> Total[kids[1]]
    [] Node[s].kind = "table" -> kids = <<>> /\ Node[s].extra = "allow"
    [] OTHER -> FALSE

(* Inside one ShapeDefs the last definition of a name wins.                *)
Defines(s, name) == \E i \in DOMAIN Node[s].defs : Node[s].defs[i].name = name
LastDef(s, name) ==
  LET at == CHOOSE i \in DOMAIN Node[s].defs :
              /\ Node[s].defs[i].name = name
              /\ \A j \in DOMAIN Node[s].defs : Node[s].defs[j].name = name => j <= i
  IN Node[s].defs[at].shape

ClassMatches(actual, expected) == actual = expected \/ <<actual, expected>> \in Subclass

-----------------------------------------------------------------------------
(* Loops: the entry checks, the length of the loop, the child at turn i,   *)
(* and the turns that reject without asking a child.                       *)

NoDuplicates(seq) == \A i, j \in DOMAIN seq : i # j /\ seq[i] = seq[j] => seq[i] = None

(* The entry carrying a key, 0 when there is none; asked only of a term    *)
(* whose keys were found to be distinct.                                   *)
EntryOf(t, key) ==
  IF \E i \in DOMAIN Keys(t) : Keys(t)[i] = key
  THEN CHOOSE i \in DOMAIN Keys(t) : Keys(t)[i] = key ELSE 0

SymbolKeys(t) == \A i \in DOMAIN Keys(t) : Keys(t)[i] # None

FieldKey(t, i)  == Node[t.shape].keys[i]
FieldKeys(t)    == {FieldKey(t, i) : i \in DOMAIN Kids(t)}
Missing(t, i)   == Node[t.shape].needed[i] /\ EntryOf(t, FieldKey(t, i)) = 0

ListRefuses(t) ==
  \/ Form(t) # "list"
  \/ Len(Items(t)) < Len(Kids(t))
  \/ Node[t.shape].rest = None /\ Len(Items(t)) # Len(Kids(t))

ListChild(t, i) ==
  Job(IF i <= Len(Kids(t)) THEN Kids(t)[i] ELSE Node[t.shape].rest, Items(t)[i], t.path)

(* A vector or set value is no list object: it is turned into its          *)
(* expression, so its items are checked as expressions.                    *)
RepeatRefuses(t) == Form(t) \notin {"list", "vector", "set"}

RepeatChild(t, i) ==
  Job(Kids(t)[1], Items(t)[i], IF Form(t) = "list" THEN t.path ELSE "expr")

RepeatInBounds(t) ==
  LET n == Len(Items(t)) IN
  n >= Node[t.shape].min /\ (Node[t.shape].max = None \/ n <= Node[t.shape].max)

TableRefuses(t) ==
  \/ Form(t) # "map"
  \/ ~SymbolKeys(t)
  \/ ~NoDuplicates(Keys(t))

(* Turns 1..#fields visit the declared fields, later turns the entries.    *)
TableChild(t, i) ==
  LET n == Len(Kids(t)) IN
  IF i <= n
  THEN LET j == EntryOf(t, FieldKey(t, i)) IN
       IF j = 0 THEN None ELSE Job(Kids(t)[i], Items(t)[j], t.path)
  ELSE IF Keys(t)[i - n] \in FieldKeys(t) \/ Node[t.shape].extra # "shape"
       THEN None ELSE Job(Node[t.shape].rest, Items(t)[i - n], t.path)

(* Missing keys are reported after every present field was accepted; an    *)
(* extra key under the Reject policy rejects when the loop meets it.       *)
TableBlocks(t, i) ==
  LET n == Len(Kids(t)) IN
  /\ i > n
  /\ \/ \E k \in 1..n : Missing(t, k)
     \/ /\ i <= n + Len(Keys(t))
        /\ Keys(t)[i - n] \notin FieldKeys(t)
        /\ Node[t.shape].extra = "reject"

FieldsRefuses(t) ==
  \/ ~SymbolKeys(t)
  \/ ~NoDuplicates(Keys(t))
  \/ Form(t) # "object" /\ (Node[t.shape].name # None \/ Form(t) # "map")
  \/ Node[t.shape].name # None /\ Term[t.expr].class # Node[t.shape].name

FieldsChild(t, i) ==
  LET j == EntryOf(t, FieldKey(t, i)) IN
  IF j = 0 THEN None ELSE Job(Kids(t)[i], Items(t)[j], "expr")

PrattRefuses(t) == Form(t) # "string" \/ Term[t.expr].parsed = None
PrattFails(t)   == Form(t) = "string" /\ Term[t.expr].parsed = "broken"
PrattChild(t)   == Job(Kids(t)[1], Term[t.expr].parsed, "expr")

(* Relational data: the first field of a name counts.                      *)
FieldNo(t, name) ==
  IF \E i \in DOMAIN Keys(t) : Keys(t)[i] = name
  THEN CHOOSE i \in DOMAIN Keys(t) :
         Keys(t)[i] = name /\ \A j \in DOMAIN Keys(t) : Keys(t)[j] = name => i <= j
  ELSE 0
IsRecord(t, tag) == Form(t) = "data" /\ Term[t.expr].class = tag
FieldTerm(t, name) == Term[Items(t)[FieldNo(t, name)]]
HasField(t, name, form) == FieldNo(t, name) # 0 /\ FieldTerm(t, name).form = form

CellOpens(t) == IsRecord(t, "cell") /\ HasField(t, "domain", "symbol")
CellDomain(t) == FieldTerm(t, "domain").class
CellFails(t) == CellOpens(t) /\ CellDomain(t) = None
Domains(t) == {i \in DOMAIN Kids(t) : Node[t.shape].keys[i] = CellDomain(t)}
CellRefuses(t) ==
  CellOpens(t) => CellDomain(t) # None /\ (Domains(t) = {} \/ FieldNo(t, "value") = 0)

(* A null value is of every domain, and no shape is asked.                 *)
CellIsNull(t) == FieldTerm(t, "value").form = "nil"
CellChild(t) ==
  Job(Kids(t)[CHOOSE i \in Domains(t) : TRUE], Items(t)[FieldNo(t, "value")], "value")

RowRefuses(t) == ~(IsRecord(t, "row") /\ HasField(t, "cells", "vector"))
RowCells(t) == FieldTerm(t, "cells").items
RowChild(t, i) == Job(Kids(t)[1], RowCells(t)[i], t.path)

-----------------------------------------------------------------------------
Refuses(t) ==
  \/ Kind(t) = "list"   /\ ListRefuses(t)
  \/ Kind(t) = "repeat" /\ RepeatRefuses(t)
  \/ Kind(t) = "table"  /\ TableRefuses(t)
  \/ Kind(t) = "fields" /\ FieldsRefuses(t)
  \/ Kind(t) = "pratt"  /\ PrattRefuses(t)
  \/ Kind(t) = "cell"   /\ CellRefuses(t)
  \/ Kind(t) = "row"    /\ RowRefuses(t)

EntryFails(t) ==
  \/ Kind(t) = "pratt" /\ PrattFails(t)
  \/ Kind(t) = "cell"  /\ CellFails(t)

LoopLen(t) ==
  CASE Kind(t) \in {"list", "repeat"} -> Len(Items(t))
    [] Kind(t) = "table" -> Len(Kids(t)) + Len(Keys(t))
    [] Kind(t) = "cell"  -> IF CellIsNull(t) THEN 0 ELSE 1
    [] Kind(t) = "row"   -> Len(RowCells(t))
    [] OTHER -> Len(Kids(t))

Child(t, i) ==
  CASE Kind(t) = "list"   -> ListChild(t, i)
    [] Kind(t) = "repeat" -> RepeatChild(t, i)
    [] Kind(t) = "table"  -> TableChild(t, i)
    [] Kind(t) = "fields" -> FieldsChild(t, i)
    [] Kind(t) = "pratt"  -> PrattChild(t)
    [] Kind(t) = "cell"   -> CellChild(t)
    [] Kind(t) = "row"    -> RowChild(t, i)
    [] OTHER              -> Job(Kids(t)[i], t.expr, t.path)

Blocks(t, i) ==
  \/ Kind(t) = "table" /\ TableBlocks(t, i)
  \/ Kind(t) = "fields" /\ i <= Len(Kids(t)) /\ Missing(t, i)

(* The score a combinator starts from before it adds its children's.       *)
BaseScore(t) ==
  CASE Kind(t) = "and" -> IF Kids(t) = <<>> THEN 0 ELSE 10
    [] Kind(t) \in {"list", "repeat", "table", "fields"} -> 20
    [] Kind(t) = "cell" -> IF ~CellRefuses(t) /\ ~CellFails(t) /\ CellIsNull(t) THEN 80 ELSE 20
    [] Kind(t) = "row"  -> 100
    [] OTHER -> 0

(* ObjectExpr::parse: an object expression whose keys are distinct symbols. *)
IsObject(t) == Form(t) = "object" /\ SymbolKeys(t) /\ NoDuplicates(Keys(t))

OfClass(t) ==
  /\ Term[t.expr].class # None
  /\ ClassMatches(Term[t.expr].class, Node[t.shape].name)

(* An object expression of the class is checked against the class's        *)
(* instance shape when the registered class has one (the shape's one kid). *)
ClassOpens(t) == t.path = "expr" /\ IsObject(t) /\ OfClass(t) /\ Kids(t) # <<>>

(* Every other class check answers by itself.                              *)
ClassDirect(t) ==
  IF t.path = "value" THEN Verdict(OfClass(t), 30)
  ELSE CASE Form(t) = "construct" -> Verdict(OfClass(t), 25)
         [] Form(t) = "symbol"    -> Verdict(OfClass(t), 20)
         [] IsObject(t)           -> Verdict(OfClass(t), 25)
         [] OTHER                 -> Reject

=============================================================================
