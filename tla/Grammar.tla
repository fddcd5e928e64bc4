------------------------------ MODULE Grammar -------------------------------
(***************************************************************************)
(* shape_grammar and shape_json_schema: a shape is lowered into a graph of *)
(* productions, scopes flattened into one list of definitions, and the     *)
(* graph is rendered, by a codec's own renderer or as JSON Schema.  What   *)
(* cannot be lowered or rendered is refused whole.                         *)
(***************************************************************************)
EXTENDS ShapeMeaning, SequencesExt

CONSTANTS
  FieldsHead,   \* shape/fields, the head of an anonymous field shape
  Local,        \* the local part of each name that has a namespace
  Unescaped,    \* the names that are their own token in a JSON pointer
  Nesting,      \* Bound: the levels a production may have
  Fuel          \* Bound: how many references one inside the other are followed

(* A shape of height h is lowered to at most 2 * h + 2 levels: a field is  *)
(* two below its call, a tail two below its list.                          *)
ASSUME GrammarAssumption ==
  /\ Nesting \in Nat /\ Fuel \in Nat /\ \A s \in Shape : 2 * Height[s] + 2 <= Nesting
  /\ DOMAIN Local \subseteq Symbol /\ \A k \in DOMAIN Local : Local[k] \in Symbol
  /\ Unescaped \subseteq Symbol /\ Unescaped \cap DOMAIN Local = {}

-----------------------------------------------------------------------------
(* Productions: parts is what a sequence, a choice, a repetition or a call *)
(* is made of; of is the atom of a terminal, and name the exact term, the  *)
(* head of a call or the definition referred to.                           *)
Naming(kind, name, parts) == [kind |-> kind, of |-> "", name |-> name, parts |-> parts]
Compound(kind, parts) == Naming(kind, None, parts)
Terminal(atom) == [kind |-> "terminal", of |-> atom, name |-> None, parts |-> <<>>]
Exactly(e)     == [kind |-> "terminal", of |-> "exact", name |-> e, parts |-> <<>>]
Definition(name, p) == [name |-> name, production |-> p]

Lower(p, defs) == [ok |-> TRUE, production |-> p, defs |-> defs]
Unsupported    == [ok |-> FALSE, production |-> Terminal("any"), defs |-> <<>>]

KindAtoms == {"nil", "bool", "number", "string", "list", "vector", "map", "symbol"}
AtomOf(kind) == IF kind = "vector" THEN "list" ELSE kind

(* The JSON type of each atom but exact.                                   *)
Types ==
  [any |-> "any", nil |-> "null", bool |-> "boolean", number |-> "number", string |-> "string",
   list |-> "array", map |-> "object", symbol |-> "string"]
SchemaTypes ==
  {"any", "null", "boolean", "number", "string", "array", "object",
   "const", "ref", "anyOf", "record"}

(* Productions and schemas of at most n levels.  An argument of a call is  *)
(* a sequence of a name and a production.  Of a schema, keywords it does   *)
(* not use have a value that allows everything; prefixItems and items are  *)
(* prefix and rest, and bounded is whether minItems and maxItems say how   *)
(* long the prefix is.                                                     *)
Names == STRING \cup Symbol \cup {None, FieldsHead}

ProductionsOver(parts) ==
  {p \in [kind: {"terminal", "ref", "alt", "seq", "repeat", "call"}, name: Names,
          of: DOMAIN Types \cup {"exact", ""}, parts: Seq(parts)] :
     /\ p.kind = "terminal" => p.of # ""
     /\ p.kind = "repeat" => Len(p.parts) = 1
     /\ p.kind = "call" => \A i \in DOMAIN p.parts : Len(p.parts[i].parts) = 2}

SchemasOver(parts) ==
  {sc \in [type: SchemaTypes, const: Names, ref: Names, prefix: Seq(parts), rest: Seq(parts),
           bounded: BOOLEAN, names: Seq(Names), anyOf: Seq(parts)] :
     sc.type = "record" => Len(sc.names) = Len(sc.prefix)}

Nested[n \in Nat] ==
  IF n = 0 THEN [productions |-> {}, schemas |-> {}]
  ELSE [productions |-> ProductionsOver(Nested[n - 1].productions),
        schemas     |-> SchemasOver(Nested[n - 1].schemas)]
Production == Nested[Nesting].productions
Schema     == Nested[Nesting].schemas

(* The productions a production says something about: its parts, but of a  *)
(* call the values of its fields.                                          *)
Values(p) ==
  IF p.kind = "call" THEN [i \in DOMAIN p.parts |-> p.parts[i].parts[2]] ELSE p.parts
FieldNames(p) == [i \in DOMAIN p.parts |-> p.parts[i].parts[1].name]
Tailed(p) == p.parts # <<>> /\ Last(p.parts).kind = "repeat"

Productions(ls) == [i \in DOMAIN ls |-> ls[i].production]
DefsOf(ls) == FlattenSeq([i \in DOMAIN ls |-> ls[i].defs])

(* Mutant: what the definitions define themselves is left behind.          *)
ScopesTop(root, names, bodies) ==
  root.defs \o [i \in DOMAIN bodies |-> Definition(names[i], bodies[i].production)]

(* The definitions of a scope, each after those found inside it.           *)
Scopes(root, names, bodies) ==
  root.defs \o FlattenSeq([i \in DOMAIN bodies |->
    Append(bodies[i].defs, Definition(names[i], bodies[i].production))])

Whole(ls, lowered) == IF \A i \in DOMAIN ls : ls[i].ok THEN lowered ELSE Unsupported

(* What a shape is lowered to, given what the shapes in it are.            *)
LoweredAs(n, kids, rest, bodies) ==
  LET parts == Productions(kids)
      tail  == IF rest = <<>> THEN <<>> ELSE <<Compound("repeat", Productions(rest))>>
      head  == IF n.name = None THEN FieldsHead ELSE n.name
      Field(i) == Compound("seq", <<Exactly(n.keys[i]), parts[i]>>) IN
  CASE n.kind = "any"   -> Lower(Compound("alt", <<Terminal("any")>>), <<>>)
    [] n.kind = "exprKind" ->
         IF n.arg \in KindAtoms THEN Lower(Terminal(AtomOf(n.arg)), <<>>) ELSE Unsupported
    [] n.kind = "exact" -> Lower(Exactly(n.arg), <<>>)
    [] n.kind = "ref"   -> Lower(Naming("ref", n.name, <<>>), <<>>)
    [] n.kind = "oneOf" -> Whole(kids, Lower(Compound("alt", parts), DefsOf(kids)))
    [] n.kind = "list"  -> Whole(kids \o rest, Lower(Compound("seq", parts \o tail),
                                                     DefsOf(kids \o rest)))
    [] n.kind = "fields" ->
         Whole(kids, Lower(Naming("call", head, [i \in DOMAIN kids |-> Field(i)]), DefsOf(kids)))
    [] n.kind = "defs"  ->
         Whole(kids \o bodies,
               Lower(parts[1], Scopes(kids[1], [i \in DOMAIN bodies |-> n.defs[i].name], bodies)))
    [] OTHER -> Unsupported

Lowered[s \in Shape] ==
  LET n == Node[s] IN
  LoweredAs(n, [i \in DOMAIN n.kids |-> Lowered[n.kids[i]]],
            IF n.rest = None THEN <<>> ELSE <<Lowered[n.rest]>>,
            [i \in DOMAIN n.defs |-> Lowered[n.defs[i].shape]])

-----------------------------------------------------------------------------
(* JSON Schema.                                                            *)
AnySchema ==
  [type |-> "any", const |-> None, ref |-> None, prefix |-> <<>>, rest |-> <<>>,
   bounded |-> FALSE, names |-> <<>>, anyOf |-> <<>>]

(* Whether json_expr can write a term down.                                *)
Written[e \in Expr] ==
  /\ Term[e].form \in {"nil", "bool", "number", "string", "symbol", "list", "vector", "map"}
  /\ \A i \in DOMAIN Term[e].keys : Term[e].keys[i] # None
  /\ \A i \in DOMAIN Term[e].items : Written[Term[e].items[i]]

Renders[p \in Production] ==
  /\ p.kind = "terminal" /\ p.of = "exact" => Written[p.name]
  /\ \A i \in DOMAIN Values(p) : Renders[Values(p)[i]]

(* A field is written, as is the key of a map, without its namespace; the  *)
(* name a reference refers to with it, and as it is.                       *)
LocalNames(names) ==
  [i \in DOMAIN names |-> IF names[i] \in DOMAIN Local THEN Local[names[i]] ELSE names[i]]

RenderedAs(p, parts) ==
  CASE p.kind = "terminal" ->
         IF p.of = "exact" THEN [AnySchema EXCEPT !.type = "const", !.const = p.name]
         ELSE [AnySchema EXCEPT !.type = Types[p.of]]
    [] p.kind = "ref" -> [AnySchema EXCEPT !.type = "ref", !.ref = p.name]
    [] p.kind = "repeat" -> [AnySchema EXCEPT !.type = "array", !.rest = parts]
    [] p.kind = "alt" ->
         IF p.parts = <<Terminal("any")>> THEN AnySchema
         ELSE [AnySchema EXCEPT !.type = "anyOf", !.anyOf = parts]
    [] p.kind = "seq" ->
         IF Tailed(p)
         THEN [AnySchema EXCEPT !.type = "array", !.prefix = Front(parts),
                                !.rest = Last(parts).rest]
         ELSE [AnySchema EXCEPT !.type = "array", !.prefix = parts, !.bounded = TRUE]
    [] p.kind = "call" ->
         [AnySchema EXCEPT !.type = "record", !.prefix = parts,
                              !.names = LocalNames(FieldNames(p))]

Render[p \in Production] ==
  RenderedAs(p, [i \in DOMAIN p.parts |-> Render[Values(p)[i]]])

-----------------------------------------------------------------------------
(* One request: shape_json_schema, or shape_grammar with a renderer that   *)
(* may be for another codec or dialect than the target's.                  *)
VARIABLES request, outcome, graph, schema

vars == <<request, outcome, graph, schema>>

Requests == [shape: Shape, entry: {"schema", "grammar"}, codec: BOOLEAN, dialect: BOOLEAN]

Init == request = None /\ outcome = "none" /\ graph = Unsupported /\ schema = AnySchema

Ask(r) == request = None /\ request' = r /\ UNCHANGED <<outcome, graph, schema>>

Pending == request # None /\ outcome = "none"
Refuse == outcome' = "refused" /\ UNCHANGED <<request, graph, schema>>

Mismatch ==
  /\ Pending /\ request.entry = "grammar" /\ ~graph.ok
  /\ ~request.codec \/ ~request.dialect
  /\ Refuse

Matches == request.entry = "schema" \/ (request.codec /\ request.dialect)

LowerShape ==
  /\ Pending /\ Matches /\ ~graph.ok /\ Lowered[request.shape].ok
  /\ graph' = Lowered[request.shape]
  /\ UNCHANGED <<request, outcome, schema>>

RefuseShape == Pending /\ Matches /\ ~graph.ok /\ ~Lowered[request.shape].ok /\ Refuse

AllProductions == <<graph.production>> \o Productions(graph.defs)

RenderSchema ==
  /\ Pending /\ graph.ok /\ request.entry = "schema"
  /\ \A i \in DOMAIN AllProductions : Renders[AllProductions[i]]
  /\ schema' = Render[graph.production]
  /\ outcome' = "rendered"
  /\ UNCHANGED <<request, graph>>

RefuseSchema ==
  /\ Pending /\ graph.ok /\ request.entry = "schema"
  /\ \E i \in DOMAIN AllProductions : ~Renders[AllProductions[i]]
  /\ Refuse

(* The codec's renderer is handed the graph, and may fail.                 *)
HandOver ==
  /\ Pending /\ graph.ok /\ request.entry = "grammar"
  /\ outcome' = "rendered"
  /\ UNCHANGED <<request, graph, schema>>

RendererFails == Pending /\ graph.ok /\ request.entry = "grammar" /\ Refuse

Next ==
  \/ \E r \in Requests : Ask(r)
  \/ Mismatch \/ LowerShape \/ RefuseShape \/ RenderSchema \/ RefuseSchema
  \/ HandOver \/ RendererFails

Spec == Init /\ [][Next]_vars

-----------------------------------------------------------------------------
(* What a graph and a schema describe, of the terms at hand.  As matching  *)
(* does, following a reference takes one of fuel levels.                   *)

Found(defs, name) == {i \in DOMAIN defs : defs[i].name = name}
TheDef(defs, name) == defs[CHOOSE i \in Found(defs, name) : TRUE].production

Claims(of) == [of: of, expr: Expr, fuel: Nat]
Claim(p, e, fuel) == [of |-> p, expr |-> e, fuel |-> fuel]

(* A map, its keys written so, of exactly these names, with a value        *)
(* Holds(i, e) is true of at the ith of them.                              *)
IsMapOf(e, keys, names, Holds(_, _)) ==
  /\ Term[e].form = "map" /\ NoDuplicates(keys)
  /\ {keys[k] : k \in DOMAIN keys} = {names[i] : i \in DOMAIN names}
  /\ \A i \in DOMAIN names, k \in DOMAIN keys :
       keys[k] = names[i] => Holds(i, Term[e].items[k])

(* Whether a claim holds, given which of the claims it rests on do.        *)
Admitted(defs, q, admits) ==
  LET p == q.of  t == Term[q.expr]  n == Len(p.parts)
      fixed == IF Tailed(p) THEN n - 1 ELSE n
      Holds(i, e) == admits[Claim(Values(p)[i], e, q.fuel)]
      After(e) == admits[Claim(Last(p.parts).parts[1], e, q.fuel)] IN
  CASE p.kind = "terminal" ->
         CASE p.of = "any"   -> TRUE
           [] p.of = "exact" -> p.name = q.expr
           [] p.of = "list"  -> t.form \in {"list", "vector"}
           [] OTHER          -> t.form = p.of
    [] p.kind = "alt" -> \E i \in 1..n : Holds(i, q.expr)
    [] p.kind = "ref" ->
         /\ q.fuel > 0 /\ Found(defs, p.name) # {}
         /\ admits[Claim(TheDef(defs, p.name), q.expr, q.fuel - 1)]
    [] p.kind = "seq" ->
         /\ t.form = "list" /\ Len(t.items) >= fixed
         /\ Tailed(p) \/ Len(t.items) = fixed
         /\ \A i \in 1..Len(t.items) :
              IF i <= fixed THEN Holds(i, t.items[i]) ELSE After(t.items[i])
    [] p.kind = "call" -> p.name = FieldsHead /\ IsMapOf(q.expr, t.keys, FieldNames(p), Holds)
    [] OTHER -> FALSE

Admits(defs) ==
  LET admits[q \in Claims(Production)] == Admitted(defs, q, admits) IN admits

(* Terms stand for the JSON json_expr writes, but for a constant: two of   *)
(* one text are told apart.  A pointer with a name that would have to be   *)
(* escaped, as the slash of a namespace does, leads to no definition.      *)
Conformed(defs, q, conforms) ==
  LET sc == q.of  t == Term[q.expr]
      Holds(i, e) == conforms[Claim(sc.prefix[i], e, q.fuel)]
      After(e) == conforms[Claim(sc.rest[1], e, q.fuel)] IN
  CASE sc.type = "any"     -> TRUE
    [] sc.type = "const"   -> sc.const = q.expr
    [] sc.type = "null"    -> t.form = "nil"
    [] sc.type = "boolean" -> t.form = "bool"
    [] sc.type = "string"  -> t.form \in {"string", "symbol"}
    [] sc.type = "number"  -> t.form = "number"
    [] sc.type = "object"  -> t.form = "map"
    [] sc.type = "anyOf"   ->
         \E i \in DOMAIN sc.anyOf : conforms[Claim(sc.anyOf[i], q.expr, q.fuel)]
    [] sc.type = "record"  -> IsMapOf(q.expr, LocalNames(t.keys), sc.names, Holds)
    [] sc.type = "ref"     ->
         /\ q.fuel > 0 /\ sc.ref \in Unescaped /\ Found(defs, sc.ref) # {}
         /\ conforms[Claim(Render[TheDef(defs, sc.ref)], q.expr, q.fuel - 1)]
    [] sc.type = "array"   ->
         /\ t.form \in {"list", "vector"}
         /\ sc.bounded => Len(t.items) = Len(sc.prefix)
         /\ \A i \in 1..Len(t.items) :
              IF i <= Len(sc.prefix) THEN Holds(i, t.items[i])
              ELSE sc.rest # <<>> => After(t.items[i])
    [] OTHER -> FALSE

Conforms(defs) ==
  LET conforms[q \in Claims(Schema)] == Conformed(defs, q, conforms) IN conforms

-----------------------------------------------------------------------------
(* Of a shape and the shapes it is built of: the names referred to that no *)
(* scope around the reference defines, and whether one of them is lowered  *)
(* to more than it accepts (the list and vector kinds to any array, a      *)
(* class called shape/fields to an anonymous field shape) or to less (all  *)
(* fields are required and no other is allowed).                           *)
About[s \in Shape] ==
  LET n == Node[s]
      bound == IF n.kind = "defs" THEN {n.defs[i].name : i \in DOMAIN n.defs} ELSE {} IN
  [free   |-> (IF n.kind = "ref" THEN {n.name} ELSE {}) \cup
              ((UNION {About[u].free : u \in Below(s)}) \ bound),
   wider  |-> \/ n.kind = "exprKind" /\ n.arg \in {"list", "vector"}
              \/ n.kind = "fields" /\ n.name = FieldsHead
              \/ \E u \in Below(s) : About[u].wider,
   closer |-> n.kind = "fields" \/ \E u \in Below(s) : About[u].closer]

(* No name has two meanings once the scopes are one list.                  *)
Unambiguous(defs) ==
  \A i, j \in DOMAIN defs : defs[i].name = defs[j].name => defs[i] = defs[j]

(* The names a production uses survive the rendering: its references lead  *)
(* to their definitions, and no two fields have one local part.            *)
NamesKept[p \in Production] ==
  LET names == FieldNames(p) IN
  /\ p.kind = "ref" => p.name \in Unescaped
  /\ p.kind = "call" =>
       \A i, j \in DOMAIN names : LocalNames(names)[i] = LocalNames(names)[j] => names[i] = names[j]
  /\ \A i \in DOMAIN p.parts : NamesKept[Values(p)[i]]

Accepts(s, e) == Meaning[Asking(Job(s, e, "expr"), <<>>, Fuel)].st = "accept"

(* A graph describes the terms its shape accepts: references through the   *)
(* flattened definitions, recursive ones too, choices, prefixes and tails. *)
(* Where a shape is lowered to more or to less than it accepts one of the  *)
(* two directions is left.  The JSON Schema admits whatever the graph      *)
(* does, if no name of the graph is changed by how it is written.          *)
GrammarIsShape ==
  LET about == About[request.shape]
      kept  == \A i \in DOMAIN AllProductions : NamesKept[AllProductions[i]] IN
  outcome = "rendered" /\ about.free = {} /\ Unambiguous(graph.defs) =>
    \A e \in Expr :
      LET admitted == Admits(graph.defs)[Claim(graph.production, e, Fuel)] IN
      /\ admitted /\ ~about.wider => Accepts(request.shape, e)
      /\ Accepts(request.shape, e) /\ ~about.closer => admitted
      /\ admitted /\ kept /\ request.entry = "schema" =>
           Conforms(graph.defs)[Claim(schema, e, Fuel)]
=============================================================================
