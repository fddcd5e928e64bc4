----------------------------- MODULE ShapeBuild -----------------------------
(***************************************************************************)
(* Shapes and terms written down briefly, for the instances TLC checks: a  *)
(* short form gives the fields it is about, Shapes and Terms the rest.     *)
(***************************************************************************)
EXTENDS ShapeGraph, FiniteSetsExt, TLC

N(k, kids)         == [kind |-> k, kids |-> kids]
KindIs(form)       == [kind |-> "exprKind", arg |-> form]
Exact(e)           == [kind |-> "exact", arg |-> e]
Ref(n)             == [kind |-> "ref", name |-> n]
Named(k, n, kids)  == [kind |-> k, name |-> n, kids |-> kids]
ListOf(kids, rest) == [kind |-> "list", kids |-> kids, rest |-> rest]
Repeats(b, lo, hi) == [kind |-> "repeat", kids |-> <<b>>, min |-> lo, max |-> hi]
Defs(root, ds)     == [kind |-> "defs", kids |-> <<root>>, defs |-> ds]
Def(n, s)          == [name |-> n, shape |-> s]
Record(k, keys, kids, needed, extra, rest) ==
  [kind |-> k, kids |-> kids, keys |-> keys, needed |-> needed, extra |-> extra, rest |-> rest]

(* The same table, worked out once and not at every lookup.  TLC keeps the *)
(* value of a definition but not of what a constant stands for, so in the  *)
(* instances a constant stands for the name of such a table.               *)
Worked(table) == table @@ <<>>

Node_(n) ==
  [kind |-> n.kind, kids |-> n.kids, name |-> n.name, rest |-> n.rest, keys |-> n.keys,
   needed |-> n.needed, extra |-> n.extra, min |-> n.min, max |-> n.max, defs |-> n.defs,
   arg |-> n.arg]
Blank ==
  [kids |-> <<>>, name |-> None, rest |-> None, keys |-> <<>>, needed |-> <<>>,
   extra |-> "allow", min |-> 0, max |-> None, defs |-> <<>>, arg |-> ""]
Shapes(g) == Worked([s \in DOMAIN g |-> Node_(g[s] @@ Blank)])

(* How many layers of shapes a shape is built of.                          *)
Heights ==
  LET height[s \in Shape] == IF Below(s) = {} THEN 0 ELSE 1 + Max({height[b] : b \in Below(s)})
  IN Worked(height)
MCHeight == Heights

T(form)             == [form |-> form]
Seqn(form, items)   == [form |-> form, items |-> items]
Text(e)             == [form |-> "string", parsed |-> e]
Sym(c)              == [form |-> "symbol", class |-> c]
Construct(c)        == [form |-> "construct", class |-> c]
Map(keys, items)    == [form |-> "map", keys |-> keys, items |-> items]
Data(tag, keys, items) == [form |-> "data", class |-> tag, keys |-> keys, items |-> items]
Obj(c, keys, items) == [form |-> "object", class |-> c, keys |-> keys, items |-> items]

Term_(e) ==
  [form |-> e.form, items |-> e.items, keys |-> e.keys, class |-> e.class, parsed |-> e.parsed]
Empty == [items |-> <<>>, keys |-> <<>>, class |-> None, parsed |-> None]
Terms(g) == Worked([e \in DOMAIN g |-> Term_(g[e] @@ Empty)])
=============================================================================
