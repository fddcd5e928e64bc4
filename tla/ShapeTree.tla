----------------------------- MODULE ShapeTree ------------------------------
(***************************************************************************)
(* Shapes as the trees the parser and the constructors build: every child  *)
(* is held by its parent (an Arc<dyn Shape>), where a ShapeGraph names it. *)
(***************************************************************************)
EXTENDS Integers, Sequences

CONSTANT None   \* the absent name, bound or child

Word(space, name) == [space |-> space, name |-> name]   \* a symbol; "" is no namespace

(* kids: the children in the order the code visits them, the root of a     *)
(* ShapeDefs before its definitions; keys: the names of fields or of       *)
(* definitions; needed: which fields are required; rest: the tail of a     *)
(* list, the extra shape of a table, at most one; arg: the expression kind,*)
(* the expected expression of an exact shape, the strategy of a            *)
(* disjunction or the extra policy of a table; marks: the hooks around it. *)
Leaf == [kind |-> "any", kids |-> <<>>, name |-> None, keys |-> <<>>, needed |-> <<>>,
         rest |-> <<>>, arg |-> "", min |-> 0, max |-> None, marks |-> <<>>]

Tree(kind, kids)       == [Leaf EXCEPT !.kind = kind, !.kids = kids]
KindTree(arg)          == [Leaf EXCEPT !.kind = "exprKind", !.arg = arg]
NameTree(kind, name)   == [Leaf EXCEPT !.kind = kind, !.name = name]
OrTree(kids, strategy) == [Tree("or", kids) EXCEPT !.arg = strategy]
ListTree(kids, rest)   == [Tree("list", kids) EXCEPT !.rest = rest]
KeyedTree(kind, keys, kids) ==
  [Tree(kind, kids) EXCEPT !.keys = keys,
                           !.needed = [i \in DOMAIN kids |-> kind # "defs"]]
TableTree(keys, kids, policy) == [KeyedTree("table", keys, kids) EXCEPT !.arg = policy]
RepeatTree(body, lo, hi) == [Tree("repeat", <<body>>) EXCEPT !.min = lo, !.max = hi]
CaptureTree(name, body)  == [Tree("capture", <<body>>) EXCEPT !.name = name]
=============================================================================
