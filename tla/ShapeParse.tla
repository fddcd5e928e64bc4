----------------------------- MODULE ShapeParse -----------------------------
(***************************************************************************)
(* parse_shape_expr: a grammar expression becomes a shape, by recursive    *)
(* descent.  Every call of it that is open holds a level of the same       *)
(* SHAPE_DEPTH budget that matching draws on, so what a caller can read    *)
(* depends on what it holds already; the first malformed part or the first *)
(* expression nested too deeply ends the whole parse, and the guards of    *)
(* the calls it leaves are dropped on the way.                             *)
(***************************************************************************)
EXTENDS ShapeTree

CONSTANTS
  Source,     \* grammar expression -> record describing it (PhraseType below)
  Name,       \* the words symbols are made of
  Bare,       \* word -> the word without a leading colon
  Size,       \* grammar expression -> its size: what a list holds is smaller
  MaxDepth,   \* MAX_SHAPE_DEPTH
  Bases       \* the levels of the budget a caller may already hold

Phrase == DOMAIN Source

(* form: symbol, list, number, nil or some other constructor; items: what  *)
(* a list holds; space, name: the two parts of a symbol; num: the count a  *)
(* number is when it is one, None for a negative or fractional number.     *)
PhraseType ==
  [form: {"symbol", "list", "number", "nil", "other"}, items: Seq(Phrase),
   space: {"", "shape", "core", "host"}, name: Name, num: Nat \cup {None}]

ASSUME ParseAssumption ==
  /\ Source \in [Phrase -> PhraseType] /\ None \notin Phrase
  /\ Bare \in [Name -> Name]
  /\ Size \in [Phrase -> Nat]
  /\ \A e \in Phrase : \A i \in DOMAIN Source[e].items : Size[Source[e].items[i]] < Size[e]
  /\ MaxDepth \in Nat
  /\ Bases \subseteq 0..MaxDepth

VARIABLES
  stack,      \* the open calls of parse_shape_expr, outermost first
  ret,        \* what the innermost call returned, or Unread
  depth,      \* SHAPE_DEPTH
  base,       \* the levels the caller holds (never changes)
  asked       \* the expression being read, None between calls

parsing == <<stack, ret, depth, base, asked>>

Unread    == [st |-> "none", shape |-> Leaf]
Malformed == [st |-> "malformed", shape |-> Leaf]
TooDeep   == [st |-> "deep", shape |-> Leaf]
Shaped(t) == [st |-> "ok", shape |-> t]

-----------------------------------------------------------------------------
(* The grammar.                                                            *)

Form(e)   == Source[e].form
Items(e)  == Source[e].items
Arity(e)  == Len(Items(e))
Args(e)   == Tail(Items(e))
Spelt(e)  == Word(Source[e].space, Source[e].name)
IsSymbol(e) == Form(e) = "symbol"
IsList(e)   == Form(e) = "list"

Key(e) == IF Source[e].space = "" THEN Word("", Bare[Source[e].name]) ELSE Spelt(e)

KindWords ==
  {<<"Number", "number">>, <<"String", "string">>, <<"Bool", "bool">>, <<"Symbol", "symbol">>,
   <<"Map", "map">>, <<"List", "list">>, <<"Nil", "nil">>}

Atom(e) ==
  LET kinds == {k \in KindWords : k[1] = Source[e].name} IN
  CASE Source[e].space = "" /\ Source[e].name = "Any" -> Leaf
    [] Source[e].space = "" /\ kinds # {} -> KindTree((CHOOSE k \in kinds : TRUE)[2])
    [] Spelt(e) = Word("core", "Number") -> Tree("number", <<>>)
    [] OTHER -> NameTree("class", Spelt(e))

(* The words of the grammar and what each of them is read as.              *)
Reads ==
  {<<"and", "and">>, <<"all", "and">>, <<"or", "or">>, <<"any", "or">>, <<"not", "not">>,
   <<"none", "not">>, <<"capture", "capture">>, <<"fields", "fields">>, <<"list", "list">>,
   <<"list-rest", "rest">>, <<"repeat", "repeat">>, <<"repeat-bounds", "bounds">>,
   <<"defs", "defs">>, <<"ref", "ref">>, <<"table", "single">>, <<"table-required", "open">>,
   <<"table-open", "open">>, <<"table-closed", "closed">>, <<"without", "without">>,
   <<"difference", "without">>}

HasHead(e) ==
  Items(e) # <<>> /\ IsSymbol(Items(e)[1]) /\ Source[Items(e)[1]].space \in {"", "shape"}

(* A list whose head is no word of the grammar is a tuple of shapes.       *)
Rule(e) ==
  LET rules == IF HasHead(e) THEN {r \in Reads : r[1] = Source[Items(e)[1]].name} ELSE {} IN
  IF rules = {} THEN "tuple" ELSE (CHOOSE r \in rules : TRUE)[2]

(* Under the shape namespace one list argument holds the shapes.           *)
Spread(e) ==
  IF Source[Items(e)[1]].space = "shape" /\ Arity(e) = 2 /\ IsList(Items(e)[2])
  THEN Items(Items(e)[2]) ELSE Args(e)

IsPair(e) == IsList(e) /\ Arity(e) = 2 /\ IsSymbol(Items(e)[1])

(* A table may be given its fields in one list.                            *)
TableFields(e) ==
  IF /\ Arity(e) = 2 /\ IsList(Items(e)[2])
     /\ \A i \in DOMAIN Items(Items(e)[2]) : IsPair(Items(Items(e)[2])[i])
  THEN Items(Items(e)[2]) ELSE Args(e)

BoundsOK(lo, hi) ==
  /\ Form(lo) = "number" /\ Source[lo].num # None
  /\ \/ Form(hi) = "nil"
     \/ Form(hi) = "number" /\ Source[hi].num # None /\ Source[hi].num >= Source[lo].num

(* The expressions a list has to read, in order; None stands where its own *)
(* format is wrong, and nothing after it is looked at.                     *)
If(condition, steps) == IF condition THEN steps ELSE <<None>>
Entries(es) == [i \in DOMAIN es |-> IF IsPair(es[i]) THEN Items(es[i])[2] ELSE None]

StepsBy(rule, at, e) ==
  CASE rule = "tuple" -> at
    [] rule \in {"and", "or", "list"} -> Spread(e)
    [] rule \in {"not", "repeat"} -> If(Len(at) = 2, <<at[2]>>)
    [] rule \in {"capture", "single"} -> If(Len(at) = 3 /\ IsSymbol(at[2]), <<at[3]>>)
    [] rule = "fields" -> Entries(Args(e))
    [] rule \in {"open", "closed"} -> Entries(TableFields(e))
    [] rule = "rest" -> If(Len(at) = 3 /\ IsList(at[2]), Append(Items(at[2]), at[3]))
    [] rule = "bounds" -> If(Len(at) = 4 /\ BoundsOK(at[3], at[4]), <<at[2]>>)
    [] rule = "defs" ->
         If(Len(at) = 3, <<at[3]>> \o If(IsList(at[2]), Entries(Items(at[2]))))
    [] rule = "ref" -> If(Len(at) = 2 /\ IsSymbol(at[2]), <<>>)
    [] rule = "without" -> If(Len(at) = 3, <<at[2], at[3]>>)
Steps(e) == StepsBy(Rule(e), Items(e), e)

KeysOf(es)  == [i \in DOMAIN es |-> Key(Items(es[i])[1])]
WordsOf(es) == [i \in DOMAIN es |-> Spelt(Items(es[i])[1])]
CountOf(e)  == IF Form(e) = "nil" THEN None ELSE Source[e].num

(* The shape made of what was read.                                        *)
BuiltBy(rule, at, e, kids) ==
  CASE rule \in {"tuple", "list"} -> ListTree(kids, <<>>)
    [] rule \in {"and", "not"} -> Tree(rule, kids)
    [] rule = "or" -> OrTree(kids, "first-match")
    [] rule = "capture" -> CaptureTree(Spelt(at[2]), kids[1])
    [] rule = "fields" -> KeyedTree("fields", KeysOf(Args(e)), kids)
    [] rule = "rest" -> ListTree(SubSeq(kids, 1, Len(kids) - 1), <<kids[Len(kids)]>>)
    [] rule = "repeat" -> RepeatTree(kids[1], 0, None)
    [] rule = "bounds" -> RepeatTree(kids[1], CountOf(at[3]), CountOf(at[4]))
    [] rule = "defs" -> KeyedTree("defs", WordsOf(Items(at[2])), kids)
    [] rule = "ref" -> NameTree("ref", Spelt(at[2]))
    [] rule = "single" -> TableTree(<<Key(at[2])>>, kids, "allow")
    [] rule = "open" -> TableTree(KeysOf(TableFields(e)), kids, "allow")
    [] rule = "closed" -> TableTree(KeysOf(TableFields(e)), kids, "reject")
    [] rule = "without" -> Tree("and", <<kids[1], Tree("not", <<kids[2]>>)>>)
Built(e, kids) == BuiltBy(Rule(e), Items(e), e, kids)

-----------------------------------------------------------------------------
(* The descent.                                                            *)

Top == stack[Len(stack)]
Pop(seq) == SubSeq(seq, 1, Len(seq) - 1)

Calling   == stack # <<>> /\ ret.st = "none"
Returning == stack # <<>> /\ ret.st # "none"
Read      == asked # None /\ stack = <<>> /\ ret.st # "none"

(* Mutant: a parse that fails keeps the levels it took.                    *)
ReturnHolding(result) ==
  /\ ret' = result /\ stack' = Pop(stack)
  /\ depth' = IF result.st = "ok" THEN depth - 1 ELSE depth
  /\ UNCHANGED <<base, asked>>

(* A call returns; its DepthGuard is dropped, whatever it returns.         *)
Return(result) ==
  /\ ret' = result /\ stack' = Pop(stack)
  /\ depth' = IF depth > 0 THEN depth - 1 ELSE 0
  /\ UNCHANGED <<base, asked>>

(* parse_shape_expr is called: with the budget spent it answers at once.   *)
Enter(e) ==
  IF depth >= MaxDepth
  THEN ret' = TooDeep /\ UNCHANGED <<stack, depth>>
  ELSE /\ stack' = Append(stack, [expr |-> e, made |-> <<>>])
       /\ depth' = depth + 1
       /\ UNCHANGED ret

Ask(e) == asked = None /\ asked' = e /\ Enter(e) /\ UNCHANGED base

ReadSymbol == Calling /\ IsSymbol(Top.expr) /\ Return(Shaped(Atom(Top.expr)))
ReadOther  == Calling /\ Form(Top.expr) \notin {"symbol", "list"} /\ Return(Malformed)

InList == Calling /\ IsList(Top.expr)
Turn   == Len(Top.made) + 1
Last   == Len(Steps(Top.expr))

ReadPart ==
  /\ InList /\ Turn <= Last /\ Steps(Top.expr)[Turn] # None
  /\ Enter(Steps(Top.expr)[Turn])
  /\ UNCHANGED <<base, asked>>

FindMalformed == InList /\ Turn <= Last /\ Steps(Top.expr)[Turn] = None /\ Return(Malformed)
BuildShape    == InList /\ Turn > Last /\ Return(Shaped(Built(Top.expr, Top.made)))

KeepPart ==
  /\ Returning /\ ret.st = "ok"
  /\ stack' = [stack EXCEPT ![Len(stack)].made = Append(@, ret.shape)]
  /\ ret' = Unread
  /\ UNCHANGED <<depth, base, asked>>

PassError == Returning /\ ret.st # "ok" /\ Return(ret)

ParseStep ==
  \/ ReadSymbol \/ ReadOther \/ ReadPart \/ FindMalformed \/ BuildShape \/ KeepPart \/ PassError

ParseInit ==
  /\ base \in Bases /\ depth = base
  /\ stack = <<>> /\ ret = Unread /\ asked = None

(* The caller takes the result and may ask again.                          *)
Forget == Read /\ asked' = None /\ ret' = Unread /\ UNCHANGED <<stack, depth, base>>

ParseNext == (\E e \in Phrase : Ask(e)) \/ ParseStep \/ Forget
ParseSpec == ParseInit /\ [][ParseNext]_parsing

-----------------------------------------------------------------------------
(* What an expression says, by structural recursion and without a budget:  *)
(* whether every part of it is well formed, whether it nests no deeper     *)
(* than the levels left, and the shape it means, if it means one.          *)
Parts(e) == {Steps(e)[i] : i \in DOMAIN Steps(e)}
Readable(e) == IsList(e) /\ None \notin Parts(e)

WellFormed[e \in Phrase] ==
  IsSymbol(e) \/ (Readable(e) /\ \A part \in Parts(e) : WellFormed[part])

Fits[left \in Nat] ==
  [e \in Phrase |->
     left > 0 /\ (IsList(e) => \A part \in Parts(e) \ {None} : Fits[left - 1][part])]

Meant[e \in Phrase] ==
  CASE IsSymbol(e) -> Atom(e)
    [] Readable(e) -> Built(e, [i \in DOMAIN Steps(e) |-> Meant[Steps(e)[i]]])
    [] OTHER       -> Leaf

-----------------------------------------------------------------------------
(* Each open call reads the part its caller has come to, and the levels in *)
(* use are the caller's and one for every open call: none is lost however  *)
(* a parse ends.                                                           *)
ParseTypeOK ==
  /\ asked \in Phrase \cup {None} /\ ret.st \in {"none", "ok", "malformed", "deep"}
  /\ base \in Bases /\ depth = base + Len(stack) /\ depth <= MaxDepth
  /\ stack # <<>> => stack[1].expr = asked
  /\ \A i \in 1..Len(stack) - 1 :
       LET caller == stack[i] IN stack[i + 1].expr = Steps(caller.expr)[Len(caller.made) + 1]

(* parse_shape_expr says what the grammar says: an expression is read when *)
(* every part of it is well formed and it nests no deeper than what the    *)
(* caller left of the budget, as the shape it means; it is called too deep *)
(* only when it is, malformed only when a part is, and it does not matter  *)
(* what was parsed, or failed to parse, before.                            *)
ReadsGrammar ==
  Read =>
    LET left == MaxDepth - base IN
    /\ ret.st = "ok" <=> WellFormed[asked] /\ Fits[left][asked]
    /\ ret.st = "ok" => ret.shape = Meant[asked]
    /\ ret.st = "malformed" => ~WellFormed[asked]
    /\ ret.st = "deep" => ~Fits[left][asked]
=============================================================================
