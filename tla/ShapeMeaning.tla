---------------------------- MODULE ShapeMeaning ----------------------------
(***************************************************************************)
(* What a check means, stated without a stack: the outcome of a question,  *)
(* a shape on a term with the definition scopes around it and the levels   *)
(* of the recursion budget that are left, as a function of the outcomes of *)
(* the questions it is made of.  It says of the result of each check_value *)
(* and check_expr what it is (every child accepts, the leftmost accepted   *)
(* branch, the best-scoring branch, ...), with sets of children in place   *)
(* of loops and early returns.                                             *)
(***************************************************************************)
EXTENDS ShapeGraph, FiniteSetsExt

Question == [task: Task, scope: Seq(Shape), fuel: Nat]
Asking(t, scope, fuel) == [task |-> t, scope |-> scope, fuel |-> fuel]

-----------------------------------------------------------------------------
(* The questions a question is made of.                                    *)

DefiningScopes(scope, name) == {i \in DOMAIN scope : Defines(scope[i], name)}
Resolved(scope, name) == LastDef(scope[Max(DefiningScopes(scope, name))], name)

(* The places, in a shape's own order, at which it has a child to ask,     *)
(* whatever the children before answer.                                    *)
Places(q) ==
  LET t == q.task IN
  CASE Kind(t) \in LoopKinds /\ (EntryFails(t) \/ Refuses(t)) -> {}
    [] Kind(t) \in LoopKinds /\ ~(EntryFails(t) \/ Refuses(t)) ->
         {i \in 1..LoopLen(t) : Child(t, i) # None}
    [] Kind(t) = "defs" -> {1}
    [] Kind(t) = "ref" ->
         IF q.fuel > 0 /\ DefiningScopes(q.scope, Node[t.shape].name) # {} THEN {1} ELSE {}
    [] Kind(t) = "class" -> IF q.fuel > 0 /\ ClassOpens(t) THEN {1} ELSE {}
    [] OTHER -> {}

(* A definition's body is asked in one more scope; a reference and the     *)
(* instance shape of a class cost one level of the budget.                 *)
Part(q, i) ==
  LET t == q.task IN
  CASE Kind(t) = "defs" ->
         Asking(Job(Kids(t)[1], t.expr, t.path), Append(q.scope, t.shape), q.fuel)
    [] Kind(t) = "ref" ->
         Asking(Job(Resolved(q.scope, Node[t.shape].name), t.expr, t.path), q.scope, q.fuel - 1)
    [] Kind(t) = "class" -> Asking(Job(Kids(t)[1], t.expr, "expr"), q.scope, q.fuel - 1)
    [] OTHER -> Asking(Child(t, i), q.scope, q.fuel)

-----------------------------------------------------------------------------
(* What the outcomes of the children, rs[i] at place i, make together.     *)

With(r, name, e, k) ==
  IF r.st = "accept" THEN Accept(r.score, Append(r.caps, Bind(name, e, k))) ELSE r

(* Accepted outcomes up to a place: the scores add up, the captures follow *)
(* one another.                                                            *)
Together(base, rs) ==
  LET upTo[n \in Nat] ==
        IF n = 0 THEN Accept(base, <<>>)
        ELSE LET before == upTo[n - 1] IN
             IF n \notin DOMAIN rs THEN before
             ELSE Accept(before.score + rs[n].score, before.caps \o rs[n].caps)
  IN upTo

(* Every child up to a place must accept: the first that does not decides. *)
Every(base, rs, n) ==
  LET bad == {i \in DOMAIN rs : i <= n /\ rs[i].st # "accept"} IN
  IF bad # {} THEN rs[Min(bad)] ELSE Together(base, rs)[n]

(* The first child that accepts or fails decides, if one does.             *)
Deciding(rs) == {i \in DOMAIN rs : rs[i].st # "reject"}

(* The accepted branches no other accepted branch outscores.               *)
Best(rs) ==
  LET good == {i \in DOMAIN rs : rs[i].st = "accept"} IN
  {i \in good : \A j \in good : rs[j].score <= rs[i].score}

Extras(t) == {i \in DOMAIN Keys(t) : Keys(t)[i] \notin FieldKeys(t)}
Absent(t) == {i \in DOMAIN Kids(t) : Missing(t, i)}
Failing(r) == IF r.st = "accept" THEN Reject ELSE r

(* The tail of a list value is looked at up to the first element that a    *)
(* total rest accepts without binding anything.                            *)
Looked(t, rs) ==
  LET unbound == {i \in DOMAIN rs : i > Len(Kids(t)) /\ rs[i].st = "accept" /\ rs[i].caps = <<>>}
  IN IF t.path = "value" /\ unbound # {} /\ Total[Node[t.shape].rest]
     THEN Min(unbound) ELSE LoopLen(t)

(* A table's own fields decide before its other keys are looked at.        *)
TableOutcome(t, rs) ==
  LET fields == Every(20, rs, Len(Kids(t))) IN
  IF fields.st # "accept" THEN fields
  ELSE IF Absent(t) # {} \/ (Node[t.shape].extra = "reject" /\ Extras(t) # {}) THEN Reject
  ELSE With(Every(20, rs, LoopLen(t)), "matched-keys", t.expr, 0)

(* The fields before a missing one are looked at, then it rejects.         *)
FieldsOutcome(t, rs) ==
  IF Absent(t) = {} THEN Every(20, rs, LoopLen(t))
  ELSE Failing(Every(20, rs, Min(Absent(t)) - 1))

RepeatOutcome(t, rs) ==
  LET all == Every(20, rs, LoopLen(t)) IN
  IF all.st # "accept" \/ RepeatInBounds(t)
  THEN With(all, "repeat-count", t.expr, Len(Items(t))) ELSE Reject

CellOutcome(t, rs) ==
  IF CellIsNull(t) THEN Accept(80, <<>>)
  ELSE LET all == Every(20, rs, 1)  name == Node[t.shape].name IN
       IF name = None THEN all ELSE With(all, name, CellChild(t).expr, 0)

RowOutcome(t, rs) ==
  LET all == Every(0, rs, LoopLen(t)) IN
  IF all.st = "accept" THEN Accept(100, all.caps) ELSE all

OrOutcome(t, rs) ==
  IF Deciding(rs) = {} THEN Reject
  ELSE LET first == Min(Deciding(rs)) IN
       IF Kind(t) = "or" THEN With(rs[first], "branch-index", t.expr, first) ELSE rs[first]

BestOutcome(t, rs) ==
  IF \E i \in DOMAIN rs : rs[i].st = "error" THEN Error
  ELSE IF Best(rs) = {} THEN Reject
  ELSE LET best == Min(Best(rs)) IN With(rs[best], "branch-index", t.expr, best)

NotOutcome(t, r) ==
  CASE r.st = "accept" -> Reject
    [] r.st = "reject" -> With(Accept(10, <<>>), "negated", t.expr, 0)
    [] OTHER -> Error

ClassOutcome(t, rs) ==
  IF ~ClassOpens(t) THEN ClassDirect(t)
  ELSE IF DOMAIN rs = {} THEN Reject
  ELSE IF rs[1].st = "accept" THEN Accept(30, <<>>) ELSE rs[1]

LoopOutcome(t, rs) ==
  LET n == Node[t.shape] IN
  CASE n.kind = "and"    -> Every(IF n.kids = <<>> THEN 0 ELSE 10, rs, LoopLen(t))
    [] n.kind = "list"   -> Every(20, rs, Looked(t, rs))
    [] n.kind = "repeat" -> RepeatOutcome(t, rs)
    [] n.kind = "table"  -> TableOutcome(t, rs)
    [] n.kind = "fields" -> FieldsOutcome(t, rs)
    [] n.kind = "cell"   -> CellOutcome(t, rs)
    [] n.kind = "row"    -> RowOutcome(t, rs)
    [] n.kind \in AnyKinds -> OrOutcome(t, rs)
    [] n.kind = "best"   -> BestOutcome(t, rs)
    [] n.kind = "not"    -> NotOutcome(t, rs[1])
    [] n.kind = "capture" -> With(rs[1], n.name, t.expr, 0)
    [] OTHER             -> rs[1]

Outcome(t, rs) ==
  CASE Kind(t) \in LeafKinds -> LeafResult(t)
    [] Kind(t) \in LoopKinds -> IF EntryFails(t) THEN Error
                                ELSE IF Refuses(t) THEN Reject ELSE LoopOutcome(t, rs)
    [] Kind(t) = "defs" -> rs[1]
    [] Kind(t) = "ref"  -> IF DOMAIN rs = {} THEN Reject ELSE rs[1]
    [] OTHER            -> ClassOutcome(t, rs)

Meaning[q \in Question] ==
  Outcome(q.task, [i \in Places(q) |-> Meaning[Part(q, i)]])

=============================================================================
