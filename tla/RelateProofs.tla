---------------------------- MODULE RelateProofs ----------------------------
(***************************************************************************)
(* Comparing shapes, for every graph of shapes and every list of terms:    *)
(* what is reported as proven holds of every term.  The subshape relation  *)
(* is shown to imply inclusion rule by rule, each rule from the inclusions *)
(* it asks for; a least pair of shapes for which it failed does not exist. *)
(* Shapes of one normal form keep each other's verdicts where the form     *)
(* describes one of them completely, so separated shapes are disjoint.     *)
(***************************************************************************)
EXTENDS Relate, ShapeMeaningProofs

-----------------------------------------------------------------------------
(* The recursive definitions have a solution.                              *)

(* A definition of functions on D whose value at x depends only on values  *)
(* at smaller places, and a function it defines.                           *)
Shrinks(D, V, size, Def) ==
  /\ V # {} /\ size \in [D -> Nat] /\ Def \in [[D -> V] \X D -> V]
  /\ \A f, g \in [D -> V], x \in D :
       (\A y \in D : size[y] < size[x] => f[y] = g[y]) => Def[<<f, x>>] = Def[<<g, x>>]
Solved(D, V, Def) == \E f : f = [x \in D |-> Def[<<f, x>>]] /\ f \in [D -> V]

(* It defines one.                                                         *)
LEMMA Recursion ==
  ASSUME NEW D, NEW V, NEW size, NEW Def, Shrinks(D, V, size, Def)
  PROVE  Solved(D, V, Def)
<1> USE DEF Shrinks
<1> DEFINE Solves(f, n) == f \in [D -> V] /\ \A x \in D : size[x] < n => f[x] = Def[<<f, x>>]
           Stage(f) == [x \in D |-> Def[<<f, x>>]]
<1>1. \A f \in [D -> V] : Stage(f) \in [D -> V]
      OBVIOUS
<1>2. \A n \in Nat : \E f : Solves(f, n)
  <2> DEFINE Lost == {n \in Nat : ~\E f : Solves(f, n)}
  <2>1. SUFFICES ASSUME NEW n \in Lost, \A m \in Lost : n <= m
                 PROVE  FALSE
    <3> HIDE DEF Solves
    <3> QED BY FirstPlace
  <2>2. CASE n = 0
    <3>1. PICK v \in V : TRUE
          OBVIOUS
    <3>2. Solves([x \in D |-> v], 0)
          BY <3>1
    <3> HIDE DEF Solves
    <3> QED BY <2>1, <2>2, <3>2
  <2>3. CASE n > 0
    <3>1. PICK f : Solves(f, n - 1)
      <4> HIDE DEF Solves
      <4>1. n - 1 \in Nat /\ n - 1 \notin Lost
            BY <2>1, <2>3
      <4> QED BY <4>1
    <3>2. Solves(Stage(f), n)
      <4>1. SUFFICES ASSUME NEW x \in D, size[x] < n
                     PROVE  Stage(f)[x] = Def[<<Stage(f), x>>]
            BY <1>1, <3>1
      <4>2. \A y \in D : size[y] < size[x] => Stage(f)[y] = f[y]
            BY <3>1, <4>1
      <4> QED BY <1>1, <3>1, <4>2
    <3> HIDE DEF Solves
    <3> QED BY <2>1, <3>2
  <2> QED BY <2>1, <2>2, <2>3
<1>3. ASSUME NEW m \in Nat, NEW n \in Nat, NEW f, NEW g, Solves(f, m), Solves(g, n),
             NEW x \in D, size[x] < m, size[x] < n
      PROVE  f[x] = g[x]
  <2>1. SUFFICES ASSUME f[x] # g[x] PROVE FALSE
        OBVIOUS
  <2> DEFINE T == {k \in Nat : \E y \in D : size[y] = k /\ k < m /\ k < n /\ f[y] # g[y]}
  <2>2. size[x] \in T
        BY <1>3, <2>1
  <2>3. PICK k \in T : \A j \in T : k <= j
        BY <2>2, FirstPlace
  <2>4. PICK y \in D : size[y] = k /\ k < m /\ k < n /\ f[y] # g[y]
        BY <2>3
  <2>5. \A z \in D : size[z] < size[y] => f[z] = g[z]
        BY <2>3, <2>4
  <2>6. f[y] = Def[<<f, y>>] /\ g[y] = Def[<<g, y>>] /\ f \in [D -> V] /\ g \in [D -> V]
        BY <1>3, <2>4
  <2> HIDE DEF Solves, T
  <2>7. Def[<<f, y>>] = Def[<<g, y>>]
        BY <2>5, <2>6
  <2> QED BY <2>4, <2>6, <2>7
<1> DEFINE At(n) == CHOOSE f : Solves(f, n)
           F == [x \in D |-> At(size[x] + 1)[x]]
<1>4. \A n \in Nat : Solves(At(n), n)
  <2> HIDE DEF Solves
  <2> QED BY <1>2
<1> HIDE DEF At
<1>5. F \in [D -> V]
      BY <1>4
<1>6. ASSUME NEW x \in D PROVE F[x] = Def[<<F, x>>]
  <2> DEFINE f == At(size[x] + 1)
  <2>1. size[x] + 1 \in Nat /\ Solves(f, size[x] + 1)
    <3>1. size[x] + 1 \in Nat
          OBVIOUS
    <3> HIDE DEF Solves
    <3> QED BY <1>4, <3>1
  <2>2. ASSUME NEW y \in D, size[y] < size[x] PROVE F[y] = f[y]
    <3>1. size[y] + 1 \in Nat /\ size[y] < size[y] + 1 /\ size[y] < size[x] + 1
          BY <2>2
    <3>2. Solves(At(size[y] + 1), size[y] + 1)
          BY <1>4, <3>1
    <3> HIDE DEF Solves
    <3>3. At(size[y] + 1)[y] = f[y]
          BY <1>3, <2>1, <3>1, <3>2
    <3> QED BY <3>3
  <2>3. F[x] = f[x]
        OBVIOUS
  <2> HIDE DEF F, f
  <2>4. size[x] < size[x] + 1
        OBVIOUS
  <2>5. f[x] = Def[<<f, x>>] /\ f \in [D -> V]
        BY <2>1, <2>4
  <2> QED BY <1>5, <2>2, <2>3, <2>5
<1>7. F = [x \in D |-> Def[<<F, x>>]]
  <2> HIDE DEF F
  <2> QED BY <1>5, <1>6
<1> QED BY <1>5, <1>7 DEF Solved

-----------------------------------------------------------------------------
(* The subshape rules ask for inclusions of smaller pairs.                 *)

(* What a shape is built of, by its fields.                                *)
LEMMA ShapeParts ==
  ASSUME NEW s \in Shape
  PROVE  /\ Node[s] \in NodeType /\ NodeOK(Node[s]) /\ Node[s].kind = KindOf(s)
         /\ KidsOf(s) = Node[s].kids /\ Len(KidsOf(s)) \in Nat
         /\ Positions(s) = 1..Len(KidsOf(s))
         /\ \A i \in Positions(s) : KidsOf(s)[i] \in Shape
         /\ Node[s].rest # None => Node[s].rest \in Shape
         /\ Height[s] \in Nat
         /\ KindOf(s) \notin {"ref", "class"} =>
              /\ \A i \in Positions(s) : Height[KidsOf(s)[i]] \in Nat /\ Height[KidsOf(s)[i]] < Height[s]
              /\ Node[s].rest # None =>
                   Height[Node[s].rest] \in Nat /\ Height[Node[s].rest] < Height[s]
<1>1. Node[s] \in NodeType /\ NodeOK(Node[s])
      BY GraphAssumption DEF GraphAssumption, GraphOK
<1>2. /\ KidsOf(s) = Node[s].kids /\ Node[s].kind = KindOf(s)
      /\ KidsOf(s) \in Seq(Shape) /\ Node[s].rest \in Shape \cup {None}
      BY <1>1 DEF NodeType, KidsOf, KindOf
<1>3. Len(KidsOf(s)) \in Nat /\ Positions(s) = 1..Len(KidsOf(s))
      BY <1>2, LenProperties DEF Positions
<1>4. \A i \in Positions(s) : KidsOf(s)[i] \in Shape
      BY <1>2, <1>3, ElementOfSeq
<1>5. Height \in [Shape -> Nat] /\ \A part \in Below(s) : Height[part] < Height[s]
      BY HeightAssumption
<1>6. ASSUME KindOf(s) \notin {"ref", "class"}
      PROVE  /\ \A i \in Positions(s) : KidsOf(s)[i] \in Below(s)
             /\ Node[s].rest # None => Node[s].rest \in Below(s)
      BY <1>2, <1>6 DEF Below, Positions
<1> QED BY <1>1, <1>2, <1>3, <1>4, <1>5, <1>6

(* The rule of a shape, by its kind.                                       *)
LEMMA OwnRuleCases ==
  ASSUME NEW a, NEW b
  PROVE  /\ KindOf(a) = "exprKind" => OwnRule(a, b) = ExprKindRule(a, b)
         /\ KindOf(a) = "exact" => OwnRule(a, b) = ExactRule(a, b)
         /\ KindOf(a) = "class" => OwnRule(a, b) = ClassRule(a, b)
         /\ KindOf(a) = "and" => OwnRule(a, b) = AndRule(a, b)
         /\ KindOf(a) \in {"or", "best", "oneOf"} => OwnRule(a, b) = OrRule(a, b)
         /\ KindOf(a) = "not" => OwnRule(a, b) = NotRule(a, b)
         /\ KindOf(a) = "capture" => OwnRule(a, b) = {{<<KidsOf(a)[1], b>>}}
         /\ KindOf(a) = "effectful" => OwnRule(a, b) = WrapperRule(a, b)
         /\ KindOf(a) = "list" => OwnRule(a, b) = ListRule(a, b)
         /\ KindOf(a) = "repeat" => OwnRule(a, b) = RepeatRule(a, b)
         /\ KindOf(a) = "table" => OwnRule(a, b) = TableRule(a, b)
         /\ KindOf(a) \notin {"exprKind", "exact", "class", "and", "or", "best", "oneOf", "not",
                              "capture", "effectful", "list", "repeat", "table"}
              => OwnRule(a, b) = {}
<1>1. KindOf(a) = "exprKind" => OwnRule(a, b) = ExprKindRule(a, b)
      BY Zenon DEF OwnRule
<1>2. KindOf(a) = "exact" => OwnRule(a, b) = ExactRule(a, b)
      BY Zenon DEF OwnRule
<1>3. KindOf(a) = "class" => OwnRule(a, b) = ClassRule(a, b)
      BY Zenon DEF OwnRule
<1>4. KindOf(a) = "and" => OwnRule(a, b) = AndRule(a, b)
      BY Zenon DEF OwnRule
<1>5. KindOf(a) \in {"or", "best", "oneOf"} => OwnRule(a, b) = OrRule(a, b)
      BY Zenon DEF OwnRule
<1>6. KindOf(a) = "not" => OwnRule(a, b) = NotRule(a, b)
      BY Zenon DEF OwnRule
<1>7. KindOf(a) = "capture" => OwnRule(a, b) = {{<<KidsOf(a)[1], b>>}}
      BY Zenon DEF OwnRule
<1>8. KindOf(a) = "effectful" => OwnRule(a, b) = WrapperRule(a, b)
      BY Zenon DEF OwnRule
<1>9. KindOf(a) = "list" => OwnRule(a, b) = ListRule(a, b)
      BY Zenon DEF OwnRule
<1>10. KindOf(a) = "repeat" => OwnRule(a, b) = RepeatRule(a, b)
      BY Zenon DEF OwnRule
<1>11. KindOf(a) = "table" => OwnRule(a, b) = TableRule(a, b)
      BY Zenon DEF OwnRule
<1>12. KindOf(a) \notin {"exprKind", "exact", "class", "and", "or", "best", "oneOf", "not",
                         "capture", "effectful", "list", "repeat", "table"}
         => OwnRule(a, b) = {}
      BY Zenon DEF OwnRule
<1> QED BY <1>1, <1>2, <1>3, <1>4, <1>5, <1>6, <1>7, <1>8, <1>9, <1>10, <1>11, <1>12

PairSize == [pair \in Shape \X Shape |-> Height[pair[1]] + Height[pair[2]]]

(* What a table says of a field has the shapes of its fields and its rest. *)
LEMMA FieldPlace ==
  ASSUME NEW s \in Shape, NEW key
  PROVE  /\ FieldAt(s, key) # 0 =>
              /\ FieldAt(s, key) \in Positions(s) /\ Node[s].keys[FieldAt(s, key)] = key
              /\ \A i \in Positions(s) : Node[s].keys[i] = key => FieldAt(s, key) <= i
         /\ FieldAt(s, key) = 0 => \A i \in Positions(s) : Node[s].keys[i] # key
<1> DEFINE at == {i \in Positions(s) : Node[s].keys[i] = key}
<1>1. FieldAt(s, key) = IF at = {} THEN 0 ELSE Min(at)
      BY DEF FieldAt
<1>2. at \in SUBSET Nat /\ 0 \notin at
      BY ShapeParts
<1>3. CASE at = {}
      BY <1>1, <1>3
<1>4. CASE at # {}
  <2>1. Min(at) \in at /\ \A i \in at : Min(at) <= i
    <3> HIDE DEF at
    <3> QED BY <1>2, <1>4, MinIs
  <2> QED BY <1>1, <1>2, <1>4, <2>1
<1> QED BY <1>3, <1>4

LEMMA PremisesSmaller ==
  ASSUME NEW a \in Shape, NEW b \in Shape, NEW premises \in OwnRule(a, b), NEW p \in premises
  PROVE  p \in Shape \X Shape /\ PairSize[p] < PairSize[<<a, b>>]
<1> DEFINE Deeper(x, s) == x \in Shape /\ Height[x] < Height[s]
<1>1. /\ Height[a] \in Nat /\ Height[b] \in Nat
      /\ \A x \in Shape : Height[x] \in Nat
      BY ShapeParts
<1>2. ASSUME NEW x, NEW y, p = <<x, y>>,
             \/ Deeper(x, a) /\ (y = b \/ Deeper(y, b))
             \/ Deeper(x, b) /\ Deeper(y, a)
      PROVE  p \in Shape \X Shape /\ PairSize[p] < PairSize[<<a, b>>]
  <2>1. x \in Shape /\ y \in Shape /\ Height[x] + Height[y] < Height[a] + Height[b]
        BY <1>1, <1>2
  <2>2. /\ p \in Shape \X Shape /\ PairSize[p] = Height[x] + Height[y]
        /\ PairSize[<<a, b>>] = Height[a] + Height[b]
        BY <1>2, <2>1 DEF PairSize
  <2> QED BY <2>1, <2>2
<1>3. ASSUME NEW s \in {a, b}, KindOf(s) \notin {"ref", "class"}
      PROVE  /\ \A i \in Positions(s) : Deeper(KidsOf(s)[i], s)
             /\ Node[s].rest # None => Deeper(Node[s].rest, s)
      BY <1>3, ShapeParts
<1> HIDE DEF Deeper
<1>4. CASE KindOf(a) \in {"exprKind", "exact", "class"}
  <2>1. premises = {}
        BY <1>4, OwnRuleCases DEF ExprKindRule, ExactRule, ClassRule, When
  <2> QED BY <2>1
<1>5. CASE KindOf(a) = "and"
  <2>1. CASE premises \in {{<<KidsOf(a)[i], b>>} : i \in Positions(a)}
    <3>1. PICK i \in Positions(a) : p = <<KidsOf(a)[i], b>>
          BY <2>1
    <3> QED BY <1>2, <1>3, <1>5, <3>1
  <2>2. CASE premises \notin {{<<KidsOf(a)[i], b>>} : i \in Positions(a)}
    <3>1. KindOf(b) = "and"
          /\ premises \in {{<<KidsOf(a)[f[j]], KidsOf(b)[j]>> : j \in Positions(b)} :
                             f \in [Positions(b) -> Positions(a)]}
          BY <1>5, <2>2, OwnRuleCases DEF AndRule
    <3>2. PICK f \in [Positions(b) -> Positions(a)], j \in Positions(b) :
            p = <<KidsOf(a)[f[j]], KidsOf(b)[j]>>
          BY <3>1
    <3>3. f[j] \in Positions(a)
          BY <3>2
    <3> QED BY <1>2, <1>3, <1>5, <3>1, <3>2, <3>3
  <2> QED BY <2>1, <2>2
<1>6. CASE KindOf(a) \in {"or", "best", "oneOf"}
  <2>1. PICK i \in Positions(a) : p = <<KidsOf(a)[i], b>>
        BY <1>6, OwnRuleCases DEF OrRule
  <2> QED BY <1>2, <1>3, <1>6, <2>1
<1>7. CASE KindOf(a) = "not"
  <2>1. KindOf(b) = "not" /\ p = <<KidsOf(b)[1], KidsOf(a)[1]>>
        BY <1>7, OwnRuleCases DEF NotRule, When
  <2>2. 1 \in Positions(a) /\ 1 \in Positions(b)
        BY <1>7, <2>1, ShapeParts DEF NodeOK
  <2> QED BY <1>2, <1>3, <1>7, <2>1, <2>2
<1>8. CASE KindOf(a) = "capture"
  <2>1. p = <<KidsOf(a)[1], b>> /\ 1 \in Positions(a)
        BY <1>8, OwnRuleCases, ShapeParts DEF NodeOK, WrapKinds
  <2> QED BY <1>2, <1>3, <1>8, <2>1
<1>9. CASE KindOf(a) \in {"effectful", "list", "repeat"}
  <2>1. KindOf(a) = KindOf(b) /\ premises = Pairwise(a, b)
        BY <1>9, OwnRuleCases DEF WrapperRule, ListRule, RepeatRule, SameKind, When
  <2>2. CASE p \in {<<KidsOf(a)[i], KidsOf(b)[i]>> : i \in Positions(a) \cap Positions(b)}
        BY <1>2, <1>3, <1>9, <2>1, <2>2
  <2>3. CASE p \in ({Node[a].rest} \ {None}) \X ({Node[b].rest} \ {None})
        BY <1>2, <1>3, <1>9, <2>1, <2>3
  <2> QED BY <2>1, <2>2, <2>3 DEF Pairwise
<1>10. CASE KindOf(a) = "table"
  <2> DEFINE U == UNION {ParentFieldPremises(a, b, j) : j \in Positions(b)}
             S == {<<KidsOf(a)[i], Node[b].rest>> : i \in NewFields(a, b)}
             R == {<<x, Node[b].rest>> : x \in {Node[a].rest} \ {None}}
  <2> DEFINE applies == /\ SameKind(a, b)
                        /\ \A j \in Positions(b) : ParentFieldCompatible(a, b, j)
                        /\ Node[b].extra = "reject" => NewFields(a, b) = {}
                        /\ ExtraAtLeastAsStrict(a, b)
  <2>1. KindOf(b) = "table" /\ p \in U \cup IF Node[b].extra # "shape" THEN {} ELSE S \cup R
    <3>1. OwnRule(a, b) = When(applies, U \cup IF Node[b].extra # "shape" THEN {} ELSE S \cup R)
      <4>1. OwnRule(a, b) = TableRule(a, b)
            BY <1>10, OwnRuleCases
      <4>2. TableRule(a, b) = When(applies, U \cup IF Node[b].extra # "shape" THEN {} ELSE S \cup R)
            BY DEF TableRule
      <4> QED BY <4>1, <4>2
    <3>2. applies => KindOf(b) = "table"
          BY <1>10 DEF SameKind
    <3> HIDE DEF applies, U, S, R
    <3> QED BY <3>1, <3>2 DEF When
  <2>2. CASE p \in U
    <3>1. PICK j \in Positions(b) : p \in ParentFieldPremises(a, b, j)
          BY <2>2
    <3> DEFINE i == FieldAt(a, Node[b].keys[j])
    <3>2. CASE i # 0
      <4>1. p = <<KidsOf(a)[i], KidsOf(b)[j]>> /\ i \in Positions(a)
            BY <3>1, <3>2, FieldPlace DEF ParentFieldPremises
      <4> QED BY <1>2, <1>3, <1>10, <2>1, <4>1
    <3>3. CASE i = 0
      <4>1. Node[a].rest # None /\ p = <<Node[a].rest, KidsOf(b)[j]>>
            BY <3>1, <3>3 DEF ParentFieldPremises
      <4> QED BY <1>2, <1>3, <1>10, <2>1, <4>1
    <3> QED BY <3>2, <3>3
  <2>3. CASE Node[b].extra = "shape" /\ (p \in S \/ p \in R)
    <3>1. Node[b].rest # None /\ NewFields(a, b) \subseteq Positions(a)
          BY <2>1, <2>3, ShapeParts DEF NodeOK, NewFields
    <3> HIDE DEF U
    <3> QED BY <1>2, <1>3, <1>10, <2>1, <2>3, <3>1
  <2> HIDE DEF U, S, R
  <2> QED BY <2>1, <2>2, <2>3
<1>11. CASE KindOf(a) \notin {"exprKind", "exact", "class", "and", "or", "best", "oneOf", "not",
                              "capture", "effectful", "list", "repeat", "table"}
       BY <1>11, OwnRuleCases
<1> QED BY <1>4, <1>5, <1>6, <1>7, <1>8, <1>9, <1>10, <1>11

(* A pair is in the relation when the kernel or a rule of the smaller      *)
(* shape says so.                                                          *)
LEMMA SubshapeEquation ==
  ASSUME NEW a \in Shape, NEW b \in Shape
  PROVE  Subshape[<<a, b>>] <=>
           \/ BelowAny(a, b)
           \/ \E premises \in OwnRule(a, b) : \A p \in premises : Subshape[p]
<1> DEFINE D == Shape \X Shape
           Body(f, pair) == \/ BelowAny(pair[1], pair[2])
                            \/ \E premises \in OwnRule(pair[1], pair[2]) : \A p \in premises : f[p]
           Def == [fx \in [D -> BOOLEAN] \X D |-> Body(fx[1], fx[2])]
<1>1. ASSUME NEW f \in [D -> BOOLEAN], NEW g \in [D -> BOOLEAN], NEW x \in D,
             \A y \in D : PairSize[y] < PairSize[x] => f[y] = g[y]
      PROVE  Body(f, x) = Body(g, x)
  <2>1. x[1] \in Shape /\ x[2] \in Shape /\ x = <<x[1], x[2]>>
        OBVIOUS
  <2>2. \A premises \in OwnRule(x[1], x[2]) : \A p \in premises : f[p] = g[p]
        BY <1>1, <2>1, PremisesSmaller
  <2> QED BY <2>2
<1> HIDE DEF Body
<1>2. \A f, x : Body(f, x) \in BOOLEAN
      BY DEF Body
<1>3. Def \in [[D -> BOOLEAN] \X D -> BOOLEAN]
      BY <1>2
<1>4. PairSize \in [D -> Nat]
  <2>1. \A s \in Shape : Height[s] \in Nat
        BY ShapeParts
  <2> QED BY <2>1 DEF PairSize
<1>5. \A f \in [D -> BOOLEAN], x \in D : Def[<<f, x>>] = Body(f, x)
      OBVIOUS
<1> HIDE DEF Def, D
<1>6. Shrinks(D, BOOLEAN, PairSize, Def)
  <2>1. \A g, h \in [D -> BOOLEAN], x \in D :
          (\A y \in D : PairSize[y] < PairSize[x] => g[y] = h[y]) => Def[<<g, x>>] = Def[<<h, x>>]
        BY <1>1, <1>5
  <2> QED BY <1>3, <1>4, <2>1 DEF Shrinks
<1>7. PICK f : f = [x \in D |-> Def[<<f, x>>]] /\ f \in [D -> BOOLEAN]
      BY <1>6, Recursion DEF Solved
<1>8. f = [x \in D |-> Body(f, x)]
      BY <1>5, <1>7
<1>9. Subshape = [x \in D |-> Body(Subshape, x)]
      BY <1>8 DEF Subshape, Body, D
<1>10. <<a, b>> \in D
       BY DEF D
<1>11. Subshape[<<a, b>>] = Body(Subshape, <<a, b>>)
       BY <1>9, <1>10
<1> QED BY <1>11 DEF Body

-----------------------------------------------------------------------------
(* What a shape makes of a term.                                           *)

Ask(s, e, p) == Asking(Job(s, e, p), <<>>, Fuel)
Status(s, e, p) == Meaning[Ask(s, e, p)].st

LEMMA Asked ==
  ASSUME NEW s \in Shape, NEW e \in Expr, NEW p \in Paths
  PROVE  LET q == Ask(s, e, p)  t == Job(s, e, p) IN
         /\ q \in Question /\ q.task = t /\ q.fuel = Fuel
         /\ t \in Task /\ t.shape = s /\ t.expr = e /\ t.path = p
         /\ Kind(t) = KindOf(s) /\ Kids(t) = KidsOf(s)
         /\ Meaning[q] = Outcome(t, Outcomes(q)) /\ Decided(Meaning[q])
         /\ Status(s, e, p) = Outcome(t, Outcomes(q)).st
         /\ Status(s, e, p) \in {"accept", "reject", "error"}
         /\ DOMAIN Outcomes(q) = Places(q) /\ Places(q) \subseteq Nat \ {0}
<1> DEFINE q == Ask(s, e, p)
           t == Job(s, e, p)
<1>1. t \in Task /\ t.shape = s /\ t.expr = e /\ t.path = p
      BY JobTyped DEF Job
<1>2. q \in Question /\ q.task = t /\ q.fuel = Fuel
      BY <1>1, RelateAssumption DEF Ask, Asking, Question
<1>3. Kind(t) = KindOf(s) /\ Kids(t) = KidsOf(s)
      BY <1>1 DEF Kind, Kids, KindOf, KidsOf
<1>4. Meaning[q] = Outcome(t, Outcomes(q)) /\ Decided(Meaning[q])
      BY <1>2, MeaningEquation, MeaningDecided DEF Outcomes
<1>5. DOMAIN Outcomes(q) = Places(q) /\ Places(q) \subseteq Nat \ {0}
      BY <1>2, PlacesTyped
<1>6. Status(s, e, p) = Meaning[q].st
      BY DEF Status
<1> HIDE DEF q, t
<1>7. Meaning[q].st \in {"accept", "reject", "error"}
      BY <1>4 DEF Decided
<1> QED BY <1>1, <1>2, <1>3, <1>4, <1>5, <1>6, <1>7 DEF q, t

(* The children an entered loop asks are asked with the same budget and no *)
(* definitions around them.                                                *)
LEMMA ChildAsked ==
  ASSUME NEW s \in Shape, NEW e \in Expr, NEW p \in Paths,
         KindOf(s) \in LoopKinds, Open(Job(s, e, p))
  PROVE  LET q == Ask(s, e, p)  t == Job(s, e, p) IN
         /\ LoopLen(t) \in Nat
         /\ Places(q) = {i \in 1..LoopLen(t) : Child(t, i) # None}
         /\ \A i \in Places(q) :
              LET c == Child(t, i) IN
              /\ c.shape \in Shape /\ c.expr \in Expr /\ c.path \in Paths
              /\ Decided(Outcomes(q)[i])
              /\ Outcomes(q)[i].st = Status(c.shape, c.expr, c.path)
<1> DEFINE q == Ask(s, e, p)
           t == Job(s, e, p)
<1>1. q \in Question /\ q.task = t /\ t \in Task /\ Kind(t) \in LoopKinds /\ Open(t)
      BY Asked
<1>2. q.scope = <<>> /\ q.fuel = Fuel
      BY DEF Ask, Asking
<1> HIDE DEF q, t
<1>3. LoopLen(t) \in Nat /\ Places(q) = {i \in 1..LoopLen(t) : Child(t, i) # None}
      BY <1>1, LoopLenTyped, PlacesCases
<1>4. ASSUME NEW i \in Places(q)
      PROVE  LET c == Child(t, i) IN
             /\ c.shape \in Shape /\ c.expr \in Expr /\ c.path \in Paths
             /\ Decided(Outcomes(q)[i])
             /\ Outcomes(q)[i].st = Status(c.shape, c.expr, c.path)
  <2> DEFINE c == Child(t, i)
  <2>1. i \in Nat \ {0} /\ i <= LoopLen(t) /\ c # None
        BY <1>3
  <2>2. c \in Task
        BY <1>1, <2>1, ChildTyped
  <2>3. Part(q, i) = Asking(c, <<>>, Fuel)
        BY <1>1, <1>2, PartCases
  <2> HIDE DEF c
  <2>4. c.shape \in Shape /\ c.expr \in Expr /\ c.path \in Paths /\ c = Job(c.shape, c.expr, c.path)
        BY <2>2 DEF Task, Job
  <2>5. Part(q, i) = Ask(c.shape, c.expr, c.path)
        BY <2>3, <2>4 DEF Ask
  <2>6. Outcomes(q)[i] = Meaning[Part(q, i)]
        BY DEF Outcomes
  <2>7. Decided(Meaning[Ask(c.shape, c.expr, c.path)])
        BY <2>4, Asked
  <2> QED BY <2>4, <2>5, <2>6, <2>7 DEF Status, c
<1> QED BY <1>3, <1>4 DEF q, t

Included(a, b) ==
  \A e \in Expr, p \in Paths : Status(a, e, p) = "accept" => Status(b, e, p) # "reject"
NeverRejects(s) == \A e \in Expr, p \in Paths : Status(s, e, p) # "reject"

(* A combinator of its own term's checks asks every child on the term.     *)
LEMMA Branches ==
  ASSUME NEW s \in Shape, NEW e \in Expr, NEW p \in Paths,
         KindOf(s) \in {"and", "or", "oneOf", "best", "not", "capture", "effectful"}
  PROVE  LET q == Ask(s, e, p)  t == Job(s, e, p) IN
         /\ KindOf(s) \in LoopKinds /\ Open(t) /\ LoopLen(t) = Len(KidsOf(s)) /\ LoopLen(t) \in Nat
         /\ Outcome(t, Outcomes(q)) = LoopOutcome(t, Outcomes(q))
         /\ Places(q) = Positions(s)
         /\ \A i \in Positions(s) :
              /\ i \in Nat /\ KidsOf(s)[i] \in Shape
              /\ Decided(Outcomes(q)[i])
              /\ Outcomes(q)[i].st = Status(KidsOf(s)[i], e, p)
<1> DEFINE q == Ask(s, e, p)
           t == Job(s, e, p)
<1>1. /\ q \in Question /\ q.task = t /\ t \in Task /\ Kind(t) = KindOf(s) /\ Kids(t) = KidsOf(s)
      /\ t.expr = e /\ t.path = p
      BY Asked
<1>2. KindOf(s) \in LoopKinds
      BY DEF LoopKinds, WrapKinds, AnyKinds, AllKinds
<1> HIDE DEF q, t
<1>3. Open(t)
      BY <1>1 DEF Open, Refuses, EntryFails
<1>4. LoopLen(t) = Len(KidsOf(s)) /\ \A i : Child(t, i) = Job(KidsOf(s)[i], e, p)
      BY <1>1, LoopCases
<1>5. Outcome(t, Outcomes(q)) = LoopOutcome(t, Outcomes(q))
      BY <1>1, <1>2, <1>3, OutcomeCases
<1>6. Positions(s) = 1..Len(KidsOf(s)) /\ \A i \in Positions(s) : KidsOf(s)[i] \in Shape
      BY ShapeParts
<1>7. ASSUME NEW i \in Positions(s)
      PROVE  /\ Child(t, i) # None
             /\ Child(t, i).shape = KidsOf(s)[i] /\ Child(t, i).expr = e /\ Child(t, i).path = p
  <2>1. Job(KidsOf(s)[i], e, p) \in Task
        BY <1>6, JobTyped
  <2> QED BY <1>4, <2>1, GraphAssumption DEF GraphAssumption, Job
<1>8. /\ LoopLen(t) \in Nat /\ Places(q) = {i \in 1..LoopLen(t) : Child(t, i) # None}
      /\ \A i \in Places(q) :
           LET c == Child(t, i) IN
           /\ Decided(Outcomes(q)[i])
           /\ Outcomes(q)[i].st = Status(c.shape, c.expr, c.path)
      BY <1>2, <1>3, ChildAsked DEF q, t
<1>9. Places(q) = Positions(s)
      BY <1>4, <1>6, <1>7, <1>8
<1> QED BY <1>2, <1>3, <1>4, <1>5, <1>6, <1>7, <1>8, <1>9 DEF q, t

(* A shape says it accepts everything only when its parts do.              *)
LEMMA TotalEquation ==
  \A s \in Shape :
    Total[s] = CASE KindOf(s) = "any" -> TRUE
                 [] KindOf(s) = "and" -> \A i \in Positions(s) : Total[KidsOf(s)[i]]
                 [] KindOf(s) \in {"or", "best", "oneOf"} -> \E i \in Positions(s) : Total[KidsOf(s)[i]]
                 [] KindOf(s) \in {"capture", "effectful", "defs"} -> Total[KidsOf(s)[1]]
                 [] KindOf(s) = "table" -> KidsOf(s) = <<>> /\ Node[s].extra = "allow"
                 [] OTHER -> FALSE
<1> DEFINE Body(f, s) ==
             CASE KindOf(s) = "any" -> TRUE
               [] KindOf(s) = "and" -> \A i \in Positions(s) : f[KidsOf(s)[i]]
               [] KindOf(s) \in {"or", "best", "oneOf"} -> \E i \in Positions(s) : f[KidsOf(s)[i]]
               [] KindOf(s) \in {"capture", "effectful", "defs"} -> f[KidsOf(s)[1]]
               [] KindOf(s) = "table" -> KidsOf(s) = <<>> /\ Node[s].extra = "allow"
               [] OTHER -> FALSE
           Def == [fx \in [Shape -> BOOLEAN] \X Shape |-> Body(fx[1], fx[2])]
<1>1. ASSUME NEW f \in [Shape -> BOOLEAN], NEW g \in [Shape -> BOOLEAN], NEW s \in Shape,
             \A y \in Shape : Height[y] < Height[s] => f[y] = g[y]
      PROVE  Body(f, s) = Body(g, s) /\ Body(f, s) \in BOOLEAN
  <2> DEFINE Bodies == {"any", "and", "or", "best", "oneOf", "capture", "effectful", "defs", "table"}
  <2>1. ASSUME KindOf(s) \in Bodies
        PROVE  \A i \in Positions(s) : KidsOf(s)[i] \in Shape /\ f[KidsOf(s)[i]] = g[KidsOf(s)[i]]
        BY <1>1, <2>1, ShapeParts
  <2>2. CASE KindOf(s) \in {"any", "table"} \/ KindOf(s) \notin Bodies
        BY <2>2, Zenon
  <2>3. CASE KindOf(s) = "and"
    <3>1. \A h : Body(h, s) = \A i \in Positions(s) : h[KidsOf(s)[i]]
          BY <2>3, Zenon
    <3> HIDE DEF Body
    <3> QED BY <2>1, <2>3, <3>1
  <2>4. CASE KindOf(s) \in {"or", "best", "oneOf"}
    <3>1. \A h : Body(h, s) = \E i \in Positions(s) : h[KidsOf(s)[i]]
          BY <2>4, Zenon
    <3> HIDE DEF Body
    <3> QED BY <2>1, <2>4, <3>1
  <2>5. CASE KindOf(s) \in {"capture", "effectful", "defs"}
    <3>1. \A h : Body(h, s) = h[KidsOf(s)[1]]
          BY <2>5, Zenon
    <3>2. 1 \in Positions(s)
          BY <2>5, ShapeParts DEF NodeOK, WrapKinds
    <3>3. f[KidsOf(s)[1]] \in BOOLEAN
          BY <2>1, <2>5, <3>2
    <3> HIDE DEF Body
    <3> QED BY <2>1, <2>5, <3>1, <3>2, <3>3
  <2> QED BY <2>2, <2>3, <2>4, <2>5
<1> HIDE DEF Body
<1>2. Def \in [[Shape -> BOOLEAN] \X Shape -> BOOLEAN]
      BY <1>1
<1>3. Height \in [Shape -> Nat]
      BY HeightAssumption
<1>4. \A f \in [Shape -> BOOLEAN], s \in Shape : Def[<<f, s>>] = Body(f, s)
      OBVIOUS
<1> HIDE DEF Def
<1>5. Shrinks(Shape, BOOLEAN, Height, Def)
  <2>1. \A g, h \in [Shape -> BOOLEAN], s \in Shape :
          (\A y \in Shape : Height[y] < Height[s] => g[y] = h[y]) => Def[<<g, s>>] = Def[<<h, s>>]
        BY <1>1, <1>4
  <2> QED BY <1>2, <1>3, <2>1 DEF Shrinks
<1>6. PICK f : f = [s \in Shape |-> Def[<<f, s>>]] /\ f \in [Shape -> BOOLEAN]
      BY <1>5, Recursion DEF Solved
<1>7. f = [s \in Shape |-> Body(f, s)]
      BY <1>4, <1>6
<1>8. Total = [s \in Shape |-> Body(Total, s)]
      BY <1>7 DEF Total, Body, KindOf, KidsOf, Positions
<1>9. \A s \in Shape : Total[s] = Body(Total, s)
      BY <1>8
<1> QED BY <1>9 DEF Body

LEMMA TotalCases ==
  ASSUME NEW s \in Shape, Total[s]
  PROVE  \/ KindOf(s) \in {"any", "table", "defs"}
         \/ KindOf(s) = "and" /\ \A i \in Positions(s) : Total[KidsOf(s)[i]]
         \/ KindOf(s) \in {"or", "best", "oneOf"} /\ \E i \in Positions(s) : Total[KidsOf(s)[i]]
         \/ KindOf(s) \in {"capture", "effectful"} /\ Total[KidsOf(s)[1]]
<1>1. Total[s] = CASE KindOf(s) = "any" -> TRUE
                 [] KindOf(s) = "and" -> \A i \in Positions(s) : Total[KidsOf(s)[i]]
                 [] KindOf(s) \in {"or", "best", "oneOf"} -> \E i \in Positions(s) : Total[KidsOf(s)[i]]
                 [] KindOf(s) \in {"capture", "effectful", "defs"} -> Total[KidsOf(s)[1]]
                 [] KindOf(s) = "table" -> KidsOf(s) = <<>> /\ Node[s].extra = "allow"
                 [] OTHER -> FALSE
      BY TotalEquation
<1> QED BY <1>1

-----------------------------------------------------------------------------
(* Each rule, from the inclusions it asks for.                             *)

(* What the relation says of two shapes: the second rejects nothing the    *)
(* first accepts, and nothing at all if the first is known to be total.    *)
Keeps(a, b) == Included(a, b) /\ (Total[a] => NeverRejects(b))

OpenTablesNotTotal == \A s \in Shape : KindOf(s) = "table" => ~Total[s]

(* What a choice accepts one of its branches accepts.                      *)
LEMMA ChoiceAccepted ==
  ASSUME NEW s \in Shape, KindOf(s) \in {"or", "best", "oneOf"}, NEW e \in Expr, NEW p \in Paths,
         Status(s, e, p) = "accept"
  PROVE  \E i \in Positions(s) : Status(KidsOf(s)[i], e, p) = "accept"
<1> DEFINE q == Ask(s, e, p)
           t == Job(s, e, p)
           rs == Outcomes(q)
<1>1. /\ LoopOutcome(t, rs).st = "accept" /\ DOMAIN rs = Positions(s)
      /\ \A i \in Positions(s) : i \in Nat /\ rs[i].st = Status(KidsOf(s)[i], e, p)
      /\ Kind(t) = KindOf(s)
      BY Asked, Branches
<1> HIDE DEF q, t, rs
<1>2. CASE KindOf(s) \in AnyKinds
  <2>1. OrOutcome(t, rs).st = "accept"
        BY <1>1, <1>2, LoopOutcomeCases
  <2>2. Deciding(rs) # {} /\ Deciding(rs) \in SUBSET Nat
        BY <1>1, <2>1 DEF OrOutcome, Reject, Deciding
  <2> DEFINE first == Min(Deciding(rs))
  <2>3. first \in Deciding(rs)
        BY <2>2, MinIs
  <2> HIDE DEF first
  <2>4. OrOutcome(t, rs).st = rs[first].st
        BY <2>2, DecidedBasics DEF OrOutcome, first
  <2> QED BY <1>1, <2>1, <2>3, <2>4 DEF Deciding
<1>3. CASE KindOf(s) = "best"
  <2>1. BestOutcome(t, rs).st = "accept"
        BY <1>1, <1>3, LoopOutcomeCases
  <2>2. Best(rs) # {} /\ Best(rs) \in SUBSET Nat
        BY <1>1, <2>1 DEF BestOutcome, Reject, Error, Best
  <2>3. PICK i \in Best(rs) : TRUE
        BY <2>2
  <2>4. i \in DOMAIN rs /\ rs[i].st = "accept"
        BY <2>3 DEF Best
  <2> QED BY <1>1, <2>4
<1> QED BY <1>2, <1>3 DEF AnyKinds

(* A conjunction accepts what all its parts accept, and rejects nothing    *)
(* when no part does.                                                      *)
LEMMA ConjunctionAccepted ==
  ASSUME NEW s \in Shape, KindOf(s) = "and", NEW e \in Expr, NEW p \in Paths
  PROVE  /\ Status(s, e, p) = "accept" =>
              \A i \in Positions(s) : Status(KidsOf(s)[i], e, p) = "accept"
         /\ (\A i \in Positions(s) : Status(KidsOf(s)[i], e, p) # "reject") =>
              Status(s, e, p) # "reject"
<1> DEFINE q == Ask(s, e, p)
           t == Job(s, e, p)
           rs == Outcomes(q)
           from == IF Kids(t) = <<>> THEN 0 ELSE 10
<1>1. /\ Status(s, e, p) = LoopOutcome(t, rs).st /\ DOMAIN rs = Positions(s)
      /\ \A i \in Positions(s) :
           i \in Nat /\ rs[i].st = Status(KidsOf(s)[i], e, p) /\ Decided(rs[i])
      /\ Kind(t) = KindOf(s) /\ LoopLen(t) \in Nat /\ LoopLen(t) = Len(KidsOf(s))
      BY Asked, Branches
<1>2. \A i \in Positions(s) : i <= LoopLen(t)
      BY <1>1, ShapeParts
<1> HIDE DEF q, t, rs, from
<1>3. Status(s, e, p) = Every(from, rs, LoopLen(t)).st
      BY <1>1, LoopOutcomeCases DEF from
<1>4. from \in Nat /\ DOMAIN rs \subseteq Nat
      BY <1>1 DEF from
<1>5. Every(from, rs, LoopLen(t)).st = "accept" => \A i \in DOMAIN rs : i <= LoopLen(t) => rs[i].st = "accept"
      BY <1>1, <1>4, EveryDecided
<1>6. (\A i \in DOMAIN rs : i <= LoopLen(t) => rs[i].st # "reject")
        => Every(from, rs, LoopLen(t)).st # "reject"
      BY <1>1, <1>4, EveryUnrejected
<1> QED BY <1>1, <1>2, <1>3, <1>5, <1>6

(* A capture and an effectful shape say what their shape says.             *)
LEMMA WrapperAnswers ==
  ASSUME NEW s \in Shape, KindOf(s) \in {"capture", "effectful"}, NEW e \in Expr, NEW p \in Paths
  PROVE  /\ 1 \in Positions(s) /\ Positions(s) = {1} /\ KidsOf(s)[1] \in Shape
         /\ Status(s, e, p) = Status(KidsOf(s)[1], e, p)
<1> DEFINE q == Ask(s, e, p)
           t == Job(s, e, p)
           rs == Outcomes(q)
<1>1. Positions(s) = {1} /\ KidsOf(s)[1] \in Shape
  <2>1. Len(KidsOf(s)) = 1
        BY ShapeParts DEF NodeOK, WrapKinds
  <2> QED BY <2>1, ShapeParts
<1>2. /\ Status(s, e, p) = LoopOutcome(t, rs).st
      /\ rs[1].st = Status(KidsOf(s)[1], e, p)
      /\ Kind(t) = KindOf(s)
      BY <1>1, Asked, Branches
<1> HIDE DEF q, t, rs
<1>3. LoopOutcome(t, rs).st = rs[1].st
      BY <1>2, LoopOutcomeCases, DecidedBasics
<1> QED BY <1>1, <1>2, <1>3

(* A negation accepts what its shape rejects, and rejects what it accepts. *)
LEMMA NegationAnswers ==
  ASSUME NEW s \in Shape, KindOf(s) = "not", NEW e \in Expr, NEW p \in Paths
  PROVE  /\ Positions(s) = {1} /\ KidsOf(s)[1] \in Shape
         /\ Status(s, e, p) = "accept" <=> Status(KidsOf(s)[1], e, p) = "reject"
         /\ Status(s, e, p) = "reject" <=> Status(KidsOf(s)[1], e, p) = "accept"
<1> DEFINE q == Ask(s, e, p)
           t == Job(s, e, p)
           rs == Outcomes(q)
<1>1. Positions(s) = {1} /\ KidsOf(s)[1] \in Shape
  <2>1. Len(KidsOf(s)) = 1
        BY ShapeParts DEF NodeOK
  <2> QED BY <2>1, ShapeParts
<1>2. /\ Status(s, e, p) = LoopOutcome(t, rs).st
      /\ rs[1].st = Status(KidsOf(s)[1], e, p) /\ Decided(rs[1])
      /\ Kind(t) = KindOf(s)
      BY <1>1, Asked, Branches
<1> HIDE DEF q, t, rs
<1>3. LoopOutcome(t, rs) = NotOutcome(t, rs[1])
      BY <1>2, LoopOutcomeCases
<1>4. /\ rs[1].st = "accept" => NotOutcome(t, rs[1]) = Reject
      /\ rs[1].st = "reject" => NotOutcome(t, rs[1]) = With(Accept(10, <<>>), "negated", t.expr, 0)
      /\ rs[1].st \notin {"accept", "reject"} => NotOutcome(t, rs[1]) = Error
      BY Zenon DEF NotOutcome
<1>5. With(Accept(10, <<>>), "negated", t.expr, 0).st = "accept"
      BY DecidedBasics DEF Accept
<1> QED BY <1>1, <1>2, <1>3, <1>4, <1>5 DEF Decided, Reject, Error

(* The kernel's own rule, and the shapes without parts.                    *)
LEMMA AnyKeeps ==
  ASSUME NEW a \in Shape, NEW b \in Shape, KindOf(b) = "any"
  PROVE  Keeps(a, b)
<1>1. ASSUME NEW e \in Expr, NEW p \in Paths
      PROVE  Status(b, e, p) # "reject"
  <2> DEFINE t == Job(b, e, p)
  <2>1. Kind(t) = "any" /\ Status(b, e, p) = Outcome(t, Outcomes(Ask(b, e, p))).st
        BY Asked
  <2>2. Outcome(t, Outcomes(Ask(b, e, p))) = LeafResult(t)
        BY <2>1, OutcomeCases DEF LeafKinds
  <2>3. LeafResult(t) = Accept(0, <<>>)
        BY <2>1, Zenon DEF LeafResult
  <2> QED BY <2>1, <2>2, <2>3 DEF Accept
<1> QED BY <1>1 DEF Keeps, Included, NeverRejects

LEMMA LeafAnswers ==
  ASSUME NEW s \in Shape, NEW e \in Expr, NEW p \in Paths
  PROVE  /\ KindOf(s) = "exprKind" =>
              Status(s, e, p) = IF Term[e].form = Node[s].arg THEN "accept" ELSE "reject"
         /\ KindOf(s) = "exact" =>
              Status(s, e, p) = IF e = Node[s].arg THEN "accept" ELSE "reject"
<1> DEFINE t == Job(s, e, p)
           rs == Outcomes(Ask(s, e, p))
<1>1. Kind(t) = KindOf(s) /\ t.shape = s /\ t.expr = e /\ Status(s, e, p) = Outcome(t, rs).st
      BY Asked
<1> HIDE DEF t, rs
<1>2. CASE KindOf(s) = "exprKind"
  <2>1. Outcome(t, rs) = LeafResult(t)
        BY <1>1, <1>2, OutcomeCases DEF LeafKinds
  <2>2. LeafResult(t) = Verdict(Form(t) = Node[t.shape].arg, 10)
        BY <1>1, <1>2, Zenon DEF LeafResult
  <2> QED BY <1>1, <1>2, <2>1, <2>2 DEF Verdict, Accept, Reject, Form
<1>3. CASE KindOf(s) = "exact"
  <2>1. Outcome(t, rs) = LeafResult(t)
        BY <1>1, <1>3, OutcomeCases DEF LeafKinds
  <2>2. LeafResult(t) = Verdict(t.expr = Node[t.shape].arg, 20)
        BY <1>1, <1>3, Zenon DEF LeafResult
  <2> QED BY <1>1, <1>3, <2>1, <2>2 DEF Verdict, Accept, Reject
<1> QED BY <1>2, <1>3

LEMMA LeafKeeps ==
  ASSUME NEW a \in Shape, NEW b \in Shape, KindOf(a) \in {"exprKind", "exact"},
         NEW premises \in OwnRule(a, b)
  PROVE  Keeps(a, b)
<1>1. ~Total[a]
      BY TotalCases
<1>2. ASSUME NEW e \in Expr, NEW p \in Paths, Status(a, e, p) = "accept"
      PROVE  Status(b, e, p) # "reject"
  <2>1. CASE KindOf(a) = "exprKind"
    <3>1. KindOf(b) = "exprKind" /\ Node[a].arg = Node[b].arg
          BY <2>1, OwnRuleCases DEF ExprKindRule, When, SameKind
    <3> QED BY <1>2, <2>1, <3>1, LeafAnswers
  <2>2. CASE KindOf(a) = "exact"
    <3>1. \/ KindOf(b) = "exact" /\ Node[a].arg = Node[b].arg
          \/ KindOf(b) = "exprKind" /\ Term[Node[a].arg].form = Node[b].arg
          BY <2>2, OwnRuleCases DEF ExactRule, When, SameKind
    <3> QED BY <1>2, <2>2, <3>1, LeafAnswers
  <2> QED BY <2>1, <2>2
<1> QED BY <1>1, <1>2 DEF Keeps, Included

(* A class shape on a value only asks whether the value's class is below.  *)
LEMMA ClassAnswers ==
  ASSUME NEW s \in Shape, KindOf(s) = "class", NEW e \in Expr
  PROVE  Status(s, e, "value") =
           IF Term[e].class # None /\ ClassMatches(Term[e].class, Node[s].name)
           THEN "accept" ELSE "reject"
<1> DEFINE t == Job(s, e, "value")
           rs == Outcomes(Ask(s, e, "value"))
<1>1. /\ Kind(t) = "class" /\ t.shape = s /\ t.expr = e /\ t.path = "value"
      /\ Status(s, e, "value") = Outcome(t, rs).st
      BY Asked DEF Paths
<1> HIDE DEF t, rs
<1>2. Outcome(t, rs) = ClassOutcome(t, rs)
      BY <1>1, OutcomeCases
<1>3. ~ClassOpens(t)
      BY <1>1 DEF ClassOpens
<1>4. ClassOutcome(t, rs) = Verdict(OfClass(t), 30)
      BY <1>1, <1>3, Zenon DEF ClassOutcome, ClassDirect
<1> QED BY <1>1, <1>2, <1>4 DEF Verdict, Accept, Reject, OfClass

LEMMA ClassKeeps ==
  ASSUME NEW a \in Shape, NEW b \in Shape, KindOf(a) = "class", NEW premises \in OwnRule(a, b),
         HierarchyHonoured
  PROVE  Keeps(a, b)
<1>1. KindOf(b) = "class" /\ ClassMatches(Node[a].name, Node[b].name)
      BY OwnRuleCases DEF ClassRule, When, SameKind
<1>2. ~Total[a]
      BY TotalCases
<1>3. ASSUME NEW e \in Expr, Status(a, e, "value") = "accept"
      PROVE  Status(b, e, "value") # "reject"
  <2>1. Term[e].class # None /\ ClassMatches(Term[e].class, Node[a].name)
        BY <1>3, ClassAnswers
  <2>2. ClassMatches(Term[e].class, Node[b].name)
    <3> DEFINE p == <<Term[e].class, Node[a].name>>
               q == <<Node[a].name, Node[b].name>>
    <3>1. CASE Term[e].class = Node[a].name \/ Node[a].name = Node[b].name
          BY <1>1, <2>1, <3>1 DEF ClassMatches
    <3>2. CASE p \in Subclass /\ q \in Subclass
      <4>1. p[2] = q[1] => <<p[1], q[2]>> \in Subclass
        <5> HIDE DEF p, q
        <5> QED BY <3>2, SubclassAssumption
      <4> QED BY <4>1 DEF ClassMatches
    <3> QED BY <1>1, <2>1, <3>1, <3>2 DEF ClassMatches
  <2> QED BY <1>1, <2>1, <2>2, ClassAnswers
<1>4. ASSUME NEW e \in Expr, Status(a, e, "expr") = "accept"
      PROVE  Status(b, e, "expr") # "reject"
  <2>1. \A s \in Shape : Checked[s][<<e, "expr">>] = Status(s, e, "expr")
        BY DEF Checked, Status, Ask, Paths
  <2> QED BY <1>1, <1>4, <2>1 DEF HierarchyHonoured
<1> QED BY <1>2, <1>3, <1>4 DEF Keeps, Included, Paths

LEMMA AndKeeps ==
  ASSUME NEW a \in Shape, NEW b \in Shape, KindOf(a) = "and", NEW premises \in OwnRule(a, b),
         \A p \in premises : Keeps(p[1], p[2])
  PROVE  Keeps(a, b)
<1>1. Total[a] => \A i \in Positions(a) : Total[KidsOf(a)[i]]
      BY TotalCases
<1>2. CASE premises \in {{<<KidsOf(a)[i], b>>} : i \in Positions(a)}
  <2>1. PICK i \in Positions(a) : premises = {<<KidsOf(a)[i], b>>}
        BY <1>2
  <2>2. Keeps(KidsOf(a)[i], b) /\ KidsOf(a)[i] \in Shape
        BY <2>1, ShapeParts
  <2> QED BY <1>1, <2>2, ConjunctionAccepted DEF Keeps, Included, NeverRejects
<1>3. CASE premises \notin {{<<KidsOf(a)[i], b>>} : i \in Positions(a)}
  <2>1. KindOf(b) = "and"
        /\ premises \in {{<<KidsOf(a)[f[j]], KidsOf(b)[j]>> : j \in Positions(b)} :
                           f \in [Positions(b) -> Positions(a)]}
        BY <1>3, OwnRuleCases DEF AndRule
  <2>2. PICK f \in [Positions(b) -> Positions(a)] :
          premises = {<<KidsOf(a)[f[j]], KidsOf(b)[j]>> : j \in Positions(b)}
        BY <2>1
  <2>3. ASSUME NEW j \in Positions(b)
        PROVE  /\ f[j] \in Positions(a) /\ KidsOf(a)[f[j]] \in Shape /\ KidsOf(b)[j] \in Shape
               /\ Keeps(KidsOf(a)[f[j]], KidsOf(b)[j])
    <3>1. f[j] \in Positions(a) /\ <<KidsOf(a)[f[j]], KidsOf(b)[j]>> \in premises
          BY <2>2
    <3> QED BY <3>1, ShapeParts
  <2>4. Included(a, b)
    <3>1. ASSUME NEW e \in Expr, NEW p \in Paths, Status(a, e, p) = "accept",
                 NEW j \in Positions(b)
          PROVE  Status(KidsOf(b)[j], e, p) # "reject"
      <4>1. Status(KidsOf(a)[f[j]], e, p) = "accept"
            BY <2>3, <3>1, ConjunctionAccepted
      <4> QED BY <2>3, <3>1, <4>1 DEF Keeps, Included
    <3> QED BY <2>1, <3>1, ConjunctionAccepted DEF Included
  <2>5. ASSUME Total[a] PROVE NeverRejects(b)
    <3>1. \A j \in Positions(b) : NeverRejects(KidsOf(b)[j])
          BY <1>1, <2>3, <2>5 DEF Keeps
    <3> QED BY <2>1, <3>1, ConjunctionAccepted DEF NeverRejects
  <2> QED BY <2>4, <2>5 DEF Keeps
<1> QED BY <1>2, <1>3

LEMMA OrKeeps ==
  ASSUME NEW a \in Shape, NEW b \in Shape, KindOf(a) \in {"or", "best", "oneOf"},
         NEW premises \in OwnRule(a, b), \A p \in premises : Keeps(p[1], p[2])
  PROVE  Keeps(a, b)
<1>1. premises = {<<KidsOf(a)[i], b>> : i \in Positions(a)}
      BY OwnRuleCases DEF OrRule
<1>2. ASSUME NEW i \in Positions(a) PROVE Keeps(KidsOf(a)[i], b)
  <2>1. <<KidsOf(a)[i], b>> \in premises
        BY <1>1
  <2> QED BY <2>1
<1>3. Total[a] => \E i \in Positions(a) : Total[KidsOf(a)[i]]
      BY TotalCases
<1>4. Included(a, b)
      BY <1>2, ChoiceAccepted DEF Keeps, Included
<1> QED BY <1>2, <1>3, <1>4 DEF Keeps

LEMMA NotKeeps ==
  ASSUME NEW a \in Shape, NEW b \in Shape, KindOf(a) = "not",
         NEW premises \in OwnRule(a, b), \A p \in premises : Keeps(p[1], p[2])
  PROVE  Keeps(a, b)
<1>1. KindOf(b) = "not" /\ premises = {<<KidsOf(b)[1], KidsOf(a)[1]>> : i \in Positions(b)}
      BY OwnRuleCases DEF NotRule, When
<1>2. 1 \in Positions(b)
      BY <1>1, ShapeParts DEF NodeOK
<1>3. Included(KidsOf(b)[1], KidsOf(a)[1])
  <2>1. <<KidsOf(b)[1], KidsOf(a)[1]>> \in premises
        BY <1>1, <1>2
  <2> QED BY <2>1 DEF Keeps
<1>4. Included(a, b)
      BY <1>1, <1>3, NegationAnswers DEF Included
<1>5. ~Total[a]
      BY TotalCases
<1> QED BY <1>4, <1>5 DEF Keeps

LEMMA WrapperKeeps ==
  ASSUME NEW a \in Shape, NEW b \in Shape, KindOf(a) \in {"capture", "effectful"},
         NEW premises \in OwnRule(a, b), \A p \in premises : Keeps(p[1], p[2])
  PROVE  Keeps(a, b)
<1>1. \A e \in Expr, p \in Paths : Status(a, e, p) = Status(KidsOf(a)[1], e, p)
      BY WrapperAnswers
<1>2. Total[a] => Total[KidsOf(a)[1]]
      BY TotalCases
<1>3. CASE KindOf(a) = "capture"
  <2>1. <<KidsOf(a)[1], b>> \in premises
        BY <1>3, OwnRuleCases
  <2>2. Keeps(KidsOf(a)[1], b)
        BY <2>1
  <2> QED BY <1>1, <1>2, <2>2 DEF Keeps, Included
<1>4. CASE KindOf(a) = "effectful"
  <2>1. KindOf(b) = "effectful" /\ premises = Pairwise(a, b)
        BY <1>4, OwnRuleCases DEF WrapperRule, When, SameKind
  <2>2. 1 \in Positions(a) /\ 1 \in Positions(b)
        BY <1>4, <2>1, ShapeParts DEF NodeOK, WrapKinds
  <2>3. <<KidsOf(a)[1], KidsOf(b)[1]>> \in premises
        BY <2>1, <2>2 DEF Pairwise
  <2>4. Keeps(KidsOf(a)[1], KidsOf(b)[1])
        BY <2>3
  <2>5. \A e \in Expr, p \in Paths : Status(b, e, p) = Status(KidsOf(b)[1], e, p)
        BY <2>1, WrapperAnswers
  <2> QED BY <1>1, <1>2, <2>4, <2>5 DEF Keeps, Included, NeverRejects
<1> QED BY <1>3, <1>4

(* A list shape asks each element of a list of the length it allows.       *)
ListOpens(s, e) ==
  /\ Term[e].form = "list" /\ Len(Term[e].items) >= Len(KidsOf(s))
  /\ Node[s].rest = None => Len(Term[e].items) = Len(KidsOf(s))

ElementShape(s, i) == IF i <= Len(KidsOf(s)) THEN KidsOf(s)[i] ELSE Node[s].rest

LEMMA ListAnswers ==
  ASSUME NEW s \in Shape, KindOf(s) = "list", NEW e \in Expr, NEW p \in Paths
  PROVE  LET t == Job(s, e, p)  rs == Outcomes(Ask(s, e, p)) IN
         /\ ~ListOpens(s, e) => Status(s, e, p) = "reject"
         /\ ListOpens(s, e) =>
              /\ Status(s, e, p) = Every(20, rs, Looked(t, rs)).st
              /\ LoopLen(t) = Len(Term[e].items) /\ LoopLen(t) \in Nat
              /\ DOMAIN rs = 1..LoopLen(t)
              /\ Looked(t, rs) \in Nat
              /\ \/ Looked(t, rs) = LoopLen(t)
                 \/ Looked(t, rs) > Len(KidsOf(s)) /\ Total[Node[s].rest]
              /\ \A i \in 1..LoopLen(t) :
                   /\ Decided(rs[i]) /\ ElementShape(s, i) \in Shape
                   /\ Term[e].items[i] \in Expr
                   /\ rs[i].st = Status(ElementShape(s, i), Term[e].items[i], p)
<1> DEFINE t == Job(s, e, p)
           rs == Outcomes(Ask(s, e, p))
<1>1. /\ t \in Task /\ t.shape = s /\ t.expr = e /\ t.path = p
      /\ Kind(t) = "list" /\ Kids(t) = KidsOf(s) /\ Items(t) = Term[e].items
      /\ Status(s, e, p) = Outcome(t, rs).st
      /\ DOMAIN rs = Places(Ask(s, e, p)) /\ DOMAIN rs \subseteq Nat
      BY Asked DEF Items
<1>2. KindOf(s) \in LoopKinds /\ Kind(t) \in LoopKinds
      BY <1>1 DEF LoopKinds, AllKinds
<1>3. /\ Len(KidsOf(s)) \in Nat /\ Len(Term[e].items) \in Nat
      /\ \A i \in 1..Len(Term[e].items) : Term[e].items[i] \in Expr
      /\ \A i \in 1..Len(KidsOf(s)) : KidsOf(s)[i] \in Shape
      /\ Node[s].rest \in Shape \cup {None}
      BY <1>1, PartsTyped
<1>4. ListOpens(s, e) <=> Open(t)
  <2>1. Refuses(t) <=> ListRefuses(t)
        BY <1>1 DEF Refuses
  <2>2. ~EntryFails(t)
        BY <1>1 DEF EntryFails
  <2>3. ListRefuses(t) <=> ~ListOpens(s, e)
        BY <1>1, <1>3 DEF ListRefuses, ListOpens, Form
  <2> QED BY <1>2, <2>1, <2>2, <2>3 DEF Open
<1>5. ASSUME ~ListOpens(s, e) PROVE Status(s, e, p) = "reject"
  <2>1. Refuses(t) /\ ~EntryFails(t)
        BY <1>1, <1>2, <1>4, <1>5 DEF Open, EntryFails
  <2> HIDE DEF t, rs
  <2> QED BY <1>1, <1>2, <2>1, OutcomeCases DEF Reject
<1>6. ASSUME ListOpens(s, e)
      PROVE  /\ Status(s, e, p) = Every(20, rs, Looked(t, rs)).st
             /\ LoopLen(t) = Len(Term[e].items) /\ LoopLen(t) \in Nat
             /\ DOMAIN rs = 1..LoopLen(t)
             /\ Looked(t, rs) \in Nat
             /\ \/ Looked(t, rs) = LoopLen(t)
                \/ Looked(t, rs) > Len(KidsOf(s)) /\ Total[Node[s].rest]
             /\ \A i \in 1..LoopLen(t) :
                  /\ Decided(rs[i]) /\ ElementShape(s, i) \in Shape
                  /\ Term[e].items[i] \in Expr
                  /\ rs[i].st = Status(ElementShape(s, i), Term[e].items[i], p)
  <2>1. /\ LoopLen(t) \in Nat
        /\ DOMAIN rs = {i \in 1..LoopLen(t) : Child(t, i) # None}
        /\ \A i \in DOMAIN rs :
             LET c == Child(t, i) IN
             Decided(rs[i]) /\ rs[i].st = Status(c.shape, c.expr, c.path)
        BY <1>1, <1>2, <1>4, <1>6, ChildAsked
  <2> HIDE DEF t, rs
  <2>2. LoopLen(t) = Len(Term[e].items) /\ \A i : Child(t, i) = ListChild(t, i)
        BY <1>1, LoopCases
  <2>3. ASSUME NEW i \in 1..LoopLen(t)
        PROVE  /\ ElementShape(s, i) \in Shape /\ Term[e].items[i] \in Expr
               /\ Child(t, i) = Job(ElementShape(s, i), Term[e].items[i], p)
               /\ Child(t, i) # None
    <3>1. ElementShape(s, i) \in Shape
          BY <1>3, <1>6, <2>2 DEF ElementShape, ListOpens
    <3>2. Term[e].items[i] \in Expr
          BY <1>3, <2>2
    <3>3. Child(t, i) = Job(ElementShape(s, i), Term[e].items[i], p)
          BY <1>1, <2>2 DEF ListChild, ElementShape
    <3>4. Child(t, i) \in Task
          BY <3>1, <3>2, <3>3, JobTyped
    <3> QED BY <3>1, <3>2, <3>3, <3>4, GraphAssumption DEF GraphAssumption
  <2>4. DOMAIN rs = 1..LoopLen(t)
        BY <2>1, <2>3
  <2>5. \A i \in 1..LoopLen(t) : rs[i].st = Status(ElementShape(s, i), Term[e].items[i], p)
        BY <2>1, <2>3, <2>4 DEF Job
  <2>6. Outcome(t, rs) = Every(20, rs, Looked(t, rs))
        BY <1>1, <1>2, <1>4, <1>6, OutcomeCases, LoopOutcomeCases
  <2>7. \/ Looked(t, rs) = LoopLen(t)
        \/ Looked(t, rs) \in DOMAIN rs /\ Looked(t, rs) > Len(Kids(t)) /\ Total[Node[t.shape].rest]
        BY <1>1, LookedFar
  <2>8. Looked(t, rs) = LoopLen(t) \/ Looked(t, rs) \in 1..LoopLen(t)
        BY <2>4, <2>7
  <2>9. \/ Looked(t, rs) = LoopLen(t)
        \/ Looked(t, rs) > Len(KidsOf(s)) /\ Total[Node[s].rest]
        BY <1>1, <1>3, <2>1, <2>4, <2>7
  <2> QED BY <1>1, <2>1, <2>2, <2>3, <2>4, <2>5, <2>6, <2>8, <2>9
<1> QED BY <1>5, <1>6

(* The premises of a rule that pairs the parts of two shapes.              *)
LEMMA PairwiseKeeps ==
  ASSUME NEW a \in Shape, NEW b \in Shape, \A p \in Pairwise(a, b) : Keeps(p[1], p[2])
  PROVE  /\ \A i \in Positions(a) \cap Positions(b) : Keeps(KidsOf(a)[i], KidsOf(b)[i])
         /\ Node[a].rest # None /\ Node[b].rest # None => Keeps(Node[a].rest, Node[b].rest)
<1>1. ASSUME NEW i \in Positions(a) \cap Positions(b)
      PROVE  Keeps(KidsOf(a)[i], KidsOf(b)[i])
  <2>1. <<KidsOf(a)[i], KidsOf(b)[i]>> \in Pairwise(a, b)
        BY DEF Pairwise
  <2> QED BY <2>1
<1>2. ASSUME Node[a].rest # None, Node[b].rest # None
      PROVE  Keeps(Node[a].rest, Node[b].rest)
  <2>1. <<Node[a].rest, Node[b].rest>> \in Pairwise(a, b)
        BY <1>2 DEF Pairwise
  <2> QED BY <2>1
<1> QED BY <1>1, <1>2

LEMMA ListKeeps ==
  ASSUME NEW a \in Shape, NEW b \in Shape, KindOf(a) = "list",
         NEW premises \in OwnRule(a, b), \A p \in premises : Keeps(p[1], p[2])
  PROVE  Keeps(a, b)
<1>1. /\ KindOf(b) = "list" /\ Len(KidsOf(a)) = Len(KidsOf(b))
      /\ Node[a].rest = None <=> Node[b].rest = None
      /\ premises = Pairwise(a, b)
      BY OwnRuleCases DEF ListRule, When, SameKind
<1>2. /\ \A i \in Positions(a) : Keeps(KidsOf(a)[i], KidsOf(b)[i])
      /\ Node[a].rest # None => Keeps(Node[a].rest, Node[b].rest)
      BY <1>1, PairwiseKeeps, ShapeParts
<1>3. ~Total[a]
      BY TotalCases
<1>4. ASSUME NEW e \in Expr, NEW p \in Paths, Status(a, e, p) = "accept"
      PROVE  Status(b, e, p) # "reject"
  <2> DEFINE ta == Job(a, e, p)
             tb == Job(b, e, p)
             ra == Outcomes(Ask(a, e, p))
             rb == Outcomes(Ask(b, e, p))
             n == Len(Term[e].items)
  <2>1. ListOpens(a, e) /\ ListOpens(b, e)
    <3>1. ListOpens(a, e)
          BY <1>4, ListAnswers
    <3> QED BY <1>1, <3>1 DEF ListOpens
  <2>2. /\ Every(20, ra, Looked(ta, ra)).st = "accept" /\ Looked(ta, ra) \in Nat
        /\ DOMAIN ra = 1..n /\ n \in Nat
        /\ Looked(ta, ra) = n \/ (Looked(ta, ra) > Len(KidsOf(a)) /\ Total[Node[a].rest])
        /\ \A i \in 1..n : Decided(ra[i])
        BY <1>4, <2>1, ListAnswers
  <2>3. /\ Status(b, e, p) = Every(20, rb, Looked(tb, rb)).st /\ Looked(tb, rb) \in Nat
        /\ DOMAIN rb = 1..n
        BY <1>1, <2>1, ListAnswers
  <2>4. ASSUME NEW i \in 1..n
        PROVE  /\ ElementShape(a, i) \in Shape /\ ElementShape(b, i) \in Shape
               /\ Term[e].items[i] \in Expr
               /\ ra[i].st = Status(ElementShape(a, i), Term[e].items[i], p)
               /\ rb[i].st = Status(ElementShape(b, i), Term[e].items[i], p)
        BY <1>1, <2>1, <2>4, ListAnswers
  <2> HIDE DEF ta, tb, ra, rb
  <2>5. \A i \in DOMAIN ra : i <= Looked(ta, ra) => ra[i].st = "accept"
    <3>1. DOMAIN ra \subseteq Nat /\ \A i \in DOMAIN ra : Decided(ra[i])
          BY <2>2
    <3> DEFINE k == Looked(ta, ra)
    <3>2. k \in Nat /\ Every(20, ra, k).st = "accept" /\ 20 \in Nat
          BY <2>2
    <3> HIDE DEF k
    <3>3. \A i \in DOMAIN ra : i <= k => ra[i].st = "accept"
          BY <3>1, <3>2, EveryDecided
    <3> QED BY <3>3 DEF k
  <2>6. ASSUME NEW i \in 1..n PROVE Keeps(ElementShape(a, i), ElementShape(b, i))
    <3>1. Len(KidsOf(a)) \in Nat /\ Positions(a) = 1..Len(KidsOf(a))
          BY ShapeParts
    <3>2. CASE i <= Len(KidsOf(a))
          BY <1>1, <1>2, <2>2, <3>1, <3>2 DEF ElementShape
    <3>3. CASE ~(i <= Len(KidsOf(a)))
      <4>1. Node[a].rest # None
            BY <2>1, <2>2, <2>6, <3>1, <3>3 DEF ListOpens
      <4> QED BY <1>1, <1>2, <3>3, <4>1 DEF ElementShape
    <3> QED BY <3>2, <3>3
  <2>7. ASSUME NEW i \in 1..n PROVE rb[i].st # "reject"
    <3>1. CASE i <= Looked(ta, ra)
          BY <2>2, <2>4, <2>5, <2>6, <3>1 DEF Keeps, Included
    <3>2. CASE ~(i <= Looked(ta, ra))
      <4>1. Total[Node[a].rest] /\ ~(i <= Len(KidsOf(a)))
        <5>1. Len(KidsOf(a)) \in Nat
              BY ShapeParts
        <5> QED BY <2>2, <2>7, <3>2, <5>1
      <4>2. ElementShape(a, i) = Node[a].rest
            BY <4>1 DEF ElementShape
      <4> QED BY <2>4, <2>6, <4>1, <4>2 DEF Keeps, NeverRejects
    <3> QED BY <3>1, <3>2
  <2>8. \A i \in DOMAIN rb : i <= Looked(tb, rb) => rb[i].st # "reject"
        BY <2>3, <2>7
  <2>9. DOMAIN rb \subseteq Nat
        BY <2>3
  <2> QED BY <2>3, <2>8, <2>9, EveryUnrejected
<1> QED BY <1>3, <1>4 DEF Keeps, Included

(* A repeat shape asks its one shape of every element, and counts them.    *)
RepeatOpens(e) == Term[e].form \in {"list", "vector", "set"}
RepeatPath(e, p) == IF Term[e].form = "list" THEN p ELSE "expr"
WithinBounds(s, n) == n >= Node[s].min /\ (Node[s].max = None \/ n <= Node[s].max)

LEMMA RepeatAnswers ==
  ASSUME NEW s \in Shape, KindOf(s) = "repeat", NEW e \in Expr, NEW p \in Paths
  PROVE  LET n == Len(Term[e].items)
             Says(i, st) == Status(KidsOf(s)[1], Term[e].items[i], RepeatPath(e, p)) = st IN
         /\ n \in Nat /\ Positions(s) = {1} /\ KidsOf(s)[1] \in Shape /\ RepeatPath(e, p) \in Paths
         /\ \A i \in 1..n : Term[e].items[i] \in Expr
         /\ Status(s, e, p) = "accept" =>
              RepeatOpens(e) /\ WithinBounds(s, n) /\ \A i \in 1..n : Says(i, "accept")
         /\ RepeatOpens(e) /\ WithinBounds(s, n) /\ (\A i \in 1..n : ~Says(i, "reject")) =>
              Status(s, e, p) # "reject"
<1> DEFINE t == Job(s, e, p)
           rs == Outcomes(Ask(s, e, p))
           n == Len(Term[e].items)
           Says(i, st) == Status(KidsOf(s)[1], Term[e].items[i], RepeatPath(e, p)) = st
<1>1. /\ t \in Task /\ t.shape = s /\ t.expr = e /\ t.path = p
      /\ Kind(t) = "repeat" /\ Kids(t) = KidsOf(s) /\ Items(t) = Term[e].items
      /\ Status(s, e, p) = Outcome(t, rs).st
      /\ DOMAIN rs = Places(Ask(s, e, p)) /\ DOMAIN rs \subseteq Nat
      BY Asked DEF Items
<1>2. KindOf(s) \in LoopKinds /\ Kind(t) \in LoopKinds
      BY <1>1 DEF LoopKinds, AllKinds
<1>3. n \in Nat /\ \A i \in 1..n : Term[e].items[i] \in Expr
      BY <1>1, PartsTyped
<1>4. Positions(s) = {1} /\ KidsOf(s)[1] \in Shape
  <2>1. Len(KidsOf(s)) = 1
        BY ShapeParts DEF NodeOK
  <2> QED BY <2>1, ShapeParts
<1>5. RepeatPath(e, p) \in Paths
      BY DEF RepeatPath, Paths
<1>6. /\ Open(t) <=> RepeatOpens(e)
      /\ ~EntryFails(t) /\ (~Open(t) => Refuses(t))
  <2>1. Refuses(t) <=> ~RepeatOpens(e)
        BY <1>1 DEF Refuses, RepeatRefuses, Form, RepeatOpens
  <2>2. ~EntryFails(t)
        BY <1>1 DEF EntryFails
  <2> QED BY <1>2, <2>1, <2>2 DEF Open
<1>7. ~Open(t) => Status(s, e, p) = "reject"
  <2> HIDE DEF t, rs
  <2> QED BY <1>1, <1>2, <1>6, OutcomeCases DEF Reject
<1>8. ASSUME Open(t)
      PROVE  /\ DOMAIN rs = 1..n
             /\ \A i \in 1..n : Decided(rs[i]) /\ (\A st : Says(i, st) <=> rs[i].st = st)
             /\ Outcome(t, rs) = RepeatOutcome(t, rs) /\ LoopLen(t) = n
  <2>1. /\ LoopLen(t) \in Nat
        /\ DOMAIN rs = {i \in 1..LoopLen(t) : Child(t, i) # None}
        /\ \A i \in DOMAIN rs :
             LET c == Child(t, i) IN
             Decided(rs[i]) /\ rs[i].st = Status(c.shape, c.expr, c.path)
        BY <1>1, <1>2, <1>8, ChildAsked
  <2> HIDE DEF t, rs
  <2>2. LoopLen(t) = n /\ \A i : Child(t, i) = RepeatChild(t, i)
        BY <1>1, LoopCases
  <2>3. ASSUME NEW i \in 1..n
        PROVE  /\ Child(t, i) = Job(KidsOf(s)[1], Term[e].items[i], RepeatPath(e, p))
               /\ Child(t, i) # None
    <3>1. Child(t, i) = Job(KidsOf(s)[1], Term[e].items[i], RepeatPath(e, p))
          BY <1>1, <2>2 DEF RepeatChild, RepeatPath, Form
    <3>2. Child(t, i) \in Task
          BY <1>3, <1>4, <1>5, <3>1, JobTyped
    <3> QED BY <3>1, <3>2, GraphAssumption DEF GraphAssumption
  <2>4. DOMAIN rs = 1..n
        BY <2>1, <2>2, <2>3
  <2>5. \A i \in 1..n : rs[i].st = Status(KidsOf(s)[1], Term[e].items[i], RepeatPath(e, p))
        BY <2>1, <2>3, <2>4 DEF Job
  <2>6. Outcome(t, rs) = RepeatOutcome(t, rs)
        BY <1>1, <1>2, <1>8, OutcomeCases, LoopOutcomeCases
  <2> QED BY <2>1, <2>2, <2>4, <2>5, <2>6
<1>9. RepeatInBounds(t) <=> WithinBounds(s, n)
      BY <1>1 DEF RepeatInBounds, WithinBounds
<1>10. ASSUME Open(t)
       PROVE  /\ Status(s, e, p) = "accept" => WithinBounds(s, n) /\ \A i \in 1..n : Says(i, "accept")
              /\ WithinBounds(s, n) /\ (\A i \in 1..n : ~Says(i, "reject")) => Status(s, e, p) # "reject"
  <2> HIDE DEF t, rs, n, Says
  <2> DEFINE all == Every(20, rs, n)
  <2>1. Status(s, e, p) = RepeatOutcome(t, rs).st /\ LoopLen(t) = n
        BY <1>1, <1>8, <1>10
  <2>2. /\ DOMAIN rs \subseteq Nat /\ \A i \in DOMAIN rs : Decided(rs[i])
        /\ \A i \in DOMAIN rs : i <= n <=> TRUE
        BY <1>3, <1>8, <1>10
  <2>3. /\ all.st = "accept" => \A i \in DOMAIN rs : i <= n => rs[i].st = "accept"
        /\ (\A i \in DOMAIN rs : i <= n => rs[i].st # "reject") => all.st # "reject"
        BY <1>3, <2>2, EveryDecided, EveryUnrejected
  <2> HIDE DEF all
  <2>4. RepeatOutcome(t, rs).st = IF all.st # "accept" \/ WithinBounds(s, n) THEN all.st ELSE "reject"
        BY <1>9, <2>1, DecidedBasics DEF RepeatOutcome, all, Reject
  <2> QED BY <1>8, <1>10, <2>1, <2>2, <2>3, <2>4
<1> QED BY <1>3, <1>4, <1>5, <1>6, <1>7, <1>10

LEMMA RepeatsAlike ==
  ASSUME NEW a \in Shape, NEW b \in Shape, KindOf(a) = "repeat", KindOf(b) = "repeat",
         \A n \in Nat : WithinBounds(a, n) => WithinBounds(b, n),
         Keeps(KidsOf(a)[1], KidsOf(b)[1])
  PROVE  Keeps(a, b)
<1>1. ~Total[a]
      BY TotalCases
<1>2. ASSUME NEW e \in Expr, NEW p \in Paths, Status(a, e, p) = "accept"
      PROVE  Status(b, e, p) # "reject"
  <2> DEFINE n == Len(Term[e].items)
             path == RepeatPath(e, p)
  <2>1. /\ RepeatOpens(e) /\ WithinBounds(a, n) /\ n \in Nat /\ path \in Paths
        /\ \A i \in 1..n : Term[e].items[i] \in Expr
                           /\ Status(KidsOf(a)[1], Term[e].items[i], path) = "accept"
        BY <1>2, RepeatAnswers
  <2>2. \A i \in 1..n : Status(KidsOf(b)[1], Term[e].items[i], path) # "reject"
        BY <2>1 DEF Keeps, Included
  <2> QED BY <2>1, <2>2, RepeatAnswers
<1> QED BY <1>1, <1>2 DEF Keeps, Included

LEMMA RepeatKeeps ==
  ASSUME NEW a \in Shape, NEW b \in Shape, KindOf(a) = "repeat",
         NEW premises \in OwnRule(a, b), \A p \in premises : Keeps(p[1], p[2])
  PROVE  Keeps(a, b)
<1>1. /\ KindOf(b) = "repeat" /\ Node[b].min <= Node[a].min
      /\ Node[b].max # None => Node[a].max # None /\ Node[a].max <= Node[b].max
      /\ premises = Pairwise(a, b)
      BY OwnRuleCases DEF RepeatRule, When, SameKind
<1>2. 1 \in Positions(a) /\ 1 \in Positions(b)
      BY <1>1, ShapeParts DEF NodeOK
<1>3. Keeps(KidsOf(a)[1], KidsOf(b)[1])
      BY <1>1, <1>2, PairwiseKeeps
<1>4. ASSUME NEW n \in Nat, WithinBounds(a, n) PROVE WithinBounds(b, n)
  <2>1. /\ Node[a].min \in Nat /\ Node[b].min \in Nat
        /\ Node[a].max \in Nat \cup {None} /\ Node[b].max \in Nat \cup {None}
        BY ShapeParts DEF NodeType
  <2> QED BY <1>1, <1>4, <2>1 DEF WithinBounds
<1> QED BY <1>1, <1>3, <1>4, RepeatsAlike

(* A table asks a field's shape of the entry with its key and its extra    *)
(* shape of the entries without a field.                                   *)
TableOpens(e) ==
  /\ Term[e].form = "map" /\ NoDuplicates(Term[e].keys)
  /\ \A k \in DOMAIN Term[e].keys : Term[e].keys[k] # None
FieldNames(s) == {Node[s].keys[i] : i \in Positions(s)}
Entries(e) == DOMAIN Term[e].keys
EntryKey(e, k) == Term[e].keys[k]

TableSays(s, e, p, sts) ==
  /\ \A i \in Positions(s), k \in Entries(e) :
       EntryKey(e, k) = Node[s].keys[i] => Status(KidsOf(s)[i], Term[e].items[k], p) \in sts
  /\ \A k \in Entries(e) :
       EntryKey(e, k) \notin FieldNames(s) /\ Node[s].extra = "shape" =>
         Status(Node[s].rest, Term[e].items[k], p) \in sts
  /\ \A i \in Positions(s) :
       Node[s].needed[i] => \E k \in Entries(e) : EntryKey(e, k) = Node[s].keys[i]
  /\ Node[s].extra = "reject" => \A k \in Entries(e) : EntryKey(e, k) \in FieldNames(s)

(* The entry a key leads to is the one with the key.                       *)
LEMMA EntryFound ==
  ASSUME NEW t \in Task, TableOpens(t.expr), NEW key
  PROVE  /\ \A k \in Entries(t.expr) : EntryKey(t.expr, k) = key => EntryOf(t, key) = k
         /\ EntryOf(t, key) # 0 =>
              EntryOf(t, key) \in Entries(t.expr) /\ EntryKey(t.expr, EntryOf(t, key)) = key
         /\ EntryOf(t, key) = 0 <=> \A k \in Entries(t.expr) : EntryKey(t.expr, k) # key
<1>1. Keys(t) = Term[t.expr].keys /\ Entries(t.expr) = DOMAIN Keys(t) /\ 0 \notin DOMAIN Keys(t)
      BY PartsTyped DEF Keys, Entries
<1>2. \A k \in DOMAIN Keys(t) : EntryKey(t.expr, k) = Keys(t)[k]
      BY <1>1 DEF EntryKey
<1>3. CASE \E i \in DOMAIN Keys(t) : Keys(t)[i] = key
  <2> DEFINE j == CHOOSE i \in DOMAIN Keys(t) : Keys(t)[i] = key
  <2>1. j \in DOMAIN Keys(t) /\ Keys(t)[j] = key
        BY <1>3
  <2>2. EntryOf(t, key) = j
        BY <1>3 DEF EntryOf
  <2> HIDE DEF j
  <2>3. \A i \in DOMAIN Keys(t) : Keys(t)[i] = key => i = j
        BY <1>1, <2>1 DEF TableOpens, NoDuplicates
  <2> QED BY <1>1, <1>2, <2>1, <2>2, <2>3
<1>4. CASE ~\E i \in DOMAIN Keys(t) : Keys(t)[i] = key
  <2>1. EntryOf(t, key) = 0
        BY <1>4 DEF EntryOf
  <2> QED BY <1>1, <1>2, <1>4, <2>1
<1> QED BY <1>3, <1>4

(* What a table's loop asks at each turn.                                  *)
LEMMA TableTurns ==
  ASSUME NEW s \in Shape, KindOf(s) = "table", NEW e \in Expr, NEW p \in Paths, TableOpens(e)
  PROVE  LET t == Job(s, e, p)  n == Len(KidsOf(s))  m == Len(Term[e].keys) IN
         /\ n \in Nat /\ m \in Nat /\ Positions(s) = 1..n /\ Entries(e) = 1..m
         /\ LoopLen(t) = n + m
         /\ \A k \in Entries(e) : Term[e].items[k] \in Expr
         /\ \A i \in 1..n :
              /\ Child(t, i) = None <=> EntryOf(t, Node[s].keys[i]) = 0
              /\ \A k \in Entries(e) : EntryKey(e, k) = Node[s].keys[i] =>
                   Child(t, i) = Job(KidsOf(s)[i], Term[e].items[k], p) /\ Child(t, i) # None
         /\ \A k \in Entries(e) :
              /\ n + k \in (n+1)..(n+m)
              /\ EntryKey(e, k) \in FieldNames(s) \/ Node[s].extra # "shape" => Child(t, n + k) = None
              /\ ~(EntryKey(e, k) \in FieldNames(s) \/ Node[s].extra # "shape") =>
                   Child(t, n + k) = Job(Node[s].rest, Term[e].items[k], p) /\ Child(t, n + k) # None
<1> DEFINE t == Job(s, e, p)
           n == Len(KidsOf(s))
           m == Len(Term[e].keys)
<1>1. /\ t \in Task /\ t.shape = s /\ t.expr = e /\ t.path = p
      /\ Kind(t) = "table" /\ Kids(t) = KidsOf(s)
      /\ Items(t) = Term[e].items /\ Keys(t) = Term[e].keys
      BY Asked DEF Items, Keys
<1> HIDE DEF t
<1>2. n \in Nat /\ m \in Nat /\ Positions(s) = 1..n /\ Entries(e) = 1..m
      BY <1>1, PartsTyped, ShapeParts DEF Entries
<1>3. \A k \in Entries(e) : Term[e].items[k] \in Expr
  <2>1. Term[e].form \in {"map", "object"}
        BY DEF TableOpens
  <2>2. Len(Keys(t)) = Len(Items(t))
        BY <1>1, <2>1, EntryTyped DEF Form
  <2> QED BY <1>1, <1>2, <2>2, PartsTyped
<1>4. LoopLen(t) = n + m /\ \A i : Child(t, i) = TableChild(t, i)
      BY <1>1, LoopCases
<1>5. \A x \in Shape, y \in Expr : Job(x, y, p) # None
      BY JobTyped, GraphAssumption DEF GraphAssumption
<1>6. \A i \in 1..n : KidsOf(s)[i] \in Shape
      BY <1>2, ShapeParts
<1>7. Node[s].extra = "shape" => Node[s].rest \in Shape
      BY ShapeParts DEF NodeOK
<1> HIDE DEF n, m
<1>8. ASSUME NEW i \in 1..n
      PROVE  /\ Child(t, i) = None <=> EntryOf(t, Node[s].keys[i]) = 0
             /\ \A k \in Entries(e) : EntryKey(e, k) = Node[s].keys[i] =>
                  Child(t, i) = Job(KidsOf(s)[i], Term[e].items[k], p) /\ Child(t, i) # None
  <2> DEFINE key == Node[s].keys[i]
             j == EntryOf(t, key)
  <2>1. Child(t, i) = IF j = 0 THEN None ELSE Job(KidsOf(s)[i], Term[e].items[j], p)
        BY <1>1, <1>2, <1>4 DEF TableChild, FieldKey, n
  <2>2. /\ j # 0 => j \in Entries(e)
        /\ \A k \in Entries(e) : EntryKey(e, k) = key => j = k
        BY <1>1, EntryFound
  <2>3. 0 \notin Entries(e)
        BY <1>2
  <2> HIDE DEF j, key
  <2>4. j # 0 => Child(t, i) # None
        BY <1>3, <1>5, <1>6, <2>1, <2>2
  <2>5. \A k \in Entries(e) : EntryKey(e, k) = key => j # 0 /\ j = k
        BY <2>2, <2>3
  <2>6. \A k \in Entries(e) : EntryKey(e, k) = key =>
          Child(t, i) = Job(KidsOf(s)[i], Term[e].items[k], p) /\ Child(t, i) # None
        BY <2>1, <2>4, <2>5
  <2> QED BY <2>1, <2>4, <2>6 DEF j, key
<1>9. ASSUME NEW k \in Entries(e)
      PROVE  /\ n + k \in (n+1)..(n+m)
             /\ EntryKey(e, k) \in FieldNames(s) \/ Node[s].extra # "shape" => Child(t, n + k) = None
             /\ ~(EntryKey(e, k) \in FieldNames(s) \/ Node[s].extra # "shape") =>
                  Child(t, n + k) = Job(Node[s].rest, Term[e].items[k], p) /\ Child(t, n + k) # None
  <2>1. n + k \in (n+1)..(n+m) /\ ~(n + k <= n) /\ (n + k) - n = k
        BY <1>2
  <2>2. FieldKeys(t) = FieldNames(s)
        BY <1>1 DEF FieldKeys, FieldKey, FieldNames, Positions
  <2> DEFINE place == n + k
  <2>3. TableChild(t, place) =
          IF Keys(t)[place - n] \in FieldKeys(t) \/ Node[s].extra # "shape"
          THEN None ELSE Job(Node[s].rest, Items(t)[place - n], p)
    <3> HIDE DEF place
    <3> QED BY <1>1, <2>1 DEF TableChild, n, place
  <2>4. Child(t, n + k) = IF EntryKey(e, k) \in FieldNames(s) \/ Node[s].extra # "shape"
                          THEN None ELSE Job(Node[s].rest, Term[e].items[k], p)
        BY <1>1, <1>4, <2>1, <2>2, <2>3 DEF EntryKey
  <2> QED BY <1>3, <1>5, <1>7, <2>1, <2>4
<1> QED BY <1>2, <1>3, <1>4, <1>8, <1>9 DEF t, n, m

LEMMA TableAnswers ==
  ASSUME NEW s \in Shape, KindOf(s) = "table", NEW e \in Expr, NEW p \in Paths
  PROVE  /\ Status(s, e, p) = "accept" => TableOpens(e) /\ TableSays(s, e, p, {"accept"})
         /\ TableOpens(e) /\ TableSays(s, e, p, {"accept", "error"}) => Status(s, e, p) # "reject"
<1> DEFINE q == Ask(s, e, p)
           t == Job(s, e, p)
           rs == Outcomes(q)
           n == Len(KidsOf(s))
           m == Len(Term[e].keys)
           fields == Every(20, rs, n)
           all == Every(20, rs, n + m)
           lost == Absent(t) # {} \/ (Node[s].extra = "reject" /\ Extras(t) # {})
<1>1. /\ t \in Task /\ t.shape = s /\ t.expr = e /\ t.path = p
      /\ Kind(t) = "table" /\ Kids(t) = KidsOf(s) /\ Keys(t) = Term[e].keys
      /\ Status(s, e, p) = Outcome(t, rs).st
      /\ DOMAIN rs = Places(q) /\ DOMAIN rs \subseteq Nat
      BY Asked DEF Keys
<1>2. KindOf(s) \in LoopKinds /\ Kind(t) \in LoopKinds
      BY <1>1 DEF LoopKinds, AllKinds
<1>3. Open(t) <=> TableOpens(e)
  <2>1. Refuses(t) <=> TableRefuses(t)
        BY <1>1 DEF Refuses
  <2>2. ~EntryFails(t)
        BY <1>1 DEF EntryFails
  <2>3. TableRefuses(t) <=> ~TableOpens(e)
        BY <1>1 DEF TableRefuses, TableOpens, Form, SymbolKeys
  <2> QED BY <1>2, <2>1, <2>2, <2>3 DEF Open
<1>4. ~Open(t) => Status(s, e, p) = "reject"
  <2>1. ~EntryFails(t) /\ (~Open(t) => Refuses(t))
        BY <1>1, <1>2 DEF EntryFails, Open
  <2> HIDE DEF t, rs
  <2> QED BY <1>1, <1>2, <2>1, OutcomeCases DEF Reject
<1>5. SUFFICES ASSUME TableOpens(e), Open(t)
               PROVE  /\ Status(s, e, p) = "accept" => TableSays(s, e, p, {"accept"})
                      /\ TableSays(s, e, p, {"accept", "error"}) => Status(s, e, p) # "reject"
      BY <1>3, <1>4
<1>6. /\ n \in Nat /\ m \in Nat /\ Positions(s) = 1..n /\ Entries(e) = 1..m /\ LoopLen(t) = n + m
      /\ \A i \in 1..n :
           /\ Child(t, i) = None <=> EntryOf(t, Node[s].keys[i]) = 0
           /\ \A k \in Entries(e) : EntryKey(e, k) = Node[s].keys[i] =>
                Child(t, i) = Job(KidsOf(s)[i], Term[e].items[k], p) /\ Child(t, i) # None
      /\ \A k \in Entries(e) :
           /\ n + k \in (n+1)..(n+m)
           /\ EntryKey(e, k) \in FieldNames(s) \/ Node[s].extra # "shape" => Child(t, n + k) = None
           /\ ~(EntryKey(e, k) \in FieldNames(s) \/ Node[s].extra # "shape") =>
                Child(t, n + k) = Job(Node[s].rest, Term[e].items[k], p) /\ Child(t, n + k) # None
      BY <1>5, TableTurns
<1>7. /\ DOMAIN rs = {i \in 1..(n + m) : Child(t, i) # None}
      /\ \A i \in DOMAIN rs :
           LET c == Child(t, i) IN
           Decided(rs[i]) /\ rs[i].st = Status(c.shape, c.expr, c.path)
      BY <1>1, <1>2, <1>5, <1>6, ChildAsked
<1>8. \A i \in Positions(s) : Missing(t, i) <=>
        Node[s].needed[i] /\ ~\E k \in Entries(e) : EntryKey(e, k) = Node[s].keys[i]
      BY <1>1, <1>5, EntryFound DEF Missing, FieldKey
<1>9. lost <=> \/ \E i \in Positions(s) :
                    Node[s].needed[i] /\ ~\E k \in Entries(e) : EntryKey(e, k) = Node[s].keys[i]
               \/ Node[s].extra = "reject" /\ \E k \in Entries(e) : EntryKey(e, k) \notin FieldNames(s)
  <2>1. FieldKeys(t) = FieldNames(s)
        BY <1>1 DEF FieldKeys, FieldKey, FieldNames, Positions
  <2>2. Absent(t) = {i \in Positions(s) : Missing(t, i)}
        BY <1>1 DEF Absent, Positions
  <2>3. Extras(t) = {k \in Entries(e) : EntryKey(e, k) \notin FieldNames(s)}
        BY <1>1, <2>1 DEF Extras, Entries, EntryKey
  <2> HIDE DEF t
  <2> QED BY <1>8, <2>2, <2>3
<1> HIDE DEF q, t, rs, n, m, lost
<1>10. /\ n + m \in Nat /\ n <= n + m
       /\ \A i \in DOMAIN rs : Decided(rs[i]) /\ i <= n + m
       BY <1>6, <1>7
<1>11. /\ all.st = "accept" => \A i \in DOMAIN rs : rs[i].st = "accept"
       /\ (\A i \in DOMAIN rs : rs[i].st # "reject") => fields.st # "reject" /\ all.st # "reject"
  <2>1. all.st = "accept" => \A i \in DOMAIN rs : i <= n + m => rs[i].st = "accept"
        BY <1>1, <1>10, EveryDecided
  <2>2. (\A i \in DOMAIN rs : rs[i].st # "reject") => all.st # "reject"
        BY <1>1, <1>10, EveryUnrejected
  <2>3. (\A i \in DOMAIN rs : rs[i].st # "reject") => fields.st # "reject"
        BY <1>1, <1>6, EveryUnrejected
  <2> QED BY <1>10, <2>1, <2>2, <2>3
<1>12. Status(s, e, p) = IF fields.st # "accept" THEN fields.st ELSE IF lost THEN "reject" ELSE all.st
  <2>1. Outcome(t, rs) = TableOutcome(t, rs)
        BY <1>1, <1>2, <1>5, OutcomeCases, LoopOutcomeCases
  <2>2. TableOutcome(t, rs).st = IF fields.st # "accept" THEN fields.st ELSE IF lost THEN "reject" ELSE all.st
    <3>1. Len(Kids(t)) = n /\ LoopLen(t) = n + m /\ t.shape = s
          BY <1>1, <1>6 DEF n
    <3> HIDE DEF fields, all
    <3>2. TableOutcome(t, rs) = IF fields.st # "accept" THEN fields
                                ELSE IF lost THEN Reject ELSE With(all, "matched-keys", t.expr, 0)
          BY <3>1 DEF TableOutcome, fields, all, lost
    <3> QED BY <3>2, DecidedBasics DEF Reject
  <2> QED BY <1>1, <2>1, <2>2
<1> HIDE DEF fields, all
<1>13. ASSUME Status(s, e, p) = "accept" PROVE TableSays(s, e, p, {"accept"})
  <2>1. ~lost /\ \A i \in DOMAIN rs : rs[i].st = "accept"
        BY <1>11, <1>12, <1>13
  <2>2. ASSUME NEW i \in Positions(s), NEW k \in Entries(e), EntryKey(e, k) = Node[s].keys[i]
        PROVE  Status(KidsOf(s)[i], Term[e].items[k], p) = "accept"
    <3>1. Child(t, i) = Job(KidsOf(s)[i], Term[e].items[k], p) /\ i \in DOMAIN rs
          BY <1>6, <1>7, <2>2
    <3> QED BY <1>7, <2>1, <3>1 DEF Job
  <2>3. ASSUME NEW k \in Entries(e), EntryKey(e, k) \notin FieldNames(s), Node[s].extra = "shape"
        PROVE  Status(Node[s].rest, Term[e].items[k], p) = "accept"
    <3>1. /\ Child(t, n + k) = Job(Node[s].rest, Term[e].items[k], p)
          /\ Child(t, n + k) # None /\ n + k \in 1..(n + m)
          BY <1>6, <2>3
    <3>2. n + k \in DOMAIN rs
          BY <1>7, <3>1
    <3> QED BY <1>7, <2>1, <3>1, <3>2 DEF Job
  <2> QED BY <1>9, <2>1, <2>2, <2>3 DEF TableSays
<1>14. ASSUME TableSays(s, e, p, {"accept", "error"}) PROVE Status(s, e, p) # "reject"
  <2>1. ~lost
        BY <1>9, <1>14 DEF TableSays
  <2>2. ASSUME NEW i \in DOMAIN rs PROVE rs[i].st # "reject"
    <3>1. i \in 1..(n + m) /\ Child(t, i) # None
          BY <1>7
    <3>2. CASE i <= n
      <4>1. i \in 1..n
            BY <1>6, <3>1, <3>2
      <4>2. EntryOf(t, Node[s].keys[i]) # 0
            BY <1>6, <3>1, <4>1
      <4>3. PICK k \in Entries(e) : EntryKey(e, k) = Node[s].keys[i]
            BY <1>1, <1>5, <4>2, EntryFound
      <4>4. Child(t, i) = Job(KidsOf(s)[i], Term[e].items[k], p)
            BY <1>6, <4>1, <4>3
      <4>5. Status(KidsOf(s)[i], Term[e].items[k], p) \in {"accept", "error"}
            BY <1>6, <1>14, <4>1, <4>3 DEF TableSays
      <4> QED BY <1>7, <4>4, <4>5 DEF Job
    <3>3. CASE ~(i <= n)
      <4>1. i - n \in Entries(e) /\ n + (i - n) = i
            BY <1>6, <3>1, <3>3
      <4>2. PICK k \in Entries(e) : n + k = i
            BY <4>1
      <4>3. EntryKey(e, k) \notin FieldNames(s) /\ Node[s].extra = "shape"
            BY <1>6, <3>1, <4>2
      <4>4. Child(t, i) = Job(Node[s].rest, Term[e].items[k], p)
            BY <1>6, <4>2, <4>3
      <4>5. Status(Node[s].rest, Term[e].items[k], p) \in {"accept", "error"}
            BY <1>14, <4>3 DEF TableSays
      <4> QED BY <1>7, <4>4, <4>5 DEF Job
    <3> QED BY <3>2, <3>3
  <2> QED BY <1>11, <1>12, <2>1, <2>2
<1> QED BY <1>13, <1>14

LEMMA TableKeeps ==
  ASSUME NEW a \in Shape, NEW b \in Shape, KindOf(a) = "table",
         NEW premises \in OwnRule(a, b), \A p \in premises : Keeps(p[1], p[2]),
         OpenTablesNotTotal
  PROVE  Keeps(a, b)
<1> DEFINE applies == /\ SameKind(a, b)
                      /\ \A j \in Positions(b) : ParentFieldCompatible(a, b, j)
                      /\ Node[b].extra = "reject" => NewFields(a, b) = {}
                      /\ ExtraAtLeastAsStrict(a, b)
           asked == UNION {ParentFieldPremises(a, b, j) : j \in Positions(b)}
           extras == IF Node[b].extra # "shape" THEN {}
                     ELSE {<<KidsOf(a)[i], Node[b].rest>> : i \in NewFields(a, b)}
                          \cup {<<x, Node[b].rest>> : x \in {Node[a].rest} \ {None}}
<1>1. applies /\ premises = asked \cup extras
  <2>1. OwnRule(a, b) = TableRule(a, b)
        BY OwnRuleCases
  <2>2. TableRule(a, b) = When(applies, asked \cup extras)
        BY DEF TableRule
  <2> HIDE DEF applies, asked, extras
  <2> QED BY <2>1, <2>2 DEF When
<1>2. KindOf(b) = "table" /\ ~Total[a]
      BY <1>1 DEF SameKind, OpenTablesNotTotal
<1>3. ASSUME NEW j \in Positions(b)
      PROVE  LET i == FieldAt(a, Node[b].keys[j]) IN
             /\ i # 0 => /\ i \in Positions(a) /\ Node[a].keys[i] = Node[b].keys[j]
                         /\ Node[b].needed[j] => Node[a].needed[i]
                         /\ Keeps(KidsOf(a)[i], KidsOf(b)[j])
             /\ i = 0 => /\ Node[b].keys[j] \notin FieldNames(a)
                         /\ ~Node[b].needed[j] /\ Node[a].extra # "allow"
                         /\ Node[a].rest # None => Keeps(Node[a].rest, KidsOf(b)[j])
  <2> DEFINE i == FieldAt(a, Node[b].keys[j])
  <2>1. ParentFieldCompatible(a, b, j) /\ ParentFieldPremises(a, b, j) \subseteq premises
        BY <1>1
  <2>2. /\ i # 0 => i \in Positions(a) /\ Node[a].keys[i] = Node[b].keys[j]
        /\ i = 0 => \A k \in Positions(a) : Node[a].keys[k] # Node[b].keys[j]
        BY FieldPlace
  <2>3. ASSUME i # 0 PROVE Keeps(KidsOf(a)[i], KidsOf(b)[j])
    <3>1. <<KidsOf(a)[i], KidsOf(b)[j]>> \in premises
          BY <2>1, <2>3 DEF ParentFieldPremises
    <3> HIDE DEF i
    <3> QED BY <3>1
  <2>4. ASSUME i = 0, Node[a].rest # None PROVE Keeps(Node[a].rest, KidsOf(b)[j])
    <3>1. <<Node[a].rest, KidsOf(b)[j]>> \in premises
          BY <2>1, <2>4 DEF ParentFieldPremises
    <3> QED BY <3>1
  <2> QED BY <2>1, <2>2, <2>3, <2>4 DEF ParentFieldCompatible, FieldNames
<1>4. ASSUME Node[b].extra = "shape", NEW i \in NewFields(a, b)
      PROVE  Keeps(KidsOf(a)[i], Node[b].rest)
  <2>1. <<KidsOf(a)[i], Node[b].rest>> \in extras
        BY <1>4
  <2> QED BY <1>1, <2>1
<1>5. ASSUME Node[b].extra = "shape", Node[a].rest # None
      PROVE  Keeps(Node[a].rest, Node[b].rest)
  <2>1. <<Node[a].rest, Node[b].rest>> \in extras
        BY <1>5
  <2> QED BY <1>1, <2>1
<1>6. /\ Node[b].extra = "reject" => NewFields(a, b) = {}
      /\ \/ Node[b].extra = "allow" \/ Node[a].extra = "reject"
         \/ Node[a].extra = "shape" /\ Node[b].extra = "shape"
      BY <1>1 DEF ExtraAtLeastAsStrict
<1>7. /\ Node[a].extra = "shape" => Node[a].rest \in Shape /\ Node[a].rest # None
      /\ Node[b].extra = "shape" => Node[b].rest \in Shape
      /\ Node[a].extra \in {"allow", "reject", "shape"}
      BY <1>2, ShapeParts DEF NodeOK, NodeType
<1>8. \A i \in Positions(a) : i \in NewFields(a, b) <=> Node[a].keys[i] \notin FieldNames(b)
  <2>1. \A i \in Positions(a) : FieldAt(b, Node[a].keys[i]) = 0 <=> Node[a].keys[i] \notin FieldNames(b)
        BY FieldPlace DEF FieldNames
  <2> QED BY <2>1 DEF NewFields
<1> HIDE DEF applies, asked, extras
<1>9. ASSUME NEW e \in Expr, NEW p \in Paths, Status(a, e, p) = "accept"
      PROVE  Status(b, e, p) # "reject"
  <2> DEFINE Said(s, k) == Status(s, Term[e].items[k], p)
  <2>1. TableOpens(e) /\ TableSays(a, e, p, {"accept"})
        BY <1>9, TableAnswers
  <2>2. \A k \in Entries(e) : Term[e].items[k] \in Expr
        BY <2>1, TableTurns
  <2>3. /\ \A i \in Positions(a) : KidsOf(a)[i] \in Shape
        /\ \A j \in Positions(b) : KidsOf(b)[j] \in Shape
        BY ShapeParts
  <2>4. \A x \in Shape, y \in Shape, k \in Entries(e) :
          Keeps(x, y) /\ Said(x, k) = "accept" => Said(y, k) \in {"accept", "error"}
    <3>1. \A y \in Shape, k \in Entries(e) : Said(y, k) \in {"accept", "reject", "error"}
          BY <2>2, Asked
    <3> QED BY <2>2, <3>1 DEF Keeps, Included
  <2>5. /\ \A i \in Positions(a), k \in Entries(e) :
             EntryKey(e, k) = Node[a].keys[i] => Said(KidsOf(a)[i], k) = "accept"
        /\ \A k \in Entries(e) :
             EntryKey(e, k) \notin FieldNames(a) /\ Node[a].extra = "shape" =>
               Said(Node[a].rest, k) = "accept"
        /\ \A i \in Positions(a) :
             Node[a].needed[i] => \E k \in Entries(e) : EntryKey(e, k) = Node[a].keys[i]
        /\ Node[a].extra = "reject" => \A k \in Entries(e) : EntryKey(e, k) \in FieldNames(a)
        BY <2>1 DEF TableSays
  <2> HIDE DEF Said
  <2>6. ASSUME NEW j \in Positions(b), NEW k \in Entries(e), EntryKey(e, k) = Node[b].keys[j]
        PROVE  Said(KidsOf(b)[j], k) \in {"accept", "error"}
    <3> DEFINE i == FieldAt(a, Node[b].keys[j])
    <3>1. CASE i # 0
      <4>1. i \in Positions(a) /\ Node[a].keys[i] = Node[b].keys[j] /\ Keeps(KidsOf(a)[i], KidsOf(b)[j])
            BY <1>3, <3>1
      <4> HIDE DEF i
      <4> QED BY <2>3, <2>4, <2>5, <2>6, <4>1
    <3>2. CASE i = 0
      <4>1. /\ Node[b].keys[j] \notin FieldNames(a) /\ Node[a].extra # "allow"
            /\ Node[a].rest # None => Keeps(Node[a].rest, KidsOf(b)[j])
            BY <1>3, <3>2
      <4>2. Node[a].extra = "shape"
            BY <1>7, <2>5, <2>6, <4>1
      <4> QED BY <1>7, <2>3, <2>4, <2>5, <2>6, <4>1, <4>2
    <3> QED BY <3>1, <3>2
  <2>7. ASSUME NEW k \in Entries(e), EntryKey(e, k) \notin FieldNames(b), Node[b].extra = "shape"
        PROVE  Said(Node[b].rest, k) \in {"accept", "error"}
    <3>1. CASE \E i \in Positions(a) : Node[a].keys[i] = EntryKey(e, k)
      <4>1. PICK i \in Positions(a) : Node[a].keys[i] = EntryKey(e, k)
            BY <3>1
      <4>2. Keeps(KidsOf(a)[i], Node[b].rest)
            BY <1>4, <1>8, <2>7, <4>1
      <4> QED BY <1>7, <2>3, <2>4, <2>5, <2>7, <4>1, <4>2
    <3>2. CASE ~\E i \in Positions(a) : Node[a].keys[i] = EntryKey(e, k)
      <4>1. EntryKey(e, k) \notin FieldNames(a)
            BY <3>2 DEF FieldNames
      <4>2. Node[a].extra = "shape"
            BY <1>6, <2>5, <2>7, <4>1
      <4>3. Keeps(Node[a].rest, Node[b].rest)
            BY <1>5, <1>7, <2>7, <4>2
      <4> QED BY <1>7, <2>4, <2>5, <2>7, <4>1, <4>2, <4>3
    <3> QED BY <3>1, <3>2
  <2>8. ASSUME NEW j \in Positions(b), Node[b].needed[j]
        PROVE  \E k \in Entries(e) : EntryKey(e, k) = Node[b].keys[j]
    <3> DEFINE i == FieldAt(a, Node[b].keys[j])
    <3>1. i # 0
          BY <1>3, <2>8
    <3>2. i \in Positions(a) /\ Node[a].keys[i] = Node[b].keys[j] /\ Node[a].needed[i]
          BY <1>3, <2>8, <3>1
    <3> HIDE DEF i
    <3> QED BY <2>5, <3>2
  <2>9. ASSUME Node[b].extra = "reject", NEW k \in Entries(e)
        PROVE  EntryKey(e, k) \in FieldNames(b)
    <3>1. EntryKey(e, k) \in FieldNames(a)
          BY <1>6, <2>5, <2>9
    <3>2. PICK i \in Positions(a) : Node[a].keys[i] = EntryKey(e, k)
          BY <3>1 DEF FieldNames
    <3> QED BY <1>6, <1>8, <2>9, <3>2
  <2>10. TableSays(b, e, p, {"accept", "error"})
         BY <2>6, <2>7, <2>8, <2>9 DEF TableSays, Said
  <2> QED BY <1>2, <2>1, <2>10, TableAnswers
<1> QED BY <1>2, <1>9 DEF Keeps, Included

-----------------------------------------------------------------------------
(* A shape below another accepts nothing the other rejects.                *)
LEMMA SubshapeKeeps ==
  ASSUME Trusted, NEW a \in Shape, NEW b \in Shape, Subshape[<<a, b>>]
  PROVE  Keeps(a, b)
<1>1. HierarchyHonoured /\ OpenTablesNotTotal
      BY DEF Trusted, OpenTablesNotTotal
<1> DEFINE D == Shape \X Shape
           Wrong(n) == \E x \in D : PairSize[x] = n /\ Subshape[x] /\ ~Keeps(x[1], x[2])
           Sizes == {n \in Nat : Wrong(n)}
<1>2. \A x \in D : PairSize[x] \in Nat
  <2>1. \A s \in Shape : Height[s] \in Nat
        BY ShapeParts
  <2> QED BY <2>1 DEF PairSize
<1>3. SUFFICES ASSUME ~Keeps(a, b) PROVE FALSE
      OBVIOUS
<1>4. PairSize[<<a, b>>] \in Sizes
      BY <1>2, <1>3
<1>5. PICK n \in Sizes : \A k \in Sizes : n <= k
  <2> HIDE DEF Wrong
  <2> QED BY <1>4, FirstPlace
<1>6. PICK x \in D : PairSize[x] = n /\ Subshape[x] /\ ~Keeps(x[1], x[2])
      BY <1>5
<1>7. PICK y \in Shape, z \in Shape : x = <<y, z>>
      BY <1>6
<1>8. \A w \in D : PairSize[w] < PairSize[x] /\ Subshape[w] => Keeps(w[1], w[2])
      BY <1>2, <1>5, <1>6
<1> HIDE DEF Wrong, Sizes
<1>9. CASE BelowAny(y, z)
      BY <1>6, <1>7, <1>9, AnyKeeps DEF BelowAny
<1>10. CASE ~BelowAny(y, z)
  <2>1. PICK premises \in OwnRule(y, z) : \A p \in premises : Subshape[p]
        BY <1>6, <1>7, <1>10, SubshapeEquation
  <2>2. \A p \in premises : Keeps(p[1], p[2])
        BY <1>7, <1>8, <2>1, PremisesSmaller
  <2> DEFINE Rules == {"exprKind", "exact", "class", "and", "or", "best", "oneOf", "not",
                       "capture", "effectful", "list", "repeat", "table"}
  <2>3. KindOf(y) \in Rules
        BY <2>1, OwnRuleCases
  <2>4. CASE KindOf(y) \in {"exprKind", "exact"}
        BY <1>6, <1>7, <2>1, <2>4, LeafKeeps
  <2>5. CASE KindOf(y) = "class"
        BY <1>1, <1>6, <1>7, <2>1, <2>5, ClassKeeps
  <2>6. CASE KindOf(y) = "and"
        BY <1>6, <1>7, <2>1, <2>2, <2>6, AndKeeps
  <2>7. CASE KindOf(y) \in {"or", "best", "oneOf"}
        BY <1>6, <1>7, <2>1, <2>2, <2>7, OrKeeps
  <2>8. CASE KindOf(y) = "not"
        BY <1>6, <1>7, <2>1, <2>2, <2>8, NotKeeps
  <2>9. CASE KindOf(y) \in {"capture", "effectful"}
        BY <1>6, <1>7, <2>1, <2>2, <2>9, WrapperKeeps
  <2>10. CASE KindOf(y) = "list"
         BY <1>6, <1>7, <2>1, <2>2, <2>10, ListKeeps
  <2>11. CASE KindOf(y) = "repeat"
         BY <1>6, <1>7, <2>1, <2>2, <2>11, RepeatKeeps
  <2>12. CASE KindOf(y) = "table"
         BY <1>1, <1>6, <1>7, <2>1, <2>2, <2>12, TableKeeps
  <2> QED BY <2>3, <2>4, <2>5, <2>6, <2>7, <2>8, <2>9, <2>10, <2>11, <2>12
<1> QED BY <1>9, <1>10

-----------------------------------------------------------------------------
(* Separation.                                                             *)

Separations == {None, "negation", "exact", "lengths", "field"}

LEMMA NeededPlace ==
  ASSUME NEW s \in Shape, NEW key, FirstNeeded(s, key) # 0
  PROVE  LET i == FirstNeeded(s, key) IN
         i \in Positions(s) /\ Node[s].needed[i] /\ Node[s].keys[i] = key
<1> DEFINE at == {i \in Positions(s) : Node[s].needed[i] /\ Node[s].keys[i] = key}
<1>1. FirstNeeded(s, key) = IF at = {} THEN 0 ELSE Min(at)
      BY DEF FirstNeeded
<1>2. at \in SUBSET Nat
      BY ShapeParts
<1>3. at # {} => Min(at) \in at
  <2> HIDE DEF at
  <2> QED BY <1>2, MinIs
<1> QED BY <1>1, <1>3

(* The fields two closed tables are separated by are shapes they are built *)
(* of, under the same key.                                                 *)
LEMMA FieldPair ==
  ASSUME NEW a \in Shape, NEW b \in Shape, NEW p \in ClosedTableFields(a, b)
  PROVE  /\ KindOf(a) = "table" /\ KindOf(b) = "table"
         /\ \E i \in Positions(a) : \E j \in Positions(b) :
              /\ p = <<KidsOf(a)[i], KidsOf(b)[j]>> /\ Node[a].keys[i] = Node[b].keys[j]
              /\ Node[a].needed[i] /\ Node[b].needed[j]
<1> DEFINE pairs == {<<KidsOf(a)[i], KidsOf(b)[FirstNeeded(b, Node[a].keys[i])]>> :
                       i \in {i \in Positions(a) :
                                Node[a].needed[i] /\ FirstNeeded(b, Node[a].keys[i]) # 0}}
<1>1. (\A s \in {a, b} : KindOf(s) = "table" /\ Node[s].extra = "reject") /\ p \in pairs
      BY DEF ClosedTableFields
<1>2. PICK i \in Positions(a) :
        /\ Node[a].needed[i] /\ FirstNeeded(b, Node[a].keys[i]) # 0
        /\ p = <<KidsOf(a)[i], KidsOf(b)[FirstNeeded(b, Node[a].keys[i])]>>
      BY <1>1
<1> DEFINE j == FirstNeeded(b, Node[a].keys[i])
<1>3. j \in Positions(b) /\ Node[b].needed[j] /\ Node[b].keys[j] = Node[a].keys[i]
      BY <1>2, NeededPlace
<1>4. KindOf(a) = "table" /\ KindOf(b) = "table" /\ p = <<KidsOf(a)[i], KidsOf(b)[j]>>
      BY <1>1, <1>2
<1> HIDE DEF j
<1> QED BY <1>2, <1>3, <1>4

LEMMA FieldsSmaller ==
  ASSUME NEW a \in Shape, NEW b \in Shape, NEW p \in ClosedTableFields(a, b)
  PROVE  p \in Shape \X Shape /\ PairSize[p] < PairSize[<<a, b>>]
<1>1. KindOf(a) = "table" /\ KindOf(b) = "table"
      BY FieldPair
<1>2. PICK i \in Positions(a), j \in Positions(b) : p = <<KidsOf(a)[i], KidsOf(b)[j]>>
      BY FieldPair
<1>3. /\ KidsOf(a)[i] \in Shape /\ KidsOf(b)[j] \in Shape
      /\ Height[KidsOf(a)[i]] \in Nat /\ Height[KidsOf(b)[j]] \in Nat
      /\ Height[a] \in Nat /\ Height[b] \in Nat
      /\ Height[KidsOf(a)[i]] < Height[a] /\ Height[KidsOf(b)[j]] < Height[b]
      BY <1>1, ShapeParts
<1>4. /\ p \in Shape \X Shape /\ PairSize[p] = Height[KidsOf(a)[i]] + Height[KidsOf(b)[j]]
      /\ PairSize[<<a, b>>] = Height[a] + Height[b]
      BY <1>2, <1>3 DEF PairSize
<1> QED BY <1>3, <1>4

LEMMA SeparationEquation ==
  ASSUME NEW a \in Shape, NEW b \in Shape
  PROVE  /\ Separation[<<a, b>>] \in Separations
         /\ Separation[<<a, b>>] =
              CASE \E p \in BothWays(a, b) : NotOf(p[1], p[2]) -> "negation"
                [] ExactExprsDiffer(a, b) -> "exact"
                [] FixedListLengthsDiffer(a, b) -> "lengths"
                [] \E p \in ClosedTableFields(a, b) : Separation[p] # None -> "field"
                [] OTHER -> None
<1> DEFINE D == Shape \X Shape
           Body(f, pair) ==
             CASE \E p \in BothWays(pair[1], pair[2]) : NotOf(p[1], p[2]) -> "negation"
               [] ExactExprsDiffer(pair[1], pair[2]) -> "exact"
               [] FixedListLengthsDiffer(pair[1], pair[2]) -> "lengths"
               [] \E p \in ClosedTableFields(pair[1], pair[2]) : f[p] # None -> "field"
               [] OTHER -> None
           Def == [fx \in [D -> Separations] \X D |-> Body(fx[1], fx[2])]
<1>1. ASSUME NEW f \in [D -> Separations], NEW g \in [D -> Separations], NEW x \in D,
             \A y \in D : PairSize[y] < PairSize[x] => f[y] = g[y]
      PROVE  Body(f, x) = Body(g, x)
  <2>1. x[1] \in Shape /\ x[2] \in Shape /\ x = <<x[1], x[2]>>
        OBVIOUS
  <2>2. \A p \in ClosedTableFields(x[1], x[2]) : f[p] = g[p]
        BY <1>1, <2>1, FieldsSmaller
  <2> DEFINE F == \E p \in ClosedTableFields(x[1], x[2]) : f[p] # None
             G == \E p \in ClosedTableFields(x[1], x[2]) : g[p] # None
             Pick(last) == CASE \E p \in BothWays(x[1], x[2]) : NotOf(p[1], p[2]) -> "negation"
                             [] ExactExprsDiffer(x[1], x[2]) -> "exact"
                             [] FixedListLengthsDiffer(x[1], x[2]) -> "lengths"
                             [] last -> "field"
                             [] OTHER -> None
  <2>3. F <=> G
        BY <2>2
  <2>4. Body(f, x) = Pick(F) /\ Body(g, x) = Pick(G)
        BY Zenon
  <2> HIDE DEF Body, F, G
  <2>5. Pick(F) = Pick(G)
        BY <2>3
  <2> QED BY <2>4, <2>5
<1>2. \A f, x : Body(f, x) \in Separations
  <2> USE DEF Separations
  <2> QED BY Zenon
<1> HIDE DEF Body
<1>3. Def \in [[D -> Separations] \X D -> Separations]
      BY <1>2
<1>4. PairSize \in [D -> Nat]
  <2>1. \A s \in Shape : Height[s] \in Nat
        BY ShapeParts
  <2> QED BY <2>1 DEF PairSize
<1>5. \A f \in [D -> Separations], x \in D : Def[<<f, x>>] = Body(f, x)
      OBVIOUS
<1>6. Separations # {}
      BY DEF Separations
<1> HIDE DEF Def, D
<1>7. Shrinks(D, Separations, PairSize, Def)
  <2>1. \A g, h \in [D -> Separations], x \in D :
          (\A y \in D : PairSize[y] < PairSize[x] => g[y] = h[y]) => Def[<<g, x>>] = Def[<<h, x>>]
        BY <1>1, <1>5
  <2> QED BY <1>3, <1>4, <1>6, <2>1 DEF Shrinks
<1>8. PICK f : f = [x \in D |-> Def[<<f, x>>]] /\ f \in [D -> Separations]
      BY <1>7, Recursion DEF Solved
<1>9. f = [x \in D |-> Body(f, x)]
      BY <1>5, <1>8
<1>10. Separation = [x \in D |-> Body(Separation, x)]
       BY <1>9 DEF Separation, Body, D
<1>11. <<a, b>> \in D
       BY DEF D
<1>12. Separation[<<a, b>>] = Body(Separation, <<a, b>>)
       BY <1>10, <1>11
<1> QED BY <1>2, <1>12 DEF Body

-----------------------------------------------------------------------------
(* Normal forms.                                                           *)

(* What a sequence of sequences flattens to.                               *)
LEMMA Flattened ==
  ASSUME NEW S, NEW seqs \in Seq(Seq(S))
  PROVE  /\ FlattenSeq(seqs) \in Seq(S)
         /\ Range(FlattenSeq(seqs)) = UNION {Range(seqs[i]) : i \in DOMAIN seqs}
<1> DEFINE D == 1..Len(seqs)
           V == Seq(S)
           size == [i \in D |-> i]
           Body(f, i) == IF i = 1 THEN seqs[i] ELSE f[i-1] \o seqs[i]
           Def == [fx \in [D -> V] \X D |-> Body(fx[1], fx[2])]
<1>1. Len(seqs) \in Nat /\ DOMAIN seqs = D /\ \A i \in D : seqs[i] \in V
      BY LenProperties, ElementOfSeq
<1>2. CASE Len(seqs) = 0
  <2>1. seqs = <<>>
        BY <1>2, EmptySeq
  <2>2. FlattenSeq(seqs) = <<>>
        BY <1>2, <2>1 DEF FlattenSeq
  <2>3. Range(<<>>) = {} /\ DOMAIN seqs = {}
        BY <1>1, <1>2 DEF Range
  <2> QED BY <2>2, <2>3
<1>3. CASE Len(seqs) # 0
  <2>1. ASSUME NEW f \in [D -> V], NEW i \in D PROVE Body(f, i) \in V
    <3>1. CASE i = 1
          BY <1>1, <3>1
    <3>2. CASE i # 1
      <4>1. i - 1 \in D
            BY <1>1, <3>2
      <4>2. f[i-1] \in Seq(S) /\ seqs[i] \in Seq(S)
            BY <1>1, <4>1
      <4>3. f[i-1] \o seqs[i] \in Seq(S)
            BY <4>2, ConcatProperties
      <4> QED BY <3>2, <4>3
    <3> QED BY <3>1, <3>2
  <2>2. ASSUME NEW f \in [D -> V], NEW g \in [D -> V], NEW i \in D,
               \A j \in D : size[j] < size[i] => f[j] = g[j]
        PROVE  Body(f, i) = Body(g, i)
    <3>1. CASE i = 1
          BY <3>1
    <3>2. CASE i # 1
      <4>1. i - 1 \in D /\ i - 1 < i
            BY <1>1, <3>2
      <4>2. f[i-1] = g[i-1]
            BY <2>2, <4>1
      <4> QED BY <3>2, <4>2
    <3> QED BY <3>1, <3>2
  <2> HIDE DEF Body
  <2>3. /\ Def \in [[D -> V] \X D -> V]
        /\ \A f \in [D -> V], i \in D : Def[<<f, i>>] = Body(f, i)
        BY <2>1
  <2>4. V # {} /\ size \in [D -> Nat]
        BY <1>1
  <2> HIDE DEF Def, D, V, size
  <2>5. Shrinks(D, V, size, Def)
    <3>1. \A f, g \in [D -> V], i \in D :
            (\A j \in D : size[j] < size[i] => f[j] = g[j]) => Def[<<f, i>>] = Def[<<g, i>>]
      <4>1. SUFFICES ASSUME NEW f \in [D -> V], NEW g \in [D -> V], NEW i \in D,
                            \A j \in D : size[j] < size[i] => f[j] = g[j]
                     PROVE  Def[<<f, i>>] = Def[<<g, i>>]
            OBVIOUS
      <4>2. Body(f, i) = Body(g, i)
            BY <2>2, <4>1
      <4> QED BY <2>3, <4>2
    <3> QED BY <2>3, <2>4, <3>1 DEF Shrinks
  <2>6. PICK f : f = [i \in D |-> Def[<<f, i>>]] /\ f \in [D -> V]
        BY <2>5, Recursion DEF Solved
  <2> DEFINE flatten == CHOOSE f_1 : f_1 = [i \in D |-> Body(f_1, i)]
  <2>7. f = [i \in D |-> Body(f, i)]
        BY <2>3, <2>6
  <2>8. flatten = [i \in D |-> Body(flatten, i)]
        BY <2>7
  <2>9. FlattenSeq(seqs) = flatten[Len(seqs)]
        BY <1>3 DEF FlattenSeq, flatten, Body, D
  <2> HIDE DEF flatten
  <2>10. \A i \in D : flatten[i] = Body(flatten, i)
         BY <2>8
  <2> DEFINE Right(i) == flatten[i] \in V /\ Range(flatten[i]) = UNION {Range(seqs[j]) : j \in 1..i}
  <2>11. \A i \in D : Right(i)
    <3> DEFINE Lost == {i \in Nat : i \in D /\ ~Right(i)}
    <3>1. SUFFICES ASSUME NEW i \in Lost, \A j \in Lost : i <= j
                   PROVE  FALSE
      <4>1. D \subseteq Nat
            BY DEF D
      <4> HIDE DEF Right
      <4> QED BY <4>1, FirstPlace
    <3>2. i \in D /\ ~Right(i) /\ i \in Nat /\ 1 <= i
          BY <1>1 DEF D
    <3>3. CASE i = 1
      <4>1. flatten[i] = seqs[i]
            BY <2>10, <3>2, <3>3 DEF Body
      <4>2. 1..i = {1}
            BY <3>3
      <4> QED BY <1>1, <3>2, <3>3, <4>1, <4>2
    <3>4. CASE i # 1
      <4>1. i - 1 \in D /\ i - 1 \in Nat /\ ~(i <= i - 1)
            BY <1>1, <3>2, <3>4 DEF D
      <4>2. Right(i - 1)
        <5> HIDE DEF Right
        <5> QED BY <3>1, <4>1
      <4>3. flatten[i] = flatten[i-1] \o seqs[i]
            BY <2>10, <3>2, <3>4 DEF Body
      <4>4. flatten[i-1] \in Seq(S) /\ seqs[i] \in Seq(S)
            BY <1>1, <3>2, <4>2 DEF V
      <4>5. flatten[i] \in V /\ Range(flatten[i]) = Range(flatten[i-1]) \cup Range(seqs[i])
            BY <4>3, <4>4, RangeConcatenation, ConcatProperties DEF V
      <4>6. 1..i = (1..(i-1)) \cup {i}
            BY <3>2, <4>1
      <4> QED BY <3>2, <4>2, <4>5, <4>6
    <3> QED BY <3>3, <3>4
  <2>12. Len(seqs) \in D
         BY <1>1, <1>3 DEF D
  <2> QED BY <1>1, <2>9, <2>11, <2>12 DEF D, V
<1> QED BY <1>2, <1>3

(* A label tells the kind of the shape, but for the two disjunctions, and  *)
(* what an expression kind or a class asks for.                            *)
LabelWords == STRING \cup Symbol \cup {None} \cup Kinds \cup {"expr-kind", "effectful", "or"}

LEMMA LabelEquation ==
  \A s \in Shape :
    /\ Label[s] \in Seq(LabelWords)
    /\ Label[s] = CASE KindOf(s) = "exprKind" -> <<"expr-kind", Node[s].arg>>
                    [] KindOf(s) \in {"class", "capture", "fields"} -> <<KindOf(s), Node[s].name>>
                    [] KindOf(s) = "effectful" -> <<"effectful">> \o Label[KidsOf(s)[1]]
                    [] KindOf(s) = "best" -> <<"or">>
                    [] OTHER -> <<KindOf(s)>>
<1> DEFINE W == LabelWords
           V == Seq(W)
           Body(f, s) ==
             CASE KindOf(s) = "exprKind" -> <<"expr-kind", Node[s].arg>>
               [] KindOf(s) \in {"class", "capture", "fields"} -> <<KindOf(s), Node[s].name>>
               [] KindOf(s) = "effectful" -> <<"effectful">> \o f[KidsOf(s)[1]]
               [] KindOf(s) = "best" -> <<"or">>
               [] OTHER -> <<KindOf(s)>>
           Def == [fx \in [Shape -> V] \X Shape |-> Body(fx[1], fx[2])]
<1>1. ASSUME NEW f, NEW s \in Shape, KindOf(s) = "effectful" => f[KidsOf(s)[1]] \in V
      PROVE  Body(f, s) \in V
  <2>1. /\ Node[s].arg \in W /\ Node[s].name \in W /\ KindOf(s) \in W
        /\ "expr-kind" \in W /\ "effectful" \in W /\ "or" \in W
    <3> USE DEF LabelWords
    <3>1. Node[s] \in NodeType /\ Node[s].kind = KindOf(s)
          BY ShapeParts
    <3>2. /\ Node[s].arg \in STRING /\ Node[s].name \in Symbol \cup {None}
          /\ Node[s].kind \in Kinds
          BY <3>1 DEF NodeType
    <3> QED BY <3>1, <3>2
  <2> DEFINE b == Body(f, s)
  <2> HIDE DEF W
  <2>2. CASE KindOf(s) = "exprKind"
    <3>1. b = <<"expr-kind", Node[s].arg>>
          BY <2>2, Zenon
    <3> HIDE DEF b, Body
    <3> QED BY <2>1, <3>1 DEF b
  <2>3. CASE KindOf(s) \in {"class", "capture", "fields"}
    <3>1. b = <<KindOf(s), Node[s].name>>
          BY <2>3, Zenon
    <3> HIDE DEF b, Body
    <3> QED BY <2>1, <3>1 DEF b
  <2>4. CASE KindOf(s) = "effectful"
    <3>1. b = <<"effectful">> \o f[KidsOf(s)[1]]
          BY <2>4, Zenon
    <3> HIDE DEF b, Body
    <3>3. <<"effectful">> \in Seq(W)
          BY <2>1
    <3>4. f[KidsOf(s)[1]] \in Seq(W)
          BY <1>1, <2>4
    <3> QED BY <3>1, <3>3, <3>4, ConcatProperties DEF b
  <2>5. CASE KindOf(s) = "best"
    <3>1. b = <<"or">>
          BY <2>5, Zenon
    <3> HIDE DEF b, Body
    <3> QED BY <2>1, <3>1 DEF b
  <2>6. CASE KindOf(s) \notin {"exprKind", "class", "capture", "fields", "effectful", "best"}
    <3>1. b = <<KindOf(s)>>
          BY <2>6, Zenon
    <3> HIDE DEF b, Body
    <3> QED BY <2>1, <3>1 DEF b
  <2> QED BY <2>2, <2>3, <2>4, <2>5, <2>6
<1>2. ASSUME NEW f, NEW g, NEW s \in Shape,
             \A y \in Shape : Height[y] < Height[s] => f[y] = g[y]
      PROVE  Body(f, s) = Body(g, s)
  <2>1. CASE KindOf(s) = "effectful"
    <3>1. \A h : Body(h, s) = <<"effectful">> \o h[KidsOf(s)[1]]
          BY <2>1, Zenon
    <3>2. 1 \in Positions(s)
          BY <2>1, ShapeParts DEF NodeOK, WrapKinds
    <3>3. f[KidsOf(s)[1]] = g[KidsOf(s)[1]]
          BY <1>2, <2>1, <3>2, ShapeParts
    <3> HIDE DEF Body
    <3> QED BY <3>1, <3>3
  <2>2. CASE KindOf(s) # "effectful"
        BY <2>2, Zenon
  <2> QED BY <2>1, <2>2
<1> HIDE DEF Body
<1>3. Def \in [[Shape -> V] \X Shape -> V]
  <2>1. \A f \in [Shape -> V], s \in Shape : KindOf(s) = "effectful" => f[KidsOf(s)[1]] \in V
        BY ShapeParts DEF NodeOK, WrapKinds
  <2> QED BY <1>1, <2>1
<1>4. Height \in [Shape -> Nat]
      BY HeightAssumption
<1>5. \A f \in [Shape -> V], s \in Shape : Def[<<f, s>>] = Body(f, s)
      OBVIOUS
<1>6. V # {}
  <2>1. <<>> \in V
        OBVIOUS
  <2> QED BY <2>1
<1> HIDE DEF Def, V
<1>7. Shrinks(Shape, V, Height, Def)
  <2>1. \A g, h \in [Shape -> V], s \in Shape :
          (\A y \in Shape : Height[y] < Height[s] => g[y] = h[y]) => Def[<<g, s>>] = Def[<<h, s>>]
        BY <1>2, <1>5
  <2> QED BY <1>3, <1>4, <1>6, <2>1 DEF Shrinks
<1>8. PICK f : f = [s \in Shape |-> Def[<<f, s>>]] /\ f \in [Shape -> V]
      BY <1>7, Recursion DEF Solved
<1>9. f = [s \in Shape |-> Body(f, s)]
      BY <1>5, <1>8
<1>10. Label = [s \in Shape |-> Body(Label, s)]
       BY <1>9 DEF Label, Body
<1>11. \A s \in Shape : Label[s] = Body(Label, s)
       BY <1>10
<1>12. \A s \in Shape : Label[s] \in V
  <2> DEFINE Lost == {n \in Nat : \E s \in Shape : Height[s] = n /\ Label[s] \notin V}
  <2>1. \A s \in Shape : Height[s] \in Nat
        BY ShapeParts
  <2>2. SUFFICES ASSUME NEW n \in Lost, \A m \in Lost : n <= m PROVE FALSE
        BY <2>1, FirstPlace
  <2>3. PICK s \in Shape : Height[s] = n /\ Label[s] \notin V
        BY <2>2
  <2>4. ASSUME KindOf(s) = "effectful" PROVE Label[KidsOf(s)[1]] \in V
    <3> DEFINE kid == KidsOf(s)[1]
    <3>1. kid \in Shape /\ Height[kid] \in Nat /\ Height[kid] < Height[s]
          BY <2>4, ShapeParts DEF NodeOK, WrapKinds
    <3> HIDE DEF kid
    <3>2. n \in Nat /\ ~(n <= Height[kid])
          BY <2>3, <3>1
    <3>3. Label[kid] \in V
          BY <2>2, <3>1, <3>2
    <3> QED BY <3>3 DEF kid
  <2>5. Body(Label, s) \in V
        BY <1>1, <2>4
  <2> QED BY <1>11, <2>3, <2>5
<1> QED BY <1>11, <1>12 DEF Body, V

PartForms(f, s) ==
  CASE NormalKind(s) \in {"and", "or"} ->
         FlattenSeq([i \in Positions(s) |-> Spliced(NormalKind(s), f[KidsOf(s)[i]])])
    [] NormalKind(s) \in {"not", "list", "table", "repeat"} ->
         [i \in Positions(s) |-> f[KidsOf(s)[i]]]
    [] OTHER -> <<>>
RestForm(f, s) == IF NormalKind(s) # "list" \/ Node[s].rest = None THEN <<>> ELSE <<f[Node[s].rest]>>
FormFrom(f, s) ==
  [kind   |-> NormalKind(s),
   label  |-> Label[s],
   parts  |-> PartForms(f, s),
   rest   |-> RestForm(f, s),
   keys   |-> IF NormalKind(s) = "table" THEN Node[s].keys ELSE <<>>,
   closed |-> NormalKind(s) = "table" /\ Node[s].extra = "reject",
   range  |-> IF NormalKind(s) = "repeat" THEN <<Node[s].min, Node[s].max>> ELSE <<>>]

LEMMA NormalKinds ==
  ASSUME NEW s \in Shape
  PROVE  /\ NormalKind(s) = "or" <=> KindOf(s) \in {"or", "best", "oneOf"}
         /\ \A k \in {"and", "not", "list", "table", "repeat"} : NormalKind(s) = k <=> KindOf(s) = k
         /\ NormalKind(s) = "atom" <=> KindOf(s) \in {"any", "number", "ref", "defs"}
         /\ NormalKind(s) \in {"or", "and", "not", "list", "table", "repeat", "atom", "opaque"}
<1>1. CASE KindOf(s) \in {"or", "best", "oneOf"}
      BY <1>1, Zenon DEF NormalKind
<1>2. CASE KindOf(s) \in {"and", "not", "list", "table", "repeat"}
  <2>1. NormalKind(s) = KindOf(s)
        BY <1>2, Zenon DEF NormalKind
  <2> QED BY <1>2, <2>1
<1>3. CASE KindOf(s) \in {"any", "number", "ref", "defs"}
  <2>1. NormalKind(s) = "atom"
        BY <1>3, Zenon DEF NormalKind
  <2> QED BY <1>3, <2>1
<1>4. CASE KindOf(s) \notin {"or", "best", "oneOf", "and", "not", "list", "table", "repeat",
                             "any", "number", "ref", "defs"}
  <2>1. NormalKind(s) = "opaque"
        BY <1>4, Zenon DEF NormalKind
  <2> QED BY <1>4, <2>1
<1> QED BY <1>1, <1>2, <1>3, <1>4

(* A normal form is built of those of the parts.                           *)
LEMMA FormSmaller ==
  ASSUME NEW f, NEW g, NEW s \in Shape, \A y \in Shape : Height[y] < Height[s] => f[y] = g[y]
  PROVE  FormFrom(f, s) = FormFrom(g, s)
<1>1. NormalKind(s) \notin {"atom", "opaque"} =>
        /\ \A i \in Positions(s) : f[KidsOf(s)[i]] = g[KidsOf(s)[i]]
        /\ Node[s].rest # None => f[Node[s].rest] = g[Node[s].rest]
      BY NormalKinds, ShapeParts
<1>2. PartForms(f, s) = PartForms(g, s)
  <2>1. CASE NormalKind(s) \in {"and", "or"}
    <3>1. \A i \in Positions(s) : f[KidsOf(s)[i]] = g[KidsOf(s)[i]]
          BY <1>1, <2>1
    <3>2. [i \in Positions(s) |-> Spliced(NormalKind(s), f[KidsOf(s)[i]])]
            = [i \in Positions(s) |-> Spliced(NormalKind(s), g[KidsOf(s)[i]])]
          BY <3>1
    <3>3. \A h : PartForms(h, s) = FlattenSeq([i \in Positions(s) |-> Spliced(NormalKind(s), h[KidsOf(s)[i]])])
          BY <2>1, Zenon DEF PartForms
    <3> QED BY <3>2, <3>3
  <2>2. CASE NormalKind(s) \in {"not", "list", "table", "repeat"}
    <3>1. \A i \in Positions(s) : f[KidsOf(s)[i]] = g[KidsOf(s)[i]]
          BY <1>1, <2>2
    <3>2. \A h : PartForms(h, s) = [i \in Positions(s) |-> h[KidsOf(s)[i]]]
          BY <2>2, Zenon DEF PartForms
    <3> QED BY <3>1, <3>2
  <2>3. CASE NormalKind(s) \notin {"and", "or", "not", "list", "table", "repeat"}
    <3>1. \A h : PartForms(h, s) = <<>>
          BY <2>3, Zenon DEF PartForms
    <3> QED BY <3>1
  <2> QED BY <2>1, <2>2, <2>3
<1>3. RestForm(f, s) = RestForm(g, s)
      BY <1>1 DEF RestForm
<1> QED BY <1>2, <1>3 DEF FormFrom

LEMMA NormalEquation ==
  \A s \in Shape : Normal[s] = FormFrom(Normal, s)
<1> DEFINE Solves(f, n) == \A x \in Shape : Height[x] < n => f[x] = FormFrom(f, x)
           Stage(f) == [x \in Shape |-> FormFrom(f, x)]
<1>1. ASSUME NEW f, NEW g, NEW x \in Shape, \A y \in Shape : Height[y] < Height[x] => f[y] = g[y]
      PROVE  FormFrom(f, x) = FormFrom(g, x)
      BY <1>1, FormSmaller
<1>2. \A s \in Shape : Height[s] \in Nat
      BY ShapeParts
<1>3. \A n \in Nat : \E f : Solves(f, n)
  <2> DEFINE Lost == {n \in Nat : ~\E f : Solves(f, n)}
  <2>1. SUFFICES ASSUME NEW n \in Lost, \A m \in Lost : n <= m
                 PROVE  FALSE
    <3> HIDE DEF Solves
    <3> QED BY FirstPlace
  <2>2. CASE n = 0
    <3>1. \A f : Solves(f, 0)
          BY <1>2
    <3> HIDE DEF Solves
    <3> QED BY <2>1, <2>2, <3>1
  <2>3. CASE n > 0
    <3>1. PICK f : Solves(f, n - 1)
      <4> HIDE DEF Solves
      <4>1. n - 1 \in Nat /\ n - 1 \notin Lost
            BY <2>1, <2>3
      <4> QED BY <4>1
    <3>2. ASSUME NEW x \in Shape, Height[x] < n
          PROVE  Stage(f)[x] = FormFrom(Stage(f), x)
      <4>1. \A y \in Shape : Height[y] < Height[x] => Stage(f)[y] = f[y]
            BY <1>2, <3>1, <3>2
      <4>2. FormFrom(Stage(f), x) = FormFrom(f, x)
            BY <1>1, <4>1
      <4> QED BY <4>2
    <3>3. Solves(Stage(f), n)
          BY <3>2
    <3> HIDE DEF Solves
    <3> QED BY <2>1, <3>3
  <2> QED BY <2>1, <2>2, <2>3
<1>4. ASSUME NEW m \in Nat, NEW n \in Nat, NEW f, NEW g, Solves(f, m), Solves(g, n),
             NEW x \in Shape, Height[x] < m, Height[x] < n
      PROVE  f[x] = g[x]
  <2>1. SUFFICES ASSUME f[x] # g[x] PROVE FALSE
        OBVIOUS
  <2> DEFINE T == {k \in Nat : \E y \in Shape : Height[y] = k /\ k < m /\ k < n /\ f[y] # g[y]}
  <2>2. Height[x] \in T
        BY <1>2, <1>4, <2>1
  <2>3. PICK k \in T : \A j \in T : k <= j
        BY <2>2, FirstPlace
  <2>4. PICK y \in Shape : Height[y] = k /\ k < m /\ k < n /\ f[y] # g[y]
        BY <2>3
  <2>5. \A z \in Shape : Height[z] < Height[y] => f[z] = g[z]
        BY <1>2, <2>3, <2>4
  <2>6. FormFrom(f, y) = FormFrom(g, y)
        BY <1>1, <2>5
  <2> QED BY <1>4, <2>4, <2>6
<1> DEFINE At(n) == CHOOSE f : Solves(f, n)
           F == [x \in Shape |-> At(Height[x] + 1)[x]]
<1>5. \A n \in Nat : Solves(At(n), n)
  <2> HIDE DEF Solves
  <2> QED BY <1>3
<1> HIDE DEF At
<1>6. ASSUME NEW x \in Shape PROVE F[x] = FormFrom(F, x)
  <2> DEFINE f == At(Height[x] + 1)
  <2>1. Height[x] + 1 \in Nat /\ Height[x] < Height[x] + 1
        BY <1>2
  <2>2. Solves(f, Height[x] + 1)
    <3> HIDE DEF Solves
    <3> QED BY <1>5, <2>1
  <2>3. ASSUME NEW y \in Shape, Height[y] < Height[x] PROVE F[y] = f[y]
    <3>1. Height[y] + 1 \in Nat /\ Height[y] < Height[y] + 1 /\ Height[y] < Height[x] + 1
          BY <1>2, <2>3
    <3>2. Solves(At(Height[y] + 1), Height[y] + 1)
          BY <1>5, <3>1
    <3> HIDE DEF Solves
    <3>3. At(Height[y] + 1)[y] = f[y]
          BY <1>4, <2>1, <2>2, <3>1, <3>2
    <3> QED BY <3>3
  <2>4. F[x] = f[x]
        OBVIOUS
  <2>5. f[x] = FormFrom(f, x)
        BY <2>1, <2>2
  <2> HIDE DEF F, f
  <2>6. FormFrom(F, x) = FormFrom(f, x)
        BY <1>1, <2>3
  <2> QED BY <2>4, <2>5, <2>6
<1>7. F = [x \in Shape |-> FormFrom(F, x)]
  <2>1. F = [x \in Shape |-> F[x]]
        OBVIOUS
  <2> HIDE DEF F
  <2> QED BY <1>6, <2>1
<1>8. \E f : f = [x \in Shape |-> FormFrom(f, x)]
      BY <1>7
<1>9. Normal = [x \in Shape |-> FormFrom(Normal, x)]
      BY <1>8 DEF Normal, FormFrom, PartForms, RestForm
<1> QED BY <1>9

TransparentKinds ==
  {"any", "exprKind", "number", "and", "or", "best", "oneOf", "not", "list", "repeat"}

(* A shape its normal form describes is a class, or is built of such.      *)
LEMMA TransparentEquation ==
  \A s \in Shape :
    Transparent[s] <=>
      \/ KindOf(s) = "class"
      \/ /\ KindOf(s) \in TransparentKinds
         /\ \A i \in Positions(s) : Transparent[KidsOf(s)[i]]
         /\ Node[s].rest # None => Transparent[Node[s].rest]
<1> DEFINE Body(f, s) ==
             \/ KindOf(s) = "class"
             \/ /\ KindOf(s) \in TransparentKinds
                /\ \A i \in Positions(s) : f[KidsOf(s)[i]]
                /\ Node[s].rest # None => f[Node[s].rest]
           Def == [fx \in [Shape -> BOOLEAN] \X Shape |-> Body(fx[1], fx[2])]
<1>1. ASSUME NEW f \in [Shape -> BOOLEAN], NEW g \in [Shape -> BOOLEAN], NEW s \in Shape,
             \A y \in Shape : Height[y] < Height[s] => f[y] = g[y]
      PROVE  Body(f, s) = Body(g, s)
  <2>1. CASE KindOf(s) \in TransparentKinds
    <3>1. /\ \A i \in Positions(s) : f[KidsOf(s)[i]] = g[KidsOf(s)[i]]
          /\ Node[s].rest # None => f[Node[s].rest] = g[Node[s].rest]
          BY <1>1, <2>1, ShapeParts DEF TransparentKinds
    <3> QED BY <3>1
  <2>2. CASE KindOf(s) \notin TransparentKinds
        BY <2>2
  <2> QED BY <2>1, <2>2
<1> HIDE DEF Body
<1>2. \A f, x : Body(f, x) \in BOOLEAN
      BY DEF Body
<1>3. Def \in [[Shape -> BOOLEAN] \X Shape -> BOOLEAN]
      BY <1>2
<1>4. Height \in [Shape -> Nat]
      BY HeightAssumption
<1>5. \A f \in [Shape -> BOOLEAN], s \in Shape : Def[<<f, s>>] = Body(f, s)
      OBVIOUS
<1> HIDE DEF Def
<1>6. Shrinks(Shape, BOOLEAN, Height, Def)
  <2>1. \A g, h \in [Shape -> BOOLEAN], s \in Shape :
          (\A y \in Shape : Height[y] < Height[s] => g[y] = h[y]) => Def[<<g, s>>] = Def[<<h, s>>]
        BY <1>1, <1>5
  <2> QED BY <1>3, <1>4, <2>1 DEF Shrinks
<1>7. PICK f : f = [s \in Shape |-> Def[<<f, s>>]] /\ f \in [Shape -> BOOLEAN]
      BY <1>6, Recursion DEF Solved
<1>8. f = [s \in Shape |-> Body(f, s)]
      BY <1>5, <1>7
<1>9. Transparent = [s \in Shape |-> Body(Transparent, s)]
      BY <1>8 DEF Transparent, Body, TransparentKinds
<1>10. \A s \in Shape : Transparent[s] = Body(Transparent, s)
       BY <1>9
<1> QED BY <1>10 DEF Body

LEMMA CandidEquation ==
  \A s \in Shape :
    Candid[s] <=> /\ KindOf(s) = "not" => Transparent[s]
                  /\ KindOf(s) = "table" => \A i \in Positions(s) : Candid[KidsOf(s)[i]]
<1> DEFINE Body(f, s) ==
             /\ KindOf(s) = "not" => Transparent[s]
             /\ KindOf(s) = "table" => \A i \in Positions(s) : f[KidsOf(s)[i]]
           Def == [fx \in [Shape -> BOOLEAN] \X Shape |-> Body(fx[1], fx[2])]
<1>1. ASSUME NEW f \in [Shape -> BOOLEAN], NEW g \in [Shape -> BOOLEAN], NEW s \in Shape,
             \A y \in Shape : Height[y] < Height[s] => f[y] = g[y]
      PROVE  Body(f, s) = Body(g, s)
  <2>1. CASE KindOf(s) = "table"
    <3>1. \A i \in Positions(s) : f[KidsOf(s)[i]] = g[KidsOf(s)[i]]
          BY <1>1, <2>1, ShapeParts
    <3> QED BY <3>1
  <2>2. CASE KindOf(s) # "table"
        BY <2>2
  <2> QED BY <2>1, <2>2
<1> HIDE DEF Body
<1>2. \A f, x : Body(f, x) \in BOOLEAN
      BY DEF Body
<1>3. Def \in [[Shape -> BOOLEAN] \X Shape -> BOOLEAN]
      BY <1>2
<1>4. Height \in [Shape -> Nat]
      BY HeightAssumption
<1>5. \A f \in [Shape -> BOOLEAN], s \in Shape : Def[<<f, s>>] = Body(f, s)
      OBVIOUS
<1> HIDE DEF Def
<1>6. Shrinks(Shape, BOOLEAN, Height, Def)
  <2>1. \A g, h \in [Shape -> BOOLEAN], s \in Shape :
          (\A y \in Shape : Height[y] < Height[s] => g[y] = h[y]) => Def[<<g, s>>] = Def[<<h, s>>]
        BY <1>1, <1>5
  <2> QED BY <1>3, <1>4, <2>1 DEF Shrinks
<1>7. PICK f : f = [s \in Shape |-> Def[<<f, s>>]] /\ f \in [Shape -> BOOLEAN]
      BY <1>6, Recursion DEF Solved
<1>8. f = [s \in Shape |-> Body(f, s)]
      BY <1>5, <1>7
<1>9. Candid = [s \in Shape |-> Body(Candid, s)]
      BY <1>8 DEF Candid, Body
<1>10. \A s \in Shape : Candid[s] = Body(Candid, s)
       BY <1>9
<1> QED BY <1>10 DEF Body

(* A flattened junction lists forms of shapes.                             *)
Forms == {Normal[s] : s \in Shape}
Junctions == {"and", "or"}

LEMMA JunctionKids ==
  ASSUME NEW s \in Shape, NormalKind(s) \in Junctions
  PROVE  /\ \A i \in Positions(s) :
              LET kid == KidsOf(s)[i] IN
              /\ kid \in Shape /\ Height[kid] \in Nat /\ Height[kid] < Height[s]
              /\ Normal[kid] \in Forms /\ Normal[kid].kind = NormalKind(kid)
         /\ Normal[s].parts = FlattenSeq([i \in Positions(s) |-> Spliced(NormalKind(s), Normal[KidsOf(s)[i]])])
<1>1. KindOf(s) \notin {"ref", "class"}
      BY NormalKinds DEF Junctions
<1>2. ASSUME NEW i \in Positions(s)
      PROVE  LET kid == KidsOf(s)[i] IN
              /\ kid \in Shape /\ Height[kid] \in Nat /\ Height[kid] < Height[s]
              /\ Normal[kid] \in Forms /\ Normal[kid].kind = NormalKind(kid)
  <2>1. /\ KidsOf(s)[i] \in Shape /\ Height[KidsOf(s)[i]] \in Nat
        /\ Height[KidsOf(s)[i]] < Height[s]
        BY <1>1, ShapeParts
  <2>2. Normal[KidsOf(s)[i]] = FormFrom(Normal, KidsOf(s)[i])
        BY <2>1, NormalEquation
  <2>3. Normal[KidsOf(s)[i]].kind = NormalKind(KidsOf(s)[i])
        BY <2>2 DEF FormFrom
  <2> QED BY <2>1, <2>3 DEF Forms
<1>3. Normal[s].parts = PartForms(Normal, s)
  <2>1. Normal[s] = FormFrom(Normal, s)
        BY NormalEquation
  <2> QED BY <2>1 DEF FormFrom
<1>4. PartForms(Normal, s) = FlattenSeq([i \in Positions(s) |-> Spliced(NormalKind(s), Normal[KidsOf(s)[i]])])
      BY Zenon DEF PartForms, Junctions
<1> QED BY <1>2, <1>3, <1>4

LEMMA JunctionTyped ==
  ASSUME NEW s \in Shape, NormalKind(s) \in Junctions
  PROVE  LET seqs == [i \in Positions(s) |-> Spliced(NormalKind(s), Normal[KidsOf(s)[i]])] IN
         seqs \in Seq(Seq(Forms))
<1> DEFINE Seqs(x) == [i \in Positions(x) |-> Spliced(NormalKind(x), Normal[KidsOf(x)[i]])]
           Right(x) == NormalKind(x) \in Junctions => Seqs(x) \in Seq(Seq(Forms))
           Lost == {n \in Nat : \E x \in Shape : Height[x] = n /\ ~Right(x)}
<1>1. SUFFICES ASSUME NEW n \in Lost, \A m \in Lost : n <= m PROVE FALSE
  <2>1. Right(s) => Seqs(s) \in Seq(Seq(Forms))
        OBVIOUS
  <2>2. Height[s] \in Nat
        BY ShapeParts
  <2>3. ~Right(s) => Height[s] \in Lost
    <3> HIDE DEF Right
    <3> QED BY <2>2
  <2> HIDE DEF Right, Seqs
  <2>4. Lost = {}
        BY FirstPlace
  <2>5. Right(s)
        BY <2>3, <2>4
  <2> QED BY <2>1, <2>5 DEF Seqs
<1>2. PICK x \in Shape : Height[x] = n /\ ~Right(x)
  <2> HIDE DEF Right
  <2> QED BY <1>1
<1>3. NormalKind(x) \in Junctions
      BY <1>2
<1>4. ASSUME NEW y \in Shape, Height[y] \in Nat, Height[y] < Height[x] PROVE Right(y)
  <2> HIDE DEF Right
  <2>1. n \in Nat /\ ~(n <= Height[y])
        BY <1>2, <1>4
  <2> QED BY <1>1, <1>4, <2>1
<1>5. ASSUME NEW i \in Positions(x) PROVE Seqs(x)[i] \in Seq(Forms)
  <2> DEFINE kid == KidsOf(x)[i]
  <2>1. /\ kid \in Shape /\ Height[kid] \in Nat /\ Height[kid] < Height[x] /\ Normal[kid] \in Forms
        /\ Normal[kid].kind = NormalKind(kid)
        BY <1>3, JunctionKids
  <2>2. Seqs(x)[i] = IF NormalKind(kid) = NormalKind(x) THEN Normal[kid].parts ELSE <<Normal[kid]>>
        BY <2>1 DEF Spliced
  <2>3. CASE NormalKind(kid) # NormalKind(x)
    <3> DEFINE form == Normal[kid]
    <3>1. Seqs(x)[i] = <<form>> /\ form \in Forms
          BY <2>1, <2>2, <2>3
    <3> HIDE DEF Seqs, form, Forms
    <3>2. <<form>> \in Seq(Forms)
          BY <3>1
    <3> QED BY <3>1, <3>2
  <2>4. CASE NormalKind(kid) = NormalKind(x)
    <3>1. Normal[kid].parts = FlattenSeq(Seqs(kid))
          BY <1>3, <2>1, <2>4, JunctionKids
    <3>2. Seqs(kid) \in Seq(Seq(Forms))
          BY <1>3, <1>4, <2>1, <2>4
    <3> HIDE DEF Seqs, kid
    <3>3. FlattenSeq(Seqs(kid)) \in Seq(Forms)
          BY <3>2, Flattened
    <3> QED BY <2>2, <2>4, <3>1, <3>3
  <2> QED BY <2>3, <2>4
<1>6. Positions(x) = 1..Len(KidsOf(x)) /\ Len(KidsOf(x)) \in Nat
      BY ShapeParts
<1>7. Seqs(x) \in Seq(Seq(Forms))
  <2>1. DOMAIN Seqs(x) = 1..Len(KidsOf(x))
        BY <1>6
  <2>2. Seqs(x) = [i \in 1..Len(KidsOf(x)) |-> Seqs(x)[i]]
        BY <1>6
  <2> HIDE DEF Seqs
  <2> QED BY <1>5, <1>6, <2>1, <2>2
<1> QED BY <1>2, <1>7

(* Its parts are those of the junctions of its kind that it is built of,   *)
(* and the other shapes it is built of.                                    *)
LEMMA JunctionParts ==
  ASSUME NEW s \in Shape, NormalKind(s) \in Junctions
  PROVE  \A n : n \in Range(Normal[s].parts) <=>
           \E i \in Positions(s) :
             LET kid == KidsOf(s)[i] IN
             IF NormalKind(kid) = NormalKind(s) THEN n \in Range(Normal[kid].parts)
             ELSE n = Normal[kid]
<1> DEFINE seqs == [i \in Positions(s) |-> Spliced(NormalKind(s), Normal[KidsOf(s)[i]])]
<1>1. seqs \in Seq(Seq(Forms)) /\ Normal[s].parts = FlattenSeq(seqs) /\ DOMAIN seqs = Positions(s)
      BY JunctionTyped, JunctionKids
<1>2. ASSUME NEW i \in Positions(s)
      PROVE  LET kid == KidsOf(s)[i] IN
             Range(seqs[i]) = IF NormalKind(kid) = NormalKind(s) THEN Range(Normal[kid].parts)
                              ELSE {Normal[kid]}
  <2>1. Normal[KidsOf(s)[i]].kind = NormalKind(KidsOf(s)[i])
        BY JunctionKids
  <2>2. \A v : Range(<<v>>) = {v}
        BY DEF Range
  <2> QED BY <2>1, <2>2 DEF Spliced
<1> HIDE DEF seqs
<1>3. Range(Normal[s].parts) = UNION {Range(seqs[i]) : i \in Positions(s)}
      BY <1>1, Flattened
<1>4. \A n : n \in Range(Normal[s].parts) <=> \E i \in Positions(s) : n \in Range(seqs[i])
      BY <1>3
<1>5. ASSUME NEW n, NEW i \in Positions(s)
      PROVE  n \in Range(seqs[i]) <=>
               LET kid == KidsOf(s)[i] IN
               IF NormalKind(kid) = NormalKind(s) THEN n \in Range(Normal[kid].parts)
               ELSE n = Normal[kid]
      BY <1>2
<1> QED BY <1>4, <1>5

(* Whatever holds of a junction and then of all it joins holds of a shape  *)
(* for every part of its form; what holds of one it joins, for some part.  *)
LEMMA EveryPart ==
  ASSUME NEW G \in SUBSET Shape, NEW kind \in Junctions,
         \A s \in G : NormalKind(s) = kind => \A i \in Positions(s) : KidsOf(s)[i] \in G,
         NEW x \in G, NormalKind(x) = kind, NEW form \in Range(Normal[x].parts)
  PROVE  \E part \in G : Normal[part] = form /\ Height[part] < Height[x]
<1> DEFINE Found_(s, n) == \E part \in G : Normal[part] = n /\ Height[part] < Height[s]
           Right(s) == NormalKind(s) = kind => \A n \in Range(Normal[s].parts) : Found_(s, n)
           Lost == {h \in Nat : \E s \in G : Height[s] = h /\ ~Right(s)}
<1>1. SUFFICES ASSUME NEW h \in Lost, \A m \in Lost : h <= m PROVE FALSE
  <2>1. Right(x) => Found_(x, form)
        OBVIOUS
  <2>2. Height[x] \in Nat
        BY ShapeParts
  <2>3. ~Right(x) => Height[x] \in Lost
    <3> HIDE DEF Right
    <3> QED BY <2>2
  <2> HIDE DEF Right
  <2>4. Lost = {}
        BY FirstPlace
  <2>5. Right(x)
        BY <2>3, <2>4
  <2> QED BY <2>1, <2>5
<1>2. PICK s \in G : Height[s] = h /\ ~Right(s)
  <2> HIDE DEF Right
  <2> QED BY <1>1
<1>3. PICK n \in Range(Normal[s].parts) : ~Found_(s, n)
      BY <1>2
<1>4. NormalKind(s) = kind /\ s \in Shape
      BY <1>2
<1>5. PICK i \in Positions(s) :
        IF NormalKind(KidsOf(s)[i]) = kind THEN n \in Range(Normal[KidsOf(s)[i]].parts)
        ELSE n = Normal[KidsOf(s)[i]]
      BY <1>3, <1>4, JunctionParts
<1> DEFINE kid == KidsOf(s)[i]
<1>6. kid \in G /\ kid \in Shape /\ Height[kid] \in Nat /\ Height[kid] < Height[s] /\ Height[s] \in Nat
      BY <1>4, JunctionKids, ShapeParts
<1>7. CASE NormalKind(kid) # kind
      BY <1>3, <1>5, <1>6, <1>7
<1>8. CASE NormalKind(kid) = kind
  <2>1. Right(kid)
    <3> HIDE DEF Right
    <3>1. Height[kid] \notin Lost
          BY <1>1, <1>2, <1>6
    <3> QED BY <1>6, <3>1
  <2>2. PICK part \in G : Normal[part] = n /\ Height[part] < Height[kid]
        BY <1>5, <1>8, <2>1
  <2>3. Height[part] \in Nat
        BY <2>2, ShapeParts
  <2> QED BY <1>3, <1>6, <2>2, <2>3
<1> QED BY <1>7, <1>8

LEMMA SomePart ==
  ASSUME NEW G \in SUBSET Shape, NEW kind \in Junctions,
         \A s \in G : NormalKind(s) = kind => \E i \in Positions(s) : KidsOf(s)[i] \in G,
         NEW x \in G, NormalKind(x) = kind
  PROVE  \E form \in Range(Normal[x].parts), part \in G :
           Normal[part] = form /\ Height[part] < Height[x]
<1> DEFINE Right(s) == NormalKind(s) = kind =>
                         \E n \in Range(Normal[s].parts), part \in G :
                           Normal[part] = n /\ Height[part] < Height[s]
           Lost == {h \in Nat : \E s \in G : Height[s] = h /\ ~Right(s)}
<1>1. SUFFICES ASSUME NEW h \in Lost, \A m \in Lost : h <= m PROVE FALSE
  <2>1. Right(x) => \E n \in Range(Normal[x].parts), part \in G :
                      Normal[part] = n /\ Height[part] < Height[x]
        OBVIOUS
  <2>2. Height[x] \in Nat
        BY ShapeParts
  <2>3. ~Right(x) => Height[x] \in Lost
    <3> HIDE DEF Right
    <3> QED BY <2>2
  <2> HIDE DEF Right
  <2>4. Lost = {}
        BY FirstPlace
  <2>5. Right(x)
        BY <2>3, <2>4
  <2> QED BY <2>1, <2>5
<1>2. PICK s \in G : Height[s] = h /\ ~Right(s)
  <2> HIDE DEF Right
  <2> QED BY <1>1
<1>3. NormalKind(s) = kind /\ s \in Shape
      BY <1>2
<1>4. PICK i \in Positions(s) : KidsOf(s)[i] \in G
      BY <1>3
<1> DEFINE kid == KidsOf(s)[i]
<1>5. kid \in G /\ kid \in Shape /\ Height[kid] \in Nat /\ Height[kid] < Height[s] /\ Height[s] \in Nat
      BY <1>3, <1>4, JunctionKids, ShapeParts
<1>6. \A n : (IF NormalKind(kid) = kind THEN n \in Range(Normal[kid].parts) ELSE n = Normal[kid])
               => n \in Range(Normal[s].parts)
      BY <1>3, JunctionParts
<1>7. CASE NormalKind(kid) # kind
      BY <1>2, <1>5, <1>6, <1>7
<1>8. CASE NormalKind(kid) = kind
  <2>1. Right(kid)
    <3> HIDE DEF Right
    <3>1. Height[kid] \notin Lost
          BY <1>1, <1>2, <1>5
    <3> QED BY <1>5, <3>1
  <2>2. PICK n \in Range(Normal[kid].parts), part \in G : Normal[part] = n /\ Height[part] < Height[kid]
        BY <1>8, <2>1
  <2>3. Height[part] \in Nat
        BY <2>2, ShapeParts
  <2> QED BY <1>2, <1>5, <1>6, <1>8, <2>2, <2>3
<1> QED BY <1>7, <1>8

-----------------------------------------------------------------------------
(* Shapes of one normal form, one of them described by it completely, keep *)
(* each other's verdicts.                                                  *)

SameForm(x, y) == Normal[x] = Normal[y] /\ (Transparent[x] \/ Transparent[y])
FormsKept(n) ==
  \A u, v \in Shape : Height[u] + Height[v] < n /\ SameForm(u, v) => Keeps(u, v)

LEMMA FormFields ==
  ASSUME NEW x \in Shape
  PROVE  /\ Normal[x].kind = NormalKind(x) /\ Normal[x].label = Label[x]
         /\ Normal[x].parts = PartForms(Normal, x) /\ Normal[x].rest = RestForm(Normal, x)
         /\ NormalKind(x) = "repeat" => Normal[x].range = <<Node[x].min, Node[x].max>>
         /\ NormalKind(x) \in {"not", "list", "table", "repeat"} =>
              PartForms(Normal, x) = [i \in Positions(x) |-> Normal[KidsOf(x)[i]]]
<1>1. Normal[x] = FormFrom(Normal, x)
      BY NormalEquation
<1>2. NormalKind(x) \in {"not", "list", "table", "repeat"} =>
        PartForms(Normal, x) = [i \in Positions(x) |-> Normal[KidsOf(x)[i]]]
      BY Zenon DEF PartForms
<1> QED BY <1>1, <1>2 DEF FormFrom

(* A form without parts names the kind of shape, and what it asks for.     *)
LEMMA LabelTells ==
  ASSUME NEW x \in Shape, NEW y \in Shape, Normal[x] = Normal[y]
  PROVE  /\ KindOf(x) = "exprKind" => KindOf(y) = "exprKind" /\ Node[x].arg = Node[y].arg
         /\ KindOf(x) = "class" => KindOf(y) = "class" /\ Node[x].name = Node[y].name
         /\ KindOf(x) \in {"any", "number"} => KindOf(y) = KindOf(x)
<1>1. NormalKind(x) = NormalKind(y) /\ Label[x] = Label[y]
      BY FormFields
<1> DEFINE Equation(s) ==
             Label[s] = CASE KindOf(s) = "exprKind" -> <<"expr-kind", Node[s].arg>>
                          [] KindOf(s) \in {"class", "capture", "fields"} -> <<KindOf(s), Node[s].name>>
                          [] KindOf(s) = "effectful" -> <<"effectful">> \o Label[KidsOf(s)[1]]
                          [] KindOf(s) = "best" -> <<"or">>
                          [] OTHER -> <<KindOf(s)>>
<1>2. \A s \in Shape : Equation(s)
      BY LabelEquation
<1>3. ASSUME NEW s \in Shape
      PROVE  /\ KindOf(s) = "exprKind" => Label[s] = <<"expr-kind", Node[s].arg>>
             /\ KindOf(s) \in {"class", "capture", "fields"} => Label[s] = <<KindOf(s), Node[s].name>>
             /\ KindOf(s) = "effectful" => Label[s] = <<"effectful">> \o Label[KidsOf(s)[1]]
             /\ KindOf(s) = "best" => Label[s] = <<"or">>
             /\ KindOf(s) \notin {"exprKind", "class", "capture", "fields", "effectful", "best"} =>
                  Label[s] = <<KindOf(s)>>
  <2>1. Equation(s)
        BY <1>2
  <2>2. KindOf(s) \in {"class", "capture", "fields"} => Label[s] = <<KindOf(s), Node[s].name>>
        BY <2>1, Zenon
  <2>3. KindOf(s) = "exprKind" => Label[s] = <<"expr-kind", Node[s].arg>>
        BY <2>1, Zenon
  <2>4. KindOf(s) = "effectful" => Label[s] = <<"effectful">> \o Label[KidsOf(s)[1]]
        BY <2>1, Zenon
  <2>5. KindOf(s) = "best" => Label[s] = <<"or">>
        BY <2>1, Zenon
  <2>6. KindOf(s) \notin {"exprKind", "class", "capture", "fields", "effectful", "best"} =>
                  Label[s] = <<KindOf(s)>>
        BY <2>1, Zenon
  <2> QED BY <2>2, <2>3, <2>4, <2>5, <2>6
<1> HIDE DEF Equation
<1>4. ASSUME NEW s \in Shape, KindOf(s) = "effectful" PROVE Label[s][1] = "effectful"
  <2> DEFINE kid == KidsOf(s)[1]
  <2>1. kid \in Shape
        BY <1>4, ShapeParts DEF NodeOK, WrapKinds
  <2> HIDE DEF kid
  <2>2. Label[kid] \in Seq(LabelWords)
        BY <2>1, LabelEquation
  <2>3. <<"effectful">> \in Seq(LabelWords) /\ Len(<<"effectful">>) = 1 /\ <<"effectful">>[1] = "effectful"
        BY DEF LabelWords
  <2>4. (<<"effectful">> \o Label[kid])[1] = "effectful"
        BY <2>2, <2>3, ConcatProperties
  <2> QED BY <1>3, <1>4, <2>4 DEF kid
<1>5. ASSUME NEW s \in Shape
      PROVE  /\ KindOf(s) = "exprKind" => Label[s][1] = "expr-kind"
             /\ KindOf(s) # "exprKind" /\ KindOf(s) # "best" => Label[s][1] = KindOf(s)
             /\ KindOf(s) = "best" => Label[s][1] = "or"
             /\ KindOf(s) # "expr-kind"
  <2>1. KindOf(s) \in Kinds
        BY ShapeParts DEF NodeType
  <2>2. "expr-kind" \notin Kinds
        BY DEF Kinds, LoopKinds, LeafKinds, AllKinds, AnyKinds, WrapKinds
  <2> QED BY <1>3, <1>4, <2>1, <2>2
<1>6. KindOf(x) = "exprKind" => KindOf(y) = "exprKind"
      BY <1>1, <1>5
<1>7. KindOf(x) = "class" => KindOf(y) = "class"
      BY <1>1, <1>5
<1>8. KindOf(x) \in {"any", "number"} => KindOf(y) = KindOf(x)
      BY <1>1, <1>5
<1>9. KindOf(x) = "exprKind" => Node[x].arg = Node[y].arg
      BY <1>1, <1>3, <1>6
<1>10. KindOf(x) = "class" => Node[x].name = Node[y].name
  <2>1. ASSUME KindOf(x) = "class" PROVE Node[x].name = Node[y].name
        BY <1>1, <1>3, <1>7, <2>1
  <2> QED BY <2>1
<1> QED BY <1>6, <1>7, <1>8, <1>9, <1>10

LEMMA SameLeafKeeps ==
  ASSUME NEW x \in Shape, NEW y \in Shape, Normal[x] = Normal[y],
         KindOf(x) \in {"any", "number", "exprKind"}
  PROVE  Keeps(x, y)
<1>1. KindOf(y) = KindOf(x) /\ (KindOf(x) = "exprKind" => Node[x].arg = Node[y].arg)
      BY LabelTells
<1>2. CASE KindOf(x) = "any"
      BY <1>1, <1>2, AnyKeeps
<1>3. CASE KindOf(x) # "any"
  <2>1. ~Total[x]
        BY <1>3, TotalCases
  <2>2. ASSUME NEW e \in Expr, NEW p \in Paths, Status(x, e, p) = "accept"
        PROVE  Status(y, e, p) # "reject"
    <3>1. CASE KindOf(x) = "exprKind"
          BY <1>1, <2>2, <3>1, LeafAnswers
    <3>2. CASE KindOf(x) = "number"
      <4>1. ASSUME NEW s \in Shape, KindOf(s) = "number"
            PROVE  Status(s, e, p) = IF Term[e].form = "number" THEN "accept" ELSE "reject"
        <5> DEFINE t == Job(s, e, p)
                   rs == Outcomes(Ask(s, e, p))
        <5>1. Kind(t) = "number" /\ t.expr = e /\ t.path = p /\ Status(s, e, p) = Outcome(t, rs).st
              BY <4>1, Asked
        <5> HIDE DEF t, rs
        <5>2. Outcome(t, rs) = LeafResult(t)
              BY <5>1, OutcomeCases DEF LeafKinds
        <5>3. LeafResult(t) = Verdict(Form(t) = "number", IF t.path = "value" THEN 20 ELSE 10)
              BY <5>1, Zenon DEF LeafResult
        <5> QED BY <5>1, <5>2, <5>3 DEF Verdict, Accept, Reject, Form
      <4> QED BY <1>1, <2>2, <3>2, <4>1
    <3> QED BY <1>3, <3>1, <3>2
  <2> QED BY <2>1, <2>2 DEF Keeps, Included
<1> QED BY <1>2, <1>3

(* Two shapes of one class ask the same of every term.                     *)
LEMMA SameClassKeeps ==
  ASSUME NEW x \in Shape, NEW y \in Shape, KindOf(x) = "class", KindOf(y) = "class",
         Node[x].name = Node[y].name
  PROVE  Keeps(x, y)
<1>1. Node[x].kids = Node[y].kids /\ ~Total[x]
      BY RegistryAssumption, TotalCases DEF KindOf
<1>2. ASSUME NEW e \in Expr, NEW p \in Paths PROVE Status(x, e, p) = Status(y, e, p)
  <2> DEFINE tx == Job(x, e, p)
             ty == Job(y, e, p)
             qx == Ask(x, e, p)
             qy == Ask(y, e, p)
  <2>1. /\ Kind(tx) = "class" /\ tx.shape = x /\ tx.expr = e /\ tx.path = p
        /\ Kind(ty) = "class" /\ ty.shape = y /\ ty.expr = e /\ ty.path = p
        /\ qx.task = tx /\ qy.task = ty /\ qx.fuel = Fuel /\ qy.fuel = Fuel
        /\ Status(x, e, p) = Outcome(tx, Outcomes(qx)).st
        /\ Status(y, e, p) = Outcome(ty, Outcomes(qy)).st
        BY Asked
  <2>2. qx.scope = <<>> /\ qy.scope = <<>>
        BY DEF Ask, Asking
  <2> HIDE DEF tx, ty, qx, qy
  <2>3. Kids(tx) = Kids(ty) /\ Form(tx) = Form(ty) /\ (OfClass(tx) <=> OfClass(ty)) /\ (IsObject(tx) <=> IsObject(ty))
        BY <1>1, <2>1 DEF Kids, Form, OfClass, IsObject, SymbolKeys, Keys
  <2>4. ClassOpens(tx) <=> ClassOpens(ty)
        BY <2>1, <2>3 DEF ClassOpens
  <2>5. Places(qx) = Places(qy)
        BY <2>1, <2>4, PlacesCases
  <2>6. ASSUME NEW i PROVE Part(qx, i) = Part(qy, i)
        BY <2>1, <2>2, <2>3, PartCases
  <2>7. Outcomes(qx) = Outcomes(qy)
        BY <2>5, <2>6 DEF Outcomes
  <2>8. ClassDirect(tx) = ClassDirect(ty)
    <3>1. tx.path = ty.path
          BY <2>1
    <3> QED BY <2>3, <3>1 DEF ClassDirect, Verdict
  <2>9. ClassOutcome(tx, Outcomes(qx)) = ClassOutcome(ty, Outcomes(qy))
        BY <2>4, <2>7, <2>8 DEF ClassOutcome
  <2>10. /\ Outcome(tx, Outcomes(qx)) = ClassOutcome(tx, Outcomes(qx))
         /\ Outcome(ty, Outcomes(qy)) = ClassOutcome(ty, Outcomes(qy))
        BY <2>1, OutcomeCases
  <2> QED BY <2>1, <2>9, <2>10
<1> QED BY <1>1, <1>2 DEF Keeps, Included

LEMMA ChoiceRejected ==
  ASSUME NEW s \in Shape, KindOf(s) \in {"or", "best", "oneOf"}, NEW e \in Expr, NEW p \in Paths,
         Status(s, e, p) = "reject", NEW i \in Positions(s)
  PROVE  Status(KidsOf(s)[i], e, p) = "reject"
<1> DEFINE q == Ask(s, e, p)
           t == Job(s, e, p)
           rs == Outcomes(q)
           n == Len(KidsOf(s))
<1>1. /\ LoopOutcome(t, rs).st = "reject" /\ DOMAIN rs = Positions(s)
      /\ \A j \in Positions(s) : j \in Nat /\ Decided(rs[j]) /\ rs[j].st = Status(KidsOf(s)[j], e, p)
      /\ Kind(t) = KindOf(s)
      BY Asked, Branches
<1>2. DOMAIN rs = 1..n /\ n \in Nat
      BY <1>1, ShapeParts
<1> HIDE DEF q, t, rs, n
<1>3. SUFFICES ASSUME rs[i].st # "reject" PROVE FALSE
      BY <1>1
<1>4. CASE KindOf(s) \in AnyKinds
  <2>1. LoopOutcome(t, rs) = OrOutcome(t, rs)
        BY <1>1, <1>4, LoopOutcomeCases
  <2>2. OrOutcome(t, rs).st # "reject"
        BY <1>1, <1>3, OrUnrejected
  <2> QED BY <1>1, <2>1, <2>2
<1>5. CASE KindOf(s) = "best"
  <2>1. LoopOutcome(t, rs) = BestOutcome(t, rs)
        BY <1>1, <1>5, LoopOutcomeCases
  <2>2. BestOutcome(t, rs).st # "reject"
        BY <1>1, <1>2, <1>3, BestUnrejected
  <2> QED BY <1>1, <2>1, <2>2
<1> QED BY <1>4, <1>5 DEF AnyKinds
(* Two junctions of one form: a part one accepts and a part the other      *)
(* rejects would be of one form too.                                       *)
LEMMA SameJunctionKeeps ==
  ASSUME NEW x \in Shape, NEW y \in Shape, NormalKind(x) \in Junctions, SameForm(x, y),
         FormsKept(Height[x] + Height[y])
  PROVE  Keeps(x, y)
<1>1. Normal[x] = Normal[y] /\ NormalKind(y) = NormalKind(x) /\ (Transparent[x] \/ Transparent[y])
      BY FormFields DEF SameForm
<1>2. ASSUME NEW s \in Shape, NormalKind(s) \in Junctions, Transparent[s], NEW i \in Positions(s)
      PROVE  Transparent[KidsOf(s)[i]]
  <2>1. KindOf(s) # "class"
        BY <1>2, NormalKinds DEF Junctions
  <2> QED BY <1>2, <2>1, TransparentEquation
<1>3. ASSUME NEW a \in Shape, NEW b \in Shape, Normal[a] = Normal[b],
             Transparent[x] => Transparent[a], Transparent[y] => Transparent[b],
             Height[a] < Height[x], Height[b] < Height[y]
      PROVE  Keeps(a, b) /\ Keeps(b, a)
  <2>1. SameForm(a, b) /\ SameForm(b, a)
        BY <1>1, <1>3 DEF SameForm
  <2>2. Height[a] + Height[b] < Height[x] + Height[y] /\ Height[b] + Height[a] < Height[x] + Height[y]
        BY <1>3, ShapeParts
  <2> QED BY <2>1, <2>2 DEF FormsKept
<1>4. ASSUME NEW A \in SUBSET Shape, NEW e \in Expr, NEW p \in Paths, x \in A,
             Status(y, e, p) = "reject",
             \A s \in A : KindOf(s) = "and" => \A i \in Positions(s) : KidsOf(s)[i] \in A,
             \A s \in A : KindOf(s) \in {"or", "best", "oneOf"} => \E i \in Positions(s) : KidsOf(s)[i] \in A
      PROVE  \E a \in A, b \in Shape : Keeps(a, b) /\ Status(b, e, p) = "reject"
  <2> DEFINE Taken == {s \in A : Transparent[x] => Transparent[s]}
             Refusing == {s \in Shape : Status(s, e, p) = "reject" /\ (Transparent[y] => Transparent[s])}
  <2>1. /\ x \in Taken /\ y \in Refusing /\ Taken \in SUBSET Shape /\ Refusing \in SUBSET Shape
        BY <1>4
  <2>2. CASE NormalKind(x) = "and"
    <3>1. ASSUME NEW s \in Taken, NormalKind(s) = "and", NEW i \in Positions(s)
          PROVE  KidsOf(s)[i] \in Taken
      <4>1. KindOf(s) = "and" /\ s \in Shape
            BY <3>1, NormalKinds
      <4> QED BY <1>2, <1>4, <3>1, <4>1 DEF Junctions
    <3>2. ASSUME NEW s \in Refusing, NormalKind(s) = "and"
          PROVE  \E i \in Positions(s) : KidsOf(s)[i] \in Refusing
      <4>1. KindOf(s) = "and"
            BY <3>2, NormalKinds
      <4>2. PICK i \in Positions(s) : Status(KidsOf(s)[i], e, p) = "reject"
            BY <3>2, <4>1, ConjunctionAccepted
      <4>3. KidsOf(s)[i] \in Shape
            BY ShapeParts
      <4> QED BY <1>2, <3>2, <4>2, <4>3 DEF Junctions
    <3> HIDE DEF Taken, Refusing
    <3>3. NormalKind(y) = "and" /\ Normal[x].parts = Normal[y].parts /\ "and" \in Junctions
          BY <1>1, <2>2 DEF Junctions
    <3>4. PICK form \in Range(Normal[y].parts), b \in Refusing :
            Normal[b] = form /\ Height[b] < Height[y]
          BY <2>1, <3>2, <3>3, SomePart
    <3>5. form \in Range(Normal[x].parts)
          BY <3>3, <3>4
    <3>6. PICK a \in Taken : Normal[a] = form /\ Height[a] < Height[x]
          BY <2>1, <2>2, <3>1, <3>3, <3>5, EveryPart
    <3> QED BY <1>3, <2>1, <3>4, <3>6 DEF Taken, Refusing
  <2>3. CASE NormalKind(x) = "or"
    <3>1. ASSUME NEW s \in Refusing, NormalKind(s) = "or", NEW i \in Positions(s)
          PROVE  KidsOf(s)[i] \in Refusing
      <4>1. KindOf(s) \in {"or", "best", "oneOf"}
            BY <3>1, NormalKinds
      <4>2. Status(KidsOf(s)[i], e, p) = "reject"
            BY <3>1, <4>1, ChoiceRejected
      <4>3. KidsOf(s)[i] \in Shape
            BY ShapeParts
      <4> QED BY <1>2, <3>1, <4>2, <4>3 DEF Junctions
    <3>2. ASSUME NEW s \in Taken, NormalKind(s) = "or"
          PROVE  \E i \in Positions(s) : KidsOf(s)[i] \in Taken
      <4>1. KindOf(s) \in {"or", "best", "oneOf"} /\ s \in Shape
            BY <3>2, NormalKinds
      <4>2. PICK i \in Positions(s) : KidsOf(s)[i] \in A
            BY <1>4, <3>2, <4>1
      <4> QED BY <1>2, <3>2, <4>1, <4>2 DEF Junctions
    <3> HIDE DEF Taken, Refusing
    <3>3. /\ NormalKind(y) = "or" /\ Normal[x].parts = Normal[y].parts
          /\ Normal[y] = Normal[x] /\ "or" \in Junctions
          BY <1>1, <2>3 DEF Junctions
    <3>4. PICK form \in Range(Normal[x].parts), a \in Taken :
            Normal[a] = form /\ Height[a] < Height[x]
          BY <2>1, <2>3, <3>2, <3>3, SomePart
    <3>5. form \in Range(Normal[y].parts)
          BY <3>3, <3>4
    <3>6. PICK b \in Refusing : Normal[b] = form /\ Height[b] < Height[y]
          BY <2>1, <3>1, <3>3, <3>5, EveryPart
    <3> QED BY <1>3, <2>1, <3>4, <3>6 DEF Taken, Refusing
  <2> QED BY <2>2, <2>3 DEF Junctions
<1>5. ASSUME NEW e \in Expr, NEW p \in Paths, Status(x, e, p) = "accept", Status(y, e, p) = "reject"
      PROVE  FALSE
  <2> DEFINE A == {s \in Shape : Status(s, e, p) = "accept"}
  <2>1. A \in SUBSET Shape /\ x \in A
        BY <1>5
  <2>2. \A s \in A : KindOf(s) = "and" => \A i \in Positions(s) : KidsOf(s)[i] \in A
        BY ConjunctionAccepted, ShapeParts
  <2>3. \A s \in A : KindOf(s) \in {"or", "best", "oneOf"} => \E i \in Positions(s) : KidsOf(s)[i] \in A
        BY ChoiceAccepted, ShapeParts
  <2> HIDE DEF A
  <2>4. PICK a \in A, b \in Shape : Keeps(a, b) /\ Status(b, e, p) = "reject"
        BY <1>4, <1>5, <2>1, <2>2, <2>3
  <2> QED BY <2>4 DEF A, Keeps, Included
<1>6. ASSUME NEW e \in Expr, NEW p \in Paths, Total[x], Status(y, e, p) = "reject"
      PROVE  FALSE
  <2> DEFINE A == {s \in Shape : Total[s]}
  <2>1. A \in SUBSET Shape /\ x \in A
        BY <1>6
  <2>2. \A s \in A : KindOf(s) = "and" => \A i \in Positions(s) : KidsOf(s)[i] \in A
        BY TotalCases, ShapeParts
  <2>3. \A s \in A : KindOf(s) \in {"or", "best", "oneOf"} => \E i \in Positions(s) : KidsOf(s)[i] \in A
        BY TotalCases, ShapeParts
  <2> HIDE DEF A
  <2>4. PICK a \in A, b \in Shape : Keeps(a, b) /\ Status(b, e, p) = "reject"
        BY <1>4, <1>6, <2>1, <2>2, <2>3
  <2> QED BY <2>4 DEF A, Keeps, NeverRejects
<1> QED BY <1>5, <1>6 DEF Keeps, Included, NeverRejects

(* What is built alike of parts of one form.                               *)
LEMMA SamePartsKeep ==
  ASSUME NEW x \in Shape, NEW y \in Shape, KindOf(x) \in {"not", "list", "repeat"}, SameForm(x, y),
         FormsKept(Height[x] + Height[y])
  PROVE  Keeps(x, y)
<1>1. /\ Normal[x] = Normal[y] /\ (Transparent[x] \/ Transparent[y])
      /\ NormalKind(x) = KindOf(x) /\ NormalKind(y) = KindOf(x) /\ KindOf(y) = KindOf(x)
      BY FormFields, NormalKinds DEF SameForm
<1>2. [i \in Positions(x) |-> Normal[KidsOf(x)[i]]] = [i \in Positions(y) |-> Normal[KidsOf(y)[i]]]
      BY <1>1, FormFields
<1>3. Positions(x) = Positions(y) /\ \A i \in Positions(x) : Normal[KidsOf(x)[i]] = Normal[KidsOf(y)[i]]
  <2>1. Positions(x) = Positions(y)
        BY <1>2
  <2>2. ASSUME NEW i \in Positions(x) PROVE Normal[KidsOf(x)[i]] = Normal[KidsOf(y)[i]]
    <3> DEFINE f == [j \in Positions(x) |-> Normal[KidsOf(x)[j]]]
               g == [j \in Positions(y) |-> Normal[KidsOf(y)[j]]]
    <3>1. f[i] = Normal[KidsOf(x)[i]] /\ g[i] = Normal[KidsOf(y)[i]] /\ f = g
          BY <1>2, <2>1
    <3> HIDE DEF f, g
    <3> QED BY <3>1
  <2> QED BY <2>1, <2>2
<1>4. ASSUME NEW s \in {x, y}, Transparent[s]
      PROVE  /\ \A i \in Positions(s) : Transparent[KidsOf(s)[i]]
             /\ Node[s].rest # None => Transparent[Node[s].rest]
  <2>1. s \in Shape /\ KindOf(s) # "class"
        BY <1>1
  <2> QED BY <1>4, <2>1, TransparentEquation
<1>5. ASSUME NEW u \in Shape, NEW v \in Shape, SameForm(u, v), Height[u] < Height[x], Height[v] < Height[y]
      PROVE  Keeps(u, v) /\ Keeps(v, u)
  <2>1. Height[u] + Height[v] < Height[x] + Height[y] /\ Height[v] + Height[u] < Height[x] + Height[y]
        BY <1>5, ShapeParts
  <2> QED BY <1>5, <2>1 DEF FormsKept, SameForm
<1>6. ASSUME NEW i \in Positions(x)
      PROVE  Keeps(KidsOf(x)[i], KidsOf(y)[i]) /\ Keeps(KidsOf(y)[i], KidsOf(x)[i])
  <2>1. SameForm(KidsOf(x)[i], KidsOf(y)[i])
        BY <1>1, <1>3, <1>4 DEF SameForm
  <2>2. /\ KidsOf(x)[i] \in Shape /\ KidsOf(y)[i] \in Shape
        /\ Height[KidsOf(x)[i]] < Height[x] /\ Height[KidsOf(y)[i]] < Height[y]
        BY <1>1, <1>3, ShapeParts
  <2> QED BY <1>5, <2>1, <2>2
<1>7. Len(KidsOf(x)) = Len(KidsOf(y))
  <2>1. \A n, m \in Nat : 1..n = 1..m => n = m
    <3>1. SUFFICES ASSUME NEW n \in Nat, NEW m \in Nat, 1..n = 1..m, n < m PROVE FALSE
          OBVIOUS
    <3>2. m \in 1..m /\ m \notin 1..n
          BY <3>1
    <3> QED BY <3>1, <3>2
  <2> QED BY <1>3, <2>1, ShapeParts
<1>8. CASE KindOf(x) = "not"
  <2>1. 1 \in Positions(x) /\ ~Total[x]
        BY <1>8, NegationAnswers, TotalCases, ShapeParts DEF NodeOK
  <2>2. Included(KidsOf(y)[1], KidsOf(x)[1])
        BY <1>6, <2>1 DEF Keeps
  <2>3. ASSUME NEW e \in Expr, NEW p \in Paths, Status(x, e, p) = "accept" PROVE Status(y, e, p) # "reject"
        BY <1>1, <1>8, <2>2, <2>3, NegationAnswers DEF Included
  <2> QED BY <2>1, <2>3 DEF Keeps, Included
<1>9. CASE KindOf(x) = "repeat"
  <2>1. Normal[x].range = <<Node[x].min, Node[x].max>> /\ Normal[y].range = <<Node[y].min, Node[y].max>>
        BY <1>1, <1>9, FormFields
  <2>2. Node[x].min = Node[y].min /\ Node[x].max = Node[y].max
        BY <1>1, <2>1
  <2>3. 1 \in Positions(x)
        BY <1>9, ShapeParts DEF NodeOK
  <2> QED BY <1>1, <1>6, <1>9, <2>2, <2>3, RepeatsAlike DEF WithinBounds
<1>10. CASE KindOf(x) = "list"
  <2>1. RestForm(Normal, x) = RestForm(Normal, y)
        BY <1>1, FormFields
  <2>2. /\ Node[x].rest = None <=> Node[y].rest = None
        /\ Node[x].rest # None => Normal[Node[x].rest] = Normal[Node[y].rest]
        BY <1>1, <1>10, <2>1 DEF RestForm
  <2>3. ASSUME Node[x].rest # None PROVE Keeps(Node[x].rest, Node[y].rest)
    <3>1. SameForm(Node[x].rest, Node[y].rest)
          BY <1>1, <1>4, <2>2, <2>3 DEF SameForm
    <3>2. /\ Node[x].rest \in Shape /\ Node[y].rest \in Shape
          /\ Height[Node[x].rest] < Height[x] /\ Height[Node[y].rest] < Height[y]
          BY <1>1, <1>10, <2>2, <2>3, ShapeParts
    <3> QED BY <1>5, <3>1, <3>2
  <2>4. Pairwise(x, y) \in OwnRule(x, y)
        BY <1>1, <1>7, <1>10, <2>2, OwnRuleCases DEF ListRule, When, SameKind
  <2>5. \A p \in Pairwise(x, y) : Keeps(p[1], p[2])
        BY <1>3, <1>6, <2>2, <2>3 DEF Pairwise
  <2> QED BY <1>10, <2>4, <2>5, ListKeeps
<1> QED BY <1>8, <1>9, <1>10

LEMMA SameFormKeeps ==
  ASSUME NEW x \in Shape, NEW y \in Shape, SameForm(x, y)
  PROVE  Keeps(x, y)
<1> DEFINE Wrong(n) == \E u, v \in Shape : Height[u] + Height[v] = n /\ SameForm(u, v) /\ ~Keeps(u, v)
           Sizes == {n \in Nat : Wrong(n)}
<1>1. \A s \in Shape : Height[s] \in Nat
      BY ShapeParts
<1>2. SUFFICES ASSUME ~Keeps(x, y) PROVE FALSE
      OBVIOUS
<1>3. Height[x] + Height[y] \in Sizes
      BY <1>1, <1>2
<1>4. PICK n \in Sizes : \A k \in Sizes : n <= k
  <2> HIDE DEF Wrong
  <2> QED BY <1>3, FirstPlace
<1>5. PICK a \in Shape, b \in Shape : Height[a] + Height[b] = n /\ SameForm(a, b) /\ ~Keeps(a, b)
      BY <1>4
<1>6. FormsKept(Height[a] + Height[b])
      BY <1>1, <1>4, <1>5 DEF FormsKept
<1> HIDE DEF Wrong, Sizes
<1>7. NormalKind(a) = NormalKind(b) /\ Normal[a] = Normal[b] /\ Normal[b] = Normal[a]
      BY <1>5, FormFields DEF SameForm
<1>8. CASE NormalKind(a) \in Junctions
      BY <1>5, <1>6, <1>8, SameJunctionKeeps
<1>9. CASE KindOf(a) \in {"not", "list", "repeat"}
      BY <1>5, <1>6, <1>9, SamePartsKeep
<1>10. CASE KindOf(a) \in {"any", "number", "exprKind"} \/ KindOf(b) \in {"any", "number", "exprKind"}
  <2>1. KindOf(a) \in {"any", "number", "exprKind"}
        BY <1>7, <1>10, LabelTells
  <2> QED BY <1>5, <1>7, <2>1, SameLeafKeeps
<1>11. CASE KindOf(a) = "class" \/ KindOf(b) = "class"
  <2>1. KindOf(a) = "class" /\ KindOf(b) = "class" /\ Node[a].name = Node[b].name
        BY <1>7, <1>11, LabelTells
  <2> QED BY <1>5, <2>1, SameClassKeeps
<1>12. \E s \in {a, b} :
         \/ NormalKind(s) \in Junctions
         \/ KindOf(s) \in {"not", "list", "repeat", "any", "number", "exprKind", "class"}
  <2>1. PICK s \in {a, b} : Transparent[s]
        BY <1>5 DEF SameForm
  <2>2. KindOf(s) \in TransparentKinds \cup {"class"}
        BY <2>1, TransparentEquation
  <2> QED BY <2>2, NormalKinds DEF TransparentKinds, Junctions
<1>13. KindOf(b) \in {"not", "list", "repeat"} => KindOf(a) \in {"not", "list", "repeat"}
      BY <1>7, NormalKinds
<1> QED BY <1>7, <1>8, <1>9, <1>10, <1>11, <1>12, <1>13

-----------------------------------------------------------------------------
(* Disjointness.                                                           *)

(* Each rule that separates two shapes, from those that separate the       *)
(* fields they are built of.                                               *)
Disjoint(a, b) ==
  \A e \in Expr, p \in Paths : ~(Status(a, e, p) = "accept" /\ Status(b, e, p) = "accept")

LEMMA NegationApart ==
  ASSUME NEW a \in Shape, NEW b \in Shape, Candid[a], NotOf(a, b)
  PROVE  Disjoint(a, b)
<1>1. KindOf(a) = "not" /\ Normal[KidsOf(a)[1]] = Normal[b]
      BY DEF NotOf
<1>2. Positions(a) = {1} /\ KidsOf(a)[1] \in Shape
  <2>1. Len(KidsOf(a)) = 1
        BY <1>1, ShapeParts DEF NodeOK
  <2> QED BY <2>1, ShapeParts
<1>3. Transparent[KidsOf(a)[1]]
      BY <1>1, <1>2, CandidEquation, TransparentEquation
<1>4. Keeps(b, KidsOf(a)[1])
      BY <1>1, <1>2, <1>3, SameFormKeeps DEF SameForm
<1> QED BY <1>1, <1>4, NegationAnswers DEF Keeps, Included, Disjoint

LEMMA FieldApart ==
  ASSUME NEW a \in Shape, NEW b \in Shape, Candid[a], Candid[b],
         NEW q \in ClosedTableFields(a, b),
         Candid[q[1]] /\ Candid[q[2]] => Disjoint(q[1], q[2])
  PROVE  Disjoint(a, b)
<1>1. KindOf(a) = "table" /\ KindOf(b) = "table"
      BY FieldPair
<1>2. PICK i \in Positions(a), j \in Positions(b) :
        /\ q = <<KidsOf(a)[i], KidsOf(b)[j]>> /\ Node[a].keys[i] = Node[b].keys[j]
        /\ Node[a].needed[i] /\ Node[b].needed[j]
      BY FieldPair
<1>3. Disjoint(KidsOf(a)[i], KidsOf(b)[j])
      BY <1>1, <1>2, CandidEquation
<1>4. SUFFICES ASSUME NEW e \in Expr, NEW p \in Paths,
                      Status(a, e, p) = "accept", Status(b, e, p) = "accept"
               PROVE  FALSE
      BY DEF Disjoint
<1>5. TableOpens(e) /\ TableSays(a, e, p, {"accept"}) /\ TableSays(b, e, p, {"accept"})
      BY <1>1, <1>4, TableAnswers
<1>6. PICK k \in Entries(e) : EntryKey(e, k) = Node[a].keys[i]
      BY <1>2, <1>5 DEF TableSays
<1>7. /\ Status(KidsOf(a)[i], Term[e].items[k], p) \in {"accept"}
      /\ Status(KidsOf(b)[j], Term[e].items[k], p) \in {"accept"}
      BY <1>2, <1>5, <1>6 DEF TableSays
<1>8. Term[e].items[k] \in Expr
      BY <1>1, <1>5, <1>6, TableTurns
<1> QED BY <1>3, <1>7, <1>8 DEF Disjoint

LEMMA SeparationApart ==
  ASSUME NEW a \in Shape, NEW b \in Shape, Candid[a], Candid[b], Separation[<<a, b>>] # None
  PROVE  Disjoint(a, b)
<1> DEFINE D == Shape \X Shape
           Wrong(x) == /\ Separation[x] # None /\ Candid[x[1]] /\ Candid[x[2]]
                       /\ ~Disjoint(x[1], x[2])
           Sizes == {n \in Nat : \E x \in D : PairSize[x] = n /\ Wrong(x)}
<1>1. \A x \in D : PairSize[x] \in Nat
  <2>1. \A s \in Shape : Height[s] \in Nat
        BY ShapeParts
  <2> QED BY <2>1 DEF PairSize
<1>2. SUFFICES ASSUME ~Disjoint(a, b) PROVE FALSE
      OBVIOUS
<1>3. PairSize[<<a, b>>] \in Sizes
      BY <1>1, <1>2
<1>4. PICK n \in Sizes : \A k \in Sizes : n <= k
  <2> HIDE DEF Wrong
  <2> QED BY <1>3, FirstPlace
<1>5. PICK x \in D : PairSize[x] = n /\ Wrong(x)
      BY <1>4
<1>6. PICK y \in Shape, z \in Shape : x = <<y, z>>
      BY <1>5
<1>7. ASSUME NEW w \in D, PairSize[w] < PairSize[x] PROVE ~Wrong(w)
  <2> HIDE DEF Wrong
  <2> QED BY <1>1, <1>4, <1>5, <1>7
<1>8. Separation[<<y, z>>] # None /\ Candid[y] /\ Candid[z] /\ ~Disjoint(y, z)
      BY <1>5, <1>6
<1>9. \/ \E p \in BothWays(y, z) : NotOf(p[1], p[2])
      \/ ExactExprsDiffer(y, z)
      \/ FixedListLengthsDiffer(y, z)
      \/ \E p \in ClosedTableFields(y, z) : Separation[p] # None
      BY <1>8, SeparationEquation
<1>10. CASE \E p \in BothWays(y, z) : NotOf(p[1], p[2])
  <2>1. NotOf(y, z) \/ NotOf(z, y)
        BY <1>10 DEF BothWays
  <2>2. Disjoint(y, z) \/ Disjoint(z, y)
        BY <1>8, <2>1, NegationApart
  <2> QED BY <1>8, <2>2 DEF Disjoint
<1>11. CASE ExactExprsDiffer(y, z)
       BY <1>8, <1>11, LeafAnswers DEF ExactExprsDiffer, Disjoint
<1>12. CASE FixedListLengthsDiffer(y, z)
  <2>1. ASSUME NEW e \in Expr, NEW p \in Paths, Status(y, e, p) = "accept", Status(z, e, p) = "accept"
        PROVE  FALSE
    <3>1. ListOpens(y, e) /\ ListOpens(z, e)
          BY <1>12, <2>1, ListAnswers DEF FixedListLengthsDiffer
    <3> QED BY <1>12, <3>1 DEF ListOpens, FixedListLengthsDiffer
  <2> QED BY <1>8, <2>1 DEF Disjoint
<1>13. CASE \E p \in ClosedTableFields(y, z) : Separation[p] # None
  <2>1. PICK p \in ClosedTableFields(y, z) : Separation[p] # None
        BY <1>13
  <2>2. p \in D /\ PairSize[p] < PairSize[x]
        BY <1>6, <2>1, FieldsSmaller
  <2>3. Candid[p[1]] /\ Candid[p[2]] => Disjoint(p[1], p[2])
        BY <1>7, <2>1, <2>2
  <2> QED BY <1>8, <2>1, <2>3, FieldApart
<1> QED BY <1>9, <1>10, <1>11, <1>12, <1>13

-----------------------------------------------------------------------------
(* Regions.                                                                *)

Answers == {"accept", "reject", "error"}

LEMMA AllOfIs ==
  ASSUME NEW t, NEW at \in SUBSET Nat, \A i \in at : On(t, i) \in Answers
  PROVE  /\ AllOf(t, at) \in Answers
         /\ AllOf(t, at) = "accept" <=> \A i \in at : On(t, i) = "accept"
         /\ AllOf(t, at) = "error" => \E i \in at : On(t, i) = "error"
<1> DEFINE bad == {i \in at : On(t, i) # "accept"}
<1>1. AllOf(t, at) = IF bad = {} THEN "accept" ELSE On(t, Min(bad))
      BY DEF AllOf
<1>2. bad # {} => Min(bad) \in bad
  <2>1. bad \in SUBSET Nat
        OBVIOUS
  <2> HIDE DEF bad
  <2> QED BY <2>1, MinIs
<1> QED BY <1>1, <1>2 DEF Answers

LEMMA AnyOfIs ==
  ASSUME NEW t, NEW at \in SUBSET Nat, \A i \in at : On(t, i) \in Answers
  PROVE  /\ AnyOf(t, at) \in Answers
         /\ AnyOf(t, at) = "reject" <=> \A i \in at : On(t, i) = "reject"
         /\ AnyOf(t, at) = "accept" => \E i \in at : On(t, i) = "accept"
         /\ AnyOf(t, at) = "error" => \E i \in at : On(t, i) = "error"
<1> DEFINE good == {i \in at : On(t, i) # "reject"}
<1>1. AnyOf(t, at) = IF good = {} THEN "reject" ELSE On(t, Min(good))
      BY DEF AnyOf
<1>2. good # {} => Min(good) \in good
  <2>1. good \in SUBSET Nat
        OBVIOUS
  <2> HIDE DEF good
  <2> QED BY <2>1, MinIs
<1> QED BY <1>1, <1>2 DEF Answers

LEMMA NoneOfIs ==
  ASSUME NEW t, NEW at \in SUBSET Nat, \A i \in at : On(t, i) \in Answers
  PROVE  /\ NoneOf(t, at) \in Answers
         /\ NoneOf(t, at) = "accept" <=> \A i \in at : On(t, i) = "reject"
         /\ NoneOf(t, at) = "reject" => \E i \in at : On(t, i) = "accept"
         /\ NoneOf(t, at) = "error" => \E i \in at : On(t, i) = "error"
<1>1. NoneOf(t, at) = IF AnyOf(t, at) = "accept" THEN "reject"
                      ELSE IF AnyOf(t, at) = "reject" THEN "accept" ELSE "error"
      BY DEF NoneOf
<1> QED BY <1>1, AnyOfIs DEF Answers

LEMMA OnlyTheseIs ==
  ASSUME NEW t, NEW at \in SUBSET Nat, NEW others \in SUBSET Nat,
         \A i \in at \cup others : On(t, i) \in Answers
  PROVE  LET out == OnlyThese(t, at, others) IN
         /\ out \in Answers
         /\ out = "accept" => /\ \A i \in at : On(t, i) = "accept"
                              /\ \A i \in others : On(t, i) = "reject"
         /\ out = "reject" => \/ \E i \in at : On(t, i) # "accept"
                              \/ \E i \in others : On(t, i) = "accept"
         /\ out = "error" => \E i \in at \cup others : On(t, i) = "error"
<1>1. /\ AllOf(t, at) \in Answers
      /\ AllOf(t, at) = "accept" <=> \A i \in at : On(t, i) = "accept"
      /\ AllOf(t, at) = "error" => \E i \in at : On(t, i) = "error"
      BY AllOfIs
<1>2. /\ NoneOf(t, others) \in Answers
      /\ NoneOf(t, others) = "accept" <=> \A i \in others : On(t, i) = "reject"
      /\ NoneOf(t, others) = "reject" => \E i \in others : On(t, i) = "accept"
      /\ NoneOf(t, others) = "error" => \E i \in others : On(t, i) = "error"
      BY NoneOfIs
<1> QED BY <1>1, <1>2 DEF OnlyThese, Answers

-----------------------------------------------------------------------------
(* The comparison's invariant.                                             *)

Shown == IF venn = <<>> THEN {left, right} ELSE {venn[i].shape : i \in DOMAIN venn}

(* What is checked, and where: comparisons have no Venn set, and what is   *)
(* known of the shapes at hand is what a check makes of every term.        *)
AtWork ==
  /\ outcome = [s \in Shown |-> Checked[s]]
  /\ step \in {"compare", "separate", "probe"} => venn = <<>>
  /\ step = "venn" => venn # <<>>
  /\ answer.kind \in Relations => venn = <<>>

(* A relation reported as proven was found by a rule.                      *)
Found ==
  /\ \A p \in below : Subshape[p]
  /\ answer.kind \in {"Equal", "LeftSubshape"} => <<left, right>> \in below
  /\ answer.kind \in {"Equal", "RightSubshape"} => <<right, left>> \in below
  /\ apart # None => apart = Separation[<<left, right>>]
  /\ answer.kind = "Disjoint" => apart # None

(* The witnesses are the probes' outcomes, in order, and decide the rest.  *)
Probed ==
  /\ venn = <<>> => \A i \in DOMAIN witnesses :
       /\ Common(witnesses[i]) <=> probes[i] \in Takes(left) \cap Takes(right)
       /\ Answered(probes[i])
  /\ answer.kind = "Overlap" =>
       Len(witnesses) = Len(probes) /\ \E i \in DOMAIN witnesses : Common(witnesses[i])
  /\ answer.kind = "Unknown" =>
       Len(witnesses) = Len(probes) /\ ~\E i \in DOMAIN witnesses : Common(witnesses[i])
  /\ answer.proven <=> answer.kind \in Relations \ {"Overlap", "Unknown"}

(* The region reported is one of the set's.                                *)
Regioned ==
  answer.kind = "Region" =>
    /\ venn # <<>> /\ region.names \subseteq NamesOfVenn
    /\ \/ region.kind \in {"union", "intersection", "outside_all", "exactly"}
       \/ region.kind = "only" /\ \E name \in NamesOfVenn : region.names = {name}
    /\ region.sts = [t \in Expr \X Paths |-> RegionOn(t, region.kind, region.names)]

Relating == TypeOK /\ AtWork /\ Found /\ Probed /\ Regioned

(* Every reachable answer of a check is one of three.                      *)
LEMMA CheckedIs ==
  /\ \A s \in Shape, e \in Expr, p \in Paths : Checked[s][<<e, p>>] = Status(s, e, p)
  /\ \A s \in Shape, t \in Expr \X Paths : Checked[s][t] \in Answers
<1>1. \A s \in Shape, e \in Expr, p \in Paths : Checked[s][<<e, p>>] = Status(s, e, p)
      BY DEF Checked, Status, Ask
<1>2. ASSUME NEW s \in Shape, NEW t \in Expr \X Paths PROVE Checked[s][t] \in Answers
  <2>1. PICK e \in Expr, p \in Paths : t = <<e, p>>
        OBVIOUS
  <2> QED BY <1>1, <2>1, Asked DEF Answers
<1> QED BY <1>1, <1>2

LEMMA InitRelating == Init => Relating
<1> SUFFICES ASSUME Init PROVE Relating
    OBVIOUS
<1> USE DEF Init
<1>1. TypeOK
  <2>1. probes \in Seq(Expr \X Paths) /\ Len(probes) \in Nat
        BY RelateAssumption
  <2> QED BY <2>1 DEF TypeOK
<1>2. venn = <<>> /\ witnesses = <<>> /\ answer.kind = "None" /\ answer.proven = FALSE
      OBVIOUS
<1>3. AtWork
      BY <1>2 DEF AtWork, Shown, Relations
<1>4. Found
      BY <1>2 DEF Found
<1>5. Probed
      BY <1>2 DEF Probed, Relations
<1>6. Regioned
      BY <1>2 DEF Regioned
<1> QED BY <1>1, <1>3, <1>4, <1>5, <1>6 DEF Relating

(* Conjuncts about variables that a step leaves alone.                     *)
LEMMA SameShown ==
  ASSUME Relating, UNCHANGED <<left, right, outcome, venn>>
  PROVE  /\ Shown' = Shown /\ outcome' = [s \in Shown' |-> Checked[s]]
         /\ \A s : Takes(s)' = Takes(s) /\ Refused(s)' = Refused(s)
<1>1. Shown' = Shown
      BY DEF Shown
<1>2. outcome = [s \in Shown |-> Checked[s]]
      BY DEF Relating, AtWork
<1>3. outcome' = [s \in Shown' |-> Checked[s]]
      BY <1>1, <1>2
<1> QED BY <1>1, <1>3 DEF Takes, Refused

(* A step that reports what is no relation and no region.                  *)
LEMMA ReportsFailure ==
  ASSUME Relating, step \in {"compare", "separate", "probe", "venn"}, Report("Failed", FALSE),
         UNCHANGED <<left, right, probes, outcome, below, apart, witnesses, venn, region>>
  PROVE  Relating'
<1>1. answer' = [kind |-> "Failed", proven |-> FALSE] /\ step' = "done"
      BY DEF Report
<1>2. TypeOK'
      BY <1>1 DEF Relating, TypeOK, BothWays
<1>3. AtWork'
      BY <1>1, SameShown DEF AtWork, Relations
<1>4. Found'
      BY <1>1 DEF Relating, Found
<1>5. Probed'
  <2>1. (\A s : Takes(s)' = Takes(s)) /\ \A t : Answered(t)' <=> Answered(t)
        BY SameShown DEF Answered
  <2> QED BY <1>1, <2>1 DEF Relating, Probed, Relations
<1>6. Regioned'
      BY <1>1 DEF Regioned
<1> QED BY <1>2, <1>3, <1>4, <1>5, <1>6 DEF Relating

LEMMA CompareRelating == Relating /\ Compare => Relating'
<1> SUFFICES ASSUME Relating, Compare PROVE Relating'
    OBVIOUS
<1>1. /\ step = "compare" /\ step' = "separate" /\ answer.kind = "None"
      /\ below' = {p \in BothWays(left, right) : Subshape[p]}
      /\ UNCHANGED <<left, right, probes, outcome, apart, witnesses, answer, venn, region>>
      /\ venn = <<>>
      BY DEF Compare, Relating, TypeOK, AtWork
<1>2. TypeOK'
      BY <1>1 DEF Relating, TypeOK, BothWays
<1>3. AtWork'
      BY <1>1, SameShown DEF AtWork, Relations
<1>4. Found'
      BY <1>1 DEF Relating, Found
<1>5. Probed'
  <2>1. (\A s : Takes(s)' = Takes(s)) /\ \A t : Answered(t)' <=> Answered(t)
        BY <1>1, SameShown DEF Answered
  <2> QED BY <1>1, <2>1 DEF Relating, Probed, Relations
<1>6. Regioned'
      BY <1>1 DEF Regioned
<1> QED BY <1>2, <1>3, <1>4, <1>5, <1>6 DEF Relating

LEMMA FindSubshapeRelating == Relating /\ FindSubshape => Relating'
<1> SUFFICES ASSUME Relating, FindSubshape PROVE Relating'
    OBVIOUS
<1> DEFINE l == <<left, right>> \in below
           r == <<right, left>> \in below
<1>1. /\ step = "separate" /\ step' = "done" /\ venn = <<>> /\ below # {}
      /\ answer' = [kind |-> Direction(l, r), proven |-> TRUE]
      /\ UNCHANGED <<left, right, probes, outcome, below, apart, witnesses, venn, region>>
      /\ below \subseteq BothWays(left, right)
      BY DEF FindSubshape, Report, Relating, TypeOK, AtWork
<1>2. /\ Direction(l, r) \in {"Equal", "LeftSubshape", "RightSubshape"}
      /\ Direction(l, r) \in {"Equal", "LeftSubshape"} => l
      /\ Direction(l, r) \in {"Equal", "RightSubshape"} => r
  <2>1. l \/ r
        BY <1>1 DEF BothWays
  <2> HIDE DEF l, r
  <2>2. CASE l /\ r
        BY <2>2, Zenon DEF Direction
  <2>3. CASE l /\ ~r
        BY <2>3 DEF Direction
  <2>4. CASE ~l /\ r
        BY <2>4 DEF Direction
  <2> QED BY <2>1, <2>2, <2>3, <2>4
<1>3. /\ answer'.kind = Direction(l, r) /\ answer'.proven = TRUE
      BY <1>1
<1> HIDE DEF l, r
<1>4. TypeOK'
      BY <1>1, <1>2, <1>3 DEF Relating, TypeOK, BothWays, Relations
<1>5. AtWork'
      BY <1>1, SameShown DEF AtWork
<1>6. Found'
      BY <1>1, <1>2, <1>3 DEF Relating, Found, l, r
<1>7. Probed'
  <2>1. (\A s : Takes(s)' = Takes(s)) /\ \A t : Answered(t)' <=> Answered(t)
        BY <1>1, SameShown DEF Answered
  <2> QED BY <1>1, <1>2, <1>3, <2>1 DEF Relating, Probed, Relations
<1>8. Regioned'
      BY <1>2, <1>3 DEF Regioned
<1> QED BY <1>4, <1>5, <1>6, <1>7, <1>8 DEF Relating

LEMMA SeparateRelating == Relating /\ Separate => Relating'
<1> SUFFICES ASSUME Relating, Separate PROVE Relating'
    OBVIOUS
<1>1. /\ step = "separate" /\ step' = "probe" /\ answer.kind = "None" /\ venn = <<>>
      /\ apart' = Separation[<<left, right>>]
      /\ UNCHANGED <<left, right, probes, outcome, below, witnesses, answer, venn, region>>
      BY DEF Separate, Relating, TypeOK, AtWork
<1>2. apart' \in Separations
  <2>1. left \in Shape /\ right \in Shape
        BY RelateAssumption DEF Relating, TypeOK
  <2> QED BY <1>1, <2>1, SeparationEquation
<1>3. TypeOK'
      BY <1>1, <1>2 DEF Relating, TypeOK, BothWays, Separations
<1>4. AtWork'
      BY <1>1, SameShown DEF AtWork, Relations
<1>5. Found'
      BY <1>1 DEF Relating, Found
<1>6. Probed'
  <2>1. (\A s : Takes(s)' = Takes(s)) /\ \A t : Answered(t)' <=> Answered(t)
        BY <1>1, SameShown DEF Answered
  <2> QED BY <1>1, <2>1 DEF Relating, Probed, Relations
<1>7. Regioned'
      BY <1>1 DEF Regioned
<1> QED BY <1>3, <1>4, <1>5, <1>6, <1>7 DEF Relating

LEMMA FindDisjointRelating == Relating /\ FindDisjoint => Relating'
<1> SUFFICES ASSUME Relating, FindDisjoint PROVE Relating'
    OBVIOUS
<1>1. /\ step = "probe" /\ step' = "done" /\ venn = <<>> /\ apart # None
      /\ answer' = [kind |-> "Disjoint", proven |-> TRUE]
      /\ UNCHANGED <<left, right, probes, outcome, below, apart, witnesses, venn, region>>
      BY DEF FindDisjoint, Report, Relating, AtWork
<1>2. TypeOK'
      BY <1>1 DEF Relating, TypeOK, BothWays, Relations
<1>3. AtWork'
      BY <1>1, SameShown DEF AtWork
<1>4. Found'
      BY <1>1 DEF Relating, Found
<1>5. Probed'
  <2>1. (\A s : Takes(s)' = Takes(s)) /\ \A t : Answered(t)' <=> Answered(t)
        BY <1>1, SameShown DEF Answered
  <2> QED BY <1>1, <2>1 DEF Relating, Probed, Relations
<1>6. Regioned'
      BY <1>1 DEF Regioned
<1> QED BY <1>2, <1>3, <1>4, <1>5, <1>6 DEF Relating

LEMMA RunProbeRelating == Relating /\ RunProbe => Relating'
<1> SUFFICES ASSUME Relating, RunProbe PROVE Relating'
    OBVIOUS
<1> DEFINE w == [left |-> outcome[left][ProbeNext] = "accept",
                 right |-> outcome[right][ProbeNext] = "accept"]
           n == Len(witnesses)
<1>1. /\ step = "probe" /\ answer.kind = "None" /\ venn = <<>> /\ Len(witnesses) < Len(probes)
      /\ witnesses' = Append(witnesses, w)
      /\ UNCHANGED <<left, right, probes, outcome, step, below, apart, answer, venn, region>>
      BY DEF RunProbe, Relating, TypeOK, AtWork
<1>2. /\ witnesses \in Seq([left: BOOLEAN, right: BOOLEAN]) /\ n \in Nat
      /\ probes \in Seq(Expr \X Paths) /\ Len(probes) \in Nat
      BY RelateAssumption DEF Relating, TypeOK
<1>3. w \in [left: BOOLEAN, right: BOOLEAN]
      OBVIOUS
<1>4. /\ Common(w) <=> probes[n + 1] \in Takes(left) \cap Takes(right)
      /\ Answered(probes[n + 1])
  <2>1. probes[n + 1] \in Expr \X Paths
    <3>1. n + 1 \in 1..Len(probes)
          BY <1>1, <1>2
    <3> QED BY <1>2, <3>1, ElementOfSeq
  <2> QED BY <2>1 DEF Common, Takes, Answered, ProbeNext, RunProbe
<1> HIDE DEF w
<1>5. /\ witnesses' \in Seq([left: BOOLEAN, right: BOOLEAN]) /\ Len(witnesses') = n + 1
      /\ DOMAIN witnesses' = 1..(n + 1) /\ DOMAIN witnesses = 1..n
      /\ witnesses'[n + 1] = w /\ \A i \in 1..n : witnesses'[i] = witnesses[i]
      BY <1>1, <1>2, <1>3
<1>6. TypeOK'
      BY <1>1, <1>2, <1>5 DEF Relating, TypeOK, BothWays
<1>7. AtWork'
      BY <1>1, SameShown DEF AtWork, Relations
<1>8. Found'
      BY <1>1 DEF Relating, Found
<1>9. Probed'
  <2>1. (\A s : Takes(s)' = Takes(s)) /\ \A t : Answered(t)' <=> Answered(t)
        BY <1>1, SameShown DEF Answered
  <2>2. ASSUME NEW i \in 1..(n + 1)
        PROVE  /\ Common(witnesses'[i]) <=> probes[i] \in Takes(left) \cap Takes(right)
               /\ Answered(probes[i])
    <3>1. CASE i = n + 1
          BY <1>4, <1>5, <3>1
    <3>2. CASE i # n + 1
      <4>1. i \in 1..n
            BY <1>2, <3>2
      <4> QED BY <1>1, <1>5, <4>1 DEF Relating, Probed
    <3> QED BY <3>1, <3>2
  <2>3. (\A x : Takes(x)' = Takes(x)) /\ \A t : Answered(t)' <=> Answered(t)
        BY <2>1
  <2>4. (venn = <<>> => \A i \in DOMAIN witnesses :
           /\ Common(witnesses[i]) <=> probes[i] \in Takes(left) \cap Takes(right)
           /\ Answered(probes[i]))'
        BY <1>1, <1>5, <2>2, <2>3
  <2> QED BY <1>1, <2>4 DEF Relating, Probed, Relations
<1>10. Regioned'
       BY <1>1 DEF Regioned
<1> QED BY <1>6, <1>7, <1>8, <1>9, <1>10 DEF Relating

LEMMA ConcludeRelating == Relating /\ Conclude => Relating'
<1> SUFFICES ASSUME Relating, Conclude PROVE Relating'
    OBVIOUS
<1> DEFINE hit == \E i \in DOMAIN witnesses : Common(witnesses[i])
           kind == IF hit THEN "Overlap" ELSE "Unknown"
<1>1. /\ step = "probe" /\ step' = "done" /\ venn = <<>> /\ Len(witnesses) = Len(probes)
      /\ answer' = [kind |-> kind, proven |-> FALSE]
      /\ UNCHANGED <<left, right, probes, outcome, below, apart, witnesses, venn, region>>
      BY DEF Conclude, Report, Relating, AtWork
<1>2. answer'.kind = kind /\ answer'.proven = FALSE
      BY <1>1
<1>3. /\ kind \in {"Overlap", "Unknown"}
      /\ kind = "Overlap" => hit
      /\ kind = "Unknown" => ~hit
      OBVIOUS
<1>4. hit' <=> hit
      BY <1>1
<1> HIDE DEF kind
<1>5. TypeOK'
      BY <1>1, <1>2, <1>3 DEF Relating, TypeOK, BothWays, Relations
<1>6. AtWork'
      BY <1>1, SameShown DEF AtWork
<1>7. Found'
      BY <1>1, <1>2, <1>3 DEF Relating, Found
<1>8. Probed'
  <2>1. (\A s : Takes(s)' = Takes(s)) /\ \A t : Answered(t)' <=> Answered(t)
        BY <1>1, SameShown DEF Answered
  <2> QED BY <1>1, <1>2, <1>3, <1>4, <2>1 DEF Relating, Probed, Relations
<1>9. Regioned'
      BY <1>2, <1>3 DEF Regioned
<1> QED BY <1>5, <1>6, <1>7, <1>8, <1>9 DEF Relating

LEMMA BuildVennRelating == Relating /\ BuildVenn => Relating'
<1> SUFFICES ASSUME Relating, BuildVenn PROVE Relating'
    OBVIOUS
<1>1. /\ step = "compare" /\ step' = "venn" /\ answer.kind = "None"
      /\ venn' \in Members
      /\ outcome' = [s \in {venn'[i].shape : i \in DOMAIN venn'} |-> Checked[s]]
      /\ UNCHANGED <<left, right, probes, below, apart, witnesses, answer, region>>
      BY DEF BuildVenn, Relating, TypeOK
<1>2. venn' # <<>>
      BY <1>1, RelateAssumption
<1>3. TypeOK'
      BY <1>1 DEF Relating, TypeOK, BothWays
<1>4. AtWork'
      BY <1>1, <1>2 DEF AtWork, Shown, Relations
<1>5. Found'
      BY <1>1 DEF Relating, Found
<1>6. Probed'
      BY <1>1, <1>2 DEF Relating, Probed, Relations
<1>7. Regioned'
      BY <1>1 DEF Regioned
<1> QED BY <1>3, <1>4, <1>5, <1>6, <1>7 DEF Relating

LEMMA SameRegions ==
  ASSUME UNCHANGED <<outcome, venn>>
  PROVE  /\ NamesOfVenn' = NamesOfVenn
         /\ \A t, kind, names : RegionOn(t, kind, names)' = RegionOn(t, kind, names)
<1>1. venn' = venn /\ outcome' = outcome
      OBVIOUS
<1>2. NamesOfVenn' = NamesOfVenn
      BY <1>1 DEF NamesOfVenn
<1>3. ASSUME NEW t, NEW kind, NEW names
      PROVE  RegionOn(t, kind, names)' = RegionOn(t, kind, names)
      BY <1>1 DEF RegionOn, AnyOf, AllOf, NoneOf, Only, OnlyThese, On, Selected, Remaining
<1> QED BY <1>2, <1>3

LEMMA AskRegionRelating ==
  ASSUME Relating, NEW kind, NEW names, AskRegion(kind, names),
         \/ kind \in {"union", "intersection", "outside_all", "exactly"}
         \/ kind = "only" /\ \E name : names = {name}
  PROVE  Relating'
<1>1. /\ step = "venn" /\ step' = "done" /\ venn # <<>> /\ names \subseteq NamesOfVenn
      /\ region' = [kind |-> kind, names |-> names,
                    sts |-> [t \in Expr \X Paths |-> RegionOn(t, kind, names)]]
      /\ answer' = [kind |-> "Region", proven |-> FALSE]
      /\ UNCHANGED <<left, right, probes, outcome, below, apart, witnesses, venn>>
      BY DEF AskRegion, Report, Relating, AtWork
<1>2. TypeOK'
      BY <1>1 DEF Relating, TypeOK, BothWays
<1>3. AtWork'
      BY <1>1, SameShown DEF AtWork, Relations
<1>4. Found'
      BY <1>1 DEF Relating, Found
<1>5. Probed'
      BY <1>1 DEF Relating, Probed, Relations
<1>6. Regioned'
  <2>1. region'.kind = kind /\ region'.names = names
        /\ region'.sts = [t \in Expr \X Paths |-> RegionOn(t, kind, names)]
        BY <1>1
  <2>2. NamesOfVenn' = NamesOfVenn
        BY <1>1, SameRegions
  <2>3. \A t : RegionOn(t, kind, names)' = RegionOn(t, kind, names)
        BY <1>1, SameRegions
  <2>4. region'.sts = [t \in Expr \X Paths |-> RegionOn(t, kind, names)']
        BY <2>1, <2>3, Zenon
  <2>5. region.sts' = [t \in Expr \X Paths |-> RegionOn(t, region.kind, region.names)]'
        BY <2>1, <2>4
  <2>6. \/ kind \in {"union", "intersection", "outside_all", "exactly"}
        \/ kind = "only" /\ \E name \in NamesOfVenn : names = {name}
        BY <1>1
  <2>7. (\/ region.kind \in {"union", "intersection", "outside_all", "exactly"}
         \/ region.kind = "only" /\ \E name \in NamesOfVenn : region.names = {name})'
        BY <2>1, <2>2, <2>6
  <2>8. (venn # <<>> /\ region.names \subseteq NamesOfVenn)'
        BY <1>1, <2>1, <2>2
  <2> QED BY <2>5, <2>7, <2>8 DEF Regioned
<1> QED BY <1>2, <1>3, <1>4, <1>5, <1>6 DEF Relating

LEMMA NextRelating == Relating /\ [Next]_vars => Relating'
<1> SUFFICES ASSUME Relating, [Next]_vars PROVE Relating'
    OBVIOUS
<1>1. CASE RelateFails
      BY <1>1, ReportsFailure DEF RelateFails
<1>2. CASE Compare
      BY <1>2, CompareRelating
<1>3. CASE FindSubshape
      BY <1>3, FindSubshapeRelating
<1>4. CASE Separate
      BY <1>4, SeparateRelating
<1>5. CASE FindDisjoint
      BY <1>5, FindDisjointRelating
<1>6. CASE RunProbe
      BY <1>6, RunProbeRelating
<1>7. CASE ProbeFails
      BY <1>7, ReportsFailure DEF ProbeFails
<1>8. CASE Conclude
      BY <1>8, ConcludeRelating
<1>9. CASE BuildVenn
      BY <1>9, BuildVennRelating
<1>10. CASE Regions
  <2>1. ASSUME NEW names, UnknownMember(names) PROVE Relating'
        BY <2>1, ReportsFailure DEF UnknownMember
  <2>2. CASE \E kind \in {"union", "intersection", "outside_all"} : AskRegion(kind, {})
        BY <2>2, AskRegionRelating
  <2>3. CASE \E name \in VennNames : AskRegion("only", {name}) \/ UnknownMember({name})
        BY <2>1, <2>3, AskRegionRelating
  <2>4. CASE \E names \in SUBSET VennNames : AskRegion("exactly", names) \/ UnknownMember(names)
        BY <2>1, <2>4, AskRegionRelating
  <2> QED BY <1>10, <2>2, <2>3, <2>4 DEF Regions
<1>11. CASE UNCHANGED vars
  <2>1. UNCHANGED <<left, right, probes, outcome, step, below, apart, witnesses, answer, venn, region>>
        BY <1>11 DEF vars
  <2>2. TypeOK'
        BY <2>1 DEF Relating, TypeOK, BothWays
  <2>3. AtWork'
        BY <2>1, SameShown DEF Relating, AtWork
  <2>4. Found'
        BY <2>1 DEF Relating, Found
  <2>5. Probed'
    <3>1. (\A s : Takes(s)' = Takes(s)) /\ \A t : Answered(t)' <=> Answered(t)
          BY <2>1, SameShown DEF Answered
    <3> QED BY <2>1, <3>1 DEF Relating, Probed
  <2>6. Regioned'
    <3>1. NamesOfVenn' = NamesOfVenn
          BY <2>1, SameRegions
    <3>2. ASSUME NEW t PROVE RegionOn(t, region.kind, region.names)' = RegionOn(t, region.kind, region.names)
      <4>1. \A kind, names : RegionOn(t, kind, names)' = RegionOn(t, kind, names)
            BY <2>1, SameRegions
      <4> QED BY <2>1, <4>1
    <3>3. [t \in Expr \X Paths |-> RegionOn(t, region.kind, region.names)]'
            = [t \in Expr \X Paths |-> RegionOn(t, region.kind, region.names)]
          BY <3>2, Zenon
    <3> QED BY <2>1, <3>1, <3>3 DEF Relating, Regioned
  <2> QED BY <2>2, <2>3, <2>4, <2>5, <2>6 DEF Relating
<1> QED BY <1>1, <1>2, <1>3, <1>4, <1>5, <1>6, <1>7, <1>8, <1>9, <1>10, <1>11 DEF Next

THEOREM AlwaysRelating == Spec => []Relating
<1> QED BY InitRelating, NextRelating, PTL DEF Spec

-----------------------------------------------------------------------------
(* Types are kept, for every graph, every list of probes and every set.    *)
THEOREM RelateTypeCorrect == Spec => []TypeOK
<1>1. Relating => TypeOK
      BY DEF Relating
<1> QED BY <1>1, AlwaysRelating, PTL

(* While shapes are compared, what they take and refuse is what a check    *)
(* makes of every term.                                                    *)
LEMMA TakesIs ==
  ASSUME Relating, venn = <<>>, NEW s \in {left, right}
  PROVE  /\ s \in Shape
         /\ \A e \in Expr, p \in Paths : /\ <<e, p>> \in Takes(s) <=> Status(s, e, p) = "accept"
                                         /\ <<e, p>> \in Refused(s) <=> Status(s, e, p) = "reject"
         /\ Takes(s) \subseteq Expr \X Paths
<1>1. s \in Shape /\ outcome[s] = Checked[s]
      BY RelateAssumption DEF Relating, AtWork, Shown, TypeOK
<1> QED BY <1>1, CheckedIs DEF Takes, Refused

LEMMA BelowIsInclusion ==
  ASSUME Relating, Trusted, venn = <<>>, NEW a \in {left, right}, NEW b \in {left, right},
         <<a, b>> \in below
  PROVE  Takes(a) \cap Refused(b) = {}
<1>1. a \in Shape /\ b \in Shape /\ Subshape[<<a, b>>]
      BY TakesIs DEF Relating, Found
<1>2. Included(a, b)
      BY <1>1, SubshapeKeeps DEF Keeps
<1>3. SUFFICES ASSUME NEW t \in Takes(a) \cap Refused(b) PROVE FALSE
      OBVIOUS
<1>4. PICK e \in Expr, p \in Paths : t = <<e, p>>
      BY <1>3, TakesIs
<1> QED BY <1>2, <1>3, <1>4, TakesIs DEF Included

(* A relation reported as proven holds of every term: every rule of every  *)
(* shape, and the kernel's own, asks for inclusions that imply it.         *)
THEOREM ProvenMeansIncluded == Spec => []SubshapeIsInclusion
<1>1. ASSUME Relating PROVE SubshapeIsInclusion
  <2>1. SUFFICES ASSUME Trusted
                 PROVE  /\ answer.kind \in {"Equal", "LeftSubshape"} => Takes(left) \cap Refused(right) = {}
                        /\ answer.kind \in {"Equal", "RightSubshape"} => Takes(right) \cap Refused(left) = {}
        BY DEF SubshapeIsInclusion
  <2>2. ASSUME answer.kind \in {"Equal", "LeftSubshape"} PROVE Takes(left) \cap Refused(right) = {}
    <3>1. venn = <<>> /\ <<left, right>> \in below
          BY <1>1, <2>2 DEF Relating, AtWork, Found, Relations
    <3> QED BY <1>1, <2>1, <3>1, BelowIsInclusion
  <2>3. ASSUME answer.kind \in {"Equal", "RightSubshape"} PROVE Takes(right) \cap Refused(left) = {}
    <3>1. venn = <<>> /\ <<right, left>> \in below
          BY <1>1, <2>3 DEF Relating, AtWork, Found, Relations
    <3> QED BY <1>1, <2>1, <3>1, BelowIsInclusion
  <2> QED BY <2>2, <2>3
<1> QED BY <1>1, AlwaysRelating, PTL

(* Shapes reported as disjoint accept no common term: what separated them  *)
(* rules one out, wherever a normal form it compared describes its shape.  *)
THEOREM DisjointMeansApart == Spec => []DisjointIsApart
<1>1. ASSUME Relating PROVE DisjointIsApart
  <2>1. SUFFICES ASSUME answer.kind = "Disjoint", Candid[left], Candid[right],
                        NEW t \in Takes(left) \cap Takes(right)
                 PROVE  FALSE
        BY DEF DisjointIsApart
  <2>2. venn = <<>> /\ Separation[<<left, right>>] # None
        BY <1>1, <2>1 DEF Relating, AtWork, Found, Relations
  <2>3. left \in Shape /\ right \in Shape
        BY <1>1, <2>2, TakesIs
  <2>4. PICK e \in Expr, p \in Paths : t = <<e, p>>
        BY <1>1, <2>1, <2>2, TakesIs
  <2>5. Status(left, e, p) = "accept" /\ Status(right, e, p) = "accept"
        BY <1>1, <2>1, <2>2, <2>4, TakesIs
  <2>6. Disjoint(left, right)
        BY <2>1, <2>2, <2>3, SeparationApart
  <2> QED BY <2>5, <2>6 DEF Disjoint
<1> QED BY <1>1, AlwaysRelating, PTL

(* An overlap rests on a probe both shapes accept, "unknown" on none, and  *)
(* neither is called proven or rests on a probe a shape failed on.         *)
THEOREM ProbesAlwaysDecide == Spec => []ProbesDecide
<1>1. ASSUME Relating PROVE ProbesDecide
  <2>1. /\ probes \in Seq(Expr \X Paths) /\ witnesses \in Seq([left: BOOLEAN, right: BOOLEAN])
        /\ Len(witnesses) <= Len(probes) /\ Len(witnesses) \in Nat /\ Len(probes) \in Nat
        BY <1>1, RelateAssumption DEF Relating, TypeOK
  <2>2. DOMAIN witnesses = 1..Len(witnesses) /\ DOMAIN probes = 1..Len(probes)
        BY <2>1
  <2>3. answer.kind \in {"Overlap", "Unknown"} =>
          /\ venn = <<>>
          /\ Len(witnesses) = Len(probes)
          /\ \A i \in DOMAIN witnesses :
               /\ Common(witnesses[i]) <=> probes[i] \in Takes(left) \cap Takes(right)
               /\ Answered(probes[i])
        BY <1>1 DEF Relating, AtWork, Probed, Relations
  <2>4. ASSUME answer.kind = "Overlap" PROVE Hits # {}
    <3>1. PICK i \in DOMAIN witnesses : Common(witnesses[i])
          BY <1>1, <2>4 DEF Relating, Probed
    <3>2. i \in DOMAIN probes
          BY <2>1, <2>2
    <3> QED BY <2>3, <2>4, <3>1, <3>2 DEF Hits
  <2>5. ASSUME answer.kind = "Unknown" PROVE Hits = {}
    <3>1. DOMAIN probes = DOMAIN witnesses /\ ~\E i \in DOMAIN witnesses : Common(witnesses[i])
          BY <1>1, <2>2, <2>5 DEF Relating, Probed
    <3> QED BY <2>3, <2>5, <3>1 DEF Hits
  <2>6. answer.proven <=> answer.kind \in Relations \ {"Overlap", "Unknown"}
        BY <1>1 DEF Relating, Probed
  <2>7. answer.kind \in {"Overlap", "Unknown"} => \A i \in DOMAIN probes : Answered(probes[i])
        BY <2>2, <2>3
  <2> QED BY <2>4, <2>5, <2>6, <2>7 DEF ProbesDecide
<1> QED BY <1>1, AlwaysRelating, PTL

(* A region accepts a term exactly when the members it is named for do,    *)
(* whatever the names, also when several members share one.                *)
THEOREM RegionsAlwaysExact == Spec => []RegionsAreExact
<1>1. ASSUME Relating, answer.kind = "Region", NEW t \in Expr \X Paths
      PROVE  /\ region.sts[t] = "accept" => Belongs(t)
             /\ region.sts[t] = "reject" => ~Belongs(t)
             /\ Settled(t) => region.sts[t] # "error"
  <2>1. /\ venn # <<>> /\ region.names \subseteq NamesOfVenn
        /\ \/ region.kind \in {"union", "intersection", "outside_all", "exactly"}
           \/ region.kind = "only" /\ \E name \in NamesOfVenn : region.names = {name}
        /\ region.sts[t] = RegionOn(t, region.kind, region.names)
        BY <1>1 DEF Relating, Regioned
  <2>2. venn \in Seq([name: Symbol, shape: Shape])
        BY <1>1, <2>1, RelateAssumption DEF Relating, TypeOK
  <2> DEFINE all == DOMAIN venn
             asked == Selected(region.names)
             rest == Remaining(region.names)
  <2>3. all \in SUBSET Nat /\ \A i \in all : venn[i].shape \in Shape
    <3>1. all = 1..Len(venn) /\ Len(venn) \in Nat
          BY <2>2, LenProperties
    <3>2. \A i \in all : venn[i] \in [name: Symbol, shape: Shape]
          BY <2>2, <3>1, ElementOfSeq
    <3> QED BY <3>1, <3>2
  <2>4. \A i \in all : On(t, i) \in Answers
    <3>1. \A i \in all : outcome[venn[i].shape] = Checked[venn[i].shape]
          BY <1>1, <2>1 DEF Relating, AtWork, Shown
    <3> QED BY <2>3, <3>1, CheckedIs DEF On
  <2>5. asked \in SUBSET Nat /\ rest \in SUBSET Nat /\ asked \cup rest = all /\ asked \cap rest = {}
        BY <2>3 DEF Selected, Remaining
  <2>6. \A i \in all : i \in Inside(t) <=> On(t, i) = "accept"
        BY DEF Inside
  <2>7. Inside(t) \subseteq all /\ (Settled(t) <=> \A i \in all : On(t, i) # "error")
        BY DEF Inside, Settled
  <2>8. CASE region.kind = "union"
    <3>1. RegionOn(t, region.kind, region.names) = AnyOf(t, all)
          BY <2>8 DEF RegionOn
    <3>2. Belongs(t) <=> Inside(t) # {}
          BY <2>8 DEF Belongs
    <3> HIDE DEF all
    <3>3. /\ AnyOf(t, all) = "reject" <=> \A i \in all : On(t, i) = "reject"
          /\ AnyOf(t, all) = "accept" => \E i \in all : On(t, i) = "accept"
          /\ AnyOf(t, all) = "error" => \E i \in all : On(t, i) = "error"
          BY <2>3, <2>4, AnyOfIs
    <3> QED BY <2>1, <2>6, <2>7, <3>1, <3>2, <3>3
  <2>9. CASE region.kind = "intersection"
    <3>1. RegionOn(t, region.kind, region.names) = AllOf(t, all)
          BY <2>9 DEF RegionOn
    <3>2. Belongs(t) <=> Inside(t) = all
          BY <2>9 DEF Belongs
    <3> HIDE DEF all
    <3> QED BY <2>1, <2>3, <2>4, <2>6, <2>7, <3>1, <3>2, AllOfIs
  <2>10. CASE region.kind = "outside_all"
    <3>1. RegionOn(t, region.kind, region.names) = NoneOf(t, all)
          BY <2>10 DEF RegionOn
    <3>2. Belongs(t) <=> Inside(t) = {}
          BY <2>10 DEF Belongs
    <3> HIDE DEF all
    <3>3. /\ NoneOf(t, all) = "accept" <=> \A i \in all : On(t, i) = "reject"
          /\ NoneOf(t, all) = "reject" => \E i \in all : On(t, i) = "accept"
          /\ NoneOf(t, all) = "error" => \E i \in all : On(t, i) = "error"
          BY <2>3, <2>4, NoneOfIs
    <3> QED BY <2>1, <2>6, <2>7, <3>1, <3>2, <3>3
  <2>11. CASE region.kind = "exactly"
    <3>1. RegionOn(t, region.kind, region.names) = OnlyThese(t, asked, rest)
          BY <2>11 DEF RegionOn
    <3>2. Belongs(t) <=> Inside(t) = asked
          BY <2>11 DEF Belongs
    <3> HIDE DEF all, asked, rest
    <3>3. LET out == OnlyThese(t, asked, rest) IN
          /\ out = "accept" => /\ \A i \in asked : On(t, i) = "accept"
                               /\ \A i \in rest : On(t, i) = "reject"
          /\ out = "reject" => \/ \E i \in asked : On(t, i) # "accept"
                               \/ \E i \in rest : On(t, i) = "accept"
          /\ out = "error" => \E i \in asked \cup rest : On(t, i) = "error"
          BY <2>4, <2>5, OnlyTheseIs
    <3> QED BY <2>1, <2>5, <2>6, <2>7, <3>1, <3>2, <3>3
  <2>12. CASE region.kind = "only"
    <3>1. PICK name \in NamesOfVenn : region.names = {name}
          BY <2>1, <2>12
    <3> DEFINE first == {Min(asked)}
    <3>2. (CHOOSE n \in region.names : TRUE) = name
          BY <3>1
    <3>3. RegionOn(t, region.kind, region.names) = OnlyThese(t, first, rest)
      <4>1. RegionOn(t, region.kind, region.names) = Only(t, CHOOSE n \in region.names : TRUE)
            BY <2>12 DEF RegionOn
      <4> QED BY <3>1, <3>2, <4>1 DEF Only
    <3>4. Belongs(t) <=> Min(asked) \in Inside(t) /\ Inside(t) \subseteq asked
          BY <2>12 DEF Belongs
    <3>5. asked # {}
          BY <3>1 DEF NamesOfVenn, Selected
    <3> HIDE DEF all, asked, rest
    <3>6. Min(asked) \in asked
          BY <2>5, <3>5, MinIs
    <3>7. first \in SUBSET Nat /\ first \cup rest \subseteq all
          BY <2>5, <3>6
    <3>8. LET out == OnlyThese(t, first, rest) IN
          /\ out = "accept" => /\ \A i \in first : On(t, i) = "accept"
                               /\ \A i \in rest : On(t, i) = "reject"
          /\ out = "reject" => \/ \E i \in first : On(t, i) # "accept"
                               \/ \E i \in rest : On(t, i) = "accept"
          /\ out = "error" => \E i \in first \cup rest : On(t, i) = "error"
          BY <2>4, <2>5, <3>7, OnlyTheseIs
    <3> QED BY <2>1, <2>5, <2>6, <2>7, <3>3, <3>4, <3>6, <3>7, <3>8
  <2> QED BY <2>1, <2>8, <2>9, <2>10, <2>11, <2>12
<1>2. Relating => RegionsAreExact
      BY <1>1 DEF RegionsAreExact
<1> QED BY <1>2, AlwaysRelating, PTL

=============================================================================
