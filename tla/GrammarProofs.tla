--------------------------- MODULE GrammarProofs ----------------------------
(***************************************************************************)
(* A graph lowered from a shape describes the terms the shape accepts, and *)
(* the JSON Schema rendered from a graph whose names it keeps admits them, *)
(* for every graph of shapes, every term and every fuel.                   *)
(*                                                                         *)
(* The argument: productions and schemas are finite, so Lowered, Render,   *)
(* Admits and Conforms are the functions their equations say.  A question  *)
(* about a shape is then answered from the questions it rests on exactly   *)
(* as the claim about its production is from the claims that rests on,     *)
(* because every scope the question is asked in is part of the one list of *)
(* definitions, in which a name means what it meant there.                 *)
(***************************************************************************)
EXTENDS Grammar, ShapeMeaningProofs

(* The productions and schemas of one more level are made of those before. *)
LEMMA NestedEquation ==
  \A n \in Nat :
    Nested[n] = IF n = 0 THEN [productions |-> {}, schemas |-> {}]
                ELSE [productions |-> ProductionsOver(Nested[n - 1].productions),
                      schemas     |-> SchemasOver(Nested[n - 1].schemas)]
<1> DEFINE Body(f, n) ==
             IF n = 0 THEN [productions |-> {}, schemas |-> {}]
             ELSE [productions |-> ProductionsOver(f[n - 1].productions),
                   schemas     |-> SchemasOver(f[n - 1].schemas)]
           Solves(f, n) == \A x \in Nat : x < n => f[x] = Body(f, x)
           Next_(f) == [x \in Nat |-> Body(f, x)]
<1>1. ASSUME NEW f, NEW g, NEW x \in Nat,
             \A y \in Nat : y < x => f[y] = g[y]
      PROVE  Body(f, x) = Body(g, x)
  <2>1. CASE x = 0
        BY <2>1
  <2>2. CASE x # 0
    <3>1. f[x - 1] = g[x - 1]
          BY <1>1, <2>2
    <3> QED BY <2>2, <3>1
  <2> QED BY <2>1, <2>2
<1> HIDE DEF Body
<1>2. \A x \in Nat : x \in Nat
      OBVIOUS
<1>3. \A n \in Nat : \E f : Solves(f, n)
  <2> DEFINE Lost == {n \in Nat : ~\E f : Solves(f, n)}
  <2>1. SUFFICES ASSUME NEW n \in Lost, \A m \in Lost : n <= m
                 PROVE  FALSE
    <3> HIDE DEF Solves
    <3> QED BY FirstPlace
  <2>2. CASE n = 0
    <3>1. \A f : Solves(f, 0)
          BY <1>2
    <3> HIDE DEF Solves
    <3> QED BY <2>1, <2>2, <3>1
  <2>3. CASE n > 0
    <3>1. PICK f : Solves(f, n - 1)
      <4> HIDE DEF Solves
      <4>1. n - 1 \in Nat /\ n - 1 \notin Lost
            BY <2>1, <2>3
      <4> QED BY <4>1
    <3>2. ASSUME NEW x \in Nat, x < n
          PROVE  Next_(f)[x] = Body(Next_(f), x)
      <4>1. \A y \in Nat : y < x => Next_(f)[y] = f[y]
            BY <1>2, <3>1, <3>2
      <4>2. Body(Next_(f), x) = Body(f, x)
            BY <1>1, <4>1
      <4> QED BY <4>2
    <3>3. Solves(Next_(f), n)
          BY <3>2
    <3> HIDE DEF Solves
    <3> QED BY <2>1, <3>3
  <2> QED BY <2>1, <2>2, <2>3
<1>4. ASSUME NEW m \in Nat, NEW n \in Nat, NEW f, NEW g, Solves(f, m), Solves(g, n),
             NEW x \in Nat, x < m, x < n
      PROVE  f[x] = g[x]
  <2>1. SUFFICES ASSUME f[x] # g[x] PROVE FALSE
        OBVIOUS
  <2> DEFINE T == {k \in Nat : \E y \in Nat : y = k /\ k < m /\ k < n /\ f[y] # g[y]}
  <2>2. x \in T
        BY <1>2, <1>4, <2>1
  <2>3. PICK k \in T : \A j \in T : k <= j
        BY <2>2, FirstPlace
  <2>4. PICK y \in Nat : y = k /\ k < m /\ k < n /\ f[y] # g[y]
        BY <2>3
  <2>5. \A z \in Nat : z < y => f[z] = g[z]
        BY <1>2, <2>3, <2>4
  <2>6. Body(f, y) = Body(g, y)
        BY <1>1, <2>5
  <2> QED BY <1>4, <2>4, <2>6
<1> DEFINE At(n) == CHOOSE f : Solves(f, n)
           F == [x \in Nat |-> At(x + 1)[x]]
<1>5. \A n \in Nat : Solves(At(n), n)
  <2> HIDE DEF Solves
  <2> QED BY <1>3
<1> HIDE DEF At
<1>6. ASSUME NEW x \in Nat PROVE F[x] = Body(F, x)
  <2> DEFINE f == At(x + 1)
  <2>1. x + 1 \in Nat /\ x < x + 1
        BY <1>2
  <2>2. Solves(f, x + 1)
    <3> HIDE DEF Solves
    <3> QED BY <1>5, <2>1
  <2>3. ASSUME NEW y \in Nat, y < x PROVE F[y] = f[y]
    <3>1. y + 1 \in Nat /\ y < y + 1 /\ y < x + 1
          BY <1>2, <2>3
    <3>2. Solves(At(y + 1), y + 1)
          BY <1>5, <3>1
    <3> HIDE DEF Solves
    <3>3. At(y + 1)[y] = f[y]
          BY <1>4, <2>1, <2>2, <3>1, <3>2
    <3> QED BY <3>3
  <2>4. F[x] = f[x]
        OBVIOUS
  <2>5. f[x] = Body(f, x)
        BY <2>1, <2>2
  <2> HIDE DEF F, f
  <2>6. Body(F, x) = Body(f, x)
        BY <1>1, <2>3
  <2> QED BY <2>4, <2>5, <2>6
<1>7. F = [x \in Nat |-> Body(F, x)]
  <2>1. F = [x \in Nat |-> F[x]]
        OBVIOUS
  <2> HIDE DEF F
  <2> QED BY <1>6, <2>1
<1>8. \E f : f = [x \in Nat |-> Body(f, x)]
      BY <1>7
<1>9. Nested = [x \in Nat |-> Body(Nested, x)]
      BY <1>8 DEF Nested, Body
<1>10. \A x \in Nat : Nested[x] = Body(Nested, x)
       BY <1>9
<1> QED BY <1>10 DEF Body

(* The productions and schemas of a level, one at a time.                  *)
LEMMA NestedCases ==
  /\ Nested[0].productions = {} /\ Nested[0].schemas = {}
  /\ \A n \in Nat : n # 0 =>
       /\ Nested[n].productions = ProductionsOver(Nested[n - 1].productions)
       /\ Nested[n].schemas = SchemasOver(Nested[n - 1].schemas)
<1>1. Nested[0] = [productions |-> {}, schemas |-> {}]
      BY NestedEquation
<1>2. ASSUME NEW n \in Nat, n # 0
      PROVE  Nested[n] = [productions |-> ProductionsOver(Nested[n - 1].productions),
                          schemas     |-> SchemasOver(Nested[n - 1].schemas)]
      BY <1>2, NestedEquation
<1>3. ASSUME NEW n \in Nat, n # 0
      PROVE  /\ Nested[n].productions = ProductionsOver(Nested[n - 1].productions)
             /\ Nested[n].schemas = SchemasOver(Nested[n - 1].schemas)
  <2> DEFINE A == ProductionsOver(Nested[n - 1].productions)
             B == SchemasOver(Nested[n - 1].schemas)
  <2>1. Nested[n] = [productions |-> A, schemas |-> B]
        BY <1>2, <1>3
  <2> HIDE DEF A, B
  <2>2. Nested[n].productions = A /\ Nested[n].schemas = B
        BY <2>1
  <2> QED BY <2>2 DEF A, B
<1> QED BY <1>1, <1>3

(* What a sequence of sequences flattens to, a place at a time.            *)
LEMMA FlattenEquation ==
  ASSUME NEW seqs
  PROVE  LET D == 1..Len(seqs) IN
         Len(seqs) # 0 =>
           \E flatten : /\ FlattenSeq(seqs) = flatten[Len(seqs)]
                       /\ \A i \in D : flatten[i] =
                            IF i = 1 THEN seqs[i] ELSE flatten[i-1] \o seqs[i]
<1> DEFINE D == 1..Len(seqs)
<1> DEFINE Body(f, i) == IF i = 1 THEN seqs[i] ELSE f[i-1] \o seqs[i]
           Solves(f, n) == \A x \in D : x < n => f[x] = Body(f, x)
           Next_(f) == [x \in D |-> Body(f, x)]
<1>1. ASSUME NEW f, NEW g, NEW x \in D,
             \A y \in D : y < x => f[y] = g[y]
      PROVE  Body(f, x) = Body(g, x)
  <2>1. CASE x = 1
        BY <2>1
  <2>2. CASE x # 1
    <3>1. x - 1 \in D /\ x - 1 < x
          BY <2>2
    <3>2. f[x - 1] = g[x - 1]
          BY <1>1, <3>1
    <3> QED BY <2>2, <3>2
  <2> QED BY <2>1, <2>2
<1> HIDE DEF Body
<1>2. \A x \in D : x \in Nat
      OBVIOUS
<1>3. \A n \in Nat : \E f : Solves(f, n)
  <2> DEFINE Lost == {n \in Nat : ~\E f : Solves(f, n)}
  <2>1. SUFFICES ASSUME NEW n \in Lost, \A m \in Lost : n <= m
                 PROVE  FALSE
    <3> HIDE DEF Solves
    <3> QED BY FirstPlace
  <2>2. CASE n = 0
    <3>1. \A f : Solves(f, 0)
          BY <1>2
    <3> HIDE DEF Solves
    <3> QED BY <2>1, <2>2, <3>1
  <2>3. CASE n > 0
    <3>1. PICK f : Solves(f, n - 1)
      <4> HIDE DEF Solves
      <4>1. n - 1 \in Nat /\ n - 1 \notin Lost
            BY <2>1, <2>3
      <4> QED BY <4>1
    <3>2. ASSUME NEW x \in D, x < n
          PROVE  Next_(f)[x] = Body(Next_(f), x)
      <4>1. \A y \in D : y < x => Next_(f)[y] = f[y]
            BY <1>2, <3>1, <3>2
      <4>2. Body(Next_(f), x) = Body(f, x)
            BY <1>1, <4>1
      <4> QED BY <4>2
    <3>3. Solves(Next_(f), n)
          BY <3>2
    <3> HIDE DEF Solves
    <3> QED BY <2>1, <3>3
  <2> QED BY <2>1, <2>2, <2>3
<1>4. ASSUME NEW m \in Nat, NEW n \in Nat, NEW f, NEW g, Solves(f, m), Solves(g, n),
             NEW x \in D, x < m, x < n
      PROVE  f[x] = g[x]
  <2>1. SUFFICES ASSUME f[x] # g[x] PROVE FALSE
        OBVIOUS
  <2> DEFINE T == {k \in Nat : \E y \in D : y = k /\ k < m /\ k < n /\ f[y] # g[y]}
  <2>2. x \in T
        BY <1>2, <1>4, <2>1
  <2>3. PICK k \in T : \A j \in T : k <= j
        BY <2>2, FirstPlace
  <2>4. PICK y \in D : y = k /\ k < m /\ k < n /\ f[y] # g[y]
        BY <2>3
  <2>5. \A z \in D : z < y => f[z] = g[z]
        BY <1>2, <2>3, <2>4
  <2>6. Body(f, y) = Body(g, y)
        BY <1>1, <2>5
  <2> QED BY <1>4, <2>4, <2>6
<1> DEFINE At(n) == CHOOSE f : Solves(f, n)
           F == [x \in D |-> At(x + 1)[x]]
<1>5. \A n \in Nat : Solves(At(n), n)
  <2> HIDE DEF Solves
  <2> QED BY <1>3
<1> HIDE DEF At
<1>6. ASSUME NEW x \in D PROVE F[x] = Body(F, x)
  <2> DEFINE f == At(x + 1)
  <2>1. x + 1 \in Nat /\ x < x + 1
        BY <1>2
  <2>2. Solves(f, x + 1)
    <3> HIDE DEF Solves
    <3> QED BY <1>5, <2>1
  <2>3. ASSUME NEW y \in D, y < x PROVE F[y] = f[y]
    <3>1. y + 1 \in Nat /\ y < y + 1 /\ y < x + 1
          BY <1>2, <2>3
    <3>2. Solves(At(y + 1), y + 1)
          BY <1>5, <3>1
    <3> HIDE DEF Solves
    <3>3. At(y + 1)[y] = f[y]
          BY <1>4, <2>1, <2>2, <3>1, <3>2
    <3> QED BY <3>3
  <2>4. F[x] = f[x]
        OBVIOUS
  <2>5. f[x] = Body(f, x)
        BY <2>1, <2>2
  <2> HIDE DEF F, f
  <2>6. Body(F, x) = Body(f, x)
        BY <1>1, <2>3
  <2> QED BY <2>4, <2>5, <2>6
<1>7. F = [x \in D |-> Body(F, x)]
  <2>1. F = [x \in D |-> F[x]]
        OBVIOUS
  <2> HIDE DEF F
  <2> QED BY <1>6, <2>1
<1>8. \E f : f = [x \in D |-> Body(f, x)]
      BY <1>7
<1> DEFINE flatten == CHOOSE h : h = [i \in D |-> Body(h, i)]
<1>9. flatten = [x \in D |-> Body(flatten, x)]
      BY <1>8
<1>10. Len(seqs) # 0 => FlattenSeq(seqs) = flatten[Len(seqs)]
       BY DEF FlattenSeq, Body
<1> HIDE DEF flatten
<1>11. \A i \in D : flatten[i] = Body(flatten, i)
       BY <1>9
<1> QED BY <1>10, <1>11 DEF Body

(* Flattening is concatenation: it ends with the last of the sequences.    *)
LEMMA Flattened ==
  ASSUME NEW S, NEW seqs \in Seq(Seq(S))
  PROVE  /\ FlattenSeq(seqs) \in Seq(S)
         /\ Range(FlattenSeq(seqs)) = UNION {Range(seqs[i]) : i \in DOMAIN seqs}
<1> DEFINE D == 1..Len(seqs)
<1>1. Len(seqs) \in Nat /\ DOMAIN seqs = D /\ \A i \in D : seqs[i] \in Seq(S)
      BY LenProperties, ElementOfSeq
<1>2. CASE Len(seqs) = 0
  <2>1. seqs = <<>>
        BY <1>2, EmptySeq
  <2>2. FlattenSeq(seqs) = <<>>
        BY <1>2, <2>1 DEF FlattenSeq
  <2>3. Range(<<>>) = {} /\ DOMAIN seqs = {}
        BY <1>1, <1>2 DEF Range
  <2> QED BY <2>2, <2>3
<1>3. CASE Len(seqs) # 0
  <2>1. PICK flatten : /\ FlattenSeq(seqs) = flatten[Len(seqs)]
                       /\ \A i \in D : flatten[i] =
                            IF i = 1 THEN seqs[i] ELSE flatten[i-1] \o seqs[i]
        BY <1>3, FlattenEquation
  <2> DEFINE Right(i) == /\ flatten[i] \in Seq(S)
                         /\ Range(flatten[i]) = UNION {Range(seqs[j]) : j \in 1..i}
             Lost == {i \in Nat : i \in D /\ ~Right(i)}
  <2>2. ASSUME NEW i \in Lost, \A j \in Lost : i <= j
        PROVE  FALSE
    <3>1. i \in D /\ ~Right(i) /\ i \in Nat /\ 1 <= i
          BY <1>1
    <3>2. CASE i = 1
      <4>1. flatten[i] = seqs[i]
            BY <2>1, <3>1, <3>2
      <4>2. 1..i = {1}
            BY <3>2
      <4> QED BY <1>1, <3>1, <3>2, <4>1, <4>2
    <3>3. CASE i # 1
      <4>1. i - 1 \in D /\ i - 1 \in Nat /\ ~(i <= i - 1)
            BY <1>1, <3>1, <3>3
      <4>2. Right(i - 1)
        <5> HIDE DEF Right
        <5> QED BY <2>2, <4>1
      <4>3. flatten[i] = flatten[i-1] \o seqs[i]
            BY <2>1, <3>1, <3>3
      <4>4. flatten[i-1] \in Seq(S) /\ seqs[i] \in Seq(S)
            BY <1>1, <3>1, <4>2
      <4>5. flatten[i] \in Seq(S) /\ Range(flatten[i]) = Range(flatten[i-1]) \cup Range(seqs[i])
            BY <4>3, <4>4, RangeConcatenation, ConcatProperties
      <4>6. 1..i = (1..(i-1)) \cup {i}
            BY <3>1, <4>1
      <4> QED BY <3>1, <4>2, <4>5, <4>6
    <3> QED BY <3>2, <3>3
  <2>3. \A i \in D : Right(i)
    <3>1. Lost = {}
      <4>1. Lost \subseteq Nat
            OBVIOUS
      <4> HIDE DEF Lost
      <4> QED BY <2>2, <4>1, FirstPlace
    <3>2. D \subseteq Nat
          BY <1>1
    <3> HIDE DEF Right, D
    <3> QED BY <3>1, <3>2
  <2>4. Len(seqs) \in D
        BY <1>1, <1>3
  <2> QED BY <1>1, <2>1, <2>3, <2>4
<1> QED BY <1>2, <1>3

(* A production of some levels, as the constructors build it.              *)
LEMMA LevelCases ==
  ASSUME NEW n \in Nat, NEW p \in Nested[n].productions
  PROVE  LET in == Nested[n - 1].productions IN
         /\ n > 0 /\ p.parts \in Seq(in)
         /\ p.kind \in {"terminal", "ref", "alt", "seq", "repeat", "call"} /\ p.name \in Names
         /\ p.of \in DOMAIN Types \cup {"exact", ""}
         /\ p.kind = "terminal" => p.of # ""
         /\ p.kind = "repeat" => Len(p.parts) = 1
         /\ p.kind = "call" => \A i \in DOMAIN p.parts : Len(p.parts[i].parts) = 2
<1>1. n # 0
      BY NestedCases
<1>2. Nested[n].productions = ProductionsOver(Nested[n - 1].productions)
      BY <1>1, NestedCases
<1>3. \A A : \A q \in ProductionsOver(A) :
        /\ q.parts \in Seq(A)
        /\ q.kind \in {"terminal", "ref", "alt", "seq", "repeat", "call"} /\ q.name \in Names
        /\ q.of \in DOMAIN Types \cup {"exact", ""}
        /\ q.kind = "terminal" => q.of # ""
        /\ q.kind = "repeat" => Len(q.parts) = 1
        /\ q.kind = "call" => \A i \in DOMAIN q.parts : Len(q.parts[i].parts) = 2
      BY DEF ProductionsOver
<1>4. p \in ProductionsOver(Nested[n - 1].productions)
      BY <1>2
<1>5. n > 0
      BY <1>1
<1> QED BY <1>3, <1>4, <1>5, Zenon

(* What has some levels has any more of them.                              *)
LEMMA LevelsGrow ==
  ASSUME NEW m \in Nat, NEW n \in Nat, m <= n
  PROVE  /\ Nested[m].productions \subseteq Nested[n].productions
         /\ Nested[m].schemas \subseteq Nested[n].schemas
<1> DEFINE In(a, b) == /\ Nested[a].productions \subseteq Nested[b].productions
                       /\ Nested[a].schemas \subseteq Nested[b].schemas
<1>1. ASSUME NEW k \in Nat, k = 0 \/ In(k - 1, k)
      PROVE  In(k, k + 1)
  <2>1. k + 1 \in Nat /\ k + 1 # 0 /\ (k + 1) - 1 = k
        OBVIOUS
  <2>2. /\ Nested[k + 1].productions = ProductionsOver(Nested[k].productions)
        /\ Nested[k + 1].schemas = SchemasOver(Nested[k].schemas)
    <3>1. \A j \in Nat : j # 0 =>
              /\ Nested[j].productions = ProductionsOver(Nested[j - 1].productions)
              /\ Nested[j].schemas = SchemasOver(Nested[j - 1].schemas)
          BY NestedCases
    <3> QED BY <2>1, <3>1
  <2>3. CASE k = 0
    <3>1. Nested[k].productions = {} /\ Nested[k].schemas = {}
          BY <2>3, NestedCases
    <3> QED BY <3>1
  <2>4. CASE k # 0
    <3>1. /\ Nested[k].productions = ProductionsOver(Nested[k - 1].productions)
          /\ Nested[k].schemas = SchemasOver(Nested[k - 1].schemas)
          BY <2>4, NestedCases
    <3>2. In(k - 1, k)
          BY <1>1, <2>4
    <3>3. \A A, B : A \subseteq B => ProductionsOver(A) \subseteq ProductionsOver(B)
      <4>1. \A A, B : A \subseteq B => Seq(A) \subseteq Seq(B)
            OBVIOUS
      <4> QED BY <4>1 DEF ProductionsOver
    <3>4. \A A, B : A \subseteq B => SchemasOver(A) \subseteq SchemasOver(B)
      <4>1. \A A, B : A \subseteq B => Seq(A) \subseteq Seq(B)
            OBVIOUS
      <4> QED BY <4>1 DEF SchemasOver
    <3>5. ProductionsOver(Nested[k - 1].productions)
            \subseteq ProductionsOver(Nested[k].productions)
          BY <3>2, <3>3
    <3>6. SchemasOver(Nested[k - 1].schemas) \subseteq SchemasOver(Nested[k].schemas)
          BY <3>2, <3>4
    <3> QED BY <2>2, <3>1, <3>5, <3>6
  <2> QED BY <2>3, <2>4
<1> HIDE DEF In
<1>2. \A k \in Nat : In(k, k + 1)
  <2> DEFINE Lost == {k \in Nat : ~In(k, k + 1)}
  <2>1. SUFFICES ASSUME NEW k \in Lost, \A j \in Lost : k <= j PROVE FALSE
        BY FirstPlace
  <2>2. k = 0 \/ (k - 1 \in Nat /\ k - 1 \notin Lost)
        BY <2>1
  <2>3. k = 0 \/ In(k - 1, k)
    <3>1. k \in Nat /\ (k - 1) + 1 = k
          OBVIOUS
    <3> QED BY <2>2, <3>1
  <2> QED BY <1>1, <2>3
<1>3. SUFFICES In(m, n)
      BY <1>3 DEF In
<1> DEFINE Lost == {k \in Nat : m <= k /\ ~In(m, k)}
<1>4. SUFFICES ASSUME NEW k \in Lost, \A j \in Lost : k <= j PROVE FALSE
      BY FirstPlace
<1>5. CASE k = m
      BY <1>5 DEF In
<1>6. CASE k # m
  <2>1. k - 1 \in Nat /\ m <= k - 1 /\ (k - 1) + 1 = k /\ k - 1 \notin Lost
        BY <1>4, <1>6
  <2>2. In(m, k - 1) /\ In(k - 1, k)
        BY <1>2, <2>1
  <2>3. In(m, k)
        BY <2>2 DEF In
  <2> QED BY <2>3
<1> QED BY <1>5, <1>6

(* The fewest levels a production, and a schema, has.                      *)
Level(p)  == CHOOSE n \in Nat :
               /\ p \in Nested[n].productions
               /\ \A m \in Nat : p \in Nested[m].productions => n <= m
Storeys(s) == CHOOSE n \in Nat :
               /\ s \in Nested[n].schemas
               /\ \A m \in Nat : s \in Nested[m].schemas => n <= m

(* A production or schema has a least level, its own.                      *)
LEMMA LevelTyped ==
  ASSUME NEW n \in Nat
  PROVE  /\ \A p \in Nested[n].productions :
              Level(p) \in Nat /\ p \in Nested[Level(p)].productions /\ Level(p) <= n
         /\ \A s \in Nested[n].schemas :
              Storeys(s) \in Nat /\ s \in Nested[Storeys(s)].schemas /\ Storeys(s) <= n
<1>1. ASSUME NEW p \in Nested[n].productions
      PROVE  Level(p) \in Nat /\ p \in Nested[Level(p)].productions /\ Level(p) <= n
  <2> DEFINE T == {m \in Nat : p \in Nested[m].productions}
  <2>1. T \subseteq Nat /\ n \in T
        OBVIOUS
  <2>2. \E m \in T : \A k \in T : m <= k
    <3> HIDE DEF T
    <3> QED BY <2>1, FirstPlace
  <2>3. \E m \in Nat : /\ p \in Nested[m].productions
                       /\ \A k \in Nat : p \in Nested[k].productions => m <= k
        BY <2>2
  <2> QED BY <2>3 DEF Level
<1>2. ASSUME NEW s \in Nested[n].schemas
      PROVE  Storeys(s) \in Nat /\ s \in Nested[Storeys(s)].schemas /\ Storeys(s) <= n
  <2> DEFINE T == {m \in Nat : s \in Nested[m].schemas}
  <2>1. T \subseteq Nat /\ n \in T
        OBVIOUS
  <2>2. \E m \in T : \A k \in T : m <= k
    <3> HIDE DEF T
    <3> QED BY <2>1, FirstPlace
  <2>3. \E m \in Nat : /\ s \in Nested[m].schemas
                       /\ \A k \in Nat : s \in Nested[k].schemas => m <= k
        BY <2>2
  <2> QED BY <2>3 DEF Storeys
<1> QED BY <1>1, <1>2

(* What a production says something about has fewer levels.                *)
LEMMA PartsLower ==
  ASSUME NEW n \in Nat, NEW p \in Nested[n].productions
  PROVE  /\ n - 1 \in Nat
         /\ DOMAIN Values(p) = DOMAIN p.parts /\ p.parts \in Seq(Nested[n - 1].productions)
         /\ DOMAIN p.parts = 1..Len(p.parts) /\ Len(p.parts) \in Nat
         /\ \A i \in DOMAIN p.parts : /\ p.parts[i] \in Nested[n - 1].productions
                                      /\ Values(p)[i] \in Nested[n - 1].productions
         /\ \A i \in DOMAIN p.parts : p.parts[i].kind = "repeat" =>
              p.parts[i].parts[1] \in Nested[n - 1].productions
         /\ p.kind = "call" => \A i \in DOMAIN p.parts : p.parts[i].parts[1].name \in Names
<1>1. /\ n > 0 /\ p.parts \in Seq(Nested[n - 1].productions)
      /\ p.kind = "call" => \A i \in DOMAIN p.parts : Len(p.parts[i].parts) = 2
      BY LevelCases
<1>2. n - 1 \in Nat
      BY <1>1
<1>3. /\ DOMAIN p.parts = 1..Len(p.parts) /\ Len(p.parts) \in Nat
      /\ \A i \in DOMAIN p.parts : p.parts[i] \in Nested[n - 1].productions
      BY <1>1
<1>4. DOMAIN Values(p) = DOMAIN p.parts
      BY DEF Values
<1>5. ASSUME NEW i \in DOMAIN p.parts, NEW k \in 1..Len(p.parts[i].parts)
      PROVE  /\ p.parts[i].parts[k] \in Nested[n - 1].productions
             /\ p.parts[i].parts[k].name \in Names
  <2> DEFINE part == p.parts[i]
  <2>1. part \in Nested[n - 1].productions
        BY <1>3
  <2>2. n - 1 > 0 /\ part.parts \in Seq(Nested[(n - 1) - 1].productions)
        BY <1>2, <2>1, LevelCases
  <2>3. /\ (n - 1) - 1 \in Nat /\ (n - 1) - 1 <= n - 1
        /\ part.parts[k] \in Nested[(n - 1) - 1].productions
        BY <1>2, <2>2
  <2>4. part.parts[k] \in Nested[n - 1].productions
        BY <1>2, <2>3, LevelsGrow
  <2>5. part.parts[k].name \in Names
        BY <1>2, <2>4, LevelCases
  <2> QED BY <2>4, <2>5
<1>6. ASSUME NEW i \in DOMAIN p.parts
      PROVE  Values(p)[i] \in Nested[n - 1].productions
  <2>1. CASE p.kind = "call"
    <3>1. Len(p.parts[i].parts) = 2
          BY <1>1, <2>1
    <3>3. 2 \in 1..Len(p.parts[i].parts)
          BY <3>1
    <3>2. Values(p)[i] = p.parts[i].parts[2]
          BY <2>1 DEF Values
    <3> QED BY <1>5, <3>3, <3>2
  <2>2. CASE p.kind # "call"
        BY <1>3, <2>2 DEF Values
  <2> QED BY <2>1, <2>2
<1>7. ASSUME NEW i \in DOMAIN p.parts, p.parts[i].kind = "repeat"
      PROVE  p.parts[i].parts[1] \in Nested[n - 1].productions
  <2>1. Len(p.parts[i].parts) = 1
        BY <1>2, <1>3, <1>7, LevelCases
  <2>2. 1 \in 1..Len(p.parts[i].parts)
        BY <2>1
  <2> QED BY <1>5, <2>2
<1>8. ASSUME p.kind = "call", NEW i \in DOMAIN p.parts
      PROVE  p.parts[i].parts[1].name \in Names
  <2>1. Len(p.parts[i].parts) = 2
        BY <1>1, <1>8
  <2>2. 1 \in 1..Len(p.parts[i].parts)
        BY <2>1
  <2> QED BY <1>5, <2>2
<1> QED BY <1>1, <1>2, <1>3, <1>4, <1>6, <1>7, <1>8

(* A schema of some levels is made of schemas of fewer.                    *)
LEMMA StoreysLower ==
  ASSUME NEW n \in Nat, NEW s \in Nested[n].schemas
  PROVE  /\ n - 1 \in Nat /\ s \in SchemasOver(Nested[n - 1].schemas)
         /\ \A i \in DOMAIN s.prefix : s.prefix[i] \in Nested[n - 1].schemas
         /\ s.rest # <<>> => s.rest[1] \in Nested[n - 1].schemas
         /\ \A i \in DOMAIN s.anyOf : s.anyOf[i] \in Nested[n - 1].schemas
<1>1. n # 0
      BY NestedCases
<1>2. n - 1 \in Nat /\ s \in SchemasOver(Nested[n - 1].schemas)
      BY <1>1, NestedCases
<1>3. s.prefix \in Seq(Nested[n - 1].schemas) /\ s.rest \in Seq(Nested[n - 1].schemas)
      /\ s.anyOf \in Seq(Nested[n - 1].schemas)
      BY <1>2 DEF SchemasOver
<1>4. s.rest # <<>> => s.rest[1] \in Nested[n - 1].schemas
      BY <1>3
<1> QED BY <1>2, <1>3, <1>4

-----------------------------------------------------------------------------
(* Lowering.                                                               *)

(* A node of the graph, as the assumption on it says.                      *)
LEMMA ShapeTyped ==
  ASSUME NEW s \in Shape
  PROVE  LET n == Node[s] IN
         /\ n \in NodeType /\ NodeOK(n)
         /\ n.kids \in Seq(Shape) /\ DOMAIN n.kids = 1..Len(n.kids) /\ Len(n.kids) \in Nat
         /\ \A i \in DOMAIN n.kids : n.kids[i] \in Shape
         /\ n.rest \in Shape \cup {None} /\ None \notin Shape
         /\ n.defs \in Seq([name: Symbol, shape: Shape])
         /\ DOMAIN n.defs = 1..Len(n.defs) /\ Len(n.defs) \in Nat
         /\ \A i \in DOMAIN n.defs : n.defs[i].shape \in Shape /\ n.defs[i].name \in Symbol
         /\ n.name \in Symbol \cup {None} /\ n.arg \in STRING
         /\ n.keys \in Seq(Symbol) /\ \A i \in DOMAIN n.keys : n.keys[i] \in Symbol
         /\ Height[s] \in Nat
<1> USE GraphAssumption, HeightAssumption
<1> DEFINE n == Node[s]
<1>1. n \in NodeType /\ NodeOK(n) /\ None \notin Shape
      BY DEF GraphOK
<1>2. /\ n.kids \in Seq(Shape) /\ n.rest \in Shape \cup {None}
      /\ n.defs \in Seq([name: Symbol, shape: Shape])
      /\ n.name \in Symbol \cup {None} /\ n.arg \in STRING /\ n.keys \in Seq(Symbol)
      BY <1>1 DEF NodeType
<1> HIDE DEF n
<1>3. /\ DOMAIN n.kids = 1..Len(n.kids) /\ Len(n.kids) \in Nat
      /\ \A i \in DOMAIN n.kids : n.kids[i] \in Shape
      BY <1>2
<1>4. /\ DOMAIN n.defs = 1..Len(n.defs) /\ Len(n.defs) \in Nat
      /\ \A i \in DOMAIN n.defs : n.defs[i].shape \in Shape /\ n.defs[i].name \in Symbol
  <2>1. /\ DOMAIN n.defs = 1..Len(n.defs) /\ Len(n.defs) \in Nat
        /\ \A i \in 1..Len(n.defs) : n.defs[i] \in [name: Symbol, shape: Shape]
        BY <1>2, LenProperties, ElementOfSeq
  <2> QED BY <2>1
<1>5. \A i \in DOMAIN n.keys : n.keys[i] \in Symbol
      BY <1>2
<1>6. Height[s] \in Nat
      OBVIOUS
<1> QED BY <1>1, <1>2, <1>3, <1>4, <1>5, <1>6 DEF n

(* The shapes a shape is built of are shapes, of less height.              *)
LEMMA BelowTyped ==
  ASSUME NEW s \in Shape, NEW u \in Below(s)
  PROVE  u \in Shape /\ Height[u] < Height[s] /\ Height[u] \in Nat
<1>1. u \in Shape
      BY ShapeTyped DEF Below
<1> QED BY <1>1, ShapeTyped, HeightAssumption

(* A production of one more level than its parts.                          *)
LEMMA Built ==
  ASSUME NEW n \in Nat, n # 0,
         NEW kind \in {"terminal", "ref", "alt", "seq", "repeat", "call"}, NEW name \in Names,
         NEW atom \in DOMAIN Types \cup {"exact", ""}, NEW parts \in Seq(Nested[n - 1].productions),
         kind = "terminal" => atom # "", kind = "repeat" => Len(parts) = 1,
         kind = "call" => \A i \in DOMAIN parts : Len(parts[i].parts) = 2
  PROVE  [kind |-> kind, of |-> atom, name |-> name, parts |-> parts] \in Nested[n].productions
<1> DEFINE p == [kind |-> kind, of |-> atom, name |-> name, parts |-> parts]
<1>1. Nested[n].productions = ProductionsOver(Nested[n - 1].productions)
      BY NestedCases
<1>2. /\ p \in [kind: {"terminal", "ref", "alt", "seq", "repeat", "call"}, name: Names,
                of: DOMAIN Types \cup {"exact", ""}, parts: Seq(Nested[n - 1].productions)]
      /\ p.kind = kind /\ p.of = atom /\ p.parts = parts
      OBVIOUS
<1> HIDE DEF p
<1>3. p \in ProductionsOver(Nested[n - 1].productions)
      BY <1>2 DEF ProductionsOver
<1> QED BY <1>1, <1>3 DEF p

KidsOf(s)   == [i \in DOMAIN Node[s].kids |-> Lowered[Node[s].kids[i]]]
RestOf(s)   == IF Node[s].rest = None THEN <<>> ELSE <<Lowered[Node[s].rest]>>
BodiesOf(s) == [i \in DOMAIN Node[s].defs |-> Lowered[Node[s].defs[i].shape]]

TailOf(rest) == IF rest = <<>> THEN <<>> ELSE <<Compound("repeat", Productions(rest))>>
HeadOf(n) == IF n.name = None THEN FieldsHead ELSE n.name
ArgumentsOf(n, kids) ==
  [i \in DOMAIN kids |-> Compound("seq", <<Exactly(n.keys[i]), Productions(kids)[i]>>)]

(* A shape is lowered to what its kind makes of its parts.                 *)
LEMMA LoweredEquation ==
  \A s \in Shape : Lowered[s] = LoweredAs(Node[s], KidsOf(s), RestOf(s), BodiesOf(s))
<1> USE GraphAssumption, HeightAssumption
<1> DEFINE Body(f, s) ==
             LoweredAs(Node[s], [i \in DOMAIN Node[s].kids |-> f[Node[s].kids[i]]],
                       IF Node[s].rest = None THEN <<>> ELSE <<f[Node[s].rest]>>,
                       [i \in DOMAIN Node[s].defs |-> f[Node[s].defs[i].shape]])
           Solves(f, n) == \A x \in Shape : Height[x] < n => f[x] = Body(f, x)
           Next_(f) == [x \in Shape |-> Body(f, x)]
<1>1. ASSUME NEW f, NEW g, NEW x \in Shape,
             \A y \in Shape : Height[y] < Height[x] => f[y] = g[y]
      PROVE  Body(f, x) = Body(g, x)
  <2> DEFINE Ks(h) == [i \in DOMAIN Node[x].kids |-> h[Node[x].kids[i]]]
             Rs(h) == IF Node[x].rest = None THEN <<>> ELSE <<h[Node[x].rest]>>
             Bs(h) == [i \in DOMAIN Node[x].defs |-> h[Node[x].defs[i].shape]]
  <2>1. CASE Node[x].kind \in {"ref", "class"}
    <3>1. \A h : Body(h, x) = LoweredAs(Node[x], Ks(h), Rs(h), Bs(h))
          OBVIOUS
    <3> HIDE DEF Ks, Rs, Bs, Body
    <3>2. ASSUME NEW h PROVE Body(h, x) =
                   IF Node[x].kind = "ref" THEN Lower(Naming("ref", Node[x].name, <<>>), <<>>) ELSE Unsupported
      <4> DEFINE low == LoweredAs(Node[x], Ks(h), Rs(h), Bs(h))
      <4>1. Node[x].kind = "ref" => low = Lower(Naming("ref", Node[x].name, <<>>), <<>>)
            BY Zenon DEF LoweredAs
      <4>3. Node[x].kind = "class" => low = Unsupported
            BY Zenon DEF LoweredAs
      <4> HIDE DEF low
      <4>2. Body(h, x) = low
            BY <3>1 DEF low
      <4> QED BY <2>1, <4>1, <4>2, <4>3
    <3> QED BY <3>2
  <2>2. CASE Node[x].kind \notin {"ref", "class"}
    <3>1. \A y \in Below(x) : y \in Shape /\ f[y] = g[y]
      <4>1. \A y \in Below(x) : y \in Shape /\ Height[y] < Height[x]
            BY BelowTyped
      <4> QED BY <1>1, <4>1
    <3>2. /\ \A i \in DOMAIN Node[x].kids : Node[x].kids[i] \in Below(x)
          /\ Node[x].rest # None => Node[x].rest \in Below(x)
          /\ \A i \in DOMAIN Node[x].defs : Node[x].defs[i].shape \in Below(x)
          BY <2>2 DEF Below
    <3>3. Ks(f) = Ks(g)
          BY <3>1, <3>2
    <3>4. Rs(f) = Rs(g)
          BY <3>1, <3>2
    <3>5. Bs(f) = Bs(g)
          BY <3>1, <3>2
    <3> HIDE DEF Ks, Rs, Bs
    <3>6. LoweredAs(Node[x], Ks(f), Rs(f), Bs(f)) = LoweredAs(Node[x], Ks(g), Rs(g), Bs(g))
          BY <3>3, <3>4, <3>5
    <3> QED BY <3>6 DEF Ks, Rs, Bs
  <2> QED BY <2>1, <2>2
<1> HIDE DEF Body
<1>2. \A x \in Shape : Height[x] \in Nat
      OBVIOUS
<1>3. \A n \in Nat : \E f : Solves(f, n)
  <2> DEFINE Lost == {n \in Nat : ~\E f : Solves(f, n)}
  <2>1. SUFFICES ASSUME NEW n \in Lost, \A m \in Lost : n <= m
                 PROVE  FALSE
    <3> HIDE DEF Solves
    <3> QED BY FirstPlace
  <2>2. CASE n = 0
    <3>1. \A f : Solves(f, 0)
          BY <1>2
    <3> HIDE DEF Solves
    <3> QED BY <2>1, <2>2, <3>1
  <2>3. CASE n > 0
    <3>1. PICK f : Solves(f, n - 1)
      <4> HIDE DEF Solves
      <4>1. n - 1 \in Nat /\ n - 1 \notin Lost
            BY <2>1, <2>3
      <4> QED BY <4>1
    <3>2. ASSUME NEW x \in Shape, Height[x] < n
          PROVE  Next_(f)[x] = Body(Next_(f), x)
      <4>1. \A y \in Shape : Height[y] < Height[x] => Next_(f)[y] = f[y]
            BY <1>2, <3>1, <3>2
      <4>2. Body(Next_(f), x) = Body(f, x)
            BY <1>1, <4>1
      <4> QED BY <4>2
    <3>3. Solves(Next_(f), n)
          BY <3>2
    <3> HIDE DEF Solves
    <3> QED BY <2>1, <3>3
  <2> QED BY <2>1, <2>2, <2>3
<1>4. ASSUME NEW m \in Nat, NEW n \in Nat, NEW f, NEW g, Solves(f, m), Solves(g, n),
             NEW x \in Shape, Height[x] < m, Height[x] < n
      PROVE  f[x] = g[x]
  <2>1. SUFFICES ASSUME f[x] # g[x] PROVE FALSE
        OBVIOUS
  <2> DEFINE T == {k \in Nat : \E y \in Shape : Height[y] = k /\ k < m /\ k < n /\ f[y] # g[y]}
  <2>2. Height[x] \in T
        BY <1>2, <1>4, <2>1
  <2>3. PICK k \in T : \A j \in T : k <= j
        BY <2>2, FirstPlace
  <2>4. PICK y \in Shape : Height[y] = k /\ k < m /\ k < n /\ f[y] # g[y]
        BY <2>3
  <2>5. \A z \in Shape : Height[z] < Height[y] => f[z] = g[z]
        BY <1>2, <2>3, <2>4
  <2>6. Body(f, y) = Body(g, y)
        BY <1>1, <2>5
  <2> QED BY <1>4, <2>4, <2>6
<1> DEFINE At(n) == CHOOSE f : Solves(f, n)
           F == [x \in Shape |-> At(Height[x] + 1)[x]]
<1>5. \A n \in Nat : Solves(At(n), n)
  <2> HIDE DEF Solves
  <2> QED BY <1>3
<1> HIDE DEF At
<1>6. ASSUME NEW x \in Shape PROVE F[x] = Body(F, x)
  <2> DEFINE f == At(Height[x] + 1)
  <2>1. Height[x] + 1 \in Nat /\ Height[x] < Height[x] + 1
        BY <1>2
  <2>2. Solves(f, Height[x] + 1)
    <3> HIDE DEF Solves
    <3> QED BY <1>5, <2>1
  <2>3. ASSUME NEW y \in Shape, Height[y] < Height[x] PROVE F[y] = f[y]
    <3>1. Height[y] + 1 \in Nat /\ Height[y] < Height[y] + 1 /\ Height[y] < Height[x] + 1
          BY <1>2, <2>3
    <3>2. Solves(At(Height[y] + 1), Height[y] + 1)
          BY <1>5, <3>1
    <3> HIDE DEF Solves
    <3>3. At(Height[y] + 1)[y] = f[y]
          BY <1>4, <2>1, <2>2, <3>1, <3>2
    <3> QED BY <3>3
  <2>4. F[x] = f[x]
        OBVIOUS
  <2>5. f[x] = Body(f, x)
        BY <2>1, <2>2
  <2> HIDE DEF F, f
  <2>6. Body(F, x) = Body(f, x)
        BY <1>1, <2>3
  <2> QED BY <2>4, <2>5, <2>6
<1>7. F = [x \in Shape |-> Body(F, x)]
  <2>1. F = [x \in Shape |-> F[x]]
        OBVIOUS
  <2> HIDE DEF F
  <2> QED BY <1>6, <2>1
<1>8. \E f : f = [x \in Shape |-> Body(f, x)]
      BY <1>7
<1>9. Lowered = [x \in Shape |-> Body(Lowered, x)]
      BY <1>8 DEF Lowered, Body, KidsOf, RestOf, BodiesOf
<1>10. \A x \in Shape : Lowered[x] = Body(Lowered, x)
       BY <1>9
<1> QED BY <1>10 DEF Body, KidsOf, RestOf, BodiesOf

(* What a shape is lowered to, kind by kind.                               *)
LEMMA LoweredIs ==
  ASSUME NEW s \in Shape
  PROVE  LET n == Node[s]  low == Lowered[s]  kids == KidsOf(s)  rest == RestOf(s)
             bodies == BodiesOf(s) IN
         /\ n.kind = "any" => low = Lower(Compound("alt", <<Terminal("any")>>), <<>>)
         /\ n.kind = "exprKind" =>
              low = IF n.arg \in KindAtoms THEN Lower(Terminal(AtomOf(n.arg)), <<>>)
                    ELSE Unsupported
         /\ n.kind = "exact" => low = Lower(Exactly(n.arg), <<>>)
         /\ n.kind = "ref"   => low = Lower(Naming("ref", n.name, <<>>), <<>>)
         /\ n.kind = "oneOf" =>
              low = Whole(kids, Lower(Compound("alt", Productions(kids)), DefsOf(kids)))
         /\ n.kind = "list" =>
              low = Whole(kids \o rest, Lower(Compound("seq", Productions(kids) \o TailOf(rest)),
                                              DefsOf(kids \o rest)))
         /\ n.kind = "fields" =>
              low = Whole(kids, Lower(Naming("call", HeadOf(n), ArgumentsOf(n, kids)),
                                      DefsOf(kids)))
         /\ n.kind = "defs" =>
              low = Whole(kids \o bodies,
                          Lower(Productions(kids)[1],
                                Scopes(kids[1], [i \in DOMAIN bodies |-> n.defs[i].name], bodies)))
         /\ n.kind \notin {"any", "exprKind", "exact", "ref", "oneOf", "list", "fields", "defs"} =>
              low = Unsupported
<1> DEFINE n == Node[s]
           low == LoweredAs(n, KidsOf(s), RestOf(s), BodiesOf(s))
<1>1. Lowered[s] = low
      BY LoweredEquation
<1> HIDE DEF low
<1> SUFFICES LET kids == KidsOf(s)  rest == RestOf(s)  bodies == BodiesOf(s) IN
         /\ n.kind = "any" => low = Lower(Compound("alt", <<Terminal("any")>>), <<>>)
         /\ n.kind = "exprKind" =>
              low = IF n.arg \in KindAtoms THEN Lower(Terminal(AtomOf(n.arg)), <<>>)
                    ELSE Unsupported
         /\ n.kind = "exact" => low = Lower(Exactly(n.arg), <<>>)
         /\ n.kind = "ref"   => low = Lower(Naming("ref", n.name, <<>>), <<>>)
         /\ n.kind = "oneOf" =>
              low = Whole(kids, Lower(Compound("alt", Productions(kids)), DefsOf(kids)))
         /\ n.kind = "list" =>
              low = Whole(kids \o rest, Lower(Compound("seq", Productions(kids) \o TailOf(rest)),
                                              DefsOf(kids \o rest)))
         /\ n.kind = "fields" =>
              low = Whole(kids, Lower(Naming("call", HeadOf(n), ArgumentsOf(n, kids)),
                                      DefsOf(kids)))
         /\ n.kind = "defs" =>
              low = Whole(kids \o bodies,
                          Lower(Productions(kids)[1],
                                Scopes(kids[1], [i \in DOMAIN bodies |-> n.defs[i].name], bodies)))
         /\ n.kind \notin {"any", "exprKind", "exact", "ref", "oneOf", "list", "fields", "defs"} =>
              low = Unsupported
      BY <1>1, Zenon
<1> HIDE DEF n
<1> QED BY Zenon DEF LoweredAs, TailOf, HeadOf, ArgumentsOf, low

(* A function on the first places is a sequence.                           *)
LEMMA MadeSeq ==
  ASSUME NEW T, NEW n \in Nat, NEW f \in [1..n -> T]
  PROVE  f \in Seq(T) /\ Len(f) = n /\ DOMAIN f = 1..n
BY SeqDef, LenProperties

(* Sequences of one and of two.                                            *)
LEMMA Tuples ==
  ASSUME NEW T, NEW x \in T, NEW y \in T
  PROVE  /\ <<x>> \in Seq(T) /\ Len(<<x>>) = 1
         /\ <<x, y>> \in Seq(T) /\ Len(<<x, y>>) = 2
OBVIOUS

(* What is appended joins the range.                                       *)
LEMMA RangeAppended ==
  ASSUME NEW T, NEW seq \in Seq(T), NEW x \in T
  PROVE  Append(seq, x) \in Seq(T) /\ Range(Append(seq, x)) = Range(seq) \cup {x}
<1>1. /\ Append(seq, x) \in Seq(T) /\ Len(Append(seq, x)) = Len(seq) + 1
      /\ \A k \in 1..Len(seq) : Append(seq, x)[k] = seq[k]
      /\ Append(seq, x)[Len(seq) + 1] = x
      BY AppendProperties
<1> DEFINE new == Append(seq, x)
           m == Len(seq)
<1>2. m \in Nat /\ DOMAIN seq = 1..m
      BY LenProperties
<1> HIDE DEF new
<1>3. DOMAIN new = 1..(m + 1)
      BY <1>1, LenProperties DEF new
<1>4. \A k \in 1..m : new[k] = seq[k]
      BY <1>1 DEF new
<1>5. new[m + 1] = x
      BY <1>1 DEF new
<1> HIDE DEF m
<1>6. 1..(m + 1) = 1..m \cup {m + 1}
      BY <1>2
<1>7. Range(new) = {new[k] : k \in 1..m} \cup {x}
      BY <1>3, <1>5, <1>6 DEF Range
<1>8. Range(seq) = {new[k] : k \in 1..m}
      BY <1>2, <1>4 DEF Range
<1> QED BY <1>1, <1>7, <1>8 DEF new

DefType == [name: Symbol, production: Production]
LowType(n) ==
  {low \in [ok: BOOLEAN, production: Nested[n].productions, defs: Seq(DefType)] :
     low.production.kind # "repeat"}

(* What several lowered shapes come to together.                           *)
LEMMA LoweredTogether ==
  ASSUME NEW n \in Nat, NEW ls \in Seq(LowType(n))
  PROVE  /\ Len(ls) \in Nat /\ DOMAIN ls = 1..Len(ls)
         /\ \A i \in 1..Len(ls) : ls[i] \in LowType(n)
         /\ Productions(ls) \in Seq(Nested[n].productions) /\ Len(Productions(ls)) = Len(ls)
         /\ DOMAIN Productions(ls) = 1..Len(ls)
         /\ \A i \in 1..Len(ls) : Productions(ls)[i] = ls[i].production
         /\ DefsOf(ls) \in Seq(DefType)
         /\ Range(DefsOf(ls)) = UNION {Range(ls[i].defs) : i \in 1..Len(ls)}
<1>1. /\ Len(ls) \in Nat /\ DOMAIN ls = 1..Len(ls)
      /\ \A i \in 1..Len(ls) : ls[i] \in LowType(n)
      BY LenProperties, ElementOfSeq
<1>2. \A i \in 1..Len(ls) :
        ls[i].production \in Nested[n].productions /\ ls[i].defs \in Seq(DefType)
      BY <1>1 DEF LowType
<1>3. Productions(ls) \in [1..Len(ls) -> Nested[n].productions]
      BY <1>1, <1>2 DEF Productions
<1>4. /\ Productions(ls) \in Seq(Nested[n].productions) /\ Len(Productions(ls)) = Len(ls)
      /\ DOMAIN Productions(ls) = 1..Len(ls)
      BY <1>1, <1>3, MadeSeq
<1>5. \A i \in 1..Len(ls) : Productions(ls)[i] = ls[i].production
      BY <1>1 DEF Productions
<1> DEFINE each == [i \in DOMAIN ls |-> ls[i].defs]
<1>6. each \in [1..Len(ls) -> Seq(DefType)] /\ \A i \in 1..Len(ls) : each[i] = ls[i].defs
      BY <1>1, <1>2
<1>7. DefsOf(ls) = FlattenSeq(each)
      BY DEF DefsOf
<1> HIDE DEF each
<1>8. each \in Seq(Seq(DefType)) /\ DOMAIN each = 1..Len(ls)
      BY <1>1, <1>6, MadeSeq
<1>9. /\ FlattenSeq(each) \in Seq(DefType)
      /\ Range(FlattenSeq(each)) = UNION {Range(each[i]) : i \in DOMAIN each}
      BY <1>8, Flattened
<1>10. UNION {Range(each[i]) : i \in DOMAIN each} = UNION {Range(ls[i].defs) : i \in 1..Len(ls)}
       BY <1>6, <1>8
<1> QED BY <1>1, <1>4, <1>5, <1>7, <1>9, <1>10

(* The definitions of a scope.                                             *)
LEMMA ScopesAre ==
  ASSUME NEW n \in Nat, n <= Nesting, NEW root \in LowType(n), NEW bodies \in Seq(LowType(n)),
         NEW names \in [1..Len(bodies) -> Symbol]
  PROVE  /\ Scopes(root, names, bodies) \in Seq(DefType)
         /\ Range(Scopes(root, names, bodies)) =
              Range(root.defs) \cup
              UNION {Range(bodies[i].defs) \cup {Definition(names[i], bodies[i].production)} :
                       i \in 1..Len(bodies)}
<1>1. /\ Len(bodies) \in Nat /\ DOMAIN bodies = 1..Len(bodies)
      /\ \A i \in 1..Len(bodies) : bodies[i] \in LowType(n)
      BY LoweredTogether
<1> DEFINE Own(i) == Definition(names[i], bodies[i].production)
           each == [i \in DOMAIN bodies |-> Append(bodies[i].defs, Own(i))]
<1>2. ASSUME NEW i \in 1..Len(bodies)
      PROVE  /\ bodies[i].defs \in Seq(DefType) /\ Own(i) \in DefType
             /\ Append(bodies[i].defs, Own(i)) \in Seq(DefType)
             /\ Range(Append(bodies[i].defs, Own(i))) = Range(bodies[i].defs) \cup {Own(i)}
  <2>1. bodies[i].defs \in Seq(DefType) /\ bodies[i].production \in Nested[n].productions
        BY <1>1 DEF LowType
  <2>2. bodies[i].production \in Production
        BY <2>1, LevelsGrow, GrammarAssumption DEF Production
  <2>3. Own(i) \in DefType
        BY <2>2 DEF Definition, DefType
  <2> HIDE DEF Own
  <2> QED BY <2>1, <2>3, RangeAppended
<1>3. /\ each \in [1..Len(bodies) -> Seq(DefType)]
      /\ \A i \in 1..Len(bodies) : each[i] = Append(bodies[i].defs, Own(i))
      BY <1>1, <1>2
<1>4. Scopes(root, names, bodies) = root.defs \o FlattenSeq(each)
      BY DEF Scopes
<1> HIDE DEF each
<1>5. each \in Seq(Seq(DefType)) /\ DOMAIN each = 1..Len(bodies)
      BY <1>1, <1>3, MadeSeq
<1>6. /\ FlattenSeq(each) \in Seq(DefType)
      /\ Range(FlattenSeq(each)) = UNION {Range(each[i]) : i \in DOMAIN each}
      BY <1>5, Flattened
<1>7. root.defs \in Seq(DefType)
      BY DEF LowType
<1>8. /\ root.defs \o FlattenSeq(each) \in Seq(DefType)
      /\ Range(root.defs \o FlattenSeq(each)) = Range(root.defs) \cup Range(FlattenSeq(each))
      BY <1>6, <1>7, ConcatProperties, RangeConcatenation
<1>9. \A i \in 1..Len(bodies) : Range(each[i]) = Range(bodies[i].defs) \cup {Own(i)}
      BY <1>2, <1>3
<1>10. UNION {Range(each[i]) : i \in DOMAIN each} =
         UNION {Range(bodies[i].defs) \cup {Own(i)} : i \in 1..Len(bodies)}
       BY <1>5, <1>9
<1> QED BY <1>4, <1>6, <1>8, <1>10

(* Every shape is lowered to at most 2 * h + 2 levels.                     *)
LEMMA LoweredTyped ==
  ASSUME NEW s \in Shape
  PROVE  Lowered[s] \in LowType(2 * Height[s] + 2) /\ Lowered[s] \in LowType(Nesting)
<1> USE GrammarAssumption
<1> DEFINE Right(u) == Lowered[u] \in LowType(2 * Height[u] + 2)
<1>1. ASSUME NEW u \in Shape, \A v \in Below(u) : Right(v)
      PROVE  Right(u)
  <2> DEFINE n == Node[u]
             N == 2 * Height[u]
             kids == KidsOf(u)
             rest == RestOf(u)
             bodies == BodiesOf(u)
  <2>1. /\ N \in Nat /\ N + 1 \in Nat /\ N + 2 \in Nat /\ (N + 2) - 1 = N + 1 /\ (N + 1) - 1 = N
        /\ N + 2 <= Nesting /\ N + 2 # 0 /\ N + 1 # 0 /\ N <= Nesting /\ N <= N + 1 /\ N <= N + 2
        /\ 1 <= N + 1 /\ 1 <= N + 2 /\ 1 \in Nat /\ Nesting \in Nat
    <3>1. Height[u] \in Nat
          BY ShapeTyped
    <3> QED BY <3>1
  <2> HIDE DEF N
  <2>2. ASSUME NEW m \in Nat, 1 <= m, NEW p \in Nested[1].productions, p.kind # "repeat"
        PROVE  Lower(p, <<>>) \in LowType(m)
    <3>1. p \in Nested[m].productions
          BY <2>2, LevelsGrow
    <3>2. <<>> \in Seq(DefType)
          OBVIOUS
    <3> QED BY <2>2, <3>1, <3>2 DEF LowType, Lower
  <2>3. \A atom \in DOMAIN Types \cup {"exact"}, e \in Names :
          /\ [kind |-> "terminal", of |-> atom, name |-> e, parts |-> <<>>]
                  \in Nested[1].productions
          /\ [kind |-> "ref", of |-> "", name |-> e, parts |-> <<>>] \in Nested[1].productions
    <3>1. <<>> \in Seq(Nested[0].productions) /\ 1 - 1 = 0
          OBVIOUS
    <3>2. "" \notin DOMAIN Types \cup {"exact"}
          BY DEF Types
    <3>3. "terminal" \in {"terminal", "ref", "alt", "seq", "repeat", "call"}
          /\ "terminal" # "repeat"
          /\ "ref" \in {"terminal", "ref", "alt", "seq", "repeat", "call"} /\ "ref" # "repeat"
          /\ "terminal" # "call" /\ "ref" # "call" /\ "ref" # "terminal" /\ 1 # 0 /\ 1 \in Nat
          OBVIOUS
    <3>4. ASSUME NEW atom \in DOMAIN Types \cup {"exact"}, NEW e \in Names
          PROVE  [kind |-> "terminal", of |-> atom, name |-> e, parts |-> <<>>]
                      \in Nested[1].productions
      <4>1. atom \in DOMAIN Types \cup {"exact", ""} /\ atom # ""
            BY <3>2
      <4> QED BY <3>1, <3>3, <4>1, Built
    <3>5. ASSUME NEW e \in Names
          PROVE  [kind |-> "ref", of |-> "", name |-> e, parts |-> <<>>] \in Nested[1].productions
          BY <3>1, <3>3, Built
    <3> QED BY <3>4, <3>5
  <2>4. None \in Names /\ n.arg \in Names
        /\ (n.name # None => n.name \in Names) /\ FieldsHead \in Names
        /\ \A i \in DOMAIN n.keys : n.keys[i] \in Names
        BY ShapeTyped DEF Names
  <2>5. {"any", "nil", "bool", "number", "string", "list", "map", "symbol"} \subseteq DOMAIN Types
        BY DEF Types
  <2>6. Unsupported \in LowType(N + 2)
    <3>1. Terminal("any") \in Nested[1].productions
          BY <2>3, <2>4, <2>5 DEF Terminal
    <3>2. Terminal("any") \in Nested[N + 2].productions
          BY <2>1, <3>1, LevelsGrow
    <3>3. Terminal("any").kind # "repeat" /\ <<>> \in Seq(DefType)
          BY DEF Terminal
    <3> QED BY <3>2, <3>3 DEF LowType, Unsupported
  <2>7. n.kind \in {"ref", "class"} \/ /\ kids \in Seq(LowType(N)) /\ rest \in Seq(LowType(N))
                                       /\ bodies \in Seq(LowType(N))
                                       /\ Len(kids) = Len(n.kids) /\ Len(bodies) = Len(n.defs)
    <3>1. ASSUME NEW v \in Below(u)
          PROVE  Lowered[v] \in LowType(N)
      <4>1. v \in Shape /\ Height[v] \in Nat /\ Height[u] \in Nat /\ Height[v] < Height[u]
            BY BelowTyped, ShapeTyped
      <4>2. 2 * Height[v] + 2 \in Nat /\ 2 * Height[v] + 2 <= N
            BY <4>1 DEF N
      <4>3. Nested[2 * Height[v] + 2].productions \subseteq Nested[N].productions
            BY <2>1, <4>2, LevelsGrow
      <4> QED BY <1>1, <4>3 DEF LowType
    <3>2. n.kind \notin {"ref", "class"} =>
            /\ \A i \in DOMAIN n.kids : n.kids[i] \in Below(u)
            /\ n.rest # None => n.rest \in Below(u)
            /\ \A i \in DOMAIN n.defs : n.defs[i].shape \in Below(u)
          BY DEF Below
    <3>3. DOMAIN n.kids = 1..Len(n.kids) /\ Len(n.kids) \in Nat
          /\ DOMAIN n.defs = 1..Len(n.defs) /\ Len(n.defs) \in Nat
          BY ShapeTyped
    <3>4. n.kind \notin {"ref", "class"} =>
            kids \in [1..Len(n.kids) -> LowType(N)] /\ bodies \in [1..Len(n.defs) -> LowType(N)]
          BY <3>1, <3>2, <3>3 DEF KidsOf, BodiesOf
    <3>5. n.kind \notin {"ref", "class"} => rest \in Seq(LowType(N))
          BY <3>1, <3>2 DEF RestOf
    <3> HIDE DEF n, kids, rest, bodies
    <3> QED BY <3>3, <3>4, <3>5, MadeSeq
  <2>8. ASSUME NEW ls, NEW low, Lowered[u] = Whole(ls, low), low \in LowType(N + 2)
        PROVE  Right(u)
    <3>1. Whole(ls, low) \in {low, Unsupported}
          BY DEF Whole
    <3> QED BY <2>6, <2>8, <3>1 DEF N
  <2>18. \A x \in {"ref", "alt", "seq", "repeat", "call"}, e \in Names,
            ps \in Seq(Nested[N + 1].productions) :
            (x = "repeat" => Len(ps) = 1)
            /\ (x = "call" => \A i \in DOMAIN ps : Len(ps[i].parts) = 2)
              => Naming(x, e, ps) \in Nested[N + 2].productions
    <3>1. "" \in DOMAIN Types \cup {"exact", ""}
          OBVIOUS
    <3> QED BY <2>1, <3>1, Built DEF Naming
  <2>19. \A x \in {"ref", "alt", "seq", "repeat", "call"}, e \in Names,
            ps \in Seq(Nested[N].productions) :
            (x = "repeat" => Len(ps) = 1) /\ x # "call"
              => Naming(x, e, ps) \in Nested[N + 1].productions
    <3>1. "" \in DOMAIN Types \cup {"exact", ""}
          OBVIOUS
    <3> QED BY <2>1, <3>1, Built DEF Naming
  <2>20. Nested[N].productions \subseteq Nested[N + 1].productions
         BY <2>1, LevelsGrow
  <2>21. ASSUME NEW p \in Nested[N + 2].productions, p.kind # "repeat", NEW ds \in Seq(DefType)
         PROVE  Lower(p, ds) \in LowType(N + 2)
         BY <2>21 DEF Lower, LowType
  <2>9. CASE n.kind = "any"
    <3>1. Terminal("any") \in Nested[1].productions
          BY <2>3, <2>4, <2>5 DEF Terminal
    <3>2. <<Terminal("any")>> \in Seq(Nested[N + 1].productions)
      <4>1. Terminal("any") \in Nested[N + 1].productions
            BY <2>1, <3>1, LevelsGrow
      <4> HIDE DEF Terminal
      <4> QED BY <4>1, Tuples
    <3>3. Compound("alt", <<Terminal("any")>>) \in Nested[N + 2].productions
          BY <2>4, <2>18, <3>2 DEF Compound
    <3>4. Compound("alt", <<Terminal("any")>>).kind # "repeat" /\ <<>> \in Seq(DefType)
          BY DEF Compound, Naming
    <3>5. Lowered[u] = Lower(Compound("alt", <<Terminal("any")>>), <<>>)
          BY <2>9, LoweredIs
    <3> QED BY <2>21, <3>3, <3>4, <3>5 DEF N
  <2>10. CASE n.kind = "exprKind"
    <3>1. Lowered[u] =
            IF n.arg \in KindAtoms THEN Lower(Terminal(AtomOf(n.arg)), <<>>) ELSE Unsupported
          BY <2>10, LoweredIs
    <3>2. n.arg \in KindAtoms => AtomOf(n.arg) \in DOMAIN Types
          BY <2>5 DEF KindAtoms, AtomOf
    <3>3. n.arg \in KindAtoms => Terminal(AtomOf(n.arg)) \in Nested[1].productions
          BY <2>3, <2>4, <3>2 DEF Terminal
    <3>4. Terminal(AtomOf(n.arg)).kind # "repeat"
          BY DEF Terminal
    <3>5. n.arg \in KindAtoms => Lower(Terminal(AtomOf(n.arg)), <<>>) \in LowType(N + 2)
          BY <2>1, <2>2, <3>3, <3>4
    <3> QED BY <2>6, <3>1, <3>5 DEF N
  <2>11. CASE n.kind = "exact"
    <3>1. Lowered[u] = Lower(Exactly(n.arg), <<>>)
          BY <2>11, LoweredIs
    <3>2. Exactly(n.arg) \in Nested[1].productions /\ Exactly(n.arg).kind # "repeat"
          BY <2>3, <2>4 DEF Exactly
    <3>3. Lower(Exactly(n.arg), <<>>) \in LowType(N + 2)
          BY <2>1, <2>2, <3>2
    <3> QED BY <3>1, <3>3 DEF N
  <2>12. CASE n.kind = "ref"
    <3>1. Lowered[u] = Lower(Naming("ref", n.name, <<>>), <<>>)
          BY <2>12, LoweredIs
    <3>2. n.name \in Names
      <4>1. n.name # None
            BY <2>12, ShapeTyped DEF NodeOK
      <4> QED BY <2>4, <4>1
    <3>3. Naming("ref", n.name, <<>>) \in Nested[1].productions
          /\ Naming("ref", n.name, <<>>).kind # "repeat"
          BY <2>3, <3>2 DEF Naming
    <3>4. Lower(Naming("ref", n.name, <<>>), <<>>) \in LowType(N + 2)
          BY <2>1, <2>2, <3>3
    <3> QED BY <3>1, <3>4 DEF N
  <2>13. CASE n.kind = "oneOf"
    <3>1. Lowered[u] = Whole(kids, Lower(Compound("alt", Productions(kids)), DefsOf(kids)))
          BY <2>13, LoweredIs
    <3>2. kids \in Seq(LowType(N))
          BY <2>7, <2>13
    <3> HIDE DEF kids, n
    <3>3. Productions(kids) \in Seq(Nested[N].productions) /\ DefsOf(kids) \in Seq(DefType)
          BY <2>1, <3>2, LoweredTogether
    <3>4. Productions(kids) \in Seq(Nested[N + 1].productions)
          BY <2>20, <3>3
    <3>5. Compound("alt", Productions(kids)) \in Nested[N + 2].productions
          BY <2>4, <2>18, <3>4 DEF Compound
    <3>6. Compound("alt", Productions(kids)).kind # "repeat"
          BY DEF Compound, Naming
    <3>7. Lower(Compound("alt", Productions(kids)), DefsOf(kids)) \in LowType(N + 2)
          BY <2>21, <3>3, <3>5, <3>6
    <3> QED BY <2>8, <3>1, <3>7
  <2>14. CASE n.kind = "list"
    <3> DEFINE both == kids \o rest
               parts == Productions(kids) \o TailOf(rest)
    <3>1. Lowered[u] = Whole(both, Lower(Compound("seq", parts), DefsOf(both)))
          BY <2>14, LoweredIs
    <3>2. kids \in Seq(LowType(N)) /\ rest \in Seq(LowType(N))
          BY <2>7, <2>14
    <3>3. rest = <<>> \/ Len(rest) = 1
          BY DEF RestOf
    <3> HIDE DEF kids, rest, n
    <3>4. both \in Seq(LowType(N))
          BY <3>2
    <3>5. /\ Productions(kids) \in Seq(Nested[N].productions) /\ DefsOf(both) \in Seq(DefType)
          /\ Productions(rest) \in Seq(Nested[N].productions) /\ Len(Productions(rest)) = Len(rest)
      <4> HIDE DEF both
      <4> QED BY <2>1, <3>2, <3>4, LoweredTogether
    <3>6. Productions(kids) \in Seq(Nested[N + 1].productions)
          BY <2>20, <3>5
    <3>7. TailOf(rest) \in Seq(Nested[N + 1].productions)
      <4>1. rest # <<>> => Compound("repeat", Productions(rest)) \in Nested[N + 1].productions
            BY <2>4, <2>19, <3>3, <3>5 DEF Compound
      <4>2. rest # <<>> => TailOf(rest) = <<Compound("repeat", Productions(rest))>>
            BY DEF TailOf
      <4>3. rest # <<>> => TailOf(rest) \in Seq(Nested[N + 1].productions)
        <5> DEFINE rep == Compound("repeat", Productions(rest))
        <5> HIDE DEF rep
        <5>1. rest # <<>> => <<rep>> \in Seq(Nested[N + 1].productions)
              BY <4>1, Tuples DEF rep
        <5> QED BY <4>2, <5>1 DEF rep
      <4>4. rest = <<>> => TailOf(rest) = <<>>
            BY DEF TailOf
      <4>5. <<>> \in Seq(Nested[N + 1].productions)
            OBVIOUS
      <4> QED BY <4>3, <4>4, <4>5
    <3>8. parts \in Seq(Nested[N + 1].productions)
          BY <3>6, <3>7
    <3> HIDE DEF parts, both
    <3>9. Compound("seq", parts) \in Nested[N + 2].productions
          BY <2>4, <2>18, <3>8 DEF Compound
    <3>10. Compound("seq", parts).kind # "repeat"
          BY DEF Compound, Naming
    <3>11. Lower(Compound("seq", parts), DefsOf(both)) \in LowType(N + 2)
          BY <2>21, <3>5, <3>9, <3>10
    <3> QED BY <2>8, <3>1, <3>11
  <2>15. CASE n.kind = "fields"
    <3> DEFINE args == ArgumentsOf(n, kids)
    <3>1. Lowered[u] = Whole(kids, Lower(Naming("call", HeadOf(n), args), DefsOf(kids)))
          BY <2>15, LoweredIs
    <3>2. kids \in Seq(LowType(N)) /\ Len(kids) = Len(n.kids)
          BY <2>7, <2>15
    <3>3. DOMAIN n.keys = 1..Len(n.kids)
      <4>1. Len(n.keys) = Len(n.kids) /\ n.keys \in Seq(Symbol)
            BY <2>15, ShapeTyped DEF NodeOK
      <4> QED BY <4>1, LenProperties
    <3>4. HeadOf(n) \in Names
          BY <2>4 DEF HeadOf
    <3> HIDE DEF kids, n
    <3>5. /\ Len(kids) \in Nat /\ DOMAIN kids = 1..Len(kids) /\ DefsOf(kids) \in Seq(DefType)
          /\ \A i \in 1..Len(kids) : Productions(kids)[i] \in Nested[N].productions
      <4>1. /\ Productions(kids) \in Seq(Nested[N].productions)
            /\ Len(Productions(kids)) = Len(kids)
            /\ Len(kids) \in Nat /\ DOMAIN kids = 1..Len(kids) /\ DefsOf(kids) \in Seq(DefType)
            BY <2>1, <3>2, LoweredTogether
      <4> QED BY <4>1, ElementOfSeq
    <3>6. ASSUME NEW i \in 1..Len(kids)
          PROVE  /\ args[i] \in Nested[N + 1].productions
                 /\ Len(args[i].parts) = 2
      <4> DEFINE p == Productions(kids)[i]
                 key == Exactly(n.keys[i])
      <4>1. p \in Nested[N].productions
            BY <3>5
      <4>2. N # 0
            BY <4>1, NestedCases
      <4>3. n.keys[i] \in Names
            BY <2>4, <3>2, <3>3
      <4>4. key \in Nested[N].productions
        <5>1. key \in Nested[1].productions
              BY <2>3, <4>3 DEF Exactly
        <5>2. 1 <= N
              BY <2>1, <4>2
        <5> QED BY <2>1, <5>1, <5>2, LevelsGrow
      <4>5. args[i] = Compound("seq", <<key, p>>)
            BY <3>5 DEF ArgumentsOf
      <4> HIDE DEF p, key
      <4>6. <<key, p>> \in Seq(Nested[N].productions) /\ Len(<<key, p>>) = 2
            BY <4>1, <4>4, Tuples
      <4>7. Naming("seq", None, <<key, p>>) \in Nested[N + 1].productions
            BY <2>4, <2>19, <4>6
      <4>8. Naming("seq", None, <<key, p>>).parts = <<key, p>>
            BY DEF Naming
      <4> QED BY <4>5, <4>6, <4>7, <4>8 DEF Compound
    <3>7. args \in Seq(Nested[N + 1].productions) /\ DOMAIN args = 1..Len(kids)
      <4>1. DOMAIN args = 1..Len(kids) /\ args = [i \in 1..Len(kids) |-> args[i]]
            BY <3>5 DEF ArgumentsOf
      <4> HIDE DEF args
      <4>2. args \in [1..Len(kids) -> Nested[N + 1].productions]
            BY <3>6, <4>1
      <4> QED BY <3>5, <4>1, <4>2, MadeSeq
    <3> HIDE DEF args
    <3>8. Naming("call", HeadOf(n), args) \in Nested[N + 2].productions
          BY <2>18, <3>4, <3>6, <3>7
    <3>9. Naming("call", HeadOf(n), args).kind # "repeat"
          BY DEF Naming
    <3>10. Lower(Naming("call", HeadOf(n), args), DefsOf(kids)) \in LowType(N + 2)
          BY <2>21, <3>5, <3>8, <3>9
    <3> QED BY <2>8, <3>1, <3>10
  <2>16. CASE n.kind = "defs"
    <3> DEFINE names == [i \in DOMAIN bodies |-> n.defs[i].name]
               scopes == Scopes(kids[1], names, bodies)
    <3>1. Lowered[u] = Whole(kids \o bodies, Lower(Productions(kids)[1], scopes))
          BY <2>16, LoweredIs
    <3>2. /\ kids \in Seq(LowType(N)) /\ bodies \in Seq(LowType(N))
          /\ Len(kids) = 1 /\ Len(bodies) = Len(n.defs)
      <4>1. Len(n.kids) = 1
            BY <2>16, ShapeTyped DEF NodeOK
      <4> QED BY <2>7, <2>16, <4>1
    <3>3. \A i \in 1..Len(n.defs) : n.defs[i].name \in Symbol
          BY ShapeTyped
    <3> HIDE DEF kids, bodies, n
    <3>4. /\ Productions(kids)[1] = kids[1].production /\ kids[1] \in LowType(N)
          /\ DOMAIN bodies = 1..Len(bodies)
      <4>1. 1 \in 1..Len(kids)
            BY <3>2
      <4> QED BY <2>1, <3>2, <4>1, LoweredTogether
    <3>5. names \in [1..Len(bodies) -> Symbol]
          BY <3>2, <3>3, <3>4
    <3>6. scopes \in Seq(DefType)
      <4> HIDE DEF names
      <4> QED BY <2>1, <3>2, <3>4, <3>5, ScopesAre
    <3>7. kids[1].production \in Nested[N + 2].productions /\ kids[1].production.kind # "repeat"
      <4>1. kids[1].production \in Nested[N].productions /\ kids[1].production.kind # "repeat"
            BY <3>4 DEF LowType
      <4>2. Nested[N].productions \subseteq Nested[N + 2].productions
            BY <2>1, LevelsGrow
      <4> QED BY <4>1, <4>2
    <3> HIDE DEF scopes
    <3>8. Lower(Productions(kids)[1], scopes) \in LowType(N + 2)
          BY <2>21, <3>4, <3>6, <3>7
    <3> QED BY <2>8, <3>1, <3>8
  <2>17. CASE n.kind \notin {"any", "exprKind", "exact", "ref", "oneOf", "list", "fields", "defs"}
    <3>1. Lowered[u] = Unsupported
          BY <2>17, LoweredIs
    <3> QED BY <2>6, <3>1 DEF N
  <2> QED BY <2>9, <2>10, <2>11, <2>12, <2>13, <2>14, <2>15, <2>16, <2>17
<1> HIDE DEF Right
<1>2. Right(s)
  <2>1. SUFFICES ASSUME ~Right(s) PROVE FALSE
        OBVIOUS
  <2> DEFINE Lost == {h \in Nat : \E u \in Shape : Height[u] = h /\ ~Right(u)}
  <2>2. Height[s] \in Lost
        BY <2>1, ShapeTyped
  <2>3. PICK h \in Lost : \A k \in Lost : h <= k
        BY <2>2, FirstPlace
  <2>4. PICK u \in Shape : Height[u] = h /\ ~Right(u)
        BY <2>3
  <2>5. \A v \in Below(u) : Right(v)
    <3>1. \A v \in Below(u) : v \in Shape /\ Height[v] \in Nat /\ Height[v] < h
          BY <2>4, BelowTyped
    <3>2. \A k \in Nat : k < h => k \notin Lost
          BY <2>3
    <3> QED BY <3>1, <3>2
  <2> QED BY <1>1, <2>4, <2>5
<1>3. Lowered[s] \in LowType(2 * Height[s] + 2)
      BY <1>2 DEF Right
<1>4. 2 * Height[s] + 2 \in Nat /\ 2 * Height[s] + 2 <= Nesting /\ Nesting \in Nat
      BY ShapeTyped
<1>5. Nested[2 * Height[s] + 2].productions \subseteq Nested[Nesting].productions
      BY <1>4, LevelsGrow
<1>6. \A A, B : A \subseteq B => [ok: BOOLEAN, production: A, defs: Seq(DefType)]
                                 \subseteq [ok: BOOLEAN, production: B, defs: Seq(DefType)]
      OBVIOUS
<1> QED BY <1>3, <1>5, <1>6 DEF LowType

-----------------------------------------------------------------------------
(* What a graph describes.                                                 *)

Bound(s) ==
  IF Node[s].kind = "defs" THEN {Node[s].defs[i].name : i \in DOMAIN Node[s].defs} ELSE {}
Wider(s) ==
  \/ Node[s].kind = "exprKind" /\ Node[s].arg \in {"list", "vector"}
  \/ Node[s].kind = "fields" /\ Node[s].name = FieldsHead

(* What there is to know about a shape follows from the shapes below it.   *)
LEMMA AboutEquation ==
  \A s \in Shape :
    About[s] =
      [free   |-> (IF Node[s].kind = "ref" THEN {Node[s].name} ELSE {}) \cup
                  ((UNION {About[u].free : u \in Below(s)}) \ Bound(s)),
       wider  |-> \/ Node[s].kind = "exprKind" /\ Node[s].arg \in {"list", "vector"}
                  \/ Node[s].kind = "fields" /\ Node[s].name = FieldsHead
                  \/ \E u \in Below(s) : About[u].wider,
       closer |-> Node[s].kind = "fields" \/ \E u \in Below(s) : About[u].closer]
<1> DEFINE Body(f, s) ==
             [free   |-> (IF Node[s].kind = "ref" THEN {Node[s].name} ELSE {}) \cup
                         ((UNION {f[u].free : u \in Below(s)}) \ Bound(s)),
              wider  |-> \/ Node[s].kind = "exprKind" /\ Node[s].arg \in {"list", "vector"}
                         \/ Node[s].kind = "fields" /\ Node[s].name = FieldsHead
                         \/ \E u \in Below(s) : f[u].wider,
              closer |-> Node[s].kind = "fields" \/ \E u \in Below(s) : f[u].closer]
           Solves(f, n) == \A x \in Shape : Height[x] < n => f[x] = Body(f, x)
           Next_(f) == [x \in Shape |-> Body(f, x)]
<1>1. ASSUME NEW f, NEW g, NEW x \in Shape,
             \A y \in Shape : Height[y] < Height[x] => f[y] = g[y]
      PROVE  Body(f, x) = Body(g, x)
  <2>1. \A u \in Below(x) : f[u] = g[u]
        BY <1>1, BelowTyped
  <2>2. {f[u].free : u \in Below(x)} = {g[u].free : u \in Below(x)}
        BY <2>1
  <2>3. (\E u \in Below(x) : f[u].wider) <=> (\E u \in Below(x) : g[u].wider)
        BY <2>1
  <2>4. (\E u \in Below(x) : f[u].closer) <=> (\E u \in Below(x) : g[u].closer)
        BY <2>1
  <2> QED BY <2>2, <2>3, <2>4
<1> HIDE DEF Body
<1>2. \A x \in Shape : Height[x] \in Nat
      BY ShapeTyped
<1>3. \A n \in Nat : \E f : Solves(f, n)
  <2> DEFINE Lost == {n \in Nat : ~\E f : Solves(f, n)}
  <2>1. SUFFICES ASSUME NEW n \in Lost, \A m \in Lost : n <= m
                 PROVE  FALSE
    <3> HIDE DEF Solves
    <3> QED BY FirstPlace
  <2>2. CASE n = 0
    <3>1. \A f : Solves(f, 0)
          BY <1>2
    <3> HIDE DEF Solves
    <3> QED BY <2>1, <2>2, <3>1
  <2>3. CASE n > 0
    <3>1. PICK f : Solves(f, n - 1)
      <4> HIDE DEF Solves
      <4>1. n - 1 \in Nat /\ n - 1 \notin Lost
            BY <2>1, <2>3
      <4> QED BY <4>1
    <3>2. ASSUME NEW x \in Shape, Height[x] < n
          PROVE  Next_(f)[x] = Body(Next_(f), x)
      <4>1. \A y \in Shape : Height[y] < Height[x] => Next_(f)[y] = f[y]
            BY <1>2, <3>1, <3>2
      <4>2. Body(Next_(f), x) = Body(f, x)
            BY <1>1, <4>1
      <4> QED BY <4>2
    <3>3. Solves(Next_(f), n)
          BY <3>2
    <3> HIDE DEF Solves
    <3> QED BY <2>1, <3>3
  <2> QED BY <2>1, <2>2, <2>3
<1>4. ASSUME NEW m \in Nat, NEW n \in Nat, NEW f, NEW g, Solves(f, m), Solves(g, n),
             NEW x \in Shape, Height[x] < m, Height[x] < n
      PROVE  f[x] = g[x]
  <2>1. SUFFICES ASSUME f[x] # g[x] PROVE FALSE
        OBVIOUS
  <2> DEFINE T == {k \in Nat : \E y \in Shape : Height[y] = k /\ k < m /\ k < n /\ f[y] # g[y]}
  <2>2. Height[x] \in T
        BY <1>2, <1>4, <2>1
  <2>3. PICK k \in T : \A j \in T : k <= j
        BY <2>2, FirstPlace
  <2>4. PICK y \in Shape : Height[y] = k /\ k < m /\ k < n /\ f[y] # g[y]
        BY <2>3
  <2>5. \A z \in Shape : Height[z] < Height[y] => f[z] = g[z]
        BY <1>2, <2>3, <2>4
  <2>6. Body(f, y) = Body(g, y)
        BY <1>1, <2>5
  <2> QED BY <1>4, <2>4, <2>6
<1> DEFINE At(n) == CHOOSE f : Solves(f, n)
           F == [x \in Shape |-> At(Height[x] + 1)[x]]
<1>5. \A n \in Nat : Solves(At(n), n)
  <2> HIDE DEF Solves
  <2> QED BY <1>3
<1> HIDE DEF At
<1>6. ASSUME NEW x \in Shape PROVE F[x] = Body(F, x)
  <2> DEFINE f == At(Height[x] + 1)
  <2>1. Height[x] + 1 \in Nat /\ Height[x] < Height[x] + 1
        BY <1>2
  <2>2. Solves(f, Height[x] + 1)
    <3> HIDE DEF Solves
    <3> QED BY <1>5, <2>1
  <2>3. ASSUME NEW y \in Shape, Height[y] < Height[x] PROVE F[y] = f[y]
    <3>1. Height[y] + 1 \in Nat /\ Height[y] < Height[y] + 1 /\ Height[y] < Height[x] + 1
          BY <1>2, <2>3
    <3>2. Solves(At(Height[y] + 1), Height[y] + 1)
          BY <1>5, <3>1
    <3> HIDE DEF Solves
    <3>3. At(Height[y] + 1)[y] = f[y]
          BY <1>4, <2>1, <2>2, <3>1, <3>2
    <3> QED BY <3>3
  <2>4. F[x] = f[x]
        OBVIOUS
  <2>5. f[x] = Body(f, x)
        BY <2>1, <2>2
  <2> HIDE DEF F, f
  <2>6. Body(F, x) = Body(f, x)
        BY <1>1, <2>3
  <2> QED BY <2>4, <2>5, <2>6
<1>7. F = [x \in Shape |-> Body(F, x)]
  <2>1. F = [x \in Shape |-> F[x]]
        OBVIOUS
  <2> HIDE DEF F
  <2> QED BY <1>6, <2>1
<1>8. \E f : f = [x \in Shape |-> Body(f, x)]
      BY <1>7
<1>9. About = [x \in Shape |-> Body(About, x)]
      BY <1>8 DEF About, Body, Bound
<1>10. \A x \in Shape : About[x] = Body(About, x)
       BY <1>9
<1> QED BY <1>10 DEF Body, Bound

(* What a shape is not known to be free of, none below it is.              *)
LEMMA AboutIs ==
  ASSUME NEW s \in Shape
  PROVE  /\ Node[s].kind = "ref" => Node[s].name \in About[s].free
         /\ \A u \in Below(s) : About[u].free \subseteq About[s].free \cup Bound(s)
         /\ ~About[s].wider => ~Wider(s) /\ \A u \in Below(s) : ~About[u].wider
         /\ ~About[s].closer => Node[s].kind # "fields" /\ \A u \in Below(s) : ~About[u].closer
<1> DEFINE free == (IF Node[s].kind = "ref" THEN {Node[s].name} ELSE {}) \cup
                   ((UNION {About[u].free : u \in Below(s)}) \ Bound(s))
           wider == \/ Node[s].kind = "exprKind" /\ Node[s].arg \in {"list", "vector"}
                    \/ Node[s].kind = "fields" /\ Node[s].name = FieldsHead
                    \/ \E u \in Below(s) : About[u].wider
           closer == Node[s].kind = "fields" \/ \E u \in Below(s) : About[u].closer
<1>1. About[s] = [free |-> free, wider |-> wider, closer |-> closer]
      BY AboutEquation
<1> HIDE DEF free, wider, closer
<1>2. About[s].free = free /\ About[s].wider = wider /\ About[s].closer = closer
      BY <1>1
<1>3. /\ Node[s].kind = "ref" => Node[s].name \in About[s].free
      /\ \A u \in Below(s) : About[u].free \subseteq About[s].free \cup Bound(s)
  <2>1. Node[s].kind = "ref" => Node[s].name \in free
        BY Zenon DEF free
  <2> DEFINE inside == UNION {About[u].free : u \in Below(s)}
  <2>3. free = (IF Node[s].kind = "ref" THEN {Node[s].name} ELSE {}) \cup (inside \ Bound(s))
        BY Zenon DEF free
  <2>2. ASSUME NEW v \in Below(s), NEW x \in About[v].free, x \notin Bound(s)
        PROVE  x \in free
    <3>1. x \in inside
          BY <2>2, Zenon
    <3> HIDE DEF inside
    <3> QED BY <2>2, <2>3, <3>1
  <2> QED BY <1>2, <2>1, <2>2
<1>4. ~About[s].wider => ~Wider(s) /\ \A u \in Below(s) : ~About[u].wider
      BY <1>2, Zenon DEF wider, Wider
<1>5. ~About[s].closer => Node[s].kind # "fields" /\ \A u \in Below(s) : ~About[u].closer
      BY <1>2, Zenon DEF closer
<1> QED BY <1>3, <1>4, <1>5

(* A claim rests on claims of fewer levels, or of less fuel.               *)
Rank(q)  == q.fuel * (Nesting + 1) + Level(q.of)

(* The parts of a claim, and its rank.                                     *)
LEMMA RankTyped ==
  ASSUME NEW q \in Claims(Production)
  PROVE  /\ Rank(q) \in Nat /\ q.of \in Production /\ q.expr \in Expr /\ q.fuel \in Nat
         /\ Level(q.of) \in Nat /\ Level(q.of) <= Nesting
         /\ q.of \in Nested[Level(q.of)].productions
<1> USE GrammarAssumption
<1>1. q.of \in Production /\ q.expr \in Expr /\ q.fuel \in Nat
      BY DEF Claims
<1>2. /\ Level(q.of) \in Nat /\ Level(q.of) <= Nesting
      /\ q.of \in Nested[Level(q.of)].productions
      BY <1>1, LevelTyped DEF Production
<1>3. q.fuel * (Nesting + 1) \in Nat
      BY <1>1
<1> QED BY <1>1, <1>2, <1>3 DEF Rank

(* A claim about fewer levels, or with less fuel, ranks lower.             *)
LEMMA ClaimRanks ==
  ASSUME NEW q \in Claims(Production), NEW p \in Production, NEW e \in Expr
  PROVE  /\ Level(p) < Level(q.of) =>
              /\ Claim(p, e, q.fuel) \in Claims(Production)
              /\ Rank(Claim(p, e, q.fuel)) < Rank(q)
         /\ q.fuel > 0 =>
              /\ Claim(p, e, q.fuel - 1) \in Claims(Production)
              /\ Rank(Claim(p, e, q.fuel - 1)) < Rank(q)
<1> USE GrammarAssumption
<1>1. q.fuel \in Nat /\ Level(q.of) \in Nat /\ Level(p) \in Nat /\ Level(p) <= Nesting
      BY RankTyped, LevelTyped DEF Production
<1>2. Claim(p, e, q.fuel) \in Claims(Production)
      BY <1>1 DEF Claim, Claims
<1>3. q.fuel > 0 => Claim(p, e, q.fuel - 1) \in Claims(Production)
      BY <1>1 DEF Claim, Claims
<1>4. \A f : Rank(Claim(p, e, f)) = f * (Nesting + 1) + Level(p)
      BY DEF Rank, Claim
<1>5. ASSUME Level(p) < Level(q.of)
      PROVE  Rank(Claim(p, e, q.fuel)) < Rank(q)
  <2>1. q.fuel * (Nesting + 1) \in Nat
        BY <1>1
  <2>2. Rank(q) = q.fuel * (Nesting + 1) + Level(q.of)
        BY DEF Rank
  <2> QED BY <1>1, <1>4, <1>5, <2>1, <2>2
<1>6. ASSUME q.fuel > 0
      PROVE  Rank(Claim(p, e, q.fuel - 1)) < Rank(q)
  <2>1. PICK k \in Nat : q.fuel = k + 1
    <3>1. q.fuel - 1 \in Nat /\ q.fuel = (q.fuel - 1) + 1
          BY <1>1, <1>6
    <3> QED BY <3>1
  <2>2. q.fuel - 1 = k /\ k * (Nesting + 1) \in Nat
        BY <2>1
  <2>3. (k + 1) * (Nesting + 1) = k * (Nesting + 1) + (Nesting + 1)
        BY <2>1
  <2>4. Rank(q) = k * (Nesting + 1) + (Nesting + 1) + Level(q.of)
        BY <2>1, <2>3 DEF Rank
  <2>5. Rank(Claim(p, e, q.fuel - 1)) = k * (Nesting + 1) + Level(p)
        BY <1>4, <2>2
  <2> QED BY <1>1, <2>2, <2>4, <2>5
<1> QED BY <1>2, <1>3, <1>5, <1>6

(* The productions a production is made of have fewer levels.              *)
LEMMA LevelFalls ==
  ASSUME NEW p \in Production
  PROVE  /\ p.parts \in Seq(Production) /\ DOMAIN Values(p) = DOMAIN p.parts
         /\ DOMAIN p.parts = 1..Len(p.parts) /\ Len(p.parts) \in Nat
         /\ \A i \in DOMAIN p.parts : Values(p)[i] \in Production /\ Level(Values(p)[i]) < Level(p)
         /\ \A i \in DOMAIN p.parts : p.parts[i] \in Production /\ Level(p.parts[i]) < Level(p)
         /\ \A i \in DOMAIN p.parts : p.parts[i].kind = "repeat" =>
              p.parts[i].parts[1] \in Production /\ Level(p.parts[i].parts[1]) < Level(p)
<1> USE GrammarAssumption
<1> DEFINE n == Level(p)
           below == Nested[n - 1].productions
<1>1. n \in Nat /\ n <= Nesting /\ p \in Nested[n].productions
      BY LevelTyped DEF Production
<1>2. n - 1 \in Nat
      BY <1>1, PartsLower
<1>3. \A x \in below : x \in Production /\ Level(x) < n
  <2>1. n - 1 <= Nesting /\ Nesting \in Nat
        BY <1>1, <1>2
  <2>2. below \subseteq Production
        BY <1>2, <2>1, LevelsGrow DEF Production
  <2>3. \A x \in below : Level(x) \in Nat /\ Level(x) <= n - 1
        BY <1>2, LevelTyped
  <2> QED BY <1>1, <1>2, <2>2, <2>3
<1>4. /\ DOMAIN Values(p) = DOMAIN p.parts /\ p.parts \in Seq(below)
      /\ DOMAIN p.parts = 1..Len(p.parts) /\ Len(p.parts) \in Nat
      /\ \A i \in DOMAIN p.parts : p.parts[i] \in below /\ Values(p)[i] \in below
      /\ \A i \in DOMAIN p.parts : p.parts[i].kind = "repeat" => p.parts[i].parts[1] \in below
      BY <1>1, PartsLower
<1> HIDE DEF below
<1>5. p.parts \in Seq(Production)
      BY <1>3, <1>4
<1> QED BY <1>3, <1>4, <1>5

(* What a production that ends in a tail is.                               *)
LEMMA TailedIs ==
  ASSUME NEW p \in Production, Tailed(p)
  PROVE  LET n == Len(p.parts) IN
         /\ n \in Nat /\ n >= 1 /\ n \in DOMAIN p.parts /\ n - 1 \in Nat
         /\ Last(p.parts) = p.parts[n] /\ p.parts[n].kind = "repeat"
         /\ Last(p.parts).parts[1] \in Production /\ Level(Last(p.parts).parts[1]) < Level(p)
<1> DEFINE n == Len(p.parts)
<1>1. p.parts \in Seq(Production) /\ DOMAIN p.parts = 1..n /\ n \in Nat
      BY LevelFalls
<1>2. p.parts # <<>> /\ Last(p.parts).kind = "repeat"
      BY DEF Tailed
<1>3. n # 0
      BY <1>1, <1>2, EmptySeq
<1>4. Last(p.parts) = p.parts[n]
      BY DEF Last
<1>5. n >= 1 /\ n \in DOMAIN p.parts /\ n - 1 \in Nat
      BY <1>1, <1>3
<1> QED BY <1>1, <1>2, <1>4, <1>5, LevelFalls

(* The first definition of a name in a graph is a production.              *)
LEMMA FoundTyped ==
  ASSUME NEW defs \in Seq(DefType), NEW name, Found(defs, name) # {}
  PROVE  /\ TheDef(defs, name) \in Production
         /\ \E i \in DOMAIN defs : defs[i].name = name /\ TheDef(defs, name) = defs[i].production
<1>1. PICK i \in Found(defs, name) : TheDef(defs, name) = defs[i].production
      BY DEF TheDef
<1>2. i \in DOMAIN defs /\ defs[i].name = name
      BY <1>1 DEF Found
<1>3. defs[i] \in DefType
      BY <1>2, LenProperties, ElementOfSeq
<1> QED BY <1>1, <1>2, <1>3 DEF DefType

(* The terms of the graph.                                                 *)
LEMMA TermTyped ==
  ASSUME NEW e \in Expr
  PROVE  LET t == Term[e] IN
         /\ t.items \in Seq(Expr) /\ Len(t.items) \in Nat /\ DOMAIN t.items = 1..Len(t.items)
         /\ \A i \in 1..Len(t.items) : t.items[i] \in Expr
         /\ t.keys \in Seq(Symbol \cup {None}) /\ Len(t.keys) \in Nat
         /\ DOMAIN t.keys = 1..Len(t.keys)
         /\ t.form = "map" => Len(t.keys) = Len(t.items)
<1> DEFINE t == Term[e]
<1>1. t \in TermType /\ TermOK(t)
      BY GraphAssumption DEF GraphAssumption, GraphOK
<1>2. t.items \in Seq(Expr) /\ t.keys \in Seq(Symbol \cup {None})
      BY <1>1 DEF TermType
<1>3. t.form = "map" => Len(t.keys) = Len(t.items)
      BY <1>1 DEF TermOK
<1> HIDE DEF t
<1>4. /\ Len(t.items) \in Nat /\ DOMAIN t.items = 1..Len(t.items)
      /\ \A i \in 1..Len(t.items) : t.items[i] \in Expr
      /\ Len(t.keys) \in Nat /\ DOMAIN t.keys = 1..Len(t.keys)
      BY <1>2, LenProperties, ElementOfSeq
<1> QED BY <1>2, <1>3, <1>4 DEF t

(* Whether a claim holds, by the kind of its production.                   *)
AllOf(p, t, n, known, q) ==
  \A i \in 1..Len(t.items) :
    IF i <= n THEN known[Claim(Values(p)[i], t.items[i], q.fuel)]
    ELSE known[Claim(Last(p.parts).parts[1], t.items[i], q.fuel)]
FieldsOf(p, t, known, q) ==
  /\ t.form = "map" /\ NoDuplicates(t.keys)
  /\ {t.keys[k] : k \in DOMAIN t.keys} = {FieldNames(p)[i] : i \in DOMAIN FieldNames(p)}
  /\ \A i \in DOMAIN FieldNames(p), k \in DOMAIN t.keys :
       t.keys[k] = FieldNames(p)[i] => known[Claim(Values(p)[i], t.items[k], q.fuel)]

(* What a claim comes to, by the kind of its production.                   *)
LEMMA AdmittedCases ==
  ASSUME NEW defs, NEW q, NEW known
  PROVE  LET p == q.of  t == Term[q.expr]  n == Len(p.parts)
             ok == Admitted(defs, q, known) IN
         /\ p.kind = "terminal" /\ p.of = "any" => ok
         /\ p.kind = "terminal" /\ p.of = "exact" => ok = (p.name = q.expr)
         /\ p.kind = "terminal" /\ p.of = "list" => ok = (t.form \in {"list", "vector"})
         /\ p.kind = "terminal" /\ p.of \notin {"any", "exact", "list"} => ok = (t.form = p.of)
         /\ p.kind = "alt" =>
              ok = \E i \in 1..n : known[Claim(Values(p)[i], q.expr, q.fuel)]
         /\ p.kind = "ref" =>
              ok = /\ q.fuel > 0 /\ Found(defs, p.name) # {}
                   /\ known[Claim(TheDef(defs, p.name), q.expr, q.fuel - 1)]
         /\ p.kind = "seq" /\ Tailed(p) =>
              ok = (t.form = "list" /\ Len(t.items) >= n - 1 /\ AllOf(p, t, n - 1, known, q))
         /\ p.kind = "seq" /\ ~Tailed(p) =>
              ok = /\ t.form = "list" /\ Len(t.items) >= n
                   /\ Len(t.items) = n /\ AllOf(p, t, n, known, q)
         /\ p.kind = "call" => ok = (p.name = FieldsHead /\ FieldsOf(p, t, known, q))
         /\ p.kind \notin {"terminal", "alt", "ref", "seq", "call"} => ~ok
<1> DEFINE p == q.of
           t == Term[q.expr]
           n == Len(p.parts)
           ok == Admitted(defs, q, known)
<1>1. /\ p.kind = "terminal" /\ p.of = "any" => ok
      /\ p.kind = "terminal" /\ p.of = "exact" => ok = (p.name = q.expr)
      /\ p.kind = "terminal" /\ p.of = "list" => ok = (t.form \in {"list", "vector"})
      /\ p.kind = "terminal" /\ p.of \notin {"any", "exact", "list"} => ok = (t.form = p.of)
      BY DEF Admitted
<1>2. p.kind = "alt" => ok = \E i \in 1..n : known[Claim(Values(p)[i], q.expr, q.fuel)]
      BY Zenon DEF Admitted
<1>3. p.kind = "ref" =>
        ok = /\ q.fuel > 0 /\ Found(defs, p.name) # {}
             /\ known[Claim(TheDef(defs, p.name), q.expr, q.fuel - 1)]
      BY Zenon DEF Admitted
<1>4. p.kind = "seq" /\ Tailed(p) =>
        ok = (t.form = "list" /\ Len(t.items) >= n - 1 /\ AllOf(p, t, n - 1, known, q))
      BY Zenon DEF Admitted, AllOf
<1>5. p.kind = "seq" /\ ~Tailed(p) =>
        ok = /\ t.form = "list" /\ Len(t.items) >= n
             /\ Len(t.items) = n /\ AllOf(p, t, n, known, q)
      BY Zenon DEF Admitted, AllOf
<1>6. p.kind = "call" => ok = (p.name = FieldsHead /\ FieldsOf(p, t, known, q))
      BY Zenon DEF Admitted, FieldsOf, IsMapOf
<1>7. p.kind \notin {"terminal", "alt", "ref", "seq", "call"} => ~ok
      BY Zenon DEF Admitted
<1> QED BY <1>1, <1>2, <1>3, <1>4, <1>5, <1>6, <1>7

(* A graph admits what its productions make of the claims they rest on.    *)
LEMMA AdmitsEquation ==
  ASSUME NEW defs \in Seq(DefType)
  PROVE  \A q \in Claims(Production) : Admits(defs)[q] = Admitted(defs, q, Admits(defs))
<1> DEFINE Body(f, q) == Admitted(defs, q, f)
           Solves(f, n) == \A x \in Claims(Production) : Rank(x) < n => f[x] = Body(f, x)
           Next_(f) == [x \in Claims(Production) |-> Body(f, x)]
<1>1. ASSUME NEW f, NEW g, NEW x \in Claims(Production),
             \A y \in Claims(Production) : Rank(y) < Rank(x) => f[y] = g[y]
      PROVE  Body(f, x) = Body(g, x)
  <2> DEFINE p == x.of
             t == Term[x.expr]
             n == Len(p.parts)
  <2>1. /\ p \in Production /\ x.expr \in Expr /\ x.fuel \in Nat /\ n \in Nat
        /\ DOMAIN p.parts = 1..n /\ Len(t.items) \in Nat
        /\ \A i \in 1..Len(t.items) : t.items[i] \in Expr
        BY RankTyped, LevelFalls, TermTyped
  <2>2. \A i \in 1..n, e \in Expr :
          f[Claim(Values(p)[i], e, x.fuel)] = g[Claim(Values(p)[i], e, x.fuel)]
    <3>1. \A i \in 1..n : Values(p)[i] \in Production /\ Level(Values(p)[i]) < Level(p)
          BY <2>1, LevelFalls
    <3> HIDE DEF n
    <3> QED BY <1>1, <3>1, ClaimRanks
  <2>3. Tailed(p) => \A e \in Expr :
          f[Claim(Last(p.parts).parts[1], e, x.fuel)] = g[Claim(Last(p.parts).parts[1], e, x.fuel)]
    <3>1. Tailed(p) => /\ Last(p.parts).parts[1] \in Production
                       /\ Level(Last(p.parts).parts[1]) < Level(p)
          BY <2>1, TailedIs
    <3> QED BY <1>1, <3>1, ClaimRanks
  <2>4. x.fuel > 0 /\ Found(defs, p.name) # {} =>
          f[Claim(TheDef(defs, p.name), x.expr, x.fuel - 1)] =
          g[Claim(TheDef(defs, p.name), x.expr, x.fuel - 1)]
    <3>1. Found(defs, p.name) # {} => TheDef(defs, p.name) \in Production
          BY FoundTyped
    <3> QED BY <1>1, <2>1, <3>1, ClaimRanks
  <2>5. Tailed(p) => AllOf(p, t, n - 1, f, x) = AllOf(p, t, n - 1, g, x)
    <3>1. Tailed(p) => n - 1 \in Nat
          BY <2>1, TailedIs
    <3>2. \A i \in 1..Len(t.items) : Tailed(p) /\ i <= n - 1 => i \in 1..n
          BY <2>1, <3>1
    <3> HIDE DEF n, t
    <3> QED BY <2>1, <2>2, <2>3, <3>2 DEF AllOf
  <2>6. Len(t.items) = n => AllOf(p, t, n, f, x) = AllOf(p, t, n, g, x)
    <3>1. Len(t.items) = n => \A i \in 1..Len(t.items) : i <= n /\ i \in 1..n
          BY <2>1
    <3> HIDE DEF n, t
    <3> QED BY <2>1, <2>2, <3>1 DEF AllOf
  <2>7. p.kind = "call" => FieldsOf(p, t, f, x) = FieldsOf(p, t, g, x)
    <3>1. DOMAIN FieldNames(p) = 1..n
          BY <2>1 DEF FieldNames
    <3>2. t.form = "map" => \A k \in DOMAIN t.keys : t.items[k] \in Expr
      <4>1. DOMAIN t.keys = 1..Len(t.keys) /\ (t.form = "map" => Len(t.keys) = Len(t.items))
            BY <2>1, TermTyped
      <4> HIDE DEF t
      <4> QED BY <2>1, <4>1
    <3> HIDE DEF n, t
    <3> QED BY <2>2, <3>1, <3>2 DEF FieldsOf
  <2> HIDE DEF p, t, n
  <2>8. CASE p.kind = "terminal"
    <3>1. ASSUME NEW h
          PROVE  Body(h, x) =
                   CASE p.of = "any" -> TRUE [] p.of = "exact" -> p.name = x.expr
                     [] p.of = "list" -> t.form \in {"list", "vector"} [] OTHER -> t.form = p.of
          BY <2>8, Zenon DEF Admitted, p, t
    <3> HIDE DEF Body
    <3> QED BY <3>1
  <2>9. CASE p.kind = "alt"
    <3>1. (\E i \in 1..n : f[Claim(Values(p)[i], x.expr, x.fuel)]) =
          (\E i \in 1..n : g[Claim(Values(p)[i], x.expr, x.fuel)])
          BY <2>1, <2>2
    <3>2. ASSUME NEW h
          PROVE  Body(h, x) = \E i \in 1..n : h[Claim(Values(p)[i], x.expr, x.fuel)]
          BY <2>9, Zenon DEF Admitted, p, n
    <3> HIDE DEF Body
    <3> QED BY <3>1, <3>2
  <2>10. CASE p.kind = "ref"
    <3>1. ASSUME NEW h
          PROVE  Body(h, x) = /\ x.fuel > 0 /\ Found(defs, p.name) # {}
                              /\ h[Claim(TheDef(defs, p.name), x.expr, x.fuel - 1)]
          BY <2>10, Zenon DEF Admitted, p
    <3> HIDE DEF Body
    <3> QED BY <2>4, <3>1
  <2>11. CASE p.kind = "seq" /\ Tailed(p)
    <3>1. ASSUME NEW h
          PROVE  Body(h, x) =
                   (t.form = "list" /\ Len(t.items) >= n - 1 /\ AllOf(p, t, n - 1, h, x))
          BY <2>11, Zenon DEF Admitted, AllOf, p, t, n
    <3> HIDE DEF Body
    <3> QED BY <2>5, <2>11, <3>1
  <2>12. CASE p.kind = "seq" /\ ~Tailed(p)
    <3>1. ASSUME NEW h
          PROVE  Body(h, x) = /\ t.form = "list" /\ Len(t.items) >= n
                              /\ Len(t.items) = n /\ AllOf(p, t, n, h, x)
          BY <2>12, Zenon DEF Admitted, AllOf, p, t, n
    <3> HIDE DEF Body
    <3> QED BY <2>6, <3>1
  <2>13. CASE p.kind = "call"
    <3>1. ASSUME NEW h
          PROVE  Body(h, x) = (p.name = FieldsHead /\ FieldsOf(p, t, h, x))
          BY <2>13, Zenon DEF Admitted, FieldsOf, IsMapOf, p, t
    <3> HIDE DEF Body
    <3> QED BY <2>7, <2>13, <3>1
  <2>14. CASE p.kind \notin {"terminal", "alt", "ref", "seq", "call"}
    <3>1. ASSUME NEW h
          PROVE  Body(h, x) = FALSE
      <4>1. Body(h, x) \in BOOLEAN
            BY <2>14, Zenon DEF Admitted, p
      <4>2. ~Body(h, x)
            BY <2>14, AdmittedCases DEF p
      <4> HIDE DEF Body
      <4> QED BY <4>1, <4>2
    <3> HIDE DEF Body
    <3> QED BY <3>1
  <2> QED BY <2>8, <2>9, <2>10, <2>11, <2>12, <2>13, <2>14
<1> HIDE DEF Body
<1>2. \A x \in Claims(Production) : Rank(x) \in Nat
      BY RankTyped
<1>3. \A n \in Nat : \E f : Solves(f, n)
  <2> DEFINE Lost == {n \in Nat : ~\E f : Solves(f, n)}
  <2>1. SUFFICES ASSUME NEW n \in Lost, \A m \in Lost : n <= m
                 PROVE  FALSE
    <3> HIDE DEF Solves
    <3> QED BY FirstPlace
  <2>2. CASE n = 0
    <3>1. \A f : Solves(f, 0)
          BY <1>2
    <3> HIDE DEF Solves
    <3> QED BY <2>1, <2>2, <3>1
  <2>3. CASE n > 0
    <3>1. PICK f : Solves(f, n - 1)
      <4> HIDE DEF Solves
      <4>1. n - 1 \in Nat /\ n - 1 \notin Lost
            BY <2>1, <2>3
      <4> QED BY <4>1
    <3>2. ASSUME NEW x \in Claims(Production), Rank(x) < n
          PROVE  Next_(f)[x] = Body(Next_(f), x)
      <4>1. \A y \in Claims(Production) : Rank(y) < Rank(x) => Next_(f)[y] = f[y]
            BY <1>2, <3>1, <3>2
      <4>2. Body(Next_(f), x) = Body(f, x)
            BY <1>1, <4>1
      <4> QED BY <4>2
    <3>3. Solves(Next_(f), n)
          BY <3>2
    <3> HIDE DEF Solves
    <3> QED BY <2>1, <3>3
  <2> QED BY <2>1, <2>2, <2>3
<1>4. ASSUME NEW m \in Nat, NEW n \in Nat, NEW f, NEW g, Solves(f, m), Solves(g, n),
             NEW x \in Claims(Production), Rank(x) < m, Rank(x) < n
      PROVE  f[x] = g[x]
  <2>1. SUFFICES ASSUME f[x] # g[x] PROVE FALSE
        OBVIOUS
  <2> DEFINE T == {k \in Nat : \E y \in Claims(Production) :
                           Rank(y) = k /\ k < m /\ k < n /\ f[y] # g[y]}
  <2>2. Rank(x) \in T
        BY <1>2, <1>4, <2>1
  <2>3. PICK k \in T : \A j \in T : k <= j
        BY <2>2, FirstPlace
  <2>4. PICK y \in Claims(Production) : Rank(y) = k /\ k < m /\ k < n /\ f[y] # g[y]
        BY <2>3
  <2>5. \A z \in Claims(Production) : Rank(z) < Rank(y) => f[z] = g[z]
        BY <1>2, <2>3, <2>4
  <2>6. Body(f, y) = Body(g, y)
        BY <1>1, <2>5
  <2> QED BY <1>4, <2>4, <2>6
<1> DEFINE At(n) == CHOOSE f : Solves(f, n)
           F == [x \in Claims(Production) |-> At(Rank(x) + 1)[x]]
<1>5. \A n \in Nat : Solves(At(n), n)
  <2> HIDE DEF Solves
  <2> QED BY <1>3
<1> HIDE DEF At
<1>6. ASSUME NEW x \in Claims(Production) PROVE F[x] = Body(F, x)
  <2> DEFINE f == At(Rank(x) + 1)
  <2>1. Rank(x) + 1 \in Nat /\ Rank(x) < Rank(x) + 1
        BY <1>2
  <2>2. Solves(f, Rank(x) + 1)
    <3> HIDE DEF Solves
    <3> QED BY <1>5, <2>1
  <2>3. ASSUME NEW y \in Claims(Production), Rank(y) < Rank(x) PROVE F[y] = f[y]
    <3>1. Rank(y) + 1 \in Nat /\ Rank(y) < Rank(y) + 1 /\ Rank(y) < Rank(x) + 1
          BY <1>2, <2>3
    <3>2. Solves(At(Rank(y) + 1), Rank(y) + 1)
          BY <1>5, <3>1
    <3> HIDE DEF Solves
    <3>3. At(Rank(y) + 1)[y] = f[y]
          BY <1>4, <2>1, <2>2, <3>1, <3>2
    <3> QED BY <3>3
  <2>4. F[x] = f[x]
        OBVIOUS
  <2>5. f[x] = Body(f, x)
        BY <2>1, <2>2
  <2> HIDE DEF F, f
  <2>6. Body(F, x) = Body(f, x)
        BY <1>1, <2>3
  <2> QED BY <2>4, <2>5, <2>6
<1>7. F = [x \in Claims(Production) |-> Body(F, x)]
  <2>1. F = [x \in Claims(Production) |-> F[x]]
        OBVIOUS
  <2> HIDE DEF F
  <2> QED BY <1>6, <2>1
<1>8. \E f : f = [x \in Claims(Production) |-> Body(f, x)]
      BY <1>7
<1> DEFINE admits == CHOOSE h : h = [q \in Claims(Production) |-> Body(h, q)]
<1>9. admits = [x \in Claims(Production) |-> Body(admits, x)]
      BY <1>8
<1>10. Admits(defs) = admits
       BY DEF Admits, Body
<1> HIDE DEF admits
<1>11. \A q \in Claims(Production) : admits[q] = Body(admits, q)
       BY <1>9
<1> QED BY <1>10, <1>11 DEF Body

-----------------------------------------------------------------------------
(* What each kind of production admits, in terms of its parts.             *)
LEMMA ClaimIs ==
  ASSUME NEW defs \in Seq(DefType), NEW p \in Production, NEW e \in Expr, NEW fuel \in Nat
  PROVE  LET q == Claim(p, e, fuel) IN
         /\ q.of = p /\ q.expr = e /\ q.fuel = fuel /\ q \in Claims(Production)
         /\ Admits(defs)[q] = Admitted(defs, q, Admits(defs))
<1> DEFINE q == Claim(p, e, fuel)
<1>1. q.of = p /\ q.expr = e /\ q.fuel = fuel /\ q \in Claims(Production)
      BY DEF Claim, Claims
<1> HIDE DEF q
<1>2. Admits(defs)[q] = Admitted(defs, q, Admits(defs))
      BY <1>1, AdmitsEquation
<1> QED BY <1>1, <1>2 DEF q

(* A terminal admits the terms of its atom.                                *)
LEMMA TerminalAdmits ==
  ASSUME NEW defs \in Seq(DefType), NEW p \in Production, NEW e \in Expr, NEW fuel \in Nat,
         p.kind = "terminal"
  PROVE  LET ok == Admits(defs)[Claim(p, e, fuel)]  form == Term[e].form IN
         /\ p.of = "any" => ok
         /\ p.of = "exact" => ok = (p.name = e)
         /\ p.of = "list" => ok = (form \in {"list", "vector"})
         /\ p.of \notin {"any", "exact", "list"} => ok = (form = p.of)
<1> DEFINE q == Claim(p, e, fuel)
           known == Admits(defs)
<1>1. q.of = p /\ q.expr = e /\ known[q] = Admitted(defs, q, known)
      BY ClaimIs
<1> HIDE DEF q, known
<1>2. q.of.kind = "terminal"
      BY <1>1
<1>3. Admitted(defs, q, known) =
        CASE q.of.of = "any" -> TRUE [] q.of.of = "exact" -> q.of.name = q.expr
          [] q.of.of = "list" -> Term[q.expr].form \in {"list", "vector"}
          [] OTHER -> Term[q.expr].form = q.of.of
      BY <1>2, Zenon DEF Admitted
<1>4. known[q] =
        CASE p.of = "any" -> TRUE [] p.of = "exact" -> p.name = e
          [] p.of = "list" -> Term[e].form \in {"list", "vector"}
          [] OTHER -> Term[e].form = p.of
      BY <1>1, <1>3
<1> QED BY <1>4 DEF q, known

(* A choice admits what one of its parts does.                             *)
LEMMA AltAdmits ==
  ASSUME NEW defs \in Seq(DefType), NEW p \in Production, NEW e \in Expr, NEW fuel \in Nat,
         p.kind = "alt"
  PROVE  Admits(defs)[Claim(p, e, fuel)] =
           \E i \in 1..Len(p.parts) : Admits(defs)[Claim(p.parts[i], e, fuel)]
<1> DEFINE q == Claim(p, e, fuel)
           known == Admits(defs)
<1>1. q.of = p /\ q.expr = e /\ q.fuel = fuel /\ known[q] = Admitted(defs, q, known)
      BY ClaimIs
<1> HIDE DEF q, known
<1>2. q.of.kind = "alt"
      BY <1>1
<1>3. Admitted(defs, q, known) =
        \E i \in 1..Len(q.of.parts) : known[Claim(Values(q.of)[i], q.expr, q.fuel)]
      BY <1>2, Zenon DEF Admitted
<1>4. Values(p) = p.parts
      BY DEF Values
<1> QED BY <1>1, <1>3, <1>4 DEF q, known

(* A reference admits what its definition does, with less fuel.            *)
LEMMA RefAdmits ==
  ASSUME NEW defs \in Seq(DefType), NEW p \in Production, NEW e \in Expr, NEW fuel \in Nat,
         p.kind = "ref"
  PROVE  Admits(defs)[Claim(p, e, fuel)] =
           /\ fuel > 0 /\ Found(defs, p.name) # {}
           /\ Admits(defs)[Claim(TheDef(defs, p.name), e, fuel - 1)]
<1> DEFINE q == Claim(p, e, fuel)
           known == Admits(defs)
<1>1. q.of = p /\ q.expr = e /\ q.fuel = fuel /\ known[q] = Admitted(defs, q, known)
      BY ClaimIs
<1> HIDE DEF q, known
<1>2. q.of.kind = "ref"
      BY <1>1
<1>3. Admitted(defs, q, known) =
        /\ q.fuel > 0 /\ Found(defs, q.of.name) # {}
        /\ known[Claim(TheDef(defs, q.of.name), q.expr, q.fuel - 1)]
      BY <1>2, Zenon DEF Admitted
<1> QED BY <1>1, <1>3 DEF q, known

(* A sequence admits lists, part by part and then by its tail.             *)
LEMMA SeqAdmits ==
  ASSUME NEW defs \in Seq(DefType), NEW p \in Production, NEW e \in Expr, NEW fuel \in Nat,
         p.kind = "seq"
  PROVE  LET items == Term[e].items
             n == IF Tailed(p) THEN Len(p.parts) - 1 ELSE Len(p.parts) IN
         Admits(defs)[Claim(p, e, fuel)] =
           /\ Term[e].form = "list" /\ Len(items) >= n
           /\ Tailed(p) \/ Len(items) = n
           /\ \A i \in 1..Len(items) :
                IF i <= n THEN Admits(defs)[Claim(p.parts[i], items[i], fuel)]
                ELSE Admits(defs)[Claim(Last(p.parts).parts[1], items[i], fuel)]
<1> DEFINE q == Claim(p, e, fuel)
           known == Admits(defs)
<1>1. q.of = p /\ q.expr = e /\ q.fuel = fuel /\ known[q] = Admitted(defs, q, known)
      BY ClaimIs
<1> HIDE DEF q, known
<1>2. q.of.kind = "seq"
      BY <1>1
<1>3. Admitted(defs, q, known) =
        LET items == Term[q.expr].items
            n == IF Tailed(q.of) THEN Len(q.of.parts) - 1 ELSE Len(q.of.parts) IN
        /\ Term[q.expr].form = "list" /\ Len(items) >= n
        /\ Tailed(q.of) \/ Len(items) = n
        /\ \A i \in 1..Len(items) :
             IF i <= n THEN known[Claim(Values(q.of)[i], items[i], q.fuel)]
             ELSE known[Claim(Last(q.of.parts).parts[1], items[i], q.fuel)]
      BY <1>2, Zenon DEF Admitted
<1>4. Values(p) = p.parts
      BY DEF Values
<1> QED BY <1>1, <1>3, <1>4, Zenon DEF q, known

(* A call admits maps of exactly its fields.                               *)
LEMMA CallAdmits ==
  ASSUME NEW defs \in Seq(DefType), NEW p \in Production, NEW e \in Expr, NEW fuel \in Nat,
         p.kind = "call"
  PROVE  LET t == Term[e] IN
         Admits(defs)[Claim(p, e, fuel)] =
           /\ p.name = FieldsHead /\ t.form = "map" /\ NoDuplicates(t.keys)
           /\ {t.keys[k] : k \in DOMAIN t.keys} =
                {FieldNames(p)[i] : i \in DOMAIN FieldNames(p)}
           /\ \A i \in DOMAIN FieldNames(p), k \in DOMAIN t.keys :
                t.keys[k] = FieldNames(p)[i] =>
                  Admits(defs)[Claim(Values(p)[i], t.items[k], fuel)]
<1> DEFINE q == Claim(p, e, fuel)
           known == Admits(defs)
<1>1. q.of = p /\ q.expr = e /\ q.fuel = fuel /\ known[q] = Admitted(defs, q, known)
      BY ClaimIs
<1> HIDE DEF q, known
<1>2. q.of.kind = "call"
      BY <1>1
<1>3. Admitted(defs, q, known) =
        LET t == Term[q.expr] IN
        /\ q.of.name = FieldsHead /\ t.form = "map" /\ NoDuplicates(t.keys)
        /\ {t.keys[k] : k \in DOMAIN t.keys} =
             {FieldNames(q.of)[i] : i \in DOMAIN FieldNames(q.of)}
        /\ \A i \in DOMAIN FieldNames(q.of), k \in DOMAIN t.keys :
             t.keys[k] = FieldNames(q.of)[i] => known[Claim(Values(q.of)[i], t.items[k], q.fuel)]
      BY <1>2, Zenon DEF Admitted, IsMapOf
<1>4. known[q] =
        LET t == Term[e] IN
        /\ p.name = FieldsHead /\ t.form = "map" /\ NoDuplicates(t.keys)
        /\ {t.keys[k] : k \in DOMAIN t.keys} = {FieldNames(p)[i] : i \in DOMAIN FieldNames(p)}
        /\ \A i \in DOMAIN FieldNames(p), k \in DOMAIN t.keys :
             t.keys[k] = FieldNames(p)[i] => known[Claim(Values(p)[i], t.items[k], fuel)]
      BY <1>1, <1>3
<1> QED BY <1>4 DEF q, known

(* A repetition is part of a sequence and admits nothing by itself.        *)
LEMMA RepeatAdmits ==
  ASSUME NEW defs \in Seq(DefType), NEW p \in Production, NEW e \in Expr, NEW fuel \in Nat,
         p.kind = "repeat"
  PROVE  ~Admits(defs)[Claim(p, e, fuel)]
<1> DEFINE q == Claim(p, e, fuel)
           known == Admits(defs)
<1>1. q.of = p /\ known[q] = Admitted(defs, q, known)
      BY ClaimIs
<1> HIDE DEF q, known
<1>2. q.of.kind \notin {"terminal", "alt", "ref", "seq", "call"}
      BY <1>1
<1>3. ~Admitted(defs, q, known)
      BY <1>2, Zenon DEF Admitted
<1> QED BY <1>1, <1>3 DEF q, known

-----------------------------------------------------------------------------

(* What is lowered whole was lowered in every part.                        *)
LEMMA WholeOk ==
  ASSUME NEW ls, NEW low, Whole(ls, low).ok
  PROVE  Whole(ls, low) = low /\ low.ok /\ \A i \in DOMAIN ls : ls[i].ok
BY DEF Whole, Unsupported

(* What the shapes in a shape that is lowered are lowered to.              *)
LEMMA KidsLowered ==
  ASSUME NEW s \in Shape, Node[s].kind \notin {"ref", "class"}
  PROVE  /\ KidsOf(s) \in Seq(LowType(Nesting)) /\ RestOf(s) \in Seq(LowType(Nesting))
         /\ BodiesOf(s) \in Seq(LowType(Nesting))
         /\ Len(KidsOf(s)) = Len(Node[s].kids) /\ Len(BodiesOf(s)) = Len(Node[s].defs)
         /\ DOMAIN KidsOf(s) = 1..Len(Node[s].kids) /\ DOMAIN BodiesOf(s) = 1..Len(Node[s].defs)
         /\ \A i \in 1..Len(Node[s].kids) : KidsOf(s)[i] = Lowered[Node[s].kids[i]]
         /\ \A i \in 1..Len(Node[s].defs) : BodiesOf(s)[i] = Lowered[Node[s].defs[i].shape]
         /\ Node[s].rest = None => RestOf(s) = <<>>
         /\ Node[s].rest # None => /\ RestOf(s) = <<Lowered[Node[s].rest]>>
                                   /\ Len(RestOf(s)) = 1
<1> DEFINE n == Node[s]
<1>1. /\ DOMAIN n.kids = 1..Len(n.kids) /\ Len(n.kids) \in Nat
      /\ DOMAIN n.defs = 1..Len(n.defs) /\ Len(n.defs) \in Nat
      /\ \A i \in DOMAIN n.kids : n.kids[i] \in Shape
      /\ \A i \in DOMAIN n.defs : n.defs[i].shape \in Shape
      /\ n.rest \in Shape \cup {None}
      BY ShapeTyped
<1>2. \A u \in Shape : Lowered[u] \in LowType(Nesting)
      BY LoweredTyped
<1>3. KidsOf(s) \in [1..Len(n.kids) -> LowType(Nesting)]
      BY <1>1, <1>2 DEF KidsOf
<1>4. BodiesOf(s) \in [1..Len(n.defs) -> LowType(Nesting)]
      BY <1>1, <1>2 DEF BodiesOf
<1>5. /\ \A i \in 1..Len(n.kids) : KidsOf(s)[i] = Lowered[n.kids[i]]
      /\ \A i \in 1..Len(n.defs) : BodiesOf(s)[i] = Lowered[n.defs[i].shape]
      BY <1>1 DEF KidsOf, BodiesOf
<1>6. n.rest = None => RestOf(s) = <<>>
      BY DEF RestOf
<1>7. n.rest # None => RestOf(s) = <<Lowered[n.rest]>>
      BY DEF RestOf
<1>8. n.rest # None => RestOf(s) \in Seq(LowType(Nesting)) /\ Len(RestOf(s)) = 1
  <2>1. n.rest # None => Lowered[n.rest] \in LowType(Nesting)
        BY <1>1, <1>2
  <2> HIDE DEF n
  <2> QED BY <1>7, <2>1, Tuples
<1>9. RestOf(s) \in Seq(LowType(Nesting))
  <2>1. <<>> \in Seq(LowType(Nesting))
        OBVIOUS
  <2> QED BY <1>6, <1>8, <2>1
<1>10. /\ KidsOf(s) \in Seq(LowType(Nesting)) /\ BodiesOf(s) \in Seq(LowType(Nesting))
       /\ Len(KidsOf(s)) = Len(n.kids) /\ Len(BodiesOf(s)) = Len(n.defs)
       /\ DOMAIN KidsOf(s) = 1..Len(n.kids) /\ DOMAIN BodiesOf(s) = 1..Len(n.defs)
       BY <1>1, <1>3, <1>4, MadeSeq
<1> QED BY <1>5, <1>6, <1>7, <1>8, <1>9, <1>10

(* The claim a shape's production makes of a term.                         *)
(* Two lists of lowered shapes, one after the other.                       *)
LEMMA Joined ==
  ASSUME NEW T, NEW a \in Seq(T), NEW b \in Seq(T)
  PROVE  /\ a \o b \in Seq(T) /\ Len(a \o b) = Len(a) + Len(b)
         /\ DOMAIN (a \o b) = 1..Len(a) + Len(b) /\ Len(a) \in Nat /\ Len(b) \in Nat
         /\ \A i \in 1..Len(a) : i \in DOMAIN (a \o b) /\ (a \o b)[i] = a[i]
         /\ \A i \in 1..Len(b) : /\ Len(a) + i \in DOMAIN (a \o b)
                                 /\ (a \o b)[Len(a) + i] = b[i]
BY ConcatProperties, LenProperties

(* A shape that is lowered is built of shapes that are, and its list of    *)
(* definitions has theirs and its own.                                     *)
Within(u, s) == Lowered[u].ok /\ Range(Lowered[u].defs) \subseteq Range(Lowered[s].defs)

(* The definitions of a part are among those of the whole.                 *)
LEMMA Inside ==
  ASSUME NEW s \in Shape, Lowered[s].ok
  PROVE  LET n == Node[s] IN
         /\ n.kind \in {"oneOf", "list", "fields", "defs"} =>
              \A i \in 1..Len(n.kids) : Within(n.kids[i], s)
         /\ n.kind = "list" /\ n.rest # None => Within(n.rest, s)
         /\ n.kind = "defs" =>
              \A i \in 1..Len(n.defs) :
                /\ Within(n.defs[i].shape, s)
                /\ Definition(n.defs[i].name, Lowered[n.defs[i].shape].production)
                     \in Range(Lowered[s].defs)
<1> DEFINE n == Node[s]
           kids == KidsOf(s)
           rest == RestOf(s)
           bodies == BodiesOf(s)
<1>1. ASSUME n.kind \in {"oneOf", "list", "fields", "defs"}
      PROVE  /\ kids \in Seq(LowType(Nesting)) /\ rest \in Seq(LowType(Nesting))
             /\ bodies \in Seq(LowType(Nesting))
             /\ Len(kids) = Len(n.kids) /\ Len(bodies) = Len(n.defs)
             /\ DOMAIN kids = 1..Len(n.kids) /\ DOMAIN bodies = 1..Len(n.defs)
             /\ \A i \in 1..Len(n.kids) : kids[i] = Lowered[n.kids[i]]
             /\ \A i \in 1..Len(n.defs) : bodies[i] = Lowered[n.defs[i].shape]
             /\ n.rest # None => rest = <<Lowered[n.rest]>> /\ Len(rest) = 1
      BY <1>1, KidsLowered
<1>2. CASE n.kind = "oneOf"
  <2> DEFINE low == Lower(Compound("alt", Productions(kids)), DefsOf(kids))
  <2>1. Lowered[s] = Whole(kids, low)
        BY <1>2, LoweredIs
  <2>2. Lowered[s] = low /\ \A i \in DOMAIN kids : kids[i].ok
    <3> HIDE DEF low, kids
    <3> QED BY <2>1, WholeOk
  <2>3. Lowered[s].defs = DefsOf(kids)
        BY <2>2 DEF Lower
  <2>4. \A i \in 1..Len(n.kids) : Range(kids[i].defs) \subseteq Range(DefsOf(kids))
    <3> HIDE DEF kids
    <3> QED BY <1>1, <1>2, LoweredTogether, GrammarAssumption
  <2> HIDE DEF low, kids
  <2> QED BY <1>1, <1>2, <2>2, <2>3, <2>4 DEF Within
<1>3. CASE n.kind = "fields"
  <2> DEFINE low == Lower(Naming("call", HeadOf(n), ArgumentsOf(n, kids)), DefsOf(kids))
  <2>1. Lowered[s] = Whole(kids, low)
        BY <1>3, LoweredIs
  <2>2. Lowered[s] = low /\ \A i \in DOMAIN kids : kids[i].ok
    <3> HIDE DEF low, kids
    <3> QED BY <2>1, WholeOk
  <2>3. Lowered[s].defs = DefsOf(kids)
        BY <2>2 DEF Lower
  <2>4. \A i \in 1..Len(n.kids) : Range(kids[i].defs) \subseteq Range(DefsOf(kids))
    <3> HIDE DEF kids
    <3> QED BY <1>1, <1>3, LoweredTogether, GrammarAssumption
  <2> HIDE DEF low, kids
  <2> QED BY <1>1, <1>3, <2>2, <2>3, <2>4 DEF Within
<1>4. CASE n.kind = "list"
  <2> DEFINE all == kids \o rest
             low == Lower(Compound("seq", Productions(kids) \o TailOf(rest)), DefsOf(all))
  <2>1. Lowered[s] = Whole(all, low)
        BY <1>4, LoweredIs
  <2>2. Lowered[s] = low /\ \A i \in DOMAIN all : all[i].ok
    <3> HIDE DEF low, all
    <3> QED BY <2>1, WholeOk
  <2>3. Lowered[s].defs = DefsOf(all)
        BY <2>2 DEF Lower
  <2>4. /\ all \in Seq(LowType(Nesting)) /\ DOMAIN all = 1..Len(kids) + Len(rest)
        /\ Len(all) = Len(kids) + Len(rest)
        /\ \A i \in 1..Len(n.kids) : i \in DOMAIN all /\ all[i] = kids[i]
        /\ \A i \in 1..Len(rest) : /\ Len(kids) + i \in DOMAIN all
                                   /\ all[Len(kids) + i] = rest[i]
    <3> HIDE DEF kids, rest
    <3> QED BY <1>1, <1>4, Joined
  <2>5. \A i \in DOMAIN all : Range(all[i].defs) \subseteq Range(DefsOf(all))
    <3> HIDE DEF all
    <3> QED BY <2>4, LoweredTogether, GrammarAssumption
  <2> HIDE DEF low, all
  <2>6. \A i \in 1..Len(n.kids) : Within(n.kids[i], s)
    <3> SUFFICES ASSUME NEW i \in 1..Len(n.kids) PROVE Within(n.kids[i], s)
        OBVIOUS
    <3>1. all[i] = Lowered[n.kids[i]] /\ i \in DOMAIN all
          BY <1>1, <1>4, <2>4
    <3> HIDE DEF kids, n
    <3> QED BY <2>2, <2>3, <2>5, <3>1 DEF Within
  <2>7. n.rest # None => Within(n.rest, s)
    <3> SUFFICES ASSUME n.rest # None PROVE Within(n.rest, s)
        OBVIOUS
    <3>1. rest = <<Lowered[n.rest]>> /\ Len(rest) = 1
          BY <1>1, <1>4
    <3>2. rest[1] = Lowered[n.rest]
          BY <3>1
    <3> HIDE DEF rest, kids, n
    <3> QED BY <2>2, <2>3, <2>4, <2>5, <3>1, <3>2 DEF Within
  <2> QED BY <1>4, <2>6, <2>7
<1>5. CASE n.kind = "defs"
  <2> DEFINE all == kids \o bodies
             names == [i \in DOMAIN bodies |-> n.defs[i].name]
             low == Lower(Productions(kids)[1], Scopes(kids[1], names, bodies))
  <2>1. Lowered[s] = Whole(all, low)
        BY <1>5, LoweredIs
  <2>2. Lowered[s] = low /\ \A i \in DOMAIN all : all[i].ok
    <3> HIDE DEF low, all
    <3> QED BY <2>1, WholeOk
  <2>3. Lowered[s].defs = Scopes(kids[1], names, bodies)
        BY <2>2 DEF Lower
  <2>4. /\ \A i \in 1..Len(n.kids) : i \in DOMAIN all /\ all[i] = kids[i]
        /\ \A i \in 1..Len(n.defs) : /\ Len(kids) + i \in DOMAIN all
                                     /\ all[Len(kids) + i] = bodies[i]
    <3> HIDE DEF kids, bodies
    <3> QED BY <1>1, <1>5, Joined
  <2> HIDE DEF low, all
  <2>5. Len(n.kids) = 1 /\ n.defs \in Seq([name: Symbol, shape: Shape])
        BY <1>5, ShapeTyped DEF NodeOK
  <2>6. kids[1] \in LowType(Nesting)
    <3>1. kids \in Seq(LowType(Nesting)) /\ 1 \in DOMAIN kids
          BY <1>1, <1>5, <2>5
    <3> HIDE DEF kids
    <3> QED BY <3>1, ElementOfSeq
  <2>7. names \in [1..Len(bodies) -> Symbol] /\ \A i \in 1..Len(n.defs) : names[i] = n.defs[i].name
    <3>1. DOMAIN bodies = 1..Len(bodies) /\ \A i \in DOMAIN bodies : n.defs[i].name \in Symbol
          BY <1>1, <1>5, ShapeTyped
    <3> HIDE DEF bodies, n
    <3>2. names \in [1..Len(bodies) -> Symbol]
          BY <3>1
    <3> QED BY <3>2, <1>1, <1>5 DEF n
  <2> HIDE DEF names
  <2>8. Range(Lowered[s].defs) =
          Range(kids[1].defs) \cup
          UNION {Range(bodies[i].defs) \cup {Definition(names[i], bodies[i].production)} :
                   i \in 1..Len(bodies)}
    <3>1. Nesting \in Nat /\ Nesting <= Nesting
          BY GrammarAssumption
    <3>2. bodies \in Seq(LowType(Nesting))
          BY <1>1, <1>5
    <3> DEFINE root == kids[1]
    <3>3. root \in LowType(Nesting) /\ Lowered[s].defs = Scopes(root, names, bodies)
          BY <2>3, <2>6
    <3> HIDE DEF bodies, kids, root
    <3>4. Range(Scopes(root, names, bodies)) =
            Range(root.defs) \cup
            UNION {Range(bodies[i].defs) \cup {Definition(names[i], bodies[i].production)} :
                     i \in 1..Len(bodies)}
          BY <2>7, <3>1, <3>2, <3>3, ScopesAre
    <3> QED BY <3>3, <3>4 DEF root
  <2>9. Within(n.kids[1], s)
        BY <1>1, <1>5, <2>2, <2>4, <2>5, <2>8 DEF Within
  <2>10. ASSUME NEW i \in 1..Len(n.defs)
         PROVE  /\ Within(n.defs[i].shape, s)
                /\ Definition(n.defs[i].name, Lowered[n.defs[i].shape].production)
                     \in Range(Lowered[s].defs)
    <3>1. bodies[i] = Lowered[n.defs[i].shape] /\ Len(bodies) = Len(n.defs)
          /\ names[i] = n.defs[i].name /\ bodies[i].ok
          BY <1>1, <1>5, <2>2, <2>4, <2>7
    <3> HIDE DEF bodies, kids, n
    <3> QED BY <2>8, <3>1 DEF Within
  <2> QED BY <1>5, <2>5, <2>9, <2>10
<1> QED BY <1>2, <1>3, <1>4, <1>5

-----------------------------------------------------------------------------
(* What the production of a shape admits, in the shape's own words.        *)
Holds(defs, u, e, fuel) == Admits(defs)[Claim(Lowered[u].production, e, fuel)]

(* A shape is lowered to a production that is no repetition.               *)
LEMMA LoweredProduct ==
  ASSUME NEW s \in Shape
  PROVE  Lowered[s].production \in Production /\ Lowered[s].production.kind # "repeat"
BY LoweredTyped DEF LowType, Production

(* The fields of what lowering builds, one operator at a time.             *)
LEMMA LowerIs ==
  ASSUME NEW p, NEW defs
  PROVE  Lower(p, defs).production = p /\ Lower(p, defs).defs = defs /\ Lower(p, defs).ok
BY DEF Lower

LEMMA NamingIs ==
  ASSUME NEW kind, NEW name, NEW parts
  PROVE  /\ Naming(kind, name, parts).kind = kind /\ Naming(kind, name, parts).name = name
         /\ Naming(kind, name, parts).parts = parts
BY DEF Naming

LEMMA CompoundIs ==
  ASSUME NEW kind, NEW parts
  PROVE  Compound(kind, parts).kind = kind /\ Compound(kind, parts).parts = parts
BY NamingIs DEF Compound

(* What the graph of a shape admits, by the kind of the shape.             *)
LEMMA AnyHolds ==
  ASSUME NEW defs \in Seq(DefType), NEW s \in Shape, NEW e \in Expr, NEW fuel \in Nat,
         Node[s].kind = "any"
  PROVE  Holds(defs, s, e, fuel)
<1> DEFINE p == Lowered[s].production
           any == Terminal("any")
<1>1. p = Compound("alt", <<any>>)
  <2>1. Lowered[s] = Lower(Compound("alt", <<any>>), <<>>)
        BY LoweredIs
  <2> QED BY <2>1, LowerIs
<1>3. any.kind = "terminal" /\ any.of = "any"
      BY DEF Terminal
<1>4. p \in Production
      BY LoweredProduct
<1> HIDE DEF p, any
<1>2. p.kind = "alt" /\ p.parts = <<any>>
      BY <1>1, CompoundIs
<1>5. 1 \in 1..Len(p.parts) /\ p.parts[1] = any
      BY <1>2
<1>6. any \in Production
      BY <1>4, <1>5, LevelFalls
<1>7. Admits(defs)[Claim(any, e, fuel)]
      BY <1>3, <1>6, TerminalAdmits
<1>8. Admits(defs)[Claim(p, e, fuel)]
      BY <1>2, <1>4, <1>5, <1>7, AltAdmits
<1> QED BY <1>8 DEF Holds, p

LEMMA TermHolds ==
  ASSUME NEW defs \in Seq(DefType), NEW s \in Shape, NEW e \in Expr, NEW fuel \in Nat,
         Lowered[s].ok
  PROVE  LET n == Node[s]  form == Term[e].form IN
         /\ n.kind = "exact" => Holds(defs, s, e, fuel) = (n.arg = e)
         /\ n.kind = "exprKind" /\ n.arg \notin {"list", "vector"} =>
              Holds(defs, s, e, fuel) = (form = n.arg)
         /\ n.kind = "exprKind" /\ form = n.arg => Holds(defs, s, e, fuel)
<1> DEFINE n == Node[s]
           form == Term[e].form
           p == Lowered[s].production
<1>1. p \in Production
      BY LoweredProduct
<1>2. CASE n.kind = "exact"
  <2>1. p = Exactly(n.arg)
    <3>1. Lowered[s] = Lower(Exactly(n.arg), <<>>)
          BY <1>2, LoweredIs
    <3> QED BY <3>1, LowerIs
  <2>2. p.kind = "terminal" /\ p.of = "exact" /\ p.name = n.arg
        BY <2>1 DEF Exactly
  <2> HIDE DEF p
  <2>3. Admits(defs)[Claim(p, e, fuel)] = (n.arg = e)
        BY <1>1, <2>2, TerminalAdmits
  <2> QED BY <1>2, <2>3 DEF Holds, p
<1>3. CASE n.kind = "exprKind"
  <2>1. n.arg \in KindAtoms /\ p = Terminal(AtomOf(n.arg))
    <3>1. Lowered[s] = IF n.arg \in KindAtoms THEN Lower(Terminal(AtomOf(n.arg)), <<>>)
                       ELSE Unsupported
          BY <1>3, LoweredIs
    <3> QED BY <3>1 DEF Lower, Unsupported
  <2>2. p.kind = "terminal" /\ p.of = AtomOf(n.arg)
        BY <2>1 DEF Terminal
  <2>3. n.arg \notin {"list", "vector"} => p.of = n.arg /\ p.of \notin {"any", "exact", "list"}
        BY <2>1, <2>2 DEF AtomOf, KindAtoms
  <2>4. n.arg \in {"list", "vector"} => p.of = "list"
        BY <2>2 DEF AtomOf
  <2> HIDE DEF p, n
  <2>5. n.arg \notin {"list", "vector"} => Admits(defs)[Claim(p, e, fuel)] = (form = n.arg)
    <3> HIDE DEF form
    <3>1. p.of \notin {"any", "exact", "list"} => Admits(defs)[Claim(p, e, fuel)] = (form = p.of)
          BY <1>1, <2>2, TerminalAdmits DEF form
    <3> QED BY <2>3, <3>1
  <2>6. n.arg \in {"list", "vector"} =>
          Admits(defs)[Claim(p, e, fuel)] = (form \in {"list", "vector"})
    <3> HIDE DEF form
    <3>1. p.of = "list" => Admits(defs)[Claim(p, e, fuel)] = (form \in {"list", "vector"})
          BY <1>1, <2>2, TerminalAdmits DEF form
    <3> QED BY <2>4, <3>1
  <2> QED BY <1>3, <2>5, <2>6 DEF Holds, p, n
<1> QED BY <1>2, <1>3

LEMMA OneOfHolds ==
  ASSUME NEW defs \in Seq(DefType), NEW s \in Shape, NEW e \in Expr, NEW fuel \in Nat,
         Lowered[s].ok, Node[s].kind = "oneOf"
  PROVE  Holds(defs, s, e, fuel) =
           \E i \in 1..Len(Node[s].kids) : Holds(defs, Node[s].kids[i], e, fuel)
<1> DEFINE n == Node[s]
           p == Lowered[s].production
           kids == KidsOf(s)
<1>1. p \in Production
      BY LoweredProduct
<1>2. p = Compound("alt", Productions(kids))
  <2> DEFINE low == Lower(Compound("alt", Productions(kids)), DefsOf(kids))
  <2>1. Lowered[s] = Whole(kids, low)
        BY LoweredIs
  <2>2. Lowered[s] = low
    <3> HIDE DEF low, kids
    <3> QED BY <2>1, WholeOk
  <2> QED BY <2>2 DEF Lower
<1>3. p.kind = "alt" /\ p.parts = Productions(kids)
  <2> HIDE DEF p, kids
  <2> QED BY <1>2, CompoundIs
<1>4. /\ kids \in Seq(LowType(Nesting)) /\ Len(kids) = Len(n.kids)
      /\ \A i \in 1..Len(n.kids) : kids[i] = Lowered[n.kids[i]]
      BY KidsLowered
<1>5. /\ Len(p.parts) = Len(n.kids)
      /\ \A i \in 1..Len(n.kids) : p.parts[i] = Lowered[n.kids[i]].production
  <2> HIDE DEF kids, p
  <2> QED BY <1>3, <1>4, LoweredTogether, GrammarAssumption
<1> HIDE DEF p
<1>6. Admits(defs)[Claim(p, e, fuel)] =
        \E i \in 1..Len(p.parts) : Admits(defs)[Claim(p.parts[i], e, fuel)]
      BY <1>1, <1>3, AltAdmits
<1> QED BY <1>5, <1>6 DEF Holds, p

LEMMA ListHolds ==
  ASSUME NEW defs \in Seq(DefType), NEW s \in Shape, NEW e \in Expr, NEW fuel \in Nat,
         Lowered[s].ok, Node[s].kind = "list"
  PROVE  LET n == Node[s]  items == Term[e].items IN
         Holds(defs, s, e, fuel) =
           /\ Term[e].form = "list" /\ Len(items) >= Len(n.kids)
           /\ n.rest # None \/ Len(items) = Len(n.kids)
           /\ \A i \in 1..Len(items) :
                IF i <= Len(n.kids) THEN Holds(defs, n.kids[i], items[i], fuel)
                ELSE Holds(defs, n.rest, items[i], fuel)
<1> DEFINE n == Node[s]
           items == Term[e].items
           p == Lowered[s].production
           kids == KidsOf(s)
           rest == RestOf(s)
           parts == Productions(kids)
           many == Len(n.kids)
<1>1. p \in Production
      BY LoweredProduct
<1>2. p = Compound("seq", parts \o TailOf(rest))
  <2> DEFINE low == Lower(Compound("seq", parts \o TailOf(rest)), DefsOf(kids \o rest))
  <2>1. Lowered[s] = Whole(kids \o rest, low)
        BY LoweredIs
  <2>2. Lowered[s] = low
    <3> HIDE DEF low, kids
    <3> QED BY <2>1, WholeOk
  <2> QED BY <2>2 DEF Lower
<1>3. p.kind = "seq" /\ p.parts = parts \o TailOf(rest)
  <2> HIDE DEF p, parts, rest
  <2> QED BY <1>2, CompoundIs
<1>4. /\ kids \in Seq(LowType(Nesting)) /\ Len(kids) = many /\ many \in Nat
      /\ \A i \in 1..many : kids[i] = Lowered[n.kids[i]]
      /\ n.rest = None => rest = <<>>
      /\ n.rest # None => rest = <<Lowered[n.rest]>>
      BY KidsLowered, ShapeTyped
<1>5. /\ parts \in Seq(Production) /\ Len(parts) = many
      /\ \A i \in 1..many : /\ parts[i] = Lowered[n.kids[i]].production
                            /\ parts[i].kind # "repeat"
  <2> HIDE DEF kids
  <2>1. /\ parts \in Seq(Production) /\ Len(parts) = many
        /\ \A i \in 1..many : parts[i] = kids[i].production /\ kids[i] \in LowType(Nesting)
        BY <1>4, LoweredTogether, GrammarAssumption DEF Production
  <2> HIDE DEF parts
  <2> QED BY <1>4, <2>1 DEF LowType
<1> HIDE DEF parts, p
<1>6. ASSUME n.rest = None
      PROVE  ~Tailed(p) /\ p.parts = parts
  <2>1. p.parts = parts
    <3>1. TailOf(rest) = <<>>
          BY <1>4, <1>6 DEF TailOf
    <3> QED BY <1>3, <1>5, <3>1
  <2>2. parts # <<>> => Last(parts).kind # "repeat"
        BY <1>4, <1>5 DEF Last
  <2> QED BY <2>1, <2>2 DEF Tailed
<1>7. ASSUME n.rest # None
      PROVE  /\ Tailed(p) /\ Len(p.parts) = many + 1
             /\ \A i \in 1..many : p.parts[i] = parts[i]
             /\ Last(p.parts).parts[1] = Lowered[n.rest].production
  <2> DEFINE low == Lowered[n.rest]
             tail == Compound("repeat", <<low.production>>)
  <2>1. TailOf(rest) = <<tail>>
    <3>1. rest = <<low>> /\ rest # <<>>
      <4>1. rest = <<low>>
            BY <1>4, <1>7
      <4> HIDE DEF rest, low
      <4> QED BY <4>1
    <3>2. Productions(rest) = <<low.production>>
      <4> HIDE DEF low, rest
      <4> QED BY <3>1 DEF Productions
    <3> QED BY <3>1, <3>2 DEF TailOf
  <2>2. tail.kind = "repeat" /\ tail.parts[1] = low.production
        BY DEF Compound, Naming
  <2> HIDE DEF tail
  <2>3. p.parts = Append(parts, tail)
    <3>1. p.parts = parts \o <<tail>>
          BY <1>3, <2>1
    <3> QED BY <1>5, <3>1
  <2>4. /\ Len(p.parts) = many + 1 /\ p.parts[many + 1] = tail /\ p.parts # <<>>
        /\ \A i \in 1..many : p.parts[i] = parts[i]
    <3>1. Append(parts, tail) \in Seq(Production \cup {tail})
          /\ Len(Append(parts, tail)) = many + 1 /\ Append(parts, tail)[many + 1] = tail
          /\ \A i \in 1..many : Append(parts, tail)[i] = parts[i]
      <4> HIDE DEF many
      <4>1. parts \in Seq(Production \cup {tail}) /\ Len(parts) = many /\ many \in Nat
            BY <1>4, <1>5
      <4> QED BY <4>1, AppendProperties
    <3> HIDE DEF many
    <3>2. many + 1 # 0 /\ many \in Nat
          BY <1>4
    <3>3. Len(p.parts) # 0
          BY <2>3, <3>1, <3>2
    <3>4. p.parts # <<>>
          BY <3>3
    <3> QED BY <2>3, <3>1, <3>4
  <2>5. Last(p.parts) = tail
        BY <2>4 DEF Last
  <2> QED BY <2>2, <2>4, <2>5 DEF Tailed
<1> DEFINE fixed == IF Tailed(p) THEN Len(p.parts) - 1 ELSE Len(p.parts)
<1>8. Admits(defs)[Claim(p, e, fuel)] =
        /\ Term[e].form = "list" /\ Len(items) >= fixed
        /\ Tailed(p) \/ Len(items) = fixed
        /\ \A i \in 1..Len(items) :
             IF i <= fixed THEN Admits(defs)[Claim(p.parts[i], items[i], fuel)]
             ELSE Admits(defs)[Claim(Last(p.parts).parts[1], items[i], fuel)]
      BY <1>1, <1>3, SeqAdmits
<1>9. fixed = many /\ Tailed(p) = (n.rest # None)
  <2> HIDE DEF many
  <2>1. ASSUME n.rest = None PROVE fixed = many /\ ~Tailed(p)
        BY <1>5, <1>6, <2>1
  <2>2. ASSUME n.rest # None PROVE fixed = many /\ Tailed(p)
    <3>1. Tailed(p) /\ Len(p.parts) = many + 1 /\ many \in Nat
          BY <1>4, <1>7, <2>2
    <3> QED BY <3>1
  <2>3. Tailed(p) = TRUE \/ Tailed(p) = FALSE
        BY Zenon DEF Tailed
  <2> HIDE DEF fixed, n
  <2> QED BY <2>1, <2>2, <2>3
<1>10. \A i \in 1..many : p.parts[i] = Lowered[n.kids[i]].production
       BY <1>5, <1>6, <1>7
<1> HIDE DEF fixed
<1>11. Len(items) \in Nat
       BY TermTyped
<1> HIDE DEF items, many
<1>12. Admits(defs)[Claim(p, e, fuel)] =
        /\ Term[e].form = "list" /\ Len(items) >= many
        /\ n.rest # None \/ Len(items) = many
        /\ \A i \in 1..Len(items) :
             IF i <= many THEN Admits(defs)[Claim(p.parts[i], items[i], fuel)]
             ELSE Admits(defs)[Claim(Last(p.parts).parts[1], items[i], fuel)]
       BY <1>8, <1>9
<1>13. \A i \in 1..Len(items) :
         /\ i <= many => p.parts[i] = Lowered[n.kids[i]].production
         /\ Len(items) >= many /\ (n.rest # None \/ Len(items) = many) /\ ~(i <= many) =>
              Last(p.parts).parts[1] = Lowered[n.rest].production
       BY <1>4, <1>7, <1>10, <1>11
<1>14. Admits(defs)[Claim(p, e, fuel)] =
        /\ Term[e].form = "list" /\ Len(items) >= many
        /\ n.rest # None \/ Len(items) = many
        /\ \A i \in 1..Len(items) :
             IF i <= many THEN Admits(defs)[Claim(Lowered[n.kids[i]].production, items[i], fuel)]
             ELSE Admits(defs)[Claim(Lowered[n.rest].production, items[i], fuel)]
       BY <1>12, <1>13
<1> QED BY <1>14 DEF Holds, p, items, many

LEMMA FieldsHold ==
  ASSUME NEW defs \in Seq(DefType), NEW s \in Shape, NEW e \in Expr, NEW fuel \in Nat,
         Lowered[s].ok, Node[s].kind = "fields"
  PROVE  LET n == Node[s]  t == Term[e] IN
         Holds(defs, s, e, fuel) =
           /\ HeadOf(n) = FieldsHead /\ t.form = "map" /\ NoDuplicates(t.keys)
           /\ {t.keys[k] : k \in DOMAIN t.keys} = {n.keys[i] : i \in 1..Len(n.kids)}
           /\ \A i \in 1..Len(n.kids), k \in DOMAIN t.keys :
                t.keys[k] = n.keys[i] => Holds(defs, n.kids[i], t.items[k], fuel)
<1> DEFINE n == Node[s]
           t == Term[e]
           p == Lowered[s].production
           kids == KidsOf(s)
           many == Len(n.kids)
           args == ArgumentsOf(n, kids)
           Field(i) == Compound("seq", <<Exactly(n.keys[i]), Productions(kids)[i]>>)
           head == HeadOf(n)
<1>1. p \in Production
      BY LoweredProduct
<1>2. p = Naming("call", head, args)
  <2> DEFINE low == Lower(Naming("call", head, args), DefsOf(kids))
  <2>1. Lowered[s] = Whole(kids, low)
        BY LoweredIs
  <2>2. Lowered[s] = low
    <3> HIDE DEF low, kids
    <3> QED BY <2>1, WholeOk
  <2> HIDE DEF args, kids, head
  <2> QED BY <2>2, LowerIs
<1>3. p.kind = "call" /\ p.name = head /\ p.parts = args
  <2> HIDE DEF p, args, head
  <2> QED BY <1>2, NamingIs
<1>4. /\ kids \in Seq(LowType(Nesting)) /\ Len(kids) = many /\ DOMAIN kids = 1..many
      /\ \A i \in 1..many : kids[i] = Lowered[n.kids[i]]
      BY KidsLowered
<1>5. \A i \in 1..many : Productions(kids)[i] = Lowered[n.kids[i]].production
  <2> HIDE DEF kids, many
  <2> QED BY <1>4, LoweredTogether, GrammarAssumption
<1>6. DOMAIN args = 1..many /\ \A i \in 1..many : args[i] = Field(i)
      BY <1>4 DEF ArgumentsOf
<1>7. ASSUME NEW i \in 1..many
      PROVE  /\ Field(i).kind = "seq" /\ Field(i).parts[1].name = n.keys[i]
             /\ Field(i).parts[2] = Lowered[n.kids[i]].production
  <2> DEFINE key == Exactly(n.keys[i])
             value == Productions(kids)[i]
  <2>1. key.name = n.keys[i]
        BY DEF Exactly
  <2>2. value = Lowered[n.kids[i]].production
        BY <1>5
  <2> HIDE DEF key, value
  <2>3. Field(i).kind = "seq" /\ Field(i).parts = <<key, value>>
        BY CompoundIs DEF key, value
  <2> HIDE DEF Field
  <2> QED BY <2>1, <2>2, <2>3
<1> HIDE DEF p, args, Field, many, head
<1>8. /\ DOMAIN FieldNames(p) = 1..many
      /\ \A i \in 1..many : FieldNames(p)[i] = n.keys[i]
  <2>1. DOMAIN p.parts = 1..many
        BY <1>3, <1>6
  <2>2. \A i \in 1..many : p.parts[i].parts[1].name = n.keys[i]
        BY <1>3, <1>6, <1>7
  <2> QED BY <2>1, <2>2 DEF FieldNames
<1>9. \A i \in 1..many : Values(p)[i] = Lowered[n.kids[i]].production
  <2>1. DOMAIN p.parts = 1..many
        BY <1>3, <1>6
  <2>2. \A i \in 1..many : p.parts[i].parts[2] = Lowered[n.kids[i]].production
        BY <1>3, <1>6, <1>7
  <2>3. Values(p) = [i \in DOMAIN p.parts |-> p.parts[i].parts[2]]
        BY <1>3 DEF Values
  <2> QED BY <2>1, <2>2, <2>3
<1>10. {FieldNames(p)[i] : i \in DOMAIN FieldNames(p)} = {n.keys[i] : i \in 1..many}
       BY <1>8
<1> HIDE DEF t
<1>11. Admits(defs)[Claim(p, e, fuel)] =
         /\ p.name = FieldsHead /\ t.form = "map" /\ NoDuplicates(t.keys)
         /\ {t.keys[k] : k \in DOMAIN t.keys} = {FieldNames(p)[i] : i \in DOMAIN FieldNames(p)}
         /\ \A i \in DOMAIN FieldNames(p), k \in DOMAIN t.keys :
              t.keys[k] = FieldNames(p)[i] => Admits(defs)[Claim(Values(p)[i], t.items[k], fuel)]
       BY <1>1, <1>3, CallAdmits DEF t
<1>12. (\A i \in DOMAIN FieldNames(p), k \in DOMAIN t.keys :
          t.keys[k] = FieldNames(p)[i] => Admits(defs)[Claim(Values(p)[i], t.items[k], fuel)]) =
       (\A i \in 1..many, k \in DOMAIN t.keys :
          t.keys[k] = n.keys[i] =>
            Admits(defs)[Claim(Lowered[n.kids[i]].production, t.items[k], fuel)])
       BY <1>8, <1>9
<1>13. Admits(defs)[Claim(p, e, fuel)] =
         /\ head = FieldsHead /\ t.form = "map" /\ NoDuplicates(t.keys)
         /\ {t.keys[k] : k \in DOMAIN t.keys} = {n.keys[i] : i \in 1..many}
         /\ \A i \in 1..many, k \in DOMAIN t.keys :
              t.keys[k] = n.keys[i] =>
                Admits(defs)[Claim(Lowered[n.kids[i]].production, t.items[k], fuel)]
       BY <1>3, <1>10, <1>11, <1>12
<1> QED BY <1>13 DEF Holds, p, t, many, head

LEMMA RefHolds ==
  ASSUME NEW defs \in Seq(DefType), NEW s \in Shape, NEW e \in Expr, NEW fuel \in Nat,
         Node[s].kind = "ref"
  PROVE  Holds(defs, s, e, fuel) =
           /\ fuel > 0 /\ Found(defs, Node[s].name) # {}
           /\ Admits(defs)[Claim(TheDef(defs, Node[s].name), e, fuel - 1)]
<1> DEFINE p == Lowered[s].production
           ref == Naming("ref", Node[s].name, <<>>)
<1>1. p \in Production
      BY LoweredProduct
<1>2. p = ref
  <2>1. Lowered[s] = Lower(ref, <<>>)
        BY LoweredIs
  <2> HIDE DEF ref
  <2> QED BY <2>1, LowerIs
<1> HIDE DEF p
<1>3. p.kind = "ref" /\ p.name = Node[s].name
      BY <1>2, NamingIs
<1>4. Admits(defs)[Claim(p, e, fuel)] =
        /\ fuel > 0 /\ Found(defs, p.name) # {}
        /\ Admits(defs)[Claim(TheDef(defs, p.name), e, fuel - 1)]
      BY <1>1, <1>3, RefAdmits
<1> QED BY <1>3, <1>4 DEF Holds, p

LEMMA DefsHold ==
  ASSUME NEW defs, NEW s \in Shape, NEW e, NEW fuel, Lowered[s].ok, Node[s].kind = "defs"
  PROVE  Holds(defs, s, e, fuel) = Holds(defs, Node[s].kids[1], e, fuel)
<1> DEFINE n == Node[s]
           kids == KidsOf(s)
           bodies == BodiesOf(s)
<1>1. Lowered[s].production = Productions(kids)[1]
  <2> DEFINE low == Lower(Productions(kids)[1],
                          Scopes(kids[1], [i \in DOMAIN bodies |-> n.defs[i].name], bodies))
  <2>1. Lowered[s] = Whole(kids \o bodies, low)
        BY LoweredIs
  <2>2. Lowered[s] = low
    <3> HIDE DEF low, kids, bodies
    <3> QED BY <2>1, WholeOk
  <2> HIDE DEF kids, bodies
  <2> QED BY <2>2, LowerIs
<1>2. /\ kids \in Seq(LowType(Nesting)) /\ Len(kids) = Len(n.kids)
      /\ \A i \in 1..Len(n.kids) : kids[i] = Lowered[n.kids[i]]
      BY KidsLowered
<1>3. Len(n.kids) = 1
      BY ShapeTyped DEF NodeOK
<1>4. Productions(kids)[1] = Lowered[n.kids[1]].production
  <2> HIDE DEF kids
  <2> QED BY <1>2, <1>3, LoweredTogether, GrammarAssumption
<1> QED BY <1>1, <1>4 DEF Holds

-----------------------------------------------------------------------------
(* A graph describes a shape in the scopes around it.  w and c say whether *)
(* the graph may admit more, and less, than the shape accepts.             *)

Fits(G, u, scope) ==
  /\ Lowered[u].ok /\ Range(Lowered[u].defs) \subseteq Range(G)
  /\ \A x \in About[u].free : DefiningScopes(scope, x) # {}

Known(u, w, c) == (~w => ~About[u].wider) /\ (~c => ~About[u].closer)

(* What the scopes define fits, and the graph has it.                      *)
Covers(G, d, scope, w, c) ==
  /\ Fits(G, d.shape, scope) /\ Known(d.shape, w, c)
  /\ Definition(d.name, Lowered[d.shape].production) \in Range(G)

ScopesFit(G, scope, w, c) ==
  \A i \in DOMAIN scope : \A j \in DOMAIN Node[scope[i]].defs :
    Covers(G, Node[scope[i]].defs[j], scope, w, c)

Ready(G, w, c, q) ==
  /\ q.task.path = "expr" /\ Fits(G, q.task.shape, q.scope) /\ Known(q.task.shape, w, c)
  /\ ScopesFit(G, q.scope, w, c)

Describes(G, w, c, q) ==
  LET admitted == Holds(G, q.task.shape, q.task.expr, q.fuel)  st == Meaning[q].st IN
  /\ st \in {"accept", "reject"}
  /\ ~w /\ admitted => st = "accept"
  /\ ~c /\ st = "accept" => admitted

(* Only these kinds of shapes are lowered.                                 *)
LEMMA OkKinds ==
  ASSUME NEW s \in Shape, Lowered[s].ok
  PROVE  Node[s].kind \in {"any", "exprKind", "exact", "ref", "oneOf", "list", "fields", "defs"}
<1> SUFFICES ASSUME Node[s].kind \notin
                      {"any", "exprKind", "exact", "ref", "oneOf", "list", "fields", "defs"}
             PROVE  FALSE
    OBVIOUS
<1>1. Lowered[s] = Unsupported
      BY LoweredIs
<1> QED BY <1>1 DEF Unsupported

(* An inner scope hides no name of the outer ones.                         *)
LEMMA ScopeGrows ==
  ASSUME NEW scope \in Seq(Shape), NEW s \in Shape, NEW x
  PROVE  /\ DefiningScopes(scope, x) # {} => DefiningScopes(Append(scope, s), x) # {}
         /\ Defines(s, x) => DefiningScopes(Append(scope, s), x) # {}
         /\ DOMAIN Append(scope, s) = 1..Len(scope) + 1 /\ Len(scope) \in Nat
         /\ DOMAIN scope = 1..Len(scope)
         /\ \A i \in 1..Len(scope) : Append(scope, s)[i] = scope[i]
         /\ Append(scope, s)[Len(scope) + 1] = s
<1>1. /\ DOMAIN Append(scope, s) = 1..Len(scope) + 1 /\ Len(scope) \in Nat
      /\ DOMAIN scope = 1..Len(scope)
      /\ \A i \in 1..Len(scope) : Append(scope, s)[i] = scope[i]
      /\ Append(scope, s)[Len(scope) + 1] = s
      BY AppendProperties, LenProperties
<1>2. \A i \in 1..Len(scope) : i \in 1..Len(scope) + 1
      BY <1>1
<1>3. Len(scope) + 1 \in 1..Len(scope) + 1
      BY <1>1
<1>4. ASSUME NEW i \in DOMAIN scope, Defines(scope[i], x)
      PROVE  i \in DefiningScopes(Append(scope, s), x)
      BY <1>1, <1>2, <1>4 DEF DefiningScopes
<1>5. Defines(s, x) => Len(scope) + 1 \in DefiningScopes(Append(scope, s), x)
      BY <1>1, <1>3 DEF DefiningScopes
<1>6. DefiningScopes(scope, x) # {} => DefiningScopes(Append(scope, s), x) # {}
      BY <1>4 DEF DefiningScopes
<1> QED BY <1>1, <1>5, <1>6

(* A shape in a shape that fits, with one more scope inside a definition.  *)
LEMMA FitsBelow ==
  ASSUME NEW G, NEW w, NEW c, NEW s \in Shape, NEW u \in Below(s), Within(u, s),
         NEW scope \in Seq(Shape), Fits(G, s, scope), Known(s, w, c)
  PROVE  /\ Known(u, w, c)
         /\ Node[s].kind # "defs" => Fits(G, u, scope)
         /\ Node[s].kind = "defs" => Fits(G, u, Append(scope, s))
<1>1. Lowered[u].ok /\ Range(Lowered[u].defs) \subseteq Range(G)
      BY DEF Within, Fits
<1>2. About[u].free \subseteq About[s].free \cup Bound(s)
      BY AboutIs
<1>3. Known(u, w, c)
      BY AboutIs DEF Known
<1>4. ASSUME Node[s].kind # "defs" PROVE Fits(G, u, scope)
  <2>1. Bound(s) = {}
        BY <1>4 DEF Bound
  <2> QED BY <1>1, <1>2, <2>1 DEF Fits
<1>5. ASSUME Node[s].kind = "defs" PROVE Fits(G, u, Append(scope, s))
  <2>1. \A x \in Bound(s) : Defines(s, x)
        BY <1>5 DEF Bound, Defines
  <2>2. ASSUME NEW x \in About[u].free PROVE DefiningScopes(Append(scope, s), x) # {}
        BY <1>2, <2>1, ScopeGrows DEF Fits
  <2> QED BY <1>1, <2>2 DEF Fits
<1> QED BY <1>3, <1>4, <1>5

(* Below its definitions a shape is asked about in a scope that fits.      *)
LEMMA InnerScopesFit ==
  ASSUME NEW G, NEW w, NEW c, NEW s \in Shape, Node[s].kind = "defs",
         NEW scope \in Seq(Shape), Fits(G, s, scope), Known(s, w, c), ScopesFit(G, scope, w, c)
  PROVE  ScopesFit(G, Append(scope, s), w, c)
<1> DEFINE inner == Append(scope, s)
           n == Node[s]
<1> SUFFICES ASSUME NEW i \in DOMAIN inner, NEW j \in DOMAIN Node[inner[i]].defs
             PROVE  Covers(G, Node[inner[i]].defs[j], inner, w, c)
    BY DEF ScopesFit
<1>1. /\ DOMAIN inner = 1..Len(scope) + 1 /\ Len(scope) \in Nat /\ DOMAIN scope = 1..Len(scope)
      /\ \A k \in 1..Len(scope) : inner[k] = scope[k]
      /\ inner[Len(scope) + 1] = s
      BY ScopeGrows
<1>2. \A x : DefiningScopes(scope, x) # {} => DefiningScopes(inner, x) # {}
      BY ScopeGrows
<1> HIDE DEF inner
<1>3. CASE i \in 1..Len(scope)
  <2>1. inner[i] = scope[i] /\ i \in DOMAIN scope
        BY <1>1, <1>3
  <2>2. Covers(G, Node[inner[i]].defs[j], scope, w, c)
        BY <2>1 DEF ScopesFit
  <2> QED BY <1>2, <2>2 DEF Covers, Fits
<1>4. CASE i = Len(scope) + 1
  <2>1. inner[i] = s /\ j \in DOMAIN n.defs
        BY <1>1, <1>4
  <2>2. j \in 1..Len(n.defs) /\ Lowered[s].ok
        BY <2>1, ShapeTyped DEF Fits
  <2> DEFINE u == n.defs[j].shape
  <2>3. Within(u, s) /\ Definition(n.defs[j].name, Lowered[u].production) \in Range(Lowered[s].defs)
        BY <2>2, Inside
  <2>4. u \in Below(s)
        BY <2>1 DEF Below
  <2> HIDE DEF u
  <2>5. Known(u, w, c) /\ Fits(G, u, inner)
        BY <2>3, <2>4, FitsBelow DEF inner
  <2>6. Definition(n.defs[j].name, Lowered[u].production) \in Range(G)
        BY <2>3 DEF Fits
  <2> QED BY <2>1, <2>5, <2>6 DEF Covers, u
<1> QED BY <1>1, <1>3, <1>4

-----------------------------------------------------------------------------
(* The questions that a question whose shape is lowered asks.              *)
AskOf(q, u, x) == Asking(Job(u, x, "expr"), q.scope, q.fuel)

(* The fields of a question.                                               *)
LEMMA AskingIs ==
  ASSUME NEW u, NEW x, NEW scope, NEW fuel
  PROVE  LET q == Asking(Job(u, x, "expr"), scope, fuel) IN
         /\ q.task.shape = u /\ q.task.expr = x /\ q.task.path = "expr"
         /\ q.scope = scope /\ q.fuel = fuel
BY DEF Asking, Job

(* The questions a question rests on, by the kind of its shape.            *)
LEMMA OneOfParts ==
  ASSUME NEW q \in Question, q.task.path = "expr", Kind(q.task) = "oneOf"
  PROVE  /\ Open(q.task) /\ Places(q) = 1..Len(Kids(q.task))
         /\ \A i \in Places(q) : Part(q, i) = AskOf(q, Kids(q.task)[i], q.task.expr)
<1> DEFINE t == q.task
<1>1. Open(t) /\ Places(q) = 1..Len(Kids(t)) /\ Kind(t) \in LoopKinds
      BY BranchParts
<1>2. \A i : Child(t, i) = Job(Kids(t)[i], t.expr, t.path)
      BY LoopCases
<1>3. \A i : Part(q, i) = Asking(Child(t, i), q.scope, q.fuel)
      BY <1>1, PartCases
<1> HIDE DEF t
<1>4. t.path = "expr"
      BY DEF t
<1> QED BY <1>1, <1>2, <1>3, <1>4 DEF AskOf, t

LEMMA ListParts ==
  ASSUME NEW q \in Question, q.task.path = "expr", Kind(q.task) = "list", Open(q.task)
  PROVE  LET t == q.task IN
         /\ Places(q) = 1..Len(Items(t)) /\ LoopLen(t) = Len(Items(t))
         /\ \A i \in 1..Len(Items(t)) :
              Part(q, i) = AskOf(q, IF i <= Len(Kids(t)) THEN Kids(t)[i] ELSE Node[t.shape].rest,
                                 Items(t)[i])
<1> DEFINE t == q.task
           Which(i) == IF i <= Len(Kids(t)) THEN Kids(t)[i] ELSE Node[t.shape].rest
<1>1. /\ t \in Task /\ None \notin Task /\ Len(Items(t)) \in Nat /\ Len(Kids(t)) \in Nat
      /\ Items(t) \in Seq(Expr) /\ \A i \in 1..Len(Items(t)) : Items(t)[i] \in Expr
      /\ \A i \in 1..Len(Kids(t)) : Kids(t)[i] \in Shape
      /\ Node[t.shape].rest \in Shape \cup {None}
      BY CostTyped, PartsTyped, GraphAssumption
<1>2. Kind(t) \in LoopKinds
      BY DEF LoopKinds, AllKinds
<1>3. LoopLen(t) = Len(Items(t)) /\ \A i : Child(t, i) = ListChild(t, i)
      BY LoopCases
<1>4. ~ListRefuses(t)
      BY <1>2 DEF Open, Refuses
<1>5. \A i \in 1..Len(Items(t)) : Which(i) \in Shape
  <2>1. /\ Len(Items(t)) >= Len(Kids(t))
        /\ Node[t.shape].rest = None => Len(Items(t)) = Len(Kids(t))
        BY <1>4, <1>1 DEF ListRefuses
  <2> QED BY <1>1, <2>1
<1>6. \A i : Child(t, i) = Job(Which(i), Items(t)[i], "expr")
      BY <1>3 DEF ListChild
<1>7. \A i \in 1..Len(Items(t)) : Child(t, i) # None
  <2> HIDE DEF Which
  <2>1. \A i \in 1..Len(Items(t)) : Job(Which(i), Items(t)[i], "expr") \in Task
        BY <1>1, <1>5, JobTyped DEF Paths
  <2> QED BY <1>1, <1>6, <2>1
<1>8. Places(q) = {i \in 1..LoopLen(t) : Child(t, i) # None}
      BY <1>2, PlacesCases
<1>9. \A i : Part(q, i) = Asking(Child(t, i), q.scope, q.fuel)
      BY <1>2, PartCases
<1> HIDE DEF Which
<1>10. Places(q) = 1..Len(Items(t))
       BY <1>3, <1>7, <1>8
<1>11. \A i : Part(q, i) = AskOf(q, Which(i), Items(t)[i])
       BY <1>6, <1>9 DEF AskOf
<1> QED BY <1>3, <1>10, <1>11 DEF Which

LEMMA FieldsParts ==
  ASSUME NEW q \in Question, Kind(q.task) = "fields", Open(q.task)
  PROVE  LET t == q.task IN
         /\ LoopLen(t) = Len(Kids(t)) /\ Len(Kids(t)) \in Nat
         /\ Places(q) = {i \in 1..Len(Kids(t)) : EntryOf(t, FieldKey(t, i)) # 0}
         /\ \A i \in Places(q) :
              Part(q, i) = AskOf(q, Kids(t)[i], Items(t)[EntryOf(t, FieldKey(t, i))])
<1> DEFINE t == q.task
           Entry(i) == EntryOf(t, FieldKey(t, i))
           job(i) == Job(Kids(t)[i], Items(t)[Entry(i)], "expr")
<1>1. /\ t \in Task /\ None \notin Task /\ Len(Kids(t)) \in Nat
      /\ \A i \in 1..Len(Kids(t)) : Kids(t)[i] \in Shape
      BY CostTyped, PartsTyped, GraphAssumption
<1>2. Kind(t) \in LoopKinds
      BY DEF LoopKinds, AllKinds
<1>3. LoopLen(t) = Len(Kids(t)) /\ \A i : Child(t, i) = FieldsChild(t, i)
      BY LoopCases
<1>4. Form(t) \in {"map", "object"}
      BY <1>2 DEF Open, Refuses, FieldsRefuses
<1>5. \A i \in 1..Len(Kids(t)) : Entry(i) # 0 => job(i) \in Task
  <2>1. \A key : EntryOf(t, key) # 0 => Items(t)[EntryOf(t, key)] \in Expr
        BY <1>1, <1>4, EntryTyped
  <2> QED BY <1>1, <2>1, JobTyped DEF Paths
<1>6. \A i : Child(t, i) = IF Entry(i) = 0 THEN None ELSE job(i)
      BY <1>3 DEF FieldsChild
<1>7. Places(q) = {i \in 1..LoopLen(t) : Child(t, i) # None}
      BY <1>2, PlacesCases
<1>8. \A i : Part(q, i) = Asking(Child(t, i), q.scope, q.fuel)
      BY <1>2, PartCases
<1> HIDE DEF Entry, job, t
<1>9. Places(q) = {i \in 1..Len(Kids(t)) : Entry(i) # 0}
      BY <1>1, <1>3, <1>5, <1>6, <1>7
<1>10. \A i \in Places(q) : Part(q, i) = Asking(job(i), q.scope, q.fuel)
       BY <1>6, <1>8, <1>9
<1> QED BY <1>1, <1>3, <1>9, <1>10 DEF AskOf, Entry, job, t

(* A reference resolves to a definition of a scope.                        *)
LEMMA ResolvedIs ==
  ASSUME NEW scope \in Seq(Shape), NEW name, DefiningScopes(scope, name) # {}
  PROVE  \E i \in DOMAIN scope : \E j \in DOMAIN Node[scope[i]].defs :
           /\ Node[scope[i]].defs[j].name = name
           /\ Resolved(scope, name) = Node[scope[i]].defs[j].shape
<1> DEFINE T == DefiningScopes(scope, name)
<1>1. Len(scope) \in Nat /\ DOMAIN scope = 1..Len(scope)
      BY LenProperties
<1>2. T \in SUBSET (1..Len(scope)) /\ T # {}
      BY <1>1 DEF DefiningScopes
<1>3. Max(T) \in T
  <2> HIDE DEF T
  <2> QED BY <1>1, <1>2, MaxIs
<1> DEFINE s == scope[Max(T)]
           ds == Node[s].defs
           U == {i \in DOMAIN ds : ds[i].name = name}
<1>4. Defines(s, name) /\ s \in Shape /\ Max(T) \in DOMAIN scope
      BY <1>1, <1>2, <1>3, ElementOfSeq DEF DefiningScopes
<1>5. Len(ds) \in Nat /\ DOMAIN ds = 1..Len(ds)
  <2> HIDE DEF s
  <2> QED BY <1>4, ShapeTyped
<1>6. U \subseteq 1..Len(ds) /\ U # {}
      BY <1>4, <1>5 DEF Defines
<1>7. \E i \in U : \A j \in U : j <= i
  <2> HIDE DEF U, ds
  <2> QED BY <1>5, <1>6, LastPlace
<1>8. \E i \in DOMAIN ds : /\ ds[i].name = name
                           /\ \A j \in DOMAIN ds : ds[j].name = name => j <= i
      BY <1>7
<1>9. PICK i \in DOMAIN ds : ds[i].name = name /\ LastDef(s, name) = ds[i].shape
      BY <1>8 DEF LastDef
<1>10. Resolved(scope, name) = LastDef(s, name)
       BY DEF Resolved
<1> QED BY <1>4, <1>9, <1>10

(* A part of a question whose shape fits is one whose shape fits.          *)
LEMMA KidReady ==
  ASSUME NEW G, NEW w, NEW c, NEW q \in Question, Ready(G, w, c, q),
         NEW u \in Below(q.task.shape), Within(u, q.task.shape), NEW x,
         Node[q.task.shape].kind # "defs"
  PROVE  Ready(G, w, c, AskOf(q, u, x))
<1> DEFINE r == AskOf(q, u, x)
<1>1. r.task.path = "expr" /\ r.task.shape = u /\ r.scope = q.scope
      BY AskingIs DEF AskOf
<1>2. q.task.shape \in Shape /\ q.scope \in Seq(Shape)
      BY CostTyped
<1>3. Fits(G, u, q.scope) /\ Known(u, w, c)
  <2> DEFINE s == q.task.shape
  <2>1. Fits(G, s, q.scope) /\ Known(s, w, c)
        BY DEF Ready
  <2>2. s \in Shape /\ u \in Below(s) /\ Within(u, s) /\ Node[s].kind # "defs"
        BY <1>2
  <2> HIDE DEF s
  <2> QED BY <1>2, <2>1, <2>2, FitsBelow
<1> HIDE DEF r
<1>4. ScopesFit(G, q.scope, w, c)
      BY DEF Ready
<1>5. Ready(G, w, c, r)
      BY <1>1, <1>3, <1>4 DEF Ready
<1> QED BY <1>5 DEF r

(* Every question a ready question rests on is ready.                      *)
LEMMA PartReady ==
  ASSUME NEW G, NEW w, NEW c, NEW q \in Question, Ready(G, w, c, q), NEW i \in Places(q)
  PROVE  Ready(G, w, c, Part(q, i))
<1> DEFINE t == q.task
           s == t.shape
           n == Node[s]
<1>1. /\ s \in Shape /\ q.scope \in Seq(Shape) /\ t.path = "expr" /\ Lowered[s].ok
      /\ Fits(G, s, q.scope) /\ Known(s, w, c) /\ ScopesFit(G, q.scope, w, c)
      BY CostTyped DEF Ready, Fits
<1>2. n.kind \in {"any", "exprKind", "exact", "ref", "oneOf", "list", "fields", "defs"}
      BY <1>1, OkKinds
<1>3. /\ DOMAIN n.kids = 1..Len(n.kids) /\ DOMAIN n.defs = 1..Len(n.defs)
      /\ Len(n.kids) \in Nat /\ Len(n.defs) \in Nat
      BY <1>1, ShapeTyped
<1>4. n.kind \in {"oneOf", "list", "fields", "defs"} =>
        \A k \in 1..Len(n.kids) : n.kids[k] \in Below(s) /\ Within(n.kids[k], s)
  <2>1. n.kind \in {"oneOf", "list", "fields", "defs"} =>
          \A k \in 1..Len(n.kids) : n.kids[k] \in Below(s)
        BY <1>3 DEF Below
  <2>2. n.kind \in {"oneOf", "list", "fields", "defs"} =>
          \A k \in 1..Len(n.kids) : Within(n.kids[k], s)
        BY <1>1, Inside
  <2> QED BY <2>1, <2>2
<1>5. CASE n.kind \in {"any", "exprKind", "exact"}
  <2>1. Places(q) = {}
        BY <1>5, PlacesCases DEF Kind, LoopKinds, AllKinds, AnyKinds, WrapKinds
  <2> QED BY <2>1
<1>6. CASE n.kind = "oneOf"
  <2>1. Places(q) = 1..Len(n.kids) /\ Part(q, i) = AskOf(q, n.kids[i], t.expr)
        BY <1>1, <1>6, OneOfParts DEF Kind, Kids
  <2> DEFINE u == n.kids[i]
  <2>2. u \in Below(s) /\ Within(u, s)
        BY <1>4, <1>6, <2>1
  <2> HIDE DEF u
  <2>3. Ready(G, w, c, AskOf(q, u, t.expr))
        BY <1>6, <2>2, KidReady
  <2> QED BY <2>1, <2>3 DEF u
<1>7. CASE n.kind = "list"
  <2>1. Open(t)
    <3>1. Kind(t) \in LoopKinds
          BY <1>7 DEF Kind, LoopKinds, AllKinds
    <3> QED BY <3>1, PlacesCases
  <2> DEFINE u == IF i <= Len(n.kids) THEN n.kids[i] ELSE n.rest
             items == Term[t.expr].items
  <2>2. i \in 1..Len(items) /\ Part(q, i) = AskOf(q, u, items[i])
        BY <1>1, <1>7, <2>1, ListParts DEF Kind, Kids, Items
  <2>3. ~ListRefuses(t)
        BY <1>7, <2>1 DEF Open, Refuses, Kind, LoopKinds, AllKinds
  <2>4. i > Len(n.kids) => n.rest # None
    <3>1. Len(items) \in Nat
          BY <1>1, TermTyped, CostTyped, GraphTyped
    <3>2. n.rest = None => Len(items) = Len(n.kids)
          BY <2>3 DEF ListRefuses, Items, Kids
    <3> QED BY <1>3, <2>2, <3>1, <3>2
  <2>5. n.rest # None => n.rest \in Below(s) /\ Within(n.rest, s)
        BY <1>1, <1>7, Inside DEF Below
  <2>6. u \in Below(s) /\ Within(u, s)
    <3>1. i \in Nat /\ i >= 1
          BY <1>1, TermTyped, CostTyped, GraphTyped, <2>2
    <3> QED BY <1>3, <1>4, <1>7, <2>4, <2>5, <3>1
  <2> HIDE DEF u
  <2>7. Ready(G, w, c, AskOf(q, u, items[i]))
        BY <1>7, <2>6, KidReady
  <2> QED BY <2>2, <2>7
<1>8. CASE n.kind = "fields"
  <2>1. Open(t)
    <3>1. Kind(t) \in LoopKinds
          BY <1>8 DEF Kind, LoopKinds, AllKinds
    <3> QED BY <3>1, PlacesCases
  <2> DEFINE u == n.kids[i]
             x == Items(t)[EntryOf(t, FieldKey(t, i))]
  <2>2. i \in 1..Len(n.kids) /\ Part(q, i) = AskOf(q, u, x)
        BY <1>8, <2>1, FieldsParts DEF Kind, Kids
  <2>3. u \in Below(s) /\ Within(u, s)
        BY <1>4, <1>8, <2>2
  <2> HIDE DEF u, x
  <2>4. Ready(G, w, c, AskOf(q, u, x))
        BY <1>8, <2>3, KidReady
  <2> QED BY <2>2, <2>4
<1>9. CASE n.kind = "defs"
  <2> DEFINE u == n.kids[1]
             inner == Append(q.scope, s)
             r == Asking(Job(u, t.expr, "expr"), inner, q.fuel)
  <2>1. Part(q, i) = r
        BY <1>1, <1>9, PartCases DEF Kind, Kids
  <2>2. Len(n.kids) = 1
        BY <1>1, <1>9, ShapeTyped DEF NodeOK
  <2>3. u \in Below(s) /\ Within(u, s)
        BY <1>4, <1>9, <2>2
  <2> HIDE DEF u
  <2>4. Fits(G, u, inner) /\ Known(u, w, c)
        BY <1>1, <1>9, <2>3, FitsBelow
  <2>5. ScopesFit(G, inner, w, c)
        BY <1>1, <1>9, InnerScopesFit
  <2> HIDE DEF inner
  <2>6. r.task.path = "expr" /\ r.task.shape = u /\ r.scope = inner
        BY AskingIs
  <2> HIDE DEF r
  <2>7. Ready(G, w, c, r)
        BY <2>4, <2>5, <2>6 DEF Ready
  <2> QED BY <2>1, <2>7
<1>10. CASE n.kind = "ref"
  <2> DEFINE u == Resolved(q.scope, n.name)
             r == Asking(Job(u, t.expr, "expr"), q.scope, q.fuel - 1)
  <2>1. Part(q, i) = r
        BY <1>1, <1>10, PartCases DEF Kind
  <2>2. n.name \in About[s].free
        BY <1>1, <1>10, AboutIs
  <2>3. DefiningScopes(q.scope, n.name) # {}
        BY <1>1, <2>2 DEF Fits
  <2>4. PICK a \in DOMAIN q.scope : \E j \in DOMAIN Node[q.scope[a]].defs :
          u = Node[q.scope[a]].defs[j].shape
    <3> DEFINE name == n.name
    <3>1. DefiningScopes(q.scope, name) # {} /\ q.scope \in Seq(Shape)
          BY <1>1, <2>3
    <3> HIDE DEF name
    <3>2. \E a \in DOMAIN q.scope : \E j \in DOMAIN Node[q.scope[a]].defs :
            Resolved(q.scope, name) = Node[q.scope[a]].defs[j].shape
          BY <3>1, ResolvedIs
    <3> QED BY <3>2 DEF name
  <2>5. Fits(G, u, q.scope) /\ Known(u, w, c)
        BY <1>1, <2>4 DEF ScopesFit, Covers
  <2>6. r.task.path = "expr" /\ r.task.shape = u /\ r.scope = q.scope
        BY AskingIs
  <2> HIDE DEF r, u
  <2>7. Ready(G, w, c, r)
        BY <1>1, <2>5, <2>6 DEF Ready
  <2> QED BY <2>1, <2>7
<1> QED BY <1>2, <1>5, <1>6, <1>7, <1>8, <1>9, <1>10

-----------------------------------------------------------------------------
(* Of a question whose parts their shapes' productions describe, so does   *)
(* the production of its own shape, one kind of shape at a time.           *)
Settled(st) == st \in {"accept", "reject"}

(* A loop over settled outcomes is settled, and accepts if all of them do. *)
LEMMA EverySettled ==
  ASSUME NEW from, NEW rs, DOMAIN rs \subseteq Nat, NEW n \in Nat,
         \A i \in DOMAIN rs : Settled(rs[i].st)
  PROVE  LET r == Every(from, rs, n) IN
         /\ Settled(r.st)
         /\ r.st = "accept" <=> \A i \in DOMAIN rs : i <= n => rs[i].st = "accept"
<1> DEFINE bad == {i \in DOMAIN rs : i <= n /\ rs[i].st # "accept"}
           r == Every(from, rs, n)
<1>1. CASE bad = {}
  <2>1. \A i \in DOMAIN rs : i <= n => rs[i].st = "accept"
        BY <1>1
  <2>2. r = Accept(Together(from, rs)[n].score, Together(from, rs)[n].caps)
        BY <2>1, EveryGood
  <2>3. r.st = "accept"
        BY <2>2 DEF Accept
  <2> QED BY <2>1, <2>3 DEF Settled
<1>2. CASE bad # {}
  <2>1. r = rs[Min(bad)]
        BY <1>2 DEF Every
  <2>2. Min(bad) \in bad
    <3>1. bad \in SUBSET Nat
          OBVIOUS
    <3> HIDE DEF bad
    <3> QED BY <1>2, <3>1, MinIs
  <2> DEFINE worst == Min(bad)
  <2>3. worst \in DOMAIN rs /\ worst <= n /\ rs[worst].st # "accept"
        BY <2>2
  <2>4. r = rs[worst]
        BY <2>1
  <2> HIDE DEF worst, r
  <2>5. Settled(r.st) /\ r.st # "accept"
        BY <2>3, <2>4
  <2> QED BY <2>3, <2>5 DEF r
<1> QED BY <1>1, <1>2

(* What describing means for one question.                                 *)
LEMMA AskedDescribes ==
  ASSUME NEW G, NEW w, NEW c, NEW u, NEW x, NEW scope, NEW fuel,
         Describes(G, w, c, Asking(Job(u, x, "expr"), scope, fuel))
  PROVE  LET st == Meaning[Asking(Job(u, x, "expr"), scope, fuel)].st IN
         /\ Settled(st)
         /\ ~w /\ Holds(G, u, x, fuel) => st = "accept"
         /\ ~c /\ st = "accept" => Holds(G, u, x, fuel)
<1> DEFINE r == Asking(Job(u, x, "expr"), scope, fuel)
<1>1. r.task.shape = u /\ r.task.expr = x /\ r.fuel = fuel
      BY AskingIs
<1> HIDE DEF r
<1>2. Describes(G, w, c, r)
      BY DEF r
<1>3. /\ Meaning[r].st \in {"accept", "reject"}
      /\ ~w /\ Holds(G, r.task.shape, r.task.expr, r.fuel) => Meaning[r].st = "accept"
      /\ ~c /\ Meaning[r].st = "accept" => Holds(G, r.task.shape, r.task.expr, r.fuel)
      BY <1>2 DEF Describes
<1>4. /\ Settled(Meaning[r].st)
      /\ ~w /\ Holds(G, u, x, fuel) => Meaning[r].st = "accept"
      /\ ~c /\ Meaning[r].st = "accept" => Holds(G, u, x, fuel)
      BY <1>1, <1>3 DEF Settled
<1> QED BY <1>4 DEF r

(* A verdict is settled.                                                   *)
LEMMA VerdictIs ==
  ASSUME NEW b \in BOOLEAN, NEW n
  PROVE  Settled(Verdict(b, n).st) /\ (Verdict(b, n).st = "accept" <=> b)
BY DEF Verdict, Accept, Reject, Settled

(* What is true of every question asked below.                             *)
LEMMA ReadyTyped ==
  ASSUME NEW G, NEW w, NEW c, NEW q \in Question, Ready(G, w, c, q)
  PROVE  LET s == q.task.shape IN
         /\ q.task \in Task /\ s \in Shape /\ q.task.expr \in Expr /\ q.fuel \in Nat
         /\ q.scope \in Seq(Shape) /\ q.task.path = "expr" /\ Lowered[s].ok
         /\ Fits(G, s, q.scope) /\ Known(s, w, c) /\ ScopesFit(G, q.scope, w, c)
         /\ Meaning[q] = Outcome(q.task, Outcomes(q))
         /\ DOMAIN Outcomes(q) = Places(q)
         /\ \A i \in Places(q) : Outcomes(q)[i] = Meaning[Part(q, i)]
<1>1. Meaning[q] = Outcome(q.task, Outcomes(q))
      BY MeaningEquation DEF Outcomes
<1>2. DOMAIN Outcomes(q) = Places(q) /\ \A i \in Places(q) : Outcomes(q)[i] = Meaning[Part(q, i)]
      BY DEF Outcomes
<1>3. q.task \in Task /\ q.task.shape \in Shape /\ q.fuel \in Nat /\ q.scope \in Seq(Shape)
      BY CostTyped
<1>4. q.task.expr \in Expr
      BY <1>3, GraphTyped
<1> QED BY <1>1, <1>2, <1>3, <1>4 DEF Ready, Fits

(* Each kind of shape is described if its parts are.                       *)
LEMMA LeafDescribed ==
  ASSUME NEW G \in Seq(DefType), NEW w, NEW c, NEW q \in Question, Ready(G, w, c, q),
         Kind(q.task) \in {"any", "exact", "exprKind"}
  PROVE  Describes(G, w, c, q)
<1> DEFINE t == q.task
           s == t.shape
           n == Node[s]
           admitted == Holds(G, s, t.expr, q.fuel)
<1>1. /\ s \in Shape /\ t.expr \in Expr /\ q.fuel \in Nat /\ Lowered[s].ok /\ Known(s, w, c)
      /\ Meaning[q] = Outcome(t, Outcomes(q))
      BY ReadyTyped
<1>2. Meaning[q] = LeafResult(t)
      BY <1>1, OutcomeCases DEF LeafKinds
<1>3. CASE n.kind = "any"
  <2>1. Meaning[q].st = "accept"
        BY <1>2, <1>3 DEF LeafResult, Kind, Accept
  <2>2. admitted
        BY <1>1, <1>3, AnyHolds
  <2> QED BY <2>1, <2>2 DEF Describes
<1>4. CASE n.kind = "exact"
  <2>1. Meaning[q] = Verdict(t.expr = n.arg, 20)
        BY <1>2, <1>4 DEF LeafResult, Kind
  <2>2. admitted = (n.arg = t.expr)
        BY <1>1, <1>4, TermHolds
  <2>3. Settled(Meaning[q].st) /\ (Meaning[q].st = "accept" <=> t.expr = n.arg)
        BY <2>1, VerdictIs
  <2> HIDE DEF admitted
  <2>4. Meaning[q].st = "accept" <=> admitted
        BY <2>2, <2>3
  <2> QED BY <2>3, <2>4, Zenon DEF Describes, admitted, Settled
<1>5. CASE n.kind = "exprKind"
  <2>1. Meaning[q] = Verdict(Form(t) = n.arg, 10)
        BY <1>2, <1>5 DEF LeafResult, Kind
  <2>2. /\ n.arg \notin {"list", "vector"} => admitted = (Term[t.expr].form = n.arg)
        /\ Term[t.expr].form = n.arg => admitted
        BY <1>1, <1>5, TermHolds
  <2>3. Settled(Meaning[q].st) /\ (Meaning[q].st = "accept" <=> Form(t) = n.arg)
        BY <2>1, VerdictIs
  <2>4. ~w => n.arg \notin {"list", "vector"}
        BY <1>1, <1>5, AboutIs DEF Known, Wider
  <2> HIDE DEF admitted
  <2>5. /\ ~w /\ admitted => Meaning[q].st = "accept"
        /\ Meaning[q].st = "accept" => admitted
        BY <2>2, <2>3, <2>4 DEF Form
  <2> QED BY <2>3, <2>5, Zenon DEF Describes, admitted, Settled
<1> QED BY <1>3, <1>4, <1>5 DEF Kind

LEMMA OneOfDescribed ==
  ASSUME NEW G \in Seq(DefType), NEW w, NEW c, NEW q \in Question, Ready(G, w, c, q),
         \A i \in Places(q) : Describes(G, w, c, Part(q, i)), Kind(q.task) = "oneOf"
  PROVE  Describes(G, w, c, q)
<1> DEFINE t == q.task
           s == t.shape
           many == Len(Node[s].kids)
           rs == Outcomes(q)
           Kid(i) == Holds(G, Node[s].kids[i], t.expr, q.fuel)
           admitted == Holds(G, s, t.expr, q.fuel)
<1>1. /\ s \in Shape /\ t.expr \in Expr /\ q.fuel \in Nat /\ Lowered[s].ok /\ t.path = "expr"
      /\ Meaning[q] = Outcome(t, rs) /\ DOMAIN rs = Places(q)
      /\ \A i \in Places(q) : rs[i] = Meaning[Part(q, i)]
      BY ReadyTyped
<1>2. /\ Open(t) /\ Places(q) = 1..many
      /\ \A i \in 1..many : Part(q, i) = AskOf(q, Node[s].kids[i], t.expr)
      BY <1>1, OneOfParts DEF Kids
<1>3. \A i \in 1..many : /\ Settled(rs[i].st)
                         /\ ~w /\ Kid(i) => rs[i].st = "accept"
                         /\ ~c /\ rs[i].st = "accept" => Kid(i)
  <2> SUFFICES ASSUME NEW i \in 1..many
               PROVE  /\ Settled(rs[i].st)
                      /\ ~w /\ Kid(i) => rs[i].st = "accept"
                      /\ ~c /\ rs[i].st = "accept" => Kid(i)
      OBVIOUS
  <2> DEFINE u == Node[s].kids[i]
             r == Asking(Job(u, t.expr, "expr"), q.scope, q.fuel)
  <2>1. rs[i] = Meaning[r] /\ Describes(G, w, c, r)
        BY <1>1, <1>2 DEF AskOf
  <2> HIDE DEF u, rs
  <2>2. /\ Settled(Meaning[r].st)
        /\ ~w /\ Holds(G, u, t.expr, q.fuel) => Meaning[r].st = "accept"
        /\ ~c /\ Meaning[r].st = "accept" => Holds(G, u, t.expr, q.fuel)
        BY <2>1, AskedDescribes
  <2> HIDE DEF r
  <2> QED BY <2>1, <2>2 DEF u
<1>4. admitted = \E i \in 1..many : Kid(i)
      BY <1>1, OneOfHolds DEF Kind
<1> HIDE DEF Kid, admitted, many
<1>5. Meaning[q] = OrOutcome(t, rs)
  <2>1. Kind(t) \in LoopKinds
        BY DEF LoopKinds, AnyKinds
  <2>2. Meaning[q] = LoopOutcome(t, rs)
        BY <1>1, <1>2, <2>1, OutcomeCases
  <2>3. LoopOutcome(t, rs) = OrOutcome(t, rs)
        BY DEF LoopOutcome, Kind, AnyKinds
  <2> QED BY <2>2, <2>3
<1>6. CASE Deciding(rs) = {}
  <2>1. Meaning[q].st = "reject"
        BY <1>5, <1>6 DEF OrOutcome, Reject
  <2>2. \A i \in 1..many : rs[i].st = "reject"
        BY <1>1, <1>2, <1>6 DEF Deciding
  <2>3. ~w => ~admitted
        BY <1>3, <1>4, <2>2
  <2> QED BY <2>1, <2>3, Zenon DEF Describes, admitted
<1>7. CASE Deciding(rs) # {}
  <2> DEFINE first == Min(Deciding(rs))
  <2>1. Meaning[q] = rs[first]
        BY <1>5, <1>7 DEF OrOutcome
  <2>2. first \in Deciding(rs)
    <3>1. Deciding(rs) \in SUBSET Nat
          BY <1>1, <1>2 DEF Deciding
    <3> QED BY <1>7, <3>1, MinIs
  <2> HIDE DEF first, rs
  <2>3. first \in 1..many /\ rs[first].st # "reject"
        BY <1>1, <1>2, <2>2 DEF Deciding
  <2>4. Meaning[q].st = "accept"
        BY <1>3, <2>1, <2>3 DEF Settled
  <2>5. ~c => admitted
        BY <1>3, <1>4, <2>1, <2>3, <2>4
  <2> QED BY <2>4, <2>5, Zenon DEF Describes, admitted
<1> QED BY <1>6, <1>7

LEMMA ListDescribed ==
  ASSUME NEW G \in Seq(DefType), NEW w, NEW c, NEW q \in Question, Ready(G, w, c, q),
         \A i \in Places(q) : Describes(G, w, c, Part(q, i)), Kind(q.task) = "list"
  PROVE  Describes(G, w, c, q)
<1> DEFINE t == q.task
           s == t.shape
           n == Node[s]
           items == Term[t.expr].items
           rs == Outcomes(q)
           Which(i) == IF i <= Len(n.kids) THEN n.kids[i] ELSE n.rest
           Item(i) == Holds(G, Which(i), items[i], q.fuel)
           admitted == Holds(G, s, t.expr, q.fuel)
<1>1. /\ s \in Shape /\ t \in Task /\ t.expr \in Expr /\ q.fuel \in Nat /\ Lowered[s].ok
      /\ t.path = "expr"
      /\ Meaning[q] = Outcome(t, rs) /\ DOMAIN rs = Places(q)
      /\ \A i \in Places(q) : rs[i] = Meaning[Part(q, i)]
      BY ReadyTyped
<1>2. /\ Len(items) \in Nat /\ Len(n.kids) \in Nat
      BY <1>1, TermTyped, ShapeTyped
<1>3. admitted =
        /\ Term[t.expr].form = "list" /\ Len(items) >= Len(n.kids)
        /\ n.rest # None \/ Len(items) = Len(n.kids)
        /\ \A i \in 1..Len(items) : Item(i)
  <2>1. admitted =
          /\ Term[t.expr].form = "list" /\ Len(items) >= Len(n.kids)
          /\ n.rest # None \/ Len(items) = Len(n.kids)
          /\ \A i \in 1..Len(items) :
               IF i <= Len(n.kids) THEN Holds(G, n.kids[i], items[i], q.fuel)
               ELSE Holds(G, n.rest, items[i], q.fuel)
        BY <1>1, ListHolds DEF Kind
  <2>2. \A i \in 1..Len(items) :
          Item(i) = IF i <= Len(n.kids) THEN Holds(G, n.kids[i], items[i], q.fuel)
                    ELSE Holds(G, n.rest, items[i], q.fuel)
        OBVIOUS
  <2> HIDE DEF Item, items, n, admitted
  <2> QED BY <2>1, <2>2
<1>4. Kind(t) \in LoopKinds /\ ~EntryFails(t) /\ (Refuses(t) <=> ListRefuses(t))
      BY DEF LoopKinds, AllKinds, EntryFails, Refuses
<1>5. ListRefuses(t) <=> \/ Term[t.expr].form # "list" \/ Len(items) < Len(n.kids)
                         \/ n.rest = None /\ Len(items) # Len(n.kids)
      BY DEF ListRefuses, Form, Items, Kids
<1>6. CASE ListRefuses(t)
  <2>1. Meaning[q] = Reject
        BY <1>1, <1>4, <1>6, OutcomeCases
  <2>2. Meaning[q].st = "reject"
        BY <2>1 DEF Reject
  <2> HIDE DEF admitted, Item, items, n
  <2>3. ~admitted
        BY <1>2, <1>3, <1>5, <1>6
  <2> QED BY <2>2, <2>3, Zenon DEF Describes, admitted
<1>7. CASE ~ListRefuses(t)
  <2>1. Open(t)
        BY <1>4, <1>7 DEF Open
  <2>2. /\ Places(q) = 1..Len(items) /\ LoopLen(t) = Len(items)
        /\ \A i \in 1..Len(items) : Part(q, i) = AskOf(q, Which(i), items[i])
        BY <1>1, <2>1, ListParts DEF Kids, Items
  <2>3. \A i \in 1..Len(items) : /\ Settled(rs[i].st)
                                 /\ ~w /\ Item(i) => rs[i].st = "accept"
                                 /\ ~c /\ rs[i].st = "accept" => Item(i)
    <3> SUFFICES ASSUME NEW i \in 1..Len(items)
                 PROVE  /\ Settled(rs[i].st)
                        /\ ~w /\ Item(i) => rs[i].st = "accept"
                        /\ ~c /\ rs[i].st = "accept" => Item(i)
        OBVIOUS
    <3> DEFINE u == Which(i)
               x == items[i]
               r == Asking(Job(u, x, "expr"), q.scope, q.fuel)
    <3>1. rs[i] = Meaning[r] /\ Describes(G, w, c, r)
          BY <1>1, <2>2 DEF AskOf
    <3> HIDE DEF u, x, rs
    <3>2. /\ Settled(Meaning[r].st)
          /\ ~w /\ Holds(G, u, x, q.fuel) => Meaning[r].st = "accept"
          /\ ~c /\ Meaning[r].st = "accept" => Holds(G, u, x, q.fuel)
          BY <3>1, AskedDescribes
    <3> HIDE DEF r
    <3> QED BY <3>1, <3>2 DEF u, x
  <2>4. Meaning[q] = Every(20, rs, Len(items))
    <3>1. Meaning[q] = LoopOutcome(t, rs)
          BY <1>1, <1>4, <2>1, OutcomeCases
    <3>2. LoopOutcome(t, rs) = Every(20, rs, Looked(t, rs))
          BY LoopOutcomeCases
    <3>3. Looked(t, rs) = LoopLen(t)
          BY <1>1 DEF Looked
    <3> QED BY <2>2, <3>1, <3>2, <3>3
  <2> HIDE DEF Item, rs, admitted, items, n
  <2>5. /\ Settled(Meaning[q].st)
        /\ Meaning[q].st = "accept" <=> \A i \in 1..Len(items) : rs[i].st = "accept"
    <3>1. DOMAIN rs = 1..Len(items) /\ DOMAIN rs \subseteq Nat
          BY <1>1, <2>2
    <3>2. \A i \in DOMAIN rs : Settled(rs[i].st)
          BY <2>3, <3>1
    <3>3. /\ Settled(Meaning[q].st)
          /\ Meaning[q].st = "accept" <=>
               \A i \in DOMAIN rs : i <= Len(items) => rs[i].st = "accept"
          BY <1>2, <2>4, <3>1, <3>2, EverySettled
    <3>4. \A i \in DOMAIN rs : i <= Len(items)
          BY <1>2, <3>1
    <3> QED BY <3>1, <3>3, <3>4
  <2>6. admitted <=> \A i \in 1..Len(items) : Item(i)
        BY <1>2, <1>3, <1>5, <1>7
  <2>7. /\ ~w /\ admitted => Meaning[q].st = "accept"
        /\ ~c /\ Meaning[q].st = "accept" => admitted
        BY <2>3, <2>5, <2>6
  <2> QED BY <2>5, <2>7, Zenon DEF Describes, admitted, Settled
<1> QED BY <1>6, <1>7

LEMMA FieldsDescribed ==
  ASSUME NEW G \in Seq(DefType), NEW w, NEW c, NEW q \in Question, Ready(G, w, c, q),
         \A i \in Places(q) : Describes(G, w, c, Part(q, i)), Kind(q.task) = "fields"
  PROVE  Describes(G, w, c, q)
<1> DEFINE t == q.task
           s == t.shape
           n == Node[s]
           x == Term[t.expr]
           rs == Outcomes(q)
           many == Len(n.kids)
           Entry(i) == EntryOf(t, n.keys[i])
           Value(i, k) == Holds(G, n.kids[i], x.items[k], q.fuel)
           admitted == Holds(G, s, t.expr, q.fuel)
<1>1. /\ s \in Shape /\ t \in Task /\ t.expr \in Expr /\ q.fuel \in Nat /\ Lowered[s].ok
      /\ Known(s, w, c)
      /\ Meaning[q] = Outcome(t, rs) /\ DOMAIN rs = Places(q)
      /\ \A i \in Places(q) : rs[i] = Meaning[Part(q, i)]
      BY ReadyTyped
<1>2. c
      BY <1>1, AboutIs DEF Known, Kind
<1>3. admitted =
        /\ HeadOf(n) = FieldsHead /\ x.form = "map" /\ NoDuplicates(x.keys)
        /\ {x.keys[k] : k \in DOMAIN x.keys} = {n.keys[i] : i \in 1..many}
        /\ \A i \in 1..many, k \in DOMAIN x.keys : x.keys[k] = n.keys[i] => Value(i, k)
      BY <1>1, FieldsHold DEF Kind
<1>4. /\ many \in Nat /\ DOMAIN n.keys = 1..many /\ None \notin Symbol
      /\ \A i \in 1..many : n.keys[i] \in Symbol
  <2>1. /\ Len(n.kids) \in Nat /\ n.keys \in Seq(Symbol) /\ NodeOK(n)
        BY <1>1, ShapeTyped
  <2>2. Len(n.keys) = Len(n.kids)
        BY <2>1 DEF NodeOK, Kind
  <2> QED BY <2>1, <2>2, ElementOfSeq, LenProperties, GraphAssumption DEF GraphOK
<1>5. Kind(t) \in LoopKinds /\ ~EntryFails(t) /\ (Refuses(t) <=> FieldsRefuses(t))
      BY DEF LoopKinds, AllKinds, EntryFails, Refuses
<1>6. ASSUME ~w, admitted
      PROVE  /\ ~FieldsRefuses(t)
             /\ \A i \in 1..many : /\ Entry(i) # 0 /\ Entry(i) \in DOMAIN x.keys
                                   /\ Value(i, Entry(i))
  <2> HIDE DEF admitted, many, Value
  <2>1. n.name = None
    <3>1. HeadOf(n) = FieldsHead
          BY <1>3, <1>6
    <3>2. n.name # FieldsHead
          BY <1>1, <1>6, AboutIs DEF Known, Wider, Kind
    <3> QED BY <3>1, <3>2 DEF HeadOf
  <2>2. x.form = "map" /\ NoDuplicates(x.keys)
        BY <1>3, <1>6
  <2>3. {x.keys[k] : k \in DOMAIN x.keys} = {n.keys[i] : i \in 1..many}
        BY <1>3, <1>6
  <2>4. SymbolKeys(t)
    <3>1. \A k \in DOMAIN x.keys : \E i \in 1..many : x.keys[k] = n.keys[i]
          BY <2>3
    <3>2. \A k \in DOMAIN x.keys : x.keys[k] # None
          BY <1>4, <3>1
    <3> QED BY <3>2 DEF SymbolKeys, Keys
  <2>5. ~FieldsRefuses(t)
        BY <2>1, <2>2, <2>4 DEF FieldsRefuses, Keys, Form
  <2>6. ASSUME NEW i \in 1..many
        PROVE  Entry(i) # 0 /\ Entry(i) \in DOMAIN x.keys /\ Value(i, Entry(i))
    <3>1. \E k \in DOMAIN x.keys : x.keys[k] = n.keys[i]
          BY <2>3
    <3>2. Entry(i) \in DOMAIN x.keys /\ x.keys[Entry(i)] = n.keys[i]
          BY <3>1 DEF EntryOf, Keys
    <3>3. 0 \notin DOMAIN x.keys
          BY <1>1, TermTyped
    <3> HIDE DEF Entry
    <3> QED BY <1>3, <1>6, <3>2, <3>3
  <2> QED BY <2>5, <2>6
<1>7. CASE FieldsRefuses(t)
  <2>1. Meaning[q] = Reject
        BY <1>1, <1>5, <1>7, OutcomeCases
  <2>2. Meaning[q].st = "reject"
        BY <2>1 DEF Reject
  <2>3. ~w => ~admitted
        BY <1>6, <1>7
  <2> QED BY <2>2, <2>3, Zenon DEF Describes
<1>8. CASE ~FieldsRefuses(t)
  <2>1. Open(t)
        BY <1>5, <1>8 DEF Open
  <2>2. /\ LoopLen(t) = many /\ Places(q) = {i \in 1..many : Entry(i) # 0}
        /\ \A i \in Places(q) : Part(q, i) = AskOf(q, n.kids[i], x.items[Entry(i)])
        BY <1>1, <2>1, FieldsParts DEF Kids, Items, FieldKey
  <2>3. \A i \in Places(q) : /\ Settled(rs[i].st)
                             /\ ~w /\ Value(i, Entry(i)) => rs[i].st = "accept"
    <3> SUFFICES ASSUME NEW i \in Places(q)
                 PROVE  /\ Settled(rs[i].st)
                        /\ ~w /\ Value(i, Entry(i)) => rs[i].st = "accept"
        OBVIOUS
    <3> DEFINE u == n.kids[i]
               v == x.items[Entry(i)]
               r == Asking(Job(u, v, "expr"), q.scope, q.fuel)
    <3>1. rs[i] = Meaning[r] /\ Describes(G, w, c, r)
          BY <1>1, <2>2 DEF AskOf
    <3> HIDE DEF u, v, rs
    <3>2. /\ Settled(Meaning[r].st)
          /\ ~w /\ Holds(G, u, v, q.fuel) => Meaning[r].st = "accept"
          BY <3>1, AskedDescribes
    <3> HIDE DEF r
    <3> QED BY <3>1, <3>2 DEF u, v
  <2>4. Meaning[q] = FieldsOutcome(t, rs)
    <3>1. Meaning[q] = LoopOutcome(t, rs)
          BY <1>1, <1>5, <2>1, OutcomeCases
    <3>2. LoopOutcome(t, rs) = FieldsOutcome(t, rs)
          BY LoopOutcomeCases
    <3> QED BY <3>1, <3>2
  <2> HIDE DEF rs
  <2>5. DOMAIN rs \subseteq Nat /\ DOMAIN rs = Places(q) /\ \A i \in DOMAIN rs : Settled(rs[i].st)
    <3>1. DOMAIN rs = Places(q)
          BY <1>1
    <3>2. Places(q) \subseteq Nat
      <4> HIDE DEF Entry
      <4>1. Places(q) \subseteq 1..many
            BY <2>2
      <4> QED BY <1>4, <4>1
    <3> QED BY <2>3, <3>1, <3>2
  <2>6. Settled(Meaning[q].st)
    <3>1. CASE Absent(t) = {}
      <4>1. Meaning[q] = Every(20, rs, many)
            BY <2>2, <2>4, <3>1 DEF FieldsOutcome
      <4> QED BY <1>4, <2>5, <4>1, EverySettled
    <3>2. CASE Absent(t) # {}
      <4> DEFINE m == Min(Absent(t)) - 1
                 all == Every(20, rs, m)
      <4>1. m \in Nat
        <5>1. Absent(t) \in SUBSET Nat /\ \A i \in Absent(t) : i >= 1
              BY <1>1, ShapeTyped DEF Absent, Kids
        <5>2. Min(Absent(t)) \in Absent(t)
              BY <3>2, <5>1, MinIs
        <5> QED BY <5>1, <5>2
      <4> HIDE DEF m
      <4>2. Settled(all.st)
            BY <2>5, <4>1, EverySettled
      <4>3. Meaning[q] = Failing(all)
            BY <2>4, <3>2 DEF FieldsOutcome, m
      <4> HIDE DEF all
      <4> QED BY <4>2, <4>3 DEF Failing, Settled, Reject
    <3> QED BY <3>1, <3>2
  <2>7. ASSUME ~w, admitted PROVE Meaning[q].st = "accept"
    <3> HIDE DEF Value, Entry, admitted
    <3>1. \A i \in 1..many : Entry(i) # 0 /\ Value(i, Entry(i))
          BY <1>6, <2>7
    <3>2. Absent(t) = {}
      <4>1. DOMAIN Kids(t) = 1..many
            BY <1>1, ShapeTyped DEF Kids
      <4>2. \A i \in 1..many : ~Missing(t, i)
            BY <3>1 DEF Missing, FieldKey, Entry
      <4> QED BY <4>1, <4>2 DEF Absent
    <3>3. Meaning[q] = Every(20, rs, many)
          BY <2>2, <2>4, <3>2 DEF FieldsOutcome
    <3>4. \A i \in DOMAIN rs : rs[i].st = "accept"
          BY <2>2, <2>3, <2>5, <2>7, <3>1
    <3>5. Every(20, rs, many).st = "accept" <=>
            \A i \in DOMAIN rs : i <= many => rs[i].st = "accept"
      <4> HIDE DEF many
      <4> QED BY <1>4, <2>5, EverySettled
    <3> QED BY <3>3, <3>4, <3>5
  <2> HIDE DEF admitted
  <2> QED BY <1>2, <2>6, <2>7, Zenon DEF Describes, admitted, Settled
<1> QED BY <1>7, <1>8

LEMMA DefsDescribed ==
  ASSUME NEW G \in Seq(DefType), NEW w, NEW c, NEW q \in Question, Ready(G, w, c, q),
         \A i \in Places(q) : Describes(G, w, c, Part(q, i)), Kind(q.task) = "defs"
  PROVE  Describes(G, w, c, q)
<1> DEFINE t == q.task
           s == t.shape
           u == Node[s].kids[1]
           inner == Append(q.scope, s)
           r == Asking(Job(u, t.expr, "expr"), inner, q.fuel)
           admitted == Holds(G, s, t.expr, q.fuel)
<1>1. /\ s \in Shape /\ t.expr \in Expr /\ q.fuel \in Nat /\ Lowered[s].ok /\ t.path = "expr"
      /\ Meaning[q] = Outcome(t, Outcomes(q))
      /\ \A i \in Places(q) : Outcomes(q)[i] = Meaning[Part(q, i)]
      BY ReadyTyped
<1>2. Places(q) = {1}
      BY PlacesCases
<1>3. Part(q, 1) = r
      BY <1>1, PartCases DEF Kids
<1>4. Meaning[q] = Outcomes(q)[1]
      BY <1>1, OutcomeCases
<1>5. Meaning[q] = Meaning[r] /\ Describes(G, w, c, r)
      BY <1>1, <1>2, <1>3, <1>4
<1>6. admitted = Holds(G, u, t.expr, q.fuel)
      BY <1>1, DefsHold DEF Kind
<1> HIDE DEF u, inner
<1>7. /\ Settled(Meaning[r].st)
      /\ ~w /\ Holds(G, u, t.expr, q.fuel) => Meaning[r].st = "accept"
      /\ ~c /\ Meaning[r].st = "accept" => Holds(G, u, t.expr, q.fuel)
      BY <1>5, AskedDescribes
<1> HIDE DEF r, admitted
<1>8. /\ Settled(Meaning[q].st)
      /\ ~w /\ admitted => Meaning[q].st = "accept"
      /\ ~c /\ Meaning[q].st = "accept" => admitted
      BY <1>5, <1>6, <1>7
<1> QED BY <1>8, Zenon DEF Describes, admitted, Settled

(* The list of definitions has one production for a name, that of the      *)
(* definition the reference resolves to.                                   *)
LEMMA DefinitionFound ==
  ASSUME NEW G \in Seq(DefType), Unambiguous(G), NEW name, NEW p,
         Definition(name, p) \in Range(G)
  PROVE  Found(G, name) # {} /\ TheDef(G, name) = p
<1>1. PICK i \in DOMAIN G : G[i] = Definition(name, p)
      BY DEF Range
<1>2. G[i].name = name /\ G[i].production = p
      BY <1>1 DEF Definition
<1>3. i \in Found(G, name)
      BY <1>2 DEF Found
<1>4. PICK j \in DOMAIN G : G[j].name = name /\ TheDef(G, name) = G[j].production
      BY <1>3, FoundTyped
<1>5. G[i] = G[j]
      BY <1>2, <1>4 DEF Unambiguous
<1> QED BY <1>2, <1>3, <1>4, <1>5

LEMMA RefDescribed ==
  ASSUME NEW G \in Seq(DefType), Unambiguous(G), NEW w, NEW c, NEW q \in Question,
         Ready(G, w, c, q),
         \A i \in Places(q) : Describes(G, w, c, Part(q, i)), Kind(q.task) = "ref"
  PROVE  Describes(G, w, c, q)
<1> DEFINE t == q.task
           s == t.shape
           name == Node[s].name
           u == Resolved(q.scope, name)
           r == Asking(Job(u, t.expr, "expr"), q.scope, q.fuel - 1)
           admitted == Holds(G, s, t.expr, q.fuel)
<1>1. /\ s \in Shape /\ t.expr \in Expr /\ q.fuel \in Nat /\ Lowered[s].ok /\ t.path = "expr"
      /\ q.scope \in Seq(Shape) /\ Fits(G, s, q.scope) /\ ScopesFit(G, q.scope, w, c)
      /\ Meaning[q] = Outcome(t, Outcomes(q)) /\ DOMAIN Outcomes(q) = Places(q)
      /\ \A i \in Places(q) : Outcomes(q)[i] = Meaning[Part(q, i)]
      BY ReadyTyped
<1>2. admitted = /\ q.fuel > 0 /\ Found(G, name) # {}
                 /\ Admits(G)[Claim(TheDef(G, name), t.expr, q.fuel - 1)]
      BY <1>1, RefHolds DEF Kind
<1>3. DefiningScopes(q.scope, name) # {}
      BY <1>1, AboutIs DEF Fits, Kind
<1>4. Found(G, name) # {} /\ TheDef(G, name) = Lowered[u].production
  <2>1. \E a \in DOMAIN q.scope : \E j \in DOMAIN Node[q.scope[a]].defs :
          /\ Node[q.scope[a]].defs[j].name = name
          /\ u = Node[q.scope[a]].defs[j].shape
    <3>1. DefiningScopes(q.scope, name) # {} /\ q.scope \in Seq(Shape)
          BY <1>1, <1>3
    <3> HIDE DEF name
    <3>2. \E a \in DOMAIN q.scope : \E j \in DOMAIN Node[q.scope[a]].defs :
            /\ Node[q.scope[a]].defs[j].name = name
            /\ Resolved(q.scope, name) = Node[q.scope[a]].defs[j].shape
          BY <3>1, ResolvedIs
    <3> QED BY <3>2
  <2>2. Definition(name, Lowered[u].production) \in Range(G)
        BY <1>1, <2>1 DEF ScopesFit, Covers
  <2> HIDE DEF name, u
  <2> QED BY <2>2, DefinitionFound
<1>5. CASE q.fuel > 0
  <2>1. Places(q) = {1}
        BY <1>3, <1>5, PlacesCases
  <2>2. Part(q, 1) = r
        BY <1>1, PartCases
  <2>3. Meaning[q] = Outcomes(q)[1]
        BY <1>1, <2>1, OutcomeCases
  <2>4. Meaning[q] = Meaning[r] /\ Describes(G, w, c, r)
        BY <1>1, <2>1, <2>2, <2>3
  <2>5. admitted <=> Holds(G, u, t.expr, q.fuel - 1)
        BY <1>2, <1>4, <1>5 DEF Holds
  <2> HIDE DEF u
  <2>6. /\ Settled(Meaning[r].st)
        /\ ~w /\ Holds(G, u, t.expr, q.fuel - 1) => Meaning[r].st = "accept"
        /\ ~c /\ Meaning[r].st = "accept" => Holds(G, u, t.expr, q.fuel - 1)
        BY <2>4, AskedDescribes
  <2> HIDE DEF r, admitted
  <2>7. /\ Settled(Meaning[q].st)
        /\ ~w /\ admitted => Meaning[q].st = "accept"
        /\ ~c /\ Meaning[q].st = "accept" => admitted
        BY <2>4, <2>5, <2>6
  <2> QED BY <2>7, Zenon DEF Describes, admitted, Settled
<1>6. CASE ~(q.fuel > 0)
  <2>1. Places(q) = {}
        BY <1>6, PlacesCases
  <2>2. Meaning[q] = Reject
        BY <1>1, <2>1, OutcomeCases
  <2>3. Meaning[q].st = "reject"
        BY <2>2 DEF Reject
  <2> HIDE DEF admitted
  <2>4. ~admitted
        BY <1>2, <1>6
  <2> QED BY <2>3, <2>4, Zenon DEF Describes, admitted
<1> QED BY <1>5, <1>6

(* A graph that has every definition, and one for every name, describes    *)
(* every shape that fits in the scopes around it.                          *)
LEMMA GraphDescribes ==
  ASSUME NEW G \in Seq(DefType), Unambiguous(G), NEW w, NEW c,
         NEW question \in Question, Ready(G, w, c, question)
  PROVE  Describes(G, w, c, question)
<1> DEFINE Wrong == {q \in Question : Ready(G, w, c, q) /\ ~Describes(G, w, c, q)}
           Costs == {Cost(q) : q \in Wrong}
<1> SUFFICES ASSUME Wrong # {} PROVE FALSE
    OBVIOUS
<1>1. Costs \subseteq Nat /\ Costs # {}
      BY CostTyped
<1>2. PICK least \in Costs : \A k \in Costs : least <= k
  <2> HIDE DEF Costs
  <2> QED BY <1>1, FirstPlace
<1>3. PICK q \in Wrong : Cost(q) = least
      BY <1>2
<1>4. q \in Question /\ Ready(G, w, c, q) /\ ~Describes(G, w, c, q)
      BY <1>3
<1>5. ASSUME NEW i \in Places(q) PROVE Describes(G, w, c, Part(q, i))
  <2>1. Part(q, i) \in Question /\ Cost(Part(q, i)) < Cost(q)
        BY <1>4, PartCheaper
  <2>2. Ready(G, w, c, Part(q, i))
        BY <1>4, PartReady
  <2>3. SUFFICES ASSUME ~Describes(G, w, c, Part(q, i)) PROVE FALSE
        OBVIOUS
  <2>4. Cost(Part(q, i)) \in Costs
        BY <2>1, <2>2, <2>3
  <2>5. Cost(Part(q, i)) \in Nat /\ Cost(q) \in Nat
        BY <1>4, <2>1, CostTyped
  <2> HIDE DEF Costs, Wrong
  <2> QED BY <1>2, <1>3, <2>1, <2>4, <2>5
<1>6. Kind(q.task) \in {"any", "exprKind", "exact", "ref", "oneOf", "list", "fields", "defs"}
  <2>1. q.task.shape \in Shape /\ Lowered[q.task.shape].ok
        BY <1>4, ReadyTyped
  <2> QED BY <2>1, OkKinds DEF Kind
<1> HIDE DEF Wrong, Costs
<1> QED BY <1>4, <1>5, <1>6, LeafDescribed, OneOfDescribed, ListDescribed, FieldsDescribed,
           DefsDescribed, RefDescribed

-----------------------------------------------------------------------------
(* The JSON Schema of a graph.                                             *)
RenderedParts(p) == [i \in DOMAIN p.parts |-> Render[Values(p)[i]]]

(* A production is rendered as its kind makes of its parts.                *)
LEMMA RenderEquation ==
  \A p \in Production : Render[p] = RenderedAs(p, RenderedParts(p))
<1> DEFINE Body(f, p) == RenderedAs(p, [i \in DOMAIN p.parts |-> f[Values(p)[i]]])
           Solves(f, n) == \A x \in Production : Level(x) < n => f[x] = Body(f, x)
           Next_(f) == [x \in Production |-> Body(f, x)]
<1>1. ASSUME NEW f, NEW g, NEW x \in Production,
             \A y \in Production : Level(y) < Level(x) => f[y] = g[y]
      PROVE  Body(f, x) = Body(g, x)
  <2>1. \A i \in DOMAIN x.parts : f[Values(x)[i]] = g[Values(x)[i]]
        BY <1>1, LevelFalls
  <2> DEFINE P(h) == [i \in DOMAIN x.parts |-> h[Values(x)[i]]]
  <2>2. P(f) = P(g)
        BY <2>1
  <2> HIDE DEF P
  <2>3. RenderedAs(x, P(f)) = RenderedAs(x, P(g))
        BY <2>2
  <2> QED BY <2>3 DEF P
<1> HIDE DEF Body
<1>2. \A x \in Production : Level(x) \in Nat
      BY LevelTyped, GrammarAssumption DEF Production
<1>3. \A n \in Nat : \E f : Solves(f, n)
  <2> DEFINE Lost == {n \in Nat : ~\E f : Solves(f, n)}
  <2>1. SUFFICES ASSUME NEW n \in Lost, \A m \in Lost : n <= m
                 PROVE  FALSE
    <3> HIDE DEF Solves
    <3> QED BY FirstPlace
  <2>2. CASE n = 0
    <3>1. \A f : Solves(f, 0)
          BY <1>2
    <3> HIDE DEF Solves
    <3> QED BY <2>1, <2>2, <3>1
  <2>3. CASE n > 0
    <3>1. PICK f : Solves(f, n - 1)
      <4> HIDE DEF Solves
      <4>1. n - 1 \in Nat /\ n - 1 \notin Lost
            BY <2>1, <2>3
      <4> QED BY <4>1
    <3>2. ASSUME NEW x \in Production, Level(x) < n
          PROVE  Next_(f)[x] = Body(Next_(f), x)
      <4>1. \A y \in Production : Level(y) < Level(x) => Next_(f)[y] = f[y]
            BY <1>2, <3>1, <3>2
      <4>2. Body(Next_(f), x) = Body(f, x)
            BY <1>1, <4>1
      <4> QED BY <4>2
    <3>3. Solves(Next_(f), n)
          BY <3>2
    <3> HIDE DEF Solves
    <3> QED BY <2>1, <3>3
  <2> QED BY <2>1, <2>2, <2>3
<1>4. ASSUME NEW m \in Nat, NEW n \in Nat, NEW f, NEW g, Solves(f, m), Solves(g, n),
             NEW x \in Production, Level(x) < m, Level(x) < n
      PROVE  f[x] = g[x]
  <2>1. SUFFICES ASSUME f[x] # g[x] PROVE FALSE
        OBVIOUS
  <2> DEFINE T == {k \in Nat : \E y \in Production : Level(y) = k /\ k < m /\ k < n /\ f[y] # g[y]}
  <2>2. Level(x) \in T
        BY <1>2, <1>4, <2>1
  <2>3. PICK k \in T : \A j \in T : k <= j
        BY <2>2, FirstPlace
  <2>4. PICK y \in Production : Level(y) = k /\ k < m /\ k < n /\ f[y] # g[y]
        BY <2>3
  <2>5. \A z \in Production : Level(z) < Level(y) => f[z] = g[z]
        BY <1>2, <2>3, <2>4
  <2>6. Body(f, y) = Body(g, y)
        BY <1>1, <2>5
  <2> QED BY <1>4, <2>4, <2>6
<1> DEFINE At(n) == CHOOSE f : Solves(f, n)
           F == [x \in Production |-> At(Level(x) + 1)[x]]
<1>5. \A n \in Nat : Solves(At(n), n)
  <2> HIDE DEF Solves
  <2> QED BY <1>3
<1> HIDE DEF At
<1>6. ASSUME NEW x \in Production PROVE F[x] = Body(F, x)
  <2> DEFINE f == At(Level(x) + 1)
  <2>1. Level(x) + 1 \in Nat /\ Level(x) < Level(x) + 1
        BY <1>2
  <2>2. Solves(f, Level(x) + 1)
    <3> HIDE DEF Solves
    <3> QED BY <1>5, <2>1
  <2>3. ASSUME NEW y \in Production, Level(y) < Level(x) PROVE F[y] = f[y]
    <3>1. Level(y) + 1 \in Nat /\ Level(y) < Level(y) + 1 /\ Level(y) < Level(x) + 1
          BY <1>2, <2>3
    <3>2. Solves(At(Level(y) + 1), Level(y) + 1)
          BY <1>5, <3>1
    <3> HIDE DEF Solves
    <3>3. At(Level(y) + 1)[y] = f[y]
          BY <1>4, <2>1, <2>2, <3>1, <3>2
    <3> QED BY <3>3
  <2>4. F[x] = f[x]
        OBVIOUS
  <2>5. f[x] = Body(f, x)
        BY <2>1, <2>2
  <2> HIDE DEF F, f
  <2>6. Body(F, x) = Body(f, x)
        BY <1>1, <2>3
  <2> QED BY <2>4, <2>5, <2>6
<1>7. F = [x \in Production |-> Body(F, x)]
  <2>1. F = [x \in Production |-> F[x]]
        OBVIOUS
  <2> HIDE DEF F
  <2> QED BY <1>6, <2>1
<1>8. \E f : f = [x \in Production |-> Body(f, x)]
      BY <1>7
<1>9. Render = [x \in Production |-> Body(Render, x)]
      BY <1>8 DEF Render, Body, RenderedParts
<1>10. \A x \in Production : Render[x] = Body(Render, x)
       BY <1>9
<1> QED BY <1>10 DEF Body, RenderedParts

Sch(type, const, ref, prefix, rest, bounded, names, anyOf) ==
  [type |-> type, const |-> const, ref |-> ref, prefix |-> prefix, rest |-> rest,
   bounded |-> bounded, names |-> names, anyOf |-> anyOf]

(* The fields of a schema.                                                 *)
LEMMA SchIs ==
  ASSUME NEW type, NEW const, NEW ref, NEW prefix, NEW rest, NEW bounded, NEW names, NEW anyOf
  PROVE  LET sc == Sch(type, const, ref, prefix, rest, bounded, names, anyOf) IN
         /\ sc.type = type /\ sc.const = const /\ sc.ref = ref /\ sc.prefix = prefix
         /\ sc.rest = rest /\ sc.bounded = bounded /\ sc.names = names /\ sc.anyOf = anyOf
BY DEF Sch

(* What each kind of production is rendered as, keyword by keyword.        *)
LEMMA RenderIs ==
  ASSUME NEW p \in Production
  PROVE  LET sc == Render[p]  parts == RenderedParts(p) IN
         /\ p.kind = "terminal" /\ p.of = "exact" =>
              sc = Sch("const", p.name, None, <<>>, <<>>, FALSE, <<>>, <<>>)
         /\ p.kind = "terminal" /\ p.of # "exact" =>
              sc = Sch(Types[p.of], None, None, <<>>, <<>>, FALSE, <<>>, <<>>)
         /\ p.kind = "ref" => sc = Sch("ref", None, p.name, <<>>, <<>>, FALSE, <<>>, <<>>)
         /\ p.kind = "repeat" => sc = Sch("array", None, None, <<>>, parts, FALSE, <<>>, <<>>)
         /\ p.kind = "alt" /\ p.parts = <<Terminal("any")>> =>
              sc = Sch("any", None, None, <<>>, <<>>, FALSE, <<>>, <<>>)
         /\ p.kind = "alt" /\ p.parts # <<Terminal("any")>> =>
              sc = Sch("anyOf", None, None, <<>>, <<>>, FALSE, <<>>, parts)
         /\ p.kind = "seq" /\ Tailed(p) =>
              sc = Sch("array", None, None, Front(parts), Last(parts).rest, FALSE, <<>>, <<>>)
         /\ p.kind = "seq" /\ ~Tailed(p) =>
              sc = Sch("array", None, None, parts, <<>>, TRUE, <<>>, <<>>)
         /\ p.kind = "call" =>
              sc = Sch("record", None, None, parts, <<>>, FALSE, LocalNames(FieldNames(p)), <<>>)
<1> DEFINE parts == RenderedParts(p)
           sc == RenderedAs(p, parts)
<1>1. Render[p] = sc
      BY RenderEquation
<1> HIDE DEF parts
<1>2. p.kind = "terminal" /\ p.of = "exact" =>
        sc = [AnySchema EXCEPT !.type = "const", !.const = p.name]
      BY Zenon DEF RenderedAs
<1>3. p.kind = "terminal" /\ p.of # "exact" => sc = [AnySchema EXCEPT !.type = Types[p.of]]
      BY Zenon DEF RenderedAs
<1>4. p.kind = "ref" => sc = [AnySchema EXCEPT !.type = "ref", !.ref = p.name]
      BY Zenon DEF RenderedAs
<1>5. p.kind = "repeat" => sc = [AnySchema EXCEPT !.type = "array", !.rest = parts]
      BY Zenon DEF RenderedAs
<1>6. p.kind = "alt" /\ p.parts = <<Terminal("any")>> => sc = AnySchema
      BY Zenon DEF RenderedAs
<1>7. p.kind = "alt" /\ p.parts # <<Terminal("any")>> =>
        sc = [AnySchema EXCEPT !.type = "anyOf", !.anyOf = parts]
      BY Zenon DEF RenderedAs
<1>8. p.kind = "seq" /\ Tailed(p) =>
        sc = [AnySchema EXCEPT !.type = "array", !.prefix = Front(parts),
                               !.rest = Last(parts).rest]
      BY Zenon DEF RenderedAs
<1>9. p.kind = "seq" /\ ~Tailed(p) =>
        sc = [AnySchema EXCEPT !.type = "array", !.prefix = parts, !.bounded = TRUE]
      BY Zenon DEF RenderedAs
<1>10. p.kind = "call" =>
         sc = [AnySchema EXCEPT !.type = "record", !.prefix = parts,
                                !.names = LocalNames(FieldNames(p))]
       BY Zenon DEF RenderedAs
<1> HIDE DEF sc
<1>11. p.kind = "terminal" /\ p.of = "exact" =>
         sc = Sch("const", p.name, None, <<>>, <<>>, FALSE, <<>>, <<>>)
       BY <1>2 DEF AnySchema, Sch
<1>12. p.kind = "terminal" /\ p.of # "exact" =>
         sc = Sch(Types[p.of], None, None, <<>>, <<>>, FALSE, <<>>, <<>>)
  <2> DEFINE type == Types[p.of]
  <2>1. p.kind = "terminal" /\ p.of # "exact" => sc = [AnySchema EXCEPT !.type = type]
        BY <1>3
  <2> HIDE DEF type
  <2>2. p.kind = "terminal" /\ p.of # "exact" =>
          sc = Sch(type, None, None, <<>>, <<>>, FALSE, <<>>, <<>>)
        BY <2>1 DEF AnySchema, Sch
  <2> QED BY <2>2 DEF type
<1>13. p.kind = "ref" => sc = Sch("ref", None, p.name, <<>>, <<>>, FALSE, <<>>, <<>>)
       BY <1>4 DEF AnySchema, Sch
<1>14. p.kind = "repeat" => sc = Sch("array", None, None, <<>>, parts, FALSE, <<>>, <<>>)
       BY <1>5 DEF AnySchema, Sch
<1>15. p.kind = "alt" /\ p.parts = <<Terminal("any")>> =>
         sc = Sch("any", None, None, <<>>, <<>>, FALSE, <<>>, <<>>)
       BY <1>6 DEF AnySchema, Sch
<1>16. p.kind = "alt" /\ p.parts # <<Terminal("any")>> =>
         sc = Sch("anyOf", None, None, <<>>, <<>>, FALSE, <<>>, parts)
       BY <1>7 DEF AnySchema, Sch
<1>17. p.kind = "seq" /\ Tailed(p) =>
         sc = Sch("array", None, None, Front(parts), Last(parts).rest, FALSE, <<>>, <<>>)
  <2> DEFINE front == Front(parts)
             rest == Last(parts).rest
  <2>1. p.kind = "seq" /\ Tailed(p) =>
          sc = [AnySchema EXCEPT !.type = "array", !.prefix = front, !.rest = rest]
        BY <1>8
  <2> HIDE DEF front, rest
  <2>2. p.kind = "seq" /\ Tailed(p) =>
          sc = Sch("array", None, None, front, rest, FALSE, <<>>, <<>>)
        BY <2>1 DEF AnySchema, Sch
  <2> QED BY <2>2 DEF front, rest
<1>18. p.kind = "seq" /\ ~Tailed(p) =>
         sc = Sch("array", None, None, parts, <<>>, TRUE, <<>>, <<>>)
       BY <1>9 DEF AnySchema, Sch
<1>19. p.kind = "call" =>
         sc = Sch("record", None, None, parts, <<>>, FALSE, LocalNames(FieldNames(p)), <<>>)
  <2> DEFINE names == LocalNames(FieldNames(p))
  <2>1. p.kind = "call" =>
          sc = [AnySchema EXCEPT !.type = "record", !.prefix = parts, !.names = names]
        BY <1>10
  <2> HIDE DEF names
  <2>2. p.kind = "call" => sc = Sch("record", None, None, parts, <<>>, FALSE, names, <<>>)
        BY <2>1 DEF AnySchema, Sch
  <2> QED BY <2>2 DEF names
<1> QED BY <1>1, <1>11, <1>12, <1>13, <1>14, <1>15, <1>16, <1>17, <1>18, <1>19 DEF parts

(* The front and the last of a sequence.                                   *)
LEMMA FrontLast ==
  ASSUME NEW D, NEW seq \in Seq(D), seq # <<>>
  PROVE  /\ Len(seq) \in Nat /\ Len(seq) >= 1
         /\ Front(seq) \in Seq(D) /\ Len(Front(seq)) = Len(seq) - 1
         /\ \A i \in 1..Len(seq) - 1 : Front(seq)[i] = seq[i]
         /\ Last(seq) = seq[Len(seq)] /\ Last(seq) \in D
<1>1. Len(seq) \in Nat /\ Len(seq) >= 1
      BY LenProperties, EmptySeq
<1>2. Front(seq) = SubSeq(seq, 1, Len(seq) - 1)
      BY DEF Front
<1>3. \A i \in 1..Len(seq) - 1 : i \in 1..Len(seq)
      BY <1>1
<1>4. /\ SubSeq(seq, 1, Len(seq) - 1) \in Seq(D)
      /\ Len(SubSeq(seq, 1, Len(seq) - 1)) = Len(seq) - 1
      /\ \A i \in 1..Len(seq) - 1 : SubSeq(seq, 1, Len(seq) - 1)[i] = seq[i]
  <2> DEFINE n == Len(seq) - 1
  <2>1. n \in Int /\ 1 \in Int /\ n >= 0 /\ \A i \in 1..n : seq[i] \in D
        BY <1>1, <1>3, ElementOfSeq
  <2> HIDE DEF n
  <2>2. /\ SubSeq(seq, 1, n) \in Seq(D) /\ Len(SubSeq(seq, 1, n)) = IF 1 <= n THEN n - 1 + 1 ELSE 0
        /\ \A i \in 1..n - 1 + 1 : SubSeq(seq, 1, n)[i] = seq[1 + i - 1]
        BY <2>1, SubSeqProperties
  <2>3. Len(SubSeq(seq, 1, n)) = n /\ \A i \in 1..n : SubSeq(seq, 1, n)[i] = seq[i]
        BY <2>1, <2>2
  <2> QED BY <2>2, <2>3 DEF n
<1>5. Last(seq) = seq[Len(seq)] /\ seq[Len(seq)] \in D
      BY <1>1, ElementOfSeq DEF Last
<1> QED BY <1>1, <1>2, <1>4, <1>5

Keywords(in) ==
  [type: SchemaTypes, const: Names, ref: Names, prefix: Seq(in), rest: Seq(in),
   bounded: BOOLEAN, names: Seq(Names), anyOf: Seq(in)]

(* A schema is its keywords, with as many names as values if a record.     *)
LEMMA KeywordsOver ==
  ASSUME NEW in, NEW sc \in Keywords(in), sc.type = "record" => Len(sc.names) = Len(sc.prefix)
  PROVE  sc \in SchemasOver(in)
BY DEF Keywords, SchemasOver

(* A schema has no more levels than the production it renders.             *)
LEMMA RenderTyped ==
  ASSUME NEW p \in Production
  PROVE  Render[p] \in Nested[Level(p)].schemas
<1> DEFINE Wrong == {x \in Production : Render[x] \notin Nested[Level(x)].schemas}
           Levels == {Level(x) : x \in Wrong}
<1> SUFFICES ASSUME Wrong # {} PROVE FALSE
    OBVIOUS
<1>1. \A x \in Production : Level(x) \in Nat /\ x \in Nested[Level(x)].productions
      BY LevelTyped, GrammarAssumption DEF Production
<1>2. PICK least \in Levels : \A k \in Levels : least <= k
  <2>1. Levels \subseteq Nat /\ Levels # {}
        BY <1>1
  <2> HIDE DEF Levels
  <2> QED BY <2>1, FirstPlace
<1>3. PICK x \in Wrong : Level(x) = least
      BY <1>2
<1> DEFINE n == Level(x)
           in == Nested[n - 1].schemas
           many == Len(x.parts)
           parts == RenderedParts(x)
<1>4. /\ x \in Production /\ n \in Nat /\ n > 0 /\ n - 1 \in Nat /\ many \in Nat
      /\ DOMAIN x.parts = 1..many /\ x \in Nested[n].productions
      BY <1>1, <1>3, LevelCases, PartsLower
<1>5. \A i \in 1..many : Render[Values(x)[i]] \in in
  <2> SUFFICES ASSUME NEW i \in 1..many PROVE Render[Values(x)[i]] \in in
      OBVIOUS
  <2> DEFINE y == Values(x)[i]
  <2>1. y \in Production /\ Level(y) < n /\ Level(y) \in Nat
    <3>1. y \in Production /\ Level(y) < n
          BY <1>4, LevelFalls
    <3> QED BY <1>1, <3>1
  <2>2. Render[y] \in Nested[Level(y)].schemas
    <3> SUFFICES ASSUME y \in Wrong PROVE FALSE
        BY <2>1
    <3>1. Level(y) \in Levels
          OBVIOUS
    <3> HIDE DEF Levels, Wrong, y
    <3> QED BY <1>2, <1>3, <1>4, <2>1, <3>1
  <2>3. Level(y) <= n - 1
        BY <1>4, <2>1
  <2> HIDE DEF y, n
  <2>4. Nested[Level(y)].schemas \subseteq Nested[n - 1].schemas
        BY <1>4, <2>1, <2>3, LevelsGrow
  <2> QED BY <2>2, <2>4 DEF y
<1>6. parts \in Seq(in) /\ Len(parts) = many /\ DOMAIN parts = 1..many
  <2>1. parts \in [1..many -> in]
        BY <1>4, <1>5 DEF RenderedParts
  <2> HIDE DEF parts, in, many
  <2> QED BY <1>4, <2>1, MadeSeq
<1> HIDE DEF in, parts, many
<1>7. x.name \in Names /\ x.of \in DOMAIN Types \cup {"exact", ""}
      /\ (x.kind = "terminal" => x.of # "")
      /\ x.kind \in {"terminal", "ref", "alt", "seq", "repeat", "call"}
      BY <1>4, LevelCases
<1>8. None \in Names /\ FALSE \in BOOLEAN /\ TRUE \in BOOLEAN
      BY DEF Names
<1>9. <<>> \in Seq(in) /\ <<>> \in Seq(Names)
      OBVIOUS
<1>10. ASSUME x.kind = "seq", Tailed(x)
       PROVE  Front(parts) \in Seq(in) /\ Last(parts).rest \in Seq(in)
  <2>1. parts # <<>>
    <3>1. many >= 1
          BY <1>4, <1>10, TailedIs DEF many
    <3>2. Len(parts) # 0
          BY <1>4, <1>6, <3>1
    <3> QED BY <3>2
  <2>2. Front(parts) \in Seq(in) /\ Last(parts) \in in
        BY <1>6, <2>1, FrontLast
  <2> DEFINE last == Last(parts)
  <2>3. n - 1 - 1 \in Nat /\ last.rest \in Seq(Nested[n - 1 - 1].schemas)
    <3> HIDE DEF last, n
    <3> DEFINE m == n - 1
    <3>1. m \in Nat /\ last \in Nested[m].schemas
          BY <1>4, <2>2 DEF in, last
    <3> HIDE DEF m
    <3>2. m - 1 \in Nat /\ last \in SchemasOver(Nested[m - 1].schemas)
          BY <3>1, StoreysLower
    <3> QED BY <3>2 DEF SchemasOver, m
  <2>4. Nested[n - 1 - 1].schemas \subseteq in
    <3>1. n - 1 - 1 <= n - 1
          BY <1>4
    <3> HIDE DEF n
    <3> QED BY <1>4, <2>3, <3>1, LevelsGrow DEF in
  <2> QED BY <2>2, <2>3, <2>4
<1>11. ASSUME x.kind = "call"
       PROVE  LocalNames(FieldNames(x)) \in Seq(Names) /\ Len(LocalNames(FieldNames(x))) = many
  <2> DEFINE names == FieldNames(x)
  <2>1. names \in [1..many -> Names]
        BY <1>4, <1>11, PartsLower DEF FieldNames
  <2> HIDE DEF names
  <2>2. LocalNames(names) \in [1..many -> Names]
        BY <2>1, GrammarAssumption DEF LocalNames, Names
  <2> HIDE DEF many
  <2>3. LocalNames(names) \in Seq(Names) /\ Len(LocalNames(names)) = many
        BY <1>4, <2>2, MadeSeq
  <2> QED BY <2>3 DEF names
<1>12. Nested[n].schemas = SchemasOver(in)
       BY <1>4, NestedCases DEF in
<1> DEFINE sc == Render[x]
<1>13. sc \in SchemasOver(in)
  <2>1. CASE x.kind = "terminal" /\ x.of = "exact"
    <3> DEFINE tag == "const"
    <3>0. tag \in SchemaTypes /\ tag # "record"
          BY DEF SchemaTypes
    <3> DEFINE name == x.name
    <3> HIDE DEF tag, name
    <3>1. sc = Sch(tag, name, None, <<>>, <<>>, FALSE, <<>>, <<>>)
          BY <1>4, <2>1, RenderIs DEF tag, name
    <3>2. name \in Names
          BY <1>7 DEF name
    <3>8. sc \in Keywords(in)
          BY <3>0, <1>8, <1>9, <3>1, <3>2 DEF Sch, Keywords
    <3>9. sc.type # "record"
          BY <3>0, <3>1 DEF Sch
    <3> HIDE DEF sc
    <3> QED BY <3>8, <3>9, KeywordsOver
  <2>2. CASE x.kind = "terminal" /\ x.of # "exact"
    <3> DEFINE type == Types[x.of]
    <3>1. type \in SchemaTypes /\ type # "record"
      <4>1. x.of \in DOMAIN Types
            BY <1>7, <2>2
      <4> DEFINE of == x.of
      <4>2. of \in {"any", "nil", "bool", "number", "string", "list", "map", "symbol"}
            BY <4>1 DEF Types
      <4> HIDE DEF of
      <4>3. Types[of] \in {"any", "null", "boolean", "number", "string", "array", "object"}
            BY <4>2 DEF Types
      <4> QED BY <4>3 DEF of, SchemaTypes
    <3> HIDE DEF type
    <3>2. sc = Sch(type, None, None, <<>>, <<>>, FALSE, <<>>, <<>>)
          BY <1>4, <2>2, RenderIs DEF type
    <3>8. sc \in Keywords(in)
          BY <1>8, <1>9, <3>1, <3>2 DEF Sch, Keywords
    <3>9. sc.type # "record"
          BY <3>1, <3>2 DEF Sch
    <3> HIDE DEF sc
    <3> QED BY <3>8, <3>9, KeywordsOver
  <2>3. CASE x.kind = "ref"
    <3> DEFINE tag == "ref"
    <3>0. tag \in SchemaTypes /\ tag # "record"
          BY DEF SchemaTypes
    <3> DEFINE name == x.name
    <3> HIDE DEF tag, name
    <3>1. sc = Sch(tag, None, name, <<>>, <<>>, FALSE, <<>>, <<>>)
          BY <1>4, <2>3, RenderIs DEF tag, name
    <3>2. name \in Names
          BY <1>7 DEF name
    <3>8. sc \in Keywords(in)
          BY <3>0, <1>8, <1>9, <3>1, <3>2 DEF Sch, Keywords
    <3>9. sc.type # "record"
          BY <3>0, <3>1 DEF Sch
    <3> HIDE DEF sc
    <3> QED BY <3>8, <3>9, KeywordsOver
  <2>4. CASE x.kind = "repeat"
    <3> DEFINE tag == "array"
    <3>0. tag \in SchemaTypes /\ tag # "record"
          BY DEF SchemaTypes
    <3> HIDE DEF tag
    <3>1. sc = Sch(tag, None, None, <<>>, parts, FALSE, <<>>, <<>>)
          BY <1>4, <2>4, RenderIs DEF parts, tag
    <3>8. sc \in Keywords(in)
          BY <3>0, <1>6, <1>8, <1>9, <3>1 DEF Sch, Keywords
    <3>9. sc.type # "record"
          BY <3>0, <3>1 DEF Sch
    <3> HIDE DEF sc
    <3> QED BY <3>8, <3>9, KeywordsOver
  <2>5. CASE x.kind = "alt"
    <3> DEFINE any == "any"
               anyOf == "anyOf"
    <3>0. any \in SchemaTypes /\ any # "record" /\ anyOf \in SchemaTypes /\ anyOf # "record"
          BY DEF SchemaTypes
    <3> HIDE DEF any, anyOf
    <3>1. \/ sc = Sch(any, None, None, <<>>, <<>>, FALSE, <<>>, <<>>)
          \/ sc = Sch(anyOf, None, None, <<>>, <<>>, FALSE, <<>>, parts)
          BY <1>4, <2>5, RenderIs DEF parts, any, anyOf
    <3>2. Sch(any, None, None, <<>>, <<>>, FALSE, <<>>, <<>>) \in Keywords(in)
          BY <1>8, <1>9, <3>0 DEF Sch, Keywords
    <3>3. Sch(anyOf, None, None, <<>>, <<>>, FALSE, <<>>, parts) \in Keywords(in)
          BY <1>6, <1>8, <1>9, <3>0 DEF Sch, Keywords
    <3>8. sc \in Keywords(in)
          BY <3>1, <3>2, <3>3
    <3>9. sc.type # "record"
          BY <3>0, <3>1 DEF Sch
    <3> HIDE DEF sc
    <3> QED BY <3>8, <3>9, KeywordsOver
  <2>6. CASE x.kind = "seq" /\ Tailed(x)
    <3> DEFINE front == Front(parts)
               rest == Last(parts).rest
    <3> DEFINE tag == "array"
    <3>0. tag \in SchemaTypes /\ tag # "record"
          BY DEF SchemaTypes
    <3> HIDE DEF tag
    <3>1. sc = Sch(tag, None, None, front, rest, FALSE, <<>>, <<>>)
          BY <1>4, <2>6, RenderIs DEF parts, tag
    <3>2. front \in Seq(in) /\ rest \in Seq(in)
          BY <1>10, <2>6
    <3> HIDE DEF front, rest
    <3>8. sc \in Keywords(in)
          BY <3>0, <1>8, <1>9, <3>1, <3>2 DEF Sch, Keywords
    <3>9. sc.type # "record"
          BY <3>0, <3>1 DEF Sch
    <3> HIDE DEF sc
    <3> QED BY <3>8, <3>9, KeywordsOver
  <2>7. CASE x.kind = "seq" /\ ~Tailed(x)
    <3> DEFINE tag == "array"
    <3>0. tag \in SchemaTypes /\ tag # "record"
          BY DEF SchemaTypes
    <3> HIDE DEF tag
    <3>1. sc = Sch(tag, None, None, parts, <<>>, TRUE, <<>>, <<>>)
          BY <1>4, <2>7, RenderIs DEF parts, tag
    <3>8. sc \in Keywords(in)
          BY <3>0, <1>6, <1>8, <1>9, <3>1 DEF Sch, Keywords
    <3>9. sc.type # "record"
          BY <3>0, <3>1 DEF Sch
    <3> HIDE DEF sc
    <3> QED BY <3>8, <3>9, KeywordsOver
  <2>8. CASE x.kind = "call"
    <3> DEFINE tag == "record"
    <3>0. tag \in SchemaTypes
          BY DEF SchemaTypes
    <3> HIDE DEF tag
    <3>1. sc = Sch(tag, None, None, parts, <<>>, FALSE, LocalNames(FieldNames(x)), <<>>)
          BY <1>4, <2>8, RenderIs DEF parts, tag
    <3>8. sc \in Keywords(in)
          BY <3>0, <1>6, <1>8, <1>9, <1>11, <2>8, <3>1 DEF Sch, Keywords
    <3>9. Len(sc.names) = Len(sc.prefix)
      <4> DEFINE names == LocalNames(FieldNames(x))
      <4>1. Len(names) = Len(parts)
            BY <1>6, <1>11, <2>8
      <4> HIDE DEF names
      <4>2. sc = Sch(tag, None, None, parts, <<>>, FALSE, names, <<>>)
            BY <3>1 DEF names
      <4>3. sc.names = names /\ sc.prefix = parts
            BY <4>2 DEF Sch
      <4> QED BY <4>1, <4>3
    <3> HIDE DEF sc
    <3> QED BY <3>8, <3>9, KeywordsOver
  <2> QED BY <1>7, <2>1, <2>2, <2>3, <2>4, <2>5, <2>6, <2>7, <2>8
<1> QED BY <1>3, <1>12, <1>13

(* What a production is rendered as is a schema.                           *)
LEMMA RenderedSchema ==
  ASSUME NEW p \in Production
  PROVE  Render[p] \in Schema
<1>1. Level(p) \in Nat /\ Level(p) <= Nesting /\ Nesting \in Nat
      BY GrammarAssumption, LevelTyped DEF Production
<1> HIDE DEF Level
<1> QED BY <1>1, RenderTyped, LevelsGrow DEF Schema

-----------------------------------------------------------------------------
(* What a schema admits.                                                   *)
Weight(q) == q.fuel * (Nesting + 1) + Storeys(q.of)

(* The parts of a claim about a schema, and its rank.                      *)
LEMMA WeightTyped ==
  ASSUME NEW q \in Claims(Schema)
  PROVE  /\ Weight(q) \in Nat /\ q.of \in Schema /\ q.expr \in Expr /\ q.fuel \in Nat
         /\ Storeys(q.of) \in Nat /\ Storeys(q.of) <= Nesting
<1> USE GrammarAssumption
<1>1. q.of \in Schema /\ q.expr \in Expr /\ q.fuel \in Nat
      BY DEF Claims
<1>2. Storeys(q.of) \in Nat /\ Storeys(q.of) <= Nesting
      BY <1>1, LevelTyped DEF Schema
<1>3. q.fuel * (Nesting + 1) \in Nat
      BY <1>1
<1> QED BY <1>1, <1>2, <1>3 DEF Weight

(* A claim about fewer levels, or with less fuel, ranks lower.             *)
LEMMA ClaimWeights ==
  ASSUME NEW q \in Claims(Schema), NEW s \in Schema, NEW e \in Expr
  PROVE  /\ Storeys(s) < Storeys(q.of) =>
              /\ Claim(s, e, q.fuel) \in Claims(Schema)
              /\ Weight(Claim(s, e, q.fuel)) < Weight(q)
         /\ q.fuel > 0 =>
              /\ Claim(s, e, q.fuel - 1) \in Claims(Schema)
              /\ Weight(Claim(s, e, q.fuel - 1)) < Weight(q)
<1> USE GrammarAssumption
<1>1. q.fuel \in Nat /\ Storeys(q.of) \in Nat /\ Storeys(s) \in Nat /\ Storeys(s) <= Nesting
      BY WeightTyped, LevelTyped DEF Schema
<1>2. Claim(s, e, q.fuel) \in Claims(Schema)
      BY <1>1 DEF Claim, Claims
<1>3. q.fuel > 0 => Claim(s, e, q.fuel - 1) \in Claims(Schema)
      BY <1>1 DEF Claim, Claims
<1>4. \A f : Weight(Claim(s, e, f)) = f * (Nesting + 1) + Storeys(s)
      BY DEF Weight, Claim
<1>5. ASSUME Storeys(s) < Storeys(q.of)
      PROVE  Weight(Claim(s, e, q.fuel)) < Weight(q)
  <2>1. q.fuel * (Nesting + 1) \in Nat
        BY <1>1
  <2>2. Weight(q) = q.fuel * (Nesting + 1) + Storeys(q.of)
        BY DEF Weight
  <2> QED BY <1>1, <1>4, <1>5, <2>1, <2>2
<1>6. ASSUME q.fuel > 0
      PROVE  Weight(Claim(s, e, q.fuel - 1)) < Weight(q)
  <2>1. PICK k \in Nat : q.fuel = k + 1
    <3>1. q.fuel - 1 \in Nat /\ q.fuel = (q.fuel - 1) + 1
          BY <1>1, <1>6
    <3> QED BY <3>1
  <2>2. q.fuel - 1 = k /\ k * (Nesting + 1) \in Nat
        BY <2>1
  <2>3. (k + 1) * (Nesting + 1) = k * (Nesting + 1) + (Nesting + 1)
        BY <2>1
  <2>4. Weight(q) = k * (Nesting + 1) + (Nesting + 1) + Storeys(q.of)
        BY <2>1, <2>3 DEF Weight
  <2>5. Weight(Claim(s, e, q.fuel - 1)) = k * (Nesting + 1) + Storeys(s)
        BY <1>4, <2>2
  <2> QED BY <1>1, <2>2, <2>4, <2>5
<1> QED BY <1>2, <1>3, <1>5, <1>6

(* The schemas a schema is made of have fewer levels.                      *)
LEMMA StoreysFall ==
  ASSUME NEW s \in Schema
  PROVE  /\ Len(s.prefix) \in Nat /\ DOMAIN s.prefix = 1..Len(s.prefix)
         /\ \A i \in 1..Len(s.prefix) :
              s.prefix[i] \in Schema /\ Storeys(s.prefix[i]) < Storeys(s)
         /\ s.rest # <<>> => s.rest[1] \in Schema /\ Storeys(s.rest[1]) < Storeys(s)
         /\ Len(s.anyOf) \in Nat /\ DOMAIN s.anyOf = 1..Len(s.anyOf)
         /\ \A i \in 1..Len(s.anyOf) :
              s.anyOf[i] \in Schema /\ Storeys(s.anyOf[i]) < Storeys(s)
         /\ Len(s.names) \in Nat /\ DOMAIN s.names = 1..Len(s.names)
         /\ s.type = "record" => Len(s.names) = Len(s.prefix)
<1> USE GrammarAssumption
<1> DEFINE n == Storeys(s)
           below == Nested[n - 1].schemas
<1>1. n \in Nat /\ n <= Nesting /\ s \in Nested[n].schemas
      BY LevelTyped DEF Schema
<1>2. /\ n - 1 \in Nat /\ s \in SchemasOver(below)
      /\ \A i \in DOMAIN s.prefix : s.prefix[i] \in below
      /\ s.rest # <<>> => s.rest[1] \in below
      /\ \A i \in DOMAIN s.anyOf : s.anyOf[i] \in below
      BY <1>1, StoreysLower
<1>3. \A x \in below : x \in Schema /\ Storeys(x) < n
  <2>1. n - 1 <= Nesting /\ Nesting \in Nat
        BY <1>1, <1>2
  <2>2. below \subseteq Schema
        BY <1>2, <2>1, LevelsGrow DEF Schema
  <2>3. \A x \in below : Storeys(x) \in Nat /\ Storeys(x) <= n - 1
        BY <1>2, LevelTyped
  <2> QED BY <1>1, <1>2, <2>2, <2>3
<1> HIDE DEF below
<1>4. /\ s.prefix \in Seq(below) /\ s.anyOf \in Seq(below) /\ s.names \in Seq(Names)
      /\ s.type = "record" => Len(s.names) = Len(s.prefix)
      BY <1>2 DEF SchemasOver
<1>5. /\ Len(s.prefix) \in Nat /\ DOMAIN s.prefix = 1..Len(s.prefix)
      /\ Len(s.anyOf) \in Nat /\ DOMAIN s.anyOf = 1..Len(s.anyOf)
      /\ Len(s.names) \in Nat /\ DOMAIN s.names = 1..Len(s.names)
      BY <1>4, LenProperties
<1> QED BY <1>2, <1>3, <1>4, <1>5

EntriesOf(s, t, known, q) ==
  \A i \in 1..Len(t.items) :
    IF i <= Len(s.prefix) THEN known[Claim(s.prefix[i], t.items[i], q.fuel)]
    ELSE s.rest # <<>> => known[Claim(s.rest[1], t.items[i], q.fuel)]
RecordOf(s, t, known, q) ==
  LET keys == LocalNames(t.keys) IN
  /\ t.form = "map" /\ NoDuplicates(keys)
  /\ {keys[k] : k \in DOMAIN keys} = {s.names[i] : i \in DOMAIN s.names}
  /\ \A i \in DOMAIN s.names, k \in DOMAIN keys :
       keys[k] = s.names[i] => known[Claim(s.prefix[i], t.items[k], q.fuel)]
Plain(s, t, e) ==
  CASE s.type = "any"     -> TRUE
    [] s.type = "const"   -> s.const = e
    [] s.type = "null"    -> t.form = "nil"
    [] s.type = "boolean" -> t.form = "bool"
    [] s.type = "string"  -> t.form \in {"string", "symbol"}
    [] s.type = "number"  -> t.form = "number"
    [] s.type = "object"  -> t.form = "map"
    [] OTHER -> FALSE

(* What a claim about a schema comes to, by the type of the schema.        *)
LEMMA ConformedIs ==
  ASSUME NEW defs, NEW q, NEW known
  PROVE  LET s == q.of  t == Term[q.expr]  ok == Conformed(defs, q, known) IN
         /\ s.type \notin {"anyOf", "record", "ref", "array"} => ok = Plain(s, t, q.expr)
         /\ s.type = "anyOf" =>
              ok = \E i \in DOMAIN s.anyOf : known[Claim(s.anyOf[i], q.expr, q.fuel)]
         /\ s.type = "record" => ok = RecordOf(s, t, known, q)
         /\ s.type = "ref" =>
              ok = /\ q.fuel > 0 /\ s.ref \in Unescaped /\ Found(defs, s.ref) # {}
                   /\ known[Claim(Render[TheDef(defs, s.ref)], q.expr, q.fuel - 1)]
         /\ s.type = "array" =>
              ok = /\ t.form \in {"list", "vector"}
                   /\ s.bounded => Len(t.items) = Len(s.prefix)
                   /\ EntriesOf(s, t, known, q)
<1> DEFINE s == q.of
           t == Term[q.expr]
           ok == Conformed(defs, q, known)
<1>1. s.type \notin {"anyOf", "record", "ref", "array"} => ok = Plain(s, t, q.expr)
      BY Zenon DEF Conformed, Plain
<1>2. s.type = "anyOf" =>
        ok = \E i \in DOMAIN s.anyOf : known[Claim(s.anyOf[i], q.expr, q.fuel)]
      BY Zenon DEF Conformed
<1>3. s.type = "record" => ok = RecordOf(s, t, known, q)
      BY Zenon DEF Conformed, IsMapOf, RecordOf
<1>4. s.type = "ref" =>
        ok = /\ q.fuel > 0 /\ s.ref \in Unescaped /\ Found(defs, s.ref) # {}
             /\ known[Claim(Render[TheDef(defs, s.ref)], q.expr, q.fuel - 1)]
      BY Zenon DEF Conformed
<1>5. s.type = "array" =>
        ok = /\ t.form \in {"list", "vector"}
             /\ s.bounded => Len(t.items) = Len(s.prefix)
             /\ EntriesOf(s, t, known, q)
      BY Zenon DEF Conformed, EntriesOf
<1> QED BY <1>1, <1>2, <1>3, <1>4, <1>5

(* A schema admits what it makes of the claims it rests on.                *)
LEMMA ConformsEquation ==
  ASSUME NEW defs \in Seq(DefType)
  PROVE  \A q \in Claims(Schema) : Conforms(defs)[q] = Conformed(defs, q, Conforms(defs))
<1> DEFINE Body(f, q) == Conformed(defs, q, f)
           Solves(f, n) == \A x \in Claims(Schema) : Weight(x) < n => f[x] = Body(f, x)
           Next_(f) == [x \in Claims(Schema) |-> Body(f, x)]
<1>1. ASSUME NEW f, NEW g, NEW x \in Claims(Schema),
             \A y \in Claims(Schema) : Weight(y) < Weight(x) => f[y] = g[y]
      PROVE  Body(f, x) = Body(g, x)
  <2> DEFINE s == x.of
             t == Term[x.expr]
  <2>1. /\ s \in Schema /\ x.expr \in Expr /\ x.fuel \in Nat
        /\ Len(t.items) \in Nat /\ \A i \in 1..Len(t.items) : t.items[i] \in Expr
        /\ DOMAIN t.keys = 1..Len(t.keys) /\ (t.form = "map" => Len(t.keys) = Len(t.items))
        BY WeightTyped, TermTyped
  <2>2. /\ Len(s.prefix) \in Nat /\ DOMAIN s.anyOf = 1..Len(s.anyOf)
        /\ DOMAIN s.names = 1..Len(s.names) /\ (s.type = "record" => Len(s.names) = Len(s.prefix))
        BY <2>1, StoreysFall
  <2>3. \A i \in 1..Len(s.prefix), e \in Expr :
          f[Claim(s.prefix[i], e, x.fuel)] = g[Claim(s.prefix[i], e, x.fuel)]
    <3>1. \A i \in 1..Len(s.prefix) : s.prefix[i] \in Schema /\ Storeys(s.prefix[i]) < Storeys(s)
          BY <2>1, StoreysFall
    <3> QED BY <1>1, <3>1, ClaimWeights
  <2>4. s.rest # <<>> => \A e \in Expr :
          f[Claim(s.rest[1], e, x.fuel)] = g[Claim(s.rest[1], e, x.fuel)]
    <3>1. s.rest # <<>> => s.rest[1] \in Schema /\ Storeys(s.rest[1]) < Storeys(s)
          BY <2>1, StoreysFall
    <3> QED BY <1>1, <3>1, ClaimWeights
  <2>5. \A i \in 1..Len(s.anyOf) :
          f[Claim(s.anyOf[i], x.expr, x.fuel)] = g[Claim(s.anyOf[i], x.expr, x.fuel)]
    <3>1. \A i \in 1..Len(s.anyOf) : s.anyOf[i] \in Schema /\ Storeys(s.anyOf[i]) < Storeys(s)
          BY <2>1, StoreysFall
    <3> QED BY <1>1, <2>1, <3>1, ClaimWeights
  <2>6. x.fuel > 0 /\ Found(defs, s.ref) # {} =>
          f[Claim(Render[TheDef(defs, s.ref)], x.expr, x.fuel - 1)] =
          g[Claim(Render[TheDef(defs, s.ref)], x.expr, x.fuel - 1)]
    <3>1. Found(defs, s.ref) # {} => Render[TheDef(defs, s.ref)] \in Schema
          BY FoundTyped, RenderedSchema
    <3> QED BY <1>1, <2>1, <3>1, ClaimWeights
  <2> HIDE DEF s, t
  <2>7. EntriesOf(s, t, f, x) = EntriesOf(s, t, g, x)
    <3>1. \A i \in 1..Len(t.items) : i <= Len(s.prefix) => i \in 1..Len(s.prefix)
          BY <2>1, <2>2
    <3> QED BY <2>1, <2>3, <2>4, <3>1 DEF EntriesOf
  <2>8. s.type = "record" => RecordOf(s, t, f, x) = RecordOf(s, t, g, x)
    <3>1. t.form = "map" => \A k \in DOMAIN t.keys : t.items[k] \in Expr
          BY <2>1
    <3>2. s.type = "record" => DOMAIN s.names = 1..Len(s.prefix)
          BY <2>2
    <3> DEFINE keys == LocalNames(t.keys)
    <3>3. DOMAIN keys = DOMAIN t.keys
          BY DEF LocalNames
    <3> HIDE DEF keys
    <3> QED BY <2>3, <3>1, <3>2, <3>3 DEF RecordOf, keys
  <2>9. CASE s.type \notin {"anyOf", "record", "ref", "array"}
    <3>1. ASSUME NEW h PROVE Body(h, x) = Plain(s, t, x.expr)
          BY <2>9, ConformedIs DEF s, t
    <3> HIDE DEF Body
    <3> QED BY <3>1
  <2>10. CASE s.type = "anyOf"
    <3>1. ASSUME NEW h
          PROVE  Body(h, x) = \E i \in DOMAIN s.anyOf : h[Claim(s.anyOf[i], x.expr, x.fuel)]
          BY <2>10, ConformedIs DEF s
    <3>2. (\E i \in DOMAIN s.anyOf : f[Claim(s.anyOf[i], x.expr, x.fuel)]) =
          (\E i \in DOMAIN s.anyOf : g[Claim(s.anyOf[i], x.expr, x.fuel)])
          BY <2>2, <2>5
    <3> HIDE DEF Body
    <3> QED BY <3>1, <3>2
  <2>11. CASE s.type = "record"
    <3>1. ASSUME NEW h PROVE Body(h, x) = RecordOf(s, t, h, x)
          BY <2>11, ConformedIs DEF s, t
    <3> HIDE DEF Body
    <3> QED BY <2>8, <2>11, <3>1
  <2>12. CASE s.type = "ref"
    <3>1. ASSUME NEW h
          PROVE  Body(h, x) = /\ x.fuel > 0 /\ s.ref \in Unescaped /\ Found(defs, s.ref) # {}
                              /\ h[Claim(Render[TheDef(defs, s.ref)], x.expr, x.fuel - 1)]
          BY <2>12, ConformedIs DEF s
    <3> HIDE DEF Body
    <3> QED BY <2>6, <3>1
  <2>13. CASE s.type = "array"
    <3>1. ASSUME NEW h
          PROVE  Body(h, x) = /\ t.form \in {"list", "vector"}
                              /\ s.bounded => Len(t.items) = Len(s.prefix)
                              /\ EntriesOf(s, t, h, x)
          BY <2>13, ConformedIs DEF s, t
    <3> HIDE DEF Body
    <3> QED BY <2>7, <3>1
  <2> QED BY <2>9, <2>10, <2>11, <2>12, <2>13
<1> HIDE DEF Body
<1>2. \A x \in Claims(Schema) : Weight(x) \in Nat
      BY WeightTyped
<1>3. \A n \in Nat : \E f : Solves(f, n)
  <2> DEFINE Lost == {n \in Nat : ~\E f : Solves(f, n)}
  <2>1. SUFFICES ASSUME NEW n \in Lost, \A m \in Lost : n <= m
                 PROVE  FALSE
    <3> HIDE DEF Solves
    <3> QED BY FirstPlace
  <2>2. CASE n = 0
    <3>1. \A f : Solves(f, 0)
          BY <1>2
    <3> HIDE DEF Solves
    <3> QED BY <2>1, <2>2, <3>1
  <2>3. CASE n > 0
    <3>1. PICK f : Solves(f, n - 1)
      <4> HIDE DEF Solves
      <4>1. n - 1 \in Nat /\ n - 1 \notin Lost
            BY <2>1, <2>3
      <4> QED BY <4>1
    <3>2. ASSUME NEW x \in Claims(Schema), Weight(x) < n
          PROVE  Next_(f)[x] = Body(Next_(f), x)
      <4>1. \A y \in Claims(Schema) : Weight(y) < Weight(x) => Next_(f)[y] = f[y]
            BY <1>2, <3>1, <3>2
      <4>2. Body(Next_(f), x) = Body(f, x)
            BY <1>1, <4>1
      <4> QED BY <4>2
    <3>3. Solves(Next_(f), n)
          BY <3>2
    <3> HIDE DEF Solves
    <3> QED BY <2>1, <3>3
  <2> QED BY <2>1, <2>2, <2>3
<1>4. ASSUME NEW m \in Nat, NEW n \in Nat, NEW f, NEW g, Solves(f, m), Solves(g, n),
             NEW x \in Claims(Schema), Weight(x) < m, Weight(x) < n
      PROVE  f[x] = g[x]
  <2>1. SUFFICES ASSUME f[x] # g[x] PROVE FALSE
        OBVIOUS
  <2> DEFINE T == {k \in Nat : \E y \in Claims(Schema) :
                           Weight(y) = k /\ k < m /\ k < n /\ f[y] # g[y]}
  <2>2. Weight(x) \in T
        BY <1>2, <1>4, <2>1
  <2>3. PICK k \in T : \A j \in T : k <= j
        BY <2>2, FirstPlace
  <2>4. PICK y \in Claims(Schema) : Weight(y) = k /\ k < m /\ k < n /\ f[y] # g[y]
        BY <2>3
  <2>5. \A z \in Claims(Schema) : Weight(z) < Weight(y) => f[z] = g[z]
        BY <1>2, <2>3, <2>4
  <2>6. Body(f, y) = Body(g, y)
        BY <1>1, <2>5
  <2> QED BY <1>4, <2>4, <2>6
<1> DEFINE At(n) == CHOOSE f : Solves(f, n)
           F == [x \in Claims(Schema) |-> At(Weight(x) + 1)[x]]
<1>5. \A n \in Nat : Solves(At(n), n)
  <2> HIDE DEF Solves
  <2> QED BY <1>3
<1> HIDE DEF At
<1>6. ASSUME NEW x \in Claims(Schema) PROVE F[x] = Body(F, x)
  <2> DEFINE f == At(Weight(x) + 1)
  <2>1. Weight(x) + 1 \in Nat /\ Weight(x) < Weight(x) + 1
        BY <1>2
  <2>2. Solves(f, Weight(x) + 1)
    <3> HIDE DEF Solves
    <3> QED BY <1>5, <2>1
  <2>3. ASSUME NEW y \in Claims(Schema), Weight(y) < Weight(x) PROVE F[y] = f[y]
    <3>1. Weight(y) + 1 \in Nat /\ Weight(y) < Weight(y) + 1 /\ Weight(y) < Weight(x) + 1
          BY <1>2, <2>3
    <3>2. Solves(At(Weight(y) + 1), Weight(y) + 1)
          BY <1>5, <3>1
    <3> HIDE DEF Solves
    <3>3. At(Weight(y) + 1)[y] = f[y]
          BY <1>4, <2>1, <2>2, <3>1, <3>2
    <3> QED BY <3>3
  <2>4. F[x] = f[x]
        OBVIOUS
  <2>5. f[x] = Body(f, x)
        BY <2>1, <2>2
  <2> HIDE DEF F, f
  <2>6. Body(F, x) = Body(f, x)
        BY <1>1, <2>3
  <2> QED BY <2>4, <2>5, <2>6
<1>7. F = [x \in Claims(Schema) |-> Body(F, x)]
  <2>1. F = [x \in Claims(Schema) |-> F[x]]
        OBVIOUS
  <2> HIDE DEF F
  <2> QED BY <1>6, <2>1
<1>8. \E f : f = [x \in Claims(Schema) |-> Body(f, x)]
      BY <1>7
<1> DEFINE conforms == CHOOSE h : h = [q \in Claims(Schema) |-> Body(h, q)]
<1>9. conforms = [x \in Claims(Schema) |-> Body(conforms, x)]
      BY <1>8
<1>10. Conforms(defs) = conforms
       BY DEF Conforms, Body
<1> HIDE DEF conforms
<1>11. \A q \in Claims(Schema) : conforms[q] = Body(conforms, q)
       BY <1>9
<1> QED BY <1>10, <1>11 DEF Body

(* What each type of schema admits, in terms of its parts.                 *)
LEMMA SchemaClaim ==
  ASSUME NEW defs \in Seq(DefType), NEW s \in Schema, NEW e \in Expr, NEW fuel \in Nat
  PROVE  LET known == Conforms(defs)  q == Claim(s, e, fuel)  t == Term[e] IN
         /\ s.type \notin {"anyOf", "record", "ref", "array"} => known[q] = Plain(s, t, e)
         /\ s.type = "anyOf" =>
              known[q] = \E i \in DOMAIN s.anyOf : known[Claim(s.anyOf[i], e, fuel)]
         /\ s.type = "record" => known[q] = RecordOf(s, t, known, q)
         /\ s.type = "ref" =>
              known[q] = /\ fuel > 0 /\ s.ref \in Unescaped /\ Found(defs, s.ref) # {}
                         /\ known[Claim(Render[TheDef(defs, s.ref)], e, fuel - 1)]
         /\ s.type = "array" =>
              known[q] = /\ t.form \in {"list", "vector"}
                         /\ s.bounded => Len(t.items) = Len(s.prefix)
                         /\ EntriesOf(s, t, known, q)
<1> DEFINE q == Claim(s, e, fuel)
           known == Conforms(defs)
           t == Term[e]
<1>1. q.of = s /\ q.expr = e /\ q.fuel = fuel /\ q \in Claims(Schema)
      BY DEF Claim, Claims
<1> HIDE DEF q
<1>2. known[q] = Conformed(defs, q, known)
      BY <1>1, ConformsEquation
<1> HIDE DEF known
<1>3. s.type \notin {"anyOf", "record", "ref", "array"} => known[q] = Plain(s, t, e)
      BY <1>1, <1>2, ConformedIs
<1>4. s.type = "anyOf" =>
        known[q] = \E i \in DOMAIN s.anyOf : known[Claim(s.anyOf[i], e, fuel)]
      BY <1>1, <1>2, ConformedIs
<1>5. s.type = "record" => known[q] = RecordOf(s, t, known, q)
      BY <1>1, <1>2, ConformedIs
<1>6. s.type = "ref" =>
        known[q] = /\ fuel > 0 /\ s.ref \in Unescaped /\ Found(defs, s.ref) # {}
                   /\ known[Claim(Render[TheDef(defs, s.ref)], e, fuel - 1)]
      BY <1>1, <1>2, ConformedIs
<1>7. s.type = "array" =>
        known[q] = /\ t.form \in {"list", "vector"}
                   /\ s.bounded => Len(t.items) = Len(s.prefix)
                   /\ EntriesOf(s, t, known, q)
      BY <1>1, <1>2, ConformedIs
<1> QED BY <1>3, <1>4, <1>5, <1>6, <1>7 DEF q, known

(* The schema of a production admits, of what the production does.         *)
Carries(defs, p, e, fuel) ==
  Admits(defs)[Claim(p, e, fuel)] => Conforms(defs)[Claim(Render[p], e, fuel)]

LEMMA TerminalCarries ==
  ASSUME NEW defs \in Seq(DefType), NEW p \in Production, NEW e \in Expr, NEW fuel \in Nat,
         p.kind = "terminal"
  PROVE  Carries(defs, p, e, fuel)
<1> DEFINE s == Render[p]
           known == Conforms(defs)
           ok == known[Claim(s, e, fuel)]
           t == Term[e]
           admitted == Admits(defs)[Claim(p, e, fuel)]
<1>1. s \in Schema
      BY RenderedSchema
<1>2. p.of \in DOMAIN Types \cup {"exact"}
  <2>1. Level(p) \in Nat /\ p \in Nested[Level(p)].productions
        BY GrammarAssumption, LevelTyped DEF Production
  <2>2. p.of \in DOMAIN Types \cup {"exact", ""} /\ p.of # ""
        BY <2>1, LevelCases
  <2> QED BY <2>2
<1>3. CASE p.of = "exact"
  <2>0. s = Sch("const", p.name, None, <<>>, <<>>, FALSE, <<>>, <<>>)
        BY <1>3, RenderIs
  <2>1. s.type = "const" /\ s.const = p.name
    <3> HIDE DEF s
    <3> QED BY <2>0 DEF Sch
  <2>2. admitted => p.name = e
        BY <1>3, TerminalAdmits
  <2> HIDE DEF s, known, admitted, t
  <2>3. Plain(s, t, e) = (s.const = e)
        BY <2>1 DEF Plain
  <2>4. s.type \notin {"anyOf", "record", "ref", "array"} => ok = Plain(s, t, e)
        BY <1>1, SchemaClaim DEF known, t
  <2>5. admitted => ok
        BY <2>1, <2>2, <2>3, <2>4
  <2> QED BY <2>5 DEF Carries, s, known, admitted
<1>4. CASE p.of # "exact"
  <2> DEFINE of == p.of
             type == Types[of]
             Accepted == {"any", "nil", "bool", "number", "string", "list", "map", "symbol"}
  <2>1. s = Sch(type, None, None, <<>>, <<>>, FALSE, <<>>, <<>>)
        BY <1>4, RenderIs
  <2>2. s.type = type /\ s.prefix = <<>> /\ s.rest = <<>> /\ s.bounded = FALSE
    <3> HIDE DEF s, type
    <3> QED BY <2>1 DEF Sch
  <2>3. of \in Accepted
        BY <1>2, <1>4 DEF Types
  <2>4. /\ of = "list" => (admitted => t.form \in {"list", "vector"})
        /\ of \notin {"any", "list"} => (admitted => t.form = of)
    <3>1. /\ p.of = "list" => admitted = (t.form \in {"list", "vector"})
          /\ p.of \notin {"any", "exact", "list"} => admitted = (t.form = p.of)
          BY TerminalAdmits
    <3> HIDE DEF admitted, t
    <3> QED BY <1>4, <3>1
  <2> HIDE DEF s, known, of, admitted
  <2>5. CASE of = "list"
    <3>1. s.type = "array"
          BY <2>2, <2>5 DEF Types
    <3>2. Len(s.prefix) = 0 /\ Len(t.items) \in Nat
          BY <2>2, TermTyped
    <3>3. EntriesOf(s, t, known, Claim(s, e, fuel))
          BY <2>2, <3>2 DEF EntriesOf
    <3>4. ok = /\ t.form \in {"list", "vector"}
               /\ s.bounded => Len(t.items) = Len(s.prefix)
               /\ EntriesOf(s, t, known, Claim(s, e, fuel))
          BY <1>1, <3>1, SchemaClaim DEF known
    <3>5. admitted => ok
          BY <2>2, <2>4, <2>5, <3>3, <3>4
    <3> QED BY <3>5 DEF Carries, s, known, admitted
  <2>6. CASE of # "list"
    <3>1. s.type \in {"any", "null", "boolean", "number", "string", "object"}
          BY <2>2, <2>3, <2>6 DEF Types
    <3>2. ok = Plain(s, t, e)
          BY <1>1, <3>1, SchemaClaim DEF known
    <3>3. admitted => Plain(s, t, e)
          BY <2>2, <2>3, <2>4, <2>6 DEF Types, Plain
    <3> HIDE DEF ok
    <3>4. admitted => ok
          BY <3>2, <3>3
    <3> QED BY <3>4 DEF Carries, s, known, admitted, ok
  <2> QED BY <2>5, <2>6
<1> QED BY <1>3, <1>4

(* So does each other kind of production, if its parts do.                 *)
LEMMA AltCarries ==
  ASSUME NEW defs \in Seq(DefType), NEW p \in Production, NEW e \in Expr, NEW fuel \in Nat,
         p.kind = "alt", \A i \in DOMAIN p.parts : Carries(defs, p.parts[i], e, fuel)
  PROVE  Carries(defs, p, e, fuel)
<1> DEFINE s == Render[p]
           parts == RenderedParts(p)
           n == Len(p.parts)
           known == Conforms(defs)
           admits == Admits(defs)
           ok == known[Claim(s, e, fuel)]
<1> SUFFICES ASSUME admits[Claim(p, e, fuel)] PROVE ok
    BY DEF Carries
<1>1. s \in Schema
      BY RenderedSchema
<1>2. DOMAIN p.parts = 1..n
      BY LevelFalls
<1>3. PICK i \in 1..n : admits[Claim(p.parts[i], e, fuel)]
      BY AltAdmits
<1>4. known[Claim(Render[p.parts[i]], e, fuel)]
      BY <1>2, <1>3 DEF Carries
<1>5. i \in DOMAIN parts /\ parts[i] = Render[p.parts[i]]
      BY <1>2, <1>3 DEF RenderedParts, Values
<1>6. CASE p.parts = <<Terminal("any")>>
  <2>1. s = Sch("any", None, None, <<>>, <<>>, FALSE, <<>>, <<>>)
        BY <1>6, RenderIs
  <2>2. s.type = "any"
    <3> HIDE DEF s
    <3> QED BY <2>1 DEF Sch
  <2> HIDE DEF s
  <2>3. known[Claim(s, e, fuel)] = Plain(s, Term[e], e)
        BY <1>1, <2>2, SchemaClaim DEF known
  <2> QED BY <2>2, <2>3 DEF Plain
<1>7. CASE p.parts # <<Terminal("any")>>
  <2>1. s = Sch("anyOf", None, None, <<>>, <<>>, FALSE, <<>>, parts)
        BY <1>7, RenderIs
  <2> HIDE DEF parts
  <2>2. s.type = "anyOf" /\ s.anyOf = parts
    <3> HIDE DEF s
    <3> QED BY <2>1 DEF Sch
  <2> HIDE DEF s
  <2>3. known[Claim(s, e, fuel)] = \E j \in DOMAIN s.anyOf : known[Claim(s.anyOf[j], e, fuel)]
        BY <1>1, <2>2, SchemaClaim DEF known
  <2> HIDE DEF known
  <2> QED BY <1>4, <1>5, <2>2, <2>3
<1> QED BY <1>6, <1>7

(* A production keeps its names if it does and its parts do.               *)
KeptBy(kept, p) ==
  LET names == FieldNames(p) IN
  /\ p.kind = "ref" => p.name \in Unescaped
  /\ p.kind = "call" =>
       \A i, j \in DOMAIN names : LocalNames(names)[i] = LocalNames(names)[j] => names[i] = names[j]
  /\ \A i \in DOMAIN p.parts : kept[Values(p)[i]]

LEMMA KeptEquation ==
  \A p \in Production : NamesKept[p] = KeptBy(NamesKept, p)
<1> DEFINE Body(f, p) == KeptBy(f, p)
           Solves(f, n) == \A x \in Production : Level(x) < n => f[x] = Body(f, x)
           Next_(f) == [x \in Production |-> Body(f, x)]
<1>1. ASSUME NEW f, NEW g, NEW x \in Production,
             \A y \in Production : Level(y) < Level(x) => f[y] = g[y]
      PROVE  Body(f, x) = Body(g, x)
  <2>1. \A i \in DOMAIN x.parts : f[Values(x)[i]] = g[Values(x)[i]]
        BY <1>1, LevelFalls
  <2> QED BY <2>1 DEF KeptBy
<1> HIDE DEF Body
<1>2. \A x \in Production : Level(x) \in Nat
      BY LevelTyped, GrammarAssumption DEF Production
<1>3. \A n \in Nat : \E f : Solves(f, n)
  <2> DEFINE Lost == {n \in Nat : ~\E f : Solves(f, n)}
  <2>1. SUFFICES ASSUME NEW n \in Lost, \A m \in Lost : n <= m
                 PROVE  FALSE
    <3> HIDE DEF Solves
    <3> QED BY FirstPlace
  <2>2. CASE n = 0
    <3>1. \A f : Solves(f, 0)
          BY <1>2
    <3> HIDE DEF Solves
    <3> QED BY <2>1, <2>2, <3>1
  <2>3. CASE n > 0
    <3>1. PICK f : Solves(f, n - 1)
      <4> HIDE DEF Solves
      <4>1. n - 1 \in Nat /\ n - 1 \notin Lost
            BY <2>1, <2>3
      <4> QED BY <4>1
    <3>2. ASSUME NEW x \in Production, Level(x) < n
          PROVE  Next_(f)[x] = Body(Next_(f), x)
      <4>1. \A y \in Production : Level(y) < Level(x) => Next_(f)[y] = f[y]
            BY <1>2, <3>1, <3>2
      <4>2. Body(Next_(f), x) = Body(f, x)
            BY <1>1, <4>1
      <4> QED BY <4>2
    <3>3. Solves(Next_(f), n)
          BY <3>2
    <3> HIDE DEF Solves
    <3> QED BY <2>1, <3>3
  <2> QED BY <2>1, <2>2, <2>3
<1>4. ASSUME NEW m \in Nat, NEW n \in Nat, NEW f, NEW g, Solves(f, m), Solves(g, n),
             NEW x \in Production, Level(x) < m, Level(x) < n
      PROVE  f[x] = g[x]
  <2>1. SUFFICES ASSUME f[x] # g[x] PROVE FALSE
        OBVIOUS
  <2> DEFINE T == {k \in Nat : \E y \in Production : Level(y) = k /\ k < m /\ k < n /\ f[y] # g[y]}
  <2>2. Level(x) \in T
        BY <1>2, <1>4, <2>1
  <2>3. PICK k \in T : \A j \in T : k <= j
        BY <2>2, FirstPlace
  <2>4. PICK y \in Production : Level(y) = k /\ k < m /\ k < n /\ f[y] # g[y]
        BY <2>3
  <2>5. \A z \in Production : Level(z) < Level(y) => f[z] = g[z]
        BY <1>2, <2>3, <2>4
  <2>6. Body(f, y) = Body(g, y)
        BY <1>1, <2>5
  <2> QED BY <1>4, <2>4, <2>6
<1> DEFINE At(n) == CHOOSE f : Solves(f, n)
           F == [x \in Production |-> At(Level(x) + 1)[x]]
<1>5. \A n \in Nat : Solves(At(n), n)
  <2> HIDE DEF Solves
  <2> QED BY <1>3
<1> HIDE DEF At
<1>6. ASSUME NEW x \in Production PROVE F[x] = Body(F, x)
  <2> DEFINE f == At(Level(x) + 1)
  <2>1. Level(x) + 1 \in Nat /\ Level(x) < Level(x) + 1
        BY <1>2
  <2>2. Solves(f, Level(x) + 1)
    <3> HIDE DEF Solves
    <3> QED BY <1>5, <2>1
  <2>3. ASSUME NEW y \in Production, Level(y) < Level(x) PROVE F[y] = f[y]
    <3>1. Level(y) + 1 \in Nat /\ Level(y) < Level(y) + 1 /\ Level(y) < Level(x) + 1
          BY <1>2, <2>3
    <3>2. Solves(At(Level(y) + 1), Level(y) + 1)
          BY <1>5, <3>1
    <3> HIDE DEF Solves
    <3>3. At(Level(y) + 1)[y] = f[y]
          BY <1>4, <2>1, <2>2, <3>1, <3>2
    <3> QED BY <3>3
  <2>4. F[x] = f[x]
        OBVIOUS
  <2>5. f[x] = Body(f, x)
        BY <2>1, <2>2
  <2> HIDE DEF F, f
  <2>6. Body(F, x) = Body(f, x)
        BY <1>1, <2>3
  <2> QED BY <2>4, <2>5, <2>6
<1>7. F = [x \in Production |-> Body(F, x)]
  <2>1. F = [x \in Production |-> F[x]]
        OBVIOUS
  <2> HIDE DEF F
  <2> QED BY <1>6, <2>1
<1>8. \E f : f = [x \in Production |-> Body(f, x)]
      BY <1>7
<1>9. NamesKept = [x \in Production |-> Body(NamesKept, x)]
      BY <1>8 DEF NamesKept, Body, KeptBy
<1>10. \A x \in Production : NamesKept[x] = Body(NamesKept, x)
       BY <1>9
<1> QED BY <1>10 DEF Body

LEMMA RefCarries ==
  ASSUME NEW defs \in Seq(DefType), NEW p \in Production, NEW e \in Expr, NEW fuel \in Nat,
         p.kind = "ref", p.name \in Unescaped,
         fuel > 0 /\ Found(defs, p.name) # {} => Carries(defs, TheDef(defs, p.name), e, fuel - 1)
  PROVE  Carries(defs, p, e, fuel)
<1> DEFINE s == Render[p]
           known == Conforms(defs)
           admits == Admits(defs)
           ok == known[Claim(s, e, fuel)]
<1> SUFFICES ASSUME admits[Claim(p, e, fuel)] PROVE ok
    BY DEF Carries
<1>1. s \in Schema
      BY RenderedSchema
<1>2. /\ fuel > 0 /\ Found(defs, p.name) # {}
      /\ admits[Claim(TheDef(defs, p.name), e, fuel - 1)]
      BY RefAdmits
<1>3. known[Claim(Render[TheDef(defs, p.name)], e, fuel - 1)]
      BY <1>2 DEF Carries
<1> DEFINE name == p.name
<1>4. s = Sch("ref", None, name, <<>>, <<>>, FALSE, <<>>, <<>>)
      BY RenderIs
<1> HIDE DEF s
<1>5. s.type = "ref" /\ s.ref = name
  <2> HIDE DEF name
  <2> QED BY <1>4 DEF Sch
<1>6. ok = /\ fuel > 0 /\ s.ref \in Unescaped /\ Found(defs, s.ref) # {}
           /\ known[Claim(Render[TheDef(defs, s.ref)], e, fuel - 1)]
      BY <1>1, <1>5, SchemaClaim DEF known
<1> HIDE DEF known
<1> QED BY <1>2, <1>3, <1>5, <1>6

LEMMA CallCarries ==
  ASSUME NEW defs \in Seq(DefType), NEW p \in Production, NEW e \in Expr, NEW fuel \in Nat,
         p.kind = "call",
         \A i, j \in DOMAIN FieldNames(p) :
           LocalNames(FieldNames(p))[i] = LocalNames(FieldNames(p))[j] =>
             FieldNames(p)[i] = FieldNames(p)[j],
         \A i \in DOMAIN p.parts, u \in Expr : Carries(defs, Values(p)[i], u, fuel)
  PROVE  Carries(defs, p, e, fuel)
<1> DEFINE s == Render[p]
           t == Term[e]
           parts == RenderedParts(p)
           names == FieldNames(p)
           known == Conforms(defs)
           admits == Admits(defs)
           q == Claim(s, e, fuel)
           ok == known[q]
<1> SUFFICES ASSUME admits[Claim(p, e, fuel)] PROVE ok
    BY DEF Carries
<1>1. s \in Schema
      BY RenderedSchema
<1>2. /\ t.form = "map" /\ NoDuplicates(t.keys)
      /\ {t.keys[k] : k \in DOMAIN t.keys} = {names[i] : i \in DOMAIN names}
      /\ \A i \in DOMAIN names, k \in DOMAIN t.keys :
           t.keys[k] = names[i] => admits[Claim(Values(p)[i], t.items[k], fuel)]
      BY CallAdmits
<1>3. DOMAIN names = DOMAIN p.parts
      BY DEF FieldNames
<1>4. \A k \in DOMAIN t.keys : t.items[k] \in Expr
  <2>1. /\ \A i \in 1..Len(t.items) : t.items[i] \in Expr
        /\ DOMAIN t.keys = 1..Len(t.keys) /\ (t.form = "map" => Len(t.keys) = Len(t.items))
        BY TermTyped
  <2> HIDE DEF t
  <2> QED BY <1>2, <2>1
<1>5. \A i \in DOMAIN names : parts[i] = Render[Values(p)[i]]
      BY <1>3 DEF RenderedParts
<1> HIDE DEF t, names, parts
<1>6. \A i \in DOMAIN names, k \in DOMAIN t.keys :
        t.keys[k] = names[i] => known[Claim(parts[i], t.items[k], fuel)]
      BY <1>2, <1>3, <1>4, <1>5 DEF Carries
<1> DEFINE locals == LocalNames(names)
           keys == LocalNames(t.keys)
<1>7. s = Sch("record", None, None, parts, <<>>, FALSE, locals, <<>>)
      BY RenderIs DEF parts, names
<1> HIDE DEF locals
<1>8. s.type = "record" /\ s.prefix = parts /\ s.names = locals
  <2> HIDE DEF s
  <2> QED BY <1>7 DEF Sch
<1> HIDE DEF s
<1>9. ok = RecordOf(s, t, known, q)
      BY <1>1, <1>8, SchemaClaim DEF known, t
<1>10. q.fuel = fuel
       BY DEF Claim
<1>11. /\ DOMAIN locals = DOMAIN names /\ DOMAIN keys = DOMAIN t.keys
       /\ \A i \in DOMAIN names, k \in DOMAIN t.keys : t.keys[k] = names[i] => keys[k] = locals[i]
       BY DEF locals, LocalNames
<1>12. \A i, j \in DOMAIN names : locals[i] = locals[j] => names[i] = names[j]
       BY DEF locals, names
<1>13. \A k \in DOMAIN t.keys : \E i \in DOMAIN names : names[i] = t.keys[k]
       BY <1>2
<1>14. \A i \in DOMAIN names : \E k \in DOMAIN t.keys : names[i] = t.keys[k]
       BY <1>2
<1> HIDE DEF q, known, keys
<1>15. \A k \in DOMAIN t.keys, i \in DOMAIN names : keys[k] = locals[i] => t.keys[k] = names[i]
       BY <1>11, <1>12, <1>13
<1>16. NoDuplicates(keys)
  <2>1. SUFFICES ASSUME NEW j \in DOMAIN keys, NEW k \in DOMAIN keys,
                        j # k, keys[j] = keys[k]
                 PROVE  keys[j] = None
        BY DEF NoDuplicates
  <2>2. PICK i \in DOMAIN names : names[i] = t.keys[j]
        BY <1>11, <1>13
  <2>3. t.keys[j] = t.keys[k]
        BY <1>11, <1>15, <2>1, <2>2
  <2>4. t.keys[j] = None
        BY <1>2, <1>11, <2>1, <2>3 DEF NoDuplicates
  <2>5. None \notin DOMAIN Local
        BY GrammarAssumption, GraphAssumption DEF GraphOK
  <2> QED BY <1>11, <2>1, <2>4, <2>5 DEF keys, LocalNames
<1>17. {keys[k] : k \in DOMAIN keys} = {locals[i] : i \in DOMAIN locals}
       BY <1>11, <1>13, <1>14
<1>18. \A i \in DOMAIN locals, k \in DOMAIN keys :
         keys[k] = locals[i] => known[Claim(parts[i], t.items[k], fuel)]
       BY <1>6, <1>11, <1>15
<1>19. RecordOf(s, t, known, q)
       BY <1>2, <1>8, <1>10, <1>16, <1>17, <1>18 DEF RecordOf, keys
<1> QED BY <1>9, <1>19

LEMMA SeqCarries ==
  ASSUME NEW defs \in Seq(DefType), NEW p \in Production, NEW e \in Expr, NEW fuel \in Nat,
         p.kind = "seq",
         \A i \in DOMAIN p.parts, u \in Expr : Carries(defs, p.parts[i], u, fuel),
         Tailed(p) => \A u \in Expr : Carries(defs, Last(p.parts).parts[1], u, fuel)
  PROVE  Carries(defs, p, e, fuel)
<1> DEFINE s == Render[p]
           t == Term[e]
           parts == RenderedParts(p)
           n == Len(p.parts)
           known == Conforms(defs)
           admits == Admits(defs)
           q == Claim(s, e, fuel)
           ok == known[q]
<1> SUFFICES ASSUME admits[Claim(p, e, fuel)] PROVE ok
    BY DEF Carries
<1>1. s \in Schema
      BY RenderedSchema
<1>2. DOMAIN p.parts = 1..n /\ n \in Nat
      BY LevelFalls
<1>3. Len(t.items) \in Nat /\ \A i \in 1..Len(t.items) : t.items[i] \in Expr
      BY TermTyped
<1>4. /\ parts \in Seq(Schema) /\ Len(parts) = n
      /\ \A i \in 1..n : parts[i] = Render[p.parts[i]]
  <2>1. \A i \in 1..n : Values(p)[i] = p.parts[i] /\ Render[p.parts[i]] \in Schema
        BY <1>2, LevelFalls, RenderedSchema DEF Values
  <2>2. parts \in [1..n -> Schema] /\ \A i \in 1..n : parts[i] = Render[p.parts[i]]
        BY <1>2, <2>1 DEF RenderedParts
  <2> HIDE DEF parts, n
  <2>3. parts \in Seq(Schema) /\ Len(parts) = n
        BY <1>2, <2>2, MadeSeq
  <2> QED BY <2>2, <2>3
<1>5. q.fuel = fuel
      BY DEF Claim
<1>6. ASSUME NEW prefix, NEW rest, NEW bounded,
             s = Sch("array", None, None, prefix, rest, bounded, <<>>, <<>>)
      PROVE  /\ s.prefix = prefix /\ s.rest = rest /\ s.bounded = bounded
             /\ ok = /\ t.form \in {"list", "vector"}
                     /\ s.bounded => Len(t.items) = Len(s.prefix)
                     /\ EntriesOf(s, t, known, q)
  <2>1. s.type = "array" /\ s.prefix = prefix /\ s.rest = rest /\ s.bounded = bounded
    <3> HIDE DEF s
    <3> QED BY <1>6 DEF Sch
  <2> HIDE DEF s
  <2>2. ok = /\ t.form \in {"list", "vector"}
             /\ s.bounded => Len(t.items) = Len(s.prefix)
             /\ EntriesOf(s, t, known, q)
        BY <1>1, <2>1, SchemaClaim DEF known, t
  <2> QED BY <2>1, <2>2
<1>7. CASE ~Tailed(p)
  <2>1. /\ t.form = "list" /\ Len(t.items) = n
        /\ \A i \in 1..Len(t.items) : admits[Claim(p.parts[i], t.items[i], fuel)]
    <3>1. LET items == t.items
              m == IF Tailed(p) THEN Len(p.parts) - 1 ELSE Len(p.parts) IN
          /\ t.form = "list" /\ Len(items) >= m
          /\ Tailed(p) \/ Len(items) = m
          /\ \A i \in 1..Len(items) :
               IF i <= m THEN admits[Claim(p.parts[i], items[i], fuel)]
               ELSE admits[Claim(Last(p.parts).parts[1], items[i], fuel)]
          BY SeqAdmits
    <3> HIDE DEF admits, t
    <3> QED BY <1>2, <1>3, <1>7, <3>1
  <2>2. s = Sch("array", None, None, parts, <<>>, TRUE, <<>>, <<>>)
        BY <1>7, RenderIs
  <2> HIDE DEF parts
  <2>3. /\ s.prefix = parts
        /\ ok = /\ t.form \in {"list", "vector"}
                /\ s.bounded => Len(t.items) = Len(s.prefix)
                /\ EntriesOf(s, t, known, q)
        BY <1>6, <2>2
  <2> HIDE DEF s, q
  <2>4. \A i \in 1..Len(t.items) : known[Claim(parts[i], t.items[i], fuel)]
        BY <1>2, <1>3, <1>4, <2>1 DEF Carries
  <2> HIDE DEF known, t
  <2>5. EntriesOf(s, t, known, q)
        BY <1>2, <1>3, <1>4, <1>5, <2>1, <2>3, <2>4 DEF EntriesOf
  <2> HIDE DEF ok
  <2> QED BY <1>4, <2>1, <2>3, <2>5
<1>8. CASE Tailed(p)
  <2> DEFINE tail == p.parts[n]
             inner == tail.parts[1]
             front == Front(parts)
             rest == Last(parts).rest
  <2>1. /\ n >= 1 /\ n - 1 \in Nat /\ n \in 1..n /\ Last(p.parts) = tail /\ tail.kind = "repeat"
        /\ tail \in Production /\ inner \in Production
        BY <1>2, <1>8, TailedIs, LevelFalls
  <2>2. /\ t.form = "list" /\ Len(t.items) >= n - 1
        /\ \A i \in 1..Len(t.items) :
             IF i <= n - 1 THEN admits[Claim(p.parts[i], t.items[i], fuel)]
             ELSE admits[Claim(inner, t.items[i], fuel)]
    <3>1. LET items == t.items
              m == IF Tailed(p) THEN Len(p.parts) - 1 ELSE Len(p.parts) IN
          /\ t.form = "list" /\ Len(items) >= m
          /\ Tailed(p) \/ Len(items) = m
          /\ \A i \in 1..Len(items) :
               IF i <= m THEN admits[Claim(p.parts[i], items[i], fuel)]
               ELSE admits[Claim(Last(p.parts).parts[1], items[i], fuel)]
          BY SeqAdmits
    <3> HIDE DEF admits, t, tail
    <3> QED BY <1>8, <2>1, <3>1
  <2>3. s = Sch("array", None, None, front, rest, FALSE, <<>>, <<>>)
        BY <1>8, RenderIs
  <2>4. parts # <<>>
    <3> HIDE DEF parts
    <3>1. Len(parts) # 0
          BY <1>4, <2>1
    <3> QED BY <3>1
  <2>5. /\ Len(front) = n - 1 /\ \A i \in 1..n - 1 : front[i] = parts[i]
        /\ Last(parts) = Render[tail]
    <3> HIDE DEF parts, n
    <3>1. /\ Len(front) = Len(parts) - 1 /\ \A i \in 1..Len(parts) - 1 : front[i] = parts[i]
          /\ Last(parts) = parts[Len(parts)]
          BY <1>4, <2>4, FrontLast
    <3> QED BY <1>4, <2>1, <3>1
  <2>6. rest # <<>> /\ rest[1] = Render[inner]
    <3> DEFINE below == RenderedParts(tail)
               sc == Render[tail]
    <3> HIDE DEF tail
    <3>1. sc = Sch("array", None, None, <<>>, below, FALSE, <<>>, <<>>)
          BY <2>1, RenderIs
    <3>2. sc.rest = below
      <4> HIDE DEF sc, below
      <4> QED BY <3>1 DEF Sch
    <3>3. Len(tail.parts) = 1 /\ DOMAIN tail.parts = 1..1
      <4>1. Level(tail) \in Nat /\ tail \in Nested[Level(tail)].productions
            BY <2>1, GrammarAssumption, LevelTyped DEF Production
      <4>2. Len(tail.parts) = 1
            BY <2>1, <4>1, LevelCases
      <4> QED BY <2>1, <4>2, LevelFalls
    <3>4. DOMAIN below = 1..1 /\ below[1] = Render[inner]
          BY <2>1, <3>3 DEF RenderedParts, Values
    <3>5. below # <<>>
      <4> HIDE DEF below
      <4>1. 1 \in DOMAIN below
            BY <3>4
      <4> QED BY <4>1
    <3> HIDE DEF below, sc
    <3> QED BY <2>5, <3>2, <3>4, <3>5 DEF sc
  <2> HIDE DEF front, rest, parts, tail
  <2>7. /\ s.prefix = front /\ s.rest = rest /\ s.bounded = FALSE
        /\ ok = /\ t.form \in {"list", "vector"}
                /\ s.bounded => Len(t.items) = Len(s.prefix)
                /\ EntriesOf(s, t, known, q)
        BY <1>6, <2>3
  <2> HIDE DEF s, q
  <2>8. \A i \in 1..Len(t.items) :
          IF i <= n - 1 THEN known[Claim(front[i], t.items[i], fuel)]
          ELSE known[Claim(Render[inner], t.items[i], fuel)]
    <3> SUFFICES ASSUME NEW i \in 1..Len(t.items)
                 PROVE  IF i <= n - 1 THEN known[Claim(front[i], t.items[i], fuel)]
                        ELSE known[Claim(Render[inner], t.items[i], fuel)]
        OBVIOUS
    <3>1. t.items[i] \in Expr
          BY <1>3
    <3>2. CASE i <= n - 1
      <4>1. i \in 1..n - 1 /\ i \in 1..n
            BY <1>2, <1>3, <2>1, <3>2
      <4>2. admits[Claim(p.parts[i], t.items[i], fuel)] /\ front[i] = Render[p.parts[i]]
            BY <1>4, <2>2, <2>5, <3>2, <4>1
      <4>3. known[Claim(Render[p.parts[i]], t.items[i], fuel)]
            BY <1>2, <3>1, <4>1, <4>2 DEF Carries
      <4> QED BY <3>2, <4>2, <4>3
    <3>3. CASE ~(i <= n - 1)
      <4>1. admits[Claim(inner, t.items[i], fuel)]
            BY <2>2, <3>3
      <4>2. Carries(defs, inner, t.items[i], fuel)
            BY <1>8, <2>1, <3>1
      <4> QED BY <3>3, <4>1, <4>2 DEF Carries
    <3> QED BY <3>2, <3>3
  <2> HIDE DEF known, t
  <2>9. EntriesOf(s, t, known, q)
        BY <1>5, <2>5, <2>6, <2>7, <2>8 DEF EntriesOf
  <2> HIDE DEF ok
  <2> QED BY <2>2, <2>7, <2>9
<1> QED BY <1>7, <1>8

(* The tail of a list keeps its names if the list does.                    *)
LEMMA TailKept ==
  ASSUME NEW p \in Production, p.kind = "seq", Tailed(p),
         \A i \in DOMAIN p.parts : NamesKept[p.parts[i]]
  PROVE  NamesKept[Last(p.parts).parts[1]]
<1> DEFINE n == Len(p.parts)
           tail == p.parts[n]
<1>1. /\ n \in DOMAIN p.parts /\ Last(p.parts) = tail /\ tail.kind = "repeat" /\ tail \in Production
      BY TailedIs, LevelFalls
<1> HIDE DEF tail
<1>2. Len(tail.parts) = 1 /\ DOMAIN tail.parts = 1..1
  <2>1. Level(tail) \in Nat /\ tail \in Nested[Level(tail)].productions
        BY <1>1, GrammarAssumption, LevelTyped DEF Production
  <2>2. Len(tail.parts) = 1
        BY <1>1, <2>1, LevelCases
  <2> QED BY <1>1, <2>2, LevelFalls
<1>3. KeptBy(NamesKept, tail)
  <2>1. NamesKept[tail]
        BY <1>1 DEF tail
  <2> QED BY <1>1, <2>1, KeptEquation
<1>4. NamesKept[Values(tail)[1]]
      BY <1>2, <1>3 DEF KeptBy
<1> QED BY <1>1, <1>4 DEF Values

(* What a graph that keeps its names admits its JSON Schema admits.        *)
LEMMA SchemaCarries ==
  ASSUME NEW defs \in Seq(DefType), \A i \in DOMAIN defs : NamesKept[defs[i].production]
  PROVE  \A p \in Production, e \in Expr, fuel \in Nat :
           NamesKept[p] => Carries(defs, p, e, fuel)
<1> DEFINE Wrong == {x \in Claims(Production) :
                       NamesKept[x.of] /\ ~Carries(defs, x.of, x.expr, x.fuel)}
           Ranks == {Rank(x) : x \in Wrong}
<1>1. Wrong = {}
  <2> SUFFICES ASSUME Wrong # {} PROVE FALSE
      OBVIOUS
  <2>1. PICK least \in Ranks : \A k \in Ranks : least <= k
    <3>1. Ranks \subseteq Nat /\ Ranks # {}
          BY RankTyped
    <3> HIDE DEF Ranks
    <3> QED BY <3>1, FirstPlace
  <2>2. PICK x \in Wrong : Rank(x) = least
        BY <2>1
  <2> DEFINE p == x.of
             e == x.expr
             fuel == x.fuel
  <2>3. x \in Claims(Production) /\ p \in Production /\ e \in Expr
        /\ fuel \in Nat /\ Rank(x) \in Nat
        BY <2>2, RankTyped
  <2>4. ASSUME NEW y \in Production, NEW u \in Expr, NEW f \in Nat,
               Claim(y, u, f) \in Claims(Production), Rank(Claim(y, u, f)) < Rank(x), NamesKept[y]
        PROVE  Carries(defs, y, u, f)
    <3> DEFINE z == Claim(y, u, f)
    <3>1. z.of = y /\ z.expr = u /\ z.fuel = f /\ Rank(z) \in Nat
          BY <2>4, RankTyped DEF Claim
    <3> HIDE DEF z
    <3>2. z \notin Wrong
      <4> SUFFICES ASSUME z \in Wrong PROVE FALSE
          OBVIOUS
      <4>1. Rank(z) \in Ranks
            OBVIOUS
      <4> HIDE DEF Ranks, Wrong
      <4> QED BY <2>1, <2>2, <2>3, <2>4, <3>1, <4>1 DEF z
    <3> QED BY <2>4, <3>1, <3>2 DEF z
  <2>5. ASSUME NEW y \in Production, Level(y) < Level(p), NamesKept[y], NEW u \in Expr
        PROVE  Carries(defs, y, u, fuel)
        BY <2>3, <2>4, <2>5, ClaimRanks
  <2>6. ASSUME NEW y \in Production, NamesKept[y], fuel > 0
        PROVE  Carries(defs, y, e, fuel - 1)
    <3>1. fuel - 1 \in Nat
          BY <2>3, <2>6
    <3>2. Claim(y, e, fuel - 1) \in Claims(Production) /\ Rank(Claim(y, e, fuel - 1)) < Rank(x)
          BY <2>3, <2>6, ClaimRanks
    <3> QED BY <2>3, <2>4, <2>6, <3>1, <3>2
  <2>7. ~Carries(defs, p, e, fuel) /\ NamesKept[p]
        BY <2>2
  <2>15. KeptBy(NamesKept, p)
        BY <2>3, <2>7, KeptEquation
  <2>16. \A i \in DOMAIN p.parts : NamesKept[Values(p)[i]]
        BY <2>15 DEF KeptBy
  <2>17. p.kind # "call" => \A i \in DOMAIN p.parts : NamesKept[p.parts[i]]
        BY <2>16 DEF Values
  <2>8. p.kind \in {"terminal", "ref", "alt", "seq", "repeat", "call"}
    <3>1. Level(p) \in Nat /\ p \in Nested[Level(p)].productions
          BY <2>3, GrammarAssumption, LevelTyped DEF Production
    <3> QED BY <3>1, LevelCases
  <2> HIDE DEF p, e, fuel
  <2>9. CASE p.kind = "terminal"
        BY <2>3, <2>7, <2>9, TerminalCarries
  <2>10. CASE p.kind = "ref"
    <3>1. Found(defs, p.name) # {} =>
            /\ TheDef(defs, p.name) \in Production
            /\ \E j \in DOMAIN defs : TheDef(defs, p.name) = defs[j].production
          BY FoundTyped
    <3>3. p.name \in Unescaped
          BY <2>10, <2>15 DEF KeptBy
    <3>2. fuel > 0 /\ Found(defs, p.name) # {} =>
            Carries(defs, TheDef(defs, p.name), e, fuel - 1)
          BY <2>6, <3>1
    <3> QED BY <2>3, <2>7, <2>10, <3>2, <3>3, RefCarries
  <2>11. CASE p.kind = "alt"
    <3>1. \A i \in DOMAIN p.parts : Carries(defs, p.parts[i], e, fuel)
          BY <2>3, <2>5, <2>11, <2>17, LevelFalls
    <3> QED BY <2>3, <2>7, <2>11, <3>1, AltCarries
  <2>12. CASE p.kind = "seq"
    <3>1. \A i \in DOMAIN p.parts, u \in Expr : Carries(defs, p.parts[i], u, fuel)
          BY <2>3, <2>5, <2>12, <2>17, LevelFalls
    <3>2. Tailed(p) => \A u \in Expr : Carries(defs, Last(p.parts).parts[1], u, fuel)
          BY <2>3, <2>5, <2>12, <2>17, TailKept, TailedIs
    <3> QED BY <2>3, <2>7, <2>12, <3>1, <3>2, SeqCarries
  <2>13. CASE p.kind = "call"
    <3>1. \A i \in DOMAIN p.parts, u \in Expr : Carries(defs, Values(p)[i], u, fuel)
          BY <2>3, <2>5, <2>16, LevelFalls
    <3>2. \A i, j \in DOMAIN FieldNames(p) :
            LocalNames(FieldNames(p))[i] = LocalNames(FieldNames(p))[j] =>
              FieldNames(p)[i] = FieldNames(p)[j]
          BY <2>13, <2>15 DEF KeptBy
    <3> QED BY <2>3, <2>7, <2>13, <3>1, <3>2, CallCarries
  <2>14. CASE p.kind = "repeat"
    <3>1. ~Admits(defs)[Claim(p, e, fuel)]
          BY <2>3, <2>14, RepeatAdmits
    <3> QED BY <2>7, <3>1 DEF Carries
  <2> QED BY <2>8, <2>9, <2>10, <2>11, <2>12, <2>13, <2>14
<1> SUFFICES ASSUME NEW p \in Production, NEW e \in Expr, NEW fuel \in Nat, NamesKept[p]
             PROVE  Carries(defs, p, e, fuel)
    OBVIOUS
<1> DEFINE q == Claim(p, e, fuel)
<1>2. q.of = p /\ q.expr = e /\ q.fuel = fuel /\ q \in Claims(Production)
      BY ClaimIs
<1> HIDE DEF q
<1> QED BY <1>1, <1>2

-----------------------------------------------------------------------------
(* A graph is what the shape asked about was lowered to, and a schema what *)
(* its production was rendered as.                                         *)
GrammarInv ==
  /\ request = None => outcome = "none" /\ ~graph.ok
  /\ request # None => request \in Requests
  /\ graph.ok => request # None /\ graph = Lowered[request.shape]
  /\ outcome = "rendered" =>
       graph.ok /\ (request.entry = "schema" => schema = Render[graph.production])

(* Before a request there is no graph.                                     *)
LEMMA GrammarInvInit ==
  Init => GrammarInv
BY DEF Init, GrammarInv, Unsupported

(* Every step of a request keeps to its shape.                             *)
LEMMA GrammarInvStep ==
  GrammarInv /\ [Next]_vars => GrammarInv'
<1> SUFFICES ASSUME GrammarInv, [Next]_vars PROVE GrammarInv'
    OBVIOUS
<1>1. ASSUME NEW r \in Requests, Ask(r) PROVE GrammarInv'
      BY <1>1 DEF GrammarInv, Ask
<1>2. CASE Mismatch
      BY <1>2 DEF GrammarInv, Mismatch, Pending, Refuse
<1>3. CASE LowerShape
      BY <1>3 DEF GrammarInv, LowerShape, Pending
<1>4. CASE RefuseShape
      BY <1>4 DEF GrammarInv, RefuseShape, Pending, Refuse
<1>5. CASE RenderSchema
      BY <1>5 DEF GrammarInv, RenderSchema, Pending
<1>6. CASE RefuseSchema
      BY <1>6 DEF GrammarInv, RefuseSchema, Pending, Refuse
<1>7. CASE HandOver
      BY <1>7 DEF GrammarInv, HandOver, Pending
<1>8. CASE RendererFails
      BY <1>8 DEF GrammarInv, RendererFails, Pending, Refuse
<1>9. CASE UNCHANGED vars
      BY <1>9 DEF GrammarInv, vars
<1> QED BY <1>1, <1>2, <1>3, <1>4, <1>5, <1>6, <1>7, <1>8, <1>9 DEF Next

(* The graph of a shape, and its schema, describe what the shape accepts.  *)
LEMMA LoweredDescribes ==
  ASSUME NEW s \in Shape, Lowered[s].ok, About[s].free = {}, Unambiguous(Lowered[s].defs),
         NEW e \in Expr
  PROVE  LET p == Lowered[s].production  G == Lowered[s].defs
             admitted == Admits(G)[Claim(p, e, Fuel)]
             kept == NamesKept[p] /\ \A i \in DOMAIN G : NamesKept[G[i].production] IN
         /\ admitted /\ ~About[s].wider => Accepts(s, e)
         /\ Accepts(s, e) /\ ~About[s].closer => admitted
         /\ admitted /\ kept => Conforms(G)[Claim(Render[p], e, Fuel)]
<1> DEFINE G == Lowered[s].defs
           p == Lowered[s].production
           w == About[s].wider
           c == About[s].closer
           q == Asking(Job(s, e, "expr"), <<>>, Fuel)
           admitted == Admits(G)[Claim(p, e, Fuel)]
           kept == NamesKept[p] /\ \A i \in DOMAIN G : NamesKept[G[i].production]
<1>1. G \in Seq(DefType) /\ p \in Production
      BY LoweredTyped, LoweredProduct DEF LowType
<1>2. Fuel \in Nat
      BY GrammarAssumption
<1>3. q.task.shape = s /\ q.task.expr = e /\ q.task.path = "expr" /\ q.scope = <<>> /\ q.fuel = Fuel
      BY AskingIs
<1>4. q \in Question
      BY <1>2 DEF Asking, Job, Question, Task, Paths
<1> HIDE DEF q
<1>5. Ready(G, w, c, q)
  <2>1. Fits(G, s, q.scope)
        BY DEF Fits
  <2>2. Known(s, w, c)
        BY DEF Known
  <2>3. ScopesFit(G, q.scope, w, c)
        BY <1>3 DEF ScopesFit
  <2> QED BY <1>3, <2>1, <2>2, <2>3 DEF Ready
<1> HIDE DEF w, c
<1>6. Describes(G, w, c, q)
      BY <1>1, <1>4, <1>5, GraphDescribes
<1>7. Accepts(s, e) <=> Meaning[q].st = "accept"
      BY DEF Accepts, q
<1>8. /\ ~w /\ admitted => Meaning[q].st = "accept"
      /\ ~c /\ Meaning[q].st = "accept" => admitted
      BY <1>3, <1>6, Zenon DEF Describes, Holds
<1>9. admitted /\ kept => Conforms(G)[Claim(Render[p], e, Fuel)]
      BY <1>1, <1>2, SchemaCarries DEF Carries
<1> HIDE DEF admitted, kept
<1>10. /\ admitted /\ ~w => Accepts(s, e)
       /\ Accepts(s, e) /\ ~c => admitted
       BY <1>7, <1>8
<1> QED BY <1>9, <1>10 DEF admitted, kept, w, c

(* All the productions of a graph are its root's and its definitions'.     *)
LEMMA AllAre ==
  ASSUME graph.defs \in Seq(DefType),
         \A i \in DOMAIN AllProductions : NamesKept[AllProductions[i]]
  PROVE  /\ NamesKept[graph.production]
         /\ \A i \in DOMAIN graph.defs : NamesKept[graph.defs[i].production]
<1> DEFINE G == graph.defs
           ps == Productions(G)
           all == AllProductions
           D == {graph.production} \cup {G[i].production : i \in DOMAIN G}
           root == <<graph.production>>
<1>1. Len(G) \in Nat /\ DOMAIN G = 1..Len(G)
      BY LenProperties
<1>2. ps \in Seq(D) /\ Len(ps) = Len(G) /\ \A i \in 1..Len(G) : ps[i] = G[i].production
  <2>1. ps \in [1..Len(G) -> D] /\ \A i \in 1..Len(G) : ps[i] = G[i].production
        BY <1>1 DEF Productions
  <2> HIDE DEF ps, G, D
  <2> QED BY <1>1, <2>1, MadeSeq
<1>3. root \in Seq(D) /\ Len(root) = 1 /\ root[1] = graph.production
      OBVIOUS
<1>4. all = root \o ps
      BY DEF AllProductions
<1> HIDE DEF ps, D, root, G, all
<1>5. /\ Len(all) = 1 + Len(G) /\ DOMAIN all = 1..(1 + Len(G))
      /\ \A i \in 1..(1 + Len(G)) : all[i] = IF i <= 1 THEN root[i] ELSE ps[i - 1]
  <2>1. all \in Seq(D) /\ Len(all) = 1 + Len(G)
        /\ \A i \in 1..(1 + Len(G)) : all[i] = IF i <= 1 THEN root[i] ELSE ps[i - 1]
        BY <1>2, <1>3, <1>4, ConcatProperties
  <2> QED BY <2>1, LenProperties
<1>6. 1 \in DOMAIN all /\ all[1] = graph.production
      BY <1>1, <1>3, <1>5
<1>7. ASSUME NEW i \in DOMAIN G PROVE i + 1 \in DOMAIN all /\ all[i + 1] = G[i].production
      BY <1>1, <1>2, <1>5
<1> QED BY <1>6, <1>7 DEF all, G

(* A request that ended in a rendering ended in a description.             *)
LEMMA GrammarInvDescribes ==
  GrammarInv => GrammarIsShape
<1> SUFFICES ASSUME GrammarInv, outcome = "rendered",
                    About[request.shape].free = {}, Unambiguous(graph.defs), NEW e \in Expr
             PROVE  LET admitted == Admits(graph.defs)[Claim(graph.production, e, Fuel)]
                        about == About[request.shape]
                        kept == \A i \in DOMAIN AllProductions : NamesKept[AllProductions[i]] IN
                    /\ admitted /\ ~about.wider => Accepts(request.shape, e)
                    /\ Accepts(request.shape, e) /\ ~about.closer => admitted
                    /\ admitted /\ kept /\ request.entry = "schema" =>
                         Conforms(graph.defs)[Claim(schema, e, Fuel)]
    BY Zenon DEF GrammarIsShape
<1> DEFINE s == request.shape
           p == graph.production
           G == graph.defs
           admitted == Admits(G)[Claim(p, e, Fuel)]
           w == About[s].wider
           c == About[s].closer
           kept == \A i \in DOMAIN AllProductions : NamesKept[AllProductions[i]]
           named == NamesKept[p] /\ \A i \in DOMAIN G : NamesKept[G[i].production]
<1>1. /\ s \in Shape /\ graph = Lowered[s] /\ Lowered[s].ok
      /\ request.entry = "schema" => schema = Render[p]
      BY DEF GrammarInv, Requests
<1> HIDE DEF s
<1>2. /\ admitted /\ ~w => Accepts(s, e)
      /\ Accepts(s, e) /\ ~c => admitted
      /\ admitted /\ named => Conforms(G)[Claim(Render[p], e, Fuel)]
      BY <1>1, LoweredDescribes DEF s
<1>4. kept => named
  <2>1. G \in Seq(DefType)
        BY <1>1, LoweredProduct, LoweredTyped DEF LowType, s
  <2> QED BY <2>1, AllAre
<1> HIDE DEF admitted, w, c, kept, named
<1>3. admitted /\ kept /\ request.entry = "schema" => Conforms(G)[Claim(schema, e, Fuel)]
      BY <1>1, <1>2, <1>4
<1> QED BY <1>2, <1>3 DEF admitted, s, w, c, kept

(* The state of a request always fits: its graph is its own shape's.       *)
THEOREM GrammarInvariant ==
  Spec => []GrammarInv
BY GrammarInvInit, GrammarInvStep, PTL DEF Spec

(* A graph describes the terms the shape accepts, and the JSON Schema made *)
(* from it admits whatever the graph does if it keeps the graph's names    *)
(* (GrammarIsShape), for every graph of shapes and every term.             *)
THEOREM GrammarsAreShapes ==
  Spec => []GrammarIsShape
<1>1. GrammarInv => GrammarIsShape
      BY GrammarInvDescribes
<1> QED BY <1>1, GrammarInvariant, PTL
=============================================================================
