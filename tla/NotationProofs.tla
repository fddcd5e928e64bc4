--------------------------- MODULE NotationProofs ---------------------------
(***************************************************************************)
(* What the two notations of a shape promise of every grammar expression,  *)
(* every shape and every datum.  The recursive definitions are shown to    *)
(* have their solutions first: expressions, shapes and data are finite     *)
(* trees, so what is said of a part does not depend on the whole.          *)
(***************************************************************************)
EXTENDS Notation, SequenceTheorems, WellFoundedInduction, TLAPS

(* Of natural numbers with a property there is a least one.                *)
LEMMA LeastNumber ==
  ASSUME NEW T \in SUBSET Nat, T # {}
  PROVE  \E n \in T : \A m \in T : n <= m
<1>1. PICK n \in T : \A m \in T : ~(<<m, n>> \in OpToRel(<, Nat))
      BY NatLessThanWellFounded, WFMin
<1>2. \A m \in T : ~(m < n)
      BY <1>1 DEF OpToRel
<1> QED BY <1>2

(* A definition of functions on D whose value at x depends only on values  *)
(* at smaller places, and a function it defines.                           *)
Shrinks(D, V, size, Def) ==
  /\ V # {} /\ size \in [D -> Nat] /\ Def \in [[D -> V] \X D -> V]
  /\ \A f, g \in [D -> V], x \in D :
       (\A y \in D : size[y] < size[x] => f[y] = g[y]) => Def[<<f, x>>] = Def[<<g, x>>]
Solved(D, V, Def) == \E f : f = [x \in D |-> Def[<<f, x>>]] /\ f \in [D -> V]

LEMMA Recursion ==
  ASSUME NEW D, NEW V, NEW size, NEW Def, Shrinks(D, V, size, Def)
  PROVE  Solved(D, V, Def)
<1> USE DEF Shrinks
<1> DEFINE Solves(f, n) == f \in [D -> V] /\ \A x \in D : size[x] < n => f[x] = Def[<<f, x>>]
           Stage(f) == [x \in D |-> Def[<<f, x>>]]
<1>1. \A f \in [D -> V] : Stage(f) \in [D -> V]
      OBVIOUS
<1>2. \A n \in Nat : \E f : Solves(f, n)
  <2> DEFINE Lost == {n \in Nat : ~\E f : Solves(f, n)}
  <2>1. SUFFICES ASSUME NEW n \in Lost, \A m \in Lost : n <= m
                 PROVE  FALSE
    <3> HIDE DEF Solves
    <3> QED BY LeastNumber
  <2>2. CASE n = 0
    <3>1. PICK v \in V : TRUE
          OBVIOUS
    <3>2. Solves([x \in D |-> v], 0)
          BY <3>1
    <3> HIDE DEF Solves
    <3> QED BY <2>1, <2>2, <3>2
  <2>3. CASE n > 0
    <3>1. PICK f : Solves(f, n - 1)
      <4> HIDE DEF Solves
      <4>1. n - 1 \in Nat /\ n - 1 \notin Lost
            BY <2>1, <2>3
      <4> QED BY <4>1
    <3>2. Solves(Stage(f), n)
      <4>1. SUFFICES ASSUME NEW x \in D, size[x] < n
                     PROVE  Stage(f)[x] = Def[<<Stage(f), x>>]
            BY <1>1, <3>1
      <4>2. \A y \in D : size[y] < size[x] => Stage(f)[y] = f[y]
            BY <3>1, <4>1
      <4> QED BY <1>1, <3>1, <4>2
    <3> HIDE DEF Solves
    <3> QED BY <2>1, <3>2
  <2> QED BY <2>1, <2>2, <2>3
<1>3. ASSUME NEW m \in Nat, NEW n \in Nat, NEW f, NEW g, Solves(f, m), Solves(g, n),
             NEW x \in D, size[x] < m, size[x] < n
      PROVE  f[x] = g[x]
  <2>1. SUFFICES ASSUME f[x] # g[x] PROVE FALSE
        OBVIOUS
  <2> DEFINE T == {k \in Nat : \E y \in D : size[y] = k /\ k < m /\ k < n /\ f[y] # g[y]}
  <2>2. size[x] \in T
        BY <1>3, <2>1
  <2>3. PICK k \in T : \A j \in T : k <= j
        BY <2>2, LeastNumber
  <2>4. PICK y \in D : size[y] = k /\ k < m /\ k < n /\ f[y] # g[y]
        BY <2>3
  <2>5. \A z \in D : size[z] < size[y] => f[z] = g[z]
        BY <2>3, <2>4
  <2>6. f[y] = Def[<<f, y>>] /\ g[y] = Def[<<g, y>>] /\ f \in [D -> V] /\ g \in [D -> V]
        BY <1>3, <2>4
  <2> HIDE DEF Solves, T
  <2>7. Def[<<f, y>>] = Def[<<g, y>>]
        BY <2>5, <2>6
  <2> QED BY <2>4, <2>6, <2>7
<1> DEFINE At(n) == CHOOSE f : Solves(f, n)
           F == [x \in D |-> At(size[x] + 1)[x]]
<1>4. \A n \in Nat : Solves(At(n), n)
  <2> HIDE DEF Solves
  <2> QED BY <1>2
<1> HIDE DEF At
<1>5. F \in [D -> V]
      BY <1>4
<1>6. ASSUME NEW x \in D PROVE F[x] = Def[<<F, x>>]
  <2> DEFINE f == At(size[x] + 1)
  <2>1. size[x] + 1 \in Nat /\ Solves(f, size[x] + 1)
    <3>1. size[x] + 1 \in Nat
          OBVIOUS
    <3> HIDE DEF Solves
    <3> QED BY <1>4, <3>1
  <2>2. ASSUME NEW y \in D, size[y] < size[x] PROVE F[y] = f[y]
    <3>1. size[y] + 1 \in Nat /\ size[y] < size[y] + 1 /\ size[y] < size[x] + 1
          BY <2>2
    <3>2. Solves(At(size[y] + 1), size[y] + 1)
          BY <1>4, <3>1
    <3> HIDE DEF Solves
    <3>3. At(size[y] + 1)[y] = f[y]
          BY <1>3, <2>1, <3>1, <3>2
    <3> QED BY <3>3
  <2>3. F[x] = f[x]
        OBVIOUS
  <2> HIDE DEF F, f
  <2>4. size[x] < size[x] + 1
        OBVIOUS
  <2>5. f[x] = Def[<<f, x>>] /\ f \in [D -> V]
        BY <2>1, <2>4
  <2> QED BY <1>5, <2>2, <2>3, <2>5
<1>7. F = [x \in D |-> Def[<<F, x>>]]
  <2> HIDE DEF F
  <2> QED BY <1>5, <1>6
<1> QED BY <1>5, <1>7 DEF Solved

-----------------------------------------------------------------------------
(* The parts of an expression are smaller expressions.                     *)

Smaller(e) == {p \in Phrase : Size[p] < Size[e]}
RuleNames == {r[2] : r \in Reads} \cup {"tuple"}

LEMMA PhraseTyped ==
  ASSUME NEW e \in Phrase
  PROVE  /\ Form(e) \in {"symbol", "list", "number", "nil", "other"}
         /\ Items(e) \in Seq(Phrase)
         /\ Items(e) \in Seq(Smaller(e))
         /\ None \notin Phrase
<1>1. Source[e] \in PhraseType
      BY ParseAssumption
<1>2. Form(e) \in {"symbol", "list", "number", "nil", "other"} /\ Items(e) \in Seq(Phrase)
      BY <1>1 DEF Form, Items, PhraseType
<1>3. \A i \in DOMAIN Items(e) : Items(e)[i] \in Smaller(e)
      BY <1>2, ParseAssumption DEF Items, Smaller
<1>4. Items(e) \in Seq(Smaller(e))
      BY <1>2, <1>3
<1> QED BY <1>2, <1>4, ParseAssumption

LEMMA ItemsSmaller ==
  ASSUME NEW e \in Phrase, NEW p \in Smaller(e)
  PROVE  p \in Phrase /\ Items(p) \in Seq(Smaller(e))
<1>1. p \in Phrase /\ Items(p) \in Seq(Smaller(p))
      BY PhraseTyped DEF Smaller
<1>2. Smaller(p) \subseteq Smaller(e)
  <2>1. Size[e] \in Nat /\ Size[p] \in Nat /\ Size[p] < Size[e]
        BY <1>1, ParseAssumption DEF Smaller
  <2>2. \A q \in Phrase : Size[q] \in Nat
        BY ParseAssumption
  <2> QED BY <2>1, <2>2 DEF Smaller
<1> QED BY <1>1, <1>2

LEMMA EntriesTyped ==
  ASSUME NEW e \in Phrase, NEW es \in Seq(Smaller(e))
  PROVE  Entries(es) \in Seq(Smaller(e) \cup {None})
<1>1. ASSUME NEW i \in DOMAIN es, IsPair(es[i]) PROVE Items(es[i])[2] \in Smaller(e)
  <2>1. es[i] \in Smaller(e)
        OBVIOUS
  <2> DEFINE pair == Items(es[i])
  <2>2. pair \in Seq(Smaller(e)) /\ Len(pair) = 2
        BY <1>1, <2>1, ItemsSmaller DEF IsPair, Arity
  <2> HIDE DEF pair
  <2>3. 2 \in 1..Len(pair)
        BY <2>2
  <2>4. pair[2] \in Smaller(e)
        BY <2>2, <2>3, ElementOfSeq
  <2> QED BY <2>4 DEF pair
<1>2. Entries(es) = [i \in 1..Len(es) |-> IF IsPair(es[i]) THEN Items(es[i])[2] ELSE None]
      BY DEF Entries
<1> QED BY <1>1, <1>2

LEMMA RuleNamed ==
  ASSUME NEW e
  PROVE  Rule(e) \in RuleNames /\ (Rule(e) # "tuple" => Items(e) # <<>> /\ HasHead(e))
<1> DEFINE rules == IF HasHead(e) THEN {r \in Reads : r[1] = Source[Items(e)[1]].name} ELSE {}
<1>1. CASE rules = {}
      BY <1>1 DEF Rule, RuleNames
<1>2. CASE rules # {}
  <2>1. (CHOOSE r \in rules : TRUE) \in rules
        BY <1>2
  <2>2. (CHOOSE r \in rules : TRUE) \in Reads /\ HasHead(e)
        BY <1>2, <2>1
  <2> QED BY <1>2, <2>2 DEF Rule, RuleNames, HasHead
<1> QED BY <1>1, <1>2

LEMMA StepsTyped ==
  ASSUME NEW e \in Phrase
  PROVE  Steps(e) \in Seq(Smaller(e) \cup {None})
<1> DEFINE at == Items(e)
           Read_ == Seq(Smaller(e) \cup {None})
<1>17. SUFFICES Steps(e) \in Read_
       OBVIOUS
<1>1. /\ at \in Seq(Smaller(e))
      /\ \A i \in DOMAIN at : at[i] \in Smaller(e) /\ Items(at[i]) \in Seq(Smaller(e))
      BY PhraseTyped, ItemsSmaller
<1>2. Rule(e) # "tuple" => at # <<>> /\ Args(e) \in Seq(Smaller(e))
      BY <1>1, RuleNamed DEF Args
<1>3. \A es \in Seq(Smaller(e)) : Entries(es) \in Read_ /\ es \in Read_
  <2>1. Seq(Smaller(e)) \subseteq Read_
        OBVIOUS
  <2> QED BY <2>1, EntriesTyped
<1>15. <<None>> \in Read_
       OBVIOUS
<1>16. \A p, q \in Smaller(e) : <<p>> \in Read_ /\ <<p, q>> \in Read_
      OBVIOUS
<1>4. CASE Rule(e) = "tuple"
      BY <1>1, <1>3, <1>4 DEF Steps, StepsBy
<1>5. CASE Rule(e) \in {"and", "or", "list"}
  <2>1. Spread(e) \in Seq(Smaller(e))
        BY <1>1, <1>2, <1>5 DEF Spread, Arity
  <2>2. Steps(e) = Spread(e)
        BY <1>5 DEF Steps, StepsBy
  <2> QED BY <1>3, <2>1, <2>2
<1>6. CASE Rule(e) \in {"not", "repeat"}
  <2>1. Steps(e) = If(Len(at) = 2, <<at[2]>>)
        BY <1>6 DEF Steps, StepsBy
  <2>2. Len(at) = 2 => at[2] \in Smaller(e)
        BY <1>1
  <2> HIDE DEF Read_, at
  <2> QED BY <1>15, <1>16, <2>1, <2>2 DEF If
<1>7. CASE Rule(e) \in {"capture", "single"}
  <2>1. Steps(e) = If(Len(at) = 3 /\ IsSymbol(at[2]), <<at[3]>>)
        BY <1>7 DEF Steps, StepsBy
  <2>2. Len(at) = 3 => at[3] \in Smaller(e)
        BY <1>1
  <2> HIDE DEF Read_, at
  <2> QED BY <1>15, <1>16, <2>1, <2>2 DEF If
<1>8. CASE Rule(e) = "fields"
      BY <1>2, <1>3, <1>8 DEF Steps, StepsBy
<1>9. CASE Rule(e) \in {"open", "closed"}
  <2>1. TableFields(e) \in Seq(Smaller(e))
        BY <1>1, <1>2, <1>9 DEF TableFields, Arity
  <2> QED BY <1>3, <1>9, <2>1 DEF Steps, StepsBy
<1>10. CASE Rule(e) = "rest"
  <2>1. Steps(e) = If(Len(at) = 3 /\ IsList(at[2]), Append(Items(at[2]), at[3]))
        BY <1>10 DEF Steps, StepsBy
  <2>2. Len(at) = 3 => at[3] \in Smaller(e) /\ Items(at[2]) \in Seq(Smaller(e))
        BY <1>1
  <2>3. Len(at) = 3 => Append(Items(at[2]), at[3]) \in Seq(Smaller(e))
        BY <2>2
  <2> HIDE DEF Read_, at
  <2> QED BY <1>3, <1>15, <2>1, <2>3 DEF If
<1>11. CASE Rule(e) = "bounds"
  <2>1. Steps(e) = If(Len(at) = 4 /\ BoundsOK(at[3], at[4]), <<at[2]>>)
        BY <1>11 DEF Steps, StepsBy
  <2>2. Len(at) = 4 => at[2] \in Smaller(e)
        BY <1>1
  <2> HIDE DEF Read_, at
  <2> QED BY <1>15, <1>16, <2>1, <2>2 DEF If
<1>12. CASE Rule(e) = "defs"
  <2> DEFINE defs == If(IsList(at[2]), Entries(Items(at[2])))
  <2>1. Steps(e) = If(Len(at) = 3, <<at[3]>> \o defs)
        BY <1>12 DEF Steps, StepsBy
  <2>2. Len(at) = 3 => at[3] \in Smaller(e) /\ Entries(Items(at[2])) \in Read_
        BY <1>1, <1>3
  <2>3. Len(at) = 3 => defs \in Read_
    <3> HIDE DEF Read_
    <3> QED BY <1>15, <2>2 DEF If
  <2> HIDE DEF defs
  <2>4. Len(at) = 3 => <<at[3]>> \o defs \in Read_
        BY <2>2, <2>3
  <2> HIDE DEF Read_, at
  <2> QED BY <1>15, <2>1, <2>4 DEF If
<1>13. CASE Rule(e) = "ref"
       BY <1>1, <1>13 DEF Steps, StepsBy, If
<1>14. CASE Rule(e) = "without"
  <2>1. Steps(e) = If(Len(at) = 3, <<at[2], at[3]>>)
        BY <1>14 DEF Steps, StepsBy
  <2>2. Len(at) = 3 => at[2] \in Smaller(e) /\ at[3] \in Smaller(e)
        BY <1>1
  <2> HIDE DEF Read_, at
  <2> QED BY <1>15, <1>16, <2>1, <2>2 DEF If
<1> HIDE DEF Read_
<1> QED BY <1>4, <1>5, <1>6, <1>7, <1>8, <1>9, <1>10, <1>11, <1>12, <1>13, <1>14, RuleNamed
        DEF RuleNames, Reads

LEMMA PartsTyped ==
  ASSUME NEW e \in Phrase
  PROVE  /\ DOMAIN Steps(e) = 1..Len(Steps(e)) /\ Len(Steps(e)) \in Nat
         /\ \A i \in DOMAIN Steps(e) : Steps(e)[i] \in Parts(e)
         /\ \A part \in Parts(e) \ {None} : part \in Phrase /\ Size[part] < Size[e]
<1>1. Steps(e) \in Seq(Smaller(e) \cup {None})
      BY StepsTyped
<1> QED BY <1>1 DEF Parts, Smaller

(* What a list has to read, without the bound on its size.                 *)
LEMMA StepsRead ==
  ASSUME NEW e \in Phrase
  PROVE  /\ Steps(e) \in Seq(Phrase \cup {None}) /\ Len(Steps(e)) \in Nat
         /\ DOMAIN Steps(e) = 1..Len(Steps(e))
<1>1. Smaller(e) \cup {None} \subseteq Phrase \cup {None}
      BY DEF Smaller
<1>2. Steps(e) \in Seq(Phrase \cup {None})
  <2>1. Seq(Smaller(e) \cup {None}) \subseteq Seq(Phrase \cup {None})
        BY <1>1
  <2> QED BY <2>1, StepsTyped
<1> QED BY <1>2, LenProperties

-----------------------------------------------------------------------------
(* The grammar's recursive definitions have a solution.                    *)

LEMMA WellFormedEquation ==
  \A e \in Phrase :
    WellFormed[e] <=> IsSymbol(e) \/ (Readable(e) /\ \A part \in Parts(e) : WellFormed[part])
<1> DEFINE Body(f, e) == IsSymbol(e) \/ (Readable(e) /\ \A part \in Parts(e) : f[part])
           Def == [p \in [Phrase -> BOOLEAN] \X Phrase |-> Body(p[1], p[2])]
<1>1. ASSUME NEW f \in [Phrase -> BOOLEAN], NEW g \in [Phrase -> BOOLEAN], NEW x \in Phrase,
             \A y \in Phrase : Size[y] < Size[x] => f[y] = g[y]
      PROVE  Body(f, x) = Body(g, x)
  <2>1. Readable(x) => \A part \in Parts(x) : part \in Phrase /\ Size[part] < Size[x]
        BY PartsTyped DEF Readable
  <2>2. Readable(x) => \A part \in Parts(x) : f[part] = g[part]
        BY <1>1, <2>1
  <2> QED BY <2>2, Zenon
<1>2. \A f \in [Phrase -> BOOLEAN], x \in Phrase : Def[<<f, x>>] = Body(f, x)
      OBVIOUS
<1>3. Def \in [[Phrase -> BOOLEAN] \X Phrase -> BOOLEAN]
      OBVIOUS
<1>4. Solved(Phrase, BOOLEAN, Def)
  <2> HIDE DEF Def, Body
  <2>1. ASSUME NEW f \in [Phrase -> BOOLEAN], NEW g \in [Phrase -> BOOLEAN], NEW x \in Phrase,
               \A y \in Phrase : Size[y] < Size[x] => f[y] = g[y]
        PROVE  Def[<<f, x>>] = Def[<<g, x>>]
        BY <1>1, <1>2, <2>1
  <2>2. Size \in [Phrase -> Nat] /\ BOOLEAN # {}
        BY ParseAssumption
  <2>3. Shrinks(Phrase, BOOLEAN, Size, Def)
        BY <1>3, <2>1, <2>2, Zenon DEF Shrinks
  <2> QED BY <2>3, Recursion
<1>5. \E f : f = [e \in Phrase |-> Body(f, e)]
  <2> HIDE DEF Def, Body
  <2> QED BY <1>2, <1>4 DEF Solved
<1>6. WellFormed = [e \in Phrase |-> Body(WellFormed, e)]
      BY <1>5 DEF WellFormed
<1> HIDE DEF Body
<1>7. \A e \in Phrase : WellFormed[e] = Body(WellFormed, e)
      BY <1>6
<1> QED BY <1>7, Zenon DEF Body

LEMMA FitsEquation ==
  \A left \in Nat, e \in Phrase :
    Fits[left][e] <=>
      left > 0 /\ (IsList(e) => \A part \in Parts(e) \ {None} : Fits[left - 1][part])
<1> DEFINE V == [Phrase -> BOOLEAN]
           Body(f, n) ==
             [e \in Phrase |->
                n > 0 /\ (IsList(e) => \A part \in Parts(e) \ {None} : f[n - 1][part])]
           Def == [p \in [Nat -> V] \X Nat |-> Body(p[1], p[2])]
           size == [n \in Nat |-> n]
<1>1. ASSUME NEW f \in [Nat -> V], NEW g \in [Nat -> V], NEW n \in Nat,
             \A m \in Nat : size[m] < size[n] => f[m] = g[m]
      PROVE  Body(f, n) = Body(g, n)
  <2>1. CASE n > 0
    <3>1. f[n - 1] = g[n - 1]
          BY <1>1, <2>1
    <3> QED BY <3>1
  <2>2. CASE ~(n > 0)
        BY <2>2
  <2> QED BY <2>1, <2>2
<1>2. \A f \in [Nat -> V], n \in Nat : Def[<<f, n>>] = Body(f, n)
      OBVIOUS
<1>3. Def \in [[Nat -> V] \X Nat -> V]
  <2>1. \A f, n : Body(f, n) \in V
        BY Zenon
  <2> HIDE DEF Body, V
  <2> QED BY <2>1
<1>4. Solved(Nat, V, Def)
  <2>1. V # {} /\ size \in [Nat -> Nat]
    <3>1. [e \in Phrase |-> TRUE] \in V
          OBVIOUS
    <3> QED BY <3>1
  <2> HIDE DEF Def, Body, V
  <2>2. ASSUME NEW f \in [Nat -> V], NEW g \in [Nat -> V], NEW n \in Nat,
               \A m \in Nat : size[m] < size[n] => f[m] = g[m]
        PROVE  Def[<<f, n>>] = Def[<<g, n>>]
        BY <1>1, <1>2, <2>2
  <2> HIDE DEF size
  <2>3. Shrinks(Nat, V, size, Def)
        BY <1>3, <2>1, <2>2, Zenon DEF Shrinks
  <2> QED BY <2>3, Recursion
<1>5. \E f : f = [n \in Nat |-> Body(f, n)]
  <2> HIDE DEF Def, Body
  <2> QED BY <1>2, <1>4 DEF Solved
<1>6. Fits = [n \in Nat |-> Body(Fits, n)]
      BY <1>5, Zenon DEF Fits
<1> HIDE DEF Body
<1>7. \A n \in Nat : Fits[n] = Body(Fits, n)
      BY <1>6
<1> QED BY <1>7, Zenon DEF Body

(* The tree an expression means is built of its parts' trees.              *)
LEMMA MeantEquation ==
  /\ \A e \in Phrase : IsSymbol(e) => Meant[e] = Atom(e)
  /\ \A e \in Phrase :
       Readable(e) => Meant[e] = Built(e, [i \in DOMAIN Steps(e) |-> Meant[Steps(e)[i]]])
<1> DEFINE Body(f, e) ==
             CASE IsSymbol(e) -> Atom(e)
               [] Readable(e) -> Built(e, [i \in DOMAIN Steps(e) |-> f[Steps(e)[i]]])
               [] OTHER       -> Leaf
           Solves(f, n) == \A x \in Phrase : Size[x] < n => f[x] = Body(f, x)
           Stage(f) == [x \in Phrase |-> Body(f, x)]
<1>1. ASSUME NEW f, NEW g, NEW x \in Phrase, \A y \in Phrase : Size[y] < Size[x] => f[y] = g[y]
      PROVE  Body(f, x) = Body(g, x)
  <2>1. Readable(x) => \A i \in DOMAIN Steps(x) : f[Steps(x)[i]] = g[Steps(x)[i]]
        BY <1>1, PartsTyped DEF Readable
  <2>2. Readable(x) =>
          [i \in DOMAIN Steps(x) |-> f[Steps(x)[i]]] = [i \in DOMAIN Steps(x) |-> g[Steps(x)[i]]]
        BY <2>1
  <2> QED BY <2>2
<1> HIDE DEF Body
<1>2. \A e \in Phrase : Size[e] \in Nat
      BY ParseAssumption
<1>3. \A n \in Nat : \E f : Solves(f, n)
  <2> DEFINE Lost == {n \in Nat : ~\E f : Solves(f, n)}
  <2>1. SUFFICES ASSUME NEW n \in Lost, \A m \in Lost : n <= m
                 PROVE  FALSE
    <3> HIDE DEF Solves
    <3> QED BY LeastNumber
  <2>2. CASE n = 0
    <3>1. \A f : Solves(f, 0)
          BY <1>2
    <3> HIDE DEF Solves
    <3> QED BY <2>1, <2>2, <3>1
  <2>3. CASE n > 0
    <3>1. PICK f : Solves(f, n - 1)
      <4> HIDE DEF Solves
      <4>1. n - 1 \in Nat /\ n - 1 \notin Lost
            BY <2>1, <2>3
      <4> QED BY <4>1
    <3>2. ASSUME NEW x \in Phrase, Size[x] < n
          PROVE  Stage(f)[x] = Body(Stage(f), x)
      <4>1. \A y \in Phrase : Size[y] < Size[x] => Stage(f)[y] = f[y]
            BY <1>2, <3>1, <3>2
      <4>2. Body(Stage(f), x) = Body(f, x)
            BY <1>1, <4>1
      <4> QED BY <4>2
    <3>3. Solves(Stage(f), n)
          BY <3>2
    <3> HIDE DEF Solves
    <3> QED BY <2>1, <3>3
  <2> QED BY <2>1, <2>2, <2>3
<1>4. ASSUME NEW m \in Nat, NEW n \in Nat, NEW f, NEW g, Solves(f, m), Solves(g, n),
             NEW x \in Phrase, Size[x] < m, Size[x] < n
      PROVE  f[x] = g[x]
  <2>1. SUFFICES ASSUME f[x] # g[x] PROVE FALSE
        OBVIOUS
  <2> DEFINE T == {k \in Nat : \E y \in Phrase : Size[y] = k /\ k < m /\ k < n /\ f[y] # g[y]}
  <2>2. Size[x] \in T
        BY <1>2, <1>4, <2>1
  <2>3. PICK k \in T : \A j \in T : k <= j
        BY <2>2, LeastNumber
  <2>4. PICK y \in Phrase : Size[y] = k /\ k < m /\ k < n /\ f[y] # g[y]
        BY <2>3
  <2>5. \A z \in Phrase : Size[z] < Size[y] => f[z] = g[z]
        BY <1>2, <2>3, <2>4
  <2>6. Body(f, y) = Body(g, y)
        BY <1>1, <2>5
  <2> QED BY <1>4, <2>4, <2>6
<1> DEFINE At(n) == CHOOSE f : Solves(f, n)
           F == [x \in Phrase |-> At(Size[x] + 1)[x]]
<1>5. \A n \in Nat : Solves(At(n), n)
  <2> HIDE DEF Solves
  <2> QED BY <1>3
<1> HIDE DEF At
<1>6. ASSUME NEW x \in Phrase PROVE F[x] = Body(F, x)
  <2> DEFINE f == At(Size[x] + 1)
  <2>1. Size[x] + 1 \in Nat /\ Size[x] < Size[x] + 1
        BY <1>2
  <2>2. Solves(f, Size[x] + 1)
    <3> HIDE DEF Solves
    <3> QED BY <1>5, <2>1
  <2>3. ASSUME NEW y \in Phrase, Size[y] < Size[x] PROVE F[y] = f[y]
    <3>1. Size[y] + 1 \in Nat /\ Size[y] < Size[y] + 1 /\ Size[y] < Size[x] + 1
          BY <1>2, <2>3
    <3>2. Solves(At(Size[y] + 1), Size[y] + 1)
          BY <1>5, <3>1
    <3> HIDE DEF Solves
    <3>3. At(Size[y] + 1)[y] = f[y]
          BY <1>4, <2>1, <2>2, <3>1, <3>2
    <3> QED BY <3>3
  <2>4. F[x] = f[x]
        OBVIOUS
  <2>5. f[x] = Body(f, x)
        BY <2>1, <2>2
  <2> HIDE DEF F, f
  <2>6. Body(F, x) = Body(f, x)
        BY <1>1, <2>3
  <2> QED BY <2>4, <2>5, <2>6
<1>7. F = [x \in Phrase |-> Body(F, x)]
  <2>1. F = [x \in Phrase |-> F[x]]
        OBVIOUS
  <2> HIDE DEF F
  <2> QED BY <1>6, <2>1
<1>8. \E f : f = [x \in Phrase |-> Body(f, x)]
      BY <1>7
<1>9. Meant = [x \in Phrase |-> Body(Meant, x)]
      BY <1>8 DEF Meant, Body
<1>10. \A e \in Phrase : Meant[e] = Body(Meant, e)
       BY <1>9
<1>11. \A e : ~(IsSymbol(e) /\ Readable(e))
       BY DEF IsSymbol, Readable, IsList
<1> QED BY <1>10, <1>11 DEF Body

-----------------------------------------------------------------------------
(* What Pop leaves of the stack.                                           *)
LEMMA PopLeaves ==
  ASSUME NEW S, NEW seq \in Seq(S), seq # <<>>
  PROVE  /\ Len(seq) \in Nat \ {0}
         /\ seq[Len(seq)] \in S
         /\ Pop(seq) \in Seq(S)
         /\ Len(Pop(seq)) = Len(seq) - 1
         /\ \A j \in 1..(Len(seq) - 1) : Pop(seq)[j] = seq[j]
<1> DEFINE n == Len(seq) - 1
<1>1. n \in Nat /\ Len(seq) = n + 1 /\ \A j \in 1..Len(seq) : seq[j] \in S
      BY EmptySeq, ElementOfSeq
<1> HIDE DEF n
<1>2. \A j \in 1..n : seq[j] \in S
      BY <1>1
<1>3. /\ SubSeq(seq, 1, n) \in Seq(S)
      /\ Len(SubSeq(seq, 1, n)) = n
      /\ \A j \in 1..n : SubSeq(seq, 1, n)[j] = seq[j]
      BY <1>1, <1>2, SubSeqProperties
<1> QED BY <1>1, <1>3 DEF Pop, n

-----------------------------------------------------------------------------
(* The invariant: what every open call has made of its parts is what they  *)
(* mean, each call waits for the part its caller has come to, and what a   *)
(* call returns says of its expression what the grammar says of it.        *)

Meanings == {Meant[e] : e \in Phrase}
Calls    == [expr: Phrase, made: Seq(Meanings)]

Says(result, e, left) ==
  /\ result.st \in {"ok", "malformed", "deep"}
  /\ result.st = "ok" => WellFormed[e] /\ Fits[left][e] /\ result.shape = Meant[e]
  /\ result.st = "malformed" => ~WellFormed[e]
  /\ result.st = "deep" => ~Fits[left][e]

(* left: the levels of the budget the parts of the call are read with.     *)
MadeRight(f, left) ==
  \A k \in 1..Len(f.made) :
    LET part == Steps(f.expr)[k] IN
    part # None /\ WellFormed[part] /\ Fits[left][part] /\ f.made[k] = Meant[part]

WaitsFor(f, e) ==
  /\ IsList(f.expr) /\ Len(f.made) < Len(Steps(f.expr))
  /\ e = Steps(f.expr)[Len(f.made) + 1] /\ e # None

Levels == base \in Bases /\ depth = base + Len(stack) /\ depth <= MaxDepth

CallsOpen ==
  /\ asked \in Phrase \cup {None}
  /\ stack \in Seq(Calls)
  /\ stack # <<>> => asked # None /\ stack[1].expr = asked
  /\ \A i \in 1..Len(stack) : /\ Len(stack[i].made) <= Len(Steps(stack[i].expr))
                              /\ MadeRight(stack[i], MaxDepth - base - i)
  /\ \A i \in 1..Len(stack) - 1 : WaitsFor(stack[i], stack[i + 1].expr)

Answered ==
  /\ ret.st \in {"none", "ok", "malformed", "deep"}
  /\ asked = None => ret = Unread
  /\ ret.st # "none" =>
       IF stack = <<>> THEN Says(ret, asked, MaxDepth - base)
       ELSE \E e : WaitsFor(Top, e) /\ Says(ret, e, MaxDepth - depth)

Reading == Levels /\ CallsOpen /\ Answered

LEMMA TopTyped ==
  ASSUME CallsOpen, Levels, stack # <<>>
  PROVE  /\ Len(stack) \in Nat \ {0} /\ Top \in Calls /\ Top.expr \in Phrase
         /\ Len(Top.made) \in Nat /\ Len(Top.made) <= Len(Steps(Top.expr))
         /\ MadeRight(Top, MaxDepth - depth)
         /\ MaxDepth - depth \in Nat /\ MaxDepth - depth + 1 \in Nat
         /\ depth \in Nat /\ depth > 0
<1>1. Len(stack) \in Nat \ {0} /\ Top \in Calls
      BY PopLeaves DEF CallsOpen, Top
<1>2. Top.expr \in Phrase /\ Top.made \in Seq(Meanings)
      BY <1>1 DEF Calls
<1>3. base \in 0..MaxDepth /\ MaxDepth \in Nat /\ depth = base + Len(stack) /\ depth <= MaxDepth
      BY ParseAssumption DEF Levels
<1>4. MaxDepth - base - Len(stack) = MaxDepth - depth
      BY <1>1, <1>3
<1>5. Len(Top.made) <= Len(Steps(Top.expr)) /\ MadeRight(Top, MaxDepth - depth)
      BY <1>1, <1>4 DEF CallsOpen, Top
<1> QED BY <1>1, <1>2, <1>3, <1>5

(* A call that says of its expression what is true of it may return.       *)
LEMMA ReturnKeeps ==
  ASSUME Reading, stack # <<>>, NEW result, Return(result),
         Says(result, Top.expr, MaxDepth - depth + 1)
  PROVE  Reading'
<1> DEFINE n == Len(stack)
<1>1. /\ n \in Nat \ {0} /\ depth \in Nat /\ depth > 0 /\ MaxDepth \in Nat /\ base \in Nat
      BY TopTyped, ParseAssumption DEF Reading, Levels
<1>2. /\ stack' \in Seq(Calls) /\ Len(stack') = n - 1
      /\ \A j \in 1..(n - 1) : stack'[j] = stack[j]
  <2>1. stack' = Pop(stack) /\ stack \in Seq(Calls)
        BY DEF Return, Reading, CallsOpen
  <2> QED BY <2>1, PopLeaves
<1>3. /\ ret' = result /\ depth' = depth - 1 /\ base' = base /\ asked' = asked
      BY <1>1 DEF Return
<1>4. depth = base + n /\ depth <= MaxDepth /\ base \in Bases
      BY DEF Reading, Levels
<1>5. Levels'
      BY <1>1, <1>2, <1>3, <1>4 DEF Levels
<1>6. CallsOpen'
  <2>1. asked' \in Phrase \cup {None} /\ asked' # None
        BY <1>3 DEF Reading, CallsOpen
  <2>2. stack' # <<>> => stack'[1].expr = asked'
    <3>1. stack' # <<>> => n - 1 >= 1
          BY <1>1, <1>2, EmptySeq
    <3> QED BY <1>1, <1>2, <1>3, <3>1 DEF Reading, CallsOpen
  <2>3. \A i \in 1..Len(stack') : /\ Len(stack'[i].made) <= Len(Steps(stack'[i].expr))
                                  /\ MadeRight(stack'[i], MaxDepth - base' - i)
        BY <1>1, <1>2, <1>3 DEF Reading, CallsOpen
  <2>4. ASSUME NEW i \in 1..Len(stack') - 1
        PROVE  WaitsFor(stack'[i], stack'[i + 1].expr)
    <3>1. i \in 1..(n - 1) /\ i + 1 \in 1..(n - 1)
          BY <1>1, <1>2
    <3>2. stack'[i] = stack[i] /\ stack'[i + 1] = stack[i + 1]
          BY <1>2, <3>1
    <3>3. WaitsFor(stack[i], stack[i + 1].expr)
          BY <3>1 DEF Reading, CallsOpen
    <3> QED BY <3>2, <3>3
  <2> QED BY <1>2, <2>1, <2>2, <2>3, <2>4 DEF CallsOpen, MadeRight, WaitsFor
<1>7. Answered'
  <2>1. result.st \in {"ok", "malformed", "deep"}
        BY DEF Says
  <2>2. asked' # None
        BY <1>3 DEF Reading, CallsOpen
  <2>3. CASE n = 1
    <3>1. stack' = <<>>
          BY <1>2, <2>3, EmptySeq
    <3>2. Top.expr = asked /\ MaxDepth - depth + 1 = MaxDepth - base
          BY <1>1, <1>4, <2>3 DEF Reading, CallsOpen, Top
    <3>3. Says(ret', asked', MaxDepth - base')
          BY <1>3, <3>2
    <3> QED BY <1>3, <2>1, <2>2, <3>1, <3>3 DEF Answered, Says
  <2>4. CASE n # 1
    <3>1. n - 1 \in 1..(n - 1) /\ n - 1 + 1 = n
      <4> HIDE DEF n
      <4> QED BY <1>1, <2>4
    <3>2. WaitsFor(stack[n - 1], stack[n].expr)
          BY <3>1 DEF Reading, CallsOpen
    <3>3. stack' # <<>> /\ Top' = stack[n - 1]
          BY <1>1, <1>2, <2>4, <3>1 DEF Top
    <3>4. WaitsFor(Top', Top.expr)
          BY <3>2, <3>3 DEF Top
    <3>5. Says(ret', Top.expr, MaxDepth - depth')
          BY <1>1, <1>3
    <3>6. WaitsFor(Top, Top.expr)' <=> WaitsFor(Top', Top'.expr)
          BY DEF WaitsFor
    <3>7. \E e : WaitsFor(Top', e) /\ Says(ret', e, MaxDepth - depth')
          BY <3>4, <3>5
    <3> QED BY <1>3, <2>1, <2>2, <3>3, <3>7 DEF Answered, Says, WaitsFor
  <2> QED BY <2>3, <2>4
<1> QED BY <1>5, <1>6, <1>7 DEF Reading

(* The levels and the calls a call is pushed on stay as they are; what it  *)
(* answers at once with the budget spent is true of its expression.        *)
LEMMA EnterKeeps ==
  ASSUME Reading, NEW e \in Phrase, Enter(e), base' = base, ret.st = "none",
         asked' \in Phrase, stack = <<>> => e = asked',
         stack # <<>> => asked' = asked /\ WaitsFor(Top, e)
  PROVE  Reading'
<1> DEFINE n == Len(stack)
<1>1. n \in Nat /\ depth \in Nat /\ base \in Nat /\ MaxDepth \in Nat
  <2>1. n \in Nat
        BY LenProperties DEF Reading, CallsOpen
  <2> QED BY <2>1, ParseAssumption DEF Reading, Levels
<1>2. depth = base + n /\ depth <= MaxDepth /\ base \in Bases /\ stack \in Seq(Calls)
      BY DEF Reading, Levels, CallsOpen
<1>3. CASE depth >= MaxDepth
  <2>1. ret' = TooDeep /\ stack' = stack /\ depth' = depth
        BY <1>3 DEF Enter
  <2>2. MaxDepth - depth = 0 /\ ~Fits[0][e]
        BY <1>1, <1>2, <1>3, FitsEquation
  <2>3. Says(ret', e, MaxDepth - depth')
        BY <2>1, <2>2 DEF Says, TooDeep
  <2>4. Levels'
        BY <1>2, <2>1 DEF Levels
  <2>5. CallsOpen'
        BY <2>1 DEF Reading, CallsOpen, MadeRight, WaitsFor
  <2>6. asked' # None
        BY ParseAssumption
  <2>7. Answered'
    <3>1. CASE stack = <<>>
      <4>1. n = 0
            BY <3>1, EmptySeq
      <4>2. Says(ret', asked', MaxDepth - base')
            BY <1>1, <1>2, <2>1, <2>3, <3>1, <4>1
      <4> QED BY <2>1, <2>6, <3>1, <4>2 DEF Answered, Says, TooDeep
    <3>2. CASE stack # <<>>
      <4>1. Top' = Top
            BY <2>1 DEF Top
      <4>2. \E x : WaitsFor(Top', x) /\ Says(ret', x, MaxDepth - depth')
            BY <2>3, <3>2, <4>1
      <4> QED BY <2>1, <2>6, <3>2, <4>2 DEF Answered, Says, TooDeep, WaitsFor
    <3> QED BY <3>1, <3>2
  <2> QED BY <2>4, <2>5, <2>7 DEF Reading
<1>4. CASE ~(depth >= MaxDepth)
  <2> DEFINE new == [expr |-> e, made |-> <<>>]
  <2>1. stack' = Append(stack, new) /\ depth' = depth + 1 /\ ret' = ret
        BY <1>4 DEF Enter
  <2>2. new \in Calls /\ Len(new.made) = 0 /\ new.expr = e
        BY DEF Calls
  <2> HIDE DEF new
  <2>3. /\ stack' \in Seq(Calls) /\ Len(stack') = n + 1 /\ stack'[n + 1] = new
        /\ \A i \in 1..n : stack'[i] = stack[i]
        BY <1>2, <2>1, <2>2, AppendProperties
  <2>4. Levels'
        BY <1>1, <1>2, <1>4, <2>1, <2>3 DEF Levels
  <2>5. stack'[1].expr = asked'
    <3>1. CASE stack = <<>>
      <4>1. n = 0
            BY <3>1, EmptySeq
      <4> QED BY <2>2, <2>3, <3>1, <4>1
    <3>2. CASE stack # <<>>
      <4>1. 1 \in 1..n
            BY <1>1, <1>2, <3>2, EmptySeq
      <4> QED BY <2>3, <3>2, <4>1 DEF Reading, CallsOpen
    <3> QED BY <3>1, <3>2
  <2>6. ASSUME NEW i \in 1..Len(stack')
        PROVE  /\ Len(stack'[i].made) <= Len(Steps(stack'[i].expr))
               /\ MadeRight(stack'[i], MaxDepth - base' - i)
    <3>1. CASE i = n + 1
      <4>1. Len(Steps(e)) \in Nat
            BY StepsRead
      <4>2. 1..0 = {}
            OBVIOUS
      <4> QED BY <2>2, <2>3, <3>1, <4>1, <4>2 DEF MadeRight
    <3>2. CASE i # n + 1
      <4>1. i \in 1..n
            BY <1>1, <2>3, <3>2
      <4> QED BY <2>3, <4>1 DEF Reading, CallsOpen
    <3> QED BY <3>1, <3>2
  <2>7. ASSUME NEW i \in 1..Len(stack') - 1
        PROVE  WaitsFor(stack'[i], stack'[i + 1].expr)
    <3>1. i \in 1..n
          BY <1>1, <2>3
    <3>2. CASE i = n
      <4>1. stack # <<>>
            BY <3>1, EmptySeq, <3>2
      <4>2. stack'[i] = Top /\ stack'[i + 1] = new
            BY <2>3, <3>1, <3>2 DEF Top
      <4> QED BY <2>2, <4>1, <4>2
    <3>3. CASE i # n
      <4>1. i \in 1..(n - 1) /\ i + 1 \in 1..n
            BY <1>1, <3>1, <3>3
      <4>2. stack'[i] = stack[i] /\ stack'[i + 1] = stack[i + 1]
            BY <2>3, <3>1, <4>1
      <4>3. WaitsFor(stack[i], stack[i + 1].expr)
            BY <4>1 DEF Reading, CallsOpen
      <4> QED BY <4>2, <4>3
    <3> QED BY <3>2, <3>3
  <2>8. asked' # None
        BY ParseAssumption
  <2>9. CallsOpen'
        BY <2>3, <2>5, <2>6, <2>7, <2>8 DEF CallsOpen, MadeRight, WaitsFor
  <2>10. Answered'
        BY <2>1, <2>8 DEF Answered, Unread
  <2> QED BY <2>4, <2>9, <2>10 DEF Reading
<1> QED BY <1>3, <1>4

(* The part that was read joins what the call made.                        *)
LEMMA KeepPartKeeps ==
  ASSUME Reading, KeepPart
  PROVE  Reading'
<1> DEFINE n == Len(stack)
           new == [Top EXCEPT !.made = Append(@, ret.shape)]
<1>1. PICK e : WaitsFor(Top, e) /\ Says(ret, e, MaxDepth - depth)
      BY DEF KeepPart, Returning, Reading, Answered
<1>2. /\ stack # <<>> /\ n \in Nat \ {0} /\ stack \in Seq(Calls) /\ Top \in Calls
      /\ Top.expr \in Phrase /\ Top.made \in Seq(Meanings) /\ Len(Top.made) \in Nat
      /\ MadeRight(Top, MaxDepth - depth)
  <2>1. stack # <<>>
        BY DEF KeepPart, Returning
  <2> QED BY <2>1, TopTyped DEF Reading, CallsOpen, Calls
<1>3. /\ stack' = [stack EXCEPT ![n].made = Append(@, ret.shape)] /\ ret' = Unread
      /\ depth' = depth /\ base' = base /\ asked' = asked /\ ret.st = "ok"
      BY DEF KeepPart
<1>4. e \in Phrase /\ WellFormed[e] /\ Fits[MaxDepth - depth][e] /\ ret.shape = Meant[e]
  <2>1. e = Steps(Top.expr)[Len(Top.made) + 1] /\ e # None /\ IsList(Top.expr)
        /\ Len(Top.made) + 1 \in 1..Len(Steps(Top.expr))
    <3>1. Len(Steps(Top.expr)) \in Nat
          BY <1>2, StepsRead
    <3> QED BY <1>1, <1>2, <3>1 DEF WaitsFor
  <2>2. e \in Phrase
    <3>1. Steps(Top.expr) \in Seq(Phrase \cup {None})
          BY <1>2, StepsRead
    <3>2. e \in Phrase \cup {None}
          BY <2>1, <3>1, ElementOfSeq
    <3> QED BY <2>1, <3>2
  <2> QED BY <1>1, <1>3, <2>2 DEF Says
<1>5. /\ new \in Calls /\ new.expr = Top.expr /\ Len(new.made) = Len(Top.made) + 1
      /\ new.made[Len(Top.made) + 1] = Meant[e]
      /\ \A k \in 1..Len(Top.made) : new.made[k] = Top.made[k]
  <2>1. new = [expr |-> Top.expr, made |-> Append(Top.made, ret.shape)]
    <3>1. /\ Top = [expr |-> Top.expr, made |-> Top.made]
          /\ new = [Top EXCEPT !.made = Append(Top.made, ret.shape)]
          BY <1>2 DEF Calls
    <3> HIDE DEF new
    <3> QED BY <3>1
  <2>2. ret.shape \in Meanings
        BY <1>4 DEF Meanings
  <2>3. Append(Top.made, ret.shape) \in Seq(Meanings)
        BY <1>2, <2>2, AppendProperties
  <2>4. /\ Len(Append(Top.made, ret.shape)) = Len(Top.made) + 1
        /\ Append(Top.made, ret.shape)[Len(Top.made) + 1] = Meant[e]
        /\ \A k \in 1..Len(Top.made) : Append(Top.made, ret.shape)[k] = Top.made[k]
        BY <1>2, <1>4, <2>2, AppendProperties
  <2> QED BY <1>2, <2>1, <2>3, <2>4 DEF Calls
<1>6. /\ stack' \in Seq(Calls) /\ Len(stack') = n /\ stack'[n] = new
      /\ \A i \in 1..(n - 1) : stack'[i] = stack[i]
  <2>1. stack' = [stack EXCEPT ![n] = new]
        BY <1>2, <1>3 DEF Top
  <2> HIDE DEF new
  <2>2. n \in 1..n
        BY <1>2
  <2> QED BY <1>2, <1>5, <2>1, <2>2, ExceptSeq
<1> HIDE DEF new
<1>7. Levels'
      BY <1>3, <1>6 DEF Reading, Levels
<1>8. MadeRight(new, MaxDepth - depth) /\ Len(new.made) <= Len(Steps(new.expr))
  <2>1. Len(Steps(Top.expr)) \in Nat /\ Len(Top.made) < Len(Steps(Top.expr))
        BY <1>1, <1>2, StepsRead DEF WaitsFor
  <2>2. Steps(Top.expr)[Len(Top.made) + 1] = e /\ e # None
        BY <1>1 DEF WaitsFor
  <2>3. ASSUME NEW k \in 1..Len(new.made)
        PROVE  LET part == Steps(new.expr)[k] IN
               part # None /\ WellFormed[part] /\ Fits[MaxDepth - depth][part]
               /\ new.made[k] = Meant[part]
    <3>1. CASE k = Len(Top.made) + 1
          BY <1>4, <1>5, <2>2, <3>1
    <3>2. CASE k # Len(Top.made) + 1
      <4>1. k \in 1..Len(Top.made)
            BY <1>2, <1>5, <3>2
      <4> QED BY <1>2, <1>5, <4>1 DEF MadeRight
    <3> QED BY <3>1, <3>2
  <2> QED BY <1>2, <1>5, <2>1, <2>3 DEF MadeRight
<1>9. CallsOpen'
  <2>1. asked' \in Phrase \cup {None} /\ asked' # None
        BY <1>2, <1>3 DEF Reading, CallsOpen
  <2>2. stack'[1].expr = asked'
    <3>1. stack[1].expr = asked
          BY <1>2 DEF Reading, CallsOpen
    <3>2. CASE n = 1
          BY <1>3, <1>5, <1>6, <3>1, <3>2 DEF Top
    <3>3. CASE n # 1
      <4>1. 1 \in 1..(n - 1)
        <5> HIDE DEF n
        <5> QED BY <1>2, <3>3
      <4> QED BY <1>3, <1>6, <3>1, <4>1
    <3> QED BY <3>2, <3>3
  <2>3. ASSUME NEW i \in 1..Len(stack')
        PROVE  /\ Len(stack'[i].made) <= Len(Steps(stack'[i].expr))
               /\ MadeRight(stack'[i], MaxDepth - base' - i)
    <3>1. CASE i = n
      <4>1. MaxDepth - base' - n = MaxDepth - depth
        <5>1. base \in Nat /\ depth = base + n /\ MaxDepth \in Nat
              BY ParseAssumption DEF Reading, Levels
        <5> QED BY <1>2, <1>3, <5>1
      <4> QED BY <1>6, <1>8, <3>1, <4>1
    <3>2. CASE i # n
      <4>1. i \in 1..(n - 1) /\ i \in 1..n
            BY <1>2, <1>6, <3>2
      <4> QED BY <1>3, <1>6, <4>1 DEF Reading, CallsOpen
    <3> QED BY <3>1, <3>2
  <2>4. ASSUME NEW i \in 1..Len(stack') - 1
        PROVE  WaitsFor(stack'[i], stack'[i + 1].expr)
    <3>1. i \in 1..(n - 1) /\ i + 1 \in 1..n
          BY <1>2, <1>6
    <3>2. stack'[i] = stack[i] /\ stack'[i + 1].expr = stack[i + 1].expr
      <4>1. CASE i + 1 = n
            BY <1>5, <1>6, <3>1, <4>1 DEF Top
      <4>2. CASE i + 1 # n
        <5>1. i + 1 \in 1..(n - 1)
              BY <1>2, <3>1, <4>2
        <5> QED BY <1>6, <3>1, <5>1
      <4> QED BY <4>1, <4>2
    <3>3. WaitsFor(stack[i], stack[i + 1].expr)
          BY <3>1 DEF Reading, CallsOpen
    <3> QED BY <3>2, <3>3
  <2> QED BY <1>6, <2>1, <2>2, <2>3, <2>4 DEF CallsOpen, MadeRight, WaitsFor
<1>10. Answered'
  <2>1. asked # None
        BY <1>2 DEF Reading, CallsOpen
  <2> QED BY <1>3, <2>1 DEF Answered, Unread
<1> QED BY <1>7, <1>9, <1>10 DEF Reading

-----------------------------------------------------------------------------
(* Each step of the parse.                                                 *)

(* The budget of a part is one less than that of the call that reads it.   *)
LEMMA PartsFit ==
  ASSUME NEW e \in Phrase, NEW left \in Nat
  PROVE  /\ IsSymbol(e) => WellFormed[e] /\ Fits[left + 1][e] /\ Meant[e] = Atom(e)
         /\ ~IsSymbol(e) /\ ~Readable(e) => ~WellFormed[e]
         /\ \A part \in Parts(e) \ {None} : IsList(e) /\ ~Fits[left][part] => ~Fits[left + 1][e]
         /\ \A part \in Parts(e) : ~WellFormed[part] /\ ~IsSymbol(e) => ~WellFormed[e]
         /\ Readable(e) /\ (\A part \in Parts(e) : WellFormed[part] /\ Fits[left][part]) =>
              WellFormed[e] /\ Fits[left + 1][e]
<1>1. left + 1 \in Nat /\ left + 1 - 1 = left /\ left + 1 > 0
      OBVIOUS
<1>2. Fits[left + 1][e] <=> (IsList(e) => \A part \in Parts(e) \ {None} : Fits[left][part])
      BY <1>1, FitsEquation
<1>3. WellFormed[e] <=> IsSymbol(e) \/ (Readable(e) /\ \A part \in Parts(e) : WellFormed[part])
      BY WellFormedEquation
<1>4. IsSymbol(e) => ~IsList(e) /\ Meant[e] = Atom(e)
      BY MeantEquation DEF IsSymbol, IsList
<1> QED BY <1>2, <1>3, <1>4, Zenon DEF Readable

LEMMA AskKeeps ==
  ASSUME Reading, NEW e \in Phrase, Ask(e)
  PROVE  Reading'
<1>1. asked = None /\ asked' = e /\ Enter(e) /\ base' = base
      BY DEF Ask
<1>2. stack = <<>> /\ ret.st = "none"
      BY <1>1 DEF Reading, CallsOpen, Answered, Unread
<1> QED BY <1>1, <1>2, EnterKeeps

LEMMA ReadPartKeeps ==
  ASSUME Reading, ReadPart
  PROVE  Reading'
<1> DEFINE e == Steps(Top.expr)[Turn]
<1>1. /\ Calling /\ IsList(Top.expr) /\ Turn <= Last /\ e # None /\ Enter(e)
      /\ base' = base /\ asked' = asked
      BY DEF ReadPart, InList
<1>2. stack # <<>> /\ ret.st = "none"
      BY <1>1 DEF Calling
<1>3. Top.expr \in Phrase /\ Len(Top.made) \in Nat
      BY <1>2, TopTyped DEF Reading
<1>4. Steps(Top.expr) \in Seq(Phrase \cup {None}) /\ Len(Steps(Top.expr)) \in Nat
      BY <1>3, StepsRead
<1>5. Turn = Len(Top.made) + 1 /\ Last = Len(Steps(Top.expr)) /\ Turn \in 1..Last
      BY <1>1, <1>3, <1>4 DEF Turn, Last
<1>6. e \in Phrase
  <2>1. e \in Phrase \cup {None}
        BY <1>4, <1>5, ElementOfSeq
  <2> QED BY <1>1, <2>1
<1>7. WaitsFor(Top, e)
      BY <1>1, <1>3, <1>4, <1>5 DEF WaitsFor
<1>8. asked' \in Phrase
      BY <1>1, <1>2 DEF Reading, CallsOpen
<1> HIDE DEF e
<1> QED BY <1>1, <1>2, <1>6, <1>7, <1>8, EnterKeeps

LEMMA ReadSymbolKeeps ==
  ASSUME Reading, ReadSymbol
  PROVE  Reading'
<1>1. stack # <<>> /\ IsSymbol(Top.expr) /\ Return(Shaped(Atom(Top.expr)))
      BY DEF ReadSymbol, Calling
<1>2. Top.expr \in Phrase /\ MaxDepth - depth \in Nat
      BY <1>1, TopTyped DEF Reading
<1>3. Says(Shaped(Atom(Top.expr)), Top.expr, MaxDepth - depth + 1)
      BY <1>1, <1>2, PartsFit DEF Says, Shaped
<1> QED BY <1>1, <1>3, ReturnKeeps

LEMMA ReadOtherKeeps ==
  ASSUME Reading, ReadOther
  PROVE  Reading'
<1>1. stack # <<>> /\ Return(Malformed) /\ ~IsSymbol(Top.expr) /\ ~Readable(Top.expr)
      BY DEF ReadOther, Calling, IsSymbol, Readable, IsList
<1>2. Top.expr \in Phrase /\ MaxDepth - depth \in Nat
      BY <1>1, TopTyped DEF Reading
<1>3. Says(Malformed, Top.expr, MaxDepth - depth + 1)
      BY <1>1, <1>2, PartsFit DEF Says, Malformed
<1> QED BY <1>1, <1>3, ReturnKeeps

LEMMA FindMalformedKeeps ==
  ASSUME Reading, FindMalformed
  PROVE  Reading'
<1>1. /\ stack # <<>> /\ Return(Malformed) /\ IsList(Top.expr)
      /\ Turn <= Last /\ Steps(Top.expr)[Turn] = None
      BY DEF FindMalformed, InList, Calling
<1>2. Top.expr \in Phrase /\ MaxDepth - depth \in Nat /\ Len(Top.made) \in Nat
      BY <1>1, TopTyped DEF Reading
<1>3. Turn \in DOMAIN Steps(Top.expr)
  <2>1. DOMAIN Steps(Top.expr) = 1..Len(Steps(Top.expr)) /\ Len(Steps(Top.expr)) \in Nat
        BY <1>2, StepsRead
  <2> QED BY <1>1, <1>2, <2>1 DEF Turn, Last
<1>4. ~IsSymbol(Top.expr) /\ ~Readable(Top.expr)
      BY <1>1, <1>3 DEF IsSymbol, IsList, Readable, Parts
<1>5. Says(Malformed, Top.expr, MaxDepth - depth + 1)
      BY <1>1, <1>2, <1>4, PartsFit DEF Says, Malformed
<1> QED BY <1>1, <1>5, ReturnKeeps

LEMMA BuildShapeKeeps ==
  ASSUME Reading, BuildShape
  PROVE  Reading'
<1> DEFINE e == Top.expr
<1>1. stack # <<>> /\ Return(Shaped(Built(e, Top.made))) /\ IsList(Top.expr) /\ Turn > Last
      BY DEF BuildShape, InList, Calling
<1>2. /\ e \in Phrase /\ MaxDepth - depth \in Nat /\ Len(Top.made) \in Nat
      /\ Len(Top.made) <= Len(Steps(e)) /\ MadeRight(Top, MaxDepth - depth) /\ Top \in Calls
      BY <1>1, TopTyped DEF Reading
<1>3. /\ Steps(e) \in Seq(Phrase \cup {None}) /\ Len(Steps(e)) \in Nat
      /\ DOMAIN Steps(e) = 1..Len(Steps(e))
      BY <1>2, StepsRead
<1>4. Len(Top.made) = Len(Steps(e))
      BY <1>1, <1>2, <1>3 DEF Turn, Last
<1>5. \A i \in DOMAIN Steps(e) :
        /\ Steps(e)[i] # None /\ WellFormed[Steps(e)[i]]
        /\ Fits[MaxDepth - depth][Steps(e)[i]] /\ Top.made[i] = Meant[Steps(e)[i]]
      BY <1>2, <1>3, <1>4 DEF MadeRight
<1>6. Top.made = [i \in DOMAIN Steps(e) |-> Meant[Steps(e)[i]]]
  <2>1. Top.made \in Seq(Meanings)
        BY <1>2 DEF Calls
  <2>2. Top.made \in [1..Len(Top.made) -> Meanings]
        BY <2>1, LenProperties
  <2> QED BY <1>3, <1>4, <1>5, <2>2
<1> HIDE DEF e
<1>7. Readable(e) /\ \A part \in Parts(e) : WellFormed[part] /\ Fits[MaxDepth - depth][part]
  <2>1. \A part \in Parts(e) :
          part # None /\ WellFormed[part] /\ Fits[MaxDepth - depth][part]
        BY <1>5 DEF Parts
  <2> QED BY <1>1, <2>1, Zenon DEF Readable, e
<1>8. Built(e, Top.made) = Meant[e]
      BY <1>2, <1>6, <1>7, MeantEquation
<1>9. Says(Shaped(Built(e, Top.made)), e, MaxDepth - depth + 1)
      BY <1>2, <1>7, <1>8, PartsFit DEF Says, Shaped
<1> QED BY <1>1, <1>9, ReturnKeeps DEF e

LEMMA PassErrorKeeps ==
  ASSUME Reading, PassError
  PROVE  Reading'
<1>1. stack # <<>> /\ ret.st # "none" /\ ret.st # "ok" /\ Return(ret)
      BY DEF PassError, Returning
<1>2. PICK part : WaitsFor(Top, part) /\ Says(ret, part, MaxDepth - depth)
      BY <1>1 DEF Reading, Answered
<1>3. Top.expr \in Phrase /\ MaxDepth - depth \in Nat /\ Len(Top.made) \in Nat
      BY <1>1, TopTyped DEF Reading
<1>4. IsList(Top.expr) /\ ~IsSymbol(Top.expr) /\ part \in Parts(Top.expr) \ {None}
  <2>1. DOMAIN Steps(Top.expr) = 1..Len(Steps(Top.expr)) /\ Len(Steps(Top.expr)) \in Nat
        BY <1>3, StepsRead
  <2>2. Len(Top.made) + 1 \in DOMAIN Steps(Top.expr)
        BY <1>2, <1>3, <2>1 DEF WaitsFor
  <2> QED BY <1>2, <2>2 DEF WaitsFor, Parts, IsList, IsSymbol
<1>5. /\ ret.st = "malformed" => ~WellFormed[Top.expr]
      /\ ret.st = "deep" => ~Fits[MaxDepth - depth + 1][Top.expr]
      BY <1>2, <1>3, <1>4, PartsFit DEF Says
<1>6. Says(ret, Top.expr, MaxDepth - depth + 1)
      BY <1>1, <1>2, <1>5 DEF Says
<1> QED BY <1>1, <1>6, ReturnKeeps

LEMMA ForgetKeeps ==
  ASSUME Reading, Forget
  PROVE  Reading'
<1>1. stack = <<>> /\ asked' = None /\ ret' = Unread /\ UNCHANGED <<stack, depth, base>>
      BY DEF Forget, Read
<1>2. \A i \in 1..Len(stack) - 1 : FALSE
  <2>1. Len(stack) = 0
        BY <1>1, EmptySeq
  <2> QED BY <2>1
<1>3. \A i \in 1..Len(stack) : FALSE
  <2>1. Len(stack) = 0
        BY <1>1, EmptySeq
  <2> QED BY <2>1
<1>4. Levels'
      BY <1>1 DEF Reading, Levels
<1>5. CallsOpen'
      BY <1>1, <1>2, <1>3 DEF Reading, CallsOpen
<1>6. Answered'
      BY <1>1 DEF Answered, Unread
<1> QED BY <1>4, <1>5, <1>6 DEF Reading

LEMMA ReadingStarts ==
  ASSUME ParseInit
  PROVE  Reading
<1>1. Len(stack) = 0 /\ stack \in Seq(Calls) /\ stack = <<>>
      BY EmptySeq DEF ParseInit
<1>2. Levels
  <2>1. base \in Nat /\ base <= MaxDepth
        BY ParseAssumption DEF ParseInit
  <2> QED BY <1>1, <2>1 DEF ParseInit, Levels
<1>3. CallsOpen
  <2>1. 1..Len(stack) = {} /\ 1..Len(stack) - 1 = {}
        BY <1>1
  <2> QED BY <1>1, <2>1 DEF ParseInit, CallsOpen
<1>4. Answered
      BY DEF ParseInit, Answered, Unread
<1> QED BY <1>2, <1>3, <1>4 DEF Reading

LEMMA ReadingKept ==
  ASSUME Reading, [ParseNext]_parsing
  PROVE  Reading'
<1>1. CASE \E e \in Phrase : Ask(e)
      BY <1>1, AskKeeps
<1>2. CASE ParseStep
      BY <1>2, ReadSymbolKeeps, ReadOtherKeeps, ReadPartKeeps, FindMalformedKeeps,
         BuildShapeKeeps, KeepPartKeeps, PassErrorKeeps DEF ParseStep
<1>3. CASE Forget
      BY <1>3, ForgetKeeps
<1>4. CASE UNCHANGED parsing
      BY <1>4 DEF parsing, Reading, Levels, CallsOpen, Answered, MadeRight, WaitsFor, Top
<1> QED BY <1>1, <1>2, <1>3, <1>4 DEF ParseNext

LEMMA ReadingHolds == ParseSpec => []Reading
BY ReadingStarts, ReadingKept, PTL DEF ParseSpec

-----------------------------------------------------------------------------
(* Each open call reads the part its caller has come to, and the levels in *)
(* use are the caller's and one for every open call: no way for a parse to *)
(* end loses a level of SHAPE_DEPTH.                                       *)
THEOREM ParseTypeCorrect == ParseSpec => []ParseTypeOK
<1>1. Reading => ParseTypeOK
  <2> SUFFICES ASSUME Reading PROVE ParseTypeOK
      OBVIOUS
  <2>1. \A i \in 1..Len(stack) - 1 :
          stack[i + 1].expr = Steps(stack[i].expr)[Len(stack[i].made) + 1]
        BY DEF Reading, CallsOpen, WaitsFor
  <2> QED BY <2>1 DEF Reading, Levels, CallsOpen, Answered, ParseTypeOK
<1> QED BY <1>1, ReadingHolds, PTL

(* parse_shape_expr reads every expression as the grammar says, at every   *)
(* share of the budget its caller holds and whatever was parsed, or failed *)
(* to parse, before: it is read, as the shape it means, when all its parts *)
(* are well formed and it nests no deeper than the levels left, and each   *)
(* of the two errors is reported only when it is there.                    *)
THEOREM ParserReadsGrammar == ParseSpec => []ReadsGrammar
<1>1. Reading => ReadsGrammar
  <2> SUFFICES ASSUME Reading, Read PROVE ReadsGrammar
      BY DEF ReadsGrammar
  <2>1. Says(ret, asked, MaxDepth - base)
        BY DEF Read, Reading, Answered
  <2> QED BY <2>1 DEF ReadsGrammar, Says
<1> QED BY <1>1, ReadingHolds, PTL

-----------------------------------------------------------------------------
(* The levels of shapes and data.                                          *)

Empty == [shapes |-> {}, data |-> {}]

(* What Nested says of level n, of the levels f below.                     *)
NestedBy(f, n) ==
  LET in == f[n - 1] IN
  IF n <= 0 THEN [shapes |-> {}, data |-> {}]
  ELSE [shapes |->
          {t \in ShapesOf(in) :
             /\ n > 1 /\ WellMade(t)
             /\ \A i \in DOMAIN t.kids : t.kids[i] \in f[n - Sunk(t.kind, i)].shapes
             /\ t.kind = "table" => t.rest \in Seq(f[n - 2].shapes)
             /\ t.kind = "exact" => t.name \in in.data
             /\ t.marks \in Seq(f[n - 2].data \cup {Bad})},
        data |-> DataOf(in)]

LEMMA SunkBelow == ASSUME NEW kind, NEW i PROVE Sunk(kind, i) \in 1..3
BY DEF Sunk

LEMMA NestedEquation ==
  /\ \A n \in Int : n <= 0 => Nested[n] = Empty
  /\ \A n \in Int : n > 0 => Nested[n] = NestedBy(Nested, n)
<1> DEFINE Height == [n \in Int |-> IF n <= 0 THEN 0 ELSE n]
           Solves(f, n) == \A x \in Int : Height[x] < n => f[x] = NestedBy(f, x)
           Stage(f) == [x \in Int |-> NestedBy(f, x)]
<1>1. ASSUME NEW f, NEW g, NEW x \in Int, \A y \in Int : Height[y] < Height[x] => f[y] = g[y]
      PROVE  NestedBy(f, x) = NestedBy(g, x)
  <2>1. CASE x <= 0
        BY <2>1 DEF NestedBy
  <2>2. CASE x > 0
    <3>1. f[x - 1] = g[x - 1] /\ f[x - 2] = g[x - 2] /\ f[x - 3] = g[x - 3]
      <4>1. \A k \in 1..3 : x - k \in Int /\ Height[x - k] < Height[x]
            BY <2>2
      <4>2. \A k \in 1..3 : f[x - k] = g[x - k]
        <5> HIDE DEF Height
        <5> QED BY <1>1, <4>1
      <4> QED BY <4>2
    <3>2. \A kind, i : f[x - Sunk(kind, i)] = g[x - Sunk(kind, i)]
      <4>1. SUFFICES ASSUME NEW kind, NEW i PROVE f[x - Sunk(kind, i)] = g[x - Sunk(kind, i)]
            OBVIOUS
      <4>2. Sunk(kind, i) = 1 \/ Sunk(kind, i) = 2 \/ Sunk(kind, i) = 3
            BY SunkBelow
      <4> QED BY <3>1, <4>2
    <3> HIDE DEF Height
    <3>3. NestedBy(f, x) = NestedBy(g, x)
      <4>1. ~(x <= 0)
            BY <2>2
      <4> DEFINE Sits(h, t) ==
                   /\ x > 1 /\ WellMade(t)
                   /\ \A i \in DOMAIN t.kids : t.kids[i] \in h[x - Sunk(t.kind, i)].shapes
                   /\ t.kind = "table" => t.rest \in Seq(h[x - 2].shapes)
                   /\ t.kind = "exact" => t.name \in h[x - 1].data
                   /\ t.marks \in Seq(h[x - 2].data \cup {Bad})
      <4>2. \A t : Sits(f, t) <=> Sits(g, t)
            BY <3>1, <3>2, Zenon
      <4>3. \A h : NestedBy(h, x) =
                     [shapes |-> {t \in ShapesOf(h[x - 1]) : Sits(h, t)}, data |-> DataOf(h[x - 1])]
            BY <4>1, Zenon DEF NestedBy
      <4> HIDE DEF Sits
      <4>4. {t \in ShapesOf(f[x - 1]) : Sits(f, t)} = {t \in ShapesOf(g[x - 1]) : Sits(g, t)}
            BY <3>1, <4>2
      <4> QED BY <3>1, <4>3, <4>4, Zenon
    <3> QED BY <3>3
  <2> QED BY <2>1, <2>2
<1>2. \A n \in Int : Height[n] \in Nat
      OBVIOUS
<1> HIDE DEF Height
<1>3. \A n \in Nat : \E f : Solves(f, n)
  <2> DEFINE Lost == {n \in Nat : ~\E f : Solves(f, n)}
  <2>1. SUFFICES ASSUME NEW n \in Lost, \A m \in Lost : n <= m
                 PROVE  FALSE
    <3> HIDE DEF Solves
    <3> QED BY LeastNumber
  <2>2. CASE n = 0
    <3>1. \A f : Solves(f, 0)
          BY <1>2
    <3> HIDE DEF Solves
    <3> QED BY <2>1, <2>2, <3>1
  <2>3. CASE n > 0
    <3>1. PICK f : Solves(f, n - 1)
      <4> HIDE DEF Solves
      <4>1. n - 1 \in Nat /\ n - 1 \notin Lost
            BY <2>1, <2>3
      <4> QED BY <4>1
    <3>2. ASSUME NEW x \in Int, Height[x] < n
          PROVE  Stage(f)[x] = NestedBy(Stage(f), x)
      <4>1. \A y \in Int : Height[y] < Height[x] => Stage(f)[y] = f[y]
            BY <1>2, <3>1, <3>2
      <4>2. NestedBy(Stage(f), x) = NestedBy(f, x)
        <5> HIDE DEF Stage
        <5> QED BY <1>1, <4>1
      <4> QED BY <4>2
    <3>3. Solves(Stage(f), n)
          BY <3>2
    <3> HIDE DEF Solves
    <3> QED BY <2>1, <3>3
  <2> QED BY <2>1, <2>2, <2>3
<1>4. ASSUME NEW m \in Nat, NEW n \in Nat, NEW f, NEW g, Solves(f, m), Solves(g, n),
             NEW x \in Int, Height[x] < m, Height[x] < n
      PROVE  f[x] = g[x]
  <2>1. SUFFICES ASSUME f[x] # g[x] PROVE FALSE
        OBVIOUS
  <2> DEFINE T == {k \in Nat : \E y \in Int : Height[y] = k /\ k < m /\ k < n /\ f[y] # g[y]}
  <2>2. Height[x] \in T
        BY <1>2, <1>4, <2>1
  <2>3. PICK k \in T : \A j \in T : k <= j
        BY <2>2, LeastNumber
  <2>4. PICK y \in Int : Height[y] = k /\ k < m /\ k < n /\ f[y] # g[y]
        BY <2>3
  <2>5. \A z \in Int : Height[z] < Height[y] => f[z] = g[z]
        BY <1>2, <2>3, <2>4
  <2>6. NestedBy(f, y) = NestedBy(g, y)
        BY <1>1, <2>5
  <2> QED BY <1>4, <2>4, <2>6
<1> DEFINE At(n) == CHOOSE f : Solves(f, n)
           F == [x \in Int |-> At(Height[x] + 1)[x]]
<1>5. \A n \in Nat : Solves(At(n), n)
  <2> HIDE DEF Solves
  <2> QED BY <1>3
<1> HIDE DEF At
<1>6. ASSUME NEW x \in Int PROVE F[x] = NestedBy(F, x)
  <2> DEFINE f == At(Height[x] + 1)
  <2>1. Height[x] + 1 \in Nat /\ Height[x] < Height[x] + 1
        BY <1>2
  <2>2. Solves(f, Height[x] + 1)
    <3> HIDE DEF Solves
    <3> QED BY <1>5, <2>1
  <2>3. ASSUME NEW y \in Int, Height[y] < Height[x] PROVE F[y] = f[y]
    <3>1. Height[y] + 1 \in Nat /\ Height[y] < Height[y] + 1 /\ Height[y] < Height[x] + 1
          BY <1>2, <2>3
    <3>2. Solves(At(Height[y] + 1), Height[y] + 1)
          BY <1>5, <3>1
    <3> HIDE DEF Solves
    <3>3. At(Height[y] + 1)[y] = f[y]
          BY <1>4, <2>1, <2>2, <3>1, <3>2
    <3> QED BY <3>3
  <2>4. F[x] = f[x]
        OBVIOUS
  <2>5. f[x] = NestedBy(f, x)
        BY <2>1, <2>2
  <2> HIDE DEF F, f
  <2>6. NestedBy(F, x) = NestedBy(f, x)
        BY <1>1, <2>3
  <2> QED BY <2>4, <2>5, <2>6
<1>7. F = [x \in Int |-> NestedBy(F, x)]
  <2>1. F = [x \in Int |-> F[x]]
        OBVIOUS
  <2> HIDE DEF F
  <2> QED BY <1>6, <2>1
<1>8. \E f : f = [x \in Int |-> NestedBy(f, x)]
      BY <1>7
<1>9. Nested = [x \in Int |-> NestedBy(Nested, x)]
      BY <1>8, Zenon DEF Nested, NestedBy
<1>10. \A n \in Int : Nested[n] = NestedBy(Nested, n)
       BY <1>9
<1>11. \A n \in Int : n <= 0 => NestedBy(Nested, n) = Empty
       BY DEF NestedBy, Empty
<1> QED BY <1>10, <1>11

LEMMA NestedShape ==
  ASSUME NEW n \in Int, NEW t
  PROVE  t \in Nested[n].shapes <=>
           /\ n > 1 /\ t \in ShapesOf(Nested[n - 1]) /\ WellMade(t)
           /\ \A i \in DOMAIN t.kids : t.kids[i] \in Nested[n - Sunk(t.kind, i)].shapes
           /\ t.kind = "table" => t.rest \in Seq(Nested[n - 2].shapes)
           /\ t.kind = "exact" => t.name \in Nested[n - 1].data
           /\ t.marks \in Seq(Nested[n - 2].data \cup {Bad})
<1>1. CASE n <= 0
      BY <1>1, NestedEquation DEF Empty
<1>2. CASE n > 0
  <2>1. ~(n <= 0) /\ Nested[n] = NestedBy(Nested, n)
        BY <1>2, NestedEquation
  <2>2. Nested[n].shapes =
          {s \in ShapesOf(Nested[n - 1]) :
             /\ n > 1 /\ WellMade(s)
             /\ \A i \in DOMAIN s.kids : s.kids[i] \in Nested[n - Sunk(s.kind, i)].shapes
             /\ s.kind = "table" => s.rest \in Seq(Nested[n - 2].shapes)
             /\ s.kind = "exact" => s.name \in Nested[n - 1].data
             /\ s.marks \in Seq(Nested[n - 2].data \cup {Bad})}
        BY <2>1 DEF NestedBy
  <2> QED BY <2>2, Zenon
<1> QED BY <1>1, <1>2

LEMMA NestedDatum ==
  ASSUME NEW n \in Int, NEW d
  PROVE  d \in Nested[n].data <=> n > 0 /\ d \in DataOf(Nested[n - 1])
<1>1. CASE n <= 0
      BY <1>1, NestedEquation DEF Empty
<1>2. CASE n > 0
  <2>1. ~(n <= 0) /\ Nested[n] = NestedBy(Nested, n)
        BY <1>2, NestedEquation
  <2>2. Nested[n].data = DataOf(Nested[n - 1])
        BY <2>1 DEF NestedBy
  <2> QED BY <1>2, <2>2
<1> QED BY <1>1, <1>2

Rises(n) ==
  Nested[n].shapes \subseteq Nested[n + 1].shapes /\ Nested[n].data \subseteq Nested[n + 1].data

LEMMA NextLevel ==
  ASSUME NEW n \in Int, \A m \in Int : m < n => Rises(m)
  PROVE  Rises(n)
<1>1. /\ Nested[n - 1].shapes \subseteq Nested[n].shapes
      /\ Nested[n - 1].data \subseteq Nested[n].data
      /\ Nested[n - 2].shapes \subseteq Nested[n - 1].shapes
      /\ Nested[n - 2].data \subseteq Nested[n - 1].data
  <2>1. Rises(n - 1) /\ Rises(n - 2) /\ (n - 1) + 1 = n /\ (n - 2) + 1 = n - 1
        OBVIOUS
  <2> QED BY <2>1 DEF Rises
<1>2. /\ Seq(Nested[n - 1].shapes) \subseteq Seq(Nested[n].shapes)
      /\ Seq(Nested[n - 1].data) \subseteq Seq(Nested[n].data)
      /\ Seq(Nested[n - 1].data \cup {Bad}) \subseteq Seq(Nested[n].data \cup {Bad})
      /\ Seq(Nested[n - 2].shapes) \subseteq Seq(Nested[n - 1].shapes)
      /\ Seq(Nested[n - 2].data \cup {Bad}) \subseteq Seq(Nested[n - 1].data \cup {Bad})
      BY <1>1
<1>3. ASSUME NEW d \in Nested[n].data PROVE d \in Nested[n + 1].data
  <2>1. n > 0 /\ d \in DataOf(Nested[n - 1])
        BY <1>3, NestedDatum
  <2>2. d \in DataOf(Nested[n])
        BY <1>1, <1>2, <2>1 DEF DataOf
  <2>3. n + 1 > 0 /\ n + 1 \in Int /\ (n + 1) - 1 = n
        BY <2>1
  <2> QED BY <2>2, <2>3, NestedDatum
<1>4. ASSUME NEW t \in Nested[n].shapes PROVE t \in Nested[n + 1].shapes
  <2>1. /\ n > 1 /\ t \in ShapesOf(Nested[n - 1]) /\ WellMade(t)
        /\ \A i \in DOMAIN t.kids : t.kids[i] \in Nested[n - Sunk(t.kind, i)].shapes
        /\ t.kind = "table" => t.rest \in Seq(Nested[n - 2].shapes)
        /\ t.kind = "exact" => t.name \in Nested[n - 1].data
        /\ t.marks \in Seq(Nested[n - 2].data \cup {Bad})
        BY <1>4, NestedShape
  <2>2. t \in ShapesOf(Nested[n])
        BY <1>1, <1>2, <2>1 DEF ShapesOf
  <2>3. ASSUME NEW i \in DOMAIN t.kids
        PROVE  t.kids[i] \in Nested[(n + 1) - Sunk(t.kind, i)].shapes
    <3>1. Sunk(t.kind, i) \in 1..3
          BY SunkBelow
    <3>2. /\ n - Sunk(t.kind, i) \in Int /\ n - Sunk(t.kind, i) < n
          /\ (n - Sunk(t.kind, i)) + 1 = (n + 1) - Sunk(t.kind, i)
          BY <3>1
    <3>3. Rises(n - Sunk(t.kind, i))
          BY <3>2
    <3> QED BY <2>1, <3>2, <3>3 DEF Rises
  <2>4. n + 1 \in Int /\ n + 1 > 1 /\ (n + 1) - 1 = n /\ (n + 1) - 2 = n - 1
        BY <2>1
  <2>5. /\ t.kind = "table" => t.rest \in Seq(Nested[n - 1].shapes)
        /\ t.kind = "exact" => t.name \in Nested[n].data
        /\ t.marks \in Seq(Nested[n - 1].data \cup {Bad})
        BY <1>1, <1>2, <2>1
  <2> QED BY <2>1, <2>2, <2>3, <2>4, <2>5, NestedShape
<1> QED BY <1>3, <1>4 DEF Rises

LEMMA LevelsRise == \A n \in Int : Rises(n)
<1>1. \A n \in Int : n < 0 => Rises(n)
  <2>1. \A n \in Int : n < 0 => Nested[n] = Empty
        BY NestedEquation
  <2> QED BY <2>1 DEF Rises, Empty
<1> DEFINE Lost == {n \in Nat : ~Rises(n)}
<1>2. SUFFICES ASSUME Lost # {} PROVE FALSE
  <2>1. ASSUME NEW n \in Int, n >= 0, Lost = {} PROVE Rises(n)
        BY <2>1
  <2> QED BY <1>1, <2>1
<1>3. PICK n \in Lost : \A m \in Lost : n <= m
      BY <1>2, LeastNumber
<1>4. \A m \in Int : m < n => Rises(m)
  <2>1. SUFFICES ASSUME NEW m \in Int, m < n, ~Rises(m) PROVE FALSE
        OBVIOUS
  <2>2. m \in Nat
        BY <1>1, <2>1
  <2>3. m \in Lost
        BY <2>1, <2>2
  <2> QED BY <1>3, <2>1, <2>3
<1>5. Rises(n)
      BY <1>3, <1>4, NextLevel
<1> QED BY <1>3, <1>5

(* What is of m levels is of n, for any n that is no less.                 *)
LEMMA Deeper ==
  ASSUME NEW m \in Int, NEW n \in Int, m <= n
  PROVE  Nested[m].shapes \subseteq Nested[n].shapes /\ Nested[m].data \subseteq Nested[n].data
<1> DEFINE Holds(k) == /\ Nested[m].shapes \subseteq Nested[m + k].shapes
                       /\ Nested[m].data \subseteq Nested[m + k].data
           Lost == {k \in Nat : ~Holds(k)}
<1>1. SUFFICES ASSUME Lost # {} PROVE FALSE
  <2>1. n - m \in Nat /\ m + (n - m) = n
        OBVIOUS
  <2>2. Holds(n - m)
        BY <2>1
  <2> QED BY <2>1, <2>2
<1>2. PICK k \in Lost : \A j \in Lost : k <= j
      BY <1>1, LeastNumber
<1>3. k # 0
  <2>1. Holds(0)
        OBVIOUS
  <2> QED BY <1>2, <2>1
<1>4. k - 1 \in Nat /\ Holds(k - 1)
      BY <1>2, <1>3
<1>5. Rises(m + (k - 1)) /\ (m + (k - 1)) + 1 = m + k
      BY <1>4, LevelsRise
<1>6. Holds(k)
      BY <1>4, <1>5 DEF Rises
<1> QED BY <1>2, <1>6

-----------------------------------------------------------------------------
(* What data are made of.                                                  *)

LEMMA WordsSpelt ==
  /\ \A s \in Spelling : Word("", s) \in Words /\ Word("shape", s) \in Words
  /\ \A s \in ExprKinds \cup Strategies \cup ShapeHooks \cup DOMAIN Fields : s \in Spelling
  /\ {"", "shape", "v1", "allow", "reject", "ScoreFloorHook", "DiscardOnDiagnosticPrefixHook"}
       \subseteq Spelling
<1>1. {"", "shape", "v1", "allow", "reject", "ScoreFloorHook", "DiscardOnDiagnosticPrefixHook"}
       \cup ExprKinds \cup Strategies \cup ShapeHooks \cup DOMAIN Fields \subseteq Spelling
      BY CodecAssumption
<1>2. "" \in Spelling /\ "shape" \in Spelling
      BY <1>1
<1>3. \A s \in Spelling : Word("", s) \in Words /\ Word("shape", s) \in Words
      BY <1>2 DEF Word, Words
<1> QED BY <1>1, <1>3

LEMMA NestingCounts == Nesting \in Nat /\ Nesting \in Int /\ Nesting <= Nesting
<1>1. Nesting \in Nat
      BY CodecAssumption
<1> QED BY <1>1

LEMMA BadOutside == ASSUME NEW n \in Int PROVE Bad \notin Nested[n].data
<1>1. SUFFICES ASSUME Bad \in Nested[n].data PROVE FALSE
      OBVIOUS
<1>2. Bad \in DataOf(Nested[n - 1])
      BY <1>1, NestedDatum
<1>3. Bad.form \in Forms
      BY <1>2 DEF DataOf
<1> QED BY <1>3 DEF Bad, Nil, Forms

LEMMA AtomTyped ==
  ASSUME NEW n \in Int, n > 0
  PROVE  /\ Nil \in Nested[n].data
         /\ \A w \in Words : Symbol(w) \in Nested[n].data
         /\ \A yes \in BOOLEAN : Bool(yes) \in Nested[n].data
         /\ \A k \in Nat : Number(k) \in Nested[n].data
<1> DEFINE in == Nested[n - 1]
<1>1. <<>> \in Seq(in.data)
      OBVIOUS
<1>2. \A d : d \in DataOf(in) => d \in Nested[n].data
      BY NestedDatum
<1> HIDE DEF in
<1>3. Nil \in DataOf(in)
      BY <1>1 DEF Nil, DataOf, Forms
<1>4. ASSUME NEW w \in Words PROVE Symbol(w) \in DataOf(in)
      BY <1>1, <1>4 DEF Symbol, Nil, DataOf, Forms
<1>5. ASSUME NEW yes \in BOOLEAN PROVE Bool(yes) \in DataOf(in)
      BY <1>1, <1>5 DEF Bool, Nil, DataOf, Forms
<1>6. ASSUME NEW k \in Nat PROVE Number(k) \in DataOf(in)
      BY <1>1, <1>6 DEF Number, Nil, DataOf, Forms
<1> QED BY <1>2, <1>3, <1>4, <1>5, <1>6

LEMMA GroupTyped ==
  ASSUME NEW n \in Int, n > 0, NEW items \in Seq(Nested[n - 1].data), NEW form \in {"call", "list"}
  PROVE  Group(form, items) \in Nested[n].data
<1>1. Group(form, items) \in DataOf(Nested[n - 1])
      BY DEF Group, Nil, DataOf, Forms
<1> QED BY <1>1, NestedDatum

(* A list without a part that cannot be written is the list of its parts.  *)
LEMMA ListMade ==
  ASSUME NEW items
  PROVE  /\ ListOf(items) # Bad <=> \A i \in DOMAIN items : items[i] # Bad
         /\ ListOf(items) # Bad => ListOf(items) = Group("list", items)
<1>1. Group("list", items) # Bad
      BY DEF Group, Bad, Nil
<1> QED BY <1>1, Zenon DEF ListOf, Sound

LEMMA CallMade ==
  ASSUME NEW class, NEW fields
  PROVE  /\ Make(class, fields) # Bad <=> \A i \in DOMAIN fields : fields[i] # Bad
         /\ Make(class, fields) # Bad =>
              Make(class, fields) =
                Group("call", <<Symbol(Word("shape", class)), Symbol(Word("", "v1"))>> \o fields)
<1> DEFINE call == Group("call", <<Symbol(Word("shape", class)), Symbol(Word("", "v1"))>> \o fields)
<1>1. call # Bad
      BY DEF Group, Bad, Nil
<1>2. Make(class, fields) = Sound(fields, call)
      BY DEF Make
<1> HIDE DEF call
<1>3. /\ Make(class, fields) # Bad <=> \A i \in DOMAIN fields : fields[i] # Bad
      /\ Make(class, fields) # Bad => Make(class, fields) = call
      BY <1>1, <1>2, Zenon DEF Sound
<1> QED BY <1>3 DEF call

LEMMA WithoutBad ==
  ASSUME NEW S, NEW items \in Seq(S \cup {Bad}), \A i \in DOMAIN items : items[i] # Bad
  PROVE  items \in Seq(S)
OBVIOUS

LEMMA ListTyped ==
  ASSUME NEW n \in Int, n > 0, NEW items \in Seq(Nested[n - 1].data \cup {Bad})
  PROVE  ListOf(items) \in Nested[n].data \cup {Bad}
<1>1. SUFFICES ASSUME ListOf(items) # Bad PROVE ListOf(items) \in Nested[n].data
      OBVIOUS
<1>2. items \in Seq(Nested[n - 1].data)
      BY <1>1, ListMade, WithoutBad
<1> QED BY <1>1, <1>2, ListMade, GroupTyped

LEMMA OneOf ==
  ASSUME NEW S, NEW a \in S
  PROVE  <<a>> \in Seq(S) /\ DOMAIN <<a>> = {1} /\ <<a>>[1] = a /\ Len(<<a>>) = 1
OBVIOUS
LEMMA NoneOf == ASSUME NEW S PROVE <<>> \in Seq(S) /\ Len(<<>>) = 0 /\ DOMAIN <<>> = {}
OBVIOUS
LEMMA TwoOf ==
  ASSUME NEW S, NEW a \in S, NEW b \in S
  PROVE  <<a, b>> \in Seq(S) /\ DOMAIN <<a, b>> = {1, 2} /\ <<a, b>>[1] = a /\ <<a, b>>[2] = b
OBVIOUS
LEMMA ThreeOf ==
  ASSUME NEW S, NEW a \in S, NEW b \in S, NEW c \in S
  PROVE  /\ <<a, b, c>> \in Seq(S) /\ DOMAIN <<a, b, c>> = {1, 2, 3}
         /\ <<a, b, c>>[1] = a /\ <<a, b, c>>[2] = b /\ <<a, b, c>>[3] = c
OBVIOUS

LEMMA CallTyped ==
  ASSUME NEW n \in Int, n > 1, NEW fields \in Seq(Nested[n - 1].data \cup {Bad}),
         NEW class \in Spelling
  PROVE  Make(class, fields) \in Nested[n].data \cup {Bad}
<1>1. SUFFICES ASSUME Make(class, fields) # Bad PROVE Make(class, fields) \in Nested[n].data
      OBVIOUS
<1>2. fields \in Seq(Nested[n - 1].data)
      BY <1>1, CallMade, WithoutBad
<1> DEFINE head == <<Symbol(Word("shape", class)), Symbol(Word("", "v1"))>>
<1>3. head \in Seq(Nested[n - 1].data)
  <2>1. Word("shape", class) \in Words /\ Word("", "v1") \in Words
        BY WordsSpelt
  <2>2. n - 1 \in Int /\ n - 1 > 0
        OBVIOUS
  <2>3. /\ Symbol(Word("shape", class)) \in Nested[n - 1].data
        /\ Symbol(Word("", "v1")) \in Nested[n - 1].data
        BY <2>1, <2>2, AtomTyped
  <2> QED BY <2>3, TwoOf
<1> HIDE DEF head
<1>4. head \o fields \in Seq(Nested[n - 1].data)
      BY <1>2, <1>3, ConcatProperties
<1>5. Group("call", head \o fields) \in Nested[n].data
  <2>1. "call" \in {"call", "list"} /\ n > 0
        OBVIOUS
  <2> QED BY <1>4, <2>1, GroupTyped
<1>6. Make(class, fields) = Group("call", head \o fields)
      BY <1>1, CallMade DEF head
<1> QED BY <1>5, <1>6

-----------------------------------------------------------------------------
(* What is written of a shape has as many levels as the shape.             *)

EncodeBy(f, t) ==
  WrittenAs(t, [i \in DOMAIN t.kids |-> f[t.kids[i]]], [i \in DOMAIN t.rest |-> f[t.rest[i]]])

(* What f says of the parts of t, a shape of n levels, is as deep as they. *)
PartsWritten(f, t, n) ==
  /\ \A i \in DOMAIN t.kids : f[t.kids[i]] \in Nested[n - Sunk(t.kind, i)].data \cup {Bad}
  /\ \A i \in DOMAIN t.rest :
       f[t.rest[i]] \in Nested[n - (IF t.kind = "table" THEN 2 ELSE 1)].data \cup {Bad}

LEMMA ShapeTyped ==
  ASSUME NEW n \in Int, NEW t \in Nested[n].shapes
  PROVE  /\ n > 1 /\ n - 1 > 0 /\ n - 1 \in Int /\ n - 2 \in Int /\ (n - 1) - 1 = n - 2
         /\ WellMade(t) /\ t.kind \in Kinds
         /\ t.kids \in Seq(Nested[n - 1].shapes) /\ t.rest \in Seq(Nested[n - 1].shapes)
         /\ t.keys \in Seq(Words) /\ t.needed \in Seq(BOOLEAN) /\ t.arg \in Spelling
         /\ t.min \in Nat /\ t.max \in Nat \cup {None}
         /\ t.kind = "table" => t.rest \in Seq(Nested[n - 2].shapes)
         /\ t.kind = "exact" => t.name \in Nested[n - 1].data
         /\ t.marks \in Seq(Nested[n - 2].data \cup {Bad})
         /\ \A i \in DOMAIN t.kids : t.kids[i] \in Nested[n - Sunk(t.kind, i)].shapes
<1>1. /\ n > 1 /\ t \in ShapesOf(Nested[n - 1]) /\ WellMade(t)
      /\ \A i \in DOMAIN t.kids : t.kids[i] \in Nested[n - Sunk(t.kind, i)].shapes
      /\ t.kind = "table" => t.rest \in Seq(Nested[n - 2].shapes)
      /\ t.kind = "exact" => t.name \in Nested[n - 1].data
      /\ t.marks \in Seq(Nested[n - 2].data \cup {Bad})
      BY NestedShape
<1>2. /\ t.kind \in Kinds /\ t.kids \in Seq(Nested[n - 1].shapes)
      /\ t.rest \in Seq(Nested[n - 1].shapes)
      /\ t.keys \in Seq(Words) /\ t.needed \in Seq(BOOLEAN) /\ t.arg \in Spelling
      /\ t.min \in Nat /\ t.max \in Nat \cup {None}
      BY <1>1 DEF ShapesOf
<1>3. n - 1 > 0 /\ n - 1 \in Int /\ n - 2 \in Int /\ (n - 1) - 1 = n - 2
      BY <1>1
<1> QED BY <1>1, <1>2, <1>3, Zenon

LEMMA ShapesHaveLevels == \A k \in Int : \A t \in Nested[k].shapes : k > 1
BY NestedShape

LEMMA SeqOf ==
  ASSUME NEW S, NEW s, NEW T, s \in Seq(T), NEW r, DOMAIN r = DOMAIN s,
         r = [i \in DOMAIN s |-> r[i]], \A i \in DOMAIN s : r[i] \in S
  PROVE  r \in Seq(S)
OBVIOUS

LEMMA WrittenTyped ==
  ASSUME NEW n \in Int, NEW t \in Nested[n].shapes, NEW f, PartsWritten(f, t, n)
  PROVE  EncodeBy(f, t) \in Nested[n].data \cup {Bad}
<1> DEFINE B(k) == Nested[n - k].data \cup {Bad}
           kids == [i \in DOMAIN t.kids |-> f[t.kids[i]]]
           rest == [i \in DOMAIN t.rest |-> f[t.rest[i]]]
           Field(i) == ListOf(<<Symbol(t.keys[i]), Bool(t.needed[i]), kids[i]>>)
<1>1. /\ n > 1 /\ n - 1 > 0 /\ n - 1 \in Int /\ n - 2 \in Int /\ (n - 1) - 1 = n - 2
      /\ WellMade(t) /\ t.kind \in Kinds
      /\ t.kids \in Seq(Nested[n - 1].shapes) /\ t.rest \in Seq(Nested[n - 1].shapes)
      /\ t.keys \in Seq(Words) /\ t.needed \in Seq(BOOLEAN) /\ t.arg \in Spelling
      /\ t.min \in Nat /\ t.max \in Nat \cup {None}
      /\ t.kind = "table" => t.rest \in Seq(Nested[n - 2].shapes)
      /\ t.kind = "exact" => t.name \in Nested[n - 1].data
      /\ t.marks \in Seq(Nested[n - 2].data \cup {Bad})
      BY ShapeTyped
<1>2. /\ DOMAIN kids = DOMAIN t.kids /\ DOMAIN rest = DOMAIN t.rest
      /\ \A i \in DOMAIN t.kids : kids[i] = f[t.kids[i]]
      /\ \A i \in DOMAIN t.rest : rest[i] = f[t.rest[i]]
      OBVIOUS
<1>3. ASSUME NEW k \in 1..3, \A i \in DOMAIN t.kids : Sunk(t.kind, i) = k
      PROVE  kids \in Seq(B(k))
  <2>1. \A i \in DOMAIN t.kids : kids[i] \in B(k)
        BY <1>3 DEF PartsWritten
  <2>2. kids = [i \in DOMAIN t.kids |-> kids[i]]
        OBVIOUS
  <2> HIDE DEF kids, B
  <2> QED BY <1>1, <1>2, <2>1, <2>2, SeqOf
<1>4. t.kind # "table" => rest \in Seq(B(1))
  <2>1. t.kind # "table" => \A i \in DOMAIN t.rest : rest[i] \in B(1)
        BY DEF PartsWritten
  <2>2. rest = [i \in DOMAIN t.rest |-> rest[i]]
        OBVIOUS
  <2> HIDE DEF rest, B
  <2> QED BY <1>1, <1>2, <2>1, <2>2, SeqOf
<1>5. t.kind = "table" => rest \in Seq(B(2))
  <2>1. t.kind = "table" => \A i \in DOMAIN t.rest : rest[i] \in B(2)
        BY DEF PartsWritten
  <2>2. rest = [i \in DOMAIN t.rest |-> rest[i]]
        OBVIOUS
  <2>3. SUFFICES ASSUME t.kind = "table" PROVE rest \in Seq(B(2))
        OBVIOUS
  <2>4. t.rest \in Seq(Nested[n - 1].shapes) /\ \A i \in DOMAIN t.rest : rest[i] \in B(2)
        BY <1>1, <2>1, <2>3
  <2> HIDE DEF rest, B
  <2> QED BY <1>2, <2>2, <2>4, SeqOf
<1>6. EncodeBy(f, t) = WrittenAs(t, kids, rest)
      BY DEF EncodeBy
<1>7. /\ \A items \in Seq(B(2)) : ListOf(items) \in B(1)
      /\ \A class \in Spelling, fields \in Seq(B(1)) : Make(class, fields) \in B(0)
      /\ B(0) = Nested[n].data \cup {Bad}
  <2>1. n - 0 = n
        OBVIOUS
  <2>2. \A items \in Seq(Nested[(n - 1) - 1].data \cup {Bad}) :
          ListOf(items) \in Nested[n - 1].data \cup {Bad}
        BY <1>1, ListTyped
  <2> QED BY <1>1, <2>1, <2>2, CallTyped
<1>8. /\ \A s \in Spelling : Word("", s) \in Words
      /\ \A class \in DOMAIN Fields : class \in Spelling
      /\ "shape" \in Spelling
      BY WordsSpelt
<1>9. /\ Nil \in B(1) /\ \A w \in Words : Symbol(w) \in B(1)
      /\ \A k \in Nat : Number(k) \in B(1)
      BY <1>1, AtomTyped
<1> HIDE DEF kids, rest, B
<1>10. SUFFICES WrittenAs(t, kids, rest) \in B(0)
       BY <1>6, <1>7
<1>11. <<>> \in Seq(B(1)) /\ \A a \in B(1) : <<a>> \in Seq(B(1))
       BY OneOf
<1>12. \A a, b \in B(1) : <<a, b>> \in Seq(B(1))
       BY TwoOf
<1>13. \A class \in DOMAIN Fields : \A fields \in Seq(B(1)) : Make(class, fields) \in B(0)
       BY <1>7, <1>8
<1>14. /\ "Any" \in DOMAIN Fields /\ "ExactExpr" \in DOMAIN Fields /\ "ExprKind" \in DOMAIN Fields
       /\ "Class" \in DOMAIN Fields /\ "Ref" \in DOMAIN Fields /\ "List" \in DOMAIN Fields
       /\ "Table" \in DOMAIN Fields /\ "Or" \in DOMAIN Fields /\ "And" \in DOMAIN Fields
       /\ "Not" \in DOMAIN Fields /\ "Repeat" \in DOMAIN Fields /\ "Defs" \in DOMAIN Fields
       /\ "Hooked" \in DOMAIN Fields
       BY DEF Fields
<1> HIDE DEF Field
<1>a. CASE t.kind = "any"
  <2>1. WrittenAs(t, kids, rest) = Make("Any", <<>>)
        BY <1>a, Zenon DEF WrittenAs
  <2> QED BY <2>1, <1>11, <1>13, <1>14
<1>b. CASE t.kind = "exact"
  <2>1. WrittenAs(t, kids, rest) = Make("ExactExpr", <<t.name>>)
        BY <1>b, Zenon DEF WrittenAs
  <2>2. t.name \in B(1)
        BY <1>1, <1>b DEF B
  <2> QED BY <2>1, <2>2, <1>11, <1>13, <1>14
<1>c. CASE t.kind = "exprKind"
  <2>1. WrittenAs(t, kids, rest) = Make("ExprKind", <<Symbol(Word("", t.arg))>>)
        BY <1>c, Zenon DEF WrittenAs
  <2>2. Symbol(Word("", t.arg)) \in B(1)
        BY <1>1, <1>8, <1>9
  <2> QED BY <2>1, <2>2, <1>11, <1>13, <1>14
<1>d. CASE t.kind \in {"class", "ref"}
  <2>1. \/ WrittenAs(t, kids, rest) = Make("Class", <<Symbol(t.name)>>)
        \/ WrittenAs(t, kids, rest) = Make("Ref", <<Symbol(t.name)>>)
    <3>1. CASE t.kind = "class"
          BY <3>1, Zenon DEF WrittenAs
    <3>2. CASE t.kind = "ref"
          BY <3>2, Zenon DEF WrittenAs
    <3> QED BY <1>d, <3>1, <3>2
  <2>2. Symbol(t.name) \in B(1)
        BY <1>1, <1>9, <1>d DEF WellMade
  <2> QED BY <2>1, <2>2, <1>11, <1>13, <1>14
<1>e. CASE t.kind = "list"
  <2>1. WrittenAs(t, kids, rest) =
          Make("List", <<ListOf(kids), IF rest = <<>> THEN Nil ELSE rest[1]>>)
        BY <1>e, Zenon DEF WrittenAs, ListFields
  <2>2. \A i \in DOMAIN t.kids : Sunk(t.kind, i) = 2
        BY <1>e DEF Sunk
  <2>3. ListOf(kids) \in B(1)
        BY <1>3, <1>7, <2>2
  <2>4. rest # <<>> => rest[1] \in B(1)
        BY <1>4, <1>e
  <2> QED BY <2>1, <2>3, <2>4, <1>9, <1>12, <1>13, <1>14
<1>f. CASE t.kind = "table"
  <2>1. WrittenAs(t, kids, rest) =
          Make("Table", <<ListOf([i \in DOMAIN kids |-> Field(i)]), Policy(t.arg, rest)>>)
        BY <1>f, Zenon DEF WrittenAs, Field
  <2>2. \A i \in DOMAIN t.kids : Sunk(t.kind, i) = 3
        BY <1>f DEF Sunk
  <2>3. kids \in Seq(B(3))
        BY <1>3, <2>2
  <2>4. ASSUME NEW i \in DOMAIN kids PROVE Field(i) \in B(2)
    <3>1. i \in 1..Len(t.kids) /\ t.keys[i] \in Words /\ t.needed[i] \in BOOLEAN
      <4>1. DOMAIN t.kids = 1..Len(t.kids) /\ DOMAIN t.keys = 1..Len(t.keys)
                /\ DOMAIN t.needed = 1..Len(t.needed)
            BY <1>1
      <4>2. Len(t.kids) = Len(t.keys) /\ Len(t.kids) = Len(t.needed)
            BY <1>1, <1>f DEF WellMade
      <4> QED BY <1>1, <1>2, <2>4, <4>1, <4>2
    <3>2. kids[i] \in B(3)
          BY <2>3, <2>4
    <3>3. t.kids[i] \in Nested[n - Sunk(t.kind, i)].shapes /\ Sunk(t.kind, i) = 3
          BY <1>2, <2>2, <2>4, ShapeTyped
    <3>4. n - 3 > 0 /\ n - 3 \in Int /\ (n - 2) - 1 = n - 3 /\ n - 2 > 0
      <4>1. n - 3 \in Int /\ t.kids[i] \in Nested[n - 3].shapes
            BY <3>3
      <4>2. n - 3 > 1
            BY <4>1, ShapesHaveLevels
      <4> QED BY <4>2
    <3>5. Symbol(t.keys[i]) \in B(3) /\ Bool(t.needed[i]) \in B(3)
          BY <3>1, <3>4, AtomTyped DEF B
    <3>6. <<Symbol(t.keys[i]), Bool(t.needed[i]), kids[i]>> \in Seq(B(3))
          BY <3>2, <3>5, ThreeOf
    <3> QED BY <1>1, <3>4, <3>6, ListTyped DEF B, Field
  <2>5. [i \in DOMAIN kids |-> Field(i)] \in Seq(B(2))
        BY <2>3, <2>4
  <2>6. Policy(t.arg, rest) \in B(1)
    <3>1. CASE rest = <<>>
          BY <1>1, <1>8, <1>9, <3>1 DEF Policy
    <3>2. CASE rest # <<>>
      <4>1. rest[1] \in B(2)
            BY <1>5, <1>f, <3>2
      <4>2. Symbol(Word("", "shape")) \in B(2)
        <5>1. n - 2 > 0
          <6>1. t.rest # <<>>
                BY <1>2, <3>2, <1>1
          <6>2. t.rest[1] \in Nested[n - 2].shapes
                BY <1>1, <1>f, <6>1
          <6>3. n - 2 > 1
                BY <1>1, <6>2, ShapesHaveLevels
          <6> QED BY <6>3
        <5> QED BY <1>1, <1>8, <5>1, AtomTyped DEF B
      <4>3. ListOf(<<Symbol(Word("", "shape")), rest[1]>>) \in B(1)
            BY <1>7, <4>1, <4>2, TwoOf
      <4> QED BY <3>2, <4>3 DEF Policy, Pair
    <3> QED BY <3>1, <3>2
  <2> QED BY <2>1, <2>5, <2>6, <1>7, <1>12, <1>13, <1>14
<1>g. CASE t.kind = "or"
  <2>1. WrittenAs(t, kids, rest) = Make("Or", <<ListOf(kids), Symbol(Word("", t.arg))>>)
        BY <1>g, Zenon DEF WrittenAs
  <2>2. \A i \in DOMAIN t.kids : Sunk(t.kind, i) = 2
        BY <1>g DEF Sunk
  <2>3. ListOf(kids) \in B(1) /\ Symbol(Word("", t.arg)) \in B(1)
    <3>1. ListOf(kids) \in B(1)
          BY <1>3, <1>7, <2>2
    <3>2. Word("", t.arg) \in Words
          BY <1>1, <1>8
    <3> QED BY <1>9, <3>1, <3>2
  <2> QED BY <2>1, <2>3, <1>12, <1>13, <1>14
<1>h. CASE t.kind = "and"
  <2>1. WrittenAs(t, kids, rest) = Make("And", <<ListOf(kids)>>)
        BY <1>h, Zenon DEF WrittenAs
  <2>2. \A i \in DOMAIN t.kids : Sunk(t.kind, i) = 2
        BY <1>h DEF Sunk
  <2>3. ListOf(kids) \in B(1)
        BY <1>3, <1>7, <2>2
  <2> QED BY <2>1, <2>3, <1>11, <1>13, <1>14
<1>i. CASE t.kind = "not"
  <2>1. WrittenAs(t, kids, rest) = Make("Not", kids)
        BY <1>i, Zenon DEF WrittenAs
  <2>2. \A i \in DOMAIN t.kids : Sunk(t.kind, i) = 1
        BY <1>i DEF Sunk
  <2>3. kids \in Seq(B(1))
        BY <1>3, <2>2
  <2> QED BY <2>1, <2>3, <1>13, <1>14
<1>j. CASE t.kind = "repeat"
  <2>1. WrittenAs(t, kids, rest) = Make("Repeat", <<kids[1], Number(t.min), Count(t.max)>>)
        BY <1>j, Zenon DEF WrittenAs
  <2>2. \A i \in DOMAIN t.kids : Sunk(t.kind, i) = 1
        BY <1>j DEF Sunk
  <2>3. kids \in Seq(B(1))
        BY <1>3, <2>2
  <2>4. kids[1] \in B(1)
    <3>1. Len(t.kids) = 1 /\ DOMAIN t.kids = 1..Len(t.kids)
          BY <1>1, <1>j DEF WellMade
    <3> QED BY <1>2, <2>3, <3>1
  <2>5. Number(t.min) \in B(1) /\ Count(t.max) \in B(1)
        BY <1>1, <1>9 DEF Count
  <2>6. <<kids[1], Number(t.min), Count(t.max)>> \in Seq(B(1))
        BY <2>4, <2>5, ThreeOf
  <2> QED BY <2>1, <2>6, <1>13, <1>14
<1>k. CASE t.kind = "defs"
  <2>1. WrittenAs(t, kids, rest) = Make("Defs", <<kids[1], Pairs(t.keys, Tail(kids))>>)
        BY <1>k, Zenon DEF WrittenAs
  <2>2. Len(t.kids) = Len(t.keys) + 1 /\ Len(t.keys) \in Nat /\ DOMAIN t.kids = 1..Len(t.kids)
        BY <1>1, <1>k DEF WellMade
  <2>3. kids \in Seq(B(1) \cup B(3)) /\ Len(kids) = Len(t.kids)
    <3>1. \A i \in DOMAIN t.kids : kids[i] \in B(1) \cup B(3)
      <4>1. \A i \in DOMAIN t.kids : Sunk(t.kind, i) = 1 \/ Sunk(t.kind, i) = 3
            BY <1>k DEF Sunk
      <4> QED BY <4>1, <1>2 DEF PartsWritten, B
    <3>2. kids = [i \in DOMAIN t.kids |-> kids[i]]
          BY DEF kids
    <3> DEFINE U == B(1) \cup B(3)
    <3>3. kids \in Seq(U)
      <4>1. \A i \in DOMAIN t.kids : kids[i] \in U
            BY <3>1
      <4> HIDE DEF U
      <4> QED BY <1>1, <1>2, <3>2, <4>1, SeqOf
    <3> QED BY <1>1, <1>2, <3>3
  <2>4. kids[1] \in B(1)
    <3>1. Sunk(t.kind, 1) = 1 /\ 1 \in DOMAIN t.kids
          BY <1>k, <2>2 DEF Sunk
    <3> QED BY <1>2, <3>1 DEF PartsWritten, B
  <2>5. ASSUME NEW i \in DOMAIN t.keys PROVE Pair(t.keys[i], Tail(kids)[i]) \in B(2)
    <3>1. i + 1 \in DOMAIN t.kids /\ t.keys[i] \in Words /\ i \in 1..Len(t.keys)
          BY <1>1, <2>2, <2>5
    <3>2. Tail(kids)[i] = kids[i + 1]
          BY <2>2, <2>3, <3>1
    <3>3. Sunk(t.kind, i + 1) = 3
          BY <1>k, <3>1 DEF Sunk
    <3>4. kids[i + 1] \in B(3) /\ t.kids[i + 1] \in Nested[n - 3].shapes
          BY <1>2, <3>1, <3>3, ShapeTyped DEF PartsWritten, B
    <3>5. n - 3 > 0 /\ n - 3 \in Int /\ (n - 2) - 1 = n - 3 /\ n - 2 > 0
      <4>1. n - 3 \in Int /\ t.kids[i + 1] \in Nested[n - 3].shapes
            BY <3>4
      <4>2. n - 3 > 1
            BY <4>1, ShapesHaveLevels
      <4> QED BY <4>2
    <3>6. Symbol(t.keys[i]) \in B(3)
          BY <3>1, <3>5, AtomTyped DEF B
    <3>7. <<Symbol(t.keys[i]), kids[i + 1]>> \in Seq(B(3))
          BY <3>4, <3>6, TwoOf
    <3> QED BY <1>1, <3>2, <3>5, <3>7, ListTyped DEF B, Pair
  <2>6. DOMAIN t.keys = 1..Len(t.keys)
        BY <1>1
  <2> DEFINE pairs == [i \in DOMAIN t.keys |-> Pair(t.keys[i], Tail(kids)[i])]
  <2>7. pairs \in Seq(B(2))
    <3>1. /\ DOMAIN pairs = DOMAIN t.keys /\ pairs = [i \in DOMAIN t.keys |-> pairs[i]]
          /\ \A i \in DOMAIN t.keys : pairs[i] \in B(2)
          BY <2>5, Zenon
    <3> HIDE DEF pairs
    <3> QED BY <1>1, <3>1, SeqOf
  <2>8. Pairs(t.keys, Tail(kids)) \in B(1)
        BY <1>7, <2>7 DEF Pairs
  <2> QED BY <2>1, <2>4, <2>8, <1>12, <1>13, <1>14
<1>l. CASE t.kind = "hooked"
  <2>1. WrittenAs(t, kids, rest) = Make("Hooked", <<kids[1], ListOf(t.marks)>>)
        BY <1>l, Zenon DEF WrittenAs
  <2>2. \A i \in DOMAIN t.kids : Sunk(t.kind, i) = 1
        BY <1>l DEF Sunk
  <2>3. kids[1] \in B(1)
    <3>1. Len(t.kids) = 1 /\ DOMAIN t.kids = 1..Len(t.kids)
          BY <1>1, <1>l DEF WellMade
    <3>2. kids \in Seq(B(1))
          BY <1>3, <2>2
    <3> QED BY <1>2, <3>1, <3>2
  <2>4. ListOf(t.marks) \in B(1)
        BY <1>1, <1>7 DEF B
  <2> QED BY <2>1, <2>3, <2>4, <1>12, <1>13, <1>14
<1>m. CASE t.kind \in {"number", "named", "fields", "capture"}
  <2>1. WrittenAs(t, kids, rest) = Bad
        BY <1>m, Zenon DEF WrittenAs
  <2> QED BY <2>1 DEF B
<1> QED BY <1>1, <1>a, <1>b, <1>c, <1>d, <1>e, <1>f, <1>g, <1>h, <1>i, <1>j, <1>k, <1>l,
    <1>m DEF Kinds

(* The least number of levels a shape has.                                 *)
Rank(t) ==
  CHOOSE n \in Nat : t \in Nested[n].shapes /\ \A m \in Nat : t \in Nested[m].shapes => n <= m

LEMMA RankLeast ==
  ASSUME NEW n \in Int, NEW t \in Nested[n].shapes
  PROVE  /\ Rank(t) \in Nat /\ t \in Nested[Rank(t)].shapes
         /\ n \in Nat /\ Rank(t) <= n
<1> DEFINE T == {k \in Nat : t \in Nested[k].shapes}
<1>1. n \in T
      BY ShapesHaveLevels
<1>2. \E k \in T : \A m \in T : k <= m
      BY <1>1, LeastNumber
<1>3. \E k \in Nat : t \in Nested[k].shapes /\ \A m \in Nat : t \in Nested[m].shapes => k <= m
      BY <1>2
<1>4. /\ Rank(t) \in Nat /\ t \in Nested[Rank(t)].shapes
      /\ \A m \in Nat : t \in Nested[m].shapes => Rank(t) <= m
      BY <1>3, Zenon DEF Rank
<1> QED BY <1>1, <1>4

LEMMA ShapeIsShape ==
  ASSUME NEW n \in Int, n <= Nesting, NEW t \in Nested[n].shapes
  PROVE  t \in Shapes
<1>1. Nesting \in Int
      BY NestingCounts
<1> QED BY <1>1, Deeper DEF Shapes

LEMMA DatumIsDatum ==
  ASSUME NEW n \in Int, n <= Nesting, NEW d \in Nested[n].data
  PROVE  d \in Data
<1>1. Nesting \in Int
      BY NestingCounts
<1> QED BY <1>1, Deeper DEF Data

(* The parts of a shape of n levels have fewer, and they are shapes.       *)
LEMMA PartsBelow ==
  ASSUME NEW n \in Int, NEW t \in Nested[n].shapes
  PROVE  /\ n - 1 \in Int /\ n - 1 < n
         /\ \A i \in DOMAIN t.kids : t.kids[i] \in Nested[n - 1].shapes
         /\ \A i \in DOMAIN t.rest : t.rest[i] \in Nested[n - 1].shapes
<1>1. t.kids \in Seq(Nested[n - 1].shapes) /\ t.rest \in Seq(Nested[n - 1].shapes)
      BY ShapeTyped
<1> QED BY <1>1

LEMMA PartsOfShapes ==
  ASSUME NEW t \in Shapes
  PROVE  /\ Rank(t) \in Nat
         /\ \A i \in DOMAIN t.kids : t.kids[i] \in Shapes /\ Rank(t.kids[i]) < Rank(t)
         /\ \A i \in DOMAIN t.rest : t.rest[i] \in Shapes /\ Rank(t.rest[i]) < Rank(t)
<1>1. Nesting \in Int
      BY NestingCounts
<1>2. Rank(t) \in Nat /\ t \in Nested[Rank(t)].shapes /\ Rank(t) <= Nesting
      BY <1>1, RankLeast DEF Shapes
<1>3. Rank(t) \in Int /\ Rank(t) - 1 \in Int /\ Rank(t) - 1 <= Nesting
      BY <1>1, <1>2
<1>4. ASSUME NEW s \in Nested[Rank(t) - 1].shapes PROVE s \in Shapes /\ Rank(s) < Rank(t)
  <2>1. s \in Shapes
        BY <1>3, <1>4, ShapeIsShape
  <2>2. Rank(s) <= Rank(t) - 1 /\ Rank(s) \in Nat
        BY <1>3, <1>4, RankLeast
  <2> QED BY <1>2, <2>1, <2>2
<1>5. /\ \A i \in DOMAIN t.kids : t.kids[i] \in Nested[Rank(t) - 1].shapes
      /\ \A i \in DOMAIN t.rest : t.rest[i] \in Nested[Rank(t) - 1].shapes
      BY <1>2, <1>3, PartsBelow
<1> QED BY <1>2, <1>4, <1>5

(* What a function says that follows EncodeBy wherever that gives a datum. *)
LEMMA WrittenLevels ==
  ASSUME NEW f, \A t \in Shapes : EncodeBy(f, t) \in Data \cup {Bad} => f[t] = EncodeBy(f, t),
         NEW n \in Int, n <= Nesting, NEW t \in Nested[n].shapes
  PROVE  f[t] \in Nested[n].data \cup {Bad} /\ f[t] = EncodeBy(f, t)
<1> DEFINE Holds(k) == \A s \in Nested[k].shapes :
                         f[s] \in Nested[k].data \cup {Bad} /\ f[s] = EncodeBy(f, s)
           Lost == {k \in Nat : k <= Nesting /\ ~Holds(k)}
<1>1. Nesting \in Nat
      BY CodecAssumption
<1>2. SUFFICES ASSUME Lost # {} PROVE FALSE
  <2>1. n \in Nat
        BY RankLeast
  <2>2. Holds(n)
        BY <1>2, <2>1
  <2> QED BY <2>2
<1>3. PICK k \in Lost : \A j \in Lost : k <= j
      BY <1>2, LeastNumber
<1>4. k \in Nat /\ k \in Int /\ k <= Nesting /\ ~Holds(k)
      BY <1>3
<1>5. ASSUME NEW j \in Int, j < k PROVE Holds(j)
  <2>1. CASE j \in Nat
        BY <1>1, <1>3, <1>4, <1>5, <2>1
  <2>2. CASE j \notin Nat
    <3>1. \A s : s \notin Nested[j].shapes
          BY <2>2, ShapesHaveLevels
    <3> QED BY <3>1
  <2> QED BY <2>1, <2>2
<1> HIDE DEF Lost
<1>6. ASSUME NEW s \in Nested[k].shapes
      PROVE  f[s] \in Nested[k].data \cup {Bad} /\ f[s] = EncodeBy(f, s)
  <2>1. PartsWritten(f, s, k)
    <3>1. ASSUME NEW i \in DOMAIN s.kids
          PROVE  f[s.kids[i]] \in Nested[k - Sunk(s.kind, i)].data \cup {Bad}
      <4>1. s.kids[i] \in Nested[k - Sunk(s.kind, i)].shapes
            BY <1>4, <1>6, ShapeTyped
      <4>2. k - Sunk(s.kind, i) \in Int /\ k - Sunk(s.kind, i) < k
            BY <1>4, SunkBelow
      <4> QED BY <1>5, <4>1, <4>2
    <3>2. ASSUME NEW i \in DOMAIN s.rest
          PROVE  f[s.rest[i]] \in Nested[k - (IF s.kind = "table" THEN 2 ELSE 1)].data \cup {Bad}
      <4>1. CASE s.kind = "table"
        <5>1. s.rest \in Seq(Nested[k - 2].shapes)
              BY <1>4, <1>6, <4>1, ShapeTyped
        <5>2. k - 2 \in Int /\ k - 2 < k /\ s.rest[i] \in Nested[k - 2].shapes
              BY <1>4, <3>2, <5>1
        <5>3. f[s.rest[i]] \in Nested[k - 2].data \cup {Bad}
              BY <1>5, <5>2
        <5> QED BY <4>1, <5>3
      <4>2. CASE s.kind # "table"
        <5>1. k - 1 \in Int /\ k - 1 < k /\ s.rest[i] \in Nested[k - 1].shapes
              BY <1>4, <1>6, <3>2, PartsBelow
        <5>2. f[s.rest[i]] \in Nested[k - 1].data \cup {Bad}
              BY <1>5, <5>1
        <5> QED BY <4>2, <5>2
      <4> QED BY <4>1, <4>2
    <3> QED BY <3>1, <3>2 DEF PartsWritten
  <2>2. EncodeBy(f, s) \in Nested[k].data \cup {Bad}
        BY <1>4, <1>6, <2>1, WrittenTyped
  <2>3. s \in Shapes
        BY <1>4, <1>6, ShapeIsShape
  <2>4. EncodeBy(f, s) \in Data \cup {Bad}
        BY <1>4, <2>2, DatumIsDatum
  <2> QED BY <2>2, <2>3, <2>4
<1> QED BY <1>4, <1>6

LEMMA EncodeExists == \E f : f = [t \in Shapes |-> EncodeBy(f, t)]
<1> DEFINE V == Data \cup {Bad}
           Height == [t \in Shapes |-> Rank(t)]
           Turned == [a \in [Shapes -> V] \X Shapes |->
                      IF EncodeBy(a[1], a[2]) \in V THEN EncodeBy(a[1], a[2]) ELSE Bad]
<1>1. Shrinks(Shapes, V, Height, Turned)
  <2>1. V # {} /\ Turned \in [[Shapes -> V] \X Shapes -> V]
        OBVIOUS
  <2>2. Height \in [Shapes -> Nat]
        BY PartsOfShapes
  <2>3. ASSUME NEW f \in [Shapes -> V], NEW g \in [Shapes -> V], NEW x \in Shapes,
               \A y \in Shapes : Height[y] < Height[x] => f[y] = g[y]
        PROVE  Turned[<<f, x>>] = Turned[<<g, x>>]
    <3>1. /\ \A i \in DOMAIN x.kids : f[x.kids[i]] = g[x.kids[i]]
          /\ \A i \in DOMAIN x.rest : f[x.rest[i]] = g[x.rest[i]]
          BY <2>3, PartsOfShapes
    <3>2. /\ [i \in DOMAIN x.kids |-> f[x.kids[i]]] = [i \in DOMAIN x.kids |-> g[x.kids[i]]]
          /\ [i \in DOMAIN x.rest |-> f[x.rest[i]]] = [i \in DOMAIN x.rest |-> g[x.rest[i]]]
          BY <3>1
    <3>3. EncodeBy(f, x) = EncodeBy(g, x)
          BY <3>2, Zenon DEF EncodeBy
    <3> QED BY <2>3, <3>3
  <2> HIDE DEF V, Height, Turned
  <2> QED BY <2>1, <2>2, <2>3 DEF Shrinks
<1>2. Solved(Shapes, V, Turned)
  <2> HIDE DEF V, Height, Turned
  <2> QED BY <1>1, Recursion
<1>3. PICK f \in [Shapes -> V] : f = [t \in Shapes |-> Turned[<<f, t>>]]
  <2> HIDE DEF V, Turned
  <2> QED BY <1>2 DEF Solved
<1>4. \A t \in Shapes : EncodeBy(f, t) \in V => f[t] = EncodeBy(f, t)
  <2> SUFFICES ASSUME NEW t \in Shapes, EncodeBy(f, t) \in V PROVE f[t] = EncodeBy(f, t)
      OBVIOUS
  <2>1. f[t] = Turned[<<f, t>>]
    <3> HIDE DEF Turned, V
    <3> QED BY <1>3
  <2> QED BY <2>1
<1>5. \A t \in Shapes : f[t] = EncodeBy(f, t)
  <2>1. Nesting \in Int /\ Nesting <= Nesting /\ Shapes = Nested[Nesting].shapes
        BY NestingCounts DEF Shapes
  <2> QED BY <1>4, <2>1, WrittenLevels
<1>6. f = [t \in Shapes |-> EncodeBy(f, t)]
      BY <1>3, <1>5
<1> QED BY <1>6

LEMMA EncodeEquation == \A t \in Shapes : Encode[t] = EncodeBy(Encode, t)
<1>1. Encode = [t \in Shapes |-> EncodeBy(Encode, t)]
      BY EncodeExists, Zenon DEF Encode, EncodeBy
<1> DEFINE g == Encode
<1> HIDE DEF g
<1>2. g = [t \in Shapes |-> EncodeBy(g, t)]
      BY <1>1 DEF g
<1>3. \A t \in Shapes : g[t] = EncodeBy(g, t)
      BY <1>2
<1> QED BY <1>3 DEF g

(* What is written of a shape has no more levels than the shape.           *)
LEMMA EncodeTyped ==
  ASSUME NEW n \in Int, n <= Nesting, NEW t \in Nested[n].shapes
  PROVE  Encode[t] \in Nested[n].data \cup {Bad}
BY EncodeEquation, WrittenLevels

-----------------------------------------------------------------------------
(* What is read of a datum has as many levels as the datum.                *)

LEMMA Classes ==
  /\ DOMAIN Fields =
       {"Any", "ExactExpr", "ExprKind", "Class", "Ref", "And", "Not", "List", "Table", "Or",
        "Defs", "Hooked", "Repeat"}
  /\ Fields["Any"] = 0 /\ Fields["ExactExpr"] = 1 /\ Fields["ExprKind"] = 1
  /\ Fields["Class"] = 1 /\ Fields["Ref"] = 1 /\ Fields["And"] = 1 /\ Fields["Not"] = 1
  /\ Fields["List"] = 2 /\ Fields["Table"] = 2 /\ Fields["Or"] = 2 /\ Fields["Defs"] = 2
  /\ Fields["Hooked"] = 2 /\ Fields["Repeat"] = 3
BY DEF Fields

LEMMA ProperArms ==
  ASSUME NEW a
  PROVE  /\ Proper("ExactExpr", a) <=> AsExpr(a[1]) # Bad
         /\ Proper("ExprKind", a) <=> NameIn(a[1], ExprKinds)
         /\ Proper("Class", a) <=> WordOf(a[1]) # None
         /\ Proper("Ref", a) <=> WordOf(a[1]) # None
         /\ Proper("And", a) <=> a[1].form = "list"
         /\ Proper("List", a) <=> a[1].form = "list"
         /\ Proper("Or", a) <=> a[1].form = "list" /\ NameIn(a[2], Strategies)
         /\ Proper("Repeat", a) <=> a[2].form = "number" /\ a[3].form \in {"nil", "number"}
         /\ Proper("Defs", a) <=> IsRows(a[2], 2)
         /\ Proper("Hooked", a) <=> a[2].form = "list"
         /\ Proper("Table", a) <=>
              /\ IsRows(a[1], 3) /\ IsPolicy(AsExpr(a[2]))
              /\ \A i \in DOMAIN a[1].items : a[1].items[i].items[2].form = "bool"
         /\ Proper("Any", a) /\ Proper("Not", a)
<1>1. Proper("ExactExpr", a) <=> AsExpr(a[1]) # Bad
      BY Zenon DEF Proper
<1>2. Proper("ExprKind", a) <=> NameIn(a[1], ExprKinds)
      BY Zenon DEF Proper
<1>3. Proper("Class", a) <=> WordOf(a[1]) # None
      BY Zenon DEF Proper
<1>4. Proper("Ref", a) <=> WordOf(a[1]) # None
      BY Zenon DEF Proper
<1>5. Proper("And", a) <=> a[1].form = "list"
      BY Zenon DEF Proper
<1>6. Proper("List", a) <=> a[1].form = "list"
      BY Zenon DEF Proper
<1>7. Proper("Or", a) <=> a[1].form = "list" /\ NameIn(a[2], Strategies)
      BY Zenon DEF Proper
<1>8. Proper("Repeat", a) <=> a[2].form = "number" /\ a[3].form \in {"nil", "number"}
      BY Zenon DEF Proper
<1>9. Proper("Defs", a) <=> IsRows(a[2], 2)
      BY Zenon DEF Proper
<1>10. Proper("Hooked", a) <=> a[2].form = "list"
       BY Zenon DEF Proper
<1>11. Proper("Table", a) <=>
         /\ IsRows(a[1], 3) /\ IsPolicy(AsExpr(a[2]))
         /\ \A i \in DOMAIN a[1].items : a[1].items[i].items[2].form = "bool"
       BY Zenon DEF Proper
<1>12. Proper("Any", a) /\ Proper("Not", a)
       BY Zenon DEF Proper
<1> QED BY <1>1, <1>2, <1>3, <1>4, <1>5, <1>6, <1>7, <1>8, <1>9, <1>10, <1>11, <1>12

Extra(d)  == IF AsExpr(d) = Nil THEN <<>> ELSE <<d>>
Policed(d) == IF AsExpr(d).form = "list" THEN <<AsExpr(d).items[2]>> ELSE <<>>

LEMMA InnerArms ==
  ASSUME NEW a
  PROVE  /\ Inner("And", a) = a[1].items
         /\ Inner("Or", a) = a[1].items
         /\ Inner("List", a) = a[1].items \o Extra(a[2])
         /\ Inner("Not", a) = <<a[1]>>
         /\ Inner("Repeat", a) = <<a[1]>>
         /\ Inner("Hooked", a) = <<a[1]>>
         /\ Inner("Defs", a) = <<a[1]>> \o RowShapes(a[2].items)
         /\ Inner("Table", a) = RowShapes(a[1].items) \o Policed(a[2])
         /\ \A class \in {"Any", "ExactExpr", "ExprKind", "Class", "Ref"} : Inner(class, a) = <<>>
<1>1. Inner("And", a) = a[1].items
      BY Zenon DEF Inner
<1>2. Inner("Or", a) = a[1].items
      BY Zenon DEF Inner
<1>3. Inner("List", a) = a[1].items \o Extra(a[2])
      BY Zenon DEF Inner, Extra
<1>4. Inner("Not", a) = <<a[1]>>
      BY Zenon DEF Inner
<1>5. Inner("Repeat", a) = <<a[1]>>
      BY Zenon DEF Inner
<1>6. Inner("Hooked", a) = <<a[1]>>
      BY Zenon DEF Inner
<1>7. Inner("Defs", a) = <<a[1]>> \o RowShapes(a[2].items)
      BY Zenon DEF Inner
<1>8. Inner("Table", a) = RowShapes(a[1].items) \o Policed(a[2])
      BY Zenon DEF Inner, Policed
<1>9. \A class \in {"Any", "ExactExpr", "ExprKind", "Class", "Ref"} : Inner(class, a) = <<>>
      BY Zenon DEF Inner
<1> QED BY <1>1, <1>2, <1>3, <1>4, <1>5, <1>6, <1>7, <1>8, <1>9

Among(a, shapes) == SubSeq(shapes, 1, Len(a[1].items))
After(a, shapes) == SubSeq(shapes, Len(a[1].items) + 1, Len(shapes))
Marks(items) == [i \in DOMAIN items |-> HookOf(items[i])]
TableMade(a, among, after) ==
  [TableTree(RowNames(a[1].items), among,
             IF after = <<>> THEN AsExpr(a[2]).word.name ELSE "shape") EXCEPT
     !.needed = [i \in DOMAIN among |-> a[1].items[i].items[2].num = 1], !.rest = after]

LEMMA MadeArms ==
  ASSUME NEW a, NEW shapes
  PROVE  /\ MadeOf("Any", a, shapes) = Leaf
         /\ MadeOf("ExactExpr", a, shapes) = NameTree("exact", AsExpr(a[1]))
         /\ MadeOf("ExprKind", a, shapes) = KindTree(WordOf(a[1]).name)
         /\ MadeOf("Class", a, shapes) = NameTree("class", WordOf(a[1]))
         /\ MadeOf("Ref", a, shapes) = NameTree("ref", WordOf(a[1]))
         /\ MadeOf("And", a, shapes) = Tree("and", shapes)
         /\ MadeOf("Or", a, shapes) = OrTree(shapes, WordOf(a[2]).name)
         /\ MadeOf("Not", a, shapes) = Tree("not", shapes)
         /\ MadeOf("List", a, shapes) = ListTree(Among(a, shapes), After(a, shapes))
         /\ MadeOf("Repeat", a, shapes) =
              RepeatTree(shapes[1], a[2].num, IF a[3] = Nil THEN None ELSE a[3].num)
         /\ MadeOf("Defs", a, shapes) = KeyedTree("defs", RowNames(a[2].items), shapes)
         /\ MadeOf("Hooked", a, shapes) =
              [Tree("hooked", shapes) EXCEPT !.marks = Marks(a[2].items)]
         /\ MadeOf("Table", a, shapes) = TableMade(a, Among(a, shapes), After(a, shapes))
<1>1. MadeOf("Any", a, shapes) = Leaf
      BY Zenon DEF MadeOf
<1>2. MadeOf("ExactExpr", a, shapes) = NameTree("exact", AsExpr(a[1]))
      BY Zenon DEF MadeOf
<1>3. MadeOf("ExprKind", a, shapes) = KindTree(WordOf(a[1]).name)
      BY Zenon DEF MadeOf
<1>4. MadeOf("Class", a, shapes) = NameTree("class", WordOf(a[1]))
      BY Zenon DEF MadeOf
<1>5. MadeOf("Ref", a, shapes) = NameTree("ref", WordOf(a[1]))
      BY Zenon DEF MadeOf
<1>6. MadeOf("And", a, shapes) = Tree("and", shapes)
      BY Zenon DEF MadeOf
<1>7. MadeOf("Or", a, shapes) = OrTree(shapes, WordOf(a[2]).name)
      BY Zenon DEF MadeOf
<1>8. MadeOf("Not", a, shapes) = Tree("not", shapes)
      BY Zenon DEF MadeOf
<1>9. MadeOf("List", a, shapes) = ListTree(Among(a, shapes), After(a, shapes))
      BY Zenon DEF MadeOf, Among, After
<1>10. MadeOf("Repeat", a, shapes) =
         RepeatTree(shapes[1], a[2].num, IF a[3] = Nil THEN None ELSE a[3].num)
       BY Zenon DEF MadeOf
<1>11. MadeOf("Defs", a, shapes) = KeyedTree("defs", RowNames(a[2].items), shapes)
       BY Zenon DEF MadeOf
<1>12. MadeOf("Hooked", a, shapes) = [Tree("hooked", shapes) EXCEPT !.marks = Marks(a[2].items)]
       BY Zenon DEF MadeOf, Marks
<1>13. MadeOf("Table", a, shapes) = TableMade(a, Among(a, shapes), After(a, shapes))
       BY Zenon DEF MadeOf, Among, After, TableMade
<1> QED BY <1>1, <1>2, <1>3, <1>4, <1>5, <1>6, <1>7, <1>8, <1>9, <1>10, <1>11, <1>12, <1>13

(* Datum d of n levels.                                                    *)
LEMMA DatumTyped ==
  ASSUME NEW n \in Int, NEW d \in Nested[n].data
  PROVE  /\ n > 0 /\ n - 1 \in Int /\ d.form \in Forms
         /\ d.items \in Seq(Nested[n - 1].data) /\ d.num \in Nat
         /\ d.form \in {"symbol", "text"} => d.word \in Words
         /\ d.form \in {"shape", "foreign"} => d.shape \in Nested[n - 1].shapes
         /\ d.form = "hook" => d.items = <<>> \/ (Len(d.items) = 1 /\ IsHook(d.items[1]))
         /\ d # Bad
<1>1. n > 0 /\ d \in DataOf(Nested[n - 1])
      BY NestedDatum
<1>2. /\ d.form \in Forms /\ d.items \in Seq(Nested[n - 1].data) /\ d.num \in Nat
      /\ d.form \in {"symbol", "text"} => d.word \in Words
      /\ d.form \in {"shape", "foreign"} => d.shape \in Nested[n - 1].shapes
      /\ d.form = "hook" => d.items = <<>> \/ (Len(d.items) = 1 /\ IsHook(d.items[1]))
      BY <1>1 DEF DataOf
<1>3. d # Bad
      BY BadOutside
<1> QED BY <1>1, <1>2, <1>3

(* Whatever is written of a shape is a call.                               *)
LEMMA WrittenForm ==
  ASSUME NEW t, NEW kids, NEW rest, WrittenAs(t, kids, rest) # Bad
  PROVE  WrittenAs(t, kids, rest).form = "call"
<1>1. \E class, fields : WrittenAs(t, kids, rest) = Make(class, fields)
  <2>1. CASE t.kind = "any"
        BY <2>1, Zenon DEF WrittenAs
  <2>2. CASE t.kind = "exact"
        BY <2>2, Zenon DEF WrittenAs
  <2>3. CASE t.kind = "exprKind"
        BY <2>3, Zenon DEF WrittenAs
  <2>4. CASE t.kind = "class"
        BY <2>4, Zenon DEF WrittenAs
  <2>5. CASE t.kind = "ref"
        BY <2>5, Zenon DEF WrittenAs
  <2>6. CASE t.kind = "list"
        BY <2>6, Zenon DEF WrittenAs
  <2>7. CASE t.kind = "table"
        BY <2>7, Zenon DEF WrittenAs
  <2>8. CASE t.kind = "or"
        BY <2>8, Zenon DEF WrittenAs
  <2>9. CASE t.kind = "and"
        BY <2>9, Zenon DEF WrittenAs
  <2>10. CASE t.kind = "not"
         BY <2>10, Zenon DEF WrittenAs
  <2>11. CASE t.kind = "repeat"
         BY <2>11, Zenon DEF WrittenAs
  <2>12. CASE t.kind = "defs"
         BY <2>12, Zenon DEF WrittenAs
  <2>13. CASE t.kind = "hooked"
         BY <2>13, Zenon DEF WrittenAs
  <2>14. CASE t.kind \notin {"any", "exact", "exprKind", "class", "ref", "list", "table", "or",
                          "and",
                             "not", "repeat", "defs", "hooked"}
    <3>1. WrittenAs(t, kids, rest) = Bad
          BY <2>14, Zenon DEF WrittenAs
    <3> QED BY <3>1
  <2> QED BY <2>1, <2>2, <2>3, <2>4, <2>5, <2>6, <2>7, <2>8, <2>9, <2>10, <2>11, <2>12, <2>13, <2>14
<1>2. PICK class, fields : WrittenAs(t, kids, rest) = Make(class, fields)
      BY <1>1
<1>3. WrittenAs(t, kids, rest) =
        Group("call", <<Symbol(Word("shape", class)), Symbol(Word("", "v1"))>> \o fields)
      BY <1>2, CallMade
<1> QED BY <1>3 DEF Group, Nil

LEMMA EncodeForm ==
  ASSUME NEW t \in Shapes
  PROVE  Encode[t] = Bad \/ Encode[t].form = "call"
<1> DEFINE kids == [i \in DOMAIN t.kids |-> Encode[t.kids[i]]]
           rest == [i \in DOMAIN t.rest |-> Encode[t.rest[i]]]
<1>1. Encode[t] = WrittenAs(t, kids, rest)
      BY EncodeEquation, Zenon DEF EncodeBy
<1> HIDE DEF kids, rest
<1> QED BY <1>1, WrittenForm

LEMMA AsExprTyped ==
  ASSUME NEW n \in Int, n <= Nesting, NEW d \in Nested[n].data
  PROVE  /\ AsExpr(d) \in Nested[n].data \cup {Bad} /\ AsExpr(d).form # "shape"
         /\ d.form # "shape" => AsExpr(d) = d
         /\ d.form = "shape" => AsExpr(d).form \in {"symbol", "call", "bad"}
<1>1. n > 0 /\ n - 1 \in Int /\ (d.form = "shape" => d.shape \in Nested[n - 1].shapes)
          /\ n - 1 <= Nesting
      BY DatumTyped, NestingCounts
<1>2. CASE d.form # "shape"
  <2>1. AsExpr(d) = d
        BY <1>2, Zenon DEF AsExpr
  <2> QED BY <1>2, <2>1
<1>3. CASE d.form = "shape" /\ d.shape.kind = "named"
  <2>1. AsExpr(d) = Symbol(d.shape.name)
        BY <1>3, Zenon DEF AsExpr
  <2>2. WellMade(d.shape)
        BY <1>1, <1>3, ShapeTyped
  <2>3. d.shape.name \in Words
        BY <1>3, <2>2 DEF WellMade
  <2>4. Symbol(d.shape.name) \in Nested[n].data
        BY <1>1, <2>3, AtomTyped
  <2>5. Symbol(d.shape.name).form = "symbol"
        BY DEF Symbol, Nil
  <2> QED BY <1>3, <2>1, <2>4, <2>5
<1>4. CASE d.form = "shape" /\ d.shape.kind # "named"
  <2>1. AsExpr(d) = Encode[d.shape]
        BY <1>4, Zenon DEF AsExpr
  <2>2. Encode[d.shape] \in Nested[n - 1].data \cup {Bad}
        BY <1>1, <1>4, EncodeTyped
  <2>3. Nested[n - 1].data \subseteq Nested[n].data
        BY <1>1, Deeper
  <2>4. Encode[d.shape] = Bad \/ Encode[d.shape].form = "call"
        BY <1>1, <1>4, ShapeIsShape, EncodeForm
  <2>5. Bad.form = "bad"
        BY DEF Bad, Nil
  <2> QED BY <1>4, <2>1, <2>2, <2>3, <2>4, <2>5
<1> QED BY <1>2, <1>3, <1>4

LEMMA WordOfTyped ==
  ASSUME NEW n \in Int, n <= Nesting, NEW d \in Nested[n].data
  PROVE  WordOf(d) \in Words \cup {None}
<1>1. CASE AsExpr(d).form = "symbol"
  <2>1. WordOf(d) = AsExpr(d).word
    <3>1. d.form # "text"
          BY <1>1, AsExprTyped
    <3> QED BY <1>1, <3>1, Zenon DEF WordOf
  <2>2. AsExpr(d) # Bad
        BY <1>1 DEF Bad, Nil
  <2> QED BY <1>1, <2>1, <2>2, AsExprTyped, DatumTyped
<1>2. CASE AsExpr(d).form # "symbol" /\ d.form = "text"
  <2>1. WordOf(d) = Word("", d.word.name)
        BY <1>2, Zenon DEF WordOf
  <2>2. d.word \in Words
        BY <1>2, DatumTyped
  <2>3. d.word.name \in Spelling
        BY <2>2 DEF Words
  <2> QED BY <2>1, <2>3, WordsSpelt
<1>3. CASE AsExpr(d).form # "symbol" /\ d.form # "text"
  <2>1. WordOf(d) = None
        BY <1>3, Zenon DEF WordOf
  <2> QED BY <2>1
<1> QED BY <1>1, <1>2, <1>3

LEMMA DatumOfTyped ==
  ASSUME NEW n \in Int, n <= Nesting, NEW d \in Nested[n].data
  PROVE  Datum(d) \in Nested[n].data \cup {Bad}
<1>1. n > 0 /\ n - 1 \in Int /\ (d.form = "foreign" => d.shape \in Nested[n - 1].shapes)
          /\ n - 1 <= Nesting
      BY DatumTyped, NestingCounts
<1>2. Nested[n - 1].data \subseteq Nested[n].data
      BY <1>1, Deeper
<1>3. d.form = "foreign" => Encode[d.shape] \in Nested[n - 1].data \cup {Bad}
      BY <1>1, EncodeTyped
<1> QED BY <1>2, <1>3 DEF Datum

(* The fields of what constructs a shape.                                  *)
LEMMA FieldsTyped ==
  ASSUME NEW n \in Int, NEW c \in Nested[n].data \cup {Bad}, Constructs(c)
  PROVE  /\ c \in Nested[n].data /\ c.form \in {"call", "list"} /\ n > 1
         /\ ClassOf(c) \in DOMAIN Fields /\ Proper(ClassOf(c), FieldsOf(c))
         /\ FieldsOf(c) \in Seq(Nested[n - 1].data) /\ Len(FieldsOf(c)) = Fields[ClassOf(c)]
<1>1. /\ IsMake(c) /\ ClassOf(c) \in DOMAIN Fields /\ Versioned(Tail(c.items), Fields[ClassOf(c)])
      /\ Proper(ClassOf(c), FieldsOf(c))
      BY DEF Constructs
<1>2. c.form \in {"call", "list"} /\ c.items # <<>>
      BY <1>1 DEF IsMake
<1>3. c \in Nested[n].data
      BY <1>2 DEF Bad, Nil
<1>4. c.items \in Seq(Nested[n - 1].data) /\ n - 1 \in Int
      BY <1>3, DatumTyped
<1>5. Len(Tail(c.items)) = Fields[ClassOf(c)] + 1
      BY <1>1 DEF Versioned
<1>6. Fields[ClassOf(c)] \in Nat
      BY <1>1, Classes
<1> DEFINE S == Nested[n - 1].data
           args == Tail(c.items)
<1>7. args \in Seq(S)
      BY <1>2, <1>4, HeadTailProperties
<1> DEFINE k == Fields[ClassOf(c)]
<1>8. Len(args) = k + 1 /\ args # <<>> /\ k \in Nat
  <2>1. Len(args) = k + 1 /\ k \in Nat
        BY <1>5, <1>6
  <2> HIDE DEF args, k
  <2> QED BY <2>1
<1>9. Tail(args) \in Seq(S) /\ Len(Tail(args)) = Fields[ClassOf(c)]
  <2> HIDE DEF S, args
  <2>1. Tail(args) \in Seq(S) /\ Len(Tail(args)) = Len(args) - 1
        BY <1>7, <1>8, HeadTailProperties
  <2>2. Len(Tail(args)) = k
    <3> HIDE DEF k
    <3> QED BY <1>8, <2>1
  <2> QED BY <2>1, <2>2
<1>10. n > 1
  <2>1. c.items[1] \in Nested[n - 1].data
        BY <1>2, <1>4
  <2>2. n - 1 > 0
        BY <1>4, <2>1, DatumTyped
  <2> QED BY <2>2
<1> QED BY <1>1, <1>2, <1>3, <1>9, <1>10 DEF FieldsOf

(* A list of rows: their names, and what comes last in each of them.       *)
LEMMA RowsTyped ==
  ASSUME NEW n \in Int, n <= Nesting, NEW d \in Nested[n].data, NEW k \in {2, 3}, IsRows(d, k)
  PROVE  /\ d.form = "list" /\ Len(d.items) \in Nat /\ DOMAIN d.items = 1..Len(d.items)
         /\ RowNames(d.items) \in Seq(Words) /\ Len(RowNames(d.items)) = Len(d.items)
         /\ RowShapes(d.items) \in Seq(Nested[n - 2].data)
         /\ Len(RowShapes(d.items)) = Len(d.items)
         /\ \A i \in DOMAIN d.items :
              d.items[i].items \in Seq(Nested[n - 2].data) /\ Len(d.items[i].items) = k
<1> DEFINE rows == d.items
<1>1. n - 1 \in Int /\ n - 2 \in Int /\ (n - 1) - 1 = n - 2 /\ n - 2 <= Nesting
          /\ rows \in Seq(Nested[n - 1].data)
      BY DatumTyped, NestingCounts
<1>2. /\ d.form = "list"
      /\ \A i \in DOMAIN rows :
           rows[i].form = "list" /\ Len(rows[i].items) = k /\ WordOf(rows[i].items[1]) # None
      BY Zenon DEF IsRows
<1>3. ASSUME NEW i \in DOMAIN rows
      PROVE  /\ rows[i].items \in Seq(Nested[n - 2].data) /\ Len(rows[i].items) = k
             /\ WordOf(rows[i].items[1]) \in Words
             /\ rows[i].items[Len(rows[i].items)] \in Nested[n - 2].data
  <2>1. rows[i] \in Nested[n - 1].data
        BY <1>1, <1>3
  <2>2. rows[i].items \in Seq(Nested[n - 2].data) /\ Len(rows[i].items) = k
        BY <1>1, <1>2, <1>3, <2>1, DatumTyped
  <2>3. rows[i].items[1] \in Nested[n - 2].data /\ rows[i].items[k] \in Nested[n - 2].data
        BY <2>2
  <2>4. WordOf(rows[i].items[1]) \in Words \cup {None}
        BY <1>1, <2>3, WordOfTyped
  <2> QED BY <1>2, <1>3, <2>2, <2>3, <2>4
<1>4. Len(rows) \in Nat /\ DOMAIN rows = 1..Len(rows)
      BY <1>1
<1> HIDE DEF rows
<1>5. RowNames(rows) \in Seq(Words) /\ Len(RowNames(rows)) = Len(rows)
      BY <1>3, <1>4 DEF RowNames
<1>6. RowShapes(rows) \in Seq(Nested[n - 2].data) /\ Len(RowShapes(rows)) = Len(rows)
      BY <1>3, <1>4 DEF RowShapes
<1> QED BY <1>2, <1>3, <1>4, <1>5, <1>6 DEF rows

(* The levels that the ith of what is read as a shape is below the whole.  *)
Below(class, a, i) ==
  IF class = "Table" THEN IF i <= Len(a[1].items) THEN 3 ELSE 2
  ELSE IF class = "Defs" /\ i > 1 THEN 3
  ELSE IF class \in {"And", "Or"} \/ (class = "List" /\ i <= Len(a[1].items)) THEN 2 ELSE 1

TakesFields(n, class, a) ==
  /\ n \in Int /\ n > 1 /\ n <= Nesting /\ class \in DOMAIN Fields
  /\ a \in Seq(Nested[n - 1].data) /\ Len(a) = Fields[class] /\ Proper(class, a)

LEMMA ReadsTyped ==
  ASSUME NEW n, NEW class, NEW a, TakesFields(n, class, a)
  PROVE  /\ n \in Int /\ n > 1 /\ n - 1 \in Int /\ n - 2 \in Int /\ n - 3 \in Int /\ n - 1 > 0
         /\ (n - 1) - 1 = n - 2 /\ (n - 1) - 2 = n - 3 /\ (n - 2) - 1 = n - 3
         /\ n - 1 <= Nesting /\ n - 2 <= Nesting
         /\ class \notin {"Any"} => a[1] \in Nested[n - 1].data
         /\ class \in {"List", "Table", "Or", "Defs", "Hooked", "Repeat"} =>
                a[2] \in Nested[n - 1].data
         /\ class = "Repeat" => a[3] \in Nested[n - 1].data
         /\ Nested[n - 2].data \subseteq Nested[n - 1].data
                /\ Nested[n - 3].data \subseteq Nested[n - 1].data
         /\ Nested[n - 2].shapes \subseteq Nested[n - 1].shapes
         /\ Nested[n - 3].shapes \subseteq Nested[n - 1].shapes
<1>1. /\ n \in Int /\ n > 1 /\ n <= Nesting /\ class \in DOMAIN Fields
      /\ a \in Seq(Nested[n - 1].data) /\ Len(a) = Fields[class]
      BY DEF TakesFields
<1>2. /\ n - 1 \in Int /\ n - 2 \in Int /\ n - 3 \in Int /\ n - 1 > 0
      /\ (n - 1) - 1 = n - 2 /\ (n - 1) - 2 = n - 3 /\ (n - 2) - 1 = n - 3
      /\ n - 1 <= Nesting /\ n - 2 <= Nesting /\ n - 2 <= n - 1 /\ n - 3 <= n - 1
      BY <1>1, NestingCounts
<1>3. /\ class # "Any" => Len(a) >= 1
      /\ class \in {"List", "Table", "Or", "Defs", "Hooked", "Repeat"} => Len(a) >= 2
      /\ class = "Repeat" => Len(a) >= 3
      BY <1>1, Classes
<1>4. /\ class \notin {"Any"} => a[1] \in Nested[n - 1].data
      /\ class \in {"List", "Table", "Or", "Defs", "Hooked", "Repeat"} =>
             a[2] \in Nested[n - 1].data
      /\ class = "Repeat" => a[3] \in Nested[n - 1].data
  <2> DEFINE S == Nested[n - 1].data
  <2>1. a \in Seq(S)
        BY <1>1
  <2> HIDE DEF S
  <2>2. /\ Len(a) >= 1 => a[1] \in S
        /\ Len(a) >= 2 => a[2] \in S
        /\ Len(a) >= 3 => a[3] \in S
        BY <2>1
  <2> QED BY <1>3, <2>2 DEF S
<1>5. /\ Nested[n - 2].data \subseteq Nested[n - 1].data
             /\ Nested[n - 3].data \subseteq Nested[n - 1].data
      /\ Nested[n - 2].shapes \subseteq Nested[n - 1].shapes
      /\ Nested[n - 3].shapes \subseteq Nested[n - 1].shapes
      BY <1>2, Deeper
<1> QED BY <1>1, <1>2, <1>4, <1>5

(* The elements of a list that a shape is made of.                         *)
LEMMA ElementsTyped ==
  ASSUME NEW n, NEW class, NEW a, TakesFields(n, class, a), class \in {"And", "Or", "List"}
  PROVE  /\ a[1].items \in Seq(Nested[n - 2].data)
         /\ Len(a[1].items) \in Nat /\ DOMAIN a[1].items = 1..Len(a[1].items)
<1>1. a[1] \in Nested[n - 1].data /\ n - 1 \in Int /\ (n - 1) - 1 = n - 2
      BY ReadsTyped
<1>2. a[1].items \in Seq(Nested[n - 2].data)
      BY <1>1, DatumTyped
<1> QED BY <1>2

LEMMA ExtraTyped ==
  ASSUME NEW n \in Int, n <= Nesting, NEW d \in Nested[n].data
  PROVE  /\ Extra(d) \in Seq(Nested[n].data) /\ Len(Extra(d)) \in {0, 1}
         /\ IsPolicy(AsExpr(d)) => Policed(d) \in Seq(Nested[n - 1].data)
                /\ Len(Policed(d)) \in {0, 1}
<1>1. Extra(d) \in Seq(Nested[n].data) /\ Len(Extra(d)) \in {0, 1}
  <2>1. CASE AsExpr(d) = Nil
        BY <2>1, NoneOf DEF Extra
  <2>2. CASE AsExpr(d) # Nil
        BY <2>2, OneOf DEF Extra
  <2> QED BY <2>1, <2>2
<1>2. ASSUME AsExpr(d).form = "list", IsPolicy(AsExpr(d))
      PROVE  AsExpr(d).items[2] \in Nested[n - 1].data
  <2>1. AsExpr(d) \in Nested[n].data
    <3>1. Bad.form # "list"
          BY DEF Bad, Nil
    <3> QED BY <1>2, <3>1, AsExprTyped
  <2>2. AsExpr(d).items \in Seq(Nested[n - 1].data) /\ n - 1 \in Int
        BY <2>1, DatumTyped
  <2>3. Len(AsExpr(d).items) = 2
        BY <1>2, Zenon DEF IsPolicy
  <2> QED BY <2>2, <2>3
<1>3. IsPolicy(AsExpr(d)) => Policed(d) \in Seq(Nested[n - 1].data) /\ Len(Policed(d)) \in {0, 1}
  <2>1. CASE AsExpr(d).form # "list"
        BY <2>1, NoneOf DEF Policed
  <2>2. CASE AsExpr(d).form = "list"
        BY <1>2, <2>2, OneOf DEF Policed
  <2> QED BY <2>1, <2>2
<1> QED BY <1>1, <1>3

LEMMA InnerTyped ==
  ASSUME NEW n, NEW class, NEW a, TakesFields(n, class, a)
  PROVE  /\ Inner(class, a) \in Seq(Nested[n - 1].data)
         /\ \A i \in DOMAIN Inner(class, a) :
              Inner(class, a)[i] \in Nested[n - Below(class, a, i)].data
<1> DEFINE S == Nested[n - 1].data
           Good == /\ Inner(class, a) \in Seq(S)
                   /\ \A i \in DOMAIN Inner(class, a) :
                        Inner(class, a)[i] \in Nested[n - Below(class, a, i)].data
<1> SUFFICES Good
    OBVIOUS
<1>1. /\ n \in Int /\ n > 1 /\ n - 1 \in Int /\ n - 2 \in Int /\ n - 3 \in Int /\ n - 1 > 0
      /\ (n - 1) - 1 = n - 2 /\ (n - 1) - 2 = n - 3 /\ (n - 2) - 1 = n - 3
      /\ n - 1 <= Nesting /\ n - 2 <= Nesting
      /\ class \notin {"Any"} => a[1] \in Nested[n - 1].data
      /\ class \in {"List", "Table", "Or", "Defs", "Hooked", "Repeat"} =>
             a[2] \in Nested[n - 1].data
      /\ Nested[n - 2].data \subseteq Nested[n - 1].data
             /\ Nested[n - 3].data \subseteq Nested[n - 1].data
      BY ReadsTyped
<1>2. Proper(class, a) /\ class \in DOMAIN Fields
      BY DEF TakesFields
<1>3. CASE class \in {"Any", "ExactExpr", "ExprKind", "Class", "Ref"}
  <2>1. Inner(class, a) = <<>>
        BY <1>3, InnerArms
  <2> QED BY <2>1
<1>4. CASE class \in {"And", "Or"}
  <2>1. Inner(class, a) = a[1].items
        BY <1>4, InnerArms
  <2>2. a[1].items \in Seq(Nested[n - 2].data)
        BY <1>4, ElementsTyped
  <2>3. \A i : Below(class, a, i) = 2
        BY <1>4 DEF Below
  <2>4. \A i \in DOMAIN a[1].items : a[1].items[i] \in Nested[n - 2].data
        BY <2>2
  <2>5. a[1].items \in Seq(S)
        BY <1>1, <2>2, SeqMonotonic
  <2> QED BY <2>1, <2>3, <2>4, <2>5
<1>5. CASE class = "List"
  <2> DEFINE items == a[1].items
             tail == Extra(a[2])
  <2>1. Inner(class, a) = items \o tail
        BY <1>5, InnerArms
  <2>2. items \in Seq(Nested[n - 2].data) /\ Len(items) \in Nat
        BY <1>5, ElementsTyped
  <2>3. items \in Seq(S)
        BY <1>1, <2>2, SeqMonotonic
  <2>4. tail \in Seq(S)
        BY <1>1, <1>5, ExtraTyped
  <2>5. \A i : Below(class, a, i) = IF i <= Len(items) THEN 2 ELSE 1
        BY <1>5 DEF Below
  <2> HIDE DEF items, tail, S
  <2>6. /\ items \o tail \in Seq(S) /\ Len(items \o tail) = Len(items) + Len(tail)
        /\ \A i \in 1 .. Len(items) + Len(tail) :
             (items \o tail)[i] = IF i <= Len(items) THEN items[i] ELSE tail[i - Len(items)]
        BY <2>3, <2>4, ConcatProperties
  <2>7. DOMAIN (items \o tail) = 1 .. Len(items) + Len(tail) /\ Len(tail) \in Nat
        BY <2>4, <2>6
  <2>8. ASSUME NEW i \in DOMAIN (items \o tail)
        PROVE  (items \o tail)[i] \in Nested[n - Below(class, a, i)].data
    <3>1. CASE i <= Len(items)
      <4>1. (items \o tail)[i] = items[i] /\ i \in 1..Len(items)
            BY <2>2, <2>6, <2>7, <2>8, <3>1
      <4>2. items[i] \in Nested[n - 2].data /\ Below(class, a, i) = 2
            BY <2>2, <2>5, <3>1, <4>1
      <4> QED BY <4>1, <4>2
    <3>2. CASE ~(i <= Len(items))
      <4>1. (items \o tail)[i] = tail[i - Len(items)] /\ i - Len(items) \in 1..Len(tail)
            BY <2>2, <2>6, <2>7, <2>8, <3>2
      <4>2. tail[i - Len(items)] \in S /\ Below(class, a, i) = 1
            BY <2>4, <2>5, <3>2, <4>1
      <4> QED BY <4>1, <4>2 DEF S
    <3> QED BY <3>1, <3>2
  <2> QED BY <2>1, <2>6, <2>8
<1>6. CASE class \in {"Not", "Repeat", "Hooked"}
  <2>1. Inner(class, a) = <<a[1]>>
        BY <1>6, InnerArms
  <2>2. \A i : Below(class, a, i) = 1
        BY <1>6 DEF Below
  <2>3. a[1] \in Nested[n - 1].data
        BY <1>1, <1>6
  <2>4. <<a[1]>> \in Seq(S) /\ DOMAIN <<a[1]>> = {1} /\ <<a[1]>>[1] = a[1]
        BY <2>3, OneOf
  <2> QED BY <2>1, <2>2, <2>3, <2>4
<1>7. CASE class = "Defs"
  <2> DEFINE rows == RowShapes(a[2].items)
  <2>1. Inner(class, a) = <<a[1]>> \o rows
        BY <1>7, InnerArms
  <2>2. rows \in Seq(Nested[n - 3].data)
    <3>1. IsRows(a[2], 2)
          BY <1>2, <1>7, ProperArms
    <3>2. a[2] \in Nested[n - 1].data /\ 2 \in {2, 3}
          BY <1>1, <1>7
    <3> QED BY <1>1, <3>1, <3>2, RowsTyped
  <2>3. a[1] \in S
        BY <1>1, <1>7
  <2>4. <<a[1]>> \in Seq(S) /\ Len(<<a[1]>>) = 1 /\ <<a[1]>>[1] = a[1]
        BY <2>3, OneOf
  <2>5. rows \in Seq(S)
        BY <1>1, <2>2, SeqMonotonic
  <2>6. \A i : Below(class, a, i) = IF i > 1 THEN 3 ELSE 1
        BY <1>7 DEF Below
  <2> DEFINE one == <<a[1]>>
  <2> HIDE DEF rows, S, one
  <2>7. /\ one \o rows \in Seq(S) /\ Len(one \o rows) = Len(one) + Len(rows)
        /\ \A i \in 1 .. Len(one) + Len(rows) :
             (one \o rows)[i] = IF i <= Len(one) THEN one[i] ELSE rows[i - Len(one)]
        BY <2>4, <2>5, ConcatProperties DEF one
  <2>8. DOMAIN (one \o rows) = 1 .. 1 + Len(rows) /\ Len(rows) \in Nat /\ Len(one) = 1
            /\ one[1] = a[1]
        BY <2>4, <2>5, <2>7 DEF one
  <2>9. ASSUME NEW i \in DOMAIN (one \o rows)
        PROVE  (one \o rows)[i] \in Nested[n - Below(class, a, i)].data
    <3>1. CASE i <= 1
      <4>1. (one \o rows)[i] = a[1] /\ Below(class, a, i) = 1
            BY <2>6, <2>7, <2>8, <2>9, <3>1
      <4> QED BY <2>3, <4>1 DEF S
    <3>2. CASE ~(i <= 1)
      <4>1. (one \o rows)[i] = rows[i - 1] /\ i - 1 \in 1..Len(rows)
            BY <2>7, <2>8, <2>9, <3>2
      <4>2. rows[i - 1] \in Nested[n - 3].data /\ Below(class, a, i) = 3
            BY <2>2, <2>6, <2>8, <2>9, <3>2, <4>1
      <4> QED BY <4>1, <4>2
    <3> QED BY <3>1, <3>2
  <2> QED BY <2>1, <2>7, <2>9 DEF one
<1>8. CASE class = "Table"
  <2> DEFINE rows == RowShapes(a[1].items)
             tail == Policed(a[2])
  <2>1. Inner(class, a) = rows \o tail
        BY <1>8, InnerArms
  <2>2. rows \in Seq(Nested[n - 3].data) /\ Len(rows) = Len(a[1].items)
    <3>1. IsRows(a[1], 3)
          BY <1>2, <1>8, ProperArms
    <3>2. a[1] \in Nested[n - 1].data /\ 3 \in {2, 3}
          BY <1>1, <1>8
    <3> QED BY <1>1, <3>1, <3>2, RowsTyped
  <2>3. rows \in Seq(S)
        BY <1>1, <2>2, SeqMonotonic
  <2>4. tail \in Seq(Nested[n - 2].data)
    <3>1. IsPolicy(AsExpr(a[2])) /\ a[2] \in Nested[n - 1].data
          BY <1>1, <1>2, <1>8, ProperArms
    <3> QED BY <1>1, <3>1, ExtraTyped
  <2>5. tail \in Seq(S)
        BY <1>1, <2>4, SeqMonotonic
  <2>6. \A i : Below(class, a, i) = IF i <= Len(rows) THEN 3 ELSE 2
        BY <1>8, <2>2 DEF Below
  <2> HIDE DEF rows, tail, S
  <2>7. /\ rows \o tail \in Seq(S) /\ Len(rows \o tail) = Len(rows) + Len(tail)
        /\ \A i \in 1 .. Len(rows) + Len(tail) :
             (rows \o tail)[i] = IF i <= Len(rows) THEN rows[i] ELSE tail[i - Len(rows)]
        BY <2>3, <2>5, ConcatProperties
  <2>8. DOMAIN (rows \o tail) = 1 .. Len(rows) + Len(tail) /\ Len(tail) \in Nat /\ Len(rows) \in Nat
        BY <2>3, <2>5, <2>7
  <2>9. ASSUME NEW i \in DOMAIN (rows \o tail)
        PROVE  (rows \o tail)[i] \in Nested[n - Below(class, a, i)].data
    <3>1. CASE i <= Len(rows)
      <4>1. (rows \o tail)[i] = rows[i] /\ i \in 1..Len(rows)
            BY <2>7, <2>8, <2>9, <3>1
      <4>2. rows[i] \in Nested[n - 3].data /\ Below(class, a, i) = 3
            BY <2>2, <2>6, <3>1, <4>1
      <4> QED BY <4>1, <4>2
    <3>2. CASE ~(i <= Len(rows))
      <4>1. (rows \o tail)[i] = tail[i - Len(rows)] /\ i - Len(rows) \in 1..Len(tail)
            BY <2>7, <2>8, <2>9, <3>2
      <4>2. tail[i - Len(rows)] \in Nested[n - 2].data /\ Below(class, a, i) = 2
            BY <2>4, <2>6, <3>2, <4>1
      <4> QED BY <4>1, <4>2
    <3> QED BY <3>1, <3>2
  <2> QED BY <2>1, <2>7, <2>9
<1> QED BY <1>2, <1>3, <1>4, <1>5, <1>6, <1>7, <1>8, Classes

LEMMA SymbolRead ==
  ASSUME NEW w
  PROVE  /\ Symbol(w).form = "symbol" /\ Symbol(w).word = w /\ Symbol(w) # Bad /\ Symbol(w) # Nil
         /\ AsExpr(Symbol(w)) = Symbol(w) /\ WordOf(Symbol(w)) = w
<1>1. Symbol(w).form = "symbol" /\ Symbol(w).word = w
      BY DEF Symbol, Nil
<1>2. Symbol(w) # Bad /\ Symbol(w) # Nil
      BY <1>1 DEF Bad, Nil
<1>3. Symbol(w).form # "shape" /\ Symbol(w).form # "text"
      BY <1>1
<1>4. AsExpr(Symbol(w)) = Symbol(w)
      BY <1>3, Zenon DEF AsExpr
<1>5. WordOf(Symbol(w)) = Symbol(w).word
      BY <1>1, <1>3, <1>4, Zenon DEF WordOf
<1> QED BY <1>1, <1>2, <1>4, <1>5

(* A constructor expression taken apart.                                   *)
LEMMA CallParts ==
  ASSUME NEW class, NEW S, NEW fields \in Seq(S), NEW c, c = Make(class, fields), c # Bad
  PROVE  /\ c.form = "call" /\ Len(c.items) = Len(fields) + 2
         /\ \A i \in DOMAIN fields : c.items[i + 2] = fields[i]
         /\ ClassOf(c) = class /\ FieldsOf(c) = fields
         /\ IsMake(c) /\ Head(c.items).word = Word("shape", class)
         /\ Versioned(Tail(c.items), Len(fields))
<1> DEFINE s1 == Symbol(Word("shape", class))
           s2 == Symbol(Word("", "v1"))
           head == <<s1, s2>>
           T == S \cup {s1, s2}
<1>1. c.form = "call" /\ c.items = head \o fields
  <2>1. c = Group("call", head \o fields)
        BY CallMade
  <2> QED BY <2>1 DEF Group, Nil
<1>2. /\ s1.form = "symbol" /\ s1.word = Word("shape", class)
      /\ WordOf(s2) = Word("", "v1")
      BY SymbolRead
<1>3. fields \in Seq(T)
      BY SeqMonotonic
<1> HIDE DEF s1, s2
<1>4. head \in Seq(T) /\ Len(head) = 2 /\ head[1] = s1 /\ head[2] = s2
      OBVIOUS
<1> HIDE DEF head, T
<1>5. /\ c.items \in Seq(T) /\ Len(c.items) = 2 + Len(fields)
      /\ \A i \in 1 .. 2 + Len(fields) :
           c.items[i] = IF i <= 2 THEN head[i] ELSE fields[i - 2]
  <2>1. /\ head \o fields \in Seq(T) /\ Len(head \o fields) = Len(head) + Len(fields)
        /\ \A i \in 1 .. Len(head) + Len(fields) :
             (head \o fields)[i] = IF i <= Len(head) THEN head[i] ELSE fields[i - Len(head)]
        BY <1>3, <1>4, ConcatProperties
  <2> QED BY <1>1, <1>4, <2>1
<1>6. Len(fields) \in Nat /\ DOMAIN fields = 1..Len(fields)
      OBVIOUS
<1>7. c.items[1] = s1 /\ c.items[2] = s2 /\ \A i \in DOMAIN fields : c.items[i + 2] = fields[i]
  <2>1. 1 \in 1 .. 2 + Len(fields) /\ 2 \in 1 .. 2 + Len(fields)
        BY <1>6
  <2>2. c.items[1] = head[1] /\ c.items[2] = head[2]
        BY <1>5, <2>1
  <2>3. ASSUME NEW i \in DOMAIN fields PROVE c.items[i + 2] = fields[i]
    <3>1. i + 2 \in 1 .. 2 + Len(fields) /\ ~(i + 2 <= 2) /\ (i + 2) - 2 = i
          BY <1>6, <2>3
    <3> QED BY <1>5, <3>1
  <2> QED BY <1>4, <2>2, <2>3
<1>8. c.items # <<>>
      BY <1>5, <1>6
<1> DEFINE args == Tail(c.items)
<1>9. /\ args \in Seq(T) /\ Len(args) = Len(fields) + 1
      /\ \A i \in 1..Len(args) : args[i] = c.items[i + 1]
  <2>1. /\ Tail(c.items) \in Seq(T) /\ Len(Tail(c.items)) = Len(c.items) - 1
        /\ \A i \in 1..Len(Tail(c.items)) : Tail(c.items)[i] = c.items[i + 1]
        BY <1>5, <1>8, HeadTailProperties
  <2> QED BY <1>5, <1>6, <2>1
<1>10. Head(c.items) = c.items[1]
       OBVIOUS
<1> HIDE DEF args
<1>11. args # <<>> /\ args[1] = s2 /\ Head(args) = args[1]
       BY <1>6, <1>7, <1>9
<1>12. /\ Tail(args) \in Seq(T) /\ Len(Tail(args)) = Len(fields)
       /\ \A i \in 1..Len(fields) : Tail(args)[i] = fields[i]
  <2>1. /\ Tail(args) \in Seq(T) /\ Len(Tail(args)) = Len(args) - 1
        /\ \A i \in 1..Len(Tail(args)) : Tail(args)[i] = args[i + 1]
        BY <1>9, <1>11, HeadTailProperties
  <2>2. Len(Tail(args)) = Len(fields)
        BY <1>6, <1>9, <2>1
  <2>3. ASSUME NEW i \in 1..Len(fields) PROVE Tail(args)[i] = fields[i]
    <3>1. Tail(args)[i] = args[i + 1] /\ i + 1 \in 1..Len(args)
          BY <1>6, <1>9, <2>1, <2>2
    <3>2. args[i + 1] = c.items[(i + 1) + 1] /\ (i + 1) + 1 = i + 2
          BY <1>9, <3>1
    <3> QED BY <1>6, <1>7, <3>1, <3>2
  <2> QED BY <2>1, <2>2, <2>3
<1>13. Tail(args) = fields
       BY <1>3, <1>12, SeqEqual
<1>14. ClassOf(c) = class /\ FieldsOf(c) = fields
  <2>1. Word("shape", class).name = class
        BY DEF Word
  <2>2. Head(c.items).word.name = class
        BY <1>2, <1>7, <1>10, <2>1
  <2>3. Tail(Tail(c.items)) = fields
        BY <1>13 DEF args
  <2> QED BY <2>2, <2>3, Zenon DEF ClassOf, FieldsOf
<1>15. IsMake(c)
       BY <1>1, <1>2, <1>7, <1>8, <1>10 DEF IsMake
<1>16. Versioned(Tail(c.items), Len(fields))
       BY <1>2, <1>9, <1>11 DEF Versioned, args
<1>17. Head(c.items).word = Word("shape", class)
       BY <1>2, <1>7, <1>10
<1>18. Len(c.items) = Len(fields) + 2
       BY <1>5, <1>6
<1> QED BY <1>1, <1>7, <1>14, <1>15, <1>16, <1>17, <1>18

(* The hooks that can be written down, as constructor expressions.         *)
LEMMA HookMadeOf ==
  ASSUME NEW S, NEW d, Bad \notin S
  PROVE  /\ \A class \in ShapeHooks : IsHook(Make(class, <<>>)) /\ Make(class, <<>>) # Bad
         /\ \A x \in S : x.form = "number" =>
              IsHook(Make("ScoreFloorHook", <<x>>)) /\ Make("ScoreFloorHook", <<x>>) # Bad
         /\ \A x \in S : x.form = "text" =>
              /\ IsHook(Make("DiscardOnDiagnosticPrefixHook", <<x>>))
              /\ Make("DiscardOnDiagnosticPrefixHook", <<x>>) # Bad
<1>1. ASSUME NEW class \in ShapeHooks PROVE IsHook(Make(class, <<>>)) /\ Make(class, <<>>) # Bad
  <2>1. Make(class, <<>>) # Bad
    <3>1. \A i \in DOMAIN <<>> : <<>>[i] # Bad
          OBVIOUS
    <3> QED BY <3>1, CallMade
  <2> QED BY <2>1, Zenon DEF IsHook
<1>2. ASSUME NEW class, NEW x \in S
      PROVE  /\ Make(class, <<x>>) # Bad
             /\ Len(Make(class, <<x>>).items) = 3 /\ Make(class, <<x>>).items[3] = x
  <2>1. <<x>> \in Seq(S) /\ DOMAIN <<x>> = {1} /\ <<x>>[1] = x /\ Len(<<x>>) = 1
        BY OneOf
  <2>2. Make(class, <<x>>) # Bad
        BY <2>1, CallMade
  <2>3. /\ Len(Make(class, <<x>>).items) = Len(<<x>>) + 2
        /\ \A i \in DOMAIN <<x>> : Make(class, <<x>>).items[i + 2] = <<x>>[i]
    <3> DEFINE one == <<x>>
               c == Make(class, one)
    <3>1. one \in Seq(S) /\ c # Bad
          BY <2>1, <2>2
    <3> HIDE DEF one, c
    <3>2. c = Make(class, one)
          BY DEF c
    <3>3. Len(c.items) = Len(one) + 2 /\ \A i \in DOMAIN one : c.items[i + 2] = one[i]
          BY <3>1, <3>2, CallParts
    <3> QED BY <3>3 DEF c, one
  <2>4. 1 + 2 = 3 /\ 1 \in DOMAIN <<x>>
        BY <2>1
  <2>5. Make(class, <<x>>).items[3] = x
        BY <2>1, <2>3, <2>4
  <2> QED BY <2>1, <2>2, <2>3, <2>4, <2>5
<1>3. ASSUME NEW x \in S, x.form = "number" PROVE IsHook(Make("ScoreFloorHook", <<x>>))
      BY <1>2, <1>3, Zenon DEF IsHook
<1>4. ASSUME NEW x \in S, x.form = "text" PROVE IsHook(Make("DiscardOnDiagnosticPrefixHook", <<x>>))
      BY <1>2, <1>4, Zenon DEF IsHook
<1> QED BY <1>1, <1>2, <1>3, <1>4

LEMMA HookTyped ==
  ASSUME NEW n \in Int, n <= Nesting, NEW d \in Nested[n].data
  PROVE  /\ HookOf(d) \in Nested[n].data \cup {Bad}
         /\ HookOf(d) # Bad => IsHook(HookOf(d))
<1>1. /\ n > 0 /\ n - 1 \in Int /\ d.items \in Seq(Nested[n - 1].data)
      /\ d.form = "hook" => d.items = <<>> \/ (Len(d.items) = 1 /\ IsHook(d.items[1]))
      BY DatumTyped
<1>2. CASE d.form = "hook" /\ d.items = <<>>
  <2>1. HookOf(d) = Bad
        BY <1>2, Zenon DEF HookOf
  <2> QED BY <2>1
<1>3. CASE d.form = "hook" /\ d.items # <<>>
  <2>1. HookOf(d) = d.items[1]
        BY <1>3, Zenon DEF HookOf
  <2>2. Nested[n - 1].data \subseteq Nested[n].data
        BY <1>1, Deeper
  <2>3. d.items[1] \in Nested[n - 1].data
        BY <1>1, <1>3
  <2> QED BY <1>1, <1>3, <2>1, <2>2, <2>3
<1>4. CASE d.form # "hook"
  <2> DEFINE class == Head(d.items).word
             args  == Tail(d.items)
             x     == args[2]
  <2>1. HookOf(d) = HookMade(d)
        BY <1>4, Zenon DEF HookOf
  <2>2. CASE ~IsMake(d) \/ class.space # "shape"
    <3>1. HookMade(d) = Bad
          BY <2>2, Zenon DEF HookMade
    <3> QED BY <2>1, <3>1
  <2>3. CASE IsMake(d) /\ class.space = "shape"
    <3>1. d.items # <<>> /\ n - 1 > 0
      <4>1. d.items # <<>>
            BY <2>3 DEF IsMake
      <4>2. d.items[1] \in Nested[n - 1].data
            BY <1>1, <4>1
      <4> QED BY <1>1, <4>1, <4>2, DatumTyped
    <3>2. args \in Seq(Nested[n - 1].data)
          BY <1>1, <3>1, HeadTailProperties
    <3>3. Versioned(args, 1) => x \in Nested[n - 1].data
      <4>1. Versioned(args, 1) => Len(args) = 1 + 1
            BY Zenon DEF Versioned
      <4> DEFINE S == Nested[n - 1].data
      <4>2. args \in Seq(S)
            BY <3>2
      <4> HIDE DEF args, S
      <4>3. Len(args) = 1 + 1 => args[2] \in S
        <5>1. Len(args) = 1 + 1 => 2 \in 1..Len(args)
              OBVIOUS
        <5> QED BY <4>2, <5>1, ElementOfSeq
      <4> QED BY <4>1, <4>3 DEF S
    <3>4. /\ \A c \in ShapeHooks : IsHook(Make(c, <<>>)) /\ Make(c, <<>>) # Bad
          /\ \A y \in Nested[n - 1].data : y.form = "number" =>
               IsHook(Make("ScoreFloorHook", <<y>>)) /\ Make("ScoreFloorHook", <<y>>) # Bad
          /\ \A y \in Nested[n - 1].data : y.form = "text" =>
               /\ IsHook(Make("DiscardOnDiagnosticPrefixHook", <<y>>))
               /\ Make("DiscardOnDiagnosticPrefixHook", <<y>>) # Bad
      <4>1. Bad \notin Nested[n - 1].data
            BY <1>1, BadOutside
      <4> QED BY <4>1, HookMadeOf
    <3>5. \/ HookMade(d) = Bad
          \/ class.name \in ShapeHooks /\ HookMade(d) = Make(class.name, <<>>)
          \/ /\ class.name = "ScoreFloorHook" /\ Versioned(args, 1) /\ x.form = "number"
             /\ HookMade(d) = Make("ScoreFloorHook", <<x>>)
          \/ /\ class.name = "DiscardOnDiagnosticPrefixHook" /\ Versioned(args, 1)
                    /\ x.form = "text"
             /\ HookMade(d) = Make("DiscardOnDiagnosticPrefixHook", <<x>>)
      <4>1. ~(~IsMake(d) \/ class.space # "shape")
            BY <2>3
      <4>2. "ScoreFloorHook" \notin ShapeHooks /\ "DiscardOnDiagnosticPrefixHook" \notin ShapeHooks
            BY DEF ShapeHooks
      <4>3. CASE class.name \in ShapeHooks /\ Versioned(args, 0)
        <5>1. class.name # "ScoreFloorHook" /\ class.name # "DiscardOnDiagnosticPrefixHook"
              BY <4>2, <4>3
        <5>2. HookMade(d) = Make(class.name, <<>>)
              BY <4>1, <4>3, <5>1, Zenon DEF HookMade
        <5> QED BY <4>3, <5>2
      <4>4. CASE class.name = "ScoreFloorHook" /\ Versioned(args, 1)
        <5>1. class.name \notin ShapeHooks
              BY <4>2, <4>4
        <5>2. HookMade(d) = IF x.form = "number" THEN Make(class.name, <<x>>) ELSE Bad
              BY <4>1, <4>4, <5>1, Zenon DEF HookMade
        <5> QED BY <4>4, <5>2
      <4>5. CASE class.name = "DiscardOnDiagnosticPrefixHook" /\ Versioned(args, 1)
        <5>1. class.name \notin ShapeHooks /\ class.name # "ScoreFloorHook"
              BY <4>2, <4>5
        <5>2. HookMade(d) = IF x.form = "text" THEN Make(class.name, <<x>>) ELSE Bad
              BY <4>1, <4>5, <5>1, Zenon DEF HookMade
        <5> QED BY <4>5, <5>2
      <4>6. CASE /\ ~(class.name \in ShapeHooks /\ Versioned(args, 0))
                 /\ ~(class.name = "ScoreFloorHook" /\ Versioned(args, 1))
                 /\ ~(class.name = "DiscardOnDiagnosticPrefixHook" /\ Versioned(args, 1))
        <5>1. HookMade(d) = Bad
              BY <4>1, <4>6, Zenon DEF HookMade
        <5> QED BY <5>1
      <4> QED BY <4>3, <4>4, <4>5, <4>6
    <3>6. /\ \A s \in ShapeHooks : Make(s, <<>>) \in Nested[n].data \cup {Bad}
          /\ x \in Nested[n - 1].data =>
               /\ Make("ScoreFloorHook", <<x>>) \in Nested[n].data \cup {Bad}
               /\ Make("DiscardOnDiagnosticPrefixHook", <<x>>) \in Nested[n].data \cup {Bad}
      <4>1. /\ <<>> \in Seq(Nested[n - 1].data \cup {Bad})
            /\ x \in Nested[n - 1].data => <<x>> \in Seq(Nested[n - 1].data \cup {Bad})
            BY OneOf, NoneOf
      <4>2. /\ \A s \in ShapeHooks : s \in Spelling
            /\ "ScoreFloorHook" \in Spelling /\ "DiscardOnDiagnosticPrefixHook" \in Spelling
            BY WordsSpelt
      <4>3. n > 1
            BY <3>1
      <4> HIDE DEF x
      <4> QED BY <4>1, <4>2, <4>3, CallTyped
    <3> HIDE DEF class, args, x
    <3>7. HookMade(d) = Bad \/ (HookMade(d) \in Nested[n].data \cup {Bad} /\ IsHook(HookMade(d)))
      <4>1. CASE class.name \in ShapeHooks /\ HookMade(d) = Make(class.name, <<>>)
            BY <3>4, <3>6, <4>1
      <4>2. CASE /\ class.name = "ScoreFloorHook" /\ Versioned(args, 1) /\ x.form = "number"
                 /\ HookMade(d) = Make("ScoreFloorHook", <<x>>)
            BY <3>3, <3>4, <3>6, <4>2
      <4>3. CASE /\ class.name = "DiscardOnDiagnosticPrefixHook" /\ Versioned(args, 1)
                 /\ x.form = "text" /\ HookMade(d) = Make("DiscardOnDiagnosticPrefixHook", <<x>>)
            BY <3>3, <3>4, <3>6, <4>3
      <4> QED BY <3>5, <4>1, <4>2, <4>3
    <3> QED BY <2>1, <3>7
  <2> QED BY <2>2, <2>3
<1> QED BY <1>2, <1>3, <1>4

Whole10(t) ==
  t = [kind |-> t.kind, kids |-> t.kids, name |-> t.name, keys |-> t.keys, needed |-> t.needed,
       rest |-> t.rest, arg |-> t.arg, min |-> t.min, max |-> t.max, marks |-> t.marks]

(* A shape of n levels out of parts of fewer.                              *)
LEMMA ShapeMade ==
  ASSUME NEW n \in Int, n > 1, NEW t, Whole10(t), t.kind \in Kinds, WellMade(t),
         t.kids \in Seq(Nested[n - 1].shapes), t.rest \in Seq(Nested[n - 1].shapes),
         t.name \in Words \cup {None} \cup Nested[n - 1].data,
         t.keys \in Seq(Words), t.needed \in Seq(BOOLEAN), t.arg \in Spelling,
         t.min \in Nat, t.max \in Nat \cup {None}, t.marks \in Seq(Nested[n - 2].data \cup {Bad}),
         t.kind = "table" => t.rest \in Seq(Nested[n - 2].shapes),
         t.kind = "exact" => t.name \in Nested[n - 1].data,
         \A i \in DOMAIN t.kids : t.kids[i] \in Nested[n - Sunk(t.kind, i)].shapes
  PROVE  t \in Nested[n].shapes
<1>1. n - 1 \in Int /\ n - 2 \in Int /\ (n - 2) + 1 = n - 1
      OBVIOUS
<1>2. Nested[n - 2].data \subseteq Nested[n - 1].data
      BY <1>1, LevelsRise DEF Rises
<1>3. t.marks \in Seq(Nested[n - 1].data \cup {Bad})
  <2>1. Nested[n - 2].data \cup {Bad} \subseteq Nested[n - 1].data \cup {Bad}
        BY <1>2
  <2> QED BY <2>1, SeqMonotonic
<1>4. t \in ShapesOf(Nested[n - 1])
      BY <1>3, Zenon DEF ShapesOf, Whole10
<1> QED BY <1>4, NestedShape

(* The shapes read of what is read as shapes are as deep as those.         *)
Given(n, class, a, shapes) ==
  /\ TakesFields(n, class, a) /\ DOMAIN shapes = DOMAIN Inner(class, a)
  /\ shapes = [i \in DOMAIN Inner(class, a) |-> shapes[i]]
  /\ \A i \in DOMAIN Inner(class, a) : shapes[i] \in Nested[n - Below(class, a, i)].shapes

LEMMA GivenTyped ==
  ASSUME NEW n, NEW class, NEW a, NEW shapes, Given(n, class, a, shapes)
  PROVE  /\ shapes \in Seq(Nested[n - 1].shapes) /\ Len(shapes) = Len(Inner(class, a))
         /\ Len(shapes) \in Nat /\ DOMAIN shapes = 1..Len(shapes)
         /\ \A i \in DOMAIN shapes : shapes[i] \in Nested[n - Below(class, a, i)].shapes
<1>1. /\ TakesFields(n, class, a) /\ DOMAIN shapes = DOMAIN Inner(class, a)
      /\ shapes = [i \in DOMAIN Inner(class, a) |-> shapes[i]]
      /\ \A i \in DOMAIN Inner(class, a) : shapes[i] \in Nested[n - Below(class, a, i)].shapes
      BY DEF Given
<1>2. n \in Int /\ n - 1 \in Int
      BY <1>1, ReadsTyped
<1>3. Inner(class, a) \in Seq(Nested[n - 1].data)
      BY <1>1, InnerTyped
<1> DEFINE S == Nested[n - 1].shapes
<1>4. ASSUME NEW i \in DOMAIN Inner(class, a) PROVE shapes[i] \in S
  <2>1. Below(class, a, i) \in 1..3
        BY DEF Below
  <2>2. n - Below(class, a, i) \in Int /\ n - Below(class, a, i) <= n - 1
        BY <1>2, <2>1
  <2>3. Nested[n - Below(class, a, i)].shapes \subseteq S
        BY <1>2, <2>2, Deeper
  <2> QED BY <1>1, <1>4, <2>3
<1> HIDE DEF S
<1>5. shapes \in Seq(S)
      BY <1>1, <1>3, <1>4, SeqOf
<1>6. Len(shapes) = Len(Inner(class, a))
      BY <1>1, <1>3, <1>5
<1>7. Len(shapes) \in Nat /\ DOMAIN shapes = 1..Len(shapes)
      BY <1>5
<1> QED BY <1>1, <1>5, <1>6, <1>7 DEF S

LEMMA KindsKnown ==
  /\ "any" \in Kinds /\ "exact" \in Kinds /\ "exprKind" \in Kinds /\ "class" \in Kinds
  /\ "ref" \in Kinds /\ "number" \in Kinds /\ "named" \in Kinds /\ "list" \in Kinds
  /\ "table" \in Kinds /\ "fields" \in Kinds /\ "capture" \in Kinds /\ "or" \in Kinds
  /\ "and" \in Kinds /\ "not" \in Kinds /\ "repeat" \in Kinds /\ "defs" \in Kinds
  /\ "hooked" \in Kinds
BY DEF Kinds

LEMMA BlankFields ==
  /\ <<>> \in Seq(Words) /\ <<>> \in Seq(BOOLEAN) /\ "" \in Spelling /\ 0 \in Nat
  /\ \A S : <<>> \in Seq(S)
<1>1. \A S : <<>> \in Seq(S)
      OBVIOUS
<1>2. "" \in Spelling
      BY WordsSpelt
<1> QED BY <1>1, <1>2

(* Shapes with neither keys nor hooks around them.                         *)
Plain(kind, kids, name, rest, arg, min, max) ==
  [kind |-> kind, kids |-> kids, name |-> name, keys |-> <<>>, needed |-> <<>>, rest |-> rest,
   arg |-> arg, min |-> min, max |-> max, marks |-> <<>>]

LEMMA Trees ==
  /\ Leaf = Plain("any", <<>>, None, <<>>, "", 0, None)
  /\ \A kind, kids : Tree(kind, kids) = Plain(kind, kids, None, <<>>, "", 0, None)
  /\ \A arg : KindTree(arg) = Plain("exprKind", <<>>, None, <<>>, arg, 0, None)
  /\ \A kind, name : NameTree(kind, name) = Plain(kind, <<>>, name, <<>>, "", 0, None)
  /\ \A kids, arg : OrTree(kids, arg) = Plain("or", kids, None, <<>>, arg, 0, None)
  /\ \A kids, rest : ListTree(kids, rest) = Plain("list", kids, None, rest, "", 0, None)
  /\ \A body, min, max : RepeatTree(body, min, max) =
         Plain("repeat", <<body>>, None, <<>>, "", min, max)
  /\ \A name, body : CaptureTree(name, body) = Plain("capture", <<body>>, name, <<>>, "", 0, None)
<1> DEFINE All(kind, kids, name, rest, arg, min, max) ==
             [kind: {kind, "any"}, kids: {kids, <<>>}, name: {name, None}, keys: {<<>>},
              needed: {<<>>}, rest: {rest, <<>>}, arg: {arg, ""}, min: {min, 0}, max: {max, None},
              marks: {<<>>}]
<1>1. Leaf = Plain("any", <<>>, None, <<>>, "", 0, None)
      BY DEF Leaf, Plain
<1>2. \A kind, kids, name, rest, arg, min, max : Leaf \in All(kind, kids, name, rest, arg, min, max)
      BY DEF Leaf
<1>3. Leaf.kind = "any" /\ Leaf.kids = <<>> /\ Leaf.name = None /\ Leaf.rest = <<>> /\ Leaf.arg = ""
      /\ Leaf.min = 0 /\ Leaf.max = None
      BY DEF Leaf
<1>4. ASSUME NEW kind, NEW kids
      PROVE  Tree(kind, kids) = Plain(kind, kids, None, <<>>, "", 0, None)
  <2> DEFINE t == Tree(kind, kids)
  <2>1. t \in All(kind, kids, None, <<>>, "", 0, None)
        BY <1>2 DEF Tree
  <2>2. /\ t.kind = kind /\ t.kids = kids /\ t.name = None /\ t.rest = <<>>
        /\ t.arg = "" /\ t.min = 0 /\ t.max = None
        BY <1>2, <1>3 DEF Tree
  <2> HIDE DEF t
  <2> QED BY <2>1, <2>2 DEF Plain, t
<1>5. ASSUME NEW arg
      PROVE  KindTree(arg) = Plain("exprKind", <<>>, None, <<>>, arg, 0, None)
  <2> DEFINE t == KindTree(arg)
  <2>1. t \in All("exprKind", <<>>, None, <<>>, arg, 0, None)
        BY <1>2 DEF KindTree
  <2>2. /\ t.kind = "exprKind" /\ t.kids = <<>> /\ t.name = None /\ t.rest = <<>>
        /\ t.arg = arg /\ t.min = 0 /\ t.max = None
        BY <1>2, <1>3 DEF KindTree
  <2> HIDE DEF t
  <2> QED BY <2>1, <2>2 DEF Plain, t
<1>6. ASSUME NEW kind, NEW name
      PROVE  NameTree(kind, name) = Plain(kind, <<>>, name, <<>>, "", 0, None)
  <2> DEFINE t == NameTree(kind, name)
  <2>1. t \in All(kind, <<>>, name, <<>>, "", 0, None)
        BY <1>2 DEF NameTree
  <2>2. /\ t.kind = kind /\ t.kids = <<>> /\ t.name = name /\ t.rest = <<>>
        /\ t.arg = "" /\ t.min = 0 /\ t.max = None
        BY <1>2, <1>3 DEF NameTree
  <2> HIDE DEF t
  <2> QED BY <2>1, <2>2 DEF Plain, t
<1>7. ASSUME NEW kids, NEW arg
      PROVE  OrTree(kids, arg) = Plain("or", kids, None, <<>>, arg, 0, None)
  <2> DEFINE t == OrTree(kids, arg)
  <2>1. t \in All("or", kids, None, <<>>, arg, 0, None)
        BY <1>2 DEF OrTree, Tree
  <2>2. /\ t.kind = "or" /\ t.kids = kids /\ t.name = None /\ t.rest = <<>>
        /\ t.arg = arg /\ t.min = 0 /\ t.max = None
        BY <1>2, <1>3 DEF OrTree, Tree
  <2> HIDE DEF t
  <2> QED BY <2>1, <2>2 DEF Plain, t
<1>8. ASSUME NEW kids, NEW rest
      PROVE  ListTree(kids, rest) = Plain("list", kids, None, rest, "", 0, None)
  <2> DEFINE t == ListTree(kids, rest)
  <2>1. t \in All("list", kids, None, rest, "", 0, None)
        BY <1>2 DEF ListTree, Tree
  <2>2. /\ t.kind = "list" /\ t.kids = kids /\ t.name = None /\ t.rest = rest
        /\ t.arg = "" /\ t.min = 0 /\ t.max = None
        BY <1>2, <1>3 DEF ListTree, Tree
  <2> HIDE DEF t
  <2> QED BY <2>1, <2>2 DEF Plain, t
<1>9. ASSUME NEW body, NEW min, NEW max
      PROVE  RepeatTree(body, min, max) = Plain("repeat", <<body>>, None, <<>>, "", min, max)
  <2> DEFINE t == RepeatTree(body, min, max)
  <2>1. t \in All("repeat", <<body>>, None, <<>>, "", min, max)
        BY <1>2 DEF RepeatTree, Tree
  <2>2. /\ t.kind = "repeat" /\ t.kids = <<body>> /\ t.name = None /\ t.rest = <<>>
        /\ t.arg = "" /\ t.min = min /\ t.max = max
        BY <1>2, <1>3 DEF RepeatTree, Tree
  <2> HIDE DEF t
  <2> QED BY <2>1, <2>2 DEF Plain, t
<1>10. ASSUME NEW name, NEW body
      PROVE  CaptureTree(name, body) = Plain("capture", <<body>>, name, <<>>, "", 0, None)
  <2> DEFINE t == CaptureTree(name, body)
  <2>1. t \in All("capture", <<body>>, name, <<>>, "", 0, None)
        BY <1>2 DEF CaptureTree, Tree
  <2>2. /\ t.kind = "capture" /\ t.kids = <<body>> /\ t.name = name /\ t.rest = <<>>
        /\ t.arg = "" /\ t.min = 0 /\ t.max = None
        BY <1>2, <1>3 DEF CaptureTree, Tree
  <2> HIDE DEF t
  <2> QED BY <2>1, <2>2 DEF Plain, t
<1> QED BY <1>1, <1>4, <1>5, <1>6, <1>7, <1>8, <1>9, <1>10

LEMMA PlainFields ==
  ASSUME NEW kind, NEW kids, NEW name, NEW rest, NEW arg, NEW min, NEW max, NEW t,
         t = Plain(kind, kids, name, rest, arg, min, max)
  PROVE  /\ t.kind = kind /\ t.kids = kids /\ t.name = name /\ t.arg = arg /\ t.rest = rest
         /\ t.min = min /\ t.max = max /\ t.keys = <<>> /\ t.needed = <<>> /\ t.marks = <<>>
         /\ Whole10(t)
BY DEF Plain, Whole10

LEMMA TreeTyped ==
  ASSUME NEW n \in Int, n > 1, NEW t, NEW kind \in Kinds, NEW kids \in Seq(Nested[n - 1].shapes),
         NEW name \in Words \cup {None} \cup Nested[n - 1].data, NEW arg \in Spelling,
         NEW rest \in Seq(Nested[n - 1].shapes),
         NEW min \in Nat, NEW max \in Nat \cup {None},
         t = Plain(kind, kids, name, rest, arg, min, max),
         WellMade(t), kind # "table", kind = "exact" => name \in Nested[n - 1].data,
         \A i \in DOMAIN kids : kids[i] \in Nested[n - Sunk(kind, i)].shapes
  PROVE  t \in Nested[n].shapes
<1>1. /\ t.kind = kind /\ t.kids = kids /\ t.name = name /\ t.arg = arg /\ t.rest = rest
      /\ t.min = min /\ t.max = max /\ t.keys = <<>> /\ t.needed = <<>> /\ t.marks = <<>>
      /\ Whole10(t)
      BY PlainFields
<1>2. t.keys \in Seq(Words) /\ t.needed \in Seq(BOOLEAN)
          /\ t.marks \in Seq(Nested[n - 2].data \cup {Bad})
      BY <1>1, BlankFields
<1> QED BY <1>1, <1>2, ShapeMade

LEMMA MadeTyped1 ==
  ASSUME NEW n, NEW class, NEW a, NEW shapes, Given(n, class, a, shapes),
         class \in {"Any", "ExactExpr", "ExprKind", "Class", "Ref"}
  PROVE  MadeOf(class, a, shapes) \in Nested[n].shapes
<1>1. TakesFields(n, class, a) /\ Proper(class, a)
      BY DEF Given, TakesFields
<1>2. /\ n \in Int /\ n > 1 /\ n - 1 \in Int /\ n - 1 <= Nesting
      /\ class \notin {"Any"} => a[1] \in Nested[n - 1].data
      BY <1>1, ReadsTyped
<1>3. class # "Any" => WordOf(a[1]) \in Words \cup {None}
      BY <1>2, WordOfTyped
<1> DEFINE t == MadeOf(class, a, shapes)
<1>4. None \in Words \cup {None} \cup Nested[n - 1].data /\ None \in Nat \cup {None}
      OBVIOUS
<1>5. <<>> \in Seq(Nested[n - 1].shapes) /\ "" \in Spelling /\ DOMAIN <<>> = {} /\ 0 \in Nat
  <2>1. DOMAIN <<>> = {}
        OBVIOUS
  <2> QED BY <2>1, BlankFields
<1>6. CASE class = "Any"
  <2>1. t = Leaf
        BY <1>6, MadeArms
  <2>2. t = Plain("any", <<>>, None, <<>>, "", 0, None)
        BY <2>1, Trees
  <2>3. WellMade(t)
    <3> HIDE DEF t
    <3>1. t.kind = "any"
          BY <2>2 DEF Plain
    <3> QED BY <2>1, <3>1 DEF WellMade
  <2> HIDE DEF t
  <2>4. t \in Nested[n].shapes
        BY <1>2, <1>4, <1>5, <2>2, <2>3, TreeTyped, KindsKnown
  <2> QED BY <2>4 DEF t
<1>7. CASE class = "ExactExpr"
  <2> DEFINE name == AsExpr(a[1])
  <2>1. t = NameTree("exact", name)
        BY <1>7, MadeArms
  <2>2. name \in Nested[n - 1].data /\ name.form # "shape"
        BY <1>1, <1>2, <1>7, AsExprTyped, ProperArms
  <2> HIDE DEF name, t
  <2>3. t = Plain("exact", <<>>, name, <<>>, "", 0, None)
        BY <2>1, Trees
  <2>4. WellMade(t)
    <3>1. t.kind = "exact" /\ t.name = name
          BY <2>3 DEF Plain
    <3> QED BY <2>1, <2>2, <3>1 DEF WellMade
  <2>5. t \in Nested[n].shapes
        BY <1>2, <1>4, <1>5, <2>2, <2>3, <2>4, TreeTyped, KindsKnown
  <2> QED BY <2>5 DEF t
<1>8. CASE class = "ExprKind"
  <2> DEFINE arg == WordOf(a[1]).name
  <2>1. t = KindTree(arg)
        BY <1>8, MadeArms
  <2>2. arg \in ExprKinds /\ arg \in Spelling
        BY <1>1, <1>2, <1>8, ProperArms, WordsSpelt DEF NameIn
  <2> HIDE DEF arg, t
  <2>3. t = Plain("exprKind", <<>>, None, <<>>, arg, 0, None)
        BY <2>1, Trees
  <2>4. WellMade(t)
    <3>1. t.kind = "exprKind" /\ t.arg = arg
          BY <2>3 DEF Plain
    <3> QED BY <2>1, <2>2, <3>1 DEF WellMade
  <2>5. t \in Nested[n].shapes
        BY <1>2, <1>4, <1>5, <2>2, <2>3, <2>4, TreeTyped, KindsKnown
  <2> QED BY <2>5 DEF t
<1>9. CASE class \in {"Class", "Ref"}
  <2> DEFINE name == WordOf(a[1])
             kind == IF class = "Class" THEN "class" ELSE "ref"
  <2>1. t = NameTree(kind, name) /\ kind \in {"class", "ref"}
        BY <1>9, MadeArms
  <2>2. name \in Words
        BY <1>1, <1>3, <1>9, ProperArms
  <2> HIDE DEF name, t, kind
  <2>3. t = Plain(kind, <<>>, name, <<>>, "", 0, None)
        BY <2>1, Trees
  <2>4. WellMade(t)
    <3>1. t.kind = kind /\ t.name = name
          BY <2>3 DEF Plain
    <3> QED BY <2>1, <2>2, <3>1 DEF WellMade
  <2>5. t \in Nested[n].shapes
    <3>1. name \in Words \cup {None} \cup Nested[n - 1].data /\ kind \in Kinds
          BY <2>1, <2>2, KindsKnown
    <3> QED BY <1>2, <1>4, <1>5, <2>1, <2>3, <2>4, <3>1, TreeTyped
  <2> QED BY <2>5 DEF t
<1> QED BY <1>6, <1>7, <1>8, <1>9

LEMMA MadeTyped2 ==
  ASSUME NEW n, NEW class, NEW a, NEW shapes, Given(n, class, a, shapes),
         class \in {"And", "Or", "Not"}
  PROVE  MadeOf(class, a, shapes) \in Nested[n].shapes
<1>1. TakesFields(n, class, a) /\ Proper(class, a)
      BY DEF Given, TakesFields
<1>2. /\ n \in Int /\ n > 1 /\ n - 1 \in Int /\ n - 1 <= Nesting
      /\ class \in {"List", "Table", "Or", "Defs", "Hooked", "Repeat"} =>
             a[2] \in Nested[n - 1].data
      BY <1>1, ReadsTyped
<1>3. /\ shapes \in Seq(Nested[n - 1].shapes) /\ Len(shapes) = Len(Inner(class, a))
      /\ \A i \in DOMAIN shapes : shapes[i] \in Nested[n - Below(class, a, i)].shapes
      BY GivenTyped
<1> DEFINE t == MadeOf(class, a, shapes)
           kind == IF class = "And" THEN "and" ELSE IF class = "Or" THEN "or" ELSE "not"
           arg == IF class = "Or" THEN WordOf(a[2]).name ELSE ""
<1>4. None \in Words \cup {None} \cup Nested[n - 1].data /\ None \in Nat \cup {None}
      OBVIOUS
<1>5. <<>> \in Seq(Nested[n - 1].shapes) /\ "" \in Spelling /\ 0 \in Nat
      BY BlankFields
<1>6. /\ kind = "and" => t = Tree("and", shapes)
      /\ kind = "or" => t = OrTree(shapes, arg)
      /\ kind = "not" => t = Tree("not", shapes)
      /\ kind \in {"and", "or", "not"}
      BY MadeArms
<1>7. kind = "or" => arg \in Strategies
  <2>1. kind = "or" => class = "Or"
        OBVIOUS
  <2>2. class = "Or" => NameIn(a[2], Strategies)
        BY <1>1, ProperArms
  <2> QED BY <2>1, <2>2 DEF NameIn
<1>8. \A i : Below(class, a, i) = Sunk(kind, i)
      BY DEF Below, Sunk
<1>9. kind = "not" => Len(shapes) = 1
  <2>1. kind = "not" => class = "Not"
        OBVIOUS
  <2>2. class = "Not" => Inner(class, a) = <<a[1]>>
        BY InnerArms
  <2> QED BY <1>3, <2>1, <2>2
<1>10. (kind # "or" => arg = "") /\ arg \in Spelling
       BY <1>5, <1>7, WordsSpelt
<1> HIDE DEF t, kind, arg
<1>11. t = Plain(kind, shapes, None, <<>>, arg, 0, None)
       BY <1>6, <1>10, Trees
<1>12. WellMade(t)
  <2>1. t.kind = kind /\ t.kids = shapes /\ t.arg = arg
        BY <1>11 DEF Plain
  <2> QED BY <1>6, <1>7, <1>9, <2>1 DEF WellMade
<1>13. /\ kind \in Kinds /\ kind # "table" /\ kind # "exact"
       /\ \A i \in DOMAIN shapes : shapes[i] \in Nested[n - Sunk(kind, i)].shapes
       BY <1>3, <1>6, <1>8, KindsKnown
<1>14. t \in Nested[n].shapes
       BY <1>2, <1>3, <1>4, <1>5, <1>10, <1>11, <1>12, <1>13, TreeTyped
<1> QED BY <1>14 DEF t

(* Shapes with keys, or with hooks around them.                            *)
Keyed(kind, kids, keys, needed, rest, arg, marks) ==
  [kind |-> kind, kids |-> kids, name |-> None, keys |-> keys, needed |-> needed, rest |-> rest,
   arg |-> arg, min |-> 0, max |-> None, marks |-> marks]

TableWith(keys, kids, arg, needed, rest) ==
  [TableTree(keys, kids, arg) EXCEPT !.needed = needed, !.rest = rest]

LEMMA KeyedTrees ==
  /\ \A keys, kids : KeyedTree("defs", keys, kids) =
       Keyed("defs", kids, keys, [i \in DOMAIN kids |-> FALSE], <<>>, "", <<>>)
  /\ \A keys, kids, arg, needed, rest :
       TableWith(keys, kids, arg, needed, rest) =
         Keyed("table", kids, keys, needed, rest, arg, <<>>)
  /\ \A kids, marks :
       [Tree("hooked", kids) EXCEPT !.marks = marks] =
         Keyed("hooked", kids, <<>>, <<>>, <<>>, "", marks)
  /\ \A keys, kids : KeyedTree("fields", keys, kids) =
       Keyed("fields", kids, keys, [i \in DOMAIN kids |-> TRUE], <<>>, "", <<>>)
  /\ \A keys, kids, arg : TableTree(keys, kids, arg) =
       Keyed("table", kids, keys, [i \in DOMAIN kids |-> TRUE], <<>>, arg, <<>>)
<1>1. \A kind, kids : Tree(kind, kids) = Plain(kind, kids, None, <<>>, "", 0, None)
      BY Trees
<1>2. ASSUME NEW keys, NEW kids
      PROVE  /\ KeyedTree("defs", keys, kids) =
                  Keyed("defs", kids, keys, [i \in DOMAIN kids |-> FALSE], <<>>, "", <<>>)
             /\ KeyedTree("table", keys, kids) =
                  Keyed("table", kids, keys, [i \in DOMAIN kids |-> TRUE], <<>>, "", <<>>)
             /\ KeyedTree("fields", keys, kids) =
                  Keyed("fields", kids, keys, [i \in DOMAIN kids |-> TRUE], <<>>, "", <<>>)
  <2>1. ASSUME NEW kind, NEW yes, [i \in DOMAIN kids |-> kind # "defs"] = yes
        PROVE  KeyedTree(kind, keys, kids) = Keyed(kind, kids, keys, yes, <<>>, "", <<>>)
    <3> DEFINE b == Plain(kind, kids, None, <<>>, "", 0, None)
               t == [b EXCEPT !.keys = keys, !.needed = yes]
    <3>1. KeyedTree(kind, keys, kids) = t
          BY <1>1, <2>1 DEF KeyedTree
    <3>2. t \in [kind: {kind}, kids: {kids}, name: {None}, keys: {keys, <<>>},
                 needed: {yes, <<>>}, rest: {<<>>}, arg: {""}, min: {0}, max: {None}, marks: {<<>>}]
          BY DEF Plain
    <3>3. t.keys = keys /\ t.needed = yes
          BY DEF Plain
    <3> HIDE DEF t
    <3> QED BY <3>1, <3>2, <3>3 DEF Keyed
  <2>2. /\ [i \in DOMAIN kids |-> "defs" # "defs"] = [i \in DOMAIN kids |-> FALSE]
        /\ [i \in DOMAIN kids |-> "table" # "defs"] = [i \in DOMAIN kids |-> TRUE]
        /\ [i \in DOMAIN kids |-> "fields" # "defs"] = [i \in DOMAIN kids |-> TRUE]
        OBVIOUS
  <2> QED BY <2>1, <2>2
<1>3. ASSUME NEW keys, NEW kids, NEW arg, NEW needed, NEW rest
      PROVE  TableWith(keys, kids, arg, needed, rest) =
               Keyed("table", kids, keys, needed, rest, arg, <<>>)
  <2> DEFINE all == [i \in DOMAIN kids |-> TRUE]
             b == Keyed("table", kids, keys, all, <<>>, "", <<>>)
             u == [b EXCEPT !.arg = arg]
             t == [u EXCEPT !.needed = needed, !.rest = rest]
  <2>1. TableWith(keys, kids, arg, needed, rest) = t
        BY <1>2 DEF TableTree, TableWith
  <2> HIDE DEF all
  <2>2. t \in [kind: {"table"}, kids: {kids}, name: {None}, keys: {keys},
               needed: {all, needed}, rest: {rest, <<>>}, arg: {"", arg}, min: {0}, max: {None},
               marks: {<<>>}]
        BY DEF Keyed
  <2>3. t.arg = arg /\ t.needed = needed /\ t.rest = rest
        BY DEF Keyed
  <2> HIDE DEF t
  <2> QED BY <2>1, <2>2, <2>3 DEF Keyed
<1>5. ASSUME NEW keys, NEW kids, NEW arg
      PROVE  TableTree(keys, kids, arg) =
               Keyed("table", kids, keys, [i \in DOMAIN kids |-> TRUE], <<>>, arg, <<>>)
  <2> DEFINE all == [i \in DOMAIN kids |-> TRUE]
             b == Keyed("table", kids, keys, all, <<>>, "", <<>>)
             t == [b EXCEPT !.arg = arg]
  <2>1. TableTree(keys, kids, arg) = t
        BY <1>2 DEF TableTree
  <2> HIDE DEF all
  <2>2. t \in [kind: {"table"}, kids: {kids}, name: {None}, keys: {keys},
               needed: {all}, rest: {<<>>}, arg: {"", arg}, min: {0}, max: {None}, marks: {<<>>}]
        BY DEF Keyed
  <2>3. t.arg = arg
        BY DEF Keyed
  <2> HIDE DEF t
  <2>4. TableTree(keys, kids, arg) = Keyed("table", kids, keys, all, <<>>, arg, <<>>)
        BY <2>1, <2>2, <2>3 DEF Keyed
  <2> QED BY <2>4 DEF all
<1>4. ASSUME NEW kids, NEW marks
      PROVE  [Tree("hooked", kids) EXCEPT !.marks = marks] =
               Keyed("hooked", kids, <<>>, <<>>, <<>>, "", marks)
  <2> DEFINE b == Plain("hooked", kids, None, <<>>, "", 0, None)
             t == [b EXCEPT !.marks = marks]
  <2>1. [Tree("hooked", kids) EXCEPT !.marks = marks] = t
        BY <1>1
  <2>2. t \in [kind: {"hooked"}, kids: {kids}, name: {None}, keys: {<<>>},
               needed: {<<>>}, rest: {<<>>}, arg: {""}, min: {0}, max: {None},
               marks: {<<>>, marks}]
        BY DEF Plain
  <2>3. t.marks = marks
        BY DEF Plain
  <2> HIDE DEF t
  <2> QED BY <2>1, <2>2, <2>3 DEF Keyed
<1> QED BY <1>2, <1>3, <1>4, <1>5

LEMMA KeyedTyped ==
  ASSUME NEW n \in Int, n > 1, NEW t, NEW kind \in {"defs", "table", "hooked", "fields"},
         NEW kids \in Seq(Nested[n - 1].shapes), NEW keys \in Seq(Words),
             NEW needed \in Seq(BOOLEAN),
         NEW rest \in Seq(Nested[n - 2].shapes), NEW arg \in Spelling,
         NEW marks \in Seq(Nested[n - 2].data \cup {Bad}),
         t = Keyed(kind, kids, keys, needed, rest, arg, marks),
         WellMade(t), \A i \in DOMAIN kids : kids[i] \in Nested[n - Sunk(kind, i)].shapes
  PROVE  t \in Nested[n].shapes
<1>1. /\ t.kind = kind /\ t.kids = kids /\ t.name = None /\ t.arg = arg /\ t.rest = rest
      /\ t.min = 0 /\ t.max = None /\ t.keys = keys /\ t.needed = needed /\ t.marks = marks
      /\ Whole10(t)
      BY DEF Keyed, Whole10
<1>2. n - 2 \in Int /\ (n - 2) + 1 = n - 1
      OBVIOUS
<1>3. Nested[n - 2].shapes \subseteq Nested[n - 1].shapes
      BY <1>2, LevelsRise DEF Rises
<1>4. /\ t.rest \in Seq(Nested[n - 1].shapes) /\ t.rest \in Seq(Nested[n - 2].shapes)
      /\ t.kind \in Kinds /\ t.kind # "exact"
      BY <1>1, <1>3, SeqMonotonic, KindsKnown
<1>5. /\ t.name \in Words \cup {None} \cup Nested[n - 1].data /\ t.max \in Nat \cup {None}
      /\ t.min \in Nat /\ t.arg \in Spelling
      /\ t.kids \in Seq(Nested[n - 1].shapes) /\ t.keys \in Seq(Words) /\ t.needed \in Seq(BOOLEAN)
      /\ t.marks \in Seq(Nested[n - 2].data \cup {Bad})
      BY <1>1
<1>6. \A i \in DOMAIN t.kids : t.kids[i] \in Nested[n - Sunk(t.kind, i)].shapes
      BY <1>1
<1>7. Whole10(t)
      BY <1>1
<1> HIDE DEF Whole10
<1> QED BY <1>4, <1>5, <1>6, <1>7, ShapeMade

LEMMA SplitAt ==
  ASSUME NEW S, NEW s \in Seq(S), NEW k \in 0..Len(s)
  PROVE  /\ SubSeq(s, 1, k) \in Seq(S) /\ Len(SubSeq(s, 1, k)) = k
         /\ DOMAIN SubSeq(s, 1, k) = 1..k /\ \A i \in 1..k : SubSeq(s, 1, k)[i] = s[i]
         /\ SubSeq(s, k + 1, Len(s)) \in Seq(S) /\ Len(SubSeq(s, k + 1, Len(s))) = Len(s) - k
         /\ DOMAIN SubSeq(s, k + 1, Len(s)) = 1..Len(s) - k
         /\ \A i \in 1..Len(s) - k : SubSeq(s, k + 1, Len(s))[i] = s[k + i]
<1>1. Len(s) \in Nat /\ DOMAIN s = 1..Len(s) /\ \A i \in 1..Len(s) : s[i] \in S
      OBVIOUS
<1>2. /\ SubSeq(s, 1, k) \in Seq(S) /\ Len(SubSeq(s, 1, k)) = IF 1 <= k THEN k - 1 + 1 ELSE 0
      /\ \A i \in 1..k - 1 + 1 : SubSeq(s, 1, k)[i] = s[1 + i - 1]
  <2>1. \A i \in 1..k : s[i] \in S
        BY <1>1
  <2> QED BY <2>1, SubSeqProperties
<1>3. /\ SubSeq(s, k + 1, Len(s)) \in Seq(S)
      /\ Len(SubSeq(s, k + 1, Len(s))) = IF k + 1 <= Len(s) THEN Len(s) - (k + 1) + 1 ELSE 0
      /\ \A i \in 1..Len(s) - (k + 1) + 1 : SubSeq(s, k + 1, Len(s))[i] = s[(k + 1) + i - 1]
  <2>1. \A i \in (k + 1)..Len(s) : s[i] \in S
        BY <1>1
  <2>2. k + 1 \in Int /\ Len(s) \in Int
        BY <1>1
  <2> QED BY <2>1, <2>2, SubSeqProperties
<1>4. Len(SubSeq(s, 1, k)) = k /\ Len(SubSeq(s, k + 1, Len(s))) = Len(s) - k
  <2> DEFINE n == Len(s)
  <2>1. n \in Nat /\ k \in 0..n
        BY <1>1
  <2>2. Len(SubSeq(s, k + 1, n)) = IF k + 1 <= n THEN n - (k + 1) + 1 ELSE 0
        BY <1>3
  <2> HIDE DEF n
  <2>3. Len(SubSeq(s, 1, k)) = k
        BY <1>2, <2>1
  <2>4. Len(SubSeq(s, k + 1, n)) = n - k
        BY <2>1, <2>2
  <2> QED BY <2>3, <2>4 DEF n
<1>5. \A i \in 1..k : SubSeq(s, 1, k)[i] = s[i]
  <2>1. SUFFICES ASSUME NEW i \in 1..k PROVE SubSeq(s, 1, k)[i] = s[i]
        OBVIOUS
  <2>2. i \in 1..k - 1 + 1 /\ 1 + i - 1 = i
        OBVIOUS
  <2> QED BY <1>2, <2>2
<1>6. \A i \in 1..Len(s) - k : SubSeq(s, k + 1, Len(s))[i] = s[k + i]
  <2>1. SUFFICES ASSUME NEW i \in 1..Len(s) - k PROVE SubSeq(s, k + 1, Len(s))[i] = s[k + i]
        OBVIOUS
  <2>2. i \in 1..Len(s) - (k + 1) + 1 /\ (k + 1) + i - 1 = k + i
        BY <1>1
  <2> QED BY <1>3, <2>2
<1> QED BY <1>2, <1>3, <1>4, <1>5, <1>6

(* What is read in a list or in a table, divided as it was put together.   *)
LEMMA DividedTyped ==
  ASSUME NEW n, NEW class, NEW a, NEW shapes, Given(n, class, a, shapes),
         class \in {"List", "Table"}
  PROVE  LET among == Among(a, shapes)
             after == After(a, shapes)
             L == Len(a[1].items)
         IN  /\ L \in Nat /\ Len(shapes) \in {L, L + 1}
             /\ among \in Seq(Nested[n - 1].shapes) /\ Len(among) = L /\ DOMAIN among = 1..L
             /\ \A i \in 1..L : among[i] = shapes[i] /\ i \in DOMAIN shapes
             /\ after \in Seq(Nested[n - 1].shapes) /\ Len(after) \in {0, 1}
             /\ class = "Table" => after \in Seq(Nested[n - 2].shapes)
             /\ class = "Table" => (after = <<>> <=> AsExpr(a[2]).form # "list")
<1> DEFINE L == Len(a[1].items)
           extra == IF class = "List" THEN Extra(a[2]) ELSE Policed(a[2])
           first == IF class = "List" THEN a[1].items ELSE RowShapes(a[1].items)
           S == Nested[n - 1].data
           T == Nested[n - 1].shapes
<1>1. TakesFields(n, class, a) /\ Proper(class, a)
      BY DEF Given, TakesFields
<1>2. /\ n \in Int /\ n - 1 \in Int /\ n - 2 \in Int /\ n - 3 \in Int /\ n - 1 <= Nesting
      /\ (n - 1) - 1 = n - 2 /\ (n - 1) - 2 = n - 3
      /\ a[1] \in S /\ a[2] \in S
      /\ Nested[n - 2].data \subseteq S /\ Nested[n - 3].data \subseteq S
      BY <1>1, ReadsTyped
<1>3. /\ shapes \in Seq(T) /\ Len(shapes) = Len(Inner(class, a)) /\ DOMAIN shapes = 1..Len(shapes)
      /\ \A i \in DOMAIN shapes : shapes[i] \in Nested[n - Below(class, a, i)].shapes
      BY GivenTyped
<1>4. Inner(class, a) = first \o extra
      BY InnerArms
<1>5. first \in Seq(S) /\ Len(first) = L /\ L \in Nat
  <2>1. CASE class = "List"
    <3>1. a[1].items \in Seq(Nested[n - 2].data) /\ Len(a[1].items) \in Nat
          BY <1>1, <2>1, ElementsTyped
    <3>2. a[1].items \in Seq(S)
          BY <1>2, <3>1, SeqMonotonic
    <3> QED BY <2>1, <3>1, <3>2
  <2>2. CASE class = "Table"
    <3>1. IsRows(a[1], 3) /\ 3 \in {2, 3}
          BY <1>1, <2>2, ProperArms
    <3>2. /\ RowShapes(a[1].items) \in Seq(Nested[n - 3].data)
          /\ Len(RowShapes(a[1].items)) = Len(a[1].items) /\ Len(a[1].items) \in Nat
          BY <1>2, <3>1, RowsTyped
    <3>3. RowShapes(a[1].items) \in Seq(S)
          BY <1>2, <3>2, SeqMonotonic
    <3> QED BY <2>2, <3>2, <3>3
  <2> QED BY <2>1, <2>2
<1>6. extra \in Seq(S) /\ Len(extra) \in {0, 1}
  <2>1. CASE class = "List"
        BY <1>2, <2>1, ExtraTyped
  <2>2. CASE class = "Table"
    <3>1. IsPolicy(AsExpr(a[2]))
          BY <1>1, <2>2, ProperArms
    <3>2. Policed(a[2]) \in Seq(Nested[n - 2].data) /\ Len(Policed(a[2])) \in {0, 1}
          BY <1>2, <3>1, ExtraTyped
    <3>3. Policed(a[2]) \in Seq(S)
          BY <1>2, <3>2, SeqMonotonic
    <3> QED BY <2>2, <3>2, <3>3
  <2> QED BY <2>1, <2>2
<1>7. class = "Table" => (Len(extra) = 0 <=> AsExpr(a[2]).form # "list")
  <2>1. ASSUME class = "Table" PROVE extra = Policed(a[2])
        BY <2>1
  <2>2. CASE AsExpr(a[2]).form = "list"
    <3>1. Policed(a[2]) = <<AsExpr(a[2]).items[2]>>
          BY <2>2 DEF Policed
    <3>2. Len(Policed(a[2])) = 1
          BY <3>1, OneOf
    <3> QED BY <2>1, <2>2, <3>2
  <2>3. CASE AsExpr(a[2]).form # "list"
    <3>1. Policed(a[2]) = <<>>
          BY <2>3 DEF Policed
    <3> QED BY <2>1, <2>3, <3>1, NoneOf
  <2> QED BY <2>2, <2>3
<1>8. \A i : /\ i <= L => Below(class, a, i) > 0
             /\ class = "Table" /\ ~(i <= L) => Below(class, a, i) = 2
      BY DEF Below
<1> HIDE DEF first, extra, S, T, L
<1>9. Len(shapes) = L + Len(extra) /\ Len(shapes) \in {L, L + 1}
  <2>1. Len(first \o extra) = Len(first) + Len(extra)
        BY <1>5, <1>6, ConcatProperties
  <2>2. Len(shapes) = Len(first \o extra)
        BY <1>3, <1>4
  <2>3. Len(shapes) = L + Len(extra)
        BY <1>5, <2>1, <2>2
  <2>4. L + 0 = L /\ (Len(extra) = 0 \/ Len(extra) = 1)
        BY <1>5, <1>6
  <2> QED BY <2>3, <2>4
<1>10. L \in 0..Len(shapes)
       BY <1>5, <1>9
<1> DEFINE among == SubSeq(shapes, 1, L)
           after == SubSeq(shapes, L + 1, Len(shapes))
<1>11. /\ among \in Seq(T) /\ Len(among) = L /\ DOMAIN among = 1..L
       /\ \A i \in 1..L : among[i] = shapes[i]
       /\ after \in Seq(T) /\ Len(after) = Len(shapes) - L /\ DOMAIN after = 1..Len(shapes) - L
       /\ \A i \in 1..Len(shapes) - L : after[i] = shapes[L + i]
  <2>1. shapes \in Seq(T)
        BY <1>3
  <2> QED BY <1>10, <2>1, SplitAt
<1>12. among = Among(a, shapes) /\ after = After(a, shapes)
       BY DEF Among, After, L
<1>13. \A i \in 1..L : i \in DOMAIN shapes
       BY <1>3, <1>5, <1>9
<1>14. Len(after) = Len(extra)
       BY <1>5, <1>6, <1>9, <1>11
<1> HIDE DEF among, after
<1>15. Len(after) = 0 <=> after = <<>>
       BY <1>11
<1>16. class = "Table" => after \in Seq(Nested[n - 2].shapes)
  <2>1. SUFFICES ASSUME class = "Table" PROVE after \in Seq(Nested[n - 2].shapes)
        OBVIOUS
  <2>2. ASSUME NEW i \in DOMAIN after PROVE after[i] \in Nested[n - 2].shapes
    <3>1. i \in 1..Len(shapes) - L /\ L + i \in DOMAIN shapes /\ ~(L + i <= L)
          BY <1>3, <1>5, <1>9, <1>11, <2>2
    <3>2. after[i] = shapes[L + i]
          BY <1>11, <3>1
    <3>3. Below(class, a, L + i) = 2
          BY <1>8, <2>1, <3>1
    <3> QED BY <1>3, <3>1, <3>2, <3>3
  <2> DEFINE U == Nested[n - 2].shapes
  <2>3. after \in Seq(T) /\ \A i \in DOMAIN after : after[i] \in U
        BY <1>11, <2>2
  <2> HIDE DEF U
  <2>4. after \in Seq(U)
        BY <2>3
  <2> QED BY <2>4 DEF U
<1> QED BY <1>5, <1>6, <1>7, <1>9, <1>11, <1>12, <1>13, <1>14, <1>15, <1>16 DEF L, T

LEMMA MadeTyped3 ==
  ASSUME NEW n, NEW class, NEW a, NEW shapes, Given(n, class, a, shapes), class = "List"
  PROVE  MadeOf(class, a, shapes) \in Nested[n].shapes
<1> DEFINE L == Len(a[1].items)
           among == Among(a, shapes)
           after == After(a, shapes)
           t == MadeOf(class, a, shapes)
<1>1. TakesFields(n, class, a)
      BY DEF Given
<1>2. n \in Int /\ n > 1
      BY <1>1, ReadsTyped
<1>3. \A i \in DOMAIN shapes : shapes[i] \in Nested[n - Below(class, a, i)].shapes
      BY GivenTyped
<1>4. /\ among \in Seq(Nested[n - 1].shapes) /\ Len(among) = L /\ DOMAIN among = 1..L /\ L \in Nat
      /\ \A i \in 1..L : among[i] = shapes[i] /\ i \in DOMAIN shapes
      /\ after \in Seq(Nested[n - 1].shapes) /\ Len(after) \in {0, 1}
      BY DividedTyped
<1>5. t = ListTree(among, after)
      BY MadeArms
<1>6. ASSUME NEW i \in DOMAIN among PROVE among[i] \in Nested[n - Sunk("list", i)].shapes
  <2>1. i \in 1..L /\ i <= L
        BY <1>4, <1>6
  <2>2. Below(class, a, i) = 2 /\ Sunk("list", i) = 2
        BY <2>1 DEF Below, Sunk
  <2> QED BY <1>3, <1>4, <2>1, <2>2
<1> HIDE DEF L, among, after, t
<1>7. t = Plain("list", among, None, after, "", 0, None)
      BY <1>5, Trees
<1>8. t.kind = "list" /\ t.kids = among /\ t.rest = after
      BY <1>7 DEF Plain
<1>9. WellMade(t)
  <2>1. Len(after) <= 1
    <3>1. Len(after) = 0 \/ Len(after) = 1
          BY <1>4
    <3> QED BY <3>1
  <2> QED BY <1>5, <1>8, <2>1 DEF WellMade
<1>10. /\ "list" \in Kinds /\ "" \in Spelling /\ None \in Words \cup {None} \cup Nested[n - 1].data
       /\ None \in Nat \cup {None} /\ 0 \in Nat /\ "list" # "table" /\ "list" # "exact"
       BY KindsKnown, BlankFields
<1>11. t \in Nested[n].shapes
       BY <1>2, <1>4, <1>6, <1>7, <1>9, <1>10, TreeTyped
<1> QED BY <1>11 DEF t

LEMMA MadeTyped4 ==
  ASSUME NEW n, NEW class, NEW a, NEW shapes, Given(n, class, a, shapes),
         class \in {"Repeat", "Hooked"}
  PROVE  MadeOf(class, a, shapes) \in Nested[n].shapes
<1> DEFINE t == MadeOf(class, a, shapes)
<1>1. TakesFields(n, class, a) /\ Proper(class, a)
      BY DEF Given, TakesFields
<1>2. /\ n \in Int /\ n > 1 /\ n - 1 \in Int /\ n - 2 \in Int /\ n - 1 <= Nesting
             /\ n - 2 <= Nesting
      /\ (n - 1) - 1 = n - 2
      /\ a[2] \in Nested[n - 1].data
      /\ class = "Repeat" => a[3] \in Nested[n - 1].data
      BY <1>1, ReadsTyped
<1>3. /\ shapes \in Seq(Nested[n - 1].shapes) /\ Len(shapes) = Len(Inner(class, a))
      /\ \A i \in DOMAIN shapes : shapes[i] \in Nested[n - Below(class, a, i)].shapes
      BY GivenTyped
<1>4. Len(shapes) = 1 /\ shapes = <<shapes[1]>> /\ DOMAIN shapes = {1}
  <2>1. Inner(class, a) = <<a[1]>>
        BY InnerArms
  <2>2. Len(shapes) = 1
        BY <1>3, <2>1
  <2> QED BY <1>3, <2>2
<1>5. \A i : Below(class, a, i) = 1 /\ Sunk("repeat", i) = 1 /\ Sunk("hooked", i) = 1
      BY DEF Below, Sunk
<1>6. /\ \A i \in DOMAIN shapes : shapes[i] \in Nested[n - Sunk("repeat", i)].shapes
      /\ \A i \in DOMAIN shapes : shapes[i] \in Nested[n - Sunk("hooked", i)].shapes
      BY <1>3, <1>5
<1>7. CASE class = "Repeat"
  <2> DEFINE min == a[2].num
             max == IF a[3] = Nil THEN None ELSE a[3].num
  <2>1. t = RepeatTree(shapes[1], min, max)
        BY <1>7, MadeArms
  <2>2. min \in Nat /\ max \in Nat \cup {None}
    <3>1. a[2].num \in Nat /\ a[3].num \in Nat
      <4>1. n - 1 \in Int /\ a[2] \in Nested[n - 1].data /\ a[3] \in Nested[n - 1].data
            BY <1>2, <1>7
      <4> QED BY <4>1, DatumTyped
    <3> QED BY <3>1
  <2> HIDE DEF min, max, t
  <2>3. t = Plain("repeat", <<shapes[1]>>, None, <<>>, "", min, max)
        BY <2>1, Trees
  <2>4. t = Plain("repeat", shapes, None, <<>>, "", min, max)
        BY <1>4, <2>3
  <2>5. t.kind = "repeat" /\ t.kids = shapes /\ t.min = min /\ t.max = max
        BY <2>4 DEF Plain
  <2>6. WellMade(t)
        BY <1>4, <2>1, <2>5 DEF WellMade
  <2>7. /\ "repeat" \in Kinds /\ "" \in Spelling /\ None \in Words \cup {None} \cup Nested[n - 1].data
        /\ "repeat" # "table" /\ "repeat" # "exact" /\ <<>> \in Seq(Nested[n - 1].shapes)
        BY KindsKnown, BlankFields
  <2>8. t \in Nested[n].shapes
        BY <1>2, <1>3, <1>6, <2>2, <2>4, <2>6, <2>7, TreeTyped
  <2> QED BY <2>8 DEF t
<1>8. CASE class = "Hooked"
  <2> DEFINE items == a[2].items
             marks == Marks(items)
  <2>1. t = [Tree("hooked", shapes) EXCEPT !.marks = marks]
        BY <1>8, MadeArms
  <2>2. items \in Seq(Nested[n - 2].data)
    <3>1. a[2].items \in Seq(Nested[(n - 1) - 1].data)
          BY <1>2, DatumTyped
    <3> QED BY <1>2, <3>1
  <2>3. ASSUME NEW i \in DOMAIN items
        PROVE  HookOf(items[i]) \in Nested[n - 2].data \cup {Bad}
                   /\ (HookOf(items[i]) = Bad \/ IsHook(HookOf(items[i])))
    <3>1. items[i] \in Nested[n - 2].data
          BY <2>2, <2>3
    <3> QED BY <1>2, <3>1, HookTyped
  <2>4. /\ DOMAIN marks = DOMAIN items /\ marks = [i \in DOMAIN items |-> marks[i]]
        /\ \A i \in DOMAIN items : marks[i] = HookOf(items[i])
        BY DEF Marks
  <2> DEFINE U == Nested[n - 2].data \cup {Bad}
  <2>5. \A i \in DOMAIN items : marks[i] \in U /\ (marks[i] = Bad \/ IsHook(marks[i]))
        BY <2>3, <2>4, Zenon
  <2> HIDE DEF U, items, marks, t
  <2>6. marks \in Seq(U)
        BY <2>2, <2>4, <2>5, SeqOf
  <2>7. t = Keyed("hooked", shapes, <<>>, <<>>, <<>>, "", marks)
        BY <2>1, KeyedTrees
  <2>8. t.kind = "hooked" /\ t.kids = shapes /\ t.marks = marks
        BY <2>7 DEF Keyed
  <2>9. WellMade(t)
        BY <1>4, <2>1, <2>4, <2>5, <2>8 DEF WellMade
  <2>10. /\ "hooked" \in {"defs", "table", "hooked", "fields"} /\ "" \in Spelling
         /\ <<>> \in Seq(Nested[n - 2].shapes) /\ <<>> \in Seq(Words) /\ <<>> \in Seq(BOOLEAN)
         BY BlankFields
  <2>11. marks \in Seq(Nested[n - 2].data \cup {Bad})
         BY <2>6 DEF U
  <2>12. t \in Nested[n].shapes
         BY <1>2, <1>3, <1>6, <2>7, <2>9, <2>10, <2>11, KeyedTyped
  <2> QED BY <2>12 DEF t
<1> QED BY <1>7, <1>8

LEMMA MadeTyped5 ==
  ASSUME NEW n, NEW class, NEW a, NEW shapes, Given(n, class, a, shapes), class = "Defs"
  PROVE  MadeOf(class, a, shapes) \in Nested[n].shapes
<1> DEFINE t == MadeOf(class, a, shapes)
           keys == RowNames(a[2].items)
           needed == [i \in DOMAIN shapes |-> FALSE]
<1>1. TakesFields(n, class, a) /\ Proper(class, a)
      BY DEF Given, TakesFields
<1>2. /\ n \in Int /\ n > 1 /\ n - 1 \in Int /\ n - 3 \in Int /\ n - 1 <= Nesting
             /\ (n - 1) - 2 = n - 3
      /\ a[2] \in Nested[n - 1].data
      BY <1>1, ReadsTyped
<1>3. /\ shapes \in Seq(Nested[n - 1].shapes) /\ Len(shapes) = Len(Inner(class, a))
      /\ \A i \in DOMAIN shapes : shapes[i] \in Nested[n - Below(class, a, i)].shapes
      BY GivenTyped
<1>4. IsRows(a[2], 2) /\ 2 \in {2, 3}
      BY <1>1, ProperArms
<1> DEFINE rows == RowShapes(a[2].items)
<1>5. /\ keys \in Seq(Words) /\ Len(keys) = Len(a[2].items) /\ rows \in Seq(Nested[n - 3].data)
      /\ Len(rows) = Len(a[2].items) /\ Len(a[2].items) \in Nat
      BY <1>2, <1>4, RowsTyped
<1>6. Len(shapes) = Len(keys) + 1
  <2>1. Inner(class, a) = <<a[1]>> \o rows
        BY InnerArms
  <2> DEFINE T == Nested[n - 3].data \cup {a[1]}
             one == <<a[1]>>
  <2>2. rows \in Seq(T)
        BY <1>5, SeqMonotonic
  <2>3. one \in Seq(T) /\ Len(one) = 1
        BY OneOf
  <2> HIDE DEF T, rows, one
  <2>4. Len(one \o rows) = Len(one) + Len(rows)
        BY <2>2, <2>3, ConcatProperties
  <2>5. Len(shapes) = Len(one \o rows)
        BY <1>3, <2>1 DEF one
  <2> QED BY <1>5, <2>3, <2>4, <2>5
<1>7. \A i : Below(class, a, i) = Sunk("defs", i)
      BY DEF Below, Sunk
<1>8. \A i \in DOMAIN shapes : shapes[i] \in Nested[n - Sunk("defs", i)].shapes
      BY <1>3, <1>7
<1>9. t = KeyedTree("defs", keys, shapes)
      BY MadeArms
<1>10. needed \in Seq(BOOLEAN)
  <2>1. DOMAIN needed = DOMAIN shapes /\ needed = [i \in DOMAIN shapes |-> needed[i]]
        /\ \A i \in DOMAIN shapes : needed[i] \in BOOLEAN
        OBVIOUS
  <2> HIDE DEF needed
  <2> QED BY <1>3, <2>1, SeqOf
<1>11. t = Keyed("defs", shapes, keys, needed, <<>>, "", <<>>)
       BY <1>9, KeyedTrees
<1> HIDE DEF t, keys, needed
<1>12. t.kind = "defs" /\ t.kids = shapes /\ t.keys = keys
       BY <1>11 DEF Keyed
<1>13. WellMade(t)
       BY <1>6, <1>9, <1>12 DEF WellMade
<1>14. /\ "defs" \in {"defs", "table", "hooked", "fields"} /\ "" \in Spelling
       /\ <<>> \in Seq(Nested[n - 2].shapes) /\ <<>> \in Seq(Nested[n - 2].data \cup {Bad})
       BY BlankFields
<1>15. t \in Nested[n].shapes
       BY <1>2, <1>3, <1>5, <1>8, <1>10, <1>11, <1>13, <1>14, KeyedTyped
<1> QED BY <1>15 DEF t

LEMMA MadeTyped6 ==
  ASSUME NEW n, NEW class, NEW a, NEW shapes, Given(n, class, a, shapes), class = "Table"
  PROVE  MadeOf(class, a, shapes) \in Nested[n].shapes
<1> DEFINE t == MadeOf(class, a, shapes)
           keys == RowNames(a[1].items)
           L == Len(a[1].items)
           among == Among(a, shapes)
           after == After(a, shapes)
           needed == [i \in DOMAIN among |-> a[1].items[i].items[2].num = 1]
           arg == IF after = <<>> THEN AsExpr(a[2]).word.name ELSE "shape"
<1>1. TakesFields(n, class, a) /\ Proper(class, a)
      BY DEF Given, TakesFields
<1>2. /\ n \in Int /\ n > 1 /\ n - 1 \in Int /\ n - 3 \in Int /\ n - 1 <= Nesting
             /\ (n - 1) - 2 = n - 3
      /\ a[1] \in Nested[n - 1].data
      BY <1>1, ReadsTyped
<1>3. \A i \in DOMAIN shapes : shapes[i] \in Nested[n - Below(class, a, i)].shapes
      BY GivenTyped
<1>4. IsRows(a[1], 3) /\ 3 \in {2, 3} /\ IsPolicy(AsExpr(a[2]))
      BY <1>1, ProperArms
<1>5. keys \in Seq(Words) /\ Len(keys) = L
      BY <1>2, <1>4, RowsTyped
<1>6. /\ among \in Seq(Nested[n - 1].shapes) /\ Len(among) = L /\ DOMAIN among = 1..L /\ L \in Nat
      /\ \A i \in 1..L : among[i] = shapes[i] /\ i \in DOMAIN shapes
      /\ after \in Seq(Nested[n - 2].shapes) /\ Len(after) \in {0, 1}
      /\ (after = <<>> <=> AsExpr(a[2]).form # "list")
      BY DividedTyped
<1>7. ASSUME NEW i \in DOMAIN among PROVE among[i] \in Nested[n - Sunk("table", i)].shapes
  <2>1. i \in 1..L /\ i <= L
        BY <1>6, <1>7
  <2>2. Below(class, a, i) = 3 /\ Sunk("table", i) = 3
        BY <2>1 DEF Below, Sunk
  <2> QED BY <1>3, <1>6, <2>1, <2>2
<1>8. /\ after = <<>> => arg \in {"allow", "reject"}
      /\ after # <<>> => arg = "shape"
      /\ arg \in Spelling
  <2>1. ASSUME after = <<>> PROVE arg \in {"allow", "reject"}
    <3>1. AsExpr(a[2]).form = "symbol"
          BY <1>4, <1>6, <2>1, Zenon DEF IsPolicy
    <3>2. AsExpr(a[2]).word.name \in {"allow", "reject"}
          BY <1>4, <3>1, Zenon DEF IsPolicy
    <3> QED BY <2>1, <3>2
  <2> QED BY <2>1, WordsSpelt
<1>9. t = TableMade(a, among, after)
      BY MadeArms
<1>10. t = TableWith(keys, among, arg, needed, after)
       BY <1>9 DEF TableMade, TableWith
<1>11. needed \in Seq(BOOLEAN) /\ Len(needed) = L
  <2>1. DOMAIN needed = DOMAIN among /\ needed = [i \in DOMAIN among |-> needed[i]]
        /\ \A i \in DOMAIN among : needed[i] \in BOOLEAN
        OBVIOUS
  <2> HIDE DEF needed, among, L
  <2>2. needed \in Seq(BOOLEAN)
        BY <1>6, <2>1, SeqOf
  <2> QED BY <1>6, <2>1, <2>2
<1> HIDE DEF t, keys, L, among, after, needed, arg
<1>12. t = Keyed("table", among, keys, needed, after, arg, <<>>)
       BY <1>10, KeyedTrees
<1>13. t.kind = "table" /\ t.kids = among /\ t.keys = keys /\ t.needed = needed /\ t.rest = after
           /\ t.arg = arg
       BY <1>12 DEF Keyed
<1>14. WellMade(t)
  <2>1. t = [TableTree(t.keys, t.kids, t.arg) EXCEPT !.needed = t.needed, !.rest = t.rest]
        BY <1>10, <1>13 DEF TableWith
  <2>2. Len(t.kids) = Len(t.keys) /\ Len(t.kids) = Len(t.needed)
        BY <1>5, <1>6, <1>11, <1>13
  <2>3. IF t.rest = <<>> THEN t.arg \in {"allow", "reject"} ELSE Len(t.rest) = 1 /\ t.arg = "shape"
    <3>1. after # <<>> => Len(after) = 1
          BY <1>6
    <3> QED BY <1>8, <1>13, <3>1
  <2> QED BY <1>13, <2>1, <2>2, <2>3 DEF WellMade
<1>15. "table" \in {"defs", "table", "hooked", "fields"}
           /\ <<>> \in Seq(Nested[n - 2].data \cup {Bad})
       BY BlankFields
<1>16. t \in Nested[n].shapes
       BY <1>2, <1>5, <1>6, <1>7, <1>8, <1>11, <1>12, <1>14, <1>15, KeyedTyped
<1> QED BY <1>16 DEF t

LEMMA MadeTyped ==
  ASSUME NEW n, NEW class, NEW a, NEW shapes, Given(n, class, a, shapes)
  PROVE  MadeOf(class, a, shapes) \in Nested[n].shapes
<1>1. class \in DOMAIN Fields
      BY DEF Given, TakesFields
<1> QED BY <1>1, Classes, MadeTyped1, MadeTyped2, MadeTyped3, MadeTyped4, MadeTyped5, MadeTyped6

DecodeBy(f, d) == ReadFrom(d, [i \in DOMAIN Inside(d) |-> f[Inside(d)[i]]])

LEMMA ReadArms ==
  ASSUME NEW d, NEW shapes
  PROVE  /\ d.form = "shape" => ReadFrom(d, shapes) = d.shape
         /\ d.form # "shape" /\ Constructs(Datum(d)) /\ Whole(shapes) =>
              ReadFrom(d, shapes) = Made(MadeOf(ClassOf(Datum(d)), FieldsOf(Datum(d)), shapes))
         /\ d.form # "shape" /\ ~(Constructs(Datum(d)) /\ Whole(shapes)) =>
              ReadFrom(d, shapes) = Refused
<1>1. CASE d.form = "shape"
      BY <1>1, Zenon DEF ReadFrom
<1>2. CASE d.form # "shape" /\ Constructs(Datum(d)) /\ Whole(shapes)
      BY <1>2, Zenon DEF ReadFrom
<1>3. CASE d.form # "shape" /\ ~(Constructs(Datum(d)) /\ Whole(shapes))
      BY <1>3, Zenon DEF ReadFrom
<1> QED BY <1>1, <1>2, <1>3

(* A datum from which a constructor makes a shape, and its fields.         *)
LEMMA ConstructsReads ==
  ASSUME NEW n \in Int, n <= Nesting, NEW d \in Nested[n].data, Constructs(Datum(d))
  PROVE  /\ TakesFields(n, ClassOf(Datum(d)), FieldsOf(Datum(d)))
         /\ Inside(d) = Inner(ClassOf(Datum(d)), FieldsOf(Datum(d)))
<1> DEFINE c == Datum(d)
<1>1. c \in Nested[n].data \cup {Bad}
      BY DatumOfTyped
<1>2. Inside(d) = Inner(ClassOf(c), FieldsOf(c))
      BY DEF Inside
<1> HIDE DEF c
<1>3. Constructs(c)
      BY DEF c
<1>4. TakesFields(n, ClassOf(c), FieldsOf(c))
      BY <1>1, <1>3, FieldsTyped DEF TakesFields
<1> QED BY <1>2, <1>4 DEF c

LEMMA InsideTyped ==
  ASSUME NEW n \in Int, n <= Nesting, NEW d \in Nested[n].data
  PROVE  Inside(d) \in Seq(Nested[n - 1].data)
<1>1. CASE Constructs(Datum(d))
      BY <1>1, ConstructsReads, InnerTyped
<1>2. CASE ~Constructs(Datum(d))
  <2>1. Inside(d) = <<>>
        BY <1>2 DEF Inside
  <2> QED BY <2>1, NoneOf
<1> QED BY <1>1, <1>2

LEMMA ReadTyped ==
  ASSUME NEW n \in Int, n <= Nesting, NEW d \in Nested[n].data, NEW shapes,
         DOMAIN shapes = DOMAIN Inside(d), shapes = [i \in DOMAIN Inside(d) |-> shapes[i]],
         \A i \in DOMAIN Inside(d) : \A k \in Int :
           k < n /\ Inside(d)[i] \in Nested[k].data => shapes[i] \in Nested[k].shapes \cup {Refused}
  PROVE  ReadFrom(d, shapes) \in Nested[n].shapes \cup {Refused}
<1>1. CASE d.form = "shape"
  <2>1. ReadFrom(d, shapes) = d.shape
        BY <1>1, ReadArms
  <2>2. d.shape \in Nested[n - 1].shapes /\ n - 1 \in Int /\ n - 1 <= n
        BY <1>1, DatumTyped
  <2>3. Nested[n - 1].shapes \subseteq Nested[n].shapes
        BY <2>2, Deeper
  <2> QED BY <2>1, <2>2, <2>3
<1>2. CASE d.form # "shape" /\ Constructs(Datum(d)) /\ Whole(shapes)
  <2> DEFINE class == ClassOf(Datum(d))
             a == FieldsOf(Datum(d))
  <2>1. ReadFrom(d, shapes) = Made(MadeOf(class, a, shapes))
        BY <1>2, ReadArms
  <2>2. TakesFields(n, class, a) /\ Inside(d) = Inner(class, a)
        BY <1>2, ConstructsReads
  <2> HIDE DEF class, a
  <2>3. ASSUME NEW i \in DOMAIN Inner(class, a)
        PROVE  shapes[i] \in Nested[n - Below(class, a, i)].shapes
    <3>1. Inner(class, a)[i] \in Nested[n - Below(class, a, i)].data
          BY <2>2, <2>3, InnerTyped
    <3>2. Below(class, a, i) \in 1..3
          BY DEF Below
    <3>3. n - Below(class, a, i) \in Int /\ n - Below(class, a, i) < n
          BY <3>2
    <3>4. shapes[i] # Refused
          BY <1>2, <2>2, <2>3 DEF Whole
    <3>5. shapes[i] \in Nested[n - Below(class, a, i)].shapes \cup {Refused}
          BY <2>2, <2>3, <3>1, <3>3
    <3> QED BY <3>4, <3>5
  <2>4. Given(n, class, a, shapes)
        BY <2>2, <2>3 DEF Given
  <2>5. MadeOf(class, a, shapes) \in Nested[n].shapes
        BY <2>4, MadeTyped
  <2> QED BY <2>1, <2>5 DEF Made
<1>3. CASE d.form # "shape" /\ ~(Constructs(Datum(d)) /\ Whole(shapes))
      BY <1>3, ReadArms
<1> QED BY <1>1, <1>2, <1>3

(* The least number of levels a datum has.                                 *)
DatumRank(d) ==
  CHOOSE n \in Nat : d \in Nested[n].data /\ \A m \in Nat : d \in Nested[m].data => n <= m

LEMMA DatumRankLeast ==
  ASSUME NEW n \in Int, NEW d \in Nested[n].data
  PROVE  /\ DatumRank(d) \in Nat /\ d \in Nested[DatumRank(d)].data
         /\ n \in Nat /\ DatumRank(d) <= n
<1> DEFINE T == {k \in Nat : d \in Nested[k].data}
<1>1. n \in T
      BY DatumTyped
<1>2. \E k \in T : \A m \in T : k <= m
      BY <1>1, LeastNumber
<1>3. \E k \in Nat : d \in Nested[k].data /\ \A m \in Nat : d \in Nested[m].data => k <= m
      BY <1>2
<1>4. /\ DatumRank(d) \in Nat /\ d \in Nested[DatumRank(d)].data
      /\ \A m \in Nat : d \in Nested[m].data => DatumRank(d) <= m
      BY <1>3, Zenon DEF DatumRank
<1> QED BY <1>1, <1>4

LEMMA PartsOfData ==
  ASSUME NEW d \in Data
  PROVE  /\ DatumRank(d) \in Nat
         /\ \A i \in DOMAIN Inside(d) :
              Inside(d)[i] \in Data /\ DatumRank(Inside(d)[i]) < DatumRank(d)
<1>1. Nesting \in Int
      BY NestingCounts
<1>2. DatumRank(d) \in Nat /\ d \in Nested[DatumRank(d)].data /\ DatumRank(d) <= Nesting
      BY <1>1, DatumRankLeast DEF Data
<1>3. DatumRank(d) \in Int /\ DatumRank(d) - 1 \in Int /\ DatumRank(d) - 1 <= Nesting
      BY <1>1, <1>2
<1>4. ASSUME NEW s \in Nested[DatumRank(d) - 1].data PROVE s \in Data /\ DatumRank(s) < DatumRank(d)
  <2>1. s \in Data
        BY <1>3, <1>4, DatumIsDatum
  <2>2. DatumRank(s) <= DatumRank(d) - 1 /\ DatumRank(s) \in Nat
        BY <1>3, <1>4, DatumRankLeast
  <2> QED BY <1>2, <2>1, <2>2
<1>5. Inside(d) \in Seq(Nested[DatumRank(d) - 1].data)
      BY <1>2, <1>3, InsideTyped
<1>6. \A i \in DOMAIN Inside(d) : Inside(d)[i] \in Nested[DatumRank(d) - 1].data
      BY <1>5
<1> QED BY <1>2, <1>4, <1>6

LEMMA ReadLevels ==
  ASSUME NEW f, \A d \in Data : DecodeBy(f, d) \in Shapes \cup {Refused} => f[d] = DecodeBy(f, d),
         NEW n \in Int, n <= Nesting, NEW d \in Nested[n].data
  PROVE  f[d] \in Nested[n].shapes \cup {Refused} /\ f[d] = DecodeBy(f, d)
<1> DEFINE Holds(k) == \A s \in Nested[k].data :
                         f[s] \in Nested[k].shapes \cup {Refused} /\ f[s] = DecodeBy(f, s)
           Lost == {k \in Nat : k <= Nesting /\ ~Holds(k)}
<1>1. Nesting \in Nat
      BY NestingCounts
<1>2. SUFFICES ASSUME Lost # {} PROVE FALSE
  <2>1. n \in Nat
        BY DatumRankLeast
  <2>2. Holds(n)
        BY <1>2, <2>1
  <2> QED BY <2>2
<1>3. PICK k \in Lost : \A j \in Lost : k <= j
      BY <1>2, LeastNumber
<1>4. k \in Nat /\ k \in Int /\ k <= Nesting /\ ~Holds(k)
      BY <1>3
<1>5. ASSUME NEW j \in Int, j < k PROVE Holds(j)
  <2>1. CASE j \in Nat
        BY <1>1, <1>3, <1>4, <1>5, <2>1
  <2>2. CASE j \notin Nat
    <3>1. \A s : s \notin Nested[j].data
      <4>1. \A s \in Nested[j].data : j \in Nat
            BY <1>5, DatumRankLeast
      <4> QED BY <2>2, <4>1
    <3> QED BY <3>1
  <2> QED BY <2>1, <2>2
<1> HIDE DEF Lost
<1>6. ASSUME NEW s \in Nested[k].data
      PROVE  f[s] \in Nested[k].shapes \cup {Refused} /\ f[s] = DecodeBy(f, s)
  <2> DEFINE shapes == [i \in DOMAIN Inside(s) |-> f[Inside(s)[i]]]
  <2>1. /\ DOMAIN shapes = DOMAIN Inside(s) /\ shapes = [i \in DOMAIN Inside(s) |-> shapes[i]]
        /\ \A i \in DOMAIN Inside(s) : shapes[i] = f[Inside(s)[i]]
        OBVIOUS
  <2>2. DecodeBy(f, s) = ReadFrom(s, shapes)
        BY DEF DecodeBy
  <2> HIDE DEF shapes
  <2>3. \A i \in DOMAIN Inside(s) : \A j \in Int :
          j < k /\ Inside(s)[i] \in Nested[j].data => shapes[i] \in Nested[j].shapes \cup {Refused}
        BY <1>5, <2>1
  <2>4. DecodeBy(f, s) \in Nested[k].shapes \cup {Refused}
        BY <1>4, <1>6, <2>1, <2>2, <2>3, ReadTyped
  <2>5. s \in Data
        BY <1>4, <1>6, DatumIsDatum
  <2>6. DecodeBy(f, s) \in Shapes \cup {Refused}
        BY <1>4, <2>4, ShapeIsShape
  <2> QED BY <2>4, <2>5, <2>6
<1> QED BY <1>4, <1>6

LEMMA DecodeExists == \E f : f = [d \in Data |-> DecodeBy(f, d)]
<1> DEFINE V == Shapes \cup {Refused}
           Height == [d \in Data |-> DatumRank(d)]
           Turned == [a \in [Data -> V] \X Data |->
                      IF DecodeBy(a[1], a[2]) \in V THEN DecodeBy(a[1], a[2]) ELSE Refused]
<1>1. Shrinks(Data, V, Height, Turned)
  <2>1. V # {} /\ Turned \in [[Data -> V] \X Data -> V]
        OBVIOUS
  <2>2. Height \in [Data -> Nat]
        BY PartsOfData
  <2>3. ASSUME NEW f \in [Data -> V], NEW g \in [Data -> V], NEW x \in Data,
               \A y \in Data : Height[y] < Height[x] => f[y] = g[y]
        PROVE  Turned[<<f, x>>] = Turned[<<g, x>>]
    <3>1. \A i \in DOMAIN Inside(x) : f[Inside(x)[i]] = g[Inside(x)[i]]
          BY <2>3, PartsOfData
    <3>2. [i \in DOMAIN Inside(x) |-> f[Inside(x)[i]]] =
              [i \in DOMAIN Inside(x) |-> g[Inside(x)[i]]]
          BY <3>1
    <3>3. DecodeBy(f, x) = DecodeBy(g, x)
          BY <3>2, Zenon DEF DecodeBy
    <3> QED BY <2>3, <3>3
  <2> HIDE DEF V, Height, Turned
  <2> QED BY <2>1, <2>2, <2>3 DEF Shrinks
<1>2. Solved(Data, V, Turned)
  <2> HIDE DEF V, Height, Turned
  <2> QED BY <1>1, Recursion
<1>3. PICK f \in [Data -> V] : f = [d \in Data |-> Turned[<<f, d>>]]
  <2> HIDE DEF V, Turned
  <2> QED BY <1>2 DEF Solved
<1>4. \A d \in Data : DecodeBy(f, d) \in V => f[d] = DecodeBy(f, d)
  <2> SUFFICES ASSUME NEW d \in Data, DecodeBy(f, d) \in V PROVE f[d] = DecodeBy(f, d)
      OBVIOUS
  <2>1. f[d] = Turned[<<f, d>>]
    <3> HIDE DEF Turned, V
    <3> QED BY <1>3
  <2> QED BY <2>1
<1>5. \A d \in Data : f[d] = DecodeBy(f, d)
  <2>1. Nesting \in Int /\ Nesting <= Nesting /\ Data = Nested[Nesting].data
        BY NestingCounts DEF Data
  <2> QED BY <1>4, <2>1, ReadLevels
<1>6. f = [d \in Data |-> DecodeBy(f, d)]
      BY <1>3, <1>5
<1> QED BY <1>6

LEMMA DecodeEquation == \A d \in Data : Decode[d] = DecodeBy(Decode, d)
<1>1. Decode = [d \in Data |-> DecodeBy(Decode, d)]
      BY DecodeExists, Zenon DEF Decode, DecodeBy
<1> DEFINE g == Decode
<1> HIDE DEF g
<1>2. g = [d \in Data |-> DecodeBy(g, d)]
      BY <1>1 DEF g
<1>3. \A d \in Data : g[d] = DecodeBy(g, d)
      BY <1>2
<1> QED BY <1>3 DEF g

(* What is read of a datum has no more levels than the datum.              *)
LEMMA DecodeTyped ==
  ASSUME NEW n \in Int, n <= Nesting, NEW d \in Nested[n].data
  PROVE  Decode[d] \in Nested[n].shapes \cup {Refused}
BY DecodeEquation, ReadLevels

-----------------------------------------------------------------------------
(* What is written of a shape is read as that shape.                       *)

Unwritten == {"capture", "fields", "number", "named"}

(* kids and rest: what is written of the parts of t.                       *)
Encoded(t, kids, rest) ==
  /\ kids \in Seq(Data \cup {Bad}) /\ Len(kids) = Len(t.kids)
  /\ rest \in Seq(Data \cup {Bad}) /\ Len(rest) = Len(t.rest)
  /\ \A i \in DOMAIN kids : kids[i] = Bad \/ kids[i].form = "call"
  /\ \A i \in DOMAIN rest : rest[i] = Bad \/ rest[i].form = "call"

Clean(t, kids, rest) ==
  /\ \A i \in DOMAIN kids : kids[i] # Bad
  /\ \A i \in DOMAIN rest : rest[i] # Bad
  /\ \A i \in DOMAIN t.marks : t.marks[i] # Bad

(* What is written of t is what is read of its parts, and makes t of them. *)
Returns(t, kids, rest) ==
  LET c == WrittenAs(t, kids, rest) IN
  /\ c # Bad <=> t.kind \notin Unwritten /\ Clean(t, kids, rest)
  /\ c # Bad => /\ Constructs(c)
                /\ Inner(ClassOf(c), FieldsOf(c)) = kids \o rest
                /\ MadeOf(ClassOf(c), FieldsOf(c), t.kids \o t.rest) = t

LEMMA ReturnsBy ==
  ASSUME NEW t, NEW kids, NEW rest, NEW class \in DOMAIN Fields, NEW S, NEW fields \in Seq(S),
         WrittenAs(t, kids, rest) = Make(class, fields), Len(fields) = Fields[class],
         t.kind \notin Unwritten,
         (\A i \in DOMAIN fields : fields[i] # Bad) <=> Clean(t, kids, rest),
         Clean(t, kids, rest) =>
           /\ Proper(class, fields) /\ Inner(class, fields) = kids \o rest
           /\ MadeOf(class, fields, t.kids \o t.rest) = t
  PROVE  Returns(t, kids, rest)
<1> DEFINE c == WrittenAs(t, kids, rest)
<1>1. c # Bad <=> Clean(t, kids, rest)
      BY CallMade
<1>2. ASSUME c # Bad
      PROVE  /\ Constructs(c) /\ ClassOf(c) = class /\ FieldsOf(c) = fields
  <2>1. c = Make(class, fields)
        OBVIOUS
  <2> HIDE DEF c
  <2>2. /\ ClassOf(c) = class /\ FieldsOf(c) = fields /\ IsMake(c)
        /\ Head(c.items).word = Word("shape", class) /\ Versioned(Tail(c.items), Len(fields))
        BY <1>2, <2>1, CallParts
  <2>3. Word("shape", class).space = "shape"
        BY DEF Word
  <2>4. Proper(class, fields)
        BY <1>1, <1>2
  <2> QED BY <2>2, <2>3, <2>4, Zenon DEF Constructs
<1> HIDE DEF c
<1>3. c # Bad =>
        /\ Constructs(c) /\ Inner(ClassOf(c), FieldsOf(c)) = kids \o rest
        /\ MadeOf(ClassOf(c), FieldsOf(c), t.kids \o t.rest) = t
      BY <1>1, <1>2
<1> QED BY <1>1, <1>3, Zenon DEF Returns, c

LEMMA EncodedTyped ==
  ASSUME NEW n \in Int, NEW t \in Nested[n].shapes, NEW kids, NEW rest, Encoded(t, kids, rest)
  PROVE  /\ kids \in Seq(Data \cup {Bad}) /\ Len(kids) = Len(t.kids) /\ DOMAIN kids = 1..Len(t.kids)
         /\ DOMAIN t.kids = 1..Len(t.kids) /\ Len(t.kids) \in Nat
         /\ rest \in Seq(Data \cup {Bad}) /\ Len(rest) = Len(t.rest) /\ DOMAIN rest = 1..Len(t.rest)
         /\ DOMAIN t.rest = 1..Len(t.rest) /\ Len(t.rest) \in Nat
         /\ t.kids \in Seq(Nested[n - 1].shapes) /\ t.rest \in Seq(Nested[n - 1].shapes)
         /\ WellMade(t) /\ t.kids = <<>> => kids = <<>>
         /\ t.rest = <<>> => rest = <<>>
<1>1. t.kids \in Seq(Nested[n - 1].shapes) /\ t.rest \in Seq(Nested[n - 1].shapes) /\ WellMade(t)
      BY ShapeTyped
<1>2. /\ kids \in Seq(Data \cup {Bad}) /\ Len(kids) = Len(t.kids)
      /\ rest \in Seq(Data \cup {Bad}) /\ Len(rest) = Len(t.rest)
      BY DEF Encoded
<1>3. /\ DOMAIN kids = 1..Len(t.kids) /\ DOMAIN t.kids = 1..Len(t.kids) /\ Len(t.kids) \in Nat
      /\ DOMAIN rest = 1..Len(t.rest) /\ DOMAIN t.rest = 1..Len(t.rest) /\ Len(t.rest) \in Nat
      BY <1>1, <1>2
<1>4. t.kids = <<>> => kids = <<>>
      BY <1>2
<1>5. t.rest = <<>> => rest = <<>>
      BY <1>2
<1> QED BY <1>1, <1>2, <1>3, <1>4, <1>5

(* Sequences taken apart where they were put together.                     *)
LEMMA JoinedApart ==
  ASSUME NEW S, NEW s \in Seq(S), NEW u \in Seq(S)
  PROVE  /\ SubSeq(s \o u, 1, Len(s)) = s
         /\ SubSeq(s \o u, Len(s) + 1, Len(s \o u)) = u
<1>1. /\ s \o u \in Seq(S) /\ Len(s \o u) = Len(s) + Len(u)
      /\ \A i \in 1..Len(s) + Len(u) : (s \o u)[i] = IF i <= Len(s) THEN s[i] ELSE u[i - Len(s)]
      BY ConcatProperties
<1>2. Len(s) \in Nat /\ Len(u) \in Nat
      OBVIOUS
<1> DEFINE w == s \o u
           k == Len(s)
           m == Len(u)
<1>3. w \in Seq(S) /\ Len(w) = k + m /\ k \in 0..Len(w)
      BY <1>1, <1>2
<1> HIDE DEF w
<1>4. /\ SubSeq(w, 1, k) \in Seq(S) /\ Len(SubSeq(w, 1, k)) = k
      /\ \A i \in 1..k : SubSeq(w, 1, k)[i] = w[i]
      /\ SubSeq(w, k + 1, Len(w)) \in Seq(S) /\ Len(SubSeq(w, k + 1, Len(w))) = Len(w) - k
      /\ \A i \in 1..Len(w) - k : SubSeq(w, k + 1, Len(w))[i] = w[k + i]
      BY <1>3, SplitAt
<1>5. ASSUME NEW i \in 1..k PROVE SubSeq(w, 1, k)[i] = s[i]
  <2>1. i \in 1..k + m /\ i <= k
        BY <1>2
  <2> QED BY <1>1, <1>4, <2>1 DEF w
<1>6. ASSUME NEW i \in 1..m PROVE SubSeq(w, k + 1, Len(w))[i] = u[i]
  <2>1. k + i \in 1..k + m /\ ~(k + i <= k) /\ (k + i) - k = i /\ i \in 1..Len(w) - k
        BY <1>2, <1>3
  <2>2. w[k + i] = u[i]
        BY <1>1, <2>1 DEF w
  <2> QED BY <1>4, <2>1, <2>2
<1>7. Len(w) - k = m
      BY <1>2, <1>3
<1>8. SubSeq(w, 1, k) = s
      BY <1>4, <1>5, SeqEqual
<1>9. SubSeq(w, k + 1, Len(w)) = u
      BY <1>4, <1>6, <1>7, SeqEqual
<1> QED BY <1>8, <1>9 DEF w

LEMMA ReturnsAtom ==
  ASSUME NEW n \in Int, NEW t \in Nested[n].shapes, NEW kids, NEW rest, Encoded(t, kids, rest),
         t.kind \in {"any", "exact", "exprKind", "class", "ref"}
  PROVE  Returns(t, kids, rest)
<1>1. /\ WellMade(t) /\ (t.kind = "exact" => t.name \in Nested[n - 1].data) /\ n - 1 \in Int
      /\ t.arg \in Spelling
      BY ShapeTyped
<1>2. t.kids = <<>> /\ t.rest = <<>> /\ t.marks = <<>>
  <2>1. \E kind, name, arg : t = Plain(kind, <<>>, name, <<>>, arg, 0, None)
    <3>1. CASE t.kind = "any"
          BY <1>1, <3>1, Trees DEF WellMade
    <3>2. CASE t.kind = "exact"
          BY <1>1, <3>2, Trees DEF WellMade
    <3>3. CASE t.kind = "exprKind"
          BY <1>1, <3>3, Trees DEF WellMade
    <3>4. CASE t.kind \in {"class", "ref"}
          BY <1>1, <3>4, Trees DEF WellMade
    <3> QED BY <3>1, <3>2, <3>3, <3>4
  <2> QED BY <2>1 DEF Plain
<1>3. kids = <<>> /\ rest = <<>>
      BY <1>2, EncodedTyped
<1>4. Clean(t, kids, rest) /\ kids \o rest = <<>> /\ t.kids \o t.rest = <<>>
  <2>1. \A i : i \notin DOMAIN <<>>
        OBVIOUS
  <2>2. <<>> \o <<>> = <<>>
        OBVIOUS
  <2> QED BY <1>2, <1>3, <2>1, <2>2 DEF Clean
<1>5. t.kind \notin Unwritten
      BY DEF Unwritten
<1>5a. \A a : \A class \in {"Any", "ExactExpr", "ExprKind", "Class", "Ref"} :
        Inner(class, a) = kids \o rest
      BY <1>4, InnerArms
<1>6. \A w \in Words : w # None
      BY CodecAssumption DEF Words
<1>7. ASSUME NEW x, x # Bad
      PROVE  <<x>> \in Seq({x}) /\ Len(<<x>>) = 1 /\ <<x>>[1] = x
                 /\ \A i \in DOMAIN <<x>> : <<x>>[i] # Bad
      BY <1>7, OneOf
<1>8. CASE t.kind = "any"
  <2>1. WrittenAs(t, kids, rest) = Make("Any", <<>>)
        BY <1>8, Zenon DEF WrittenAs
  <2>2. t = Leaf
        BY <1>1, <1>8 DEF WellMade
  <2>3. <<>> \in Seq({}) /\ Len(<<>>) = Fields["Any"] /\ "Any" \in DOMAIN Fields
        /\ \A i \in DOMAIN <<>> : <<>>[i] # Bad
        BY Classes
  <2>4. Proper("Any", <<>>)
        BY ProperArms
  <2>5. Inner("Any", <<>>) = kids \o rest
        BY <1>5a
  <2>6. MadeOf("Any", <<>>, t.kids \o t.rest) = t
        BY <2>2, MadeArms
  <2> QED BY <1>4, <1>5, <2>1, <2>3, <2>4, <2>5, <2>6, ReturnsBy
<1>9. CASE t.kind = "exact"
  <2> DEFINE a == <<t.name>>
  <2>1. WrittenAs(t, kids, rest) = Make("ExactExpr", a)
        BY <1>9, Zenon DEF WrittenAs
  <2>2. t = NameTree("exact", t.name) /\ t.name.form # "shape"
        BY <1>1, <1>9 DEF WellMade
  <2>3. t.name # Bad
        BY <1>1, <1>9, BadOutside
  <2>4. a \in Seq({t.name}) /\ Len(a) = 1 /\ a[1] = t.name /\ \A i \in DOMAIN a : a[i] # Bad
        BY <1>7, <2>3
  <2>5. AsExpr(t.name) = t.name
        BY <2>2, Zenon DEF AsExpr
  <2> HIDE DEF a
  <2>6. Proper("ExactExpr", a)
        BY <2>3, <2>4, <2>5, ProperArms
  <2>8. Inner("ExactExpr", a) = kids \o rest
        BY <1>5a
  <2>9. MadeOf("ExactExpr", a, t.kids \o t.rest) = t
        BY <2>2, <2>4, <2>5, MadeArms
  <2>7. Len(a) = Fields["ExactExpr"] /\ "ExactExpr" \in DOMAIN Fields
        BY <2>4, Classes
  <2> QED BY <1>4, <1>5, <2>1, <2>4, <2>6, <2>7, <2>8, <2>9, ReturnsBy
<1>10. CASE t.kind = "exprKind"
  <2> DEFINE w == Word("", t.arg)
             a == <<Symbol(w)>>
  <2>1. WrittenAs(t, kids, rest) = Make("ExprKind", a)
        BY <1>10, Zenon DEF WrittenAs
  <2>2. t = KindTree(t.arg) /\ t.arg \in ExprKinds
        BY <1>1, <1>10 DEF WellMade
  <2>3. Symbol(w) # Bad /\ WordOf(Symbol(w)) = w
        BY SymbolRead
  <2>4. a \in Seq({Symbol(w)}) /\ Len(a) = 1 /\ a[1] = Symbol(w) /\ \A i \in DOMAIN a : a[i] # Bad
        BY <1>7, <2>3
  <2>5. w # None /\ w.name = t.arg
    <3>1. w \in Words
          BY <1>1, WordsSpelt
    <3>2. w.name = t.arg
          BY DEF Word
    <3> QED BY <1>6, <3>1, <3>2
  <2> HIDE DEF a, w
  <2>6. NameIn(a[1], ExprKinds) /\ WordOf(a[1]).name = t.arg
        BY <2>2, <2>3, <2>4, <2>5 DEF NameIn
  <2>7. Proper("ExprKind", a)
        BY <2>6, ProperArms
  <2>9. Inner("ExprKind", a) = kids \o rest
        BY <1>5a
  <2>10. MadeOf("ExprKind", a, t.kids \o t.rest) = t
        BY <2>2, <2>6, MadeArms
  <2>8. Len(a) = Fields["ExprKind"] /\ "ExprKind" \in DOMAIN Fields
        BY <2>4, Classes
  <2> QED BY <1>4, <1>5, <2>1, <2>4, <2>7, <2>8, <2>9, <2>10, ReturnsBy
<1>11. CASE t.kind \in {"class", "ref"}
  <2> DEFINE class == IF t.kind = "class" THEN "Class" ELSE "Ref"
             a == <<Symbol(t.name)>>
  <2>1. WrittenAs(t, kids, rest) = Make(class, a)
    <3>1. CASE t.kind = "class"
          BY <3>1, Zenon DEF WrittenAs
    <3>2. CASE t.kind = "ref"
          BY <3>2, Zenon DEF WrittenAs
    <3> QED BY <1>11, <3>1, <3>2
  <2>2. t = NameTree(t.kind, t.name) /\ t.name \in Words
        BY <1>1, <1>11 DEF WellMade
  <2>3. Symbol(t.name) # Bad /\ WordOf(Symbol(t.name)) = t.name /\ t.name # None
        BY <1>6, <2>2, SymbolRead
  <2>4. a \in Seq({Symbol(t.name)}) /\ Len(a) = 1 /\ a[1] = Symbol(t.name)
            /\ \A i \in DOMAIN a : a[i] # Bad
        BY <1>7, <2>3
  <2> HIDE DEF a
  <2>5. Proper(class, a)
    <3>1. WordOf(a[1]) # None
          BY <2>3, <2>4
    <3>2. Proper("Class", a) /\ Proper("Ref", a)
          BY <3>1, ProperArms
    <3> QED BY <3>2
  <2>7. Inner(class, a) = kids \o rest
        BY <1>5a
  <2>8. MadeOf(class, a, t.kids \o t.rest) = t
    <3>1. WordOf(a[1]) = t.name
          BY <2>3, <2>4
    <3>2. /\ MadeOf("Class", a, t.kids \o t.rest) = NameTree("class", t.name)
          /\ MadeOf("Ref", a, t.kids \o t.rest) = NameTree("ref", t.name)
          BY <3>1, MadeArms
    <3>3. CASE t.kind = "class"
          BY <2>2, <3>2, <3>3
    <3>4. CASE t.kind = "ref"
          BY <2>2, <3>2, <3>4
    <3> QED BY <1>11, <3>3, <3>4
  <2>6. Len(a) = Fields[class] /\ class \in DOMAIN Fields
        BY <2>4, Classes
  <2> QED BY <1>4, <1>5, <2>1, <2>4, <2>5, <2>6, <2>7, <2>8, ReturnsBy
<1> QED BY <1>8, <1>9, <1>10, <1>11

LEMMA GroupFields ==
  /\ \A form, items : /\ Group(form, items).form = form /\ Group(form, items).items = items
                      /\ Group(form, items).word = None
  /\ \A k : Number(k).form = "number" /\ Number(k).num = k /\ Number(k) # Nil /\ Number(k) # Bad
  /\ \A yes \in BOOLEAN : /\ Bool(yes).form = "bool" /\ (Bool(yes).num = 1 <=> yes = TRUE)
                          /\ Bool(yes) # Bad
  /\ Nil.form = "nil" /\ Nil # Bad /\ Bad.form = "bad"
<1>1. \A form, items : /\ Group(form, items).form = form /\ Group(form, items).items = items
                       /\ Group(form, items).word = None
      BY DEF Group, Nil
<1>2. \A k : Number(k).form = "number" /\ Number(k).num = k
      BY DEF Number, Nil
<1>3. \A yes \in BOOLEAN : Bool(yes).form = "bool" /\ (Bool(yes).num = 1 <=> yes = TRUE)
      BY DEF Bool, Nil
<1>4. Nil.form = "nil" /\ Bad.form = "bad"
      BY DEF Nil, Bad
<1> QED BY <1>1, <1>2, <1>3, <1>4

(* A shape of these kinds has no rest, and hooks only around it.           *)
Flat(t, kids, rest) ==
  /\ rest = <<>> /\ kids \o rest = kids /\ t.kids \o t.rest = t.kids
  /\ Clean(t, kids, rest) <=> /\ \A i \in DOMAIN kids : kids[i] # Bad
                              /\ \A i \in DOMAIN t.marks : t.marks[i] # Bad
  /\ t.kind # "hooked" => t.marks = <<>>
  /\ t.kind \notin Unwritten

LEMMA Restless ==
  ASSUME NEW n \in Int, NEW t \in Nested[n].shapes, NEW kids, NEW rest, Encoded(t, kids, rest),
         t.kind \in {"and", "or", "not", "repeat", "defs", "hooked"}
  PROVE  Flat(t, kids, rest)
<1>1. WellMade(t)
      BY ShapeTyped
<1>2. t.rest = <<>> /\ (t.kind # "hooked" => t.marks = <<>>)
  <2>1. CASE t.kind \in {"and", "or", "not", "repeat"}
    <3>1. \/ t = Tree("and", t.kids) \/ t = OrTree(t.kids, t.arg) \/ t = Tree("not", t.kids)
          \/ t = RepeatTree(t.kids[1], t.min, t.max)
          BY <1>1, <2>1 DEF WellMade
    <3>2. \/ t = Plain("and", t.kids, None, <<>>, "", 0, None)
          \/ t = Plain("or", t.kids, None, <<>>, t.arg, 0, None)
          \/ t = Plain("not", t.kids, None, <<>>, "", 0, None)
          \/ t = Plain("repeat", <<t.kids[1]>>, None, <<>>, "", t.min, t.max)
          BY <3>1, Trees
    <3>3. \E kind, k, arg, min, max : t = Plain(kind, k, None, <<>>, arg, min, max)
          BY <3>2
    <3> QED BY <3>3 DEF Plain
  <2>2. CASE t.kind = "defs"
    <3>1. t = KeyedTree("defs", t.keys, t.kids)
          BY <1>1, <2>2 DEF WellMade
    <3> DEFINE needed == [i \in DOMAIN t.kids |-> FALSE]
    <3>2. t = Keyed("defs", t.kids, t.keys, needed, <<>>, "", <<>>)
          BY <3>1, KeyedTrees
    <3> HIDE DEF needed
    <3>3. PICK k, keys, n1 : t = Keyed("defs", k, keys, n1, <<>>, "", <<>>)
          BY <3>2
    <3> QED BY <3>3 DEF Keyed
  <2>3. CASE t.kind = "hooked"
    <3>1. t = [Tree("hooked", t.kids) EXCEPT !.marks = t.marks]
          BY <1>1, <2>3 DEF WellMade
    <3>2. t = Keyed("hooked", t.kids, <<>>, <<>>, <<>>, "", t.marks)
          BY <3>1, KeyedTrees
    <3>3. PICK k, marks : t = Keyed("hooked", k, <<>>, <<>>, <<>>, "", marks)
          BY <3>2
    <3>4. t.rest = <<>>
          BY <3>3 DEF Keyed
    <3> QED BY <2>3, <3>4
  <2> QED BY <2>1, <2>2, <2>3
<1>3. rest = <<>>
      BY <1>2, EncodedTyped
<1>4. kids \in Seq(Data \cup {Bad}) /\ t.kids \in Seq(Nested[n - 1].shapes)
      BY EncodedTyped
<1>5. kids \o <<>> = kids /\ t.kids \o <<>> = t.kids
      BY <1>4
<1>6. \A i : i \notin DOMAIN <<>>
      OBVIOUS
<1>7. Clean(t, kids, rest) <=> /\ \A i \in DOMAIN kids : kids[i] # Bad
                               /\ \A i \in DOMAIN t.marks : t.marks[i] # Bad
      BY <1>3, <1>6, Zenon DEF Clean
<1>8. t.kind \notin Unwritten
      BY DEF Unwritten
<1> QED BY <1>2, <1>3, <1>5, <1>7, <1>8, Zenon DEF Flat

LEMMA ReturnsGroup ==
  ASSUME NEW n \in Int, NEW t \in Nested[n].shapes, NEW kids, NEW rest, Encoded(t, kids, rest),
         t.kind \in {"and", "or"}
  PROVE  Returns(t, kids, rest)
<1> DEFINE l == ListOf(kids)
           s == Symbol(Word("", t.arg))
<1>1. WellMade(t) /\ t.arg \in Spelling
      BY ShapeTyped
<1>2. /\ rest = <<>> /\ kids \o rest = kids /\ t.kids \o t.rest = t.kids
      /\ Clean(t, kids, rest) <=> \A i \in DOMAIN kids : kids[i] # Bad
      /\ t.kind \notin Unwritten
  <2>1. t.kind \in {"and", "or", "not", "repeat", "defs", "hooked"} /\ t.kind # "hooked"
        OBVIOUS
  <2>2. \A i : i \notin DOMAIN <<>>
        OBVIOUS
  <2>3. Flat(t, kids, rest)
        BY <2>1, Restless
  <2> QED BY <2>1, <2>2, <2>3, Zenon DEF Flat
<1>3. /\ l # Bad <=> Clean(t, kids, rest)
      /\ l # Bad => l.form = "list" /\ l.items = kids
      BY <1>2, ListMade, GroupFields
<1>4. s # Bad /\ WordOf(s) = Word("", t.arg)
      BY SymbolRead
<1> HIDE DEF l, s
<1>5. CASE t.kind = "and"
  <2> DEFINE a == <<l>>
  <2>1. WrittenAs(t, kids, rest) = Make("And", a)
        BY <1>5, Zenon DEF WrittenAs, l
  <2>2. t = Tree("and", t.kids)
        BY <1>1, <1>5 DEF WellMade
  <2>3. a \in Seq({l}) /\ Len(a) = 1 /\ a[1] = l /\ DOMAIN a = {1}
        BY OneOf
  <2> HIDE DEF a
  <2>4. (\A i \in DOMAIN a : a[i] # Bad) <=> Clean(t, kids, rest)
        BY <1>3, <2>3
  <2>5. Len(a) = Fields["And"] /\ "And" \in DOMAIN Fields
        BY <2>3, Classes
  <2>6. ASSUME Clean(t, kids, rest)
        PROVE  /\ Proper("And", a) /\ Inner("And", a) = kids \o rest
               /\ MadeOf("And", a, t.kids \o t.rest) = t
    <3>1. a[1].form = "list" /\ a[1].items = kids
          BY <1>3, <2>3, <2>6
    <3>2. Proper("And", a)
          BY <3>1, ProperArms
    <3>3. Inner("And", a) = kids \o rest
          BY <1>2, <3>1, InnerArms
    <3>4. MadeOf("And", a, t.kids \o t.rest) = t
          BY <1>2, <2>2, MadeArms
    <3> QED BY <3>2, <3>3, <3>4
  <2> QED BY <1>2, <2>1, <2>3, <2>4, <2>5, <2>6, ReturnsBy
<1>6. CASE t.kind = "or"
  <2> DEFINE a == <<l, s>>
  <2>1. WrittenAs(t, kids, rest) = Make("Or", a)
        BY <1>6, Zenon DEF WrittenAs, l, s
  <2>2. t = OrTree(t.kids, t.arg) /\ t.arg \in Strategies
        BY <1>1, <1>6 DEF WellMade
  <2>3. a \in Seq({l, s}) /\ Len(a) = 2 /\ a[1] = l /\ a[2] = s /\ DOMAIN a = {1, 2}
        BY TwoOf
  <2> HIDE DEF a
  <2>4. (\A i \in DOMAIN a : a[i] # Bad) <=> Clean(t, kids, rest)
        BY <1>3, <1>4, <2>3
  <2>5. Len(a) = Fields["Or"] /\ "Or" \in DOMAIN Fields
        BY <2>3, Classes
  <2>6. Word("", t.arg) # None /\ Word("", t.arg).name = t.arg
    <3>1. Word("", t.arg) \in Words
          BY <1>1, WordsSpelt
    <3> QED BY <3>1, CodecAssumption DEF Words, Word
  <2>7. NameIn(a[2], Strategies) /\ WordOf(a[2]).name = t.arg
        BY <1>4, <2>2, <2>3, <2>6 DEF NameIn
  <2>8. ASSUME Clean(t, kids, rest)
        PROVE  /\ Proper("Or", a) /\ Inner("Or", a) = kids \o rest
               /\ MadeOf("Or", a, t.kids \o t.rest) = t
    <3>1. a[1].form = "list" /\ a[1].items = kids
          BY <1>3, <2>3, <2>8
    <3>2. Proper("Or", a)
          BY <2>7, <3>1, ProperArms
    <3>3. Inner("Or", a) = kids \o rest
          BY <1>2, <3>1, InnerArms
    <3>4. MadeOf("Or", a, t.kids \o t.rest) = t
          BY <1>2, <2>2, <2>7, MadeArms
    <3> QED BY <3>2, <3>3, <3>4
  <2> QED BY <1>2, <2>1, <2>3, <2>4, <2>5, <2>8, ReturnsBy
<1> QED BY <1>5, <1>6

LEMMA ReturnsOne ==
  ASSUME NEW n \in Int, NEW t \in Nested[n].shapes, NEW kids, NEW rest, Encoded(t, kids, rest),
         t.kind \in {"not", "repeat"}
  PROVE  Returns(t, kids, rest)
<1>1. WellMade(t) /\ t.min \in Nat /\ t.max \in Nat \cup {None} /\ Len(t.kids) = 1
      BY ShapeTyped DEF WellMade
<1>2. /\ rest = <<>> /\ kids \o rest = kids /\ t.kids \o t.rest = t.kids
      /\ Clean(t, kids, rest) <=> \A i \in DOMAIN kids : kids[i] # Bad
      /\ t.kind \notin Unwritten
  <2>1. t.kind \in {"and", "or", "not", "repeat", "defs", "hooked"} /\ t.kind # "hooked"
        OBVIOUS
  <2>2. \A i : i \notin DOMAIN <<>>
        OBVIOUS
  <2>3. Flat(t, kids, rest)
        BY <2>1, Restless
  <2> QED BY <2>1, <2>2, <2>3, Zenon DEF Flat
<1>3. kids \in Seq(Data \cup {Bad}) /\ Len(kids) = 1 /\ DOMAIN kids = {1} /\ kids = <<kids[1]>>
      BY <1>1, EncodedTyped
<1>4. t.kids = <<t.kids[1]>>
  <2>1. t.kids \in Seq(Nested[n - 1].shapes)
        BY EncodedTyped
  <2> QED BY <1>1, <2>1
<1>5. CASE t.kind = "not"
  <2>1. WrittenAs(t, kids, rest) = Make("Not", kids)
        BY <1>5, Zenon DEF WrittenAs
  <2>2. t = Tree("not", t.kids)
        BY <1>1, <1>5 DEF WellMade
  <2>3. Len(kids) = Fields["Not"] /\ "Not" \in DOMAIN Fields
        BY <1>3, Classes
  <2>4. Proper("Not", kids)
        BY ProperArms
  <2>5. Inner("Not", kids) = kids \o rest
        BY <1>2, <1>3, InnerArms
  <2>6. MadeOf("Not", kids, t.kids \o t.rest) = t
        BY <1>2, <2>2, MadeArms
  <2> QED BY <1>2, <1>3, <2>1, <2>3, <2>4, <2>5, <2>6, ReturnsBy
<1>6. CASE t.kind = "repeat"
  <2> DEFINE lo == Number(t.min)
             hi == Count(t.max)
             a == <<kids[1], lo, hi>>
  <2>1. WrittenAs(t, kids, rest) = Make("Repeat", a)
        BY <1>6, Zenon DEF WrittenAs
  <2>2. t = RepeatTree(t.kids[1], t.min, t.max)
        BY <1>1, <1>6 DEF WellMade
  <2>3. /\ a \in Seq({kids[1], lo, hi}) /\ Len(a) = 3 /\ DOMAIN a = {1, 2, 3}
        /\ a[1] = kids[1] /\ a[2] = lo /\ a[3] = hi
        BY ThreeOf
  <2>4. lo # Bad /\ lo.form = "number" /\ lo.num = t.min
        BY GroupFields
  <2>5. /\ hi # Bad /\ hi.form \in {"nil", "number"}
        /\ (IF hi = Nil THEN None ELSE hi.num) = t.max
    <3>1. CASE t.max = None
          BY <3>1, GroupFields DEF Count
    <3>2. CASE t.max # None
          BY <3>2, GroupFields DEF Count
    <3> QED BY <3>1, <3>2
  <2> HIDE DEF a, lo, hi
  <2>6. (\A i \in DOMAIN a : a[i] # Bad) <=> Clean(t, kids, rest)
        BY <1>2, <1>3, <2>3, <2>4, <2>5
  <2>7. Len(a) = Fields["Repeat"] /\ "Repeat" \in DOMAIN Fields
        BY <2>3, Classes
  <2>8. Proper("Repeat", a)
        BY <2>3, <2>4, <2>5, ProperArms
  <2>9. Inner("Repeat", a) = kids \o rest
        BY <1>2, <1>3, <2>3, InnerArms
  <2>10. MadeOf("Repeat", a, t.kids \o t.rest) = t
        BY <1>2, <2>2, <2>3, <2>4, <2>5, MadeArms
  <2> QED BY <1>2, <2>1, <2>3, <2>6, <2>7, <2>8, <2>9, <2>10, ReturnsBy
<1> QED BY <1>5, <1>6

(* A hook that was written down is what its constructor makes of it.       *)
LEMMA HookBack ==
  ASSUME NEW n \in Int, NEW h \in Nested[n].data, IsHook(h)
  PROVE  HookOf(h) = h
<1>1. h # Bad /\ h.items \in Seq(Nested[n - 1].data)
      BY DatumTyped
<1>2. ASSUME NEW class, NEW S, NEW fields \in Seq(S), h = Make(class, fields)
      PROVE  /\ h.form = "call" /\ (Len(fields) = 1 => Tail(h.items)[2] = h.items[3])
                    /\ Head(h.items).word.name = class
             /\ ~(~IsMake(h) \/ Head(h.items).word.space # "shape")
             /\ Versioned(Tail(h.items), Len(fields))
  <2>1. /\ h.form = "call" /\ Len(h.items) = Len(fields) + 2 /\ IsMake(h)
        /\ Head(h.items).word = Word("shape", class) /\ Versioned(Tail(h.items), Len(fields))
        BY <1>1, <1>2, CallParts
  <2>2. Word("shape", class).space = "shape" /\ Word("shape", class).name = class
        BY DEF Word
  <2>3. Len(fields) = 1 => Tail(h.items)[2] = h.items[3]
        BY <1>1, <2>1
  <2> QED BY <2>1, <2>2, <2>3
<1>3. CASE \E class \in ShapeHooks : h = Make(class, <<>>)
  <2>1. PICK class \in ShapeHooks : h = Make(class, <<>>)
        BY <1>3
  <2>2. <<>> \in Seq({}) /\ Len(<<>>) = 0
        BY NoneOf
  <2>3. /\ h.form = "call" /\ Head(h.items).word.name = class
        /\ ~(~IsMake(h) \/ Head(h.items).word.space # "shape")
        /\ Versioned(Tail(h.items), 0)
        BY <1>2, <2>1, <2>2
  <2>4. Head(h.items).word.name \in ShapeHooks
        BY <2>3
  <2>5. /\ ~(Head(h.items).word.name = "ScoreFloorHook" /\ Versioned(Tail(h.items), 1))
        /\ ~(Head(h.items).word.name = "DiscardOnDiagnosticPrefixHook"
               /\ Versioned(Tail(h.items), 1))
        BY <2>4 DEF ShapeHooks
  <2>6. HookMade(h) = Make(Head(h.items).word.name, <<>>)
        BY <2>3, <2>4, <2>5, Zenon DEF HookMade
  <2> QED BY <2>1, <2>3, <2>6, Zenon DEF HookOf
<1>4. CASE Len(h.items) = 3 /\ h = Make("ScoreFloorHook", <<h.items[3]>>)
               /\ h.items[3].form = "number"
  <2>1. <<h.items[3]>> \in Seq({h.items[3]}) /\ Len(<<h.items[3]>>) = 1
        BY OneOf
  <2>2. /\ h.form = "call" /\ Head(h.items).word.name = "ScoreFloorHook"
        /\ Tail(h.items)[2] = h.items[3]
        /\ ~(~IsMake(h) \/ Head(h.items).word.space # "shape")
        /\ Versioned(Tail(h.items), 1)
        BY <1>2, <1>4, <2>1
  <2>3. ~(Head(h.items).word.name \in ShapeHooks /\ Versioned(Tail(h.items), 0))
        BY <2>2 DEF ShapeHooks
  <2>4. HookMade(h) = Make("ScoreFloorHook", <<h.items[3]>>)
        BY <1>4, <2>2, <2>3, Zenon DEF HookMade
  <2> QED BY <1>4, <2>2, <2>4, Zenon DEF HookOf
<1>5. CASE /\ Len(h.items) = 3 /\ h = Make("DiscardOnDiagnosticPrefixHook", <<h.items[3]>>)
           /\ h.items[3].form = "text"
  <2>1. <<h.items[3]>> \in Seq({h.items[3]}) /\ Len(<<h.items[3]>>) = 1
        BY OneOf
  <2>2. /\ h.form = "call" /\ Head(h.items).word.name = "DiscardOnDiagnosticPrefixHook"
        /\ Tail(h.items)[2] = h.items[3]
        /\ ~(~IsMake(h) \/ Head(h.items).word.space # "shape")
        /\ Versioned(Tail(h.items), 1)
        BY <1>2, <1>5, <2>1
  <2>3. /\ ~(Head(h.items).word.name \in ShapeHooks /\ Versioned(Tail(h.items), 0))
        /\ ~(Head(h.items).word.name = "ScoreFloorHook" /\ Versioned(Tail(h.items), 1))
        BY <2>2 DEF ShapeHooks
  <2>4. HookMade(h) = Make("DiscardOnDiagnosticPrefixHook", <<h.items[3]>>)
        BY <1>5, <2>2, <2>3, Zenon DEF HookMade
  <2> QED BY <1>5, <2>2, <2>4, Zenon DEF HookOf
<1> QED BY <1>3, <1>4, <1>5 DEF IsHook

LEMMA ReturnsHooked ==
  ASSUME NEW n \in Int, NEW t \in Nested[n].shapes, NEW kids, NEW rest, Encoded(t, kids, rest),
         t.kind = "hooked"
  PROVE  Returns(t, kids, rest)
<1> DEFINE l == ListOf(t.marks)
           a == <<kids[1], l>>
<1>1. /\ t = [Tree("hooked", t.kids) EXCEPT !.marks = t.marks] /\ Len(t.kids) = 1
      /\ \A i \in DOMAIN t.marks : t.marks[i] = Bad \/ IsHook(t.marks[i])
      /\ t.marks \in Seq(Nested[n - 2].data \cup {Bad}) /\ n - 2 \in Int
      BY ShapeTyped DEF WellMade
<1>2. /\ rest = <<>> /\ kids \o rest = kids /\ t.kids \o t.rest = t.kids
      /\ Clean(t, kids, rest) <=> /\ \A i \in DOMAIN kids : kids[i] # Bad
                                  /\ \A i \in DOMAIN t.marks : t.marks[i] # Bad
      /\ t.kind \notin Unwritten
  <2>1. Flat(t, kids, rest)
        BY Restless
  <2> QED BY <2>1, Zenon DEF Flat
<1>3. kids \in Seq(Data \cup {Bad}) /\ Len(kids) = 1 /\ DOMAIN kids = {1} /\ kids = <<kids[1]>>
      BY <1>1, EncodedTyped
<1>4. WrittenAs(t, kids, rest) = Make("Hooked", a)
      BY Zenon DEF WrittenAs
<1>5. /\ l # Bad <=> \A i \in DOMAIN t.marks : t.marks[i] # Bad
      /\ l # Bad => l.form = "list" /\ l.items = t.marks
      BY ListMade, GroupFields
<1>6. /\ a \in Seq({kids[1], l}) /\ Len(a) = 2 /\ DOMAIN a = {1, 2}
      /\ a[1] = kids[1] /\ a[2] = l
      BY TwoOf
<1> HIDE DEF a, l
<1>7. (\A i \in DOMAIN a : a[i] # Bad) <=> Clean(t, kids, rest)
      BY <1>2, <1>3, <1>5, <1>6
<1>8. Len(a) = Fields["Hooked"] /\ "Hooked" \in DOMAIN Fields
      BY <1>6, Classes
<1>9. ASSUME Clean(t, kids, rest)
      PROVE  /\ Proper("Hooked", a) /\ Inner("Hooked", a) = kids \o rest
             /\ MadeOf("Hooked", a, t.kids \o t.rest) = t
  <2>1. a[2].form = "list" /\ a[2].items = t.marks
        BY <1>2, <1>5, <1>6, <1>9
  <2>2. Proper("Hooked", a)
        BY <2>1, ProperArms
  <2>3. Inner("Hooked", a) = kids \o rest
        BY <1>2, <1>3, <1>6, InnerArms
  <2>4. Marks(t.marks) = t.marks
    <3>1. \A i \in DOMAIN t.marks : HookOf(t.marks[i]) = t.marks[i]
      <4>1. TAKE i \in DOMAIN t.marks
      <4>2. t.marks[i] \in Nested[n - 2].data /\ IsHook(t.marks[i])
            BY <1>1, <1>2, <1>9
      <4> QED BY <1>1, <4>2, HookBack
    <3>2. t.marks = [i \in DOMAIN t.marks |-> t.marks[i]]
          BY <1>1
    <3> QED BY <3>1, <3>2 DEF Marks
  <2>5. MadeOf("Hooked", a, t.kids \o t.rest) = [Tree("hooked", t.kids) EXCEPT !.marks = t.marks]
        BY <1>2, <2>1, <2>4, MadeArms
  <2> QED BY <1>1, <2>2, <2>3, <2>5
<1> QED BY <1>2, <1>4, <1>6, <1>7, <1>8, <1>9, ReturnsBy

LEMMA ReturnsList ==
  ASSUME NEW n \in Int, NEW t \in Nested[n].shapes, NEW kids, NEW rest, Encoded(t, kids, rest),
         t.kind = "list"
  PROVE  Returns(t, kids, rest)
<1> DEFINE l == ListOf(kids)
           x == IF rest = <<>> THEN Nil ELSE rest[1]
           a == <<l, x>>
<1>1. t = ListTree(t.kids, t.rest) /\ Len(t.rest) <= 1
      BY ShapeTyped DEF WellMade
<1>2. t.marks = <<>>
  <2>1. t = Plain("list", t.kids, None, t.rest, "", 0, None)
        BY <1>1, Trees
  <2>2. PICK k, r : t = Plain("list", k, None, r, "", 0, None)
        BY <2>1
  <2> QED BY <2>2 DEF Plain
<1>3. /\ kids \in Seq(Data \cup {Bad}) /\ Len(kids) = Len(t.kids)
      /\ rest \in Seq(Data \cup {Bad}) /\ Len(rest) = Len(t.rest)
      /\ t.kids \in Seq(Nested[n - 1].shapes) /\ t.rest \in Seq(Nested[n - 1].shapes)
      BY EncodedTyped
<1>4. \A i \in DOMAIN rest : rest[i] = Bad \/ rest[i].form = "call"
      BY DEF Encoded
<1>5. (rest = <<>> /\ DOMAIN rest = {}) \/ (rest = <<rest[1]>> /\ DOMAIN rest = {1} /\ rest # <<>>)
  <2>1. Len(rest) \in Nat /\ Len(rest) <= 1
        BY <1>1, <1>3
  <2>2. \A k \in Nat : k <= 1 => k = 0 \/ k = 1
        OBVIOUS
  <2>3. Len(rest) = 0 \/ Len(rest) = 1
        BY <2>1, <2>2, Zenon
  <2> QED BY <1>3, <2>3
<1>6. t.kind \notin Unwritten
      BY DEF Unwritten
<1>7. WrittenAs(t, kids, rest) = Make("List", a)
  <2>1. WrittenAs(t, kids, rest) = Make("List", ListFields(kids, rest))
        BY Zenon DEF WrittenAs
  <2> QED BY <2>1 DEF ListFields
<1>8. /\ l # Bad <=> \A i \in DOMAIN kids : kids[i] # Bad
      /\ l # Bad => l.form = "list" /\ l.items = kids
      BY ListMade, GroupFields
<1>9. /\ a \in Seq({l, x}) /\ Len(a) = 2 /\ DOMAIN a = {1, 2} /\ a[1] = l /\ a[2] = x
      BY TwoOf
<1>10. x # Bad <=> \A i \in DOMAIN rest : rest[i] # Bad
       BY <1>5, GroupFields
<1>11. (\A i \in DOMAIN rest : rest[i] # Bad) => Extra(x) = rest
  <2>1. CASE rest = <<>>
    <3>1. x = Nil /\ x.form # "shape"
          BY <2>1, GroupFields
    <3>2. AsExpr(x) = Nil
          BY <3>1, Zenon DEF AsExpr
    <3> QED BY <2>1, <3>2 DEF Extra
  <2>2. CASE /\ rest = <<rest[1]>> /\ DOMAIN rest = {1} /\ rest # <<>>
             /\ \A i \in DOMAIN rest : rest[i] # Bad
    <3>1. x = rest[1] /\ x.form = "call"
          BY <1>4, <2>2
    <3>2. x.form # "shape" /\ x # Nil
          BY <3>1, GroupFields
    <3>3. AsExpr(x) = x
          BY <3>2, Zenon DEF AsExpr
    <3>4. Extra(x) = <<x>>
          BY <3>2, <3>3, Zenon DEF Extra
    <3> HIDE DEF x
    <3> QED BY <2>2, <3>1, <3>4
  <2> QED BY <1>5, <2>1, <2>2
<1> HIDE DEF a, l, x
<1>12. (\A i \in DOMAIN a : a[i] # Bad) <=> Clean(t, kids, rest)
  <2>1. \A i : i \notin DOMAIN <<>>
        OBVIOUS
  <2>2. \A i \in DOMAIN t.marks : t.marks[i] # Bad
        BY <1>2, <2>1
  <2>3. Clean(t, kids, rest) <=> l # Bad /\ x # Bad
        BY <1>8, <1>10, <2>2 DEF Clean
  <2>4. (\A i \in DOMAIN a : a[i] # Bad) <=> l # Bad /\ x # Bad
        BY <1>9
  <2> QED BY <2>3, <2>4
<1>13. Len(a) = Fields["List"] /\ "List" \in DOMAIN Fields
       BY <1>9, Classes
<1>14. ASSUME Clean(t, kids, rest)
       PROVE  /\ Proper("List", a) /\ Inner("List", a) = kids \o rest
              /\ MadeOf("List", a, t.kids \o t.rest) = t
  <2>1. a[1].form = "list" /\ a[1].items = kids
        BY <1>8, <1>9, <1>14 DEF Clean
  <2>2. Proper("List", a)
        BY <2>1, ProperArms
  <2>3. Extra(a[2]) = rest
        BY <1>9, <1>11, <1>14 DEF Clean
  <2>4. Inner("List", a) = kids \o rest
        BY <2>1, <2>3, InnerArms
  <2>5. Among(a, t.kids \o t.rest) = t.kids /\ After(a, t.kids \o t.rest) = t.rest
    <3>1. Len(a[1].items) = Len(t.kids)
          BY <1>3, <2>1
    <3>2. /\ SubSeq(t.kids \o t.rest, 1, Len(t.kids)) = t.kids
          /\ SubSeq(t.kids \o t.rest, Len(t.kids) + 1, Len(t.kids \o t.rest)) = t.rest
      <4> DEFINE U == Nested[n - 1].shapes
                 u == t.kids
                 r == t.rest
      <4>1. u \in Seq(U) /\ r \in Seq(U)
            BY <1>3
      <4> HIDE DEF U, u, r
      <4>2. SubSeq(u \o r, 1, Len(u)) = u /\ SubSeq(u \o r, Len(u) + 1, Len(u \o r)) = r
            BY <4>1, JoinedApart
      <4> QED BY <4>2 DEF u, r
    <3> QED BY <3>1, <3>2, Zenon DEF Among, After
  <2>6. MadeOf("List", a, t.kids \o t.rest) = t
        BY <1>1, <2>5, MadeArms
  <2> QED BY <2>2, <2>4, <2>6
<1> QED BY <1>6, <1>7, <1>9, <1>12, <1>13, <1>14, ReturnsBy

(* Rows that were written: cells are what each of them holds.              *)
RowsGiven(S, m, keys, shapes, k, cells, rows) ==
  /\ m \in Nat /\ keys \in Seq(Words) /\ Len(keys) = m
  /\ shapes \in Seq(S) /\ Len(shapes) = m /\ k \in {2, 3}
  /\ \A i \in 1..m : /\ DOMAIN cells[i] = 1..k /\ Len(cells[i]) = k
                      /\ cells[i][1] = Symbol(keys[i])
                      /\ cells[i][k] = shapes[i] /\ (k = 3 => cells[i][2] # Bad)
  /\ rows = [i \in 1..m |-> ListOf(cells[i])]
RowsMade(m, keys, shapes, k, cells, rows) ==
  /\ ListOf(rows) # Bad <=> \A i \in 1..m : shapes[i] # Bad
  /\ ListOf(rows) # Bad =>
       /\ IsRows(ListOf(rows), k) /\ RowNames(ListOf(rows).items) = keys
       /\ RowShapes(ListOf(rows).items) = shapes /\ ListOf(rows).items = rows
       /\ \A i \in 1..m : rows[i].items = cells[i]

LEMMA RowsWritten ==
  ASSUME NEW S, NEW m, NEW keys, NEW shapes, NEW k, NEW cells, NEW rows,
         RowsGiven(S, m, keys, shapes, k, cells, rows)
  PROVE  RowsMade(m, keys, shapes, k, cells, rows)
<1>0. /\ m \in Nat /\ keys \in Seq(Words) /\ Len(keys) = m
      /\ shapes \in Seq(S) /\ Len(shapes) = m /\ k \in {2, 3}
      /\ \A i \in 1..m : /\ DOMAIN cells[i] = 1..k /\ Len(cells[i]) = k
                          /\ cells[i][1] = Symbol(keys[i])
                          /\ cells[i][k] = shapes[i] /\ (k = 3 => cells[i][2] # Bad)
      /\ rows = [i \in 1..m |-> ListOf(cells[i])]
      BY DEF RowsGiven
<1> USE <1>0
<1>1. \A i \in 1..m : ListOf(cells[i]) # Bad <=> shapes[i] # Bad
  <2>1. TAKE i \in 1..m
  <2>2. ListOf(cells[i]) # Bad <=> \A j \in 1..k : cells[i][j] # Bad
        BY ListMade
  <2>3. cells[i][1] # Bad
        BY SymbolRead
  <2>4. \A j \in 1..k : j = 1 \/ j = k \/ (k = 3 /\ j = 2)
        OBVIOUS
  <2>5. k \in 1..k
        OBVIOUS
  <2> QED BY <2>2, <2>3, <2>4, <2>5
<1>2. DOMAIN rows = 1..m /\ \A i \in 1..m : rows[i] = ListOf(cells[i])
      OBVIOUS
<1>3. ListOf(rows) # Bad <=> \A i \in 1..m : shapes[i] # Bad
      BY <1>1, <1>2, ListMade
<1>4. ASSUME ListOf(rows) # Bad
      PROVE  /\ IsRows(ListOf(rows), k) /\ RowNames(ListOf(rows).items) = keys
             /\ RowShapes(ListOf(rows).items) = shapes /\ ListOf(rows).items = rows
             /\ \A i \in 1..m : rows[i].items = cells[i]
  <2>1. ListOf(rows).form = "list" /\ ListOf(rows).items = rows
        BY <1>4, ListMade, GroupFields
  <2>2. \A i \in 1..m : rows[i].form = "list" /\ rows[i].items = cells[i]
    <3>1. TAKE i \in 1..m
    <3>2. ListOf(cells[i]) # Bad
          BY <1>1, <1>3, <1>4
    <3>3. rows[i] = Group("list", cells[i])
          BY <1>2, <3>2, ListMade
    <3> QED BY <3>3, GroupFields
  <2>3. \A i \in 1..m : WordOf(rows[i].items[1]) = keys[i] /\ keys[i] \in Words /\ keys[i] # None
    <3>1. TAKE i \in 1..m
    <3>2. WordOf(rows[i].items[1]) = keys[i]
          BY <2>2, SymbolRead
    <3>3. keys[i] \in Words
          OBVIOUS
    <3> QED BY <3>2, <3>3, CodecAssumption DEF Words
  <2>4. \A i \in 1..m : Len(rows[i].items) = k /\ rows[i].items[Len(rows[i].items)] = shapes[i]
        BY <2>2
  <2>5. IsRows(ListOf(rows), k)
        BY <1>2, <2>1, <2>2, <2>3, <2>4 DEF IsRows
  <2>6. RowNames(rows) = keys
    <3>1. RowNames(rows) = [i \in 1..m |-> keys[i]]
          BY <1>2, <2>3 DEF RowNames
    <3>2. keys = [i \in 1..m |-> keys[i]]
          OBVIOUS
    <3> QED BY <3>1, <3>2
  <2>7. RowShapes(rows) = shapes
    <3>1. RowShapes(rows) = [i \in 1..m |-> shapes[i]]
          BY <1>2, <2>4 DEF RowShapes
    <3>2. shapes = [i \in 1..m |-> shapes[i]]
          OBVIOUS
    <3> QED BY <3>1, <3>2
  <2> QED BY <2>1, <2>2, <2>5, <2>6, <2>7
<1> QED BY <1>3, <1>4, Zenon DEF RowsMade

LEMMA ReturnsDefs ==
  ASSUME NEW n \in Int, NEW t \in Nested[n].shapes, NEW kids, NEW rest, Encoded(t, kids, rest),
         t.kind = "defs"
  PROVE  Returns(t, kids, rest)
<1> DEFINE m == Len(t.keys)
           inner == Tail(kids)
           cells == [i \in 1..m |-> <<Symbol(t.keys[i]), inner[i]>>]
           rows == [i \in 1..m |-> ListOf(cells[i])]
           l == ListOf(rows)
           a == <<kids[1], l>>
<1>1. t = KeyedTree("defs", t.keys, t.kids) /\ Len(t.kids) = Len(t.keys) + 1
          /\ t.keys \in Seq(Words)
      BY ShapeTyped DEF WellMade
<1>2. /\ rest = <<>> /\ kids \o rest = kids /\ t.kids \o t.rest = t.kids
      /\ Clean(t, kids, rest) <=> \A i \in DOMAIN kids : kids[i] # Bad
      /\ t.kind \notin Unwritten
  <2>1. Flat(t, kids, rest)
        BY Restless
  <2>2. \A i : i \notin DOMAIN <<>>
        OBVIOUS
  <2> QED BY <2>1, <2>2, Zenon DEF Flat
<1>3. kids \in Seq(Data \cup {Bad}) /\ Len(kids) = m + 1 /\ m \in Nat /\ DOMAIN t.keys = 1..m
      BY <1>1, EncodedTyped
<1>4. /\ inner \in Seq(Data \cup {Bad}) /\ Len(inner) = m
      /\ \A i \in 1..m : inner[i] = kids[i + 1]
      BY <1>3
<1>5. <<kids[1]>> \o inner = kids
      BY <1>3
<1>6. WrittenAs(t, kids, rest) = Make("Defs", a)
  <2>1. WrittenAs(t, kids, rest) = Make("Defs", <<kids[1], Pairs(t.keys, inner)>>)
        BY Zenon DEF WrittenAs
  <2>2. Pairs(t.keys, inner) = l
    <3>1. Pairs(t.keys, inner) = ListOf([i \in 1..m |-> ListOf(<<Symbol(t.keys[i]), inner[i]>>)])
          BY <1>3 DEF Pairs, Pair
    <3>2. rows = [i \in 1..m |-> ListOf(<<Symbol(t.keys[i]), inner[i]>>)]
          OBVIOUS
    <3> QED BY <3>1, <3>2
  <2> QED BY <2>1, <2>2
<1> HIDE DEF inner
<1>7. \A i \in 1..m : /\ DOMAIN cells[i] = 1..2 /\ Len(cells[i]) = 2
                      /\ cells[i][1] = Symbol(t.keys[i]) /\ cells[i][2] = inner[i]
      OBVIOUS
<1> HIDE DEF cells
<1>8. /\ l # Bad <=> \A i \in 1..m : inner[i] # Bad
      /\ l # Bad => /\ IsRows(l, 2) /\ RowNames(l.items) = t.keys
                    /\ RowShapes(l.items) = inner
  <2>1. 2 \in {2, 3} /\ 2 # 3
        OBVIOUS
  <2>2. RowsGiven(Data \cup {Bad}, m, t.keys, inner, 2, cells, rows)
        BY <1>1, <1>3, <1>4, <1>7, <2>1 DEF RowsGiven
  <2>3. RowsMade(m, t.keys, inner, 2, cells, rows)
        BY <2>2, RowsWritten
  <2> QED BY <2>3, Zenon DEF RowsMade
<1>9. /\ a \in Seq({kids[1], l}) /\ Len(a) = 2 /\ DOMAIN a = {1, 2}
      /\ a[1] = kids[1] /\ a[2] = l
      BY TwoOf
<1> HIDE DEF a, l
<1>10. (\A i \in DOMAIN a : a[i] # Bad) <=> Clean(t, kids, rest)
  <2>1. (\A i \in DOMAIN kids : kids[i] # Bad) <=> kids[1] # Bad /\ \A i \in 1..m : inner[i] # Bad
    <3>1. DOMAIN kids = 1..(m + 1) /\ 1 \in 1..(m + 1)
          BY <1>3
    <3>2. \A i \in 1..(m + 1) : i = 1 \/ (i - 1 \in 1..m /\ (i - 1) + 1 = i)
          BY <1>3
    <3>3. \A i \in 1..m : i + 1 \in 1..(m + 1)
          BY <1>3
    <3> HIDE DEF m
    <3>4. \A i \in 1..(m + 1) : i = 1 \/ kids[i] = inner[i - 1]
          BY <1>4, <3>2
    <3>5. ASSUME \A i \in DOMAIN kids : kids[i] # Bad
          PROVE  kids[1] # Bad /\ \A i \in 1..m : inner[i] # Bad
          BY <1>4, <3>1, <3>3, <3>5
    <3>6. ASSUME kids[1] # Bad, \A i \in 1..m : inner[i] # Bad
          PROVE  \A i \in DOMAIN kids : kids[i] # Bad
      <4>1. TAKE i \in DOMAIN kids
      <4>2. i = 1 \/ (i - 1 \in 1..m /\ kids[i] = inner[i - 1])
            BY <3>1, <3>2, <3>4
      <4> QED BY <3>6, <4>2
    <3> QED BY <3>5, <3>6
  <2>2. (\A i \in DOMAIN a : a[i] # Bad) <=> kids[1] # Bad /\ l # Bad
        BY <1>9
  <2> QED BY <1>2, <1>8, <2>1, <2>2
<1>11. Len(a) = Fields["Defs"] /\ "Defs" \in DOMAIN Fields
       BY <1>9, Classes
<1>12. ASSUME Clean(t, kids, rest)
       PROVE  /\ Proper("Defs", a) /\ Inner("Defs", a) = kids \o rest
              /\ MadeOf("Defs", a, t.kids \o t.rest) = t
  <2>1. l # Bad
        BY <1>9, <1>10, <1>12
  <2>2. IsRows(a[2], 2) /\ RowNames(a[2].items) = t.keys /\ RowShapes(a[2].items) = inner
        BY <1>8, <1>9, <2>1
  <2>3. Proper("Defs", a)
        BY <2>2, ProperArms
  <2>4. Inner("Defs", a) = kids \o rest
        BY <1>2, <1>5, <1>9, <2>2, InnerArms
  <2>5. MadeOf("Defs", a, t.kids \o t.rest) = t
        BY <1>1, <1>2, <2>2, MadeArms
  <2> QED BY <2>3, <2>4, <2>5
<1> QED BY <1>2, <1>6, <1>9, <1>10, <1>11, <1>12, ReturnsBy

LEMMA PolicyWritten ==
  ASSUME NEW arg, NEW rest, rest = <<>> \/ (rest = <<rest[1]>> /\ DOMAIN rest = {1} /\ rest # <<>>),
         rest = <<>> => arg \in {"allow", "reject"}
  PROVE  LET p == Policy(arg, rest) IN
         /\ p # Bad <=> \A i \in DOMAIN rest : rest[i] # Bad
         /\ p # Bad => /\ IsPolicy(AsExpr(p)) /\ Policed(p) = rest
                       /\ rest = <<>> => AsExpr(p).word.name = arg
<1> DEFINE p == Policy(arg, rest)
<1>1. CASE rest = <<>>
  <2>1. p = Symbol(Word("", arg))
        BY <1>1, Zenon DEF Policy
  <2>2. /\ p # Bad /\ AsExpr(p) = p /\ p.form = "symbol" /\ p.word = Word("", arg)
        BY <2>1, SymbolRead
  <2>3. Word("", arg).name = arg /\ arg \in {"allow", "reject"}
        BY <1>1 DEF Word
  <2>4. \A i : i \notin DOMAIN rest
        BY <1>1
  <2> HIDE DEF p
  <2>5. AsExpr(p).form = "symbol" /\ AsExpr(p).word.name = arg
        BY <2>2, <2>3
  <2>6. IsPolicy(AsExpr(p))
        BY <2>3, <2>5 DEF IsPolicy
  <2>7. Policed(p) = rest
        BY <1>1, <2>5 DEF Policed
  <2> QED BY <2>2, <2>4, <2>5, <2>6, <2>7 DEF p
<1>2. CASE rest = <<rest[1]>> /\ DOMAIN rest = {1} /\ rest # <<>>
  <2> DEFINE s == Symbol(Word("", "shape"))
             x == rest[1]
             items == <<s, x>>
  <2>1. p = ListOf(items)
        BY <1>2 DEF Policy, Pair
  <2>2. items \in Seq({s, x}) /\ DOMAIN items = {1, 2} /\ items[1] = s /\ items[2] = x
            /\ Len(items) = 2
        BY TwoOf
  <2>3. s # Bad /\ s.form = "symbol" /\ s.word = Word("", "shape")
        BY SymbolRead
  <2>4. Word("", "shape").name = "shape"
        BY DEF Word
  <2> HIDE DEF p, s, items
  <2>5. p # Bad <=> x # Bad
        BY <2>1, <2>2, <2>3, ListMade
  <2>6. ASSUME p # Bad
        PROVE  IsPolicy(AsExpr(p)) /\ Policed(p) = rest
    <3>1. p.form = "list" /\ p.items = items
          BY <2>1, <2>6, ListMade, GroupFields
    <3>2. p.form # "shape"
          BY <3>1
    <3>3. AsExpr(p) = p
          BY <3>2, Zenon DEF AsExpr
    <3>4. /\ AsExpr(p).form = "list" /\ Len(AsExpr(p).items) = 2
          /\ AsExpr(p).items[1].form = "symbol" /\ AsExpr(p).items[1].word.name = "shape"
          /\ AsExpr(p).items[2] = x
          BY <2>2, <2>3, <2>4, <3>1, <3>3
    <3>5. IsPolicy(AsExpr(p))
          BY <3>4 DEF IsPolicy
    <3>6. Policed(p) = <<x>>
          BY <3>4, Zenon DEF Policed
    <3> QED BY <1>2, <3>5, <3>6
  <2>7. x # Bad <=> \A i \in DOMAIN rest : rest[i] # Bad
        BY <1>2
  <2> QED BY <1>2, <2>5, <2>6, <2>7 DEF p
<1> QED BY <1>1, <1>2

LEMMA ReturnsTable ==
  ASSUME NEW n \in Int, NEW t \in Nested[n].shapes, NEW kids, NEW rest, Encoded(t, kids, rest),
         t.kind = "table"
  PROVE  Returns(t, kids, rest)
<1> DEFINE m == Len(t.kids)
           cells == [i \in 1..m |-> <<Symbol(t.keys[i]), Bool(t.needed[i]), kids[i]>>]
           rows == [i \in 1..m |-> ListOf(cells[i])]
           l == ListOf(rows)
           p == Policy(t.arg, rest)
           a == <<l, p>>
<1>1. /\ t = [TableTree(t.keys, t.kids, t.arg) EXCEPT !.needed = t.needed, !.rest = t.rest]
      /\ Len(t.kids) = Len(t.keys) /\ Len(t.kids) = Len(t.needed)
      /\ IF t.rest = <<>> THEN t.arg \in {"allow", "reject"} ELSE Len(t.rest) = 1 /\ t.arg = "shape"
      /\ t.keys \in Seq(Words) /\ t.needed \in Seq(BOOLEAN)
      BY ShapeTyped DEF WellMade
<1>2. t.marks = <<>>
  <2>1. t = TableWith(t.keys, t.kids, t.arg, t.needed, t.rest)
        BY <1>1, Zenon DEF TableWith
  <2>2. t = Keyed("table", t.kids, t.keys, t.needed, t.rest, t.arg, <<>>)
        BY <2>1, KeyedTrees
  <2>3. PICK k, keys, needed, r, arg : t = Keyed("table", k, keys, needed, r, arg, <<>>)
        BY <2>2
  <2> QED BY <2>3 DEF Keyed
<1>3. /\ kids \in Seq(Data \cup {Bad}) /\ Len(kids) = m /\ DOMAIN kids = 1..m /\ m \in Nat
      /\ rest \in Seq(Data \cup {Bad}) /\ Len(rest) = Len(t.rest)
      /\ t.kids \in Seq(Nested[n - 1].shapes) /\ t.rest \in Seq(Nested[n - 1].shapes)
      /\ t.rest = <<>> => rest = <<>>
      BY EncodedTyped
<1>4. t.kind \notin Unwritten
      BY DEF Unwritten
<1>5. /\ rest = <<>> \/ (rest = <<rest[1]>> /\ DOMAIN rest = {1} /\ rest # <<>>)
      /\ rest = <<>> <=> t.rest = <<>>
  <2>1. CASE t.rest = <<>>
        BY <1>3, <2>1
  <2>2. CASE t.rest # <<>>
    <3>1. Len(rest) = 1
          BY <1>1, <1>3, <2>2
    <3>2. rest # <<>>
          BY <3>1
    <3>3. rest = <<rest[1]>> /\ DOMAIN rest = {1}
          BY <1>3, <3>1
    <3> QED BY <2>2, <3>2, <3>3
  <2> QED BY <2>1, <2>2
<1>6. WrittenAs(t, kids, rest) = Make("Table", a)
  <2>1. WrittenAs(t, kids, rest) =
          Make("Table", <<ListOf([i \in DOMAIN kids |->
                            ListOf(<<Symbol(t.keys[i]), Bool(t.needed[i]), kids[i]>>)]), p>>)
        BY Zenon DEF WrittenAs
  <2>2. rows = [i \in DOMAIN kids |-> ListOf(<<Symbol(t.keys[i]), Bool(t.needed[i]), kids[i]>>)]
        BY <1>3
  <2> QED BY <2>1, <2>2
<1>7. \A i \in 1..m : /\ DOMAIN cells[i] = 1..3 /\ Len(cells[i]) = 3
                      /\ cells[i][1] = Symbol(t.keys[i]) /\ cells[i][2] = Bool(t.needed[i])
                      /\ cells[i][3] = kids[i]
      OBVIOUS
<1>8. \A i \in 1..m : Bool(t.needed[i]) # Bad /\ Bool(t.needed[i]).form = "bool"
                      /\ (Bool(t.needed[i]).num = 1 <=> t.needed[i] = TRUE)
  <2>1. \A i \in 1..m : t.needed[i] \in BOOLEAN
        BY <1>1, <1>3
  <2> QED BY <2>1, GroupFields
<1> HIDE DEF cells
<1>9. /\ l # Bad <=> \A i \in 1..m : kids[i] # Bad
      /\ l # Bad => /\ IsRows(l, 3) /\ RowNames(l.items) = t.keys
                    /\ RowShapes(l.items) = kids /\ l.items = rows
                    /\ \A i \in 1..m : rows[i].items = cells[i]
  <2>1. 3 \in {2, 3}
        OBVIOUS
  <2>2. RowsGiven(Data \cup {Bad}, m, t.keys, kids, 3, cells, rows)
        BY <1>1, <1>3, <1>7, <1>8, <2>1 DEF RowsGiven
  <2>3. RowsMade(m, t.keys, kids, 3, cells, rows)
        BY <2>2, RowsWritten
  <2> QED BY <2>3, Zenon DEF RowsMade
<1>10. /\ p # Bad <=> \A i \in DOMAIN rest : rest[i] # Bad
       /\ p # Bad => /\ IsPolicy(AsExpr(p)) /\ Policed(p) = rest
                     /\ rest = <<>> => AsExpr(p).word.name = t.arg
  <2> DEFINE arg == t.arg
  <2>1. rest = <<>> => arg \in {"allow", "reject"}
        BY <1>1, <1>5
  <2> HIDE DEF arg
  <2>2. LET q == Policy(arg, rest) IN
        /\ q # Bad <=> \A i \in DOMAIN rest : rest[i] # Bad
        /\ q # Bad => /\ IsPolicy(AsExpr(q)) /\ Policed(q) = rest
                      /\ rest = <<>> => AsExpr(q).word.name = arg
        BY <1>5, <2>1, PolicyWritten
  <2> QED BY <2>2 DEF arg
<1>11. /\ a \in Seq({l, p}) /\ Len(a) = 2 /\ DOMAIN a = {1, 2} /\ a[1] = l /\ a[2] = p
       BY TwoOf
<1>12. DOMAIN rows = 1..m /\ Len(rows) = m
       BY <1>3
<1> HIDE DEF a, l, p, rows
<1>13. (\A i \in DOMAIN a : a[i] # Bad) <=> Clean(t, kids, rest)
  <2>1. \A i : i \notin DOMAIN <<>>
        OBVIOUS
  <2>2. \A i \in DOMAIN t.marks : t.marks[i] # Bad
        BY <1>2, <2>1
  <2>3. Clean(t, kids, rest) <=> l # Bad /\ p # Bad
        BY <1>3, <1>9, <1>10, <2>2 DEF Clean
  <2>4. (\A i \in DOMAIN a : a[i] # Bad) <=> l # Bad /\ p # Bad
        BY <1>11
  <2> QED BY <2>3, <2>4
<1>14. Len(a) = Fields["Table"] /\ "Table" \in DOMAIN Fields
       BY <1>11, Classes
<1>15. ASSUME Clean(t, kids, rest)
       PROVE  /\ Proper("Table", a) /\ Inner("Table", a) = kids \o rest
              /\ MadeOf("Table", a, t.kids \o t.rest) = t
  <2>1. l # Bad /\ p # Bad
        BY <1>11, <1>13, <1>15
  <2>2. /\ IsRows(a[1], 3) /\ RowNames(a[1].items) = t.keys /\ RowShapes(a[1].items) = kids
        /\ DOMAIN a[1].items = 1..m /\ Len(a[1].items) = m
        /\ \A i \in 1..m : a[1].items[i].items[2] = Bool(t.needed[i])
        BY <1>7, <1>9, <1>11, <1>12, <2>1
  <2>3. /\ IsPolicy(AsExpr(a[2])) /\ Policed(a[2]) = rest
        /\ rest = <<>> => AsExpr(a[2]).word.name = t.arg
        BY <1>10, <1>11, <2>1
  <2>4. Proper("Table", a)
    <3>1. \A i \in DOMAIN a[1].items : a[1].items[i].items[2].form = "bool"
          BY <1>8, <2>2
    <3> QED BY <2>2, <2>3, <3>1, ProperArms
  <2>5. Inner("Table", a) = kids \o rest
        BY <2>2, <2>3, InnerArms
  <2>6. Among(a, t.kids \o t.rest) = t.kids /\ After(a, t.kids \o t.rest) = t.rest
    <3>1. /\ SubSeq(t.kids \o t.rest, 1, Len(t.kids)) = t.kids
          /\ SubSeq(t.kids \o t.rest, Len(t.kids) + 1, Len(t.kids \o t.rest)) = t.rest
      <4> DEFINE U == Nested[n - 1].shapes
                 u == t.kids
                 r == t.rest
      <4>1. u \in Seq(U) /\ r \in Seq(U)
            BY <1>3
      <4> HIDE DEF U, u, r
      <4>2. SubSeq(u \o r, 1, Len(u)) = u /\ SubSeq(u \o r, Len(u) + 1, Len(u \o r)) = r
            BY <4>1, JoinedApart
      <4> QED BY <4>2 DEF u, r
    <3> QED BY <2>2, <3>1, Zenon DEF Among, After
  <2>7. TableMade(a, t.kids, t.rest) = t
    <3>1. (IF t.rest = <<>> THEN AsExpr(a[2]).word.name ELSE "shape") = t.arg
          BY <1>1, <1>5, <2>3
    <3>2. [i \in DOMAIN t.kids |-> a[1].items[i].items[2].num = 1] = t.needed
      <4>1. DOMAIN t.kids = 1..m
            BY <1>3
      <4>2. \A i \in 1..m : (a[1].items[i].items[2].num = 1) = t.needed[i]
        <5>1. TAKE i \in 1..m
        <5>2. a[1].items[i].items[2].num = 1 <=> t.needed[i] = TRUE
              BY <1>8, <2>2
        <5>3. t.needed[i] \in BOOLEAN
              BY <1>1, <1>3
        <5> QED BY <5>2, <5>3
      <4>3. t.needed = [i \in 1..m |-> t.needed[i]]
        <5> DEFINE w == t.needed
        <5>1. w \in Seq(BOOLEAN) /\ Len(w) = m
              BY <1>1
        <5> HIDE DEF w, m
        <5>2. w = [i \in 1..m |-> w[i]]
              BY <5>1
        <5> QED BY <5>2 DEF w
      <4> QED BY <4>1, <4>2, <4>3
    <3>3. TableMade(a, t.kids, t.rest) =
            [TableTree(t.keys, t.kids, t.arg) EXCEPT !.needed = t.needed, !.rest = t.rest]
          BY <2>2, <3>1, <3>2, Zenon DEF TableMade
    <3> QED BY <1>1, <3>3
  <2>8. MadeOf("Table", a, t.kids \o t.rest) = t
        BY <2>6, <2>7, MadeArms
  <2> QED BY <2>4, <2>5, <2>8
<1> QED BY <1>4, <1>6, <1>11, <1>13, <1>14, <1>15, ReturnsBy

LEMMA ReturnsUnwritten ==
  ASSUME NEW t, NEW kids, NEW rest, t.kind \in Unwritten
  PROVE  Returns(t, kids, rest)
<1>1. t.kind \notin {"any", "exact", "exprKind", "class", "ref", "list", "table", "or", "and",
                     "not",
                     "repeat", "defs", "hooked"}
      BY DEF Unwritten
<1>2. /\ t.kind # "any" /\ t.kind # "exact" /\ t.kind # "exprKind" /\ t.kind # "class"
      /\ t.kind # "ref" /\ t.kind # "list" /\ t.kind # "table" /\ t.kind # "or"
      /\ t.kind # "and" /\ t.kind # "not" /\ t.kind # "repeat" /\ t.kind # "defs"
      /\ t.kind # "hooked"
      BY <1>1
<1>3. WrittenAs(t, kids, rest) = Bad
      BY <1>2, Zenon DEF WrittenAs
<1> QED BY <1>3, Zenon DEF Returns

LEMMA AllReturn ==
  ASSUME NEW n \in Int, NEW t \in Nested[n].shapes, NEW kids, NEW rest, Encoded(t, kids, rest)
  PROVE  Returns(t, kids, rest)
<1>1. t.kind \in Kinds
      BY ShapeTyped
<1>2. CASE t.kind \in Unwritten
      BY <1>2, ReturnsUnwritten
<1>3. CASE t.kind \in {"any", "exact", "exprKind", "class", "ref"}
      BY <1>3, ReturnsAtom
<1>4. CASE t.kind \in {"and", "or"}
      BY <1>4, ReturnsGroup
<1>5. CASE t.kind \in {"not", "repeat"}
      BY <1>5, ReturnsOne
<1>6. CASE t.kind = "list"
      BY <1>6, ReturnsList
<1>7. CASE t.kind = "table"
      BY <1>7, ReturnsTable
<1>8. CASE t.kind = "defs"
      BY <1>8, ReturnsDefs
<1>9. CASE t.kind = "hooked"
      BY <1>9, ReturnsHooked
<1> QED BY <1>1, <1>2, <1>3, <1>4, <1>5, <1>6, <1>7, <1>8, <1>9 DEF Kinds, Unwritten

LEMMA RefusedOutside == Refused \notin Shapes
<1>1. Refused.kind = "refused"
      BY DEF Refused, Leaf
<1>2. "refused" \notin Kinds
      BY DEF Kinds
<1>3. \A t \in Shapes : t.kind \in Kinds
      BY ShapeTyped, NestingCounts DEF Shapes
<1> QED BY <1>1, <1>2, <1>3

KidsOf(t) == [i \in DOMAIN t.kids |-> Encode[t.kids[i]]]
RestOf(t) == [i \in DOMAIN t.rest |-> Encode[t.rest[i]]]

LEMMA PartsEncoded ==
  ASSUME NEW t \in Shapes
  PROVE  /\ Encoded(t, KidsOf(t), RestOf(t)) /\ Encode[t] = WrittenAs(t, KidsOf(t), RestOf(t))
         /\ Returns(t, KidsOf(t), RestOf(t))
<1>1. /\ t \in Nested[Nesting].shapes /\ Nesting \in Int /\ Nesting <= Nesting
      /\ Data = Nested[Nesting].data
      BY NestingCounts DEF Shapes, Data
<1>2. /\ t.kids \in Seq(Nested[Nesting - 1].shapes) /\ t.rest \in Seq(Nested[Nesting - 1].shapes)
      BY <1>1, ShapeTyped
<1>3. \A i \in DOMAIN t.kids : t.kids[i] \in Shapes
      BY PartsOfShapes
<1>4. \A i \in DOMAIN t.rest : t.rest[i] \in Shapes
      BY PartsOfShapes
<1>5. \A s \in Shapes : Encode[s] \in Data \cup {Bad}
          /\ (Encode[s] = Bad \/ Encode[s].form = "call")
  <2>1. TAKE s \in Shapes
  <2>2. Encode[s] \in Data \cup {Bad}
        BY <1>1, EncodeTyped DEF Shapes
  <2> QED BY <2>2, EncodeForm
<1> DEFINE kids == KidsOf(t)
           rest == RestOf(t)
<1>6. /\ DOMAIN kids = DOMAIN t.kids /\ kids = [i \in DOMAIN t.kids |-> kids[i]]
      /\ \A i \in DOMAIN t.kids : kids[i] = Encode[t.kids[i]]
      BY DEF KidsOf
<1>7. /\ DOMAIN rest = DOMAIN t.rest /\ rest = [i \in DOMAIN t.rest |-> rest[i]]
      /\ \A i \in DOMAIN t.rest : rest[i] = Encode[t.rest[i]]
      BY DEF RestOf
<1>8. Encode[t] = WrittenAs(t, kids, rest)
      BY EncodeEquation DEF EncodeBy, KidsOf, RestOf
<1> HIDE DEF kids, rest
<1>9. kids \in Seq(Data \cup {Bad})
  <2>1. \A i \in DOMAIN t.kids : kids[i] \in Data \cup {Bad}
        BY <1>3, <1>5, <1>6
  <2> QED BY <1>2, <1>6, <2>1, SeqOf
<1>10. rest \in Seq(Data \cup {Bad})
  <2>1. \A i \in DOMAIN t.rest : rest[i] \in Data \cup {Bad}
        BY <1>4, <1>5, <1>7
  <2> QED BY <1>2, <1>7, <2>1, SeqOf
<1>11. Len(kids) = Len(t.kids) /\ Len(rest) = Len(t.rest)
       BY <1>2, <1>6, <1>7, <1>9, <1>10, LenProperties
<1>12. Encoded(t, kids, rest)
  <2>1. \A i \in DOMAIN kids : kids[i] = Bad \/ kids[i].form = "call"
        BY <1>3, <1>5, <1>6
  <2>2. \A i \in DOMAIN rest : rest[i] = Bad \/ rest[i].form = "call"
        BY <1>4, <1>5, <1>7
  <2> QED BY <1>9, <1>10, <1>11, <2>1, <2>2, Zenon DEF Encoded
<1>13. Returns(t, kids, rest)
       BY <1>1, <1>12, AllReturn
<1> QED BY <1>8, <1>12, <1>13 DEF kids, rest

ReadBoth(f, a, b) == [i \in DOMAIN (a \o b) |-> f[(a \o b)[i]]]

Agree(f, a, p) == Len(p) = Len(a) /\ \A i \in DOMAIN a : f[a[i]] = p[i]

BothAgree(f, S, T, a, b, p, q) ==
  /\ a \in Seq(S) /\ b \in Seq(S) /\ p \in Seq(T) /\ q \in Seq(T)
  /\ Agree(f, a, p) /\ Agree(f, b, q)

LEMMA BothRead ==
  ASSUME NEW f, NEW S, NEW T, NEW a, NEW b, NEW p, NEW q, BothAgree(f, S, T, a, b, p, q)
  PROVE  ReadBoth(f, a, b) = p \o q
<1>0. /\ a \in Seq(S) /\ b \in Seq(S) /\ p \in Seq(T) /\ q \in Seq(T)
      /\ Agree(f, a, p) /\ Agree(f, b, q)
      BY DEF BothAgree
<1> USE <1>0
<1> DEFINE k == Len(a)
           m == Len(b)
           x == a \o b
           y == p \o q
<1>1. k \in Nat /\ m \in Nat /\ DOMAIN a = 1..k /\ DOMAIN b = 1..m
      OBVIOUS
<1>2. /\ x \in Seq(S) /\ Len(x) = k + m
      /\ \A i \in 1..k + m : x[i] = IF i <= k THEN a[i] ELSE b[i - k]
      BY ConcatProperties
<1>3. /\ y \in Seq(T) /\ Len(y) = k + m
      /\ \A i \in 1..k + m : y[i] = IF i <= k THEN p[i] ELSE q[i - k]
  <2>1. /\ y \in Seq(T) /\ Len(y) = Len(p) + Len(q)
        /\ \A i \in 1..Len(p) + Len(q) : y[i] = IF i <= Len(p) THEN p[i] ELSE q[i - Len(p)]
        BY ConcatProperties
  <2>2. Len(p) = k /\ Len(q) = m
        BY DEF Agree
  <2> HIDE DEF k, m, y
  <2> QED BY <2>1, <2>2
<1>4. \A i \in 1..k + m : (i <= k => i \in 1..k) /\ (~(i <= k) => i - k \in 1..m)
  <2> HIDE DEF k, m
  <2> QED BY <1>1
<1>5. (\A i \in 1..k : f[a[i]] = p[i]) /\ \A i \in 1..m : f[b[i]] = q[i]
      BY <1>1 DEF Agree
<1> HIDE DEF k, m, x, y
<1>6. DOMAIN x = 1..k + m /\ y = [i \in 1..k + m |-> y[i]]
      BY <1>2, <1>3
<1>7. ASSUME NEW i \in 1..k + m
      PROVE  f[x[i]] = y[i]
  <2>1. CASE i <= k
    <3>1. x[i] = a[i] /\ y[i] = p[i] /\ f[a[i]] = p[i]
          BY <1>2, <1>3, <1>4, <1>5, <2>1
    <3> QED BY <3>1
  <2>2. CASE ~(i <= k)
    <3>1. x[i] = b[i - k] /\ y[i] = q[i - k] /\ f[b[i - k]] = q[i - k]
          BY <1>2, <1>3, <1>4, <1>5, <2>2
    <3> QED BY <3>1
  <2> QED BY <2>1, <2>2
<1>8. [i \in DOMAIN x |-> f[x[i]]] = y
      BY <1>6, <1>7
<1> QED BY <1>8 DEF ReadBoth, x, y

(* What is written of a shape whose parts come back comes back.            *)
LEMMA WrittenBack ==
  ASSUME NEW t \in Shapes, Encode[t] # Bad,
         \A i \in DOMAIN t.kids : Encode[t.kids[i]] # Bad => Decode[Encode[t.kids[i]]] = t.kids[i],
         \A i \in DOMAIN t.rest : Encode[t.rest[i]] # Bad => Decode[Encode[t.rest[i]]] = t.rest[i]
  PROVE  Decode[Encode[t]] = t
<1> DEFINE kids == KidsOf(t)
           rest == RestOf(t)
           c == Encode[t]
<1>1. Encoded(t, kids, rest) /\ c = WrittenAs(t, kids, rest) /\ Returns(t, kids, rest)
      BY PartsEncoded
<1>2. /\ \A i \in DOMAIN t.kids : kids[i] = Encode[t.kids[i]]
      /\ \A i \in DOMAIN t.rest : rest[i] = Encode[t.rest[i]]
      BY DEF KidsOf, RestOf
<1>3. \A i \in DOMAIN t.kids : t.kids[i] \in Shapes
      BY PartsOfShapes
<1>4. \A i \in DOMAIN t.rest : t.rest[i] \in Shapes
      BY PartsOfShapes
<1>5. c \in Data /\ c.form = "call"
  <2>1. c \in Data \cup {Bad}
        BY EncodeTyped, NestingCounts DEF Shapes, Data
  <2> QED BY <2>1, EncodeForm
<1>6. /\ t \in Nested[Nesting].shapes /\ Nesting \in Int
      BY NestingCounts DEF Shapes
<1> HIDE DEF kids, rest, c
<1>7. /\ kids \in Seq(Data \cup {Bad}) /\ Len(kids) = Len(t.kids) /\ DOMAIN kids = 1..Len(t.kids)
      /\ DOMAIN t.kids = 1..Len(t.kids) /\ Len(t.kids) \in Nat
      /\ rest \in Seq(Data \cup {Bad}) /\ Len(rest) = Len(t.rest) /\ DOMAIN rest = 1..Len(t.rest)
      /\ DOMAIN t.rest = 1..Len(t.rest) /\ Len(t.rest) \in Nat
      /\ t.kids \in Seq(Nested[Nesting - 1].shapes) /\ t.rest \in Seq(Nested[Nesting - 1].shapes)
      BY <1>1, <1>6, EncodedTyped
<1>8. t.kids \in Seq(Shapes) /\ t.rest \in Seq(Shapes)
  <2> DEFINE p == t.kids
             q == t.rest
             U == Nested[Nesting - 1].shapes
  <2>1. /\ p \in Seq(U) /\ q \in Seq(U) /\ \A i \in DOMAIN p : p[i] \in Shapes
        /\ \A i \in DOMAIN q : q[i] \in Shapes
        BY <1>3, <1>4, <1>7
  <2> HIDE DEF p, q, U
  <2>2. p \in Seq(Shapes) /\ q \in Seq(Shapes)
        BY <2>1
  <2> QED BY <2>2 DEF p, q
<1>9. /\ Clean(t, kids, rest) /\ Constructs(c)
      /\ Inner(ClassOf(c), FieldsOf(c)) = kids \o rest
      /\ MadeOf(ClassOf(c), FieldsOf(c), t.kids \o t.rest) = t
      BY <1>1, Zenon DEF Returns, c
<1>10. Datum(c) = c
       BY <1>5, Zenon DEF Datum
<1>11. Inside(c) = kids \o rest
       BY <1>9, <1>10, Zenon DEF Inside
<1>12. [i \in DOMAIN (kids \o rest) |-> Decode[(kids \o rest)[i]]] = t.kids \o t.rest
  <2>1. \A i \in DOMAIN kids : Decode[kids[i]] = t.kids[i]
        BY <1>2, <1>7, <1>9 DEF Clean
  <2>2. \A i \in DOMAIN rest : Decode[rest[i]] = t.rest[i]
        BY <1>2, <1>7, <1>9 DEF Clean
  <2> DEFINE p == t.kids
             q == t.rest
             U == Data \cup {Bad}
  <2>3. /\ kids \in Seq(U) /\ rest \in Seq(U) /\ p \in Seq(Shapes) /\ q \in Seq(Shapes)
        /\ Len(p) = Len(kids) /\ Len(q) = Len(rest)
        BY <1>7, <1>8
  <2> HIDE DEF p, q, U
  <2>4. Agree(Decode, kids, p) /\ Agree(Decode, rest, q)
        BY <2>1, <2>2, <2>3 DEF Agree, p, q
  <2>5. ReadBoth(Decode, kids, rest) = p \o q
    <3>1. BothAgree(Decode, U, Shapes, kids, rest, p, q)
          BY <2>3, <2>4, Zenon DEF BothAgree
    <3> QED BY <3>1, BothRead
  <2> QED BY <2>5 DEF p, q, ReadBoth
<1>13. Decode[c] = ReadFrom(c, t.kids \o t.rest)
  <2>1. Decode[c] = DecodeBy(Decode, c)
        BY <1>5, DecodeEquation
  <2> QED BY <1>11, <1>12, <2>1, Zenon DEF DecodeBy
<1>14. Whole(t.kids \o t.rest)
  <2> DEFINE w == t.kids \o t.rest
  <2>1. w \in Seq(Shapes)
        BY <1>8
  <2> HIDE DEF w
  <2>2. \A i \in DOMAIN w : w[i] \in Shapes
        BY <2>1
  <2>3. Whole(w)
        BY <2>2, RefusedOutside DEF Whole
  <2> QED BY <2>3 DEF w
<1>15. Made(t) = t
       BY Zenon DEF Made
<1>16. c.form # "shape" /\ Constructs(Datum(c)) /\ Whole(t.kids \o t.rest)
       BY <1>5, <1>9, <1>10, <1>14
<1>17. ReadFrom(c, t.kids \o t.rest) =
         Made(MadeOf(ClassOf(Datum(c)), FieldsOf(Datum(c)), t.kids \o t.rest))
       BY <1>16, ReadArms
<1>18. Decode[c] = t
       BY <1>9, <1>10, <1>13, <1>15, <1>17
<1> QED BY <1>18 DEF c

LEMMA ComesBack == \A t \in Shapes : Encode[t] # Bad => Decode[Encode[t]] = t
<1> DEFINE Lost == {Rank(t) : t \in {s \in Shapes : Encode[s] # Bad /\ Decode[Encode[s]] # s}}
<1>1. SUFFICES ASSUME NEW n \in Lost, \A m \in Lost : n <= m
               PROVE  FALSE
  <2>1. Lost \in SUBSET Nat
        BY PartsOfShapes
  <2>2. Lost = {} => \A t \in Shapes : Encode[t] # Bad => Decode[Encode[t]] = t
        OBVIOUS
  <2> HIDE DEF Lost
  <2> QED BY <2>1, <2>2, LeastNumber
<1>2. PICK t \in Shapes : Rank(t) = n /\ Encode[t] # Bad /\ Decode[Encode[t]] # t
      OBVIOUS
<1>3. Rank(t) \in Nat
      BY PartsOfShapes
<1>4. ASSUME NEW s \in Shapes, Rank(s) < Rank(t), Encode[s] # Bad
      PROVE  Decode[Encode[s]] = s
  <2>1. Rank(s) \in Nat
        BY PartsOfShapes
  <2>2. Rank(s) \notin Lost
    <3> HIDE DEF Lost
    <3> QED BY <1>1, <1>2, <1>3, <1>4, <2>1
  <2> QED BY <1>4, <2>2
<1> HIDE DEF Lost
<1>5. \A i \in DOMAIN t.kids : Encode[t.kids[i]] # Bad => Decode[Encode[t.kids[i]]] = t.kids[i]
  <2>1. \A i \in DOMAIN t.kids : t.kids[i] \in Shapes /\ Rank(t.kids[i]) < Rank(t)
        BY PartsOfShapes
  <2> QED BY <1>4, <2>1
<1>6. \A i \in DOMAIN t.rest : Encode[t.rest[i]] # Bad => Decode[Encode[t.rest[i]]] = t.rest[i]
  <2>1. \A i \in DOMAIN t.rest : t.rest[i] \in Shapes /\ Rank(t.rest[i]) < Rank(t)
        BY PartsOfShapes
  <2> QED BY <1>4, <2>1
<1>7. Decode[Encode[t]] = t
      BY <1>2, <1>5, <1>6, WrittenBack
<1> QED BY <1>2, <1>7

(* Storable has its solution: the parts of a shape are smaller shapes.     *)
LEMMA StorableEquation ==
  \A t \in Shapes :
    Storable[t] <=>
      /\ t.kind \notin Unwritten
      /\ \A i \in DOMAIN t.kids  : Storable[t.kids[i]]
      /\ \A i \in DOMAIN t.rest  : Storable[t.rest[i]]
      /\ \A i \in DOMAIN t.marks : t.marks[i] # Bad
<1> DEFINE Body(f, t) ==
             /\ t.kind \notin {"capture", "fields", "number", "named"}
             /\ \A i \in DOMAIN t.kids  : f[t.kids[i]]
             /\ \A i \in DOMAIN t.rest  : f[t.rest[i]]
             /\ \A i \in DOMAIN t.marks : t.marks[i] # Bad
           Def == [p \in [Shapes -> BOOLEAN] \X Shapes |-> Body(p[1], p[2])]
           Height == [t \in Shapes |-> Rank(t)]
<1>1. ASSUME NEW f \in [Shapes -> BOOLEAN], NEW g \in [Shapes -> BOOLEAN], NEW x \in Shapes,
             \A y \in Shapes : Height[y] < Height[x] => f[y] = g[y]
      PROVE  Body(f, x) = Body(g, x)
  <2>1. \A i \in DOMAIN x.kids : x.kids[i] \in Shapes /\ Height[x.kids[i]] < Height[x]
        BY PartsOfShapes
  <2>2. \A i \in DOMAIN x.rest : x.rest[i] \in Shapes /\ Height[x.rest[i]] < Height[x]
        BY PartsOfShapes
  <2> HIDE DEF Height
  <2>3. \A i \in DOMAIN x.kids : f[x.kids[i]] = g[x.kids[i]]
        BY <1>1, <2>1
  <2>4. \A i \in DOMAIN x.rest : f[x.rest[i]] = g[x.rest[i]]
        BY <1>1, <2>2
  <2> QED BY <2>3, <2>4, Zenon
<1>2. \A f \in [Shapes -> BOOLEAN], x \in Shapes : Def[<<f, x>>] = Body(f, x)
      OBVIOUS
<1>3. Def \in [[Shapes -> BOOLEAN] \X Shapes -> BOOLEAN]
      OBVIOUS
<1>4. Height \in [Shapes -> Nat]
      BY PartsOfShapes
<1>5. Solved(Shapes, BOOLEAN, Def)
  <2> HIDE DEF Def, Body, Height
  <2>1. ASSUME NEW f \in [Shapes -> BOOLEAN], NEW g \in [Shapes -> BOOLEAN], NEW x \in Shapes,
               \A y \in Shapes : Height[y] < Height[x] => f[y] = g[y]
        PROVE  Def[<<f, x>>] = Def[<<g, x>>]
        BY <1>1, <1>2, <2>1
  <2>2. BOOLEAN # {}
        OBVIOUS
  <2>3. Shrinks(Shapes, BOOLEAN, Height, Def)
        BY <1>3, <1>4, <2>1, <2>2, Zenon DEF Shrinks
  <2> QED BY <2>3, Recursion
<1>6. \E f : f = [t \in Shapes |-> Body(f, t)]
  <2> HIDE DEF Def, Body
  <2> QED BY <1>2, <1>5 DEF Solved
<1>7. Storable = [t \in Shapes |-> Body(Storable, t)]
      BY <1>6 DEF Storable
<1>8. \A t \in Shapes : Storable[t] = Body(Storable, t)
  <2> HIDE DEF Body
  <2> QED BY <1>7
<1> QED BY <1>8 DEF Unwritten

(* encode_shape_expr refuses a shape for the parts it does not know only.  *)
LEMMA WrittenIfStorable == \A t \in Shapes : Encode[t] # Bad <=> Storable[t]
<1> DEFINE Lost == {Rank(t) : t \in {s \in Shapes : ~(Encode[s] # Bad <=> Storable[s])}}
<1>1. SUFFICES ASSUME NEW n \in Lost, \A m \in Lost : n <= m
               PROVE  FALSE
  <2>1. Lost \in SUBSET Nat
        BY PartsOfShapes
  <2>2. Lost = {} => \A t \in Shapes : Encode[t] # Bad <=> Storable[t]
        OBVIOUS
  <2> HIDE DEF Lost
  <2> QED BY <2>1, <2>2, LeastNumber
<1>2. PICK t \in Shapes : Rank(t) = n /\ ~(Encode[t] # Bad <=> Storable[t])
      OBVIOUS
<1>3. Rank(t) \in Nat
      BY PartsOfShapes
<1>4. ASSUME NEW s \in Shapes, Rank(s) < Rank(t)
      PROVE  Encode[s] # Bad <=> Storable[s]
  <2>1. Rank(s) \in Nat
        BY PartsOfShapes
  <2>2. Rank(s) \notin Lost
    <3> HIDE DEF Lost
    <3> QED BY <1>1, <1>2, <1>3, <1>4, <2>1
  <2> QED BY <2>2
<1> HIDE DEF Lost
<1>5. \A i \in DOMAIN t.kids : Encode[t.kids[i]] # Bad <=> Storable[t.kids[i]]
  <2>1. \A i \in DOMAIN t.kids : t.kids[i] \in Shapes /\ Rank(t.kids[i]) < Rank(t)
        BY PartsOfShapes
  <2> QED BY <1>4, <2>1
<1>6. \A i \in DOMAIN t.rest : Encode[t.rest[i]] # Bad <=> Storable[t.rest[i]]
  <2>1. \A i \in DOMAIN t.rest : t.rest[i] \in Shapes /\ Rank(t.rest[i]) < Rank(t)
        BY PartsOfShapes
  <2> QED BY <1>4, <2>1
<1>7. Encode[t] # Bad <=> t.kind \notin Unwritten /\ Clean(t, KidsOf(t), RestOf(t))
  <2>1. Encode[t] = WrittenAs(t, KidsOf(t), RestOf(t)) /\ Returns(t, KidsOf(t), RestOf(t))
        BY PartsEncoded
  <2> QED BY <2>1, Zenon DEF Returns
<1>8. Clean(t, KidsOf(t), RestOf(t)) <=>
        /\ \A i \in DOMAIN t.kids  : Storable[t.kids[i]]
        /\ \A i \in DOMAIN t.rest  : Storable[t.rest[i]]
        /\ \A i \in DOMAIN t.marks : t.marks[i] # Bad
      BY <1>5, <1>6 DEF Clean, KidsOf, RestOf
<1> QED BY <1>2, <1>7, <1>8, StorableEquation

(* Whatever a constructor returns can be written, and comes back.          *)
LEMMA ValuesComeBack ==
  ASSUME NEW d \in Data, d.form # "shape", Decode[d] # Refused
  PROVE  Encode[Decode[d]] # Bad /\ Decode[Encode[Decode[d]]] = Decode[d]
<1> DEFINE w == Datum(d)
           inside == [i \in DOMAIN Inside(d) |-> Decode[Inside(d)[i]]]
           made == MadeOf(ClassOf(w), FieldsOf(w), inside)
<1>1. Decode[d] = ReadFrom(d, inside)
      BY DecodeEquation DEF DecodeBy
<1> HIDE DEF inside
<1>2. Constructs(w) /\ Whole(inside)
      BY <1>1, ReadArms
<1>3. Decode[d] = Made(made)
      BY <1>1, <1>2, ReadArms
<1> HIDE DEF made, w
<1>4. Encode[made] # Bad /\ Decode[d] = made
      BY <1>3, Zenon DEF Made
<1>5. Decode[d] \in Shapes
  <2>1. Decode[d] \in Shapes \cup {Refused}
        BY DecodeTyped, NestingCounts DEF Data, Shapes
  <2> QED BY <2>1
<1> QED BY <1>4, <1>5, ComesBack

-----------------------------------------------------------------------------
(* What the parser makes of an expression is a shape of three levels for   *)
(* each level of the budget.                                               *)

LEMMA SpeltTyped ==
  ASSUME NEW p \in Phrase
  PROVE  Spelt(p) \in Words /\ Key(p) \in Words
<1>1. Source[p] \in PhraseType
      BY ParseAssumption
<1>2. Source[p].space \in {"", "shape", "core", "host"} /\ Source[p].name \in Name
      BY <1>1 DEF PhraseType
<1>3. Source[p].space \in Spelling /\ Source[p].name \in Spelling
      BY <1>2, NotationAssumption, WordsSpelt
<1>4. "" \in Spelling /\ Bare[Source[p].name] \in Spelling
  <2>1. Bare[Source[p].name] \in Name
        BY <1>2, ParseAssumption
  <2> QED BY <2>1, NotationAssumption, WordsSpelt
<1>5. \A space, name \in Spelling : Word(space, name) \in Words
      BY DEF Word, Words
<1>6. Spelt(p) \in Words
      BY <1>3, <1>5 DEF Spelt
<1> QED BY <1>4, <1>5, <1>6 DEF Key

(* A list whose parts have been read: kids are what they were read as.     *)
Parsed(n, e, kids) ==
  /\ n \in Int /\ n > 2 /\ e \in Phrase /\ Readable(e)
  /\ kids \in Seq(Nested[n - 3].shapes) /\ Len(kids) = Len(Steps(e))

LEMMA ParsedTyped ==
  ASSUME NEW n, NEW e, NEW kids, Parsed(n, e, kids)
  PROVE  /\ n \in Int /\ n > 1 /\ n - 1 \in Int /\ n - 2 \in Int /\ n - 1 > 1 /\ (n - 1) - 1 = n - 2
         /\ kids \in Seq(Nested[n - 1].shapes) /\ kids \in Seq(Nested[n - 2].shapes)
         /\ kids \in Seq(Nested[n - 3].shapes)
         /\ Len(kids) = Len(Steps(e)) /\ Len(kids) \in Nat /\ DOMAIN kids = 1..Len(kids)
         /\ \A kind : \A i \in DOMAIN kids : kids[i] \in Nested[n - Sunk(kind, i)].shapes
         /\ Nested[n - 3].shapes \subseteq Nested[n - 1].shapes
         /\ Nested[n - 3].shapes \subseteq Nested[n - 2].shapes
<1>1. /\ n \in Int /\ n > 2 /\ kids \in Seq(Nested[n - 3].shapes) /\ Len(kids) = Len(Steps(e))
      BY DEF Parsed
<1>2. n > 1 /\ n - 1 \in Int /\ n - 2 \in Int /\ n - 1 > 1 /\ n - 3 \in Int /\ (n - 1) - 1 = n - 2
      /\ n - 3 <= n - 1 /\ n - 3 <= n - 2
      BY <1>1
<1>3. /\ Nested[n - 3].shapes \subseteq Nested[n - 1].shapes
      /\ Nested[n - 3].shapes \subseteq Nested[n - 2].shapes
      BY <1>2, Deeper
<1>4. kids \in Seq(Nested[n - 1].shapes) /\ kids \in Seq(Nested[n - 2].shapes)
      BY <1>1, <1>3, SeqMonotonic
<1>5. \A kind : \A i \in DOMAIN kids : kids[i] \in Nested[n - Sunk(kind, i)].shapes
  <2>1. TAKE kind
  <2>2. TAKE i \in DOMAIN kids
  <2>3. Sunk(kind, i) \in 1..3
        BY SunkBelow
  <2>4. n - Sunk(kind, i) \in Int /\ n - 3 <= n - Sunk(kind, i)
        BY <1>1, <2>3
  <2>5. kids[i] \in Nested[n - 3].shapes
        BY <1>1
  <2> QED BY <1>2, <2>4, <2>5, Deeper
<1>6. Len(kids) \in Nat /\ DOMAIN kids = 1..Len(kids)
      BY <1>1
<1> QED BY <1>1, <1>2, <1>3, <1>4, <1>5, <1>6

(* None stands nowhere among the parts, so the format of the list is right.*)
LEMMA FormatRight ==
  ASSUME NEW e \in Phrase, Readable(e)
  PROVE  /\ Steps(e) # <<None>>
         /\ \A i \in DOMAIN Steps(e) : Steps(e)[i] # None
         /\ \A condition, steps : Steps(e) = If(condition, steps) => condition /\ Steps(e) = steps
<1>1. None \notin Parts(e) /\ \A i \in DOMAIN Steps(e) : Steps(e)[i] \in Parts(e)
      BY PartsTyped DEF Readable
<1>2. \A i \in DOMAIN Steps(e) : Steps(e)[i] # None
      BY <1>1
<1>3. Steps(e) # <<None>>
  <2>1. DOMAIN <<None>> = {1} /\ <<None>>[1] = None
        BY OneOf
  <2> QED BY <1>2, <2>1
<1> QED BY <1>2, <1>3 DEF If

LEMMA ItemsTyped ==
  ASSUME NEW e \in Phrase
  PROVE  /\ Items(e) \in Seq(Phrase) /\ Len(Items(e)) \in Nat
         /\ \A i \in 1..Len(Items(e)) : Items(e)[i] \in Phrase
<1>1. Items(e) \in Seq(Phrase)
      BY PhraseTyped
<1> QED BY <1>1

LEMMA PairsTyped ==
  ASSUME NEW es \in Seq(Phrase), \A i \in DOMAIN es : Entries(es)[i] # None
  PROVE  /\ KeysOf(es) \in Seq(Words) /\ Len(KeysOf(es)) = Len(es)
         /\ WordsOf(es) \in Seq(Words) /\ Len(WordsOf(es)) = Len(es)
         /\ Len(Entries(es)) = Len(es) /\ DOMAIN Entries(es) = DOMAIN es
<1>1. DOMAIN es = 1..Len(es) /\ Len(es) \in Nat
      BY LenProperties
<1>2. \A i \in DOMAIN es : IsPair(es[i])
      BY DEF Entries
<1>3. ASSUME NEW i \in DOMAIN es
      PROVE  Key(Items(es[i])[1]) \in Words /\ Spelt(Items(es[i])[1]) \in Words
  <2>1. es[i] \in Phrase /\ Len(Items(es[i])) = 2
        BY <1>2 DEF IsPair, Arity
  <2> DEFINE p == Items(es[i])
  <2>2. p \in Seq(Phrase) /\ Len(p) = 2
        BY <2>1, ItemsTyped
  <2> HIDE DEF p
  <2>3. p[1] \in Phrase
    <3>1. 1 \in 1..Len(p)
          BY <2>2
    <3> QED BY <2>2, <3>1, ElementOfSeq
  <2>4. Items(es[i])[1] \in Phrase
        BY <2>3 DEF p
  <2> QED BY <2>4, SpeltTyped
<1> DEFINE k == KeysOf(es)
           w == WordsOf(es)
           n == Entries(es)
<1>4. /\ DOMAIN k = DOMAIN es /\ k = [i \in DOMAIN es |-> k[i]]
             /\ \A i \in DOMAIN es : k[i] \in Words
      BY <1>3 DEF KeysOf
<1>5. /\ DOMAIN w = DOMAIN es /\ w = [i \in DOMAIN es |-> w[i]]
             /\ \A i \in DOMAIN es : w[i] \in Words
      BY <1>3 DEF WordsOf
<1>6. DOMAIN n = DOMAIN es
      BY DEF Entries
<1>7. n = [i \in 1..Len(es) |-> n[i]]
      BY <1>1 DEF Entries
<1> HIDE DEF k, w, n
<1>8. k \in Seq(Words)
      BY <1>4, SeqOf
<1>9. w \in Seq(Words)
      BY <1>5, SeqOf
<1>10. Len(k) = Len(es)
       BY <1>1, <1>4, <1>8, LenProperties
<1>11. Len(w) = Len(es)
       BY <1>1, <1>5, <1>9, LenProperties
<1>12. Len(n) = Len(es)
       BY <1>1, <1>7
<1> QED BY <1>6, <1>8, <1>9, <1>10, <1>11, <1>12 DEF k, w, n

LEMMA AtomShape ==
  ASSUME NEW e \in Phrase, NEW n \in Int, n > 2
  PROVE  Atom(e) \in Nested[n].shapes /\ \A w \in Words : NameTree("ref", w) \in Nested[n].shapes
<1>1. /\ None \in Words \cup {None} \cup Nested[n - 1].data /\ None \in Nat \cup {None}
      /\ n > 1
      /\ \A w \in Words : w \in Words \cup {None} \cup Nested[n - 1].data
      OBVIOUS
<1>2. <<>> \in Seq(Nested[n - 1].shapes) /\ "" \in Spelling /\ 0 \in Nat
      BY BlankFields
<1>3. \A i : i \notin DOMAIN <<>>
      OBVIOUS
<1>4. ASSUME NEW t, NEW kind, NEW name, NEW arg, kind \in Kinds \ {"table", "exact"},
             name \in Words \cup {None} \cup Nested[n - 1].data, arg \in Spelling,
             t = Plain(kind, <<>>, name, <<>>, arg, 0, None), WellMade(t)
      PROVE  t \in Nested[n].shapes
  <2>1. kind \in Kinds /\ kind # "table" /\ kind # "exact"
        BY <1>4
  <2> QED BY <1>1, <1>2, <1>3, <1>4, <2>1, TreeTyped
<1>5. Leaf \in Nested[n].shapes
  <2>1. Leaf = Plain("any", <<>>, None, <<>>, "", 0, None) /\ "any" \in Kinds \ {"table", "exact"}
        BY Trees, KindsKnown
  <2>2. Leaf.kind = "any"
        BY DEF Leaf
  <2>3. WellMade(Leaf)
        BY <2>2, Zenon DEF WellMade
  <2> QED BY <1>1, <1>2, <1>4, <2>1, <2>3
<1>6. ASSUME NEW arg \in ExprKinds PROVE KindTree(arg) \in Nested[n].shapes
  <2>0. ASSUME NEW t, t = Plain("exprKind", <<>>, None, <<>>, arg, 0, None)
        PROVE  t.kind = "exprKind" /\ t.arg = arg
        BY <2>0 DEF Plain
  <2> DEFINE t == KindTree(arg)
  <2>1. t = Plain("exprKind", <<>>, None, <<>>, arg, 0, None)
            /\ "exprKind" \in Kinds \ {"table", "exact"}
        BY Trees, KindsKnown
  <2>2. t.kind = "exprKind" /\ t.arg = arg
        BY <2>0, <2>1
  <2>3. WellMade(t)
        BY <2>2 DEF WellMade
  <2>4. arg \in Spelling
        BY WordsSpelt
  <2> HIDE DEF t
  <2>5. t \in Nested[n].shapes
        BY <1>1, <1>4, <2>1, <2>3, <2>4
  <2> QED BY <2>5 DEF t
<1>7. Tree("number", <<>>) \in Nested[n].shapes
  <2>0. ASSUME NEW t, t = Plain("number", <<>>, None, <<>>, "", 0, None)
        PROVE  t.kind = "number"
        BY <2>0 DEF Plain
  <2> DEFINE t == Tree("number", <<>>)
  <2>1. t = Plain("number", <<>>, None, <<>>, "", 0, None)
            /\ "number" \in Kinds \ {"table", "exact"}
        BY Trees, KindsKnown
  <2>2. t.kind = "number"
        BY <2>0, <2>1
  <2> HIDE DEF t
  <2>3. WellMade(t)
        BY <2>2 DEF WellMade
  <2>4. t \in Nested[n].shapes
        BY <1>1, <1>2, <1>4, <2>1, <2>3
  <2> QED BY <2>4 DEF t
<1>8. ASSUME NEW w \in Words, NEW kind \in {"class", "ref"}
      PROVE  NameTree(kind, w) \in Nested[n].shapes
  <2>0. ASSUME NEW t, t = Plain(kind, <<>>, w, <<>>, "", 0, None)
        PROVE  t.kind = kind /\ t.name = w
        BY <2>0 DEF Plain
  <2> DEFINE t == NameTree(kind, w)
  <2>1. t = Plain(kind, <<>>, w, <<>>, "", 0, None) /\ kind \in Kinds \ {"table", "exact"}
        BY Trees, KindsKnown
  <2>2. t.kind = kind /\ t.name = w
        BY <2>0, <2>1
  <2>3. WellMade(t)
        BY <2>2 DEF WellMade
  <2> HIDE DEF t
  <2>4. t \in Nested[n].shapes
        BY <1>1, <1>2, <1>4, <2>1, <2>3
  <2> QED BY <2>4 DEF t
<1>9. \A w \in Words : NameTree("ref", w) \in Nested[n].shapes
  <2>1. "ref" \in {"class", "ref"}
        OBVIOUS
  <2> QED BY <1>8, <2>1
<1> DEFINE kinds == {k \in KindWords : k[1] = Source[e].name}
<1>10. kinds # {} => (CHOOSE k \in kinds : TRUE)[2] \in ExprKinds
  <2>1. \A k \in KindWords : k[2] \in ExprKinds
        BY DEF KindWords, ExprKinds
  <2> QED BY <2>1
<1>11. Spelt(e) \in Words
       BY SpeltTyped
<1> HIDE DEF kinds
<1>12. CASE Source[e].space = "" /\ Source[e].name = "Any"
  <2>1. kinds = {}
    <3>1. \A k \in KindWords : k[1] # "Any"
          BY DEF KindWords
    <3> QED BY <1>12, <3>1 DEF kinds
  <2>2. Spelt(e) # Word("core", "Number")
        BY <1>12 DEF Spelt, Word
  <2>3. Atom(e) = Leaf
        BY <1>12, <2>1, <2>2, Zenon DEF Atom, kinds
  <2> QED BY <1>5, <1>9, <2>3
<1>13. CASE ~(Source[e].space = "" /\ Source[e].name = "Any") /\ Source[e].space = "" /\ kinds # {}
  <2>1. Spelt(e) # Word("core", "Number")
        BY <1>13 DEF Spelt, Word
  <2>2. Atom(e) = KindTree((CHOOSE k \in kinds : TRUE)[2])
        BY <1>13, <2>1, Zenon DEF Atom, kinds
  <2> QED BY <1>6, <1>9, <1>10, <1>13, <2>2
<1>14. CASE ~(Source[e].space = "" /\ Source[e].name = "Any") 
             /\ ~(Source[e].space = "" /\ kinds # {})
  <2>1. CASE Spelt(e) = Word("core", "Number")
    <3>1. Atom(e) = Tree("number", <<>>)
          BY <1>14, <2>1, Zenon DEF Atom, kinds
    <3> QED BY <1>7, <1>9, <3>1
  <2>2. CASE Spelt(e) # Word("core", "Number")
    <3>1. Atom(e) = NameTree("class", Spelt(e))
          BY <1>14, <2>2, Zenon DEF Atom, kinds
    <3>2. "class" \in {"class", "ref"}
          OBVIOUS
    <3> QED BY <1>8, <1>9, <1>11, <3>1, <3>2
  <2> QED BY <2>1, <2>2
<1> QED BY <1>12, <1>13, <1>14

(* What the parser builds by each rule, of the parts it has read.          *)
LEMMA BuiltArms ==
  ASSUME NEW e, NEW kids
  PROVE  /\ Rule(e) = "tuple" => Built(e, kids) = ListTree(kids, <<>>)
         /\ Rule(e) = "list" => Built(e, kids) = ListTree(kids, <<>>)
         /\ Rule(e) = "and" => Built(e, kids) = Tree("and", kids)
         /\ Rule(e) = "not" => Built(e, kids) = Tree("not", kids)
         /\ Rule(e) = "or" => Built(e, kids) = OrTree(kids, "first-match")
         /\ Rule(e) = "capture" => Built(e, kids) = CaptureTree(Spelt(Items(e)[2]), kids[1])
         /\ Rule(e) = "fields" => Built(e, kids) = KeyedTree("fields", KeysOf(Args(e)), kids)
         /\ Rule(e) = "rest" => Built(e, kids) =
              ListTree(SubSeq(kids, 1, Len(kids) - 1), <<kids[Len(kids)]>>)
         /\ Rule(e) = "repeat" => Built(e, kids) = RepeatTree(kids[1], 0, None)
         /\ Rule(e) = "bounds" => Built(e, kids) =
                RepeatTree(kids[1], CountOf(Items(e)[3]), CountOf(Items(e)[4]))
         /\ Rule(e) = "defs" => Built(e, kids) =
              KeyedTree("defs", WordsOf(Items(Items(e)[2])), kids)
         /\ Rule(e) = "ref" => Built(e, kids) = NameTree("ref", Spelt(Items(e)[2]))
         /\ Rule(e) = "single" => Built(e, kids) = TableTree(<<Key(Items(e)[2])>>, kids, "allow")
         /\ Rule(e) = "open" => Built(e, kids) = TableTree(KeysOf(TableFields(e)), kids, "allow")
         /\ Rule(e) = "closed" => Built(e, kids) = TableTree(KeysOf(TableFields(e)), kids, "reject")
<1> DEFINE at == Items(e)
<1>1. /\ BuiltBy("tuple", at, e, kids) = ListTree(kids, <<>>)
      /\ BuiltBy("list", at, e, kids) = ListTree(kids, <<>>)
      /\ BuiltBy("and", at, e, kids) = Tree("and", kids)
      /\ BuiltBy("not", at, e, kids) = Tree("not", kids)
      /\ BuiltBy("or", at, e, kids) = OrTree(kids, "first-match")
      BY Zenon DEF BuiltBy
<1>2. /\ BuiltBy("capture", at, e, kids) = CaptureTree(Spelt(at[2]), kids[1])
      /\ BuiltBy("fields", at, e, kids) = KeyedTree("fields", KeysOf(Args(e)), kids)
      BY Zenon DEF BuiltBy
<1>3. BuiltBy("rest", at, e, kids) = ListTree(SubSeq(kids, 1, Len(kids) - 1), <<kids[Len(kids)]>>)
      BY Zenon DEF BuiltBy
<1>4. /\ BuiltBy("repeat", at, e, kids) = RepeatTree(kids[1], 0, None)
      /\ BuiltBy("bounds", at, e, kids) = RepeatTree(kids[1], CountOf(at[3]), CountOf(at[4]))
      BY Zenon DEF BuiltBy
<1>5. /\ BuiltBy("defs", at, e, kids) = KeyedTree("defs", WordsOf(Items(at[2])), kids)
      /\ BuiltBy("ref", at, e, kids) = NameTree("ref", Spelt(at[2]))
      BY Zenon DEF BuiltBy
<1>6. BuiltBy("single", at, e, kids) = TableTree(<<Key(at[2])>>, kids, "allow")
      BY Zenon DEF BuiltBy
<1>7. BuiltBy("open", at, e, kids) = TableTree(KeysOf(TableFields(e)), kids, "allow")
      BY Zenon DEF BuiltBy
<1>8. BuiltBy("closed", at, e, kids) = TableTree(KeysOf(TableFields(e)), kids, "reject")
      BY Zenon DEF BuiltBy
<1>9. \A rule : Rule(e) = rule => Built(e, kids) = BuiltBy(rule, at, e, kids)
      BY DEF Built
<1> HIDE DEF at
<1> QED BY <1>1, <1>2, <1>3, <1>4, <1>5, <1>6, <1>7, <1>8, <1>9 DEF at

(* What the parser has checked of the format of each list it reads.        *)
LEMMA StepsArms ==
  ASSUME NEW e
  PROVE  /\ Rule(e) = "not" => Steps(e) = If(Len(Items(e)) = 2, <<Items(e)[2]>>)
         /\ Rule(e) = "repeat" => Steps(e) = If(Len(Items(e)) = 2, <<Items(e)[2]>>)
         /\ Rule(e) = "capture" => Steps(e) =
              If(Len(Items(e)) = 3 /\ IsSymbol(Items(e)[2]), <<Items(e)[3]>>)
         /\ Rule(e) = "single" => Steps(e) =
              If(Len(Items(e)) = 3 /\ IsSymbol(Items(e)[2]), <<Items(e)[3]>>)
         /\ Rule(e) = "fields" => Steps(e) = Entries(Args(e))
         /\ Rule(e) = "open" => Steps(e) = Entries(TableFields(e))
         /\ Rule(e) = "closed" => Steps(e) = Entries(TableFields(e))
         /\ Rule(e) = "rest" => Steps(e) =
              If(Len(Items(e)) = 3 /\ IsList(Items(e)[2]), Append(Items(Items(e)[2]), Items(e)[3]))
         /\ Rule(e) = "bounds" => Steps(e) =
              If(Len(Items(e)) = 4 /\ BoundsOK(Items(e)[3], Items(e)[4]), <<Items(e)[2]>>)
         /\ Rule(e) = "defs" => Steps(e) =
              If(Len(Items(e)) = 3,
                 <<Items(e)[3]>> \o If(IsList(Items(e)[2]), Entries(Items(Items(e)[2]))))
         /\ Rule(e) = "ref" => Steps(e) = If(Len(Items(e)) = 2 /\ IsSymbol(Items(e)[2]), <<>>)
         /\ Rule(e) = "without" => Steps(e) = If(Len(Items(e)) = 3, <<Items(e)[2], Items(e)[3]>>)
<1> DEFINE at == Items(e)
<1>1. /\ StepsBy("not", at, e) = If(Len(at) = 2, <<at[2]>>)
      /\ StepsBy("repeat", at, e) = If(Len(at) = 2, <<at[2]>>)
      BY Zenon DEF StepsBy
<1>2. /\ StepsBy("capture", at, e) = If(Len(at) = 3 /\ IsSymbol(at[2]), <<at[3]>>)
      /\ StepsBy("single", at, e) = If(Len(at) = 3 /\ IsSymbol(at[2]), <<at[3]>>)
      BY Zenon DEF StepsBy
<1>3. StepsBy("fields", at, e) = Entries(Args(e))
      BY Zenon DEF StepsBy
<1>4. /\ StepsBy("open", at, e) = Entries(TableFields(e))
      /\ StepsBy("closed", at, e) = Entries(TableFields(e))
      BY Zenon DEF StepsBy
<1>5. StepsBy("rest", at, e) = If(Len(at) = 3 /\ IsList(at[2]), Append(Items(at[2]), at[3]))
      BY Zenon DEF StepsBy
<1>6. StepsBy("bounds", at, e) = If(Len(at) = 4 /\ BoundsOK(at[3], at[4]), <<at[2]>>)
      BY Zenon DEF StepsBy
<1>7. StepsBy("defs", at, e) =
        If(Len(at) = 3, <<at[3]>> \o If(IsList(at[2]), Entries(Items(at[2]))))
      BY Zenon DEF StepsBy
<1>8. StepsBy("ref", at, e) = If(Len(at) = 2 /\ IsSymbol(at[2]), <<>>)
      BY Zenon DEF StepsBy
<1>9. StepsBy("without", at, e) = If(Len(at) = 3, <<at[2], at[3]>>)
      BY Zenon DEF StepsBy
<1>10. \A rule : Rule(e) = rule => Steps(e) = StepsBy(rule, at, e)
       BY DEF Steps
<1> HIDE DEF at
<1> QED BY <1>1, <1>2, <1>3, <1>4, <1>5, <1>6, <1>7, <1>8, <1>9, <1>10 DEF at

(* The parts of a list that are there once its format is right.            *)
LEMMA PartAt ==
  ASSUME NEW e \in Phrase, NEW i \in Nat, 1 <= i, i <= Arity(e)
  PROVE  Items(e)[i] \in Phrase
<1> DEFINE at == Items(e)
<1>1. at \in Seq(Phrase) /\ Len(at) \in Nat
      BY ItemsTyped
<1>2. i \in 1..Len(at)
      BY <1>1 DEF Arity
<1> HIDE DEF at
<1>3. at[i] \in Phrase
      BY <1>1, <1>2, ElementOfSeq
<1> QED BY <1>3 DEF at

LEMMA FirstOf ==
  ASSUME NEW S, NEW s \in Seq(S), Len(s) = 1
  PROVE  s[1] \in S /\ s = <<s[1]>> /\ 1 \in DOMAIN s
<1>1. DOMAIN s = 1..1 /\ s = [i \in 1..1 |-> s[i]]
      OBVIOUS
<1>2. 1 \in 1..1
      OBVIOUS
<1>3. s[1] \in S
      BY <1>1, <1>2
<1>4. <<s[1]>> = s
  <2>1. <<s[1]>> \in Seq(S) /\ Len(<<s[1]>>) = 1 /\ <<s[1]>>[1] = s[1]
        BY <1>3, OneOf
  <2> QED BY <2>1, SeqEqual
<1> QED BY <1>1, <1>2, <1>3, <1>4

(* Lists, conjunctions, disjunctions and negations.                        *)
LEMMA BuiltGroup ==
  ASSUME NEW n, NEW e, NEW kids, Parsed(n, e, kids),
         Rule(e) \in {"tuple", "list", "and", "or", "not"}
  PROVE  Built(e, kids) \in Nested[n].shapes
<1> DEFINE t == Built(e, kids)
           kind == IF Rule(e) \in {"tuple", "list"} THEN "list" ELSE Rule(e)
           arg == IF kind = "or" THEN "first-match" ELSE ""
<1>1. /\ n \in Int /\ n > 1 /\ kids \in Seq(Nested[n - 1].shapes) /\ Len(kids) = Len(Steps(e))
      /\ \A i \in DOMAIN kids : kids[i] \in Nested[n - Sunk(kind, i)].shapes
      BY ParsedTyped
<1>2. e \in Phrase /\ Readable(e)
      BY DEF Parsed
<1>3. /\ None \in Words \cup {None} \cup Nested[n - 1].data /\ None \in Nat \cup {None}
      /\ <<>> \in Seq(Nested[n - 1].shapes) /\ "" \in Spelling /\ 0 \in Nat
      BY BlankFields
<1>4. /\ kind = "list" => t = ListTree(kids, <<>>)
      /\ kind = "and" => t = Tree("and", kids)
      /\ kind = "not" => t = Tree("not", kids)
      /\ kind = "or" => t = OrTree(kids, "first-match")
      /\ kind \in {"list", "and", "or", "not"}
  <2>1. kind \in {"list", "and", "or", "not"} /\ (kind = "list" => Rule(e) \in {"tuple", "list"})
        /\ (kind # "list" => Rule(e) = kind)
        OBVIOUS
  <2> HIDE DEF kind
  <2> QED BY <2>1, BuiltArms
<1>5. ASSUME kind = "not" PROVE Len(kids) = 1
  <2>1. Rule(e) = "not"
        BY <1>5
  <2>2. Steps(e) = If(Len(Items(e)) = 2, <<Items(e)[2]>>)
        BY <2>1, StepsArms DEF Steps
  <2>3. Steps(e) = <<Items(e)[2]>>
        BY <1>2, <2>2, FormatRight
  <2>4. Len(Steps(e)) = 1
        BY <2>3
  <2> QED BY <1>1, <2>4
<1>6. arg \in Spelling /\ (kind = "or" => arg \in Strategies) /\ (kind # "or" => arg = "")
  <2>1. "first-match" \in Strategies /\ "first-match" \in Spelling
        BY WordsSpelt DEF Strategies
  <2> QED BY <1>3, <2>1
<1>7. kind = "or" => arg = "first-match"
      OBVIOUS
<1> HIDE DEF t, kind, arg
<1>8. t = Plain(kind, kids, None, <<>>, arg, 0, None)
      BY <1>4, <1>6, <1>7, Trees
<1>9. t.kind = kind /\ t.kids = kids /\ t.arg = arg /\ t.rest = <<>>
      BY <1>8, PlainFields
<1>10. WellMade(t)
  <2>1. Len(<<>>) = 0
        BY NoneOf
  <2>2. kind = "list" => t = ListTree(t.kids, t.rest) /\ Len(t.rest) <= 1
        BY <1>4, <1>9, <2>1
  <2> QED BY <1>4, <1>5, <1>6, <1>7, <1>9, <2>2 DEF WellMade
<1>11. kind \in Kinds /\ kind # "table" /\ kind # "exact"
       BY <1>4, KindsKnown
<1>12. t \in Nested[n].shapes
       BY <1>1, <1>3, <1>6, <1>8, <1>10, <1>11, TreeTyped
<1> QED BY <1>12 DEF t

LEMMA CountTyped ==
  ASSUME NEW lo \in Phrase, NEW hi \in Phrase, BoundsOK(lo, hi)
  PROVE  CountOf(lo) \in Nat /\ CountOf(hi) \in Nat \cup {None}
<1>1. Source[lo] \in PhraseType /\ Source[hi] \in PhraseType
      BY ParseAssumption
<1>2. Source[lo].num \in Nat \cup {None} /\ Source[hi].num \in Nat \cup {None}
      BY <1>1 DEF PhraseType
<1>3. Form(lo) = "number" /\ Source[lo].num # None
      BY DEF BoundsOK
<1> QED BY <1>2, <1>3 DEF CountOf

(* A list of one part.                                                     *)
LEMMA OneStep ==
  ASSUME NEW n, NEW e, NEW kids, Parsed(n, e, kids),
         NEW step, Steps(e) = <<step>>
  PROVE  Len(kids) = 1 /\ kids[1] \in Nested[n - 3].shapes /\ kids = <<kids[1]>>
<1>1. kids \in Seq(Nested[n - 3].shapes) /\ Len(kids) = Len(Steps(e))
      BY ParsedTyped
<1>2. Len(kids) = 1
      BY <1>1
<1> QED BY <1>1, <1>2, FirstOf

(* Captures and repetitions.                                               *)
LEMMA BuiltOne ==
  ASSUME NEW n, NEW e, NEW kids, Parsed(n, e, kids), Rule(e) \in {"capture", "repeat", "bounds"}
  PROVE  Built(e, kids) \in Nested[n].shapes
<1> DEFINE t == Built(e, kids)
           kind == IF Rule(e) = "capture" THEN "capture" ELSE "repeat"
           name == IF Rule(e) = "capture" THEN Spelt(Items(e)[2]) ELSE None
           min == IF Rule(e) = "bounds" THEN CountOf(Items(e)[3]) ELSE 0
           max == IF Rule(e) = "bounds" THEN CountOf(Items(e)[4]) ELSE None
           one == <<kids[1]>>
<1>1. /\ n \in Int /\ n > 1 /\ Nested[n - 3].shapes \subseteq Nested[n - 1].shapes
      BY ParsedTyped
<1>2. e \in Phrase /\ Readable(e)
      BY DEF Parsed
<1>3. ASSUME Rule(e) = "capture"
      PROVE  Len(kids) = 1 /\ kids[1] \in Nested[n - 3].shapes /\ name \in Words
  <2>1. Steps(e) = If(Len(Items(e)) = 3 /\ IsSymbol(Items(e)[2]), <<Items(e)[3]>>)
        BY <1>3, StepsArms
  <2>5. Len(Items(e)) = 3 /\ Steps(e) = <<Items(e)[3]>>
        BY <1>2, <2>1, FormatRight
  <2>2. Len(Items(e)) = 3 /\ Len(kids) = 1 /\ kids[1] \in Nested[n - 3].shapes
        BY <2>5, OneStep
  <2>3. 2 \in Nat /\ 1 <= 2 /\ 2 <= Arity(e)
        BY <2>2 DEF Arity
  <2>4. Items(e)[2] \in Phrase
        BY <1>2, <2>3, PartAt
  <2> QED BY <1>3, <2>2, <2>4, SpeltTyped
<1>4. ASSUME Rule(e) = "repeat"
      PROVE  Len(kids) = 1 /\ kids[1] \in Nested[n - 3].shapes
  <2>1. Steps(e) = If(Len(Items(e)) = 2, <<Items(e)[2]>>)
        BY <1>4, StepsArms
  <2>2. Steps(e) = <<Items(e)[2]>>
        BY <1>2, <2>1, FormatRight
  <2> QED BY <2>2, OneStep
<1>5. ASSUME Rule(e) = "bounds"
      PROVE  /\ Len(kids) = 1 /\ kids[1] \in Nested[n - 3].shapes
             /\ min \in Nat /\ max \in Nat \cup {None}
  <2>1. Steps(e) = If(Len(Items(e)) = 4 /\ BoundsOK(Items(e)[3], Items(e)[4]), <<Items(e)[2]>>)
        BY <1>5, StepsArms
  <2>5. Len(Items(e)) = 4 /\ BoundsOK(Items(e)[3], Items(e)[4]) /\ Steps(e) = <<Items(e)[2]>>
        BY <1>2, <2>1, FormatRight
  <2>2. /\ Len(Items(e)) = 4 /\ BoundsOK(Items(e)[3], Items(e)[4])
        /\ Len(kids) = 1 /\ kids[1] \in Nested[n - 3].shapes
        BY <2>5, OneStep
  <2>3. 3 \in Nat /\ 1 <= 3 /\ 3 <= Arity(e) /\ 4 \in Nat /\ 1 <= 4 /\ 4 <= Arity(e)
        BY <2>2 DEF Arity
  <2>4. Items(e)[3] \in Phrase /\ Items(e)[4] \in Phrase
        BY <1>2, <2>3, PartAt
  <2> QED BY <1>5, <2>2, <2>4, CountTyped
<1>6. /\ kind \in {"capture", "repeat"} /\ kids[1] \in Nested[n - 3].shapes
      /\ name \in Words \cup {None} \cup Nested[n - 1].data
      /\ min \in Nat /\ max \in Nat \cup {None}
  <2>1. kids[1] \in Nested[n - 3].shapes
        BY <1>3, <1>4, <1>5
  <2>2. min \in Nat /\ max \in Nat \cup {None}
        BY <1>5
  <2>3. name \in Words \cup {None} \cup Nested[n - 1].data
        BY <1>3
  <2> QED BY <2>1, <2>2, <2>3
<1>7. one \in Seq(Nested[n - 1].shapes) /\ DOMAIN one = {1} /\ one[1] = kids[1] /\ Len(one) = 1
      BY <1>1, <1>6, OneOf
<1>8. /\ kind = "capture" => t = CaptureTree(name, kids[1]) /\ min = 0 /\ max = None
      /\ kind = "repeat" => t = RepeatTree(kids[1], min, max) /\ name = None
  <2>1. Rule(e) = "capture" => t = CaptureTree(Spelt(Items(e)[2]), kids[1])
        BY BuiltArms
  <2>2. Rule(e) = "repeat" => t = RepeatTree(kids[1], 0, None)
        BY BuiltArms
  <2>3. Rule(e) = "bounds" => t = RepeatTree(kids[1], CountOf(Items(e)[3]), CountOf(Items(e)[4]))
        BY BuiltArms
  <2> HIDE DEF t
  <2> QED BY <2>1, <2>2, <2>3
<1> HIDE DEF t, kind, name, min, max
<1>9. t = Plain(kind, one, name, <<>>, "", min, max)
      BY <1>6, <1>8, Trees
<1> HIDE DEF one
<1>10. t.kind = kind /\ t.kids = one /\ t.min = min /\ t.max = max
       BY <1>9 DEF Plain
<1>11. WellMade(t)
       BY <1>6, <1>7, <1>8, <1>10 DEF WellMade
<1>12. \A i \in DOMAIN one : one[i] \in Nested[n - Sunk(kind, i)].shapes
  <2>1. \A i : Sunk(kind, i) = 1
        BY <1>6 DEF Sunk
  <2> QED BY <1>1, <1>6, <1>7, <2>1
<1>13. /\ kind \in Kinds /\ kind # "table" /\ kind # "exact"
       /\ <<>> \in Seq(Nested[n - 1].shapes) /\ "" \in Spelling
       BY <1>6, KindsKnown, BlankFields
<1>14. t \in Nested[n].shapes
       BY <1>1, <1>6, <1>7, <1>9, <1>11, <1>12, <1>13, TreeTyped
<1> QED BY <1>14 DEF t

(* A reference, and a list with a tail.                                    *)
LEMMA BuiltRef ==
  ASSUME NEW n, NEW e, NEW kids, Parsed(n, e, kids), Rule(e) = "ref"
  PROVE  Built(e, kids) \in Nested[n].shapes
<1>1. n \in Int /\ n > 2 /\ e \in Phrase /\ Readable(e)
      BY DEF Parsed
<1>2. Steps(e) = If(Len(Items(e)) = 2 /\ IsSymbol(Items(e)[2]), <<>>)
      BY StepsArms
<1>3. Len(Items(e)) = 2
      BY <1>1, <1>2, FormatRight
<1>4. Items(e)[2] \in Phrase
      BY <1>1, <1>3, PartAt DEF Arity
<1>5. Spelt(Items(e)[2]) \in Words
      BY <1>4, SpeltTyped
<1>6. Built(e, kids) = NameTree("ref", Spelt(Items(e)[2]))
      BY BuiltArms
<1> QED BY <1>1, <1>5, <1>6, AtomShape

LEMMA BuiltRest ==
  ASSUME NEW n, NEW e, NEW kids, Parsed(n, e, kids), Rule(e) = "rest"
  PROVE  Built(e, kids) \in Nested[n].shapes
<1> DEFINE t == Built(e, kids)
           last == Len(kids)
           among == SubSeq(kids, 1, last - 1)
           one == <<kids[last]>>
           first == Items(Items(e)[2])
<1>1. /\ n \in Int /\ n > 1 /\ n - 1 \in Int /\ n - 2 \in Int /\ kids \in Seq(Nested[n - 1].shapes)
      /\ kids \in Seq(Nested[n - 2].shapes) /\ Len(kids) = Len(Steps(e))
      /\ DOMAIN kids = 1..last /\ last \in Nat
      BY ParsedTyped
<1>2. e \in Phrase /\ Readable(e)
      BY DEF Parsed
<1>3. Len(Items(e)) = 3 /\ Steps(e) = Append(first, Items(e)[3])
  <2>1. Steps(e) = If(Len(Items(e)) = 3 /\ IsList(Items(e)[2]), Append(first, Items(e)[3]))
        BY StepsArms
  <2> QED BY <1>2, <2>1, FormatRight
<1>4. Items(e)[2] \in Phrase /\ Items(e)[3] \in Phrase
      BY <1>2, <1>3, PartAt DEF Arity
<1>5. first \in Seq(Phrase)
      BY <1>4, ItemsTyped
<1> HIDE DEF first
<1>6. Len(Steps(e)) = Len(first) + 1 /\ Len(first) \in Nat
      BY <1>3, <1>4, <1>5
<1>7. last > 0 /\ last - 1 \in 0..last /\ last \in 1..last
      BY <1>1, <1>6
<1>8. /\ among \in Seq(Nested[n - 1].shapes) /\ DOMAIN among = 1..(last - 1)
      /\ \A i \in 1..(last - 1) : among[i] = kids[i]
  <2> DEFINE T == Nested[n - 1].shapes
             k == last - 1
  <2>1. kids \in Seq(T) /\ k \in 0..Len(kids)
        BY <1>1, <1>7
  <2> HIDE DEF T, k
  <2>2. /\ SubSeq(kids, 1, k) \in Seq(T) /\ DOMAIN SubSeq(kids, 1, k) = 1..k
        /\ \A i \in 1..k : SubSeq(kids, 1, k)[i] = kids[i]
        BY <2>1, SplitAt
  <2> QED BY <2>2 DEF T, k
<1>9. kids[last] \in Nested[n - 1].shapes
      BY <1>1, <1>7, ElementOfSeq
<1>10. one \in Seq(Nested[n - 1].shapes) /\ Len(one) = 1
       BY <1>9, OneOf
<1>11. \A i \in DOMAIN among : among[i] \in Nested[n - Sunk("list", i)].shapes
  <2>1. \A i : Sunk("list", i) = 2
        BY DEF Sunk
  <2>2. \A i \in 1..(last - 1) : i \in 1..last
        BY <1>1
  <2>3. \A i \in 1..last : kids[i] \in Nested[n - 2].shapes
        BY <1>1, ElementOfSeq
  <2> QED BY <1>8, <2>1, <2>2, <2>3
<1>12. t = ListTree(among, one)
       BY BuiltArms
<1> HIDE DEF t, among, one, last
<1>13. t = Plain("list", among, None, one, "", 0, None)
       BY <1>12, Trees
<1>14. t.kind = "list" /\ t.kids = among /\ t.rest = one
       BY <1>13 DEF Plain
<1>15. WellMade(t)
  <2>1. t = ListTree(t.kids, t.rest)
        BY <1>12, <1>14, Zenon
  <2>2. Len(t.rest) = 1
        BY <1>10, <1>14, Zenon
  <2> QED BY <1>14, <2>1, <2>2 DEF WellMade
<1>16. /\ "list" \in Kinds /\ "" \in Spelling /\ 0 \in Nat /\ None \in Nat \cup {None}
       /\ None \in Words \cup {None} \cup Nested[n - 1].data
       BY KindsKnown, BlankFields
<1>17. t \in Nested[n].shapes
       BY <1>1, <1>8, <1>10, <1>11, <1>13, <1>15, <1>16, TreeTyped
<1> QED BY <1>17 DEF t

(* Shapes with keys.                                                       *)
LEMMA ArgsTyped ==
  ASSUME NEW e \in Phrase, Rule(e) # "tuple"
  PROVE  Args(e) \in Seq(Phrase) /\ TableFields(e) \in Seq(Phrase)
<1>1. Items(e) \in Seq(Phrase) /\ Items(e) # <<>>
      BY ItemsTyped, RuleNamed
<1>2. Args(e) \in Seq(Phrase)
      BY <1>1 DEF Args
<1>3. ASSUME Arity(e) = 2 PROVE Items(Items(e)[2]) \in Seq(Phrase)
  <2>1. 2 \in Nat /\ 1 <= 2 /\ 2 <= Arity(e)
        BY <1>3
  <2>2. Items(e)[2] \in Phrase
        BY <2>1, PartAt
  <2> QED BY <2>2, ItemsTyped
<1>4. TableFields(e) = Args(e) \/ (Arity(e) = 2 /\ TableFields(e) = Items(Items(e)[2]))
      BY DEF TableFields
<1> QED BY <1>2, <1>3, <1>4

LEMMA KeyedShape ==
  ASSUME NEW n, NEW e, NEW kids, Parsed(n, e, kids), NEW kind \in {"defs", "table", "fields"},
         NEW keys \in Seq(Words), NEW need \in BOOLEAN, NEW arg \in Spelling,
         NEW needed, needed = [i \in DOMAIN kids |-> need],
         NEW t, t = Keyed(kind, kids, keys, needed, <<>>, arg, <<>>), WellMade(t)
  PROVE  t \in Nested[n].shapes
<1>1. /\ n \in Int /\ n > 1 /\ kids \in Seq(Nested[n - 1].shapes)
      /\ \A i \in DOMAIN kids : kids[i] \in Nested[n - Sunk(kind, i)].shapes
      BY ParsedTyped
<1>2. needed \in Seq(BOOLEAN)
  <2>1. DOMAIN needed = DOMAIN kids /\ needed = [i \in DOMAIN kids |-> needed[i]]
        /\ \A i \in DOMAIN kids : needed[i] \in BOOLEAN
        OBVIOUS
  <2> QED BY <1>1, <2>1, SeqOf
<1>3. /\ kind \in {"defs", "table", "hooked", "fields"}
      /\ <<>> \in Seq(Nested[n - 2].shapes) /\ <<>> \in Seq(Nested[n - 2].data \cup {Bad})
      BY BlankFields
<1> QED BY <1>1, <1>2, <1>3, KeyedTyped

LEMMA BuiltFields ==
  ASSUME NEW n, NEW e, NEW kids, Parsed(n, e, kids), Rule(e) = "fields"
  PROVE  Built(e, kids) \in Nested[n].shapes
<1> DEFINE t == Built(e, kids)
           keys == KeysOf(Args(e))
           needed == [i \in DOMAIN kids |-> TRUE]
<1>1. e \in Phrase /\ Readable(e) /\ Rule(e) # "tuple"
      BY DEF Parsed
<1>2. Args(e) \in Seq(Phrase)
      BY <1>1, ArgsTyped
<1>3. Steps(e) = Entries(Args(e))
      BY StepsArms
<1>4. \A i \in DOMAIN Args(e) : Entries(Args(e))[i] # None
  <2>1. DOMAIN Entries(Args(e)) = DOMAIN Args(e)
        BY DEF Entries
  <2> QED BY <1>1, <1>3, <2>1, FormatRight
<1>5. keys \in Seq(Words)
      BY <1>2, <1>4, PairsTyped
<1>6. t = KeyedTree("fields", keys, kids)
      BY BuiltArms
<1>7. t = Keyed("fields", kids, keys, needed, <<>>, "", <<>>)
      BY <1>6, KeyedTrees
<1>8. "" \in Spelling
      BY BlankFields
<1>9. needed = [i \in DOMAIN kids |-> TRUE] /\ TRUE \in BOOLEAN
          /\ "fields" \in {"defs", "table", "fields"}
      OBVIOUS
<1> HIDE DEF t, keys, needed
<1>10. t.kind = "fields"
       BY <1>7 DEF Keyed
<1>11. WellMade(t)
       BY <1>10 DEF WellMade
<1>12. t \in Nested[n].shapes
       BY <1>5, <1>7, <1>8, <1>9, <1>11, KeyedShape
<1> QED BY <1>12 DEF t

LEMMA BuiltDefs ==
  ASSUME NEW n, NEW e, NEW kids, Parsed(n, e, kids), Rule(e) = "defs"
  PROVE  Built(e, kids) \in Nested[n].shapes
<1> DEFINE t == Built(e, kids)
           es == Items(Items(e)[2])
           keys == WordsOf(es)
           needed == [i \in DOMAIN kids |-> FALSE]
           root == <<Items(e)[3]>>
           rows == If(IsList(Items(e)[2]), Entries(es))
<1>1. e \in Phrase /\ Readable(e) /\ Len(kids) = Len(Steps(e))
      BY DEF Parsed
<1>2. Len(Items(e)) = 3 /\ Steps(e) = root \o rows
  <2>1. Steps(e) = If(Len(Items(e)) = 3, root \o rows)
        BY StepsArms
  <2> DEFINE w == root \o rows
  <2> HIDE DEF root, rows
  <2>2. Steps(e) = If(Len(Items(e)) = 3, w)
        BY <2>1
  <2> HIDE DEF w
  <2>3. Len(Items(e)) = 3 /\ Steps(e) = w
    <3>1. \A condition, steps : Steps(e) = If(condition, steps) => condition /\ Steps(e) = steps
          BY <1>1, FormatRight
    <3> QED BY <2>2, <3>1, Zenon
  <2> QED BY <2>3 DEF w
<1>3. Items(e)[2] \in Phrase /\ Items(e)[3] \in Phrase
  <2>1. 2 \in Nat /\ 1 <= 2 /\ 2 <= Arity(e) /\ 3 \in Nat /\ 1 <= 3 /\ 3 <= Arity(e)
        BY <1>2 DEF Arity
  <2> QED BY <1>1, <2>1, PartAt
<1>4. es \in Seq(Phrase) /\ Len(es) \in Nat /\ DOMAIN es = 1..Len(es)
      BY <1>3, ItemsTyped
<1> DEFINE S == Phrase \cup {None}
<1>5. root \in Seq(S) /\ Len(root) = 1
      BY <1>3, OneOf
<1>6. Entries(es) \in Seq(S) /\ DOMAIN Entries(es) = DOMAIN es /\ Len(Entries(es)) = Len(es)
  <2> DEFINE s == Entries(es)
  <2>1. s = [i \in DOMAIN es |-> s[i]] /\ DOMAIN s = DOMAIN es
        BY DEF Entries
  <2>2. ASSUME NEW i \in DOMAIN es PROVE s[i] \in S
    <3>1. CASE ~IsPair(es[i])
          BY <3>1 DEF Entries
    <3>2. CASE IsPair(es[i])
      <4>1. es[i] \in Phrase /\ 2 \in Nat /\ 1 <= 2 /\ 2 <= Arity(es[i])
            BY <1>4, <3>2 DEF IsPair
      <4>2. Items(es[i])[2] \in Phrase
            BY <4>1, PartAt
      <4> QED BY <3>2, <4>2 DEF Entries
    <3> QED BY <3>1, <3>2
  <2> HIDE DEF s, es
  <2>3. s \in Seq(S)
        BY <1>4, <2>1, <2>2, SeqOf
  <2>4. s \in Seq(S) /\ DOMAIN s = DOMAIN es /\ Len(s) = Len(es)
        BY <1>4, <2>1, <2>3
  <2> QED BY <2>4 DEF s
<1>7. rows \in Seq(S) /\ (rows = Entries(es) \/ rows = <<None>>)
  <2>1. None \in S
        OBVIOUS
  <2>2. <<None>> \in Seq(S)
        BY <2>1, OneOf
  <2> QED BY <1>6, <2>2 DEF If
<1> HIDE DEF root, rows, es, S
<1>8. /\ Len(Steps(e)) = 1 + Len(rows) /\ Len(rows) \in Nat
      /\ \A i \in 1..Len(rows) : Steps(e)[i + 1] = rows[i] /\ i + 1 \in DOMAIN Steps(e)
  <2>4. /\ Len(root \o rows) = Len(root) + Len(rows) /\ root \o rows \in Seq(S)
        /\ \A i \in 1..Len(root) + Len(rows) :
             (root \o rows)[i] = IF i <= Len(root) THEN root[i] ELSE rows[i - Len(root)]
        BY <1>5, <1>7, ConcatProperties
  <2>5. Len(rows) \in Nat
        BY <1>7, LenProperties
  <2>1. /\ Len(root \o rows) = Len(root) + Len(rows) /\ Len(rows) \in Nat
        /\ root \o rows \in Seq(S)
        /\ \A i \in 1..Len(root) + Len(rows) :
             (root \o rows)[i] = IF i <= Len(root) THEN root[i] ELSE rows[i - Len(root)]
        BY <2>4, <2>5
  <2>2. DOMAIN Steps(e) = 1..(1 + Len(rows))
        BY <1>2, <1>5, <2>1
  <2>3. ASSUME NEW i \in 1..Len(rows) PROVE Steps(e)[i + 1] = rows[i] /\ i + 1 \in DOMAIN Steps(e)
    <3>1. i + 1 \in 1..1 + Len(rows) /\ ~(i + 1 <= 1) /\ (i + 1) - 1 = i
          BY <2>1
    <3> QED BY <1>2, <1>5, <2>1, <2>2, <3>1
  <2> QED BY <1>2, <1>5, <2>1, <2>3
<1>9. \A i \in 1..Len(rows) : rows[i] # None
      BY <1>1, <1>8, FormatRight
<1>10. rows = Entries(es)
  <2>1. rows # <<None>>
    <3>1. <<None>> \in Seq({None}) /\ Len(<<None>>) = 1 /\ <<None>>[1] = None
          BY OneOf
    <3>2. 1 \in 1..1
          OBVIOUS
    <3> QED BY <1>9, <3>1, <3>2
  <2> QED BY <1>7, <2>1
<1>11. \A i \in DOMAIN es : Entries(es)[i] # None
       BY <1>4, <1>6, <1>9, <1>10
<1>12. keys \in Seq(Words) /\ Len(keys) = Len(es)
       BY <1>4, <1>11, PairsTyped
<1>13. Len(kids) = Len(keys) + 1
       BY <1>1, <1>4, <1>6, <1>8, <1>10, <1>12
<1>14. t = KeyedTree("defs", keys, kids)
       BY BuiltArms DEF es
<1>15. t = Keyed("defs", kids, keys, needed, <<>>, "", <<>>)
       BY <1>14, KeyedTrees
<1>16. /\ "" \in Spelling /\ needed = [i \in DOMAIN kids |-> FALSE] /\ FALSE \in BOOLEAN
       /\ "defs" \in {"defs", "table", "fields"}
       BY BlankFields
<1> HIDE DEF t, keys, needed
<1>17. t.kind = "defs" /\ t.kids = kids /\ t.keys = keys
       BY <1>15 DEF Keyed
<1>18. WellMade(t)
       BY <1>13, <1>14, <1>17 DEF WellMade
<1>19. t \in Nested[n].shapes
       BY <1>12, <1>15, <1>16, <1>18, KeyedShape
<1> QED BY <1>19 DEF t

LEMMA BuiltTable ==
  ASSUME NEW n, NEW e, NEW kids, Parsed(n, e, kids), Rule(e) \in {"single", "open", "closed"}
  PROVE  Built(e, kids) \in Nested[n].shapes
<1> DEFINE t == Built(e, kids)
           keys == IF Rule(e) = "single" THEN <<Key(Items(e)[2])>> ELSE KeysOf(TableFields(e))
           arg == IF Rule(e) = "closed" THEN "reject" ELSE "allow"
           needed == [i \in DOMAIN kids |-> TRUE]
<1>1. e \in Phrase /\ Readable(e) /\ Rule(e) # "tuple" /\ Len(kids) = Len(Steps(e))
      BY DEF Parsed
<1>2. Len(kids) \in Nat /\ DOMAIN kids = 1..Len(kids) /\ kids \in Seq(Nested[n - 3].shapes)
      BY ParsedTyped
<1>3. keys \in Seq(Words) /\ Len(keys) = Len(kids)
  <2>1. CASE Rule(e) = "single"
    <3>1. Steps(e) = If(Len(Items(e)) = 3 /\ IsSymbol(Items(e)[2]), <<Items(e)[3]>>)
          BY <2>1, StepsArms
    <3>2. Len(Items(e)) = 3 /\ Steps(e) = <<Items(e)[3]>>
          BY <1>1, <3>1, FormatRight
    <3>3. Len(kids) = 1
          BY <3>2, OneStep
    <3>4. 2 \in Nat /\ 1 <= 2 /\ 2 <= Arity(e)
          BY <3>2 DEF Arity
    <3>5. Items(e)[2] \in Phrase
          BY <1>1, <3>4, PartAt
    <3>6. Key(Items(e)[2]) \in Words
          BY <3>5, SpeltTyped
    <3> QED BY <2>1, <3>3, <3>6, OneOf
  <2>2. CASE Rule(e) # "single"
    <3> DEFINE es == TableFields(e)
    <3>1. Steps(e) = Entries(es)
          BY <2>2, StepsArms
    <3>2. es \in Seq(Phrase)
          BY <1>1, ArgsTyped
    <3>3. DOMAIN Entries(es) = DOMAIN es
          BY DEF Entries
    <3> HIDE DEF es
    <3>4. \A i \in DOMAIN es : Entries(es)[i] # None
          BY <1>1, <3>1, <3>3, FormatRight
    <3>5. KeysOf(es) \in Seq(Words) /\ Len(KeysOf(es)) = Len(es) /\ Len(Entries(es)) = Len(es)
          BY <3>2, <3>4, PairsTyped
    <3> QED BY <1>1, <2>2, <3>1, <3>5 DEF es
  <2> QED BY <2>1, <2>2
<1>4. t = TableTree(keys, kids, arg)
  <2>1. Rule(e) = "single" => t = TableTree(<<Key(Items(e)[2])>>, kids, "allow")
        BY BuiltArms
  <2>2. Rule(e) = "open" => t = TableTree(KeysOf(TableFields(e)), kids, "allow")
        BY BuiltArms
  <2>3. Rule(e) = "closed" => t = TableTree(KeysOf(TableFields(e)), kids, "reject")
        BY BuiltArms
  <2> HIDE DEF t
  <2> QED BY <2>1, <2>2, <2>3
<1>5. arg \in {"allow", "reject"} /\ arg \in Spelling
      BY WordsSpelt
<1>6. t = Keyed("table", kids, keys, needed, <<>>, arg, <<>>)
      BY <1>4, KeyedTrees
<1>7. Len(needed) = Len(kids)
      BY <1>2
<1>8. needed = [i \in DOMAIN kids |-> TRUE] /\ TRUE \in BOOLEAN
          /\ "table" \in {"defs", "table", "fields"}
      OBVIOUS
<1> HIDE DEF t, keys, arg, needed
<1>9. t = TableWith(keys, kids, arg, needed, <<>>)
      BY <1>6, KeyedTrees
<1>10. /\ t.kind = "table" /\ t.kids = kids /\ t.keys = keys /\ t.arg = arg /\ t.needed = needed
       /\ t.rest = <<>>
       BY <1>6 DEF Keyed
<1>11. WellMade(t)
  <2>1. t = [TableTree(t.keys, t.kids, t.arg) EXCEPT !.needed = t.needed, !.rest = t.rest]
        BY <1>9, <1>10, Zenon DEF TableWith
  <2>2. Len(t.kids) = Len(t.keys) /\ Len(t.kids) = Len(t.needed)
        BY <1>3, <1>7, <1>10
  <2>3. IF t.rest = <<>> THEN t.arg \in {"allow", "reject"} ELSE Len(t.rest) = 1 /\ t.arg = "shape"
        BY <1>5, <1>10
  <2> QED BY <1>10, <2>1, <2>2, <2>3 DEF WellMade
<1>12. t \in Nested[n].shapes
       BY <1>3, <1>5, <1>6, <1>8, <1>11, KeyedShape
<1> QED BY <1>12 DEF t

(* The first of two shapes without the second.                             *)
LEMMA BuiltWithout ==
  ASSUME NEW n, NEW e, NEW kids, Parsed(n, e, kids), Rule(e) = "without"
  PROVE  Built(e, kids) \in Nested[n].shapes
<1> DEFINE t == Built(e, kids)
           fewer == <<kids[2]>>
           inner == Tree("not", fewer)
           both == <<kids[1], inner>>
<1>1. /\ n \in Int /\ n > 1 /\ n - 1 \in Int /\ n - 2 \in Int
      /\ kids \in Seq(Nested[n - 3].shapes) /\ Len(kids) = Len(Steps(e))
             /\ DOMAIN kids = 1..Len(kids)
      /\ Nested[n - 3].shapes \subseteq Nested[n - 2].shapes
      BY ParsedTyped
<1>2. e \in Phrase /\ Readable(e)
      BY DEF Parsed
<1>3. Len(kids) = 2
  <2>1. Steps(e) = If(Len(Items(e)) = 3, <<Items(e)[2], Items(e)[3]>>)
        BY StepsArms
  <2>2. Steps(e) = <<Items(e)[2], Items(e)[3]>>
        BY <1>2, <2>1, FormatRight
  <2> QED BY <1>1, <2>2
<1>4. kids[1] \in Nested[n - 3].shapes /\ kids[2] \in Nested[n - 3].shapes
  <2>1. 1 \in 1..2 /\ 2 \in 1..2
        OBVIOUS
  <2> QED BY <1>1, <1>3, <2>1, ElementOfSeq
<1>5. n - 3 > 1 /\ n - 3 \in Int /\ n - 2 > 1 /\ (n - 2) - 1 = n - 3
  <2>1. n - 3 \in Int
        BY <1>1
  <2>2. n - 3 > 1
        BY <1>4, <2>1, ShapesHaveLevels
  <2> QED BY <1>1, <2>1, <2>2
<1>6. /\ None \in Nat \cup {None} /\ "" \in Spelling /\ 0 \in Nat
      /\ \A m \in Int : /\ None \in Words \cup {None} \cup Nested[m - 1].data
                        /\ <<>> \in Seq(Nested[m - 1].shapes)
      BY BlankFields
<1>7. fewer \in Seq(Nested[(n - 2) - 1].shapes) /\ DOMAIN fewer = {1} /\ fewer[1] = kids[2]
          /\ Len(fewer) = 1
      BY <1>4, <1>5, OneOf
<1> HIDE DEF t, fewer
<1>8. inner = Plain("not", fewer, None, <<>>, "", 0, None)
      BY Trees
<1>9. inner \in Nested[n - 2].shapes
  <2>5. ASSUME NEW u, u = Plain("not", fewer, None, <<>>, "", 0, None)
        PROVE  u.kind = "not" /\ u.kids = fewer
        BY <2>5 DEF Plain
  <2>1. ASSUME NEW u, u = Tree("not", fewer), u = Plain("not", fewer, None, <<>>, "", 0, None)
        PROVE  WellMade(u)
    <3>1. u.kind = "not" /\ u.kids = fewer
          BY <2>1, <2>5
    <3> QED BY <1>7, <2>1, <3>1 DEF WellMade
  <2>2. WellMade(inner)
        BY <1>8, <2>1
  <2>3. \A i \in DOMAIN fewer : fewer[i] \in Nested[(n - 2) - Sunk("not", i)].shapes
    <3>1. \A i : Sunk("not", i) = 1
          BY DEF Sunk
    <3> QED BY <1>4, <1>5, <1>7, <3>1
  <2>4. "not" \in Kinds /\ "not" # "table" /\ "not" # "exact"
        BY KindsKnown
  <2> HIDE DEF inner
  <2> QED BY <1>1, <1>5, <1>6, <1>7, <1>8, <2>2, <2>3, <2>4, TreeTyped
<1> HIDE DEF inner
<1>10. kids[1] \in Nested[n - 2].shapes /\ Nested[n - 2].shapes \subseteq Nested[n - 1].shapes
  <2>1. n - 2 <= n - 1
        BY <1>1
  <2> QED BY <1>1, <1>4, <2>1, Deeper
<1>11. /\ both \in Seq(Nested[n - 1].shapes) /\ DOMAIN both = {1, 2}
       /\ both[1] = kids[1] /\ both[2] = inner
  <2> DEFINE T == Nested[n - 1].shapes
  <2>1. kids[1] \in T /\ inner \in T
        BY <1>4, <1>9, <1>10
  <2> HIDE DEF T
  <2>2. /\ both \in Seq(T) /\ DOMAIN both = {1, 2}
        /\ both[1] = kids[1] /\ both[2] = inner
        BY <2>1, TwoOf
  <2> QED BY <2>2 DEF T
<1>12. t = Tree("and", <<kids[1], Tree("not", <<kids[2]>>)>>)
  <2>1. BuiltBy("without", Items(e), e, kids) = Tree("and", <<kids[1], Tree("not", <<kids[2]>>)>>)
        BY Zenon DEF BuiltBy
  <2>2. Built(e, kids) = BuiltBy("without", Items(e), e, kids)
        BY DEF Built
  <2> QED BY <2>1, <2>2, Zenon DEF t
<1>13. t = Tree("and", both)
       BY <1>12 DEF inner, fewer
<1> HIDE DEF both
<1>14. t = Plain("and", both, None, <<>>, "", 0, None)
       BY <1>13, Trees
<1>15. t.kind = "and" /\ t.kids = both
       BY <1>14 DEF Plain
<1>16. WellMade(t)
       BY <1>13, <1>15 DEF WellMade
<1>17. \A i \in DOMAIN both : both[i] \in Nested[n - Sunk("and", i)].shapes
  <2>1. \A i : Sunk("and", i) = 2
        BY DEF Sunk
  <2> QED BY <1>9, <1>10, <1>11, <2>1
<1>18. "and" \in Kinds /\ "and" # "table" /\ "and" # "exact"
       BY KindsKnown
<1>19. t \in Nested[n].shapes
       BY <1>1, <1>6, <1>11, <1>14, <1>16, <1>17, <1>18, TreeTyped
<1> QED BY <1>19 DEF t

LEMMA BuiltTyped ==
  ASSUME NEW n, NEW e, NEW kids, Parsed(n, e, kids)
  PROVE  Built(e, kids) \in Nested[n].shapes
<1>1. Rule(e) \in {"tuple", "list", "and", "or", "not", "capture", "repeat", "bounds", "ref",
                   "rest",
                   "fields", "defs", "single", "open", "closed", "without"}
      BY RuleNamed DEF RuleNames, Reads
<1> QED BY <1>1, BuiltGroup, BuiltOne, BuiltRef, BuiltRest, BuiltFields, BuiltDefs, BuiltTable,
           BuiltWithout

(* Every expression that parses means a shape there is: three levels of    *)
(* what is written for each level of the expression are enough, the text   *)
(* of a table's field being a list of lists of its own.                    *)
LEMMA MeansShape ==
  \A left \in Nat : \A e \in Phrase :
    WellFormed[e] /\ Fits[left][e] => Meant[e] \in Nested[3 * left].shapes
<1> DEFINE Lost == {left \in Nat : ~\A e \in Phrase :
                      WellFormed[e] /\ Fits[left][e] => Meant[e] \in Nested[3 * left].shapes}
<1>1. SUFFICES ASSUME Lost # {} PROVE FALSE
      OBVIOUS
<1>2. Lost \in SUBSET Nat
      OBVIOUS
<1>3. PICK left \in Lost : \A m \in Lost : left <= m
  <2> HIDE DEF Lost
  <2> QED BY <1>1, <1>2, LeastNumber
<1>4. /\ left \in Nat
      /\ \A m \in Nat : m < left => \A e \in Phrase :
           WellFormed[e] /\ Fits[m][e] => Meant[e] \in Nested[3 * m].shapes
      BY <1>3
<1>5. PICK e \in Phrase : WellFormed[e] /\ Fits[left][e] /\ Meant[e] \notin Nested[3 * left].shapes
      BY <1>3
<1> HIDE DEF Lost
<1>6. left > 0 /\ (IsList(e) => \A part \in Parts(e) \ {None} : Fits[left - 1][part])
      BY <1>4, <1>5, FitsEquation
<1>7. /\ 3 * left \in Int /\ 3 * left > 2 /\ left - 1 \in Nat /\ left - 1 < left
      /\ 3 * (left - 1) = 3 * left - 3
      BY <1>4, <1>6
<1>8. IsSymbol(e) \/ (Readable(e) /\ \A part \in Parts(e) : WellFormed[part])
      BY <1>5, WellFormedEquation
<1>9. CASE IsSymbol(e)
  <2>1. Meant[e] = Atom(e)
        BY <1>9, MeantEquation
  <2> QED BY <1>5, <1>7, <2>1, AtomShape
<1>10. CASE Readable(e) /\ \A part \in Parts(e) : WellFormed[part]
  <2> DEFINE kids == [i \in DOMAIN Steps(e) |-> Meant[Steps(e)[i]]]
  <2>1. /\ DOMAIN Steps(e) = 1..Len(Steps(e)) /\ Len(Steps(e)) \in Nat
        /\ Steps(e) \in Seq(Phrase \cup {None})
        BY StepsRead
  <2>2. ASSUME NEW i \in DOMAIN Steps(e) PROVE kids[i] \in Nested[3 * left - 3].shapes
    <3>1. Steps(e)[i] \in Parts(e) /\ Steps(e)[i] # None
          BY <1>10, PartsTyped DEF Readable
    <3>2. Steps(e)[i] \in Phrase
          BY <3>1, PartsTyped
    <3>3. WellFormed[Steps(e)[i]] /\ Fits[left - 1][Steps(e)[i]]
          BY <1>6, <1>10, <3>1 DEF Readable
    <3>4. Meant[Steps(e)[i]] \in Nested[3 * (left - 1)].shapes
          BY <1>4, <1>7, <3>2, <3>3
    <3> QED BY <1>7, <3>4
  <2>3. DOMAIN kids = DOMAIN Steps(e) /\ kids = [i \in DOMAIN Steps(e) |-> kids[i]]
        OBVIOUS
  <2>4. Meant[e] = Built(e, kids)
        BY <1>10, MeantEquation
  <2> HIDE DEF kids
  <2>5. kids \in Seq(Nested[3 * left - 3].shapes)
        BY <2>1, <2>2, <2>3, SeqOf
  <2>6. Len(kids) = Len(Steps(e))
        BY <2>1, <2>3, <2>5, LenProperties
  <2>7. Parsed(3 * left, e, kids)
        BY <1>7, <1>10, <2>5, <2>6 DEF Parsed
  <2> QED BY <1>5, <2>4, <2>7, BuiltTyped
<1> QED BY <1>8, <1>9, <1>10

-----------------------------------------------------------------------------
(* The two notations together.                                             *)

(* What a parse gives has no more levels than a datum may have.            *)
LEMMA ReadShape ==
  ASSUME Reading, Read, ret.st = "ok"
  PROVE  ret.shape \in Shapes
<1>1. Says(ret, asked, MaxDepth - base) /\ asked \in Phrase
      BY DEF Read, Reading, Answered, CallsOpen
<1>2. MaxDepth - base \in Nat /\ 3 * (MaxDepth - base) \in Int /\ 3 * (MaxDepth - base) <= Nesting
  <2>1. base \in Nat /\ base <= MaxDepth /\ MaxDepth \in Nat
        BY ParseAssumption DEF Reading, Levels
  <2>2. 3 * MaxDepth <= Nesting /\ Nesting \in Nat
        BY NotationAssumption, NestingCounts
  <2> QED BY <2>1, <2>2
<1>3. ret.shape = Meant[asked] /\ WellFormed[asked] /\ Fits[MaxDepth - base][asked]
      BY <1>1 DEF Says
<1>4. ret.shape \in Nested[3 * (MaxDepth - base)].shapes
      BY <1>1, <1>2, <1>3, MeansShape
<1> QED BY <1>2, <1>4, ShapeIsShape

(* What is written of a shape is an expression, and not the empty one.     *)
LEMMA WrittenText ==
  ASSUME NEW t \in Shapes
  PROVE  Encode[t] \in Texts \cup {Bad} /\ Encode[t] # Nil
<1>1. Encode[t] \in Data \cup {Bad}
      BY EncodeTyped, NestingCounts DEF Shapes, Data
<1>2. Encode[t] = Bad \/ Encode[t].form = "call"
      BY EncodeForm
<1>3. Nil.form = "nil" /\ Nil # Bad
      BY GroupFields
<1> QED BY <1>1, <1>2, <1>3 DEF Texts

(* A text that was written is the encoding of a shape there is, and what   *)
(* was read is what the text at hand says.                                 *)
Kept ==
  /\ Reading
  /\ text \in Texts \cup {Nil, Bad}
  /\ origin # Refused => origin \in Shapes /\ text = Encode[origin]
  /\ back.read => text \notin {Nil, Bad} /\ back.shape = Decode[text]

LEMMA KeptStarts ==
  ASSUME Init
  PROVE  Kept
<1>1. Reading
      BY ReadingStarts DEF Init
<1> QED BY <1>1 DEF Init, Kept, Unchecked

LEMMA ParseKeeps ==
  ASSUME Kept, Parse
  PROVE  Kept'
<1>1. Reading'
  <2>1. Reading /\ ((\E e \in Phrase : Ask(e)) \/ ParseStep)
        BY DEF Kept, Parse
  <2> QED BY <2>1, ReadingKept DEF ParseNext
<1> QED BY <1>1 DEF Kept, Parse

LEMMA StoreKeeps ==
  ASSUME Kept, Store
  PROVE  Kept'
<1>1. Reading'
  <2>1. Reading /\ UNCHANGED parsing
        BY DEF Kept, Store
  <2> QED BY <2>1, ReadingKept
<1>2. ret.shape \in Shapes
      BY ReadShape DEF Kept, Store
<1>3. Encode[ret.shape] \in Texts \cup {Bad}
      BY <1>2, WrittenText
<1>4. ~back.read
      BY DEF Kept, Store
<1> QED BY <1>1, <1>2, <1>3, <1>4 DEF Kept, Store

LEMMA ReceiveKeeps ==
  ASSUME Kept, NEW d \in Letters \cap Texts, Receive(d)
  PROVE  Kept'
<1>1. Reading'
  <2>1. Reading /\ UNCHANGED parsing
        BY DEF Kept, Receive
  <2> QED BY <2>1, ReadingKept
<1>2. origin = Refused
  <2>1. origin # Refused => origin \in Shapes /\ Encode[origin] = Nil
        BY DEF Kept, Receive
  <2> QED BY <2>1, WrittenText
<1>3. ~back.read
      BY DEF Kept, Receive
<1> QED BY <1>1, <1>2, <1>3 DEF Kept, Receive

LEMMA EditKeeps ==
  ASSUME Kept, NEW d \in Edits(text) \cap Texts, Edit(d)
  PROVE  Kept'
<1>1. Reading'
  <2>1. Reading /\ UNCHANGED parsing
        BY DEF Kept, Edit
  <2> QED BY <2>1, ReadingKept
<1> QED BY <1>1 DEF Kept, Edit

LEMMA RestoreKeeps ==
  ASSUME Kept, Restore
  PROVE  Kept'
<1>1. Reading'
  <2>1. Reading /\ UNCHANGED parsing
        BY DEF Kept, Restore
  <2> QED BY <2>1, ReadingKept
<1> QED BY <1>1 DEF Kept, Restore, ReadAs

LEMMA AgainKeeps ==
  ASSUME Kept, Again
  PROVE  Kept'
<1>1. Reading'
  <2>1. Reading /\ (UNCHANGED parsing \/ Forget)
        BY DEF Kept, Again
  <2> QED BY <2>1, ReadingKept DEF ParseNext
<1> QED BY <1>1 DEF Kept, Again, Unchecked

LEMMA KeptHolds == Spec => []Kept
<1>1. ASSUME Kept, [Next]_vars PROVE Kept'
  <2>1. CASE Parse
        BY <1>1, <2>1, ParseKeeps
  <2>2. CASE Store
        BY <1>1, <2>2, StoreKeeps
  <2>3. CASE Restore
        BY <1>1, <2>3, RestoreKeeps
  <2>4. CASE Again
        BY <1>1, <2>4, AgainKeeps
  <2>5. CASE \E d \in Letters \cap Texts : Receive(d)
        BY <1>1, <2>5, ReceiveKeeps
  <2>6. CASE origin # Refused /\ text # Bad /\ \E d \in Edits(text) \cap Texts : Edit(d)
        BY <1>1, <2>6, EditKeeps
  <2>7. CASE UNCHANGED vars
    <3>1. Reading /\ UNCHANGED parsing
          BY <1>1, <2>7 DEF vars, Kept
    <3>2. Reading'
          BY <3>1, ReadingKept
    <3> QED BY <1>1, <2>7, <3>2 DEF vars, Kept
  <2> QED BY <1>1, <2>1, <2>2, <2>3, <2>4, <2>5, <2>6, <2>7 DEF Next
<1> QED BY <1>1, KeptStarts, PTL DEF Spec

-----------------------------------------------------------------------------
(* Storing, editing and restoring shapes leaves the parser alone: with     *)
(* them it is still parse_shape_expr, and what is proved of it holds.      *)
THEOREM NotationParses == Spec => ParseSpec
<1>1. Init => ParseInit
      BY DEF Init
<1>2. ASSUME [Next]_vars PROVE [ParseNext]_parsing
  <2>1. CASE Parse
        BY <2>1 DEF Parse, ParseNext
  <2>2. CASE Again
        BY <2>2 DEF Again, ParseNext
  <2>3. CASE Store \/ Restore \/ (\E d : Receive(d)) \/ (\E d : Edit(d)) \/ UNCHANGED vars
        BY <2>3 DEF Store, Restore, Receive, Edit, vars
  <2> QED BY <1>2, <2>1, <2>2, <2>3 DEF Next
<1> QED BY <1>1, <1>2, PTL DEF Spec, ParseSpec

(* encode_shape_expr refuses a parsed shape exactly when a capture, a      *)
(* field shape or core/Number is somewhere in it, and loses nothing of any *)
(* other: decode_shape_value reads what it writes as that very shape.  For *)
(* every grammar expression, every budget and every depth of the shape.    *)
THEOREM StoredShapesComeBack == Spec => []StoredComesBack
<1>1. Kept => StoredComesBack
  <2> SUFFICES ASSUME Kept, origin # Refused
               PROVE  (text # Bad <=> Storable[origin]) /\ (back.read => back.shape = origin)
      BY DEF StoredComesBack
  <2>1. origin \in Shapes /\ text = Encode[origin]
        BY DEF Kept
  <2>2. text # Bad <=> Storable[origin]
        BY <2>1, WrittenIfStorable
  <2>3. back.read => text # Bad /\ back.shape = Decode[text]
        BY DEF Kept
  <2>4. text # Bad => Decode[text] = origin
        BY <2>1, ComesBack
  <2> QED BY <2>2, <2>3, <2>4
<1> QED BY <1>1, KeptHolds, PTL

(* Whatever a text held, edited, written by hand with lists for calls or   *)
(* handed live shapes in the place of fields: a shape that                 *)
(* decode_shape_value returned can be written down, and what is written    *)
(* reads as the same shape again.  For every text there is, not only those *)
(* a grammar expression leads to.                                          *)
THEOREM ReadShapesAreStorable == Spec => []ValuesAreStorable
<1>1. Kept => ValuesAreStorable
  <2> SUFFICES ASSUME Kept, back.read, back.shape # Refused
               PROVE  Encode[back.shape] # Bad /\ Decode[Encode[back.shape]] = back.shape
      BY DEF ValuesAreStorable
  <2>1. text \in Texts /\ back.shape = Decode[text]
        BY DEF Kept
  <2>2. text \in Data /\ text.form # "shape"
        BY <2>1 DEF Texts
  <2> QED BY <2>1, <2>2, ValuesComeBack
<1> QED BY <1>1, KeptHolds, PTL
=============================================================================
