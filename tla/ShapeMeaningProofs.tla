------------------------- MODULE ShapeMeaningProofs -------------------------
(***************************************************************************)
(* What holds of a check's meaning for every graph of shapes: a question   *)
(* is made of cheaper questions, so that the recursive definition has a    *)
(* solution, and every question is accepted, rejected or failed.           *)
(***************************************************************************)
EXTENDS ShapeMeaning, SequenceTheorems, WellFoundedInduction, TLAPS

-----------------------------------------------------------------------------
(* Sets of numbers.                                                        *)

(* A non-empty set of numbers has a first one.                             *)
LEMMA FirstPlace ==
  ASSUME NEW T, T \subseteq Nat, T # {}
  PROVE  \E j \in T : \A k \in T : j <= k
<1>1. PICK j \in T : \A k \in T : ~(<<k, j>> \in OpToRel(<, Nat))
  BY NatLessThanWellFounded, WFMin
<1>2. ASSUME NEW k \in T
      PROVE  j <= k
  <2>1. k \in Nat /\ j \in Nat
    OBVIOUS
  <2>2. ~(k < j)
    BY <1>1, <2>1 DEF OpToRel
  <2>3. QED
    BY <2>1, <2>2
<1>3. QED
  BY <1>2

(* A non-empty set of places of a sequence has a last one.                 *)
LEMMA LastPlace ==
  ASSUME NEW n \in Nat, NEW T, T \subseteq 1..n, T # {}
  PROVE  \E j \in T : \A k \in T : k <= j
<1> DEFINE U == {n - j : j \in T}
<1>1. U \subseteq Nat /\ U # {}
  <2>1. \A j \in T : n - j \in Nat
    OBVIOUS
  <2>2. QED
    BY <2>1
<1>2. PICK u \in U : \A v \in U : ~(<<v, u>> \in OpToRel(<, Nat))
  <2> HIDE DEF U
  <2>1. QED
    BY <1>1, NatLessThanWellFounded, WFMin
<1>3. \A v \in U : ~(v < u)
  <2>1. \A v \in U : v \in Nat /\ u \in Nat
    BY <1>1
  <2> HIDE DEF U
  <2>2. QED
    BY <1>2, <2>1 DEF OpToRel
<1>4. PICK j \in T : u = n - j
  OBVIOUS
<1>5. \A k \in T : k <= j
  BY <1>3, <1>4
<1>6. QED
  BY <1>5

(* The first of a set of numbers, and the last of a set of places.         *)
LEMMA MinIs ==
  ASSUME NEW S \in SUBSET Nat, S # {}
  PROVE  Min(S) \in S /\ \A j \in S : Min(S) <= j
BY FirstPlace DEF Min

LEMMA MinUnique ==
  ASSUME NEW S \in SUBSET Nat, NEW m \in S, \A j \in S : m <= j
  PROVE  Min(S) = m
<1>1. Min(S) \in S /\ \A j \in S : Min(S) <= j
      BY MinIs
<1>2. Min(S) \in Nat /\ m \in Nat /\ Min(S) <= m /\ m <= Min(S)
      BY <1>1
<1> QED BY <1>2

LEMMA MaxIs ==
  ASSUME NEW n \in Nat, NEW S \in SUBSET (1..n), S # {}
  PROVE  Max(S) \in S /\ \A j \in S : j <= Max(S)
<1>1. \E j \in S : \A k \in S : j >= k
  <2>1. PICK j \in S : \A k \in S : k <= j
        BY LastPlace
  <2>2. \A k \in S : k \in Nat /\ j \in Nat
        OBVIOUS
  <2> QED BY <2>1, <2>2
<1>2. Max(S) \in S /\ \A k \in S : Max(S) >= k
      BY <1>1 DEF Max
<1>3. \A k \in S : k \in 1..n
      OBVIOUS
<1>4. \A k \in 1..n : k \in Nat
      OBVIOUS
<1>5. \A k \in S : k \in Nat /\ Max(S) \in Nat
      BY <1>2, <1>3, <1>4
<1> QED BY <1>2, <1>5

-----------------------------------------------------------------------------
(* What the graph holds, and what a loop over it asks.                     *)

Open(t) == Kind(t) \in LoopKinds => ~Refuses(t) /\ ~EntryFails(t)

(* A record of the graph, as the assumption on it says.                    *)
LEMMA GraphTyped ==
  ASSUME NEW t \in Task
  PROVE  /\ t.shape \in Shape /\ Node[t.shape] \in NodeType /\ NodeOK(Node[t.shape])
         /\ t.expr \in Expr /\ Term[t.expr] \in TermType /\ TermOK(Term[t.expr])
         /\ t.path \in Paths
BY GraphAssumption DEF GraphAssumption, GraphOK, Task

(* The fields a task is read through.                                      *)
LEMMA PartsTyped ==
  ASSUME NEW t \in Task
  PROVE  /\ Kids(t) \in Seq(Shape) /\ Len(Kids(t)) \in Nat
         /\ \A j \in 1..Len(Kids(t)) : Kids(t)[j] \in Shape
         /\ Items(t) \in Seq(Expr) /\ Len(Items(t)) \in Nat
         /\ \A j \in 1..Len(Items(t)) : Items(t)[j] \in Expr
         /\ Keys(t) \in Seq(Symbol \cup {None}) /\ Len(Keys(t)) \in Nat
         /\ DOMAIN Keys(t) = 1..Len(Keys(t))
         /\ Node[t.shape].rest \in Shape \cup {None}
         /\ Term[t.expr].parsed \in Expr \cup {None, "broken"}
<1> USE GraphAssumption
<1>1. /\ Kids(t) \in Seq(Shape) /\ Items(t) \in Seq(Expr)
      /\ Keys(t) \in Seq(Symbol \cup {None})
      /\ Node[t.shape].rest \in Shape \cup {None}
      /\ Term[t.expr].parsed \in Expr \cup {None, "broken"}
  BY GraphTyped DEF NodeType, TermType, Kids, Items, Keys
<1>2. QED
  BY <1>1, LenProperties, ElementOfSeq

(* Building a task from its parts.                                         *)
LEMMA JobTyped ==
  ASSUME NEW s \in Shape, NEW e \in Expr, NEW p \in Paths
  PROVE  Job(s, e, p) \in Task
BY DEF Job, Task

(* The entry a key leads to is an item of the term.                        *)
LEMMA EntryTyped ==
  ASSUME NEW t \in Task, Form(t) \in {"map", "object"}
  PROVE  /\ Len(Keys(t)) = Len(Items(t))
         /\ \A key : EntryOf(t, key) # 0 => Items(t)[EntryOf(t, key)] \in Expr
<1> USE GraphAssumption
<1>1. Len(Keys(t)) = Len(Items(t))
  BY GraphTyped DEF TermOK, Keys, Items, Form
<1>2. ASSUME NEW key, EntryOf(t, key) # 0
      PROVE  EntryOf(t, key) \in DOMAIN Keys(t)
  BY <1>2 DEF EntryOf
<1>3. QED
  BY <1>1, <1>2, PartsTyped

(* The length and the children of a loop, kind by kind.                    *)
LEMMA LoopCases ==
  ASSUME NEW t, NEW n
  PROVE  /\ Kind(t) = "list"   => LoopLen(t) = Len(Items(t)) /\ Child(t, n) = ListChild(t, n)
         /\ Kind(t) = "repeat" => LoopLen(t) = Len(Items(t)) /\ Child(t, n) = RepeatChild(t, n)
         /\ Kind(t) = "table"  => /\ LoopLen(t) = Len(Kids(t)) + Len(Keys(t))
                                  /\ Child(t, n) = TableChild(t, n)
         /\ Kind(t) = "fields" => LoopLen(t) = Len(Kids(t)) /\ Child(t, n) = FieldsChild(t, n)
         /\ Kind(t) = "pratt"  => LoopLen(t) = Len(Kids(t)) /\ Child(t, n) = PrattChild(t)
         /\ Kind(t) = "cell"   => Child(t, n) = CellChild(t)
         /\ Kind(t) = "row"    => LoopLen(t) = Len(RowCells(t)) /\ Child(t, n) = RowChild(t, n)
         /\ Kind(t) \notin {"list", "repeat", "table", "fields", "pratt", "cell", "row"}
              => /\ LoopLen(t) = Len(Kids(t))
                 /\ Child(t, n) = Job(Kids(t)[n], t.expr, t.path)
<1>1. Kind(t) = "list" => LoopLen(t) = Len(Items(t)) /\ Child(t, n) = ListChild(t, n)
  BY Zenon DEF LoopLen, Child
<1>2. Kind(t) = "repeat" => LoopLen(t) = Len(Items(t)) /\ Child(t, n) = RepeatChild(t, n)
  BY Zenon DEF LoopLen, Child
<1>3. Kind(t) = "table" => /\ LoopLen(t) = Len(Kids(t)) + Len(Keys(t))
                           /\ Child(t, n) = TableChild(t, n)
  BY Zenon DEF LoopLen, Child
<1>4. Kind(t) = "fields" => LoopLen(t) = Len(Kids(t)) /\ Child(t, n) = FieldsChild(t, n)
  BY Zenon DEF LoopLen, Child
<1>5. Kind(t) = "pratt" => LoopLen(t) = Len(Kids(t)) /\ Child(t, n) = PrattChild(t)
  BY Zenon DEF LoopLen, Child
<1>6. Kind(t) = "cell" => Child(t, n) = CellChild(t)
  BY Zenon DEF Child
<1>7. Kind(t) = "row" => LoopLen(t) = Len(RowCells(t)) /\ Child(t, n) = RowChild(t, n)
  BY Zenon DEF LoopLen, Child
<1>8. Kind(t) \notin {"list", "repeat", "table", "fields", "pratt", "cell", "row"}
        => /\ LoopLen(t) = Len(Kids(t))
           /\ Child(t, n) = Job(Kids(t)[n], t.expr, t.path)
  BY Zenon DEF LoopLen, Child
<1>9. QED
  BY <1>1, <1>2, <1>3, <1>4, <1>5, <1>6, <1>7, <1>8

(* The field a name finds in a data node is an item of it.                 *)
LEMMA FieldTyped ==
  ASSUME NEW t \in Task, Form(t) = "data", NEW name, FieldNo(t, name) # 0
  PROVE  /\ Items(t)[FieldNo(t, name)] \in Expr
         /\ FieldTerm(t, name) \in TermType
<1> USE GraphAssumption
<1> DEFINE T == {i \in DOMAIN Keys(t) : Keys(t)[i] = name}
<1>1. T \subseteq Nat /\ T # {}
  BY PartsTyped DEF FieldNo
<1>2. \E i \in T : \A j \in T : i <= j
  <2> HIDE DEF T
  <2>1. QED
    BY <1>1, FirstPlace
<1>3. \E i \in DOMAIN Keys(t) :
        Keys(t)[i] = name /\ \A j \in DOMAIN Keys(t) : Keys(t)[j] = name => i <= j
  BY <1>2
<1>4. FieldNo(t, name) \in DOMAIN Keys(t)
  BY <1>3 DEF FieldNo
<1>5. Len(Keys(t)) = Len(Items(t))
  BY GraphTyped DEF TermOK, Keys, Items, Form
<1>6. Items(t)[FieldNo(t, name)] \in Expr
  BY <1>4, <1>5, PartsTyped
<1>7. QED
  BY <1>6 DEF FieldTerm, GraphAssumption, GraphOK

(* The value of an entered cell is checked against one of its domains.     *)
LEMMA CellTyped ==
  ASSUME NEW t \in Task, Kind(t) = "cell", Open(t)
  PROVE  CellChild(t) \in Task
<1> USE GraphAssumption
<1>1. ~CellRefuses(t) /\ ~CellFails(t)
  BY DEF Open, Refuses, EntryFails, LoopKinds, AllKinds
<1>2. Form(t) = "data" /\ FieldNo(t, "value") # 0 /\ Domains(t) # {}
  BY <1>1 DEF CellRefuses, CellFails, CellOpens, IsRecord
<1>3. Items(t)[FieldNo(t, "value")] \in Expr
  BY <1>2, FieldTyped
<1>4. PICK i \in Domains(t) : CellChild(t) = Job(Kids(t)[i], Items(t)[FieldNo(t, "value")], "value")
  BY <1>2 DEF CellChild
<1>5. Kids(t)[i] \in Shape
  BY PartsTyped, LenProperties DEF Domains
<1>6. QED
  BY <1>3, <1>4, <1>5, JobTyped DEF Paths

(* The cells of an entered row are terms.                                  *)
LEMMA RowTyped ==
  ASSUME NEW t \in Task, Kind(t) = "row", Open(t)
  PROVE  /\ RowCells(t) \in Seq(Expr) /\ Len(RowCells(t)) \in Nat
         /\ \A j \in 1..Len(RowCells(t)) : RowCells(t)[j] \in Expr
<1> USE GraphAssumption
<1>1. Form(t) = "data" /\ FieldNo(t, "cells") # 0
  BY DEF Open, Refuses, LoopKinds, AllKinds, RowRefuses, IsRecord, HasField
<1>2. RowCells(t) \in Seq(Expr)
  BY <1>1, FieldTyped DEF RowCells, TermType
<1>3. QED
  BY <1>2, LenProperties, ElementOfSeq

(* Every child a loop that was entered visits is a task of the graph.      *)
LEMMA ChildTyped ==
  ASSUME NEW t \in Task, Kind(t) \in LoopKinds, Open(t),
         NEW n \in Nat \ {0}, n <= LoopLen(t), Child(t, n) # None
  PROVE  Child(t, n) \in Task
<1> USE GraphAssumption
<1>1. /\ t.expr \in Expr /\ t.path \in Paths /\ "expr" \in Paths
      /\ NodeOK(Node[t.shape]) /\ Kids(t) = Node[t.shape].kids
      /\ Kind(t) = Node[t.shape].kind
  BY GraphTyped DEF Paths, Kids, Kind
<1>2. ~Refuses(t) /\ ~EntryFails(t)
  BY DEF Open
<1>3. CASE Kind(t) = "list"
  <2>1. ~ListRefuses(t) /\ n \in 1..Len(Items(t)) /\ Child(t, n) = ListChild(t, n)
    BY <1>2, <1>3, LoopCases, PartsTyped DEF Refuses
  <2>2. Items(t)[n] \in Expr
    BY <2>1, PartsTyped
  <2>3. (IF n <= Len(Kids(t)) THEN Kids(t)[n] ELSE Node[t.shape].rest) \in Shape
    BY <2>1, PartsTyped DEF ListRefuses
  <2>4. QED
    BY <1>1, <2>1, <2>2, <2>3, JobTyped DEF ListChild
<1>4. CASE Kind(t) = "repeat"
  <2>1. n \in 1..Len(Items(t)) /\ Child(t, n) = RepeatChild(t, n)
    BY <1>4, LoopCases, PartsTyped
  <2>2. Items(t)[n] \in Expr
    BY <2>1, PartsTyped
  <2>3. Kids(t)[1] \in Shape
    BY <1>1, <1>4, PartsTyped DEF NodeOK
  <2>4. QED
    BY <1>1, <2>1, <2>2, <2>3, JobTyped DEF RepeatChild
<1>5. CASE Kind(t) = "table"
  <2>1. ~TableRefuses(t) /\ n \in 1..(Len(Kids(t)) + Len(Keys(t)))
        /\ Child(t, n) = TableChild(t, n)
    BY <1>2, <1>5, LoopCases, PartsTyped DEF Refuses
  <2>2. /\ Len(Keys(t)) = Len(Items(t))
        /\ \A key : EntryOf(t, key) # 0 => Items(t)[EntryOf(t, key)] \in Expr
    BY <2>1, EntryTyped DEF TableRefuses
  <2>3. CASE n <= Len(Kids(t))
    <3>1. Kids(t)[n] \in Shape
      BY <2>3, PartsTyped
    <3>2. QED
      BY <1>1, <2>1, <2>2, <2>3, <3>1, JobTyped DEF TableChild
  <2>4. CASE ~(n <= Len(Kids(t)))
    <3>1. Items(t)[n - Len(Kids(t))] \in Expr
      BY <2>1, <2>2, <2>4, PartsTyped
    <3>2. Node[t.shape].extra = "shape"
          /\ Child(t, n) = Job(Node[t.shape].rest, Items(t)[n - Len(Kids(t))], t.path)
      BY <2>1, <2>4 DEF TableChild
    <3>3. Node[t.shape].rest \in Shape
      BY <1>1, <1>5, <3>2, PartsTyped DEF NodeOK
    <3>4. QED
      BY <1>1, <3>1, <3>2, <3>3, JobTyped
  <2>5. QED
    BY <2>3, <2>4
<1>6. CASE Kind(t) = "fields"
  <2>1. ~FieldsRefuses(t) /\ n \in 1..Len(Kids(t)) /\ Child(t, n) = FieldsChild(t, n)
    BY <1>2, <1>6, LoopCases, PartsTyped DEF Refuses
  <2>2. \A key : EntryOf(t, key) # 0 => Items(t)[EntryOf(t, key)] \in Expr
    BY <2>1, EntryTyped DEF FieldsRefuses
  <2>3. Kids(t)[n] \in Shape
    BY <2>1, PartsTyped
  <2>4. QED
    BY <1>1, <2>1, <2>2, <2>3, JobTyped DEF FieldsChild
<1>7. CASE Kind(t) = "pratt"
  <2>1. ~PrattRefuses(t) /\ ~PrattFails(t) /\ Child(t, n) = PrattChild(t)
    BY <1>2, <1>7, LoopCases DEF Refuses, EntryFails
  <2>2. Term[t.expr].parsed \in Expr
    BY <2>1, PartsTyped DEF PrattRefuses, PrattFails
  <2>3. Kids(t)[1] \in Shape
    BY <1>1, <1>7, PartsTyped DEF NodeOK, WrapKinds
  <2>4. QED
    BY <1>1, <2>1, <2>2, <2>3, JobTyped DEF PrattChild
<1>8. CASE Kind(t) = "cell"
  BY <1>8, LoopCases, CellTyped
<1>9. CASE Kind(t) = "row"
  <2>1. n \in 1..Len(RowCells(t)) /\ Child(t, n) = RowChild(t, n)
    BY <1>9, LoopCases, RowTyped
  <2>2. RowCells(t)[n] \in Expr
    BY <1>9, <2>1, RowTyped
  <2>3. Kids(t)[1] \in Shape
    BY <1>1, <1>9, PartsTyped DEF NodeOK
  <2>4. QED
    BY <1>1, <2>1, <2>2, <2>3, JobTyped DEF RowChild
<1>10. CASE Kind(t) \notin {"list", "repeat", "table", "fields", "pratt", "cell", "row"}
  <2>1. n \in 1..Len(Kids(t)) /\ Child(t, n) = Job(Kids(t)[n], t.expr, t.path)
    BY <1>10, LoopCases, PartsTyped
  <2>2. Kids(t)[n] \in Shape
    BY <2>1, PartsTyped
  <2>3. QED
    BY <1>1, <2>1, <2>2, JobTyped
<1>11. QED
  BY <1>3, <1>4, <1>5, <1>6, <1>7, <1>8, <1>9, <1>10

LEMMA KindsApart ==
  ASSUME NEW t
  PROVE  /\ Kind(t) \in LeafKinds => Kind(t) \notin LoopKinds
                                     /\ Kind(t) \notin {"ref", "defs", "class"}
         /\ Kind(t) \in {"ref", "defs", "class"} => Kind(t) \notin LoopKinds \cup LeafKinds
BY DEF LeafKinds, LoopKinds, AllKinds, AnyKinds, WrapKinds

(* A term a shape refuses is none its entry check fails on.                *)
LEMMA RefusesOrFails ==
  ASSUME NEW t \in Task, Refuses(t)
  PROVE  ~EntryFails(t)
<1> USE GraphAssumption
<1>1. None # "broken"
      BY DEF GraphAssumption, GraphOK
<1>2. CASE Kind(t) = "pratt"
      BY <1>1, <1>2 DEF Refuses, EntryFails, PrattRefuses, PrattFails
<1>3. CASE Kind(t) = "cell"
      BY <1>3 DEF Refuses, EntryFails, CellRefuses, CellFails
<1> QED BY <1>2, <1>3 DEF EntryFails

(* A wrapper has one child, whatever the term.                             *)
LEMMA WrapperAsks ==
  ASSUME NEW t \in Task, Kind(t) \in WrapKinds \cup {"not"}, Open(t)
  PROVE  LoopLen(t) = 1 /\ Child(t, 1) # None
<1> USE GraphAssumption
<1>1. /\ t.expr \in Expr /\ t.path \in Paths /\ "expr" \in Paths
      /\ NodeOK(Node[t.shape]) /\ Kids(t) = Node[t.shape].kids
      /\ Kind(t) = Node[t.shape].kind /\ None \notin Task
      BY GraphTyped DEF Paths, Kids, Kind, GraphAssumption
<1>2. Len(Kids(t)) = 1 /\ Kids(t)[1] \in Shape
      BY <1>1, PartsTyped DEF NodeOK
<1>3. CASE Kind(t) = "pratt"
  <2>1. LoopLen(t) = 1 /\ Child(t, 1) = PrattChild(t)
        BY <1>2, <1>3, LoopCases
  <2>2. ~PrattRefuses(t) /\ ~PrattFails(t)
        BY <1>3 DEF Open, Refuses, EntryFails, LoopKinds, WrapKinds
  <2>3. Term[t.expr].parsed \in Expr
        BY <2>2, PartsTyped DEF PrattRefuses, PrattFails
  <2>4. PrattChild(t) \in Task
        BY <1>1, <1>2, <2>3, JobTyped DEF PrattChild
  <2> QED BY <1>1, <2>1, <2>4
<1>4. CASE Kind(t) \in {"capture", "effectful", "not"}
  <2>1. LoopLen(t) = 1 /\ Child(t, 1) = Job(Kids(t)[1], t.expr, t.path)
        BY <1>2, <1>4, LoopCases
  <2>2. Job(Kids(t)[1], t.expr, t.path) \in Task
        BY <1>1, <1>2, JobTyped
  <2> QED BY <1>1, <2>1, <2>2
<1> QED BY <1>3, <1>4 DEF WrapKinds

(* The places of a question are numbers from one, up to the length of the  *)
(* loop.                                                                   *)
LEMMA LoopLenTyped ==
  ASSUME NEW t \in Task, Kind(t) \in LoopKinds, Open(t)
  PROVE  LoopLen(t) \in Nat
<1> USE GraphAssumption
<1>1. CASE Kind(t) = "cell"
  <2>1. LoopLen(t) = IF CellIsNull(t) THEN 0 ELSE 1
        BY <1>1, Zenon DEF LoopLen
  <2> QED BY <2>1
<1>2. CASE Kind(t) = "row"
      BY <1>2, LoopCases, RowTyped
<1>3. CASE Kind(t) \notin {"cell", "row"}
  <2>1. LoopLen(t) \in {Len(Items(t)), Len(Kids(t)), Len(Kids(t)) + Len(Keys(t))}
        BY <1>3, LoopCases
  <2> QED BY <2>1, PartsTyped
<1> QED BY <1>1, <1>2, <1>3

(* A name the scopes define resolves to a shape of the graph.              *)
LEMMA ResolvedTyped ==
  ASSUME NEW scope \in Seq(Shape), NEW name, DefiningScopes(scope, name) # {}
  PROVE  Resolved(scope, name) \in Shape
<1> USE GraphAssumption
<1>1. ASSUME NEW s \in Shape, Defines(s, name)
      PROVE  LastDef(s, name) \in Shape
  <2> DEFINE ds == Node[s].defs
             T == {i \in DOMAIN ds : ds[i].name = name}
  <2>1. ds \in Seq([name: Symbol, shape: Shape])
        BY <1>1 DEF GraphAssumption, GraphOK, NodeType
  <2>2. Len(ds) \in Nat /\ DOMAIN ds = 1..Len(ds)
        BY <2>1, LenProperties
  <2>3. T \subseteq 1..Len(ds) /\ T # {}
        BY <1>1, <2>2 DEF Defines
  <2>4. \E i \in T : \A j \in T : j <= i
    <3> HIDE DEF T, ds
    <3> QED BY <2>2, <2>3, LastPlace
  <2>5. \E i \in DOMAIN ds :
          /\ ds[i].name = name
          /\ \A j \in DOMAIN ds : ds[j].name = name => j <= i
        BY <2>4
  <2>6. PICK i \in DOMAIN ds : LastDef(s, name) = ds[i].shape
        BY <2>5 DEF LastDef
  <2>7. ds[i] \in [name: Symbol, shape: Shape]
    <3> HIDE DEF ds
    <3> QED BY <2>1, <2>2, ElementOfSeq
  <2> QED BY <2>6, <2>7
<1> DEFINE T == DefiningScopes(scope, name)
<1>2. Len(scope) \in Nat /\ DOMAIN scope = 1..Len(scope)
      BY LenProperties
<1>3. T \in SUBSET (1..Len(scope)) /\ T # {}
      BY <1>2 DEF DefiningScopes
<1>4. Max(T) \in T
  <2> HIDE DEF T
  <2> QED BY <1>2, <1>3, MaxIs
<1>5. Defines(scope[Max(T)], name) /\ scope[Max(T)] \in Shape
      BY <1>2, <1>3, <1>4, ElementOfSeq DEF DefiningScopes
<1> QED BY <1>1, <1>5 DEF Resolved

-----------------------------------------------------------------------------
(* A question is made of cheaper questions: each takes a level from the    *)
(* budget, or asks a lower shape.                                          *)

Storey  == 1 + CHOOSE h \in Nat : \A s \in Shape : Height[s] <= h

Cost(q) == q.fuel * Storey + Height[q.task.shape]

LEMMA StoreyTyped ==
  /\ Storey \in Nat
  /\ \A s \in Shape : Height[s] \in Nat /\ Height[s] < Storey
<1>1. \A s \in Shape : Height[s] \in Nat
      BY HeightAssumption
<1>2. \E h \in Nat : \A s \in Shape : Height[s] <= h
  <2>1. CASE Shape = {}
        BY <2>1
  <2>2. CASE Shape # {}
        BY <1>1, <2>2, HeightAssumption
  <2> QED BY <2>1, <2>2
<1> DEFINE h == CHOOSE h \in Nat : \A s \in Shape : Height[s] <= h
<1>3. h \in Nat /\ \A s \in Shape : Height[s] <= h
      BY <1>2
<1>4. Storey = 1 + h
      BY DEF Storey
<1> HIDE DEF h
<1> QED BY <1>1, <1>3, <1>4

LEMMA CostTyped ==
  ASSUME NEW q \in Question
  PROVE  Cost(q) \in Nat /\ q.fuel \in Nat /\ q.task \in Task /\ q.scope \in Seq(Shape)
         /\ q.task.shape \in Shape
<1> USE GraphAssumption
<1>1. q.fuel \in Nat /\ q.task \in Task /\ q.scope \in Seq(Shape)
      BY DEF Question
<1>2. q.task.shape \in Shape
      BY <1>1 DEF Task
<1>3. \A a, b, c \in Nat : a * b + c \in Nat
      OBVIOUS
<1> QED BY <1>1, <1>2, <1>3, StoreyTyped DEF Cost

LEMMA CheaperByFuel ==
  ASSUME NEW q \in Question, NEW p \in Question,
         q.fuel > 0, p.fuel = q.fuel - 1
  PROVE  Cost(p) < Cost(q)
<1> USE GraphAssumption
<1>1. \A f, s, a, b \in Nat : f > 0 /\ a < s => (f - 1) * s + a < f * s + b
  <2> TAKE f, s, a, b \in Nat
  <2>1. (f - 1) * s = f * s - s
        OBVIOUS
  <2>2. f * s \in Nat
        OBVIOUS
  <2> QED BY <2>1, <2>2
<1>2. q.fuel \in Nat /\ q.task.shape \in Shape /\ p.task.shape \in Shape
      BY CostTyped
<1> QED BY <1>1, <1>2, StoreyTyped DEF Cost

LEMMA CheaperByHeight ==
  ASSUME NEW q \in Question, NEW p \in Question,
         p.fuel = q.fuel, Height[p.task.shape] < Height[q.task.shape]
  PROVE  Cost(p) < Cost(q)
<1> USE GraphAssumption
<1>1. \A a, b, c \in Nat : b < c => a + b < a + c
      OBVIOUS
<1>2. q.fuel \in Nat /\ q.task.shape \in Shape /\ p.task.shape \in Shape
      BY CostTyped
<1>3. q.fuel * Storey \in Nat
      BY <1>2, StoreyTyped
<1> QED BY <1>1, <1>2, <1>3, StoreyTyped DEF Cost

(* The children of an entered loop are built below it.                     *)
LEMMA ChildBelow ==
  ASSUME NEW t \in Task, Kind(t) \in LoopKinds, Open(t),
         NEW n \in Nat \ {0}, n <= LoopLen(t), Child(t, n) # None
  PROVE  Child(t, n).shape \in Below(t.shape)
<1> USE GraphAssumption
<1>1. /\ NodeOK(Node[t.shape]) /\ Kids(t) = Node[t.shape].kids
      /\ Kind(t) = Node[t.shape].kind
      BY GraphTyped DEF Kids, Kind
<1>2. ~Refuses(t) /\ ~EntryFails(t)
      BY DEF Open
<1>3. /\ DOMAIN Kids(t) = 1..Len(Kids(t))
      /\ \A i \in 1..Len(Kids(t)) : Kids(t)[i] \in Below(t.shape)
      /\ Node[t.shape].rest # None => Node[t.shape].rest \in Below(t.shape)
  <2>1. Kind(t) \notin {"ref", "class"}
        BY DEF LoopKinds, AllKinds, AnyKinds, WrapKinds
  <2>2. DOMAIN Kids(t) = 1..Len(Kids(t))
        BY PartsTyped, LenProperties
  <2> QED BY <1>1, <2>1, <2>2 DEF Below
<1>4. \A s, e, p : Job(s, e, p).shape = s
      BY DEF Job
<1>5. CASE Kind(t) = "list"
  <2>1. ~ListRefuses(t) /\ n \in 1..Len(Items(t)) /\ Child(t, n) = ListChild(t, n)
        BY <1>2, <1>5, LoopCases, PartsTyped DEF Refuses
  <2>2. Child(t, n).shape = IF n <= Len(Kids(t)) THEN Kids(t)[n] ELSE Node[t.shape].rest
        BY <1>4, <2>1 DEF ListChild
  <2>3. n > Len(Kids(t)) => Node[t.shape].rest # None
        BY <2>1, PartsTyped DEF ListRefuses
  <2> QED BY <1>3, <2>2, <2>3, PartsTyped
<1>6. CASE Kind(t) = "table"
  <2>1. Child(t, n) = TableChild(t, n)
        BY <1>6, LoopCases
  <2>2. CASE n <= Len(Kids(t))
        BY <1>3, <1>4, <2>1, <2>2, PartsTyped DEF TableChild
  <2>3. CASE ~(n <= Len(Kids(t)))
    <3>1. Node[t.shape].extra = "shape" /\ Child(t, n).shape = Node[t.shape].rest
          BY <1>4, <2>1, <2>3 DEF TableChild
    <3> QED BY <1>1, <1>3, <1>6, <3>1 DEF NodeOK
  <2> QED BY <2>2, <2>3
<1>7. CASE Kind(t) = "fields"
  <2>1. n \in 1..Len(Kids(t)) /\ Child(t, n) = FieldsChild(t, n)
        BY <1>7, LoopCases, PartsTyped
  <2> QED BY <1>3, <1>4, <2>1 DEF FieldsChild
<1>8. CASE Kind(t) = "repeat"
  <2>1. Child(t, n).shape = Kids(t)[1]
        BY <1>4, <1>8, LoopCases DEF RepeatChild
  <2> QED BY <1>1, <1>3, <1>8, <2>1 DEF NodeOK
<1>9. CASE Kind(t) = "pratt"
  <2>1. Child(t, n).shape = Kids(t)[1]
        BY <1>4, <1>9, LoopCases DEF PrattChild
  <2> QED BY <1>1, <1>3, <1>9, <2>1 DEF NodeOK, WrapKinds
<1>10. CASE Kind(t) = "row"
  <2>1. Child(t, n).shape = Kids(t)[1]
        BY <1>4, <1>10, LoopCases DEF RowChild
  <2> QED BY <1>1, <1>3, <1>10, <2>1 DEF NodeOK
<1>11. CASE Kind(t) = "cell"
  <2>1. ~CellRefuses(t) /\ ~CellFails(t)
        BY <1>2, <1>11 DEF Refuses, EntryFails
  <2>2. Domains(t) # {}
        BY <2>1 DEF CellRefuses, CellFails
  <2>3. PICK i \in Domains(t) : CellChild(t).shape = Kids(t)[i]
        BY <1>4, <2>2 DEF CellChild
  <2>4. i \in 1..Len(Kids(t))
        BY <1>3 DEF Domains
  <2> QED BY <1>3, <1>11, <2>3, <2>4, LoopCases
<1>12. CASE Kind(t) \notin {"list", "repeat", "table", "fields", "pratt", "cell", "row"}
  <2>1. n \in 1..Len(Kids(t)) /\ Child(t, n).shape = Kids(t)[n]
        BY <1>4, <1>12, LoopCases, PartsTyped
  <2> QED BY <1>3, <2>1
<1> QED BY <1>5, <1>6, <1>7, <1>8, <1>9, <1>10, <1>11, <1>12

LEMMA PlacesCases ==
  ASSUME NEW q
  PROVE  LET t == q.task IN
         /\ Kind(t) \in LoopKinds /\ Open(t) =>
              Places(q) = {i \in 1..LoopLen(t) : Child(t, i) # None}
         /\ Kind(t) \in LoopKinds /\ ~Open(t) => Places(q) = {}
         /\ Kind(t) = "defs" => Places(q) = {1}
         /\ Kind(t) = "ref" =>
              Places(q) = IF q.fuel > 0 /\ DefiningScopes(q.scope, Node[t.shape].name) # {}
                          THEN {1} ELSE {}
         /\ Kind(t) = "class" => Places(q) = IF q.fuel > 0 /\ ClassOpens(t) THEN {1} ELSE {}
         /\ Kind(t) \notin LoopKinds \cup {"ref", "defs", "class"} => Places(q) = {}
<1> DEFINE t == q.task
           n == {i \in 1..LoopLen(t) : Child(t, i) # None}
           r == IF q.fuel > 0 /\ DefiningScopes(q.scope, Node[t.shape].name) # {} THEN {1} ELSE {}
           c == IF q.fuel > 0 /\ ClassOpens(t) THEN {1} ELSE {}
<1>1. Places(q) =
        CASE Kind(t) \in LoopKinds /\ (EntryFails(t) \/ Refuses(t)) -> {}
          [] Kind(t) \in LoopKinds /\ ~(EntryFails(t) \/ Refuses(t)) -> n
          [] Kind(t) = "defs" -> {1} [] Kind(t) = "ref" -> r [] Kind(t) = "class" -> c
          [] OTHER -> {}
      BY DEF Places
<1>2. Kind(t) \in {"ref", "defs", "class"} => Kind(t) \notin LoopKinds
      BY KindsApart
<1> HIDE DEF n, r, c
<1>3. Kind(t) \in LoopKinds /\ Open(t) => Places(q) = n
      BY <1>1, <1>2 DEF Open
<1>4. Kind(t) \in LoopKinds /\ ~Open(t) => Places(q) = {}
      BY <1>1, <1>2 DEF Open
<1>5. Kind(t) = "defs" => Places(q) = {1}
      BY <1>1, <1>2
<1>6. Kind(t) = "ref" => Places(q) = r
      BY <1>1, <1>2
<1>7. Kind(t) = "class" => Places(q) = c
      BY <1>1, <1>2
<1>8. Kind(t) \notin LoopKinds \cup {"ref", "defs", "class"} => Places(q) = {}
      BY <1>1
<1> QED BY <1>3, <1>4, <1>5, <1>6, <1>7, <1>8 DEF n, r, c

LEMMA PartCases ==
  ASSUME NEW q, NEW i
  PROVE  LET t == q.task IN
         /\ Kind(t) = "defs" => Part(q, i) =
              Asking(Job(Kids(t)[1], t.expr, t.path), Append(q.scope, t.shape), q.fuel)
         /\ Kind(t) = "ref" => Part(q, i) =
              Asking(Job(Resolved(q.scope, Node[t.shape].name), t.expr, t.path),
                     q.scope, q.fuel - 1)
         /\ Kind(t) = "class" =>
              Part(q, i) = Asking(Job(Kids(t)[1], t.expr, "expr"), q.scope, q.fuel - 1)
         /\ Kind(t) \in LoopKinds => Part(q, i) = Asking(Child(t, i), q.scope, q.fuel)
<1>1. Kind(q.task) \in LoopKinds => Kind(q.task) \notin {"ref", "defs", "class"}
      BY KindsApart
<1> QED BY <1>1, Zenon DEF Part

(* The questions a question is made of are cheaper questions.              *)
LEMMA PartCheaper ==
  ASSUME NEW q \in Question, NEW i \in Places(q)
  PROVE  Part(q, i) \in Question /\ Cost(Part(q, i)) < Cost(q)
<1> USE GraphAssumption
<1> DEFINE t == q.task
           p == Part(q, i)
<1>1. q.fuel \in Nat /\ t \in Task /\ q.scope \in Seq(Shape) /\ t.shape \in Shape
      BY CostTyped
<1>2. \A u \in Task, s \in Seq(Shape), f \in Nat :
        /\ Asking(u, s, f) \in Question
        /\ Asking(u, s, f).task = u /\ Asking(u, s, f).fuel = f
      BY DEF Asking, Question
<1>3. /\ t.expr \in Expr /\ t.path \in Paths /\ "expr" \in Paths
      /\ NodeOK(Node[t.shape]) /\ Kids(t) = Node[t.shape].kids
      /\ Kind(t) = Node[t.shape].kind
      BY <1>1, GraphTyped DEF Paths, Kids, Kind
<1>4. \A s, e, path : Job(s, e, path).shape = s
      BY DEF Job
<1>5. CASE Kind(t) \in LoopKinds
  <2>1. Open(t) /\ i \in 1..LoopLen(t) /\ Child(t, i) # None
        BY <1>5, PlacesCases
  <2>2. p = Asking(Child(t, i), q.scope, q.fuel)
        BY <1>5, PartCases
  <2>3. Child(t, i) \in Task /\ Child(t, i).shape \in Below(t.shape)
        BY <1>1, <1>5, <2>1, ChildTyped, ChildBelow
  <2>4. p \in Question /\ p.fuel = q.fuel /\ p.task = Child(t, i)
        BY <1>1, <1>2, <2>2, <2>3
  <2>5. Height[p.task.shape] < Height[t.shape]
        BY <1>1, <2>3, <2>4, HeightAssumption
  <2> QED BY <2>4, <2>5, CheaperByHeight
<1>6. CASE Kind(t) = "defs"
  <2>1. p = Asking(Job(Kids(t)[1], t.expr, t.path), Append(q.scope, t.shape), q.fuel)
        BY <1>6, PartCases
  <2>2. Len(Kids(t)) = 1 /\ Kids(t)[1] \in Shape
        BY <1>1, <1>3, <1>6, PartsTyped DEF NodeOK
  <2>3. Kids(t)[1] \in Below(t.shape)
    <3>1. DOMAIN Kids(t) = 1..Len(Kids(t))
          BY <1>1, PartsTyped, LenProperties
    <3> QED BY <1>3, <1>6, <2>2, <3>1 DEF Below
  <2>4. Append(q.scope, t.shape) \in Seq(Shape)
        BY <1>1, AppendProperties
  <2>5. Job(Kids(t)[1], t.expr, t.path) \in Task
        BY <1>3, <2>2, JobTyped
  <2>8. p \in Question /\ p.fuel = q.fuel /\ p.task = Job(Kids(t)[1], t.expr, t.path)
    <3> DEFINE job == Job(Kids(t)[1], t.expr, t.path)
               inner == Append(q.scope, t.shape)
    <3>1. job \in Task /\ inner \in Seq(Shape) /\ p = Asking(job, inner, q.fuel)
          BY <2>1, <2>4, <2>5
    <3> HIDE DEF job, inner, p
    <3>2. p \in Question /\ p.fuel = q.fuel /\ p.task = job
          BY <1>1, <1>2, <3>1
    <3> QED BY <3>2 DEF job
  <2>6. p \in Question /\ p.fuel = q.fuel /\ p.task.shape = Kids(t)[1]
        BY <1>4, <2>8
  <2>7. Height[p.task.shape] < Height[t.shape]
        BY <1>1, <2>3, <2>6, HeightAssumption
  <2> QED BY <2>6, <2>7, CheaperByHeight
<1>7. CASE Kind(t) = "ref"
  <2>1. q.fuel > 0 /\ DefiningScopes(q.scope, Node[t.shape].name) # {}
        BY <1>7, PlacesCases
  <2>2. Resolved(q.scope, Node[t.shape].name) \in Shape
        BY <1>1, <2>1, ResolvedTyped
  <2>3. p = Asking(Job(Resolved(q.scope, Node[t.shape].name), t.expr, t.path), q.scope, q.fuel - 1)
        BY <1>7, PartCases
  <2>4. q.fuel - 1 \in Nat
        BY <1>1, <2>1
  <2>5. p \in Question /\ p.fuel = q.fuel - 1
        BY <1>1, <1>2, <1>3, <2>2, <2>3, <2>4, JobTyped
  <2> QED BY <2>1, <2>5, CheaperByFuel
<1>8. CASE Kind(t) = "class"
  <2>1. q.fuel > 0 /\ ClassOpens(t)
        BY <1>8, PlacesCases
  <2>2. Kids(t)[1] \in Shape
    <3>1. Kids(t) # <<>>
          BY <2>1 DEF ClassOpens
    <3> QED BY <1>1, <3>1, PartsTyped, EmptySeq
  <2>3. p = Asking(Job(Kids(t)[1], t.expr, "expr"), q.scope, q.fuel - 1)
        BY <1>8, PartCases
  <2>4. q.fuel - 1 \in Nat
        BY <1>1, <2>1
  <2>5. p \in Question /\ p.fuel = q.fuel - 1
        BY <1>1, <1>2, <1>3, <2>2, <2>3, <2>4, JobTyped
  <2> QED BY <2>1, <2>5, CheaperByFuel
<1>9. CASE Kind(t) \notin LoopKinds \cup {"ref", "defs", "class"}
      BY <1>9, PlacesCases
<1> QED BY <1>5, <1>6, <1>7, <1>8, <1>9

Outcomes(q) == [i \in Places(q) |-> Meaning[Part(q, i)]]

LEMMA PlacesTyped ==
  ASSUME NEW q \in Question
  PROVE  /\ Places(q) \subseteq Nat \ {0}
         /\ DOMAIN Outcomes(q) = Places(q)
         /\ Kind(q.task) \in LoopKinds => \A i \in Places(q) : i <= LoopLen(q.task)
<1> USE GraphAssumption
<1>1. CASE Kind(q.task) \in LoopKinds /\ Open(q.task)
  <2>1. LoopLen(q.task) \in Nat
        BY <1>1, CostTyped, LoopLenTyped
  <2>2. \A i \in 1..LoopLen(q.task) : i \in Nat \ {0} /\ i <= LoopLen(q.task)
        BY <2>1
  <2>3. Places(q) \subseteq 1..LoopLen(q.task)
        BY <1>1, PlacesCases
  <2> QED BY <2>2, <2>3 DEF Outcomes
<1>2. CASE ~(Kind(q.task) \in LoopKinds /\ Open(q.task))
  <2>1. Places(q) \subseteq {1} /\ (Kind(q.task) \in LoopKinds => Places(q) = {})
        BY <1>2, PlacesCases
  <2> QED BY <2>1 DEF Outcomes
<1> QED BY <1>1, <1>2

(* The questions a combinator of its own term's checks is made of.         *)
LEMMA BranchParts ==
  ASSUME NEW q \in Question,
         Kind(q.task) \in {"and", "or", "oneOf", "best", "capture", "effectful"}
  PROVE  /\ Open(q.task) /\ Kind(q.task) \in LoopKinds
         /\ LoopLen(q.task) = Len(Kids(q.task)) /\ Len(Kids(q.task)) \in Nat
         /\ Places(q) = 1..Len(Kids(q.task))
         /\ \A i \in 1..Len(Kids(q.task)) : Part(q, i).task.shape = Kids(q.task)[i]
<1> USE GraphAssumption
<1> DEFINE t == q.task
           n == Len(Kids(t))
<1>1. /\ t \in Task /\ n \in Nat /\ t.expr \in Expr /\ t.path \in Paths /\ None \notin Task
      /\ \A i \in 1..n : Kids(t)[i] \in Shape
      BY CostTyped, GraphTyped, PartsTyped DEF GraphAssumption
<1>2. Open(t) /\ Kind(t) \in LoopKinds
      BY DEF Open, Refuses, EntryFails, LoopKinds, AllKinds, AnyKinds, WrapKinds
<1>3. LoopLen(t) = n /\ \A i : Child(t, i) = Job(Kids(t)[i], t.expr, t.path)
      BY LoopCases
<1>4. \A i \in 1..n : Child(t, i) \in Task /\ Child(t, i) # None
  <2>1. \A i \in 1..n : Job(Kids(t)[i], t.expr, t.path) \in Task
        BY <1>1, JobTyped
  <2> QED BY <1>1, <1>3, <2>1
<1>5. Places(q) = 1..n
      BY <1>2, <1>3, <1>4, PlacesCases
<1>6. ASSUME NEW i \in 1..n
      PROVE  Part(q, i).task.shape = Kids(t)[i]
  <2> DEFINE job == Child(t, i)
  <2>1. Part(q, i) = Asking(job, q.scope, q.fuel)
        BY <1>2, PartCases
  <2>2. job.shape = Kids(t)[i]
    <3>1. job = Job(Kids(t)[i], t.expr, t.path)
          BY <1>3
    <3>2. \A s, e, p : Job(s, e, p).shape = s
          BY DEF Job
    <3> HIDE DEF job
    <3> QED BY <3>1, <3>2
  <2> HIDE DEF job
  <2>3. Asking(job, q.scope, q.fuel).task = job
        BY DEF Asking
  <2> QED BY <2>1, <2>2, <2>3
<1> QED BY <1>1, <1>2, <1>3, <1>5, <1>6

-----------------------------------------------------------------------------
(* The recursive definitions have a solution.                              *)

(* A check means what its children's meanings make of it.                  *)
LEMMA MeaningEquation ==
  \A q \in Question :
    Meaning[q] = Outcome(q.task, [i \in Places(q) |-> Meaning[Part(q, i)]])
<1> USE GraphAssumption
<1> DEFINE Body(f, q) == Outcome(q.task, [i \in Places(q) |-> f[Part(q, i)]])
           Solves(f, n) == \A x \in Question : Cost(x) < n => f[x] = Body(f, x)
           Next_(f) == [x \in Question |-> Body(f, x)]
<1>1. ASSUME NEW f, NEW g, NEW x \in Question,
             \A y \in Question : Cost(y) < Cost(x) => f[y] = g[y]
      PROVE  Body(f, x) = Body(g, x)
  <2>1. \A i \in Places(x) : f[Part(x, i)] = g[Part(x, i)]
        BY <1>1, PartCheaper
  <2>2. [i \in Places(x) |-> f[Part(x, i)]] = [i \in Places(x) |-> g[Part(x, i)]]
        BY <2>1
  <2> QED BY <2>2
<1> HIDE DEF Body
<1>2. \A q \in Question : Cost(q) \in Nat
      BY CostTyped
<1>3. \A n \in Nat : \E f : Solves(f, n)
  <2> DEFINE Lost == {n \in Nat : ~\E f : Solves(f, n)}
  <2>1. SUFFICES ASSUME NEW n \in Lost, \A m \in Lost : n <= m
                 PROVE  FALSE
    <3> HIDE DEF Solves
    <3> QED BY FirstPlace
  <2>2. CASE n = 0
    <3>1. \A f : Solves(f, 0)
          BY <1>2
    <3> HIDE DEF Solves
    <3> QED BY <2>1, <2>2, <3>1
  <2>3. CASE n > 0
    <3>1. PICK f : Solves(f, n - 1)
      <4> HIDE DEF Solves
      <4>1. n - 1 \in Nat /\ n - 1 \notin Lost
            BY <2>1, <2>3
      <4> QED BY <4>1
    <3>2. ASSUME NEW x \in Question, Cost(x) < n
          PROVE  Next_(f)[x] = Body(Next_(f), x)
      <4>1. \A y \in Question : Cost(y) < Cost(x) => Next_(f)[y] = f[y]
            BY <1>2, <3>1, <3>2
      <4>2. Body(Next_(f), x) = Body(f, x)
            BY <1>1, <4>1
      <4> QED BY <4>2
    <3>3. Solves(Next_(f), n)
          BY <3>2
    <3> HIDE DEF Solves
    <3> QED BY <2>1, <3>3
  <2> QED BY <2>1, <2>2, <2>3
<1>4. ASSUME NEW m \in Nat, NEW n \in Nat, NEW f, NEW g, Solves(f, m), Solves(g, n),
             NEW x \in Question, Cost(x) < m, Cost(x) < n
      PROVE  f[x] = g[x]
  <2>1. SUFFICES ASSUME f[x] # g[x] PROVE FALSE
        OBVIOUS
  <2> DEFINE T == {k \in Nat : \E y \in Question : Cost(y) = k /\ k < m /\ k < n /\ f[y] # g[y]}
  <2>2. Cost(x) \in T
        BY <1>2, <1>4, <2>1
  <2>3. PICK k \in T : \A j \in T : k <= j
        BY <2>2, FirstPlace
  <2>4. PICK y \in Question : Cost(y) = k /\ k < m /\ k < n /\ f[y] # g[y]
        BY <2>3
  <2>5. \A z \in Question : Cost(z) < Cost(y) => f[z] = g[z]
        BY <1>2, <2>3, <2>4
  <2>6. Body(f, y) = Body(g, y)
        BY <1>1, <2>5
  <2> QED BY <1>4, <2>4, <2>6
<1> DEFINE At(n) == CHOOSE f : Solves(f, n)
           F == [x \in Question |-> At(Cost(x) + 1)[x]]
<1>5. \A n \in Nat : Solves(At(n), n)
  <2> HIDE DEF Solves
  <2> QED BY <1>3
<1> HIDE DEF At
<1>6. ASSUME NEW x \in Question PROVE F[x] = Body(F, x)
  <2> DEFINE f == At(Cost(x) + 1)
  <2>1. Cost(x) + 1 \in Nat /\ Cost(x) < Cost(x) + 1
        BY <1>2
  <2>2. Solves(f, Cost(x) + 1)
    <3> HIDE DEF Solves
    <3> QED BY <1>5, <2>1
  <2>3. ASSUME NEW y \in Question, Cost(y) < Cost(x) PROVE F[y] = f[y]
    <3>1. Cost(y) + 1 \in Nat /\ Cost(y) < Cost(y) + 1 /\ Cost(y) < Cost(x) + 1
          BY <1>2, <2>3
    <3>2. Solves(At(Cost(y) + 1), Cost(y) + 1)
          BY <1>5, <3>1
    <3> HIDE DEF Solves
    <3>3. At(Cost(y) + 1)[y] = f[y]
          BY <1>4, <2>1, <2>2, <3>1, <3>2
    <3> QED BY <3>3
  <2>4. F[x] = f[x]
        OBVIOUS
  <2>5. f[x] = Body(f, x)
        BY <2>1, <2>2
  <2> HIDE DEF F, f
  <2>6. Body(F, x) = Body(f, x)
        BY <1>1, <2>3
  <2> QED BY <2>4, <2>5, <2>6
<1>7. F = [x \in Question |-> Body(F, x)]
  <2>1. F = [x \in Question |-> F[x]]
        OBVIOUS
  <2> HIDE DEF F
  <2> QED BY <1>6, <2>1
<1>8. \E f : f = [x \in Question |-> Body(f, x)]
      BY <1>7
<1>9. Meaning = [x \in Question |-> Body(Meaning, x)]
      BY <1>8 DEF Meaning, Body
<1>10. \A q \in Question : Meaning[q] = Body(Meaning, q)
       BY <1>9
<1> QED BY <1>10 DEF Body

(* Outcomes are joined one place at a time.                                *)
LEMMA TogetherEquation ==
  ASSUME NEW from, NEW rs
  PROVE  LET all == Together(from, rs) IN
         /\ all[0] = Accept(from, <<>>)
         /\ \A n \in Nat \ {0} :
              all[n] = IF n \notin DOMAIN rs THEN all[n - 1]
                       ELSE Accept(all[n - 1].score + rs[n].score, all[n - 1].caps \o rs[n].caps)
<1> DEFINE Body(f, n) ==
             IF n = 0 THEN Accept(from, <<>>)
             ELSE IF n \notin DOMAIN rs THEN f[n - 1]
             ELSE Accept(f[n - 1].score + rs[n].score, f[n - 1].caps \o rs[n].caps)
           Cost_(n) == n
           Solves(f, n) == \A x \in Nat : Cost_(x) < n => f[x] = Body(f, x)
           Next_(f) == [x \in Nat |-> Body(f, x)]
<1>1. ASSUME NEW f, NEW g, NEW x \in Nat, \A y \in Nat : Cost_(y) < Cost_(x) => f[y] = g[y]
      PROVE  Body(f, x) = Body(g, x)
  <2>1. CASE x = 0
        BY <2>1
  <2>2. CASE x # 0
    <3>1. f[x - 1] = g[x - 1]
          BY <1>1, <2>2
    <3> QED BY <2>2, <3>1
  <2> QED BY <2>1, <2>2
<1> HIDE DEF Body
<1>2. \A q \in Nat : Cost_(q) \in Nat
      OBVIOUS
<1>3. \A n \in Nat : \E f : Solves(f, n)
  <2> DEFINE Lost == {n \in Nat : ~\E f : Solves(f, n)}
  <2>1. SUFFICES ASSUME NEW n \in Lost, \A m \in Lost : n <= m
                 PROVE  FALSE
    <3> HIDE DEF Solves
    <3> QED BY FirstPlace
  <2>2. CASE n = 0
    <3>1. \A f : Solves(f, 0)
          BY <1>2
    <3> HIDE DEF Solves
    <3> QED BY <2>1, <2>2, <3>1
  <2>3. CASE n > 0
    <3>1. PICK f : Solves(f, n - 1)
      <4> HIDE DEF Solves
      <4>1. n - 1 \in Nat /\ n - 1 \notin Lost
            BY <2>1, <2>3
      <4> QED BY <4>1
    <3>2. ASSUME NEW x \in Nat, Cost_(x) < n
          PROVE  Next_(f)[x] = Body(Next_(f), x)
      <4>1. \A y \in Nat : Cost_(y) < Cost_(x) => Next_(f)[y] = f[y]
            BY <1>2, <3>1, <3>2
      <4>2. Body(Next_(f), x) = Body(f, x)
            BY <1>1, <4>1
      <4> QED BY <4>2
    <3>3. Solves(Next_(f), n)
          BY <3>2
    <3> HIDE DEF Solves
    <3> QED BY <2>1, <3>3
  <2> QED BY <2>1, <2>2, <2>3
<1>4. ASSUME NEW m \in Nat, NEW n \in Nat, NEW f, NEW g, Solves(f, m), Solves(g, n),
             NEW x \in Nat, Cost_(x) < m, Cost_(x) < n
      PROVE  f[x] = g[x]
  <2>1. SUFFICES ASSUME f[x] # g[x] PROVE FALSE
        OBVIOUS
  <2> DEFINE T == {k \in Nat : \E y \in Nat : Cost_(y) = k /\ k < m /\ k < n /\ f[y] # g[y]}
  <2>2. Cost_(x) \in T
        BY <1>2, <1>4, <2>1
  <2>3. PICK k \in T : \A j \in T : k <= j
        BY <2>2, FirstPlace
  <2>4. PICK y \in Nat : Cost_(y) = k /\ k < m /\ k < n /\ f[y] # g[y]
        BY <2>3
  <2>5. \A z \in Nat : Cost_(z) < Cost_(y) => f[z] = g[z]
        BY <1>2, <2>3, <2>4
  <2>6. Body(f, y) = Body(g, y)
        BY <1>1, <2>5
  <2> QED BY <1>4, <2>4, <2>6
<1> DEFINE At(n) == CHOOSE f : Solves(f, n)
           F == [x \in Nat |-> At(Cost_(x) + 1)[x]]
<1>5. \A n \in Nat : Solves(At(n), n)
  <2> HIDE DEF Solves
  <2> QED BY <1>3
<1> HIDE DEF At
<1>6. ASSUME NEW x \in Nat PROVE F[x] = Body(F, x)
  <2> DEFINE f == At(Cost_(x) + 1)
  <2>1. Cost_(x) + 1 \in Nat /\ Cost_(x) < Cost_(x) + 1
        BY <1>2
  <2>2. Solves(f, Cost_(x) + 1)
    <3> HIDE DEF Solves
    <3> QED BY <1>5, <2>1
  <2>3. ASSUME NEW y \in Nat, Cost_(y) < Cost_(x) PROVE F[y] = f[y]
    <3>1. Cost_(y) + 1 \in Nat /\ Cost_(y) < Cost_(y) + 1 /\ Cost_(y) < Cost_(x) + 1
          BY <1>2, <2>3
    <3>2. Solves(At(Cost_(y) + 1), Cost_(y) + 1)
          BY <1>5, <3>1
    <3> HIDE DEF Solves
    <3>3. At(Cost_(y) + 1)[y] = f[y]
          BY <1>4, <2>1, <2>2, <3>1, <3>2
    <3> QED BY <3>3
  <2>4. F[x] = f[x]
        OBVIOUS
  <2>5. f[x] = Body(f, x)
        BY <2>1, <2>2
  <2> HIDE DEF F, f
  <2>6. Body(F, x) = Body(f, x)
        BY <1>1, <2>3
  <2> QED BY <2>4, <2>5, <2>6
<1>7. F = [x \in Nat |-> Body(F, x)]
  <2>1. F = [x \in Nat |-> F[x]]
        OBVIOUS
  <2> HIDE DEF F
  <2> QED BY <1>6, <2>1
<1>8. \E f : f = [x \in Nat |-> Body(f, x)]
      BY <1>7
<1>9. \E f : f = [n \in Nat |-> IF n = 0 THEN Accept(from, <<>>)
                                ELSE IF n \notin DOMAIN rs THEN f[n - 1]
                                ELSE Accept(f[n - 1].score + rs[n].score,
                                            f[n - 1].caps \o rs[n].caps)]
      BY <1>8 DEF Body
<1>10. Together(from, rs) = [n \in Nat |-> Body(Together(from, rs), n)]
       BY <1>9 DEF Together, Body
<1>11. \A n \in Nat : Together(from, rs)[n] = Body(Together(from, rs), n)
       BY <1>10
<1> QED BY <1>11 DEF Body

-----------------------------------------------------------------------------
(* Outcomes, kind by kind.                                                 *)

(* The first place that does not accept decides for all of them; when all  *)
(* accept, what they come to together does.                                *)
LEMMA EveryBad ==
  ASSUME NEW from, NEW rs, DOMAIN rs \subseteq Nat, NEW n \in Nat,
         NEW i \in DOMAIN rs, i <= n, rs[i].st # "accept",
         \A j \in DOMAIN rs : j < i => rs[j].st = "accept"
  PROVE  Every(from, rs, n) = rs[i]
<1> DEFINE bad == {j \in DOMAIN rs : j <= n /\ rs[j].st # "accept"}
<1>1. i \in bad /\ bad \in SUBSET Nat
      OBVIOUS
<1>2. \A j \in bad : i <= j
  <2>1. \A j \in DOMAIN rs : j \in Nat
        OBVIOUS
  <2> QED BY <2>1
<1>3. Every(from, rs, n) = IF bad # {} THEN rs[Min(bad)] ELSE Together(from, rs)[n]
      BY DEF Every
<1> HIDE DEF bad
<1>4. Min(bad) = i
      BY <1>1, <1>2, MinUnique
<1> QED BY <1>1, <1>3, <1>4

LEMMA EveryGood ==
  ASSUME NEW from, NEW rs, DOMAIN rs \subseteq Nat, NEW n \in Nat,
         \A j \in DOMAIN rs : j <= n => rs[j].st = "accept"
  PROVE  LET all == Together(from, rs)[n] IN
         Every(from, rs, n) = all /\ all = Accept(all.score, all.caps)
<1>1. Every(from, rs, n) = Together(from, rs)[n]
      BY DEF Every
<1> DEFINE IsAccept(r) == r = Accept(r.score, r.caps)
           T == {k \in Nat : ~IsAccept(Together(from, rs)[k])}
<1>2. \A a, b : IsAccept(Accept(a, b))
      BY DEF Accept
<1>3. T = {}
  <2>1. SUFFICES ASSUME NEW k \in T, \A j \in T : k <= j PROVE FALSE
    <3> HIDE DEF T
    <3>1. T \subseteq Nat
          BY DEF T
    <3> QED BY <3>1, FirstPlace
  <2> HIDE DEF IsAccept
  <2>2. CASE k = 0
        BY <1>2, <2>1, <2>2, TogetherEquation
  <2>3. CASE k # 0
    <3>1. IsAccept(Together(from, rs)[k - 1])
          BY <2>1, <2>3
    <3>2. IsAccept(Together(from, rs)[k])
          BY <1>2, <2>1, <2>3, <3>1, TogetherEquation
    <3> QED BY <2>1, <3>2
  <2> QED BY <2>2, <2>3
<1> QED BY <1>1, <1>3

LEMMA OutcomeCases ==
  ASSUME NEW t, NEW rs
  PROVE  /\ Kind(t) \in LeafKinds => Outcome(t, rs) = LeafResult(t)
         /\ Kind(t) \in LoopKinds /\ EntryFails(t) => Outcome(t, rs) = Error
         /\ Kind(t) \in LoopKinds /\ ~EntryFails(t) /\ Refuses(t) => Outcome(t, rs) = Reject
         /\ Kind(t) \in LoopKinds /\ Open(t) => Outcome(t, rs) = LoopOutcome(t, rs)
         /\ Kind(t) = "defs" => Outcome(t, rs) = rs[1]
         /\ Kind(t) = "ref" => Outcome(t, rs) = IF DOMAIN rs = {} THEN Reject ELSE rs[1]
         /\ Kind(t) = "class" => Outcome(t, rs) = ClassOutcome(t, rs)
<1> DEFINE leaf == LeafResult(t)
           loop == IF EntryFails(t) THEN Error
                   ELSE IF Refuses(t) THEN Reject ELSE LoopOutcome(t, rs)
           ref == IF DOMAIN rs = {} THEN Reject ELSE rs[1]
           class == ClassOutcome(t, rs)
           one == rs[1]
<1>1. Outcome(t, rs) =
        CASE Kind(t) \in LeafKinds -> leaf [] Kind(t) \in LoopKinds -> loop
          [] Kind(t) = "defs" -> one [] Kind(t) = "ref" -> ref [] OTHER -> class
      BY DEF Outcome
<1>2. /\ Kind(t) \in LeafKinds => Kind(t) \notin LoopKinds
                                  /\ Kind(t) \notin {"ref", "defs", "class"}
      /\ Kind(t) \in {"ref", "defs", "class"} => Kind(t) \notin LoopKinds \cup LeafKinds
      BY KindsApart
<1> HIDE DEF leaf, loop, ref, class, one
<1>3. Kind(t) \in LeafKinds => Outcome(t, rs) = leaf
      BY <1>1, <1>2
<1>4. Kind(t) \in LoopKinds => Outcome(t, rs) = loop
      BY <1>1, <1>2
<1>5. Kind(t) = "defs" => Outcome(t, rs) = one
      BY <1>1, <1>2
<1>6. Kind(t) = "ref" => Outcome(t, rs) = ref
      BY <1>1, <1>2
<1>7. Kind(t) = "class" => Outcome(t, rs) = class
      BY <1>1, <1>2
<1>8. /\ EntryFails(t) => loop = Error
      /\ ~EntryFails(t) /\ Refuses(t) => loop = Reject
      /\ Open(t) /\ Kind(t) \in LoopKinds => loop = LoopOutcome(t, rs)
      BY DEF loop, Open
<1> QED BY <1>3, <1>4, <1>5, <1>6, <1>7, <1>8 DEF leaf, ref, class, one

LEMMA LoopOutcomeCases ==
  ASSUME NEW t, NEW rs
  PROVE  LET out == LoopOutcome(t, rs) IN
         /\ Kind(t) = "and" =>
              out = Every(IF Kids(t) = <<>> THEN 0 ELSE 10, rs, LoopLen(t))
         /\ Kind(t) = "list"   => out = Every(20, rs, Looked(t, rs))
         /\ Kind(t) = "repeat" => out = RepeatOutcome(t, rs)
         /\ Kind(t) = "table"  => out = TableOutcome(t, rs)
         /\ Kind(t) = "fields" => out = FieldsOutcome(t, rs)
         /\ Kind(t) = "cell"   => out = CellOutcome(t, rs)
         /\ Kind(t) = "row"    => out = RowOutcome(t, rs)
         /\ Kind(t) \in AnyKinds => out = OrOutcome(t, rs)
         /\ Kind(t) = "best"   => out = BestOutcome(t, rs)
         /\ Kind(t) = "not"    => out = NotOutcome(t, rs[1])
         /\ Kind(t) = "capture" => out = With(rs[1], Node[t.shape].name, t.expr, 0)
         /\ Kind(t) \in {"effectful", "pratt"} => out = rs[1]
<1> DEFINE out == LoopOutcome(t, rs)
           and == Every(IF Kids(t) = <<>> THEN 0 ELSE 10, rs, LoopLen(t))
           list == Every(20, rs, Looked(t, rs))
           repeat == RepeatOutcome(t, rs)
           table == TableOutcome(t, rs)
           fields == FieldsOutcome(t, rs)
           cell == CellOutcome(t, rs)
           row == RowOutcome(t, rs)
           or == OrOutcome(t, rs)
           best == BestOutcome(t, rs)
           not == NotOutcome(t, rs[1])
           capture == With(rs[1], Node[t.shape].name, t.expr, 0)
           one == rs[1]
<1>1. out = CASE Kind(t) = "and" -> and [] Kind(t) = "list" -> list
              [] Kind(t) = "repeat" -> repeat [] Kind(t) = "table" -> table
              [] Kind(t) = "fields" -> fields [] Kind(t) = "cell" -> cell
              [] Kind(t) = "row" -> row [] Kind(t) \in AnyKinds -> or
              [] Kind(t) = "best" -> best [] Kind(t) = "not" -> not
              [] Kind(t) = "capture" -> capture [] OTHER -> one
      BY DEF LoopOutcome, Kind, Kids
<1> HIDE DEF out, and, list, repeat, table, fields, cell, row, or, best, not, capture, one
<1>2. AnyKinds = {"or", "oneOf"}
      BY DEF AnyKinds
<1>3. /\ Kind(t) = "and" => out = and
      /\ Kind(t) = "list" => out = list
      /\ Kind(t) = "repeat" => out = repeat
      /\ Kind(t) = "table" => out = table
      BY <1>1, <1>2
<1>4. /\ Kind(t) = "fields" => out = fields
      /\ Kind(t) = "cell" => out = cell
      /\ Kind(t) = "row" => out = row
      /\ Kind(t) \in AnyKinds => out = or
      BY <1>1, <1>2
<1>5. /\ Kind(t) = "best" => out = best
      /\ Kind(t) = "not" => out = not
      /\ Kind(t) = "capture" => out = capture
      /\ Kind(t) \in {"effectful", "pratt"} => out = one
      BY <1>1, <1>2
<1> QED BY <1>3, <1>4, <1>5 DEF out, and, list, repeat, table, fields, cell, row, or, best,
                                not, capture, one

-----------------------------------------------------------------------------
(* Every question has an answer.                                           *)

Decided(r) == r.st \in {"accept", "reject", "error"} /\ r.score \in Nat

LEMMA DecidedBasics ==
  /\ Decided(Reject) /\ Decided(Error) /\ \A n \in Nat : \A c : Decided(Accept(n, c))
  /\ \A r, name, e, k : /\ With(r, name, e, k).st = r.st
                        /\ Decided(r) => Decided(With(r, name, e, k))
<1>1. Decided(Reject) /\ Decided(Error) /\ \A n \in Nat : \A c : Decided(Accept(n, c))
      BY DEF Decided, Reject, Error, Accept
<1>2. ASSUME NEW r, NEW name, NEW e, NEW k
      PROVE  /\ With(r, name, e, k).st = r.st
             /\ Decided(r) => Decided(With(r, name, e, k))
      BY DEF With, Accept, Decided
<1> QED BY <1>1, <1>2

LEMMA EveryDecided ==
  ASSUME NEW from \in Nat, NEW rs, DOMAIN rs \subseteq Nat, NEW n \in Nat,
         \A i \in DOMAIN rs : Decided(rs[i])
  PROVE  /\ Decided(Every(from, rs, n))
         /\ Every(from, rs, n).st = "accept" =>
              \A i \in DOMAIN rs : i <= n => rs[i].st = "accept"
<1> DEFINE bad == {i \in DOMAIN rs : i <= n /\ rs[i].st # "accept"}
           all == Together(from, rs)
<1>1. Every(from, rs, n) = IF bad # {} THEN rs[Min(bad)] ELSE all[n]
      BY DEF Every
<1>2. CASE bad # {}
  <2>1. bad \in SUBSET Nat
        OBVIOUS
  <2>2. Min(bad) \in bad
    <3> HIDE DEF bad
    <3> QED BY <1>2, <2>1, MinIs
  <2>3. Decided(rs[Min(bad)]) /\ rs[Min(bad)].st # "accept"
        BY <2>2
  <2> HIDE DEF bad
  <2> QED BY <1>1, <1>2, <2>3
<1>3. CASE bad = {}
  <2>1. \A i \in DOMAIN rs : i <= n => rs[i].st = "accept"
        BY <1>3
  <2> DEFINE wrong == {k \in Nat : k <= n /\ ~Decided(all[k])}
  <2> HIDE DEF bad, all
  <2>2. wrong = {}
    <3>1. SUFFICES ASSUME NEW k \in wrong, \A j \in wrong : k <= j PROVE FALSE
      <4> HIDE DEF wrong
      <4>1. wrong \subseteq Nat
            BY DEF wrong
      <4> QED BY <4>1, FirstPlace
    <3>2. k \in Nat /\ k <= n /\ ~Decided(all[k])
          OBVIOUS
    <3>3. CASE k = 0
          BY <3>2, <3>3, TogetherEquation, DecidedBasics DEF all
    <3>4. CASE k # 0
      <4>1. k - 1 \in Nat /\ k - 1 <= n /\ ~(k <= k - 1)
            BY <3>2, <3>4
      <4>2. Decided(all[k - 1])
            BY <3>1, <4>1
      <4>3. all[k] = IF k \notin DOMAIN rs THEN all[k - 1]
                     ELSE Accept(all[k - 1].score + rs[k].score, all[k - 1].caps \o rs[k].caps)
            BY <3>2, <3>4, TogetherEquation DEF all
      <4>4. CASE k \in DOMAIN rs
        <5>1. all[k - 1].score \in Nat /\ rs[k].score \in Nat
              BY <4>2, <4>4 DEF Decided
        <5>2. all[k - 1].score + rs[k].score \in Nat
              BY <5>1
        <5> QED BY <3>2, <4>3, <4>4, <5>2, DecidedBasics
      <4> QED BY <3>2, <4>2, <4>3, <4>4
    <3> QED BY <3>3, <3>4
  <2>3. Decided(all[n])
        BY <2>2 DEF wrong
  <2> QED BY <1>1, <1>3, <2>1, <2>3
<1> QED BY <1>2, <1>3

(* Of children none of which rejects, all together do not reject.          *)
LEMMA EveryUnrejected ==
  ASSUME NEW from, NEW rs, DOMAIN rs \subseteq Nat, NEW n \in Nat,
         \A i \in DOMAIN rs : i <= n => rs[i].st # "reject"
  PROVE  Every(from, rs, n).st # "reject"
<1> DEFINE bad == {i \in DOMAIN rs : i <= n /\ rs[i].st # "accept"}
<1>1. CASE bad # {}
  <2>1. bad \in SUBSET Nat
        OBVIOUS
  <2>2. Min(bad) \in bad
    <3> HIDE DEF bad
    <3> QED BY <1>1, <2>1, MinIs
  <2>3. rs[Min(bad)].st # "reject"
        BY <2>2
  <2>4. Every(from, rs, n) = IF bad # {} THEN rs[Min(bad)] ELSE Together(from, rs)[n]
        BY DEF Every
  <2> HIDE DEF bad
  <2> QED BY <1>1, <2>3, <2>4
<1>2. CASE bad = {}
  <2>1. \A i \in DOMAIN rs : i <= n => rs[i].st = "accept"
        BY <1>2
  <2> DEFINE all == Together(from, rs)[n]
  <2>2. Every(from, rs, n) = all /\ all = Accept(all.score, all.caps)
        BY <2>1, EveryGood
  <2> HIDE DEF all
  <2>3. Accept(all.score, all.caps).st = "accept"
        BY DEF Accept
  <2> QED BY <2>2, <2>3
<1> QED BY <1>1, <1>2

(* A branch that does not reject keeps a choice from rejecting.            *)
LEMMA OrUnrejected ==
  ASSUME NEW t, NEW rs, DOMAIN rs \subseteq Nat, NEW i \in DOMAIN rs, rs[i].st # "reject"
  PROVE  OrOutcome(t, rs).st # "reject"
<1>1. Deciding(rs) # {} /\ Deciding(rs) \in SUBSET Nat
      BY DEF Deciding
<1>2. Min(Deciding(rs)) \in Deciding(rs)
      BY <1>1, MinIs
<1>3. rs[Min(Deciding(rs))].st # "reject"
      BY <1>2 DEF Deciding
<1> QED BY <1>1, <1>3, DecidedBasics DEF OrOutcome

LEMMA BestUnrejected ==
  ASSUME NEW t, NEW n \in Nat, NEW rs, DOMAIN rs \subseteq 1..n,
         \A j \in DOMAIN rs : Decided(rs[j]),
         NEW i \in DOMAIN rs, rs[i].st # "reject"
  PROVE  BestOutcome(t, rs).st # "reject"
<1> DEFINE good == {j \in DOMAIN rs : rs[j].st = "accept"}
           wrong == {k \in Nat : /\ \E j \in good : j <= k
                                 /\ ~\E b \in good : /\ b <= k
                                                     /\ \A c \in good : c <= k =>
                                                          rs[c].score <= rs[b].score}
<1>1. \A j \in DOMAIN rs : j \in Nat /\ j # 0 /\ j <= n
  <2>1. \A j \in 1..n : j \in Nat /\ j # 0 /\ j <= n
        OBVIOUS
  <2> QED BY <2>1
<1>2. CASE \E j \in DOMAIN rs : rs[j].st = "error"
      BY <1>2 DEF BestOutcome, Error
<1>3. CASE ~\E j \in DOMAIN rs : rs[j].st = "error"
  <2>1. i \in good
        BY <1>3 DEF Decided
  <2>2. \A j \in good : j \in Nat /\ j # 0 /\ j <= n /\ rs[j].score \in Nat
        BY <1>1 DEF Decided
  <2> HIDE DEF good
  <2>3. wrong = {}
    <3>1. SUFFICES ASSUME NEW k \in wrong, \A j \in wrong : k <= j PROVE FALSE
      <4> HIDE DEF wrong
      <4>1. wrong \subseteq Nat
            BY DEF wrong
      <4> QED BY <4>1, FirstPlace
    <3>2. k \in Nat /\ (\E j \in good : j <= k)
          OBVIOUS
    <3>3. ASSUME NEW b \in good, b <= k, \A c \in good : c <= k => rs[c].score <= rs[b].score
          PROVE  FALSE
          BY <3>3
    <3>4. k - 1 \in Nat /\ ~(k <= k - 1)
          BY <2>2, <3>2
    <3>5. k - 1 \notin wrong
          BY <3>1, <3>4
    <3> HIDE DEF wrong
    <3>6. CASE \E j \in good : j <= k - 1
      <4>1. PICK b \in good : b <= k - 1 /\ \A c \in good : c <= k - 1 => rs[c].score <= rs[b].score
            BY <3>4, <3>5, <3>6 DEF wrong
      <4>2. b <= k /\ \A c \in good : c <= k => c <= k - 1 \/ c = k
            BY <2>2, <3>2, <4>1
      <4>3. CASE k \in good /\ rs[b].score < rs[k].score
        <5>1. \A c \in good : c <= k => rs[c].score <= rs[k].score
              BY <2>2, <4>1, <4>2, <4>3
        <5> QED BY <3>2, <3>3, <4>3, <5>1
      <4>4. CASE ~(k \in good /\ rs[b].score < rs[k].score)
        <5>1. \A c \in good : c <= k => rs[c].score <= rs[b].score
              BY <2>2, <4>1, <4>2, <4>4
        <5> QED BY <3>3, <4>2, <5>1
      <4> QED BY <4>3, <4>4
    <3>7. CASE ~\E j \in good : j <= k - 1
      <4>1. PICK j \in good : j <= k
            BY <3>2
      <4>2. \A c \in good : c <= k => c = k
            BY <2>2, <3>2, <3>7
      <4>3. j = k /\ \A c \in good : c <= k => rs[c].score <= rs[j].score
            BY <2>2, <4>1, <4>2
      <4> QED BY <3>3, <4>1, <4>3
    <3> QED BY <3>6, <3>7
  <2>4. PICK b \in good : \A c \in good : c <= n => rs[c].score <= rs[b].score
        BY <2>1, <2>2, <2>3
  <2>5. b \in Best(rs)
        BY <2>2, <2>4 DEF Best, good
  <2>6. Best(rs) # {} /\ Best(rs) \in SUBSET Nat
        BY <1>1, <2>5 DEF Best
  <2>7. rs[Min(Best(rs))].st = "accept"
    <3>1. Min(Best(rs)) \in Best(rs)
          BY <2>6, MinIs
    <3> QED BY <3>1 DEF Best
  <2>8. BestOutcome(t, rs) =
          With(rs[Min(Best(rs))], "branch-index", t.expr, Min(Best(rs)))
        BY <1>3, <2>6 DEF BestOutcome
  <2> QED BY <2>7, <2>8, DecidedBasics
<1> QED BY <1>2, <1>3

LEMMA SimpleDecided ==
  ASSUME NEW t
  PROVE  Decided(LeafResult(t)) /\ Decided(ClassDirect(t))
<1>1. Decided(Reject) /\ Decided(Error) /\ \A n \in Nat : Decided(Accept(n, <<>>))
      BY DecidedBasics
<1>2. \A b, n : n \in Nat => Decided(Verdict(b, n))
      BY DecidedBasics DEF Verdict
<1>3. Decided(LeafResult(t))
  <2>1. CASE Kind(t) \in {"any", "exprKind", "exact"}
        BY <1>1, <1>2, <2>1 DEF LeafResult
  <2>2. CASE Kind(t) \in {"number", "record"}
        BY <1>1, <1>2, <2>2 DEF LeafResult
  <2>3. CASE Kind(t) \notin {"any", "exprKind", "exact", "number", "record"}
        BY <1>1, <2>3 DEF LeafResult
  <2> QED BY <2>1, <2>2, <2>3
<1>4. Decided(ClassDirect(t))
  <2>1. CASE t.path = "value"
        BY <1>2, <2>1 DEF ClassDirect
  <2>2. CASE t.path # "value"
        BY <1>1, <1>2, <2>2 DEF ClassDirect
  <2> QED BY <2>1, <2>2
<1> QED BY <1>3, <1>4

(* How far a list is looked at: to its end, or to an element of the tail   *)
(* when the tail's shape is total.                                         *)
LEMMA LookedFar ==
  ASSUME NEW t \in Task, NEW rs, DOMAIN rs \subseteq Nat
  PROVE  \/ Looked(t, rs) = LoopLen(t)
         \/ /\ Looked(t, rs) \in DOMAIN rs /\ Looked(t, rs) > Len(Kids(t))
            /\ Total[Node[t.shape].rest]
<1> USE GraphAssumption
<1> DEFINE unbound == {i \in DOMAIN rs : i > Len(Kids(t)) /\ rs[i].st = "accept" /\ rs[i].caps = <<>>}
<1>1. Looked(t, rs) = IF t.path = "value" /\ unbound # {} /\ Total[Node[t.shape].rest]
                      THEN Min(unbound) ELSE LoopLen(t)
      BY DEF Looked
<1>2. unbound \in SUBSET Nat
      OBVIOUS
<1>3. unbound # {} => Min(unbound) \in unbound
  <2> HIDE DEF unbound
  <2> QED BY <1>2, MinIs
<1>4. unbound # {} => Min(unbound) \in DOMAIN rs /\ Min(unbound) > Len(Kids(t))
      BY <1>3
<1> HIDE DEF unbound
<1> QED BY <1>1, <1>4

LEMMA OutcomeDecided ==
  ASSUME NEW q \in Question, NEW rs, DOMAIN rs = Places(q),
         \A i \in DOMAIN rs : Decided(rs[i])
  PROVE  Decided(Outcome(q.task, rs))
<1> USE GraphAssumption
<1> DEFINE t == q.task
<1>1. /\ t \in Task /\ DOMAIN rs \subseteq Nat /\ DOMAIN rs \subseteq Nat \ {0}
      /\ Len(Kids(t)) \in Nat
  <2>1. t \in Task
        BY CostTyped
  <2>2. DOMAIN rs \subseteq Nat \ {0}
        BY PlacesTyped
  <2> QED BY <2>1, <2>2, PartsTyped
<1> HIDE DEF t
<1>2. CASE Kind(t) \in LeafKinds
      BY <1>2, SimpleDecided, OutcomeCases DEF t
<1>3. CASE Kind(t) = "defs"
  <2>1. 1 \in DOMAIN rs
        BY <1>3, PlacesCases DEF t
  <2> QED BY <1>3, <2>1, OutcomeCases DEF t
<1>4. CASE Kind(t) = "ref"
  <2>1. Places(q) \subseteq {1}
        BY <1>4, PlacesCases DEF t
  <2>2. DOMAIN rs # {} => 1 \in DOMAIN rs
        BY <2>1
  <2> QED BY <1>4, <2>2, OutcomeCases, DecidedBasics DEF t
<1>5. CASE Kind(t) = "class"
  <2>1. Places(q) \subseteq {1}
        BY <1>5, PlacesCases DEF t
  <2>2. DOMAIN rs # {} => 1 \in DOMAIN rs
        BY <2>1
  <2>3. Decided(ClassOutcome(t, rs))
        BY <2>2, SimpleDecided, DecidedBasics DEF ClassOutcome
  <2> QED BY <1>5, <2>3, OutcomeCases DEF t
<1>6. CASE Kind(t) \in LoopKinds /\ ~Open(t)
  <2>1. EntryFails(t) \/ Refuses(t)
        BY <1>6 DEF Open
  <2> QED BY <1>6, <2>1, OutcomeCases, DecidedBasics DEF t
<1>7. CASE Kind(t) \in LoopKinds /\ Open(t)
  <2>1. Outcome(t, rs) = LoopOutcome(t, rs) /\ LoopLen(t) \in Nat
        BY <1>1, <1>7, OutcomeCases, LoopLenTyped
  <2>2. \A from, n \in Nat : Decided(Every(from, rs, n))
        BY <1>1, EveryDecided
  <2>3. \A r, name, e, k : Decided(r) => Decided(With(r, name, e, k))
        BY DecidedBasics
  <2>4. CASE Kind(t) = "and"
    <3>1. (IF Kids(t) = <<>> THEN 0 ELSE 10) \in Nat
          OBVIOUS
    <3> QED BY <2>1, <2>2, <2>4, <3>1, LoopOutcomeCases DEF t
  <2>5. CASE Kind(t) = "list"
    <3>1. Looked(t, rs) \in Nat
          BY <1>1, <2>1, LookedFar
    <3> QED BY <2>1, <2>2, <2>5, <3>1, LoopOutcomeCases DEF t
  <2>6. CASE Kind(t) = "repeat"
    <3>1. Decided(RepeatOutcome(t, rs))
          BY <2>1, <2>2, <2>3, DecidedBasics DEF RepeatOutcome
    <3> QED BY <2>1, <2>6, <3>1, LoopOutcomeCases DEF t
  <2>7. CASE Kind(t) = "table"
    <3>1. Decided(TableOutcome(t, rs))
          BY <1>1, <2>1, <2>2, <2>3, DecidedBasics DEF TableOutcome
    <3> QED BY <2>1, <2>7, <3>1, LoopOutcomeCases DEF t
  <2>8. CASE Kind(t) = "fields"
    <3>1. Absent(t) # {} => Min(Absent(t)) - 1 \in Nat
      <4>1. Absent(t) \in SUBSET Nat /\ \A i \in Absent(t) : i \in Nat /\ i # 0
        <5>1. DOMAIN Kids(t) = 1..Len(Kids(t))
              BY <1>1, PartsTyped, LenProperties
        <5>2. \A i \in 1..Len(Kids(t)) : i \in Nat /\ i # 0
              BY <1>1
        <5> QED BY <5>1, <5>2 DEF Absent
      <4>2. Absent(t) # {} => Min(Absent(t)) \in Absent(t)
            BY <4>1, MinIs
      <4> QED BY <4>1, <4>2
    <3>2. \A r : Decided(r) => Decided(Failing(r))
          BY DecidedBasics DEF Failing
    <3>3. Decided(FieldsOutcome(t, rs))
          BY <2>1, <2>2, <3>1, <3>2 DEF FieldsOutcome
    <3> QED BY <2>1, <2>8, <3>3, LoopOutcomeCases DEF t
  <2>9. CASE Kind(t) = "cell"
    <3>1. Decided(CellOutcome(t, rs))
          BY <2>2, <2>3, DecidedBasics DEF CellOutcome
    <3> QED BY <2>1, <2>9, <3>1, LoopOutcomeCases DEF t
  <2>10. CASE Kind(t) = "row"
    <3>1. Decided(RowOutcome(t, rs))
          BY <2>1, <2>2, DecidedBasics DEF RowOutcome
    <3> QED BY <2>1, <2>10, <3>1, LoopOutcomeCases DEF t
  <2>11. CASE Kind(t) \in AnyKinds
    <3>1. Deciding(rs) # {} => Min(Deciding(rs)) \in DOMAIN rs
      <4>1. Deciding(rs) \in SUBSET Nat /\ Deciding(rs) \subseteq DOMAIN rs
            BY <1>1 DEF Deciding
      <4> QED BY <4>1, MinIs
    <3>2. Decided(OrOutcome(t, rs))
          BY <2>3, <3>1, DecidedBasics DEF OrOutcome
    <3> QED BY <2>1, <2>11, <3>2, LoopOutcomeCases DEF t
  <2>12. CASE Kind(t) = "best"
    <3>1. Best(rs) # {} => Min(Best(rs)) \in DOMAIN rs
      <4>1. Best(rs) \in SUBSET Nat /\ Best(rs) \subseteq DOMAIN rs
            BY <1>1 DEF Best
      <4> QED BY <4>1, MinIs
    <3>2. Decided(BestOutcome(t, rs))
          BY <2>3, <3>1, DecidedBasics DEF BestOutcome
    <3> QED BY <2>1, <2>12, <3>2, LoopOutcomeCases DEF t
  <2>13. CASE Kind(t) \in WrapKinds \cup {"not"}
    <3>1. 1 \in DOMAIN rs
      <4>1. LoopLen(t) = 1 /\ Child(t, 1) # None
            BY <1>1, <1>7, <2>13, WrapperAsks
      <4> QED BY <1>7, <4>1, PlacesCases DEF t
    <3>2. Decided(rs[1])
          BY <3>1
    <3>3. Decided(NotOutcome(t, rs[1]))
      <4>1. Decided(Accept(10, <<>>))
            BY DecidedBasics
      <4> QED BY <2>3, <4>1, DecidedBasics DEF NotOutcome
    <3> QED BY <2>1, <2>3, <2>13, <3>2, <3>3, LoopOutcomeCases DEF t, WrapKinds
  <2> QED BY <1>7, <2>4, <2>5, <2>6, <2>7, <2>8, <2>9, <2>10, <2>11, <2>12, <2>13
          DEF t, LoopKinds, AllKinds
<1> QED
  <2>1. Kind(t) \in LeafKinds \cup LoopKinds \cup {"ref", "defs", "class"}
    <3>1. Kind(t) \in Kinds
          BY <1>1, GraphTyped DEF NodeType, Kind
    <3> QED BY <3>1 DEF Kinds
  <2> QED BY <1>2, <1>3, <1>4, <1>5, <1>6, <1>7, <2>1

LEMMA MeaningDecided ==
  ASSUME NEW q \in Question
  PROVE  Decided(Meaning[q])
<1> USE GraphAssumption
<1> DEFINE wrong == {n \in Nat : \E x \in Question : Cost(x) = n /\ ~Decided(Meaning[x])}
<1>1. ASSUME NEW x \in Question, \A y \in Question : Cost(y) < Cost(x) => Decided(Meaning[y])
      PROVE  Decided(Meaning[x])
  <2> DEFINE rs == [i \in Places(x) |-> Meaning[Part(x, i)]]
  <2>1. \A i \in Places(x) : Part(x, i) \in Question /\ Cost(Part(x, i)) < Cost(x)
        BY PartCheaper
  <2>2. DOMAIN rs = Places(x) /\ \A i \in DOMAIN rs : Decided(rs[i])
        BY <1>1, <2>1
  <2>3. Meaning[x] = Outcome(x.task, rs)
        BY MeaningEquation
  <2> HIDE DEF rs
  <2> QED BY <2>2, <2>3, OutcomeDecided
<1>2. wrong = {}
  <2>1. SUFFICES ASSUME NEW n \in wrong, \A m \in wrong : n <= m PROVE FALSE
    <3> HIDE DEF wrong
    <3>1. wrong \subseteq Nat
          BY DEF wrong
    <3> QED BY <3>1, FirstPlace
  <2>2. PICK x \in Question : Cost(x) = n /\ ~Decided(Meaning[x])
        OBVIOUS
  <2>3. \A y \in Question : Cost(y) < Cost(x) => Decided(Meaning[y])
    <3> TAKE y \in Question
    <3>1. Cost(y) \in Nat /\ n \in Nat
          BY CostTyped
    <3> QED BY <2>1, <2>2, <3>1
  <2> QED BY <1>1, <2>2, <2>3
<1>3. Cost(q) \in Nat
      BY CostTyped
<1> QED BY <1>2, <1>3
=============================================================================
