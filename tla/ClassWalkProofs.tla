--------------------------- MODULE ClassWalkProofs --------------------------
(***************************************************************************)
(* Proofs about ClassWalk, for every set of classes and every hierarchy.   *)
(*                                                                         *)
(* "Above" quantifies over the sets of classes that are closed under the   *)
(* parents, so that no induction over paths is needed.  A walk stays       *)
(* inside every such set that holds its start: what it finds is above.  A  *)
(* visited class either has a call still at work on its parents, or all of *)
(* them are visited: when the last call is done the visited set itself is  *)
(* closed, and it never holds what is looked for.                          *)
(***************************************************************************)
EXTENDS ClassWalk, SequenceTheorems, TLAPS

Call == [class: Class, next: Nat \ {0}]

(* The class this walk began with.                                         *)
Start == IF edge = 0 THEN child ELSE parents[child][edge]

(* Between walks no call is active; inside one there is a class to enter   *)
(* or a call to go on with, and the first call enters the first class.     *)
Between ==
  /\ phase = "ask" => enter = None /\ stack = <<>>
  /\ phase = "walk" /\ stack = <<>> => visited = {}
  /\ phase = "walk" /\ enter = None => stack # <<>>
  /\ phase # "done" => result = "none"

Purpose ==
  /\ edge > 0 => goal = child
  /\ phase = "walk" => goal # None /\ Start \in Class /\ (edge > 0 => edge <= Len(parents[child]))
  /\ result = "reported" => edge > Len(parents[child])

(* The walk sees only what is above its start.                             *)
Within == phase = "walk" =>
  \A S \in SUBSET Class :
    Start \in S /\ ParentClosed(S) => visited \subseteq S /\ enter \in S \cup {None}

(* The first parents of a class, up to the n-th, have been seen.           *)
Seen(c, n) ==
  \A i \in 1..Len(parents[c]) : i < n => parents[c][i] \in visited \cup {enter, None}

Active(c) == \E j \in 1..Len(stack) : stack[j].class = c
AllSeen == phase = "walk" =>
  /\ goal \notin visited
  /\ Start \in visited \cup {enter}
  /\ \A j \in 1..Len(stack) : Seen(stack[j].class, stack[j].next)
  /\ \A c \in visited : Active(c) \/ Seen(c, Len(parents[c]) + 1)

Marked == \A j \in 1..Len(stack) : stack[j].class \in visited

KeptSoFar == edge > 0 =>
  kept = {i \in 1..Len(parents[child]) :
            i < edge /\ parents[child][i] # None /\ ~LeadsBack(i)}

Inv ==
  /\ TypeOK /\ Between /\ Purpose /\ Within /\ AllSeen /\ Marked /\ WalkedOnce
  /\ KeptSoFar /\ AnswerIsAbove

-----------------------------------------------------------------------------
(* What every state has: lists of parents that are classes or no classes.  *)
LEMMA ParentsTyped ==
  ASSUME WalkAssumption, TypeOK
  PROVE  \A c \in Class : /\ parents[c] \in Seq(Class \cup {None}) /\ Len(parents[c]) \in Nat
                          /\ \A i \in 1..Len(parents[c]) : parents[c][i] \in Class \cup {None}
<1>1. parents \in [Class -> Seq(Class \cup {None})]
  BY DEF WalkAssumption, TypeOK
<1>2. TAKE c \in Class
<1>3. parents[c] \in Seq(Class \cup {None})
  BY <1>1
<1>4. QED
  BY <1>3, ElementOfSeq, LenProperties

(* Every call is at one of its class's parents, or past them.              *)
LEMMA PlacesTyped ==
  ASSUME TypeOK, NEW j \in 1..Len(stack)
  PROVE  stack[j].next <= Len(parents[stack[j].class]) + 1
BY DEF TypeOK

(* The top call of a walk is typed.                                        *)
LEMMA TopTyped ==
  ASSUME TypeOK, stack # <<>>
  PROVE  /\ Len(stack) \in Nat \ {0} /\ Top \in Call
         /\ Top.class \in Class /\ Top.next \in Nat \ {0}
         /\ Top.next <= Len(parents[Top.class]) + 1
<1>1. stack \in Seq(Call)
  BY DEF TypeOK, Call
<1>2. Len(stack) \in Nat \ {0}
  BY <1>1, EmptySeq
<1>3. Top \in Call
  BY <1>1, <1>2, ElementOfSeq DEF Top
<1>4. QED
  BY <1>2, <1>3 DEF TypeOK, Top, Call

(* Backtracking removes the top call and leaves the others.                *)
LEMMA PopTyped ==
  ASSUME TypeOK, stack # <<>>, stack' = Pop(stack)
  PROVE  /\ stack' \in Seq(Call) /\ Len(stack') = Len(stack) - 1
         /\ \A j \in 1..Len(stack') : stack'[j] = stack[j]
<1>1. stack \in Seq(Call) /\ Len(stack) \in Nat \ {0}
  BY TopTyped DEF TypeOK, Call
<1>2. \A j \in 1..Len(stack) : stack[j] \in Call
  BY <1>1, ElementOfSeq
<1> DEFINE n == Len(stack) - 1
<1>3. n \in Nat /\ 1 \in Int /\ \A j \in 1..n : stack[j] \in Call
  BY <1>1, <1>2
<1> HIDE DEF n
<1>4. /\ SubSeq(stack, 1, n) \in Seq(Call)
      /\ Len(SubSeq(stack, 1, n)) = IF 1 <= n THEN n - 1 + 1 ELSE 0
      /\ \A j \in 1..(n - 1 + 1) : SubSeq(stack, 1, n)[j] = stack[1 + j - 1]
  BY <1>3, SubSeqProperties
<1>5. Len(SubSeq(stack, 1, n)) = n /\ \A j \in 1..n : SubSeq(stack, 1, n)[j] = stack[j]
  <2>1. \A j \in 1..n : j \in 1..(n - 1 + 1) /\ 1 + j - 1 = j
    BY <1>3
  <2>2. QED
    BY <1>3, <1>4, <2>1
<1>6. stack' = SubSeq(stack, 1, n)
  BY DEF Pop, n
<1>7. QED
  BY <1>4, <1>5, <1>6 DEF n

(* Opening a class puts a call at its first parent on top.                 *)
LEMMA PushTyped ==
  ASSUME TypeOK, NEW call \in Call, stack' = Append(stack, call)
  PROVE  /\ stack' \in Seq(Call) /\ Len(stack) \in Nat /\ Len(stack') = Len(stack) + 1
         /\ stack'[Len(stack) + 1] = call
         /\ \A j \in 1..Len(stack) : stack'[j] = stack[j]
<1>1. stack \in Seq(Call)
  BY DEF TypeOK, Call
<1>2. QED
  BY <1>1, AppendProperties, LenProperties

(* Going on to the next parent changes the place of the top call only.     *)
LEMMA GoOnTyped ==
  ASSUME TypeOK, stack # <<>>, GoTo(Top.next + 1)
  PROVE  /\ stack' \in Seq(Call) /\ Len(stack') = Len(stack)
         /\ \A j \in 1..Len(stack) :
              stack'[j] = IF j = Len(stack) THEN [class |-> Top.class, next |-> Top.next + 1]
                          ELSE stack[j]
<1> DEFINE f == [Top EXCEPT !.next = Top.next + 1]
<1>1. Top \in Call /\ Len(stack) \in Nat \ {0} /\ stack \in Seq(Call)
  BY TopTyped DEF TypeOK, Call
<1>2. f = [class |-> Top.class, next |-> Top.next + 1] /\ f \in Call
  BY <1>1 DEF Call
<1>3. stack' = [stack EXCEPT ![Len(stack)] = f]
  BY DEF GoTo, Top
<1> HIDE DEF f
<1>4. stack' \in Seq(Call) /\ Len(stack') = Len(stack)
      /\ \A j \in 1..Len(stack) : stack'[j] = IF j = Len(stack) THEN f ELSE stack[j]
  BY <1>1, <1>2, <1>3, ExceptSeq
<1>5. QED
  BY <1>2, <1>4

-----------------------------------------------------------------------------
(* What a walk finds is above its start.                                   *)
LEMMA FoundIsAbove ==
  ASSUME Inv, Found
  PROVE  Above(Start, goal)
<1>1. \A S \in SUBSET Class : Start \in S /\ ParentClosed(S) => goal \in S
  BY DEF Inv, Within, Found, Entering
<1>2. QED
  BY <1>1 DEF Above

(* When the last call is done the visited classes are closed under their   *)
(* parents, and what was looked for is not among them.                     *)
LEMMA ExhaustedIsNotAbove ==
  ASSUME WalkAssumption, Inv, Exhausted
  PROVE  ~Above(Start, goal)
<1>1. /\ phase = "walk" /\ enter = None /\ Len(stack) = 1 /\ stack # <<>> /\ TypeOK
      /\ Top.next > Len(parents[Top.class]) /\ Top = stack[1]
  BY DEF Exhausted, Tried, Inside, Inv, Between, Top
<1>2. visited \in SUBSET Class /\ goal \notin visited /\ Start \in visited
  <2>1. Start # None
    BY <1>1 DEF Inv, Purpose, WalkAssumption
  <2>2. QED
    BY <1>1, <2>1 DEF Inv, AllSeen, TypeOK
<1>3. ASSUME NEW c \in visited
      PROVE  \A i \in 1..Len(parents[c]) : parents[c][i] \in visited \cup {None}
  <2>1. c \in Class /\ Len(parents[c]) \in Nat
    BY <1>1, <1>2, ParentsTyped
  <2>2. CASE Active(c)
    <3>1. c = Top.class /\ Seen(c, Top.next)
      BY <1>1, <2>2 DEF Active, Inv, AllSeen
    <3>2. Top.next \in Nat
      BY <1>1, TopTyped
    <3>3. QED
      BY <1>1, <2>1, <3>1, <3>2 DEF Seen
  <2>3. CASE Seen(c, Len(parents[c]) + 1)
    BY <1>1, <2>1, <2>3 DEF Seen
  <2>4. QED
    BY <1>1, <2>2, <2>3 DEF Inv, AllSeen
<1>4. ParentClosed(visited)
  BY <1>2, <1>3 DEF ParentClosed, Parent, WalkAssumption
<1>5. QED
  BY <1>2, <1>4 DEF Above

-----------------------------------------------------------------------------
(* Types.                                                                  *)

(* A question starts well typed.                                           *)
LEMMA TypesInit == ASSUME WalkAssumption, Init PROVE TypeOK
<1>1. child \in Class /\ Len(parents[child]) \in Nat
  <2>1. parents[child] \in Seq(Class \cup {None})
    BY DEF Init, WalkAssumption
  <2>2. QED
    BY <2>1, LenProperties DEF Init
<1>2. stack \in Seq([class: Class, next: Nat \ {0}]) /\ Len(stack) = 0
  BY DEF Init
<1>3. edge \in 0..(Len(parents[child]) + 1) /\ goal \in Class \cup {None}
  BY <1>1 DEF Init
<1>4. QED
  BY <1>1, <1>2, <1>3 DEF Init, TypeOK

(* The end of a walk is well typed: its parent is kept or passed over.     *)
LEMMA ConcludeTyped ==
  ASSUME WalkAssumption, Inv, phase = "walk", NEW found \in BOOLEAN, Conclude(found)
  PROVE  TypeOK'
<1>1. TypeOK /\ child \in Class /\ Len(parents[child]) \in Nat
  BY ParentsTyped DEF Inv, TypeOK
<1>2. stack' \in Seq([class: Class, next: Nat \ {0}]) /\ Len(stack') = 0
  BY DEF Conclude
<1>3. UNCHANGED <<parents, child, goal, visited>> /\ enter' = None
  BY DEF Conclude, asked
<1>4. CASE edge = 0
  <2>1. result' = (IF found THEN "yes" ELSE "no") /\ phase' = "done"
        /\ edge' = edge /\ kept' = kept
    BY <1>4 DEF Conclude, Answer
  <2>2. result' \in {"yes", "no"}
    BY <2>1
  <2>3. QED
    BY <1>1, <1>2, <1>3, <2>1, <2>2 DEF TypeOK
<1>5. CASE edge # 0
  <2>1. edge \in 1..Len(parents[child])
    BY <1>1, <1>5 DEF TypeOK, Inv, Purpose
  <2>2. edge' = edge + 1 /\ phase' = "ask" /\ result' = result /\ kept' \subseteq kept \cup {edge}
    BY <1>5 DEF Conclude
  <2>3. QED
    BY <1>1, <1>2, <1>3, <2>1, <2>2 DEF TypeOK
<1>6. QED
  BY <1>4, <1>5

(* Every step keeps the state well typed.                                  *)
LEMMA TypesNext == ASSUME WalkAssumption, Inv, [Next]_vars PROVE TypeOK'
<1>1. TypeOK /\ child \in Class /\ Len(parents[child]) \in Nat
      /\ \A i \in 1..Len(parents[child]) : parents[child][i] \in Class \cup {None}
  BY ParentsTyped DEF Inv, TypeOK
<1>2. CASE UNCHANGED vars
  BY <1>1, <1>2 DEF vars, asked, TypeOK
<1>3. CASE NoGoal \/ EdgesFail \/ Reported \/ OpenFails
  BY <1>1, <1>3 DEF NoGoal, EdgesFail, Reported, OpenFails, Answer, asked, TypeOK
<1>4. CASE AskChild
  BY <1>1, <1>4 DEF AskChild, Begin, asked, TypeOK
<1>5. CASE SkipEdge
  BY <1>1, <1>5 DEF SkipEdge, Edges, asked, TypeOK
<1>6. CASE AskEdge
  <2>1. parents[child][edge] \in Class
    BY <1>1, <1>6 DEF AskEdge, Edges, TypeOK
  <2>2. QED
    BY <1>1, <1>6, <2>1 DEF AskEdge, Edges, Begin, asked, TypeOK
<1>7. CASE Found
  BY <1>7, ConcludeTyped DEF Found, Entering
<1>8. CASE Exhausted
  BY <1>8, ConcludeTyped DEF Exhausted, Tried, Inside
<1>9. CASE Repeated
  BY <1>1, <1>9 DEF Repeated, asked, TypeOK
<1>10. CASE Open
  <2> DEFINE f == [class |-> enter, next |-> 1]
  <2>1. enter \in Class
    BY <1>1, <1>10 DEF Open, New, Entering, TypeOK
  <2>2. f \in Call /\ f.class = enter /\ f.next = 1 /\ stack' = Append(stack, f)
    BY <1>10, <2>1 DEF Call, Open
  <2> HIDE DEF f
  <2>3. /\ stack' \in Seq(Call) /\ Len(stack) \in Nat /\ Len(stack') = Len(stack) + 1
        /\ stack'[Len(stack) + 1] = f
        /\ \A j \in 1..Len(stack) : stack'[j] = stack[j]
    BY <1>1, <2>2, PushTyped
  <2>4. Len(parents[enter]) \in Nat
    BY <1>1, <2>1, ParentsTyped
  <2>5. ASSUME NEW j \in 1..Len(stack') PROVE stack'[j].next <= Len(parents[stack'[j].class]) + 1
    <3>1. CASE j = Len(stack) + 1
      BY <2>2, <2>3, <2>4, <3>1
    <3>2. CASE j # Len(stack) + 1
      <4>1. j \in 1..Len(stack) /\ stack'[j] = stack[j]
        BY <2>3, <3>2
      <4>2. QED
        BY <1>1, <4>1, PlacesTyped
    <3>3. QED
      BY <3>1, <3>2
  <2>6. QED
    BY <1>1, <1>10, <2>1, <2>3, <2>5 DEF Open, asked, TypeOK, Call
<1>11. CASE SkipValue \/ Climb
  <2>1. /\ stack # <<>> /\ Top.next <= Len(parents[Top.class])
        /\ enter' = enter \/ enter' = NextParent
        /\ GoTo(Top.next + 1) /\ UNCHANGED <<asked, edge, phase, visited, kept, result>>
    BY <1>11 DEF SkipValue, Climb, More, Inside, Inv, Between
  <2>2. /\ Top.class \in Class /\ Top.next \in Nat \ {0}
    BY <1>1, <2>1, TopTyped
  <2>3. NextParent \in Class \cup {None} /\ Len(parents[Top.class]) \in Nat
    BY <1>1, <2>1, <2>2, ParentsTyped DEF NextParent
  <2>4. /\ stack' \in Seq(Call) /\ Len(stack') = Len(stack)
        /\ \A j \in 1..Len(stack) :
             stack'[j] = IF j = Len(stack) THEN [class |-> Top.class, next |-> Top.next + 1]
                         ELSE stack[j]
    BY <1>1, <2>1, GoOnTyped
  <2>5. ASSUME NEW j \in 1..Len(stack') PROVE stack'[j].next <= Len(parents[stack'[j].class]) + 1
    <3>1. CASE j = Len(stack)
      BY <2>1, <2>2, <2>3, <2>4, <3>1
    <3>2. CASE j # Len(stack)
      <4>1. j \in 1..Len(stack) /\ stack'[j] = stack[j]
        BY <2>4, <3>2
      <4>2. QED
        BY <1>1, <4>1, PlacesTyped
    <3>3. QED
      BY <3>1, <3>2
  <2>6. QED
    BY <1>1, <2>1, <2>3, <2>4, <2>5 DEF asked, TypeOK, Call
<1>12. CASE Backtrack
  <2>1. stack # <<>> /\ stack' = Pop(stack)
        /\ UNCHANGED <<asked, edge, phase, enter, visited, kept, result>>
    BY <1>12 DEF Backtrack, Tried, Inside, Inv, Between
  <2>2. /\ stack' \in Seq(Call) /\ Len(stack') = Len(stack) - 1 /\ Len(stack) \in Nat
        /\ \A j \in 1..Len(stack') : stack'[j] = stack[j]
    BY <1>1, <2>1, PopTyped, TopTyped
  <2>3. ASSUME NEW j \in 1..Len(stack') PROVE stack'[j].next <= Len(parents[stack'[j].class]) + 1
    <3>1. j \in 1..Len(stack) /\ stack'[j] = stack[j]
      BY <2>2
    <3>2. QED
      BY <1>1, <3>1, PlacesTyped
  <2>4. QED
    BY <1>1, <2>1, <2>2, <2>3 DEF asked, TypeOK, Call
<1>13. QED
  BY <1>2, <1>3, <1>4, <1>5, <1>6, <1>7, <1>8, <1>9, <1>10, <1>11, <1>12 DEF Next

-----------------------------------------------------------------------------
(* The invariant, step by step.                                            *)

(* The hierarchy does not change, and so neither does what is above what.  *)
LEMMA SameAbove ==
  ASSUME UNCHANGED asked
  PROVE  /\ \A d, c : Above(d, c)' <=> Above(d, c)
         /\ \A i : LeadsBack(i)' <=> LeadsBack(i)
         /\ \A S : ParentClosed(S)' <=> ParentClosed(S)
         /\ parents' = parents /\ child' = child /\ goal' = goal
<1>1. parents' = parents /\ child' = child /\ goal' = goal
  BY DEF asked
<1>2. \A c, d : Parent(c, d)' <=> Parent(c, d)
  BY <1>1 DEF Parent
<1>3. \A S : ParentClosed(S)' <=> ParentClosed(S)
  BY <1>2 DEF ParentClosed
<1>4. \A d, c : Above(d, c)' <=> Above(d, c)
  BY <1>3 DEF Above
<1>5. QED
  BY <1>1, <1>3, <1>4 DEF LeadsBack

(* Steps that ask about the same parent keep the account of those before.  *)
LEMMA SameKept ==
  ASSUME Inv, UNCHANGED <<asked, edge, kept>>
  PROVE  KeptSoFar'
<1>1. /\ parents' = parents /\ child' = child /\ edge' = edge /\ kept' = kept
      /\ \A i : LeadsBack(i)' <=> LeadsBack(i)
  BY SameAbove
<1>2. QED
  BY <1>1 DEF Inv, KeptSoFar

(* No walk is under way, before as after the step, or it is given up.      *)
LEMMA AskingKeeps ==
  ASSUME WalkAssumption, Inv, TypeOK', NoGoal \/ EdgesFail \/ Reported \/ OpenFails
  PROVE  Inv'
<1>1. /\ UNCHANGED <<asked, edge, enter, stack, visited, kept>> /\ phase' = "done"
      /\ result' \in {"no", "failed", "reported"}
      /\ result' = "no" => goal = None
      /\ result' = "reported" => edge > Len(parents[child])
  BY DEF NoGoal, EdgesFail, Reported, OpenFails, Answer, Edges
<1>2. parents' = parents /\ child' = child /\ goal' = goal
  BY <1>1 DEF asked
<1>3. Between' /\ Purpose' /\ Within' /\ AllSeen'
  BY <1>1, <1>2 DEF Between, Purpose, Within, AllSeen, Inv
<1>4. Marked' /\ WalkedOnce'
  BY <1>1 DEF Marked, WalkedOnce, Inv
<1>5. KeptSoFar'
  BY <1>1, SameKept
<1>6. AnswerIsAbove'
  <2>1. goal = None => ~Above(child, goal)
    <3>1. ParentClosed(Class) /\ child \in Class /\ None \notin Class
      BY DEF ParentClosed, WalkAssumption, Inv, TypeOK
    <3>2. QED
      BY <3>1 DEF Above
  <2>2. Above(child, goal)' <=> Above(child, goal)
    BY <1>1, <1>2, SameAbove
  <2>3. QED
    BY <1>1, <2>1, <2>2 DEF AnswerIsAbove
<1>7. QED
  BY <1>3, <1>4, <1>5, <1>6 DEF Inv

(* A walk begins with nothing seen and its start to enter.                 *)
LEMMA BeginKeeps ==
  ASSUME WalkAssumption, Inv, TypeOK', AskChild \/ AskEdge
  PROVE  Inv'
<1>1. /\ UNCHANGED <<asked, edge, stack, kept, result>> /\ phase' = "walk" /\ visited' = {}
      /\ phase = "ask" /\ enter' = Start /\ (edge > 0 => edge <= Len(parents[child]))
      /\ Start \in Class /\ goal # None
  <2>1. CASE AskChild
    BY <2>1 DEF AskChild, Begin, Start, Inv, TypeOK
  <2>2. CASE AskEdge
    <3>1. edge \in 1..Len(parents[child]) /\ edge # 0 /\ parents[child][edge] # None
      <4>1. Len(parents[child]) \in Nat
        BY ParentsTyped DEF Inv, TypeOK
      <4>2. edge \in Int /\ edge > 0 /\ edge <= Len(parents[child]) /\ parents[child][edge] # None
        <5>1. edge \in Int
          BY DEF Inv, TypeOK
        <5>2. QED
          BY <2>2, <5>1 DEF AskEdge, Edges
      <4>3. QED
        BY <4>1, <4>2
    <3>2. Start = parents[child][edge] /\ Start \in Class
      BY <3>1, ParentsTyped DEF Start, Inv, TypeOK
    <3>3. goal = child /\ child \in Class
      BY <2>2 DEF AskEdge, Edges, Inv, Purpose, TypeOK
    <3>4. QED
      BY <2>2, <3>1, <3>2, <3>3 DEF AskEdge, Edges, Begin, WalkAssumption
  <2>3. QED
    BY <2>1, <2>2
<1>2. parents' = parents /\ child' = child /\ goal' = goal /\ Start' = Start
  BY <1>1 DEF asked, Start
<1>3. stack' = <<>> /\ Len(stack') = 0 /\ result' = "none" /\ enter' # None
  BY <1>1 DEF Inv, Between, WalkAssumption
<1>4. Between' /\ Purpose'
  BY <1>1, <1>2, <1>3 DEF Between, Purpose, Inv
<1>5. Within' /\ AllSeen'
  BY <1>1, <1>2, <1>3 DEF Within, AllSeen
<1>6. Marked' /\ WalkedOnce' /\ AnswerIsAbove'
  BY <1>3 DEF Marked, WalkedOnce, AnswerIsAbove
<1>7. KeptSoFar'
  BY <1>1, SameKept
<1>8. QED
  BY <1>4, <1>5, <1>6, <1>7 DEF Inv

(* A parent that is no class is passed over and not reported.              *)
LEMMA SkipEdgeKeeps ==
  ASSUME WalkAssumption, Inv, TypeOK', SkipEdge
  PROVE  Inv'
<1>1. /\ UNCHANGED <<asked, phase, enter, stack, visited, kept, result>>
      /\ phase = "ask" /\ edge > 0 /\ edge' = edge + 1 /\ parents[child][edge] = None
      /\ edge \in Nat /\ Len(parents[child]) \in Nat
  BY ParentsTyped DEF SkipEdge, Edges, Inv, TypeOK
<1>2. parents' = parents /\ child' = child /\ goal' = goal
  BY <1>1 DEF asked
<1>3. Between' /\ Within' /\ AllSeen' /\ Marked' /\ WalkedOnce' /\ AnswerIsAbove'
  BY <1>1 DEF Between, Within, AllSeen, Marked, WalkedOnce, AnswerIsAbove, Inv
<1>4. Purpose'
  BY <1>1, <1>2 DEF Purpose, Inv, Between
<1>5. KeptSoFar'
  <2>1. kept = {i \in 1..Len(parents[child]) :
                  i < edge /\ parents[child][i] # None /\ ~LeadsBack(i)}
    BY <1>1 DEF Inv, KeptSoFar
  <2>2. \A i \in 1..Len(parents[child]) : i < edge + 1 <=> (i < edge \/ i = edge)
    BY <1>1
  <2>3. \A i : LeadsBack(i)' <=> LeadsBack(i)
    BY <1>1, SameAbove
  <2>4. QED
    BY <1>1, <1>2, <2>1, <2>2, <2>3 DEF KeptSoFar
<1>6. QED
  BY <1>3, <1>4, <1>5 DEF Inv

(* The end of a walk: its answer is right, and the parent it was about is  *)
(* kept exactly if it does not lead back.                                  *)
LEMMA ConcludeKeeps ==
  ASSUME WalkAssumption, Inv, TypeOK', phase = "walk",
         NEW found \in BOOLEAN, found <=> Above(Start, goal), Conclude(found)
  PROVE  Inv'
<1>1. /\ UNCHANGED <<asked, visited>> /\ stack' = <<>> /\ Len(stack') = 0 /\ enter' = None
      /\ phase' \in {"ask", "done"} /\ result = "none"
      /\ edge \in Nat /\ Len(parents[child]) \in Nat
  BY ParentsTyped DEF Conclude, Answer, Inv, TypeOK, Between
<1>2. /\ parents' = parents /\ child' = child /\ goal' = goal
      /\ \A i : LeadsBack(i)' <=> LeadsBack(i)
      /\ Above(child, goal)' <=> Above(child, goal)
  BY <1>1, SameAbove
<1>3. Within' /\ AllSeen' /\ Marked' /\ WalkedOnce'
  BY <1>1 DEF Within, AllSeen, Marked, WalkedOnce
<1>4. CASE edge = 0
  <2>1. /\ phase' = "done" /\ edge' = 0 /\ result' = (IF found THEN "yes" ELSE "no")
        /\ Start = child
    BY <1>4 DEF Conclude, Answer, Start
  <2>2. AnswerIsAbove'
    BY <1>2, <2>1 DEF AnswerIsAbove
  <2>3. Between' /\ Purpose' /\ KeptSoFar'
    BY <1>1, <2>1 DEF Between, Purpose, KeptSoFar
  <2>4. QED
    BY <1>3, <2>2, <2>3 DEF Inv
<1>5. CASE edge > 0
  <2>1. /\ phase' = "ask" /\ edge' = edge + 1 /\ result' = "none"
        /\ kept' = IF found THEN kept ELSE kept \cup {edge}
        /\ edge \in 1..Len(parents[child]) /\ goal = child /\ Start = parents[child][edge]
        /\ Start \in Class /\ Start # None
    BY <1>1, <1>5 DEF Conclude, Inv, Purpose, Start, WalkAssumption
  <2>2. Between' /\ Purpose' /\ AnswerIsAbove'
    BY <1>1, <1>2, <2>1 DEF Between, Purpose, AnswerIsAbove
  <2>3. KeptSoFar'
    <3>1. kept = {i \in 1..Len(parents[child]) :
                    i < edge /\ parents[child][i] # None /\ ~LeadsBack(i)}
      BY <1>5 DEF Inv, KeptSoFar
    <3>2. \A i \in 1..Len(parents[child]) : i < edge + 1 <=> (i < edge \/ i = edge)
      BY <1>1
    <3>3. found <=> LeadsBack(edge)
      BY <2>1 DEF LeadsBack
    <3>4. kept' = {i \in 1..Len(parents[child]) :
                     i < edge + 1 /\ parents[child][i] # None /\ ~LeadsBack(i)}
      BY <2>1, <3>1, <3>2, <3>3
    <3>5. QED
      BY <1>2, <2>1, <3>4 DEF KeptSoFar
  <2>4. QED
    BY <1>3, <2>2, <2>3 DEF Inv
<1>6. QED
  BY <1>1, <1>4, <1>5

(* A class seen before is not entered again.                               *)
LEMMA RepeatedKeeps ==
  ASSUME WalkAssumption, Inv, TypeOK', Repeated
  PROVE  Inv'
<1>1. /\ UNCHANGED <<asked, edge, phase, stack, visited, kept, result>>
      /\ phase = "walk" /\ enter' = None /\ enter \in visited
  BY DEF Repeated, Entering
<1>2. /\ parents' = parents /\ child' = child /\ goal' = goal /\ Start' = Start
      /\ \A S : ParentClosed(S)' <=> ParentClosed(S)
  <2>1. parents' = parents /\ child' = child /\ goal' = goal
        /\ \A S : ParentClosed(S)' <=> ParentClosed(S)
    BY <1>1, SameAbove
  <2>2. QED
    BY <1>1, <2>1 DEF Start
<1>3. Between' /\ Purpose' /\ Marked' /\ WalkedOnce' /\ AnswerIsAbove'
  BY <1>1, <1>2 DEF Between, Purpose, Marked, WalkedOnce, AnswerIsAbove, Inv
<1>4. Within'
  BY <1>1, <1>2 DEF Within, Inv
<1>5. AllSeen'
  <2>1. \A c, n : Seen(c, n) => Seen(c, n)'
    BY <1>1, <1>2 DEF Seen
  <2>2. \A c : Active(c)' <=> Active(c)
    BY <1>1 DEF Active
  <2>3. QED
    BY <1>1, <1>2, <2>1, <2>2 DEF AllSeen, Inv
<1>6. KeptSoFar'
  BY <1>1, SameKept
<1>7. QED
  BY <1>3, <1>4, <1>5, <1>6 DEF Inv

(* A new class is marked when its call begins, with all its parents to     *)
(* come.                                                                   *)
LEMMA OpenKeeps ==
  ASSUME WalkAssumption, Inv, TypeOK', Open
  PROVE  Inv'
<1> DEFINE f == [class |-> enter, next |-> 1]
<1>1. /\ UNCHANGED <<asked, edge, phase, kept, result>> /\ phase = "walk" /\ enter' = None
      /\ visited' = visited \cup {enter} /\ stack' = Append(stack, f)
      /\ enter # goal /\ enter \notin visited /\ enter # None /\ enter \in Class
  BY DEF Open, New, Entering, Inv, TypeOK
<1>2. f \in Call /\ f.class = enter /\ f.next = 1
  BY <1>1 DEF Call
<1> HIDE DEF f
<1>3. /\ stack' \in Seq(Call) /\ Len(stack) \in Nat /\ Len(stack') = Len(stack) + 1
      /\ stack'[Len(stack) + 1] = f
      /\ \A j \in 1..Len(stack) : stack'[j] = stack[j]
  BY <1>1, <1>2, PushTyped DEF Inv
<1>4. /\ parents' = parents /\ child' = child /\ goal' = goal
      /\ \A S : ParentClosed(S)' <=> ParentClosed(S)
  BY <1>1, SameAbove
<1>5. Start' = Start
  BY <1>1, <1>4 DEF Start
<1>6. Between' /\ Purpose' /\ AnswerIsAbove'
  <2>1. stack' # <<>>
    BY <1>3
  <2>2. QED
    BY <1>1, <1>4, <1>5, <2>1 DEF Between, Purpose, AnswerIsAbove, Inv
<1>7. Within'
  BY <1>1, <1>4, <1>5 DEF Within, Inv
<1>8. Marked' /\ WalkedOnce'
  <2>1. \A j \in 1..Len(stack) : stack'[j].class \in visited
    BY <1>3 DEF Inv, Marked
  <2>2. \A j \in 1..Len(stack') : j \in 1..Len(stack) \/ stack'[j].class = enter
    BY <1>2, <1>3
  <2>3. \A j \in 1..Len(stack') : j \in 1..Len(stack) \/ j = Len(stack) + 1
    BY <1>3
  <2>4. Marked'
    BY <1>1, <2>1, <2>2 DEF Marked
  <2>5. WalkedOnce'
    <3>1. SUFFICES ASSUME NEW i \in 1..Len(stack'), NEW j \in 1..Len(stack'),
                          stack'[i].class = stack'[j].class
                   PROVE  i = j
      BY DEF WalkedOnce
    <3>2. CASE i \in 1..Len(stack) /\ j \in 1..Len(stack)
      BY <1>3, <3>1, <3>2 DEF Inv, WalkedOnce
    <3>3. QED
      BY <1>1, <1>2, <1>3, <2>1, <2>3, <3>1, <3>2
  <2>6. QED
    BY <2>4, <2>5
<1>9. AllSeen'
  <2>1. \A c, n : Seen(c, n) => Seen(c, n)'
    BY <1>1, <1>4 DEF Seen
  <2>2. ASSUME NEW c, Active(c) PROVE Active(c)'
    <3>1. PICK j \in 1..Len(stack) : stack[j].class = c
      BY <2>2 DEF Active
    <3>2. j \in 1..Len(stack') /\ stack'[j].class = c
      BY <1>3, <3>1
    <3>3. QED
      BY <3>2 DEF Active
  <2>3. ASSUME NEW c, c = enter PROVE Active(c)'
    <3>1. Len(stack) + 1 \in 1..Len(stack') /\ stack'[Len(stack) + 1].class = c
      BY <1>2, <1>3, <2>3
    <3>2. \E j \in 1..Len(stack') : stack'[j].class = c
      BY <3>1
    <3>3. QED
      BY <3>2 DEF Active
  <2>4. ASSUME NEW c \in visited' PROVE Active(c)' \/ Seen(c, Len(parents[c]) + 1)'
    <3>1. c = enter \/ Active(c) \/ Seen(c, Len(parents[c]) + 1)
      BY <1>1 DEF Inv, AllSeen
    <3>2. QED
      BY <1>4, <2>1, <2>2, <2>3, <3>1
  <2>5. ASSUME NEW j \in 1..Len(stack') PROVE Seen(stack[j].class, stack[j].next)'
    <3>1. CASE j \in 1..Len(stack)
      BY <1>1, <1>3, <2>1, <3>1 DEF Inv, AllSeen
    <3>2. CASE j = Len(stack) + 1
      <4>1. stack'[j].next = 1
        BY <1>2, <1>3, <3>2
      <4>2. QED
        BY <4>1 DEF Seen
    <3>3. QED
      BY <1>3, <3>1, <3>2
  <2>6. QED
    BY <1>1, <1>4, <1>5, <2>4, <2>5 DEF Inv, AllSeen
<1>10. KeptSoFar'
  BY <1>1, SameKept
<1>11. QED
  BY <1>6, <1>7, <1>8, <1>9, <1>10 DEF Inv

(* The next parent is looked at: to be entered, or passed over if it is no *)
(* class.                                                                  *)
LEMMA ClimbKeeps ==
  ASSUME WalkAssumption, Inv, TypeOK', SkipValue \/ Climb
  PROVE  Inv'
<1>1. /\ UNCHANGED <<asked, edge, phase, visited, kept, result>> /\ phase = "walk"
      /\ enter = None /\ enter' = NextParent /\ GoTo(Top.next + 1) /\ stack # <<>>
      /\ Top.next <= Len(parents[Top.class])
  BY DEF SkipValue, Climb, More, Inside, Inv, Between
<1>2. /\ Len(stack) \in Nat \ {0} /\ Top.class \in Class /\ Top.next \in Nat \ {0}
      /\ Top = stack[Len(stack)] /\ Top.class \in visited
      /\ NextParent = parents[Top.class][Top.next] /\ Top.next \in 1..Len(parents[Top.class])
      /\ Seen(Top.class, Top.next)
  <2>1. /\ Len(stack) \in Nat \ {0} /\ Top.class \in Class /\ Top.next \in Nat \ {0}
    BY <1>1, TopTyped DEF Inv
  <2>2. Len(stack) \in 1..Len(stack) /\ Len(parents[Top.class]) \in Nat
    BY <2>1, ParentsTyped DEF Inv
  <2>3. Top.class \in visited /\ Seen(Top.class, Top.next)
    BY <1>1, <2>2 DEF Top, Inv, Marked, AllSeen
  <2>4. QED
    BY <1>1, <2>1, <2>2, <2>3 DEF Top, NextParent
<1>3. /\ stack' \in Seq(Call) /\ Len(stack') = Len(stack)
      /\ \A j \in 1..Len(stack) :
           stack'[j] = IF j = Len(stack) THEN [class |-> Top.class, next |-> Top.next + 1]
                       ELSE stack[j]
  BY <1>1, GoOnTyped DEF Inv
<1>4. \A j \in 1..Len(stack) : stack'[j].class = stack[j].class
  BY <1>2, <1>3
<1>5. /\ parents' = parents /\ child' = child /\ goal' = goal
      /\ \A S : ParentClosed(S)' <=> ParentClosed(S)
  BY <1>1, SameAbove
<1>6. Start' = Start
  BY <1>1, <1>5 DEF Start
<1>7. Between' /\ Purpose' /\ AnswerIsAbove'
  <2>1. stack' # <<>>
    BY <1>2, <1>3
  <2>2. QED
    BY <1>1, <1>5, <1>6, <2>1 DEF Between, Purpose, AnswerIsAbove, Inv
<1>8. Within'
  <2>1. ASSUME NEW S \in SUBSET Class, Start \in S, ParentClosed(S)
        PROVE  visited \subseteq S /\ NextParent \in S \cup {None}
    <3>1. visited \subseteq S
      BY <1>1, <2>1 DEF Inv, Within
    <3>2. NextParent \in Class \cup {None}
      BY <1>2, ParentsTyped DEF Inv
    <3>3. Parent(Top.class, NextParent)
      BY <1>2 DEF Parent
    <3>4. QED
      BY <1>2, <2>1, <3>1, <3>2, <3>3 DEF ParentClosed
  <2>2. QED
    BY <1>1, <1>5, <1>6, <2>1 DEF Within
<1>9. Marked' /\ WalkedOnce'
  BY <1>1, <1>3, <1>4 DEF Marked, WalkedOnce, Inv
<1>10. AllSeen'
  <2>1. \A c, n : Seen(c, n) => Seen(c, n)'
    BY <1>1, <1>5 DEF Seen
  <2>2. \A c : Active(c)' <=> Active(c)
    BY <1>3, <1>4 DEF Active
  <2>3. ASSUME NEW j \in 1..Len(stack) PROVE Seen(stack[j].class, stack[j].next)'
    <3>1. CASE j = Len(stack)
      <4>1. stack'[j].class = Top.class /\ stack'[j].next = Top.next + 1
        BY <1>3, <3>1
      <4>2. ASSUME NEW i \in 1..Len(parents[Top.class]), i < Top.next + 1
            PROVE  parents[Top.class][i] \in visited \cup {enter', None}
        <5>1. CASE i < Top.next
          BY <1>1, <1>2, <4>2, <5>1 DEF Seen
        <5>2. CASE i = Top.next
          BY <1>1, <1>2, <5>2
        <5>3. QED
          BY <1>2, <4>2, <5>1, <5>2
      <4>3. QED
        BY <1>1, <1>5, <4>1, <4>2 DEF Seen
    <3>2. CASE j # Len(stack)
      BY <1>1, <1>3, <2>1, <3>2 DEF Inv, AllSeen
    <3>3. QED
      BY <3>1, <3>2
  <2>4. Start \in visited /\ goal \notin visited
    BY <1>1 DEF Inv, AllSeen, Purpose, WalkAssumption
  <2>5. ASSUME NEW c \in visited PROVE Active(c)' \/ Seen(c, Len(parents[c]) + 1)'
    <3>1. Active(c) \/ Seen(c, Len(parents[c]) + 1)
      BY <1>1 DEF Inv, AllSeen
    <3>2. QED
      BY <1>5, <2>1, <2>2, <3>1
  <2>6. QED
    BY <1>1, <1>3, <1>5, <1>6, <2>3, <2>4, <2>5 DEF AllSeen
<1>11. KeptSoFar'
  BY <1>1, SameKept
<1>12. QED
  BY <1>7, <1>8, <1>9, <1>10, <1>11 DEF Inv

(* A call returns when all its class's parents have been seen.             *)
LEMMA BacktrackKeeps ==
  ASSUME WalkAssumption, Inv, TypeOK', Backtrack
  PROVE  Inv'
<1>1. /\ UNCHANGED <<asked, edge, phase, enter, visited, kept, result>> /\ phase = "walk"
      /\ enter = None /\ stack # <<>> /\ Len(stack) > 1 /\ stack' = Pop(stack)
      /\ Top.next > Len(parents[Top.class])
  BY DEF Backtrack, Tried, Inside, Inv, Between
<1>2. /\ stack' \in Seq(Call) /\ Len(stack') = Len(stack) - 1 /\ Len(stack) \in Nat
      /\ \A j \in 1..Len(stack') : j \in 1..Len(stack) /\ stack'[j] = stack[j]
      /\ \A j \in 1..Len(stack) : j \in 1..Len(stack') \/ stack[j] = Top
  <2>1. /\ stack' \in Seq(Call) /\ Len(stack') = Len(stack) - 1 /\ Len(stack) \in Nat
        /\ \A j \in 1..Len(stack') : stack'[j] = stack[j]
    BY <1>1, PopTyped, TopTyped DEF Inv
  <2>2. QED
    BY <2>1 DEF Top
<1>3. /\ parents' = parents /\ child' = child /\ goal' = goal
      /\ \A S : ParentClosed(S)' <=> ParentClosed(S)
  BY <1>1, SameAbove
<1>4. Start' = Start
  BY <1>1, <1>3 DEF Start
<1>5. Between' /\ Purpose' /\ AnswerIsAbove'
  <2>1. stack' # <<>>
    BY <1>1, <1>2
  <2>2. QED
    BY <1>1, <1>3, <1>4, <2>1 DEF Between, Purpose, AnswerIsAbove, Inv
<1>6. Within'
  BY <1>1, <1>3, <1>4 DEF Within, Inv
<1>7. Marked' /\ WalkedOnce'
  BY <1>1, <1>2 DEF Marked, WalkedOnce, Inv
<1>8. AllSeen'
  <2>1. \A c, n : Seen(c, n)' <=> Seen(c, n)
    BY <1>1, <1>3 DEF Seen
  <2>2. Seen(Top.class, Len(parents[Top.class]) + 1)
    <3>1. Len(stack) \in 1..Len(stack) /\ Top.next \in Nat /\ Len(parents[Top.class]) \in Nat
      BY <1>1, <1>2, TopTyped, ParentsTyped DEF Inv
    <3>2. Seen(Top.class, Top.next)
      BY <1>1, <3>1 DEF Inv, AllSeen, Top
    <3>3. QED
      BY <1>1, <3>1, <3>2 DEF Seen
  <2>3. ASSUME NEW c \in visited PROVE Active(c)' \/ Seen(c, Len(parents[c]) + 1)
    <3>1. CASE Active(c)
      <4>1. PICK j \in 1..Len(stack) : stack[j].class = c
        BY <3>1 DEF Active
      <4>2. CASE j \in 1..Len(stack')
        <5>1. \E k \in 1..Len(stack') : stack'[k].class = c
          BY <1>2, <4>1, <4>2
        <5>2. QED
          BY <5>1 DEF Active
      <4>3. CASE stack[j] = Top
        BY <2>2, <4>1, <4>3
      <4>4. QED
        BY <1>2, <4>2, <4>3
    <3>2. QED
      BY <1>1, <3>1 DEF Inv, AllSeen
  <2>4. QED
    BY <1>1, <1>2, <1>3, <1>4, <2>1, <2>3 DEF Inv, AllSeen
<1>9. KeptSoFar'
  BY <1>1, SameKept
<1>10. QED
  BY <1>5, <1>6, <1>7, <1>8, <1>9 DEF Inv

(* A step of something else keeps the invariant.                           *)
LEMMA Stutters ==
  ASSUME Inv, UNCHANGED vars
  PROVE  Inv'
<1>1. UNCHANGED <<asked, parents, child, goal, edge, phase, enter, stack, visited, kept, result>>
  BY DEF vars, asked
<1>2. TypeOK' /\ Between' /\ Marked' /\ WalkedOnce'
  BY <1>1 DEF TypeOK, Between, Marked, WalkedOnce, Inv
<1>3. /\ \A S : ParentClosed(S)' <=> ParentClosed(S)
      /\ Above(child, goal)' <=> Above(child, goal)
  BY <1>1, SameAbove
<1>4. Start' = Start
  BY <1>1 DEF Start
<1>5. Purpose' /\ Within' /\ AnswerIsAbove'
  BY <1>1, <1>3, <1>4 DEF Purpose, Within, AnswerIsAbove, Inv
<1>6. AllSeen'
  BY <1>1, <1>4 DEF AllSeen, Seen, Active, Inv
<1>7. KeptSoFar'
  BY <1>1, SameKept
<1>8. QED
  BY <1>2, <1>5, <1>6, <1>7 DEF Inv

(* The invariant holds when a question is asked.                           *)
LEMMA InvInit == ASSUME WalkAssumption, Init PROVE Inv
<1>1. /\ TypeOK /\ phase = "ask" /\ enter = None /\ stack = <<>> /\ Len(stack) = 0
      /\ kept = {} /\ result = "none" /\ edge \in {0, 1} /\ (edge > 0 => goal = child)
  BY TypesInit DEF Init
<1>2. Between /\ Purpose /\ Within /\ AllSeen /\ Marked /\ WalkedOnce /\ AnswerIsAbove
  BY <1>1 DEF Between, Purpose, Within, AllSeen, Marked, WalkedOnce, AnswerIsAbove
<1>3. KeptSoFar
  BY <1>1 DEF KeptSoFar
<1>4. QED
  BY <1>1, <1>2, <1>3 DEF Inv

(* Every step keeps the invariant.                                         *)
LEMMA InvNext == ASSUME WalkAssumption, Inv, [Next]_vars PROVE Inv'
<1>1. TypeOK'
  BY TypesNext
<1>2. CASE Found
  <2>1. phase = "walk" /\ Conclude(TRUE) /\ Above(Start, goal)
    BY <1>2, FoundIsAbove DEF Found, Entering
  <2>2. QED
    BY <1>1, <2>1, ConcludeKeeps
<1>3. CASE Exhausted
  <2>1. phase = "walk" /\ Conclude(FALSE) /\ ~Above(Start, goal)
    BY <1>3, ExhaustedIsNotAbove DEF Exhausted, Tried, Inside
  <2>2. QED
    BY <1>1, <2>1, ConcludeKeeps
<1>4. QED
  BY <1>1, <1>2, <1>3, AskingKeeps, BeginKeeps, SkipEdgeKeeps, RepeatedKeeps, OpenKeeps,
     ClimbKeeps, BacktrackKeeps, Stutters DEF Next

-----------------------------------------------------------------------------
(* The theorems.                                                           *)

(* The invariant holds of every question about every hierarchy.            *)
THEOREM AlwaysInv == Spec => []Inv
<1>1. Init => Inv
  BY InvInit, WalkAssumption
<1>2. Inv /\ [Next]_vars => Inv'
  BY InvNext, WalkAssumption
<1>3. QED
  BY <1>1, <1>2, PTL DEF Spec

(* Every variable keeps its type: calls of the walk and the loop over the  *)
(* child's parents stay within the parent lists.                           *)
THEOREM WalkTypeCorrect == Spec => []TypeOK
<1>1. Inv => TypeOK
  BY DEF Inv
<1>2. QED
  BY <1>1, AlwaysInv, PTL

(* class_is_subclass_of_guarded answers true exactly for the classes above *)
(* the child, whatever cycles the hierarchy has.                           *)
THEOREM AnswersAreRight == Spec => []AnswerIsAbove
<1>1. Inv => AnswerIsAbove
  BY DEF Inv
<1>2. QED
  BY <1>1, AlwaysInv, PTL

(* The walk is never inside one class twice: visited ends it.              *)
THEOREM AlwaysWalkedOnce == Spec => []WalkedOnce
<1>1. Inv => WalkedOnce
  BY DEF Inv
<1>2. QED
  BY <1>1, AlwaysInv, PTL

(* ClassShape::parents reports the parents that do not lead back to the    *)
(* class, all of them and no others.                                       *)
THEOREM ReportsAreRight == Spec => []ReportsKept
<1>1. ASSUME Inv PROVE ReportsKept
  <2>1. SUFFICES ASSUME result = "reported"
                 PROVE  kept = {i \in 1..Len(parents[child]) :
                                  parents[child][i] # None /\ ~LeadsBack(i)}
    BY DEF ReportsKept
  <2>2. Len(parents[child]) \in Nat /\ edge \in Nat /\ edge > Len(parents[child])
    <3>1. Len(parents[child]) \in Nat /\ edge \in 0..(Len(parents[child]) + 1)
      BY <1>1, WalkAssumption, ParentsTyped DEF Inv, TypeOK
    <3>2. QED
      BY <1>1, <2>1, <3>1 DEF Inv, Purpose
  <2>3. QED
    BY <1>1, <2>2 DEF Inv, KeptSoFar
<1>2. QED
  BY <1>1, AlwaysInv, PTL

(* The parents that ClassShape::parents reports, and what they lead to.    *)
Kept(c, d) == Parent(c, d) /\ ~Above(d, c)
KeptClosed(S) == \A c \in S, d \in Class : Kept(c, d) => d \in S
KeptAbove(d, c) == \A S \in SUBSET Class : d \in S /\ KeptClosed(S) => c \in S

(* What the class shapes report to the kernel has no cycle, so the kernel's*)
(* own walk over reported parents, which keeps no visited set, ends: from  *)
(* no reported parent do reported parents lead back to the class.          *)
THEOREM ReportedParentsAreAcyclic == \A c, d \in Class : Kept(c, d) => ~KeptAbove(d, c)
<1>1. SUFFICES ASSUME NEW c \in Class, NEW d \in Class, Kept(c, d)
               PROVE  ~KeptAbove(d, c)
  OBVIOUS
<1>2. PICK S \in SUBSET Class : d \in S /\ ParentClosed(S) /\ c \notin S
  BY <1>1 DEF Kept, Above
<1>3. KeptClosed(S)
  BY <1>2 DEF KeptClosed, Kept, ParentClosed
<1>4. QED
  BY <1>2, <1>3 DEF KeptAbove
=============================================================================
