----------------------------- MODULE ClassWalk ------------------------------
(***************************************************************************)
(* The walk up a class hierarchy (subclass_walk), whose edges are what the *)
(* host's classes say their parents are: nothing keeps them from forming   *)
(* cycles, or from naming values that are no classes.                      *)
(*                                                                         *)
(* One question is answered: whether `child` is below `goal`               *)
(* (class_is_subclass_of_guarded), or which parents a class shape reports  *)
(* to the kernel (ClassShape::parents), which asks of every parent whether *)
(* it leads back to the child (is_cyclic_parent_edge).                     *)
(***************************************************************************)
EXTENDS Integers, Sequences

CONSTANTS
  Class,       \* the ids of the registered classes
  None,        \* a value that is no class
  Hierarchies  \* the parent lists of all classes to consider

ASSUME WalkAssumption ==
  /\ None \notin Class
  /\ Hierarchies \subseteq [Class -> Seq(Class \cup {None})]

VARIABLES
  parents,   \* the parents of every class
  child,     \* the class asked about
  goal,      \* the class looked for; the child itself for a cyclic edge
  edge,      \* the parent of the child asked about, 0 for a plain question
  phase,     \* "ask", "walk" or "done"
  enter,     \* the class a call of the walk begins with, None inside a call
  stack,     \* the calls of the walk: a class and its next parent
  visited,   \* the classes this walk has seen
  kept,      \* the parents reported so far, by their place
  result     \* how the question was answered

asked == <<parents, child, goal>>
vars  == <<asked, edge, phase, enter, stack, visited, kept, result>>

Top == stack[Len(stack)]
Pop(seq) == SubSeq(seq, 1, Len(seq) - 1)

Init ==
  /\ parents \in Hierarchies
  /\ child \in Class
  /\ \/ edge = 0 /\ goal \in Class \cup {None}
     \/ edge = 1 /\ goal = child
  /\ phase = "ask" /\ enter = None /\ stack = <<>> /\ visited = {} /\ kept = {}
  /\ result = "none"

Answer(how) == phase' = "done" /\ result' = how

-----------------------------------------------------------------------------
(* The questions.                                                          *)

(* What is looked for is no class.                                         *)
NoGoal ==
  /\ phase = "ask" /\ goal = None
  /\ Answer("no")
  /\ UNCHANGED <<asked, edge, enter, stack, visited, kept>>

Begin(class) ==
  /\ enter' = class /\ visited' = {} /\ phase' = "walk"
  /\ UNCHANGED <<asked, edge, stack, kept, result>>

AskChild == phase = "ask" /\ edge = 0 /\ goal # None /\ Begin(child)

Edges == phase = "ask" /\ edge > 0

(* The class cannot say its parents.                                       *)
EdgesFail ==
  /\ Edges /\ edge = 1
  /\ Answer("failed")
  /\ UNCHANGED <<asked, edge, enter, stack, visited, kept>>

(* Mutant: the parent after a value that is no class is passed over too.   *)
SkipTwo ==
  /\ Edges /\ edge <= Len(parents[child]) /\ parents[child][edge] = None
  /\ edge' = edge + 2
  /\ UNCHANGED <<asked, phase, enter, stack, visited, kept, result>>

SkipEdge ==
  /\ Edges /\ edge <= Len(parents[child]) /\ parents[child][edge] = None
  /\ edge' = edge + 1
  /\ UNCHANGED <<asked, phase, enter, stack, visited, kept, result>>

(* Mutant: the walk starts at the child and looks for the parent.          *)
AskEdgeSwapped ==
  /\ Edges /\ edge <= Len(parents[child]) /\ parents[child][edge] # None
  /\ enter' = child /\ goal' = parents[child][edge] /\ visited' = {} /\ phase' = "walk"
  /\ UNCHANGED <<parents, child, edge, stack, kept, result>>

AskEdge ==
  /\ Edges /\ edge <= Len(parents[child]) /\ parents[child][edge] # None
  /\ Begin(parents[child][edge])

Reported ==
  /\ Edges /\ edge > Len(parents[child])
  /\ Answer("reported")
  /\ UNCHANGED <<asked, edge, enter, stack, visited, kept>>

-----------------------------------------------------------------------------
(* The walk.                                                               *)

(* The outermost call returns; a parent that does not lead back is kept.   *)
Conclude(found) ==
  /\ stack' = <<>> /\ enter' = None
  /\ IF edge = 0
     THEN /\ Answer(IF found THEN "yes" ELSE "no")
          /\ UNCHANGED <<edge, kept>>
     ELSE /\ phase' = "ask" /\ edge' = edge + 1
          /\ kept' = IF found THEN kept ELSE kept \cup {edge}
          /\ UNCHANGED result
  /\ UNCHANGED <<asked, visited>>

Entering == phase = "walk" /\ enter # None

Found == Entering /\ enter = goal /\ Conclude(TRUE)

Repeated ==
  /\ Entering /\ enter # goal /\ enter \in visited
  /\ enter' = None
  /\ UNCHANGED <<asked, edge, phase, stack, visited, kept, result>>

New == Entering /\ enter # goal /\ enter \notin visited

(* Mutant: the class is not marked as visited.                             *)
OpenUnmarked ==
  /\ New
  /\ stack' = Append(stack, [class |-> enter, next |-> 1])
  /\ enter' = None
  /\ UNCHANGED <<asked, edge, phase, visited, kept, result>>

Open ==
  /\ New
  /\ visited' = visited \cup {enter}
  /\ stack' = Append(stack, [class |-> enter, next |-> 1])
  /\ enter' = None
  /\ UNCHANGED <<asked, edge, phase, kept, result>>

OpenFails ==
  /\ New
  /\ Answer("failed")
  /\ UNCHANGED <<asked, edge, enter, stack, visited, kept>>

Inside == phase = "walk" /\ enter = None
NextParent == parents[Top.class][Top.next]
More == Inside /\ Top.next <= Len(parents[Top.class])
GoTo(place) == stack' = [stack EXCEPT ![Len(stack)] = [@ EXCEPT !.next = place]]

(* Mutants: the value ends the loop over the parents, or is looked at      *)
(* again.                                                                  *)
StopAtValue ==
  /\ More /\ NextParent = None
  /\ GoTo(Len(parents[Top.class]) + 1)
  /\ UNCHANGED <<asked, edge, phase, enter, visited, kept, result>>

StayAtValue ==
  /\ More /\ NextParent = None
  /\ GoTo(Top.next)
  /\ UNCHANGED <<asked, edge, phase, enter, visited, kept, result>>

SkipValue ==
  /\ More /\ NextParent = None
  /\ GoTo(Top.next + 1)
  /\ UNCHANGED <<asked, edge, phase, enter, visited, kept, result>>

Climb ==
  /\ More /\ NextParent # None
  /\ GoTo(Top.next + 1)
  /\ enter' = NextParent
  /\ UNCHANGED <<asked, edge, phase, visited, kept, result>>

Tried == Inside /\ Top.next > Len(parents[Top.class])

Backtrack ==
  /\ Tried /\ Len(stack) > 1
  /\ stack' = Pop(stack)
  /\ UNCHANGED <<asked, edge, phase, enter, visited, kept, result>>

Exhausted == Tried /\ Len(stack) = 1 /\ Conclude(FALSE)

Next ==
  \/ NoGoal \/ AskChild \/ EdgesFail \/ SkipEdge \/ AskEdge \/ Reported
  \/ Found \/ Repeated \/ Open \/ OpenFails \/ SkipValue \/ Climb \/ Backtrack \/ Exhausted

Spec == Init /\ [][Next]_vars
FairSpec == Spec /\ WF_vars(Next)

-----------------------------------------------------------------------------
(* Properties.                                                             *)

(* Types: every call of the walk is at one of its class's parents or past  *)
(* them, and the outermost loop at one of the child's or past them.        *)
TypeOK ==
  /\ parents \in Hierarchies
  /\ child \in Class /\ goal \in Class \cup {None}
  /\ edge \in 0..(Len(parents[child]) + 1)
  /\ phase \in {"ask", "walk", "done"}
  /\ enter \in Class \cup {None}
  /\ stack \in Seq([class: Class, next: Nat \ {0}])
  /\ \A j \in 1..Len(stack) : stack[j].next <= Len(parents[stack[j].class]) + 1
  /\ visited \subseteq Class
  /\ kept \subseteq 1..Len(parents[child])
  /\ result \in {"none", "yes", "no", "reported", "failed"}

(* c is above d, or d itself: every set of classes that contains d and the *)
(* parents of its members contains c.                                      *)
Parent(c, d) == \E i \in 1..Len(parents[c]) : parents[c][i] = d
ParentClosed(S) == \A c \in S, d \in Class : Parent(c, d) => d \in S
Above(d, c) == \A S \in SUBSET Class : d \in S /\ ParentClosed(S) => c \in S

(* class_is_subclass_of_guarded answers true for the classes above the     *)
(* child and for no others, on cyclic hierarchies too: the visited set     *)
(* that ends the walk never hides a way up, nor does a parent that is no   *)
(* class.                                                                  *)
AnswerIsAbove ==
  /\ result = "yes" => Above(child, goal)
  /\ result = "no"  => ~Above(child, goal)

(* "Prune cyclic back-edges": ClassShape::parents reports every parent     *)
(* that does not lead back to the child, and none that does.               *)
LeadsBack(i) == Above(parents[child][i], child)
ReportsKept ==
  result = "reported" =>
    kept = {i \in 1..Len(parents[child]) : parents[child][i] # None /\ ~LeadsBack(i)}

(* No two active calls of the walk are for one class: the walk, which the  *)
(* recursion budget does not bound, is never deeper than there are classes.*)
WalkedOnce ==
  \A i, j \in 1..Len(stack) : stack[i].class = stack[j].class => i = j

(* Every question is answered, on every hierarchy.                         *)
Ends == <>(phase = "done")
=============================================================================
