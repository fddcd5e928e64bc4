---------------------------- MODULE MatchEngine -----------------------------
(***************************************************************************)
(* One call of Shape::check_expr or Shape::check_value, as the stack of    *)
(* Rust frames it really is.  Two pieces of thread-local state are shared  *)
(* by every frame of the thread: SHAPE_DEPTH, the recursion budget that    *)
(* refs and class instance shapes draw on, and DEF_STACK, the definition   *)
(* scopes that ShapeDefs pushes and refs resolve in.  Both are restored by *)
(* the destructors of the frame that changed them, on every way out.       *)
(*                                                                         *)
(* The thread answers one call after another.  All of them start with      *)
(* `base` levels of the budget already held, because the caller may itself *)
(* be inside a guarded check: a hook, a parser or a foreign shape that     *)
(* re-enters the match path.                                               *)
(***************************************************************************)
EXTENDS ShapeGraph

CONSTANTS
  MaxDepth,   \* MAX_SHAPE_DEPTH
  Requests,   \* the calls the thread is asked for: a set of tasks
  Bases       \* the levels of the budget a caller may already hold

ASSUME EngineAssumption ==
  /\ MaxDepth \in Nat
  /\ Requests \subseteq Task
  /\ Bases \subseteq 0..MaxDepth

VARIABLES
  stack,      \* the frames of the running match, outermost first
  ret,        \* the ShapeMatch being returned, or Nothing
  depth,      \* SHAPE_DEPTH
  scopes,     \* DEF_STACK: the ShapeDefs whose definitions are in scope
  call,       \* the task being answered, None between calls
  base        \* the levels the caller holds (never changes)

vars == <<stack, ret, depth, scopes, call, base>>

Nothing == [st |-> "none", score |-> 0, caps |-> <<>>]

Top == stack[Len(stack)]
Pop(seq) == SubSeq(seq, 1, Len(seq) - 1)

(* i is the turn of the frame's loop, 0 before the first; score, caps and  *)
(* pick are the ShapeMatch it is building; held is the RAII value it owns. *)
NewFrame(t) ==
  [task |-> t, i |-> 0, score |-> BaseScore(t), caps |-> <<>>, pick |-> 0, held |-> "none"]

Calling   == stack # <<>> /\ ret.st = "none"
Returning == stack # <<>> /\ ret.st # "none"
Done      == stack = <<>> /\ call # None

-----------------------------------------------------------------------------
(* Leaving a frame runs the destructor of what it holds.                   *)

DropDepth == IF depth > 0 THEN depth - 1 ELSE 0

(* Mutant: a frame cleaned up by hand, which an early `?` return skips.    *)
LeaveByHand(result) ==
  /\ ret' = result
  /\ stack' = Pop(stack)
  /\ depth' = IF Top.held = "guard" /\ result.st # "error" THEN DropDepth ELSE depth
  /\ scopes' = IF Top.held = "scope" /\ result.st # "error" THEN Pop(scopes) ELSE scopes
  /\ UNCHANGED <<call, base>>

Leave(result) ==
  /\ ret' = result
  /\ stack' = Pop(stack)
  /\ depth' = IF Top.held = "guard" THEN DropDepth ELSE depth
  /\ scopes' = IF Top.held = "scope" THEN Pop(scopes) ELSE scopes
  /\ UNCHANGED <<call, base>>

(* Continue the frame on top as `frame`, and call a child below it.        *)
CallFrom(frame, child) ==
  /\ stack' = Append([stack EXCEPT ![Len(stack)] = frame], NewFrame(child))
  /\ UNCHANGED <<ret, call, base>>

(* Go on in the same frame, consuming the child's result.                  *)
Continue(frame) ==
  /\ stack' = [stack EXCEPT ![Len(stack)] = frame]
  /\ ret' = Nothing
  /\ UNCHANGED <<depth, scopes, call, base>>

-----------------------------------------------------------------------------
(* Calls: leaves, references, definitions, classes.                        *)

Entering(kind) == Calling /\ Kind(Top.task) = kind /\ Top.i = 0

Leaf ==
  /\ Calling /\ Kind(Top.task) \in LeafKinds
  /\ Leave(LeafResult(Top.task))

(* Mutant: one level too many.                                             *)
SpentTooLate == depth > MaxDepth

BudgetSpent == depth >= MaxDepth

(* The innermost scope that defines a name wins.                           *)
DefinedIn(scope, name) == \E i \in DOMAIN scope : Defines(scope[i], name)
ResolveIn(scope, name) ==
  LET at == CHOOSE i \in DOMAIN scope :
              /\ Defines(scope[i], name)
              /\ \A j \in DOMAIN scope : Defines(scope[j], name) => j <= i
  IN LastDef(scope[at], name)

RefName == Node[Top.task.shape].name

RefExhausted == Entering("ref") /\ BudgetSpent /\ Leave(Reject)

(* The guard is taken before the name is looked up and dropped again.      *)
RefUndefined ==
  /\ Entering("ref") /\ ~BudgetSpent /\ ~DefinedIn(scopes, RefName)
  /\ Leave(Reject)

RefResolved ==
  /\ Entering("ref") /\ ~BudgetSpent /\ DefinedIn(scopes, RefName)
  /\ depth' = depth + 1
  /\ CallFrom([Top EXCEPT !.i = 1, !.held = "guard"],
              Job(ResolveIn(scopes, RefName), Top.task.expr, Top.task.path))
  /\ UNCHANGED scopes

DefsEnter ==
  /\ Entering("defs")
  /\ scopes' = Append(scopes, Top.task.shape)
  /\ CallFrom([Top EXCEPT !.i = 1, !.held = "scope"],
              Job(Kids(Top.task)[1], Top.task.expr, Top.task.path))
  /\ UNCHANGED depth

ClassAnswers == Entering("class") /\ ~ClassOpens(Top.task) /\ Leave(ClassDirect(Top.task))

(* Mutant: an exhausted budget trusts the class of the object.             *)
ClassTrusted ==
  Entering("class") /\ ClassOpens(Top.task) /\ BudgetSpent /\ Leave(Accept(30, <<>>))

ClassExhausted == Entering("class") /\ ClassOpens(Top.task) /\ BudgetSpent /\ Leave(Reject)

ClassInstance ==
  /\ Entering("class") /\ ClassOpens(Top.task) /\ ~BudgetSpent
  /\ depth' = depth + 1
  /\ CallFrom([Top EXCEPT !.i = 1, !.held = "guard"],
              Job(Kids(Top.task)[1], Top.task.expr, "expr"))
  /\ UNCHANGED scopes

-----------------------------------------------------------------------------
(* Loops over children.                                                    *)

Looping == Calling /\ Kind(Top.task) \in LoopKinds

LoopFails  == Looping /\ Top.i = 0 /\ EntryFails(Top.task) /\ Leave(Error)
LoopRefuse == Looping /\ Top.i = 0 /\ Refuses(Top.task) /\ Leave(Reject)

LoopEnter ==
  /\ Looping /\ Top.i = 0
  /\ ~Refuses(Top.task) /\ ~EntryFails(Top.task)
  /\ Continue([Top EXCEPT !.i = 1])

LoopBlock == Looping /\ Top.i > 0 /\ Blocks(Top.task, Top.i) /\ Leave(Reject)

InLoop ==
  Looping /\ Top.i > 0 /\ ~Blocks(Top.task, Top.i) /\ Top.i <= LoopLen(Top.task)

LoopSkip ==
  /\ InLoop /\ Child(Top.task, Top.i) = None
  /\ Continue([Top EXCEPT !.i = @ + 1])

LoopCall ==
  /\ InLoop /\ Child(Top.task, Top.i) # None
  /\ CallFrom(Top, Child(Top.task, Top.i))
  /\ UNCHANGED <<depth, scopes>>

(* The result of a loop whose children are used up; several combinators    *)
(* add a capture of their own to it.                                       *)
Own(f, name, k) == Accept(f.score, Append(f.caps, Bind(name, f.task.expr, k)))

LoopResult(f) ==
  CASE Kind(f.task) \in AnyKinds -> Reject
    [] Kind(f.task) = "best"   -> IF f.pick = 0 THEN Reject ELSE Own(f, "branch-index", f.pick)
    [] Kind(f.task) = "repeat" ->
         IF RepeatInBounds(f.task) THEN Own(f, "repeat-count", Len(Items(f.task))) ELSE Reject
    [] Kind(f.task) = "table"  -> Own(f, "matched-keys", 0)
    [] Kind(f.task) = "cell" /\ ~CellIsNull(f.task) /\ Node[f.task.shape].name # None ->
         Accept(f.score, Append(f.caps, Bind(Node[f.task.shape].name, CellChild(f.task).expr, 0)))
    [] OTHER                   -> Accept(f.score, f.caps)

LoopFinish ==
  /\ Looping /\ Top.i > 0 /\ Top.i > LoopLen(Top.task) /\ ~Blocks(Top.task, Top.i)
  /\ Leave(LoopResult(Top))

-----------------------------------------------------------------------------
(* Returns to the frame that called.                                       *)

From(kinds) == Returning /\ Kind(Top.task) \in kinds
Accepted == ret.st = "accept"
Rejected == ret.st = "reject"

(* The `?` operator: an error leaves every frame.                          *)
Unwind == Returning /\ ret.st = "error" /\ Leave(Error)

(* A row keeps its own score whatever its cells'.                          *)
Joined ==
  [Top EXCEPT !.i = @ + 1, !.caps = @ \o ret.caps,
              !.score = IF Kind(Top.task) = "row" THEN @ ELSE @ + ret.score]

(* A list value's tail walk stops after a total rest bound nothing.        *)
TailStops ==
  /\ Kind(Top.task) = "list" /\ Top.task.path = "value" /\ Top.i > Len(Kids(Top.task))
  /\ Total[Node[Top.task.shape].rest] /\ ret.caps = <<>>

AllContinue == From(AllKinds) /\ Accepted /\ ~TailStops /\ Continue(Joined)
AllTailStop == From({"list"}) /\ Accepted /\ TailStops /\ Leave(Accept(Joined.score, Joined.caps))
AllReject   == From(AllKinds) /\ Rejected /\ Leave(Reject)

AnyAccept ==
  /\ From(AnyKinds) /\ Accepted
  /\ Leave(IF Kind(Top.task) = "or"
           THEN Accept(ret.score, Append(ret.caps, Bind("branch-index", Top.task.expr, Top.i)))
           ELSE ret)

(* Mutant: the alternative that failed is tried again.                     *)
AnyRetry == From(AnyKinds) /\ Rejected /\ Continue(Top)

AnyNext == From(AnyKinds) /\ Rejected /\ Continue([Top EXCEPT !.i = @ + 1])

(* Mutant: the last of equally good branches wins.                         *)
LastBestNext ==
  /\ From({"best"}) /\ ret.st # "error"
  /\ Continue(IF Accepted /\ (Top.pick = 0 \/ ret.score >= Top.score)
              THEN [Top EXCEPT !.i = @ + 1, !.pick = Top.i,
                               !.score = ret.score, !.caps = ret.caps]
              ELSE [Top EXCEPT !.i = @ + 1])

BestNext ==
  /\ From({"best"}) /\ ret.st # "error"
  /\ Continue(IF Accepted /\ (Top.pick = 0 \/ ret.score > Top.score)
              THEN [Top EXCEPT !.i = @ + 1, !.pick = Top.i,
                               !.score = ret.score, !.caps = ret.caps]
              ELSE [Top EXCEPT !.i = @ + 1])

NotReturn ==
  /\ From({"not"}) /\ ret.st # "error"
  /\ Leave(IF Accepted THEN Reject
           ELSE Accept(10, <<Bind("negated", Top.task.expr, 0)>>))

CaptureReturn ==
  /\ From({"capture"}) /\ ret.st # "error"
  /\ Leave(IF Accepted
           THEN Accept(ret.score,
                       Append(ret.caps, Bind(Node[Top.task.shape].name, Top.task.expr, 0)))
           ELSE Reject)

PassReturn == From({"effectful", "pratt", "ref", "defs"}) /\ ret.st # "error" /\ Leave(ret)

ClassReturn ==
  /\ From({"class"}) /\ ret.st # "error"
  /\ Leave(IF Accepted THEN Accept(30, <<>>) ELSE Reject)

-----------------------------------------------------------------------------
Init ==
  /\ base \in Bases
  /\ depth = base
  /\ scopes = <<>>
  /\ stack = <<>>
  /\ ret = Nothing
  /\ call = None

(* The thread makes a call with whatever the last one left behind.         *)
Begin(t) ==
  /\ call = None
  /\ call' = t
  /\ stack' = <<NewFrame(t)>>
  /\ UNCHANGED <<ret, depth, scopes, base>>

(* The caller takes the ShapeMatch or the error.                           *)
Deliver ==
  /\ Done
  /\ call' = None
  /\ ret' = Nothing
  /\ UNCHANGED <<stack, depth, scopes, base>>

Calls == Leaf \/ RefExhausted \/ RefUndefined \/ RefResolved \/ DefsEnter
         \/ ClassAnswers \/ ClassExhausted \/ ClassInstance
Loops == LoopFails \/ LoopRefuse \/ LoopEnter \/ LoopBlock \/ LoopSkip \/ LoopCall \/ LoopFinish
Returns == Unwind \/ AllContinue \/ AllTailStop \/ AllReject \/ AnyAccept \/ AnyNext
           \/ BestNext \/ NotReturn \/ CaptureReturn \/ PassReturn \/ ClassReturn

Next == (\E t \in Requests : Begin(t)) \/ Calls \/ Loops \/ Returns \/ Deliver

Spec == Init /\ [][Next]_vars
FairSpec == Spec /\ WF_vars(Calls \/ Loops \/ Returns \/ Deliver)

-----------------------------------------------------------------------------
(* Properties.                                                             *)

Captures == Seq([name: Symbol, of: Expr, num: Nat])
Match == [st: {"none", "accept", "reject", "error"}, score: Nat, caps: Captures]
Frame ==
  [task: Task, i: Nat, score: Nat, caps: Captures, pick: Nat, held: {"none", "guard", "scope"}]

(* Every variable keeps its type, and the budget is never overdrawn: the   *)
(* counter DepthGuard::enter compares with MAX_SHAPE_DEPTH stays within it.*)
TypeOK ==
  /\ base \in Bases
  /\ call \in Task \cup {None}
  /\ stack \in Seq(Frame)
  /\ ret \in Match
  /\ depth \in 0..MaxDepth
  /\ scopes \in Seq(Shape)

Holders(what) == {i \in 1..Len(stack) : stack[i].held = what}

(* SHAPE_DEPTH is the caller's share plus one for each frame that holds a  *)
(* guard, at every moment of every call: no early return, rejection or `?` *)
(* loses or doubles a level, so sequential calls never accumulate budget.  *)
BudgetAccounted == depth = base + Cardinality(Holders("guard"))

(* DEF_STACK holds exactly the definitions of the ShapeDefs frames that    *)
(* are open, in the order they were opened: a ref can only see scopes that *)
(* enclose it, and nothing of one call is in scope in the next.            *)
ScopesAccounted ==
  /\ Len(scopes) = Cardinality(Holders("scope"))
  /\ \A i \in Holders("scope") :
       scopes[Cardinality(Holders("scope") \cap 1..i)] = stack[i].task.shape

(* Every call returns: self-referential definitions and classes are cut by *)
(* the budget, everything else is a walk over a finite shape and term.     *)
Answers == (call # None) ~> (call = None)

=============================================================================
