-------------------------- MODULE MatchEngineProofs --------------------------
(***************************************************************************)
(* The match engine, for every graph of shapes, every term and every       *)
(* budget: type correctness and its two accounts; the answer to every call *)
(* is what the check means; and it fails closed when its budget runs out.  *)
(*                                                                         *)
(* Every action leaves the top frame, continues it or calls below it: for  *)
(* each invariant three lemmas say what those do to it, and each action    *)
(* only has to show that what it returns, continues with or calls fits.    *)
(***************************************************************************)
EXTENDS MatchMeaning, ShapeMeaningProofs, FiniteSetTheorems

-----------------------------------------------------------------------------
(* Sequences used as stacks.                                               *)

(* What Pop leaves of a non-empty sequence.                                *)
LEMMA PopProperties ==
  ASSUME NEW S, NEW seq \in Seq(S), seq # <<>>
  PROVE  /\ Len(seq) \in Nat \ {0}
         /\ seq[Len(seq)] \in S
         /\ Pop(seq) \in Seq(S)
         /\ Len(Pop(seq)) = Len(seq) - 1
         /\ \A j \in 1..(Len(seq) - 1) : Pop(seq)[j] = seq[j]
<1>1. Len(seq) \in Nat \ {0}
  BY EmptySeq
<1>2. \A j \in 1..Len(seq) : seq[j] \in S
  BY ElementOfSeq
<1> DEFINE n == Len(seq) - 1
<1>3. /\ n \in Nat
      /\ 1 \in Int
      /\ \A j \in 1..n : seq[j] \in S
  BY <1>1, <1>2
<1>4. /\ SubSeq(seq, 1, n) \in Seq(S)
      /\ Len(SubSeq(seq, 1, n)) = IF 1 <= n THEN n - 1 + 1 ELSE 0
      /\ \A j \in 1..(n - 1 + 1) : SubSeq(seq, 1, n)[j] = seq[1 + j - 1]
  <2> HIDE DEF n
  <2>1. n \in Int
    BY <1>3
  <2>2. QED
    BY <1>3, <2>1, SubSeqProperties
<1>5. Len(SubSeq(seq, 1, n)) = n
  <2> HIDE DEF n
  <2>1. QED
    BY <1>3, <1>4
<1>6. \A j \in 1..n : SubSeq(seq, 1, n)[j] = seq[j]
  <2> HIDE DEF n
  <2>1. \A j \in 1..n : j \in 1..(n - 1 + 1) /\ 1 + j - 1 = j
    BY <1>3
  <2>2. QED
    BY <1>4, <2>1
<1>7. QED
  BY <1>1, <1>2, <1>4, <1>5, <1>6 DEF Pop

(* What a call makes of the stack: the top frame replaced, one more above. *)
LEMMA PushProperties ==
  ASSUME NEW S, NEW seq \in Seq(S), seq # <<>>, NEW f \in S, NEW g \in S,
         NEW next, next = Append([seq EXCEPT ![Len(seq)] = f], g)
  PROVE  /\ next \in Seq(S)
         /\ Len(next) = Len(seq) + 1
         /\ \A j \in 1..(Len(seq) - 1) : next[j] = seq[j]
         /\ next[Len(seq)] = f
         /\ next[Len(seq) + 1] = g
<1>1. Len(seq) \in Nat \ {0}
  BY EmptySeq
<1> DEFINE mid == [seq EXCEPT ![Len(seq)] = f]
<1>2. /\ mid \in Seq(S)
      /\ Len(mid) = Len(seq)
      /\ \A j \in 1..Len(seq) : mid[j] = IF j = Len(seq) THEN f ELSE seq[j]
  BY <1>1, ExceptSeq
<1>3. next = Append(mid, g)
  OBVIOUS
<1> HIDE DEF mid
<1>4. /\ next \in Seq(S)
      /\ Len(next) = Len(mid) + 1
      /\ \A j \in 1..Len(mid) : next[j] = mid[j]
      /\ next[Len(mid) + 1] = g
  BY <1>2, <1>3, AppendProperties
<1>5. \A j \in 1..Len(seq) : next[j] = IF j = Len(seq) THEN f ELSE seq[j]
  BY <1>2, <1>4
<1>6. QED
  BY <1>1, <1>2, <1>4, <1>5

-----------------------------------------------------------------------------
(* The inductive invariant.                                                *)

(* A frame that has not started its loop holds nothing yet.                *)
Fresh == \A j \in 1..Len(stack) : stack[j].i = 0 => stack[j].held = "none"

(* No frame and no result is left over between calls.                      *)
Idle  == call = None => stack = <<>> /\ ret.st = "none"

(* A frame that waits for a child, or is handed its result, has begun its  *)
(* loop, and a loop that has begun passed its entry checks.                *)
Waiting == IF ret.st = "none" THEN Len(stack) - 1 ELSE Len(stack)

Begun   == \A j \in 1..Waiting : stack[j].i # 0

Entered == \A j \in 1..Len(stack) : stack[j].i # 0 => Open(stack[j].task)

Shaped == TypeOK /\ Fresh /\ Idle /\ Begun /\ Entered

Accounted == Shaped /\ BudgetAccounted /\ ScopesAccounted

(* The holders of a kind of guard are a finite set of frame numbers.       *)
LEMMA HoldersFinite ==
  ASSUME TypeOK, NEW what
  PROVE  /\ Holders(what) \subseteq 1..Len(stack)
         /\ Len(stack) \in Nat
         /\ IsFiniteSet(Holders(what))
         /\ Cardinality(Holders(what)) \in Nat
<1>1. Len(stack) \in Nat /\ Holders(what) \subseteq 1..Len(stack)
  BY LenProperties DEF TypeOK, Holders
<1>2. IsFiniteSet(1..Len(stack))
  BY <1>1, FS_Interval
<1>3. IsFiniteSet(Holders(what))
  BY <1>1, <1>2, FS_Subset
<1>4. QED
  BY <1>1, <1>3, FS_CardinalityType

(* Leaving the top frame removes it from the holders it was one of.        *)
LEMMA HoldersLeave ==
  ASSUME TypeOK, stack # <<>>, stack' = Pop(stack), NEW what
  PROVE  /\ Holders(what)' = Holders(what) \ {Len(stack)}
         /\ Cardinality(Holders(what)') =
              IF Top.held = what THEN Cardinality(Holders(what)) - 1
              ELSE Cardinality(Holders(what))
<1>1. /\ Len(stack) \in Nat \ {0}
      /\ Len(stack') = Len(stack) - 1
      /\ \A j \in 1..(Len(stack) - 1) : stack'[j] = stack[j]
  BY PopProperties DEF TypeOK
<1>2. Holders(what)' = Holders(what) \ {Len(stack)}
  BY <1>1 DEF Holders
<1>3. Len(stack) \in Holders(what) <=> Top.held = what
  BY <1>1 DEF Holders, Top
<1>4. QED
  BY <1>2, <1>3, HoldersFinite, FS_RemoveElement

(* Continuing the top frame with the same guard changes no holders.        *)
LEMMA HoldersContinue ==
  ASSUME TypeOK, stack # <<>>, NEW f \in Frame, f.held = Top.held, NEW what,
         stack' = [stack EXCEPT ![Len(stack)] = f]
  PROVE  Holders(what)' = Holders(what)
<1>1. Len(stack) \in Nat \ {0}
  BY EmptySeq DEF TypeOK
<1>2. /\ Len(stack') = Len(stack)
      /\ \A j \in 1..Len(stack) :
           stack'[j] = IF j = Len(stack) THEN f ELSE stack[j]
  BY <1>1, ExceptSeq DEF TypeOK
<1>3. QED
  BY <1>1, <1>2 DEF Holders, Top

(* A call adds the calling frame to the holders of what it newly holds;    *)
(* the frame below it holds nothing.                                       *)
LEMMA HoldersCall ==
  ASSUME TypeOK, stack # <<>>, NEW f \in Frame, NEW g \in Frame, g.held = "none",
         f.held = Top.held \/ Top.held = "none",
         NEW what \in {"guard", "scope"},
         stack' = Append([stack EXCEPT ![Len(stack)] = f], g)
  PROVE  /\ Holders(what)' =
              IF f.held = what THEN Holders(what) \cup {Len(stack)} ELSE Holders(what)
         /\ Cardinality(Holders(what)') =
              IF f.held = what /\ Top.held # what
              THEN Cardinality(Holders(what)) + 1
              ELSE Cardinality(Holders(what))
<1>1. /\ Len(stack) \in Nat \ {0}
      /\ Len(stack') = Len(stack) + 1
      /\ \A j \in 1..(Len(stack) - 1) : stack'[j] = stack[j]
      /\ stack'[Len(stack)] = f
      /\ stack'[Len(stack) + 1] = g
  BY EmptySeq, PushProperties DEF TypeOK
<1>2. Len(stack) \in Holders(what) <=> Top.held = what
  BY <1>1 DEF Holders, Top
<1>3. Holders(what)' =
        IF f.held = what THEN Holders(what) \cup {Len(stack)} ELSE Holders(what)
  <2>1. \A j : j \in Holders(what)' <=>
          \/ j \in 1..(Len(stack) - 1) /\ stack[j].held = what
          \/ j = Len(stack) /\ f.held = what
    BY <1>1 DEF Holders
  <2>2. \A j : j \in Holders(what) <=>
          \/ j \in 1..(Len(stack) - 1) /\ stack[j].held = what
          \/ j = Len(stack) /\ Top.held = what
    BY <1>1 DEF Holders, Top
  <2>3. QED
    BY <2>1, <2>2
<1>4. QED
  BY <1>2, <1>3, HoldersFinite, FS_AddElement

-----------------------------------------------------------------------------
(* What leaving, continuing and calling do to the invariant.               *)

(* The guards the frames hold are what SHAPE_DEPTH and DEF_STACK count, so *)
(* the destructor of the frame that leaves gives back exactly its own.     *)
LEMMA LeaveAccounted ==
  ASSUME EngineAssumption, Accounted, stack # <<>>, call # None,
         NEW r \in Match, Leave(r)
  PROVE  Shaped' /\ BudgetAccounted'
<1> USE DEF Leave
<1>1. /\ Len(stack) \in Nat \ {0}
      /\ Top \in Frame
      /\ stack' \in Seq(Frame)
      /\ Len(stack') = Len(stack) - 1
      /\ \A j \in 1..(Len(stack) - 1) : stack'[j] = stack[j]
  BY PopProperties DEF Accounted, Shaped, TypeOK, Top
<1>2. base \in Nat /\ depth \in Nat /\ MaxDepth \in Nat
  BY DEF Accounted, Shaped, TypeOK, EngineAssumption
<1>3. BudgetAccounted' /\ depth' \in 0..MaxDepth
  <2>1. Cardinality(Holders("guard")) \in Nat /\ Cardinality(Holders("guard")') \in Nat
    <3>1. Holders("guard")' = Holders("guard") \ {Len(stack)}
      BY HoldersLeave DEF Accounted, Shaped
    <3>2. QED
      BY <3>1, HoldersFinite, FS_RemoveElement, FS_CardinalityType DEF Accounted, Shaped
  <2>2. Cardinality(Holders("guard")') =
          IF Top.held = "guard" THEN Cardinality(Holders("guard")) - 1
          ELSE Cardinality(Holders("guard"))
    BY HoldersLeave DEF Accounted, Shaped
  <2>3. QED
    BY <1>2, <2>1, <2>2 DEF Accounted, Shaped, BudgetAccounted, TypeOK, DropDepth
<1>4. scopes' \in Seq(Shape)
  <2>1. Top.held = "scope" => Len(stack) \in Holders("scope")
    BY <1>1 DEF Holders, Top
  <2>2. Top.held = "scope" => Cardinality(Holders("scope")) # 0
    BY <2>1, HoldersFinite, FS_EmptySet DEF Accounted, Shaped
  <2>3. Top.held = "scope" => scopes # <<>>
    BY <2>2, EmptySeq DEF Accounted, ScopesAccounted
  <2>4. QED
    BY <2>3, PopProperties DEF Accounted, Shaped, TypeOK
<1>5. Fresh'
  BY <1>1 DEF Accounted, Shaped, Fresh
<1>6. Begun' /\ Entered'
  BY <1>1 DEF Accounted, Shaped, Begun, Entered, Waiting
<1>7. QED
  BY <1>1, <1>3, <1>4, <1>5, <1>6 DEF Accounted, Shaped, TypeOK, Idle

(* A frame that goes on keeps what it holds.                               *)
LEMMA ContinueAccounted ==
  ASSUME EngineAssumption, Accounted, stack # <<>>, call # None,
         NEW f \in Frame, f.held = Top.held, f.i # 0, Open(f.task), Continue(f)
  PROVE  Shaped' /\ BudgetAccounted'
<1> USE DEF Continue
<1>1. Len(stack) \in Nat \ {0}
  BY EmptySeq DEF Accounted, Shaped, TypeOK
<1>2. /\ stack' \in Seq(Frame)
      /\ Len(stack') = Len(stack)
      /\ \A j \in 1..Len(stack) : stack'[j] = IF j = Len(stack) THEN f ELSE stack[j]
  BY <1>1, ExceptSeq DEF Accounted, Shaped, TypeOK
<1>3. Nothing \in Match
  BY EmptySeq DEF Nothing, Match, Captures
<1>4. BudgetAccounted'
  BY HoldersContinue DEF Accounted, Shaped, BudgetAccounted
<1>5. Fresh' /\ Begun' /\ Entered'
  <2>1. \A j \in 1..(Len(stack) - 1) : stack[j].i # 0
    BY <1>1 DEF Accounted, Shaped, Begun, Waiting
  <2>2. ret'.st = "none"
    BY DEF Nothing
  <2> HIDE DEF Continue
  <2>3. Fresh'
    BY <1>1, <1>2 DEF Accounted, Shaped, Fresh
  <2>4. Begun'
    <3>1. Waiting' = Len(stack) - 1
      BY <1>2, <2>2 DEF Waiting
    <3>2. \A j \in 1..(Len(stack) - 1) : stack'[j] = stack[j]
      BY <1>1, <1>2
    <3>3. QED
      BY <2>1, <3>1, <3>2 DEF Begun
  <2>5. Entered'
    BY <1>1, <1>2 DEF Accounted, Shaped, Entered
  <2>6. QED
    BY <2>3, <2>4, <2>5
<1>6. QED
  BY <1>2, <1>3, <1>4, <1>5 DEF Accounted, Shaped, TypeOK, Idle

(* A new frame starts with nothing held and a natural score.               *)
LEMMA NewFrameTyped ==
  ASSUME NEW t \in Task
  PROVE  /\ NewFrame(t) \in Frame
         /\ NewFrame(t).i = 0
         /\ NewFrame(t).held = "none"
<1>1. BaseScore(t) \in Nat
  BY DEF BaseScore
<1>2. <<>> \in Captures
  BY EmptySeq DEF Captures
<1>3. QED
  BY <1>1, <1>2 DEF NewFrame, Frame

(* A call that newly holds a guard has taken one level from the counter;   *)
(* one that newly holds a scope has pushed its own definitions.            *)
LEMMA CallAccounted ==
  ASSUME EngineAssumption, Accounted, stack # <<>>, call # None,
         NEW f \in Frame, f.i # 0, Open(f.task), NEW t \in Task, CallFrom(f, t),
         ret.st = "none",
         f.held = Top.held \/ Top.held = "none",
         scopes' \in Seq(Shape),
         IF f.held = "guard" /\ Top.held # "guard"
         THEN depth < MaxDepth /\ depth' = depth + 1 ELSE depth' = depth
  PROVE  Shaped' /\ BudgetAccounted'
<1> USE DEF CallFrom
<1>1. /\ NewFrame(t) \in Frame
      /\ NewFrame(t).i = 0
      /\ NewFrame(t).held = "none"
  BY NewFrameTyped
<1>2. /\ stack' \in Seq(Frame)
      /\ Len(stack) \in Nat \ {0}
      /\ Len(stack') = Len(stack) + 1
      /\ \A j \in 1..(Len(stack) - 1) : stack'[j] = stack[j]
      /\ stack'[Len(stack)] = f
      /\ stack'[Len(stack) + 1] = NewFrame(t)
  <2> DEFINE g == NewFrame(t)
  <2>1. g \in Frame /\ stack' = Append([stack EXCEPT ![Len(stack)] = f], g)
    BY <1>1
  <2> HIDE DEF g
  <2>2. /\ stack' \in Seq(Frame)
        /\ Len(stack) \in Nat \ {0}
        /\ Len(stack') = Len(stack) + 1
        /\ \A j \in 1..(Len(stack) - 1) : stack'[j] = stack[j]
        /\ stack'[Len(stack)] = f
        /\ stack'[Len(stack) + 1] = g
    BY <2>1, EmptySeq, PushProperties DEF Accounted, Shaped, TypeOK
  <2>3. QED
    BY <2>2 DEF g
<1>3. BudgetAccounted' /\ depth' \in 0..MaxDepth
  <2>1. Cardinality(Holders("guard")') =
          IF f.held = "guard" /\ Top.held # "guard"
          THEN Cardinality(Holders("guard")) + 1
          ELSE Cardinality(Holders("guard"))
    BY <1>1, HoldersCall DEF Accounted, Shaped
  <2>2. Cardinality(Holders("guard")) \in Nat
    BY HoldersFinite DEF Accounted, Shaped
  <2>3. base \in Nat /\ depth \in 0..MaxDepth /\ MaxDepth \in Nat
    BY DEF Accounted, Shaped, TypeOK, EngineAssumption
  <2>4. QED
    BY <2>1, <2>2, <2>3 DEF Accounted, Shaped, BudgetAccounted
<1>4. Fresh' /\ Begun' /\ Entered'
  <2>1. \A j \in 1..(Len(stack) - 1) : stack[j].i # 0
    BY <1>2 DEF Accounted, Shaped, Begun, Waiting
  <2>2. QED
    BY <1>1, <1>2, <2>1 DEF Accounted, Shaped, Fresh, Begun, Entered, Waiting
<1>5. QED
  BY <1>2, <1>3, <1>4 DEF Accounted, Shaped, TypeOK, Idle

-----------------------------------------------------------------------------
(* The order of the definition scopes.                                     *)

(* The place a holder has in DEF_STACK is the number of scopes opened up   *)
(* to its frame, which is at least one and at most all of them.            *)
LEMMA PlaceInScopes ==
  ASSUME TypeOK, NEW H, H \subseteq Holders("scope"), NEW j \in H
  PROVE  /\ IsFiniteSet(H \cap 1..j)
         /\ Cardinality(H \cap 1..j) \in 1..Cardinality(H)
<1>1. IsFiniteSet(H) /\ j \in Nat \ {0}
  BY HoldersFinite, FS_Subset
<1>2. IsFiniteSet(H \cap 1..j) /\ Cardinality(H \cap 1..j) <= Cardinality(H)
  <2>1. H \cap 1..j \in SUBSET H
    OBVIOUS
  <2>2. QED
    BY <1>1, <2>1, FS_Subset
<1>3. Cardinality(H \cap 1..j) # 0
  <2>1. j \in H \cap 1..j
    BY <1>1
  <2>2. QED
    BY <1>2, <2>1, FS_EmptySet
<1>4. QED
  BY <1>1, <1>2, <1>3, FS_CardinalityType

(* A frame that leaves closes its own scope, the innermost.                *)
LEMMA LeaveScopes ==
  ASSUME EngineAssumption, Accounted, stack # <<>>, NEW r, Leave(r)
  PROVE  ScopesAccounted'
<1> DEFINE H == Holders("scope")
           n == Len(stack)
<1> USE DEF Leave
<1>1. /\ n \in Nat \ {0}
      /\ Len(stack') = n - 1
      /\ \A j \in 1..(n - 1) : stack'[j] = stack[j]
  BY PopProperties DEF Accounted, Shaped, TypeOK
<1>2. /\ Holders("scope")' = H \ {n}
      /\ Cardinality(Holders("scope")') =
           IF Top.held = "scope" THEN Cardinality(H) - 1 ELSE Cardinality(H)
      /\ n \in H <=> Top.held = "scope"
      /\ Cardinality(H) \in Nat
      /\ H \subseteq 1..n
  <2>1. n \in H <=> Top.held = "scope"
    BY <1>1 DEF Holders, Top
  <2>2. QED
    BY <2>1, HoldersLeave, HoldersFinite DEF Accounted, Shaped
<1>3. /\ Len(scopes) = Cardinality(H)
      /\ \A j \in H : scopes[Cardinality(H \cap 1..j)] = stack[j].task.shape
  BY DEF Accounted, ScopesAccounted
<1>4. CASE Top.held # "scope"
  <2>1. Holders("scope")' = H /\ scopes' = scopes
    BY <1>2, <1>4
  <2>2. \A j \in H : stack'[j] = stack[j]
    BY <1>1, <1>2, <1>4
  <2> HIDE DEF H
  <2>3. QED
    BY <1>3, <2>1, <2>2 DEF ScopesAccounted
<1>5. CASE Top.held = "scope"
  <2>1. Cardinality(H) # 0
    BY <1>2, <1>5, HoldersFinite, FS_EmptySet DEF Accounted, Shaped
  <2>2. /\ scopes' = Pop(scopes)
        /\ Len(scopes') = Len(scopes) - 1
        /\ \A k \in 1..(Len(scopes) - 1) : scopes'[k] = scopes[k]
    BY <1>3, <1>5, <2>1, EmptySeq, PopProperties DEF Accounted, Shaped, TypeOK
  <2>3. ASSUME NEW j \in H \ {n}
        PROVE  scopes'[Cardinality(Holders("scope")' \cap 1..j)] = stack'[j].task.shape
    <3>1. j \in 1..(n - 1)
      BY <1>1, <1>2
    <3>2. Holders("scope")' \cap 1..j = H \cap 1..j
      BY <1>1, <1>2, <3>1
    <3>3. Cardinality((H \ {n}) \cap 1..j) \in 1..Cardinality(H \ {n})
      BY PlaceInScopes DEF Accounted, Shaped
    <3>4. Cardinality(H \cap 1..j) \in 1..(Len(scopes) - 1)
      BY <1>2, <1>3, <1>5, <3>2, <3>3
    <3>5. scopes[Cardinality(H \cap 1..j)] = stack[j].task.shape
      BY <1>3
    <3> HIDE DEF H
    <3>6. QED
      BY <1>1, <2>2, <3>1, <3>2, <3>4, <3>5
  <2>4. Len(scopes') = Cardinality(Holders("scope")')
    BY <1>2, <1>3, <1>5, <2>2
  <2> HIDE DEF H
  <2>5. QED
    BY <1>2, <2>3, <2>4 DEF ScopesAccounted
<1>6. QED
  BY <1>4, <1>5

(* A frame that goes on closes nothing.                                    *)
LEMMA ContinueScopes ==
  ASSUME EngineAssumption, Accounted, stack # <<>>,
         NEW f \in Frame, f.held = Top.held, f.task = Top.task, Continue(f)
  PROVE  ScopesAccounted'
<1> USE DEF Continue
<1>1. Len(stack) \in Nat \ {0}
  BY EmptySeq DEF Accounted, Shaped, TypeOK
<1>2. \A j \in 1..Len(stack) : stack'[j].task = stack[j].task
  BY <1>1, ExceptSeq DEF Accounted, Shaped, TypeOK, Top
<1>3. Holders("scope")' = Holders("scope")
  BY HoldersContinue DEF Accounted, Shaped
<1>4. Holders("scope") \subseteq 1..Len(stack)
  BY DEF Holders
<1>5. QED
  BY <1>2, <1>3, <1>4 DEF Accounted, ScopesAccounted

(* A call that opens a scope puts its own shape innermost.                 *)
LEMMA CallScopes ==
  ASSUME EngineAssumption, Accounted, stack # <<>>,
         NEW f \in Frame, f.task = Top.task, NEW t \in Task, CallFrom(f, t),
         f.held = Top.held \/ Top.held = "none",
         IF f.held = "scope" /\ Top.held # "scope"
         THEN scopes' = Append(scopes, Top.task.shape) ELSE scopes' = scopes
  PROVE  ScopesAccounted'
<1> DEFINE H == Holders("scope")
           n == Len(stack)
<1> USE DEF CallFrom
<1>1. /\ NewFrame(t) \in Frame
      /\ NewFrame(t).held = "none"
  BY NewFrameTyped
<1>2. /\ n \in Nat \ {0}
      /\ \A j \in 1..n : stack'[j].task = stack[j].task
  <2> DEFINE g == NewFrame(t)
  <2>1. g \in Frame /\ stack' = Append([stack EXCEPT ![Len(stack)] = f], g)
    BY <1>1
  <2> HIDE DEF g
  <2>2. /\ Len(stack) \in Nat \ {0}
        /\ \A j \in 1..(Len(stack) - 1) : stack'[j] = stack[j]
        /\ stack'[Len(stack)] = f
    BY <2>1, EmptySeq, PushProperties DEF Accounted, Shaped, TypeOK
  <2>3. QED
    BY <2>2 DEF Top
<1>3. /\ Holders("scope")' = IF f.held = "scope" THEN H \cup {n} ELSE H
      /\ Cardinality(Holders("scope")') =
           IF f.held = "scope" /\ Top.held # "scope"
           THEN Cardinality(H) + 1 ELSE Cardinality(H)
  BY <1>1, HoldersCall DEF Accounted, Shaped
<1>4. /\ n \in H <=> Top.held = "scope"
      /\ H \subseteq 1..n
      /\ Cardinality(H) \in Nat
  <2>1. n \in H <=> Top.held = "scope"
    BY <1>2 DEF Holders, Top
  <2> HIDE DEF n
  <2>2. QED
    BY <2>1, HoldersFinite DEF Accounted, Shaped, n
<1>5. /\ Len(scopes) = Cardinality(H)
      /\ \A j \in H : scopes[Cardinality(H \cap 1..j)] = stack[j].task.shape
  BY DEF Accounted, ScopesAccounted
<1>6. CASE ~(f.held = "scope" /\ Top.held # "scope")
  <2>1. Holders("scope")' = H /\ scopes' = scopes
    BY <1>3, <1>4, <1>6
  <2> HIDE DEF H
  <2>2. QED
    BY <1>2, <1>4, <1>5, <2>1 DEF ScopesAccounted
<1>7. CASE f.held = "scope" /\ Top.held # "scope"
  <2>1. Top.task.shape \in Shape
    BY <1>2, ElementOfSeq DEF Accounted, Shaped, TypeOK, Top, Frame, Task
  <2>2. /\ Len(scopes') = Len(scopes) + 1
        /\ \A k \in 1..Len(scopes) : scopes'[k] = scopes[k]
        /\ scopes'[Len(scopes) + 1] = Top.task.shape
    BY <1>7, <2>1, AppendProperties DEF Accounted, Shaped, TypeOK
  <2>3. Holders("scope")' = H \cup {n} /\ n \notin H
    BY <1>3, <1>4, <1>7
  <2>4. ASSUME NEW j \in H
        PROVE  scopes'[Cardinality(Holders("scope")' \cap 1..j)] = stack'[j].task.shape
    <3>1. Holders("scope")' \cap 1..j = H \cap 1..j
      BY <1>2, <1>4, <2>3
    <3>2. Cardinality(H \cap 1..j) \in 1..Len(scopes)
      BY <1>5, PlaceInScopes DEF Accounted, Shaped
    <3>3. scopes[Cardinality(H \cap 1..j)] = stack[j].task.shape
      BY <1>5
    <3>4. stack'[j].task = stack[j].task
      BY <1>2, <1>4
    <3> HIDE DEF H
    <3>5. QED
      BY <2>2, <3>1, <3>2, <3>3, <3>4
  <2>5. scopes'[Cardinality(Holders("scope")' \cap 1..n)] = stack'[n].task.shape
    <3>1. Holders("scope")' \cap 1..n = Holders("scope")'
      BY <1>2, <1>4, <2>3
    <3>2. Cardinality(Holders("scope")') = Len(scopes) + 1
      BY <1>3, <1>5, <1>7
    <3>3. stack'[n].task = Top.task
      BY <1>2 DEF Top
    <3>4. QED
      BY <2>2, <3>1, <3>2, <3>3
  <2>6. Len(scopes') = Cardinality(Holders("scope")')
    BY <1>3, <1>5, <1>7, <2>2
  <2> HIDE DEF H, n
  <2>7. QED
    BY <2>3, <2>4, <2>5, <2>6 DEF ScopesAccounted
<1>8. QED
  BY <1>6, <1>7

-----------------------------------------------------------------------------
(* Typing of what a frame returns, resolves and calls.                     *)

(* Every outcome built from a score and captures is a match.               *)
LEMMA OutcomeTyped ==
  /\ Reject \in Match /\ Error \in Match /\ Nothing \in Match
  /\ \A n \in Nat, c \in Captures : Accept(n, c) \in Match
  /\ \A b \in BOOLEAN, n \in Nat : Verdict(b, n) \in Match
<1>1. <<>> \in Captures
  BY EmptySeq DEF Captures
<1>2. QED
  BY <1>1 DEF Reject, Error, Nothing, Accept, Verdict, Match

(* A capture added to typed captures.                                      *)
LEMMA BindTyped ==
  ASSUME NEW c \in Captures, NEW name \in Symbol, NEW e \in Expr, NEW k \in Nat
  PROVE  Append(c, Bind(name, e, k)) \in Captures
<1>1. Bind(name, e, k) \in [name: Symbol, of: Expr, num: Nat]
  BY DEF Bind
<1>2. QED
  BY <1>1, AppendProperties DEF Captures

(* A leaf shape's answer is a match, whatever the term.                    *)
LEMMA LeafTyped ==
  ASSUME NEW t \in Task
  PROVE  LeafResult(t) \in Match
<1>1. <<>> \in Captures
  BY EmptySeq DEF Captures
<1>2. CASE Kind(t) = "any"
  BY <1>1, <1>2, OutcomeTyped DEF LeafResult
<1>3. CASE Kind(t) = "exprKind"
  BY <1>3, OutcomeTyped DEF LeafResult
<1>4. CASE Kind(t) = "exact"
  BY <1>4, OutcomeTyped DEF LeafResult
<1>5. CASE Kind(t) = "number"
  BY <1>5, OutcomeTyped DEF LeafResult
<1>6. CASE Kind(t) = "record"
  BY <1>6, OutcomeTyped DEF LeafResult
<1>7. CASE Kind(t) \notin {"any", "exprKind", "exact", "number", "record"}
  BY <1>7, OutcomeTyped DEF LeafResult
<1>8. QED
  BY <1>2, <1>3, <1>4, <1>5, <1>6, <1>7

(* A class shape's direct answer is a match.                               *)
LEMMA ClassTyped ==
  ASSUME NEW t \in Task
  PROVE  ClassDirect(t) \in Match
<1>1. OfClass(t) \in BOOLEAN
  BY DEF OfClass
<1>2. CASE t.path = "value"
  BY <1>1, <1>2, OutcomeTyped DEF ClassDirect
<1>3. CASE t.path # "value" /\ Form(t) = "construct"
  BY <1>1, <1>3, OutcomeTyped DEF ClassDirect
<1>4. CASE t.path # "value" /\ Form(t) = "symbol"
  BY <1>1, <1>4, OutcomeTyped DEF ClassDirect
<1>5. CASE t.path # "value" /\ Form(t) \notin {"construct", "symbol"} /\ IsObject(t)
  BY <1>1, <1>5, OutcomeTyped DEF ClassDirect
<1>6. CASE t.path # "value" /\ Form(t) \notin {"construct", "symbol"} /\ ~IsObject(t)
  BY <1>6, OutcomeTyped DEF ClassDirect
<1>7. QED
  BY <1>2, <1>3, <1>4, <1>5, <1>6

(* The shape a name resolves to is found in the same place by the walk of  *)
(* the engine and by its meaning.                                          *)
LEMMA ResolvedSame ==
  ASSUME NEW scope \in Seq(Shape), NEW name
  PROVE  /\ DefiningScopes(scope, name) # {} <=> DefinedIn(scope, name)
         /\ DefinedIn(scope, name) => Resolved(scope, name) = ResolveIn(scope, name)
<1> DEFINE T == DefiningScopes(scope, name)
<1>1. T # {} <=> DefinedIn(scope, name)
      BY DEF DefiningScopes, DefinedIn
<1>2. ASSUME DefinedIn(scope, name)
      PROVE  Resolved(scope, name) = ResolveIn(scope, name)
  <2>1. Len(scope) \in Nat /\ T \in SUBSET (1..Len(scope)) /\ T # {}
        BY <1>1, <1>2, LenProperties DEF DefiningScopes
  <2>2. Max(T) \in T /\ \A j \in T : j <= Max(T)
    <3> HIDE DEF T
    <3> QED BY <2>1, MaxIs
  <2> DEFINE at == CHOOSE i \in DOMAIN scope :
                     /\ Defines(scope[i], name)
                     /\ \A j \in DOMAIN scope : Defines(scope[j], name) => j <= i
  <2>3. \E i \in DOMAIN scope :
          /\ Defines(scope[i], name)
          /\ \A j \in DOMAIN scope : Defines(scope[j], name) => j <= i
        BY <2>2 DEF DefiningScopes
  <2>4. at \in T /\ \A j \in T : j <= at
        BY <2>3 DEF DefiningScopes
  <2>5. at = Max(T)
    <3> HIDE DEF at, T
    <3>2. \A j \in T : j \in Nat
      <4>1. \A j \in 1..Len(scope) : j \in Nat
            BY <2>1
      <4> QED BY <2>1, <4>1
    <3>1. at \in Nat /\ Max(T) \in Nat /\ at <= Max(T) /\ Max(T) <= at
          BY <2>2, <2>4, <3>2
    <3> QED BY <3>1
  <2>6. ResolveIn(scope, name) = LastDef(scope[at], name)
        BY DEF ResolveIn
  <2> HIDE DEF at
  <2> QED BY <2>5, <2>6 DEF Resolved
<1> QED BY <1>1, <1>2

(* So it resolves to a shape of the graph.                                 *)
LEMMA ResolveTyped ==
  ASSUME NEW scope \in Seq(Shape), NEW name, DefinedIn(scope, name)
  PROVE  ResolveIn(scope, name) \in Shape
BY ResolvedSame, ResolvedTyped

(* What a loop answers at its end.                                         *)
LEMMA LoopResultTyped ==
  ASSUME EngineAssumption, NEW f \in Frame, Kind(f.task) \in LoopKinds, Open(f.task)
  PROVE  LoopResult(f) \in Match
<1>1. f.task \in Task /\ f.score \in Nat /\ f.caps \in Captures /\ f.pick \in Nat
  BY DEF Frame
<1>2. f.task.expr \in Expr /\ Len(Items(f.task)) \in Nat
  BY <1>1, GraphTyped, LenProperties DEF TermType, Items
<1>3. \A name \in Symbol, k \in Nat : Own(f, name, k) \in Match
  BY <1>1, <1>2, BindTyped, OutcomeTyped DEF Own
<1>4. /\ Reject \in Match /\ Accept(f.score, f.caps) \in Match
      /\ Own(f, "branch-index", f.pick) \in Match
      /\ Own(f, "repeat-count", Len(Items(f.task))) \in Match
      /\ Own(f, "matched-keys", 0) \in Match
  <2>1. "branch-index" \in Symbol /\ "repeat-count" \in Symbol /\ "matched-keys" \in Symbol
    BY GraphAssumption DEF GraphAssumption, GraphOK, OwnCaptures
  <2>2. f.pick \in Nat /\ Len(Items(f.task)) \in Nat /\ 0 \in Nat
    BY <1>1, <1>2
  <2>3. QED
    BY <1>1, <1>3, <2>1, <2>2, OutcomeTyped, Zenon
<1>5. CASE Kind(f.task) \in AnyKinds
  BY <1>4, <1>5 DEF LoopResult, AnyKinds
<1>6. CASE Kind(f.task) = "best"
  BY <1>4, <1>6 DEF LoopResult, AnyKinds
<1>7. CASE Kind(f.task) = "repeat"
  BY <1>4, <1>7 DEF LoopResult, AnyKinds
<1>8. CASE Kind(f.task) = "table"
  BY <1>4, <1>8 DEF LoopResult, AnyKinds
<1>9. CASE Kind(f.task) = "cell"
  <2> DEFINE name == Node[f.task.shape].name
             bound == Accept(f.score, Append(f.caps, Bind(name, CellChild(f.task).expr, 0)))
  <2>1. CASE CellIsNull(f.task) \/ name = None
    <3>1. LoopResult(f) = Accept(f.score, f.caps)
      BY <1>9, <2>1 DEF LoopResult, AnyKinds
    <3>2. QED
      BY <1>4, <3>1
  <2>2. CASE ~CellIsNull(f.task) /\ name # None
    <3>1. LoopResult(f) = bound
      BY <1>9, <2>2, Zenon DEF LoopResult, AnyKinds
    <3>2. CellChild(f.task).expr \in Expr
      BY <1>1, <1>9, CellTyped DEF Task
    <3>3. name \in Symbol
      BY <1>1, <2>2, GraphTyped DEF NodeType
    <3> HIDE DEF name
    <3>4. Append(f.caps, Bind(name, CellChild(f.task).expr, 0)) \in Captures
      BY <1>1, <3>2, <3>3, BindTyped
    <3>5. QED
      BY <1>1, <3>1, <3>4, OutcomeTyped
  <2>3. QED
    BY <2>1, <2>2
<1>10. CASE Kind(f.task) \notin AnyKinds \cup {"best", "repeat", "table", "cell"}
  BY <1>4, <1>10 DEF LoopResult
<1>11. QED
  BY <1>5, <1>6, <1>7, <1>8, <1>9, <1>10

-----------------------------------------------------------------------------
(* Every action keeps the invariant.                                       *)

(* The top frame of a running call.                                        *)
LEMMA TopTyped ==
  ASSUME EngineAssumption, Accounted, stack # <<>>
  PROVE  /\ Top \in Frame /\ Top.task \in Task /\ Top.i \in Nat
         /\ Top.score \in Nat /\ Top.caps \in Captures /\ Top.pick \in Nat
         /\ call # None
         /\ Top.i = 0 => Top.held = "none"
         /\ Top.i # 0 => Open(Top.task)
         /\ ret \in Match
         /\ ret.st # "none" => Top.i # 0
<1>1. Len(stack) \in Nat \ {0} /\ stack[Len(stack)] \in Frame
  BY PopProperties DEF Accounted, Shaped, TypeOK
<1>2. Top \in Frame
  BY <1>1 DEF Top
<1>3. /\ Top.i = 0 => Top.held = "none"
      /\ Top.i # 0 => Open(Top.task)
      /\ ret.st # "none" => Top.i # 0
  BY <1>1 DEF Accounted, Shaped, Fresh, Entered, Begun, Waiting, Top
<1>4. call # None /\ ret \in Match
  BY DEF Accounted, Shaped, Idle, TypeOK
<1>5. QED
  BY <1>2, <1>3, <1>4 DEF Frame

(* A step that leaves the top frame with a match keeps the invariant.      *)
LEMMA LeaveKeeps ==
  ASSUME EngineAssumption, Accounted, stack # <<>>, NEW r \in Match, Leave(r)
  PROVE  Accounted'
BY TopTyped, LeaveAccounted, LeaveScopes DEF Accounted

(* So does one that continues it in its own task, with its own guard.      *)
LEMMA ContinueKeeps ==
  ASSUME EngineAssumption, Accounted, stack # <<>>,
         NEW f \in Frame, f.held = Top.held, f.task = Top.task, f.i # 0, Open(f.task),
         Continue(f)
  PROVE  Accounted'
BY TopTyped, ContinueAccounted, ContinueScopes DEF Accounted

(* And one that calls a child, if what it newly holds is paid for.         *)
LEMMA CallKeeps ==
  ASSUME EngineAssumption, Accounted, Calling,
         NEW f \in Frame, f.task = Top.task, f.i # 0, Open(f.task),
         f.held = Top.held \/ Top.held = "none",
         NEW t \in Task, CallFrom(f, t),
         IF f.held = "guard" /\ Top.held # "guard"
         THEN depth < MaxDepth /\ depth' = depth + 1 ELSE depth' = depth,
         IF f.held = "scope" /\ Top.held # "scope"
         THEN scopes' = Append(scopes, Top.task.shape) ELSE scopes' = scopes
  PROVE  Accounted'
<1>1. scopes' \in Seq(Shape)
  <2>1. Top.task.shape \in Shape /\ scopes \in Seq(Shape)
    BY TopTyped DEF Calling, Task, Accounted, Shaped, TypeOK
  <2>2. QED
    BY <2>1, AppendProperties
<1>2. QED
  BY <1>1, TopTyped, CallAccounted, CallScopes DEF Accounted, Calling

(* Every way to answer a call at once or to open a shape keeps the         *)
(* account: a frame that takes a level or a scope is on the stack as its   *)
(* holder.                                                                 *)
LEMMA CallsKeep ==
  ASSUME EngineAssumption, Accounted, Calls
  PROVE  Accounted'
<1>1. CASE Leaf
  BY <1>1, TopTyped, LeafTyped, LeaveKeeps DEF Leaf, Calling
<1>2. CASE RefExhausted
  BY <1>2, OutcomeTyped, LeaveKeeps DEF RefExhausted, Entering, Calling
<1>3. CASE RefUndefined
  BY <1>3, OutcomeTyped, LeaveKeeps DEF RefUndefined, Entering, Calling
<1>4. CASE RefResolved
  <2> DEFINE f == [Top EXCEPT !.i = 1, !.held = "guard"]
             t == Job(ResolveIn(scopes, RefName), Top.task.expr, Top.task.path)
  <2>1. /\ Calling /\ Top.i = 0 /\ Kind(Top.task) = "ref" /\ ~BudgetSpent
        /\ DefinedIn(scopes, RefName) /\ depth' = depth + 1 /\ scopes' = scopes
        /\ CallFrom(f, t)
    BY <1>4 DEF RefResolved, Entering
  <2>2. f \in Frame /\ f.task = Top.task /\ f.i = 1 /\ f.held = "guard" /\ Top.held = "none"
    BY <2>1, TopTyped DEF Frame, Calling
  <2>3. t \in Task
    <3>1. ResolveIn(scopes, RefName) \in Shape
      BY <2>1, ResolveTyped DEF Accounted, Shaped, TypeOK
    <3>2. QED
      BY <2>1, <3>1, TopTyped, JobTyped DEF Calling, Task
  <2>4. Open(f.task)
    BY <2>1, <2>2 DEF Open, LoopKinds, AllKinds, AnyKinds, WrapKinds
  <2>5. depth < MaxDepth
    BY <2>1 DEF BudgetSpent, Accounted, Shaped, TypeOK, EngineAssumption
  <2> HIDE DEF f, t
  <2>6. QED
    BY <2>1, <2>2, <2>3, <2>4, <2>5, CallKeeps
<1>5. CASE DefsEnter
  <2> DEFINE f == [Top EXCEPT !.i = 1, !.held = "scope"]
             t == Job(Kids(Top.task)[1], Top.task.expr, Top.task.path)
  <2>1. /\ Calling /\ Top.i = 0 /\ Kind(Top.task) = "defs"
        /\ scopes' = Append(scopes, Top.task.shape) /\ depth' = depth
        /\ CallFrom(f, t)
    BY <1>5 DEF DefsEnter, Entering
  <2>2. f \in Frame /\ f.task = Top.task /\ f.i = 1 /\ f.held = "scope" /\ Top.held = "none"
    BY <2>1, TopTyped DEF Frame, Calling
  <2>3. t \in Task
    <3>1. Kids(Top.task)[1] \in Shape
      BY <2>1, TopTyped, GraphTyped, PartsTyped DEF Calling, NodeOK, Kind, Kids
    <3>2. QED
      BY <2>1, <3>1, TopTyped, JobTyped DEF Calling, Task
  <2>4. Open(f.task)
    BY <2>1, <2>2 DEF Open, LoopKinds, AllKinds, AnyKinds, WrapKinds
  <2> HIDE DEF f, t
  <2>5. QED
    BY <2>1, <2>2, <2>3, <2>4, CallKeeps
<1>6. CASE ClassAnswers
  BY <1>6, TopTyped, ClassTyped, LeaveKeeps DEF ClassAnswers, Entering, Calling
<1>7. CASE ClassExhausted
  BY <1>7, OutcomeTyped, LeaveKeeps DEF ClassExhausted, Entering, Calling
<1>8. CASE ClassInstance
  <2> DEFINE f == [Top EXCEPT !.i = 1, !.held = "guard"]
             t == Job(Kids(Top.task)[1], Top.task.expr, "expr")
  <2>1. /\ Calling /\ Top.i = 0 /\ Kind(Top.task) = "class" /\ ~BudgetSpent
        /\ ClassOpens(Top.task) /\ depth' = depth + 1 /\ scopes' = scopes
        /\ CallFrom(f, t)
    BY <1>8 DEF ClassInstance, Entering
  <2>2. f \in Frame /\ f.task = Top.task /\ f.i = 1 /\ f.held = "guard" /\ Top.held = "none"
    BY <2>1, TopTyped DEF Frame, Calling
  <2>3. t \in Task
    <3>1. Kids(Top.task) # <<>> /\ Top.task \in Task
      BY <2>1, TopTyped DEF ClassOpens, Calling
    <3>2. Kids(Top.task)[1] \in Shape
      BY <3>1, PartsTyped, EmptySeq
    <3>3. QED
      BY <3>1, <3>2, JobTyped DEF Task, Paths
  <2>4. Open(f.task)
    BY <2>1, <2>2 DEF Open, LoopKinds, AllKinds, AnyKinds, WrapKinds
  <2>5. depth < MaxDepth
    BY <2>1 DEF BudgetSpent, Accounted, Shaped, TypeOK, EngineAssumption
  <2> HIDE DEF f, t
  <2>6. QED
    BY <2>1, <2>2, <2>3, <2>4, <2>5, CallKeeps
<1>9. QED
  BY <1>1, <1>2, <1>3, <1>4, <1>5, <1>6, <1>7, <1>8 DEF Calls

(* Every step of a walk over items, fields or a tail keeps the account.    *)
LEMMA LoopsKeep ==
  ASSUME EngineAssumption, Accounted, Loops
  PROVE  Accounted'
<1>1. CASE LoopFails
  BY <1>1, OutcomeTyped, LeaveKeeps DEF LoopFails, Looping, Calling
<1>2. CASE LoopRefuse
  BY <1>2, OutcomeTyped, LeaveKeeps DEF LoopRefuse, Looping, Calling
<1>3. CASE LoopEnter
  <2> DEFINE f == [Top EXCEPT !.i = 1]
  <2>1. Calling /\ Continue(f) /\ Open(Top.task)
    BY <1>3 DEF LoopEnter, Looping, Open
  <2>2. f \in Frame /\ f.task = Top.task /\ f.i = 1 /\ f.held = Top.held
    BY <2>1, TopTyped DEF Frame, Calling
  <2> HIDE DEF f
  <2>3. QED
    BY <2>1, <2>2, ContinueKeeps DEF Calling
<1>4. CASE LoopBlock
  BY <1>4, OutcomeTyped, LeaveKeeps DEF LoopBlock, Looping, Calling
<1>5. CASE LoopSkip
  <2> DEFINE f == [Top EXCEPT !.i = @ + 1]
  <2>1. Calling /\ Top.i > 0 /\ Continue(f)
    BY <1>5 DEF LoopSkip, InLoop, Looping
  <2>2. /\ f \in Frame /\ f.task = Top.task /\ f.i # 0 /\ f.held = Top.held
        /\ Open(Top.task)
    BY <2>1, TopTyped DEF Frame, Calling
  <2> HIDE DEF f
  <2>3. QED
    BY <2>1, <2>2, ContinueKeeps DEF Calling
<1>6. CASE LoopCall
  <2> DEFINE t == Child(Top.task, Top.i)
  <2>1. /\ Calling /\ Kind(Top.task) \in LoopKinds /\ Top.i > 0
        /\ Top.i <= LoopLen(Top.task) /\ t # None
        /\ CallFrom(Top, t) /\ depth' = depth /\ scopes' = scopes
    BY <1>6 DEF LoopCall, InLoop, Looping
  <2>2. /\ Top \in Frame /\ Top.task \in Task /\ Top.i \in Nat \ {0}
        /\ Open(Top.task)
    BY <2>1, TopTyped DEF Calling
  <2>3. t \in Task
    BY <2>1, <2>2, ChildTyped
  <2> HIDE DEF t
  <2>4. QED
    BY <2>1, <2>2, <2>3, CallKeeps
<1>7. CASE LoopFinish
  <2>1. /\ Calling /\ Kind(Top.task) \in LoopKinds /\ Top.i > 0
        /\ Leave(LoopResult(Top))
    BY <1>7 DEF LoopFinish, Looping
  <2>2. Top \in Frame /\ Open(Top.task)
    BY <2>1, TopTyped DEF Calling
  <2>3. LoopResult(Top) \in Match
    BY <2>1, <2>2, LoopResultTyped
  <2>4. QED
    BY <2>1, <2>3, LeaveKeeps DEF Calling
<1>8. QED
  BY <1>1, <1>2, <1>3, <1>4, <1>5, <1>6, <1>7 DEF Loops

(* What a frame keeps of its child's result is typed.                      *)
LEMMA JoinTyped ==
  ASSUME EngineAssumption, Accounted, Returning
  PROVE  /\ Joined \in Frame /\ Joined.task = Top.task /\ Joined.held = Top.held
         /\ Joined.i = Top.i + 1 /\ Joined.score \in Nat /\ Joined.caps \in Captures
<1>1. /\ Top \in Frame /\ Top.caps \in Captures /\ Top.score \in Nat
      /\ ret.caps \in Captures /\ ret.score \in Nat /\ Top.i \in Nat
  BY TopTyped DEF Returning, Match
<1> DEFINE n == Top.i + 1
           s == IF Kind(Top.task) = "row" THEN Top.score ELSE Top.score + ret.score
           c == Top.caps \o ret.caps
<1>2. n \in Nat /\ s \in Nat /\ c \in Captures
  BY <1>1, ConcatProperties DEF Captures
<1>3. Joined = [Top EXCEPT !.i = n, !.score = s, !.caps = c]
  BY DEF Joined
<1> HIDE DEF n, s, c
<1>4. /\ Joined \in Frame /\ Joined.task = Top.task /\ Joined.held = Top.held
      /\ Joined.i = n /\ Joined.score = s /\ Joined.caps = c
  <2>1. Joined \in Frame
    BY <1>1, <1>2, <1>3 DEF Frame
  <2>2. /\ Joined.task = Top.task /\ Joined.held = Top.held
        /\ Joined.i = n /\ Joined.score = s /\ Joined.caps = c
    BY <1>1, <1>2, <1>3 DEF Frame
  <2>3. QED
    BY <2>1, <2>2
<1>5. QED
  BY <1>2, <1>4 DEF n

(* Every return to a frame keeps the account: the frame that is left gives *)
(* back what it took, the one that goes on keeps it.                       *)
LEMMA ReturnsKeep ==
  ASSUME EngineAssumption, Accounted, Returns
  PROVE  Accounted'
<1>1. ASSUME Returning
      PROVE  /\ stack # <<>> /\ Top \in Frame /\ Top.i \in Nat \ {0} /\ Open(Top.task)
             /\ Top.task \in Task /\ Top.task.expr \in Expr
             /\ ret \in Match /\ ret.score \in Nat /\ ret.caps \in Captures
  BY <1>1, TopTyped DEF Returning, Match, Task
<1>2. CASE Unwind
  BY <1>2, OutcomeTyped, LeaveKeeps DEF Unwind, Returning
<1>3. CASE AllContinue
  <2>1. Returning /\ Continue(Joined)
    BY <1>3 DEF AllContinue, From
  <2>2. QED
    BY <1>1, <2>1, JoinTyped, ContinueKeeps
<1>4. CASE AllTailStop
  <2>1. Returning /\ Leave(Accept(Joined.score, Joined.caps))
    BY <1>4 DEF AllTailStop, From
  <2>2. QED
    BY <1>1, <2>1, JoinTyped, OutcomeTyped, LeaveKeeps
<1>5. CASE AllReject
  BY <1>5, OutcomeTyped, LeaveKeeps DEF AllReject, From, Returning
<1>6. CASE AnyAccept
  <2>1. Returning
    BY <1>6 DEF AnyAccept, From
  <2>2. "branch-index" \in Symbol /\ Top.i \in Nat
    BY <1>1, <2>1, GraphAssumption DEF GraphAssumption, GraphOK, OwnCaptures
  <2>3. Accept(ret.score, Append(ret.caps, Bind("branch-index", Top.task.expr, Top.i)))
          \in Match
    BY <1>1, <2>1, <2>2, BindTyped, OutcomeTyped
  <2>4. QED
    BY <1>1, <1>6, <2>1, <2>3, LeaveKeeps DEF AnyAccept
<1>7. CASE AnyNext
  <2> DEFINE f == [Top EXCEPT !.i = @ + 1]
  <2>1. Returning /\ Continue(f)
    BY <1>7 DEF AnyNext, From
  <2>2. f \in Frame /\ f.task = Top.task /\ f.i # 0 /\ f.held = Top.held
    BY <1>1, <2>1 DEF Frame
  <2> HIDE DEF f
  <2>3. QED
    BY <1>1, <2>1, <2>2, ContinueKeeps
<1>8. CASE BestNext
  <2> DEFINE g == [Top EXCEPT !.i = @ + 1]
             h == [Top EXCEPT !.i = @ + 1, !.pick = Top.i,
                              !.score = ret.score, !.caps = ret.caps]
  <2>1. Returning /\ (Continue(g) \/ Continue(h))
    BY <1>8 DEF BestNext, From
  <2>2. g \in Frame /\ g.task = Top.task /\ g.i # 0 /\ g.held = Top.held
    BY <1>1, <2>1 DEF Frame
  <2>3. h \in Frame /\ h.task = Top.task /\ h.i # 0 /\ h.held = Top.held
    <3> DEFINE n == Top.i + 1
    <3>1. n \in Nat /\ n # 0 /\ h = [Top EXCEPT !.i = n, !.pick = Top.i,
                                        !.score = ret.score, !.caps = ret.caps]
      BY <1>1, <2>1
    <3> HIDE DEF h, n
    <3>2. h \in Frame
      BY <1>1, <2>1, <3>1 DEF Frame
    <3>3. h.task = Top.task /\ h.held = Top.held /\ h.i = n
      BY <1>1, <2>1, <3>1 DEF Frame
    <3>4. QED
      BY <3>1, <3>2, <3>3
  <2> HIDE DEF g, h
  <2>4. QED
    BY <1>1, <2>1, <2>2, <2>3, ContinueKeeps
<1>9. CASE NotReturn
  <2>1. Returning
    BY <1>9 DEF NotReturn, From
  <2>2. "negated" \in Symbol
    BY GraphAssumption DEF GraphAssumption, GraphOK, OwnCaptures
  <2>3. <<>> \in Captures /\ <<Bind("negated", Top.task.expr, 0)>> = Append(<<>>, Bind("negated", Top.task.expr, 0))
    BY EmptySeq DEF Captures
  <2>4. Accept(10, <<Bind("negated", Top.task.expr, 0)>>) \in Match
    BY <1>1, <2>1, <2>2, <2>3, BindTyped, OutcomeTyped
  <2>5. QED
    BY <1>1, <1>9, <2>1, <2>4, OutcomeTyped, LeaveKeeps DEF NotReturn
<1>10. CASE CaptureReturn
  <2>1. Returning /\ Kind(Top.task) = "capture"
    BY <1>10 DEF CaptureReturn, From
  <2>2. Node[Top.task.shape].name \in Symbol
    BY <1>1, <2>1, GraphTyped DEF NodeOK, NodeType, Kind
  <2>3. Accept(ret.score, Append(ret.caps, Bind(Node[Top.task.shape].name, Top.task.expr, 0)))
          \in Match
    BY <1>1, <2>1, <2>2, BindTyped, OutcomeTyped
  <2>4. QED
    BY <1>1, <1>10, <2>1, <2>3, OutcomeTyped, LeaveKeeps DEF CaptureReturn
<1>11. CASE PassReturn
  BY <1>1, <1>11, LeaveKeeps DEF PassReturn, From
<1>12. CASE ClassReturn
  <2>1. Accept(30, <<>>) \in Match
    BY EmptySeq, OutcomeTyped DEF Captures
  <2>2. QED
    BY <1>1, <1>12, <2>1, OutcomeTyped, LeaveKeeps DEF ClassReturn, From
<1>13. QED
  BY <1>2, <1>3, <1>4, <1>5, <1>6, <1>7, <1>8, <1>9, <1>10, <1>11, <1>12 DEF Returns

-----------------------------------------------------------------------------
(* The theorems.                                                           *)

(* Between checks, with the caller's levels as the base, nothing is held.  *)
LEMMA InitAccounted ==
  ASSUME EngineAssumption, Init
  PROVE  Accounted
<1>1. /\ stack = <<>> /\ Len(stack) = 0 /\ scopes = <<>> /\ Len(scopes) = 0
      /\ call = None /\ ret = Nothing /\ depth = base /\ base \in Bases
  BY DEF Init
<1>2. Holders("guard") = {} /\ Holders("scope") = {}
  BY <1>1 DEF Holders
<1>3. TypeOK
  BY <1>1, EmptySeq, OutcomeTyped DEF TypeOK, EngineAssumption
<1>4. Fresh /\ Idle /\ Begun /\ Entered
  BY <1>1 DEF Fresh, Idle, Begun, Entered, Waiting, Nothing
<1>5. BudgetAccounted
  <2>1. base \in Nat
    BY <1>1 DEF EngineAssumption
  <2>2. Cardinality(Holders("guard")) = 0
    BY <1>2, FS_EmptySet
  <2>3. QED
    BY <1>1, <2>1, <2>2 DEF BudgetAccounted
<1>6. ScopesAccounted
  BY <1>1, <1>2, FS_EmptySet DEF ScopesAccounted
<1>7. QED
  BY <1>3, <1>4, <1>5, <1>6 DEF Accounted, Shaped

(* A new call starts on an empty stack, so its first frame holds nothing.  *)
LEMMA BeginKeeps ==
  ASSUME EngineAssumption, Accounted, NEW t \in Requests, Begin(t)
  PROVE  Accounted'
<1>1. /\ stack = <<>> /\ ret.st = "none" /\ Len(stack) = 0
      /\ t \in Task
  BY DEF Accounted, Shaped, Idle, Begin, EngineAssumption
<1>2. /\ NewFrame(t) \in Frame /\ NewFrame(t).i = 0 /\ NewFrame(t).held = "none"
  BY <1>1, NewFrameTyped
<1>3. /\ stack' = <<NewFrame(t)>> /\ call' = t
      /\ ret' = ret /\ depth' = depth /\ scopes' = scopes /\ base' = base
  BY DEF Begin
<1>4. stack' \in Seq(Frame) /\ Len(stack') = 1 /\ stack'[1] = NewFrame(t)
  <2> DEFINE g == NewFrame(t)
  <2>1. g \in Frame /\ stack' = <<g>>
    BY <1>2, <1>3
  <2> HIDE DEF g
  <2>2. stack' \in Seq(Frame) /\ Len(stack') = 1 /\ stack'[1] = g
    BY <2>1
  <2>3. QED
    BY <2>2 DEF g
<1>5. \A what \in {"guard", "scope"} : Holders(what) = {} /\ Holders(what)' = {}
  BY <1>1, <1>2, <1>4 DEF Holders
<1>6. BudgetAccounted' /\ ScopesAccounted'
  BY <1>3, <1>5 DEF Accounted, BudgetAccounted, ScopesAccounted
<1>7. TypeOK'
  BY <1>1, <1>3, <1>4 DEF Accounted, Shaped, TypeOK
<1>8. t # None
  BY <1>1, GraphAssumption DEF GraphAssumption
<1>9. Fresh' /\ Idle' /\ Begun' /\ Entered'
  BY <1>1, <1>2, <1>3, <1>4, <1>8 DEF Fresh, Idle, Begun, Entered, Waiting
<1>10. QED
  BY <1>6, <1>7, <1>9 DEF Accounted, Shaped

(* One step from the invariant leads to the invariant.                     *)
LEMMA NextAccounted ==
  ASSUME EngineAssumption, Accounted, [Next]_vars
  PROVE  Accounted'
<1>1. CASE \E t \in Requests : Begin(t)
  BY <1>1, BeginKeeps
<1>2. CASE Calls
  BY <1>2, CallsKeep
<1>3. CASE Loops
  BY <1>3, LoopsKeep
<1>4. CASE Returns
  BY <1>4, ReturnsKeep
<1>5. CASE Deliver
  <2>1. /\ stack = <<>> /\ Len(stack) = 0 /\ stack' = stack /\ depth' = depth
        /\ scopes' = scopes /\ base' = base /\ call' = None /\ ret' = Nothing
    BY <1>5 DEF Deliver, Done
  <2>2. \A what : Holders(what)' = Holders(what)
    BY <2>1 DEF Holders
  <2>3. BudgetAccounted' /\ ScopesAccounted'
    BY <2>1, <2>2 DEF Accounted, BudgetAccounted, ScopesAccounted
  <2>4. TypeOK'
    BY <2>1, OutcomeTyped DEF Accounted, Shaped, TypeOK
  <2>5. Fresh' /\ Idle' /\ Begun' /\ Entered'
    BY <2>1 DEF Fresh, Idle, Begun, Entered, Waiting, Nothing
  <2>6. QED
    BY <2>3, <2>4, <2>5 DEF Accounted, Shaped
<1>6. CASE UNCHANGED vars
  <2>1. \A what : Holders(what)' = Holders(what)
    BY <1>6 DEF Holders, vars
  <2>2. BudgetAccounted' /\ ScopesAccounted'
    BY <1>6, <2>1 DEF Accounted, BudgetAccounted, ScopesAccounted, vars
  <2>3. Shaped'
    BY <1>6 DEF Accounted, Shaped, TypeOK, Fresh, Idle, Begun, Entered, Waiting, vars
  <2>4. QED
    BY <2>2, <2>3 DEF Accounted
<1>7. QED
  BY <1>1, <1>2, <1>3, <1>4, <1>5, <1>6 DEF Next

(* The inductive invariant holds of every behaviour.                       *)
THEOREM AlwaysAccounted == Spec => []Accounted
<1>1. Init => Accounted
  BY InitAccounted, EngineAssumption
<1>2. Accounted /\ [Next]_vars => Accounted'
  BY NextAccounted, EngineAssumption
<1>3. QED
  BY <1>1, <1>2, PTL DEF Spec

(* Type correctness for every graph, term and budget; in particular the    *)
(* recursion counter never exceeds MAX_SHAPE_DEPTH.                        *)
THEOREM TypeCorrect == Spec => []TypeOK
<1>1. Accounted => TypeOK
  BY DEF Accounted, Shaped
<1>2. QED
  BY <1>1, AlwaysAccounted, PTL

(* SHAPE_DEPTH always counts the caller's share and the guards held.       *)
THEOREM BudgetIsAccounted == Spec => []BudgetAccounted
<1>1. Accounted => BudgetAccounted
  BY DEF Accounted
<1>2. QED
  BY <1>1, AlwaysAccounted, PTL

(* DEF_STACK always holds the definitions of the open ShapeDefs, in order. *)
THEOREM ScopesAreAccounted == Spec => []ScopesAccounted
<1>1. Accounted => ScopesAccounted
  BY DEF Accounted
<1>2. QED
  BY <1>1, AlwaysAccounted, PTL

(* Whatever a call did, rejected or failed on, the thread is as the caller *)
(* left it: sequential calls never accumulate budget or definitions.       *)
NothingLeftBehind == stack = <<>> => depth = base /\ scopes = <<>>

(* An empty stack holds no guard.                                          *)
LEMMA NothingHeld ==
  ASSUME EngineAssumption, Accounted
  PROVE  NothingLeftBehind
<1> SUFFICES ASSUME stack = <<>>
             PROVE  depth = base /\ scopes = <<>>
  BY DEF NothingLeftBehind
<1>1. Holders("guard") = {} /\ Holders("scope") = {}
  BY DEF Holders
<1>2. depth = base + 0 /\ Len(scopes) = 0
  BY <1>1, FS_EmptySet DEF Accounted, BudgetAccounted, ScopesAccounted
<1>3. base \in Nat /\ scopes \in Seq(Shape)
  BY EngineAssumption DEF Accounted, Shaped, TypeOK, EngineAssumption
<1>4. QED
  BY <1>2, <1>3, EmptySeq

(* When a check is over the thread has its budget back as it was and no    *)
(* definition scope is open, after an error as after an answer (DepthGuard *)
(* and ScopeGuard drops, recursion.rs and recursive.rs).                   *)
THEOREM CallsLeaveNothing == Spec => []NothingLeftBehind
<1>1. Accounted => NothingLeftBehind
  BY NothingHeld, EngineAssumption
<1>2. QED
  BY <1>1, AlwaysAccounted, PTL

-----------------------------------------------------------------------------
(* The invariant: the frames on the stack answer questions, each one a     *)
(* part of the one before; what a frame has gathered is what the meanings  *)
(* of the parts it has been through make together; and what is returned    *)
(* is the meaning of the part the frame on top waits for.                  *)

Whole       == Asking(call, <<>>, MaxDepth - base)

Earlier(f, rs) == {j \in DOMAIN rs : j < f.i}

(* What children of which every one must accept have come to.              *)
Start(t) == IF Kind(t) = "row" THEN 0 ELSE BaseScore(t)

Gathered(f, rs) ==
  LET sum == Together(Start(f.task), rs)[f.i - 1] IN
  /\ f.caps = sum.caps
  /\ f.score = IF Kind(f.task) = "row" THEN 100 ELSE sum.score
  /\ \A j \in Earlier(f, rs) : rs[j].st = "accept"
  /\ \A j \in 1..(f.i - 1) : ~Blocks(f.task, j)

WalkedOn(f, rs) ==
  Kind(f.task) = "list" /\ f.task.path = "value" =>
    \A j \in Earlier(f, rs) :
      j > Len(Kids(f.task)) => ~(Total[Node[f.task.shape].rest] /\ rs[j].caps = <<>>)

(* The best branch so far.                                                 *)
Chosen(f, rs) ==
  /\ \A j \in Earlier(f, rs) : rs[j] \in Match /\ rs[j].st # "error"
  /\ f.pick = 0 => \A j \in Earlier(f, rs) : rs[j].st # "accept"
  /\ f.pick # 0 =>
       /\ f.pick \in Earlier(f, rs) /\ rs[f.pick].st = "accept"
       /\ f.score = rs[f.pick].score /\ f.caps = rs[f.pick].caps
       /\ \A j \in Earlier(f, rs) : rs[j].st = "accept" => rs[j].score <= f.score
       /\ \A j \in Earlier(f, rs) : rs[j].st = "accept" /\ j < f.pick => rs[j].score < f.score

LoopMeans(f, rs) ==
  /\ f.held = "none" /\ f.i <= LoopLen(f.task) + 1
  /\ Kind(f.task) \in AllKinds => Gathered(f, rs) /\ WalkedOn(f, rs)
  /\ Kind(f.task) \in AnyKinds => \A j \in Earlier(f, rs) : rs[j].st = "reject"
  /\ Kind(f.task) = "best" => Chosen(f, rs)
  /\ Kind(f.task) \in WrapKinds \cup {"not"} => f.i = 1

FrameMeans(f, q) ==
  /\ f \in Frame /\ f.task = q.task
  /\ f.i = 0 => f.held = "none" /\ f.score = BaseScore(q.task) /\ f.caps = <<>> /\ f.pick = 0
  /\ f.i # 0 =>
       /\ Kind(f.task) \notin LeafKinds
       /\ Kind(f.task) \in LoopKinds => Open(f.task) /\ LoopMeans(f, Outcomes(q))
       /\ Kind(f.task) \in {"ref", "class"} => f.i = 1 /\ f.held = "guard"
       /\ Kind(f.task) = "defs" => f.i = 1 /\ f.held = "scope"

(* A frame waits for the answer to a part of its question.                 *)
Awaits(f, q) == f.i \in Places(q) /\ ~Blocks(f.task, f.i)

(* The thread-locals as they are inside the frame.                         *)
ScopeIn(f, q) == IF f.held = "scope" THEN Append(q.scope, f.task.shape) ELSE q.scope

FuelIn(f, q)  == IF f.held = "guard" THEN q.fuel - 1 ELSE q.fuel

Plain(r) == (r.st = "error" => r = Error) /\ (r.st = "reject" => r = Reject)

Follows(qs) ==
  /\ qs \in Seq(Question) /\ Len(qs) = Len(stack)
  /\ \A k \in 1..Len(stack) : FrameMeans(stack[k], qs[k])
  /\ \A k \in 1..Len(stack) - 1 :
       Awaits(stack[k], qs[k]) /\ qs[k + 1] = Part(qs[k], stack[k].i)
  /\ stack # <<>> =>
       /\ qs[1] = Whole
       /\ scopes = ScopeIn(Top, qs[Len(stack)])
       /\ MaxDepth - depth = FuelIn(Top, qs[Len(stack)])
  /\ stack # <<>> /\ ret.st # "none" =>
       Awaits(Top, qs[Len(stack)]) /\ ret = Meaning[Part(qs[Len(stack)], Top.i)]

Understood ==
  /\ \E qs : Follows(qs)
  /\ Done => ret = Meaning[Whole]
  /\ Plain(ret)

-----------------------------------------------------------------------------
(* What leaving, continuing and calling do to it.                          *)

LEMMA TopMeans ==
  ASSUME EngineAssumption, Accounted, stack # <<>>, NEW qs, Follows(qs)
  PROVE  LET q == qs[Len(stack)] IN
         /\ Len(stack) \in Nat \ {0} /\ q \in Question /\ FrameMeans(Top, q)
         /\ q.task = Top.task /\ Top.task \in Task /\ Top \in Frame
         /\ scopes = ScopeIn(Top, q) /\ MaxDepth - depth = FuelIn(Top, q)
         /\ q.fuel \in Nat /\ q.scope \in Seq(Shape)
         /\ Meaning[q] = Outcome(Top.task, Outcomes(q))
         /\ ret.st # "none" => /\ Awaits(Top, q) /\ ret = Outcomes(q)[Top.i]
                               /\ Top.i \in DOMAIN Outcomes(q) /\ ret \in Match
<1>1. Len(stack) \in Nat \ {0}
      BY PopProperties DEF Accounted, Shaped, TypeOK
<1>2. qs[Len(stack)] \in Question
      BY <1>1, ElementOfSeq DEF Follows
<1>3. FrameMeans(Top, qs[Len(stack)])
      BY <1>1 DEF Follows, Top
<1>4. qs[Len(stack)].task = Top.task /\ Top.task \in Task /\ Top \in Frame
      BY <1>3, TopTyped DEF FrameMeans
<1>5. Meaning[qs[Len(stack)]] = Outcome(Top.task, Outcomes(qs[Len(stack)]))
      BY <1>2, <1>4, MeaningEquation DEF Outcomes
<1>6. ret.st # "none" =>
        Awaits(Top, qs[Len(stack)]) /\ ret = Meaning[Part(qs[Len(stack)], Top.i)]
      BY DEF Follows
<1>7. ret.st # "none" => /\ ret = Outcomes(qs[Len(stack)])[Top.i]
                         /\ Top.i \in DOMAIN Outcomes(qs[Len(stack)])
      BY <1>6 DEF Outcomes, Awaits
<1>8. qs[Len(stack)].fuel \in Nat /\ qs[Len(stack)].scope \in Seq(Shape)
      BY <1>2, CostTyped
<1> QED BY <1>1, <1>2, <1>3, <1>4, <1>5, <1>6, <1>7, <1>8, TopTyped DEF Follows

(* The part a frame waits for is asked in the thread-locals as they are    *)
(* inside the frame.                                                       *)
LEMMA PartInside ==
  ASSUME EngineAssumption, NEW q \in Question, NEW f, FrameMeans(f, q), Awaits(f, q)
  PROVE  Part(q, f.i).scope = ScopeIn(f, q) /\ Part(q, f.i).fuel = FuelIn(f, q)
<1>1. f.task = q.task /\ f.i # 0
  <2>1. 0 \notin Places(q)
        BY PlacesCases
  <2> QED BY <2>1 DEF FrameMeans, Awaits
<1>2. \A t, s, n : Asking(t, s, n).scope = s /\ Asking(t, s, n).fuel = n
      BY DEF Asking
<1>3. CASE Kind(q.task) \in LoopKinds
  <2>1. f.held = "none"
        BY <1>1, <1>3 DEF FrameMeans, LoopMeans
  <2> QED BY <1>2, <1>3, <2>1, PartCases DEF ScopeIn, FuelIn
<1>4. CASE Kind(q.task) \in {"ref", "class"}
  <2>1. f.held = "guard"
        BY <1>1, <1>4 DEF FrameMeans
  <2> QED BY <1>2, <1>4, <2>1, PartCases DEF ScopeIn, FuelIn
<1>5. CASE Kind(q.task) = "defs"
  <2>1. f.held = "scope"
        BY <1>1, <1>5 DEF FrameMeans
  <2> DEFINE job == Job(Kids(q.task)[1], q.task.expr, q.task.path)
             inner == Append(q.scope, q.task.shape)
  <2>2. Part(q, f.i) = Asking(job, inner, q.fuel)
        BY <1>5, PartCases
  <2>3. ScopeIn(f, q) = inner /\ FuelIn(f, q) = q.fuel
        BY <1>1, <2>1 DEF ScopeIn, FuelIn
  <2> HIDE DEF job, inner
  <2> QED BY <1>2, <2>2, <2>3
<1>6. CASE Kind(q.task) \notin LoopKinds \cup {"ref", "defs", "class"}
      BY <1>6, PlacesCases DEF Awaits
<1> QED BY <1>3, <1>4, <1>5, <1>6

(* A step that leaves the top frame with what its question means hands the *)
(* frame below the answer it waits for.                                    *)
LEMMA LeaveFollows ==
  ASSUME EngineAssumption, Accounted, stack # <<>>, NEW qs, Follows(qs),
         NEW r, Leave(r), r = Meaning[qs[Len(stack)]], Plain(r)
  PROVE  Understood'
<1> DEFINE n == Len(stack)
           next == Pop(qs)
<1>1. /\ n \in Nat \ {0} /\ Len(stack') = n - 1 /\ stack' = Pop(stack)
      /\ \A j \in 1..(n - 1) : stack'[j] = stack[j]
      BY PopProperties DEF Accounted, Shaped, TypeOK, Leave
<1>2. qs \in Seq(Question) /\ Len(qs) = n /\ qs # <<>>
      BY <1>1 DEF Follows
<1>3. /\ next \in Seq(Question) /\ Len(next) = n - 1
      /\ \A j \in 1..(n - 1) : next[j] = qs[j]
      BY <1>2, PopProperties
<1>4. ret' = r /\ call' = call /\ base' = base /\ Whole' = Whole /\ qs[1] = Whole
      BY DEF Leave, Whole, Follows
<1>5. /\ \A k \in 1..n : FrameMeans(stack[k], qs[k])
      /\ \A k \in 1..(n - 1) : Awaits(stack[k], qs[k]) /\ qs[k + 1] = Part(qs[k], stack[k].i)
      /\ scopes = ScopeIn(Top, qs[n]) /\ MaxDepth - depth = FuelIn(Top, qs[n])
      BY DEF Follows
<1>6. CASE n = 1
  <2>1. stack' = <<>> /\ Len(stack') = 0 /\ next = <<>> /\ Len(next) = 0
    <3>1. stack' \in Seq(Frame)
          BY PopProperties DEF Accounted, Shaped, TypeOK, Leave
    <3> HIDE DEF next
    <3> QED BY <1>1, <1>3, <1>6, <3>1, EmptySeq
  <2>2. Follows(next)'
    <3> HIDE DEF next
    <3> QED BY <1>3, <1>6, <2>1 DEF Follows
  <2>3. r = Meaning[Whole]
        BY <1>4, <1>6
  <2> HIDE DEF next
  <2> QED BY <1>4, <2>2, <2>3 DEF Understood, Done, Plain
<1>7. CASE n > 1
  <2> DEFINE top == stack[n - 1]
             p == qs[n - 1]
             q == qs[n]
  <2>1. /\ n - 1 \in 1..n /\ n - 1 \in 1..(n - 1) /\ n - 1 + 1 = n
        BY <1>1, <1>7
  <2>2. /\ Top' = top /\ next[n - 1] = p /\ stack' # <<>>
    <3> HIDE DEF next
    <3> QED BY <1>1, <1>3, <2>1, EmptySeq DEF Top
  <2>3. /\ p \in Question /\ q \in Question
        /\ FrameMeans(top, p) /\ Awaits(top, p) /\ q = Part(p, top.i)
    <3>1. p \in Question /\ q \in Question
          BY <1>1, <1>2, <2>1, ElementOfSeq
    <3> QED BY <1>5, <2>1, <3>1
  <2>4. q.scope = ScopeIn(top, p) /\ q.fuel = FuelIn(top, p)
        BY <2>3, PartInside
  <2>5. scopes' = ScopeIn(top, p)
    <3>1. CASE Top.held = "scope"
      <4>1. q.scope \in Seq(Shape) /\ Top.task.shape \in Shape
            BY <2>3, CostTyped, TopTyped DEF Task
      <4>2. scopes = Append(q.scope, Top.task.shape) /\ scopes' = Pop(scopes)
            BY <1>5, <3>1 DEF ScopeIn, Leave
      <4> DEFINE scope == q.scope
                 s == Top.task.shape
      <4>3. Pop(Append(scope, s)) = scope
        <5> HIDE DEF scope, s
        <5>1. scope \in Seq(Shape) /\ s \in Shape
              BY <4>1 DEF scope, s
        <5> DEFINE more == Append(scope, s)
        <5>2. /\ more \in Seq(Shape) /\ Len(more) = Len(scope) + 1 /\ Len(scope) \in Nat
              /\ \A j \in 1..Len(scope) : more[j] = scope[j]
              BY <5>1, AppendProperties, LenProperties
        <5> HIDE DEF more
        <5>3. more # <<>>
              BY <5>2, EmptySeq
        <5>4. /\ Pop(more) \in Seq(Shape) /\ Len(Pop(more)) = Len(more) - 1
              /\ \A j \in 1..(Len(more) - 1) : Pop(more)[j] = more[j]
              BY <5>2, <5>3, PopProperties
        <5> DEFINE less == Pop(more)
        <5>5. less \in Seq(Shape) /\ Len(less) = Len(scope)
              /\ \A j \in 1..Len(scope) : less[j] = scope[j]
          <6> HIDE DEF less
          <6>1. less \in Seq(Shape) /\ Len(less) = Len(more) - 1
                /\ \A j \in 1..(Len(more) - 1) : less[j] = more[j]
                BY <5>4 DEF less
          <6> QED BY <5>2, <6>1
        <5> HIDE DEF less
        <5>6. less = scope
              BY <5>1, <5>5, SeqEqual
        <5> QED BY <5>6 DEF less, more
      <4> QED BY <2>4, <4>2, <4>3
    <3>2. CASE Top.held # "scope"
          BY <1>5, <2>4, <3>2 DEF ScopeIn, Leave
    <3> QED BY <3>1, <3>2
  <2>6. MaxDepth - depth' = FuelIn(top, p)
    <3>1. depth \in Nat /\ MaxDepth \in Nat /\ q.fuel \in Nat
          BY <2>3, CostTyped DEF Accounted, Shaped, TypeOK, EngineAssumption
    <3>2. CASE Top.held = "guard"
      <4>1. n \in Holders("guard")
            BY <1>1, <3>2 DEF Holders, Top
      <4>2. Cardinality(Holders("guard")) \in Nat /\ Cardinality(Holders("guard")) # 0
            BY <4>1, HoldersFinite, FS_EmptySet DEF Accounted, Shaped
      <4>3. depth > 0
            BY <3>1, <4>2 DEF Accounted, BudgetAccounted, Shaped, TypeOK, EngineAssumption
      <4>4. depth' = depth - 1 /\ MaxDepth - depth = q.fuel - 1
            BY <1>5, <3>2, <4>3 DEF Leave, DropDepth, FuelIn
      <4> QED BY <2>4, <3>1, <4>4
    <3>3. CASE Top.held # "guard"
          BY <1>5, <2>4, <3>3 DEF FuelIn, Leave
    <3> QED BY <3>2, <3>3
  <2>7. r = Meaning[Part(p, top.i)]
        BY <2>3
  <2>8. Follows(next)'
    <3> HIDE DEF next, top, p
    <3>1. \A k \in 1..(n - 1) : k \in 1..n
          BY <1>1
    <3>2. \A k \in 1..(n - 1) : FrameMeans(stack'[k], next[k])
          BY <1>1, <1>3, <1>5, <3>1
    <3>3. \A k \in 1..(n - 1) - 1 : k \in 1..(n - 1) /\ k + 1 \in 1..(n - 1)
          BY <1>1
    <3>4. \A k \in 1..(n - 1) - 1 :
            Awaits(stack'[k], next[k]) /\ next[k + 1] = Part(next[k], stack'[k].i)
          BY <1>1, <1>3, <1>5, <3>3
    <3>5. next[1] = Whole'
          BY <1>1, <1>3, <1>4, <1>7
    <3>6. Awaits(top, p) /\ ret' = Meaning[Part(p, top.i)]
          BY <1>4, <2>3, <2>7
    <3>7. Len(stack') = n - 1 /\ Len(next) = n - 1 /\ next \in Seq(Question)
          BY <1>1, <1>3
    <3> HIDE DEF n
    <3> QED BY <2>2, <2>5, <2>6, <3>2, <3>4, <3>5, <3>6, <3>7 DEF Follows
  <2> HIDE DEF next
  <2> QED BY <1>4, <2>2, <2>8 DEF Understood, Done, Plain
<1> QED BY <1>1, <1>6, <1>7

(* A frame that goes on still answers its question.                        *)
LEMMA ContinueFollows ==
  ASSUME EngineAssumption, Accounted, stack # <<>>, NEW qs, Follows(qs),
         NEW f, FrameMeans(f, qs[Len(stack)]), f.held = Top.held, Continue(f)
  PROVE  Understood'
<1> DEFINE n == Len(stack)
<1>1. f \in Frame /\ f.task = qs[n].task /\ Top.task = qs[n].task
      BY TopMeans DEF FrameMeans
<1>2. n \in Nat \ {0}
      BY TopMeans
<1>3. /\ Len(stack') = n /\ stack' # <<>>
      /\ \A j \in 1..n : stack'[j] = IF j = n THEN f ELSE stack[j]
  <2>1. stack' = [stack EXCEPT ![n] = f]
        BY DEF Continue
  <2>2. stack' \in Seq(Frame) /\ Len(stack') = n
        /\ \A j \in 1..n : stack'[j] = IF j = n THEN f ELSE stack[j]
        BY <1>1, <1>2, <2>1, ExceptSeq DEF Accounted, Shaped, TypeOK
  <2> HIDE DEF n
  <2> QED BY <1>2, <2>2, EmptySeq
<1>4. Top' = f
      BY <1>2, <1>3 DEF Top
<1>5. ret' = Nothing /\ scopes' = scopes /\ depth' = depth /\ Whole' = Whole
      BY DEF Continue, Whole
<1>6. /\ qs \in Seq(Question) /\ Len(qs) = n /\ qs[1] = Whole
      /\ \A k \in 1..n : FrameMeans(stack[k], qs[k])
      /\ \A k \in 1..(n - 1) : Awaits(stack[k], qs[k]) /\ qs[k + 1] = Part(qs[k], stack[k].i)
      /\ scopes = ScopeIn(Top, qs[n]) /\ MaxDepth - depth = FuelIn(Top, qs[n])
      BY DEF Follows
<1>7. ScopeIn(f, qs[n]) = ScopeIn(Top, qs[n]) /\ FuelIn(f, qs[n]) = FuelIn(Top, qs[n])
      BY <1>1 DEF ScopeIn, FuelIn
<1> HIDE DEF n
<1>8. \A k \in 1..n : FrameMeans(stack'[k], qs[k])
      BY <1>3, <1>6 DEF n
<1>9. \A k \in 1..(n - 1) : k \in 1..n /\ k # n
      BY <1>2
<1>10. \A k \in 1..(n - 1) :
         Awaits(stack'[k], qs[k]) /\ qs[k + 1] = Part(qs[k], stack'[k].i)
       BY <1>3, <1>6, <1>9
<1>11. Follows(qs)'
       BY <1>3, <1>4, <1>5, <1>6, <1>7, <1>8, <1>10 DEF Follows, Nothing
<1> QED BY <1>3, <1>5, <1>11 DEF Understood, Done, Plain, Nothing

(* A frame that calls a child for a part of its question goes on waiting   *)
(* for the answer, and the child's frame starts on that part.              *)
LEMMA CallFollows ==
  ASSUME EngineAssumption, Accounted, Calling, NEW qs, Follows(qs),
         NEW f, FrameMeans(f, qs[Len(stack)]), Awaits(f, qs[Len(stack)]),
         NEW t, CallFrom(f, t), t = Part(qs[Len(stack)], f.i).task,
         scopes' = ScopeIn(f, qs[Len(stack)]),
         MaxDepth - depth' = FuelIn(f, qs[Len(stack)])
  PROVE  Understood'
<1> DEFINE n == Len(stack)
           q == qs[n]
           p == Part(q, f.i)
           g == NewFrame(t)
<1>1. stack # <<>> /\ ret.st = "none"
      BY DEF Calling
<1>2. n \in Nat \ {0} /\ q \in Question /\ f \in Frame
      BY <1>1, TopMeans DEF FrameMeans
<1>3. p \in Question /\ t \in Task
      BY <1>2, PartCheaper, CostTyped DEF Awaits
<1>4. p.scope = ScopeIn(f, q) /\ p.fuel = FuelIn(f, q)
      BY <1>2, PartInside
<1>5. g \in Frame /\ g.i = 0 /\ g.held = "none" /\ g.task = p.task
      /\ g.score = BaseScore(p.task) /\ g.caps = <<>> /\ g.pick = 0
  <2>1. g \in Frame /\ g.i = 0 /\ g.held = "none"
        BY <1>3, NewFrameTyped
  <2>2. g.task = t /\ g.score = BaseScore(t) /\ g.caps = <<>> /\ g.pick = 0
        BY DEF NewFrame
  <2> QED BY <2>1, <2>2
<1>6. /\ Len(stack') = n + 1 /\ stack'[n] = f /\ stack'[n + 1] = g
      /\ \A j \in 1..(n - 1) : stack'[j] = stack[j]
  <2>1. stack' = Append([stack EXCEPT ![n] = f], g)
        BY DEF CallFrom
  <2> HIDE DEF g
  <2> QED BY <1>1, <1>2, <1>5, <2>1, PushProperties DEF Accounted, Shaped, TypeOK
<1>7. /\ qs \in Seq(Question) /\ Len(qs) = n /\ qs[1] = Whole
      /\ \A k \in 1..n : FrameMeans(stack[k], qs[k])
      /\ \A k \in 1..(n - 1) : Awaits(stack[k], qs[k]) /\ qs[k + 1] = Part(qs[k], stack[k].i)
      BY <1>1 DEF Follows
<1>8. PICK next : /\ next \in Seq(Question) /\ Len(next) = n + 1 /\ next[n + 1] = p
                  /\ \A j \in 1..n : next[j] = qs[j]
  <2> DEFINE more == Append(qs, p)
  <2>1. /\ more \in Seq(Question) /\ Len(more) = n + 1 /\ more[n + 1] = p
        /\ \A j \in 1..n : more[j] = qs[j]
    <3> HIDE DEF p
    <3> QED BY <1>3, <1>7, AppendProperties
  <2> HIDE DEF more
  <2> QED BY <2>1
<1>9. ret' = ret /\ call' = call /\ Whole' = Whole
      BY DEF CallFrom, Whole
<1>10. FrameMeans(g, p)
       BY <1>5, Zenon DEF FrameMeans
<1>11. ScopeIn(g, p) = p.scope /\ FuelIn(g, p) = p.fuel
       BY <1>5 DEF ScopeIn, FuelIn
<1>12. FrameMeans(f, q) /\ Awaits(f, q) /\ p = Part(q, f.i) /\ q = qs[n]
       OBVIOUS
<1> HIDE DEF n, q, p, g
<1>13. Top' = g /\ stack' # <<>>
       BY <1>2, <1>6, EmptySeq DEF Top
<1>14. \A k \in 1..(n + 1) : FrameMeans(stack'[k], next[k])
  <2>1. \A k \in 1..(n - 1) : FrameMeans(stack'[k], next[k])
    <3>1. \A k \in 1..(n - 1) : k \in 1..n
          BY <1>2
    <3> QED BY <1>6, <1>7, <1>8, <3>1
  <2>2. FrameMeans(stack'[n], next[n]) /\ n \in 1..n
        BY <1>2, <1>6, <1>8, <1>12
  <2>3. FrameMeans(stack'[n + 1], next[n + 1])
        BY <1>6, <1>8, <1>10
  <2>4. \A k \in 1..(n + 1) : k \in 1..(n - 1) \/ k = n \/ k = n + 1
        BY <1>2
  <2> QED BY <2>1, <2>2, <2>3, <2>4
<1>15. \A k \in 1..n : Awaits(stack'[k], next[k]) /\ next[k + 1] = Part(next[k], stack'[k].i)
  <2>1. ASSUME NEW k \in 1..(n - 1)
        PROVE  Awaits(stack'[k], next[k]) /\ next[k + 1] = Part(next[k], stack'[k].i)
    <3>1. k \in 1..n /\ k + 1 \in 1..n
          BY <1>2
    <3> QED BY <1>6, <1>7, <1>8, <3>1
  <2>2. Awaits(stack'[n], next[n]) /\ next[n + 1] = Part(next[n], stack'[n].i) /\ n \in 1..n
        BY <1>2, <1>6, <1>8, <1>12
  <2>3. \A k \in 1..n : k \in 1..(n - 1) \/ k = n
        BY <1>2
  <2> QED BY <2>1, <2>2, <2>3
<1>16. next[1] = Whole' /\ (n + 1) - 1 = n
       BY <1>2, <1>7, <1>8, <1>9
<1>17. scopes' = ScopeIn(g, p) /\ MaxDepth - depth' = FuelIn(g, p)
       BY <1>4, <1>11, <1>12 DEF q, n
<1>18. Len(stack') - 1 = n /\ Len(next) = Len(stack')
       BY <1>2, <1>6, <1>8
<1>19. Follows(next)'
  <2>1. next[Len(stack')] = p /\ ret'.st = "none"
        BY <1>1, <1>6, <1>8, <1>9
  <2>2. \A k \in 1..Len(stack') : FrameMeans(stack'[k], next[k])
        BY <1>6, <1>14
  <2>3. \A k \in 1..Len(stack') - 1 :
          Awaits(stack'[k], next[k]) /\ next[k + 1] = Part(next[k], stack'[k].i)
        BY <1>15, <1>18
  <2>4. /\ scopes' = ScopeIn(Top', next[Len(stack')])
        /\ MaxDepth - depth' = FuelIn(Top', next[Len(stack')])
        BY <1>13, <1>17, <2>1
  <2> QED BY <1>8, <1>13, <1>16, <1>18, <2>1, <2>2, <2>3, <2>4 DEF Follows
<1>20. Plain(ret') /\ ~Done'
       BY <1>1, <1>9, <1>13 DEF Plain, Done
<1> QED BY <1>19, <1>20 DEF Understood, Plain

-----------------------------------------------------------------------------
(* Outcomes, kind by kind.                                                 *)

(* A leaf and a class answer without parts, and their rejections are plain. *)
LEMMA LeafPlain ==
  ASSUME NEW t
  PROVE  Plain(LeafResult(t)) /\ Plain(ClassDirect(t))
<1>1. Plain(Reject) /\ Plain(Error) /\ \A n, c : Plain(Accept(n, c))
      BY DEF Plain, Reject, Error, Accept
<1>2. \A b, n : Plain(Verdict(b, n))
      BY <1>1 DEF Verdict
<1>3. Plain(LeafResult(t))
  <2>1. CASE Kind(t) \in {"any", "exprKind", "exact"}
        BY <1>1, <1>2, <2>1 DEF LeafResult
  <2>2. CASE Kind(t) \in {"number", "record"}
        BY <1>1, <1>2, <2>2 DEF LeafResult
  <2>3. CASE Kind(t) \notin {"any", "exprKind", "exact", "number", "record"}
        BY <1>1, <2>3 DEF LeafResult
  <2> QED BY <2>1, <2>2, <2>3
<1>4. Plain(ClassDirect(t))
  <2>1. CASE t.path = "value"
        BY <1>2, <2>1 DEF ClassDirect
  <2>2. CASE t.path # "value"
        BY <1>1, <1>2, <2>2 DEF ClassDirect
  <2> QED BY <2>1, <2>2
<1> QED BY <1>3, <1>4

(* A table's or a field shape's turn that does not reject.                 *)
LEMMA Unblocked ==
  ASSUME EngineAssumption, NEW t \in Task, NEW i \in Nat \ {0}, ~Blocks(t, i)
  PROVE  /\ Kind(t) = "table" /\ i > Len(Kids(t)) =>
              /\ Absent(t) = {}
              /\ i <= LoopLen(t) /\ Node[t.shape].extra = "reject" =>
                   i - Len(Kids(t)) \notin Extras(t)
         /\ Kind(t) = "fields" => i \notin Absent(t)
<1> DEFINE n == Len(Kids(t))
<1>1. n \in Nat /\ DOMAIN Kids(t) = 1..n /\ DOMAIN Keys(t) = 1..Len(Keys(t))
      /\ Len(Keys(t)) \in Nat
      BY PartsTyped, LenProperties
<1>2. CASE Kind(t) = "table" /\ i > n
  <2>1. ~TableBlocks(t, i)
        BY <1>2 DEF Blocks
  <2>2. Absent(t) = {}
        BY <1>1, <1>2, <2>1 DEF TableBlocks, Absent
  <2>3. i <= LoopLen(t) /\ Node[t.shape].extra = "reject" => i - n \notin Extras(t)
        BY <1>1, <1>2, <2>1, LoopCases DEF TableBlocks, Extras
  <2> QED BY <1>2, <2>2, <2>3
<1>3. CASE Kind(t) = "fields"
      BY <1>1, <1>3 DEF Blocks, Absent
<1> QED BY <1>2, <1>3

(* What a frame whose children must all accept has gathered.               *)
LEMMA GatheredEvery ==
  ASSUME EngineAssumption, NEW f \in Frame, NEW rs, DOMAIN rs \subseteq Nat \ {0},
         Gathered(f, rs), f.i \in Nat \ {0}
  PROVE  /\ \A from : \A n \in Nat : n < f.i => Every(from, rs, n).st = "accept"
         /\ Every(Start(f.task), rs, f.i - 1) =
              Accept(Together(Start(f.task), rs)[f.i - 1].score, f.caps)
         /\ f.task \in Task /\ f.i \in Nat \ {0}
<1>1. \A j \in DOMAIN rs : j \in Nat /\ (j < f.i => rs[j].st = "accept")
      BY DEF Gathered, Earlier
<1>2. ASSUME NEW from, NEW n \in Nat, n < f.i
      PROVE  Every(from, rs, n).st = "accept"
  <2>1. \A j \in DOMAIN rs : j <= n => rs[j].st = "accept"
        BY <1>1, <1>2
  <2>2. Every(from, rs, n) = Accept(Together(from, rs)[n].score, Together(from, rs)[n].caps)
        BY <2>1, EveryGood
  <2> QED BY <2>2 DEF Accept
<1>3. Every(Start(f.task), rs, f.i - 1) =
        Accept(Together(Start(f.task), rs)[f.i - 1].score, f.caps)
  <2>1. f.i - 1 \in Nat /\ \A j \in DOMAIN rs : j <= f.i - 1 => rs[j].st = "accept"
        BY <1>1
  <2>2. f.caps = Together(Start(f.task), rs)[f.i - 1].caps
        BY DEF Gathered
  <2> QED BY <2>1, <2>2, EveryGood
<1>4. f.task \in Task
      BY DEF Frame
<1> QED BY <1>2, <1>3, <1>4

(* The walk over a list's tail has not yet met the element at which it may *)
(* be cut short.                                                           *)
LEMMA LookedAhead ==
  ASSUME EngineAssumption, NEW f \in Frame, NEW rs, DOMAIN rs \subseteq Nat \ {0},
         Kind(f.task) = "list", Open(f.task), WalkedOn(f, rs), f.i \in Nat
  PROVE  LET seen == Looked(f.task, rs) IN
         /\ seen \in Nat
         /\ seen # LoopLen(f.task) => seen \in DOMAIN rs /\ f.i <= seen
         /\ \A i \in DOMAIN rs :
              /\ i = f.i /\ i > Len(Kids(f.task)) /\ f.task.path = "value"
              /\ Total[Node[f.task.shape].rest] /\ rs[i].st = "accept" /\ rs[i].caps = <<>>
              => seen = i
<1> DEFINE t == f.task
           U == {i \in DOMAIN rs : i > Len(Kids(t)) /\ rs[i].st = "accept" /\ rs[i].caps = <<>>}
           cut == t.path = "value" /\ U # {} /\ Total[Node[t.shape].rest]
           seen == Looked(t, rs)
<1>1. seen = IF cut THEN Min(U) ELSE LoopLen(t)
      BY DEF Looked
<1>2. t \in Task /\ LoopLen(t) \in Nat
      BY LoopLenTyped DEF Frame, LoopKinds, AllKinds
<1>3. U \in SUBSET Nat /\ \A i \in U : i \in Nat /\ i \in DOMAIN rs
      OBVIOUS
<1>4. ASSUME cut
      PROVE  Min(U) \in U /\ \A j \in U : Min(U) <= j /\ f.i <= j
  <2>1. U # {}
        BY <1>4
  <2>2. ASSUME NEW j \in U PROVE f.i <= j
    <3>1. j \in Nat /\ j \in DOMAIN rs /\ j > Len(Kids(t)) /\ rs[j].caps = <<>>
          BY <1>3
    <3>2. ~(j < f.i)
          BY <1>4, <3>1 DEF WalkedOn, Earlier
    <3> QED BY <3>1, <3>2
  <2>3. Min(U) \in U /\ \A j \in U : Min(U) <= j
    <3> HIDE DEF U
    <3> QED BY <1>3, <2>1, MinIs
  <2> QED BY <2>2, <2>3
<1>5. seen \in Nat /\ (seen # LoopLen(t) => seen \in DOMAIN rs /\ f.i <= seen)
  <2> HIDE DEF U, cut, seen
  <2> QED BY <1>1, <1>2, <1>3, <1>4
<1>6. ASSUME NEW i \in DOMAIN rs, i = f.i, i > Len(Kids(t)), t.path = "value",
             Total[Node[t.shape].rest], rs[i].st = "accept", rs[i].caps = <<>>
      PROVE  seen = i
  <2>1. i \in U /\ cut
        BY <1>6
  <2> HIDE DEF U, cut, seen
  <2>2. i \in Nat /\ \A j \in U : i <= j
        BY <1>3, <1>4, <1>6, <2>1
  <2>3. Min(U) = i
        BY <1>3, <2>1, <2>2, MinUnique
  <2> QED BY <1>1, <2>1, <2>3
<1> QED BY <1>5, <1>6

(* A child that rejects or fails decides for a shape whose children must   *)
(* all accept.                                                             *)
LEMMA AllFails ==
  ASSUME EngineAssumption, NEW q \in Question, NEW f \in Frame, f.task = q.task,
         Kind(f.task) \in AllKinds, Open(f.task), LoopMeans(f, Outcomes(q)), Awaits(f, q),
         Outcomes(q)[f.i].st # "accept", Plain(Outcomes(q)[f.i])
  PROVE  Outcome(f.task, Outcomes(q)) = Outcomes(q)[f.i]
<1> DEFINE t == f.task
           rs == Outcomes(q)
           i == f.i
           r == rs[i]
           n == Len(Kids(t))
<1>1. /\ DOMAIN rs \subseteq Nat \ {0} /\ DOMAIN rs \subseteq Nat
      /\ i \in DOMAIN rs /\ i \in Nat \ {0} /\ i <= LoopLen(t)
  <2>1. Kind(q.task) \in LoopKinds
        BY DEF LoopKinds
  <2> QED BY <2>1, PlacesTyped DEF Awaits
<1>2. /\ Gathered(f, rs) /\ WalkedOn(f, rs) /\ ~Blocks(t, i)
      /\ \A j \in DOMAIN rs : j < i => rs[j].st = "accept"
      /\ \A j \in 1..(i - 1) : ~Blocks(t, j)
      BY DEF LoopMeans, Awaits, Gathered, Earlier
<1>3. t \in Task /\ LoopLen(t) \in Nat /\ n \in Nat
      /\ Outcome(t, rs) = LoopOutcome(t, rs)
  <2>1. t \in Task /\ Kind(t) \in LoopKinds
        BY DEF Frame, LoopKinds
  <2> QED BY <2>1, LoopLenTyped, PartsTyped, OutcomeCases
<1>4. \A from : \A m \in Nat : i <= m => Every(from, rs, m) = r
      BY <1>1, <1>2, EveryBad
<1>5. \A from : \A m \in Nat : m < i => Every(from, rs, m).st = "accept"
      BY <1>1, <1>2, GatheredEvery
<1>6. r.st # "accept" /\ Failing(r) = r /\ (\A name, e, k : With(r, name, e, k) = r)
      BY DEF Failing, With
<1> SUFFICES LoopOutcome(t, rs) = r
      BY <1>3
<1> HIDE DEF r, rs
<1>7. CASE Kind(t) = "and"
      BY <1>1, <1>3, <1>4, <1>7, LoopOutcomeCases
<1>8. CASE Kind(t) = "list"
  <2> DEFINE seen == Looked(t, rs)
  <2>1. /\ seen \in Nat /\ (seen # LoopLen(t) => seen \in DOMAIN rs /\ i <= seen)
        BY <1>1, <1>2, <1>8, LookedAhead DEF rs
  <2>2. LoopOutcome(t, rs) = Every(20, rs, seen)
        BY <1>8, LoopOutcomeCases
  <2> HIDE DEF seen
  <2>3. i <= seen
        BY <1>1, <2>1
  <2> QED BY <1>3, <1>4, <2>1, <2>2, <2>3
<1>9. CASE Kind(t) = "repeat"
  <2>1. RepeatOutcome(t, rs) = r
        BY <1>1, <1>3, <1>4, <1>6 DEF RepeatOutcome
  <2> QED BY <1>3, <1>9, <2>1, LoopOutcomeCases
<1>10. CASE Kind(t) = "table"
  <2>1. LoopOutcome(t, rs) = TableOutcome(t, rs)
        BY <1>10, LoopOutcomeCases
  <2>2. CASE i <= n
        BY <1>3, <1>4, <1>6, <2>1, <2>2 DEF TableOutcome
  <2>3. CASE i > n
    <3>1. Every(20, rs, n).st = "accept" /\ Every(20, rs, LoopLen(t)) = r
          BY <1>1, <1>3, <1>4, <1>5, <2>3
    <3>2. Absent(t) = {}
          BY <1>1, <1>2, <1>3, <1>10, <2>3, Unblocked
    <3>3. Node[t.shape].extra # "reject"
      <4>1. Child(t, i) # None
            BY <1>10, PlacesCases DEF Awaits, LoopKinds, AllKinds
      <4>2. Node[t.shape].extra = "shape"
            BY <1>1, <1>3, <1>10, <2>3, <4>1, LoopCases DEF TableChild
      <4> QED BY <4>2
    <3> QED BY <1>3, <1>6, <2>1, <3>1, <3>2, <3>3 DEF TableOutcome
  <2> QED BY <1>1, <1>3, <2>2, <2>3
<1>11. CASE Kind(t) = "fields"
  <2>1. LoopOutcome(t, rs) = FieldsOutcome(t, rs)
        BY <1>11, LoopOutcomeCases
  <2>2. CASE Absent(t) = {}
        BY <1>1, <1>3, <1>4, <2>1, <2>2 DEF FieldsOutcome
  <2>3. CASE Absent(t) # {}
    <3>1. Absent(t) \in SUBSET (1..n)
          BY <1>3, PartsTyped, LenProperties DEF Absent
    <3>2. \A j \in 1..n : j \in Nat \ {0}
          BY <1>3
    <3>3. Min(Absent(t)) \in Absent(t) /\ Absent(t) \in SUBSET Nat
      <4>1. Absent(t) \in SUBSET Nat
            BY <3>1, <3>2
      <4> QED BY <2>3, <4>1, MinIs
    <3> DEFINE first == Min(Absent(t))
    <3> HIDE DEF first
    <3>4. first \in Nat \ {0} /\ first \in Absent(t)
          BY <3>1, <3>2, <3>3 DEF first
    <3>5. Blocks(t, first)
          BY <1>3, <1>11, <3>4, Unblocked
    <3>6. ~(first <= i)
      <4>1. CASE first = i
            BY <1>2, <3>5, <4>1
      <4>2. CASE first # i
        <5>1. first <= i => first \in 1..(i - 1)
              BY <1>1, <3>4, <4>2
        <5> QED BY <1>2, <3>5, <5>1
      <4> QED BY <4>1, <4>2
    <3>7. first - 1 \in Nat /\ i <= first - 1
          BY <1>1, <3>4, <3>6
    <3>8. Every(20, rs, first - 1) = r
          BY <1>4, <3>7
    <3>9. FieldsOutcome(t, rs) = Failing(Every(20, rs, first - 1))
          BY <2>3 DEF FieldsOutcome, first
    <3> QED BY <1>3, <1>6, <2>1, <3>8, <3>9
  <2> QED BY <2>2, <2>3
<1>12. CASE Kind(t) = "cell"
  <2>1. LoopOutcome(t, rs) = CellOutcome(t, rs)
        BY <1>12, LoopOutcomeCases
  <2>2. LoopLen(t) = IF CellIsNull(t) THEN 0 ELSE 1
        BY <1>12, Zenon DEF LoopLen
  <2>3. i = 1 /\ ~CellIsNull(t)
        BY <1>1, <2>2
  <2>4. Every(20, rs, 1) = r
        BY <1>4, <2>3
  <2> QED BY <1>3, <1>6, <2>1, <2>3, <2>4 DEF CellOutcome
<1>13. CASE Kind(t) = "row"
  <2>1. LoopOutcome(t, rs) = RowOutcome(t, rs)
        BY <1>13, LoopOutcomeCases
  <2> QED BY <1>1, <1>3, <1>4, <1>6, <2>1 DEF RowOutcome
<1> QED BY <1>7, <1>8, <1>9, <1>10, <1>11, <1>12, <1>13 DEF AllKinds, r

(* What a loop that ran out of children answers, kind by kind.             *)
LEMMA LoopResultCases ==
  ASSUME NEW f
  PROVE  LET t == f.task IN
         /\ Kind(t) \in AnyKinds => LoopResult(f) = Reject
         /\ Kind(t) = "best" => LoopResult(f) =
              IF f.pick = 0 THEN Reject ELSE Own(f, "branch-index", f.pick)
         /\ Kind(t) = "repeat" => LoopResult(f) =
              IF RepeatInBounds(t) THEN Own(f, "repeat-count", Len(Items(t))) ELSE Reject
         /\ Kind(t) = "table" => LoopResult(f) = Own(f, "matched-keys", 0)
         /\ Kind(t) = "cell" => LoopResult(f) =
              IF ~CellIsNull(t) /\ Node[t.shape].name # None
              THEN Accept(f.score, Append(f.caps, Bind(Node[t.shape].name, CellChild(t).expr, 0)))
              ELSE Accept(f.score, f.caps)
         /\ Kind(t) \in {"and", "list", "fields", "row"} => LoopResult(f) = Accept(f.score, f.caps)
<1> DEFINE t == f.task
           best == IF f.pick = 0 THEN Reject ELSE Own(f, "branch-index", f.pick)
           repeat == IF RepeatInBounds(t) THEN Own(f, "repeat-count", Len(Items(t))) ELSE Reject
           table == Own(f, "matched-keys", 0)
           bound == ~CellIsNull(t) /\ Node[t.shape].name # None
           cell == Accept(f.score, Append(f.caps, Bind(Node[t.shape].name, CellChild(t).expr, 0)))
           plain == Accept(f.score, f.caps)
           out == LoopResult(f)
<1>1. out = CASE Kind(t) \in AnyKinds -> Reject [] Kind(t) = "best" -> best
              [] Kind(t) = "repeat" -> repeat [] Kind(t) = "table" -> table
              [] Kind(t) = "cell" /\ bound -> cell [] OTHER -> plain
  <2>1. out = CASE Kind(t) \in AnyKinds -> Reject [] Kind(t) = "best" -> best
                [] Kind(t) = "repeat" -> repeat [] Kind(t) = "table" -> table
                [] Kind(t) = "cell" /\ ~CellIsNull(t) /\ Node[t.shape].name # None -> cell
                [] OTHER -> plain
        BY DEF LoopResult
  <2> HIDE DEF best, repeat, table, cell, plain, out
  <2> QED BY <2>1
<1> HIDE DEF best, repeat, table, cell, plain, bound, out
<1>2. AnyKinds = {"or", "oneOf"}
      BY DEF AnyKinds
<1>3. /\ Kind(t) \in AnyKinds => out = Reject
      /\ Kind(t) = "best" => out = best
      /\ Kind(t) = "repeat" => out = repeat
      /\ Kind(t) = "table" => out = table
      /\ Kind(t) = "cell" => out = IF bound THEN cell ELSE plain
      /\ Kind(t) \in {"and", "list", "fields", "row"} => out = plain
      BY <1>1, <1>2
<1> QED BY <1>3 DEF best, repeat, table, cell, plain, bound, out

(* When the children that must all accept are used up, they did.           *)
LEMMA AllDone ==
  ASSUME EngineAssumption, NEW q \in Question, NEW f \in Frame, f.task = q.task,
         Kind(f.task) \in AllKinds, Open(f.task), LoopMeans(f, Outcomes(q)),
         f.i # 0, f.i > LoopLen(f.task), ~Blocks(f.task, f.i)
  PROVE  Outcome(f.task, Outcomes(q)) = LoopResult(f)
<1> DEFINE t == f.task
           rs == Outcomes(q)
           i == f.i
           n == Len(Kids(t))
           m == LoopLen(t)
           sum == Together(Start(t), rs)[m].score
<1>1. /\ t \in Task /\ m \in Nat /\ n \in Nat /\ i \in Nat \ {0} /\ i = m + 1 /\ m = i - 1
      /\ Outcome(t, rs) = LoopOutcome(t, rs)
  <2>1. t \in Task /\ Kind(t) \in LoopKinds /\ i \in Nat
        BY DEF Frame, LoopKinds
  <2>2. m \in Nat /\ n \in Nat /\ Outcome(t, rs) = LoopOutcome(t, rs) /\ i <= m + 1
        BY <2>1, LoopLenTyped, PartsTyped, OutcomeCases DEF LoopMeans
  <2> QED BY <2>1, <2>2
<1>2. DOMAIN rs \subseteq Nat \ {0} /\ \A j \in DOMAIN rs : j <= m
  <2>1. Kind(q.task) \in LoopKinds
        BY DEF LoopKinds
  <2> QED BY <2>1, PlacesTyped
<1>3. /\ Gathered(f, rs) /\ WalkedOn(f, rs) /\ \A j \in 1..m : ~Blocks(t, j)
      /\ f.caps = Together(Start(t), rs)[m].caps
      /\ f.score = IF Kind(t) = "row" THEN 100 ELSE sum
      BY <1>1 DEF LoopMeans, Gathered
<1>4. /\ \A from : \A k \in Nat : k <= m => Every(from, rs, k).st = "accept"
      /\ Every(Start(t), rs, m) = Accept(sum, f.caps)
  <2>1. /\ \A from : \A k \in Nat : k < i => Every(from, rs, k).st = "accept"
        /\ Every(Start(t), rs, i - 1) = Accept(Together(Start(t), rs)[i - 1].score, f.caps)
        BY <1>1, <1>2, <1>3, GatheredEvery
  <2>2. \A k \in Nat : k <= m => k < i
        BY <1>1
  <2> QED BY <1>1, <2>1, <2>2
<1>5. \A name, e, k : With(Accept(sum, f.caps), name, e, k) =
                        Accept(sum, Append(f.caps, Bind(name, e, k)))
      BY DEF With, Accept
<1>6. \A s, c : Accept(s, c).st = "accept" /\ Failing(Accept(s, c)) = Reject
      /\ Accept(s, c).caps = c
      BY DEF Accept, Failing
<1> SUFFICES LoopOutcome(t, rs) = LoopResult(f)
      BY <1>1
<1> HIDE DEF rs, sum
<1>7. CASE Kind(t) = "and"
  <2>1. Start(t) = IF Kids(t) = <<>> THEN 0 ELSE 10
        BY <1>7 DEF Start, BaseScore
  <2> QED BY <1>3, <1>4, <1>7, <2>1, LoopOutcomeCases, LoopResultCases
<1>8. CASE Kind(t) \in {"list", "repeat", "table", "fields"}
  <2>1. Start(t) = 20 /\ f.score = sum
        BY <1>3, <1>8 DEF Start, BaseScore
  <2>2. CASE Kind(t) = "list"
    <3> DEFINE seen == Looked(t, rs)
    <3>1. seen \in Nat /\ (seen # m => seen \in DOMAIN rs /\ i <= seen)
          BY <1>1, <1>2, <1>3, <2>2, LookedAhead
    <3>2. LoopOutcome(t, rs) = Every(20, rs, seen)
          BY <2>2, LoopOutcomeCases
    <3> HIDE DEF seen
    <3>3. seen = m
          BY <1>1, <1>2, <3>1
    <3> QED BY <1>4, <2>1, <2>2, <3>2, <3>3, LoopResultCases
  <2>3. CASE Kind(t) = "repeat"
    <3>1. LoopOutcome(t, rs) = RepeatOutcome(t, rs)
          BY <2>3, LoopOutcomeCases
    <3>2. RepeatOutcome(t, rs) =
            IF RepeatInBounds(t)
            THEN Accept(sum, Append(f.caps, Bind("repeat-count", t.expr, Len(Items(t)))))
            ELSE Reject
      <4>1. Every(20, rs, m) = Accept(sum, f.caps)
            BY <1>4, <2>1
      <4> DEFINE k == Len(Items(t))
      <4>2. RepeatOutcome(t, rs) =
              IF Every(20, rs, m).st # "accept" \/ RepeatInBounds(t)
              THEN With(Every(20, rs, m), "repeat-count", t.expr, k) ELSE Reject
            BY DEF RepeatOutcome
      <4> HIDE DEF k, m
      <4>3. With(Every(20, rs, m), "repeat-count", t.expr, k) =
              Accept(sum, Append(f.caps, Bind("repeat-count", t.expr, k)))
            BY <1>5, <4>1
      <4> QED BY <1>6, <4>1, <4>2, <4>3 DEF k
    <3> QED BY <2>1, <2>3, <3>1, <3>2, LoopResultCases DEF Own
  <2>4. CASE Kind(t) = "table"
    <3>1. LoopOutcome(t, rs) = TableOutcome(t, rs)
          BY <2>4, LoopOutcomeCases
    <3>2. m = n + Len(Keys(t)) /\ Len(Keys(t)) \in Nat /\ DOMAIN Keys(t) = 1..Len(Keys(t))
          BY <1>1, <2>4, LoopCases, PartsTyped
    <3>3. Absent(t) = {}
          BY <1>1, <2>4, <3>2, Unblocked
    <3>4. ASSUME Node[t.shape].extra = "reject", NEW j \in Extras(t)
          PROVE  FALSE
      <4>1. j \in 1..Len(Keys(t))
            BY <3>2 DEF Extras
      <4>2. j \in Nat /\ n + j \in 1..m /\ n + j \in Nat \ {0} /\ n + j > n /\ n + j <= m /\ n + j - n = j
            BY <1>1, <3>2, <4>1
      <4>3. ~Blocks(t, n + j)
            BY <1>3, <4>2
      <4> DEFINE at == n + j
      <4> HIDE DEF at, n, m
      <4>4. at \in Nat \ {0} /\ at > n /\ at <= m /\ at - n = j
            BY <1>1, <4>2 DEF at
      <4>5. ~Blocks(t, at)
            BY <4>3 DEF at
      <4> QED BY <1>1, <2>4, <3>4, <4>4, <4>5, Unblocked DEF n, m
    <3>5. ~(Node[t.shape].extra = "reject" /\ Extras(t) # {})
          BY <3>4
    <3>6. Every(20, rs, n).st = "accept"
          BY <1>1, <1>4, <3>2
    <3>7. TableOutcome(t, rs) = With(Every(20, rs, m), "matched-keys", t.expr, 0)
          BY <3>3, <3>5, <3>6 DEF TableOutcome
    <3>8. TableOutcome(t, rs) = Accept(sum, Append(f.caps, Bind("matched-keys", t.expr, 0)))
          BY <1>4, <1>5, <2>1, <3>7
    <3> QED BY <2>1, <2>4, <3>1, <3>8, LoopResultCases DEF Own
  <2>5. CASE Kind(t) = "fields"
    <3>1. LoopOutcome(t, rs) = FieldsOutcome(t, rs)
          BY <2>5, LoopOutcomeCases
    <3>2. m = n
          BY <2>5, LoopCases
    <3>3. ASSUME NEW j \in Absent(t) PROVE FALSE
      <4>1. j \in 1..n
            BY <1>1, PartsTyped, LenProperties DEF Absent
      <4>2. j \in Nat \ {0} /\ ~Blocks(t, j)
            BY <1>1, <1>3, <3>2, <4>1
      <4> QED BY <1>1, <2>5, <3>3, <4>2, Unblocked
    <3>4. FieldsOutcome(t, rs) = Every(20, rs, m)
          BY <3>3 DEF FieldsOutcome
    <3> QED BY <1>4, <2>1, <2>5, <3>1, <3>4, LoopResultCases
  <2> QED BY <1>8, <2>2, <2>3, <2>4, <2>5
<1>9. CASE Kind(t) = "cell"
  <2>1. LoopOutcome(t, rs) = CellOutcome(t, rs)
        BY <1>9, LoopOutcomeCases
  <2>2. m = IF CellIsNull(t) THEN 0 ELSE 1
        BY <1>9, Zenon DEF LoopLen
  <2>3. ~CellRefuses(t) /\ ~CellFails(t)
        BY <1>9 DEF Open, Refuses, EntryFails, LoopKinds, AllKinds
  <2>4. Start(t) = (IF CellIsNull(t) THEN 80 ELSE 20) /\ f.score = sum
        BY <1>3, <1>9, <2>3 DEF Start, BaseScore
  <2>5. CASE CellIsNull(t)
    <3>1. Together(80, rs)[0] = Accept(80, <<>>)
          BY TogetherEquation
    <3>2. Every(80, rs, 0) = Accept(sum, f.caps)
          BY <1>4, <2>2, <2>4, <2>5
    <3>3. sum = 80 /\ f.caps = <<>>
      <4>1. sum = Together(80, rs)[0].score
            BY <2>2, <2>4, <2>5 DEF sum
      <4>2. f.caps = Together(80, rs)[0].caps
            BY <1>3, <2>2, <2>4, <2>5
      <4> QED BY <3>1, <4>1, <4>2 DEF Accept
    <3>4. LoopResult(f) = Accept(f.score, f.caps)
          BY <1>9, <2>5, LoopResultCases
    <3> QED BY <2>1, <2>4, <2>5, <3>3, <3>4 DEF CellOutcome
  <2>6. CASE ~CellIsNull(t)
    <3> DEFINE name == Node[t.shape].name
               e == CellChild(t).expr
    <3>1. Every(20, rs, 1) = Accept(sum, f.caps)
          BY <1>4, <2>2, <2>4, <2>6
    <3>2. CellOutcome(t, rs) =
            IF name = None THEN Every(20, rs, 1) ELSE With(Every(20, rs, 1), name, e, 0)
          BY <2>6 DEF CellOutcome
    <3>3. LoopResult(f) = IF name # None
                          THEN Accept(f.score, Append(f.caps, Bind(name, e, 0)))
                          ELSE Accept(f.score, f.caps)
          BY <1>9, <2>6, LoopResultCases
    <3> HIDE DEF name, e
    <3> QED BY <1>5, <2>1, <2>4, <3>1, <3>2, <3>3
  <2> QED BY <2>5, <2>6
<1>10. CASE Kind(t) = "row"
  <2>1. LoopOutcome(t, rs) = RowOutcome(t, rs) /\ Start(t) = 0
        BY <1>10, LoopOutcomeCases DEF Start
  <2>2. Every(0, rs, m) = Accept(sum, f.caps) /\ f.score = 100
        BY <1>3, <1>4, <1>10, <2>1
  <2>3. RowOutcome(t, rs) = Accept(100, f.caps)
        BY <1>6, <2>2 DEF RowOutcome
  <2> QED BY <1>10, <2>1, <2>2, <2>3, LoopResultCases
<1> QED BY <1>7, <1>8, <1>9, <1>10 DEF AllKinds

-----------------------------------------------------------------------------
(* Every action keeps the invariant: calls.                                *)

LEMMA FrameOpens ==
  ASSUME NEW q, NEW f \in Frame, f.task = q.task, f.i = 1,
         \/ Kind(f.task) \in {"ref", "class"} /\ f.held = "guard"
         \/ Kind(f.task) = "defs" /\ f.held = "scope"
  PROVE  FrameMeans(f, q) /\ ~Blocks(f.task, f.i)
<1>1. Kind(f.task) \notin LoopKinds \cup LeafKinds /\ Kind(f.task) \in {"ref", "defs", "class"}
      BY KindsApart
<1>2. ~Blocks(f.task, f.i)
      BY <1>1 DEF Blocks, LoopKinds, AllKinds
<1> QED BY <1>1, <1>2 DEF FrameMeans

(* A leaf, a reference, a definition and a class answer or ask for what    *)
(* their questions say.                                                    *)
LEMMA CallsFollow ==
  ASSUME EngineAssumption, Accounted, NEW qs, Follows(qs), Calls
  PROVE  Understood'
<1> DEFINE q == qs[Len(stack)]
           t == Top.task
           rs == Outcomes(q)
<1>1. ASSUME Calling
      PROVE  /\ stack # <<>> /\ ret.st = "none" /\ q \in Question /\ q.task = t
             /\ FrameMeans(Top, q) /\ t \in Task /\ Top \in Frame
             /\ scopes = ScopeIn(Top, q) /\ MaxDepth - depth = FuelIn(Top, q)
             /\ q.fuel \in Nat /\ q.scope \in Seq(Shape)
             /\ Meaning[q] = Outcome(t, rs) /\ DOMAIN rs = Places(q)
             /\ depth \in Nat /\ MaxDepth \in Nat
             /\ Top.i = 0 => scopes = q.scope /\ MaxDepth - depth = q.fuel /\ Top.held = "none"
  <2>1. stack # <<>> /\ ret.st = "none"
        BY <1>1 DEF Calling
  <2>2. /\ q \in Question /\ q.task = t /\ FrameMeans(Top, q) /\ t \in Task /\ Top \in Frame
        /\ scopes = ScopeIn(Top, q) /\ MaxDepth - depth = FuelIn(Top, q)
        /\ q.fuel \in Nat /\ q.scope \in Seq(Shape) /\ Meaning[q] = Outcome(t, rs)
        BY <2>1, TopMeans
  <2>3. depth \in Nat /\ MaxDepth \in Nat
        BY DEF Accounted, Shaped, TypeOK, EngineAssumption
  <2>4. Top.i = 0 => scopes = q.scope /\ MaxDepth - depth = q.fuel /\ Top.held = "none"
        BY <2>2 DEF FrameMeans, ScopeIn, FuelIn
  <2>5. DOMAIN rs = Places(q)
        BY DEF Outcomes
  <2> QED BY <2>1, <2>2, <2>3, <2>4, <2>5
<1> HIDE DEF q, t, rs
<1>2. ASSUME Calling, NEW r, Leave(r), r = Meaning[q], Plain(r)
      PROVE  Understood'
      BY <1>1, <1>2, LeaveFollows DEF q
<1>3. Plain(Reject) /\ Plain(Error)
      BY DEF Plain, Reject, Error
<1>4. CASE Leaf
  <2>1. Calling /\ Kind(t) \in LeafKinds /\ Leave(LeafResult(t))
        BY <1>4 DEF Leaf, t
  <2>2. LeafResult(t) = Meaning[q]
        BY <1>1, <2>1, OutcomeCases
  <2> QED BY <1>2, <2>1, <2>2, LeafPlain
<1>5. CASE RefExhausted
  <2>1. Calling /\ Kind(t) = "ref" /\ Top.i = 0 /\ depth >= MaxDepth /\ Leave(Reject)
        BY <1>5 DEF RefExhausted, Entering, BudgetSpent, t
  <2>2. Places(q) = {}
        BY <1>1, <2>1, PlacesCases
  <2>3. Reject = Meaning[q]
        BY <1>1, <2>1, <2>2, OutcomeCases
  <2> QED BY <1>2, <1>3, <2>1, <2>3
<1>6. CASE RefUndefined
  <2>1. /\ Calling /\ Kind(t) = "ref" /\ Top.i = 0 /\ ~DefinedIn(scopes, Node[t.shape].name)
        /\ Leave(Reject)
        BY <1>6 DEF RefUndefined, Entering, RefName, t
  <2>2. DefiningScopes(q.scope, Node[t.shape].name) = {}
        BY <1>1, <2>1, ResolvedSame
  <2>3. Places(q) = {}
        BY <1>1, <2>1, <2>2, PlacesCases
  <2>4. Reject = Meaning[q]
        BY <1>1, <2>1, <2>3, OutcomeCases
  <2> QED BY <1>2, <1>3, <2>1, <2>4
<1>7. CASE RefResolved
  <2> DEFINE f == [Top EXCEPT !.i = 1, !.held = "guard"]
             name == Node[t.shape].name
             job == Job(ResolveIn(scopes, name), t.expr, t.path)
  <2>1. /\ Calling /\ Kind(t) = "ref" /\ Top.i = 0 /\ ~(depth >= MaxDepth)
        /\ DefinedIn(scopes, name) /\ depth' = depth + 1 /\ scopes' = scopes /\ CallFrom(f, job)
        BY <1>7 DEF RefResolved, Entering, BudgetSpent, RefName, t
  <2>2. f \in Frame /\ f.task = t /\ f.i = 1 /\ f.held = "guard"
        BY <1>1, <2>1 DEF Frame, t
  <2>3. q.fuel > 0 /\ DefiningScopes(q.scope, name) # {}
        /\ ResolveIn(scopes, name) = Resolved(q.scope, name)
        BY <1>1, <2>1, ResolvedSame
  <2>4. Places(q) = {1}
        BY <1>1, <2>1, <2>3, PlacesCases
  <2>5. Part(q, 1).task = job
        BY <1>1, <2>1, <2>3, PartCases DEF Asking
  <2> HIDE DEF f, job
  <2>6. FrameMeans(f, q) /\ Awaits(f, q)
        BY <1>1, <2>1, <2>2, <2>4, FrameOpens DEF Awaits
  <2>7. scopes' = ScopeIn(f, q) /\ MaxDepth - depth' = FuelIn(f, q)
        BY <1>1, <2>1, <2>2 DEF ScopeIn, FuelIn
  <2> QED BY <2>1, <2>2, <2>5, <2>6, <2>7, CallFollows DEF q
<1>8. CASE DefsEnter
  <2> DEFINE f == [Top EXCEPT !.i = 1, !.held = "scope"]
             job == Job(Kids(t)[1], t.expr, t.path)
  <2>1. /\ Calling /\ Kind(t) = "defs" /\ Top.i = 0 /\ scopes' = Append(scopes, t.shape)
        /\ depth' = depth /\ CallFrom(f, job)
        BY <1>8 DEF DefsEnter, Entering, t
  <2>2. f \in Frame /\ f.task = t /\ f.i = 1 /\ f.held = "scope"
        BY <1>1, <2>1 DEF Frame, t
  <2>3. Places(q) = {1}
        BY <1>1, <2>1, PlacesCases
  <2>4. Part(q, 1).task = job
        BY <1>1, <2>1, PartCases DEF Asking
  <2> HIDE DEF f, job
  <2>5. FrameMeans(f, q) /\ Awaits(f, q)
        BY <1>1, <2>1, <2>2, <2>3, FrameOpens DEF Awaits
  <2>6. scopes' = ScopeIn(f, q) /\ MaxDepth - depth' = FuelIn(f, q)
        BY <1>1, <2>1, <2>2 DEF ScopeIn, FuelIn
  <2> QED BY <2>1, <2>2, <2>4, <2>5, <2>6, CallFollows DEF q
<1>9. CASE ClassAnswers
  <2>1. Calling /\ Kind(t) = "class" /\ ~ClassOpens(t) /\ Leave(ClassDirect(t))
        BY <1>9 DEF ClassAnswers, Entering, t
  <2>2. ClassDirect(t) = Meaning[q]
        BY <1>1, <2>1, OutcomeCases DEF ClassOutcome
  <2> QED BY <1>2, <2>1, <2>2, LeafPlain
<1>10. CASE ClassExhausted
  <2>1. /\ Calling /\ Kind(t) = "class" /\ Top.i = 0 /\ ClassOpens(t) /\ depth >= MaxDepth
        /\ Leave(Reject)
        BY <1>10 DEF ClassExhausted, Entering, BudgetSpent, t
  <2>2. Places(q) = {}
        BY <1>1, <2>1, PlacesCases
  <2>3. Reject = Meaning[q]
        BY <1>1, <2>1, <2>2, OutcomeCases DEF ClassOutcome
  <2> QED BY <1>2, <1>3, <2>1, <2>3
<1>11. CASE ClassInstance
  <2> DEFINE f == [Top EXCEPT !.i = 1, !.held = "guard"]
             job == Job(Kids(t)[1], t.expr, "expr")
  <2>1. /\ Calling /\ Kind(t) = "class" /\ Top.i = 0 /\ ClassOpens(t) /\ ~(depth >= MaxDepth)
        /\ depth' = depth + 1 /\ scopes' = scopes /\ CallFrom(f, job)
        BY <1>11 DEF ClassInstance, Entering, BudgetSpent, t
  <2>2. f \in Frame /\ f.task = t /\ f.i = 1 /\ f.held = "guard"
        BY <1>1, <2>1 DEF Frame, t
  <2>3. Places(q) = {1}
    <3>1. q.fuel > 0
          BY <1>1, <2>1
    <3> QED BY <1>1, <2>1, <3>1, PlacesCases
  <2>4. Part(q, 1).task = job
        BY <1>1, <2>1, PartCases DEF Asking
  <2> HIDE DEF f, job
  <2>5. FrameMeans(f, q) /\ Awaits(f, q)
        BY <1>1, <2>1, <2>2, <2>3, FrameOpens DEF Awaits
  <2>6. scopes' = ScopeIn(f, q) /\ MaxDepth - depth' = FuelIn(f, q)
        BY <1>1, <2>1, <2>2 DEF ScopeIn, FuelIn
  <2> QED BY <2>1, <2>2, <2>4, <2>5, <2>6, CallFollows DEF q
<1> QED BY <1>4, <1>5, <1>6, <1>7, <1>8, <1>9, <1>10, <1>11 DEF Calls

-----------------------------------------------------------------------------
(* Every action keeps the invariant: loops.                                *)

(* The children before the next turn are those before this one and this    *)
(* one's, if it has one.                                                   *)
LEMMA EarlierNext ==
  ASSUME NEW f, NEW g, NEW rs, DOMAIN rs \subseteq Nat \ {0}, f.i \in Nat, g.i = f.i + 1
  PROVE  Earlier(g, rs) = Earlier(f, rs) \cup ({f.i} \cap DOMAIN rs)
<1>1. \A j \in DOMAIN rs : j \in Nat /\ (j < f.i + 1 <=> j < f.i \/ j = f.i)
      OBVIOUS
<1> QED BY <1>1 DEF Earlier

(* A turn without a child leaves what was gathered as it was.              *)
LEMMA SkipMeans ==
  ASSUME EngineAssumption, NEW q \in Question, NEW f \in Frame, NEW g \in Frame,
         FrameMeans(f, q), Kind(f.task) \in LoopKinds, f.i # 0, f.i <= LoopLen(f.task),
         Child(f.task, f.i) = None, ~Blocks(f.task, f.i),
         g.task = f.task, g.i = f.i + 1, g.score = f.score, g.caps = f.caps,
         g.pick = f.pick, g.held = f.held
  PROVE  FrameMeans(g, q)
<1> DEFINE t == f.task
           rs == Outcomes(q)
<1>1. /\ t = q.task /\ Open(t) /\ LoopMeans(f, rs) /\ f.i \in Nat \ {0} /\ t \in Task
      /\ f.i - 1 \in Nat
      BY DEF FrameMeans, Frame
<1>2. DOMAIN rs \subseteq Nat \ {0} /\ f.i \notin DOMAIN rs
  <2>1. DOMAIN rs \subseteq Nat \ {0} /\ DOMAIN rs = Places(q)
        BY PlacesTyped
  <2>2. Places(q) = {i \in 1..LoopLen(t) : Child(t, i) # None}
        BY <1>1, PlacesCases
  <2> QED BY <2>1, <2>2
<1> HIDE DEF rs
<1>3. Earlier(g, rs) = Earlier(f, rs)
  <2>1. f.i \in Nat
        BY <1>1
  <2>2. Earlier(g, rs) = Earlier(f, rs) \cup ({f.i} \cap DOMAIN rs)
        BY <1>2, <2>1, EarlierNext
  <2> QED BY <1>2, <2>2
<1>4. LoopLen(t) \in Nat
      BY <1>1, LoopLenTyped
<1>5. Kind(t) \in AllKinds => Gathered(g, rs) /\ WalkedOn(g, rs)
  <2> SUFFICES ASSUME Kind(t) \in AllKinds PROVE Gathered(g, rs) /\ WalkedOn(g, rs)
        OBVIOUS
  <2>1. Gathered(f, rs) /\ WalkedOn(f, rs)
        BY <1>1 DEF LoopMeans
  <2>2. Together(Start(t), rs)[f.i] = Together(Start(t), rs)[f.i - 1]
        BY <1>1, <1>2, TogetherEquation
  <2>3. g.i - 1 = f.i /\ \A j \in 1..f.i : j \in 1..(f.i - 1) \/ j = f.i
        BY <1>1
  <2>4. Gathered(g, rs)
    <3>1. \A j \in 1..(g.i - 1) : ~Blocks(g.task, j)
          BY <2>1, <2>3 DEF Gathered
    <3> QED BY <1>3, <2>1, <2>2, <2>3, <3>1 DEF Gathered
  <2>5. WalkedOn(g, rs)
        BY <1>3, <2>1 DEF WalkedOn
  <2> QED BY <2>4, <2>5
<1>6. Kind(t) \notin WrapKinds \cup {"not"}
  <2>1. SUFFICES ASSUME Kind(t) \in WrapKinds \cup {"not"} PROVE FALSE
        OBVIOUS
  <2>2. f.i = 1
        BY <1>1, <2>1 DEF LoopMeans
  <2> QED BY <1>1, <2>1, <2>2, WrapperAsks
<1>7. Kind(t) = "best" => Chosen(g, rs)
      BY <1>1, <1>3 DEF LoopMeans, Chosen
<1>8. Kind(t) \in AnyKinds => \A j \in Earlier(g, rs) : rs[j].st = "reject"
      BY <1>1, <1>3 DEF LoopMeans
<1>9. LoopMeans(g, rs)
      BY <1>1, <1>4, <1>5, <1>6, <1>7, <1>8 DEF LoopMeans
<1>10. Kind(t) \notin LeafKinds \cup {"ref", "defs", "class"}
       BY KindsApart
<1> QED BY <1>1, <1>9, <1>10 DEF FrameMeans, rs

(* The first turn starts with nothing gathered.                            *)
LEMMA EnterMeans ==
  ASSUME EngineAssumption, NEW q \in Question, NEW f \in Frame, NEW g \in Frame,
         FrameMeans(f, q), Kind(f.task) \in LoopKinds, Open(f.task), f.i = 0,
         g.task = f.task, g.i = 1, g.score = f.score, g.caps = f.caps,
         g.pick = f.pick, g.held = f.held
  PROVE  FrameMeans(g, q)
<1> DEFINE t == f.task
           rs == Outcomes(q)
<1>1. /\ t = q.task /\ t \in Task /\ g.held = "none" /\ g.score = BaseScore(t)
      /\ g.caps = <<>> /\ g.pick = 0
      BY DEF FrameMeans, Frame
<1>2. Earlier(g, rs) = {}
  <2>1. \A j \in DOMAIN rs : j \in Nat \ {0}
        BY PlacesTyped
  <2> QED BY <2>1 DEF Earlier
<1> HIDE DEF rs
<1>3. LoopLen(t) \in Nat
      BY <1>1, LoopLenTyped
<1>4. Kind(t) \in AllKinds => Gathered(g, rs) /\ WalkedOn(g, rs)
  <2>1. Together(Start(t), rs)[0] = Accept(Start(t), <<>>) /\ g.i - 1 = 0
        BY TogetherEquation
  <2>2. BaseScore(t) = IF Kind(t) = "row" THEN 100 ELSE Start(t)
    <3>1. Kind(t) = "row" => BaseScore(t) = 100
          BY DEF BaseScore
    <3> QED BY <3>1 DEF Start
  <2>3. Gathered(g, rs)
    <3>1. \A j \in 1..(g.i - 1) : ~Blocks(g.task, j)
          BY <2>1
    <3>2. Together(Start(t), rs)[0].score = Start(t) /\ Together(Start(t), rs)[0].caps = <<>>
          BY <2>1 DEF Accept
    <3> QED BY <1>1, <1>2, <2>1, <2>2, <3>1, <3>2 DEF Gathered
  <2>4. WalkedOn(g, rs)
        BY <1>2 DEF WalkedOn
  <2> QED BY <2>3, <2>4
<1>5. LoopMeans(g, rs)
      BY <1>1, <1>2, <1>3, <1>4 DEF LoopMeans, Chosen
<1>6. Kind(t) \notin LeafKinds \cup {"ref", "defs", "class"}
      BY KindsApart
<1> QED BY <1>1, <1>5, <1>6 DEF FrameMeans, rs

(* A turn that rejects by itself is the verdict of the table's keys or of  *)
(* the object's first missing field.                                       *)
LEMMA BlockRejects ==
  ASSUME EngineAssumption, NEW q \in Question, NEW f \in Frame, f.task = q.task,
         Kind(f.task) \in LoopKinds, Open(f.task), LoopMeans(f, Outcomes(q)), f.i # 0,
         Blocks(f.task, f.i)
  PROVE  Outcome(f.task, Outcomes(q)) = Reject
<1> DEFINE t == f.task
           rs == Outcomes(q)
           i == f.i
           n == Len(Kids(t))
<1>1. /\ t \in Task /\ i \in Nat \ {0} /\ n \in Nat
      /\ DOMAIN Kids(t) = 1..n /\ DOMAIN Keys(t) = 1..Len(Keys(t)) /\ Len(Keys(t)) \in Nat
      /\ Outcome(t, rs) = LoopOutcome(t, rs)
  <2>1. t \in Task
        BY DEF Frame
  <2> QED BY <2>1, PartsTyped, LenProperties, OutcomeCases DEF Frame
<1>2. Kind(t) \in {"table", "fields"}
      BY DEF Blocks
<1>3. Gathered(f, rs) /\ \A j \in 1..(i - 1) : ~Blocks(t, j)
      BY <1>2 DEF LoopMeans, Gathered, AllKinds
<1>4. \A from : \A m \in Nat : m < i => Every(from, rs, m).st = "accept"
      BY <1>1, <1>3, PlacesTyped, GatheredEvery
<1> SUFFICES LoopOutcome(t, rs) = Reject
      BY <1>1
<1> HIDE DEF rs
<1>5. CASE Kind(t) = "table"
  <2>1. TableBlocks(t, i) /\ i > n
        BY <1>1, <1>5 DEF Blocks, TableBlocks
  <2>2. Absent(t) # {} \/ (Node[t.shape].extra = "reject" /\ Extras(t) # {})
    <3>1. CASE \E k \in 1..n : Missing(t, k)
          BY <1>1, <3>1 DEF Absent
    <3>2. CASE /\ i <= n + Len(Keys(t)) /\ Keys(t)[i - n] \notin FieldKeys(t)
               /\ Node[t.shape].extra = "reject"
      <4>1. i - n \in 1..Len(Keys(t))
            BY <1>1, <2>1, <3>2
      <4>2. i - n \in Extras(t)
            BY <1>1, <3>2, <4>1 DEF Extras
      <4> QED BY <3>2, <4>2
    <3> QED BY <2>1, <3>1, <3>2 DEF TableBlocks
  <2>3. Every(20, rs, n).st = "accept"
        BY <1>1, <1>4, <2>1
  <2> QED BY <1>5, <2>2, <2>3, LoopOutcomeCases DEF TableOutcome
<1>6. CASE Kind(t) = "fields"
  <2>1. i \in 1..n /\ Missing(t, i)
        BY <1>1, <1>6 DEF Blocks
  <2>2. i \in Absent(t)
        BY <1>1, <2>1 DEF Absent
  <2>3. \A j \in Absent(t) : j \in Nat /\ i <= j
    <3> TAKE j \in Absent(t)
    <3>1. j \in 1..n /\ j \in Nat \ {0}
          BY <1>1 DEF Absent
    <3>2. ~(j < i)
      <4>1. j < i => j \in 1..(i - 1)
            BY <1>1, <3>1
      <4> QED BY <1>1, <1>3, <1>6, <3>1, <4>1, Unblocked
    <3> QED BY <1>1, <3>1, <3>2
  <2>4. Min(Absent(t)) = i
        BY <2>2, <2>3, MinUnique
  <2>5. i - 1 \in Nat /\ i - 1 < i
        BY <1>1
  <2>6. Every(20, rs, i - 1).st = "accept"
        BY <1>4, <2>5
  <2>7. FieldsOutcome(t, rs) = Failing(Every(20, rs, i - 1))
        BY <2>2, <2>4 DEF FieldsOutcome
  <2> QED BY <1>6, <2>6, <2>7, LoopOutcomeCases DEF Failing
<1> QED BY <1>2, <1>5, <1>6

(* When every branch was asked, the one that is kept is the best.          *)
LEMMA BestDone ==
  ASSUME EngineAssumption, NEW q \in Question, NEW f \in Frame, f.task = q.task,
         Kind(f.task) = "best", Open(f.task), LoopMeans(f, Outcomes(q)),
         f.i # 0, f.i > LoopLen(f.task)
  PROVE  Outcome(f.task, Outcomes(q)) = LoopResult(f)
<1> DEFINE t == f.task
           rs == Outcomes(q)
           good == {j \in DOMAIN rs : rs[j].st = "accept"}
<1>1. /\ t \in Task /\ f.i \in Nat /\ LoopLen(t) \in Nat /\ Kind(t) \in LoopKinds
      /\ LoopOutcome(t, rs) = BestOutcome(t, rs) /\ Outcome(t, rs) = LoopOutcome(t, rs)
      /\ LoopResult(f) = IF f.pick = 0 THEN Reject ELSE Own(f, "branch-index", f.pick)
  <2>1. t \in Task /\ f.i \in Nat /\ Kind(t) \in LoopKinds
        BY DEF Frame, LoopKinds
  <2> QED BY <2>1, LoopLenTyped, OutcomeCases, LoopOutcomeCases, LoopResultCases
<1>2. /\ DOMAIN rs \subseteq Nat /\ \A j \in DOMAIN rs : j \in Nat /\ j < f.i
  <2>1. DOMAIN rs \subseteq Nat \ {0} /\ \A j \in DOMAIN rs : j <= LoopLen(t)
        BY <1>1, PlacesTyped
  <2> QED BY <1>1, <2>1
<1>3. Earlier(f, rs) = DOMAIN rs
      BY <1>2 DEF Earlier
<1>4. Chosen(f, rs)
      BY DEF LoopMeans
<1> SUFFICES BestOutcome(t, rs) = LoopResult(f)
      BY <1>1
<1> HIDE DEF rs
<1>5. ~\E j \in DOMAIN rs : rs[j].st = "error"
      BY <1>3, <1>4 DEF Chosen
<1>6. CASE f.pick = 0
  <2>1. Best(rs) = {}
        BY <1>3, <1>4, <1>6 DEF Chosen, Best
  <2> QED BY <1>1, <1>5, <1>6, <2>1 DEF BestOutcome
<1>7. CASE f.pick # 0
  <2> DEFINE k == f.pick
  <2>1. /\ k \in DOMAIN rs /\ rs[k].st = "accept" /\ f.score = rs[k].score /\ f.caps = rs[k].caps
        /\ \A j \in DOMAIN rs : rs[j].st = "accept" => rs[j].score <= rs[k].score
        /\ \A j \in DOMAIN rs : rs[j].st = "accept" /\ j < k => rs[j].score < rs[k].score
        BY <1>3, <1>4, <1>7 DEF Chosen
  <2>2. \A j \in DOMAIN rs : rs[j].score \in Nat
        BY <1>3, <1>4 DEF Chosen, Match
  <2> HIDE DEF k
  <2>3. k \in Best(rs)
        BY <2>1 DEF Best
  <2>4. \A j \in Best(rs) : j \in Nat /\ k <= j
    <3> TAKE j \in Best(rs)
    <3>1. j \in DOMAIN rs /\ rs[j].st = "accept" /\ rs[k].score <= rs[j].score
          BY <2>1 DEF Best
    <3>2. ~(j < k)
          BY <2>1, <2>2, <3>1
    <3> QED BY <1>2, <2>1, <3>1, <3>2
  <2>5. Min(Best(rs)) = k
        BY <2>3, <2>4, MinUnique
  <2>6. BestOutcome(t, rs) = With(rs[k], "branch-index", t.expr, k)
        BY <1>5, <2>3, <2>5 DEF BestOutcome
  <2> QED BY <1>1, <1>7, <2>1, <2>6 DEF With, Own, k
<1> QED BY <1>6, <1>7

(* When every branch was asked and none accepted, none does.               *)
LEMMA AnyDone ==
  ASSUME EngineAssumption, NEW q \in Question, NEW f \in Frame, f.task = q.task,
         Kind(f.task) \in AnyKinds, Open(f.task), LoopMeans(f, Outcomes(q)),
         f.i # 0, f.i > LoopLen(f.task)
  PROVE  Outcome(f.task, Outcomes(q)) = LoopResult(f)
<1> DEFINE t == f.task
           rs == Outcomes(q)
<1>1. /\ t \in Task /\ f.i \in Nat /\ LoopLen(t) \in Nat /\ Kind(t) \in LoopKinds
      /\ Outcome(t, rs) = OrOutcome(t, rs) /\ LoopResult(f) = Reject
  <2>1. t \in Task /\ f.i \in Nat /\ Kind(t) \in LoopKinds
        BY DEF Frame, LoopKinds
  <2> QED BY <2>1, LoopLenTyped, OutcomeCases, LoopOutcomeCases, LoopResultCases
<1>2. Earlier(f, rs) = DOMAIN rs
  <2>1. \A j \in DOMAIN rs : j \in Nat /\ j <= LoopLen(t)
        BY <1>1, PlacesTyped
  <2> QED BY <1>1, <2>1 DEF Earlier
<1>3. Deciding(rs) = {}
      BY <1>2 DEF LoopMeans, Deciding
<1> QED BY <1>1, <1>3 DEF OrOutcome

(* A loop's own verdict is plain.                                          *)
LEMMA LoopResultPlain ==
  ASSUME NEW f, Kind(f.task) \in LoopKinds \ (WrapKinds \cup {"not"})
  PROVE  Plain(LoopResult(f))
<1>1. Plain(Reject) /\ \A s, c : Plain(Accept(s, c))
      BY DEF Plain, Reject, Accept
<1>2. \A name, k : Plain(Own(f, name, k))
      BY <1>1 DEF Own
<1>3. LoopResult(f) = Reject \/ (\E s, c : LoopResult(f) = Accept(s, c))
      \/ (\E name, k : LoopResult(f) = Own(f, name, k))
  <2>1. CASE Kind(f.task) \in AnyKinds \cup {"best"}
        BY <2>1, LoopResultCases
  <2>2. CASE Kind(f.task) \in {"repeat", "table"}
        BY <2>2, LoopResultCases
  <2>3. CASE Kind(f.task) \in {"cell", "and", "list", "fields", "row"}
        BY <2>3, LoopResultCases
  <2> QED BY <2>1, <2>2, <2>3 DEF LoopKinds, AllKinds
<1> QED BY <1>1, <1>2, <1>3

(* Every step of a loop does what its question says.                       *)
LEMMA LoopsFollow ==
  ASSUME EngineAssumption, Accounted, NEW qs, Follows(qs), Loops
  PROVE  Understood'
<1> DEFINE q == qs[Len(stack)]
           t == Top.task
           rs == Outcomes(q)
<1>1. Looping
      BY DEF Loops, LoopFails, LoopRefuse, LoopEnter, LoopBlock, InLoop, LoopSkip, LoopCall,
             LoopFinish
<1>2. /\ stack # <<>> /\ ret.st = "none" /\ q \in Question /\ q.task = t
      /\ FrameMeans(Top, q) /\ t \in Task /\ Top \in Frame /\ Top.i \in Nat
      /\ scopes = ScopeIn(Top, q) /\ MaxDepth - depth = FuelIn(Top, q)
      /\ Meaning[q] = Outcome(t, rs) /\ Kind(t) \in LoopKinds
      /\ Top.i # 0 => Open(t) /\ LoopMeans(Top, rs)
  <2>1. stack # <<>> /\ ret.st = "none" /\ Kind(t) \in LoopKinds
        BY <1>1 DEF Looping, Calling
  <2>2. /\ q \in Question /\ q.task = t /\ FrameMeans(Top, q) /\ t \in Task /\ Top \in Frame
        /\ scopes = ScopeIn(Top, q) /\ MaxDepth - depth = FuelIn(Top, q)
        /\ Meaning[q] = Outcome(t, rs)
        BY <2>1, TopMeans
  <2> QED BY <2>1, <2>2 DEF FrameMeans, Frame
<1> HIDE DEF q, t, rs
<1>3. ASSUME NEW r, Leave(r), r = Meaning[q], Plain(r)
      PROVE  Understood'
      BY <1>2, <1>3, LeaveFollows DEF q
<1>4. Plain(Reject) /\ Plain(Error)
      BY DEF Plain, Reject, Error
<1>5. CASE LoopFails
  <2>1. EntryFails(t) /\ Leave(Error)
        BY <1>5 DEF LoopFails, t
  <2> QED BY <1>2, <1>3, <1>4, <2>1, OutcomeCases
<1>6. CASE LoopRefuse
  <2>1. Refuses(t) /\ Leave(Reject)
        BY <1>6 DEF LoopRefuse, t
  <2> QED BY <1>2, <1>3, <1>4, <2>1, RefusesOrFails, OutcomeCases
<1>7. CASE LoopEnter
  <2> DEFINE g == [Top EXCEPT !.i = 1]
  <2>1. Top.i = 0 /\ Open(t) /\ Continue(g)
        BY <1>7 DEF LoopEnter, Open, t
  <2>2. /\ g \in Frame /\ g.task = Top.task /\ g.i = 1 /\ g.score = Top.score
        /\ g.caps = Top.caps /\ g.pick = Top.pick /\ g.held = Top.held
        BY <1>2 DEF Frame
  <2> HIDE DEF g
  <2>3. FrameMeans(g, q)
        BY <1>2, <2>1, <2>2, EnterMeans DEF t
  <2> QED BY <1>2, <2>1, <2>2, <2>3, ContinueFollows DEF q
<1>8. CASE LoopBlock
  <2>1. Top.i # 0 /\ Blocks(t, Top.i) /\ Leave(Reject)
        BY <1>8 DEF LoopBlock, t
  <2>2. Outcome(t, rs) = Reject
        BY <1>2, <2>1, BlockRejects DEF t, rs
  <2> QED BY <1>2, <1>3, <1>4, <2>1, <2>2
<1>9. CASE LoopSkip
  <2> DEFINE g == [Top EXCEPT !.i = Top.i + 1]
  <2>1. /\ Top.i # 0 /\ ~Blocks(t, Top.i) /\ Top.i <= LoopLen(t) /\ Child(t, Top.i) = None
        /\ Continue(g)
        BY <1>9 DEF LoopSkip, InLoop, t
  <2>2. /\ g \in Frame /\ g.task = Top.task /\ g.i = Top.i + 1 /\ g.score = Top.score
        /\ g.caps = Top.caps /\ g.pick = Top.pick /\ g.held = Top.held
        BY <1>2 DEF Frame
  <2> HIDE DEF g
  <2>3. FrameMeans(g, q)
        BY <1>2, <2>1, <2>2, SkipMeans DEF t
  <2> QED BY <1>2, <2>1, <2>2, <2>3, ContinueFollows DEF q
<1>10. CASE LoopCall
  <2>1. /\ Calling /\ Top.i # 0 /\ ~Blocks(t, Top.i) /\ Top.i <= LoopLen(t)
        /\ Child(t, Top.i) # None /\ CallFrom(Top, Child(t, Top.i))
        /\ depth' = depth /\ scopes' = scopes
        BY <1>10 DEF LoopCall, InLoop, Looping, t
  <2>2. Awaits(Top, q)
    <3>1. Top.i \in 1..LoopLen(t)
          BY <1>2, <2>1, LoopLenTyped
    <3> QED BY <1>2, <2>1, <3>1, PlacesCases DEF Awaits, t
  <2>3. Part(q, Top.i).task = Child(t, Top.i)
        BY <1>2, PartCases DEF Asking
  <2> QED BY <1>2, <2>1, <2>2, <2>3, CallFollows DEF q
<1>11. CASE LoopFinish
  <2>1. Top.i # 0 /\ ~Blocks(t, Top.i) /\ Top.i > LoopLen(t) /\ Leave(LoopResult(Top))
        BY <1>11 DEF LoopFinish, t
  <2>2. Kind(t) \notin WrapKinds \cup {"not"}
    <3>1. SUFFICES ASSUME Kind(t) \in WrapKinds \cup {"not"} PROVE FALSE
          OBVIOUS
    <3>2. Top.i = 1 /\ LoopLen(t) = 1
          BY <1>2, <2>1, <3>1, WrapperAsks DEF LoopMeans, t
    <3> QED BY <2>1, <3>2
  <2>3. Outcome(t, rs) = LoopResult(Top)
    <3>1. CASE Kind(t) \in AllKinds
          BY <1>2, <2>1, <3>1, AllDone DEF t, rs
    <3>2. CASE Kind(t) \in AnyKinds
          BY <1>2, <2>1, <3>2, AnyDone DEF t, rs
    <3>3. CASE Kind(t) = "best"
          BY <1>2, <2>1, <3>3, BestDone DEF t, rs
    <3> QED BY <1>2, <2>2, <3>1, <3>2, <3>3 DEF LoopKinds
  <2>4. Plain(LoopResult(Top))
        BY <1>2, <2>2, LoopResultPlain DEF t
  <2> QED BY <1>2, <1>3, <2>1, <2>3, <2>4
<1> QED BY <1>5, <1>6, <1>7, <1>8, <1>9, <1>10, <1>11 DEF Loops

-----------------------------------------------------------------------------
(* Every action keeps the invariant: returns.                              *)

(* A frame whose child was heard, in its next turn.                        *)
LEMMA HeardMeans ==
  ASSUME EngineAssumption, NEW q \in Question, NEW f \in Frame, NEW g \in Frame,
         FrameMeans(f, q), Awaits(f, q), Kind(f.task) \in LoopKinds \ (WrapKinds \cup {"not"}),
         g.task = f.task, g.i = f.i + 1, g.held = f.held,
         Kind(f.task) \in AllKinds => Gathered(g, Outcomes(q)) /\ WalkedOn(g, Outcomes(q)),
         Kind(f.task) \in AnyKinds => Outcomes(q)[f.i].st = "reject",
         Kind(f.task) = "best" => Chosen(g, Outcomes(q))
  PROVE  FrameMeans(g, q)
<1> DEFINE t == f.task
           rs == Outcomes(q)
<1>1. /\ t = q.task /\ Open(t) /\ LoopMeans(f, rs) /\ f.i \in Nat \ {0} /\ t \in Task
      /\ f.i <= LoopLen(t) /\ DOMAIN rs \subseteq Nat \ {0} /\ f.i \in DOMAIN rs
      BY PlacesTyped DEF FrameMeans, Frame, Awaits
<1>2. LoopLen(t) \in Nat
      BY <1>1, LoopLenTyped
<1>3. Kind(t) \in AnyKinds => \A j \in Earlier(g, rs) : rs[j].st = "reject"
  <2>1. Earlier(g, rs) = Earlier(f, rs) \cup ({f.i} \cap DOMAIN rs)
        BY <1>1, EarlierNext
  <2> QED BY <1>1, <2>1 DEF LoopMeans
<1>4. LoopMeans(g, rs)
  <2>1. g.i <= LoopLen(g.task) + 1 /\ g.i # 0
        BY <1>1, <1>2
  <2> HIDE DEF rs
  <2> QED BY <1>1, <1>3, <2>1 DEF LoopMeans, rs
<1>5. Kind(t) \notin LeafKinds \cup {"ref", "defs", "class"} /\ g.i # 0
      BY <1>1, KindsApart
<1> QED BY <1>1, <1>4, <1>5 DEF FrameMeans

(* An accepted child is added to what the frame has gathered.  The walk    *)
(* goes on unless the child is a tail element that cuts it short.          *)
CutShort(f, r) ==
  /\ Kind(f.task) = "list" /\ f.task.path = "value" /\ f.i > Len(Kids(f.task))
  /\ Total[Node[f.task.shape].rest] /\ r.caps = <<>>

LEMMA JoinMeans ==
  ASSUME EngineAssumption, NEW q \in Question, NEW f \in Frame, NEW g \in Frame,
         FrameMeans(f, q), Awaits(f, q), Kind(f.task) \in AllKinds,
         NEW r, r = Outcomes(q)[f.i], r.st = "accept",
         g.task = f.task, g.i = f.i + 1, g.caps = f.caps \o r.caps,
         g.score = IF Kind(f.task) = "row" THEN f.score ELSE f.score + r.score
  PROVE  LET rs == Outcomes(q)  all == Together(Start(f.task), rs)[f.i] IN
         /\ Gathered(g, rs) /\ g.caps = all.caps
         /\ Kind(f.task) # "row" => g.score = all.score
         /\ ~CutShort(f, r) => WalkedOn(g, rs)
<1> DEFINE t == f.task
           rs == Outcomes(q)
           all == Together(Start(t), rs)
<1>1. /\ t = q.task /\ f.i \in Nat \ {0} /\ DOMAIN rs \subseteq Nat \ {0} /\ f.i \in DOMAIN rs
      /\ ~Blocks(t, f.i) /\ f.i - 1 \in Nat /\ g.i - 1 = f.i
      BY PlacesTyped DEF FrameMeans, Frame, Awaits
<1>2. Gathered(f, rs) /\ WalkedOn(f, rs)
  <2>1. f.i # 0 /\ Kind(t) \in LoopKinds
        BY <1>1 DEF LoopKinds
  <2> QED BY <2>1 DEF FrameMeans, LoopMeans
<1>3. Earlier(g, rs) = Earlier(f, rs) \cup {f.i}
  <2>1. Earlier(g, rs) = Earlier(f, rs) \cup ({f.i} \cap DOMAIN rs)
        BY <1>1, EarlierNext
  <2> QED BY <1>1, <2>1
<1> HIDE DEF rs
<1>4. all[f.i] = Accept(all[f.i - 1].score + rs[f.i].score, all[f.i - 1].caps \o rs[f.i].caps)
      BY <1>1, TogetherEquation
<1>5. /\ f.caps = all[f.i - 1].caps
      /\ f.score = IF Kind(t) = "row" THEN 100 ELSE all[f.i - 1].score
      BY <1>2 DEF Gathered
<1> HIDE DEF all
<1>6. r = rs[f.i]
      BY DEF rs
<1>7. /\ g.caps = all[f.i].caps
      /\ g.score = IF Kind(t) = "row" THEN 100 ELSE all[f.i].score
  <2> DEFINE a == all[f.i - 1]
             score == a.score + rs[f.i].score
             caps == a.caps \o rs[f.i].caps
  <2>1. all[f.i].score = score /\ all[f.i].caps = caps
    <3> HIDE DEF score, caps
    <3>1. all[f.i] = Accept(score, caps)
          BY <1>4 DEF score, caps
    <3> QED BY <3>1 DEF Accept
  <2>2. g.caps = caps
        BY <1>5, <1>6
  <2>3. g.score = IF Kind(t) = "row" THEN 100 ELSE score
        BY <1>5, <1>6
  <2> HIDE DEF score, caps
  <2> QED BY <2>1, <2>2, <2>3
<1>8. Gathered(g, rs)
  <2>1. \A j \in 1..(g.i - 1) : ~Blocks(g.task, j)
    <3>1. \A j \in 1..f.i : j \in 1..(f.i - 1) \/ j = f.i
          BY <1>1
    <3> QED BY <1>1, <1>2, <3>1 DEF Gathered
  <2>2. \A j \in Earlier(g, rs) : rs[j].st = "accept"
        BY <1>2, <1>3, <1>6 DEF Gathered
  <2> QED BY <1>1, <1>7, <2>1, <2>2 DEF Gathered, all
<1>9. ~CutShort(f, r) => WalkedOn(g, rs)
      BY <1>2, <1>3, <1>6 DEF WalkedOn, CutShort
<1> QED BY <1>7, <1>8, <1>9 DEF rs, all

(* The first branch that does not reject decides.                          *)
LEMMA AnyDecided ==
  ASSUME EngineAssumption, NEW q \in Question, NEW f \in Frame, FrameMeans(f, q), Awaits(f, q),
         Kind(f.task) \in AnyKinds, Outcomes(q)[f.i].st # "reject"
  PROVE  Outcome(f.task, Outcomes(q)) =
           IF Kind(f.task) = "or"
           THEN With(Outcomes(q)[f.i], "branch-index", f.task.expr, f.i) ELSE Outcomes(q)[f.i]
<1> DEFINE t == f.task
           rs == Outcomes(q)
<1>1. Kind(t) \in LoopKinds
      BY DEF LoopKinds
<1>2. /\ t = q.task /\ DOMAIN rs \subseteq Nat \ {0} /\ f.i \in DOMAIN rs /\ f.i \in Nat \ {0}
      BY PlacesTyped DEF FrameMeans, Frame, Awaits
<1>3. Open(t) /\ LoopMeans(f, rs)
      BY <1>1, <1>2 DEF FrameMeans
<1>4. Outcome(t, rs) = OrOutcome(t, rs)
      BY <1>1, <1>3, OutcomeCases, LoopOutcomeCases
<1>5. \A j \in DOMAIN rs : j < f.i => rs[j].st = "reject"
      BY <1>3 DEF LoopMeans, Earlier
<1> HIDE DEF rs
<1>6. f.i \in Deciding(rs) /\ Deciding(rs) \in SUBSET Nat
      BY <1>2 DEF Deciding, rs
<1>7. \A j \in Deciding(rs) : f.i <= j
  <2> TAKE j \in Deciding(rs)
  <2>1. j \in Nat /\ j \in DOMAIN rs /\ rs[j].st # "reject"
        BY <1>6 DEF Deciding
  <2> QED BY <1>2, <1>5, <2>1
<1>8. Min(Deciding(rs)) = f.i
      BY <1>6, <1>7, MinUnique
<1>9. OrOutcome(t, rs) =
        IF Kind(t) = "or" THEN With(rs[f.i], "branch-index", t.expr, f.i) ELSE rs[f.i]
      BY <1>6, <1>8 DEF OrOutcome
<1> QED BY <1>4, <1>9 DEF rs

(* An error decides, whatever waits for it.                                *)
LEMMA ErrorDecides ==
  ASSUME EngineAssumption, NEW q \in Question, NEW f \in Frame, FrameMeans(f, q), Awaits(f, q),
         Outcomes(q)[f.i] = Error
  PROVE  Outcome(f.task, Outcomes(q)) = Error
<1> DEFINE t == f.task
           rs == Outcomes(q)
<1>1. /\ t = q.task /\ f.i \in DOMAIN rs /\ f.i \in Nat \ {0} /\ Places(q) # {}
      /\ DOMAIN rs = Places(q)
      BY PlacesTyped DEF FrameMeans, Frame, Awaits
<1>2. Kind(t) \in LoopKinds \cup {"ref", "defs", "class"}
      BY <1>1, PlacesCases
<1>3. Error.st = "error" /\ Plain(Error) /\ \A name, e, k : With(Error, name, e, k) = Error
      BY DEF Error, Plain, With
<1>4. CASE Kind(t) \in {"ref", "defs", "class"}
  <2>1. rs[1] = Error /\ DOMAIN rs # {}
        BY <1>1, <1>4 DEF FrameMeans
  <2>2. Kind(t) = "class" => ClassOpens(t)
        BY <1>1, PlacesCases
  <2>3. Kind(t) = "class" => ClassOutcome(t, rs) = Error
        BY <1>3, <2>1, <2>2 DEF ClassOutcome
  <2> HIDE DEF rs
  <2>4. Outcome(t, rs) = Error
        BY <1>4, <2>1, <2>3, OutcomeCases
  <2> QED BY <2>4 DEF rs
<1>5. CASE Kind(t) \in LoopKinds
  <2>1. Open(t) /\ LoopMeans(f, rs)
        BY <1>1, <1>5 DEF FrameMeans
  <2>2. Outcome(t, rs) = LoopOutcome(t, rs)
        BY <1>5, <2>1, OutcomeCases
  <2>3. CASE Kind(t) \in AllKinds
        BY <1>1, <1>3, <2>1, <2>3, AllFails
  <2>4. CASE Kind(t) \in AnyKinds
        BY <1>3, <2>4, AnyDecided
  <2>5. CASE Kind(t) = "best"
    <3>1. BestOutcome(t, rs) = Error
          BY <1>1, <1>3 DEF BestOutcome
    <3> QED BY <2>2, <2>5, <3>1, LoopOutcomeCases
  <2>6. CASE Kind(t) \in WrapKinds \cup {"not"}
    <3>1. rs[1] = Error
          BY <2>1, <2>6 DEF LoopMeans
    <3>2. NotOutcome(t, Error) = Error
          BY <1>3 DEF NotOutcome
    <3> HIDE DEF rs
    <3>3. LoopOutcome(t, rs) = Error
          BY <1>3, <2>6, <3>1, <3>2, LoopOutcomeCases DEF WrapKinds
    <3> QED BY <2>2, <3>3 DEF rs
  <2> QED BY <1>5, <2>3, <2>4, <2>5, <2>6 DEF LoopKinds
<1> QED BY <1>2, <1>4, <1>5

(* A branch is kept when it outscores the one kept so far.                 *)
LEMMA BestHeard ==
  ASSUME EngineAssumption, NEW q \in Question, NEW f \in Frame, NEW g \in Frame,
         FrameMeans(f, q), Awaits(f, q), Kind(f.task) = "best",
         NEW r \in Match, r = Outcomes(q)[f.i], r.st # "error", g.i = f.i + 1,
         IF r.st = "accept" /\ (f.pick = 0 \/ r.score > f.score)
         THEN g.pick = f.i /\ g.score = r.score /\ g.caps = r.caps
         ELSE g.pick = f.pick /\ g.score = f.score /\ g.caps = f.caps
  PROVE  Chosen(g, Outcomes(q))
<1> DEFINE rs == Outcomes(q)
           i == f.i
<1>1. /\ i \in Nat \ {0} /\ DOMAIN rs \subseteq Nat \ {0} /\ i \in DOMAIN rs
      /\ f.score \in Nat /\ f.pick \in Nat /\ r.score \in Nat
      BY PlacesTyped DEF Frame, Awaits, Match
<1>2. Chosen(f, rs)
  <2>1. Kind(f.task) \in LoopKinds /\ f.i # 0
        BY <1>1 DEF LoopKinds
  <2> QED BY <2>1 DEF FrameMeans, LoopMeans
<1>3. Earlier(g, rs) = Earlier(f, rs) \cup {i}
  <2>1. Earlier(g, rs) = Earlier(f, rs) \cup ({f.i} \cap DOMAIN rs)
        BY <1>1, EarlierNext
  <2> QED BY <1>1, <2>1
<1>4. \A j \in Earlier(f, rs) : j \in Nat /\ j < i /\ rs[j] \in Match /\ rs[j].score \in Nat
      BY <1>1, <1>2 DEF Chosen, Earlier, Match
<1>5. rs[i] = r
      OBVIOUS
<1> SUFFICES Chosen(g, rs)
      OBVIOUS
<1> HIDE DEF rs
<1>6. \A j \in Earlier(g, rs) : rs[j] \in Match /\ rs[j].st # "error"
      BY <1>2, <1>3, <1>5 DEF Chosen
<1>7. CASE r.st = "accept" /\ (f.pick = 0 \/ r.score > f.score)
  <2>1. \A j \in Earlier(f, rs) : rs[j].st = "accept" => rs[j].score < r.score
        BY <1>1, <1>2, <1>4, <1>7 DEF Chosen
  <2>2. g.pick = i /\ g.score = r.score /\ g.caps = r.caps
        BY <1>7
  <2>3. \A j \in Earlier(g, rs) : rs[j].st = "accept" => rs[j].score <= g.score
        BY <1>1, <1>3, <1>4, <1>5, <2>1, <2>2
  <2>4. \A j \in Earlier(g, rs) : rs[j].st = "accept" /\ j < g.pick => rs[j].score < g.score
        BY <1>1, <1>3, <1>4, <1>5, <2>1, <2>2
  <2> QED BY <1>1, <1>3, <1>5, <1>6, <1>7, <2>2, <2>3, <2>4 DEF Chosen
<1>8. CASE ~(r.st = "accept" /\ (f.pick = 0 \/ r.score > f.score))
  <2>1. g.pick = f.pick /\ g.score = f.score /\ g.caps = f.caps
        BY <1>8
  <2>2. CASE f.pick = 0
        BY <1>2, <1>3, <1>5, <1>6, <1>8, <2>1, <2>2 DEF Chosen
  <2>3. CASE f.pick # 0
    <3>1. /\ f.pick \in Earlier(f, rs) /\ rs[f.pick].st = "accept"
          /\ f.score = rs[f.pick].score /\ f.caps = rs[f.pick].caps
          /\ \A j \in Earlier(f, rs) : rs[j].st = "accept" => rs[j].score <= f.score
          /\ \A j \in Earlier(f, rs) :
               rs[j].st = "accept" /\ j < f.pick => rs[j].score < f.score
          BY <1>2, <2>3 DEF Chosen
    <3>2. r.st = "accept" => r.score <= f.score
          BY <1>1, <1>8, <2>3
    <3>3. ~(i < f.pick)
          BY <1>1, <1>4, <3>1
    <3> QED BY <1>3, <1>5, <1>6, <2>1, <2>3, <3>1, <3>2, <3>3 DEF Chosen
  <2> QED BY <2>2, <2>3
<1> QED BY <1>7, <1>8

(* Every return hands on what the question of the frame makes of it.       *)
LEMMA ReturnsFollow ==
  ASSUME EngineAssumption, Accounted, NEW qs, Follows(qs), Plain(ret), Returns
  PROVE  Understood'
<1> DEFINE q == qs[Len(stack)]
           t == Top.task
           rs == Outcomes(q)
<1>1. Returning
      BY DEF Returns, From, Unwind, AllContinue, AllTailStop, AllReject, AnyAccept, AnyNext,
             BestNext, NotReturn, CaptureReturn, PassReturn, ClassReturn
<1>2. /\ stack # <<>> /\ ret.st # "none" /\ q \in Question /\ q.task = t
      /\ FrameMeans(Top, q) /\ t \in Task /\ Top \in Frame /\ Top.i \in Nat
      /\ Meaning[q] = Outcome(t, rs) /\ Awaits(Top, q) /\ ret = rs[Top.i]
      /\ Top.i \in DOMAIN rs /\ ret \in Match /\ Top.i # 0
  <2>1. stack # <<>> /\ ret.st # "none"
        BY <1>1 DEF Returning
  <2>2. /\ q \in Question /\ q.task = t /\ FrameMeans(Top, q) /\ t \in Task /\ Top \in Frame
        /\ Meaning[q] = Outcome(t, rs) /\ Awaits(Top, q) /\ ret = rs[Top.i]
        /\ Top.i \in DOMAIN rs /\ ret \in Match
        BY <2>1, TopMeans
  <2> QED BY <2>1, <2>2, TopTyped DEF Frame
<1>3. /\ Kind(t) \in LoopKinds => Open(t) /\ LoopMeans(Top, rs) /\ Outcome(t, rs) = LoopOutcome(t, rs)
      /\ Kind(t) \in WrapKinds \cup {"not", "ref", "defs", "class"} => ret = rs[1]
      /\ DOMAIN rs # {}
  <2>1. Kind(t) \in LoopKinds => Open(t) /\ LoopMeans(Top, rs)
        BY <1>2 DEF FrameMeans
  <2>2. Kind(t) \in WrapKinds \cup {"not", "ref", "defs", "class"} => Top.i = 1
        BY <1>2, <2>1 DEF FrameMeans, LoopMeans, LoopKinds
  <2> QED BY <1>2, <2>1, <2>2, OutcomeCases
<1> HIDE DEF q, t, rs
<1>4. ASSUME NEW r, Leave(r), r = Outcome(t, rs), Plain(r)
      PROVE  Understood'
      BY <1>2, <1>4, LeaveFollows DEF q
<1>5. ASSUME NEW g, FrameMeans(g, q), g.held = Top.held, Continue(g)
      PROVE  Understood'
      BY <1>2, <1>5, ContinueFollows DEF q
<1>6. Plain(Reject) /\ Plain(Error) /\ \A s, c : Plain(Accept(s, c))
      BY DEF Plain, Reject, Error, Accept
<1>7. CASE Unwind
  <2>1. ret = Error /\ Leave(Error)
        BY <1>7 DEF Unwind, Plain
  <2>2. Outcome(t, rs) = Error
        BY <1>2, <2>1, ErrorDecides DEF t, rs
  <2> QED BY <1>4, <1>6, <2>1, <2>2
<1>8. ASSUME Kind(t) \in AllKinds, ret.st = "accept"
      PROVE  /\ Joined \in Frame /\ Joined.task = t /\ Joined.i = Top.i + 1
             /\ Joined.held = Top.held /\ Gathered(Joined, rs)
             /\ Joined.caps = Together(Start(t), rs)[Top.i].caps
             /\ Kind(t) # "row" => Joined.score = Together(Start(t), rs)[Top.i].score
             /\ ~TailStops => WalkedOn(Joined, rs)
  <2>1. /\ Joined \in Frame /\ Joined.task = Top.task /\ Joined.held = Top.held
        /\ Joined.i = Top.i + 1
        BY <1>1, JoinTyped
  <2>2. /\ Joined.caps = Top.caps \o ret.caps
        /\ Joined.score = IF Kind(Top.task) = "row" THEN Top.score ELSE Top.score + ret.score
    <3> DEFINE n == Top.i + 1
               s == IF Kind(Top.task) = "row" THEN Top.score ELSE Top.score + ret.score
               c == Top.caps \o ret.caps
    <3>1. Joined = [Top EXCEPT !.i = n, !.score = s, !.caps = c]
          BY DEF Joined
    <3> HIDE DEF n, s, c
    <3>2. Joined.caps = c /\ Joined.score = s
          BY <1>2, <3>1 DEF Frame
    <3> QED BY <3>2 DEF c, s
  <2> DEFINE g == Joined
  <2> HIDE DEF g
  <2>3. /\ g \in Frame /\ g.task = Top.task /\ g.i = Top.i + 1
        /\ g.caps = Top.caps \o ret.caps
        /\ g.score = IF Kind(Top.task) = "row" THEN Top.score ELSE Top.score + ret.score
        BY <2>1, <2>2 DEF g
  <2>4. /\ Gathered(g, rs) /\ g.caps = Together(Start(t), rs)[Top.i].caps
        /\ Kind(t) # "row" => g.score = Together(Start(t), rs)[Top.i].score
        /\ ~CutShort(Top, ret) => WalkedOn(g, rs)
    <3>1. /\ Kind(Top.task) \in AllKinds /\ ret = Outcomes(q)[Top.i] /\ ret.st = "accept"
          /\ q \in Question /\ Top \in Frame /\ FrameMeans(Top, q) /\ Awaits(Top, q)
          BY <1>2, <1>8 DEF t, rs
    <3>2. Gathered(g, rs) /\ (~CutShort(Top, ret) => WalkedOn(g, rs))
          BY <2>3, <3>1, JoinMeans DEF rs
    <3>3. g.caps = Together(Start(Top.task), Outcomes(q))[Top.i].caps
          BY <2>3, <3>1, JoinMeans
    <3>4. Kind(Top.task) # "row" =>
            g.score = Together(Start(Top.task), Outcomes(q))[Top.i].score
          BY <2>3, <3>1, JoinMeans
    <3> QED BY <3>2, <3>3, <3>4 DEF t, rs
  <2>5. ~TailStops => WalkedOn(g, rs)
        BY <2>4 DEF TailStops, CutShort
  <2> QED BY <2>1, <2>4, <2>5 DEF g, t
<1>9. CASE AllContinue
  <2>1. Kind(t) \in AllKinds /\ ret.st = "accept" /\ ~TailStops /\ Continue(Joined)
        BY <1>9 DEF AllContinue, From, Accepted, t
  <2>2. /\ Joined \in Frame /\ Joined.task = t /\ Joined.i = Top.i + 1
        /\ Joined.held = Top.held /\ Gathered(Joined, rs) /\ WalkedOn(Joined, rs)
        BY <1>8, <2>1
  <2> DEFINE g == Joined
  <2> HIDE DEF g
  <2>3. /\ g \in Frame /\ g.task = t /\ g.i = Top.i + 1
        /\ g.held = Top.held /\ Gathered(g, rs) /\ WalkedOn(g, rs) /\ Continue(g)
        BY <2>1, <2>2 DEF g
  <2>4. Kind(t) \in LoopKinds \ (WrapKinds \cup {"not"}) /\ Kind(t) \notin AnyKinds \cup {"best"}
        BY <2>1 DEF LoopKinds, AllKinds, AnyKinds, WrapKinds
  <2>5. FrameMeans(g, q)
        BY <1>2, <2>3, <2>4, HeardMeans DEF t, rs
  <2> QED BY <1>5, <2>3, <2>5
<1>10. CASE AllTailStop
  <2>1. /\ Kind(t) = "list" /\ ret.st = "accept" /\ TailStops
        /\ Leave(Accept(Joined.score, Joined.caps)) /\ Kind(t) \in AllKinds /\ Kind(t) \in LoopKinds
        BY <1>10 DEF AllTailStop, From, Accepted, t, AllKinds, LoopKinds
  <2>2. /\ Gathered(Joined, rs) /\ Joined.caps = Together(Start(t), rs)[Top.i].caps
        /\ Joined.score = Together(Start(t), rs)[Top.i].score
        /\ Joined \in Frame /\ Joined.task = t /\ Joined.i = Top.i + 1
        BY <1>8, <2>1
  <2>3. DOMAIN rs \subseteq Nat \ {0}
        BY <1>2, PlacesTyped DEF rs
  <2>4. /\ t.path = "value" /\ Top.i > Len(Kids(t)) /\ Total[Node[t.shape].rest]
        /\ rs[Top.i].caps = <<>> /\ rs[Top.i].st = "accept"
        BY <1>2, <2>1 DEF TailStops, t
  <2>5. Looked(t, rs) = Top.i
    <3>1. WalkedOn(Top, rs) /\ Open(t)
          BY <1>3, <2>1 DEF LoopMeans, t
    <3> QED BY <1>2, <2>1, <2>3, <2>4, <3>1, LookedAhead DEF t
  <2>6. Every(20, rs, Top.i) = Accept(Joined.score, Joined.caps)
    <3>1. Start(t) = 20
          BY <2>1 DEF Start, BaseScore
    <3> DEFINE g == Joined
    <3> HIDE DEF g
    <3>2. /\ g \in Frame /\ Gathered(g, rs) /\ g.task = t /\ g.i = Top.i + 1
          /\ g.caps = Together(Start(t), rs)[Top.i].caps
          /\ g.score = Together(Start(t), rs)[Top.i].score
          BY <2>2 DEF g
    <3>3. g.i \in Nat \ {0} /\ g.i - 1 = Top.i
          BY <1>2, <3>2
    <3>4. Every(Start(t), rs, Top.i) = Accept(Together(Start(t), rs)[Top.i].score, g.caps)
          BY <2>3, <3>2, <3>3, GatheredEvery
    <3> QED BY <3>1, <3>2, <3>4 DEF g
  <2>7. Outcome(t, rs) = Accept(Joined.score, Joined.caps)
        BY <1>3, <2>1, <2>5, <2>6, LoopOutcomeCases
  <2> QED BY <1>4, <1>6, <2>1, <2>7
<1>11. CASE AllReject
  <2>1. Kind(t) \in AllKinds /\ ret = Reject /\ Leave(Reject)
        BY <1>11 DEF AllReject, From, Rejected, Plain, t
  <2>2. Kind(t) \in LoopKinds /\ Reject.st # "accept"
        BY <2>1 DEF LoopKinds, Reject
  <2>3. Outcome(t, rs) = Reject
        BY <1>2, <1>3, <1>6, <2>1, <2>2, AllFails DEF t, rs
  <2> QED BY <1>4, <1>6, <2>1, <2>3
<1>12. CASE AnyAccept
  <2>1. /\ Kind(t) \in AnyKinds /\ ret.st = "accept"
        /\ Leave(IF Kind(t) = "or"
                 THEN Accept(ret.score, Append(ret.caps, Bind("branch-index", t.expr, Top.i)))
                 ELSE ret)
        BY <1>12 DEF AnyAccept, From, Accepted, t
  <2>2. Outcome(t, rs) = IF Kind(t) = "or" THEN With(ret, "branch-index", t.expr, Top.i) ELSE ret
        BY <1>2, <2>1, AnyDecided DEF t, rs
  <2>3. With(ret, "branch-index", t.expr, Top.i) =
          Accept(ret.score, Append(ret.caps, Bind("branch-index", t.expr, Top.i)))
        BY <2>1 DEF With
  <2>4. CASE Kind(t) = "or"
        BY <1>4, <1>6, <2>1, <2>2, <2>3, <2>4
  <2>5. CASE Kind(t) # "or"
        BY <1>4, <2>1, <2>2, <2>5
  <2> QED BY <2>4, <2>5
<1>13. CASE AnyNext
  <2> DEFINE g == [Top EXCEPT !.i = Top.i + 1]
  <2>1. Kind(t) \in AnyKinds /\ ret.st = "reject" /\ Continue(g)
        BY <1>13 DEF AnyNext, From, Rejected, t
  <2>2. g \in Frame /\ g.task = t /\ g.i = Top.i + 1 /\ g.held = Top.held
        BY <1>2 DEF Frame, t
  <2> HIDE DEF g
  <2>3. Kind(t) \in LoopKinds \ (WrapKinds \cup {"not"}) /\ Kind(t) \notin AllKinds \cup {"best"}
        BY <2>1 DEF LoopKinds, AllKinds, AnyKinds, WrapKinds
  <2>4. FrameMeans(g, q)
        BY <1>2, <2>1, <2>2, <2>3, HeardMeans DEF t, rs
  <2> QED BY <1>5, <2>1, <2>2, <2>4
<1>14. CASE BestNext
  <2> DEFINE n == Top.i + 1
             better == ret.st = "accept" /\ (Top.pick = 0 \/ ret.score > Top.score)
             h == [Top EXCEPT !.i = n, !.pick = Top.i, !.score = ret.score, !.caps = ret.caps]
             k == [Top EXCEPT !.i = n]
             g == IF better THEN h ELSE k
  <2>1. Kind(t) = "best" /\ ret.st # "error" /\ Continue(g)
        BY <1>14 DEF BestNext, From, Accepted, t
  <2>2. n \in Nat /\ ret.score \in Nat /\ ret.caps \in Captures
        BY <1>2 DEF Match
  <2> HIDE DEF n, better
  <2>3. /\ h \in Frame /\ h.task = t /\ h.i = n /\ h.held = Top.held
        /\ h.pick = Top.i /\ h.score = ret.score /\ h.caps = ret.caps
    <3>1. h \in Frame
          BY <1>2, <2>2 DEF Frame
    <3>2. /\ h.task = t /\ h.i = n /\ h.held = Top.held
          /\ h.pick = Top.i /\ h.score = ret.score /\ h.caps = ret.caps
          BY <1>2 DEF Frame, t
    <3> QED BY <3>1, <3>2
  <2>4. /\ k \in Frame /\ k.task = t /\ k.i = n /\ k.held = Top.held
        /\ k.pick = Top.pick /\ k.score = Top.score /\ k.caps = Top.caps
        BY <1>2, <2>2 DEF Frame, t
  <2> HIDE DEF h, k
  <2>5. /\ g \in Frame /\ g.task = t /\ g.i = n /\ g.held = Top.held
        /\ IF better THEN g.pick = Top.i /\ g.score = ret.score /\ g.caps = ret.caps
           ELSE g.pick = Top.pick /\ g.score = Top.score /\ g.caps = Top.caps
        BY <2>3, <2>4
  <2> HIDE DEF g
  <2>6. g.i = Top.i + 1
        BY <2>5 DEF n
  <2>7. Chosen(g, rs)
        BY <1>2, <2>1, <2>5, <2>6, BestHeard DEF better, t, rs
  <2>8. Kind(t) \in LoopKinds \ (WrapKinds \cup {"not"}) /\ Kind(t) \notin AllKinds \cup AnyKinds
        BY <2>1 DEF LoopKinds, AllKinds, AnyKinds, WrapKinds
  <2>9. FrameMeans(g, q)
        BY <1>2, <2>1, <2>5, <2>6, <2>7, <2>8, HeardMeans DEF t, rs
  <2> QED BY <1>5, <2>1, <2>5, <2>9
<1>15. CASE NotReturn
  <2> DEFINE neg == <<Bind("negated", t.expr, 0)>>
             out == IF ret.st = "accept" THEN Reject ELSE Accept(10, neg)
  <2>1. Kind(t) = "not" /\ ret.st # "error" /\ Leave(out)
        BY <1>15 DEF NotReturn, From, Accepted, t
  <2>2. Kind(t) \in LoopKinds
        BY <2>1 DEF LoopKinds
  <2>3. Outcome(t, rs) = NotOutcome(t, ret)
        BY <1>3, <2>1, <2>2, LoopOutcomeCases
  <2>4. ret.st = "accept" \/ ret.st = "reject"
        BY <1>2, <2>1 DEF Match
  <2>5. With(Accept(10, <<>>), "negated", t.expr, 0) = Accept(10, neg)
    <3>1. Append(<<>>, Bind("negated", t.expr, 0)) = neg
          OBVIOUS
    <3> HIDE DEF neg
    <3> QED BY <3>1 DEF With, Accept
  <2> HIDE DEF neg
  <2>6. NotOutcome(t, ret) = out
        BY <2>4, <2>5 DEF NotOutcome
  <2>7. Plain(out)
        BY <1>6
  <2> QED BY <1>4, <2>1, <2>3, <2>6, <2>7
<1>16. CASE CaptureReturn
  <2> DEFINE bound == Append(ret.caps, Bind(Node[t.shape].name, t.expr, 0))
             out == IF ret.st = "accept" THEN Accept(ret.score, bound) ELSE Reject
  <2>1. Kind(t) = "capture" /\ ret.st # "error" /\ Leave(out)
        BY <1>16 DEF CaptureReturn, From, Accepted, t
  <2>2. Kind(t) \in LoopKinds /\ Kind(t) \in WrapKinds
        BY <2>1 DEF LoopKinds, WrapKinds
  <2>3. Outcome(t, rs) = With(ret, Node[t.shape].name, t.expr, 0)
        BY <1>3, <2>1, <2>2, LoopOutcomeCases
  <2>4. ret.st # "accept" => ret = Reject
        BY <1>2, <2>1 DEF Match, Plain
  <2>5. With(ret, Node[t.shape].name, t.expr, 0) = out
        BY <2>4 DEF With
  <2>6. Plain(out)
        BY <1>6
  <2> QED BY <1>4, <2>1, <2>3, <2>5, <2>6
<1>17. CASE PassReturn
  <2>1. Kind(t) \in {"effectful", "pratt", "ref", "defs"} /\ Leave(ret)
        BY <1>17 DEF PassReturn, From, t
  <2>2. CASE Kind(t) \in {"effectful", "pratt"}
    <3>1. Kind(t) \in LoopKinds /\ Kind(t) \in WrapKinds
          BY <2>2 DEF LoopKinds, WrapKinds
    <3>2. Outcome(t, rs) = ret
          BY <1>3, <2>2, <3>1, LoopOutcomeCases
    <3> QED BY <1>4, <2>1, <3>2
  <2>3. CASE Kind(t) \in {"ref", "defs"}
    <3>1. Outcome(t, rs) = ret
          BY <1>3, <2>3, OutcomeCases
    <3> QED BY <1>4, <2>1, <3>1
  <2> QED BY <2>1, <2>2, <2>3
<1>18. CASE ClassReturn
  <2> DEFINE out == IF ret.st = "accept" THEN Accept(30, <<>>) ELSE Reject
  <2>1. Kind(t) = "class" /\ ret.st # "error" /\ Leave(out)
        BY <1>18 DEF ClassReturn, From, Accepted, t
  <2>2. ClassOpens(t)
    <3>1. Places(q) # {}
          BY <1>2 DEF Awaits
    <3> QED BY <1>2, <2>1, <3>1, PlacesCases
  <2>3. Outcome(t, rs) = IF ret.st = "accept" THEN Accept(30, <<>>) ELSE ret
        BY <1>3, <2>1, <2>2, OutcomeCases DEF ClassOutcome
  <2>4. ret.st # "accept" => ret = Reject
        BY <1>2, <2>1 DEF Match, Plain
  <2>5. Outcome(t, rs) = out
        BY <2>3, <2>4
  <2>6. Plain(out)
        BY <1>6
  <2> QED BY <1>4, <2>1, <2>5, <2>6
<1> QED BY <1>7, <1>9, <1>10, <1>11, <1>12, <1>13, <1>14, <1>15, <1>16, <1>17, <1>18 DEF Returns

-----------------------------------------------------------------------------
(* The theorems.                                                           *)

(* A call asks its whole question, with the budget its caller leaves.      *)
LEMMA BeginFollows ==
  ASSUME EngineAssumption, Accounted, NEW t \in Requests, Begin(t)
  PROVE  Understood'
<1>1. /\ stack = <<>> /\ ret.st = "none" /\ t \in Task /\ t # None
      /\ base \in 0..MaxDepth /\ MaxDepth \in Nat /\ base \in Nat
      BY GraphAssumption
      DEF Accounted, Shaped, Idle, Begin, EngineAssumption, GraphAssumption, TypeOK
<1>2. depth = base /\ scopes = <<>>
      BY <1>1, NothingHeld DEF NothingLeftBehind
<1> DEFINE g == NewFrame(t)
           w == Asking(t, <<>>, MaxDepth - base)
<1>3. /\ g \in Frame /\ g.i = 0 /\ g.held = "none" /\ g.task = t
      /\ g.score = BaseScore(t) /\ g.caps = <<>> /\ g.pick = 0
  <2>1. g \in Frame /\ g.i = 0 /\ g.held = "none"
        BY <1>1, NewFrameTyped
  <2>2. g.task = t /\ g.score = BaseScore(t) /\ g.caps = <<>> /\ g.pick = 0
        BY DEF NewFrame
  <2> QED BY <2>1, <2>2
<1>4. /\ w \in Question /\ w.task = t /\ w.scope = <<>> /\ w.fuel = MaxDepth - base
      /\ w = Whole'
  <2>1. MaxDepth - base \in Nat
        BY <1>1
  <2>2. w = Whole'
        BY DEF Begin, Whole
  <2> QED BY <1>1, <2>1, <2>2 DEF Asking, Question
<1>5. FrameMeans(g, w)
      BY <1>3, <1>4, Zenon DEF FrameMeans
<1>6. stack' = <<g>> /\ ret' = ret /\ depth' = base /\ scopes' = <<>> /\ call' = t
      BY <1>2 DEF Begin
<1>7. PICK qs : qs \in Seq(Question) /\ Len(qs) = 1 /\ qs[1] = w
  <2> HIDE DEF w
  <2>1. <<w>> \in Seq(Question) /\ Len(<<w>>) = 1 /\ <<w>>[1] = w
        BY <1>4
  <2> QED BY <2>1
<1> HIDE DEF g, w
<1>8. stack' # <<>> /\ Len(stack') = 1 /\ stack'[1] = g /\ Top' = g
      BY <1>6 DEF Top
<1>9. ScopeIn(g, w) = <<>> /\ FuelIn(g, w) = MaxDepth - base
      BY <1>3, <1>4 DEF ScopeIn, FuelIn
<1>10. 1..Len(stack') = {1} /\ 1..(Len(stack') - 1) = {}
       BY <1>8
<1>11. \A k \in 1..Len(stack') : FrameMeans(stack'[k], qs[k])
       BY <1>5, <1>7, <1>8, <1>10
<1>12. Follows(qs)'
       BY <1>1, <1>4, <1>6, <1>7, <1>8, <1>9, <1>10, <1>11 DEF Follows
<1> QED BY <1>1, <1>6, <1>8, <1>12 DEF Understood, Done, Plain

(* Between calls nothing is asked.                                         *)
LEMMA IdleFollows ==
  ASSUME EngineAssumption, stack = <<>>, call = None, ret = Nothing
  PROVE  Understood
<1>1. <<>> \in Seq(Question) /\ Len(<<>>) = 0
      OBVIOUS
<1>2. PICK qs : qs \in Seq(Question) /\ Len(qs) = 0
      BY <1>1
<1>3. Len(stack) = 0 /\ 1..Len(stack) = {} /\ 1..(Len(stack) - 1) = {}
      OBVIOUS
<1>4. Follows(qs)
      BY <1>2, <1>3 DEF Follows
<1> QED BY <1>4 DEF Understood, Done, Plain, Nothing

LEMMA NextUnderstood ==
  ASSUME EngineAssumption, Accounted, Understood, [Next]_vars
  PROVE  Understood'
<1>1. PICK qs : Follows(qs)
      BY DEF Understood
<1>2. CASE \E t \in Requests : Begin(t)
      BY <1>2, BeginFollows
<1>3. CASE Calls
      BY <1>1, <1>3, CallsFollow
<1>4. CASE Loops
      BY <1>1, <1>4, LoopsFollow
<1>5. CASE Returns
      BY <1>1, <1>5, ReturnsFollow DEF Understood
<1>6. CASE Deliver
  <2>1. (stack = <<>> /\ call = None /\ ret = Nothing)'
        BY <1>6 DEF Deliver, Done
  <2>2. PICK none : none \in Seq(Question) /\ Len(none) = 0
    <3>1. <<>> \in Seq(Question) /\ Len(<<>>) = 0
          OBVIOUS
    <3> QED BY <3>1
  <2>3. Len(stack') = 0 /\ 1..Len(stack') = {} /\ 1..(Len(stack') - 1) = {}
        BY <2>1
  <2>4. Follows(none)'
        BY <2>1, <2>2, <2>3 DEF Follows
  <2> QED BY <2>1, <2>4 DEF Understood, Done, Plain, Nothing
<1>7. CASE UNCHANGED vars
  <2>1. /\ stack' = stack /\ ret' = ret /\ depth' = depth /\ scopes' = scopes
        /\ call' = call /\ base' = base
        BY <1>7 DEF vars
  <2>2. Top' = Top /\ Whole' = Whole /\ Done' = Done
        BY <2>1 DEF Top, Whole, Done
  <2>3. Follows(qs)'
        BY <1>1, <2>1, <2>2 DEF Follows
  <2> QED BY <2>1, <2>2, <2>3 DEF Understood
<1> QED BY <1>2, <1>3, <1>4, <1>5, <1>6, <1>7 DEF Next

(* Every frame of the stack answers a part of the question of the frame    *)
(* below it, and what it has gathered is what the meanings of its parts    *)
(* make so far.                                                            *)
THEOREM AlwaysUnderstood == Spec => []Understood
<1>1. Init => Understood
      BY IdleFollows, EngineAssumption DEF Init
<1>2. Accounted /\ Understood /\ [Next]_vars => Understood'
      BY NextUnderstood, EngineAssumption
<1> QED BY <1>1, <1>2, AlwaysAccounted, PTL DEF Spec

(* The answer of every call is what the check means: for every shape graph, *)
(* term and budget, the loops with their early returns, accumulators and   *)
(* thread-locals compute the verdict, score and captures the shapes define.*)
THEOREM AnswersAreMeant == Spec => []AnswerIsMeaning
<1>1. Accounted /\ Understood => AnswerIsMeaning
  <2> SUFFICES ASSUME Accounted, Understood, Done
               PROVE  ret = Answer(0)
      BY DEF AnswerIsMeaning
  <2>1. MaxDepth - base + 0 = MaxDepth - base
        BY EngineAssumption DEF Accounted, Shaped, TypeOK, EngineAssumption
  <2>2. Answer(0) = Meaning[Whole]
        BY <2>1 DEF Answer, Whole
  <2> QED BY <2>2 DEF Understood
<1> QED BY <1>1, AlwaysAccounted, AlwaysUnderstood, PTL

-----------------------------------------------------------------------------
(* Shapes that never reject never do, whatever the term and the budget.    *)

LEMMA AlwaysStep ==
  ASSUME EngineAssumption, NEW q \in Question, q.task.shape \in Always,
         \A y \in Question :
           Cost(y) < Cost(q) /\ y.task.shape \in Always => Meaning[y].st # "reject"
  PROVE  Meaning[q].st # "reject"
<1> DEFINE t == q.task
           n == Len(Kids(t))
           rs == [i \in Places(q) |-> Meaning[Part(q, i)]]
<1>1. Kids(t) = Node[t.shape].kids /\ Kind(t) = Node[t.shape].kind /\ t \in Task /\ n \in Nat
      /\ NodeOK(Node[t.shape]) /\ DOMAIN Kids(t) = 1..n
      BY CostTyped, GraphTyped, PartsTyped, LenProperties DEF Kids, Kind
<1>2. \/ Kind(t) = "any"
      \/ Kind(t) = "and" /\ \A i \in 1..n : Kids(t)[i] \in Always
      \/ Kind(t) \in {"or", "best", "oneOf"} /\ \E i \in 1..n : Kids(t)[i] \in Always
      \/ Kind(t) \in {"capture", "effectful", "defs"} /\ Kids(t)[1] \in Always
  <2>1. AlwaysOK(t.shape)
        BY PositiveAssumption
  <2> QED BY <1>1, <2>1 DEF AlwaysOK
<1>3. /\ DOMAIN rs = Places(q) /\ Meaning[q] = Outcome(t, rs)
      /\ \A i \in DOMAIN rs : Decided(rs[i])
      /\ \A i \in DOMAIN rs : Part(q, i).task.shape \in Always => rs[i].st # "reject"
  <2>1. Meaning[q] = Outcome(t, rs)
        BY MeaningEquation
  <2>2. \A i \in Places(q) : Part(q, i) \in Question /\ Cost(Part(q, i)) < Cost(q)
        BY PartCheaper
  <2>3. \A i \in Places(q) : rs[i] = Meaning[Part(q, i)]
        OBVIOUS
  <2>4. \A i \in Places(q) : Decided(Meaning[Part(q, i)])
        BY <2>2, MeaningDecided
  <2>5. \A i \in Places(q) : Part(q, i).task.shape \in Always => Meaning[Part(q, i)].st # "reject"
        BY <2>2
  <2>6. DOMAIN rs = Places(q)
        OBVIOUS
  <2> HIDE DEF rs
  <2> QED BY <2>1, <2>3, <2>4, <2>5, <2>6
<1>4. DOMAIN rs \subseteq Nat
      BY <1>3, PlacesTyped
<1>5. Kind(t) \in {"and", "or", "oneOf", "best", "capture", "effectful"} =>
        /\ Open(t) /\ Kind(t) \in LoopKinds /\ LoopLen(t) = n /\ DOMAIN rs = 1..n
        /\ \A i \in 1..n : Part(q, i).task.shape = Kids(t)[i]
        /\ Outcome(t, rs) = LoopOutcome(t, rs)
  <2> SUFFICES ASSUME Kind(t) \in {"and", "or", "oneOf", "best", "capture", "effectful"}
               PROVE  /\ Open(t) /\ Kind(t) \in LoopKinds /\ LoopLen(t) = n /\ DOMAIN rs = 1..n
                      /\ \A i \in 1..n : Part(q, i).task.shape = Kids(t)[i]
                      /\ Outcome(t, rs) = LoopOutcome(t, rs)
      OBVIOUS
  <2>1. /\ Open(t) /\ Kind(t) \in LoopKinds /\ LoopLen(t) = n /\ Places(q) = 1..n
        /\ \A i \in 1..n : Part(q, i).task.shape = Kids(t)[i]
        BY BranchParts
  <2>2. DOMAIN rs = 1..n
        BY <1>3, <2>1
  <2> HIDE DEF rs
  <2>3. Outcome(t, rs) = LoopOutcome(t, rs)
        BY <2>1, OutcomeCases
  <2> QED BY <2>1, <2>2, <2>3
<1> HIDE DEF t, n, rs
<1> SUFFICES Outcome(t, rs).st # "reject"
    BY <1>3
<1>6. CASE Kind(t) = "any"
  <2>1. Kind(t) \in LeafKinds
        BY <1>6 DEF LeafKinds
  <2>2. LeafResult(t) = Accept(0, <<>>)
        BY <1>6 DEF LeafResult
  <2> QED BY <2>1, <2>2, OutcomeCases DEF Accept
<1>7. CASE Kind(t) = "and"
  <2>1. \A i \in DOMAIN rs : rs[i].st # "reject"
        BY <1>2, <1>3, <1>5, <1>7
  <2>2. Every(IF Kids(t) = <<>> THEN 0 ELSE 10, rs, LoopLen(t)).st # "reject"
    <3>1. n \in Nat /\ LoopLen(t) = n
          BY <1>1, <1>5, <1>7
    <3> QED BY <1>4, <2>1, <3>1, EveryUnrejected
  <2> QED BY <1>5, <1>7, <2>2, LoopOutcomeCases
<1>8. CASE Kind(t) \in {"or", "oneOf"}
  <2>1. PICK i \in DOMAIN rs : rs[i].st # "reject"
        BY <1>2, <1>3, <1>5, <1>8
  <2>2. OrOutcome(t, rs).st # "reject"
        BY <1>4, <2>1, OrUnrejected
  <2> QED BY <1>5, <1>8, <2>2, LoopOutcomeCases DEF AnyKinds
<1>9. CASE Kind(t) = "best"
  <2>1. PICK i \in DOMAIN rs : rs[i].st # "reject"
        BY <1>2, <1>3, <1>5, <1>9
  <2>2. BestOutcome(t, rs).st # "reject"
        BY <1>1, <1>3, <1>5, <1>9, <2>1, BestUnrejected
  <2> QED BY <1>5, <1>9, <2>2, LoopOutcomeCases
<1>10. CASE Kind(t) \in {"capture", "effectful"}
  <2>1. n = 1
        BY <1>1, <1>10 DEF NodeOK, WrapKinds, n
  <2>2. 1 \in DOMAIN rs /\ rs[1].st # "reject"
        BY <1>2, <1>3, <1>5, <1>10, <2>1
  <2> QED BY <1>5, <1>10, <2>2, DecidedBasics, LoopOutcomeCases
<1>11. CASE Kind(t) = "defs"
  <2>1. Places(q) = {1}
        BY <1>11, PlacesCases DEF t
  <2>2. Part(q, 1).task.shape = Kids(t)[1]
    <3> DEFINE job == Job(Kids(t)[1], t.expr, t.path)
               inner == Append(q.scope, t.shape)
    <3>1. Part(q, 1) = Asking(job, inner, q.fuel)
          BY <1>11, PartCases DEF t
    <3>2. job.shape = Kids(t)[1]
          BY DEF Job
    <3> HIDE DEF job, inner
    <3>3. Asking(job, inner, q.fuel).task = job
          BY DEF Asking
    <3> QED BY <3>1, <3>2, <3>3
  <2>3. rs[1].st # "reject"
        BY <1>2, <1>3, <1>11, <2>1, <2>2
  <2> QED BY <1>11, <2>3, OutcomeCases
<1> QED BY <1>2, <1>6, <1>7, <1>8, <1>9, <1>10, <1>11

LEMMA NeverRejects ==
  ASSUME EngineAssumption, NEW q \in Question, q.task.shape \in Always
  PROVE  Meaning[q].st # "reject"
<1> DEFINE Wrong(x) == x.task.shape \in Always /\ Meaning[x].st = "reject"
           wrong == {n \in Nat : \E x \in Question : Cost(x) = n /\ Wrong(x)}
<1>1. wrong = {}
  <2>1. SUFFICES ASSUME NEW n \in wrong, \A m \in wrong : n <= m PROVE FALSE
    <3> HIDE DEF wrong
    <3>1. wrong \subseteq Nat
          BY DEF wrong
    <3> QED BY <3>1, FirstPlace
  <2>2. PICK x \in Question : Cost(x) = n /\ Wrong(x)
        OBVIOUS
  <2>3. \A y \in Question : Cost(y) < Cost(x) => ~Wrong(y)
    <3> TAKE y \in Question
    <3>1. Cost(y) \in Nat /\ n \in Nat
          BY CostTyped
    <3> QED BY <2>1, <2>2, <3>1
  <2> QED BY <2>2, <2>3, AlwaysStep
<1>2. Cost(q) \in Nat
      BY CostTyped
<1> QED BY <1>1, <1>2

-----------------------------------------------------------------------------
(* A larger budget.  It asks the same questions, each with more left, and  *)
(* some that the smaller one could not afford.                             *)

Raise(q, more) == Asking(q.task, q.scope, q.fuel + more)

LEMMA RaiseTyped ==
  ASSUME EngineAssumption, NEW q \in Question, NEW more \in Nat
  PROVE  LET r == Raise(q, more) IN
         /\ r \in Question /\ r.task = q.task /\ r.scope = q.scope
         /\ r.fuel = q.fuel + more /\ (q.fuel > 0 => r.fuel > 0)
<1>1. q.task \in Task /\ q.scope \in Seq(Shape) /\ q.fuel \in Nat
      BY CostTyped
<1>2. q.fuel + more \in Nat /\ (q.fuel > 0 => q.fuel + more > 0)
      BY <1>1
<1>3. \A t \in Task, s \in Seq(Shape), f \in Nat :
        /\ Asking(t, s, f) \in Question
        /\ Asking(t, s, f).task = t /\ Asking(t, s, f).scope = s /\ Asking(t, s, f).fuel = f
      BY DEF Asking, Question
<1> QED BY <1>1, <1>2, <1>3 DEF Raise

LEMMA RaiseParts ==
  ASSUME EngineAssumption, NEW q \in Question, NEW more \in Nat
  PROVE  /\ \A i \in Places(q) : /\ i \in Places(Raise(q, more))
                                 /\ Part(Raise(q, more), i) = Raise(Part(q, i), more)
         /\ Kind(q.task) \notin {"ref", "class"} => Places(Raise(q, more)) = Places(q)
<1> DEFINE r == Raise(q, more)
           t == q.task
<1>1. /\ r \in Question /\ r.task = t /\ r.scope = q.scope /\ q.fuel \in Nat
      /\ r.fuel = q.fuel + more /\ (q.fuel > 0 => r.fuel > 0)
      BY RaiseTyped, CostTyped
<1>2. \A u, s, f : /\ Asking(u, s, f).task = u /\ Asking(u, s, f).scope = s
                   /\ Asking(u, s, f).fuel = f
      BY DEF Asking
<1>3. \A u, s, f : Raise(Asking(u, s, f), more) = Asking(u, s, f + more)
      BY <1>2 DEF Raise
<1> HIDE DEF r
<1>4. CASE Kind(t) \notin {"ref", "class"}
  <2>1. Places(r) = Places(q)
    <3>1. CASE Kind(t) \in LoopKinds /\ Open(t)
      <4>1. Places(r) = {i \in 1..LoopLen(t) : Child(t, i) # None}
            BY <1>1, <3>1, PlacesCases
      <4>2. Places(q) = {i \in 1..LoopLen(t) : Child(t, i) # None}
            BY <3>1, PlacesCases
      <4> QED BY <4>1, <4>2
    <3>2. CASE Kind(t) \in LoopKinds /\ ~Open(t)
          BY <1>1, <3>2, PlacesCases
    <3>3. CASE Kind(t) = "defs"
          BY <1>1, <3>3, PlacesCases
    <3>4. CASE Kind(t) \notin LoopKinds \cup {"ref", "defs", "class"}
          BY <1>1, <3>4, PlacesCases
    <3> QED BY <1>4, <3>1, <3>2, <3>3, <3>4
  <2>2. ASSUME NEW i \in Places(q)
        PROVE  Part(r, i) = Raise(Part(q, i), more)
    <3>1. CASE Kind(t) \in LoopKinds
      <4> DEFINE job == Child(t, i)
      <4>1. Part(r, i) = Asking(job, q.scope, r.fuel) /\ Part(q, i) = Asking(job, q.scope, q.fuel)
            BY <1>1, <3>1, PartCases
      <4> HIDE DEF job
      <4> QED BY <1>1, <1>3, <4>1
    <3>2. CASE Kind(t) = "defs"
      <4> DEFINE job == Job(Kids(t)[1], t.expr, t.path)
                 inner == Append(q.scope, t.shape)
      <4>1. Part(r, i) = Asking(job, inner, r.fuel) /\ Part(q, i) = Asking(job, inner, q.fuel)
            BY <1>1, <3>2, PartCases
      <4> HIDE DEF job, inner
      <4> QED BY <1>1, <1>3, <4>1
    <3>3. CASE Kind(t) \notin LoopKinds \cup {"ref", "defs", "class"}
          BY <3>3, PlacesCases
    <3> QED BY <1>4, <3>1, <3>2, <3>3
  <2> QED BY <2>1, <2>2 DEF r
<1>5. CASE Kind(t) \in {"ref", "class"}
  <2> SUFFICES ASSUME NEW i \in Places(q)
               PROVE  i \in Places(r) /\ Part(r, i) = Raise(Part(q, i), more)
      BY <1>5 DEF r
  <2>1. r.fuel - 1 = q.fuel - 1 + more
        BY <1>1
  <2>2. CASE Kind(t) = "ref"
    <3> DEFINE job == Job(Resolved(q.scope, Node[t.shape].name), t.expr, t.path)
    <3>1. Part(r, i) = Asking(job, q.scope, r.fuel - 1)
          /\ Part(q, i) = Asking(job, q.scope, q.fuel - 1)
          BY <1>1, <2>2, PartCases
    <3>2. i \in Places(r)
          BY <1>1, <2>2, PlacesCases
    <3> HIDE DEF job
    <3> QED BY <1>1, <1>3, <2>1, <3>1, <3>2
  <2>3. CASE Kind(t) = "class"
    <3> DEFINE job == Job(Kids(t)[1], t.expr, "expr")
    <3>1. Part(r, i) = Asking(job, q.scope, r.fuel - 1)
          /\ Part(q, i) = Asking(job, q.scope, q.fuel - 1)
          BY <1>1, <2>3, PartCases
    <3>2. i \in Places(r)
          BY <1>1, <2>3, PlacesCases
    <3> HIDE DEF job
    <3> QED BY <1>1, <1>3, <2>1, <3>1, <3>2
  <2> QED BY <1>5, <2>2, <2>3
<1> QED BY <1>4, <1>5

(* A positive question is made of positive questions.                      *)
PositiveQuestion(q) == q.task.shape \in Positive /\ q.scope \in Seq(Positive)

LEMMA ResolvedPositive ==
  ASSUME EngineAssumption, NEW scope \in Seq(Positive), NEW name, DefinedIn(scope, name)
  PROVE  ResolveIn(scope, name) \in Positive
<1>1. ASSUME NEW s \in Positive, Defines(s, name)
      PROVE  LastDef(s, name) \in Positive
  <2> DEFINE ds == Node[s].defs
             T == {i \in DOMAIN ds : ds[i].name = name}
  <2>1. ds \in Seq([name: Symbol, shape: Shape]) /\ \A i \in DOMAIN ds : ds[i].shape \in Positive
        BY PositiveAssumption, GraphAssumption DEF GraphAssumption, GraphOK, NodeType, PositiveOK
  <2>2. Len(ds) \in Nat /\ DOMAIN ds = 1..Len(ds)
        BY <2>1, LenProperties
  <2>3. T \subseteq 1..Len(ds) /\ T # {}
        BY <1>1, <2>2 DEF Defines
  <2>4. \E i \in T : \A j \in T : j <= i
    <3> HIDE DEF T, ds
    <3> QED BY <2>2, <2>3, LastPlace
  <2>5. \E i \in DOMAIN ds :
          /\ ds[i].name = name
          /\ \A j \in DOMAIN ds : ds[j].name = name => j <= i
        BY <2>4
  <2>6. PICK i \in DOMAIN ds : LastDef(s, name) = ds[i].shape
        BY <2>5 DEF LastDef
  <2> QED BY <2>1, <2>6
<1> DEFINE T == {i \in DOMAIN scope : Defines(scope[i], name)}
<1>2. Len(scope) \in Nat /\ DOMAIN scope = 1..Len(scope)
      BY LenProperties
<1>3. T \subseteq 1..Len(scope) /\ T # {}
      BY <1>2 DEF DefinedIn
<1>4. \E i \in T : \A j \in T : j <= i
  <2> HIDE DEF T
  <2> QED BY <1>2, <1>3, LastPlace
<1>5. \E i \in DOMAIN scope :
        /\ Defines(scope[i], name)
        /\ \A j \in DOMAIN scope : Defines(scope[j], name) => j <= i
      BY <1>4
<1>6. PICK i \in DOMAIN scope :
        Defines(scope[i], name) /\ ResolveIn(scope, name) = LastDef(scope[i], name)
      BY <1>5 DEF ResolveIn
<1>7. scope[i] \in Positive
      BY <1>2, ElementOfSeq
<1> QED BY <1>1, <1>6, <1>7

LEMMA PartPositive ==
  ASSUME EngineAssumption, NEW q \in Question, PositiveQuestion(q), NEW i \in Places(q)
  PROVE  PositiveQuestion(Part(q, i))
<1> DEFINE t == q.task
<1>1. /\ t \in Task /\ t.shape \in Positive /\ q.scope \in Seq(Positive)
      /\ q.scope \in Seq(Shape)
      /\ Kids(t) = Node[t.shape].kids /\ Kind(t) = Node[t.shape].kind
      /\ NodeOK(Node[t.shape]) /\ DOMAIN Kids(t) = 1..Len(Kids(t)) /\ Len(Kids(t)) \in Nat
      BY CostTyped, GraphTyped, PartsTyped, LenProperties DEF Kids, Kind, PositiveQuestion
<1>2. /\ \A j \in DOMAIN Kids(t) : Kids(t)[j] \in Positive
      /\ Node[t.shape].rest # None => Node[t.shape].rest \in Positive
      /\ \A j \in DOMAIN Node[t.shape].defs : Node[t.shape].defs[j].shape \in Positive
  <2>1. PositiveOK(t.shape)
        BY <1>1, PositiveAssumption
  <2> QED BY <1>1, <2>1 DEF PositiveOK
<1>3. \A u, s, f : /\ Asking(u, s, f).task = u /\ Asking(u, s, f).scope = s
      BY DEF Asking
<1>4. \A s, e, path : Job(s, e, path).shape = s
      BY DEF Job
<1>5. CASE Kind(t) \in LoopKinds
  <2> DEFINE job == Child(t, i)
  <2>1. Open(t) /\ i \in 1..LoopLen(t) /\ job # None
        BY <1>5, PlacesCases
  <2>2. Part(q, i) = Asking(job, q.scope, q.fuel)
        BY <1>5, PartCases
  <2>3. i \in Nat \ {0} /\ i <= LoopLen(t)
        BY PlacesTyped, <1>5
  <2>4. job.shape \in Below(t.shape)
        BY <1>1, <1>5, <2>1, <2>3, ChildBelow
  <2>5. Below(t.shape) \subseteq Positive
        BY <1>1, <1>2 DEF Below
  <2> HIDE DEF job
  <2> QED BY <1>1, <1>3, <2>2, <2>4, <2>5 DEF PositiveQuestion
<1>6. CASE Kind(t) = "defs"
  <2> DEFINE job == Job(Kids(t)[1], t.expr, t.path)
             inner == Append(q.scope, t.shape)
  <2>1. Part(q, i) = Asking(job, inner, q.fuel)
        BY <1>6, PartCases
  <2>2. Len(Kids(t)) = 1
        BY <1>1, <1>6 DEF NodeOK
  <2>3. job.shape = Kids(t)[1] /\ Kids(t)[1] \in Positive
        BY <1>1, <1>2, <1>4, <2>2
  <2>4. inner \in Seq(Positive)
        BY <1>1, AppendProperties
  <2> HIDE DEF job, inner
  <2> QED BY <1>3, <2>1, <2>3, <2>4 DEF PositiveQuestion
<1>7. CASE Kind(t) = "ref"
  <2> DEFINE target == Resolved(q.scope, Node[t.shape].name)
             job == Job(target, t.expr, t.path)
  <2>1. DefiningScopes(q.scope, Node[t.shape].name) # {}
        BY <1>7, PlacesCases
  <2>2. target \in Positive
        BY <1>1, <2>1, ResolvedSame, ResolvedPositive
  <2>3. Part(q, i) = Asking(job, q.scope, q.fuel - 1)
        BY <1>7, PartCases
  <2>4. job.shape = target
        BY <1>4
  <2> HIDE DEF job, target
  <2> QED BY <1>1, <1>3, <2>2, <2>3, <2>4 DEF PositiveQuestion
<1>8. CASE Kind(t) = "class"
  <2> DEFINE job == Job(Kids(t)[1], t.expr, "expr")
  <2>1. ClassOpens(t)
        BY <1>8, PlacesCases
  <2>2. Len(Kids(t)) # 0
    <3>1. Kids(t) # <<>> /\ Kids(t) \in Seq(Shape)
          BY <1>1, <2>1, PartsTyped DEF ClassOpens
    <3> QED BY <3>1, EmptySeq
  <2>3. job.shape = Kids(t)[1] /\ Kids(t)[1] \in Positive
        BY <1>1, <1>2, <1>4, <2>2
  <2>4. Part(q, i) = Asking(job, q.scope, q.fuel - 1)
        BY <1>8, PartCases
  <2> HIDE DEF job
  <2> QED BY <1>1, <1>3, <2>3, <2>4 DEF PositiveQuestion
<1>9. CASE Kind(t) \notin LoopKinds \cup {"ref", "defs", "class"}
      BY <1>9, PlacesCases
<1> QED BY <1>5, <1>6, <1>7, <1>8, <1>9

(* What the children make of more decisive answers: when every child that  *)
(* accepted still does not reject, a loop that accepted does not either.   *)
LEMMA LoopRaised ==
  ASSUME EngineAssumption, NEW q \in Question, PositiveQuestion(q),
         Kind(q.task) \in LoopKinds, Open(q.task),
         NEW rs, NEW more, DOMAIN rs = Places(q), DOMAIN more = Places(q),
         \A i \in Places(q) : Decided(rs[i]) /\ Decided(more[i]),
         \A i \in Places(q) : rs[i].st = "accept" => more[i].st # "reject",
         \A i \in Places(q) : Part(q, i).task.shape \in Always => more[i].st # "reject",
         LoopOutcome(q.task, rs).st = "accept"
  PROVE  LoopOutcome(q.task, more).st # "reject"
<1> DEFINE t == q.task
<1>1. /\ t \in Task /\ LoopLen(t) \in Nat /\ Len(Kids(t)) \in Nat /\ PositiveOK(t.shape)
      /\ Node[t.shape].kind = Kind(t) /\ Kind(t) # "not"
      /\ DOMAIN rs \subseteq Nat /\ DOMAIN more \subseteq Nat
      /\ \A i \in Places(q) : i \in Nat \ {0} /\ i <= LoopLen(t)
  <2>1. t \in Task /\ Node[t.shape].kind = Kind(t)
        BY CostTyped DEF Kind
  <2>2. PositiveOK(t.shape)
        BY PositiveAssumption DEF PositiveQuestion
  <2>3. Places(q) \subseteq Nat \ {0} /\ \A i \in Places(q) : i <= LoopLen(t)
        BY PlacesTyped
  <2> QED BY <2>1, <2>2, <2>3, LoopLenTyped, PartsTyped DEF PositiveOK
<1>2. ASSUME NEW n \in Nat, NEW from \in Nat, Every(from, rs, n).st = "accept"
      PROVE  Every(from, more, n).st # "reject"
  <2>1. \A i \in DOMAIN rs : i <= n => rs[i].st = "accept"
        BY <1>1, <1>2, EveryDecided
  <2>2. \A i \in DOMAIN more : i <= n => more[i].st # "reject"
        BY <2>1
  <2> QED BY <1>1, <2>2, EveryUnrejected
<1>3. \A r, name, e, k : With(r, name, e, k).st = r.st
      BY DecidedBasics
<1>4. \A s, c : Accept(s, c).st = "accept"
      BY DEF Accept
<1>5. Reject.st = "reject" /\ Error.st = "error"
      BY DEF Reject, Error
<1> HIDE DEF t
<1>6. LoopOutcome(t, rs).st = "accept"
      BY DEF t
<1> SUFFICES LoopOutcome(t, more).st # "reject"
    BY DEF t
<1>7. CASE Kind(t) = "and"
  <2>1. (IF Kids(t) = <<>> THEN 0 ELSE 10) \in Nat
        OBVIOUS
  <2> QED BY <1>1, <1>2, <1>6, <1>7, <2>1, LoopOutcomeCases
<1>8. CASE Kind(t) = "list"
  <2>1. LoopOutcome(t, rs) = Every(20, rs, Looked(t, rs))
        /\ LoopOutcome(t, more) = Every(20, more, Looked(t, more))
        BY <1>8, LoopOutcomeCases
  <2>2. Looked(t, rs) \in Nat /\ Looked(t, more) \in Nat
        BY <1>1, LookedFar
  <2>3. \A i \in Places(q) : i <= Looked(t, rs) => rs[i].st = "accept"
        BY <1>1, <1>6, <2>1, <2>2, EveryDecided
  <2>4. \A i \in Places(q) : more[i].st # "reject"
    <3>1. CASE Looked(t, rs) = LoopLen(t)
          BY <1>1, <2>3, <3>1
    <3>2. CASE Looked(t, rs) > Len(Kids(t)) /\ Total[Node[t.shape].rest]
               /\ Looked(t, rs) \in DOMAIN rs
      <4> TAKE i \in Places(q)
      <4>1. CASE i <= Len(Kids(t))
        <5>1. i <= Looked(t, rs)
              BY <1>1, <2>2, <3>2, <4>1
        <5> QED BY <2>3, <5>1
      <4>2. CASE i > Len(Kids(t))
        <5>1. Part(q, i).task.shape = Node[t.shape].rest
          <6> DEFINE job == Child(t, i)
          <6>1. Part(q, i) = Asking(job, q.scope, q.fuel)
                BY <1>8, PartCases DEF t
          <6>2. job = Job(Node[t.shape].rest, Items(t)[i], t.path)
            <7>1. job = ListChild(t, i) /\ ~(i <= Len(Kids(t)))
                  BY <1>1, <1>8, <4>2, LoopCases
            <7> QED BY <7>1 DEF ListChild
          <6>3. job.shape = Node[t.shape].rest
                BY <6>2 DEF Job
          <6> HIDE DEF job
          <6>4. Asking(job, q.scope, q.fuel).task = job
                BY DEF Asking
          <6> QED BY <6>1, <6>3, <6>4
        <5>2. Node[t.shape].rest # None
          <6>1. ~ListRefuses(t)
                BY <1>8 DEF Open, Refuses, t
          <6>2. Len(Items(t)) # Len(Kids(t))
            <7>1. i <= Len(Items(t)) /\ Len(Items(t)) \in Nat
                  BY <1>1, <1>8, LoopCases
            <7> QED BY <1>1, <4>2, <7>1
          <6> QED BY <6>1, <6>2 DEF ListRefuses
        <5>3. Node[t.shape].rest \in Always
              BY <1>1, <1>8, <3>2, <5>2 DEF PositiveOK
        <5> QED BY <5>1, <5>3
      <4> QED BY <1>1, <4>1, <4>2
    <3> QED BY <1>1, <3>1, <3>2, LookedFar
  <2> QED BY <1>1, <2>1, <2>2, <2>4, EveryUnrejected
<1>9. CASE Kind(t) = "repeat"
  <2>1. Every(20, rs, LoopLen(t)).st = "accept" /\ RepeatInBounds(t)
        BY <1>3, <1>5, <1>6, <1>9, LoopOutcomeCases DEF RepeatOutcome
  <2>2. RepeatOutcome(t, more) =
          With(Every(20, more, LoopLen(t)), "repeat-count", t.expr, Len(Items(t)))
        BY <2>1 DEF RepeatOutcome
  <2>3. Every(20, more, LoopLen(t)).st # "reject"
        BY <1>1, <1>2, <2>1
  <2> QED BY <1>3, <1>9, <2>2, <2>3, LoopOutcomeCases
<1>10. CASE Kind(t) = "table"
  <2> DEFINE rejects == Absent(t) # {} \/ (Node[t.shape].extra = "reject" /\ Extras(t) # {})
             fields(r) == Every(20, r, Len(Kids(t)))
             whole(r) == Every(20, r, LoopLen(t))
  <2>1. \A r : TableOutcome(t, r) =
          IF fields(r).st # "accept" THEN fields(r)
          ELSE IF rejects THEN Reject ELSE With(whole(r), "matched-keys", t.expr, 0)
        BY DEF TableOutcome
  <2>2. (fields(rs).st = "accept" => fields(more).st # "reject")
        /\ (whole(rs).st = "accept" => whole(more).st # "reject")
        BY <1>1, <1>2
  <2>3. TableOutcome(t, rs).st = "accept"
        BY <1>6, <1>10, LoopOutcomeCases
  <2> HIDE DEF fields, whole, rejects
  <2>4. fields(rs).st = "accept" /\ ~rejects /\ whole(rs).st = "accept"
        BY <1>3, <1>5, <2>1, <2>3
  <2>5. TableOutcome(t, more).st # "reject"
        BY <1>3, <2>1, <2>2, <2>4
  <2> QED BY <1>10, <2>5, LoopOutcomeCases
<1>11. CASE Kind(t) = "fields"
  <2>1. FieldsOutcome(t, rs).st = "accept"
        BY <1>6, <1>11, LoopOutcomeCases
  <2>2. \A r : Failing(r).st # "accept"
        BY <1>5 DEF Failing
  <2>3. Absent(t) = {}
        BY <2>1, <2>2 DEF FieldsOutcome
  <2>4. \A r : FieldsOutcome(t, r) = Every(20, r, LoopLen(t))
        BY <2>3 DEF FieldsOutcome
  <2> QED BY <1>1, <1>2, <1>11, <2>1, <2>4, LoopOutcomeCases
<1>12. CASE Kind(t) = "cell"
  <2>1. CellOutcome(t, rs).st = "accept"
        BY <1>6, <1>12, LoopOutcomeCases
  <2>2. CASE CellIsNull(t)
    <3>1. CellOutcome(t, more) = Accept(80, <<>>)
          BY <2>2 DEF CellOutcome
    <3> QED BY <1>4, <1>12, <3>1, LoopOutcomeCases
  <2>3. CASE ~CellIsNull(t)
    <3>1. \A r : CellOutcome(t, r).st = Every(20, r, 1).st
          BY <1>3, <2>3 DEF CellOutcome
    <3>2. Every(20, more, 1).st # "reject"
          BY <1>2, <2>1, <3>1
    <3> QED BY <1>12, <3>1, <3>2, LoopOutcomeCases
  <2> QED BY <2>2, <2>3
<1>13. CASE Kind(t) = "row"
  <2>1. \A r : RowOutcome(t, r).st = Every(0, r, LoopLen(t)).st
        BY <1>4 DEF RowOutcome
  <2> QED BY <1>1, <1>2, <1>6, <1>13, <2>1, LoopOutcomeCases
<1>14. CASE Kind(t) \in AnyKinds
  <2>1. OrOutcome(t, rs).st = "accept"
        BY <1>6, <1>14, LoopOutcomeCases
  <2>2. Deciding(rs) # {} /\ Deciding(rs) \in SUBSET Nat
        BY <1>1, <1>5, <2>1 DEF OrOutcome, Deciding
  <2>3. Min(Deciding(rs)) \in DOMAIN rs
        BY <2>2, MinIs DEF Deciding
  <2>4. rs[Min(Deciding(rs))].st = "accept"
        BY <1>3, <2>1, <2>2 DEF OrOutcome
  <2>5. PICK i \in DOMAIN rs : rs[i].st = "accept"
        BY <2>3, <2>4
  <2>6. OrOutcome(t, more).st # "reject"
        BY <1>1, <2>5, OrUnrejected
  <2> QED BY <1>14, <2>6, LoopOutcomeCases
<1>15. CASE Kind(t) = "best"
  <2>1. BestOutcome(t, rs).st = "accept"
        BY <1>6, <1>15, LoopOutcomeCases
  <2>2. Best(rs) # {}
        BY <1>5, <2>1 DEF BestOutcome
  <2>3. PICK i \in DOMAIN rs : rs[i].st = "accept"
        BY <2>2 DEF Best
  <2>4. \A k \in DOMAIN more : k \in 1..LoopLen(t)
        BY <1>1
  <2>5. BestOutcome(t, more).st # "reject"
        BY <1>1, <2>3, <2>4, BestUnrejected
  <2> QED BY <1>15, <2>5, LoopOutcomeCases
<1>16. CASE Kind(t) \in WrapKinds
  <2>1. 1 \in Places(q)
    <3>1. LoopLen(t) = 1 /\ Child(t, 1) # None
          BY <1>1, <1>16, WrapperAsks DEF t
    <3> QED BY <3>1, PlacesCases DEF t
  <2>2. \A r : LoopOutcome(t, r).st = r[1].st
        BY <1>3, <1>16, LoopOutcomeCases DEF WrapKinds
  <2> QED BY <1>6, <2>1, <2>2
<1> QED BY <1>1, <1>7, <1>8, <1>9, <1>10, <1>11, <1>12, <1>13, <1>14, <1>15, <1>16
    DEF LoopKinds, AllKinds, t

LEMMA RaiseStep ==
  ASSUME EngineAssumption, NEW q \in Question, PositiveQuestion(q), NEW more \in Nat,
         Meaning[q].st = "accept",
         \A y \in Question : Cost(y) < Cost(q) /\ PositiveQuestion(y) /\ Meaning[y].st = "accept"
           => Meaning[Raise(y, more)].st # "reject"
  PROVE  Meaning[Raise(q, more)].st # "reject"
<1> DEFINE t == q.task
           r == Raise(q, more)
           rs == [i \in Places(q) |-> Meaning[Part(q, i)]]
           ms == [i \in Places(r) |-> Meaning[Part(r, i)]]
<1>1. /\ r \in Question /\ r.task = t /\ t \in Task
      BY RaiseTyped, CostTyped
<1>2. /\ Meaning[q] = Outcome(t, rs) /\ Meaning[r] = Outcome(t, ms)
      BY <1>1, MeaningEquation
<1>3. \A i \in Places(q) :
        /\ i \in Places(r) /\ Part(q, i) \in Question /\ Raise(Part(q, i), more) \in Question
        /\ Part(r, i) = Raise(Part(q, i), more) /\ PositiveQuestion(Part(q, i))
        /\ Raise(Part(q, i), more).task = Part(q, i).task
        /\ Cost(Part(q, i)) < Cost(q)
      BY PartCheaper, PartPositive, RaiseParts, RaiseTyped
<1>4. /\ DOMAIN rs = Places(q) /\ DOMAIN ms = Places(r)
      /\ \A i \in Places(q) : rs[i] = Meaning[Part(q, i)] /\ ms[i] = Meaning[Raise(Part(q, i), more)]
      BY <1>3
<1>5. Kind(t) \notin {"ref", "class"} => Places(r) = Places(q)
      BY RaiseParts
<1> HIDE DEF rs, ms, r, t
<1>6. \A i \in Places(q) : Decided(rs[i]) /\ Decided(ms[i])
      BY <1>3, <1>4, MeaningDecided
<1>7. \A i \in Places(q) : rs[i].st = "accept" => ms[i].st # "reject"
      BY <1>3, <1>4
<1>8. \A i \in Places(q) : Part(q, i).task.shape \in Always => ms[i].st # "reject"
      BY <1>3, <1>4, NeverRejects
<1>9. Outcome(t, rs).st = "accept"
      BY <1>2
<1> SUFFICES Outcome(t, ms).st # "reject"
    BY <1>2 DEF r
<1>10. Reject.st = "reject" /\ Error.st = "error" /\ \A s, c : Accept(s, c).st = "accept"
       BY DEF Reject, Error, Accept
<1>11. CASE Kind(t) \in LeafKinds
       BY <1>9, <1>11, OutcomeCases
<1>12. CASE Kind(t) = "defs"
  <2>1. 1 \in Places(q)
        BY <1>12, PlacesCases DEF t
  <2> QED BY <1>7, <1>9, <1>12, <2>1, OutcomeCases
<1>13. CASE Kind(t) \in {"ref", "class"} /\ Places(q) # {}
  <2>1. Places(q) = {1}
        BY <1>13, PlacesCases DEF t
  <2>2. 1 \in Places(r)
        BY <1>3, <2>1
  <2>3. DOMAIN rs # {} /\ DOMAIN ms # {}
        BY <1>4, <2>1, <2>2
  <2>4. CASE Kind(t) = "ref"
        BY <1>7, <1>9, <2>1, <2>3, <2>4, OutcomeCases
  <2>5. CASE Kind(t) = "class"
    <3>1. ClassOpens(t)
          BY <2>1, <2>5, PlacesCases DEF t
    <3>2. ClassOutcome(t, rs).st = "accept"
          BY <1>9, <2>5, OutcomeCases
    <3>3. rs[1].st = "accept"
          BY <2>3, <3>1, <3>2 DEF ClassOutcome
    <3>4. ms[1].st # "reject"
          BY <1>7, <2>1, <3>3
    <3>5. ClassOutcome(t, ms).st # "reject"
          BY <1>10, <2>3, <3>1, <3>4 DEF ClassOutcome
    <3> QED BY <2>5, <3>5, OutcomeCases
  <2> QED BY <1>13, <2>4, <2>5
<1>14. CASE Kind(t) \in {"ref", "class"} /\ Places(q) = {}
  <2>1. DOMAIN rs = {}
        BY <1>4, <1>14
  <2>2. Kind(t) # "ref"
        BY <1>9, <1>10, <2>1, OutcomeCases
  <2>3. ClassOutcome(t, rs).st = "accept" /\ Kind(t) = "class"
        BY <1>9, <1>14, <2>2, OutcomeCases
  <2>4. ~ClassOpens(t)
        BY <1>10, <2>1, <2>3 DEF ClassOutcome
  <2>5. ClassOutcome(t, ms) = ClassOutcome(t, rs)
        BY <2>4 DEF ClassOutcome
  <2> QED BY <2>3, <2>5, OutcomeCases
<1>15. CASE Kind(t) \in LoopKinds /\ ~Open(t)
  <2>1. EntryFails(t) \/ Refuses(t)
        BY <1>15 DEF Open
  <2> QED BY <1>9, <1>10, <1>15, <2>1, OutcomeCases
<1>16. CASE Kind(t) \in LoopKinds /\ Open(t)
  <2>1. LoopOutcome(t, rs).st = "accept" /\ Outcome(t, ms) = LoopOutcome(t, ms)
        BY <1>9, <1>16, OutcomeCases
  <2>2. DOMAIN ms = Places(q)
    <3>1. Kind(t) \notin {"ref", "class"}
          BY <1>16, KindsApart
    <3> QED BY <1>4, <1>5, <3>1
  <2> QED BY <1>4, <1>6, <1>7, <1>8, <1>16, <2>1, <2>2, LoopRaised DEF t
<1> QED
  <2>1. Kind(t) \in LeafKinds \cup LoopKinds \cup {"ref", "defs", "class"}
    <3>1. Kind(t) \in Kinds
          BY <1>1, GraphTyped DEF NodeType, Kind
    <3> QED BY <3>1 DEF Kinds
  <2> QED BY <1>11, <1>12, <1>13, <1>14, <1>15, <1>16, <2>1

(* A positive check that accepts does not reject when it may go deeper.    *)
LEMMA RaiseKeeps ==
  ASSUME EngineAssumption, NEW q \in Question, PositiveQuestion(q), NEW more \in Nat,
         Meaning[q].st = "accept"
  PROVE  Meaning[Raise(q, more)].st # "reject"
<1> DEFINE Wrong(x) == PositiveQuestion(x) /\ Meaning[x].st = "accept"
                       /\ Meaning[Raise(x, more)].st = "reject"
           wrong == {n \in Nat : \E x \in Question : Cost(x) = n /\ Wrong(x)}
<1>1. wrong = {}
  <2>1. SUFFICES ASSUME NEW n \in wrong, \A m \in wrong : n <= m PROVE FALSE
    <3> HIDE DEF wrong
    <3>1. wrong \subseteq Nat
          BY DEF wrong
    <3> QED BY <3>1, FirstPlace
  <2>2. PICK x \in Question : Cost(x) = n /\ Wrong(x)
        OBVIOUS
  <2>3. \A y \in Question : Cost(y) < Cost(x) => ~Wrong(y)
    <3> TAKE y \in Question
    <3>1. Cost(y) \in Nat /\ n \in Nat
          BY CostTyped
    <3> QED BY <2>1, <2>2, <3>1
  <2>4. /\ PositiveQuestion(x) /\ Meaning[x].st = "accept"
        /\ Meaning[Raise(x, more)].st = "reject"
        BY <2>2
  <2>5. \A y \in Question : Cost(y) < Cost(x) /\ PositiveQuestion(y) /\ Meaning[y].st = "accept"
          => Meaning[Raise(y, more)].st # "reject"
        BY <2>3
  <2> HIDE DEF wrong, Wrong
  <2> QED BY <2>4, <2>5, RaiseStep
<1>2. Cost(q) \in Nat
      BY CostTyped
<1> QED BY <1>1, <1>2

(* Matching fails closed: on every graph and term, an accept that a shape  *)
(* built without negation gave under the budget of its caller is no reject *)
(* under any larger budget, so exhausting MAX_SHAPE_DEPTH only ever turns  *)
(* accepts into rejects (DepthGuard::enter, recursion.rs and recursive.rs).*)
THEOREM ExhaustionFailsClosed == Spec => []FailsClosed
<1>1. TypeOK /\ AnswerIsMeaning => FailsClosed
  <2> SUFFICES ASSUME TypeOK, AnswerIsMeaning, Done, ret.st = "accept",
                      call.shape \in Positive, NEW more \in Larger
               PROVE  Answer(more).st # "reject"
      BY DEF FailsClosed
  <2>1. /\ more \in Nat /\ base \in Nat /\ MaxDepth - base \in Nat /\ MaxDepth \in Nat
        /\ call \in Task /\ EngineAssumption
        BY EngineAssumption, PositiveAssumption DEF TypeOK, Done, EngineAssumption
  <2> DEFINE fuel == MaxDepth - base
             q == Asking(call, <<>>, fuel)
  <2>2. ret = Meaning[q]
    <3>1. MaxDepth - base + 0 = fuel
          BY <2>1
    <3> QED BY <3>1 DEF AnswerIsMeaning, Answer
  <2>3. Answer(more) = Meaning[Asking(call, <<>>, fuel + more)]
        BY DEF Answer
  <2> HIDE DEF fuel
  <2>4. fuel \in Nat
        BY <2>1 DEF fuel
  <2>5. q \in Question /\ PositiveQuestion(q) /\ Raise(q, more) = Asking(call, <<>>, fuel + more)
        BY <2>1, <2>4 DEF Question, Asking, PositiveQuestion, Raise
  <2> HIDE DEF q
  <2> QED BY <2>1, <2>2, <2>3, <2>5, RaiseKeeps
<1> QED BY <1>1, TypeCorrect, AnswersAreMeant, PTL

=============================================================================
