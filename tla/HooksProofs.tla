---------------------------- MODULE HooksProofs ----------------------------
(***************************************************************************)
(* What Hooks promises of every stack, every inner shape and every word    *)
(* size.  The inductive invariant says, pass by pass, which verdict the    *)
(* diagnostics left so far account for; further ones follow the floors     *)
(* set, the hooks asked and what a stack of built-in hooks has said.       *)
(***************************************************************************)
EXTENDS Hooks, TLAPS

(* A diagnostic of this stack's own hooks.                                 *)
Own(d, what) == d.by # 0 /\ d.says = what
Tells(diags, what) == \E n \in DOMAIN diags : Own(diags[n], what)
OneVeto(diags) ==
  \A m, n \in DOMAIN diags : Own(diags[m], "discard") /\ Own(diags[n], "discard") => m = n

(* A score computed in a machine word is a machine word, overflow or not.  *)
LEMMA WrapInWord ==
  ASSUME NEW n \in Int
  PROVE  Wrap(n) \in Word
<1>1. /\ Half \in Nat /\ 2 * Half \in Nat \ {0} /\ n + Half \in Int
      BY HooksAssumption
<1>2. (n + Half) % (2 * Half) \in 0..(2 * Half - 1)
  <2>1. \A a \in Int, b \in Nat \ {0} : a % b \in 0..(b - 1)
        OBVIOUS
  <2> QED BY <1>1, <2>1
<1> QED BY <1>1, <1>2 DEF Wrap, Word

(* What appending one diagnostic does to what is told.                     *)
LEMMA TellsAppend ==
  ASSUME NEW diags \in Seq(Diagnostic), NEW d \in Diagnostic, NEW what \in Said
  PROVE  Tells(Append(diags, d), what) <=> Tells(diags, what) \/ Own(d, what)
<1> DEFINE longer == Append(diags, d)
<1>1. /\ DOMAIN longer = 1..(Len(diags) + 1) /\ DOMAIN diags = 1..Len(diags)
      /\ longer[Len(diags) + 1] = d
      /\ \A n \in DOMAIN diags : longer[n] = diags[n]
      OBVIOUS
<1>2. Len(diags) \in Nat
      OBVIOUS
<1> QED BY <1>1, <1>2 DEF Tells

(* A diagnostic keeps the veto the only one if it is no veto, or the       *)
(* first.                                                                  *)
LEMMA OneVetoAppend ==
  ASSUME NEW diags \in Seq(Diagnostic), NEW d \in Diagnostic,
         OneVeto(diags), ~Tells(diags, "discard") \/ ~Own(d, "discard")
  PROVE  OneVeto(Append(diags, d))
<1> DEFINE longer == Append(diags, d)
<1>1. /\ DOMAIN longer = 1..(Len(diags) + 1) /\ DOMAIN diags = 1..Len(diags)
      /\ longer[Len(diags) + 1] = d
      /\ \A n \in DOMAIN diags : longer[n] = diags[n]
      OBVIOUS
<1>2. Len(diags) \in Nat
      OBVIOUS
<1> QED BY <1>1, <1>2 DEF Tells, OneVeto

(* And what adding the marks does: nothing.                                *)
LEMMA TellsMarks ==
  ASSUME NEW diags \in Seq(Diagnostic), NEW more \in Seq(Diagnostic),
         NEW what \in Said, ~Tells(diags, what), ~Tells(more, what)
  PROVE  ~Tells(diags \o more, what)
<1> DEFINE longer == diags \o more
<1>1. /\ DOMAIN longer = 1..(Len(diags) + Len(more))
      /\ DOMAIN diags = 1..Len(diags) /\ DOMAIN more = 1..Len(more)
      /\ \A n \in DOMAIN diags : longer[n] = diags[n]
      /\ \A n \in 1..(Len(diags) + Len(more)) : n > Len(diags) => longer[n] = more[n - Len(diags)]
      OBVIOUS
<1>2. Len(diags) \in Nat /\ Len(more) \in Nat
      OBVIOUS
<1>3. SUFFICES ASSUME NEW n \in DOMAIN longer, Own(longer[n], what) PROVE FALSE
      BY DEF Tells
<1>4. CASE n <= Len(diags)
      BY <1>1, <1>2, <1>3, <1>4 DEF Tells
<1>5. CASE n > Len(diags)
  <2>1. n - Len(diags) \in DOMAIN more
        BY <1>1, <1>2, <1>3, <1>5
  <2> QED BY <1>1, <1>3, <1>5, <2>1 DEF Tells
<1> QED BY <1>1, <1>2, <1>3, <1>4, <1>5

(* Diagnostics without a veto hold one veto at most.                       *)
LEMMA SilentHasNoVeto ==
  ASSUME NEW diags, ~Tells(diags, "discard")
  PROVE  OneVeto(diags)
BY DEF Tells, OneVeto

-----------------------------------------------------------------------------
(* A hooked check starts well typed.                                       *)
LEMMA TypeInit == Init => TypeOK
<1> SUFFICES ASSUME Init PROVE TypeOK
    OBVIOUS
<1>1. hooks \in Seq(Hook)
      BY HooksAssumption DEF Init
<1>2. NoMatch \in Match
      BY HooksAssumption DEF NoMatch, Match
<1> QED BY <1>1, <1>2 DEF Init, TypeOK, Passes, StackPasses

(* A hook whose turn is to come is a hook of the stack.                    *)
LEMMA HookTyped ==
  ASSUME TypeOK, NEW i \in Upcoming
  PROVE  /\ i \in 1..Len(hooks) /\ i \in Nat /\ hooks[i] \in Hook
         /\ Len(hooks) \in Nat
BY HooksAssumption DEF TypeOK, Upcoming

(* Asking a hook adds a well-typed entry to the calls made.                *)
LEMMA CallTyped ==
  ASSUME TypeOK, NEW i \in Upcoming, Asked(i)
  PROVE  calls' \in Seq([pass: Passes, hook: Nat])
BY HookTyped DEF Asked, TypeOK

(* The turn stays within the stack.                                        *)
LEMMA TurnTyped ==
  ASSUME TypeOK, NEW i \in Upcoming
  PROVE  i \in 0..Len(hooks) /\ Len(hooks) \in 0..Len(hooks)
<1>1. i \in 1..Len(hooks) /\ Len(hooks) \in Nat
      BY HookTyped
<1> QED BY <1>1

(* A hook's diagnostic is one, and leaving it keeps the match's            *)
(* diagnostics well typed.                                                 *)
LEMMA LeaveTyped ==
  ASSUME TypeOK, NEW i \in Upcoming, NEW what \in Said
  PROVE  /\ [by |-> i, says |-> what] \in Diagnostic
         /\ Leave(i, what) \in Seq(Diagnostic)
<1>1. match.diagnostics \in Seq(Diagnostic)
      BY DEF TypeOK, Match
<1> QED BY <1>1, HookTyped DEF Diagnostic, Leave

(* The diagnostics of the mark hooks, put behind the match's own, leave a  *)
(* well-typed match.                                                       *)
LEMMA MarksTyped ==
  ASSUME TypeOK
  PROVE  [match EXCEPT !.diagnostics = @ \o marks] \in Match
<1>1. match.diagnostics \in Seq(Diagnostic) /\ marks \in Seq(Diagnostic)
      BY DEF TypeOK, Match
<1>2. match.diagnostics \o marks \in Seq(Diagnostic)
      BY <1>1
<1> QED BY <1>2 DEF TypeOK, Match

(* Every step of a hooked check keeps the state well typed.                *)
LEMMA TypeStep == TypeOK /\ [Next]_vars => TypeOK'
<1> SUFFICES ASSUME TypeOK, [Next]_vars PROVE TypeOK'
    OBVIOUS
<1>0. hooks \in Seq(Hook) /\ Len(hooks) \in Nat
      BY HooksAssumption DEF TypeOK
<1>1. CASE Describe
      BY <1>1 DEF Describe, TypeOK, Passes, StackPasses
<1>2. CASE InnerFails
      BY <1>2 DEF InnerFails, Finish, TypeOK, Passes
<1>3. CASE InnerAnswers
  <2>1. inner' \in Match /\ inner'.diagnostics \in Seq(Diagnostic) /\ marks \in Seq(Diagnostic)
        BY <1>3, HooksAssumption DEF InnerAnswers, TypeOK, Match
  <2>2. inner'.diagnostics \o marks \in Seq(Diagnostic)
        BY <2>1
  <2>3. match' \in Match
        BY <1>3, <2>1, <2>2 DEF InnerAnswers, Match
  <2> QED BY <1>0, <1>3, <2>1, <2>3 DEF InnerAnswers, TypeOK, Passes, StackPasses
<1>4. CASE HookFails
  <2>1. calls' \in Seq([pass: Passes, hook: Nat])
        BY <1>4, CallTyped DEF HookFails
  <2> QED BY <1>4, <2>1 DEF HookFails, Finish, TypeOK, Passes
<1>5. CASE HookPasses
  <2>1. PICK i \in Upcoming : Asked(i) /\ at' = i
        BY <1>5 DEF HookPasses
  <2>2. calls' \in Seq([pass: Passes, hook: Nat])
        BY <2>1, CallTyped
  <2>2a. at' \in 0..Len(hooks)
        BY <2>1, TurnTyped
  <2> QED BY <1>5, <2>2, <2>2a DEF HookPasses, TypeOK, Passes
<1>6. CASE Mark
  <2>1. PICK i \in Upcoming :
          Asked(i) /\ at' = i /\ marks' = Append(marks, [by |-> i, says |-> "mark"])
        BY <1>6 DEF Mark
  <2>2. calls' \in Seq([pass: Passes, hook: Nat])
        BY <2>1, CallTyped
  <2>2a. at' \in 0..Len(hooks)
        BY <2>1, TurnTyped
  <2>3. [by |-> i, says |-> "mark"] \in Diagnostic
        BY LeaveTyped DEF Said, Kinds
  <2>4. marks' \in Seq(Diagnostic)
        BY <2>1, <2>3 DEF TypeOK
  <2> QED BY <1>6, <2>2, <2>2a, <2>4 DEF Mark, TypeOK
<1>7. CASE Accept
  <2>0. PICK i \in Upcoming : \E score \in Given(hooks[i]) :
          /\ Asked(i) /\ at' = i
          /\ match' = [accepted |-> TRUE,
                       score |-> IF match.score = Reject THEN score ELSE match.score,
                       diagnostics |-> Leave(i, "accept")]
        BY <1>7 DEF Accept
  <2>1. PICK score \in Given(hooks[i]) :
          /\ Asked(i) /\ at' = i
          /\ match' = [accepted |-> TRUE,
                       score |-> IF match.score = Reject THEN score ELSE match.score,
                       diagnostics |-> Leave(i, "accept")]
        BY <2>0
  <2>2. calls' \in Seq([pass: Passes, hook: Nat])
        BY <2>1, CallTyped
  <2>2a. at' \in 0..Len(hooks)
        BY <2>1, TurnTyped
  <2>3. score \in Word
        BY HooksAssumption DEF Given
  <2>4. Leave(i, "accept") \in Seq(Diagnostic)
        BY LeaveTyped DEF Said, Kinds
  <2>5. match' \in Match
        BY <2>1, <2>3, <2>4 DEF TypeOK, Match
  <2> QED BY <1>7, <2>2, <2>2a, <2>5 DEF Accept, TypeOK
<1>8. CASE Discard
  <2>1. PICK i \in Upcoming :
          /\ Asked(i) /\ at' = Len(hooks)
          /\ match' = [accepted |-> FALSE, score |-> Reject, diagnostics |-> Leave(i, "discard")]
        BY <1>8 DEF Discard, LastTurn
  <2>2. calls' \in Seq([pass: Passes, hook: Nat])
        BY <2>1, CallTyped
  <2>2a. at' \in 0..Len(hooks)
        BY <2>1, TurnTyped
  <2>3. Leave(i, "discard") \in Seq(Diagnostic)
        BY LeaveTyped DEF Said, Kinds
  <2>4. match' \in Match
        BY <2>1, <2>3, HooksAssumption DEF Match
  <2> QED BY <1>8, <2>2, <2>2a, <2>4 DEF Discard, TypeOK
<1>9. CASE Annotate
  <2>0. PICK i \in Upcoming : \E delta \in Added(hooks[i]) :
          /\ Asked(i) /\ at' = i
          /\ match' = [match EXCEPT !.score = Wrap(@ + Wrap(delta)),
                                    !.diagnostics = Leave(i, "annotate")]
        BY <1>9 DEF Annotate
  <2>1. PICK delta \in Added(hooks[i]) :
          /\ Asked(i) /\ at' = i
          /\ match' = [match EXCEPT !.score = Wrap(@ + Wrap(delta)),
                                    !.diagnostics = Leave(i, "annotate")]
        BY <2>0
  <2>2. calls' \in Seq([pass: Passes, hook: Nat])
        BY <2>1, CallTyped
  <2>2a. at' \in 0..Len(hooks)
        BY <2>1, TurnTyped
  <2>3. Word \subseteq Int
        BY HooksAssumption DEF Word
  <2>4. match.score \in Int /\ hooks[i].floor \in Int
        BY <2>3, HookTyped DEF TypeOK, Match, Hook
  <2>5. delta \in Int
        BY <2>3, <2>4, HooksAssumption DEF Added, Lift
  <2>6. Wrap(delta) \in Int
        BY <2>3, <2>5, WrapInWord
  <2>7. Wrap(match.score + Wrap(delta)) \in Word
        BY <2>4, <2>6, WrapInWord
  <2>8. Leave(i, "annotate") \in Seq(Diagnostic)
        BY LeaveTyped DEF Said, Kinds
  <2>9. match' \in Match
        BY <2>1, <2>7, <2>8 DEF TypeOK, Match
  <2> QED BY <1>9, <2>2, <2>2a, <2>9 DEF Annotate, TypeOK
<1>10. CASE Overflow
  <2>1. calls' \in Seq([pass: Passes, hook: Nat])
        BY <1>10, CallTyped DEF Overflow
  <2> QED BY <1>10, <2>1 DEF Overflow, Finish, TypeOK, Passes
<1>11. CASE EndPass
  <2>1. pass' \in Passes
    <3>1. CASE pass = "before"
          BY <1>11, <3>1 DEF EndPass, NextPass, Passes, StackPasses
    <3>2. CASE pass = "after"
          BY <1>11, <3>2 DEF EndPass, NextPass, Passes, StackPasses
    <3>3. CASE pass = "accept"
          BY <1>11, <3>3 DEF EndPass, NextPass, Passes, StackPasses
    <3>4. CASE pass = "discard"
          BY <1>11, <3>4 DEF EndPass, NextPass, Passes, StackPasses
    <3>5. CASE pass = "annotate"
          BY <1>11, <3>5 DEF EndPass, NextPass, Passes, StackPasses
    <3> QED BY <1>11, <3>1, <3>2, <3>3, <3>4, <3>5 DEF EndPass, StackPasses
  <2>2. match' \in Match /\ marks' \in Seq(Diagnostic)
    <3>1. CASE pass = "after"
      <4>1. match' = [match EXCEPT !.diagnostics = @ \o marks] /\ marks' = <<>>
            BY <1>11, <3>1 DEF EndPass
      <4> QED BY <4>1, MarksTyped
    <3>2. CASE pass # "after"
          BY <1>11, <3>2 DEF EndPass, TypeOK
    <3> QED BY <3>1, <3>2
  <2> QED BY <1>11, <1>0, <2>1, <2>2 DEF EndPass, TypeOK
<1>12. CASE UNCHANGED vars
      BY <1>12 DEF vars, TypeOK
<1> QED BY <1>1, <1>2, <1>3, <1>4, <1>5, <1>6, <1>7, <1>8, <1>9, <1>10, <1>11, <1>12 DEF Next

(* The type invariant, for every stack.                                    *)
THEOREM HooksTypeCorrect == Spec => []TypeOK
<1> QED BY TypeInit, TypeStep, PTL DEF Spec

-----------------------------------------------------------------------------
(* Which verdict the diagnostics account for, pass by pass: before the     *)
(* accept hooks the inner shape's, then a repaired one, then a vetoed one. *)
Told(what) == Tells(match.diagnostics, what)
Repaired == inner.accepted \/ Told("accept")

MarksOnly == \A n \in DOMAIN marks : marks[n].says = "mark"
StillInner ==
  pass \in {"describe", "before", "inner", "after"} =>
    /\ ~Told("accept") /\ ~Told("discard")
    /\ pass = "after" => match.accepted = inner.accepted
WhileRepairing ==
  pass = "accept" => ~Told("discard") /\ (match.accepted <=> Repaired)
WhileVetoing ==
  pass = "discard" =>
    /\ Repaired
    /\ IF match.accepted THEN ~Told("discard") ELSE Told("discard") /\ at = Len(hooks)
InTheEnd ==
  pass = "annotate" \/ end = "ok" => (match.accepted <=> Repaired /\ ~Told("discard"))
Silence ==
  AcceptanceTransparent(hooks) => ~Told("accept") /\ ~Told("discard")
EndsLast == end = "ok" => pass = "done"

Accounted ==
  /\ MarksOnly /\ StillInner /\ WhileRepairing /\ WhileVetoing /\ InTheEnd
  /\ Silence /\ EndsLast /\ OneVeto(match.diagnostics)

(* The account of the verdict holds before the first hook is asked.        *)
LEMMA AccountedInit == Init => Accounted
BY DEF Init, NoMatch, Accounted, MarksOnly, StillInner, WhileRepairing, WhileVetoing, InTheEnd,
       Silence, EndsLast, OneVeto, Told, Tells

(* A step that leaves the match, the inner answer and the marks alone.     *)
LEMMA ToldUnchanged ==
  ASSUME UNCHANGED match
  PROVE  \A what : Told(what)' <=> Told(what)
BY DEF Told, Tells

(* The diagnostics of the match and of the marks are sequences of          *)
(* diagnostics.                                                            *)
LEMMA TypedDiagnostics ==
  ASSUME TypeOK
  PROVE  /\ match.diagnostics \in Seq(Diagnostic) /\ marks \in Seq(Diagnostic)
         /\ {"accept", "discard", "annotate"} \subseteq Said
BY DEF TypeOK, Match, Said, Kinds

(* Mark hooks leave no acceptance and no veto.                             *)
LEMMA MarksTellNothing ==
  ASSUME MarksOnly
  PROVE  ~Tells(marks, "accept") /\ ~Tells(marks, "discard")
BY DEF MarksOnly, Tells, Own

(* A hook whose turn it is in the accept or discard pass makes the stack   *)
(* opaque.                                                                 *)
LEMMA OpaqueStack ==
  ASSUME NEW i \in Upcoming, pass \in {"accept", "discard"}
  PROVE  ~AcceptanceTransparent(hooks)
BY DEF Upcoming, Asks, AcceptanceTransparent, PreservesAcceptance

(* Every step of a hooked check keeps the account of its verdict: a repair *)
(* or a veto is told by the hook that made it, when it makes it.           *)
LEMMA AccountedStep == TypeOK /\ Accounted /\ [Next]_vars => Accounted'
<1> SUFFICES ASSUME TypeOK, Accounted, [Next]_vars PROVE Accounted'
    OBVIOUS
<1> USE DEF MarksOnly, StillInner, WhileRepairing, WhileVetoing, InTheEnd, Silence, EndsLast
<1>0. /\ MarksOnly /\ StillInner /\ WhileRepairing /\ WhileVetoing /\ InTheEnd
      /\ Silence /\ EndsLast /\ OneVeto(match.diagnostics)
      BY DEF Accounted
<1>1. CASE Describe
  <2>1. /\ pass = "describe" /\ pass' = "before"
        /\ UNCHANGED <<hooks, at, match, marks, inner, calls, end>>
        BY <1>1 DEF Describe
  <2> QED BY <1>0, <2>1, ToldUnchanged DEF Accounted, Repaired
<1>2. CASE InnerFails
  <2>1. pass' = "done" /\ end' = "error" /\ UNCHANGED <<hooks, at, match, marks, inner, calls>>
        BY <1>2 DEF InnerFails, Finish
  <2> QED BY <1>0, <2>1, ToldUnchanged DEF Accounted, Repaired
<1>3. CASE InnerAnswers
  <2>1. /\ pass' = "after" /\ marks' = <<>> /\ UNCHANGED <<hooks, end>> /\ pass = "inner"
        /\ inner' \in Inners /\ match' = [inner' EXCEPT !.diagnostics = @ \o marks]
        BY <1>3 DEF InnerAnswers
  <2>2. /\ inner'.diagnostics \in Seq(Diagnostic)
        /\ \A n \in DOMAIN inner'.diagnostics : inner'.diagnostics[n].by = 0
        /\ inner' \in Match
        BY <2>1, HooksAssumption DEF Match
  <2>3. ~Tells(inner'.diagnostics, "accept") /\ ~Tells(inner'.diagnostics, "discard")
        BY <2>2 DEF Tells, Own
  <2>4. /\ match'.diagnostics = inner'.diagnostics \o marks
        /\ match'.accepted = inner'.accepted
        BY <2>1, <2>2 DEF Match
  <2>5. ~Tells(match'.diagnostics, "accept") /\ ~Tells(match'.diagnostics, "discard")
        BY <1>0, <2>2, <2>3, <2>4, TellsMarks, MarksTellNothing, TypedDiagnostics
  <2>6. ~Told("accept")' /\ ~Told("discard")'
        BY <2>5 DEF Told
  <2>7. OneVeto(match.diagnostics)'
        BY <2>5, SilentHasNoVeto
  <2> QED BY <1>0, <2>1, <2>4, <2>6, <2>7 DEF Accounted, Repaired
<1>4. CASE HookFails
  <2>1. pass' = "done" /\ end' = "error" /\ UNCHANGED <<hooks, at, match, marks, inner>>
        BY <1>4 DEF HookFails, Finish
  <2> QED BY <1>0, <2>1, ToldUnchanged DEF Accounted, Repaired
<1>5. CASE HookPasses
  <2>1. UNCHANGED <<hooks, pass, match, marks, inner, end>> /\ \E i \in Upcoming : at' = i
        BY <1>5 DEF HookPasses
  <2>2. at # Len(hooks)
        BY <2>1, HookTyped DEF Upcoming, TypeOK
  <2> QED BY <1>0, <2>1, <2>2, ToldUnchanged DEF Accounted, Repaired
<1>6. CASE Mark
  <2>1. /\ UNCHANGED <<hooks, pass, match, inner, end>> /\ pass \in {"before", "after"}
        /\ \E i : marks' = Append(marks, [by |-> i, says |-> "mark"])
        BY <1>6 DEF Mark
  <2>2. MarksOnly'
        BY <1>0, <2>1, TypedDiagnostics
  <2>3. /\ StillInner' /\ WhileRepairing' /\ WhileVetoing' /\ InTheEnd'
        /\ Silence' /\ EndsLast' /\ OneVeto(match.diagnostics)'
        BY <1>0, <2>1, ToldUnchanged DEF Repaired
  <2> QED BY <2>2, <2>3 DEF Accounted
<1>7. CASE Accept
  <2>1. PICK i \in Upcoming :
          match'.accepted = TRUE /\ match'.diagnostics = Leave(i, "accept")
        BY <1>7 DEF Accept
  <2>2. UNCHANGED <<hooks, pass, marks, inner, end>> /\ pass = "accept"
        BY <1>7 DEF Accept
  <2> DEFINE d == [by |-> i, says |-> "accept"]
  <2>3. d \in Diagnostic /\ Own(d, "accept") /\ ~Own(d, "discard")
        BY LeaveTyped, HookTyped, TypedDiagnostics DEF Own
  <2>4. match'.diagnostics = Append(match.diagnostics, d)
        BY <2>1 DEF Leave
  <2> HIDE DEF d
  <2>5. /\ Tells(match'.diagnostics, "accept")
        /\ Tells(match'.diagnostics, "discard") <=> Told("discard")
        BY <2>3, <2>4, TellsAppend, TypedDiagnostics DEF Told
  <2>6. Told("accept")' /\ ~Told("discard")'
        BY <1>0, <2>2, <2>5 DEF Told
  <2>7. OneVeto(match.diagnostics)'
        BY <1>0, <2>3, <2>4, OneVetoAppend, TypedDiagnostics
  <2>8. ~AcceptanceTransparent(hooks)'
        BY <2>2, OpaqueStack
  <2> QED BY <1>0, <2>1, <2>2, <2>6, <2>7, <2>8 DEF Accounted, Repaired
<1>8. CASE Discard
  <2>1. PICK i \in Upcoming :
          /\ MayAct(hooks[i], match)
          /\ match'.accepted = FALSE /\ match'.diagnostics = Leave(i, "discard")
        BY <1>8 DEF Discard
  <2>2. /\ UNCHANGED <<hooks, pass, marks, inner, end>> /\ pass = "discard"
        /\ at' = Len(hooks)
        BY <1>8 DEF Discard, LastTurn
  <2> DEFINE d == [by |-> i, says |-> "discard"]
  <2>3. d \in Diagnostic /\ ~Own(d, "accept") /\ Own(d, "discard")
        BY LeaveTyped, HookTyped, TypedDiagnostics DEF Own
  <2>4. match'.diagnostics = Append(match.diagnostics, d)
        BY <2>1 DEF Leave
  <2> HIDE DEF d
  <2>5. /\ Tells(match'.diagnostics, "accept") <=> Told("accept")
        /\ Tells(match'.diagnostics, "discard")
        BY <2>3, <2>4, TellsAppend, TypedDiagnostics DEF Told
  <2>6. (Told("accept")' <=> Told("accept")) /\ Told("discard")'
        BY <2>5 DEF Told
  <2>7. at # Len(hooks)
        BY HookTyped DEF Upcoming, TypeOK
  <2>8. OneVeto(match.diagnostics)'
        BY <1>0, <2>2, <2>3, <2>4, <2>7, OneVetoAppend, TypedDiagnostics DEF Told
  <2>9. ~AcceptanceTransparent(hooks)'
        BY <2>2, OpaqueStack
  <2> QED BY <1>0, <2>1, <2>2, <2>6, <2>8, <2>9 DEF Accounted, Repaired
<1>9. CASE Annotate
  <2>1. PICK i \in Upcoming :
          match'.accepted = match.accepted /\ match'.diagnostics = Leave(i, "annotate")
        BY <1>9 DEF Annotate, TypeOK, Match
  <2>2. UNCHANGED <<hooks, pass, marks, inner, end>> /\ pass = "annotate"
        BY <1>9 DEF Annotate
  <2> DEFINE d == [by |-> i, says |-> "annotate"]
  <2>3. d \in Diagnostic /\ ~Own(d, "accept") /\ ~Own(d, "discard")
        BY LeaveTyped, TypedDiagnostics DEF Own
  <2>4. match'.diagnostics = Append(match.diagnostics, d)
        BY <2>1 DEF Leave
  <2> HIDE DEF d
  <2>5. /\ Tells(match'.diagnostics, "accept") <=> Told("accept")
        /\ Tells(match'.diagnostics, "discard") <=> Told("discard")
        BY <2>3, <2>4, TellsAppend, TypedDiagnostics DEF Told
  <2>6. (Told("accept")' <=> Told("accept")) /\ (Told("discard")' <=> Told("discard"))
        BY <2>5 DEF Told
  <2>7. OneVeto(match.diagnostics)'
        BY <1>0, <2>3, <2>4, OneVetoAppend, TypedDiagnostics
  <2> QED BY <1>0, <2>1, <2>2, <2>6, <2>7 DEF Accounted, Repaired
<1>10. CASE Overflow
  <2>1. pass' = "done" /\ end' = "panic" /\ UNCHANGED <<hooks, at, match, marks, inner>>
        BY <1>10 DEF Overflow, Finish
  <2> QED BY <1>0, <2>1, ToldUnchanged DEF Accounted, Repaired
<1>11. CASE EndPass
  <2>1. /\ pass \in StackPasses /\ pass' = NextPass(pass, match) /\ at' = 0
        /\ end' = (IF pass = "annotate" THEN "ok" ELSE end)
        /\ UNCHANGED <<hooks, inner>>
        BY <1>11 DEF EndPass
  <2>2. CASE pass = "after"
    <3>1. /\ match' = [match EXCEPT !.diagnostics = @ \o marks] /\ marks' = <<>>
          /\ end' = end /\ pass' = (IF match.accepted THEN "discard" ELSE "accept")
          BY <1>11, <2>1, <2>2 DEF EndPass, NextPass
    <3>2. match'.diagnostics = match.diagnostics \o marks /\ match'.accepted = match.accepted
          BY <3>1 DEF TypeOK, Match
    <3>3. ~Tells(match.diagnostics, "accept") /\ ~Tells(match.diagnostics, "discard")
          BY <1>0, <2>2 DEF Told
    <3>4. ~Tells(match'.diagnostics, "accept") /\ ~Tells(match'.diagnostics, "discard")
          BY <1>0, <3>2, <3>3, TellsMarks, MarksTellNothing, TypedDiagnostics
    <3>5. ~Told("accept")' /\ ~Told("discard")'
          BY <3>4 DEF Told
    <3>6. OneVeto(match.diagnostics)'
          BY <3>4, SilentHasNoVeto
    <3> QED BY <1>0, <2>1, <2>2, <3>1, <3>2, <3>5, <3>6 DEF Accounted, Repaired
  <2>3. CASE pass # "after"
    <3>1. UNCHANGED <<match, marks>>
          BY <1>11, <2>3 DEF EndPass
    <3>2. \/ pass = "before" /\ pass' = "inner"
          \/ pass = "accept" /\ pass' = (IF match.accepted THEN "discard" ELSE "annotate")
          \/ pass = "discard" /\ pass' = "annotate"
          \/ pass = "annotate" /\ pass' = "done"
          BY <2>1, <2>3 DEF NextPass, StackPasses
    <3> QED BY <1>0, <2>1, <3>1, <3>2, ToldUnchanged DEF Accounted, Repaired
  <2> QED BY <2>2, <2>3
<1>12. CASE UNCHANGED vars
      BY <1>0, <1>12, ToldUnchanged DEF vars, Accounted, Repaired
<1> QED BY <1>1, <1>2, <1>3, <1>4, <1>5, <1>6, <1>7, <1>8, <1>9, <1>10, <1>11, <1>12 DEF Next

(* At every point of a hooked check the match's verdict is what the inner  *)
(* answer, the acceptances and the veto told so far make it (finish_match, *)
(* hooks/hooked.rs).                                                       *)
THEOREM AlwaysAccountedFor == Spec => []Accounted
<1> QED BY AccountedInit, AccountedStep, HooksTypeCorrect, PTL DEF Spec

(* What hooks left in the diagnostics is what the diagnostics tell, and    *)
(* one veto is left by one hook.                                           *)
LEMMA LeftIsTold ==
  ASSUME NEW what
  PROVE  /\ Told(what) <=> Left(what) # {}
         /\ OneVeto(match.diagnostics) => \A m, n \in Left("discard") : m = n
BY DEF Told, Tells, Own, Left, OneVeto

(* Every verdict is the one the hooks' own diagnostics tell, and there is  *)
(* one veto at most, whatever the stack.                                   *)
THEOREM VerdictsAreExplained == Spec => []VerdictExplained
<1>1. Accounted => VerdictExplained
      BY LeftIsTold DEF Accounted, InTheEnd, Repaired, VerdictExplained
<1> QED BY <1>1, AlwaysAccountedFor, PTL

(* A transparent stack keeps the inner verdict: what is_total and          *)
(* is_subshape_of of a hooked shape take for granted.                      *)
THEOREM TransparentStacksKeepVerdicts == Spec => []TransparentKeepsVerdict
<1>1. TypeOK /\ Accounted => TransparentKeepsVerdict
  <2> SUFFICES ASSUME TypeOK, Accounted, end = "ok", AcceptanceTransparent(hooks)
               PROVE  match.accepted = inner.accepted
      BY DEF TransparentKeepsVerdict
  <2>1. match.accepted <=> inner.accepted
        BY DEF Accounted, InTheEnd, Silence, Repaired
  <2>2. match.accepted \in BOOLEAN /\ inner.accepted \in BOOLEAN
        BY DEF TypeOK, Match
  <2> QED BY <2>1, <2>2
<1> QED BY <1>1, AlwaysAccountedFor, HooksTypeCorrect, PTL

-----------------------------------------------------------------------------
(* The remainders a word's arithmetic meets: of a number in range, and of  *)
(* one that is short of it by one turn.                                    *)
LEMMA Remainder ==
  ASSUME NEW m \in Nat \ {0}
  PROVE  /\ \A x \in 0..(m - 1) : x % m = x
         /\ \A x \in (-m)..(-1) : x % m = x + m
         /\ \A x \in m..(2 * m - 1) : x % m = x - m
OBVIOUS

(* A difference of words, cut to the word and added again, gives the word  *)
(* it was the difference to: a lift that overflows still lands on the      *)
(* floor.                                                                  *)
LEMMA LiftLands ==
  ASSUME NEW score \in Word, NEW floor \in Word, score < floor
  PROVE  Wrap(score + Wrap(floor - score)) = floor
<1> DEFINE gap == floor - score
<1>1. /\ Half \in Nat \ {0} /\ score \in Int /\ floor \in Int
      /\ -Half <= score /\ score < Half /\ -Half <= floor /\ floor < Half
      BY HooksAssumption DEF Word
<1>2. gap \in Int /\ gap > 0 /\ gap < 2 * Half /\ 2 * Half \in Nat \ {0}
      BY <1>1
<1> HIDE DEF gap
<1>3. CASE gap < Half
  <2>1. gap + Half \in 0..(2 * Half - 1)
        BY <1>1, <1>2, <1>3
  <2>2. Wrap(gap) = gap
        BY <1>1, <1>2, <2>1, Remainder DEF Wrap
  <2>3. score + gap = floor /\ floor + Half \in 0..(2 * Half - 1)
        BY <1>1 DEF gap
  <2> QED BY <1>1, <1>2, <2>2, <2>3, Remainder DEF Wrap, gap
<1>4. CASE gap >= Half
  <2>1. gap + Half \in (2 * Half)..(2 * (2 * Half) - 1)
        BY <1>1, <1>2, <1>4
  <2>2. Wrap(gap) = gap - 2 * Half
        BY <1>1, <1>2, <2>1, Remainder DEF Wrap
  <2>3. /\ score + (gap - 2 * Half) + Half = floor - Half
        /\ floor - Half \in (-(2 * Half))..(-1)
        BY <1>1 DEF gap
  <2>4. (floor - Half) % (2 * Half) = floor - Half + 2 * Half
        BY <1>2, <2>3, Remainder
  <2> QED BY <1>1, <2>2, <2>3, <2>4 DEF Wrap, gap
<1> QED BY <1>1, <1>2, <1>3, <1>4

(* The floors set so far and not touched by a hook of the host since.      *)
FloorBy(i, last) ==
  /\ hooks[i].kind = "annotate"
  /\ \A j \in i..last : hooks[j].kind = "annotate" => hooks[j].builtin
AboveFloors(last) ==
  match.accepted => \A i \in 1..last : FloorBy(i, last) => match.score >= hooks[i].floor
FloorsSoFar ==
  /\ pass = "annotate" => AboveFloors(at)
  /\ end = "ok" => AboveFloors(Len(hooks))

(* No floor is set before the first hook is asked.                         *)
LEMMA FloorsInit == Init => FloorsSoFar
BY DEF Init, FloorsSoFar

(* A turn in the annotate pass keeps the floors, if it leaves an accepted  *)
(* match above its own hook's floor, or is a hook's of the host, and does  *)
(* not lower the score when it is the built-in hook's.                     *)
LEMMA FloorsTurn ==
  ASSUME TypeOK, pass = "annotate", NEW i \in Upcoming, Turn(i), at' = i, AboveFloors(at),
         UNCHANGED hooks, match'.accepted = match.accepted, match'.score \in Int,
         hooks[i].builtin /\ match.accepted =>
           match'.score >= hooks[i].floor /\ match'.score >= match.score
  PROVE  AboveFloors(at)'
<1>1. /\ i \in 1..Len(hooks) /\ i > at /\ hooks[i].kind = "annotate" /\ at \in Nat
      /\ Len(hooks) \in Nat /\ i \in Nat /\ hooks \in Seq(Hook)
      BY HookTyped, HooksAssumption DEF Upcoming, Asks, TypeOK
<1>2. SUFFICES ASSUME match.accepted, NEW k \in 1..i, FloorBy(k, i)
               PROVE  match'.score >= hooks[k].floor
      BY DEF AboveFloors, FloorBy
<1>3. hooks[i].builtin
      BY <1>1, <1>2 DEF FloorBy
<1>4. CASE k = i
      BY <1>2, <1>3, <1>4
<1>5. CASE k # i
  <2>1. k <= at
    <3>1. hooks[k].kind = "annotate" /\ k \in DOMAIN hooks /\ k < i
          BY <1>1, <1>2, <1>5 DEF FloorBy
    <3>2. k \notin Upcoming
          BY <1>1, <3>1 DEF Turn
    <3> QED BY <1>1, <3>1, <3>2 DEF Upcoming, Asks
  <2>2. FloorBy(k, at)
        BY <1>1, <1>2, <2>1 DEF FloorBy
  <2>3. match.score >= hooks[k].floor
        BY <1>1, <1>2, <2>1, <2>2 DEF AboveFloors
  <2>4. match.score \in Int /\ hooks[k].floor \in Int
    <3>1. hooks[k] \in Hook
          BY <1>1
    <3> QED BY <3>1, HooksAssumption DEF TypeOK, Match, Hook, Word
  <2> QED BY <1>2, <1>3, <2>3, <2>4
<1> QED BY <1>4, <1>5

(* Every step of a hooked check keeps the floors.                          *)
LEMMA FloorsStep == TypeOK /\ FloorsSoFar /\ EndsLast /\ [Next]_vars => FloorsSoFar'
<1> SUFFICES ASSUME TypeOK, FloorsSoFar, EndsLast, [Next]_vars PROVE FloorsSoFar'
    OBVIOUS
<1>1. CASE Describe \/ InnerFails \/ InnerAnswers \/ HookFails \/ Mark \/ Accept \/ Discard
           \/ Overflow
  <2>1. pass' # "annotate" /\ end' # "ok"
        BY <1>1 DEF Describe, InnerFails, InnerAnswers, HookFails, Mark, Accept, Discard, Overflow,
                    Finish, EndsLast, StackPasses
  <2> QED BY <2>1 DEF FloorsSoFar
<1>2. CASE HookPasses
  <2>1. UNCHANGED <<hooks, pass, match, end>> /\ pass # "done"
        BY <1>2 DEF HookPasses, StackPasses
  <2>2. end' # "ok"
        BY <2>1 DEF EndsLast
  <2>3. CASE pass = "annotate"
    <3>1. PICK i \in Upcoming : Turn(i) /\ MayPass(hooks[i], match) /\ at' = i
          BY <1>2 DEF HookPasses
    <3>2. /\ hooks[i].kind = "annotate" /\ match.score \in Int /\ hooks[i].floor \in Int
          BY <2>3, HookTyped, HooksAssumption DEF Upcoming, Asks, TypeOK, Match, Hook, Word
    <3>3. hooks[i].builtin /\ match.accepted => match.score >= hooks[i].floor
          BY <3>1, <3>2 DEF MayPass, Acts
    <3>4. AboveFloors(at)'
          BY <2>1, <2>3, <3>1, <3>2, <3>3, FloorsTurn DEF FloorsSoFar
    <3> QED BY <2>2, <3>4 DEF FloorsSoFar
  <2> QED BY <2>1, <2>2, <2>3 DEF FloorsSoFar
<1>3. CASE Annotate
  <2>1. UNCHANGED <<hooks, pass, end>> /\ pass = "annotate" /\ end' # "ok"
        BY <1>3 DEF Annotate, EndsLast
  <2>2. PICK i \in Upcoming : \E delta \in Added(hooks[i]) :
          /\ Turn(i) /\ MayAct(hooks[i], match) /\ at' = i
          /\ match' = [match EXCEPT !.score = Wrap(@ + Wrap(delta)),
                                    !.diagnostics = Leave(i, "annotate")]
        BY <1>3 DEF Annotate
  <2>3. PICK delta \in Added(hooks[i]) :
          match' = [match EXCEPT !.score = Wrap(@ + Wrap(delta)),
                                 !.diagnostics = Leave(i, "annotate")]
        BY <2>2
  <2>4. /\ match'.accepted = match.accepted
        /\ match'.score = Wrap(match.score + Wrap(delta))
        BY <2>3 DEF TypeOK, Match
  <2>5. /\ hooks[i].kind = "annotate" /\ match.score \in Word /\ hooks[i].floor \in Word
        /\ Word \subseteq Int
        BY <2>1, HookTyped, HooksAssumption DEF Upcoming, Asks, TypeOK, Match, Hook, Word
  <2>6. match'.score \in Int
    <3>1. delta \in Int
          BY <2>5, HooksAssumption DEF Added, Lift
    <3>2. Wrap(delta) \in Int
          BY <3>1, <2>5, WrapInWord
    <3>3. match.score + Wrap(delta) \in Int
      <4>1. match.score \in Int
            BY <2>5
      <4> QED BY <3>2, <4>1
    <3>4. Wrap(match.score + Wrap(delta)) \in Word
          BY <3>3, WrapInWord
    <3> QED BY <2>4, <2>5, <3>4
  <2>7. ASSUME hooks[i].builtin, match.accepted
        PROVE  match'.score >= hooks[i].floor /\ match'.score >= match.score
    <3>1. match.score < hooks[i].floor /\ delta = hooks[i].floor - match.score
          BY <2>2, <2>3, <2>5, <2>7 DEF MayAct, Acts, Added, Lift
    <3>2. match'.score = hooks[i].floor
          BY <2>4, <2>5, <3>1, LiftLands
    <3>3. hooks[i].floor \in Int /\ match.score \in Int
          BY <2>5
    <3> QED BY <3>1, <3>2, <3>3
  <2>8. AboveFloors(at)'
        BY <2>1, <2>2, <2>4, <2>6, <2>7, FloorsTurn DEF FloorsSoFar
  <2> QED BY <2>1, <2>8 DEF FloorsSoFar
<1>4. CASE EndPass
  <2>1. CASE pass = "annotate"
    <3>1. UNCHANGED <<hooks, match>> /\ pass' = "done"
          BY <1>4, <2>1 DEF EndPass, NextPass
    <3>2. Upcoming = {} /\ AboveFloors(at) /\ at \in 0..Len(hooks) /\ Len(hooks) \in Nat
          /\ DOMAIN hooks = 1..Len(hooks)
          BY <1>4, <2>1, HooksAssumption DEF EndPass, FloorsSoFar, TypeOK
    <3>3. ASSUME match.accepted, NEW k \in 1..Len(hooks), FloorBy(k, Len(hooks))
          PROVE  match.score >= hooks[k].floor
      <4>1. k <= at
            BY <2>1, <3>2, <3>3 DEF Upcoming, Asks, FloorBy
      <4>2. FloorBy(k, at)
            BY <3>2, <3>3, <4>1 DEF FloorBy
      <4> QED BY <3>2, <3>3, <4>1, <4>2 DEF AboveFloors
    <3> QED BY <3>1, <3>3 DEF FloorsSoFar, AboveFloors, FloorBy
  <2>2. CASE pass # "annotate"
    <3>1. at' = 0 /\ end' = end /\ pass # "done"
          BY <1>4, <2>2 DEF EndPass, StackPasses
    <3>2. AboveFloors(at)'
          BY <3>1 DEF AboveFloors
    <3> QED BY <3>1, <3>2 DEF FloorsSoFar, EndsLast
  <2> QED BY <2>1, <2>2
<1>5. CASE UNCHANGED vars
      BY <1>5 DEF vars, FloorsSoFar, AboveFloors, FloorBy
<1> QED BY <1>1, <1>2, <1>3, <1>4, <1>5 DEF Next

(* An accepted match is above every floor no hook of the host annotated    *)
(* after, for every word size and however the lifts overflow               *)
(* (ScoreFloorHook, hooks/types.rs).                                       *)
THEOREM FloorsHold == Spec => []FloorHolds
<1>1. TypeOK /\ FloorsSoFar => FloorHolds
  <2> SUFFICES ASSUME TypeOK, FloorsSoFar, end = "ok", match.accepted, NEW i \in DOMAIN hooks,
                      FloorBy(i, Len(hooks))
               PROVE  match.score >= hooks[i].floor
      BY DEF FloorHolds, FloorBy
  <2>1. i \in 1..Len(hooks)
        BY HooksAssumption DEF TypeOK
  <2> QED BY <2>1 DEF FloorsSoFar, AboveFloors
<1>2. Accounted => EndsLast
      BY DEF Accounted
<1> QED BY <1>1, <1>2, FloorsInit, FloorsStep, HooksTypeCorrect, AlwaysAccountedFor, PTL DEF Spec

-----------------------------------------------------------------------------
(* The calls made so far, and which hooks have had theirs.                 *)
InOrder ==
  \A m, n \in DOMAIN calls : m < n =>
    \/ Order(calls[m].pass) < Order(calls[n].pass)
    \/ calls[m].pass = calls[n].pass /\ calls[m].hook < calls[n].hook
Behind ==
  \A n \in DOMAIN calls :
    \/ Order(calls[n].pass) < Order(pass)
    \/ calls[n].pass = pass /\ calls[n].hook <= at

AskedUpTo(p, last) == \A i \in 1..last : hooks[i].kind = Asks(p) => WasAsked(p, i)
Past(passes) == pass \in passes \/ end = "ok"

MarksAsked ==
  /\ pass = "describe" => at = 0
  /\ pass = "before" => AskedUpTo("before", at)
  /\ Past({"inner", "after", "accept", "discard", "annotate"}) => AskedUpTo("before", Len(hooks))
  /\ pass = "after" => AskedUpTo("after", at)
  /\ Past({"accept", "discard", "annotate"}) => AskedUpTo("after", Len(hooks))
AcceptsAsked ==
  /\ inner.accepted => pass # "accept" /\ \A i : ~WasAsked("accept", i)
  /\ pass = "accept" => AskedUpTo("accept", at)
  /\ Past({"discard", "annotate"}) /\ ~inner.accepted => AskedUpTo("accept", Len(hooks))
AnnotatesAsked ==
  /\ pass = "annotate" => AskedUpTo("annotate", at)
  /\ end = "ok" => AskedUpTo("annotate", Len(hooks))

IsDiscard(i) == i \in DOMAIN hooks /\ hooks[i].kind = "discard"
DiscardsAsked ==
  /\ pass = "discard" =>
       \A i : IsDiscard(i) => (WasAsked("discard", i) <=> i <= at /\ ~Vetoed(i - 1))
  /\ Past({"annotate"}) =>
       \A i : IsDiscard(i) => (WasAsked("discard", i) <=> Repaired /\ ~Vetoed(i - 1))

(* A hook is asked: its call is noted, and either the pass goes on behind  *)
(* it or the check ends badly.                                             *)
Asking(i) ==
  /\ pass \in StackPasses /\ Turn(i) /\ Asked(i) /\ UNCHANGED <<hooks, inner>>
  /\ \/ pass' = "done" /\ end' # "ok"
     \/ UNCHANGED <<pass, end>> /\ at' \in i..Len(hooks) /\ (pass # "discard" => at' = i)

(* All the steps that ask a hook.                                          *)
LEMMA AskingSteps ==
  ASSUME TypeOK, HookFails \/ HookPasses \/ Mark \/ Accept \/ Discard \/ Annotate \/ Overflow
  PROVE  \E i \in Upcoming : Asking(i)
<1>1. \A i \in Upcoming : i \in i..Len(hooks) /\ Len(hooks) \in i..Len(hooks)
  <2> TAKE i \in Upcoming
  <2>1. i \in 1..Len(hooks) /\ Len(hooks) \in Nat /\ i \in Nat
        BY HookTyped
  <2> QED BY <2>1
<1>2. CASE HookFails
      BY <1>2 DEF HookFails, Asking, Finish
<1>3. CASE HookPasses
      BY <1>1, <1>3 DEF HookPasses, Asking
<1>4. CASE Mark
      BY <1>1, <1>4 DEF Mark, Asking, StackPasses
<1>5. CASE Accept
      BY <1>1, <1>5 DEF Accept, Asking, StackPasses
<1>6. CASE Discard
      BY <1>1, <1>6 DEF Discard, LastTurn, Asking, StackPasses
<1>7. CASE Annotate
      BY <1>1, <1>7 DEF Annotate, Asking, StackPasses
<1>8. CASE Overflow
      BY <1>8 DEF Overflow, Asking, Finish, StackPasses
<1> QED BY <1>2, <1>3, <1>4, <1>5, <1>6, <1>7, <1>8

(* What noting a call does to the calls made.                              *)
LEMMA CallNoted ==
  ASSUME TypeOK, NEW i, Asked(i)
  PROVE  /\ DOMAIN calls' = 1..(Len(calls) + 1) /\ DOMAIN calls = 1..Len(calls)
         /\ Len(calls) \in Nat
         /\ \A n \in DOMAIN calls : calls'[n] = calls[n]
         /\ calls'[Len(calls) + 1] = [pass |-> pass, hook |-> i]
         /\ \A p, k : WasAsked(p, k)' <=> WasAsked(p, k) \/ (p = pass /\ k = i)
<1>1. calls \in Seq([pass: Passes, hook: Nat])
      BY DEF TypeOK
<1>2. /\ DOMAIN calls' = 1..(Len(calls) + 1) /\ DOMAIN calls = 1..Len(calls)
      /\ Len(calls) \in Nat
      /\ \A n \in DOMAIN calls : calls'[n] = calls[n]
      /\ calls'[Len(calls) + 1] = [pass |-> pass, hook |-> i]
      BY <1>1 DEF Asked
<1>3. ASSUME NEW p, NEW k
      PROVE  WasAsked(p, k)' <=> WasAsked(p, k) \/ (p = pass /\ k = i)
  <2>1. WasAsked(p, k)' <=> \E n \in 1..(Len(calls) + 1) : calls'[n] = [pass |-> p, hook |-> k]
        BY <1>2 DEF WasAsked
  <2>2. [pass |-> pass, hook |-> i] = [pass |-> p, hook |-> k] <=> p = pass /\ k = i
    <3> DEFINE a == [pass |-> pass, hook |-> i]  b == [pass |-> p, hook |-> k]
    <3>1. a.pass = pass /\ a.hook = i /\ b.pass = p /\ b.hook = k
          OBVIOUS
    <3>2. a = b => p = pass /\ k = i
      <4> HIDE DEF a, b
      <4> QED BY <3>1
    <3> QED BY <3>2
  <2>3. \A n \in 1..(Len(calls) + 1) : n \in DOMAIN calls \/ n = Len(calls) + 1
        BY <1>2
  <2> QED BY <1>2, <2>1, <2>2, <2>3 DEF WasAsked
<1> QED BY <1>2, <1>3

(* The passes follow one another.                                          *)
LEMMA PassOrder ==
  /\ Order("describe") = 0 /\ Order("before") = 1 /\ Order("inner") = 2 /\ Order("after") = 3
  /\ Order("accept") = 4 /\ Order("discard") = 5 /\ Order("annotate") = 6 /\ Order("done") = 7
  /\ \A p \in Passes : Order(p) \in Int
BY DEF Order, Passes, StackPasses

(* A call in order keeps the calls in order.                               *)
LEMMA OrderAsking ==
  ASSUME TypeOK, InOrder, Behind, NEW i \in Upcoming, Asking(i)
  PROVE  InOrder' /\ Behind'
<1>1. /\ i \in Nat /\ i > at /\ at \in Nat /\ Order(pass) \in Int /\ Order(pass) < Order("done")
      BY HookTyped, PassOrder DEF Upcoming, TypeOK, Asking, StackPasses
<1>2. \A n \in DOMAIN calls : Order(calls[n].pass) \in Int /\ calls[n].hook \in Nat
  <2> DEFINE Call == [pass: Passes, hook: Nat]
  <2>1. calls \in Seq(Call)
        BY DEF TypeOK
  <2>2. \A n \in DOMAIN calls : calls[n] \in Call
    <3> HIDE DEF Call
    <3> QED BY <2>1
  <2> QED BY <2>2, PassOrder
<1>3. /\ DOMAIN calls' = 1..(Len(calls) + 1) /\ DOMAIN calls = 1..Len(calls)
      /\ Len(calls) \in Nat
      /\ \A n \in DOMAIN calls : calls'[n] = calls[n]
      /\ calls'[Len(calls) + 1].pass = pass /\ calls'[Len(calls) + 1].hook = i
  <2>1. /\ DOMAIN calls' = 1..(Len(calls) + 1) /\ DOMAIN calls = 1..Len(calls)
        /\ Len(calls) \in Nat
        /\ \A n \in DOMAIN calls : calls'[n] = calls[n]
        /\ calls'[Len(calls) + 1] = [pass |-> pass, hook |-> i]
        BY CallNoted DEF Asking
  <2> QED BY <2>1
<1>4. InOrder'
  <2> SUFFICES ASSUME NEW m \in DOMAIN calls', NEW n \in DOMAIN calls', m < n
               PROVE  \/ Order(calls'[m].pass) < Order(calls'[n].pass)
                      \/ calls'[m].pass = calls'[n].pass /\ calls'[m].hook < calls'[n].hook
      BY DEF InOrder
  <2>1. m \in DOMAIN calls
        BY <1>3
  <2>2. CASE n \in DOMAIN calls
        BY <1>3, <2>1, <2>2 DEF InOrder
  <2>3. CASE n = Len(calls) + 1
        BY <1>1, <1>2, <1>3, <2>1, <2>3 DEF Behind
  <2> QED BY <1>3, <2>2, <2>3
<1>5. Behind'
  <2> SUFFICES ASSUME NEW n \in DOMAIN calls'
               PROVE  \/ Order(calls'[n].pass) < Order(pass')
                      \/ calls'[n].pass = pass' /\ calls'[n].hook <= at'
      BY DEF Behind
  <2>1. \/ Order(calls'[n].pass) < Order(pass)
        \/ calls'[n].pass = pass /\ calls'[n].hook <= i
    <3>1. CASE n \in DOMAIN calls
          BY <1>1, <1>2, <1>3, <3>1 DEF Behind
    <3>2. CASE n = Len(calls) + 1
          BY <1>1, <1>3, <3>2
    <3> QED BY <1>3, <3>1, <3>2
  <2>2. calls'[n].hook \in Nat /\ Order(calls'[n].pass) \in Int
        BY <1>1, <1>2, <1>3
  <2>3. CASE pass' = "done"
        BY <1>1, <2>1, <2>2, <2>3, PassOrder
  <2>4. CASE pass' = pass /\ at' \in i..Len(hooks)
        BY <1>1, <2>1, <2>2, <2>4
  <2> QED BY <2>3, <2>4 DEF Asking
<1> QED BY <1>4, <1>5

(* Nothing was asked in a pass not reached.                                *)
LEMMA NotYetAsked ==
  ASSUME TypeOK, Behind, NEW p \in Passes, Order(pass) < Order(p)
  PROVE  \A i : ~WasAsked(p, i)
<1>1. Order(pass) \in Int /\ Order(p) \in Int
      BY PassOrder DEF TypeOK
<1> SUFFICES ASSUME NEW n \in DOMAIN calls, calls[n].pass = p PROVE FALSE
    BY DEF WasAsked
<1> QED BY <1>1 DEF Behind

(* A pass is over when all its hooks had their turn.                       *)
LEMMA PassOver ==
  ASSUME TypeOK, pass \in StackPasses, Upcoming = {}, AskedUpTo(pass, at)
  PROVE  AskedUpTo(pass, Len(hooks))
<1>1. /\ DOMAIN hooks = 1..Len(hooks) /\ Len(hooks) \in Nat /\ at \in Nat
      BY HooksAssumption DEF TypeOK
<1> SUFFICES ASSUME NEW i \in 1..Len(hooks), hooks[i].kind = Asks(pass)
             PROVE  WasAsked(pass, i)
    BY DEF AskedUpTo
<1>2. i <= at
      BY <1>1 DEF Upcoming
<1> QED BY <1>1, <1>2 DEF AskedUpTo

(* A turn brings the calls of its pass up to the hook, if it goes on.      *)
LEMMA TurnAsked ==
  ASSUME TypeOK, NEW i \in Upcoming, Asking(i), AskedUpTo(pass, at)
  PROVE  pass' = pass => AskedUpTo(pass, i)'
<1>1. /\ i \in 1..Len(hooks) /\ i \in Nat /\ i > at /\ at \in Nat /\ Len(hooks) \in Nat
      /\ DOMAIN hooks = 1..Len(hooks)
      BY HookTyped, HooksAssumption DEF Upcoming, TypeOK
<1>2. \A p, k : WasAsked(p, k)' <=> WasAsked(p, k) \/ (p = pass /\ k = i)
      BY CallNoted DEF Asking
<1>3. ASSUME NEW k \in 1..i, hooks[k].kind = Asks(pass)
      PROVE  WasAsked(pass, k) \/ k = i
  <2>1. k <= at \/ k = i
        BY <1>1, <1>3 DEF Asking, Turn, Upcoming
  <2> QED BY <1>1, <1>3, <2>1 DEF AskedUpTo
<1> QED BY <1>2, <1>3 DEF AskedUpTo, Asking

(* Calls stay made: what was asked stays asked.                            *)
LEMMA AskedKept ==
  ASSUME TypeOK, UNCHANGED hooks, UNCHANGED calls \/ (\E i : Asked(i)), NEW p, NEW last,
         AskedUpTo(p, last)
  PROVE  AskedUpTo(p, last)'
<1>1. \A k : WasAsked(p, k) => WasAsked(p, k)'
  <2>1. CASE UNCHANGED calls
        BY <2>1 DEF WasAsked
  <2>2. CASE \E i : Asked(i)
        BY <2>2, CallNoted
  <2> QED BY <2>1, <2>2
<1> QED BY <1>1 DEF AskedUpTo

(* A pass that ends is followed by a later one.                            *)
LEMMA PassAdvances ==
  ASSUME TypeOK, EndPass
  PROVE  Order(pass) < Order(pass')
<1>1. pass \in StackPasses /\ pass' = NextPass(pass, match)
      BY DEF EndPass
<1> QED BY <1>1, PassOrder DEF NextPass, StackPasses

(* A later pass without a new call keeps the calls in order.               *)
LEMMA OrderAdvance ==
  ASSUME TypeOK, InOrder, Behind, UNCHANGED calls, pass' \in Passes, Order(pass) < Order(pass')
  PROVE  InOrder' /\ Behind'
<1>1. Order(pass) \in Int /\ Order(pass') \in Int
      BY PassOrder DEF TypeOK
<1>2. \A n \in DOMAIN calls : Order(calls[n].pass) \in Int
  <2> DEFINE Call == [pass: Passes, hook: Nat]
  <2>1. calls \in Seq(Call)
        BY DEF TypeOK
  <2>2. \A n \in DOMAIN calls : calls[n] \in Call
    <3> HIDE DEF Call
    <3> QED BY <2>1
  <2> QED BY <2>2, PassOrder
<1> QED BY <1>1, <1>2 DEF InOrder, Behind

(* Every step of a hooked check keeps the calls in order.                  *)
LEMMA OrderStep == TypeOK /\ TypeOK' /\ InOrder /\ Behind /\ [Next]_vars => InOrder' /\ Behind'
<1> SUFFICES ASSUME TypeOK, TypeOK', InOrder, Behind, [Next]_vars PROVE InOrder' /\ Behind'
    OBVIOUS
<1>1. CASE HookFails \/ HookPasses \/ Mark \/ Accept \/ Discard \/ Annotate \/ Overflow
      BY <1>1, AskingSteps, OrderAsking
<1>2. CASE Describe \/ InnerFails \/ InnerAnswers
  <2>1. UNCHANGED calls /\ Order(pass) < Order(pass')
        BY <1>2, PassOrder DEF Describe, InnerFails, InnerAnswers, Finish
  <2> QED BY <2>1, OrderAdvance DEF TypeOK
<1>3. CASE EndPass
  <2>1. UNCHANGED calls
        BY <1>3 DEF EndPass
  <2> QED BY <1>3, <2>1, PassAdvances, OrderAdvance DEF TypeOK
<1>4. CASE UNCHANGED vars
      BY <1>4 DEF vars, InOrder, Behind
<1> QED BY <1>1, <1>2, <1>3, <1>4 DEF Next

(* What the mark, accept and annotate hooks are owed by the time a pass is *)
(* reached.                                                                *)
Reached == MarksAsked /\ AcceptsAsked /\ AnnotatesAsked

(* A hook asked in its turn keeps what the passes so far owe.              *)
LEMMA ReachedAsking ==
  ASSUME TypeOK, EndsLast, Reached, NEW i \in Upcoming, Asking(i)
  PROVE  Reached'
<1>1. /\ pass \in StackPasses /\ UNCHANGED <<hooks, inner>> /\ end # "ok" /\ end' # "ok"
      /\ Asked(i)
      BY DEF Asking, EndsLast, StackPasses
<1>2. \A p, last : AskedUpTo(p, last) => AskedUpTo(p, last)'
      BY <1>1, AskedKept
<1>3. \A p, k : WasAsked(p, k)' <=> WasAsked(p, k) \/ (p = pass /\ k = i)
      BY <1>1, CallNoted
<1>4. CASE pass' = "done"
      BY <1>1, <1>3, <1>4 DEF Reached, MarksAsked, AcceptsAsked, AnnotatesAsked, Past
<1>5. CASE pass' = pass /\ (pass # "discard" => at' = i)
  <2>1. pass # "discard" /\ AskedUpTo(pass, at) => AskedUpTo(pass, at)'
    <3> SUFFICES ASSUME pass # "discard", AskedUpTo(pass, at) PROVE AskedUpTo(pass, at)'
        OBVIOUS
    <3>1. AskedUpTo(pass, i)' /\ at' = i
          BY <1>5, TurnAsked
    <3> QED BY <3>1 DEF AskedUpTo
  <2>2. AskedUpTo("before", Len(hooks)) => AskedUpTo("before", Len(hooks))'
        BY <1>1, <1>2 DEF AskedUpTo
  <2>3. AskedUpTo("after", Len(hooks)) => AskedUpTo("after", Len(hooks))'
        BY <1>1, <1>2 DEF AskedUpTo
  <2>4. AskedUpTo("accept", Len(hooks)) => AskedUpTo("accept", Len(hooks))'
        BY <1>1, <1>2 DEF AskedUpTo
  <2>5. MarksAsked'
        BY <1>1, <1>5, <2>1, <2>2, <2>3 DEF Reached, MarksAsked, Past, StackPasses
  <2>6. AcceptsAsked'
        BY <1>1, <1>3, <1>5, <2>1, <2>4 DEF Reached, AcceptsAsked, Past
  <2>7. AnnotatesAsked'
        BY <1>1, <1>5, <2>1 DEF Reached, AnnotatesAsked
  <2> QED BY <2>5, <2>6, <2>7 DEF Reached
<1> QED BY <1>4, <1>5 DEF Asking

(* Every step of a hooked check keeps what the passes so far owe.          *)
LEMMA ReachedStep ==
  TypeOK /\ Accounted /\ Behind /\ Reached /\ [Next]_vars => Reached'
<1> SUFFICES ASSUME TypeOK, Accounted, Behind, Reached, [Next]_vars PROVE Reached'
    OBVIOUS
<1>0. EndsLast /\ StillInner
      BY DEF Accounted
<1>1. CASE HookFails \/ HookPasses \/ Mark \/ Accept \/ Discard \/ Annotate \/ Overflow
      BY <1>0, <1>1, AskingSteps, ReachedAsking
<1>2. CASE Describe
  <2>1. /\ pass = "describe" /\ pass' = "before" /\ at' = at /\ end' = end
        /\ UNCHANGED <<hooks, inner, calls>> /\ end # "ok"
        BY <1>0, <1>2 DEF Describe, EndsLast
  <2>2. \A i : ~WasAsked("accept", i)'
    <3>1. \A i : ~WasAsked("accept", i)
          BY <2>1, NotYetAsked, PassOrder DEF Passes, StackPasses
    <3> QED BY <2>1, <3>1 DEF WasAsked
  <2>3. at = 0
        BY <2>1 DEF Reached, MarksAsked
  <2> QED BY <2>1, <2>2, <2>3 DEF Reached, MarksAsked, AcceptsAsked, AnnotatesAsked, Past, AskedUpTo
<1>3. CASE InnerFails
  <2>1. /\ pass' = "done" /\ end' = "error" /\ UNCHANGED <<hooks, inner, calls>>
        BY <1>3 DEF InnerFails, Finish
  <2> QED BY <2>1 DEF Reached, MarksAsked, AcceptsAsked, AnnotatesAsked, Past, WasAsked
<1>4. CASE InnerAnswers
  <2>1. /\ pass = "inner" /\ pass' = "after" /\ at' = 0 /\ UNCHANGED <<hooks, calls, end>>
        /\ end # "ok"
        BY <1>0, <1>4 DEF InnerAnswers, EndsLast
  <2>2. \A i : ~WasAsked("accept", i)'
    <3>1. \A i : ~WasAsked("accept", i)
          BY <2>1, NotYetAsked, PassOrder DEF Passes, StackPasses
    <3> QED BY <2>1, <3>1 DEF WasAsked
  <2>3. AskedUpTo("before", Len(hooks))'
    <3>1. AskedUpTo("before", Len(hooks))
          BY <2>1 DEF Reached, MarksAsked, Past
    <3> QED BY <2>1, <3>1 DEF AskedUpTo, WasAsked
  <2>4. AskedUpTo("after", at)'
        BY <2>1 DEF AskedUpTo
  <2> QED BY <2>1, <2>2, <2>3, <2>4 DEF Reached, MarksAsked, AcceptsAsked, AnnotatesAsked, Past
<1>5. CASE EndPass
  <2>1. /\ pass \in StackPasses /\ pass' = NextPass(pass, match) /\ at' = 0 /\ Upcoming = {}
        /\ end' = (IF pass = "annotate" THEN "ok" ELSE end)
        /\ UNCHANGED <<hooks, inner, calls>> /\ end # "ok"
        BY <1>0, <1>5 DEF EndPass, EndsLast, StackPasses
  <2>2. \A p : UNCHANGED AskedUpTo(p, Len(hooks))
        BY <2>1 DEF AskedUpTo, WasAsked
  <2>3. \A p : AskedUpTo(p, at)'
        BY <2>1 DEF AskedUpTo
  <2>4. AskedUpTo(pass, at) => AskedUpTo(pass, Len(hooks))
        BY <2>1, PassOver
  <2>5. \A p, k : UNCHANGED WasAsked(p, k)
        BY <2>1 DEF WasAsked
  <2>6. /\ pass = "before" => pass' = "inner"
        /\ pass = "after" => pass' = (IF match.accepted THEN "discard" ELSE "accept")
        /\ pass = "accept" => pass' = (IF match.accepted THEN "discard" ELSE "annotate")
        /\ pass = "discard" => pass' = "annotate"
        /\ pass = "annotate" => pass' = "done"
        BY <2>1 DEF NextPass
  <2>7. MarksAsked'
        BY <2>1, <2>2, <2>3, <2>4, <2>6 DEF Reached, MarksAsked, Past, StackPasses
  <2>8. AcceptsAsked'
        BY <1>0, <2>1, <2>2, <2>3, <2>4, <2>5, <2>6
        DEF Reached, AcceptsAsked, Past, StackPasses, StillInner
  <2>9. AnnotatesAsked'
        BY <2>1, <2>2, <2>3, <2>4, <2>6 DEF Reached, AnnotatesAsked, StackPasses
  <2> QED BY <2>7, <2>8, <2>9 DEF Reached
<1>6. CASE UNCHANGED vars
      BY <1>6
      DEF vars, Reached, MarksAsked, AcceptsAsked, AnnotatesAsked, Past, AskedUpTo, WasAsked
<1> QED BY <1>1, <1>2, <1>3, <1>4, <1>5, <1>6 DEF Next

-----------------------------------------------------------------------------
(* What discard hooks are owed: to be asked up to the first veto.          *)
VetoBy(diags, i) == \E n \in DOMAIN diags : Own(diags[n], "discard") /\ diags[n].by <= i

(* What appending one diagnostic does to the vetoes.                       *)
LEMMA VetoAppend ==
  ASSUME NEW diags \in Seq(Diagnostic), NEW d \in Diagnostic, NEW i
  PROVE  VetoBy(Append(diags, d), i) <=> VetoBy(diags, i) \/ (Own(d, "discard") /\ d.by <= i)
<1> DEFINE longer == Append(diags, d)
<1>1. /\ DOMAIN longer = 1..(Len(diags) + 1) /\ DOMAIN diags = 1..Len(diags)
      /\ longer[Len(diags) + 1] = d
      /\ \A n \in DOMAIN diags : longer[n] = diags[n]
      OBVIOUS
<1>2. Len(diags) \in Nat
      OBVIOUS
<1> QED BY <1>1, <1>2 DEF VetoBy

(* A match is vetoed up to a hook when its diagnostics say so; without a   *)
(* veto told, no hook vetoed.                                              *)
LEMMA VetoedIsTold ==
  ASSUME NEW i
  PROVE  (Vetoed(i) <=> VetoBy(match.diagnostics, i)) /\ (~Told("discard") => ~Vetoed(i))
BY DEF Vetoed, VetoBy, Left, Own, Told, Tells

(* A diagnostic that is no veto leaves the vetoes as they are.             *)
LEMMA VetoesKept ==
  ASSUME TypeOK, NEW j \in Upcoming, NEW what \in Said, what # "discard",
         match'.diagnostics = Leave(j, what)
  PROVE  \A i : Vetoed(i)' <=> Vetoed(i)
<1> DEFINE d == [by |-> j, says |-> what]
<1>1. d \in Diagnostic /\ ~Own(d, "discard") /\ match.diagnostics \in Seq(Diagnostic)
      BY LeaveTyped, TypedDiagnostics DEF Own
<1>2. match'.diagnostics = Append(match.diagnostics, d)
      BY DEF Leave
<1> HIDE DEF d
<1>3. \A i : VetoBy(match'.diagnostics, i) <=> VetoBy(match.diagnostics, i)
      BY <1>1, <1>2, VetoAppend
<1> QED BY <1>3 DEF Vetoed, VetoBy, Left, Own

(* Every step of a hooked check keeps to that.                             *)
LEMMA DiscardsStep ==
  TypeOK /\ Accounted /\ Accounted' /\ Behind /\ DiscardsAsked /\ [Next]_vars => DiscardsAsked'
<1> SUFFICES ASSUME TypeOK, Accounted, Accounted', Behind, DiscardsAsked, [Next]_vars
             PROVE  DiscardsAsked'
    OBVIOUS
<1>0. EndsLast /\ StillInner /\ WhileRepairing /\ WhileVetoing /\ StillInner' /\ InTheEnd'
      /\ WhileVetoing'
      BY DEF Accounted
<1>1. CASE Describe \/ InnerFails \/ InnerAnswers \/ HookFails \/ Mark \/ Accept \/ Overflow
  <2>1. pass' \notin {"discard", "annotate"} /\ end' # "ok"
        BY <1>0, <1>1 DEF Describe, InnerFails, InnerAnswers, HookFails, Mark, Accept, Overflow,
                          Finish, EndsLast, StackPasses
  <2> QED BY <2>1 DEF DiscardsAsked, Past
<1>2. CASE HookPasses
  <2>1. /\ UNCHANGED <<hooks, pass, match, inner, end>> /\ end # "ok"
        BY <1>0, <1>2 DEF HookPasses, EndsLast, StackPasses
  <2>2. PICK j \in Upcoming : Turn(j) /\ Asked(j) /\ at' = j
        BY <1>2 DEF HookPasses
  <2>3. \A p, k : WasAsked(p, k)' <=> WasAsked(p, k) \/ (p = pass /\ k = j)
        BY <2>2, CallNoted
  <2>4. /\ j \in Nat /\ j > at /\ j <= Len(hooks) /\ at \in Nat /\ hooks[j].kind = Asks(pass)
        /\ Len(hooks) \in Nat /\ DOMAIN hooks = 1..Len(hooks)
        BY HookTyped, HooksAssumption DEF Upcoming, TypeOK
  <2>5. \A i : (Vetoed(i)' <=> Vetoed(i)) /\ (IsDiscard(i)' <=> IsDiscard(i))
        BY <2>1 DEF Vetoed, Left, IsDiscard
  <2>6. Repaired' <=> Repaired
        BY <2>1, ToldUnchanged DEF Repaired
  <2>7. CASE pass = "discard"
    <3>0. at # Len(hooks)
          BY HookTyped DEF Upcoming, TypeOK
    <3>1. ~Told("discard")
          BY <1>0, <2>7, <3>0 DEF WhileVetoing
    <3>2. ASSUME NEW i, IsDiscard(i) PROVE WasAsked("discard", i)' <=> i <= j
      <4>1. WasAsked("discard", i) <=> i <= at
            BY <2>7, <3>1, <3>2, VetoedIsTold DEF DiscardsAsked
      <4>2. i \in Nat /\ (i > at => i >= j)
            BY <2>2, <2>4, <2>7, <3>2 DEF IsDiscard, Turn, Upcoming, Asks
      <4> QED BY <2>3, <2>4, <2>7, <4>1, <4>2
    <3>3. \A i : ~Vetoed(i)
          BY <3>1, VetoedIsTold
    <3> QED BY <2>1, <2>2, <2>5, <2>7, <3>2, <3>3 DEF DiscardsAsked, Past
  <2>8. CASE pass # "discard"
    <3>1. \A i : WasAsked("discard", i)' <=> WasAsked("discard", i)
          BY <2>3, <2>8
    <3> QED BY <2>1, <2>5, <2>6, <2>8, <3>1 DEF DiscardsAsked, Past
  <2> QED BY <2>7, <2>8
<1>3. CASE Discard
  <2>1. /\ UNCHANGED <<hooks, pass, inner, end>> /\ pass = "discard" /\ end # "ok"
        /\ at' = Len(hooks)
        BY <1>0, <1>3 DEF Discard, LastTurn, EndsLast
  <2>2. PICK j \in Upcoming :
          Turn(j) /\ Asked(j) /\ match'.diagnostics = Leave(j, "discard")
        BY <1>3 DEF Discard
  <2>3. \A p, k : WasAsked(p, k)' <=> WasAsked(p, k) \/ (p = pass /\ k = j)
        BY <2>2, CallNoted
  <2>4. /\ j \in Nat /\ j > at /\ j <= Len(hooks) /\ at \in Nat /\ hooks[j].kind = "discard"
        /\ Len(hooks) \in Nat /\ DOMAIN hooks = 1..Len(hooks)
        BY <2>1, HookTyped, HooksAssumption DEF Upcoming, Asks, TypeOK
  <2>5. ~Told("discard")
        BY <1>0, <2>1, <2>4 DEF WhileVetoing
  <2> DEFINE d == [by |-> j, says |-> "discard"]
  <2>6. /\ d \in Diagnostic /\ match.diagnostics \in Seq(Diagnostic) /\ d.by = j
        /\ Own(d, "discard")
        BY <2>4, LeaveTyped, TypedDiagnostics DEF Own
  <2>7. match'.diagnostics = Append(match.diagnostics, d)
        BY <2>2 DEF Leave
  <2> HIDE DEF d
  <2>8. \A i : Vetoed(i)' <=> j <= i
    <3>1. \A i : VetoBy(match'.diagnostics, i) <=> VetoBy(match.diagnostics, i) \/ j <= i
          BY <2>6, <2>7, VetoAppend
    <3>2. \A i : ~VetoBy(match.diagnostics, i)
          BY <2>5, VetoedIsTold
    <3> QED BY <3>1, <3>2 DEF Vetoed, VetoBy, Left, Own
  <2>9. ASSUME NEW i, IsDiscard(i)
        PROVE  WasAsked("discard", i)' <=> i <= at' /\ ~Vetoed(i - 1)'
    <3>1. WasAsked("discard", i) <=> i <= at
          BY <2>1, <2>5, <2>9, VetoedIsTold DEF DiscardsAsked
    <3>2. i \in 1..Len(hooks) /\ (i > at => i >= j)
          BY <2>1, <2>2, <2>4, <2>9 DEF IsDiscard, Turn, Upcoming, Asks
    <3>3. Vetoed(i - 1)' <=> j <= i - 1
          BY <2>8
    <3> QED BY <2>1, <2>3, <2>4, <3>1, <3>2, <3>3
  <2> QED BY <2>1, <2>9 DEF DiscardsAsked, Past, IsDiscard
<1>4. CASE Annotate
  <2>1. /\ UNCHANGED <<hooks, pass, inner, end>> /\ pass = "annotate" /\ end # "ok"
        BY <1>0, <1>4 DEF Annotate, EndsLast
  <2>2. PICK j \in Upcoming : Asked(j) /\ match'.diagnostics = Leave(j, "annotate")
        BY <1>4 DEF Annotate, TypeOK, Match
  <2>3. \A i : WasAsked("discard", i)' <=> WasAsked("discard", i)
        BY <2>1, <2>2, CallNoted
  <2>4. \A i : Vetoed(i)' <=> Vetoed(i)
        BY <2>2, VetoesKept, TypedDiagnostics
  <2> DEFINE d == [by |-> j, says |-> "annotate"]
  <2>5. /\ d \in Diagnostic /\ match.diagnostics \in Seq(Diagnostic) /\ ~Own(d, "accept")
        BY LeaveTyped, TypedDiagnostics DEF Own
  <2>6. match'.diagnostics = Append(match.diagnostics, d)
        BY <2>2 DEF Leave
  <2> HIDE DEF d
  <2>7. Tells(match'.diagnostics, "accept") <=> Tells(match.diagnostics, "accept")
        BY <2>5, <2>6, TellsAppend, TypedDiagnostics
  <2>8. Repaired' <=> Repaired
        BY <2>1, <2>7 DEF Repaired, Told
  <2> QED BY <2>1, <2>3, <2>4, <2>8 DEF DiscardsAsked, Past, IsDiscard
<1>5. CASE EndPass
  <2>1. /\ pass \in StackPasses /\ pass' = NextPass(pass, match) /\ at' = 0 /\ Upcoming = {}
        /\ end' = (IF pass = "annotate" THEN "ok" ELSE end)
        /\ UNCHANGED <<hooks, inner, calls>> /\ end # "ok"
        BY <1>0, <1>5 DEF EndPass, EndsLast, StackPasses
  <2>2. \A i : (WasAsked("discard", i)' <=> WasAsked("discard", i))
               /\ (IsDiscard(i)' <=> IsDiscard(i))
        BY <2>1 DEF WasAsked, IsDiscard
  <2>3. \A i : IsDiscard(i) => i \in Nat /\ i > 0 /\ i <= Len(hooks)
        BY HooksAssumption DEF IsDiscard, TypeOK
  <2>4. CASE pass = "before"
        BY <2>1, <2>4 DEF NextPass, DiscardsAsked, Past
  <2>5. CASE pass \in {"after", "accept"}
    <3>1. \A i : ~WasAsked("discard", i)'
          BY <2>2, <2>5, NotYetAsked, PassOrder DEF Passes, StackPasses
    <3>2. pass' = "discard" => DiscardsAsked'
          BY <2>1, <2>2, <2>3, <2>5, <3>1 DEF DiscardsAsked, Past
    <3>3. pass' = "annotate" => pass = "accept" /\ UNCHANGED match /\ ~match.accepted
          BY <1>5, <2>1, <2>5 DEF EndPass, NextPass
    <3>4. pass' = "annotate" => ~Repaired'
          BY <1>0, <2>1, <3>3, ToldUnchanged DEF WhileRepairing, Repaired
    <3>5. pass' = "annotate" => DiscardsAsked'
          BY <2>1, <3>1, <3>4 DEF DiscardsAsked, Past
    <3>6. pass' \in {"accept", "discard", "annotate"} /\ end' # "ok"
          BY <2>1, <2>5 DEF NextPass
    <3>7. pass' = "accept" => DiscardsAsked'
          BY <3>6 DEF DiscardsAsked, Past
    <3> QED BY <3>2, <3>5, <3>6, <3>7
  <2>6. CASE pass \in {"discard", "annotate"}
    <3>1. UNCHANGED match
          BY <1>5, <2>6 DEF EndPass
    <3>2. \A i : Vetoed(i)' <=> Vetoed(i)
          BY <3>1 DEF Vetoed, Left
    <3>3. Repaired' <=> Repaired
          BY <2>1, <3>1, ToldUnchanged DEF Repaired
    <3>4. CASE pass = "discard"
      <4>1. pass' = "annotate" /\ Repaired /\ end' # "ok"
            BY <1>0, <2>1, <3>4 DEF NextPass, WhileVetoing
      <4>2. \A i : IsDiscard(i) => i <= at
            BY <2>1, <2>3, <3>4 DEF IsDiscard, Upcoming, Asks, TypeOK
      <4> QED BY <2>2, <3>2, <3>3, <3>4, <4>1, <4>2 DEF DiscardsAsked, Past
    <3>5. CASE pass = "annotate"
      <4>1. pass' = "done"
            BY <2>1, <3>5 DEF NextPass
      <4> QED BY <2>2, <3>2, <3>3, <3>5, <4>1 DEF DiscardsAsked, Past
    <3> QED BY <2>6, <3>4, <3>5
  <2> QED BY <2>1, <2>4, <2>5, <2>6 DEF StackPasses
<1>6. CASE UNCHANGED vars
      BY <1>6, ToldUnchanged DEF vars, DiscardsAsked, Past, WasAsked, Vetoed, Left, IsDiscard, Repaired
<1> QED BY <1>1, <1>2, <1>3, <1>4, <1>5, <1>6 DEF Next

(* No hook is asked before the check begins.                               *)
LEMMA CallsInit == Init => InOrder /\ Behind /\ Reached /\ DiscardsAsked
BY DEF Init, InOrder, Behind, Reached, MarksAsked, AcceptsAsked, AnnotatesAsked, DiscardsAsked, Past,
       WasAsked

(* Hooks are asked pass by pass, in order and none twice in a pass; a      *)
(* check that ends well asked every hook it owed the question and no       *)
(* other, whatever the stack (HookedShape::finish_match, hooks/hooked.rs). *)
THEOREM HooksAreAsked == Spec => []HooksAsked
<1> DEFINE Owed == InOrder /\ Behind /\ Reached /\ DiscardsAsked
<1>1. Owed /\ TypeOK /\ TypeOK' /\ Accounted /\ Accounted' /\ [Next]_vars => Owed'
      BY OrderStep, ReachedStep, DiscardsStep
<1>2. Owed /\ TypeOK => HooksAsked
  <2> SUFFICES ASSUME Owed, TypeOK, end = "ok", NEW i \in DOMAIN hooks
               PROVE  /\ hooks[i].kind = "mark" => WasAsked("before", i) /\ WasAsked("after", i)
                      /\ hooks[i].kind = "annotate" => WasAsked("annotate", i)
                      /\ hooks[i].kind = "accept" => (WasAsked("accept", i) <=> ~inner.accepted)
                      /\ hooks[i].kind = "discard" =>
                           (WasAsked("discard", i) <=>
                              (inner.accepted \/ Left("accept") # {}) /\ (Vetoed(i) => ~Vetoed(i - 1)))
      BY DEF HooksAsked, InOrder
  <2>1. i \in 1..Len(hooks) /\ i \in Nat
        BY HooksAssumption DEF TypeOK
  <2>2. hooks[i].kind = "mark" => WasAsked("before", i) /\ WasAsked("after", i)
        BY <2>1 DEF Reached, MarksAsked, Past, AskedUpTo, Asks
  <2>3. hooks[i].kind = "annotate" => WasAsked("annotate", i)
        BY <2>1 DEF Reached, AnnotatesAsked, AskedUpTo, Asks
  <2>4. hooks[i].kind = "accept" => (WasAsked("accept", i) <=> ~inner.accepted)
        BY <2>1 DEF Reached, AcceptsAsked, Past, AskedUpTo, Asks
  <2>5. Vetoed(i - 1) => Vetoed(i)
    <3>1. \A n \in DOMAIN match.diagnostics : match.diagnostics[n] \in Diagnostic
          BY TypedDiagnostics
    <3>2. \A n \in DOMAIN match.diagnostics : match.diagnostics[n].by \in Nat
          BY <3>1 DEF Diagnostic
    <3> QED BY <2>1, <3>2 DEF Vetoed, Left
  <2>6. Repaired <=> inner.accepted \/ Left("accept") # {}
        BY LeftIsTold DEF Repaired
  <2>7. hooks[i].kind = "discard" =>
          (WasAsked("discard", i) <=>
             (inner.accepted \/ Left("accept") # {}) /\ (Vetoed(i) => ~Vetoed(i - 1)))
        BY <2>5, <2>6 DEF DiscardsAsked, Past, IsDiscard
  <2> QED BY <2>2, <2>3, <2>4, <2>7
<1> QED BY <1>1, <1>2, CallsInit, HooksTypeCorrect, AlwaysAccountedFor, PTL DEF Spec

-----------------------------------------------------------------------------
(* A stack of built-in hooks, pass by pass: what its diagnostics say, and  *)
(* what that lets the hooks do.                                            *)
Sayings(diags) == {diags[n].says : n \in DOMAIN diags}
AllHeard == InnerSaid \cup (IF Has("mark") THEN {"mark"} ELSE {})
Repairs == ~inner.accepted /\ AllHeard = {} /\ Has("accept")
AllTold == IF Repairs THEN {"accept"} ELSE AllHeard
NoneUpTo(kind, last) == \A i \in DOMAIN hooks : hooks[i].kind = kind => i > last
Watched(i) == hooks[i].kind = "discard" /\ hooks[i].prefix \cap AllTold # {}

WhileMarking ==
  /\ pass = "describe" => at = 0
  /\ marks # <<>> => Has("mark")
  /\ pass = "before" => marks # <<>> \/ NoneUpTo("mark", at)
  /\ pass = "inner" => marks # <<>> \/ ~Has("mark")
  /\ pass = "after" => Sayings(match.diagnostics) = AllHeard
WhileQuiet ==
  pass = "accept" =>
    IF match.accepted THEN Repairs /\ Sayings(match.diagnostics) = AllTold
    ELSE /\ ~inner.accepted /\ Sayings(match.diagnostics) = AllHeard
         /\ AllHeard = {} => NoneUpTo("accept", at)
WhileWatching ==
  pass = "discard" =>
    IF match.accepted
    THEN /\ inner.accepted \/ Repairs
         /\ Sayings(match.diagnostics) = AllTold
         /\ \A i \in DOMAIN hooks : i <= at => ~Watched(i)
    ELSE at = Len(hooks) /\ \E i \in DOMAIN hooks : Watched(i)
Decided == Past({"annotate"}) => (match.accepted <=> Verdict(AllHeard))
StackSoFar == BuiltIn => WhileMarking /\ WhileQuiet /\ WhileWatching /\ Decided

(* The verdict of a stack in these terms.                                  *)
LEMMA VerdictIs ==
  Verdict(AllHeard) <=> (inner.accepted \/ Repairs) /\ \A i \in DOMAIN hooks : ~Watched(i)
BY DEF Verdict, Repairs, Watched, AllTold

(* What one more diagnostic, and the marks, add to what is said.           *)
LEMMA SayingsAppend ==
  ASSUME NEW diags \in Seq(Diagnostic), NEW d \in Diagnostic
  PROVE  Sayings(Append(diags, d)) = Sayings(diags) \cup {d.says}
<1> DEFINE longer == Append(diags, d)
<1>1. /\ DOMAIN longer = 1..(Len(diags) + 1) /\ DOMAIN diags = 1..Len(diags)
      /\ longer[Len(diags) + 1] = d
      /\ \A n \in DOMAIN diags : longer[n] = diags[n]
      OBVIOUS
<1>2. Len(diags) \in Nat
      OBVIOUS
<1>3. \A n : n \in DOMAIN longer <=> n \in DOMAIN diags \/ n = Len(diags) + 1
      BY <1>1, <1>2
<1> HIDE DEF longer
<1>4. Sayings(longer) = Sayings(diags) \cup {d.says}
  <2>1. \A x : x \in Sayings(longer) <=> \E n \in DOMAIN longer : x = longer[n].says
        BY DEF Sayings
  <2>2. \A x : x \in Sayings(diags) <=> \E n \in DOMAIN diags : x = diags[n].says
        BY DEF Sayings
  <2>3. \A x : x \in Sayings(longer) <=> x \in Sayings(diags) \/ x = d.says
        BY <1>1, <1>3, <2>1, <2>2
  <2> QED BY <2>3
<1> QED BY <1>4 DEF longer

(* Two sequences of diagnostics say together what each of them says.       *)
LEMMA SayingsConcat ==
  ASSUME NEW diags \in Seq(Diagnostic), NEW more \in Seq(Diagnostic)
  PROVE  Sayings(diags \o more) = Sayings(diags) \cup Sayings(more)
<1> DEFINE longer == diags \o more
<1>1. /\ DOMAIN longer = 1..(Len(diags) + Len(more))
      /\ DOMAIN diags = 1..Len(diags) /\ DOMAIN more = 1..Len(more)
      /\ \A n \in DOMAIN diags : longer[n] = diags[n]
      /\ \A n \in DOMAIN more : longer[Len(diags) + n] = more[n]
      OBVIOUS
<1>2. Len(diags) \in Nat /\ Len(more) \in Nat
      OBVIOUS
<1>3. \A n \in DOMAIN longer : n \in DOMAIN diags \/ \E m \in DOMAIN more : n = Len(diags) + m
  <2> SUFFICES ASSUME NEW n \in DOMAIN longer, n \notin DOMAIN diags
               PROVE  \E m \in DOMAIN more : n = Len(diags) + m
      OBVIOUS
  <2>1. n - Len(diags) \in DOMAIN more /\ n = Len(diags) + (n - Len(diags))
        BY <1>1, <1>2
  <2> QED BY <2>1
<1>4. \A n \in DOMAIN diags : n \in DOMAIN longer
      BY <1>1, <1>2
<1>5. \A m \in DOMAIN more : Len(diags) + m \in DOMAIN longer
      BY <1>1, <1>2
<1> HIDE DEF longer
<1>6. Sayings(longer) \subseteq Sayings(diags) \cup Sayings(more)
      BY <1>1, <1>3 DEF Sayings
<1>7. Sayings(diags) \subseteq Sayings(longer)
      BY <1>1, <1>4 DEF Sayings
<1>8. Sayings(more) \subseteq Sayings(longer)
      BY <1>1, <1>5 DEF Sayings
<1>9. Sayings(longer) = Sayings(diags) \cup Sayings(more)
      BY <1>6, <1>7, <1>8
<1> QED BY <1>9 DEF longer

(* Marks say nothing but that they are marks, and silence is to have none. *)
LEMMA SayingsOfMarks ==
  ASSUME TypeOK, MarksOnly
  PROVE  Sayings(marks) = IF marks = <<>> THEN {} ELSE {"mark"}
<1>1. marks \in Seq(Diagnostic)
      BY DEF TypeOK
<1>2. CASE marks = <<>>
      BY <1>2 DEF Sayings
<1>3. CASE marks # <<>>
  <2>1. 1 \in DOMAIN marks
        BY <1>1, <1>3
  <2>2. \A x : x \in Sayings(marks) <=> \E n \in DOMAIN marks : x = marks[n].says
        BY DEF Sayings
  <2>3. \A x : x \in Sayings(marks) <=> x = "mark"
        BY <2>1, <2>2 DEF MarksOnly
  <2> QED BY <1>3, <2>3
<1> QED BY <1>2, <1>3

(* The built-in accept hook acts on a silent rejection, the discard hook   *)
(* on an acceptance that says a word it watches.                           *)
LEMMA BuiltInActs ==
  ASSUME TypeOK, NEW i \in Upcoming
  PROVE  /\ hooks[i].kind = "accept" =>
              (Acts(hooks[i], match) <=> ~match.accepted /\ Sayings(match.diagnostics) = {})
         /\ hooks[i].kind = "discard" =>
              (Acts(hooks[i], match) <=>
                 match.accepted /\ hooks[i].prefix \cap Sayings(match.diagnostics) # {})
<1>1. match.diagnostics \in Seq(Diagnostic)
      BY DEF TypeOK, Match
<1>2. match.diagnostics = <<>> <=> Sayings(match.diagnostics) = {}
  <2>1. match.diagnostics # <<>> => 1 \in DOMAIN match.diagnostics
        BY <1>1
  <2>2. match.diagnostics = <<>> => DOMAIN match.diagnostics = {}
        OBVIOUS
  <2> QED BY <2>1, <2>2 DEF Sayings
<1>3. \A S : Heard(match, S) <=> S \cap Sayings(match.diagnostics) # {}
      BY DEF Heard, Sayings
<1> QED BY <1>2, <1>3 DEF Acts, QuietRejection

(* A stack is silent before its first hook is asked.                       *)
LEMMA StackInit == Init => StackSoFar
BY DEF Init, StackSoFar, WhileMarking, WhileQuiet, WhileWatching, Decided, Past

(* A turn of a pass without a hook of the kind before it.                  *)
LEMMA NoneBefore ==
  ASSUME TypeOK, NEW i \in Upcoming, Turn(i), NoneUpTo(Asks(pass), i)
  PROVE  FALSE
<1>1. i \in DOMAIN hooks /\ hooks[i].kind = Asks(pass) /\ i \in Nat
      BY HookTyped DEF Upcoming
<1> QED BY <1>1 DEF NoneUpTo

(* What hooks are still to come in a pass that has come to an end: none.   *)
LEMMA NoneLeft ==
  ASSUME TypeOK, Upcoming = {}, NoneUpTo(Asks(pass), at)
  PROVE  ~Has(Asks(pass))
BY DEF Upcoming, NoneUpTo, Has

(* Every step of a hooked check of built-in hooks keeps to what its        *)
(* diagnostics say.                                                        *)
LEMMA StackStep == TypeOK /\ TypeOK' /\ Accounted /\ StackSoFar /\ [Next]_vars => StackSoFar'
<1> SUFFICES ASSUME TypeOK, TypeOK', Accounted, StackSoFar, [Next]_vars, BuiltIn'
             PROVE  (WhileMarking /\ WhileQuiet /\ WhileWatching /\ Decided)'
    BY DEF StackSoFar
<1>0. /\ MarksOnly /\ StillInner /\ WhileRepairing /\ EndsLast /\ UNCHANGED hooks
      /\ WhileMarking /\ WhileQuiet /\ WhileWatching /\ Decided
      /\ \A i \in DOMAIN hooks : hooks[i].builtin
  <2>1. UNCHANGED hooks
        BY DEF Next, vars, Describe, InnerFails, InnerAnswers, HookFails, HookPasses, Mark, Accept,
               Discard, Annotate, Overflow, EndPass
  <2>2. BuiltIn
        BY <2>1 DEF BuiltIn
  <2> QED BY <2>1, <2>2 DEF Accounted, StackSoFar, BuiltIn
<1>a. /\ Has("mark")' <=> Has("mark")
      /\ Has("accept")' <=> Has("accept")
      /\ \A k, last : NoneUpTo(k, last)' <=> NoneUpTo(k, last)
      BY <1>0 DEF Has, NoneUpTo
<1>b. ASSUME UNCHANGED inner
      PROVE  /\ AllHeard' = AllHeard /\ AllTold' = AllTold /\ (Repairs' <=> Repairs)
             /\ \A i : Watched(i)' <=> Watched(i)
             /\ Verdict(AllHeard)' <=> Verdict(AllHeard)
  <2>1. AllHeard' = AllHeard
        BY <1>a, <1>b DEF AllHeard, InnerSaid
  <2>2. Repairs' <=> Repairs
        BY <1>a, <1>b, <2>1 DEF Repairs
  <2>3. AllTold' = AllTold
        BY <2>1, <2>2 DEF AllTold
  <2>4. \A i : Watched(i)' <=> Watched(i)
        BY <1>0, <2>3 DEF Watched
  <2>5. Verdict(AllHeard)' <=> Verdict(AllHeard)
        BY <1>0, <1>b, <2>1 DEF Verdict, Has
  <2> QED BY <2>1, <2>2, <2>3, <2>4, <2>5
<1>c. \A i \in Upcoming : i \in DOMAIN hooks /\ i > at /\ hooks[i].kind = Asks(pass)
                          /\ hooks[i].builtin /\ i \in Nat /\ i <= Len(hooks)
      BY <1>0, HookTyped DEF Upcoming
<1>1. CASE Describe
  <2>1. pass' = "before" /\ pass = "describe" /\ UNCHANGED <<at, marks, end>> /\ end # "ok"
        BY <1>0, <1>1 DEF Describe, EndsLast
  <2>2. at' = 0
        BY <1>0, <2>1 DEF WhileMarking
  <2>3. NoneUpTo("mark", 0)
        BY HooksAssumption DEF NoneUpTo, TypeOK
  <2> QED BY <1>0, <1>a, <2>1, <2>2, <2>3
          DEF WhileMarking, WhileQuiet, WhileWatching, Decided, Past
<1>2. CASE InnerFails \/ HookFails \/ Overflow
  <2>1. pass' = "done" /\ end' # "ok" /\ UNCHANGED marks
        BY <1>2 DEF InnerFails, HookFails, Overflow, Finish
  <2> QED BY <1>0, <1>a, <2>1 DEF WhileMarking, WhileQuiet, WhileWatching, Decided, Past
<1>3. CASE InnerAnswers
  <2>1. /\ pass = "inner" /\ pass' = "after" /\ marks' = <<>> /\ UNCHANGED end /\ end # "ok"
        /\ inner' \in Inners /\ match' = [inner' EXCEPT !.diagnostics = @ \o marks]
        BY <1>0, <1>3 DEF InnerAnswers, EndsLast
  <2>2. inner'.diagnostics \in Seq(Diagnostic) /\ inner' \in Match /\ marks \in Seq(Diagnostic)
        BY <2>1, HooksAssumption DEF Match, TypeOK
  <2>3. match'.diagnostics = inner'.diagnostics \o marks
        BY <2>1, <2>2 DEF Match
  <2>4. Sayings(match'.diagnostics) = Sayings(inner'.diagnostics) \cup Sayings(marks)
        BY <2>2, <2>3, SayingsConcat
  <2>5. Sayings(marks) = IF Has("mark") THEN {"mark"} ELSE {}
        BY <1>0, <2>1, SayingsOfMarks DEF WhileMarking
  <2>6. Sayings(inner'.diagnostics) = InnerSaid'
        BY DEF Sayings, InnerSaid
  <2>7. Sayings(match.diagnostics)' = AllHeard'
    <3>1. AllHeard' = InnerSaid' \cup (IF Has("mark") THEN {"mark"} ELSE {})
          BY <1>a DEF AllHeard
    <3>2. Sayings(match.diagnostics)' = Sayings(match'.diagnostics)
          BY DEF Sayings
    <3> QED BY <2>4, <2>5, <2>6, <3>1, <3>2
  <2> QED BY <2>1, <2>7 DEF WhileMarking, WhileQuiet, WhileWatching, Decided, Past
<1>4. CASE HookPasses
  <2>1. UNCHANGED <<pass, match, marks, inner, end>> /\ pass \in StackPasses /\ end # "ok"
        BY <1>0, <1>4 DEF HookPasses, EndsLast, StackPasses
  <2>2. PICK j \in Upcoming : Turn(j) /\ MayPass(hooks[j], match) /\ at' = j
        BY <1>4 DEF HookPasses
  <2>3. ~Acts(hooks[j], match) /\ hooks[j].kind = Asks(pass) /\ j \in DOMAIN hooks
        BY <1>c, <2>2 DEF MayPass
  <2>4. \A k \in DOMAIN hooks : hooks[k].kind = Asks(pass) => k <= at \/ k >= j
        BY HooksAssumption, <2>2 DEF Turn, Upcoming, TypeOK
  <2>5. pass \notin {"before", "after"}
        BY <2>3 DEF Acts, Asks
  <2>6. Sayings(match.diagnostics)' = Sayings(match.diagnostics)
        BY <2>1 DEF Sayings
  <2>7. WhileMarking'
        BY <1>0, <1>a, <2>1, <2>5 DEF WhileMarking, StackPasses
  <2>8. WhileQuiet'
    <3> SUFFICES ASSUME pass = "accept" PROVE WhileQuiet'
        BY <2>1 DEF WhileQuiet
    <3>1. ~match.accepted => Sayings(match.diagnostics) # {}
          BY <2>3, BuiltInActs DEF Asks
    <3> QED BY <1>0, <1>b, <2>1, <2>6, <3>1 DEF WhileQuiet
  <2>9. WhileWatching'
    <3> SUFFICES ASSUME pass = "discard" PROVE WhileWatching'
        BY <2>1 DEF WhileWatching
    <3>1. match.accepted
      <4>1. at # Len(hooks)
            BY HookTyped DEF Upcoming, TypeOK
      <4> QED BY <1>0, <4>1 DEF WhileWatching
    <3>2. ~Watched(j)
          BY <1>0, <2>3, <3>1, BuiltInActs DEF Asks, WhileWatching, Watched
    <3>3. \A k \in DOMAIN hooks : k <= j => ~Watched(k)
      <4> SUFFICES ASSUME NEW k \in DOMAIN hooks, k <= j, Watched(k) PROVE FALSE
          OBVIOUS
      <4>1. k <= at \/ k >= j
            BY <2>4 DEF Watched, Asks
      <4>2. k \in Nat /\ j \in Nat
            BY <1>c, HooksAssumption DEF TypeOK
      <4>3. k = j \/ k <= at
            BY <4>1, <4>2
      <4> QED BY <1>0, <3>1, <3>2, <4>3 DEF WhileWatching
    <3> QED BY <1>0, <1>b, <2>1, <2>2, <2>6, <3>1, <3>3 DEF WhileWatching
  <2>10. Decided'
        BY <1>0, <1>b, <2>1 DEF Decided, Past
  <2> QED BY <2>7, <2>8, <2>9, <2>10
<1>5. CASE Mark
  <2>1. /\ UNCHANGED <<pass, match, inner, end>> /\ pass \in {"before", "after"} /\ end # "ok"
        BY <1>0, <1>5 DEF Mark, EndsLast
  <2>2. PICK j \in Upcoming : marks' = Append(marks, [by |-> j, says |-> "mark"])
        BY <1>5 DEF Mark
  <2>3. Has("mark")
        BY <1>c, <2>1 DEF Has, Asks
  <2>4. marks' # <<>>
        BY <2>2 DEF TypeOK
  <2>5. Sayings(match.diagnostics)' = Sayings(match.diagnostics)
        BY <2>1 DEF Sayings
  <2> QED BY <1>0, <1>a, <1>b, <2>1, <2>3, <2>4, <2>5
          DEF WhileMarking, WhileQuiet, WhileWatching, Decided, Past
<1>6. CASE Accept
  <2>1. UNCHANGED <<pass, marks, inner, end>> /\ pass = "accept" /\ end # "ok"
        BY <1>0, <1>6 DEF Accept, EndsLast
  <2>2. PICK j \in Upcoming :
          MayAct(hooks[j], match) /\ match'.accepted = TRUE /\ match'.diagnostics = Leave(j, "accept")
        BY <1>6 DEF Accept
  <2>3. ~match.accepted /\ Sayings(match.diagnostics) = {}
        BY <1>c, <2>1, <2>2, BuiltInActs DEF MayAct, Asks
  <2>4. Repairs
        BY <1>0, <1>c, <2>1, <2>3 DEF WhileQuiet, Repairs, Has, Asks
  <2> DEFINE d == [by |-> j, says |-> "accept"]
  <2>5. d \in Diagnostic /\ d.says = "accept" /\ match.diagnostics \in Seq(Diagnostic)
        BY LeaveTyped, TypedDiagnostics
  <2>6. match'.diagnostics = Append(match.diagnostics, d)
        BY <2>2 DEF Leave
  <2> HIDE DEF d
  <2>7. Sayings(match'.diagnostics) = {"accept"}
        BY <2>3, <2>5, <2>6, SayingsAppend
  <2>8. Sayings(match.diagnostics)' = AllTold'
        BY <1>b, <2>1, <2>4, <2>7 DEF AllTold, Sayings
  <2> QED BY <1>0, <1>a, <1>b, <2>1, <2>2, <2>4, <2>8
          DEF WhileMarking, WhileQuiet, WhileWatching, Decided, Past
<1>7. CASE Discard
  <2>1. /\ UNCHANGED <<pass, marks, inner, end>> /\ pass = "discard" /\ end # "ok"
        /\ at' = Len(hooks)
        BY <1>0, <1>7 DEF Discard, LastTurn, EndsLast
  <2>2. PICK j \in Upcoming : MayAct(hooks[j], match) /\ match'.accepted = FALSE
        BY <1>7 DEF Discard
  <2>3. match.accepted /\ hooks[j].prefix \cap Sayings(match.diagnostics) # {}
        BY <1>c, <2>1, <2>2, BuiltInActs DEF MayAct, Asks
  <2>4. Watched(j) /\ j \in DOMAIN hooks
        BY <1>0, <1>c, <2>1, <2>3 DEF WhileWatching, Watched, Asks
  <2> QED BY <1>0, <1>a, <1>b, <2>1, <2>2, <2>4
          DEF WhileMarking, WhileQuiet, WhileWatching, Decided, Past
<1>8. CASE Annotate
  <2>1. UNCHANGED <<pass, marks, inner, end>> /\ pass = "annotate" /\ end # "ok"
        BY <1>0, <1>8 DEF Annotate, EndsLast
  <2>2. match'.accepted = match.accepted
        BY <1>8 DEF Annotate, TypeOK, Match
  <2> QED BY <1>0, <1>a, <1>b, <2>1, <2>2
          DEF WhileMarking, WhileQuiet, WhileWatching, Decided, Past
<1>9. CASE EndPass
  <2>1. /\ pass \in StackPasses /\ pass' = NextPass(pass, match) /\ at' = 0 /\ Upcoming = {}
        /\ end' = (IF pass = "annotate" THEN "ok" ELSE end)
        /\ UNCHANGED inner /\ end # "ok"
        BY <1>0, <1>9 DEF EndPass, EndsLast, StackPasses
  <2>2. \A i \in DOMAIN hooks : i \in Nat /\ i > 0
        BY HooksAssumption DEF TypeOK
  <2>3. CASE pass = "after"
    <3>1. /\ match' = [match EXCEPT !.diagnostics = @ \o marks] /\ marks' = <<>>
          /\ end' = end /\ pass' = (IF match.accepted THEN "discard" ELSE "accept")
          BY <1>9, <2>1, <2>3 DEF EndPass, NextPass
    <3>2. /\ match'.diagnostics = match.diagnostics \o marks /\ match'.accepted = match.accepted
          /\ match.diagnostics \in Seq(Diagnostic) /\ marks \in Seq(Diagnostic)
          BY <3>1 DEF TypeOK, Match
    <3>3. Sayings(match'.diagnostics) = Sayings(match.diagnostics) \cup Sayings(marks)
          BY <3>2, SayingsConcat
    <3>4. Sayings(marks) \subseteq AllHeard
          BY <1>0, SayingsOfMarks DEF WhileMarking, AllHeard
    <3>5. Sayings(match.diagnostics)' = AllHeard'
      <4>1. Sayings(match.diagnostics) = AllHeard
            BY <1>0, <2>3 DEF WhileMarking
      <4> QED BY <1>b, <2>1, <3>3, <3>4, <4>1 DEF Sayings
    <3>6. match.accepted <=> inner.accepted
          BY <1>0, <2>3 DEF StillInner
    <3>7. inner.accepted => ~Repairs /\ AllTold = AllHeard
          BY DEF Repairs, AllTold
    <3>8. \A k : NoneUpTo(k, 0)
          BY <2>2 DEF NoneUpTo
    <3>9. WhileQuiet'
          BY <1>a, <1>b, <2>1, <3>1, <3>2, <3>5, <3>6, <3>8 DEF WhileQuiet
    <3>10. WhileWatching'
          BY <1>0, <1>b, <2>1, <2>2, <3>1, <3>2, <3>5, <3>6, <3>7 DEF WhileWatching
    <3> QED BY <2>1, <3>1, <3>9, <3>10 DEF WhileMarking, Decided, Past
  <2>4. CASE pass # "after"
    <3>1. UNCHANGED <<match, marks>>
          BY <1>9, <2>4 DEF EndPass
    <3>2. Sayings(match.diagnostics)' = Sayings(match.diagnostics)
          BY <3>1 DEF Sayings
    <3>3. CASE pass = "before"
      <4>1. pass' = "inner" /\ end' # "ok"
            BY <2>1, <3>3 DEF NextPass
      <4>2. marks # <<>> \/ ~Has("mark")
            BY <1>0, <2>1, <3>3, NoneLeft DEF WhileMarking, Asks
      <4> QED BY <1>0, <1>a, <3>1, <4>1, <4>2
              DEF WhileMarking, WhileQuiet, WhileWatching, Decided, Past
    <3>4. CASE pass = "accept"
      <4>1. pass' = (IF match.accepted THEN "discard" ELSE "annotate") /\ end' # "ok"
            BY <2>1, <3>4 DEF NextPass
      <4>2. CASE match.accepted
            BY <1>0, <1>a, <1>b, <2>1, <2>2, <3>1, <3>2, <3>4, <4>1, <4>2
            DEF WhileMarking, WhileQuiet, WhileWatching, Decided, Past
      <4>3. CASE ~match.accepted
        <5>1. ~inner.accepted /\ ~Repairs
              BY <1>0, <2>1, <3>4, <4>3, NoneLeft DEF WhileQuiet, Repairs, Asks
        <5>2. ~Verdict(AllHeard)
              BY <5>1, VerdictIs
        <5> QED BY <1>0, <1>a, <1>b, <2>1, <3>1, <4>1, <4>3, <5>2
                DEF WhileMarking, WhileQuiet, WhileWatching, Decided, Past
      <4> QED BY <4>2, <4>3
    <3>5. CASE pass = "discard"
      <4>1. pass' = "annotate" /\ end' # "ok"
            BY <2>1, <3>5 DEF NextPass
      <4>2. \A i \in DOMAIN hooks : hooks[i].kind = "discard" => i <= at
            BY <2>1, <2>2, <3>5 DEF Upcoming, Asks, TypeOK
      <4>3. match.accepted => Verdict(AllHeard)
            BY <1>0, <3>5, <4>2, VerdictIs DEF WhileWatching, Watched
      <4>4. ~match.accepted => ~Verdict(AllHeard)
            BY <1>0, <3>5, VerdictIs DEF WhileWatching
      <4> QED BY <1>0, <1>a, <1>b, <2>1, <3>1, <4>1, <4>3, <4>4
              DEF WhileMarking, WhileQuiet, WhileWatching, Decided, Past
    <3>6. CASE pass = "annotate"
      <4>1. pass' = "done"
            BY <2>1, <3>6 DEF NextPass
      <4> QED BY <1>0, <1>a, <1>b, <2>1, <3>1, <3>6, <4>1
              DEF WhileMarking, WhileQuiet, WhileWatching, Decided, Past
    <3> QED BY <2>1, <2>4, <3>3, <3>4, <3>5, <3>6 DEF StackPasses
  <2> QED BY <2>3, <2>4
<1>10. CASE UNCHANGED vars
  <2>1. UNCHANGED <<pass, at, match, marks, inner, end>>
        BY <1>10 DEF vars
  <2>2. Sayings(match.diagnostics)' = Sayings(match.diagnostics)
        BY <2>1 DEF Sayings
  <2> QED BY <1>0, <1>a, <1>b, <2>1, <2>2
          DEF WhileMarking, WhileQuiet, WhileWatching, Decided, Past
<1> QED BY <1>1, <1>2, <1>3, <1>4, <1>5, <1>6, <1>7, <1>8, <1>9, <1>10 DEF Next

(* A stack of built-in hooks answers what their docs tell: a quiet         *)
(* rejection is repaired, then an acceptance that says a watched word is   *)
(* vetoed (AcceptHook and DiscardHook, hooks/types.rs).                    *)
THEOREM VerdictIsOfTheStack == Spec => []VerdictOfStack
<1>1. TypeOK /\ StackSoFar => VerdictOfStack
  <2> SUFFICES ASSUME TypeOK, StackSoFar, end = "ok", BuiltIn
               PROVE  match.accepted = Verdict(AllHeard)
      BY DEF VerdictOfStack, AllHeard
  <2>1. match.accepted <=> Verdict(AllHeard)
        BY DEF StackSoFar, Decided, Past
  <2>2. match.accepted \in BOOLEAN
        BY DEF TypeOK, Match
  <2>3. Verdict(AllHeard) \in BOOLEAN
        BY DEF Verdict
  <2> QED BY <2>1, <2>2, <2>3
<1> QED BY <1>1, StackInit, StackStep, HooksTypeCorrect, AlwaysAccountedFor, PTL DEF Spec
=============================================================================
