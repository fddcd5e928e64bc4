------------------------------- MODULE Hooks -------------------------------
(***************************************************************************)
(* HookedShape: a shape whose checks are wrapped by an ordered stack of    *)
(* match hooks.  One check runs the mark hooks, the inner shape, the mark  *)
(* hooks again, then the accept hooks (if the match is rejected), the      *)
(* discard hooks (if it is accepted) and the annotate hooks.  Every hook   *)
(* sees what the hooks before it made of the match, so the verdict depends *)
(* on the order of the passes and on the diagnostics earlier hooks left.   *)
(*                                                                         *)
(* The built-in hook of every kind follows its own rule; a hook of the     *)
(* host is left open: it passes (or answers with another kind's decision,  *)
(* which the pass ignores), takes a decision of its kind, or fails.        *)
(***************************************************************************)
EXTENDS Integers, Sequences

CONSTANTS
  Stacks,    \* the hook stacks a shape may be wrapped with
  Inners,    \* the matches the inner shape may answer
  Scores,    \* the scores a host's accept hook may give
  Deltas,    \* the deltas a host's annotate hook may give
  Reject,    \* the kernel's reject score
  Half       \* scores are integers of one word: 2^31 in the code

Kinds == {"mark", "accept", "discard", "annotate"}
Said == {"inner"} \cup Kinds
Word == -Half..(Half - 1)

(* A diagnostic: the hook that left it, 0 for the inner shape, and what it *)
(* starts with.                                                            *)
Diagnostic == [by: Nat, says: Said]
Match == [accepted: BOOLEAN, score: Word, diagnostics: Seq(Diagnostic)]
Hook == [kind: Kinds, builtin: BOOLEAN, floor: Word, prefix: SUBSET Said]

ASSUME HooksAssumption ==
  /\ Half \in Nat \ {0}
  /\ Stacks \subseteq Seq(Hook)
  /\ Inners \subseteq Match
  /\ \A m \in Inners : \A n \in DOMAIN m.diagnostics : m.diagnostics[n].by = 0
  /\ Scores \subseteq Word /\ Deltas \subseteq Word /\ Reject \in Word
  /\ 1 \in Word

VARIABLES
  hooks,   \* the stack
  pass,    \* the pass of the wrapper over it
  at,      \* the hooks 1..at have had their turn in this pass
  match,   \* the match as it stands
  marks,   \* the marks of this pass, not yet on the match
  inner,   \* what the inner shape answered (history)
  calls,   \* every hook asked, in order (history)
  end      \* how the check ended

vars == <<hooks, pass, at, match, marks, inner, calls, end>>

-----------------------------------------------------------------------------
(* The rules of the built-in hooks.                                        *)

(* Mutants: the hook does not look at the diagnostics, and the difference  *)
(* is taken the wrong way round.                                           *)
AnyRejection(m) == ~m.accepted
QuietRejection(m) == ~m.accepted /\ m.diagnostics = <<>>

Heard(m, prefix) == \E n \in DOMAIN m.diagnostics : m.diagnostics[n].says \in prefix

SwappedLift(m, floor) == m.score - floor
Lift(m, floor) == floor - m.score

(* i32 arithmetic: an overflow wraps in a build without overflow checks.   *)
Unbounded(n) == n
Wrap(n) == ((n + Half) % (2 * Half)) - Half

(* Decision of a built-in hook on match m: does it act?                    *)
Acts(h, m) ==
  CASE h.kind = "mark" -> TRUE
    [] h.kind = "accept" -> QuietRejection(m)
    [] h.kind = "discard" -> m.accepted /\ Heard(m, h.prefix)
    [] h.kind = "annotate" -> m.accepted /\ m.score < h.floor

MayAct(h, m) == h.builtin => Acts(h, m)
MayPass(h, m) == h.builtin => ~Acts(h, m)

(* Mutant: accept hooks are counted among those that keep the verdict.     *)
RepairsToo(kind) == kind \in {"mark", "annotate", "accept"}
PreservesAcceptance(kind) == kind \in {"mark", "annotate"}
AcceptanceTransparent(stack) == \A i \in DOMAIN stack : PreservesAcceptance(stack[i].kind)

-----------------------------------------------------------------------------
NoMatch == [accepted |-> FALSE, score |-> Reject, diagnostics |-> <<>>]

Init ==
  /\ hooks \in Stacks
  /\ pass = "describe" /\ at = 0
  /\ match = NoMatch /\ marks = <<>> /\ inner = NoMatch
  /\ calls = <<>> /\ end = "none"

StackPasses == {"before", "after", "accept", "discard", "annotate"}
Asks(p) == IF p \in {"before", "after"} THEN "mark" ELSE p

Upcoming == {i \in DOMAIN hooks : i > at /\ hooks[i].kind = Asks(pass)}
Turn(i) == i \in Upcoming /\ \A j \in Upcoming : i <= j
Asked(i) == calls' = Append(calls, [pass |-> pass, hook |-> i])
Leave(i, what) == Append(match.diagnostics, [by |-> i, says |-> what])

Finish(how) == pass' = "done" /\ end' = how

(* The label of the inner shape is asked for before anything else.         *)
Describe ==
  /\ pass = "describe" /\ pass' = "before"
  /\ UNCHANGED <<hooks, at, match, marks, inner, calls, end>>

InnerFails ==
  /\ pass \in {"describe", "inner"}
  /\ Finish("error")
  /\ UNCHANGED <<hooks, at, match, marks, inner, calls>>

InnerAnswers ==
  /\ pass = "inner"
  /\ inner' \in Inners
  /\ match' = [inner' EXCEPT !.diagnostics = @ \o marks]
  /\ pass' = "after" /\ at' = 0 /\ marks' = <<>>
  /\ UNCHANGED <<hooks, calls, end>>

HookFails ==
  /\ pass \in StackPasses
  /\ \E i \in Upcoming : Turn(i) /\ ~hooks[i].builtin /\ Asked(i)
  /\ Finish("error")
  /\ UNCHANGED <<hooks, at, match, marks, inner>>

(* A hook that lets the match stand.                                       *)
HookPasses ==
  /\ pass \in StackPasses
  /\ \E i \in Upcoming : Turn(i) /\ MayPass(hooks[i], match) /\ Asked(i) /\ at' = i
  /\ UNCHANGED <<hooks, pass, match, marks, inner, end>>

Mark ==
  /\ pass \in {"before", "after"}
  /\ \E i \in Upcoming :
       /\ Turn(i) /\ MayAct(hooks[i], match) /\ Asked(i) /\ at' = i
       /\ marks' = Append(marks, [by |-> i, says |-> "mark"])
  /\ UNCHANGED <<hooks, pass, match, inner, end>>

(* The score of an accept hook: 1 for the built-in one.  It counts only    *)
(* where the match still has the reject score.                             *)
Given(h) == IF h.builtin THEN {1} ELSE Scores

Accept ==
  /\ pass = "accept"
  /\ \E i \in Upcoming : \E score \in Given(hooks[i]) :
       /\ Turn(i) /\ MayAct(hooks[i], match) /\ Asked(i) /\ at' = i
       /\ match' = [accepted |-> TRUE,
                    score |-> IF match.score = Reject THEN score ELSE match.score,
                    diagnostics |-> Leave(i, "accept")]
  /\ UNCHANGED <<hooks, pass, marks, inner, end>>

(* The first discard ends the pass.  Mutant: it does not.                  *)
KeepAsking(i) == i
LastTurn(i) == Len(hooks)

Discard ==
  /\ pass = "discard"
  /\ \E i \in Upcoming :
       /\ Turn(i) /\ MayAct(hooks[i], match) /\ Asked(i) /\ at' = LastTurn(i)
       /\ match' = [accepted |-> FALSE, score |-> Reject, diagnostics |-> Leave(i, "discard")]
  /\ UNCHANGED <<hooks, pass, marks, inner, end>>

(* What an annotate hook adds, before it is cut to the word.               *)
Added(h) == IF h.builtin THEN {Lift(match, h.floor)} ELSE Deltas

Annotate ==
  /\ pass = "annotate"
  /\ \E i \in Upcoming : \E delta \in Added(hooks[i]) :
       /\ Turn(i) /\ MayAct(hooks[i], match) /\ Asked(i) /\ at' = i
       /\ match' = [match EXCEPT !.score = Wrap(@ + Wrap(delta)),
                                 !.diagnostics = Leave(i, "annotate")]
  /\ UNCHANGED <<hooks, pass, marks, inner, end>>

(* With overflow checks the same arithmetic panics instead.                *)
Overflow ==
  /\ pass = "annotate"
  /\ \E i \in Upcoming : \E delta \in Added(hooks[i]) :
       /\ Turn(i) /\ MayAct(hooks[i], match) /\ Asked(i)
       /\ ~(delta \in Word /\ match.score + delta \in Word)
  /\ Finish("panic")
  /\ UNCHANGED <<hooks, at, match, marks, inner>>

(* Accept hooks see rejected matches, discard hooks accepted ones.  The    *)
(* mutant lets the discard hooks see the match before the accept hooks.    *)
DiscardFirst(p, m) ==
  CASE p = "before" -> "inner"
    [] p = "after" -> IF m.accepted THEN "discard" ELSE "accept"
    [] p = "discard" -> IF m.accepted THEN "annotate" ELSE "accept"
    [] p = "accept" -> "annotate"
    [] p = "annotate" -> "done"

NextPass(p, m) ==
  CASE p = "before" -> "inner"
    [] p = "after" -> IF m.accepted THEN "discard" ELSE "accept"
    [] p = "accept" -> IF m.accepted THEN "discard" ELSE "annotate"
    [] p = "discard" -> "annotate"
    [] p = "annotate" -> "done"

EndPass ==
  /\ pass \in StackPasses /\ Upcoming = {}
  /\ pass' = NextPass(pass, match) /\ at' = 0
  /\ IF pass = "after"
       THEN match' = [match EXCEPT !.diagnostics = @ \o marks] /\ marks' = <<>>
       ELSE UNCHANGED <<match, marks>>
  /\ end' = IF pass = "annotate" THEN "ok" ELSE end
  /\ UNCHANGED <<hooks, inner, calls>>

Next ==
  \/ Describe \/ InnerFails \/ InnerAnswers \/ HookFails \/ HookPasses
  \/ Mark \/ Accept \/ Discard \/ Annotate \/ Overflow \/ EndPass

Spec == Init /\ [][Next]_vars

-----------------------------------------------------------------------------
(* Properties.                                                             *)

Passes == {"describe", "inner", "done"} \cup StackPasses

(* Types; in particular a score stays an integer of one word, whatever the *)
(* hooks add to it.                                                        *)
TypeOK ==
  /\ hooks \in Stacks
  /\ pass \in Passes
  /\ at \in 0..Len(hooks)
  /\ match \in Match /\ inner \in Match
  /\ marks \in Seq(Diagnostic)
  /\ calls \in Seq([pass: Passes, hook: Nat])
  /\ end \in {"none", "ok", "error", "panic"}

(* What is_total and is_subshape_of rely on: a stack they take to be       *)
(* transparent answers the inner shape's verdict.                          *)
TransparentKeepsVerdict ==
  end = "ok" /\ AcceptanceTransparent(hooks) => match.accepted = inner.accepted

(* The diagnostics the hooks of a kind left on the match.                  *)
Left(what) == {n \in DOMAIN match.diagnostics :
                 match.diagnostics[n].by # 0 /\ match.diagnostics[n].says = what}

(* "accept hooks can repair rejections, discard hooks can veto             *)
(* acceptances": the verdict is the one the hooks' own diagnostics tell,   *)
(* a veto is final and there is one at most.                               *)
VerdictExplained ==
  /\ end = "ok" => (match.accepted <=> (inner.accepted \/ Left("accept") # {}) /\ Left("discard") = {})
  /\ \A m, n \in Left("discard") : m = n

Order(p) ==
  CASE p = "describe" -> 0
    [] p = "before" -> 1 [] p = "inner" -> 2 [] p = "after" -> 3 [] p = "accept" -> 4
    [] p = "discard" -> 5 [] p = "annotate" -> 6 [] p = "done" -> 7

WasAsked(p, i) == \E n \in DOMAIN calls : calls[n] = [pass |-> p, hook |-> i]
Vetoed(i) == \E n \in Left("discard") : match.diagnostics[n].by <= i

(* Hooks are asked pass by pass and in registration order, none twice in a *)
(* pass; a check that ends well has asked every mark hook before and       *)
(* after the inner shape and every annotate hook, the accept hooks if and  *)
(* only if the inner shape rejected, and the discard hooks up to the first *)
(* that vetoed.                                                            *)
HooksAsked ==
  /\ \A m, n \in DOMAIN calls : m < n =>
       \/ Order(calls[m].pass) < Order(calls[n].pass)
       \/ calls[m].pass = calls[n].pass /\ calls[m].hook < calls[n].hook
  /\ end = "ok" => \A i \in DOMAIN hooks :
       /\ hooks[i].kind = "mark" => WasAsked("before", i) /\ WasAsked("after", i)
       /\ hooks[i].kind = "annotate" => WasAsked("annotate", i)
       /\ hooks[i].kind = "accept" => (WasAsked("accept", i) <=> ~inner.accepted)
       /\ hooks[i].kind = "discard" =>
            (WasAsked("discard", i) <=>
               (inner.accepted \/ Left("accept") # {}) /\ (Vetoed(i) => ~Vetoed(i - 1)))

(* "raises accepted match scores to a minimum floor": an accepted match is *)
(* above every floor that no hook of the host annotated after, whatever    *)
(* the scores before it and however the arithmetic wraps.                  *)
FloorHolds ==
  end = "ok" /\ match.accepted =>
    \A i \in DOMAIN hooks :
      /\ hooks[i].kind = "annotate"
      /\ \A j \in i..Len(hooks) : hooks[j].kind = "annotate" => hooks[j].builtin
      => match.score >= hooks[i].floor

(* The verdict of a stack of built-in hooks, as their docs tell it: a      *)
(* quiet rejection is repaired, then an acceptance that carries a          *)
(* diagnostic with a watched prefix is vetoed.  heard: what the            *)
(* diagnostics say by the time the marks are over.                         *)
Has(kind) == \E i \in DOMAIN hooks : hooks[i].kind = kind
BuiltIn == \A i \in DOMAIN hooks : hooks[i].builtin
Verdict(heard) ==
  LET repaired == ~inner.accepted /\ heard = {} /\ Has("accept")
      told == IF repaired THEN {"accept"} ELSE heard
  IN /\ inner.accepted \/ repaired
     /\ \A i \in DOMAIN hooks : hooks[i].kind = "discard" => hooks[i].prefix \cap told = {}

InnerSaid == {inner.diagnostics[n].says : n \in DOMAIN inner.diagnostics}

(* The passes compute that verdict, marks counted among the diagnostics.   *)
VerdictOfStack ==
  end = "ok" /\ BuiltIn =>
    match.accepted = Verdict(InnerSaid \cup (IF Has("mark") THEN {"mark"} ELSE {}))

=============================================================================
