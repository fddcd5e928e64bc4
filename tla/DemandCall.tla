----------------------------- MODULE DemandCall -----------------------------
(***************************************************************************)
(* FunctionObject as a Callable.  call gets values: one selection among    *)
(* all the cases.  call_exprs gets unevaluated arguments: which            *)
(* arguments are forced depends on the overload cases that are tried, and  *)
(* which case is right is known only once arguments are prepared, so the   *)
(* call goes from the highest priority down and, inside one priority, from *)
(* the demand plan that forces least to the one that forces most.  Forcing *)
(* an argument has effects that cannot be taken back: the properties are   *)
(* about what is forced before what is known.                              *)
(*                                                                         *)
(* What the evaluator, the argument shapes and the implementations answer  *)
(* is left open; the choice among the accepted cases of one plan (or, for  *)
(* values, of them all) is any outcome OverloadChoice allows: no case, a   *)
(* failure, or one case.  FunctionCall is what all of it promises a caller.*)
(***************************************************************************)
EXTENDS OverloadCases, FiniteSets

CONSTANTS
  Demands,     \* the demand lists a case may declare
  Checked,     \* the cases that declare a result shape
  Arity,       \* how many arguments the call has
  NoCase       \* no case is chosen

Demand == {"never", "expr", "value", "bool", "class", "shape"}

ASSUME DemandAssumption ==
  /\ IsFiniteSet(Case)
  /\ Demands \subseteq Seq(Demand)
  /\ Checked \subseteq Case
  /\ Arity \in Nat
  /\ NoCase \notin Case

VARIABLES
  demand,      \* the demand list of every case
  phase,       \* where the call is
  remaining,   \* the cases of the priorities still to come
  level,       \* the priority being tried
  pending,     \* its demand plans not yet tried
  group,       \* the plan the arguments were last prepared with
  matched,     \* the matched groups of this priority, in order
  levelError,  \* the first failed preparation of this priority, 0 for none
  deferred,    \* the failed preparation to report in the end, 0 for none
  log,         \* every preparation of the arguments, in order (history)
  chosen,      \* the case the call is committed to
  refined,     \* how many of its arguments were forced to its own demands
  result       \* how the call ended

inputs == <<priority, demand>>
target == <<chosen, refined>>
search == <<remaining, level, pending, group, matched, levelError, deferred, log>>
vars == <<inputs, phase, search, target, result>>

Syntax == {"never", "expr"}

(* The positions a case wants as values: the demand plan.                  *)
Plan(c) == {p \in 1..Arity : ~(p <= Len(demand[c]) /\ demand[c][p] \in Syntax)}
Plans(cases) == {Plan(c) : c \in cases}
InGroup(c, plan) == priority[c] = level /\ Plan(c) = plan

Highest(cases) == {c \in cases : \A d \in cases : priority[d] <= priority[c]}

(* Mutant: priorities do not separate the cases.                           *)
Together(cases) == cases

TopLevel(cases) == Highest(cases)

(* has_extra_forcing: some argument is a value on the left, syntax on the  *)
(* right.  The mutant has the two sides swapped.                           *)
SwappedForcing(left, right) == right \ left # {}
ExtraForcing(left, right) == left \ right # {}

Incomparable(plans) ==
  \E left, right \in plans : ExtraForcing(left, right) /\ ExtraForcing(right, left)

(* Plans are tried in the order of forcing_score.  The mutant sorts them   *)
(* the other way round.                                                    *)
MostForcing(plan) == \A other \in pending : Cardinality(other) <= Cardinality(plan)
Least(plan) == \A other \in pending : Cardinality(plan) <= Cardinality(other)

-----------------------------------------------------------------------------
Nothing == [kind |-> "none", at |-> 0]
Answer(kind, at) == result' = [kind |-> kind, at |-> at] /\ phase' = "done"
Note(plan, outcome) ==
  log' = Append(log, [level |-> level, plan |-> plan, outcome |-> outcome])

Init ==
  /\ priority \in [Case -> Priorities]
  /\ demand \in [Case -> Demands]
  /\ phase \in {"levels", "select"} /\ remaining = Case
  /\ level = 0 /\ pending = {} /\ group = {} /\ matched = <<>>
  /\ levelError = 0 /\ deferred = 0 /\ log = <<>>
  /\ chosen = NoCase /\ refined = 0
  /\ result = Nothing

PlansConflict ==
  /\ phase = "levels" /\ remaining # {}
  /\ Incomparable(Plans(TopLevel(remaining)))
  /\ Answer("conflict", 0)
  /\ UNCHANGED <<inputs, search, target>>

StartLevel ==
  /\ phase = "levels" /\ remaining # {}
  /\ ~Incomparable(Plans(TopLevel(remaining)))
  /\ \E c \in TopLevel(remaining) : level' = priority[c]
  /\ pending' = Plans(TopLevel(remaining))
  /\ remaining' = remaining \ TopLevel(remaining)
  /\ matched' = <<>> /\ levelError' = 0
  /\ phase' = "groups"
  /\ UNCHANGED <<inputs, target, group, deferred, log, result>>

ConflictsWithMatched(plan) == \E k \in DOMAIN matched : ExtraForcing(plan, matched[k].plan)

MatchedConflict ==
  /\ phase = "groups"
  /\ \E plan \in pending : Least(plan) /\ ConflictsWithMatched(plan)
  /\ Answer("conflict", 0)
  /\ UNCHANGED <<inputs, search, target>>

(* Mutant: the failure is numbered from the wrong end of the log.          *)
PrepareFailsLate ==
  /\ phase = "groups"
  /\ \E plan \in pending :
       /\ Least(plan) /\ ~ConflictsWithMatched(plan)
       /\ pending' = pending \ {plan}
       /\ Note(plan, "failed")
  /\ levelError' = IF levelError = 0 THEN Len(log) + 2 ELSE levelError
  /\ UNCHANGED <<inputs, target, phase, remaining, level, group, matched, deferred, result>>

PrepareFails ==
  /\ phase = "groups"
  /\ \E plan \in pending :
       /\ Least(plan) /\ ~ConflictsWithMatched(plan)
       /\ pending' = pending \ {plan}
       /\ Note(plan, "failed")
  /\ levelError' = IF levelError = 0 THEN Len(log) + 1 ELSE levelError
  /\ UNCHANGED <<inputs, target, phase, remaining, level, group, matched, deferred, result>>

Prepare ==
  /\ phase = "groups"
  /\ \E plan \in pending :
       /\ Least(plan) /\ ~ConflictsWithMatched(plan)
       /\ pending' = pending \ {plan}
       /\ group' = plan
  /\ phase' = "matching"
  /\ UNCHANGED <<inputs, target, remaining, level, matched, levelError, deferred, log, result>>

Missed ==
  /\ phase = "matching"
  /\ Note(group, "missed")
  /\ phase' = "groups"
  /\ UNCHANGED <<inputs, target, remaining, level, pending, group, matched, levelError, deferred, result>>

(* A failing argument shape, or no unambiguous best case: the call ends.   *)
MatchFails ==
  /\ phase = "matching"
  /\ Note(group, "error")
  /\ Answer("matchError", Len(log) + 1)
  /\ UNCHANGED <<inputs, target, remaining, level, pending, group, matched, levelError, deferred>>

Matched ==
  /\ phase = "matching"
  /\ \E c \in Case :
       /\ InGroup(c, group)
       /\ matched' = Append(matched, [plan |-> group, case |-> c])
  /\ Note(group, "matched")
  /\ phase' = "groups"
  /\ UNCHANGED <<inputs, target, remaining, level, pending, group, levelError, deferred, result>>

LevelTried == phase = "groups" /\ pending = {}

(* Mutant: a later priority's failure replaces an earlier one's.           *)
LastErrorWins ==
  /\ LevelTried /\ matched = <<>>
  /\ deferred' = IF levelError # 0 THEN levelError ELSE deferred
  /\ phase' = "levels"
  /\ UNCHANGED <<inputs, target, remaining, level, pending, group, matched, levelError, log, result>>

NoneMatched ==
  /\ LevelTried /\ matched = <<>>
  /\ deferred' = IF deferred = 0 THEN levelError ELSE deferred
  /\ phase' = "levels"
  /\ UNCHANGED <<inputs, target, remaining, level, pending, group, matched, levelError, log, result>>

(* One matched group is called; several are a conflict.                    *)
SomeMatched ==
  /\ LevelTried /\ matched # <<>>
  /\ IF Len(matched) = 1
     THEN phase' = "refine" /\ chosen' = matched[1].case /\ UNCHANGED result
     ELSE Answer("conflict", 0) /\ UNCHANGED chosen
  /\ UNCHANGED <<inputs, search, refined>>

NothingApplies ==
  /\ phase = "levels" /\ remaining = {}
  /\ IF deferred = 0 THEN Answer("noMatch", 0) ELSE Answer("error", deferred)
  /\ UNCHANGED <<inputs, search, target>>

-----------------------------------------------------------------------------
(* call: the arguments are values, and all the cases are candidates.       *)

NoneAccepts ==
  /\ phase = "select"
  /\ Answer("noneAccepts", 0)
  /\ UNCHANGED <<inputs, search, target>>

SelectFails ==
  /\ phase = "select"
  /\ Answer("matchError", 0)
  /\ UNCHANGED <<inputs, search, target>>

SelectCase ==
  /\ phase = "select" /\ phase' = "refine"
  /\ chosen' \in Case
  /\ UNCHANGED <<inputs, search, refined, result>>

(* The call of the chosen case, the same for values and expressions: its   *)
(* arguments are forced to its own demands one by one (a shape demand also *)
(* checks the value), its implementation runs in an environment of the     *)
(* captures, and its result is checked if it declares a result shape.      *)
RefineArg ==
  /\ phase = "refine" /\ refined < Arity
  /\ refined' = refined + 1
  /\ UNCHANGED <<inputs, search, phase, chosen, result>>

(* The force, the demanded shape (unknown, no shape, or rejecting) or the  *)
(* binding of the captures fails.                                          *)
RefineFails ==
  /\ phase = "refine"
  /\ Answer("refineError", 0)
  /\ UNCHANGED <<inputs, search, target>>

(* Mutant: the result is returned without a check of its shape.            *)
RunUnchecked ==
  /\ phase = "refine" /\ refined = Arity
  /\ Answer("returned", 0)
  /\ UNCHANGED <<inputs, search, target>>

Run ==
  /\ phase = "refine" /\ refined = Arity
  /\ IF chosen \in Checked THEN phase' = "check" /\ UNCHANGED result
                           ELSE Answer("returned", 0)
  /\ UNCHANGED <<inputs, search, target>>

RunFails ==
  /\ phase = "refine" /\ refined = Arity
  /\ Answer("callError", 0)
  /\ UNCHANGED <<inputs, search, target>>

(* The result shape accepts the result, rejects it, or its check fails.    *)
CheckResult ==
  /\ phase = "check"
  /\ \E kind \in {"returned", "wrongResult", "checkError"} : Answer(kind, 0)
  /\ UNCHANGED <<inputs, search, target>>

Next ==
  \/ PlansConflict \/ StartLevel \/ MatchedConflict \/ PrepareFails \/ Prepare
  \/ Missed \/ MatchFails \/ Matched \/ NoneMatched \/ SomeMatched \/ NothingApplies
  \/ NoneAccepts \/ SelectFails \/ SelectCase
  \/ RefineArg \/ RefineFails \/ Run \/ RunFails \/ CheckResult

Spec == Init /\ [][Next]_vars
FairSpec == Spec /\ WF_vars(Next)

-----------------------------------------------------------------------------
(* Properties.                                                             *)

Phases == {"levels", "groups", "matching", "select", "refine", "check", "done"}
Failures == {"conflict", "matchError", "noMatch", "noneAccepts", "error"}
Results == {"none", "refineError", "callError", "wrongResult", "checkError", "returned"}
           \cup Failures
Positions == SUBSET (1..Arity)

(* Types; an error number is one of a preparation already made.            *)
TypeOK ==
  /\ priority \in [Case -> Int]
  /\ demand \in [Case -> Seq(Demand)]
  /\ phase \in Phases
  /\ remaining \subseteq Case
  /\ level \in Int
  /\ pending \subseteq Positions
  /\ group \in Positions
  /\ matched \in Seq([plan: Positions, case: Case])
  /\ log \in Seq([level: Int, plan: Positions,
                  outcome: {"failed", "missed", "error", "matched"}])
  /\ levelError \in 0..Len(log)
  /\ deferred \in 0..Len(log)
  /\ chosen \in Case \cup {NoCase}
  /\ refined \in 0..Arity
  /\ result \in [kind: Results, at: 0..Len(log)]

(* Two groups of one priority never both match: the branch of the code     *)
(* that reports several matched groups is dead, and the case called is the *)
(* only one that was selected.                                             *)
OneMatch == Len(matched) <= 1

Tried(i, c) == log[i].level = priority[c] /\ log[i].plan = Plan(c)

(* "higher-priority expr-demand case should win before lower value-demand  *)
(* forcing" (the tests' words): before the arguments are prepared with a   *)
(* plan, every case of a higher priority, and every case of the same       *)
(* priority that forces a part of it only, was tried and did not match.    *)
LeastForcing ==
  \A i \in DOMAIN log, c \in Case :
    \/ priority[c] > log[i].level
    \/ priority[c] = log[i].level /\ Plan(c) \subseteq log[i].plan /\ Plan(c) # log[i].plan
    => \E j \in 1..(i - 1) : Tried(j, c) /\ log[j].outcome \in {"failed", "missed"}

(* A call that ends without a match has tried every case, and reports the  *)
(* first preparation that failed; "no matching overload" only if none did. *)
NoErrorLost ==
  result.kind \in {"noMatch", "error"} =>
    /\ \A c \in Case : \E i \in DOMAIN log : Tried(i, c)
    /\ \A i \in DOMAIN log :
         /\ log[i].outcome \in {"failed", "missed"}
         /\ log[i].outcome = "failed" => result.at # 0 /\ result.at <= i
    /\ result.kind = "error" => log[result.at].outcome = "failed"

Untried(c) == \A i \in DOMAIN log : ~Tried(i, c)

(* A call ends in a conflict only if two cases of a priority none of whose *)
(* cases was tried each force what the other must not, or if a case yet    *)
(* untried forces more than the plan of its priority that matched; and a   *)
(* call commits to the case of a matched plan only if no case of its       *)
(* priority forces more.                                                   *)
ConflictIsReal ==
  /\ result.kind = "conflict" =>
       \/ \E c, d \in Case :
            /\ priority[c] = priority[d]
            /\ ~(Plan(c) \subseteq Plan(d)) /\ ~(Plan(d) \subseteq Plan(c))
            /\ \A other \in Case : priority[other] = priority[c] => Untried(other)
       \/ \E i \in DOMAIN log, d \in Case :
            /\ log[i].outcome = "matched" /\ log[i].level = priority[d]
            /\ ~(Plan(d) \subseteq log[i].plan) /\ Untried(d)
  /\ chosen # NoCase =>
       \A i \in DOMAIN log, d \in Case :
         log[i].outcome = "matched" /\ log[i].level = priority[d] => Plan(d) \subseteq log[i].plan

(* What a caller may rely on: FunctionCall, of which the preparations      *)
(* begun, the chosen case and whether its implementation was entered are   *)
(* what the outside sees of a call.                                        *)
Begun ==
  [i \in 1..(Len(log) + IF phase = "matching" THEN 1 ELSE 0) |->
     IF i <= Len(log) THEN [level |-> log[i].level, plan |-> log[i].plan]
                      ELSE [level |-> level, plan |-> group]]
Ran == phase = "check" \/ result.kind \in {"callError", "wrongResult", "checkError", "returned"}

Promised == INSTANCE FunctionCall WITH
  prepared <- Begun, ran <- Ran, outcome <- result.kind

(* Every call keeps the promise: it prepares its arguments in the promised *)
(* order, commits to one case, runs that one once, and ends.               *)
ImplementsCall == Promised!Promise
=============================================================================
