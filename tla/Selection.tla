----------------------------- MODULE Selection ------------------------------
(***************************************************************************)
(* FunctionObject::select_best_case: the choice of one overload case among *)
(* those whose argument shape accepted the arguments.  The matches are     *)
(* sorted by priority and score; one pass over them keeps a best case and  *)
(* replaces it by any later one that compare_cases prefers; a second pass  *)
(* looks for cases that cannot be ordered against the best.                *)
(*                                                                         *)
(* compare_cases is no order: specificity is consulted before the score,   *)
(* and three cases can be preferred in a circle.  What the pass promises   *)
(* all the same is stated at the end.                                      *)
(***************************************************************************)
EXTENDS OverloadCases

CONSTANTS
  Scores,      \* the scores a match may have
  Subshapes    \* the relations "is a proven subshape of" to consider

ASSUME SelectionAssumption ==
  /\ Scores \subseteq Int
  /\ Subshapes \subseteq SUBSET (Case \X Case)

VARIABLES
  score,       \* the score of every case's match
  sub,         \* the proven subshape pairs among the cases' argument shapes
  matches,     \* the accepted cases, sorted
  index,       \* the next match to compare with the best
  best,        \* the place of the best match so far
  decision     \* how the selection ended

selectVars == <<priority, score, sub, matches, index, best, decision>>
given      == <<priority, score, sub, matches>>

-----------------------------------------------------------------------------
(* compare_cases: priority, then one-way proven specificity, then score.   *)

Specific(a, b) == <<a, b>> \in sub /\ <<b, a>> \notin sub

(* Mutants: the score is consulted before the specificity; the specificity *)
(* is consulted before the priority.                                       *)
ScoreFirst(a, b) ==
  \/ priority[a] > priority[b]
  \/ /\ priority[a] = priority[b]
     /\ score[a] > score[b] \/ (score[a] = score[b] /\ Specific(a, b))

SpecificFirst(a, b) ==
  \/ Specific(a, b)
  \/ ~Specific(b, a) /\ priority[a] > priority[b]
  \/ ~Specific(b, a) /\ priority[a] = priority[b] /\ score[a] > score[b]

Greater(a, b) ==
  \/ priority[a] > priority[b]
  \/ /\ priority[a] = priority[b]
     /\ \/ Specific(a, b)
        \/ ~Specific(b, a) /\ score[a] > score[b]

Equal(a, b) == ~Greater(a, b) /\ ~Greater(b, a)

(* The order matches.sort_by leaves the accepted cases in.                 *)
Sorted(ms) ==
  \A i, j \in DOMAIN ms : i < j =>
    /\ ms[i] # ms[j]
    /\ \/ priority[ms[i]] > priority[ms[j]]
       \/ priority[ms[i]] = priority[ms[j]] /\ score[ms[i]] >= score[ms[j]]

Accepted == {matches[k] : k \in DOMAIN matches}

-----------------------------------------------------------------------------
Undecided == decision = [kind |-> "none", cases |-> {}]
Decide(kind, cases) == decision' = [kind |-> kind, cases |-> cases]

SelectInit ==
  /\ priority \in [Case -> Priorities]
  /\ score \in [Case -> Scores]
  /\ sub \in Subshapes
  /\ matches \in Seq(Case) /\ Sorted(matches)
  /\ index = 2
  /\ best = 1
  /\ Undecided

NoMatch ==
  /\ Undecided /\ matches = <<>>
  /\ Decide("noMatch", {})
  /\ UNCHANGED <<given, index, best>>

Scanning == Undecided /\ index <= Len(matches)

(* Mutants: the place after the preferred match is remembered; the pass    *)
(* does not advance past a match it keeps the best against.                *)
ReplaceByNext ==
  /\ Scanning /\ Greater(matches[index], matches[best])
  /\ best' = index + 1
  /\ index' = index + 1
  /\ UNCHANGED <<given, decision>>

KeepInPlace ==
  /\ Scanning /\ ~Greater(matches[index], matches[best])
  /\ UNCHANGED selectVars

Replace ==
  /\ Scanning /\ Greater(matches[index], matches[best])
  /\ best' = index
  /\ index' = index + 1
  /\ UNCHANGED <<given, decision>>

Keep ==
  /\ Scanning /\ ~Greater(matches[index], matches[best])
  /\ index' = index + 1
  /\ UNCHANGED <<given, best, decision>>

Scanned == Undecided /\ matches # <<>> /\ index > Len(matches)

(* The specificity question may fail, in either pass; the error is then    *)
(* the selection's.                                                        *)
CompareFails ==
  /\ \/ Scanning /\ priority[matches[index]] = priority[matches[best]]
     \/ /\ Scanned
        /\ \E k \in DOMAIN matches : k # best /\ priority[matches[k]] = priority[matches[best]]
  /\ Decide("error", {})
  /\ UNCHANGED <<given, index, best>>

Tied == {k \in DOMAIN matches : k # best /\ Equal(matches[best], matches[k])}

(* Mutant: the best case is returned without the second pass.              *)
SelectAnyway ==
  /\ Scanned
  /\ Decide("selected", {matches[best]})
  /\ UNCHANGED <<given, index, best>>

Ambiguous ==
  /\ Scanned /\ Tied # {}
  /\ Decide("ambiguous", {matches[k] : k \in Tied \cup {best}})
  /\ UNCHANGED <<given, index, best>>

Select ==
  /\ Scanned /\ Tied = {}
  /\ Decide("selected", {matches[best]})
  /\ UNCHANGED <<given, index, best>>

SelectNext == NoMatch \/ Replace \/ Keep \/ CompareFails \/ Ambiguous \/ Select

SelectSpec == SelectInit /\ [][SelectNext]_selectVars
FairSelection == SelectSpec /\ WF_selectVars(SelectNext)

-----------------------------------------------------------------------------
(* Properties.                                                             *)

Kinds == {"none", "noMatch", "error", "ambiguous", "selected"}

(* The given keep their types, and the two cursors stay inside the        *)
(* matches they point into, so that no comparison is out of bounds.        *)
SelectTypeOK ==
  /\ priority \in [Case -> Int]
  /\ score \in [Case -> Int]
  /\ sub \in SUBSET (Case \X Case)
  /\ matches \in Seq(Case)
  /\ index \in 2..(Len(matches) + 2)
  /\ best \in 1..(Len(matches) + 1)
  /\ best < index
  /\ matches # <<>> => best <= Len(matches) /\ index <= Len(matches) + 1
  /\ decision \in [kind: Kinds, cases: SUBSET Case]

Chosen(c) == decision.kind = "selected" /\ c \in decision.cases

(* No accepted case of a higher priority than the selected one is passed   *)
(* over.                                                                   *)
PriorityWins == \A c \in Case : Chosen(c) => \A d \in Accepted : priority[d] <= priority[c]

Transitive == \A a, b, c \in Accepted : <<a, b>> \in sub /\ <<b, c>> \in sub => <<a, c>> \in sub

(* A selected case is never strictly less specific than another accepted   *)
(* case of its priority, whatever the scores: one pass is enough, provided *)
(* the specificity proofs compose.                                         *)
NeverSubsumed ==
  Transitive => \A c \in Case : Chosen(c) =>
    \A d \in Accepted : priority[d] = priority[c] => ~Specific(d, c)

ScoresAgree ==
  \A a, b \in Accepted : priority[a] = priority[b] /\ Specific(a, b) => score[a] >= score[b]

(* Where a more specific case never scores lower, the selected case is     *)
(* preferred to every other accepted one.                                  *)
BestIsBest ==
  Transitive /\ ScoresAgree => \A c \in Case : Chosen(c) =>
    \A d \in Accepted : d = c \/ Greater(c, d)

(* What a caller relies on, stated without the search: the one decision    *)
(* OverloadChoice describes, and that it is made.                          *)
Choice == INSTANCE OverloadChoice WITH accepted <- Accepted, outcome <- decision
ImplementsChoice == Choice!Promise
=============================================================================
