--------------------------- MODULE OverloadChoice ---------------------------
(***************************************************************************)
(* What selecting an overload case promises, however it searches: one      *)
(* decision about the cases that accepted the arguments.  Only a case of   *)
(* the highest priority that every other one can be ordered against is     *)
(* selected; an ambiguity names one such case and all those it cannot be   *)
(* ordered against; a failure needs two cases of that priority, for only   *)
(* then is a specificity asked; and a decision is made.                    *)
(***************************************************************************)
EXTENDS Integers

CONSTANTS Case, Priorities, Scores, Subshapes

VARIABLES
  priority, score, sub,   \* the cases' declarations and matches
  accepted,               \* the cases whose argument shape accepted
  outcome                 \* the decision

vars == <<priority, score, sub, accepted, outcome>>
open == [kind |-> "none", cases |-> {}]

(* The comparison the promise is about.                                    *)
Above(a, b) ==
  \/ priority[a] > priority[b]
  \/ /\ priority[a] = priority[b]
     /\ IF (<<a, b>> \in sub) # (<<b, a>> \in sub) THEN <<a, b>> \in sub ELSE score[a] > score[b]

Rivals(c) == {d \in accepted \ {c} : ~Above(c, d) /\ ~Above(d, c)}
Top == {c \in accepted : \A d \in accepted : priority[d] <= priority[c]}

Init ==
  /\ priority \in [Case -> Priorities] /\ score \in [Case -> Scores] /\ sub \in Subshapes
  /\ accepted \in SUBSET Case
  /\ outcome = open

NoMatch   == accepted = {} /\ outcome' = [kind |-> "noMatch", cases |-> {}]
Fail      == (\E c, d \in Top : c # d) /\ outcome' = [kind |-> "error", cases |-> {}]
Select    == \E c \in Top : Rivals(c) = {} /\ outcome' = [kind |-> "selected", cases |-> {c}]
Ambiguous ==
  \E c \in Top : Rivals(c) # {} /\ outcome' = [kind |-> "ambiguous", cases |-> Rivals(c) \cup {c}]

Next ==
  /\ outcome = open
  /\ NoMatch \/ Fail \/ Select \/ Ambiguous
  /\ UNCHANGED <<priority, score, sub, accepted>>

Spec == Init /\ [][Next]_vars
Promise == Spec /\ <>(outcome # open)
=============================================================================
