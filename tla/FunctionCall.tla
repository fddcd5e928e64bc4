---------------------------- MODULE FunctionCall ----------------------------
(***************************************************************************)
(* What a call of a FunctionObject promises, whichever entry it takes and  *)
(* however it searches: its arguments are prepared from the highest        *)
(* priority down and from the least forcing plan up, never twice and never *)
(* once a case is chosen; the case chosen is the one the last preparation  *)
(* was made for; only its implementation runs, once; the call ends.        *)
(***************************************************************************)
EXTENDS Integers, Sequences

CONSTANTS Case, Demands, Checked, Arity, NoCase

VARIABLES
  priority, demand,   \* the cases' declarations
  prepared,           \* the preparations begun: priority and positions forced
  chosen,             \* the case the call is committed to
  ran,                \* its implementation was entered
  outcome             \* how the call ended, "none" before

vars == <<priority, demand, prepared, chosen, ran, outcome>>

Forced(c) == {p \in 1..Arity : p > Len(demand[c]) \/ demand[c][p] \notin {"never", "expr"}}

Open == outcome = "none"
Searching == Open /\ chosen = NoCase /\ ~ran
Calling == Open /\ chosen # NoCase

Init ==
  /\ priority \in [Case -> Int] /\ demand \in [Case -> Demands]
  /\ prepared = <<>> /\ chosen = NoCase /\ ~ran /\ outcome = "none"

(* A later preparation is for a lower priority, or forces more.            *)
Comes(before, after) ==
  \/ after.level < before.level
  \/ after.level = before.level /\ before.plan \subseteq after.plan /\ before.plan # after.plan

Prepare ==
  /\ Searching
  /\ \E c \in Case :
       LET step == [level |-> priority[c], plan |-> Forced(c)] IN
       /\ \A k \in DOMAIN prepared : Comes(prepared[k], step)
       /\ prepared' = Append(prepared, step)
  /\ UNCHANGED <<priority, demand, chosen, ran, outcome>>

(* A call on values prepares nothing.                                      *)
Choose ==
  /\ Searching
  /\ \E c \in Case :
       /\ prepared # <<>> =>
            prepared[Len(prepared)] = [level |-> priority[c], plan |-> Forced(c)]
       /\ chosen' = c
  /\ UNCHANGED <<priority, demand, prepared, ran, outcome>>

GiveUp ==
  /\ Searching
  /\ outcome' \in {"conflict", "matchError", "noMatch", "noneAccepts", "error"}
  /\ UNCHANGED <<priority, demand, prepared, chosen, ran>>

RefineFails ==
  /\ Calling /\ ~ran
  /\ outcome' = "refineError"
  /\ UNCHANGED <<priority, demand, prepared, chosen, ran>>

Run ==
  /\ Calling /\ ~ran
  /\ ran'
  /\ outcome' \in {"callError", IF chosen \in Checked THEN "none" ELSE "returned"}
  /\ UNCHANGED <<priority, demand, prepared, chosen>>

Check ==
  /\ Calling /\ ran /\ chosen \in Checked
  /\ outcome' \in {"returned", "wrongResult", "checkError"}
  /\ UNCHANGED <<priority, demand, prepared, chosen, ran>>

Next == Prepare \/ Choose \/ GiveUp \/ RefineFails \/ Run \/ Check

Spec == Init /\ [][Next]_vars

(* The whole promise: the steps above, and an end.                         *)
Promise == Spec /\ <>(outcome # "none")
=============================================================================
