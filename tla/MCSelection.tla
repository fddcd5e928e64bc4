---------------------------- MODULE MCSelection -----------------------------
(* All selections among three cases (bound): two priorities, three scores, *)
(* every reflexive relation of proven specificity, transitive or not.      *)
EXTENDS Selection, FiniteSets

MCCase == 1..3
Same == {<<c, c>> : c \in Case}
MCSubshapes == {Same \cup r : r \in SUBSET {p \in Case \X Case : p[1] # p[2]}}

(* The sorted sequences of accepted cases: ties stay in declaration order. *)
Stable(ms) ==
  \A i, j \in DOMAIN ms : i < j /\ priority[ms[i]] = priority[ms[j]]
                          /\ score[ms[i]] = score[ms[j]] => ms[i] < ms[j]

MCInit ==
  /\ priority \in [Case -> Priorities] /\ score \in [Case -> Scores] /\ sub \in Subshapes
  /\ matches \in UNION {[1..n -> Case] : n \in 0..Cardinality(Case)}
  /\ Sorted(matches) /\ Stable(matches)
  /\ index = 2 /\ best = 1 /\ Undecided

MCSpec == MCInit /\ [][SelectNext]_selectVars /\ WF_selectVars(SelectNext)
=============================================================================
