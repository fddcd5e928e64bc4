---------------------------- MODULE MatchMeaning -----------------------------
(***************************************************************************)
(* The match engine held against what a check means: MatchEngine says how  *)
(* a thread works an answer out, ShapeMeaning what the answer is.          *)
(***************************************************************************)
EXTENDS MatchEngine, ShapeMeaning

CONSTANTS
  Positive,   \* shapes built without negation
  Always,     \* shapes that never reject, whatever the term
  Larger      \* how many levels larger a larger budget is

(* A positive shape leads to positive shapes only, and when the walk over  *)
(* a list's tail may be cut short, its tail shape really never rejects.    *)
PositiveOK(s) ==
  LET n == Node[s] IN
  /\ n.kind # "not"
  /\ \A i \in DOMAIN n.kids : n.kids[i] \in Positive
  /\ \A i \in DOMAIN n.defs : n.defs[i].shape \in Positive
  /\ n.rest # None => n.rest \in Positive
  /\ n.kind = "list" /\ n.rest # None => (Total[n.rest] => n.rest \in Always)

AlwaysOK(s) ==
  LET kids == Node[s].kids IN
  \/ Node[s].kind = "any"
  \/ Node[s].kind = "and" /\ \A i \in DOMAIN kids : kids[i] \in Always
  \/ Node[s].kind \in {"or", "best", "oneOf"} /\ \E i \in DOMAIN kids : kids[i] \in Always
  \/ Node[s].kind \in {"capture", "effectful", "defs"} /\ kids[1] \in Always

ASSUME PositiveAssumption ==
  /\ Positive \subseteq Shape /\ \A s \in Positive : PositiveOK(s)
  /\ Always \subseteq Shape /\ \A s \in Always : AlwaysOK(s)
  /\ Larger \subseteq Nat

(* The answer to the call when `more` levels of the budget are left than   *)
(* its caller leaves.                                                      *)
Answer(more) == Meaning[Asking(call, <<>>, MaxDepth - base + more)]

(* When a call returns, its verdict, its score and its captures in order   *)
(* are what the combinators' documentation promises of that shape on that  *)
(* term with that much budget: short circuits, accumulators and the two    *)
(* thread-locals never show through the answer.                            *)
AnswerIsMeaning == Done => ret = Answer(0)

(* Matching a self-referential shape fails closed: a shape built without   *)
(* negation that accepts under the budget does not reject under any larger *)
(* one, so running out of budget can cost an accept but never cause one.   *)
FailsClosed ==
  Done /\ ret.st = "accept" /\ call.shape \in Positive =>
    \A more \in Larger : Answer(more).st # "reject"
=============================================================================
