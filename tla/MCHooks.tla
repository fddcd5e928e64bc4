------------------------------ MODULE MCHooks ------------------------------
(* Stacks of up to three hooks (bound): the built-in hook of every kind,   *)
(* two floors and two prefixes, and a hook of the host of every kind.  The *)
(* inner shape is quiet, has a diagnostic, or is hooked itself and left a  *)
(* mark.  Scores are integers of three bits (bound), the reject score the  *)
(* lowest of them.                                                         *)
EXTENDS Hooks

MCHook(kind, builtin, floor, prefix) ==
  [kind |-> kind, builtin |-> builtin, floor |-> floor, prefix |-> prefix]
BuiltInHooks ==
  {MCHook("mark", TRUE, 0, {}), MCHook("accept", TRUE, 0, {}),
   MCHook("annotate", TRUE, 0, {}), MCHook("annotate", TRUE, 3, {}),
   MCHook("discard", TRUE, 0, {"inner"}), MCHook("discard", TRUE, 0, Kinds)}
HostHooks == {MCHook(k, FALSE, 0, {}) : k \in Kinds}
MCStacks == UNION {[1..n -> BuiltInHooks \cup HostHooks] : n \in 0..3}

MCInners ==
  [accepted: BOOLEAN, score: {-4, 1},
   diagnostics: {<<>>, <<[by |-> 0, says |-> "inner"]>>, <<[by |-> 0, says |-> "mark"]>>}]
MCScores == {-4, 2}
MCDeltas == {-1, 2}
MCReject == -4
=============================================================================
