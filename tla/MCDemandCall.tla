---------------------------- MODULE MCDemandCall ----------------------------
(* Calls of two arguments to a function of three overload cases (bounds):  *)
(* every priority order of them, and demand lists of every length around   *)
(* the arity, which give every demand plan.                                *)
EXTENDS DemandCall

MCDemands ==
  {<<>>, <<"expr">>, <<"bool", "expr">>, <<"never", "expr", "value">>, <<"value", "shape", "expr">>}
=============================================================================
