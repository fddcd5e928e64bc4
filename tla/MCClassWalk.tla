---------------------------- MODULE MCClassWalk -----------------------------
(* Every hierarchy of three classes with up to two parents each (bounds),  *)
(* cyclic or not, a parent possibly behind a value that is no class.       *)
EXTENDS ClassWalk

MCParents ==
  {<<>>, <<None>>} \cup {<<c>> : c \in Class} \cup {<<None, c>> : c \in Class}
  \cup {<<p[1], p[2]>> : p \in {p \in Class \X Class : p[1] # p[2]}}
MCHierarchies == [Class -> MCParents]
=============================================================================
