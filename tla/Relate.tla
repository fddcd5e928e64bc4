------------------------------- MODULE Relate -------------------------------
(***************************************************************************)
(* Comparing shapes: the is_subshape_of rules of the crate's shapes, their *)
(* normal forms, the disjointness rules, relate_shapes with its probes and *)
(* the shape queries built on it, and the regions a Venn set of named      *)
(* shapes is asked for.  A relation it calls proven is used without        *)
(* looking at a term; the properties hold it, and the regions, against     *)
(* what the shapes accept (ShapeMeaning).                                  *)
(*                                                                         *)
(* The kernel's shape_is_subshape_of asks the child's own rule and grants  *)
(* every child without effects the shape Any; it is modelled from the      *)
(* crate's calls and tests.  Its walk over a child's parents adds nothing  *)
(* here: an exact shape's parent is an expression kind, which its own rule *)
(* decides, a capture's rule always answers, the parents of a class are    *)
(* classes, which the subclass walk decides, and the parent of an          *)
(* expression kind is whatever the registry names core/Expr, no shape of   *)
(* these graphs.  Also left out: the rule of a named view of a shape       *)
(* (NamedShape), which asks the shape viewed, and that of hooked shapes.   *)
(***************************************************************************)
EXTENDS ShapeMeaning, SequencesExt

CONSTANTS
  Compared,   \* the shapes that may be compared
  Probes,     \* the probe lists a caller may pass: sequences of <<expr, path>>
  Members,    \* the Venn sets a caller may build: sequences of [name, shape]
  Fuel        \* the recursion budget of a check

ASSUME RelateAssumption ==
  /\ Compared \subseteq Shape /\ Fuel \in Nat
  /\ Probes \subseteq Seq(Expr \X Paths)
  /\ Members \subseteq Seq([name: Symbol, shape: Shape]) \ {<<>>}

(* The subclass walk answers whether a class is above another (ClassWalk). *)
ASSUME SubclassAssumption ==
  \A p, q \in Subclass : p[2] = q[1] => <<p[1], q[2]>> \in Subclass

(* The registry names one instance shape for a class, whoever asks for it. *)
ASSUME RegistryAssumption ==
  \A a, b \in {s \in Shape : Node[s].kind = "class"} :
    Node[a].name = Node[b].name => Node[a].kids = Node[b].kids

VARIABLES
  left, right,   \* the shapes compared
  probes,        \* the probes
  outcome,       \* what the shapes at hand make of every term, as value and expression
  step,          \* where the comparison is
  below,         \* the inclusions found: left_to_right, right_to_left
  apart,         \* the rule that separates the shapes, None if none does
  witnesses,     \* what the probes showed so far
  answer,        \* the relation reported
  venn,          \* the Venn set asked, <<>> while a comparison runs
  region         \* the region asked for: its name, the members named, its outcomes

vars == <<left, right, probes, outcome, step, below, apart, witnesses, answer, venn, region>>

KindOf(s) == Node[s].kind
KidsOf(s) == Node[s].kids
Positions(s) == DOMAIN KidsOf(s)

-----------------------------------------------------------------------------
(* Subshape rules.  A rule names the premises under which it applies: a    *)
(* set of ways to apply it, each a set of inclusions it asks for.          *)

Effectful[s \in Shape] ==
  \/ KindOf(s) = "effectful"
  \/ KindOf(s) \in {"and", "or", "best", "oneOf", "not", "list", "repeat", "table", "fields",
                    "capture", "pratt", "defs"}
     /\ \E i \in Positions(s) : Effectful[KidsOf(s)[i]]
  \/ Node[s].rest # None /\ Effectful[Node[s].rest]
  \/ \E i \in DOMAIN Node[s].defs : Effectful[Node[s].defs[i].shape]

When(condition, premises) == IF condition THEN {premises} ELSE {}

AndRule(a, b) ==
  {{<<KidsOf(a)[i], b>>} : i \in Positions(a)}
  \cup IF KindOf(b) # "and" THEN {}
       ELSE {{<<KidsOf(a)[f[j]], KidsOf(b)[j]>> : j \in Positions(b)} :
               f \in [Positions(b) -> Positions(a)]}

OrRule(a, b) == {{<<KidsOf(a)[i], b>> : i \in Positions(a)}}

NotRule(a, b) == When(KindOf(b) = "not", {<<KidsOf(b)[1], KidsOf(a)[1]>> : i \in Positions(b)})

SameKind(a, b) == KindOf(a) = KindOf(b)

(* Child by child, and rest by rest when both have one.                    *)
Pairwise(a, b) ==
  {<<KidsOf(a)[i], KidsOf(b)[i]>> : i \in Positions(a) \cap Positions(b)}
  \cup ({Node[a].rest} \ {None}) \X ({Node[b].rest} \ {None})

WrapperRule(a, b) == When(SameKind(a, b), Pairwise(a, b))

ListRule(a, b) ==
  When(/\ SameKind(a, b) /\ Len(KidsOf(a)) = Len(KidsOf(b))
       /\ Node[a].rest = None <=> Node[b].rest = None,
       Pairwise(a, b))

RepeatRule(a, b) ==
  When(/\ SameKind(a, b) /\ Node[b].min <= Node[a].min
       /\ Node[b].max # None => Node[a].max # None /\ Node[a].max <= Node[b].max,
       Pairwise(a, b))

(* The first field with a key, 0 when there is none.                       *)
FieldAt(s, key) ==
  LET at == {i \in Positions(s) : Node[s].keys[i] = key} IN IF at = {} THEN 0 ELSE Min(at)

(* Mutant: an open child may put anything under an optional key of the     *)
(* parent.                                                                 *)
OpenFieldCompatible(a, b, j) ==
  LET i == FieldAt(a, Node[b].keys[j]) IN
  IF i # 0 THEN Node[b].needed[j] => Node[a].needed[i] ELSE ~Node[b].needed[j]
ParentFieldCompatible(a, b, j) ==
  LET i == FieldAt(a, Node[b].keys[j]) IN
  IF i # 0 THEN Node[b].needed[j] => Node[a].needed[i]
  ELSE ~Node[b].needed[j] /\ Node[a].extra # "allow"

(* What the child puts under a key of the parent, itself or as an extra.   *)
ParentFieldPremises(a, b, j) ==
  LET i == FieldAt(a, Node[b].keys[j]) IN
  IF i # 0 THEN {<<KidsOf(a)[i], KidsOf(b)[j]>>}
  ELSE {<<x, KidsOf(b)[j]>> : x \in {Node[a].rest} \ {None}}

NewFields(a, b) == {i \in Positions(a) : FieldAt(b, Node[a].keys[i]) = 0}

ExtraAtLeastAsStrict(a, b) ==
  \/ Node[b].extra = "allow" \/ Node[a].extra = "reject"
  \/ Node[a].extra = "shape" /\ Node[b].extra = "shape"

TableRule(a, b) ==
  When(/\ SameKind(a, b)
       /\ \A j \in Positions(b) : ParentFieldCompatible(a, b, j)
       /\ Node[b].extra = "reject" => NewFields(a, b) = {}
       /\ ExtraAtLeastAsStrict(a, b),
       (UNION {ParentFieldPremises(a, b, j) : j \in Positions(b)})
       \cup IF Node[b].extra # "shape" THEN {}
            ELSE {<<KidsOf(a)[i], Node[b].rest>> : i \in NewFields(a, b)}
                 \cup {<<x, Node[b].rest>> : x \in {Node[a].rest} \ {None}})

ExprKindRule(a, b) == When(SameKind(a, b) /\ Node[a].arg = Node[b].arg, {})
ExactRule(a, b) ==
  When(\/ SameKind(a, b) /\ Node[a].arg = Node[b].arg
       \/ KindOf(b) = "exprKind" /\ Term[Node[a].arg].form = Node[b].arg, {})
ClassRule(a, b) == When(SameKind(a, b) /\ ClassMatches(Node[a].name, Node[b].name), {})

OwnRule(a, b) ==
  CASE KindOf(a) = "exprKind" -> ExprKindRule(a, b)
    [] KindOf(a) = "exact" -> ExactRule(a, b)
    [] KindOf(a) = "class" -> ClassRule(a, b)
    [] KindOf(a) = "and" -> AndRule(a, b)
    [] KindOf(a) \in {"or", "best", "oneOf"} -> OrRule(a, b)
    [] KindOf(a) = "not" -> NotRule(a, b)
    [] KindOf(a) = "capture" -> {{<<KidsOf(a)[1], b>>}}
    [] KindOf(a) = "effectful" -> WrapperRule(a, b)
    [] KindOf(a) = "list" -> ListRule(a, b)
    [] KindOf(a) = "repeat" -> RepeatRule(a, b)
    [] KindOf(a) = "table" -> TableRule(a, b)
    [] OTHER -> {}

(* The kernel's own rule: whatever has no effects is below Any.  No other  *)
(* shape that says it is total is granted as much.                         *)
BelowAny(a, b) == KindOf(b) = "any" /\ ~Effectful[a]

Subshape[pair \in Shape \X Shape] ==
  \/ BelowAny(pair[1], pair[2])
  \/ \E premises \in OwnRule(pair[1], pair[2]) : \A p \in premises : Subshape[p]

-----------------------------------------------------------------------------
(* Normal forms: nested conjunctions and disjunctions are flattened, a     *)
(* shape with no structure to show is an atom or opaque under its label.   *)

(* The name a shape describes itself by; the two disjunctions share one.   *)
Label[s \in Shape] ==
  CASE KindOf(s) = "exprKind" -> <<"expr-kind", Node[s].arg>>
    [] KindOf(s) \in {"class", "capture", "fields"} -> <<KindOf(s), Node[s].name>>
    [] KindOf(s) = "effectful" -> <<"effectful">> \o Label[KidsOf(s)[1]]
    [] KindOf(s) = "best" -> <<"or">>
    [] OTHER -> <<KindOf(s)>>

NormalKind(s) ==
  CASE KindOf(s) \in {"or", "best", "oneOf"} -> "or"
    [] KindOf(s) \in {"and", "not", "list", "table", "repeat"} -> KindOf(s)
    [] KindOf(s) \in {"any", "number", "ref", "defs"} -> "atom"
    [] OTHER -> "opaque"

(* The parts of a conjunction under a conjunction, of a disjunction under  *)
(* a disjunction, take the place of the part itself.                       *)
Spliced(kind, part) == IF part.kind = kind THEN part.parts ELSE <<part>>

Normal[s \in Shape] ==
  [kind   |-> NormalKind(s),
   label  |-> Label[s],
   parts  |-> CASE NormalKind(s) \in {"and", "or"} ->
                     FlattenSeq([i \in Positions(s) |-> Spliced(NormalKind(s), Normal[KidsOf(s)[i]])])
                [] NormalKind(s) \in {"not", "list", "table", "repeat"} ->
                     [i \in Positions(s) |-> Normal[KidsOf(s)[i]]]
                [] OTHER -> <<>>,
   rest   |-> IF NormalKind(s) # "list" \/ Node[s].rest = None THEN <<>>
              ELSE <<Normal[Node[s].rest]>>,
   keys   |-> IF NormalKind(s) = "table" THEN Node[s].keys ELSE <<>>,
   closed |-> NormalKind(s) = "table" /\ Node[s].extra = "reject",
   range  |-> IF NormalKind(s) = "repeat" THEN <<Node[s].min, Node[s].max>> ELSE <<>>]

NotOf(a, b) == KindOf(a) = "not" /\ Normal[KidsOf(a)[1]] = Normal[b]

ExactExprsDiffer(a, b) == KindOf(a) = "exact" /\ KindOf(b) = "exact" /\ Node[a].arg # Node[b].arg

(* Mutant: the rest of an open list is forgotten.                          *)
LengthsDiffer(a, b) ==
  KindOf(a) = "list" /\ KindOf(b) = "list" /\ Len(KidsOf(a)) # Len(KidsOf(b))
FixedListLengthsDiffer(a, b) ==
  /\ KindOf(a) = "list" /\ Node[a].rest = None
  /\ KindOf(b) = "list" /\ Node[b].rest = None
  /\ Len(KidsOf(a)) # Len(KidsOf(b))

FirstNeeded(s, key) ==
  LET at == {i \in Positions(s) : Node[s].needed[i] /\ Node[s].keys[i] = key} IN
  IF at = {} THEN 0 ELSE Min(at)

(* A pair of shapes both ways around.                                      *)
BothWays(a, b) == {<<a, b>>, <<b, a>>}

(* The shapes of the fields both tables must have that are in no subshape  *)
(* relation.                                                               *)
ClosedTableFields(a, b) ==
  IF \A s \in {a, b} : KindOf(s) = "table" /\ Node[s].extra = "reject"
  THEN {p \in {<<KidsOf(a)[i], KidsOf(b)[FirstNeeded(b, Node[a].keys[i])]>> :
                 i \in {i \in Positions(a) : Node[a].needed[i] /\ FirstNeeded(b, Node[a].keys[i]) # 0}} :
          \A q \in BothWays(p[1], p[2]) : ~Subshape[q]}
  ELSE {}

(* static_disjoint: the rule that separates the shapes, None if none does. *)
Separation[pair \in Shape \X Shape] ==
  LET a == pair[1]  b == pair[2] IN
  CASE \E p \in BothWays(a, b) : NotOf(p[1], p[2]) -> "negation"
    [] ExactExprsDiffer(a, b) -> "exact"
    [] FixedListLengthsDiffer(a, b) -> "lengths"
    [] \E p \in ClosedTableFields(a, b) : Separation[p] # None -> "field"
    [] OTHER -> None

-----------------------------------------------------------------------------
(* relate_shapes.                                                          *)

Report(kind, proven) == answer' = [kind |-> kind, proven |-> proven] /\ step' = "done"

NoRegion == [kind |-> "none", names |-> {}, sts |-> <<>>]
Checked ==
  [s \in Shape |-> [t \in Expr \X Paths |-> Meaning[Asking(Job(s, t[1], t[2]), <<>>, Fuel)].st]]

Init ==
  /\ left \in Compared /\ right \in Compared /\ probes \in Probes
  /\ outcome = [s \in {left, right} |-> Checked[s]]
  /\ step = "compare" /\ below = {} /\ apart = None /\ witnesses = <<>>
  /\ answer = [kind |-> "None", proven |-> FALSE]
  /\ venn = <<>> /\ region = NoRegion

(* A description or a class of the host failed.                            *)
RelateFails ==
  /\ step \in {"compare", "separate"}
  /\ Report("Failed", FALSE)
  /\ UNCHANGED <<left, right, probes, outcome, below, apart, witnesses, venn, region>>

Compare ==
  /\ step = "compare"
  /\ below' = {p \in BothWays(left, right) : Subshape[p]}
  /\ step' = "separate"
  /\ UNCHANGED <<left, right, probes, outcome, apart, witnesses, answer, venn, region>>

Direction(l, r) ==
  CASE l /\ r -> "Equal" [] l /\ ~r -> "LeftSubshape" [] ~l /\ r -> "RightSubshape"

FindSubshape ==
  /\ step = "separate" /\ below # {}
  /\ Report(Direction(<<left, right>> \in below, <<right, left>> \in below), TRUE)
  /\ UNCHANGED <<left, right, probes, outcome, below, apart, witnesses, venn, region>>

Separate ==
  /\ step = "separate" /\ below = {}
  /\ apart' = Separation[<<left, right>>]
  /\ step' = "probe"
  /\ UNCHANGED <<left, right, probes, outcome, below, witnesses, answer, venn, region>>

(* Mutant: the comparison does not return when it found them disjoint.     *)
FindDisjointGoesOn ==
  /\ step = "probe" /\ apart # None
  /\ answer' = [kind |-> "Disjoint", proven |-> TRUE]
  /\ UNCHANGED <<left, right, probes, outcome, step, below, apart, witnesses, venn, region>>

FindDisjoint ==
  /\ step = "probe" /\ apart # None
  /\ Report("Disjoint", TRUE)
  /\ UNCHANGED <<left, right, probes, outcome, below, apart, witnesses, venn, region>>

ProbeNext == probes[Len(witnesses) + 1]

(* Mutant: a shape that fails on a probe counts as not accepting it.       *)
RunProbeFailing ==
  /\ step = "probe" /\ apart = None /\ Len(witnesses) < Len(probes)
  /\ witnesses' = Append(witnesses, [left |-> outcome[left][ProbeNext] = "accept",
                                     right |-> outcome[right][ProbeNext] = "accept"])
  /\ UNCHANGED <<left, right, probes, outcome, step, below, apart, answer, venn, region>>

RunProbe ==
  /\ step = "probe" /\ apart = None /\ Len(witnesses) < Len(probes)
  /\ \A s \in {left, right} : outcome[s][ProbeNext] # "error"
  /\ witnesses' = Append(witnesses, [left |-> outcome[left][ProbeNext] = "accept",
                                     right |-> outcome[right][ProbeNext] = "accept"])
  /\ UNCHANGED <<left, right, probes, outcome, step, below, apart, answer, venn, region>>

ProbeFails ==
  /\ step = "probe" /\ apart = None /\ Len(witnesses) < Len(probes)
  /\ \E s \in {left, right} : outcome[s][ProbeNext] = "error"
  /\ Report("Failed", FALSE)
  /\ UNCHANGED <<left, right, probes, outcome, below, apart, witnesses, venn, region>>

Common(w) == w.left /\ w.right

Conclude ==
  /\ step = "probe" /\ apart = None /\ Len(witnesses) = Len(probes)
  /\ Report(IF \E i \in DOMAIN witnesses : Common(witnesses[i]) THEN "Overlap" ELSE "Unknown", FALSE)
  /\ UNCHANGED <<left, right, probes, outcome, below, apart, witnesses, venn, region>>

-----------------------------------------------------------------------------
(* VennShapeSet: regions built from the members with and, or and not.      *)

(* Members are checked in order; the first that does not accept, or does   *)
(* not reject, decides.                                                    *)
On(t, i) == outcome[venn[i].shape][t]
AllOf(t, at) ==
  LET bad == {i \in at : On(t, i) # "accept"} IN IF bad = {} THEN "accept" ELSE On(t, Min(bad))
AnyOf(t, at) ==
  LET good == {i \in at : On(t, i) # "reject"} IN IF good = {} THEN "reject" ELSE On(t, Min(good))
NoneOf(t, at) ==
  CASE AnyOf(t, at) = "accept" -> "reject" [] AnyOf(t, at) = "reject" -> "accept" [] OTHER -> "error"

(* All members at the first places accept, and none at the others does.    *)
OnlyThese(t, at, others) ==
  IF AllOf(t, at) # "accept" \/ others = {} THEN AllOf(t, at) ELSE NoneOf(t, others)

NamesOfVenn      == {venn[i].name : i \in DOMAIN venn}
Selected(names)  == {i \in DOMAIN venn : venn[i].name \in names}
Remaining(names) == DOMAIN venn \ Selected(names)

(* Mutant: the members of the selected name are left among the others.     *)
OnlyOnItsOwn(t, name) == OnlyThese(t, {Min(Selected({name}))}, DOMAIN venn)

(* `only` checks the first member of the name against those of other names.*)
Only(t, name) == OnlyThese(t, {Min(Selected({name}))}, Remaining({name}))

RegionOn(t, kind, names) ==
  CASE kind = "union"        -> AnyOf(t, DOMAIN venn)
    [] kind = "intersection" -> AllOf(t, DOMAIN venn)
    [] kind = "outside_all"  -> NoneOf(t, DOMAIN venn)
    [] kind = "only"         -> Only(t, CHOOSE n \in names : TRUE)
    [] kind = "exactly"      -> OnlyThese(t, Selected(names), Remaining(names))

(* A caller builds a Venn set instead of comparing (bound: in the place of *)
(* comparing its first member with itself without probes).                 *)
BuildVenn ==
  /\ step = "compare" /\ probes = <<>> /\ left = right
  /\ \E members \in Members : members[1].shape = left /\ venn' = members
  /\ outcome' = [s \in {venn'[i].shape : i \in DOMAIN venn'} |-> Checked[s]]
  /\ step' = "venn"
  /\ UNCHANGED <<left, right, probes, below, apart, witnesses, answer, region>>

AskRegion(kind, names) ==
  /\ step = "venn" /\ names \subseteq NamesOfVenn
  /\ region' = [kind |-> kind, names |-> names,
                sts |-> [t \in Expr \X Paths |-> RegionOn(t, kind, names)]]
  /\ Report("Region", FALSE)
  /\ UNCHANGED <<left, right, probes, outcome, below, apart, witnesses, venn>>

UnknownMember(names) ==
  /\ step = "venn" /\ ~(names \subseteq NamesOfVenn)
  /\ Report("Failed", FALSE)
  /\ UNCHANGED <<left, right, probes, outcome, below, apart, witnesses, venn, region>>

VennNames == {m.name : m \in UNION {{ms[i] : i \in DOMAIN ms} : ms \in Members}}
Regions ==
  \/ \E kind \in {"union", "intersection", "outside_all"} : AskRegion(kind, {})
  \/ \E name \in VennNames : AskRegion("only", {name}) \/ UnknownMember({name})
  \/ \E names \in SUBSET VennNames : AskRegion("exactly", names) \/ UnknownMember(names)

Next ==
  \/ RelateFails \/ Compare \/ FindSubshape \/ Separate \/ FindDisjoint
  \/ RunProbe \/ ProbeFails \/ Conclude \/ BuildVenn \/ Regions

Spec == Init /\ [][Next]_vars

(* shape_query_matches: the candidate is on the left.                      *)
QueryAnswers(query) ==
  CASE query = "Subsumes" -> {"Equal", "RightSubshape"}
    [] query = "SubshapeOf" -> {"Equal", "LeftSubshape"}
    [] query = "Overlaps" -> {"Equal", "LeftSubshape", "RightSubshape", "Overlap"}

-----------------------------------------------------------------------------
(* Properties.                                                             *)

Relations == {"Equal", "LeftSubshape", "RightSubshape", "Overlap", "Disjoint", "Unknown"}

(* Types: a relation is reported exactly when the comparison is done, and  *)
(* no more witnesses are kept than probes were asked for.                  *)
TypeOK ==
  /\ left \in Compared /\ right \in Compared /\ probes \in Probes
  /\ step \in {"compare", "separate", "probe", "venn", "done"}
  /\ below \subseteq BothWays(left, right)
  /\ apart \in {None, "negation", "exact", "lengths", "field"}
  /\ witnesses \in Seq([left: BOOLEAN, right: BOOLEAN]) /\ Len(witnesses) <= Len(probes)
  /\ answer \in [kind: Relations \cup {"None", "Failed", "Region"}, proven: BOOLEAN]
  /\ venn \in Members \cup {<<>>}
  /\ step = "done" <=> answer.kind # "None"

Takes(s) == {t \in Expr \X Paths : outcome[s][t] = "accept"}
Refused(s) == {t \in Expr \X Paths : outcome[s][t] = "reject"}

(* What a relation takes on trust: that the instance shapes the registry   *)
(* names honour the class hierarchy, and that a shape that says it accepts *)
(* everything does (an open table without fields rejects what is no map).  *)
HierarchyHonoured ==
  \A a, b \in {s \in Shape : KindOf(s) = "class"} :
    ClassMatches(Node[a].name, Node[b].name) =>
      \A e \in Expr : Checked[a][<<e, "expr">>] = "accept" => Checked[b][<<e, "expr">>] # "reject"
Trusted == HierarchyHonoured /\ \A s \in Shape : KindOf(s) = "table" => ~Total[s]

(* A subshape relation reported as proven holds of every term, as a value  *)
(* and as an expression: what the smaller shape accepts the other does not *)
(* reject (it may fail where the smaller one never looks).                 *)
SubshapeIsInclusion ==
  Trusted =>
    /\ answer.kind \in {"Equal", "LeftSubshape"} => Takes(left) \cap Refused(right) = {}
    /\ answer.kind \in {"Equal", "RightSubshape"} => Takes(right) \cap Refused(left) = {}

(* A shape its normal form describes completely.                           *)
Transparent[s \in Shape] ==
  \/ KindOf(s) = "class"
  \/ /\ KindOf(s) \in {"any", "exprKind", "number", "and", "or", "best", "oneOf", "not", "list",
                       "repeat"}
     /\ \A i \in Positions(s) : Transparent[KidsOf(s)[i]]
     /\ Node[s].rest # None => Transparent[Node[s].rest]

(* A shape separated from another by no negation whose normal form leaves  *)
(* something out: neither by its own nor by that of a field.               *)
Candid[s \in Shape] ==
  /\ KindOf(s) = "not" => Transparent[s]
  /\ KindOf(s) = "table" => \A i \in Positions(s) : Candid[KidsOf(s)[i]]

(* Shapes reported as disjoint accept no common term, unless negation      *)
(* separated them and the normal form it looked at leaves something out.   *)
DisjointIsApart ==
  answer.kind = "Disjoint" /\ Candid[left] /\ Candid[right] => Takes(left) \cap Takes(right) = {}

(* "The shapes are conservatively known to have no common values."         *)
DisjointIsKnown == answer.kind = "Disjoint" => Takes(left) \cap Takes(right) = {}

Hits == {i \in DOMAIN probes : probes[i] \in Takes(left) \cap Takes(right)}

Answered(t) == \A s \in {left, right} : outcome[s][t] # "error"

(* An overlap is a term both accept, found by a probe; "unknown" means no  *)
(* probe found one.  Neither is called proven, and the rest always is;     *)
(* neither is reported when a shape failed on some probe.                  *)
ProbesDecide ==
  /\ answer.kind = "Overlap" => Hits # {}
  /\ answer.kind = "Unknown" => Hits = {}
  /\ answer.kind \in {"Overlap", "Unknown"} => \A i \in DOMAIN probes : Answered(probes[i])
  /\ answer.proven <=> answer.kind \in Relations \ {"Overlap", "Unknown"}

(* Shapes overlap when they "have at least one known value in common": a   *)
(* query for that, which probes nothing, about shapes that never fail.     *)
OverlapIsShared ==
  /\ probes = <<>> /\ answer.kind \in QueryAnswers("Overlaps")
  /\ \A s \in {left, right} : Takes(s) \cup Refused(s) = Expr \X Paths
  => Takes(left) \cap Takes(right) # {}

(* The members that accept a term, and a term no member fails on.          *)
Inside(t)  == {i \in DOMAIN venn : On(t, i) = "accept"}
Settled(t) == \A i \in DOMAIN venn : On(t, i) # "error"

Belongs(t) ==
  LET asked == Selected(region.names) IN
  CASE region.kind = "union"        -> Inside(t) # {}
    [] region.kind = "intersection" -> Inside(t) = DOMAIN venn
    [] region.kind = "outside_all"  -> Inside(t) = {}
    [] region.kind = "only"         -> Min(asked) \in Inside(t) /\ Inside(t) \subseteq asked
    [] region.kind = "exactly"      -> Inside(t) = asked

(* A region accepts a term exactly when the members that accept it are     *)
(* those the region is named for; with several members of one name, `only` *)
(* asks the first of them and `exactly` all.  A member that fails can only *)
(* keep a term out, or fail the check of a union's later members.          *)
RegionsAreExact ==
  answer.kind = "Region" =>
    \A t \in Expr \X Paths :
      /\ region.sts[t] = "accept" => Belongs(t)
      /\ region.sts[t] = "reject" => ~Belongs(t)
      /\ Settled(t) => region.sts[t] # "error"
=============================================================================
