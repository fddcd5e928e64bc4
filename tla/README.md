# sim-shape in TLA+

Specifications, model-checking runs and machine-checked proofs for the
sim-shape crate (`src/`). A *shape* is a check: it accepts or rejects an
expression (`check_expr`) or a value (`check_value`), with a score, captures
and diagnostics. On top of the checks the crate builds overload selection,
demand-driven calls, hooks around a check, comparison of shapes, a grammar, a
small expression language for shapes and a codec.

Paths below are relative to the repository root.

## 1. The system

### Components

| component | source | state | operations |
|---|---|---|---|
| recursion budget | `src/recursion.rs` | thread-local `SHAPE_DEPTH`, at most `MAX_SHAPE_DEPTH` | `DepthGuard::enter` and its drop |
| class walk | `src/recursion.rs`, `ClassShape` in `src/primitives/atomic.rs` | local: the visited classes | `class_is_subclass_of_guarded`; pruning of cyclic parent edges from the parents a class shape reports |
| definitions and references | `src/recursive.rs` | thread-local `DEF_STACK` of definition scopes | `ShapeDefs` pushes a scope, `ShapeDefRef` resolves a name in the innermost scope that has it |
| primitives | `src/primitives/*` | none (immutable shapes) | atoms, classes, lists, tables by field, captures, one-of, Pratt-parsed text, effectful shapes |
| algebra | `src/algebra/*` | none | and, or, not, best score; table, object field, repeat |
| overload selection | `src/functions/select.rs` | local: matches, best so far | `select_best_case`, `compare_cases` |
| demand-aware calls | `src/functions/demand.rs`, `src/functions.rs` | local: groups, matched groups, deferred error; prepared arguments | `Callable::call`, `call_exprs_with_demands`, `call_matched_group` |
| hooks | `src/hooks/*` | local: the match as hooks change it | `HookedShape::check_*`, the four built-in hooks, open host hooks |
| comparison | `src/compare/*`, `src/query.rs` | Venn: named members | `normalize_shape`, `relate_shapes`, `static_disjoint`, the regions of a `VennShapeSet`, shape queries |
| shape expressions | `src/parse.rs` | draws on the budget | `parse_shape_expr` |
| grammar | `src/grammar.rs`, `src/grammar/graph.rs` | graph under construction | `shape_grammar_graph`, `shape_json_schema`, `shape_grammar` |
| citizen codec | `src/citizen/*` | registration tables | `encode_shape_expr`, `decode_shape_value`, the constructors of shape classes and hooks |
| browsing | `src/functions/browse_signature.rs`, `shape_object.rs` | none | delegating views |
| options, diagnostics, duplicate keys | `src/options.rs`, `diagnostics.rs`, `duplicate_keys.rs` | none | helpers of the above |
| relation shapes | `crates/sim-relation-shape/` | none | cell, row and record shapes over a catalog of domains |
| build tasks, recipes | `xtask/`, `recipes/` | none | developer checks, example programs |

The kernel crate (`sim-kernel`: the context, the `Shape` trait, the class
registry, `shape_is_subshape_of`, the evaluator) is not in the repository; it is
modelled from how the crate calls it and is marked external in `PROJECT.json`.

### How they interact

Everything is synchronous and single-threaded; parts talk by calls and
callbacks, and by the two thread-local variables. A shape calls its children's
checks; a class shape calls the instance shape the registry names; a hook, a
parser or a foreign shape is host code and may call a check again, *inside* one
that runs: it then finds the budget partly spent. Selection calls the checks
of the case's argument shapes and the subshape relation; a demand-aware call
calls the evaluator between selections; comparison calls the subshape rules
and probes the checks; the parser spends the checks' budget; a constructor
encodes what it makes before it returns it; a cell checks its value with the
shape its domain declares.

### What is hard here

* shared thread-local state restored on every way out of a deep recursion:
  early return, rejection, `?` error, exhausted budget;
* self-referential definitions and classes: termination by a budget, and what
  an exhausted budget *means* for the combinators above it;
* accumulators under short circuits (scores, captures, leftmost or best branch);
* a selection that makes one pass with a comparison that is not transitive;
* effects that cannot be taken back (forcing an argument) ordered before it is
  known which case applies, with failures put aside meanwhile;
* passes of callbacks each of which sees what the earlier ones left;
* relations reported as *proven* and used without looking at a value;
* machine-word score arithmetic.

There are no threads, no messages, no persistence and no timeouts; hazards of
those kinds are not listed. `PROJECT.json` lists the others, each at its line.

### What makes each component correct

* budget and scopes: at every moment each is the sum of what the open frames
  hold, so a check leaves nothing behind and always ends;
* checks: a check's answer is a function of shape, term, scopes and remaining
  budget: the one its combinators mean; a smaller budget can turn an accept
  into a reject and not the reverse;
* class walk: the answer is reachability, on cyclic hierarchies too; of the
  parents exactly those that lead back to the class are not reported;
* selection: nothing of a higher priority, nothing strictly more specific at
  the same priority, and nothing it cannot be ordered against, is passed over;
* calls: arguments are forced from the highest priority down and from the
  least forcing plan up, each plan once; no failure is forgotten;
* hooks: the verdict is the one told by the hooks' own diagnostics;
* comparison: a proven relation is true of every term;
* parser: an expression is read as what the grammar says, or refused for the
  reason it has, whatever was parsed or failed before;
* grammar: a lowered graph describes the terms the shape accepts, references
  through the flattened definitions included;
* codec: what can be written reads back as the same shape, and whatever is read
  can be written.

## 2. The modules

| module | what it is |
|---|---|
| `ShapeGraph` | the static world: shapes as a graph of records, terms, and the loop every kind of shape runs, relation shapes included: what it refuses on entry, its children in order, where it stops; `Height`, that shapes are built from shapes that exist |
| `MatchEngine` | check_expr / check_value as a stack machine over the two thread-locals |
| `ShapeMeaning` | the result of a check as a recursive function, no stack: a question, the places at which it asks something, the part asked at each, and the `Outcome` the answers make; the reference `MatchEngine`, `Relate` and `Grammar` are held against |
| `MatchMeaning` | the engine held against that meaning: what `AnswerIsMeaning` and `FailsClosed` say, and of which shapes |
| `ShapeBuild` | short forms to write shapes and terms down for TLC |
| `ClassWalk` | the walk up a class hierarchy and the pruning of parent edges |
| `OverloadCases` | the cases of a function and their priorities, which `Selection` and `DemandCall` share |
| `OverloadChoice` | what a selection promises: the abstract specification |
| `Selection` | `select_best_case`, which implements it |
| `FunctionCall` | what a call promises, on values or on expressions: the abstract specification |
| `DemandCall` | `Callable::call` and `call_exprs` with demands, which implement it |
| `Hooks` | a hooked shape's check |
| `Relate` | subshape rules, normal forms, disjointness, `relate_shapes`, queries, Venn regions; composed with `ShapeMeaning` |
| `ShapeTree` | shapes as the trees that parser and codec build |
| `ShapeParse` | `parse_shape_expr` as a stack machine over the budget |
| `Codec` | `encode_shape_expr`, `decode_shape_value`, the constructors |
| `Notation` | parser and codec composed: parse, store, edit, restore |
| `Grammar` | lowering, and rendering as JSON Schema; composed with `ShapeMeaning` |
| `MC*` | the instances TLC checks |
| `*Proofs` | theorems and their proofs; `ShapeMeaningProofs` holds the lemmas about `ShapeGraph` and `ShapeMeaning` that the others share |

`PROJECT.json` maps every definition to its lines. Each module also holds a few
operators marked *Mutant*: a plausible mistake in one definition. They are not
part of any specification; with such an operator in the definition's place TLC
reports the property's violation, which shows that the run could.

### ShapeGraph and MatchEngine

A shape is a record with a kind, its children in visiting order and its
parameters; a graph instead of a tree, so a class may name itself. A term is an
expression or the value that prints as it; `path` says which of the two checks
runs, and the two differ where the code's do (number scores, classes, vectors
in a repeat, a list value's tail walk).

One frame of the stack is one active Rust call: `i` is the position of its
loop, `score`, `caps` and `pick` the match it builds, `held` the guard it owns.
The actions are one per way through the code: a leaf answers; a reference is
refused by the budget, undefined or resolved; a definition opens its scope; a
class answers by itself, is cut by the budget or opens its instance shape; a
loop refuses, blocks, skips, calls or finishes; a return goes on, stops or is
passed up; an error unwinds. `Leave` runs the frame's destructor and is the
only operator that shortens the stack. `Begin` and `Deliver` are the caller: a
thread makes check after check, and starts with `base` levels held, because
it may be inside another check.

A relation cell finds its domain in the record, then checks the cell's value
with that domain's shape; a row reads its vector of cells one by one with its
own cell shape; a record shape looks at nothing but the tag. They are three kinds
of the same loop.

Left out: diagnostics (wording), and that the host fails where a check asks a term
for a view of itself (its expression, its table, its class, a class's parents or
instance shape): shapes of the kind `fails` stand for such failures, which unwind the
same way. A value that is itself a class is asked twice by the code, once in the
model. What `class_is_subclass_of_guarded` answers is the
constant `Subclass`: `ClassWalk` is the module for how it is found.

### ClassWalk

Of the calls of `subclass_walk`, `stack` holds those in progress, each with the
parent its loop is at; `enter` is the class a call begins with. `edge = 0` is a
question of `class_is_subclass_of_guarded`, otherwise `edge` is the place of
`ClassShape::parents` in the class's parent list, and every parent starts a walk
of its own with an empty visited set. A class may fail to say its parents. The
hierarchy is arbitrary but does not change while one question is answered; a
class shape whose symbol names no class reports no parents and is left out.

### Selection

`SelectInit` ranges over all sorted sequences of accepted cases; the pass is `Keep` /
`Replace`, the second pass `Ambiguous` / `Select`. The proven subshape relation
is any relation in `Subshapes`, since nothing makes the shapes' answers
transitive. `compare_cases` may fail.

`OverloadChoice` knows no sequence and no pass: a set of accepted cases and one
decision about it. `Choice` maps `Selection` to it: `accepted` is the set of
matches, the outcome is open until the second pass has answered.

### DemandCall

`StartLevel` groups the top priority's cases by the set of arguments they
force, and refuses incomparable plans; `Prepare` / `PrepareFails` forces for the
least forcing pending plan; `Missed`, `Matched`, `MatchFails` are what the
selection among the group says (any case of it: `Selection` is the module for
which); `NoneMatched` keeps the first error and goes to the next priority;
`RefineArg`, `Run`, `CheckResult` and their failures are `call_matched_group`: the
prepared arguments are forced again, one by one, for the selected case's own
demands, before its implementation runs and its result is checked. A call on
values enters there after `select_case`. `log` is a history variable: every
preparation in order with its outcome.

`FunctionCall` has no groups, no levels, no deferred error: a call prepares plans
in an order, commits to a case of the last plan it prepared, runs it once and
ends. `Promised` maps `DemandCall` to it: `prepared` is the log without outcomes.

### Hooks

The pass order is `NextPass`. A built-in hook follows its rule (`Acts`); a host
hook may pass, act with any score or delta of a set, or fail. A score is a
word of `2*Half` values; an overflowing addition wraps or panics, as the build
has it. `inner` and `calls` are history variables.

### Relate

`Subshape` is the `is_subshape_of` of the primitives and the algebra as one recursive
function; `Normal` is the normal form, with the parts the code drops dropped;
`Separation` is `static_disjoint`. Left out are the rules that hand the question on:
that of a named view of a shape (`functions/shape_object.rs:45-52`) and of hooked
shapes; and the parent `core/Expr` an expression kind reports, which no graph here
holds. Of the kernel's relation only what the crate shows is used: the child's own
rule, and that whatever has no effects is below `Any`.

`relate_shapes` is the machine around them: compare, separate, probe, conclude, with
any host failure on the way; a probe a shape fails on ends it. The five
regions of a Venn set are built from its members by and, or and not, as the
code builds them; a member is a place in the set, since names may repeat.

Two of its predicates say where a relation can be wrong without the rules being
so. `Trusted`: the registry's instance shapes honour the class hierarchy, and no
table says it is total (an open table without fields does, and rejects what is
no map: a list whose tail is a one-of with such a table in it accepts, as a value,
elements none of the choices accepts). `Candid`: no negation separates the shapes by
a normal form that leaves something out; the `look_alike` run shows what happens otherwise.

### ShapeParse, Codec and Notation

`stack` holds the open calls of `parse_shape_expr`, each with what it has read so
far; `Steps` is the list of expressions a rule reads, with `None` where its own
format is wrong, and `Built` what it makes of them. `depth` is the budget, taken
in `Enter` and given back in `Return`.

A datum of `Codec` is an expression or a live value; `Encode` and `Decode` are
recursive functions over trees, with `Bad` and `Refused` for what has no encoding
and what is not read. A shape may hold data (an exact expression, the encodings
of its hooks) and a datum may hold shapes (live values), so the two sets of trees
are defined together, level by level (`Nested`); a shape counts as many levels as
what is written of it (`Sunk`). `WellMade` says which fields the constructors of
each kind fill. `WrittenAs` is one class's encoding, given its parts'; `Constructs`
is whether a class takes the fields it is given, `Inner` the fields it reads as
shapes and `MadeOf` the shape it makes of them.
Every constructor encodes what it makes (`Made`). `Notation`
composes both: a parsed shape is stored, the text may be edited once or be
somebody else's, and it is restored. Outside the crate, and assumed: how the
evaluator turns an expression into a list or a value, the capability
`read_construct` asks for, and that a live shape object is one a constructor
made or a named view of a shape.

### Grammar

`Lowered` is the graph of productions, definitions flattened as the code flattens
them; `Renders` and `Render` are the JSON Schema. The actions are one request from
the first check (`Mismatch`) to the answer. What a graph or a schema *describes*
is not code of the crate: `Admits` and `Conforms` are readers of them, written
from what the productions and keywords mean, and `About` says of a shape where
lowering knowingly describes more or less than the shape accepts.

The schema writes names in two ways of its own. A reference is a JSON pointer with the
name as it is, so a name that would need an escape (the slash of a namespace, `~`)
leads to no definition: `Unescaped` are the names that need none. A field is written
by its local part, `Local`, so fields of two namespaces may become one property. Where
that happens the schema does not follow the graph, and nothing in the repository says
that it must: `GrammarIsShape` asks it only of graphs whose names are kept
(`NamesKept`), and the run has shapes with names of both sorts. Not modelled is how
`json_string` spells a string and the text of a number; terms stand for what is
written of them.

`Nesting` bounds
the levels of a production, `Fuel` the references a reader follows one inside the
other; both are any numbers, the first large enough for the shapes at hand.

## 3. The runs

| run | question | states |
|---|---|---|
| `match` (`MCMatch.cfg`) | are budget and scopes always accounted for, is each answer the meaning, does each check end? | 108 207 |
| `class_walk` | does the walk answer reachability and end, and what is pruned? | 265 248 |
| `selection` | what does the single pass promise, and is it a choice `OverloadChoice` allows? | 352 512 |
| `demand_call` | is forcing minimal and in order, without lost errors, and does a call keep the promise of `FunctionCall`? | 449 079 |
| `hooks` | is the verdict explained, are all hooks asked, do floors hold? | 255 638 |
| `relate` | are proven relations true, do regions hold what they say? | 62 568 |
| `notation` | is what was parsed what was written, does what is stored come back? | 5 204 |
| `grammar` | does a graph describe the shape, and does the schema admit what the graph does? | 1 227 |

Four runs end in a violation; each refutes one sentence of the repository:

* `not_over_budget` (`MCNot.cfg`): `recursion.rs` says matching a
  self-referential shape "must fail closed -- reject". An exhausted budget is
  an ordinary rejection, so under `NotShape` it becomes an acceptance. Without
  negation the sentence holds (`FailsClosed` in `match`).
* `list_tail` (`MCTail.cfg`): `list.rs` says the value path mirrors the
  expression path "so equivalent list values capture like expression forms".
  The value path stops at the first element a total rest accepts without
  binding; a one-of of `String` and a capture of `Any` is total, and may bind a
  later element only. (An or-shape always binds which branch matched, so under it
  the walk goes on.) An open table is the other way to such a rest: it makes a
  one-of around it total, and the walk ends before an element no choice accepts.
* `look_alike` (`MCLookAlike.cfg`): `Disjoint` should mean known to share no
  value. The normal form of an exact shape is its label, so `not (exact 1)` is
  reported as disjoint from `exact 2`.
* `empty_overlap` (`MCOverlap.cfg`): `query.rs` says that shapes overlap when they
  "have at least one known value in common". The query counts every subshape
  relation, and an or-shape without choices is below a number shape by its own rule,
  though no term is accepted by both.

`MCNot` and `MCTail` are in `MCMatch.tla`: the same
specification over graphs that hold little but the shapes in question; `MCOverlap`
compares five shapes of `MCRelate.tla`.

### Bounds, and why they are enough

* `match`: budget `MaxDepth = 3` (64 in the code), every `base` from 0 to 3,
  every term against every shape on both paths. Three levels let a reference be
  resolved twice and then be cut; the linked list of the crate's tests runs out
  on a term four deep and matches on shorter ones. Each kind of shape occurs,
  with children that accept, reject and fail, nested definitions that shadow,
  a definition and a class that refer to themselves.
* `class_walk`: three classes with up to two parents each, all 14 such
  lists of distinct classes or of one class behind a value that is no class:
  cycles of one to three classes, diamonds, a cycle beside the way up.
* `selection`: three cases is the least for which the comparison has circles; two priorities, three
  scores, all reflexive relations, transitive or not.
* `demand_call`: three cases, three priorities, two arguments: comparable and
  incomparable plans, two groups in one priority, failures in two priorities.
* `hooks`: stacks of up to three hooks of ten kinds, words of three bits
  (`Half = 4`), so that lifts and deltas overflow.
* `relate`: all pairs of 59 shapes reaching every branch of every rule; three
  probe lists; 15 Venn sets of up to three members, with shared names and failing
  members. An open table without fields is left out: it says it is total
  although it rejects what is no map (`Trusted`; listed as a hazard). Every shape
  that accepts anything accepts one of the 20 terms.
* `notation`: expressions for every rule of the grammar, well formed and not,
  nested up to five deep on budgets of 4, 3, 1 and 0 free levels; one edit for
  every argument of every text that was stored (a wrong word, another class, a
  missing or further argument, a live value, a foreign shape), and texts for
  the classes the grammar has no word for. `Nesting = 12` bounds the levels of a
  text: what is written of a shape has at most three levels for each of the
  expression it was parsed from (a table: the call, the list of fields, the
  field), and none of the edits is cut off by it. `Spelling` is what symbols are
  spelt with, for TLC all strings.
* `grammar`: 59 shapes, each kind that is lowered and each that is refused,
  alone and inside others, with qualified names of definitions and fields; references are followed `Fuel = 3` times, enough for
  the two shorter of three linked lists. `Nesting = 12` is enough for shapes of
  height five; none here is higher than four.

### Fairness

All liveness properties assume weak fairness of the code's own steps and of
nothing else: a thread that runs a check keeps running it. In `MatchEngine` that
is `Calls \/ Loops \/ Returns \/ Deliver`; `Begin` has no fairness, the caller may
stop asking. Host code that is called (evaluator, hooks, inner shapes,
implementations) answers or fails; host code that never returns is outside.
Deadlock is checked in the matching runs, where the thread always can begin a
new check; the other specifications describe one operation and stop. A parent list is
finite, and the visited set bounds the walk. `Selection` and `DemandCall` are fair
in their whole next-state relation: that a decision is made and that a call ends
are the liveness parts of `ImplementsChoice` and `ImplementsCall`. In `notation`
deadlock is checked too: whatever fails, the next expression can be read.

## 4. The proofs

For every value of the constants, subject to the named assumptions; TLC evaluates
each of them in a run.

| assumption | of | says |
|---|---|---|
| `GraphAssumption` | `ShapeGraph` | shapes and terms are as their constructors build them |
| `HeightAssumption` | `ShapeGraph` | shapes are built of shapes that exist; only names lead back |
| `EngineAssumption` | `MatchEngine` | the budget and what a thread may ask |
| `PositiveAssumption` | `MatchMeaning` | which shapes use no negation |
| `WalkAssumption` | `ClassWalk` | parent lists |
| `CasesAssumption` | `OverloadCases` | priorities are numbers |
| `SelectionAssumption` | `Selection` | scores are numbers, specificity relates cases |
| `DemandAssumption` | `DemandCall` | finitely many cases, demands argument by argument |
| `HooksAssumption` | `Hooks` | words, stacks of hooks, inner answers no hook has spoken in |
| `RelateAssumption`, `SubclassAssumption` | `Relate` | what may be compared, probed and put into a Venn set; the walk's answers are transitive |
| `RegistryAssumption` | `Relate` | one registry names every class's instance shape, whichever shape asks for it |
| `ParseAssumption` | `ShapeParse` | phrases are built of smaller phrases |
| `CodecAssumption` | `Codec` | the class names and the words of the notation can be spelt; "no name" is no name |
| `NotationAssumption` | `Notation` | the names of the grammar can be spelt; a text may have three levels for each level of the parser's budget |
| `GrammarAssumption` | `Grammar` | a production may have two levels for each level of a shape, and two more |

Recursive definitions over shapes, terms and expressions are recursive functions,
and the induction is done by hand: a statement that fails somewhere fails at a
place of least height (or size, or fuel), where it follows from the places below
(`FirstPlace`, in `ShapeMeaningProofs`). That also shows that such a function has the
value its defining equation says (`MeaningEquation`, `SubshapeEquation`, ...).

* `MatchEngineProofs`: `TypeOK` (so the counter never leaves
  `0..MAX_SHAPE_DEPTH`), `BudgetAccounted`, `ScopesAccounted`, and that nothing
  is held between checks. The inductive invariant, `Accounted`, adds to these
  what each frame may hold and when: a frame whose loop has not started holds
  nothing (`Fresh`), nothing is left between checks (`Idle`), and a frame that
  waits for a child has begun its loop and passed its entry checks (`Begun`,
  `Entered`), so that what it gives back on leaving is what it took. Three lemmas
  say what leaving, continuing and calling do to the accounts; each action then
  only shows that what it returns or calls is well typed. Counting holders
  needs the finite-set theorems; that the scopes lie in the order of their
  holders is why the invariant speaks of the holders up to a place.

  `AnswersAreMeant` is the theorem about the answers: `AnswerIsMeaning`. The
  invariant, `Understood`, says that the frames answer a chain of questions, each
  a part of the one below it, and that what a frame has gathered so far is what
  the meanings of its parts so far make of it. Each way on in a loop then
  extends the gathered answer by one part, and each way out shows that the parts
  not asked make no difference: that is where short circuits, the leftmost and
  the best branch and the cut tail of a list are justified. `Meaning` has its
  equation because a part is cheaper than its question: `Cost` counts the budget
  first and the height of the shape within a level of it. `ExhaustionFailsClosed`
  is `FailsClosed`: with more fuel a question about a positive shape that was
  accepted is not rejected, by the same least counterexample (`MeaningDecided`);
  the score and the captures may change, since a branch that was cut may win.
* `ClassWalkProofs`: types, `AnswerIsAbove`, `WalkedOnce`, `ReportsKept`, and that
  the reported parents form no cycle. "Above" quantifies over the sets of
  classes closed under parents, so that no induction over paths is needed. A
  walk stays inside every such set that holds its start: what it finds is
  above. A visited class has a call still at work on it, or all its parents
  are visited (`AllSeen`): when the last call is done the visited set itself is
  closed, and does not hold the goal. The proof does not need finitely many
  classes; that the walk ends does.
* `CallProofs`, on `Selection`: types (`SelectTypeOK`), `PriorityWins`, `NeverSubsumed`,
  `BestIsBest`. The key is `LaterIsSpecific`: in a sorted sequence a later match
  that is preferred has the same priority and is strictly more specific; so
  replacing is a walk down the specificity relation, which transitivity (where
  assumed) turns into "none more specific so far". `SelectionIsChoice`: every step
  is one of `OverloadChoice` or changes nothing it sees; for the step that selects,
  the best match has the top priority (`BestIsTop`) and no rivals.
* `CallProofs`, on `DemandCall`: types, `OneMatch`, `LeastForcing`, `TriedOnce`,
  `NoErrorLost`, `ConflictIsReal`. The invariant's core is `Chain`: past the
  conflict check the plans of a priority form a chain, so ordering by the
  number of forced arguments is ordering by inclusion, and every plan pending
  after a match conflicts with it. `OneMatch` shows that the branch for
  several matched groups is dead code. `ConflictIsReal` needs in addition
  that the log accounts for every case (`Settled`): a match is its last entry and
  forces all that was tried at its priority, and each case of the priority is pending,
  being matched or tried. So a conflict between two plans comes before anything of
  their priority was tried, one with a match names a case that was not tried, and a
  call that commits leaves no more forcing case of that priority. `CallsKeepThePromise` is the refinement:
  the same invariant shows that a further preparation comes after all earlier
  ones in `FunctionCall`'s order.
* `HooksProofs`: types (scores stay words), `TransparentKeepsVerdict`,
  `VerdictExplained`. The invariant says, pass by pass, what verdict the
  diagnostics told so far make of the inner answer. Three further invariants
  carry the rest. `FloorHolds`: the floors of the built-in annotate hooks asked so
  far hold, by `LiftLands`, a lemma of modular arithmetic (a lift that overflows
  still lands on the floor). `HooksAsked`: the calls are in order, and what each
  pass reached so far was asked of all and only the hooks it is owed to.
  `VerdictOfStack`: what the diagnostics of a built-in stack say, pass by pass.

* `NotationProofs`: first the parser, `ParseTypeOK` and `ReadsGrammar`. The grammar
  (`WellFormed`, `Meant`) is a recursive function too, and smaller phrases give it
  its equations. The invariant, `Reading`, says of the open calls that each reads
  the part its caller waits for, holds one level of the budget and has kept, of the
  steps its rule reads, exactly the leading ones, each as what it means; so what is
  built at the end is what the grammar says of the whole phrase, and a refusal has
  the reason the grammar gives.

  Then the codec, `StoredComesBack` and `ValuesAreStorable`, for texts of any number
  of levels. Every part of a shape or a datum is of a lower level, so `Encode`,
  `Decode` and `Storable` have their equations (`EncodeEquation`, `DecodeEquation`),
  and what is written of a shape of `n` levels is a datum of `n` levels
  (`EncodeTyped`): that is why `Sunk` counts what it counts. Three statements then
  follow by the least level at which they fail, class by class. `ComesBack`: what
  is written of a shape, if anything is, reads as that shape. Each class needs that
  its constructor takes the fields `WrittenAs` wrote (`Constructs`), finds the
  children in them in their order (`Inner`) and puts them where they were (`MadeOf`).
  `WrittenIfStorable`: a shape is refused exactly for a part that is a capture, a
  field shape, a number shape, a named shape or a hook of the host.
  `ValuesComeBack`: a shape read from any text, lists for calls and live values in
  it included, is one that can be written, because every constructor encodes what
  it makes and so refuses what holds a live shape that cannot be written; then
  `ComesBack` applies to it.

  The machine's invariant, `Kept`, adds to `Reading` that the text is a datum, that
  an origin is a shape whose encoding the text is, and that what was read back was
  read from the text. That a parsed shape *is* one of `Shapes` is `MeansShape`: an
  expression of `n` levels means a shape of at most `3n`, and the budget bounds `n`.
  `NotationParses` says that the parser in this composition is the parser alone.
* `RelateProofs`: types, `SubshapeIsInclusion`, `DisjointIsApart`, `ProbesDecide`,
  `RegionsAreExact`. `Keeps` says that a proven subshape relation between two shapes is an
  inclusion; every rule keeps it if the pairs it asks about do (`AndKeeps`,
  `ListKeeps`, `TableKeeps`, ...), and those are smaller (`PremisesSmaller`): so
  does every pair (`SubshapeKeeps`). The inclusion is about fuelled answers on both
  paths, with failures: what the smaller shape accepts the larger does not reject.
  A list's rule needs more than its premises: the tail of the smaller list may
  have been cut short by a total rest, so `Keeps` also carries that nothing above
  a total shape rejects; that is why `Trusted` speaks of open tables.

  `DisjointIsApart` is hard only where a negation separates: two shapes have equal
  normal forms, which flatten nested conjunctions and disjunctions, so their
  children need not correspond. `SameFormKeeps` says that shapes of one form keep
  each other's verdicts if the form describes one of them completely
  (`Transparent`). For a junction: the parts of its form are forms of the shapes it
  joins through junctions of its kind. What a conjunction accepts every such shape
  accepts, what it rejects one of them rejects (`EveryPart`, `SomePart`); so two
  conjunctions of one form that part on a term would have two smaller shapes of one
  form that part on it. A class is described by its name because of
  `RegistryAssumption`. The other rules are `SeparationApart`, least pair first.

  The machine's invariant, `Relating`, ties the relation reported to the rules, the probes to
  their witnesses and the regions to their members.
* `GrammarProofs`: `GrammarIsShape`, for every graph of shapes, every term and every
  number of references followed. The machine's part is small (`GrammarInv`: a graph
  is the lowering of the shape asked about, a schema the rendering of a graph that
  can be rendered); the theorem is one about what is computed. Productions and
  schemas have levels (`NestedCases`), a part has fewer than its whole, so lowering,
  rendering and both readers have their equations (`LoweredEquation`,
  `RenderEquation`, `AdmitsEquation`, `ConformsEquation`), a claim with less fuel
  ranking below any with more.

  `GraphDescribes` is the heart: the verdict of a shape in a scope, and what the one
  flat list of definitions admits, agree. `Ready` says of which questions: every
  name free in the shape is defined in the scope, the graph has all that the shape
  and every definition of the scope was lowered to (`Fits`, `ScopesFit`), and no
  name in the graph has two meanings (`Unambiguous`), so the definition the innermost
  scope resolves a name to is the one the graph has for it (`DefinitionFound`).
  Entering definitions keeps all that (`InnerScopesFit`), and so does asking a part
  (`PartReady`); then a least question at which graph and shape part is refuted kind
  by kind (`ListDescribed`, `FieldsDescribed`, `RefDescribed`, ...). The verdict is
  that of `Meaning`, a fold with short circuits, scores and captures; since the
  shapes that are lowered neither fail nor bind, it is no more than a conjunction or
  a disjunction of its parts (`EverySettled`, `AskedDescribes`). `SchemaCarries` is
  the step to JSON Schema, kind by kind of production, for names that are kept. It is
  no equivalence: the schema of a list with a tail has no `minItems` (`grammar.rs:315`),
  so it admits arrays shorter than the prefix, which graph and shape reject; nor does a
  schema tell a symbol from a string.

Only model-checked:

* all liveness: `Answers`, `Ends`, and the ends promised by `ImplementsChoice` and
  `ImplementsCall`;
* what the four violation runs refute.

## 5. Not modelled

* Diagnostic texts, labels and browsing views: no control flow depends on them,
  except that a match *has* diagnostics, which `Hooks` keeps.
* The kernel, except where the crate calls it (external).
* The class objects and registration tables of the citizen protocol
  (`citizen/inventory.rs`, `citizen/class.rs`): a fixed table per class, written
  once at start; the encoding of a Venn set, a pair list like that of definitions.
* `browse_signature.rs`: texts for browsers, and the table view of a function.
* `check_option_map`: a table shape's check, which `MatchEngine` has, and a text.
* Which record kinds relation crates have and how they project: names.
* `is_subshape_of` of two hooked shapes beyond what `TransparentKeepsVerdict` is
  about: whether two stacks of hooks are the same hooks.
* Build tasks, recipes, crate roots.
* How *long* a check runs: a self-referential definition under a best-score
  shape is visited exponentially often before the depth budget cuts it. How deep
  the codec may recurse: the machine's stack is not modelled.
* Shapes whose definitions give one name two meanings are outside
  `GrammarIsShape`: a graph has one list of definitions and no scopes.

## 6. What could be next

Every safety property a passing run checks is proved. What is left is breadth: the
table view of a function, `is_subshape_of` of two hooked shapes and the encoding of
a Venn set. Shapes whose definitions give one name two meanings need the code to say
first what their graph should be.
