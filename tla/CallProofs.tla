----------------------------- MODULE CallProofs -----------------------------
(***************************************************************************)
(* Proofs about calls: first DemandCall, for any number of cases,          *)
(* priorities, demand lists and arguments; then Selection, the choice      *)
(* among accepted cases, for every sorting of them, every score and every  *)
(* relation of proven specificity.                                         *)
(*                                                                         *)
(* The argument about DemandCall: past the incomparable-plan check the     *)
(* plans of a priority form a chain, so trying them by forcing score is    *)
(* trying them by inclusion.  Every plan still pending then forces more    *)
(* than any plan already tried, and a match leaves nothing but conflicts   *)
(* to come: at most one group matches, and nothing is prepared before all  *)
(* that forces less was tried.                                             *)
(*                                                                         *)
(* The argument about Selection stands before its half.                    *)
(***************************************************************************)
EXTENDS DemandCall, Selection, FiniteSetTheorems, SequenceTheorems, TLAPS

Entry == [level: Int, plan: Positions, outcome: {"failed", "missed", "error", "matched"}]
Match == [plan: Positions, case: Case]
Left  == {"failed", "missed"}

InLevel == phase \in {"groups", "matching"}

(* Where the cases that remain, the current priority and the ones behind   *)
(* it lie; pending plans and the matched groups belong to the current one. *)
Located ==
  InLevel => \A c \in Case : IF c \in remaining THEN priority[c] < level ELSE priority[c] >= level
Descending ==
  phase = "levels" =>
    \A c \in remaining, d \in Case : d \notin remaining => priority[c] < priority[d]
PendingReal == InLevel => \A p \in pending : \E c \in Case : InGroup(c, p)
GroupReal   == phase = "matching" => \E c \in Case : InGroup(c, group)
MatchedReal == InLevel => \A k \in DOMAIN matched : InGroup(matched[k].case, matched[k].plan)
Levelled == Located /\ Descending /\ PendingReal /\ GroupReal /\ MatchedReal

(* Plans still to come force strictly more than those behind.              *)
Chain ==
  /\ InLevel => \A l, r \in pending : l \subseteq r \/ r \subseteq l
  /\ phase = "matching" =>
       matched = <<>> /\ \A p \in pending : group \subseteq p /\ group # p
  /\ phase = "groups" =>
       \A k \in DOMAIN matched, p \in pending : ExtraForcing(p, matched[k].plan)

(* What was prepared: only for priorities already reached, a match only    *)
(* where a group matched, and never with a plan still to come.             *)
Logged ==
  /\ phase = "levels" => \A i \in DOMAIN log : log[i].outcome \in Left
                            /\ \A c \in remaining : priority[c] < log[i].level
  /\ InLevel => \A i \in DOMAIN log :
       /\ level <= log[i].level
       /\ log[i].outcome \in Left \/ (log[i].level = level /\ matched # <<>>)
       /\ log[i].level = level => log[i].plan \notin pending
       /\ phase = "matching" /\ log[i].level = level => log[i].plan # group

(* No group's arguments are prepared twice: an argument is forced at most  *)
(* once for each plan that wants it.                                       *)
TriedOnce ==
  \A i, j \in DOMAIN log :
    log[i].level = log[j].level /\ log[i].plan = log[j].plan => i = j

(* Every case behind the cursor was tried in vain, or is still to be tried *)
(* at this priority, unless something matched.                             *)
WasLeft(c) == \E j \in DOMAIN log : Tried(j, c) /\ log[j].outcome \in Left
Covered ==
  /\ phase = "levels" => \A c \in Case \ remaining : WasLeft(c)
  /\ InLevel => \A c \in Case \ remaining :
       \/ WasLeft(c)
       \/ /\ priority[c] = level
          /\ \/ Plan(c) \in pending
             \/ phase = "matching" /\ Plan(c) = group
             \/ matched # <<>>

(* The error the call would report is its first failed preparation.        *)
Earliest == IF deferred = 0 /\ InLevel THEN levelError ELSE deferred
FirstError ==
  phase = "levels" \/ InLevel =>
    /\ \A i \in DOMAIN log : log[i].outcome = "failed" => Earliest # 0 /\ Earliest <= i
    /\ Earliest # 0 => Earliest \in DOMAIN log /\ log[Earliest].outcome = "failed"

(* A call that goes on has no result yet.                                  *)
Running == phase # "done" => result = Nothing

Inv ==
  /\ TypeOK /\ Running /\ Levelled /\ Chain /\ Logged /\ Covered /\ FirstError
  /\ OneMatch /\ LeastForcing /\ TriedOnce /\ NoErrorLost

-----------------------------------------------------------------------------
(* Types.                                                                  *)

(* A case's plan, the arguments its demands force, is a set of argument    *)
(* positions.                                                              *)
LEMMA PlanType == \A c : Plan(c) \in Positions
  BY DEF Plan, Positions

(* Noting what came of a plan leaves the earlier entries of the log where  *)
(* they were.                                                              *)
LEMMA LogAppend ==
  ASSUME log \in Seq(Entry), NEW e \in Entry, log' = Append(log, e)
  PROVE  /\ log' \in Seq(Entry) /\ Len(log) \in Nat /\ Len(log') = Len(log) + 1
         /\ DOMAIN log = 1..Len(log) /\ DOMAIN log' = 1..(Len(log) + 1)
         /\ \A i \in DOMAIN log : log'[i] = log[i]
         /\ log'[Len(log) + 1] = e
<1>1. log' \in Seq(Entry) /\ Len(log') = Len(log) + 1
  BY AppendProperties
<1>2. DOMAIN log = 1..Len(log) /\ DOMAIN log' = 1..Len(log') /\ Len(log) \in Nat
  BY <1>1, LenProperties
<1>3. QED
  BY <1>1, <1>2, AppendProperties

(* The start of a call is well typed: the candidates are sorted and        *)
(* nothing is prepared.                                                    *)
LEMMA TypesInit == ASSUME DemandAssumption, Init PROVE TypeOK
<1>1. log \in Seq(Entry) /\ Len(log) = 0 /\ matched \in Seq(Match)
  BY DEF Init
<1>2. priority \in [Case -> Int] /\ demand \in [Case -> Seq(Demand)]
  BY CasesAssumption DEF Init, DemandAssumption
<1>3. QED
  BY <1>1, <1>2 DEF Init, TypeOK, Entry, Match, Phases, Results, Positions, Nothing, DemandAssumption

(* The actions that touch neither the log nor the matches.                 *)
Quiet ==
  \/ PlansConflict \/ MatchedConflict \/ SomeMatched \/ NothingApplies
  \/ NoneAccepts \/ SelectFails \/ SelectCase
  \/ RefineArg \/ RefineFails \/ Run \/ RunFails \/ CheckResult

(* The steps that only report or refine (conflicts, the lone match, the    *)
(* call) leave the groups, the matches and the log alone.                  *)
LEMMA QuietEffect ==
  ASSUME DemandAssumption, TypeOK, Quiet
  PROVE  /\ UNCHANGED <<inputs, remaining, level, pending, group, matched, levelError, deferred, log>>
         /\ phase' \in {"refine", "check", "done"}
         /\ chosen' \in Case \cup {NoCase} /\ refined' \in 0..Arity
         /\ result' \in [kind: Results, at: 0..Len(log)]
<1>1. Len(log) \in 0..Len(log) /\ 0 \in 0..Len(log) /\ deferred \in 0..Len(log)
  BY DEF TypeOK
<1>2. result \in [kind: Results, at: 0..Len(log)] /\ chosen \in Case \cup {NoCase}
      /\ refined \in 0..Arity /\ Arity \in Nat
  BY DEF TypeOK, DemandAssumption
<1>3. SomeMatched /\ Len(matched) = 1 => matched[1].case \in Case
  <2>1. matched \in Seq(Match)
    BY DEF TypeOK, Match
  <2>2. Len(matched) = 1 => matched[1] \in Match
    BY <2>1, LenProperties
  <2>3. QED
    BY <2>2 DEF Match
<1>4. UNCHANGED <<inputs, search>>
  BY DEF Quiet, PlansConflict, MatchedConflict, SomeMatched, NothingApplies, NoneAccepts, SelectFails, SelectCase, RefineArg, RefineFails, Run, RunFails, CheckResult
<1>5. phase' \in {"refine", "check", "done"}
  BY DEF Quiet, PlansConflict, MatchedConflict, SomeMatched, NothingApplies, Answer,
     NoneAccepts, SelectFails, SelectCase, RefineArg, RefineFails, Run, RunFails, CheckResult
<1>6. chosen' \in Case \cup {NoCase} /\ refined' \in 0..Arity
  BY <1>2, <1>3 DEF Quiet, PlansConflict, MatchedConflict, SomeMatched, NothingApplies, target,
     NoneAccepts, SelectFails, SelectCase, RefineArg, RefineFails, Run, RunFails, CheckResult
<1>7. result' \in [kind: Results, at: 0..Len(log)]
  BY <1>1, <1>2 DEF Quiet, PlansConflict, MatchedConflict, SomeMatched, NothingApplies, Answer,
     Results, Failures, NoneAccepts, SelectFails, SelectCase, RefineArg, RefineFails, Run, RunFails, CheckResult
<1>8. QED
  BY <1>4, <1>5, <1>6, <1>7 DEF search

(* Every step of a call keeps the state well typed.                        *)
LEMMA TypesNext == ASSUME DemandAssumption, TypeOK, [Next]_vars PROVE TypeOK'
<1>1. /\ log \in Seq(Entry) /\ matched \in Seq(Match) /\ Len(log) \in Nat
      /\ \A p \in pending : p \in Positions
  BY DEF TypeOK, Entry, Match
<1>2. CASE Quiet
  BY <1>2, QuietEffect DEF TypeOK, inputs, Phases
<1>3. CASE StartLevel
  <2>1. Plans(TopLevel(remaining)) \subseteq Positions
    BY PlanType DEF Plans
  <2>2. level' \in Int
    BY <1>3 DEF StartLevel, TopLevel, Highest, TypeOK
  <2>3. matched' \in Seq(Match) /\ levelError' = 0 /\ 0 \in 0..Len(log)
    BY <1>3 DEF StartLevel, TypeOK
  <2>4. UNCHANGED <<priority, demand, chosen, refined, group, deferred, log, result>> /\ phase' = "groups"
        /\ remaining' \subseteq Case /\ pending' \subseteq Positions
    BY <1>3, <2>1 DEF StartLevel, inputs, target, TypeOK
  <2>5. QED
    BY <2>2, <2>3, <2>4 DEF TypeOK, Phases, Match
<1>4. CASE Prepare
  BY <1>1, <1>4 DEF Prepare, TypeOK, Phases, inputs, target
<1>5. CASE NoneMatched
  BY <1>5 DEF NoneMatched, TypeOK, Phases, inputs, target
<1>6. CASE PrepareFails
  <2>1. PICK p \in pending : pending' = pending \ {p} /\ Note(p, "failed")
    BY <1>6 DEF PrepareFails
  <2>2. [level |-> level, plan |-> p, outcome |-> "failed"] \in Entry
    BY <1>1, <2>1 DEF TypeOK, Entry
  <2>3. log' \in Seq(Entry) /\ Len(log') = Len(log) + 1
    BY <1>1, <2>1, <2>2, LogAppend DEF Note
  <2>4. levelError' \in 0..Len(log') /\ deferred' \in 0..Len(log') /\ deferred' = deferred
        /\ 0..Len(log) \subseteq 0..Len(log')
    BY <1>1, <1>6, <2>3 DEF PrepareFails, TypeOK
  <2>5. UNCHANGED <<priority, demand, chosen, refined, phase, remaining, level, group, matched, result>>
    BY <1>6 DEF PrepareFails, inputs, target
  <2>6. result' \in [kind: Results, at: 0..Len(log')]
    BY <2>4, <2>5 DEF TypeOK
  <2>7. QED
    BY <2>1, <2>3, <2>4, <2>5, <2>6 DEF TypeOK, Entry
<1>7. CASE Missed \/ MatchFails \/ Matched
  <2>1. PICK o \in {"missed", "error", "matched"} : Note(group, o)
    BY <1>7 DEF Missed, MatchFails, Matched
  <2>2. [level |-> level, plan |-> group, outcome |-> o] \in Entry
    BY <2>1 DEF TypeOK, Entry
  <2>3. log' \in Seq(Entry) /\ Len(log') = Len(log) + 1
    BY <1>1, <2>1, <2>2, LogAppend DEF Note
  <2>4. UNCHANGED <<priority, demand, chosen, refined, remaining, level, pending, group, levelError, deferred>>
        /\ phase' \in Phases
    BY <1>7 DEF Missed, MatchFails, Matched, inputs, target, Answer, Phases
  <2>5. /\ 0..Len(log) \subseteq 0..Len(log') /\ Len(log) + 1 \in 0..Len(log')
    BY <1>1, <2>3
  <2>6. result' \in [kind: Results, at: 0..Len(log')]
    BY <1>7, <2>5 DEF Missed, MatchFails, Matched, TypeOK, Answer, Results, Failures
  <2>7. matched' \in Seq(Match)
    <3>1. CASE Missed \/ MatchFails
      BY <1>1, <3>1 DEF Missed, MatchFails
    <3>2. CASE Matched
      <4>1. PICK c \in Case : matched' = Append(matched, [plan |-> group, case |-> c])
        BY <3>2 DEF Matched
      <4>2. [plan |-> group, case |-> c] \in Match
        BY DEF Match, TypeOK
      <4>3. QED
        BY <1>1, <4>1, <4>2, AppendProperties
    <3>3. QED
      BY <1>7, <3>1, <3>2
  <2>8. QED
    BY <2>3, <2>4, <2>5, <2>6, <2>7 DEF TypeOK, Entry, Match
<1>8. CASE UNCHANGED vars
  BY <1>8 DEF vars, inputs, search, target, TypeOK
<1>9. QED
  BY <1>2, <1>3, <1>4, <1>5, <1>6, <1>7, <1>8 DEF Next, Quiet

(* Every variable keeps its type, and errors point into the log.           *)
THEOREM DemandTypeCorrect == Spec => []TypeOK
  BY TypesInit, TypesNext, DemandAssumption, PTL DEF Spec

-----------------------------------------------------------------------------
(* The chain of plans.                                                     *)

(* The plan min_by_key picks forces nothing another pending plan does not: *)
(* in a chain the smallest forcing score is the smallest set.              *)
LEMMA LeastIsSubset ==
  ASSUME DemandAssumption, TypeOK, Chain, InLevel,
         NEW p \in pending, Least(p), NEW q \in pending, q # p
  PROVE  p \subseteq q
<1>1. p \subseteq q \/ q \subseteq p
  BY DEF Chain
<1>2. IsFiniteSet(1..Arity) /\ p \subseteq 1..Arity
  <2>1. 1 \in Int /\ Arity \in Int
    BY DEF DemandAssumption
  <2>2. IsFiniteSet(1..Arity)
    BY <2>1, FS_Interval
  <2>3. QED
    BY <2>2 DEF TypeOK, Positions
<1>3. IsFiniteSet(p)
  BY <1>2, FS_Subset
<1>4. CASE q \subseteq p
  <2>1. IsFiniteSet(q) /\ Cardinality(q) <= Cardinality(p) /\ Cardinality(p) # Cardinality(q)
    BY <1>3, <1>4, FS_Subset
  <2>2. Cardinality(p) \in Nat /\ Cardinality(q) \in Nat
    BY <1>3, <2>1, FS_CardinalityType
  <2>3. Cardinality(p) <= Cardinality(q)
    BY DEF Least
  <2>4. QED
    BY <2>1, <2>2, <2>3
<1>5. QED
  BY <1>1, <1>4

(* Plans without an incomparable pair are a chain.                         *)
LEMMA ComparableIsChain ==
  ASSUME NEW ps, ~Incomparable(ps)
  PROVE  \A l, r \in ps : l \subseteq r \/ r \subseteq l
  BY DEF Incomparable, ExtraForcing

(* Whatever is prepared next, nothing has matched at this priority yet.    *)
LEMMA NoneMatchedYet ==
  ASSUME Inv, NEW p \in pending, phase = "groups", ~ConflictsWithMatched(p)
  PROVE  matched = <<>>
<1>1. DOMAIN matched = {}
  BY DEF Inv, Chain, ConflictsWithMatched
<1>2. matched \in Seq(Match) /\ DOMAIN matched = 1..Len(matched) /\ Len(matched) \in Nat
  BY LenProperties DEF Inv, TypeOK, Match
<1>3. Len(matched) = 0
  BY <1>1, <1>2
<1>4. QED
  BY <1>2, <1>3

-----------------------------------------------------------------------------
(* Appending to the log.                                                   *)

(* A case whose plan failed or missed stays behind when the log grows.     *)
LEMMA WasLeftStays ==
  ASSUME TypeOK, NEW e \in Entry, log' = Append(log, e), UNCHANGED inputs, NEW c, WasLeft(c)
  PROVE  WasLeft(c)'
<1>1. PICK j \in DOMAIN log : Tried(j, c) /\ log[j].outcome \in Left
  BY DEF WasLeft
<1>2. DOMAIN log \subseteq DOMAIN log' /\ log'[j] = log[j]
  BY LogAppend DEF TypeOK, Entry
<1>3. priority' = priority /\ Plan(c)' = Plan(c)
  BY DEF inputs, Plan
<1>4. QED
  BY <1>1, <1>2, <1>3 DEF WasLeft, Tried

(* Preparing a plan keeps what the log promises, when every case of the    *)
(* priority that forces less was tried in vain and the plan is new.        *)
LEMMA Prepared ==
  ASSUME Inv, InLevel, NEW P \in Positions, NEW o \in {"failed", "missed", "error", "matched"},
         Note(P, o), UNCHANGED inputs,
         \A c \in Case : priority[c] = level /\ Plan(c) \subseteq P /\ Plan(c) # P => WasLeft(c),
         \A i \in DOMAIN log : log[i].level = level => log[i].plan # P
  PROVE  LeastForcing' /\ TriedOnce'
<1> DEFINE e == [level |-> level, plan |-> P, outcome |-> o]
           n == Len(log)
<1>1. e \in Entry /\ log' = Append(log, e) /\ log \in Seq(Entry)
  BY DEF Inv, TypeOK, Entry, Note
<1>2. /\ n \in Nat /\ DOMAIN log = 1..n /\ DOMAIN log' = 1..(n + 1)
      /\ \A i \in 1..n : log'[i] = log[i]
      /\ log'[n + 1] = e
  BY <1>1, LogAppend
<1>3. e.level = level /\ e.plan = P
  OBVIOUS
<1>4. priority' = priority /\ \A c : Plan(c)' = Plan(c)
  BY DEF inputs, Plan
<1> HIDE DEF e, n
<1>5. LeastForcing'
  <2>1. SUFFICES ASSUME NEW i \in 1..(n + 1), NEW c \in Case,
                        \/ priority[c] > log'[i].level
                        \/ priority[c] = log'[i].level /\ Plan(c) \subseteq log'[i].plan
                           /\ Plan(c) # log'[i].plan
                 PROVE  \E j \in 1..(i - 1) :
                          /\ log'[j].level = priority[c] /\ log'[j].plan = Plan(c)
                          /\ log'[j].outcome \in Left
    BY <1>2, <1>4 DEF LeastForcing, Tried, Left
  <2>2. CASE i \in 1..n
    <3>1. \E j \in 1..(i - 1) : Tried(j, c) /\ log[j].outcome \in Left
      BY <1>2, <2>1, <2>2 DEF Inv, LeastForcing, Left
    <3>2. 1..(i - 1) \subseteq 1..n
      BY <1>2, <2>2
    <3>3. QED
      BY <1>2, <3>1, <3>2 DEF Tried
  <2>3. CASE i = n + 1
    <3>1. priority[c] >= level /\ priority[c] \in Int /\ level \in Int
      BY <1>2, <1>3, <2>1, <2>3 DEF Inv, TypeOK
    <3>2. WasLeft(c)
      <4>1. CASE priority[c] = level
        <5>1. log'[i].level = level /\ log'[i].plan = P
          BY <1>2, <1>3, <2>3
        <5>2. ~(priority[c] > level)
          BY <3>1, <4>1
        <5>3. QED
          BY <2>1, <4>1, <5>1, <5>2
      <4>2. CASE priority[c] > level
        <5>1. c \notin remaining
          BY <3>1, <4>2 DEF Inv, Levelled, Located
        <5>2. QED
          BY <3>1, <4>2, <5>1 DEF Inv, Covered
      <4>3. QED
        BY <3>1, <4>1, <4>2
    <3>3. (n + 1) - 1 = n
      BY <1>2
    <3>4. QED
      BY <1>2, <2>3, <3>2, <3>3 DEF WasLeft, Tried
  <2>4. QED
    BY <1>2, <2>2, <2>3
<1>6. TriedOnce'
  <2>1. SUFFICES ASSUME NEW i \in 1..(n + 1), NEW j \in 1..(n + 1),
                        log'[i].level = log'[j].level, log'[i].plan = log'[j].plan
                 PROVE  i = j
    BY <1>2 DEF TriedOnce
  <2>2. (i \in 1..n \/ i = n + 1) /\ (j \in 1..n \/ j = n + 1)
    BY <1>2
  <2>3. CASE i \in 1..n /\ j \in 1..n
    BY <1>2, <2>1, <2>3 DEF Inv, TriedOnce
  <2>4. CASE i \in 1..n /\ j = n + 1
    BY <1>2, <1>3, <2>1, <2>4
  <2>5. CASE i = n + 1 /\ j \in 1..n
    BY <1>2, <1>3, <2>1, <2>5
  <2>6. QED
    BY <2>2, <2>3, <2>4, <2>5
<1>7. QED
  BY <1>5, <1>6

-----------------------------------------------------------------------------
(* The steps that leave the log and the matches alone.                     *)

(* When a priority with matches is left there is one match, of a case.     *)
LEMMA OneMatched == ASSUME Inv, SomeMatched PROVE Len(matched) = 1 /\ matched[1] \in Match
<1>1. matched # <<>> /\ Len(matched) <= 1
  BY DEF SomeMatched, Inv, OneMatch
<1>2. matched \in Seq(Match) /\ Len(matched) \in Nat
  BY LenProperties DEF Inv, TypeOK, Match
<1>3. Len(matched) = 1
  BY <1>1, <1>2
<1>4. QED
  BY <1>2, <1>3, LenProperties

(* The branch that would report several matched groups is never taken.     *)
LEMMA SomeIsOne == ASSUME Inv, SomeMatched PROVE result' = result /\ phase' = "refine"
  BY OneMatched DEF SomeMatched

(* "No case applies" is reported only after every case was tried, and then *)
(* with the first failed preparation if there was one.                     *)
LEMMA NothingLost == ASSUME Inv, NothingApplies PROVE NoErrorLost'
<1>1. \A c \in Case : WasLeft(c)
  BY DEF Inv, Covered, NothingApplies
<1>2. \A i \in DOMAIN log : log[i].outcome \in Left
  BY DEF Inv, Logged, NothingApplies
<1>3. Earliest = deferred
  BY DEF NothingApplies, Earliest, InLevel
<1>4. /\ \A i \in DOMAIN log : log[i].outcome = "failed" => deferred # 0 /\ deferred <= i
      /\ deferred # 0 => deferred \in DOMAIN log /\ log[deferred].outcome = "failed"
  BY <1>3 DEF Inv, FirstError, NothingApplies
<1>5. UNCHANGED <<priority, demand, log>> /\ result'.at = deferred
      /\ (result'.kind = "error" => deferred # 0)
  BY DEF NothingApplies, Answer, inputs, search
<1>6. QED
  BY <1>1, <1>2, <1>4, <1>5 DEF NoErrorLost, WasLeft, Tried, Plan, Left

(* The steps that only report or refine keep the invariant.                *)
LEMMA QuietKeeps == ASSUME DemandAssumption, Inv, TypeOK', Quiet PROVE Inv'
<1>1. /\ UNCHANGED <<priority, demand, log, matched>>
      /\ phase' \in {"refine", "check", "done"}
      /\ phase \in {"levels", "groups", "select", "refine", "check"}
  <2>1. phase \in {"levels", "groups", "select", "refine", "check"}
    BY DEF Quiet, PlansConflict, MatchedConflict, SomeMatched, LevelTried,
       NothingApplies, NoneAccepts, SelectFails, SelectCase, RefineArg, RefineFails, Run, RunFails, CheckResult
  <2>2. TypeOK
    BY DEF Inv
  <2>3. QED
    BY <2>1, <2>2, QuietEffect DEF inputs
<1>2. result = Nothing
  BY <1>1 DEF Inv, Running
<1>3. Levelled' /\ Chain' /\ Logged' /\ Covered' /\ FirstError'
  BY <1>1 DEF Levelled, Located, Descending, PendingReal, GroupReal, MatchedReal, Chain, Logged,
     Covered, FirstError, InLevel
<1>4. OneMatch' /\ LeastForcing' /\ TriedOnce'
  BY <1>1 DEF Inv, OneMatch, LeastForcing, TriedOnce, Tried, Plan
<1>5. Running'
  BY <1>2, SomeIsOne DEF Running, Quiet, PlansConflict, MatchedConflict, NothingApplies,
     NoneAccepts, SelectFails, SelectCase, RefineArg, RefineFails, Run, RunFails, CheckResult, Answer
<1>6. NoErrorLost'
  <2>1. CASE NothingApplies
    BY <2>1, NothingLost
  <2>2. CASE ~NothingApplies
    <3>1. result'.kind \notin {"noMatch", "error"}
      BY <1>2, <2>2, SomeIsOne DEF Nothing, Quiet, PlansConflict, MatchedConflict,
         NoneAccepts, SelectFails, SelectCase, RefineArg, RefineFails, Run, RunFails, CheckResult, Answer
    <3>2. QED
      BY <3>1 DEF NoErrorLost
  <2>3. QED
    BY <2>1, <2>2
<1>7. QED
  BY <1>3, <1>4, <1>5, <1>6 DEF Inv

-----------------------------------------------------------------------------
(* From one priority to the next.                                          *)

(* Every entry of the log is typed, and its priority is a number.          *)
LEMMA EntriesTyped ==
  ASSUME TypeOK
  PROVE  /\ log \in Seq(Entry) /\ DOMAIN log = 1..Len(log) /\ Len(log) \in Nat
         /\ \A i \in DOMAIN log : log[i] \in Entry /\ log[i].level \in Int
<1>1. log \in Seq(Entry)
  BY DEF TypeOK, Entry
<1>2. DOMAIN log = 1..Len(log) /\ Len(log) \in Nat /\ \A i \in DOMAIN log : log[i] \in Entry
  BY <1>1, LenProperties
<1>3. QED
  BY <1>1, <1>2 DEF Entry

(* A running call has nothing to answer for yet.                           *)
LEMMA StillRunning ==
  ASSUME result' = Nothing
  PROVE  Running' /\ NoErrorLost'
  BY DEF Running, NoErrorLost, Nothing

(* Leaving a priority in which nothing matched keeps the invariant: its    *)
(* first error is kept unless an earlier one is.                           *)
LEMMA NoneMatchedKeeps == ASSUME Inv, TypeOK', NoneMatched PROVE Inv'
<1>1. /\ UNCHANGED <<priority, demand, log, matched, remaining, level, pending, result>>
      /\ phase = "groups" /\ phase' = "levels" /\ pending = {} /\ matched = <<>>
  BY DEF NoneMatched, LevelTried, inputs
<1>2. InLevel /\ ~InLevel' /\ result = Nothing
  BY <1>1 DEF InLevel, Inv, Running
<1>3. Levelled'
  <2>1. SUFFICES ASSUME NEW c \in remaining, NEW d \in Case \ remaining
                 PROVE  priority[c] < priority[d]
    BY <1>1, <1>2 DEF Levelled, Located, Descending, PendingReal, GroupReal, MatchedReal
  <2>2. c \in Case /\ priority[c] \in Int /\ priority[d] \in Int /\ level \in Int
    BY DEF Inv, TypeOK
  <2>3. priority[c] < level /\ priority[d] >= level
    BY <1>2, <2>2 DEF Inv, Levelled, Located
  <2>4. QED
    BY <2>2, <2>3
<1>4. Chain'
  BY <1>1, <1>2 DEF Chain
<1>5. Logged'
  <2>1. SUFFICES ASSUME NEW i \in DOMAIN log
                 PROVE  /\ log[i].outcome \in Left
                        /\ \A c \in remaining : priority[c] < log[i].level
    BY <1>1, <1>2 DEF Logged
  <2>2. log[i].level \in Int
    BY EntriesTyped DEF Inv
  <2>3. log[i].outcome \in Left /\ level <= log[i].level
    BY <1>1, <1>2 DEF Inv, Logged
  <2>4. ASSUME NEW c \in remaining PROVE priority[c] < log[i].level
    <3>0. c \in Case
      BY DEF Inv, TypeOK
    <3>1. priority[c] < level
      BY <1>2, <3>0 DEF Inv, Levelled, Located
    <3>2. priority[c] \in Int /\ level \in Int /\ log[i].level \in Int
      BY <2>2 DEF Inv, TypeOK
    <3>3. QED
      BY <2>3, <3>1, <3>2
  <2>5. QED
    BY <2>3, <2>4
<1>6. Covered'
  <2>1. \A c \in Case \ remaining : WasLeft(c)
    BY <1>1, <1>2 DEF Inv, Covered
  <2>2. QED
    BY <1>1, <1>2, <2>1 DEF Covered, WasLeft, Tried, Plan
<1>7. FirstError'
  <2>1. Earliest' = Earliest
    BY <1>2 DEF Earliest, NoneMatched
  <2>2. QED
    BY <1>1, <1>2, <2>1 DEF FirstError, Inv
<1>8. OneMatch' /\ LeastForcing' /\ TriedOnce'
  BY <1>1 DEF Inv, OneMatch, LeastForcing, TriedOnce, Tried, Plan
<1>9. QED
  BY <1>1, <1>2, <1>3, <1>4, <1>5, <1>6, <1>7, <1>8, StillRunning DEF Inv

(* Grouping the next priority's cases by plan keeps the invariant: the     *)
(* cases leave the queue and their plans become pending.                   *)
LEMMA StartLevelKeeps == ASSUME Inv, TypeOK', StartLevel PROVE Inv'
<1> DEFINE top == TopLevel(remaining)
<1>1. /\ UNCHANGED <<priority, demand, log, deferred, result>>
      /\ phase = "levels" /\ phase' = "groups" /\ matched' = <<>> /\ levelError' = 0
      /\ pending' = Plans(top) /\ remaining' = remaining \ top
      /\ ~Incomparable(Plans(top))
  BY DEF StartLevel, inputs
<1>2. ~InLevel /\ InLevel' /\ result = Nothing /\ phase' # "levels" /\ phase' # "matching"
  BY <1>1 DEF InLevel, Inv, Running
<1>3. PICK c0 \in top : level' = priority[c0]
  BY DEF StartLevel
<1>4. \A c \in top : c \in remaining /\ c \in Case /\ priority[c] \in Int
                    /\ \A d \in remaining : priority[d] <= priority[c]
  BY DEF Inv, TypeOK, TopLevel, Highest
<1>5. \A c \in Case : priority[c] \in Int
  BY DEF Inv, TypeOK
<1>6. /\ \A c \in top : priority[c] = level'
      /\ \A c \in remaining \ top : priority[c] < level'
      /\ \A c \in Case \ remaining : level' < priority[c]
      /\ remaining \subseteq Case /\ level' \in Int
  <2>1. \A c \in top : priority[c] = level'
    BY <1>3, <1>4
  <2>2. ASSUME NEW c \in remaining \ top PROVE priority[c] < level'
    <3>1. c \in Case
      BY DEF Inv, TypeOK
    <3>2. PICK d \in remaining : ~(priority[d] <= priority[c])
      BY DEF TopLevel, Highest
    <3>3. d \in Case
      BY DEF Inv, TypeOK
    <3>4. priority[d] <= priority[c0]
      BY <1>4
    <3>5. QED
      BY <1>3, <1>4, <1>5, <3>1, <3>2, <3>3, <3>4
  <2>3. \A c \in Case \ remaining : level' < priority[c]
    BY <1>1, <1>3, <1>4 DEF Inv, Levelled, Descending
  <2>4. QED
    BY <1>3, <1>4, <2>1, <2>2, <2>3 DEF Inv, TypeOK
<1> HIDE DEF top
<1>7. Levelled'
  <2>1. Located'
    BY <1>1, <1>5, <1>6 DEF Located
  <2>2. \A p \in Plans(top) : \E c \in Case : priority[c] = level' /\ Plan(c) = p
    BY <1>4, <1>6 DEF Plans
  <2>3. PendingReal'
    BY <1>1, <2>2 DEF PendingReal, InGroup, Plan
  <2>4. MatchedReal'
    BY <1>1 DEF MatchedReal
  <2>5. Descending' /\ GroupReal'
    BY <1>2 DEF Descending, GroupReal
  <2>6. QED
    BY <2>1, <2>3, <2>4, <2>5 DEF Levelled
<1>8. Chain'
  <2>1. \A l, r \in pending' : l \subseteq r \/ r \subseteq l
    BY <1>1, ComparableIsChain
  <2>2. DOMAIN matched' = {}
    BY <1>1
  <2>3. QED
    BY <1>2, <2>1, <2>2 DEF Chain
<1>9. Logged'
  <2>1. SUFFICES ASSUME NEW i \in DOMAIN log
                 PROVE  level' < log[i].level /\ log[i].outcome \in Left /\ log[i].level \in Int
    BY <1>1, <1>2, <1>6 DEF Logged
  <2>2. log[i].level \in Int
    BY EntriesTyped DEF Inv
  <2>3. QED
    BY <1>1, <1>3, <1>4, <2>2 DEF Inv, Logged
<1>10. Covered'
  <2>1. \A c \in Case \ remaining : WasLeft(c)
    BY <1>1 DEF Inv, Covered
  <2>2. \A c \in Case \ remaining : WasLeft(c)'
    BY <1>1, <2>1 DEF WasLeft, Tried, Plan
  <2>3. \A c \in top : priority'[c] = level' /\ Plan(c)' \in pending'
    BY <1>1, <1>6 DEF Plans, Plan
  <2>4. QED
    BY <1>1, <1>2, <2>2, <2>3 DEF Covered
<1>11. FirstError'
  <2>1. Earliest' = Earliest
    BY <1>1, <1>2 DEF Earliest
  <2>2. QED
    BY <1>1, <2>1 DEF FirstError, Inv
<1>12. OneMatch' /\ LeastForcing' /\ TriedOnce'
  <2>1. Len(matched') = 0
    BY <1>1
  <2>2. QED
    BY <1>1, <2>1 DEF Inv, OneMatch, LeastForcing, TriedOnce, Tried, Plan
<1>13. QED
  BY <1>1, <1>2, <1>7, <1>8, <1>9, <1>10, <1>11, <1>12, StillRunning DEF Inv

-----------------------------------------------------------------------------
(* Inside one priority.                                                    *)

(* Forcing the arguments of the least forcing plan keeps the invariant:    *)
(* whatever forces less was tried before.                                  *)
LEMMA PrepareKeeps == ASSUME DemandAssumption, Inv, TypeOK', Prepare PROVE Inv'
<1>1. PICK p \in pending : /\ Least(p) /\ ~ConflictsWithMatched(p)
                           /\ pending' = pending \ {p} /\ group' = p
  BY DEF Prepare
<1>2. /\ UNCHANGED <<priority, demand, remaining, level, matched, levelError, deferred, log, result>>
      /\ phase = "groups" /\ phase' = "matching"
  BY DEF Prepare, inputs
<1>3. InLevel /\ InLevel' /\ matched = <<>> /\ result = Nothing
  BY <1>1, <1>2, NoneMatchedYet DEF InLevel, Inv, Running
<1>4. \A q \in pending' : p \subseteq q /\ p # q
  BY <1>1, <1>3, LeastIsSubset DEF Inv
<1>5. Located' /\ Descending'
  BY <1>2, <1>3 DEF Inv, Levelled, Located, Descending
<1>6. PendingReal' /\ GroupReal' /\ MatchedReal'
  BY <1>1, <1>2, <1>3 DEF Inv, Levelled, PendingReal, GroupReal, MatchedReal, InGroup, Plan
<1>7. Chain'
  BY <1>1, <1>2, <1>3, <1>4 DEF Inv, Chain
<1>8. Logged'
  BY <1>1, <1>2, <1>3 DEF Inv, Logged
<1>9. Covered'
  <2>1. SUFFICES ASSUME NEW c \in Case \ remaining, ~WasLeft(c)
                 PROVE  priority[c] = level /\ (Plan(c) \in pending' \/ Plan(c) = p)
    BY <1>1, <1>2, <1>3 DEF Covered, WasLeft, Tried, Plan
  <2>2. QED
    BY <1>1, <1>2, <1>3, <2>1 DEF Inv, Covered
<1>10. FirstError'
  BY <1>2, <1>3 DEF Inv, FirstError, Earliest
<1>11. OneMatch' /\ LeastForcing' /\ TriedOnce'
  BY <1>2 DEF Inv, OneMatch, LeastForcing, TriedOnce, Tried, Plan
<1>12. QED
  BY <1>2, <1>3, <1>5, <1>6, <1>7, <1>8, <1>9, <1>10, <1>11, StillRunning DEF Inv, Levelled

(* What one more entry does to the log.                                    *)
LEMMA Noted ==
  ASSUME TypeOK, NEW P \in Positions, NEW o \in {"failed", "missed", "error", "matched"}, Note(P, o)
  PROVE  LET n == Len(log) IN
         /\ n \in Nat /\ DOMAIN log = 1..n /\ DOMAIN log' = 1..(n + 1)
         /\ \A i \in 1..n : log'[i] = log[i]
         /\ log'[n + 1].level = level /\ log'[n + 1].plan = P /\ log'[n + 1].outcome = o
<1> DEFINE e == [level |-> level, plan |-> P, outcome |-> o]
<1>1. e \in Entry /\ log' = Append(log, e) /\ log \in Seq(Entry)
  BY DEF TypeOK, Entry, Note
<1>2. e.level = level /\ e.plan = P /\ e.outcome = o
  OBVIOUS
<1> HIDE DEF e
<1>3. QED
  BY <1>1, <1>2, LogAppend

(* Noting the outcome of the plan at hand leaves the cases behind where    *)
(* they are.                                                               *)
LEMMA StaysLeft ==
  ASSUME TypeOK, NEW P \in Positions, NEW o \in {"failed", "missed", "error", "matched"},
         Note(P, o), UNCHANGED inputs, NEW c, WasLeft(c)
  PROVE  WasLeft(c)'
<1> DEFINE e == [level |-> level, plan |-> P, outcome |-> o]
<1>1. e \in Entry /\ log' = Append(log, e)
  BY DEF TypeOK, Entry, Note
<1> HIDE DEF e
<1>2. QED
  BY <1>1, WasLeftStays

(* The cases of the plan just tried in vain are left behind.               *)
LEMMA NowLeft ==
  ASSUME TypeOK, NEW P \in Positions, NEW o \in Left, Note(P, o), UNCHANGED inputs,
         NEW c, priority[c] = level, Plan(c) = P
  PROVE  WasLeft(c)'
<1> DEFINE n == Len(log)
<1>1. n + 1 \in DOMAIN log' /\ log'[n + 1].level = level /\ log'[n + 1].plan = P
      /\ log'[n + 1].outcome = o
  BY Noted DEF Left
<1>2. priority' = priority /\ Plan(c)' = Plan(c)
  BY DEF inputs, Plan
<1>3. QED
  BY <1>1, <1>2 DEF WasLeft, Tried

(* Putting a failed preparation aside keeps the invariant: it is the first *)
(* of its priority or a later one.                                         *)
LEMMA PrepareFailsKeeps == ASSUME DemandAssumption, Inv, TypeOK', PrepareFails PROVE Inv'
<1> DEFINE n == Len(log)
<1>1. PICK p \in pending : /\ Least(p) /\ ~ConflictsWithMatched(p)
                           /\ pending' = pending \ {p} /\ Note(p, "failed")
  BY DEF PrepareFails
<1>2. /\ UNCHANGED <<priority, demand, phase, remaining, level, group, matched, deferred, result>>
      /\ UNCHANGED inputs
      /\ phase = "groups"
      /\ levelError' = IF levelError = 0 THEN n + 1 ELSE levelError
  BY DEF PrepareFails, inputs
<1>3. InLevel /\ InLevel' /\ matched = <<>> /\ result = Nothing /\ p \in Positions /\ TypeOK
  BY <1>1, <1>2, NoneMatchedYet DEF InLevel, Inv, Running, TypeOK
<1>4. \A q \in pending : q # p => p \subseteq q
  BY <1>1, <1>3, LeastIsSubset DEF Inv
<1>5. /\ n \in Nat /\ DOMAIN log = 1..n /\ DOMAIN log' = 1..(n + 1)
      /\ \A i \in 1..n : log'[i] = log[i]
      /\ log'[n + 1].level = level /\ log'[n + 1].plan = p /\ log'[n + 1].outcome = "failed"
  BY <1>1, <1>3, Noted
<1> HIDE DEF n
<1>6. \A c \in Case : priority[c] = level => c \notin remaining
  BY <1>3 DEF Inv, Levelled, Located, TypeOK
<1>7. LeastForcing' /\ TriedOnce'
  <2>1. ASSUME NEW c \in Case, priority[c] = level, Plan(c) \subseteq p, Plan(c) # p
        PROVE  WasLeft(c)
    <3>1. c \notin remaining /\ Plan(c) \notin pending
      BY <1>4, <1>6, <2>1
    <3>2. QED
      BY <1>2, <1>3, <3>1 DEF Inv, Covered
  <2>2. \A i \in DOMAIN log : log[i].level = level => log[i].plan # p
    BY <1>1, <1>3 DEF Inv, Logged
  <2>3. QED
    BY <1>1, <1>2, <1>3, <2>1, <2>2, Prepared
<1>8. Located' /\ Descending' /\ GroupReal'
  BY <1>2, <1>3 DEF Inv, Levelled, Located, Descending, GroupReal
<1>9. PendingReal' /\ MatchedReal'
  BY <1>1, <1>2, <1>3 DEF Inv, Levelled, PendingReal, MatchedReal, InGroup, Plan
<1>10. Chain'
  BY <1>1, <1>2, <1>3 DEF Inv, Chain
<1>11. Logged'
  <2>1. level \in Int /\ level <= level
    BY <1>3 DEF TypeOK
  <2>2. \A i \in 1..n : /\ level <= log[i].level
                        /\ log[i].outcome \in Left
                        /\ log[i].level = level => log[i].plan \notin pending
    BY <1>3, <1>5 DEF Inv, Logged
  <2>3. \A i \in 1..(n + 1) : i \in 1..n \/ i = n + 1
    BY <1>5
  <2>4. \A i \in DOMAIN log' : /\ level <= log'[i].level
                               /\ log'[i].outcome \in Left
                               /\ log'[i].level = level => log'[i].plan \notin pending'
    BY <1>1, <1>5, <2>1, <2>2, <2>3 DEF Left
  <2>5. QED
    BY <1>2, <2>4 DEF Logged
<1>12. Covered'
  <2>1. SUFFICES ASSUME NEW c \in Case \ remaining
                 PROVE  WasLeft(c)' \/ (priority[c] = level /\ Plan(c) \in pending')
    BY <1>2 DEF Covered, Plan
  <2>2. WasLeft(c) \/ (priority[c] = level /\ Plan(c) \in pending)
    BY <1>2, <1>3 DEF Inv, Covered
  <2>3. CASE WasLeft(c)
    BY <1>1, <1>2, <1>3, <2>3, StaysLeft
  <2>4. CASE priority[c] = level /\ Plan(c) = p
    BY <1>1, <1>2, <1>3, <2>4, NowLeft DEF Left
  <2>5. QED
    BY <1>1, <2>2, <2>3, <2>4
<1>13. FirstError'
  <2>1. Earliest' = IF Earliest = 0 THEN n + 1 ELSE Earliest
    BY <1>2, <1>3 DEF Earliest
  <2>2. /\ \A i \in 1..n : log[i].outcome = "failed" => Earliest # 0 /\ Earliest <= i
        /\ Earliest # 0 => Earliest \in 1..n /\ log[Earliest].outcome = "failed"
    BY <1>3, <1>5 DEF Inv, FirstError
  <2>3. CASE Earliest = 0
    <3>1. \A i \in 1..n : log'[i].outcome # "failed"
      BY <1>5, <2>2, <2>3
    <3>2. QED
      BY <1>5, <2>1, <2>3, <3>1 DEF FirstError
  <2>4. CASE Earliest # 0
    <3>1. Earliest \in 1..n /\ Earliest' = Earliest
      BY <2>1, <2>2, <2>4
    <3>2. QED
      BY <1>5, <2>2, <2>4, <3>1 DEF FirstError
  <2>5. QED
    BY <2>3, <2>4
<1>14. OneMatch' /\ Running' /\ NoErrorLost'
  BY <1>2, <1>3, StillRunning DEF Inv, OneMatch
<1>15. QED
  BY <1>7, <1>8, <1>9, <1>10, <1>11, <1>12, <1>13, <1>14 DEF Inv, Levelled

(* Missed, Matched and MatchFails: the prepared group is decided.          *)
LEMMA DecidedIsPrepared ==
  ASSUME Inv, phase = "matching", NEW o \in {"failed", "missed", "error", "matched"},
         Note(group, o), UNCHANGED inputs
  PROVE  LeastForcing' /\ TriedOnce'
<1>1. InLevel /\ group \in Positions /\ matched = <<>>
  BY DEF InLevel, Inv, TypeOK, Chain
<1>2. ASSUME NEW c \in Case, priority[c] = level, Plan(c) \subseteq group, Plan(c) # group
      PROVE  WasLeft(c)
  <2>1. c \notin remaining
    BY <1>1, <1>2 DEF Inv, Levelled, Located, TypeOK
  <2>2. Plan(c) \notin pending
    BY <1>2 DEF Inv, Chain
  <2>3. QED
    BY <1>1, <1>2, <2>1, <2>2 DEF Inv, Covered
<1>3. \A i \in DOMAIN log : log[i].level = level => log[i].plan # group
  BY <1>1 DEF Inv, Logged
<1>4. QED
  BY <1>1, <1>2, <1>3, Prepared

(* A failing selection ends the call with its own error and keeps the      *)
(* invariant.                                                              *)
LEMMA MatchFailsKeeps == ASSUME Inv, TypeOK', MatchFails PROVE Inv'
<1>1. LeastForcing' /\ TriedOnce'
  BY DecidedIsPrepared DEF MatchFails
<1>2. phase' = "done" /\ result'.kind = "matchError" /\ matched' = matched
  BY DEF MatchFails, Answer
<1>3. Levelled' /\ Chain' /\ Logged' /\ Covered' /\ FirstError'
  BY <1>2 DEF Levelled, Located, Descending, PendingReal, GroupReal, MatchedReal, Chain, Logged,
     Covered, FirstError, InLevel
<1>4. Running' /\ NoErrorLost' /\ OneMatch'
  BY <1>2 DEF Running, NoErrorLost, OneMatch, Inv
<1>5. QED
  BY <1>1, <1>3, <1>4 DEF Inv

(* Trying a prepared group, with or without a match, keeps the invariant.  *)
LEMMA DecidedKeeps == ASSUME Inv, TypeOK', Missed \/ Matched PROVE Inv'
<1> DEFINE n == Len(log)
<1>1. /\ UNCHANGED <<priority, demand, remaining, level, pending, group, levelError, deferred, result>>
      /\ UNCHANGED inputs
      /\ phase = "matching" /\ phase' = "groups"
  BY DEF Missed, Matched, inputs
<1>2. PICK o \in {"missed", "matched"} :
        /\ Note(group, o)
        /\ o = "missed" => matched' = matched
        /\ o = "matched" => \E c \in Case : /\ InGroup(c, group)
                                            /\ matched' = Append(matched, [plan |-> group, case |-> c])
  BY DEF Missed, Matched
<1>3. InLevel /\ InLevel' /\ matched = <<>> /\ result = Nothing /\ group \in Positions /\ TypeOK
  BY <1>1 DEF InLevel, Inv, Running, TypeOK, Chain
<1>4. \/ o = "missed" /\ matched' = <<>>
      \/ /\ o = "matched"
         /\ \E c \in Case : InGroup(c, group) /\ matched' = <<[plan |-> group, case |-> c]>>
  BY <1>2, <1>3
<1>5. /\ n \in Nat /\ DOMAIN log = 1..n /\ DOMAIN log' = 1..(n + 1)
      /\ \A i \in 1..n : log'[i] = log[i]
      /\ log'[n + 1].level = level /\ log'[n + 1].plan = group /\ log'[n + 1].outcome = o
  BY <1>2, <1>3, Noted
<1> HIDE DEF n
<1>6. LeastForcing' /\ TriedOnce'
  BY <1>1, <1>2, DecidedIsPrepared
<1>7. \A k \in DOMAIN matched' : /\ matched'[k].plan = group
                                 /\ InGroup(matched'[k].case, group)
  BY <1>4
<1>8. Located' /\ Descending' /\ PendingReal' /\ GroupReal'
  BY <1>1, <1>3 DEF Inv, Levelled, Located, Descending, PendingReal, GroupReal, InGroup, Plan
<1>9. MatchedReal'
  BY <1>1, <1>7 DEF MatchedReal, InGroup, Plan
<1>10. Chain'
  <2>1. ASSUME NEW p \in pending PROVE ExtraForcing(p, group)
    <3>1. group \subseteq p /\ group # p
      BY <1>1 DEF Inv, Chain
    <3>2. PICK x \in p : x \notin group
      BY <3>1
    <3>3. QED
      BY <3>2 DEF ExtraForcing
  <2>2. QED
    BY <1>1, <1>3, <1>7, <2>1 DEF Inv, Chain
<1>11. Logged'
  <2>1. level \in Int /\ level <= level /\ group \notin pending
    BY <1>1, <1>3 DEF TypeOK, Inv, Chain
  <2>2. \A i \in 1..n : /\ level <= log[i].level
                        /\ log[i].outcome \in Left
                        /\ log[i].level = level => log[i].plan \notin pending
    BY <1>3, <1>5 DEF Inv, Logged
  <2>3. \A i \in 1..(n + 1) : i \in 1..n \/ i = n + 1
    BY <1>5
  <2>4. o \in Left \/ matched' # <<>>
    BY <1>4 DEF Left
  <2>5. \A i \in DOMAIN log' :
          /\ level <= log'[i].level
          /\ log'[i].outcome \in Left \/ (log'[i].level = level /\ matched' # <<>>)
          /\ log'[i].level = level => log'[i].plan \notin pending
    BY <1>5, <2>1, <2>2, <2>3, <2>4
  <2>6. QED
    BY <1>1, <2>5 DEF Logged
<1>12. Covered'
  <2>1. SUFFICES ASSUME NEW c \in Case \ remaining
                 PROVE  \/ WasLeft(c)'
                        \/ priority[c] = level /\ (Plan(c) \in pending \/ matched' # <<>>)
    BY <1>1 DEF Covered, Plan
  <2>2. WasLeft(c) \/ (priority[c] = level /\ (Plan(c) \in pending \/ Plan(c) = group))
    BY <1>1, <1>3 DEF Inv, Covered
  <2>3. CASE WasLeft(c)
    BY <1>1, <1>2, <1>3, <2>3, StaysLeft
  <2>4. CASE priority[c] = level /\ Plan(c) = group /\ o = "missed"
    BY <1>1, <1>2, <1>3, <2>4, NowLeft DEF Left
  <2>5. o = "matched" => matched' # <<>>
    BY <1>4
  <2>6. QED
    BY <1>2, <2>2, <2>3, <2>4, <2>5
<1>13. FirstError'
  <2>1. Earliest' = Earliest
    BY <1>1, <1>3 DEF Earliest
  <2>2. /\ \A i \in 1..n : log[i].outcome = "failed" => Earliest # 0 /\ Earliest <= i
        /\ Earliest # 0 => Earliest \in 1..n /\ log[Earliest].outcome = "failed"
    BY <1>3, <1>5 DEF Inv, FirstError
  <2>3. \A i \in 1..(n + 1) : i \in 1..n \/ i = n + 1
    BY <1>5
  <2>4. QED
    BY <1>5, <2>1, <2>2, <2>3 DEF FirstError
<1>14. OneMatch'
  <2>1. Len(matched') \in {0, 1}
    BY <1>4
  <2>2. QED
    BY <2>1 DEF OneMatch
<1>15. QED
  BY <1>1, <1>3, <1>6, <1>8, <1>9, <1>10, <1>11, <1>12, <1>13, <1>14, StillRunning
  DEF Inv, Levelled

-----------------------------------------------------------------------------
(* The invariant holds before the first priority is looked at.             *)
LEMMA InvInit == ASSUME DemandAssumption, Init PROVE Inv
<1>1. /\ phase \in {"levels", "select"} /\ remaining = Case /\ DOMAIN log = {} /\ Len(matched) = 0
      /\ deferred = 0 /\ result = Nothing
  BY DEF Init
<1>2. TypeOK
  BY TypesInit
<1>3. Levelled /\ Chain
  BY <1>1 DEF Levelled, Located, Descending, PendingReal, GroupReal, MatchedReal, Chain, InLevel
<1>4. Logged /\ Covered
  BY <1>1 DEF Logged, Covered, InLevel
<1>5. FirstError /\ Running
  BY <1>1 DEF FirstError, Earliest, InLevel, Running
<1>6. OneMatch /\ LeastForcing /\ TriedOnce
  BY <1>1 DEF OneMatch, LeastForcing, TriedOnce
<1>7. NoErrorLost
  BY <1>1 DEF NoErrorLost, Nothing
<1>8. QED
  BY <1>2, <1>3, <1>4, <1>5, <1>6, <1>7 DEF Inv

(* A step of something else keeps the invariant.                           *)
LEMMA Stutters == ASSUME Inv, UNCHANGED vars PROVE Inv'
<1>1. UNCHANGED <<priority, demand, phase, remaining, level, pending, group, matched, levelError,
                  deferred, log, chosen, refined, result>>
  BY DEF vars, inputs, search, target
<1>2. TypeOK' /\ Running' /\ Logged' /\ OneMatch'
  BY <1>1 DEF Inv, TypeOK, Running, Logged, OneMatch, InLevel
<1>3. Levelled'
  BY <1>1 DEF Inv, Levelled, Located, Descending, PendingReal, GroupReal, MatchedReal, InLevel,
              InGroup, Plan
<1>4. Chain'
  BY <1>1 DEF Inv, Chain, InLevel, ExtraForcing
<1>5. Covered'
  <2>1. \A c : (WasLeft(c) => WasLeft(c)') /\ Plan(c)' = Plan(c)
    BY <1>1 DEF WasLeft, Tried, Plan
  <2>2. CASE phase = "levels"
    BY <1>1, <2>1, <2>2 DEF Inv, Covered, InLevel
  <2>3. CASE InLevel
    <3>1. SUFFICES ASSUME NEW c \in Case \ remaining, ~WasLeft(c)
                   PROVE  priority[c] = level
                          /\ (Plan(c) \in pending \/ (phase = "matching" /\ Plan(c) = group)
                              \/ matched # <<>>)
      BY <1>1, <2>1, <2>3 DEF Covered, InLevel
    <3>2. QED
      BY <2>3, <3>1 DEF Inv, Covered
  <2>4. QED
    BY <1>1, <2>2, <2>3 DEF Covered, InLevel
<1>6. FirstError'
  BY <1>1 DEF Inv, FirstError, Earliest, InLevel
<1>7. LeastForcing' /\ TriedOnce' /\ NoErrorLost'
  BY <1>1 DEF Inv, LeastForcing, TriedOnce, NoErrorLost, Tried, Plan
<1>8. QED
  BY <1>2, <1>3, <1>4, <1>5, <1>6, <1>7 DEF Inv

(* The inductive invariant holds throughout every call.                    *)
THEOREM CallInvariant == Spec => []Inv
<1>1. ASSUME Inv, [Next]_vars PROVE Inv'
  <2>1. TypeOK'
    BY <1>1, TypesNext, DemandAssumption DEF Inv
  <2>2. QED
    BY <1>1, <2>1, DemandAssumption, QuietKeeps, NoneMatchedKeeps, StartLevelKeeps, PrepareKeeps,
       PrepareFailsKeeps, MatchFailsKeeps, DecidedKeeps, Stutters DEF Next, Quiet
<1>2. QED
  BY InvInit, <1>1, DemandAssumption, PTL DEF Spec

(* At most one group of a priority matches.                                *)
THEOREM AtMostOneMatch == Spec => []OneMatch
<1>1. Inv => OneMatch
  BY DEF Inv
<1>2. QED
  BY CallInvariant, <1>1, PTL

(* Nothing is forced before every case that forces less, or comes first,   *)
(* was tried in vain.                                                      *)
THEOREM AlwaysLeastForcing == Spec => []LeastForcing
<1>1. Inv => LeastForcing
  BY DEF Inv
<1>2. QED
  BY CallInvariant, <1>1, PTL

(* No group of cases is prepared twice.                                    *)
THEOREM AlwaysTriedOnce == Spec => []TriedOnce
<1>1. Inv => TriedOnce
  BY DEF Inv
<1>2. QED
  BY CallInvariant, <1>1, PTL

(* A call without a match has tried every case and reports its first       *)
(* failed preparation.                                                     *)
THEOREM ErrorsAreKept == Spec => []NoErrorLost
<1>1. Inv => NoErrorLost
  BY DEF Inv
<1>2. QED
  BY CallInvariant, <1>1, PTL

-----------------------------------------------------------------------------
(* DemandCall implements FunctionCall.                                     *)

(* A case is chosen exactly in the last phases of the call.                *)
Committed ==
  /\ phase \in {"levels", "groups", "matching", "select"} => chosen = NoCase
  /\ phase \in {"refine", "check"} => chosen \in Case
  /\ phase = "check" => chosen \in Checked
  /\ phase = "select" => log = <<>>

(* What was prepared at this priority forces a part of what still may be.  *)
Ascending ==
  InLevel => \A i \in DOMAIN log : log[i].level = level =>
    /\ \A p \in pending : log[i].plan \subseteq p
    /\ phase = "matching" => log[i].plan \subseteq group

(* A matched group was the last to be prepared.                            *)
LastMatched ==
  phase = "groups" /\ matched # <<>> =>
    /\ Len(log) # 0
    /\ log[Len(log)].level = level /\ log[Len(log)].plan = matched[1].plan

CallInv == Inv /\ Committed /\ Ascending /\ LastMatched

(* The call is not committed before a group matched or a selection chose.  *)
LEMMA CommittedInit == ASSUME DemandAssumption, Init PROVE Committed /\ Ascending /\ LastMatched
<1>1. phase \in {"levels", "select"} /\ chosen = NoCase /\ log = <<>>
  BY DEF Init
<1>2. QED
  BY <1>1 DEF Committed, Ascending, LastMatched, InLevel

(* Committed is kept by every step: a chosen case is one of the cases.     *)
LEMMA CommittedNext == ASSUME DemandAssumption, Inv, Inv', Committed, [Next]_vars PROVE Committed'
<1>1. CASE Quiet
  <2>1. phase' \in {"refine", "check", "done"}
    BY <1>1, QuietEffect DEF Inv
  <2>2. CASE SomeMatched
    <3>1. Len(matched) = 1
      BY <2>2, OneMatched
    <3>2. matched[1].case \in Case
      BY <2>2, OneMatched DEF Match
    <3>3. QED
      BY <2>2, <3>1, <3>2 DEF SomeMatched, Committed
  <2>3. CASE SelectCase
    BY <2>3 DEF SelectCase, Committed
  <2>4. CASE RefineArg \/ RefineFails \/ Run \/ RunFails \/ CheckResult
    BY <2>4 DEF RefineArg, RefineFails, Run, RunFails, CheckResult, Answer, Committed, target
  <2>5. CASE PlansConflict \/ MatchedConflict \/ NothingApplies \/ NoneAccepts \/ SelectFails
    BY <2>5 DEF PlansConflict, MatchedConflict, NothingApplies, NoneAccepts, SelectFails, Answer,
       Committed
  <2>6. QED
    BY <1>1, <2>2, <2>3, <2>4, <2>5 DEF Quiet
<1>2. CASE StartLevel \/ PrepareFails \/ Prepare \/ Missed \/ MatchFails \/ Matched \/ NoneMatched
  BY <1>2 DEF StartLevel, PrepareFails, Prepare, Missed, MatchFails, Matched, NoneMatched,
     LevelTried, Answer, Committed, target
<1>3. CASE UNCHANGED vars
  BY <1>3 DEF vars, search, target, Committed
<1>4. QED
  BY <1>1, <1>2, <1>3 DEF Next, Quiet

(* An entry added for a plan below those pending keeps the order.          *)
LEMMA AscendingNote ==
  ASSUME Inv, Ascending, InLevel, InLevel', phase' # "matching", level' = level,
         NEW P \in Positions, NEW o \in {"failed", "missed", "error", "matched"}, Note(P, o),
         pending' \subseteq pending, \A q \in pending' : P \subseteq q
  PROVE  Ascending'
<1>1. /\ Len(log) \in Nat /\ DOMAIN log = 1..Len(log) /\ DOMAIN log' = 1..(Len(log) + 1)
      /\ \A i \in 1..Len(log) : log'[i] = log[i]
      /\ log'[Len(log) + 1].plan = P
  BY Noted DEF Inv
<1>2. ASSUME NEW i \in DOMAIN log', log'[i].level = level, NEW q \in pending'
      PROVE  log'[i].plan \subseteq q
  <2>1. CASE i \in 1..Len(log)
    BY <1>1, <1>2, <2>1 DEF Ascending
  <2>2. CASE i = Len(log) + 1
    BY <1>1, <1>2, <2>2
  <2>3. QED
    BY <1>1, <1>2, <2>1, <2>2
<1>3. QED
  BY <1>2 DEF Ascending

(* Ascending is kept by every step: the least forcing plan comes next.     *)
LEMMA AscendingNext == ASSUME DemandAssumption, Inv, Inv', Ascending, [Next]_vars PROVE Ascending'
<1>1. CASE Quiet \/ NoneMatched \/ MatchFails
  <2>1. phase' \in {"refine", "check", "done", "levels"}
    BY <1>1, QuietEffect DEF Inv, NoneMatched, MatchFails, Answer
  <2>2. QED
    BY <2>1 DEF Ascending, InLevel
<1>2. CASE StartLevel
  <2>1. log' = log /\ phase = "levels" /\ phase' = "groups" /\ result = Nothing
    BY <1>2 DEF StartLevel, Inv, Running
  <2>2. PICK c \in remaining : level' = priority[c] /\ c \in Case
    BY <1>2 DEF StartLevel, TopLevel, Highest, Inv, TypeOK
  <2>3. \A i \in DOMAIN log : level' < log[i].level /\ log[i].level \in Int /\ level' \in Int
    BY <2>1, <2>2, EntriesTyped DEF Inv, Logged, TypeOK
  <2>4. QED
    BY <2>1, <2>3 DEF Ascending
<1>3. CASE Prepare
  <2>1. PICK p \in pending : pending' = pending \ {p} /\ group' = p
    BY <1>3 DEF Prepare
  <2>2. log' = log /\ level' = level /\ phase = "groups"
    BY <1>3 DEF Prepare
  <2>3. QED
    BY <2>1, <2>2 DEF Ascending, InLevel
<1>4. CASE PrepareFails
  <2>1. PICK p \in pending : /\ Least(p) /\ ~ConflictsWithMatched(p)
                             /\ pending' = pending \ {p} /\ Note(p, "failed")
    BY <1>4 DEF PrepareFails
  <2>2. UNCHANGED <<level, phase>> /\ phase = "groups" /\ InLevel
    BY <1>4 DEF PrepareFails, InLevel
  <2>3. \A q \in pending' : p \subseteq q
    BY <2>1, <2>2, LeastIsSubset DEF Inv
  <2>4. p \in Positions /\ InLevel' /\ phase' # "matching" /\ pending' \subseteq pending
    BY <2>1, <2>2 DEF Inv, TypeOK, InLevel
  <2>5. QED
    BY <2>1, <2>2, <2>3, <2>4, AscendingNote
<1>5. CASE Missed \/ Matched
  <2>1. PICK o \in {"missed", "matched"} : Note(group, o)
    BY <1>5 DEF Missed, Matched
  <2>2. UNCHANGED <<level, pending>> /\ phase = "matching" /\ phase' = "groups" /\ InLevel /\ InLevel'
    BY <1>5 DEF Missed, Matched, InLevel
  <2>3. (\A q \in pending' : group \subseteq q) /\ group \in Positions
    BY <2>2 DEF Inv, Chain, TypeOK
  <2>4. QED
    BY <2>1, <2>2, <2>3, AscendingNote
<1>6. CASE UNCHANGED vars
  BY <1>6 DEF vars, search, Ascending, InLevel
<1>7. QED
  BY <1>1, <1>2, <1>3, <1>4, <1>5, <1>6 DEF Next, Quiet

(* LastMatched is kept by every step: nothing is prepared after a match.   *)
LEMMA LastMatchedNext == ASSUME DemandAssumption, Inv, Inv', LastMatched, [Next]_vars PROVE LastMatched'
<1>1. CASE Quiet \/ NoneMatched \/ MatchFails \/ Prepare
  <2>1. phase' \in {"refine", "check", "done", "levels", "matching"}
    BY <1>1, QuietEffect DEF Inv, NoneMatched, MatchFails, Answer, Prepare
  <2>2. QED
    BY <2>1 DEF LastMatched
<1>2. CASE StartLevel
  BY <1>2 DEF StartLevel, LastMatched
<1>3. CASE PrepareFails
  <2>1. matched' = matched /\ matched = <<>>
    BY <1>3, NoneMatchedYet DEF PrepareFails
  <2>2. QED
    BY <2>1 DEF LastMatched
<1>4. CASE Missed
  BY <1>4 DEF Missed, LastMatched, Inv, Chain
<1>5. CASE Matched
  <2>1. PICK c \in Case : matched' = Append(matched, [plan |-> group, case |-> c])
    BY <1>5 DEF Matched
  <2>2. matched = <<>> /\ Note(group, "matched") /\ group \in Positions /\ level' = level
    BY <1>5 DEF Matched, Inv, Chain, TypeOK
  <2>3. matched'[1].plan = group
    BY <2>1, <2>2
  <2>4. Len(log) \in Nat /\ Len(log') = Len(log) + 1 /\ log'[Len(log) + 1].level = level
        /\ log'[Len(log) + 1].plan = group
    <3> DEFINE e == [level |-> level, plan |-> group, outcome |-> "matched"]
    <3>1. e \in Entry /\ log' = Append(log, e) /\ log \in Seq(Entry)
      BY <2>2 DEF Inv, TypeOK, Entry, Note
    <3>2. e.level = level /\ e.plan = group
      OBVIOUS
    <3> HIDE DEF e
    <3>3. QED
      BY <3>1, <3>2, LogAppend
  <2>5. QED
    BY <2>2, <2>3, <2>4 DEF LastMatched
<1>6. CASE UNCHANGED vars
  BY <1>6 DEF vars, search, LastMatched
<1>7. QED
  BY <1>1, <1>2, <1>3, <1>4, <1>5, <1>6 DEF Next, Quiet

(* The strengthened invariant holds throughout every call.                 *)
LEMMA CallInvHolds == Spec => []CallInv
<1>1. Init => Committed /\ Ascending /\ LastMatched
  BY CommittedInit, DemandAssumption
<1>2. ASSUME Inv, Inv', Committed /\ Ascending /\ LastMatched, [Next]_vars
      PROVE  (Committed /\ Ascending /\ LastMatched)'
  BY <1>2, CommittedNext, AscendingNext, LastMatchedNext, DemandAssumption
<1>3. Inv /\ (Committed /\ Ascending /\ LastMatched) => CallInv
  BY DEF CallInv
<1>4. QED
  BY <1>1, <1>2, <1>3, CallInvariant, PTL DEF Spec

-----------------------------------------------------------------------------
(* Conflicts.                                                              *)

(* A match is the last entry of the log, all that was tried at its         *)
(* priority forces a part of it, and of a priority whose plans are all     *)
(* behind every case was tried.                                            *)
MatchLast ==
  \A i \in DOMAIN log : log[i].outcome = "matched" => i = Len(log)
Accounted ==
  InLevel => \A c \in Case : priority[c] = level =>
    Plan(c) \in pending \/ (phase = "matching" /\ Plan(c) = group) \/ ~Untried(c)
MatchTops ==
  phase = "groups" /\ matched # <<>> =>
    /\ log[Len(log)].outcome = "matched"
    /\ \A i \in DOMAIN log : log[i].level = level => log[i].plan \subseteq matched[1].plan
Settled == MatchLast /\ Accounted /\ MatchTops

(* Nothing is settled before the first preparation.                        *)
LEMMA SettledInit == ASSUME DemandAssumption, Init PROVE Settled /\ ConflictIsReal
<1>1. phase \in {"levels", "select"} /\ DOMAIN log = {} /\ chosen = NoCase /\ result = Nothing
  BY DEF Init
<1>2. QED
  BY <1>1 DEF Settled, MatchLast, Accounted, MatchTops, InLevel, ConflictIsReal, Nothing

(* An entry added to a log without a match leaves the plans that are       *)
(* neither pending nor the entry's own tried.                              *)
LEMMA SettledNote ==
  ASSUME CallInv, Settled, InLevel, matched = <<>>, phase' = "groups", UNCHANGED <<inputs, level>>,
         NEW P \in Positions, NEW o \in {"failed", "missed", "error", "matched"}, Note(P, o),
         pending \subseteq pending' \cup {P}, phase = "matching" => P = group,
         matched' # <<>> =>
           /\ o = "matched" /\ matched'[1].plan = P
           /\ \A i \in DOMAIN log : log[i].level = level => log[i].plan \subseteq P
  PROVE  Settled'
<1> DEFINE n == Len(log)
<1>1. /\ n \in Nat /\ DOMAIN log = 1..n /\ DOMAIN log' = 1..(n + 1)
      /\ \A i \in 1..n : log'[i] = log[i]
      /\ log'[n + 1].level = level /\ log'[n + 1].plan = P /\ log'[n + 1].outcome = o
  BY Noted DEF CallInv, Inv
<1>2. Len(log') = n + 1
  <2> DEFINE e == [level |-> level, plan |-> P, outcome |-> o]
  <2>1. e \in Entry /\ log' = Append(log, e) /\ log \in Seq(Entry)
    BY DEF CallInv, Inv, TypeOK, Entry, Note
  <2> HIDE DEF e
  <2>2. QED
    BY <2>1, LogAppend
<1>3. \A i \in 1..n : log[i].outcome # "matched"
  BY <1>1 DEF CallInv, Inv, Logged, Left
<1>4. priority' = priority /\ \A c : Plan(c)' = Plan(c)
  BY DEF inputs, Plan
<1> HIDE DEF n
<1>5. \A i \in 1..(n + 1) : i \in 1..n \/ i = n + 1
  BY <1>1
<1>6. MatchLast'
  BY <1>1, <1>2, <1>3, <1>5 DEF MatchLast
<1>7. Accounted'
  <2>1. SUFFICES ASSUME NEW c \in Case, priority[c] = level, Plan(c) \notin pending'
                 PROVE  \E i \in DOMAIN log' : log'[i].level = level /\ log'[i].plan = Plan(c)
    BY <1>4 DEF Accounted, Untried, Tried
  <2>2. CASE Plan(c) = P
    <3>1. n + 1 \in DOMAIN log'
      BY <1>1
    <3>2. QED
      BY <1>1, <2>2, <3>1
  <2>3. CASE Plan(c) # P
    <3>1. ~Untried(c)
      BY <2>1, <2>3 DEF Settled, Accounted
    <3>2. PICK i \in 1..n : Tried(i, c)
      BY <1>1, <3>1 DEF Untried
    <3>3. i \in DOMAIN log'
      BY <1>1
    <3>4. QED
      BY <1>1, <2>1, <3>2, <3>3 DEF Tried
  <2>4. QED
    BY <2>2, <2>3
<1>8. MatchTops'
  <2>1. SUFFICES ASSUME matched' # <<>>
                 PROVE  /\ log'[n + 1].outcome = "matched"
                        /\ \A i \in DOMAIN log' : log'[i].level = level => log'[i].plan \subseteq P
    BY <1>2 DEF MatchTops
  <2>2. QED
    BY <1>1, <1>5, <2>1
<1>9. QED
  BY <1>6, <1>7, <1>8 DEF Settled

(* Every step keeps what is settled.                                       *)
LEMMA SettledNext == ASSUME DemandAssumption, CallInv, Settled, [Next]_vars PROVE Settled'
<1>1. CASE Quiet \/ NoneMatched
  <2>1. phase' \in {"refine", "check", "done", "levels"} /\ log' = log
    BY <1>1, QuietEffect DEF CallInv, Inv, NoneMatched
  <2>2. QED
    BY <2>1 DEF Settled, MatchLast, Accounted, MatchTops, InLevel
<1>2. CASE MatchFails
  <2>1. /\ phase = "matching" /\ phase' = "done" /\ Note(group, "error")
        /\ group \in Positions /\ matched = <<>>
    BY <1>2 DEF MatchFails, Answer, CallInv, Inv, TypeOK, Chain
  <2>2. /\ DOMAIN log = 1..Len(log) /\ DOMAIN log' = 1..(Len(log) + 1) /\ Len(log) \in Nat
        /\ \A i \in 1..Len(log) : log'[i] = log[i]
        /\ log'[Len(log) + 1].outcome = "error"
    BY <2>1, Noted DEF CallInv, Inv
  <2>3. \A i \in 1..Len(log) : log[i].outcome # "matched"
    BY <2>1, <2>2 DEF CallInv, Inv, Logged, Left, InLevel
  <2>4. \A i \in DOMAIN log' : log'[i].outcome # "matched"
    <3>1. \A i \in 1..(Len(log) + 1) : i \in 1..Len(log) \/ i = Len(log) + 1
      BY <2>2
    <3>2. QED
      BY <2>2, <2>3, <3>1
  <2>5. QED
    BY <2>1, <2>4 DEF Settled, MatchLast, Accounted, MatchTops, InLevel
<1>3. CASE StartLevel
  <2>1. /\ UNCHANGED <<priority, demand, log>> /\ phase' = "groups" /\ matched' = <<>>
        /\ pending' = Plans(TopLevel(remaining)) /\ phase = "levels"
    BY <1>3 DEF StartLevel, inputs
  <2>2. PICK c0 \in TopLevel(remaining) : level' = priority[c0]
    BY <1>3 DEF StartLevel
  <2>3. ASSUME NEW c \in Case, priority[c] = level' PROVE Plan(c) \in pending'
    <3>1. c0 \in remaining /\ c0 \in Case /\ \A d \in remaining : priority[d] <= priority[c0]
      BY DEF TopLevel, Highest, CallInv, Inv, TypeOK
    <3>2. priority[c] \in Int /\ priority[c0] \in Int
      BY <3>1 DEF CallInv, Inv, TypeOK
    <3>3. c \in remaining
      <4>1. SUFFICES ASSUME c \notin remaining PROVE FALSE
        OBVIOUS
      <4>2. priority[c0] < priority[c]
        BY <2>1, <3>1, <4>1 DEF CallInv, Inv, Levelled, Descending
      <4>3. QED
        BY <2>2, <2>3, <3>2, <4>2
    <3>4. c \in TopLevel(remaining)
      BY <2>2, <2>3, <3>1, <3>3 DEF TopLevel, Highest
    <3>5. QED
      BY <2>1, <3>4 DEF Plans
  <2>4. Accounted'
    BY <2>1, <2>3 DEF Accounted, Plan
  <2>5. QED
    BY <2>1, <2>4 DEF Settled, MatchLast, MatchTops
<1>4. CASE Prepare
  <2>1. PICK p \in pending : pending' = pending \ {p} /\ group' = p
    BY <1>4 DEF Prepare
  <2>2. UNCHANGED <<priority, demand, log, level>> /\ phase = "groups" /\ phase' = "matching"
    BY <1>4 DEF Prepare, inputs
  <2>3. \A c : Untried(c)' = Untried(c) /\ Plan(c)' = Plan(c)
    BY <2>2 DEF Untried, Tried, Plan
  <2>4. QED
    BY <2>1, <2>2, <2>3 DEF Settled, MatchLast, Accounted, MatchTops, InLevel
<1>5. CASE PrepareFails
  <2>1. PICK p \in pending : ~ConflictsWithMatched(p) /\ pending' = pending \ {p} /\ Note(p, "failed")
    BY <1>5 DEF PrepareFails
  <2>2. /\ phase = "groups" /\ phase' = "groups" /\ UNCHANGED <<inputs, level>> /\ matched' = matched
        /\ InLevel
    BY <1>5 DEF PrepareFails, InLevel
  <2>3. matched = <<>> /\ p \in Positions
    BY <2>1, <2>2, NoneMatchedYet DEF CallInv, Inv, TypeOK
  <2>4. pending \subseteq pending' \cup {p} /\ phase # "matching" /\ matched' = <<>>
    BY <2>1, <2>2, <2>3
  <2>5. QED
    BY <2>1, <2>2, <2>3, <2>4, SettledNote
<1>6. CASE Missed \/ Matched
  <2>1. PICK o \in {"missed", "matched"} :
          /\ Note(group, o)
          /\ o = "missed" => matched' = matched
          /\ o = "matched" => \E c \in Case : matched' = Append(matched, [plan |-> group, case |-> c])
    BY <1>6 DEF Missed, Matched
  <2>2. /\ UNCHANGED <<inputs, level, pending>> /\ phase = "matching" /\ phase' = "groups"
        /\ InLevel /\ group \in Positions /\ matched = <<>>
    BY <1>6 DEF Missed, Matched, InLevel, CallInv, Inv, TypeOK, Chain
  <2>3. matched' # <<>> =>
          /\ o = "matched" /\ matched'[1].plan = group
          /\ \A i \in DOMAIN log : log[i].level = level => log[i].plan \subseteq group
    BY <2>1, <2>2 DEF CallInv, Ascending
  <2>4. pending \subseteq pending' \cup {group}
    BY <2>2
  <2>5. QED
    BY <2>1, <2>2, <2>3, <2>4, SettledNote
<1>7. CASE UNCHANGED vars
  <2>1. UNCHANGED <<priority, demand, phase, level, pending, group, matched, log>>
    BY <1>7 DEF vars, inputs, search
  <2>2. \A c : Untried(c)' = Untried(c) /\ Plan(c)' = Plan(c)
    BY <2>1 DEF Untried, Tried, Plan
  <2>3. QED
    BY <2>1, <2>2 DEF Settled, MatchLast, Accounted, MatchTops, InLevel
<1>8. QED
  BY <1>1, <1>2, <1>3, <1>4, <1>5, <1>6, <1>7 DEF Next, Quiet

(* The conflict reported before a priority's first preparation is one of   *)
(* two of its plans that each force what the other must not; none of its   *)
(* cases was tried.                                                        *)
LEMMA ConflictOfPlans == ASSUME CallInv, PlansConflict PROVE ConflictIsReal'
<1>1. PICK l, r \in Plans(TopLevel(remaining)) : ~(l \subseteq r) /\ ~(r \subseteq l)
  BY DEF PlansConflict, Incomparable, ExtraForcing
<1>2. PICK c, d \in TopLevel(remaining) : l = Plan(c) /\ r = Plan(d)
  BY <1>1 DEF Plans
<1>3. c \in remaining /\ c \in Case /\ d \in Case /\ priority[c] = priority[d]
  <2>1. c \in remaining /\ d \in remaining
        /\ priority[c] <= priority[d] /\ priority[d] <= priority[c]
    BY DEF TopLevel, Highest
  <2>2. priority[c] \in Int /\ priority[d] \in Int /\ c \in Case /\ d \in Case
    BY <2>1 DEF CallInv, Inv, TypeOK
  <2>3. QED
    BY <2>1, <2>2
<1>4. ASSUME NEW i \in DOMAIN log PROVE log[i].level # priority[c]
  <2>1. priority[c] < log[i].level /\ priority[c] \in Int /\ log[i].level \in Int
    BY <1>3, EntriesTyped DEF CallInv, Inv, Logged, PlansConflict, TypeOK
  <2>2. QED
    BY <2>1
<1>5. UNCHANGED <<priority, demand, log, chosen>> /\ chosen = NoCase
  BY DEF PlansConflict, inputs, search, target, CallInv, Committed
<1>6. \A other \in Case : priority[other] = priority[c] => Untried(other)'
  BY <1>4, <1>5 DEF Untried, Tried
<1>7. QED
  BY <1>1, <1>2, <1>3, <1>5, <1>6 DEF ConflictIsReal, Plan

(* The conflict reported after a match is one of the matched plan and a    *)
(* more forcing plan of the same priority that was not tried.              *)
LEMMA ConflictOfMatched == ASSUME CallInv, Settled, MatchedConflict PROVE ConflictIsReal'
<1> DEFINE n == Len(log)
<1>1. PICK p \in pending : ConflictsWithMatched(p)
  BY DEF MatchedConflict
<1>2. PICK k \in DOMAIN matched : ExtraForcing(p, matched[k].plan)
  BY <1>1 DEF ConflictsWithMatched
<1>3. InLevel /\ phase = "groups"
  BY DEF MatchedConflict, InLevel
<1>4. k = 1 /\ matched # <<>>
  <2>1. matched \in Seq(Match) /\ DOMAIN matched = 1..Len(matched) /\ Len(matched) \in Nat
    BY LenProperties DEF CallInv, Inv, TypeOK, Match
  <2>2. Len(matched) <= 1
    BY DEF CallInv, Inv, OneMatch
  <2>3. QED
    BY <2>1, <2>2
<1>5. n \in DOMAIN log /\ log[n].outcome = "matched" /\ log[n].level = level
      /\ log[n].plan = matched[1].plan
  <2>1. n \in Nat /\ DOMAIN log = 1..n
    BY EntriesTyped DEF CallInv, Inv
  <2>2. n # 0 /\ log[n].level = level /\ log[n].plan = matched[1].plan
    BY <1>3, <1>4 DEF CallInv, LastMatched
  <2>3. log[n].outcome = "matched"
    BY <1>3, <1>4 DEF Settled, MatchTops
  <2>4. QED
    BY <2>1, <2>2, <2>3
<1> HIDE DEF n
<1>6. PICK d \in Case : InGroup(d, p)
  BY <1>3 DEF CallInv, Inv, Levelled, PendingReal
<1>7. ~(Plan(d) \subseteq log[n].plan) /\ log[n].level = priority[d]
  BY <1>2, <1>4, <1>5, <1>6 DEF ExtraForcing, InGroup
<1>8. Untried(d)
  BY <1>3, <1>6 DEF CallInv, Inv, Logged, Untried, Tried, InGroup
<1>9. UNCHANGED <<priority, demand, log, chosen>> /\ chosen = NoCase
  BY DEF MatchedConflict, inputs, search, target, CallInv, Committed
<1>10. Untried(d)' /\ Plan(d)' = Plan(d)
  BY <1>8, <1>9 DEF Untried, Tried, Plan
<1>11. QED
  BY <1>5, <1>7, <1>9, <1>10 DEF ConflictIsReal

(* The case a call commits to is of a priority none of whose cases forces  *)
(* more than the plan that matched.                                        *)
LEMMA CommitsToTop == ASSUME CallInv, Settled, SomeMatched PROVE ConflictIsReal'
<1>1. UNCHANGED <<priority, demand, log, result>> /\ phase = "groups" /\ pending = {} /\ matched # <<>>
  BY SomeIsOne DEF SomeMatched, LevelTried, inputs, search, CallInv
<1>2. result'.kind # "conflict"
  BY <1>1 DEF CallInv, Inv, Running, Nothing
<1>3. ASSUME NEW i \in DOMAIN log, NEW d \in Case,
             log[i].outcome = "matched", log[i].level = priority[d]
      PROVE  Plan(d) \subseteq log[i].plan
  <2>1. i = Len(log) /\ log[i].level = level /\ log[i].plan = matched[1].plan
    BY <1>1, <1>3 DEF Settled, MatchLast, CallInv, LastMatched
  <2>2. ~Untried(d)
    BY <1>1, <1>3, <2>1 DEF Settled, Accounted, InLevel
  <2>3. PICK j \in DOMAIN log : log[j].level = level /\ log[j].plan = Plan(d)
    BY <1>3, <2>1, <2>2 DEF Untried, Tried
  <2>4. QED
    BY <1>1, <2>1, <2>3 DEF Settled, MatchTops
<1>4. QED
  BY <1>1, <1>2, <1>3 DEF ConflictIsReal, Plan

(* Every step reports real conflicts only.                                 *)
LEMMA ConflictNext ==
  ASSUME DemandAssumption, CallInv, Settled, ConflictIsReal, [Next]_vars
  PROVE  ConflictIsReal'
<1>1. CASE PlansConflict \/ MatchedConflict \/ SomeMatched
  BY <1>1, ConflictOfPlans, ConflictOfMatched, CommitsToTop
<1>2. CASE \/ StartLevel \/ Prepare \/ PrepareFails \/ Missed \/ Matched \/ MatchFails \/ NoneMatched
           \/ NothingApplies \/ NoneAccepts \/ SelectFails
  <2>1. /\ phase \in {"levels", "groups", "matching", "select"} /\ chosen' = chosen
        /\ result' = result \/ result'.kind # "conflict"
    BY <1>2 DEF StartLevel, Prepare, PrepareFails, Missed, Matched, MatchFails, NoneMatched, LevelTried,
       NothingApplies, NoneAccepts, SelectFails, Answer, target
  <2>2. chosen' = NoCase /\ result'.kind # "conflict"
    BY <2>1 DEF CallInv, Inv, Committed, Running, Nothing
  <2>3. QED
    BY <2>2 DEF ConflictIsReal
<1>3. CASE SelectCase
  <2>1. log' = log /\ DOMAIN log = {} /\ result' = Nothing
    BY <1>3 DEF SelectCase, search, CallInv, Inv, Committed, Running
  <2>2. QED
    BY <2>1 DEF ConflictIsReal, Nothing
<1>4. CASE RefineArg \/ RefineFails \/ Run \/ RunFails \/ CheckResult
  <2>1. /\ UNCHANGED <<priority, demand, log, chosen>> /\ phase \in {"refine", "check"}
        /\ result' = result \/ result'.kind # "conflict"
    BY <1>4 DEF RefineArg, RefineFails, Run, RunFails, CheckResult, Answer, inputs, search, target
  <2>2. result'.kind # "conflict"
    BY <2>1 DEF CallInv, Inv, Running, Nothing
  <2>3. QED
    BY <2>1, <2>2 DEF ConflictIsReal, Plan
<1>5. CASE UNCHANGED vars
  <2>1. UNCHANGED <<priority, demand, log, chosen, result>>
    BY <1>5 DEF vars, inputs, search, target
  <2>2. \A c : Untried(c)' = Untried(c) /\ Plan(c)' = Plan(c)
    BY <2>1 DEF Untried, Tried, Plan
  <2>3. QED
    BY <2>1, <2>2 DEF ConflictIsReal
<1>6. QED
  BY <1>1, <1>2, <1>3, <1>4, <1>5 DEF Next

(* A demand conflict is reported only where two plans of an untried        *)
(* priority are incomparable or an untried case forces more than the plan  *)
(* that matched, and a call commits to a matched plan only if no case of   *)
(* its priority forces more.                                               *)
THEOREM ConflictsAreReal == Spec => []ConflictIsReal
<1>1. Init => Settled /\ ConflictIsReal
  BY SettledInit, DemandAssumption
<1>2. ASSUME CallInv, Settled /\ ConflictIsReal, [Next]_vars
      PROVE  (Settled /\ ConflictIsReal)'
  BY <1>2, SettledNext, ConflictNext, DemandAssumption
<1>3. QED
  BY <1>1, <1>2, CallInvHolds, PTL DEF Spec

-----------------------------------------------------------------------------
(* The mapping: what is prepared is what the log says, and the group being *)
(* matched.                                                                *)

Step(l, p) == [level |-> l, plan |-> p]
Plain(l) == [i \in 1..Len(l) |-> Step(l[i].level, l[i].plan)]

(* What Append does, as a function of the place.                           *)
LEMMA AppendIs ==
  ASSUME NEW S, NEW s \in Seq(S), NEW x
  PROVE  Append(s, x) = [i \in 1..(Len(s) + 1) |-> IF i <= Len(s) THEN s[i] ELSE x]
<1> DEFINE T == S \cup {x}
           a == Append(s, x)
<1>1. s \in Seq(T) /\ x \in T /\ Len(s) \in Nat
  BY LenProperties
<1> HIDE DEF T
<1>2. a \in Seq(T) /\ Len(a) = Len(s) + 1 /\ (\A i \in 1..Len(s) : a[i] = s[i]) /\ a[Len(s) + 1] = x
  BY <1>1, AppendProperties
<1> HIDE DEF a
<1>3. a = [i \in 1..Len(a) |-> a[i]]
  BY <1>2, LenProperties
<1>4. \A i \in 1..Len(a) : a[i] = IF i <= Len(s) THEN s[i] ELSE x
  BY <1>1, <1>2
<1>5. QED
  BY <1>2, <1>3, <1>4 DEF a

(* The mapped preparations, with the state they depend on spelled out.     *)
BegunAt(ph, lev, gr, lg) ==
  [i \in 1..(Len(lg) + IF ph = "matching" THEN 1 ELSE 0) |->
     IF i <= Len(lg) THEN [level |-> lg[i].level, plan |-> lg[i].plan]
                     ELSE [level |-> lev, plan |-> gr]]

(* They have two forms.                                                    *)
LEMMA BegunAtIs ==
  ASSUME NEW ph, NEW lev, NEW gr, NEW lg \in Seq(Entry)
  PROVE  BegunAt(ph, lev, gr, lg) =
           IF ph = "matching" THEN Append(Plain(lg), Step(lev, gr)) ELSE Plain(lg)
<1>1. Len(lg) \in Nat
  BY LenProperties
<1>2. CASE ph # "matching"
  BY <1>1, <1>2 DEF BegunAt, Plain, Step
<1>3. CASE ph = "matching"
  <2> DEFINE S == {Step(lg[i].level, lg[i].plan) : i \in 1..Len(lg)}
  <2>1. Len(Plain(lg)) = Len(lg) /\ Plain(lg) \in Seq(S)
    BY <1>1 DEF Plain
  <2> HIDE DEF S
  <2>2. Append(Plain(lg), Step(lev, gr)) =
          [i \in 1..(Len(lg) + 1) |-> IF i <= Len(lg) THEN Plain(lg)[i] ELSE Step(lev, gr)]
    BY <2>1, AppendIs
  <2>3. QED
    BY <1>1, <1>3, <2>2 DEF BegunAt, Plain, Step
<1>4. QED
  BY <1>2, <1>3

(* So they have in a state and in the next one.                            *)
LEMMA BegunIs ==
  ASSUME TypeOK, TypeOK'
  PROVE  /\ Begun = IF phase = "matching" THEN Append(Plain(log), Step(level, group))
                                          ELSE Plain(log)
         /\ Begun' = IF phase' = "matching" THEN Append(Plain(log'), Step(level', group'))
                                            ELSE Plain(log')
<1>1. Begun = BegunAt(phase, level, group, log) /\ Begun' = BegunAt(phase', level', group', log')
  BY DEF Begun, BegunAt
<1>2. log \in Seq(Entry) /\ log' \in Seq(Entry)
  BY DEF TypeOK, Entry
<1>3. QED
  BY <1>1, <1>2, BegunAtIs

(* One more entry in the log is one more preparation.                      *)
LEMMA PlainAppend ==
  ASSUME TypeOK, NEW e \in Entry, log' = Append(log, e)
  PROVE  Plain(log') = Append(Plain(log), Step(e.level, e.plan))
<1>1. /\ Len(log) \in Nat /\ Len(log') = Len(log) + 1
      /\ \A i \in 1..Len(log) : log'[i] = log[i]
      /\ log'[Len(log) + 1] = e
  BY LogAppend DEF TypeOK, Entry
<1> DEFINE S == {Step(log[i].level, log[i].plan) : i \in 1..Len(log)}
<1>2. Len(Plain(log)) = Len(log) /\ Plain(log) \in Seq(S)
  BY <1>1 DEF Plain
<1> HIDE DEF S
<1>3. Append(Plain(log), Step(e.level, e.plan)) =
        [i \in 1..(Len(log) + 1) |-> IF i <= Len(log) THEN Plain(log)[i] ELSE Step(e.level, e.plan)]
  BY <1>2, AppendIs
<1>4. QED
  BY <1>1, <1>3 DEF Plain

(* The positions FunctionCall says a case forces are its demand plan.      *)
LEMMA SamePlan == ASSUME TypeOK, NEW c \in Case PROVE Promised!Forced(c) = Plan(c)
<1>1. demand[c] \in Seq(Demand)
  BY DEF TypeOK
<1>2. Len(demand[c]) \in Nat
  BY <1>1, LenProperties
<1>3. \A p \in 1..Arity : p > Len(demand[c]) <=> ~(p <= Len(demand[c]))
  BY <1>2
<1>4. QED
  BY <1>3 DEF Promised!Forced, Plan, Syntax

(* A call starts as the promise says.                                      *)
LEMMA PromisedInit == ASSUME DemandAssumption, Init PROVE Promised!Init
<1>1. TypeOK
  BY TypesInit
<1>2. phase \in {"levels", "select"} /\ log = <<>> /\ chosen = NoCase /\ result = Nothing
  BY DEF Init
<1>3. Begun = <<>>
  <2>1. Begun = BegunAt(phase, level, group, log) /\ log \in Seq(Entry) /\ phase # "matching"
    BY <1>2 DEF Begun, BegunAt
  <2>2. Plain(<<>>) = <<>>
    BY DEF Plain
  <2>3. QED
    BY <1>2, <2>1, <2>2, BegunAtIs
<1>4. ~Ran /\ result.kind = "none"
  BY <1>2 DEF Ran, Nothing
<1>5. priority \in [Case -> Int] /\ demand \in [Case -> Demands]
  BY CasesAssumption DEF Init
<1>6. QED
  BY <1>2, <1>3, <1>4, <1>5 DEF Promised!Init

(* A preparation begun for the case c with the plan p is the promise's     *)
(* next.                                                                   *)
LEMMA PromisedPrepare ==
  ASSUME CallInv, TypeOK', phase = "groups", NEW p \in pending, Least(p), ~ConflictsWithMatched(p),
         Begun' = Append(Begun, Step(level, p)),
         UNCHANGED <<priority, demand, chosen, result>>, phase' \in {"groups", "matching"}
  PROVE  Promised!Prepare
<1>1. TypeOK /\ InLevel /\ result = Nothing /\ chosen = NoCase
  BY DEF CallInv, Inv, Running, InLevel, Committed
<1>2. PICK c \in Case : priority[c] = level /\ Plan(c) = p
  BY <1>1 DEF CallInv, Inv, Levelled, PendingReal, InGroup
<1> DEFINE step == Step(level, p)
<1>3. Step(priority[c], Promised!Forced(c)) = step
  BY <1>1, <1>2, SamePlan
<1>4. Begun = Plain(log) /\ Len(log) \in Nat
  BY <1>1, BegunIs, EntriesTyped
<1>5. ASSUME NEW k \in DOMAIN Begun PROVE Promised!Comes(Begun[k], step)
  <2>1. k \in DOMAIN log /\ Begun[k] = Step(log[k].level, log[k].plan)
    BY <1>1, <1>4, EntriesTyped DEF Plain
  <2>2. level <= log[k].level /\ level \in Int /\ log[k].level \in Int
    BY <1>1, <2>1, EntriesTyped DEF CallInv, Inv, Logged, TypeOK
  <2>3. log[k].level = level => log[k].plan \subseteq p /\ log[k].plan # p
    BY <1>1, <2>1 DEF CallInv, Ascending, Inv, Logged
  <2>4. QED
    BY <2>1, <2>2, <2>3 DEF Promised!Comes, Step
<1>6. Promised!Searching /\ Ran' = Ran /\ result' = result
  BY <1>1 DEF Promised!Searching, Promised!Open, Ran, Nothing
<1>7. Begun' = Append(Begun, step)
  OBVIOUS
<1> HIDE DEF step
<1>8. QED
  BY <1>3, <1>5, <1>6, <1>7 DEF Promised!Prepare, Step

(* A chosen case is the one the last preparation was made for.             *)
LEMMA PromisedChoose ==
  ASSUME CallInv, TypeOK', SomeMatched \/ SelectCase PROVE Promised!Choose
<1>1. TypeOK /\ result = Nothing /\ chosen = NoCase /\ ~Ran
  BY DEF CallInv, Inv, Running, Committed, SomeMatched, SelectCase, LevelTried, Ran, Nothing
<1>2. phase \in {"groups", "select"} /\ phase' = "refine" /\ result' = result /\ UNCHANGED <<log, priority, demand>>
  BY SomeIsOne DEF CallInv, SomeMatched, SelectCase, LevelTried, inputs, search
<1>3. Begun = Plain(log) /\ Begun' = Plain(log')
  BY <1>1, <1>2, BegunIs
<1>4. Ran' = Ran
  BY <1>1, <1>2 DEF Ran, Nothing
<1>5. CASE SelectCase
  <2>1. log = <<>> /\ chosen' \in Case
    BY <1>5 DEF CallInv, Committed, SelectCase
  <2>2. Plain(<<>>) = <<>>
    BY DEF Plain
  <2>3. QED
    BY <1>1, <1>2, <1>3, <1>4, <2>1, <2>2
    DEF Promised!Choose, Promised!Searching, Promised!Open, Nothing
<1>6. CASE SomeMatched
  <2> DEFINE c == matched[1].case
  <2>1. Len(matched) = 1 /\ matched[1] \in Match /\ phase = "groups" /\ matched # <<>>
    BY <1>6, OneMatched DEF CallInv, SomeMatched, LevelTried
  <2>2. 1 \in DOMAIN matched
    BY <1>1, <2>1, LenProperties DEF TypeOK, Match
  <2>3. c \in Case /\ priority[c] = level /\ Plan(c) = matched[1].plan /\ chosen' = c
    BY <1>6, <2>1, <2>2 DEF CallInv, Inv, Levelled, MatchedReal, InLevel, InGroup, Match, SomeMatched
  <2>4. Len(log) # 0 /\ log[Len(log)].level = level /\ log[Len(log)].plan = matched[1].plan
    BY <2>1 DEF CallInv, LastMatched
  <2>5. Len(log) \in Nat /\ Len(Plain(log)) = Len(log)
    BY <1>1, EntriesTyped DEF Plain
  <2>6. Plain(log)[Len(log)] = Step(level, matched[1].plan)
    BY <2>4, <2>5 DEF Plain
  <2>7. Plain(log)[Len(Plain(log))] = Step(priority[c], Promised!Forced(c))
    BY <1>1, <2>3, <2>5, <2>6, SamePlan
  <2> HIDE DEF c
  <2>8. QED
    BY <1>1, <1>2, <1>3, <1>4, <2>3, <2>7
    DEF Promised!Choose, Promised!Searching, Promised!Open, Nothing, Step
<1>7. QED
  BY <1>5, <1>6

(* Before a case is chosen a call may end without one.                     *)
LEMMA PromisedGiveUp ==
  ASSUME CallInv, TypeOK', MatchFails \/ PlansConflict \/ MatchedConflict \/ NothingApplies
                           \/ NoneAccepts \/ SelectFails
  PROVE  Promised!GiveUp
<1>1. /\ phase \in {"levels", "groups", "matching", "select"} /\ phase' = "done"
      /\ UNCHANGED <<priority, demand, chosen>>
  BY DEF MatchFails, PlansConflict, MatchedConflict, NothingApplies, NoneAccepts, SelectFails,
     Answer, inputs, target
<1>2. TypeOK /\ result = Nothing /\ chosen = NoCase
  BY <1>1 DEF CallInv, Inv, Running, Committed
<1>3. result'.kind \in Failures
  BY DEF MatchFails, PlansConflict, MatchedConflict, NothingApplies, NoneAccepts, SelectFails,
     Answer, Failures
<1>4. Begun' = Begun
  <2>1. CASE MatchFails
    <3> DEFINE e == [level |-> level, plan |-> group, outcome |-> "error"]
    <3>1. e \in Entry /\ log' = Append(log, e) /\ phase = "matching"
      BY <1>2, <2>1 DEF MatchFails, Note, TypeOK, Entry
    <3>2. e.level = level /\ e.plan = group
      OBVIOUS
    <3> HIDE DEF e
    <3>3. QED
      BY <1>1, <1>2, <3>1, <3>2, BegunIs, PlainAppend
  <2>2. CASE ~MatchFails
    <3>1. log' = log /\ phase # "matching"
      BY <2>2 DEF PlansConflict, MatchedConflict, NothingApplies, NoneAccepts, SelectFails, search
    <3>2. QED
      BY <1>1, <1>2, <3>1, BegunIs
  <2>3. QED
    BY <2>1, <2>2
<1>5. ~Ran /\ Ran' = Ran
  BY <1>1, <1>2, <1>3 DEF Ran, Nothing, Failures
<1>6. QED
  BY <1>1, <1>2, <1>3, <1>4, <1>5
  DEF Promised!GiveUp, Promised!Searching, Promised!Open, Nothing, Failures

(* The chosen case's call: its arguments, its implementation, its result.  *)
LEMMA PromisedCall ==
  ASSUME DemandAssumption, CallInv, TypeOK', RefineFails \/ Run \/ RunFails \/ CheckResult
  PROVE  Promised!RefineFails \/ Promised!Run \/ Promised!Check
<1>1. /\ phase \in {"refine", "check"} /\ phase' \in {"check", "done"}
      /\ UNCHANGED <<priority, demand, chosen, log>>
  BY DEF RefineFails, Run, RunFails, CheckResult, Answer, inputs, search, target
<1>2. TypeOK /\ result = Nothing /\ chosen \in Case /\ chosen # NoCase
  BY <1>1 DEF CallInv, Inv, Running, Committed, DemandAssumption
<1>3. Begun' = Begun
  BY <1>1, <1>2, BegunIs
<1>4. CASE RefineFails
  <2>1. ~Ran /\ Ran' = Ran /\ result'.kind = "refineError"
    BY <1>2, <1>4 DEF RefineFails, Ran, Nothing, Answer
  <2>2. QED
    BY <1>1, <1>2, <1>3, <2>1 DEF Promised!RefineFails, Promised!Calling, Promised!Open, Nothing
<1>5. CASE Run \/ RunFails
  <2>1. ~Ran /\ Ran' /\ result'.kind \in {"callError", IF chosen \in Checked THEN "none" ELSE "returned"}
    BY <1>2, <1>5 DEF Run, RunFails, Ran, Nothing, Answer
  <2>2. QED
    BY <1>1, <1>2, <1>3, <2>1 DEF Promised!Run, Promised!Calling, Promised!Open, Nothing
<1>6. CASE CheckResult
  <2>1. phase = "check" /\ chosen \in Checked
    BY <1>6 DEF CheckResult, CallInv, Committed
  <2>2. Ran /\ Ran' = Ran /\ result'.kind \in {"returned", "wrongResult", "checkError"}
    BY <1>6, <2>1 DEF CheckResult, Ran, Answer
  <2>3. QED
    BY <1>1, <1>2, <1>3, <2>1, <2>2 DEF Promised!Check, Promised!Calling, Promised!Open, Nothing
<1>7. QED
  BY <1>4, <1>5, <1>6

(* What the caller sees of a step that prepares nothing and decides        *)
(* nothing: nothing.                                                       *)
LEMMA PromisedStutter ==
  ASSUME CallInv, TypeOK', RefineArg \/ StartLevel \/ NoneMatched \/ Missed \/ Matched \/ UNCHANGED vars
  PROVE  UNCHANGED Promised!vars
<1>1. TypeOK
  BY DEF CallInv, Inv
<1>2. CASE Missed \/ Matched
  <2>1. PICK o \in {"missed", "matched"} : Note(group, o)
    BY <1>2 DEF Missed, Matched
  <2> DEFINE e == [level |-> level, plan |-> group, outcome |-> o]
  <2>2. e \in Entry /\ log' = Append(log, e)
    BY <1>1, <2>1 DEF Note, TypeOK, Entry
  <2>3. e.level = level /\ e.plan = group
    OBVIOUS
  <2> HIDE DEF e
  <2>4. phase = "matching" /\ phase' = "groups" /\ UNCHANGED <<priority, demand, chosen, result>>
    BY <1>2 DEF Missed, Matched, inputs, target
  <2>5. Begun' = Begun
    BY <1>1, <2>2, <2>3, <2>4, BegunIs, PlainAppend
  <2>6. Ran' = Ran
    BY <2>4 DEF Ran
  <2>7. QED
    BY <2>4, <2>5, <2>6 DEF Promised!vars
<1>3. CASE RefineArg \/ StartLevel \/ NoneMatched
  <2>1. phase \in {"refine", "levels", "groups"} /\ phase' \in {"refine", "levels", "groups"}
        /\ UNCHANGED <<priority, demand, chosen, result, log>>
    BY <1>3 DEF RefineArg, StartLevel, NoneMatched, LevelTried, inputs, target, search
  <2>2. Begun' = Begun
    BY <1>1, <2>1, BegunIs
  <2>3. Ran' = Ran
    BY <2>1 DEF Ran
  <2>4. QED
    BY <2>1, <2>2, <2>3 DEF Promised!vars
<1>4. CASE UNCHANGED vars
  <2>1. UNCHANGED <<priority, demand, chosen, result, log, phase, level, group>>
    BY <1>4 DEF vars, inputs, target, search
  <2>2. Begun' = Begun /\ Ran' = Ran
    BY <2>1 DEF Begun, Ran
  <2>3. QED
    BY <2>1, <2>2 DEF Promised!vars
<1>5. QED
  BY <1>2, <1>3, <1>4

(* Every step of a call is one of the promise, or invisible.               *)
LEMMA PromisedNext ==
  ASSUME DemandAssumption, CallInv, [Next]_vars PROVE [Promised!Next]_(Promised!vars)
<1>1. TypeOK /\ TypeOK'
  BY TypesNext DEF CallInv, Inv
<1>2. CASE Prepare
  <2>1. PICK p \in pending : Least(p) /\ ~ConflictsWithMatched(p) /\ group' = p
    BY <1>2 DEF Prepare
  <2>2. /\ phase = "groups" /\ phase' = "matching"
        /\ UNCHANGED <<priority, demand, chosen, result, log, level>>
    BY <1>2 DEF Prepare, inputs, target
  <2>3. Begun' = Append(Begun, Step(level, p))
    BY <1>1, <2>1, <2>2, BegunIs
  <2>4. QED
    BY <1>1, <2>1, <2>2, <2>3, PromisedPrepare DEF Promised!Next
<1>3. CASE PrepareFails
  <2>1. PICK p \in pending : Least(p) /\ ~ConflictsWithMatched(p) /\ Note(p, "failed")
    BY <1>3 DEF PrepareFails
  <2>2. phase = "groups" /\ phase' = "groups" /\ UNCHANGED <<priority, demand, chosen, result>>
    BY <1>3 DEF PrepareFails, inputs, target
  <2> DEFINE e == [level |-> level, plan |-> p, outcome |-> "failed"]
  <2>3. e \in Entry /\ log' = Append(log, e)
    BY <1>1, <2>1 DEF Note, TypeOK, Entry
  <2>4. e.level = level /\ e.plan = p
    OBVIOUS
  <2> HIDE DEF e
  <2>5. Begun' = Append(Begun, Step(level, p))
    BY <1>1, <2>2, <2>3, <2>4, BegunIs, PlainAppend
  <2>6. QED
    BY <1>1, <2>1, <2>2, <2>5, PromisedPrepare DEF Promised!Next
<1>4. CASE SomeMatched \/ SelectCase
  BY <1>1, <1>4, PromisedChoose DEF Promised!Next
<1>5. CASE MatchFails \/ PlansConflict \/ MatchedConflict \/ NothingApplies \/ NoneAccepts \/ SelectFails
  BY <1>1, <1>5, PromisedGiveUp DEF Promised!Next
<1>6. CASE RefineFails \/ Run \/ RunFails \/ CheckResult
  BY <1>1, <1>6, PromisedCall DEF Promised!Next
<1>7. CASE RefineArg \/ StartLevel \/ NoneMatched \/ Missed \/ Matched \/ UNCHANGED vars
  BY <1>1, <1>7, PromisedStutter
<1>8. QED
  BY <1>2, <1>3, <1>4, <1>5, <1>6, <1>7 DEF Next

(* Every call prepares its arguments in the promised order, commits to one *)
(* case, and runs that one once.  (That it ends is checked, not proved.)   *)
THEOREM CallsKeepThePromise == Spec => Promised!Spec
<1>1. Init => Promised!Init
  BY PromisedInit, DemandAssumption
<1>2. CallInv /\ [Next]_vars => [Promised!Next]_(Promised!vars)
  BY PromisedNext, DemandAssumption
<1>3. QED
  BY <1>1, <1>2, CallInvHolds, PTL DEF Spec, Promised!Spec

-----------------------------------------------------------------------------
(* Selection.                                                              *)
(*                                                                         *)
(* The pass replaces the best match only by a later one, and sorting means *)
(* a later match has no higher priority and, at the same priority, no      *)
(* higher score.  So a replacement never lowers the priority and is always *)
(* a step down the specificity relation: that is what makes one pass over  *)
(* an order that is no order safe, and it is the invariant below.          *)
MatchPlace == DOMAIN matches
Best  == matches[best]

TopPriority == matches # <<>> => \A k \in MatchPlace : priority[matches[k]] <= priority[Best]

NoneMoreSpecific ==
  matches # <<>> /\ Transitive =>
    \A k \in MatchPlace : k < index /\ priority[matches[k]] = priority[Best]
                       => ~Specific(matches[k], Best)

TopScore ==
  matches # <<>> /\ ScoresAgree =>
    \A k \in MatchPlace : priority[matches[k]] = priority[Best] => score[matches[k]] <= score[Best]

SelectionSettled ==
  decision.kind = "selected" =>
    /\ matches # <<>> /\ index > Len(matches)
    /\ decision.cases = {Best}
    /\ Tied = {}

SelectionInv ==
  /\ SelectTypeOK /\ Sorted(matches)
  /\ TopPriority /\ NoneMoreSpecific /\ TopScore /\ SelectionSettled

-----------------------------------------------------------------------------
(* A later match the comparison prefers has the priority of the best one   *)
(* and is proven strictly more specific than it.                           *)
LEMMA LaterIsSpecific ==
  ASSUME SelectTypeOK, Sorted(matches), matches # <<>>, NEW k \in MatchPlace, k > best,
         Greater(matches[k], Best)
  PROVE  /\ priority[matches[k]] = priority[Best]
         /\ Specific(matches[k], Best)
         /\ score[matches[k]] <= score[Best]
<1>1. best \in MatchPlace /\ best < k /\ k \in Int /\ best \in Int
  BY DEF SelectTypeOK, MatchPlace
<1>2. matches[k] \in Case /\ Best \in Case
  BY <1>1 DEF SelectTypeOK, MatchPlace, Best
<1>3. /\ priority[matches[k]] \in Int /\ priority[Best] \in Int
      /\ score[matches[k]] \in Int /\ score[Best] \in Int
  BY <1>2 DEF SelectTypeOK
<1>4. \/ priority[Best] > priority[matches[k]]
      \/ priority[Best] = priority[matches[k]] /\ score[Best] >= score[matches[k]]
  BY <1>1 DEF Sorted, MatchPlace, Best
<1>5. QED
  BY <1>3, <1>4 DEF Greater

(* The first match of a sorted, non-empty sequence has the top priority    *)
(* and, within it, the top score.                                          *)
LEMMA FirstIsTop ==
  ASSUME SelectTypeOK, Sorted(matches), matches # <<>>, NEW k \in MatchPlace
  PROVE  /\ priority[matches[k]] <= priority[matches[1]]
         /\ priority[matches[k]] = priority[matches[1]] => score[matches[k]] <= score[matches[1]]
<1>1. 1 \in MatchPlace /\ k \in Int /\ k >= 1
  BY DEF SelectTypeOK, MatchPlace
<1>2. matches[k] \in Case /\ matches[1] \in Case
  BY <1>1 DEF SelectTypeOK, MatchPlace
<1>3. /\ priority[matches[k]] \in Int /\ priority[matches[1]] \in Int
      /\ score[matches[k]] \in Int /\ score[matches[1]] \in Int
  BY <1>2 DEF SelectTypeOK
<1>4. CASE k = 1
  BY <1>3, <1>4
<1>5. CASE k > 1
  BY <1>1, <1>3, <1>5 DEF Sorted, MatchPlace
<1>6. QED
  BY <1>1, <1>4, <1>5

(* The invariant holds when the sorted matches are about to be looked at.  *)
LEMMA SelectionInit == ASSUME SelectInit PROVE SelectionInv
<1>1. SelectTypeOK
  <2>1. /\ priority \in [Case -> Int] /\ score \in [Case -> Int]
        /\ sub \in SUBSET (Case \X Case)
    BY CasesAssumption, SelectionAssumption DEF SelectInit
  <2>2. matches \in Seq(Case) /\ Len(matches) \in Nat /\ (matches # <<>> => Len(matches) >= 1)
    BY DEF SelectInit
  <2>3. decision \in [kind: Kinds, cases: SUBSET Case]
    BY DEF SelectInit, Undecided, Kinds
  <2>4. index = 2 /\ best = 1
    BY DEF SelectInit
  <2>5. QED
    BY <2>1, <2>2, <2>3, <2>4 DEF SelectTypeOK
<1>2. Sorted(matches)
  BY DEF SelectInit
<1>3. Best = matches[1] /\ best = 1 /\ index = 2
  BY DEF SelectInit, Best
<1>4. TopPriority /\ TopScore
  BY <1>1, <1>2, <1>3, FirstIsTop DEF TopPriority, TopScore
<1>5. NoneMoreSpecific
  <2>1. SUFFICES ASSUME NEW k \in MatchPlace, k < index, Specific(matches[k], Best)
                 PROVE  FALSE
    BY DEF NoneMoreSpecific
  <2>2. k = 1
    BY <2>1, <1>1, <1>3 DEF MatchPlace, SelectTypeOK
  <2>3. QED
    BY <2>1, <2>2, <1>3 DEF Specific
<1>6. SelectionSettled
  BY DEF SelectInit, Undecided, SelectionSettled
<1>7. QED
  BY <1>1, <1>2, <1>4, <1>5, <1>6 DEF SelectionInv

(* The best match may be replaced: the invariant's heart.                  *)
LEMMA ReplaceKeeps == ASSUME SelectionInv, Replace PROVE SelectionInv'
<1> DEFINE new == matches[index]
<1>0. SelectTypeOK /\ Sorted(matches) /\ Len(matches) \in Nat /\ DOMAIN matches = 1..Len(matches)
  BY DEF SelectionInv, SelectTypeOK
<1>1. SelectTypeOK /\ Sorted(matches) /\ matches # <<>> /\ index \in MatchPlace /\ index > best
      /\ best \in MatchPlace /\ index \in Int /\ Greater(new, Best)
  <2>1. index \in Int /\ best \in Int /\ index >= 2 /\ best >= 1 /\ best < index
        /\ index <= Len(matches)
    BY <1>0 DEF SelectTypeOK, Replace, Scanning
  <2>2. matches # <<>>
    BY <1>0, <2>1
  <2>3. QED
    BY <1>0, <2>1, <2>2 DEF MatchPlace, Best, Replace
<1>2. /\ priority[new] = priority[Best]
      /\ Specific(new, Best)
      /\ score[new] <= score[Best]
  BY <1>1, LaterIsSpecific
<1>3. UNCHANGED <<priority, score, sub, matches, decision>> /\ best' = index /\ index' = index + 1
  BY DEF Replace, given
<1>4. Best' = new /\ MatchPlace' = MatchPlace /\ matches' = matches /\ Accepted' = Accepted
  BY <1>3 DEF Best, MatchPlace, Accepted
<1>5. \A k \in MatchPlace : matches[k] \in Accepted /\ matches[k] \in Case
  BY <1>1 DEF Accepted, MatchPlace, SelectTypeOK
<1>6. new \in Accepted /\ Best \in Accepted /\ new \in Case /\ Best \in Case
  BY <1>1, <1>5 DEF Best
<1>7. SelectTypeOK'
  <2>1. index + 1 \in 2..(Len(matches) + 2) /\ index \in 1..(Len(matches) + 1)
        /\ index < index + 1 /\ index <= Len(matches) /\ index + 1 <= Len(matches) + 1
    BY <1>0, <1>1 DEF MatchPlace
  <2>2. QED
    BY <1>1, <1>3, <2>1 DEF SelectTypeOK
<1>8. Sorted(matches)'
  BY <1>1, <1>3 DEF Sorted
<1>9. TopPriority'
  BY <1>1, <1>2, <1>3, <1>4 DEF TopPriority, SelectionInv
<1>10. NoneMoreSpecific'
  <2>1. SUFFICES ASSUME Transitive, NEW k \in MatchPlace, k < index + 1,
                        priority[matches[k]] = priority[new], Specific(matches[k], new)
                 PROVE  FALSE
    BY <1>3, <1>4 DEF NoneMoreSpecific, Transitive, Specific
  <2>2. k # index
    BY <2>1 DEF Specific
  <2>3. k < index
    BY <1>1, <2>1, <2>2 DEF MatchPlace, SelectTypeOK
  <2>4. <<matches[k], Best>> \in sub
    BY <1>2, <1>5, <1>6, <2>1 DEF Transitive, Specific
  <2>5. <<Best, matches[k]>> \notin sub
    BY <1>2, <1>5, <1>6, <2>1 DEF Transitive, Specific
  <2>6. Specific(matches[k], Best)
    BY <2>4, <2>5 DEF Specific
  <2>7. QED
    BY <1>1, <1>2, <2>1, <2>3, <2>6 DEF NoneMoreSpecific, SelectionInv
<1>11. TopScore'
  <2>1. SUFFICES ASSUME ScoresAgree, NEW k \in MatchPlace, priority[matches[k]] = priority[new]
                 PROVE  score[matches[k]] <= score[new]
    BY <1>3, <1>4 DEF TopScore, ScoresAgree, Specific
  <2>2. score[new] >= score[Best]
    BY <1>2, <1>6, <2>1 DEF ScoresAgree
  <2>3. score[matches[k]] <= score[Best]
    BY <1>1, <1>2, <2>1 DEF TopScore, SelectionInv
  <2>4. score[matches[k]] \in Int /\ score[new] \in Int /\ score[Best] \in Int
    BY <1>1, <1>5, <1>6 DEF SelectTypeOK
  <2>5. QED
    BY <2>2, <2>3, <2>4
<1>12. SelectionSettled'
  BY <1>3 DEF SelectionSettled, Replace, Scanning, Undecided
<1>13. QED
  BY <1>7, <1>8, <1>9, <1>10, <1>11, <1>12 DEF SelectionInv

(* Passing over a match that is not preferred to the best one so far keeps *)
(* the invariant.                                                          *)
LEMMA KeepKeeps == ASSUME SelectionInv, Keep PROVE SelectionInv'
<1>0. SelectTypeOK /\ Len(matches) \in Nat /\ DOMAIN matches = 1..Len(matches)
  BY DEF SelectionInv, SelectTypeOK
<1>1. SelectTypeOK /\ index \in MatchPlace /\ matches # <<>> /\ index \in Int /\ best < index
  <2>1. index \in Int /\ best < index /\ index >= 2 /\ index <= Len(matches)
    BY <1>0 DEF SelectTypeOK, Keep, Scanning
  <2>2. QED
    BY <1>0, <2>1 DEF MatchPlace
<1>2. /\ UNCHANGED <<priority, score, sub, matches, best, decision>> /\ index' = index + 1
      /\ ~Greater(matches[index], Best)
  BY DEF Keep, given, Best
<1>3. Best' = Best /\ MatchPlace' = MatchPlace /\ Accepted' = Accepted
  BY <1>2 DEF Best, MatchPlace, Accepted
<1>4. SelectTypeOK'
  <2>1. index + 1 \in 2..(Len(matches) + 2) /\ best < index + 1 /\ best <= Len(matches)
        /\ index + 1 <= Len(matches) + 1
    BY <1>0, <1>1 DEF MatchPlace, SelectTypeOK
  <2>2. QED
    BY <1>1, <1>2, <2>1 DEF SelectTypeOK
<1>5. Sorted(matches)' /\ TopPriority' /\ TopScore'
  BY <1>2, <1>3 DEF SelectionInv, Sorted, TopPriority, TopScore, ScoresAgree, Specific
<1>6. NoneMoreSpecific'
  <2>1. SUFFICES ASSUME Transitive, NEW k \in MatchPlace, k < index + 1,
                        priority[matches[k]] = priority[Best], Specific(matches[k], Best)
                 PROVE  FALSE
    BY <1>1, <1>2, <1>3 DEF NoneMoreSpecific, Transitive, Specific
  <2>2. CASE k = index
    BY <1>2, <2>1, <2>2 DEF Greater
  <2>3. CASE k # index
    <3>1. k < index
      BY <1>1, <2>1, <2>3 DEF MatchPlace, SelectTypeOK
    <3>2. QED
      BY <1>1, <2>1, <3>1 DEF SelectionInv, NoneMoreSpecific
  <2>4. QED
    BY <2>2, <2>3
<1>7. SelectionSettled'
  BY <1>2 DEF SelectionSettled, Keep, Scanning, Undecided
<1>8. QED
  BY <1>4, <1>5, <1>6, <1>7 DEF SelectionInv

(* Every way to end the selection keeps the invariant: only an untied best *)
(* case is selected.                                                       *)
LEMMA EndKeeps ==
  ASSUME SelectionInv, NoMatch \/ CompareFails \/ Ambiguous \/ Select \/ UNCHANGED selectVars
  PROVE  SelectionInv'
<1>1. UNCHANGED <<priority, score, sub, matches, index, best>>
  BY DEF NoMatch, CompareFails, Ambiguous, Select, selectVars, given
<1>2. decision' = decision \/ decision'.kind # "selected"
      \/ (Scanned /\ Tied = {} /\ decision' = [kind |-> "selected", cases |-> {matches[best]}])
  BY DEF NoMatch, CompareFails, Ambiguous, Select, selectVars, Decide
<1>3. decision' \in [kind: Kinds, cases: SUBSET Case]
  <2>1. \A k \in DOMAIN matches : matches[k] \in Case
    BY DEF SelectionInv, SelectTypeOK
  <2>2. CASE NoMatch \/ CompareFails
    BY <2>2 DEF NoMatch, CompareFails, Decide, Kinds
  <2>3. CASE Ambiguous
    <3>1. matches # <<>>
      BY <2>3 DEF Ambiguous, Scanned
    <3>2. Tied \cup {best} \subseteq DOMAIN matches
      BY <3>1 DEF Tied, SelectionInv, SelectTypeOK
    <3>3. {matches[k] : k \in Tied \cup {best}} \in SUBSET Case
      BY <2>1, <3>2
    <3>4. QED
      BY <2>3, <3>3 DEF Ambiguous, Decide, Kinds
  <2>4. CASE Select
    <3>1. matches # <<>>
      BY <2>4 DEF Select, Scanned
    <3>2. matches[best] \in Case
      BY <2>1, <3>1 DEF SelectionInv, SelectTypeOK
    <3>3. QED
      BY <2>4, <3>2 DEF Select, Decide, Kinds
  <2>5. CASE UNCHANGED selectVars
    BY <2>5 DEF selectVars, SelectionInv, SelectTypeOK
  <2>6. QED
    BY <2>2, <2>3, <2>4, <2>5
<1>4. SelectTypeOK'
  BY <1>1, <1>3 DEF SelectionInv, SelectTypeOK
<1>5. Sorted(matches)' /\ TopPriority' /\ NoneMoreSpecific' /\ TopScore'
  <2>1. Best' = Best /\ MatchPlace' = MatchPlace /\ Accepted' = Accepted
    BY <1>1 DEF Best, MatchPlace, Accepted
  <2>2. Transitive' = Transitive /\ ScoresAgree' = ScoresAgree
    BY <1>1, <2>1 DEF Transitive, ScoresAgree, Specific
  <2>3. Sorted(matches)' /\ TopPriority'
    BY <1>1, <2>1 DEF SelectionInv, Sorted, TopPriority
  <2>4. NoneMoreSpecific'
    BY <1>1, <2>1, <2>2 DEF SelectionInv, NoneMoreSpecific, Specific
  <2>5. TopScore'
    BY <1>1, <2>1, <2>2 DEF SelectionInv, TopScore
  <2>6. QED
    BY <2>3, <2>4, <2>5
<1>6. Tied' = Tied
  BY <1>1 DEF Tied, Equal, Greater, Specific
<1>7. SelectionSettled'
  BY <1>1, <1>2, <1>6 DEF SelectionInv, SelectionSettled, Scanned, Best
<1>8. QED
  BY <1>4, <1>5, <1>7 DEF SelectionInv

(* The inductive invariant holds of every selection.                       *)
THEOREM SelectionHolds == SelectSpec => []SelectionInv
<1>1. ASSUME SelectionInv, [SelectNext]_selectVars PROVE SelectionInv'
  BY <1>1, ReplaceKeeps, KeepKeeps, EndKeeps DEF SelectNext
<1>2. QED
  BY SelectionInit, <1>1, PTL DEF SelectSpec

(* The cursors of the pass stay inside the matches.                        *)
THEOREM SelectionTypeCorrect == SelectSpec => []SelectTypeOK
<1>1. SelectionInv => SelectTypeOK
  BY DEF SelectionInv
<1>2. QED
  BY SelectionHolds, <1>1, PTL

(* The selected case is the one the pass kept, and every accepted case was *)
(* compared on the way.                                                    *)
LEMMA ChosenIsBest ==
  ASSUME SelectionInv, NEW c \in Case, Chosen(c)
  PROVE  /\ matches # <<>> /\ c = Best /\ Tied = {}
         /\ \A d \in Accepted : \E k \in MatchPlace : d = matches[k] /\ k < index
<1>1. matches # <<>> /\ index > Len(matches) /\ c = Best /\ Tied = {}
  BY DEF Chosen, SelectionInv, SelectionSettled
<1>2. \A k \in MatchPlace : k < index
  BY <1>1 DEF SelectionInv, SelectTypeOK, MatchPlace
<1>3. QED
  BY <1>1, <1>2 DEF Accepted, MatchPlace

(* No accepted case of a higher priority is passed over.                   *)
THEOREM PriorityAlwaysWins == SelectSpec => []PriorityWins
<1>1. SelectionInv => PriorityWins
  <2>1. SUFFICES ASSUME SelectionInv, NEW c \in Case, Chosen(c), NEW d \in Accepted
                 PROVE  priority[d] <= priority[c]
    BY DEF PriorityWins
  <2>2. QED
    BY <2>1, ChosenIsBest DEF SelectionInv, TopPriority
<1>2. QED
  BY SelectionHolds, <1>1, PTL

(* Where specificity proofs compose, one pass never settles on a case that *)
(* another accepted case of its priority is proven more specific than.     *)
THEOREM NeverStrictlySubsumed == SelectSpec => []NeverSubsumed
<1>1. SelectionInv => NeverSubsumed
  <2>1. SUFFICES ASSUME SelectionInv, Transitive, NEW c \in Case, Chosen(c), NEW d \in Accepted,
                        priority[d] = priority[c]
                 PROVE  ~Specific(d, c)
    BY DEF NeverSubsumed
  <2>2. QED
    BY <2>1, ChosenIsBest DEF SelectionInv, NoneMoreSpecific
<1>2. QED
  BY SelectionHolds, <1>1, PTL

(* Where, in addition, a more specific case never scores lower, the        *)
(* selected case is preferred to every other accepted one.                 *)
THEOREM SelectedIsBest == SelectSpec => []BestIsBest
<1>1. SelectionInv => BestIsBest
  <2>1. SUFFICES ASSUME SelectionInv, Transitive, ScoresAgree, NEW c \in Case, Chosen(c),
                        NEW d \in Accepted, d # c
                 PROVE  Greater(c, d)
    BY DEF BestIsBest
  <2>2. PICK k \in MatchPlace : d = matches[k] /\ k < index
    BY <2>1, ChosenIsBest
  <2>3. c = Best /\ matches # <<>> /\ k # best /\ k \notin Tied
    BY <2>1, <2>2, ChosenIsBest DEF Best
  <2>4. ~Equal(c, d)
    BY <2>2, <2>3 DEF Tied, MatchPlace, Best
  <2>5. d \in Case
    BY <2>2, <2>1 DEF SelectionInv, SelectTypeOK, MatchPlace
  <2>6. /\ priority[c] \in Int /\ priority[d] \in Int /\ score[c] \in Int /\ score[d] \in Int
    BY <2>1, <2>5 DEF SelectionInv, SelectTypeOK
  <2>7. priority[d] <= priority[c]
    BY <2>2, <2>3, <2>1 DEF SelectionInv, TopPriority
  <2>8. priority[d] = priority[c] => ~Specific(d, c) /\ score[d] <= score[c]
    BY <2>1, <2>2, <2>3 DEF SelectionInv, NoneMoreSpecific, TopScore
  <2>9. ~Greater(d, c)
    BY <2>6, <2>7, <2>8 DEF Greater
  <2>10. QED
    BY <2>4, <2>9 DEF Equal
<1>2. QED
  BY SelectionHolds, <1>1, PTL

-----------------------------------------------------------------------------
(* Selection implements OverloadChoice.                                    *)

(* The promise's comparison is compare_cases.                              *)
LEMMA AboveIsGreater ==
  ASSUME SelectTypeOK, NEW a \in Case, NEW b \in Case
  PROVE  Choice!Above(a, b) <=> Greater(a, b)
<1>1. priority[a] \in Int /\ priority[b] \in Int /\ score[a] \in Int /\ score[b] \in Int
  BY DEF SelectTypeOK
<1>2. CASE (<<a, b>> \in sub) # (<<b, a>> \in sub)
  BY <1>1, <1>2 DEF Choice!Above, Greater, Specific
<1>3. CASE (<<a, b>> \in sub) = (<<b, a>> \in sub)
  BY <1>1, <1>3 DEF Choice!Above, Greater, Specific
<1>4. QED
  BY <1>2, <1>3

(* Every accepted case has one place among the sorted matches.             *)
LEMMA PlacesDiffer ==
  ASSUME SelectionInv
  PROVE  /\ \A k \in MatchPlace : matches[k] \in Accepted /\ matches[k] \in Case
         /\ \A d \in Accepted : d \in Case /\ \E k \in MatchPlace : d = matches[k]
         /\ \A j, k \in MatchPlace : j # k => matches[j] # matches[k]
<1>1. MatchPlace = 1..Len(matches) /\ Len(matches) \in Nat /\ \A k \in MatchPlace : matches[k] \in Case
  BY DEF SelectionInv, SelectTypeOK, MatchPlace
<1>2. ASSUME NEW j \in MatchPlace, NEW k \in MatchPlace, j # k PROVE matches[j] # matches[k]
  <2>1. j < k \/ k < j
    BY <1>1, <1>2
  <2>2. QED
    BY <2>1, <1>2 DEF SelectionInv, Sorted, MatchPlace
<1>3. QED
  BY <1>1, <1>2 DEF Accepted, MatchPlace

(* Once there are matches, the best one is of the highest priority, and    *)
(* its rivals are the matches the second pass finds.                       *)
LEMMA BestIsTop ==
  ASSUME SelectionInv, matches # <<>>
  PROVE  /\ best \in MatchPlace /\ Best \in Choice!Top
         /\ Choice!Rivals(Best) = {matches[k] : k \in Tied}
<1>1. best \in MatchPlace
  BY DEF SelectionInv, SelectTypeOK, MatchPlace
<1>2. Best \in Accepted /\ Best \in Case
  BY <1>1, PlacesDiffer DEF Best
<1>3. Best \in Choice!Top
  BY <1>2, PlacesDiffer DEF Choice!Top, SelectionInv, TopPriority
<1>4. ASSUME NEW k \in MatchPlace PROVE k \in Tied <=> matches[k] \in Choice!Rivals(Best)
  <2>1. matches[k] \in Case /\ matches[k] \in Accepted /\ (k # best <=> matches[k] # Best)
    BY <1>1, PlacesDiffer DEF Best
  <2>2. /\ Choice!Above(Best, matches[k]) <=> Greater(Best, matches[k])
        /\ Choice!Above(matches[k], Best) <=> Greater(matches[k], Best)
    BY <1>2, <2>1, AboveIsGreater DEF SelectionInv
  <2>3. QED
    BY <2>1, <2>2 DEF Choice!Rivals, Tied, Equal, MatchPlace, Best
<1>5. \A d \in Choice!Rivals(Best) : \E k \in MatchPlace : d = matches[k]
  BY PlacesDiffer DEF Choice!Rivals
<1>6. Tied \subseteq MatchPlace
  BY DEF Tied, MatchPlace
<1>7. QED
  BY <1>1, <1>3, <1>4, <1>5, <1>6

(* A specificity question that fails was about two cases of the highest    *)
(* priority.                                                               *)
LEMMA FailsAtTop == ASSUME SelectionInv, CompareFails PROVE \E c, d \in Choice!Top : c # d
<1>1. matches # <<>> /\ MatchPlace = 1..Len(matches) /\ Len(matches) \in Nat
  BY DEF CompareFails, Scanning, Scanned, SelectionInv, SelectTypeOK, MatchPlace
<1>2. PICK k \in MatchPlace : k # best /\ priority[matches[k]] = priority[Best]
  <2>1. CASE Scanning /\ priority[matches[index]] = priority[matches[best]]
    <3>1. index \in MatchPlace /\ index # best
      BY <1>1, <2>1 DEF SelectionInv, SelectTypeOK, Scanning
    <3>2. QED
      BY <2>1, <3>1 DEF Best
  <2>2. QED
    BY <2>1 DEF CompareFails, MatchPlace, Best
<1>3. best \in MatchPlace /\ Best \in Choice!Top
  BY <1>1, BestIsTop
<1>4. matches[k] \in Choice!Top
  BY <1>2, <1>3, PlacesDiffer DEF Choice!Top
<1>5. QED
  BY <1>2, <1>3, <1>4, PlacesDiffer DEF Best

(* Every step of the search is invisible, or the one decision.             *)
LEMMA ChoiceNext == ASSUME SelectionInv, [SelectNext]_selectVars PROVE [Choice!Next]_(Choice!vars)
<1>1. UNCHANGED <<priority, score, sub, matches>> /\ Accepted' = Accepted
  BY DEF SelectNext, NoMatch, Replace, Keep, CompareFails, Ambiguous, Select, selectVars, given, Accepted
<1>2. CASE Replace \/ Keep \/ UNCHANGED selectVars
  BY <1>1, <1>2 DEF Replace, Keep, selectVars, Choice!vars
<1>3. CASE NoMatch
  <2>1. Accepted = {}
    BY <1>3 DEF NoMatch, Accepted
  <2>2. QED
    BY <1>1, <1>3, <2>1 DEF NoMatch, Undecided, Decide, Choice!Next, Choice!NoMatch, Choice!open
<1>4. CASE CompareFails
  BY <1>1, <1>4, FailsAtTop
  DEF CompareFails, Scanning, Scanned, Undecided, Decide, Choice!Next, Choice!Fail, Choice!open
<1>5. CASE Ambiguous
  <2>1. /\ matches # <<>> /\ Tied # {} /\ Undecided
        /\ decision' = [kind |-> "ambiguous", cases |-> {matches[k] : k \in Tied \cup {best}}]
    BY <1>5 DEF Ambiguous, Scanned, Decide
  <2>2. Choice!Rivals(Best) # {} /\ Best \in Choice!Top
        /\ {matches[k] : k \in Tied \cup {best}} = Choice!Rivals(Best) \cup {Best}
    BY <2>1, BestIsTop DEF Best
  <2>3. QED
    BY <1>1, <2>1, <2>2 DEF Undecided, Choice!Next, Choice!Ambiguous, Choice!open
<1>6. CASE Select
  <2>1. /\ matches # <<>> /\ Tied = {} /\ Undecided
        /\ decision' = [kind |-> "selected", cases |-> {Best}]
    BY <1>6 DEF Select, Scanned, Decide, Best
  <2>2. Choice!Rivals(Best) = {} /\ Best \in Choice!Top
    BY <2>1, BestIsTop
  <2>3. QED
    BY <1>1, <2>1, <2>2 DEF Undecided, Choice!Next, Choice!Select, Choice!open
<1>7. QED
  BY <1>2, <1>3, <1>4, <1>5, <1>6 DEF SelectNext

(* Every selection is one decision as OverloadChoice describes it.  (That  *)
(* it is made is checked, not proved.)                                     *)
THEOREM SelectionIsChoice == SelectSpec => Choice!Spec
<1>1. ASSUME SelectInit PROVE Choice!Init
  <2>1. Accepted \in SUBSET Case
    BY <1>1, SelectionInit, PlacesDiffer
  <2>2. QED
    BY <1>1, <2>1 DEF SelectInit, Undecided, Choice!Init, Choice!open
<1>2. SelectionInv /\ [SelectNext]_selectVars => [Choice!Next]_(Choice!vars)
  BY ChoiceNext
<1>3. QED
  BY <1>1, <1>2, SelectionHolds, PTL DEF SelectSpec, Choice!Spec
=============================================================================
