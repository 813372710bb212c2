----------------------------- MODULE ClaimRules ------------------------------
(* The rules one semantic verification pass applies to claims and verdicts  *)
(* (runtime.mjs, coverage.mjs, critic.mjs): which synthesized claims a      *)
(* batch may return, which verdicts about them are accepted, when a verdict *)
(* needs a second verifier and how the two are merged, and the proof gate   *)
(* that only ever downgrades.                                               *)
(*                                                                          *)
(*   observation  [kind: source, git or search;                             *)
(*                 of a source: path, role, defines (it is the definition   *)
(*                 the caller asked for);                                   *)
(*                 of a search: complete (clean, enumerated to the end,     *)
(*                 covering the scope), matches, predicate (it states what  *)
(*                 is absent), usage (it looked for the symbol of a trace), *)
(*                 count (the measurement the runtime computes);            *)
(*                 items: the files a search lists, or a source mentions]   *)
(*   goal         [id, policy, traits]                                      *)
(*   claim        [id, goal, text, refs, measure]                           *)
(*   text         [words, names (the files it names), leads ("is defined in" *)
(*                 comes right before the file), range (the source whose    *)
(*                 lines the runtime wrote into it, if any)]                *)
(*   verdict      [result, resolution, refs, reason]                        *)
EXTENDS FiniteSetsExt, SequencesExt

CONSTANTS
  Observation,  \* observation id -> observation
  NoCount,      \* no measurement
  BatchSize     \* goals of one control request (SEMANTIC_CONTROL_BATCH_SIZE)

ASSUME RulesAssumption == BatchSize \in Nat \ {0}

Kind(kind, refs) == {o \in refs \intersect DOMAIN Observation : Observation[o].kind = kind}
Sources(refs) == Kind("source", refs)
Searches(refs) == Kind("search", refs)
Direct(refs) == Sources(refs) \union Kind("git", refs)
Paths(refs) == {Observation[o].path : o \in Sources(refs)}
Ids(claims) == {c.id : c \in claims}
GoalsOf(claims) == {c.goal : c \in claims}
With(goals, id) == CHOOSE g \in goals : g.id = id

\* Whatever restates a claim keeps its id, its goal and its measurement.
Restated(claim, text, refs) ==
  [id |-> claim.id, goal |-> claim.goal, text |-> text, refs |-> refs, measure |-> claim.measure]

\* A text as a model words it, and the runtime's wording of a certified count.
Text(words, names, leads) == [words |-> words, names |-> names, leads |-> leads, range |-> {}]
CountText == Text("counted", {}, FALSE)
WithNames(text, names) ==
  [words |-> text.words, names |-> text.names \union names, leads |-> text.leads,
   range |-> text.range]
WithRange(text, range) ==
  [words |-> text.words, names |-> text.names, leads |-> text.leads, range |-> range]

Supports(v) == v.result = "supported"
Insufficient(refs, reason) ==
  [result |-> "insufficient", resolution |-> "none", refs |-> refs, reason |-> reason]
-----------------------------------------------------------------------------
(* Claim synthesis.                                                         *)

Mode(goal) ==
  IF goal.policy # "direct_source" THEN "other"
  ELSE IF "historical" \in goal.traits THEN "historical" ELSE "current"

\* Goals are positions in the task.  Those of one mode in a row are asked
\* together, BatchSize at a time; a batch is known by the goal it starts with.
Row(goals, mode, i) ==
  {j \in goals : j <= i /\ \A k \in goals : j <= k /\ k <= i => mode[k] = mode[i]}
Starts(goals, mode) ==
  {i \in goals : (Cardinality(Row(goals, mode, i)) - 1) % BatchSize = 0}
BatchAt(goals, mode, start) ==
  {i \in goals : start <= i /\ \A s \in Starts(goals, mode) : s <= start \/ i < s}

\* A batch of direct-source goals sees sources, and commits if all are historical.
BatchObservations(goals, observed) ==
  IF \E g \in goals : g.policy # "direct_source" THEN observed
  ELSE Sources(observed) \union
         (IF \A g \in goals : Mode(g) = "historical" THEN Kind("git", observed) ELSE {})

RuntimeId(goal, n) == <<"claim", goal, n>>

\* An id an earlier batch used, once in this reply and no prior's, is renamed.
Renamed(raw, used, priors) ==
  LET Once(c) == Cardinality({d \in raw : d.id = c.id}) = 1
      Rename(done, c) ==
        LET taken == used \union Ids(priors) \union Ids(raw) \union Ids(done)
            n == CHOOSE k \in 1..(Cardinality(taken) + 1) :
                   /\ RuntimeId(c.goal, k) \notin taken
                   /\ \A m \in 1..(k - 1) : RuntimeId(c.goal, m) \in taken
        IN IF Once(c) /\ c.id \in used /\ c.id \notin Ids(priors)
           THEN done \union {[c EXCEPT !.id = RuntimeId(c.goal, n)]}
           ELSE done \union {c}
  IN FoldLeft(Rename, {}, SetToSeq(raw))

\* Only claims of count goals keep a measurement.
Normalized(raw, goals, used, priors) ==
  LET counts == {g.id : g \in {h \in goals : h.policy = "deterministic_count"}}
  IN Renamed({IF c.goal \in counts THEN c ELSE [c EXCEPT !.measure = NoCount] : c \in raw},
             used, priors)

\* Prior claims are carried whether returned or not, and gain fresh evidence only.
CarriedPriors(raw, priors, fresh) ==
  {Restated(p, p.text, p.refs \union
      ((UNION {c.refs : c \in {d \in raw : d.id = p.id}}) \intersect fresh)) : p \in priors}

NewClaims(raw, goals, priors) ==
  {c \in raw :
     /\ c.id \notin Ids(priors)
     /\ \/ c.goal \notin GoalsOf(priors)
        \/ With(goals, c.goal).policy = "support_or_refute"}

OneClaimPerId(claims) == \A c, d \in claims : c.id = d.id => c = d

Sound(candidates, goals, used, visible) ==
  /\ OneClaimPerId(candidates)
  /\ \A c \in candidates :
       /\ c.goal \in {g.id : g \in goals}
       /\ c.id \notin used
       /\ c.refs \subseteq visible

\* The observations of the test file the caller named.
AnchorRefs(anchor, visible) ==
  {o \in Sources(visible) : Observation[o].role = "test" /\ Observation[o].path = anchor}

\* A test goal asked alone is shown, and keeps, nothing but the anchor.
Shown(goals, anchor, visible) ==
  IF /\ Cardinality(goals) = 1 /\ AnchorRefs(anchor, visible) # {}
     /\ \A g \in goals : "one_test" \in g.traits
  THEN AnchorRefs(anchor, visible) ELSE visible
KeepingShown(claims, goals, shown) ==
  LET narrows(c) == /\ With(goals, c.goal).policy = "direct_source"
                    /\ c.refs \intersect shown # {}
  IN {IF narrows(c) THEN Restated(c, c.text, c.refs \intersect shown) ELSE c : c \in claims}

TestPaths(claim) == Paths({o \in Sources(claim.refs) : Observation[o].role = "test"})

CountMissing(candidates, goals) ==
  {g.id : g \in {h \in goals : /\ h.policy = "deterministic_count"
                               /\ \E c \in candidates : c.goal = h.id /\ c.measure = NoCount}}

\* Goals whose claims may be set aside while the rest of the batch is kept.
Faulty(candidates, goals, anchor, visible) ==
  LET Of(g) == {c \in candidates : c.goal = g.id}
      noisy == {g \in goals : /\ Cardinality(Of(g)) > 1
                              /\ g.policy # "support_or_refute" \/ "collect" \in g.traits}
      oneTest == {g \in goals : "one_test" \in g.traits}
      anchored == AnchorRefs(anchor, visible)
      untested == {g \in oneTest : \E c \in Of(g) : Cardinality(TestPaths(c)) # 1}
      replaced == {g \in oneTest : /\ anchored # {}
                                   /\ \E c \in Of(g) : c.refs \intersect anchored = {}}
      silent == {g \in oneTest : anchored # {} /\ Of(g) = {}}
  IN {g.id : g \in noisy \union untested \union replaced \union silent}
       \union CountMissing(candidates, goals)

Without(candidates, faulty) == {c \in candidates : c.goal \notin faulty}
-----------------------------------------------------------------------------
(* What the runtime writes into the claims of a batch, prior ones included. *)

\* The one test observed, if it mentions an implementation file the claim cites
\* or a complete search lists both.
CompanionTests(claim, visible) ==
  LET role(r, refs) == {o \in Sources(refs) : Observation[o].role = r}
      tests == role("test", visible)
      cited == Paths(role("implementation", claim.refs))
      connecting == tests \union
        {o \in Searches(visible) : Observation[o].complete /\ Paths(tests) \subseteq Observation[o].items}
  IN IF /\ Cardinality(Paths(tests)) = 1
        /\ \E o \in connecting : Observation[o].items \intersect cited # {}
     THEN tests ELSE {}

\* A claim about one test names its file; a relevance claim of a request for an
\* edit also cites the companion test.
TestNamed(goal, claim, visible) ==
  LET companions == IF "companion" \in goal.traits /\ TestPaths(claim) = {}
                    THEN CompanionTests(claim, visible) ELSE {}
      tests == TestPaths(claim) \union Paths(companions)
  IN IF goal.traits \intersect {"one_test", "companion"} # {} /\ Cardinality(tests) = 1
     THEN Restated(claim, WithNames(claim.text, tests), claim.refs \union companions)
     ELSE claim

\* The risk boundary of a change is whatever the other impact claims of the batch cite.
ImpactText(refs) == Text("impact paths", Paths(refs), FALSE)
ImpactClaims(claims, goals) ==
  {c \in claims : LET traits == With(goals, c.goal).traits
                  IN "impact" \in traits /\ "risk" \notin traits}
RiskBounded(claims, goals) ==
  LET sources == Sources(UNION {c.refs : c \in ImpactClaims(claims, goals)})
      bounded(c) == "risk" \in With(goals, c.goal).traits /\ sources # {}
  IN {IF bounded(c) THEN Restated(c, ImpactText(sources), sources) ELSE c : c \in claims}

\* A usage claim of a trace cites a search that covers its sources.
UsageBound(goal, claim, shown) ==
  LET covering == {o \in Searches(shown) : /\ Observation[o].usage /\ Observation[o].complete
                                           /\ Paths(claim.refs) \subseteq Observation[o].items}
  IN IF /\ goal.policy = "bounded_usage_cross_check" /\ "usage" \in goal.traits
        /\ Sources(claim.refs) # {} /\ covering # {}
     THEN Restated(claim, claim.text, claim.refs \union {CHOOSE o \in covering : TRUE})
     ELSE claim

\* A relevance claim that leaves out the one test a search lists with its files.
LeavesOutTest(claim, observed) ==
  LET cited == Paths(claim.refs)
      omitted == {Observation[o].items \ cited :
                    o \in {s \in Searches(observed) : /\ Observation[s].complete
                                                      /\ Observation[s].items \intersect cited # {}}}
      isTest(p) == \E o \in Sources(DOMAIN Observation) :
                     Observation[o].path = p /\ Observation[o].role = "test"
  IN /\ \E o \in Sources(claim.refs) : Observation[o].role = "implementation"
     /\ Cardinality({files \in omitted : \E p \in files : files = {p} /\ isTest(p)}) = 1
CompleteRelevance(claims, goals, observed) ==
  LET relevance == {c \in claims : "companion" \in With(goals, c.goal).traits}
  IN IF Cardinality(relevance) = 1 /\ \E c \in relevance : LeavesOutTest(c, observed)
     THEN claims \ relevance ELSE claims

\* A definition claim states the lines of the one source that shows the
\* definition: in its own words if "is defined in" leads up to the file.
Defining(claim, shown) ==
  {o \in Sources(claim.refs \intersect shown) :
     Observation[o].defines /\ Observation[o].path \in claim.text.names}
DefinitionText(refs) == WithRange(Text("definition", Paths(refs), TRUE), refs)
Located(goal, claim, shown) ==
  LET defining == Defining(claim, shown)
      text == IF claim.text.leads THEN WithRange(claim.text, defining)
              ELSE DefinitionText(defining)
  IN IF goal.policy = "symbol_definition" /\ \E o \in defining : defining = {o}
     THEN Restated(claim, text, claim.refs) ELSE claim
-----------------------------------------------------------------------------
(* Verdicts.                                                                *)
WithinClaim(claim, v) == v.refs \subseteq claim.refs

\* A final reply with evidence outside the claim counts as insufficient.
Confined(claim, v) ==
  IF WithinClaim(claim, v) THEN v ELSE Insufficient({}, "semantic_mismatch")

\* collect_evidence has one verdict: an uncovered part leaves it open.
ForWrapper(wrapper, uncovered, v) ==
  IF wrapper = "collect_evidence" /\ uncovered THEN Insufficient(v.refs, "uncovered_request")
  ELSE v

\* Complete searches that found nothing, among the evidence of a claim.
ZeroSearches(refs) == {o \in Searches(refs) : Observation[o].complete /\ Observation[o].matches = 0}

KnownTestContext(goal, claim, v, anchor, observed) ==
  /\ goal.policy = "direct_source" /\ "one_test" \in goal.traits
  /\ v.result = "insufficient" /\ v.reason = "missing_category"
  /\ claim.refs # {}
  /\ claim.refs \subseteq AnchorRefs(anchor, observed)
  /\ claim.refs \subseteq v.refs

TraceContext(goal, claim, v, wrapper) ==
  /\ wrapper = "trace_symbol" /\ goal.policy = "symbol_definition"
  /\ "definition" \in goal.traits
  /\ v.result = "insufficient" /\ v.reason \in {"overgeneralized", "semantic_mismatch"}
  /\ Cardinality({o \in Sources(claim.refs \intersect v.refs) : Observation[o].defines}) = 1

\* One search lists every file of the scope, and each of them was read.
InventoryContext(goal, claim, v, wrapper) ==
  /\ wrapper = "explore_repo" /\ goal.policy = "impact_categories"
  /\ Supports(v) /\ v.resolution = "affirmed"
  /\ WithinClaim(claim, v)
  /\ Sources(v.refs) # {} /\ Kind("git", v.refs) = {}
  /\ \A o \in Sources(v.refs) : Observation[o].role # "fixture"
  /\ \E o \in Searches(v.refs) :
       /\ Searches(v.refs) = {o}
       /\ Observation[o].complete
       /\ Observation[o].items = Paths(v.refs)

ComparisonContext(goal, claim, v) ==
  /\ goal.policy = "distinct_policy_paths" /\ Supports(v)
  /\ Cardinality(Paths(claim.refs)) >= 2

SameEvidenceReasons == {"boundary_mismatch", "missing_category", "overgeneralized",
                        "semantic_mismatch"}

\* Mutant: a claim may be restated in either pass.
CorrectionContextInAnyPhase(goal, claim, v, phase) ==
  /\ goal.policy = "distinct_policy_paths"
  /\ v.result = "insufficient" /\ v.reason \in SameEvidenceReasons
  /\ Cardinality(Paths(claim.refs)) >= 2

CorrectionContext(goal, claim, v, phase) ==
  /\ phase = "initial" /\ goal.policy = "distinct_policy_paths"
  /\ v.result = "insufficient" /\ v.reason \in SameEvidenceReasons
  /\ Cardinality(Paths(claim.refs)) >= 2

AffirmationContext(goal, claim, v) ==
  /\ "collect" \in goal.traits /\ goal.policy = "support_or_refute"
  /\ Supports(v) /\ v.resolution = "affirmed"
  /\ Direct(claim.refs \intersect v.refs) # {}
  /\ ZeroSearches(claim.refs \intersect v.refs) # {}

DirectRefutationContext(goal, claim, v) ==
  /\ "collect" \in goal.traits /\ goal.policy = "support_or_refute"
  /\ Supports(v) /\ v.resolution = "refuted"
  /\ Direct(claim.refs) # {}

AbsenceRefutationContext(goal, claim, v) ==
  /\ goal.policy = "support_or_refute"
  /\ Supports(v) /\ v.resolution = "refuted"
  /\ Direct(v.refs) = {}
  /\ ZeroSearches(claim.refs \intersect v.refs) # {}

\* Mutant: any supported second verdict will do.
DisagreesByResult(primary, focused) == ~Supports(focused)
\* A second verdict about the same claim has to reach the same resolution.
Disagrees(primary, focused) ==
  ~Supports(focused) \/ focused.resolution # primary.resolution

Dissent(focused) ==
  IF focused.result = "contradicted" THEN focused ELSE Insufficient(focused.refs, focused.reason)

\* A verdict on less of the evidence.
Citing(v, refs) ==
  [result |-> v.result, resolution |-> v.resolution, refs |-> refs, reason |-> v.reason]

Agreed(primary, focused) == primary.refs \intersect focused.refs

MergeInventory(primary, focused) ==
  IF Disagrees(primary, focused) THEN Dissent(focused)
  ELSE IF focused.refs # primary.refs
       THEN Insufficient(Agreed(primary, focused), "semantic_mismatch") ELSE primary

MergeComparison(claim, primary, focused) ==
  IF Disagrees(primary, focused) THEN Dissent(focused)
  ELSE LET agreed == Agreed(primary, focused)
       IN IF Paths(claim.refs) \subseteq Paths(agreed) THEN Citing(primary, agreed)
          ELSE Insufficient(agreed, "semantic_mismatch")

MergeSearch(primary, focused) ==
  IF Disagrees(primary, focused) THEN Dissent(focused)
  ELSE LET agreed == Agreed(primary, focused)
       IN IF ZeroSearches(agreed) # {} THEN Citing(primary, agreed)
          ELSE Insufficient(agreed, "semantic_mismatch")

MergeDirectRefutation(claim, primary, focused) ==
  IF Disagrees(primary, focused) THEN Dissent(focused)
  ELSE LET agreed == Direct(Agreed(primary, focused))
       IN IF agreed = Direct(claim.refs) THEN Citing(primary, agreed)
          ELSE Insufficient(agreed, "semantic_mismatch")
-----------------------------------------------------------------------------
(* The proof gate.                                                          *)

\* A risk boundary keeps of its support what a supported impact claim rests on.
RiskBacked(goals, claims, verdicts) ==
  LET impact == {c \in ImpactClaims(claims, goals) : Supports(verdicts[c.id])}
      backing == Sources(UNION {c.refs \intersect verdicts[c.id].refs : c \in impact})
      Backed(v) == IF v.refs \intersect backing = {} THEN Insufficient({}, "semantic_mismatch")
                   ELSE Citing(v, v.refs \intersect backing)
      isRisk(id) == "risk" \in With(goals, With(claims, id).goal).traits
  IN [id \in DOMAIN verdicts |->
        IF isRisk(id) /\ Supports(verdicts[id]) THEN Backed(verdicts[id]) ELSE verdicts[id]]

\* A complete zero-match search that says what it looked for.
ExplicitAbsence(v) == \E o \in ZeroSearches(v.refs) : Observation[o].predicate

\* The one runtime count behind a claim's measurement; lines also need their sources.
CertifiedCount(goal, claim, v) ==
  LET counts == {o \in Searches(v.refs) :
                   /\ Observation[o].complete
                   /\ Observation[o].count = claim.measure /\ claim.measure # NoCount}
  IN /\ Cardinality(counts) = 1
     /\ \A o \in counts :
          claim.measure[1] = "matching_lines" =>
            /\ "lines" \in goal.traits
            /\ claim.measure[2] > 0 =>
                 Observation[o].items # {} /\ Observation[o].items \subseteq Paths(v.refs)

\* A fixed wrapper's leaf needs one source of an allowed role.
PartIsObserved(goal, wrapper, v) ==
  /\ "part" \in goal.traits
  /\ \E o \in Sources(v.refs) :
       goal.policy = "impact_categories" \/ Observation[o].role \in {"implementation", "config"}

PolicyHolds(goal, claim, v, wrapper, corroborated) ==
  \/ goal.policy = "bounded_absence" /\ ExplicitAbsence(v)
  \/ goal.policy = "deterministic_count" /\ CertifiedCount(goal, claim, v)
  \/ /\ goal.policy = "support_or_refute" /\ v.resolution = "refuted"
     /\ Direct(v.refs) # {} \/ (ExplicitAbsence(v) /\ "absence" \in corroborated)
  \/ /\ goal.policy = "support_or_refute" /\ v.resolution = "affirmed"
     /\ Direct(v.refs) # {}
     /\ "collect" \in goal.traits => ExplicitAbsence(v) /\ "affirmation" \in corroborated
  \/ goal.policy = "symbol_definition" /\ Sources(v.refs) # {}
  \/ /\ goal.policy = "bounded_usage_cross_check"
     /\ \E o \in Searches(v.refs) : Observation[o].complete
  \/ goal.policy = "ordered_handoffs" /\ PartIsObserved(goal, wrapper, v)
  \/ /\ goal.policy = "impact_categories"
     /\ \/ PartIsObserved(goal, wrapper, v)
        \/ InventoryContext(goal, claim, v, wrapper) /\ "inventory" \in corroborated
  \/ goal.policy = "distinct_policy_paths" /\ Cardinality(Paths(v.refs)) >= 2
  \/ goal.policy = "direct_source"

\* The kinds and roles of evidence a policy admits; one stray ref fails the verdict.
RolesFit(goal, v, corroborated) ==
  LET narrow == goal.policy \in {"symbol_definition", "ordered_handoffs",
                                 "distinct_policy_paths"}
      searchable == \/ goal.policy \in {"bounded_absence", "deterministic_count",
                                        "bounded_usage_cross_check", "support_or_refute",
                                        "distinct_policy_paths"}
                    \/ goal.policy = "impact_categories" /\ "inventory" \in corroborated
  IN \A o \in v.refs :
       LET kind == Observation[o].kind
           role == Observation[o].role
       IN IF "historical" \in goal.traits THEN kind # "search"
          ELSE \/ kind = "search" /\ searchable
               \/ kind = "git" /\ goal.policy = "support_or_refute"
               \/ /\ kind = "source" /\ goal.policy # "bounded_absence"
                  /\ narrow => role \in {"implementation", "config"}
                  /\ goal.policy = "bounded_usage_cross_check" => role # "documentation"

\* An exhaustive comparison cites no search that an absence claim proved complete.
Uncertified(goal, v, certified) ==
  "exhaustive" \in goal.traits /\ v.refs \intersect certified = {}

Passes(goal, claim, v, wrapper, corroborated, certified) ==
  /\ Supports(v)
  /\ v.refs # {} /\ WithinClaim(claim, v)
  /\ PolicyHolds(goal, claim, v, wrapper, corroborated)
  /\ ~Uncertified(goal, v, certified)
  /\ "historical" \in goal.traits => Kind("git", v.refs) # {}
  /\ RolesFit(goal, v, corroborated)

Gated(goal, claim, v, wrapper, corroborated, certified) ==
  LET holds == PolicyHolds(goal, claim, v, wrapper, corroborated)
      reason == IF ~holds /\ goal.policy = "ordered_handoffs" THEN "missing_transition"
                ELSE IF \/ ~holds /\ goal.policy = "impact_categories"
                        \/ holds /\ Uncertified(goal, v, certified)
                THEN "missing_category" ELSE "boundary_mismatch"
  IN IF ~Supports(v) \/ Passes(goal, claim, v, wrapper, corroborated, certified) THEN v
     ELSE Insufficient({}, reason)

\* The searches behind absence claims that passed, which exhaustive comparisons must cite.
CertifiedSearches(goals, claims, verdicts, wrapper) ==
  LET proved(g) == {c \in claims : /\ c.goal = g.id
                                   /\ Passes(g, c, verdicts[c.id], wrapper, {}, {})}
  IN UNION {UNION {ZeroSearches(c.refs) : c \in {d \in claims : d.goal = g.id}} :
              g \in {h \in goals : h.policy = "bounded_absence" /\ proved(h) # {}}}

\* The runtime words a certified count itself.
Worded(goal, claim, v) ==
  IF goal.policy = "deterministic_count" /\ Supports(v) THEN Restated(claim, CountText, claim.refs)
  ELSE claim
=============================================================================
