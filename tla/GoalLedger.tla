----------------------------- MODULE GoalLedger -----------------------------
(***************************************************************************)
(* The required-goal ledger of one explore() call: src/explorer/runtime.mjs *)
(* drives it, src/explorer/coverage.mjs owns its transitions.              *)
(*                                                                         *)
(* A run audits a plan, explores, synthesises claims, lets an isolated     *)
(* verifier judge them, reduces the verdicts into goal states and coverage *)
(* gaps, audits the request parts the verifier found uncovered, may spend  *)
(* one evidence-repair round and judge everything once more, and hands a   *)
(* trust state to its parent.  The model keeps every transition of a goal  *)
(* and of its gap; claims, evidence and prose are abstracted to what the   *)
(* reduction tells apart (the set of verdict records of a goal's claims).  *)
(*                                                                         *)
(* The ledger variables are the run's working copy.  A run that fails      *)
(* discards it: a failed handoff carries no goal.                          *)
(***************************************************************************)
EXTENDS Naturals, FiniteSets

CONSTANTS
  PlanGoals,     \* goals a plan may contain
  LateInitial,   \* ids of late goals proposed by the first verification pass
  LatePost,      \* ids of late goals proposed by the post-repair pass
  Refutable,     \* goals whose proof policy is support_or_refute
  Rank,          \* gap priority, ties already broken by id
  RepairBatch,   \* TOOL_CONCURRENCY: how many gaps one repair round selects
  EditIntent     \* whether the request asks for an edit

Goals == PlanGoals \union LateInitial \union LatePost

ASSUME GoalsAssumption ==
  /\ PlanGoals \intersect LateInitial = {}
  /\ PlanGoals \intersect LatePost = {}
  /\ LateInitial \intersect LatePost = {}
  /\ Refutable \subseteq Goals

ASSUME RankAssumption ==
  /\ Rank \in [Goals -> Nat]
  /\ \A g, h \in Goals : Rank[g] = Rank[h] => g = h

ASSUME BatchAssumption == RepairBatch \in Nat \ {0} /\ EditIntent \in BOOLEAN

VARIABLES
  phase,      \* where explore() is
  passes,     \* verification passes reduced so far
  state,      \* RequiredSubgoal.state
  gapRef,     \* RequiredSubgoal.gapRef, or blockerRef of a blocked goal
  claimRefs,  \* goals whose claimRefs array is not empty
  gaps,       \* coverageGaps
  claims,     \* goals that have a claim in the pass under way or the last one
  verdicts,   \* verdict records of each goal's claims in the last pass
  dropped,    \* goals whose prior claims the post-repair synthesis discarded
  uncovered,  \* late proposals of the last pass, not yet audited
  limited,    \* goal ids some recorded safety limit affects
  acted,      \* some repository action was executed
  repaired,   \* the evidence-repair round has been consumed
  aborted,    \* abortSignal.aborted
  fault,      \* what made the run fail, if anything
  handoff     \* state of the parent handoff

vars == <<phase, passes, state, gapRef, claimRefs, gaps, claims, verdicts,
          dropped, uncovered, limited, acted, repaired, aborted, fault, handoff>>
ledger == <<state, gapRef, claimRefs, gaps>>
pass == <<claims, verdicts, dropped, uncovered>>

-----------------------------------------------------------------------------
States == {"absent", "exploring", "supported", "contradicted", "gap", "blocked"}

\* The prefix of a gap id; the rest of the id is the goal's id.
GapKinds == {"audit", "semantic", "uncovered", "projection"}

\* "blocker" stands for every BLOCKER_GAP_REASON and for planning_incomplete.
GapReasons == {"blocker", "missing_evidence", "semantic_mismatch",
               "uncovered_request", "contradicted", "safety_limit_reached"}

NonRepairableReasons == {"blocker", "safety_limit_reached"}

Gap == [goal : Goals, kind : GapKinds, reason : GapReasons,
        repairable : BOOLEAN, attempted : BOOLEAN]

CoverageGap(g, kind, reason, repairable) ==
  [goal |-> g, kind |-> kind, reason |-> reason,
   repairable |-> repairable /\ reason \notin NonRepairableReasons,
   attempted |-> FALSE]

BlockedGap(g) == CoverageGap(g, "audit", "blocker", FALSE)

\* fresh: the verdict cites evidence the repair round added.
Verdict == [result : {"supported", "insufficient", "contradicted"},
            resolution : {"affirmed", "refuted", "none"},
            uncovered : BOOLEAN, fresh : BOOLEAN]

Supports(resolution, fresh) ==
  [result |-> "supported", resolution |-> resolution, uncovered |-> FALSE, fresh |-> fresh]
Rejects(result, isUncovered) ==
  [result |-> result, resolution |-> "none", uncovered |-> isUncovered, fresh |-> FALSE]

\* What normalizeSemanticVerdict accepts: only supported verdicts resolve.
VerdictKinds(freshAllowed) ==
  {Supports(r, f) : r \in {"affirmed", "refuted"}, f \in {FALSE} \union {freshAllowed}}
    \union {Rejects("contradicted", FALSE), Rejects("insufficient", FALSE),
            Rejects("insufficient", TRUE)}

Registered == {g \in Goals : state[g] # "absent"}
Open == {g \in Registered : state[g] # "blocked"}
GapsOf(g) == {x \in gaps : x.goal = g}

Init ==
  /\ phase = "plan"
  /\ passes = 0
  /\ state = [g \in Goals |-> "absent"]
  /\ gapRef = [g \in Goals |-> "none"]
  /\ claimRefs = {}
  /\ gaps = {}
  /\ claims = {}
  /\ verdicts = [g \in Goals |-> {}]
  /\ dropped = {}
  /\ uncovered = {}
  /\ limited = {}
  /\ acted = FALSE
  /\ repaired = FALSE
  /\ aborted = FALSE
  /\ fault = "none"
  /\ handoff = "none"

-----------------------------------------------------------------------------
\* Mutant: the catch keeps the first error of a cancelled run.
FaultAsThrown(f) == f

(***************************************************************************)
(* Every thrown error reaches explore()'s catch and, with no await left,   *)
(* its commit point, where a cancelled run is always reported as aborted.  *)
(***************************************************************************)
FaultAtCommit(f) == IF aborted THEN "aborted" ELSE f

Fail(f) ==
  /\ fault' = FaultAtCommit(f)
  /\ handoff' = "failed"
  /\ phase' = "done"

\* The caller's cancellation.  After the commit point nobody reads the signal.
Abort ==
  /\ phase # "done"
  /\ ~aborted
  /\ aborted' = TRUE
  /\ UNCHANGED <<phase, passes, ledger, pass, limited, acted, repaired, fault, handoff>>

\* An awaited provider call or tool fails, invalid control output survives its
\* one correction, or the step notices the abort.
ServicePhases == {"plan", "explore", "synthesis", "reduce", "late", "repair", "project"}
ServiceFails ==
  /\ phase \in ServicePhases
  /\ \/ aborted /\ Fail("aborted")
     \/ phase # "project" /\ \E f \in {"provider_error", "invalid_control"} : Fail(f)
  /\ UNCHANGED <<passes, ledger, pass, limited, acted, repaired, aborted>>

-----------------------------------------------------------------------------
\* createRequiredSubgoal / materializeBlockedGoal, then audited -> exploring
\* unless every goal is blocked, in which case exploration never starts.
AuditPlan ==
  /\ phase = "plan"
  /\ \E planned \in (SUBSET PlanGoals) \ {{}} : \E blocked \in SUBSET planned :
       /\ state' = [g \in Goals |-> IF g \in blocked THEN "blocked"
                                    ELSE IF g \in planned THEN "exploring" ELSE "absent"]
       /\ gapRef' = [g \in Goals |-> IF g \in blocked THEN "audit" ELSE "none"]
       /\ gaps' = {BlockedGap(g) : g \in blocked}
       /\ phase' = IF blocked = planned THEN "project" ELSE "explore"
  /\ UNCHANGED <<passes, claimRefs, pass, limited, acted, repaired, aborted, fault, handoff>>

\* The turn loop ends with a final object (its own module's business) or gives
\* up after repeated all-error turns; its limits name no goal.
Explore ==
  /\ phase = "explore"
  /\ \/ \E tools \in BOOLEAN :
          acted' = tools /\ phase' = "synthesis" /\ UNCHANGED <<fault, handoff>>
     \/ acted' = TRUE /\ Fail("tool_errors")
  /\ UNCHANGED <<passes, ledger, pass, limited, repaired, aborted>>

\* A completion cut at its output limit marks every goal it may have served.
LengthLimit(affected) == \E cut \in BOOLEAN : limited' = limited \union (IF cut THEN affected ELSE {})

\* activeSubgoals of a pass.
Active == {g \in Open : passes = 0 \/ state[g] \in {"supported", "exploring"} \/ g \in claims}

(***************************************************************************)
(* Claim synthesis.  Without an observation no claim is possible.  In the  *)
(* post-repair pass every prior claim is preserved, except those of a goal *)
(* the second validation quarantines, or of an incomplete locate answer:   *)
(* these lose all their claims.                                            *)
(***************************************************************************)
Synthesize ==
  /\ phase = "synthesis"
  /\ \E gained \in SUBSET IF acted THEN Active ELSE {},
        lost \in SUBSET IF passes = 0 THEN {} ELSE claims :
       /\ gained \intersect (claims \union lost) = {}
       /\ claims' = (claims \ lost) \union gained
       /\ dropped' = lost
  /\ phase' = "reduce"
  /\ LengthLimit(Open)
  /\ UNCHANGED <<passes, ledger, verdicts, uncovered, acted, repaired, aborted, fault, handoff>>

-----------------------------------------------------------------------------
(* reduceSemanticClaims *)

Resolutions(v) == {x.resolution : x \in {y \in v : y.result = "supported"}}
AllSupported(v) == v # {} /\ \A x \in v : x.result = "supported"
Resolves(g, v) ==
  /\ \E r \in {"affirmed", "refuted"} : Resolutions(v) = {r}
  /\ \/ AllSupported(v)
     \/ g \in Refutable /\ \A x \in v : x.result # "insufficient"
Contradicts(v) == Resolutions(v) = {"affirmed", "refuted"} \/ \E x \in v : x.result = "contradicted"
FreshlySupported(v) == \E x \in v : x.result = "supported" /\ x.fresh

\* Mutant: any support closes a gap.
NoFreshSupportRequired(g, v) == TRUE

\* A goal that entered the pass with a gap is closed by new evidence only.
HasRequiredFreshSupport(g, v) == passes = 0 \/ GapsOf(g) = {} \/ FreshlySupported(v)

SupportedBy(g, v) == Resolves(g, v) /\ HasRequiredFreshSupport(g, v)

GapReason(v) ==
  IF Contradicts(v) THEN "contradicted"
  ELSE IF \E x \in v : x.uncovered THEN "uncovered_request" ELSE "semantic_mismatch"

\* Mutant: a second pass leaves goals supported by the first alone.
CandidatesStillOpen(cs) == {g \in cs : state[g] \in {"exploring", "contradicted"}}

\* prepareCandidateSubgoals: what a claim turns into a candidate.  A goal held
\* in an unrepairable gap keeps it, whatever its claims say.
Candidates(cs) == {g \in cs : state[g] \in {"exploring", "supported", "contradicted"}}

\* Mutant: the second pass forgets the reopened goals nobody made a claim for.
UnclaimedInFirstPass(cs) == {g \in Goals \ cs : passes = 0 /\ state[g] = "exploring"}

Unclaimed(cs) == {g \in Goals \ cs : state[g] = "exploring"}

\* The checks that make reduceSemanticClaims throw a TypeError.
ReductionContract(cs) ==
  /\ claimRefs \subseteq cs
  /\ \A x, y \in gaps : x.goal = y.goal => x = y

\* Mutant: a rebuilt gap forgets its attempts.
SemanticGapAnew(g, reason, repairable) ==
  CoverageGap(g, "semantic", reason, repairable /\ passes = 0)

\* buildSemanticGap: a rebuilt gap remembers the actions already attempted.
SemanticGap(g, reason, repairable) ==
  [CoverageGap(g, "semantic", reason, repairable /\ passes = 0)
     EXCEPT !.attempted = \E x \in GapsOf(g) : x.attempted]

ReducedState(cs, v, g) ==
  IF g \in Unclaimed(cs) THEN "gap"
  ELSE IF g \notin Candidates(cs) THEN state[g]
  ELSE IF SupportedBy(g, v[g]) THEN "supported"
  ELSE IF Contradicts(v[g]) THEN "contradicted" ELSE "gap"

UnclaimedGap(g) == SemanticGap(g, "missing_evidence", TRUE)

\* shapeless: goals whose claim has a proof shape no further reading repairs.
JudgedGap(g, v, shapeless) == SemanticGap(g, GapReason(v), ~Contradicts(v) /\ g \notin shapeless)

\* Mutant: the old gap of a goal judged again stays on the list.
ReducedGapsAdded(cs, v, shapeless) ==
  {UnclaimedGap(g) : g \in Unclaimed(cs)}
  \union {JudgedGap(g, v[g], shapeless) : g \in {h \in Candidates(cs) : ~SupportedBy(h, v[h])}}
  \union gaps

ReducedGaps(cs, v, shapeless) ==
  {UnclaimedGap(g) : g \in Unclaimed(cs)}
  \union {JudgedGap(g, v[g], shapeless) : g \in {h \in Candidates(cs) : ~SupportedBy(h, v[h])}}
  \union {x \in gaps : x.goal \in Registered \ (Candidates(cs) \union Unclaimed(cs))}

ReducedGapRef(cs, v, g) ==
  IF g \in Unclaimed(cs) THEN "semantic"
  ELSE IF g \notin Candidates(cs) THEN gapRef[g]
  ELSE IF SupportedBy(g, v[g]) THEN "none" ELSE "semantic"

\* The verdicts on the claims of the goals cs.  A goal has at most one aggregate
\* claim unless it is support_or_refute (bound: two claims of such a goal).
Verifications(cs) ==
  LET kinds == VerdictKinds(passes = 1)
  IN  {[g \in Goals |-> IF g \notin cs THEN {}
                        ELSE {one[g]} \union IF g \in Refutable THEN {two[g]} ELSE {}] :
         one \in [cs -> kinds], two \in [cs \intersect Refutable -> kinds]}

LateGoals == IF passes = 0 THEN LateInitial ELSE LatePost

Reduce ==
  /\ phase = "reduce"
  /\ LengthLimit(Open)
  /\ IF ReductionContract(claims)
     THEN \E v \in Verifications(claims),
             shapeless \in SUBSET IF passes = 0 THEN claims ELSE {},
             parts \in SUBSET IF claims = {} THEN {} ELSE LateGoals :
            /\ state' = [g \in Goals |-> ReducedState(claims, v, g)]
            /\ gapRef' = [g \in Goals |-> ReducedGapRef(claims, v, g)]
            /\ gaps' = ReducedGaps(claims, v, shapeless)
            /\ claimRefs' = claimRefs \union claims
            /\ verdicts' = v
            /\ uncovered' = parts
            /\ passes' = passes + 1
            /\ phase' = "late"
            /\ UNCHANGED <<fault, handoff>>
     ELSE Fail("reduction_contract") /\ UNCHANGED <<passes, ledger, verdicts, uncovered>>
  /\ UNCHANGED <<claims, dropped, acted, repaired, aborted>>

-----------------------------------------------------------------------------
(***************************************************************************)
(* auditLateGoalProposals + integrateAuditedLateGoals.  A proposal becomes *)
(* a ready goal held in a gap, a blocked goal, or nothing (rejected by the *)
(* audit, or the same required part as a goal already there).  A cut audit *)
(* completion names every proposal, registered later or not.               *)
(***************************************************************************)
LateGap(g) == CoverageGap(g, "uncovered", "uncovered_request", passes = 1)

AuditLateGoals ==
  /\ phase = "late"
  /\ \E ready \in SUBSET uncovered : \E blocked \in SUBSET (uncovered \ ready) :
       /\ state' = [g \in Goals |-> IF g \in ready THEN "gap"
                                    ELSE IF g \in blocked THEN "blocked" ELSE state[g]]
       /\ gapRef' = [g \in Goals |-> IF g \in ready THEN "uncovered"
                                     ELSE IF g \in blocked THEN "audit" ELSE gapRef[g]]
       /\ gaps' = gaps
            \union {LateGap(g) : g \in ready}
            \union {BlockedGap(g) : g \in blocked}
  /\ LengthLimit(uncovered)
  /\ uncovered' = {}
  /\ phase' = "limits"
  /\ UNCHANGED <<passes, claimRefs, claims, verdicts, dropped, acted, repaired, aborted, fault, handoff>>

AttributableReasons == {"missing_evidence", "semantic_mismatch"}

\* Goals with an insufficient claim and a gap a cut observation can explain.
Attributable ==
  {g \in Goals : /\ \E x \in verdicts[g] : x.result = "insufficient"
                 /\ \E x \in GapsOf(g) : x.reason \in AttributableReasons}

\* applyObservationSafetyLimits
Limited(x) == [x EXCEPT !.reason = "safety_limit_reached", !.repairable = FALSE]

ApplyLimits ==
  /\ phase = "limits"
  /\ \E cut \in SUBSET Attributable :
       /\ gaps' = {IF x.goal \in cut THEN Limited(x) ELSE x : x \in gaps}
       /\ limited' = limited \union cut
  /\ phase' = IF passes = 1 THEN "repair" ELSE "project"
  /\ UNCHANGED <<passes, state, gapRef, claimRefs, pass, acted, repaired, aborted, fault, handoff>>

-----------------------------------------------------------------------------
(* One evidence-repair round *)

\* selectEvidenceRepairGaps: by priority, at most one batch.
RepairCandidates == {g \in Goals : state[g] = "gap" /\ \E x \in GapsOf(g) : x.repairable}
RepairGoals ==
  {g \in RepairCandidates :
     Cardinality({h \in RepairCandidates : Rank[h] < Rank[g]}) < RepairBatch}

Reopenable == {g \in Goals : \E x \in GapsOf(g) : x.repairable}

\* The checks that make applyEvidenceRepairRound throw a TypeError.
RepairContract ==
  /\ \A x, y \in gaps : x.goal = y.goal => x = y
  /\ \A x \in gaps : x.repairable => state[x.goal] = "gap" /\ gapRef[x.goal] = x.kind

Spent(x, tried) ==
  [x EXCEPT !.repairable = FALSE, !.attempted = x.attempted \/ x.goal \in tried]

\* Mutant: a round without new evidence is repeated, limits and all.
RepairUntilFresh ==
  /\ phase = "repair"
  /\ RepairGoals # {}
  /\ LengthLimit(RepairGoals)
  /\ \E fresh \in BOOLEAN :
       /\ state' = [g \in Goals |-> IF fresh /\ g \in Reopenable THEN "exploring" ELSE state[g]]
       /\ gapRef' = [g \in Goals |-> IF fresh /\ g \in Reopenable THEN "none" ELSE gapRef[g]]
       /\ gaps' = IF fresh THEN {Spent(x, RepairGoals) : x \in gaps} ELSE gaps
       /\ phase' = IF fresh THEN "synthesis" ELSE "limits"
  /\ acted' = TRUE
  /\ repaired' = TRUE
  /\ UNCHANGED <<passes, claimRefs, pass, aborted, fault, handoff>>

\* applyEvidenceRepairRound: only the selected gaps are marked as attempted,
\* every gap stops being repairable, and new evidence reopens every goal whose
\* gap was.  The old gap of a reopened goal stays on the list.
RepairRound ==
  /\ phase = "repair"
  /\ RepairGoals # {}
  /\ LengthLimit(RepairGoals)
  /\ IF RepairContract
     THEN \E fresh \in BOOLEAN, act \in BOOLEAN :
            /\ fresh => act
            /\ gaps' = {Spent(x, IF acted \/ act THEN RepairGoals ELSE {}) : x \in gaps}
            /\ state' = [g \in Goals |->
                           IF fresh /\ g \in Reopenable /\ state[g] = "gap"
                           THEN "exploring" ELSE state[g]]
            /\ gapRef' = [g \in Goals |->
                           IF fresh /\ g \in Reopenable /\ state[g] = "gap"
                           THEN "none" ELSE gapRef[g]]
            /\ acted' = (acted \/ act)
            /\ phase' = IF fresh THEN "synthesis" ELSE "project"
            /\ UNCHANGED <<fault, handoff>>
     ELSE Fail("repair_contract") /\ UNCHANGED <<state, gapRef, gaps, acted>>
  /\ repaired' = TRUE
  /\ UNCHANGED <<passes, claimRefs, pass, aborted>>

SkipRepair ==
  /\ phase = "repair"
  /\ RepairGoals = {}
  /\ phase' = "project"
  /\ UNCHANGED <<passes, ledger, pass, limited, acted, repaired, aborted, fault, handoff>>

-----------------------------------------------------------------------------
(* The parent handoff *)

\* reduceTrustState, then what buildParentHandoffProjection overrides.
TrustState(targets) ==
  IF \E g \in Registered : state[g] # "supported" \/ g \in limited THEN "incomplete"
  ELSE IF EditIntent /\ targets THEN "verify_targets" ELSE "complete"

\* Mutant: only planned goals count.
HandoffOfPlan(unprojected, targets) ==
  IF (\E g \in PlanGoals : state[g] \notin {"absent", "supported"}) \/ passes = 0
  THEN "incomplete" ELSE "complete"

HandoffState(unprojected, targets) ==
  IF \/ \E g \in Registered : state[g] # "supported"
     \/ unprojected # {}
     \/ limited # {}
     \/ passes = 0
     \/ EditIntent /\ ~targets
  THEN "incomplete" ELSE TrustState(targets)

\* appendParentProjectionCoverageGaps
ProjectionGap(g) == CoverageGap(g, "projection", "missing_evidence", FALSE)

\* Claims of a limited goal are never projected; those of another goal may be
\* dropped with ungrounded evidence.
Commit ==
  /\ phase = "project"
  /\ ~aborted
  /\ LET supported == {g \in Registered : state[g] = "supported"}
     IN \E lost \in SUBSET supported, targets \in BOOLEAN :
          LET unprojected == lost \union (supported \intersect limited) IN
          /\ handoff' = HandoffState(unprojected, targets)
          /\ gaps' = gaps \union {ProjectionGap(g) : g \in {h \in unprojected : GapsOf(h) = {}}}
  /\ phase' = "done"
  /\ UNCHANGED <<passes, state, gapRef, claimRefs, pass, limited, acted, repaired, aborted, fault>>

\* buildParentHandoffProjection or validateParentHandoffV3 throws: the committed
\* outcome becomes a failure.  A cancelled run has a failed outcome by then, whose
\* handoff is assembled without the ledger.
AssemblyFails ==
  /\ phase = "project"
  /\ ~aborted
  /\ Fail("assembly")
  /\ UNCHANGED <<passes, ledger, pass, limited, acted, repaired, aborted>>

-----------------------------------------------------------------------------
Step == \/ AuditPlan \/ Explore \/ Synthesize \/ Reduce \/ AuditLateGoals
        \/ ApplyLimits \/ RepairRound \/ SkipRepair \/ Commit
        \/ ServiceFails \/ AssemblyFails

Next == Step \/ Abort

\* Every stage of explore() either returns or throws: provider calls have
\* timeouts and the tool loop is bounded.  Nothing obliges a caller to abort.
Spec == Init /\ [][Next]_vars /\ WF_vars(Step)

-----------------------------------------------------------------------------
(* Properties *)

Phases == {"plan", "explore", "synthesis", "reduce", "late", "limits",
           "repair", "project", "done"}
Faults == {"none", "aborted", "provider_error", "invalid_control", "tool_errors",
           "reduction_contract", "repair_contract", "assembly"}
Normal == {"complete", "verify_targets", "incomplete"}

\* Type invariant.
TypeOK ==
  /\ phase \in Phases
  /\ passes \in 0..2
  /\ state \in [Goals -> States]
  /\ gapRef \in [Goals -> GapKinds \union {"none"}]
  /\ claimRefs \subseteq Goals
  /\ gaps \subseteq Gap
  /\ claims \subseteq Goals
  /\ verdicts \in [Goals -> SUBSET Verdict]
  /\ dropped \subseteq Goals
  /\ uncovered \subseteq Goals
  /\ limited \subseteq Goals
  /\ acted \in BOOLEAN
  /\ repaired \in BOOLEAN
  /\ aborted \in BOOLEAN
  /\ fault \in Faults
  /\ handoff \in Normal \union {"none", "failed"}

\* The goal ledger and the gap list, updated by five different handlers, agree:
\* a gap belongs to a registered goal and is its only gap, every goal that is
\* held open names its gap, and a supported goal has none until the parent
\* projection adds one.
LedgerLinked ==
  /\ \A x \in gaps : x.goal \in Registered
  /\ \A x, y \in gaps : x.goal = y.goal => x = y
  /\ \A g \in Goals : state[g] \in {"gap", "contradicted", "blocked"} =>
       \E x \in GapsOf(g) : x.kind = gapRef[g]
  /\ \A g \in Goals : state[g] = "supported" /\ phase # "done" => GapsOf(g) = {}

\* What applyEvidenceRepairRound checks never fails: a gap still marked
\* repairable belongs to a ready goal that is waiting in exactly that gap.
RepairableGapsAreLinked ==
  /\ \A x \in gaps : x.repairable => state[x.goal] = "gap" /\ gapRef[x.goal] = x.kind
  /\ fault # "repair_contract"

\* DESIGN 5.6: one repair round.  Once it is spent nothing is repairable again,
\* not even a gap the second pass or the second late audit creates, and there
\* is never a third pass.
OneRepairRound ==
  /\ repaired => \A x \in gaps : ~x.repairable
  /\ passes = 2 => repaired

\* Every supported goal is backed by the verdicts of the last pass: a goal the
\* first pass supported does not stay supported on stale verdicts once the
\* post-repair pass has judged it again.
SupportIsBacked ==
  \A g \in Goals : state[g] = "supported" => Resolves(g, verdicts[g])

\* A positive handoff is earned: every registered goal, late ones included, is
\* supported, has no open gap and was not touched by a limit, and the run did
\* not fail.
PositiveIsEarned ==
  handoff \in {"complete", "verify_targets"} =>
    /\ passes > 0
    /\ \A g \in Registered : state[g] = "supported" /\ GapsOf(g) = {} /\ g \notin limited
    /\ fault = "none"

\* The two passes, the repair round between them and the late audits come in
\* one order only.
PassOrder ==
  /\ phase \in {"plan", "explore"} => passes = 0 /\ ~repaired
  /\ phase \in {"synthesis", "reduce"} =>
       (passes = 0 /\ ~repaired) \/ (passes = 1 /\ repaired)
  /\ phase \in {"late", "limits"} =>
       (passes = 1 /\ ~repaired) \/ (passes = 2 /\ repaired)
  /\ phase = "repair" => passes = 1 /\ ~repaired

\* A late proposal gets an id no registered goal has.
LateIdsAreFresh ==
  /\ phase \in {"plan", "explore"} \/ (phase \in {"synthesis", "reduce"} /\ passes = 0) =>
       \A g \in LateInitial : state[g] = "absent"
  /\ passes < 2 => \A g \in LatePost : state[g] = "absent"
  /\ phase = "late" =>
       /\ uncovered \subseteq IF passes = 1 THEN LateInitial ELSE LatePost
       /\ \A g \in uncovered : state[g] = "absent"

\* The inductive invariant behind the safety theorems of GoalLedgerProofs.
IInv ==
  /\ TypeOK
  /\ PassOrder
  /\ LateIdsAreFresh
  /\ LedgerLinked
  /\ RepairableGapsAreLinked
  /\ OneRepairRound
  /\ PositiveIsEarned
  /\ phase # "done" => fault = "none" /\ handoff = "none"

\* What SupportIsBacked and GapsCloseOnFreshEvidence rest on: a supported goal's
\* claims are under judgement again in a second pass, and before the first
\* pass only blocked goals have gaps.
BackedInv ==
  /\ SupportIsBacked
  /\ \A g \in Goals : state[g] = "supported" => g \in claimRefs
  /\ passes = 0 /\ phase # "done" => \A x \in gaps : state[x.goal] = "blocked"
  /\ phase = "plan" => Registered = {}
  /\ phase \notin {"plan", "done"} => Registered # {}

\* No normal handoff leaves a goal half-way: a goal the repair round reopened is
\* judged before the run answers.
NoGoalLeftExploring ==
  handoff \in Normal => \A g \in Registered : state[g] # "exploring"

\* A goal that was waiting in a gap becomes supported only on evidence the
\* repair round added, never on the verifier changing its mind.
GapsCloseOnFreshEvidence ==
  [][\A g \in Goals : GapsOf(g) # {} /\ state[g] # "supported" /\ state'[g] = "supported" =>
       FreshlySupported(verdicts'[g])]_vars

\* While a goal keeps a gap, the gap keeps its record of attempted actions,
\* even when the reduction rebuilds it under another id.
AttemptsAreRemembered ==
  [][\A x \in gaps : x.attempted =>
       \A y \in gaps' : y.goal = x.goal => y.attempted]_vars

\* A run cancelled before its commit point is reported as aborted, whatever
\* else went wrong or right meanwhile.
AbortWins ==
  [][aborted /\ handoff = "none" /\ handoff' # "none" =>
       handoff' = "failed" /\ fault' = "aborted"]_vars

\* Every call returns.
Termination == <>(phase = "done")

\* The run implements the contract its caller sees.
Contract == INSTANCE ExploreContract WITH
  required <- Registered,
  proved <- {g \in Goals : state[g] = "supported"},
  judged <- passes,
  outcome <- IF handoff = "none" THEN "running" ELSE handoff

ImplementsContract == Contract!Spec

\* "leave the sub-goal without a claim on the bounded retry so it becomes an
\* explicit gap" (runtime.mjs:3124): discarding the claims of a goal must not
\* make the whole run fail.
QuarantineLeavesAGap == fault # "reduction_contract"
=============================================================================
