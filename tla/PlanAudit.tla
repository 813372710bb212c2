------------------------------ MODULE PlanAudit ------------------------------
(* How a request becomes the required goals of a run                        *)
(* (_createAuditedTaskPlan, runtime.mjs): a planner proposes goals, an      *)
(* auditor judges them in batches, one corrected plan replaces what was too *)
(* broad, ambiguous or missing, and its audit and a reconciliation decide   *)
(* which of these obligations it covers.  The rest stays required as        *)
(* planning_incomplete.  Goals a verifier proposes later are audited the    *)
(* same way against the finished plan.                                      *)
(*                                                                          *)
(* Every model request may return anything the schemas allow, is asked      *)
(* again once when the runtime refuses the reply, and may fail or be        *)
(* aborted.  Of the policies of single wrappers the module has the seeds    *)
(* and the leaves of a classification; generated paths, collect_evidence,   *)
(* recoveries that only put a plan the planner might have proposed itself,  *)
(* and the messages are left out.                                           *)
EXTENDS GoalAudit

CONSTANTS
  InitialPlans,  \* the goal sequences a planner may propose
  RevisedGoals,  \* the goal sequences it may add to the preserved goals
  LatePlans,     \* the goal sequences a verifier may propose later
  BatchSize,     \* goals audited by one request
  MaxUncovered   \* bound of the instance: uncovered parts of one reply

Proposals == InitialPlans \union RevisedGoals \union LatePlans
Names == UNION {Ids(ToSet(goals)) : goals \in Proposals}

\* A request has finitely many parts.  The ids the runtime makes up (content
\* hashes, "planning-carry:", "revision-corrected:") are its own: no model
\* proposes a goal under one of them.
ASSUME PlanAssumption ==
  /\ BatchSize \in Nat \ {0} /\ MaxUncovered \in Nat
  /\ IsFiniteSet(Contents)
  /\ Proposals \subseteq Seq([id : Names, core : Cores, origins : (SUBSET Origins) \ {{}}])
  /\ \A kind \in {"part", "carry"}, c \in Cores, o \in SUBSET Origins : <<kind, c, o>> \notin Names

VARIABLES
  stage,        \* the request in flight, or the step the runtime is at
  attempt,      \* replies refused so far by this request
  revision,     \* 0, or 1 once the corrected plan was requested
  late,         \* late goals are under audit
  wrapper,      \* the wrapper of the request
  plan,         \* the candidates under audit, in order
  distinct,     \* ids of candidates that are leaves of the request
  records,      \* the records of the batches audited so far
  uncovered,    \* the parts reported by them that are still uncovered
  preserved,    \* the required goals an audit has to respect
  obligations,  \* what the corrected plan has to cover
  rejected,     \* the goals the audits rejected
  corrected,    \* ids of corrections under a new id
  ledger,       \* the required goals of the task contract
  wanted,       \* history: ids of what the initial audit did not reject
  covered       \* history: <<obligation or part, ids that cover it>>

vars == <<stage, attempt, revision, late, wrapper, plan, distinct, records, uncovered, preserved,
          obligations, rejected, corrected, ledger, wanted, covered>>

Requests == {"planner", "goal_audit", "coverage", "plan_revision", "revision_coverage"}

NoRecords == [id \in {} |-> {}]

Init ==
  /\ stage = "planner" /\ attempt = 0 /\ revision = 0 /\ late = FALSE
  /\ wrapper \in Wrappers
  /\ plan = << >> /\ distinct = {} /\ records = NoRecords /\ uncovered = {}
  /\ preserved = {} /\ obligations = {} /\ rejected = {} /\ corrected = {}
  /\ ledger = {} /\ wanted = {} /\ covered = {}

\* Mutant: two corrections instead of one.
RefuseTwice ==
  /\ IF attempt < 2 THEN attempt' = attempt + 1 /\ stage' = stage
     ELSE attempt' = 0 /\ stage' = "failed"
  /\ UNCHANGED <<revision, late, wrapper, plan, distinct, records, uncovered, preserved,
                 obligations, rejected, corrected, ledger, wanted, covered>>

\* A refused reply is answered by one correction request.
Refuse ==
  /\ IF attempt = 0 THEN attempt' = 1 /\ stage' = stage ELSE attempt' = 0 /\ stage' = "failed"
  /\ UNCHANGED <<revision, late, wrapper, plan, distinct, records, uncovered, preserved,
                 obligations, rejected, corrected, ledger, wanted, covered>>

\* A reply that is no control object, a provider error, a cancellation.
Malformed == stage \in Requests /\ Refuse

RequestFails ==
  /\ stage \in Requests
  /\ stage' = "failed" /\ attempt' = 0
  /\ UNCHANGED <<revision, late, wrapper, plan, distinct, records, uncovered, preserved,
                 obligations, rejected, corrected, ledger, wanted, covered>>
-----------------------------------------------------------------------------
\* The candidates go to the auditor.
SendToAudit(candidates, leaves) ==
  /\ stage' = IF candidates = << >> THEN "reduce" ELSE "goal_audit"
  /\ attempt' = 0
  /\ plan' = candidates /\ distinct' = leaves
  /\ records' = NoRecords /\ uncovered' = {}

ValidPlan(goals) ==
  /\ goals # << >>
  /\ IdsAreUnique(goals)
  /\ OriginsAreKnown(ToSet(goals), wrapper)
  /\ SeedsAreIndependent(ToSet(goals), wrapper)
  /\ LeavesAreExact(ToSet(goals), wrapper)
  /\ SeedsAreComplete(ToSet(goals), {}, wrapper)

PlannerReply ==
  /\ stage = "planner"
  /\ \E goals \in InitialPlans :
       IF ValidPlan(goals)
       THEN /\ SendToAudit(Candidates(goals), LeafIds(goals, wrapper))
            /\ UNCHANGED <<revision, late, wrapper, preserved, obligations, rejected, corrected,
                           ledger, wanted, covered>>
       ELSE Refuse
-----------------------------------------------------------------------------
(* The audit of one batch.  The revision and the late audit know a ledger:  *)
(* the goals of the first audit, those of the plan.                         *)
Existing == preserved
Batched == Len(plan) > BatchSize
Audited == Cardinality(DOMAIN records)
Batch == ToSet(SubSeq(plan, Audited + 1, Min({Audited + BatchSize, Len(plan)})))

ValidAudit(goals, reply, parts) ==
  LET inner == Internal(reply, Existing)
      left == {g \in goals : g.id \in DOMAIN inner}
      reduction == Reduce(left, inner, Existing, distinct \cap Ids(goals))
  IN /\ OriginsAreKnown(parts, wrapper)
     /\ Consistent(goals, reply, parts)
     /\ LeavesStand(reply, distinct)
     /\ late \/ KeepsSeeds(goals, reply, parts)
     /\ ExternalMergesAreSound(goals, reply, parts, Existing)
     /\ GroupsAreSound(left, inner)
     /\ \/ Batched \/ revision = 1
        \/ Accepted(reduction) # {} \/ NeedsRevision(reduction, parts)

Record(reply, parts) ==
  /\ records' = [id \in DOMAIN records \union DOMAIN reply |->
                   IF id \in DOMAIN reply THEN reply[id] ELSE records[id]]
  /\ uncovered' = uncovered \union parts
  /\ stage' = IF Cardinality(DOMAIN records') < Len(plan) THEN "goal_audit"
              ELSE IF Batched THEN "join" ELSE "reduce"
  /\ attempt' = 0
  /\ UNCHANGED <<revision, late, wrapper, plan, distinct, preserved, obligations, rejected,
                 corrected, ledger, wanted, covered>>

AuditReply ==
  /\ stage = "goal_audit"
  /\ \E reply \in RecordChoices(Batch, Ids(Batch) \union Ids(Existing)),
        parts \in {s \in SUBSET Contents : Cardinality(s) <= MaxUncovered} :
       LET quarantined == Quarantined(Batch, reply, Existing) IN
       IF ValidAudit(Batch, reply, parts) THEN Record(reply, parts)
       ELSE IF attempt = 1 /\ quarantined # reply /\ ValidAudit(Batch, quarantined, parts)
       THEN Record(quarantined, parts)
       ELSE Refuse

\* What the audit judged: goals merged into the ledger have left the plan.
Judged == Internal(records, Existing)
JudgedGoals == {g \in ToSet(plan) : g.id \in DOMAIN Judged}

\* confirmed keeps the origins the audit confirmed for the whole group
\* (history: the code's obligation has the goal only).
Obligation(kind, source, g, confirmed) ==
  [kind |-> kind, source |-> source, core |-> g.core, origins |-> g.origins,
   confirmed |-> confirmed]
PartObligations(parts) ==
  {Obligation("uncovered", PartGoal(u).id, u, u.origins) : u \in parts}
BatchObligation(u) == Obligation("uncovered", <<"batch", u.core, u.origins>>, u, u.origins)
BatchObligations(parts) == {BatchObligation(u) : u \in parts}

\* After the last batch: the whole audit must be consistent, and the goals of
\* other batches may cover what one batch found missing.
JoinBatches ==
  /\ stage = "join"
  /\ LET open == BatchObligations(uncovered)
         ask == \E o \in open : Coverers(o, JudgedGoals, Judged, open) # {}
     IN stage' = IF ~Consistent(JudgedGoals, Judged, uncovered) THEN "failed"
                 ELSE IF ask THEN "coverage" ELSE "reduce"
  /\ UNCHANGED <<attempt, revision, late, wrapper, plan, distinct, records, uncovered, preserved,
                 obligations, rejected, corrected, ledger, wanted, covered>>

CoverChoices(asked, ids) == [asked -> SUBSET ids]

CoverageReply ==
  /\ stage = "coverage"
  /\ LET open == BatchObligations(uncovered)
         ids == {g.id : g \in UNION {Coverers(o, JudgedGoals, Judged, open) : o \in open}}
     IN \E cover \in CoverChoices(open, ids) :
          IF ValidCoverage(cover, JudgedGoals, Judged, open)
          THEN /\ uncovered' = {u \in uncovered : cover[BatchObligation(u)] = {}}
               /\ covered' = covered \union {<<o, cover[o]>> : o \in {p \in open : cover[p] # {}}}
               /\ stage' = "reduce" /\ attempt' = 0
               /\ UNCHANGED <<revision, late, wrapper, plan, distinct, records, preserved,
                              obligations, rejected, corrected, ledger, wanted>>
          ELSE Refuse
-----------------------------------------------------------------------------
(* The initial audit either is the plan or asks for one corrected plan.     *)
InitialGoal(id) == CHOOSE g \in ToSet(plan) : g.id = id

\* Mutant: goals to refine were audited once and are no obligation.
ObligationsOfDefects(reduction) ==
  {Obligation("decompose", g.id, InitialGoal(g.id), g.origins) : g \in reduction.decompose}
  \union PartObligations(uncovered)

\* The obligation of a goal to decompose is the goal as proposed; that of a
\* goal to refine is the goal as confirmed.
RevisionObligations(reduction) ==
  {Obligation("decompose", g.id, InitialGoal(g.id), g.origins) : g \in reduction.decompose}
  \union {Obligation("refine", g.id, g, g.origins) : g \in reduction.refine}
  \union PartObligations(uncovered)

ReduceInitial ==
  /\ stage = "reduce" /\ revision = 0
  /\ LET reduction == Reduce(JudgedGoals, Judged, {}, distinct)
         accepted == Accepted(reduction)
     IN /\ rejected' = {InitialGoal(g.id) : g \in reduction.rejected}
        /\ wanted' = (Roots(Judged) \ Ids(reduction.rejected))
                     \union {PartGoal(u).id : u \in uncovered}
        /\ IF NeedsRevision(reduction, uncovered)
           THEN /\ stage' = "plan_revision"
                /\ preserved' = accepted
                /\ obligations' = RevisionObligations(reduction)
                /\ ledger' = ledger
           ELSE /\ stage' = "check"
                /\ ledger' = accepted
                /\ UNCHANGED <<preserved, obligations>>
  /\ UNCHANGED <<attempt, revision, late, wrapper, plan, distinct, records, uncovered, corrected,
                 covered>>
-----------------------------------------------------------------------------
(* The corrected plan.                                                      *)
\* normalizeAuditorCorrectionIds: a rejected goal that comes back with the
\* wider origin of an uncovered part is that part, under a new id.
IsCorrection(g, goals) ==
  /\ \E r \in rejected : r.id = g.id /\ r.core = g.core /\ Expands(g.origins, r.origins)
  /\ \E o \in obligations : o.kind = "uncovered" /\ SameContent(g, o)
  /\ \A i, j \in DOMAIN goals :
       SameContent(goals[i], g) /\ SameContent(goals[j], g) => i = j
CorrectedId(g) == <<"corrected", g.id>>
Normalized(goals) ==
  [i \in DOMAIN goals |->
     IF IsCorrection(goals[i], goals) THEN [goals[i] EXCEPT !.id = CorrectedId(goals[i])]
     ELSE goals[i]]

\* The goals excluded from the corrected plan, by id and content.
RevivesRejected(g) == \E r \in rejected : g.id = r.id \/ SameContent(g, r)
\* Mutant: a rejected goal is recognised by its content only.
RevivesContent(g) == \E r \in rejected : SameContent(g, r)
Unchanged(g) == \E o \in obligations :
  /\ o.kind # "uncovered"
  /\ SameContent(g, InitialGoal(o.source))
RetainedByContent(goals) ==
  AtPositions(goals, {i \in DOMAIN goals : ~RevivesContent(goals[i]) /\ ~Unchanged(goals[i])})

Retained(goals) ==
  AtPositions(goals, {i \in DOMAIN goals : ~RevivesRejected(goals[i]) /\ ~Unchanged(goals[i])})

\* What is new in a corrected plan.
Fresh(goals) ==
  LET candidates == Candidates(goals)
  IN AtPositions(candidates, {i \in DOMAIN candidates : candidates[i].id \notin Ids(preserved)})

ValidRevision(goals) ==
  /\ IdsAreUnique(goals)
  /\ \A p \in preserved : \E i \in DOMAIN goals : goals[i] = AsGoal(p)
  /\ SeedsAreComplete(preserved \union ToSet(goals),
       AllOrigins({InitialGoal(o.source) : o \in {p \in obligations : p.kind # "uncovered"}}),
       wrapper)

\* The preserved goals come before or after the new ones, or are missing.
RevisionReply ==
  /\ stage = "plan_revision"
  /\ \E more \in RevisedGoals, keep \in {"before", "after", "dropped"} :
       LET kept == SetToSeq({AsGoal(p) : p \in preserved})
           goals == Normalized(CASE keep = "before" -> kept \o more
                                 [] keep = "after" -> more \o kept
                                 [] OTHER -> more)
           retained == Retained(goals)
           fresh == Fresh(retained)
       IN IF /\ OriginsAreKnown(ToSet(goals), wrapper)
             /\ SeedsAreIndependent(ToSet(goals), wrapper)
             /\ LeavesAreExact(ToSet(goals), wrapper)
             /\ ValidRevision(retained)
          THEN /\ SendToAudit(Candidates(fresh),
                    LeafIds(retained, wrapper) \cap Ids(ToSet(Candidates(fresh))))
               /\ revision' = 1
               /\ corrected' = {g.id : g \in ToSet(fresh)}
                               \cap {CorrectedId(r) : r \in rejected}
               /\ UNCHANGED <<late, wrapper, preserved, obligations, rejected, ledger, wanted,
                              covered>>
          ELSE Refuse

Fixed == Deterministic(JudgedGoals, Judged, obligations, corrected)

\* What the audit of the corrected plan left joins the preserved goals.
ReduceRevision ==
  /\ stage = "reduce" /\ revision = 1 /\ ~late
  /\ LET reduction == Reduce(JudgedGoals, Judged, Existing, distinct)
         fixed == Fixed
         asked == obligations \ {f[1] : f \in fixed}
         ask == \E o \in asked : Coverers(o, JudgedGoals, Judged, asked) # {}
     IN /\ rejected' = rejected \union reduction.rejected
        /\ ledger' = preserved \union Accepted(reduction) \union Leftover(reduction, uncovered)
        /\ covered' = covered \union {f \in fixed : f[2] # {}}
        /\ stage' = IF ask THEN "revision_coverage" ELSE "carry"
  /\ UNCHANGED <<attempt, revision, late, wrapper, plan, distinct, records, uncovered, preserved,
                 obligations, corrected, wanted>>

RevisionCoverageReply ==
  /\ stage = "revision_coverage"
  /\ LET asked == obligations \ {f[1] : f \in Fixed}
         ids == {g.id : g \in UNION {Coverers(o, JudgedGoals, Judged, asked) : o \in asked}}
     IN \E cover \in CoverChoices(asked, ids) :
          IF ValidCoverage(cover, JudgedGoals, Judged, asked)
          THEN /\ covered' = covered \union {<<o, cover[o]>> : o \in {p \in asked : cover[p] # {}}}
               /\ stage' = "carry" /\ attempt' = 0
               /\ UNCHANGED <<revision, late, wrapper, plan, distinct, records, uncovered,
                              preserved, obligations, rejected, corrected, ledger, wanted>>
          ELSE Refuse

\* materializeUnresolvedRevision: what no goal covers stays required, unless
\* the revised audit already left it.
Unresolved ==
  {o \in obligations :
     /\ \A c \in covered : c[1] # o
     /\ \A g \in ledger \ preserved : ~(g.status = "planning_incomplete" /\ SameContent(g, o))}
CarriedGoals == Candidates(SetToSeq(
  {[id |-> <<"carry", o.core, o.origins>>, core |-> o.core, origins |-> o.origins] : o \in Unresolved}))

CarryForward ==
  /\ stage = "carry"
  /\ ledger' = ledger \union {Required(g, "planning_incomplete") : g \in ToSet(CarriedGoals)}
  /\ stage' = "check"
  /\ UNCHANGED <<attempt, revision, late, wrapper, plan, distinct, records, uncovered, preserved,
                 obligations, rejected, corrected, wanted, covered>>

\* The checks of the finished plan.
Check ==
  /\ stage = "check"
  /\ stage' = IF /\ ledger # {}
                 /\ SeedsAreIndependent(ledger, wrapper)
                 /\ SeedsAreComplete(ledger, {}, wrapper)
              THEN "done" ELSE "failed"
  /\ UNCHANGED <<attempt, revision, late, wrapper, plan, distinct, records, uncovered, preserved,
                 obligations, rejected, corrected, ledger, wanted, covered>>

-----------------------------------------------------------------------------
(* Late goals: audited against the plan, with no revision left.             *)
LateProposals ==
  /\ stage = "done" /\ ~late
  /\ \E goals \in LatePlans :
       /\ IdsAreUnique(goals)
       /\ \A i \in DOMAIN goals : goals[i].id \notin Ids(ledger) \union Ids(rejected)
       /\ OriginsAreKnown(ToSet(goals), wrapper)
       /\ SendToAudit(Candidates(goals), {})
  /\ late' = TRUE /\ revision' = 1
  /\ preserved' = ledger
  /\ UNCHANGED <<wrapper, obligations, rejected, corrected, ledger, wanted, covered>>

ReduceLate ==
  /\ stage = "reduce" /\ late
  /\ LET reduction == Reduce(JudgedGoals, Judged, Existing, distinct) IN
       /\ rejected' = rejected \union reduction.rejected
       /\ ledger' = preserved \union Accepted(reduction) \union Leftover(reduction, uncovered)
  /\ stage' = "done"
  /\ UNCHANGED <<attempt, revision, late, wrapper, plan, distinct, records, uncovered, preserved,
                 obligations, corrected, wanted, covered>>

Next ==
  \/ Malformed \/ RequestFails
  \/ PlannerReply \/ AuditReply \/ JoinBatches \/ CoverageReply
  \/ ReduceInitial \/ RevisionReply \/ ReduceRevision \/ RevisionCoverageReply
  \/ CarryForward \/ Check \/ LateProposals \/ ReduceLate

Spec == Init /\ [][Next]_vars
-----------------------------------------------------------------------------
Stages == Requests \union {"join", "reduce", "carry", "check", "done", "failed"}

TypeOK ==
  /\ stage \in Stages /\ attempt \in {0, 1} /\ revision \in {0, 1}
  /\ DOMAIN records \subseteq Ids(ToSet(plan))
  /\ uncovered \subseteq Contents
  /\ \A g \in ledger : g.status \in {"ready", "blocked", "planning_incomplete"}

\* Nothing the request asks for disappears on the way through two plans, their
\* batched audits and the reconciliations: in a finished plan every goal and
\* part the initial audit did not reject is required or was an obligation of
\* the revision, and every such obligation is covered by goals that are all
\* required, or is required itself as planning_incomplete.  The same for each
\* part one batch reported missing and a goal of another batch was said to
\* cover, and for late goals.
InLedger(id) == \E g \in ledger : g.id = id
Carried(o) == \E g \in ledger :
  g.status = "planning_incomplete" /\ g.core = o.core /\ o.origins \subseteq g.origins
Settled(o) == Carried(o) \/ \E c \in covered : c[1] = o /\ \A id \in c[2] : InLedger(id)

NothingIsLost ==
  stage = "done" =>
    /\ preserved \subseteq ledger
    /\ \A id \in wanted : InLedger(id) \/ \E o \in obligations : o.source = id
    /\ \A o \in obligations : Settled(o)
    /\ \A c \in covered : \A id \in c[2] :
         InLedger(id) \/ \E o \in obligations : o.source = id /\ Settled(o)
    /\ late => \A g \in ToSet(plan) :
         \/ g.id \in External(records, preserved)
         \/ Root(Judged, g.id) \in Ids(ledger) \union Ids(rejected)

\* A goal an audit rejected is never required, under its id, whatever the
\* corrected plan makes of it.
RejectedStaysOut == stage = "done" => Ids(rejected) \cap Ids(ledger) = {}

\* Two goals ready to explore can be told apart, whichever plan they came from:
\* of one claim type, neither has origins strictly inside the other's, unless
\* they are of two kinds of the classification the request asks for.
AreTwoLeaves(g, h, leaves) ==
  \E l, m \in leaves : l # m /\ g.core \in l.cores /\ h.core \in m.cores

ReadyGoalsAreTellable ==
  stage = "done" =>
    \A g, h \in WithStatus(ledger, "ready") : Overlap(g, h) => AreTwoLeaves(g, h, wrapper.leaves)

\* Planning ends: one revision and two attempts for each request.  Every step
\* of the plan, its revision or its late audit comes closer to the end of it.
Order(st) ==
  CASE st = "planner" -> 9 [] st = "goal_audit" -> 8 [] st = "join" -> 7
    [] st = "coverage" -> 6 [] st = "reduce" -> 5
    [] st \in {"plan_revision", "revision_coverage"} -> 4
    [] st = "carry" -> 3 [] st = "check" -> 2 [] OTHER -> 1
Rank == <<IF late THEN 0 ELSE 1, 1 - revision, Order(stage), Len(plan) - Audited, 1 - attempt>>
Smaller(x, y) == \E i \in DOMAIN x :
  0 <= x[i] /\ x[i] < y[i] /\ \A j \in 1..(i - 1) : x[j] = y[j]

EveryStepComesCloser == [][Smaller(Rank', Rank)]_vars
=============================================================================
