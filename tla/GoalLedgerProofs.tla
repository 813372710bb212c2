-------------------------- MODULE GoalLedgerProofs --------------------------
(***************************************************************************)
(* Theorems of GoalLedger for every set of planned and late goals, every   *)
(* repair batch and every priority.  The inductive invariant IInv adds to  *)
(* the safety properties the order of the passes (PassOrder), which bounds *)
(* passes and tells which gaps may be repairable, and the freshness of the *)
(* late ids (LateIdsAreFresh), without which a late gap could be a second  *)
(* gap of a registered goal.                                               *)
(***************************************************************************)
EXTENDS GoalLedger, TLAPS

\* The ledger starts empty.
LEMMA InitInv == Init => IInv
<1> SUFFICES ASSUME Init PROVE IInv
  OBVIOUS
<1> USE DEF Init
<1>1. TypeOK
  <2>1. verdicts \in [Goals -> SUBSET Verdict]
    BY Zenon
  <2>2. state \in [Goals -> States] /\ gapRef \in [Goals -> GapKinds \union {"none"}]
    BY DEF States
  <2>3. phase \in Phases /\ passes \in 0..2 /\ handoff \in Normal \union {"none", "failed"}
        /\ fault \in Faults
    BY DEF Phases, Faults
  <2>4. /\ gaps \subseteq Gap /\ claimRefs \subseteq Goals /\ claims \subseteq Goals
        /\ dropped \subseteq Goals /\ uncovered \subseteq Goals /\ limited \subseteq Goals
        /\ acted \in BOOLEAN /\ repaired \in BOOLEAN /\ aborted \in BOOLEAN
    OBVIOUS
  <2> HIDE DEF Init
  <2> QED
    BY <2>1, <2>2, <2>3, <2>4 DEF TypeOK
<1>2. PassOrder /\ OneRepairRound /\ PositiveIsEarned
  BY DEF PassOrder, OneRepairRound, PositiveIsEarned
<1>3. LateIdsAreFresh
  BY DEF LateIdsAreFresh, Goals
<1>4. LedgerLinked /\ RepairableGapsAreLinked
  BY DEF LedgerLinked, RepairableGapsAreLinked, Registered, GapsOf
<1> QED
  BY <1>1, <1>2, <1>3, <1>4 DEF IInv

\* A step that throws leaves the ledger alone and ends the run.
LEMMA FailInv ==
  ASSUME IInv, NEW f \in Faults, phase # "done", f # "repair_contract", Fail(f),
         UNCHANGED <<passes, ledger, claims, verdicts, dropped, uncovered, aborted>>,
         limited' \subseteq Goals, acted' \in BOOLEAN, repaired' = repaired
  PROVE  IInv'
<1> USE DEF Fail, FaultAtCommit, ledger, IInv
<1>1. TypeOK'
  BY DEF TypeOK, Phases, Faults, Normal
<1>2. PassOrder' /\ OneRepairRound' /\ PositiveIsEarned'
  BY DEF PassOrder, OneRepairRound, PositiveIsEarned
<1>3. LateIdsAreFresh'
  BY DEF LateIdsAreFresh
<1>4. LedgerLinked'
  BY DEF LedgerLinked, Registered, GapsOf
<1>5. RepairableGapsAreLinked'
  BY DEF RepairableGapsAreLinked, Faults
<1> QED
  BY <1>1, <1>2, <1>3, <1>4, <1>5 DEF Fail

\* What CoverageGap builds is a gap, and which one.
LEMMA CoverageGapType ==
  ASSUME NEW g \in Goals, NEW k \in GapKinds, NEW r \in GapReasons, NEW b \in BOOLEAN
  PROVE  /\ CoverageGap(g, k, r, b) \in Gap
         /\ CoverageGap(g, k, r, b).goal = g
         /\ CoverageGap(g, k, r, b).kind = k
         /\ CoverageGap(g, k, r, b).repairable => b
  BY DEF CoverageGap, Gap

\* The gaps the audits and the projection create, and what a limit or the repair
\* round makes of one.
LEMMA SimpleGapTypes ==
  ASSUME NEW g \in Goals
  PROVE  /\ BlockedGap(g) \in Gap /\ BlockedGap(g).goal = g
         /\ BlockedGap(g).kind = "audit" /\ ~BlockedGap(g).repairable
         /\ ProjectionGap(g) \in Gap /\ ProjectionGap(g).goal = g
         /\ ~ProjectionGap(g).repairable
         /\ LateGap(g) \in Gap /\ LateGap(g).goal = g /\ LateGap(g).kind = "uncovered"
         /\ LateGap(g).repairable => passes = 1
<1>1. /\ BlockedGap(g) \in Gap /\ BlockedGap(g).goal = g
      /\ BlockedGap(g).kind = "audit" /\ ~BlockedGap(g).repairable
  BY DEF BlockedGap, CoverageGap, Gap, GapKinds, GapReasons
<1>2. ProjectionGap(g) \in Gap /\ ProjectionGap(g).goal = g /\ ~ProjectionGap(g).repairable
  BY DEF ProjectionGap, CoverageGap, Gap, GapKinds, GapReasons
<1>3. /\ LateGap(g) \in Gap /\ LateGap(g).goal = g /\ LateGap(g).kind = "uncovered"
      /\ LateGap(g).repairable => passes = 1
  <2> DEFINE b == passes = 1
  <2>1. b \in BOOLEAN /\ LateGap(g) = CoverageGap(g, "uncovered", "uncovered_request", b)
    BY DEF LateGap
  <2>2. "uncovered" \in GapKinds /\ "uncovered_request" \in GapReasons /\ (b => passes = 1)
    BY DEF GapKinds, GapReasons
  <2> HIDE DEF b
  <2> QED
    BY <2>1, <2>2, CoverageGapType
<1> QED
  BY <1>1, <1>2, <1>3

\* Limiting a gap, or spending it in the repair round, keeps it a gap of its goal.
LEMMA ChangedGapTypes ==
  ASSUME NEW x \in Gap, NEW T
  PROVE  /\ Spent(x, T) \in Gap /\ Spent(x, T).goal = x.goal
         /\ Spent(x, T).kind = x.kind /\ ~Spent(x, T).repairable
         /\ Limited(x) \in Gap /\ Limited(x).goal = x.goal
         /\ Limited(x).kind = x.kind /\ ~Limited(x).repairable
<1>1. /\ Limited(x) \in Gap /\ Limited(x).goal = x.goal
      /\ Limited(x).kind = x.kind /\ ~Limited(x).repairable
  BY DEF Limited, Gap, GapReasons
<1>2. /\ Spent(x, T) \in Gap /\ Spent(x, T).goal = x.goal
      /\ Spent(x, T).kind = x.kind /\ ~Spent(x, T).repairable
  <2> DEFINE a == x.attempted \/ x.goal \in T
  <2>1. a \in BOOLEAN /\ Spent(x, T) = [x EXCEPT !.repairable = FALSE, !.attempted = a]
    BY DEF Spent
  <2> HIDE DEF a
  <2> QED
    BY <2>1 DEF Gap
<1> QED
  BY <1>1, <1>2

\* The planning audit: the only gaps it makes are those of the goals it blocks.
LEMMA AuditPlanInv == IInv /\ AuditPlan => IInv'
<1> SUFFICES ASSUME IInv, AuditPlan PROVE IInv'
  OBVIOUS
<1>1. PICK planned \in (SUBSET PlanGoals) \ {{}} : \E blocked \in SUBSET planned :
         /\ state' = [g \in Goals |-> IF g \in blocked THEN "blocked"
                                      ELSE IF g \in planned THEN "exploring" ELSE "absent"]
         /\ gapRef' = [g \in Goals |-> IF g \in blocked THEN "audit" ELSE "none"]
         /\ gaps' = {BlockedGap(g) : g \in blocked}
         /\ phase' = IF blocked = planned THEN "project" ELSE "explore"
  BY DEF AuditPlan
<1>2. PICK blocked \in SUBSET planned :
         /\ state' = [g \in Goals |-> IF g \in blocked THEN "blocked"
                                      ELSE IF g \in planned THEN "exploring" ELSE "absent"]
         /\ gapRef' = [g \in Goals |-> IF g \in blocked THEN "audit" ELSE "none"]
         /\ gaps' = {BlockedGap(g) : g \in blocked}
         /\ phase' = IF blocked = planned THEN "project" ELSE "explore"
  BY <1>1
<1>3. /\ phase = "plan" /\ passes = 0 /\ ~repaired /\ handoff = "none" /\ fault = "none"
      /\ UNCHANGED <<passes, claimRefs, claims, verdicts, dropped, uncovered, limited, acted,
                     repaired, aborted, fault, handoff>>
  BY DEF AuditPlan, IInv, PassOrder, pass
<1>4. blocked \subseteq Goals /\ planned \subseteq Goals
  BY DEF Goals
<1>a. \A g \in blocked : LET x == BlockedGap(g) IN
          x \in Gap /\ x.goal = g /\ x.kind = "audit" /\ ~x.repairable
  BY <1>4, SimpleGapTypes
<1>5. \A x \in gaps' : x \in Gap /\ x.goal \in blocked /\ x.kind = "audit" /\ ~x.repairable
                       /\ x = BlockedGap(x.goal)
  BY <1>2, <1>a
<1>6. \A g \in blocked : \E x \in gaps' : x.goal = g /\ x.kind = "audit"
  BY <1>2, <1>a
<1>7. TypeOK'
  <2>1. state' \in [Goals -> States] /\ gapRef' \in [Goals -> GapKinds \union {"none"}]
    BY <1>2 DEF States, GapKinds
  <2>2. gaps' \subseteq Gap /\ phase' \in Phases
    BY <1>2, <1>5 DEF Phases
  <2> QED
    BY <1>3, <2>1, <2>2 DEF IInv, TypeOK
<1>8. PassOrder' /\ OneRepairRound' /\ PositiveIsEarned'
  <2>1. phase' \in {"project", "explore"} /\ passes' = 0 /\ repaired' = FALSE /\ handoff' = "none"
    BY <1>2, <1>3 DEF IInv, TypeOK
  <2>2. PassOrder'
    BY <2>1 DEF PassOrder
  <2>3. OneRepairRound' /\ PositiveIsEarned'
    BY <2>1 DEF OneRepairRound, PositiveIsEarned
  <2> QED
    BY <2>2, <2>3
<1>9. LateIdsAreFresh'
  <2>1. \A g \in LateInitial \union LatePost : g \in Goals /\ g \notin planned
    BY GoalsAssumption DEF Goals
  <2>2. \A g \in LateInitial \union LatePost : state'[g] = "absent"
    BY <1>2, <2>1
  <2> QED
    BY <1>2, <2>2 DEF LateIdsAreFresh
<1>10. LedgerLinked'
  <2>1. \A x \in gaps' : x.goal \in Registered'
    <3>1. \A g \in blocked : g \in Goals /\ state'[g] # "absent"
      BY <1>2, <1>4
    <3> QED
      BY <1>5, <3>1 DEF Registered
  <2>2. \A x, y \in gaps' : x.goal = y.goal => x = y
    BY <1>5
  <2>3. \A g \in Goals : state'[g] \in {"gap", "contradicted", "blocked"} =>
          \E x \in GapsOf(g)' : x.kind = gapRef'[g]
    <3> SUFFICES ASSUME NEW g \in Goals, state'[g] \in {"gap", "contradicted", "blocked"}
                 PROVE  \E x \in gaps' : x.goal = g /\ x.kind = gapRef'[g]
      BY DEF GapsOf
    <3>1. g \in blocked /\ gapRef'[g] = "audit"
      BY <1>2
    <3> QED
      BY <1>6, <3>1
  <2>4. \A g \in Goals : state'[g] # "supported"
    BY <1>2
  <2> QED
    BY <2>1, <2>2, <2>3, <2>4 DEF LedgerLinked
<1>11. RepairableGapsAreLinked'
  BY <1>3, <1>5 DEF RepairableGapsAreLinked
<1> QED
  BY <1>3, <1>7, <1>8, <1>9, <1>10, <1>11 DEF IInv

\* A step of the running exploration that leaves the ledger alone.
LEMMA SameLedgerInv ==
  ASSUME IInv, UNCHANGED <<passes, ledger, repaired, fault, handoff>>,
         phase # "done", phase' # "done",
         TypeOK', PassOrder', LateIdsAreFresh'
  PROVE  IInv'
<1> USE DEF IInv, ledger
<1>1. LedgerLinked' /\ RepairableGapsAreLinked'
  BY DEF LedgerLinked, RepairableGapsAreLinked, Registered, GapsOf
<1>2. OneRepairRound' /\ PositiveIsEarned'
  BY DEF OneRepairRound, PositiveIsEarned
<1> QED
  BY <1>1, <1>2

\* The caller's cancellation touches no goal and no gap.
LEMMA AbortInv == IInv /\ Abort => IInv'
<1> SUFFICES ASSUME IInv, Abort PROVE IInv'
  OBVIOUS
<1> USE DEF Abort, pass, ledger
<1>1. TypeOK'
  BY DEF IInv, TypeOK
<1>2. PassOrder' /\ LateIdsAreFresh'
  BY DEF IInv, PassOrder, LateIdsAreFresh
<1> QED
  BY <1>1, <1>2, SameLedgerInv

\* A failing service or a failing assembly ends the run without a positive handoff.
LEMMA ServiceFailsInv == IInv /\ (ServiceFails \/ AssemblyFails) => IInv'
<1> SUFFICES ASSUME IInv, ServiceFails \/ AssemblyFails PROVE IInv'
  OBVIOUS
<1>1. PICK f \in {"aborted", "provider_error", "invalid_control", "assembly"} : Fail(f)
  BY DEF ServiceFails, AssemblyFails
<1>2. phase # "done" /\ f \in Faults /\ f # "repair_contract"
  BY <1>1 DEF ServiceFails, AssemblyFails, ServicePhases, Faults
<1>3. /\ UNCHANGED <<passes, ledger, claims, verdicts, dropped, uncovered, aborted>>
      /\ limited' \subseteq Goals /\ acted' \in BOOLEAN /\ repaired' = repaired
  BY DEF ServiceFails, AssemblyFails, pass, IInv, TypeOK
<1> QED
  BY <1>1, <1>2, <1>3, FailInv

\* The turn loop ends or gives up without touching a goal.
LEMMA ExploreInv == IInv /\ Explore => IInv'
<1> SUFFICES ASSUME IInv, Explore PROVE IInv'
  OBVIOUS
<1> USE DEF Explore, pass, ledger
<1>1. CASE \E tools \in BOOLEAN :
             acted' = tools /\ phase' = "synthesis" /\ UNCHANGED <<fault, handoff>>
  <2>1. TypeOK'
    BY <1>1 DEF IInv, TypeOK, Phases
  <2>2. PassOrder' /\ LateIdsAreFresh'
    BY <1>1 DEF IInv, PassOrder, LateIdsAreFresh
  <2> QED
    BY <1>1, <2>1, <2>2, SameLedgerInv
<1>2. CASE acted' = TRUE /\ Fail("tool_errors")
  BY <1>2, FailInv DEF Faults, IInv, TypeOK
<1> QED
  BY <1>1, <1>2

\* A cut completion only ever marks goals of the run.
LEMMA LengthLimitType ==
  ASSUME NEW A \in SUBSET Goals, TypeOK, LengthLimit(A)
  PROVE  limited' \subseteq Goals
  BY DEF LengthLimit, TypeOK

\* Open and active goals are goals.
LEMMA OpenType == TypeOK => Open \subseteq Goals /\ Active \subseteq Goals
  BY DEF Open, Active, Registered

\* Claim synthesis changes no goal state and no gap.
LEMMA SynthesizeInv == IInv /\ Synthesize => IInv'
<1> SUFFICES ASSUME IInv, Synthesize PROVE IInv'
  OBVIOUS
<1> USE DEF ledger
<1>1. TypeOK'
  <2>1. claims' \subseteq Goals /\ dropped' \subseteq Goals
    BY OpenType DEF Synthesize, IInv, TypeOK
  <2>2. limited' \subseteq Goals
    BY OpenType, LengthLimitType DEF Synthesize, IInv
  <2> QED
    BY <2>1, <2>2 DEF Synthesize, IInv, TypeOK, Phases
<1>2. PassOrder' /\ LateIdsAreFresh'
  BY DEF Synthesize, IInv, PassOrder, LateIdsAreFresh
<1>3. UNCHANGED <<passes, ledger, repaired, fault, handoff>> /\ phase # "done" /\ phase' # "done"
  BY DEF Synthesize
<1> QED
  BY <1>1, <1>2, <1>3, SameLedgerInv

\* Without a repairable goal the run goes on to its projection.
LEMMA SkipRepairInv == IInv /\ SkipRepair => IInv'
<1> SUFFICES ASSUME IInv, SkipRepair PROVE IInv'
  OBVIOUS
<1> USE DEF SkipRepair, ledger, pass
<1>1. TypeOK'
  BY DEF IInv, TypeOK, Phases
<1>2. PassOrder' /\ LateIdsAreFresh'
  BY DEF IInv, PassOrder, LateIdsAreFresh
<1> QED
  BY <1>1, <1>2, SameLedgerInv

\* What the reduction builds for a goal it leaves open.
LEMMA SemanticGapType ==
  ASSUME TypeOK, NEW g \in Goals, NEW r \in GapReasons, NEW b \in BOOLEAN
  PROVE  /\ SemanticGap(g, r, b) \in Gap
         /\ SemanticGap(g, r, b).goal = g
         /\ SemanticGap(g, r, b).kind = "semantic"
         /\ SemanticGap(g, r, b).repairable => b /\ passes = 0
<1> DEFINE c == b /\ passes = 0
           a == \E x \in GapsOf(g) : x.attempted
           old == CoverageGap(g, "semantic", r, c)
<1>1. c \in BOOLEAN /\ a \in BOOLEAN /\ (c => b /\ passes = 0) /\ "semantic" \in GapKinds
  BY DEF GapKinds
<1>2. SemanticGap(g, r, b) = [old EXCEPT !.attempted = a]
  BY DEF SemanticGap
<1> HIDE DEF c, a
<1>3. old \in Gap /\ old.goal = g /\ old.kind = "semantic" /\ (old.repairable => c)
  BY <1>1, CoverageGapType
<1>4. \A x \in Gap, t \in BOOLEAN : LET y == [x EXCEPT !.attempted = t] IN
        y \in Gap /\ y.goal = x.goal /\ y.kind = x.kind /\ y.repairable = x.repairable
  BY DEF Gap
<1> HIDE DEF old
<1> QED
  BY <1>1, <1>2, <1>3, <1>4

\* The gaps the reduction builds are gaps of the goal they are built for.
LEMMA BuiltGapTypes ==
  ASSUME TypeOK, NEW g \in Goals, NEW w, NEW s
  PROVE  /\ UnclaimedGap(g) \in Gap
         /\ UnclaimedGap(g).goal = g
         /\ UnclaimedGap(g).kind = "semantic"
         /\ UnclaimedGap(g).repairable => passes = 0
         /\ JudgedGap(g, w, s) \in Gap
         /\ JudgedGap(g, w, s).goal = g
         /\ JudgedGap(g, w, s).kind = "semantic"
         /\ JudgedGap(g, w, s).repairable => passes = 0 /\ ~Contradicts(w)
<1> DEFINE t == TRUE
           b == ~Contradicts(w) /\ g \notin s
<1>1. /\ UnclaimedGap(g) = SemanticGap(g, "missing_evidence", t)
      /\ t \in BOOLEAN /\ "missing_evidence" \in GapReasons
  BY DEF UnclaimedGap, GapReasons
<1>2. JudgedGap(g, w, s) = SemanticGap(g, GapReason(w), b)
  BY DEF JudgedGap
<1>3. GapReason(w) \in GapReasons /\ b \in BOOLEAN /\ (b => ~Contradicts(w))
  BY DEF GapReason, GapReasons
<1> HIDE DEF b, t
<1>4. /\ UnclaimedGap(g) \in Gap /\ UnclaimedGap(g).goal = g
      /\ UnclaimedGap(g).kind = "semantic" /\ (UnclaimedGap(g).repairable => passes = 0)
  BY <1>1, SemanticGapType
<1>5. /\ JudgedGap(g, w, s) \in Gap /\ JudgedGap(g, w, s).goal = g
      /\ JudgedGap(g, w, s).kind = "semantic"
      /\ JudgedGap(g, w, s).repairable => b /\ passes = 0
  BY <1>2, <1>3, SemanticGapType
<1> QED
  BY <1>3, <1>4, <1>5

\* Which gap a reduction leaves for a goal: the one it builds when it judged the
\* goal or found it without a claim, the old one otherwise.
LEMMA ReducedGapsLookup ==
  ASSUME TypeOK, NEW cs \in SUBSET Goals, NEW v, NEW s, NEW g,
         NEW x \in ReducedGaps(cs, v, s), x.goal = g
  PROVE  /\ g \in Goals
         /\ g \in Unclaimed(cs) => x = UnclaimedGap(g)
         /\ g \in Candidates(cs) => ~SupportedBy(g, v[g]) /\ x = JudgedGap(g, v[g], s)
         /\ g \notin Candidates(cs) \union Unclaimed(cs) => x \in gaps /\ g \in Registered
<1>0. /\ Candidates(cs) \subseteq Goals /\ Unclaimed(cs) \subseteq Goals
      /\ Candidates(cs) \intersect Unclaimed(cs) = {}
      /\ \A y \in Gap : y.goal \in Goals
  BY DEF Candidates, Unclaimed, Gap
<1>1. CASE x \in {UnclaimedGap(h) : h \in Unclaimed(cs)}
  <2>1. PICK h \in Unclaimed(cs) : x = UnclaimedGap(h)
    BY <1>1
  <2>2. h = g
    BY <1>0, <2>1, BuiltGapTypes
  <2> QED
    BY <1>0, <2>1, <2>2
<1>2. CASE x \in {JudgedGap(h, v[h], s) : h \in {k \in Candidates(cs) : ~SupportedBy(k, v[k])}}
  <2>1. PICK h \in Candidates(cs) : ~SupportedBy(h, v[h]) /\ x = JudgedGap(h, v[h], s)
    BY <1>2
  <2>2. h = g
    BY <1>0, <2>1, BuiltGapTypes
  <2> QED
    BY <1>0, <2>1, <2>2
<1>3. CASE x \in {y \in gaps : y.goal \in Registered \ (Candidates(cs) \union Unclaimed(cs))}
  BY <1>0, <1>3 DEF TypeOK
<1> QED
  BY <1>1, <1>2, <1>3 DEF ReducedGaps

\* The three kinds of goal a reduction tells apart, and what it makes of them.
LEMMA ReducedCases ==
  ASSUME NEW cs \in SUBSET Goals, NEW v, NEW g \in Goals
  PROVE  /\ Candidates(cs) \intersect Unclaimed(cs) = {}
         /\ g \in Unclaimed(cs) => /\ state[g] = "exploring"
                                   /\ ReducedState(cs, v, g) = "gap"
                                   /\ ReducedGapRef(cs, v, g) = "semantic"
         /\ g \in Candidates(cs) =>
              /\ state[g] \in {"exploring", "supported", "contradicted"}
              /\ SupportedBy(g, v[g]) => /\ ReducedState(cs, v, g) = "supported"
                                         /\ ReducedGapRef(cs, v, g) = "none"
              /\ ~SupportedBy(g, v[g]) =>
                   /\ ReducedState(cs, v, g) =
                        IF Contradicts(v[g]) THEN "contradicted" ELSE "gap"
                   /\ ReducedGapRef(cs, v, g) = "semantic"
         /\ g \notin Candidates(cs) \union Unclaimed(cs) =>
              ReducedState(cs, v, g) = state[g] /\ ReducedGapRef(cs, v, g) = gapRef[g]
  BY DEF Candidates, Unclaimed, ReducedState, ReducedGapRef

\* A reduction keeps the ledger and its gaps in step with each other.
LEMMA ReductionLinks ==
  ASSUME IInv, phase # "done", phase' # "done",
         NEW cs \in SUBSET Goals, NEW v, NEW s,
         state' = [g \in Goals |-> ReducedState(cs, v, g)],
         gapRef' = [g \in Goals |-> ReducedGapRef(cs, v, g)],
         gaps' = ReducedGaps(cs, v, s)
  PROVE  LedgerLinked'
<1>0. TypeOK /\ LedgerLinked /\ Candidates(cs) \subseteq Goals /\ Unclaimed(cs) \subseteq Goals
  BY DEF IInv, Candidates, Unclaimed
<1> HIDE DEF IInv
<1>1. \A x \in gaps' : x.goal \in Registered'
  <2> SUFFICES ASSUME NEW x \in gaps' PROVE x.goal \in Goals /\ state'[x.goal] # "absent"
    BY DEF Registered
  <2>1. x.goal \in Goals
    BY <1>0, ReducedGapsLookup
  <2>2. state'[x.goal] = ReducedState(cs, v, x.goal)
    BY <2>1
  <2>3. CASE x.goal \in Unclaimed(cs) \union Candidates(cs)
    BY <2>1, <2>2, <2>3, ReducedCases
  <2>4. CASE x.goal \notin Unclaimed(cs) \union Candidates(cs)
    <3>1. x.goal \in Registered
      BY <1>0, <2>4, ReducedGapsLookup
    <3> QED
      BY <2>1, <2>2, <2>4, <3>1, ReducedCases DEF Registered
  <2> QED
    BY <2>3, <2>4
<1>2. \A x, y \in gaps' : x.goal = y.goal => x = y
  <2> SUFFICES ASSUME NEW x \in gaps', NEW y \in gaps', NEW g, x.goal = g, y.goal = g
               PROVE  x = y
    OBVIOUS
  <2>0. x \in ReducedGaps(cs, v, s) /\ y \in ReducedGaps(cs, v, s)
    OBVIOUS
  <2>1. CASE g \in Unclaimed(cs)
    <3>1. x = UnclaimedGap(g)
      BY <1>0, <2>0, <2>1, ReducedGapsLookup
    <3>2. y = UnclaimedGap(g)
      BY <1>0, <2>0, <2>1, ReducedGapsLookup
    <3> QED
      BY <3>1, <3>2
  <2>2. CASE g \in Candidates(cs)
    <3>1. x = JudgedGap(g, v[g], s)
      BY <1>0, <2>0, <2>2, ReducedGapsLookup
    <3>2. y = JudgedGap(g, v[g], s)
      BY <1>0, <2>0, <2>2, ReducedGapsLookup
    <3> QED
      BY <3>1, <3>2
  <2>3. CASE g \notin Candidates(cs) \union Unclaimed(cs)
    <3>1. x \in gaps /\ y \in gaps
      BY <1>0, <2>0, <2>3, ReducedGapsLookup
    <3> QED
      BY <1>0, <3>1 DEF LedgerLinked
  <2> QED
    BY <2>1, <2>2, <2>3
<1>3. \A g \in Goals : state'[g] \in {"gap", "contradicted", "blocked"} =>
        \E x \in GapsOf(g)' : x.kind = gapRef'[g]
  <2> SUFFICES ASSUME NEW g \in Goals, state'[g] \in {"gap", "contradicted", "blocked"}
               PROVE  \E x \in gaps' : x.goal = g /\ x.kind = gapRef'[g]
    BY DEF GapsOf
  <2>0. state'[g] = ReducedState(cs, v, g) /\ gapRef'[g] = ReducedGapRef(cs, v, g)
    OBVIOUS
  <2>1. CASE g \in Unclaimed(cs)
    <3>1. UnclaimedGap(g) \in gaps'
      BY <2>1 DEF ReducedGaps
    <3>2. gapRef'[g] = "semantic"
      BY <2>0, <2>1, ReducedCases
    <3> QED
      BY <1>0, <3>1, <3>2, BuiltGapTypes
  <2>2. CASE g \in Candidates(cs)
    <3>0. ~SupportedBy(g, v[g])
      BY <2>0, <2>2, ReducedCases
    <3>1. JudgedGap(g, v[g], s) \in gaps'
      BY <2>2, <3>0 DEF ReducedGaps
    <3>2. gapRef'[g] = "semantic"
      BY <2>0, <2>2, <3>0, ReducedCases
    <3> QED
      BY <1>0, <3>1, <3>2, BuiltGapTypes
  <2>3. CASE g \notin Candidates(cs) \union Unclaimed(cs)
    <3>1. state[g] \in {"gap", "contradicted", "blocked"} /\ gapRef'[g] = gapRef[g]
      BY <2>0, <2>3, ReducedCases
    <3>2. PICK x \in gaps : x.goal = g /\ x.kind = gapRef[g]
      BY <1>0, <3>1 DEF LedgerLinked, GapsOf
    <3>3. g \in Registered
      BY <3>1 DEF Registered
    <3> QED
      BY <2>3, <3>1, <3>2, <3>3 DEF ReducedGaps
  <2> QED
    BY <2>1, <2>2, <2>3
<1>4. \A g \in Goals : state'[g] = "supported" => GapsOf(g)' = {}
  <2> SUFFICES ASSUME NEW g \in Goals, state'[g] = "supported", NEW x \in gaps', x.goal = g
               PROVE  FALSE
    BY DEF GapsOf
  <2>0. ReducedState(cs, v, g) = "supported"
    OBVIOUS
  <2>1. CASE g \in Unclaimed(cs) \union Candidates(cs)
    <3>1. g \in Candidates(cs) /\ SupportedBy(g, v[g])
      BY <2>0, <2>1, ReducedCases
    <3> QED
      BY <1>0, <3>1, ReducedGapsLookup, ReducedCases
  <2>2. CASE g \notin Candidates(cs) \union Unclaimed(cs)
    <3>1. x \in gaps /\ state[g] = "supported"
      BY <1>0, <2>0, <2>2, ReducedGapsLookup, ReducedCases
    <3> QED
      BY <1>0, <3>1 DEF LedgerLinked, GapsOf
  <2> QED
    BY <2>1, <2>2
<1> QED
  BY <1>1, <1>2, <1>3, <1>4 DEF LedgerLinked

\* A reduction leaves a gap repairable only in the first pass, for a goal that
\* waits in that gap.
LEMMA ReductionRepairable ==
  ASSUME IInv,
         NEW cs \in SUBSET Goals, NEW v, NEW s,
         state' = [g \in Goals |-> ReducedState(cs, v, g)],
         gapRef' = [g \in Goals |-> ReducedGapRef(cs, v, g)],
         gaps' = ReducedGaps(cs, v, s)
  PROVE  \A x \in gaps' : x.repairable =>
           /\ state'[x.goal] = "gap" /\ gapRef'[x.goal] = x.kind
           /\ passes = 0 \/ ~repaired
<1>0. TypeOK /\ OneRepairRound /\ RepairableGapsAreLinked
  BY DEF IInv
<1> SUFFICES ASSUME NEW g, NEW x \in gaps', x.goal = g, x.repairable
             PROVE  /\ state'[g] = "gap" /\ gapRef'[g] = x.kind
                    /\ passes = 0 \/ ~repaired
  OBVIOUS
<1>1. g \in Goals
  BY <1>0, ReducedGapsLookup
<1>2. state'[g] = ReducedState(cs, v, g) /\ gapRef'[g] = ReducedGapRef(cs, v, g)
  BY <1>1
<1>3. CASE g \in Unclaimed(cs)
  <2>1. x = UnclaimedGap(g)
    BY <1>0, <1>3, ReducedGapsLookup
  <2>2. x.kind = "semantic" /\ passes = 0
    BY <1>0, <1>1, <2>1, BuiltGapTypes
  <2> QED
    BY <1>1, <1>2, <1>3, <2>2, ReducedCases
<1>4. CASE g \in Candidates(cs)
  <2>1. x = JudgedGap(g, v[g], s) /\ ~SupportedBy(g, v[g])
    BY <1>0, <1>4, ReducedGapsLookup
  <2>2. x.kind = "semantic" /\ passes = 0 /\ ~Contradicts(v[g])
    BY <1>0, <1>1, <2>1, BuiltGapTypes
  <2> QED
    BY <1>1, <1>2, <1>4, <2>1, <2>2, ReducedCases
<1>5. CASE g \notin Candidates(cs) \union Unclaimed(cs)
  <2>1. x \in gaps
    BY <1>0, <1>5, ReducedGapsLookup
  <2>2. state[g] = "gap" /\ gapRef[g] = x.kind /\ ~repaired
    BY <1>0, <2>1 DEF RepairableGapsAreLinked, OneRepairRound
  <2> QED
    BY <1>1, <1>2, <1>5, <2>2, ReducedCases
<1> QED
  BY <1>3, <1>4, <1>5

\* The verdicts a pass chooses from are verdicts.
LEMMA VerdictKindsType ==
  ASSUME NEW b \in BOOLEAN, NEW x \in VerdictKinds(b)
  PROVE  x \in Verdict
<1> USE DEF Verdict, Supports, Rejects
<1>1. CASE x \in {Supports(r, f) : r \in {"affirmed", "refuted"}, f \in {FALSE} \union {b}}
  <2>1. PICK r \in {"affirmed", "refuted"}, f \in {FALSE} \union {b} : x = Supports(r, f)
    BY <1>1
  <2>2. f \in BOOLEAN
    OBVIOUS
  <2> QED
    BY <2>1, <2>2
<1>2. CASE x \in {Rejects("contradicted", FALSE), Rejects("insufficient", FALSE),
                  Rejects("insufficient", TRUE)}
  <2>1. x = Rejects("contradicted", FALSE) => x \in Verdict
    OBVIOUS
  <2>2. x = Rejects("insufficient", FALSE) => x \in Verdict
    OBVIOUS
  <2>3. x = Rejects("insufficient", TRUE) => x \in Verdict
    OBVIOUS
  <2> HIDE DEF Verdict, Rejects
  <2> QED
    BY Zenon, <1>2, <2>1, <2>2, <2>3
<1> QED
  BY <1>1, <1>2 DEF VerdictKinds

\* Every outcome of a verification maps goals to sets of verdicts.
LEMMA VerificationsType ==
  ASSUME NEW cs \in SUBSET Goals, NEW v \in Verifications(cs)
  PROVE  v \in [Goals -> SUBSET Verdict]
<1> DEFINE kinds == VerdictKinds(passes = 1)
           table(one, two) ==
             [g \in Goals |-> IF g \notin cs THEN {}
                              ELSE {one[g]} \union IF g \in Refutable THEN {two[g]} ELSE {}]
<1>1. kinds \subseteq Verdict
  <2> DEFINE b == passes = 1
  <2>1. b \in BOOLEAN /\ kinds = VerdictKinds(b)
    OBVIOUS
  <2> HIDE DEF b, kinds
  <2> QED
    BY <2>1, VerdictKindsType
<1>2. v \in {table(one, two) : one \in [cs -> kinds], two \in [cs \intersect Refutable -> kinds]}
  BY DEF Verifications
<1> HIDE DEF kinds, table
<1>3. PICK one \in [cs -> kinds], two \in [cs \intersect Refutable -> kinds] : v = table(one, two)
  BY <1>2
<1> QED
  BY <1>1, <1>3 DEF table

\* The reduction: each goal it holds open gets exactly one gap, whose id it names.
LEMMA ReduceInv == IInv /\ Reduce => IInv'
<1> SUFFICES ASSUME IInv, Reduce PROVE IInv'
  OBVIOUS
<1>0. /\ phase = "reduce" /\ TypeOK /\ handoff = "none" /\ fault = "none" /\ limited' \subseteq Goals
      /\ UNCHANGED <<claims, dropped, acted, repaired, aborted>>
  BY OpenType, LengthLimitType DEF Reduce, IInv
<1>1. CASE ~ReductionContract(claims)
  <2>1. Fail("reduction_contract") /\ UNCHANGED <<passes, ledger, verdicts, uncovered>>
    BY <1>1 DEF Reduce
  <2>2. "reduction_contract" \in Faults /\ acted' \in BOOLEAN
    BY <1>0 DEF Faults, TypeOK
  <2> QED
    BY <1>0, <2>1, <2>2, FailInv
<1>2. CASE ReductionContract(claims)
  <2>1. PICK v \in Verifications(claims) :
          \E shapeless \in SUBSET IF passes = 0 THEN claims ELSE {},
             parts \in SUBSET IF claims = {} THEN {} ELSE LateGoals :
            /\ state' = [g \in Goals |-> ReducedState(claims, v, g)]
            /\ gapRef' = [g \in Goals |-> ReducedGapRef(claims, v, g)]
            /\ gaps' = ReducedGaps(claims, v, shapeless)
            /\ claimRefs' = claimRefs \union claims
            /\ verdicts' = v
            /\ uncovered' = parts
            /\ passes' = passes + 1
            /\ phase' = "late"
            /\ UNCHANGED <<fault, handoff>>
    BY <1>2 DEF Reduce
  <2>b. PICK s : \E parts \in SUBSET IF claims = {} THEN {} ELSE LateGoals :
            /\ state' = [g \in Goals |-> ReducedState(claims, v, g)]
            /\ gapRef' = [g \in Goals |-> ReducedGapRef(claims, v, g)]
            /\ gaps' = ReducedGaps(claims, v, s)
            /\ claimRefs' = claimRefs \union claims
            /\ verdicts' = v
            /\ uncovered' = parts
            /\ passes' = passes + 1
            /\ phase' = "late"
            /\ UNCHANGED <<fault, handoff>>
    BY <2>1
  <2>c. PICK parts \in SUBSET IF claims = {} THEN {} ELSE LateGoals :
            /\ state' = [g \in Goals |-> ReducedState(claims, v, g)]
            /\ gapRef' = [g \in Goals |-> ReducedGapRef(claims, v, g)]
            /\ gaps' = ReducedGaps(claims, v, s)
            /\ claimRefs' = claimRefs \union claims
            /\ verdicts' = v
            /\ uncovered' = parts
            /\ passes' = passes + 1
            /\ phase' = "late"
            /\ UNCHANGED <<fault, handoff>>
    BY <2>b
  <2>2. /\ parts \subseteq LateGoals
        /\ state' = [g \in Goals |-> ReducedState(claims, v, g)]
        /\ gapRef' = [g \in Goals |-> ReducedGapRef(claims, v, g)]
        /\ gaps' = ReducedGaps(claims, v, s)
        /\ claimRefs' = claimRefs \union claims
        /\ verdicts' = v
        /\ uncovered' = parts
        /\ passes' = passes + 1
        /\ phase' = "late"
        /\ UNCHANGED <<fault, handoff>>
    BY <2>c
  <2>3. claims \in SUBSET Goals /\ ((passes = 0 /\ ~repaired) \/ (passes = 1 /\ repaired))
    <3>1. claims \subseteq Goals
      BY <1>0 DEF TypeOK
    <3>2. (passes = 0 /\ ~repaired) \/ (passes = 1 /\ repaired)
      BY <1>0 DEF IInv, PassOrder
    <3> QED
      BY <3>1, <3>2
  <2>4. LedgerLinked'
    BY <1>0, <2>2, <2>3, ReductionLinks
  <2>5. \A x \in gaps' : x.repairable =>
           /\ state'[x.goal] = "gap" /\ gapRef'[x.goal] = x.kind
           /\ passes = 0 \/ ~repaired
    BY <2>2, <2>3, ReductionRepairable
  <2>6. TypeOK'
    <3>1. state' \in [Goals -> States] /\ gapRef' \in [Goals -> GapKinds \union {"none"}]
      BY <1>0, <2>2 DEF TypeOK, ReducedState, ReducedGapRef, States, GapKinds
    <3>2. gaps' \subseteq Gap
      <4> SUFFICES ASSUME NEW x \in gaps' PROVE x \in Gap
        OBVIOUS
      <4>1. x \in ReducedGaps(claims, v, s)
        BY <2>2
      <4>2. Candidates(claims) \subseteq Goals /\ Unclaimed(claims) \subseteq Goals
        BY <2>3 DEF Candidates, Unclaimed
      <4>3. x \in gaps \/ (\E g \in Goals : x = UnclaimedGap(g))
              \/ (\E g \in Goals : x = JudgedGap(g, v[g], s))
        BY <4>1, <4>2 DEF ReducedGaps
      <4> QED
        BY <1>0, <4>3, BuiltGapTypes DEF TypeOK
    <3>3. verdicts' \in [Goals -> SUBSET Verdict]
      BY <2>2, <2>3, VerificationsType
    <3>4. uncovered' \subseteq Goals
      BY <2>2 DEF LateGoals, Goals
    <3>5. passes' \in 0..2 /\ claimRefs' \subseteq Goals /\ phase' \in Phases
      BY <1>0, <2>2, <2>3 DEF TypeOK, Phases
    <3> QED
      BY <1>0, <2>2, <3>1, <3>2, <3>3, <3>4, <3>5 DEF TypeOK
  <2>7. PassOrder'
    BY <1>0, <2>2, <2>3 DEF PassOrder
  <2>8. LateIdsAreFresh'
    <3>1. \A g \in Goals : state[g] = "absent" => state'[g] = "absent"
      BY <2>2 DEF ReducedState, Candidates, Unclaimed
    <3>2. \A g \in LateGoals : g \in Goals /\ state[g] = "absent"
      BY <1>0, <2>3 DEF LateGoals, Goals, IInv, LateIdsAreFresh
    <3>3. parts \subseteq IF passes' = 1 THEN LateInitial ELSE LatePost
      BY <2>2, <2>3 DEF LateGoals
    <3>4. passes' < 2 => \A g \in LatePost : state'[g] = "absent"
      BY <2>2, <2>3, <3>1 DEF IInv, LateIdsAreFresh, Goals
    <3> QED
      BY <2>2, <3>1, <3>2, <3>3, <3>4 DEF LateIdsAreFresh
  <2>9. RepairableGapsAreLinked' /\ OneRepairRound'
    BY <1>0, <2>2, <2>3, <2>5 DEF RepairableGapsAreLinked, OneRepairRound
  <2> QED
    BY <1>0, <2>2, <2>4, <2>6, <2>7, <2>8, <2>9 DEF IInv, PositiveIsEarned
<1> QED
  BY <1>1, <1>2

\* A late audit registers fresh ids only, each with one gap.
LEMMA AuditLateGoalsInv == IInv /\ AuditLateGoals => IInv'
<1> SUFFICES ASSUME IInv, AuditLateGoals PROVE IInv'
  OBVIOUS
<1>0. /\ phase = "late" /\ phase' = "limits" /\ uncovered' = {} /\ TypeOK
      /\ handoff = "none" /\ fault = "none" /\ LedgerLinked /\ uncovered \subseteq Goals
      /\ UNCHANGED <<passes, claimRefs, claims, verdicts, dropped, acted, repaired, aborted,
                     fault, handoff>>
      /\ (passes = 1 /\ ~repaired) \/ (passes = 2 /\ repaired)
      /\ \A g \in uncovered : state[g] = "absent"
      /\ uncovered \subseteq IF passes = 1 THEN LateInitial ELSE LatePost
  BY DEF AuditLateGoals, IInv, TypeOK, PassOrder, LateIdsAreFresh
<1>a. PICK ready \in SUBSET uncovered : \E blocked \in SUBSET (uncovered \ ready) :
         /\ state' = [g \in Goals |-> IF g \in ready THEN "gap"
                                      ELSE IF g \in blocked THEN "blocked" ELSE state[g]]
         /\ gapRef' = [g \in Goals |-> IF g \in ready THEN "uncovered"
                                       ELSE IF g \in blocked THEN "audit" ELSE gapRef[g]]
         /\ gaps' = gaps \union {LateGap(g) : g \in ready} \union {BlockedGap(g) : g \in blocked}
  BY DEF AuditLateGoals
<1>1. PICK blocked \in SUBSET (uncovered \ ready) :
         /\ state' = [g \in Goals |-> IF g \in ready THEN "gap"
                                      ELSE IF g \in blocked THEN "blocked" ELSE state[g]]
         /\ gapRef' = [g \in Goals |-> IF g \in ready THEN "uncovered"
                                       ELSE IF g \in blocked THEN "audit" ELSE gapRef[g]]
         /\ gaps' = gaps \union {LateGap(g) : g \in ready} \union {BlockedGap(g) : g \in blocked}
  BY <1>a
<1>2. ready \subseteq Goals /\ blocked \subseteq Goals /\ ready \intersect blocked = {}
  BY <1>0
<1>3. \A x \in gaps : x.goal \in Goals /\ x.goal \notin ready \union blocked
  BY <1>0, <1>1 DEF LedgerLinked, Registered
<1>4. \A x \in gaps' :
                      \/ x \in gaps
                      \/ x.goal \in ready /\ x = LateGap(x.goal) /\ x.kind = "uncovered"
                         /\ (x.repairable => passes = 1) /\ x \in Gap
                      \/ x.goal \in blocked /\ x = BlockedGap(x.goal) /\ x.kind = "audit"
                         /\ ~x.repairable /\ x \in Gap
  <2>1. ASSUME NEW x \in gaps', x \notin gaps
        PROVE  \/ x.goal \in ready /\ x = LateGap(x.goal) /\ x.kind = "uncovered"
                  /\ (x.repairable => passes = 1) /\ x \in Gap
               \/ x.goal \in blocked /\ x = BlockedGap(x.goal) /\ x.kind = "audit"
                  /\ ~x.repairable /\ x \in Gap
    <3>1. CASE \E g \in ready : x = LateGap(g)
      BY <1>2, <3>1, SimpleGapTypes
    <3>2. CASE \E g \in blocked : x = BlockedGap(g)
      BY <1>2, <3>2, SimpleGapTypes
    <3> QED
      BY <1>1, <2>1, <3>1, <3>2
  <2> QED
    BY <2>1, Zenon
<1>5. TypeOK'
  <2>1. state' \in [Goals -> States] /\ gapRef' \in [Goals -> GapKinds \union {"none"}]
    BY <1>0, <1>1 DEF TypeOK, States, GapKinds
  <2>2. gaps' \subseteq Gap
    BY <1>0, <1>4 DEF TypeOK
  <2>3. limited' \subseteq Goals
    BY <1>0, LengthLimitType DEF AuditLateGoals
  <2> QED
    BY <1>0, <2>1, <2>2, <2>3 DEF TypeOK, Phases
<1>6. PassOrder'
  BY <1>0 DEF PassOrder
<1>7. LateIdsAreFresh'
  <2>1. \A g \in LatePost : passes < 2 => g \notin ready \union blocked
    BY <1>0, <1>1, GoalsAssumption
  <2> QED
    BY <1>0, <1>1, <2>1 DEF LateIdsAreFresh, IInv, Goals
<1>8. LedgerLinked'
  <2>1. \A x \in gaps' : x.goal \in Registered'
    <3>1. \A x \in gaps : x.goal \in Goals /\ state'[x.goal] # "absent"
      BY <1>0, <1>1, <1>3 DEF LedgerLinked, Registered
    <3>2. \A g \in ready \union blocked : g \in Goals /\ state'[g] # "absent"
      BY <1>1, <1>2
    <3> QED
      BY <1>4, <3>1, <3>2 DEF Registered
  <2>2. \A x, y \in gaps' : x.goal = y.goal => x = y
    <3> SUFFICES ASSUME NEW x \in gaps', NEW y \in gaps', x.goal = y.goal PROVE x = y
      OBVIOUS
    <3>1. CASE x \in gaps
      <4>1. y \in gaps
        BY <1>3, <1>4, <3>1
      <4> QED
        BY <1>0, <3>1, <4>1 DEF LedgerLinked
    <3>2. CASE x \notin gaps
      <4>1. y \notin gaps
        BY <1>3, <1>4, <3>2
      <4> QED
        BY <1>2, <1>4, <3>2, <4>1
    <3> QED
      BY <3>1, <3>2
  <2>3. \A g \in Goals : state'[g] \in {"gap", "contradicted", "blocked"} =>
          \E x \in GapsOf(g)' : x.kind = gapRef'[g]
    <3> SUFFICES ASSUME NEW g \in Goals, state'[g] \in {"gap", "contradicted", "blocked"}
                 PROVE  \E x \in gaps' : x.goal = g /\ x.kind = gapRef'[g]
      BY DEF GapsOf
    <3>1. CASE g \in ready
      BY <1>1, <1>2, <3>1, SimpleGapTypes
    <3>2. CASE g \in blocked
      BY <1>1, <1>2, <3>2, SimpleGapTypes
    <3>3. CASE g \notin ready \union blocked
      <4>1. state'[g] = state[g] /\ gapRef'[g] = gapRef[g]
        BY <1>1, <3>3
      <4> QED
        BY <1>0, <1>1, <4>1 DEF LedgerLinked, GapsOf
    <3> QED
      BY <3>1, <3>2, <3>3
  <2>4. \A g \in Goals : state'[g] = "supported" => GapsOf(g)' = {}
    <3> SUFFICES ASSUME NEW g \in Goals, state'[g] = "supported", NEW x \in gaps', x.goal = g
                 PROVE  FALSE
      BY DEF GapsOf
    <3>1. g \notin ready \union blocked /\ state[g] = "supported"
      BY <1>1
    <3> QED
      BY <1>0, <1>4, <3>1 DEF LedgerLinked, GapsOf
  <2> QED
    BY <2>1, <2>2, <2>3, <2>4 DEF LedgerLinked
<1>9. RepairableGapsAreLinked' /\ OneRepairRound'
  <2>1. \A x \in gaps : x.repairable =>
           state'[x.goal] = "gap" /\ gapRef'[x.goal] = x.kind /\ ~repaired
    BY <1>1, <1>3 DEF IInv, RepairableGapsAreLinked, OneRepairRound
  <2>2. \A g \in ready : state'[g] = "gap" /\ gapRef'[g] = "uncovered"
    BY <1>1, <1>2
  <2>3. \A x \in gaps' : x.repairable =>
           state'[x.goal] = "gap" /\ gapRef'[x.goal] = x.kind /\ ~repaired
    BY <1>0, <1>4, <2>1, <2>2
  <2> QED
    BY <1>0, <2>3 DEF RepairableGapsAreLinked, OneRepairRound
<1> QED
  BY <1>0, <1>5, <1>6, <1>7, <1>8, <1>9 DEF IInv, PositiveIsEarned

\* Gaps rewritten one by one, each for the goal it was for, stay linked as long
\* as every goal held in a gap stays where it was.
LEMMA RewrittenGapsAreLinked ==
  ASSUME TypeOK, LedgerLinked, phase # "done",
         NEW f, gaps' = {f[x] : x \in gaps},
         \A x \in gaps : f[x].goal = x.goal /\ f[x].kind = x.kind,
         \A g \in Goals : state[g] # "absent" => state'[g] # "absent",
         \A g \in Goals : state'[g] \in {"gap", "contradicted", "blocked"} =>
           state'[g] = state[g] /\ gapRef'[g] = gapRef[g],
         \A g \in Goals : state'[g] = "supported" => state[g] = "supported"
  PROVE  LedgerLinked'
<1>1. \A x \in gaps' : x.goal \in Registered'
  BY DEF LedgerLinked, Registered
<1>2. \A x, y \in gaps' : x.goal = y.goal => x = y
  <2> SUFFICES ASSUME NEW x \in gaps, NEW y \in gaps, f[x].goal = f[y].goal PROVE f[x] = f[y]
    OBVIOUS
  <2>1. x.goal = y.goal
    OBVIOUS
  <2>2. x = y
    BY <2>1 DEF LedgerLinked
  <2> QED
    BY <2>2
<1>3. ASSUME NEW g \in Goals, state'[g] \in {"gap", "contradicted", "blocked"}
      PROVE  \E x \in gaps' : x.goal = g /\ x.kind = gapRef'[g]
  <2>1. PICK x \in gaps : x.goal = g /\ x.kind = gapRef[g]
    BY <1>3 DEF LedgerLinked, GapsOf
  <2>2. f[x] \in gaps' /\ f[x].goal = g /\ f[x].kind = gapRef'[g]
    BY <1>3, <2>1
  <2> QED
    BY <2>2
<1>4. ASSUME NEW g \in Goals, state'[g] = "supported", NEW x \in gaps', x.goal = g
      PROVE  FALSE
  <2>1. PICK y \in gaps : x = f[y]
    OBVIOUS
  <2>2. y.goal = g /\ state[g] = "supported"
    BY <1>4, <2>1
  <2> QED
    BY <2>2 DEF LedgerLinked, GapsOf
<1> QED
  BY <1>1, <1>2, <1>3, <1>4 DEF LedgerLinked, GapsOf

\* A cut observation can take a gap out of reach of the repair round, no more.
LEMMA ApplyLimitsInv == IInv /\ ApplyLimits => IInv'
<1> SUFFICES ASSUME IInv, ApplyLimits PROVE IInv'
  OBVIOUS
<1>0. /\ phase = "limits" /\ phase' \in {"repair", "project"} /\ TypeOK /\ LedgerLinked
      /\ phase' = IF passes = 1 THEN "repair" ELSE "project"
      /\ handoff = "none" /\ fault = "none"
      /\ UNCHANGED <<passes, state, gapRef, claimRefs, claims, verdicts, dropped, uncovered,
                     acted, repaired, aborted, fault, handoff>>
      /\ (passes = 1 /\ ~repaired) \/ (passes = 2 /\ repaired)
  BY DEF ApplyLimits, IInv, PassOrder, pass
<1>1. PICK cut \in SUBSET Attributable :
        /\ gaps' = {IF x.goal \in cut THEN Limited(x) ELSE x : x \in gaps}
        /\ limited' = limited \union cut
  BY DEF ApplyLimits
<1> DEFINE f == [x \in gaps |-> IF x.goal \in cut THEN Limited(x) ELSE x]
<1>2. gaps' = {f[x] : x \in gaps}
  BY <1>1
<1>3. \A x \in gaps :
        /\ f[x] \in Gap /\ f[x].goal = x.goal /\ f[x].kind = x.kind
        /\ f[x].repairable => x.repairable
  <2> TAKE x \in gaps
  <2>1. x \in Gap
    BY <1>0 DEF TypeOK
  <2>2. CASE x.goal \in cut
    BY <2>1, <2>2, ChangedGapTypes
  <2>3. CASE x.goal \notin cut
    BY <2>1, <2>3
  <2> QED
    BY <2>2, <2>3
<1> HIDE DEF f
<1>4. TypeOK'
  <2>1. gaps' \subseteq Gap
    BY <1>2, <1>3
  <2>2. limited' \subseteq Goals
    BY <1>0, <1>1 DEF TypeOK, Attributable
  <2> QED
    BY <1>0, <2>1, <2>2 DEF TypeOK, Phases
<1>5. PassOrder' /\ LateIdsAreFresh'
  BY <1>0 DEF PassOrder, LateIdsAreFresh, IInv
<1>6. LedgerLinked'
  <2>1. \A x \in gaps : f[x].goal = x.goal /\ f[x].kind = x.kind
    BY <1>3
  <2>2. phase # "done" /\ state' = state /\ gapRef' = gapRef
    BY <1>0
  <2> QED
    BY <1>0, <1>2, <2>1, <2>2, RewrittenGapsAreLinked
<1>7. RepairableGapsAreLinked' /\ OneRepairRound'
  <2>1. \A y \in gaps' : \E x \in gaps :
          x.goal = y.goal /\ x.kind = y.kind /\ (y.repairable => x.repairable)
    BY <1>2, <1>3
  <2> QED
    BY <1>0, <2>1 DEF RepairableGapsAreLinked, OneRepairRound, IInv
<1> QED
  BY <1>0, <1>4, <1>5, <1>6, <1>7 DEF IInv, PositiveIsEarned

\* The checks of applyEvidenceRepairRound hold, and it leaves nothing repairable.
LEMMA RepairRoundInv == IInv /\ RepairRound => IInv'
<1> SUFFICES ASSUME IInv, RepairRound PROVE IInv'
  OBVIOUS
<1>0. /\ phase = "repair" /\ TypeOK /\ LedgerLinked /\ handoff = "none" /\ fault = "none"
      /\ passes = 1 /\ repaired' = TRUE
      /\ UNCHANGED <<passes, claimRefs, claims, verdicts, dropped, uncovered, aborted>>
  BY DEF RepairRound, IInv, PassOrder, pass
<1>1. RepairContract
  BY DEF RepairContract, IInv, LedgerLinked, RepairableGapsAreLinked
<1>a. PICK fresh \in BOOLEAN : \E act \in BOOLEAN :
            /\ gaps' = {Spent(x, IF acted \/ act THEN RepairGoals ELSE {}) : x \in gaps}
            /\ state' = [g \in Goals |->
                           IF fresh /\ g \in Reopenable /\ state[g] = "gap"
                           THEN "exploring" ELSE state[g]]
            /\ gapRef' = [g \in Goals |->
                           IF fresh /\ g \in Reopenable /\ state[g] = "gap"
                           THEN "none" ELSE gapRef[g]]
            /\ acted' = (acted \/ act)
            /\ phase' = IF fresh THEN "synthesis" ELSE "project"
            /\ UNCHANGED <<fault, handoff>>
  BY <1>1 DEF RepairRound
<1>2. PICK act \in BOOLEAN :
            /\ gaps' = {Spent(x, IF acted \/ act THEN RepairGoals ELSE {}) : x \in gaps}
            /\ state' = [g \in Goals |->
                           IF fresh /\ g \in Reopenable /\ state[g] = "gap"
                           THEN "exploring" ELSE state[g]]
            /\ gapRef' = [g \in Goals |->
                           IF fresh /\ g \in Reopenable /\ state[g] = "gap"
                           THEN "none" ELSE gapRef[g]]
            /\ acted' = (acted \/ act)
            /\ phase' = IF fresh THEN "synthesis" ELSE "project"
            /\ UNCHANGED <<fault, handoff>>
  BY <1>a
<1> DEFINE tried == IF acted \/ act THEN RepairGoals ELSE {}
           f == [x \in gaps |-> Spent(x, tried)]
<1>3. gaps' = {f[x] : x \in gaps}
  BY <1>2
<1>4. \A x \in gaps :
        /\ f[x] \in Gap /\ f[x].goal = x.goal /\ f[x].kind = x.kind
        /\ ~f[x].repairable
  BY <1>0, ChangedGapTypes DEF TypeOK
<1> HIDE DEF f
<1>5. TypeOK'
  <2>1. state' \in [Goals -> States] /\ gapRef' \in [Goals -> GapKinds \union {"none"}]
    BY <1>0, <1>2 DEF TypeOK, States
  <2>2. gaps' \subseteq Gap
    BY <1>3, <1>4
  <2>3. limited' \subseteq Goals
    BY <1>0, LengthLimitType DEF RepairRound, RepairGoals, RepairCandidates
  <2>4. acted' \in BOOLEAN /\ phase' \in Phases /\ repaired' \in BOOLEAN
    BY <1>0, <1>2 DEF Phases, TypeOK
  <2> QED
    BY <1>0, <1>2, <2>1, <2>2, <2>3, <2>4 DEF TypeOK
<1>6. PassOrder'
  BY <1>0, <1>2 DEF PassOrder
<1>7. LateIdsAreFresh'
  <2>1. \A g \in Goals : state[g] = "absent" => state'[g] = "absent"
    BY <1>2
  <2> QED
    BY <1>0, <1>2, <2>1 DEF LateIdsAreFresh, IInv, Goals
<1>8. LedgerLinked'
  <2>1. /\ \A g \in Goals : state[g] # "absent" => state'[g] # "absent"
        /\ \A g \in Goals : state'[g] \in {"gap", "contradicted", "blocked"} =>
             state'[g] = state[g] /\ gapRef'[g] = gapRef[g]
        /\ \A g \in Goals : state'[g] = "supported" => state[g] = "supported"
    BY <1>2
  <2> QED
    BY <1>0, <1>3, <1>4, <2>1, RewrittenGapsAreLinked
<1>9. RepairableGapsAreLinked' /\ OneRepairRound'
  BY <1>0, <1>2, <1>3, <1>4 DEF RepairableGapsAreLinked, OneRepairRound, IInv
<1> QED
  BY <1>0, <1>2, <1>5, <1>6, <1>7, <1>8, <1>9 DEF IInv, PositiveIsEarned

\* The only step that answers; the projection may still add gaps.
LEMMA CommitInv == IInv /\ Commit => IInv'
<1> SUFFICES ASSUME IInv, Commit PROVE IInv'
  OBVIOUS
<1> DEFINE supported == {g \in Registered : state[g] = "supported"}
           unprojected(lost) == lost \union (supported \intersect limited)
           bare(lost) == {h \in unprojected(lost) : GapsOf(h) = {}}
<1>0. /\ phase = "project" /\ phase' = "done" /\ TypeOK /\ LedgerLinked
      /\ handoff = "none" /\ fault = "none" /\ supported \subseteq Goals
      /\ UNCHANGED <<passes, state, gapRef, claimRefs, claims, verdicts, dropped, uncovered,
                     limited, acted, repaired, aborted, fault>>
  BY DEF Commit, IInv, pass, Registered
<1>1. PICK lost \in SUBSET supported, targets \in BOOLEAN :
        /\ handoff' = HandoffState(unprojected(lost), targets)
        /\ gaps' = gaps \union {ProjectionGap(g) : g \in bare(lost)}
  BY DEF Commit
<1>2. bare(lost) \subseteq Registered /\ bare(lost) \subseteq Goals
      /\ (\A g \in bare(lost) : GapsOf(g) = {} /\ state[g] = "supported")
  BY <1>0, <1>1
<1>3. handoff' \in Normal
  BY <1>1 DEF HandoffState, TrustState, Normal
<1>4. \A x \in gaps' :
        \/ x \in gaps /\ x.goal \notin bare(lost)
        \/ x \in Gap /\ x.goal \in bare(lost) /\ x = ProjectionGap(x.goal) /\ ~x.repairable
  <2> TAKE x \in gaps'
  <2>1. CASE x \in gaps
    BY <1>2, <2>1 DEF GapsOf
  <2>2. CASE \E g \in bare(lost) : x = ProjectionGap(g)
    BY <1>2, <2>2, SimpleGapTypes
  <2> QED
    BY <1>1, <2>1, <2>2
<1>5. TypeOK'
  <2>1. gaps' \subseteq Gap
    BY <1>0, <1>4 DEF TypeOK
  <2> QED
    BY <1>0, <1>3, <2>1 DEF TypeOK, Phases
<1>6. PassOrder' /\ LateIdsAreFresh'
  BY <1>0 DEF PassOrder, LateIdsAreFresh, IInv
<1>7. LedgerLinked'
  <2>1. \A x \in gaps' : x.goal \in Registered'
    BY <1>0, <1>2, <1>4 DEF LedgerLinked, Registered
  <2>2. \A x, y \in gaps' : x.goal = y.goal => x = y
    BY <1>0, <1>4 DEF LedgerLinked
  <2>3. \A g \in Goals : state'[g] \in {"gap", "contradicted", "blocked"} =>
          \E x \in GapsOf(g)' : x.kind = gapRef'[g]
    BY <1>0, <1>1 DEF LedgerLinked, GapsOf
  <2> QED
    BY <1>0, <2>1, <2>2, <2>3 DEF LedgerLinked
<1>8. RepairableGapsAreLinked' /\ OneRepairRound'
  BY <1>0, <1>4 DEF RepairableGapsAreLinked, OneRepairRound, IInv
<1>9. PositiveIsEarned'
  <2> SUFFICES ASSUME handoff' \in {"complete", "verify_targets"}
               PROVE  /\ passes' > 0 /\ fault' = "none"
                      /\ \A g \in Registered' : state'[g] = "supported" /\ GapsOf(g)' = {}
                                                /\ g \notin limited'
    BY DEF PositiveIsEarned
  <2>1. /\ \A g \in Registered : state[g] = "supported"
        /\ unprojected(lost) = {} /\ limited = {} /\ passes # 0
    BY <1>1 DEF HandoffState
  <2>2. gaps' = gaps /\ Registered' = Registered
    BY <1>0, <1>1, <2>1 DEF Registered
  <2>3. \A g \in Registered : g \in Goals /\ GapsOf(g) = {}
    BY <1>0, <2>1 DEF LedgerLinked, Registered
  <2>4. passes' > 0
    BY <1>0, <2>1 DEF TypeOK
  <2> QED
    BY <1>0, <2>1, <2>2, <2>3, <2>4 DEF GapsOf
<1> QED
  BY <1>0, <1>5, <1>6, <1>7, <1>8, <1>9 DEF IInv

\* The induction step: one case per action of Next, and stuttering.
LEMMA NextInv == IInv /\ [Next]_vars => IInv'
<1> SUFFICES ASSUME IInv, [Next]_vars PROVE IInv'
  OBVIOUS
<1>1. CASE Step
  BY <1>1, AuditPlanInv, ExploreInv, SynthesizeInv, ReduceInv, AuditLateGoalsInv, ApplyLimitsInv,
     RepairRoundInv, SkipRepairInv, CommitInv, ServiceFailsInv DEF Step
<1>2. CASE Abort
  BY <1>2, AbortInv
<1>3. CASE UNCHANGED vars
  <2> USE <1>3 DEF vars
  <2>1. TypeOK' /\ PassOrder' /\ LateIdsAreFresh'
    BY DEF IInv, TypeOK, PassOrder, LateIdsAreFresh
  <2>2. LedgerLinked' /\ RepairableGapsAreLinked'
    BY DEF IInv, LedgerLinked, RepairableGapsAreLinked, Registered, GapsOf
  <2>3. OneRepairRound' /\ PositiveIsEarned'
    BY DEF IInv, OneRepairRound, PositiveIsEarned, Registered, GapsOf
  <2> QED
    BY <2>1, <2>2, <2>3 DEF IInv
<1> QED
  BY <1>1, <1>2, <1>3 DEF Next

\* The inductive invariant holds in every reachable state.
THEOREM Invariance == Spec => []IInv
<1>1. Init => IInv
  BY InitInv
<1>2. IInv /\ [Next]_vars => IInv'
  BY NextInv
<1> QED
  BY <1>1, <1>2, PTL DEF Spec

\* Every variable keeps its type.
THEOREM TypeCorrect == Spec => []TypeOK
<1>1. IInv => TypeOK
  BY DEF IInv
<1> QED
  BY <1>1, Invariance, PTL

\* Goals and coverage gaps, written by five handlers, agree in every state.
THEOREM GoalsAndGapsAgree == Spec => []LedgerLinked
<1>1. IInv => LedgerLinked
  BY DEF IInv
<1> QED
  BY <1>1, Invariance, PTL

\* applyEvidenceRepairRound never throws: what it checks always holds.
THEOREM RepairNeverThrows == Spec => []RepairableGapsAreLinked
<1>1. IInv => RepairableGapsAreLinked
  BY DEF IInv
<1> QED
  BY <1>1, Invariance, PTL

\* There is one repair round, and nothing is repairable after it.
THEOREM RepairIsSpentOnce == Spec => []OneRepairRound
<1>1. IInv => OneRepairRound
  BY DEF IInv
<1> QED
  BY <1>1, Invariance, PTL

\* A positive handoff means that every registered goal is supported, gap-free and
\* untouched by a safety limit.
THEOREM PositiveHandoffIsEarned == Spec => []PositiveIsEarned
<1>1. IInv => PositiveIsEarned
  BY DEF IInv
<1> QED
  BY <1>1, Invariance, PTL
-----------------------------------------------------------------------------
(* A supported goal is backed by the verdicts of the last pass, a goal     *)
(* that waited in a gap is closed only by fresh evidence, and the run      *)
(* implements ExploreContract.  All three rest on BackedInv, which is      *)
(* inductive relative to IInv, and so does the part after it, what the     *)
(* answer of a run says.                                                   *)

\* Steps that leave goals, claim references, verdicts and gaps alone, or end the
\* run, keep every supported goal backed.
LEMMA QuietBacked ==
  ASSUME BackedInv, phase # "done",
         state' = state, claimRefs' = claimRefs, verdicts' = verdicts, passes' = passes,
         \/ phase' = "done"
         \/ gaps' = gaps /\ (phase' = phase \/ (phase # "plan" /\ phase' # "plan"))
  PROVE  BackedInv'
<1>1. SupportIsBacked' /\ (\A g \in Goals : state'[g] = "supported" => g \in claimRefs')
  BY DEF BackedInv, SupportIsBacked
<1>2. Registered' = Registered
  BY DEF Registered
<1>3. passes' = 0 /\ phase' # "done" => \A x \in gaps' : state'[x.goal] = "blocked"
  BY DEF BackedInv
<1>4. /\ phase' = "plan" => Registered' = {}
      /\ phase' \notin {"plan", "done"} => Registered' # {}
  BY <1>2 DEF BackedInv
<1> QED
  BY <1>1, <1>3, <1>4 DEF BackedInv

\* Nothing is supported before the plan is audited.
LEMMA InitBacked == Init => BackedInv
  BY DEF Init, BackedInv, SupportIsBacked, Registered

\* The planning audit supports nothing and leaves gaps on blocked goals only.
LEMMA AuditPlanBacked == IInv /\ BackedInv /\ AuditPlan => BackedInv'
<1> SUFFICES ASSUME IInv, BackedInv, AuditPlan PROVE BackedInv'
  OBVIOUS
<1>1. PICK planned \in (SUBSET PlanGoals) \ {{}} : \E blocked \in SUBSET planned :
         /\ state' = [g \in Goals |-> IF g \in blocked THEN "blocked"
                                      ELSE IF g \in planned THEN "exploring" ELSE "absent"]
         /\ gaps' = {BlockedGap(g) : g \in blocked}
         /\ phase' = IF blocked = planned THEN "project" ELSE "explore"
  BY DEF AuditPlan
<1>2. PICK blocked \in SUBSET planned :
         /\ state' = [g \in Goals |-> IF g \in blocked THEN "blocked"
                                      ELSE IF g \in planned THEN "exploring" ELSE "absent"]
         /\ gaps' = {BlockedGap(g) : g \in blocked}
         /\ phase' = IF blocked = planned THEN "project" ELSE "explore"
  BY <1>1
<1>3. \A g \in Goals : state'[g] # "supported"
  BY <1>2
<1>4. \A x \in gaps' : state'[x.goal] = "blocked"
  <2>1. \A g \in blocked : g \in Goals /\ BlockedGap(g).goal = g
    BY <1>2, SimpleGapTypes DEF Goals
  <2> QED
    BY <1>2, <2>1
<1>5. Registered' # {}
  <2>1. PICK g \in planned : TRUE
    BY <1>1
  <2>2. g \in Goals /\ state'[g] # "absent"
    BY <1>1, <1>2, <2>1 DEF Goals
  <2> QED
    BY <2>2 DEF Registered
<1>6. phase' \in {"project", "explore"}
  BY <1>2
<1> QED
  BY <1>3, <1>4, <1>5, <1>6 DEF BackedInv, SupportIsBacked

\* A reduction supports a goal only on its own verdicts, and judges again every
\* goal it had supported.
LEMMA ReducedSupport ==
  ASSUME BackedInv, NEW cs \in SUBSET Goals, NEW v, NEW g \in Goals,
         ReductionContract(cs), ReducedState(cs, v, g) = "supported"
  PROVE  g \in Candidates(cs) /\ g \in cs /\ SupportedBy(g, v[g])
<1>1. g \notin Unclaimed(cs)
  BY DEF ReducedState
<1>2. CASE g \in Candidates(cs)
  BY <1>1, <1>2, ReducedCases DEF Candidates
<1>3. CASE g \notin Candidates(cs)
  <2>1. state[g] = "supported"
    BY <1>1, <1>3, ReducedCases
  <2>2. g \in cs
    BY <2>1 DEF BackedInv, ReductionContract
  <2> QED
    BY <1>3, <2>1, <2>2 DEF Candidates
<1> QED
  BY <1>2, <1>3

\* The reduction supports exactly what the verdicts it records resolve.
LEMMA ReduceBacked == IInv /\ BackedInv /\ Reduce => BackedInv'
<1> SUFFICES ASSUME IInv, BackedInv, Reduce PROVE BackedInv'
  OBVIOUS
<1>0. phase = "reduce" /\ claims \in SUBSET Goals /\ passes \in 0..2
  BY DEF Reduce, IInv, TypeOK
<1>1. CASE ~ReductionContract(claims)
  <2>1. phase' = "done" /\ UNCHANGED <<passes, ledger, verdicts, uncovered>>
    BY <1>1 DEF Reduce, Fail
  <2> QED
    BY <1>0, <2>1, QuietBacked DEF ledger
<1>2. CASE ReductionContract(claims)
  <2>1. PICK v : /\ state' = [g \in Goals |-> ReducedState(claims, v, g)]
                 /\ claimRefs' = claimRefs \union claims
                 /\ verdicts' = v
                 /\ passes' = passes + 1
                 /\ phase' = "late"
    BY <1>2 DEF Reduce
  <2>2. ASSUME NEW g \in Goals, state'[g] = "supported"
        PROVE  g \in claimRefs' /\ Resolves(g, verdicts'[g])
    <3>1. ReducedState(claims, v, g) = "supported"
      BY <2>1, <2>2
    <3> QED
      BY <1>0, <1>2, <2>1, <3>1, ReducedSupport DEF SupportedBy
  <2>3. Registered' = Registered
    <3>1. \A g \in Goals : state'[g] = "absent" <=> state[g] = "absent"
      BY <1>0, <2>1, ReducedCases
    <3> QED
      BY <3>1 DEF Registered
  <2> QED
    BY <1>0, <2>1, <2>2, <2>3 DEF BackedInv, SupportIsBacked
<1> QED
  BY <1>1, <1>2

\* A late goal enters as a gap or blocked, never as supported.
LEMMA AuditLateGoalsBacked == IInv /\ BackedInv /\ AuditLateGoals => BackedInv'
<1> SUFFICES ASSUME IInv, BackedInv, AuditLateGoals PROVE BackedInv'
  OBVIOUS
<1>1. PICK ready \in SUBSET uncovered : \E blocked \in SUBSET (uncovered \ ready) :
         state' = [g \in Goals |-> IF g \in ready THEN "gap"
                                   ELSE IF g \in blocked THEN "blocked" ELSE state[g]]
  BY DEF AuditLateGoals
<1>2. \A g \in Goals : /\ state'[g] = "supported" => state[g] = "supported"
                       /\ state[g] # "absent" => state'[g] # "absent"
  BY <1>1
<1>3. /\ phase = "late" /\ phase' = "limits" /\ passes' = passes /\ passes \in {1, 2}
      /\ UNCHANGED <<claimRefs, verdicts>>
  BY DEF AuditLateGoals, IInv, PassOrder
<1>4. Registered' # {}
  BY <1>2, <1>3 DEF BackedInv, Registered
<1> QED
  BY <1>2, <1>3, <1>4 DEF BackedInv, SupportIsBacked

\* The repair round reopens goals waiting in a gap, never a supported one.
LEMMA RepairRoundBacked == IInv /\ BackedInv /\ RepairRound => BackedInv'
<1> SUFFICES ASSUME IInv, BackedInv, RepairRound PROVE BackedInv'
  OBVIOUS
<1>0. /\ phase = "repair" /\ passes' = passes /\ passes = 1 /\ UNCHANGED <<claimRefs, verdicts>>
  BY DEF RepairRound, IInv, PassOrder, pass
<1>1. RepairContract
  BY DEF RepairContract, IInv, LedgerLinked, RepairableGapsAreLinked
<1>2. PICK fresh \in BOOLEAN :
         /\ state' = [g \in Goals |->
                        IF fresh /\ g \in Reopenable /\ state[g] = "gap"
                        THEN "exploring" ELSE state[g]]
         /\ phase' = IF fresh THEN "synthesis" ELSE "project"
  BY <1>1 DEF RepairRound
<1>3. \A g \in Goals : /\ state'[g] = "supported" => state[g] = "supported"
                       /\ state[g] # "absent" => state'[g] # "absent"
  BY <1>2
<1>4. Registered' # {}
  BY <1>0, <1>3 DEF BackedInv, Registered
<1> QED
  BY <1>0, <1>2, <1>3, <1>4 DEF BackedInv, SupportIsBacked

\* The remaining actions keep states, verdicts and claimRefs, and before the
\* first pass the gaps too.
LEMMA OthersBacked ==
  /\ IInv /\ BackedInv
  /\ \/ Explore \/ Synthesize \/ ApplyLimits \/ SkipRepair \/ Commit
     \/ ServiceFails \/ AssemblyFails \/ Abort
  => BackedInv'
<1> SUFFICES ASSUME IInv, BackedInv,
                    \/ Explore \/ Synthesize \/ ApplyLimits \/ SkipRepair \/ Commit
                    \/ ServiceFails \/ AssemblyFails \/ Abort
             PROVE  BackedInv'
  OBVIOUS
<1> USE DEF ledger, pass
<1>1. CASE Explore
  BY <1>1, QuietBacked DEF Explore, Fail
<1>2. CASE Synthesize
  BY <1>2, QuietBacked DEF Synthesize
<1>3. CASE ApplyLimits
  <2>1. /\ phase = "limits" /\ phase' \in {"repair", "project"} /\ passes \in {1, 2}
        /\ UNCHANGED <<passes, state, claimRefs, verdicts>>
    BY <1>3 DEF ApplyLimits, IInv, PassOrder
  <2> QED
    BY <2>1 DEF BackedInv, SupportIsBacked, Registered
<1>4. CASE SkipRepair
  BY <1>4, QuietBacked DEF SkipRepair
<1>5. CASE Commit
  <2>1. /\ phase = "project" /\ phase' = "done"
        /\ UNCHANGED <<passes, state, claimRefs, verdicts>>
    BY <1>5 DEF Commit
  <2> QED
    BY <2>1, QuietBacked
<1>6. CASE ServiceFails
  <2>1. /\ phase # "done" /\ phase' = "done"
        /\ UNCHANGED <<passes, state, claimRefs, verdicts>>
    BY <1>6 DEF ServiceFails, ServicePhases, Fail
  <2> QED
    BY <2>1, QuietBacked
<1>7. CASE AssemblyFails
  BY <1>7, QuietBacked DEF AssemblyFails, Fail
<1>8. CASE Abort
  BY <1>8, QuietBacked DEF Abort
<1> QED
  BY <1>1, <1>2, <1>3, <1>4, <1>5, <1>6, <1>7, <1>8

\* The induction step of BackedInv, relative to IInv.
LEMMA NextBacked == IInv /\ BackedInv /\ [Next]_vars => BackedInv'
<1> SUFFICES ASSUME IInv, BackedInv, [Next]_vars PROVE BackedInv'
  OBVIOUS
<1>1. CASE Next
  BY <1>1, AuditPlanBacked, ReduceBacked, AuditLateGoalsBacked, RepairRoundBacked, OthersBacked
     DEF Next, Step
<1>2. CASE UNCHANGED vars
  BY <1>2 DEF vars, BackedInv, SupportIsBacked, Registered
<1> QED
  BY <1>1, <1>2

\* In every run a supported goal is one the last verdicts resolve, with its
\* claims under judgement again in a second pass.
LEMMA Backed == Spec => []BackedInv
<1>1. Init => BackedInv
  BY InitBacked
<1>2. IInv /\ BackedInv /\ [Next]_vars => BackedInv'
  BY NextBacked
<1> QED
  BY <1>1, <1>2, Invariance, PTL DEF Spec

\* A goal is supported only while the verdicts of the last pass support it.
THEOREM SupportStaysBacked == Spec => []SupportIsBacked
<1>1. BackedInv => SupportIsBacked
  BY DEF BackedInv
<1> QED
  BY <1>1, Backed, PTL

\* A goal that waits in a gap becomes supported in a reduction only, and there
\* only on a verdict that cites evidence the repair round added.
LEMMA StepClosesOnFreshEvidence ==
  ASSUME IInv, BackedInv, [Next]_vars, NEW g \in Goals,
         GapsOf(g) # {}, state[g] # "supported", state'[g] = "supported"
  PROVE  FreshlySupported(verdicts'[g])
<1>1. state'[g] # state[g]
  OBVIOUS
<1>2. ~AuditPlan
  <2> SUFFICES ASSUME AuditPlan PROVE FALSE
    OBVIOUS
  <2>1. PICK planned, blocked :
          state' = [h \in Goals |-> IF h \in blocked THEN "blocked"
                                    ELSE IF h \in planned THEN "exploring" ELSE "absent"]
    BY DEF AuditPlan
  <2> QED
    BY <2>1
<1>3. ~AuditLateGoals
  <2> SUFFICES ASSUME AuditLateGoals PROVE FALSE
    OBVIOUS
  <2>1. PICK ready, blocked :
          state' = [h \in Goals |-> IF h \in ready THEN "gap"
                                    ELSE IF h \in blocked THEN "blocked" ELSE state[h]]
    BY DEF AuditLateGoals
  <2> QED
    BY <1>1, <2>1
<1>4. ~RepairRound
  <2> SUFFICES ASSUME RepairRound PROVE FALSE
    OBVIOUS
  <2>1. state' = state \/ \E fresh \in BOOLEAN :
          state' = [h \in Goals |-> IF fresh /\ h \in Reopenable /\ state[h] = "gap"
                                    THEN "exploring" ELSE state[h]]
    BY DEF RepairRound
  <2> QED
    BY <1>1, <2>1
<1>5. ~(\/ Explore \/ Synthesize \/ ApplyLimits \/ SkipRepair \/ Commit
        \/ ServiceFails \/ AssemblyFails \/ Abort \/ UNCHANGED vars)
  BY <1>1 DEF Explore, Synthesize, ApplyLimits, SkipRepair, Commit, ServiceFails, AssemblyFails,
              Abort, vars, ledger
<1>6. Reduce
  BY <1>2, <1>3, <1>4, <1>5 DEF Next, Step
<1>7. ReductionContract(claims)
  BY <1>1, <1>6 DEF Reduce, ledger
<1>8. PICK v : state' = [h \in Goals |-> ReducedState(claims, v, h)] /\ verdicts' = v
  BY <1>6, <1>7 DEF Reduce
<1>9. claims \in SUBSET Goals /\ phase # "done"
  BY <1>6 DEF Reduce, IInv, TypeOK
<1>10. ReducedState(claims, v, g) = "supported"
  BY <1>8
<1>11. g \in Candidates(claims) /\ SupportedBy(g, v[g])
  BY <1>7, <1>9, <1>10, ReducedSupport
<1>12. passes # 0
  <2>1. PICK x \in gaps : x.goal = g
    BY DEF GapsOf
  <2>2. state[g] # "blocked"
    BY <1>11 DEF Candidates
  <2> QED
    BY <1>9, <2>1, <2>2 DEF BackedInv
<1> QED
  BY <1>8, <1>11, <1>12 DEF SupportedBy, HasRequiredFreshSupport

\* The same as a property of the whole run.
THEOREM GapsNeedFreshEvidence == Spec => GapsCloseOnFreshEvidence
<1>1. IInv /\ BackedInv /\ [Next]_vars =>
        [\A g \in Goals : GapsOf(g) # {} /\ state[g] # "supported" /\ state'[g] = "supported" =>
           FreshlySupported(verdicts'[g])]_vars
  BY StepClosesOnFreshEvidence
<1> QED
  BY <1>1, Invariance, Backed, PTL DEF Spec, GapsCloseOnFreshEvidence

\* A throw is GiveUp.
LEMMA FailGivesUp ==
  ASSUME NEW f, Fail(f), handoff = "none", state' = state, passes' = passes
  PROVE  Contract!GiveUp
  BY DEF Contract!GiveUp, Fail, Registered

\* Every step is a step of the contract or leaves what it sees alone.
LEMMA StepImplementsContract ==
  ASSUME IInv, BackedInv, [Next]_vars
  PROVE  [Contract!Next]_(Contract!cvars)
<1> USE DEF Contract!Next, Contract!cvars
<1>1. CASE AuditPlan
  <2>1. PICK planned \in (SUBSET PlanGoals) \ {{}} : \E blocked \in SUBSET planned :
           state' = [g \in Goals |-> IF g \in blocked THEN "blocked"
                                     ELSE IF g \in planned THEN "exploring" ELSE "absent"]
    BY <1>1 DEF AuditPlan
  <2>2. /\ phase = "plan" /\ handoff = "none" /\ handoff' = handoff /\ passes' = passes
        /\ Registered = {}
    BY <1>1 DEF AuditPlan, IInv, BackedInv
  <2>3. \A g \in Goals : state[g] # "supported" /\ state'[g] # "supported"
    BY <2>1, <2>2 DEF Registered
  <2>4. Contract!Require
    BY <2>2, <2>3 DEF Contract!Require, Registered
  <2> QED
    BY <2>4
<1>2. CASE Explore \/ Synthesize \/ ApplyLimits \/ SkipRepair \/ Abort \/ UNCHANGED vars
  <2>1. CASE state' = state /\ passes' = passes /\ handoff' = handoff
    BY <2>1 DEF Registered
  <2>2. CASE Explore /\ ~(handoff' = handoff)
    <3>1. Fail("tool_errors") /\ handoff = "none" /\ state' = state /\ passes' = passes
      BY <2>2 DEF Explore, ledger, IInv
    <3> QED
      BY <3>1, FailGivesUp
  <2> QED
    BY <1>2, <2>1, <2>2 DEF Explore, Synthesize, ApplyLimits, SkipRepair, Abort, vars, ledger
<1>3. CASE Reduce
  <2>0. phase = "reduce" /\ handoff = "none" /\ passes \in {0, 1} /\ claims \in SUBSET Goals
    BY <1>3 DEF Reduce, IInv, TypeOK, PassOrder
  <2>1. CASE ~ReductionContract(claims)
    <3>1. Fail("reduction_contract") /\ state' = state /\ passes' = passes
      BY <1>3, <2>1 DEF Reduce, ledger
    <3> QED
      BY <2>0, <3>1, FailGivesUp
  <2>2. CASE ReductionContract(claims)
    <3>1. PICK v : /\ state' = [g \in Goals |-> ReducedState(claims, v, g)]
                   /\ passes' = passes + 1 /\ handoff' = handoff
      BY <1>3, <2>2 DEF Reduce
    <3>2. \A g \in Goals : state'[g] = "absent" <=> state[g] = "absent"
      BY <2>0, <3>1, ReducedCases
    <3>3. Registered' = Registered
      BY <3>2 DEF Registered
    <3>4. {g \in Goals : state'[g] = "supported"} \subseteq Registered
      BY <3>2 DEF Registered
    <3>5. Contract!Judge
      BY <2>0, <3>1, <3>3, <3>4 DEF Contract!Judge
    <3> QED
      BY <3>5
  <2> QED
    BY <2>1, <2>2
<1>4. CASE AuditLateGoals
  <2>1. PICK ready \in SUBSET uncovered : \E blocked \in SUBSET (uncovered \ ready) :
           state' = [g \in Goals |-> IF g \in ready THEN "gap"
                                     ELSE IF g \in blocked THEN "blocked" ELSE state[g]]
    BY <1>4 DEF AuditLateGoals
  <2>2. /\ handoff = "none" /\ handoff' = handoff /\ passes' = passes
        /\ \A g \in uncovered : state[g] = "absent"
    BY <1>4 DEF AuditLateGoals, IInv, LateIdsAreFresh
  <2>3. \A g \in Goals : /\ state'[g] = "supported" <=> state[g] = "supported"
                         /\ state[g] # "absent" => state'[g] # "absent"
    BY <2>1, <2>2
  <2>4. Contract!Require
    BY <2>2, <2>3 DEF Contract!Require, Registered
  <2> QED
    BY <2>4
<1>5. CASE RepairRound
  <2>1. RepairContract
    BY DEF RepairContract, IInv, LedgerLinked, RepairableGapsAreLinked
  <2>2. PICK fresh \in BOOLEAN :
           /\ state' = [g \in Goals |->
                          IF fresh /\ g \in Reopenable /\ state[g] = "gap"
                          THEN "exploring" ELSE state[g]]
           /\ handoff' = handoff
    BY <1>5, <2>1 DEF RepairRound
  <2>3. passes' = passes
    BY <1>5 DEF RepairRound
  <2>4. \A g \in Goals : /\ state'[g] = "supported" <=> state[g] = "supported"
                         /\ state[g] # "absent" <=> state'[g] # "absent"
    BY <2>2
  <2>5. Registered' = Registered
    BY <2>4 DEF Registered
  <2>6. {g \in Goals : state'[g] = "supported"} = {g \in Goals : state[g] = "supported"}
    BY <2>4
  <2> QED
    BY <2>2, <2>3, <2>5, <2>6
<1>6. CASE Commit
  <2> DEFINE supported == {g \in Registered : state[g] = "supported"}
             unprojected(lost) == lost \union (supported \intersect limited)
  <2>0. PICK lost \in SUBSET supported, targets \in BOOLEAN :
          handoff' = HandoffState(unprojected(lost), targets)
    BY <1>6 DEF Commit
  <2>1. PICK u : handoff' = HandoffState(u, targets)
    BY <2>0
  <2>2. /\ phase = "project" /\ handoff = "none" /\ Registered # {} /\ passes \in Nat
        /\ state' = state /\ passes' = passes
    BY <1>6 DEF Commit, IInv, BackedInv, TypeOK
  <2>3. handoff' \in {"complete", "verify_targets", "incomplete"}
    BY <2>1 DEF HandoffState, TrustState
  <2>4. handoff' # "incomplete" =>
          passes > 0 /\ {g \in Goals : state[g] = "supported"} = Registered
    <3>1. handoff' # "incomplete" => passes # 0 /\ \A g \in Registered : state[g] = "supported"
      BY <2>1 DEF HandoffState
    <3>2. handoff' # "incomplete" => {g \in Goals : state[g] = "supported"} = Registered
      BY <3>1 DEF Registered
    <3> QED
      BY <2>2, <3>1, <3>2
  <2>5. Contract!Answer
    BY <2>2, <2>3, <2>4 DEF Contract!Answer, Registered
  <2> QED
    BY <2>5
<1>7. CASE ServiceFails \/ AssemblyFails
  <2>1. PICK f : Fail(f)
    BY <1>7 DEF ServiceFails, AssemblyFails
  <2>2. handoff = "none" /\ state' = state /\ passes' = passes
    BY <1>7 DEF ServiceFails, AssemblyFails, ServicePhases, IInv, ledger
  <2> QED
    BY <2>1, <2>2, FailGivesUp
<1> QED
  BY <1>1, <1>2, <1>3, <1>4, <1>5, <1>6, <1>7 DEF Next, Step

\* explore() keeps the promises of ExploreContract, however the passes, the
\* repair round, failures and the caller's abort interleave.
THEOREM ImplementsTheContract == Spec => ImplementsContract
<1>1. Init => Contract!Init
  BY DEF Init, Contract!Init, Registered
<1>2. IInv /\ BackedInv /\ [Next]_vars => [Contract!Next]_(Contract!cvars)
  BY StepImplementsContract
<1> QED
  BY <1>1, <1>2, Invariance, Backed, PTL DEF Spec, ImplementsContract, Contract!Spec

-----------------------------------------------------------------------------
(* What the answer says: no goal is left half-way, a cancelled run is      *)
(* reported as aborted, and a gap keeps its record of attempted actions.    *)


\* No registered goal is still exploring.
Judged == \A g \in Goals : state[g] # "exploring"

\* A goal is explored before its reduction only: after it, and until the repair
\* round reopens goals, none is, and the answer comes from such a phase.
JudgedInv ==
  /\ phase \in {"late", "limits", "repair", "project"} => Judged
  /\ handoff \in Normal => Judged

\* A run that fails has no normal handoff.
LEMMA FailJudged == ASSUME NEW f, Fail(f) PROVE JudgedInv'
  BY DEF Fail, JudgedInv, Normal

\* A reduction leaves no goal exploring.
LEMMA ReduceJudged == IInv /\ Reduce => JudgedInv'
<1> SUFFICES ASSUME IInv, Reduce PROVE JudgedInv'
  OBVIOUS
<1>1. CASE ~ReductionContract(claims)
  BY <1>1, FailJudged DEF Reduce
<1>2. CASE ReductionContract(claims)
  <2>1. PICK v : state' = [g \in Goals |-> ReducedState(claims, v, g)]
    BY <1>2 DEF Reduce
  <2>2. ASSUME NEW g \in Goals PROVE ReducedState(claims, v, g) # "exploring"
    BY DEF ReducedState, Candidates, Unclaimed
  <2>3. Judged'
    BY <2>1, <2>2 DEF Judged
  <2> QED
    BY <2>3 DEF JudgedInv
<1> QED
  BY <1>1, <1>2

\* Late goals enter in a gap or blocked.
LEMMA AuditLateGoalsJudged == JudgedInv /\ AuditLateGoals => JudgedInv'
<1> SUFFICES ASSUME JudgedInv, AuditLateGoals PROVE JudgedInv'
  OBVIOUS
<1>1. PICK ready, blocked :
        state' = [g \in Goals |-> IF g \in ready THEN "gap"
                                  ELSE IF g \in blocked THEN "blocked" ELSE state[g]]
  BY DEF AuditLateGoals
<1>2. Judged
  BY DEF AuditLateGoals, JudgedInv
<1>3. Judged'
  BY <1>1, <1>2 DEF Judged
<1> QED
  BY <1>3 DEF JudgedInv

\* A plan whose goals are all blocked goes to the answer at once.
LEMMA AuditPlanJudged == IInv /\ AuditPlan => JudgedInv'
<1> SUFFICES ASSUME IInv, AuditPlan PROVE JudgedInv'
  OBVIOUS
<1>1. PICK planned, blocked :
        /\ state' = [g \in Goals |-> IF g \in blocked THEN "blocked"
                                     ELSE IF g \in planned THEN "exploring" ELSE "absent"]
        /\ phase' = IF blocked = planned THEN "project" ELSE "explore"
  BY DEF AuditPlan
<1>2. phase' # "explore" => Judged'
  BY <1>1 DEF Judged
<1>3. handoff' = "none"
  BY DEF AuditPlan, IInv
<1> QED
  BY <1>1, <1>2, <1>3 DEF JudgedInv, Normal

\* The repair round reopens goals only to judge them again.
LEMMA RepairRoundJudged == IInv /\ JudgedInv /\ RepairRound => JudgedInv'
<1> SUFFICES ASSUME IInv, JudgedInv, RepairRound PROVE JudgedInv'
  OBVIOUS
<1>1. RepairContract
  BY DEF RepairContract, IInv, LedgerLinked, RepairableGapsAreLinked
<1>2. PICK fresh \in BOOLEAN :
         /\ state' = [g \in Goals |->
                        IF fresh /\ g \in Reopenable /\ state[g] = "gap"
                        THEN "exploring" ELSE state[g]]
         /\ phase' = IF fresh THEN "synthesis" ELSE "project"
         /\ handoff' = handoff
  BY <1>1 DEF RepairRound
<1>3. Judged /\ handoff = "none"
  BY DEF RepairRound, JudgedInv, IInv
<1>4. phase' # "synthesis" => Judged'
  BY <1>2, <1>3 DEF Judged
<1> QED
  BY <1>2, <1>3, <1>4 DEF JudgedInv, Normal

\* The other steps leave the states alone, and answer from a judged ledger.
LEMMA OthersJudged ==
  /\ IInv /\ JudgedInv
  /\ \/ Explore \/ Synthesize \/ ApplyLimits \/ SkipRepair \/ Commit
     \/ ServiceFails \/ AssemblyFails \/ Abort \/ UNCHANGED vars
  => JudgedInv'
<1> SUFFICES ASSUME IInv, JudgedInv,
                    \/ Explore \/ Synthesize \/ ApplyLimits \/ SkipRepair \/ Commit
                    \/ ServiceFails \/ AssemblyFails \/ Abort \/ UNCHANGED vars
             PROVE  JudgedInv'
  OBVIOUS
<1>1. ASSUME state' = state,
             \/ phase' = phase
             \/ phase' \in {"synthesis", "reduce"}
             \/ phase \in {"late", "limits", "repair", "project"},
             \/ handoff' = handoff
             \/ phase \in {"late", "limits", "repair", "project"}
      PROVE  JudgedInv'
  BY <1>1 DEF JudgedInv, Judged
<1>2. CASE Explore
  BY <1>1, <1>2, FailJudged DEF Explore, ledger
<1>3. CASE Synthesize \/ ApplyLimits \/ SkipRepair \/ Commit
  BY <1>1, <1>3 DEF Synthesize, ApplyLimits, SkipRepair, Commit, ledger
<1>4. CASE ServiceFails \/ AssemblyFails
  BY <1>4, FailJudged DEF ServiceFails, AssemblyFails
<1>5. CASE Abort \/ UNCHANGED vars
  BY <1>1, <1>5 DEF Abort, vars, ledger
<1> QED
  BY <1>2, <1>3, <1>4, <1>5

\* In every run, whatever its plan, priorities and late goals.
LEMMA JudgedInvariance == Spec => []JudgedInv
<1>1. Init => JudgedInv
  BY DEF Init, JudgedInv, Normal
<1>2. IInv /\ JudgedInv /\ [Next]_vars => JudgedInv'
  BY AuditPlanJudged, ReduceJudged, AuditLateGoalsJudged, RepairRoundJudged, OthersJudged
     DEF Next, Step
<1> QED
  BY <1>1, <1>2, Invariance, PTL DEF Spec

\* No normal handoff leaves a goal half-way: the goals the repair round reopened
\* are judged before the run answers (coverage.mjs:2041).
THEOREM EveryGoalIsJudged == Spec => []NoGoalLeftExploring
<1>1. JudgedInv => NoGoalLeftExploring
  BY DEF JudgedInv, NoGoalLeftExploring, Judged, Registered
<1> QED
  BY <1>1, JudgedInvariance, PTL
-----------------------------------------------------------------------------
\* A handoff is set by the commit point, which a raised signal rules out, or by
\* the catch, which reports the signal.
LEMMA StepReportsAbort ==
  ASSUME [Next]_vars, aborted, handoff = "none", handoff' # "none"
  PROVE  handoff' = "failed" /\ fault' = "aborted"
<1>1. ASSUME NEW f, Fail(f) PROVE handoff' = "failed" /\ fault' = "aborted"
  BY <1>1 DEF Fail, FaultAtCommit
<1>2. ~(AuditPlan \/ Synthesize \/ AuditLateGoals \/ ApplyLimits \/ SkipRepair \/ Commit
        \/ AssemblyFails \/ Abort \/ UNCHANGED vars)
  BY DEF AuditPlan, Synthesize, AuditLateGoals, ApplyLimits, SkipRepair, Commit, AssemblyFails,
         Abort, vars
<1>3. CASE Explore
  BY <1>1, <1>3 DEF Explore
<1>4. CASE Reduce
  BY <1>1, <1>4 DEF Reduce
<1>5. CASE RepairRound
  BY <1>1, <1>5 DEF RepairRound
<1>6. CASE ServiceFails
  BY <1>1, <1>6 DEF ServiceFails
<1> QED
  BY <1>2, <1>3, <1>4, <1>5, <1>6 DEF Next, Step

\* A run cancelled before its commit point is reported as aborted, whatever else
\* goes wrong or right meanwhile (runtime.mjs:12240-12257).
THEOREM CancelledRunsAreAborted == Spec => AbortWins
<1>1. [Next]_vars =>
        [aborted /\ handoff = "none" /\ handoff' # "none" =>
           handoff' = "failed" /\ fault' = "aborted"]_vars
  BY StepReportsAbort
<1> QED
  BY <1>1, PTL DEF Spec, AbortWins
-----------------------------------------------------------------------------
\* A rebuilt gap remembers what was attempted in the one it replaces.
LEMMA SemanticGapRemembers ==
  ASSUME NEW g \in Goals, NEW reason \in GapReasons, NEW b \in BOOLEAN,
         NEW x \in gaps, x.goal = g, x.attempted
  PROVE  SemanticGap(g, reason, b).attempted
<1>1. x \in GapsOf(g)
  BY DEF GapsOf
<1> QED
  BY <1>1 DEF SemanticGap, CoverageGap

\* One step forgets no attempt of a goal that keeps a gap.
LEMMA StepRemembersAttempts ==
  ASSUME IInv, BackedInv, [Next]_vars,
         NEW x \in gaps, x.attempted, NEW y \in gaps', y.goal = x.goal
  PROVE  y.attempted
<1>0. /\ TypeOK /\ x \in Gap /\ x.goal \in Goals /\ state[x.goal] # "absent"
      /\ \A z \in gaps : z.goal = x.goal => z = x
  BY DEF IInv, TypeOK, Gap, LedgerLinked, Registered
<1>1. CASE gaps' = gaps
  BY <1>0, <1>1
<1>2. CASE AuditPlan
  BY <1>0, <1>2 DEF AuditPlan, BackedInv, Registered
<1>3. CASE Reduce /\ gaps' # gaps
  <2>1. ReductionContract(claims)
    BY <1>3 DEF Reduce, ledger
  <2>2. PICK v, shapeless : gaps' = ReducedGaps(claims, v, shapeless)
    BY <1>3, <2>1 DEF Reduce
  <2>3. ASSUME NEW g \in Goals, NEW r \in GapReasons, NEW b \in BOOLEAN, y = SemanticGap(g, r, b)
        PROVE  y.attempted
    <3>1. SemanticGap(g, r, b).goal = g
      BY DEF SemanticGap, CoverageGap
    <3> QED
      BY <2>3, <3>1, SemanticGapRemembers
  <2>4. CASE \E g \in Unclaimed(claims) : y = UnclaimedGap(g)
    BY <2>3, <2>4 DEF UnclaimedGap, Unclaimed, GapReasons
  <2>5. CASE \E g \in Candidates(claims) : y = JudgedGap(g, v[g], shapeless)
    <3>1. PICK g \in Candidates(claims) : y = JudgedGap(g, v[g], shapeless)
      BY <2>5
    <3>2. g \in Goals
      BY <1>0 DEF Candidates, TypeOK
    <3>3. GapReason(v[g]) \in GapReasons
      BY DEF GapReason, GapReasons
    <3> DEFINE b == ~Contradicts(v[g]) /\ g \notin shapeless
    <3>4. b \in BOOLEAN /\ y = SemanticGap(g, GapReason(v[g]), b)
      BY <3>1 DEF JudgedGap
    <3> HIDE DEF b
    <3> QED
      BY <2>3, <3>2, <3>3, <3>4
  <2>6. CASE y \in gaps
    BY <1>0, <2>6
  <2> QED
    BY <2>2, <2>4, <2>5, <2>6 DEF ReducedGaps
<1>4. CASE AuditLateGoals
  <2>1. PICK ready \in SUBSET uncovered, blocked \in SUBSET uncovered :
          gaps' = gaps \union {LateGap(g) : g \in ready} \union {BlockedGap(g) : g \in blocked}
    BY <1>4 DEF AuditLateGoals
  <2>2. \A g \in uncovered : state[g] = "absent" /\ g \in Goals
    BY <1>4 DEF AuditLateGoals, IInv, LateIdsAreFresh, TypeOK
  <2>3. \A g \in uncovered : LateGap(g).goal = g /\ BlockedGap(g).goal = g
    BY <2>2, SimpleGapTypes
  <2>4. y \in gaps
    BY <1>0, <2>1, <2>2, <2>3
  <2> QED
    BY <1>0, <2>4
<1>5. CASE ApplyLimits
  <2>1. PICK cut : gaps' = {IF z.goal \in cut THEN Limited(z) ELSE z : z \in gaps}
    BY <1>5 DEF ApplyLimits
  <2>2. PICK z \in gaps : y = IF z.goal \in cut THEN Limited(z) ELSE z
    BY <2>1
  <2>3. y.goal = z.goal /\ y.attempted = z.attempted
    BY <1>0, <2>2 DEF Limited, TypeOK, Gap
  <2> QED
    BY <1>0, <2>3
<1>6. CASE RepairRound /\ gaps' # gaps
  <2>1. PICK tried : gaps' = {Spent(z, tried) : z \in gaps}
    BY <1>6 DEF RepairRound
  <2>2. PICK z \in gaps : y = Spent(z, tried)
    BY <2>1
  <2>3. y.goal = z.goal /\ (z.attempted => y.attempted)
    BY <1>0, <2>2 DEF Spent, TypeOK, Gap
  <2> QED
    BY <1>0, <2>3
<1>7. CASE Commit
  <2>1. PICK unprojected :
          gaps' = gaps \union {ProjectionGap(g) : g \in {h \in unprojected : GapsOf(h) = {}}}
    BY <1>7 DEF Commit
  <2>2. \A g : ProjectionGap(g).goal = g
    BY DEF ProjectionGap, CoverageGap
  <2>3. x \in GapsOf(x.goal)
    BY DEF GapsOf
  <2>4. y \in gaps
    BY <2>1, <2>2, <2>3
  <2> QED
    BY <1>0, <2>4
<1>8. Explore \/ Synthesize \/ SkipRepair \/ ServiceFails \/ AssemblyFails \/ Abort \/ UNCHANGED vars
        => gaps' = gaps
  BY DEF Explore, Synthesize, SkipRepair, ServiceFails, AssemblyFails, Abort, vars, ledger
<1> QED
  BY <1>1, <1>2, <1>3, <1>4, <1>5, <1>6, <1>7, <1>8 DEF Next, Step

\* While a goal keeps a gap, the gap keeps its record of attempted actions, even
\* when the reduction rebuilds it under another id (coverage.mjs:2017).
THEOREM AttemptsStayKnown == Spec => AttemptsAreRemembered
<1>1. IInv /\ BackedInv /\ [Next]_vars =>
        [\A x \in gaps : x.attempted => \A y \in gaps' : y.goal = x.goal => y.attempted]_vars
  BY StepRemembersAttempts
<1> QED
  BY <1>1, Invariance, Backed, PTL DEF Spec, AttemptsAreRemembered
-----------------------------------------------------------------------------
(* The end.  The repair round is the only way back, and it is taken once;   *)
(* the order of the stages is PassOrder.                                    *)

StagesLeft ==
  CASE phase = "plan" -> 9 [] phase = "explore" -> 8 [] phase = "synthesis" -> 7
    [] phase = "reduce" -> 6 [] phase = "late" -> 5 [] phase = "limits" -> 4
    [] phase = "repair" -> 3 [] phase = "project" -> 2 [] OTHER -> 0

\* The steps a run can still take, at most.
StepsLeft == StagesLeft + (IF repaired THEN 0 ELSE 5) + (IF aborted THEN 0 ELSE 1)

\* No stage of a run is repeated beyond the second pass: every step, of whatever
\* stage and with whatever outcome, leaves fewer steps to take (explore()).
EveryStageComesCloser == [][0 <= StepsLeft' /\ StepsLeft' < StepsLeft]_vars

LEMMA FailEnds == ASSUME NEW f, Fail(f) PROVE phase' = "done"
BY DEF Fail

\* A stage is followed by a later one.
LEMMA StagesAdvance ==
  ASSUME IInv, Step
  PROVE  /\ phase # "done" /\ UNCHANGED aborted
         /\ \/ StagesLeft' < StagesLeft /\ repaired' = repaired
            \/ phase = "repair" /\ phase' \in {"synthesis", "project", "done"}
               /\ ~repaired /\ repaired'
<1>1. CASE AuditPlan
  BY <1>1 DEF AuditPlan, StagesLeft
<1>2. CASE Explore
  BY <1>2, FailEnds DEF Explore, StagesLeft
<1>3. CASE Synthesize
  BY <1>3 DEF Synthesize, StagesLeft
<1>4. CASE Reduce
  BY <1>4, FailEnds DEF Reduce, StagesLeft
<1>5. CASE AuditLateGoals
  BY <1>5 DEF AuditLateGoals, StagesLeft
<1>6. CASE ApplyLimits
  BY <1>6 DEF ApplyLimits, StagesLeft
<1>7. CASE RepairRound
  <2>1. phase = "repair" /\ ~repaired /\ repaired' /\ UNCHANGED aborted
    BY <1>7 DEF RepairRound, IInv, PassOrder
  <2>2. phase' \in {"synthesis", "project", "done"}
    BY <1>7, FailEnds DEF RepairRound
  <2> QED BY <2>1, <2>2
<1>8. CASE SkipRepair
  BY <1>8 DEF SkipRepair, StagesLeft
<1>9. CASE Commit
  BY <1>9 DEF Commit, StagesLeft
<1>10. CASE ServiceFails \/ AssemblyFails
  BY <1>10, FailEnds DEF ServiceFails, AssemblyFails, ServicePhases, StagesLeft
<1> QED
  BY <1>1, <1>2, <1>3, <1>4, <1>5, <1>6, <1>7, <1>8, <1>9, <1>10 DEF Step

\* For any goals, plans, verdicts and repairs a run takes at most 15 steps: what
\* Termination asks for, short of the fairness that makes it take them.
THEOREM RunsAreBounded == Spec => [](StepsLeft \in 0..15) /\ EveryStageComesCloser
<1>1. StepsLeft \in 0..15
  BY DEF StepsLeft, StagesLeft
<1>2. ASSUME IInv, Next PROVE 0 <= StepsLeft' /\ StepsLeft' < StepsLeft
  <2>1. CASE Step
    <3>1. repaired \in BOOLEAN /\ aborted \in BOOLEAN /\ aborted' = aborted
      BY <1>2, <2>1, StagesAdvance DEF IInv, TypeOK
    <3>2. StagesLeft \in 0..9 /\ StagesLeft' \in 0..9
      BY DEF StagesLeft
    <3>3. CASE StagesLeft' < StagesLeft /\ repaired' = repaired
      <4>1. PICK m \in 0..9, n \in 0..9 : StagesLeft = m /\ StagesLeft' = n
        BY <3>2
      <4>2. /\ StepsLeft = m + (IF repaired THEN 0 ELSE 5) + (IF aborted THEN 0 ELSE 1)
            /\ StepsLeft' = n + (IF repaired THEN 0 ELSE 5) + (IF aborted THEN 0 ELSE 1)
        BY <3>1, <3>3, <4>1 DEF StepsLeft
      <4>3. n < m
        BY <3>3, <4>1
      <4> QED BY <4>2, <4>3
    <3>4. CASE phase = "repair" /\ phase' \in {"synthesis", "project", "done"} /\ ~repaired /\ repaired'
      BY <3>1, <3>4 DEF StepsLeft, StagesLeft
    <3> QED BY <1>2, <2>1, <3>3, <3>4, StagesAdvance
  <2>2. CASE Abort
    BY <2>2 DEF Abort, StepsLeft, StagesLeft
  <2> QED BY <1>2, <2>1, <2>2 DEF Next
<1>3. IInv /\ [Next]_vars => [0 <= StepsLeft' /\ StepsLeft' < StepsLeft]_vars
  BY <1>2
<1>4. Spec => [](StepsLeft \in 0..15)
  BY <1>1, PTL
<1>5. Spec => EveryStageComesCloser
  BY <1>3, Invariance, PTL DEF Spec, EveryStageComesCloser
<1> QED BY <1>4, <1>5
=============================================================================
