----------------------------- MODULE HandoffProofs -----------------------------
(***************************************************************************)
(* Handoff for any tasks, claims, observations and number of edits: the    *)
(* source shown was current, the gaps are exact, and the handoff always    *)
(* fits the schema of its state.                                           *)
(***************************************************************************)
EXTENDS Handoff, TLAPS

\* Sources that are observed have a path the user may edit.
LEMMA SourcesAreObserved ==
  ASSUME NEW refs PROVE Sources(refs) \subseteq Sources(DOMAIN Observation)
BY DEF Sources, Kind

LEMMA ObservedHavePaths ==
  ASSUME NEW o \in Sources(DOMAIN Observation) PROVE Observation[o].path \in AllPaths
<1>1. o \in Sources(DOMAIN Observation \intersect DOMAIN Observation)
  BY DEF Sources, Kind
<1> QED BY DEF AllPaths, Paths, Sources, Kind

LEMMA ResultIsObserved == ResultSources \subseteq Sources(DOMAIN Observation)
<1> SUFFICES ASSUME NEW o \in ResultSources PROVE o \in Sources(DOMAIN Observation)
  OBVIOUS
<1>1. PICK c \in task.claims :
        \/ o \in Sources(ResultRefs(c))
        \/ \E ref \in CountSearch(c) : o \in PairedSource(ref)
  BY DEF ResultSources
<1>2. CASE o \in Sources(ResultRefs(c))
  BY <1>2, SourcesAreObserved
<1>3. CASE \E ref \in CountSearch(c) : o \in PairedSource(ref)
  <2>1. PICK ref \in CountSearch(c) : o \in Sources({Observation[ref].beside})
    BY <1>3 DEF PairedSource
  <2> QED BY <2>1, SourcesAreObserved
<1> QED BY <1>1, <1>2, <1>3

\* Source is shown only from what the re-read kept.
LEMMA ShownSourceIsGrounded ==
  ASSUME NEW shown, NEW item \in Evidence(shown), item[1] = "source"
  PROVE  \E o \in grounded : item[2] = Observation[o].path
<1>1. PICK c \in shown : \E ref \in Cover(c) : item \in Items(c, ref)
  BY DEF Evidence, ItemsOf
<1>2. PICK ref \in Cover(c) : item \in Items(c, ref)
  BY <1>1
<1>3. ASSUME item = <<"git", ref>> \/ item = <<"absence", c.goal, ref>> PROVE FALSE
  BY <1>3
<1>4. PICK refs : item \in GroundedItems(refs)
  BY <1>2, <1>3 DEF Items
<1>5. PICK o \in grounded : item = <<"source", Observation[o].path, Observation[o].range>>
  BY <1>4 DEF GroundedItems, SourceItem
<1> QED BY <1>5
-----------------------------------------------------------------------------
(* Grounded source had its verified text after the pass.                    *)

ReadInv ==
  /\ disk \in [AllPaths -> Texts] /\ past \in [AllPaths -> SUBSET Texts]
  /\ \A p \in AllPaths : disk[p] \in past[p]
  /\ todo \subseteq Sources(DOMAIN Observation)
  /\ reading # None => reading.source \in todo
  /\ \A o \in grounded : o \in Sources(DOMAIN Observation) /\ "observed" \in past[Observation[o].path]
  /\ ShownIsCurrent

LEMMA InitRead == Init => ReadInv
<1> SUFFICES ASSUME Init PROVE ReadInv
  OBVIOUS
<1>1. disk \in [AllPaths -> Texts] /\ past = [p \in AllPaths |-> {disk[p]}]
  BY DEF Init
<1>2. todo \subseteq Sources(DOMAIN Observation)
  BY ResultIsObserved DEF Init
<1>3. reading = None /\ grounded = {} /\ handoff = None
  BY DEF Init
<1> QED BY <1>1, <1>2, <1>3 DEF ReadInv, ShownIsCurrent

LEMMA EditRead == ASSUME ReadInv, NEW p \in AllPaths, Edit(p) PROVE ReadInv'
<1>1. PICK text \in Texts \ {disk[p]} :
        /\ disk' = [disk EXCEPT ![p] = text]
        /\ past' = [past EXCEPT ![p] = @ \union {text}]
  BY DEF Edit
<1>2. /\ disk' \in [AllPaths -> Texts] /\ past' \in [AllPaths -> SUBSET Texts]
      /\ \A q \in AllPaths : disk'[q] \in past'[q] /\ past[q] \subseteq past'[q]
  BY <1>1 DEF ReadInv
<1>3. UNCHANGED <<todo, reading, grounded, handoff>> /\ handoff = None
  BY DEF Edit, Running
<1>4. \A o \in grounded' : /\ o \in Sources(DOMAIN Observation)
                           /\ "observed" \in past'[Observation[o].path]
  BY <1>2, <1>3, ObservedHavePaths DEF ReadInv
<1> QED BY <1>2, <1>3, <1>4 DEF ReadInv, ShownIsCurrent

LEMMA SecondReadRead == ReadInv /\ SecondRead => ReadInv'
<1> SUFFICES ASSUME ReadInv, SecondRead PROVE ReadInv'
  OBVIOUS
<1>1. /\ UNCHANGED <<disk, past, handoff>> /\ handoff = None /\ reading' = None
      /\ todo' \subseteq todo
  BY DEF SecondRead, Running
<1>2. \A o \in grounded' \ grounded :
        /\ o \in Sources(DOMAIN Observation)
        /\ disk[Observation[o].path] = "observed"
  BY DEF SecondRead, ReadInv, Kept
<1>3. \A o \in grounded' : /\ o \in Sources(DOMAIN Observation)
                           /\ "observed" \in past'[Observation[o].path]
  BY <1>1, <1>2, ObservedHavePaths DEF ReadInv
<1> QED BY <1>1, <1>3 DEF ReadInv, ShownIsCurrent

\* The step that puts the handoff together.
LEMMA AssembleGives ==
  ASSUME Assemble
  PROVE  \/ handoff' = Projection(AcceptedClaims, Evidence(AcceptedClaims), Unresolved(AcceptedClaims))
         \/ handoff' = Failed
BY DEF Assemble

LEMMA AssembleRead == ReadInv /\ Assemble => ReadInv'
<1> SUFFICES ASSUME ReadInv, Assemble PROVE ReadInv'
  OBVIOUS
<1>1. UNCHANGED <<disk, past, todo, reading, grounded>>
  BY DEF Assemble
<1>2. ASSUME NEW item \in handoff'.evidence, item[1] = "source"
      PROVE  "observed" \in past[item[2]]
  <2>1. handoff'.evidence \subseteq Evidence(AcceptedClaims)
    BY AssembleGives DEF Projection, Failed
  <2>2. PICK o \in grounded : item[2] = Observation[o].path
    BY <1>2, <2>1, ShownSourceIsGrounded
  <2> QED BY <2>2 DEF ReadInv
<1>3. ShownIsCurrent'
  BY <1>1, <1>2 DEF ShownIsCurrent
<1> QED BY <1>1, <1>3 DEF ReadInv

LEMMA NextRead == ReadInv /\ [Next]_vars => ReadInv'
<1> SUFFICES ASSUME ReadInv, [Next]_vars PROVE ReadInv'
  OBVIOUS
<1>1. CASE \E p \in AllPaths : Edit(p)
  BY <1>1, EditRead
<1>2. CASE \E o \in DOMAIN Observation : FirstRead(o)
  BY <1>2 DEF FirstRead, Running, ReadInv, ShownIsCurrent
<1>3. CASE SecondRead
  BY <1>3, SecondReadRead
<1>4. CASE Abort
  BY <1>4 DEF Abort, Running, ReadInv, ShownIsCurrent
<1>5. CASE Assemble
  BY <1>5, AssembleRead
<1>6. CASE UNCHANGED vars
  BY <1>6 DEF vars, ReadInv, ShownIsCurrent
<1> QED BY <1>1, <1>2, <1>3, <1>4, <1>5, <1>6 DEF Next

\* No source is shown whose file did not have the verified text at some moment
\* after verification, however often files change (attachEvidenceMetadata).
THEOREM ShownSourceIsCurrent == Spec => []ShownIsCurrent
<1>1. ReadInv => ShownIsCurrent
  BY DEF ReadInv
<1> QED BY InitRead, NextRead, <1>1, PTL DEF Spec
-----------------------------------------------------------------------------
(* Gaps and shape.                                                          *)

LedgerInv ==
  /\ task \in Tasks
  /\ supported \subseteq GoalIds /\ limited \subseteq GoalIds /\ planGap \in BOOLEAN

\* No goal is called None, so the gaps of a plan can be told from those of goals.
LEMMA GoalsAreNamed == LedgerInv => None \notin GoalIds
BY HandoffAssumption DEF LedgerInv, GoalIds

\* A goal is unresolved unless the claims shown answer it in full.
LEMMA UnresolvedIsExact ==
  ASSUME LedgerInv, NEW shown \in SUBSET task.claims
  PROVE  Unresolved(shown) =
           {goal \in GoalIds : ~ /\ goal \in supported \ limited
                                 /\ SupportedClaims(goal) # {}
                                 /\ Ids(SupportedClaims(goal)) \subseteq Ids(shown)}
<1>1. ASSUME NEW goal
      PROVE  Ids(SupportedClaims(goal)) \subseteq Ids(shown) <=> SupportedClaims(goal) \subseteq shown
  <2>1. SupportedClaims(goal) \subseteq task.claims
    BY DEF SupportedClaims, ClaimsOf
  <2>2. \A c, d \in task.claims : c.id = d.id => c = d
    BY HandoffAssumption DEF LedgerInv
  <2> QED BY <2>1, <2>2 DEF Ids
<1> QED BY <1>1 DEF Unresolved, LedgerInv

LEMMA AcceptedAreClaims == AcceptedClaims \subseteq task.claims
BY DEF AcceptedClaims

LEMMA ProjectionHasState ==
  ASSUME NEW shown, NEW evidence, NEW unresolved
  PROVE  State(shown, evidence, unresolved) \in {"complete", "verify_targets", "incomplete"}
BY DEF State

LEMMA ProjectionGapsAreExact ==
  ASSUME LedgerInv, NEW shown \in SUBSET task.claims, NEW evidence,
         NEW h, h = Projection(shown, evidence, Unresolved(shown))
  PROVE  /\ h.claims = Ids(shown)
         /\ h.gaps \ {None} = Unresolved(shown)
         /\ planGap => None \in h.gaps
<1> DEFINE unresolved == Unresolved(shown)
           state == State(shown, evidence, unresolved)
<1>1. unresolved \subseteq GoalIds
  BY UnresolvedIsExact
<1>2. None \notin unresolved
  BY <1>1, GoalsAreNamed
<1>3. h.claims = Ids(shown) /\ h.gaps = IF state = "incomplete" THEN Gaps(unresolved) ELSE {}
  BY DEF Projection
<1>4. CASE state = "incomplete"
  BY <1>2, <1>3, <1>4 DEF Gaps
<1>5. CASE state # "incomplete"
  <2>1. unresolved = {} /\ ~planGap
    BY <1>5 DEF State
  <2> QED BY <1>3, <1>5, <2>1
<1> QED BY <1>4, <1>5

\* What is put together fits the schema of its state.
LEMMA ProjectionIsValid ==
  ASSUME NEW h,
         h = Projection(AcceptedClaims, Evidence(AcceptedClaims), Unresolved(AcceptedClaims))
  PROVE  Valid(h)
<1> DEFINE shown == AcceptedClaims
           evidence == Evidence(shown)
           unresolved == Unresolved(shown)
           state == State(shown, evidence, unresolved)
<1>1. /\ h.state = state /\ h.claims = Ids(shown) /\ h.evidence = evidence
      /\ h.targets = ShownTargets(state, evidence)
      /\ h.gaps = IF state = "incomplete" THEN Gaps(unresolved) ELSE {}
  BY DEF Projection
<1>2. Ids(shown) = {} <=> shown = {}
  BY DEF Ids
<1>3. shown = {} <=> evidence = {}
  <2>1. \A c \in shown : ItemsOf(c) # {}
    BY DEF AcceptedClaims, Accepted
  <2> QED BY <2>1 DEF Evidence
<1>4. CASE state = "incomplete"
  <2>1. Gaps(unresolved) # {}
    BY DEF Gaps
  <2> QED BY <1>1, <1>2, <1>3, <1>4, <2>1 DEF Valid
<1>5. CASE state = "verify_targets"
  <2>1. shown # {} /\ evidence # {} /\ Targets(evidence) # {}
    BY <1>5 DEF State
  <2> QED BY <1>1, <1>2, <1>5, <2>1 DEF Valid, ShownTargets
<1>6. CASE state = "complete"
  <2>1. shown # {} /\ evidence # {}
    BY <1>6 DEF State
  <2> QED BY <1>1, <1>2, <1>6, <2>1 DEF Valid
<1> QED BY <1>4, <1>5, <1>6, ProjectionHasState

AnswerInv == LedgerInv /\ GapsAreExact /\ AssemblyHolds

LEMMA InitAnswer == Init => AnswerInv
<1> SUFFICES ASSUME Init PROVE AnswerInv
  OBVIOUS
<1>1. task \in Tasks /\ limited \subseteq GoalIds /\ planGap \in BOOLEAN /\ handoff = None
  BY DEF Init
<1>2. Closable(task, verdicts) \subseteq GoalIds
  BY DEF Closable, GoalIds
<1>3. supported \subseteq GoalIds
  BY <1>2 DEF Init
<1> QED BY <1>1, <1>3 DEF AnswerInv, LedgerInv, GapsAreExact, AssemblyHolds

LEMMA AssembleAnswer == AnswerInv /\ Assemble => AnswerInv'
<1> SUFFICES ASSUME AnswerInv, Assemble PROVE AnswerInv'
  OBVIOUS
<1>1. UNCHANGED <<ledger, aborted>>
  BY DEF Assemble
<1>2. LedgerInv' /\ GoalIds' = GoalIds
  BY <1>1 DEF AnswerInv, LedgerInv, ledger, GoalIds
<1>3. \A goal : SupportedClaims(goal)' = SupportedClaims(goal)
  BY <1>1 DEF SupportedClaims, ClaimsOf, Verdict, ledger
<1>4. CASE handoff' = Failed
  <2> DEFINE p == Projection(AcceptedClaims, Evidence(AcceptedClaims), Unresolved(AcceptedClaims))
  <2>3. handoff' = IF ~aborted /\ Valid(p) THEN p ELSE Failed
    BY DEF Assemble
  <2>4. Valid(p)
    BY ProjectionIsValid
  <2>5. p.state # "failed" /\ Failed.state = "failed"
    BY ProjectionHasState DEF Projection, Failed
  <2>1. aborted
    <3> HIDE DEF p
    <3> QED BY <1>4, <2>3, <2>4, <2>5
  <2> QED BY <1>1, <1>2, <1>4, <2>1 DEF AnswerInv, GapsAreExact, AssemblyHolds, Failed
<1>5. CASE handoff' = Projection(AcceptedClaims, Evidence(AcceptedClaims), Unresolved(AcceptedClaims))
  <2>1. /\ handoff'.claims = Ids(AcceptedClaims)
        /\ handoff'.gaps \ {None} = Unresolved(AcceptedClaims)
        /\ planGap => None \in handoff'.gaps
    BY <1>5, AcceptedAreClaims, ProjectionGapsAreExact DEF AnswerInv
  <2>2. handoff'.gaps \ {None} =
          {goal \in GoalIds : ~ /\ goal \in supported \ limited
                                /\ SupportedClaims(goal) # {}
                                /\ Ids(SupportedClaims(goal)) \subseteq handoff'.claims}
    BY <2>1, AcceptedAreClaims, UnresolvedIsExact DEF AnswerInv
  <2>3. GapsAreExact'
    BY <1>1, <1>2, <1>3, <2>1, <2>2 DEF GapsAreExact, ledger
  <2>4. handoff'.state # "failed"
    BY <1>5, ProjectionHasState DEF Projection
  <2> QED BY <1>2, <2>3, <2>4 DEF AnswerInv, AssemblyHolds
<1> QED BY <1>4, <1>5, AssembleGives

LEMMA NextAnswer == AnswerInv /\ [Next]_vars => AnswerInv'
<1> SUFFICES ASSUME AnswerInv, [Next]_vars PROVE AnswerInv'
  OBVIOUS
<1>1. ASSUME \/ \E p \in AllPaths : Edit(p)
             \/ \E o \in DOMAIN Observation : FirstRead(o)
             \/ SecondRead \/ Abort
      PROVE  AnswerInv'
  <2>1. UNCHANGED <<ledger, handoff>> /\ handoff = None
    BY <1>1 DEF Edit, FirstRead, SecondRead, Abort, Running
  <2> QED BY <2>1 DEF AnswerInv, LedgerInv, GoalIds, GapsAreExact, AssemblyHolds, ledger
<1>2. CASE Assemble
  BY <1>2, AssembleAnswer
<1>3. CASE UNCHANGED vars
  BY <1>3 DEF vars, ledger, AnswerInv, LedgerInv, GoalIds, GapsAreExact, AssemblyHolds,
              SupportedClaims, ClaimsOf, Verdict
<1> QED BY <1>1, <1>2, <1>3 DEF Next

\* The gaps of a handoff name exactly the goals that were not answered in full,
\* so a positive state answers the whole request (buildParentHandoffProjection).
THEOREM HandoffGapsAreExact == Spec => []GapsAreExact
<1>1. AnswerInv => GapsAreExact
  BY DEF AnswerInv
<1> QED BY InitAnswer, NextAnswer, <1>1, PTL DEF Spec

\* Whatever the projections and the re-read drop, the handoff fits the schema of
\* its state: only a cancelled run fails here.
THEOREM HandoffIsWellFormed == Spec => []AssemblyHolds
<1>1. AnswerInv => AssemblyHolds
  BY DEF AnswerInv
<1> QED BY InitAnswer, NextAnswer, <1>1, PTL DEF Spec
================================================================================
