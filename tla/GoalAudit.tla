------------------------------ MODULE GoalAudit ------------------------------
(* The pure part of goal planning: what preflight, the validation of an     *)
(* audit reply and of a coverage reply, and the reduction of an audit       *)
(* compute (src/explorer/coverage.mjs and runtime.mjs).                     *)
(*                                                                          *)
(* A goal is its id, its core (question, claim type and proof condition)    *)
(* and the set of its origins: slices of the request and the fixed seeds of *)
(* the wrapper.  Within says which slice lies inside which other one.  The  *)
(* constraints of a goal count as part of its core.                         *)
(*                                                                          *)
(* A wrapper is the tool a request came through: its fixed seeds, whether   *)
(* each of its goals owns its seed alone, and the leaves the request fixes. *)
(* A request to explore_repo that asks to classify every invocation has the *)
(* leaves direct, wrappers and configuration: which cores are of a kind,    *)
(* and the exact slice, from the classifying verb to the end of the kind.   *)
EXTENDS Naturals, Sequences, FiniteSetsExt, SequencesExt

CONSTANTS
  Origins,       \* request slices and wrapper seeds
  Seeds,         \* the fixed seeds of all wrappers among them
  Wrappers,
  Within,        \* pairs of slices: the first is a part of the second
  Cores,
  TypeOf,        \* the claim type of a core
  Circular,      \* cores whose proof condition depends on model confidence
  Uncertifiable, \* cores that ask for a global minimum nothing can certify
  Contents       \* the request parts an auditor may report as uncovered

ASSUME GoalAuditAssumption ==
  /\ Seeds \subseteq Origins
  /\ Within \subseteq (Origins \ Seeds) \X (Origins \ Seeds)
  /\ Circular \union Uncertifiable \subseteq Cores
  /\ Contents \subseteq [core : Cores, origins : (SUBSET Origins) \ {{}}]
  /\ Wrappers \subseteq
       [seeds : SUBSET Seeds, independent : BOOLEAN,
        leaves : SUBSET [cores : SUBSET Cores, origin : Origins \ Seeds]]
  /\ \A w \in Wrappers :
       /\ w.leaves # {} => w.seeds = {} /\ ~w.independent
       /\ \A l, m \in w.leaves : l # m => l.cores \cap m.cores = {}

SameContent(g, h) == g.core = h.core /\ g.origins = h.origins
SameType(g, h) == TypeOf[g.core] = TypeOf[h.core]
Ids(goals) == {g.id : g \in goals}
SeedsOf(g) == g.origins \cap Seeds
AllOrigins(goals) == UNION {g.origins : g \in goals}

\* originDescendsFrom, originSignatureCovers, originSignatureStrictlyExpands
Descends(c, o) == c = o \/ <<c, o>> \in Within
Related(c, o) == Descends(c, o) \/ Descends(o, c)
Covers(outer, inner) == inner # {} /\ \A i \in inner : \E o \in outer : Descends(i, o)
Expands(wider, origins) ==
  /\ wider # origins
  /\ Covers(wider, origins)
  /\ \A c \in wider : \E o \in origins : Related(c, o)
-----------------------------------------------------------------------------
(* Preflight: exact duplicates merge their origins into the first of them,  *)
(* unless they stand for different wrapper seeds.                           *)
Mergeable(g, h) == SeedsOf(g) = {} \/ SeedsOf(h) = {} \/ SeedsOf(g) = SeedsOf(h)

AddCandidate(candidates, g) ==
  LET same == {i \in DOMAIN candidates :
                 candidates[i].core = g.core /\ Mergeable(candidates[i], g)}
  IN IF same = {} THEN Append(candidates, g)
     ELSE [candidates EXCEPT ![Min(same)].origins = @ \union g.origins]

Candidates(goals) ==
  LET upto[n \in 0..Len(goals)] ==
        IF n = 0 THEN << >> ELSE AddCandidate(upto[n - 1], goals[n])
  IN upto[Len(goals)]

\* What a filter that keeps these positions leaves of a sequence.
AtPositions(goals, keep) ==
  LET upto[n \in 0..Len(goals)] ==
        IF n = 0 THEN << >>
        ELSE IF n \in keep THEN Append(upto[n - 1], goals[n]) ELSE upto[n - 1]
  IN upto[Len(goals)]

IdsAreUnique(goals) == \A i, j \in DOMAIN goals : goals[i].id = goals[j].id => i = j

\* isValidOriginRef: a goal or a part names seeds of its own wrapper only.
OriginsAreKnown(goals, wrapper) == AllOrigins(goals) \cap Seeds \subseteq wrapper.seeds

\* requireIndependentFixedWrapperSeedGoals
SeedsAreIndependent(goals, wrapper) ==
  wrapper.independent =>
    /\ \A g \in goals : Cardinality(SeedsOf(g)) <= 1
    /\ \A g, h \in goals : SeedsOf(g) \cap SeedsOf(h) # {} => g.id = h.id

SeedsAreComplete(goals, excused, wrapper) ==
  wrapper.seeds \subseteq AllOrigins(goals) \union excused

\* requireCanonicalInvocationClassificationOrigins: exactly one goal of each
\* kind has the exact slice of that kind.
IsLeaf(g, leaf) == g.core \in leaf.cores /\ g.origins = {leaf.origin}
LeavesAreExact(goals, wrapper) ==
  \A leaf \in wrapper.leaves : \E g \in goals : \A h \in goals : IsLeaf(h, leaf) <=> h = g

\* The candidates the leaves of a proposal became, by id: goals that may share
\* an origin and still be told apart (distinctOriginGoalIds).  A request with
\* leaves has no seeds, so that all goals of one core become one candidate.
LeafIds(goals, wrapper) ==
  LET leaves == {g \in ToSet(goals) : \E leaf \in wrapper.leaves : IsLeaf(g, leaf)}
      became(g) == CHOOSE c \in ToSet(Candidates(goals)) : c.core = g.core
  IN {became(g).id : g \in leaves}
-----------------------------------------------------------------------------
(* An audit reply: one record per candidate and the uncovered parts.        *)
RecordsFor(g, targets) ==
  LET confirmed == (SUBSET g.origins) \ {{}} IN
  [verdict : {"ready", "decompose", "blocked"}, into : {g.id}, origins : confirmed]
  \union [verdict : {"reject"}, into : {g.id}, origins : {{}}]
  \union [verdict : {"merge"}, into : targets \ {g.id}, origins : confirmed]

\* All functions that give each goal of a set one of its records.
RecordChoices(goals, targets) ==
  {f \in [Ids(goals) -> UNION {RecordsFor(g, targets) : g \in goals}] :
     \A g \in goals : f[g.id] \in RecordsFor(g, targets)}

Step(records, id) == IF records[id].verdict = "merge" THEN records[id].into ELSE id
Root(records, id) ==
  LET walk[n \in 0..Cardinality(DOMAIN records)] ==
        IF n = 0 THEN id ELSE Step(records, walk[n - 1])
  IN walk[Cardinality(DOMAIN records)]
Roots(records) == {id \in DOMAIN records : records[id].verdict # "merge"}
Members(records, r) == {id \in DOMAIN records : Root(records, id) = r}

\* Merges into goals that are already in the ledger leave the audit.
External(records, existing) ==
  {id \in DOMAIN records : records[id].verdict = "merge" /\ records[id].into \in Ids(existing)}
Internal(records, existing) == Restrict(records, DOMAIN records \ External(records, existing))

\* A merge into the ledger adds nothing to the goal it names.
ExternalMergeIsExact(g, target) ==
  /\ g.core = target.core
  /\ Covers(target.origins, g.origins)

\* A rejected proposal is not reported as uncovered, and a merge never joins
\* two wrapper seeds.
Consistent(goals, records, uncovered) ==
  /\ \A g \in goals, u \in uncovered :
       g.id \in DOMAIN records /\ records[g.id].verdict = "reject" => ~SameContent(g, u)
  /\ \A g, h \in goals :
       g.id \in DOMAIN records /\ records[g.id].verdict = "merge" /\ records[g.id].into = h.id
         => Mergeable(g, h)

\* requireCanonicalGoalAudit: the leaves of a classification are audited as
\* they are.
LeavesStand(records, distinct) ==
  \A id \in DOMAIN records \cap distinct : records[id].verdict \in {"ready", "blocked"}

\* Every seed of the audited proposals stays in a record or an uncovered part.
KeepsSeeds(goals, records, uncovered) ==
  AllOrigins(goals) \cap Seeds \subseteq
    (UNION {records[id].origins : id \in DOMAIN records}) \union AllOrigins(uncovered)

\* Merges end in a goal of this audit that the audit did not reject.
GroupsAreSound(goals, records) ==
  /\ \A id \in DOMAIN records : Step(records, id) \in DOMAIN records
  /\ \A id \in DOMAIN records : Root(records, id) \in Roots(records)
  /\ \A g \in goals :
       /\ g.id \in Roots(records) /\ records[g.id].verdict = "reject"
       /\ g.core \notin Uncertifiable
       => Members(records, g.id) = {g.id}

ExternalMergesAreSound(goals, records, uncovered, existing) ==
  \A g \in goals : g.id \in External(records, existing) =>
    /\ \E target \in existing : target.id = records[g.id].into /\ ExternalMergeIsExact(g, target)
    /\ \A u \in uncovered : ~SameContent(g, u)

\* The recovery of a second invalid reply: merges that would change the core
\* become goals in need of decomposition.
Quarantined(goals, records, existing) ==
  [id \in DOMAIN records |->
     IF \E g \in goals, target \in existing :
          /\ id \in External(records, existing)
          /\ g.id = id /\ target.id = records[id].into
          /\ SameType(g, target) /\ Covers(target.origins, g.origins)
          /\ g.core # target.core
     THEN [records[id] EXCEPT !.verdict = "decompose", !.into = id]
     ELSE records[id]]
-----------------------------------------------------------------------------
(* reduceGoalAudit.  A required goal is "ready" to explore, "blocked", or   *)
(* "planning_incomplete".                                                   *)
Required(g, status) == [id |-> g.id, core |-> g.core, origins |-> g.origins, status |-> status]
WithStatus(goals, status) == {g \in goals : g.status = status}
AsGoal(g) == [id |-> g.id, core |-> g.core, origins |-> g.origins]

\* One goal per group: its root with the confirmed origins of all members.
Group(g, records) ==
  [g EXCEPT !.origins = UNION {records[m].origins : m \in Members(records, g.id)}]
Groups(goals, records) == {Group(g, records) : g \in {h \in goals : h.id \in Roots(records)}}

ReadyGroups(groups, records) ==
  {g \in groups : /\ records[g.id].verdict = "ready"
                  /\ g.core \notin Circular \union Uncertifiable}

\* One-way containment of origins within a claim type.
Overlap(g, h) ==
  /\ g.id # h.id
  /\ SameType(g, h)
  /\ Covers(g.origins, h.origins) # Covers(h.origins, g.origins)

\* Mutant: the goals of the ledger are not looked at.
AmbiguousAmongThemselves(ready, existing, distinct) ==
  {g \in ready : \E h \in ready : Overlap(g, h) /\ ~({g.id, h.id} \subseteq distinct)}

\* Two goals of distinct, which the request tells apart, may overlap.
Ambiguous(ready, existing, distinct) ==
  {g \in ready : \E h \in ready \union existing :
     Overlap(g, h) /\ ~({g.id, h.id} \subseteq distinct)}

Rejected(groups, records) ==
  {g \in groups : records[g.id].verdict = "reject" /\ g.core \notin Uncertifiable}

Defects(groups, records) ==
  {g \in groups : /\ g.core \notin Uncertifiable
                  /\ records[g.id].verdict # "reject"
                  /\ records[g.id].verdict = "decompose" \/ g.core \in Circular}

Reduce(goals, records, existing, distinct) ==
  LET groups == Groups(goals, records)
      ready == ReadyGroups(groups, records)
      ambiguous == Ambiguous(ready, WithStatus(existing, "ready"), distinct)
      rejected == Rejected(groups, records)
      defects == Defects(groups, records)
  IN [ready |-> ready \ ambiguous,
      blocked |-> groups \ (ready \union rejected \union defects),
      decompose |-> defects, refine |-> ambiguous, rejected |-> rejected]

Accepted(reduction) ==
  {Required(g, "ready") : g \in reduction.ready}
  \union {Required(g, "blocked") : g \in reduction.blocked}

NeedsRevision(reduction, uncovered) ==
  reduction.decompose \union reduction.refine # {} \/ uncovered # {}

\* What is left after the only revision stays required.
PartGoal(u) == [id |-> <<"part", u.core, u.origins>>, core |-> u.core, origins |-> u.origins]
Leftover(reduction, uncovered) ==
  {Required(g, "planning_incomplete") :
     g \in reduction.decompose \union reduction.refine \union {PartGoal(u) : u \in uncovered}}
-----------------------------------------------------------------------------
(* Reconciliation: which audited goals cover which obligation.              *)
Eligible(records, id) == id \in DOMAIN records /\ records[id].verdict \notin {"reject", "merge"}

\* projectOriginRefsForCoverageObligation
Projected(origins, o) ==
  {c \in origins : \E p \in o.origins :
     IF o.kind = "uncovered" THEN Related(c, p) ELSE Descends(c, p)}

\* originSignatureFitsRevisionObligation
Fits(origins, o, obligations) ==
  /\ Projected(origins, o) # {}
  /\ o.kind = "uncovered" => Covers(Projected(origins, o), o.origins)
  /\ origins = UNION {Projected(origins, p) : p \in obligations}

MayCover(g, records, o, obligations) ==
  /\ Eligible(records, g.id)
  /\ Fits(records[g.id].origins, o, obligations)
  /\ o.kind = "decompose" \/ SameType(g, o)

Coverers(o, goals, records, obligations) == {g \in goals : MayCover(g, records, o, obligations)}

\* A correction of an obligation that the audit confirmed needs no request.
Corrects(g, records, o, corrected) ==
  /\ Eligible(records, g.id) /\ records[g.id].verdict = "ready"
  /\ CASE o.kind = "uncovered" ->
            g.id \in corrected /\ SameContent(g, o) /\ records[g.id].origins = o.origins
       [] o.kind = "decompose" -> g.core = o.core /\ Expands(records[g.id].origins, o.origins)
       [] OTHER -> FALSE

Corrections(goals, records, obligations, corrected) ==
  LET exact(o, g) == /\ \A h \in goals : Corrects(h, records, o, corrected) <=> h = g
                     /\ \A p \in obligations : Corrects(g, records, p, corrected) <=> p = o
  IN {<<pair[1], {pair[2].id}>> : pair \in {q \in obligations \X goals : exact(q[1], q[2])}}

\* Obligations nobody needs to be asked about, as <<obligation, covering ids>>.
Deterministic(goals, records, obligations, corrected) ==
  LET exact == Corrections(goals, records, obligations, corrected)
      open == obligations \ {f[1] : f \in exact}
  IN exact \union {<<o, {}>> : o \in {p \in open :
       p.kind = "decompose" /\ Cardinality(Coverers(p, goals, records, obligations)) < 2}}

\* A coverage reply names for each obligation the ids that cover it.
ValidCoverage(cover, goals, records, obligations) ==
  LET audited(id) == CHOOSE g \in goals : g.id = id
      used == UNION {cover[o] : o \in obligations}
      refined == {o \in obligations : o.kind = "refine" /\ cover[o] # {}}
  IN /\ \A o \in obligations : \A id \in cover[o] : MayCover(audited(id), records, o, obligations)
     /\ \A o \in obligations :
          /\ o.kind = "decompose" => Cardinality(cover[o]) # 1
          /\ o.kind = "refine" => Cardinality(cover[o]) <= 1
     /\ \A o, p \in refined : o # p =>
          /\ cover[o] \cap cover[p] = {}
          /\ \A i \in cover[o], j \in cover[p] :
               /\ records[i].verdict = "ready" /\ records[j].verdict = "ready"
               /\ SameType(audited(i), audited(j))
               => ~Covers(records[i].origins, records[j].origins)
     /\ \A id \in used :
          records[id].origins =
            UNION {Projected(records[id].origins, o) : o \in {p \in obligations : id \in cover[p]}}
=============================================================================
