------------------------------- MODULE Handoff --------------------------------
(* From the verdicts of the last pass to the answer the caller sees         *)
(* (explore() and buildParentHandoffProjection, runtime.mjs; selectClaimCover *)
(* and reduceTrustState, coverage.mjs). Two projections select evidence by  *)
(* rules of their own. The first lists the evidence of the run's result,    *)
(* whose files are then read again, twice each, while the user may edit     *)
(* them. The second picks a cover of each claim from what is left, drops    *)
(* the claims it cannot show, and chooses the trust state.                  *)
(*                                                                          *)
(* Beyond what ClaimRules reads, an observation has                         *)
(*   range    the lines of a source                                         *)
(*   beside   the source that the call behind a search also returned        *)
(*   tool     the kind of search that matters here, if any: read_file, or   *)
(*            static_array, whose items are the files it is bound to        *)
(*   sha      a git observation names its commit                            *)
(* and a claim has                                                          *)
(*   cites    its refs in order                                             *)
(*   names    the paths its text names                                      *)
(*   sweeping its text claims more than a locate answer may                 *)
(* An edit touches every observed range of its file. Wording, roles, order  *)
(* and number of targets, follow-ups and redaction are left out, as are the *)
(* risk boundaries of map_change_impact; a gap is the goal it names.        *)
EXTENDS ClaimRules

CONSTANTS
  Tasks,    \* [wrapper, intent, goals, claims] a run may end with
  Edits,    \* bound of the instance: edits while the answer is put together
  None      \* no item is being read; no goal of a gap

\* Claim ids are unique, and a goal has an id.
ASSUME HandoffAssumption ==
  \A t \in Tasks :
    /\ \A c, d \in t.claims : c.id = d.id => c = d
    /\ \A g \in t.goals : g.id # None

VARIABLES
  task,       \* the task, its audited goals and the claims of the last pass
  verdicts,   \* claim id -> verdict after the proof gate
  supported,  \* goals the reduction closed
  limited,    \* goals a safety limit affects
  planGap,    \* a gap of no single goal is open
  disk,       \* path -> its text, relative to the one observed
  todo,       \* sources of the result still to be read again
  reading,    \* [source, readable] between two reads, or None
  grounded,   \* sources whose text is as observed
  aborted,    \* the caller's signal
  handoff,    \* what the caller gets
  past,       \* history: the texts each path had since the pass ended
  edits       \* edits so far

ledger == <<task, verdicts, supported, limited, planGap>>
vars == <<ledger, disk, todo, reading, grounded, aborted, handoff, past, edits>>

Texts == {"observed", "edited", "absent"}
AllPaths == Paths(DOMAIN Observation)
GoalOf(c) == With(task.goals, c.goal)
Policy(c) == GoalOf(c).policy
Verdict(c) == verdicts[c.id]
Answered(c) == Supports(Verdict(c)) /\ c.goal \in supported
\* The refs of a supported claim the verifier approved.
Approved(c) == Verdict(c).refs
ClaimsOf(goal) == {c \in task.claims : c.goal = goal}
SupportedClaims(goal) == {c \in ClaimsOf(goal) : Supports(Verdict(c))}
Collects(c) == "collect" \in GoalOf(c).traits
-----------------------------------------------------------------------------
(* Searches behind a claim that are not shown themselves.                   *)

MaySurface(c) ==
  \/ Policy(c) \in {"bounded_absence", "deterministic_count"}
  \/ Policy(c) = "support_or_refute" /\ Verdict(c).resolution = "refuted"
CertifiedAbsence(c, ref) == MaySurface(c) /\ ref \in ZeroSearches({ref})

RedundantRead(c, ref) ==
  Observation[ref].tool = "read_file" /\ Observation[ref].beside \in Sources(Approved(c))

Usage(c) == Policy(c) = "bounded_usage_cross_check"
Inventory(c) == InventoryContext(GoalOf(c), c, Verdict(c), task.wrapper)

\* Array sizes among the evidence of a comparison, bound to a file it cites.
ComparedArrays(c) ==
  {o \in Searches(Approved(c)) :
     /\ Policy(c) = "distinct_policy_paths"
     /\ Observation[o].tool = "static_array" /\ Observation[o].complete
     /\ Observation[o].items \intersect Paths(Approved(c)) # {}}

\* A comparison may rest on the searches of another goal's absence proof.
CompanionSearches(c) ==
  LET absences == {g \in task.goals : /\ g.policy = "bounded_absence"
                                      /\ g.id \in supported \ {c.goal}}
  IN IF Policy(c) = "distinct_policy_paths"
     THEN Approved(c) \intersect
            ZeroSearches(UNION {d.refs : d \in UNION {ClaimsOf(g.id) : g \in absences}})
     ELSE {}

\* The one search whose count the claim states, and what stands for it.
CountSearch(c) ==
  LET counts == {o \in Searches(Approved(c)) :
                   /\ Policy(c) = "deterministic_count"
                   /\ Observation[o].complete
                   /\ c.measure # NoCount /\ Observation[o].count = c.measure}
  IN IF Cardinality(counts) = 1 THEN counts ELSE {}
PairedSource(ref) ==
  IF Observation[ref].tool = "static_array" THEN Sources({Observation[ref].beside}) ELSE {}
CountIsCovered(c, ref) ==
  /\ c.measure[1] = "matching_lines" /\ c.measure[2] > 0
  /\ Observation[ref].items # {} /\ Observation[ref].items \subseteq Paths(Approved(c))
-----------------------------------------------------------------------------
(* The evidence of the run's result (buildSemanticParentProjection).        *)

\* Policies whose claims keep every part of their evidence.
Several == {"deterministic_count", "bounded_usage_cross_check", "ordered_handoffs",
            "impact_categories", "distinct_policy_paths"}

\* A range inside another of the same file, or equal to one cited before it.
Repeats(c, ref) ==
  LET Position(o) == CHOOSE i \in DOMAIN c.cites : c.cites[i] = o
      Around(o) ==
        LET outer == Observation[o].range
            inner == Observation[ref].range
        IN /\ Observation[o].path = Observation[ref].path
           /\ outer[1] <= inner[1] /\ inner[2] <= outer[2]
           /\ outer # inner \/ Position(o) < Position(ref)
  IN ref \in Sources({ref}) /\ \E o \in Sources(Approved(c)) \ {ref} : Around(o)

\* The first approved ref, and one for each other file the claim names.
NamedCover(c) ==
  LET Wanted(ref, taken) ==
        \/ taken = {}
        \/ ref \in Sources({ref}) /\ Observation[ref].path \in c.names \ Paths(taken)
      Take(taken, ref) == IF Wanted(ref, taken) THEN taken \union {ref} ELSE taken
      approved(ref) == ref \in Approved(c)
  IN FoldLeft(Take, {}, SelectSeq(c.cites, approved))

\* The refs the parent is to see for a claim.
Cover(c) ==
  IF Policy(c) \in Several THEN Approved(c)
  ELSE IF Collects(c) THEN {ref \in Direct(Approved(c)) : ~Repeats(c, ref)}
  ELSE NamedCover(c)

\* Refs the result answers for; searches that were only checks are skipped.
ResultRefs(c) ==
  LET skipped(ref) == \/ Usage(c) \/ Inventory(c) \/ RedundantRead(c, ref)
                      \/ CountSearch(c) # {} /\ ref \notin CountSearch(c)
                      \/ /\ CountSearch(c) = {} /\ ComparedArrays(c) # {}
                         /\ ref \notin ComparedArrays(c)
      relevant == IF Collects(c) THEN Cover(c) ELSE Approved(c)
  IN {ref \in relevant : ref \in Searches({ref}) => ~skipped(ref)}

CountStands(c, ref) ==
  ref \in CountSearch(c) /\ (PairedSource(ref) # {} \/ CountIsCovered(c, ref))

InResult(c) ==
  /\ Answered(c) /\ ResultRefs(c) # {}
  /\ \A ref \in ResultRefs(c) :
       \/ ref \in Direct({ref})
       \/ CertifiedAbsence(c, ref) \/ CountStands(c, ref)
       \/ ref \in ComparedArrays(c) \union CompanionSearches(c)

\* The sources behind the claims of the result; each is read again.
ResultSources ==
  LET paired(c) == UNION {PairedSource(ref) :
                            ref \in {o \in CountSearch(c) : ~CertifiedAbsence(c, o)}}
  IN UNION {Sources(ResultRefs(c)) \union paired(c) : c \in {d \in task.claims : InResult(d)}}
-----------------------------------------------------------------------------
(* What the parent sees of a claim (buildParentEvidenceProjection).         *)

\* Searches that back a claim without being shown.
Hidden(c, ref) ==
  /\ ref \in Searches({ref})
  /\ \/ RedundantRead(c, ref)
     \/ ref \in ComparedArrays(c) \union CompanionSearches(c)
     \/ Usage(c) /\ Observation[ref].complete
     \/ Inventory(c)

SourceItem(ref) == <<"source", Observation[ref].path, Observation[ref].range>>
GroundedItems(refs) == {SourceItem(ref) : ref \in refs \intersect grounded}

Items(c, ref) ==
  IF ref \in Sources({ref}) THEN GroundedItems({ref})
  ELSE IF ref \in Direct({ref}) THEN (IF Observation[ref].sha THEN {<<"git", ref>>} ELSE {})
  ELSE IF Hidden(c, ref) THEN {}
  ELSE IF CertifiedAbsence(c, ref) THEN {<<"absence", c.goal, ref>>}
  ELSE IF ref \in CountSearch(c) THEN GroundedItems(PairedSource(ref))
  ELSE {}
ItemsOf(c) == UNION {Items(c, ref) : ref \in Cover(c)}

Stands(c, ref) ==
  \/ Hidden(c, ref) \/ Items(c, ref) # {}
  \/ ref \in CountSearch(c) /\ PairedSource(ref) = {} /\ CountIsCovered(c, ref)

\* Mutant: a claim may be shown without anything to show for it.
AcceptedUnseen(c) ==
  /\ Answered(c) /\ c.goal \notin limited
  /\ Cover(c) # {} /\ \A ref \in Cover(c) : Stands(c, ref)

Accepted(c) ==
  /\ Answered(c) /\ c.goal \notin limited
  /\ Cover(c) # {} /\ \A ref \in Cover(c) : Stands(c, ref)
  /\ ItemsOf(c) # {}
  /\ ~("relevance" \in GoalOf(c).traits /\ c.sweeping)
AcceptedClaims == {c \in task.claims : Accepted(c)}
-----------------------------------------------------------------------------
(* The handoff of the accepted claims and their evidence.                   *)

GoalIds == {g.id : g \in task.goals}

\* Mutant: only the goals the reduction left open are unresolved.
UnresolvedByState(shown) == (GoalIds \ supported) \union limited

\* A supported goal that loses one of its claims is open again.
Unresolved(shown) ==
  (GoalIds \ supported) \union limited
    \union {goal \in supported : \/ SupportedClaims(goal) = {}
                                 \/ ~(SupportedClaims(goal) \subseteq shown)}

Evidence(shown) == UNION {ItemsOf(c) : c \in shown}
Targets(evidence) == {item \in evidence : item[1] = "source"}

State(shown, evidence, unresolved) ==
  IF \/ GoalIds \ supported # {} \/ limited # {}
     \/ planGap \/ unresolved # {}
     \/ shown = {} \/ evidence = {}
     \/ task.intent = "edit" /\ Targets(evidence) = {}
  THEN "incomplete"
  ELSE IF task.intent = "edit" THEN "verify_targets" ELSE "complete"

\* Open gaps of the ledger, one for each other unresolved goal, or a general one.
Gaps(unresolved) ==
  LET open == unresolved \union (IF planGap THEN {None} ELSE {})
  IN IF open = {} THEN {None} ELSE open

ShownTargets(state, evidence) ==
  IF \/ state = "verify_targets"
     \/ state = "incomplete" /\ task.intent = "edit"
     \/ state = "complete" /\ task.intent = "locate"
  THEN Targets(evidence) ELSE {}

Projection(shown, evidence, unresolved) ==
  LET state == State(shown, evidence, unresolved)
  IN [state |-> state, claims |-> Ids(shown), evidence |-> evidence,
      targets |-> ShownTargets(state, evidence),
      gaps |-> IF state = "incomplete" THEN Gaps(unresolved) ELSE {}]
Failed == [state |-> "failed", claims |-> {}, evidence |-> {}, targets |-> {}, gaps |-> {}]

\* What the schema of each state requires and forbids.
Valid(h) ==
  CASE h.state = "complete" -> h.claims # {} /\ h.evidence # {}
    [] h.state = "verify_targets" -> h.claims # {} /\ h.evidence # {} /\ h.targets # {}
    [] h.state = "incomplete" -> h.gaps # {} /\ (h.claims = {} <=> h.evidence = {})
-----------------------------------------------------------------------------
Outcomes(c) ==
  LET verdict(result, resolution, refs) ==
        [result |-> result, resolution |-> resolution, refs |-> refs, reason |-> "semantic_mismatch"]
      support == {verdict("supported", resolution, refs) :
                    resolution \in {"affirmed", "refuted"}, refs \in SUBSET c.refs}
  IN support \union {verdict("contradicted", "none", c.refs), Insufficient({}, "semantic_mismatch")}

\* Supported verdicts passed the proof gate; only the resolution of a premise varies.
Gate(t, vs) ==
  LET certified == CertifiedSearches(t.goals, t.claims, vs, t.wrapper)
      corroborated(c) ==
        {"absence", "affirmation"}
          \union (IF InventoryContext(With(t.goals, c.goal), c, vs[c.id], t.wrapper)
                  THEN {"inventory"} ELSE {})
  IN \A c \in t.claims :
       Supports(vs[c.id]) =>
         /\ Passes(With(t.goals, c.goal), c, vs[c.id], t.wrapper, corroborated(c), certified)
         /\ With(t.goals, c.goal).policy # "support_or_refute" => vs[c.id].resolution = "affirmed"

\* Goals the reduction may close: one resolution, and no other claim left open.
Closable(t, vs) ==
  LET verdictsOf(g) == {vs[c.id] : c \in {d \in t.claims : d.goal = g.id}}
      closed(g) == {v \in verdictsOf(g) : Supports(v)}
      tolerated(g) == {v \in verdictsOf(g) : /\ g.policy = "support_or_refute"
                                             /\ v.result = "contradicted"}
  IN {g.id : g \in {h \in t.goals :
        /\ Cardinality({v.resolution : v \in closed(h)}) = 1
        /\ verdictsOf(h) = closed(h) \union tolerated(h)}}

Init ==
  /\ task \in Tasks
  /\ verdicts \in {vs \in [Ids(task.claims) -> UNION {Outcomes(c) : c \in task.claims}] :
                     \A c \in task.claims : vs[c.id] \in Outcomes(c)}
  /\ Gate(task, verdicts)
  /\ supported \in SUBSET Closable(task, verdicts)
  /\ limited \in SUBSET GoalIds
  /\ planGap \in BOOLEAN
  /\ disk \in [AllPaths -> Texts]
  /\ past = [p \in AllPaths |-> {disk[p]}]
  /\ todo = ResultSources
  /\ reading = None /\ grounded = {}
  /\ aborted = FALSE /\ handoff = None /\ edits = 0

Running == handoff = None

\* The user writes, restores or deletes a file.
Edit(p) ==
  /\ Running /\ edits < Edits
  /\ \E text \in Texts \ {disk[p]} :
       /\ disk' = [disk EXCEPT ![p] = text]
       /\ past' = [past EXCEPT ![p] = @ \union {text}]
  /\ edits' = edits + 1
  /\ UNCHANGED <<ledger, todo, reading, grounded, aborted, handoff>>

\* The first read, of the lines to show, fails only if there is no file.
FirstRead(o) ==
  /\ Running /\ reading = None /\ o \in todo
  /\ reading' = [source |-> o, readable |-> disk[Observation[o].path] # "absent"]
  /\ UNCHANGED <<ledger, disk, todo, grounded, aborted, handoff, past, edits>>

\* Mutant: the second read is not compared with what was observed.
KeptIfReadable(readable, text) == readable /\ text # "absent"
Kept(readable, text) == readable /\ text = "observed"

\* The second, of the whole range, is compared with what was observed.
SecondRead ==
  /\ Running /\ reading # None
  /\ LET o == reading.source
     IN /\ todo' = todo \ {o}
        /\ grounded' = IF Kept(reading.readable, disk[Observation[o].path])
                       THEN grounded \union {o} ELSE grounded
  /\ reading' = None
  /\ UNCHANGED <<ledger, disk, aborted, handoff, past, edits>>

Abort ==
  /\ Running /\ ~aborted
  /\ aborted' = TRUE
  /\ UNCHANGED <<ledger, disk, todo, reading, grounded, handoff, past, edits>>

\* A cancelled run fails, and so does a handoff its schema refuses.
Assemble ==
  /\ Running /\ todo = {}
  /\ \E shown \in {AcceptedClaims} :
       \E projection \in {Projection(shown, Evidence(shown), Unresolved(shown))} :
         handoff' = IF ~aborted /\ Valid(projection) THEN projection ELSE Failed
  /\ UNCHANGED <<ledger, disk, todo, reading, grounded, aborted, past, edits>>

Next ==
  \/ \E p \in AllPaths : Edit(p)
  \/ \E o \in DOMAIN Observation : FirstRead(o)
  \/ SecondRead
  \/ Abort
  \/ Assemble

Spec == Init /\ [][Next]_vars
-----------------------------------------------------------------------------
(* Source is shown only if its file had the text that was verified at some  *)
(* moment after verification: snippets that no longer match are dropped     *)
(* (runtime.mjs:644-659; DESIGN.md:214-221).                                *)
ShownIsCurrent ==
  handoff # None =>
    \A item \in handoff.evidence : item[1] = "source" => "observed" \in past[item[2]]

(* The gaps of a handoff name every goal that was not answered in full and  *)
(* no other: a goal is answered if it is supported, free of limits, and     *)
(* every supported claim of it is shown. A positive state has no gap, so it *)
(* answers the whole request, although two projections and the re-read may  *)
(* each drop a claim of a goal the ledger closed (runtime.mjs:2132-2306;    *)
(* specs/028-trustworthy-explorer/contracts/parent-handoff-v3.md:160).      *)
GapsAreExact ==
  LET answered(goal) ==
        /\ goal \in supported \ limited
        /\ SupportedClaims(goal) # {}
        /\ Ids(SupportedClaims(goal)) \subseteq handoff.claims
  IN handoff # None /\ handoff.state # "failed" =>
       /\ handoff.gaps \ {None} = {goal \in GoalIds : ~answered(goal)}
       /\ planGap => None \in handoff.gaps

(* The handoff that was put together has the shape of its state: only a     *)
(* cancelled run fails here (runtime.mjs:12303-12313).                      *)
AssemblyHolds == handoff # None /\ handoff.state = "failed" => aborted

=============================================================================
