------------------------------ MODULE ClaimPass ------------------------------
(* The semantic verification pass (_runSemanticVerificationPass,            *)
(* runtime.mjs): claims are synthesized in batches of one evidence mode, a  *)
(* verifier judges them, some verdicts are judged once more by a focused    *)
(* request, one comparison and one test anchor may be tried again on the    *)
(* same evidence, and a proof gate downgrades what is left without proof.   *)
(* After an evidence repair the pass runs a second time.  Its prior claims  *)
(* are carried, and gain fresh evidence and what the runtime writes into    *)
(* the claims of a batch.                                                   *)
(*                                                                          *)
(* Every request may return anything its schema allows; unless it is        *)
(* optional it is asked again once when the reply is refused, and a second  *)
(* refused reply may still be recovered by setting faulty claims aside.     *)
(* Reduction to goal states, gaps and the choice of a repair are            *)
(* GoalLedger's.                                                            *)
EXTENDS ClaimRules

CONSTANTS
  Tasks,      \* [wrapper, goals, anchor, observed, fresh, offers] a run may have;
              \* offers are the claims a model may return
  Reasons,    \* the reasons of an insufficient verdict
  Stray,      \* an evidence ref of no claim
  MaxClaims,  \* bound of the instance: claims of one synthesis reply
  None        \* nothing kept, drafted or remembered

ASSUME TasksAssumption ==
  \A t \in Tasks :
    /\ t.goals \in Seq(ToSet(t.goals))
    /\ \A i, j \in DOMAIN t.goals : t.goals[i].id = t.goals[j].id => i = j
    /\ \A g \in ToSet(t.goals) : "risk" \in g.traits => g.policy = "impact_categories"

VARIABLES
  task,          \* the task of the run
  phase,         \* initial or post-repair
  stage,         \* the request in flight, or the step the runtime is at
  attempt,       \* replies refused so far by this request
  batch,         \* no batch that starts at a goal before this one is left
  kept,          \* a refused reply that lacked nothing but count measurements
  claims,        \* claims of this pass
  used,          \* their ids, as the batches register them
  batchClaims,   \* the claims under verification, in goal order
  prior,         \* claims of the first pass, in the second
  reopened,      \* goals without claims that the repair reopened
  verdicts,      \* claim id -> verdict
  uncovered,     \* the last verification reply names uncovered request parts
  position,      \* focused step and claim under way
  draft,         \* a repaired claim, and its verdict, not installed yet
  corroborated,  \* <<claim id, what a second verifier confirmed>>
  retry,         \* what the run has tried again, and the affirmation it remembers
  exhausted,     \* goals whose gaps no repair can close
  judgments,     \* history: supported verdicts of this pass and the claims they judged
  asked          \* history: same-evidence requests of the run

pass == <<claims, used, batchClaims, prior, reopened, exhausted>>
vars == <<task, phase, stage, attempt, batch, kept, pass, verdicts, uncovered, position, draft,
          corroborated, retry, judgments, asked>>

NothingRetried == [test |-> FALSE, comparison |-> FALSE, affirmation |-> None]

Init ==
  /\ task \in Tasks
  /\ phase = "initial" /\ stage = "synthesis" /\ attempt = 0 /\ batch = 1 /\ kept = None
  /\ claims = {} /\ used = {} /\ batchClaims = << >> /\ prior = {} /\ reopened = {} /\ exhausted = {}
  /\ verdicts = [id \in {} |-> None] /\ uncovered = FALSE /\ position = 1 /\ draft = None
  /\ corroborated = {} /\ retry = NothingRetried
  /\ judgments = {} /\ asked = [test |-> 0, comparison |-> 0]

Goals == ToSet(task.goals)
GoalOf(claim) == With(Goals, claim.goal)
Observed == task.observed \union (IF phase = "initial" THEN {} ELSE task.fresh)
Fresh == IF phase = "initial" THEN {} ELSE task.fresh

Requests == {"synthesis", "verify", "known_test", "trace_claim", "trace_verdict", "inventory",
             "comparison", "repair_claim", "repair_verdict", "repair_check", "affirmation",
             "direct_refutation", "absence"}
\* Requests asked once, whose failure leaves the primary verdict.
Optional == {"known_test", "repair_claim", "repair_verdict", "repair_check"}
-----------------------------------------------------------------------------
(* Synthesis.                                                               *)
Positions == DOMAIN task.goals
Active ==
  {i \in Positions : phase = "initial" \/ task.goals[i].id \in reopened \union GoalsOf(prior)}
Modes == [i \in Positions |-> Mode(task.goals[i])]
GoalsAt(start) == {task.goals[i] : i \in BatchAt(Active, Modes, start)}

PriorsOf(goals) == {p \in prior : p.goal \in {g.id : g \in goals}}

\* A batch with neither evidence nor prior claims is not asked for.
SynthesisRequests ==
  {s \in Starts(Active, Modes) : \/ BatchObservations(GoalsAt(s), Observed) # {}
                                 \/ PriorsOf(GoalsAt(s)) # {}}
UnderWay == Min({s \in SynthesisRequests : batch <= s})

Asked == GoalsAt(UnderWay)
Visible == BatchObservations(Asked, Observed)

AnchorGoals == {g \in Goals : "one_test" \in g.traits}
Anchor == IF Cardinality(AnchorGoals) = 1 THEN task.anchor ELSE None
Packet == Shown(Asked, Anchor, Visible)
Candidates(reply) ==
  CarriedPriors(reply, PriorsOf(Asked), Fresh \intersect Packet)
    \union NewClaims(reply, Asked, PriorsOf(Asked))
FaultyIn(candidates) == Faulty(candidates, Asked, Anchor, Visible)

\* Claims are checked as returned and kept as the runtime words them.
Reworded(candidates) ==
  RiskBounded({TestNamed(With(Asked, c.goal), c, Visible) : c \in candidates}, Asked)

Accepts(reply) ==
  /\ \A c \in reply : c.refs # {}
  /\ Sound(Candidates(reply), Asked, used, Visible)
  /\ FaultyIn(Candidates(reply)) = {}

\* A second refused reply: claims without evidence go, then those of faulty goals.
WithEvidence(reply) == {c \in reply : c.refs # {}}
Recoverable(reply) ==
  /\ WithEvidence(reply) # reply =>
       /\ OneClaimPerId(reply)
       /\ \A c \in reply : /\ c.goal \in {g.id : g \in Asked}
                           /\ c.id \notin used \ Ids(PriorsOf(Asked))
  /\ Sound(Candidates(WithEvidence(reply)), Asked, used, Visible)
Recovered(reply) ==
  LET candidates == Candidates(WithEvidence(reply))
  IN Without(Reworded(candidates), FaultyIn(candidates))

OnlyCountsMissing(reply) ==
  /\ \A c \in reply : c.refs # {}
  /\ Sound(Candidates(reply), Asked, used, Visible)
  /\ FaultyIn(Candidates(reply)) # {}
  /\ FaultyIn(Candidates(reply)) = CountMissing(Candidates(reply), Asked)

\* Verification takes the goals with claims, in order.
Verifiable(candidates) == {i \in Positions : task.goals[i].id \in GoalsOf(candidates)}
AnyMode == [i \in Positions |-> "any"]
VerificationRequests(candidates) == Starts(Verifiable(candidates), AnyMode)
ClaimsAt(candidates, start) ==
  {c \in candidates : \E i \in BatchAt(Verifiable(candidates), AnyMode, start) :
                        task.goals[i].id = c.goal}

\* Claims follow their goals; those of one goal come in the order of the reply.
Follows(c, d) ==
  \E i, j \in Positions : i <= j /\ task.goals[i].id = c.goal /\ task.goals[j].id = d.goal
InOrder(candidates) ==
  {order \in [1..Cardinality(candidates) -> candidates] :
     /\ order \in Seq(candidates) /\ ToSet(order) = candidates
     /\ \A m, n \in DOMAIN order : m < n => Follows(order[m], order[n])}

Verify(candidates, start) ==
  stage' = "verify" /\ batch' = start /\ batchClaims' \in InOrder(ClaimsAt(candidates, start))

\* What becomes of the accepted claims before they are registered.
Grounded(accepted) ==
  LET bound == {UsageBound(With(Asked, c.goal), c, Packet) :
                  c \in KeepingShown(accepted, Asked, Packet)}
  IN {Located(With(Asked, c.goal), c, Packet) : c \in CompleteRelevance(bound, Asked, Observed)}

\* The claims of a batch are registered; the last batch starts the verification.
Register(accepted) ==
  /\ claims' = claims \union Grounded(accepted)
  /\ used' = used \union Ids(accepted)
  /\ attempt' = 0 /\ kept' = None
  /\ IF \E s \in SynthesisRequests : UnderWay < s
     THEN batch' = UnderWay + 1 /\ UNCHANGED <<stage, batchClaims>>
     ELSE IF claims' = {} THEN batch' = 1 /\ stage' = "gate" /\ UNCHANGED batchClaims
     ELSE Verify(claims', Min(VerificationRequests(claims')))
  /\ UNCHANGED <<task, phase, prior, reopened, exhausted, verdicts, uncovered, position, draft,
                 corroborated, retry, judgments, asked>>

Stop(outcome) ==
  /\ stage' = outcome /\ attempt' = 0 /\ kept' = None
  /\ UNCHANGED <<task, phase, batch, pass, verdicts, uncovered, position, draft, corroborated,
                 retry, judgments, asked>>

AskAgain(keep) ==
  /\ attempt' = 1 /\ kept' = keep
  /\ UNCHANGED <<task, phase, stage, batch, pass, verdicts, uncovered, position, draft,
                 corroborated, retry, judgments, asked>>

\* What the model may return: offered claims, under their ids or a prior claim's.
Replies ==
  LET offers == {o \in task.offers : \E g \in Asked : g.id = o.goal}
      again == {[o EXCEPT !.id = p.id] : o \in offers, p \in PriorsOf(Asked)}
  IN UNION {kSubset(n, offers \union again) : n \in 0..MaxClaims}

SynthesisReply ==
  /\ stage = "synthesis" /\ SynthesisRequests # {}
  /\ \E raw \in Replies :
       LET reply == Normalized(raw, Asked, used, PriorsOf(Asked))
       IN IF Accepts(reply) THEN Register(Reworded(Candidates(reply)))
          ELSE IF attempt = 0 THEN AskAgain(IF OnlyCountsMissing(reply) THEN reply ELSE None)
          ELSE IF Recoverable(reply) THEN Register(Recovered(reply))
          ELSE Stop("failed")

\* No batch has evidence or prior claims.
NothingToAsk ==
  /\ stage = "synthesis" /\ SynthesisRequests = {}
  /\ Stop("gate")

\* A reply that is no control object; with tool calls nothing is recovered.
SynthesisMalformed(toolCalls) ==
  /\ stage = "synthesis" /\ SynthesisRequests # {}
  /\ IF attempt = 0 THEN AskAgain(None)
     ELSE IF kept # None /\ ~toolCalls THEN Register(Recovered(kept))
     ELSE Stop("failed")
-----------------------------------------------------------------------------
(* Verification.                                                            *)
Size == Len(batchClaims)

\* A verifier cites all the evidence of a claim or all but one piece of it; a
\* refutation is offered where the rules tell it from an affirmation.
Verdicts(claim) ==
  LET some == ({claim.refs} \union {claim.refs \ {o} : o \in claim.refs}) \ {{}}
      refutable == GoalOf(claim).policy \in {"support_or_refute", "distinct_policy_paths",
                                             "impact_categories"}
      verdict(result, resolution, refs, reason) ==
        [result |-> result, resolution |-> resolution, refs |-> refs, reason |-> reason]
  IN {verdict("supported", r, refs, "none") :
        r \in {"affirmed"} \union (IF refutable THEN {"refuted"} ELSE {}), refs \in some}
     \union {verdict("supported", "affirmed", {Stray}, "none"),
             verdict("contradicted", "none", {}, "counterevidence")}
     \union {Insufficient(claim.refs, r) : r \in Reasons}

Judge(by, claim, v) == IF Supports(v) THEN {[by |-> by, claim |-> claim, verdict |-> v]} ELSE {}

Accept(reply, parts) ==
  LET judged == [i \in 1..Size |->
        ForWrapper(task.wrapper, parts, Confined(batchClaims[i], reply[i]))]
      about == Ids(ToSet(batchClaims))
  IN /\ verdicts' = [id \in DOMAIN verdicts \union about |->
         IF id \in about THEN judged[CHOOSE i \in 1..Size : batchClaims[i].id = id]
         ELSE verdicts[id]]
     /\ uncovered' = (parts /\ task.wrapper # "collect_evidence")
     /\ judgments' = judgments \union
          UNION {Judge("primary", batchClaims[i], judged[i]) : i \in 1..Size}
     /\ stage' = "focus" /\ position' = 1 /\ attempt' = 0
     /\ UNCHANGED <<task, phase, batch, kept, pass, draft, corroborated, retry, asked>>

\* One verdict for every claim of the batch.
VerifierReplies ==
  FoldLeft(LAMBDA done, c : {Append(r, v) : r \in done, v \in Verdicts(c)},
           {<< >>}, batchClaims)

\* A verdict with foreign evidence is refused once; the last reply is confined.
VerifyReply ==
  /\ stage = "verify"
  /\ \E parts \in BOOLEAN :
     \E reply \in VerifierReplies :
       IF attempt = 0 /\ \E i \in 1..Size : ~WithinClaim(batchClaims[i], reply[i])
       THEN AskAgain(None)
       ELSE Accept(reply, parts)

\* A reply that is no control object, a provider failure, a cancellation.
Malformed ==
  /\ stage \in Requests \ {"synthesis"}
  /\ stage \notin Optional
  /\ IF attempt = 0 THEN AskAgain(None) ELSE Stop("failed")

RequestFails == stage \in Requests \ Optional /\ Stop("failed")
Abort == stage \in Optional /\ Stop("failed")
-----------------------------------------------------------------------------
(* The focused steps, each over the claims of the batch in order.           *)
Steps == <<"known_test", "trace", "inventory", "comparison", "affirmation",
           "direct_refutation", "absence">>
LastPosition == Len(Steps) * Size
StepAt(p) == Steps[((p - 1) \div Size) + 1]
Claim(p) == batchClaims[((p - 1) % Size) + 1]
Current == Claim(position)
Verdict == verdicts[Current.id]

HasContext(step, claim, v) ==
  LET goal == GoalOf(claim)
  IN CASE step = "known_test" ->
            /\ ~uncovered /\ Cardinality({GoalOf(c).policy : c \in ToSet(batchClaims)}) > 1
            /\ KnownTestContext(goal, claim, v, Anchor, Observed)
       [] step = "trace" ->
            ~uncovered /\ phase = "initial" /\ TraceContext(goal, claim, v, task.wrapper)
       [] step = "inventory" -> InventoryContext(goal, claim, v, task.wrapper)
       [] step = "comparison" -> \/ ComparisonContext(goal, claim, v)
                                 \/ CorrectionContext(goal, claim, v, phase)
       [] step = "affirmation" -> AffirmationContext(goal, claim, v)
       [] step = "direct_refutation" -> DirectRefutationContext(goal, claim, v)
       [] step = "absence" -> AbsenceRefutationContext(goal, claim, v)

Here(step) == stage = "focus" /\ position <= LastPosition /\ StepAt(position) = step
              /\ HasContext(step, Current, Verdict)

\* The verifier's part of a step is a request; the rest follows from its reply.
Send(request) ==
  /\ stage' = request /\ attempt' = 0
  /\ UNCHANGED <<task, phase, batch, kept, pass, verdicts, uncovered, position, draft,
                 corroborated>>

\* Steps without a context are passed over; after the last the next batch is verified.
Skip ==
  /\ stage = "focus"
  /\ LET next == {p \in position..LastPosition :
                    HasContext(StepAt(p), Claim(p), verdicts[Claim(p).id])}
         later == {s \in VerificationRequests(claims) : batch < s}
     IN \/ /\ next # {} /\ position \notin next
           /\ position' = Min(next) /\ UNCHANGED <<stage, batch, batchClaims>>
        \/ /\ next = {}
           /\ position' = 1
           /\ IF later = {} THEN batch' = 1 /\ stage' = "gate" /\ batchClaims' = << >>
              ELSE Verify(claims, Min(later))
  /\ UNCHANGED <<task, phase, attempt, kept, claims, used, prior, reopened, exhausted, verdicts, uncovered, draft, corroborated,
                 retry, judgments, asked>>

\* A step ends with this verdict for its claim.
Conclude(v) ==
  /\ verdicts' = [verdicts EXCEPT ![Current.id] = v]
  /\ position' = position + 1 /\ stage' = "focus" /\ attempt' = 0 /\ draft' = None
  /\ UNCHANGED <<task, phase, batch, kept, used, prior, reopened, uncovered>>

\* A focused request about a claim: foreign evidence is refused once, then confined.
FocusedReply(request, claim, once, Then(_)) ==
  /\ stage = request
  /\ \E v \in Verdicts(claim) :
       IF attempt = 0 /\ ~once /\ ~WithinClaim(claim, v) THEN AskAgain(None)
       ELSE Then(Confined(claim, v))

Plain(request, Merge(_), flag) ==
  FocusedReply(request, Current, FALSE, LAMBDA f :
    /\ Conclude(Merge(f))
    /\ judgments' = judgments \union Judge(request, Current, f)
    /\ corroborated' = corroborated \union
         (IF Supports(Merge(f)) THEN {<<Current.id, flag>>} ELSE {})
    /\ UNCHANGED <<claims, batchClaims, exhausted, retry, asked>>)

AskFocused ==
  \E step \in {"inventory", "affirmation", "direct_refutation", "absence"} :
    Here(step) /\ Send(step) /\ UNCHANGED <<retry, judgments, asked>>

InventoryReply ==
  Plain("inventory", LAMBDA f : MergeInventory(Verdict, f), "inventory")
AffirmationReply ==
  Plain("affirmation", LAMBDA f : MergeSearch(Verdict, f), "affirmation")
DirectRefutationReply ==
  Plain("direct_refutation", LAMBDA f : MergeDirectRefutation(Current, Verdict, f), "direct")
AbsenceReply ==
  Plain("absence", LAMBDA f : MergeSearch(Verdict, f), "absence")
-----------------------------------------------------------------------------
(* The known test is rechecked once in a run; an affirmation is remembered  *)
(* and serves the same claim again unless it cites fresh evidence.          *)
Remembered ==
  /\ retry.affirmation # None
  /\ retry.affirmation.claim = Current
  /\ Fresh \intersect Current.refs = {}

KnownTest ==
  /\ Here("known_test")
  /\ \/ /\ Remembered
        /\ Conclude(retry.affirmation.verdict)
        /\ UNCHANGED <<claims, batchClaims, exhausted, corroborated, retry, judgments, asked>>
     \/ /\ ~Remembered /\ retry.test
        /\ Conclude(Verdict)
        /\ UNCHANGED <<claims, batchClaims, exhausted, corroborated, retry, judgments, asked>>
     \/ /\ ~Remembered /\ ~retry.test
        /\ Send("known_test")
        /\ retry' = [retry EXCEPT !.test = TRUE]
        /\ asked' = [asked EXCEPT !.test = Min({@ + 1, 2})]
        /\ UNCHANGED judgments

KnownTestReply ==
  /\ stage = "known_test"
  /\ \E v \in Verdicts(Current) :
       LET affirmed == /\ WithinClaim(Current, v)
                       /\ Supports(v) /\ v.resolution = "affirmed"
       IN /\ Conclude(IF affirmed THEN v ELSE Verdict)
          /\ retry' = IF affirmed
                      THEN [retry EXCEPT !.affirmation = [claim |-> Current, verdict |-> v]]
                      ELSE retry
          /\ judgments' = judgments \union
               (IF affirmed THEN Judge("known_test", Current, v) ELSE {})
          /\ UNCHANGED <<claims, batchClaims, exhausted, corroborated, asked>>

\* An optional request that fails leaves the verdict it set out to improve.
OptionalFails ==
  /\ stage \in Optional
  /\ Conclude(Verdict)
  /\ UNCHANGED <<claims, batchClaims, exhausted, corroborated, retry, judgments, asked>>
-----------------------------------------------------------------------------
(* Repaired claims keep id and goal; the text is new, the evidence a part   *)
(* of what was observed.                                                    *)
Narrowed(text, refs) == Restated(Current, text, refs)
Install(claim) ==
  /\ claims' = {c \in claims : c.id # claim.id} \union {claim}
  /\ batchClaims' = [i \in 1..Size |->
       IF batchClaims[i].id = claim.id THEN claim ELSE batchClaims[i]]

\* The definition claim of a symbol trace is narrowed to its source and judged anew.
Trace ==
  Here("trace") /\ Send("trace_claim") /\ UNCHANGED <<retry, judgments, asked>>

DefinitionSource ==
  {o \in Sources(Current.refs \intersect Verdict.refs) : Observation[o].defines}

TraceClaimReply ==
  /\ stage = "trace_claim"
  /\ \E names \in SUBSET Paths(DefinitionSource), leads \in BOOLEAN :
       LET claim == Narrowed(Text("narrowed", names, leads), DefinitionSource)
       IN draft' = [claim |-> Located(GoalOf(Current), claim, Observed), verdict |-> None]
  /\ stage' = "trace_verdict" /\ attempt' = 0
  /\ UNCHANGED <<task, phase, batch, kept, pass, verdicts, uncovered, position, corroborated,
                 retry, judgments, asked>>

TraceVerdictReply ==
  /\ stage = "trace_verdict"
  /\ \E v \in Verdicts(draft.claim) :
       \/ /\ WithinClaim(draft.claim, v)
          /\ Conclude(v)
          /\ Install(draft.claim)
          /\ exhausted' = exhausted \union {Current.goal}
          /\ judgments' = judgments \union Judge("trace", draft.claim, v)
          /\ UNCHANGED <<corroborated, retry, asked>>
       \/ /\ ~WithinClaim(draft.claim, v)
          /\ IF attempt = 0 THEN AskAgain(None) ELSE Stop("failed")
-----------------------------------------------------------------------------
(* Comparisons of two or more paths: a second verifier has to agree on each *)
(* of them.  A comparison found insufficient is restated once in a run from *)
(* the same evidence; the restated claim replaces the first one only when   *)
(* both verifiers support it.                                               *)
\* The verdict stands, or the claim is restated on account of it.
Settle(v) ==
  IF CorrectionContext(GoalOf(Current), Current, v, phase) /\ ~retry.comparison
  THEN /\ verdicts' = [verdicts EXCEPT ![Current.id] = v]
       /\ stage' = "repair_claim" /\ attempt' = 0
       /\ retry' = [retry EXCEPT !.comparison = TRUE]
       /\ asked' = [asked EXCEPT !.comparison = Min({@ + 1, 2})]
       /\ UNCHANGED <<task, phase, batch, kept, pass, uncovered, position, draft, corroborated>>
  ELSE /\ Conclude(v)
       /\ UNCHANGED <<claims, batchClaims, exhausted, corroborated, retry, asked>>

CoversPaths(claim, v) == Paths(claim.refs) \subseteq Paths(v.refs)

Comparison ==
  /\ Here("comparison")
  /\ UNCHANGED judgments
  /\ \/ Supports(Verdict) /\ CoversPaths(Current, Verdict)
        /\ Send("comparison") /\ UNCHANGED <<retry, asked>>
     \/ Supports(Verdict) /\ ~CoversPaths(Current, Verdict)
        /\ Settle(Insufficient(Verdict.refs, "semantic_mismatch"))
     \/ ~Supports(Verdict) /\ Settle(Verdict)

ComparisonReply ==
  FocusedReply("comparison", Current, FALSE, LAMBDA f :
    /\ Settle(MergeComparison(Current, Verdict, f))
    /\ judgments' = judgments \union Judge("comparison", Current, f))

Focused == Current.refs \union
           {o \in Sources(Observed) : Observation[o].role \in {"implementation", "config"}}

Restatements ==
  {o.refs : o \in {p \in task.offers : /\ p.goal = Current.goal
                                       /\ p.refs \subseteq Focused
                                       /\ Cardinality(Paths(p.refs)) >= 2}}

RepairClaimReply ==
  /\ stage = "repair_claim"
  /\ \E refs \in Restatements :
       /\ draft' = [claim |-> Narrowed(Text("narrowed", {}, FALSE), refs), verdict |-> None]
       /\ stage' = "repair_verdict" /\ attempt' = 0
       /\ UNCHANGED <<task, phase, batch, kept, pass, verdicts, uncovered, position,
                      corroborated, retry, judgments, asked>>

RepairVerdictReply ==
  /\ stage = "repair_verdict"
  /\ \E v \in Verdicts(draft.claim) :
       IF /\ WithinClaim(draft.claim, v)
          /\ Supports(v) /\ v.resolution = "affirmed" /\ CoversPaths(draft.claim, v)
       THEN /\ draft' = [draft EXCEPT !.verdict = v]
            /\ stage' = "repair_check"
            /\ judgments' = judgments \union Judge("repair", draft.claim, v)
            /\ UNCHANGED <<task, phase, attempt, batch, kept, pass, verdicts, uncovered,
                           position, corroborated, retry, asked>>
       ELSE /\ Conclude(Verdict)
            /\ UNCHANGED <<claims, batchClaims, exhausted, corroborated, retry, judgments, asked>>

\* Mutant: the verdict is taken over, the claim it judged is not.
ReplaceVerdictOnly(claim, v) ==
  IF Supports(v) THEN Conclude(v) /\ UNCHANGED <<claims, batchClaims>>
  ELSE Conclude(Verdict) /\ UNCHANGED <<claims, batchClaims>>
\* Claim and verdict are replaced together.
Replace(claim, v) ==
  IF Supports(v) THEN Conclude(v) /\ Install(claim)
  ELSE Conclude(Verdict) /\ UNCHANGED <<claims, batchClaims>>

RepairCheckReply ==
  FocusedReply("repair_check", draft.claim, TRUE, LAMBDA f :
    /\ Replace(draft.claim, MergeComparison(draft.claim, draft.verdict, f))
    /\ judgments' = judgments \union Judge("comparison", draft.claim, f)
    /\ UNCHANGED <<exhausted, corroborated, retry, asked>>)
-----------------------------------------------------------------------------
(* The gate, and the second pass.                                           *)
FlagsOf(claim) == {flag \in {"inventory", "affirmation", "absence"} :
                     <<claim.id, flag>> \in corroborated}

Gate ==
  /\ stage = "gate"
  /\ LET backed == RiskBacked(Goals, claims, verdicts)
         certified == CertifiedSearches(Goals, claims, backed, task.wrapper)
         gated == [id \in DOMAIN verdicts |->
                     LET c == With(claims, id)
                     IN Gated(GoalOf(c), c, backed[id], task.wrapper, FlagsOf(c), certified)]
         shapeless == {c \in claims : /\ "exhaustive" \in GoalOf(c).traits
                                      /\ Supports(backed[c.id])
                                      /\ gated[c.id].reason = "missing_category"}
     IN /\ verdicts' = gated
        /\ claims' = {Worded(GoalOf(c), c, gated[c.id]) : c \in claims}
        /\ exhausted' = exhausted \union GoalsOf(shapeless)
  /\ stage' = "reduced"
  /\ UNCHANGED <<task, phase, attempt, batch, kept, used, batchClaims, prior, reopened, uncovered,
                 position, draft, corroborated, retry, judgments, asked>>

Finish == stage = "reduced" /\ Stop("done")

\* Mutant: each pass starts with a state of its own.
RetryStateAnew(old) == NothingRetried
\* The retry state belongs to the run, not to the pass.
RetryState(old) == old

\* A goal is open without claims, or with none supported and its proof not out of reach.
OpenWithoutClaims == {g.id : g \in Goals} \ GoalsOf(claims)
Repairable ==
  {c.goal : c \in claims} \ (exhausted \union GoalsOf({c \in claims : Supports(verdicts[c.id])}))

Repair ==
  /\ stage = "reduced" /\ phase = "initial" /\ task.fresh # {}
  /\ \E open \in SUBSET OpenWithoutClaims :
       /\ open # {} \/ Repairable # {}
       /\ reopened' = open
  /\ phase' = "post-repair" /\ prior' = claims
  /\ claims' = {} /\ used' = {} /\ exhausted' = {}
  /\ verdicts' = [id \in {} |-> None] /\ corroborated' = {}
  /\ judgments' = {j \in judgments : j.by = "known_test"}
  /\ stage' = "synthesis" /\ attempt' = 0 /\ batch' = 1 /\ position' = 1
  /\ uncovered' = FALSE
  /\ retry' = RetryState(retry)
  /\ UNCHANGED <<task, kept, batchClaims, draft, asked>>
-----------------------------------------------------------------------------
Next ==
  \/ SynthesisReply \/ NothingToAsk \/ (\E toolCalls \in BOOLEAN : SynthesisMalformed(toolCalls))
  \/ VerifyReply \/ Malformed \/ RequestFails \/ Abort
  \/ Skip \/ AskFocused
  \/ InventoryReply \/ AffirmationReply \/ DirectRefutationReply \/ AbsenceReply
  \/ KnownTest \/ KnownTestReply \/ OptionalFails
  \/ Trace \/ TraceClaimReply \/ TraceVerdictReply
  \/ Comparison \/ ComparisonReply
  \/ RepairClaimReply \/ RepairVerdictReply \/ RepairCheckReply
  \/ Gate \/ Finish \/ Repair

Spec == Init /\ [][Next]_vars
-----------------------------------------------------------------------------
(* Properties.                                                              *)
\* A supported claim is returned as it was judged: whatever restated, narrowed
\* or remembered it, some verifier of this pass, or the remembered recheck,
\* supported exactly this text on exactly this evidence (only the wording of a
\* certified count is the runtime's own).
JudgedAsReturned ==
  stage = "reduced" =>
    \A c \in claims : Supports(verdicts[c.id]) =>
      \E j \in judgments :
        /\ c.id = j.claim.id /\ c.goal = j.claim.goal
        /\ c.refs = j.claim.refs /\ c.measure = j.claim.measure
        /\ c.text \in {j.claim.text, CountText}
        /\ j.verdict.resolution = verdicts[c.id].resolution
        /\ verdicts[c.id].refs \subseteq j.verdict.refs

\* What one verifier may not decide alone: a comparison of several paths, an
\* inventory of the scope, a refutation that rests on searches that found
\* nothing, and every verdict of collect_evidence.
NeedsTwo(claim, v) ==
  LET goal == GoalOf(claim)
  IN \/ goal.policy = "distinct_policy_paths" /\ Cardinality(Paths(claim.refs)) >= 2
     \/ goal.policy = "impact_categories" /\ "part" \notin goal.traits
     \/ /\ goal.policy = "support_or_refute"
        /\ \/ "collect" \in goal.traits
           \/ v.resolution = "refuted" /\ Direct(v.refs) = {}

\* Two different requests supported the claim as it is returned, with the same
\* resolution, and both rest on all the evidence the pass counts as support.
SupportIsCorroborated ==
  stage = "reduced" =>
    \A c \in claims : Supports(verdicts[c.id]) /\ NeedsTwo(c, verdicts[c.id]) =>
      \E j, k \in judgments :
        /\ j.by # k.by
        /\ \A judgment \in {j, k} :
             /\ judgment.claim = c
             /\ judgment.verdict.resolution = verdicts[c.id].resolution
             /\ verdicts[c.id].refs \subseteq judgment.verdict.refs

\* A run rechecks its known test at most once and restates at most one
\* comparison, over both passes, whatever batches and replies come between.
RetriesAreSpentOnce == asked.test <= 1 /\ asked.comparison <= 1

\* What the runtime itself may add to the evidence of a prior claim.
OwnEvidence(goal) ==
  {o \in Sources(Observed) : "companion" \in goal.traits /\ Observation[o].role = "test"}
    \union {o \in Searches(Observed) : "usage" \in goal.traits /\ Observation[o].usage}

\* The words stay, but for a count and for a definition stated in the runtime's
\* own; the runtime may name test files, and state the lines of the source that
\* shows a definition.
SameText(goal, c, p) ==
  \/ goal.policy = "deterministic_count" /\ c.text = CountText
  \/ /\ goal.policy = "symbol_definition"
     /\ \E o \in Sources(c.refs) : Observation[o].defines /\ c.text = DefinitionText({o})
  \/ /\ c.text.words = p.text.words /\ p.text.names \subseteq c.text.names
     /\ c.text.names # p.text.names => goal.traits \intersect {"one_test", "companion"} # {}
     /\ c.text.range # p.text.range =>
          /\ goal.policy = "symbol_definition"
          /\ \E o \in Sources(c.refs) : Observation[o].defines /\ c.text.range = {o}

Carries(c, p) ==
  LET goal == GoalOf(p)
  IN /\ c.measure = p.measure
     /\ \/ /\ "risk" \in goal.traits
           /\ c.text = ImpactText(c.refs) /\ c.refs \subseteq Sources(Observed)
        \/ /\ SameText(goal, c, p)
           /\ c.refs \subseteq p.refs \union task.fresh \union OwnEvidence(goal)
           /\ \/ p.refs \subseteq c.refs
              \/ /\ "one_test" \in goal.traits
                 /\ p.refs \intersect AnchorRefs(Anchor, Observed) \subseteq c.refs

\* A prior claim that survives the second pass keeps its measurement, its words
\* (but where the runtime words a count or a definition itself), the files it
\* names and all its evidence, and gains nothing but fresh evidence and what the
\* runtime itself adds; of a test goal, which may be asked alone now, it keeps at
\* least all its evidence in the test the caller named.  Only a risk boundary may
\* come back as another claim: some sources, and a text that names just their
\* files.  (A claim is known by id and goal: a recovery may set a prior claim
\* aside, and its id is free for another goal then.)
PriorClaimsAreCarried ==
  stage = "reduced" /\ phase = "post-repair" =>
    \A c \in claims, p \in prior : c.id = p.id /\ c.goal = p.goal => Carries(c, p)

\* Prior claims are carried forward even when omitted: no earlier batch may use
\* the id of one, or every reply to the batch of that claim is refused.
PriorIdsStayFree ==
  stage = "synthesis" /\ SynthesisRequests # {} => used \intersect Ids(PriorsOf(Asked)) = {}
=============================================================================
