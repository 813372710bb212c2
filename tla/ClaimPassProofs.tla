--------------------------- MODULE ClaimPassProofs ---------------------------
(***************************************************************************)
(* ClaimPass for any tasks, claims and observations.  The same-evidence    *)
(* retries are spent at most once in a run, over both of its passes; what  *)
(* a pass returns as supported was judged as it is returned, by two        *)
(* verifiers where one may not decide alone; the second pass carries the   *)
(* prior claims on, with fresh evidence and what the runtime writes into   *)
(* them; and every step comes closer to the end.                           *)
(***************************************************************************)
EXTENDS ClaimPass, FiniteSetTheorems, TLAPS

\* A retry that was asked for is marked, and the marks outlive the pass.
RetryInv ==
  /\ retry = [test |-> retry.test, comparison |-> retry.comparison,
              affirmation |-> retry.affirmation]
  /\ asked \in [test : 0..1, comparison : 0..1]
  /\ ~retry.test => asked.test = 0
  /\ ~retry.comparison => asked.comparison = 0

\* What every other step leaves of it: a recheck may be remembered.
Kept ==
  /\ asked' = asked
  /\ \/ retry' = retry
     \/ \E a : retry' = [retry EXCEPT !.affirmation = a]

LEMMA InitRetry == Init => RetryInv
BY DEF Init, RetryInv, NothingRetried

LEMMA KeptRetry == RetryInv /\ Kept => RetryInv'
BY DEF RetryInv, Kept

\* Synthesis and the replies that stop or repeat a request.
LEMMA SynthesisKeeps ==
  ASSUME \/ SynthesisReply \/ NothingToAsk
         \/ \E toolCalls \in BOOLEAN : SynthesisMalformed(toolCalls)
         \/ VerifyReply \/ Malformed \/ RequestFails \/ Abort
  PROVE  Kept
<1>1. ASSUME SynthesisReply PROVE Kept
  BY <1>1 DEF SynthesisReply, Register, AskAgain, Stop, Kept
<1>2. ASSUME NEW toolCalls \in BOOLEAN, SynthesisMalformed(toolCalls) PROVE Kept
  BY <1>2 DEF SynthesisMalformed, Register, AskAgain, Stop, Kept
<1>3. ASSUME NothingToAsk \/ RequestFails \/ Abort PROVE Kept
  <2>1. Stop("gate") \/ Stop("failed")
    BY <1>3 DEF NothingToAsk, RequestFails, Abort
  <2> QED BY <2>1 DEF Stop, Kept
<1>5. ASSUME Malformed PROVE Kept
  <2>1. AskAgain(None) \/ Stop("failed")
    BY <1>5 DEF Malformed
  <2> QED BY <2>1 DEF AskAgain, Stop, Kept
<1>4. ASSUME VerifyReply PROVE Kept
  <2>1. AskAgain(None) \/ \E parts \in BOOLEAN : \E reply : Accept(reply, parts)
    BY <1>4 DEF VerifyReply
  <2>2. ASSUME NEW parts, NEW reply, Accept(reply, parts) PROVE Kept
    BY <2>2 DEF Accept, Kept
  <2>3. AskAgain(None) => Kept
    BY DEF AskAgain, Kept
  <2> QED BY <2>1, <2>2, <2>3
<1> QED BY <1>1, <1>2, <1>3, <1>4, <1>5

\* The focused steps other than the two that try again.
LEMMA FocusedKeeps ==
  ASSUME \/ Skip \/ AskFocused
         \/ InventoryReply \/ AffirmationReply \/ DirectRefutationReply \/ AbsenceReply
         \/ KnownTestReply \/ OptionalFails
         \/ Trace \/ TraceClaimReply \/ TraceVerdictReply
         \/ RepairClaimReply \/ RepairVerdictReply \/ RepairCheckReply
  PROVE  Kept
<1>1. ASSUME Skip PROVE Kept
  BY <1>1 DEF Skip, Kept
<1>2. ASSUME AskFocused PROVE Kept
  BY <1>2 DEF AskFocused, Send, Kept
<1>3. ASSUME InventoryReply PROVE Kept
  BY <1>3 DEF InventoryReply, Plain, FocusedReply, AskAgain, Kept
<1>4. ASSUME AffirmationReply PROVE Kept
  BY <1>4 DEF AffirmationReply, Plain, FocusedReply, AskAgain, Kept
<1>5. ASSUME DirectRefutationReply PROVE Kept
  BY <1>5 DEF DirectRefutationReply, Plain, FocusedReply, AskAgain, Kept
<1>6. ASSUME AbsenceReply PROVE Kept
  BY <1>6 DEF AbsenceReply, Plain, FocusedReply, AskAgain, Kept
<1>7. ASSUME KnownTestReply PROVE Kept
  BY <1>7 DEF KnownTestReply, Kept
<1>8. ASSUME OptionalFails PROVE Kept
  BY <1>8 DEF OptionalFails, Kept
<1>9. ASSUME Trace \/ TraceClaimReply PROVE Kept
  BY <1>9 DEF Trace, TraceClaimReply, Send, Kept
<1>10. ASSUME TraceVerdictReply PROVE Kept
  BY <1>10 DEF TraceVerdictReply, AskAgain, Stop, Kept
<1>11. ASSUME RepairClaimReply \/ RepairVerdictReply PROVE Kept
  BY <1>11 DEF RepairClaimReply, RepairVerdictReply, Kept
<1>12. ASSUME RepairCheckReply PROVE Kept
  BY <1>12 DEF RepairCheckReply, FocusedReply, AskAgain, Kept
<1> QED BY <1>1, <1>2, <1>3, <1>4, <1>5, <1>6, <1>7, <1>8, <1>9, <1>10, <1>11, <1>12

LEMMA FirstOfTwo == Min({0 + 1, 2}) = 1
<1>1. \E x \in {1, 2} : \A y \in {1, 2} : x <= y
  OBVIOUS
<1>2. \A x \in {1, 2} : (\A y \in {1, 2} : x <= y) => x = 1
  OBVIOUS
<1>3. Min({1, 2}) = 1
  BY <1>1, <1>2 DEF Min
<1> QED BY <1>3

\* The known test is rechecked only while its retry is unspent, and spends it.
LEMMA KnownTestRetry == RetryInv /\ KnownTest => RetryInv'
<1> SUFFICES ASSUME RetryInv, KnownTest PROVE RetryInv'
  OBVIOUS
<1>1. CASE asked' = asked /\ retry' = retry
  BY <1>1, KeptRetry DEF Kept
<1>2. CASE /\ ~retry.test /\ retry' = [retry EXCEPT !.test = TRUE]
           /\ asked' = [asked EXCEPT !.test = Min({asked.test + 1, 2})]
  <2>1. Min({asked.test + 1, 2}) = 1
    BY <1>2, FirstOfTwo DEF RetryInv
  <2>2. retry'.test = TRUE /\ retry'.comparison = retry.comparison
    BY <1>2 DEF RetryInv
  <2>3. asked'.comparison = asked.comparison /\ asked' \in [test : 0..1, comparison : 0..1]
    BY <1>2, <2>1 DEF RetryInv
  <2>4. retry' = [test |-> retry'.test, comparison |-> retry'.comparison,
                  affirmation |-> retry'.affirmation]
    BY <1>2 DEF RetryInv
  <2> QED BY <2>2, <2>3, <2>4 DEF RetryInv
<1> QED BY <1>1, <1>2 DEF KnownTest

\* A comparison is restated only while its retry is unspent, and spends it.
LEMMA SettleRetry ==
  ASSUME RetryInv, NEW v, Settle(v)
  PROVE  RetryInv'
<1>1. CASE asked' = asked /\ retry' = retry
  BY <1>1, KeptRetry DEF Kept
<1>2. CASE /\ ~retry.comparison /\ retry' = [retry EXCEPT !.comparison = TRUE]
           /\ asked' = [asked EXCEPT !.comparison = Min({asked.comparison + 1, 2})]
  <2>1. Min({asked.comparison + 1, 2}) = 1
    BY <1>2, FirstOfTwo DEF RetryInv
  <2>2. retry'.comparison = TRUE /\ retry'.test = retry.test
    BY <1>2 DEF RetryInv
  <2>3. asked'.test = asked.test /\ asked' \in [test : 0..1, comparison : 0..1]
    BY <1>2, <2>1 DEF RetryInv
  <2>4. retry' = [test |-> retry'.test, comparison |-> retry'.comparison,
                  affirmation |-> retry'.affirmation]
    BY <1>2 DEF RetryInv
  <2> QED BY <2>2, <2>3, <2>4 DEF RetryInv
<1> QED BY <1>1, <1>2 DEF Settle

LEMMA ComparisonRetry == RetryInv /\ (Comparison \/ ComparisonReply) => RetryInv'
<1> SUFFICES ASSUME RetryInv, Comparison \/ ComparisonReply PROVE RetryInv'
  OBVIOUS
<1>1. CASE asked' = asked /\ retry' = retry
  BY <1>1, KeptRetry DEF Kept
<1>2. CASE \E v : Settle(v)
  BY <1>2, SettleRetry
<1> QED BY <1>1, <1>2 DEF Comparison, ComparisonReply, FocusedReply, AskAgain

\* The gate and the start of the second pass keep the marks.
LEMMA EndOfPassKeeps == Gate \/ Finish \/ Repair => Kept
BY DEF Gate, Finish, Repair, Stop, RetryState, Kept

THEOREM RetryInvariance == Spec => []RetryInv
<1>1. Init => RetryInv
  BY InitRetry
<1>2. ASSUME RetryInv, [Next]_vars PROVE RetryInv'
  <2>1. CASE UNCHANGED vars
    BY <1>2, <2>1 DEF vars, RetryInv
  <2>2. CASE Next
    BY <1>2, <2>2, SynthesisKeeps, FocusedKeeps, EndOfPassKeeps, KeptRetry, KnownTestRetry,
       ComparisonRetry DEF Next
  <2> QED BY <1>2, <2>1, <2>2
<1> QED BY <1>1, <1>2, PTL DEF Spec

\* One recheck of the known test and one restated comparison for a whole run
\* (the retry state of explore(), runtime.mjs:10988), whatever the model returns.
THEOREM SameEvidenceRetriesAreBounded == Spec => []RetriesAreSpentOnce
<1>1. RetryInv => RetriesAreSpentOnce
  BY DEF RetryInv, RetriesAreSpentOnce
<1> QED BY <1>1, RetryInvariance, PTL
-----------------------------------------------------------------------------
(***************************************************************************)
(* What is returned as supported was judged as returned, by two verifiers  *)
(* where one may not decide alone, and the second pass carries each prior  *)
(* claim on.  The invariant follows a claim from its synthesis over its batch *)
(* and its focused steps to the gate.                                      *)
(***************************************************************************)
RequestPolicy ==
  [known_test |-> "direct_source", trace_claim |-> "symbol_definition",
   trace_verdict |-> "symbol_definition", inventory |-> "impact_categories",
   comparison |-> "distinct_policy_paths", repair_claim |-> "distinct_policy_paths",
   repair_verdict |-> "distinct_policy_paths", repair_check |-> "distinct_policy_paths",
   affirmation |-> "support_or_refute", direct_refutation |-> "support_or_refute",
   absence |-> "support_or_refute"]
Focusing == {"focus"} \union DOMAIN RequestPolicy
Reviewing == {"verify"} \union Focusing

\* Claims have ids of their own, registered, and goals of the task.
IdsInv ==
  /\ task \in Tasks /\ phase \in {"initial", "post-repair"}
  /\ OneClaimPerId(claims) /\ Ids(claims) \subseteq used
  /\ GoalsOf(claims) \union GoalsOf(prior) \subseteq {g.id : g \in Goals}
  /\ verdicts = [id \in DOMAIN verdicts |-> verdicts[id]]

\* Nothing is judged while claims are synthesized, and a batch is left.
SynthesisInv ==
  stage = "synthesis" =>
    /\ DOMAIN verdicts = {} /\ corroborated = {}
    /\ batch \in Nat
    /\ IF SynthesisRequests = {} THEN claims = {}
       ELSE \E s \in SynthesisRequests : batch <= s
PriorInv ==
  phase = "post-repair" =>
    /\ OneClaimPerId(prior)
    /\ \A c \in claims, p \in prior : c.id = p.id /\ c.goal = p.goal => Carries(c, p)

RefusedInv ==
  kept # None =>
    /\ stage = "synthesis" /\ SynthesisRequests # {}
    /\ \A c \in kept : c.refs # {}
    /\ Sound(Candidates(kept), Asked, used, Visible)

\* Every claim has its verdict once its batch is reached.
Reached(c) ==
  \E s \in VerificationRequests(claims) :
    /\ c \in ClaimsAt(claims, s)
    /\ s < batch \/ (s = batch /\ stage # "verify")
BatchInv ==
  /\ stage \in Reviewing =>
       /\ batch \in VerificationRequests(claims)
       /\ batchClaims \in Seq(claims)
       /\ ToSet(batchClaims) = ClaimsAt(claims, batch)
       /\ \A c \in claims : c.id \in DOMAIN verdicts <=> Reached(c)
  /\ stage = "gate" => Ids(claims) \subseteq DOMAIN verdicts

\* Every focused request has a claim whose goal has the policy it is about.
FocusInv ==
  /\ stage \in Focusing => position \in Nat \ {0}
  /\ stage \in DOMAIN RequestPolicy =>
       position <= LastPosition /\ GoalOf(Current).policy = RequestPolicy[stage]
  /\ stage \in {"trace_claim", "trace_verdict", "repair_claim", "repair_verdict", "repair_check"}
       => phase = "initial"
  /\ stage \in {"repair_claim", "repair_verdict", "repair_check"} => ~Supports(Verdict)
  /\ stage \in {"trace_verdict", "repair_verdict", "repair_check"} =>
       /\ draft = [claim |-> draft.claim, verdict |-> draft.verdict]
       /\ draft.claim.id = Current.id /\ draft.claim.goal = Current.goal
  /\ stage = "repair_check" =>
       \E j \in judgments :
         j.by = "repair" /\ j.claim = draft.claim /\ j.verdict = draft.verdict
RecheckInv ==
  retry.affirmation # None =>
    \E j \in judgments :
      /\ j.by = "known_test"
      /\ j.claim = retry.affirmation.claim /\ j.verdict = retry.affirmation.verdict

First == {"primary", "known_test", "trace", "repair"}
Second == {"inventory", "comparison", "affirmation", "direct_refutation", "absence"}
Rests(j, c, v) ==
  j.claim = c /\ j.verdict.resolution = v.resolution /\ v.refs \subseteq j.verdict.refs
Once(c, v) == \E j \in judgments : j.by \in First /\ Rests(j, c, v)
Twice(c, v) ==
  \E j, k \in judgments : /\ j.by \in First /\ Rests(j, c, v)
                          /\ k.by \in Second /\ Rests(k, c, v)

Judged(c) == c.id \in DOMAIN verdicts /\ Supports(verdicts[c.id])
\* What the steps of a batch leave of a claim they are through with.
Compared(c) ==
  Judged(c) /\ GoalOf(c).policy = "distinct_policy_paths" /\ Cardinality(Paths(c.refs)) >= 2
    => Twice(c, verdicts[c.id])
Refuted(c) ==
  Judged(c) /\ DirectRefutationContext(GoalOf(c), c, verdicts[c.id]) => Twice(c, verdicts[c.id])

SupportInv ==
  stage \in Reviewing \union {"gate"} =>
    /\ \A c \in claims : Judged(c) => Once(c, verdicts[c.id])
    /\ \A c \in claims, flag \in {"inventory", "affirmation", "absence"} :
         <<c.id, flag>> \in corroborated =>
           /\ c.id \in DOMAIN verdicts
           /\ GoalOf(c).policy \in {"impact_categories", "support_or_refute"}
           /\ Judged(c) => Twice(c, verdicts[c.id])
ClearedInv ==
  /\ stage = "gate" => \A c \in claims : Compared(c) /\ Refuted(c)
  /\ stage \in Reviewing => \A c \in claims \ ToSet(batchClaims) : Compared(c) /\ Refuted(c)
  /\ stage \in Focusing =>
       \A i \in 1..Size :
         /\ position > 3 * Size + i => Compared(batchClaims[i])
         /\ position > 5 * Size + i => Refuted(batchClaims[i])

ReducedInv == JudgedAsReturned /\ SupportIsCorroborated /\ PriorClaimsAreCarried

Inv ==
  /\ IdsInv /\ SynthesisInv /\ PriorInv /\ RefusedInv /\ BatchInv /\ FocusInv /\ RecheckInv
  /\ SupportInv /\ ClearedInv /\ ReducedInv
-----------------------------------------------------------------------------
(* Numbers: a nonempty set of naturals has a least member, and a position   *)
(* names one step and one claim of the batch.                               *)
LEMMA LeastNatural ==
  ASSUME NEW T \in SUBSET Nat, T # {}
  PROVE  \E m \in T : \A k \in T : m <= k
<1> DEFINE Up == {0 .. n : n \in T}
<1>1. Up \subseteq FiniteSubsetsOf(Nat)
  <2>1. \A n \in T : IsFiniteSet(0 .. n) /\ 0 .. n \in SUBSET Nat
    BY FS_Interval
  <2> QED BY <2>1 DEF FiniteSubsetsOf
<1>2. Up # {}
  OBVIOUS
<1>3. IsWellFoundedOn(StrictSubsetOrdering(Nat), FiniteSubsetsOf(Nat))
  BY FS_StrictSubsetOrderingWellFounded
<1> HIDE DEF Up
<1>4. PICK x \in Up : \A y \in Up : ~ (<<y, x>> \in StrictSubsetOrdering(Nat))
  BY <1>1, <1>2, <1>3, WFMin
<1>5. PICK m \in T : x = 0 .. m
  BY DEF Up
<1>6. ASSUME NEW k \in T, ~(m <= k) PROVE FALSE
  <2>1. 0 .. k \in Up
    BY DEF Up
  <2>2. 0 .. k \subseteq 0 .. m /\ 0 .. k # 0 .. m
    BY <1>6
  <2>3. <<0 .. k, x>> \in StrictSubsetOrdering(Nat)
    BY <1>5, <2>2 DEF StrictSubsetOrdering
  <2> QED BY <2>1, <2>3, <1>4
<1> QED BY <1>6

LEMMA MinOfNaturals ==
  ASSUME NEW S \in SUBSET Nat, S # {}
  PROVE  Min(S) \in S /\ \A x \in S : Min(S) <= x
<1>1. \E x \in S : \A y \in S : x <= y
  BY LeastNatural
<1> QED BY <1>1 DEF Min

LEMMA ClaimOfPosition ==
  ASSUME NEW n \in Nat, NEW p \in Nat \ {0}, p <= 7 * n
  PROVE  ((p - 1) % n) + 1 \in 1..n
<1>1. n > 0 /\ p - 1 \in Nat
  OBVIOUS
<1>2. (p - 1) % n \in 0 .. n - 1
  BY <1>1
<1> QED BY <1>2

LEMMA StepOfPosition ==
  ASSUME NEW n \in Nat \ {0}, NEW k \in Nat, NEW i \in 1..n
  PROVE  /\ (k * n + i - 1) \div n = k
         /\ ((k * n + i - 1) % n) + 1 = i
<1> DEFINE x == k * n + i - 1
           q == x \div n
           r == x % n
<1>1. x \in Nat /\ k * n \in Nat
  OBVIOUS
<1>2. r \in 0 .. n - 1 /\ q \in Int /\ x = n * q + r
  BY <1>1
<1> HIDE DEF q, r
<1>3. n * (q - k) = i - 1 - r /\ q - k \in Int
  BY <1>2
<1>4. i - 1 - r < n /\ i - 1 - r > -n
  BY <1>2
<1>5. ~(q - k >= 1)
  <2>1. ASSUME q - k >= 1 PROVE n * (q - k) >= n
    BY <2>1, <1>3
  <2> QED BY <2>1, <1>2, <1>3, <1>4
<1>6. ~(q - k <= -1)
  <2>1. ASSUME q - k <= -1 PROVE n * (q - k) <= -n
    BY <2>1, <1>3
  <2> QED BY <2>1, <1>2, <1>3, <1>4
<1>7. q = k
  BY <1>2, <1>3, <1>5, <1>6
<1>8. r = i - 1
  BY <1>2, <1>3, <1>7
<1> QED BY <1>2, <1>7, <1>8 DEF q, r
-----------------------------------------------------------------------------
(* Batches: every goal is in the batch of one start and in no other.        *)
LEMMA BatchCovers ==
  ASSUME NEW goals \in SUBSET Nat, NEW mode, NEW i \in goals
  PROVE  \E s \in Starts(goals, mode) : i \in BatchAt(goals, mode, s)
<1> DEFINE Before == {s \in Starts(goals, mode) : s <= i}
           Gaps == {i - s : s \in Before}
<1>1. PICK m \in goals : \A k \in goals : m <= k
  BY LeastNatural
<1>2. m \in Starts(goals, mode)
  <2>1. \A j \in goals : j <= m <=> j = m
    BY <1>1
  <2>4. Row(goals, mode, m) = {m}
    BY <2>1 DEF Row
  <2>2. Cardinality({m}) = 1
    BY FS_Singleton
  <2>3. (1 - 1) % BatchSize = 0
    BY RulesAssumption
  <2> QED BY <2>2, <2>3, <2>4 DEF Starts
<1>3. Gaps \in SUBSET Nat /\ Gaps # {}
  <2>1. Before \subseteq goals /\ m \in Before
    BY <1>1, <1>2 DEF Starts
  <2>2. \A s \in Before : i \in Nat /\ s \in Nat /\ s <= i
    BY <2>1
  <2> HIDE DEF Before
  <2>3. \A s \in Before : i - s \in Nat
    BY <2>2
  <2> QED BY <2>1, <2>3
<1>4. PICK d \in Gaps : \A e \in Gaps : d <= e
  BY <1>3, LeastNatural
<1>5. PICK s \in Before : d = i - s
  BY <1>4
<1>6. \A t \in Starts(goals, mode) : t <= s \/ i < t
  <2> SUFFICES ASSUME NEW t \in Starts(goals, mode), t <= i PROVE t <= s
    <3>1. \A t \in Starts(goals, mode) : t \in Nat
      BY DEF Starts
    <3> QED BY <3>1
  <2>1. i - t \in Gaps /\ t \in Nat /\ s \in Nat
    BY DEF Starts
  <2> QED BY <2>1, <1>4, <1>5
<1> QED BY <1>5, <1>6 DEF BatchAt

LEMMA BatchesAreApart ==
  ASSUME NEW goals \in SUBSET Nat, NEW mode,
         NEW s \in Starts(goals, mode), NEW t \in Starts(goals, mode),
         NEW i \in BatchAt(goals, mode, s), i \in BatchAt(goals, mode, t)
  PROVE  s = t
<1>1. s \in Nat /\ t \in Nat /\ i \in Nat
  BY DEF Starts, BatchAt
<1> QED BY <1>1 DEF BatchAt
-----------------------------------------------------------------------------
(* Goals and claims under a fixed task.                                     *)
LEMMA PositionsAreNaturals ==
  ASSUME IdsInv
  PROVE  /\ Positions \subseteq Nat \ {0}
         /\ \A i, j \in Positions : task.goals[i].id = task.goals[j].id => i = j
<1>1. task.goals \in Seq(ToSet(task.goals))
  BY TasksAssumption DEF IdsInv
<1>2. DOMAIN task.goals = 1 .. Len(task.goals) /\ Len(task.goals) \in Nat
  BY <1>1
<1> QED BY <1>2, TasksAssumption DEF IdsInv, Positions

LEMMA GoalAtPosition ==
  ASSUME IdsInv, NEW c \in claims \union prior
  PROVE  \E i \in Positions : task.goals[i].id = c.goal
<1>1. PICK g \in Goals : g.id = c.goal
  BY DEF IdsInv, GoalsOf
<1>2. PICK i \in DOMAIN task.goals : task.goals[i] = g
  BY DEF Goals, ToSet
<1> QED BY <1>1, <1>2 DEF Positions

LEMMA RequestsAreNaturals ==
  ASSUME IdsInv
  PROVE  /\ \A cs : Verifiable(cs) \in SUBSET Nat /\ VerificationRequests(cs) \in SUBSET Nat
         /\ SynthesisRequests \in SUBSET Nat /\ 0 \notin SynthesisRequests
         /\ Active \in SUBSET Nat
BY PositionsAreNaturals DEF Verifiable, VerificationRequests, SynthesisRequests, Starts, Active

\* Every claim is in the verification batch of one start, and in no other.
LEMMA ClaimsAreVerified ==
  ASSUME IdsInv, NEW c \in claims
  PROVE  \E s \in VerificationRequests(claims) : c \in ClaimsAt(claims, s)
<1>1. PICK i \in Positions : task.goals[i].id = c.goal
  BY GoalAtPosition
<1>2. i \in Verifiable(claims)
  BY <1>1 DEF Verifiable, GoalsOf
<1>3. \E s \in Starts(Verifiable(claims), AnyMode) : i \in BatchAt(Verifiable(claims), AnyMode, s)
  BY <1>2, RequestsAreNaturals, BatchCovers
<1> QED BY <1>1, <1>3 DEF VerificationRequests, ClaimsAt

LEMMA ClaimsAreVerifiedOnce ==
  ASSUME IdsInv, NEW c \in claims,
         NEW s \in VerificationRequests(claims), NEW t \in VerificationRequests(claims),
         c \in ClaimsAt(claims, s), c \in ClaimsAt(claims, t)
  PROVE  s = t
<1>1. PICK i \in BatchAt(Verifiable(claims), AnyMode, s) : task.goals[i].id = c.goal
  BY DEF ClaimsAt
<1>2. PICK j \in BatchAt(Verifiable(claims), AnyMode, t) : task.goals[j].id = c.goal
  BY DEF ClaimsAt
<1>3. i = j
  BY <1>1, <1>2, PositionsAreNaturals DEF BatchAt, Verifiable
<1> QED BY <1>1, <1>2, <1>3, RequestsAreNaturals, BatchesAreApart DEF VerificationRequests

\* A request about a claim has one, and its verdict is there.
LEMMA CurrentIsJudged ==
  ASSUME IdsInv, BatchInv, stage \in Focusing, position \in Nat \ {0}, position <= LastPosition
  PROVE  /\ Size \in Nat \ {0}
         /\ ((position - 1) % Size) + 1 \in 1..Size
         /\ Current = batchClaims[((position - 1) % Size) + 1]
         /\ Current \in claims /\ Current \in ToSet(batchClaims)
         /\ Current.id \in DOMAIN verdicts
<1>1. stage \in Reviewing /\ stage # "verify"
  BY DEF Reviewing, Focusing, RequestPolicy
<1>2. batchClaims \in Seq(claims) /\ Len(batchClaims) \in Nat
  BY <1>1 DEF BatchInv
<1>3. LastPosition = 7 * Size
  BY DEF LastPosition, Steps
<1>4. Size \in Nat \ {0} /\ position <= 7 * Size
  BY <1>2, <1>3 DEF Size
<1>5. ((position - 1) % Size) + 1 \in 1..Size
  BY <1>4, ClaimOfPosition
<1>6. Current = batchClaims[((position - 1) % Size) + 1]
  BY DEF Current, Claim
<1>7. Current \in claims /\ Current \in ToSet(batchClaims)
  BY <1>2, <1>5, <1>6 DEF Size, ToSet
<1>8. Reached(Current)
  BY <1>1, <1>7 DEF BatchInv, Reached
<1> QED BY <1>1, <1>4, <1>5, <1>6, <1>7, <1>8 DEF BatchInv
-----------------------------------------------------------------------------
(* What steps that leave claims or verdicts alone keep.                     *)
LEMMA IdsFrame ==
  ASSUME IdsInv, UNCHANGED <<task, phase, claims, used, prior, verdicts>>
  PROVE  IdsInv'
BY DEF IdsInv, Goals

LEMMA AnchorFrame ==
  ASSUME UNCHANGED <<task, phase>>
  PROVE  Anchor' = Anchor /\ Observed' = Observed /\ Goals' = Goals /\ Fresh' = Fresh
<1>1. Goals' = Goals /\ Observed' = Observed /\ Fresh' = Fresh
  BY DEF Goals, Observed, Fresh
<1>2. AnchorGoals' = AnchorGoals
  BY <1>1 DEF AnchorGoals
<1> QED BY <1>1, <1>2 DEF Anchor

LEMMA CarriesFrame ==
  ASSUME UNCHANGED <<task, phase>>
  PROVE  \A c, p : Carries(c, p) => Carries(c, p)'
BY AnchorFrame DEF Carries, GoalOf, OwnEvidence

LEMMA PriorFrame ==
  ASSUME PriorInv, UNCHANGED <<task, phase, claims, prior>>
  PROVE  PriorInv'
BY CarriesFrame DEF PriorInv

LEMMA RecheckFrame ==
  ASSUME RecheckInv, UNCHANGED retry, judgments \subseteq judgments'
  PROVE  RecheckInv'
BY DEF RecheckInv

LEMMA SynthesisFrame ==
  ASSUME UNCHANGED <<task, phase, batch, prior, reopened>>
  PROVE  /\ SynthesisRequests' = SynthesisRequests /\ Asked' = Asked /\ Visible' = Visible
         /\ \A reply : Candidates(reply)' = Candidates(reply)
<1>1. Active' = Active /\ Modes' = Modes
  BY DEF Active, Modes, Positions
<1>2. \A s : GoalsAt(s)' = GoalsAt(s)
  BY <1>1 DEF GoalsAt
<1>3. \A goals : PriorsOf(goals)' = PriorsOf(goals)
  BY DEF PriorsOf
<1>4. SynthesisRequests' = SynthesisRequests
  BY <1>1, <1>2, <1>3, AnchorFrame DEF SynthesisRequests
<1>5. UnderWay' = UnderWay
  BY <1>4 DEF UnderWay
<1>6. Asked' = Asked
  BY <1>2, <1>5 DEF Asked
<1>7. Visible' = Visible
  BY <1>6, AnchorFrame DEF Visible
<1>8. Packet' = Packet
  BY <1>6, <1>7, AnchorFrame DEF Packet
<1>9. \A reply : Candidates(reply)' = Candidates(reply)
  BY <1>3, <1>6, <1>8, AnchorFrame DEF Candidates
<1> QED BY <1>4, <1>6, <1>7, <1>9

\* A stop leaves nothing to be told of, but the claims themselves.
LEMMA StopInv ==
  ASSUME Inv, NEW outcome \in {"failed", "done"}, Stop(outcome)
  PROVE  Inv'
<1>1. UNCHANGED <<task, phase, claims, used, prior, verdicts, retry, judgments>>
  BY DEF Stop, pass
<1>2. stage' \in {"failed", "done"} /\ kept' = None
  BY DEF Stop
<1>3. IdsInv' /\ PriorInv' /\ RecheckInv'
  BY <1>1, IdsFrame, PriorFrame, RecheckFrame DEF Inv
<1>4. SynthesisInv' /\ RefusedInv'
  BY <1>2 DEF SynthesisInv, RefusedInv
<1>5. stage' \notin Reviewing \union {"gate", "reduced"}
  BY <1>2 DEF Reviewing, Focusing, RequestPolicy
<1>6. BatchInv' /\ SupportInv' /\ ClearedInv'
  BY <1>5 DEF BatchInv, SupportInv, ClearedInv, Reviewing
<1>7. FocusInv'
  BY <1>2 DEF FocusInv, Focusing, RequestPolicy
<1>8. ReducedInv'
  BY <1>5 DEF ReducedInv, JudgedAsReturned, SupportIsCorroborated, PriorClaimsAreCarried
<1> QED BY <1>3, <1>4, <1>6, <1>7, <1>8 DEF Inv

LEMMA VerificationFrame ==
  ASSUME UNCHANGED task
  PROVE  /\ Positions' = Positions
         /\ \A cs : /\ Verifiable(cs)' = Verifiable(cs)
                    /\ VerificationRequests(cs)' = VerificationRequests(cs)
                    /\ \A s : ClaimsAt(cs, s)' = ClaimsAt(cs, s)
<1>1. Positions' = Positions /\ AnyMode' = AnyMode
  BY DEF Positions, AnyMode
<1>2. \A cs : Verifiable(cs)' = Verifiable(cs)
  BY <1>1 DEF Verifiable
<1> QED BY <1>1, <1>2 DEF VerificationRequests, ClaimsAt

LEMMA JudgmentsStay ==
  ASSUME judgments \subseteq judgments'
  PROVE  \A c, v : (Once(c, v) => Once(c, v)') /\ (Twice(c, v) => Twice(c, v)')
BY DEF Once, Twice

LEMMA BatchFrame ==
  ASSUME BatchInv, UNCHANGED <<task, batch, claims, batchClaims, verdicts>>,
         stage' \in Focusing => stage \in Focusing,
         stage' = "verify" => stage = "verify",
         stage' = "gate" => stage = "gate"
  PROVE  BatchInv'
<1>1. ASSUME stage' \in Reviewing
      PROVE  stage \in Reviewing /\ (stage = "verify" <=> stage' = "verify")
  BY <1>1 DEF Reviewing, Focusing, RequestPolicy
<1>2. VerificationRequests(claims)' = VerificationRequests(claims)
      /\ \A s : ClaimsAt(claims, s)' = ClaimsAt(claims, s)
  BY VerificationFrame
<1>3. ASSUME stage' \in Reviewing PROVE \A c : Reached(c)' <=> Reached(c)
  BY <1>1, <1>2, <1>3 DEF Reached
<1> QED BY <1>1, <1>2, <1>3 DEF BatchInv

LEMMA SupportFrame ==
  ASSUME SupportInv, UNCHANGED <<task, claims, verdicts, corroborated>>,
         judgments \subseteq judgments',
         stage' \in Reviewing \union {"gate"} => stage \in Reviewing \union {"gate"}
  PROVE  SupportInv'
BY JudgmentsStay DEF SupportInv, Judged, GoalOf, Goals

LEMMA ClearedFrame ==
  ASSUME ClearedInv, UNCHANGED <<task, claims, batchClaims, verdicts, position>>,
         judgments \subseteq judgments',
         stage' \in Focusing => stage \in Focusing,
         stage' = "verify" => stage = "verify",
         stage' = "gate" => stage = "gate"
  PROVE  ClearedInv'
<1>1. stage' \in Reviewing => stage \in Reviewing
  BY DEF Reviewing
<1>2. \A c : (Compared(c) => Compared(c)') /\ (Refuted(c) => Refuted(c)')
  BY JudgmentsStay DEF Compared, Refuted, Judged, GoalOf, Goals
<1>3. Size' = Size
  BY DEF Size
<1> QED BY <1>1, <1>2, <1>3 DEF ClearedInv

LEMMA SamePassInv ==
  ASSUME Inv, RefusedInv',
         UNCHANGED <<task, phase, stage, batch, claims, used, batchClaims, prior, reopened, verdicts,
                     position, draft, corroborated, retry, judgments>>
  PROVE  Inv'
<1>1. IdsInv' /\ PriorInv' /\ RecheckInv'
  BY IdsFrame, PriorFrame, RecheckFrame DEF Inv
<1>2. SynthesisInv'
  BY SynthesisFrame DEF Inv, SynthesisInv
<1>3. BatchInv' /\ SupportInv' /\ ClearedInv'
  BY BatchFrame, SupportFrame, ClearedFrame DEF Inv
<1>4. FocusInv'
  BY DEF Inv, FocusInv, LastPosition, Size, Current, Claim, GoalOf, Goals, Verdict
<1>5. ReducedInv'
  <2>1. JudgedAsReturned'
    BY DEF Inv, ReducedInv, JudgedAsReturned
  <2>2. SupportIsCorroborated'
    BY DEF Inv, ReducedInv, SupportIsCorroborated, NeedsTwo, GoalOf, Goals
  <2>3. PriorClaimsAreCarried'
    BY CarriesFrame DEF Inv, ReducedInv, PriorClaimsAreCarried
  <2> QED BY <2>1, <2>2, <2>3 DEF ReducedInv
<1> QED BY <1>1, <1>2, <1>3, <1>4, <1>5 DEF Inv

\* A request that is repeated finds everything as it was.
LEMMA AskAgainInv ==
  ASSUME Inv, NEW keep, AskAgain(keep),
         keep # None => /\ stage = "synthesis" /\ SynthesisRequests # {}
                        /\ \A c \in keep : c.refs # {}
                        /\ Sound(Candidates(keep), Asked, used, Visible)
  PROVE  Inv'
<1>1. UNCHANGED <<task, phase, stage, batch, claims, used, batchClaims, prior, reopened, verdicts,
                  position, draft, corroborated, retry, judgments>>
  BY DEF AskAgain, pass
<1>2. RefusedInv'
  BY <1>1, SynthesisFrame DEF RefusedInv, AskAgain
<1> QED BY <1>1, <1>2, SamePassInv
-----------------------------------------------------------------------------
(* The focused steps.  All of them end one of two ways: the claim under way *)
(* is waiting for another reply, or it has a verdict and perhaps a new text *)
(* and new evidence, both known to have been judged together.               *)
LEMMA RequestInv ==
  ASSUME Inv, stage \in Focusing, stage' \in Focusing,
         UNCHANGED <<task, phase, batch, kept, claims, used, batchClaims, prior, verdicts,
                     corroborated, position>>,
         judgments \subseteq judgments', FocusInv', RecheckInv'
  PROVE  Inv'
<1>1. /\ stage \notin {"synthesis", "verify", "gate", "reduced"}
      /\ stage' \notin {"synthesis", "verify", "gate", "reduced"}
  BY DEF Focusing, RequestPolicy
<1>2. IdsInv' /\ PriorInv'
  BY IdsFrame, PriorFrame DEF Inv
<1>3. SynthesisInv' /\ RefusedInv' /\ ReducedInv'
  BY <1>1 DEF Inv, SynthesisInv, RefusedInv, ReducedInv, JudgedAsReturned, SupportIsCorroborated,
              PriorClaimsAreCarried
<1>4. BatchInv' /\ SupportInv' /\ ClearedInv'
  BY <1>1, BatchFrame, SupportFrame, ClearedFrame DEF Inv, Reviewing
<1> QED BY <1>2, <1>3, <1>4 DEF Inv

\* A claim that stays as it is may be said to be installed anew.
LEMMA StaysInstalled ==
  ASSUME Inv, stage \in Focusing, position \in Nat \ {0}, position <= LastPosition,
         UNCHANGED <<claims, batchClaims>>
  PROVE  Install(Current)
<1>1. Current \in claims /\ OneClaimPerId(claims)
  BY CurrentIsJudged DEF Inv, IdsInv
<1>2. claims = {c \in claims : c.id # Current.id} \union {Current}
  BY <1>1 DEF OneClaimPerId
<1>3. batchClaims \in Seq(claims)
  BY DEF Inv, BatchInv, Reviewing
<1>4. \A i \in 1..Size : batchClaims[i].id = Current.id => batchClaims[i] = Current
  BY <1>1, <1>3 DEF OneClaimPerId, Size
<1>5. batchClaims = [i \in 1..Size |-> batchClaims[i]]
  BY <1>3 DEF Size
<1>6. batchClaims = [i \in 1..Size |->
                       IF batchClaims[i].id = Current.id THEN Current ELSE batchClaims[i]]
  BY <1>4, <1>5
<1> QED BY <1>2, <1>6 DEF Install

LEMMA ConcludeInv ==
  ASSUME Inv, stage \in Focusing, position \in Nat \ {0}, position <= LastPosition,
         NEW d, NEW v, d.id = Current.id, d.goal = Current.goal,
         phase = "initial" \/ d = Current,
         stage' \in Focusing, position' \in Nat, position' <= position + 1,
         UNCHANGED <<task, phase, batch, kept, used, prior>>,
         verdicts' = [verdicts EXCEPT ![Current.id] = v],
         Install(d),
         judgments \subseteq judgments',
         Supports(v) =>
           /\ Once(d, v)'
           /\ GoalOf(Current).policy \in {"impact_categories", "distinct_policy_paths",
                                          "support_or_refute"} => Twice(d, v)',
         \A id, flag : <<id, flag>> \in corroborated' =>
           \/ <<id, flag>> \in corroborated
           \/ /\ id = Current.id
              /\ GoalOf(Current).policy \in {"impact_categories", "support_or_refute"},
         FocusInv', RecheckInv'
  PROVE  Inv'
<1> DEFINE k == ((position - 1) % Size) + 1
<1>1. /\ stage \notin {"synthesis", "verify", "gate", "reduced"} /\ stage \in Reviewing
      /\ stage' \notin {"synthesis", "verify", "gate", "reduced"} /\ stage' \in Reviewing
  BY DEF Focusing, RequestPolicy, Reviewing
<1>2. /\ Size \in Nat \ {0} /\ k \in 1..Size /\ Current = batchClaims[k]
      /\ Current \in claims /\ Current \in ToSet(batchClaims) /\ Current.id \in DOMAIN verdicts
  BY CurrentIsJudged DEF Inv
<1> HIDE DEF k
<1>3. claims' = {c \in claims : c.id # d.id} \union {d}
  BY DEF Install
<1>4. \A c \in claims : c.id = d.id => c = Current
  BY <1>2 DEF Inv, IdsInv, OneClaimPerId
<1>5. \A c \in claims' : c = d \/ (c \in claims /\ c.id # d.id)
  BY <1>3
<1>6. Ids(claims') = Ids(claims) /\ GoalsOf(claims') = GoalsOf(claims)
  BY <1>2, <1>3, <1>4 DEF Ids, GoalsOf
<1>7. verdicts' = [id \in DOMAIN verdicts |-> IF id = Current.id THEN v ELSE verdicts[id]]
  BY DEF Inv, IdsInv
<1>8. /\ DOMAIN verdicts' = DOMAIN verdicts /\ verdicts'[d.id] = v
      /\ \A id \in DOMAIN verdicts : id # d.id => verdicts'[id] = verdicts[id]
  BY <1>2, <1>7
<1>9. IdsInv'
  <2>1. OneClaimPerId(claims')
    BY <1>5 DEF Inv, IdsInv, OneClaimPerId
  <2>2. verdicts' = [id \in DOMAIN verdicts' |-> verdicts'[id]]
    BY <1>7
  <2> QED BY <1>6, <2>1, <2>2 DEF Inv, IdsInv, Goals
<1>10. PriorInv'
  <2>1. CASE phase = "initial"
    BY <2>1 DEF PriorInv
  <2>2. CASE d = Current
    <3>1. claims' = claims
      BY <1>2, <1>3, <1>4, <2>2
    <3> QED BY <3>1, PriorFrame DEF Inv
  <2> QED BY <2>1, <2>2
<1>11. SynthesisInv' /\ RefusedInv' /\ ReducedInv'
  BY <1>1 DEF Inv, SynthesisInv, RefusedInv, ReducedInv, JudgedAsReturned, SupportIsCorroborated,
              PriorClaimsAreCarried
\* The batch and the claims that wait are as before.
<1>12. batchClaims \in Seq(claims)
  BY <1>1 DEF Inv, BatchInv
<1>13. /\ Len(batchClaims') = Size /\ Size' = Size
       /\ \A i \in 1..Size :
            batchClaims'[i] = IF batchClaims[i].id = d.id THEN d ELSE batchClaims[i]
  BY <1>2 DEF Install, Size
<1>14. /\ ToSet(batchClaims) = {batchClaims[i] : i \in 1..Size}
       /\ ToSet(batchClaims') = {batchClaims'[i] : i \in 1..Size}
  BY <1>12 DEF ToSet, Size, Install
<1>15. ToSet(batchClaims') = {c \in ToSet(batchClaims) : c.id # d.id} \union {d}
  BY <1>2, <1>13, <1>14
<1>16. Verifiable(claims)' = Verifiable(claims)
       /\ VerificationRequests(claims)' = VerificationRequests(claims)
  <2>1. Verifiable(claims)' = Verifiable(claims)
    BY <1>6 DEF Verifiable, Positions
  <2> QED BY <2>1 DEF VerificationRequests, AnyMode, Positions
<1>17. \A s : ClaimsAt(claims, s)' =
                {c \in claims' : \E i \in BatchAt(Verifiable(claims), AnyMode, s) :
                                   task.goals[i].id = c.goal}
  BY <1>16 DEF ClaimsAt, AnyMode, Positions
<1>18. \A s : /\ \A c \in claims' \ {d} : c \in ClaimsAt(claims, s)' <=> c \in ClaimsAt(claims, s)
              /\ d \in ClaimsAt(claims, s)' <=> Current \in ClaimsAt(claims, s)
  BY <1>2, <1>3, <1>5, <1>17 DEF ClaimsAt
<1>19. /\ \A c \in claims' \ {d} : Reached(c)' <=> Reached(c)
       /\ Reached(d)' <=> Reached(Current)
  BY <1>1, <1>16, <1>18 DEF Reached
<1>20. BatchInv'
  <2>1. batchClaims' \in Seq(claims')
    <3>1. \A i \in 1..Size : batchClaims'[i] \in claims'
      BY <1>3, <1>12, <1>13 DEF Size
    <3>2. batchClaims' \in [1..Size -> claims']
      BY <3>1 DEF Install
    <3> QED BY <1>2, <3>2
  <2>2. ToSet(batchClaims') = ClaimsAt(claims, batch)'
    <3>1. ToSet(batchClaims) = ClaimsAt(claims, batch)
      BY <1>1 DEF Inv, BatchInv
    <3>2. ClaimsAt(claims, batch)' =
            {c \in claims' : \E i \in BatchAt(Verifiable(claims), AnyMode, batch) :
                               task.goals[i].id = c.goal}
      BY <1>16 DEF ClaimsAt, AnyMode, Positions
    <3>3. /\ \A c \in claims' \ {d} : c \in ClaimsAt(claims, batch)' <=> c \in ToSet(batchClaims)
          /\ d \in ClaimsAt(claims, batch)'
      BY <1>2, <1>3, <1>5, <3>1, <3>2 DEF ClaimsAt
    <3>4. ToSet(batchClaims) \subseteq claims /\ ClaimsAt(claims, batch)' \subseteq claims'
      BY <3>1, <3>2 DEF ClaimsAt
    <3> QED BY <1>3, <1>5, <1>15, <3>3, <3>4
  <2>3. \A c \in claims' : c.id \in DOMAIN verdicts' <=> Reached(c)'
    BY <1>1, <1>2, <1>5, <1>8, <1>19 DEF Inv, BatchInv
  <2> QED BY <1>1, <1>16, <2>1, <2>2, <2>3 DEF Inv, BatchInv
\* The claim concluded has what it needs, and no other lost it.
<1>21. SupportInv'
  <2>1. ASSUME NEW c \in claims', Judged(c)' PROVE Once(c, verdicts[c.id])'
    <3>1. CASE c = d
      BY <1>8, <2>1, <3>1 DEF Judged
    <3>2. CASE c \in claims /\ c.id # d.id
      BY <1>1, <1>8, <2>1, <3>2, JudgmentsStay DEF Judged, Inv, SupportInv
    <3> QED BY <1>5, <3>1, <3>2
  <2>2. ASSUME NEW c \in claims', NEW flag \in {"inventory", "affirmation", "absence"},
               <<c.id, flag>> \in corroborated'
        PROVE  /\ c.id \in DOMAIN verdicts'
               /\ GoalOf(c)'.policy \in {"impact_categories", "support_or_refute"}
               /\ Judged(c)' => Twice(c, verdicts[c.id])'
    <3>1. CASE c = d
      <4>1. GoalOf(d)' = GoalOf(Current)
        BY DEF GoalOf, Goals
      <4>2. GoalOf(Current).policy \in {"impact_categories", "support_or_refute"}
        BY <1>1, <1>2, <2>2, <3>1 DEF Inv, SupportInv
      <4> QED BY <1>2, <1>8, <3>1, <4>1, <4>2 DEF Judged
    <3>2. CASE c \in claims /\ c.id # d.id
      <4>1. <<c.id, flag>> \in corroborated
        BY <2>2, <3>2
      <4> QED BY <1>1, <1>8, <3>2, <4>1, JudgmentsStay DEF Judged, Inv, SupportInv, GoalOf, Goals
    <3> QED BY <1>5, <3>1, <3>2
  <2> QED BY <2>1, <2>2 DEF SupportInv
<1>22. Compared(d)' /\ Refuted(d)'
  <2>1. GoalOf(d)' = GoalOf(Current)
    BY DEF GoalOf, Goals
  <2>2. Judged(d)' => Supports(v)
    BY <1>8 DEF Judged
  <2> QED BY <1>8, <2>1, <2>2 DEF Compared, Refuted, DirectRefutationContext
<1>23. \A c \in claims : c.id # d.id =>
         (Compared(c) => Compared(c)') /\ (Refuted(c) => Refuted(c)')
  BY <1>8, JudgmentsStay DEF Compared, Refuted, Judged, GoalOf, Goals
<1>24. ClearedInv'
  <2>1. ASSUME NEW c \in claims' \ ToSet(batchClaims') PROVE Compared(c)' /\ Refuted(c)'
    <3>1. c \in claims \ ToSet(batchClaims) /\ c.id # d.id
      BY <1>5, <1>15
    <3> QED BY <1>1, <1>23, <3>1 DEF Inv, ClearedInv
  <2>2. ASSUME NEW i \in 1..Size
        PROVE  /\ position' > 3 * Size + i => Compared(batchClaims[i])'
               /\ position' > 5 * Size + i => Refuted(batchClaims[i])'
    <3>1. CASE batchClaims[i].id = d.id
      BY <1>13, <1>22, <3>1
    <3>2. CASE batchClaims[i].id # d.id
      <4>1. batchClaims'[i] = batchClaims[i] /\ batchClaims[i] \in claims /\ i # k
        BY <1>2, <1>12, <1>13, <3>2 DEF Size
      <4>2. position # 3 * Size + i /\ position # 5 * Size + i
        <5>1. ((3 * Size + i - 1) % Size) + 1 = i /\ ((5 * Size + i - 1) % Size) + 1 = i
          BY <1>2, StepOfPosition
        <5>2. 3 * Size + i - 1 = (3 * Size + i) - 1 /\ 5 * Size + i - 1 = (5 * Size + i) - 1
          BY <1>2
        <5>3. position = 3 * Size + i => k = i
          BY <5>1, <5>2, Zenon DEF k
        <5>4. position = 5 * Size + i => k = i
          BY <5>1, <5>2, Zenon DEF k
        <5> QED BY <4>1, <5>3, <5>4
      <4>3. /\ position' > 3 * Size + i => position > 3 * Size + i
            /\ position' > 5 * Size + i => position > 5 * Size + i
        BY <1>2, <4>2
      <4>4. PICK c \in claims : c = batchClaims[i] /\ c = batchClaims'[i] /\ c.id # d.id
        BY <3>2, <4>1
      <4>5. /\ position > 3 * Size + i => Compared(c)
            /\ position > 5 * Size + i => Refuted(c)
        BY <4>4 DEF Inv, ClearedInv
      <4>6. /\ position' > 3 * Size + i => Compared(c)'
            /\ position' > 5 * Size + i => Refuted(c)'
        BY <1>23, <4>3, <4>4, <4>5
      <4> QED BY <4>4, <4>6
    <3> QED BY <3>1, <3>2
  <2> QED BY <1>1, <1>13, <2>1, <2>2 DEF ClearedInv
<1> QED BY <1>9, <1>10, <1>11, <1>20, <1>21, <1>24 DEF Inv
-----------------------------------------------------------------------------
(* The steps that send a request.                                           *)
LEMMA CurrentFrame ==
  ASSUME UNCHANGED <<task, batchClaims, position>>
  PROVE  /\ Size' = Size /\ LastPosition' = LastPosition /\ Current' = Current
         /\ GoalOf(Current)' = GoalOf(Current)
         /\ verdicts' = verdicts => Verdict' = Verdict
<1>1. Size' = Size /\ Goals' = Goals
  BY DEF Size, Goals
<1>2. LastPosition' = LastPosition /\ Current' = Current
  BY <1>1 DEF LastPosition, Current, Claim
<1> QED BY <1>1, <1>2 DEF GoalOf, Verdict

LEMMA ContextPolicy ==
  ASSUME NEW claim, NEW v
  PROVE  /\ HasContext("known_test", claim, v) =>
              GoalOf(claim).policy = "direct_source" /\ ~Supports(v)
         /\ HasContext("trace", claim, v) =>
              GoalOf(claim).policy = "symbol_definition" /\ phase = "initial"
         /\ HasContext("inventory", claim, v) => GoalOf(claim).policy = "impact_categories"
         /\ HasContext("comparison", claim, v) => GoalOf(claim).policy = "distinct_policy_paths"
         /\ \A step \in {"affirmation", "direct_refutation", "absence"} :
              HasContext(step, claim, v) => GoalOf(claim).policy = "support_or_refute"
<1>1. HasContext("known_test", claim, v) => KnownTestContext(GoalOf(claim), claim, v, Anchor, Observed)
  BY DEF HasContext
<1>2. HasContext("trace", claim, v) =>
        phase = "initial" /\ TraceContext(GoalOf(claim), claim, v, task.wrapper)
  BY DEF HasContext
<1>3. HasContext("inventory", claim, v) => InventoryContext(GoalOf(claim), claim, v, task.wrapper)
  BY DEF HasContext
<1>4. HasContext("comparison", claim, v) =>
        \/ ComparisonContext(GoalOf(claim), claim, v)
        \/ CorrectionContext(GoalOf(claim), claim, v, phase)
  BY DEF HasContext
<1>5. HasContext("affirmation", claim, v) => AffirmationContext(GoalOf(claim), claim, v)
  BY DEF HasContext
<1>6. HasContext("direct_refutation", claim, v) => DirectRefutationContext(GoalOf(claim), claim, v)
  BY DEF HasContext
<1>7. HasContext("absence", claim, v) => AbsenceRefutationContext(GoalOf(claim), claim, v)
  BY DEF HasContext
<1>8. HasContext("known_test", claim, v) => GoalOf(claim).policy = "direct_source" /\ ~Supports(v)
  BY <1>1 DEF KnownTestContext, Supports
<1>9. HasContext("trace", claim, v) =>
        GoalOf(claim).policy = "symbol_definition" /\ phase = "initial"
  BY <1>2 DEF TraceContext
<1>10. /\ HasContext("inventory", claim, v) => GoalOf(claim).policy = "impact_categories"
       /\ HasContext("comparison", claim, v) => GoalOf(claim).policy = "distinct_policy_paths"
  BY <1>3, <1>4 DEF InventoryContext, ComparisonContext, CorrectionContext
<1>11. \A step \in {"affirmation", "direct_refutation", "absence"} :
         HasContext(step, claim, v) => GoalOf(claim).policy = "support_or_refute"
  BY <1>5, <1>6, <1>7 DEF AffirmationContext, DirectRefutationContext, AbsenceRefutationContext
<1> QED BY <1>8, <1>9, <1>10, <1>11

LEMMA HereIsAt ==
  ASSUME Inv, NEW step, Here(step)
  PROVE  /\ stage = "focus" /\ stage \in Focusing
         /\ position \in Nat \ {0} /\ position <= LastPosition
         /\ HasContext(step, Current, Verdict)
BY DEF Here, Inv, FocusInv, Focusing

LEMMA SendInv ==
  ASSUME Inv, stage \in Focusing, position \in Nat \ {0}, position <= LastPosition,
         NEW request \in DOMAIN RequestPolicy \
               {"trace_verdict", "repair_claim", "repair_verdict", "repair_check"},
         GoalOf(Current).policy = RequestPolicy[request],
         request = "trace_claim" => phase = "initial",
         Send(request), judgments' = judgments, RecheckInv'
  PROVE  Inv'
<1>1. /\ stage' = request
      /\ UNCHANGED <<task, phase, batch, kept, claims, used, batchClaims, prior, verdicts,
                     corroborated, position>>
  BY DEF Send, pass
<1>2. stage' \in Focusing
  BY <1>1 DEF Focusing
<1>3. FocusInv'
  BY <1>1, CurrentFrame DEF FocusInv
<1> QED BY <1>1, <1>2, <1>3, RequestInv

LEMMA AskFocusedInv == Inv /\ AskFocused => Inv'
<1> SUFFICES ASSUME Inv, NEW step \in {"inventory", "affirmation", "direct_refutation", "absence"},
                    Here(step), Send(step), UNCHANGED <<retry, judgments, asked>>
             PROVE  Inv'
  BY DEF AskFocused
<1>1. GoalOf(Current).policy = RequestPolicy[step]
  BY HereIsAt, ContextPolicy DEF RequestPolicy
<1>2. RecheckInv'
  BY RecheckFrame DEF Inv
<1>3. step \in DOMAIN RequestPolicy
  BY DEF RequestPolicy
<1> QED BY <1>1, <1>2, <1>3, HereIsAt, SendInv

LEMMA TraceInv == Inv /\ Trace => Inv'
<1> SUFFICES ASSUME Inv, Trace PROVE Inv'
  OBVIOUS
<1>1. Here("trace") /\ Send("trace_claim") /\ UNCHANGED <<retry, judgments>>
  BY DEF Trace
<1>2. GoalOf(Current).policy = RequestPolicy["trace_claim"] /\ phase = "initial"
  BY <1>1, HereIsAt, ContextPolicy DEF RequestPolicy
<1>3. RecheckInv'
  BY <1>1, RecheckFrame DEF Inv
<1>4. "trace_claim" \in DOMAIN RequestPolicy
  BY DEF RequestPolicy
<1> QED BY <1>1, <1>2, <1>3, <1>4, HereIsAt, SendInv

\* What becomes of a text when a claim is located.
Ranged(goal, text, c) ==
  /\ goal.policy = "symbol_definition"
  /\ \E o \in Sources(c.refs) :
       /\ Observation[o].defines
       /\ c.text \in {WithRange(text, {o}), DefinitionText({o})}

\* A range is written into a text, and nothing else is changed.
LEMMA LocatedForms ==
  ASSUME NEW goal, NEW c, NEW shown, NEW l, l = Located(goal, c, shown)
  PROVE  /\ l.id = c.id /\ l.goal = c.goal /\ l.measure = c.measure /\ l.refs = c.refs
         /\ l = c \/ Ranged(goal, c.text, l)
<1>1. Defining(c, shown) \subseteq {o \in Sources(c.refs) : Observation[o].defines}
  BY DEF Defining, Sources, Kind
<1>2. CASE goal.policy = "symbol_definition" /\ \E o \in Defining(c, shown) : Defining(c, shown) = {o}
  <2>1. PICK o \in Defining(c, shown) : Defining(c, shown) = {o}
    BY <1>2
  <2>2. PICK text \in {WithRange(c.text, {o}), DefinitionText({o})} : l = Restated(c, text, c.refs)
    BY <1>2, <2>1 DEF Located
  <2>3. /\ l.id = c.id /\ l.goal = c.goal /\ l.measure = c.measure /\ l.refs = c.refs
        /\ l.text = text
    BY <2>2 DEF Restated
  <2>4. o \in Sources(c.refs) /\ Observation[o].defines
    BY <1>1
  <2>5. Ranged(goal, c.text, l)
    BY <1>2, <2>2, <2>3, <2>4 DEF Ranged
  <2> QED BY <2>3, <2>5
<1>3. CASE ~(goal.policy = "symbol_definition" /\ \E o \in Defining(c, shown) : Defining(c, shown) = {o})
  BY <1>3 DEF Located
<1> QED BY <1>2, <1>3

\* A draft keeps the id and the goal of the claim it restates.
LEMMA DraftedInv ==
  ASSUME Inv, TraceClaimReply \/ RepairClaimReply
  PROVE  Inv'
<1>1. /\ UNCHANGED <<task, phase, batch, kept, claims, used, batchClaims, prior, verdicts,
                     corroborated, position, retry, judgments>>
      /\ \/ stage = "trace_claim" /\ stage' = "trace_verdict"
         \/ stage = "repair_claim" /\ stage' = "repair_verdict"
      /\ \E c : /\ draft' = [claim |-> c, verdict |-> None]
                /\ c.id = Current.id /\ c.goal = Current.goal
  <2>1. \A text, refs : /\ Narrowed(text, refs).id = Current.id
                        /\ Narrowed(text, refs).goal = Current.goal
    BY DEF Narrowed, Restated
  <2>2. CASE TraceClaimReply
    <3>1. PICK text : draft' = [claim |-> Located(GoalOf(Current),
                                  Narrowed(text, DefinitionSource), Observed),
                                verdict |-> None]
      BY <2>2 DEF TraceClaimReply
    <3>2. PICK l : l = Located(GoalOf(Current), Narrowed(text, DefinitionSource), Observed)
      OBVIOUS
    <3>3. l.id = Current.id /\ l.goal = Current.goal
      BY <2>1, <3>2, LocatedForms
    <3> QED BY <2>2, <3>1, <3>2, <3>3 DEF TraceClaimReply, pass
  <2>3. CASE RepairClaimReply
    BY <2>1, <2>3 DEF RepairClaimReply, pass
  <2> QED BY <2>2, <2>3
<1>2. stage \in Focusing /\ stage' \in Focusing
  BY <1>1 DEF Focusing, RequestPolicy
<1>3. /\ draft' = [claim |-> draft'.claim, verdict |-> draft'.verdict]
      /\ draft'.claim.id = Current.id /\ draft'.claim.goal = Current.goal
  BY <1>1
<1>4. FocusInv'
  <2>1. stage \in DOMAIN RequestPolicy /\ RequestPolicy[stage'] = RequestPolicy[stage]
    BY <1>1 DEF RequestPolicy
  <2> QED BY <1>1, <1>2, <1>3, <2>1, CurrentFrame DEF Inv, FocusInv
<1>5. RecheckInv'
  BY <1>1, RecheckFrame DEF Inv
<1> QED BY <1>1, <1>2, <1>4, <1>5, RequestInv
-----------------------------------------------------------------------------
(* The steps that end with a verdict.                                       *)
LEMMA ConcludedInv ==
  ASSUME Inv, stage \in Focusing, position \in Nat \ {0}, position <= LastPosition,
         NEW d, NEW v, d.id = Current.id, d.goal = Current.goal,
         phase = "initial" \/ d = Current,
         Conclude(v), Install(d),
         judgments \subseteq judgments',
         Supports(v) =>
           /\ Once(d, v)'
           /\ GoalOf(Current).policy \in {"impact_categories", "distinct_policy_paths",
                                          "support_or_refute"} => Twice(d, v)',
         \A id, flag : <<id, flag>> \in corroborated' =>
           \/ <<id, flag>> \in corroborated
           \/ /\ id = Current.id
              /\ GoalOf(Current).policy \in {"impact_categories", "support_or_refute"},
         RecheckInv'
  PROVE  Inv'
<1>1. /\ stage' = "focus" /\ position' = position + 1
      /\ UNCHANGED <<task, phase, batch, kept, used, prior>>
      /\ verdicts' = [verdicts EXCEPT ![Current.id] = v]
  BY DEF Conclude
<1>2. stage' \in Focusing /\ position' \in Nat \ {0} /\ position' <= position + 1
  BY <1>1 DEF Focusing
<1>3. FocusInv'
  BY <1>1, <1>2 DEF FocusInv, RequestPolicy
<1> QED BY <1>1, <1>2, <1>3, ConcludeInv

\* The claim under way keeps its text and its evidence.
LEMMA KeptClaimInv ==
  ASSUME Inv, stage \in Focusing, position \in Nat \ {0}, position <= LastPosition,
         NEW c, c = Current, NEW v, Conclude(v), UNCHANGED <<claims, batchClaims>>,
         judgments \subseteq judgments',
         Supports(v) =>
           /\ Once(c, v)'
           /\ GoalOf(c).policy \in {"impact_categories", "distinct_policy_paths",
                                    "support_or_refute"} => Twice(c, v)',
         \A id, flag : <<id, flag>> \in corroborated' =>
           \/ <<id, flag>> \in corroborated
           \/ /\ id = c.id /\ GoalOf(c).policy \in {"impact_categories", "support_or_refute"},
         RecheckInv'
  PROVE  Inv'
<1>1. Install(c)
  BY StaysInstalled
<1> QED BY <1>1, ConcludedInv

\* What a second verifier confirms is supported by both.
Agreement(m, p, f) ==
  /\ Supports(p) /\ Supports(f)
  /\ m.resolution = p.resolution /\ m.resolution = f.resolution
  /\ m.refs \subseteq p.refs /\ m.refs \subseteq f.refs

LEMMA MergesAgree ==
  ASSUME NEW claim, NEW p, NEW f, NEW m,
         \/ m = MergeInventory(p, f) \/ m = MergeComparison(claim, p, f)
         \/ m = MergeSearch(p, f) \/ m = MergeDirectRefutation(claim, p, f),
         Supports(m)
  PROVE  Agreement(m, p, f)
<1>1. ~Supports(Dissent(f)) /\ \A refs, reason : ~Supports(Insufficient(refs, reason))
  BY DEF Dissent, Insufficient, Supports
<1>2. ~Disagrees(p, f)
  BY <1>1 DEF MergeInventory, MergeComparison, MergeSearch, MergeDirectRefutation
<1>3. Supports(f) /\ f.resolution = p.resolution
  BY <1>2 DEF Disagrees
<1>4. \/ m = p /\ f.refs = p.refs
      \/ m = Citing(p, Agreed(p, f))
      \/ m = Citing(p, Direct(Agreed(p, f)))
  BY <1>1, <1>2 DEF MergeInventory, MergeComparison, MergeSearch, MergeDirectRefutation
<1>5. Direct(Agreed(p, f)) \subseteq Agreed(p, f)
  BY DEF Direct, Sources, Kind
<1> QED BY <1>3, <1>4, <1>5 DEF Agreement, Citing, Agreed, Supports

LEMMA AgreementIsTwofold ==
  ASSUME NEW c, NEW p, NEW f, NEW v, NEW by \in Second,
         Once(c, p), Agreement(v, p, f),
         judgments \union Judge(by, c, f) \subseteq judgments'
  PROVE  Once(c, v)' /\ Twice(c, v)'
<1>1. PICK j \in judgments : j.by \in First /\ Rests(j, c, p)
  BY DEF Once
<1>2. Rests(j, c, v)
  BY <1>1 DEF Rests, Agreement
<1> DEFINE k == [by |-> by, claim |-> c, verdict |-> f]
<1>3. k \in judgments' /\ k.by \in Second /\ Rests(k, c, v)
  BY DEF Judge, Rests, Agreement
<1> HIDE DEF k
<1>4. j \in judgments'
  OBVIOUS
<1> QED BY <1>1, <1>2, <1>3, <1>4 DEF Once, Twice

LEMMA VerdictIsJudged ==
  ASSUME Inv, stage \in Focusing, position \in Nat \ {0}, position <= LastPosition
  PROVE  Supports(Verdict) =>
           /\ Once(Current, Verdict)
           /\ \A flag \in {"inventory", "affirmation", "absence"} :
                <<Current.id, flag>> \in corroborated => Twice(Current, Verdict)
<1>1. Current \in claims /\ Current.id \in DOMAIN verdicts /\ stage \in Reviewing
  BY CurrentIsJudged DEF Inv, Reviewing
<1>2. Supports(Verdict) => Judged(Current)
  BY <1>1 DEF Judged, Verdict
<1>3. PICK c \in claims : c = Current
  BY <1>1
<1>4. Verdict = verdicts[c.id]
  BY <1>3 DEF Verdict
<1> QED BY <1>1, <1>2, <1>3, <1>4 DEF Inv, SupportInv

\* A focused request whose verdict is merged with the first one.
LEMMA MergedInv ==
  ASSUME Inv, stage \in {"inventory", "affirmation", "direct_refutation", "absence"},
         NEW f, NEW m \in {MergeInventory(Verdict, f), MergeSearch(Verdict, f),
                           MergeDirectRefutation(Current, Verdict, f)},
         NEW flag,
         Conclude(m), UNCHANGED <<claims, batchClaims, retry>>,
         judgments' = judgments \union Judge(stage, Current, f),
         corroborated' = corroborated \union (IF Supports(m) THEN {<<Current.id, flag>>} ELSE {})
  PROVE  Inv'
<1>1. stage \in Focusing /\ stage \in DOMAIN RequestPolicy /\ stage \in Second
  BY DEF Focusing, RequestPolicy, Second
<1>2. /\ position \in Nat \ {0} /\ position <= LastPosition
      /\ GoalOf(Current).policy \in {"impact_categories", "support_or_refute"}
  BY <1>1 DEF Inv, FocusInv, RequestPolicy
<1>3. PICK c : c = Current
  OBVIOUS
<1>4. PICK p : p = Verdict
  OBVIOUS
<1>5. PICK by : by = stage
  OBVIOUS
<1>6. ASSUME Supports(m) PROVE Once(c, m)' /\ Twice(c, m)'
  <2>1. Agreement(m, p, f)
    <3>1. \/ m = MergeInventory(p, f) \/ m = MergeSearch(p, f)
          \/ m = MergeDirectRefutation(c, p, f)
      BY <1>3, <1>4
    <3> QED BY <1>6, <3>1, MergesAgree
  <2>2. Once(c, p)
    BY <1>1, <1>2, <1>3, <1>4, <2>1, VerdictIsJudged DEF Agreement
  <2>3. judgments \union Judge(by, c, f) \subseteq judgments'
    BY <1>3, <1>5
  <2> QED BY <1>1, <1>5, <2>1, <2>2, <2>3, AgreementIsTwofold
<1>7. RecheckInv'
  BY RecheckFrame DEF Inv
<1>8. \A id, g : <<id, g>> \in corroborated' => <<id, g>> \in corroborated \/ id = c.id
  BY <1>3
<1>9. GoalOf(c).policy \in {"impact_categories", "support_or_refute"} /\ judgments \subseteq judgments'
  BY <1>2, <1>3
<1>10. UNCHANGED <<claims, batchClaims>>
  OBVIOUS
<1> QED BY <1>1, <1>2, <1>3, <1>6, <1>7, <1>8, <1>9, <1>10, KeptClaimInv

LEMMA PlainInv ==
  ASSUME Inv, InventoryReply \/ AffirmationReply \/ DirectRefutationReply \/ AbsenceReply
  PROVE  Inv'
<1>1. CASE AskAgain(None)
  BY <1>1, AskAgainInv
<1>2. ASSUME InventoryReply PROVE Inv'
  BY <1>1, <1>2, MergedInv DEF InventoryReply, Plain, FocusedReply
<1>3. ASSUME AffirmationReply PROVE Inv'
  BY <1>1, <1>3, MergedInv DEF AffirmationReply, Plain, FocusedReply
<1>4. ASSUME DirectRefutationReply PROVE Inv'
  BY <1>1, <1>4, MergedInv DEF DirectRefutationReply, Plain, FocusedReply
<1>5. ASSUME AbsenceReply PROVE Inv'
  BY <1>1, <1>5, MergedInv DEF AbsenceReply, Plain, FocusedReply
<1> QED BY <1>2, <1>3, <1>4, <1>5
-----------------------------------------------------------------------------
(* The known test, the trace and the comparison.                            *)
LEMMA OwnVerdictInv ==
  ASSUME Inv, stage \in Focusing, position \in Nat \ {0}, position <= LastPosition,
         \/ ~Supports(Verdict)
         \/ GoalOf(Current).policy \notin {"impact_categories", "distinct_policy_paths",
                                           "support_or_refute"},
         Conclude(Verdict), UNCHANGED <<claims, batchClaims, corroborated>>,
         judgments \subseteq judgments', RecheckInv'
  PROVE  Inv'
<1>1. PICK c : c = Current
  OBVIOUS
<1>2. PICK v : v = Verdict
  OBVIOUS
<1>3. Supports(v) => Once(c, v)'
  BY <1>1, <1>2, VerdictIsJudged, JudgmentsStay
<1> QED BY <1>1, <1>2, <1>3, KeptClaimInv

\* One judgment more, of the claim as it is returned.
LEMMA JudgedAnew ==
  ASSUME NEW c, NEW v, NEW by \in First, Supports(v),
         judgments' = judgments \union Judge(by, c, v)
  PROVE  Once(c, v)'
<1> DEFINE j == [by |-> by, claim |-> c, verdict |-> v]
<1>1. j \in judgments' /\ j.by \in First /\ Rests(j, c, v)
  BY DEF Judge, Rests
<1> QED BY <1>1 DEF Once

LEMMA KnownTestInv == Inv /\ RetryInv /\ KnownTest => Inv'
<1> SUFFICES ASSUME Inv, RetryInv, KnownTest PROVE Inv'
  OBVIOUS
<1>1. /\ stage \in Focusing /\ position \in Nat \ {0} /\ position <= LastPosition
      /\ GoalOf(Current).policy = "direct_source" /\ ~Supports(Verdict)
      /\ judgments' = judgments
  BY HereIsAt, ContextPolicy DEF KnownTest
<1>2. RecheckInv'
  <2>1. retry'.affirmation = retry.affirmation
    BY DEF KnownTest, RetryInv
  <2> QED BY <1>1, <2>1 DEF Inv, RecheckInv
<1>3. CASE /\ Remembered /\ Conclude(retry.affirmation.verdict)
           /\ UNCHANGED <<claims, batchClaims, corroborated>>
  <2>1. PICK j \in judgments : /\ j.by = "known_test" /\ j.claim = Current
                               /\ j.verdict = retry.affirmation.verdict
    BY <1>3 DEF Remembered, Inv, RecheckInv
  <2>2. PICK c : c = Current
    OBVIOUS
  <2>3. PICK v : v = retry.affirmation.verdict
    OBVIOUS
  <2>4. Once(c, v)'
    BY <1>1, <2>1, <2>2, <2>3 DEF Once, Rests, First
  <2> QED BY <1>1, <1>2, <1>3, <2>2, <2>3, <2>4, KeptClaimInv
<1>4. CASE Conclude(Verdict) /\ UNCHANGED <<claims, batchClaims, corroborated>>
  BY <1>1, <1>2, <1>4, OwnVerdictInv
<1>5. CASE Send("known_test")
  BY <1>1, <1>2, <1>5, SendInv DEF RequestPolicy
<1> QED BY <1>3, <1>4, <1>5 DEF KnownTest

LEMMA KnownTestReplyInv == Inv /\ RetryInv /\ KnownTestReply => Inv'
<1> SUFFICES ASSUME Inv, RetryInv, KnownTestReply PROVE Inv'
  OBVIOUS
<1>1. /\ stage \in Focusing /\ position \in Nat \ {0} /\ position <= LastPosition
      /\ GoalOf(Current).policy = "direct_source"
  BY DEF KnownTestReply, Inv, FocusInv, Focusing, RequestPolicy
<1>2. PICK c : c = Current
  OBVIOUS
<1>3. CASE \E v : /\ Conclude(v) /\ Supports(v)
                  /\ UNCHANGED <<claims, batchClaims, corroborated>>
                  /\ retry' = [retry EXCEPT !.affirmation = [claim |-> Current, verdict |-> v]]
                  /\ judgments' = judgments \union Judge("known_test", Current, v)
  <2>1. PICK v : /\ Conclude(v) /\ Supports(v)
                 /\ UNCHANGED <<claims, batchClaims, corroborated>>
                 /\ retry' = [retry EXCEPT !.affirmation = [claim |-> Current, verdict |-> v]]
                 /\ judgments' = judgments \union Judge("known_test", c, v)
    BY <1>2, <1>3
  <2>2. Once(c, v)'
    BY <2>1, JudgedAnew DEF First
  <2>3. RecheckInv'
    <3>1. retry'.affirmation = [claim |-> c, verdict |-> v]
      BY <1>2, <2>1 DEF RetryInv
    <3>2. [by |-> "known_test", claim |-> c, verdict |-> v] \in judgments'
      BY <2>1 DEF Judge
    <3> QED BY <3>1, <3>2 DEF RecheckInv
  <2> QED BY <1>1, <1>2, <2>1, <2>2, <2>3, KeptClaimInv
<1>4. CASE /\ Conclude(Verdict) /\ UNCHANGED <<claims, batchClaims, corroborated, retry>>
           /\ judgments' = judgments
  <2>1. RecheckInv'
    BY <1>4, RecheckFrame DEF Inv
  <2> QED BY <1>1, <1>4, <2>1, OwnVerdictInv
<1> QED BY <1>3, <1>4 DEF KnownTestReply

LEMMA OptionalFailsInv == Inv /\ OptionalFails => Inv'
<1> SUFFICES ASSUME Inv, OptionalFails PROVE Inv'
  OBVIOUS
<1>1. stage \in Focusing /\ stage \in DOMAIN RequestPolicy
  BY DEF OptionalFails, Optional, Focusing, RequestPolicy
<1>2. /\ position \in Nat \ {0} /\ position <= LastPosition
      /\ GoalOf(Current).policy = "direct_source" \/ ~Supports(Verdict)
  BY <1>1 DEF OptionalFails, Optional, Inv, FocusInv, RequestPolicy
<1>3. RecheckInv' /\ judgments' = judgments
  BY RecheckFrame DEF Inv, OptionalFails
<1> QED BY <1>1, <1>2, <1>3, OwnVerdictInv DEF OptionalFails

LEMMA TraceVerdictInv == Inv /\ TraceVerdictReply => Inv'
<1> SUFFICES ASSUME Inv, TraceVerdictReply PROVE Inv'
  OBVIOUS
<1>1. stage = "trace_verdict" /\ stage \in Focusing /\ stage \in DOMAIN RequestPolicy
  BY DEF TraceVerdictReply, Focusing, RequestPolicy
<1>2. /\ position \in Nat \ {0} /\ position <= LastPosition /\ phase = "initial"
      /\ GoalOf(Current).policy = "symbol_definition"
      /\ draft.claim.id = Current.id /\ draft.claim.goal = Current.goal
  BY <1>1 DEF Inv, FocusInv, RequestPolicy
<1>3. CASE AskAgain(None)
  BY <1>3, AskAgainInv
<1>4. CASE Stop("failed")
  BY <1>4, StopInv
<1>5. CASE \E v : /\ Conclude(v) /\ Install(draft.claim)
                  /\ judgments' = judgments \union Judge("trace", draft.claim, v)
                  /\ UNCHANGED <<corroborated, retry>>
  <2>1. PICK d : d = draft.claim
    OBVIOUS
  <2>2. PICK v : /\ Conclude(v) /\ Install(d)
                 /\ judgments' = judgments \union Judge("trace", d, v)
                 /\ UNCHANGED <<corroborated, retry>>
    BY <1>5, <2>1
  <2>3. Supports(v) => Once(d, v)'
    BY <2>2, JudgedAnew DEF First
  <2>4. RecheckInv'
    BY <2>2, RecheckFrame DEF Inv
  <2> QED BY <1>1, <1>2, <2>1, <2>2, <2>3, <2>4, ConcludedInv
<1> QED BY <1>3, <1>4, <1>5 DEF TraceVerdictReply

LEMMA SettleInv ==
  ASSUME Inv, RetryInv, stage \in Focusing, position \in Nat \ {0}, position <= LastPosition,
         GoalOf(Current).policy = "distinct_policy_paths",
         NEW c, c = Current, NEW v, Settle(v),
         Supports(v) => Once(c, v)' /\ Twice(c, v)',
         judgments \subseteq judgments'
  PROVE  Inv'
<1>1. RecheckInv'
  <2>1. retry'.affirmation = retry.affirmation
    BY DEF Settle, RetryInv
  <2> QED BY <2>1 DEF Inv, RecheckInv
<1>2. CASE Conclude(v) /\ UNCHANGED <<claims, batchClaims, corroborated>>
  BY <1>1, <1>2, KeptClaimInv
<1>3. CASE /\ CorrectionContext(GoalOf(Current), Current, v, phase)
           /\ verdicts' = [verdicts EXCEPT ![Current.id] = v]
           /\ stage' = "repair_claim"
           /\ UNCHANGED <<task, phase, batch, kept, claims, used, batchClaims, prior, position,
                          draft, corroborated>>
  <2>1. phase = "initial" /\ ~Supports(v)
    BY <1>3 DEF CorrectionContext, Supports
  <2>2. Install(c)
    BY <1>3, StaysInstalled
  <2>3. stage' \in Focusing /\ position' <= position + 1
    BY <1>3 DEF Focusing, RequestPolicy
  <2>4. FocusInv'
    <3>1. Current.id \in DOMAIN verdicts
      BY CurrentIsJudged DEF Inv
    <3>2. Current' = Current /\ LastPosition' = LastPosition /\ GoalOf(Current)' = GoalOf(Current)
      BY <1>3, CurrentFrame
    <3>3. Verdict' = v
      BY <1>3, <3>1, <3>2 DEF Verdict, Inv, IdsInv
    <3> QED BY <1>3, <2>1, <3>2, <3>3 DEF FocusInv, RequestPolicy
  <2> QED BY <1>1, <1>3, <2>1, <2>2, <2>3, <2>4, ConcludeInv
<1> QED BY <1>2, <1>3 DEF Settle, pass

LEMMA ComparisonInv == Inv /\ RetryInv /\ Comparison => Inv'
<1> SUFFICES ASSUME Inv, RetryInv, Comparison PROVE Inv'
  OBVIOUS
<1>1. /\ stage \in Focusing /\ position \in Nat \ {0} /\ position <= LastPosition
      /\ GoalOf(Current).policy = "distinct_policy_paths" /\ judgments' = judgments
  BY HereIsAt, ContextPolicy DEF Comparison
<1>2. CASE Send("comparison") /\ UNCHANGED retry
  <2>1. RecheckInv'
    BY <1>1, <1>2, RecheckFrame DEF Inv
  <2> QED BY <1>1, <1>2, <2>1, SendInv DEF RequestPolicy
<1>3. CASE \E v : ~Supports(v) /\ Settle(v)
  <2>1. PICK c : c = Current
    OBVIOUS
  <2> QED BY <1>1, <1>3, <2>1, SettleInv
<1>4. \A refs, reason : ~Supports(Insufficient(refs, reason))
  BY DEF Supports, Insufficient
<1> QED BY <1>2, <1>3, <1>4 DEF Comparison

LEMMA ComparisonReplyInv == Inv /\ RetryInv /\ ComparisonReply => Inv'
<1> SUFFICES ASSUME Inv, RetryInv, ComparisonReply PROVE Inv'
  OBVIOUS
<1>1. stage = "comparison" /\ stage \in Focusing /\ stage \in DOMAIN RequestPolicy
  BY DEF ComparisonReply, FocusedReply, Focusing, RequestPolicy
<1>2. /\ position \in Nat \ {0} /\ position <= LastPosition
      /\ GoalOf(Current).policy = "distinct_policy_paths"
  BY <1>1 DEF Inv, FocusInv, RequestPolicy
<1>3. CASE AskAgain(None)
  BY <1>3, AskAgainInv
<1>4. PICK c : c = Current
  OBVIOUS
<1>5. PICK p : p = Verdict
  OBVIOUS
<1>6. ASSUME NEW f, Settle(MergeComparison(Current, Verdict, f)),
             judgments' = judgments \union Judge("comparison", Current, f)
      PROVE  Inv'
  <2>1. PICK m : m = MergeComparison(c, p, f)
    OBVIOUS
  <2>2. Settle(m) /\ judgments' = judgments \union Judge("comparison", c, f)
    BY <1>4, <1>5, <1>6, <2>1
  <2>3. ASSUME Supports(m) PROVE Once(c, m)' /\ Twice(c, m)'
    <3>1. Agreement(m, p, f)
      BY <2>1, <2>3, MergesAgree
    <3>2. Once(c, p)
      BY <1>1, <1>2, <1>4, <1>5, <3>1, VerdictIsJudged DEF Agreement
    <3>3. "comparison" \in Second /\ judgments \union Judge("comparison", c, f) \subseteq judgments'
      BY <2>2 DEF Second
    <3> QED BY <3>1, <3>2, <3>3, AgreementIsTwofold
  <2> QED BY <1>1, <1>2, <1>4, <2>2, <2>3, SettleInv
<1> QED BY <1>3, <1>6 DEF ComparisonReply, FocusedReply

LEMMA RepairVerdictInv == Inv /\ RepairVerdictReply => Inv'
<1> SUFFICES ASSUME Inv, RepairVerdictReply PROVE Inv'
  OBVIOUS
<1>1. stage = "repair_verdict" /\ stage \in Focusing /\ stage \in DOMAIN RequestPolicy
  BY DEF RepairVerdictReply, Focusing, RequestPolicy
<1>2. /\ position \in Nat \ {0} /\ position <= LastPosition /\ phase = "initial"
      /\ GoalOf(Current).policy = "distinct_policy_paths" /\ ~Supports(Verdict)
      /\ draft = [claim |-> draft.claim, verdict |-> draft.verdict]
      /\ draft.claim.id = Current.id /\ draft.claim.goal = Current.goal
  BY <1>1 DEF Inv, FocusInv, RequestPolicy
<1>3. CASE /\ Conclude(Verdict) /\ UNCHANGED <<claims, batchClaims, corroborated, retry>>
           /\ judgments' = judgments
  <2>1. RecheckInv'
    BY <1>3, RecheckFrame DEF Inv
  <2> QED BY <1>1, <1>2, <1>3, <2>1, OwnVerdictInv
<1>4. ASSUME NEW v, Supports(v), draft' = [draft EXCEPT !.verdict = v], stage' = "repair_check",
             judgments' = judgments \union Judge("repair", draft.claim, v),
             UNCHANGED <<task, phase, batch, kept, claims, used, batchClaims, prior, verdicts,
                         position, corroborated, retry>>
      PROVE  Inv'
  <2>1. draft' = [claim |-> draft.claim, verdict |-> v]
    BY <1>2, <1>4
  <2>2. [by |-> "repair", claim |-> draft.claim, verdict |-> v] \in judgments'
    BY <1>4 DEF Judge
  <2>3. Current' = Current /\ LastPosition' = LastPosition /\ Verdict' = Verdict
        /\ GoalOf(Current)' = GoalOf(Current)
    BY <1>4, CurrentFrame
  <2>4. FocusInv'
    <3>1. draft'.claim = draft.claim /\ draft'.verdict = v
      BY <2>1
    <3>2. \E j \in judgments' : j.by = "repair" /\ j.claim = draft'.claim /\ j.verdict = draft'.verdict
      BY <2>2, <3>1
    <3> QED BY <1>2, <1>4, <2>1, <2>3, <3>1, <3>2 DEF FocusInv, RequestPolicy
  <2>5. RecheckInv'
    BY <1>4, RecheckFrame DEF Inv
  <2>6. stage' \in Focusing
    BY <1>4 DEF Focusing, RequestPolicy
  <2> QED BY <1>1, <1>4, <2>4, <2>5, <2>6, RequestInv
<1> QED BY <1>3, <1>4 DEF RepairVerdictReply, pass

\* Claim and verdict are replaced together, and both verifiers saw the new claim.
LEMMA RepairCheckInv == Inv /\ RepairCheckReply => Inv'
<1> SUFFICES ASSUME Inv, RepairCheckReply PROVE Inv'
  OBVIOUS
<1>1. stage = "repair_check" /\ stage \in Focusing /\ stage \in DOMAIN RequestPolicy
  BY DEF RepairCheckReply, FocusedReply, Focusing, RequestPolicy
<1>2. PICK d : d = draft.claim
  OBVIOUS
<1>3. PICK p : p = draft.verdict
  OBVIOUS
<1>4. /\ position \in Nat \ {0} /\ position <= LastPosition /\ phase = "initial"
      /\ GoalOf(Current).policy = "distinct_policy_paths" /\ ~Supports(Verdict)
      /\ d.id = Current.id /\ d.goal = Current.goal
      /\ \E j \in judgments : j.by = "repair" /\ j.claim = d /\ j.verdict = p
  BY <1>1, <1>2, <1>3 DEF Inv, FocusInv, RequestPolicy
<1>5. PICK f : /\ Replace(draft.claim, MergeComparison(draft.claim, draft.verdict, f))
               /\ judgments' = judgments \union Judge("comparison", draft.claim, f)
               /\ UNCHANGED <<exhausted, corroborated, retry, asked>>
  BY DEF RepairCheckReply, FocusedReply
<1>6. PICK m : m = MergeComparison(d, p, f)
  OBVIOUS
<1>7. /\ Replace(d, m) /\ judgments' = judgments \union Judge("comparison", d, f)
      /\ UNCHANGED <<corroborated, retry>>
  BY <1>2, <1>3, <1>5, <1>6
<1>8. RecheckInv'
  BY <1>7, RecheckFrame DEF Inv
<1>9. CASE Supports(m)
  <2>1. Agreement(m, p, f)
    BY <1>6, <1>9, MergesAgree
  <2>2. Once(d, p)
    BY <1>4 DEF Once, First, Rests
  <2>3. "comparison" \in Second /\ judgments \union Judge("comparison", d, f) \subseteq judgments'
    BY <1>7 DEF Second
  <2>4. Once(d, m)' /\ Twice(d, m)'
    BY <2>1, <2>2, <2>3, AgreementIsTwofold
  <2>5. Conclude(m) /\ Install(d)
    BY <1>7, <1>9 DEF Replace
  <2> QED BY <1>1, <1>4, <1>7, <1>8, <2>4, <2>5, ConcludedInv
<1>10. CASE ~Supports(m)
  <2>1. Conclude(Verdict) /\ UNCHANGED <<claims, batchClaims>>
    BY <1>7, <1>10 DEF Replace
  <2> QED BY <1>1, <1>4, <1>7, <1>8, <2>1, OwnVerdictInv
<1> QED BY <1>9, <1>10
-----------------------------------------------------------------------------
(* A batch is verified: each of its claims gets the verdict given on it.    *)
LEMMA AcceptInv ==
  ASSUME Inv, stage = "verify", NEW reply, NEW parts, Accept(reply, parts)
  PROVE  Inv'
<1>1. PICK judged : judged = [i \in 1..Size |->
        ForWrapper(task.wrapper, parts, Confined(batchClaims[i], reply[i]))]
  OBVIOUS
<1>2. PICK about : about = Ids(ToSet(batchClaims))
  OBVIOUS
<1>3. /\ verdicts' = [id \in DOMAIN verdicts \union about |->
           IF id \in about THEN judged[CHOOSE i \in 1..Size : batchClaims[i].id = id]
           ELSE verdicts[id]]
      /\ judgments' = judgments \union
           UNION {Judge("primary", batchClaims[i], judged[i]) : i \in 1..Size}
      /\ stage' = "focus" /\ position' = 1
      /\ UNCHANGED <<task, phase, batch, kept, claims, used, batchClaims, prior, corroborated,
                     retry>>
  BY <1>1, <1>2 DEF Accept, pass
<1>4. stage \in Reviewing /\ stage' \in Focusing /\ stage' \in Reviewing
  BY <1>3 DEF Reviewing, Focusing
<1>5. /\ batch \in VerificationRequests(claims) /\ batch \in Nat
      /\ batchClaims \in Seq(claims) /\ ToSet(batchClaims) = ClaimsAt(claims, batch)
      /\ \A c \in claims : c.id \in DOMAIN verdicts <=> Reached(c)
  BY <1>4, RequestsAreNaturals DEF Inv, BatchInv
<1>6. ToSet(batchClaims) = {batchClaims[i] : i \in 1..Size} /\ Size \in Nat
  BY <1>5 DEF ToSet, Size
<1>7. \A c \in claims : c.id \in about <=> c \in ToSet(batchClaims)
  <2>1. ToSet(batchClaims) \subseteq claims
    BY <1>5, <1>6 DEF Size
  <2> QED BY <1>2, <2>1 DEF Ids, Inv, IdsInv, OneClaimPerId
<1>8. \A c \in claims \ ToSet(batchClaims) :
        (Judged(c)' <=> Judged(c)) /\ (Judged(c) => verdicts'[c.id] = verdicts[c.id])
  BY <1>3, <1>7 DEF Judged
<1>9. ASSUME NEW c \in claims, c \in ToSet(batchClaims), Judged(c)'
      PROVE  Once(c, verdicts[c.id])'
  <2>1. PICK k : k = CHOOSE i \in 1..Size : batchClaims[i].id = c.id
    OBVIOUS
  <2>2. \E i \in 1..Size : batchClaims[i].id = c.id
    BY <1>6, <1>9
  <2>3. k \in 1..Size /\ batchClaims[k].id = c.id
    BY <2>1, <2>2
  <2>4. batchClaims[k] = c
    BY <1>5, <1>6, <2>3 DEF Inv, IdsInv, OneClaimPerId, Size
  <2>5. verdicts'[c.id] = judged[k]
    BY <1>3, <1>7, <1>9, <2>1
  <2>6. Supports(judged[k])
    BY <1>9, <2>5 DEF Judged
  <2>7. [by |-> "primary", claim |-> c, verdict |-> judged[k]] \in Judge("primary", batchClaims[k], judged[k])
    BY <2>4, <2>6 DEF Judge
  <2>8. [by |-> "primary", claim |-> c, verdict |-> judged[k]] \in judgments'
    BY <1>3, <2>3, <2>7
  <2> QED BY <2>5, <2>8 DEF Once, First, Rests
<1>10. IdsInv' /\ PriorInv' /\ RecheckInv'
  <2>1. verdicts' = [id \in DOMAIN verdicts' |-> verdicts'[id]]
    BY <1>3
  <2>2. judgments \subseteq judgments'
    BY <1>3
  <2> QED BY <1>3, <2>1, <2>2, PriorFrame, RecheckFrame DEF Inv, IdsInv, Goals
<1>11. SynthesisInv' /\ RefusedInv' /\ FocusInv' /\ ReducedInv'
  <2>1. kept' = None
    BY <1>3 DEF Inv, RefusedInv
  <2> QED BY <1>3, <2>1 DEF SynthesisInv, RefusedInv, FocusInv, RequestPolicy, ReducedInv,
                            JudgedAsReturned, SupportIsCorroborated, PriorClaimsAreCarried
<1>12. BatchInv'
  <2>1. VerificationRequests(claims)' = VerificationRequests(claims)
        /\ \A s : ClaimsAt(claims, s)' = ClaimsAt(claims, s)
    BY <1>3, VerificationFrame
  <2>2. \A c \in claims : Reached(c)' <=> Reached(c) \/ c \in ToSet(batchClaims)
    BY <1>3, <1>5, <2>1 DEF Reached
  <2>3. \A c \in claims : c.id \in DOMAIN verdicts' <=> Reached(c)'
    BY <1>3, <1>5, <1>7, <2>2
  <2> QED BY <1>3, <1>4, <1>5, <2>1, <2>3 DEF BatchInv
<1>13. SupportInv'
  <2>1. ASSUME NEW c \in claims, Judged(c)' PROVE Once(c, verdicts[c.id])'
    <3>1. CASE c \in ToSet(batchClaims)
      BY <1>9, <2>1, <3>1
    <3>2. CASE c \notin ToSet(batchClaims)
      <4>1. Once(c, verdicts[c.id]) /\ verdicts'[c.id] = verdicts[c.id]
        BY <1>4, <1>8, <2>1, <3>2 DEF Inv, SupportInv
      <4> QED BY <1>3, <4>1, JudgmentsStay
    <3> QED BY <3>1, <3>2
  <2>2. ASSUME NEW c \in claims, NEW flag \in {"inventory", "affirmation", "absence"},
               <<c.id, flag>> \in corroborated
        PROVE  /\ c.id \in DOMAIN verdicts'
               /\ GoalOf(c)'.policy \in {"impact_categories", "support_or_refute"}
               /\ Judged(c)' => Twice(c, verdicts[c.id])'
    <3>1. /\ c.id \in DOMAIN verdicts
          /\ GoalOf(c).policy \in {"impact_categories", "support_or_refute"}
          /\ Judged(c) => Twice(c, verdicts[c.id])
      BY <1>4, <2>2 DEF Inv, SupportInv
    <3>2. PICK s \in VerificationRequests(claims) : c \in ClaimsAt(claims, s) /\ s < batch
      BY <1>5, <3>1 DEF Reached
    <3>3. c \notin ToSet(batchClaims)
      <4>1. s \in Nat
        BY RequestsAreNaturals DEF Inv
      <4> QED BY <1>5, <3>2, <4>1, ClaimsAreVerifiedOnce DEF Inv
    <3>4. Judged(c)' => Judged(c) /\ verdicts'[c.id] = verdicts[c.id]
      BY <1>8, <3>3
    <3>5. Judged(c)' => Twice(c, verdicts[c.id])'
      BY <1>3, <3>1, <3>4, JudgmentsStay
    <3>6. GoalOf(c)' = GoalOf(c)
      BY <1>3 DEF GoalOf, Goals
    <3> QED BY <1>3, <3>1, <3>5, <3>6
  <2> QED BY <1>3, <2>1, <2>2 DEF SupportInv
<1>14. ClearedInv'
  <2>1. ASSUME NEW c \in claims \ ToSet(batchClaims) PROVE Compared(c)' /\ Refuted(c)'
    <3>1. Compared(c) /\ Refuted(c)
      BY <1>4 DEF Inv, ClearedInv
    <3>2. Judged(c)' => Judged(c) /\ verdicts'[c.id] = verdicts[c.id]
      BY <1>8
    <3> QED BY <1>3, <3>1, <3>2, JudgmentsStay DEF Compared, Refuted, GoalOf, Goals
  <2>2. Size' = Size /\ \A i \in 1..Size : ~(1 > 3 * Size + i) /\ ~(1 > 5 * Size + i)
    BY <1>3, <1>6 DEF Size
  <2> QED BY <1>3, <2>1, <2>2 DEF ClearedInv
<1> QED BY <1>10, <1>11, <1>12, <1>13, <1>14 DEF Inv

LEMMA VerifyReplyInv == Inv /\ VerifyReply => Inv'
<1> SUFFICES ASSUME Inv, VerifyReply PROVE Inv'
  OBVIOUS
<1>1. \/ AskAgain(None)
      \/ \E parts \in BOOLEAN : \E reply : Accept(reply, parts)
  BY DEF VerifyReply
<1> QED BY <1>1, AskAgainInv, AcceptInv DEF VerifyReply
-----------------------------------------------------------------------------
(* Steps without a context are passed over, and need no second verifier.    *)
LEMMA PassedOver ==
  ASSUME Size \in Nat \ {0}, NEW i \in 1..Size
  PROVE  /\ ~HasContext(StepAt(3 * Size + i), Claim(3 * Size + i),
                        verdicts[Claim(3 * Size + i).id]) => Compared(batchClaims[i])
         /\ ~HasContext(StepAt(5 * Size + i), Claim(5 * Size + i),
                        verdicts[Claim(5 * Size + i).id]) => Refuted(batchClaims[i])
<1>1. /\ (3 * Size + i - 1) \div Size = 3 /\ ((3 * Size + i - 1) % Size) + 1 = i
      /\ (5 * Size + i - 1) \div Size = 5 /\ ((5 * Size + i - 1) % Size) + 1 = i
  BY StepOfPosition
<1>2. 3 * Size + i - 1 = (3 * Size + i) - 1 /\ 5 * Size + i - 1 = (5 * Size + i) - 1
  OBVIOUS
<1>3. StepAt(3 * Size + i) = Steps[3 + 1] /\ Claim(3 * Size + i) = batchClaims[i]
  BY <1>1, <1>2, Zenon DEF StepAt, Claim
<1>4. StepAt(5 * Size + i) = Steps[5 + 1] /\ Claim(5 * Size + i) = batchClaims[i]
  BY <1>1, <1>2, Zenon DEF StepAt, Claim
<1>5. Steps[3 + 1] = "comparison" /\ Steps[5 + 1] = "direct_refutation"
  BY DEF Steps
<1>6. ASSUME NEW c, ~HasContext("comparison", c, verdicts[c.id]) PROVE Compared(c)
  <2>1. ~ComparisonContext(GoalOf(c), c, verdicts[c.id])
    BY <1>6 DEF HasContext
  <2> QED BY <2>1 DEF ComparisonContext, Compared, Judged
<1>7. ASSUME NEW c, ~HasContext("direct_refutation", c, verdicts[c.id]) PROVE Refuted(c)
  <2>1. ~DirectRefutationContext(GoalOf(c), c, verdicts[c.id])
    BY <1>7 DEF HasContext
  <2> QED BY <2>1 DEF Refuted
<1> QED BY <1>3, <1>4, <1>5, <1>6, <1>7

LEMMA SkipInv == Inv /\ Skip => Inv'
<1> SUFFICES ASSUME Inv, Skip PROVE Inv'
  OBVIOUS
<1>1. PICK next : next = {p \in position..LastPosition :
                            HasContext(StepAt(p), Claim(p), verdicts[Claim(p).id])}
  OBVIOUS
<1>2. PICK later : later = {s \in VerificationRequests(claims) : batch < s}
  OBVIOUS
<1>3. /\ stage = "focus"
      /\ \/ /\ next # {} /\ position' = Min(next) /\ UNCHANGED <<stage, batch, batchClaims>>
         \/ /\ next = {} /\ position' = 1
            /\ IF later = {} THEN batch' = 1 /\ stage' = "gate" /\ batchClaims' = << >>
               ELSE Verify(claims, Min(later))
      /\ UNCHANGED <<task, phase, kept, claims, used, prior, verdicts, corroborated, retry,
                     judgments>>
  BY <1>1, <1>2 DEF Skip
<1>4. stage \in Focusing /\ stage \in Reviewing
  BY <1>3 DEF Focusing, Reviewing
<1>5. /\ batch \in VerificationRequests(claims) /\ batch \in Nat
      /\ VerificationRequests(claims) \subseteq Nat
      /\ batchClaims \in Seq(claims) /\ ToSet(batchClaims) = ClaimsAt(claims, batch)
      /\ \A c \in claims : c.id \in DOMAIN verdicts <=> Reached(c)
  BY <1>4, RequestsAreNaturals DEF Inv, BatchInv
<1>6. Size \in Nat /\ LastPosition = 7 * Size /\ position \in Nat \ {0}
  BY <1>4, <1>5 DEF Size, LastPosition, Steps, Inv, FocusInv
\* A position that is left has no context, or was concluded.
<1>7. ASSUME NEW i \in 1..Size, NEW k \in {3, 5}, ~(position > k * Size + i),
             k * Size + i \notin next
      PROVE  /\ k = 3 => Compared(batchClaims[i])
             /\ k = 5 => Refuted(batchClaims[i])
  <2>1. PICK p : p = k * Size + i
    OBVIOUS
  <2>2. p \in position..LastPosition
    BY <1>6, <1>7, <2>1
  <2>3. ~HasContext(StepAt(p), Claim(p), verdicts[Claim(p).id])
    BY <1>1, <1>7, <2>1, <2>2
  <2>4. Size \in Nat \ {0}
    BY <1>6
  <2> QED BY <2>1, <2>3, <2>4, PassedOver
<1>8. ASSUME NEW i \in 1..Size
      PROVE  /\ position > 3 * Size + i => Compared(batchClaims[i])
             /\ position > 5 * Size + i => Refuted(batchClaims[i])
  BY <1>4 DEF Inv, ClearedInv
<1>9. IdsInv' /\ PriorInv' /\ RecheckInv'
  BY <1>3, IdsFrame, PriorFrame, RecheckFrame DEF Inv
<1>10. stage' \in {"focus", "gate", "verify"} /\ kept' = None
  BY <1>3 DEF Verify, Inv, RefusedInv
<1>11. SynthesisInv' /\ RefusedInv' /\ ReducedInv'
  BY <1>10 DEF SynthesisInv, RefusedInv, ReducedInv, JudgedAsReturned, SupportIsCorroborated,
               PriorClaimsAreCarried
<1>12. SupportInv'
  BY <1>3, <1>4, SupportFrame DEF Inv
<1>13. \A c : (Compared(c) => Compared(c)') /\ (Refuted(c) => Refuted(c)')
  BY <1>3, JudgmentsStay DEF Compared, Refuted, Judged, GoalOf, Goals
<1>14. \A c \in claims \ ToSet(batchClaims) : Compared(c) /\ Refuted(c)
  BY <1>4 DEF Inv, ClearedInv
<1>15. CASE next # {}
  <2>1. Min(next) \in next /\ \A x \in next : Min(next) <= x
    <3>1. next \in SUBSET Nat
      BY <1>1, <1>6
    <3> QED BY <1>15, <3>1, MinOfNaturals
  <2>2. /\ position' = Min(next) /\ UNCHANGED <<stage, batch, batchClaims>>
        /\ position' \in Nat \ {0} /\ \A x \in next : position' <= x
    BY <1>1, <1>3, <1>6, <1>15, <2>1
  <2>3. FocusInv'
    BY <1>3, <2>2 DEF FocusInv, RequestPolicy
  <2>4. BatchInv'
    BY <1>3, <2>2, BatchFrame DEF Inv
  <2>5. ASSUME NEW i \in 1..Size
        PROVE  /\ position' > 3 * Size + i => Compared(batchClaims[i])
               /\ position' > 5 * Size + i => Refuted(batchClaims[i])
    <3>1. /\ position' > 3 * Size + i => 3 * Size + i \notin next
          /\ position' > 5 * Size + i => 5 * Size + i \notin next
      BY <1>6, <2>2
    <3> QED BY <1>7, <1>8, <3>1
  <2>6. ClearedInv'
    <3>1. Size' = Size /\ batchClaims' = batchClaims
      BY <2>2 DEF Size
    <3> QED BY <1>3, <1>13, <1>14, <2>2, <2>5, <3>1 DEF ClearedInv
  <2> QED BY <1>9, <1>11, <1>12, <2>3, <2>4, <2>6 DEF Inv
<1>16. CASE next = {}
  <2>1. \A c \in claims : Compared(c) /\ Refuted(c)
    <3>1. ASSUME NEW i \in 1..Size PROVE Compared(batchClaims[i]) /\ Refuted(batchClaims[i])
      BY <1>7, <1>8, <1>16
    <3>2. ToSet(batchClaims) = {batchClaims[i] : i \in 1..Size}
      BY <1>5 DEF ToSet, Size
    <3> QED BY <1>14, <3>1, <3>2
  <2>2. FocusInv'
    <3>1. stage' \in {"gate", "verify"}
      BY <1>3, <1>16 DEF Verify
    <3> QED BY <3>1 DEF FocusInv, Focusing, RequestPolicy
  <2>3. CASE later = {}
    <3>1. stage' = "gate"
      BY <1>3, <1>16, <2>3
    <3>2. Ids(claims) \subseteq DOMAIN verdicts
      <4> SUFFICES ASSUME NEW c \in claims PROVE c.id \in DOMAIN verdicts
        BY DEF Ids
      <4>1. PICK s \in VerificationRequests(claims) : c \in ClaimsAt(claims, s)
        BY ClaimsAreVerified DEF Inv
      <4>2. s < batch \/ s = batch
        BY <1>2, <1>5, <2>3
      <4> QED BY <1>3, <1>5, <4>1, <4>2 DEF Reached
    <3>3. BatchInv' /\ ClearedInv'
      BY <1>3, <1>13, <2>1, <3>1, <3>2 DEF BatchInv, ClearedInv, Reviewing, Focusing, RequestPolicy
    <3> QED BY <1>9, <1>11, <1>12, <2>2, <3>3 DEF Inv
  <2>4. CASE later # {}
    <3>1. Min(later) \in later /\ \A x \in later : Min(later) <= x
      <4>1. later \in SUBSET Nat
        BY <1>2, <1>5
      <4> QED BY <2>4, <4>1, MinOfNaturals
    <3>2. /\ stage' = "verify" /\ batch' = Min(later)
          /\ batchClaims' \in InOrder(ClaimsAt(claims, batch'))
      BY <1>3, <1>16, <2>4 DEF Verify
    <3>3. /\ batchClaims' \in Seq(ClaimsAt(claims, batch'))
          /\ ToSet(batchClaims') = ClaimsAt(claims, batch')
      BY <3>2 DEF InOrder
    <3>4. batchClaims' \in Seq(claims)
      <4>1. ClaimsAt(claims, batch') \subseteq claims
        BY DEF ClaimsAt
      <4> QED BY <3>3, <4>1
    <3>5. \A s \in VerificationRequests(claims) : s < batch' <=> (s < batch \/ s = batch)
      <4>1. PICK m : m = batch'
        OBVIOUS
      <4>2. m \in later /\ \A x \in later : m <= x
        BY <3>1, <3>2, <4>1
      <4>3. m \in Nat /\ batch < m
        BY <1>2, <1>5, <4>2
      <4>4. \A s \in VerificationRequests(claims) : s < m <=> (s < batch \/ s = batch)
        BY <1>2, <1>5, <4>2, <4>3
      <4> QED BY <4>1, <4>4
    <3>6. VerificationRequests(claims)' = VerificationRequests(claims)
          /\ \A s : ClaimsAt(claims, s)' = ClaimsAt(claims, s)
      BY <1>3, VerificationFrame
    <3>7. \A c : Reached(c)' <=> Reached(c)
      BY <1>3, <3>2, <3>5, <3>6 DEF Reached
    <3>8. BatchInv'
      <4>1. batch' \in VerificationRequests(claims)
        BY <1>2, <3>1, <3>2
      <4>2. PICK b : b = batch'
        OBVIOUS
      <4>3. ToSet(batchClaims)' = ClaimsAt(claims, batch)'
        BY <3>3, <3>6, <4>2
      <4> QED BY <1>3, <1>5, <3>2, <3>4, <3>6, <3>7, <4>1, <4>3 DEF BatchInv
    <3>9. ClearedInv'
      BY <1>3, <1>13, <2>1, <3>2 DEF ClearedInv, Focusing, RequestPolicy
    <3> QED BY <1>9, <1>11, <1>12, <2>2, <3>8, <3>9 DEF Inv
  <2> QED BY <2>3, <2>4
<1> QED BY <1>15, <1>16
-----------------------------------------------------------------------------
(* A synthesis reply is registered.                                         *)
LEMMA RequestsFrame ==
  ASSUME UNCHANGED <<task, phase, prior, reopened>>
  PROVE  SynthesisRequests' = SynthesisRequests
<1>1. Active' = Active /\ Modes' = Modes
  BY DEF Active, Modes, Positions
<1>2. \A s : GoalsAt(s)' = GoalsAt(s)
  BY <1>1 DEF GoalsAt
<1>3. \A goals : PriorsOf(goals)' = PriorsOf(goals)
  BY DEF PriorsOf
<1> QED BY <1>1, <1>2, <1>3, AnchorFrame DEF SynthesisRequests

LEMMA AskedGoals ==
  ASSUME IdsInv
  PROVE  /\ Asked \subseteq Goals
         /\ \A g, h \in Goals : g.id = h.id => g = h
<1>1. Asked \subseteq Goals
  <2>1. BatchAt(Active, Modes, UnderWay) \subseteq DOMAIN task.goals
    BY DEF BatchAt, Active, Positions
  <2> QED BY <2>1 DEF Asked, GoalsAt, Goals, ToSet
<1>2. \A g, h \in Goals : g.id = h.id => g = h
  BY PositionsAreNaturals DEF Goals, ToSet, Positions
<1> QED BY <1>1, <1>2

\* The claims of any set are verified, as its goals are goals of the task.
LEMMA AnyClaimsAreVerified ==
  ASSUME IdsInv, NEW cs, GoalsOf(cs) \subseteq {g.id : g \in Goals}, NEW c \in cs
  PROVE  \E s \in VerificationRequests(cs) : c \in ClaimsAt(cs, s)
<1>1. PICK g \in Goals : g.id = c.goal
  BY DEF GoalsOf
<1>2. PICK i \in Positions : task.goals[i] = g
  BY DEF Goals, ToSet, Positions
<1>3. i \in Verifiable(cs)
  BY <1>1, <1>2 DEF Verifiable, GoalsOf
<1>4. \E s \in Starts(Verifiable(cs), AnyMode) : i \in BatchAt(Verifiable(cs), AnyMode, s)
  BY <1>3, RequestsAreNaturals, BatchCovers
<1> QED BY <1>1, <1>2, <1>4 DEF VerificationRequests, ClaimsAt

\* What is shown to the model may leave evidence out, and changes nothing else.
LEMMA KeptForms ==
  ASSUME NEW accepted, NEW goals, NEW shown, NEW c \in KeepingShown(accepted, goals, shown)
  PROVE  \E a \in accepted :
           /\ c.id = a.id /\ c.goal = a.goal /\ c.text = a.text /\ c.measure = a.measure
           /\ \/ c = a
              \/ c = Restated(a, a.text, a.refs \intersect shown)
BY DEF KeepingShown, Restated

LEMMA KeptIds ==
  ASSUME NEW accepted, NEW goals, NEW shown, OneClaimPerId(accepted)
  PROVE  /\ OneClaimPerId(KeepingShown(accepted, goals, shown))
         /\ Ids(KeepingShown(accepted, goals, shown)) \subseteq Ids(accepted)
         /\ GoalsOf(KeepingShown(accepted, goals, shown)) \subseteq GoalsOf(accepted)
<1> DEFINE kept_ == KeepingShown(accepted, goals, shown)
<1>1. \A c \in kept_ : \E a \in accepted : c.id = a.id /\ c.goal = a.goal
  BY DEF KeepingShown, Restated
<1>2. ASSUME NEW c \in kept_, NEW d \in kept_, c.id = d.id PROVE c = d
  <2> DEFINE narrows(a) == /\ With(goals, a.goal).policy = "direct_source"
                           /\ a.refs \intersect shown # {}
             Form(a) == IF narrows(a) THEN Restated(a, a.text, a.refs \intersect shown) ELSE a
  <2>1. PICK a \in accepted : c = Form(a)
    BY DEF KeepingShown
  <2>2. PICK b \in accepted : d = Form(b)
    BY DEF KeepingShown
  <2>3. Form(a).id = a.id /\ Form(b).id = b.id
    BY DEF Restated
  <2>4. a = b
    BY <1>2, <2>1, <2>2, <2>3 DEF OneClaimPerId
  <2> QED BY <2>1, <2>2, <2>4
<1> HIDE DEF kept_
<1>3. OneClaimPerId(kept_) /\ Ids(kept_) \subseteq Ids(accepted)
      /\ GoalsOf(kept_) \subseteq GoalsOf(accepted)
  BY <1>1, <1>2 DEF OneClaimPerId, Ids, GoalsOf
<1> QED BY <1>3 DEF kept_

LEMMA ImageIds ==
  ASSUME NEW cs, NEW f, NEW ds, ds = {f[a] : a \in cs}, OneClaimPerId(cs),
         \A a \in cs : f[a].id = a.id /\ f[a].goal = a.goal
  PROVE  /\ OneClaimPerId(ds) /\ Ids(ds) \subseteq Ids(cs) /\ GoalsOf(ds) \subseteq GoalsOf(cs)
<1>1. \A d \in ds : \E a \in cs : d = f[a]
  OBVIOUS
<1>2. OneClaimPerId(ds)
  BY <1>1 DEF OneClaimPerId
<1> QED BY <1>1, <1>2 DEF Ids, GoalsOf

\* The file of a test is written into a text, its companion test cited.
LEMMA TestNamedForms ==
  ASSUME NEW goal, NEW a, NEW visible, NEW t, t = TestNamed(goal, a, visible)
  PROVE  /\ t.id = a.id /\ t.goal = a.goal /\ t.measure = a.measure
         /\ a.refs \subseteq t.refs
         /\ \A o \in t.refs \ a.refs :
              o \in Sources(visible) /\ "companion" \in goal.traits /\ Observation[o].role = "test"
         /\ \/ t.text = a.text
            \/ /\ goal.traits \intersect {"one_test", "companion"} # {}
               /\ \E names : t.text = WithNames(a.text, names)
<1>1. CASE t = a
  BY <1>1
<1>2. CASE t # a
  <2>1. PICK companions :
          companions = IF "companion" \in goal.traits /\ TestPaths(a) = {}
                       THEN CompanionTests(a, visible) ELSE {}
    OBVIOUS
  <2>2. /\ goal.traits \intersect {"one_test", "companion"} # {}
        /\ t = Restated(a, WithNames(a.text, TestPaths(a) \union Paths(companions)),
                        a.refs \union companions)
    BY <1>2, <2>1 DEF TestNamed
  <2>3. \A o \in CompanionTests(a, visible) : o \in Sources(visible) /\ Observation[o].role = "test"
    BY DEF CompanionTests
  <2>4. \A o \in companions :
          o \in Sources(visible) /\ "companion" \in goal.traits /\ Observation[o].role = "test"
    BY <2>1, <2>3
  <2> QED BY <2>2, <2>4 DEF Restated
<1> QED BY <1>1, <1>2

\* A risk boundary restates sources of its batch; other claims are left alone.
LEMMA BoundedForms ==
  ASSUME NEW cs, NEW goals, NEW b \in RiskBounded(cs, goals)
  PROVE  \E t \in cs :
           /\ b.id = t.id /\ b.goal = t.goal /\ b.measure = t.measure
           /\ \/ b = t
              \/ /\ "risk" \in With(goals, t.goal).traits
                 /\ b.text = ImpactText(b.refs)
                 /\ \A o \in b.refs : \E d \in cs : o \in Sources(d.refs)
<1>1. PICK sources : sources = Sources(UNION {c.refs : c \in ImpactClaims(cs, goals)})
  OBVIOUS
<1>2. PICK t \in cs :
        b = IF "risk" \in With(goals, t.goal).traits /\ sources # {}
            THEN Restated(t, ImpactText(sources), sources) ELSE t
  BY <1>1 DEF RiskBounded
<1>3. \A o \in sources : \E d \in cs : o \in Sources(d.refs)
  BY <1>1 DEF ImpactClaims, Sources, Kind
<1> QED BY <1>2, <1>3 DEF Restated

LEMMA BoundedIds ==
  ASSUME NEW cs, NEW goals, OneClaimPerId(cs)
  PROVE  /\ OneClaimPerId(RiskBounded(cs, goals)) /\ Ids(RiskBounded(cs, goals)) \subseteq Ids(cs)
         /\ GoalsOf(RiskBounded(cs, goals)) \subseteq GoalsOf(cs)
<1>1. PICK sources : sources = Sources(UNION {c.refs : c \in ImpactClaims(cs, goals)})
  OBVIOUS
<1> DEFINE Form(c) == IF "risk" \in With(goals, c.goal).traits /\ sources # {}
                      THEN Restated(c, ImpactText(sources), sources) ELSE c
           f == [c \in cs |-> Form(c)]
<1>2. RiskBounded(cs, goals) = {Form(c) : c \in cs}
  BY <1>1 DEF RiskBounded
<1>3. \A c \in cs : f[c] = Form(c) /\ Form(c).id = c.id /\ Form(c).goal = c.goal
  BY DEF Restated
<1> HIDE DEF f, Form
<1>4. RiskBounded(cs, goals) = {f[c] : c \in cs} /\ \A c \in cs : f[c].id = c.id /\ f[c].goal = c.goal
  BY <1>2, <1>3
<1> QED BY <1>4, ImageIds

\* What the runtime words keeps ids and goals.
LEMMA RewordedIds ==
  ASSUME NEW cs, OneClaimPerId(cs)
  PROVE  /\ OneClaimPerId(Reworded(cs)) /\ Ids(Reworded(cs)) \subseteq Ids(cs)
         /\ GoalsOf(Reworded(cs)) \subseteq GoalsOf(cs)
<1> DEFINE f == [c \in cs |-> TestNamed(With(Asked, c.goal), c, Visible)]
           named == {TestNamed(With(Asked, c.goal), c, Visible) : c \in cs}
<1>1. named = {f[c] : c \in cs}
  OBVIOUS
<1>2. \A c \in cs : f[c].id = c.id /\ f[c].goal = c.goal
  BY TestNamedForms
<1>3. Reworded(cs) = RiskBounded(named, Asked)
  BY DEF Reworded
<1> HIDE DEF f, named
<1>4. OneClaimPerId(named) /\ Ids(named) \subseteq Ids(cs) /\ GoalsOf(named) \subseteq GoalsOf(cs)
  BY <1>1, <1>2, ImageIds
<1> QED BY <1>3, <1>4, BoundedIds

\* A usage search is cited, and nothing else is changed.
LEMMA UsageForms ==
  ASSUME NEW goal, NEW k, NEW shown, NEW u, u = UsageBound(goal, k, shown)
  PROVE  /\ u.id = k.id /\ u.goal = k.goal /\ u.measure = k.measure /\ u.text = k.text
         /\ k.refs \subseteq u.refs
         /\ \A o \in u.refs \ k.refs :
              o \in Searches(shown) /\ "usage" \in goal.traits /\ Observation[o].usage
         /\ u = k \/ goal.policy = "bounded_usage_cross_check"
<1>1. CASE u = k
  BY <1>1
<1>2. CASE u # k
  <2>1. PICK covering :
          covering = {o \in Searches(shown) : /\ Observation[o].usage /\ Observation[o].complete
                                              /\ Paths(k.refs) \subseteq Observation[o].items}
    OBVIOUS
  <2>2. /\ goal.policy = "bounded_usage_cross_check" /\ "usage" \in goal.traits /\ covering # {}
        /\ u = Restated(k, k.text, k.refs \union {CHOOSE o \in covering : TRUE})
    BY <1>2, <2>1 DEF UsageBound
  <2>3. PICK s \in covering : s = CHOOSE o \in covering : TRUE
    BY <2>2
  <2> QED BY <2>1, <2>2, <2>3 DEF Restated
<1> QED BY <1>1, <1>2

\* A registered claim is an accepted one, narrowed, bound to its search, located.
LEMMA GroundedForms ==
  ASSUME NEW accepted, NEW c \in Grounded(accepted)
  PROVE  \E b \in accepted :
           /\ c.id = b.id /\ c.goal = b.goal
           /\ \E k, u :
                /\ \/ k = b
                   \/ /\ With(Asked, b.goal).policy = "direct_source"
                      /\ k = Restated(b, b.text, b.refs \intersect Packet)
                /\ u = UsageBound(With(Asked, b.goal), k, Packet)
                /\ c = Located(With(Asked, b.goal), u, Packet)
<1>1. PICK bound :
        bound = {UsageBound(With(Asked, k.goal), k, Packet) :
                   k \in KeepingShown(accepted, Asked, Packet)}
  OBVIOUS
<1>2. PICK u \in CompleteRelevance(bound, Asked, Observed) : c = Located(With(Asked, u.goal), u, Packet)
  BY <1>1 DEF Grounded
<1>3. u \in bound
  BY <1>2 DEF CompleteRelevance
<1>4. PICK k \in KeepingShown(accepted, Asked, Packet) : u = UsageBound(With(Asked, k.goal), k, Packet)
  BY <1>1, <1>3
<1>5. PICK b \in accepted :
        /\ k.id = b.id /\ k.goal = b.goal
        /\ \/ k = b
           \/ /\ With(Asked, b.goal).policy = "direct_source"
              /\ k = Restated(b, b.text, b.refs \intersect Packet)
  BY <1>4 DEF KeepingShown, Restated
<1>6. u.id = k.id /\ u.goal = k.goal
  BY <1>4, UsageForms
<1>7. c.id = u.id /\ c.goal = u.goal
  BY <1>2, LocatedForms
<1> QED BY <1>2, <1>4, <1>5, <1>6, <1>7

LEMMA GroundedIds ==
  ASSUME NEW accepted, OneClaimPerId(accepted)
  PROVE  /\ OneClaimPerId(Grounded(accepted)) /\ Ids(Grounded(accepted)) \subseteq Ids(accepted)
         /\ GoalsOf(Grounded(accepted)) \subseteq GoalsOf(accepted)
<1>1. PICK shown : shown = KeepingShown(accepted, Asked, Packet)
  OBVIOUS
<1>2. OneClaimPerId(shown) /\ Ids(shown) \subseteq Ids(accepted) /\ GoalsOf(shown) \subseteq GoalsOf(accepted)
  BY <1>1, KeptIds
<1> DEFINE bind == [k \in shown |-> UsageBound(With(Asked, k.goal), k, Packet)]
           bound == {bind[k] : k \in shown}
<1>3. \A k \in shown : bind[k].id = k.id /\ bind[k].goal = k.goal
  BY UsageForms
<1>4. bound = {UsageBound(With(Asked, k.goal), k, Packet) : k \in shown}
  OBVIOUS
<1> HIDE DEF bind
<1>5. OneClaimPerId(bound) /\ Ids(bound) \subseteq Ids(shown) /\ GoalsOf(bound) \subseteq GoalsOf(shown)
  BY <1>2, <1>3, ImageIds
<1> HIDE DEF bound
<1>6. PICK left : left = CompleteRelevance(bound, Asked, Observed)
  OBVIOUS
<1>7. left \subseteq bound
  BY <1>6 DEF CompleteRelevance
<1>8. OneClaimPerId(left) /\ Ids(left) \subseteq Ids(bound) /\ GoalsOf(left) \subseteq GoalsOf(bound)
  BY <1>5, <1>7 DEF OneClaimPerId, Ids, GoalsOf
<1> DEFINE locate == [u \in left |-> Located(With(Asked, u.goal), u, Packet)]
<1>9. \A u \in left : locate[u].id = u.id /\ locate[u].goal = u.goal
  BY LocatedForms
<1>10. Grounded(accepted) = {locate[u] : u \in left}
  BY <1>1, <1>4, <1>6 DEF Grounded
<1> HIDE DEF locate
<1>11. /\ OneClaimPerId(Grounded(accepted)) /\ Ids(Grounded(accepted)) \subseteq Ids(left)
       /\ GoalsOf(Grounded(accepted)) \subseteq GoalsOf(left)
  BY <1>8, <1>9, <1>10, ImageIds
<1> QED BY <1>2, <1>5, <1>8, <1>11

LEMMA PacketIsObserved == Packet \subseteq Visible /\ Visible \subseteq Observed
<1>1. Visible \subseteq Observed
  BY DEF Visible, BatchObservations, Sources, Kind
<1>2. Packet \subseteq Visible
  BY DEF Packet, Shown, AnchorRefs, Sources, Kind
<1> QED BY <1>1, <1>2

\* The goal of a batch is the goal of the task.
LEMMA AskedGoal ==
  ASSUME IdsInv, NEW id \in {g.id : g \in Asked}
  PROVE  /\ With(Asked, id) = With(Goals, id) /\ With(Goals, id) \in Goals
         /\ With(Goals, id) \in Asked /\ With(Goals, id).id = id
BY AskedGoals DEF With

\* A prior claim among the candidates has what it had, and fresh evidence.
LEMMA CandidateCarries ==
  ASSUME PriorInv, phase = "post-repair",
         NEW reply, NEW a \in Candidates(reply), a.goal \in {g.id : g \in Asked},
         NEW p \in prior, a.id = p.id, a.goal = p.goal
  PROVE  /\ a.measure = p.measure /\ a.text = p.text
         /\ p.refs \subseteq a.refs /\ a.refs \subseteq p.refs \union task.fresh
<1>3. p \in PriorsOf(Asked)
  BY DEF PriorsOf
<1>4. a \notin NewClaims(reply, Asked, PriorsOf(Asked))
  BY <1>3 DEF NewClaims, Ids
<1>5. PICK q \in PriorsOf(Asked), F \in SUBSET (Fresh \intersect Packet) :
        a = Restated(q, q.text, q.refs \union F)
  <2>1. a \in CarriedPriors(reply, PriorsOf(Asked), Fresh \intersect Packet)
    BY <1>4 DEF Candidates
  <2>2. PICK q \in PriorsOf(Asked) :
          a = Restated(q, q.text, q.refs \union
                ((UNION {d.refs : d \in {e \in reply : e.id = q.id}}) \intersect (Fresh \intersect Packet)))
    BY <2>1 DEF CarriedPriors
  <2>3. PICK G : G = UNION {d.refs : d \in {e \in reply : e.id = q.id}}
    OBVIOUS
  <2>4. a = Restated(q, q.text, q.refs \union (G \intersect (Fresh \intersect Packet)))
    BY <2>2, <2>3
  <2>5. G \intersect (Fresh \intersect Packet) \in SUBSET (Fresh \intersect Packet)
    OBVIOUS
  <2> QED BY <2>4, <2>5, Zenon
<1>6. q = p
  <2>1. q.id = p.id /\ q \in prior
    BY <1>5 DEF Restated, PriorsOf
  <2> QED BY <2>1 DEF PriorInv, OneClaimPerId
<1>7. a.measure = p.measure /\ a.text = p.text /\ a.refs = p.refs \union F
  BY <1>5, <1>6 DEF Restated
<1>8. F \subseteq task.fresh
  BY <1>5 DEF Fresh
<1> QED BY <1>7, <1>8

\* What names and ranges the runtime writes leave of a text.
LEMMA WrittenText ==
  ASSUME NEW goal, NEW p, NEW c, NEW text,
         \/ text = p.text
         \/ /\ goal.traits \intersect {"one_test", "companion"} # {}
            /\ \E names : text = WithNames(p.text, names),
         c.text = text \/ Ranged(goal, text, c)
  PROVE  SameText(goal, c, p)
<1>1. /\ text.words = p.text.words /\ p.text.names \subseteq text.names
      /\ text.names # p.text.names => goal.traits \intersect {"one_test", "companion"} # {}
      /\ text.range = p.text.range
  BY DEF WithNames
<1>2. CASE c.text = text
  BY <1>1, <1>2 DEF SameText
<1>3. CASE Ranged(goal, text, c)
  <2>1. PICK o \in Sources(c.refs) :
          Observation[o].defines /\ c.text \in {WithRange(text, {o}), DefinitionText({o})}
    BY <1>3 DEF Ranged
  <2>2. CASE c.text = DefinitionText({o})
    BY <1>3, <2>1, <2>2 DEF Ranged, SameText
  <2>3. CASE c.text = WithRange(text, {o})
    <3>1. c.text.words = text.words /\ c.text.names = text.names /\ c.text.range = {o}
      BY <2>3 DEF WithRange
    <3> QED BY <1>1, <1>3, <2>1, <3>1 DEF Ranged, SameText
  <2> QED BY <2>1, <2>2, <2>3
<1> QED BY <1>2, <1>3

\* A prior claim goes on with all it had, but what its batch is not shown, and
\* with what the runtime writes into it.
LEMMA AcceptedCarries ==
  ASSUME IdsInv, PriorInv, phase = "post-repair",
         NEW reply, Sound(Candidates(reply), Asked, used, Visible),
         NEW accepted, accepted \subseteq Reworded(Candidates(reply)),
         NEW c \in Grounded(accepted),
         NEW p \in prior, c.id = p.id, c.goal = p.goal
  PROVE  Carries(c, p)
<1>a. PICK b \in accepted : \E k, u :
        /\ c.id = b.id /\ c.goal = b.goal
        /\ \/ k = b
           \/ /\ With(Asked, b.goal).policy = "direct_source"
              /\ k = Restated(b, b.text, b.refs \intersect Packet)
        /\ u = UsageBound(With(Asked, b.goal), k, Packet)
        /\ c = Located(With(Asked, b.goal), u, Packet)
  BY GroundedForms
<1>1. PICK k, u :
        /\ c.id = b.id /\ c.goal = b.goal
        /\ \/ k = b
           \/ /\ With(Asked, b.goal).policy = "direct_source"
              /\ k = Restated(b, b.text, b.refs \intersect Packet)
        /\ u = UsageBound(With(Asked, b.goal), k, Packet)
        /\ c = Located(With(Asked, b.goal), u, Packet)
  BY <1>a
<1>2. PICK named : named = {TestNamed(With(Asked, a.goal), a, Visible) : a \in Candidates(reply)}
  OBVIOUS
<1>3. PICK t \in named :
        /\ b.id = t.id /\ b.goal = t.goal /\ b.measure = t.measure
        /\ \/ b = t
           \/ /\ "risk" \in With(Asked, t.goal).traits
              /\ b.text = ImpactText(b.refs)
              /\ \A o \in b.refs : \E d \in named : o \in Sources(d.refs)
  <2>1. b \in RiskBounded(named, Asked)
    BY <1>2 DEF Reworded
  <2> QED BY <2>1, BoundedForms
<1>4. PICK a \in Candidates(reply) : t = TestNamed(With(Asked, a.goal), a, Visible)
  BY <1>2
<1>5. /\ t.id = a.id /\ t.goal = a.goal /\ t.measure = a.measure
      /\ a.refs \subseteq t.refs
      /\ \A o \in t.refs \ a.refs : /\ o \in Sources(Visible)
                                    /\ "companion" \in With(Asked, a.goal).traits
                                    /\ Observation[o].role = "test"
      /\ \/ t.text = a.text
         \/ /\ With(Asked, a.goal).traits \intersect {"one_test", "companion"} # {}
            /\ \E names : t.text = WithNames(a.text, names)
  BY <1>4, TestNamedForms
<1>6. a.refs \subseteq Visible /\ a.goal \in {g.id : g \in Asked} /\ a.id = p.id /\ a.goal = p.goal
  BY <1>1, <1>3, <1>5 DEF Sound
<1>7. /\ a.measure = p.measure /\ a.text = p.text
      /\ p.refs \subseteq a.refs /\ a.refs \subseteq p.refs \union task.fresh
  BY <1>6, CandidateCarries
<1>8. PICK goal : goal = GoalOf(p)
  OBVIOUS
<1>9. /\ With(Asked, p.goal) = goal /\ goal \in Asked
      /\ "risk" \in goal.traits => goal.policy = "impact_categories"
  BY <1>6, <1>8, AskedGoal, TasksAssumption DEF GoalOf, IdsInv, Goals
<1>10. b.goal = p.goal /\ t.goal = p.goal
  BY <1>1, <1>3
<1>11. /\ u.measure = k.measure /\ u.text = k.text /\ k.refs \subseteq u.refs
       /\ \A o \in u.refs \ k.refs :
            o \in Searches(Packet) /\ "usage" \in goal.traits /\ Observation[o].usage
       /\ u = k \/ goal.policy = "bounded_usage_cross_check"
  BY <1>1, <1>9, <1>10, UsageForms
<1>12. /\ c.measure = u.measure /\ c.refs = u.refs
       /\ c = u \/ Ranged(goal, u.text, c)
  <2>1. c = Located(goal, u, Packet)
    BY <1>1, <1>9, <1>10
  <2> QED BY <2>1, LocatedForms
<1>13. /\ k.measure = b.measure /\ k.text = b.text /\ k.refs \subseteq b.refs
       /\ b.refs \intersect Packet \subseteq k.refs
       /\ k = b \/ goal.policy = "direct_source"
  BY <1>1, <1>9, <1>10 DEF Restated
<1>14. c.measure = p.measure
  BY <1>3, <1>5, <1>7, <1>11, <1>12, <1>13
<1>15. CASE b = t
  <2>1. SameText(goal, c, p)
    <3>1. PICK text : text = u.text
      OBVIOUS
    <3>2. \/ text = p.text
          \/ /\ goal.traits \intersect {"one_test", "companion"} # {}
             /\ \E names : text = WithNames(p.text, names)
      BY <1>5, <1>6, <1>7, <1>9, <1>11, <1>13, <1>15, <3>1
    <3>3. c.text = text \/ Ranged(goal, text, c)
      BY <1>12, <3>1
    <3> QED BY <3>2, <3>3, WrittenText
  <2>2. c.refs \subseteq p.refs \union task.fresh \union OwnEvidence(goal)
    <3> SUFFICES ASSUME NEW o \in c.refs, o \notin p.refs \union task.fresh
                 PROVE  o \in OwnEvidence(goal)
      OBVIOUS
    <3>1. CASE o \in u.refs \ k.refs
      BY <1>11, <3>1, PacketIsObserved DEF OwnEvidence, Searches, Kind
    <3>2. CASE o \in t.refs \ a.refs
      BY <1>5, <1>6, <1>9, <3>2, PacketIsObserved DEF OwnEvidence, Sources, Kind
    <3> QED BY <1>7, <1>12, <1>13, <1>15, <3>1, <3>2
  <2>3. p.refs \intersect Packet \subseteq c.refs
    BY <1>5, <1>7, <1>11, <1>12, <1>13, <1>15
  <2>4. CASE p.refs \subseteq c.refs
    BY <1>8, <1>14, <2>1, <2>2, <2>4 DEF Carries
  <2>5. CASE ~(p.refs \subseteq c.refs)
    <3>1. Packet # Visible
      BY <1>6, <1>7, <2>3, <2>5
    <3>2. Packet = AnchorRefs(Anchor, Visible) /\ \A g \in Asked : "one_test" \in g.traits
      BY <3>1 DEF Packet, Shown
    <3>3. "one_test" \in goal.traits
      BY <1>9, <3>2
    <3>4. p.refs \intersect AnchorRefs(Anchor, Observed) \subseteq c.refs
      <4>1. p.refs \subseteq Visible
        BY <1>6, <1>7
      <4>2. Visible \intersect AnchorRefs(Anchor, Observed) \subseteq AnchorRefs(Anchor, Visible)
        BY DEF AnchorRefs, Sources, Kind
      <4> QED BY <2>3, <3>2, <4>1, <4>2
    <3> QED BY <1>8, <1>14, <2>1, <2>2, <3>3, <3>4 DEF Carries
  <2> QED BY <2>4, <2>5
<1>16. CASE /\ "risk" \in With(Asked, t.goal).traits
            /\ b.text = ImpactText(b.refs)
            /\ \A o \in b.refs : \E d \in named : o \in Sources(d.refs)
  <2>1. "risk" \in goal.traits /\ goal.policy = "impact_categories"
    BY <1>9, <1>10, <1>16
  <2>2. c.text = b.text /\ c.refs = b.refs
    BY <1>11, <1>12, <1>13, <2>1 DEF Ranged
  <2>3. \A d \in named : d.refs \subseteq Visible
    <3> TAKE d \in named
    <3>1. PICK e \in Candidates(reply) : d = TestNamed(With(Asked, e.goal), e, Visible)
      BY <1>2
    <3>2. \A o \in d.refs \ e.refs : o \in Sources(Visible)
      BY <3>1, TestNamedForms
    <3>3. e.refs \subseteq Visible
      BY DEF Sound
    <3> QED BY <3>2, <3>3 DEF Sources, Kind
  <2>4. b.refs \subseteq Sources(Observed)
    BY <1>16, <2>3, PacketIsObserved DEF Sources, Kind
  <2> QED BY <1>8, <1>14, <1>16, <2>1, <2>2, <2>4 DEF Carries
<1> QED BY <1>3, <1>15, <1>16

LEMMA UnderWayIsNatural ==
  ASSUME IdsInv, SynthesisInv, stage = "synthesis", SynthesisRequests # {}
  PROVE  UnderWay \in Nat
<1> DEFINE left == {s \in SynthesisRequests : batch <= s}
<1>1. left \in SUBSET Nat /\ left # {}
  BY RequestsAreNaturals DEF SynthesisInv
<1> HIDE DEF left
<1>2. Min(left) \in Nat
  BY <1>1, MinOfNaturals
<1> QED BY <1>2 DEF UnderWay, left

LEMMA RegisterInv ==
  ASSUME Inv, stage = "synthesis", SynthesisRequests # {},
         NEW reply, Sound(Candidates(reply), Asked, used, Visible),
         NEW accepted, accepted \subseteq Reworded(Candidates(reply)),
         Register(accepted)
  PROVE  Inv'
<1>1. PICK new : new = Grounded(accepted)
  OBVIOUS
<1>2. PICK u : u = UnderWay
  OBVIOUS
<1>3. PICK cs : cs = claims'
  OBVIOUS
<1>4. /\ cs = claims \union new /\ claims' = cs
      /\ used' = used \union Ids(accepted) /\ kept' = None
      /\ IF \E s \in SynthesisRequests : u < s THEN batch' = u + 1 /\ UNCHANGED stage
         ELSE IF cs = {} THEN batch' = 1 /\ stage' = "gate"
         ELSE Verify(cs, Min(VerificationRequests(cs)))
      /\ UNCHANGED <<task, phase, prior, reopened, verdicts, position, draft, corroborated, retry,
                     judgments>>
  BY <1>1, <1>2, <1>3 DEF Register
<1>5. /\ OneClaimPerId(new) /\ Ids(new) \subseteq Ids(accepted)
      /\ GoalsOf(new) \subseteq GoalsOf(accepted)
  <2>1. OneClaimPerId(Reworded(Candidates(reply)))
    BY RewordedIds DEF Sound
  <2>2. OneClaimPerId(accepted)
    BY <2>1 DEF OneClaimPerId
  <2> QED BY <1>1, <2>2, GroundedIds
<1>6. /\ Ids(accepted) \intersect used = {}
      /\ GoalsOf(accepted) \subseteq {g.id : g \in Goals}
  <2>1. PICK cs_ : cs_ = Candidates(reply)
    OBVIOUS
  <2>2. /\ Ids(Reworded(cs_)) \subseteq Ids(cs_) /\ GoalsOf(Reworded(cs_)) \subseteq GoalsOf(cs_)
    BY <2>1, RewordedIds DEF Sound
  <2>3. \A c \in cs_ : c.id \notin used /\ c.goal \in {g.id : g \in Asked}
    BY <2>1 DEF Sound
  <2>4. \A c \in accepted : c.id \notin used /\ c.goal \in {g.id : g \in Asked}
    BY <2>1, <2>2, <2>3 DEF Ids, GoalsOf
  <2> QED BY <2>4, AskedGoals DEF Ids, GoalsOf, Inv
<1>7. IdsInv'
  <2>1. OneClaimPerId(cs)
    <3>1. \A c \in claims, d \in new : c.id # d.id
      BY <1>5, <1>6 DEF Ids, Inv, IdsInv
    <3> QED BY <1>4, <1>5, <3>1 DEF OneClaimPerId, Inv, IdsInv
  <2>2. Ids(cs) \subseteq used'
    BY <1>4, <1>5 DEF Ids, Inv, IdsInv
  <2>3. GoalsOf(cs) \subseteq {g.id : g \in Goals}
    BY <1>4, <1>5, <1>6 DEF GoalsOf, Inv, IdsInv
  <2> QED BY <1>4, <2>1, <2>2, <2>3 DEF Inv, IdsInv, Goals, GoalsOf
<1>8. PriorInv'
  <2>1. ASSUME phase = "post-repair", NEW c \in cs, NEW p \in prior, c.id = p.id, c.goal = p.goal
        PROVE  Carries(c, p)
    <3>1. CASE c \in claims
      BY <2>1, <3>1 DEF Inv, PriorInv
    <3>2. CASE c \in new
      BY <1>1, <2>1, <3>2, AcceptedCarries DEF Inv
    <3> QED BY <1>4, <2>1, <3>1, <3>2
  <2>2. \A c \in cs, p \in prior :
          phase = "post-repair" /\ c.id = p.id /\ c.goal = p.goal => Carries(c, p)'
    BY <1>4, <2>1, CarriesFrame
  <2> QED BY <1>4, <2>2 DEF Inv, PriorInv
<1>9. SynthesisRequests' = SynthesisRequests /\ DOMAIN verdicts = {} /\ corroborated = {}
  BY <1>4, RequestsFrame DEF Inv, SynthesisInv
<1>10. ASSUME stage' = "synthesis" PROVE SynthesisInv'
  <2>1. PICK s \in SynthesisRequests : u < s
    BY <1>4, <1>10 DEF Verify
  <2>2. batch' = u + 1 /\ u \in Nat /\ s \in Nat
    BY <1>2, <1>4, <2>1, UnderWayIsNatural, RequestsAreNaturals DEF Inv
  <2>3. batch' <= s /\ batch' \in Nat
    BY <2>1, <2>2
  <2> QED BY <1>4, <1>9, <2>1, <2>3 DEF SynthesisInv
<1>11. stage' \in {"synthesis", "gate", "verify"}
  BY <1>4 DEF Verify
<1>12. SynthesisInv' /\ RefusedInv' /\ ReducedInv' /\ FocusInv' /\ RecheckInv'
  <2>1. SynthesisInv'
    BY <1>10 DEF SynthesisInv
  <2>2. RecheckInv'
    BY <1>4, RecheckFrame DEF Inv
  <2>3. FocusInv'
    BY <1>11 DEF FocusInv, Focusing, RequestPolicy
  <2> QED BY <1>4, <1>11, <2>1, <2>2, <2>3 DEF RefusedInv, ReducedInv, JudgedAsReturned,
             SupportIsCorroborated, PriorClaimsAreCarried
<1>13. DOMAIN verdicts' = {} /\ corroborated' = {} /\ \A c : ~Judged(c)'
  BY <1>4, <1>9 DEF Judged
<1>14. SupportInv' /\ ClearedInv'
  <2>1. \A c : Compared(c)' /\ Refuted(c)'
    BY <1>13 DEF Compared, Refuted
  <2>2. stage' \notin Focusing
    BY <1>11 DEF Focusing, RequestPolicy
  <2> QED BY <1>13, <2>1, <2>2 DEF SupportInv, ClearedInv
<1>15. BatchInv'
  <2>1. CASE stage' = "synthesis"
    BY <2>1 DEF BatchInv, Reviewing, Focusing, RequestPolicy
  <2>2. CASE stage' = "gate"
    <3>1. cs = {}
      BY <1>4, <2>2 DEF Verify
    <3> QED BY <1>4, <2>2, <3>1 DEF BatchInv, Reviewing, Focusing, RequestPolicy, Ids
  <2>3. CASE stage' = "verify"
    <3>1. PICK b : b = Min(VerificationRequests(cs))
      OBVIOUS
    <3>2. cs # {} /\ batch' = b /\ batchClaims' \in InOrder(ClaimsAt(cs, b))
      BY <1>4, <2>3, <3>1 DEF Verify
    <3>3. VerificationRequests(cs) \in SUBSET Nat /\ VerificationRequests(cs) # {}
      <4>1. PICK c \in cs : TRUE
        BY <3>2
      <4>2. GoalsOf(cs) \subseteq {g.id : g \in Goals}
        BY <1>4, <1>5, <1>6 DEF GoalsOf, Inv, IdsInv
      <4> QED BY <4>1, <4>2, AnyClaimsAreVerified, RequestsAreNaturals DEF Inv
    <3>4. b \in VerificationRequests(cs) /\ \A s \in VerificationRequests(cs) : b <= s
      BY <3>1, <3>3, MinOfNaturals
    <3>5. /\ VerificationRequests(claims)' = VerificationRequests(cs)
          /\ ClaimsAt(claims, batch)' = ClaimsAt(cs, b)
      <4>1. VerificationRequests(cs)' = VerificationRequests(cs) /\ ClaimsAt(cs, b)' = ClaimsAt(cs, b)
        BY <1>4, VerificationFrame
      <4> QED BY <1>4, <3>2, <4>1
    <3>6. batchClaims' \in Seq(cs) /\ ToSet(batchClaims') = ClaimsAt(cs, b)
      <4>1. batchClaims' \in Seq(ClaimsAt(cs, b)) /\ ToSet(batchClaims') = ClaimsAt(cs, b)
        BY <3>2 DEF InOrder
      <4>2. ClaimsAt(cs, b) \subseteq cs
        BY DEF ClaimsAt
      <4> QED BY <4>1, <4>2
    <3>7. \A c : ~Reached(c)'
      <4>1. \A s \in VerificationRequests(cs) : ~(s < b)
        BY <3>3, <3>4
      <4> QED BY <2>3, <3>2, <3>5, <4>1 DEF Reached
    <3> QED BY <1>4, <1>13, <2>3, <3>2, <3>4, <3>5, <3>6, <3>7 DEF BatchInv
  <2> QED BY <1>11, <2>1, <2>2, <2>3
<1> QED BY <1>7, <1>8, <1>12, <1>14, <1>15 DEF Inv

LEMMA SynthesisReplyInv == Inv /\ SynthesisReply => Inv'
<1> SUFFICES ASSUME Inv, SynthesisReply PROVE Inv'
  OBVIOUS
<1>1. stage = "synthesis" /\ SynthesisRequests # {}
  BY DEF SynthesisReply
<1>2. PICK reply :
        IF Accepts(reply) THEN Register(Reworded(Candidates(reply)))
        ELSE IF attempt = 0 THEN AskAgain(IF OnlyCountsMissing(reply) THEN reply ELSE None)
        ELSE IF Recoverable(reply) THEN Register(Recovered(reply))
        ELSE Stop("failed")
  BY DEF SynthesisReply
<1>3. CASE Accepts(reply) /\ Register(Reworded(Candidates(reply)))
  <2>1. Sound(Candidates(reply), Asked, used, Visible)
    BY <1>3 DEF Accepts
  <2>2. PICK accepted : accepted = Reworded(Candidates(reply))
    OBVIOUS
  <2> QED BY <1>1, <1>3, <2>1, <2>2, RegisterInv
<1>4. CASE OnlyCountsMissing(reply) /\ AskAgain(reply)
  <2>1. (\A c \in reply : c.refs # {}) /\ Sound(Candidates(reply), Asked, used, Visible)
    BY <1>4 DEF OnlyCountsMissing
  <2> QED BY <1>1, <1>4, <2>1, AskAgainInv
<1>5. CASE AskAgain(None)
  BY <1>5, AskAgainInv
<1>6. CASE Recoverable(reply) /\ Register(Recovered(reply))
  <2>1. PICK some : some = WithEvidence(reply)
    OBVIOUS
  <2>2. Sound(Candidates(some), Asked, used, Visible)
    BY <1>6, <2>1 DEF Recoverable
  <2>3. PICK accepted : accepted = Recovered(reply)
    OBVIOUS
  <2>4. accepted \subseteq Reworded(Candidates(some))
    BY <2>1, <2>3 DEF Recovered, Without
  <2> QED BY <1>1, <1>6, <2>2, <2>3, <2>4, RegisterInv
<1>7. CASE Stop("failed")
  BY <1>7, StopInv
<1> QED BY <1>2, <1>3, <1>4, <1>5, <1>6, <1>7

LEMMA SynthesisMalformedInv ==
  ASSUME Inv, NEW toolCalls \in BOOLEAN, SynthesisMalformed(toolCalls)
  PROVE  Inv'
<1>1. stage = "synthesis" /\ SynthesisRequests # {}
  BY DEF SynthesisMalformed
<1>2. CASE AskAgain(None)
  BY <1>2, AskAgainInv
<1>3. CASE Stop("failed")
  BY <1>3, StopInv
<1>4. CASE kept # None /\ Register(Recovered(kept))
  <2>1. PICK reply : reply = kept
    OBVIOUS
  <2>2. Sound(Candidates(reply), Asked, used, Visible) /\ \A c \in reply : c.refs # {}
    BY <1>4, <2>1 DEF Inv, RefusedInv
  <2>3. WithEvidence(reply) = reply
    BY <2>2 DEF WithEvidence
  <2>4. PICK accepted : accepted = Recovered(reply)
    OBVIOUS
  <2>5. accepted \subseteq Reworded(Candidates(reply))
    BY <2>3, <2>4 DEF Recovered, Without
  <2>6. Register(accepted)
    BY <1>4, <2>1, <2>4
  <2> QED BY <1>1, <2>2, <2>5, <2>6, RegisterInv
<1> QED BY <1>2, <1>3, <1>4 DEF SynthesisMalformed

LEMMA NothingToAskInv == Inv /\ NothingToAsk => Inv'
<1> SUFFICES ASSUME Inv, NothingToAsk PROVE Inv'
  OBVIOUS
<1>1. /\ stage = "synthesis" /\ stage' = "gate" /\ kept' = None /\ claims = {}
      /\ UNCHANGED <<task, phase, claims, used, prior, verdicts, retry, judgments>>
  BY DEF NothingToAsk, Stop, pass, Inv, SynthesisInv
<1>2. IdsInv' /\ PriorInv' /\ RecheckInv'
  BY <1>1, IdsFrame, PriorFrame, RecheckFrame DEF Inv
<1>3. stage' \notin Reviewing /\ stage' \notin Focusing
  BY <1>1 DEF Reviewing, Focusing, RequestPolicy
<1>4. SynthesisInv' /\ RefusedInv' /\ ReducedInv'
  BY <1>1 DEF SynthesisInv, RefusedInv, ReducedInv, JudgedAsReturned, SupportIsCorroborated,
              PriorClaimsAreCarried
<1>5. BatchInv' /\ SupportInv' /\ ClearedInv'
  BY <1>1, <1>3 DEF BatchInv, SupportInv, ClearedInv, Ids
<1>6. FocusInv'
  BY <1>1, <1>3 DEF FocusInv, Focusing
<1> QED BY <1>2, <1>4, <1>5, <1>6 DEF Inv

\* Failures of a request, and the end of the run.
LEMMA FailuresInv ==
  ASSUME Inv, Malformed \/ RequestFails \/ Abort \/ Finish
  PROVE  Inv'
<1>1. AskAgain(None) \/ Stop("failed") \/ Stop("done")
  BY DEF Malformed, RequestFails, Abort, Finish
<1> QED BY <1>1, AskAgainInv, StopInv
-----------------------------------------------------------------------------
(* The gate only downgrades, and what it lets pass has its two verifiers.   *)
LEMMA GatedStands ==
  ASSUME NEW goal, NEW c, NEW v, NEW wrapper, NEW flags, NEW certified,
         Supports(Gated(goal, c, v, wrapper, flags, certified))
  PROVE  /\ Gated(goal, c, v, wrapper, flags, certified) = v
         /\ Supports(v) /\ Passes(goal, c, v, wrapper, flags, certified)
<1>1. \A refs, reason : ~Supports(Insufficient(refs, reason))
  BY DEF Supports, Insufficient
<1>2. Gated(goal, c, v, wrapper, flags, certified) = v
  BY <1>1 DEF Gated
<1> QED BY <1>1, <1>2 DEF Gated

LEMMA WordedForms ==
  ASSUME NEW goal, NEW c, NEW v
  PROVE  /\ Worded(goal, c, v).id = c.id /\ Worded(goal, c, v).goal = c.goal
         /\ Worded(goal, c, v).refs = c.refs /\ Worded(goal, c, v).measure = c.measure
         /\ Worded(goal, c, v).text \in {c.text, CountText}
         /\ goal.policy # "deterministic_count" => Worded(goal, c, v) = c
BY DEF Worded, Restated

\* A risk boundary loses evidence, or its support; all other verdicts stand.
LEMMA BackedForms ==
  ASSUME Inv, stage = "gate", NEW c \in claims,
         NEW backed, backed = RiskBacked(Goals, claims, verdicts), Supports(backed[c.id])
  PROVE  /\ Supports(verdicts[c.id]) /\ backed[c.id].resolution = verdicts[c.id].resolution
         /\ backed[c.id].refs \subseteq verdicts[c.id].refs
         /\ backed[c.id] = verdicts[c.id] \/ GoalOf(c).policy = "impact_categories"
<1>1. c.id \in DOMAIN verdicts /\ With(claims, c.id) = c
  BY DEF Inv, BatchInv, IdsInv, OneClaimPerId, Ids, With
<1>2. "risk" \in GoalOf(c).traits => GoalOf(c).policy = "impact_categories"
  <2>1. task \in Tasks /\ c.goal \in {g.id : g \in Goals}
    BY DEF Inv, IdsInv, GoalsOf
  <2>2. GoalOf(c) \in Goals
    BY <2>1 DEF GoalOf, With
  <2> QED BY <2>1, <2>2, TasksAssumption DEF Goals
<1>3. CASE "risk" \in GoalOf(c).traits /\ Supports(verdicts[c.id])
  <2>1. PICK backing : backed[c.id] =
          IF verdicts[c.id].refs \intersect backing = {} THEN Insufficient({}, "semantic_mismatch")
          ELSE Citing(verdicts[c.id], verdicts[c.id].refs \intersect backing)
    BY <1>1, <1>3 DEF RiskBacked, GoalOf
  <2>2. ~Supports(Insufficient({}, "semantic_mismatch"))
    BY DEF Supports, Insufficient
  <2>3. backed[c.id] = Citing(verdicts[c.id], verdicts[c.id].refs \intersect backing)
    BY <2>1, <2>2
  <2>4. /\ backed[c.id].resolution = verdicts[c.id].resolution
        /\ backed[c.id].refs \subseteq verdicts[c.id].refs
    BY <2>3 DEF Citing
  <2> QED BY <1>2, <1>3, <2>4
<1>4. CASE ~("risk" \in GoalOf(c).traits /\ Supports(verdicts[c.id]))
  <2>1. backed[c.id] = verdicts[c.id]
    BY <1>1, <1>4 DEF RiskBacked, GoalOf
  <2> QED BY <2>1
<1> QED BY <1>3, <1>4

\* The second verifier is behind a flag, or the step of a policy saw to it.
LEMMA PassedTwice ==
  ASSUME Inv, stage = "gate", NEW c \in claims, NEW certified, NEW v,
         Supports(verdicts[c.id]), v.resolution = verdicts[c.id].resolution,
         v.refs \subseteq verdicts[c.id].refs,
         v = verdicts[c.id] \/ GoalOf(c).policy = "impact_categories",
         Passes(GoalOf(c), c, v, task.wrapper, FlagsOf(c), certified),
         NeedsTwo(c, v)
  PROVE  Twice(c, v)
<1> DEFINE goal == GoalOf(c)
<1>1. c.id \in DOMAIN verdicts
  BY DEF Inv, BatchInv, Ids
<1>2. Judged(c)
  BY <1>1 DEF Judged
<1>3. \A flag \in FlagsOf(c) : Twice(c, v)
  <2>1. \A flag \in FlagsOf(c) : Twice(c, verdicts[c.id])
    BY <1>2 DEF FlagsOf, Inv, SupportInv
  <2>2. Twice(c, verdicts[c.id]) => Twice(c, v)
    BY DEF Twice, Rests
  <2> QED BY <2>1, <2>2
<1>4. Compared(c) /\ Refuted(c)
  BY DEF Inv, ClearedInv
<1>5. PolicyHolds(goal, c, v, task.wrapper, FlagsOf(c)) /\ v.refs \subseteq c.refs
  BY DEF Passes, WithinClaim
<1>6. CASE goal.policy = "distinct_policy_paths" /\ Cardinality(Paths(c.refs)) >= 2
  BY <1>2, <1>4, <1>6 DEF Compared
<1>7. CASE goal.policy = "impact_categories" /\ "part" \notin goal.traits
  <2>1. "inventory" \in FlagsOf(c)
    BY <1>5, <1>7 DEF PolicyHolds, PartIsObserved
  <2> QED BY <1>3, <2>1
<1>8. CASE goal.policy = "support_or_refute" /\ v.resolution = "affirmed" /\ "collect" \in goal.traits
  <2>1. "affirmation" \in FlagsOf(c)
    BY <1>5, <1>8 DEF PolicyHolds
  <2> QED BY <1>3, <2>1
<1>9. CASE goal.policy = "support_or_refute" /\ v.resolution = "refuted" /\ Direct(v.refs) = {}
  <2>1. "absence" \in FlagsOf(c)
    BY <1>5, <1>9 DEF PolicyHolds
  <2> QED BY <1>3, <2>1
<1>10. CASE /\ goal.policy = "support_or_refute" /\ "collect" \in goal.traits
            /\ v.resolution = "refuted" /\ Direct(v.refs) # {}
  <2>1. Direct(v.refs) \subseteq Direct(c.refs)
    BY <1>5 DEF Direct, Sources, Kind
  <2>2. DirectRefutationContext(goal, c, v)
    BY <1>10, <2>1 DEF DirectRefutationContext
  <2>3. v = verdicts[c.id]
    BY <1>10
  <2> QED BY <1>2, <1>4, <2>2, <2>3 DEF Refuted
<1>11. goal.policy = "support_or_refute" => v.resolution \in {"affirmed", "refuted"}
  BY <1>5 DEF PolicyHolds
<1> QED BY <1>6, <1>7, <1>8, <1>9, <1>10, <1>11 DEF NeedsTwo

LEMMA GateInv == Inv /\ Gate => Inv'
<1> SUFFICES ASSUME Inv, Gate PROVE Inv'
  OBVIOUS
<1>a. PICK backed : backed = RiskBacked(Goals, claims, verdicts)
  OBVIOUS
<1>1. PICK certified : certified = CertifiedSearches(Goals, claims, backed, task.wrapper)
  OBVIOUS
<1>2. PICK gated : gated = [id \in DOMAIN verdicts |->
                     Gated(GoalOf(With(claims, id)), With(claims, id), backed[id], task.wrapper,
                           FlagsOf(With(claims, id)), certified)]
  OBVIOUS
<1>3. /\ stage = "gate" /\ stage' = "reduced" /\ verdicts' = gated
      /\ claims' = {Worded(GoalOf(c), c, gated[c.id]) : c \in claims}
      /\ UNCHANGED <<task, phase, kept, used, prior, retry, judgments>>
  BY <1>a, <1>1, <1>2 DEF Gate
<1>4. \A c \in claims : c.id \in DOMAIN verdicts /\ With(claims, c.id) = c
  BY <1>3 DEF Inv, BatchInv, IdsInv, OneClaimPerId, Ids, With
<1>5. \A c \in claims :
        Supports(gated[c.id]) =>
          /\ Supports(verdicts[c.id]) /\ gated[c.id].resolution = verdicts[c.id].resolution
          /\ gated[c.id].refs \subseteq verdicts[c.id].refs
          /\ gated[c.id] = verdicts[c.id] \/ GoalOf(c).policy = "impact_categories"
          /\ Passes(GoalOf(c), c, gated[c.id], task.wrapper, FlagsOf(c), certified)
  <2> SUFFICES ASSUME NEW c \in claims, Supports(gated[c.id])
               PROVE  /\ Supports(verdicts[c.id])
                      /\ gated[c.id].resolution = verdicts[c.id].resolution
                      /\ gated[c.id].refs \subseteq verdicts[c.id].refs
                      /\ gated[c.id] = verdicts[c.id] \/ GoalOf(c).policy = "impact_categories"
                      /\ Passes(GoalOf(c), c, gated[c.id], task.wrapper, FlagsOf(c), certified)
    OBVIOUS
  <2>1. gated[c.id] = Gated(GoalOf(c), c, backed[c.id], task.wrapper, FlagsOf(c), certified)
    BY <1>2, <1>4
  <2>2. /\ gated[c.id] = backed[c.id] /\ Supports(backed[c.id])
        /\ Passes(GoalOf(c), c, backed[c.id], task.wrapper, FlagsOf(c), certified)
    BY <2>1, GatedStands
  <2> QED BY <1>a, <1>3, <2>2, BackedForms
<1>6. ASSUME NEW d \in claims'
      PROVE  \E c \in claims :
               /\ d.id = c.id /\ d.goal = c.goal /\ d.refs = c.refs /\ d.measure = c.measure
               /\ d.text \in {c.text, CountText}
               /\ GoalOf(c).policy # "deterministic_count" => d = c
               /\ d = Worded(GoalOf(c), c, gated[c.id])
  BY <1>3, <1>6, WordedForms
<1>7. Ids(claims') = Ids(claims) /\ GoalsOf(claims') = GoalsOf(claims)
  BY <1>3, WordedForms DEF Ids, GoalsOf
<1>8. IdsInv'
  <2>1. OneClaimPerId(claims')
    <3> SUFFICES ASSUME NEW d \in claims', NEW e \in claims', d.id = e.id PROVE d = e
      BY DEF OneClaimPerId
    <3> QED BY <1>6 DEF Inv, IdsInv, OneClaimPerId
  <2>2. verdicts' = [id \in DOMAIN verdicts' |-> verdicts'[id]]
    BY <1>2, <1>3
  <2> QED BY <1>3, <1>7, <2>1, <2>2 DEF Inv, IdsInv, Goals
<1>9. PriorInv'
  <2>1. ASSUME phase = "post-repair", NEW d \in claims', NEW p \in prior,
               d.id = p.id, d.goal = p.goal
        PROVE  Carries(d, p)
    <3>1. PICK c \in claims :
            /\ d.id = c.id /\ d.goal = c.goal /\ d.refs = c.refs /\ d.measure = c.measure
            /\ d.text \in {c.text, CountText}
            /\ GoalOf(c).policy # "deterministic_count" => d = c
      BY <1>6
    <3>2. Carries(c, p)
      BY <2>1, <3>1 DEF Inv, PriorInv
    <3>3. CASE d = c
      BY <3>2, <3>3
    <3>4. CASE GoalOf(c).policy = "deterministic_count" /\ d.text = CountText
      <4>1. GoalOf(p) = GoalOf(c)
        BY <2>1, <3>1 DEF GoalOf
      <4>2. "risk" \notin GoalOf(p).traits
        <5>1. task \in Tasks /\ p.goal \in {g.id : g \in Goals}
          BY DEF Inv, IdsInv, GoalsOf
        <5>2. GoalOf(p) \in Goals
          BY <5>1 DEF GoalOf, With
        <5> QED BY <3>4, <4>1, <5>1, <5>2, TasksAssumption DEF Goals
      <4>3. SameText(GoalOf(p), d, p)
        BY <3>4, <4>1 DEF SameText
      <4> QED BY <3>1, <3>2, <4>2, <4>3 DEF Carries
    <3>5. CASE d.text = c.text
      BY <3>1, <3>2, <3>5 DEF Carries, SameText
    <3> QED BY <3>1, <3>3, <3>4, <3>5
  <2>2. \A d \in claims', p \in prior :
          phase = "post-repair" /\ d.id = p.id /\ d.goal = p.goal => Carries(d, p)'
    BY <1>3, <2>1, CarriesFrame
  <2> QED BY <1>3, <2>2 DEF Inv, PriorInv
<1>10. JudgedAsReturned'
  <2> SUFFICES ASSUME NEW d \in claims', Supports(gated[d.id])
               PROVE  \E j \in judgments :
                        /\ d.id = j.claim.id /\ d.goal = j.claim.goal
                        /\ d.refs = j.claim.refs /\ d.measure = j.claim.measure
                        /\ d.text \in {j.claim.text, CountText}
                        /\ j.verdict.resolution = gated[d.id].resolution
                        /\ gated[d.id].refs \subseteq j.verdict.refs
    BY <1>3 DEF JudgedAsReturned
  <2>1. PICK c \in claims :
          /\ d.id = c.id /\ d.goal = c.goal /\ d.refs = c.refs /\ d.measure = c.measure
          /\ d.text \in {c.text, CountText}
    BY <1>6
  <2>2. /\ Judged(c) /\ gated[d.id].resolution = verdicts[c.id].resolution
        /\ gated[d.id].refs \subseteq verdicts[c.id].refs
    BY <1>4, <1>5, <2>1 DEF Judged
  <2>3. Once(c, verdicts[c.id])
    BY <1>3, <2>2 DEF Inv, SupportInv
  <2>4. PICK j \in judgments : Rests(j, c, verdicts[c.id])
    BY <2>3 DEF Once
  <2> QED BY <2>1, <2>2, <2>4 DEF Rests
<1>11. SupportIsCorroborated'
  <2>1. \A c, v : NeedsTwo(c, v)' <=> NeedsTwo(c, v)
    BY <1>3 DEF NeedsTwo, GoalOf, Goals
  <2>2. ASSUME NEW d \in claims', Supports(gated[d.id]), NeedsTwo(d, gated[d.id])
        PROVE  Twice(d, gated[d.id])
    <3>1. PICK c \in claims :
            /\ d.id = c.id /\ d.goal = c.goal
            /\ GoalOf(c).policy # "deterministic_count" => d = c
      BY <1>6
    <3>2. GoalOf(d) = GoalOf(c)
      BY <3>1 DEF GoalOf
    <3>3. d = c
      BY <2>2, <3>1, <3>2 DEF NeedsTwo
    <3> QED BY <1>3, <1>5, <2>2, <3>3, PassedTwice
  <2>3. First \intersect Second = {}
    BY DEF First, Second
  <2>4. \A d, v : Twice(d, v) =>
          \E j, k \in judgments :
            /\ j.by # k.by
            /\ \A judgment \in {j, k} :
                 /\ judgment.claim = d
                 /\ judgment.verdict.resolution = v.resolution
                 /\ v.refs \subseteq judgment.verdict.refs
    BY <2>3 DEF Twice, Rests
  <2> QED BY <1>3, <2>1, <2>2, <2>4 DEF SupportIsCorroborated
<1>12. PriorClaimsAreCarried'
  BY <1>9 DEF PriorInv, PriorClaimsAreCarried
<1>13. stage' \notin Reviewing /\ stage' \notin Focusing
  BY <1>3 DEF Reviewing, Focusing, RequestPolicy
<1>14. SynthesisInv' /\ RefusedInv' /\ BatchInv' /\ SupportInv' /\ ClearedInv'
  BY <1>3, <1>13 DEF SynthesisInv, RefusedInv, BatchInv, SupportInv, ClearedInv, Inv
<1>15. FocusInv' /\ RecheckInv'
  BY <1>3, <1>13, RecheckFrame DEF FocusInv, Focusing, Inv
<1> QED BY <1>8, <1>9, <1>10, <1>11, <1>12, <1>14, <1>15 DEF Inv, ReducedInv
-----------------------------------------------------------------------------
(* The passes start with nothing judged, and the second with every claim of *)
(* the first as a prior one.                                                *)
LEMMA InitInv == Init => Inv
<1> SUFFICES ASSUME Init PROVE Inv
  OBVIOUS
<1>1. /\ task \in Tasks /\ phase = "initial" /\ stage = "synthesis" /\ batch = 1 /\ kept = None
      /\ claims = {} /\ used = {} /\ prior = {} /\ verdicts = [id \in {} |-> None]
      /\ corroborated = {} /\ retry.affirmation = None
  BY DEF Init, NothingRetried
<1>2. IdsInv
  BY <1>1 DEF IdsInv, OneClaimPerId, Ids, GoalsOf
<1>3. SynthesisInv
  <2>1. \A s \in SynthesisRequests : 1 <= s
    BY <1>2, RequestsAreNaturals
  <2> QED BY <1>1, <2>1 DEF SynthesisInv
<1>4. stage \notin Reviewing /\ stage \notin Focusing
  BY <1>1 DEF Reviewing, Focusing, RequestPolicy
<1>5. PriorInv /\ RefusedInv /\ BatchInv /\ SupportInv /\ ClearedInv
  BY <1>1, <1>4 DEF PriorInv, RefusedInv, BatchInv, SupportInv, ClearedInv
<1>6. FocusInv /\ RecheckInv
  BY <1>1, <1>4 DEF FocusInv, Focusing, RecheckInv
<1>7. ReducedInv
  BY <1>1 DEF ReducedInv, JudgedAsReturned, SupportIsCorroborated, PriorClaimsAreCarried
<1> QED BY <1>2, <1>3, <1>5, <1>6, <1>7 DEF Inv

LEMMA RepairInv == Inv /\ Repair => Inv'
<1> SUFFICES ASSUME Inv, Repair PROVE Inv'
  OBVIOUS
<1>1. /\ stage = "reduced" /\ phase' = "post-repair" /\ prior' = claims /\ claims' = {}
      /\ used' = {} /\ verdicts' = [id \in {} |-> None] /\ corroborated' = {}
      /\ judgments' = {j \in judgments : j.by = "known_test"}
      /\ stage' = "synthesis" /\ batch' = 1 /\ UNCHANGED <<task, kept, retry>>
  BY DEF Repair, RetryState
<1>2. IdsInv'
  BY <1>1 DEF Inv, IdsInv, OneClaimPerId, Ids, GoalsOf, Goals
<1>3. SynthesisInv'
  <2>1. SynthesisRequests' \subseteq Positions'
    BY DEF SynthesisRequests, Starts, Active
  <2>2. Positions' = Positions /\ Positions \subseteq Nat \ {0}
    BY <1>1, PositionsAreNaturals DEF Positions, Inv
  <2>3. \A s \in SynthesisRequests' : batch' <= s
    BY <1>1, <2>1, <2>2
  <2> QED BY <1>1, <2>3 DEF SynthesisInv
<1>4. PriorInv'
  BY <1>1 DEF Inv, IdsInv, PriorInv
<1>5. stage' \notin Reviewing /\ stage' \notin Focusing
  BY <1>1 DEF Reviewing, Focusing, RequestPolicy
<1>6. RefusedInv' /\ BatchInv' /\ SupportInv' /\ ClearedInv'
  <2>1. kept' = None
    BY <1>1 DEF Inv, RefusedInv
  <2> QED BY <1>1, <1>5, <2>1 DEF RefusedInv, BatchInv, SupportInv, ClearedInv
<1>7. FocusInv' /\ RecheckInv'
  <2>1. FocusInv'
    BY <1>1, <1>5 DEF FocusInv, Focusing
  <2>2. RecheckInv'
    BY <1>1 DEF Inv, RecheckInv
  <2> QED BY <2>1, <2>2
<1>8. ReducedInv'
  BY <1>1 DEF ReducedInv, JudgedAsReturned, SupportIsCorroborated, PriorClaimsAreCarried
<1> QED BY <1>2, <1>3, <1>4, <1>6, <1>7, <1>8 DEF Inv

\* Claims, verdicts and judgments stay in step through both passes.
THEOREM PassInvariance == Spec => []Inv
<1>1. Init => Inv
  BY InitInv
<1>2. ASSUME Inv, RetryInv, [Next]_vars PROVE Inv'
  <2>1. CASE UNCHANGED vars
    <3>1. RefusedInv'
      BY <1>2, <2>1, SynthesisFrame DEF vars, pass, Inv, RefusedInv
    <3> QED BY <1>2, <2>1, <3>1, SamePassInv DEF vars, pass
  <2>2. CASE SynthesisReply \/ NothingToAsk \/ \E toolCalls \in BOOLEAN : SynthesisMalformed(toolCalls)
    BY <1>2, <2>2, SynthesisReplyInv, NothingToAskInv, SynthesisMalformedInv
  <2>3. CASE VerifyReply \/ Skip \/ AskFocused
    BY <1>2, <2>3, VerifyReplyInv, SkipInv, AskFocusedInv
  <2>4. CASE Malformed \/ RequestFails \/ Abort \/ Finish
    BY <1>2, <2>4, FailuresInv
  <2>5. CASE InventoryReply \/ AffirmationReply \/ DirectRefutationReply \/ AbsenceReply
    BY <1>2, <2>5, PlainInv
  <2>6. CASE KnownTest \/ KnownTestReply \/ OptionalFails
    BY <1>2, <2>6, KnownTestInv, KnownTestReplyInv, OptionalFailsInv
  <2>7. CASE Trace \/ TraceClaimReply \/ TraceVerdictReply \/ RepairClaimReply
    BY <1>2, <2>7, TraceInv, DraftedInv, TraceVerdictInv
  <2>8. CASE Comparison \/ ComparisonReply
    BY <1>2, <2>8, ComparisonInv, ComparisonReplyInv
  <2>9. CASE RepairVerdictReply \/ RepairCheckReply
    BY <1>2, <2>9, RepairVerdictInv, RepairCheckInv
  <2>10. CASE Gate \/ Repair
    BY <1>2, <2>10, GateInv, RepairInv
  <2> QED BY <1>2, <2>1, <2>2, <2>3, <2>4, <2>5, <2>6, <2>7, <2>8, <2>9, <2>10 DEF Next
<1> QED BY <1>1, <1>2, RetryInvariance, PTL DEF Spec

\* A supported claim leaves the pass on the evidence, and but for the wording
\* of a certified count with the text, that one verifier supported
\* (_runSemanticVerificationPass, runtime.mjs:9433).
THEOREM SupportIsAsJudged == Spec => []JudgedAsReturned
<1>1. Inv => JudgedAsReturned
  BY DEF Inv, ReducedInv
<1> QED BY <1>1, PassInvariance, PTL

\* Comparisons, inventories, refutations by absence and every verdict of
\* collect_evidence are supported by two requests of different kinds
\* (the focused verifications of _runSemanticVerificationPass and the policy
\* checks of coverage.mjs).
THEOREM TwoVerifiersSupport == Spec => []SupportIsCorroborated
<1>1. Inv => SupportIsCorroborated
  BY DEF Inv, ReducedInv
<1> QED BY <1>1, PassInvariance, PTL

\* The second pass returns a prior claim with its measurement, its words and its
\* evidence, fresh evidence and what the runtime itself writes and adds; only of
\* a test goal evidence may go, and only a risk boundary is another claim (claim
\* synthesis of _runSemanticVerificationPass).
THEOREM PriorClaimsAreCarriedOn == Spec => []PriorClaimsAreCarried
<1>1. Inv => PriorClaimsAreCarried
  BY DEF Inv, ReducedInv
<1> QED BY <1>1, PassInvariance, PTL
-----------------------------------------------------------------------------
(* The end.  A pass goes through its batches in order, twice, and through    *)
(* the focused steps of a batch in order; a step asks a few requests, each   *)
(* of them twice at most.                                                   *)

\* Synthesis, the batches under verification, the gate and the end of a pass.
Part(st) ==
  CASE st = "synthesis" -> 4
    [] st \in Reviewing -> 3
    [] st = "gate" -> 2
    [] st = "reduced" -> 1
    [] OTHER -> 0

\* What a step may still ask about its claim: a comparison is restated, the
\* restated claim judged and compared.
Within(st) ==
  CASE st = "focus" -> 4
    [] st = "comparison" -> 3
    [] st \in {"repair_claim", "trace_claim"} -> 2
    [] st \in {"repair_verdict", "trace_verdict"} -> 1
    [] OTHER -> 0

PassRank ==
  <<IF phase = "initial" THEN 1 ELSE 0, Part(stage), Len(task.goals) + 1 - batch,
    IF stage = "verify" THEN 1 ELSE 0, LastPosition + 1 - position, Within(stage), 1 - attempt>>

\* The lexicographic order of such ranks, well founded as they are of one length.
Smaller(x, y) == \E i \in DOMAIN x :
  0 <= x[i] /\ x[i] < y[i] /\ \A j \in 1..(i - 1) : x[j] = y[j]

\* Every step of a pass comes closer to its end: no refused reply, merge, restatement
\* or repair leads back to a batch or a focused step that was left.
EveryStepComesCloser == [][Smaller(PassRank', PassRank)]_vars

LEMMA SmallerInOrder ==
  ASSUME NEW a1, NEW a2, NEW a3, NEW a4, NEW a5, NEW a6, NEW a7,
         NEW b1, NEW b2, NEW b3, NEW b4, NEW b5, NEW b6, NEW b7,
         \/ 0 <= a1 /\ a1 < b1
         \/ a1 = b1 /\ 0 <= a2 /\ a2 < b2
         \/ a1 = b1 /\ a2 = b2 /\ 0 <= a3 /\ a3 < b3
         \/ a1 = b1 /\ a2 = b2 /\ a3 = b3 /\ 0 <= a4 /\ a4 < b4
         \/ a1 = b1 /\ a2 = b2 /\ a3 = b3 /\ a4 = b4 /\ 0 <= a5 /\ a5 < b5
         \/ a1 = b1 /\ a2 = b2 /\ a3 = b3 /\ a4 = b4 /\ a5 = b5 /\ 0 <= a6 /\ a6 < b6
         \/ /\ a1 = b1 /\ a2 = b2 /\ a3 = b3 /\ a4 = b4 /\ a5 = b5 /\ a6 = b6
            /\ 0 <= a7 /\ a7 < b7
  PROVE  Smaller(<<a1, a2, a3, a4, a5, a6, a7>>, <<b1, b2, b3, b4, b5, b6, b7>>)
<1> DEFINE x == <<a1, a2, a3, a4, a5, a6, a7>>
           y == <<b1, b2, b3, b4, b5, b6, b7>>
           Less(i) == 0 <= x[i] /\ x[i] < y[i] /\ \A j \in 1..(i - 1) : x[j] = y[j]
<1>1. /\ x[1] = a1 /\ x[2] = a2 /\ x[3] = a3 /\ x[4] = a4 /\ x[5] = a5 /\ x[6] = a6 /\ x[7] = a7
      /\ y[1] = b1 /\ y[2] = b2 /\ y[3] = b3 /\ y[4] = b4 /\ y[5] = b5 /\ y[6] = b6 /\ y[7] = b7
  OBVIOUS
<1>2. /\ 1..(1 - 1) = {} /\ 1..(2 - 1) = {1} /\ 1..(3 - 1) = {1, 2} /\ 1..(4 - 1) = {1, 2, 3}
      /\ 1..(5 - 1) = {1, 2, 3, 4} /\ 1..(6 - 1) = {1, 2, 3, 4, 5}
      /\ 1..(7 - 1) = {1, 2, 3, 4, 5, 6}
  OBVIOUS
<1>3. DOMAIN x = 1..7
  OBVIOUS
<1> HIDE DEF x, y
<1>4. Less(1) \/ Less(2) \/ Less(3) \/ Less(4) \/ Less(5) \/ Less(6) \/ Less(7)
  BY <1>1, <1>2
<1>5. \E i \in DOMAIN x : Less(i)
  BY <1>3, <1>4
<1> QED BY <1>5 DEF Smaller, x, y

\* The ways a pass comes closer to its end.
NextPart == UNCHANGED phase /\ Part(stage') \in Nat /\ Part(stage') < Part(stage)
SamePart == UNCHANGED <<task, phase>> /\ Part(stage') = Part(stage)
NextOfBatches ==
  /\ SamePart
  /\ Len(task.goals) \in Nat /\ batch \in Nat /\ batch' \in Nat
  /\ batch < batch' /\ batch' <= Len(task.goals) + 1
SameBatch == SamePart /\ batch' = batch
Judges == SameBatch /\ stage = "verify" /\ stage' # "verify"
SameClaims == SameBatch /\ Len(batchClaims') = Size /\ (stage' = "verify" <=> stage = "verify")
NextOfSteps ==
  /\ SameClaims
  /\ LastPosition \in Nat /\ position \in Nat /\ position' \in Nat
  /\ position < position' /\ position' <= LastPosition + 1
NextOfRequests ==
  /\ SameClaims /\ UNCHANGED position
  /\ Within(stage') \in Nat /\ Within(stage') < Within(stage)
AsksAgain == SameClaims /\ UNCHANGED <<position, stage>> /\ attempt = 0 /\ attempt' = 1

ComesCloser ==
  \/ phase = "initial" /\ phase' = "post-repair"
  \/ NextPart \/ NextOfBatches \/ Judges \/ NextOfSteps \/ NextOfRequests \/ AsksAgain

\* A position that moves on leaves less to go.
LEMMA CountsDown ==
  ASSUME NEW n \in Nat, NEW here \in Nat, NEW there \in Nat, here < there, there <= n + 1
  PROVE  0 <= n + 1 - there /\ n + 1 - there < n + 1 - here
OBVIOUS

LEMMA CloserIsSmaller == ComesCloser => Smaller(PassRank', PassRank)
<1> SUFFICES ASSUME ComesCloser PROVE Smaller(PassRank', PassRank)
  OBVIOUS
<1>1. PICK f, p, b, v, l, w, a, f1, p1, b1, v1, l1, w1, a1 :
        /\ f = (IF phase = "initial" THEN 1 ELSE 0) /\ f1 = (IF phase' = "initial" THEN 1 ELSE 0)
        /\ p = Part(stage) /\ p1 = Part(stage')
        /\ b = Len(task.goals) + 1 - batch /\ b1 = Len(task'.goals) + 1 - batch'
        /\ v = (IF stage = "verify" THEN 1 ELSE 0) /\ v1 = (IF stage' = "verify" THEN 1 ELSE 0)
        /\ l = LastPosition + 1 - position /\ l1 = LastPosition' + 1 - position'
        /\ w = Within(stage) /\ w1 = Within(stage')
        /\ a = 1 - attempt /\ a1 = 1 - attempt'
  OBVIOUS
<1>2. PassRank = <<f, p, b, v, l, w, a>> /\ PassRank' = <<f1, p1, b1, v1, l1, w1, a1>>
  BY <1>1 DEF PassRank
<1>3. UNCHANGED phase => f1 = f
  BY <1>1
<1>4. SamePart => f1 = f /\ p1 = p
  BY <1>1 DEF SamePart
<1>5. SameBatch => f1 = f /\ p1 = p /\ b1 = b
  BY <1>1, <1>4 DEF SameBatch, SamePart
<1>6. SameClaims => f1 = f /\ p1 = p /\ b1 = b /\ v1 = v /\ LastPosition' = LastPosition
  BY <1>1, <1>5 DEF SameClaims, LastPosition, Size
<1>7. CASE phase = "initial" /\ phase' = "post-repair"
  BY <1>1, <1>2, <1>7, SmallerInOrder
<1>8. CASE NextPart
  BY <1>1, <1>2, <1>3, <1>8, SmallerInOrder DEF NextPart
<1>9. CASE NextOfBatches
  <2>1. PICK n \in Nat, here \in Nat, there \in Nat :
          n = Len(task.goals) /\ here = batch /\ there = batch' /\ here < there /\ there <= n + 1
    BY <1>9 DEF NextOfBatches
  <2>2. b = n + 1 - here /\ b1 = n + 1 - there
    BY <1>1, <1>9, <2>1 DEF NextOfBatches, SamePart
  <2>3. 0 <= b1 /\ b1 < b
    BY <2>1, <2>2
  <2>4. f1 = f /\ p1 = p
    BY <1>4, <1>9 DEF NextOfBatches
  <2> QED BY <1>2, <2>3, <2>4, SmallerInOrder
<1>10. CASE Judges
  BY <1>1, <1>2, <1>5, <1>10, SmallerInOrder DEF Judges
<1>11. CASE NextOfSteps
  <2>1. PICK n \in Nat, here \in Nat, there \in Nat :
          n = LastPosition /\ here = position /\ there = position' /\ here < there /\ there <= n + 1
    BY <1>11 DEF NextOfSteps
  <2>2. PICK m : m = LastPosition'
    OBVIOUS
  <2>3. m = n
    BY <1>6, <1>11, <2>1, <2>2 DEF NextOfSteps
  <2>4. l = n + 1 - here /\ l1 = m + 1 - there
    BY <1>1, <2>1, <2>2, Zenon
  <2>5. 0 <= n + 1 - there /\ n + 1 - there < n + 1 - here
    BY <2>1, CountsDown, Zenon
  <2>6. f1 = f /\ p1 = p /\ b1 = b /\ v1 = v
    BY <1>6, <1>11 DEF NextOfSteps
  <2>7. 0 <= l1 /\ l1 < l
    BY <2>3, <2>4, <2>5, Zenon
  <2> QED BY <1>2, <2>6, <2>7, SmallerInOrder
<1>12. CASE NextOfRequests
  <2>1. l1 = l /\ 0 <= w1 /\ w1 < w
    BY <1>1, <1>6, <1>12 DEF NextOfRequests
  <2> QED BY <1>2, <1>6, <1>12, <2>1, SmallerInOrder DEF NextOfRequests
<1>13. CASE AsksAgain
  <2>1. l1 = l /\ w1 = w /\ 0 <= a1 /\ a1 < a
    BY <1>1, <1>6, <1>13 DEF AsksAgain
  <2> QED BY <1>2, <1>6, <1>13, <2>1, SmallerInOrder DEF AsksAgain
<1> QED BY <1>7, <1>8, <1>9, <1>10, <1>11, <1>12, <1>13 DEF ComesCloser

-----------------------------------------------------------------------------
(* Each kind of step is one of these ways.                                  *)
LEMMA PartsInOrder ==
  /\ Part("synthesis") = 4 /\ \A st \in Reviewing : Part(st) = 3
  /\ Part("gate") = 2 /\ Part("reduced") = 1 /\ Part("failed") = 0 /\ Part("done") = 0
  /\ Focusing \subseteq Reviewing /\ "verify" \in Reviewing \ Focusing
  /\ Requests \ {"synthesis", "verify"} \subseteq Focusing \ {"focus"}
  /\ Requests \subseteq Reviewing \union {"synthesis"}
BY DEF Part, Reviewing, Focusing, RequestPolicy, Requests

LEMMA StopComesCloser ==
  ASSUME stage \in {"synthesis", "gate", "reduced"} \union Reviewing, Stop("failed")
  PROVE  ComesCloser
<1>1. Part(stage') = 0 /\ Part(stage) \in 1..4
  BY PartsInOrder DEF Stop
<1>2. NextPart
  BY <1>1 DEF NextPart, Stop
<1> QED BY <1>2 DEF ComesCloser

LEMMA AskAgainComesCloser ==
  ASSUME NEW keep, attempt = 0, AskAgain(keep)
  PROVE  ComesCloser
<1>1. AsksAgain
  BY DEF AskAgain, AsksAgain, SameClaims, SameBatch, SamePart, pass, Size
<1> QED BY <1>1 DEF ComesCloser

\* The claims of a batch are a sequence, whichever of them is restated.
LEMMA BatchIsSequence ==
  ASSUME Inv, stage \in Focusing
  PROVE  /\ Size \in Nat /\ LastPosition \in Nat
         /\ \A c : Install(c) => Len(batchClaims') = Size
<1>1. batchClaims \in Seq(claims)
  BY PartsInOrder DEF Inv, BatchInv
<1>2. Size \in Nat /\ LastPosition \in Nat
  BY <1>1 DEF LastPosition, Steps, Size
<1>3. ASSUME NEW c, Install(c) PROVE Len(batchClaims') = Size
  <2>1. PICK n \in Nat : n = Size
    BY <1>2
  <2>2. batchClaims' = [i \in 1..n |-> IF batchClaims[i].id = c.id THEN c ELSE batchClaims[i]]
    BY <1>3, <2>1 DEF Install
  <2> QED BY <2>1, <2>2
<1> QED BY <1>2, <1>3

LEMMA ConcludeComesCloser ==
  ASSUME Inv, stage \in Focusing, position \in Nat \ {0}, position <= LastPosition,
         NEW v, Conclude(v), UNCHANGED batchClaims \/ \E c : Install(c)
  PROVE  ComesCloser
<1>1. /\ stage' = "focus" /\ position' = position + 1 /\ UNCHANGED <<task, phase, batch>>
  BY DEF Conclude
<1>2. LastPosition \in Nat /\ Len(batchClaims') = Size
  BY BatchIsSequence DEF Size
<1>3. "focus" \in Focusing /\ stage # "verify"
  BY PartsInOrder DEF Focusing
<1>4. SameClaims
  BY <1>1, <1>2, <1>3, PartsInOrder DEF SameClaims, SameBatch, SamePart
<1>5. PICK here \in Nat, n \in Nat : here = position /\ n = LastPosition /\ here <= n
  BY <1>2
<1>6. position' = here + 1 /\ here + 1 <= n + 1 /\ here + 1 \in Nat
  BY <1>1, <1>5
<1>7. NextOfSteps
  BY <1>4, <1>5, <1>6 DEF NextOfSteps
<1> QED BY <1>7 DEF ComesCloser

LEMMA RequestComesCloser ==
  ASSUME stage \in Focusing, stage' \in Focusing, UNCHANGED <<task, phase, batch, batchClaims, position>>,
         Within(stage') \in Nat, Within(stage') < Within(stage)
  PROVE  ComesCloser
<1>1. NextOfRequests
  BY PartsInOrder DEF NextOfRequests, SameClaims, SameBatch, SamePart, Size
<1> QED BY <1>1 DEF ComesCloser

LEMMA WithinValues ==
  /\ Within("focus") = 4 /\ Within("comparison") = 3
  /\ Within("repair_claim") = 2 /\ Within("trace_claim") = 2
  /\ Within("repair_verdict") = 1 /\ Within("trace_verdict") = 1
  /\ \A st \in {"repair_check", "known_test", "inventory", "affirmation", "direct_refutation",
                "absence"} : Within(st) = 0
  /\ {"focus", "comparison", "repair_claim", "trace_claim", "repair_verdict", "trace_verdict",
      "repair_check", "known_test", "inventory", "affirmation", "direct_refutation",
      "absence"} \subseteq Focusing
BY DEF Within, Focusing, RequestPolicy

LEMMA SendComesCloser ==
  ASSUME stage = "focus", NEW request \in {"known_test", "trace_claim", "comparison", "inventory",
                                           "affirmation", "direct_refutation", "absence"},
         Send(request)
  PROVE  ComesCloser
<1>1. stage' = request /\ UNCHANGED <<task, phase, batch, batchClaims, position>>
  BY DEF Send, pass
<1> QED BY <1>1, WithinValues, RequestComesCloser

LEMMA SettleComesCloser ==
  ASSUME Inv, stage \in {"focus", "comparison"}, position \in Nat \ {0}, position <= LastPosition,
         NEW v, Settle(v)
  PROVE  ComesCloser
<1>1. CASE Conclude(v) /\ UNCHANGED batchClaims
  BY <1>1, WithinValues, ConcludeComesCloser
<1>2. CASE stage' = "repair_claim" /\ UNCHANGED <<task, phase, batch, batchClaims, position>>
  BY <1>2, WithinValues, RequestComesCloser
<1> QED BY <1>1, <1>2 DEF Settle, pass

\* Batches start at goals.
LEMMA BatchesAreGoals ==
  ASSUME IdsInv
  PROVE  /\ Len(task.goals) \in Nat
         /\ SynthesisRequests \subseteq 1..Len(task.goals)
         /\ VerificationRequests(claims) \subseteq 1..Len(task.goals)
<1>1. task.goals \in Seq(ToSet(task.goals))
  BY TasksAssumption DEF IdsInv
<1>2. DOMAIN task.goals = 1..Len(task.goals) /\ Len(task.goals) \in Nat
  BY <1>1
<1>3. SynthesisRequests \subseteq Positions /\ VerificationRequests(claims) \subseteq Positions
  BY DEF SynthesisRequests, VerificationRequests, Verifiable, Active, Starts
<1> QED BY <1>2, <1>3, Zenon DEF Positions

LEMMA BatchComesCloser ==
  ASSUME UNCHANGED <<task, phase>>, Part(stage') = Part(stage),
         NEW n \in Nat, n = Len(task.goals), NEW here \in Nat, here = batch,
         NEW there \in Nat, there = batch', here < there, there <= n + 1
  PROVE  ComesCloser
<1>1. NextOfBatches
  BY DEF NextOfBatches, SamePart
<1> QED BY <1>1 DEF ComesCloser

LEMMA RegisterComesCloser ==
  ASSUME Inv, stage = "synthesis", SynthesisRequests # {}, NEW accepted, Register(accepted)
  PROVE  ComesCloser
<1>1. PICK u : u = UnderWay
  OBVIOUS
<1>2. PICK n \in Nat : n = Len(task.goals)
  BY BatchesAreGoals DEF Inv
<1>3. PICK here \in Nat : here = batch
  BY DEF Inv, SynthesisInv
<1>4. u \in Nat /\ here <= u
  <2> DEFINE left == {s \in SynthesisRequests : here <= s}
  <2>1. left \in SUBSET Nat /\ left # {}
    BY <1>3, RequestsAreNaturals DEF Inv, SynthesisInv
  <2> HIDE DEF left
  <2>2. Min(left) \in left
    BY <2>1, MinOfNaturals
  <2>3. u = Min(left)
    BY <1>1, <1>3 DEF UnderWay, left
  <2> QED BY <2>1, <2>2, <2>3 DEF left
<1>5. UNCHANGED <<task, phase>>
  BY DEF Register
<1>6. CASE (\E s \in SynthesisRequests : u < s) /\ batch' = u + 1 /\ stage' = stage
  <2>1. PICK s \in 1..n : u < s
    BY <1>2, <1>6, BatchesAreGoals DEF Inv
  <2>2. here < u + 1 /\ u + 1 <= n + 1 /\ u + 1 \in Nat
    BY <1>4, <2>1
  <2> QED BY <1>2, <1>3, <1>5, <1>6, <2>2, BatchComesCloser
<1>7. CASE stage' \in {"gate", "verify"}
  <2>1. NextPart
    BY <1>5, <1>7, PartsInOrder DEF NextPart
  <2> QED BY <2>1 DEF ComesCloser
<1> QED BY <1>1, <1>6, <1>7 DEF Register, Verify

LEMMA SynthesisComesCloser ==
  ASSUME Inv, SynthesisReply \/ NothingToAsk \/ \E toolCalls \in BOOLEAN : SynthesisMalformed(toolCalls)
  PROVE  ComesCloser
<1>1. stage = "synthesis"
  BY DEF SynthesisReply, NothingToAsk, SynthesisMalformed
<1>2. CASE Stop("gate")
  <2>1. NextPart
    BY <1>1, <1>2, PartsInOrder DEF NextPart, Stop
  <2> QED BY <2>1 DEF ComesCloser
<1>3. CASE Stop("failed")
  BY <1>1, <1>3, StopComesCloser
<1>4. CASE attempt = 0 /\ \E keep : AskAgain(keep)
  BY <1>4, AskAgainComesCloser
<1>5. CASE SynthesisRequests # {} /\ \E accepted : Register(accepted)
  BY <1>1, <1>5, RegisterComesCloser
<1>6. SynthesisReply =>
        \/ Stop("failed")
        \/ attempt = 0 /\ \E keep : AskAgain(keep)
        \/ SynthesisRequests # {} /\ \E accepted : Register(accepted)
  BY DEF SynthesisReply
<1>7. ASSUME NEW toolCalls, SynthesisMalformed(toolCalls)
      PROVE  \/ Stop("failed")
             \/ attempt = 0 /\ \E keep : AskAgain(keep)
             \/ SynthesisRequests # {} /\ \E accepted : Register(accepted)
  BY <1>7 DEF SynthesisMalformed
<1>8. NothingToAsk => Stop("gate")
  BY DEF NothingToAsk
<1> QED BY <1>2, <1>3, <1>4, <1>5, <1>6, <1>7, <1>8

LEMMA VerifyComesCloser ==
  ASSUME Inv, VerifyReply
  PROVE  ComesCloser
<1>1. CASE attempt = 0 /\ AskAgain(None)
  BY <1>1, AskAgainComesCloser
<1>2. ASSUME NEW reply, NEW parts, Accept(reply, parts) PROVE ComesCloser
  <2>1. stage = "verify" /\ stage' = "focus" /\ UNCHANGED <<task, phase, batch>>
    BY <1>2 DEF VerifyReply, Accept
  <2>2. Judges
    BY <2>1, PartsInOrder DEF Judges, SameBatch, SamePart, Focusing
  <2> QED BY <2>2 DEF ComesCloser
<1> QED BY <1>1, <1>2 DEF VerifyReply

LEMMA SkipComesCloser ==
  ASSUME Inv, Skip
  PROVE  ComesCloser
<1>1. PICK next : next = {p \in position..LastPosition :
                            HasContext(StepAt(p), Claim(p), verdicts[Claim(p).id])}
  OBVIOUS
<1>2. PICK later : later = {s \in VerificationRequests(claims) : batch < s}
  OBVIOUS
<1>3. /\ stage = "focus" /\ UNCHANGED <<task, phase>>
      /\ \/ /\ next # {} /\ position \notin next
            /\ position' = Min(next) /\ UNCHANGED <<stage, batch, batchClaims>>
         \/ later = {} /\ stage' = "gate"
         \/ later # {} /\ stage' = "verify" /\ batch' = Min(later)
  BY <1>1, <1>2 DEF Skip, Verify
<1>4. stage \in Focusing /\ position \in Nat \ {0}
  BY <1>3 DEF Focusing, Inv, FocusInv
<1>5. PICK n \in Nat, here \in Nat : n = LastPosition /\ here = position
  BY <1>4, BatchIsSequence
<1>6. CASE next # {} /\ position \notin next /\ position' = Min(next) /\ UNCHANGED <<stage, batch, batchClaims>>
  <2>1. next \in SUBSET (here..n)
    BY <1>1, <1>5
  <2>2. Min(next) \in next
    BY <1>6, <2>1, MinOfNaturals
  <2>3. PICK there \in here..n : there = position' /\ there # here
    BY <1>5, <1>6, <2>1, <2>2
  <2>4. there \in Nat /\ here < there /\ there <= n + 1
    BY <2>3
  <2>5. SameClaims
    BY <1>3, <1>6 DEF SameClaims, SameBatch, SamePart, Size
  <2>6. NextOfSteps
    BY <1>5, <2>3, <2>4, <2>5 DEF NextOfSteps
  <2> QED BY <2>6 DEF ComesCloser
<1>7. CASE stage' = "gate"
  <2>1. NextPart
    BY <1>3, <1>4, <1>7, PartsInOrder DEF NextPart
  <2> QED BY <2>1 DEF ComesCloser
<1>8. CASE later # {} /\ stage' = "verify" /\ batch' = Min(later)
  <2>1. PICK goals \in Nat : goals = Len(task.goals)
    BY BatchesAreGoals DEF Inv
  <2>2. later \in SUBSET (1..goals)
    BY <1>2, <2>1, BatchesAreGoals DEF Inv
  <2>3. Min(later) \in later
    BY <1>8, <2>2, MinOfNaturals
  <2>4. PICK at \in Nat : at = batch
    BY <1>4, PartsInOrder, RequestsAreNaturals DEF Inv, BatchInv
  <2>5. PICK there \in 1..goals : there = batch' /\ at < there
    BY <1>2, <1>8, <2>2, <2>3, <2>4
  <2>6. there \in Nat /\ there <= goals + 1
    BY <2>5
  <2>7. Part(stage') = Part(stage)
    BY <1>4, <1>8, PartsInOrder
  <2> QED BY <1>3, <2>1, <2>4, <2>5, <2>6, <2>7, BatchComesCloser
<1> QED BY <1>3, <1>6, <1>7, <1>8

\* What the invariant says of a focused request.
LEMMA RequestIsPlaced ==
  ASSUME Inv, stage \in Requests \ {"synthesis", "verify"}
  PROVE  stage \in Focusing /\ position \in Nat \ {0} /\ position <= LastPosition
<1>1. stage \in Focusing /\ stage \in DOMAIN RequestPolicy
  BY DEF Focusing, Requests, RequestPolicy
<1> QED BY <1>1 DEF Inv, FocusInv

LEMMA FailuresComeCloser ==
  ASSUME Malformed \/ RequestFails \/ Abort
  PROVE  ComesCloser
<1>1. stage \in Requests
  BY DEF Malformed, RequestFails, Abort, Optional, Requests
<1>2. CASE Stop("failed")
  BY <1>1, <1>2, PartsInOrder, StopComesCloser
<1>3. CASE attempt = 0 /\ AskAgain(None)
  BY <1>3, AskAgainComesCloser
<1> QED BY <1>2, <1>3 DEF Malformed, RequestFails, Abort

LEMMA PlainComesCloser ==
  ASSUME Inv, InventoryReply \/ AffirmationReply \/ DirectRefutationReply \/ AbsenceReply
  PROVE  ComesCloser
<1>1. stage \in {"inventory", "affirmation", "direct_refutation", "absence"}
  BY DEF InventoryReply, AffirmationReply, DirectRefutationReply, AbsenceReply, Plain, FocusedReply
<1>2. stage \in Focusing /\ position \in Nat \ {0} /\ position <= LastPosition
  BY <1>1, RequestIsPlaced DEF Requests
<1>3. \/ attempt = 0 /\ AskAgain(None)
      \/ UNCHANGED batchClaims /\ \E v : Conclude(v)
  BY DEF InventoryReply, AffirmationReply, DirectRefutationReply, AbsenceReply, Plain, FocusedReply
<1>4. ASSUME NEW v, Conclude(v), UNCHANGED batchClaims PROVE ComesCloser
  BY <1>2, <1>4, ConcludeComesCloser
<1> QED BY <1>3, <1>4, AskAgainComesCloser

LEMMA AskFocusedComesCloser ==
  ASSUME AskFocused \/ Trace
  PROVE  ComesCloser
<1>1. /\ stage = "focus"
      /\ \E request \in {"trace_claim", "inventory", "affirmation", "direct_refutation", "absence"} :
           Send(request)
  BY DEF AskFocused, Trace, Here
<1> QED BY <1>1, SendComesCloser

LEMMA KnownTestComesCloser ==
  ASSUME Inv, KnownTest \/ KnownTestReply \/ OptionalFails
  PROVE  ComesCloser
<1>1. stage \in Focusing /\ position \in Nat \ {0} /\ position <= LastPosition
  <2>1. KnownTest => Here("known_test")
    BY DEF KnownTest
  <2>2. KnownTestReply \/ OptionalFails => stage \in Requests \ {"synthesis", "verify"}
    BY DEF KnownTestReply, OptionalFails, Optional, Requests
  <2> QED BY <2>1, <2>2, HereIsAt, RequestIsPlaced
<1>2. \/ stage = "focus" /\ Send("known_test")
      \/ UNCHANGED batchClaims /\ \E v : Conclude(v)
  BY DEF KnownTest, KnownTestReply, OptionalFails, Here
<1>3. ASSUME NEW v, Conclude(v), UNCHANGED batchClaims PROVE ComesCloser
  BY <1>1, <1>3, ConcludeComesCloser
<1>4. CASE stage = "focus" /\ Send("known_test")
  BY <1>4, SendComesCloser
<1> QED BY <1>2, <1>3, <1>4

LEMMA DraftedComesCloser ==
  ASSUME TraceClaimReply \/ RepairClaimReply
  PROVE  ComesCloser
<1>1. /\ UNCHANGED <<task, phase, batch, batchClaims, position>>
      /\ \/ stage = "trace_claim" /\ stage' = "trace_verdict"
         \/ stage = "repair_claim" /\ stage' = "repair_verdict"
  BY DEF TraceClaimReply, RepairClaimReply, pass
<1> QED BY <1>1, WithinValues, RequestComesCloser

LEMMA TraceVerdictComesCloser ==
  ASSUME Inv, TraceVerdictReply
  PROVE  ComesCloser
<1>1. stage \in Requests \ {"synthesis", "verify"}
  BY DEF TraceVerdictReply, Requests
<1>2. CASE attempt = 0 /\ AskAgain(None)
  BY <1>2, AskAgainComesCloser
<1>3. CASE Stop("failed")
  BY <1>1, <1>3, PartsInOrder, StopComesCloser
<1>4. ASSUME NEW v, Conclude(v), Install(draft.claim) PROVE ComesCloser
  BY <1>1, <1>4, RequestIsPlaced, ConcludeComesCloser
<1> QED BY <1>2, <1>3, <1>4 DEF TraceVerdictReply

LEMMA ComparisonComesCloser ==
  ASSUME Inv, Comparison \/ ComparisonReply
  PROVE  ComesCloser
<1>1. stage \in {"focus", "comparison"} /\ position \in Nat \ {0} /\ position <= LastPosition
  <2>1. Comparison => Here("comparison")
    BY DEF Comparison
  <2>2. ComparisonReply => stage = "comparison" /\ stage \in Requests \ {"synthesis", "verify"}
    BY DEF ComparisonReply, FocusedReply, Requests
  <2> QED BY <2>1, <2>2, HereIsAt, RequestIsPlaced
<1>2. \/ stage = "focus" /\ Send("comparison")
      \/ \E v : Settle(v)
      \/ attempt = 0 /\ AskAgain(None)
  BY DEF Comparison, ComparisonReply, FocusedReply, Here
<1>3. CASE stage = "focus" /\ Send("comparison")
  BY <1>3, SendComesCloser
<1>4. ASSUME NEW v, Settle(v) PROVE ComesCloser
  BY <1>1, <1>4, SettleComesCloser
<1> QED BY <1>2, <1>3, <1>4, AskAgainComesCloser

LEMMA RepairComesCloser ==
  ASSUME Inv, RepairVerdictReply \/ RepairCheckReply
  PROVE  ComesCloser
<1>1. stage \in {"repair_verdict", "repair_check"} /\ stage \in Requests \ {"synthesis", "verify"}
  BY DEF RepairVerdictReply, RepairCheckReply, FocusedReply, Requests
<1>2. stage \in Focusing /\ position \in Nat \ {0} /\ position <= LastPosition
  BY <1>1, RequestIsPlaced
<1>3. ASSUME NEW v, Conclude(v), UNCHANGED batchClaims \/ \E c : Install(c) PROVE ComesCloser
  BY <1>2, <1>3, ConcludeComesCloser
<1>4. CASE RepairVerdictReply
  <2>1. \/ /\ stage = "repair_verdict" /\ stage' = "repair_check"
           /\ UNCHANGED <<task, phase, batch, batchClaims, position>>
        \/ UNCHANGED batchClaims /\ \E v : Conclude(v)
    BY <1>4 DEF RepairVerdictReply, pass
  <2> QED BY <1>3, <2>1, WithinValues, RequestComesCloser
<1>5. CASE RepairCheckReply
  <2>1. \E v, c : Conclude(v) /\ (UNCHANGED batchClaims \/ Install(c))
    <3>1. PICK f : Replace(draft.claim, MergeComparison(draft.claim, draft.verdict, f))
      BY <1>5 DEF RepairCheckReply, FocusedReply
    <3> QED BY <3>1 DEF Replace
  <2> QED BY <1>3, <2>1
<1> QED BY <1>4, <1>5

LEMMA EndComesCloser ==
  ASSUME Inv, Gate \/ Finish \/ Repair
  PROVE  ComesCloser
<1>1. CASE Gate
  <2>1. NextPart
    BY <1>1, PartsInOrder DEF NextPart, Gate
  <2> QED BY <2>1 DEF ComesCloser
<1>2. CASE Finish
  <2>1. NextPart
    BY <1>2, PartsInOrder DEF NextPart, Finish, Stop
  <2> QED BY <2>1 DEF ComesCloser
<1>3. CASE Repair
  BY <1>3 DEF Repair, ComesCloser
<1> QED BY <1>1, <1>2, <1>3

\* A verification pass ends: its requests are asked twice at most, its steps and
\* its batches are never taken up again, and a run has two passes
\* (requestSemanticControlReviewOnce and the loops over batches and claims of
\* _runSemanticVerificationPass, runtime.mjs).
THEOREM PassComesCloser == Spec => EveryStepComesCloser
<1>1. ASSUME Inv, [Next]_vars PROVE [ComesCloser]_vars
  <2> SUFFICES ASSUME Next PROVE ComesCloser
    BY <1>1
  <2>1. CASE SynthesisReply \/ NothingToAsk \/ \E toolCalls \in BOOLEAN : SynthesisMalformed(toolCalls)
    BY <1>1, <2>1, SynthesisComesCloser
  <2>2. CASE VerifyReply \/ Skip
    BY <1>1, <2>2, VerifyComesCloser, SkipComesCloser
  <2>3. CASE Malformed \/ RequestFails \/ Abort
    BY <2>3, FailuresComeCloser
  <2>4. CASE InventoryReply \/ AffirmationReply \/ DirectRefutationReply \/ AbsenceReply
    BY <1>1, <2>4, PlainComesCloser
  <2>5. CASE AskFocused \/ Trace
    BY <2>5, AskFocusedComesCloser
  <2>6. CASE KnownTest \/ KnownTestReply \/ OptionalFails
    BY <1>1, <2>6, KnownTestComesCloser
  <2>7. CASE TraceClaimReply \/ RepairClaimReply \/ TraceVerdictReply
    BY <1>1, <2>7, DraftedComesCloser, TraceVerdictComesCloser
  <2>8. CASE Comparison \/ ComparisonReply
    BY <1>1, <2>8, ComparisonComesCloser
  <2>9. CASE RepairVerdictReply \/ RepairCheckReply
    BY <1>1, <2>9, RepairComesCloser
  <2>10. CASE Gate \/ Finish \/ Repair
    BY <1>1, <2>10, EndComesCloser
  <2> QED BY <2>1, <2>2, <2>3, <2>4, <2>5, <2>6, <2>7, <2>8, <2>9, <2>10 DEF Next
<1>2. Inv /\ [Next]_vars => [Smaller(PassRank', PassRank)]_vars
  BY <1>1, CloserIsSmaller
<1> QED BY <1>2, PassInvariance, PTL DEF Spec, EveryStepComesCloser

=============================================================================
