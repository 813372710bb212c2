# Verification of cerebras-explorer-mcp

TLA+ models of the server, the TLC runs that check them and the TLAPS proofs
that hold for every instance. Paths are relative to the repository; line numbers
are those of the commit the models were translated from.

## 1. The system

`cerebras-explorer-mcp` is an MCP server over stdio. A coding agent calls one of
six exploration tools; the server explores the repository with an LLM, splits
the request into *required goals*, has an isolated verifier judge the claims made
for each goal, and hands back one of four trust states: `complete`,
`verify_targets`, `incomplete` or `failed`. The value of the program is that these
states mean something, so the core of it is a ledger of goals and coverage gaps.

| part | state it keeps | operations | talks to | hard because |
|---|---|---|---|---|
| framing (`src/mcp/jsonrpc-stdio.mjs`) | byte buffer, answer format | `start`, `processBuffer`, `send` | session, by `dispatchMessage` | two framings on one stream, arbitrary chunks, malformed frames |
| session (`src/mcp/server.mjs`, `src/index.mjs`) | `activeAbortControllers`, `_sendQueue`, shutdown flag | `tools/call`, `notifications/cancelled`, progress, signals, end of input | ledger, by `exploreRepository` and an `AbortSignal` | concurrent calls, cancellation racing answers, failing writes, exits |
| goal ledger (`src/explorer/runtime.mjs`, `coverage.mjs`) | task contract, goal states, coverage gaps, claims, limits | plan audit, passes, reduction, late audit, repair round, handoff | provider, tools; session by the signal | two passes over the same goals, gaps rewritten by five handlers, failure at every await |
| plan audit (`coverage.mjs:1110-1555`, `runtime.mjs:9090-10704`) | proposals, audit records | propose, correct, audit in batches, reconcile | provider; ledger, by the audited plan | bounded corrections, partial batches |
| turn loop (`runtime.mjs:11259-11707`) | messages, turn counters, attempted actions | turn, tool batch, finalise | provider, tools | bounded concurrency, stagnation and error counters |
| claim and verdict batches (`runtime.mjs:2505-3253`, `critic.mjs`) | claim and verdict sets of a pass | synthesise, validate, verify, corroborate, gate | provider; ledger, by verdict records | retries of single stages, quarantined claims |
| provider call (`utils/http-client.mjs`, `providers/failover.mjs`) | attempt, timers, request controllers | attempt, retry, time out, fail over, abort | network | three nested timers and an external abort |
| repository tools and cache (`repo-tools.mjs`, `cache.mjs`) | LRU map with byte accounting | read-only tools, `get`, `set` | file system, git | shared between calls, stale entries |
| handoff (`runtime.mjs:1522-1652`, `1825-2354`, `629-670`, `coverage.mjs:2117-2348`) | none | result and parent projection, re-read of sources, claim cover, targets, gaps, trust state | session | two projections with rules of their own, several independent downgrades, files that change meanwhile |

Everything runs on one event loop, so an interleaving is a choice at an `await`,
a timer or an I/O event. Nothing is persisted except the transcript, so there is
no recovery after a crash to verify.

What makes each part correct, in short: the framing delivers every message once
and in order; the session aborts the calls that are cancelled and no others, and
answers the rest; the plan loses nothing the request asks for and takes nothing
back that an audit rejected; a search that says it is complete saw every file, and
a claim returned as supported is the one that was judged; the ledger never reports
a positive state that is not backed by the last judgement of every goal, never
loses a goal between two handlers and always returns; a provider call leaves no
request running and never retries past its budget or past an abort. The hazards
behind these properties are listed, each at its line, in `PROJECT.json`.

## 2. Modules

| module | models | notes |
|---|---|---|
| `ExploreContract` | what one call promises: obligations only grow, at most two judgements, a positive answer proves every obligation, an answer is final | abstract specification |
| `GoalLedger`, `MCGoalLedger` | one `explore()` call, from the audited plan to the handoff | implements `ExploreContract` |
| `GoalLedgerProofs` | safety theorems, the refinement and what the answer says | |
| `GoalAudit`, `PlanAudit`, `MCPlanAudit`, `PlanAuditProofs` | from the request to the required goals | pure rules; the requests around them |
| `ClaimRules`, `ClaimPass`, `MCClaimPass`, `ClaimPassProofs` | one semantic verification pass, and the second one after a repair | pure rules; the requests around them |
| `Handoff`, `MCHandoff`, `HandoffProofs` | from the verdicts of the last pass to what the caller sees; `EXTENDS ClaimRules` | two projections and the re-read between them |
| `TurnLoop`, `MCTurnLoop`, `TurnLoopProofs` | the loop behind `Explore` of `GoalLedger`: policies, tool batches, counters, finalisation | one module for all ten policies |
| `LruCache`, `RepoTools`, `MCRepoTools`, `RepoToolsProofs` | the tools over their shared cache while files change | the cache is a module of operators |
| `ProviderCall`, `ProviderCallProofs` | one chat completion: retries inside failover | checked without an MC module |
| `McpSession`, `MCMcpSession`, `McpServerProofs` | calls, controller table, output queue, exits | |
| `StdioFraming`, `MCStdioFraming`, `McpServerProofs` | `processBuffer` on arbitrary chunks; streams to feed it | proofs beside those of the session |

How they compose. `StdioFraming` stops at `dispatchMessage`, where `McpSession`
begins. `McpSession` treats the work of a call as one step, `Commit`, that answers
`aborted` whenever the signal was raised before it; `AbortWins` of `GoalLedger` is
the statement that `explore()` behaves so, and `Termination` of `GoalLedger` is the
fairness `McpSession` assumes of `Commit`. Three stages of `GoalLedger` have a
module of their own: `AuditPlan` and `AuditLateGoals` stand for a run of
`PlanAudit`, whose `ledger` becomes the registered goals; `Explore` stands for a run
of `TurnLoop`; `Synthesize` and `Reduce` take the claims and verdicts that
`ClaimPass` has at `reduced`, one record per claim, and `Handoff` starts from the same
verdicts: it is what `Commit` takes as one step. The tools that `TurnLoop` runs
are those of `RepoTools`, whose complete enumerations are the certificates that
`ClaimRules` reads in `observation.complete`. `EveryStepComesCloser` of `PlanAudit` and
of `ClaimPassProofs`, `Returns` and `Settles` are why each of these stages, and each
request in them, may be assumed to return.

### GoalLedger

Variables follow the code's own state: `state`, `gapRef` and `claimRefs` are fields
of `RequiredSubgoal`, `gaps` is `coverageGaps`, `limited` collects
`affectedSubgoalIds` of `stats.safetyLimits`. A claim is reduced to its verdict
record (result, resolution, whether it leaves a part uncovered, whether it cites
evidence the repair round added), because that is all `reduceSemanticClaims`
distinguishes. One action stands for one stage of `explore()`:

| action | code |
|---|---|
| `AuditPlan` | audited plan, blocked goals with their gaps, `audited -> exploring` |
| `Explore` | the turn loop, with or without a repository action, or all-error exit |
| `Synthesize` | a claim batch; the second pass may discard all claims of a goal |
| `Reduce` | verdicts and `reduceSemanticClaims`, its contract checks included |
| `AuditLateGoals` | `auditLateGoalProposals` with `integrateAuditedLateGoals` |
| `ApplyLimits` | `applyObservationSafetyLimits` |
| `RepairRound`, `SkipRepair` | `selectEvidenceRepairGaps`, `applyEvidenceRepairRound` |
| `Commit`, `AssemblyFails` | `reduceTrustState`, `buildParentHandoffProjection` and its gaps; the assembly throwing |
| `ServiceFails`, `Abort` | a provider, tool or control failure at any await; the caller's signal |

A step that throws goes through `Fail`, which is the catch and commit point of
`explore()`: a raised signal wins over any other error there.

### StdioFraming

Bytes are grouped into the symbols the parser tells apart: a header line, a
newline (LF and CR LF alike), the opening brace of a JSON text and the rest of
it. `Receive` moves any prefix of the wire into the buffer; the loop iterations
(`ReadLine`, `ReadFrame`, `SkipHeader`) run until `WaitForData`, with no data event
in between, because `processBuffer` never awaits. Blank lines between messages and
white space before a message are not modelled. A `Content-Length` is any integer:
`parseInt` takes a sign, and `subarray` counts a negative index from the end of the
buffer (`FrameEnd`). A length that takes the frame back to the start of the buffer,
or before it, makes a round that reads nothing and cuts nothing off (`Overreaches`).

Nothing makes a client keep to a grammar, and the parser is run on streams that keep
to none. `WellFramed` is the grammar a client should keep to: a stream is a sequence of frames of one
framing. A line starts with a brace and has one newline, its last symbol; a header
frame is a block, its empty line and a body of the length that the block's last
`Content-Length` announces. The text in a frame may be malformed, and then sends
nothing. A block without a length has no body here; what the code does with one is
the first of the known divergences below.

### McpSession

A call takes an id (or `null`) that no unanswered call uses; the protocol requires
this of clients. `Cancel(i)` is `notifications/cancelled`, `Return` is the `finally`
of `callTool` with the answer's `send`, and the output is a queue whose head may be
in the middle of a `process.stdout.write`. `StdinEnd` is `process.exit(0)`;
`Shutdown`, `Drain` and `Failsafe` are the signal handler, the natural exit and the
five-second timer, which is unreferenced and so fires only while something else
keeps the process alive.

### ProviderCall

One action goes from an event (an answer, a rejection, one of the two timers, the
end of a delay, the caller's abort) to the next request, the next wait or the
outcome. Times are abstracted: any timer may fire whenever it is armed. All
providers are configured; a missing API key throws before any request and is
not modelled. `Failover = FALSE` is a single provider without the chain's timer.

### TurnLoop

`mode` is the policy that the task and its hints select once per call; `TurnPolicy`
computes the tool policy of a turn from the observations so far, as the code does,
and each policy builder is one operator. `full` of an observation is the one
thing about its contents that the policies test: of a search, that its
arguments were recorded; of a source, that its range covers the matches. Where the
code filters, maps or slices the list of observations, a policy reads the set of the
positions that qualify (`Of`, `Greps`, `Sources`).

| action | code |
|---|---|
| `BeginTurn`, `TurnLimit` | the top of the `for` loop, the policy, the limit (`runtime.mjs:11259-11383`, `11674`) |
| `ToolReply`, `TextReply` | a completion with or without tool calls: read rounds, fingerprint, the reminder |
| `StartCall`, `FinishCall` | `runWithConcurrency` and its worker; validation is synchronous, the tool is not |
| `RecordBatch` | observations in call order, then breaker, warning and counters |
| `Synthesized` | `finalizeAfterToolLoop`: a synthesis and one repair |
| `RequestFails`, `Abort`, `Commit` | a rejected request, the caller's signal, the commit point of `explore()` |

What the model leaves to chance: the model's reply, every tool's outcome and which
files a search matches. What it leaves out: the message list, compaction and
checkpoint reminders; the "narrower boundary" branches of the locate and trace
policies, which cannot be reached because the runtime overwrites the scope of
every search it lets run; ranges of more than 200 lines, which are recorded as two
sources; a claim check that asks for tests; path requests with a single
search word. The provider is assumed to honour `parallel_tool_calls: false`.

### PlanAudit and GoalAudit

A goal is its core (question, claim type, proof condition) and the set of its
origins, which are slices of the request and the fixed seeds of the wrapper;
`Within` says which slice lies inside which. `GoalAudit` holds what the code
computes without waiting: preflight, validation of replies, `reduceGoalAudit`, and
which goal may cover which obligation. `PlanAudit` holds the requests.

A wrapper is the tool a request came through: its fixed seeds, whether its goals own
their seeds alone (`find_relevant_code`, `explain_code_path` and `map_change_impact`,
`runtime.mjs:6086-6107`), and the leaves the request fixes. A request to
`explore_repo` that asks to classify every invocation has three: the goals for direct
calls, wrappers and configuration, each with one exact slice of the request
(`runtime.mjs:5984-6008`). These slices lie inside one another on purpose, so the
leaves are exempt from the ambiguity rule among themselves (`distinctOriginGoalIds`,
`coverage.mjs:949-973`, the case of `tests/coverage.test.mjs:2340-2348`) and may not be
decomposed, rejected or merged. `distinct` holds the ids of those candidates.

| action | code |
|---|---|
| `PlannerReply`, `RevisionReply` | `_createAuditedTaskPlan`: the first plan and the one corrected plan (`runtime.mjs:10290-10535`) |
| `AuditReply`, `JoinBatches`, `CoverageReply` | `_auditGoalPlanBatched`: batches, the join, parts that another batch covers (`runtime.mjs:9090-9431`) |
| `ReduceInitial`, `ReduceRevision` | `reduceGoalAudit` and what it leaves for a revision (`runtime.mjs:10452-10602`, `coverage.mjs:1320-1555`) |
| `RevisionCoverageReply`, `CarryForward` | reconciliation and `materializeUnresolvedRevision` (`runtime.mjs:9208-9322`, `10622-10653`) |
| `Check` | the last validation of the plan (`runtime.mjs:10655-10704`) |
| `LateProposals`, `ReduceLate` | `auditLateGoalProposals` (`runtime.mjs:10706-10886`) |
| `Malformed`, `RequestFails`, `Refuse` | `requestValidatedGoalControl`: one more attempt, then the run fails |

A model may reply anything its schema allows: every verdict for every goal, every
merge, every subset of the origins, up to `MaxUncovered` missing parts. Left out are
the other policies of single wrappers (generated paths, `collect_evidence`),
constraints (a part of the core here), the pairing of `missingRequestParts`, and the
recoveries that restore a wrapper's own goals: the plan they put in place is one the
planner might have proposed, and the model has it as such. Two consequences of the
checks are worth knowing. A leaf that a revision proposes again is told apart from
the other leaves of that revision only (`runtime.mjs:10546`): where its slice
lies inside that of a preserved leaf, it stays `planning_incomplete`. And a goal that
carries a seed and needs decomposition may leave two goals with the same seed, and
then, where the wrapper's goals own their seeds, the whole plan fails closed.

The ids the runtime makes up, of a missing part or a goal carried forward, are
content hashes under prefixes of its own; no model is assumed to propose a goal under
one of them. What the batches leave to be covered is kept apart from what the
corrected plan leaves. A loop over an array, such as the deduplication of preflight,
is a function of the length of the prefix read so far.

### ClaimPass and ClaimRules

`ClaimRules` holds the pure rules: batching, renaming of ids, carried prior claims,
faulty claims, what the runtime writes into the claims of a batch (the test a claim
is about, the companion test of an edit, the risk boundary of a change, the usage
search of a trace, the lines of a definition), which verdicts need a second opinion
and how two are merged, the proof gate. `ClaimPass` is `_runSemanticVerificationPass` (`runtime.mjs:9433-10290`).

| action | code |
|---|---|
| `SynthesisReply`, `SynthesisMalformed`, `NothingToAsk` | a synthesis batch, its correction and its recovery (`runtime.mjs:9493-9675`); `Reworded` and `Grounded` are what its claims become between the reply and the registration (`runtime.mjs:3001-3008`, `9637-9662`) |
| `VerifyReply` | a verification batch (`runtime.mjs:9696-9749`) |
| `AskFocused` with `InventoryReply`, `AffirmationReply`, `DirectRefutationReply`, `AbsenceReply` | the second opinions (`runtime.mjs:9807-9866`, `9950-10095`) |
| `KnownTest`, `KnownTestReply` | the recheck of a known test (`runtime.mjs:5030-5158`) |
| `Trace`, `TraceClaimReply`, `TraceVerdictReply` | a definition claim narrowed to its source (`runtime.mjs:4602-4762`) |
| `Comparison` ... `RepairCheckReply` | a comparison corroborated, or restated, judged and corroborated (`runtime.mjs:4764-5028`, `9867-9948`) |
| `Gate` | `restrictMapRiskBoundaryVerdicts`, `applyRuntimeProofGate` and `applyClaimProofPolicyGate` |
| `Repair` | the second pass: prior claims, reopened goals, the same retry state (`runtime.mjs:11890-11934`) |
| `OptionalFails`, `Malformed`, `RequestFails`, `Abort` | a refused, failed or cancelled request |

`judgments` and `asked` are history. A text is its words ("said" by the model,
"narrowed" by a retry, or one of three sentences of the runtime's own), the files it
names, whether "is defined in" leads up to the file, and the source whose lines the
runtime wrote into it: that is all the rules look at. Left out: citation rules for
structured output and impact categories, static-array comparisons and the checks of a
claim's wording. A verdict rests on all
of a claim's evidence or on all but one piece. A batch is known by the place of its
first goal, and `claims` is a set: the order of the claims of one goal, which the
code takes from the reply, is left open wherever a rule depends on it.

### Handoff

A task, its claims and their verdicts come from a finished `ClaimPass`: `Init` takes
every set of verdicts that the proof gate of `ClaimRules` lets through, every set of
goals the reduction may have closed, any limits, and files already edited or gone.

| action | code |
|---|---|
| `Init` | `buildSemanticParentProjection`: the claims of the result and the sources behind them (`runtime.mjs:1522-1652`) |
| `FirstRead`, `SecondRead` | `attachEvidenceMetadata`: the lines to show, then the whole range compared with what was verified (`runtime.mjs:629-670`) |
| `Assemble` | `buildParentHandoffProjection` with `selectClaimCover`, `reduceTrustState`, `buildParentGaps` and the schema of each state; a refused handoff becomes a failure (`runtime.mjs:1825-2354`, `12246-12313`) |
| `Edit`, `Abort` | the user and the caller's signal |

`InResult` and `Accepted` are the two verdicts on a claim, by all the evidence the
verifier approved and by its cover; a source counts for the second only if the first
listed it and the re-read kept it. Left out: wording, roles, order and the limit of
eight targets, follow-ups, the risk boundaries of `map_change_impact`, and the raw
result's own status. Gaps are the goals they name; the code may print two goals of
one request part and cause as one. The resolution varies only for
`support_or_refute`, the policy that reads it.

### RepoTools and LruCache

A pattern is abstracted to one question per file. A search runs directory by
directory and file by file (`WalkDir`, `ScanFile`), with edits between the steps,
because each is an `await` in the code.

| action | code |
|---|---|
| `Start`, `Stat`, `Lookup` | `callTool`: the modification time, the key, the cache (`repo-tools.mjs:2018-2094`) |
| `WalkDir`, `WalkFails`, `WalkDone` | `walkFiles` and `findFiles` (`repo-tools.mjs:706-875`) |
| `ScanFile`, `ScanDone` | `grep` without ripgrep (`repo-tools.mjs:1047-1126`) |
| `StoreSearch`, `Run`, `Keep` | the answer and its entry (`repo-tools.mjs:2024-2147`) |
| `Observe` | the observation the runtime keeps (`runtime.mjs:8918-8946`) |
| `Write`, `Tick` | the user and the clock |

`EnumerationComplete` is `deriveRepositoryObservationCoverage`: the conclusion that
absence certificates and counts rest on. The ripgrep path is left out because
`explore()` always sets a base scope, which turns it off. Listings, references and
the context lines around matches are not modelled; the tree has depth two.
Searches are cached without a time to live (`DESIGN.md:162`), so `CompleteIsExact`
speaks of the search that filled the entry, and edits later than that are out of
its scope. Two writes within one millisecond are not told apart, by the code or by
`AnswersAreFresh`. `Bytes` counts the bytes of the entries one by one, apart from the
running total the code keeps; the eviction loop drops the shortest prefix of the
order that makes room. A value larger than the whole cache empties it
(`cache.mjs:49-56`).

## 3. What is checked

| run | instance | distinct states | shows |
|---|---|---|---|
| `goal_ledger` | one planned goal, a late goal in each pass, the first `support_or_refute`, an edit request, repair batch 1 | 148,359 | `LedgerLinked`, `NoGoalLeftExploring`, `SupportIsBacked`, `AttemptsAreRemembered`, `AbortWins`, `GapsCloseOnFreshEvidence`, `ImplementsContract`, `Termination` |
| `plan_audit` | two requests, up to four goals in batches of two, a corrected plan of up to two, one late goal | 2,394,029 | `NothingIsLost`, `RejectedStaysOut`, `ReadyGoalsAreTellable`, `EveryStepComesCloser` |
| `claim_pass` | fifteen tasks of one to three goals, two claims a reply, both passes | 355,186 | `JudgedAsReturned`, `SupportIsCorroborated`, `RetriesAreSpentOnce`, `PriorClaimsAreCarried` |
| `handoff` | nine tasks, one per way evidence reaches the caller, two files, one edit | 489,888 | `ShownIsCurrent`, `GapsAreExact`, `AssemblyHolds` |
| `turn_loop` | ten modes, three files, two calls a turn, three to five turns | 1,284,186 | `BatchKeepsThePolicy`, `BudgetsHold`, `BreakerIsTight`, `StagnationIsAnswered`, `ClosedStaysClosed`, `Returns` |
| `repo_tools` | two workers, two calls, four files in two directories, one edit | 1,916,899 | `CompleteIsExact`, `AnswersAreFresh`, `BytesAreExact` |
| `provider_call` | three providers, two retries | 954 | `NoGhostRequest`, `RetryBudget`, `AbortEndsTheCall`, `Settles` |
| `mcp_session` | two calls, two ids, one progress notification each | 283,815 | `TableIsExact`, `CancelHitsItsCall`, `ProgressPrecedesAnswer`, `EveryCallIsAnswered`, `ShutdownCompletes` |
| `stdio_framing` | all streams of up to three frames of one framing, or of frames, lines and negative lengths | 9,650 | `DeliversAllInOrder`, `AnswersInClientFormat`, `OnlyOverreachWedges` |
| `goal_ledger_quarantine` | one `support_or_refute` goal, a late goal in each pass | violated | finding 1 |
| `claim_pass_prior_ids` | as `claim_pass` | violated | finding 2 |
| `stdio_framing_negative_length` | streams of up to two frames, lines and negative lengths | violated | finding 3 |

Deadlock is not checked: every model ends (an answered run, a finished plan, an
exited process, a settled call, spent bounds). Every property is broken by at least
one operator marked "Mutant" in the modules; these are plausible mistakes in the
modelled code and are used by no specification.

**Bounds.** A planned goal and the late goal of the first pass compete for a repair
batch of one, so a repairable goal is left out of the round; another late goal
arrives after the second pass, where no repair is left. A goal has
one aggregate claim, a `support_or_refute` goal two, which is what its resolution
needs to be affirmed, refuted or inconsistent. Three frames are enough for a message
before and after a malformed one, and every cut of them into chunks is explored. The
negative lengths end a frame inside its own header, at the start of it and before it.
With two calls and two ids the second call may use the first call's id after its
answer, or run next to it. Three providers give a first, a middle and a last one.

`PlanAudit`: three goals in batches of two make a join with goals of one batch
covering parts another reported missing; a slice that contains the two others gives
overlap and correction by a wider origin, a seed gives the rules for wrapper goals.
The second request has three leaves with nested slices, two of one claim type, and
may come with a fourth goal of that type, which overlaps a leaf and is ambiguous; the
correction may put another goal in the place of a leaf.
The plans a planner may propose are three, the additions to the corrected plan up to
two of six goals, among them a rejected goal that comes back unchanged, under
another id, or wider. `Circular` and `Uncertifiable` are empty in the instance.

`ClaimPass`: a task per kind of proof, with evidence that satisfies it, evidence that
does not, and one source that only the repair adds. Two claims a reply give a good
and a faulty one, or two of one goal; three goals make two batches. Six tasks are
about prior claims: a test goal that is asked beside another goal at first and alone
after the repair, a test the caller named that only the repair reads, a definition
first shown after the repair (worded with and without "is defined in"), a usage search
that covers a claim only then, a risk boundary whose impact claims change, and a
companion test the repair reads, with and without a search that lists it.

`Handoff`: each task has the evidence that makes its own rule decide: a nested range,
a search beside its read, a zero-match search, listings and counts with and without
sources, an array bound to its file, commits with and without an id. Claims of two
goals, or two of one, let one be dropped while the other is shown. One edit, with
files observed, edited or deleted before it, falls before, between and after the two
reads of either file, restoration included.

`RepoTools`: a plain file in the root and one in a directory, next to a secret and a
link; the walk limit of two and the result limit of one are reached. Two workers may
fill the same entry. A cache of two units holds two small results or one large one.
One edit suffices to fall between any two steps.

`TurnLoop` has two implementation files and a test, so that a policy can prefer
one, read another and fall back on the third; file `a` has matches too far apart
for one range, file `b` declares a symbol to follow. `MaxTurns` is long enough for
the whole script of each mode and one turn that goes wrong; five turns of the free
mode are what a warning, its reset and the breaker need. Two calls a turn and two
workers suffice for a race on one path. `EndpointReads` is 2 where the code has 3,
as there are only two implementation files. Of calls that are refused alike one
stands for all, and the free policy keeps no observations since it reads none.

The constants of the instances above, `MaxProgress`, `MaxFrames`, `MaxUncovered`,
`MaxClaims`, `Edits`, `MaxWrites`, `MaxClock` and `MaxCalls` are the only bounds. The proofs
remove them for the theorems of section 4.

**Fairness.** `GoalLedger`: `explore()` keeps taking steps, because provider calls
settle and the turn loop is bounded; the caller need not abort. `StdioFraming`:
the parse loop is synchronous and runs on once started, which is no promise that it
ends; the client need not write. `McpSession`: a running call commits and returns, a
queued chunk is started, and a signalled process drains or its failsafe fires. The end
of a write depends on the client: `EveryCallIsAnswered` assumes it explicitly,
`ShutdownCompletes` does not. `ProviderCall`: only the HTTP timer and the retry delay
are fair; providers may stay silent and the failover timer is not needed.
`TurnLoop`: the loop keeps taking steps, because a request settles (`ProviderCall`)
and the tools are local reads and searches with limits of their own; nothing is
assumed of what the model answers. `PlanAudit` needs no fairness: each of its steps
decreases a rank (`EveryStepComesCloser`), whatever the models reply.

**Findings.** Each run that is expected to fail checks what a comment or a
document says.

1. `QuarantineLeavesAGap`: discarding the claims of one goal in the post-repair
   pass is announced as leaving "an explicit gap" (`runtime.mjs:3124`); the goal
   keeps its `claimRefs`, `reduceSemanticClaims` throws (`coverage.mjs:1956`) and the
   whole call is reported as failed.
2. `PriorIdsStayFree`: prior claims are carried forward "even when omitted"
   (`runtime.mjs:5428`) and ids that clash are renamed (`DESIGN.md:235`); but a new claim
   of an earlier batch may take the id of a prior claim of a later batch, which then
   refuses every reply to that batch (`runtime.mjs:2670-2704`, `2930-2932`).
3. `LoopReturns`: a bad frame is discarded "rather than throwing, which would wedge the
   Content-Length path for the rest of the stream" (`jsonrpc-stdio.mjs:100-103`); but
   only a length that is no number counts as bad. A negative one that reaches back to
   the start of the buffer passes the check of line 99, its body is empty,
   `JSON.parse` throws, and `continue` meets the same header again
   (`jsonrpc-stdio.mjs:107-121`): the synchronous loop never ends, and the process
   answers nothing more, no signal included. Negative lengths that end inside the
   header are consumed. `OnlyOverreachWedges` shows that there is no other such input.

**Known divergences.** Three more places where the code does not do what a text says;
the models reproduce the code, and no property states the text.

- After a frame with a body but without a usable length, later frames should be
  read (`jsonrpc-stdio.mjs:100-102`, `CHANGELOG.md:404`). The body is left in the
  buffer (`jsonrpc-stdio.mjs:104`), switches the stream to NDJSON, and none of the
  frames that follow is dispatched.
- `complete` means that every required goal is supported
  (`specs/028-trustworthy-explorer/contracts/parent-handoff-v3.md:46`), and a
  certificate is proof that a count "is safe to surface" (`data-model.md:190`). A
  certified count of files above zero closes its goal, but neither projection has a
  way to show it (`runtime.mjs:1622-1627`, `1972-1985`): the caller gets a gap and no
  answer. The same happens to other verdicts the gate accepts: a `collect_evidence`
  premise refuted by searches alone, which `trust-gates.md:179` lists as `complete`;
  an affirmed premise that also cites a search; a usage claim resting on its search
  alone; and a commit cited beside a diff hunk, which carries no commit id.
- "Prior claims below are immutable and runtime carries them forward even when
  omitted" (`runtime.mjs:5428`). Neither half holds. The second pass rewrites them as
  it does any claim of a batch: it puts the path of a test into a text and cites the
  companion test (`runtime.mjs:1472-1503`, called at `3001-3006`), writes the lines of
  a definition into a text or replaces the text (`4545-4600`, called at `9657-9662`),
  adds a usage search (`3840-3904`), and replaces text and evidence of a risk boundary
  (`2706-2739`, called at `3008`). A prior claim of a goal about one test, asked alone,
  loses its evidence outside the test the caller named (`9518-9522`, `4167-4190`). And
  prior claims are dropped: with the claims of a faulty goal, by a recovery
  (`9601-9634`, `3049-3056`), after which another goal may use their ids, and a
  relevance claim that leaves a listed test out (`4054-4076`). `PriorClaimsAreCarried`
  says what is left: of a prior claim that survives, with its id and its goal, which
  rewriting each goal can meet and that nothing else is touched.

**Known behaviours**, which the models reproduce and no property forbids: a limit
reached while auditing late proposals names goals that were never registered, and
alone makes the answer `incomplete` (`runtime.mjs:2288`); a search the locate policy
refused is recorded as one without matches (`runtime.mjs:8921-8939`), so that the
note that no candidate was found may follow a search that was never made
(`runtime.mjs:8297-8300`); and the obligation of a goal to decompose is the goal as
proposed, without the origins of the duplicates merged into it
(`runtime.mjs:6540-6547`). A claim whose cover is
shown stays in the answer when another source it rests on has changed, although the
raw result then loses it (`coverage.mjs:2125-2149`).

## 4. What is proved

All theorems hold for every value of the constants that meets the `ASSUME`s of
the modules, which TLC evaluates in the runs:

- `GoalLedger`: disjoint sets of planned and late ids, distinct priorities (ties are
  broken by id in the code), a repair batch of at least one.
- `StdioFraming`: clients write symbols. `WellFramed` is a condition in the theorems
  about delivery and the answer format, not an assumption.
- `McpSession`: `null` is not an id. `ProviderCall`: at least one provider.
- `GoalAudit`, `PlanAudit`: slices and seeds apart, a request with leaves has no
  seeds and no core of two kinds, finitely many contents of a request, plans that are
  sequences of goals with an origin, and ids of the runtime's own that no model
  proposes.
- `ClaimRules`, `ClaimPass`: a positive batch size, goals of a task with distinct ids,
  risk boundaries that are impact goals (as `runtime.mjs:7743-7768` makes them).
- `Handoff`: claims of a task with distinct ids.
- `RepoTools`, `LruCache`: a finite tree whose directories lie below the root, sizes and
  limits that are natural numbers.
- `TurnLoop`: a finite set of files with distinct ranks, limits that are natural numbers.

| theorem | of | states |
|---|---|---|
| `Invariance`, `TypeCorrect`, `GoalsAndGapsAgree`, `RepairNeverThrows`, `RepairIsSpentOnce`, `PositiveHandoffIsEarned` | `GoalLedgerProofs` | `IInv` and its parts |
| `SupportStaysBacked`, `GapsNeedFreshEvidence`, `ImplementsTheContract` | `GoalLedgerProofs` | `SupportIsBacked`, `GapsCloseOnFreshEvidence`, the refinement of `ExploreContract` |
| `EveryGoalIsJudged`, `CancelledRunsAreAborted`, `AttemptsStayKnown` | `GoalLedgerProofs` | `NoGoalLeftExploring`, `AbortWins`, `AttemptsAreRemembered` |
| `SessionInvariance`, `ControllersAreExact`, `CancellationsHit`, `ProgressComesFirst` | `McpServerProofs` | `SessionInv` and its parts, `ProgressPrecedesAnswer` |
| `FramesAreRead`, `AnswersMatchTheClient` | `McpServerProofs` | `DeliversAllInOrder`, `AnswersInClientFormat` |
| `CallInvariance`, `NoRequestIsLeftRunning`, `RetriesAreBounded`, `FailuresAreHonest`, `AbortIsFinal` | `ProviderCallProofs` | `CallInv`, its consequences, and that nothing follows an abort |
| `RepoInvariance`, `EnumerationsAreExact`, `CachedAnswersAreFresh`, `ByteCountIsExact` | `RepoToolsProofs` | `CompleteIsExact`, `AnswersAreFresh`, `BytesAreExact` |
| `RetryInvariance`, `SameEvidenceRetriesAreBounded` | `ClaimPassProofs` | `RetriesAreSpentOnce` |
| `PassInvariance`, `SupportIsAsJudged`, `TwoVerifiersSupport`, `PriorClaimsAreCarriedOn` | `ClaimPassProofs` | `JudgedAsReturned`, `SupportIsCorroborated`, `PriorClaimsAreCarried` |
| `PlanIsTellable`, `RejectedIsNeverRequired` | `PlanAuditProofs` | `ReadyGoalsAreTellable`, `RejectedStaysOut` |
| `PlanningComesCloser`, `NothingRequestedIsLost` | `PlanAuditProofs` | `EveryStepComesCloser`, `NothingIsLost` |
| `ShownSourceIsCurrent`, `HandoffGapsAreExact`, `HandoffIsWellFormed` | `HandoffProofs` | `ShownIsCurrent`, `GapsAreExact`, `AssemblyHolds` |
| `BatchesKeepThePolicy`, `BreakerOpensInTime`, `RepetitionIsAnswered` | `TurnLoopProofs` | `BatchKeepsThePolicy`, `BreakerIsTight`, `StagnationIsAnswered` |
| `BudgetsAreKept`, `ToolsStayWithdrawn` | `TurnLoopProofs` | `BudgetsHold`, `ClosedStaysClosed` |
| `RunsAreBounded` | `GoalLedgerProofs` | a run takes at most 15 steps |
| `PassComesCloser` | `ClaimPassProofs` | every step of a pass decreases a lexicographic rank |
| `ExplorationsAreBounded` | `TurnLoopProofs` | at most `MaxTurns * (2 * MaxCalls + 3) + 5` steps |
| `CallsAreBounded` | `ProviderCallProofs` | at most two events an attempt, and an abort |
| `RoundsConsume`, `OverreachIsForGood`, `ParsingIsBounded` | `McpServerProofs` | every round consumes, or a length overreaches and the loop never ends; at most three other steps for a symbol, and well-framed streams meet no such length |

*The ledger.* No single property is inductive. That a repairable gap is linked to
its goal survives the second pass only because the order of stages is fixed
(`PassOrder`): once `repaired`, the reduction and the late audit run with
`passes >= 1` and create no repairable gap. That a gap is the only gap of its goal
survives the late audit only because the ids of late goals are unused
(`LateIdsAreFresh`). `IInv` is the conjunction of these with the properties
themselves. The proof has a lemma per action and a step per part the action can
disturb. `BackedInv` adds what a second pass needs: a supported goal is among
`claimRefs`, so the reduction judges it again or throws.

*The answer.* `JudgedInv` says in which phases no goal is exploring: after the
reduction, and until the repair round reopens goals. `AbortWins` needs no invariant,
every action that answers goes through the same test of the signal.
`AttemptsAreRemembered` follows from `IInv` and `BackedInv`: the gap a handler
rebuilds is the only gap of its goal.

*The refinement.* `required` is the set of registered goals, `proved` the
supported ones, `judged` the number of passes, `outcome` the handoff. `AuditPlan` and
`AuditLateGoals` map to `Require`, `Reduce` to `Judge`, `Commit` to `Answer`, every
failure to `GiveUp`, the rest to stuttering.

*The session.* The table is keyed by id and an id outlives its call, so exactness
needs that running calls have distinct ids (`Alone`), which in turn needs that an
answer is only ever sent by a call that is over (`AnswersAreDone`). The order of
output is an invariant of what was written followed by what is queued: chunks are
dropped only from the queue's head, so the stream a client reads stays in order.

*The framing.* `FramingInv` says where the parser is: `k` frames are read whole, `r`
bytes were received, the buffer is what lies between, and the parser rests only
inside a frame. The stream's format is settled once a byte of it was seen. The step
that matters is that a frame is recognised exactly when it is whole, whatever the cut:
`Agree` says that the buffer shows the frame as far as it goes, and the lemmas around
`LineSeen` and `HeaderSeen` that an end of line, or of a header block, found in the
buffer is the frame's own and not one of the next frame. All this is for a client that
frames well; of any other, `FramingTyped` is what is left, and enough for the theorems
about the loop: a round that is not an overreach takes at least a symbol off the buffer.

*The provider call.* `CallInv` ties the set of open requests, the requests sent and
the providers already given up to the current provider and attempt.

*The tools.* `RepoInv` accounts for every file of a search's boundary at every step:
found, seen without the text, still to be scanned, in a directory still to be
walked, or covered by a flag that spoils completeness. Each entry of the cache
promises what its key says, so a hit is as good as the search that filled it.

*The cache.* `CacheInv`: the map and the order list the same keys, each once, and the
running total is the number of bytes held, at most `MaxBytes`. That the order has no
key twice is what makes the prefix an eviction drops give back exactly its bytes.

*The plan.* An audit rejects as ambiguous every goal that overlaps another ready
goal of its own or of the plan it respects, unless both are in `distinct`, and what is
added without an audit is `planning_incomplete`; `PlanInv` says so of the plan and of
the preserved goals. `LeavesInv` is what makes the exemption harmless: two candidates
with ids in `distinct` are of two kinds of the classification, because each kind has
one exact goal in the reply and the preflight keeps cores, and none of them is a goal
the audit has to respect.
`PlacesInv` says which goals, under which ids, may be at each stage: ids made up by
the runtime are fresh, and a rejected goal is neither required nor preserved.
`LossInv` follows what was asked for: merges end in a goal of the same audit, what the
first audit did not reject is required or an obligation of the corrected plan, whoever
was said to cover something is required, an obligation or just audited, and every
obligation is settled before the plan is checked. The rank of `EveryStepComesCloser`
is lexicographic, so the proof has one step per action and names the component that
falls.

*The claims.* `Inv` follows a pass from batch to batch: registered ids are those of
the claims (`IdsInv`), a claim with the id and goal of a prior one carries it
(`PriorInv`), a claim has a verdict once its batch is reached (`BatchInv`), a focused
request has the policy that asks it (`FocusInv`), and a remembered recheck was judged
(`RecheckInv`). That a claim carries a prior one is followed through what each rule
writes: the test it names (`TestNamedForms`), the risk boundary (`BoundedForms`), the
usage search (`UsageForms`), the definition (`LocatedForms`) and the count (`GateInv`).
`SupportInv` ties a verdict to `judgments`: one judgement of the claim
as it stands, and a second verifier's where the policy wants one; `ClearedInv` says
which claims, by the place of the focused step, have had theirs. `ReducedInv` is the
three properties: they hold when the gate has run and nothing changes the claims
after it.

*The retries.* `RetryInv`: a same-evidence request was sent only after the run
recorded it, and the record outlives the pass.

*The handoff.* `ReadInv`: what is on disk is in the history of its file, and a source
was kept only if it had the verified text at the second read. The gaps and the shape
need no history, only that claims of a task have distinct ids and goals a name
(`LedgerInv`): an accepted claim always has an item the caller can be shown, and a
state without gaps is reached only when nothing is unresolved.

*The turn loop.* `BatchInv`: workers take calls in order, so the queue is always the
rest of the reply, and a file that was opened stays in `selected` until the batch is
over. `BreakInv`: the error counter is the length of the run of failures that ends the
history, and when it is two the last turn was warned. `StagInv`: between turns the
stagnation counter is 0 or 1 and says whether the last turn repeated the plan of the
turn before it without a warning. A plan is a reply's calls in any order; the proof
counts positions to show that the fingerprint tells another plan.

*The budgets.* No budget is inductive: a turn decides what it offers before it is
known what the calls leave. `BudgetInv` therefore has two sides. `SpentInv` says what
was searched and read so far, by mode; `Fits` (`OfferInv`) that what the policy of a
turn under way offers was still to be had when the turn began, one search at a time.
`ObservationsInv` gives the shape of the observations, `CallsInv` ties results to the
calls of the batch, and `RoundsInv` counts a turn that reads before it reads. The
proof goes mode by mode through what each policy may offer, and then over the one
batch step all modes share.

*The closed tools.* `ClosedInv`: a policy that withdrew the tools would withdraw them
again. The calls a model makes all the same are refused, and a refused search is
recorded as one without matches; the proof shows for each policy that such
observations, and one more read round, change nothing it decides by.

*The ends.* The liveness properties have a safety half that needs no fairness: a
number of steps left, or a lexicographic rank, that every step decreases. It is proved
for the ledger, the plan, the claims, the turn loop, the provider call and the parse
loop, with the bound in terms of the constants. In the ledger the only way back is
the repair round, taken once; in the turn loop every way from a request to the next
passes the turn counter; an attempt of a provider is a request and a delay; a parse
round that goes on consumes at least a symbol, unless its length overreaches. For the
claims the components of the rank are the pass, its part, the batch, the focused step,
what is still to be asked about its claim, and the attempt; `ComesCloser` names the one
that falls. What is left to fairness is that the steps are taken at all.

*Induction.* The library's induction theorems take an operator as a parameter, and
the provers cannot use the folds and the recursive operators of the community
modules. Where a proof needs induction, it looks at a least counterexample instead:
the set of the lengths of prefixes, or of chains of merges, for which a lemma fails is
a set of naturals, and its least element leads to a contradiction. What the code
computes in a loop is written as a recursive function on such lengths, or without
recursion, wherever a proof looks inside it.

Only model-checked: liveness (`Termination`, `OnlyOverreachWedges`, `EveryCallIsAnswered`,
`ShutdownCompletes`, `Settles`, `Returns`), which needs fairness and `ENABLED` that the
prover does not treat. Of `EveryCallIsAnswered` and `ShutdownCompletes` no bound is
proved either: the notifications and signals of the client are its own.

## 5. Not modelled

Prompt texts, JSON schemas, symbol extraction, redaction, path deny lists and the
transcript are data or I/O around the state above. Benchmarks, scripts and client
integrations are not part of the server. A crash loses the process and all its
state with it. The tool batch of the repair round (`runtime.mjs:5443-5681`) appears
as one step of `GoalLedger`, `RepairRound`, with its effect on the state; the choice
of the one follow-up (`coverage.mjs:2277-2327`) decides nothing else. What each module leaves out of the code
it models is said in its section above.

## 6. Plan

Done, in this order: `GoalLedger` with `ExploreContract`, `McpSession`, `ProviderCall`,
`StdioFraming`, `TurnLoop`, `RepoTools`, `PlanAudit`, `ClaimPass`, `Handoff`, and the
proofs of section 4. Left: the repair round's own tool batch, which shares the batch
of `TurnLoop` under another budget.
