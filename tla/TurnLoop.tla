------------------------------- MODULE TurnLoop -------------------------------
(***************************************************************************)
(* The turn loop of one explore() call, src/explorer/runtime.mjs: a turn   *)
(* asks the model for tool calls under a tool policy, runs them as a       *)
(* batch of at most Concurrency, records what they observed and decides    *)
(* whether to go on; the loop ends in a synthesis.  The wrapper tools run  *)
(* under a bounded policy, a function of the observations made so far      *)
(* that says which tools and which files the next turn may use.            *)
(***************************************************************************)
EXTENDS Integers, Sequences, FiniteSets, SequencesExt

CONSTANTS
  Modes,          \* the policies to check, a subset of AllModes
  Paths,          \* files of the repository
  Impl,           \* those with the source role "implementation"; the rest are tests
  Rank,           \* preference among files, from the task's words and the path
  Spread,         \* files whose matches do not fit one bounded range
  Boundary,       \* files whose source declares a symbol worth following
  Known,          \* files the caller names as anchors
  MaxTurns,       \* runtimeConfig.maxTurns, for the explorations of each mode
  MaxCalls,       \* bound: calls the model makes in one turn
  Concurrency,    \* TOOL_CONCURRENCY
  EndpointReads   \* files that count as a multi-file path boundary, 3 in the code

AllModes == {"free", "locate", "trace", "impact", "structured", "path", "anchored",
             "commit", "metadata", "claim"}

ASSUME TurnLoopAssumption ==
  /\ Modes \subseteq AllModes
  /\ IsFiniteSet(Paths) /\ Impl \subseteq Paths
  /\ Rank \in [Paths -> Nat]
  /\ \A p, q \in Paths : Rank[p] = Rank[q] => p = q
  /\ Spread \subseteq Paths /\ Boundary \subseteq Paths /\ Known \subseteq Paths
  /\ MaxTurns \in [Modes -> Nat] /\ MaxCalls \in Nat \ {0}
  /\ Concurrency \in Nat \ {0} /\ EndpointReads \in Nat

Tools == {"grep", "symbol", "show", "read"}
Keys == {"impact_category_search", "impact_category_read", "path_initial_search",
         "path_known_anchor_reads", "path_anchor_reads", "path_handoff_reads",
         "path_handoff_search", "claim_direct_linkage_read"}
NoKey == "none"
NoPath == "no path"

MaxConsecutiveErrorTurns == 3
ErrorRecoveryGuidanceTurns == 2
MaxReadRounds == 2       \* locate, trace and impact alike
MaxPathReadRounds == 3

VARIABLES
  mode,        \* which policy the task and its hints select
  phase,       \* "head", "asked", "batch", "synthesis", "repair", "closing", "ended"
  turn,        \* turnIndex
  policy,      \* turnToolPolicy, fixed when the turn begins
  observations,
  readRounds,  \* turns whose reply asked for a read
  attempted,   \* attemptedActions holds a repo_git_show
  retried,     \* retriedRequiredToolPolicies
  calls,       \* toolCalls of the turn
  queued,      \* calls no worker has taken yet
  active,      \* calls whose tool runs
  selected,    \* selectedReadPaths
  results,     \* toolCallResults, by position
  lastCalls,   \* the calls behind lastFingerprint
  repeatedTurns,
  errorTurns,  \* consecutiveAllErrorTurns
  aborted,     \* abortSignal.aborted
  exit,        \* why the loop ended, then the outcome of the call
  \* history, for the properties only
  repeats,     \* the calls of the turn are those of the tool turn before
  recent,      \* the last three turns with tool calls
  readTurns    \* turns in which a read tool ran

loopVars == <<mode, turn, policy, observations, readRounds, attempted, retried>>
batchVars == <<calls, queued, active, selected, results>>
countVars == <<lastCalls, repeatedTurns, errorTurns>>
history == <<repeats, recent, readTurns>>
vars == <<phase, aborted, exit, loopVars, batchVars, countVars, history>>

-----------------------------------------------------------------------------
(* Observations.  Every call on a repository tool leaves a search           *)
(* observation, a failed or rejected one too: it then matches nothing.      *)
(* "full" says, of a search, that its arguments were known (they are not    *)
(* when the name was refused or the arguments did not parse), and of a      *)
(* source, that the range spans every match the file has in one window.     *)

Observation(kind, paths, full) == [kind |-> kind, paths |-> paths, full |-> full]

ObservationsOf(call, result) ==
  CASE call.tool = "read" ->
         IF result.error THEN <<>> ELSE <<Observation("source", result.paths, result.full)>>
    [] call.tool = "grep" -> <<Observation("grep", result.paths, result.full)>>
    [] call.tool = "symbol" ->
         (IF result.error \/ result.paths = {} THEN <<>>
          ELSE <<Observation("source", result.paths, FALSE)>>)
         \o <<Observation("symbol", result.paths, result.full)>>
    [] OTHER ->
         IF result.error THEN <<>> ELSE <<Observation("commit", result.paths, TRUE)>>

\* Positions of the observations of a kind, and the files these, or the last of
\* them, matched
Of(kind, seq) == {i \in DOMAIN seq : seq[i].kind = kind}
Greps(seq) == Of("grep", seq)
Sources(seq) == Of("source", seq)
PathsAt(at, seq) == UNION {seq[i].paths : i \in at}
LastPaths(at, seq) == seq[Max(at)].paths

PathsOf(seq) == PathsAt(DOMAIN seq, seq)
ReadPaths(seq) == PathsAt(Sources(seq), seq)
FullReads(p, seq) ==
  Cardinality({i \in DOMAIN seq : seq[i].kind = "source" /\ seq[i].full /\ p \in seq[i].paths})
\* A file was read after the last search
ReadSince(seq) == \E i \in Sources(seq) : \A j \in Greps(seq) : j < i

\* The n preferred members of S
Top(S, n) == {p \in S : Cardinality({q \in S : Rank[q] < Rank[p]}) < n}

RankedCandidates(seq, implLimit, testLimit) ==
  Top(PathsOf(seq) \cap Impl, implLimit) \cup Top(PathsOf(seq) \ Impl, testLimit)

-----------------------------------------------------------------------------
(* Tool policies *)

Policy(tools, parallel, key, listed, fixed, within, why) ==
  [tools |-> tools, parallelToolCalls |-> parallel, requiredToolCallKey |-> key,
   allowedReadPaths |-> listed, bounded |-> tools = {"read"}, fixed |-> fixed,
   within |-> within, why |-> why]

\* fixed: which arguments of a read the runtime overwrites with its own
FreePolicy == Policy(Tools, TRUE, NoKey, {}, "none", {}, "open")
Search(tool, key) == Policy({tool}, FALSE, key, {}, "none", Paths, "open")
SearchWithin(tool, key, S) == Policy({tool}, FALSE, key, {}, "none", S, "open")
ReadEach(S, key) == Policy({"read"}, TRUE, key, S, "none", {}, "open")
ReadRanges(S, key) == Policy({"read"}, TRUE, key, S, "range", {}, "open")
ReadOne(S, key) == Policy({"read"}, FALSE, key, S, "path and range", {}, "open")
Finalize(why) == Policy({}, FALSE, NoKey, {}, "none", {}, why)

\* Mutant: the files already read stay candidates
LocateRereads(seq, rounds) ==
  LET searches == Greps(seq)
      candidates == RankedCandidates(seq, 1, 1)
  IN  CASE searches = {} -> Search("grep", NoKey)
        [] searches # {} /\ LastPaths(searches, seq) = {} -> Finalize("no candidate")
        [] OTHER -> IF candidates = {} \/ rounds >= MaxReadRounds
                    THEN Finalize("done")
                    ELSE ReadEach(candidates, NoKey)

LocatePolicy(seq, rounds) ==
  LET searches == Greps(seq)
      candidates == RankedCandidates(seq, 1, 1) \ ReadPaths(seq)
  IN  CASE searches = {} -> Search("grep", NoKey)
        [] searches # {} /\ LastPaths(searches, seq) = {} -> Finalize("no candidate")
        [] OTHER -> IF candidates = {} \/ rounds >= MaxReadRounds
                    THEN Finalize("done")
                    ELSE ReadEach(candidates, NoKey)

\* The files of a search with a match no bounded range has covered yet
Unread(paths, seq) == {p \in paths : FullReads(p, seq) = 0}

TracePolicy(seq, rounds) ==
  LET definitions == {i \in Of("symbol", seq) : seq[i].full}
      usages == {i \in Greps(seq) : seq[i].full}
      unread == Unread(LastPaths(usages, seq), seq)
  IN  CASE definitions = {} -> Search("symbol", NoKey)
        [] definitions # {} /\ usages = {} -> Search("grep", NoKey)
        [] OTHER -> IF LastPaths(usages, seq) = {} THEN Finalize("no candidate")
                    ELSE IF unread = {} \/ rounds >= MaxReadRounds THEN Finalize("done")
                    ELSE ReadEach(unread, NoKey)

\* fixed: the task asks about structured output, so the patterns are the code's own
ImpactPolicy(seq, rounds, fixed) ==
  LET searches == Greps(seq)
      after == ReadSince(seq)
      implementationObserved == ReadPaths(seq) \cap Impl # {}
      categoryReadPhase == fixed /\ Cardinality(searches) > 1 /\ implementationObserved
      candidates == (RankedCandidates(seq, 3, 1) \ ReadPaths(seq))
                    \ (IF categoryReadPhase THEN Impl ELSE {})
      moreImplementation == /\ ~implementationObserved
                            /\ candidates \cap Impl # {}
                            /\ rounds < MaxReadRounds
      finished == after /\ ~moreImplementation
                  /\ (candidates = {} \/ rounds >= MaxReadRounds)
  IN  CASE searches = {} ->
             SearchWithin("grep", NoKey, IF fixed THEN Impl ELSE Paths)
        [] searches # {} /\ LastPaths(searches, seq) = {} -> Finalize("no candidate")
        [] OTHER ->
             IF fixed /\ Cardinality(searches) = 1 /\ after
             THEN SearchWithin("grep", "impact_category_search", Paths \ Impl)
             ELSE IF after /\ ~moreImplementation /\ Cardinality(searches) = 1
                     /\ ~implementationObserved
             THEN Search("grep", NoKey)
             ELSE IF finished THEN Finalize("done")
             ELSE IF candidates = {} THEN Finalize("no candidate")
             ELSE ReadEach(candidates, IF fixed /\ Cardinality(searches) > 1
                                       THEN "impact_category_read" ELSE NoKey)

\* Source was read that declares a symbol, and no search has followed one yet
HandoffDue(seq, discoveryFirst) ==
  LET searches == Greps(seq) IN
  /\ Sources(seq) # {}
  /\ searches = {} \/ (Cardinality(searches) = 1 /\ discoveryFirst)
  /\ ReadPaths(seq) \cap Boundary # {}

\* known: the request has no search words but names files; otherwise it has at
\* least two of them
PathPolicy(seq, rounds, known) ==
  LET searches == Greps(seq)
      sources == Sources(seq)
      unread == Unread(LastPaths(searches, seq), seq) \cap Impl
      readFirst == {i \in sources : \A j \in searches : i < j}
      discoveryFirst == searches # {} /\ PathsAt(readFirst, seq) = {}
      endpoints == IF discoveryFirst THEN ReadPaths(seq) ELSE {}
  IN  CASE searches = {} /\ sources = {} ->
             IF ~known THEN Search("grep", "path_initial_search")
             ELSE IF rounds > 0 THEN Finalize("tried")
             ELSE ReadEach(Known, "path_known_anchor_reads")
        [] searches # {} /\ LastPaths(searches, seq) = {} -> Finalize("no candidate")
        [] OTHER ->
             IF searches # {} /\ unread # {} /\ rounds < MaxPathReadRounds
             THEN ReadRanges(unread, IF Cardinality(searches) = 1 THEN "path_anchor_reads"
                                     ELSE "path_handoff_reads")
             ELSE IF Cardinality(searches) = 1 /\ Cardinality(endpoints) >= EndpointReads
             THEN Finalize("done")
             ELSE IF HandoffDue(seq, discoveryFirst) THEN Search("grep", "path_handoff_search")
             ELSE Finalize("done")

\* The preferred implementation file of the commit and a test, or the two
\* preferred files when the commit has no implementation file
CommitCandidates(paths) ==
  LET primary == Top(paths \cap Impl, 1)
      others == IF primary = {} THEN Top(paths, 2)
                ELSE IF paths \ Impl # {} THEN Top(paths \ Impl, 1)
                ELSE Top(paths \ primary, 1)
  IN  primary \cup others

\* hunks: the question is about what the commit changed, not about its metadata
ExactCommitPolicy(seq, shown, hunks) ==
  LET commits == Of("commit", seq)
      candidates == CommitCandidates(PathsAt(commits, seq))
  IN  IF commits = {} THEN IF shown THEN Finalize("tried") ELSE Search("show", NoKey)
      ELSE IF ~hunks \/ Sources(seq) # {} THEN Finalize("done")
      ELSE IF candidates = {} THEN Finalize("no candidate")
      ELSE ReadEach(candidates, NoKey)

\* The preferred file of S with a match no bounded range has covered yet
StrongestUnread(S, seq) ==
  Top({p \in S \cap Impl : FullReads(p, seq) < IF p \in Spread THEN 2 ELSE 1}, 1)

DirectPolicy(seq) ==
  LET searches == Greps(seq)
      candidate == Top(PathsOf(seq) \cap Impl, 1)
  IN  CASE searches = {} ->
             Policy({"grep", "read"}, FALSE, NoKey, {}, "none", Paths, "open")
        [] searches # {} /\ LastPaths(searches, seq) # {} ->
             IF candidate = {} THEN Finalize("no candidate")
             ELSE ReadOne(candidate, NoKey)
        [] OTHER -> IF Cardinality(searches) = 1 THEN Search("grep", NoKey)
                    ELSE Finalize("no candidate")

\* Reads of implementation files
Direct(seq) == {i \in Sources(seq) : seq[i].paths \cap Impl # {}}

\* Mutant: the confirming cross-check is offered after any empty search
ClaimReopens(seq) ==
  LET direct == Direct(seq)
      counter == {i \in Greps(seq) : \E j \in direct : j < i}
      exception == StrongestUnread(LastPaths(counter, seq), seq)
  IN  IF direct = {} THEN DirectPolicy(seq)
      ELSE IF counter = {} THEN Search("grep", NoKey)
      ELSE IF LastPaths(counter, seq) # {} /\ ~ReadSince(seq)
      THEN IF exception = {} THEN Finalize("done") ELSE ReadOne(exception, NoKey)
      ELSE IF LastPaths(counter, seq) = {} THEN Search("grep", NoKey)
      ELSE Finalize("done")

ClaimPolicy(seq) ==
  LET direct == Direct(seq)
      before == {i \in Greps(seq) : seq[i].paths # {} /\ \A j \in direct : i < j}
      linkage == IF Cardinality(direct) = 1 /\ before # {}
                 THEN StrongestUnread(LastPaths(before, seq) \cap PathsAt(direct, seq), seq)
                 ELSE {}
      counter == {i \in Greps(seq) : \E j \in direct : j < i}
      exception == StrongestUnread(LastPaths(counter, seq), seq)
  IN  IF direct = {} THEN DirectPolicy(seq)
      ELSE IF linkage # {} THEN ReadOne(linkage, "claim_direct_linkage_read")
      ELSE IF counter = {} THEN Search("grep", NoKey)
      ELSE IF LastPaths(counter, seq) # {} /\ ~ReadSince(seq)
      THEN IF exception = {} THEN Finalize("done") ELSE ReadOne(exception, NoKey)
      ELSE IF Cardinality(counter) = 1 /\ LastPaths(counter, seq) = {} THEN Search("grep", NoKey)
      ELSE Finalize("done")

TurnPolicy ==
  CASE mode = "claim"      -> ClaimPolicy(observations)
    [] mode = "impact"     -> ImpactPolicy(observations, readRounds, FALSE)
    [] mode = "structured" -> ImpactPolicy(observations, readRounds, TRUE)
    [] mode = "locate"     -> LocatePolicy(observations, readRounds)
    [] mode = "trace"      -> TracePolicy(observations, readRounds)
    [] mode = "path"       -> PathPolicy(observations, readRounds, FALSE)
    [] mode = "anchored"   -> PathPolicy(observations, readRounds, Known # {})
    [] mode = "commit"     -> ExactCommitPolicy(observations, attempted, TRUE)
    [] mode = "metadata"   -> ExactCommitPolicy(observations, attempted, FALSE)
    [] OTHER               -> FreePolicy

-----------------------------------------------------------------------------
(* The model's replies: a call names a tool and, for a read, a file and     *)
(* whether its range is wide enough; "good" is that its arguments parse.    *)

Call(tool, path, wide, good) == [tool |-> tool, path |-> path, wide |-> wide, good |-> good]

\* Bounds on the calls: of those that are refused alike, or that the free policy
\* tells apart in nothing, one stands for all; only matches spread over a file
\* can be missed by a range; and only an offered tool of a bounded policy has
\* arguments that matter
SearchTools == CASE mode = "trace" -> IF policy.tools = {"symbol"} THEN {"symbol"} ELSE {"grep"}
                 [] mode \in {"commit", "metadata"} -> {"show"}
                 [] OTHER -> {"grep"}
ReadChoices == IF policy.tools = {"grep", "read"} THEN Paths
               ELSE policy.allowedReadPaths \cup Top(Paths \ policy.allowedReadPaths, 1)
Parses == IF mode # "free" /\ SearchTools \subseteq policy.tools THEN BOOLEAN ELSE {TRUE}
Ranges(p) == IF p \in Spread /\ mode \in {"trace", "anchored"} THEN BOOLEAN ELSE {TRUE}
PossibleCalls ==
  (UNION {{Call(t, NoPath, TRUE, g) : g \in Parses} : t \in SearchTools})
  \cup (UNION {{Call("read", p, w, TRUE) : w \in Ranges(p)} : p \in ReadChoices})

\* parallel_tool_calls: false is the provider's to honour
Replies == UNION {[1 .. n -> PossibleCalls] :
                    n \in 0 .. IF policy.parallelToolCalls THEN MaxCalls ELSE 1}

\* The file a read is about to open, the runtime's own choice included
Target(call) == IF policy.fixed = "path and range" THEN CHOOSE p \in policy.allowedReadPaths : TRUE
                ELSE call.path

\* Mutant: the files of the batch are not remembered
RejectedByPathOnly(call) ==
  \/ call.tool \notin policy.tools
  \/ ~call.good
  \/ policy.bounded /\ Target(call) \notin policy.allowedReadPaths

Rejected(call) ==
  \/ call.tool \notin policy.tools
  \/ ~call.good
  \/ /\ policy.bounded
     /\ \/ Target(call) \notin policy.allowedReadPaths
        \/ Target(call) \in selected

Pending == [error |-> FALSE, paths |-> {}, full |-> FALSE, pending |-> TRUE]
Result(error, paths, full) ==
  [error |-> error, paths |-> paths, full |-> full, pending |-> FALSE]
Done(i) == ~results[i].pending

\* What a tool that runs may return; no policy looks at which file defines a symbol
Outcomes(call) ==
  {Result(TRUE, {}, TRUE)} \cup
  CASE call.tool = "read" ->
         {Result(FALSE, {Target(call)}, call.wide \/ policy.fixed # "none")}
    [] call.tool = "symbol" -> {Result(FALSE, S, TRUE) : S \in {{}, Top(Paths, 1)}}
    [] call.tool = "show" -> {Result(FALSE, S, TRUE) : S \in SUBSET Paths}
    [] OTHER -> {Result(FALSE, S, TRUE) : S \in SUBSET policy.within}

\* Mutant: the calls in the order of the reply
OrderedFingerprint(seq) == seq

\* fingerprintToolCalls: the calls of a turn, whatever their order
Fingerprint(seq) ==
  [c \in ToSet(seq) |-> Cardinality({i \in DOMAIN seq : seq[i] = c})]

-----------------------------------------------------------------------------
Init ==
  /\ mode \in Modes
  /\ phase = "head" /\ turn = 0 /\ policy = FreePolicy
  /\ observations = <<>> /\ readRounds = 0 /\ attempted = FALSE /\ retried = {}
  /\ calls = <<>> /\ queued = {} /\ active = {} /\ selected = {} /\ results = <<>>
  /\ lastCalls = <<>> /\ repeatedTurns = 0 /\ errorTurns = 0
  /\ aborted = FALSE /\ exit = "none"
  /\ repeats = FALSE /\ recent = <<>> /\ readTurns = 0

Leave(why) == phase' = "closing" /\ exit' = why

\* The top of the loop.  An abort is noticed here; otherwise the policy is
\* fixed and the request sent before anything else can run.
BeginTurn ==
  /\ phase = "head" /\ turn < MaxTurns[mode]
  /\ IF aborted THEN Leave("cancelled") /\ UNCHANGED policy
     ELSE phase' = "asked" /\ policy' = TurnPolicy /\ UNCHANGED exit
  /\ UNCHANGED <<aborted, mode, turn, observations, readRounds, attempted, retried,
                 batchVars, countVars, history>>

\* The loop runs out of turns and synthesises without looking at the signal
TurnLimit ==
  /\ phase = "head" /\ turn = MaxTurns[mode]
  /\ phase' = "synthesis"
  /\ UNCHANGED <<aborted, exit, loopVars, batchVars, countVars, history>>

CountsReads == mode \in {"locate", "trace", "impact", "structured", "path", "anchored"}

\* History: the same calls, compared without the fingerprint
SamePlan(s, t) == /\ Len(s) = Len(t)
                  /\ \A i \in DOMAIN s : Cardinality({j \in DOMAIN s : s[j] = s[i]}) =
                                         Cardinality({j \in DOMAIN t : t[j] = s[i]})

\* A reply with tool calls: the plan is compared with the last one, then run
ToolReply(reply) ==
  /\ phase = "asked" /\ ~aborted
  /\ reply # <<>>
  /\ phase' = "batch"
  /\ readRounds' = readRounds +
       IF CountsReads /\ \E i \in DOMAIN reply : reply[i].tool = "read" THEN 1 ELSE 0
  /\ repeatedTurns' = IF Fingerprint(reply) = Fingerprint(lastCalls)
                      THEN repeatedTurns + 1 ELSE 0
  /\ lastCalls' = reply
  /\ repeats' = SamePlan(reply, lastCalls)
  /\ calls' = reply /\ queued' = DOMAIN reply
  /\ active' = {} /\ selected' = {} /\ results' = [i \in DOMAIN reply |-> Pending]
  /\ UNCHANGED <<aborted, exit, mode, turn, policy, observations, attempted, retried,
                 errorTurns, recent, readTurns>>

\* A reply without tool calls: the first refusal of a required step is
\* answered with a reminder, any other one leads to the synthesis
TextReply ==
  /\ phase = "asked" /\ ~aborted
  /\ LET key == policy.requiredToolCallKey
     IN  IF key # NoKey /\ key \notin retried
         THEN /\ retried' = retried \cup {key}
              /\ turn' = turn + 1 /\ phase' = "head"
         ELSE phase' = "synthesis" /\ UNCHANGED <<retried, turn>>
  /\ UNCHANGED <<aborted, exit, mode, policy, observations, readRounds, attempted,
                 batchVars, countVars, repeats, recent, readTurns>>

-----------------------------------------------------------------------------
(* The batch: each of Concurrency workers takes the first queued call,      *)
(* checks it and starts its tool without yielding; a worker whose call is   *)
(* rejected takes the next one.                                             *)

MayStart == queued # {} /\ Cardinality(active) < Concurrency
NextCall == CHOOSE i \in queued : \A j \in queued : i <= j

StartCall ==
  /\ phase = "batch" /\ MayStart
  /\ LET i == NextCall IN
     /\ queued' = queued \ {i}
     /\ IF Rejected(calls[i])
        THEN /\ results' = [results EXCEPT ![i] = Result(TRUE, {}, FALSE)]
             /\ UNCHANGED <<active, selected>>
        ELSE /\ active' = active \cup {i}
             /\ selected' = IF policy.bounded THEN selected \cup {Target(calls[i])}
                            ELSE selected
             /\ UNCHANGED results
  /\ UNCHANGED <<phase, aborted, exit, loopVars, calls, countVars, history>>

\* A tool returns or throws; tools are not given the signal
FinishCall(i, result) ==
  /\ phase = "batch" /\ ~MayStart
  /\ i \in active
  /\ result \in Outcomes(calls[i])
  /\ active' = active \ {i}
  /\ results' = [results EXCEPT ![i] = result]
  /\ UNCHANGED <<phase, aborted, exit, loopVars, calls, queued, selected, countVars, history>>

-----------------------------------------------------------------------------
(* The end of a turn *)

\* Mutant: a batch with a failed call never settles
BatchSettles == phase = "batch" /\ queued = {} /\ active = {} /\ \A i \in DOMAIN results : ~results[i].error
BatchDone == phase = "batch" /\ queued = {} /\ active = {}
Ran(i) == ~results[i].error \/ results[i].full      \* callTool was reached
AllErrors == \A i \in DOMAIN results : results[i].error
\* Mutant: a turn that worked does not reset the count
ErrorTurnsAddUp == IF AllErrors THEN errorTurns + 1 ELSE errorTurns
NextErrorTurns == IF AllErrors THEN errorTurns + 1 ELSE 0
Breaks == NextErrorTurns >= MaxConsecutiveErrorTurns
\* Mutant: only errors bring a warning
Guides == \/ repeatedTurns >= 2
          \/ NextErrorTurns >= ErrorRecoveryGuidanceTurns

\* History: what the turn was
Turn == [repeats |-> repeats, failed |-> AllErrors, guided |-> ~Breaks /\ Guides]
LastThree(seq) == IF Len(seq) > 3 THEN Tail(seq) ELSE seq

\* What the calls leave, in the order of the reply, after what was observed before
Recorded(seq) ==
  LET upto[n \in 0 .. Len(calls)] ==
        IF n = 0 THEN seq ELSE upto[n - 1] \o ObservationsOf(calls[n], results[n])
  IN  upto[Len(calls)]

\* Bound: observations are kept only where a policy reads them
RecordBatch ==
  /\ BatchDone
  /\ observations' = IF mode = "free" THEN observations ELSE Recorded(observations)
  /\ attempted' = (attempted \/ \E i \in DOMAIN calls : calls[i].tool = "show" /\ Ran(i))
  /\ errorTurns' = NextErrorTurns
  /\ repeatedTurns' = IF ~Breaks /\ Guides THEN 0 ELSE repeatedTurns
  /\ IF Breaks THEN Leave("errors") /\ UNCHANGED turn
     ELSE phase' = "head" /\ turn' = turn + 1 /\ UNCHANGED exit
  /\ recent' = LastThree(Append(recent, Turn))
  /\ readTurns' = readTurns +
       IF \E i \in DOMAIN calls : calls[i].tool = "read" /\ Ran(i) THEN 1 ELSE 0
  /\ calls' = <<>> /\ results' = <<>> /\ selected' = {} /\ repeats' = FALSE
  /\ UNCHANGED <<aborted, mode, policy, readRounds, retried, queued, active, lastCalls>>

-----------------------------------------------------------------------------
(* finalizeAfterToolLoop: one synthesis, one repair, then a control failure *)

Synthesized(parsed) ==
  /\ phase \in {"synthesis", "repair"} /\ ~aborted
  /\ IF parsed THEN Leave("answered")
     ELSE IF phase = "synthesis" THEN phase' = "repair" /\ UNCHANGED exit
     ELSE Leave("invalid")
  /\ UNCHANGED <<aborted, loopVars, batchVars, countVars, history>>

\* The provider gives up, or the signal rejects the request
RequestFails ==
  /\ phase \in {"asked", "synthesis", "repair"}
  /\ Leave(IF aborted THEN "cancelled" ELSE "provider")
  /\ UNCHANGED <<aborted, loopVars, batchVars, countVars, history>>

\* The commit point: cancellation has precedence until here
Commit ==
  /\ phase = "closing"
  /\ phase' = "ended"
  /\ exit' = IF aborted THEN "cancelled" ELSE exit
  /\ UNCHANGED <<aborted, loopVars, batchVars, countVars, history>>

\* The caller's signal, raised while the loop awaits something
Awaits == \/ phase \in {"asked", "synthesis", "repair", "closing"}
          \/ phase = "batch" /\ ~MayStart
Abort ==
  /\ Awaits /\ ~aborted
  /\ aborted' = TRUE
  /\ UNCHANGED <<phase, exit, loopVars, batchVars, countVars, history>>

Step ==
  \/ BeginTurn \/ TurnLimit
  \/ \E reply \in Replies : ToolReply(reply)
  \/ TextReply
  \/ StartCall
  \/ \E i \in active : \E result \in Outcomes(calls[i]) : FinishCall(i, result)
  \/ RecordBatch
  \/ \E parsed \in BOOLEAN : Synthesized(parsed)
  \/ RequestFails
  \/ Commit

Next == Step \/ Abort

\* Requests settle, tools return and the loop is never suspended for ever
Spec == Init /\ [][Next]_vars /\ WF_vars(Step)

-----------------------------------------------------------------------------
(* Properties *)

TypeOK ==
  /\ mode \in Modes /\ turn \in 0 .. MaxTurns[mode] /\ readRounds \in 0 .. MaxTurns[mode]
  /\ phase \in {"head", "asked", "batch", "synthesis", "repair", "closing", "ended"}
  /\ policy.tools \subseteq Tools /\ policy.allowedReadPaths \subseteq Paths
  /\ retried \subseteq Keys
  /\ calls \in Seq([tool : Tools, path : Paths \cup {NoPath}, wide : BOOLEAN, good : BOOLEAN])
  /\ queued \cup active \subseteq DOMAIN calls /\ queued \cap active = {}
  /\ DOMAIN results = DOMAIN calls /\ selected \subseteq Paths
  /\ repeatedTurns \in 0 .. 2 /\ errorTurns \in 0 .. MaxConsecutiveErrorTurns
  /\ exit \in {"none", "answered", "cancelled", "errors", "invalid", "provider"}

\* A read of the batch whose tool runs or has run
Opened(i) == calls[i].tool = "read" /\ (i \in active \/ (Done(i) /\ Ran(i)))

\* In a bounded turn the calls of a batch, which start and end in any order,
\* open only files the policy lists and none of them twice, and each result is
\* that of its own call (runWithConcurrency and selectedReadPaths).
BatchKeepsThePolicy ==
  /\ policy.bounded =>
       \A i, j \in DOMAIN calls :
         Opened(i) => /\ Target(calls[i]) \in policy.allowedReadPaths
                      /\ Opened(j) /\ i # j => Target(calls[i]) # Target(calls[j])
  /\ \A i \in DOMAIN calls :
       calls[i].tool = "read" /\ results[i].paths # {} => results[i].paths = {Target(calls[i])}

Executed(kind) == Cardinality({i \in Of(kind, observations) : observations[i].full})
Windows(p) == IF mode = "claim" /\ p \in Spread THEN 2 ELSE 1

\* The wrapper tools search and read a bounded number of times over all turns,
\* whatever the model asks for and whichever of its calls fail, and no window of
\* a file is read twice: what was observed leaves the candidates, and a file
\* whose matches need two windows is read twice by the claim check alone.
BudgetsHold ==
  /\ mode # "free" => \A p \in Impl : FullReads(p, observations) <= Windows(p)
  /\ mode \in {"locate", "trace"} =>
       Executed("grep") <= 1 /\ Executed("symbol") <= 1 /\ readTurns <= MaxReadRounds
  /\ mode \in {"impact", "structured", "path", "anchored"} => Executed("grep") <= 2
  /\ mode \in {"path", "anchored"} => readTurns <= MaxPathReadRounds
  /\ mode \in {"commit", "metadata"} =>
       Executed("commit") <= 1 /\ Cardinality(Sources(observations)) <= 2
  /\ mode = "claim" => Executed("grep") <= 4

\* Once a bounded policy withdraws the tools it never offers one again: calls
\* made in spite of it are recorded, and none of them reopens the exploration.
ClosedStaysClosed == [][policy.tools = {} => policy'.tools = {}]_vars

\* The circuit breaker opens exactly at the third failed tool turn in a row,
\* and the model was warned after the second, although a warning resets the
\* repetition counter and reminders and repeated plans come in between.
BreakerIsTight ==
  LET broken == Len(recent) = 3 /\ \A i \in 1 .. 3 : recent[i].failed IN
  /\ phase = "closing" /\ exit = "errors" => broken /\ recent[2].guided
  /\ broken => phase \in {"closing", "ended"}

\* A plan repeated three times without a warning brings one, and a warning
\* has that reason or two failed turns in a row.  The order of the calls in a
\* reply does not make it another plan.
StagnationIsAnswered ==
  LET thrice == Len(recent) = 3 /\ recent[2].repeats /\ recent[3].repeats
      failedTwice == Len(recent) >= 2 /\ recent[Len(recent)].failed
                     /\ recent[Len(recent) - 1].failed
  IN  recent # <<>> =>
        /\ thrice /\ ~recent[1].guided /\ ~recent[2].guided =>
             recent[3].guided \/ phase \in {"closing", "ended"}
        /\ recent[Len(recent)].guided => thrice \/ failedTwice

\* Every exploration ends: reminders, warnings and rejected calls all use up a turn
Returns == <>(phase = "ended")
===============================================================================
