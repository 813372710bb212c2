---------------------------- MODULE ProviderCall ----------------------------
(***************************************************************************)
(* One createChatCompletion: the retry loop of                             *)
(* src/explorer/utils/http-client.mjs inside each provider, and the chain  *)
(* of providers of src/explorer/providers/failover.mjs.                    *)
(*                                                                         *)
(* Timers and responses are events of a single-threaded event loop: what   *)
(* an event settles runs through every awaiting caller before the next     *)
(* event, so one action goes from the event to the next request, the next  *)
(* wait or the outcome.  Delays and timeouts may elapse at any time.       *)
(* The providers are configured: ensureConfigured does not throw.          *)
(***************************************************************************)
EXTENDS Naturals, FiniteSets

CONSTANTS
  Providers,   \* number of providers of the chain
  MaxRetries,  \* maxRetries
  Failover     \* FALSE: a single provider without the failover client's timer

ASSUME ProviderAssumption ==
  /\ Providers \in Nat \ {0}
  /\ MaxRetries \in Nat
  /\ Failover \in BOOLEAN
  /\ ~Failover => Providers = 1

VARIABLES
  stage,     \* "fetching", "delay" (waitForRetryDelay) or "settled"
  provider,  \* whose turn it is
  attempt,   \* 0-based attempt of its retry loop
  open,      \* HTTP requests still running, whoever waits for them
  sent,      \* HTTP requests made to each provider
  final,     \* providers that must not be asked again in this call
  cancelled, \* the caller's signal
  outcome,   \* "pending", "answer", "aborted", "failed"
  error      \* the error thrown last: its kind and attemptCount

vars == <<stage, provider, attempt, open, sent, final, cancelled, outcome, error>>

-----------------------------------------------------------------------------
Chain == 1..Providers
Request == [provider : Chain, attempt : 0..MaxRetries]
Current == [provider |-> provider, attempt |-> attempt]

\* What the provider can still send back, sorted by what the code does with it.
Retryable == {"busy_status", "network"}
Terminal == {"bad_status", "network_other", "not_json", "no_message"}

\* annotateProviderFailure; errors thrown without it carry no count.
Error(kind, count) == [kind |-> kind, attempts |-> count]
Annotated == {"busy_status", "network", "timeout", "bad_status", "network_other"}
Failure(kind) == Error(kind, IF kind \in Annotated THEN attempt + 1 ELSE 0)

Init ==
  /\ stage = "fetching"
  /\ provider = 1
  /\ attempt = 0
  /\ open = {[provider |-> 1, attempt |-> 0]}
  /\ sent = [p \in Chain |-> IF p = 1 THEN 1 ELSE 0]
  /\ final = {}
  /\ cancelled = FALSE
  /\ outcome = "pending"
  /\ error = Error("none", 0)

\* A new attempt starts: one HTTP request.
Fetch(p, a, running) ==
  /\ stage' = "fetching"
  /\ provider' = p
  /\ attempt' = a
  /\ open' = running \union {[provider |-> p, attempt |-> a]}
  /\ sent' = [sent EXCEPT ![p] = @ + 1]
  /\ UNCHANGED <<outcome, cancelled>>

Settle(o, running) ==
  /\ stage' = "settled"
  /\ outcome' = o
  /\ open' = running
  /\ UNCHANGED <<provider, attempt, sent, cancelled>>

\* The failover loop: the next provider, or the last error.
NextProvider(running) ==
  IF provider < Providers THEN Fetch(provider + 1, 0, running) ELSE Settle("failed", running)

\* The provider's promise rejects.
ProviderFails(kind, running) ==
  /\ error' = Failure(kind)
  /\ final' = final \union {provider}
  /\ NextProvider(running)

\* Mutant: one attempt too many.
OneMoreAttempt == attempt <= MaxRetries

MayRetry == attempt < MaxRetries

\* The attempt failed in a way worth repeating.
RetryOrFail(kind, running) ==
  IF MayRetry
  THEN /\ stage' = "delay"
       /\ open' = running
       /\ error' = Failure(kind)
       /\ UNCHANGED <<provider, attempt, sent, final, cancelled, outcome>>
  ELSE ProviderFails(kind, running)

-----------------------------------------------------------------------------
Answered ==
  /\ stage = "fetching"
  /\ Settle("answer", open \ {Current})
  /\ UNCHANGED <<error, final>>

Rejected ==
  /\ stage = "fetching"
  /\ \E kind \in Terminal : ProviderFails(kind, open \ {Current})

\* A Retry-After beyond two minutes gives up at once.
TryAgain ==
  /\ stage = "fetching"
  /\ \E kind \in Retryable :
       \/ RetryOrFail(kind, open \ {Current})
       \/ kind = "busy_status" /\ ProviderFails(kind, open \ {Current})

\* Mutant: the timer rejects without aborting the request.
HttpTimeoutOnly == stage = "fetching" /\ RetryOrFail("timeout", open)

\* Mutant: only a repeated request is timed.
FirstAttemptUntimed == attempt > 0 /\ stage = "fetching" /\ RetryOrFail("timeout", open \ {Current})

\* The HTTP timer aborts the request and counts as a network error.
HttpTimeout == stage = "fetching" /\ RetryOrFail("timeout", open \ {Current})

DelayElapsed ==
  /\ stage = "delay"
  /\ Fetch(provider, attempt + 1, open)
  /\ UNCHANGED <<error, final>>

\* The failover timer aborts its controller, whose signal reaches the HTTP
\* request or the retry delay of that provider.
FailoverTimeout ==
  /\ Failover
  /\ stage \in {"fetching", "delay"}
  /\ error' = Error("provider_timeout", 0)
  /\ final' = final \union {provider}
  /\ NextProvider(open \ {Current})

\* Mutant: the chain takes the caller's abort for a failure of this provider.
AbortAdvances ==
  /\ stage # "settled"
  /\ cancelled' = TRUE
  /\ error' = Error("aborted", 0)
  /\ final' = final \union {provider}
  /\ IF provider < Providers
     THEN /\ provider' = provider + 1
          /\ attempt' = 0
          /\ open' = {[provider |-> provider + 1, attempt |-> 0]}
          /\ sent' = [sent EXCEPT ![provider + 1] = @ + 1]
          /\ UNCHANGED <<stage, outcome>>
     ELSE /\ stage' = "settled" /\ outcome' = "failed" /\ open' = {}
          /\ UNCHANGED <<provider, attempt, sent>>

\* The caller's signal aborts the request or the delay and ends the chain.
CallerAborts ==
  /\ ~cancelled
  /\ cancelled' = TRUE
  /\ IF stage = "settled"
     THEN UNCHANGED <<stage, outcome, open, error>>
     ELSE /\ stage' = "settled"
          /\ outcome' = "aborted"
          /\ open' = open \ {Current}
          /\ error' = Error("aborted", 0)
  /\ UNCHANGED <<provider, attempt, sent, final>>

-----------------------------------------------------------------------------
Next ==
  \/ Answered \/ Rejected \/ TryAgain \/ HttpTimeout \/ DelayElapsed
  \/ FailoverTimeout \/ CallerAborts

\* The timers of the HTTP client fire; nothing else is needed.
Spec == Init /\ [][Next]_vars /\ WF_vars(HttpTimeout) /\ WF_vars(DelayElapsed)

-----------------------------------------------------------------------------
(* Properties *)

Kinds == Retryable \union Terminal \union {"none", "timeout", "provider_timeout", "aborted"}

\* Type invariant.
TypeOK ==
  /\ stage \in {"fetching", "delay", "settled"}
  /\ provider \in Chain
  /\ attempt \in 0..MaxRetries
  /\ open \subseteq Request
  /\ sent \in [Chain -> Nat]
  /\ final \subseteq Chain
  /\ cancelled \in BOOLEAN
  /\ outcome \in {"pending", "answer", "aborted", "failed"}
  /\ error \in [kind : Kinds, attempts : Nat]

\* failover.mjs:47-49: no ghost request is left running once a timer or the
\* caller has given up on it, and never two at a time.
NoGhostRequest == open \subseteq IF stage = "fetching" THEN {Current} ELSE {}

\* Each provider gets at most 1 + maxRetries requests, and none before its turn
\* or after the chain has moved on.
RetryBudget ==
  /\ \A p \in Chain : sent[p] <= MaxRetries + 1
  /\ \A p \in Chain : p > provider => sent[p] = 0
  /\ sent[provider] = attempt + 1

\* A failed call has tried the whole chain, and the error it throws tells how
\* many requests the last provider got.
FailureIsHonest ==
  outcome = "failed" =>
    /\ final = Chain
    /\ error.attempts # 0 => error.attempts = sent[Providers]

\* What the theorems of ProviderCallProofs rest on.
CallInv ==
  /\ TypeOK
  /\ NoGhostRequest
  /\ RetryBudget
  /\ final = IF outcome = "failed" THEN Chain ELSE 1..(provider - 1)
  /\ outcome = "failed" => provider = Providers
  /\ stage = "settled" <=> outcome # "pending"
  /\ stage = "delay" => attempt < MaxRetries
  /\ cancelled => stage = "settled"
  /\ outcome = "failed" /\ error.attempts # 0 => error.attempts = attempt + 1

\* A caller's abort ends the call at once: it is reported as such, and no
\* provider is asked again, neither by a retry nor by the chain.
AbortEndsTheCall ==
  [][/\ cancelled => sent' = sent
     /\ ~cancelled /\ cancelled' /\ outcome = "pending" =>
          outcome' = "aborted" /\ sent' = sent]_vars

\* Every call settles, although a provider may never answer.
Settles == <>(stage = "settled")
=============================================================================
