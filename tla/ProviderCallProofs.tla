------------------------- MODULE ProviderCallProofs -------------------------
(***************************************************************************)
(* ProviderCall for any chain and any number of retries: CallInv is        *)
(* inductive, and a call is given a bounded number of events.              *)
(***************************************************************************)
EXTENDS ProviderCall, TLAPS

USE ProviderAssumption DEF ProviderAssumption

\* The first request opens the call.
LEMMA InitCall == Init => CallInv
<1> SUFFICES ASSUME Init PROVE CallInv
  OBVIOUS
<1>1. provider = 1 /\ attempt = 0 /\ stage = "fetching" /\ outcome = "pending" /\ final = {}
  BY DEF Init
<1>2. open = {[provider |-> 1, attempt |-> 0]} /\ 1 \in Chain /\ 0 \in 0..MaxRetries
  BY DEF Init, Chain
<1>3. error \in [kind : Kinds, attempts : Nat]
  BY DEF Init, Error, Kinds
<1>4. TypeOK
  <2>1. open \subseteq Request
    BY <1>2 DEF Request
  <2>2. sent \in [Chain -> Nat] /\ cancelled = FALSE
    BY DEF Init
  <2> QED
    BY <1>1, <1>2, <1>3, <2>1, <2>2 DEF TypeOK
<1>5. RetryBudget
  BY <1>1, <1>2 DEF Init, RetryBudget, Chain
<1>6. NoGhostRequest
  BY <1>1, <1>2 DEF NoGhostRequest, Current
<1> QED BY <1>1, <1>4, <1>5, <1>6, 1..(1 - 1) = {} DEF Init, CallInv

\* What a failing attempt leaves of the current request.
LEMMA ClosesCurrent == CallInv => open \ {Current} = {}
BY DEF CallInv, NoGhostRequest

\* The error of an attempt tells its number.
LEMMA FailureType ==
  ASSUME CallInv, NEW kind \in Kinds
  PROVE  /\ Failure(kind) \in [kind : Kinds, attempts : Nat]
         /\ Failure(kind).attempts # 0 => Failure(kind).attempts = attempt + 1
BY DEF CallInv, TypeOK, Failure, Error

\* The end of a provider's turn: the next provider starts with its first request,
\* or the call fails with every provider final.
LEMMA ProviderFailsInv ==
  ASSUME CallInv, stage # "settled",
         NEW kind \in Kinds, error' \in [kind : Kinds, attempts : Nat],
         error'.attempts # 0 => error'.attempts = attempt + 1,
         final' = final \union {provider}, NextProvider({})
  PROVE  CallInv'
<1>1. final' = 1..provider /\ provider \in Chain
  BY DEF CallInv, TypeOK, Chain
<1>2. CASE provider < Providers
  <2>1. /\ stage' = "fetching" /\ provider' = provider + 1 /\ attempt' = 0
        /\ open' = {[provider |-> provider + 1, attempt |-> 0]}
        /\ sent' = [sent EXCEPT ![provider + 1] = @ + 1]
        /\ outcome' = outcome /\ cancelled' = cancelled
    BY <1>2 DEF NextProvider, Fetch
  <2>2. TypeOK'
    BY <1>1, <1>2, <2>1 DEF CallInv, TypeOK, Chain, Request
  <2>3. RetryBudget'
    BY <1>1, <1>2, <2>1 DEF CallInv, TypeOK, RetryBudget, Chain
  <2>4. NoGhostRequest'
    BY <2>1 DEF NoGhostRequest, Current
  <2> QED
    BY <1>1, <1>2, <2>1, <2>2, <2>3, <2>4 DEF CallInv, TypeOK, Chain
<1>3. CASE ~(provider < Providers)
  <2>1. /\ stage' = "settled" /\ outcome' = "failed" /\ open' = {}
        /\ UNCHANGED <<provider, attempt, sent, cancelled>>
    BY <1>3 DEF NextProvider, Settle
  <2>2. provider = Providers /\ final' = Chain
    BY <1>1, <1>3 DEF Chain
  <2>3. TypeOK' /\ RetryBudget' /\ NoGhostRequest'
    BY <1>1, <2>1, <2>2 DEF CallInv, TypeOK, RetryBudget, NoGhostRequest, Chain
  <2> QED
    BY <2>1, <2>2, <2>3 DEF CallInv, Chain
<1> QED BY <1>2, <1>3

\* Another attempt is prepared, or the provider's turn ends.
LEMMA RetryInv ==
  ASSUME CallInv, stage # "settled", NEW kind \in Kinds, RetryOrFail(kind, open \ {Current})
  PROVE  CallInv'
<1>1. CASE MayRetry
  <2>1. /\ stage' = "delay" /\ open' = {} /\ error' = Failure(kind)
        /\ UNCHANGED <<provider, attempt, sent, final, cancelled, outcome>>
    BY <1>1, ClosesCurrent DEF RetryOrFail
  <2> QED
    BY <1>1, <2>1, FailureType
    DEF CallInv, TypeOK, NoGhostRequest, RetryBudget, MayRetry, Chain
<1>2. CASE ~MayRetry
  BY <1>2, FailureType, ProviderFailsInv, ClosesCurrent DEF RetryOrFail, ProviderFails
<1> QED BY <1>1, <1>2

\* The induction step: one case per action.
LEMMA NextCall == CallInv /\ [Next]_vars => CallInv'
<1> SUFFICES ASSUME CallInv, [Next]_vars PROVE CallInv'
  OBVIOUS
<1>1. CASE Answered
  BY <1>1 DEF Answered, Settle, CallInv, TypeOK, NoGhostRequest, RetryBudget, Chain
<1>2. CASE Rejected
  BY <1>2, FailureType, ProviderFailsInv, ClosesCurrent DEF Rejected, ProviderFails, Terminal, Kinds
<1>3. CASE TryAgain
  <2>1. PICK kind \in Retryable :
          RetryOrFail(kind, open \ {Current}) \/ ProviderFails(kind, open \ {Current})
    BY <1>3 DEF TryAgain
  <2>2. kind \in Kinds /\ stage # "settled"
    BY <1>3 DEF TryAgain, Kinds
  <2> QED
    BY <2>1, <2>2, RetryInv, FailureType, ProviderFailsInv, ClosesCurrent DEF ProviderFails
<1>4. CASE HttpTimeout
  BY <1>4, RetryInv DEF HttpTimeout, Kinds
<1>5. CASE DelayElapsed
  <2>1. /\ stage = "delay" /\ stage' = "fetching" /\ provider' = provider
        /\ attempt' = attempt + 1
        /\ open' = open \union {[provider |-> provider, attempt |-> attempt + 1]}
        /\ sent' = [sent EXCEPT ![provider] = @ + 1]
        /\ UNCHANGED <<outcome, cancelled, error, final>>
    BY <1>5 DEF DelayElapsed, Fetch
  <2>2. attempt < MaxRetries /\ open = {}
    BY <2>1 DEF CallInv, NoGhostRequest
  <2>3. TypeOK'
    BY <2>1, <2>2 DEF CallInv, TypeOK, Chain, Request
  <2>4. RetryBudget'
    BY <2>1, <2>2 DEF CallInv, TypeOK, RetryBudget, Chain
  <2>5. NoGhostRequest'
    BY <2>1, <2>2 DEF NoGhostRequest, Current
  <2> QED
    BY <2>1, <2>2, <2>3, <2>4, <2>5 DEF CallInv, TypeOK
<1>6. CASE FailoverTimeout
  BY <1>6, ProviderFailsInv, ClosesCurrent DEF FailoverTimeout, Error, Kinds
<1>7. CASE CallerAborts
  BY <1>7, ClosesCurrent
  DEF CallerAborts, Error, Kinds, CallInv, TypeOK, NoGhostRequest, RetryBudget, Chain, Current
<1>8. CASE UNCHANGED vars
  BY <1>8 DEF vars, CallInv, TypeOK, NoGhostRequest, RetryBudget, Chain, Request, Current, Kinds
<1> QED
  BY <1>1, <1>2, <1>3, <1>4, <1>5, <1>6, <1>7, <1>8 DEF Next

\* The inductive invariant of a provider call holds throughout.
THEOREM CallInvariance == Spec => []CallInv
BY InitCall, NextCall, PTL DEF Spec

\* However long the chain and the retry loops are, no HTTP request outlives the
\* attempt that made it, and there is one at a time (failover.mjs:47-49).
THEOREM NoRequestIsLeftRunning == Spec => []NoGhostRequest
<1>1. CallInv => NoGhostRequest
  BY DEF CallInv
<1> QED BY <1>1, CallInvariance, PTL

\* Every provider gets its turn once and at most 1 + maxRetries requests in it.
THEOREM RetriesAreBounded == Spec => []RetryBudget
<1>1. CallInv => RetryBudget
  BY DEF CallInv
<1> QED BY <1>1, CallInvariance, PTL

\* A call fails only after the whole chain did, and says how often it tried.
THEOREM FailuresAreHonest == Spec => []FailureIsHonest
<1>1. CallInv => FailureIsHonest
  BY DEF CallInv, TypeOK, FailureIsHonest, RetryBudget, Chain
<1> QED BY <1>1, CallInvariance, PTL

\* A step of a cancelled call sends nothing; the step that cancels it ends it.
LEMMA StepAfterAbort ==
  ASSUME CallInv, Next
  PROVE  /\ cancelled => sent' = sent
         /\ ~cancelled /\ cancelled' /\ outcome = "pending" =>
              outcome' = "aborted" /\ sent' = sent
<1>1. CASE CallerAborts
  BY <1>1 DEF CallerAborts, CallInv
<1>2. CASE Answered \/ Rejected \/ TryAgain \/ HttpTimeout \/ DelayElapsed \/ FailoverTimeout
  <2>1. stage # "settled" /\ cancelled' = cancelled
    BY <1>2
    DEF Answered, Rejected, TryAgain, HttpTimeout, DelayElapsed, FailoverTimeout, RetryOrFail,
        ProviderFails, NextProvider, Fetch, Settle
  <2> QED BY <2>1 DEF CallInv
<1> QED BY <1>1, <1>2 DEF Next

\* After the caller's abort no provider is asked again, by retry or by failover.
THEOREM AbortIsFinal == Spec => AbortEndsTheCall
<1>1. CallInv /\ [Next]_vars =>
        [/\ cancelled => sent' = sent
         /\ ~cancelled /\ cancelled' /\ outcome = "pending" =>
              outcome' = "aborted" /\ sent' = sent]_vars
  BY StepAfterAbort
<1> QED BY <1>1, CallInvariance, PTL DEF Spec, AbortEndsTheCall
-----------------------------------------------------------------------------
(* The end.  Each attempt is a request and a delay; a provider that fails    *)
(* takes the attempts it had left with it.                                   *)

AttemptsOf(providers) == providers * (MaxRetries + 1)
AttemptsLeft == AttemptsOf(Providers - provider) + (MaxRetries - attempt)

\* The events a call can still be given, at most.
EventsLeft ==
  (CASE stage = "settled" -> 0
     [] stage = "fetching" -> 2 * AttemptsLeft + 2
     [] OTHER -> 2 * AttemptsLeft + 1)
  + (IF cancelled THEN 0 ELSE 1)

\* Every answer, failure, timer or abort leaves fewer events: no order of them
\* makes a chain go back to a provider or a provider to an attempt.
EveryEventComesCloser == [][0 <= EventsLeft' /\ EventsLeft' < EventsLeft]_vars

LEMMA OneProviderLess ==
  ASSUME NEW n \in Nat \ {0}
  PROVE  /\ AttemptsOf(n) \in Nat /\ AttemptsOf(n - 1) \in Nat
         /\ AttemptsOf(n) = AttemptsOf(n - 1) + MaxRetries + 1
<1>1. n * (MaxRetries + 1) = (n - 1) * (MaxRetries + 1) + (MaxRetries + 1)
  OBVIOUS
<1>2. n * (MaxRetries + 1) \in Nat /\ (n - 1) * (MaxRetries + 1) \in Nat
  OBVIOUS
<1> QED BY <1>1, <1>2 DEF AttemptsOf

LEMMA NoProvider == AttemptsOf(0) = 0
BY DEF AttemptsOf

\* What is left, as a number of attempts.
LEMMA CountsAttempts ==
  ASSUME CallInv
  PROVE  /\ AttemptsOf(Providers - provider) \in Nat /\ MaxRetries - attempt \in Nat
         /\ AttemptsLeft \in Nat
<1>1. Providers - provider \in Nat /\ MaxRetries - attempt \in Nat
  BY DEF CallInv, TypeOK, Chain
<1>2. AttemptsOf(Providers - provider) \in Nat
  BY <1>1, OneProviderLess, NoProvider
<1> QED BY <1>1, <1>2 DEF AttemptsLeft

\* A provider that fails is followed by one with all its attempts, or by none.
LEMMA FailureComesCloser ==
  ASSUME CallInv, stage \in {"fetching", "delay"}, NEW running, NextProvider(running)
  PROVE  /\ UNCHANGED cancelled
         /\ stage' = "settled" \/ (stage' = "fetching" /\ AttemptsLeft' < AttemptsLeft)
<1>1. CASE provider < Providers
  <2>1. stage' = "fetching" /\ provider' = provider + 1 /\ attempt' = 0 /\ UNCHANGED cancelled
    BY <1>1 DEF NextProvider, Fetch
  <2>2. Providers - provider \in Nat \ {0} /\ (Providers - provider) - 1 = Providers - (provider + 1)
    BY <1>1 DEF CallInv, TypeOK, Chain
  <2>3. AttemptsOf(Providers - provider) = AttemptsOf(Providers - (provider + 1)) + MaxRetries + 1
    BY <2>2, OneProviderLess
  <2>4. AttemptsLeft' = AttemptsOf(Providers - (provider + 1)) + MaxRetries
    BY <2>1, CountsAttempts, <2>2, OneProviderLess DEF AttemptsLeft
  <2>5. AttemptsOf(Providers - (provider + 1)) \in Nat
    BY <2>2, OneProviderLess
  <2> QED BY <2>1, <2>3, <2>4, <2>5, CountsAttempts DEF AttemptsLeft
<1>2. CASE ~(provider < Providers)
  BY <1>2 DEF NextProvider, Settle
<1> QED BY <1>1, <1>2

\* What an attempt's failure leaves: a delay, or what its provider's failure leaves.
LEMMA RetryComesCloser ==
  ASSUME CallInv, stage = "fetching", NEW kind, NEW running, RetryOrFail(kind, running)
  PROVE  /\ UNCHANGED cancelled
         /\ \/ stage' = "settled"
            \/ stage' = "fetching" /\ AttemptsLeft' < AttemptsLeft
            \/ stage' = "delay" /\ AttemptsLeft' = AttemptsLeft
<1>1. CASE MayRetry
  BY <1>1 DEF RetryOrFail, AttemptsLeft
<1>2. CASE ~MayRetry
  <2>1. NextProvider(running)
    BY <1>2 DEF RetryOrFail, ProviderFails
  <2> QED BY <2>1, FailureComesCloser
<1> QED BY <1>1, <1>2

LEMMA EventComesCloser ==
  ASSUME CallInv, CallInv', Next
  PROVE  0 <= EventsLeft' /\ EventsLeft' < EventsLeft
<1>0. PICK m \in Nat, n \in Nat : AttemptsLeft = m /\ AttemptsLeft' = n
  <2>1. AttemptsLeft \in Nat
    BY CountsAttempts
  <2>2. AttemptsLeft' \in Nat
    <3>1. PICK p \in 1..Providers, i \in 0..MaxRetries : p = provider' /\ i = attempt'
      BY DEF CallInv, TypeOK, Chain
    <3>2. Providers - p \in Nat /\ MaxRetries - i \in Nat
      OBVIOUS
    <3>3. AttemptsOf(Providers - p) \in Nat
      BY <3>2, OneProviderLess, NoProvider
    <3> QED BY <3>1, <3>2, <3>3 DEF AttemptsLeft
  <2> QED BY <2>1, <2>2
<1>1. CASE CallerAborts
  <2>1. ~cancelled /\ cancelled' /\ stage' = "settled"
    BY <1>1 DEF CallerAborts
  <2>2. EventsLeft' = 0
    BY <2>1 DEF EventsLeft
  <2>3. EventsLeft = 1 \/ EventsLeft = 2 * m + 3 \/ EventsLeft = 2 * m + 2
    <3>1. EventsLeft = (CASE stage = "settled" -> 0
                          [] stage = "fetching" -> 2 * m + 2
                          [] OTHER -> 2 * m + 1) + 1
      BY <1>0, <2>1 DEF EventsLeft
    <3> QED BY <3>1
  <2> QED BY <1>0, <2>2, <2>3
<1>2. ASSUME \/ Answered \/ Rejected \/ TryAgain \/ HttpTimeout \/ DelayElapsed \/ FailoverTimeout
      PROVE  /\ stage \in {"fetching", "delay"} /\ UNCHANGED cancelled
             /\ \/ stage' = "settled"
                \/ stage' = "fetching" /\ n < m
                \/ stage = "fetching" /\ stage' = "delay" /\ n = m
  <2>1. CASE Answered
    BY <2>1 DEF Answered, Settle
  <2>2. CASE Rejected \/ FailoverTimeout
    BY <1>0, <2>2, FailureComesCloser DEF Rejected, FailoverTimeout, ProviderFails
  <2>3. CASE TryAgain
    BY <1>0, <2>3, FailureComesCloser, RetryComesCloser DEF TryAgain, ProviderFails
  <2>4. CASE HttpTimeout
    BY <1>0, <2>4, RetryComesCloser DEF HttpTimeout
  <2>5. CASE DelayElapsed
    <3>1. /\ stage = "delay" /\ stage' = "fetching" /\ provider' = provider
          /\ attempt' = attempt + 1 /\ UNCHANGED cancelled
      BY <2>5 DEF DelayElapsed, Fetch
    <3>2. AttemptsLeft' = AttemptsOf(Providers - provider) + (MaxRetries - (attempt + 1))
      BY <3>1 DEF AttemptsLeft
    <3>3. PICK a \in Nat : a = AttemptsOf(Providers - provider)
      BY CountsAttempts
    <3>4. n = a + (MaxRetries - (attempt + 1)) /\ m = a + (MaxRetries - attempt)
      BY <1>0, <3>2, <3>3 DEF AttemptsLeft
    <3>5. attempt \in Nat
      BY DEF CallInv, TypeOK
    <3> QED BY <3>1, <3>4, <3>5
  <2> QED BY <1>2, <2>1, <2>2, <2>3, <2>4, <2>5
<1>3. CASE Answered \/ Rejected \/ TryAgain \/ HttpTimeout \/ DelayElapsed \/ FailoverTimeout
  <2>1. PICK c \in {0, 1} : /\ c = IF cancelled THEN 0 ELSE 1
                            /\ c = IF cancelled' THEN 0 ELSE 1
    BY <1>2, <1>3
  <2>2. EventsLeft = IF stage = "fetching" THEN 2 * m + 2 + c ELSE 2 * m + 1 + c
    BY <1>0, <1>2, <1>3, <2>1 DEF EventsLeft
  <2>3. EventsLeft' = CASE stage' = "settled" -> c [] stage' = "fetching" -> 2 * n + 2 + c
                        [] OTHER -> 2 * n + 1 + c
    BY <1>0, <1>2, <1>3, <2>1 DEF EventsLeft
  <2> QED BY <1>2, <1>3, <2>2, <2>3
<1> QED BY <1>1, <1>3 DEF Next

\* Whatever the providers and the timers do, in whatever order, a call is given no
\* more events than 2 * providers * (1 + maxRetries) + 1: what Settles asks for, short
\* of the fairness of the timers (the loops of http-client.mjs and failover.mjs).
THEOREM CallsAreBounded ==
  Spec => [](EventsLeft <= 2 * AttemptsOf(Providers) + 1) /\ EveryEventComesCloser
<1>1. CallInv /\ [Next]_vars => [0 <= EventsLeft' /\ EventsLeft' < EventsLeft]_vars
  BY EventComesCloser, NextCall
<1>2. Spec => EveryEventComesCloser
  BY <1>1, CallInvariance, PTL DEF Spec, EveryEventComesCloser
<1>3. CallInv => EventsLeft <= 2 * AttemptsOf(Providers) + 1
  <2> SUFFICES ASSUME CallInv PROVE EventsLeft <= 2 * AttemptsOf(Providers) + 1
    OBVIOUS
  <2>1. provider \in Nat \ {0} /\ Providers - provider \in Nat /\ attempt \in Nat
    BY DEF CallInv, TypeOK, Chain
  <2>2. PICK a \in Nat, b \in Nat :
          /\ a = AttemptsOf(Providers - provider) /\ AttemptsOf(Providers) = a + b
          /\ MaxRetries + 1 <= b
    <3>1. Providers * (MaxRetries + 1) =
            (Providers - provider) * (MaxRetries + 1) + provider * (MaxRetries + 1)
      BY <2>1
    <3>2. AttemptsOf(provider) = AttemptsOf(provider - 1) + MaxRetries + 1
          /\ AttemptsOf(provider - 1) \in Nat /\ AttemptsOf(provider) \in Nat
      BY <2>1, OneProviderLess
    <3> QED BY <3>1, <3>2, CountsAttempts DEF AttemptsOf
  <2>3. PICK m \in Nat : AttemptsLeft = m /\ m <= a + MaxRetries
    BY <2>1, <2>2, CountsAttempts DEF AttemptsLeft
  <2>4. PICK e \in Nat : e = EventsLeft /\ e <= 2 * m + 3
    BY <2>3 DEF EventsLeft
  <2> QED BY <2>2, <2>3, <2>4
<1>4. Spec => [](EventsLeft <= 2 * AttemptsOf(Providers) + 1)
  BY <1>3, CallInvariance, PTL
<1> QED BY <1>2, <1>4
=============================================================================
